----------------------------- MODULE RealtimeHub -----------------------------
(***************************************************************************)
(* The realtime hub (backend/app/telemetry/hub.py): its broadcast loop,    *)
(* the bounded queue and the sender task of each client, and the selection *)
(* they share; with the changes of the telemetry state (state.py) that     *)
(* wake it.                                                                *)
(*                                                                         *)
(* The fleet revision only grows and is only compared for equality with    *)
(* the one a client was sent, so it is a flag of the client, and of every  *)
(* fleet frame on its way: is it of the latest revision?  The version of a *)
(* server's snapshot starts again when its data is dropped, so that an old *)
(* number may meet a new one: see Bumped.                                  *)
(***************************************************************************)
EXTENDS Naturals, Sequences, FiniteSets, Fleet

CONSTANT QueueSize    \* settings.client_queue_size

ASSUME HubAssumption == QueueSize \in Nat \ {0} /\ IsFiniteSet(Servers)

(* Statuses differ in what follows only in being unknown or not. *)
HubStatus == {"unknown", "online", "offline"}
Absent == "absent"   \* the state has no entry for the server

(* <<"hello">>, <<"status">>, <<"server", s>> and <<"fleet", latest?>> *)
Frames == {<<"hello">>, <<"status">>} \cup ({"fleet"} \X BOOLEAN)
            \cup ({"server"} \X Servers)

VARIABLES
  running,     \* between start() and stop()
  status,      \* TelemetryState._servers: the status of each, or Absent
  intent,      \* RealtimeHub._selected
  wake,        \* RealtimeHub._wake
  sentStatus,  \* RealtimeHub._sent_status
  clients,     \* RealtimeHub._clients
  queue,       \* _Client.queue
  inflight,    \* the frame in the hands of the sender: one or none
  fleetSent,   \* _Client.fleet_revision is the latest
  snapSent,    \* _Client.snapshot_version: "never", "sent" (the latest),
               \* "other", or "past" (of data that was dropped since)
  viewFleet,   \* the last fleet frame the browser got is the latest
  viewServer,  \* the server of the last snapshot the browser got
  lossy        \* history: clients whose queue dropped a frame since they
               \* connected or the selection was last set

source == <<status, intent>>
view == <<viewFleet, viewServer>>
marks == <<fleetSent, snapSent>>
hubVars == <<running, source, wake, sentStatus, clients, queue, inflight, marks, view, lossy>>

Nobody == [c \in Clients |-> FALSE]
NeverSent == [c \in Clients |-> "never"]

-----------------------------------------------------------------------------
(* Changes of the telemetry state *)

(* A new fleet revision: what clients have or are about to get is old. *)
Outdated(q) ==
  [i \in DOMAIN q |-> IF q[i][1] = "fleet" THEN <<"fleet", FALSE>> ELSE q[i]]

FleetBumped ==
  /\ queue' = [c \in Clients |-> Outdated(queue[c])]
  /\ inflight' = [c \in Clients |-> Outdated(inflight[c])]
  /\ fleetSent' = Nobody
  /\ viewFleet' = Nobody
  /\ wake' = TRUE
  /\ UNCHANGED <<running, intent, clients, sentStatus, viewServer, lossy>>

(* snapshot_version against the raised version of s: that of dropped data  *)
(* may happen to be the new one.                                           *)
Bumped(s, hit) ==
  [c \in Clients |->
     CASE s # intent -> snapSent[c]
       [] snapSent[c] = "sent" -> "other"
       [] snapSent[c] = "past" /\ hit -> "sent"
       [] OTHER -> snapSent[c]]

(* What the scheduler stores of one batch, without an await in between:    *)
(* sections, errors, status.  Each batch that changes anything raises the  *)
(* version and the fleet revision.                                         *)
Store(s, v) ==
  /\ running
  /\ status' = [status EXCEPT ![s] = v]
  /\ FleetBumped
  /\ \E hit \in BOOLEAN : snapSent' = Bumped(s, hit)

(* clear: the server was disabled, deleted or is another host now. *)
Clear(s) ==
  /\ running
  /\ status' = [status EXCEPT ![s] = Absent]
  /\ FleetBumped
  /\ snapSent' = [c \in Clients |->
                    IF s = intent /\ snapSent[c] # "never" THEN "past" ELSE snapSent[c]]

-----------------------------------------------------------------------------
(* Clients *)

(* Mutant of connect: a new client starts at the latest fleet revision. *)
connect_current(c) ==
  /\ running /\ c \notin clients
  /\ clients' = clients \cup {c}
  /\ queue' = [queue EXCEPT ![c] = <<<<"hello">>>>]
  /\ fleetSent' = [fleetSent EXCEPT ![c] = TRUE]
  /\ wake' = TRUE
  /\ UNCHANGED <<running, source, sentStatus, inflight, snapSent, view, lossy>>

(* connect: hello is its first frame. *)
connect(c) ==
  /\ running /\ c \notin clients
  /\ clients' = clients \cup {c}
  /\ queue' = [queue EXCEPT ![c] = <<<<"hello">>>>]
  /\ inflight' = [inflight EXCEPT ![c] = <<>>]
  /\ fleetSent' = [fleetSent EXCEPT ![c] = FALSE]
  /\ snapSent' = [snapSent EXCEPT ![c] = "never"]
  /\ viewFleet' = [viewFleet EXCEPT ![c] = FALSE]
  /\ viewServer' = [viewServer EXCEPT ![c] = NoServer]
  /\ wake' = TRUE
  /\ lossy' = lossy \ {c}
  /\ UNCHANGED <<running, source, sentStatus>>

(* The client is no longer served: its session ended, or a send failed. *)
Drop(c) ==
  /\ clients' = clients \ {c}
  /\ queue' = [queue EXCEPT ![c] = <<>>]
  /\ inflight' = [inflight EXCEPT ![c] = <<>>]
  /\ fleetSent' = [fleetSent EXCEPT ![c] = FALSE]
  /\ snapSent' = [snapSent EXCEPT ![c] = "never"]
  /\ viewFleet' = [viewFleet EXCEPT ![c] = FALSE]
  /\ viewServer' = [viewServer EXCEPT ![c] = NoServer]
  /\ lossy' = lossy \ {c}
  /\ UNCHANGED <<running, source, wake, sentStatus>>

disconnect(c) == c \in clients /\ Drop(c)

(* Mutant of set_intent: the snapshot version of the old selection is kept. *)
set_intent_kept(s) ==
  /\ running
  /\ intent' = s
  /\ fleetSent' = Nobody
  /\ wake' = TRUE
  /\ UNCHANGED <<running, status, sentStatus, clients, queue, inflight, snapSent, view, lossy>>

(* set_intent: everything is sent to everyone again. *)
set_intent(s) ==
  /\ running
  /\ intent' = s
  /\ fleetSent' = Nobody
  /\ snapSent' = NeverSent
  /\ wake' = TRUE
  /\ lossy' = {}
  /\ UNCHANGED <<running, status, sentStatus, clients, queue, inflight, view>>

-----------------------------------------------------------------------------
(* The broadcast loop and the senders *)

News == {s \in Servers : status[s] \notin {Absent, sentStatus[s]}}
StatusFrames ==
  [i \in 1 .. Cardinality({s \in News : status[s] # "unknown"}) |-> <<"status">>]
ShowsSelected == intent # NoServer /\ status[intent] # Absent

FramesFor(c) ==
  (IF fleetSent[c] THEN <<>> ELSE <<<<"fleet", TRUE>>>>)
    \o (IF ShowsSelected /\ snapSent[c] # "sent" THEN <<<<"server", intent>>>> ELSE <<>>)
    \o StatusFrames

(* enqueue, frame by frame: a full queue drops its oldest frame. *)
Newest(q) == IF Len(q) > QueueSize THEN SubSeq(q, Len(q) - QueueSize + 1, Len(q)) ELSE q

(* Clear the event, then _push_changes; woken, or after a second. *)
Push ==
  /\ running
  /\ wake' = FALSE
  /\ queue' = [c \in Clients |->
                 IF c \in clients THEN Newest(queue[c] \o FramesFor(c)) ELSE queue[c]]
  /\ fleetSent' = [c \in Clients |-> c \in clients]
  /\ snapSent' = [c \in Clients |->
                    IF c \in clients /\ ShowsSelected THEN "sent" ELSE snapSent[c]]
  /\ sentStatus' = [s \in Servers |-> IF s \in News THEN status[s] ELSE sentStatus[s]]
  /\ lossy' = lossy \cup {c \in clients : Len(queue[c] \o FramesFor(c)) > QueueSize}
  /\ UNCHANGED <<running, source, clients, inflight, view>>

(* _send_loop takes the next frame ... *)
Take(c) ==
  /\ inflight[c] = <<>> /\ queue[c] # <<>>
  /\ inflight' = [inflight EXCEPT ![c] = <<Head(queue[c])>>]
  /\ queue' = [queue EXCEPT ![c] = Tail(@)]
  /\ UNCHANGED <<running, source, wake, sentStatus, clients, marks, view, lossy>>

(* ... and it arrives ... *)
Sent(c) ==
  LET frame == inflight[c][1]
  IN /\ inflight[c] # <<>>
     /\ inflight' = [inflight EXCEPT ![c] = <<>>]
     /\ viewFleet' = IF frame[1] = "fleet" THEN [viewFleet EXCEPT ![c] = frame[2]]
                     ELSE viewFleet
     /\ viewServer' = IF frame[1] = "server" THEN [viewServer EXCEPT ![c] = frame[2]]
                      ELSE viewServer
     /\ UNCHANGED <<running, source, wake, sentStatus, clients, queue, marks, lossy>>

(* ... or the websocket is broken and the client is dropped. *)
SendFails(c) == inflight[c] # <<>> /\ Drop(c)

(* stop: the loop and every sender end. *)
stop ==
  /\ running
  /\ running' = FALSE
  /\ wake' = TRUE
  /\ clients' = {}
  /\ queue' = [c \in Clients |-> <<>>]
  /\ inflight' = [c \in Clients |-> <<>>]
  /\ lossy' = {}
  /\ UNCHANGED <<source, sentStatus, marks, view>>

-----------------------------------------------------------------------------
HubInit ==
  /\ running = TRUE
  /\ status = [s \in Servers |-> Absent]
  /\ intent = NoServer
  /\ wake = FALSE
  /\ sentStatus = [s \in Servers |-> Absent]
  /\ clients = {}
  /\ queue = [c \in Clients |-> <<>>] /\ inflight = [c \in Clients |-> <<>>]
  /\ fleetSent = Nobody /\ snapSent = NeverSent
  /\ viewFleet = Nobody
  /\ viewServer = [c \in Clients |-> NoServer]
  /\ lossy = {}

HubNext ==
  \/ \E s \in Servers : Clear(s) \/ \E v \in HubStatus : Store(s, v)
  \/ \E c \in Clients :
       connect(c) \/ disconnect(c) \/ Take(c) \/ Sent(c) \/ SendFails(c)
  \/ \E s \in Servers \cup {NoServer} : set_intent(s)
  \/ Push \/ stop

HubSpec == HubInit /\ [][HubNext]_hubVars

-----------------------------------------------------------------------------
(* Properties *)

(* Every variable has its type; no queue exceeds its size. *)
HubTypeOK ==
  /\ status \in [Servers -> HubStatus \cup {Absent}]
  /\ sentStatus \in [Servers -> HubStatus \cup {Absent}]
  /\ intent \in Servers \cup {NoServer}
  /\ running \in BOOLEAN /\ wake \in BOOLEAN
  /\ clients \subseteq Clients /\ lossy \subseteq clients
  /\ queue \in [Clients -> Seq(Frames)] /\ inflight \in [Clients -> Seq(Frames)]
  /\ \A c \in Clients : Len(queue[c]) <= QueueSize /\ Len(inflight[c]) <= 1
  /\ fleetSent \in [Clients -> BOOLEAN] /\ viewFleet \in [Clients -> BOOLEAN]
  /\ snapSent \in [Clients -> {"never", "sent", "other", "past"}]
  /\ viewServer \in [Clients -> Servers \cup {NoServer}]

Quiet(c) == c \in clients /\ ~wake /\ queue[c] = <<>> /\ inflight[c] = <<>>

(* A client for which nothing is left to be pushed or sent shows the       *)
(* latest fleet, however slow it was and whatever its queue dropped.       *)
QuietFleetCurrent == \A c \in Clients : Quiet(c) => viewFleet[c]

(* Such a client, if its queue dropped nothing since the selection was     *)
(* set, shows the selected server (if there is data of it), and not the    *)
(* one that was selected before or when it connected.                      *)
QuietShowsSelected ==
  \A c \in Clients :
    Quiet(c) /\ c \notin lossy /\ ShowsSelected => viewServer[c] = intent
=============================================================================
