------------------------------ MODULE Scheduler ------------------------------
(***************************************************************************)
(* The telemetry scheduler (backend/app/telemetry/scheduler.py): one       *)
(* worker task per enabled server, the demand that wakes the tasks, and    *)
(* the reconciliation with the registry; with the sessions of the service  *)
(* that make the demand (service.py), the routes that edit the registry    *)
(* (api/v1/servers.py), and of the telemetry state (state.py) the status   *)
(* and the host the data is from.                                          *)
(*                                                                         *)
(* The demand revision is only ever compared for equality with the one a   *)
(* task observed, so it is a flag of the task: `behind`.                   *)
(***************************************************************************)
EXTENDS Naturals, FiniteSets, Fleet

CONSTANTS
  Hosts,       \* (ssh_host, username, port) of a record
  Intervals,   \* sample_interval_s of a record
  MaxTasks,    \* bound: tasks of one server that have not ended
  MaxEdits     \* bound: edits of the registry

ASSUME SchedulerAssumption ==
  /\ Hosts # {} /\ Intervals # {}
  /\ MaxTasks \in Nat \ {0} /\ MaxEdits \in Nat

Slots == 1 .. MaxTasks
NoTask == 0

(* "fast" stands for the groups every server runs (FAST, FLEETPROCS,       *)
(* STATIC), "detail" for those of the selected one (MEDIUM, PROCESS, SLOW) *)
Groups == {"fast", "detail"}

Record == [enabled : BOOLEAN, host : Hosts, interval : Intervals]
Status == {"unknown", "online", "degraded", "offline"}

(* The record of a disabled or deleted server. *)
Off == [enabled |-> FALSE, host |-> CHOOSE h \in Hosts : TRUE,
        interval |-> CHOOSE i \in Intervals : TRUE]
RegistryRecords == {r \in Record : r.enabled} \cup {Off}

VARIABLES
  registry,  \* [Servers -> RegistryRecords]
  pending,   \* edits whose route has not yet notified the telemetry
  edits,
  records,   \* Scheduler._records; Off: not in the dictionary
  workers,   \* Scheduler._workers: slot of the server's task, or NoTask
  wakeups,   \* Scheduler._wakeups: slot of the task whose event is registered
  task,      \* [Servers -> [Slots -> Task]]
  grace,     \* _last_client_seen is less than idle_grace_s ago
  phase,     \* "running", "stopping", "stopped"
  handlers,  \* clients with a handle_websocket in progress
  count,     \* TelemetryService._clients and Scheduler._active_clients
  selected,  \* TelemetryService._selected; {selected} is _detail_servers
  st         \* TelemetryState._servers: status, and the host the data is from

admin == <<registry, pending, edits>>
sched == <<records, workers, wakeups, task>>
demand == <<grace, handlers, count, selected>>
vars == <<admin, sched, demand, phase, st>>

Task == [pc : {"none", "new", "collecting", "sleeping"},
         cancelled : BOOLEAN,        \* cancel() was called on it
         rec : Record,               \* the record it was created with
         connected : BOOLEAN,        \* it has an executor
         behind : BOOLEAN,           \* observed_demand # _demand_revision
         woken : BOOLEAN,            \* its event is set
         due : SUBSET Groups]        \* groups with next_due <= now

Ended == [pc |-> "none", cancelled |-> FALSE, rec |-> Off, connected |-> FALSE,
          behind |-> TRUE, woken |-> FALSE, due |-> {}]
Created(r) == [Ended EXCEPT !.pc = "new", !.rec = r, !.due = Groups]

NoData == [exists |-> FALSE, status |-> "unknown", host |-> Off.host]

Live(s, k) == task[s][k].pc # "none" /\ ~task[s][k].cancelled

(* mode() *)
Interactive == count > 0 \/ grace

-----------------------------------------------------------------------------
(* State and demand *)

(* The section updates, errors and status that one batch stores. *)
StoreData(s, status, host) ==
  st' = [st EXCEPT ![s] = [exists |-> TRUE, status |-> status, host |-> host]]

(* set_demand: the tasks tk after a change to n clients and selection sel. *)
Demanded(tk, n, sel) ==
  IF n = count /\ sel = selected THEN tk
  ELSE [s \in Servers |-> [k \in Slots |->
          [tk[s][k] EXCEPT !.behind = TRUE, !.woken = @ \/ wakeups[s] = k]]]

SetDemand(tk, n, sel) ==
  /\ task' = Demanded(tk, n, sel)
  /\ count' = n
  /\ selected' = sel
  /\ grace' = (grace \/ n > 0)

-----------------------------------------------------------------------------
(* Worker tasks *)

EnabledGroups(s) == IF selected = s /\ Interactive THEN Groups ELSE {"fast"}

(* Groups due at the top of the loop: a demand change makes them due. *)
DueNow(s, t) ==
  IF t.behind
  THEN t.due \cup {"fast"} \cup (IF selected = s /\ Interactive THEN {"detail"} ELSE {})
  ELSE t.due

(* No group is due: those that are not enabled will be when they are. *)
Sleep(s, t, due) ==
  [t EXCEPT !.pc = "sleeping", !.behind = FALSE, !.woken = FALSE,
            !.due = due \cup (Groups \ EnabledGroups(s))]

(* The loop from its top to the next await, for a task in state t. *)
LoopTop(s, t) ==
  IF DueNow(s, t) \cap EnabledGroups(s) # {}
  THEN [t EXCEPT !.pc = "collecting", !.connected = TRUE, !.behind = FALSE,
                 !.due = DueNow(s, t) \ EnabledGroups(s)]
  ELSE Sleep(s, t, DueNow(s, t))

(* A task starts (and registers its event) or leaves wait_for: woken, or   *)
(* because time has passed and made the groups in `newly` due.             *)
Begin(s, k, newly) ==
  LET t == [task[s][k] EXCEPT !.due = @ \cup newly]
  IN /\ Live(s, k) /\ t.pc \in {"new", "sleeping"}
     /\ wakeups' = IF t.pc = "new" THEN [wakeups EXCEPT ![s] = k] ELSE wakeups
     /\ \/ /\ task' = [task EXCEPT ![s][k] = LoopTop(s, t)]
           /\ UNCHANGED st
        \/ (* the executor factory raises: offline, and a backoff *)
           /\ ~t.connected /\ DueNow(s, t) \cap EnabledGroups(s) # {}
           /\ task' = [task EXCEPT ![s][k] = Sleep(s, t, {})]
           /\ StoreData(s, "offline", t.rec.host)
     /\ UNCHANGED <<admin, records, workers, demand, phase>>

(* Clear-then-check at the end of the loop: it goes on at once if the      *)
(* demand changed during the await.                                        *)
Rest(s, t) ==
  LET u == [t EXCEPT !.woken = FALSE]
  IN IF u.behind THEN LoopTop(s, u) ELSE [u EXCEPT !.pc = "sleeping"]

(* Mutant of Collected: the results are stored although the task was       *)
(* cancelled while it waited for them.                                     *)
CollectedLate(s, k, newly) ==
  /\ task[s][k].pc = "collecting"
  /\ StoreData(s, "online", task[s][k].rec.host)
  /\ task' = [task EXCEPT ![s][k].pc = "sleeping"]
  /\ UNCHANGED <<admin, records, workers, wakeups, demand, phase>>

(* _collect has its results: each section is stored or its error is, then  *)
(* the status; the groups are due again later.  A transport failure delays *)
(* every group.                                                            *)
Collected(s, k, newly) ==
  LET t == [task[s][k] EXCEPT !.due = @ \cup newly]
  IN /\ Live(s, k) /\ t.pc = "collecting"
     /\ \/ /\ \E status \in {"online", "degraded"} : StoreData(s, status, t.rec.host)
           /\ task' = [task EXCEPT ![s][k] = Rest(s, t)]
        \/ /\ StoreData(s, "offline", t.rec.host)
           /\ task' = [task EXCEPT ![s][k] = Rest(s, [t EXCEPT !.due = {}])]
     /\ UNCHANGED <<admin, records, workers, wakeups, demand, phase>>

(* Mutant of Unwind: `finally` removes whichever event is registered. *)
UnwindAny(s, k) ==
  /\ task[s][k].pc # "none" /\ task[s][k].cancelled
  /\ task' = [task EXCEPT ![s][k] = Ended]
  /\ wakeups' = [wakeups EXCEPT ![s] = NoTask]
  /\ UNCHANGED <<admin, records, workers, demand, phase, st>>

(* CancelledError at the await of a cancelled task, and its `finally`. *)
Unwind(s, k) ==
  /\ task[s][k].pc # "none" /\ task[s][k].cancelled
  /\ task' = [task EXCEPT ![s][k] = Ended]
  /\ wakeups' = IF wakeups[s] = k THEN [wakeups EXCEPT ![s] = NoTask] ELSE wakeups
  /\ UNCHANGED <<admin, records, workers, demand, phase, st>>

-----------------------------------------------------------------------------
(* Reconciliation with the registry *)

IdentityChanged(s, r) == records[s].enabled /\ records[s].host # r.host
SamplingChanged(s, r) == records[s].enabled /\ records[s].interval # r.interval

(* Mutant of Cancels: a new sampling interval does not restart the task. *)
CancelsHostOnly(s, r) ==
  workers[s] # NoTask /\ (~r.enabled \/ IdentityChanged(s, r))

Cancels(s, r) ==
  workers[s] # NoTask /\ (~r.enabled \/ IdentityChanged(s, r) \/ SamplingChanged(s, r))
Creates(s, r) == r.enabled /\ (workers[s] = NoTask \/ Cancels(s, r))

(* Data is dropped for a new host, and for a server that is not enabled. *)
Clears(s, r) == ~r.enabled \/ IdentityChanged(s, r)

FreeSlots(s) == {k \in Slots : task[s][k].pc = "none"}
NextSlot(s) == CHOOSE k \in FreeSlots(s) : \A i \in FreeSlots(s) : k <= i

(* The tasks of s after record r was applied. *)
Reconciled(s, r) ==
  [k \in Slots |->
     CASE Cancels(s, r) /\ k = workers[s] -> [task[s][k] EXCEPT !.cancelled = TRUE]
       [] Creates(s, r) /\ k = NextSlot(s) -> Created(r)
       [] OTHER -> task[s][k]]

Deselects(reg) == selected # NoServer /\ ~reg[selected].enabled

(* reconcile_servers: the scheduler applies registry reg, and a server     *)
(* that is gone is no longer selected.                                     *)
Reconcile(reg) ==
  LET tk == [s \in Servers |-> Reconciled(s, reg[s])]
  IN /\ \A s \in Servers : Creates(s, reg[s]) => FreeSlots(s) # {}
     /\ records' = reg
     /\ workers' = [s \in Servers |->
                      CASE Creates(s, reg[s]) -> NextSlot(s)
                        [] ~reg[s].enabled -> NoTask
                        [] OTHER -> workers[s]]
     /\ st' = [s \in Servers |-> IF Clears(s, reg[s]) THEN NoData ELSE st[s]]
     /\ IF Deselects(reg) THEN SetDemand(tk, count, NoServer)
        ELSE task' = tk /\ UNCHANGED <<count, selected, grace>>
     /\ UNCHANGED <<handlers, wakeups, phase>>

(* A route changes the record of s.  If the identity changed or the server *)
(* was disabled it first waits for close_server, and others run meanwhile. *)
EditServer(s, r) ==
  LET old == registry[s]
      waits == old.enabled /\ (old.host # r.host \/ ~r.enabled)
  IN /\ phase = "running" /\ edits < MaxEdits /\ r # old
     /\ edits' = edits + 1
     /\ registry' = [registry EXCEPT ![s] = r]
     /\ \/ /\ waits
           /\ pending' = pending + 1
           /\ UNCHANGED <<sched, demand, st, phase>>
        \/ /\ ~waits
           /\ Reconcile(registry')
           /\ UNCHANGED pending

(* notify_registry_changed, after close_server. *)
Notify ==
  /\ phase = "running" /\ pending > 0
  /\ pending' = pending - 1
  /\ Reconcile(registry)
  /\ UNCHANGED <<registry, edits>>

-----------------------------------------------------------------------------
(* Sessions: handle_websocket *)

Connect(c) ==
  /\ phase = "running" /\ c \notin handlers
  /\ handlers' = handlers \cup {c}
  /\ SetDemand(task, count + 1, selected)
  /\ UNCHANGED <<admin, records, workers, wakeups, phase, st>>

(* set_selected, with whatever id the browser sent *)
Select(c, s) ==
  /\ c \in handlers
  /\ SetDemand(task, count, s)
  /\ UNCHANGED <<admin, records, workers, wakeups, handlers, phase, st>>

(* Mutant of Disconnect: the selection outlives the last session. *)
DisconnectSelected(c) ==
  /\ c \in handlers
  /\ handlers' = handlers \ {c}
  /\ SetDemand(task, count - 1, selected)
  /\ UNCHANGED <<admin, records, workers, wakeups, phase, st>>

(* The session ends: note_client_disconnected.  The last one to leave      *)
(* clears the selection.                                                   *)
Disconnect(c) ==
  /\ c \in handlers
  /\ handlers' = handlers \ {c}
  /\ SetDemand(task, count - 1, IF count = 1 THEN NoServer ELSE selected)
  /\ UNCHANGED <<admin, records, workers, wakeups, phase, st>>

-----------------------------------------------------------------------------
(* Time and shutdown *)

GraceOver ==
  /\ grace
  /\ grace' = FALSE
  /\ UNCHANGED <<admin, sched, handlers, count, selected, phase, st>>

(* stop(): requests are over; it cancels the tasks it knows and waits. *)
Stop ==
  /\ phase = "running" /\ pending = 0
  /\ phase' = "stopping"
  /\ task' = [s \in Servers |-> [k \in Slots |->
                IF k = workers[s] THEN [task[s][k] EXCEPT !.cancelled = TRUE] ELSE task[s][k]]]
  /\ UNCHANGED <<admin, records, workers, wakeups, demand, st>>

Stopped ==
  /\ phase = "stopping"
  /\ \A s \in Servers : workers[s] # NoTask => task[s][workers[s]].pc = "none"
  /\ phase' = "stopped"
  /\ workers' = [s \in Servers |-> NoTask]
  /\ records' = [s \in Servers |-> Off]
  /\ UNCHANGED <<admin, wakeups, task, demand, st>>

-----------------------------------------------------------------------------
(* After start(): one new task for every enabled server. *)
Init ==
  /\ registry \in [Servers -> RegistryRecords]
  /\ pending = 0 /\ edits = 0
  /\ records = registry
  /\ workers = [s \in Servers |-> IF registry[s].enabled THEN 1 ELSE NoTask]
  /\ wakeups = [s \in Servers |-> NoTask]
  /\ task = [s \in Servers |-> [k \in Slots |->
               IF k = 1 /\ registry[s].enabled THEN Created(registry[s]) ELSE Ended]]
  /\ grace = FALSE /\ phase = "running"
  /\ handlers = {} /\ count = 0 /\ selected = NoServer
  /\ st = [s \in Servers |-> NoData]

Next ==
  \/ \E s \in Servers, k \in Slots :
       \/ \E newly \in SUBSET Groups : Begin(s, k, newly) \/ Collected(s, k, newly)
       \/ Unwind(s, k)
  \/ \E s \in Servers, r \in RegistryRecords : EditServer(s, r)
  \/ Notify
  \/ \E c \in Clients :
       \/ Connect(c) \/ Disconnect(c)
       \/ \E s \in Servers \cup {NoServer} : Select(c, s)
  \/ GraceOver \/ Stop \/ Stopped

Spec == Init /\ [][Next]_vars

-----------------------------------------------------------------------------
(* Properties *)

(* Every variable has its type, and no more notifications are pending than *)
(* edits were made.                                                        *)
TypeOK ==
  /\ registry \in [Servers -> RegistryRecords] /\ records \in [Servers -> RegistryRecords]
  /\ pending \in 0 .. MaxEdits /\ edits \in 0 .. MaxEdits
  /\ workers \in [Servers -> Slots \cup {NoTask}]
  /\ wakeups \in [Servers -> Slots \cup {NoTask}]
  /\ task \in [Servers -> [Slots -> Task]]
  /\ grace \in BOOLEAN
  /\ phase \in {"running", "stopping", "stopped"}
  /\ handlers \subseteq Clients /\ count \in Nat
  /\ selected \in Servers \cup {NoServer}
  /\ st \in [Servers -> [exists : BOOLEAN, status : Status, host : Hosts]]

(* The only task of a server that goes on collecting is the one the        *)
(* scheduler keeps, it works from the latest record the scheduler was      *)
(* given, and once every edit was notified that is the registry's.         *)
WorkersMatchRegistry ==
  phase = "running" =>
    /\ \A s \in Servers :
         /\ {k \in Slots : Live(s, k)} = {workers[s]} \ {NoTask}
         /\ workers[s] # NoTask <=> records[s].enabled
         /\ workers[s] # NoTask => task[s][workers[s]].rec = records[s]
    /\ pending = 0 => records = registry

(* What is stored of a server was read from the host its record names now: *)
(* nothing of the old host, of a disabled or of a deleted server is left.  *)
DataOfCurrentHost ==
  phase = "running" =>
    \A s \in Servers :
      st[s].exists => records[s].enabled /\ st[s].host = records[s].host

(* No task sleeps on a demand it has not seen without being woken for it.  *)
NoLostWakeup ==
  \A s \in Servers, k \in Slots :
    Live(s, k) /\ task[s][k].pc = "sleeping" /\ task[s][k].behind => task[s][k].woken

(* The demand is that of the sessions in progress; without one nothing is  *)
(* selected, so no server is collected in detail for nobody.               *)
DemandMatchesSessions ==
  /\ count = Cardinality(handlers)
  /\ handlers = {} => selected = NoServer
=============================================================================
