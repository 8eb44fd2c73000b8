----------------------------- MODULE SshManager -----------------------------
(***************************************************************************)
(* The connection manager (backend/app/ssh/manager.py) and its managed     *)
(* connections (backend/app/ssh/connection.py), seen from one server: the  *)
(* entries of different servers share nothing but the global slots, and    *)
(* those are taken before an entry is looked at.                           *)
(*                                                                         *)
(* Callers are the tasks that call run, acquire_connection,                *)
(* test_connection and close_server (telemetry workers, REST handlers,     *)
(* transfers).  self._lock is never held across an await, so what it       *)
(* guards is one step.  The per-server semaphore and the connect lock wake *)
(* their waiters in order of arrival (asyncio), so each has a queue here.  *)
(***************************************************************************)
EXTENDS Naturals, Sequences, FiniteSets

CONSTANTS
  Callers,       \* tasks that call the manager
  Identities,    \* (ssh_host, username, port) of the server's record
  MaxCalls,      \* bound: calls that are made
  MaxEntries,    \* bound: ManagedConnection objects that are built
  MaxGlobal,     \* settings.max_in_flight_global
  MaxPerServer   \* settings.max_in_flight_per_server

ASSUME BoundAssumption ==
  /\ MaxCalls \in Nat /\ MaxEntries \in Nat
  /\ MaxGlobal \in Nat \ {0} /\ MaxPerServer \in Nat \ {0}
  /\ IsFiniteSet(Callers)

Entries == 1 .. MaxEntries
NoEntry == 0
Ops == {"run", "acquire", "test", "close"}
NoIdentity == "none"

VARIABLES
  record,    \* identity in the server registry
  managed,   \* self._managed: the current entry, or NoEntry
  retiring,  \* self._retiring (and its retire event)
  built,     \* entries built so far
  ident,     \* [Entries -> identity in self._identities]
  open,      \* [Entries -> ManagedConnection.is_open()]
  backoff,   \* [Entries -> ManagedConnection.in_backoff()]
  free,      \* [Entries -> free permits of the per-server semaphore]
  slotQ,     \* [Entries -> callers waiting for a permit]
  locked,    \* [Entries -> the connect lock is held]
  lockQ,     \* [Entries -> callers waiting for the connect lock]
  inGlobal,  \* callers inside `async with self._global_slots`
  calls,     \* calls made so far
  pc, op, rec, ent, drained,  \* per caller: await, call, its record, entry,
                              \* and permits that close_server has drained
  stray      \* history: entries whose close() was cancelled before it began

entries == <<managed, retiring, built, ident>>
links == <<open, backoff>>
queues == <<free, slotQ, locked, lockQ>>
locals == <<op, rec, ent, drained>>
vars == <<record, entries, links, queues, inGlobal, calls, pc, locals, stray>>

(* The await a caller is suspended in:                                     *)
(*   global   the global slot            slot      the per-server slot     *)
(*   lock     the connect lock           connecting  the connect factory   *)
(*   running  the remote command         drain     a permit, to retire     *)
(*   closeLock  the connect lock, to close        closing  wait_closed     *)
(*   waitRetired  the retire event       retired   the event is set        *)
PC == {"idle", "global", "slot", "lock", "connecting", "running", "drain",
       "closeLock", "closing", "waitRetired", "retired"}

InUse(e) == \E c \in Callers : pc[c] # "idle" /\ ent[c] = e

-----------------------------------------------------------------------------
(* Pieces of the methods between two awaits *)

(* A call returns or raises: what its context managers hold is released.   *)
(* `held` is how many permits of its entry the caller has.                 *)
Leave(c, held) ==
  /\ pc' = [pc EXCEPT ![c] = "idle"]
  /\ op' = [op EXCEPT ![c] = "none"]
  /\ rec' = [rec EXCEPT ![c] = NoIdentity]
  /\ ent' = [ent EXCEPT ![c] = NoEntry]
  /\ inGlobal' = inGlobal \ {c}
  /\ free' = IF held = 0 THEN free ELSE [free EXCEPT ![ent[c]] = @ + held]
  /\ UNCHANGED drained

(* The call goes on, as o for record r; g are the callers in the global slot. *)
GoOn(c, o, r, g) ==
  /\ op' = [op EXCEPT ![c] = o]
  /\ rec' = [rec EXCEPT ![c] = r]
  /\ inGlobal' = g

(* close_server up to its first await: one caller owns the retirement, the *)
(* others wait for its event.                                              *)
BeginClose(c) ==
  /\ \/ /\ retiring
        /\ pc' = [pc EXCEPT ![c] = "waitRetired"]
        /\ UNCHANGED <<retiring, slotQ, ent>>
     \/ /\ ~retiring /\ managed # NoEntry
        /\ retiring' = TRUE
        /\ ent' = [ent EXCEPT ![c] = managed]
        /\ slotQ' = [slotQ EXCEPT ![managed] = Append(@, c)]
        /\ pc' = [pc EXCEPT ![c] = "drain"]
  /\ UNCHANGED <<managed, built, ident, free, lockQ, drained>>

(* The entry: the managed one, or one built for record r. *)
BuildEntry(r) ==
  \/ managed # NoEntry /\ UNCHANGED entries
  \/ /\ managed = NoEntry
     /\ built < MaxEntries
     /\ built' = built + 1
     /\ managed' = built + 1
     /\ ident' = [ident EXCEPT ![built + 1] = r]
     /\ UNCHANGED retiring

(* The second half of _get_entry: refused while the server retires, or     *)
(* when other servers fill the table (_MAX_MANAGED).  With the entry the   *)
(* caller queues for its slot (run, acquire) or, in test_connection, for   *)
(* the connect lock.                                                       *)
TakeEntry(c, o, r, g) ==
  \/ /\ IF retiring THEN TRUE ELSE managed = NoEntry
     /\ Leave(c, 0)
     /\ UNCHANGED <<entries, slotQ, lockQ>>
  \/ /\ ~retiring
     /\ GoOn(c, o, r, g)
     /\ BuildEntry(r)
     /\ ent' = [ent EXCEPT ![c] = managed']
     /\ IF o = "test"
        THEN /\ pc' = [pc EXCEPT ![c] = "lock"]
             /\ lockQ' = [lockQ EXCEPT ![managed'] = Append(@, c)]
             /\ UNCHANGED slotQ
        ELSE /\ pc' = [pc EXCEPT ![c] = "slot"]
             /\ slotQ' = [slotQ EXCEPT ![managed'] = Append(@, c)]
             /\ UNCHANGED lockQ
     /\ UNCHANGED <<free, drained>>

IsStale(r) == ~retiring /\ managed # NoEntry /\ ident[managed] # r

(* _get_entry: an entry of another identity is retired first. *)
GetEntry(c, o, r, g) ==
  \/ /\ IsStale(r)
     /\ GoOn(c, o, r, g)
     /\ BeginClose(c)
  \/ /\ ~IsStale(r)
     /\ TakeEntry(c, o, r, g)

-----------------------------------------------------------------------------
(* The calls *)

(* The registry's record is updated. *)
Update ==
  /\ record' \in Identities \ {record}
  /\ UNCHANGED <<entries, links, queues, inGlobal, calls, pc, locals, stray>>

Call(c) == pc[c] = "idle" /\ calls < MaxCalls /\ calls' = calls + 1

(* run and acquire_connection fail fast in backoff, else queue. *)
run(c, o) ==
  /\ Call(c)
  /\ managed # NoEntry => ~backoff[managed]
  /\ GoOn(c, o, record, inGlobal)
  /\ pc' = [pc EXCEPT ![c] = "global"]
  /\ UNCHANGED <<record, entries, links, queues, ent, drained, stray>>

EnterGlobal(c) ==
  /\ pc[c] = "global"
  /\ Cardinality(inGlobal) < MaxGlobal
  /\ GetEntry(c, op[c], rec[c], inGlobal \cup {c})
  /\ UNCHANGED <<record, links, locked, calls, stray>>

test_connection(c) ==
  /\ Call(c)
  /\ ~retiring  \* else it raises at once
  /\ GetEntry(c, "test", record, inGlobal)
  /\ UNCHANGED <<record, links, locked, stray>>

close_server(c) ==
  /\ Call(c)
  /\ GoOn(c, "close", record, inGlobal)
  /\ BeginClose(c)
  /\ UNCHANGED <<record, links, locked, stray>>

-----------------------------------------------------------------------------
(* The command path *)

(* The per-server slot.  run() looks again whether its connection is still *)
(* the managed one; acquire_connection does not.                           *)
EnterSlot(c) ==
  LET e == ent[c]
      refused == op[c] = "run" /\ (retiring \/ managed # e)
      opened == op[c] = "acquire" /\ open[e]
  IN
  /\ pc[c] = "slot"
  /\ Head(slotQ[e]) = c /\ free[e] > 0
  /\ slotQ' = [slotQ EXCEPT ![e] = Tail(@)]
  /\ IF refused \/ opened
     THEN Leave(c, 0) /\ UNCHANGED lockQ
     ELSE /\ free' = [free EXCEPT ![e] = @ - 1]
          /\ pc' = [pc EXCEPT ![c] = IF open[e] THEN "running" ELSE "lock"]
          /\ lockQ' = IF open[e] THEN lockQ ELSE [lockQ EXCEPT ![e] = Append(@, c)]
          /\ UNCHANGED <<locals, inGlobal>>
  /\ UNCHANGED <<record, entries, links, locked, calls, stray>>

(* What a caller does with an open connection. *)
Connected(c) ==
  \/ /\ op[c] = "run"
     /\ pc' = [pc EXCEPT ![c] = "running"]
     /\ UNCHANGED <<free, locals, inGlobal>>
  \/ /\ op[c] = "acquire"
     /\ Leave(c, 1)
  \/ /\ op[c] = "test"
     /\ Leave(c, 0)

Failed(c) == Leave(c, IF op[c] = "test" THEN 0 ELSE 1)

(* connect() has the lock: already open, in backoff, or it connects. *)
TakeLock(c) ==
  LET e == ent[c] IN
  /\ pc[c] = "lock"
  /\ Head(lockQ[e]) = c /\ ~locked[e]
  /\ lockQ' = [lockQ EXCEPT ![e] = Tail(@)]
  /\ \/ /\ open[e]
        /\ Connected(c)
        /\ UNCHANGED locked
     \/ /\ ~open[e] /\ backoff[e] /\ op[c] # "test"
        /\ Failed(c)
        /\ UNCHANGED locked
     \/ /\ ~open[e] /\ (~backoff[e] \/ op[c] = "test")
        /\ locked' = [locked EXCEPT ![e] = TRUE]
        /\ pc' = [pc EXCEPT ![c] = "connecting"]
        /\ UNCHANGED <<free, locals, inGlobal>>
  /\ UNCHANGED <<record, entries, links, slotQ, calls, stray>>

(* The factory answers: open, a retryable failure, or a final one. *)
FinishConnect(c) ==
  LET e == ent[c] IN
  /\ pc[c] = "connecting"
  /\ locked' = [locked EXCEPT ![e] = FALSE]
  /\ \/ /\ open' = [open EXCEPT ![e] = TRUE]
        /\ backoff' = [backoff EXCEPT ![e] = FALSE]
        /\ Connected(c)
     \/ /\ backoff' \in {[backoff EXCEPT ![e] = TRUE], [backoff EXCEPT ![e] = FALSE]}
        /\ UNCHANGED open
        /\ Failed(c)
  /\ UNCHANGED <<record, entries, slotQ, lockQ, calls, stray>>

(* Mutant of FinishCommand: no release on the error path. *)
FinishCommandLeaky(c) ==
  LET e == ent[c] IN
  /\ pc[c] = "running"
  /\ \/ Leave(c, 1) /\ UNCHANGED links
     \/ /\ open' = [open EXCEPT ![e] = FALSE]
        /\ backoff' = [backoff EXCEPT ![e] = TRUE]
        /\ Leave(c, 0)
  /\ UNCHANGED <<record, entries, slotQ, locked, lockQ, calls, stray>>

(* The command ends; a timeout or a lost channel drops the connection. *)
FinishCommand(c) ==
  LET e == ent[c] IN
  /\ pc[c] = "running"
  /\ \/ UNCHANGED links
     \/ /\ open' = [open EXCEPT ![e] = FALSE]
        /\ backoff' = [backoff EXCEPT ![e] = TRUE]
  /\ Leave(c, 1)
  /\ UNCHANGED <<record, entries, slotQ, locked, lockQ, calls, stray>>

-----------------------------------------------------------------------------
(* close_server *)

(* Mutant of Drain: one permit is taken for all of them. *)
DrainOne(c) ==
  LET e == ent[c] IN
  /\ pc[c] = "drain"
  /\ Head(slotQ[e]) = c /\ free[e] > 0
  /\ free' = [free EXCEPT ![e] = @ - 1]
  /\ drained' = [drained EXCEPT ![c] = @ + 1]
  /\ slotQ' = [slotQ EXCEPT ![e] = Tail(@)]
  /\ managed' = NoEntry
  /\ pc' = [pc EXCEPT ![c] = "closeLock"]
  /\ lockQ' = [lockQ EXCEPT ![e] = Append(@, c)]
  /\ UNCHANGED <<record, retiring, built, ident, links, locked, inGlobal, calls,
                 op, rec, ent, stray>>

(* One more permit; with all of them the entry leaves the tables. *)
Drain(c) ==
  LET e == ent[c] IN
  /\ pc[c] = "drain"
  /\ Head(slotQ[e]) = c /\ free[e] > 0
  /\ free' = [free EXCEPT ![e] = @ - 1]
  /\ drained' = [drained EXCEPT ![c] = @ + 1]
  /\ IF drained'[c] < MaxPerServer
     THEN /\ slotQ' = [slotQ EXCEPT ![e] = Append(Tail(@), c)]
          /\ UNCHANGED <<managed, pc, lockQ>>
     ELSE /\ slotQ' = [slotQ EXCEPT ![e] = Tail(@)]
          /\ managed' = NoEntry
          /\ pc' = [pc EXCEPT ![c] = "closeLock"]
          /\ lockQ' = [lockQ EXCEPT ![e] = Append(@, c)]
  /\ UNCHANGED <<record, retiring, built, ident, links, locked, inGlobal, calls,
                 op, rec, ent, stray>>

(* Mutant of CloseConnection: close does not wait for the connect lock. *)
CloseUnlocked(c) ==
  LET e == ent[c] IN
  /\ pc[c] = "closeLock"
  /\ lockQ' = [lockQ EXCEPT ![e] = SelectSeq(@, LAMBDA d : d # c)]
  /\ open' = [open EXCEPT ![e] = FALSE]
  /\ pc' = [pc EXCEPT ![c] = "closing"]
  /\ UNCHANGED <<record, entries, backoff, free, slotQ, locked, inGlobal, calls,
                 locals, stray>>

(* ManagedConnection.close: the connection is taken under the lock. *)
CloseConnection(c) ==
  LET e == ent[c] IN
  /\ pc[c] = "closeLock"
  /\ Head(lockQ[e]) = c /\ ~locked[e]
  /\ lockQ' = [lockQ EXCEPT ![e] = Tail(@)]
  /\ open' = [open EXCEPT ![e] = FALSE]
  /\ pc' = [pc EXCEPT ![c] = "closing"]
  /\ UNCHANGED <<record, entries, backoff, free, slotQ, locked, inGlobal, calls,
                 locals, stray>>

(* Mutant of WakeRetired: the event is dropped without being set. *)
WakeNobody(c, p) == [pc EXCEPT ![c] = p]

(* pc when c, the owner of the retirement, leaves close_server for p: the  *)
(* event is set and its waiters are awake.                                 *)
WakeRetired(c, p) ==
  [d \in Callers |-> IF d = c THEN p
                     ELSE IF pc[d] = "waitRetired" THEN "retired" ELSE pc[d]]

(* wait_closed is over (or timed out and the connection was aborted): the  *)
(* permits are released and the retirement ends.                           *)
FinishClose(c) ==
  /\ pc[c] = "closing"
  /\ retiring' = FALSE
  /\ free' = [free EXCEPT ![ent[c]] = @ + drained[c]]
  /\ drained' = [drained EXCEPT ![c] = 0]
  /\ ent' = [ent EXCEPT ![c] = NoEntry]
  /\ pc' = WakeRetired(c, "retired")
  /\ UNCHANGED <<record, managed, built, ident, links, slotQ, locked, lockQ,
                 inGlobal, calls, op, rec, stray>>

(* close_server returns: to its caller, or into _get_entry. *)
AfterClose(c) ==
  /\ pc[c] = "retired"
  /\ \/ /\ op[c] = "close"
        /\ Leave(c, 0)
        /\ UNCHANGED <<entries, slotQ, lockQ>>
     \/ /\ op[c] # "close"
        /\ TakeEntry(c, op[c], rec[c], inGlobal)
  /\ UNCHANGED <<record, links, locked, calls, stray>>

-----------------------------------------------------------------------------
(* Cancellation *)

Owner(c) == pc[c] \in {"drain", "closeLock", "closing"}

(* Permits of its entry that the caller has to give back. *)
Held(c) ==
  IF Owner(c) THEN drained[c]
  ELSE IF pc[c] \in {"lock", "connecting", "running"} /\ op[c] # "test" THEN 1
  ELSE 0

(* A cancelled waiter is taken out of the queue it stands in. *)
Dropped(q, c) ==
  IF \E i \in DOMAIN q : q[i] = c
  THEN LET at == CHOOSE i \in DOMAIN q : q[i] = c
       IN  [i \in 1 .. Len(q) - 1 |-> IF i < at THEN q[i] ELSE q[i + 1]]
  ELSE q
Without(q, c) == [e \in Entries |-> Dropped(q[e], c)]

(* The telemetry scheduler cancels its workers, and they only call run():  *)
(* CancelledError is raised in whatever await the call is suspended in.    *)
(* An owner of a retirement ends it, whether or not it has closed          *)
(* the connection it took out of the tables.                               *)
Cancel(c) ==
  /\ op[c] = "run"
  /\ pc' = IF Owner(c) THEN WakeRetired(c, "idle") ELSE [pc EXCEPT ![c] = "idle"]
  /\ retiring' = (retiring /\ ~Owner(c))
  /\ free' = IF Held(c) = 0 THEN free ELSE [free EXCEPT ![ent[c]] = @ + Held(c)]
  /\ slotQ' = Without(slotQ, c)
  /\ lockQ' = Without(lockQ, c)
  /\ locked' = [e \in Entries |-> locked[e] /\ ~(pc[c] = "connecting" /\ ent[c] = e)]
  /\ stray' = IF pc[c] = "closeLock" THEN stray \cup {ent[c]} ELSE stray
  /\ inGlobal' = inGlobal \ {c}
  /\ op' = [op EXCEPT ![c] = "none"]
  /\ rec' = [rec EXCEPT ![c] = NoIdentity]
  /\ ent' = [ent EXCEPT ![c] = NoEntry]
  /\ drained' = [drained EXCEPT ![c] = 0]
  /\ UNCHANGED <<record, managed, built, ident, links, calls>>

-----------------------------------------------------------------------------
(* The network (external) and the clock *)

(* The peer closes the connection; note_connection_lost drops it. *)
PeerCloses ==
  \E e \in Entries :
    /\ open[e]
    /\ open' = [open EXCEPT ![e] = FALSE]
    /\ UNCHANGED <<record, entries, backoff, queues, inGlobal, calls, pc, locals, stray>>

note_connection_lost ==
  /\ managed # NoEntry
  /\ open' = [open EXCEPT ![managed] = FALSE]
  /\ backoff' = [backoff EXCEPT ![managed] = TRUE]
  /\ UNCHANGED <<record, entries, queues, inGlobal, calls, pc, locals, stray>>

BackoffOver ==
  \E e \in Entries :
    /\ backoff[e]
    /\ backoff' = [backoff EXCEPT ![e] = FALSE]
    /\ UNCHANGED <<record, entries, open, queues, inGlobal, calls, pc, locals, stray>>

-----------------------------------------------------------------------------
Init ==
  /\ record \in Identities
  /\ managed = NoEntry
  /\ retiring = FALSE
  /\ built = 0
  /\ ident = [e \in Entries |-> NoIdentity]
  /\ open = [e \in Entries |-> FALSE]
  /\ backoff = [e \in Entries |-> FALSE]
  /\ free = [e \in Entries |-> MaxPerServer]
  /\ slotQ = [e \in Entries |-> <<>>]
  /\ locked = [e \in Entries |-> FALSE]
  /\ lockQ = [e \in Entries |-> <<>>]
  /\ inGlobal = {}
  /\ calls = 0
  /\ pc = [c \in Callers |-> "idle"]
  /\ op = [c \in Callers |-> "none"]
  /\ rec = [c \in Callers |-> NoIdentity]
  /\ ent = [c \in Callers |-> NoEntry]
  /\ drained = [c \in Callers |-> 0]
  /\ stray = {}

Step(c) ==
  \/ EnterGlobal(c) \/ EnterSlot(c) \/ TakeLock(c) \/ FinishConnect(c)
  \/ FinishCommand(c) \/ Drain(c) \/ CloseConnection(c) \/ FinishClose(c)
  \/ AfterClose(c)

Next ==
  \/ Update
  \/ \E c \in Callers, o \in {"run", "acquire"} : run(c, o)
  \/ \E c \in Callers : test_connection(c) \/ close_server(c) \/ Step(c) \/ Cancel(c)
  \/ PeerCloses \/ note_connection_lost \/ BackoffOver

(* Ready tasks are scheduled, and every remote operation ends or times out *)
(* (connect_timeout_s, command_timeout_s, the 5 s of close).               *)
Fairness == \A c \in Callers : WF_vars(Step(c))

Spec == Init /\ [][Next]_vars /\ Fairness

-----------------------------------------------------------------------------
(* Properties *)

(* Every variable keeps its type; the tables hold the entry built last. *)
TypeOK ==
  /\ record \in Identities
  /\ managed \in {NoEntry, built} /\ built \in 0 .. MaxEntries
  /\ retiring \in BOOLEAN
  /\ ident \in [Entries -> Identities \cup {NoIdentity}]
  /\ open \in [Entries -> BOOLEAN] /\ backoff \in [Entries -> BOOLEAN]
  /\ free \in [Entries -> 0 .. MaxPerServer]
  /\ slotQ \in [Entries -> Seq(Callers)] /\ lockQ \in [Entries -> Seq(Callers)]
  /\ locked \in [Entries -> BOOLEAN]
  /\ inGlobal \subseteq Callers
  /\ calls \in 0 .. MaxCalls
  /\ pc \in [Callers -> PC]
  /\ op \in [Callers -> Ops \cup {"none"}]
  /\ rec \in [Callers -> Identities \cup {NoIdentity}]
  /\ ent \in [Callers -> Entries \cup {NoEntry}]
  /\ drained \in [Callers -> 0 .. MaxPerServer]
  /\ stray \subseteq Entries

(* manager.py: "never execute a command on a retired connection": while a  *)
(* command runs, its entry is the managed one.                             *)
CommandOnManaged ==
  \A c \in Callers : pc[c] = "running" => ent[c] = managed

(* The permits of entry e that callers have, each under its holder. *)
Permits(e) ==
  {p \in Callers \X (1 .. MaxPerServer) : ent[p[1]] = e /\ p[2] <= Held(p[1])}

(* No call leaks a permit of the per-server semaphore or gives one back    *)
(* twice, whichever way it ends, so that commands in flight stay within    *)
(* max_in_flight_per_server and a drain always finds all the permits.      *)
PermitsAddUp ==
  \A e \in Entries : free[e] + Cardinality(Permits(e)) = MaxPerServer

(* Once nobody uses it, a retired entry has no open connection that would  *)
(* outlive it, except where close_server was cancelled before it closed    *)
(* what it had popped.  It rests on the order of the queues: whoever got   *)
(* the entry before the drain began is served before the drain and the     *)
(* close are, acquire_connection included, which does not look again.      *)
RetiredIsClosed ==
  \A e \in Entries : e # managed /\ ~InUse(e) /\ e \notin stray => ~open[e]

(* Every call returns: drains, retire events, slots and the connect lock   *)
(* never make callers wait for each other.                                 *)
EveryCallReturns == \A c \in Callers : pc[c] # "idle" ~> pc[c] = "idle"
=============================================================================
