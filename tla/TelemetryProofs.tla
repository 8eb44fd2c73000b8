-------------------------- MODULE TelemetryProofs --------------------------
(* Proofs about the telemetry components: Scheduler, for every set of        *)
(* servers, clients, hosts and intervals and every bound on tasks and edits, *)
(* and RealtimeHub, for every finite set of servers, every set of clients    *)
(* and every size of their queues.                                           *)
EXTENDS Scheduler, RealtimeHub, TLAPS, FiniteSetTheorems, SequenceTheorems,
        NaturalsInduction, WellFoundedInduction

-----------------------------------------------------------------------------
(* SCHEDULER                                                                 *)

-----------------------------------------------------------------------------
(* Records and tasks *)

LEMMA OffRecord ==
  /\ Off \in Record /\ ~Off.enabled
  /\ Off \in RegistryRecords /\ RegistryRecords \subseteq Record
  /\ \A r \in RegistryRecords : ~r.enabled => r = Off
<1> DEFINE h == CHOOSE h \in Hosts : TRUE
           i == CHOOSE i \in Intervals : TRUE
<1>1. h \in Hosts /\ i \in Intervals BY SchedulerAssumption
<1>2. Off = [enabled |-> FALSE, host |-> h, interval |-> i] BY DEF Off
<1> HIDE DEF h, i
<1>3. Off \in Record /\ ~Off.enabled BY <1>1, <1>2 DEF Record
<1>4. QED BY <1>3, Zenon DEF RegistryRecords

LEMMA TaskValues ==
  /\ Ended \in Task /\ Ended.pc = "none"
  /\ \A r \in Record : /\ Created(r) \in Task /\ Created(r).pc = "new"
                       /\ Created(r).cancelled = FALSE /\ Created(r).rec = r
  /\ NoData \in [exists : BOOLEAN, status : Status, host : Hosts] /\ ~NoData.exists
<1>1. Ended \in Task /\ Ended.pc = "none" BY OffRecord DEF Ended, Task
<1>2. ASSUME NEW r \in Record
      PROVE  /\ Created(r) \in Task /\ Created(r).pc = "new"
             /\ Created(r).cancelled = FALSE /\ Created(r).rec = r
  <2>1. Ended.cancelled = FALSE BY DEF Ended
  <2>2. QED BY <1>1, <2>1 DEF Created, Task
<1>3. NoData \in [exists : BOOLEAN, status : Status, host : Hosts] /\ ~NoData.exists
  BY OffRecord DEF NoData, Status, Record
<1>4. QED BY <1>1, <1>2, <1>3

(* What a task keeps when it goes on: its record, and that it was not        *)
(* cancelled. It has seen the demand.                                        *)
GoesOn(t, u) ==
  /\ u \in Task /\ u.rec = t.rec /\ u.cancelled = t.cancelled
  /\ u.pc \in {"collecting", "sleeping"} /\ u.behind = FALSE

LEMMA SleepGoesOn ==
  ASSUME NEW s, NEW t \in Task, NEW due \in SUBSET Groups
  PROVE  GoesOn(t, Sleep(s, t, due))
<1>1. due \cup (Groups \ EnabledGroups(s)) \in SUBSET Groups OBVIOUS
<1>2. QED BY <1>1 DEF GoesOn, Sleep, Task

LEMMA DueType ==
  ASSUME NEW s, NEW t \in Task
  PROVE  DueNow(s, t) \in SUBSET Groups
BY DEF DueNow, Task, Groups

LEMMA LoopTopGoesOn ==
  ASSUME NEW s, NEW t \in Task
  PROVE  GoesOn(t, LoopTop(s, t))
<1>1. DueNow(s, t) \in SUBSET Groups BY DueType
<1>2. CASE DueNow(s, t) \cap EnabledGroups(s) # {}
  <2>1. LoopTop(s, t) = [t EXCEPT !.pc = "collecting", !.connected = TRUE, !.behind = FALSE,
                                  !.due = DueNow(s, t) \ EnabledGroups(s)]
    BY <1>2 DEF LoopTop
  <2>2. QED BY <1>1, <2>1 DEF GoesOn, Task
<1>3. CASE ~(DueNow(s, t) \cap EnabledGroups(s) # {})
  BY <1>1, <1>3, SleepGoesOn DEF LoopTop
<1>4. QED BY <1>2, <1>3

LEMMA RestGoesOn ==
  ASSUME NEW s, NEW t \in Task
  PROVE  GoesOn(t, Rest(s, t))
<1> DEFINE u == [t EXCEPT !.woken = FALSE]
<1>1. u \in Task /\ u.rec = t.rec /\ u.cancelled = t.cancelled BY DEF Task
<1>2. CASE u.behind
  <2>1. Rest(s, t) = LoopTop(s, u) BY <1>2 DEF Rest
  <2> HIDE DEF u
  <2>2. GoesOn(u, LoopTop(s, u)) BY <1>1, LoopTopGoesOn
  <2>3. QED BY <1>1, <2>1, <2>2 DEF GoesOn
<1>3. CASE ~u.behind
  <2>1. Rest(s, t) = [u EXCEPT !.pc = "sleeping"] BY <1>3 DEF Rest
  <2> HIDE DEF u
  <2>2. u.behind = FALSE BY <1>1, <1>3 DEF Task
  <2>3. QED BY <1>1, <2>1, <2>2 DEF GoesOn, Task
<1>4. QED BY <1>2, <1>3

(* More groups become due while it waits. *)
LEMMA DueGrows ==
  ASSUME NEW t \in Task, NEW newly \in SUBSET Groups
  PROVE  LET u == [t EXCEPT !.due = @ \cup newly]
         IN  u \in Task /\ u.rec = t.rec /\ u.cancelled = t.cancelled /\ u.pc = t.pc
             /\ [u EXCEPT !.due = {}] \in Task
             /\ [u EXCEPT !.due = {}].rec = t.rec /\ [u EXCEPT !.due = {}].cancelled = t.cancelled
BY DEF Task

(* A change of demand keeps the progress of every task, and wakes the one    *)
(* whose event is registered.                                                *)
Wakes(tk, new) ==
  /\ new \in [Servers -> [Slots -> Task]]
  /\ \A s \in Servers, k \in Slots :
       /\ new[s][k].pc = tk[s][k].pc /\ new[s][k].rec = tk[s][k].rec
       /\ new[s][k].cancelled = tk[s][k].cancelled
       /\ new[s][k] = tk[s][k] \/ (wakeups[s] = k => new[s][k].woken = TRUE)

LEMMA DemandedTasks ==
  ASSUME NEW tk \in [Servers -> [Slots -> Task]], NEW n, NEW sel
  PROVE  Wakes(tk, Demanded(tk, n, sel))
<1> DEFINE u(s, k) == [tk[s][k] EXCEPT !.behind = TRUE, !.woken = @ \/ wakeups[s] = k]
<1>1. \A s \in Servers, k \in Slots :
        /\ u(s, k) \in Task /\ u(s, k).pc = tk[s][k].pc /\ u(s, k).rec = tk[s][k].rec
        /\ u(s, k).cancelled = tk[s][k].cancelled
        /\ wakeups[s] = k => u(s, k).woken = TRUE
  <2> TAKE s \in Servers, k \in Slots
  <2> DEFINE w == tk[s][k].woken \/ wakeups[s] = k
  <2>2. w \in BOOLEAN /\ (wakeups[s] = k => w = TRUE) BY Zenon
  <2>3. u(s, k) = [tk[s][k] EXCEPT !.behind = TRUE, !.woken = w] OBVIOUS
  <2> HIDE DEF u, w
  <2>4. tk[s][k] \in Task OBVIOUS
  <2>5. /\ u(s, k) \in Task /\ u(s, k).pc = tk[s][k].pc /\ u(s, k).rec = tk[s][k].rec
        /\ u(s, k).cancelled = tk[s][k].cancelled /\ u(s, k).woken = w
    BY <2>2, <2>3, <2>4 DEF Task
  <2>6. QED BY <2>2, <2>5
<1>2. CASE n = count /\ sel = selected
  BY <1>2 DEF Demanded, Wakes
<1>3. CASE ~(n = count /\ sel = selected)
  <2>1. Demanded(tk, n, sel) = [s \in Servers |-> [k \in Slots |-> u(s, k)]]
    BY <1>3 DEF Demanded
  <2> HIDE DEF u
  <2>2. QED BY <1>1, <2>1 DEF Wakes
<1>4. QED BY <1>2, <1>3

(* The slot of a new task is the least that is free. *)
LEMMA NextSlotFree ==
  ASSUME NEW s, FreeSlots(s) # {}
  PROVE  NextSlot(s) \in FreeSlots(s)
<1>1. FreeSlots(s) \subseteq Nat BY SchedulerAssumption DEF FreeSlots, Slots
<1>2. \E k \in FreeSlots(s) : \A i \in FreeSlots(s) : k <= i
  <2>1. PICK k \in FreeSlots(s) : \A i \in FreeSlots(s) : ~(<<i, k>> \in OpToRel(<, Nat))
    BY <1>1, NatLessThanWellFounded, WFMin, Zenon
  <2>2. \A i \in FreeSlots(s) : ~(i < k)
    BY <1>1, <2>1 DEF OpToRel
  <2>3. \A i \in FreeSlots(s) : k <= i BY <1>1, <2>2
  <2>4. QED BY <2>3
<1>3. QED BY <1>2 DEF NextSlot

-----------------------------------------------------------------------------
(* The inductive invariant *)

TypeInv == TypeOK /\ pending <= edits /\ IsFiniteSet(handlers)

(* Nothing collects once stop() has run. *)
QuietWhenStopping ==
  phase # "running" => \A s \in Servers, k \in Slots : ~Live(s, k)

(* The event of a task that runs is the registered one, so that a change of  *)
(* demand reaches it.                                                        *)
EventRegistered ==
  \A s \in Servers, k \in Slots :
    Live(s, k) /\ task[s][k].pc # "new" => wakeups[s] = k

WorkInv == /\ WorkersMatchRegistry /\ QuietWhenStopping /\ EventRegistered
           /\ NoLostWakeup /\ DataOfCurrentHost

SchedInv == TypeInv /\ WorkInv /\ DemandMatchesSessions

-----------------------------------------------------------------------------
(* The kinds of step *)

(* A task reaches its next await, and may store a batch. *)
Works(s, k) ==
  /\ Live(s, k)
  /\ \E u : GoesOn(task[s][k], u) /\ task' = [task EXCEPT ![s][k] = u]
  /\ wakeups' = [wakeups EXCEPT ![s] = k]
  /\ \/ UNCHANGED st
     \/ \E found \in Status : StoreData(s, found, task[s][k].rec.host)
  /\ UNCHANGED <<admin, records, workers, demand, phase>>

LEMMA BeginWorks ==
  ASSUME SchedInv, NEW s \in Servers, NEW k \in Slots, NEW newly \in SUBSET Groups,
         Begin(s, k, newly)
  PROVE  Works(s, k)
<1> DEFINE t == [task[s][k] EXCEPT !.due = @ \cup newly]
<1>1. task[s][k] \in Task BY DEF SchedInv, TypeInv, TypeOK
<1>2. t \in Task /\ t.rec = task[s][k].rec /\ t.cancelled = task[s][k].cancelled
      /\ t.pc = task[s][k].pc
  BY <1>1, DueGrows
<1>3. /\ Live(s, k)
      /\ wakeups' = IF t.pc = "new" THEN [wakeups EXCEPT ![s] = k] ELSE wakeups
      /\ \/ task' = [task EXCEPT ![s][k] = LoopTop(s, t)] /\ UNCHANGED st
         \/ task' = [task EXCEPT ![s][k] = Sleep(s, t, {})] /\ StoreData(s, "offline", t.rec.host)
      /\ UNCHANGED <<admin, records, workers, demand, phase>>
  BY Zenon DEF Begin
<1> HIDE DEF t
<1>4. wakeups' = [wakeups EXCEPT ![s] = k]
  <2>1. wakeups \in [Servers -> Slots \cup {NoTask}] BY DEF SchedInv, TypeInv, TypeOK
  <2>2. t.pc # "new" => wakeups[s] = k
    BY <1>2, <1>3 DEF SchedInv, WorkInv, EventRegistered
  <2>3. QED BY <1>3, <2>1, <2>2
<1>5. GoesOn(task[s][k], LoopTop(s, t)) /\ GoesOn(task[s][k], Sleep(s, t, {}))
  <2>1. GoesOn(t, LoopTop(s, t)) BY <1>2, LoopTopGoesOn
  <2>2. {} \in SUBSET Groups OBVIOUS
  <2>3. GoesOn(t, Sleep(s, t, {})) BY <1>2, <2>2, SleepGoesOn
  <2>4. QED BY <1>2, <2>1, <2>3 DEF GoesOn
<1>6. "offline" \in Status BY DEF Status
<1>7. QED BY <1>2, <1>3, <1>4, <1>5, <1>6, Zenon DEF Works

LEMMA CollectedWorks ==
  ASSUME SchedInv, NEW s \in Servers, NEW k \in Slots, NEW newly \in SUBSET Groups,
         Collected(s, k, newly)
  PROVE  Works(s, k)
<1> DEFINE t == [task[s][k] EXCEPT !.due = @ \cup newly]
           t0 == [t EXCEPT !.due = {}]
<1>1. task[s][k] \in Task BY DEF SchedInv, TypeInv, TypeOK
<1>2. /\ t \in Task /\ t.rec = task[s][k].rec /\ t.cancelled = task[s][k].cancelled
      /\ t.pc = task[s][k].pc
      /\ t0 \in Task /\ t0.rec = task[s][k].rec /\ t0.cancelled = task[s][k].cancelled
  BY <1>1, DueGrows
<1>3. /\ Live(s, k) /\ t.pc = "collecting"
      /\ \/ /\ \E found \in {"online", "degraded"} : StoreData(s, found, t.rec.host)
            /\ task' = [task EXCEPT ![s][k] = Rest(s, t)]
         \/ /\ StoreData(s, "offline", t.rec.host)
            /\ task' = [task EXCEPT ![s][k] = Rest(s, t0)]
      /\ UNCHANGED <<admin, records, workers, wakeups, demand, phase>>
  BY Zenon DEF Collected
<1> HIDE DEF t, t0
<1>4. wakeups' = [wakeups EXCEPT ![s] = k]
  <2>1. wakeups \in [Servers -> Slots \cup {NoTask}] BY DEF SchedInv, TypeInv, TypeOK
  <2>2. wakeups[s] = k
    BY <1>2, <1>3 DEF SchedInv, WorkInv, EventRegistered
  <2>3. QED BY <1>3, <2>1, <2>2
<1>5. GoesOn(task[s][k], Rest(s, t)) /\ GoesOn(task[s][k], Rest(s, t0))
  BY <1>2, RestGoesOn DEF GoesOn
<1>6. {"offline", "online", "degraded"} \subseteq Status BY DEF Status
<1>7. \E found \in Status : StoreData(s, found, task[s][k].rec.host)
  BY <1>2, <1>3, <1>6, Zenon
<1>8. UNCHANGED <<admin, records, workers, demand, phase>> BY <1>3, Zenon
<1>9. QED BY <1>3, <1>4, <1>5, <1>7, <1>8, Zenon DEF Works

LEMMA WorksPreserves ==
  ASSUME SchedInv, NEW s \in Servers, NEW k \in Slots, Works(s, k)
  PROVE  TypeInv' /\ WorkInv'
<1> USE DEF NoTask
<1>1. PICK u : GoesOn(task[s][k], u) /\ task' = [task EXCEPT ![s][k] = u]
  BY Zenon DEF Works
<1>2. /\ wakeups' = [wakeups EXCEPT ![s] = k] /\ Live(s, k)
      /\ records' = records /\ workers' = workers /\ phase' = phase
      /\ registry' = registry /\ pending' = pending /\ edits' = edits
      /\ grace' = grace /\ handlers' = handlers /\ count' = count /\ selected' = selected
  BY DEF Works, admin, demand
<1>3. TypeInv /\ TypeOK BY DEF SchedInv, TypeInv
<1>4. task' \in [Servers -> [Slots -> Task]] BY <1>1, <1>3 DEF TypeOK, GoesOn
<1>5. \A x \in Servers, j \in Slots : x # s \/ j # k => task'[x][j] = task[x][j]
  BY <1>1, <1>3 DEF TypeOK
<1>6. /\ task'[s][k] = u /\ u.rec = task[s][k].rec /\ u.cancelled = task[s][k].cancelled
      /\ u.pc \in {"collecting", "sleeping"} /\ u.behind = FALSE
  BY <1>1, <1>3 DEF TypeOK, GoesOn
<1>7. \A x \in Servers, j \in Slots :
        /\ Live(x, j)' <=> Live(x, j)
        /\ task'[x][j].rec = task[x][j].rec
  BY <1>2, <1>5, <1>6 DEF Live
<1>8. st' \in [Servers -> [exists : BOOLEAN, status : Status, host : Hosts]]
      /\ (\A x \in Servers : x # s => st'[x] = st[x])
      /\ (st'[s] = st[s] \/ st'[s].host = task[s][k].rec.host)
  <2>1. st \in [Servers -> [exists : BOOLEAN, status : Status, host : Hosts]] BY <1>3 DEF TypeOK
  <2>2. CASE UNCHANGED st BY <2>1, <2>2
  <2>3. CASE \E found \in Status : StoreData(s, found, task[s][k].rec.host)
    <3>1. PICK found \in Status :
            st' = [st EXCEPT ![s] = [exists |-> TRUE, status |-> found, host |-> task[s][k].rec.host]]
      BY <2>3 DEF StoreData
    <3>2. task[s][k].rec.host \in Hosts BY <1>3 DEF TypeOK, Task, Record
    <3>3. QED BY <2>1, <3>1, <3>2
  <2>4. QED BY <2>2, <2>3 DEF Works
<1>9. TypeInv'
  <2>1. wakeups' \in [Servers -> Slots \cup {NoTask}] BY <1>2, <1>3 DEF TypeOK
  <2>2. TypeOK' BY <1>2, <1>3, <1>4, <1>8, <2>1 DEF TypeOK
  <2>3. QED BY <1>2, <1>3, <2>2 DEF TypeInv
<1>10. WorkersMatchRegistry'
  <2> SUFFICES ASSUME phase' = "running" PROVE WorkersMatchRegistry' BY DEF WorkersMatchRegistry
  <2>1. WorkersMatchRegistry /\ phase = "running" BY <1>2 DEF SchedInv, WorkInv
  <2>2. \A x \in Servers : {j \in Slots : Live(x, j)'} = {j \in Slots : Live(x, j)}
    BY <1>7
  <2>3. \A x \in Servers : workers[x] # NoTask => workers[x] \in Slots
    BY <1>3 DEF TypeOK
  <2>4. QED BY <1>2, <1>7, <2>1, <2>2, <2>3 DEF WorkersMatchRegistry
<1>11. QuietWhenStopping' BY <1>2, <1>7 DEF SchedInv, WorkInv, QuietWhenStopping
<1>12. phase = "running" => workers[s] = k /\ records[s].enabled /\ task[s][k].rec = records[s]
  BY <1>2 DEF SchedInv, WorkInv, WorkersMatchRegistry
<1>13. phase = "running" BY <1>2 DEF SchedInv, WorkInv, QuietWhenStopping
<1>14. \A j \in Slots : Live(s, j) => j = k
  BY <1>12, <1>13 DEF SchedInv, WorkInv, WorkersMatchRegistry
<1>15. EventRegistered'
  <2>1. wakeups'[s] = k /\ \A x \in Servers : x # s => wakeups'[x] = wakeups[x]
    BY <1>2, <1>3 DEF TypeOK
  <2>2. QED BY <1>5, <1>7, <1>14, <2>1 DEF SchedInv, WorkInv, EventRegistered
<1>16. NoLostWakeup' BY <1>5, <1>6, <1>7 DEF SchedInv, WorkInv, NoLostWakeup
<1>17. DataOfCurrentHost'
  BY <1>2, <1>8, <1>12 DEF SchedInv, WorkInv, DataOfCurrentHost
<1>18. QED BY <1>9, <1>10, <1>11, <1>15, <1>16, <1>17 DEF WorkInv

LEMMA UnwindPreserves ==
  ASSUME SchedInv, NEW s \in Servers, NEW k \in Slots, Unwind(s, k)
  PROVE  TypeInv' /\ WorkInv'
<1> USE DEF NoTask
<1>2. /\ task' = [task EXCEPT ![s][k] = Ended] /\ ~Live(s, k)
      /\ wakeups' = IF wakeups[s] = k THEN [wakeups EXCEPT ![s] = NoTask] ELSE wakeups
      /\ records' = records /\ workers' = workers /\ phase' = phase /\ st' = st
      /\ registry' = registry /\ pending' = pending /\ edits' = edits
      /\ grace' = grace /\ handlers' = handlers /\ count' = count /\ selected' = selected
  BY DEF Unwind, admin, demand, Live
<1>3. TypeInv /\ TypeOK BY DEF SchedInv, TypeInv
<1>4. task' \in [Servers -> [Slots -> Task]] BY <1>2, <1>3, TaskValues DEF TypeOK
<1>5. \A x \in Servers, j \in Slots : x # s \/ j # k => task'[x][j] = task[x][j]
  BY <1>2, <1>3 DEF TypeOK
<1>6. task'[s][k] = Ended BY <1>2, <1>3 DEF TypeOK
<1>7. \A x \in Servers, j \in Slots :
        /\ Live(x, j)' <=> Live(x, j)
        /\ Live(x, j) => task'[x][j] = task[x][j] /\ (x # s \/ j # k)
  BY <1>2, <1>5, <1>6, TaskValues DEF Live
<1>9. TypeInv'
  <2>1. wakeups' \in [Servers -> Slots \cup {NoTask}] BY <1>2, <1>3 DEF TypeOK
  <2>2. TypeOK' BY <1>2, <1>3, <1>4, <2>1 DEF TypeOK
  <2>3. QED BY <1>2, <1>3, <2>2 DEF TypeInv
<1>10. WorkersMatchRegistry'
  <2> SUFFICES ASSUME phase' = "running" PROVE WorkersMatchRegistry' BY DEF WorkersMatchRegistry
  <2>1. WorkersMatchRegistry /\ phase = "running" BY <1>2 DEF SchedInv, WorkInv
  <2>2. \A x \in Servers : {j \in Slots : Live(x, j)'} = {j \in Slots : Live(x, j)}
    BY <1>7
  <2>3. \A x \in Servers : workers[x] # NoTask =>
          workers[x] \in Slots /\ task'[x][workers[x]] = task[x][workers[x]]
    BY <1>3, <1>7, <2>1 DEF TypeOK, WorkersMatchRegistry
  <2>4. QED BY <1>2, <2>1, <2>2, <2>3 DEF WorkersMatchRegistry
<1>11. QuietWhenStopping' BY <1>2, <1>7 DEF SchedInv, WorkInv, QuietWhenStopping
<1>15. EventRegistered'
  <2>1. \A x \in Servers, j \in Slots : wakeups[x] = j /\ (x # s \/ j # k) => wakeups'[x] = j
    BY <1>2, <1>3 DEF TypeOK
  <2>2. QED BY <1>7, <2>1 DEF SchedInv, WorkInv, EventRegistered
<1>16. NoLostWakeup' BY <1>7 DEF SchedInv, WorkInv, NoLostWakeup
<1>17. DataOfCurrentHost' BY <1>2 DEF SchedInv, WorkInv, DataOfCurrentHost
<1>18. QED BY <1>9, <1>10, <1>11, <1>15, <1>16, <1>17 DEF WorkInv

(* A session begins, selects or ends. *)
LEMMA DemandPreserves ==
  ASSUME SchedInv, NEW n \in Nat, NEW sel \in Servers \cup {NoServer},
         SetDemand(task, n, sel), handlers' \subseteq Clients, IsFiniteSet(handlers'),
         UNCHANGED <<admin, records, workers, wakeups, phase, st>>
  PROVE  TypeInv' /\ WorkInv'
<1> USE DEF NoTask
<1>1. /\ task' = Demanded(task, n, sel) /\ count' = n /\ selected' = sel
      /\ grace' = (grace \/ n > 0)
      /\ records' = records /\ workers' = workers /\ phase' = phase /\ st' = st
      /\ registry' = registry /\ pending' = pending /\ edits' = edits /\ wakeups' = wakeups
  BY DEF SetDemand, admin
<1>2. TypeInv /\ TypeOK BY DEF SchedInv, TypeInv
<1>3. task \in [Servers -> [Slots -> Task]] BY <1>2 DEF TypeOK
<1>4. /\ task' \in [Servers -> [Slots -> Task]]
      /\ \A x \in Servers, j \in Slots :
           /\ task'[x][j].pc = task[x][j].pc /\ task'[x][j].rec = task[x][j].rec
           /\ task'[x][j].cancelled = task[x][j].cancelled
           /\ task'[x][j] = task[x][j] \/ (wakeups[x] = j => task'[x][j].woken = TRUE)
  <2>1. Wakes(task, task') BY <1>1, <1>3, DemandedTasks, Zenon
  <2>2. QED BY <2>1, Zenon DEF Wakes
<1>5. \A x \in Servers, j \in Slots : Live(x, j)' <=> Live(x, j) BY <1>4 DEF Live
<1>6. TypeInv'
  <2>1. grace' \in BOOLEAN BY <1>1, Zenon
  <2>2. TypeOK' BY <1>1, <1>2, <1>4, <2>1 DEF TypeOK
  <2>3. QED BY <1>1, <1>2, <2>2 DEF TypeInv
<1>7. WorkersMatchRegistry'
  <2> SUFFICES ASSUME phase' = "running" PROVE WorkersMatchRegistry' BY DEF WorkersMatchRegistry
  <2>1. WorkersMatchRegistry /\ phase = "running" BY <1>1 DEF SchedInv, WorkInv
  <2>2. \A x \in Servers : {j \in Slots : Live(x, j)'} = {j \in Slots : Live(x, j)}
    BY <1>5
  <2>3. \A x \in Servers : workers[x] # NoTask => workers[x] \in Slots
    BY <1>2 DEF TypeOK
  <2>4. QED BY <1>1, <1>4, <2>1, <2>2, <2>3 DEF WorkersMatchRegistry
<1>8. QuietWhenStopping' BY <1>1, <1>5 DEF SchedInv, WorkInv, QuietWhenStopping
<1>9. EventRegistered' BY <1>1, <1>4, <1>5 DEF SchedInv, WorkInv, EventRegistered
<1>10. NoLostWakeup'
  BY <1>4, <1>5 DEF SchedInv, WorkInv, NoLostWakeup, EventRegistered
<1>11. DataOfCurrentHost' BY <1>1 DEF SchedInv, WorkInv, DataOfCurrentHost
<1>12. QED BY <1>6, <1>7, <1>8, <1>9, <1>10, <1>11 DEF WorkInv

(* The worker and the tasks of one server when the scheduler applies its     *)
(* record r: no task but the worker is live, the worker works from r, and a  *)
(* live task is an old one that is left alone, or new.                       *)
Worker(s, r) ==
  CASE Creates(s, r) -> NextSlot(s)
    [] ~r.enabled -> NoTask
    [] OTHER -> workers[s]

LEMMA ReconciledTasks ==
  ASSUME SchedInv, phase = "running", NEW s \in Servers, NEW r \in RegistryRecords,
         Creates(s, r) => FreeSlots(s) # {}
  PROVE  /\ Reconciled(s, r) \in [Slots -> Task]
         /\ Worker(s, r) \in Slots \cup {NoTask}
         /\ Worker(s, r) # NoTask <=> r.enabled
         /\ \A k \in Slots :
              LET t == Reconciled(s, r)[k]
              IN  /\ (t.pc # "none" /\ ~t.cancelled) <=> k = Worker(s, r)
                  /\ k = Worker(s, r) => t.rec = r /\ (t.pc = "new" \/ t = task[s][k])
<1> USE DEF NoTask
<1> DEFINE w == workers[s]
           n == NextSlot(s)
           c == Cancels(s, r)
           m == Creates(s, r)
           old(k) == [task[s][k] EXCEPT !.cancelled = TRUE]
           t(k) == Reconciled(s, r)[k]
<1>1. /\ task \in [Servers -> [Slots -> Task]] /\ w \in Slots \cup {NoTask}
      /\ records[s] \in RegistryRecords /\ 0 \notin Slots
  BY SchedulerAssumption DEF SchedInv, TypeInv, TypeOK, Slots
<1>2. r \in Record /\ records[s] \in Record BY <1>1, OffRecord
<1>3. /\ {k \in Slots : Live(s, k)} = {w} \ {NoTask}
      /\ w # NoTask <=> records[s].enabled
      /\ w # NoTask => task[s][w].rec = records[s]
  BY DEF SchedInv, WorkInv, WorkersMatchRegistry
<1>4. \A k \in Slots : Live(s, k) <=> k = w BY <1>1, <1>3
<1>5. m => n \in Slots /\ task[s][n].pc = "none" /\ n # w
  <2>1. m => n \in FreeSlots(s) BY NextSlotFree
  <2>2. QED BY <2>1, <1>4 DEF FreeSlots, Live
<1>6. \A k \in Slots : t(k) = IF c /\ k = w THEN old(k) ELSE IF m /\ k = n THEN Created(r) ELSE task[s][k]
  BY <1>5 DEF Reconciled
<1>7. \A k \in Slots : old(k) \in Task /\ old(k).cancelled = TRUE
  <2> TAKE k \in Slots
  <2>1. task[s][k] \in Task BY <1>1
  <2>2. QED BY <2>1 DEF Task
<1>8. Reconciled(s, r) \in [Slots -> Task]
  <2> HIDE DEF old, c, m, w, n
  <2>1. \A k \in Slots : t(k) \in Task BY <1>1, <1>2, <1>6, <1>7, TaskValues
  <2>2. Reconciled(s, r) = [k \in Slots |-> t(k)] BY DEF Reconciled
  <2> HIDE DEF t
  <2>3. QED BY <2>1, <2>2
<1>9. /\ m <=> r.enabled /\ (w = NoTask \/ c)
      /\ c => w # NoTask
      /\ (w # NoTask /\ ~r.enabled) => c
  BY DEF Creates, Cancels
<1>10. (w # NoTask /\ ~c) => r = records[s]
  <2> SUFFICES ASSUME w # NoTask, ~c PROVE r = records[s] OBVIOUS
  <2>1. r.enabled /\ records[s].enabled /\ r.host = records[s].host
        /\ r.interval = records[s].interval
    BY <1>3 DEF Cancels, IdentityChanged, SamplingChanged
  <2>2. r.enabled = TRUE /\ records[s].enabled = TRUE BY <1>2, <2>1 DEF Record
  <2>3. QED BY <1>2, <2>1, <2>2 DEF Record
<1>11. Worker(s, r) = IF m THEN n ELSE IF ~r.enabled THEN NoTask ELSE w
  BY <1>9 DEF Worker
<1>12. /\ Created(r).pc = "new" /\ Created(r).cancelled = FALSE /\ Created(r).rec = r
  BY <1>2, TaskValues
<1>13. \A k \in Slots : (task[s][k].pc # "none" /\ ~task[s][k].cancelled) <=> k = w
  BY <1>4 DEF Live
<1> HIDE DEF t, old, c, m, w, n
<1>14. Worker(s, r) \in Slots \cup {NoTask} /\ (Worker(s, r) # NoTask <=> r.enabled)
  BY <1>1, <1>5, <1>9, <1>11
<1>15. ASSUME NEW k \in Slots
       PROVE  /\ (t(k).pc # "none" /\ ~t(k).cancelled) <=> k = Worker(s, r)
              /\ k = Worker(s, r) => t(k).rec = r /\ (t(k).pc = "new" \/ t(k) = task[s][k])
  <2>0. w # NoTask => task[s][w].rec = records[s] BY <1>3 DEF w
  <2>1. CASE c /\ k = w
    BY <2>1, <1>1, <1>5, <1>6, <1>7, <1>9, <1>11
  <2>2. CASE ~(c /\ k = w) /\ m /\ k = n
    BY <2>2, <1>6, <1>11, <1>12
  <2>3. CASE ~(c /\ k = w) /\ ~(m /\ k = n)
    <3>1. t(k) = task[s][k] BY <2>3, <1>6
    <3>2. k = Worker(s, r) <=> k = w
      BY <2>3, <1>1, <1>5, <1>9, <1>11
    <3>3. k = w => r = records[s] BY <2>3, <1>1, <1>10
    <3>4. QED BY <1>1, <1>13, <2>0, <3>1, <3>2, <3>3
  <2>4. QED BY <2>1, <2>2, <2>3
<1>16. QED BY <1>8, <1>14, <1>15 DEF t

(* The scheduler applies the registry. *)
LEMMA ReconcilePreserves ==
  ASSUME SchedInv, phase = "running", NEW reg \in [Servers -> RegistryRecords],
         Reconcile(reg), registry' = reg,
         pending' \in 0 .. MaxEdits, edits' \in 0 .. MaxEdits, pending' <= edits'
  PROVE  /\ TypeInv' /\ WorkInv' /\ count' = count /\ handlers' = handlers
         /\ selected' \in {selected, NoServer}
<1> USE DEF NoTask
<1> DEFINE tk == [s \in Servers |-> Reconciled(s, reg[s])]
<1>1. /\ \A s \in Servers : Creates(s, reg[s]) => FreeSlots(s) # {}
      /\ records' = reg
      /\ workers' = [s \in Servers |-> Worker(s, reg[s])]
      /\ st' = [s \in Servers |-> IF Clears(s, reg[s]) THEN NoData ELSE st[s]]
      /\ IF Deselects(reg) THEN SetDemand(tk, count, NoServer)
         ELSE task' = tk /\ UNCHANGED <<count, selected, grace>>
      /\ UNCHANGED <<handlers, wakeups, phase>>
  BY Zenon DEF Reconcile, Worker
<1>2. TypeInv /\ TypeOK BY DEF SchedInv, TypeInv
<1>3. ASSUME NEW s \in Servers
      PROVE  /\ tk[s] \in [Slots -> Task]
             /\ workers'[s] \in Slots \cup {NoTask}
             /\ workers'[s] # NoTask <=> reg[s].enabled
             /\ \A k \in Slots :
                  /\ (tk[s][k].pc # "none" /\ ~tk[s][k].cancelled) <=> k = workers'[s]
                  /\ k = workers'[s] => /\ tk[s][k].rec = reg[s]
                                        /\ tk[s][k].pc = "new" \/ tk[s][k] = task[s][k]
  <2>1. reg[s] \in RegistryRecords /\ (Creates(s, reg[s]) => FreeSlots(s) # {}) BY <1>1
  <2>2. tk[s] = Reconciled(s, reg[s]) /\ workers'[s] = Worker(s, reg[s]) BY <1>1
  <2> HIDE DEF tk
  <2>3. QED BY <2>1, <2>2, ReconciledTasks
<1>4. tk \in [Servers -> [Slots -> Task]]
  BY <1>3
<1> HIDE DEF tk
<1>5. /\ Wakes(tk, task') /\ count' = count /\ selected' \in {selected, NoServer}
      /\ grace' \in BOOLEAN
  <2>1. CASE Deselects(reg)
    <3>1. /\ task' = Demanded(tk, count, NoServer) /\ count' = count /\ selected' = NoServer
          /\ grace' = (grace \/ count > 0)
      BY <1>1, <2>1, Zenon DEF SetDemand
    <3>2. Wakes(tk, task') BY <1>4, <3>1, DemandedTasks, Zenon
    <3>3. grace' \in BOOLEAN BY <3>1, Zenon
    <3>4. QED BY <3>1, <3>2, <3>3
  <2>2. CASE ~Deselects(reg)
    <3>1. task' = tk /\ UNCHANGED <<count, selected, grace>> BY <1>1, <2>2, Zenon
    <3>2. Wakes(tk, task') BY <1>4, <3>1 DEF Wakes
    <3>3. QED BY <1>2, <3>1, <3>2 DEF TypeOK
  <2>3. QED BY <2>1, <2>2
<1>6. /\ task' \in [Servers -> [Slots -> Task]]
      /\ \A s \in Servers, k \in Slots :
           /\ task'[s][k].pc = tk[s][k].pc /\ task'[s][k].rec = tk[s][k].rec
           /\ task'[s][k].cancelled = tk[s][k].cancelled
           /\ task'[s][k] = tk[s][k] \/ (wakeups[s] = k => task'[s][k].woken = TRUE)
  BY <1>5, Zenon DEF Wakes
<1>7. \A s \in Servers, k \in Slots : Live(s, k)' <=> k = workers'[s]
  BY <1>3, <1>6 DEF Live
<1>8. wakeups' = wakeups /\ phase' = phase /\ handlers' = handlers BY <1>1
<1>9. TypeInv'
  <2>1. workers' \in [Servers -> Slots \cup {NoTask}] BY <1>1, <1>3
  <2>2. st' \in [Servers -> [exists : BOOLEAN, status : Status, host : Hosts]]
    BY <1>1, <1>2, TaskValues DEF TypeOK
  <2>3. TypeOK' BY <1>1, <1>2, <1>5, <1>6, <1>8, <2>1, <2>2 DEF TypeOK
  <2>4. QED BY <1>2, <1>8, <2>3 DEF TypeInv
<1>10. WorkersMatchRegistry'
  <2>1. ASSUME NEW s \in Servers
        PROVE  /\ {k \in Slots : Live(s, k)'} = {workers'[s]} \ {NoTask}
               /\ workers'[s] # NoTask <=> records'[s].enabled
               /\ workers'[s] # NoTask => task'[s][workers'[s]].rec = records'[s]
    <3>1. 0 \notin Slots BY SchedulerAssumption DEF Slots
    <3>2. {k \in Slots : Live(s, k)'} = {workers'[s]} \ {NoTask}
      BY <1>3, <1>7, <3>1
    <3>3. QED BY <1>1, <1>3, <1>6, <3>2
  <2>2. records' = registry' BY <1>1
  <2>3. QED BY <2>1, <2>2 DEF WorkersMatchRegistry
<1>11. QuietWhenStopping' BY <1>8 DEF QuietWhenStopping
<1>12. ASSUME NEW s \in Servers, NEW k \in Slots, Live(s, k)', task'[s][k].pc # "new"
       PROVE  tk[s][k] = task[s][k] /\ Live(s, k) /\ task[s][k].pc # "new" /\ wakeups[s] = k
  <2>1. k = workers'[s] BY <1>7, <1>12
  <2>2. tk[s][k] = task[s][k]
    <3>1. tk[s][k].pc # "new" BY <1>6, <1>12
    <3>2. k = workers'[s] => tk[s][k].pc = "new" \/ tk[s][k] = task[s][k] BY <1>3
    <3>3. QED BY <2>1, <3>1, <3>2
  <2>3. Live(s, k) BY <1>3, <2>1, <2>2 DEF Live
  <2>4. QED BY <1>6, <1>12, <2>2, <2>3 DEF SchedInv, WorkInv, EventRegistered
<1>13. EventRegistered' BY <1>8, <1>12 DEF EventRegistered
<1>14. NoLostWakeup'
  <2> SUFFICES ASSUME NEW s \in Servers, NEW k \in Slots,
                      Live(s, k)', task'[s][k].pc = "sleeping", task'[s][k].behind
               PROVE  task'[s][k].woken
    BY DEF NoLostWakeup
  <2>1. tk[s][k] = task[s][k] /\ Live(s, k) /\ wakeups[s] = k BY <1>12
  <2>2. CASE task'[s][k] = tk[s][k]
    BY <2>1, <2>2 DEF SchedInv, WorkInv, NoLostWakeup
  <2>3. CASE task'[s][k] # tk[s][k]
    BY <1>6, <2>1, <2>3
  <2>4. QED BY <2>2, <2>3
<1>15. DataOfCurrentHost'
  <2> SUFFICES ASSUME NEW s \in Servers, st'[s].exists
               PROVE  records'[s].enabled /\ st'[s].host = records'[s].host
    BY DEF DataOfCurrentHost
  <2>1. st'[s] = st[s] /\ ~Clears(s, reg[s])
    BY <1>1, TaskValues
  <2>2. records[s].enabled /\ st[s].host = records[s].host
    BY <2>1 DEF SchedInv, WorkInv, DataOfCurrentHost
  <2>3. QED BY <1>1, <2>1, <2>2 DEF Clears, IdentityChanged
<1>16. QED BY <1>5, <1>8, <1>9, <1>10, <1>11, <1>13, <1>14, <1>15 DEF WorkInv

(* A route has changed the record and waits for close_server. *)
LEMMA WaitingEditPreserves ==
  ASSUME SchedInv, registry' \in [Servers -> RegistryRecords],
         edits < MaxEdits, edits' = edits + 1, pending' = pending + 1,
         UNCHANGED <<sched, demand, st, phase>>
  PROVE  TypeInv' /\ WorkInv' /\ UNCHANGED demand
<1>1. /\ records' = records /\ workers' = workers /\ wakeups' = wakeups /\ task' = task
      /\ grace' = grace /\ handlers' = handlers /\ count' = count /\ selected' = selected
      /\ phase' = phase /\ st' = st
  BY DEF sched, demand
<1>2. TypeInv /\ TypeOK BY DEF SchedInv, TypeInv
<1>3. TypeInv'
  <2>1. /\ pending' \in 0 .. MaxEdits /\ edits' \in 0 .. MaxEdits /\ pending' <= edits'
        /\ pending' # 0
    BY <1>2, SchedulerAssumption DEF TypeInv, TypeOK
  <2>2. TypeOK' BY <1>1, <1>2, <2>1 DEF TypeOK
  <2>3. QED BY <1>1, <1>2, <2>1, <2>2 DEF TypeInv
<1>4. pending' # 0 BY <1>2 DEF TypeOK
<1>5. WorkersMatchRegistry'
  BY <1>1, <1>4 DEF SchedInv, WorkInv, WorkersMatchRegistry, Live
<1>6. QuietWhenStopping' /\ EventRegistered' /\ NoLostWakeup' /\ DataOfCurrentHost'
  BY <1>1 DEF SchedInv, WorkInv, QuietWhenStopping, EventRegistered, NoLostWakeup,
              DataOfCurrentHost, Live
<1>7. QED BY <1>3, <1>5, <1>6 DEF WorkInv

LEMMA EditPreserves ==
  ASSUME SchedInv, NEW s \in Servers, NEW r \in RegistryRecords, EditServer(s, r)
  PROVE  SchedInv'
<1> DEFINE old == registry[s]
           waits == old.enabled /\ (old.host # r.host \/ ~r.enabled)
<1>1. /\ phase = "running" /\ edits < MaxEdits
      /\ edits' = edits + 1 /\ registry' = [registry EXCEPT ![s] = r]
      /\ \/ waits /\ pending' = pending + 1 /\ UNCHANGED <<sched, demand, st, phase>>
         \/ ~waits /\ Reconcile(registry') /\ UNCHANGED pending
  BY Zenon DEF EditServer
<1> HIDE DEF old, waits
<1>2. TypeInv /\ TypeOK BY DEF SchedInv, TypeInv
<1>3. registry' \in [Servers -> RegistryRecords] BY <1>1, <1>2 DEF TypeOK
<1>4. CASE pending' = pending + 1 /\ UNCHANGED <<sched, demand, st, phase>>
  <2>1. TypeInv' /\ WorkInv' /\ UNCHANGED demand BY <1>1, <1>3, <1>4, WaitingEditPreserves
  <2>2. DemandMatchesSessions' BY <2>1 DEF demand, SchedInv, DemandMatchesSessions
  <2>3. QED BY <2>1, <2>2 DEF SchedInv
<1>5. CASE Reconcile(registry') /\ UNCHANGED pending
  <2>1. pending' \in 0 .. MaxEdits /\ edits' \in 0 .. MaxEdits /\ pending' <= edits'
    BY <1>1, <1>2, <1>5, SchedulerAssumption DEF TypeInv, TypeOK
  <2>2. /\ TypeInv' /\ WorkInv' /\ count' = count /\ handlers' = handlers
        /\ selected' \in {selected, NoServer}
    BY <1>1, <1>3, <1>5, <2>1, ReconcilePreserves
  <2>3. DemandMatchesSessions' BY <2>2 DEF SchedInv, DemandMatchesSessions
  <2>4. QED BY <2>2, <2>3 DEF SchedInv
<1>6. QED BY <1>1, <1>4, <1>5

LEMMA NotifyPreserves ==
  ASSUME SchedInv, Notify
  PROVE  SchedInv'
<1>1. /\ phase = "running" /\ pending > 0 /\ pending' = pending - 1
      /\ Reconcile(registry) /\ registry' = registry /\ edits' = edits
  BY DEF Notify
<1>2. TypeInv /\ TypeOK BY DEF SchedInv, TypeInv
<1>3. registry \in [Servers -> RegistryRecords] BY <1>2 DEF TypeOK
<1>4. pending' \in 0 .. MaxEdits /\ edits' \in 0 .. MaxEdits /\ pending' <= edits'
  BY <1>1, <1>2, SchedulerAssumption DEF TypeInv, TypeOK
<1>5. /\ TypeInv' /\ WorkInv' /\ count' = count /\ handlers' = handlers
      /\ selected' \in {selected, NoServer}
  BY <1>1, <1>3, <1>4, ReconcilePreserves
<1>6. DemandMatchesSessions' BY <1>5 DEF SchedInv, DemandMatchesSessions
<1>7. QED BY <1>5, <1>6 DEF SchedInv

(* A session begins, selects or ends: the count follows the sessions.        *)
LEMMA SessionPreserves ==
  ASSUME SchedInv, NEW c \in Clients,
         Connect(c) \/ Disconnect(c) \/ \E s \in Servers \cup {NoServer} : Select(c, s)
  PROVE  SchedInv'
<1>1. /\ IsFiniteSet(handlers) /\ handlers \subseteq Clients /\ count = Cardinality(handlers)
      /\ count \in Nat /\ selected \in Servers \cup {NoServer}
      /\ handlers = {} => selected = NoServer
  BY DEF SchedInv, TypeInv, TypeOK, DemandMatchesSessions
<1>2. CASE Connect(c)
  <2>1. /\ c \notin handlers /\ handlers' = handlers \cup {c}
        /\ SetDemand(task, count + 1, selected)
        /\ UNCHANGED <<admin, records, workers, wakeups, phase, st>>
    BY <1>2 DEF Connect
  <2>2. IsFiniteSet(handlers') /\ Cardinality(handlers') = count + 1 /\ handlers' # {}
    BY <1>1, <2>1, FS_AddElement
  <2>3. TypeInv' /\ WorkInv' BY <1>1, <2>1, <2>2, DemandPreserves
  <2>4. DemandMatchesSessions' BY <2>1, <2>2 DEF SetDemand, DemandMatchesSessions
  <2>5. QED BY <2>3, <2>4 DEF SchedInv
<1>3. CASE Disconnect(c)
  <2> DEFINE sel == IF count = 1 THEN NoServer ELSE selected
  <2>1. /\ c \in handlers /\ handlers' = handlers \ {c}
        /\ SetDemand(task, count - 1, sel)
        /\ UNCHANGED <<admin, records, workers, wakeups, phase, st>>
    BY <1>3 DEF Disconnect
  <2>2. IsFiniteSet(handlers') /\ Cardinality(handlers') = count - 1
    BY <1>1, <2>1, FS_RemoveElement
  <2>3. count - 1 \in Nat BY <2>2, FS_CardinalityType
  <2>4. handlers' = {} => count = 1 BY <1>1, <2>2, FS_EmptySet
  <2>5. sel \in Servers \cup {NoServer} BY <1>1
  <2>6. count' = count - 1 /\ selected' = sel BY <2>1 DEF SetDemand
  <2>7. DemandMatchesSessions' BY <2>2, <2>4, <2>6 DEF DemandMatchesSessions
  <2> HIDE DEF sel
  <2>8. TypeInv' /\ WorkInv' BY <1>1, <2>1, <2>2, <2>3, <2>5, DemandPreserves
  <2>9. QED BY <2>7, <2>8 DEF SchedInv
<1>4. CASE \E s \in Servers \cup {NoServer} : Select(c, s)
  <2>1. PICK s \in Servers \cup {NoServer} : Select(c, s) BY <1>4
  <2>2. /\ c \in handlers /\ handlers' = handlers /\ SetDemand(task, count, s)
        /\ UNCHANGED <<admin, records, workers, wakeups, phase, st>>
    BY <2>1 DEF Select
  <2>3. TypeInv' /\ WorkInv' BY <1>1, <2>2, DemandPreserves
  <2>4. DemandMatchesSessions' BY <1>1, <2>2 DEF SetDemand, DemandMatchesSessions
  <2>5. QED BY <2>3, <2>4 DEF SchedInv
<1>5. QED BY <1>2, <1>3, <1>4

LEMMA GraceOverPreserves ==
  ASSUME SchedInv, GraceOver
  PROVE  SchedInv'
<1>1. /\ records' = records /\ workers' = workers /\ wakeups' = wakeups /\ task' = task
      /\ registry' = registry /\ pending' = pending /\ edits' = edits
      /\ grace' = FALSE /\ handlers' = handlers /\ count' = count /\ selected' = selected
      /\ phase' = phase /\ st' = st
  BY DEF GraceOver, admin, sched
<1>2. TypeInv /\ TypeOK BY DEF SchedInv, TypeInv
<1>3. TypeOK' BY <1>1, <1>2 DEF TypeOK
<1>4. TypeInv' BY <1>1, <1>2, <1>3 DEF TypeInv
<1>5. WorkersMatchRegistry'
  BY <1>1 DEF SchedInv, WorkInv, WorkersMatchRegistry, Live
<1>6. QuietWhenStopping' /\ EventRegistered' /\ NoLostWakeup' /\ DataOfCurrentHost'
  BY <1>1 DEF SchedInv, WorkInv, QuietWhenStopping, EventRegistered, NoLostWakeup,
              DataOfCurrentHost, Live
<1>7. DemandMatchesSessions' BY <1>1 DEF SchedInv, DemandMatchesSessions
<1>8. QED BY <1>4, <1>5, <1>6, <1>7 DEF SchedInv, WorkInv

LEMMA StopPreserves ==
  ASSUME SchedInv, Stop
  PROVE  SchedInv'
<1> USE DEF NoTask
<1>1. /\ phase = "running" /\ phase' = "stopping"
      /\ task' = [s \in Servers |-> [k \in Slots |->
                    IF k = workers[s] THEN [task[s][k] EXCEPT !.cancelled = TRUE] ELSE task[s][k]]]
      /\ records' = records /\ workers' = workers /\ wakeups' = wakeups
      /\ registry' = registry /\ pending' = pending /\ edits' = edits
      /\ grace' = grace /\ handlers' = handlers /\ count' = count /\ selected' = selected
      /\ st' = st
  BY DEF Stop, admin, demand
<1>2. TypeInv /\ TypeOK BY DEF SchedInv, TypeInv
<1>3. \A t \in Task : LET u == [t EXCEPT !.cancelled = TRUE]
                      IN  u \in Task /\ u.cancelled = TRUE
  BY DEF Task
<1>4. task \in [Servers -> [Slots -> Task]] BY <1>2 DEF TypeOK
<1>5. task' \in [Servers -> [Slots -> Task]] BY <1>1, <1>3, <1>4
<1>6. \A s \in Servers, k \in Slots :
        /\ k = workers[s] => task'[s][k].cancelled = TRUE
        /\ k # workers[s] => task'[s][k] = task[s][k]
  <2> TAKE s \in Servers, k \in Slots
  <2>1. task[s][k] \in Task BY <1>4
  <2>2. QED BY <1>1, <1>3, <2>1
<1>7. \A s \in Servers, k \in Slots : ~(Live(s, k)')
  <2> TAKE s \in Servers, k \in Slots
  <2>1. k # workers[s] => ~Live(s, k)
    BY <1>1 DEF SchedInv, WorkInv, WorkersMatchRegistry
  <2>2. QED BY <1>6, <2>1 DEF Live
<1>8. TypeOK' BY <1>1, <1>2, <1>5 DEF TypeOK
<1>9. TypeInv' BY <1>1, <1>2, <1>8 DEF TypeInv
<1>10. WorkInv'
  BY <1>1, <1>7 DEF WorkInv, WorkersMatchRegistry, QuietWhenStopping, EventRegistered,
                    NoLostWakeup, DataOfCurrentHost
<1>11. DemandMatchesSessions' BY <1>1 DEF SchedInv, DemandMatchesSessions
<1>12. QED BY <1>9, <1>10, <1>11 DEF SchedInv

LEMMA StoppedPreserves ==
  ASSUME SchedInv, Stopped
  PROVE  SchedInv'
<1> USE DEF NoTask
<1>1. /\ phase = "stopping" /\ phase' = "stopped"
      /\ workers' = [s \in Servers |-> NoTask] /\ records' = [s \in Servers |-> Off]
      /\ wakeups' = wakeups /\ task' = task
      /\ registry' = registry /\ pending' = pending /\ edits' = edits
      /\ grace' = grace /\ handlers' = handlers /\ count' = count /\ selected' = selected
      /\ st' = st
  BY DEF Stopped, admin, demand
<1>2. TypeInv /\ TypeOK BY DEF SchedInv, TypeInv
<1>3. TypeOK' BY <1>1, <1>2, OffRecord DEF TypeOK
<1>4. TypeInv' BY <1>1, <1>2, <1>3 DEF TypeInv
<1>5. \A s \in Servers, k \in Slots : ~(Live(s, k)')
  BY <1>1 DEF SchedInv, WorkInv, QuietWhenStopping, Live
<1>6. WorkInv'
  BY <1>1, <1>5 DEF WorkInv, WorkersMatchRegistry, QuietWhenStopping, EventRegistered,
                    NoLostWakeup, DataOfCurrentHost
<1>7. DemandMatchesSessions' BY <1>1 DEF SchedInv, DemandMatchesSessions
<1>8. QED BY <1>4, <1>6, <1>7 DEF SchedInv

LEMMA InitInv == Init => SchedInv
<1> SUFFICES ASSUME Init PROVE SchedInv OBVIOUS
<1> USE DEF NoTask
<1>1. /\ registry \in [Servers -> RegistryRecords] /\ records = registry
      /\ pending = 0 /\ edits = 0
      /\ workers = [s \in Servers |-> IF registry[s].enabled THEN 1 ELSE NoTask]
      /\ wakeups = [s \in Servers |-> NoTask]
      /\ task = [s \in Servers |-> [k \in Slots |->
                   IF k = 1 /\ registry[s].enabled THEN Created(registry[s]) ELSE Ended]]
      /\ grace = FALSE /\ phase = "running"
      /\ handlers = {} /\ count = 0 /\ selected = NoServer
      /\ st = [s \in Servers |-> NoData]
  BY DEF Init
<1>2. 1 \in Slots /\ 0 \notin Slots BY SchedulerAssumption DEF Slots
<1>3. \A s \in Servers : registry[s] \in Record BY <1>1, OffRecord
<1>4. \A s \in Servers, k \in Slots :
        /\ task[s][k] \in Task
        /\ Live(s, k) <=> k = workers[s]
        /\ Live(s, k) => task[s][k].rec = records[s] /\ task[s][k].pc = "new"
  <2> TAKE s \in Servers, k \in Slots
  <2>1. registry[s] \in Record BY <1>3
  <2>2. CASE k = 1 /\ registry[s].enabled
    <3>1. task[s][k] = Created(registry[s]) BY <1>1, <2>2
    <3>2. k = workers[s] BY <1>1, <2>2
    <3>3. QED BY <1>1, <2>1, <3>1, <3>2, TaskValues DEF Live
  <2>3. CASE ~(k = 1 /\ registry[s].enabled)
    <3>1. task[s][k] = Ended BY <1>1, <2>3
    <3>2. k # workers[s] BY <1>1, <1>2, <2>3
    <3>3. QED BY <3>1, <3>2, TaskValues DEF Live
  <2>4. QED BY <2>2, <2>3
<1>5. task \in [Servers -> [Slots -> Task]]
  <2>1. task = [s \in Servers |-> [k \in Slots |-> task[s][k]]] BY <1>1
  <2>2. QED BY <1>4, <2>1
<1>6. TypeOK
  <2>1. workers \in [Servers -> Slots \cup {NoTask}] BY <1>1, <1>2
  <2>2. st \in [Servers -> [exists : BOOLEAN, status : Status, host : Hosts]]
    BY <1>1, TaskValues
  <2>3. pending \in 0 .. MaxEdits /\ edits \in 0 .. MaxEdits /\ count \in Nat
    BY <1>1, SchedulerAssumption
  <2>4. wakeups \in [Servers -> Slots \cup {NoTask}] BY <1>1
  <2>5. /\ handlers \subseteq Clients /\ selected \in Servers \cup {NoServer}
        /\ grace \in BOOLEAN /\ phase \in {"running", "stopping", "stopped"}
    BY <1>1
  <2>6. registry \in [Servers -> RegistryRecords] /\ records \in [Servers -> RegistryRecords]
    BY <1>1
  <2>7. QED BY <1>5, <2>1, <2>2, <2>3, <2>4, <2>5, <2>6, Zenon DEF TypeOK
<1>7. TypeInv BY <1>1, <1>6, FS_EmptySet DEF TypeInv
<1>8. WorkersMatchRegistry
  <2>1. ASSUME NEW s \in Servers
        PROVE  /\ {k \in Slots : Live(s, k)} = {workers[s]} \ {NoTask}
               /\ workers[s] # NoTask <=> records[s].enabled
               /\ workers[s] # NoTask => task[s][workers[s]].rec = records[s]
    <3>1. workers[s] \in Slots \cup {NoTask} BY <1>6 DEF TypeOK
    <3>2. {k \in Slots : Live(s, k)} = {workers[s]} \ {NoTask} BY <1>2, <1>4, <3>1
    <3>3. QED BY <1>1, <1>4, <3>1, <3>2
  <2>2. QED BY <1>1, <2>1 DEF WorkersMatchRegistry
<1>9. QuietWhenStopping /\ EventRegistered /\ NoLostWakeup
  BY <1>1, <1>4 DEF QuietWhenStopping, EventRegistered, NoLostWakeup
<1>10. DataOfCurrentHost BY <1>1, TaskValues DEF DataOfCurrentHost
<1>11. DemandMatchesSessions BY <1>1, FS_EmptySet DEF DemandMatchesSessions
<1>12. QED BY <1>7, <1>8, <1>9, <1>10, <1>11 DEF SchedInv, WorkInv

-----------------------------------------------------------------------------
(* The theorems *)

LEMMA WorkerPreserves ==
  ASSUME SchedInv, NEW s \in Servers, NEW k \in Slots,
         \/ \E newly \in SUBSET Groups : Begin(s, k, newly) \/ Collected(s, k, newly)
         \/ Unwind(s, k)
  PROVE  SchedInv'
<1>1. TypeInv' /\ WorkInv'
  BY BeginWorks, CollectedWorks, WorksPreserves, UnwindPreserves
<1>2. UNCHANGED <<handlers, count, selected>>
  BY Zenon DEF Begin, Collected, Unwind, demand
<1>3. DemandMatchesSessions' BY <1>2 DEF SchedInv, DemandMatchesSessions
<1>4. QED BY <1>1, <1>3 DEF SchedInv

LEMMA NextInv == SchedInv /\ [Next]_vars => SchedInv'
<1> SUFFICES ASSUME SchedInv, [Next]_vars PROVE SchedInv' OBVIOUS
<1>1. CASE UNCHANGED vars
  <2>1. /\ records' = records /\ workers' = workers /\ wakeups' = wakeups /\ task' = task
        /\ registry' = registry /\ pending' = pending /\ edits' = edits
        /\ grace' = grace /\ handlers' = handlers /\ count' = count /\ selected' = selected
        /\ phase' = phase /\ st' = st
    BY <1>1 DEF vars, admin, sched, demand
  <2>2. TypeInv'
    <3>1. TypeOK' BY <2>1 DEF SchedInv, TypeInv, TypeOK
    <3>2. QED BY <2>1, <3>1 DEF SchedInv, TypeInv
  <2>3. WorkersMatchRegistry'
    BY <2>1 DEF SchedInv, WorkInv, WorkersMatchRegistry, Live
  <2>4. QuietWhenStopping' /\ EventRegistered' /\ NoLostWakeup' /\ DataOfCurrentHost'
    BY <2>1 DEF SchedInv, WorkInv, QuietWhenStopping, EventRegistered, NoLostWakeup,
                DataOfCurrentHost, Live
  <2>5. DemandMatchesSessions' BY <2>1 DEF SchedInv, DemandMatchesSessions
  <2>6. QED BY <2>2, <2>3, <2>4, <2>5 DEF SchedInv, WorkInv
<1>2. CASE \E s \in Servers, k \in Slots :
             \/ \E newly \in SUBSET Groups : Begin(s, k, newly) \/ Collected(s, k, newly)
             \/ Unwind(s, k)
  BY <1>2, WorkerPreserves
<1>3. CASE \E s \in Servers, r \in RegistryRecords : EditServer(s, r)
  BY <1>3, EditPreserves
<1>4. CASE Notify BY <1>4, NotifyPreserves
<1>5. CASE \E c \in Clients : \/ Connect(c) \/ Disconnect(c)
                              \/ \E s \in Servers \cup {NoServer} : Select(c, s)
  BY <1>5, SessionPreserves
<1>6. CASE GraceOver BY <1>6, GraceOverPreserves
<1>7. CASE Stop BY <1>7, StopPreserves
<1>8. CASE Stopped BY <1>8, StoppedPreserves
<1>9. QED BY <1>1, <1>2, <1>3, <1>4, <1>5, <1>6, <1>7, <1>8, Zenon DEF Next

LEMMA AlwaysSchedInv == Spec => []SchedInv
BY InitInv, NextInv, PTL DEF Spec

(* Every variable of the scheduler has its type in every reachable state:    *)
(* slots, records, event registrations and stored data (scheduler.py).       *)
THEOREM TypeCorrect == Spec => []TypeOK
<1>1. SchedInv => TypeOK BY DEF SchedInv, TypeInv
<1>2. QED BY <1>1, AlwaysSchedInv, PTL

(* Reconciliation keeps exactly one live task for every enabled server and   *)
(* none for the others, however edits, notifications, failures and the end   *)
(* of cancelled tasks interleave.                                            *)
THEOREM WorkersCorrect == Spec => []WorkersMatchRegistry
<1>1. SchedInv => WorkersMatchRegistry BY DEF SchedInv, WorkInv
<1>2. QED BY <1>1, AlwaysSchedInv, PTL

(* No task that is being cancelled stores what it read from a host the       *)
(* record no longer names, and reconciliation drops what was stored.         *)
THEOREM DataCorrect == Spec => []DataOfCurrentHost
<1>1. SchedInv => DataOfCurrentHost BY DEF SchedInv, WorkInv
<1>2. QED BY <1>1, AlwaysSchedInv, PTL

(* set_demand reaches every sleeping task: the clear-then-check of the loop  *)
(* and the identity test in the `finally` of a cancelled task lose no event. *)
THEOREM WakeupCorrect == Spec => []NoLostWakeup
<1>1. SchedInv => NoLostWakeup BY DEF SchedInv, WorkInv
<1>2. QED BY <1>1, AlwaysSchedInv, PTL

(* The client count and the selection of the service are those of the        *)
(* sessions in progress, through connects, disconnects and reconciliations.  *)
THEOREM DemandCorrect == Spec => []DemandMatchesSessions
<1>1. SchedInv => DemandMatchesSessions BY DEF SchedInv
<1>2. QED BY <1>1, AlwaysSchedInv, PTL

-----------------------------------------------------------------------------
(* REALTIME HUB                                                              *)
(* What is still to be pushed follows from the flags of a client, what is    *)
(* on its way to it from the last frame of each kind in its queue and in the *)
(* hands of its sender.                                                      *)

(* The last frame of that kind on its way is x, or none is and the browser *)
(* has seen x.                                                             *)
Carries(s, kind, x, seen) ==
  \/ \E i \in 1 .. Len(s) : s[i] = <<kind, x>> /\ \A j \in i + 1 .. Len(s) : s[j][1] # kind
  \/ (\A i \in 1 .. Len(s) : s[i][1] # kind) /\ seen = x

(* What the browser of c will still be shown, in order. *)
Stream(c) == inflight[c] \o queue[c]

(* A push that nothing woke since has sent every client all there is. *)
PushInv ==
  /\ ~wake => \A c \in clients : fleetSent[c]
  /\ \A c \in clients :
       fleetSent[c] => News = {} /\ (ShowsSelected => snapSent[c] = "sent")

(* The last fleet frame a client has or gets is the latest, unless one is  *)
(* still to be pushed to it.                                               *)
FleetInv == \A c \in clients : fleetSent[c] => Carries(Stream(c), "fleet", TRUE, viewFleet[c])

(* The last snapshot a client has or gets is of the selected server, once  *)
(* one was pushed since the selection was set and none was dropped.        *)
SelectionInv ==
  \A c \in clients \ lossy :
    snapSent[c] # "never" => Carries(Stream(c), "server", intent, viewServer[c])

-----------------------------------------------------------------------------
(* Frames on their way *)

LEMMA CarriesNothing ==
  ASSUME NEW kind, NEW x, NEW seen, Carries(<<>>, kind, x, seen)
  PROVE  seen = x
BY DEF Carries

LEMMA CarriesMore ==
  ASSUME NEW s \in Seq(Frames), NEW t \in Seq(Frames), NEW kind, NEW x, NEW seen,
         Carries(s, kind, x, seen), \A i \in 1 .. Len(t) : t[i][1] # kind
  PROVE  Carries(s \o t, kind, x, seen)
<1>1. /\ Len(s \o t) = Len(s) + Len(t) /\ Len(s) \in Nat /\ Len(t) \in Nat
      /\ \A i \in 1 .. Len(s) + Len(t) :
           (s \o t)[i] = IF i <= Len(s) THEN s[i] ELSE t[i - Len(s)]
  BY ConcatProperties, LenProperties
<1>2. \A i \in Len(s) + 1 .. Len(s) + Len(t) : (s \o t)[i][1] # kind
  <2>1. TAKE i \in Len(s) + 1 .. Len(s) + Len(t)
  <2>2. i - Len(s) \in 1 .. Len(t) /\ i \in 1 .. Len(s) + Len(t) /\ ~(i <= Len(s))
    BY <1>1
  <2>3. (s \o t)[i] = t[i - Len(s)]  BY <1>1, <2>2
  <2> QED  BY <2>2, <2>3
<1>3. CASE \E i \in 1 .. Len(s) : s[i] = <<kind, x>> /\ \A j \in i + 1 .. Len(s) : s[j][1] # kind
  <2>1. PICK i \in 1 .. Len(s) : s[i] = <<kind, x>> /\ \A j \in i + 1 .. Len(s) : s[j][1] # kind
    BY <1>3
  <2>2. i \in 1 .. Len(s \o t) /\ (s \o t)[i] = <<kind, x>>  BY <1>1, <2>1
  <2>3. ASSUME NEW j \in i + 1 .. Len(s \o t) PROVE (s \o t)[j][1] # kind
    <3>1. CASE j <= Len(s)
      <4>1. j \in i + 1 .. Len(s) /\ j \in 1 .. Len(s) + Len(t)  BY <1>1, <3>1, <2>3
      <4>2. (s \o t)[j] = s[j]  BY <1>1, <3>1, <4>1
      <4> QED  BY <2>1, <4>1, <4>2
    <3>2. CASE ~(j <= Len(s))
      <4>1. j \in Len(s) + 1 .. Len(s) + Len(t)  BY <1>1, <3>2, <2>3
      <4> QED  BY <1>2, <4>1
    <3> QED  BY <3>1, <3>2
  <2> QED  BY <2>2, <2>3 DEF Carries
<1>4. CASE (\A i \in 1 .. Len(s) : s[i][1] # kind) /\ seen = x
  <2>1. ASSUME NEW j \in 1 .. Len(s \o t) PROVE (s \o t)[j][1] # kind
    <3>1. CASE j <= Len(s)
      <4>1. j \in 1 .. Len(s) /\ j \in 1 .. Len(s) + Len(t)  BY <1>1, <3>1, <2>1
      <4>2. (s \o t)[j] = s[j]  BY <1>1, <3>1, <4>1
      <4> QED  BY <1>4, <4>1, <4>2
    <3>2. CASE ~(j <= Len(s))
      <4>1. j \in Len(s) + 1 .. Len(s) + Len(t)  BY <1>1, <3>2, <2>1
      <4> QED  BY <1>2, <4>1
    <3> QED  BY <3>1, <3>2
  <2> QED  BY <1>4, <2>1 DEF Carries
<1> QED  BY <1>3, <1>4 DEF Carries

(* What a later part carries by itself, the whole carries. *)
LEMMA CarriesLate ==
  ASSUME NEW s \in Seq(Frames), NEW t \in Seq(Frames), NEW kind, NEW x, NEW seen,
         NEW k \in 1 .. Len(t), t[k] = <<kind, x>>,
         \A j \in k + 1 .. Len(t) : t[j][1] # kind
  PROVE  Carries(s \o t, kind, x, seen)
<1>1. /\ Len(s \o t) = Len(s) + Len(t) /\ Len(s) \in Nat /\ Len(t) \in Nat
      /\ \A i \in 1 .. Len(s) + Len(t) :
           (s \o t)[i] = IF i <= Len(s) THEN s[i] ELSE t[i - Len(s)]
  BY ConcatProperties, LenProperties
<1>2. Len(s) + k \in 1 .. Len(s \o t) /\ (s \o t)[Len(s) + k] = t[k]
  <2>1. Len(s) + k \in 1 .. Len(s) + Len(t) /\ ~(Len(s) + k <= Len(s))
        /\ (Len(s) + k) - Len(s) = k  BY <1>1
  <2> QED  BY <1>1, <2>1
<1>3. ASSUME NEW j \in (Len(s) + k) + 1 .. Len(s \o t) PROVE (s \o t)[j][1] # kind
  <2>1. j - Len(s) \in k + 1 .. Len(t) /\ ~(j <= Len(s)) /\ j \in 1 .. Len(s) + Len(t)
    BY <1>1, <1>3
  <2>2. (s \o t)[j] = t[j - Len(s)]  BY <1>1, <2>1
  <2> QED  BY <2>1, <2>2
<1> QED  BY <1>2, <1>3 DEF Carries

(* When the first frame arrives, the browser shows it. *)
LEMMA CarriesShown ==
  ASSUME NEW f \in Frames, NEW t \in Seq(Frames), NEW kind, NEW x, NEW seen,
         Carries(<<f>> \o t, kind, x, seen)
  PROVE  Carries(t, kind, x, IF f[1] = kind THEN f[2] ELSE seen)
<1> DEFINE s == <<f>> \o t
<1>1. /\ Len(s) = 1 + Len(t) /\ Len(t) \in Nat
      /\ \A i \in 1 .. Len(s) : s[i] = IF i = 1 THEN f ELSE t[i - 1]
  <2>1. <<f>> \in Seq(Frames) /\ Len(<<f>>) = 1 /\ <<f>>[1] = f  OBVIOUS
  <2>2. /\ Len(s) = Len(<<f>>) + Len(t)
        /\ \A i \in 1 .. Len(<<f>>) + Len(t) :
             s[i] = IF i <= Len(<<f>>) THEN <<f>>[i] ELSE t[i - Len(<<f>>)]
    BY <2>1, ConcatProperties
  <2>3. Len(t) \in Nat  BY LenProperties
  <2> HIDE DEF s
  <2> QED  BY <2>1, <2>2, <2>3
<1> HIDE DEF s
<1>2. \A i \in 1 .. Len(t) : s[i + 1] = t[i]  BY <1>1
<1>3. s[1] = f /\ 1 \in 1 .. Len(s)  BY <1>1
<1>4. CASE \E i \in 1 .. Len(s) : s[i] = <<kind, x>> /\ \A j \in i + 1 .. Len(s) : s[j][1] # kind
  <2>1. PICK i \in 1 .. Len(s) : s[i] = <<kind, x>> /\ \A j \in i + 1 .. Len(s) : s[j][1] # kind
    BY <1>4
  <2>2. CASE i = 1
    <3>1. f[1] = kind /\ f[2] = x  BY <1>3, <2>1, <2>2
    <3>2. ASSUME NEW j \in 1 .. Len(t) PROVE t[j][1] # kind
      <4>1. j + 1 \in i + 1 .. Len(s)  BY <1>1, <2>2
      <4> QED  BY <1>2, <2>1, <4>1
    <3> QED  BY <3>1, <3>2 DEF Carries
  <2>3. CASE i # 1
    <3>1. i - 1 \in 1 .. Len(t) /\ (i - 1) + 1 = i  BY <1>1, <2>3
    <3>2. t[i - 1] = <<kind, x>>  BY <1>2, <2>1, <3>1
    <3>3. ASSUME NEW j \in (i - 1) + 1 .. Len(t) PROVE t[j][1] # kind
      <4>1. j + 1 \in i + 1 .. Len(s) /\ j \in 1 .. Len(t)  BY <1>1, <2>3
      <4> QED  BY <1>2, <2>1, <4>1
    <3> QED  BY <3>1, <3>2, <3>3 DEF Carries
  <2> QED  BY <2>2, <2>3
<1>5. CASE (\A i \in 1 .. Len(s) : s[i][1] # kind) /\ seen = x
  <2>1. f[1] # kind  BY <1>3, <1>5
  <2>2. ASSUME NEW j \in 1 .. Len(t) PROVE t[j][1] # kind
    <3>1. j + 1 \in 1 .. Len(s)  BY <1>1
    <3> QED  BY <1>2, <1>5, <3>1
  <2> QED  BY <1>5, <2>1, <2>2 DEF Carries
<1>6. Carries(s, kind, x, seen)  BY DEF s
<1> QED  BY <1>4, <1>5, <1>6 DEF Carries

-----------------------------------------------------------------------------
(* What a push makes of a queue *)

LEMMA OutdatedFacts ==
  ASSUME NEW q \in Seq(Frames)
  PROVE  /\ Outdated(q) \in Seq(Frames) /\ Len(Outdated(q)) = Len(q)
         /\ \A i \in 1 .. Len(q) :
              Outdated(q)[i] = IF q[i][1] = "fleet" THEN <<"fleet", FALSE>> ELSE q[i]
<1>1. Len(q) \in Nat /\ DOMAIN q = 1 .. Len(q) /\ \A i \in 1 .. Len(q) : q[i] \in Frames
  BY LenProperties, ElementOfSeq
<1>2. <<"fleet", FALSE>> \in Frames  BY DEF Frames
<1>3. Outdated(q) = [i \in 1 .. Len(q) |-> IF q[i][1] = "fleet" THEN <<"fleet", FALSE>> ELSE q[i]]
  BY <1>1 DEF Outdated
<1>4. Outdated(q) \in [1 .. Len(q) -> Frames]  BY <1>1, <1>2, <1>3
<1>5. Outdated(q) \in Seq(Frames) /\ Len(Outdated(q)) = Len(q)
  BY <1>1, <1>4, SeqDef, LenProperties
<1> QED  BY <1>3, <1>5

(* Snapshots on their way are left alone by a new fleet revision. *)
LEMMA OutdatedCarries ==
  ASSUME NEW s \in Seq(Frames), NEW x, NEW seen, Carries(s, "server", x, seen)
  PROVE  Carries(Outdated(s), "server", x, seen)
<1> DEFINE t == Outdated(s)
<1>1. /\ Len(t) = Len(s) /\ Len(s) \in Nat
      /\ \A i \in 1 .. Len(s) : t[i] = IF s[i][1] = "fleet" THEN <<"fleet", FALSE>> ELSE s[i]
  BY OutdatedFacts, LenProperties
<1>s. SUFFICES Carries(t, "server", x, seen)  BY DEF t
<1> HIDE DEF t
<1>2. \A i \in 1 .. Len(s) : s[i][1] # "server" => t[i][1] # "server"  BY <1>1
<1>3. \A i \in 1 .. Len(s) : s[i] = <<"server", x>> => t[i] = <<"server", x>>  BY <1>1
<1>4. CASE \E i \in 1 .. Len(s) : s[i] = <<"server", x>>
                                  /\ \A j \in i + 1 .. Len(s) : s[j][1] # "server"
  <2>1. PICK i \in 1 .. Len(s) : s[i] = <<"server", x>>
                                 /\ \A j \in i + 1 .. Len(s) : s[j][1] # "server"
    BY <1>4
  <2>2. \A j \in i + 1 .. Len(s) : j \in 1 .. Len(s)  BY <1>1
  <2> QED  BY <1>1, <1>2, <1>3, <2>1, <2>2 DEF Carries
<1>5. CASE (\A i \in 1 .. Len(s) : s[i][1] # "server") /\ seen = x
  BY <1>1, <1>2, <1>5 DEF Carries
<1> QED  BY <1>4, <1>5 DEF Carries

LEMMA OutdatedConcat ==
  ASSUME NEW s \in Seq(Frames), NEW t \in Seq(Frames)
  PROVE  Outdated(s \o t) = Outdated(s) \o Outdated(t)
<1> DEFINE Old(f) == IF f[1] = "fleet" THEN <<"fleet", FALSE>> ELSE f
           u == Outdated(s)
           v == Outdated(t)
           w == Outdated(s \o t)
<1>1. /\ s \o t \in Seq(Frames) /\ Len(s \o t) = Len(s) + Len(t)
      /\ Len(s) \in Nat /\ Len(t) \in Nat
      /\ \A i \in 1 .. Len(s) + Len(t) :
           (s \o t)[i] = IF i <= Len(s) THEN s[i] ELSE t[i - Len(s)]
  BY ConcatProperties, LenProperties
<1>2. u \in Seq(Frames) /\ Len(u) = Len(s) /\ \A i \in 1 .. Len(s) : u[i] = Old(s[i])
  BY OutdatedFacts
<1>3. v \in Seq(Frames) /\ Len(v) = Len(t) /\ \A i \in 1 .. Len(t) : v[i] = Old(t[i])
  BY OutdatedFacts
<1>4. /\ w \in Seq(Frames) /\ Len(w) = Len(s) + Len(t)
      /\ \A i \in 1 .. Len(s) + Len(t) : w[i] = Old((s \o t)[i])
  <2>1. /\ w \in Seq(Frames) /\ Len(w) = Len(s \o t)
        /\ \A i \in 1 .. Len(s \o t) : w[i] = Old((s \o t)[i])
    BY <1>1, OutdatedFacts
  <2> HIDE DEF w, Old
  <2> QED  BY <1>1, <2>1
<1>5. SUFFICES w = u \o v  OBVIOUS
<1> HIDE DEF u, v, w, Old
<1>6. /\ u \o v \in Seq(Frames) /\ Len(u \o v) = Len(u) + Len(v)
      /\ \A i \in 1 .. Len(u) + Len(v) : (u \o v)[i] = IF i <= Len(u) THEN u[i] ELSE v[i - Len(u)]
  <2>1. u \in Seq(Frames) /\ v \in Seq(Frames)  BY <1>2, <1>3
  <2> QED  BY <2>1, ConcatProperties
<1>7. ASSUME NEW i \in 1 .. Len(s) + Len(t) PROVE w[i] = (u \o v)[i]
  <2>1. CASE i <= Len(s)
    <3>1. i \in 1 .. Len(s)  BY <1>1, <2>1
    <3>2. w[i] = Old(s[i])  BY <1>1, <1>4, <2>1
    <3>3. (u \o v)[i] = u[i]  BY <1>2, <1>3, <1>6, <2>1
    <3> QED  BY <1>2, <3>1, <3>2, <3>3
  <2>2. CASE ~(i <= Len(s))
    <3>1. i - Len(s) \in 1 .. Len(t)  BY <1>1, <2>2
    <3>2. w[i] = Old(t[i - Len(s)])  BY <1>1, <1>4, <2>2
    <3>3. (u \o v)[i] = v[i - Len(s)]  BY <1>2, <1>3, <1>6, <2>2
    <3> QED  BY <1>3, <3>1, <3>2, <3>3
  <2> QED  BY <2>1, <2>2
<1> QED  BY <1>2, <1>3, <1>4, <1>6, <1>7, SeqEqual

(* enqueue keeps the newest QueueSize frames, in order. *)
LEMMA NewestFacts ==
  ASSUME NEW q \in Seq(Frames)
  PROVE  /\ Newest(q) \in Seq(Frames) /\ Len(Newest(q)) <= QueueSize
         /\ Len(q) <= QueueSize => Newest(q) = q
         /\ Len(q) > QueueSize =>
              /\ Len(Newest(q)) = QueueSize
              /\ \A i \in 1 .. QueueSize : Newest(q)[i] = q[(Len(q) - QueueSize) + i]
<1>1. Len(q) \in Nat /\ QueueSize \in Nat \ {0}  BY LenProperties, HubAssumption
<1>2. CASE Len(q) <= QueueSize  BY <1>1, <1>2 DEF Newest
<1>3. CASE Len(q) > QueueSize
  <2> DEFINE m == Len(q) - QueueSize + 1
  <2>1. m \in 1 .. Len(q) + 1 /\ Len(q) \in m - 1 .. Len(q) /\ Len(q) - m + 1 = QueueSize
    BY <1>1, <1>3
  <2>2. Newest(q) = SubSeq(q, m, Len(q))  BY <1>3 DEF Newest
  <2> HIDE DEF m
  <2>3. /\ SubSeq(q, m, Len(q)) \in Seq(Frames)
        /\ Len(SubSeq(q, m, Len(q))) = Len(q) - m + 1
        /\ \A i \in 1 .. Len(q) - m + 1 : SubSeq(q, m, Len(q))[i] = q[m + i - 1]
    BY <2>1, SubSeqProperties
  <2>4. Len(Newest(q)) = QueueSize  BY <2>1, <2>2, <2>3
  <2>5. \A i \in 1 .. QueueSize : m + i - 1 = (Len(q) - QueueSize) + i  BY <1>1 DEF m
  <2> QED  BY <1>1, <1>3, <2>1, <2>2, <2>3, <2>4, <2>5
<1> QED  BY <1>1, <1>2, <1>3

NoneAfter(s, i, kind) == \A j \in i + 1 .. Len(s) : s[j][1] # kind

(* A frame among the last QueueSize survives. *)
LEMMA NewestKeeps ==
  ASSUME NEW q \in Seq(Frames), NEW kind, NEW k \in 1 .. Len(q), NoneAfter(q, k, kind),
         k > Len(q) - QueueSize
  PROVE  \E i \in 1 .. Len(Newest(q)) : Newest(q)[i] = q[k] /\ NoneAfter(Newest(q), i, kind)
<1>1. Len(q) \in Nat /\ QueueSize \in Nat \ {0}  BY LenProperties, HubAssumption
<1>2. CASE Len(q) <= QueueSize
  BY <1>2, NewestFacts
<1>3. CASE Len(q) > QueueSize
  <2> DEFINE d == Len(q) - QueueSize
             i == k - d
  <2>1. Len(Newest(q)) = QueueSize /\ \A h \in 1 .. QueueSize : Newest(q)[h] = q[d + h]
    BY <1>3, NewestFacts
  <2>2. d \in Nat /\ i \in 1 .. QueueSize /\ d + i = k /\ d + QueueSize = Len(q)  BY <1>1, <1>3
  <2>3. Newest(q)[i] = q[k]  BY <2>1, <2>2
  <2>4. ASSUME NEW j \in i + 1 .. QueueSize PROVE Newest(q)[j][1] # kind
    <3>1. d + j \in k + 1 .. Len(q) /\ j \in 1 .. QueueSize  BY <1>1, <2>2
    <3> QED  BY <2>1, <3>1 DEF NoneAfter
  <2> HIDE DEF i
  <2> QED  BY <2>1, <2>2, <2>3, <2>4 DEF NoneAfter
<1> QED  BY <1>1, <1>2, <1>3

(* Status frames, one per server at most. *)
LEMMA StatusFramesFacts ==
  /\ StatusFrames \in Seq(Frames) /\ Len(StatusFrames) <= Cardinality(Servers)
  /\ \A i \in 1 .. Len(StatusFrames) : StatusFrames[i] = <<"status">>
  /\ News = {} => StatusFrames = << >>
<1> DEFINE known == {s \in News : status[s] # "unknown"}
           n == Cardinality(known)
<1>1. IsFiniteSet(Servers) /\ known \subseteq Servers  BY HubAssumption DEF News
<1>2. IsFiniteSet(known) /\ n <= Cardinality(Servers)  BY <1>1, FS_Subset
<1>3. n \in Nat  BY <1>2, FS_CardinalityType
<1>4. StatusFrames = [i \in 1 .. n |-> <<"status">>]  BY DEF StatusFrames
<1>5. <<"status">> \in Frames  BY DEF Frames
<1>6. News = {} => n = 0
  <2>1. Cardinality({}) = 0  BY FS_EmptySet
  <2> QED  BY <2>1
<1> HIDE DEF known, n
<1>7. StatusFrames \in [1 .. n -> Frames]  BY <1>4, <1>5
<1>8. StatusFrames \in Seq(Frames) /\ Len(StatusFrames) = n
  BY <1>3, <1>7, SeqDef, LenProperties
<1>9. News = {} => StatusFrames = << >>  BY <1>6, <1>8, EmptySeq
<1> QED  BY <1>2, <1>3, <1>4, <1>8, <1>9

(* What a push has for c: the fleet first, then the selected server. *)
LEMMA FramesForFacts ==
  ASSUME HubTypeOK, NEW c \in Clients
  PROVE  /\ FramesFor(c) \in Seq(Frames)
         /\ QueueSize >= Cardinality(Servers) + 2 => Len(FramesFor(c)) <= QueueSize
         /\ ~fleetSent[c] =>
              /\ Len(FramesFor(c)) >= 1 /\ FramesFor(c)[1] = <<"fleet", TRUE>>
              /\ \A j \in 2 .. Len(FramesFor(c)) : FramesFor(c)[j][1] # "fleet"
         /\ ShowsSelected /\ snapSent[c] # "sent" =>
              \E k \in 1 .. Len(FramesFor(c)) :
                /\ FramesFor(c)[k] = <<"server", intent>>
                /\ \A j \in k + 1 .. Len(FramesFor(c)) : FramesFor(c)[j][1] # "server"
         /\ ~(ShowsSelected /\ snapSent[c] # "sent") =>
              \A j \in 1 .. Len(FramesFor(c)) : FramesFor(c)[j][1] # "server"
         /\ fleetSent[c] /\ News = {} /\ (ShowsSelected => snapSent[c] = "sent")
              => FramesFor(c) = << >>
<1> DEFINE a == IF fleetSent[c] THEN << >> ELSE <<<<"fleet", TRUE>>>>
           b == IF ShowsSelected /\ snapSent[c] # "sent" THEN <<<<"server", intent>>>> ELSE << >>
           t == StatusFrames
           ab == a \o b
           f == FramesFor(c)
<1>1. f = ab \o t  BY DEF FramesFor
<1>2. /\ t \in Seq(Frames) /\ Len(t) <= Cardinality(Servers) /\ Len(t) \in Nat
      /\ \A i \in 1 .. Len(t) : t[i] = <<"status">>
  BY StatusFramesFacts, LenProperties
<1>3. ShowsSelected => intent \in Servers  BY DEF ShowsSelected, HubTypeOK
<1>4. <<"fleet", TRUE>> \in Frames /\ (ShowsSelected => <<"server", intent>> \in Frames)
  BY <1>3 DEF Frames
<1>5. a \in Seq(Frames) /\ b \in Seq(Frames)  BY <1>4
<1>6. /\ Len(a) = IF fleetSent[c] THEN 0 ELSE 1
      /\ ~fleetSent[c] => a[1] = <<"fleet", TRUE>>
  OBVIOUS
<1>7. /\ Len(b) = IF ShowsSelected /\ snapSent[c] # "sent" THEN 1 ELSE 0
      /\ ShowsSelected /\ snapSent[c] # "sent" => b[1] = <<"server", intent>>
  OBVIOUS
<1>8. fleetSent[c] /\ News = {} /\ (ShowsSelected => snapSent[c] = "sent") => f = << >>
  <2>1. fleetSent[c] /\ News = {} /\ (ShowsSelected => snapSent[c] = "sent")
          => a = << >> /\ b = << >> /\ t = << >>
    BY StatusFramesFacts
  <2> HIDE DEF a, b, t, f
  <2> QED  BY <1>1, <2>1
<1>9. Cardinality(Servers) \in Nat /\ QueueSize \in Nat
  BY HubAssumption, FS_CardinalityType
<1>g. SUFFICES /\ f \in Seq(Frames)
               /\ QueueSize >= Cardinality(Servers) + 2 => Len(f) <= QueueSize
               /\ ~fleetSent[c] =>
                    /\ Len(f) >= 1 /\ f[1] = <<"fleet", TRUE>>
                    /\ \A j \in 2 .. Len(f) : f[j][1] # "fleet"
               /\ ShowsSelected /\ snapSent[c] # "sent" =>
                    \E k \in 1 .. Len(f) :
                      /\ f[k] = <<"server", intent>>
                      /\ \A j \in k + 1 .. Len(f) : f[j][1] # "server"
               /\ ~(ShowsSelected /\ snapSent[c] # "sent") =>
                    \A j \in 1 .. Len(f) : f[j][1] # "server"
  BY <1>8
<1> HIDE DEF a, b, t, f, ab
<1>10. /\ ab \in Seq(Frames) /\ Len(ab) = Len(a) + Len(b)
       /\ \A i \in 1 .. Len(a) + Len(b) : ab[i] = IF i <= Len(a) THEN a[i] ELSE b[i - Len(a)]
  BY <1>5, ConcatProperties DEF ab
<1>11. /\ f \in Seq(Frames) /\ Len(f) = Len(ab) + Len(t)
       /\ \A i \in 1 .. Len(ab) + Len(t) : f[i] = IF i <= Len(ab) THEN ab[i] ELSE t[i - Len(ab)]
  <2>1. ab \in Seq(Frames) /\ t \in Seq(Frames)  BY <1>2, <1>10
  <2> QED  BY <1>1, <2>1, ConcatProperties
<1>12. \A i \in Len(ab) + 1 .. Len(f) : f[i] = <<"status">>
  <2>1. TAKE i \in Len(ab) + 1 .. Len(f)
  <2>2. Len(ab) \in Nat  BY <1>6, <1>7, <1>10
  <2>3. i \in 1 .. Len(ab) + Len(t) /\ ~(i <= Len(ab)) /\ i - Len(ab) \in 1 .. Len(t)
    BY <1>2, <1>11, <2>1, <2>2
  <2> QED  BY <1>2, <1>11, <2>3
<1>13. QueueSize >= Cardinality(Servers) + 2 => Len(f) <= QueueSize
  BY <1>2, <1>6, <1>7, <1>9, <1>10, <1>11
<1>14. \A i \in 1 .. Len(ab) : f[i] = ab[i]
  BY <1>2, <1>6, <1>7, <1>10, <1>11
<1>15. ASSUME ~fleetSent[c]
       PROVE  /\ Len(f) >= 1 /\ f[1] = <<"fleet", TRUE>>
              /\ \A j \in 2 .. Len(f) : f[j][1] # "fleet"
  <2>1. Len(a) = 1 /\ Len(ab) >= 1 /\ Len(ab) \in Nat /\ Len(b) \in {0, 1}
    BY <1>6, <1>7, <1>10, <1>15
  <2>2. f[1] = <<"fleet", TRUE>>
    <3>1. 1 \in 1 .. Len(ab) /\ 1 \in 1 .. Len(a) + Len(b) /\ 1 <= Len(a)  BY <1>10, <2>1
    <3>2. f[1] = ab[1]  BY <1>14, <3>1
    <3>3. ab[1] = a[1]  BY <1>10, <3>1
    <3>4. a[1] = <<"fleet", TRUE>>  BY <1>6, <1>15, Zenon
    <3> QED  BY <3>2, <3>3, <3>4, Zenon
  <2>3. ASSUME NEW j \in 2 .. Len(f) PROVE f[j][1] # "fleet"
    <3>1. CASE j > Len(ab)
      <4>1. f[j] = <<"status">>  BY <1>12, <2>1, <3>1
      <4> QED  BY <4>1
    <3>2. CASE ~(j > Len(ab))
      <4>1. j = 2 /\ Len(b) = 1 /\ j \in 1 .. Len(ab)  BY <1>10, <2>1, <3>2
      <4>2. f[j] = b[1] /\ ShowsSelected /\ snapSent[c] # "sent"
        BY <1>7, <1>10, <1>14, <2>1, <4>1
      <4> QED  BY <1>7, <4>2
    <3> QED  BY <3>1, <3>2
  <2> QED  BY <1>2, <1>11, <2>1, <2>2, <2>3
<1>16. ASSUME ShowsSelected, snapSent[c] # "sent"
       PROVE  \E k \in 1 .. Len(f) : /\ f[k] = <<"server", intent>>
                                     /\ \A j \in k + 1 .. Len(f) : f[j][1] # "server"
  <2>1. Len(b) = 1 /\ b[1] = <<"server", intent>> /\ Len(ab) \in 1 .. Len(f) /\ Len(ab) = Len(a) + 1
        /\ Len(a) \in Nat
    BY <1>2, <1>6, <1>7, <1>10, <1>11, <1>16
  <2>2. f[Len(ab)] = <<"server", intent>>
    <3>1. f[Len(ab)] = ab[Len(ab)]  BY <1>14, <2>1
    <3>2. ab[Len(ab)] = b[1]  BY <1>10, <2>1
    <3> QED  BY <2>1, <3>1, <3>2
  <2>3. \A j \in Len(ab) + 1 .. Len(f) : f[j][1] # "server"  BY <1>12
  <2> QED  BY <2>1, <2>2, <2>3
<1>17. ASSUME ~(ShowsSelected /\ snapSent[c] # "sent"), NEW j \in 1 .. Len(f)
       PROVE  f[j][1] # "server"
  <2>1. Len(b) = 0 /\ Len(ab) = Len(a) /\ Len(a) \in {0, 1}  BY <1>6, <1>7, <1>10, <1>17
  <2>2. CASE j > Len(ab)
    <3>1. f[j] = <<"status">>  BY <1>12, <2>1, <2>2
    <3> QED  BY <3>1
  <2>3. CASE ~(j > Len(ab))
    <3>1. j = 1 /\ ~fleetSent[c] /\ j \in 1 .. Len(ab)  BY <1>6, <2>1, <2>3
    <3>2. f[j] = a[1]  BY <1>10, <1>14, <2>1, <3>1
    <3>3. a[1] = <<"fleet", TRUE>>  BY <1>6, <3>1, Zenon
    <3>4. f[j][1] = "fleet"  BY <3>2, <3>3
    <3> QED  BY <3>4
  <2> QED  BY <2>2, <2>3
<1> QED  BY <1>11, <1>13, <1>15, <1>16, <1>17

-----------------------------------------------------------------------------
(* Types *)

LEMMA OutdatedQueues ==
  ASSUME NEW q \in [Clients -> Seq(Frames)], NEW m \in Nat,
         \A c \in Clients : Len(q[c]) <= m
  PROVE  /\ [c \in Clients |-> Outdated(q[c])] \in [Clients -> Seq(Frames)]
         /\ \A c \in Clients : Len([d \in Clients |-> Outdated(q[d])][c]) <= m
<1>1. \A c \in Clients : Outdated(q[c]) \in Seq(Frames) /\ Len(Outdated(q[c])) = Len(q[c])
  BY OutdatedFacts
<1> QED  BY <1>1

LEMMA BumpedTypes ==
  ASSUME HubTypeOK, FleetBumped
  PROVE  /\ queue' \in [Clients -> Seq(Frames)] /\ inflight' \in [Clients -> Seq(Frames)]
         /\ \A c \in Clients : Len(queue'[c]) <= QueueSize /\ Len(inflight'[c]) <= 1
         /\ fleetSent' \in [Clients -> BOOLEAN] /\ viewFleet' \in [Clients -> BOOLEAN]
<1>1. QueueSize \in Nat /\ 1 \in Nat  BY HubAssumption
<1>2. queue \in [Clients -> Seq(Frames)] /\ inflight \in [Clients -> Seq(Frames)]
      /\ \A c \in Clients : Len(queue[c]) <= QueueSize /\ Len(inflight[c]) <= 1
  BY DEF HubTypeOK
<1>3. queue' \in [Clients -> Seq(Frames)] /\ \A c \in Clients : Len(queue'[c]) <= QueueSize
  BY <1>1, <1>2, OutdatedQueues DEF FleetBumped
<1>4. inflight' \in [Clients -> Seq(Frames)] /\ \A c \in Clients : Len(inflight'[c]) <= 1
  BY <1>1, <1>2, OutdatedQueues DEF FleetBumped
<1>5. fleetSent' \in [Clients -> BOOLEAN] /\ viewFleet' \in [Clients -> BOOLEAN]
  BY DEF FleetBumped, Nobody
<1> QED  BY <1>3, <1>4, <1>5

LEMMA EmptyQueues ==
  /\ << >> \in Seq(Frames) /\ Len(<< >>) = 0 /\ Len(<< >>) <= 1 /\ Len(<< >>) <= QueueSize
  /\ <<<<"hello">>>> \in Seq(Frames) /\ Len(<<<<"hello">>>>) <= QueueSize
<1>1. <<"hello">> \in Frames  BY DEF Frames
<1> QED  BY <1>1, HubAssumption

LEMMA DropTypes ==
  ASSUME HubTypeOK, NEW c \in Clients, Drop(c)
  PROVE  HubTypeOK'
<1>1. queue' \in [Clients -> Seq(Frames)] /\ inflight' \in [Clients -> Seq(Frames)]
  BY EmptyQueues DEF Drop, HubTypeOK
<1>2. \A d \in Clients : Len(queue'[d]) <= QueueSize /\ Len(inflight'[d]) <= 1
  BY EmptyQueues DEF Drop, HubTypeOK
<1>3. fleetSent' \in [Clients -> BOOLEAN] /\ viewFleet' \in [Clients -> BOOLEAN]
      /\ snapSent' \in [Clients -> {"never", "sent", "other", "past"}]
      /\ viewServer' \in [Clients -> Servers \cup {NoServer}]
  BY DEF Drop, HubTypeOK
<1>4. clients' \subseteq Clients /\ lossy' \subseteq clients'
  BY DEF Drop, HubTypeOK
<1> QED  BY <1>1, <1>2, <1>3, <1>4 DEF Drop, source, HubTypeOK

LEMMA PushTypes ==
  ASSUME HubTypeOK, Push
  PROVE  HubTypeOK'
<1>1. ASSUME NEW c \in Clients
      PROVE  /\ Newest(queue[c] \o FramesFor(c)) \in Seq(Frames)
             /\ Len(Newest(queue[c] \o FramesFor(c))) <= QueueSize
  <2>1. queue[c] \in Seq(Frames) /\ FramesFor(c) \in Seq(Frames)
    BY FramesForFacts DEF HubTypeOK
  <2>2. queue[c] \o FramesFor(c) \in Seq(Frames)  BY <2>1, ConcatProperties
  <2> QED  BY <2>2, NewestFacts
<1>2. queue' = [c \in Clients |->
                  IF c \in clients THEN Newest(queue[c] \o FramesFor(c)) ELSE queue[c]]
  BY DEF Push
<1>3. queue \in [Clients -> Seq(Frames)] /\ \A c \in Clients : Len(queue[c]) <= QueueSize
  BY DEF HubTypeOK
<1>4. queue' \in [Clients -> Seq(Frames)] /\ \A c \in Clients : Len(queue'[c]) <= QueueSize
  BY <1>1, <1>2, <1>3
<1>5. fleetSent' \in [Clients -> BOOLEAN]  BY DEF Push
<1>6. snapSent' \in [Clients -> {"never", "sent", "other", "past"}]  BY DEF Push, HubTypeOK
<1>7. sentStatus' \in [Servers -> HubStatus \cup {Absent}]  BY DEF Push, HubTypeOK
<1>8. lossy' \subseteq clients'  BY DEF Push, HubTypeOK
<1> QED  BY <1>4, <1>5, <1>6, <1>7, <1>8 DEF Push, source, view, HubTypeOK

LEMMA HubTypeStep ==
  HubTypeOK /\ [HubNext]_hubVars => HubTypeOK'
<1> SUFFICES ASSUME HubTypeOK, [HubNext]_hubVars PROVE HubTypeOK'
  OBVIOUS
<1>1. ASSUME NEW s \in Servers, Clear(s) PROVE HubTypeOK'
  <2>1. FleetBumped  BY <1>1 DEF Clear
  <2>2. status' \in [Servers -> HubStatus \cup {Absent}]
        /\ snapSent' \in [Clients -> {"never", "sent", "other", "past"}]
    BY <1>1 DEF Clear, HubTypeOK
  <2> QED  BY <2>1, <2>2, BumpedTypes DEF FleetBumped, HubTypeOK
<1>2. ASSUME NEW s \in Servers, NEW v \in HubStatus, Store(s, v) PROVE HubTypeOK'
  <2>1. FleetBumped  BY <1>2 DEF Store
  <2>2. status' \in [Servers -> HubStatus \cup {Absent}]  BY <1>2 DEF Store, HubTypeOK
  <2>3. snapSent' \in [Clients -> {"never", "sent", "other", "past"}]
    BY <1>2 DEF Store, Bumped, HubTypeOK
  <2> QED  BY <2>1, <2>2, <2>3, BumpedTypes DEF FleetBumped, HubTypeOK
<1>3. ASSUME NEW c \in Clients, connect(c) PROVE HubTypeOK'
  <2>1. queue' \in [Clients -> Seq(Frames)] /\ inflight' \in [Clients -> Seq(Frames)]
    BY <1>3, EmptyQueues DEF connect, HubTypeOK
  <2>2. \A d \in Clients : Len(queue'[d]) <= QueueSize /\ Len(inflight'[d]) <= 1
    BY <1>3, EmptyQueues DEF connect, HubTypeOK
  <2>3. fleetSent' \in [Clients -> BOOLEAN] /\ viewFleet' \in [Clients -> BOOLEAN]
        /\ snapSent' \in [Clients -> {"never", "sent", "other", "past"}]
        /\ viewServer' \in [Clients -> Servers \cup {NoServer}]
    BY <1>3 DEF connect, HubTypeOK
  <2>4. clients' \subseteq Clients /\ lossy' \subseteq clients'
    BY <1>3 DEF connect, HubTypeOK
  <2> QED  BY <1>3, <2>1, <2>2, <2>3, <2>4 DEF connect, source, HubTypeOK
<1>4. ASSUME NEW c \in Clients, disconnect(c) PROVE HubTypeOK'
  BY <1>4, DropTypes DEF disconnect
<1>5. ASSUME NEW c \in Clients, Take(c) PROVE HubTypeOK'
  <2>1. queue[c] \in Seq(Frames) /\ queue[c] # << >> /\ Len(queue[c]) \in Nat
    BY <1>5, LenProperties DEF Take, HubTypeOK
  <2>2. /\ Head(queue[c]) \in Frames /\ Tail(queue[c]) \in Seq(Frames)
        /\ Len(Tail(queue[c])) = Len(queue[c]) - 1
    BY <2>1, HeadTailProperties
  <2>3. Len(Tail(queue[c])) <= QueueSize  BY <2>1, <2>2, HubAssumption DEF HubTypeOK
  <2>4. <<Head(queue[c])>> \in Seq(Frames) /\ Len(<<Head(queue[c])>>) <= 1  BY <2>2
  <2>5. queue' \in [Clients -> Seq(Frames)] /\ inflight' \in [Clients -> Seq(Frames)]
    BY <1>5, <2>2, <2>4 DEF Take, HubTypeOK
  <2>6. \A d \in Clients : Len(queue'[d]) <= QueueSize /\ Len(inflight'[d]) <= 1
    BY <1>5, <2>3, <2>4 DEF Take, HubTypeOK
  <2> QED  BY <1>5, <2>5, <2>6 DEF Take, source, marks, view, HubTypeOK
<1>6. ASSUME NEW c \in Clients, Sent(c) PROVE HubTypeOK'
  <2> DEFINE frame == inflight[c][1]
  <2>1. frame \in Frames
    <3>1. inflight[c] \in Seq(Frames) /\ inflight[c] # << >>  BY <1>6 DEF Sent, HubTypeOK
    <3>2. Len(inflight[c]) \in Nat /\ Len(inflight[c]) # 0  BY <3>1, LenProperties, EmptySeq
    <3>3. 1 \in 1 .. Len(inflight[c])  BY <3>2
    <3> QED  BY <3>1, <3>3, ElementOfSeq
  <2>2. frame[1] = "fleet" => frame[2] \in BOOLEAN  BY <2>1 DEF Frames
  <2>3. frame[1] = "server" => frame[2] \in Servers  BY <2>1 DEF Frames
  <2>4. viewFleet' = (IF frame[1] = "fleet" THEN [viewFleet EXCEPT ![c] = frame[2]] ELSE viewFleet)
        /\ viewServer' = (IF frame[1] = "server" THEN [viewServer EXCEPT ![c] = frame[2]]
                          ELSE viewServer)
        /\ inflight' = [inflight EXCEPT ![c] = <<>>]
    BY <1>6 DEF Sent
  <2> HIDE DEF frame
  <2>5. viewFleet' \in [Clients -> BOOLEAN]  BY <2>2, <2>4 DEF HubTypeOK
  <2>6. viewServer' \in [Clients -> Servers \cup {NoServer}]  BY <2>3, <2>4 DEF HubTypeOK
  <2>7. inflight' \in [Clients -> Seq(Frames)] /\ \A d \in Clients : Len(inflight'[d]) <= 1
    BY <2>4, EmptyQueues DEF HubTypeOK
  <2> QED  BY <1>6, <2>5, <2>6, <2>7 DEF Sent, source, marks, HubTypeOK
<1>7. ASSUME NEW c \in Clients, SendFails(c) PROVE HubTypeOK'
  BY <1>7, DropTypes DEF SendFails
<1>8. ASSUME NEW s \in Servers \cup {NoServer}, set_intent(s) PROVE HubTypeOK'
  <2>1. fleetSent' \in [Clients -> BOOLEAN]
        /\ snapSent' \in [Clients -> {"never", "sent", "other", "past"}]
    BY <1>8 DEF set_intent, Nobody, NeverSent
  <2> QED  BY <1>8, <2>1 DEF set_intent, view, HubTypeOK
<1>9. CASE Push  BY <1>9, PushTypes
<1>10. CASE stop
  <2>1. queue' \in [Clients -> Seq(Frames)] /\ inflight' \in [Clients -> Seq(Frames)]
        /\ \A d \in Clients : Len(queue'[d]) <= QueueSize /\ Len(inflight'[d]) <= 1
    BY <1>10, EmptyQueues DEF stop
  <2> QED  BY <1>10, <2>1 DEF stop, source, marks, view, HubTypeOK
<1>11. CASE UNCHANGED hubVars
  BY <1>11 DEF hubVars, source, marks, view, HubTypeOK
<1> QED  BY <1>1, <1>2, <1>3, <1>4, <1>5, <1>6, <1>7, <1>8, <1>9, <1>10, <1>11 DEF HubNext

LEMMA HubTypeInit == HubInit => HubTypeOK
<1> SUFFICES ASSUME HubInit PROVE HubTypeOK  OBVIOUS
<1>1. /\ status \in [Servers -> HubStatus \cup {Absent}]
      /\ sentStatus \in [Servers -> HubStatus \cup {Absent}]
      /\ intent \in Servers \cup {NoServer} /\ running \in BOOLEAN /\ wake \in BOOLEAN
      /\ clients \subseteq Clients /\ lossy \subseteq clients
  BY DEF HubInit
<1>2. /\ queue \in [Clients -> Seq(Frames)] /\ inflight \in [Clients -> Seq(Frames)]
      /\ \A c \in Clients : Len(queue[c]) <= QueueSize /\ Len(inflight[c]) <= 1
  BY EmptyQueues DEF HubInit
<1>3. /\ fleetSent \in [Clients -> BOOLEAN] /\ viewFleet \in [Clients -> BOOLEAN]
      /\ snapSent \in [Clients -> {"never", "sent", "other", "past"}]
      /\ viewServer \in [Clients -> Servers \cup {NoServer}]
  BY DEF HubInit, Nobody, NeverSent
<1> QED  BY <1>1, <1>2, <1>3 DEF HubTypeOK

(* Every variable of the hub has its type and no client's queue outgrows   *)
(* settings.client_queue_size.                                             *)
THEOREM HubTypeCorrect == HubSpec => []HubTypeOK
<1>1. HubInit => HubTypeOK  BY HubTypeInit
<1>2. HubTypeOK /\ [HubNext]_hubVars => HubTypeOK'  BY HubTypeStep
<1> QED  BY <1>1, <1>2, PTL DEF HubSpec

-----------------------------------------------------------------------------
(* What a push leaves to be done *)

LEMMA SameNews ==
  ASSUME status' = status, sentStatus' = sentStatus, intent' = intent
  PROVE  News' = News /\ (ShowsSelected' <=> ShowsSelected)
BY DEF News, ShowsSelected

(* Fewer clients, and nothing pushed. *)
LEMMA PushInvKept ==
  ASSUME PushInv, status' = status, sentStatus' = sentStatus, intent' = intent, wake' \/ ~wake,
         \A c \in clients' : fleetSent'[c] \/ (~wake /\ ~wake') =>
           c \in clients /\ (fleetSent'[c] <=> fleetSent[c]) /\ snapSent'[c] = snapSent[c]
  PROVE  PushInv'
<1>1. News' = News /\ (ShowsSelected' <=> ShowsSelected)  BY SameNews
<1>2. ASSUME ~wake', NEW c \in clients' PROVE fleetSent'[c]
  BY <1>2 DEF PushInv
<1>3. ASSUME NEW c \in clients', fleetSent'[c]
      PROVE  News' = {} /\ (ShowsSelected' => snapSent'[c] = "sent")
  BY <1>1, <1>3 DEF PushInv
<1> QED  BY <1>2, <1>3 DEF PushInv

LEMMA PushInvDrop ==
  ASSUME HubTypeOK, PushInv, NEW c \in Clients, Drop(c)
  PROVE  PushInv'
<1>1. status' = status /\ sentStatus' = sentStatus /\ intent' = intent /\ wake' = wake
      /\ clients' = clients \ {c}
  BY DEF Drop, source
<1>2. \A d \in clients' : d \in clients /\ (fleetSent'[d] <=> fleetSent[d])
                          /\ snapSent'[d] = snapSent[d]
  BY <1>1 DEF Drop, HubTypeOK
<1> QED  BY <1>1, <1>2, PushInvKept

LEMMA PushInvStep ==
  HubTypeOK /\ PushInv /\ [HubNext]_hubVars => PushInv'
<1> SUFFICES ASSUME HubTypeOK, PushInv, [HubNext]_hubVars PROVE PushInv'
  OBVIOUS
<1> USE DEF source, marks, view
<1>1. ASSUME wake' = TRUE, fleetSent' = Nobody, clients' \subseteq Clients PROVE PushInv'
  BY <1>1 DEF PushInv, Nobody
<1>2. clients' \subseteq Clients  BY HubTypeStep DEF HubTypeOK
<1>3. ASSUME NEW s \in Servers, Clear(s) \/ \E v \in HubStatus : Store(s, v) PROVE PushInv'
  BY <1>1, <1>2, <1>3 DEF Clear, Store, FleetBumped
<1>4. ASSUME NEW c \in Clients, connect(c) PROVE PushInv'
  <2>1. status' = status /\ sentStatus' = sentStatus /\ intent' = intent /\ wake'
    BY <1>4 DEF connect
  <2>2. ~fleetSent'[c]  BY <1>4 DEF connect, HubTypeOK
  <2>3. \A d \in clients' : d # c => d \in clients /\ (fleetSent'[d] <=> fleetSent[d])
                                     /\ snapSent'[d] = snapSent[d]
    BY <1>4 DEF connect, HubTypeOK
  <2> QED  BY <2>1, <2>2, <2>3, PushInvKept
<1>5. ASSUME NEW c \in Clients, disconnect(c) \/ SendFails(c) PROVE PushInv'
  BY <1>5, PushInvDrop DEF disconnect, SendFails
<1>6. ASSUME NEW c \in Clients, Take(c) \/ Sent(c) PROVE PushInv'
  <2>1. UNCHANGED <<status, sentStatus, intent, wake, clients, fleetSent, snapSent>>
    BY <1>6 DEF Take, Sent
  <2> QED  BY <2>1, PushInvKept
<1>7. ASSUME NEW s \in Servers \cup {NoServer}, set_intent(s) PROVE PushInv'
  BY <1>1, <1>2, <1>7 DEF set_intent
<1>8. CASE Push
  <2>1. News' = {}
    <3>1. ASSUME NEW s \in Servers, status'[s] \notin {Absent, sentStatus'[s]} PROVE FALSE
      <4>1. status' = status  BY <1>8 DEF Push
      <4>2. CASE s \in News
        <5>1. sentStatus'[s] = status[s]  BY <1>8, <4>2 DEF Push
        <5> QED  BY <3>1, <4>1, <5>1
      <4>3. CASE s \notin News
        <5>1. sentStatus'[s] = sentStatus[s]  BY <1>8, <4>3 DEF Push
        <5> QED  BY <3>1, <4>1, <4>3, <5>1 DEF News
      <4> QED  BY <4>2, <4>3
    <3> QED  BY <3>1 DEF News
  <2>2. \A c \in clients' : fleetSent'[c]  BY <1>8 DEF Push, HubTypeOK
  <2>3. \A c \in clients' : ShowsSelected' => snapSent'[c] = "sent"
    <3>1. ShowsSelected' <=> ShowsSelected  BY <1>8 DEF Push, ShowsSelected
    <3>2. \A c \in clients' : ShowsSelected => snapSent'[c] = "sent"
      BY <1>8 DEF Push, HubTypeOK
    <3> QED  BY <3>1, <3>2
  <2> QED  BY <2>1, <2>2, <2>3 DEF PushInv
<1>9. CASE stop
  <2>1. clients' = {}  BY <1>9 DEF stop
  <2> QED  BY <2>1 DEF PushInv
<1>10. CASE UNCHANGED hubVars
  <2>1. UNCHANGED <<status, sentStatus, intent, wake, clients, fleetSent, snapSent>>
    BY <1>10 DEF hubVars
  <2> QED  BY <2>1, PushInvKept
<1> QED  BY <1>3, <1>4, <1>5, <1>6, <1>7, <1>8, <1>9, <1>10 DEF HubNext

-----------------------------------------------------------------------------
(* What is on its way *)

(* A frame that is taken by the sender is still on its way. *)
LEMMA TakeStream ==
  ASSUME HubTypeOK, NEW c \in Clients, Take(c), NEW d \in Clients
  PROVE  Stream(d)' = Stream(d)
<1>1. CASE d = c
  <2>1. inflight[c] = << >> /\ queue[c] # << >> /\ queue[c] \in Seq(Frames)
        /\ inflight'[c] = <<Head(queue[c])>> /\ queue'[c] = Tail(queue[c])
    BY DEF Take, HubTypeOK
  <2> DEFINE q == queue[c]
             h == Head(q)
             t == Tail(q)
  <2>2. h \in Frames /\ t \in Seq(Frames) /\ Len(t) = Len(q) - 1 /\ h = q[1]
        /\ \A i \in 1 .. Len(t) : t[i] = q[i + 1]
    BY <2>1, HeadTailProperties
  <2>3. Len(q) \in Nat /\ Len(q) > 0  BY <2>1, LenProperties, EmptySeq
  <2> HIDE DEF q, h, t
  <2>4. <<h>> \in Seq(Frames) /\ Len(<<h>>) = 1 /\ <<h>>[1] = h  BY <2>2
  <2>5. /\ <<h>> \o t \in Seq(Frames) /\ Len(<<h>> \o t) = Len(<<h>>) + Len(t)
        /\ \A i \in 1 .. Len(<<h>>) + Len(t) :
             (<<h>> \o t)[i] = IF i <= Len(<<h>>) THEN <<h>>[i] ELSE t[i - Len(<<h>>)]
    BY <2>2, <2>4, ConcatProperties
  <2>6. Len(<<h>> \o t) = Len(q)  BY <2>2, <2>3, <2>4, <2>5
  <2>7. ASSUME NEW i \in 1 .. Len(q) PROVE (<<h>> \o t)[i] = q[i]
    <3>1. CASE i = 1  BY <2>2, <2>3, <2>4, <2>5, <3>1
    <3>2. CASE i # 1
      <4>1. i - 1 \in 1 .. Len(t) /\ ~(i <= Len(<<h>>)) /\ i \in 1 .. Len(<<h>>) + Len(t)
            /\ i - Len(<<h>>) = i - 1 /\ (i - 1) + 1 = i
        BY <2>2, <2>3, <2>4, <3>2
      <4>2. (<<h>> \o t)[i] = t[i - 1]  BY <2>5, <4>1
      <4> QED  BY <2>2, <4>1, <4>2
    <3> QED  BY <3>1, <3>2
  <2>8. q \in Seq(Frames)  BY <2>1 DEF q
  <2>9. <<h>> \o t = q  BY <2>5, <2>6, <2>7, <2>8, SeqEqual
  <2>10. << >> \o q = q  BY <2>8, ConcatEmptySeq
  <2>11. inflight'[c] \o queue'[c] = inflight[c] \o queue[c]
    BY <2>1, <2>9, <2>10 DEF q, h, t
  <2> QED  BY <1>1, <2>11 DEF Stream
<1>2. CASE d # c
  BY <1>2 DEF Take, Stream, HubTypeOK
<1> QED  BY <1>1, <1>2

(* The frame that arrives is the first that was on its way. *)
LEMMA SentStream ==
  ASSUME HubTypeOK, NEW c \in Clients, Sent(c)
  PROVE  LET f == inflight[c][1]
         IN  /\ f \in Frames /\ queue[c] \in Seq(Frames)
             /\ Stream(c) = <<f>> \o queue[c] /\ Stream(c)' = queue[c]
             /\ viewFleet'[c] = (IF f[1] = "fleet" THEN f[2] ELSE viewFleet[c])
             /\ viewServer'[c] = (IF f[1] = "server" THEN f[2] ELSE viewServer[c])
<1>1. inflight[c] \in Seq(Frames) /\ inflight[c] # << >> /\ Len(inflight[c]) <= 1
      /\ queue[c] \in Seq(Frames)
  BY DEF Sent, HubTypeOK
<1>2. Len(inflight[c]) \in Nat /\ Len(inflight[c]) # 0  BY <1>1, LenProperties, EmptySeq
<1>3. Len(inflight[c]) = 1 /\ 1 \in 1 .. Len(inflight[c])
  <2> DEFINE n == Len(inflight[c])
  <2>1. n \in Nat /\ n # 0 /\ n <= 1  BY <1>1, <1>2
  <2> HIDE DEF n
  <2>2. n = 1 /\ 1 \in 1 .. n  BY <2>1
  <2> QED  BY <2>2 DEF n
<1>4. inflight[c][1] \in Frames  BY <1>1, <1>3, ElementOfSeq
<1>5. inflight[c] = <<inflight[c][1]>>
  <2>1. <<inflight[c][1]>> \in Seq(Frames) /\ Len(<<inflight[c][1]>>) = 1
        /\ <<inflight[c][1]>>[1] = inflight[c][1]
    BY <1>4
  <2>2. \A i \in 1 .. 1 : inflight[c][i] = <<inflight[c][1]>>[i]  BY <2>1
  <2> QED  BY <1>1, <1>3, <2>1, <2>2, SeqEqual
<1>6. Stream(c) = <<inflight[c][1]>> \o queue[c]  BY <1>5 DEF Stream
<1>7. inflight'[c] = << >> /\ queue'[c] = queue[c]  BY DEF Sent, HubTypeOK
<1>8. Stream(c)' = queue[c]
  <2>1. << >> \o queue[c] = queue[c]  BY <1>1, ConcatEmptySeq
  <2> QED  BY <1>7, <2>1 DEF Stream
<1>9. viewServer'[c] = (IF inflight[c][1][1] = "server" THEN inflight[c][1][2] ELSE viewServer[c])
  BY DEF Sent, HubTypeOK
<1>10. viewFleet'[c] = (IF inflight[c][1][1] = "fleet" THEN inflight[c][1][2] ELSE viewFleet[c])
  BY DEF Sent, HubTypeOK
<1> QED  BY <1>1, <1>4, <1>6, <1>8, <1>9, <1>10

LEMMA StreamType ==
  ASSUME HubTypeOK, NEW c \in Clients
  PROVE  Stream(c) \in Seq(Frames) /\ inflight[c] \in Seq(Frames) /\ queue[c] \in Seq(Frames)
<1>1. inflight[c] \in Seq(Frames) /\ queue[c] \in Seq(Frames)  BY DEF HubTypeOK
<1>2. inflight[c] \o queue[c] \in Seq(Frames)  BY <1>1, ConcatProperties
<1> QED  BY <1>1, <1>2 DEF Stream

(* The clients an action is not about. *)
LEMMA StreamKept ==
  ASSUME NEW c \in Clients, inflight'[c] = inflight[c], queue'[c] = queue[c]
  PROVE  Stream(c)' = Stream(c)
BY DEF Stream

(* A fleet frame that is due is queued and, as the queue has room for all  *)
(* the frames of a push, not dropped by those queued after it.             *)
LEMMA PushFleet ==
  ASSUME HubTypeOK, PushInv, FleetInv, QueueSize >= Cardinality(Servers) + 2, Push,
         NEW c \in clients
  PROVE  Carries(Stream(c)', "fleet", TRUE, viewFleet'[c])
<1> DEFINE q == queue[c]
           f == FramesFor(c)
           s == q \o f
<1>1. c \in Clients  BY DEF HubTypeOK
<1>2. q \in Seq(Frames) /\ f \in Seq(Frames) /\ inflight[c] \in Seq(Frames)
      /\ Len(q) \in Nat /\ Len(f) \in Nat /\ QueueSize \in Nat /\ Len(q) <= QueueSize
  BY <1>1, FramesForFacts, LenProperties, HubAssumption DEF HubTypeOK
<1>3. queue'[c] = Newest(s) /\ inflight'[c] = inflight[c] /\ viewFleet'[c] = viewFleet[c]
  BY <1>1 DEF Push, view
<1>4. CASE fleetSent[c]
  <2>1. f = << >>  BY <1>1, <1>4, FramesForFacts DEF PushInv
  <2>2. s = q  BY <1>2, <2>1, ConcatEmptySeq
  <2>3. Newest(s) = q  BY <1>2, <2>2, NewestFacts
  <2>4. Stream(c)' = Stream(c)  BY <1>3, <2>3 DEF Stream
  <2>5. Carries(Stream(c), "fleet", TRUE, viewFleet[c])  BY <1>4 DEF FleetInv
  <2> QED  BY <1>3, <2>4, <2>5
<1>5. CASE ~fleetSent[c]
  <2>1. /\ Len(f) <= QueueSize /\ Len(f) >= 1 /\ f[1] = <<"fleet", TRUE>>
        /\ \A j \in 2 .. Len(f) : f[j][1] # "fleet"
    BY <1>1, <1>5, FramesForFacts
  <2> HIDE DEF q, f, s
  <2>2. /\ s \in Seq(Frames) /\ Len(s) = Len(q) + Len(f)
        /\ \A i \in 1 .. Len(q) + Len(f) : s[i] = IF i <= Len(q) THEN q[i] ELSE f[i - Len(q)]
    BY <1>2, ConcatProperties DEF s
  <2> DEFINE k == Len(q) + 1
  <2>3. k \in 1 .. Len(s) /\ k \in 1 .. Len(q) + Len(f) /\ ~(k <= Len(q)) /\ k - Len(q) = 1
        /\ k > Len(s) - QueueSize
    BY <1>2, <2>1, <2>2
  <2>4. s[k] = f[1]  BY <2>2, <2>3
  <2>l. PICK latest : latest = TRUE  OBVIOUS
  <2>5. s[k] = <<"fleet", latest>>  BY <2>1, <2>4, <2>l, Zenon
  <2>6. ASSUME NEW j \in k + 1 .. Len(s) PROVE s[j][1] # "fleet"
    <3>1. j - Len(q) \in 2 .. Len(f) /\ ~(j <= Len(q)) /\ j \in 1 .. Len(q) + Len(f)
      BY <1>2, <2>2
    <3>2. s[j] = f[j - Len(q)]  BY <2>2, <3>1
    <3> QED  BY <2>1, <3>1, <3>2
  <2> HIDE DEF k
  <2>7. PICK i \in 1 .. Len(Newest(s)) :
          /\ Newest(s)[i] = <<"fleet", latest>>
          /\ \A j \in i + 1 .. Len(Newest(s)) : Newest(s)[j][1] # "fleet"
    <3>1. NoneAfter(s, k, "fleet")  BY <2>6 DEF NoneAfter
    <3>2. PICK i \in 1 .. Len(Newest(s)) : Newest(s)[i] = s[k] /\ NoneAfter(Newest(s), i, "fleet")
      BY <2>2, <2>3, <3>1, NewestKeeps
    <3> QED  BY <2>5, <3>2 DEF NoneAfter
  <2>8. Newest(s) \in Seq(Frames)  BY <2>2, NewestFacts
  <2>9. Carries(inflight[c] \o Newest(s), "fleet", latest, viewFleet[c])
    BY <1>2, <2>7, <2>8, CarriesLate
  <2>10. Carries(inflight[c] \o Newest(s), "fleet", TRUE, viewFleet[c])
    BY <2>l, <2>9, Zenon
  <2> QED  BY <1>3, <2>10 DEF Stream
<1> QED  BY <1>4, <1>5

LEMMA FleetInvStep ==
  ASSUME QueueSize >= Cardinality(Servers) + 2
  PROVE  HubTypeOK /\ PushInv /\ FleetInv /\ [HubNext]_hubVars => FleetInv'
<1> SUFFICES ASSUME HubTypeOK, PushInv, FleetInv, [HubNext]_hubVars PROVE FleetInv'
  OBVIOUS
<1> USE DEF source, marks, view
<1>1. ASSUME fleetSent' = Nobody PROVE FleetInv'
  <2>1. clients' \subseteq Clients  BY HubTypeStep DEF HubTypeOK
  <2> QED  BY <1>1, <2>1 DEF FleetInv, Nobody
<1>2. clients \subseteq Clients  BY DEF HubTypeOK
<1>3. ASSUME NEW c \in clients', c \in clients, fleetSent'[c] => fleetSent[c],
             inflight'[c] = inflight[c], queue'[c] = queue[c], viewFleet'[c] = viewFleet[c],
             fleetSent'[c]
      PROVE  Carries(Stream(c)', "fleet", TRUE, viewFleet'[c])
  <2>1. Stream(c)' = Stream(c)  BY <1>2, <1>3, StreamKept
  <2> QED  BY <1>3, <2>1 DEF FleetInv
<1>4. ASSUME NEW s \in Servers, Clear(s) \/ \E v \in HubStatus : Store(s, v) PROVE FleetInv'
  BY <1>1, <1>4 DEF Clear, Store, FleetBumped
<1>5. ASSUME NEW c \in Clients, connect(c) PROVE FleetInv'
  <2>1. ~fleetSent'[c]  BY <1>5 DEF connect, HubTypeOK
  <2>2. \A d \in clients' : d # c =>
          /\ d \in clients /\ (fleetSent'[d] => fleetSent[d])
          /\ inflight'[d] = inflight[d] /\ queue'[d] = queue[d] /\ viewFleet'[d] = viewFleet[d]
    BY <1>5 DEF connect, HubTypeOK
  <2>3. ASSUME NEW d \in clients', fleetSent'[d] PROVE Carries(Stream(d)', "fleet", TRUE, viewFleet'[d])
    BY <1>3, <2>1, <2>2, <2>3
  <2> QED  BY <2>3 DEF FleetInv
<1>6. ASSUME NEW c \in Clients, Drop(c) PROVE FleetInv'
  <2>1. \A d \in clients' :
          /\ d \in clients /\ (fleetSent'[d] => fleetSent[d])
          /\ inflight'[d] = inflight[d] /\ queue'[d] = queue[d] /\ viewFleet'[d] = viewFleet[d]
    BY <1>6 DEF Drop, HubTypeOK
  <2>2. ASSUME NEW d \in clients', fleetSent'[d] PROVE Carries(Stream(d)', "fleet", TRUE, viewFleet'[d])
    BY <1>3, <2>1, <2>2
  <2> QED  BY <2>2 DEF FleetInv
<1>7. ASSUME NEW c \in Clients, Take(c) PROVE FleetInv'
  <2>1. clients' = clients /\ fleetSent' = fleetSent /\ viewFleet' = viewFleet
    BY <1>7 DEF Take
  <2>2. \A d \in Clients : Stream(d)' = Stream(d)  BY <1>7, TakeStream
  <2>3. ASSUME NEW d \in clients', fleetSent'[d] PROVE Carries(Stream(d)', "fleet", TRUE, viewFleet'[d])
    <3>1. d \in clients /\ d \in Clients /\ fleetSent[d]  BY <1>2, <2>1, <2>3
    <3>2. Carries(Stream(d), "fleet", TRUE, viewFleet[d])  BY <3>1 DEF FleetInv
    <3> QED  BY <2>1, <2>2, <3>1, <3>2
  <2> QED  BY <2>3 DEF FleetInv
<1>8. ASSUME NEW c \in Clients, Sent(c) PROVE FleetInv'
  <2>1. clients' = clients /\ fleetSent' = fleetSent  BY <1>8 DEF Sent
  <2>2. ASSUME NEW d \in clients', fleetSent'[d] PROVE Carries(Stream(d)', "fleet", TRUE, viewFleet'[d])
    <3>1. d \in clients /\ d \in Clients /\ fleetSent[d]  BY <1>2, <2>1, <2>2
    <3>2. CASE d = c
      <4> DEFINE f == inflight[c][1]
      <4>1. /\ f \in Frames /\ queue[c] \in Seq(Frames)
            /\ Stream(c) = <<f>> \o queue[c] /\ Stream(c)' = queue[c]
            /\ viewFleet'[c] = (IF f[1] = "fleet" THEN f[2] ELSE viewFleet[c])
        BY <1>8, SentStream
      <4>2. Carries(<<f>> \o queue[c], "fleet", TRUE, viewFleet[c])
        BY <3>1, <3>2, <4>1 DEF FleetInv
      <4> HIDE DEF f
      <4>3. Carries(queue[c], "fleet", TRUE, IF f[1] = "fleet" THEN f[2] ELSE viewFleet[c])
        BY <4>1, <4>2, CarriesShown
      <4> QED  BY <3>2, <4>1, <4>3
    <3>3. CASE d # c
      <4>1. inflight'[d] = inflight[d] /\ queue'[d] = queue[d] /\ viewFleet'[d] = viewFleet[d]
        BY <1>8, <3>1, <3>3 DEF Sent, HubTypeOK
      <4> QED  BY <1>3, <2>1, <2>2, <3>1, <4>1
    <3> QED  BY <3>2, <3>3
  <2> QED  BY <2>2 DEF FleetInv
<1>9. ASSUME NEW s \in Servers \cup {NoServer}, set_intent(s) PROVE FleetInv'
  BY <1>1, <1>9 DEF set_intent
<1>10. CASE Push
  <2>1. clients' = clients  BY <1>10 DEF Push
  <2> QED  BY <1>10, <2>1, PushFleet DEF FleetInv
<1>11. CASE stop
  <2>1. clients' = {}  BY <1>11 DEF stop
  <2> QED  BY <2>1 DEF FleetInv
<1>12. CASE UNCHANGED hubVars
  <2>1. UNCHANGED <<clients, fleetSent, inflight, queue, viewFleet>>  BY <1>12 DEF hubVars
  <2>2. ASSUME NEW d \in clients', fleetSent'[d] PROVE Carries(Stream(d)', "fleet", TRUE, viewFleet'[d])
    BY <1>3, <2>1, <2>2
  <2> QED  BY <2>2 DEF FleetInv
<1> QED
  BY <1>4, <1>5, <1>6, <1>7, <1>8, <1>9, <1>10, <1>11, <1>12 DEF HubNext, disconnect, SendFails

(* A push that drops nothing queues the snapshot of the selection, unless  *)
(* the client was sent that version of it.                                 *)
LEMMA PushSelection ==
  ASSUME HubTypeOK, SelectionInv, Push, NEW c \in clients' \ lossy', snapSent'[c] # "never"
  PROVE  Carries(Stream(c)', "server", intent', viewServer'[c])
<1> DEFINE q == queue[c]
           f == FramesFor(c)
           s == q \o f
<1>1. c \in clients /\ c \in Clients /\ c \notin lossy /\ ~(Len(s) > QueueSize)
  BY DEF HubTypeOK, Push
<1>2. /\ q \in Seq(Frames) /\ f \in Seq(Frames) /\ inflight[c] \in Seq(Frames)
      /\ Stream(c) \in Seq(Frames)
  BY <1>1, FramesForFacts, StreamType
<1>3. s \in Seq(Frames) /\ Len(s) \in Nat /\ QueueSize \in Nat
  BY <1>2, ConcatProperties, LenProperties, HubAssumption
<1>4. queue'[c] = Newest(s) /\ inflight'[c] = inflight[c] /\ viewServer'[c] = viewServer[c]
      /\ intent' = intent
  BY <1>1 DEF Push, view, source
<1>5. Newest(s) = s
  <2>1. Len(s) <= QueueSize  BY <1>1, <1>3
  <2> QED  BY <1>3, <2>1, NewestFacts
<1>6. Stream(c)' = Stream(c) \o f
  <2> DEFINE i == inflight[c]
  <2>1. i \in Seq(Frames) /\ q \in Seq(Frames) /\ f \in Seq(Frames)  BY <1>2
  <2>2. Stream(c)' = i \o (q \o f) /\ Stream(c) = i \o q  BY <1>4, <1>5 DEF Stream
  <2> HIDE DEF i, q, f
  <2>3. (i \o q) \o f = i \o (q \o f)  BY <2>1, ConcatAssociative
  <2> QED  BY <2>2, <2>3
<1>7. CASE ShowsSelected /\ snapSent[c] # "sent"
  <2> HIDE DEF f
  <2>1. PICK k \in 1 .. Len(f) : /\ f[k] = <<"server", intent>>
                                 /\ \A j \in k + 1 .. Len(f) : f[j][1] # "server"
    BY <1>1, <1>7, FramesForFacts DEF f
  <2>2. Carries(Stream(c) \o f, "server", intent, viewServer[c])
    BY <1>2, <2>1, CarriesLate
  <2> QED  BY <1>4, <1>6, <2>2
<1>8. CASE ~(ShowsSelected /\ snapSent[c] # "sent")
  <2>1. \A j \in 1 .. Len(f) : f[j][1] # "server"  BY <1>1, <1>8, FramesForFacts
  <2>2. snapSent[c] # "never"
    <3>1. snapSent'[c] = IF ShowsSelected THEN "sent" ELSE snapSent[c]  BY <1>1 DEF Push
    <3> QED  BY <1>8, <3>1
  <2>3. Carries(Stream(c), "server", intent, viewServer[c])  BY <1>1, <2>2 DEF SelectionInv
  <2> HIDE DEF f
  <2>4. Carries(Stream(c) \o f, "server", intent, viewServer[c])
    BY <1>2, <2>1, <2>3, CarriesMore
  <2> QED  BY <1>4, <1>6, <2>4
<1> QED  BY <1>7, <1>8

LEMMA SelectionInvStep ==
  HubTypeOK /\ SelectionInv /\ [HubNext]_hubVars => SelectionInv'
<1> SUFFICES ASSUME HubTypeOK, SelectionInv, [HubNext]_hubVars PROVE SelectionInv'
  OBVIOUS
<1> USE DEF source, marks, view
<1> DEFINE Kept(c) == Carries(Stream(c)', "server", intent', viewServer'[c])
<1>1. SUFFICES ASSUME NEW c \in clients' \ lossy', snapSent'[c] # "never" PROVE Kept(c)
  BY DEF SelectionInv
<1>2. c \in Clients /\ clients \subseteq Clients  BY HubTypeStep DEF HubTypeOK
<1>3. ASSUME c \in clients \ lossy, intent' = intent, snapSent[c] # "never",
             inflight'[c] = inflight[c], queue'[c] = queue[c], viewServer'[c] = viewServer[c]
      PROVE  Kept(c)
  <2>1. Stream(c)' = Stream(c)  BY <1>2, <1>3, StreamKept
  <2> QED  BY <1>3, <2>1 DEF SelectionInv
<1>4. ASSUME FleetBumped, snapSent[c] # "never" PROVE Kept(c)
  <2>1. clients' = clients /\ lossy' = lossy /\ intent' = intent /\ viewServer' = viewServer
        /\ queue'[c] = Outdated(queue[c]) /\ inflight'[c] = Outdated(inflight[c])
    BY <1>2, <1>4 DEF FleetBumped
  <2>2. /\ Stream(c) \in Seq(Frames)
        /\ inflight[c] \in Seq(Frames) /\ queue[c] \in Seq(Frames)
    BY <1>2, StreamType
  <2>3. Stream(c)' = Outdated(Stream(c))  BY <2>1, <2>2, OutdatedConcat DEF Stream
  <2>4. Carries(Stream(c), "server", intent, viewServer[c])
    BY <1>1, <1>4, <2>1 DEF SelectionInv
  <2>5. Carries(Outdated(Stream(c)), "server", intent, viewServer[c])
    BY <2>2, <2>4, OutdatedCarries
  <2> QED  BY <2>1, <2>3, <2>5
<1>5. ASSUME NEW s \in Servers, Clear(s) PROVE Kept(c)
  <2>1. snapSent[c] # "never"  BY <1>1, <1>2, <1>5 DEF Clear
  <2> QED  BY <1>4, <1>5, <2>1 DEF Clear
<1>6. ASSUME NEW s \in Servers, NEW v \in HubStatus, Store(s, v) PROVE Kept(c)
  <2>1. snapSent[c] # "never"  BY <1>1, <1>2, <1>6 DEF Store, Bumped
  <2> QED  BY <1>4, <1>6, <2>1 DEF Store
<1>7. ASSUME NEW d \in Clients, connect(d) PROVE Kept(c)
  <2>1. c # d  BY <1>1, <1>7 DEF connect, HubTypeOK
  <2>2. /\ c \in clients \ lossy /\ intent' = intent /\ snapSent[c] # "never"
        /\ inflight'[c] = inflight[c] /\ queue'[c] = queue[c] /\ viewServer'[c] = viewServer[c]
    BY <1>1, <1>2, <1>7, <2>1 DEF connect, HubTypeOK
  <2> QED  BY <1>3, <2>2
<1>8. ASSUME NEW d \in Clients, Drop(d) PROVE Kept(c)
  <2>1. c # d  BY <1>1, <1>8 DEF Drop
  <2>2. /\ c \in clients \ lossy /\ intent' = intent /\ snapSent[c] # "never"
        /\ inflight'[c] = inflight[c] /\ queue'[c] = queue[c] /\ viewServer'[c] = viewServer[c]
    BY <1>1, <1>2, <1>8, <2>1 DEF Drop, HubTypeOK
  <2> QED  BY <1>3, <2>2
<1>9. ASSUME NEW d \in Clients, Take(d) PROVE Kept(c)
  <2>1. UNCHANGED <<clients, lossy, intent, snapSent, viewServer>>  BY <1>9 DEF Take
  <2>2. Stream(c)' = Stream(c)  BY <1>2, <1>9, TakeStream
  <2>3. Carries(Stream(c), "server", intent, viewServer[c])  BY <1>1, <2>1 DEF SelectionInv
  <2> QED  BY <2>1, <2>2, <2>3
<1>10. ASSUME NEW d \in Clients, Sent(d) PROVE Kept(c)
  <2>1. UNCHANGED <<clients, lossy, intent, snapSent>>  BY <1>10 DEF Sent
  <2>2. Carries(Stream(c), "server", intent, viewServer[c])  BY <1>1, <2>1 DEF SelectionInv
  <2>3. CASE d = c
    <3> DEFINE f == inflight[c][1]
    <3>1. /\ f \in Frames /\ queue[c] \in Seq(Frames)
          /\ Stream(c) = <<f>> \o queue[c] /\ Stream(c)' = queue[c]
          /\ viewServer'[c] = (IF f[1] = "server" THEN f[2] ELSE viewServer[c])
      BY <1>2, <1>10, <2>3, SentStream
    <3> HIDE DEF f
    <3>2. Carries(<<f>> \o queue[c], "server", intent, viewServer[c])  BY <2>2, <3>1
    <3>3. Carries(queue[c], "server", intent, IF f[1] = "server" THEN f[2] ELSE viewServer[c])
      BY <3>1, <3>2, CarriesShown
    <3> QED  BY <2>1, <3>1, <3>3
  <2>4. CASE d # c
    <3>1. inflight'[c] = inflight[c] /\ queue'[c] = queue[c] /\ viewServer'[c] = viewServer[c]
      BY <1>2, <1>10, <2>4 DEF Sent, HubTypeOK
    <3> QED  BY <1>1, <1>3, <2>1, <3>1
  <2> QED  BY <2>3, <2>4
<1>11. ASSUME NEW s \in Servers \cup {NoServer}, set_intent(s) PROVE Kept(c)
  BY <1>1, <1>2, <1>11 DEF set_intent, NeverSent
<1>12. CASE Push  BY <1>1, <1>12, PushSelection
<1>13. CASE stop  BY <1>1, <1>13 DEF stop
<1>14. CASE UNCHANGED hubVars
  <2>1. UNCHANGED <<clients, lossy, intent, snapSent, inflight, queue, viewServer>>
    BY <1>14 DEF hubVars
  <2> QED  BY <1>1, <1>3, <2>1
<1> HIDE DEF Kept
<1> QED
  BY <1>5, <1>6, <1>7, <1>8, <1>9, <1>10, <1>11, <1>12, <1>13, <1>14
     DEF HubNext, disconnect, SendFails

LEMMA HubInvInit == HubInit => PushInv /\ FleetInv /\ SelectionInv
BY DEF HubInit, PushInv, FleetInv, SelectionInv

LEMMA QuietStream ==
  ASSUME HubTypeOK, NEW c \in Clients, Quiet(c)
  PROVE  Stream(c) = << >> /\ c \in clients /\ ~wake
<1>1. inflight[c] = << >> /\ queue[c] = << >>  BY DEF Quiet
<1>2. << >> \o << >> = << >>  OBVIOUS
<1> QED  BY <1>1, <1>2 DEF Stream, Quiet

(* A client the hub has nothing left for shows the latest fleet, however   *)
(* many frames its queue dropped, if the queue has room for what one push  *)
(* can be: a fleet frame, a snapshot and a status of every server          *)
(* (RealtimeHub._push_changes, _Client.enqueue).                           *)
THEOREM FleetViewCorrect ==
  ASSUME QueueSize >= Cardinality(Servers) + 2
  PROVE  HubSpec => []QuietFleetCurrent
<1> DEFINE Inv == HubTypeOK /\ PushInv /\ FleetInv
<1>1. HubInit => Inv  BY HubTypeInit, HubInvInit
<1>2. Inv /\ [HubNext]_hubVars => Inv'  BY HubTypeStep, PushInvStep, FleetInvStep
<1>3. Inv => QuietFleetCurrent
  <2> SUFFICES ASSUME Inv, NEW c \in Clients, Quiet(c) PROVE viewFleet[c]
    BY DEF QuietFleetCurrent
  <2>1. Stream(c) = << >> /\ c \in clients /\ fleetSent[c]  BY QuietStream DEF PushInv
  <2>2. Carries(<< >>, "fleet", TRUE, viewFleet[c])  BY <2>1 DEF FleetInv
  <2>3. viewFleet[c] = TRUE  BY <2>2, CarriesNothing
  <2> QED  BY <2>3
<1> QED  BY <1>1, <1>2, <1>3, PTL DEF HubSpec

(* Such a client, unless its queue dropped a frame since the selection was *)
(* set, shows the selected server and no earlier one, for every size of    *)
(* the queue (RealtimeHub.set_intent, _push_changes, _send_loop).          *)
THEOREM SelectionViewCorrect == HubSpec => []QuietShowsSelected
<1> DEFINE Inv == HubTypeOK /\ PushInv /\ SelectionInv
<1>1. HubInit => Inv  BY HubTypeInit, HubInvInit
<1>2. Inv /\ [HubNext]_hubVars => Inv'  BY HubTypeStep, PushInvStep, SelectionInvStep
<1>3. Inv => QuietShowsSelected
  <2> SUFFICES ASSUME Inv, NEW c \in Clients, Quiet(c), c \notin lossy, ShowsSelected
               PROVE  viewServer[c] = intent
    BY DEF QuietShowsSelected
  <2>1. Stream(c) = << >> /\ c \in clients /\ fleetSent[c]  BY QuietStream DEF PushInv
  <2>2. snapSent[c] = "sent"  BY <2>1 DEF PushInv
  <2>3. Carries(<< >>, "server", intent, viewServer[c])  BY <2>1, <2>2 DEF SelectionInv
  <2> QED  BY <2>3, CarriesNothing
<1> QED  BY <1>1, <1>2, <1>3, PTL DEF HubSpec
=============================================================================
