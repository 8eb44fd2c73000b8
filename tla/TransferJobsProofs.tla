------------------------- MODULE TransferJobsProofs -------------------------
(* Proofs about TransferJobs, for every number of jobs, servers, paths and *)
(* every limit.                                                            *)
EXTENDS TransferJobs, TLAPS, FiniteSetTheorems, SequenceTheorems

(* What the proofs carry from step to step about types. *)
TypeInv == TypeOK /\ Registered

(* A deque(maxlen) push keeps the history a bounded sequence of jobs. *)
LEMMA ArchivedType ==
  ASSUME TypeOK, NEW j \in Jobs
  PROVE  Archived(j) \in Seq(Jobs) /\ Len(Archived(j)) <= HistoryLimit
<1>1. <<j>> \in Seq(Jobs) /\ history \in Seq(Jobs) BY DEF TypeOK
<1>2. CASE Len(history) < HistoryLimit
  BY <1>1, <1>2, ConcatProperties, LenProperties, LimitAssumption DEF Archived
<1>3. CASE ~(Len(history) < HistoryLimit)
  <2>1. Len(history) \in Nat /\ HistoryLimit \in Nat \ {0}
    BY <1>1, LenProperties, LimitAssumption
  <2>2. /\ SubSeq(history, 1, HistoryLimit - 1) \in Seq(Jobs)
        /\ Len(SubSeq(history, 1, HistoryLimit - 1)) = HistoryLimit - 1
    BY <1>1, <1>3, <2>1
  <2>3. QED BY <1>1, <1>3, <2>1, <2>2, ConcatProperties DEF Archived
<1>4. QED BY <1>2, <1>3

(* transition() keeps the registry's types, for any job and any state. *)
LEMMA TransitionType ==
  ASSUME TypeOK, NEW j \in Jobs, NEW s \in JobState, transition(j, s)
  PROVE  /\ state' \in [Jobs -> JobState]
         /\ state' = [state EXCEPT ![j] = s]
         /\ active' \subseteq active
         /\ history' \in Seq(Jobs) /\ Len(history') <= HistoryLimit
         /\ locks' \in [Servers \X Dirs -> Jobs \cup {NoJob}]
<1>1. Archived(j) \in Seq(Jobs) /\ Len(Archived(j)) <= HistoryLimit
  BY ArchivedType
<1>2. ReleasedLocks(j) \in [Servers \X Dirs -> Jobs \cup {NoJob}]
  BY DEF TypeOK, ReleasedLocks
<1>3. QED BY <1>1, <1>2 DEF TypeOK, transition

-----------------------------------------------------------------------------
(* The worker steps, seen from the registry *)

(* What a step may do to the registry on behalf of job j. *)
RegistryStep(j) ==
  UNCHANGED registry \/ \E s \in Terminal \cup Cancellable : transition(j, s)

(* What a step of worker j may do to the worker's own state. *)
WorkerFrame(j) ==
  /\ pc[j] # "absent" /\ pc'[j] # "absent"
  /\ pc' \in [Jobs -> PC] /\ \A k \in Jobs \ {j} : pc'[k] = pc[k]
  /\ plan' \in [Jobs -> Plan]
  /\ outcome' \in [Jobs -> Outcome]
  /\ cancelSet' \subseteq Jobs
  /\ inGlobal' \subseteq Jobs
  /\ slots' \in [Servers -> SUBSET Jobs]
  /\ UNCHANGED <<job, tasks, shutdown>>

(* Every step of a worker changes the registry only through transition()   *)
(* on its own job.                                                         *)
LEMMA WorkerRegistry ==
  ASSUME NEW j \in Jobs, WorkerStep(j)
  PROVE  RegistryStep(j)
<1> USE DEF RegistryStep, Terminal, Cancellable, FailUnlessCancelled
<1>1. CASE BeginPlanning(j) BY <1>1 DEF BeginPlanning
<1>2. CASE FinishPlanning(j) BY <1>2 DEF FinishPlanning
<1>3. CASE PreflightSpace(j) BY <1>3 DEF PreflightSpace
<1>4. CASE AcquireSourceSlot(j) BY <1>4 DEF AcquireSourceSlot
<1>5. CASE AcquireTargetSlot(j) BY <1>5 DEF AcquireTargetSlot
<1>6. CASE StartCopy(j) BY <1>6 DEF StartCopy
<1>7. CASE EndCopy(j) BY <1>7 DEF EndCopy
<1>8. CASE LeaveSlots(j) BY <1>8 DEF LeaveSlots
<1>9. CASE Verify(j) BY <1>9 DEF Verify
<1>10. CASE Unwind(j) BY <1>10 DEF Unwind
<1>11. QED
  BY <1>1, <1>2, <1>3, <1>4, <1>5, <1>6, <1>7, <1>8, <1>9, <1>10
     DEF WorkerStep

(* The end of a worker keeps the types of what it resets. *)
LEMMA EndWorkerTypes ==
  ASSUME TypeOK, NEW j \in Jobs, EndWorker(j)
  PROVE  /\ pc'[j] = "done"
         /\ pc' \in [Jobs -> PC] /\ \A k \in Jobs \ {j} : pc'[k] = pc[k]
         /\ plan' \in [Jobs -> Plan]
         /\ outcome' \in [Jobs -> Outcome]
         /\ cancelSet' \subseteq Jobs
         /\ inGlobal' \subseteq Jobs
  BY DEF TypeOK, EndWorker, PC, Plan, Outcome

(* Every step of a worker keeps the types of the worker's own state. *)
LEMMA WorkerTypes ==
  ASSUME TypeOK, NEW j \in Jobs, WorkerStep(j)
  PROVE  WorkerFrame(j)
<1> DEFINE Stays == UNCHANGED <<plan, outcome, inGlobal, cancelSet>>
           Goes(l) == pc' = [pc EXCEPT ![j] = l]
<1>1. ReleaseSlots(j) => slots' \in [Servers -> SUBSET Jobs]
  BY DEF ReleaseSlots, TypeOK
<1>2. CASE BeginPlanning(j)
  <2>1. pc[j] = "queued" /\ UNCHANGED <<job, tasks, slots, shutdown>>
    BY <1>2 DEF BeginPlanning
  <2>2. \/ EndWorker(j)
        \/ /\ Goes("planning") /\ inGlobal' = inGlobal \cup {j}
           /\ UNCHANGED <<plan, outcome, cancelSet>>
    BY <1>2, Zenon DEF BeginPlanning
  <2>3. CASE EndWorker(j)
    BY <2>1, <2>3, EndWorkerTypes DEF WorkerFrame, TypeOK
  <2>4. CASE /\ Goes("planning") /\ inGlobal' = inGlobal \cup {j}
             /\ UNCHANGED <<plan, outcome, cancelSet>>
    BY <2>1, <2>4 DEF WorkerFrame, TypeOK, PC
  <2>5. QED BY <2>2, <2>3, <2>4
<1>3. CASE FinishPlanning(j)
  <2>1. pc[j] = "planning" /\ UNCHANGED <<job, tasks, slots, shutdown>>
    BY <1>3 DEF FinishPlanning
  <2>2. \/ EndWorker(j)
        \/ /\ \E p \in Plan, l \in {"preflight", "wantSource"} :
                plan' = [plan EXCEPT ![j] = p] /\ Goes(l)
           /\ UNCHANGED <<outcome, inGlobal, cancelSet>>
    BY <1>3, Zenon DEF FinishPlanning
  <2>3. CASE EndWorker(j)
    BY <2>1, <2>3, EndWorkerTypes DEF WorkerFrame, TypeOK
  <2>4. ASSUME NEW p \in Plan, NEW l \in {"preflight", "wantSource"},
               plan' = [plan EXCEPT ![j] = p], Goes(l),
               UNCHANGED <<outcome, inGlobal, cancelSet>>
        PROVE  WorkerFrame(j)
    <3>1. plan' \in [Jobs -> Plan] BY <2>4 DEF TypeOK
    <3>2. l \in PC /\ l # "absent" BY DEF PC
    <3>3. pc' \in [Jobs -> PC] /\ pc'[j] # "absent"
      BY <2>4, <3>2 DEF TypeOK
    <3>4. \A k \in Jobs \ {j} : pc'[k] = pc[k] BY <2>4 DEF TypeOK
    <3>5. QED BY <2>1, <2>4, <3>1, <3>3, <3>4 DEF WorkerFrame, TypeOK
  <2>5. QED BY <2>2, <2>3, <2>4
<1>4. CASE PreflightSpace(j)
  <2>1. pc[j] = "preflight" /\ UNCHANGED <<job, tasks, slots, shutdown>>
    BY <1>4 DEF PreflightSpace
  <2>2. EndWorker(j) \/ (Goes("wantSource") /\ Stays)
    BY <1>4, Zenon DEF PreflightSpace
  <2>3. CASE EndWorker(j)
    BY <2>1, <2>3, EndWorkerTypes DEF WorkerFrame, TypeOK
  <2>4. CASE Goes("wantSource") /\ Stays
    BY <2>1, <2>4 DEF WorkerFrame, TypeOK, PC
  <2>5. QED BY <2>2, <2>3, <2>4
<1>5. CASE AcquireSourceSlot(j)
  BY <1>5 DEF AcquireSourceSlot, WorkerFrame, TypeOK, PC
<1>6. CASE AcquireTargetSlot(j)
  <2>1. pc[j] = "wantTarget" /\ UNCHANGED <<job, tasks, shutdown>>
    BY <1>6 DEF AcquireTargetSlot
  <2>2. \/ EndWorker(j) /\ ReleaseSlots(j)
        \/ /\ Goes("starting") /\ Stays
           /\ slots' = [slots EXCEPT ![job[j].target] = @ \cup {j}]
    BY <1>6, Zenon DEF AcquireTargetSlot
  <2>3. slots' \in [Servers -> SUBSET Jobs]
    BY <1>1, <2>2 DEF TypeOK
  <2>4. CASE EndWorker(j)
    BY <2>1, <2>3, <2>4, EndWorkerTypes DEF WorkerFrame
  <2>5. CASE Goes("starting") /\ Stays
    BY <2>1, <2>3, <2>5 DEF WorkerFrame, TypeOK, PC
  <2>6. QED BY <2>2, <2>4, <2>5
<1>7. CASE StartCopy(j)
  <2>1. pc[j] = "starting" /\ UNCHANGED <<job, tasks, shutdown>>
    BY <1>7 DEF StartCopy
  <2>2. \/ EndWorker(j) /\ ReleaseSlots(j)
        \/ Goes("copying") /\ Stays /\ UNCHANGED slots
    BY <1>7 DEF StartCopy, permits
  <2>3. QED BY <1>1, <2>1, <2>2, EndWorkerTypes DEF WorkerFrame, TypeOK, PC
<1>8. CASE EndCopy(j)
  BY <1>8 DEF EndCopy, WorkerFrame, TypeOK, PC, permits
<1>9. CASE LeaveSlots(j)
  <2>1. pc[j] = "closing" /\ ReleaseSlots(j) /\ UNCHANGED <<job, tasks, shutdown>>
    BY <1>9 DEF LeaveSlots
  <2>2. EndWorker(j) \/ (Goes("verifying") /\ Stays)
    BY <1>9, Zenon DEF LeaveSlots
  <2>3. QED BY <1>1, <2>1, <2>2, EndWorkerTypes DEF WorkerFrame, TypeOK, PC
<1>10. CASE Verify(j)
  BY <1>10, EndWorkerTypes DEF Verify, WorkerFrame, TypeOK
<1>11. CASE Unwind(j)
  BY <1>1, <1>11, EndWorkerTypes DEF Unwind, WorkerFrame, TypeOK
<1>12. QED
  BY <1>2, <1>3, <1>4, <1>5, <1>6, <1>7, <1>8, <1>9, <1>10, <1>11
     DEF WorkerStep

(* The placement list only ever grows by the placement of a created job.   *)
LEMMA WorkerPlacements ==
  ASSUME TypeInv, NEW j \in Jobs, WorkerStep(j)
  PROVE  placements' \in Seq(Placement)
<1>1. job[j] \in JobParams
  <2>1. pc[j] # "absent" BY WorkerTypes DEF WorkerFrame, TypeInv
  <2>2. j \in 1 .. Len(job)
    BY <2>1, LimitAssumption DEF TypeInv, TypeOK, Registered, Jobs
  <2>3. QED BY <2>2, ElementOfSeq DEF TypeInv, TypeOK
<1>2. RecordTargetPlacement(j) => placements' \in Seq(Placement)
  <2> DEFINE p == [artifact |-> job[j].artifact, server |-> job[j].target,
                   path |-> job[j].targetPath]
  <2>1. p \in Placement BY <1>1 DEF JobParams, Placement
  <2>2. Append(placements, p) \in Seq(Placement)
    BY <2>1, AppendProperties DEF TypeInv, TypeOK
  <2>3. QED BY <2>2 DEF RecordTargetPlacement, TypeInv, TypeOK
<1>3. RecordTargetPlacement(j) \/ UNCHANGED placements
  BY DEF WorkerStep, BeginPlanning, FinishPlanning, PreflightSpace,
         AcquireSourceSlot, AcquireTargetSlot, StartCopy, EndCopy,
         LeaveSlots, Verify, Unwind
<1>4. QED BY <1>2, <1>3 DEF TypeInv, TypeOK

-----------------------------------------------------------------------------
(* Type correctness *)

(* A transition of a created job keeps the registry typed and registered. *)
LEMMA RegistryTypes ==
  ASSUME TypeInv, NEW j \in Jobs, state[j] # "absent", RegistryStep(j)
  PROVE  /\ state' \in [Jobs -> JobState]
         /\ active' \subseteq active
         /\ history' \in Seq(Jobs) /\ Len(history') <= HistoryLimit
         /\ locks' \in [Servers \X Dirs -> Jobs \cup {NoJob}]
         /\ \A k \in Jobs : state'[k] = "absent" <=> state[k] = "absent"
<1>1. CASE UNCHANGED registry
  BY <1>1 DEF TypeInv, TypeOK, registry
<1>2. ASSUME NEW s \in Terminal \cup Cancellable, transition(j, s)
      PROVE  /\ state' \in [Jobs -> JobState]
             /\ active' \subseteq active
             /\ history' \in Seq(Jobs) /\ Len(history') <= HistoryLimit
             /\ locks' \in [Servers \X Dirs -> Jobs \cup {NoJob}]
             /\ \A k \in Jobs : state'[k] = "absent" <=> state[k] = "absent"
  <2>1. s \in JobState /\ s # "absent"
    BY <1>2 DEF JobState, Terminal, Cancellable
  <2>2. QED BY <1>2, <2>1, TransitionType DEF TypeInv, TypeOK
<1>3. QED BY <1>1, <1>2 DEF RegistryStep

(* create() and retry() register the next job with well-typed parameters. *)
LEMMA CreateTypes ==
  ASSUME TypeInv, NEW p \in JobParams, CreateJob(p)
  PROVE  TypeInv'
<1> DEFINE j == Len(job) + 1
           key == target_key(p)
<1>1. /\ job \in Seq(JobParams) /\ Len(job) \in Nat /\ j \in Jobs
      /\ Len(job) < MaxJobs
  BY LenProperties, LimitAssumption DEF TypeInv, TypeOK, CreateJob, Jobs
<1>2. /\ job' \in Seq(JobParams) /\ Len(job') = Len(job) + 1
      /\ Len(job') <= MaxJobs
  BY <1>1, AppendProperties, LimitAssumption DEF CreateJob
<1>3. locks' \in [Servers \X Dirs -> Jobs \cup {NoJob}]
  BY <1>1 DEF CreateJob, TypeInv, TypeOK
<1>4. /\ state' \in [Jobs -> JobState] /\ pc' \in [Jobs -> PC]
      /\ active' \subseteq Jobs /\ tasks' \subseteq Jobs
  BY <1>1 DEF CreateJob, TypeInv, TypeOK, JobState, Cancellable, PC
<1>5. TypeOK'
  BY <1>2, <1>3, <1>4 DEF CreateJob, TypeInv, TypeOK, permits
<1>6. Registered'
  <2> SUFFICES ASSUME NEW k \in Jobs
               PROVE  /\ pc'[k] = "absent" <=> k > Len(job')
                      /\ state'[k] = "absent" <=> k > Len(job')
    <3>1. \A k \in active' : k <= Len(job')
      BY <1>1, <1>2, LimitAssumption DEF CreateJob, TypeInv, TypeOK, Registered, Jobs
    <3>2. QED BY <3>1 DEF Registered
  <2>1. CASE k = j
    BY <1>1, <1>2, <2>1 DEF CreateJob, TypeInv, TypeOK, Jobs
  <2>2. CASE k # j
    <3>1. pc'[k] = pc[k] /\ state'[k] = state[k]
      BY <1>1, <2>2 DEF CreateJob, TypeInv, TypeOK
    <3>2. k > Len(job') <=> k > Len(job)
      BY <1>1, <1>2, <2>2, LimitAssumption DEF Jobs
    <3>3. QED BY <3>1, <3>2 DEF TypeInv, Registered
  <2>3. QED BY <2>1, <2>2
<1>7. QED BY <1>5, <1>6 DEF TypeInv

(* The parameters that create() and retry() take are well typed. *)
LEMMA CreateParams ==
  ASSUME TypeInv, NEW i \in DOMAIN placements, NEW t \in Servers,
         NEW tp \in Paths, create(i, t, tp)
  PROVE  \E p \in JobParams : CreateJob(p)
<1>1. placements[i] \in Placement
  BY ElementOfSeq, LenProperties DEF TypeInv, TypeOK
<1>2. [artifact |-> placements[i].artifact, source |-> placements[i].server,
       sourcePath |-> placements[i].path, target |-> t, targetPath |-> tp]
      \in JobParams
  BY <1>1 DEF Placement, JobParams
<1>3. QED BY <1>2, Zenon DEF create

(* A created job has well-typed parameters. *)
LEMMA JobIsCreated ==
  ASSUME TypeInv, NEW j \in Jobs, state[j] # "absent" \/ pc[j] # "absent"
  PROVE  j \in 1 .. Len(job) /\ job[j] \in JobParams
<1>1. j \in 1 .. Len(job)
  BY LenProperties, LimitAssumption DEF TypeInv, TypeOK, Registered, Jobs
<1>2. QED BY <1>1, ElementOfSeq DEF TypeInv, TypeOK

LEMMA RetryParams ==
  ASSUME TypeInv, NEW j \in Jobs, retry(j)
  PROVE  \E p \in JobParams : CreateJob(p)
<1>1. state[j] # "absent" BY DEF retry, Terminal
<1>2. job[j] \in JobParams BY <1>1, JobIsCreated
<1>3. job[j].target \in Servers /\ job[j].targetPath \in Paths
  BY <1>2 DEF JobParams
<1>4. PICK i \in DOMAIN placements : create(i, job[j].target, job[j].targetPath)
  BY DEF retry
<1>5. QED BY <1>3, <1>4, CreateParams

(* clear_history() keeps a sequence of jobs, all of them listed before. *)
LEMMA ClearHistoryType ==
  ASSUME TypeOK, clear_history
  PROVE  /\ history' \in Seq(Jobs) /\ Len(history') <= HistoryLimit
         /\ \A k \in Jobs : InHistory(k)' => InHistory(k)
<1>1. PICK n \in 0 .. Len(history) : \E pick \in [1 .. n -> DOMAIN history] :
        history' = [a \in 1 .. n |-> history[pick[a]]]
  BY DEF clear_history
<1>2. PICK pick \in [1 .. n -> DOMAIN history] :
        history' = [a \in 1 .. n |-> history[pick[a]]]
  BY <1>1
<1>3. history \in Seq(Jobs) /\ n \in Nat
  BY <1>1, LenProperties DEF TypeOK
<1>4. \A a \in 1 .. n : history'[a] = history[pick[a]] /\ history[pick[a]] \in Jobs
  BY <1>2, <1>3, ElementOfSeq, LenProperties
<1>5. history' \in Seq(Jobs)
  BY <1>2, <1>3, <1>4, IsASeq
<1>6. DOMAIN history' = 1 .. n BY <1>2
<1>7. Len(history') <= HistoryLimit
  BY <1>1, <1>3, <1>5, <1>6, LenProperties, LimitAssumption DEF TypeOK
<1>8. QED BY <1>2, <1>4, <1>5, <1>6, <1>7 DEF InHistory

(* stop() keeps types on both of its ways out. *)
LEMMA StopTypes ==
  ASSUME TypeInv, stop
  PROVE  TypeInv'
<1>1. CASE active = {} /\ shutdown' = "cancelling"
           /\ cancelSet' = {j \in Jobs : Live(j)}
           /\ pc' = [j \in Jobs |-> IF j \in tasks /\ Live(j) THEN "killed"
                                    ELSE pc[j]]
           /\ UNCHANGED registry
  <2>1. pc' \in [Jobs -> PC] /\ \A j \in Jobs : pc'[j] = "absent" <=> pc[j] = "absent"
    BY <1>1 DEF TypeInv, TypeOK, PC, Live
  <2>2. QED BY <1>1, <2>1 DEF TypeInv, TypeOK, Registered, stop, registry, permits
<1>2. ASSUME NEW j \in active, transition(j, "cancelled"),
             shutdown' = "aborted", UNCHANGED <<cancelSet, pc>>
      PROVE  TypeInv'
  <2>1. j \in Jobs /\ "cancelled" \in JobState
    BY <1>2 DEF TypeInv, TypeOK, JobState, Terminal
  <2>2. state[j] # "absent"
    BY <1>2, <2>1, LenProperties, LimitAssumption
       DEF TypeInv, TypeOK, Registered, Jobs
  <2>3. RegistryStep(j)
    BY <1>2 DEF RegistryStep, Terminal
  <2>4. QED
    BY <1>2, <2>1, <2>2, <2>3, RegistryTypes
       DEF TypeInv, TypeOK, Registered, stop, permits
<1>3. QED BY <1>1, <1>2 DEF stop

(* Every step keeps TypeInv. *)
LEMMA TypeStep == TypeInv /\ [Next]_vars => TypeInv'
<1> SUFFICES ASSUME TypeInv, [Next]_vars PROVE TypeInv' OBVIOUS
<1>1. ASSUME NEW i \in DOMAIN placements, NEW s \in Servers, NEW p \in Paths,
             create(i, s, p)
      PROVE  TypeInv'
  BY <1>1, CreateParams, CreateTypes
<1>2. ASSUME NEW j \in Jobs, cancel(j) PROVE TypeInv'
  <2>1. RegistryStep(j) /\ state[j] # "absent"
    BY <1>2 DEF cancel, RegistryStep, Terminal, Cancellable
  <2>2. cancelSet' \subseteq Jobs BY <1>2 DEF cancel, TypeInv, TypeOK
  <2>3. QED
    BY <1>2, <2>1, <2>2, RegistryTypes
       DEF cancel, TypeInv, TypeOK, Registered, permits
<1>3. ASSUME NEW j \in Jobs, retry(j) PROVE TypeInv'
  BY <1>3, RetryParams, CreateTypes
<1>4. ASSUME NEW j \in Jobs, WorkerStep(j) PROVE TypeInv'
  <2>1. WorkerFrame(j) BY <1>4, WorkerTypes DEF TypeInv
  <2>2. state[j] # "absent"
    BY <2>1 DEF WorkerFrame, TypeInv, Registered
  <2>3. RegistryStep(j) BY <1>4, WorkerRegistry
  <2>4. placements' \in Seq(Placement) BY <1>4, WorkerPlacements
  <2>5. \A k \in Jobs : pc'[k] = "absent" <=> pc[k] = "absent"
    BY <2>1 DEF WorkerFrame
  <2>6. QED
    BY <2>1, <2>2, <2>3, <2>4, <2>5, RegistryTypes
       DEF TypeInv, TypeOK, Registered, WorkerFrame
<1>5. CASE clear_history
  BY <1>5, ClearHistoryType DEF clear_history, TypeInv, TypeOK, Registered, permits
<1>6. CASE stop BY <1>6, StopTypes
<1>7. CASE UNCHANGED vars
  BY <1>7 DEF vars, registry, permits, TypeInv, TypeOK, Registered
<1>8. QED BY <1>1, <1>2, <1>3, <1>4, <1>5, <1>6, <1>7 DEF Next

(* The types and the registration order hold in every reachable state:     *)
(* job parameters, registry, worker and permit state stay well formed      *)
(* whatever the remote hosts answer and whenever jobs are cancelled.       *)
THEOREM TypeCorrect == Spec => [](TypeOK /\ Registered)
<1>1. Init => TypeInv
  BY EmptySeq, LimitAssumption, PlacementAssumption
     DEF Init, TypeInv, TypeOK, Registered, JobState, PC, Plan, Outcome, Jobs, NoJob
<1>2. Spec => []TypeInv BY <1>1, TypeStep, PTL DEF Spec
<1>3. QED BY <1>2, PTL DEF TypeInv

-----------------------------------------------------------------------------
(* Target locks *)

(* The lock key of a created job is a key of the lock table. *)
LEMMA TargetKeyType ==
  ASSUME TypeInv, NEW j \in Jobs, state[j] # "absent"
  PROVE  TargetKey(j) \in Servers \X Dirs
  BY JobIsCreated, DirAssumption DEF TargetKey, target_key, JobParams

(* transition() releases the lock of a job exactly when it drops the job   *)
(* from _active, and never the lock of another job.                        *)
LEMMA TransitionLocks ==
  ASSUME TypeInv, LocksMatchActive, NEW j \in Jobs, state[j] # "absent",
         RegistryStep(j), UNCHANGED job
  PROVE  LocksMatchActive'
<1>1. CASE UNCHANGED registry
  BY <1>1 DEF LocksMatchActive, TargetKey, registry
<1>2. ASSUME NEW s \in Cancellable, transition(j, s)
      PROVE  LocksMatchActive'
  <2>1. s \notin Terminal BY <1>2 DEF Cancellable, Terminal
  <2>2. QED BY <1>2, <2>1 DEF LocksMatchActive, TargetKey, transition
<1>3. ASSUME NEW s \in Terminal, transition(j, s)
      PROVE  LocksMatchActive'
  <2>1. active' = active \ {j} /\ locks' = ReleasedLocks(j)
    BY <1>3 DEF transition
  <2>2. TargetKey(j) \in Servers \X Dirs BY TargetKeyType
  <2>3. \A i \in Jobs : target_key(job'[i]) = TargetKey(i) BY DEF TargetKey
  <2>4. locks \in [Servers \X Dirs -> Jobs \cup {NoJob}] /\ active \subseteq Jobs
    BY DEF TypeInv, TypeOK
  <2>5. \A k \in Servers \X Dirs :
          locks'[k] = IF k = TargetKey(j) /\ locks[k] = j THEN NoJob ELSE locks[k]
    BY <2>1, <2>2, <2>4 DEF ReleasedLocks
  <2>6. ASSUME NEW k \in Servers \X Dirs, locks'[k] # NoJob
        PROVE  locks'[k] \in active' /\ target_key(job'[locks'[k]]) = k
    <3>1. locks'[k] = locks[k] /\ locks[k] # NoJob BY <2>5, <2>6
    <3>2. locks[k] \in active /\ TargetKey(locks[k]) = k
      BY <3>1 DEF LocksMatchActive
    <3>3. locks[k] # j BY <2>5, <2>6, <3>2
    <3>4. QED BY <2>1, <2>3, <2>4, <3>1, <3>2, <3>3
  <2>7. ASSUME NEW i \in active' PROVE locks'[target_key(job'[i])] = i
    <3>1. i \in active /\ i # j /\ i \in Jobs BY <2>1, <2>4, <2>7
    <3>2. locks[TargetKey(i)] = i BY <3>1 DEF LocksMatchActive
    <3>3. TargetKey(i) \in Servers \X Dirs
      <4>1. state[i] # "absent"
        BY <3>1, LenProperties, LimitAssumption
           DEF TypeInv, TypeOK, Registered, Jobs
      <4>2. QED BY <3>1, <4>1, TargetKeyType
    <3>4. QED BY <2>3, <2>5, <3>1, <3>2, <3>3
  <2>8. QED BY <2>6, <2>7 DEF LocksMatchActive, TargetKey
<1>4. QED BY <1>1, <1>2, <1>3 DEF RegistryStep

(* create() takes a free lock for a job that nobody knew. *)
LEMMA CreateLocks ==
  ASSUME TypeInv, LocksMatchActive, NEW p \in JobParams, CreateJob(p)
  PROVE  LocksMatchActive'
<1> DEFINE j == Len(job) + 1
           key == target_key(p)
<1>1. key \in Servers \X Dirs BY DirAssumption DEF JobParams, target_key
<1>2. /\ active' = active \cup {j} /\ locks' = [locks EXCEPT ![key] = j]
      /\ locks[key] = NoJob /\ job' = Append(job, p)
  BY DEF CreateJob
<1>3. job \in Seq(JobParams) /\ Len(job) \in Nat /\ active \subseteq Jobs
      /\ locks \in [Servers \X Dirs -> Jobs \cup {NoJob}]
  BY LenProperties DEF TypeInv, TypeOK
<1>4. job'[j] = p /\ \A i \in 1 .. Len(job) : job'[i] = job[i]
  BY <1>2, <1>3, AppendProperties
<1>5. target_key(job'[j]) = key BY <1>4
<1>6. \A i \in active : i \in 1 .. Len(job) /\ target_key(job'[i]) = TargetKey(i)
  BY <1>3, <1>4, LimitAssumption DEF TargetKey, TypeInv, Registered, Jobs
<1>7. ASSUME NEW k \in Servers \X Dirs, locks'[k] # NoJob
      PROVE  locks'[k] \in active' /\ target_key(job'[locks'[k]]) = k
  <2>1. CASE k = key BY <1>1, <1>2, <1>3, <1>5, <2>1
  <2>2. CASE k # key
    <3>1. locks'[k] = locks[k] /\ locks[k] # NoJob BY <1>2, <1>3, <1>7, <2>2
    <3>2. locks[k] \in active /\ TargetKey(locks[k]) = k
      BY <3>1 DEF LocksMatchActive
    <3>3. QED BY <1>2, <1>6, <3>1, <3>2
  <2>3. QED BY <2>1, <2>2
<1>8. ASSUME NEW i \in active' PROVE locks'[target_key(job'[i])] = i
  <2>1. CASE i = j BY <1>1, <1>2, <1>3, <1>5, <2>1
  <2>2. CASE i # j
    <3>1. i \in active BY <1>2, <2>2
    <3>2. locks[TargetKey(i)] = i /\ i # NoJob
      BY <1>3, <3>1, LimitAssumption DEF LocksMatchActive, NoJob, Jobs
    <3>3. TargetKey(i) # key BY <1>2, <3>2
    <3>4. locks'[TargetKey(i)] = locks[TargetKey(i)]
      BY <1>2, <1>3, <3>3
    <3>5. QED BY <1>6, <3>1, <3>2, <3>4
  <2>3. QED BY <2>1, <2>2
<1>9. QED BY <1>7, <1>8 DEF LocksMatchActive, TargetKey

LEMMA LockStep ==
  TypeInv /\ LocksMatchActive /\ [Next]_vars => LocksMatchActive'
<1> SUFFICES ASSUME TypeInv, LocksMatchActive, [Next]_vars
             PROVE  LocksMatchActive'
  OBVIOUS
<1>1. ASSUME NEW i \in DOMAIN placements, NEW s \in Servers, NEW p \in Paths,
             create(i, s, p)
      PROVE  LocksMatchActive'
  BY <1>1, CreateParams, CreateLocks
<1>2. ASSUME NEW j \in Jobs, cancel(j) PROVE LocksMatchActive'
  <2>1. RegistryStep(j) /\ state[j] # "absent" /\ UNCHANGED job
    BY <1>2 DEF cancel, RegistryStep, Terminal, Cancellable
  <2>2. QED BY <2>1, TransitionLocks
<1>3. ASSUME NEW j \in Jobs, retry(j) PROVE LocksMatchActive'
  BY <1>3, RetryParams, CreateLocks
<1>4. ASSUME NEW j \in Jobs, WorkerStep(j) PROVE LocksMatchActive'
  <2>1. WorkerFrame(j) BY <1>4, WorkerTypes DEF TypeInv
  <2>2. state[j] # "absent" /\ UNCHANGED job
    BY <2>1 DEF WorkerFrame, TypeInv, Registered
  <2>3. RegistryStep(j) BY <1>4, WorkerRegistry
  <2>4. QED BY <2>2, <2>3, TransitionLocks
<1>5. CASE clear_history
  BY <1>5 DEF clear_history, LocksMatchActive, TargetKey
<1>6. CASE stop
  <2>1. CASE UNCHANGED <<job, registry>>
    BY <2>1 DEF LocksMatchActive, TargetKey, registry
  <2>2. ASSUME NEW j \in active, transition(j, "cancelled"), UNCHANGED job
        PROVE  LocksMatchActive'
    <3>1. j \in Jobs /\ state[j] # "absent"
      BY <2>2, LenProperties, LimitAssumption
         DEF TypeInv, TypeOK, Registered, Jobs
    <3>2. RegistryStep(j) BY <2>2 DEF RegistryStep, Terminal
    <3>3. QED BY <2>2, <3>1, <3>2, TransitionLocks
  <2>3. QED BY <1>6, <2>1, <2>2 DEF stop
<1>7. CASE UNCHANGED vars
  BY <1>7 DEF vars, registry, LocksMatchActive, TargetKey
<1>8. QED BY <1>1, <1>2, <1>3, <1>4, <1>5, <1>6, <1>7 DEF Next

(* The lock table and the active jobs always describe each other, across   *)
(* creations, cancels at any point of a worker, revived workers, failures  *)
(* and shutdown.                                                           *)
THEOREM LocksCorrect == Spec => []LocksMatchActive
<1>1. Init => TypeInv /\ LocksMatchActive
  BY EmptySeq, LimitAssumption, PlacementAssumption
     DEF Init, TypeInv, TypeOK, Registered, JobState, PC, Plan, Outcome, Jobs,
         NoJob, LocksMatchActive
<1>2. QED BY <1>1, TypeStep, LockStep, PTL DEF Spec

(* Two active jobs never share a target directory, however their requests  *)
(* spelled it.                                                             *)
THEOREM TargetsExclusive == Spec => []OneActiveJobPerTarget
<1>1. LocksMatchActive => OneActiveJobPerTarget
  BY DEF LocksMatchActive, OneActiveJobPerTarget
<1>2. QED BY <1>1, LocksCorrect, PTL

-----------------------------------------------------------------------------
(* Permits *)

Holding == {"wantTarget", "starting", "copying", "closing"}

(* What a step of worker j may do to the permits. *)
PermitStep(j) ==
  /\ \/ UNCHANGED slots /\ pc[j] \notin Holding \cup {"killed"} /\ pc'[j] \notin Holding
     \/ UNCHANGED slots /\ pc[j] \in {"starting", "copying"}
                        /\ pc'[j] \in {"copying", "closing"}
     \/ /\ pc[j] = "wantSource" /\ pc'[j] = "wantTarget"
        /\ HasFreeSlot(job[j].source)
        /\ slots' = [slots EXCEPT ![job[j].source] = @ \cup {j}]
     \/ /\ pc[j] = "wantTarget" /\ pc'[j] = "starting"
        /\ HasFreeSlot(job[j].target)
        /\ slots' = [slots EXCEPT ![job[j].target] = @ \cup {j}]
     \/ ReleaseSlots(j) /\ pc'[j] \in {"verifying", "done"}
  /\ inGlobal' \subseteq inGlobal \cup {j}
  /\ pc'[j] = "done" => j \notin inGlobal'

(* Every path of _plan_and_run takes the slots one at a time and leaves    *)
(* them together.                                                          *)
LEMMA WorkerPermits ==
  ASSUME TypeOK, NEW j \in Jobs, WorkerStep(j)
  PROVE  PermitStep(j)
<1> DEFINE Goes(l) == pc' = [pc EXCEPT ![j] = l] /\ UNCHANGED inGlobal
<1>1. EndWorker(j) => pc'[j] = "done" /\ inGlobal' = inGlobal \ {j}
  BY DEF EndWorker, TypeOK
<1>2. \A l \in PC : Goes(l) => pc'[j] = l BY DEF TypeOK
<1> USE DEF PermitStep, Holding
<1>3. CASE BeginPlanning(j)
  <2>1. pc[j] = "queued" /\ UNCHANGED slots BY <1>3 DEF BeginPlanning
  <2>2. \/ EndWorker(j)
        \/ pc' = [pc EXCEPT ![j] = "planning"] /\ inGlobal' = inGlobal \cup {j}
    BY <1>3, Zenon DEF BeginPlanning
  <2>3. QED BY <1>1, <2>1, <2>2 DEF TypeOK
<1>4. CASE FinishPlanning(j)
  <2>1. pc[j] = "planning" /\ UNCHANGED slots BY <1>4 DEF FinishPlanning
  <2>2. EndWorker(j) \/ \E l \in {"preflight", "wantSource"} : Goes(l)
    BY <1>4, Zenon DEF FinishPlanning
  <2>3. QED BY <1>1, <1>2, <2>1, <2>2 DEF PC
<1>5. CASE PreflightSpace(j)
  <2>1. pc[j] = "preflight" /\ UNCHANGED slots BY <1>5 DEF PreflightSpace
  <2>2. EndWorker(j) \/ Goes("wantSource") BY <1>5, Zenon DEF PreflightSpace
  <2>3. QED BY <1>1, <1>2, <2>1, <2>2 DEF PC
<1>6. CASE AcquireSourceSlot(j) BY <1>6 DEF AcquireSourceSlot, TypeOK
<1>7. CASE AcquireTargetSlot(j)
  <2>1. pc[j] = "wantTarget" /\ HasFreeSlot(job[j].target)
    BY <1>7 DEF AcquireTargetSlot
  <2>2. \/ EndWorker(j) /\ ReleaseSlots(j)
        \/ /\ Goes("starting")
           /\ slots' = [slots EXCEPT ![job[j].target] = @ \cup {j}]
    BY <1>7, Zenon DEF AcquireTargetSlot
  <2>3. CASE EndWorker(j) /\ ReleaseSlots(j) BY <1>1, <2>3
  <2>4. CASE /\ Goes("starting")
             /\ slots' = [slots EXCEPT ![job[j].target] = @ \cup {j}]
    BY <1>2, <2>1, <2>4 DEF PC
  <2>5. QED BY <2>2, <2>3, <2>4
<1>8. CASE StartCopy(j)
  <2>1. pc[j] = "starting" BY <1>8 DEF StartCopy
  <2>2. \/ EndWorker(j) /\ ReleaseSlots(j)
        \/ Goes("copying") /\ UNCHANGED slots
    BY <1>8 DEF StartCopy, permits
  <2>3. QED BY <1>1, <1>2, <2>1, <2>2 DEF PC
<1>9. CASE EndCopy(j) BY <1>9 DEF EndCopy, permits, TypeOK
<1>10. CASE LeaveSlots(j)
  <2>1. ReleaseSlots(j) BY <1>10 DEF LeaveSlots
  <2>2. EndWorker(j) \/ Goes("verifying") BY <1>10, Zenon DEF LeaveSlots
  <2>3. QED BY <1>1, <1>2, <2>1, <2>2 DEF PC
<1>11. CASE Verify(j) BY <1>1, <1>11 DEF Verify
<1>12. CASE Unwind(j) BY <1>1, <1>12 DEF Unwind
<1>13. QED
  BY <1>3, <1>4, <1>5, <1>6, <1>7, <1>8, <1>9, <1>10, <1>11, <1>12
     DEF WorkerStep

(* A set of jobs is finite. *)
LEMMA FiniteJobs ==
  ASSUME NEW S \in SUBSET Jobs
  PROVE  IsFiniteSet(S) /\ Cardinality(S) \in Nat
<1>1. 1 \in Int /\ MaxJobs \in Int BY LimitAssumption
<1>2. IsFiniteSet(Jobs) BY <1>1, FS_Interval, Zenon DEF Jobs
<1>3. IsFiniteSet(S) BY <1>2, FS_Subset
<1>4. QED BY <1>3, FS_CardinalityType

(* Such a step keeps the permits and the workers in agreement. *)
LEMMA PermitStepKeeps ==
  ASSUME TypeInv, PermitsMatchWorkers, NEW j \in Jobs, WorkerFrame(j), PermitStep(j)
  PROVE  PermitsMatchWorkers'
<1>1. j \in 1 .. Len(job) /\ job[j] \in JobParams
  BY JobIsCreated DEF WorkerFrame
<1>2. job[j].source \in Servers /\ job[j].target \in Servers /\ job' = job
  BY <1>1 DEF JobParams, WorkerFrame
<1>3. pc' \in [Jobs -> PC] /\ \A k \in Jobs \ {j} : pc'[k] = pc[k]
  BY DEF WorkerFrame
<1>4. slots \in [Servers -> SUBSET Jobs] /\ slots' \in [Servers -> SUBSET Jobs]
      /\ inGlobal \subseteq Jobs
  BY DEF TypeInv, TypeOK, WorkerFrame
<1>5. \A k \in inGlobal' : pc'[k] \notin {"absent", "done"}
  <2>1. \A k \in inGlobal : pc[k] \notin {"absent", "done"}
    BY DEF PermitsMatchWorkers, Live
  <2>2. inGlobal' \subseteq inGlobal \cup {j} /\ (pc'[j] = "done" => j \notin inGlobal')
    BY DEF PermitStep
  <2>3. pc'[j] # "absent" BY DEF WorkerFrame
  <2>4. QED BY <1>3, <1>4, <2>1, <2>2, <2>3
<1> DEFINE SlotPart ==
             /\ \A k \in Jobs : pc'[k] \in Holding => k \in slots'[job[k].source]
             /\ \A k \in Jobs : pc'[k] \in Holding \ {"wantTarget"}
                                => k \in slots'[job[k].target]
             /\ \A s \in Servers : \A k \in slots'[s] : pc'[k] \in Holding \cup {"killed"}
             /\ \A s \in Servers : Cardinality(slots'[s]) <= MaxPerServer
<1>6. /\ \A k \in Jobs : pc[k] \in Holding => k \in slots[job[k].source]
      /\ \A k \in Jobs : pc[k] \in Holding \ {"wantTarget"} => k \in slots[job[k].target]
      /\ \A s \in Servers : \A k \in slots[s] : pc[k] \in Holding \cup {"killed"}
      /\ \A s \in Servers : Cardinality(slots[s]) <= MaxPerServer
  BY DEF PermitsMatchWorkers, HoldsSource, HoldsTarget, Holding
<1>7. ASSUME NEW t \in Servers, HasFreeSlot(t), t \in {job[j].source, job[j].target},
             slots' = [slots EXCEPT ![t] = @ \cup {j}]
      PROVE  \A s \in Servers : Cardinality(slots'[s]) <= MaxPerServer
  <2>1. Cardinality(slots[t]) \in Nat /\ IsFiniteSet(slots[t])
    BY <1>4, FiniteJobs
  <2>2. Cardinality(slots[t]) < MaxPerServer BY <1>7 DEF HasFreeSlot
  <2>3. Cardinality(slots[t] \cup {j}) <= Cardinality(slots[t]) + 1
    BY <2>1, FS_AddElement
  <2>4. Cardinality(slots[t] \cup {j}) \in Nat
    BY <1>4, FiniteJobs
  <2>5. Cardinality(slots'[t]) <= MaxPerServer
    BY <1>4, <1>7, <2>1, <2>2, <2>3, <2>4, LimitAssumption
  <2>6. QED BY <1>4, <1>6, <1>7, <2>5
<1>8. SlotPart
  <2>1. CASE UNCHANGED slots /\ pc[j] \notin Holding \cup {"killed"} /\ pc'[j] \notin Holding
    BY <1>3, <1>4, <1>6, <2>1
  <2>2. CASE /\ UNCHANGED slots /\ pc[j] \in {"starting", "copying"}
             /\ pc'[j] \in {"copying", "closing"}
    BY <1>3, <1>4, <1>6, <2>2 DEF Holding
  <2>3. CASE /\ pc[j] = "wantSource" /\ pc'[j] = "wantTarget"
             /\ HasFreeSlot(job[j].source)
             /\ slots' = [slots EXCEPT ![job[j].source] = @ \cup {j}]
    <3>1. /\ j \in slots'[job[j].source]
          /\ \A s \in Servers : slots[s] \subseteq slots'[s] /\ slots'[s] \subseteq slots[s] \cup {j}
      BY <1>2, <1>4, <2>3
    <3>2. \A s \in Servers : Cardinality(slots'[s]) <= MaxPerServer
      BY <1>2, <1>7, <2>3
    <3>3. \A k \in Jobs : pc[k] \in Holding => job[k].source \in Servers /\ job[k].target \in Servers
      BY JobIsCreated DEF JobParams, Holding
    <3>4. \A k \in Jobs : pc'[k] \in Holding => k \in slots'[job[k].source]
      BY <1>3, <1>4, <1>6, <2>3, <3>1, <3>3 DEF Holding
    <3>5. \A k \in Jobs : pc'[k] \in Holding \ {"wantTarget"}
                         => k \in slots'[job[k].target]
      BY <1>3, <1>4, <1>6, <2>3, <3>1, <3>3 DEF Holding
    <3>6. \A s \in Servers : \A k \in slots'[s] : pc'[k] \in Holding \cup {"killed"}
      BY <1>3, <1>4, <1>6, <2>3, <3>1 DEF Holding
    <3>7. QED BY <3>2, <3>4, <3>5, <3>6
  <2>4. CASE /\ pc[j] = "wantTarget" /\ pc'[j] = "starting"
             /\ HasFreeSlot(job[j].target)
             /\ slots' = [slots EXCEPT ![job[j].target] = @ \cup {j}]
    <3>1. /\ j \in slots'[job[j].target]
          /\ \A s \in Servers : slots[s] \subseteq slots'[s] /\ slots'[s] \subseteq slots[s] \cup {j}
      BY <1>2, <1>4, <2>4
    <3>2. \A s \in Servers : Cardinality(slots'[s]) <= MaxPerServer
      BY <1>2, <1>7, <2>4
    <3>3. \A k \in Jobs : pc[k] \in Holding => job[k].source \in Servers /\ job[k].target \in Servers
      BY JobIsCreated DEF JobParams, Holding
    <3>4. \A k \in Jobs : pc'[k] \in Holding => k \in slots'[job[k].source]
      BY <1>3, <1>4, <1>6, <2>4, <3>1, <3>3 DEF Holding
    <3>5. \A k \in Jobs : pc'[k] \in Holding \ {"wantTarget"}
                         => k \in slots'[job[k].target]
      BY <1>3, <1>4, <1>6, <2>4, <3>1, <3>3 DEF Holding
    <3>6. \A s \in Servers : \A k \in slots'[s] : pc'[k] \in Holding \cup {"killed"}
      BY <1>3, <1>4, <1>6, <2>4, <3>1 DEF Holding
    <3>7. QED BY <3>2, <3>4, <3>5, <3>6
  <2>5. CASE ReleaseSlots(j) /\ pc'[j] \in {"verifying", "done"}
    <3>1. \A s \in Servers : slots'[s] = slots[s] \ {j} BY <2>5 DEF ReleaseSlots
    <3>2. ASSUME NEW s \in Servers PROVE Cardinality(slots'[s]) <= MaxPerServer
      <4>1. IsFiniteSet(slots[s]) /\ Cardinality(slots[s]) \in Nat
            /\ Cardinality(slots'[s]) \in Nat
        BY <1>4, FiniteJobs
      <4>2. Cardinality(slots'[s]) <= Cardinality(slots[s])
        BY <3>1, <4>1, FS_Subset
      <4>3. QED BY <1>6, <4>1, <4>2, LimitAssumption
    <3>3. \A k \in Jobs : pc[k] \in Holding => job[k].source \in Servers /\ job[k].target \in Servers
      BY JobIsCreated DEF JobParams, Holding
    <3>4. QED BY <1>3, <1>4, <1>6, <2>5, <3>1, <3>2, <3>3 DEF Holding
  <2>6. QED BY <2>1, <2>2, <2>3, <2>4, <2>5 DEF PermitStep
<1>9. QED
  BY <1>2, <1>5, <1>8
     DEF PermitsMatchWorkers, HoldsSource, HoldsTarget, Live, Holding

(* A new job and a new worker have no permits. *)
LEMMA CreatePermits ==
  ASSUME TypeInv, PermitsMatchWorkers, NEW p \in JobParams, CreateJob(p)
  PROVE  PermitsMatchWorkers'
<1> DEFINE j == Len(job) + 1
<1>1. /\ job' = Append(job, p) /\ pc' = [pc EXCEPT ![j] = "queued"]
      /\ UNCHANGED <<slots, inGlobal>>
  BY DEF CreateJob, permits
<1>2. job \in Seq(JobParams) /\ Len(job) \in Nat /\ pc \in [Jobs -> PC] /\ j \in Jobs
      /\ slots \in [Servers -> SUBSET Jobs] /\ inGlobal \subseteq Jobs
  BY LenProperties, LimitAssumption DEF TypeInv, TypeOK, CreateJob, Jobs
<1>3. \A i \in 1 .. Len(job) : job'[i] = job[i] BY <1>1, <1>2, AppendProperties
<1>4. pc[j] = "absent" BY <1>2 DEF TypeInv, Registered
<1>5. \A k \in Jobs : pc[k] # "absent" => job'[k] = job[k]
  BY <1>2, <1>3, LimitAssumption DEF TypeInv, Registered, Jobs
<1>6. \A k \in Jobs : k # j => pc'[k] = pc[k] BY <1>1, <1>2
<1>7. pc'[j] = "queued" BY <1>1, <1>2
<1>8. \A s \in Servers : j \notin slots[s]
  BY <1>4 DEF PermitsMatchWorkers, HoldsSource
<1>9. j \notin inGlobal BY <1>4 DEF PermitsMatchWorkers, Live
<1> HIDE DEF j
<1>10. \A k \in Jobs : HoldsSource(k)' => k # j /\ HoldsSource(k) /\ job'[k] = job[k]
  BY <1>5, <1>6, <1>7 DEF HoldsSource
<1>11. \A k \in Jobs : HoldsTarget(k)' => k # j /\ HoldsTarget(k) /\ job'[k] = job[k]
  BY <1>5, <1>6, <1>7 DEF HoldsTarget
<1>12. \A s \in Servers : \A k \in slots[s] : HoldsSource(k)' \/ pc'[k] = "killed"
  BY <1>2, <1>6, <1>8 DEF PermitsMatchWorkers, HoldsSource
<1>13. \A k \in inGlobal : Live(k)' BY <1>2, <1>6, <1>9 DEF PermitsMatchWorkers, Live
<1>14. QED
  BY <1>1, <1>10, <1>11, <1>12, <1>13 DEF PermitsMatchWorkers

LEMMA PermitsStep ==
  TypeInv /\ PermitsMatchWorkers /\ [Next]_vars => PermitsMatchWorkers'
<1> SUFFICES ASSUME TypeInv, PermitsMatchWorkers, [Next]_vars
             PROVE  PermitsMatchWorkers'
  OBVIOUS
<1> DEFINE Frame == UNCHANGED <<job, pc, slots, inGlobal>>
<1>1. Frame => PermitsMatchWorkers'
  BY DEF PermitsMatchWorkers, HoldsSource, HoldsTarget, Live
<1>2. ASSUME NEW i \in DOMAIN placements, NEW s \in Servers, NEW p \in Paths,
             create(i, s, p)
      PROVE  PermitsMatchWorkers'
  BY <1>2, CreateParams, CreatePermits
<1>3. ASSUME NEW j \in Jobs, cancel(j) PROVE PermitsMatchWorkers'
  BY <1>1, <1>3 DEF cancel, permits
<1>4. ASSUME NEW j \in Jobs, retry(j) PROVE PermitsMatchWorkers'
  BY <1>4, RetryParams, CreatePermits
<1>5. ASSUME NEW j \in Jobs, WorkerStep(j) PROVE PermitsMatchWorkers'
  BY <1>5, WorkerTypes, WorkerPermits, PermitStepKeeps DEF TypeInv
<1>6. CASE clear_history BY <1>1, <1>6 DEF clear_history, permits
<1>7. CASE stop
  <2>1. CASE Frame BY <1>1, <2>1
  <2>2. CASE /\ pc' = [j \in Jobs |-> IF j \in tasks /\ Live(j) THEN "killed" ELSE pc[j]]
             /\ UNCHANGED <<job, slots, inGlobal>>
    <3>1. slots \in [Servers -> SUBSET Jobs] /\ inGlobal \subseteq Jobs
      BY DEF TypeInv, TypeOK
    <3>2. \A k \in Jobs : pc'[k] = pc[k] \/ pc'[k] = "killed" BY <2>2
    <3>3. QED
      BY <2>2, <3>1, <3>2 DEF PermitsMatchWorkers, HoldsSource, HoldsTarget, Live
  <2>3. QED BY <1>7, <2>1, <2>2 DEF stop, permits
<1>8. CASE UNCHANGED vars BY <1>1, <1>8 DEF vars, permits
<1>9. QED BY <1>2, <1>3, <1>4, <1>5, <1>6, <1>7, <1>8 DEF Next

(* The transfer slots of every server match the workers that are between   *)
(* acquiring and leaving them, and never exceed max_transfers_per_server,  *)
(* through failures, cancels and the CancelledErrors of shutdown.          *)
THEOREM PermitsCorrect == Spec => []PermitsMatchWorkers
<1>1. Init => TypeInv /\ PermitsMatchWorkers
  <2>1. Init => TypeInv
    BY EmptySeq, LimitAssumption, PlacementAssumption
       DEF Init, TypeInv, TypeOK, Registered, JobState, PC, Plan, Outcome, Jobs, NoJob
  <2>2. Init => PermitsMatchWorkers
    BY FS_EmptySet, LimitAssumption
       DEF Init, PermitsMatchWorkers, HoldsSource, HoldsTarget, Live
  <2>3. QED BY <2>1, <2>2
<1>2. QED BY <1>1, TypeStep, PermitsStep, PTL DEF Spec

(* A worker that is over holds no permit. *)
THEOREM PermitsReturned == Spec => []NoPermitLeak
<1>1. TypeOK /\ PermitsMatchWorkers => NoPermitLeak
  BY DEF TypeOK, PermitsMatchWorkers, NoPermitLeak, HoldsSource, Live
<1>2. QED BY <1>1, TypeCorrect, PermitsCorrect, PTL

(* Copies a server takes part in stay within max_transfers_per_server.     *)
THEOREM CopiesBounded == Spec => []CopiesPerServerBounded
<1>1. ASSUME TypeOK, Registered, PermitsMatchWorkers PROVE CopiesPerServerBounded
  <2> SUFFICES ASSUME NEW s \in Servers
               PROVE  Cardinality({j \in Jobs : /\ Writing(j)
                                                /\ s \in {job[j].source, job[j].target}})
                        <= MaxPerServer
    BY DEF CopiesPerServerBounded
  <2> DEFINE W == {j \in Jobs : Writing(j) /\ s \in {job[j].source, job[j].target}}
  <2>1. slots[s] \in SUBSET Jobs BY <1>1 DEF TypeOK
  <2>2. W \subseteq slots[s]
    BY <1>1 DEF PermitsMatchWorkers, HoldsSource, HoldsTarget, Writing
  <2>3. Cardinality(W) <= Cardinality(slots[s]) BY <2>1, <2>2, FiniteJobs, FS_Subset
  <2>4. Cardinality(W) \in Nat /\ Cardinality(slots[s]) \in Nat BY <2>1, FiniteJobs
  <2>5. Cardinality(slots[s]) <= MaxPerServer BY <1>1 DEF PermitsMatchWorkers
  <2>6. QED BY <2>3, <2>4, <2>5, LimitAssumption
<1>2. QED BY <1>1, TypeCorrect, PermitsCorrect, PTL

(* With one transfer slot per server, workers that hold the slot of their    *)
(* target have different targets.                                            *)
LEMMA OneHolderPerTarget ==
  ASSUME MaxPerServer = 1, TypeInv, PermitsMatchWorkers, NEW j \in Jobs, NEW k \in Jobs,
         HoldsTarget(j), HoldsTarget(k), TargetKey(j) = TargetKey(k)
  PROVE  j = k
<1> DEFINE t == job[j].target
<1>1. t \in Servers /\ job[k].target = t
  <2>1. job[j] \in JobParams /\ job[k] \in JobParams
    BY JobIsCreated DEF HoldsTarget
  <2>2. QED BY <2>1 DEF JobParams, TargetKey, target_key
<1>2. j \in slots[t] /\ k \in slots[t] BY <1>1 DEF PermitsMatchWorkers
<1>3. slots[t] \in SUBSET Jobs /\ Cardinality(slots[t]) <= 1
  BY <1>1 DEF TypeInv, TypeOK, PermitsMatchWorkers
<1>4. IsFiniteSet(slots[t]) /\ Cardinality(slots[t]) \in Nat BY <1>3, FiniteJobs
<1>5. Cardinality(slots[t]) # 0 BY <1>2, <1>4, FS_EmptySet
<1>6. Cardinality(slots[t]) = 1 BY <1>3, <1>4, <1>5
<1>7. PICK x : slots[t] = {x} BY <1>4, <1>6, FS_Singleton
<1>8. QED BY <1>2, <1>7

(* With one transfer slot per server, the default, two workers never write *)
(* below the same directory, although cancel() gives the lock away early.  *)
THEOREM WritersExclusive ==
  ASSUME MaxPerServer = 1
  PROVE  Spec => []OneWriterPerTarget
<1>1. ASSUME TypeOK, Registered, PermitsMatchWorkers PROVE OneWriterPerTarget
  <2>1. TypeInv /\ \A j \in Jobs : Writing(j) => HoldsTarget(j)
    BY <1>1 DEF TypeInv, Writing, HoldsTarget
  <2>2. QED BY <1>1, <2>1, OneHolderPerTarget DEF OneWriterPerTarget
<1>2. QED BY <1>1, TypeCorrect, PermitsCorrect, PTL

-----------------------------------------------------------------------------
(* Active jobs *)

(* ActiveIsCancellable is not inductive: a worker that stop() killed could *)
(* unwind without a transition.  stop() kills only when nothing is active. *)
ActiveInv ==
  \A j \in active : state[j] \in Cancellable /\ pc[j] \notin {"absent", "done", "killed"}

(* A worker that ends has made its job terminal, or finds it inactive. *)
LEMMA WorkerActive ==
  ASSUME TypeInv, ActiveInv, NEW j \in Jobs, WorkerStep(j), j \in active'
  PROVE  state'[j] \in Cancellable /\ pc'[j] \notin {"absent", "done", "killed"}
<1>1. state \in [Jobs -> JobState] /\ pc \in [Jobs -> PC] BY DEF TypeInv, TypeOK
<1>2. \A s \in Terminal : ~transition(j, s) BY DEF transition
<1>3. j \in active
  <2>1. RegistryStep(j) BY WorkerRegistry
  <2>2. QED BY <2>1 DEF RegistryStep, transition, registry
<1>4. state[j] \in Cancellable /\ pc[j] # "killed" /\ find(j) /\ state[j] # "cancelled"
  BY <1>3 DEF ActiveInv, find, Cancellable
<1> DEFINE Goes(l) == pc' = [pc EXCEPT ![j] = l]
           Becomes(s) == transition(j, s)
<1>5. \A s \in Cancellable : Becomes(s) => state'[j] \in Cancellable
  BY <1>1 DEF transition
<1>6. UNCHANGED registry => state'[j] \in Cancellable BY <1>4 DEF registry
<1>7. \A l \in PC \ {"absent", "done", "killed"} :
        Goes(l) => pc'[j] \notin {"absent", "done", "killed"}
  BY <1>1
<1>8. ~FailUnlessCancelled(j) BY <1>2, <1>4 DEF FailUnlessCancelled, Terminal
<1>9. "failed" \in Terminal /\ "completed" \in Terminal /\ "cancelled" \in Terminal
  BY DEF Terminal
<1> HIDE DEF Becomes, Goes
<1>10. \/ \E s \in Cancellable : Becomes(s)
       \/ UNCHANGED registry
  BY <1>2, WorkerRegistry DEF RegistryStep, Becomes
<1>11. \E l \in PC \ {"absent", "done", "killed"} : Goes(l)
  <2> USE <1>2, <1>4, <1>8, <1>9 DEF PC, Goes
  <2>1. CASE BeginPlanning(j) BY <2>1 DEF BeginPlanning
  <2>2. CASE FinishPlanning(j) BY <2>2 DEF FinishPlanning
  <2>3. CASE PreflightSpace(j) BY <2>3 DEF PreflightSpace
  <2>4. CASE AcquireSourceSlot(j) BY <2>4 DEF AcquireSourceSlot
  <2>5. CASE AcquireTargetSlot(j) BY <2>5 DEF AcquireTargetSlot
  <2>6. CASE StartCopy(j) BY <2>6 DEF StartCopy
  <2>7. CASE EndCopy(j) BY <2>7 DEF EndCopy
  <2>8. CASE LeaveSlots(j) BY <2>8 DEF LeaveSlots
  <2>9. CASE Verify(j) BY <2>9 DEF Verify
  <2>10. CASE Unwind(j) BY <2>10 DEF Unwind
  <2>11. QED
    BY <2>1, <2>2, <2>3, <2>4, <2>5, <2>6, <2>7, <2>8, <2>9, <2>10
       DEF WorkerStep
<1>12. QED BY <1>5, <1>6, <1>7, <1>10, <1>11

LEMMA CreateActive ==
  ASSUME TypeInv, ActiveInv, NEW p \in JobParams, CreateJob(p)
  PROVE  ActiveInv'
<1> DEFINE j == Len(job) + 1
<1>1. /\ active' = active \cup {j} /\ state' = [state EXCEPT ![j] = "queued"]
      /\ pc' = [pc EXCEPT ![j] = "queued"]
  BY DEF CreateJob
<1>2. j \in Jobs /\ active \subseteq Jobs /\ state \in [Jobs -> JobState] /\ pc \in [Jobs -> PC]
  BY LenProperties, LimitAssumption DEF TypeInv, TypeOK, CreateJob, Jobs
<1> HIDE DEF j
<1>3. QED BY <1>1, <1>2 DEF ActiveInv, Cancellable

LEMMA ActiveStep == TypeInv /\ ActiveInv /\ [Next]_vars => ActiveInv'
<1> SUFFICES ASSUME TypeInv, ActiveInv, [Next]_vars PROVE ActiveInv' OBVIOUS
<1>1. active \subseteq Jobs /\ state \in [Jobs -> JobState] /\ pc \in [Jobs -> PC]
  BY DEF TypeInv, TypeOK
<1>2. ASSUME NEW j \in Jobs, transition(j, "cancelled"), UNCHANGED pc
      PROVE  ActiveInv'
  <2>1. active' = active \ {j} /\ state' = [state EXCEPT ![j] = "cancelled"]
    BY <1>2 DEF transition, Terminal
  <2>2. QED BY <1>1, <1>2, <2>1 DEF ActiveInv
<1>3. ASSUME NEW i \in DOMAIN placements, NEW s \in Servers, NEW p \in Paths,
             create(i, s, p)
      PROVE  ActiveInv'
  BY <1>3, CreateParams, CreateActive
<1>4. ASSUME NEW j \in Jobs, cancel(j) PROVE ActiveInv'
  BY <1>2, <1>4 DEF cancel
<1>5. ASSUME NEW j \in Jobs, retry(j) PROVE ActiveInv'
  BY <1>5, RetryParams, CreateActive
<1>6. ASSUME NEW j \in Jobs, WorkerStep(j) PROVE ActiveInv'
  <2>1. \A k \in Jobs \ {j} : pc'[k] = pc[k] BY <1>6, WorkerTypes DEF TypeInv, WorkerFrame
  <2>2. RegistryStep(j) BY <1>6, WorkerRegistry
  <2>3. active' \subseteq active /\ \A k \in Jobs \ {j} : state'[k] = state[k]
    BY <1>1, <2>2 DEF RegistryStep, transition, registry
  <2>4. ASSUME NEW k \in active'
        PROVE  state'[k] \in Cancellable /\ pc'[k] \notin {"absent", "done", "killed"}
    <3>1. CASE k = j BY <1>6, <2>4, <3>1, WorkerActive
    <3>2. CASE k # j BY <1>1, <2>1, <2>3, <2>4, <3>2 DEF ActiveInv
    <3>3. QED BY <3>1, <3>2
  <2>5. QED BY <2>4 DEF ActiveInv
<1>7. CASE clear_history BY <1>7 DEF clear_history, ActiveInv
<1>8. CASE stop
  <2>1. CASE active = {} /\ UNCHANGED registry BY <2>1 DEF registry, ActiveInv
  <2>2. ASSUME NEW j \in active, transition(j, "cancelled"), UNCHANGED pc PROVE ActiveInv'
    BY <1>1, <1>2, <2>2
  <2>3. QED BY <1>8, <2>1, <2>2 DEF stop
<1>9. CASE UNCHANGED vars BY <1>9 DEF vars, registry, ActiveInv
<1>10. QED BY <1>3, <1>4, <1>5, <1>6, <1>7, <1>8, <1>9 DEF Next

(* An active job can be cancelled and its worker is alive: no path of the  *)
(* worker ends, and no archived job stays, without the registry knowing.   *)
THEOREM ActiveCorrect == Spec => []ActiveIsCancellable
<1>1. Init => TypeInv /\ ActiveInv
  BY EmptySeq, LimitAssumption, PlacementAssumption
     DEF Init, TypeInv, TypeOK, Registered, JobState, PC, Plan, Outcome, Jobs,
         NoJob, ActiveInv
<1>2. ActiveInv => ActiveIsCancellable BY DEF ActiveInv, ActiveIsCancellable, Live
<1>3. QED BY <1>1, <1>2, TypeStep, ActiveStep, PTL DEF Spec

-----------------------------------------------------------------------------
(* TransferJobs implements CopyService *)

(* Only a worker that has ended leaves a completed job behind. *)
CompletedInv == \A j \in Jobs : state[j] = "completed" => pc[j] = "done"

Pending == {"queued", "planning", "preflight", "wantSource", "wantTarget", "starting"}

(* The steps of a worker, as far as a client sees them. *)
Seen(j) ==
  \/ /\ pc[j] \in Pending /\ pc'[j] \in Pending /\ placements' = placements
     /\ state'[j] # "completed"
  \/ /\ pc[j] = "starting" /\ pc'[j] = "copying" /\ placements' = placements
     /\ state'[j] # "completed"
  \/ /\ pc[j] = "copying" /\ pc'[j] = "closing" /\ placements' = placements
     /\ state'[j] # "completed"
  \/ /\ pc[j] = "closing" /\ pc'[j] = "verifying" /\ placements' = placements
     /\ state'[j] # "completed"
  \/ /\ pc[j] \notin {"absent", "done"} /\ pc'[j] = "done" /\ placements' = placements
     /\ state'[j] # "completed"
  \/ /\ pc[j] \in {"closing", "verifying"} /\ pc'[j] = "done"
     /\ state'[j] = "completed" /\ RecordTargetPlacement(j)

LEMMA WorkerSeen ==
  ASSUME TypeInv, CompletedInv, NEW j \in Jobs, WorkerStep(j)
  PROVE  Seen(j)
<1>1. state \in [Jobs -> JobState] /\ pc \in [Jobs -> PC] BY DEF TypeInv, TypeOK
<1>2. pc[j] # "done" => state[j] # "completed" BY DEF CompletedInv
<1> DEFINE Goes(l) == pc' = [pc EXCEPT ![j] = l]
           Becomes(s) == transition(j, s)
           Same == UNCHANGED registry
           Kept == placements' = placements
<1>3. \A s : Becomes(s) => state'[j] = s BY <1>1 DEF transition
<1>4. Same => state'[j] = state[j] BY DEF registry
<1>5. EndWorker(j) => pc'[j] = "done" BY <1>1 DEF EndWorker
<1>6. \A l : Goes(l) => pc'[j] = l BY <1>1
<1>7. FailUnlessCancelled(j) => Same \/ Becomes("failed") BY Zenon DEF FailUnlessCancelled
<1> HIDE DEF Goes, Becomes, Same, Kept
<1>8. CASE BeginPlanning(j)
  <2>1. /\ pc[j] = "queued" /\ Kept
        /\ \/ Becomes("planning") /\ Goes("planning")
           \/ (Becomes("failed") \/ Same) /\ EndWorker(j)
    BY <1>8, Zenon DEF BeginPlanning, Goes, Becomes, Same, Kept
  <2>2. QED BY <1>2, <1>3, <1>4, <1>5, <1>6, <2>1 DEF Seen, Pending, Kept
<1>9. CASE FinishPlanning(j)
  <2>1. /\ pc[j] = "planning" /\ Kept
        /\ \/ Same /\ (Goes("preflight") \/ Goes("wantSource"))
           \/ (Becomes("failed") \/ Same) /\ EndWorker(j)
    BY <1>9, Zenon DEF FinishPlanning, Goes, Becomes, Same, Kept
  <2>2. QED BY <1>2, <1>3, <1>4, <1>5, <1>6, <2>1 DEF Seen, Pending, Kept
<1>10. CASE PreflightSpace(j)
  <2>1. /\ pc[j] = "preflight" /\ Kept
        /\ (Same /\ Goes("wantSource")) \/ (Becomes("failed") /\ EndWorker(j))
    BY <1>10, Zenon DEF PreflightSpace, Goes, Becomes, Same, Kept
  <2>2. QED BY <1>2, <1>3, <1>4, <1>5, <1>6, <2>1 DEF Seen, Pending, Kept
<1>11. CASE AcquireSourceSlot(j)
  <2>1. pc[j] = "wantSource" /\ Kept /\ Same /\ Goes("wantTarget")
    BY <1>11, Zenon DEF AcquireSourceSlot, Goes, Same, Kept
  <2>2. QED BY <1>2, <1>4, <1>6, <2>1 DEF Seen, Pending, Kept
<1>12. CASE AcquireTargetSlot(j)
  <2>1. /\ pc[j] = "wantTarget" /\ Kept
        /\ \/ Becomes("running") /\ Goes("starting")
           \/ (Becomes("failed") \/ Same) /\ EndWorker(j)
    BY <1>12, Zenon DEF AcquireTargetSlot, Goes, Becomes, Same, Kept
  <2>2. QED BY <1>2, <1>3, <1>4, <1>5, <1>6, <2>1 DEF Seen, Pending, Kept
<1>13. CASE StartCopy(j)
  <2>1. /\ pc[j] = "starting" /\ Kept
        /\ \/ Same /\ Goes("copying")
           \/ (Becomes("failed") \/ Same) /\ EndWorker(j)
    BY <1>7, <1>13, Zenon DEF StartCopy, Goes, Same, Kept
  <2>2. QED BY <1>2, <1>3, <1>4, <1>5, <1>6, <2>1 DEF Seen, Pending, Kept
<1>14. CASE EndCopy(j)
  <2>1. pc[j] = "copying" /\ Kept /\ Same /\ Goes("closing")
    BY <1>14, Zenon DEF EndCopy, Goes, Same, Kept
  <2>2. QED BY <1>2, <1>4, <1>6, <2>1 DEF Seen, Kept
<1>15. CASE LeaveSlots(j)
  <2>1. /\ pc[j] = "closing"
        /\ \/ Kept /\ Becomes("verifying") /\ Goes("verifying")
           \/ Kept /\ (Becomes("failed") \/ Becomes("cancelled") \/ Same) /\ EndWorker(j)
           \/ RecordTargetPlacement(j) /\ Becomes("completed") /\ EndWorker(j)
    BY <1>7, <1>15, Zenon DEF LeaveSlots, Goes, Becomes, Same, Kept
  <2>2. QED BY <1>2, <1>3, <1>4, <1>5, <1>6, <2>1 DEF Seen, Kept
<1>16. CASE Verify(j)
  <2>1. /\ pc[j] = "verifying" /\ EndWorker(j)
        /\ \/ Kept /\ Becomes("failed")
           \/ RecordTargetPlacement(j) /\ Becomes("completed")
    BY <1>16, Zenon DEF Verify, Becomes, Kept
  <2>2. QED BY <1>3, <1>5, <2>1 DEF Seen, Kept
<1>17. CASE Unwind(j)
  <2>1. pc[j] = "killed" /\ Kept /\ (Becomes("cancelled") \/ Same) /\ EndWorker(j)
    BY <1>17, Zenon DEF Unwind, Becomes, Same, Kept
  <2>2. QED BY <1>2, <1>3, <1>4, <1>5, <2>1 DEF Seen, Kept
<1>18. QED
  BY <1>8, <1>9, <1>10, <1>11, <1>12, <1>13, <1>14, <1>15, <1>16, <1>17 DEF WorkerStep

(* The other jobs keep their parameters, states and program counters. *)
LEMMA WorkerApart ==
  ASSUME TypeInv, NEW j \in Jobs, WorkerStep(j)
  PROVE  /\ job' = job
         /\ \A k \in Jobs : k # j => pc'[k] = pc[k] /\ state'[k] = state[k]
<1>1. job' = job /\ \A k \in Jobs \ {j} : pc'[k] = pc[k]
  BY WorkerTypes DEF TypeInv, WorkerFrame
<1>2. RegistryStep(j) BY WorkerRegistry
<1>3. \A k \in Jobs : k # j => state'[k] = state[k]
  BY <1>2 DEF RegistryStep, transition, registry, TypeInv, TypeOK
<1>4. QED BY <1>1, <1>3

LEMMA CompletedStep == TypeInv /\ CompletedInv /\ ActiveInv /\ [Next]_vars => CompletedInv'
<1> SUFFICES ASSUME TypeInv, CompletedInv, ActiveInv, [Next]_vars PROVE CompletedInv' OBVIOUS
<1>1. state \in [Jobs -> JobState] /\ pc \in [Jobs -> PC] /\ active \subseteq Jobs
  BY DEF TypeInv, TypeOK
<1>2. ASSUME NEW j \in Jobs, transition(j, "cancelled"), UNCHANGED pc PROVE CompletedInv'
  <2>1. state' = [state EXCEPT ![j] = "cancelled"] BY <1>2 DEF transition
  <2>2. QED BY <1>1, <1>2, <2>1 DEF CompletedInv
<1>3. ASSUME NEW p \in JobParams, CreateJob(p) PROVE CompletedInv'
  <2> DEFINE j == Len(job) + 1
  <2>1. j \in Jobs BY <1>3, LenProperties, LimitAssumption DEF TypeInv, TypeOK, CreateJob, Jobs
  <2>2. state' = [state EXCEPT ![j] = "queued"] /\ pc' = [pc EXCEPT ![j] = "queued"]
    BY <1>3 DEF CreateJob
  <2> HIDE DEF j
  <2>3. QED BY <1>1, <2>1, <2>2 DEF CompletedInv
<1>4. ASSUME NEW i \in DOMAIN placements, NEW s \in Servers, NEW p \in Paths, create(i, s, p)
      PROVE  CompletedInv'
  BY <1>3, <1>4, CreateParams
<1>5. ASSUME NEW j \in Jobs, cancel(j) PROVE CompletedInv' BY <1>2, <1>5 DEF cancel
<1>6. ASSUME NEW j \in Jobs, retry(j) PROVE CompletedInv' BY <1>3, <1>6, RetryParams
<1>7. ASSUME NEW j \in Jobs, WorkerStep(j) PROVE CompletedInv'
  BY <1>7, WorkerSeen, WorkerApart DEF Seen, CompletedInv
<1>8. CASE clear_history BY <1>8 DEF clear_history, CompletedInv
<1>9. CASE stop
  <2>1. CASE /\ pc' = [j \in Jobs |-> IF j \in tasks /\ Live(j) THEN "killed" ELSE pc[j]]
             /\ UNCHANGED registry
    BY <1>1, <2>1 DEF CompletedInv, registry, Live
  <2>2. ASSUME NEW j \in active, transition(j, "cancelled"), UNCHANGED pc PROVE CompletedInv'
    BY <1>1, <1>2, <2>2
  <2>3. QED BY <1>9, <2>1, <2>2 DEF stop
<1>10. CASE UNCHANGED vars BY <1>10 DEF vars, registry, CompletedInv
<1>11. QED BY <1>4, <1>5, <1>6, <1>7, <1>8, <1>9, <1>10 DEF Next

(* The refinement mapping, by name. *)
OrderMap == [j \in Jobs |-> IF j <= Len(job) THEN OrderOf(j) ELSE <<>>]
PhaseMap == [j \in Jobs |-> PhaseOf(j)]
RecordedMap == {placements[i] : i \in DOMAIN placements}

(* Whatever leaves parameters, program counters and placements alone, and no *)
(* ended job's state, is a stutter.                                          *)
LEMMA CopyStutters ==
  ASSUME job' = job, pc' = pc, placements' = placements,
         \A j \in Jobs : pc[j] = "done" => (state'[j] = "completed" <=> state[j] = "completed")
  PROVE  UNCHANGED Copy!cvars
<1>1. OrderMap' = OrderMap BY DEF OrderMap, OrderOf, TargetKey
<1>2. PhaseMap' = PhaseMap BY DEF PhaseMap, PhaseOf, Writing
<1>3. RecordedMap' = RecordedMap BY DEF RecordedMap
<1>4. QED BY <1>1, <1>2, <1>3 DEF Copy!cvars, OrderMap, PhaseMap, RecordedMap

(* A step of worker j moves no other order. *)
LEMMA CopyMoves ==
  ASSUME NEW j \in Jobs, job' = job,
         \A k \in Jobs : k # j => pc'[k] = pc[k] /\ state'[k] = state[k]
  PROVE  OrderMap' = OrderMap /\ PhaseMap' = [PhaseMap EXCEPT ![j] = PhaseOf(j)']
<1>1. OrderMap' = OrderMap BY DEF OrderMap, OrderOf, TargetKey
<1>2. \A k \in Jobs : k # j => PhaseOf(k)' = PhaseOf(k) BY DEF PhaseOf, Writing
<1>3. QED BY <1>1, <1>2 DEF PhaseMap

(* The list of placements grows by the copy of the order. *)
LEMMA CopyRecorded ==
  ASSUME TypeInv, NEW j \in Jobs, pc[j] # "absent", RecordTargetPlacement(j)
  PROVE  RecordedMap' = RecordedMap \cup {OrderMap[j][2]}
<1> DEFINE p == [artifact |-> job[j].artifact, server |-> job[j].target,
                 path |-> job[j].targetPath]
<1>1. OrderMap[j][2] = p
  <2>1. j \in 1 .. Len(job) BY JobIsCreated
  <2>2. j <= Len(job) BY <2>1
  <2>3. OrderMap[j] = OrderOf(j) BY <2>2 DEF OrderMap
  <2>4. QED BY <2>3 DEF OrderOf
<1>2. placements \in Seq(Placement) BY DEF TypeInv, TypeOK
<1>3. CASE \E i \in DOMAIN placements : placements[i] = p
  <2>1. placements' = placements BY <1>3 DEF RecordTargetPlacement
  <2>2. p \in RecordedMap BY <1>3 DEF RecordedMap
  <2>3. RecordedMap' = RecordedMap BY <2>1 DEF RecordedMap
  <2>4. QED BY <1>1, <2>2, <2>3
<1>4. CASE ~ \E i \in DOMAIN placements : placements[i] = p
  <2>1. placements' = Append(placements, p) BY <1>4 DEF RecordTargetPlacement
  <2> DEFINE n == Len(placements)
  <2> HIDE DEF p
  <2>2. n \in Nat /\ DOMAIN placements = 1 .. n BY <1>2
  <2>3. /\ DOMAIN placements' = 1 .. n + 1 /\ placements'[n + 1] = p
        /\ \A i \in 1 .. n : placements'[i] = placements[i]
    BY <1>2, <2>1, <2>2
  <2>4. /\ \A i \in 1 .. n + 1 : i \in 1 .. n \/ i = n + 1
        /\ \A i \in 1 .. n : i \in 1 .. n + 1
        /\ n + 1 \in 1 .. n + 1
    BY <2>2
  <2>5. RecordedMap' = RecordedMap \cup {p}
    BY <2>2, <2>3, <2>4 DEF RecordedMap
  <2>6. QED BY <1>1, <2>5
<1>5. QED BY <1>3, <1>4

LEMMA WorkerCopies ==
  ASSUME MaxPerServer = 1, TypeInv, PermitsMatchWorkers, CompletedInv,
         NEW j \in Jobs, WorkerStep(j)
  PROVE  [Copy!CNext]_(Copy!cvars)
<1>1. /\ OrderMap' = OrderMap /\ PhaseMap' = [PhaseMap EXCEPT ![j] = PhaseOf(j)']
  BY WorkerApart, CopyMoves
<1>2. PhaseMap[j] = PhaseOf(j) /\ PhaseMap \in [Jobs -> {PhaseOf(k) : k \in Jobs}]
  BY DEF PhaseMap
<1>3. placements' = placements => RecordedMap' = RecordedMap BY DEF RecordedMap
<1>4. Seen(j) BY WorkerSeen
<1>5. ASSUME PhaseOf(j)' = PhaseOf(j), placements' = placements PROVE UNCHANGED Copy!cvars
  <2>1. PhaseMap' = PhaseMap BY <1>1, <1>2, <1>5
  <2>2. QED BY <1>1, <1>3, <1>5, <2>1 DEF Copy!cvars, OrderMap, PhaseMap, RecordedMap
<1>6. CASE pc[j] \in Pending /\ pc'[j] \in Pending /\ placements' = placements
  <2>1. PhaseOf(j)' = PhaseOf(j) BY <1>6 DEF PhaseOf, Writing, Pending
  <2>2. QED BY <1>5, <1>6, <2>1
<1>7. CASE pc[j] = "starting" /\ pc'[j] = "copying" /\ placements' = placements
  <2>1. PhaseOf(j) = "pending" /\ PhaseOf(j)' = "writing" BY <1>7 DEF PhaseOf, Writing
  <2>2. ASSUME NEW k \in Jobs \ {j}, PhaseMap[k] = "writing" PROVE OrderMap[k][1] # OrderMap[j][1]
    <3>1. Writing(k) BY <2>2 DEF PhaseMap, PhaseOf
    <3>2. HoldsTarget(k) /\ HoldsTarget(j) BY <1>7, <3>1 DEF HoldsTarget, Writing
    <3>3. TargetKey(k) # TargetKey(j) BY <3>2, OneHolderPerTarget
    <3>4. k \in 1 .. Len(job) /\ j \in 1 .. Len(job)
      BY <3>2, JobIsCreated DEF HoldsTarget
    <3>5. OrderMap[k] = OrderOf(k) /\ OrderMap[j] = OrderOf(j) BY <3>4 DEF OrderMap
    <3>6. QED BY <3>3, <3>5 DEF OrderOf
  <2>3. Copy!StartWriting(j)
    BY <1>1, <1>2, <1>3, <1>7, <2>1, <2>2
       DEF Copy!StartWriting, OrderMap, PhaseMap, RecordedMap
  <2>4. QED BY <2>3 DEF Copy!CNext
<1>8. CASE pc[j] = "copying" /\ pc'[j] = "closing" /\ placements' = placements
  <2>1. PhaseOf(j)' = PhaseOf(j) BY <1>8 DEF PhaseOf, Writing
  <2>2. QED BY <1>5, <1>8, <2>1
<1>9. CASE pc[j] = "closing" /\ pc'[j] = "verifying" /\ placements' = placements
  <2>1. PhaseOf(j) = "writing" /\ PhaseOf(j)' = "written" BY <1>9 DEF PhaseOf, Writing
  <2>2. Copy!StopWriting(j)
    BY <1>1, <1>2, <1>3, <1>9, <2>1 DEF Copy!StopWriting, OrderMap, PhaseMap, RecordedMap
  <2>3. QED BY <2>2 DEF Copy!CNext
<1>10. CASE /\ pc[j] \notin {"absent", "done"} /\ pc'[j] = "done" /\ placements' = placements
            /\ state'[j] # "completed"
  <2>1. /\ PhaseOf(j) \notin {"none", "succeeded", "gone"} /\ PhaseOf(j)' = "gone"
    BY <1>10 DEF PhaseOf, Writing
  <2>2. Copy!GiveUp(j)
    BY <1>1, <1>2, <1>3, <1>10, <2>1
       DEF Copy!GiveUp, Copy!Live, Copy!Over, OrderMap, PhaseMap, RecordedMap
  <2>3. QED BY <2>2 DEF Copy!CNext
<1>11. CASE /\ pc[j] \in {"closing", "verifying"} /\ pc'[j] = "done"
            /\ state'[j] = "completed" /\ RecordTargetPlacement(j)
  <2>1. PhaseOf(j) \in {"writing", "written"} /\ PhaseOf(j)' = "succeeded"
    BY <1>11 DEF PhaseOf, Writing
  <2>2. RecordedMap' = RecordedMap \cup {OrderMap[j][2]} BY <1>11, CopyRecorded
  <2>3. Copy!Succeed(j)
    BY <1>1, <1>2, <2>1, <2>2 DEF Copy!Succeed, OrderMap, PhaseMap, RecordedMap
  <2>4. QED BY <2>3 DEF Copy!CNext
<1>12. QED BY <1>4, <1>6, <1>7, <1>8, <1>9, <1>10, <1>11 DEF Seen

LEMMA CreateCopies ==
  ASSUME TypeInv, NEW p \in JobParams, CreateJob(p)
  PROVE  Copy!CNext
<1>1. PICK j \in Nat : j = Len(job) + 1
  <2>1. Len(job) + 1 \in Nat BY LenProperties DEF TypeInv, TypeOK
  <2>2. QED BY <2>1
<1>2. /\ job' = Append(job, p) /\ state' = [state EXCEPT ![j] = "queued"]
      /\ pc' = [pc EXCEPT ![j] = "queued"] /\ placements' = placements
  BY <1>1 DEF CreateJob
<1>3. /\ job \in Seq(JobParams) /\ Len(job) \in Nat /\ j \in Jobs
      /\ pc \in [Jobs -> PC] /\ state \in [Jobs -> JobState]
  BY <1>1, LenProperties, LimitAssumption DEF TypeInv, TypeOK, CreateJob, Jobs
<1>4. /\ Len(job') = j /\ job'[j] = p /\ \A i \in 1 .. Len(job) : job'[i] = job[i]
  BY <1>1, <1>2, <1>3, AppendProperties
<1>5. pc[j] = "absent" BY <1>1, <1>3 DEF TypeInv, Registered
<1>6. /\ PhaseMap[j] = "none" /\ PhaseMap' = [PhaseMap EXCEPT ![j] = "pending"]
  <2>1. PhaseOf(j) = "none" BY <1>5 DEF PhaseOf, Writing
  <2>2. PhaseOf(j)' = "pending" BY <1>2, <1>3 DEF PhaseOf, Writing
  <2>3. \A k \in Jobs : k # j => PhaseOf(k)' = PhaseOf(k)
    BY <1>2, <1>3 DEF PhaseOf, Writing
  <2>4. QED BY <1>3, <2>1, <2>2, <2>3 DEF PhaseMap
<1>7. PICK o : o = <<target_key(p), [artifact |-> p.artifact, server |-> p.target,
                                    path |-> p.targetPath]>>
  OBVIOUS
<1>8. o \in (Servers \X Dirs) \X Placement
  <2>1. /\ p.target \in Servers /\ p.targetPath \in Paths /\ p.artifact \in Artifacts
    BY DEF JobParams
  <2>2. target_key(p) \in Servers \X Dirs BY <2>1, DirAssumption DEF target_key
  <2>3. [artifact |-> p.artifact, server |-> p.target, path |-> p.targetPath] \in Placement
    BY <2>1 DEF Placement
  <2>4. QED BY <1>7, <2>2, <2>3
<1>9. OrderMap' = [OrderMap EXCEPT ![j] = o]
  <2>1. OrderOf(j)' = o BY <1>4, <1>7 DEF OrderOf, TargetKey
  <2>2. ASSUME NEW k \in Jobs, k # j PROVE OrderMap'[k] = OrderMap[k]
    <3>1. CASE k <= Len(job)
      <4>1. k \in 1 .. Len(job) /\ k <= Len(job') BY <1>1, <1>3, <1>4, <3>1, LimitAssumption DEF Jobs
      <4>2. OrderOf(k)' = OrderOf(k) BY <1>4, <4>1 DEF OrderOf, TargetKey
      <4>3. QED BY <3>1, <4>1, <4>2 DEF OrderMap
    <3>2. CASE ~(k <= Len(job))
      <4>1. ~(k <= Len(job')) BY <1>1, <1>3, <1>4, <2>2, <3>2, LimitAssumption DEF Jobs
      <4>2. QED BY <3>2, <4>1 DEF OrderMap
    <3>3. QED BY <3>1, <3>2
  <2>3. OrderMap'[j] = o
    <3>1. j <= Len(job') BY <1>1, <1>4
    <3>2. QED BY <1>3, <2>1, <3>1 DEF OrderMap
  <2>4. OrderMap' = [k \in Jobs |-> OrderMap'[k]] /\ OrderMap = [k \in Jobs |-> OrderMap[k]]
    BY DEF OrderMap
  <2> HIDE DEF OrderMap
  <2>5. QED BY <1>3, <2>2, <2>3, <2>4
<1>10. RecordedMap' = RecordedMap BY <1>2 DEF RecordedMap
<1>11. Copy!Submit(j)
  BY <1>6, <1>8, <1>9, <1>10 DEF Copy!Submit, Copy!Orders, OrderMap, PhaseMap, RecordedMap
<1>12. QED BY <1>3, <1>11 DEF Copy!CNext

(* stop() reaches every live worker at once, or changes no worker. *)
LEMMA StopCopies ==
  ASSUME TypeInv, ActiveInv, stop
  PROVE  [Copy!CNext]_(Copy!cvars)
<1>1. job' = job /\ placements' = placements BY DEF stop
<1>2. CASE /\ pc' = [j \in Jobs |-> IF j \in tasks /\ Live(j) THEN "killed" ELSE pc[j]]
           /\ UNCHANGED registry
  <2> DEFINE S == {j \in Jobs : j \in tasks /\ Live(j)}
  <2>1. \A j \in Jobs : PhaseOf(j)' = IF j \in S THEN "leaving" ELSE PhaseOf(j)
    BY <1>2 DEF PhaseOf, Writing, registry, Live
  <2>2. \A j \in S : PhaseOf(j) \notin {"none", "succeeded", "gone"}
    BY DEF PhaseOf, Writing, Live
  <2> HIDE DEF S
  <2>3. PhaseMap' = [j \in Jobs |-> IF j \in S THEN "leaving" ELSE PhaseMap[j]]
    BY <2>1 DEF PhaseMap
  <2>4. OrderMap' = OrderMap /\ RecordedMap' = RecordedMap
    BY <1>1 DEF OrderMap, OrderOf, TargetKey, RecordedMap
  <2>5. S \in SUBSET Copy!Live
    BY <2>2 DEF S, Copy!Live, Copy!Over
  <2>6. Copy!Abort(S)
    BY <2>3, <2>4 DEF Copy!Abort, OrderMap, PhaseMap, RecordedMap
  <2>7. QED BY <2>5, <2>6 DEF Copy!CNext
<1>3. ASSUME NEW j \in active, transition(j, "cancelled"), UNCHANGED pc
      PROVE  UNCHANGED Copy!cvars
  <2>1. pc[j] # "done" BY <1>3 DEF ActiveInv
  <2>2. state' = [state EXCEPT ![j] = "cancelled"] BY <1>3 DEF transition
  <2>3. \A k \in Jobs : pc[k] = "done" => state'[k] = state[k]
    BY <2>1, <2>2 DEF TypeInv, TypeOK
  <2>4. QED BY <1>1, <1>3, <2>3, CopyStutters
<1>4. QED BY <1>2, <1>3 DEF stop

LEMMA CopyStep ==
  ASSUME MaxPerServer = 1
  PROVE  TypeInv /\ PermitsMatchWorkers /\ ActiveInv /\ CompletedInv /\ [Next]_vars
           => [Copy!CNext]_(Copy!cvars)
<1> SUFFICES ASSUME TypeInv, PermitsMatchWorkers, ActiveInv, CompletedInv, [Next]_vars
             PROVE  [Copy!CNext]_(Copy!cvars)
  OBVIOUS
<1>1. ASSUME NEW i \in DOMAIN placements, NEW s \in Servers, NEW p \in Paths, create(i, s, p)
      PROVE  Copy!CNext
  BY <1>1, CreateParams, CreateCopies
<1>2. ASSUME NEW j \in Jobs, cancel(j) PROVE UNCHANGED Copy!cvars
  <2>1. /\ job' = job /\ pc' = pc /\ placements' = placements /\ state[j] # "completed"
        /\ state' = [state EXCEPT ![j] = "cancelled"]
    BY <1>2 DEF cancel, transition, Cancellable
  <2>2. \A k \in Jobs : state'[k] = "completed" <=> state[k] = "completed"
    BY <2>1 DEF TypeInv, TypeOK
  <2>3. QED BY <2>1, <2>2, CopyStutters
<1>3. ASSUME NEW j \in Jobs, retry(j) PROVE Copy!CNext
  BY <1>3, RetryParams, CreateCopies
<1>4. ASSUME NEW j \in Jobs, WorkerStep(j) PROVE [Copy!CNext]_(Copy!cvars)
  BY <1>4, WorkerCopies
<1>5. CASE clear_history
  <2>1. job' = job /\ pc' = pc /\ placements' = placements /\ state' = state
    BY <1>5 DEF clear_history
  <2>2. QED BY <2>1, CopyStutters
<1>6. CASE stop BY <1>6, StopCopies
<1>7. CASE UNCHANGED vars
  <2>1. job' = job /\ pc' = pc /\ placements' = placements /\ state' = state
    BY <1>7 DEF vars, registry
  <2>2. QED BY <2>1, CopyStutters
<1>8. QED BY <1>1, <1>2, <1>3, <1>4, <1>5, <1>6, <1>7 DEF Next

LEMMA CopyInit == Init => Copy!CInit
<1> SUFFICES ASSUME Init PROVE Copy!CInit OBVIOUS
<1>1. OrderMap = [j \in Jobs |-> <<>>]
  <2>1. \A j \in Jobs : ~(j <= Len(job))
    <3>1. Len(job) = 0 BY DEF Init
    <3>2. QED BY <3>1, LimitAssumption DEF Jobs
  <2>2. QED BY <2>1 DEF OrderMap
<1>2. PhaseMap = [j \in Jobs |-> "none"]
  <2>1. \A j \in Jobs : PhaseOf(j) = "none" BY DEF Init, PhaseOf, Writing
  <2>2. QED BY <2>1 DEF PhaseMap
<1>3. RecordedMap \subseteq Placement
  <2>1. placements \in Seq(Placement) BY PlacementAssumption DEF Init
  <2>2. \A i \in DOMAIN placements : placements[i] \in Placement BY <2>1
  <2>3. QED BY <2>2 DEF RecordedMap
<1>4. QED BY <1>1, <1>2, <1>3 DEF Copy!CInit, Copy!NoOrder, OrderMap, PhaseMap, RecordedMap

(* With one transfer slot per server, registry, slots and workers implement  *)
(* CopyService: through cancels, revivals, retries, evictions and shutdown   *)
(* an order is written alone, a copy is recorded in the step in which its    *)
(* order succeeds, and what is over stays as it is.                          *)
THEOREM CopyCorrect ==
  ASSUME MaxPerServer = 1
  PROVE  Spec => ImplementsCopyService
<1>1. Init => TypeInv /\ ActiveInv /\ CompletedInv
  BY EmptySeq, LimitAssumption, PlacementAssumption
     DEF Init, TypeInv, TypeOK, Registered, JobState, PC, Plan, Outcome, Jobs,
         NoJob, ActiveInv, CompletedInv
<1>2. QED
  BY <1>1, CopyInit, TypeStep, ActiveStep, CompletedStep, CopyStep, PermitsCorrect, PTL
     DEF Spec, ImplementsCopyService, Copy!CSpec
=============================================================================
