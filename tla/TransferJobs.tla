---------------------------- MODULE TransferJobs ----------------------------
(***************************************************************************)
(* The transfer job registry (backend/app/transfer/state.py) and the       *)
(* transfer service that drives it (backend/app/transfer/service.py).      *)
(*                                                                         *)
(* Everything runs on one asyncio event loop, so a step of this module is  *)
(* what the code does between two awaits.  REST handlers (create, cancel,  *)
(* retry, clear_history, stop) are one step each: they contain no await    *)
(* before their last state change.  A job's worker (_run_job) is a process *)
(* of its own; pc[j] names the await it is suspended in.                   *)
(*                                                                         *)
(* Job ids are numbered in creation order.  What a remote host answers     *)
(* (plan, probes, exit codes, verification, lost connections) is a free    *)
(* choice of the step that receives the answer.                            *)
(***************************************************************************)
EXTENDS Naturals, Sequences, FiniteSets

CONSTANTS
  Servers,            \* server ids
  Paths,              \* spellings of remote paths, as a request carries them
  Dirs,               \* directories those spellings denote
  Dir,                \* [Paths -> Dirs]: posixpath.normpath of a spelling
  Artifacts,          \* artifact ids
  InitialPlacements,  \* the workspace's placement list at start-up
  MaxJobs,            \* bound: jobs ever created
  HistoryLimit,       \* settings.transfer_job_history
  MaxGlobal,          \* settings.max_transfers_global
  MaxPerServer        \* settings.max_transfers_per_server

Placement == [artifact: Artifacts, server: Servers, path: Paths]

ASSUME DirAssumption == Dir \in [Paths -> Dirs]
ASSUME LimitAssumption ==
  /\ MaxJobs \in Nat
  /\ HistoryLimit \in Nat \ {0}
  /\ MaxGlobal \in Nat \ {0}
  /\ MaxPerServer \in Nat \ {0}
ASSUME PlacementAssumption == InitialPlacements \in Seq(Placement)

Jobs == 1 .. MaxJobs
NoJob == 0

VARIABLES
  job,         \* parameters of the jobs created so far, in creation order
  state,       \* TransferJob.state, what the REST API shows
  active,      \* JobRegistry._active
  history,     \* JobRegistry._history, newest first
  locks,       \* JobRegistry._target_locks
  tasks,       \* JobRegistry._tasks
  pc,          \* where the worker of each job is suspended
  plan,        \* strategy the plan selected
  outcome,     \* how the copy ended, kept across the closing await
  cancelSet,   \* jobs whose cancel event is set (and not yet popped)
  inGlobal,    \* workers inside `async with self._global_slot`
  slots,       \* [Servers -> workers holding a transfer slot of the server]
  placements,  \* WorkspaceService.placements()
  shutdown     \* progress of TransferService.stop()

registry == <<state, active, history, locks>>
permits  == <<inGlobal, slots>>
vars == <<job, registry, tasks, pc, plan, outcome, cancelSet,
          permits, placements, shutdown>>

-----------------------------------------------------------------------------
(* States and types *)

Terminal    == {"completed", "failed", "cancelled"}
Cancellable == {"queued", "planning", "running", "verifying"}
JobState    == Terminal \cup Cancellable \cup {"absent"}

JobParams == [artifact: Artifacts, source: Servers, sourcePath: Paths,
              target: Servers, targetPath: Paths]

(* The await a worker is suspended in: *)
(*   queued      the global slot             planning   plan_transfer         *)
(*   preflight   the `test -e` probe         wantSource the source slot       *)
(*   wantTarget  the target slot             starting   probes and sessions   *)
(*   copying     the rsync race or the relay closing    session.close         *)
(*   verifying   quick_verify                killed     a pending CancelledError *)
PC == {"absent", "queued", "planning", "preflight", "wantSource",
       "wantTarget", "starting", "copying", "closing", "verifying",
       "killed", "done"}

Plan    == {"none", "relay", "rsync_native", "rsync_sgc"}
Outcome == {"none", "ok", "conflict", "error", "cancelled"}

Live(j) == pc[j] \notin {"absent", "done"}

(* Workers that may be writing below their target directory. *)
Writing(j) == pc[j] \in {"copying", "closing"}

InHistory(j) == \E i \in DOMAIN history : history[i] = j

find(j) == j \in active \/ InHistory(j)

(* _target_key: the normalised directory a job with parameters p writes. *)
target_key(p) == <<p.target, Dir[p.targetPath]>>

TargetKey(j) == target_key(job[j])

-----------------------------------------------------------------------------
(* JobRegistry *)

(* Mutant of Archived: the history is a list, not a bounded deque. *)
ArchivedUnbounded(j) == <<j>> \o history

(* A deque(maxlen = HistoryLimit): appendleft drops the oldest entry. *)
Archived(j) ==
  IF Len(history) < HistoryLimit
  THEN <<j>> \o history
  ELSE <<j>> \o SubSeq(history, 1, HistoryLimit - 1)

(* Mutant of ReleasedLocks: the holder is not compared. *)
ReleasedUnchecked(j) == [locks EXCEPT ![TargetKey(j)] = NoJob]

ReleasedLocks(j) ==
  IF locks[TargetKey(j)] = j
  THEN [locks EXCEPT ![TargetKey(j)] = NoJob]
  ELSE locks

(* Mutant of transition: a failed job is archived and stays active. *)
TransitionKeepsFailed(j, s) ==
  /\ state' = [state EXCEPT ![j] = s]
  /\ IF s \in Terminal
     THEN /\ locks' = ReleasedLocks(j)
          /\ active' = IF s = "failed" THEN active ELSE active \ {j}
          /\ history' = Archived(j)
     ELSE UNCHANGED <<active, history, locks>>

transition(j, s) ==
  /\ state' = [state EXCEPT ![j] = s]
  /\ IF s \in Terminal
     THEN /\ locks' = ReleasedLocks(j)
          /\ active' = active \ {j}
          /\ history' = Archived(j)
     ELSE UNCHANGED <<active, history, locks>>

(* The entries that are not terminal stay, in their order. *)
clear_history ==
  /\ \E n \in 0 .. Len(history) : \E pick \in [1 .. n -> DOMAIN history] :
       /\ \A a, b \in 1 .. n : a < b => pick[a] < pick[b]
       /\ \A i \in DOMAIN history :
            (\E a \in 1 .. n : pick[a] = i) <=> state[history[i]] \notin Terminal
       /\ history' = [a \in 1 .. n |-> history[pick[a]]]
  /\ UNCHANGED <<job, state, active, locks, tasks, pc, plan, outcome,
                 cancelSet, permits, placements, shutdown>>

-----------------------------------------------------------------------------
(* REST operations of TransferService *)

(* Mutant of CreateJob: the target lock is taken without looking at it. *)
CreateUnchecked(p) ==
  LET j == Len(job) + 1
  IN /\ shutdown = "up"
     /\ Len(job) < MaxJobs
     /\ p.source # p.target
     /\ job' = Append(job, p)
     /\ state' = [state EXCEPT ![j] = "queued"]
     /\ active' = active \cup {j}
     /\ locks' = [locks EXCEPT ![target_key(p)] = j]
     /\ tasks' = tasks \cup {j}
     /\ pc' = [pc EXCEPT ![j] = "queued"]
     /\ UNCHANGED <<history, plan, outcome, cancelSet, permits, placements,
                    shutdown>>

(* The part of create() that decides and registers, for parameters p. *)
CreateJob(p) ==
  LET j == Len(job) + 1
      key == target_key(p)
  IN /\ shutdown = "up"
     /\ Len(job) < MaxJobs
     /\ p.source # p.target
     /\ locks[key] = NoJob
     /\ job' = Append(job, p)
     /\ state' = [state EXCEPT ![j] = "queued"]
     /\ active' = active \cup {j}
     /\ locks' = [locks EXCEPT ![key] = j]
     /\ tasks' = tasks \cup {j}
     /\ pc' = [pc EXCEPT ![j] = "queued"]
     /\ UNCHANGED <<history, plan, outcome, cancelSet, permits, placements,
                    shutdown>>

create(i, target, targetPath) ==
  /\ i \in DOMAIN placements
  /\ CreateJob([artifact |-> placements[i].artifact,
                source |-> placements[i].server,
                sourcePath |-> placements[i].path,
                target |-> target, targetPath |-> targetPath])

cancel(j) ==
  /\ find(j)
  /\ state[j] \in Cancellable
  /\ transition(j, "cancelled")
  /\ cancelSet' = IF Live(j) THEN cancelSet \cup {j} ELSE cancelSet
  /\ UNCHANGED <<job, tasks, pc, plan, outcome, permits, placements,
                 shutdown>>

(* _find_placement_id: the first placement with the path, on any server. *)
IsFoundPlacement(i, j) ==
  /\ placements[i].path = job[j].sourcePath
  /\ \A h \in 1 .. i - 1 : placements[h].path # job[j].sourcePath

retry(j) ==
  /\ find(j)
  /\ state[j] \in Terminal
  /\ \E i \in DOMAIN placements :
       /\ IsFoundPlacement(i, j)
       /\ placements[i].artifact = job[j].artifact
       /\ create(i, job[j].target, job[j].targetPath)

(* stop(): cancel_all() walks the live view of _active while transition()  *)
(* pops from it.  With no active job it falls through: every event is set  *)
(* and every task cancelled.  Otherwise the loop raises RuntimeError right *)
(* after the first (oldest) job and stop() ends there.                     *)
stop ==
  /\ shutdown = "up"
  /\ \/ /\ active = {}
        /\ shutdown' = "cancelling"
        /\ cancelSet' = {j \in Jobs : Live(j)}
        /\ pc' = [j \in Jobs |-> IF j \in tasks /\ Live(j) THEN "killed"
                                 ELSE pc[j]]
        /\ UNCHANGED registry
     \/ /\ \E j \in active :
             /\ \A k \in active : j <= k
             /\ transition(j, "cancelled")
        /\ shutdown' = "aborted"
        /\ UNCHANGED <<cancelSet, pc>>
  /\ UNCHANGED <<job, tasks, plan, outcome, permits, placements>>

-----------------------------------------------------------------------------
(* The worker: _run_job around _plan_and_run *)

(* Leaving _run_job: the global slot is released, the event popped, and    *)
(* the worker's locals are gone.                                           *)
EndWorker(j) ==
  /\ pc' = [pc EXCEPT ![j] = "done"]
  /\ plan' = [plan EXCEPT ![j] = "none"]
  /\ outcome' = [outcome EXCEPT ![j] = "none"]
  /\ inGlobal' = inGlobal \ {j}
  /\ cancelSet' = cancelSet \ {j}

(* Mutant of ReleaseSlots: only the outer context manager exits. *)
ReleaseSourceSlot(j) == slots' = [slots EXCEPT ![job[j].source] = @ \ {j}]

ReleaseSlots(j) == slots' = [s \in Servers |-> slots[s] \ {j}]

(* `except Exception` in _run_job: fail the job unless it is cancelled. *)
FailUnlessCancelled(j) ==
  IF state[j] = "cancelled" THEN UNCHANGED registry ELSE transition(j, "failed")

(* _record_target_placement: at most one entry per (artifact, server, path). *)
RecordTargetPlacement(j) ==
  LET p == [artifact |-> job[j].artifact, server |-> job[j].target,
            path |-> job[j].targetPath]
  IN placements' = IF \E i \in DOMAIN placements : placements[i] = p
                   THEN placements ELSE Append(placements, p)

(* The global slot is granted.  The worker returns if the registry no      *)
(* longer knows the job; a server that left the registry raises here.      *)
BeginPlanning(j) ==
  /\ pc[j] = "queued"
  /\ Cardinality(inGlobal) < MaxGlobal
  /\ \/ /\ find(j)
        /\ transition(j, "planning")
        /\ pc' = [pc EXCEPT ![j] = "planning"]
        /\ inGlobal' = inGlobal \cup {j}
        /\ UNCHANGED <<plan, outcome, cancelSet>>
     \/ /\ find(j)
        /\ transition(j, "failed")
        /\ EndWorker(j)
     \/ /\ ~find(j)
        /\ UNCHANGED registry
        /\ EndWorker(j)
  /\ UNCHANGED <<job, tasks, slots, placements, shutdown>>

(* plan_transfer answered; no probe failure raises out of it. *)
FinishPlanning(j) ==
  /\ pc[j] = "planning"
  /\ \/ /\ ~find(j)
        /\ UNCHANGED registry
        /\ EndWorker(j)
     \/ /\ find(j)  \* strategy_unavailable
        /\ transition(j, "failed")
        /\ EndWorker(j)
     \/ /\ find(j)
        /\ \E p \in Plan \ {"none"}, next \in {"preflight", "wantSource"} :
             /\ plan' = [plan EXCEPT ![j] = p]
             /\ pc' = [pc EXCEPT ![j] = next]
        /\ UNCHANGED <<registry, outcome, inGlobal, cancelSet>>
  /\ UNCHANGED <<job, tasks, slots, placements, shutdown>>

(* _preflight_space, when the estimate says the target is too small. *)
PreflightSpace(j) ==
  /\ pc[j] = "preflight"
  /\ \/ /\ pc' = [pc EXCEPT ![j] = "wantSource"]
        /\ UNCHANGED <<registry, plan, outcome, inGlobal, cancelSet>>
     \/ /\ transition(j, "failed")  \* insufficient_space
        /\ EndWorker(j)
  /\ UNCHANGED <<job, tasks, slots, placements, shutdown>>

(* Mutants of HasFreeSlot: one permit too many, one too few. *)
HasSlotOrOneMore(s) == Cardinality(slots[s]) <= MaxPerServer
HasTwoFreeSlots(s) == Cardinality(slots[s]) + 1 < MaxPerServer

HasFreeSlot(s) == Cardinality(slots[s]) < MaxPerServer

AcquireSourceSlot(j) ==
  /\ pc[j] = "wantSource"
  /\ HasFreeSlot(job[j].source)
  /\ slots' = [slots EXCEPT ![job[j].source] = @ \cup {j}]
  /\ pc' = [pc EXCEPT ![j] = "wantTarget"]
  /\ UNCHANGED <<job, registry, tasks, plan, outcome, cancelSet,
                 inGlobal, placements, shutdown>>

(* Inside both slots.  Only the rsync path looks at a cancelled state; the *)
(* dedicated key may have been revoked since the plan (ConflictError).     *)
AcquireTargetSlot(j) ==
  /\ pc[j] = "wantTarget"
  /\ HasFreeSlot(job[j].target)
  /\ \/ /\ find(j)
        /\ plan[j] = "relay" \/ state[j] # "cancelled"
        /\ transition(j, "running")
        /\ slots' = [slots EXCEPT ![job[j].target] = @ \cup {j}]
        /\ pc' = [pc EXCEPT ![j] = "starting"]
        /\ UNCHANGED <<plan, outcome, inGlobal, cancelSet>>
     \/ /\ ~find(j) \/ (plan[j] # "relay" /\ state[j] = "cancelled")
        /\ UNCHANGED registry
        /\ ReleaseSlots(j)
        /\ EndWorker(j)
     \/ /\ find(j)
        /\ plan[j] = "rsync_sgc" /\ state[j] # "cancelled"
        /\ transition(j, "failed")
        /\ ReleaseSlots(j)
        /\ EndWorker(j)
  /\ UNCHANGED <<job, tasks, placements, shutdown>>

(* Opening the sessions; a connect failure is an ordinary exception. *)
StartCopy(j) ==
  /\ pc[j] = "starting"
  /\ \/ /\ pc' = [pc EXCEPT ![j] = "copying"]
        /\ UNCHANGED <<registry, plan, outcome, permits, cancelSet>>
     \/ /\ FailUnlessCancelled(j)
        /\ ReleaseSlots(j)
        /\ EndWorker(j)
  /\ UNCHANGED <<job, tasks, placements, shutdown>>

(* Mutant of EndCopy: the slots go back before the session is closed. *)
EndCopyReleasing(j) ==
  /\ pc[j] = "copying"
  /\ \E o \in {"ok", "error"} : outcome' = [outcome EXCEPT ![j] = o]
  /\ pc' = [pc EXCEPT ![j] = "closing"]
  /\ ReleaseSlots(j)
  /\ UNCHANGED <<job, registry, tasks, plan, cancelSet, inGlobal,
                 placements, shutdown>>

(* The copy ends.  rsync: exit 0, a nonzero exit (ConflictError), a lost   *)
(* connection, or the cancel event winning the race.  Relay: the end of    *)
(* the walk, an I/O error, or a checkpoint that sees state "cancelled" (a  *)
(* cancel after the last checkpoint is not seen).                          *)
EndCopy(j) ==
  /\ pc[j] = "copying"
  /\ \E o \in Outcome \ {"none"} :
       /\ o = "conflict" => plan[j] # "relay"
       /\ o = "cancelled" => IF plan[j] = "relay" THEN state[j] = "cancelled"
                             ELSE j \in cancelSet
       /\ outcome' = [outcome EXCEPT ![j] = o]
  /\ pc' = [pc EXCEPT ![j] = "closing"]
  /\ UNCHANGED <<job, registry, tasks, plan, cancelSet, permits,
                 placements, shutdown>>

(* The session is closed, both slots are released, and the outcome counts. *)
(* rsync needs no verification step: _verify returns without suspending.   *)
LeaveSlots(j) ==
  /\ pc[j] = "closing"
  /\ ReleaseSlots(j)
  /\ \/ /\ outcome[j] = "ok" /\ find(j) /\ plan[j] = "relay"
        /\ transition(j, "verifying")
        /\ pc' = [pc EXCEPT ![j] = "verifying"]
        /\ UNCHANGED <<plan, outcome, inGlobal, cancelSet, placements>>
     \/ /\ outcome[j] = "ok" /\ find(j) /\ plan[j] # "relay"
        /\ transition(j, "completed")
        /\ RecordTargetPlacement(j)
        /\ EndWorker(j)
     \/ /\ outcome[j] = "ok" /\ ~find(j)
        /\ UNCHANGED <<registry, placements>>
        /\ EndWorker(j)
     \/ /\ outcome[j] = "cancelled"
        /\ IF state[j] = "cancelled" THEN UNCHANGED registry
           ELSE transition(j, "cancelled")
        /\ UNCHANGED placements
        /\ EndWorker(j)
     \/ /\ outcome[j] = "conflict"
        /\ transition(j, "failed")
        /\ UNCHANGED placements
        /\ EndWorker(j)
     \/ /\ outcome[j] = "error"
        /\ FailUnlessCancelled(j)
        /\ UNCHANGED placements
        /\ EndWorker(j)
  /\ UNCHANGED <<job, tasks, shutdown>>

(* Mutant of Verify: the placement is recorded before the verdict. *)
VerifyRecordsFirst(j) ==
  /\ pc[j] = "verifying"
  /\ RecordTargetPlacement(j)
  /\ \E s \in {"completed", "failed"} : transition(j, s)
  /\ EndWorker(j)
  /\ UNCHANGED <<job, tasks, slots, shutdown>>

(* quick_verify answered; an exception inside it counts as a failure. *)
Verify(j) ==
  /\ pc[j] = "verifying"
  /\ \/ /\ transition(j, "completed")
        /\ RecordTargetPlacement(j)
     \/ /\ transition(j, "failed")
        /\ UNCHANGED placements
  /\ EndWorker(j)
  /\ UNCHANGED <<job, tasks, slots, shutdown>>

(* The CancelledError of stop() reaches the worker.  A task that never ran *)
(* (it holds no global slot) leaves without entering the handler.          *)
Unwind(j) ==
  /\ pc[j] = "killed"
  /\ \/ transition(j, "cancelled")
     \/ /\ j \notin inGlobal
        /\ UNCHANGED registry
  /\ ReleaseSlots(j)
  /\ EndWorker(j)
  /\ UNCHANGED <<job, tasks, placements, shutdown>>

WorkerStep(j) ==
  \/ BeginPlanning(j)
  \/ FinishPlanning(j)
  \/ PreflightSpace(j)
  \/ AcquireSourceSlot(j)
  \/ AcquireTargetSlot(j)
  \/ StartCopy(j)
  \/ EndCopy(j)
  \/ LeaveSlots(j)
  \/ Verify(j)
  \/ Unwind(j)

-----------------------------------------------------------------------------
Init ==
  /\ job = <<>>
  /\ state = [j \in Jobs |-> "absent"]
  /\ active = {}
  /\ history = <<>>
  /\ locks = [k \in Servers \X Dirs |-> NoJob]
  /\ tasks = {}
  /\ pc = [j \in Jobs |-> "absent"]
  /\ plan = [j \in Jobs |-> "none"]
  /\ outcome = [j \in Jobs |-> "none"]
  /\ cancelSet = {}
  /\ inGlobal = {}
  /\ slots = [s \in Servers |-> {}]
  /\ placements = InitialPlacements
  /\ shutdown = "up"

Next ==
  \/ \E i \in DOMAIN placements, s \in Servers, p \in Paths : create(i, s, p)
  \/ \E j \in Jobs : cancel(j) \/ retry(j) \/ WorkerStep(j)
  \/ clear_history
  \/ stop

(* Every ready task is scheduled by the event loop, every remote operation *)
(* answers or fails (connect, probe and rsync timeouts), and a semaphore   *)
(* wakes its waiters in order, so a worker that can step does step.        *)
Fairness == \A j \in Jobs : WF_vars(WorkerStep(j))

Spec == Init /\ [][Next]_vars

FairSpec == Spec /\ Fairness

-----------------------------------------------------------------------------
(* Invariants *)

(* Every variable keeps its type, and the history its limit. *)
TypeOK ==
  /\ job \in Seq(JobParams) /\ Len(job) <= MaxJobs
  /\ state \in [Jobs -> JobState]
  /\ active \subseteq Jobs
  /\ history \in Seq(Jobs) /\ Len(history) <= HistoryLimit
  /\ locks \in [Servers \X Dirs -> Jobs \cup {NoJob}]
  /\ tasks \subseteq Jobs
  /\ pc \in [Jobs -> PC]
  /\ plan \in [Jobs -> Plan]
  /\ outcome \in [Jobs -> Outcome]
  /\ cancelSet \subseteq Jobs
  /\ inGlobal \subseteq Jobs
  /\ slots \in [Servers -> SUBSET Jobs]
  /\ placements \in Seq(Placement)
  /\ shutdown \in {"up", "cancelling", "aborted"}

(* _target_locks and _active describe the same jobs: a target directory is *)
(* locked by an active job that writes there, and every active job holds   *)
(* the lock of its target (create and transition change both together).    *)
LocksMatchActive ==
  /\ \A k \in Servers \X Dirs :
       locks[k] # NoJob => locks[k] \in active /\ TargetKey(locks[k]) = k
  /\ \A j \in active : locks[TargetKey(j)] = j

(* Jobs are registered in order: the jobs created so far are those with a  *)
(* state and a worker.                                                     *)
Registered ==
  /\ \A j \in Jobs : /\ pc[j] = "absent" <=> j > Len(job)
                     /\ state[j] = "absent" <=> j > Len(job)
  /\ \A j \in active : j <= Len(job)

(* Which workers hold which permit: the source slot from "wantTarget" on,  *)
(* the target slot from "starting" on, both until the session is closed;   *)
(* never more workers than permits.                                        *)
HoldsSource(j) == pc[j] \in {"wantTarget", "starting", "copying", "closing"}
HoldsTarget(j) == pc[j] \in {"starting", "copying", "closing"}

PermitsMatchWorkers ==
  /\ \A j \in Jobs : HoldsSource(j) => j \in slots[job[j].source]
  /\ \A j \in Jobs : HoldsTarget(j) => j \in slots[job[j].target]
  /\ \A s \in Servers : \A j \in slots[s] : HoldsSource(j) \/ pc[j] = "killed"
  /\ \A j \in inGlobal : Live(j)
  /\ \A s \in Servers : Cardinality(slots[s]) <= MaxPerServer

(* One active job per target directory, however its path is spelled        *)
(* (state.py: "one active job per (target_server_id, normalized            *)
(* target_path)").                                                         *)
OneActiveJobPerTarget ==
  \A j, k \in active : TargetKey(j) = TargetKey(k) => j = k

(* A job leaves _active exactly when it becomes terminal: what is active   *)
(* can be cancelled, and its worker is alive or about to run.              *)
ActiveIsCancellable ==
  \A j \in active : state[j] \in Cancellable /\ Live(j)

(* Both ends of a copy count against max_transfers_per_server, from the    *)
(* first byte to the closed session, whatever path the copy ends on.       *)
CopiesPerServerBounded ==
  \A s \in Servers :
    Cardinality({j \in Jobs : /\ Writing(j)
                              /\ s \in {job[j].source, job[j].target}})
      <= MaxPerServer

(* A finished worker holds no permit: no path through _run_job leaks a     *)
(* global slot or a transfer slot.                                         *)
NoPermitLeak ==
  \A j \in Jobs : ~Live(j) =>
    j \notin inGlobal /\ \A s \in Servers : j \notin slots[s]

(* Two workers never write below the same target directory at the same     *)
(* time (local_relay.py: "partial/meta files are shared across retries and *)
(* would be corrupted by two concurrent writers").  cancel() releases the  *)
(* lock before the worker stops, so this rests on the target's slot.       *)
OneWriterPerTarget ==
  \A j, k \in Jobs :
    Writing(j) /\ Writing(k) /\ TargetKey(j) = TargetKey(k) => j = k

-----------------------------------------------------------------------------
(* The service as its clients may think of it *)

OrderOf(j) == <<TargetKey(j), [artifact |-> job[j].artifact, server |-> job[j].target,
                                path |-> job[j].targetPath]>>

PhaseOf(j) ==
  CASE pc[j] = "absent" -> "none"
    [] Writing(j) -> "writing"
    [] pc[j] = "verifying" -> "written"
    [] pc[j] = "killed" -> "leaving"
    [] pc[j] = "done" -> IF state[j] = "completed" THEN "succeeded" ELSE "gone"
    [] OTHER -> "pending"

Copy == INSTANCE CopyService WITH
  Targets <- Servers \X Dirs,
  Copies <- Placement,
  order <- [j \in Jobs |-> IF j <= Len(job) THEN OrderOf(j) ELSE <<>>],
  phase <- [j \in Jobs |-> PhaseOf(j)],
  recorded <- {placements[i] : i \in DOMAIN placements}

(* Registry, permits and workers implement CopyService: whatever is          *)
(* cancelled, retried, evicted from the history or cut off by stop(), a job  *)
(* writes its target alone, a placement is recorded by a job that wrote it   *)
(* and ends completed, and what an ended worker left is never changed.       *)
ImplementsCopyService == Copy!CSpec

-----------------------------------------------------------------------------
(* Liveness, under FairSpec *)

(* Every queued job's worker comes to an end, with all its permits. *)
EveryWorkerEnds == \A j \in Jobs : pc[j] = "queued" ~> pc[j] = "done"
=============================================================================
