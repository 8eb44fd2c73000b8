--------------------------- MODULE TransferCenter ---------------------------
(* The browser's view of the transfers: the transfer store                   *)
(* (frontend/src/store/transferStore.ts) with its one polling timer, the     *)
(* REST client it calls (services/transfersApi.ts), and the pages that mount *)
(* it (TransfersPage with its job rows, ProjectDetail). Requests are served  *)
(* and answered in any order, and an answer may be lost after the backend    *)
(* has acted. The backend is its job and batch listings (transfer/state.py,  *)
(* transfer/batch.py); what a job does while it is active is the subject of  *)
(* TransferJobs.                                                             *)
EXTENDS Integers, Bags, FiniteSetsExt

CONSTANTS MaxJobs,      \* bound: jobs ever created
          MaxListings,  \* bound: listings in flight
          MaxFailures   \* bound: requests that fail

ASSUME CenterAssumption == {MaxJobs, MaxListings, MaxFailures} \subseteq Nat

VARIABLES
  server,    \* the backend's jobs
  batch,     \* the backend's one batch: its jobs, and whether its view is frozen
  requests,  \* bag of requests in flight
  failures,  \* requests that have failed
  page,      \* the page that is mounted
  jobs, loading, error,        \* the store: what listJobs said last
  batches, batchesLoading,     \* the store: what listBatches said last
  timer      \* the 1 Hz interval is armed

backend == <<server, batch>>
list == <<jobs, loading, error>>
groups == <<batches, batchesLoading>>
centerVars == <<backend, requests, failures, page, list, groups, timer>>

Jobs == 1 .. MaxJobs
Pages == {"transfers", "project", "other"}

-----------------------------------------------------------------------------
(* Job and batch states. "queued" stands for every active state and         *)
(* "completed" for every terminal one; a job is absent before it is created *)
(* and again after the history dropped it.                                  *)

STATES == {"queued", "completed"}
transferState(value) == IF value \in STATES THEN value ELSE "queued"
isActiveTransferState(state) == state = "queued"
isRetryableState(state) == state = "completed"
BATCH_STATES == {"queued", "completed"}
batchState(value) == IF value \in BATCH_STATES THEN value ELSE "queued"
isActiveBatchState(state) == state = "queued"

Unlisted == {"absent", "gone"}

(* A listing without the jobs that are not there; unknown states are queued. *)
normalizeTransferJob(raw) ==
  [j \in Jobs |-> IF raw[j] \in Unlisted THEN "absent" ELSE transferState(raw[j])]

NoBatch == [jobs |-> {}, frozen |-> FALSE]

(* A job the history dropped counts as queued. *)
AllTerminal(b) == \A j \in b.jobs : server[j] = "completed"
BatchView(b) ==
  IF b.jobs = {} THEN "absent"
  ELSE IF b.frozen \/ AllTerminal(b) THEN "completed" ELSE "queued"
normalizeTransferBatch(raw) == IF raw = "absent" THEN raw ELSE batchState(raw)

-----------------------------------------------------------------------------
(* Requests, and what the backend answered the ones it has served. *)

Request(op, job) == [op |-> op, job |-> job, served |-> FALSE, answer |-> <<>>]
With(rs, bag) == bag (+) SetToBag(rs)
Without(r, bag) == bag (-) SetToBag({r})

Listings == {"listJobs", "listBatches"}
Room(n) ==
  MapThenSumSet(LAMBDA r : IF r.op \in Listings THEN requests[r] ELSE 0, BagToSet(requests)) + n
    <= MaxListings

Jobs1 == Request("listJobs", 0)
Batches1 == Request("listBatches", 0)

-----------------------------------------------------------------------------
(* Polling *)

Active(js, bs) ==
  \/ \E j \in Jobs : isActiveTransferState(js[j])
  \/ isActiveBatchState(bs)

(* Idempotent: armed while something listed is active, cleared otherwise. *)
syncPolling(js, bs) == timer' = Active(js, bs)
stopPolling == timer' = FALSE

(* Mutant of tick: only the batches are refreshed. *)
TickBatches ==
  /\ timer /\ ~loading /\ ~batchesLoading /\ Room(1)
  /\ requests' = With({Batches1}, requests)
  /\ batchesLoading' = TRUE
  /\ UNCHANGED <<backend, failures, page, list, batches, timer>>

(* A tick is skipped while a refresh is on its way. *)
tick ==
  /\ timer /\ ~loading /\ ~batchesLoading /\ Room(2)
  /\ requests' = With({Jobs1, Batches1}, requests)
  /\ loading' = TRUE /\ batchesLoading' = TRUE
  /\ UNCHANGED <<backend, failures, page, jobs, error, batches, timer>>

(* loadJobs by hand: the retry button of the error panel. *)
loadJobs ==
  /\ page = "transfers" /\ error /\ Room(1)
  /\ requests' = With({Jobs1}, requests)
  /\ loading' = TRUE
  /\ UNCHANGED <<backend, failures, page, jobs, error, groups, timer>>

-----------------------------------------------------------------------------
(* Pages. Leaving a page runs its cleanup before the next one's effects.    *)

LeavePage == IF page = "other" THEN timer ELSE FALSE

OpenTransfers ==
  /\ page # "transfers" /\ Room(2)
  /\ page' = "transfers"
  /\ requests' = With({Jobs1, Batches1}, requests)
  /\ loading' = TRUE /\ batchesLoading' = TRUE
  /\ timer' = LeavePage
  /\ UNCHANGED <<backend, failures, jobs, error, batches>>

(* A project whose batch is listed as active keeps the poller armed. *)
OpenProject ==
  /\ page # "project" /\ Room(1)
  /\ page' = "project"
  /\ requests' = With({Batches1}, requests)
  /\ batchesLoading' = TRUE
  /\ IF isActiveBatchState(batches) THEN syncPolling(jobs, batches) ELSE timer' = LeavePage
  /\ UNCHANGED <<backend, failures, list, batches>>

LeaveForOther ==
  /\ page # "other"
  /\ page' = "other"
  /\ stopPolling
  /\ UNCHANGED <<backend, requests, failures, list, groups>>

-----------------------------------------------------------------------------
(* What the user asks for. The rows are rendered when there is no error.    *)

(* bound: one change in flight *)
Send(op, job) ==
  /\ \A r \in BagToSet(requests) : r.op \in Listings
  /\ requests' = With({Request(op, job)}, requests)
  /\ UNCHANGED <<backend, failures, page, list, groups, timer>>

RowShown(j) == page = "transfers" /\ ~error /\ jobs[j] # "absent"

createTransfer == page = "transfers" /\ Send("create", 0)
cancelJob(j) == RowShown(j) /\ isActiveTransferState(jobs[j]) /\ Send("cancel", j)
retryJob(j) == RowShown(j) /\ isRetryableState(jobs[j]) /\ Send("retry", j)

(* The button is there when a terminal job is shown; the confirmation is     *)
(* disabled while a clear is on its way.                                     *)
clearHistory ==
  /\ page = "transfers"
  /\ \E j \in Jobs : jobs[j] = "completed"
  /\ Send("clear", 0)

(* bound: one batch *)
syncProject == page = "project" /\ batch = NoBatch /\ Send("sync", 0)

-----------------------------------------------------------------------------
(* The backend serves a request. A refused request changes nothing.         *)

FreeJob == {j \in Jobs : server[j] = "absent"}
NextJob == CHOOSE j \in FreeJob : \A k \in FreeJob : j <= k
AddJob == [server EXCEPT ![NextJob] = "queued"]

Answer(r, a) == requests' = With({[r EXCEPT !.served = TRUE, !.answer = a]}, Without(r, requests))

ServeList(r) ==
  \/ r.op = "listJobs" /\ Answer(r, normalizeTransferJob(server)) /\ UNCHANGED backend
  \/ /\ r.op = "listBatches" /\ Answer(r, normalizeTransferBatch(BatchView(batch)))
     /\ batch' = [batch EXCEPT !.frozen = batch.jobs # {} /\ (@ \/ AllTerminal(batch))]
     /\ UNCHANGED server

ServeChange(r) ==
  \/ /\ r.op \in {"create", "retry"}
     /\ r.op = "retry" => server[r.job] = "completed"
     /\ FreeJob # {} /\ server' = AddJob /\ UNCHANGED batch
  \/ /\ r.op = "cancel" /\ server[r.job] = "queued"
     /\ server' = [server EXCEPT ![r.job] = "completed"] /\ UNCHANGED batch
  \/ /\ r.op = "clear"
     /\ server' = [j \in Jobs |-> IF server[j] = "completed" THEN "gone" ELSE server[j]]
     /\ UNCHANGED batch
  \/ /\ r.op = "sync" /\ batch = NoBatch /\ FreeJob # {}
     /\ batch' = [jobs |-> {NextJob}, frozen |-> FALSE] /\ server' = AddJob

Serve(r) ==
  /\ ~r.served
  /\ \/ ServeList(r)
     \/ ServeChange(r) /\ Answer(r, <<>>)
  /\ UNCHANGED <<failures, page, list, groups, timer>>

JobEnds(j) ==
  /\ server[j] = "queued"
  /\ server' = [server EXCEPT ![j] = "completed"]
  /\ UNCHANGED <<batch, requests, failures, page, list, groups, timer>>

-----------------------------------------------------------------------------
(* The browser gets an answer. *)

JobsArrive(r) ==
  /\ r.op = "listJobs" /\ r.served
  /\ jobs' = r.answer /\ error' = FALSE /\ loading' = FALSE
  /\ syncPolling(r.answer, batches)
  /\ requests' = Without(r, requests)
  /\ UNCHANGED <<backend, failures, page, groups>>

(* Mutant of BatchesArrive: the timer is left alone. *)
BatchesArriveUnsynced(r) ==
  /\ r.op = "listBatches" /\ r.served
  /\ batches' = r.answer /\ batchesLoading' = FALSE
  /\ requests' = Without(r, requests)
  /\ UNCHANGED <<backend, failures, page, list, timer>>

BatchesArrive(r) ==
  /\ r.op = "listBatches" /\ r.served
  /\ batches' = r.answer /\ batchesLoading' = FALSE
  /\ syncPolling(jobs, r.answer)
  /\ requests' = Without(r, requests)
  /\ UNCHANGED <<backend, failures, page, list>>

(* An accepted change is followed by a listing, on whatever page. *)
ChangeArrives(r) ==
  /\ r.served /\ r.op \notin Listings /\ Room(1)
  /\ IF r.op = "sync"
     THEN requests' = With({Batches1}, Without(r, requests)) /\ batchesLoading' = TRUE
          /\ UNCHANGED loading
     ELSE requests' = With({Jobs1}, Without(r, requests)) /\ loading' = TRUE
          /\ UNCHANGED batchesLoading
  /\ UNCHANGED <<backend, failures, page, jobs, error, batches, timer>>

(* Mutant of Fails: a failed load leaves its flag up. *)
FailsLoading(r) ==
  /\ failures < MaxFailures
  /\ failures' = failures + 1
  /\ requests' = Without(r, requests)
  /\ error' = (error \/ r.op = "listJobs")
  /\ UNCHANGED <<backend, page, jobs, loading, groups, timer>>

(* A refusal, a lost request or a lost answer: the store keeps its lists    *)
(* and its timer. A change that failed is followed by no listing.           *)
Fails(r) ==
  /\ failures < MaxFailures
  /\ failures' = failures + 1
  /\ requests' = Without(r, requests)
  /\ IF r.op = "listJobs" THEN error' = TRUE /\ loading' = FALSE ELSE UNCHANGED <<error, loading>>
  /\ batchesLoading' = IF r.op = "listBatches" THEN FALSE ELSE batchesLoading
  /\ UNCHANGED <<backend, page, jobs, batches, timer>>

(* The backend refuses what it cannot do; the caller only sees an error. *)
Refused(r) ==
  /\ ~r.served /\ r.op \notin Listings
  /\ \/ r.op \in {"create", "retry", "sync"}   \* a locked target, a bad path
     \/ r.op = "cancel" /\ server[r.job] # "queued"
  /\ requests' = Without(r, requests)
  /\ UNCHANGED <<backend, failures, page, list, groups, timer>>

-----------------------------------------------------------------------------
CenterInit ==
  /\ server = [j \in Jobs |-> "absent"] /\ batch = NoBatch
  /\ requests = EmptyBag /\ failures = 0 /\ page = "other"
  /\ jobs = [j \in Jobs |-> "absent"] /\ loading = FALSE /\ error = FALSE
  /\ batches = "absent" /\ batchesLoading = FALSE
  /\ timer = FALSE

Visit == OpenTransfers \/ OpenProject \/ LeaveForOther
UserAct ==
  \/ loadJobs \/ createTransfer \/ clearHistory \/ syncProject
  \/ \E j \in Jobs : cancelJob(j) \/ retryJob(j)
Arrive(r) == JobsArrive(r) \/ BatchesArrive(r) \/ ChangeArrives(r)

CenterNext ==
  \/ tick \/ Visit \/ UserAct
  \/ \E j \in Jobs : JobEnds(j)
  \/ \E r \in BagToSet(requests) : Serve(r) \/ Arrive(r) \/ Fails(r) \/ Refused(r)

CenterSpec == CenterInit /\ [][CenterNext]_centerVars

(* The listings are served and answered, the interval ticks and a job ends. *)
Served(op) == \E r \in BagToSet(requests) : r.op = op /\ Serve(r)
Arrived(op) == \E r \in BagToSet(requests) : r.op = op /\ Arrive(r)

Fairness ==
  /\ WF_centerVars(tick)
  /\ \A op \in Listings : WF_centerVars(Served(op)) /\ WF_centerVars(Arrived(op))
  /\ \A j \in Jobs : WF_centerVars(JobEnds(j))

FairSpec == CenterSpec /\ Fairness

-----------------------------------------------------------------------------
(* Properties *)

InFlight(op) == \E r \in BagToSet(requests) : r.op = op

(* A loading flag is up only while an answer that clears it is on its way,  *)
(* however many loads overlap, fail or outlive their page: otherwise tick   *)
(* would be skipped for good and the page would show its skeleton for ever. *)
BusyIsInFlight ==
  /\ loading => InFlight("listJobs")
  /\ batchesLoading => InFlight("listBatches")

(* The polling law of transferStore.ts against the lists it shows: the      *)
(* timer runs only while something listed is active; a project page that    *)
(* shows an active batch always polls, and the transfers page that shows    *)
(* something active polls, or is loading its first list, or says it failed. *)
PollingFollowsList ==
  /\ timer => Active(jobs, batches)
  /\ page = "project" /\ isActiveBatchState(batches) => timer
  /\ page = "transfers" /\ Active(jobs, batches) => timer \/ InFlight("listJobs") \/ error

(* A job that the transfers page shows as active is shown as ended (or      *)
(* gone) in the end, unless the user leaves or the page says that its list  *)
(* could not be loaded: stale listings, failed ticks and overlapping loads  *)
(* never leave a row spinning for good.                                     *)
ShownActiveSettles ==
  \A j \in Jobs :
    (page = "transfers" /\ isActiveTransferState(jobs[j]))
      ~> (page # "transfers" \/ error \/ ~isActiveTransferState(jobs[j]))
=============================================================================
