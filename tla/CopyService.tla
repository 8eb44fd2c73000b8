---------------------------- MODULE CopyService ----------------------------
(* What the transfer service promises, without registry, permits, plans,     *)
(* probes, verification or sessions: an order is written to its target while *)
(* nobody else writes there, a copy is recorded only by an order that wrote  *)
(* it and succeeded, and an order that is over stays as it is.               *)
CONSTANTS Jobs,     \* order numbers
          Targets,  \* directories on servers
          Copies    \* what can be recorded

VARIABLES order,    \* <<target, copy>> of every order
          phase,    \* where it is
          recorded  \* the copies that are known

cvars == <<order, phase, recorded>>

NoOrder == <<>>
Orders == Targets \X Copies
Phases == {"none", "pending", "writing", "written", "leaving", "succeeded", "gone"}
Over == {"succeeded", "gone"}
Live == {j \in Jobs : phase[j] \notin Over \cup {"none"}}

Submit(j) ==
  /\ phase[j] = "none"
  /\ phase' = [phase EXCEPT ![j] = "pending"]
  /\ \E o \in Orders : order' = [order EXCEPT ![j] = o]
  /\ UNCHANGED recorded

StartWriting(j) ==
  /\ phase[j] = "pending"
  /\ \A k \in Jobs \ {j} : phase[k] = "writing" => order[k][1] # order[j][1]
  /\ phase' = [phase EXCEPT ![j] = "writing"]
  /\ UNCHANGED <<order, recorded>>

StopWriting(j) ==
  /\ phase[j] = "writing"
  /\ phase' = [phase EXCEPT ![j] = "written"]
  /\ UNCHANGED <<order, recorded>>

Succeed(j) ==
  /\ phase[j] \in {"writing", "written"}
  /\ phase' = [phase EXCEPT ![j] = "succeeded"]
  /\ recorded' = recorded \cup {order[j][2]}
  /\ UNCHANGED order

GiveUp(j) ==
  /\ j \in Live
  /\ phase' = [phase EXCEPT ![j] = "gone"]
  /\ UNCHANGED <<order, recorded>>

(* Shutting down reaches several orders at once. *)
Abort(jobs) ==
  /\ phase' = [j \in Jobs |-> IF j \in jobs THEN "leaving" ELSE phase[j]]
  /\ UNCHANGED <<order, recorded>>

CInit ==
  /\ order = [j \in Jobs |-> NoOrder]
  /\ phase = [j \in Jobs |-> "none"]
  /\ recorded \subseteq Copies

CNext ==
  \/ \E j \in Jobs :
       \/ Submit(j)
       \/ StartWriting(j) \/ StopWriting(j) \/ Succeed(j) \/ GiveUp(j)
  \/ \E jobs \in SUBSET Live : Abort(jobs)

CSpec == CInit /\ [][CNext]_cvars
=============================================================================
