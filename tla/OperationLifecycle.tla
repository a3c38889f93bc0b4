------------------------- MODULE OperationLifecycle -------------------------
(***************************************************************************)
(* What the renewer promises about one renewal operation, whatever runs    *)
(* its pipeline: the stages of an operation finish one after the other, it *)
(* succeeds only at the last stage, and once it has failed nothing of it   *)
(* happens any more.  RenewalQueue and AlbRenewal implement it.            *)
(***************************************************************************)
EXTENDS Naturals

CONSTANTS
  Ops,        \* the ids of the operations that are ever created
  NumStages   \* how many tasks a renewal pipeline chains

VARIABLES
  opState,    \* OperationState of each operation, "none" before its row exists
  done        \* how many stages of its pipeline have finished

lifecycleVars == <<opState, done>>

(* "none" stands for no row; the rest are the values of OperationState.    *)
States == {"none", "in progress", "succeeded", "failed"}

Init ==
  /\ opState = [op \in Ops |-> "none"]
  /\ done = [op \in Ops |-> 0]

Create(op) ==
  /\ opState[op] = "none"
  /\ opState' = [opState EXCEPT ![op] = "in progress"]
  /\ UNCHANGED done

FinishStage(op) ==
  /\ opState[op] = "in progress"
  /\ done[op] + 1 < NumStages
  /\ done' = [done EXCEPT ![op] = @ + 1]
  /\ UNCHANGED opState

(* The row says "succeeded" as soon as the last task has committed; the    *)
(* task itself may still be reported as failed and run again.              *)
Succeed(op) ==
  /\ opState[op] \in {"in progress", "succeeded"}
  /\ done[op] + 1 = NumStages
  /\ opState' = [opState EXCEPT ![op] = "succeeded"]
  /\ \E d \in {done[op], NumStages} : done' = [done EXCEPT ![op] = d]

(* An operation whose last task committed but never returned can fail too. *)
Fail(op) ==
  /\ opState[op] \in {"in progress", "succeeded"}
  /\ done[op] < NumStages
  /\ opState' = [opState EXCEPT ![op] = "failed"]
  /\ UNCHANGED done

Next ==
  \E op \in Ops : Create(op) \/ FinishStage(op) \/ Succeed(op) \/ Fail(op)

Spec == Init /\ [][Next]_lifecycleVars
=============================================================================
