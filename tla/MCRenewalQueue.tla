--------------------------- MODULE MCRenewalQueue ---------------------------
(***************************************************************************)
(* The instance of RenewalQueue that TLC checks: a pipeline of a task that *)
(* is retried, one that is not (the wait) and mark_complete.               *)
(***************************************************************************)
EXTENDS RenewalQueue, TLC

MCRetriesOf == <<1, 0, 1>>

WorkerSymmetry == Permutations(Workers)
=============================================================================
