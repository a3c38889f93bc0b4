---------------------------- MODULE MCCdnRenewal ----------------------------
(***************************************************************************)
(* The instance of CdnRenewal that TLC checks.                             *)
(***************************************************************************)
EXTENDS CdnRenewal, TLC

CONSTANT l1

OneRow == [o \in {l1} |-> 1]

(* One operation of the route at a time, while IAM deletes whatever it is  *)
(* told to; and operations that overlap, while IAM does not.               *)
AloneOrOverlapping ==
  {[maxLive |-> 1, lostAnswers |-> TRUE, deletesInUse |-> TRUE],
   [maxLive |-> 2, lostAnswers |-> TRUE, deletesInUse |-> FALSE]}

OpSymmetry == Permutations(Ops)
=============================================================================
