---------------------------- MODULE MCAlbRenewal ----------------------------
(***************************************************************************)
(* Instances of AlbRenewal that TLC checks.                                *)
(***************************************************************************)
EXTENDS AlbRenewal, TLC

CONSTANTS l1, l2, m1

(* One current certificate; a current and a previous one; a current one    *)
(* and one that was put on the listener by hand.                           *)
OneRow == [o \in {l1} |-> 1]
TwoRows == [o \in {l1, l2} |-> IF o = l1 THEN 1 ELSE 2]
ManualAfter == [o \in {l1, m1} |-> IF o = l1 THEN 1 ELSE 2]

(* One operation of the route at a time, while IAM deletes whatever it is  *)
(* told to, with and without lost answers; operations that overlap.        *)
LosingAnswers == [maxLive |-> 1, lostAnswers |-> TRUE, deletesInUse |-> TRUE]
OneByOne == [maxLive |-> 1, lostAnswers |-> FALSE, deletesInUse |-> FALSE]
Overlapping == [maxLive |-> 2, lostAnswers |-> FALSE, deletesInUse |-> FALSE]
OverlappingAndLosing ==
  [maxLive |-> 2, lostAnswers |-> TRUE, deletesInUse |-> FALSE]

AloneOrOverlapping == {LosingAnswers, Overlapping}
OpSymmetry == Permutations(Ops)
OnlyOneByOne == {OneByOne}
OnlyOverlappingAndLosing == {OverlappingAndLosing}
=============================================================================
