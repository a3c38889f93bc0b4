--------------------------- MODULE MCSchemaUpgrade ---------------------------
(***************************************************************************)
(* The instance of SchemaUpgrade that TLC checks: a new installation, and  *)
(* builds before and after the last two revisions, two of them at once.    *)
(***************************************************************************)
EXTENDS SchemaUpgrade, TLC

BuildSymmetry == Permutations(Builds) \cup Permutations(Downgrades)
=============================================================================
