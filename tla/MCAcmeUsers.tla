---------------------------- MODULE MCAcmeUsers -----------------------------
(***************************************************************************)
(* The instance of AcmeUsers that TLC checks.                              *)
(***************************************************************************)
EXTENDS AcmeUsers, TLC

UserSymmetry == Permutations(Routes) \cup Permutations(Accounts)
=============================================================================
