----------------------------- MODULE MCAcmeOrder -----------------------------
(***************************************************************************)
(* The instance of AcmeOrder that TLC checks; domains are alike.           *)
(***************************************************************************)
EXTENDS AcmeOrder, TLC

DomainSymmetry == Permutations(Domains)
=============================================================================
