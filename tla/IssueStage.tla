----------------------------- MODULE IssueStage -----------------------------
(***************************************************************************)
(* What the stage "issue" of RenewalTasks promises, whatever happens on    *)
(* the way: the row gets at most one certificate, it is for the private    *)
(* key of the row, the key stays what it is from then on, and the stage    *)
(* ends only when the certificate is stored.  AcmeOrder implements this.   *)
(***************************************************************************)
CONSTANTS
  Keys,  \* the private keys that are ever made for the row
  None   \* no key, no certificate

VARIABLES
  state,       \* "running", "finished", "failed" or "lost"
  key,         \* the private key in the row
  certificate, \* the key that the CA has issued a certificate for
  stored       \* the certificate in the row: the key it is for

stageVars == <<state, key, certificate, stored>>

Init ==
  /\ state = "running"
  /\ key = None /\ certificate = None /\ stored = None

(* A commit may also be the last effect of a task that is given up.        *)
Goes == state = "running" /\ state' \in {"running", "failed"}

MakeKey ==
  /\ Goes
  /\ certificate = None
  /\ key' \in Keys
  /\ UNCHANGED <<certificate, stored>>

Issue ==
  /\ state = "running" /\ state' = state
  /\ key # None /\ certificate = None
  /\ certificate' = key
  /\ UNCHANGED <<key, stored>>

Store ==
  /\ state = "running" /\ state' \in {"running", "finished", "failed"}
  /\ certificate # None
  /\ stored' = certificate
  /\ UNCHANGED <<key, certificate>>

Finish ==
  /\ state = "running" /\ stored # None
  /\ state' = "finished"
  /\ UNCHANGED <<key, certificate, stored>>

GiveUp ==
  /\ state = "running" /\ state' \in {"failed", "lost"}
  /\ UNCHANGED <<key, certificate, stored>>

Next == MakeKey \/ Issue \/ Store \/ Finish \/ GiveUp

Spec == Init /\ [][Next]_stageVars
=============================================================================
