----------------------------- MODULE AlbRenewal -----------------------------
(***************************************************************************)
(* The certificates of one ALB route while renewal operations run on it.   *)
(*                                                                         *)
(* Three places have to agree: the rows of the certificates table that are *)
(* linked to the route, the server certificates in IAM, and the            *)
(* certificates attached to the ALB's listener.  To the tasks of           *)
(* RenewalTasks this module adds those of alb.py and                       *)
(* backport_all_manual_certs, which imports at six what it finds on the    *)
(* listener.                                                               *)
(***************************************************************************)
EXTENDS RenewalTasks

CONSTANT RunBackports   \* the RUN_BACKPORTS setting

(* What get_domain_renewal_pipeline chains.                                *)
AlbPipeline ==
  <<"issue", "upload_certificate", "associate_certificate",
    "remove_old_certificate", "wait_for_cert_update", "delete_old_certificate",
    "mark_complete">>

ASSUME AlbAssumption == Pipeline = AlbPipeline /\ RunBackports \in BOOLEAN

VARIABLES
  listener,    \* the certificates attached to the listener
  import,      \* the certificate that a running backport_cert has picked
  sixAhead     \* has backport_all_manual_certs yet to run today?

albVars == <<listener, import, sixAhead>>
vars == <<renewalVars, albVars>>

(* Before we look, the newest row's certificate serves the route, and what *)
(* came before it has been deleted; a certificate that was put on the      *)
(* listener by hand may have taken its place there.                        *)
Init ==
  /\ RenewalInit
  /\ listener \in {iam, {OldCert(m) : m \in Manual}} \ {{}}
  /\ import = NoCert
  /\ sixAhead = TRUE

-----------------------------------------------------------------------------
(* The tasks of alb.py                                                     *)

AssociateReplaces(op) ==
  /\ AtStage(op, "associate_certificate", "start")
  /\ cert[op] \in iam
  /\ listener' = {cert[op]}
  /\ BodyEnds(op)
  /\ UNCHANGED <<iam, rowVars, timeVars, import, sixAhead>>

AssociateNothing(op) ==
  /\ AtStage(op, "associate_certificate", "start")
  /\ BodyEnds(op)
  /\ UNCHANGED <<iam, rowVars, timeVars, albVars>>

(* alb.associate_certificate; the ALB takes only certificates that exist.  *)
AssociateCertificate(op) ==
  /\ AtStage(op, "associate_certificate", "start")
  /\ cert[op] \in iam
  /\ listener' = listener \cup {cert[op]}
  /\ BodyEnds(op)
  /\ UNCHANGED <<iam, rowVars, timeVars, import, sixAhead>>

ReadNothingIfRemoved(op) ==
  /\ AtStage(op, "remove_old_certificate", "start")
  /\ \E r \in First :
       \/ /\ Arn(r) \in listener
          /\ BodyGoesOn(op, "read", Arn(r))
       \/ /\ Arn(r) \notin listener
          /\ Returns(op)
          /\ UNCHANGED opState
  /\ UNCHANGED <<rowVars, iam, timeVars, albVars>>

(* alb.remove_old_certificate reads route.certificates[0]; a row without   *)
(* arn ends the task there and then.                                       *)
ReadOldCertificate(op) ==
  /\ AtStage(op, "remove_old_certificate", "start")
  /\ \E r \in First :
       \/ /\ Arn(r) # NoCert
          /\ BodyGoesOn(op, "read", Arn(r))
       \/ /\ Arn(r) = NoCert
          /\ Returns(op)
          /\ UNCHANGED opState
  /\ UNCHANGED <<rowVars, iam, timeVars, albVars>>

RemoveUnchecked(op) ==
  /\ AtStage(op, "remove_old_certificate", "read")
  /\ listener' = listener \ {seen[op]}
  /\ BodyGoesOn(op, "called", seen[op])
  /\ UNCHANGED <<iam, rowVars, timeVars, import, sixAhead>>

(* A retry that finds the row it has linked itself leaves the listener     *)
(* alone.                                                                  *)
RemoveOldCertificate(op) ==
  /\ AtStage(op, "remove_old_certificate", "read")
  /\ listener' = IF seen[op] # Arn(op) THEN listener \ {seen[op]} ELSE listener
  /\ BodyGoesOn(op, "called", seen[op])
  /\ UNCHANGED <<iam, rowVars, timeVars, import, sixAhead>>

LinkCertificate(op) ==
  /\ AtStage(op, "remove_old_certificate", "called")
  /\ linked' = linked \cup {op}
  /\ BodyEnds(op)
  /\ UNCHANGED <<cert, expiry, lastExpiry, iam, timeVars, albVars>>

WaitForCertUpdate(op) ==
  /\ AtStage(op, "wait_for_cert_update", "start")
  /\ Returns(op)
  /\ UNCHANGED <<opState, rowVars, iam, timeVars, albVars>>

AlbStep(op) ==
  \/ AssociateCertificate(op)
  \/ ReadOldCertificate(op) \/ RemoveOldCertificate(op) \/ LinkCertificate(op)
  \/ WaitForCertUpdate(op)

-----------------------------------------------------------------------------
(* The backport                                                            *)

BackportUnchecked ==
  /\ RunBackports
  /\ sixAhead
  /\ sixAhead' = FALSE
  /\ import' \in listener \cap iam
  /\ UNCHANGED <<renewalVars, listener>>

(* backport_all_manual_certs at six: backport_cert looks for a certificate *)
(* on the listener that no row of the route has.  It runs once a day and   *)
(* is not retried: a route has one backport_cert on its way at most.       *)
BackportReads ==
  /\ RunBackports
  /\ sixAhead
  /\ sixAhead' = FALSE
  /\ \E c \in listener \cap iam :
       /\ \A r \in linked : Arn(r) # c
       /\ import' = c
  /\ UNCHANGED <<renewalVars, listener>>

BackportSaves ==
  /\ import # NoCert
  /\ \E i \in Imports \ linked :
       /\ linked' = linked \cup {i}
       /\ cert' = [cert EXCEPT ![i] = import]
  /\ import' = NoCert
  /\ UNCHANGED <<opState, done, taskVars, expiry, lastExpiry, iam, timeVars, listener,
                 sixAhead>>

Next ==
  \/ \E op \in Ops :
       \/ AlbStep(op)
       \/ CommonStep(op, listener) /\ UNCHANGED albVars
  \/ NewDay /\ sixAhead' = TRUE /\ UNCHANGED <<listener, import>>
  \/ ExpiryNears /\ UNCHANGED albVars
  \/ BackportReads \/ BackportSaves

Spec == Init /\ [][Next]_vars

-----------------------------------------------------------------------------
(* Properties *)

TypeOK ==
  /\ RenewalTypeOK
  /\ listener \subseteq Cert
  /\ import \in Cert \cup {NoCert}
  /\ sixAhead \in BOOLEAN

(* The route never stops being served: whatever raises, is retried or is   *)
(* lost in associate_certificate, remove_old_certificate and               *)
(* delete_old_certificate, some certificate that exists is attached to the *)
(* listener.                                                               *)
Served == listener \cap iam # {}

(* delete_old_certificate never deletes a certificate that the listener    *)
(* still refers to, even where IAM lets it.                                *)
NoDangling == listener \subseteq iam

(* delete_old_certificate always finds a certificates[1]: the operation's  *)
(* own row has been linked next to the old one by then, whichever run of   *)
(* remove_old_certificate was lost, raised or was repeated half done.      *)
(* Otherwise it raises on every retry, and the operation fails.            *)
PreviousExists ==
  \A op \in Ops : AtStage(op, "delete_old_certificate", "start") => Second # {}

(* No two rows of the route stand for one certificate: backport_cert skips *)
(* what "we already know about".                                           *)
NoDuplicateRows == \A r, s \in linked : cert[r] = cert[s] => r = s

(* The backport does not import a certificate twice.                       *)
ImportedOnce ==
  \A i, j \in linked \cap Imports : cert[i] = cert[j] => i = j

(* When mark_complete closes an operation, its certificate is linked to    *)
(* the route, attached to the listener and in IAM: no early return or      *)
(* retry of the tasks before it has skipped a part.  Unless operations of  *)
(* the route overlap.                                                      *)
SuccessRenews ==
  [][Alone => \A op \in Ops : Succeeds(op) =>
       op \in linked /\ cert[op] \in listener \cap iam]_vars

(* When mark_complete closes an operation, the certificate that served the *)
(* route before is neither attached nor in IAM any more: certificates[0]   *)
(* of remove_old_certificate and certificates[1] of delete_old_certificate *)
(* are the same row, unless operations of the route overlap.               *)
SuccessRetires ==
  [][Alone => \A op \in Ops : Succeeds(op) =>
       \A r \in Newest(linked \ {op}) : cert[r] \notin listener \cup iam]_vars

(* When mark_complete closes an operation, the listener has a certificate  *)
(* that is not due for renewal, even if it is that of another operation    *)
(* which overlapped with this one.                                         *)
SuccessServesFresh ==
  [][\A op \in Ops : Succeeds(op) =>
       \E c \in listener \cap iam : expiry[c.row] > horizon]_vars
=============================================================================
