----------------------------- MODULE CdnRenewal -----------------------------
(***************************************************************************)
(* The certificates of one CDN route while renewal operations run on it.   *)
(*                                                                         *)
(* The rows of the route and the server certificates in IAM have to agree  *)
(* with the config of a CloudFront distribution, which names one           *)
(* certificate, and with what the edge locations serve: a config that was  *)
(* updated reaches them later.  An operator changes other settings of the  *)
(* same config, so associate_certificate reads it with its ETag, changes   *)
(* the certificate and writes all of it back under that ETag.  To the      *)
(* tasks of RenewalTasks this module adds those of cdn.py.                 *)
(***************************************************************************)
EXTENDS RenewalTasks

CONSTANT MaxEdits   \* bound: how often an operator changes the config

(* What get_cdn_renewal_pipeline chains.                                   *)
CdnPipeline ==
  <<"issue", "upload_certificate", "associate_certificate",
    "wait_for_distribution", "delete_old_certificate", "mark_complete">>

(* No backport looks at CDN routes.                                        *)
ASSUME CdnAssumption ==
  Pipeline = CdnPipeline /\ Imports = {} /\ Manual = {} /\ MaxEdits \in Nat

VARIABLES
  viewer,     \* the certificate in the distribution's config
  settings,   \* how often the operator has changed the rest of the config
  copy,       \* the settings that each operation has read
  current,    \* the operations whose ETag is still that of the config
  deployed,   \* is the distribution's status "Deployed"?
  edges       \* the certificates that some edge location may still serve

cdnVars == <<viewer, settings, copy, current, deployed, edges>>
vars == <<renewalVars, cdnVars>>

(* Before we look, every edge serves the certificate of the newest row.    *)
Init ==
  /\ RenewalInit
  /\ viewer \in iam
  /\ settings = 0
  /\ copy = [op \in Ops |-> 0]
  /\ current = {}
  /\ deployed = TRUE
  /\ edges = {viewer}

-----------------------------------------------------------------------------
(* The distribution                                                        *)

(* A config is accepted: the edges will get it, and it has a new ETag.     *)
ConfigChanges(c, s) ==
  /\ viewer' = c
  /\ settings' = s
  /\ current' = {}
  /\ deployed' = FALSE
  /\ edges' = edges \cup {c}

(* An operator or the broker changes something else, under the ETag too.   *)
OperatorEdits ==
  /\ settings < MaxEdits
  /\ ConfigChanges(viewer, settings + 1)
  /\ UNCHANGED <<renewalVars, copy>>

CloudFrontDeploys ==
  /\ ~deployed
  /\ deployed' = TRUE
  /\ edges' = {viewer}
  /\ UNCHANGED <<renewalVars, viewer, settings, copy, current>>

-----------------------------------------------------------------------------
(* The tasks of cdn.py                                                     *)

(* get_distribution_config: the config and its ETag.                       *)
ReadConfig(op) ==
  /\ AtStage(op, "associate_certificate", "start")
  /\ copy' = [copy EXCEPT ![op] = settings]
  /\ current' = current \cup {op}
  /\ BodyGoesOn(op, "read", NoCert)
  /\ UNCHANGED <<rowVars, iam, timeVars, viewer, settings, deployed, edges>>

UpdateUnconditionally(op) ==
  /\ AtStage(op, "associate_certificate", "read")
  /\ cert[op] \in iam
  /\ ConfigChanges(cert[op], copy[op])
  /\ BodyGoesOn(op, "called", NoCert)
  /\ UNCHANGED <<rowVars, iam, timeVars, copy>>

UpdateLosesCertificate(op) ==
  /\ AtStage(op, "associate_certificate", "read")
  /\ op \in current
  /\ ConfigChanges(viewer, copy[op])
  /\ BodyGoesOn(op, "called", NoCert)
  /\ UNCHANGED <<rowVars, iam, timeVars, copy>>

(* update_distribution: CloudFront takes a config only under its present   *)
(* ETag and with a certificate that exists; otherwise the call raises.     *)
UpdateDistribution(op) ==
  /\ AtStage(op, "associate_certificate", "read")
  /\ op \in current
  /\ cert[op] \in iam
  /\ ConfigChanges(cert[op], copy[op])
  /\ BodyGoesOn(op, "called", NoCert)
  /\ UNCHANGED <<rowVars, iam, timeVars, copy>>

LinkCertificate(op) ==
  /\ AtStage(op, "associate_certificate", "called")
  /\ linked' = linked \cup {op}
  /\ BodyEnds(op)
  /\ UNCHANGED <<cert, expiry, lastExpiry, iam, timeVars, cdnVars>>

(* The waiter sees the status "Deployed".                                  *)
WaitForDistribution(op) ==
  /\ AtStage(op, "wait_for_distribution", "start")
  /\ deployed
  /\ Returns(op)
  /\ UNCHANGED <<opState, rowVars, iam, timeVars, cdnVars>>

WaiterErrorIsSuppressed(op) ==
  /\ AtStage(op, "wait_for_distribution", "start")
  /\ ~deployed
  /\ Returns(op)
  /\ UNCHANGED <<opState, rowVars, iam, timeVars, cdnVars>>

(* The waiter gives up and raises WaiterError.  suppress only replaces     *)
(* sys.excepthook, so the error goes through it and fails the task.        *)
WaiterGivesUp(op) ==
  /\ AtStage(op, "wait_for_distribution", "start")
  /\ ~deployed
  /\ Raises(op, opState)
  /\ UNCHANGED <<rowVars, iam, timeVars, cdnVars>>

CdnStep(op) ==
  \/ ReadConfig(op) \/ UpdateDistribution(op) \/ LinkCertificate(op)
  \/ WaitForDistribution(op) \/ WaiterGivesUp(op)

Next ==
  \/ \E op \in Ops :
       \/ CdnStep(op)
       \/ CommonStep(op, edges \cup {viewer}) /\ UNCHANGED cdnVars
  \/ (NewDay \/ ExpiryNears) /\ UNCHANGED cdnVars
  \/ OperatorEdits \/ CloudFrontDeploys

Spec == Init /\ [][Next]_vars

-----------------------------------------------------------------------------
(* Properties *)

TypeOK ==
  /\ RenewalTypeOK
  /\ viewer \in Cert
  /\ settings \in 0..MaxEdits
  /\ copy \in [Ops -> 0..MaxEdits]
  /\ current \subseteq Ops
  /\ deployed \in BOOLEAN
  /\ edges \subseteq Cert

(* The certificates that the distribution's config names and that some     *)
(* edge still serves are in IAM, even where IAM would delete one in use:   *)
(* delete_old_certificate comes after wait_for_distribution has seen the   *)
(* new certificate everywhere.                                             *)
Served == edges \cup {viewer} \subseteq iam

(* associate_certificate never brings back settings that an operator has   *)
(* changed in the meantime, whatever it read before.                       *)
EditsAreKept == [][settings' >= settings]_vars

(* When mark_complete closes an operation, its row is linked, and the      *)
(* config and every edge have its certificate and no other.                *)
SuccessRenews ==
  [][Alone => \A op \in Ops : Succeeds(op) =>
       op \in linked /\ viewer = cert[op] /\ edges = {cert[op]}]_vars

(* When mark_complete closes an operation, the certificate of the row that *)
(* was the newest before is no longer in IAM, if that row knew its name:   *)
(* certificates[1] is the certificate that associate_certificate replaced. *)
SuccessRetires ==
  [][Alone => \A op \in Ops : Succeeds(op) =>
       \A r \in Newest(linked \ {op}) : Name(r) \notin iam]_vars

(* When mark_complete closes an operation, no edge serves a certificate    *)
(* that is due for renewal, even if the route's operations overlap.        *)
SuccessServesFresh ==
  [][\A op \in Ops : Succeeds(op) =>
       \A c \in edges : expiry[c.row] > horizon]_vars
=============================================================================
