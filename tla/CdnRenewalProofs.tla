--------------------------- MODULE CdnRenewalProofs ---------------------------
(***************************************************************************)
(* Proofs about CdnRenewal: its types, what a linked row promises, that    *)
(* the settings of an operator survive associate_certificate, that the     *)
(* pipeline implements OperationLifecycle, that the route is served while  *)
(* its certificate is renewed, and that an operation that succeeds has     *)
(* renewed it.                                                             *)
(*                                                                         *)
(* The last two follow the certificate that associate_certificate has put  *)
(* into the config.  It stays there, because only an operation changes it; *)
(* wait_for_distribution has seen it on every edge; and                    *)
(* delete_old_certificate takes the certificate of another row, because an *)
(* operation that has its certificate has the latest one.                  *)
(***************************************************************************)
EXTENDS CdnRenewal, RenewalTasksProofs

CdnTypes ==
  /\ viewer \in Cert
  /\ settings \in 0..MaxEdits
  /\ copy \in [Ops -> 0..MaxEdits]
  /\ current \subseteq Ops
  /\ deployed \in BOOLEAN
  /\ edges \subseteq Cert

(* An operation whose ETag is that of the config has read its settings.    *)
CurrentCopies == \A op \in current : copy[op] = settings

IInv == RenewalInv /\ CdnTypes /\ CurrentCopies

SettingsStay == settings' >= settings

(* The invariant holds at first.                                           *)
LEMMA CdnStarts == ASSUME Init PROVE IInv /\ Lifecycle!Init
<1>1. RenewalInv /\ Lifecycle!Init
  BY RenewalStarts DEF Init
<1>2. iam \subseteq Cert /\ 0 \in 0..MaxEdits
  BY <1>1, CdnAssumption DEF CdnAssumption, RenewalInv, RowTypes
<1>3. CdnTypes /\ CurrentCopies
  BY <1>2 DEF Init, CdnTypes, CurrentCopies
<1>4. QED
  BY <1>1, <1>3 DEF IInv

(* A step that the distribution does not see.                              *)
LEMMA DistributionStays ==
  ASSUME IInv, UNCHANGED cdnVars
  PROVE  CdnTypes' /\ CurrentCopies' /\ SettingsStay
BY DEF IInv, CdnTypes, CurrentCopies, SettingsStay, cdnVars

-----------------------------------------------------------------------------
(* The tasks of cdn.py                                                     *)

(* A row is linked only after its certificate has been uploaded.           *)
LEMMA LinkKeeps ==
  ASSUME IInv, NEW op \in Ops, LinkCertificate(op)
  PROVE  RenewalInv' /\ LifecycleStep
<1>1. op \in live /\ done[op] + 1 < NumStages /\ done[op] \in 0..NumStages
  BY StageOf DEF IInv, RenewalInv, TaskInv, TaskTypes, LinkCertificate
<1>2. Pipeline[done[op] + 1] = "associate_certificate"
  BY DEF LinkCertificate, AtStage
<1>3. Pipeline[1] = "issue" /\ Pipeline[2] = "upload_certificate" /\ NumStages = 6
  BY CdnAssumption DEF CdnAssumption, CdnPipeline, NumStages
<1>4. done[op] # 0 /\ done[op] # 1
  BY <1>2, <1>3
<1>5. 2 \in 1..done[op]
  BY <1>1, <1>3, <1>4
<1>6. cert[op] # NoCert
  BY <1>3, <1>5 DEF IInv, RenewalInv, Uploaded
<1>7. /\ linked' = linked \cup {op} /\ BodyEnds(op)
      /\ UNCHANGED <<cert, expiry, lastExpiry, iam, timeVars>>
  BY DEF LinkCertificate
<1>8. RowTypes' /\ LinkedRowsHaveCerts'
  BY <1>6, <1>7 DEF IInv, RenewalInv, RowTypes, LinkedRowsHaveCerts, Rows, timeVars
<1>9. QED
  BY <1>1, <1>2, <1>7, <1>8, EndsWithRows DEF IInv

(* The others leave the rows and IAM alone.                                *)
LEMMA DistributionTasksKeep ==
  ASSUME IInv, NEW op \in Ops,
         ReadConfig(op) \/ UpdateDistribution(op) \/ WaitForDistribution(op)
         \/ WaiterGivesUp(op)
  PROVE  RenewalInv' /\ LifecycleStep
<1>1. op \in live /\ done[op] + 1 < NumStages
  BY StageOf DEF IInv, RenewalInv, ReadConfig, UpdateDistribution, WaitForDistribution,
                 WaiterGivesUp
<1>2. Pipeline[done[op] + 1] # "upload_certificate"
  BY DEF AtStage, ReadConfig, UpdateDistribution, WaitForDistribution, WaiterGivesUp
<1>3. UNCHANGED <<rowVars, timeVars>> /\ iam' \subseteq iam /\ iam' \subseteq Cert
  BY DEF ReadConfig, UpdateDistribution, WaitForDistribution, WaiterGivesUp, IInv, RenewalInv,
         RowTypes
<1>4. CASE ReadConfig(op) \/ UpdateDistribution(op)
  <2>1. BodyGoesOn(op, "read", NoCert) \/ BodyGoesOn(op, "called", NoCert)
    BY <1>4 DEF ReadConfig, UpdateDistribution
  <2>2. QED
    BY <1>1, <1>2, <1>3, <2>1, GoesOnWithRows DEF IInv
<1>5. CASE WaitForDistribution(op)
  <2>1. Returns(op) /\ UNCHANGED opState
    BY <1>5 DEF WaitForDistribution
  <2>2. RowTypes' /\ LinkedRowsHaveCerts' /\ UNCHANGED cert
    BY <1>3, RowsUnchanged DEF IInv, rowVars
  <2>3. QED
    BY <1>1, <1>2, <2>1, <2>2, EndsWithRows DEF IInv
<1>6. CASE WaiterGivesUp(op)
  <2>1. Raises(op, opState)
    BY <1>6 DEF WaiterGivesUp
  <2>2. QED
    BY <1>1, <1>3, <2>1, RaiseKeeps DEF IInv
<1>7. QED
  BY <1>4, <1>5, <1>6

(* An operation writes back what it has read, and only as long as nobody   *)
(* else has written in between.                                            *)
LEMMA CdnStepKeeps ==
  ASSUME IInv, NEW op \in Ops, CdnStep(op)
  PROVE  IInv' /\ LifecycleStep /\ SettingsStay
<1>1. RenewalInv' /\ LifecycleStep
  BY LinkKeeps, DistributionTasksKeep DEF CdnStep
<1>2. CdnTypes' /\ CurrentCopies' /\ SettingsStay
  <2>1. CASE ReadConfig(op)
    <3>1. /\ copy' = [copy EXCEPT ![op] = settings] /\ current' = current \cup {op}
          /\ UNCHANGED <<viewer, settings, deployed, edges>>
      BY <2>1 DEF ReadConfig
    <3>2. CdnTypes' /\ SettingsStay
      BY <3>1 DEF IInv, CdnTypes, SettingsStay
    <3>3. CurrentCopies'
      BY <3>1 DEF IInv, CdnTypes, CurrentCopies
    <3>4. QED
      BY <3>2, <3>3
  <2>2. CASE UpdateDistribution(op)
    <3>1. op \in current /\ cert[op] \in Cert /\ copy[op] = settings
      BY <2>2 DEF UpdateDistribution, IInv, CurrentCopies, RenewalInv, RowTypes
    <3>2. /\ viewer' = cert[op] /\ settings' = settings /\ current' = {}
          /\ deployed' = FALSE /\ edges' = edges \cup {cert[op]} /\ copy' = copy
      BY <2>2, <3>1 DEF UpdateDistribution, ConfigChanges
    <3>3. CdnTypes' /\ CurrentCopies'
      BY <3>1, <3>2 DEF IInv, CdnTypes, CurrentCopies
    <3>4. settings \in Nat
      BY DEF IInv, CdnTypes
    <3>5. SettingsStay
      BY <3>2, <3>4 DEF SettingsStay
    <3>6. QED
      BY <3>3, <3>5
  <2>3. CASE LinkCertificate(op) \/ WaitForDistribution(op) \/ WaiterGivesUp(op)
    BY <2>3, DistributionStays DEF LinkCertificate, WaitForDistribution, WaiterGivesUp
  <2>4. QED
    BY <2>1, <2>2, <2>3 DEF CdnStep
<1>3. QED
  BY <1>1, <1>2 DEF IInv

(* An operator or CloudFront changes the distribution; the tasks do not    *)
(* see it.                                                                 *)
LEMMA OthersKeep ==
  ASSUME IInv, OperatorEdits \/ CloudFrontDeploys
  PROVE  IInv' /\ LifecycleStep /\ SettingsStay
<1>1. UNCHANGED renewalVars
  BY DEF OperatorEdits, CloudFrontDeploys
<1>2. RenewalInv' /\ LifecycleStep
  BY <1>1 DEF IInv, RenewalInv, TaskInv, TaskTypes, OpenOps, AtRest, RowTypes, Uploaded,
              GotUpload, AtStage, LinkedRowsHaveCerts, NumStages, renewalVars, taskVars,
              rowVars, timeVars, LifecycleStep, Lifecycle!lifecycleVars
<1>3. CdnTypes' /\ CurrentCopies' /\ SettingsStay
  <2>1. CASE OperatorEdits
    <3>1. /\ viewer' = viewer /\ settings' = settings + 1 /\ current' = {}
          /\ deployed' = FALSE /\ edges' = edges \cup {viewer} /\ copy' = copy
          /\ settings < MaxEdits
      BY <2>1 DEF OperatorEdits, ConfigChanges
    <3>2. settings' \in 0..MaxEdits /\ SettingsStay
      BY <3>1, CdnAssumption DEF CdnAssumption, IInv, CdnTypes, SettingsStay
    <3>3. QED
      BY <3>1, <3>2 DEF IInv, CdnTypes, CurrentCopies
  <2>2. CASE CloudFrontDeploys
    BY <2>2 DEF CloudFrontDeploys, IInv, CdnTypes, CurrentCopies, SettingsStay
  <2>3. QED
    BY <2>1, <2>2
<1>4. QED
  BY <1>2, <1>3 DEF IInv

LEMMA CdnKeeps ==
  ASSUME IInv, [Next]_vars
  PROVE  IInv' /\ LifecycleStep /\ SettingsStay
<1>1. CASE \E op \in Ops : CdnStep(op)
  BY <1>1, CdnStepKeeps
<1>2. ASSUME NEW op \in Ops, CommonStep(op, edges \cup {viewer}), UNCHANGED cdnVars
      PROVE  IInv' /\ LifecycleStep /\ SettingsStay
  BY <1>2, CommonKeeps, DistributionStays DEF IInv
<1>3. CASE (NewDay \/ ExpiryNears) /\ UNCHANGED cdnVars
  BY <1>3, ClockKeeps, DistributionStays DEF IInv
<1>4. CASE OperatorEdits \/ CloudFrontDeploys
  BY <1>4, OthersKeep
<1>5. CASE UNCHANGED vars
  <2>1. RenewalInv' /\ LifecycleStep
    BY <1>5 DEF IInv, RenewalInv, TaskInv, TaskTypes, OpenOps, AtRest, RowTypes, Uploaded,
                GotUpload, AtStage, LinkedRowsHaveCerts, NumStages, vars, renewalVars,
                taskVars, rowVars, timeVars, LifecycleStep, Lifecycle!lifecycleVars
  <2>2. QED
    BY <1>5, <2>1, DistributionStays DEF IInv, vars
<1>6. QED
  BY <1>1, <1>2, <1>3, <1>4, <1>5 DEF Next

LEMMA AlwaysIInv == Spec => []IInv
<1>1. Init => IInv
  BY CdnStarts
<1>2. IInv /\ [Next]_vars => IInv'
  BY CdnKeeps
<1>3. QED
  BY <1>1, <1>2, PTL DEF Spec

-----------------------------------------------------------------------------
(* The route is served                                                     *)

(* A row is linked by associate_certificate, for an answer that may be     *)
(* lost, and before any later task.                                        *)
LinkedLate == \A op \in Ops \cap linked : done[op] >= 2
LinkedSoon == \A op \in Ops : done[op] >= 3 => op \in linked

(* The operation's update of the distribution has been accepted.           *)
Updated(op) == done[op] >= 3 \/ AtStage(op, "associate_certificate", "called")

(* What the distribution serves, and from when on it is the operation's    *)
(* certificate, where operations do not overlap.                           *)
Edges == viewer \in edges /\ (deployed => edges = {viewer})
Associated == Alone => \A op \in live : Updated(op) => viewer = cert[op]
Everywhere == Alone => \A op \in live : done[op] >= 4 => edges = {viewer}

ServedWhereKept == Alone \/ ~env.deletesInUse => Served

(* Where operations overlap it is at least a certificate that is not due.  *)
FreshViewer == \A op \in live : Updated(op) => expiry[viewer.row] > horizon
FreshEdges ==
  \A op \in live : done[op] >= 4 => \A c \in edges : expiry[c.row] > horizon

ServedInv ==
  /\ IInv /\ RowsInv /\ LinkedLate /\ LinkedSoon
  /\ Edges /\ Associated /\ Everywhere /\ ServedWhereKept
  /\ FreshOps /\ FreshViewer /\ FreshEdges

InUse == edges \cup {viewer}

(* Where the tasks are.                                                    *)
LEMMA Positions ==
  /\ NumStages = 6
  /\ Pipeline[1] = "issue" /\ Pipeline[2] = "upload_certificate"
  /\ Pipeline[3] = "associate_certificate" /\ Pipeline[4] = "wait_for_distribution"
  /\ Pipeline[5] = "delete_old_certificate" /\ Pipeline[6] = "mark_complete"
BY CdnAssumption DEF CdnAssumption, CdnPipeline, NumStages

LEMMA PositionOf ==
  ASSUME RenewalInv, NEW op, NEW stage, NEW s, AtStage(op, stage, s)
  PROVE  /\ op \in live /\ op \in Ops
         /\ stage = "issue" => done[op] = 0
         /\ stage = "upload_certificate" => done[op] = 1
         /\ stage = "associate_certificate" => done[op] = 2
         /\ stage = "wait_for_distribution" => done[op] = 3
         /\ stage = "delete_old_certificate" => done[op] = 4
         /\ stage = "mark_complete" => done[op] = 5
<1>1. op \in live /\ op \in Ops /\ done[op] \in 0..NumStages /\ done[op] < NumStages
  BY DEF AtStage, RenewalInv, TaskInv, TaskTypes
<1>2. /\ done[op] = 0 \/ done[op] = 1 \/ done[op] = 2 \/ done[op] = 3 \/ done[op] = 4
         \/ done[op] = 5
  BY <1>1, Positions
<1>3. Pipeline[done[op] + 1] = stage
  BY DEF AtStage
<1>4. QED
  BY <1>1, <1>2, <1>3, Positions

(* Past delete_old_certificate are those that have done five stages.       *)
LEMMA DeleteIsFifth ==
  ASSUME NEW n \in 0..6
  PROVE  (\E i \in 1..n : Pipeline[i] = "delete_old_certificate") <=> n >= 5
<1>1. ASSUME NEW i \in 1..n, Pipeline[i] = "delete_old_certificate" PROVE n >= 5
  <2>1. i # 1 /\ i # 2 /\ i # 3 /\ i # 4
    BY <1>1, Positions
  <2>2. QED
    BY <2>1
<1>2. ASSUME n >= 5 PROVE 5 \in 1..n
  BY <1>2
<1>3. QED
  BY <1>1, <1>2, Positions

LEMMA PastDeleteIs ==
  ASSUME RenewalInv, NEW op \in Ops
  PROVE  PastDelete(op) <=> done[op] >= 5
<1>1. done[op] \in 0..6
  BY Positions DEF RenewalInv, TaskInv, TaskTypes
<1>2. QED
  BY <1>1, DeleteIsFifth DEF PastDelete

(* A step of an operation, of the clock, of the distribution, of nobody.   *)
LEMMA Steps ==
  ASSUME IInv, [Next]_vars
  PROVE  \/ \E op \in Ops : CdnStep(op)
         \/ \E op \in Ops : CommonStep(op, InUse) /\ UNCHANGED cdnVars
         \/ /\ UNCHANGED <<opState, done, taskVars, rowVars, iam, env>>
            /\ RowStep(InUse)
            /\ UNCHANGED cdnVars \/ OperatorEdits \/ CloudFrontDeploys
<1>1. CASE \E op \in Ops : CdnStep(op)
  BY <1>1
<1>2. CASE \E op \in Ops : CommonStep(op, edges \cup {viewer}) /\ UNCHANGED cdnVars
  BY <1>2 DEF InUse
<1>3. CASE (NewDay \/ ExpiryNears) /\ UNCHANGED cdnVars
  BY <1>3, ClockRowStep
<1>4. CASE OperatorEdits \/ CloudFrontDeploys \/ UNCHANGED vars
  <2>1. UNCHANGED renewalVars /\ (UNCHANGED cdnVars \/ OperatorEdits \/ CloudFrontDeploys)
    BY <1>4 DEF OperatorEdits, CloudFrontDeploys, vars
  <2>2. QED
    BY <2>1 DEF renewalVars, timeVars, taskVars, rowVars, RowStep, DateStep
<1>5. QED
  BY <1>1, <1>2, <1>3, <1>4 DEF Next

(* What changes the rows, IAM and what the distribution serves.            *)
LEMMA Frames ==
  ASSUME IInv, [Next]_vars
  PROVE  /\ RowStep(InUse)
         /\ linked' = linked \/ \E op \in Ops : LinkCertificate(op)
         /\ \/ UNCHANGED <<viewer, deployed, edges>>
            \/ iam' = iam /\ \/ \E op \in Ops : UpdateDistribution(op)
                             \/ OperatorEdits \/ CloudFrontDeploys
<1>1. ASSUME NEW op \in Ops, CdnStep(op)
      PROVE  /\ RowStep(InUse)
             /\ linked' = linked \/ LinkCertificate(op)
             /\ \/ UNCHANGED <<viewer, deployed, edges>>
                \/ iam' = iam /\ UpdateDistribution(op)
  <2>1. CASE ReadConfig(op)
    BY <2>1 DEF ReadConfig, BodyGoesOn, rowVars, timeVars, RowStep, DateStep
  <2>2. CASE UpdateDistribution(op)
    BY <2>2 DEF UpdateDistribution, BodyGoesOn, rowVars, timeVars, RowStep, DateStep
  <2>3. CASE LinkCertificate(op)
    <3>1. op \in live /\ done[op] = 2 /\ AtStage(op, "associate_certificate", "called")
      BY <2>3, PositionOf DEF LinkCertificate, IInv
    <3>2. ~AtStage(op, "delete_old_certificate", "read") /\ ~PastDelete(op)
      BY <3>1, PastDeleteIs DEF AtStage, IInv
    <3>3. live' \subseteq live
      BY <2>3, HowBodiesAreLeft DEF LinkCertificate
    <3>4. QED
      BY <2>3, <3>1, <3>2, <3>3 DEF LinkCertificate, timeVars, cdnVars, RowStep, DateStep
  <2>4. CASE WaitForDistribution(op) \/ WaiterGivesUp(op)
    <3>1. live' \subseteq live
      BY <2>4, HowBodiesAreLeft DEF WaitForDistribution, WaiterGivesUp
    <3>2. QED
      BY <2>4, <3>1 DEF WaitForDistribution, WaiterGivesUp, rowVars, timeVars, cdnVars, RowStep, DateStep
  <2>5. QED
    BY <1>1, <2>1, <2>2, <2>3, <2>4 DEF CdnStep
<1>2. CASE \E op \in Ops : CdnStep(op)
  <2>1. PICK op \in Ops : CdnStep(op)
    BY <1>2
  <2>2. QED
    BY <1>1, <2>1
<1>3. CASE \E op \in Ops : CommonStep(op, InUse) /\ UNCHANGED cdnVars
  BY <1>3, CommonRowStep DEF cdnVars
<1>4. CASE /\ UNCHANGED <<opState, done, taskVars, rowVars, iam, env>>
           /\ RowStep(InUse)
           /\ UNCHANGED cdnVars \/ OperatorEdits \/ CloudFrontDeploys
  BY <1>4 DEF rowVars, cdnVars
<1>5. QED
  BY <1>2, <1>3, <1>4, Steps

(* The task that takes an operation from one stage to the next.            *)
Advances(op) ==
  /\ done' = [done EXCEPT ![op] = @ + 1]
  /\ op \in live
  /\ done[op] = 0 => IssueCertificate(op)
  /\ done[op] = 2 => LinkCertificate(op)
  /\ done[op] = 3 => WaitForDistribution(op)
  /\ done[op] = 4 => \/ DeletePreviousCertificate(op, InUse)
                     \/ ReadPreviousCertificate(op) /\ \E r \in Second : Name(r) = NoCert

LeavesBody(op) == BodyIsLeft(op) /\ live' \subseteq live /\ (done' = done \/ Advances(op))

(* What one step does to the task that takes it.                           *)
LEMMA TaskSteps ==
  ASSUME RenewalInv, NEW op \in Ops, CdnStep(op) \/ CommonStep(op, InUse)
  PROVE  \/ LeavesBody(op)
         \/ UploadCertificate(op) \/ ReadConfig(op) \/ UpdateDistribution(op)
         \/ ReadsPrevious(op) \/ RenewAllCerts(op)
<1>1. CASE IssueCertificate(op)
  <2>1. op \in live /\ done[op] = 0
    BY <1>1, PositionOf DEF IssueCertificate
  <2>2. QED
    BY <1>1, <2>1, HowBodiesAreLeft DEF LeavesBody, Advances, IssueCertificate
<1>2. CASE LinkCertificate(op)
  <2>1. op \in live /\ done[op] = 2
    BY <1>2, PositionOf DEF LinkCertificate
  <2>2. QED
    BY <1>2, <2>1, HowBodiesAreLeft DEF LeavesBody, Advances, LinkCertificate
<1>3. CASE WaitForDistribution(op)
  <2>1. op \in live /\ done[op] = 3
    BY <1>3, PositionOf DEF WaitForDistribution
  <2>2. QED
    BY <1>3, <2>1, HowBodiesAreLeft DEF LeavesBody, Advances, WaitForDistribution
<1>4. CASE DeletePreviousCertificate(op, InUse)
  <2>1. op \in live /\ done[op] = 4
    BY <1>4, PositionOf DEF DeletePreviousCertificate
  <2>2. QED
    BY <1>4, <2>1, HowBodiesAreLeft DEF LeavesBody, Advances, DeletePreviousCertificate
<1>5. CASE ReadPreviousCertificate(op)
  <2>1. op \in live /\ done[op] = 4
    BY <1>5, PositionOf DEF ReadPreviousCertificate
  <2>2. PICK r \in Second : \/ Name(r) # NoCert /\ BodyGoesOn(op, "read", Name(r))
                            \/ Name(r) = NoCert /\ Returns(op) /\ UNCHANGED opState
    BY <1>5 DEF ReadPreviousCertificate
  <2>3. CASE Name(r) # NoCert /\ BodyGoesOn(op, "read", Name(r))
    BY <1>5, <2>3 DEF ReadsPrevious
  <2>4. CASE Name(r) = NoCert /\ Returns(op)
    BY <1>5, <2>1, <2>4, HowBodiesAreLeft DEF LeavesBody, Advances
  <2>5. QED
    BY <2>2, <2>3, <2>4
<1>6. CASE SaveUpload(op) \/ AlreadyUploaded(op) \/ MarkComplete(op)
  <2>1. op \in live /\ (done[op] = 1 \/ done[op] = 5)
    BY <1>6, PositionOf DEF SaveUpload, AlreadyUploaded, MarkComplete
  <2>2. BodyEnds(op) \/ Returns(op) \/ \E state : Raises(op, state)
    BY <1>6 DEF SaveUpload, AlreadyUploaded, MarkComplete
  <2>3. QED
    BY <2>1, <2>2, HowBodiesAreLeft DEF LeavesBody, Advances
<1>7. CASE Raise(op) \/ WaiterGivesUp(op) \/ LoseTask(op)
  BY <1>7 DEF LeavesBody, Raise, WaiterGivesUp, Raises, LoseTask
<1>8. CASE UploadCertificate(op) \/ ReadConfig(op) \/ UpdateDistribution(op) \/ RenewAllCerts(op)
  BY <1>8
<1>9. QED
  BY <1>1, <1>2, <1>3, <1>4, <1>5, <1>6, <1>7, <1>8 DEF CdnStep, CommonStep

LEMMA AnyTaskSteps ==
  ASSUME IInv, [Next]_vars
  PROVE  \/ \E op \in Ops : \/ LeavesBody(op)
                            \/ UploadCertificate(op) \/ ReadConfig(op)
                            \/ UpdateDistribution(op) \/ ReadsPrevious(op)
                            \/ RenewAllCerts(op)
         \/ UNCHANGED <<done, taskVars>>
<1>1. CASE \E op \in Ops : CdnStep(op) \/ CommonStep(op, InUse)
  BY <1>1, TaskSteps DEF IInv
<1>2. CASE UNCHANGED <<opState, done, taskVars, rowVars, iam, env>>
  BY <1>2
<1>3. QED
  BY <1>1, <1>2, Steps

(* An operation gets on only by the task of its stage.                     *)
LEMMA GettingOn ==
  ASSUME IInv, [Next]_vars, NEW op \in Ops, done'[op] # done[op]
  PROVE  Advances(op) /\ done'[op] = done[op] + 1
<1>1. \A o \in Ops : Advances(o) => done'[op] = IF o = op THEN done[op] + 1 ELSE done[op]
  BY DEF Advances, IInv, RenewalInv, TaskInv, TaskTypes
<1>2. PICK o \in Ops : \/ LeavesBody(o) \/ UploadCertificate(o) \/ ReadConfig(o)
                       \/ UpdateDistribution(o) \/ ReadsPrevious(o) \/ RenewAllCerts(o)
  BY AnyTaskSteps DEF taskVars
<1>3. Advances(o)
  BY <1>2 DEF LeavesBody, UploadCertificate, ReadConfig, UpdateDistribution, ReadsPrevious,
              ReadPreviousCertificate, RenewAllCerts, BodyGoesOn
<1>4. QED
  BY <1>1, <1>3

(* A body is half done only after the call or the read that makes it so.   *)
LEMMA HalfDone ==
  ASSUME IInv, [Next]_vars, NEW op \in Ops, NEW stage, NEW s, AtStage(op, stage, s)', s # "start"
  PROVE  \/ AtStage(op, stage, s) /\ seen'[op] = seen[op]
         \/ stage = "upload_certificate" /\ UploadCertificate(op)
         \/ stage = "associate_certificate" /\ s = "read"
         \/ stage = "associate_certificate" /\ UpdateDistribution(op)
         \/ stage = "delete_old_certificate" /\ ReadsPrevious(op)
<1>0. /\ step \in [Ops -> {"start", "read", "called"}] /\ seen \in [Ops -> Cert \cup {NoCert}]
      /\ done \in [Ops -> 0..NumStages]
  BY DEF IInv, RenewalInv, TaskInv, TaskTypes
<1>1. CASE UNCHANGED <<done, taskVars>>
  BY <1>1 DEF AtStage, taskVars, NumStages
<1>2. ASSUME NEW o \in Ops, LeavesBody(o)
      PROVE  AtStage(op, stage, s) /\ seen'[op] = seen[op]
  <2>1. o # op
    BY <1>0, <1>2 DEF AtStage, LeavesBody, BodyIsLeft
  <2>2. done'[op] = done[op] /\ step'[op] = step[op] /\ seen'[op] = seen[op]
    BY <1>0, <1>2, <2>1 DEF LeavesBody, BodyIsLeft, Advances
  <2>3. QED
    BY <1>2, <2>2 DEF AtStage, LeavesBody, NumStages
<1>3. ASSUME NEW o \in Ops, NEW t, NEW c, BodyGoesOn(o, t, c)
      PROVE  \/ AtStage(op, stage, s) /\ seen'[op] = seen[op]
             \/ o = op /\ t = s /\ stage = Pipeline[done[op] + 1]
  BY <1>0, <1>3 DEF BodyGoesOn, AtStage, NumStages
<1>4. ASSUME NEW o \in Ops, RenewAllCerts(o)
      PROVE  AtStage(op, stage, s) /\ seen'[op] = seen[op]
  <2>1. o \notin live /\ step[o] = "start"
    BY <1>4 DEF RenewAllCerts, IInv, RenewalInv, TaskInv, OpenOps, AtRest
  <2>2. live' = live \cup {o} /\ UNCHANGED <<done, step, seen>>
    BY <1>4 DEF RenewAllCerts
  <2>3. QED
    BY <2>1, <2>2 DEF AtStage, NumStages
<1>5. ASSUME NEW o \in Ops, UploadCertificate(o) \/ ReadsPrevious(o)
      PROVE  \/ AtStage(op, stage, s) /\ seen'[op] = seen[op]
             \/ stage = "upload_certificate" /\ UploadCertificate(op)
             \/ stage = "delete_old_certificate" /\ ReadsPrevious(op)
  <2>1. CASE UploadCertificate(o)
    <3>1. /\ BodyGoesOn(o, "called", [row |-> o, day |-> day])
          /\ Pipeline[done[o] + 1] = "upload_certificate"
      BY <2>1 DEF UploadCertificate, AtStage
    <3>2. QED
      BY <1>3, <2>1, <3>1
  <2>2. CASE ReadsPrevious(o)
    <3>1. /\ \E c : BodyGoesOn(o, "read", c)
          /\ Pipeline[done[o] + 1] = "delete_old_certificate"
      BY <2>2 DEF ReadsPrevious, ReadPreviousCertificate, AtStage
    <3>2. QED
      BY <1>3, <2>2, <3>1
  <2>3. QED
    BY <1>5, <2>1, <2>2
<1>6. ASSUME NEW o \in Ops, ReadConfig(o) \/ UpdateDistribution(o)
      PROVE  \/ AtStage(op, stage, s) /\ seen'[op] = seen[op]
             \/ stage = "associate_certificate" /\ s = "read"
             \/ stage = "associate_certificate" /\ UpdateDistribution(op)
  <2>1. CASE ReadConfig(o)
    <3>1. BodyGoesOn(o, "read", NoCert) /\ Pipeline[done[o] + 1] = "associate_certificate"
      BY <2>1 DEF ReadConfig, AtStage
    <3>2. QED
      BY <1>3, <3>1
  <2>2. CASE UpdateDistribution(o)
    <3>1. BodyGoesOn(o, "called", NoCert) /\ Pipeline[done[o] + 1] = "associate_certificate"
      BY <2>2 DEF UpdateDistribution, AtStage
    <3>2. QED
      BY <1>3, <2>2, <3>1
  <2>3. QED
    BY <1>6, <2>1, <2>2
<1>7. QED
  BY <1>1, <1>2, <1>4, <1>5, <1>6, AnyTaskSteps

LEMMA BodySteps ==
  ASSUME IInv, [Next]_vars
  PROVE  BodyStep(InUse)
<1> SUFFICES ASSUME NEW op \in Ops
             PROVE  /\ done'[op] >= 1 => done[op] >= 1 \/ IssueCertificate(op)
                    /\ PastDelete(op)' =>
                         \/ PastDelete(op) \/ DeletePreviousCertificate(op, InUse)
                         \/ ReadPreviousCertificate(op) /\ \E r \in Second : Name(r) = NoCert
  BY HalfDone DEF BodyStep, IssueStep
<1>1. done[op] \in 0..6 /\ done'[op] \in 0..6 /\ RenewalInv
  BY CdnKeeps, Positions DEF IInv, RenewalInv, TaskInv, TaskTypes, NumStages
<1>2. CASE done'[op] = done[op]
  BY <1>1, <1>2 DEF PastDelete
<1>3. CASE Advances(op) /\ done'[op] = done[op] + 1
  <2>1. done'[op] >= 1 => done[op] >= 1 \/ IssueCertificate(op)
    BY <1>1, <1>3 DEF Advances
  <2>2. ASSUME PastDelete(op)', ~PastDelete(op) PROVE done[op] = 4
    <3>1. done'[op] >= 5
      BY <1>1, <2>2, DeleteIsFifth DEF PastDelete
    <3>2. ~(done[op] >= 5)
      BY <1>1, <2>2, PastDeleteIs
    <3>3. QED
      BY <1>1, <1>3, <3>1, <3>2
  <2>3. QED
    BY <1>3, <2>1, <2>2 DEF Advances
<1>4. QED
  BY <1>2, <1>3, GettingOn

LEMMA LinkedLateKept ==
  ASSUME ServedInv, [Next]_vars PROVE LinkedLate' /\ LinkedSoon' /\ InOrder
<1>1. /\ IInv /\ done \in [Ops -> 0..NumStages] /\ linked \subseteq linked'
      /\ \A op \in Ops : done[op] \in Nat
  BY Frames, LinkedForGood DEF ServedInv, IInv, RenewalInv, TaskInv, TaskTypes
<1>2. LinkedLate'
  <2> SUFFICES ASSUME NEW op \in Ops, op \in linked' PROVE done'[op] >= 2
    BY DEF LinkedLate
  <2>1. done[op] >= 2
    <3>1. CASE op \in linked
      BY <3>1 DEF ServedInv, LinkedLate
    <3>2. CASE op \notin linked
      <4>1. LinkCertificate(op)
        BY <1>1, <3>2, Frames DEF LinkCertificate
      <4>2. QED
        BY <1>1, <4>1, PositionOf DEF LinkCertificate, IInv
    <3>3. QED
      BY <3>1, <3>2
  <2>2. done'[op] = done[op] \/ done'[op] = done[op] + 1
    BY <1>1, GettingOn
  <2>3. QED
    BY <1>1, <2>1, <2>2
<1>3. LinkedSoon'
  <2> SUFFICES ASSUME NEW op \in Ops, done'[op] >= 3 PROVE op \in linked'
    BY DEF LinkedSoon
  <2>1. CASE done[op] >= 3
    BY <1>1, <2>1 DEF ServedInv, LinkedSoon
  <2>2. CASE ~(done[op] >= 3)
    <3>1. Advances(op) /\ done'[op] = done[op] + 1
      BY <1>1, <2>2, GettingOn
    <3>2. done[op] = 2
      BY <1>1, <2>2, <3>1
    <3>3. QED
      BY <3>1, <3>2 DEF Advances, LinkCertificate
  <2>3. QED
    BY <2>1, <2>2
<1>4. InOrder
  <2> SUFFICES ASSUME NEW op \in Ops
               PROVE  /\ op \in linked => done[op] >= 1
                      /\ AtStage(op, "upload_certificate", "called") => op \notin linked
                      /\ \A s \in {"start", "read"} :
                           AtStage(op, "delete_old_certificate", s) => done[op] >= 1
    BY DEF InOrder
  <2>1. op \in linked => done[op] >= 2
    BY DEF ServedInv, LinkedLate
  <2>2. AtStage(op, "upload_certificate", "called") => done[op] = 1
    BY <1>1, PositionOf DEF IInv
  <2>3. \A s \in {"start", "read"} : AtStage(op, "delete_old_certificate", s) => done[op] = 4
    BY <1>1, PositionOf DEF IInv
  <2>4. QED
    BY <1>1, <2>1, <2>2, <2>3
<1>5. QED
  BY <1>2, <1>3, <1>4

(* What the update of an operation brings is the certificate in its row.   *)
LEMMA Brought ==
  ASSUME ServedInv, NEW op \in Ops, UpdateDistribution(op)
  PROVE  /\ op \in live /\ done[op] = 2 /\ cert[op] \in iam /\ cert[op].row = op
         /\ viewer' = cert[op] /\ deployed' = FALSE /\ edges' = edges \cup {cert[op]}
         /\ UNCHANGED <<live, cert, expiry, iam, horizon, env, done>>
         /\ expiry[op] > horizon
<1>1. /\ op \in live /\ done[op] = 2 /\ cert[op] \in iam
      /\ viewer' = cert[op] /\ deployed' = FALSE /\ edges' = edges \cup {cert[op]}
      /\ UNCHANGED <<live, cert, expiry, iam, horizon, env, done>>
  BY PositionOf DEF UpdateDistribution, ConfigChanges, BodyGoesOn, rowVars, timeVars, ServedInv, IInv
<1>2. cert[op] # NoCert
  BY <1>1, TasksAssumption DEF TasksAssumption, ServedInv, IInv, RenewalInv, RowTypes
<1>3. cert[op].row = op
  BY <1>2 DEF ServedInv, RowsInv, OwnCerts
<1>4. expiry[op] # 0
  BY <1>1 DEF ServedInv, RowsInv, Latest
<1>5. expiry[op] > horizon
  BY <1>1, <1>4 DEF ServedInv, FreshOps
<1>6. QED
  BY <1>1, <1>3, <1>5

LEMMA EdgesKept == ASSUME ServedInv, [Next]_vars PROVE Edges'
<1>1. IInv /\ Edges
  BY DEF ServedInv
<1>2. CASE UNCHANGED <<viewer, deployed, edges>>
  BY <1>1, <1>2 DEF Edges
<1>3. CASE \E op \in Ops : UpdateDistribution(op)
  BY <1>3, Brought DEF Edges
<1>4. CASE OperatorEdits \/ CloudFrontDeploys
  BY <1>4 DEF OperatorEdits, CloudFrontDeploys, ConfigChanges, Edges
<1>5. QED
  BY <1>1, <1>2, <1>3, <1>4, Frames

(* An update is accepted once; then the operation stays updated.           *)
LEMMA UpdatedBefore ==
  ASSUME ServedInv, [Next]_vars, NEW op \in live', Updated(op)'
  PROVE  /\ op \in live /\ op \in Ops
         /\ (Updated(op) /\ done[op] >= 2) \/ UpdateDistribution(op)
<1>1. /\ IInv /\ live' \subseteq Ops /\ RowStep(InUse)
      /\ \A o \in Ops : done[o] \in Nat
  BY CdnKeeps, Frames DEF ServedInv, IInv, RenewalInv, TaskInv, TaskTypes
<1>2. op \in Ops
  BY <1>1
<1>3. Updated(op) \/ UpdateDistribution(op)
  <2>1. CASE AtStage(op, "associate_certificate", "called")'
    BY <1>1, <1>2, <2>1, HalfDone DEF Updated
  <2>2. CASE done'[op] >= 3 /\ done'[op] # done[op]
    <3>1. Advances(op) /\ done'[op] = done[op] + 1
      BY <1>1, <1>2, <2>2, GettingOn
    <3>2. done[op] >= 3 \/ done[op] = 2
      BY <1>1, <1>2, <2>2, <3>1
    <3>3. QED
      BY <3>1, <3>2 DEF Advances, LinkCertificate, Updated
  <2>3. CASE done'[op] >= 3 /\ done'[op] = done[op]
    BY <2>3 DEF Updated
  <2>4. QED
    BY <2>1, <2>2, <2>3 DEF Updated
<1>4. Updated(op) => done[op] >= 2
  <2>1. AtStage(op, "associate_certificate", "called") => done[op] = 2
    BY <1>1, PositionOf DEF IInv
  <2>2. QED
    BY <1>1, <1>2, <2>1 DEF Updated
<1>5. op \in live
  <2>1. SUFFICES ASSUME op \notin live PROVE FALSE
    OBVIOUS
  <2>2. done[op] = 0 /\ RenewAllCerts(op)
    BY <1>1, <2>1, NewlyLive DEF IInv, RowStep
  <2>3. ~UpdateDistribution(op)
    BY <2>1 DEF UpdateDistribution, AtStage
  <2>4. QED
    BY <1>3, <1>4, <2>2, <2>3
<1>6. QED
  BY <1>2, <1>3, <1>4, <1>5

LEMMA AssociatedKept == ASSUME ServedInv, [Next]_vars PROVE Associated'
<1>1. IInv /\ RenewalInv /\ env' = env /\ OneLive /\ RowStep(InUse)
  BY Frames DEF ServedInv, IInv, RowStep, DateStep, RowsInv
<1> SUFFICES ASSUME Alone, NEW op \in live', Updated(op)' PROVE viewer' = cert'[op]
  BY <1>1 DEF Associated, Alone
<1>2. op \in live /\ op \in Ops /\ ((Updated(op) /\ done[op] >= 2) \/ UpdateDistribution(op))
  BY UpdatedBefore
<1>3. CASE UpdateDistribution(op)
  BY <1>2, <1>3, Brought
<1>4. CASE Updated(op) /\ done[op] >= 2
  <2>1. viewer = cert[op]
    BY <1>2, <1>4 DEF ServedInv, Associated
  <2>2. ~SaveUpload(op)
    BY <1>1, <1>4, PositionOf DEF SaveUpload
  <2>3. cert'[op] = cert[op]
    BY <1>1, <1>2, <2>2, CertStays
  <2>4. ASSUME NEW o \in Ops, UpdateDistribution(o) PROVE viewer' = cert[op]
    <3>1. o \in live /\ viewer' = cert[o]
      BY <2>4, Brought
    <3>2. o = op
      BY <1>1, <1>2, <3>1 DEF OneLive
    <3>3. QED
      BY <3>1, <3>2
  <2>5. OperatorEdits \/ CloudFrontDeploys => viewer' = viewer
    BY DEF OperatorEdits, CloudFrontDeploys, ConfigChanges
  <2>6. QED
    BY <1>1, <2>1, <2>3, <2>4, <2>5, Frames
<1>5. QED
  BY <1>2, <1>3, <1>4

(* An operation that has waited finds that the distribution is deployed.   *)
LEMMA Waited ==
  ASSUME ServedInv, [Next]_vars, NEW op \in live', done'[op] >= 4
  PROVE  /\ op \in live /\ op \in Ops
         /\ \/ done[op] >= 4
            \/ /\ done[op] = 3 /\ edges = {viewer}
               /\ UNCHANGED <<viewer, edges, expiry, horizon>>
<1>1. /\ IInv /\ live' \subseteq Ops /\ RowStep(InUse)
      /\ \A o \in Ops : done[o] \in Nat /\ done'[o] \in Nat
  BY CdnKeeps, Frames DEF ServedInv, IInv, RenewalInv, TaskInv, TaskTypes, NumStages
<1>2. op \in Ops
  BY <1>1
<1>3. Updated(op)'
  BY <1>1, <1>2 DEF Updated
<1>4. op \in live
  BY <1>3, UpdatedBefore
<1>5. CASE done[op] >= 4
  BY <1>2, <1>4, <1>5
<1>6. CASE ~(done[op] >= 4)
  <2>1. Advances(op) /\ done'[op] = done[op] + 1
    BY <1>1, <1>2, <1>6, GettingOn
  <2>2. done[op] = 3
    BY <1>1, <1>2, <1>6, <2>1
  <2>3. WaitForDistribution(op)
    BY <2>1, <2>2 DEF Advances
  <2>4. deployed /\ UNCHANGED <<viewer, edges, expiry, horizon>>
    BY <2>3 DEF WaitForDistribution, cdnVars, rowVars, timeVars
  <2>5. edges = {viewer}
    BY <2>4 DEF ServedInv, Edges
  <2>6. QED
    BY <1>2, <1>4, <2>2, <2>4, <2>5
<1>7. QED
  BY <1>5, <1>6

LEMMA EverywhereKept == ASSUME ServedInv, [Next]_vars PROVE Everywhere'
<1>1. IInv /\ env' = env /\ OneLive /\ Edges
  BY Frames DEF ServedInv, RowStep, DateStep, RowsInv
<1> SUFFICES ASSUME Alone, NEW op \in live', done'[op] >= 4 PROVE edges' = {viewer'}
  BY <1>1 DEF Everywhere, Alone
<1>2. op \in live /\ op \in Ops
  BY Waited
<1>3. CASE edges = {viewer} /\ UNCHANGED <<viewer, edges>>
  BY <1>3
<1>4. CASE done[op] >= 4
  <2>1. edges = {viewer}
    BY <1>2, <1>4 DEF ServedInv, Everywhere
  <2>2. \A o \in Ops : ~UpdateDistribution(o)
    <3> SUFFICES ASSUME NEW o \in Ops, UpdateDistribution(o) PROVE FALSE
      OBVIOUS
    <3>1. o \in live /\ done[o] = 2
      BY Brought
    <3>2. o = op
      BY <1>1, <1>2, <3>1 DEF OneLive
    <3>3. QED
      BY <1>4, <3>1, <3>2
  <2>3. OperatorEdits \/ CloudFrontDeploys => edges' = {viewer'}
    BY <2>1 DEF OperatorEdits, CloudFrontDeploys, ConfigChanges
  <2>4. QED
    BY <1>1, <2>1, <2>2, <2>3, Frames
<1>5. QED
  BY <1>3, <1>4, Waited

LEMMA ServedKept == ASSUME ServedInv, [Next]_vars PROVE ServedWhereKept'
<1>1. IInv /\ RowsInv /\ env' = env /\ Edges /\ RowStep(InUse)
  BY Frames DEF ServedInv, RowStep, DateStep
<1> SUFFICES ASSUME Alone \/ ~env.deletesInUse PROVE edges' \cup {viewer'} \subseteq iam'
  BY <1>1 DEF ServedWhereKept, Served, Alone
<1>2. edges \cup {viewer} \subseteq iam
  BY DEF ServedInv, ServedWhereKept, Served
<1>3. CASE iam' = iam
  <2>1. ASSUME NEW o \in Ops, UpdateDistribution(o)
        PROVE  edges' \cup {viewer'} \subseteq iam
    <3>1. cert[o] \in iam /\ viewer' = cert[o] /\ edges' = edges \cup {cert[o]}
      BY <2>1, Brought
    <3>2. QED
      BY <1>2, <3>1
  <2>2. OperatorEdits \/ CloudFrontDeploys => edges' \cup {viewer'} \subseteq iam
    BY <1>2 DEF OperatorEdits, CloudFrontDeploys, ConfigChanges
  <2>3. QED
    BY <1>1, <1>2, <1>3, <2>1, <2>2, Frames
<1>4. CASE UNCHANGED <<viewer, edges>>
  <2>1. ASSUME NEW o \in Ops, DeletePreviousCertificate(o, InUse)
        PROVE  edges \cup {viewer} \subseteq iam'
    <3>1. /\ o \in live /\ iam' = iam \ {seen[o]} /\ (Alone => seen[o].row # o)
          /\ ~env.deletesInUse => seen[o] \notin InUse
      BY <1>1, <2>1, Deleted
    <3>2. CASE Alone
      <4>1. done[o] = 4
        BY <1>1, <2>1, PositionOf DEF DeletePreviousCertificate, IInv
      <4>2. edges = {viewer} /\ viewer = cert[o]
        BY <3>1, <3>2, <4>1 DEF ServedInv, Everywhere, Associated, Updated
      <4>3. cert[o] # NoCert
        BY <1>1, <1>2, <4>2, TasksAssumption DEF TasksAssumption, IInv, RenewalInv, RowTypes
      <4>4. cert[o].row = o
        BY <1>1, <4>3 DEF RowsInv, OwnCerts
      <4>5. QED
        BY <1>2, <3>1, <3>2, <4>2, <4>4
    <3>3. CASE ~env.deletesInUse
      BY <1>2, <3>1, <3>3 DEF InUse
    <3>4. QED
      BY <3>2, <3>3
  <2>2. \A o \in Ops : UploadCertificate(o) => iam \subseteq iam'
    BY DEF UploadCertificate
  <2>3. QED
    BY <1>1, <1>2, <1>4, <2>1, <2>2 DEF RowStep
<1>5. QED
  BY <1>1, <1>3, <1>4, Frames

LEMMA FreshViewerKept == ASSUME ServedInv, [Next]_vars PROVE FreshViewer'
<1>1. /\ IInv /\ RowsInv /\ RowStep(InUse) /\ viewer \in Cert /\ viewer.row \in Owners
  BY Frames DEF ServedInv, IInv, CdnTypes, Cert
<1> SUFFICES ASSUME NEW op \in live', Updated(op)' PROVE expiry'[viewer'.row] > horizon'
  BY DEF FreshViewer
<1>2. op \in live /\ op \in Ops /\ (Updated(op) \/ UpdateDistribution(op))
  BY UpdatedBefore
<1>3. CASE \E o \in Ops : UpdateDistribution(o)
  <2>1. PICK o \in Ops : UpdateDistribution(o)
    BY <1>3
  <2>2. /\ cert[o].row = o /\ viewer' = cert[o] /\ expiry' = expiry /\ horizon' = horizon
        /\ expiry[o] > horizon
    BY <2>1, Brought
  <2>3. QED
    BY <2>2
<1>4. CASE Updated(op) /\ ~\E o \in Ops : UpdateDistribution(o)
  <2>1. viewer' = viewer
    BY <1>1, <1>4, Frames DEF OperatorEdits, CloudFrontDeploys, ConfigChanges
  <2>2. expiry[viewer.row] > horizon
    BY <1>2, <1>4 DEF ServedInv, FreshViewer
  <2>3. QED
    BY <1>1, <2>1, <2>2, StaysFresh DEF RowsInv, RowStep
<1>5. QED
  BY <1>2, <1>3, <1>4

LEMMA FreshEdgesKept == ASSUME ServedInv, [Next]_vars PROVE FreshEdges'
<1>1. /\ IInv /\ RowsInv /\ RowStep(InUse) /\ viewer \in Cert /\ edges \subseteq Cert
      /\ \A c \in Cert : c.row \in Owners
  BY Frames DEF ServedInv, IInv, CdnTypes, Cert
<1> SUFFICES ASSUME NEW op \in live', done'[op] >= 4, NEW c \in edges'
             PROVE  expiry'[c.row] > horizon'
  BY DEF FreshEdges
<1>2. /\ op \in live /\ op \in Ops
      /\ \/ done[op] >= 4
         \/ /\ done[op] = 3 /\ edges = {viewer}
            /\ UNCHANGED <<viewer, edges, expiry, horizon>>
  BY Waited
<1>3. Updated(op) /\ expiry[viewer.row] > horizon
  <2>1. Updated(op)
    BY <1>1, <1>2 DEF Updated, IInv, RenewalInv, TaskInv, TaskTypes
  <2>2. QED
    BY <1>2, <2>1 DEF ServedInv, FreshViewer
<1>4. CASE edges = {viewer} /\ UNCHANGED <<viewer, edges, expiry, horizon>>
  BY <1>3, <1>4
<1>5. CASE done[op] >= 4
  <2>1. \A d \in edges : expiry[d.row] > horizon
    BY <1>2, <1>5 DEF ServedInv, FreshEdges
  <2>2. ASSUME NEW o \in Ops, UpdateDistribution(o) PROVE expiry'[c.row] > horizon'
    <3>1. /\ cert[o].row = o /\ edges' = edges \cup {cert[o]} /\ UNCHANGED <<expiry, horizon>>
          /\ expiry[o] > horizon
      BY <2>2, Brought
    <3>2. QED
      BY <2>1, <3>1
  <2>3. CASE ~\E o \in Ops : UpdateDistribution(o)
    <3>1. c \in edges \cup {viewer}
      BY <1>1, <2>3, Frames DEF OperatorEdits, CloudFrontDeploys, ConfigChanges
    <3>2. c \in Cert /\ expiry[c.row] > horizon
      BY <1>1, <1>3, <2>1, <3>1
    <3>3. QED
      BY <1>1, <3>2, StaysFresh DEF RowsInv, RowStep
  <2>4. QED
    BY <2>2, <2>3
<1>6. QED
  BY <1>2, <1>4, <1>5

LEMMA ServedStarts == ASSUME Init PROVE ServedInv
<1>1. IInv /\ RowsInv
  BY CdnStarts, RowsStart DEF Init
<1>2. /\ live = {} /\ linked = Legacy /\ done = [op \in Ops |-> 0] /\ horizon = lastExpiry
      /\ viewer \in iam /\ edges = {viewer}
  BY DEF Init, RenewalInit
<1>3. Ops \cap Legacy = {} /\ lastExpiry \in Nat
  BY <1>1, TasksAssumption DEF TasksAssumption, IInv, RenewalInv, RowTypes
<1>4. LinkedLate /\ LinkedSoon /\ Edges /\ Associated /\ Everywhere /\ ServedWhereKept
  BY <1>2, <1>3 DEF LinkedLate, LinkedSoon, Edges, Associated, Everywhere, ServedWhereKept, Served
<1>5. FreshOps /\ FreshViewer /\ FreshEdges
  BY <1>2, <1>3 DEF FreshOps, FreshViewer, FreshEdges
<1>6. QED
  BY <1>1, <1>4, <1>5 DEF ServedInv

LEMMA ServedKeeps ==
  ASSUME ServedInv, [Next]_vars
  PROVE  /\ ServedInv'
         /\ RowsInv /\ RenewalInv' /\ RowStep(InUse) /\ BodyStep(InUse) /\ InOrder
<1>1. /\ IInv' /\ LifecycleStep
  BY CdnKeeps DEF ServedInv
<1>2. RowsInv /\ RenewalInv' /\ RowStep(InUse) /\ BodyStep(InUse) /\ InOrder
  BY <1>1, Frames, BodySteps, LinkedLateKept DEF ServedInv, IInv
<1>3. RowsInv' /\ FreshOps'
  BY <1>1, <1>2, RowsKeep, FreshOpsStay DEF ServedInv, RowsInv, RowStep
<1>4. QED
  BY <1>1, <1>2, <1>3, LinkedLateKept, EdgesKept, AssociatedKept, EverywhereKept, ServedKept,
     FreshViewerKept, FreshEdgesKept DEF ServedInv

LEMMA AlwaysServedInv == Spec => []ServedInv
<1>1. Init => ServedInv
  BY ServedStarts
<1>2. ServedInv /\ [Next]_vars => ServedInv'
  BY ServedKeeps
<1>3. QED
  BY <1>1, <1>2, PTL DEF Spec

(* What can be said when mark_complete closes an operation.                *)
LEMMA AtSuccess ==
  ASSUME ServedInv, [Next]_vars, NEW op \in Ops, Succeeds(op)
  PROVE  op \in live /\ done[op] = 5 /\ op \in linked
<1>0. RenewalInv /\ opState[op] # "succeeded" /\ opState'[op] = "succeeded"
  BY DEF ServedInv, IInv, Succeeds
<1>1. ASSUME NEW o \in Ops, CdnStep(o) PROVE FALSE
  <2>1. CASE LinkCertificate(o) \/ WaiterGivesUp(o)
    <3>1. opState' = opState \/ opState' = [opState EXCEPT ![o] = "failed"]
      BY <2>1 DEF LinkCertificate, WaiterGivesUp, BodyEnds, Raises
    <3>2. QED
      BY <1>0, <3>1 DEF RenewalInv, TaskInv, TaskTypes
  <2>2. CASE ReadConfig(o) \/ UpdateDistribution(o) \/ WaitForDistribution(o)
    BY <1>0, <2>2 DEF ReadConfig, UpdateDistribution, WaitForDistribution, BodyGoesOn
  <2>3. QED
    BY <1>1, <2>1, <2>2 DEF CdnStep
<1>2. MarkComplete(op)
  BY <1>0, <1>1, Steps, CommonSuccess DEF ServedInv
<1>3. op \in live /\ done[op] = 5
  BY <1>0, <1>2, PositionOf DEF MarkComplete
<1>4. op \in linked
  BY <1>3 DEF ServedInv, LinkedSoon
<1>5. QED
  BY <1>3, <1>4

(* Retired, in the invariant that keeps it.                                *)
RetiredInv == Distinct /\ Retired

LEMMA RetiredKept ==
  ASSUME NoTies
  PROVE  ServedInv /\ RetiredInv /\ [Next]_vars => RetiredInv'
BY ServedKeeps, DistinctStays, RetiredStays DEF RetiredInv

-----------------------------------------------------------------------------
(* The theorems                                                            *)

(* The rows, IAM, the distribution and the tasks keep to their types.      *)
THEOREM CdnTypeCorrect == Spec => []TypeOK
<1>1. IInv => TypeOK
  BY TypesOfRenewal DEF IInv, TypeOK, RenewalInv, TaskInv, CdnTypes
<1>2. QED
  BY <1>1, AlwaysIInv, PTL

(* However many operations and operators change the config at the same     *)
(* time, associate_certificate never writes back old settings.             *)
THEOREM CdnEditsAreKept == Spec => EditsAreKept
<1>1. IInv /\ [Next]_vars => [settings' >= settings]_vars
  BY CdnKeeps DEF SettingsStay
<1>2. QED
  BY <1>1, AlwaysIInv, PTL DEF Spec, EditsAreKept

(* A row that belongs to the route has had its upload.                     *)
THEOREM CdnLinkedRowsHaveCerts == Spec => []LinkedRowsHaveCerts
<1>1. IInv => LinkedRowsHaveCerts
  BY DEF IInv, RenewalInv
<1>2. QED
  BY <1>1, AlwaysIInv, PTL

(* Every step of the pipeline is a step of its operation's lifecycle, or   *)
(* leaves all operations as they are.                                      *)
THEOREM CdnImplementsLifecycle == Spec => ImplementsLifecycle
<1>1. Init => Lifecycle!Init
  BY CdnStarts
<1>2. IInv /\ [Next]_vars => [Lifecycle!Next]_(Lifecycle!lifecycleVars)
  BY CdnKeeps DEF LifecycleStep
<1>3. QED
  BY <1>1, <1>2, AlwaysIInv, PTL DEF Spec, ImplementsLifecycle, Lifecycle!Spec

(* No edge of the distribution is ever without its certificate, whatever   *)
(* raises, is retried or is lost: where the operations of the route do not *)
(* overlap, even if IAM deletes what is in use, and where they do, if IAM  *)
(* does not.                                                               *)
THEOREM CdnAlwaysServed == Spec => [](Alone \/ ~env.deletesInUse => Served)
<1>1. ServedInv => (Alone \/ ~env.deletesInUse => Served)
  BY DEF ServedInv, ServedWhereKept
<1>2. QED
  BY <1>1, AlwaysServedInv, PTL

(* An operation that mark_complete closes while no other is on its way has *)
(* its row linked and its certificate in the config and on every edge.     *)
THEOREM CdnSuccessRenews == Spec => SuccessRenews
<1>1. ServedInv /\ [Next]_vars =>
        [Alone => \A op \in Ops : Succeeds(op) =>
           op \in linked /\ viewer = cert[op] /\ edges = {cert[op]}]_vars
  <2> SUFFICES ASSUME ServedInv, [Next]_vars, Alone, NEW op \in Ops, Succeeds(op)
               PROVE  op \in linked /\ viewer = cert[op] /\ edges = {cert[op]}
    OBVIOUS
  <2>1. op \in live /\ done[op] = 5 /\ op \in linked
    BY AtSuccess
  <2>2. QED
    BY <2>1 DEF ServedInv, Associated, Everywhere, Updated
<1>2. QED
  BY <1>1, AlwaysServedInv, PTL DEF Spec, SuccessRenews

(* However many operations of the route overlap, one that mark_complete    *)
(* closes leaves only certificates that are not due on the edges.          *)
THEOREM CdnSuccessServesFresh == Spec => SuccessServesFresh
<1>1. ServedInv /\ [Next]_vars =>
        [\A op \in Ops : Succeeds(op) =>
           \A c \in edges : expiry[c.row] > horizon]_vars
  <2> SUFFICES ASSUME ServedInv, [Next]_vars, NEW op \in Ops, Succeeds(op),
                      NEW c \in edges
               PROVE  expiry[c.row] > horizon
    OBVIOUS
  <2>1. op \in live /\ done[op] = 5
    BY AtSuccess
  <2>2. QED
    BY <2>1 DEF ServedInv, FreshEdges
<1>2. QED
  BY <1>1, AlwaysServedInv, PTL DEF Spec, SuccessServesFresh

(* Then the certificate of the row that was the newest before is not in    *)
(* IAM any more, if the row knew its name.  Two old rows that end at the   *)
(* same time would both be the newest, and only one of them is deleted.    *)
THEOREM CdnSuccessRetires ==
  ASSUME NoTies
  PROVE  Spec => SuccessRetires
<1>1. Init => RetiredInv
  <2> SUFFICES ASSUME Init PROVE RetiredInv
    OBVIOUS
  <2>1. Distinct /\ live = {}
    BY DistinctAtFirst DEF Init, RenewalInit
  <2>2. QED
    BY <2>1 DEF RetiredInv, Retired
<1>2. ServedInv /\ RetiredInv /\ [Next]_vars => RetiredInv'
  BY RetiredKept
<1>3. ServedInv /\ RetiredInv /\ [Next]_vars =>
        [Alone => \A op \in Ops : Succeeds(op) =>
           \A r \in Newest(linked \ {op}) : Name(r) \notin iam]_vars
  <2> SUFFICES ASSUME ServedInv, RetiredInv, [Next]_vars, Alone,
                      NEW op \in Ops, Succeeds(op), NEW r \in Newest(linked \ {op})
               PROVE  Name(r) \notin iam
    OBVIOUS
  <2>1. op \in live /\ done[op] = 5 /\ op \in linked
    BY AtSuccess
  <2>2. PastDelete(op)
    BY <2>1, PastDeleteIs DEF ServedInv, IInv
  <2>3. QED
    BY <2>1, <2>2 DEF RetiredInv, Retired
<1>4. QED
  BY <1>1, <1>2, <1>3, AlwaysServedInv, PTL DEF Spec, SuccessRetires
=============================================================================
