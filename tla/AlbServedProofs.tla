---------------------------- MODULE AlbServedProofs ----------------------------
(***************************************************************************)
(* Why an ALB route stays served while its certificate is renewed, why the *)
(* listener never refers to what has been deleted, and why an operation    *)
(* that succeeds has renewed the certificate and retired the old one, for  *)
(* every number of operations, rows and retries.                           *)
(*                                                                         *)
(* Without backports, the argument is about the certificate of an          *)
(* operation that is on its way.  No other operation removes or deletes it *)
(* as long as its row is not linked, because they look only at linked      *)
(* rows; and the operation itself does not, because the certificate it     *)
(* reads is that of another row.  The latter needs the order of the rows   *)
(* by their expiry.  So does that the two tasks which read an old row,     *)
(* one before the new row is linked and one after, read the same.          *)
(*                                                                         *)
(* With backports, another row may name the certificate, and the argument  *)
(* is only that remove_old_certificate knows its own arn.                  *)
(***************************************************************************)
EXTENDS AlbRenewalProofs, WellFoundedInduction

(* Where the route has to be served: operations do not overlap, or they do *)
(* but no answer is lost and IAM keeps a certificate that is in use.       *)
Calm == Alone \/ (~env.lostAnswers /\ ~env.deletesInUse)

(* Nothing is imported.                                                    *)
NoImports == import = NoCert /\ linked \cap Imports = {}

(* A row is linked by remove_old_certificate, whose answer may be lost.    *)
LinkedLate ==
  \A op \in Ops \cap linked :
    done[op] >= 3 /\ (done[op] = 3 => env.lostAnswers)

(* What remove_old_certificate has read of the rows.                       *)
SeenByRemove ==
  \A op \in Ops : AtStage(op, "remove_old_certificate", "read") =>
    seen[op] \in Cert /\ seen[op].row \in linked

(* The certificate of an operation whose row nobody else looks at.         *)
OnListener == \A op \in Ops : Hidden(op) /\ done[op] >= 3 => cert[op] \in listener

ServedWhenCalm == Calm => Served

ServedInv ==
  /\ IInv /\ NoImports /\ RowsInv
  /\ LinkedLate /\ SeenByRemove /\ OnListener /\ ServedWhenCalm

-----------------------------------------------------------------------------
(* Where the tasks are                                                     *)

(* The positions of the stages.                                            *)
LEMMA Positions ==
  /\ NumStages = 7
  /\ Pipeline[1] = "issue" /\ Pipeline[2] = "upload_certificate"
  /\ Pipeline[3] = "associate_certificate" /\ Pipeline[4] = "remove_old_certificate"
  /\ Pipeline[5] = "wait_for_cert_update" /\ Pipeline[6] = "delete_old_certificate"
  /\ Pipeline[7] = "mark_complete"
BY AlbAssumption DEF AlbAssumption, AlbPipeline, NumStages

LEMMA PositionOf ==
  ASSUME IInv, NEW op, NEW stage, NEW s, AtStage(op, stage, s)
  PROVE  /\ op \in live /\ op \in Ops
         /\ stage = "issue" => done[op] = 0
         /\ stage = "upload_certificate" => done[op] = 1
         /\ stage = "associate_certificate" => done[op] = 2
         /\ stage = "remove_old_certificate" => done[op] = 3
         /\ stage = "wait_for_cert_update" => done[op] = 4
         /\ stage = "delete_old_certificate" => done[op] = 5
         /\ stage = "mark_complete" => done[op] = 6
<1>1. op \in live /\ op \in Ops /\ done[op] \in 0..NumStages /\ done[op] < NumStages
  BY DEF AtStage, IInv, RenewalInv, TaskInv, TaskTypes
<1>2. /\ done[op] = 0 \/ done[op] = 1 \/ done[op] = 2 \/ done[op] = 3 \/ done[op] = 4
         \/ done[op] = 5 \/ done[op] = 6
  BY <1>1, Positions
<1>3. Pipeline[done[op] + 1] = stage
  BY DEF AtStage
<1>4. QED
  BY <1>1, <1>2, <1>3, Positions

(* Past delete_old_certificate are those that have done six stages.        *)
LEMMA DeleteIsSixth ==
  ASSUME NEW n \in 0..7
  PROVE  (\E i \in 1..n : Pipeline[i] = "delete_old_certificate") <=> n >= 6
<1>1. ASSUME NEW i \in 1..n, Pipeline[i] = "delete_old_certificate" PROVE n >= 6
  <2>1. i # 1 /\ i # 2 /\ i # 3 /\ i # 4 /\ i # 5
    BY <1>1, Positions
  <2>2. QED
    BY <2>1
<1>2. ASSUME n >= 6 PROVE 6 \in 1..n
  BY <1>2
<1>3. QED
  BY <1>1, <1>2, Positions

LEMMA PastDeleteIs ==
  ASSUME RenewalInv, NEW op \in Ops
  PROVE  PastDelete(op) <=> done[op] >= 6
<1>1. done[op] \in 0..7
  BY Positions DEF RenewalInv, TaskInv, TaskTypes
<1>2. QED
  BY <1>1, DeleteIsSixth DEF PastDelete

-----------------------------------------------------------------------------
(* What changes what                                                       *)

(* Nothing is imported where no backport runs.                             *)
LEMMA NoBackport ==
  ASSUME ~RunBackports, IInv, NoImports, [Next]_vars
  PROVE  ~BackportReads /\ ~BackportSaves
BY DEF BackportReads, BackportSaves, NoImports

(* A step of an operation, of the clock or of nobody.                      *)
LEMMA Steps ==
  ASSUME ~RunBackports, IInv, NoImports, [Next]_vars
  PROVE  \/ \E op \in Ops : AlbStep(op)
         \/ \E op \in Ops : CommonStep(op, listener) /\ UNCHANGED <<listener, import>>
         \/ /\ UNCHANGED <<opState, done, taskVars, rowVars, iam, env, listener, import>>
            /\ RowStep(listener)
<1>1. CASE \E op \in Ops : AlbStep(op)
  BY <1>1
<1>2. CASE \E op \in Ops : CommonStep(op, listener) /\ UNCHANGED albVars
  BY <1>2 DEF albVars
<1>3. CASE \/ NewDay /\ sixAhead' = TRUE /\ UNCHANGED <<listener, import>>
           \/ ExpiryNears /\ UNCHANGED albVars
  BY <1>3, ClockRowStep DEF albVars
<1>4. CASE UNCHANGED vars
  BY <1>4 DEF vars, renewalVars, timeVars, taskVars, rowVars, albVars, RowStep, DateStep
<1>5. QED
  BY <1>1, <1>2, <1>3, <1>4, NoBackport DEF Next

(* What changes the rows, IAM and the listener.                            *)
LEMMA Frames ==
  ASSUME ~RunBackports, IInv, NoImports, [Next]_vars
  PROVE  /\ RowStep(listener) /\ UNCHANGED <<env, import>>
         /\ linked' = linked \/ \E op \in Ops : LinkCertificate(op)
         /\ iam' = iam \/ listener' = listener
         /\ listener' = listener \/ \E op \in Ops : AssociateCertificate(op)
                                                 \/ RemoveOldCertificate(op)
<1>1. ASSUME NEW op \in Ops, AlbStep(op)
      PROVE  /\ RowStep(listener) /\ UNCHANGED <<import, iam>>
             /\ linked' = linked \/ LinkCertificate(op)
             /\ listener' = listener \/ AssociateCertificate(op) \/ RemoveOldCertificate(op)
  <2>1. CASE AssociateCertificate(op)
    <3>1. live' \subseteq live
      BY <2>1, HowBodiesAreLeft DEF AssociateCertificate
    <3>2. QED
      BY <2>1, <3>1 DEF AssociateCertificate, rowVars, timeVars, RowStep, DateStep
  <2>2. CASE ReadOldCertificate(op)
    <3>1. live' \subseteq live
      BY <2>2, HowBodiesAreLeft DEF ReadOldCertificate, BodyGoesOn
    <3>2. QED
      BY <2>2, <3>1 DEF ReadOldCertificate, rowVars, timeVars, albVars, RowStep, DateStep
  <2>3. CASE RemoveOldCertificate(op)
    BY <2>3 DEF RemoveOldCertificate, BodyGoesOn, rowVars, timeVars, RowStep, DateStep
  <2>4. CASE LinkCertificate(op)
    <3>1. op \in live /\ done[op] = 3 /\ AtStage(op, "remove_old_certificate", "called")
      BY <2>4, PositionOf DEF LinkCertificate
    <3>2. ~AtStage(op, "delete_old_certificate", "read") /\ ~PastDelete(op)
      BY <3>1, PastDeleteIs DEF AtStage, IInv
    <3>3. live' \subseteq live
      BY <2>4, HowBodiesAreLeft DEF LinkCertificate
    <3>4. QED
      BY <2>4, <3>1, <3>2, <3>3 DEF LinkCertificate, timeVars, albVars, RowStep, DateStep
  <2>5. CASE WaitForCertUpdate(op)
    <3>1. live' \subseteq live
      BY <2>5, HowBodiesAreLeft DEF WaitForCertUpdate
    <3>2. QED
      BY <2>5, <3>1 DEF WaitForCertUpdate, rowVars, timeVars, albVars, RowStep, DateStep
  <2>6. QED
    BY <1>1, <2>1, <2>2, <2>3, <2>4, <2>5 DEF AlbStep
<1>2. CASE \E op \in Ops : AlbStep(op)
  <2>1. PICK op \in Ops : AlbStep(op)
    BY <1>2
  <2>2. QED
    BY <2>1, <1>1 DEF RowStep, DateStep
<1>3. CASE \E op \in Ops : CommonStep(op, listener) /\ UNCHANGED <<listener, import>>
  BY <1>3, CommonRowStep DEF RowStep, DateStep
<1>4. CASE /\ UNCHANGED <<opState, done, taskVars, rowVars, iam, env, listener, import>>
           /\ RowStep(listener)
  BY <1>4 DEF rowVars
<1>5. QED
  BY <1>2, <1>3, <1>4, Steps

(* The task that takes an operation from one stage to the next.            *)
Advances(op) ==
  /\ done' = [done EXCEPT ![op] = @ + 1]
  /\ op \in live
  /\ done[op] = 0 => IssueCertificate(op)
  /\ done[op] = 1 => SaveUpload(op) \/ AlreadyUploaded(op)
  /\ done[op] = 2 => AssociateCertificate(op)
  /\ done[op] = 3 => \/ LinkCertificate(op)
                     \/ ReadOldCertificate(op) /\ \E r \in First : Arn(r) = NoCert
  /\ done[op] = 5 => \/ DeletePreviousCertificate(op, listener)
                     \/ ReadPreviousCertificate(op) /\ \E r \in Second : Name(r) = NoCert

LeavesBody(op) == BodyIsLeft(op) /\ live' \subseteq live /\ (done' = done \/ Advances(op))

(* The read that remove_old_certificate goes on with.                      *)
ReadsOld(op) ==
  /\ ReadOldCertificate(op)
  /\ \E r \in First : Arn(r) # NoCert /\ BodyGoesOn(op, "read", Arn(r))

(* What one step does to the task that takes it.                           *)
LEMMA TaskSteps ==
  ASSUME IInv, NEW op \in Ops, AlbStep(op) \/ CommonStep(op, listener)
  PROVE  \/ LeavesBody(op)
         \/ UploadCertificate(op) \/ ReadsOld(op) \/ RemoveOldCertificate(op)
         \/ ReadsPrevious(op) \/ RenewAllCerts(op)
<1>1. CASE IssueCertificate(op)
  <2>1. op \in live /\ done[op] = 0
    BY <1>1, PositionOf DEF IssueCertificate
  <2>2. QED
    BY <1>1, <2>1, HowBodiesAreLeft DEF LeavesBody, Advances, IssueCertificate
<1>2. CASE SaveUpload(op) \/ AlreadyUploaded(op)
  <2>1. op \in live /\ done[op] = 1
    BY <1>2, PositionOf DEF SaveUpload, AlreadyUploaded
  <2>2. QED
    BY <1>2, <2>1, HowBodiesAreLeft DEF LeavesBody, Advances, SaveUpload, AlreadyUploaded
<1>3. CASE AssociateCertificate(op)
  <2>1. op \in live /\ done[op] = 2
    BY <1>3, PositionOf DEF AssociateCertificate
  <2>2. QED
    BY <1>3, <2>1, HowBodiesAreLeft DEF LeavesBody, Advances, AssociateCertificate
<1>4. CASE LinkCertificate(op)
  <2>1. op \in live /\ done[op] = 3
    BY <1>4, PositionOf DEF LinkCertificate
  <2>2. QED
    BY <1>4, <2>1, HowBodiesAreLeft DEF LeavesBody, Advances, LinkCertificate
<1>5. CASE ReadOldCertificate(op)
  <2>1. op \in live /\ done[op] = 3
    BY <1>5, PositionOf DEF ReadOldCertificate
  <2>2. PICK r \in First : \/ Arn(r) # NoCert /\ BodyGoesOn(op, "read", Arn(r))
                           \/ Arn(r) = NoCert /\ Returns(op) /\ UNCHANGED opState
    BY <1>5 DEF ReadOldCertificate
  <2>3. CASE Arn(r) # NoCert /\ BodyGoesOn(op, "read", Arn(r))
    BY <1>5, <2>3 DEF ReadsOld
  <2>4. CASE Arn(r) = NoCert /\ Returns(op) /\ UNCHANGED opState
    BY <1>5, <2>1, <2>4, HowBodiesAreLeft DEF LeavesBody, Advances
  <2>5. QED
    BY <2>2, <2>3, <2>4
<1>6. CASE ReadPreviousCertificate(op)
  <2>1. op \in live /\ done[op] = 5
    BY <1>6, PositionOf DEF ReadPreviousCertificate
  <2>2. PICK r \in Second : \/ Name(r) # NoCert /\ BodyGoesOn(op, "read", Name(r))
                            \/ Name(r) = NoCert /\ Returns(op) /\ UNCHANGED opState
    BY <1>6 DEF ReadPreviousCertificate
  <2>3. CASE Name(r) # NoCert /\ BodyGoesOn(op, "read", Name(r))
    BY <1>6, <2>3 DEF ReadsPrevious
  <2>4. CASE Name(r) = NoCert /\ Returns(op)
    BY <1>6, <2>1, <2>4, HowBodiesAreLeft DEF LeavesBody, Advances
  <2>5. QED
    BY <2>2, <2>3, <2>4
<1>7. CASE WaitForCertUpdate(op) \/ MarkComplete(op)
  <2>1. op \in live /\ (done[op] = 4 \/ done[op] = 6)
    BY <1>7, PositionOf DEF WaitForCertUpdate, MarkComplete
  <2>2. BodyEnds(op) \/ Returns(op) \/ \E state : Raises(op, state)
    BY <1>7 DEF WaitForCertUpdate, MarkComplete
  <2>3. QED
    BY <2>1, <2>2, HowBodiesAreLeft DEF LeavesBody, Advances
<1>8. CASE Raise(op) \/ LoseTask(op)
  BY <1>8 DEF LeavesBody, Raise, Raises, LoseTask
<1>9. CASE DeletePreviousCertificate(op, listener)
  <2>1. op \in live /\ done[op] = 5
    BY <1>9, PositionOf DEF DeletePreviousCertificate
  <2>2. QED
    BY <1>9, <2>1, HowBodiesAreLeft DEF LeavesBody, Advances, DeletePreviousCertificate
<1>10. CASE UploadCertificate(op) \/ RemoveOldCertificate(op) \/ RenewAllCerts(op)
  BY <1>10
<1>11. QED
  BY <1>1, <1>2, <1>3, <1>4, <1>5, <1>6, <1>7, <1>8, <1>9, <1>10 DEF AlbStep, CommonStep

(* The clock and the backport leave all of them alone.                     *)
LEMMA AnyTaskSteps ==
  ASSUME IInv, [Next]_vars
  PROVE  \/ \E op \in Ops : \/ LeavesBody(op)
                            \/ UploadCertificate(op) \/ ReadsOld(op)
                            \/ RemoveOldCertificate(op) \/ ReadsPrevious(op)
                            \/ RenewAllCerts(op)
         \/ UNCHANGED <<done, taskVars>>
<1>1. CASE \E op \in Ops : AlbStep(op) \/ CommonStep(op, listener)
  BY <1>1, TaskSteps
<1>2. CASE NewDay \/ ExpiryNears \/ BackportReads \/ BackportSaves \/ UNCHANGED vars
  BY <1>2 DEF NewDay, ExpiryNears, BackportReads, BackportSaves, vars, renewalVars
<1>3. QED
  BY <1>1, <1>2 DEF Next

(* An operation gets on only by the task of its stage.                     *)
LEMMA GettingOn ==
  ASSUME IInv, [Next]_vars, NEW op \in Ops, done'[op] # done[op]
  PROVE  Advances(op) /\ done'[op] = done[op] + 1
<1>1. \A o \in Ops : Advances(o) => done'[op] = IF o = op THEN done[op] + 1 ELSE done[op]
  BY DEF Advances, IInv, RenewalInv, TaskInv, TaskTypes
<1>2. PICK o \in Ops : \/ LeavesBody(o) \/ UploadCertificate(o) \/ ReadsOld(o)
                       \/ RemoveOldCertificate(o) \/ ReadsPrevious(o) \/ RenewAllCerts(o)
  BY AnyTaskSteps
<1>3. Advances(o)
  BY <1>2 DEF LeavesBody, UploadCertificate, ReadsOld, RemoveOldCertificate, ReadsPrevious,
              RenewAllCerts, BodyGoesOn
<1>4. QED
  BY <1>1, <1>3

(* A body is half done only after the call or the read that makes it so.   *)
LEMMA HalfDone ==
  ASSUME IInv, [Next]_vars, NEW op \in Ops, NEW stage, NEW s,
         AtStage(op, stage, s)', s # "start"
  PROVE  \/ AtStage(op, stage, s) /\ seen'[op] = seen[op]
         \/ stage = "upload_certificate" /\ UploadCertificate(op)
         \/ stage = "remove_old_certificate" /\ s = "read" /\ ReadsOld(op)
         \/ stage = "remove_old_certificate" /\ s = "called" /\ RemoveOldCertificate(op)
         \/ stage = "delete_old_certificate" /\ ReadsPrevious(op)
<1>0. /\ step \in [Ops -> {"start", "read", "called"}] /\ seen \in [Ops -> Cert \cup {NoCert}]
      /\ done \in [Ops -> 0..NumStages]
  BY DEF IInv, RenewalInv, TaskInv, TaskTypes
<1>1. CASE UNCHANGED <<done, taskVars>>
  BY <1>1 DEF AtStage, taskVars, NumStages
<1>2. ASSUME NEW o \in Ops, LeavesBody(o)
      PROVE  AtStage(op, stage, s) /\ seen'[op] = seen[op]
  <2>1. o # op
    BY <1>0, <1>2 DEF AtStage, LeavesBody, BodyIsLeft
  <2>2. done'[op] = done[op] /\ step'[op] = step[op] /\ seen'[op] = seen[op]
    BY <1>0, <1>2, <2>1 DEF LeavesBody, BodyIsLeft, Advances
  <2>3. QED
    BY <1>2, <2>2 DEF AtStage, LeavesBody, NumStages
<1>3. ASSUME NEW o \in Ops, NEW t, NEW c, BodyGoesOn(o, t, c)
      PROVE  \/ AtStage(op, stage, s) /\ seen'[op] = seen[op]
             \/ o = op /\ t = s /\ stage = Pipeline[done[op] + 1]
  BY <1>0, <1>3 DEF BodyGoesOn, AtStage, NumStages
<1>4. ASSUME NEW o \in Ops, RenewAllCerts(o)
      PROVE  AtStage(op, stage, s) /\ seen'[op] = seen[op]
  <2>1. o \notin live /\ step[o] = "start"
    BY <1>4 DEF RenewAllCerts, IInv, RenewalInv, TaskInv, OpenOps, AtRest
  <2>2. live' = live \cup {o} /\ UNCHANGED <<done, step, seen>>
    BY <1>4 DEF RenewAllCerts
  <2>3. QED
    BY <2>1, <2>2 DEF AtStage, NumStages
<1>5. ASSUME NEW o \in Ops,
             UploadCertificate(o) \/ ReadsOld(o) \/ RemoveOldCertificate(o) \/ ReadsPrevious(o)
      PROVE  \/ AtStage(op, stage, s) /\ seen'[op] = seen[op]
             \/ stage = "upload_certificate" /\ UploadCertificate(op)
             \/ stage = "remove_old_certificate" /\ s = "read" /\ ReadsOld(op)
             \/ stage = "remove_old_certificate" /\ s = "called" /\ RemoveOldCertificate(op)
             \/ stage = "delete_old_certificate" /\ ReadsPrevious(op)
  <2>1. CASE UploadCertificate(o)
    <3>1. /\ BodyGoesOn(o, "called", [row |-> o, day |-> day])
          /\ Pipeline[done[o] + 1] = "upload_certificate"
      BY <2>1 DEF UploadCertificate, AtStage
    <3>2. QED
      BY <1>3, <2>1, <3>1
  <2>2. CASE ReadsOld(o)
    <3>1. /\ \E c : BodyGoesOn(o, "read", c)
          /\ Pipeline[done[o] + 1] = "remove_old_certificate"
      BY <2>2 DEF ReadsOld, ReadOldCertificate, AtStage
    <3>2. QED
      BY <1>3, <2>2, <3>1
  <2>3. CASE RemoveOldCertificate(o)
    <3>1. /\ BodyGoesOn(o, "called", seen[o])
          /\ Pipeline[done[o] + 1] = "remove_old_certificate"
      BY <2>3 DEF RemoveOldCertificate, AtStage
    <3>2. QED
      BY <1>3, <2>3, <3>1
  <2>4. CASE ReadsPrevious(o)
    <3>1. /\ \E c : BodyGoesOn(o, "read", c)
          /\ Pipeline[done[o] + 1] = "delete_old_certificate"
      BY <2>4 DEF ReadsPrevious, ReadPreviousCertificate, AtStage
    <3>2. QED
      BY <1>3, <2>4, <3>1
  <2>5. QED
    BY <1>5, <2>1, <2>2, <2>3, <2>4
<1>6. QED
  BY <1>1, <1>2, <1>4, <1>5, AnyTaskSteps

-----------------------------------------------------------------------------
(* Every part of the invariant is kept                                     *)

(* Everything holds at first.                                              *)
LEMMA ServedStarts == ASSUME Init PROVE ServedInv
<1>1. IInv /\ RowsInv
  BY AlbStarts, RowsStart DEF Init
<1>2. /\ live = {} /\ linked = Legacy /\ import = NoCert
      /\ iam = {OldCert(r) : r \in First \cup Manual}
      /\ listener = iam \/ listener = {OldCert(m) : m \in Manual}
      /\ listener # {}
  BY DEF Init, RenewalInit
<1>3. Ops \cap Legacy = {} /\ Imports \cap Legacy = {}
  BY TasksAssumption DEF TasksAssumption
<1>4. NoImports /\ LinkedLate /\ OnListener /\ SeenByRemove
  BY <1>2, <1>3 DEF NoImports, LinkedLate, OnListener, Hidden, SeenByRemove, AtStage
<1>5. ServedWhenCalm
  BY <1>2 DEF ServedWhenCalm, Served
<1>6. QED
  BY <1>1, <1>4, <1>5 DEF ServedInv

LEMMA BodySteps ==
  ASSUME ~RunBackports, IInv, NoImports, [Next]_vars
  PROVE  BodyStep(listener)
<1> SUFFICES ASSUME NEW op \in Ops
             PROVE  /\ done'[op] >= 1 => done[op] >= 1 \/ IssueCertificate(op)
                    /\ PastDelete(op)' =>
                         \/ PastDelete(op) \/ DeletePreviousCertificate(op, listener)
                         \/ ReadPreviousCertificate(op) /\ \E r \in Second : Name(r) = NoCert
  BY HalfDone DEF BodyStep, IssueStep
<1>1. done[op] \in 0..7 /\ done'[op] \in 0..7 /\ RenewalInv
  BY AlbKeeps, Positions DEF IInv, RenewalInv, TaskInv, TaskTypes, NumStages
<1>2. CASE done'[op] = done[op]
  BY <1>1, <1>2 DEF PastDelete
<1>3. CASE Advances(op) /\ done'[op] = done[op] + 1
  <2>1. done'[op] >= 1 => done[op] >= 1 \/ IssueCertificate(op)
    BY <1>1, <1>3 DEF Advances
  <2>2. ASSUME PastDelete(op)', ~PastDelete(op) PROVE done[op] = 5
    <3>1. done'[op] >= 6
      BY <1>1, <2>2, DeleteIsSixth DEF PastDelete
    <3>2. ~(done[op] >= 6)
      BY <1>1, <2>2, PastDeleteIs
    <3>3. QED
      BY <1>1, <1>3, <3>1, <3>2
  <2>3. QED
    BY <1>3, <2>1, <2>2 DEF Advances
<1>4. QED
  BY <1>2, <1>3, GettingOn

LEMMA ImportsKept ==
  ASSUME ~RunBackports, ServedInv, [Next]_vars PROVE NoImports' /\ linked \subseteq linked'
BY Frames, LinkedForGood DEF ServedInv, NoImports

LEMMA LinkedLateKept ==
  ASSUME ~RunBackports, ServedInv, [Next]_vars PROVE LinkedLate'
<1>1. IInv /\ NoImports /\ done \in [Ops -> 0..NumStages] /\ env' = env
  BY Frames DEF ServedInv, IInv, RenewalInv, TaskInv, TaskTypes
<1> SUFFICES ASSUME NEW op \in Ops, op \in linked'
             PROVE  done'[op] >= 3 /\ (done'[op] = 3 => env.lostAnswers)
  BY <1>1 DEF LinkedLate
<1>2. CASE op \in linked
  <2>1. done[op] >= 3 /\ (done[op] = 3 => env.lostAnswers) /\ done[op] \in Nat
    BY <1>1, <1>2 DEF ServedInv, LinkedLate
  <2>2. done'[op] = done[op] \/ done'[op] = done[op] + 1
    BY <1>1, GettingOn
  <2>3. CASE done'[op] = done[op]
    BY <2>1, <2>3
  <2>4. CASE done'[op] = done[op] + 1
    BY <2>1, <2>4
  <2>5. QED
    BY <2>2, <2>3, <2>4
<1>3. CASE op \notin linked
  <2>1. LinkCertificate(op)
    BY <1>1, <1>3, Frames DEF LinkCertificate
  <2>2. done[op] = 3
    BY <1>1, <2>1, PositionOf DEF LinkCertificate
  <2>3. Returns(op) \/ (env.lostAnswers /\ Raises(op, opState))
    BY <2>1 DEF LinkCertificate, BodyEnds
  <2>4. done'[op] = 4 \/ (env.lostAnswers /\ done'[op] = 3)
    BY <1>1, <2>2, <2>3 DEF Returns, Raises
  <2>5. QED
    BY <2>4
<1>4. QED
  BY <1>2, <1>3

(* Before it has uploaded its certificate, an operation is not linked.     *)
LEMMA NotLinkedEarly ==
  ASSUME ServedInv, NEW op \in Ops, done[op] = 0 \/ done[op] = 1 \/ done[op] = 2
  PROVE  op \notin linked
BY DEF ServedInv, LinkedLate

LEMMA InThatOrder == ASSUME ServedInv PROVE InOrder
<1> SUFFICES ASSUME NEW op \in Ops
             PROVE  /\ op \in linked => done[op] >= 1
                    /\ AtStage(op, "upload_certificate", "called") => op \notin linked
                    /\ \A s \in {"start", "read"} :
                         AtStage(op, "delete_old_certificate", s) => done[op] >= 1
  BY DEF InOrder
<1>1. IInv /\ done[op] \in Nat
  BY DEF ServedInv, IInv, RenewalInv, TaskInv, TaskTypes
<1>2. op \in linked => done[op] >= 3
  BY DEF ServedInv, LinkedLate
<1>3. AtStage(op, "upload_certificate", "called") => done[op] = 1
  BY <1>1, PositionOf
<1>4. \A s \in {"start", "read"} : AtStage(op, "delete_old_certificate", s) => done[op] = 5
  BY <1>1, PositionOf
<1>5. QED
  BY <1>1, <1>2, <1>3, <1>4

(* From its upload on, it has a certificate of its own.                    *)
LEMMA OwnCert ==
  ASSUME ServedInv, NEW op \in Ops, done[op] >= 2
  PROVE  cert[op] \in Cert /\ cert[op].row = op /\ cert[op] # NoCert
<1>1. 2 \in 1..done[op]
  BY Positions DEF ServedInv, IInv, RenewalInv, TaskInv, TaskTypes
<1>2. QED
  BY <1>1, Positions, UploadedCert DEF ServedInv

LEMMA SeenByRemoveKept ==
  ASSUME ~RunBackports, ServedInv, [Next]_vars PROVE SeenByRemove'
<1>1. IInv /\ NoImports /\ linked \subseteq linked'
  BY ImportsKept DEF ServedInv
<1> SUFFICES ASSUME NEW op \in Ops, AtStage(op, "remove_old_certificate", "read")'
             PROVE  seen'[op] \in Cert /\ seen'[op].row \in linked'
  BY DEF SeenByRemove
<1>2. CASE ReadsOld(op)
  <2>1. PICK r \in First : Arn(r) # NoCert /\ BodyGoesOn(op, "read", Arn(r))
    BY <1>2 DEF ReadsOld
  <2>2. r \in linked /\ Arn(r) = cert[r]
    BY <2>1 DEF First, Newest, Arn
  <2>3. seen'[op] = cert[r]
    BY <1>1, <2>1, <2>2 DEF BodyGoesOn, IInv, RenewalInv, TaskInv, TaskTypes
  <2>4. QED
    BY <1>1, <2>2, <2>3, LinkedCert DEF ServedInv
<1>3. CASE AtStage(op, "remove_old_certificate", "read") /\ seen'[op] = seen[op]
  BY <1>1, <1>3 DEF ServedInv, SeenByRemove
<1>4. QED
  BY <1>1, <1>2, <1>3, HalfDone

-----------------------------------------------------------------------------
(* The certificate of an operation that is on its way stays                *)

LEMMA OnListenerKept ==
  ASSUME ~RunBackports, ServedInv, [Next]_vars PROVE OnListener'
<1>1. /\ IInv /\ NoImports /\ done \in [Ops -> 0..NumStages]
      /\ RowsInv /\ RenewalInv /\ OneLive /\ RowStep(listener)
  BY Frames DEF ServedInv, IInv, RowsInv, RenewalInv, TaskInv, TaskTypes
<1> SUFFICES ASSUME NEW op \in Ops, Hidden(op)', done'[op] >= 3
             PROVE  cert'[op] \in listener'
  BY DEF OnListener
<1>2. op \in live
  BY <1>1, NewlyLive DEF Hidden, RowStep
<1>3. Hidden(op)
  BY <1>1, <1>2, HiddenBefore
<1>4. CASE done[op] >= 3
  <2>1. cert[op] \in listener /\ cert[op].row = op /\ done[op] # 1
    BY <1>1, <1>3, <1>4, OwnCert DEF ServedInv, OnListener
  <2>2. ~SaveUpload(op)
    BY <1>1, <2>1, PositionOf DEF SaveUpload
  <2>3. cert'[op] = cert[op]
    BY <1>1, <2>2, CertStays
  <2>4. ASSUME NEW o \in Ops, RemoveOldCertificate(o)
        PROVE  cert[op] \in listener'
    <3>1. AtStage(o, "remove_old_certificate", "read") /\ o \in live
      BY <2>4 DEF RemoveOldCertificate, AtStage
    <3>2. CASE o = op
      <4>1. Arn(op) = cert[op]
        BY TasksAssumption DEF TasksAssumption, Arn
      <4>2. QED
        BY <2>1, <2>4, <3>2, <4>1 DEF RemoveOldCertificate
    <3>3. CASE o # op
      <4>1. seen[o].row # op
        BY <1>1, <1>3, <3>1, <3>3, HiddenFromOthers DEF ServedInv, SeenByRemove
      <4>2. QED
        BY <2>1, <2>4, <4>1 DEF RemoveOldCertificate
    <3>4. QED
      BY <3>2, <3>3
  <2>5. \A o \in Ops : AssociateCertificate(o) => listener \subseteq listener'
    BY DEF AssociateCertificate
  <2>6. QED
    BY <1>1, <2>1, <2>3, <2>4, <2>5, Frames
<1>5. CASE ~(done[op] >= 3)
  <2>1. done'[op] # done[op]
    BY <1>5
  <2>2. Advances(op) /\ done'[op] = done[op] + 1
    BY <1>1, <2>1, GettingOn
  <2>3. done[op] = 2
    BY <1>1, <1>5, <2>2
  <2>4. AssociateCertificate(op)
    BY <2>2, <2>3 DEF Advances
  <2>5. QED
    BY <2>4 DEF AssociateCertificate, rowVars
<1>6. QED
  BY <1>4, <1>5

-----------------------------------------------------------------------------
(* The route is served                                                     *)

LEMMA ServedKept ==
  ASSUME ~RunBackports, ServedInv, [Next]_vars PROVE ServedWhenCalm'
<1>1. /\ IInv /\ NoImports /\ env' = env /\ live \subseteq Ops
      /\ RowsInv /\ RowStep(listener) /\ (iam' = iam \/ listener' = listener)
  BY Frames DEF ServedInv, IInv, RenewalInv, TaskInv, TaskTypes
<1> SUFFICES ASSUME Calm PROVE listener' \cap iam' # {}
  BY <1>1 DEF ServedWhenCalm, Served, Calm, Alone
<1>2. listener \cap iam # {}
  BY DEF ServedInv, ServedWhenCalm, Served
<1>3. ASSUME NEW o \in Ops, o \in live, Hidden(o), done[o] >= 3
      PROVE  cert[o] \in listener \cap iam /\ cert[o].row = o
  <2>1. done[o] >= 2
    BY <1>3 DEF ServedInv, IInv, RenewalInv, TaskInv, TaskTypes
  <2>2. cert[o] # NoCert /\ cert[o].row = o
    BY <2>1, OwnCert
  <2>3. QED
    BY <1>3, <2>2 DEF ServedInv, RowsInv, InIam, OnListener
<1>4. ASSUME NEW o \in Ops, RemoveOldCertificate(o), iam' = iam
      PROVE  listener' \cap iam' # {}
  <2>1. o \in live /\ done[o] = 3
    BY <1>1, <1>4, PositionOf DEF RemoveOldCertificate
  <2>2. Hidden(o)
    BY <2>1 DEF Hidden, Calm, ServedInv, LinkedLate
  <2>3. cert[o] \in listener \cap iam
    BY <1>3, <2>1, <2>2
  <2>4. Arn(o) = cert[o]
    BY TasksAssumption DEF TasksAssumption, Arn
  <2>5. cert[o] \in listener'
    BY <1>4, <2>3, <2>4 DEF RemoveOldCertificate
  <2>6. QED
    BY <1>4, <2>3, <2>5
<1>5. ASSUME NEW o \in Ops, DeletePreviousCertificate(o, listener), listener' = listener
      PROVE  listener' \cap iam' # {}
  <2>1. CASE Alone
    <3>1. o \in live /\ done[o] = 5
      BY <1>1, <1>5, PositionOf DEF DeletePreviousCertificate
    <3>2. cert[o] \in listener \cap iam /\ cert[o].row = o
      BY <1>3, <2>1, <3>1 DEF Hidden
    <3>3. QED
      BY <1>1, <1>5, <2>1, <3>2, Deleted
  <2>2. CASE ~env.deletesInUse
    BY <1>1, <1>2, <1>5, <2>2, Deleted
  <2>3. QED
    BY <2>1, <2>2 DEF Calm
<1>6. \A o \in Ops : AssociateCertificate(o) => listener \subseteq listener' /\ iam' = iam
  BY DEF AssociateCertificate
<1>7. \A o \in Ops : UploadCertificate(o) => iam \subseteq iam'
  BY DEF UploadCertificate
<1>8. CASE iam' = iam
  BY <1>1, <1>2, <1>4, <1>6, <1>8, Frames
<1>9. CASE listener' = listener
  BY <1>1, <1>2, <1>5, <1>7, <1>9 DEF RowStep
<1>10. QED
  BY <1>1, <1>8, <1>9

LEMMA ServedKeeps ==
  ASSUME ~RunBackports, ServedInv, [Next]_vars
  PROVE  /\ ServedInv'
         /\ RowsInv /\ RenewalInv' /\ RowStep(listener) /\ BodyStep(listener) /\ InOrder
<1>1. IInv' /\ LifecycleStep
  BY AlbKeeps DEF ServedInv
<1>2. RowsInv /\ RenewalInv' /\ RowStep(listener) /\ BodyStep(listener) /\ InOrder
  BY <1>1, Frames, BodySteps, InThatOrder DEF ServedInv, IInv
<1>3. RowsInv'
  BY <1>1, <1>2, RowsKeep
<1>4. QED
  BY <1>1, <1>2, <1>3, ImportsKept, LinkedLateKept, SeenByRemoveKept, OnListenerKept, ServedKept
     DEF ServedInv

LEMMA AlwaysServedInv == ASSUME ~RunBackports PROVE Spec => []ServedInv
<1>1. Init => ServedInv
  BY ServedStarts
<1>2. ServedInv /\ [Next]_vars => ServedInv'
  BY ServedKeeps
<1>3. QED
  BY <1>1, <1>2, PTL DEF Spec

(* The route is served at every moment, whatever raises, is retried or is  *)
(* lost: where its operations do not overlap, even if IAM deletes whatever *)
(* it is told to; where they overlap, if no answer is lost and IAM keeps   *)
(* what is in use.                                                         *)
THEOREM AlbAlwaysServed ==
  ASSUME ~RunBackports
  PROVE  Spec => [](Calm => Served)
<1>1. ServedInv => (Calm => Served)
  BY DEF ServedInv, ServedWhenCalm
<1>2. QED
  BY <1>1, AlwaysServedInv, PTL

-----------------------------------------------------------------------------
(* An operation that succeeds has renewed the certificate                  *)

(* Where every row has its arn, remove_old_certificate never returns early.*)
LinkedAfterRemove == \A op \in Ops : done[op] >= 4 => op \in linked

LEMMA LinkedAfterRemoveKept ==
  ASSUME ~RunBackports, Arnless = {}, ServedInv, LinkedAfterRemove, [Next]_vars
  PROVE  LinkedAfterRemove'
<1>1. IInv /\ NoImports /\ linked \subseteq linked' /\ done \in [Ops -> 0..NumStages]
  BY ImportsKept DEF ServedInv, IInv, RenewalInv, TaskInv, TaskTypes
<1> SUFFICES ASSUME NEW op \in Ops, done'[op] >= 4 PROVE op \in linked'
  BY DEF LinkedAfterRemove
<1>2. CASE done[op] >= 4
  BY <1>1, <1>2 DEF LinkedAfterRemove
<1>3. CASE ~(done[op] >= 4)
  <2>1. Advances(op) /\ done'[op] = done[op] + 1
    BY <1>1, <1>3, GettingOn
  <2>2. done[op] = 3
    BY <1>1, <1>3, <2>1
  <2>3. \A r \in First : Arn(r) # NoCert
    <3>1. \A r \in linked : cert[r] # NoCert
      BY LinkedCert DEF ServedInv
    <3>2. QED
      BY <3>1 DEF First, Newest, Arn
  <2>4. LinkCertificate(op)
    BY <2>1, <2>2, <2>3 DEF Advances
  <2>5. QED
    BY <2>4 DEF LinkCertificate
<1>4. QED
  BY <1>2, <1>3

(* What can be said when mark_complete closes an operation.                *)
LEMMA SuccessIsLast ==
  ASSUME IInv, [Next]_vars, NEW op \in Ops, Succeeds(op)
  PROVE  op \in live /\ done[op] = 6
<1>0. RenewalInv /\ opState[op] # "succeeded" /\ opState'[op] = "succeeded"
  BY DEF IInv, Succeeds
<1>1. ASSUME NEW o \in Ops, AlbStep(o)
      PROVE  FALSE
  <2>1. CASE AssociateCertificate(o) \/ LinkCertificate(o)
    <3>1. opState' = opState \/ opState' = [opState EXCEPT ![o] = "failed"]
      BY <2>1 DEF AssociateCertificate, LinkCertificate, BodyEnds, Raises
    <3>2. QED
      BY <1>0, <3>1 DEF RenewalInv, TaskInv, TaskTypes
  <2>2. CASE ReadOldCertificate(o) \/ RemoveOldCertificate(o) \/ WaitForCertUpdate(o)
    BY <1>0, <2>2 DEF ReadOldCertificate, RemoveOldCertificate, WaitForCertUpdate, BodyGoesOn
  <2>3. QED
    BY <1>1, <2>1, <2>2 DEF AlbStep
<1>2. ~(NewDay \/ ExpiryNears \/ BackportReads \/ BackportSaves \/ UNCHANGED vars)
  BY <1>0 DEF NewDay, ExpiryNears, BackportReads, BackportSaves, vars, renewalVars
<1>3. MarkComplete(op)
  BY <1>0, <1>1, <1>2, CommonSuccess DEF Next
<1>4. QED
  BY <1>3, PositionOf DEF MarkComplete

LEMMA AtSuccess ==
  ASSUME ServedInv, [Next]_vars, NEW op \in Ops, Succeeds(op)
  PROVE  op \in live /\ done[op] = 6 /\ cert[op] # NoCert
<1>1. op \in live /\ done[op] = 6
  BY SuccessIsLast DEF ServedInv
<1>2. QED
  BY <1>1, OwnCert

(* An operation that succeeds while no other is on its way has its row     *)
(* linked, and its certificate is attached and in IAM: no retry and no     *)
(* early return has skipped a part, as long as every row has its arn.      *)
THEOREM AlbSuccessRenews ==
  ASSUME ~RunBackports, Arnless = {}
  PROVE  Spec => SuccessRenews
<1>1. Init => LinkedAfterRemove
  BY DEF Init, RenewalInit, LinkedAfterRemove
<1>2. ServedInv /\ LinkedAfterRemove /\ [Next]_vars => LinkedAfterRemove'
  BY LinkedAfterRemoveKept
<1>3. ServedInv /\ LinkedAfterRemove /\ [Next]_vars =>
        [Alone => \A op \in Ops : Succeeds(op) =>
           op \in linked /\ cert[op] \in listener \cap iam]_vars
  <2> SUFFICES ASSUME ServedInv, LinkedAfterRemove, [Next]_vars, Alone,
                      NEW op \in Ops, Succeeds(op)
               PROVE  op \in linked /\ cert[op] \in listener \cap iam
    OBVIOUS
  <2>1. op \in live /\ done[op] = 6 /\ cert[op] # NoCert
    BY AtSuccess
  <2>2. QED
    BY <2>1 DEF LinkedAfterRemove, ServedInv, RowsInv, InIam, OnListener, Hidden
<1>4. QED
  BY <1>1, <1>2, <1>3, AlwaysServedInv, PTL DEF Spec, SuccessRenews

(* Of any rows of the route some are the newest: no certificate expires    *)
(* after the last one that was issued.                                     *)
LEMMA NewestExists ==
  ASSUME RowsInv, NEW rows \in SUBSET linked, rows # {}
  PROVE  Newest(rows) # {}
<1> DEFINE Left == {lastExpiry - expiry[r] : r \in rows}
           Less == {p \in Nat \X Nat : p[1] < p[2]}
<1>1. \A r \in rows : /\ Expires(r) = expiry[r] /\ expiry[r] \in Nat
                      /\ expiry[r] <= lastExpiry
  <2> SUFFICES ASSUME NEW r \in rows
               PROVE  /\ Expires(r) = expiry[r] /\ expiry[r] \in Nat
                      /\ expiry[r] <= lastExpiry
    OBVIOUS
  <2>1. r \in linked /\ r \in Ops \cup Legacy
    BY LinkedCert
  <2>2. QED
    BY <2>1 DEF Expires, Owners, RowsInv, Latest, RenewalInv, RowTypes
<1>2. lastExpiry \in Nat
  BY DEF RowsInv, RenewalInv, RowTypes
<1>3. Left \subseteq Nat /\ Left # {}
  BY <1>1, <1>2
<1>4. IsWellFoundedOn(Less, Nat)
  BY NatLessThanWellFounded DEF OpToRel
<1>5. PICK m \in Left : \A n \in Left : ~ (<<n, m>> \in Less)
  <2> HIDE DEF Left, Less
  <2>1. QED
    BY <1>3, <1>4, WFMin
<1>6. PICK r \in rows : m = lastExpiry - expiry[r]
  OBVIOUS
<1>7. ASSUME NEW s \in rows PROVE Expires(s) <= Expires(r)
  <2>1. lastExpiry - expiry[s] \in Left /\ lastExpiry - expiry[s] \in Nat /\ m \in Nat
    BY <1>3
  <2>2. ~ (lastExpiry - expiry[s] < m)
    BY <1>5, <2>1
  <2>3. QED
    BY <1>1, <1>2, <1>6, <2>2
<1>8. QED
  BY <1>7 DEF Newest

(* delete_old_certificate finds a certificates[1] whatever has raised, was *)
(* lost or overlaps, where every row has its arn: both the operation's row *)
(* and those of before are linked for good.                                *)
THEOREM AlbPreviousExists ==
  ASSUME ~RunBackports, Arnless = {}
  PROVE  Spec => []PreviousExists
<1> DEFINE Inv == LinkedAfterRemove /\ Legacy \subseteq linked
<1>1. Init => Inv
  BY DEF Init, RenewalInit, LinkedAfterRemove
<1>2. ServedInv /\ Inv /\ [Next]_vars => Inv'
  BY LinkedAfterRemoveKept, ImportsKept
<1>3. ServedInv /\ Inv => PreviousExists
  <2> SUFFICES ASSUME ServedInv, Inv, NEW op \in Ops,
                      AtStage(op, "delete_old_certificate", "start")
               PROVE  Second # {}
    BY DEF PreviousExists
  <2>1. RowsInv /\ op \in linked
    <3>1. done[op] = 5
      BY PositionOf DEF ServedInv
    <3>2. QED
      BY <3>1 DEF LinkedAfterRemove, ServedInv
  <2>2. PICK l \in linked : l # op
    BY TasksAssumption DEF TasksAssumption
  <2>3. PICK f \in First : TRUE
    BY <2>1, NewestExists DEF First
  <2>4. Newest(linked \ {f}) # {}
    BY <2>1, <2>2, NewestExists
  <2>5. QED
    BY <2>3, <2>4 DEF Second
<1>4. QED
  BY <1>1, <1>2, <1>3, AlwaysServedInv, PTL DEF Spec

-----------------------------------------------------------------------------
(* What the listener refers to exists                                      *)

(* Where operations do not overlap, the listener has left the old rows:    *)
(* all but the newest one are off it, and what the tasks read and remove   *)
(* is the newest one's certificate until the operation's row is linked.    *)
OldOff == \A r \in linked \ First : cert[r] \notin listener
SeenIsFirst ==
  \A op \in Ops : AtStage(op, "remove_old_certificate", "read") =>
    \E r \in First : seen[op] = cert[r]
FirstIsOff ==
  \A op \in Ops : AtStage(op, "remove_old_certificate", "called") =>
    \A r \in First \ {op} : cert[r] \notin listener
SeenIsOff ==
  \A op \in Ops : AtStage(op, "delete_old_certificate", "read") => seen[op] \notin listener

OldRows == Alone => OldOff /\ SeenIsFirst /\ FirstIsOff /\ SeenIsOff

NoneDangles == Alone \/ ~env.deletesInUse => NoDangling

OldInv == Distinct /\ OldRows /\ NoneDangles

(* What a linked row says does not change any more.                        *)
LEMMA LinkedStay ==
  ASSUME ~RunBackports, ServedInv, [Next]_vars, NEW r \in linked
  PROVE  cert'[r] = cert[r] /\ Expires(r)' = Expires(r)
<1>1. /\ IInv /\ NoImports /\ RowStep(listener) /\ r \in Rows /\ r \in Owners /\ r \notin Imports
      /\ cert \in [Rows -> Cert \cup {NoCert}] /\ expiry \in [Owners -> Nat]
  <2>1. r \in Ops \cup Legacy
    BY LinkedCert DEF ServedInv
  <2>2. QED
    BY <2>1, Frames DEF ServedInv, IInv, RenewalInv, RowTypes, Rows, Owners, RowsInv
<1>2. ASSUME NEW o \in Ops, IssueCertificate(o) \/ SaveUpload(o) PROVE o # r
  <2>1. done[o] = 0 \/ done[o] = 1
    BY <1>1, <1>2, PositionOf DEF IssueCertificate, SaveUpload
  <2>2. QED
    BY <2>1, NotLinkedEarly
<1>3. cert'[r] = cert[r]
  BY <1>1, <1>2 DEF RowStep, SaveUpload
<1>4. expiry'[r] = expiry[r]
  BY <1>1, <1>2 DEF RowStep, DateStep, IssueCertificate
<1>5. QED
  BY <1>1, <1>3, <1>4 DEF Expires

(* Nor do the old rows and the newest ones, as long as none is linked.     *)
LEMMA FirstStays ==
  ASSUME ~RunBackports, ServedInv, [Next]_vars, linked' = linked
  PROVE  First' = First
<1>1. \A r \in linked : Expires(r)' = Expires(r)
  BY LinkedStay
<1>2. First' = {r \in linked : \A s \in linked : Expires(s)' <= Expires(r)'}
  BY DEF First, Newest
<1>3. First = {r \in linked : \A s \in linked : Expires(s) <= Expires(r)}
  BY DEF First, Newest
<1>4. QED
  BY <1>1, <1>2, <1>3

(* The operation's own row is the newest of all.                           *)
LEMMA OwnIsNewest ==
  ASSUME ServedInv, Alone, NEW op \in live, done[op] >= 1,
         NEW rows \in SUBSET (Ops \cup Legacy), op \in rows
  PROVE  Newest(rows) = {op}
<1>1. op \in Ops /\ RowsInv /\ RenewalInv
  BY DEF ServedInv, IInv, RenewalInv, TaskInv, TaskTypes
<1>2. \A r \in rows : Expires(r) = expiry[r] /\ expiry[r] \in Nat
  <2>1. \A r \in rows : r \notin Imports /\ r \in Owners
    BY TasksAssumption DEF TasksAssumption, Owners
  <2>2. QED
    BY <1>1, <2>1 DEF Expires, RenewalInv, RowTypes
<1>3. \A r \in rows : r # op => expiry[r] < expiry[op]
  BY <1>1 DEF RowsInv, Latest
<1>4. \A r \in rows : Expires(r) <= Expires(op)
  BY <1>2, <1>3
<1>5. ASSUME NEW r \in rows, Expires(op) <= Expires(r) PROVE r = op
  BY <1>2, <1>3, <1>5
<1>6. QED
  BY <1>4, <1>5 DEF Newest

(* While an operation that is alone removes or deletes, nothing happens to *)
(* the rows and the listener but what it does itself.                      *)
LEMMA Undisturbed ==
  ASSUME ~RunBackports, ServedInv, Alone, [Next]_vars, NEW op \in live
  PROVE  /\ op \in Ops
         /\ linked' = linked \/ LinkCertificate(op)
         /\ listener' = listener \/ AssociateCertificate(op) \/ RemoveOldCertificate(op)
<1>1. IInv /\ NoImports /\ live \subseteq Ops /\ \A o \in live : o = op
  BY DEF ServedInv, IInv, RowsInv, OneLive, RenewalInv, TaskInv, TaskTypes
<1>2. \A o \in Ops : LinkCertificate(o) \/ AssociateCertificate(o) \/ RemoveOldCertificate(o)
        => o = op
  BY <1>1 DEF LinkCertificate, AssociateCertificate, RemoveOldCertificate, AtStage
<1>3. QED
  BY <1>1, <1>2, Frames

LEMMA OldOffKept ==
  ASSUME ~RunBackports, ServedInv, OldRows, Alone, [Next]_vars
  PROVE  OldOff'
<1>1. /\ IInv /\ NoImports /\ linked \subseteq Ops \cup Legacy /\ live \subseteq Ops
      /\ OldOff /\ FirstIsOff
  BY LinkedCert DEF ServedInv, OldRows, IInv, RenewalInv, TaskInv, TaskTypes
<1> SUFFICES ASSUME NEW r \in linked', r \notin First' PROVE cert'[r] \notin listener'
  BY DEF OldOff
<1>2. CASE \E op \in Ops : LinkCertificate(op)
  <2>1. PICK op \in Ops : LinkCertificate(op)
    BY <1>2
  <2>2. /\ AtStage(op, "remove_old_certificate", "called") /\ op \in live /\ done[op] = 3
        /\ linked' = linked \cup {op} /\ UNCHANGED <<cert, expiry, listener>>
    BY <1>1, <2>1, PositionOf DEF LinkCertificate, albVars, AtStage
  <2>3. Newest(linked \cup {op}) = {op}
    BY <1>1, <2>2, OwnIsNewest
  <2>4. First' = {op}
    BY <2>2, <2>3 DEF First, Newest, Expires
  <2>5. r \in linked /\ r # op
    BY <2>2, <2>4
  <2>6. cert[r] \notin listener
    BY <1>1, <2>2, <2>5 DEF OldOff, FirstIsOff
  <2>7. QED
    BY <2>2, <2>6
<1>3. CASE linked' = linked
  <2>1. r \in linked \ First
    BY <1>3, FirstStays
  <2>2. cert[r] \notin listener /\ cert'[r] = cert[r] /\ cert[r].row = r
    BY <1>1, <2>1, LinkedStay, LinkedCert DEF OldOff, ServedInv
  <2>3. ASSUME NEW o \in Ops, AssociateCertificate(o) PROVE cert[r] \notin listener'
    <3>1. done[o] = 2 /\ listener' = listener \cup {cert[o]}
      BY <1>1, <2>3, PositionOf DEF AssociateCertificate
    <3>2. o # r /\ cert[o].row = o
      BY <2>1, <3>1, NotLinkedEarly, OwnCert
    <3>3. QED
      BY <2>2, <3>1, <3>2
  <2>4. \A o \in Ops : RemoveOldCertificate(o) => listener' \subseteq listener
    BY DEF RemoveOldCertificate
  <2>5. QED
    BY <1>1, <2>2, <2>3, <2>4, Frames
<1>4. QED
  BY <1>1, <1>2, <1>3, Frames

LEMMA SeenIsFirstKept ==
  ASSUME ~RunBackports, ServedInv, OldRows, Alone, [Next]_vars
  PROVE  SeenIsFirst'
<1>1. IInv /\ NoImports /\ SeenIsFirst
  BY DEF ServedInv, OldRows
<1> SUFFICES ASSUME NEW op \in Ops, AtStage(op, "remove_old_certificate", "read")'
             PROVE  \E r \in First' : seen'[op] = cert'[r]
  BY DEF SeenIsFirst
<1>2. CASE ReadsOld(op)
  <2>1. PICK r \in First : Arn(r) # NoCert /\ BodyGoesOn(op, "read", Arn(r))
    BY <1>2 DEF ReadsOld
  <2>2. r \in linked /\ Arn(r) = cert[r]
    BY <2>1 DEF First, Newest, Arn
  <2>3. seen'[op] = cert[r] /\ linked' = linked /\ cert' = cert
    BY <1>1, <1>2, <2>1, <2>2 DEF BodyGoesOn, IInv, RenewalInv, TaskInv, TaskTypes, ReadsOld,
                                  ReadOldCertificate, rowVars
  <2>4. QED
    BY <2>1, <2>3, FirstStays
<1>3. CASE AtStage(op, "remove_old_certificate", "read") /\ seen'[op] = seen[op]
  <2>1. PICK r \in First : seen[op] = cert[r]
    BY <1>1, <1>3 DEF SeenIsFirst
  <2>2. linked' = linked
    BY <1>3, Undisturbed DEF LinkCertificate, AtStage
  <2>3. r \in First' /\ r \in linked
    BY <2>1, <2>2, FirstStays DEF First, Newest
  <2>4. cert'[r] = cert[r]
    BY <2>3, LinkedStay
  <2>5. QED
    BY <1>3, <2>1, <2>3, <2>4
<1>4. QED
  BY <1>1, <1>2, <1>3, HalfDone

LEMMA FirstIsOffKept ==
  ASSUME ~RunBackports, NoTies, ServedInv, Distinct, OldRows, Alone, [Next]_vars
  PROVE  FirstIsOff'
<1>1. IInv /\ NoImports /\ SeenIsFirst /\ FirstIsOff /\ linked \in SUBSET linked
  BY DEF ServedInv, OldRows
<1> SUFFICES ASSUME NEW op \in Ops, AtStage(op, "remove_old_certificate", "called")',
                    NEW r \in First', r # op
             PROVE  cert'[r] \notin listener'
  BY DEF FirstIsOff
<1>2. CASE RemoveOldCertificate(op)
  <2>1. /\ AtStage(op, "remove_old_certificate", "read") /\ UNCHANGED <<linked, cert>>
        /\ listener' = IF seen[op] # Arn(op) THEN listener \ {seen[op]} ELSE listener
        /\ done[op] = 3
    BY <1>1, <1>2, PositionOf DEF RemoveOldCertificate, rowVars
  <2>2. PICK s \in First : seen[op] = cert[s]
    BY <1>1, <2>1 DEF SeenIsFirst
  <2>3. r \in First
    BY <2>1, FirstStays
  <2>4. r = s
    BY <1>1, <2>2, <2>3, InThatOrder, OneNewest DEF First, ServedInv
  <2>5. r \in linked /\ cert[r].row = r
    BY <2>3, LinkedCert DEF First, Newest, ServedInv
  <2>6. Arn(op) = cert[op]
    BY TasksAssumption DEF TasksAssumption, Arn
  <2>7. cert[op].row = op
    BY <2>1, OwnCert
  <2>8. QED
    BY <2>1, <2>2, <2>4, <2>5, <2>6, <2>7
<1>3. CASE AtStage(op, "remove_old_certificate", "called") /\ seen'[op] = seen[op]
  <2>1. op \in live /\ done[op] = 3 /\ listener' = listener
    <3>1. op \in live /\ done[op] = 3
      BY <1>1, <1>3, PositionOf
    <3>2. ~AssociateCertificate(op)
      BY <1>1, <3>1, PositionOf DEF AssociateCertificate
    <3>3. ~RemoveOldCertificate(op)
      BY <1>3 DEF RemoveOldCertificate, AtStage
    <3>4. QED
      BY <3>1, <3>2, <3>3, Undisturbed
  <2>2. CASE LinkCertificate(op)
    <3>1. step \in [Ops -> {"start", "read", "called"}] /\ BodyIsLeft(op)
      BY <1>1, <2>2, HowBodiesAreLeft DEF LinkCertificate, IInv, RenewalInv, TaskInv, TaskTypes
    <3>2. step'[op] = "start"
      BY <3>1 DEF BodyIsLeft
    <3>3. QED
      BY <3>2 DEF AtStage
  <2>3. CASE linked' = linked
    <3>1. r \in First /\ r \in linked
      BY <2>3, FirstStays DEF First, Newest
    <3>2. cert'[r] = cert[r] /\ cert[r] \notin listener
      BY <1>1, <1>3, <3>1, LinkedStay DEF FirstIsOff
    <3>3. QED
      BY <2>1, <3>2
  <2>4. QED
    BY <2>1, <2>2, <2>3, Undisturbed
<1>4. QED
  BY <1>1, <1>2, <1>3, HalfDone

LEMMA SeenIsOffKept ==
  ASSUME ~RunBackports, NoTies, ServedInv, Distinct, OldRows, Alone, [Next]_vars
  PROVE  SeenIsOff'
<1>1. IInv /\ NoImports /\ OldOff /\ SeenIsOff /\ linked \in SUBSET linked
  BY DEF ServedInv, OldRows
<1> SUFFICES ASSUME NEW op \in Ops, AtStage(op, "delete_old_certificate", "read")'
             PROVE  seen'[op] \notin listener'
  BY DEF SeenIsOff
<1>2. op \in live /\ done[op] = 5
  <2>1. AtStage(op, "delete_old_certificate", "read") \/ ReadsPrevious(op)
    BY <1>1, HalfDone
  <2>2. QED
    BY <1>1, <2>1, PositionOf DEF ReadsPrevious, ReadPreviousCertificate
<1>3. listener' = listener
  <2>1. ~AssociateCertificate(op) /\ ~RemoveOldCertificate(op)
    BY <1>1, <1>2, PositionOf DEF AssociateCertificate, RemoveOldCertificate
  <2>2. QED
    BY <1>2, <2>1, Undisturbed
<1>4. CASE ReadsPrevious(op)
  <2>1. PICK r \in Second : Name(r) # NoCert /\ BodyGoesOn(op, "read", Name(r))
    BY <1>4 DEF ReadsPrevious
  <2>2. PICK f \in First : r \in Newest(linked \ {f})
    BY <2>1 DEF Second
  <2>3. r \in linked /\ r # f
    BY <2>2 DEF Newest
  <2>4. r \notin First
    BY <1>1, <2>2, <2>3, InThatOrder, OneNewest DEF First, ServedInv
  <2>5. Name(r) = cert[r]
    BY <2>1 DEF Name
  <2>6. seen'[op] = cert[r]
    BY <1>1, <2>1, <2>5 DEF BodyGoesOn, IInv, RenewalInv, TaskInv, TaskTypes
  <2>7. QED
    BY <1>1, <1>3, <2>3, <2>4, <2>6 DEF OldOff
<1>5. CASE AtStage(op, "delete_old_certificate", "read") /\ seen'[op] = seen[op]
  BY <1>1, <1>3, <1>5 DEF SeenIsOff
<1>6. QED
  BY <1>1, <1>4, <1>5, HalfDone

(* What changes the listener and what takes a certificate from IAM,        *)
(* whatever is imported meanwhile.                                         *)
LEMMA ListenerAndIam ==
  ASSUME [Next]_vars
  PROVE  /\ env' = env
         /\ \/ listener' = listener /\ iam \subseteq iam'
            \/ /\ listener' = listener
               /\ \E op \in Ops : DeletePreviousCertificate(op, listener)
            \/ /\ iam' = iam
               /\ \E op \in Ops : AssociateCertificate(op) \/ RemoveOldCertificate(op)
<1>1. ASSUME NEW op \in Ops, AlbStep(op)
      PROVE  /\ env' = env /\ iam' = iam
             /\ listener' = listener \/ AssociateCertificate(op) \/ RemoveOldCertificate(op)
  BY <1>1 DEF AlbStep, AssociateCertificate, ReadOldCertificate, RemoveOldCertificate,
              LinkCertificate, WaitForCertUpdate, timeVars, albVars
<1>2. ASSUME NEW op \in Ops, CommonStep(op, listener), UNCHANGED albVars
      PROVE  /\ env' = env /\ listener' = listener
             /\ iam \subseteq iam' \/ DeletePreviousCertificate(op, listener)
  <2>1. CASE UploadCertificate(op)
    BY <1>2, <2>1 DEF UploadCertificate, timeVars, albVars
  <2>2. CASE DeletePreviousCertificate(op, listener)
    BY <1>2, <2>2 DEF DeletePreviousCertificate, timeVars, albVars
  <2>3. CASE ~UploadCertificate(op) /\ ~DeletePreviousCertificate(op, listener)
    BY <1>2, <2>3 DEF CommonStep, IssueCertificate, SaveUpload, AlreadyUploaded,
                      ReadPreviousCertificate, MarkComplete, Raise, LoseTask, RenewAllCerts,
                      timeVars, albVars
  <2>4. QED
    BY <2>1, <2>2, <2>3
<1>3. CASE \/ NewDay /\ sixAhead' = TRUE /\ UNCHANGED <<listener, import>>
           \/ ExpiryNears /\ UNCHANGED albVars
           \/ BackportReads \/ BackportSaves
           \/ UNCHANGED vars
  BY <1>3 DEF NewDay, ExpiryNears, BackportReads, BackportSaves, vars, renewalVars, timeVars,
              albVars
<1>4. CASE \E op \in Ops : AlbStep(op)
  <2>1. PICK op \in Ops : AlbStep(op)
    BY <1>4
  <2>2. /\ env' = env /\ iam' = iam
        /\ listener' = listener \/ AssociateCertificate(op) \/ RemoveOldCertificate(op)
    BY <1>1, <2>1
  <2>3. QED
    BY <2>2
<1>5. CASE \E op \in Ops : CommonStep(op, listener) /\ UNCHANGED albVars
  <2>1. PICK op \in Ops : CommonStep(op, listener) /\ UNCHANGED albVars
    BY <1>5
  <2>2. /\ env' = env /\ listener' = listener
        /\ iam \subseteq iam' \/ DeletePreviousCertificate(op, listener)
    BY <1>2, <2>1
  <2>3. QED
    BY <2>2
<1>6. QED
  BY <1>3, <1>4, <1>5 DEF Next

(* A certificate that is attached is deleted only if it was seen.          *)
LEMMA DanglesOnlyIfSeen ==
  ASSUME [Next]_vars, NoDangling,
         \A op \in Ops : DeletePreviousCertificate(op, listener) => seen[op] \notin listener
  PROVE  NoDangling'
<1>1. CASE listener' = listener /\ iam \subseteq iam'
  BY <1>1 DEF NoDangling
<1>2. CASE listener' = listener /\ \E op \in Ops : DeletePreviousCertificate(op, listener)
  BY <1>2 DEF NoDangling, DeletePreviousCertificate
<1>3. CASE /\ iam' = iam
           /\ \E op \in Ops : AssociateCertificate(op) \/ RemoveOldCertificate(op)
  BY <1>3 DEF NoDangling, AssociateCertificate, RemoveOldCertificate
<1>4. QED
  BY <1>1, <1>2, <1>3, ListenerAndIam

LEMMA NothingDanglesAtFirst == ASSUME Init PROVE NoDangling
<1>1. iam = {OldCert(r) : r \in First \cup Manual}
  BY DEF Init, RenewalInit
<1>2. {OldCert(m) : m \in Manual} \subseteq iam
  BY <1>1
<1>3. QED
  BY <1>2 DEF Init, NoDangling

LEMMA OldStart == ASSUME Init PROVE OldInv
<1>1. Distinct /\ live = {} /\ linked = Legacy /\ iam = {OldCert(r) : r \in First \cup Manual}
  BY DistinctAtFirst DEF Init, RenewalInit
<1>2. SeenIsFirst /\ FirstIsOff /\ SeenIsOff
  BY <1>1 DEF SeenIsFirst, FirstIsOff, SeenIsOff, AtStage
<1>3. OldOff
  <2>1. \A r \in linked : cert[r] = OldCert(r)
    BY <1>1 DEF Init, RenewalInit, Rows
  <2>2. Manual \cap Legacy = {}
    BY TasksAssumption DEF TasksAssumption, Rows
  <2>3. listener \subseteq {OldCert(r) : r \in First \cup Manual}
    BY <1>1 DEF Init
  <2>4. \A r, s : OldCert(r) = OldCert(s) => r = s
    <3>1. \A r : OldCert(r).row = r
      BY DEF OldCert
    <3>2. QED
      BY <3>1
  <2>5. QED
    BY <1>1, <2>1, <2>2, <2>3, <2>4 DEF OldOff
<1>4. QED
  BY <1>1, <1>2, <1>3, NothingDanglesAtFirst DEF OldInv, OldRows, NoneDangles

LEMMA OldKeeps ==
  ASSUME ~RunBackports, NoTies
  PROVE  ServedInv /\ OldInv /\ [Next]_vars => OldInv'
<1> SUFFICES ASSUME ServedInv, OldInv, [Next]_vars PROVE OldInv'
  OBVIOUS
<1>1. Distinct /\ OldRows /\ RowsInv /\ RowStep(listener) /\ env' = env
  BY ServedKeeps DEF OldInv, RowStep, DateStep
<1>2. Distinct'
  BY <1>1, DistinctStays
<1>3. OldRows'
  BY <1>1, OldOffKept, SeenIsFirstKept, FirstIsOffKept, SeenIsOffKept DEF OldRows, Alone
<1>4. NoneDangles'
  <2> SUFFICES ASSUME Alone \/ ~env.deletesInUse PROVE NoDangling'
    BY <1>1 DEF NoneDangles, Alone
  <2>1. NoDangling
    BY DEF OldInv, NoneDangles
  <2>2. \A op \in Ops : DeletePreviousCertificate(op, listener) => seen[op] \notin listener
    BY <1>1 DEF DeletePreviousCertificate, OldRows, SeenIsOff
  <2>3. QED
    BY <2>1, <2>2, DanglesOnlyIfSeen
<1>5. QED
  BY <1>2, <1>3, <1>4 DEF OldInv

LEMMA AlwaysOldInv == ASSUME ~RunBackports, NoTies PROVE Spec => []OldInv
<1>1. Init => OldInv
  BY OldStart
<1>2. ServedInv /\ OldInv /\ [Next]_vars => OldInv'
  BY OldKeeps
<1>3. QED
  BY <1>1, <1>2, AlwaysServedInv, PTL DEF Spec

(* Even where IAM deletes whatever it is told to, the listener never       *)
(* refers to a certificate that does not exist, as long as the operations  *)
(* of the route do not overlap and no two of its first rows end at the     *)
(* same time: certificates[1] of delete_old_certificate is then the row    *)
(* that remove_old_certificate took off the listener.                      *)
THEOREM AlbNoneDangles ==
  ASSUME ~RunBackports, NoTies
  PROVE  Spec => [](Alone => NoDangling)
<1>1. OldInv => (Alone => NoDangling)
  BY DEF OldInv, NoneDangles
<1>2. QED
  BY <1>1, AlwaysOldInv, PTL

(* The certificate that an operation has replaced is then neither attached *)
(* nor in IAM, if every row has its arn and its name.                      *)
THEOREM AlbSuccessRetires ==
  ASSUME ~RunBackports, NoTies, Arnless = {}, Nameless = {}
  PROVE  Spec => SuccessRetires
<1>1. Init => LinkedAfterRemove /\ Retired
  BY DEF Init, RenewalInit, LinkedAfterRemove, Retired
<1>2. ServedInv /\ OldInv /\ LinkedAfterRemove /\ Retired /\ [Next]_vars
        => LinkedAfterRemove' /\ Retired'
  <2> SUFFICES ASSUME ServedInv, OldInv, LinkedAfterRemove, Retired, [Next]_vars
               PROVE  LinkedAfterRemove' /\ Retired'
    OBVIOUS
  <2>1. Distinct /\ RowsInv /\ RenewalInv' /\ RowStep(listener) /\ BodyStep(listener) /\ InOrder
    BY ServedKeeps DEF OldInv
  <2>2. QED
    BY <2>1, LinkedAfterRemoveKept, RetiredStays
<1>3. ServedInv /\ OldInv /\ LinkedAfterRemove /\ Retired /\ [Next]_vars =>
        [Alone => \A op \in Ops : Succeeds(op) =>
           \A r \in Newest(linked \ {op}) : cert[r] \notin listener \cup iam]_vars
  <2> SUFFICES ASSUME ServedInv, OldInv, LinkedAfterRemove, Retired, [Next]_vars, Alone,
                      NEW op \in Ops, Succeeds(op), NEW r \in Newest(linked \ {op})
               PROVE  cert[r] \notin listener \cup iam
    OBVIOUS
  <2>1. op \in live /\ done[op] = 6 /\ op \in linked
    BY AtSuccess DEF LinkedAfterRemove
  <2>2. cert[r] \notin iam
    <3>1. PastDelete(op)
      BY <2>1, PastDeleteIs DEF ServedInv, IInv
    <3>2. QED
      BY <2>1, <3>1 DEF Retired, Name
  <2>3. cert[r] \notin listener
    <3>1. First = {op}
      BY <2>1, LinkedCert, OwnIsNewest DEF First, ServedInv
    <3>2. r \in linked \ First
      BY <3>1 DEF Newest
    <3>3. QED
      BY <3>2 DEF OldInv, OldRows, OldOff
  <2>4. QED
    BY <2>2, <2>3
<1>4. QED
  BY <1>1, <1>2, <1>3, AlwaysServedInv, AlwaysOldInv, PTL DEF Spec, SuccessRetires

-----------------------------------------------------------------------------
(* Whoever succeeds, the listener has a certificate that is good           *)

(* From the first associate_certificate on.                                *)
FreshServed ==
  ~env.lostAnswers /\ ~env.deletesInUse /\ (\E op \in live : done[op] >= 3) =>
    \E c \in listener \cap iam : expiry[c.row] > horizon

FreshInv == FreshOps /\ FreshServed

(* An operation that has its certificate has one that is not due.          *)
LEMMA OwnIsFresh ==
  ASSUME ServedInv, FreshOps, NEW op \in live, done[op] >= 2
  PROVE  /\ op \in Ops /\ cert[op] \in Cert /\ cert[op].row = op /\ cert[op] # NoCert
         /\ expiry[op] > horizon
<1>1. op \in Ops /\ done[op] \in Nat
  BY DEF ServedInv, IInv, RenewalInv, TaskInv, TaskTypes
<1>2. expiry[op] # 0
  BY <1>1 DEF ServedInv, RowsInv, Latest
<1>3. QED
  BY <1>1, <1>2, OwnCert DEF FreshOps

LEMMA FreshServedKept ==
  ASSUME ~RunBackports, ServedInv, FreshInv, [Next]_vars PROVE FreshServed'
<1>1. /\ IInv /\ NoImports /\ RowsInv /\ RowStep(listener) /\ env' = env /\ FreshOps
      /\ done \in [Ops -> 0..NumStages] /\ live \subseteq Ops /\ live' \subseteq Ops
      /\ iam \subseteq Cert /\ \A c \in Cert : c.row \in Owners
  <2>1. IInv'
    BY ServedKeeps DEF ServedInv
  <2>2. QED
    BY <2>1, Frames DEF ServedInv, FreshInv, IInv, RenewalInv, TaskInv, TaskTypes, RowTypes, Cert
<1> SUFFICES ASSUME ~env.lostAnswers, ~env.deletesInUse, NEW op \in live', done'[op] >= 3
             PROVE  \E c \in listener' \cap iam' : expiry'[c.row] > horizon'
  BY <1>1 DEF FreshServed
(* What is not due now is not due then.                                    *)
<1>2. \A c \in listener' \cap iam' \cap iam :
        expiry[c.row] > horizon => expiry'[c.row] > horizon'
  BY <1>1, StaysFresh DEF RowsInv, RowStep
<1>3. op \in live
  <2>1. SUFFICES ASSUME op \notin live PROVE FALSE
    OBVIOUS
  <2>2. RenewalInv
    BY <1>1 DEF RowsInv
  <2>3. done[op] = 0 /\ done' = done
    BY <1>1, <2>1, <2>2, NewlyLive DEF RowStep
  <2>4. QED
    BY <2>3
<1>4. CASE \E o \in Ops : AssociateCertificate(o)
  <2>1. PICK o \in Ops : AssociateCertificate(o)
    BY <1>4
  <2>2. /\ o \in live /\ done[o] = 2 /\ cert[o] \in iam /\ iam' = iam
        /\ cert[o] \in listener'
    BY <1>1, <2>1, PositionOf DEF AssociateCertificate
  <2>3. cert[o].row = o /\ expiry[o] > horizon
    BY <1>1, <2>2, OwnIsFresh
  <2>4. QED
    BY <1>2, <2>2, <2>3
<1>5. CASE \E o \in Ops : RemoveOldCertificate(o)
  <2>1. PICK o \in Ops : RemoveOldCertificate(o)
    BY <1>5
  <2>2. o \in live /\ done[o] = 3 /\ iam' = iam
    BY <1>1, <2>1, PositionOf DEF RemoveOldCertificate
  <2>3. Hidden(o)
    BY <2>2 DEF Hidden, ServedInv, LinkedLate
  <2>4. cert[o].row = o /\ expiry[o] > horizon /\ cert[o] # NoCert
    BY <1>1, <2>2, OwnIsFresh
  <2>5. cert[o] \in listener \cap iam
    BY <2>2, <2>3, <2>4 DEF ServedInv, OnListener, RowsInv, InIam
  <2>6. Arn(o) = cert[o]
    BY TasksAssumption DEF TasksAssumption, Arn
  <2>7. cert[o] \in listener'
    BY <2>1, <2>5, <2>6 DEF RemoveOldCertificate
  <2>8. QED
    BY <1>2, <2>2, <2>4, <2>5, <2>7
<1>6. CASE listener' = listener /\ ~\E o \in Ops : AssociateCertificate(o)
  <2>1. done[op] >= 3
    <3>1. SUFFICES ASSUME ~(done[op] >= 3) PROVE FALSE
      OBVIOUS
    <3>2. Advances(op) /\ done'[op] = done[op] + 1
      BY <1>1, <3>1, GettingOn
    <3>3. done[op] = 2
      BY <1>1, <3>1, <3>2
    <3>4. QED
      BY <1>1, <1>6, <3>2, <3>3 DEF Advances
  <2>2. PICK c \in listener \cap iam : expiry[c.row] > horizon
    BY <1>3, <2>1 DEF FreshInv, FreshServed
  <2>3. c \in iam'
    <3>1. \A o \in Ops : UploadCertificate(o) => iam \subseteq iam'
      BY DEF UploadCertificate
    <3>2. \A o \in Ops : DeletePreviousCertificate(o, listener) => c \in iam'
      BY <1>1, <2>2, Deleted
    <3>3. QED
      BY <1>1, <2>2, <3>1, <3>2 DEF RowStep
  <2>4. QED
    BY <1>2, <1>6, <2>2, <2>3
<1>7. QED
  BY <1>1, <1>4, <1>5, <1>6, Frames

(* Environments in which the route has to be served.                       *)
CalmEnvironments ==
  \A e \in Environments : e.maxLive = 1 \/ (~e.lostAnswers /\ ~e.deletesInUse)

(* An operation that mark_complete closes leaves a certificate on the      *)
(* listener that exists and is not due for renewal, even if it overlaps    *)
(* with others that remove and delete what they take for old.              *)
THEOREM AlbSuccessServesFresh ==
  ASSUME ~RunBackports, CalmEnvironments
  PROVE  Spec => SuccessServesFresh
<1>1. Init => FreshInv
  <2> SUFFICES ASSUME Init PROVE FreshInv
    OBVIOUS
  <2>1. live = {} /\ horizon = lastExpiry /\ lastExpiry \in Nat
    BY ServedStarts DEF Init, RenewalInit, ServedInv, IInv, RenewalInv, RowTypes
  <2>2. QED
    BY <2>1 DEF FreshInv, FreshOps, FreshServed
<1>2. ServedInv /\ FreshInv /\ [Next]_vars => FreshInv'
  <2> SUFFICES ASSUME ServedInv, FreshInv, [Next]_vars PROVE FreshInv'
    OBVIOUS
  <2>1. FreshOps'
    BY ServedKeeps, FreshOpsStay DEF FreshInv, RowsInv, RowStep
  <2>2. QED
    BY <2>1, FreshServedKept DEF FreshInv
<1>3. ServedInv /\ FreshInv /\ [Next]_vars =>
        [\A op \in Ops : Succeeds(op) =>
           \E c \in listener \cap iam : expiry[c.row] > horizon]_vars
  <2> SUFFICES ASSUME ServedInv, FreshInv, [Next]_vars, NEW op \in Ops, Succeeds(op)
               PROVE  \E c \in listener \cap iam : expiry[c.row] > horizon
    OBVIOUS
  <2>1. op \in live /\ done[op] = 6
    BY AtSuccess
  <2>2. CASE Alone
    <3>1. cert[op].row = op /\ expiry[op] > horizon /\ cert[op] # NoCert
      BY <2>1, OwnIsFresh DEF FreshInv
    <3>2. cert[op] \in listener \cap iam
      BY <2>1, <2>2, <3>1 DEF ServedInv, OnListener, RowsInv, InIam, Hidden
    <3>3. QED
      BY <3>1, <3>2
  <2>3. CASE ~env.lostAnswers /\ ~env.deletesInUse
    BY <2>1, <2>3 DEF FreshInv, FreshServed
  <2>4. env \in Environments
    BY DEF ServedInv, IInv, RenewalInv, RowTypes
  <2>5. QED
    BY <2>2, <2>3, <2>4 DEF CalmEnvironments, Alone
<1>4. QED
  BY <1>1, <1>2, <1>3, AlwaysServedInv, PTL DEF Spec, SuccessServesFresh

-----------------------------------------------------------------------------
(* With backports                                                          *)

(* What is imported may be the certificate of an operation that is on its  *)
(* way, so that its row no longer hides it.  What is left to rely on is    *)
(* that no other operation is on its way and that IAM keeps what is in     *)
(* use: remove_old_certificate compares the arn it has read with its own.  *)
OneAndKept == Alone /\ ~env.deletesInUse

OwnRows ==
  \A op \in Ops :
    /\ cert[op] # NoCert => cert[op].row = op
    /\ AtStage(op, "upload_certificate", "called") => seen[op].row = op

(* Every row that is linked names a certificate.                           *)
LinkedKnown == \A r \in linked : cert[r] # NoCert

AttachedInIam == OneAndKept => \A op \in live : done[op] >= 3 => cert[op] \in listener \cap iam
ServedAlone == OneAndKept => Served

BackportInv ==
  /\ IInv /\ OneLive /\ Latest /\ FreshOps
  /\ OwnRows /\ LinkedKnown /\ AttachedInIam /\ ServedAlone

LEMMA DateSteps == ASSUME [Next]_vars PROVE DateStep
<1>1. ASSUME NEW op \in Ops, AlbStep(op)
      PROVE  DateStep
  <2>1. UNCHANGED <<expiry, lastExpiry, horizon, env>>
    BY <1>1 DEF AlbStep, AssociateCertificate, ReadOldCertificate, RemoveOldCertificate,
                LinkCertificate, WaitForCertUpdate, rowVars, timeVars
  <2>2. CASE AssociateCertificate(op) \/ LinkCertificate(op)
    BY <2>1, <2>2, HowBodiesAreLeft DEF AssociateCertificate, LinkCertificate, DateStep
  <2>3. CASE ReadOldCertificate(op) \/ WaitForCertUpdate(op)
    BY <2>1, <2>3, HowBodiesAreLeft
       DEF ReadOldCertificate, WaitForCertUpdate, BodyGoesOn, DateStep
  <2>4. CASE RemoveOldCertificate(op)
    BY <2>1, <2>4 DEF RemoveOldCertificate, BodyGoesOn, DateStep
  <2>5. QED
    BY <1>1, <2>2, <2>3, <2>4 DEF AlbStep
<1>2. ASSUME NEW op \in Ops, CommonStep(op, listener) PROVE DateStep
  BY <1>2, CommonRowStep DEF RowStep
<1>3. CASE NewDay \/ ExpiryNears
  BY <1>3, ClockRowStep DEF RowStep
<1>4. CASE BackportReads \/ BackportSaves \/ UNCHANGED vars
  BY <1>4 DEF BackportReads, BackportSaves, vars, renewalVars, taskVars, rowVars, timeVars,
              DateStep
<1>5. QED
  BY <1>1, <1>2, <1>3, <1>4 DEF Next

LEMMA IssueSteps == ASSUME IInv, [Next]_vars PROVE IssueStep
<1> SUFFICES ASSUME NEW op \in Ops, done'[op] >= 1, ~(done[op] >= 1)
             PROVE  IssueCertificate(op)
  BY DEF IssueStep
<1>1. done[op] = 0
  BY DEF IInv, RenewalInv, TaskInv, TaskTypes
<1>2. QED
  BY <1>1, GettingOn DEF Advances

(* The certificate of a row is written once: by its upload, or when it is  *)
(* imported.                                                               *)
LEMMA CertSteps ==
  ASSUME IInv, [Next]_vars
  PROVE  \/ cert' = cert
         \/ \E op \in Ops : SaveUpload(op) /\ cert' = [cert EXCEPT ![op] = seen[op]]
         \/ \E i \in Imports \ linked :
              /\ cert' = [cert EXCEPT ![i] = import] /\ import # NoCert
              /\ linked' = linked \cup {i}
<1>1. ASSUME NEW op \in Ops, AlbStep(op) PROVE cert' = cert
  BY <1>1 DEF AlbStep, AssociateCertificate, ReadOldCertificate, RemoveOldCertificate,
              LinkCertificate, WaitForCertUpdate, rowVars
<1>2. ASSUME NEW op \in Ops, CommonStep(op, listener)
      PROVE  \/ cert' = cert
             \/ \E o \in Ops : SaveUpload(o) /\ cert' = [cert EXCEPT ![o] = seen[o]]
  BY <1>2, CommonRowStep DEF RowStep, SaveUpload
<1>3. CASE NewDay \/ ExpiryNears
  BY <1>3 DEF NewDay, ExpiryNears, rowVars
<1>4. CASE BackportSaves
  BY <1>4 DEF BackportSaves
<1>5. CASE BackportReads \/ UNCHANGED vars
  BY <1>5 DEF BackportReads, vars, renewalVars, rowVars
<1>6. QED
  BY <1>1, <1>2, <1>3, <1>4, <1>5 DEF Next

(* That of an operation, only by its upload.                               *)
LEMMA OwnCertSteps ==
  ASSUME IInv, [Next]_vars, NEW op \in Ops
  PROVE  cert'[op] = cert[op] \/ (SaveUpload(op) /\ cert'[op] = seen[op])
<1>1. op \in Rows /\ op \notin Imports /\ cert \in [Rows -> Cert \cup {NoCert}]
  BY TasksAssumption DEF TasksAssumption, Rows, IInv, RenewalInv, RowTypes
<1>2. QED
  BY <1>1, CertSteps

LEMMA LinkedSteps ==
  ASSUME IInv, [Next]_vars
  PROVE  \/ linked' = linked
         \/ \E op \in Ops : LinkCertificate(op) /\ linked' = linked \cup {op}
         \/ \E i \in Imports : /\ linked' = linked \cup {i} /\ import # NoCert
                               /\ cert' = [cert EXCEPT ![i] = import]
<1>1. ASSUME NEW op \in Ops, AlbStep(op) PROVE linked' = linked \/ LinkCertificate(op)
  BY <1>1 DEF AlbStep, AssociateCertificate, ReadOldCertificate, RemoveOldCertificate,
              LinkCertificate, WaitForCertUpdate, rowVars
<1>2. ASSUME NEW op \in Ops, CommonStep(op, listener) PROVE linked' = linked
  BY <1>2, CommonRowStep
<1>3. CASE NewDay \/ ExpiryNears
  BY <1>3 DEF NewDay, ExpiryNears, rowVars
<1>4. CASE BackportSaves
  BY <1>4 DEF BackportSaves
<1>5. CASE BackportReads \/ UNCHANGED vars
  BY <1>5 DEF BackportReads, vars, renewalVars, rowVars
<1>6. QED
  BY <1>1, <1>2, <1>3, <1>4, <1>5 DEF Next, LinkCertificate

LEMMA OwnRowsKept == ASSUME BackportInv, [Next]_vars PROVE OwnRows'
<1>1. IInv /\ OwnRows /\ seen \in [Ops -> Cert \cup {NoCert}]
  BY DEF BackportInv, IInv, RenewalInv, TaskInv, TaskTypes
<1> SUFFICES ASSUME NEW op \in Ops
             PROVE  /\ cert'[op] # NoCert => cert'[op].row = op
                    /\ AtStage(op, "upload_certificate", "called")' => seen'[op].row = op
  BY DEF OwnRows
<1>2. cert'[op] # NoCert => cert'[op].row = op
  BY <1>1, OwnCertSteps DEF OwnRows, SaveUpload
<1>3. ASSUME AtStage(op, "upload_certificate", "called")'
      PROVE  seen'[op].row = op
  <2>1. CASE UploadCertificate(op)
    <3>1. seen'[op] = [row |-> op, day |-> day]
      BY <1>1, <2>1 DEF UploadCertificate, BodyGoesOn
    <3>2. QED
      BY <3>1
  <2>2. CASE AtStage(op, "upload_certificate", "called") /\ seen'[op] = seen[op]
    BY <1>1, <2>2 DEF OwnRows
  <2>3. QED
    BY <1>1, <1>3, <2>1, <2>2, HalfDone
<1>4. QED
  BY <1>2, <1>3

LEMMA LinkedKnownKept == ASSUME BackportInv, [Next]_vars PROVE LinkedKnown'
<1>1. /\ IInv /\ LinkedKnown /\ LinkedRowsHaveCerts' /\ linked \subseteq Rows
      /\ cert \in [Rows -> Cert \cup {NoCert}] /\ Imports \subseteq Rows
  BY AlbKeeps DEF BackportInv, IInv, RenewalInv, RowTypes, Rows
<1> SUFFICES ASSUME NEW r \in linked', r \notin Ops PROVE cert'[r] # NoCert
  BY <1>1 DEF LinkedKnown, LinkedRowsHaveCerts
<1>2. CASE r \in linked
  <2>1. r \in Rows /\ cert[r] # NoCert
    BY <1>1, <1>2 DEF LinkedKnown
  <2>2. QED
    BY <1>1, <1>2, <2>1, CertSteps
<1>3. CASE r \notin linked
  <2>1. r \in Imports /\ cert' = [cert EXCEPT ![r] = import] /\ import # NoCert
    BY <1>1, <1>3, LinkedSteps
  <2>2. QED
    BY <1>1, <2>1
<1>4. QED
  BY <1>2, <1>3

(* The operation's certificate is what stays attached.                     *)
LEMMA AttachedKept == ASSUME BackportInv, [Next]_vars PROVE AttachedInIam'
<1>1. /\ IInv /\ OneLive /\ AttachedInIam /\ env' = env /\ DateStep /\ RenewalInv
      /\ done \in [Ops -> 0..NumStages] /\ live \subseteq Ops /\ live' \subseteq Ops
  <2>1. IInv'
    BY AlbKeeps DEF BackportInv
  <2>2. QED
    BY <2>1, DateSteps DEF BackportInv, DateStep, IInv, RenewalInv, TaskInv, TaskTypes
<1> SUFFICES ASSUME OneAndKept, NEW op \in live', done'[op] >= 3
             PROVE  cert'[op] \in listener' \cap iam'
  BY <1>1 DEF AttachedInIam, OneAndKept, Alone
<1>2. op \in live /\ op \in Ops
  <2>1. SUFFICES ASSUME op \notin live PROVE FALSE
    BY <1>1
  <2>2. done[op] = 0 /\ done' = done
    BY <1>1, <2>1, NewlyLive
  <2>3. QED
    BY <2>2
<1>3. CASE done[op] >= 3
  <2>1. cert[op] \in listener \cap iam
    BY <1>1, <1>2, <1>3 DEF AttachedInIam
  <2>2. cert'[op] = cert[op]
    <3>1. done[op] # 1
      BY <1>3
    <3>2. ~SaveUpload(op)
      BY <1>1, <3>1, PositionOf DEF SaveUpload
    <3>3. QED
      BY <1>1, <1>2, <3>2, OwnCertSteps
  <2>3. ASSUME NEW o \in Ops, RemoveOldCertificate(o)
        PROVE  cert[op] \in listener'
    <3>1. o = op
      BY <1>1, <1>2, <2>3 DEF OneLive, OneAndKept, RemoveOldCertificate, AtStage
    <3>2. Arn(op) = cert[op]
      BY <1>2, TasksAssumption DEF TasksAssumption, Arn
    <3>3. QED
      BY <2>1, <2>3, <3>1, <3>2 DEF RemoveOldCertificate
  <2>4. \A o \in Ops : AssociateCertificate(o) => listener \subseteq listener'
    BY DEF AssociateCertificate
  <2>5. ASSUME NEW o \in Ops, DeletePreviousCertificate(o, listener)
        PROVE  cert[op] \in iam'
    BY <2>1, <2>5 DEF DeletePreviousCertificate, OneAndKept
  <2>6. QED
    BY <2>1, <2>2, <2>3, <2>4, <2>5, ListenerAndIam
<1>4. CASE ~(done[op] >= 3)
  <2>1. Advances(op) /\ done'[op] = done[op] + 1
    BY <1>1, <1>2, <1>4, GettingOn
  <2>2. done[op] = 2
    BY <1>1, <1>2, <1>4, <2>1
  <2>3. AssociateCertificate(op)
    BY <2>1, <2>2 DEF Advances
  <2>4. QED
    BY <2>3 DEF AssociateCertificate, rowVars
<1>5. QED
  BY <1>3, <1>4

LEMMA ServedAloneKept == ASSUME BackportInv, [Next]_vars PROVE ServedAlone'
<1>1. IInv /\ env' = env /\ live \subseteq Ops
  BY ListenerAndIam DEF BackportInv, IInv, RenewalInv, TaskInv, TaskTypes
<1> SUFFICES ASSUME OneAndKept PROVE listener' \cap iam' # {}
  BY <1>1 DEF ServedAlone, Served, OneAndKept, Alone
<1>2. PICK c : c \in listener \cap iam
  BY DEF BackportInv, ServedAlone, Served
<1>3. ASSUME NEW o \in Ops, RemoveOldCertificate(o), iam' = iam
      PROVE  listener' \cap iam' # {}
  <2>1. o \in live /\ done[o] = 3
    BY <1>1, <1>3, PositionOf DEF RemoveOldCertificate
  <2>2. cert[o] \in listener \cap iam
    BY <2>1 DEF BackportInv, AttachedInIam
  <2>3. Arn(o) = cert[o]
    BY TasksAssumption DEF TasksAssumption, Arn
  <2>4. QED
    BY <1>3, <2>2, <2>3 DEF RemoveOldCertificate
<1>4. \A o \in Ops : AssociateCertificate(o) => listener \subseteq listener'
  BY DEF AssociateCertificate
<1>5. \A o \in Ops : DeletePreviousCertificate(o, listener) => c \in iam'
  BY <1>2 DEF DeletePreviousCertificate, OneAndKept
<1>6. QED
  BY <1>2, <1>3, <1>4, <1>5, ListenerAndIam

LEMMA BackportStarts == ASSUME Init PROVE BackportInv
<1>1. ServedInv /\ live = {} /\ horizon = lastExpiry /\ lastExpiry \in Nat
  BY ServedStarts DEF Init, RenewalInit, ServedInv, IInv, RenewalInv, RowTypes
<1>2. IInv /\ OneLive /\ Latest /\ FreshOps /\ AttachedInIam
  BY <1>1 DEF ServedInv, RowsInv, FreshOps, AttachedInIam
<1>3. OwnRows
  BY <1>1 DEF ServedInv, RowsInv, OwnCerts, OwnRows, AtStage
<1>4. LinkedKnown
  BY <1>1, LinkedCert DEF ServedInv, LinkedKnown
<1>5. ServedAlone
  BY <1>1 DEF ServedInv, ServedWhenCalm, Calm, ServedAlone, OneAndKept
<1>6. QED
  BY <1>2, <1>3, <1>4, <1>5 DEF BackportInv

LEMMA BackportKeeps == BackportInv /\ [Next]_vars => BackportInv'
<1> SUFFICES ASSUME BackportInv, [Next]_vars PROVE BackportInv'
  OBVIOUS
<1>1. IInv' /\ LifecycleStep /\ DateStep /\ IssueStep
  BY AlbKeeps, DateSteps, IssueSteps DEF BackportInv
<1>2. OneLive' /\ Latest' /\ FreshOps'
  BY <1>1, OneLiveStays, LatestStays, FreshOpsStay DEF BackportInv, IInv
<1>3. QED
  BY <1>1, <1>2, OwnRowsKept, LinkedKnownKept, AttachedKept, ServedAloneKept DEF BackportInv

LEMMA AlwaysBackportInv == Spec => []BackportInv
<1>1. Init => BackportInv
  BY BackportStarts
<1>2. QED
  BY <1>1, BackportKeeps, PTL DEF Spec

(* With and without backports the route is served while its operations do  *)
(* not overlap and IAM keeps what is in use, even if a backport imports    *)
(* the very certificate that an operation has just attached.               *)
THEOREM AlbServedWithBackports == Spec => [](Alone /\ ~env.deletesInUse => Served)
<1>1. BackportInv => (Alone /\ ~env.deletesInUse => Served)
  BY DEF BackportInv, ServedAlone, OneAndKept
<1>2. QED
  BY <1>1, AlwaysBackportInv, PTL

(* Environments without overlap in which IAM keeps what is in use.         *)
CarefulEnvironments == \A e \in Environments : e.maxLive = 1 /\ ~e.deletesInUse

(* And an operation that mark_complete closes then leaves a certificate    *)
(* that exists and is not due on the listener, its own.                    *)
THEOREM AlbBackportsServeFresh ==
  ASSUME CarefulEnvironments
  PROVE  Spec => SuccessServesFresh
<1>1. BackportInv /\ [Next]_vars =>
        [\A op \in Ops : Succeeds(op) =>
           \E c \in listener \cap iam : expiry[c.row] > horizon]_vars
  <2> SUFFICES ASSUME BackportInv, [Next]_vars, NEW op \in Ops, Succeeds(op)
               PROVE  \E c \in listener \cap iam : expiry[c.row] > horizon
    OBVIOUS
  <2>1. /\ op \in live /\ done[op] = 6 /\ env \in Environments /\ iam \subseteq Cert
    BY SuccessIsLast DEF BackportInv, IInv, RenewalInv, RowTypes
  <2>2. cert[op] \in listener \cap iam
    BY <2>1 DEF BackportInv, AttachedInIam, OneAndKept, Alone, CarefulEnvironments
  <2>3. cert[op].row = op
    BY <2>1, <2>2, TasksAssumption DEF TasksAssumption, BackportInv, OwnRows
  <2>4. expiry[op] > horizon
    BY <2>1 DEF BackportInv, Latest, FreshOps
  <2>5. QED
    BY <2>2, <2>3, <2>4
<1>2. QED
  BY <1>1, AlwaysBackportInv, PTL DEF Spec, SuccessServesFresh

(* And its row is linked, if every row of the route has its arn.           *)
THEOREM AlbBackportsRenew ==
  ASSUME CarefulEnvironments, Arnless = {}
  PROVE  Spec => SuccessRenews
<1>1. Init => LinkedAfterRemove
  BY DEF Init, RenewalInit, LinkedAfterRemove
<1>2. BackportInv /\ LinkedAfterRemove /\ [Next]_vars => LinkedAfterRemove'
  <2> SUFFICES ASSUME BackportInv, LinkedAfterRemove, [Next]_vars,
                      NEW op \in Ops, done'[op] >= 4
               PROVE  op \in linked'
    BY DEF LinkedAfterRemove
  <2>1. IInv /\ done \in [Ops -> 0..NumStages] /\ linked \subseteq linked'
    BY LinkedSteps DEF BackportInv, IInv, RenewalInv, TaskInv, TaskTypes
  <2>2. CASE done[op] >= 4
    BY <2>1, <2>2 DEF LinkedAfterRemove
  <2>3. CASE ~(done[op] >= 4)
    <3>1. Advances(op) /\ done'[op] = done[op] + 1
      BY <2>1, <2>3, GettingOn
    <3>2. done[op] = 3
      BY <2>1, <2>3, <3>1
    <3>3. \A r \in First : Arn(r) # NoCert
      BY DEF BackportInv, LinkedKnown, First, Newest, Arn
    <3>4. LinkCertificate(op)
      BY <3>1, <3>2, <3>3 DEF Advances
    <3>5. QED
      BY <3>4 DEF LinkCertificate
  <2>4. QED
    BY <2>2, <2>3
<1>3. BackportInv /\ LinkedAfterRemove /\ [Next]_vars =>
        [Alone => \A op \in Ops : Succeeds(op) =>
           op \in linked /\ cert[op] \in listener \cap iam]_vars
  <2> SUFFICES ASSUME BackportInv, LinkedAfterRemove, [Next]_vars, Alone,
                      NEW op \in Ops, Succeeds(op)
               PROVE  op \in linked /\ cert[op] \in listener \cap iam
    OBVIOUS
  <2>1. op \in live /\ done[op] = 6 /\ env \in Environments
    BY SuccessIsLast DEF BackportInv, IInv, RenewalInv, RowTypes
  <2>2. QED
    BY <2>1 DEF BackportInv, LinkedAfterRemove, AttachedInIam, OneAndKept, CarefulEnvironments
<1>4. QED
  BY <1>1, <1>2, <1>3, AlwaysBackportInv, PTL DEF Spec, SuccessRenews
=============================================================================
