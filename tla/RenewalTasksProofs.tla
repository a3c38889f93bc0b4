-------------------------- MODULE RenewalTasksProofs --------------------------
(***************************************************************************)
(* What the tasks of RenewalTasks do to an operation, proved for every     *)
(* pipeline: lemmas for the proofs about AlbRenewal and CdnRenewal.        *)
(*                                                                         *)
(* A step of a task goes on with its body, returns or raises.  There is a  *)
(* lemma for each of the three; the steps of both pipelines are cases of   *)
(* them.                                                                   *)
(*                                                                         *)
(* The second part is about the rows and IAM where nothing is imported:    *)
(* what RowStep and BodyStep allow keeps RowsInv, and each pipeline shows  *)
(* that its steps are such steps.  The third is about the dates: which     *)
(* certificate is due, which row is the newest, and which one is retired.  *)
(***************************************************************************)
EXTENDS RenewalTasks, FiniteSetTheorems, TLAPS

States == {"none", "in progress", "succeeded", "failed"}

TaskTypes ==
  /\ opState \in [Ops -> States]
  /\ done \in [Ops -> 0..NumStages]
  /\ live \subseteq Ops
  /\ retries \in [Ops -> 0..MaxRetries]
  /\ step \in [Ops -> {"start", "read", "called"}]
  /\ seen \in [Ops -> Cert \cup {NoCert}]

(* An operation that has a task is in progress, or its last task has said  *)
(* that it succeeded and has raised all the same.                          *)
OpenOps ==
  \A op \in live :
    /\ done[op] < NumStages
    /\ \/ opState[op] = "in progress"
       \/ opState[op] = "succeeded" /\ done[op] + 1 = NumStages

(* An operation without a task has no body that is half done, and one      *)
(* without a row has done nothing.                                         *)
AtRest ==
  /\ \A op \in Ops \ live : step[op] = "start"
  /\ \A op \in Ops : opState[op] = "none" => done[op] = 0

TaskInv == TaskTypes /\ OpenOps /\ AtRest

LifecycleStep == [Lifecycle!Next]_(Lifecycle!lifecycleVars)

(* The bounds are numbers.                                                 *)
LEMMA Numbers == NumStages \in Nat /\ NumStages > 0 /\ MaxRetries \in Nat
  BY TasksAssumption DEF TasksAssumption, NumStages

(* The last stage is mark_complete's alone.                                *)
LEMMA Stages ==
  \A i \in 1..NumStages : Pipeline[i] = "mark_complete" <=> i = NumStages
  BY TasksAssumption DEF TasksAssumption, NumStages

(* A task never has more retries than MaxRetries.                          *)
LEMMA RetriesType == \A s : RetriesOf(s) \in 0..MaxRetries
  BY TasksAssumption DEF TasksAssumption, RetriesOf

(* A body that goes on touches nothing but itself.                         *)
LEMMA GoesOn ==
  ASSUME TaskInv, NEW op \in live, NEW s \in {"start", "read", "called"},
         NEW c \in Cert \cup {NoCert}, BodyGoesOn(op, s, c)
  PROVE  TaskInv' /\ LifecycleStep
<1>1. TaskTypes'
  BY DEF TaskInv, TaskTypes, BodyGoesOn
<1>2. OpenOps'
  BY DEF TaskInv, OpenOps, BodyGoesOn
<1>3. AtRest'
  BY DEF TaskInv, TaskTypes, AtRest, BodyGoesOn
<1>4. LifecycleStep
  BY DEF LifecycleStep, Lifecycle!lifecycleVars, BodyGoesOn
<1>5. QED
  BY <1>1, <1>2, <1>3, <1>4 DEF TaskInv

(* A task that returns: one before the last, or mark_complete.             *)
LEMMA ReturnsOnce ==
  ASSUME TaskInv, NEW op \in live, Returns(op),
         \/ done[op] + 1 < NumStages /\ UNCHANGED opState
         \/ /\ done[op] + 1 = NumStages
            /\ opState' = [opState EXCEPT ![op] = "succeeded"]
  PROVE  TaskInv' /\ LifecycleStep
<1>0. op \in Ops /\ done[op] \in 0..NumStages /\ done[op] < NumStages
  BY DEF TaskInv, TaskTypes, OpenOps
<1>a. done[op] + 1 < NumStages => opState' = opState /\ opState[op] = "in progress"
  <2>1. opState[op] = "in progress" \/ done[op] + 1 = NumStages
    BY DEF TaskInv, OpenOps
  <2>2. opState' = opState \/ done[op] + 1 = NumStages
    OBVIOUS
  <2>3. done[op] + 1 = NumStages => ~(done[op] + 1 < NumStages)
    BY Numbers
  <2>4. QED
    BY <2>1, <2>2, <2>3
<1>1. TaskTypes'
  <2>1. done' \in [Ops -> 0..NumStages]
    BY <1>0, Numbers DEF TaskInv, TaskTypes, Returns
  <2>2. opState' \in [Ops -> States]
    BY <1>0 DEF TaskInv, TaskTypes, States
  <2>3. live' \subseteq Ops /\ retries' \in [Ops -> 0..MaxRetries]
    BY <1>0, RetriesType DEF TaskInv, TaskTypes, Returns
  <2>4. step' \in [Ops -> {"start", "read", "called"}] /\ seen' \in [Ops -> Cert \cup {NoCert}]
    BY <1>0 DEF TaskInv, TaskTypes, Returns, BodyIsLeft
  <2>5. QED
    BY <2>1, <2>2, <2>3, <2>4 DEF TaskTypes
<1>2. OpenOps'
  <2> SUFFICES ASSUME NEW o \in live'
               PROVE  /\ done'[o] < NumStages
                      /\ \/ opState'[o] = "in progress"
                         \/ opState'[o] = "succeeded" /\ done'[o] + 1 = NumStages
    BY DEF OpenOps, NumStages
  <2>1. CASE o = op
    <3>1. done[op] + 1 < NumStages
      BY <2>1, <1>0, Numbers DEF Returns
    <3>2. opState' = opState /\ opState[op] = "in progress"
      BY <3>1, <1>a
    <3>3. done'[o] = done[op] + 1
      BY <2>1, <1>0 DEF TaskInv, TaskTypes, Returns
    <3>4. QED
      BY <2>1, <3>1, <3>2, <3>3
  <2>2. CASE o # op
    <3>1. o \in live /\ o \in Ops
      BY DEF TaskInv, TaskTypes, Returns
    <3>2. done'[o] = done[o] /\ opState'[o] = opState[o]
      BY <2>2, <3>1, <1>0 DEF TaskInv, TaskTypes, Returns
    <3>3. QED
      BY <3>1, <3>2 DEF TaskInv, OpenOps
  <2>3. QED
    BY <2>1, <2>2
<1>3. AtRest'
  <2>1. \A o \in Ops \ live' : step'[o] = "start"
    BY <1>0 DEF TaskInv, TaskTypes, AtRest, Returns, BodyIsLeft
  <2>2. opState'[op] # "none"
    BY <1>0 DEF TaskInv, TaskTypes, OpenOps
  <2>3. \A o \in Ops : opState'[o] = "none" => done'[o] = 0
    <3> SUFFICES ASSUME NEW o \in Ops, opState'[o] = "none" PROVE done'[o] = 0
      OBVIOUS
    <3>1. o # op
      BY <2>2
    <3>2. opState[o] = "none" /\ done'[o] = done[o]
      BY <3>1, <1>0 DEF TaskInv, TaskTypes, Returns
    <3>3. QED
      BY <3>2 DEF TaskInv, AtRest
  <2>4. QED
    BY <2>1, <2>3 DEF AtRest
<1>4. LifecycleStep
  <2>1. CASE done[op] + 1 < NumStages /\ UNCHANGED opState
    <3>1. opState[op] = "in progress"
      BY <2>1, <1>a
    <3>2. Lifecycle!FinishStage(op)
      BY <2>1, <3>1 DEF Lifecycle!FinishStage, Returns, NumStages
    <3>3. QED
      BY <3>2, <1>0 DEF LifecycleStep, Lifecycle!Next
  <2>2. CASE done[op] + 1 = NumStages /\ opState' = [opState EXCEPT ![op] = "succeeded"]
    <3>1. Lifecycle!Succeed(op)
      BY <2>2 DEF TaskInv, OpenOps, Lifecycle!Succeed, Returns, NumStages
    <3>2. QED
      BY <3>1, <1>0 DEF LifecycleStep, Lifecycle!Next
  <2>3. QED
    BY <2>1, <2>2
<1>5. QED
  BY <1>1, <1>2, <1>3, <1>4 DEF TaskInv

(* A task that raises, whether or not the last of them has said that its   *)
(* operation succeeded.                                                    *)
LEMMA RaisesOnce ==
  ASSUME TaskInv, NEW op \in live, NEW state, Raises(op, state),
         \/ state = opState
         \/ /\ done[op] + 1 = NumStages
            /\ state = [opState EXCEPT ![op] = "succeeded"]
  PROVE  TaskInv' /\ LifecycleStep
<1>0. /\ op \in Ops /\ done[op] \in 0..NumStages /\ done[op] < NumStages
      /\ opState[op] \in {"in progress", "succeeded"}
      /\ done' = done /\ retries[op] \in 0..MaxRetries
  BY DEF TaskInv, TaskTypes, OpenOps, Raises
<1>1. /\ state \in [Ops -> States]
      /\ state[op] = "in progress" \/ (state[op] = "succeeded" /\ done[op] + 1 = NumStages)
      /\ \A o \in Ops \ {op} : state[o] = opState[o]
  BY <1>0 DEF TaskInv, TaskTypes, States, OpenOps
<1>2. TaskTypes'
  <2>1. opState' \in [Ops -> States]
    <3>1. opState' = state \/ opState' = [state EXCEPT ![op] = "failed"]
      BY DEF Raises
    <3>2. QED
      BY <3>1, <1>1, <1>0 DEF States
  <2>2. live' \subseteq Ops /\ done' \in [Ops -> 0..NumStages]
    BY <1>0 DEF TaskInv, TaskTypes, Raises
  <2>3. retries' \in [Ops -> 0..MaxRetries]
    <3>1. CASE retries[op] > 0
      <4>0. \A n \in 0..MaxRetries : n > 0 => n - 1 \in 0..MaxRetries
        BY Numbers
      <4>1. retries[op] - 1 \in 0..MaxRetries
        BY <3>1, <1>0, <4>0
      <4>2. QED
        BY <3>1, <4>1, <1>0 DEF TaskInv, TaskTypes, Raises
    <3>2. CASE ~(retries[op] > 0)
      BY <3>2 DEF TaskInv, TaskTypes, Raises
    <3>3. QED
      BY <3>1, <3>2
  <2>4. step' \in [Ops -> {"start", "read", "called"}] /\ seen' \in [Ops -> Cert \cup {NoCert}]
    BY <1>0 DEF TaskInv, TaskTypes, Raises, BodyIsLeft
  <2>5. QED
    BY <2>1, <2>2, <2>3, <2>4 DEF TaskTypes
<1>3. CASE retries[op] > 0
  <2>1. opState' = state /\ live' = live
    BY <1>3 DEF Raises
  <2>2. OpenOps'
    BY <2>1, <1>0, <1>1 DEF TaskInv, TaskTypes, OpenOps, NumStages
  <2>3. AtRest'
    BY <2>1, <1>0, <1>1 DEF TaskInv, TaskTypes, AtRest, Raises, BodyIsLeft
  <2>4. LifecycleStep
    <3>1. CASE state = opState
      BY <3>1, <2>1, <1>0 DEF LifecycleStep, Lifecycle!lifecycleVars
    <3>2. CASE done[op] + 1 = NumStages /\ state = [opState EXCEPT ![op] = "succeeded"]
      <4>1. done' = [done EXCEPT ![op] = done[op]]
        BY <1>0 DEF TaskInv, TaskTypes
      <4>2. Lifecycle!Succeed(op)
        BY <3>2, <4>1, <2>1, <1>0 DEF Lifecycle!Succeed, NumStages
      <4>3. QED
        BY <4>2, <1>0 DEF LifecycleStep, Lifecycle!Next
    <3>3. QED
      BY <3>1, <3>2
  <2>5. QED
    BY <1>2, <2>2, <2>3, <2>4 DEF TaskInv
<1>4. CASE ~(retries[op] > 0)
  <2>1. opState' = [state EXCEPT ![op] = "failed"] /\ live' = live \ {op}
    BY <1>4 DEF Raises
  <2>2. OpenOps'
    BY <2>1, <1>0, <1>1 DEF TaskInv, TaskTypes, OpenOps, NumStages
  <2>3. AtRest'
    BY <2>1, <1>0, <1>1 DEF TaskInv, TaskTypes, AtRest, Raises, BodyIsLeft
  <2>4. opState' = [opState EXCEPT ![op] = "failed"]
    BY <2>1, <1>1, <1>0 DEF TaskInv, TaskTypes
  <2>5. Lifecycle!Fail(op)
    BY <2>4, <1>0 DEF Lifecycle!Fail, NumStages
  <2>6. LifecycleStep
    BY <2>5, <1>0 DEF LifecycleStep, Lifecycle!Next
  <2>7. QED
    BY <1>2, <2>2, <2>3, <2>6 DEF TaskInv
<1>5. QED
  BY <1>3, <1>4

(* The last effect of a body that is not mark_complete's.                  *)
LEMMA EndsOnce ==
  ASSUME TaskInv, NEW op \in live, done[op] + 1 < NumStages, BodyEnds(op)
  PROVE  TaskInv' /\ LifecycleStep
<1>1. CASE Returns(op) /\ UNCHANGED opState
  BY <1>1, ReturnsOnce
<1>2. CASE Raises(op, opState)
  BY <1>2, RaisesOnce
<1>3. QED
  BY <1>1, <1>2 DEF BodyEnds

(* mark_complete is the last task of an operation.                         *)
LEMMA StageOf ==
  ASSUME TaskInv, NEW op, NEW stage, NEW s, AtStage(op, stage, s)
  PROVE  /\ op \in live /\ op \in Ops
         /\ stage # "mark_complete" => done[op] + 1 < NumStages
         /\ stage = "mark_complete" => done[op] + 1 = NumStages
<1>1. op \in live /\ op \in Ops /\ done[op] \in 0..NumStages
  BY DEF AtStage, TaskInv, TaskTypes
<1>2. done[op] + 1 \in 1..NumStages
  BY <1>1, Numbers DEF AtStage
<1>3. Pipeline[done[op] + 1] = "mark_complete" <=> done[op] + 1 = NumStages
  BY <1>2, Stages
<1>4. stage = Pipeline[done[op] + 1]
  BY DEF AtStage
<1>5. done[op] + 1 # NumStages => done[op] + 1 < NumStages
  BY <1>2, Numbers
<1>6. QED
  BY <1>1, <1>3, <1>4, <1>5

-----------------------------------------------------------------------------
(* The rows                                                                *)

RowTypes ==
  /\ linked \subseteq Rows
  /\ cert \in [Rows -> Cert \cup {NoCert}]
  /\ expiry \in [Owners -> Nat]
  /\ lastExpiry \in Nat
  /\ iam \subseteq Cert
  /\ horizon \in Nat
  /\ day \in 1..MaxDay
  /\ noonAhead \in BOOLEAN
  /\ env \in Environments

(* An operation that is past upload_certificate has its certificate in its *)
(* row, and one that is about to write it there has got it from IAM.       *)
Uploaded ==
  \A op \in Ops : \A i \in 1..done[op] :
    Pipeline[i] = "upload_certificate" => cert[op] # NoCert
GotUpload ==
  \A op \in Ops : AtStage(op, "upload_certificate", "called") => seen[op] # NoCert

RenewalInv == TaskInv /\ RowTypes /\ Uploaded /\ GotUpload /\ LinkedRowsHaveCerts

(* The two halves of the types.                                            *)
LEMMA TypesOfRenewal == RenewalTypeOK <=> TaskTypes /\ RowTypes
  BY DEF RenewalTypeOK, TaskTypes, RowTypes, States

(* A body that goes on keeps what is known about uploads, if the one that  *)
(* it has got is a certificate.                                            *)
LEMMA UploadsWhenGoingOn ==
  ASSUME RenewalInv, NEW op \in live, NEW s, NEW c, BodyGoesOn(op, s, c),
         s = "called" /\ Pipeline[done[op] + 1] = "upload_certificate" => c # NoCert,
         UNCHANGED cert
  PROVE  Uploaded' /\ GotUpload'
<1>1. Uploaded'
  BY DEF RenewalInv, Uploaded, BodyGoesOn
<1>2. GotUpload'
  <2> SUFFICES ASSUME NEW o \in Ops, AtStage(o, "upload_certificate", "called")'
               PROVE  seen'[o] # NoCert
    BY DEF GotUpload
  <2>0. op \in Ops
    BY DEF RenewalInv, TaskInv, TaskTypes
  <2>1. CASE o = op
    <3>1. s = "called" /\ Pipeline[done[op] + 1] = "upload_certificate"
      BY <2>0, <2>1 DEF AtStage, BodyGoesOn, RenewalInv, TaskInv, TaskTypes
    <3>2. seen'[op] = c
      BY <2>0 DEF BodyGoesOn, RenewalInv, TaskInv, TaskTypes
    <3>3. QED
      BY <2>1, <3>1, <3>2
  <2>2. CASE o # op
    <3>1. AtStage(o, "upload_certificate", "called") /\ seen'[o] = seen[o]
      BY <2>0, <2>2 DEF AtStage, NumStages, BodyGoesOn, RenewalInv, TaskInv, TaskTypes
    <3>2. QED
      BY <3>1 DEF RenewalInv, GotUpload
  <2>3. QED
    BY <2>1, <2>2
<1>3. QED
  BY <1>1, <1>2

(* So does a body that is left, if upload_certificate does not return      *)
(* without a certificate in its row.                                       *)
LEMMA UploadsWhenLeaving ==
  ASSUME RenewalInv, NEW op \in live, BodyIsLeft(op), live' \subseteq live,
         \/ done' = done
         \/ /\ done' = [done EXCEPT ![op] = @ + 1]
            /\ Pipeline[done[op] + 1] = "upload_certificate" => cert'[op] # NoCert,
         \A o \in Ops : cert[o] # NoCert => cert'[o] # NoCert
  PROVE  Uploaded' /\ GotUpload'
<1>0. op \in Ops /\ \A o \in Ops : done[o] \in Nat
  BY DEF RenewalInv, TaskInv, TaskTypes
<1>1. Uploaded'
  <2> SUFFICES ASSUME NEW o \in Ops, NEW i \in 1..done'[o],
                      Pipeline[i] = "upload_certificate"
               PROVE  cert'[o] # NoCert
    BY DEF Uploaded
  <2>1. CASE i \in 1..done[o]
    BY <2>1 DEF RenewalInv, Uploaded
  <2>2. CASE i \notin 1..done[o]
    <3>1. done' = [done EXCEPT ![op] = @ + 1]
      BY <2>2
    <3>2. o = op /\ i = done[op] + 1
      <4>1. done'[o] = IF o = op THEN done[o] + 1 ELSE done[o]
        BY <3>1, <1>0 DEF RenewalInv, TaskInv, TaskTypes
      <4>2. QED
        BY <2>2, <4>1, <1>0
    <3>3. QED
      BY <2>2, <3>1, <3>2
  <2>3. QED
    BY <2>1, <2>2
<1>2. GotUpload'
  <2> SUFFICES ASSUME NEW o \in Ops, AtStage(o, "upload_certificate", "called")'
               PROVE  seen'[o] # NoCert
    BY DEF GotUpload
  <2>1. o # op
    BY <1>0 DEF AtStage, BodyIsLeft, RenewalInv, TaskInv, TaskTypes
  <2>2. done'[o] = done[o] /\ step'[o] = step[o] /\ seen'[o] = seen[o]
    BY <1>0, <2>1 DEF BodyIsLeft, RenewalInv, TaskInv, TaskTypes
  <2>3. AtStage(o, "upload_certificate", "called")
    BY <2>2 DEF AtStage, NumStages
  <2>4. QED
    BY <2>2, <2>3 DEF RenewalInv, GotUpload
<1>3. QED
  BY <1>1, <1>2

(* However a body is left, its task goes on to the next stage or stays.    *)
LEMMA HowBodiesAreLeft ==
  ASSUME NEW op, BodyEnds(op) \/ Returns(op) \/ \E state : Raises(op, state)
  PROVE  /\ BodyIsLeft(op)
         /\ live' \subseteq live
         /\ done' = done \/ done' = [done EXCEPT ![op] = @ + 1]
<1>1. ASSUME Returns(op)
      PROVE  BodyIsLeft(op) /\ live' \subseteq live /\ done' = [done EXCEPT ![op] = @ + 1]
  BY <1>1 DEF Returns
<1>2. ASSUME NEW state, Raises(op, state)
      PROVE  BodyIsLeft(op) /\ live' \subseteq live /\ done' = done
  BY <1>2 DEF Raises
<1>3. QED
  BY <1>1, <1>2 DEF BodyEnds

(* The types of RenewalInit, and nothing is uploaded or linked yet.        *)
LEMMA RenewalStarts ==
  ASSUME RenewalInit
  PROVE  RenewalInv /\ Lifecycle!Init
<1>1. TaskInv
  BY Numbers DEF RenewalInit, TaskInv, TaskTypes, OpenOps, AtRest, States
<1>2. RowTypes
  <2>0. /\ 0 \in 0..MaxDay /\ 1 \in 1..MaxDay /\ FirstExpiry \in [Legacy \cup Manual -> Nat]
        /\ Environments \subseteq Environment
    BY TasksAssumption DEF TasksAssumption
  <2>1. \A r \in Legacy \cup Manual : OldCert(r) \in Cert
    BY <2>0 DEF Cert, OldCert, Owners
  <2>2. linked \subseteq Rows /\ cert \in [Rows -> Cert \cup {NoCert}]
    BY <2>1 DEF RenewalInit, Rows
  <2>3. expiry \in [Owners -> Nat]
    BY <2>0 DEF RenewalInit, Owners
  <2>4. First \subseteq Legacy
    BY DEF RenewalInit, First, Newest
  <2>5. iam \subseteq Cert
    BY <2>1, <2>4 DEF RenewalInit
  <2>6. lastExpiry \in Nat
    BY <2>3 DEF RenewalInit, Owners
  <2>7. QED
    BY <2>0, <2>2, <2>3, <2>5, <2>6 DEF RenewalInit, RowTypes
<1>3. Uploaded /\ GotUpload
  BY DEF RenewalInit, Uploaded, GotUpload, AtStage
<1>4. LinkedRowsHaveCerts
  <2>1. \A r \in Legacy : OldCert(r) \in Cert
    BY TasksAssumption DEF TasksAssumption, Cert, OldCert, Owners
  <2>2. QED
    BY <2>1, TasksAssumption DEF TasksAssumption, RenewalInit, LinkedRowsHaveCerts, Rows
<1>5. Lifecycle!Init
  BY DEF RenewalInit, Lifecycle!Init
<1>6. QED
  BY <1>1, <1>2, <1>3, <1>4, <1>5 DEF RenewalInv

(* A step that leaves the rows alone keeps what they say.                  *)
LEMMA RowsUnchanged ==
  ASSUME RenewalInv, UNCHANGED <<rowVars, timeVars>>, iam' \subseteq iam
  PROVE  RowTypes' /\ LinkedRowsHaveCerts'
BY DEF RenewalInv, RowTypes, LinkedRowsHaveCerts, rowVars, timeVars

(* A body before the last stage ends and has not touched the cert column,  *)
(* or it is upload_certificate's.                                          *)
LEMMA EndsWithRows ==
  ASSUME RenewalInv, NEW op \in live, done[op] + 1 < NumStages,
         BodyEnds(op) \/ (Returns(op) /\ UNCHANGED opState),
         Pipeline[done[op] + 1] = "upload_certificate" => cert'[op] # NoCert,
         \A o \in Ops : cert[o] # NoCert => cert'[o] # NoCert,
         RowTypes', LinkedRowsHaveCerts'
  PROVE  RenewalInv' /\ LifecycleStep
<1>1. TaskInv' /\ LifecycleStep
  <2>1. CASE BodyEnds(op)
    BY <2>1, EndsOnce DEF RenewalInv
  <2>2. CASE Returns(op) /\ UNCHANGED opState
    BY <2>2, ReturnsOnce DEF RenewalInv
  <2>3. QED
    BY <2>1, <2>2
<1>2. /\ BodyIsLeft(op) /\ live' \subseteq live
      /\ done' = done \/ done' = [done EXCEPT ![op] = @ + 1]
  BY HowBodiesAreLeft
<1>3. Uploaded' /\ GotUpload'
  BY <1>2, UploadsWhenLeaving
<1>4. QED
  BY <1>1, <1>3 DEF RenewalInv

(* A body goes on and has not touched the rows.                            *)
LEMMA GoesOnWithRows ==
  ASSUME RenewalInv, NEW op \in live, NEW s \in {"start", "read", "called"},
         NEW c \in Cert \cup {NoCert}, BodyGoesOn(op, s, c),
         s = "called" /\ Pipeline[done[op] + 1] = "upload_certificate" => c # NoCert,
         UNCHANGED <<rowVars, timeVars>>, iam' \subseteq Cert
  PROVE  RenewalInv' /\ LifecycleStep
<1>1. TaskInv' /\ LifecycleStep
  BY GoesOn DEF RenewalInv
<1>2. Uploaded' /\ GotUpload'
  BY UploadsWhenGoingOn DEF rowVars
<1>3. RowTypes' /\ LinkedRowsHaveCerts'
  BY DEF RenewalInv, RowTypes, LinkedRowsHaveCerts, rowVars, timeVars
<1>4. QED
  BY <1>1, <1>2, <1>3 DEF RenewalInv

-----------------------------------------------------------------------------
(* The steps that every pipeline has                                       *)

(* The tasks that write the rows.                                          *)
LEMMA IssueKeeps ==
  ASSUME RenewalInv, NEW op \in Ops, IssueCertificate(op)
  PROVE  RenewalInv' /\ LifecycleStep
<1>1. op \in live /\ done[op] + 1 < NumStages
  BY StageOf DEF RenewalInv, IssueCertificate
<1>2. Pipeline[done[op] + 1] # "upload_certificate"
  BY DEF IssueCertificate, AtStage
<1>3. op \in Owners /\ lastExpiry \in Nat /\ lastExpiry + 1 \in Nat
  BY DEF Owners, RenewalInv, RowTypes
<1>4. RowTypes'
  BY <1>3 DEF RenewalInv, RowTypes, IssueCertificate, timeVars
<1>5. LinkedRowsHaveCerts'
  BY DEF RenewalInv, LinkedRowsHaveCerts, IssueCertificate
<1>6. UNCHANGED cert /\ BodyEnds(op)
  BY DEF IssueCertificate
<1>7. QED
  BY <1>1, <1>2, <1>4, <1>5, <1>6, EndsWithRows

LEMMA UploadKeeps ==
  ASSUME RenewalInv, NEW op \in Ops, UploadCertificate(op)
  PROVE  RenewalInv' /\ LifecycleStep
<1> DEFINE c == [row |-> op, day |-> day]
<1>1. op \in live
  BY DEF UploadCertificate, AtStage
<1>2. c \in Cert /\ NoCert \notin Cert
  BY TasksAssumption DEF TasksAssumption, Cert, Owners, RenewalInv, RowTypes
<1>3. /\ BodyGoesOn(op, "called", c) /\ UNCHANGED <<rowVars, timeVars>>
      /\ iam' = iam \cup {c}
  BY DEF UploadCertificate
<1>4. iam' \subseteq Cert /\ c # NoCert
  BY <1>2, <1>3 DEF RenewalInv, RowTypes
<1> HIDE DEF c
<1>5. QED
  BY <1>1, <1>2, <1>3, <1>4, GoesOnWithRows

LEMMA SaveKeeps ==
  ASSUME RenewalInv, NEW op \in Ops, SaveUpload(op)
  PROVE  RenewalInv' /\ LifecycleStep
<1>1. op \in live /\ done[op] + 1 < NumStages
  BY StageOf DEF RenewalInv, SaveUpload
<1>2. seen[op] \in Cert
  BY DEF RenewalInv, TaskInv, TaskTypes, GotUpload, SaveUpload
<1>3. op \in Rows /\ NoCert \notin Cert
  BY TasksAssumption DEF TasksAssumption, Rows
<1>4. cert' = [cert EXCEPT ![op] = seen[op]] /\ BodyEnds(op)
  BY DEF SaveUpload
<1>5. RowTypes'
  BY <1>2, <1>3, <1>4 DEF RenewalInv, RowTypes, SaveUpload, timeVars
<1>6. cert'[op] # NoCert /\ \A o \in Ops : cert[o] # NoCert => cert'[o] # NoCert
  BY <1>2, <1>3, <1>4 DEF RenewalInv, RowTypes, Rows
<1>7. LinkedRowsHaveCerts'
  BY <1>6 DEF RenewalInv, LinkedRowsHaveCerts, SaveUpload
<1>8. QED
  BY <1>1, <1>4, <1>5, <1>6, <1>7, EndsWithRows

LEMMA SkipKeeps ==
  ASSUME RenewalInv, NEW op \in Ops, AlreadyUploaded(op)
  PROVE  RenewalInv' /\ LifecycleStep
<1>1. op \in live /\ done[op] + 1 < NumStages
  BY StageOf DEF RenewalInv, AlreadyUploaded
<1>2. /\ Returns(op) /\ UNCHANGED <<opState, rowVars, timeVars>> /\ iam' \subseteq iam
      /\ cert[op] # NoCert
  BY DEF AlreadyUploaded
<1>3. RowTypes' /\ LinkedRowsHaveCerts'
  BY <1>2, RowsUnchanged
<1>4. QED
  BY <1>1, <1>2, <1>3, EndsWithRows DEF rowVars

(* The tasks that only touch IAM.                                          *)
LEMMA ReadPreviousKeeps ==
  ASSUME RenewalInv, NEW op \in Ops, ReadPreviousCertificate(op)
  PROVE  RenewalInv' /\ LifecycleStep
<1>1. op \in live /\ done[op] + 1 < NumStages
  BY StageOf DEF RenewalInv, ReadPreviousCertificate
<1>2. Pipeline[done[op] + 1] # "upload_certificate"
  BY DEF ReadPreviousCertificate, AtStage
<1>3. UNCHANGED <<rowVars, timeVars>> /\ iam' \subseteq iam
  BY DEF ReadPreviousCertificate
<1>4. PICK r \in Second : BodyGoesOn(op, "read", Name(r)) \/ (Returns(op) /\ UNCHANGED opState)
  BY DEF ReadPreviousCertificate
<1>5. CASE BodyGoesOn(op, "read", Name(r))
  <2>1. Name(r) \in Cert \cup {NoCert}
    BY DEF Second, First, Newest, RenewalInv, RowTypes, Name
  <2>2. iam' \subseteq Cert
    BY <1>3 DEF RenewalInv, RowTypes
  <2>3. QED
    BY <1>1, <1>3, <1>5, <2>1, <2>2, GoesOnWithRows
<1>6. CASE Returns(op) /\ UNCHANGED opState
  BY <1>1, <1>2, <1>3, <1>6, RowsUnchanged, EndsWithRows DEF rowVars
<1>7. QED
  BY <1>4, <1>5, <1>6

LEMMA DeleteKeeps ==
  ASSUME RenewalInv, NEW op \in Ops, NEW inUse, DeletePreviousCertificate(op, inUse)
  PROVE  RenewalInv' /\ LifecycleStep
<1>1. op \in live /\ done[op] + 1 < NumStages
  BY StageOf DEF RenewalInv, DeletePreviousCertificate
<1>2. Pipeline[done[op] + 1] # "upload_certificate"
  BY DEF DeletePreviousCertificate, AtStage
<1>3. UNCHANGED <<rowVars, timeVars>> /\ iam' \subseteq iam /\ BodyEnds(op)
  BY DEF DeletePreviousCertificate
<1>4. QED
  BY <1>1, <1>2, <1>3, RowsUnchanged, EndsWithRows DEF rowVars

(* The end of an operation, on either way.                                 *)
LEMMA CompleteKeeps ==
  ASSUME RenewalInv, NEW op \in Ops, MarkComplete(op)
  PROVE  RenewalInv' /\ LifecycleStep
<1>1. op \in live /\ done[op] + 1 = NumStages /\ Pipeline[done[op] + 1] # "upload_certificate"
  BY StageOf DEF RenewalInv, MarkComplete, AtStage
<1> DEFINE succeeded == [opState EXCEPT ![op] = "succeeded"]
<1>2. /\ (Returns(op) /\ opState' = succeeded) \/ Raises(op, succeeded)
      /\ UNCHANGED <<rowVars, timeVars>> /\ iam' \subseteq iam
  BY DEF MarkComplete
<1>3. TaskInv' /\ LifecycleStep
  <2>1. CASE Returns(op) /\ opState' = succeeded
    BY <1>1, <2>1, ReturnsOnce DEF RenewalInv
  <2>2. CASE Raises(op, succeeded)
    BY <1>1, <2>2, RaisesOnce DEF RenewalInv
  <2>3. QED
    BY <1>2, <2>1, <2>2
<1> HIDE DEF succeeded
<1>4. /\ BodyIsLeft(op) /\ live' \subseteq live
      /\ done' = done \/ done' = [done EXCEPT ![op] = @ + 1]
  BY <1>2, HowBodiesAreLeft
<1>5. Uploaded' /\ GotUpload'
  BY <1>1, <1>2, <1>4, UploadsWhenLeaving DEF rowVars
<1>6. QED
  BY <1>2, <1>3, <1>5, RowsUnchanged DEF RenewalInv

LEMMA RaiseKeeps ==
  ASSUME RenewalInv, NEW op \in live, Raises(op, opState),
         UNCHANGED <<rowVars, timeVars>>, iam' \subseteq iam
  PROVE  RenewalInv' /\ LifecycleStep
<1>1. TaskInv' /\ LifecycleStep
  BY RaisesOnce DEF RenewalInv
<1>2. BodyIsLeft(op) /\ live' \subseteq live /\ done' = done
  BY DEF Raises
<1>3. Uploaded' /\ GotUpload'
  BY <1>2, UploadsWhenLeaving DEF rowVars
<1>4. QED
  BY <1>1, <1>3, RowsUnchanged DEF RenewalInv

LEMMA LossKeeps ==
  ASSUME RenewalInv, NEW op \in Ops, LoseTask(op)
  PROVE  RenewalInv' /\ LifecycleStep
<1>1. /\ op \in live /\ BodyIsLeft(op) /\ live' = live \ {op}
      /\ UNCHANGED <<opState, done, retries, rowVars, timeVars>> /\ iam' \subseteq iam
  BY DEF LoseTask
<1>2. TaskTypes'
  BY <1>1 DEF RenewalInv, TaskInv, TaskTypes, BodyIsLeft, NumStages
<1>3. OpenOps' /\ AtRest'
  BY <1>1 DEF RenewalInv, TaskInv, TaskTypes, OpenOps, AtRest, BodyIsLeft, NumStages
<1>4. Uploaded' /\ GotUpload'
  BY <1>1, UploadsWhenLeaving DEF rowVars
<1>5. LifecycleStep
  BY <1>1 DEF LifecycleStep, Lifecycle!lifecycleVars
<1>6. QED
  BY <1>1, <1>2, <1>3, <1>4, <1>5, RowsUnchanged DEF RenewalInv, TaskInv

(* A new operation.                                                        *)
LEMMA NewOperationKeeps ==
  ASSUME RenewalInv, NEW op \in Ops, RenewAllCerts(op)
  PROVE  RenewalInv' /\ LifecycleStep
<1>1. /\ opState[op] = "none" /\ opState' = [opState EXCEPT ![op] = "in progress"]
      /\ live' = live \cup {op} /\ UNCHANGED <<done, step, seen>>
      /\ retries' = [retries EXCEPT ![op] = RetriesOf(Pipeline[1])]
      /\ UNCHANGED <<rowVars, iam, horizon, day, env>> /\ noonAhead' = FALSE
  BY DEF RenewAllCerts
<1>2. op \notin live /\ step[op] = "start" /\ done[op] = 0
  BY <1>1 DEF RenewalInv, TaskInv, OpenOps, AtRest
<1>3. TaskTypes'
  BY <1>1, RetriesType DEF RenewalInv, TaskInv, TaskTypes, States, NumStages
<1>4. OpenOps'
  <2> SUFFICES ASSUME NEW o \in live'
               PROVE  /\ done'[o] < NumStages
                      /\ \/ opState'[o] = "in progress"
                         \/ opState'[o] = "succeeded" /\ done'[o] + 1 = NumStages
    BY DEF OpenOps, NumStages
  <2>1. CASE o = op
    BY <1>1, <1>2, <2>1, Numbers DEF RenewalInv, TaskInv, TaskTypes
  <2>2. CASE o # op
    <3>1. o \in live /\ opState'[o] = opState[o] /\ done' = done
      BY <1>1, <2>2 DEF RenewalInv, TaskInv, TaskTypes
    <3>2. QED
      BY <3>1 DEF RenewalInv, TaskInv, OpenOps
  <2>3. QED
    BY <2>1, <2>2
<1>5. AtRest'
  BY <1>1 DEF RenewalInv, TaskInv, TaskTypes, AtRest
<1>6. RowTypes' /\ LinkedRowsHaveCerts' /\ Uploaded'
  BY <1>1 DEF RenewalInv, RowTypes, LinkedRowsHaveCerts, Uploaded, rowVars
<1>7. GotUpload'
  BY <1>1, <1>2 DEF RenewalInv, GotUpload, AtStage, NumStages
<1>8. LifecycleStep
  BY <1>1 DEF LifecycleStep, Lifecycle!Next, Lifecycle!Create
<1>9. QED
  BY <1>3, <1>4, <1>5, <1>6, <1>7, <1>8 DEF RenewalInv, TaskInv

(* Whatever serves the route, the common steps keep the invariant and are  *)
(* steps of the operation's lifecycle.                                     *)
LEMMA CommonKeeps ==
  ASSUME RenewalInv, NEW op \in Ops, NEW inUse, CommonStep(op, inUse)
  PROVE  RenewalInv' /\ LifecycleStep
<1>1. CASE IssueCertificate(op)
  BY <1>1, IssueKeeps
<1>2. CASE UploadCertificate(op) \/ SaveUpload(op) \/ AlreadyUploaded(op)
  BY <1>2, UploadKeeps, SaveKeeps, SkipKeeps
<1>3. CASE ReadPreviousCertificate(op) \/ DeletePreviousCertificate(op, inUse)
  BY <1>3, ReadPreviousKeeps, DeleteKeeps
<1>4. CASE MarkComplete(op)
  BY <1>4, CompleteKeeps
<1>5. CASE Raise(op)
  BY <1>5, RaiseKeeps DEF Raise
<1>6. CASE LoseTask(op) \/ RenewAllCerts(op)
  BY <1>6, LossKeeps, NewOperationKeeps
<1>7. QED
  BY <1>1, <1>2, <1>3, <1>4, <1>5, <1>6 DEF CommonStep

(* So does the clock.                                                      *)
LEMMA ClockKeeps ==
  ASSUME RenewalInv, NewDay \/ ExpiryNears
  PROVE  RenewalInv' /\ LifecycleStep
<1>1. UNCHANGED <<opState, done, taskVars, rowVars, iam>>
  BY DEF NewDay, ExpiryNears
<1>2. RowTypes'
  <2>1. CASE NewDay
    <3>1. day' \in 1..MaxDay
      BY <2>1, TasksAssumption DEF TasksAssumption, NewDay, RenewalInv, RowTypes
    <3>2. QED
      BY <1>1, <2>1, <3>1 DEF RenewalInv, RowTypes, NewDay, rowVars
  <2>2. CASE ExpiryNears
    BY <1>1, <2>2 DEF RenewalInv, RowTypes, ExpiryNears, rowVars
  <2>3. QED
    BY <2>1, <2>2
<1>3. TaskInv' /\ Uploaded' /\ GotUpload' /\ LinkedRowsHaveCerts'
  BY <1>1 DEF RenewalInv, TaskInv, TaskTypes, OpenOps, AtRest, Uploaded, GotUpload, AtStage,
              LinkedRowsHaveCerts, NumStages, taskVars, rowVars
<1>4. LifecycleStep
  BY <1>1 DEF LifecycleStep, Lifecycle!lifecycleVars
<1>5. QED
  BY <1>2, <1>3, <1>4 DEF RenewalInv

-----------------------------------------------------------------------------
(* The rows, IAM and what the bodies have read, where nothing is imported  *)

(* A row's certificate is named after it, and is not there from the start. *)
OwnCerts ==
  /\ \A r \in Ops \cup Legacy : cert[r] # NoCert => cert[r].row = r
  /\ \A r \in Legacy : cert[r] # NoCert
  /\ \A op \in Ops : opState[op] = "none" => cert[op] = NoCert

(* What a body has got from IAM or read from the rows while it is half     *)
(* done.                                                                   *)
SeenByUpload ==
  \A op \in Ops : AtStage(op, "upload_certificate", "called") =>
    seen[op] \in iam /\ seen[op].row = op
SeenByDelete ==
  \A op \in Ops : AtStage(op, "delete_old_certificate", "read") =>
    /\ seen[op] \in Cert /\ seen[op].row \in linked
    /\ Alone => seen[op].row # op
    /\ Alone /\ op \in linked => \E r \in Newest(linked \ {op}) : seen[op] = cert[r]

(* The certificate of an operation whose row nobody else looks at.         *)
Hidden(op) == op \in live /\ (Alone \/ op \notin linked)
InIam == \A op \in Ops : Hidden(op) /\ cert[op] # NoCert => cert[op] \in iam

OneLive == Alone => live = {} \/ \E op \in Ops : live = {op}

(* An operation that has its certificate has the latest one.               *)
Latest ==
  /\ \A o \in Owners : expiry[o] <= lastExpiry
  /\ \A op \in Ops : opState[op] = "none" => expiry[op] = 0
  /\ \A op \in Ops : done[op] >= 1 => expiry[op] # 0
  /\ Alone => \A op \in live : expiry[op] # 0 =>
                \A r \in (Ops \cup Legacy) \ {op} : expiry[r] < expiry[op]

RowsInv ==
  /\ RenewalInv /\ linked \cap Imports = {}
  /\ OwnCerts /\ SeenByUpload /\ SeenByDelete /\ InIam /\ OneLive /\ Latest

(* The read that delete_old_certificate goes on with.                      *)
ReadsPrevious(op) ==
  /\ ReadPreviousCertificate(op)
  /\ \E r \in Second : Name(r) # NoCert /\ BodyGoesOn(op, "read", Name(r))

(* The operation is past delete_old_certificate.                           *)
PastDelete(op) == \E i \in 1..done[op] : Pipeline[i] = "delete_old_certificate"

(* What a step of either pipeline may do to the dates, the rows and IAM.   *)
DateStep ==
  /\ UNCHANGED env
  /\ UNCHANGED <<expiry, lastExpiry>> \/ \E op \in Ops : IssueCertificate(op)
  /\ live' \subseteq live \/ \E op \in Ops : RenewAllCerts(op)
  /\ horizon' = horizon \/ ExpiryNears
RowStep(inUse) ==
  /\ DateStep
  /\ \/ linked' = linked
     \/ \E op \in live : /\ linked' = linked \cup {op}
                         /\ ~AtStage(op, "delete_old_certificate", "read")
                         /\ ~PastDelete(op)
  /\ cert' = cert \/ \E op \in Ops : SaveUpload(op)
  /\ \/ iam' = iam
     \/ \E op \in Ops : UploadCertificate(op) \/ DeletePreviousCertificate(op, inUse)

(* How the tasks get on, and how their bodies come to be half done.        *)
IssueStep == \A op \in Ops : done'[op] >= 1 => done[op] >= 1 \/ IssueCertificate(op)
BodyStep(inUse) ==
  /\ IssueStep
  /\ \A op \in Ops :
      /\ AtStage(op, "upload_certificate", "called")' =>
           \/ UploadCertificate(op)
           \/ AtStage(op, "upload_certificate", "called") /\ seen'[op] = seen[op]
      /\ AtStage(op, "delete_old_certificate", "read")' =>
           \/ ReadsPrevious(op)
           \/ AtStage(op, "delete_old_certificate", "read") /\ seen'[op] = seen[op]
      /\ PastDelete(op)' =>
           \/ PastDelete(op) \/ DeletePreviousCertificate(op, inUse)
           \/ ReadPreviousCertificate(op) /\ \E r \in Second : Name(r) = NoCert

(* An operation is linked after its issue and its upload, and deletes      *)
(* after its issue.                                                        *)
InOrder ==
  \A op \in Ops :
    /\ op \in linked => done[op] >= 1
    /\ AtStage(op, "upload_certificate", "called") => op \notin linked
    /\ \A s \in {"start", "read"} :
         AtStage(op, "delete_old_certificate", s) => done[op] >= 1

(* The common steps are such steps.                                        *)
LEMMA CommonRowStep ==
  ASSUME NEW op \in Ops, NEW inUse, CommonStep(op, inUse)
  PROVE  RowStep(inUse) /\ UNCHANGED linked
<1>1. CASE IssueCertificate(op)
  BY <1>1, HowBodiesAreLeft DEF IssueCertificate, timeVars, RowStep, DateStep
<1>2. CASE UploadCertificate(op)
  BY <1>2 DEF UploadCertificate, BodyGoesOn, rowVars, timeVars, RowStep, DateStep
<1>3. CASE SaveUpload(op)
  BY <1>3, HowBodiesAreLeft DEF SaveUpload, timeVars, RowStep, DateStep
<1>4. CASE AlreadyUploaded(op)
  BY <1>4, HowBodiesAreLeft DEF AlreadyUploaded, rowVars, timeVars, RowStep, DateStep
<1>5. CASE ReadPreviousCertificate(op)
  BY <1>5, HowBodiesAreLeft DEF ReadPreviousCertificate, BodyGoesOn, rowVars, timeVars,
                                RowStep, DateStep
<1>6. CASE DeletePreviousCertificate(op, inUse)
  BY <1>6, HowBodiesAreLeft DEF DeletePreviousCertificate, rowVars, timeVars, RowStep, DateStep
<1>7. CASE MarkComplete(op)
  BY <1>7, HowBodiesAreLeft DEF MarkComplete, rowVars, timeVars, RowStep, DateStep
<1>8. CASE Raise(op) \/ LoseTask(op)
  BY <1>8 DEF Raise, Raises, LoseTask, rowVars, timeVars, RowStep, DateStep
<1>9. CASE RenewAllCerts(op)
  BY <1>9 DEF RenewAllCerts, rowVars, RowStep, DateStep
<1>10. QED
  BY <1>1, <1>2, <1>3, <1>4, <1>5, <1>6, <1>7, <1>8, <1>9 DEF CommonStep

(* So are those of the clock.                                              *)
LEMMA ClockRowStep ==
  ASSUME NEW inUse, NewDay \/ ExpiryNears
  PROVE  RowStep(inUse) /\ UNCHANGED <<opState, done, taskVars, rowVars, iam, env>>
BY DEF NewDay, ExpiryNears, RowStep, DateStep, taskVars, rowVars

(* No row of the operation, before and after.                              *)
LEMMA NoRowYet ==
  ASSUME RenewalInv, LifecycleStep, NEW op \in Ops, opState'[op] = "none"
  PROVE  opState[op] = "none" /\ op \notin live
<1>1. opState \in [Ops -> States]
  BY DEF RenewalInv, TaskInv, TaskTypes
<1>2. CASE UNCHANGED opState
  BY <1>2 DEF RenewalInv, TaskInv, OpenOps
<1>3. CASE Lifecycle!Next
  <2>1. PICK o \in Ops : \/ opState' = [opState EXCEPT ![o] = "in progress"]
                        \/ opState' = opState
                        \/ opState' = [opState EXCEPT ![o] = "succeeded"]
                        \/ opState' = [opState EXCEPT ![o] = "failed"]
    BY <1>3 DEF Lifecycle!Next, Lifecycle!Create, Lifecycle!FinishStage, Lifecycle!Succeed,
                Lifecycle!Fail
  <2>2. opState[op] = "none"
    BY <1>1, <2>1
  <2>3. QED
    BY <2>2 DEF RenewalInv, TaskInv, OpenOps
<1>4. QED
  BY <1>2, <1>3 DEF LifecycleStep, Lifecycle!lifecycleVars

(* Only a new operation comes to life.                                     *)
LEMMA NewlyLive ==
  ASSUME RenewalInv, DateStep, NEW op \in live', op \notin live
  PROVE  /\ RenewAllCerts(op) /\ opState[op] = "none"
         /\ done[op] = 0 /\ done' = done
<1>1. PICK o \in Ops : RenewAllCerts(o)
  BY DEF DateStep
<1>2. o = op
  BY <1>1 DEF RenewAllCerts
<1>3. QED
  BY <1>1, <1>2 DEF RenewAllCerts, RenewalInv, TaskInv, AtRest

(* A new operation finds the route without a task, where it has to.        *)
LEMMA FirstOfItsKind ==
  ASSUME OneLive, Alone, NEW op \in Ops, RenewAllCerts(op)
  PROVE  live = {} /\ live' = {op}
<1>1. Cardinality(live) < 1 /\ live' = live \cup {op}
  BY DEF RenewAllCerts, Alone
<1>2. \A o : Cardinality({o}) = 1
  BY FS_Singleton
<1>3. \A o \in Ops : live # {o}
  BY <1>1, <1>2
<1>4. QED
  BY <1>1, <1>3 DEF OneLive

(* Rows are linked for good, and never imported.                           *)
LEMMA LinkedForGood ==
  ASSUME RowsInv, NEW inUse, RowStep(inUse)
  PROVE  linked \subseteq linked' /\ linked' \cap Imports = {}
<1>1. live \cap Imports = {}
  BY TasksAssumption DEF TasksAssumption, RowsInv, RenewalInv, TaskInv, TaskTypes
<1>2. QED
  BY <1>1 DEF RowStep, RowsInv

(* The certificate of a linked row is the row's.                           *)
LEMMA LinkedCert ==
  ASSUME RowsInv, NEW r \in linked
  PROVE  cert[r] \in Cert /\ cert[r] # NoCert /\ cert[r].row = r /\ r \in Ops \cup Legacy
<1>1. r \in Ops \cup Legacy /\ r \in Rows
  BY DEF RowsInv, RenewalInv, RowTypes, Rows
<1>2. cert[r] # NoCert
  BY <1>1 DEF RowsInv, OwnCerts, RenewalInv, LinkedRowsHaveCerts
<1>3. QED
  BY <1>1, <1>2 DEF RowsInv, OwnCerts, RenewalInv, RowTypes

(* certificates[1] is another row, unless operations overlap: the newest   *)
(* of the others.                                                          *)
LEMMA SecondIsAnother ==
  ASSUME RowsInv, Alone, NEW op \in live, done[op] >= 1, NEW r \in Second
  PROVE  r # op /\ (op \in linked => r \in Newest(linked \ {op}))
<1>0. op \in Ops /\ op \in Owners
  BY DEF RowsInv, RenewalInv, TaskInv, TaskTypes, Owners
<1>1. PICK f \in First : r \in Newest(linked \ {f})
  BY DEF Second
<1>2. CASE op \notin linked
  BY <1>1, <1>2 DEF Newest
<1>3. CASE op \in linked
  <2>1. f \in linked /\ f \in Ops \cup Legacy /\ Expires(op) <= Expires(f)
    BY <1>3, LinkedCert DEF First, Newest
  <2>2. Expires(op) = expiry[op] /\ Expires(f) = expiry[f]
    BY <1>3, <2>1 DEF Expires, RowsInv
  <2>3. f # op => expiry[f] < expiry[op]
    BY <1>0, <2>1 DEF RowsInv, Latest
  <2>4. expiry[f] \in Nat /\ expiry[op] \in Nat
    BY <1>0, <2>1 DEF RowsInv, RenewalInv, RowTypes, Owners
  <2>5. f = op
    BY <2>1, <2>2, <2>3, <2>4
  <2>6. QED
    BY <1>1, <2>5 DEF Newest
<1>4. QED
  BY <1>2, <1>3

(* A deletion takes the certificate of a linked row, and not the           *)
(* operation's own where it is alone.                                      *)
LEMMA Deleted ==
  ASSUME RowsInv, NEW o \in Ops, NEW inUse, DeletePreviousCertificate(o, inUse)
  PROVE  /\ o \in live /\ iam' = iam \ {seen[o]}
         /\ seen[o].row \in linked /\ (Alone => seen[o].row # o)
         /\ ~env.deletesInUse => seen[o] \notin inUse
BY DEF DeletePreviousCertificate, AtStage, RowsInv, SeenByDelete

(* A row's certificate is written only by its own upload.                  *)
LEMMA CertStays ==
  ASSUME RenewalInv, NEW inUse, RowStep(inUse), NEW op \in Ops, ~SaveUpload(op)
  PROVE  cert'[op] = cert[op]
<1>1. \A o \in Ops : SaveUpload(o) => o # op /\ cert' = [cert EXCEPT ![o] = seen[o]]
  BY DEF SaveUpload
<1>2. cert' = cert \/ \E o \in Ops : SaveUpload(o)
  BY DEF RowStep
<1>3. op \in Rows /\ cert \in [Rows -> Cert \cup {NoCert}]
  BY DEF RenewalInv, RowTypes, Rows
<1>4. QED
  BY <1>1, <1>2, <1>3

(* An operation that stays hidden has been hidden, or is new.              *)
LEMMA HiddenBefore ==
  ASSUME RowsInv, NEW inUse, RowStep(inUse), NEW op \in Ops, Hidden(op)', op \in live
  PROVE  Hidden(op)
<1>1. linked \subseteq linked' /\ env' = env
  BY LinkedForGood DEF RowStep, DateStep
<1>2. QED
  BY <1>1 DEF Hidden, Alone

(* Of two operations that are live, one is not alone.                      *)
LEMMA HiddenFromOthers ==
  ASSUME OneLive, NEW op \in Ops, Hidden(op), NEW o \in live, o # op
  PROVE  op \notin linked
BY DEF OneLive, Hidden

(* A certificate that is issued expires after all others.                  *)
LEMMA LatestWhenIssued ==
  ASSUME RenewalInv, Latest, NEW op \in Ops, IssueCertificate(op)
  PROVE  /\ \A o \in Owners : expiry'[o] <= lastExpiry'
         /\ \A o \in Owners \ {op} : expiry'[o] = expiry[o]
         /\ expiry'[op] # 0
         /\ expiry[op] = 0 =>
              /\ expiry'[op] = lastExpiry + 1 /\ lastExpiry' = lastExpiry + 1
              /\ \A r \in Owners \ {op} : expiry'[r] < expiry'[op]
         /\ expiry[op] # 0 => UNCHANGED <<expiry, lastExpiry>>
         /\ op \in live /\ live' \subseteq live
<1>1. /\ op \in live /\ live' \subseteq live /\ op \in Owners
      /\ lastExpiry \in Nat /\ expiry \in [Owners -> Nat]
      /\ \A o \in Owners : expiry[o] <= lastExpiry
  BY HowBodiesAreLeft DEF RenewalInv, RowTypes, Latest, IssueCertificate, AtStage, Owners
<1>2. CASE expiry[op] = 0
  <2>1. lastExpiry' = lastExpiry + 1 /\ expiry' = [expiry EXCEPT ![op] = lastExpiry + 1]
    BY <1>2 DEF IssueCertificate
  <2>2. \A o \in Owners : expiry'[o] = IF o = op THEN lastExpiry + 1 ELSE expiry[o]
    BY <1>1, <2>1
  <2>3. \A o \in Owners : expiry[o] \in Nat
    BY <1>1
  <2>4. \A o \in Owners : expiry'[o] <= lastExpiry'
    BY <1>1, <2>1, <2>2, <2>3
  <2>5. \A o \in Owners \ {op} : expiry'[o] < expiry'[op]
    BY <1>1, <2>2, <2>3
  <2>6. expiry'[op] # 0 /\ expiry'[op] = lastExpiry + 1
    BY <1>1, <2>2
  <2>7. QED
    BY <1>1, <1>2, <2>1, <2>2, <2>4, <2>5, <2>6
<1>3. CASE expiry[op] # 0
  <2>1. UNCHANGED <<expiry, lastExpiry>>
    BY <1>3 DEF IssueCertificate
  <2>2. QED
    BY <1>1, <1>3, <2>1
<1>4. QED
  BY <1>2, <1>3

LEMMA OwnCertsStay ==
  ASSUME RowsInv, LifecycleStep, NEW inUse, RowStep(inUse) PROVE OwnCerts'
<1>1. RenewalInv /\ cert \in [Rows -> Cert \cup {NoCert}]
  BY DEF RowsInv, RenewalInv, RowTypes
<1>2. \A op \in Ops : opState'[op] = "none" => opState[op] = "none" /\ op \notin live
  BY <1>1, NoRowYet
<1>3. CASE cert' = cert
  BY <1>2, <1>3 DEF RowsInv, OwnCerts
<1>4. CASE \E op \in Ops : SaveUpload(op)
  <2>1. PICK op \in Ops : SaveUpload(op)
    BY <1>4
  <2>2. op \in live /\ seen[op].row = op
    BY <2>1 DEF SaveUpload, AtStage, RowsInv, SeenByUpload
  <2>3. \A r \in Rows : cert'[r] = IF r = op THEN seen[op] ELSE cert[r]
    BY <1>1, <2>1 DEF SaveUpload
  <2>4. op \notin Legacy
    BY TasksAssumption DEF TasksAssumption
  <2>5. QED
    BY <1>2, <2>2, <2>3, <2>4 DEF RowsInv, OwnCerts, Rows
<1>5. QED
  BY <1>3, <1>4 DEF RowStep

LEMMA SeenByUploadStays ==
  ASSUME RowsInv, NEW inUse, RowStep(inUse), BodyStep(inUse), InOrder PROVE SeenByUpload'
<1> SUFFICES ASSUME NEW op \in Ops, AtStage(op, "upload_certificate", "called")'
             PROVE  seen'[op] \in iam' /\ seen'[op].row = op
  BY DEF SeenByUpload
<1>1. CASE UploadCertificate(op)
  <2>1. seen \in [Ops -> Cert \cup {NoCert}]
    BY DEF RowsInv, RenewalInv, TaskInv, TaskTypes
  <2>2. seen'[op] = [row |-> op, day |-> day] /\ iam' = iam \cup {[row |-> op, day |-> day]}
    BY <1>1, <2>1 DEF UploadCertificate, BodyGoesOn
  <2>3. QED
    BY <2>2
<1>2. CASE AtStage(op, "upload_certificate", "called") /\ seen'[op] = seen[op]
  <2>1. seen[op] \in iam /\ seen[op].row = op
    BY <1>2 DEF RowsInv, SeenByUpload
  <2>2. op \notin linked
    BY <1>2 DEF InOrder
  <2>3. \A o \in Ops : DeletePreviousCertificate(o, inUse) => seen[op] \in iam'
    BY <2>1, <2>2, Deleted
  <2>4. \A o \in Ops : UploadCertificate(o) => iam \subseteq iam'
    BY DEF UploadCertificate
  <2>5. seen[op] \in iam'
    BY <2>1, <2>3, <2>4 DEF RowStep
  <2>6. QED
    BY <1>2, <2>1, <2>5
<1>3. QED
  BY <1>1, <1>2 DEF BodyStep

(* While an operation that is alone deletes, the other rows stay as they   *)
(* are.                                                                    *)
LEMMA OthersStay ==
  ASSUME RowsInv, Alone, NEW inUse, RowStep(inUse), NEW op \in live,
         AtStage(op, "delete_old_certificate", "start")
         \/ AtStage(op, "delete_old_certificate", "read")
  PROVE  UNCHANGED <<cert, expiry, lastExpiry>>
<1>1. \A o \in live : o = op
  BY DEF RowsInv, OneLive
<1>2. \A o \in Ops : ~IssueCertificate(o) /\ ~SaveUpload(o)
  BY <1>1 DEF IssueCertificate, SaveUpload, AtStage
<1>3. QED
  BY <1>2 DEF RowStep, DateStep

(* The newest rows are newest as long as neither they nor their dates      *)
(* change.                                                                 *)
LEMMA NewestStays ==
  ASSUME RowsInv, UNCHANGED <<linked, cert, expiry>>, NEW op, NEW r \in Newest(linked \ {op})
  PROVE  r \in Newest(linked \ {op})'
<1>1. \A s : Expires(s)' = Expires(s)
  BY DEF Expires
<1>2. QED
  BY <1>1 DEF Newest

LEMMA SeenByDeleteStays ==
  ASSUME RowsInv, NEW inUse, RowStep(inUse), BodyStep(inUse), InOrder PROVE SeenByDelete'
<1>1. linked \subseteq linked' /\ env' = env
  BY LinkedForGood DEF RowStep, DateStep
<1> SUFFICES ASSUME NEW op \in Ops, AtStage(op, "delete_old_certificate", "read")'
             PROVE  /\ seen'[op] \in Cert /\ seen'[op].row \in linked'
                    /\ Alone => seen'[op].row # op
                    /\ Alone /\ op \in linked' =>
                         \E r \in Newest(linked \ {op})' : seen'[op] = cert'[r]
  BY <1>1 DEF SeenByDelete, Alone
<1>2. CASE ReadsPrevious(op)
  <2>1. PICK r \in Second : Name(r) # NoCert /\ BodyGoesOn(op, "read", Name(r))
    BY <1>2 DEF ReadsPrevious
  <2>2. r \in linked /\ Name(r) = cert[r]
    BY <2>1 DEF Second, First, Newest, Name
  <2>3. seen'[op] = cert[r] /\ UNCHANGED <<linked, cert, expiry>>
    BY <1>2, <2>1, <2>2 DEF BodyGoesOn, RowsInv, RenewalInv, TaskInv, TaskTypes, ReadsPrevious,
                            ReadPreviousCertificate, rowVars
  <2>4. op \in live /\ done[op] >= 1
    BY <1>2 DEF ReadsPrevious, ReadPreviousCertificate, InOrder, AtStage
  <2>5. Alone => r # op /\ (op \in linked => r \in Newest(linked \ {op}))
    BY <2>1, <2>4, SecondIsAnother
  <2>6. Alone /\ op \in linked => r \in Newest(linked \ {op})'
    BY <2>3, <2>5, NewestStays
  <2>7. QED
    BY <1>1, <2>2, <2>3, <2>5, <2>6, LinkedCert
<1>3. CASE AtStage(op, "delete_old_certificate", "read") /\ seen'[op] = seen[op]
  <2>1. /\ seen[op] \in Cert /\ seen[op].row \in linked
        /\ Alone => seen[op].row # op
        /\ Alone /\ op \in linked => \E r \in Newest(linked \ {op}) : seen[op] = cert[r]
    BY <1>3 DEF RowsInv, SeenByDelete
  <2>2. ASSUME Alone, op \in linked'
        PROVE  \E r \in Newest(linked \ {op})' : seen'[op] = cert'[r]
    <3>1. op \in live /\ \A o \in live : o = op
      BY <1>3, <2>2 DEF AtStage, RowsInv, OneLive
    <3>2. linked' = linked
      BY <1>3, <3>1 DEF RowStep
    <3>3. UNCHANGED <<linked, cert, expiry>>
      BY <1>3, <2>2, <3>1, <3>2, OthersStay
    <3>4. PICK r \in Newest(linked \ {op}) : seen[op] = cert[r]
      BY <2>1, <2>2, <3>2
    <3>5. r \in Newest(linked \ {op})'
      BY <3>3, NewestStays
    <3>6. QED
      BY <1>3, <3>3, <3>4, <3>5
  <2>3. QED
    BY <1>1, <1>3, <2>1, <2>2
<1>4. QED
  BY <1>2, <1>3 DEF BodyStep

LEMMA InIamStays ==
  ASSUME RowsInv, NEW inUse, RowStep(inUse) PROVE InIam'
<1>1. RenewalInv /\ OneLive
  BY DEF RowsInv
<1> SUFFICES ASSUME NEW op \in Ops, Hidden(op)', cert'[op] # NoCert
             PROVE  cert'[op] \in iam'
  BY DEF InIam
<1>2. CASE op \notin live
  <2>1. op \in live' /\ RenewAllCerts(op) /\ opState[op] = "none"
    BY <1>1, <1>2, NewlyLive DEF Hidden, RowStep
  <2>2. cert' = cert
    BY <2>1 DEF RenewAllCerts, rowVars
  <2>3. QED
    BY <2>1, <2>2 DEF RowsInv, OwnCerts
<1>3. CASE op \in live /\ SaveUpload(op)
  <2>1. seen[op] \in iam /\ iam' = iam /\ cert' = [cert EXCEPT ![op] = seen[op]]
    BY <1>3 DEF SaveUpload, RowsInv, SeenByUpload
  <2>2. cert'[op] = seen[op]
    BY <1>1, <2>1 DEF RenewalInv, RowTypes, Rows
  <2>3. QED
    BY <2>1, <2>2
<1>4. CASE op \in live /\ ~SaveUpload(op)
  <2>1. Hidden(op)
    BY <1>4, HiddenBefore
  <2>2. cert'[op] = cert[op]
    BY <1>1, <1>4, CertStays
  <2>3. cert[op] \in iam /\ cert[op].row = op
    BY <2>1, <2>2 DEF RowsInv, InIam, OwnCerts
  <2>4. ASSUME NEW o \in Ops, DeletePreviousCertificate(o, inUse)
        PROVE  cert[op] \in iam'
    <3>1. seen[o].row # op
      BY <1>1, <2>1, <2>4, Deleted, HiddenFromOthers DEF Hidden
    <3>2. QED
      BY <2>3, <2>4, <3>1, Deleted
  <2>5. \A o \in Ops : UploadCertificate(o) => iam \subseteq iam'
    BY DEF UploadCertificate
  <2>6. QED
    BY <2>2, <2>3, <2>4, <2>5 DEF RowStep
<1>5. QED
  BY <1>2, <1>3, <1>4

LEMMA OneLiveStays ==
  ASSUME OneLive, DateStep PROVE OneLive'
<1>1. OneLive /\ env' = env
  BY DEF DateStep
<1> SUFFICES ASSUME Alone PROVE live' = {} \/ \E op \in Ops : live' = {op}
  BY <1>1 DEF OneLive, Alone
<1>2. CASE live' \subseteq live
  BY <1>1, <1>2 DEF OneLive
<1>3. CASE \E op \in Ops : RenewAllCerts(op)
  BY <1>1, <1>3, FirstOfItsKind
<1>4. QED
  BY <1>2, <1>3 DEF DateStep

LEMMA LatestStays ==
  ASSUME RenewalInv, OneLive, Latest, LifecycleStep, DateStep, IssueStep PROVE Latest'
<1>1. /\ RenewalInv /\ OneLive /\ Latest /\ env' = env /\ Ops \cup Legacy \subseteq Owners
      /\ \A op \in Ops : opState'[op] = "none" => opState[op] = "none" /\ op \notin live
      /\ live \subseteq Ops
  BY NoRowYet DEF DateStep, RenewalInv, TaskInv, TaskTypes, Owners
<1>2. CASE \E op \in Ops : IssueCertificate(op)
  <2>1. PICK op \in Ops : IssueCertificate(op)
    BY <1>2
  <2>2. /\ \A o \in Owners : expiry'[o] <= lastExpiry'
        /\ \A o \in Owners \ {op} : expiry'[o] = expiry[o]
        /\ expiry'[op] # 0
        /\ expiry[op] = 0 => \A r \in Owners \ {op} : expiry'[r] < expiry'[op]
        /\ expiry[op] # 0 => UNCHANGED <<expiry, lastExpiry>>
        /\ op \in live /\ live' \subseteq live
    BY <1>1, <2>1, LatestWhenIssued
  <2>3. \A o \in Ops : opState'[o] = "none" => expiry'[o] = 0
    BY <1>1, <2>2 DEF Latest
  <2>4. \A o \in Ops : done'[o] >= 1 => expiry'[o] # 0
    <3> SUFFICES ASSUME NEW o \in Ops, o # op, done'[o] >= 1 PROVE expiry'[o] # 0
      BY <2>2
    <3>1. CASE IssueCertificate(o)
      BY <1>1, <3>1, LatestWhenIssued
    <3>2. CASE done[o] >= 1
      BY <1>1, <2>2, <3>2 DEF Latest
    <3>3. QED
      BY <3>1, <3>2 DEF IssueStep
  <2>5. Alone => \A o \in live' : o = op
    BY <1>1, <2>2 DEF OneLive
  <2>6. Alone => \A r \in (Ops \cup Legacy) \ {op} : expiry'[r] < expiry'[op]
    BY <1>1, <2>2 DEF Latest
  <2>7. QED
    BY <1>1, <2>2, <2>3, <2>4, <2>5, <2>6 DEF Latest, Alone
<1>3. CASE UNCHANGED <<expiry, lastExpiry>> /\ ~\E op \in Ops : IssueCertificate(op)
  <2>1. \A o \in Ops : done'[o] >= 1 => expiry'[o] # 0
    BY <1>1, <1>3 DEF IssueStep, Latest
  <2>2. ASSUME Alone, NEW op \in live', expiry'[op] # 0
        PROVE  \A r \in (Ops \cup Legacy) \ {op} : expiry'[r] < expiry'[op]
    <3>1. op \in live
      <4>1. SUFFICES ASSUME op \notin live PROVE FALSE
        OBVIOUS
      <4>2. opState[op] = "none" /\ op \in Ops
        BY <1>1, <4>1, NewlyLive DEF RenewAllCerts, DateStep
      <4>3. QED
        BY <1>1, <1>3, <2>2, <4>2 DEF Latest
    <3>2. QED
      BY <1>1, <1>3, <2>2, <3>1 DEF Latest
  <2>3. QED
    BY <1>1, <1>3, <2>1, <2>2 DEF Latest, Alone
<1>4. QED
  BY <1>2, <1>3 DEF DateStep

(* The invariant holds at first, and every step keeps it.                  *)
LEMMA RowsStart == ASSUME RenewalInit PROVE RowsInv
<1>1. RenewalInv
  BY RenewalStarts
<1>2. /\ live = {} /\ linked = Legacy /\ opState = [op \in Ops |-> "none"]
      /\ done = [op \in Ops |-> 0]
      /\ cert = [r \in Rows |-> IF r \in Legacy THEN OldCert(r) ELSE NoCert]
      /\ expiry = [o \in Owners |-> IF o \in Ops THEN 0 ELSE FirstExpiry[o]]
      /\ \A o \in Legacy \cup Manual : expiry[o] <= lastExpiry
  BY DEF RenewalInit
<1>3. Ops \cap Legacy = {} /\ Imports \cap Legacy = {} /\ NoCert \notin Cert
  BY TasksAssumption DEF TasksAssumption
<1>4. linked \cap Imports = {}
  BY <1>2, <1>3
<1>5. OwnCerts
  <2>1. \A r \in Legacy : OldCert(r) \in Cert /\ OldCert(r).row = r
    BY TasksAssumption DEF TasksAssumption, Cert, OldCert, Owners
  <2>2. QED
    BY <1>2, <1>3, <2>1 DEF OwnCerts, Rows
<1>6. InIam /\ OneLive /\ SeenByUpload /\ SeenByDelete
  BY <1>2 DEF InIam, OneLive, Hidden, SeenByUpload, SeenByDelete, AtStage
<1>7. Latest
  <2>1. lastExpiry \in Nat /\ \A op \in Ops : op \in Owners /\ expiry[op] = 0
    BY <1>1, <1>2 DEF RenewalInv, RowTypes, Owners
  <2>2. \A o \in Owners : expiry[o] <= lastExpiry
    BY <1>2, <2>1 DEF Owners
  <2>3. QED
    BY <1>2, <2>1, <2>2 DEF Latest
<1>8. QED
  BY <1>1, <1>4, <1>5, <1>6, <1>7 DEF RowsInv

LEMMA RowsKeep ==
  ASSUME RowsInv, RenewalInv', LifecycleStep,
         NEW inUse, RowStep(inUse), BodyStep(inUse), InOrder
  PROVE  RowsInv'
BY LinkedForGood, OwnCertsStay, SeenByUploadStays, SeenByDeleteStays, InIamStays, OneLiveStays,
   LatestStays DEF RowsInv, RowStep, BodyStep

(* From its upload on, an operation has a certificate of its own.          *)
LEMMA UploadedCert ==
  ASSUME RowsInv, NEW op \in Ops, NEW i \in 1..done[op], Pipeline[i] = "upload_certificate"
  PROVE  cert[op] \in Cert /\ cert[op].row = op /\ cert[op] # NoCert
<1>1. cert[op] # NoCert
  BY DEF RowsInv, RenewalInv, Uploaded
<1>2. QED
  BY <1>1 DEF RowsInv, OwnCerts, RenewalInv, RowTypes, Rows

(* Nothing of what the pipelines share but mark_complete says that an      *)
(* operation has succeeded.                                                *)
LEMMA CommonSuccess ==
  ASSUME RenewalInv, NEW op \in Ops, Succeeds(op), NEW o \in Ops, NEW inUse,
         CommonStep(o, inUse)
  PROVE  MarkComplete(op)
<1>0. opState \in [Ops -> States] /\ opState[op] # "succeeded" /\ opState'[op] = "succeeded"
  BY DEF RenewalInv, TaskInv, TaskTypes, Succeeds
<1>1. CASE IssueCertificate(o) \/ SaveUpload(o) \/ DeletePreviousCertificate(o, inUse) \/ Raise(o)
  BY <1>0, <1>1 DEF IssueCertificate, SaveUpload, DeletePreviousCertificate, Raise, BodyEnds, Raises
<1>2. CASE UploadCertificate(o) \/ AlreadyUploaded(o) \/ ReadPreviousCertificate(o) \/ LoseTask(o)
  BY <1>0, <1>2 DEF UploadCertificate, AlreadyUploaded, ReadPreviousCertificate, LoseTask,
                    BodyGoesOn
<1>3. CASE RenewAllCerts(o)
  BY <1>0, <1>3 DEF RenewAllCerts
<1>4. CASE MarkComplete(o)
  <2>1. CASE o = op
    BY <1>4, <2>1
  <2>2. CASE o # op
    <3>1. opState'[op] = opState[op]
      BY <1>0, <1>4, <2>2 DEF MarkComplete, Raises
    <3>2. QED
      BY <1>0, <3>1
  <2>3. QED
    BY <2>1, <2>2
<1>5. QED
  BY <1>1, <1>2, <1>3, <1>4 DEF CommonStep

-----------------------------------------------------------------------------
(* The dates                                                               *)

(* The certificate of an operation that is on its way is not due: none     *)
(* comes near its end meanwhile.                                           *)
FreshOps ==
  /\ horizon <= lastExpiry
  /\ \A op \in live : expiry[op] # 0 => expiry[op] > horizon

LEMMA FreshOpsStay ==
  ASSUME RenewalInv, Latest, FreshOps, DateStep PROVE FreshOps'
<1>1. /\ RenewalInv /\ Latest /\ horizon \in Nat /\ lastExpiry \in Nat /\ live \subseteq Ops
      /\ horizon <= lastExpiry /\ Ops \subseteq Owners
      /\ \A op \in live : expiry[op] # 0 => expiry[op] > horizon
  BY DEF RenewalInv, RowTypes, TaskInv, TaskTypes, FreshOps, Owners
<1>2. CASE ExpiryNears
  <2>1. live' = {} /\ horizon < lastExpiry /\ horizon' = horizon + 1 /\ lastExpiry' = lastExpiry
    BY <1>2 DEF ExpiryNears, taskVars, rowVars
  <2>2. QED
    BY <1>1, <2>1 DEF FreshOps
<1>3. CASE horizon' = horizon /\ \E op \in Ops : IssueCertificate(op)
  <2>1. PICK op \in Ops : IssueCertificate(op)
    BY <1>3
  <2>2. /\ \A o \in Owners \ {op} : expiry'[o] = expiry[o]
        /\ expiry[op] = 0 => expiry'[op] = lastExpiry + 1 /\ lastExpiry' = lastExpiry + 1
        /\ expiry[op] # 0 => UNCHANGED <<expiry, lastExpiry>>
        /\ op \in live /\ live' \subseteq live
    BY <1>1, <2>1, LatestWhenIssued
  <2>3. CASE expiry[op] # 0
    BY <1>1, <1>3, <2>2, <2>3 DEF FreshOps
  <2>4. CASE expiry[op] = 0
    <3>1. horizon' <= lastExpiry' /\ expiry'[op] > horizon'
      BY <1>1, <1>3, <2>2, <2>4
    <3>2. \A o \in live' : o # op => (expiry'[o] # 0 => expiry'[o] > horizon')
      BY <1>1, <1>3, <2>2
    <3>3. QED
      BY <3>1, <3>2 DEF FreshOps
  <2>5. QED
    BY <2>3, <2>4
<1>4. CASE horizon' = horizon /\ UNCHANGED <<expiry, lastExpiry>>
  <2> SUFFICES ASSUME NEW op \in live', expiry[op] # 0 PROVE expiry[op] > horizon
    BY <1>1, <1>4 DEF FreshOps
  <2>1. CASE op \in live
    BY <1>1, <2>1
  <2>2. CASE op \notin live
    <3>1. opState[op] = "none" /\ op \in Ops
      BY <1>1, <2>2, NewlyLive DEF DateStep, RenewAllCerts
    <3>2. QED
      BY <1>1, <3>1 DEF Latest
  <2>3. QED
    BY <2>1, <2>2
<1>5. QED
  BY <1>2, <1>3, <1>4 DEF DateStep

(* A certificate that is not due stays so as long as an operation is on    *)
(* its way.                                                                *)
LEMMA StaysFresh ==
  ASSUME RenewalInv, Latest, DateStep, live' # {}, NEW o \in Owners, expiry[o] > horizon
  PROVE  expiry'[o] > horizon'
<1>1. RenewalInv /\ Latest /\ horizon' = horizon
  BY DEF DateStep, ExpiryNears, taskVars
<1>2. /\ horizon \in Nat /\ lastExpiry \in Nat /\ expiry[o] \in Nat
      /\ expiry[o] <= lastExpiry
  BY <1>1 DEF RenewalInv, RowTypes, Latest
<1>3. ASSUME NEW op \in Ops, IssueCertificate(op) PROVE expiry'[o] > horizon
  BY <1>1, <1>2, <1>3, LatestWhenIssued
<1>4. QED
  BY <1>1, <1>3 DEF DateStep

(* No two certificates of the route end at the same time, if none did      *)
(* before: NoTies.                                                         *)
NoTies == \A r, s \in Legacy : FirstExpiry[r] = FirstExpiry[s] => r = s
Distinct ==
  /\ \A r \in Legacy : expiry[r] = FirstExpiry[r]
  /\ \A op \in Ops : expiry[op] # 0 =>
       \A r \in (Ops \cup Legacy) \ {op} : expiry[r] # expiry[op]

LEMMA DistinctAtFirst == ASSUME RenewalInit PROVE Distinct
<1>1. Ops \cap Legacy = {}
  BY TasksAssumption DEF TasksAssumption
<1>2. QED
  BY <1>1 DEF RenewalInit, Distinct, Owners

LEMMA DistinctStays ==
  ASSUME RowsInv, Distinct, NEW inUse, RowStep(inUse) PROVE Distinct'
<1>1. CASE \E op \in Ops : IssueCertificate(op)
  <2>1. PICK op \in Ops : IssueCertificate(op)
    BY <1>1
  <2>2. /\ \A o \in Owners \ {op} : expiry'[o] = expiry[o]
        /\ expiry[op] = 0 => \A r \in Owners \ {op} : expiry'[r] < expiry'[op]
        /\ expiry[op] # 0 => UNCHANGED <<expiry, lastExpiry>>
        /\ op \notin Legacy /\ Ops \cup Legacy \subseteq Owners /\ op \in Owners
    BY <2>1, LatestWhenIssued, TasksAssumption DEF TasksAssumption, RowsInv, Owners
  <2>3. CASE expiry[op] # 0
    BY <2>2, <2>3 DEF Distinct
  <2>4. CASE expiry[op] = 0
    <3>1. expiry' \in [Owners -> Nat]
      BY <2>1, IssueKeeps DEF RowsInv, RenewalInv, RowTypes
    <3>2. \A r \in Owners \ {op} : expiry'[r] # expiry'[op]
      BY <2>2, <2>4, <3>1
    <3>3. QED
      BY <2>2, <3>2 DEF Distinct
  <2>5. QED
    BY <2>3, <2>4
<1>2. CASE UNCHANGED expiry
  BY <1>2 DEF Distinct
<1>3. QED
  BY <1>1, <1>2 DEF RowStep, DateStep

(* Then there is one newest row.                                           *)
LEMMA OneNewest ==
  ASSUME NoTies, RowsInv, Distinct, InOrder, NEW rows \in SUBSET linked,
         NEW r \in Newest(rows), NEW s \in Newest(rows)
  PROVE  r = s
<1>1. r \in linked /\ s \in linked /\ Expires(r) <= Expires(s) /\ Expires(s) <= Expires(r)
  BY DEF Newest
<1>2. /\ r \in Ops \cup Legacy /\ s \in Ops \cup Legacy
      /\ Expires(r) = expiry[r] /\ Expires(s) = expiry[s]
  BY <1>1, LinkedCert DEF Expires, RowsInv
<1>3. expiry[r] \in Nat /\ expiry[s] \in Nat
  BY <1>2 DEF RowsInv, RenewalInv, RowTypes, Owners
<1>4. expiry[r] = expiry[s]
  BY <1>1, <1>2, <1>3
<1>5. \A o \in Ops \cap linked : expiry[o] # 0
  BY DEF RowsInv, Latest, InOrder
<1>6. QED
  BY <1>1, <1>2, <1>4, <1>5 DEF Distinct, NoTies

(* The certificate that an operation has replaced is no longer in IAM.     *)
Retired ==
  Alone => \A op \in live : PastDelete(op) /\ op \in linked =>
             \A r \in Newest(linked \ {op}) : Name(r) \notin iam

LEMMA RetiredStays ==
  ASSUME NoTies, RowsInv, RenewalInv', Distinct, Retired, InOrder,
         NEW inUse, RowStep(inUse), BodyStep(inUse)
  PROVE  Retired'
<1>1. /\ RenewalInv /\ OneLive /\ env' = env /\ live \subseteq Ops /\ linked \subseteq linked'
      /\ NoCert \notin Cert /\ iam \subseteq Cert /\ iam' \subseteq Cert
  BY LinkedForGood, TasksAssumption
     DEF TasksAssumption, RowsInv, RowStep, DateStep, RenewalInv, TaskInv, TaskTypes, RowTypes
<1> SUFFICES ASSUME Alone, NEW op \in live', PastDelete(op)', op \in linked',
                    NEW r \in Newest(linked \ {op})'
             PROVE  Name(r)' \notin iam'
  BY <1>1 DEF Retired, Alone
<1>2. op \in live
  <2>1. SUFFICES ASSUME op \notin live PROVE FALSE
    OBVIOUS
  <2>2. done'[op] = 0
    BY <1>1, <2>1, NewlyLive DEF RowStep
  <2>3. QED
    BY <2>2 DEF PastDelete
<1>3. \A o \in live : o = op
  BY <1>1, <1>2 DEF OneLive
<1>4. CASE PastDelete(op)
  <2>1. linked' = linked /\ op \in linked
    BY <1>3, <1>4 DEF RowStep
  <2>2. done[op] >= 1
    BY <1>1, <1>2, <2>1 DEF InOrder
  <2>3. UNCHANGED expiry
    <3>1. expiry[op] # 0
      BY <1>1, <1>2, <2>2 DEF RowsInv, Latest
    <3>2. \A o \in Ops : IssueCertificate(o) => o = op
      BY <1>3 DEF IssueCertificate, AtStage
    <3>3. QED
      BY <3>1, <3>2 DEF RowStep, DateStep, IssueCertificate
  <2>4. r # op /\ r \in linked /\ r \in Newest(linked \ {op})
    <3>1. r \in linked \ {op} /\ \A s \in linked \ {op} : Expires(s)' <= Expires(r)'
      BY <2>1 DEF Newest
    <3>2. \A s \in linked : Expires(s)' = Expires(s)
      BY <2>3 DEF Expires, RowsInv
    <3>3. QED
      BY <3>1, <3>2 DEF Newest
  <2>5. cert'[r] = cert[r] /\ cert[r].row = r
    <3>1. \A o \in Ops : SaveUpload(o) => o = op
      BY <1>3 DEF SaveUpload, AtStage
    <3>2. cert' = cert \/ cert' = [cert EXCEPT ![op] = seen[op]]
      BY <3>1 DEF RowStep, SaveUpload
    <3>3. r \in Rows /\ cert \in [Rows -> Cert \cup {NoCert}]
      BY <2>4 DEF RowsInv, RenewalInv, RowTypes
    <3>4. QED
      BY <2>4, <3>2, <3>3, LinkedCert
  <2>6. Name(r)' = Name(r) /\ Name(r) \notin iam
    BY <1>2, <1>4, <2>1, <2>4, <2>5 DEF Name, Retired
  <2>7. Name(r) = NoCert \/ Name(r).row = r
    BY <2>5 DEF Name
  <2>8. ASSUME NEW o \in Ops, UploadCertificate(o)
        PROVE  Name(r) \notin iam'
    <3>1. o = op /\ iam' = iam \cup {[row |-> o, day |-> day]}
      BY <1>3, <2>8 DEF UploadCertificate, AtStage
    <3>2. CASE Name(r) = NoCert
      BY <1>1, <3>2
    <3>3. CASE Name(r).row = r
      BY <2>4, <2>6, <3>1, <3>3
    <3>4. QED
      BY <2>7, <3>2, <3>3
  <2>9. \A o \in Ops : DeletePreviousCertificate(o, inUse) => iam' \subseteq iam
    BY DEF DeletePreviousCertificate
  <2>10. QED
    BY <2>6, <2>8, <2>9 DEF RowStep
<1>5. CASE DeletePreviousCertificate(op, inUse)
  <2>1. AtStage(op, "delete_old_certificate", "read") /\ iam' = iam \ {seen[op]} /\ UNCHANGED rowVars
    BY <1>5 DEF DeletePreviousCertificate
  <2>2. UNCHANGED <<linked, cert, expiry>>
    BY <2>1 DEF rowVars
  <2>3. PICK s \in Newest(linked \ {op}) : seen[op] = cert[s]
    BY <1>1, <1>2, <2>1, <2>2 DEF RowsInv, SeenByDelete
  <2>4. r \in Newest(linked \ {op})
    BY <2>2 DEF Newest, Expires
  <2>5. r = s
    BY <2>3, <2>4, OneNewest
  <2>6. QED
    BY <1>1, <2>1, <2>2, <2>3, <2>5 DEF Name
<1>6. CASE ReadPreviousCertificate(op) /\ \E s \in Second : Name(s) = NoCert
  <2>1. AtStage(op, "delete_old_certificate", "start") /\ UNCHANGED <<linked, cert, expiry, iam>>
    BY <1>6 DEF ReadPreviousCertificate, rowVars
  <2>2. PICK s \in Second : Name(s) = NoCert
    BY <1>6
  <2>3. s \in Newest(linked \ {op})
    BY <1>1, <1>2, <2>1, SecondIsAnother DEF InOrder
  <2>4. r \in Newest(linked \ {op})
    BY <2>1 DEF Newest, Expires
  <2>5. r = s
    BY <2>3, <2>4, OneNewest
  <2>6. QED
    BY <1>1, <2>1, <2>2, <2>5 DEF Name
<1>7. QED
  BY <1>1, <1>2, <1>4, <1>5, <1>6 DEF BodyStep
=============================================================================
