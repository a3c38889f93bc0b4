--------------------------- MODULE AlbRenewalProofs ---------------------------
(***************************************************************************)
(* Proofs about AlbRenewal: its types, what a linked row promises, the     *)
(* backport's care not to import twice, and that the pipeline implements   *)
(* OperationLifecycle, for every number of operations, rows and retries,   *)
(* and in every environment.                                               *)
(***************************************************************************)
EXTENDS AlbRenewal, RenewalTasksProofs

AlbTypes ==
  /\ listener \subseteq Cert
  /\ import \in Cert \cup {NoCert}
  /\ sixAhead \in BOOLEAN

(* What a running backport_cert has picked, no imported row has yet.       *)
PickedIsNew ==
  import # NoCert => \A i \in linked \cap Imports : cert[i] # import

IInv == RenewalInv /\ AlbTypes /\ PickedIsNew /\ ImportedOnce

(* The invariant holds at first.                                           *)
LEMMA AlbStarts == ASSUME Init PROVE IInv /\ Lifecycle!Init
<1>1. RenewalInv /\ Lifecycle!Init
  BY RenewalStarts DEF Init
<1>2. AlbTypes
  <2>1. \A m \in Manual : OldCert(m) \in Cert
    BY TasksAssumption DEF TasksAssumption, Cert, OldCert, Owners
  <2>2. iam \subseteq Cert
    BY <1>1 DEF RenewalInv, RowTypes
  <2>3. QED
    BY <2>1, <2>2 DEF Init, AlbTypes
<1>3. linked \cap Imports = {}
  BY TasksAssumption DEF TasksAssumption, Init, RenewalInit
<1>4. PickedIsNew /\ ImportedOnce
  BY <1>3 DEF PickedIsNew, ImportedOnce
<1>5. QED
  BY <1>1, <1>2, <1>4 DEF IInv

(* A step that imports nothing keeps what is known about imports, if it    *)
(* touches only rows of operations.                                        *)
LEMMA ImportsStay ==
  ASSUME IInv, NEW op \in Ops, UNCHANGED import,
         linked' \subseteq linked \cup {op},
         \A i \in Imports : cert'[i] = cert[i]
  PROVE  PickedIsNew' /\ ImportedOnce'
<1>1. linked' \cap Imports \subseteq linked \cap Imports
  BY TasksAssumption DEF TasksAssumption
<1>2. QED
  BY <1>1 DEF IInv, PickedIsNew, ImportedOnce

(* No task of RenewalTasks touches a row that was imported.                *)
LEMMA CommonRows ==
  ASSUME RenewalInv, NEW op \in Ops, NEW inUse, CommonStep(op, inUse)
  PROVE  UNCHANGED linked /\ \A i \in Imports : cert'[i] = cert[i]
<1>1. CASE SaveUpload(op)
  <2>1. op \notin Imports /\ Imports \subseteq Rows
    BY TasksAssumption DEF TasksAssumption, Rows
  <2>2. QED
    BY <1>1, <2>1 DEF SaveUpload, RenewalInv, RowTypes
<1>2. CASE ~SaveUpload(op)
  BY <1>2 DEF CommonStep, IssueCertificate, UploadCertificate, AlreadyUploaded,
              ReadPreviousCertificate, DeletePreviousCertificate, MarkComplete, Raise,
              LoseTask, RenewAllCerts, rowVars
<1>3. QED
  BY <1>1, <1>2

-----------------------------------------------------------------------------
(* The tasks of alb.py                                                     *)

(* A row is linked only after its certificate has been uploaded.           *)
LEMMA LinkKeeps ==
  ASSUME IInv, NEW op \in Ops, LinkCertificate(op)
  PROVE  RenewalInv' /\ LifecycleStep
<1>1. op \in live /\ done[op] + 1 < NumStages /\ done[op] \in 0..NumStages
  BY StageOf DEF IInv, RenewalInv, TaskInv, TaskTypes, LinkCertificate
<1>2. Pipeline[done[op] + 1] = "remove_old_certificate"
  BY DEF LinkCertificate, AtStage
<1>3. Pipeline[1] = "issue" /\ Pipeline[2] = "upload_certificate" /\ NumStages = 7
  BY AlbAssumption DEF AlbAssumption, AlbPipeline, NumStages
<1>4. done[op] # 0 /\ done[op] # 1
  BY <1>2, <1>3
<1>5. 2 \in 1..done[op]
  BY <1>1, <1>3, <1>4
<1>6. cert[op] # NoCert
  BY <1>3, <1>5 DEF IInv, RenewalInv, Uploaded
<1>7. /\ linked' = linked \cup {op} /\ BodyEnds(op)
      /\ UNCHANGED <<cert, expiry, lastExpiry, iam, timeVars>>
  BY DEF LinkCertificate
<1>8. RowTypes' /\ LinkedRowsHaveCerts'
  BY <1>6, <1>7 DEF IInv, RenewalInv, RowTypes, LinkedRowsHaveCerts, Rows, timeVars
<1>9. QED
  BY <1>1, <1>2, <1>7, <1>8, EndsWithRows DEF IInv

(* The others touch only the listener.                                     *)
LEMMA ListenerTasksKeep ==
  ASSUME IInv, NEW op \in Ops,
         AssociateCertificate(op) \/ ReadOldCertificate(op) \/ RemoveOldCertificate(op)
         \/ WaitForCertUpdate(op)
  PROVE  RenewalInv' /\ LifecycleStep
<1>1. op \in live /\ done[op] + 1 < NumStages
  BY StageOf DEF IInv, RenewalInv, AssociateCertificate, ReadOldCertificate,
                 RemoveOldCertificate, WaitForCertUpdate
<1>2. Pipeline[done[op] + 1] # "upload_certificate"
  BY DEF AtStage, AssociateCertificate, ReadOldCertificate, RemoveOldCertificate,
         WaitForCertUpdate
<1>3. UNCHANGED <<rowVars, timeVars>> /\ iam' = iam
  BY DEF AssociateCertificate, ReadOldCertificate, RemoveOldCertificate, WaitForCertUpdate
<1>4. \/ BodyEnds(op) \/ (Returns(op) /\ UNCHANGED opState)
      \/ \E c \in Cert \cup {NoCert}, s \in {"read", "called"} : BodyGoesOn(op, s, c)
  <2>1. CASE AssociateCertificate(op)
    BY <2>1 DEF AssociateCertificate
  <2>2. CASE ReadOldCertificate(op)
    <3>1. \A r \in First : Arn(r) \in Cert \cup {NoCert}
      BY DEF IInv, RenewalInv, RowTypes, First, Newest, Arn
    <3>2. QED
      BY <2>2, <3>1 DEF ReadOldCertificate
  <2>3. CASE RemoveOldCertificate(op)
    <3>1. seen[op] \in Cert \cup {NoCert}
      BY DEF IInv, RenewalInv, TaskInv, TaskTypes
    <3>2. QED
      BY <2>3, <3>1 DEF RemoveOldCertificate
  <2>4. CASE WaitForCertUpdate(op)
    BY <2>4 DEF WaitForCertUpdate
  <2>5. QED
    BY <2>1, <2>2, <2>3, <2>4
<1>5. CASE BodyEnds(op) \/ (Returns(op) /\ UNCHANGED opState)
  <2>1. RowTypes' /\ LinkedRowsHaveCerts' /\ UNCHANGED cert
    BY <1>3, RowsUnchanged DEF IInv, rowVars
  <2>2. QED
    BY <1>1, <1>2, <1>5, <2>1, EndsWithRows DEF IInv
<1>6. CASE \E c \in Cert \cup {NoCert}, s \in {"read", "called"} : BodyGoesOn(op, s, c)
  <2>1. PICK c \in Cert \cup {NoCert}, s \in {"read", "called"} : BodyGoesOn(op, s, c)
    BY <1>6
  <2>2. iam' \subseteq Cert
    BY <1>3 DEF IInv, RenewalInv, RowTypes
  <2>3. QED
    BY <1>1, <1>2, <1>3, <2>1, <2>2, GoesOnWithRows DEF IInv
<1>7. QED
  BY <1>4, <1>5, <1>6

LEMMA AlbStepKeeps ==
  ASSUME IInv, NEW op \in Ops, AlbStep(op)
  PROVE  IInv' /\ LifecycleStep
<1>1. RenewalInv' /\ LifecycleStep
  BY LinkKeeps, ListenerTasksKeep DEF AlbStep
<1>2. AlbTypes'
  <2>1. CASE AssociateCertificate(op)
    <3>1. listener \subseteq Cert /\ iam \subseteq Cert
      BY DEF IInv, AlbTypes, RenewalInv, RowTypes
    <3>2. QED
      BY <2>1, <3>1 DEF IInv, AlbTypes, AssociateCertificate
  <2>2. CASE RemoveOldCertificate(op)
    BY <2>2 DEF IInv, AlbTypes, RemoveOldCertificate
  <2>3. CASE ReadOldCertificate(op) \/ LinkCertificate(op) \/ WaitForCertUpdate(op)
    BY <2>3 DEF IInv, AlbTypes, ReadOldCertificate, LinkCertificate, WaitForCertUpdate, albVars
  <2>4. QED
    BY <2>1, <2>2, <2>3 DEF AlbStep
<1>3. UNCHANGED <<import, cert>> /\ linked' \subseteq linked \cup {op}
  BY DEF AlbStep, AssociateCertificate, ReadOldCertificate, RemoveOldCertificate,
         LinkCertificate, WaitForCertUpdate, rowVars, albVars
<1>4. PickedIsNew' /\ ImportedOnce'
  BY <1>3, ImportsStay
<1>5. QED
  BY <1>1, <1>2, <1>4 DEF IInv

-----------------------------------------------------------------------------
(* The backport                                                            *)

(* The tasks do not see the backport.                                      *)
LEMMA TasksStay ==
  ASSUME RenewalInv, UNCHANGED <<opState, done, taskVars>>, RowTypes', LinkedRowsHaveCerts',
         \A o \in Ops : cert'[o] = cert[o]
  PROVE  RenewalInv' /\ LifecycleStep
<1>1. TaskInv' /\ Uploaded' /\ GotUpload'
  BY DEF RenewalInv, TaskInv, TaskTypes, OpenOps, AtRest, Uploaded, GotUpload, AtStage,
         NumStages, taskVars
<1>2. LifecycleStep
  BY DEF LifecycleStep, Lifecycle!lifecycleVars
<1>3. QED
  BY <1>1, <1>2 DEF RenewalInv

LEMMA PickKeeps == ASSUME IInv, BackportReads PROVE IInv' /\ LifecycleStep
<1>1. /\ sixAhead' = FALSE /\ UNCHANGED <<renewalVars, listener>>
      /\ \E c \in listener \cap iam : (\A r \in linked : Arn(r) # c) /\ import' = c
  BY DEF BackportReads
<1>2. RenewalInv' /\ LifecycleStep
  <2>1. RowTypes' /\ LinkedRowsHaveCerts'
    BY <1>1, RowsUnchanged DEF IInv, renewalVars
  <2>2. QED
    BY <1>1, <2>1, TasksStay DEF IInv, renewalVars, rowVars
<1>3. AlbTypes'
  BY <1>1 DEF IInv, AlbTypes
<1>4. PickedIsNew'
  <2>1. \A i \in Imports : Arn(i) = cert[i]
    BY TasksAssumption DEF TasksAssumption, Arn
  <2>2. QED
    BY <1>1, <2>1 DEF PickedIsNew, renewalVars, rowVars
<1>5. ImportedOnce'
  BY <1>1 DEF IInv, ImportedOnce, renewalVars, rowVars
<1>6. QED
  BY <1>2, <1>3, <1>4, <1>5 DEF IInv

LEMMA ImportKeeps == ASSUME IInv, BackportSaves PROVE IInv' /\ LifecycleStep
<1>1. PICK i \in Imports \ linked :
        linked' = linked \cup {i} /\ cert' = [cert EXCEPT ![i] = import]
  BY DEF BackportSaves
<1>2. /\ import # NoCert /\ import' = NoCert
      /\ UNCHANGED <<opState, done, taskVars, expiry, lastExpiry, iam, timeVars, listener,
                     sixAhead>>
  BY DEF BackportSaves
<1>3. i \in Rows /\ i \notin Ops
  BY TasksAssumption DEF TasksAssumption, Rows
<1>4. RowTypes'
  BY <1>1, <1>2, <1>3 DEF IInv, AlbTypes, RenewalInv, RowTypes, timeVars
<1>5. \A r \in Rows : cert'[r] = IF r = i THEN import ELSE cert[r]
  BY <1>1 DEF IInv, RenewalInv, RowTypes
<1>6. \A o \in Ops : cert'[o] = cert[o]
  BY <1>3, <1>5 DEF Rows
<1>7. LinkedRowsHaveCerts'
  BY <1>1, <1>3, <1>6 DEF IInv, RenewalInv, LinkedRowsHaveCerts
<1>8. RenewalInv' /\ LifecycleStep
  BY <1>2, <1>4, <1>6, <1>7, TasksStay DEF IInv
<1>9. AlbTypes' /\ PickedIsNew'
  BY <1>2 DEF IInv, AlbTypes, PickedIsNew
<1>10. ImportedOnce'
  BY <1>1, <1>2, <1>5 DEF IInv, PickedIsNew, ImportedOnce, Rows
<1>11. QED
  BY <1>8, <1>9, <1>10 DEF IInv

-----------------------------------------------------------------------------
(* The invariant                                                           *)

LEMMA AlbKeeps == ASSUME IInv, [Next]_vars PROVE IInv' /\ LifecycleStep
<1>1. CASE \E op \in Ops : AlbStep(op)
  BY <1>1, AlbStepKeeps
<1>2. ASSUME NEW op \in Ops, CommonStep(op, listener), UNCHANGED albVars
      PROVE  IInv' /\ LifecycleStep
  <2>1. RenewalInv' /\ LifecycleStep
    BY <1>2, CommonKeeps DEF IInv
  <2>2. UNCHANGED linked /\ \A i \in Imports : cert'[i] = cert[i]
    BY <1>2, CommonRows DEF IInv
  <2>3. PickedIsNew' /\ ImportedOnce'
    BY <1>2, <2>2, ImportsStay DEF albVars
  <2>4. AlbTypes'
    BY <1>2 DEF IInv, AlbTypes, albVars
  <2>5. QED
    BY <2>1, <2>3, <2>4 DEF IInv
<1>3. CASE \/ NewDay /\ sixAhead' = TRUE /\ UNCHANGED <<listener, import>>
           \/ ExpiryNears /\ UNCHANGED albVars
  <2>1. RenewalInv' /\ LifecycleStep
    BY <1>3, ClockKeeps DEF IInv
  <2>2. UNCHANGED rowVars
    BY <1>3 DEF NewDay, ExpiryNears
  <2>3. AlbTypes' /\ PickedIsNew' /\ ImportedOnce'
    BY <1>3, <2>2 DEF IInv, AlbTypes, PickedIsNew, ImportedOnce, rowVars, albVars
  <2>4. QED
    BY <2>1, <2>3 DEF IInv
<1>4. CASE BackportReads \/ BackportSaves
  BY <1>4, PickKeeps, ImportKeeps
<1>5. CASE UNCHANGED vars
  <2>1. RowTypes' /\ LinkedRowsHaveCerts'
    BY <1>5, RowsUnchanged DEF IInv, vars, renewalVars
  <2>2. RenewalInv' /\ LifecycleStep
    BY <1>5, <2>1, TasksStay DEF IInv, vars, renewalVars, rowVars
  <2>3. AlbTypes' /\ PickedIsNew' /\ ImportedOnce'
    BY <1>5 DEF IInv, AlbTypes, PickedIsNew, ImportedOnce, vars, albVars, renewalVars, rowVars
  <2>4. QED
    BY <2>2, <2>3 DEF IInv
<1>6. QED
  BY <1>1, <1>2, <1>3, <1>4, <1>5 DEF Next

LEMMA AlwaysIInv == Spec => []IInv
<1>1. Init => IInv
  BY AlbStarts
<1>2. IInv /\ [Next]_vars => IInv'
  BY AlbKeeps
<1>3. QED
  BY <1>1, <1>2, PTL DEF Spec

-----------------------------------------------------------------------------
(* The theorems                                                            *)

(* The rows, the listener, IAM and the tasks keep to their types.          *)
THEOREM AlbTypeCorrect == Spec => []TypeOK
<1>1. IInv => TypeOK
  BY TypesOfRenewal DEF IInv, TypeOK, RenewalInv, TaskInv, AlbTypes
<1>2. QED
  BY <1>1, AlwaysIInv, PTL

(* However often the tasks raise and are run again, and whatever operation *)
(* overlaps, a row that belongs to the route has had its upload.            *)
THEOREM AlbLinkedRowsHaveCerts == Spec => []LinkedRowsHaveCerts
<1>1. IInv => LinkedRowsHaveCerts
  BY DEF IInv, RenewalInv
<1>2. QED
  BY <1>1, AlwaysIInv, PTL

(* No certificate is imported twice, although renewals go on between the   *)
(* reading and the commit of a backport.                                   *)
THEOREM AlbImportedOnce == Spec => []ImportedOnce
<1>1. IInv => ImportedOnce
  BY DEF IInv
<1>2. QED
  BY <1>1, AlwaysIInv, PTL

(* Every step of the pipeline is a step of its operation's lifecycle, or   *)
(* leaves all operations as they are.                                      *)
THEOREM AlbImplementsLifecycle == Spec => ImplementsLifecycle
<1>1. Init => Lifecycle!Init
  BY AlbStarts
<1>2. IInv /\ [Next]_vars => [Lifecycle!Next]_(Lifecycle!lifecycleVars)
  BY AlbKeeps DEF LifecycleStep
<1>3. QED
  BY <1>1, <1>2, AlwaysIInv, PTL DEF Spec, ImplementsLifecycle, Lifecycle!Spec
=============================================================================
