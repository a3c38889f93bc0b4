--------------------------- MODULE AcmeOrderProofs ---------------------------
(***************************************************************************)
(* Theorems about AcmeOrder, for every finite set of domains and every     *)
(* number of retries.  Consistent is inductive; the properties follow.     *)
(***************************************************************************)
EXTENDS AcmeOrder, TLAPS

(* The bound on retries is a number, and so are the stages.                *)
LEMMA Bounds == MaxRetries \in Nat
BY AcmeAssumption DEF AcmeAssumption

(* A number that fits with the retries before fits with those after.       *)
LEMMA Sums ==
  \A n, before, after, max \in Nat :
    /\ n + before <= max /\ after <= before => n + after <= max
    /\ n + before <= max + 1 /\ after + 1 = before => n + after <= max
OBVIOUS

(* A fresh operation has nothing in any place.                             *)
LEMMA ConsistentInit == Init => Consistent
BY Bounds DEF Init, Consistent, TypeOK, Counted, StepInStage, KeysAgree, OrderAgrees,
   AnsweredIsKnown, Unanswered, Keys, Orders, None,
   CreateKey, Initiate, UploadFiles, Answer, Retrieve

(* The end of a body, whichever way it ends: what that does to the task.   *)
LEMMA BodyEndsType ==
  ASSUME TypeOK, BodyEnds, state = "running", done < Retrieve
  PROVE  /\ state' \in {"running", "finished", "failed", "lost"}
         /\ done' \in 0..Retrieve
         /\ retries' \in 0..MaxRetries
         /\ step' = "start" /\ held' = None /\ marked' = {}
         /\ \/ done' = done /\ state' = "failed" /\ retries' = retries
            \/ done' = done /\ state' = "running" /\ retries' + 1 = retries
            \/ /\ done' = done + 1 /\ retries' = MaxRetries
               /\ state' = IF done + 1 = Retrieve THEN "finished" ELSE "running"
BY Bounds DEF TypeOK, BodyEnds, Returns, Raises, BodyIsLeft, Retrieve, None

(* Every step keeps everything consistent: one case per action.            *)
LEMMA ConsistentNext == Consistent /\ [Next]_vars => Consistent'
<1> SUFFICES ASSUME Consistent, [Next]_vars PROVE Consistent'
  OBVIOUS
<1> USE Bounds DEF Consistent, CreateKey, Initiate, UploadFiles, Answer, Retrieve, None, Keys, Orders
<1>1. CASE CreatePrivateKeyAndCsr
  <2>1. TypeOK'
    BY <1>1, BodyEndsType DEF CreatePrivateKeyAndCsr, At, TypeOK, Counted, caVars
  <2>2. Counted'
    BY <1>1, BodyEndsType DEF CreatePrivateKeyAndCsr, At, TypeOK, Counted, caVars
  <2>3. StepInStage'
    BY <1>1, BodyEndsType DEF CreatePrivateKeyAndCsr, At, TypeOK, StepInStage
  <2>4. KeysAgree'
    BY <1>1, BodyEndsType DEF CreatePrivateKeyAndCsr, At, TypeOK, KeysAgree, caVars
  <2>5. OrderAgrees'
    BY <1>1, BodyEndsType DEF CreatePrivateKeyAndCsr, At, TypeOK, OrderAgrees,
       AnsweredIsKnown, caVars
  <2> QED BY <2>1, <2>2, <2>3, <2>4, <2>5
<1>2. CASE NewOrder
  <2>0. PICK valid \in SUBSET Domains :
          authz' = [authz EXCEPT ![placed + 1] =
                      [d \in Domains |-> IF d \in valid THEN "valid" ELSE "pending"]]
    BY <1>2 DEF NewOrder
  <2>1. placed + 1 \in Orders
    BY <1>2 DEF NewOrder, At, TypeOK, Counted
  <2>2. /\ authz' \in [Orders -> [Domains -> {"pending", "valid", "invalid"}]]
        /\ \A o \in Orders, d \in Domains :
             authz'[o][d] = "invalid" => authz[o][d] = "invalid"
    BY <2>0, <2>1 DEF TypeOK
  <2>3. TypeOK' BY <1>2, <2>1, <2>2 DEF NewOrder, BodyGoesOn, TypeOK, rowVars
  <2>4. Counted' BY <1>2 DEF NewOrder, At, BodyGoesOn, TypeOK, Counted
  <2>5. StepInStage' BY <1>2, <2>1 DEF NewOrder, At, BodyGoesOn, StepInStage, rowVars
  <2>6. KeysAgree' BY <1>2 DEF NewOrder, BodyGoesOn, KeysAgree, rowVars
  <2>7. OrderAgrees'
    BY <1>2, <2>2 DEF NewOrder, BodyGoesOn, OrderAgrees, AnsweredIsKnown, Unanswered, rowVars
  <2> QED BY <2>3, <2>4, <2>5, <2>6, <2>7
<1>3. CASE SaveOrder
  <2>0. body' \in [Domains -> {"none", "pending", "valid"}]
    <3>1. held \in Orders /\ asked = {} /\ body' = authz[held]
      BY <1>3 DEF SaveOrder, At, StepInStage, OrderAgrees, TypeOK
    <3>2. \A d \in Domains : authz[held][d] # "invalid"
      BY <3>1 DEF OrderAgrees
    <3>3. authz[held] \in [Domains -> {"pending", "valid", "invalid"}]
      BY <3>1 DEF TypeOK
    <3> QED BY <3>1, <3>2, <3>3
  <2>1. TypeOK' BY <1>3, <2>0, BodyEndsType DEF SaveOrder, At, TypeOK, caVars
  <2>2. Counted' BY <1>3, BodyEndsType DEF SaveOrder, At, TypeOK, Counted, caVars
  <2>3. StepInStage' BY <1>3, BodyEndsType DEF SaveOrder, At, TypeOK, StepInStage
  <2>4. KeysAgree' BY <1>3, BodyEndsType DEF SaveOrder, At, TypeOK, KeysAgree, caVars
  <2>5. OrderAgrees'
    BY <1>3, BodyEndsType DEF SaveOrder, At, TypeOK, OrderAgrees, StepInStage,
       AnsweredIsKnown, caVars
  <2> QED BY <2>1, <2>2, <2>3, <2>4, <2>5
<1>4. CASE AlreadyInitiated
  <2>1. TypeOK'
    BY <1>4, BodyEndsType DEF AlreadyInitiated, At, TypeOK, BodyEnds, rowVars, caVars
  <2>2. Counted'
    BY <1>4, BodyEndsType DEF AlreadyInitiated, At, TypeOK, Counted, BodyEnds, caVars
  <2>3. StepInStage'
    BY <1>4, BodyEndsType DEF AlreadyInitiated, At, TypeOK, StepInStage, BodyEnds
  <2>4. KeysAgree'
    BY <1>4, BodyEndsType DEF AlreadyInitiated, At, TypeOK, KeysAgree, BodyEnds,
       rowVars, caVars
  <2>5. OrderAgrees'
    BY <1>4, BodyEndsType DEF AlreadyInitiated, At, TypeOK, OrderAgrees,
       AnsweredIsKnown, BodyEnds, rowVars, caVars
  <2> QED BY <2>1, <2>2, <2>3, <2>4, <2>5
<1>5. CASE \E d \in Domains : PutFile(d)
  <2> PICK d \in Domains : PutFile(d) BY <1>5
  <2>1. TypeOK' BY DEF PutFile, At, TypeOK, OrderAgrees, taskVars, rowVars, caVars
  <2>2. Counted' BY DEF PutFile, Counted, taskVars, rowVars, caVars
  <2>3. StepInStage' BY DEF PutFile, StepInStage, taskVars, rowVars, caVars
  <2>4. KeysAgree' BY DEF PutFile, KeysAgree, taskVars, rowVars, caVars
  <2>5. OrderAgrees'
    BY DEF PutFile, OrderAgrees, AnsweredIsKnown, taskVars, rowVars, caVars
  <2> QED BY <2>1, <2>2, <2>3, <2>4, <2>5
<1>6. CASE FilesUploaded
  <2>1. TypeOK'
    BY <1>6, BodyEndsType DEF FilesUploaded, At, TypeOK, BodyEnds, rowVars, caVars
  <2>2. Counted'
    BY <1>6, BodyEndsType DEF FilesUploaded, At, TypeOK, Counted, BodyEnds
  <2>3. StepInStage'
    BY <1>6, BodyEndsType DEF FilesUploaded, At, TypeOK, StepInStage, BodyEnds
  <2>4. KeysAgree'
    BY <1>6, BodyEndsType DEF FilesUploaded, At, TypeOK, KeysAgree, BodyEnds,
       rowVars, caVars
  <2>5. OrderAgrees'
    BY <1>6, BodyEndsType DEF FilesUploaded, At, TypeOK, OrderAgrees,
       AnsweredIsKnown, Unanswered, rowVars, caVars
  <2> QED BY <2>1, <2>2, <2>3, <2>4, <2>5
<1>7. CASE \E d \in Domains : MarkValid(d)
  <2> PICK d \in Domains : MarkValid(d) BY <1>7
  <2>1. TypeOK' BY BodyEndsType DEF MarkValid, At, TypeOK, BodyEnds, caVars
  <2>2. Counted' BY BodyEndsType DEF MarkValid, At, TypeOK, Counted, BodyEnds
  <2>3. StepInStage' BY BodyEndsType DEF MarkValid, At, TypeOK, StepInStage, BodyEnds
  <2>4. KeysAgree'
    BY BodyEndsType DEF MarkValid, At, TypeOK, KeysAgree, BodyEnds, caVars
  <2>5. OrderAgrees'
    BY BodyEndsType DEF MarkValid, At, TypeOK, OrderAgrees, StepInStage,
       AnsweredIsKnown, Unanswered, BodyEnds, caVars
  <2> QED BY <2>1, <2>2, <2>3, <2>4, <2>5
<1>8. CASE \E d \in Domains : AnswerChallenge(d)
  <2> PICK d \in Domains : AnswerChallenge(d) BY <1>8
  <2>1. TypeOK' BY DEF AnswerChallenge, At, TypeOK, OrderAgrees, rowVars
  <2>2. Counted' BY DEF AnswerChallenge, Counted, rowVars
  <2>3. StepInStage' BY DEF AnswerChallenge, At, StepInStage, rowVars
  <2>4. KeysAgree' BY DEF AnswerChallenge, KeysAgree, rowVars
  <2>5. OrderAgrees'
    BY DEF AnswerChallenge, At, TypeOK, OrderAgrees, AnsweredIsKnown, Unanswered,
       rowVars
  <2> QED BY <2>1, <2>2, <2>3, <2>4, <2>5
<1>9. CASE SaveAnswers
  <2>1. TypeOK' BY <1>9, BodyEndsType DEF SaveAnswers, At, TypeOK, caVars
  <2>2. Counted' BY <1>9, BodyEndsType DEF SaveAnswers, At, TypeOK, Counted
  <2>3. StepInStage' BY <1>9, BodyEndsType DEF SaveAnswers, At, TypeOK, StepInStage
  <2>4. KeysAgree'
    BY <1>9, BodyEndsType DEF SaveAnswers, At, TypeOK, KeysAgree, caVars
  <2>5. OrderAgrees'
    BY <1>9, BodyEndsType DEF SaveAnswers, At, TypeOK, OrderAgrees, StepInStage,
       AnsweredIsKnown, Unanswered, caVars
  <2> QED BY <2>1, <2>2, <2>3, <2>4, <2>5
<1>10. CASE PollInvalid
  <2>0. /\ done' = done /\ done \in 0..Retrieve /\ done # Retrieve
        /\ retries' \in 0..MaxRetries /\ retries' <= retries
        /\ state' \in {"running", "failed"} /\ state = "running"
        /\ state' = "running" => retries' + 1 = retries
        /\ step' = "start" /\ held' = None /\ marked' = {}
        /\ UNCHANGED <<rowVars, files, caVars>>
    BY <1>10 DEF PollInvalid, At, Raises, BodyIsLeft, TypeOK
  <2>1. TypeOK'
    <3>1. order \in Orders BY <1>10 DEF PollInvalid, At, OrderAgrees, TypeOK
    <3>2. rejected' \subseteq Orders BY <1>10, <3>1 DEF PollInvalid, TypeOK
    <3> QED BY <2>0, <3>2 DEF TypeOK, rowVars, caVars
  <2>2. Counted'
    <3>1. retries \in Nat /\ retries' \in Nat /\ key \in Nat /\ placed \in Nat
      BY <2>0 DEF TypeOK
    <3>2. key' = key /\ placed' = placed
      BY <2>0 DEF rowVars, caVars
    <3>3. step \in {"start", "ordered"} \/ done + 1 = Retrieve
      BY DEF TypeOK, StepInStage
    <3>4. ASSUME state' = "running", done + 1 = CreateKey PROVE key + retries' <= MaxRetries
      <4>1. key + retries <= MaxRetries BY <2>0, <3>4 DEF Counted
      <4> QED BY <2>0, <3>1, <4>1, Sums
    <3>5. ASSUME state' = "running", done + 1 = Initiate PROVE placed + retries' <= MaxRetries
      <4>1. placed + retries <= MaxRetries + 1 BY <2>0, <3>1, <3>3, <3>5 DEF Counted
      <4>2. retries' + 1 = retries BY <2>0, <3>5
      <4> QED BY <3>1, <4>1, <4>2, Sums
    <3> QED BY <2>0, <3>2, <3>4, <3>5 DEF Counted
  <2>3. StepInStage' BY <2>0 DEF StepInStage
  <2>4. KeysAgree' BY <2>0 DEF KeysAgree, rowVars, caVars
  <2>5. OrderAgrees'
    BY <2>0 DEF OrderAgrees, AnsweredIsKnown, Unanswered, rowVars, caVars
  <2> QED BY <2>1, <2>2, <2>3, <2>4, <2>5
<1>11. CASE FinalizeOrder
  <2>1. TypeOK'
    BY <1>11 DEF FinalizeOrder, At, BodyGoesOn, TypeOK, OrderAgrees, rowVars
  <2>2. Counted' BY <1>11 DEF FinalizeOrder, BodyGoesOn, Counted, rowVars
  <2>3. StepInStage'
    <3>1. order \in Orders BY <1>11 DEF FinalizeOrder, At, OrderAgrees, TypeOK
    <3>2. issued'[order] = key BY <1>11, <3>1 DEF FinalizeOrder, KeysAgree, TypeOK
    <3> QED BY <1>11, <3>2 DEF FinalizeOrder, At, BodyGoesOn, StepInStage, rowVars
  <2>4. KeysAgree' BY <1>11 DEF FinalizeOrder, At, BodyGoesOn, KeysAgree, rowVars
  <2>5. OrderAgrees'
    BY <1>11 DEF FinalizeOrder, BodyGoesOn, OrderAgrees, AnsweredIsKnown, Unanswered,
       rowVars
  <2> QED BY <2>1, <2>2, <2>3, <2>4, <2>5
<1>12. CASE SaveCertificate
  <2>1. TypeOK' BY <1>12, BodyEndsType DEF SaveCertificate, At, TypeOK, caVars
  <2>2. Counted' BY <1>12, BodyEndsType DEF SaveCertificate, At, TypeOK, Counted
  <2>3. StepInStage'
    BY <1>12, BodyEndsType DEF SaveCertificate, At, TypeOK, StepInStage
  <2>4. KeysAgree'
    BY <1>12, BodyEndsType DEF SaveCertificate, At, TypeOK, KeysAgree, StepInStage,
       caVars
  <2>5. OrderAgrees'
    BY <1>12, BodyEndsType DEF SaveCertificate, At, TypeOK, OrderAgrees,
       AnsweredIsKnown, Unanswered, caVars
  <2> QED BY <2>1, <2>2, <2>3, <2>4, <2>5
<1>13. CASE AlreadyRetrieved
  <2>1. TypeOK'
    BY <1>13, BodyEndsType DEF AlreadyRetrieved, At, TypeOK, BodyEnds, rowVars, caVars
  <2>2. Counted'
    BY <1>13, BodyEndsType DEF AlreadyRetrieved, At, TypeOK, Counted, BodyEnds
  <2>3. StepInStage'
    BY <1>13, BodyEndsType DEF AlreadyRetrieved, At, TypeOK, StepInStage, BodyEnds
  <2>4. KeysAgree'
    BY <1>13, BodyEndsType DEF AlreadyRetrieved, At, TypeOK, KeysAgree, BodyEnds,
       rowVars, caVars
  <2>5. OrderAgrees'
    BY <1>13, BodyEndsType DEF AlreadyRetrieved, At, TypeOK, OrderAgrees,
       AnsweredIsKnown, Unanswered, BodyEnds, rowVars, caVars
  <2> QED BY <2>1, <2>2, <2>3, <2>4, <2>5
<1>14. CASE Raise
  <2>0. /\ done' = done /\ done \in 0..Retrieve /\ done # Retrieve
        /\ retries' \in 0..MaxRetries /\ retries' <= retries
        /\ state' \in {"running", "failed"} /\ state = "running"
        /\ state' = "running" => retries' + 1 = retries
        /\ step' = "start" /\ held' = None /\ marked' = {}
        /\ UNCHANGED <<rowVars, files, caVars>>
    BY <1>14 DEF Raise, Raises, BodyIsLeft, TypeOK, StepInStage
  <2>1. TypeOK' BY <1>14, <2>0 DEF Raise, TypeOK, rowVars, caVars
  <2>2. Counted'
    <3>1. retries \in Nat /\ retries' \in Nat /\ key \in Nat /\ placed \in Nat
      BY <2>0 DEF TypeOK
    <3>2. key' = key /\ placed' = placed
      BY <2>0 DEF rowVars, caVars
    <3>3. step \in {"start", "ordered"} \/ done + 1 = Retrieve
      BY DEF TypeOK, StepInStage
    <3>4. ASSUME state' = "running", done + 1 = CreateKey PROVE key + retries' <= MaxRetries
      <4>1. key + retries <= MaxRetries BY <2>0, <3>4 DEF Counted
      <4> QED BY <2>0, <3>1, <4>1, Sums
    <3>5. ASSUME state' = "running", done + 1 = Initiate PROVE placed + retries' <= MaxRetries
      <4>1. placed + retries <= MaxRetries + 1 BY <2>0, <3>1, <3>3, <3>5 DEF Counted
      <4>2. retries' + 1 = retries BY <2>0, <3>5
      <4> QED BY <3>1, <4>1, <4>2, Sums
    <3> QED BY <2>0, <3>2, <3>4, <3>5 DEF Counted
  <2>3. StepInStage' BY <2>0 DEF StepInStage
  <2>4. KeysAgree' BY <2>0 DEF KeysAgree, rowVars, caVars
  <2>5. OrderAgrees'
    BY <2>0 DEF OrderAgrees, AnsweredIsKnown, Unanswered, rowVars, caVars
  <2> QED BY <2>1, <2>2, <2>3, <2>4, <2>5
<1>15. CASE LoseTask
  <2>1. TypeOK' BY <1>15 DEF LoseTask, BodyIsLeft, TypeOK, rowVars, caVars
  <2>2. Counted' BY <1>15 DEF LoseTask, BodyIsLeft, Counted, caVars
  <2>3. StepInStage' BY <1>15 DEF LoseTask, BodyIsLeft, StepInStage
  <2>4. KeysAgree' BY <1>15 DEF LoseTask, KeysAgree, rowVars, caVars
  <2>5. OrderAgrees'
    BY <1>15 DEF LoseTask, OrderAgrees, AnsweredIsKnown, Unanswered, rowVars, caVars
  <2> QED BY <2>1, <2>2, <2>3, <2>4, <2>5
<1>16. CASE \E o \in Orders, d \in Domains : Validate(o, d)
  <2> PICK o \in Orders, d \in Domains : Validate(o, d) BY <1>16
  <2>1. TypeOK' BY DEF Validate, TypeOK, taskVars, rowVars
  <2>2. Counted' BY DEF Validate, Counted, taskVars, rowVars
  <2>3. StepInStage' BY DEF Validate, StepInStage, taskVars, rowVars
  <2>4. KeysAgree' BY DEF Validate, KeysAgree, taskVars, rowVars
  <2>5. OrderAgrees'
    BY DEF Validate, TypeOK, OrderAgrees, AnsweredIsKnown, Unanswered, taskVars,
       rowVars
  <2> QED BY <2>1, <2>2, <2>3, <2>4, <2>5
<1>17. CASE UNCHANGED vars
  BY <1>17 DEF vars, taskVars, rowVars, caVars, TypeOK, Counted, StepInStage, KeysAgree,
     OrderAgrees, AnsweredIsKnown, Unanswered
<1> QED
  BY <1>1, <1>2, <1>3, <1>4, <1>5, <1>6, <1>7, <1>8, <1>9, <1>10, <1>11, <1>12, <1>13,
     <1>14, <1>15, <1>16, <1>17 DEF Next, TaskStep

(* Every reachable state is consistent.                                    *)
THEOREM AlwaysConsistent == Spec => []Consistent
<1>1. Init => Consistent
  BY ConsistentInit
<1>2. Consistent /\ [Next]_vars => Consistent'
  BY ConsistentNext
<1> QED
  BY <1>1, <1>2, PTL DEF Spec

(* The rows, the task and the CA's records keep to their types.            *)
THEOREM AcmeTypeCorrect == Spec => []TypeOK
<1>1. Consistent => TypeOK
  BY DEF Consistent, TypeOK
<1> QED
  BY <1>1, AlwaysConsistent, PTL

(* The stored certificate is for the stored key, and it is there when the  *)
(* stages have finished, whatever was retried before.                      *)
THEOREM StoredCertificateFits == Spec => []FinishedWithMatchingKey
<1>1. Consistent => FinishedWithMatchingKey
  BY DEF Consistent, KeysAgree, FinishedWithMatchingKey
<1> QED
  BY <1>1, AlwaysConsistent, PTL

(* The CA issues at most one certificate for a row.                        *)
THEOREM CertificateIssuedOnce == Spec => []IssuedOnce
<1>1. Consistent => IssuedOnce
  BY DEF Consistent, KeysAgree, IssuedOnce
<1> QED
  BY <1>1, AlwaysConsistent, PTL

(* The CA is only told of challenges whose file is in S3.                  *)
THEOREM FilesBeforeAnswers == Spec => []AskedWithFile
<1>1. Consistent => AskedWithFile
  BY DEF Consistent, OrderAgrees, AskedWithFile
<1> QED
  BY <1>1, AlwaysConsistent, PTL

(* The CA has been told of every challenge that the row calls answered and *)
(* that was not valid from the start.                                      *)
THEOREM AnswersAreKnown == Spec => []AnsweredIsKnown
<1>1. Consistent => AnsweredIsKnown
  BY DEF Consistent, OrderAgrees
<1> QED
  BY <1>1, AlwaysConsistent, PTL

-----------------------------------------------------------------------------
(* The refinement of IssueStage *)

LEMMA StageInit == Init => Stage!Init
BY DEF Init, Stage!Init, Certificate

(* What the mapping does not see.                                          *)
LEMMA StageStutters ==
  ASSUME UNCHANGED <<key, order, leaf, issued>>,
         state' = state \/ (state = "running" /\ state' \in {"failed", "lost"})
  PROVE  [Stage!Next]_(Stage!stageVars)
BY DEF Stage!Next, Stage!GiveUp, Stage!stageVars, Certificate

(* Every step maps to a step or a stutter: one case per action.            *)
LEMMA StageNext == Consistent /\ [Next]_vars => [Stage!Next]_(Stage!stageVars)
<1> SUFFICES ASSUME Consistent, [Next]_vars PROVE [Stage!Next]_(Stage!stageVars)
  OBVIOUS
<1> USE Bounds DEF Consistent, CreateKey, Initiate, UploadFiles, Answer, Retrieve, None, Keys,
                   Orders
<1>1. CASE CreatePrivateKeyAndCsr
  <2>1. state = "running" /\ state' \in {"running", "failed"}
    BY <1>1, BodyEndsType DEF CreatePrivateKeyAndCsr, At, TypeOK
  <2>2. Certificate = None
    BY <1>1 DEF CreatePrivateKeyAndCsr, At, KeysAgree, TypeOK, Certificate
  <2>3. key' \in Keys
    BY <1>1 DEF CreatePrivateKeyAndCsr, At, TypeOK, Counted
  <2>4. UNCHANGED <<leaf, order, issued>>
    BY <1>1 DEF CreatePrivateKeyAndCsr, caVars
  <2> QED
    BY <2>1, <2>2, <2>3, <2>4 DEF Stage!Next, Stage!MakeKey, Stage!Goes, Certificate
<1>2. CASE SaveOrder
  <2>1. held \in Orders /\ order = None /\ order' = held /\ UNCHANGED <<key, leaf, issued>>
    BY <1>2 DEF SaveOrder, At, StepInStage, caVars
  <2>2. issued[held] = None
    BY <1>2, <2>1 DEF SaveOrder, At, KeysAgree, TypeOK
  <2>3. Certificate' = Certificate
    BY <2>1, <2>2 DEF Certificate
  <2>4. state = "running" /\ state' \in {"running", "failed"}
    BY <1>2, BodyEndsType DEF SaveOrder, At, TypeOK
  <2> QED
    BY <2>1, <2>3, <2>4 DEF Stage!Next, Stage!GiveUp, Stage!stageVars
<1>3. CASE FinalizeOrder
  <2>1. order \in Orders /\ key \in Keys /\ csr = key /\ state = "running"
    BY <1>3 DEF FinalizeOrder, At, OrderAgrees, KeysAgree, TypeOK
  <2>2. UNCHANGED <<state, key, order, leaf>>
    BY <1>3 DEF FinalizeOrder, BodyGoesOn, rowVars
  <2>3. CASE issued[order] = None
    <3>1. issued' = [issued EXCEPT ![order] = key]
      BY <1>3, <2>1, <2>3 DEF FinalizeOrder
    <3>2. issued'[order] = key
      BY <2>1, <3>1 DEF TypeOK
    <3>3. Certificate = None /\ Certificate' = key
      BY <2>1, <2>2, <2>3, <3>2 DEF Certificate
    <3> QED
      BY <2>1, <2>2, <3>3 DEF Stage!Next, Stage!Issue
  <2>4. CASE issued[order] # None
    <3>1. issued' = issued
      BY <1>3, <2>4 DEF FinalizeOrder
    <3> QED
      BY <2>2, <3>1, StageStutters
  <2> QED
    BY <2>3, <2>4
<1>4. CASE SaveCertificate
  <2>1. order \in Orders /\ key \in Keys /\ issued[order] = key /\ leaf' = key
    BY <1>4 DEF SaveCertificate, At, OrderAgrees, StepInStage, KeysAgree, TypeOK
  <2>2. UNCHANGED <<key, order, issued>>
    BY <1>4 DEF SaveCertificate, caVars
  <2>3. state = "running" /\ state' \in {"running", "finished", "failed"}
    BY <1>4, BodyEndsType DEF SaveCertificate, At, TypeOK
  <2>4. Certificate = key /\ Certificate' = key
    BY <2>1, <2>2 DEF Certificate
  <2> QED
    BY <2>1, <2>2, <2>3, <2>4 DEF Stage!Next, Stage!Store
<1>5. CASE AlreadyRetrieved
  <2>1. state = "running" /\ state' = "finished" /\ leaf # None
    BY <1>5 DEF AlreadyRetrieved, At, Returns, TypeOK
  <2>2. UNCHANGED <<key, order, leaf, issued>>
    BY <1>5 DEF AlreadyRetrieved, rowVars, caVars
  <2> QED
    BY <2>1, <2>2 DEF Stage!Next, Stage!Finish, Certificate
<1>6. CASE NewOrder \/ AlreadyInitiated \/ FilesUploaded
  <2>1. UNCHANGED <<key, order, leaf, issued>>
    BY <1>6 DEF NewOrder, AlreadyInitiated, FilesUploaded, rowVars, caVars
  <2>2. state' = state
    BY <1>6 DEF NewOrder, AlreadyInitiated, FilesUploaded, At, Returns, BodyGoesOn, TypeOK
  <2> QED
    BY <2>1, <2>2, StageStutters
<1>7. CASE (\E d \in Domains : MarkValid(d)) \/ SaveAnswers
  <2>1. state' = state \/ BodyEnds
    BY <1>7 DEF MarkValid, SaveAnswers, BodyEnds
  <2>2. state = "running" /\ done + 1 = Answer
    BY <1>7 DEF MarkValid, SaveAnswers, At
  <2>3. state' \in {"running", "failed"}
    BY <2>1, <2>2, BodyEndsType DEF TypeOK
  <2>4. UNCHANGED <<key, order, leaf, issued>>
    BY <1>7 DEF MarkValid, SaveAnswers, rowVars, caVars
  <2> QED
    BY <2>2, <2>3, <2>4, StageStutters
<1>8. CASE \E d \in Domains : PutFile(d) \/ AnswerChallenge(d)
  BY <1>8, StageStutters DEF PutFile, AnswerChallenge, taskVars, rowVars, caVars
<1>9. CASE PollInvalid \/ Raise \/ LoseTask
  BY <1>9, StageStutters DEF PollInvalid, Raise, LoseTask, At, Raises, rowVars, caVars
<1>10. CASE \E o \in Orders, d \in Domains : Validate(o, d)
  BY <1>10, StageStutters DEF Validate, taskVars, rowVars
<1>11. CASE UNCHANGED vars
  BY <1>11, StageStutters DEF vars, taskVars, rowVars, caVars
<1> QED
  BY <1>1, <1>2, <1>3, <1>4, <1>5, <1>6, <1>7, <1>8, <1>9, <1>10, <1>11 DEF Next, TaskStep

(* The tasks implement the stage that the rest of the pipeline relies on,  *)
(* for every set of domains and every number of retries.                   *)
THEOREM OrderImplementsStage == Spec => ImplementsIssueStage
<1> QED
  BY StageInit, StageNext, AlwaysConsistent, PTL DEF Spec, ImplementsIssueStage, Stage!Spec
=============================================================================
