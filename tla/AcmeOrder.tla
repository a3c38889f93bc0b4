------------------------------ MODULE AcmeOrder ------------------------------
(***************************************************************************)
(* How one operation gets its certificate from Let's Encrypt: the stage    *)
(* that RenewalTasks calls "issue", after create_user.                     *)
(*                                                                         *)
(* A key and a CSR are made, an order is placed with the CA, a file for    *)
(* every domain's challenge is put into S3, the CA is told to look at      *)
(* them, and when it has found them all the order is finalized with the    *)
(* CSR and the certificate is stored.  Each of these tasks may raise       *)
(* between any two of its effects, or when the answer to one is lost, and  *)
(* is then run again from its start with what the rows say by then.        *)
(*                                                                         *)
(* A definition that nothing here refers to is a mutant, see PROJECT.json. *)
(***************************************************************************)
EXTENDS Naturals, FiniteSets

CONSTANTS
  Domains,    \* the names on the certificate: route.domain_external_list()
  MaxRetries  \* bound: how often a task is retried

ASSUME AcmeAssumption ==
  /\ IsFiniteSet(Domains) /\ Domains # {}
  /\ MaxRetries \in Nat

(* Keys and orders are numbered as they are made, one per run of a task at *)
(* most; 0 stands for none.  A CSR or a certificate is for a key.          *)
Keys == 1..(MaxRetries + 1)
Orders == 1..(MaxRetries + 1)
None == 0

(* The stages, in the order the pipelines chain them.                      *)
CreateKey == 1
Initiate == 2
UploadFiles == 3
Answer == 4
Retrieve == 5

VARIABLES
  state,      \* "running", "finished" with these stages, "failed" or "lost"
  done,       \* how many of the stages have returned
  retries,    \* the retries that are left to this task
  step,       \* how far its body is
  held,       \* the order or certificate that it got and has not committed
  marked,     \* challenges set to answered in its session, not committed
  key,        \* the row's private_key_pem
  csr,        \* its csr_pem: the key it is for
  order,      \* its order_json
  body,       \* the status in each challenge's body_json
  answered,   \* the challenges whose answered column is true
  leaf,       \* its leaf_pem: the key it is for
  files,      \* the challenge files in S3
  placed,     \* the CA: how many orders were placed
  authz,      \* the CA: the authorizations of each order
  asked,      \* the CA: the challenges it was told to look at
  issued,     \* the CA: the key each order's certificate is for
  rejected    \* the orders that retrieve_certificate found invalid

taskVars == <<state, done, retries, step, held, marked>>
rowVars == <<key, csr, order, body, answered, leaf>>
caVars == <<placed, authz, asked, issued>>
vars == <<taskVars, rowVars, files, caVars, rejected>>

Init ==
  /\ state = "running" /\ done = 0 /\ retries = MaxRetries
  /\ step = "start" /\ held = None /\ marked = {}
  /\ key = None /\ csr = None /\ order = None /\ leaf = None
  /\ body = [d \in Domains |-> "none"]
  /\ answered = {} /\ files = {}
  /\ placed = 0 /\ asked = {} /\ rejected = {}
  /\ authz = [o \in Orders |-> [d \in Domains |-> "pending"]]
  /\ issued = [o \in Orders |-> None]

-----------------------------------------------------------------------------
(* One task: see RenewalTasks.                                             *)

At(stage, s) == state = "running" /\ done + 1 = stage /\ step = s

BodyGoesOn(s, h) == step' = s /\ held' = h /\ UNCHANGED <<state, done, retries, marked>>

BodyIsLeft == step' = "start" /\ held' = None /\ marked' = {}

Returns ==
  /\ done' = done + 1
  /\ retries' = MaxRetries
  /\ state' = IF done + 1 = Retrieve THEN "finished" ELSE state
  /\ BodyIsLeft

RaisesUncounted ==
  /\ retries' = retries - 1
  /\ BodyIsLeft
  /\ UNCHANGED <<state, done>>

Raises ==
  /\ IF retries > 0
     THEN retries' = retries - 1 /\ UNCHANGED state
     ELSE state' = "failed" /\ UNCHANGED retries
  /\ BodyIsLeft
  /\ UNCHANGED done

(* The commit at the end of a body; that its answer is lost makes the task *)
(* raise all the same.                                                     *)
BodyEnds == Returns \/ Raises

(* A task raises before its next effect, for whatever reason: a lost       *)
(* answer, no HTTP challenge, an authorization that stays pending until    *)
(* the deadline, an order that is still processed.                         *)
Raise ==
  /\ state = "running"
  /\ Raises
  /\ UNCHANGED <<rowVars, files, caVars, rejected>>

LoseTask ==
  /\ state = "running"
  /\ state' = "lost"
  /\ BodyIsLeft
  /\ UNCHANGED <<done, retries, rowVars, files, caVars, rejected>>

-----------------------------------------------------------------------------
(* The tasks *)

NewKeyOldCsr ==
  /\ At(CreateKey, "start")
  /\ key' = key + 1
  /\ csr' = IF csr = None THEN key + 1 ELSE csr
  /\ BodyEnds
  /\ UNCHANGED <<order, body, answered, leaf, files, caVars, rejected>>

(* create_private_key_and_csr makes both anew on every run.                *)
CreatePrivateKeyAndCsr ==
  /\ At(CreateKey, "start")
  /\ key' = key + 1
  /\ csr' = key + 1
  /\ BodyEnds
  /\ UNCHANGED <<order, body, answered, leaf, files, caVars, rejected>>

(* initiate_challenges.  The account may still hold valid authorizations   *)
(* for some of the domains, which the CA puts into the new order.          *)
NewOrder ==
  /\ At(Initiate, "start")
  /\ order = None
  /\ placed' = placed + 1
  /\ authz' \in {[authz EXCEPT ![placed + 1] =
                    [d \in Domains |-> IF d \in valid THEN "valid" ELSE "pending"]] :
                   valid \in SUBSET Domains}
  /\ BodyGoesOn("ordered", placed + 1)
  /\ UNCHANGED <<rowVars, files, asked, issued, rejected>>

(* The order and the challenges, as the CA described them, are committed   *)
(* together.                                                               *)
SaveOrder ==
  /\ At(Initiate, "ordered")
  /\ order' = held
  /\ body' = authz[held]
  /\ BodyEnds
  /\ UNCHANGED <<key, csr, answered, leaf, files, caVars, rejected>>

AlreadyInitiated ==
  /\ At(Initiate, "start")
  /\ order # None
  /\ Returns
  /\ UNCHANGED <<rowVars, files, caVars, rejected>>

Unanswered == Domains \ answered

(* upload_challenge_files: one file after the other.                       *)
PutFile(d) ==
  /\ At(UploadFiles, "start")
  /\ d \in Unanswered
  /\ <<order, d>> \notin files
  /\ files' = files \cup {<<order, d>>}
  /\ UNCHANGED <<taskVars, rowVars, caVars, rejected>>

SomeFilesUploaded ==
  /\ At(UploadFiles, "start")
  /\ \E d \in Unanswered : <<order, d>> \in files
  /\ Returns
  /\ UNCHANGED <<rowVars, files, caVars, rejected>>

FilesUploaded ==
  /\ At(UploadFiles, "start")
  /\ \A d \in Unanswered : <<order, d>> \in files
  /\ Returns
  /\ UNCHANGED <<rowVars, files, caVars, rejected>>

(* answer_challenges goes through the unanswered challenges.  One that was *)
(* valid from the start is committed at once, and so is what the session   *)
(* holds of those before it.                                               *)
MarkValid(d) ==
  /\ At(Answer, "start")
  /\ d \in Unanswered \ marked
  /\ body[d] = "valid"
  /\ answered' = answered \cup marked \cup {d}
  /\ \/ marked' = {} /\ UNCHANGED <<state, done, retries, step, held>>
     \/ Raises
  /\ UNCHANGED <<key, csr, order, body, leaf, files, caVars, rejected>>

CommitBeforeAnswer(d) ==
  /\ At(Answer, "start")
  /\ d \in Unanswered \ marked
  /\ body[d] # "valid"
  /\ answered' = answered \cup {d}
  /\ \/ /\ asked' = asked \cup {<<order, d>>}
        /\ UNCHANGED taskVars
     \/ Raises /\ UNCHANGED asked
  /\ UNCHANGED <<key, csr, order, body, leaf, files, placed, authz, issued, rejected>>

(* The CA is told to look at any other, and takes it even when it has been *)
(* told before.                                                            *)
AnswerChallenge(d) ==
  /\ At(Answer, "start")
  /\ d \in Unanswered \ marked
  /\ body[d] # "valid"
  /\ asked' = asked \cup {<<order, d>>}
  /\ marked' = marked \cup {d}
  /\ UNCHANGED <<state, done, retries, step, held, rowVars, files, placed, authz,
                 issued, rejected>>

SaveAnswers ==
  /\ At(Answer, "start")
  /\ marked = Unanswered
  /\ answered' = answered \cup marked
  /\ BodyEnds
  /\ UNCHANGED <<key, csr, order, body, leaf, files, caVars, rejected>>

(* retrieve_certificate polls until no authorization is pending.  One that *)
(* is invalid makes it raise, and the reset after that is never reached.   *)
PollInvalid ==
  /\ At(Retrieve, "start")
  /\ leaf = None
  /\ \A d \in Domains : authz[order][d] # "pending"
  /\ \E d \in Domains : authz[order][d] = "invalid"
  /\ rejected' = rejected \cup {order}
  /\ Raises
  /\ UNCHANGED <<rowVars, files, caVars>>

FinalizeAnew ==
  /\ At(Retrieve, "start")
  /\ leaf = None
  /\ \A d \in Domains : authz[order][d] = "valid"
  /\ LET o == IF issued[order] = None THEN order ELSE placed + 1 IN
     /\ o \in Orders
     /\ placed' = IF o = order THEN placed ELSE o
     /\ issued' = [issued EXCEPT ![o] = csr]
  /\ BodyGoesOn("finalized", csr)
  /\ UNCHANGED <<rowVars, files, authz, asked, rejected>>

ReturnIfFinalized ==
  /\ At(Retrieve, "start")
  /\ leaf = None
  /\ \A d \in Domains : authz[order][d] = "valid"
  /\ IF issued[order] = None
     THEN /\ issued' = [issued EXCEPT ![order] = csr]
          /\ BodyGoesOn("finalized", csr)
     ELSE Returns /\ UNCHANGED issued
  /\ UNCHANGED <<rowVars, files, placed, authz, asked, rejected>>

(* The CA issues the certificate for the stored CSR.  An order that an     *)
(* earlier run has finalized makes finalize_order raise, and then its      *)
(* certificate is fetched: the row cannot have expires without leaf_pem.   *)
FinalizeOrder ==
  /\ At(Retrieve, "start")
  /\ leaf = None
  /\ \A d \in Domains : authz[order][d] = "valid"
  /\ issued' = IF issued[order] = None THEN [issued EXCEPT ![order] = csr] ELSE issued
  /\ BodyGoesOn("finalized", issued'[order])
  /\ UNCHANGED <<rowVars, files, placed, authz, asked, rejected>>

SaveCertificate ==
  /\ At(Retrieve, "finalized")
  /\ leaf' = held
  /\ BodyEnds
  /\ UNCHANGED <<key, csr, order, body, answered, files, caVars, rejected>>

AlreadyRetrieved ==
  /\ At(Retrieve, "start")
  /\ leaf # None
  /\ Returns
  /\ UNCHANGED <<rowVars, files, caVars, rejected>>

-----------------------------------------------------------------------------
(* The CA looks for the file of a challenge; the DNS or the route may lead *)
(* it astray.                                                              *)
Validate(o, d) ==
  /\ <<o, d>> \in asked
  /\ authz[o][d] = "pending"
  /\ \E status \in (IF <<o, d>> \in files THEN {"valid", "invalid"} ELSE {"invalid"}) :
       authz' = [authz EXCEPT ![o][d] = status]
  /\ UNCHANGED <<taskVars, rowVars, files, placed, asked, issued, rejected>>

TaskStep ==
  \/ CreatePrivateKeyAndCsr
  \/ NewOrder \/ SaveOrder \/ AlreadyInitiated
  \/ (\E d \in Domains : PutFile(d)) \/ FilesUploaded
  \/ (\E d \in Domains : MarkValid(d) \/ AnswerChallenge(d)) \/ SaveAnswers
  \/ PollInvalid \/ FinalizeOrder \/ SaveCertificate \/ AlreadyRetrieved

Next ==
  \/ TaskStep
  \/ Raise \/ LoseTask
  \/ \E o \in Orders, d \in Domains : Validate(o, d)

Spec == Init /\ [][Next]_vars

-----------------------------------------------------------------------------
(* Properties *)

TypeOK ==
  /\ state \in {"running", "finished", "failed", "lost"}
  /\ done \in 0..Retrieve
  /\ retries \in 0..MaxRetries
  /\ step \in {"start", "ordered", "finalized"}
  /\ held \in Keys \cup Orders \cup {None}
  /\ marked \subseteq Domains
  /\ key \in Keys \cup {None} /\ csr \in Keys \cup {None} /\ leaf \in Keys \cup {None}
  /\ order \in Orders \cup {None}
  /\ body \in [Domains -> {"none", "pending", "valid"}]
  /\ answered \subseteq Domains
  /\ files \subseteq Orders \X Domains
  /\ placed \in Orders \cup {None}
  /\ authz \in [Orders -> [Domains -> {"pending", "valid", "invalid"}]]
  /\ asked \subseteq Orders \X Domains
  /\ issued \in [Orders -> Keys \cup {None}]
  /\ rejected \subseteq Orders

(* The stages never finish without a certificate, and the stored one is    *)
(* for the stored private key: upload_certificate sends both to IAM.       *)
FinishedWithMatchingKey ==
  /\ state = "finished" => leaf # None
  /\ leaf # None => leaf = key

(* However often the tasks are retried, the CA issues at most one          *)
(* certificate for the row: a finalized order is not replaced but fetched. *)
IssuedOnce == \A o, p \in Orders : issued[o] # None /\ issued[p] # None => o = p

(* The CA is never told to look at a challenge whose file is not in S3,    *)
(* which would make the whole order invalid: upload_challenge_files skips  *)
(* exactly those challenges that answer_challenges skips.                  *)
AskedWithFile == asked \subseteq files

(* A challenge that the row calls answered was answered: the commit for a  *)
(* valid one takes along what the session holds of the others, and         *)
(* retrieve_certificate would wait in vain for one that the CA never saw.  *)
AnsweredIsKnown ==
  \A d \in answered : body[d] = "valid" \/ <<order, d>> \in asked

(* When retrieve_certificate has found an order invalid, the operation is  *)
(* not left with it: the comment there says that the certificate's record  *)
(* and its challenges are given up so that a retry does not reuse them.    *)
InvalidIsDropped == order \notin rejected

(* The tasks from create_private_key_and_csr to retrieve_certificate,      *)
(* retried and interrupted as they may be, implement IssueStage: what the  *)
(* stages after them rely on.                                              *)
Certificate == IF order = None THEN None ELSE issued[order]
Stage == INSTANCE IssueStage
           WITH state <- state, key <- key, certificate <- Certificate, stored <- leaf
ImplementsIssueStage == Stage!Spec

-----------------------------------------------------------------------------
(* The inductive invariant *)

(* Every run of a task makes one key or one order at most, and uses up a   *)
(* retry when it is not the last: so many keys and orders are enough.      *)
Counted ==
  /\ state = "running" /\ done + 1 = CreateKey => key + retries <= MaxRetries
  /\ state = "running" /\ done + 1 = Initiate /\ step = "start"
       => placed + retries <= MaxRetries
  /\ step = "ordered" => held = placed /\ placed + retries <= MaxRetries + 1
  /\ done + 1 = CreateKey => placed = 0

(* What a body holds belongs to the stage it is in.                        *)
StepInStage ==
  /\ state = "finished" <=> done = Retrieve
  /\ step = "ordered" => done + 1 = Initiate /\ order = None /\ held \in Orders
  /\ step = "finalized" => done + 1 = Retrieve /\ held = key /\ issued[order] = key
  /\ marked # {} => done + 1 = Answer
  /\ \A d \in marked : body[d] = "valid" \/ <<order, d>> \in asked

(* The key is final when it is ordered for, and there is one CSR for it.   *)
KeysAgree ==
  /\ csr = key
  /\ done >= CreateKey => key # None
  /\ leaf # None => leaf = key /\ done + 1 >= Retrieve
  /\ state = "finished" => leaf # None
  /\ \A o \in Orders : issued[o] # None =>
       issued[o] = key /\ o = order /\ done + 1 >= Retrieve

(* The CA is asked about the row's order, when its files are in S3.        *)
OrderAgrees ==
  /\ done >= Initiate => order # None
  /\ done < UploadFiles => asked = {}
  /\ done >= UploadFiles => \A d \in Unanswered : <<order, d>> \in files
  /\ asked \subseteq files
  /\ answered # {} => done >= UploadFiles
  /\ \A o \in Orders, d \in Domains : authz[o][d] = "invalid" => <<o, d>> \in asked
  /\ AnsweredIsKnown

(* Retries leave nothing half done: whatever a task finds in the rows, in  *)
(* S3 and at the CA is what the runs before it can have left there.        *)
Consistent == TypeOK /\ Counted /\ StepInStage /\ KeysAgree /\ OrderAgrees
=============================================================================
