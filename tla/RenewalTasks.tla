---------------------------- MODULE RenewalTasks ----------------------------
(***************************************************************************)
(* The certificate rows of one route and the tasks that every renewal      *)
(* pipeline has, whatever serves the route.                                *)
(*                                                                         *)
(* A task reads the rows, calls AWS and commits, in that order, and may    *)
(* raise in between; then it is run again from its start.  renew_all_certs *)
(* looks at the route at noon, whether or not an earlier operation is      *)
(* still on its way.  AlbRenewal and CdnRenewal add to this module what    *)
(* serves the route, an ALB's listener or a CloudFront distribution, and   *)
(* the tasks that touch it.                                                *)
(*                                                                         *)
(* RenewalQueue shows that the tasks of one operation run one at a time    *)
(* and in order; here a task that raises is simply run again.  The first   *)
(* six tasks, create_user to retrieve_certificate, are one stage, "issue". *)
(***************************************************************************)
EXTENDS Naturals, FiniteSets, Sequences

CONSTANTS
  Pipeline,     \* the stages of the route's pipeline, in their order
  Ops,          \* renewal operations; also the certificate row each creates
  Legacy,       \* rows that are linked to the route when we look first
  Imports,      \* rows that the backport may create
  Manual,       \* certificates that were put in place by hand
  FirstExpiry,  \* the order in which Legacy and Manual certificates expire
  Arnless,      \* the Legacy rows without iam_server_certificate_arn
  Nameless,     \* the Legacy rows without iam_server_certificate_name
  NoCert,       \* no certificate
  MaxRetries,   \* bound: how often a task is retried
  MaxDay,       \* bound: how many days we look at
  Environments  \* what the surroundings may do, see env

Rows == Ops \cup Legacy \cup Imports
Owners == Ops \cup Legacy \cup Manual

(* An IAM server certificate is named after the row and the day of the     *)
(* upload; the day of the others does not matter.                          *)
Cert == [row : Owners, day : 0..MaxDay]
OldCert(owner) == [row |-> owner, day |-> 0]

(* maxLive: the bound on the operations of the route that overlap;         *)
(* lostAnswers: may a task raise although its last call took effect?       *)
(* deletesInUse: does IAM delete a certificate that is in use?             *)
Environment == [maxLive : Nat, lostAnswers : BOOLEAN, deletesInUse : BOOLEAN]

ASSUME TasksAssumption ==
  /\ Pipeline \in Seq(STRING) /\ Len(Pipeline) > 0
  /\ \A i \in 1..Len(Pipeline) : Pipeline[i] = "mark_complete" <=> i = Len(Pipeline)
  /\ MaxRetries \in Nat /\ MaxDay \in Nat \ {0}
  /\ Environments \subseteq Environment
  /\ FirstExpiry \in [Legacy \cup Manual -> Nat]
  /\ IsFiniteSet(Legacy) /\ Legacy # {}
  /\ Arnless \subseteq Legacy /\ Nameless \subseteq Legacy
  /\ Imports \cap (Ops \cup Legacy) = {} /\ Ops \cap Legacy = {}
  /\ Manual \cap Rows = {}
  /\ NoCert \notin Cert

NumStages == Len(Pipeline)

(* wait_for_cert_update is not retried.                                    *)
RetriesOf(stage) == IF stage = "wait_for_cert_update" THEN 0 ELSE MaxRetries

VARIABLES
  opState,    \* the state column of each operation, "none" without a row
  done,       \* how many stages of its pipeline have returned
  live,       \* the operations that have a task
  retries,    \* the retries that are left to this task
  step,       \* how far its body is: "start", "read" or "called"
  seen,       \* the certificate it has read from a row or got from IAM
  linked,     \* the rows that belong to the route: route.certificates
  cert,       \* the IAM certificate each row refers to
  expiry,     \* the order in which certificates expire
  lastExpiry, \* the latest of them
  iam,        \* the server certificates that exist in IAM
  horizon,    \* certificates that expire up to here are due for renewal
  day,        \* date.today()
  noonAhead,  \* has renew_all_certs yet to run today?
  env         \* the environment of this behaviour; it never changes

taskVars == <<live, retries, step, seen>>
rowVars == <<linked, cert, expiry, lastExpiry>>
timeVars == <<horizon, day, noonAhead, env>>
renewalVars == <<opState, done, taskVars, rowVars, iam, timeVars>>

-----------------------------------------------------------------------------
(* What the rows say                                                       *)

(* A row's arn and name columns: they are written together, and only a     *)
(* Legacy row may lack one.                                                *)
Arn(r) == IF r \in Arnless THEN NoCert ELSE cert[r]
Name(r) == IF r \in Nameless THEN NoCert ELSE cert[r]

Expires(r) == IF r \in Imports THEN expiry[cert[r].row] ELSE expiry[r]

(* route.certificates, by descending expires: its possible first elements  *)
(* and, when one of them is taken away, its possible second ones.          *)
(* Oldest and SecondIsFirst are mutants, as every definition is that only  *)
(* PROJECT.json refers to.                                                 *)
Oldest(rows) == {r \in rows : \A s \in rows : Expires(r) <= Expires(s)}
Newest(rows) == {r \in rows : \A s \in rows : Expires(s) <= Expires(r)}
First == Newest(linked)
SecondIsFirst == First
Second == UNION {Newest(linked \ {r}) : r \in First}

NeedsRenewal == \A r \in linked : Expires(r) <= horizon

(* What the rows and the tasks are before the first operation.             *)
RenewalInit ==
  /\ opState = [op \in Ops |-> "none"]
  /\ done = [op \in Ops |-> 0]
  /\ live = {}
  /\ retries = [op \in Ops |-> 0]
  /\ step = [op \in Ops |-> "start"]
  /\ seen = [op \in Ops |-> NoCert]
  /\ linked = Legacy
  /\ cert = [r \in Rows |-> IF r \in Legacy THEN OldCert(r) ELSE NoCert]
  /\ expiry = [o \in Owners |-> IF o \in Ops THEN 0 ELSE FirstExpiry[o]]
  /\ lastExpiry \in {expiry[o] : o \in Legacy \cup Manual}
  /\ \A o \in Legacy \cup Manual : expiry[o] <= lastExpiry
  /\ iam = {OldCert(r) : r \in First \cup Manual}
  /\ horizon = lastExpiry
  /\ day = 1
  /\ noonAhead = TRUE
  /\ env \in Environments

-----------------------------------------------------------------------------
(* One task of a pipeline                                                  *)

AtStage(op, stage, s) ==
  /\ op \in live
  /\ done[op] < NumStages /\ Pipeline[done[op] + 1] = stage
  /\ step[op] = s

BodyGoesOn(op, s, c) ==
  /\ step' = [step EXCEPT ![op] = s]
  /\ seen' = [seen EXCEPT ![op] = c]
  /\ UNCHANGED <<opState, done, live, retries>>

BodyIsLeft(op) ==
  /\ step' = [step EXCEPT ![op] = "start"]
  /\ seen' = [seen EXCEPT ![op] = NoCert]

(* The task returns and the next one of the chain is enqueued.             *)
Returns(op) ==
  /\ done' = [done EXCEPT ![op] = @ + 1]
  /\ IF done[op] + 1 < NumStages
     THEN /\ retries' = [retries EXCEPT ![op] = RetriesOf(Pipeline[done[op] + 2])]
          /\ UNCHANGED live
     ELSE /\ live' = live \ {op}
          /\ UNCHANGED retries
  /\ BodyIsLeft(op)

RaisesUncounted(op, state) ==
  /\ retries' = [retries EXCEPT ![op] = @ - 1]
  /\ opState' = state
  /\ BodyIsLeft(op)
  /\ UNCHANGED <<live, done>>

RaisesAndGoesOn(op, state) ==
  /\ IF retries[op] > 0
     THEN opState' = state /\ retries' = [retries EXCEPT ![op] = @ - 1]
     ELSE opState' = [state EXCEPT ![op] = "failed"] /\ UNCHANGED retries
  /\ BodyIsLeft(op)
  /\ UNCHANGED <<live, done>>

(* The task raises: it is run again, or the operation has failed.  state   *)
(* is what the rows say when the exception is handled.                     *)
Raises(op, state) ==
  /\ IF retries[op] > 0
     THEN /\ retries' = [retries EXCEPT ![op] = @ - 1]
          /\ opState' = state
          /\ UNCHANGED live
     ELSE /\ opState' = [state EXCEPT ![op] = "failed"]
          /\ live' = live \ {op}
          /\ UNCHANGED retries
  /\ BodyIsLeft(op)
  /\ UNCHANGED done

(* The last effect of a body has taken place; that its answer is lost      *)
(* makes the task raise all the same.                                      *)
BodyEnds(op) ==
  \/ Returns(op) /\ UNCHANGED opState
  \/ env.lostAnswers /\ Raises(op, opState)

(* A task raises before its next effect, for whatever reason.              *)
Raise(op) ==
  /\ op \in live
  /\ Raises(op, opState)
  /\ UNCHANGED <<rowVars, iam, timeVars>>

(* A crash of the consumer takes the task, see RenewalQueue.               *)
LoseTask(op) ==
  /\ op \in live
  /\ live' = live \ {op}
  /\ BodyIsLeft(op)
  /\ UNCHANGED <<opState, done, retries, rowVars, iam, timeVars>>

-----------------------------------------------------------------------------
(* The tasks, in the order of the pipeline                                 *)

IssueAndLink(op) ==
  /\ AtStage(op, "issue", "start")
  /\ lastExpiry' = lastExpiry + 1
  /\ expiry' = [expiry EXCEPT ![op] = lastExpiry + 1]
  /\ linked' = linked \cup {op}
  /\ BodyEnds(op)
  /\ UNCHANGED <<cert, iam, timeVars>>

(* create_user to retrieve_certificate: the row that the operation points  *)
(* to, but not the route, gets a certificate which expires after all those *)
(* issued before.  A retry finds the certificate and keeps it.             *)
IssueCertificate(op) ==
  /\ AtStage(op, "issue", "start")
  /\ IF expiry[op] = 0
     THEN /\ lastExpiry' = lastExpiry + 1
          /\ expiry' = [expiry EXCEPT ![op] = lastExpiry + 1]
     ELSE UNCHANGED <<expiry, lastExpiry>>
  /\ BodyEnds(op)
  /\ UNCHANGED <<linked, cert, iam, timeVars>>

(* upload_certificate: a certificate of the same name is the one that was  *)
(* uploaded before, and it is used, if IAM's answer has the code that the  *)
(* task expects; with any other code the task raises, see Raise.           *)
UploadCertificate(op) ==
  LET c == [row |-> op, day |-> day] IN
  /\ AtStage(op, "upload_certificate", "start")
  /\ cert[op] = NoCert
  /\ iam' = iam \cup {c}
  /\ BodyGoesOn(op, "called", c)
  /\ UNCHANGED <<rowVars, timeVars>>

SaveUpload(op) ==
  /\ AtStage(op, "upload_certificate", "called")
  /\ cert' = [cert EXCEPT ![op] = seen[op]]
  /\ BodyEnds(op)
  /\ UNCHANGED <<linked, expiry, lastExpiry, iam, timeVars>>

AlreadyUploaded(op) ==
  /\ AtStage(op, "upload_certificate", "start")
  /\ cert[op] # NoCert
  /\ Returns(op)
  /\ UNCHANGED <<opState, rowVars, iam, timeVars>>

(* iam.delete_old_certificate reads route.certificates[1].                 *)
ReadPreviousCertificate(op) ==
  /\ AtStage(op, "delete_old_certificate", "start")
  /\ \E r \in Second :
       \/ /\ Name(r) # NoCert
          /\ BodyGoesOn(op, "read", Name(r))
       \/ /\ Name(r) = NoCert
          /\ Returns(op)
          /\ UNCHANGED opState
  /\ UNCHANGED <<rowVars, iam, timeVars>>

(* inUse are the certificates that something refers to.                    *)
DeletePreviousCertificate(op, inUse) ==
  /\ AtStage(op, "delete_old_certificate", "read")
  /\ seen[op] \in inUse => env.deletesInUse
  /\ iam' = iam \ {seen[op]}
  /\ BodyEnds(op)
  /\ UNCHANGED <<rowVars, timeVars>>

MarkComplete(op) ==
  LET succeeded == [opState EXCEPT ![op] = "succeeded"] IN
  /\ AtStage(op, "mark_complete", "start")
  /\ \/ Returns(op) /\ opState' = succeeded
     \/ env.lostAnswers /\ Raises(op, succeeded)
  /\ UNCHANGED <<rowVars, iam, timeVars>>

-----------------------------------------------------------------------------
(* The clock and renew_all_certs                                           *)

(* A day may pass without its cron task, when the consumer is down.        *)
NewDay ==
  /\ day < MaxDay
  /\ day' = day + 1
  /\ noonAhead' = TRUE
  /\ UNCHANGED <<opState, done, taskVars, rowVars, iam, horizon, env>>

(* The next certificate comes within RENEW_BEFORE_DAYS of its end.  A new  *)
(* certificate is good for months, and no pipeline takes that long.        *)
ExpiryNears ==
  /\ live = {}
  /\ horizon < lastExpiry
  /\ horizon' = horizon + 1
  /\ UNCHANGED <<opState, done, taskVars, rowVars, iam, day, noonAhead, env>>

(* renew_all_certs at noon, for this route.                                *)
RenewAllCerts(op) ==
  /\ noonAhead
  /\ noonAhead' = FALSE
  /\ NeedsRenewal
  /\ Cardinality(live) < env.maxLive
  /\ opState[op] = "none"
  /\ opState' = [opState EXCEPT ![op] = "in progress"]
  /\ live' = live \cup {op}
  /\ retries' = [retries EXCEPT ![op] = RetriesOf(Pipeline[1])]
  /\ UNCHANGED <<done, step, seen, rowVars, iam, horizon, day, env>>

CommonStep(op, inUse) ==
  \/ IssueCertificate(op)
  \/ UploadCertificate(op) \/ SaveUpload(op) \/ AlreadyUploaded(op)
  \/ ReadPreviousCertificate(op) \/ DeletePreviousCertificate(op, inUse)
  \/ MarkComplete(op)
  \/ Raise(op) \/ LoseTask(op)
  \/ RenewAllCerts(op)

-----------------------------------------------------------------------------
(* Properties of every pipeline *)

RenewalTypeOK ==
  /\ opState \in [Ops -> {"none", "in progress", "succeeded", "failed"}]
  /\ done \in [Ops -> 0..NumStages]
  /\ live \subseteq Ops
  /\ retries \in [Ops -> 0..MaxRetries]
  /\ step \in [Ops -> {"start", "read", "called"}]
  /\ seen \in [Ops -> Cert \cup {NoCert}]
  /\ linked \subseteq Rows
  /\ cert \in [Rows -> Cert \cup {NoCert}]
  /\ expiry \in [Owners -> Nat]
  /\ lastExpiry \in Nat
  /\ iam \subseteq Cert
  /\ horizon \in Nat
  /\ day \in 1..MaxDay
  /\ noonAhead \in BOOLEAN
  /\ env \in Environments

(* A new row is linked to the route only after upload_certificate has      *)
(* written the name of a certificate into it, as the note in               *)
(* create_private_key_and_csr asks of alb.remove_old_certificate and       *)
(* cdn.associate_certificate.                                              *)
LinkedRowsHaveCerts == \A op \in linked \cap Ops : cert[op] # NoCert

(* upload_certificate leaves one certificate per row in IAM, however often *)
(* it is retried: what its EntityAlreadyExists branch is for.              *)
OneUploadPerRow == \A c, d \in iam : c.row = d.row => c = d

(* No two operations of the route overlap.                                 *)
Alone == env.maxLive = 1

Succeeds(op) == opState[op] # "succeeded" /\ opState'[op] = "succeeded"

(* The pipeline of a route keeps the promise of OperationLifecycle.        *)
Lifecycle == INSTANCE OperationLifecycle
               WITH NumStages <- Len(Pipeline), opState <- opState, done <- done
ImplementsLifecycle == Lifecycle!Spec
=============================================================================
