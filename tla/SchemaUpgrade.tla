---------------------------- MODULE SchemaUpgrade ----------------------------
(***************************************************************************)
(* A deployment: stop-apps, upgrade-schema, then the new worker.           *)
(*                                                                         *)
(* One run of alembic migrates two databases, each in a transaction of its *)
(* own, and commits them one after the other: what is lost between the two *)
(* commits leaves the databases at different revisions.  The jobs of the   *)
(* pipeline are not serial, so builds overlap; they share the one app that *)
(* they push, run alembic in, poll by a task's number and delete; a build  *)
(* that fails does not stop its alembic task; and the broker goes on       *)
(* writing the domain database, of which only the renewer is stopped.      *)
(***************************************************************************)
EXTENDS Naturals, Sequences, FiniteSets

CONSTANTS
  Builds,         \* bound: the builds of the deploying job
  MaxAtOnce,      \* bound: those that are under way at once
  Downgrades,     \* bound: the downgrades that an operator runs by hand
  Versions,       \* the head revisions of what the builds deploy
  FirstRevisions, \* what the databases may be at when it begins
  Certificates,   \* the rows that the domain broker ever writes
  Nobody          \* no run

ASSUME SchemaAssumption ==
  /\ Versions \subseteq 1..7 /\ FirstRevisions \subseteq 0..7
  /\ Builds \cap Downgrades = {} /\ Nobody \notin Builds \cup Downgrades
  /\ MaxAtOnce \in Nat

Runs == Builds \cup Downgrades

VARIABLES
  job,     \* how far each build is
  version, \* the head of what it deploys, 0 before and after it does
  worker,  \* the build whose renewer runs, or Nobody
  app,     \* the head in the current droplet of ((name))-db-upgrade, 0: no app
  tasks,   \* the tasks of that app, each at its number
  id,      \* the number by which each build polls its task
  oldest,  \* history: the lowest head pushed from a build's push to its last poll
  task,    \* how each run of alembic goes
  head,    \* the head in the droplet that it runs in, 0 for a downgrade
  at,      \* what it does next: read the revision, migrate or commit
  from,    \* the revision of each database that it has read
  holds,   \* the run whose transaction has changed each database
  rev,     \* the revision that is committed in each database
  objects, \* the tables, columns and indexes that are committed
  rows,    \* the broker's certificates: no row, no iam_ value, or a copy
  copied,  \* those that a transaction which is still open has copied
  late     \* history: those that came when the copying had been done

jobVars == <<job, version, worker, app, tasks, id, oldest>>
runVars == <<head, at, from, copied>>
dbVars == <<holds, rev, objects, rows, late>>
vars == <<jobVars, task, runVars, dbVars>>

-----------------------------------------------------------------------------
(* The revisions, in the order of their down_revision                      *)

Databases == {"cdn", "domain"}

Copying == 7

OperationModels == {"operations"}
AcmeUsersTable == {"acme_user_v2", "routes.acme_user_id"}
PrivateKeyAndCsr ==
  {"certificates.private_key_pem", "certificates.csr_pem", "operations.certificate_id"}
ChallengesAndOrder == {"challenges", "certificates.order_json"}
CertificateMetadata ==
  {"certificates.fullchain_pem", "certificates.leaf_pem",
   "certificates.iam_server_certificate_id",
   "certificates.iam_server_certificate_name",
   "certificates.iam_server_certificate_arn"}

(* What each revision creates and its downgrade drops; the first one       *)
(* replaces an index of the CDN broker, and the last one copies rows.      *)
Adds(db) ==
  << IF db = "cdn" THEN {"idx_routes_instance_id"} ELSE {}, OperationModels,
     AcmeUsersTable, PrivateKeyAndCsr, ChallengesAndOrder, CertificateMetadata, {} >>

AddedBy(db, revisions) == UNION {Adds(db)[r] : r \in revisions}

DroppedBy(db, revisions) ==
  IF db = "cdn" /\ 1 \in revisions THEN {"uix_routes_instance_id"} ELSE {}

(* What the migrations build, on a database as its broker makes it, and    *)
(* what the models of a version name.                                      *)
Schema(db, r) ==
  (IF db = "cdn" /\ r = 0 THEN {"uix_routes_instance_id"} ELSE {})
  \cup AddedBy(db, 1..r)

Models(db, v) == AddedBy(db, 2..v)

Init ==
  /\ job = [b \in Builds |-> "waiting"]
  /\ version = [b \in Builds |-> 0]
  /\ worker = Nobody
  /\ app = 0 /\ tasks = <<>>
  /\ id = [b \in Builds |-> 0]
  /\ oldest = [b \in Builds |-> 0]
  /\ task = [t \in Runs |-> "none"]
  /\ head = [t \in Runs |-> 0]
  /\ at = [t \in Runs |-> <<"read", "cdn">>]
  /\ from = [t \in Runs |-> [db \in Databases |-> 0]]
  /\ holds = [db \in Databases |-> Nobody]
  /\ \E r \in FirstRevisions :
       /\ rev = [db \in Databases |-> r]
       /\ objects = [db \in Databases |-> Schema(db, r)]
  /\ rows = [c \in Certificates |-> "none"]
  /\ copied = [t \in Runs |-> {}]
  /\ late = {}

-----------------------------------------------------------------------------
(* alembic upgrade head, or downgrade -1, of run_migrations_online         *)

Step(phase, db) == <<phase, db>>

(* head is that of the scripts in the droplet which the task runs.         *)
Target(t, db) == IF t \in Builds THEN head[t] ELSE from[t][db] - 1

Begin(t, h) ==
  /\ task[t] = "none"
  /\ task' = [task EXCEPT ![t] = "running"]
  /\ head' = [head EXCEPT ![t] = h]

ReadOfCdnAlone(t, db) ==
  /\ task[t] = "running" /\ at[t] = Step("read", db)
  /\ LET r == IF db = "domain" THEN from[t]["cdn"] ELSE rev[db]
     IN  /\ IF t \in Builds THEN r <= head[t] ELSE r > 0
         /\ from' = [from EXCEPT ![t][db] = r]
  /\ at' = [at EXCEPT ![t] = Step("migrate", db)]
  /\ UNCHANGED <<jobVars, task, head, copied, dbVars>>

(* alembic_version is read for one database after the other.  A revision   *)
(* that this version does not know raises, and so does one below the base. *)
ReadRevision(t, db) ==
  /\ task[t] = "running" /\ at[t] = Step("read", db)
  /\ IF t \in Builds THEN rev[db] <= head[t] ELSE rev[db] > 0
  /\ from' = [from EXCEPT ![t][db] = rev[db]]
  /\ at' = [at EXCEPT ![t] = Step("migrate", db)]
  /\ UNCHANGED <<jobVars, task, head, copied, dbVars>>

CopiesWithTheCdn(t) == t \in Builds /\ from[t]["cdn"] < Copying /\ Copying <= head[t]

(* upgrade_domain of 95e3ab2a28dd copies; no downgrade undoes the copying. *)
Copies(t) == t \in Builds /\ from[t]["domain"] < Copying /\ Copying <= head[t]

AfterMigrating(db) ==
  IF db = "cdn" THEN Step("read", "domain") ELSE Step("commit", "cdn")

MigrateOnAStaleRevision(t, db) ==
  /\ task[t] = "running" /\ at[t] = Step("migrate", db)
  /\ from[t][db] # Target(t, db)
  /\ holds[db] = Nobody
  /\ holds' = [holds EXCEPT ![db] = t]
  /\ copied' = [copied EXCEPT ![t] =
       IF db = "domain" /\ Copies(t) THEN {c \in Certificates : rows[c] # "none"}
       ELSE @]
  /\ at' = [at EXCEPT ![t] = AfterMigrating(db)]
  /\ UNCHANGED <<jobVars, task, head, from, rev, objects, rows, late>>

(* The revisions run in the database's open transaction.  PostgreSQL makes *)
(* a second run wait for the first one's, and alembic raises unless it     *)
(* still finds the revision that it has read.                              *)
Migrate(t, db) ==
  /\ task[t] = "running" /\ at[t] = Step("migrate", db)
  /\ from[t][db] # Target(t, db)
  /\ holds[db] = Nobody
  /\ rev[db] = from[t][db]
  /\ holds' = [holds EXCEPT ![db] = t]
  /\ copied' = [copied EXCEPT ![t] =
       IF db = "domain" /\ Copies(t) THEN {c \in Certificates : rows[c] # "none"}
       ELSE @]
  /\ at' = [at EXCEPT ![t] = AfterMigrating(db)]
  /\ UNCHANGED <<jobVars, task, head, from, rev, objects, rows, late>>

(* A database that is at its head takes no lock.                           *)
NothingToMigrate(t, db) ==
  /\ task[t] = "running" /\ at[t] = Step("migrate", db)
  /\ from[t][db] = Target(t, db)
  /\ at' = [at EXCEPT ![t] = AfterMigrating(db)]
  /\ UNCHANGED <<jobVars, task, head, from, copied, dbVars>>

(* What the revisions between the one read and the target leave.           *)
Migrated(t, db) ==
  LET f == from[t][db]  g == Target(t, db)
  IN  IF f < g
      THEN (objects[db] \ DroppedBy(db, (f + 1)..g)) \cup AddedBy(db, (f + 1)..g)
      ELSE (objects[db] \ AddedBy(db, (g + 1)..f)) \cup DroppedBy(db, (g + 1)..f)

(* The iam_ columns come and go with the sixth revision.                   *)
MigratedRows(t) ==
  [c \in Certificates |->
     IF rows[c] = "none" THEN "none"
     ELSE IF c \in copied[t] THEN "copied"
     ELSE IF Target(t, "domain") < 6 THEN "not copied" ELSE rows[c]]

Commit(t, db) ==
  /\ task[t] = "running" /\ at[t] = Step("commit", db)
  /\ IF holds[db] = t
     THEN /\ rev' = [rev EXCEPT ![db] = Target(t, db)]
          /\ objects' = [objects EXCEPT ![db] = Migrated(t, db)]
          /\ holds' = [holds EXCEPT ![db] = Nobody]
     ELSE UNCHANGED <<rev, objects, holds>>
  /\ IF holds[db] = t /\ db = "domain"
     THEN /\ rows' = MigratedRows(t)
          /\ late' = IF Target(t, "domain") < Copying THEN {} ELSE late
     ELSE UNCHANGED <<rows, late>>
  /\ at' = [at EXCEPT ![t] = IF db = "cdn" THEN Step("commit", "domain") ELSE Step("end", db)]
  /\ UNCHANGED <<jobVars, task, head, from, copied>>

(* Nothing is kept of a run that has ended.                                *)
Ends(t, how) ==
  /\ task' = [task EXCEPT ![t] = how]
  /\ head' = [head EXCEPT ![t] = 0]
  /\ at' = [at EXCEPT ![t] = Step("read", "cdn")]
  /\ from' = [from EXCEPT ![t] = [db \in Databases |-> 0]]
  /\ copied' = [copied EXCEPT ![t] = {}]

Succeed(t) ==
  /\ task[t] = "running" /\ at[t] = Step("end", "domain")
  /\ Ends(t, "succeeded")
  /\ UNCHANGED <<jobVars, dbVars>>

FailAndHold(t) ==
  /\ task[t] = "running"
  /\ Ends(t, "failed")
  /\ UNCHANGED <<jobVars, dbVars>>

(* A statement or a commit fails, or the task is killed, at any time: what *)
(* is not committed is rolled back.                                        *)
Fail(t) ==
  /\ task[t] = "running"
  /\ Ends(t, "failed")
  /\ holds' = [db \in Databases |-> IF holds[db] = t THEN Nobody ELSE holds[db]]
  /\ late' = IF rev["domain"] < Copying /\ holds["domain"] = t THEN {} ELSE late
  /\ UNCHANGED <<jobVars, rev, objects, rows>>

-----------------------------------------------------------------------------
(* The job, the operator and the domain broker                             *)

Deploying(b) ==
  job[b] \in {"stopped", "pushed", "upgrading", "succeeded", "unsuccessful", "upgraded"}
AlembicRuns == \E t \in Runs : task[t] = "running"
Downgrading == \E d \in Downgrades : task[d] = "running"

Becomes(b, state) == job' = [job EXCEPT ![b] = state]

(* The build has fetched what it deploys.  The operator holds the pipeline *)
(* while he downgrades.                                                    *)
StopApps(b, v) ==
  /\ job[b] = "waiting" /\ ~Downgrading
  /\ Cardinality({c \in Builds : Deploying(c)}) < MaxAtOnce
  /\ Becomes(b, "stopped")
  /\ version' = [version EXCEPT ![b] = v]
  /\ worker' = Nobody
  /\ UNCHANGED <<app, tasks, id, oldest, task, runVars, dbVars>>

(* The app is one for all builds: whoever pushes replaces its droplet.     *)
PushApp(b) ==
  /\ job[b] = "stopped"
  /\ Becomes(b, "pushed")
  /\ app' = version[b]
  /\ oldest' = [c \in Builds |->
       IF \/ c = b
          \/ job[c] \in {"pushed", "upgrading"} /\ version[b] < oldest[c]
       THEN version[b] ELSE oldest[c]]
  /\ UNCHANGED <<version, worker, tasks, id, task, runVars, dbVars>>

(* The task runs whatever droplet the app has by now.                      *)
RunTask(b) ==
  /\ job[b] = "pushed" /\ app # 0
  /\ Becomes(b, "upgrading")
  /\ tasks' = Append(tasks, b)
  /\ id' = [id EXCEPT ![b] = Len(tasks) + 1]
  /\ Begin(b, app)
  /\ UNCHANGED <<version, worker, app, oldest, at, from, copied, dbVars>>

(* What cf tasks shows in the line of that number, whosever task it is.    *)
Listed(b) == id[b] \in 1..Len(tasks)
Status(b) == task[tasks[id[b]]]

EveryEndIsSuccess(b) ==
  /\ job[b] = "upgrading" /\ Listed(b)
  /\ Becomes(b, IF Status(b) # "running" THEN "succeeded" ELSE "unsuccessful")
  /\ id' = [id EXCEPT ![b] = 0]
  /\ UNCHANGED <<version, worker, app, tasks, oldest, task, runVars, dbVars>>

(* The loop ends at any status but RUNNING, be it PENDING or CANCELING.    *)
PollTask(b) ==
  /\ job[b] = "upgrading" /\ Listed(b)
  /\ Becomes(b, IF Status(b) = "succeeded" THEN "succeeded" ELSE "unsuccessful")
  /\ id' = [id EXCEPT ![b] = 0]
  /\ UNCHANGED <<version, worker, app, tasks, oldest, task, runVars, dbVars>>

(* Nothing is kept of a build that has failed.                             *)
Fails(b) ==
  /\ Becomes(b, "failed")
  /\ version' = [version EXCEPT ![b] = 0]
  /\ oldest' = [oldest EXCEPT ![b] = 0]
  /\ id' = [id EXCEPT ![b] = 0]

(* The app goes, also from under another build; a task of it that runs is  *)
(* killed some time later, and the next app numbers its tasks from 1.      *)
DeleteApp(b) ==
  /\ app' = 0 /\ tasks' = <<>>
  /\ \/ /\ job[b] = "succeeded"
        /\ Becomes(b, "upgraded")
        /\ UNCHANGED <<version, oldest, id>>
     \/ job[b] = "unsuccessful" /\ Fails(b)
  /\ UNCHANGED <<worker, task, runVars, dbVars>>

(* A cf command that fails, no app to run a task in, no line of that       *)
(* number, or an aborted build: the job ends, the worker stays stopped,    *)
(* the app is left as it is, and a task that runs goes on.                 *)
JobFails(b) ==
  /\ Deploying(b)
  /\ Fails(b)
  /\ UNCHANGED <<worker, app, tasks, task, runVars, dbVars>>

Deploy(b) ==
  /\ job[b] = "upgraded"
  /\ Becomes(b, "deployed")
  /\ worker' = b
  /\ UNCHANGED <<version, app, tasks, id, oldest, task, runVars, dbVars>>

Downgrade(d) ==
  /\ ~AlembicRuns /\ \A b \in Builds : ~Deploying(b)
  /\ Begin(d, 0)
  /\ worker' = Nobody
  /\ UNCHANGED <<job, version, app, tasks, id, oldest, at, from, copied, dbVars>>

(* The domain broker knows arn and name alone.                             *)
BrokerAddsCertificate(c) ==
  /\ rows[c] = "none"
  /\ rows' = [rows EXCEPT ![c] = "not copied"]
  /\ late' = IF \/ rev["domain"] >= Copying
                \/ holds["domain"] # Nobody /\ Copies(holds["domain"])
             THEN late \cup {c} ELSE late
  /\ UNCHANGED <<jobVars, task, runVars, holds, rev, objects>>

Next ==
  \/ \E b \in Builds :
       \/ \E v \in Versions : StopApps(b, v)
       \/ PushApp(b) \/ RunTask(b) \/ PollTask(b)
       \/ DeleteApp(b) \/ JobFails(b) \/ Deploy(b)
  \/ \E d \in Downgrades : Downgrade(d)
  \/ \E c \in Certificates : BrokerAddsCertificate(c)
  \/ \E t \in Runs :
       \/ \E db \in Databases :
            ReadRevision(t, db) \/ Migrate(t, db) \/ NothingToMigrate(t, db) \/ Commit(t, db)
       \/ Succeed(t)
       \/ Fail(t)

Spec == Init /\ [][Next]_vars

-----------------------------------------------------------------------------
(* Properties                                                              *)

(* A run that has ended holds no transaction open, and a build that has    *)
(* pushed has a version and a bound to it.                                 *)
TypeOK ==
  /\ job \in [Builds -> {"waiting", "stopped", "pushed", "upgrading", "succeeded",
                         "unsuccessful", "upgraded", "deployed", "failed"}]
  /\ version \in [Builds -> {0} \cup Versions]
  /\ oldest \in [Builds -> {0} \cup Versions]
  /\ worker \in Builds \cup {Nobody}
  /\ app \in {0} \cup Versions /\ tasks \in Seq(Builds)
  /\ id \in [Builds -> Nat] /\ head \in [Runs -> {0} \cup Versions]
  /\ task \in [Runs -> {"none", "running", "succeeded", "failed"}]
  /\ at \in [Runs -> {"read", "migrate", "commit", "end"} \X Databases]
  /\ from \in [Runs -> [Databases -> 0..7]]
  /\ holds \in [Databases -> Runs \cup {Nobody}]
  /\ \A db \in Databases : holds[db] # Nobody => task[holds[db]] = "running"
  /\ rev \in [Databases -> 0..7]
  /\ \A db \in Databases : objects[db] \subseteq Schema(db, 0) \cup Schema(db, 7)
  /\ rows \in [Certificates -> {"none", "not copied", "copied"}]
  /\ copied \in [Runs -> SUBSET Certificates] /\ late \subseteq Certificates
  /\ \A b \in Builds : job[b] \notin {"waiting", "stopped", "failed"} =>
       version[b] # 0 /\ oldest[b] # 0

(* A renewer that runs finds in both databases every table and column that *)
(* its models name, whatever builds overlapped, failed, were half done or  *)
(* took another's task for their own.  Only what an older build has pushed *)
(* over the shared app, from this build's push to its last poll, may take  *)
(* it down to the models of that older version.                            *)
WorkerFits ==
  worker # Nobody =>
    \A db \in Databases : Models(db, oldest[worker]) \subseteq objects[db]

(* Each database is what its own alembic_version says: no two runs mix     *)
(* their revisions, and a downgrade undoes what the upgrade did.           *)
SchemaFollowsRevision ==
  \A db \in Databases : objects[db] = Schema(db, rev[db])

(* A build that takes its upgrade for done has both databases at the head  *)
(* it pushed or above, or at that of an older build's push over the shared *)
(* app in the meantime: also when the task whose status it read is another *)
(* build's, and when a run before had committed the cdn database alone.    *)
SuccessUpgradesBoth ==
  \A b \in Builds :
    job[b] = "upgraded" => \A db \in Databases : rev[db] >= oldest[b]

(* Every certificate that the domain broker had when the copying was done  *)
(* has its arn and name in the iam_ columns, even if the first attempt to  *)
(* copy was lost; those that came later are not the migration's.           *)
OldRowsAreCopied ==
  rev["domain"] >= Copying =>
    \A c \in Certificates \ late : rows[c] # "not copied"
=============================================================================
