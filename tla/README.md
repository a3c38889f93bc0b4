# Formal models of the legacy domain certificate renewer

The renewer replaces the TLS certificates of cloud.gov's legacy domain
services before they expire. It works on two kinds of routes: ALB routes (the
domain broker's database, GovCloud IAM, load balancer listeners) and CDN routes
(the CDN broker's database, commercial IAM, CloudFront distributions). Every
renewal is an *operation*: a row in the broker's database and a chain of huey
tasks that get a certificate from Let's Encrypt, upload it to IAM, put it in
service and delete the one before.

This directory holds TLA+ models of it, TLC configurations, and proofs.

## How to run

    tlc -workers 2 -config RenewalQueue.cfg MCRenewalQueue.tla
    tlc -workers 2 -config AlbRenewal.cfg MCAlbRenewal.tla
    tlc -workers 2 -config CdnRenewal.cfg MCCdnRenewal.tla
    tlc -workers 2 -config AcmeOrder.cfg MCAcmeOrder.tla
    tlc -workers 2 -config AcmeUsers.cfg MCAcmeUsers.tla
    tlc -workers 2 -config SchemaUpgrade.cfg MCSchemaUpgrade.tla
    tlapm RenewalQueueProofs.tla
    tlapm AcmeOrderProofs.tla
    tlapm AcmeUsersProofs.tla
    tlapm RenewalTasksProofs.tla
    tlapm AlbRenewalProofs.tla
    tlapm AlbServedProofs.tla
    tlapm CdnRenewalProofs.tla
    tlapm SchemaUpgradeProofs.tla

`PROJECT.json` lists the runs, what each checks, the mutants (a plausible bug
for every property, which TLC finds), the source lines every definition stands
for, the hazards, the findings and the theorems.

## Inventory

| Part | State it keeps | Operations | Interacts with |
|---|---|---|---|
| Task engine (`renewer/huey.py`, `consumer.py`, `scripts/run-worker`) | Redis list, Redis schedule, 8 worker threads, retries left in each task | take a task, run it, enqueue its successor, schedule a retry, `mark_operation_failed` | every task; `operations` rows; alerts |
| Pipelines (`tasks/renewals.py`, `tasks/update_operations.py`) | `operations` rows | `renew_all_certs` at noon, `mark_complete` | engine, routes |
| ALB renewal (`tasks/alb.py`, `tasks/iam.py`) | rows linked to the route, IAM, listener | `upload_certificate`, `associate_certificate`, `remove_old_certificate`, `wait_for_cert_update`, `delete_old_certificate` | domain database, AWS |
| Backport (`tasks/migrations.py`, `models/domain.py`) | rows linked to the route | `backport_cert` at six | listener, IAM, domain database |
| CDN renewal (`tasks/cdn.py`, `tasks/iam.py`) | rows, IAM, the distribution's config and ETag | `associate_certificate`, `wait_for_distribution`, `delete_old_certificate` | CDN database, CloudFront |
| ACME order (`tasks/letsencrypt.py`, `tasks/s3.py`, `acme_client.py`) | certificate, order and challenge rows | key and CSR, order, challenge files, answers, retrieval | Let's Encrypt, S3 |
| ACME users (`letsencrypt.create_user`, `AcmeUserV2Model.get_user`) | accounts and the routes of each | choose or register an account | Let's Encrypt, routes |
| Alerts (`smtp.py`) | none | mail a failed operation | engine |
| Sessions (`db.py`) | one transaction per task | commit, or roll back when a body is left | every task |
| Schema migrations (`migrations/`) | the revision, the tables and the copied rows of two databases | upgrade both, downgrade both | the databases, the domain broker |
| Deployment (`ci/`) | the worker's version, stopped or running; one app for upgrades, its droplet and tasks | stop the worker, push the app, run and poll a task in it, delete it, deploy | migrations, engine |
| Configuration, logging, clients | none while the worker runs | - | - |

What is hard here:

* **Retries.** Every task but the wait is run up to 25 times, from its start,
  over four hours. Its body reads rows, calls AWS and commits, and may raise
  between any two of these, or after an effect whose answer was lost.
* **Overlap.** `renew_all_certs` starts an operation for a due route every
  noon. The retries of one pipeline can take longer than a day, so two
  operations of a route may run at a time, on eight threads.
* **Positions.** `certificates[0]` and `certificates[1]` of a route, ordered by
  expiry, stand for "the old certificate" in two different tasks.
* **Three copies of the truth.** The rows, IAM and the listener are changed one
  after the other and have to agree.
* **Stops.** A deploy stops the worker; a task it held is gone from Redis.
* **Counts and copies that are old when they are used.** `create_user` counts
  the routes of an account and uses it later; `associate_certificate` of the
  CDN reads a config, changes it and writes it back; an `alembic` run reads a
  revision before it migrates it.
* **Two databases, two commits, one app.** A schema upgrade commits one
  database after the other. Nothing makes deployments wait for one another, and
  all of them push, use and delete the one app `((name))-db-upgrade`.
* **Signal handlers.** What `mark_operation_failed` raises is swallowed.

What makes the parts correct: a pipeline never forks, skips or repeats a
stage; an operation is failed after exactly its last retry and never comes
back; nothing is forgotten silently; the listener is served at every moment;
nothing in use is deleted, neither on a listener nor at an edge location;
success means that the new certificate serves the route, its row is linked,
and the old one is gone; an operator's changes of a distribution are never
undone; no account gets many more routes than it may have; a worker that is
deployed finds the schema its models need in both databases, unless an older
build has interfered.

## Modules

| Module | Models | Checked by |
|---|---|---|
| `OperationLifecycle` | what an operation promises, whatever runs it | implemented by `RenewalQueue`, `AlbRenewal`, `CdnRenewal` |
| `RenewalQueue` | engine, pipelines, failure signal, alerts, crashes | `MCRenewalQueue`, `RenewalQueueProofs` |
| `RenewalTasks` | the rows of one route, the tasks that both pipelines have, cron and clock | extended by the next two, `RenewalTasksProofs` |
| `AlbRenewal` | adds an ALB's listener, the tasks of `alb.py` and the backport | `MCAlbRenewal`, `AlbRenewalProofs`, `AlbServedProofs` |
| `CdnRenewal` | adds a CloudFront distribution and the tasks of `cdn.py` | `MCCdnRenewal`, `CdnRenewalProofs` |
| `IssueStage` | what the stage `issue` of `RenewalTasks` promises | implemented by `AcmeOrder` |
| `AcmeOrder` | one certificate row, its challenges and files, and the CA: the stage `issue` in detail, but for `create_user` | `MCAcmeOrder`, `AcmeOrderProofs` |
| `AcmeUsers` | `create_user` of many routes at once | `MCAcmeUsers`, `AcmeUsersProofs` |
| `SchemaUpgrade` | deployments: the two databases, the migrations, the builds | `MCSchemaUpgrade`, `SchemaUpgradeProofs` |

The modules fit together by what each takes for granted of the other:
`RenewalQueue` shows that the tasks of an operation run one at a time, in
order, and again until their retries are spent, which is how `RenewalTasks` and
`AcmeOrder` run them; `AcmeOrder` implements `IssueStage`, which is how
`RenewalTasks` can take six tasks for one step that gives the row one
certificate; `SchemaUpgrade` shows that the tables they all use are there.

Definitions that no other definition uses (`RequeueUncounted`,
`AssociateReplaces`, ...) are mutants: each stands before the definition it
mutates and is used only to see that a property can fail.

### RenewalQueue

`opState` is the `state` column, `done` how many tasks of the chain have
returned. `queue`, `schedule`, `running` and `phase` are huey's list, its
sorted set of delayed tasks and the worker threads; a task is its operation,
its place in the chain and its retries left. `tries`, `alerted` and `lost` are
history: how often the current task has raised, whose failure was mailed, and
which operations a crash or an outage has touched.

| Action | Code |
|---|---|
| `CreateOperation`, `EnqueuePipeline`, `CronFails` | `renew_all_certs`: commit the row, enqueue the chain, or raise in between |
| `Dequeue`, `Return`, `Raise`, `Requeue`, `ScheduleDue`, `RedisFails` | huey's worker and scheduler loops (external; modelled from the task kinds and the chain the code declares) |
| `Work` | the body's commit; in the last task, `mark_complete` |
| `MarkOperationFailed`, `SendAlert`, `HandlerFails` | the error signal's handler, up to its commit, its mail, and an exception in it |
| `Crash` | `cf stop`, an eviction, a crash of the consumer |

A body may raise after its commit (`Raise` in phase `worked`), a crash may
happen at any step and takes what the threads held and any part of what the
scheduler had taken off the sorted set.

### RenewalTasks

One route. `linked` and `cert` are the `certificates` rows that belong to the
route and the IAM certificate each names; `iam` is AWS; `expiry` orders the
certificates and `horizon` says which are due. A task is a few steps: `start`,
`read` (it holds what it has read) and `called` (the AWS call is made, the
commit is not). A task that raises starts over until its retries are spent.
The six tasks up to `retrieve_certificate` are the one stage `issue`, whose
result is a certificate that expires after all others. `Pipeline` is the
sequence of stages, which the extending module fixes.

`env` says what the surroundings of a behaviour may do and never changes:
how many operations of the route overlap (`maxLive`), whether a task may raise
although its last call took effect (`lostAnswers`), and whether IAM deletes a
certificate that is in use (`deletesInUse`). A run takes a set of such records
and checks the behaviours of each. A property that is promised only as long as
operations of the route do not overlap has the premise `Alone`.

| Action | Code |
|---|---|
| `IssueCertificate` | `create_user` to `retrieve_certificate` |
| `UploadCertificate`, `SaveUpload`, `AlreadyUploaded` | `iam.upload_certificate`, the name with row and day |
| `ReadPreviousCertificate`, `DeletePreviousCertificate` | `iam.delete_old_certificate` |
| `MarkComplete`, `Raise`, `LoseTask` | end of the pipeline, an exception, a crash |
| `RenewAllCerts`, `NewDay`, `ExpiryNears` | cron and clock |

Assumptions about IAM, as the code uses it: an upload under a name that exists
is refused with the code that `iam.py:62` expects, and finds the first upload;
deleting what is not there succeeds. The code there is
`EntityAlreadyExistsException`, the IAM reference has `EntityAlreadyExists`:
if that is what comes, the task raises, which is `Raise`, and no property
depends on the branch. Two legacy rows
never expire at the same moment unless the backport imports one certificate
twice.

### AlbRenewal

`listener` is the set of certificates attached to the ALB's listener, `import`
what a running `backport_cert` has picked: one at a time, as it is enqueued for
a route once a day, at six, and is not retried. The ALB takes a certificate only if
it exists; removing what is not attached succeeds.

| Action | Code |
|---|---|
| `AssociateCertificate` | `alb.associate_certificate` |
| `ReadOldCertificate`, `RemoveOldCertificate`, `LinkCertificate` | `alb.remove_old_certificate` |
| `WaitForCertUpdate` | `alb.wait_for_cert_update`, which is never retried |
| `BackportReads`, `BackportSaves` | `backport_cert` |

### CdnRenewal

`viewer` is the certificate in the distribution's config and `settings` stands
for the rest of it, as the number of changes an operator has made; `current`
are the operations whose ETag is still that of the config, `copy` the settings
they have read. `edges` are the certificates that some edge location may still
serve: an accepted config adds to them, and a deployment that ends leaves the
config's own. A legacy row of the CDN database knows no IAM certificate: the
broker did not record it and no migration fills it in.

| Action | Code |
|---|---|
| `ReadConfig`, `UpdateDistribution`, `LinkCertificate` | `cdn.associate_certificate`: the read with its ETag, the conditional write, the commit |
| `WaitForDistribution`, `WaiterGivesUp` | `cdn.wait_for_distribution`; `suppress` replaces `sys.excepthook`, which an exception inside a task never reaches, so a `WaiterError` fails the task |
| `OperatorEdits`, `CloudFrontDeploys` | the surroundings (external) |

### AcmeOrder

The five tasks between `create_user` and `upload_certificate`. Seen from the
outside they are `IssueStage`: a key is made anew until a certificate is issued
for it, one certificate is issued, and the stage ends when it is stored. `key`, `csr`,
`order`, `leaf` are columns of the certificate row, `body` and `answered` of
the challenge rows; a CSR and a certificate are represented by the key they are
for. `files` is the bucket; `placed`, `authz`, `asked`, `issued` are the CA's
records. `marked` and `held` are what a task has in its session or in a local
variable and has not committed.

| Action | Code |
|---|---|
| `CreatePrivateKeyAndCsr` | the task of that name, on every run anew |
| `NewOrder`, `SaveOrder`, `AlreadyInitiated` | `initiate_challenges`: the call, the commit of order and challenges, the early return |
| `PutFile`, `FilesUploaded` | `upload_challenge_files` |
| `MarkValid`, `AnswerChallenge`, `SaveAnswers` | the loop of `answer_challenges` and its two commits |
| `PollInvalid`, `FinalizeOrder`, `SaveCertificate`, `AlreadyRetrieved` | `retrieve_certificate`: the poll, the two ways to a certificate, the commit, the early return |
| `Raise`, `LoseTask` | an exception or a lost answer, a crash |
| `Validate` | the CA looks for a file (external) |

What the model assumes of the CA: a new order may reuse valid authorizations;
being told of a challenge again is harmless; a challenge whose file is missing
becomes invalid, one whose file is there valid or invalid; an order is
finalized once, and its certificate can be fetched afterwards. A domain that
has lost its DNS record is a `Raise` in `http_challenge` or a `Validate` that
ends invalid.

### AcmeUsers

Each route has one task at most (`step`). `account` is `routes.acme_user_id`,
`users` the rows of `acme_user_v2`, `registered` what the CA knows; `found`,
`uncounted` and `counts` are what the task has read, one query per account, and
`chosen` the account that it has registered and not committed.

| Action | Code |
|---|---|
| `ReadUsers`, `CountRoutes` | the queries of `get_user` |
| `ReuseUser` | an account with the fewest routes and room, and the commit |
| `RegisterAccount`, `SaveUser` | the call to the CA; the commit of row and route |
| `Raise` | an exception or a crash; the task starts over |

The two databases have users of their own, so this is one of the two.

### SchemaUpgrade

`job`, `version` and `worker` are the builds, what each deploys, and the
renewer that runs. All builds share one app (`((name))-db-upgrade` of
`pipeline.yml`): `app` is the head in its current droplet, `tasks` are its
tasks by number, and `id` is the number by which a build polls. A run of
`alembic` is a `task` that stands at `at`, in the droplet with the head `head`;
`from` is what it has read from `alembic_version`, `holds` whose transaction
has changed a database, `copied` the rows that its last revision has copied.
`rev`, `objects` and `rows` are what is committed. A revision is represented by
the tables, columns and indexes it adds, and the last one by the rows it
copies. `late` and `oldest` are history: the rows that came when the copying
was over, and the lowest head that has been pushed over the app between a
build's own push and its last poll.

| Action | Code |
|---|---|
| `StopApps`, `Deploy` | `stop-apps.sh` and the put at the end of the job in `pipeline.yml` |
| `PushApp`, `RunTask` | `cf push` replaces the app's droplet, `cf run-task` runs whatever droplet is there |
| `PollTask`, `DeleteApp` | the status in the line of that number, whosever task it is; the app goes for every build and the numbers start again |
| `JobFails` | a `cf` command fails under `set -e`, or the build is aborted; app and task go on |
| `ReadRevision`, `Migrate`, `NothingToMigrate`, `Commit`, `Succeed`, `Fail` | `run_migrations_online`, its revisions and its two commits |
| `Downgrade` | an operator runs `alembic downgrade -1` with the pipeline held |
| `BrokerAddsCertificate` | the domain broker, which is not stopped (external) |

Because the app is shared, a build can run another's head and take another's
task for its own. `WorkerFits` and `SuccessUpgradesBoth` are therefore stated
with `oldest[b]` instead of `version[b]`: what a build may miss is bounded by
the oldest head that was pushed over its app while it needed it. If no older
build pushes in between, `oldest[b]` is the build's own version.

What it assumes of PostgreSQL and alembic: DDL is transactional; a second run
waits for the one that has changed a database and then fails unless it finds
the revision it has read; a revision that is not among the build's own raises.

## Runs

| Run | Instance | What it shows |
|---|---|---|
| `queue` | 3 operations, 2 workers, a chain of a task with one retry, one without and `mark_complete` with one, `FairSpec` | the safety properties, the inductive invariant, the refinement; every operation ends and every failure is mailed, or a crash or an outage took it |
| `alb` | 3 operations, 3 days, one retry; one operation at a time with lost answers and an IAM that deletes what is in use, or two at a time without either | served at every moment, nothing dangles, `certificates[1]` exists where it is read, success renews and retires, success leaves a fresh certificate, the lifecycle |
| `alb_backports` | a row without arn and name, a certificate put on the listener by hand, two imports | imported once, success leaves a fresh certificate |
| `alb_unknown_arn`, `alb_midnight`, `alb_import_twice`, `alb_retry_overlap` | small instances | four findings |
| `cdn` | 2 operations, 3 days, one retry, one edit by an operator, answers lost; one at a time with an IAM that deletes what is in use, or two at a time | no edge and no config names a certificate that is gone, no edit is undone, success renews at every edge and retires |
| `acme_order` | two domains, two retries of each task | the safety properties, the inductive invariant, the refinement of `IssueStage` |
| `acme_invalid` | one domain, one retry of each task | the finding about a failed validation |
| `acme_users` | 5 routes, 4 accounts, 3 workers, room for 2 routes | an account is overfilled, and spare accounts are registered, by less than the pool |
| `schema` | 3 builds of revision 5 or 7 in any mix, two at a time over one app, a downgrade, from databases as the brokers make them, one row | a deployed worker fits and a success upgrades both, but for what an older push takes away; each schema is what its revision says; old rows are copied |

Bounds. Two workers and three operations are enough for every pair of
concurrent steps and for a third operation between them on the list. A chain
of three has a first task, a middle one that is not retried like the wait, and
the last one, which writes `succeeded`; one retry distinguishes the first run,
a retry and the last retry. In `RenewalTasks` one retry, two or three
operations and two or three days let an operation be retried across midnight
and across the noon that starts the next, and let a third one meet what both
left; `MaxRetries`, `MaxDay`, `MaxEdits` and `env.maxLive` are the bounds in
the guards. The operations of a route are interchangeable, so they are
symmetric. `ExpiryNears` waits for running pipelines: a new certificate is good
for 90 days and a pipeline ends within two or three.
In `AcmeOrder` two domains give a first and a last round of each loop and every
mix of valid and unanswered challenges, and two retries let an effect be
repeated twice; the domains are symmetric. Keys and orders are numbered up to
`MaxRetries + 1`, which is no bound on behaviour: `Counted` says, and the proof
shows, that a task never gets to make more.
In `AcmeUsers` three workers can find the same last room and still leave a
route for the time after; `Accounts` bounds the registrations, and the theorems
hold for any number of each. In `SchemaUpgrade` two builds at a time
(`MaxAtOnce`) are enough for one to push, run, poll or delete between any two
steps of the other; tasks of builds that have failed go on beside them, and the
third build comes after one of the two, to meet a torn upgrade, an app without
its tasks or a task that was left behind. Revisions 5 and 7 have the last one
that changes tables and the one that copies rows between them, and a downgrade
goes back below either. The theorems hold for any number of each.
Deadlock is checked for the queue, where a crash is always possible; elsewhere
the days, the stages, the routes or the builds come to an end.

Fairness is assumed for what the consumer does by itself: each worker goes on
with the task it has (`WF` of each `WorkerStep(w)`; a wait for AWS or the CA has a
deadline, but `smtplib` is called without one at `smtp.py:14`, and the database
driver has none either: a mail server or a database that keeps a connection
open and never answers is assumed away), `renew_all_certs` goes on with an operation that it has created, and
the scheduler, which looks at the sorted set every second, moves what is due.
No fairness is assumed for `CreateOperation`, for any single outcome of a task,
or for `Crash`.

## What the checks found

* `alb_unknown_arn`: a newest row without arn makes `remove_old_certificate`
  return before it links the new row (`alb.py:55`), against the note in
  `letsencrypt.py:156`. The operation succeeds, the new row belongs to no
  route, and the route is renewed again every day.
* `alb_midnight`: the upload's name has the day in it (`iam.py:49`), so a retry
  after midnight uploads once more, against `iam.py:63`.
* `alb_import_twice`: the backport imports a certificate that is attached but
  not linked yet (`domain.py:94`), against `domain.py:97`. Positions 0 and 1
  are then the same certificate: the old one stays on the listener, and the
  pipeline's last step tries to delete the new one.
* `alb_retry_overlap`: a late retry of `remove_old_certificate` removes a newer
  operation's certificate (`alb.py:47`) and leaves the listener with none,
  against the test at `tests/integration/test_alb_renewal.py:364`. It takes a
  retry after the commit and a second operation; without either, `alb`
  shows that the route stays served. Where operations overlap that also needs
  IAM to refuse deleting a certificate in use, because `certificates[1]` of the
  older of two operations can be its own.
* `acme_invalid`: `retrieve_certificate` raises at `letsencrypt.py:434`, before
  the lines that would drop the invalid order; the comment at
  `letsencrypt.py:435` says that it is dropped so that a retry does not reuse
  it. All retries poll the same invalid order, until the operation fails.

Not stated as findings, because nothing in the repository says otherwise:
`AcmeUsers` shows that `MAX_ROUTES_PER_USER` may be exceeded, by up to one
route less than there are workers; a row that the domain broker adds after the
copying of revision 95e3ab2a28dd has no `iam_` values and ends up as in
`alb_unknown_arn`; with the build's own version in place of `oldest`,
`WorkerFits` and `SuccessUpgradesBoth` fail (a build of revision 5 pushes over
the app between the `cf push` and the `cf run-task` of a build of revision 7,
whose task then upgrades to 5, reports `SUCCEEDED`, and the worker of
revision 7 is deployed on that schema); an older build that is slow can stop a newer worker and then
fail, because its `alembic` does not know the revision, and leave the renewer
stopped; an operation whose task is lost in a crash stays "in
progress" for good. `NothingForgotten` and `EveryOperationEnds` say exactly
which operations that can happen to.

## Proofs

`RenewalQueueProofs` proves, for any set of operations and workers, any length
of the pipeline and any table of retries, assuming only `QueueAssumption` (the
types of the constants):

* `TypeCorrect`: `Spec => []TypeOK`;
* `AlwaysInStep`: `Spec => []InStep`, the inductive invariant;
* from it `PipelineNeverForks`, `FailedOnlyAfterEveryRetry`,
  `SucceededOnlyAfterEveryStage`, `NoneIsForgotten`;
* the action property `FailuresAreFinal`;
* `QueueImplementsLifecycle`: every step of the queue is a step of
  `OperationLifecycle` or leaves its variables alone.

The safety properties are not inductive by themselves. That a row is failed
only after the last retry needs that the retries spent and the retries left of
a task add up to what it was declared with, wherever the task is (list,
schedule, worker); that in turn needs that there is only one task per
operation, or a second one would be counted against the same row; and that
needs that a task is never created for an operation which has one already,
which follows from `done`: the successor of a task is created by the step that
ends the task. `InStep` is the conjunction of these: `TypeOK`, `OneTaskPerOp`,
`TasksInStep` (what each task knows about its row) and `OpsInStep` (what each
row knows about its tasks). The proof has one lemma per action and per part.
`NothingForgotten` is proved on top of it with an invariant of its own, and
the refinement uses `InStep` to see that `Work`, `Return` and
`MarkOperationFailed` happen in states that the lifecycle allows.

`AcmeOrderProofs` proves, for any finite non-empty set of domains and any
number of retries (`AcmeAssumption`), that `Consistent` is inductive
(`AlwaysConsistent`), and from it `AcmeTypeCorrect`, `StoredCertificateFits`,
`CertificateIssuedOnce`, `FilesBeforeAnswers`, `AnswersAreKnown`.
`Consistent` adds to the types: how many keys and orders the retries that are
left allow (`Counted`), what a body holds in which stage (`StepInStage`), that
key, CSR, certificate and the CA's records are about one key from the moment an
order can be finalized (`KeysAgree`), and that what the CA was told of is
covered by files and rows (`OrderAgrees`). A stored certificate for an older
key, for example, is only excluded because a key is made in the first stage
and nothing is issued before the last; that needs the stage in the invariant.
The proof has one case per action and one step per conjunct.

It also proves `OrderImplementsStage`: `AcmeOrder` implements `IssueStage`,
with the certificate of the stage mapped to the one that the CA has issued for
the row's order. Each action of the tasks is one of the stage's or leaves its
variables alone; that a key is made only while nothing is issued, and that what
is stored is what was issued, come from `Consistent`.

`AcmeUsersProofs` proves, for any finite set of routes and any numbers of
accounts, workers and routes per account (`UsersAssumption`),
`UsersTypeCorrect`, `RoomIsAlwaysHeld` and from it `NeverManyTooMany`. The bound of `FewTooMany` is not inductive: a task that has
counted an account and found room takes it whatever has happened since.
`RoomIsHeld` counts those tasks in. A task comes to hold room only when the
routes that it counts are fewer than `MaxRoutes`, and the other tasks that hold
it are fewer than the workers; taking the room turns a holder into a route, so
the sum stays.

`NeverManySpareAccounts` bounds the accounts with room. A task registers one
only after it has found every account that it has read full, and a full one
stays full (`OldCounts`): all accounts with room are younger than its read.
`BlindToOne` makes a bound of that: among any `n` of the accounts with room
there is one that at most `Workers - n` of the busy tasks have not read. The
task that saves a new account had read none of the others with room and is not
busy any more: one account more, one blind task fewer. With all accounts with
room as the `n`, that is the bound.

`RenewalTasksProofs` holds what ALB and CDN renewals share, for any pipeline
that `TasksAssumption` allows (`mark_complete` is the last stage and occurs
once): each step of `RenewalTasks` keeps the types, keeps every linked row's
certificate and is a step of the lifecycle. A second part is about rows and
dates. `DateStep` says what any step does to expiry, horizon and running
operations, `IssueStep` and `RowStep` what it does to rows and IAM; from them
follow that an operation alone is the `Latest` to expire, that its certificate
is not due (`FreshOps`), and, where nothing is imported, `RowsInv`: the
certificate of an operation on its way is in IAM (`InIam`), and what
`delete_old_certificate` has read is another row's (`SeenByDelete`).

`AlbRenewalProofs` and `CdnRenewalProofs` add the steps of their own. For any
sets of operations, rows and environments and any `MaxRetries`, `MaxDay` and
`MaxEdits` they prove `AlbTypeCorrect`, `AlbLinkedRowsHaveCerts`,
`AlbImportedOnce`, `AlbImplementsLifecycle`, and `CdnTypeCorrect`,
`CdnEditsAreKept`, `CdnLinkedRowsHaveCerts`, `CdnImplementsLifecycle`.
`EditsAreKept` needs that an operation whose ETag is still current has read
the settings that are there: then what it writes back undoes nothing.

`CdnRenewalProofs` also proves `CdnAlwaysServed`, `CdnSuccessRenews`,
`CdnSuccessServesFresh` and `CdnSuccessRetires`. A single operation's
certificate is in the config from the accepted update on (`Associated`);
`wait_for_distribution` succeeds only when it is on every edge
(`Everywhere`); and `delete_old_certificate` deletes another row's. The wait is
what the argument turns on: without it the edges would still need what is
deleted. Where operations overlap, what is left is that config and edges have
some certificate that is not due (`FreshViewer`, `FreshEdges`), which is all
that `SuccessServesFresh` claims.

`AlbServedProofs` proves that the route is served at every moment
(`AlbAlwaysServed`), without backports and where the route is `Calm`: its
operations do not overlap, whatever IAM deletes and whichever answers are lost;
or they overlap, no answer is lost and IAM keeps what is in use. `Served` is
not inductive. `ServedInv` adds why: the certificate of an operation on its way
is in IAM and, from `associate_certificate` on, on the listener
(`OnListener`), because nobody else can find it (`Hidden`): the others look at
linked rows, and the operation links its own only in `remove_old_certificate`
(`LinkedLate`). After that, where operations do not overlap, the operation
itself could take its own certificate for the old one; it does not because its
row expires after all others, so that position 1 is another row's.
`AlbPreviousExists` says that there is a position 1 when it is read, with
overlap as well: rows are linked for good, and among any of them one is the
newest because none expires after the last that was issued (`NewestExists`).
`AlbSuccessServesFresh` adds the dates: the certificate
that a `Calm` route is left with is not due. `AlbSuccessRenews` follows where
every row has its arn: `alb_unknown_arn` shows that it fails without.

That nothing dangles is IAM's own doing where it keeps what is in use, and no
theorem is stated about that. Where IAM deletes whatever it is told to, the two
tasks must agree on the old certificate, and `AlbNoneDangles` shows that they
do, without overlap and backports.
`remove_old_certificate` takes position 0 before the new row is linked,
`delete_old_certificate` position 1 after it; `OldRows` says that both are the
newest of the older rows, and that the ones before it are off the listener.
`AlbSuccessRetires` is the same argument carried to the end.

With backports the rows' order is not enough, as an imported row may name the
certificate of an operation. What remains is that `remove_old_certificate`
compares with its own arn. `BackportInv` proves with that, for any number of
imports and manual certificates, that a route whose operations do not overlap
is served if IAM keeps what is in use (`AlbServedWithBackports`), and that its
successes leave a certificate that is not due (`AlbBackportsServeFresh`) and
their own (`AlbBackportsRenew`). The hypotheses are needed: in `alb_import_twice`
the last step is told to delete the new certificate, and only IAM refuses.

The hypotheses of these theorems, which are about the route and not about the
code:

| Hypothesis | Why |
|---|---|
| `~RunBackports` | see above; `backport_cert` imports only what another process has put on the listener |
| `Calm`, `Alone`, `CalmEnvironments`, `CarefulEnvironments` | `alb_retry_overlap`, and two overlapping operations with an IAM that deletes in use, break the property without; `CalmEnvironments` holds in run `alb`, `CarefulEnvironments` in `alb_backports` |
| `Arnless = {}`, `Nameless = {}` | `alb_unknown_arn`; a certificate without name is not deleted (`iam.py`) |
| `NoTies` | of two first rows that expire at the same moment, both are newest and only one is removed and deleted. Each row has a certificate of its own, issued at a time of its own |

`SchemaUpgradeProofs` proves, for any number of builds, downgrades and
certificates and any versions among the seven revisions,
`SchemaTypeCorrect`, `SchemaFollows`, `UpgradeReachesBoth` and
`WorkerFindsItsSchema`. Two arguments meet in its invariant `IInv`. The run
that holds a database's transaction finds there what it has read
(`HeldIsFresh`), so that a commit applies exactly the revisions between the
two, and `UpgradeMakesSchema` and `DowngradeMakesSchema` say what that makes of
the tables. And a revision never goes below the head that a run has passed
(`PassedIsDone`), because only a downgrade lowers it, and a downgrade runs
alone and with the worker stopped (`DowngradesAlone`). What is left is which
head that was. A build's app, and the task that has its number, can be another
build's, but only of one that has pushed since (`AppIsYoung`, `TasksAreYoung`):
the app a build finds is never older than `oldest` says, a delete takes the
tasks along with the app, and a task that is added gets a number of its own.
So what a build takes for done has reached `oldest[b]` (`UpgradesDone`), and
that is still so when its worker runs (`WorkerIsOld`). `CopyingLeavesNone` proves
`OldRowsAreCopied` on top: a run that is about to commit the copying revision
has copied every row that did not come late (`CopyIsWhole`).

Only model-checked: `EveryOperationEnds` and `EveryFailureIsAlerted` of the
queue, which are liveness properties (TLAPS 1.4.5 does not handle `ENABLED` and
so no fairness), and `NoDangling` where operations overlap. Every other
invariant and action property of the passing runs is stated by a theorem, some
of them under the hypotheses above. The properties of the other five runs fail. No
recursive operators are used.

## Not modelled

The text of mails and logs, key material and PEM parsing, environment parsing,
AWS clients, the connection pool, Docker, the jobs of the CI pipeline that do
not deploy, `run_migrations_offline`, which prints SQL, and tests.
`config.py` and its like keep no state that changes while the worker runs:
the settings that matter are constants. Two clocks of
different machines are not modelled: there is one worker process.
A route that starts without any certificate row is not an initial state of
`RenewalTasks` (it is due, and its pipeline fails at `certificates[0]`).

## Plan

1. Done: the modules above; proofs of every safety property that a passing run
   checks, three implementations of `OperationLifecycle` and one of
   `IssueStage`.
2. Next: an invariant for ALB operations that overlap while answers are lost,
   to say in a theorem exactly which retries `alb_retry_overlap` depends on;
   and the fewest hypotheses for `SuccessRetires` with backports, which fails
   when a certificate is imported twice.
