------------------------- MODULE SchemaUpgradeProofs -------------------------
(***************************************************************************)
(* Proofs about SchemaUpgrade: that each database is what its revision     *)
(* says, how far an upgrade that a build takes for done has brought both,  *)
(* and what a worker then finds, for any number of builds, downgrades and  *)
(* certificates, and any versions; and that the copying of the domain      *)
(* broker's rows leaves none of them out.                                  *)
(*                                                                         *)
(* A run of alembic that has changed a database keeps others from changing *)
(* it, so what it has read there is still so when it commits.  Revisions   *)
(* only grow while no downgrade runs, and a downgrade runs alone.  And     *)
(* whatever app or task a build meets under the name and the number that   *)
(* it goes by has been pushed since its own push, or is its own.           *)
(***************************************************************************)
EXTENDS SchemaUpgrade, TLAPS

-----------------------------------------------------------------------------
(* The revisions                                                           *)

(* No two revisions add the same, and none adds what the first one drops.  *)
LEMMA AddsValues ==
  ASSUME NEW db \in Databases
  PROVE  /\ Adds(db)[1] = IF db = "cdn" THEN {"idx_routes_instance_id"} ELSE {}
         /\ Adds(db)[2] = OperationModels /\ Adds(db)[3] = AcmeUsersTable
         /\ Adds(db)[4] = PrivateKeyAndCsr /\ Adds(db)[5] = ChallengesAndOrder
         /\ Adds(db)[6] = CertificateMetadata /\ Adds(db)[7] = {}
BY DEF Adds

LEMMA Origins ==
  ASSUME NEW db \in Databases, NEW r \in 1..7, NEW s \in 1..7, r # s
  PROVE  Adds(db)[r] \cap Adds(db)[s] = {}
<1>1. r = 1 \/ r = 2 \/ r = 3 \/ r = 4 \/ r = 5 \/ r = 6 \/ r = 7
  OBVIOUS
<1>2. s = 1 \/ s = 2 \/ s = 3 \/ s = 4 \/ s = 5 \/ s = 6 \/ s = 7
  OBVIOUS
<1> USE AddsValues
        DEF OperationModels, AcmeUsersTable, PrivateKeyAndCsr, ChallengesAndOrder,
            CertificateMetadata
<1>3. CASE r = 1
  BY <1>2, <1>3
<1>4. CASE r = 2
  BY <1>2, <1>4
<1>5. CASE r = 3
  BY <1>2, <1>5
<1>6. CASE r = 4
  BY <1>2, <1>6
<1>7. CASE r = 5
  BY <1>2, <1>7
<1>8. CASE r = 6
  BY <1>2, <1>8
<1>9. CASE r = 7
  BY <1>2, <1>9
<1>10. QED
  BY <1>1, <1>3, <1>4, <1>5, <1>6, <1>7, <1>8, <1>9

LEMMA NotAdded ==
  ASSUME NEW db \in Databases, NEW r \in 1..7
  PROVE  "uix_routes_instance_id" \notin Adds(db)[r]
<1>1. r = 1 \/ r = 2 \/ r = 3 \/ r = 4 \/ r = 5 \/ r = 6 \/ r = 7
  OBVIOUS
<1>2. QED
  BY <1>1, AddsValues DEF OperationModels, AcmeUsersTable, PrivateKeyAndCsr, ChallengesAndOrder,
                          CertificateMetadata

(* What an upgrade or a downgrade makes of a schema is the target's.       *)
LEMMA UpgradeMakesSchema ==
  ASSUME NEW db \in Databases, NEW f \in 0..7, NEW g \in 0..7, f < g
  PROVE  (Schema(db, f) \ DroppedBy(db, (f + 1)..g)) \cup AddedBy(db, (f + 1)..g)
         = Schema(db, g)
<1> DEFINE uix == "uix_routes_instance_id"
<1>1. AddedBy(db, 1..g) = AddedBy(db, 1..f) \cup AddedBy(db, (f + 1)..g)
  <2>1. 1..g = (1..f) \cup ((f + 1)..g)
    OBVIOUS
  <2>2. QED
    BY <2>1 DEF AddedBy
<1>2. uix \notin AddedBy(db, 1..f)
  <2>1. \A r \in 1..f : r \in 1..7
    OBVIOUS
  <2>2. QED
    BY <2>1, NotAdded DEF AddedBy
<1>3. db = "cdn" /\ f = 0 => DroppedBy(db, (f + 1)..g) = {uix}
  BY DEF DroppedBy
<1>4. ~(db = "cdn" /\ f = 0) => DroppedBy(db, (f + 1)..g) = {}
  BY DEF DroppedBy
<1>5. g # 0
  OBVIOUS
<1>6. QED
  BY <1>1, <1>2, <1>3, <1>4, <1>5 DEF Schema

LEMMA DowngradeMakesSchema ==
  ASSUME NEW db \in Databases, NEW f \in 0..7, NEW g \in 0..7, g < f
  PROVE  (Schema(db, f) \ AddedBy(db, (g + 1)..f)) \cup DroppedBy(db, (g + 1)..f)
         = Schema(db, g)
<1> DEFINE uix == "uix_routes_instance_id"
<1>1. AddedBy(db, 1..f) = AddedBy(db, 1..g) \cup AddedBy(db, (g + 1)..f)
  <2>1. 1..f = (1..g) \cup ((g + 1)..f)
    OBVIOUS
  <2>2. QED
    BY <2>1 DEF AddedBy
<1>2. AddedBy(db, 1..g) \cap AddedBy(db, (g + 1)..f) = {}
  <2>1. \A r \in 1..g, s \in (g + 1)..f : r \in 1..7 /\ s \in 1..7 /\ r # s
    OBVIOUS
  <2>2. \A r \in 1..g, s \in (g + 1)..f : Adds(db)[r] \cap Adds(db)[s] = {}
    BY <2>1, Origins
  <2>3. QED
    BY <2>2 DEF AddedBy
<1>3. db = "cdn" /\ g = 0 => DroppedBy(db, (g + 1)..f) = {uix}
  BY DEF DroppedBy
<1>4. ~(db = "cdn" /\ g = 0) => DroppedBy(db, (g + 1)..f) = {}
  BY DEF DroppedBy
<1>5. f # 0
  OBVIOUS
<1>6. QED
  BY <1>1, <1>2, <1>3, <1>4, <1>5 DEF Schema

(* A later schema has what the models of an earlier version name.          *)
LEMMA LaterFits ==
  ASSUME NEW db \in Databases, NEW v \in 0..7, NEW r \in 0..7, r >= v
  PROVE  Models(db, v) \subseteq Schema(db, r)
<1>1. 2..v \subseteq 1..r
  OBVIOUS
<1>2. QED
  BY <1>1 DEF Models, Schema, AddedBy

-----------------------------------------------------------------------------
(* The invariant                                                           *)

Running(t) == task[t] = "running"

(* The runs for which db is still to be migrated, is migrated and not      *)
(* committed, and is committed.                                            *)
Ahead(t, db) ==
  at[t] \in {Step("read", db), Step("migrate", db)}
            \cup (IF db = "domain" THEN {Step("read", "cdn"), Step("migrate", "cdn")} ELSE {})
Over(t, db) ==
  at[t] \in {Step("end", "domain")}
            \cup (IF db = "cdn" THEN {Step("commit", "domain")} ELSE {})

(* A run that does not go on is where the next one begins.                 *)
Places ==
  \A t \in Runs :
    /\ \/ \E p \in {"read", "migrate", "commit"}, db \in Databases : at[t] = Step(p, db)
       \/ at[t] = Step("end", "domain")
    /\ ~Running(t) => at[t] = Step("read", "cdn")

(* A transaction belongs to a run that goes on, between its migration and  *)
(* its commit of the database.                                             *)
HoldersRun ==
  \A db \in Databases, t \in Runs :
    holds[db] = t => Running(t) /\ ~Ahead(t, db) /\ ~Over(t, db)

(* What a run has read lets it go on.                                      *)
ReadsFit ==
  \A t \in Runs, db \in Databases : at[t] = Step("migrate", db) =>
    IF t \in Builds THEN from[t][db] <= head[t] ELSE from[t][db] > 0

(* What the holder has read is still so.                                   *)
HeldIsFresh ==
  \A db \in Databases, t \in Runs : holds[db] = t =>
    /\ from[t][db] = rev[db]
    /\ IF t \in Builds THEN from[t][db] < head[t] ELSE from[t][db] > 0

(* A build that has passed a database has it in its transaction, or finds  *)
(* it at the head that it runs, or above.                                  *)
ReadIsOld ==
  \A b \in Builds, db \in Databases :
    Running(b) /\ at[b] = Step("migrate", db) => from[b][db] <= rev[db]
PassedIsDone ==
  \A b \in Builds, db \in Databases :
    Running(b) /\ ~Ahead(b, db) => holds[db] = b \/ rev[db] >= head[b]

(* A downgrade runs alone.                                                 *)
DowngradesAlone ==
  \A d \in Downgrades : Running(d) =>
    /\ worker = Nobody
    /\ \A b \in Builds : ~Deploying(b)
    /\ \A t \in Runs : Running(t) => t = d

(* The app that a build finds is one that was pushed since its own push,   *)
(* and so is what the task runs that it polls.                             *)
AppIsYoung ==
  \A b \in Builds :
    job[b] \in {"pushed", "upgrading"} /\ app # 0 => app >= oldest[b]
TasksAreYoung ==
  \A b \in Builds :
    job[b] = "upgrading" /\ Listed(b) /\ Status(b) = "running" =>
      head[tasks[id[b]]] >= oldest[b]

Reaches(v) == \A db \in Databases : rev[db] >= v

(* What a build takes for done, or will when it polls, is done.            *)
UpgradesDone ==
  \A b \in Builds :
    \/ job[b] = "upgrading" /\ Listed(b) /\ Status(b) = "succeeded"
    \/ job[b] \in {"succeeded", "upgraded"}
    => Reaches(oldest[b])

WorkerIsOld == worker # Nobody => job[worker] = "deployed" /\ Reaches(oldest[worker])

AppInv == AppIsYoung /\ TasksAreYoung /\ UpgradesDone /\ WorkerIsOld

(* SchemaFollowsRevision, for the function as a whole.                    *)
SchemaIs == objects = [db \in Databases |-> Schema(db, rev[db])]

Types ==
  /\ job \in [Builds -> {"waiting", "stopped", "pushed", "upgrading", "succeeded",
                         "unsuccessful", "upgraded", "deployed", "failed"}]
  /\ version \in [Builds -> {0} \cup Versions]
  /\ oldest \in [Builds -> {0} \cup Versions]
  /\ worker \in Builds \cup {Nobody}
  /\ app \in {0} \cup Versions /\ tasks \in Seq(Builds)
  /\ id \in [Builds -> Nat] /\ head \in [Runs -> {0} \cup Versions]
  /\ task \in [Runs -> {"none", "running", "succeeded", "failed"}]
  /\ at \in [Runs -> {"read", "migrate", "commit", "end"} \X Databases]
  /\ from \in [Runs -> [Databases -> 0..7]]
  /\ holds \in [Databases -> Runs \cup {Nobody}]
  /\ rev \in [Databases -> 0..7]
  /\ rows \in [Certificates -> {"none", "not copied", "copied"}]
  /\ copied \in [Runs -> SUBSET Certificates] /\ late \subseteq Certificates

IInv ==
  /\ Types /\ Places /\ HoldersRun /\ ReadsFit /\ HeldIsFresh /\ ReadIsOld
  /\ PassedIsDone /\ DowngradesAlone /\ AppInv /\ SchemaIs

(* The parts that the job and the worker do not matter to.                 *)
RunInv ==
  /\ Places /\ HoldersRun /\ ReadsFit /\ HeldIsFresh /\ ReadIsOld /\ PassedIsDone
  /\ SchemaIs

LEMMA Disjoint ==
  /\ Builds \cap Downgrades = {} /\ Nobody \notin Runs /\ Builds \subseteq Runs
  /\ Downgrades \subseteq Runs /\ Versions \subseteq 1..7
BY SchemaAssumption DEF SchemaAssumption, Runs

LEMMA Numbers ==
  ASSUME IInv
  PROVE  /\ \A db \in Databases : rev[db] \in 0..7 /\ rev[db] \in Nat
         /\ \A t \in Runs, db \in Databases : from[t][db] \in 0..7 /\ from[t][db] \in Nat
         /\ \A t \in Runs : head[t] \in 0..7 /\ head[t] \in Nat
         /\ \A b \in Builds : head[b] \in 0..7 /\ head[b] \in Nat
         /\ \A b \in Builds : version[b] \in 0..7 /\ version[b] \in Nat
         /\ \A b \in Builds : oldest[b] \in 0..7 /\ oldest[b] \in Nat
         /\ app \in Nat
<1>1. /\ \A db \in Databases : rev[db] \in 0..7
      /\ \A t \in Runs, db \in Databases : from[t][db] \in 0..7
      /\ \A t \in Runs : head[t] \in {0} \cup Versions
      /\ \A b \in Builds : version[b] \in {0} \cup Versions /\ oldest[b] \in {0} \cup Versions
      /\ app \in {0} \cup Versions
  BY DEF IInv, Types
<1>2. \A n \in 0..7 : n \in Nat
  OBVIOUS
<1>3. \A v \in {0} \cup Versions : v \in 0..7
  BY Disjoint
<1>4. \A b \in Builds : b \in Runs
  BY Disjoint
<1>5. QED
  BY <1>1, <1>2, <1>3, <1>4

(* The task that a build polls is a build's, be it another one's.          *)
LEMMA ListedIsRun ==
  ASSUME IInv, NEW b \in Builds, Listed(b)
  PROVE  tasks[id[b]] \in Builds /\ tasks[id[b]] \in Runs
<1>1. tasks \in Seq(Builds) /\ id[b] \in 1..Len(tasks)
  BY DEF IInv, Types, Listed
<1>2. tasks[id[b]] \in Builds
  BY <1>1
<1>3. QED
  BY <1>2, Disjoint

LEMMA SchemaStarts == ASSUME Init PROVE IInv
<1>1. Types
  BY SchemaAssumption DEF SchemaAssumption, Init, Types, Runs, Databases
<1>2. Places /\ HoldersRun /\ ReadsFit /\ HeldIsFresh
  BY Disjoint DEF Init, Places, HoldersRun, ReadsFit, HeldIsFresh, Running, Step, Databases
<1>3. ReadIsOld /\ PassedIsDone /\ DowngradesAlone
  BY Disjoint DEF Init, ReadIsOld, PassedIsDone, DowngradesAlone, Running
<1>4. AppInv
  BY DEF Init, AppInv, AppIsYoung, TasksAreYoung, UpgradesDone, WorkerIsOld
<1>5. SchemaIs
  <2>1. PICK r \in FirstRevisions :
          /\ rev = [db \in Databases |-> r]
          /\ objects = [db \in Databases |-> Schema(db, r)]
    BY DEF Init
  <2>2. QED
    BY <2>1 DEF SchemaIs
<1>6. QED
  BY <1>1, <1>2, <1>3, <1>4, <1>5 DEF IInv

-----------------------------------------------------------------------------
(* The job                                                                 *)

(* The steps of a build that no run of alembic sees.                       *)
JobStep(b) ==
  \/ \E v \in Versions : StopApps(b, v)
  \/ PushApp(b) \/ PollTask(b) \/ DeleteApp(b) \/ JobFails(b) \/ Deploy(b)

LEMMA JobSteps ==
  ASSUME NEW b \in Builds, JobStep(b)
  PROVE  UNCHANGED <<task, runVars, dbVars>>
BY DEF JobStep, StopApps, PushApp, PollTask, DeleteApp, JobFails, Fails, Deploy

(* Each keeps the others where they are.                                   *)
LEMMA JobTypes ==
  ASSUME IInv, NEW b \in Builds, JobStep(b)
  PROVE  /\ Types'
         /\ \A c \in Builds : c # b => job'[c] = job[c] /\ id'[c] = id[c]
<1>1. UNCHANGED <<task, runVars, dbVars>>
  BY JobSteps
<1> USE DEF Becomes
<1>2. CASE \E v \in Versions : StopApps(b, v)
  BY <1>1, <1>2 DEF StopApps, IInv, Types, runVars, dbVars
<1>3. CASE PushApp(b)
  <2>1. job' \in [Builds -> {"waiting", "stopped", "pushed", "upgrading", "succeeded",
                             "unsuccessful", "upgraded", "deployed", "failed"}]
    BY <1>3 DEF PushApp, IInv, Types
  <2>2. app' \in {0} \cup Versions /\ oldest' \in [Builds -> {0} \cup Versions]
    BY <1>3 DEF PushApp, IInv, Types
  <2>3. QED
    BY <1>1, <1>3, <2>1, <2>2 DEF PushApp, IInv, Types, runVars, dbVars
<1>4. CASE PollTask(b)
  BY <1>1, <1>4 DEF PollTask, IInv, Types, runVars, dbVars
<1>5. CASE DeleteApp(b)
  <2>1. /\ app' = 0 /\ tasks' = <<>> /\ worker' = worker
        /\ job' \in {[job EXCEPT ![b] = "upgraded"], [job EXCEPT ![b] = "failed"]}
        /\ version' \in {version, [version EXCEPT ![b] = 0]}
        /\ oldest' \in {oldest, [oldest EXCEPT ![b] = 0]}
        /\ id' \in {id, [id EXCEPT ![b] = 0]}
    BY <1>5 DEF DeleteApp, Fails
  <2>2. /\ job' \in [Builds -> {"waiting", "stopped", "pushed", "upgrading", "succeeded",
                              "unsuccessful", "upgraded", "deployed", "failed"}]
        /\ version' \in [Builds -> {0} \cup Versions]
        /\ \A c \in Builds : c # b => job'[c] = job[c]
    BY <2>1 DEF IInv, Types
  <2>3. /\ oldest' \in [Builds -> {0} \cup Versions] /\ id' \in [Builds -> Nat]
        /\ \A c \in Builds : c # b => id'[c] = id[c]
    <3>1. id \in [Builds -> Nat] /\ oldest \in [Builds -> {0} \cup Versions]
      BY DEF IInv, Types
    <3>2. oldest' \in [Builds -> {0} \cup Versions]
      BY ONLY <2>1, <3>1
    <3>3. id' \in [Builds -> Nat] /\ \A c \in Builds : c # b => id'[c] = id[c]
      <4>1. CASE id' = id
        BY ONLY <3>1, <4>1
      <4>2. CASE id' = [id EXCEPT ![b] = 0]
        BY ONLY <3>1, <4>2
      <4>3. QED
        BY <2>1, <4>1, <4>2
    <3>4. QED
      BY <3>2, <3>3
  <2>4. tasks' \in Seq(Builds) /\ app' \in {0} \cup Versions
    <3>1. <<>> \in Seq(Builds)
      OBVIOUS
    <3>2. QED
      BY ONLY <2>1, <3>1
  <2>5. QED
    BY <1>1, <2>1, <2>2, <2>3, <2>4 DEF IInv, Types, runVars, dbVars
<1>6. CASE JobFails(b)
  BY <1>1, <1>6 DEF JobFails, Fails, IInv, Types, runVars, dbVars
<1>7. CASE Deploy(b)
  BY <1>1, <1>7 DEF Deploy, IInv, Types, runVars, dbVars
<1>8. QED
  BY <1>2, <1>3, <1>4, <1>5, <1>6, <1>7 DEF JobStep

(* A push takes the others' bound down to what it pushes.                  *)
LEMMA PushKeeps ==
  ASSUME IInv, NEW b \in Builds, PushApp(b) PROVE AppInv'
<1>1. /\ job[b] = "stopped" /\ job' = [job EXCEPT ![b] = "pushed"] /\ app' = version[b]
      /\ oldest' = [c \in Builds |->
           IF \/ c = b
              \/ job[c] \in {"pushed", "upgrading"} /\ version[b] < oldest[c]
           THEN version[b] ELSE oldest[c]]
      /\ UNCHANGED <<worker, tasks, id, head, task, rev>>
  BY DEF PushApp, Becomes, runVars, dbVars
<1>2. /\ job'[b] = "pushed" /\ oldest'[b] = version[b]
      /\ \A c \in Builds : c # b => job'[c] = job[c] /\ oldest'[c] \in {oldest[c], version[b]}
      /\ \A c \in Builds : c # b /\ job[c] \notin {"pushed", "upgrading"} => oldest'[c] = oldest[c]
  BY <1>1 DEF IInv, Types
<1>3. \A c \in Builds : c # b => oldest'[c] <= oldest[c]
  BY <1>1, Numbers
<1>4. \A c \in Builds : c # b /\ job[c] \in {"pushed", "upgrading"} => version[b] >= oldest'[c]
  BY <1>1, Numbers
<1>5. \A c \in Builds : oldest'[c] \in Nat /\ oldest[c] \in Nat
  BY <1>2, Numbers
<1>6. AppIsYoung'
  <2>1. version[b] >= oldest'[b]
    BY <1>2, Numbers
  <2>2. QED
    BY <1>1, <1>2, <1>4, <2>1 DEF AppIsYoung
<1>7. TasksAreYoung'
  <2> SUFFICES ASSUME NEW c \in Builds, job'[c] = "upgrading", Listed(c), Status(c) = "running"
               PROVE  head[tasks[id[c]]] >= oldest'[c]
    BY <1>1 DEF TasksAreYoung, Listed, Status
  <2>1. c # b /\ head[tasks[id[c]]] >= oldest[c]
    BY <1>2 DEF IInv, AppInv, TasksAreYoung
  <2>2. head[tasks[id[c]]] \in Nat
    BY ListedIsRun, Numbers
  <2>3. QED
    BY <1>3, <1>5, <2>1, <2>2
<1>8. \A c \in Builds : c # b /\ Reaches(oldest[c]) => Reaches(oldest'[c])
  BY <1>3, <1>5, Numbers DEF Reaches
<1>9. UpgradesDone'
  <2> SUFFICES ASSUME NEW c \in Builds,
                      \/ job'[c] = "upgrading" /\ Listed(c) /\ Status(c) = "succeeded"
                      \/ job'[c] \in {"succeeded", "upgraded"}
               PROVE  Reaches(oldest'[c])
    BY <1>1 DEF UpgradesDone, Reaches, Listed, Status
  <2>1. c # b
    BY <1>2
  <2>2. Reaches(oldest[c])
    BY <1>2, <2>1 DEF IInv, AppInv, UpgradesDone
  <2>3. QED
    BY <1>8, <2>1, <2>2
<1>10. WorkerIsOld'
  BY <1>1, <1>2 DEF IInv, Types, AppInv, WorkerIsOld, Reaches
<1>11. QED
  BY <1>6, <1>7, <1>9, <1>10 DEF AppInv

(* A build that ends one way or another leaves the others their app, their *)
(* tasks and their bounds, or no app and no tasks.                         *)
LEMMA LeavesKeep ==
  ASSUME IInv, NEW b \in Builds, UNCHANGED <<task, head, rev>>,
         job'[b] \notin {"pushed", "upgrading"},
         \A c \in Builds : c # b => job'[c] = job[c] /\ id'[c] = id[c] /\ oldest'[c] = oldest[c],
         \/ UNCHANGED <<app, tasks>>
         \/ app' = 0 /\ tasks' = <<>>,
         job'[b] \in {"succeeded", "upgraded"} => Reaches(oldest'[b]),
         \/ worker' = Nobody
         \/ worker' = worker /\ worker # b
         \/ worker' = b /\ job'[b] = "deployed" /\ Reaches(oldest'[b])
  PROVE  AppInv'
<1>1. \A c \in Builds : Listed(c)' /\ c # b =>
        Listed(c) /\ tasks' = tasks /\ tasks'[id'[c]] = tasks[id[c]]
  BY DEF Listed
<1>2. AppIsYoung'
  BY DEF IInv, AppInv, AppIsYoung
<1>3. TasksAreYoung'
  BY <1>1 DEF IInv, AppInv, TasksAreYoung, Status
<1>4. UpgradesDone'
  <2> SUFFICES ASSUME NEW c \in Builds,
                      \/ job'[c] = "upgrading" /\ Listed(c)' /\ Status(c)' = "succeeded"
                      \/ job'[c] \in {"succeeded", "upgraded"}
               PROVE  Reaches(oldest'[c])
    BY DEF UpgradesDone, Reaches
  <2>1. CASE c = b
    BY <2>1
  <2>2. CASE c # b
    <3>1. \/ job[c] = "upgrading" /\ Listed(c) /\ Status(c) = "succeeded"
          \/ job[c] \in {"succeeded", "upgraded"}
      BY <1>1, <2>2 DEF Status
    <3>2. QED
      BY <2>2, <3>1 DEF IInv, AppInv, UpgradesDone
  <2>3. QED
    BY <2>1, <2>2
<1>5. WorkerIsOld'
  <2>1. CASE worker' = worker /\ worker # b /\ worker # Nobody
    <3>1. worker \in Builds /\ job[worker] = "deployed" /\ Reaches(oldest[worker])
      BY <2>1 DEF IInv, Types, AppInv, WorkerIsOld
    <3>2. QED
      BY <2>1, <3>1 DEF WorkerIsOld, Reaches
  <2>2. QED
    BY <2>1 DEF WorkerIsOld, Reaches
<1>6. QED
  BY <1>2, <1>3, <1>4, <1>5 DEF AppInv

LEMMA JobAppKeeps ==
  ASSUME IInv, NEW b \in Builds, JobStep(b) PROVE AppInv'
<1>1. UNCHANGED <<task, head, rev>>
  BY JobSteps DEF runVars, dbVars
<1>2. /\ job \in [Builds -> {"waiting", "stopped", "pushed", "upgrading", "succeeded",
                             "unsuccessful", "upgraded", "deployed", "failed"}]
      /\ oldest \in [Builds -> {0} \cup Versions] /\ id \in [Builds -> Nat]
  BY DEF IInv, Types
<1>3. Deploying(b) => worker # b
  BY Disjoint DEF IInv, Types, AppInv, WorkerIsOld, Deploying
<1> USE DEF Becomes
<1>4. CASE \E v \in Versions : StopApps(b, v)
  <2>1. /\ job' = [job EXCEPT ![b] = "stopped"] /\ worker' = Nobody
        /\ UNCHANGED <<app, tasks, id, oldest>>
    BY <1>4 DEF StopApps
  <2>2. job'[b] = "stopped" /\ \A c \in Builds : c # b => job'[c] = job[c]
    BY <1>2, <2>1
  <2>3. QED
    BY <1>1, <2>1, <2>2, LeavesKeep
<1>5. CASE PushApp(b)
  BY <1>5, PushKeeps
<1>6. CASE PollTask(b)
  <2>1. /\ job[b] = "upgrading" /\ Listed(b)
        /\ job' = [job EXCEPT ![b] =
             IF Status(b) = "succeeded" THEN "succeeded" ELSE "unsuccessful"]
        /\ id' = [id EXCEPT ![b] = 0]
        /\ UNCHANGED <<worker, app, tasks, oldest>>
    BY <1>6 DEF PollTask
  <2>2. /\ job'[b] = IF Status(b) = "succeeded" THEN "succeeded" ELSE "unsuccessful"
        /\ \A c \in Builds : c # b => job'[c] = job[c] /\ id'[c] = id[c]
    BY <1>2, <2>1
  <2>3. Status(b) = "succeeded" => Reaches(oldest[b])
    BY <2>1 DEF IInv, AppInv, UpgradesDone
  <2>4. worker # b
    BY <1>3, <2>1 DEF Deploying
  <2>5. QED
    BY <1>1, <2>1, <2>2, <2>3, <2>4, LeavesKeep
<1>7. CASE DeleteApp(b)
  <2>1. app' = 0 /\ tasks' = <<>> /\ worker' = worker /\ job[b] \in {"succeeded", "unsuccessful"}
    BY <1>7 DEF DeleteApp
  <2>2. worker # b
    BY <1>3, <2>1 DEF Deploying
  <2>3. CASE job[b] = "succeeded"
    <3>1. job' = [job EXCEPT ![b] = "upgraded"] /\ UNCHANGED <<oldest, id>>
      BY <1>7, <2>3 DEF DeleteApp
    <3>2. job'[b] = "upgraded" /\ \A c \in Builds : c # b => job'[c] = job[c]
      BY <1>2, <3>1
    <3>3. Reaches(oldest[b])
      BY <2>3 DEF IInv, AppInv, UpgradesDone
    <3>4. QED
      BY <1>1, <2>1, <2>2, <3>1, <3>2, <3>3, LeavesKeep
  <2>4. CASE job[b] = "unsuccessful"
    <3>1. /\ job' = [job EXCEPT ![b] = "failed"] /\ oldest' = [oldest EXCEPT ![b] = 0]
          /\ id' = [id EXCEPT ![b] = 0]
      BY <1>7, <2>4 DEF DeleteApp, Fails
    <3>2. /\ job'[b] = "failed"
          /\ \A c \in Builds : c # b => job'[c] = job[c] /\ oldest'[c] = oldest[c] /\ id'[c] = id[c]
      BY <1>2, <3>1
    <3>3. QED
      BY <1>1, <2>1, <2>2, <3>2, LeavesKeep
  <2>5. QED
    BY <2>1, <2>3, <2>4
<1>8. CASE JobFails(b)
  <2>1. /\ Deploying(b) /\ UNCHANGED <<worker, app, tasks>>
        /\ job' = [job EXCEPT ![b] = "failed"] /\ oldest' = [oldest EXCEPT ![b] = 0]
        /\ id' = [id EXCEPT ![b] = 0]
    BY <1>8 DEF JobFails, Fails
  <2>2. /\ job'[b] = "failed"
        /\ \A c \in Builds : c # b => job'[c] = job[c] /\ oldest'[c] = oldest[c] /\ id'[c] = id[c]
    BY <1>2, <2>1
  <2>3. QED
    BY <1>1, <1>3, <2>1, <2>2, LeavesKeep
<1>9. CASE Deploy(b)
  <2>1. /\ job[b] = "upgraded" /\ job' = [job EXCEPT ![b] = "deployed"] /\ worker' = b
        /\ UNCHANGED <<app, tasks, id, oldest>>
    BY <1>9 DEF Deploy
  <2>2. job'[b] = "deployed" /\ \A c \in Builds : c # b => job'[c] = job[c]
    BY <1>2, <2>1
  <2>3. Reaches(oldest[b])
    BY <2>1 DEF IInv, AppInv, UpgradesDone
  <2>4. QED
    BY <1>1, <2>1, <2>2, <2>3, LeavesKeep
<1>10. QED
  BY <1>4, <1>5, <1>6, <1>7, <1>8, <1>9 DEF JobStep

LEMMA JobKeeps ==
  ASSUME IInv, NEW b \in Builds, JobStep(b) PROVE IInv'
<1>1. UNCHANGED <<task, runVars, dbVars>>
  BY JobSteps
<1>2. RunInv'
  BY <1>1 DEF IInv, RunInv, Places, HoldersRun, ReadsFit, HeldIsFresh, ReadIsOld, PassedIsDone,
              SchemaIs, Ahead, Over, Running, Target, runVars, dbVars
<1>3. DowngradesAlone'
  <2> SUFFICES ASSUME NEW d \in Downgrades, Running(d)'
               PROVE  FALSE
    BY DEF DowngradesAlone
  <2>1. Downgrading /\ ~Deploying(b)
    BY <1>1 DEF IInv, DowngradesAlone, Running, Downgrading
  <2>2. QED
    BY <2>1 DEF JobStep, StopApps, PushApp, PollTask, DeleteApp, JobFails, Deploy, Deploying
<1>4. QED
  BY <1>2, <1>3, JobTypes, JobAppKeeps DEF IInv, RunInv

(* A run of alembic begins, for a build or by hand.                        *)
LEMMA BeginKeeps ==
  ASSUME IInv, NEW t \in Runs, NEW h \in {0} \cup Versions, Begin(t, h),
         UNCHANGED <<at, from, copied, dbVars>>
  PROVE  /\ RunInv'
         /\ task' \in [Runs -> {"none", "running", "succeeded", "failed"}]
         /\ head' \in [Runs -> {0} \cup Versions]
         /\ task[t] = "none" /\ task'[t] = "running" /\ head'[t] = h
         /\ \A u \in Runs : u # t => task'[u] = task[u] /\ head'[u] = head[u]
<1>1. /\ task[t] = "none" /\ task' = [task EXCEPT ![t] = "running"]
      /\ head' = [head EXCEPT ![t] = h]
  BY DEF Begin
<1>2. /\ task'[t] = "running" /\ head'[t] = h
      /\ \A u \in Runs : u # t => task'[u] = task[u] /\ head'[u] = head[u]
      /\ task' \in [Runs -> {"none", "running", "succeeded", "failed"}]
      /\ head' \in [Runs -> {0} \cup Versions]
  BY <1>1 DEF IInv, Types
<1>3. at[t] = Step("read", "cdn")
  BY <1>1 DEF IInv, Places, Running
<1>4. \A db \in Databases : holds[db] # t
  BY <1>1 DEF IInv, HoldersRun, Running
<1>5. Places' /\ HoldersRun' /\ SchemaIs'
  BY <1>2 DEF IInv, Places, HoldersRun, SchemaIs, Running, Ahead, Over, dbVars
<1>6. ReadsFit' /\ HeldIsFresh'
  <2>1. \A db \in Databases : at[t] # Step("migrate", db)
    BY <1>3 DEF Step
  <2>2. QED
    BY <1>2, <1>4, <2>1 DEF IInv, ReadsFit, HeldIsFresh, dbVars
<1>7. Ahead(t, "cdn") /\ Ahead(t, "domain")
  BY <1>3 DEF Ahead
<1>8. ReadIsOld'
  <2> SUFFICES ASSUME NEW b \in Builds, NEW db \in Databases, at[b] = Step("migrate", db),
                      task'[b] = "running"
               PROVE  from[b][db] <= rev[db]
    BY DEF ReadIsOld, Running, dbVars
  <2>1. b # t
    BY <1>3 DEF Step
  <2>2. QED
    BY <1>2, <2>1, Disjoint DEF IInv, ReadIsOld, Running
<1>9. PassedIsDone'
  <2> SUFFICES ASSUME NEW b \in Builds, NEW db \in Databases, ~Ahead(b, db), task'[b] = "running"
               PROVE  holds[db] = b \/ rev[db] >= head'[b]
    BY DEF PassedIsDone, Running, Ahead, dbVars
  <2>1. b # t
    BY <1>7 DEF Databases
  <2>2. QED
    BY <1>2, <2>1, Disjoint DEF IInv, PassedIsDone, Running
<1>10. QED
  BY <1>1, <1>2, <1>5, <1>6, <1>8, <1>9 DEF RunInv

LEMMA RunTaskKeeps ==
  ASSUME IInv, NEW b \in Builds, RunTask(b) PROVE IInv'
<1>1. /\ job[b] = "pushed" /\ job' = [job EXCEPT ![b] = "upgrading"] /\ app # 0 /\ Begin(b, app)
      /\ tasks' = Append(tasks, b) /\ id' = [id EXCEPT ![b] = Len(tasks) + 1]
      /\ UNCHANGED <<version, worker, app, oldest, at, from, copied, dbVars>> /\ b \in Runs
  BY Disjoint DEF RunTask, Becomes
<1>2. app \in {0} \cup Versions /\ tasks \in Seq(Builds) /\ Len(tasks) \in Nat
  <2>1. app \in {0} \cup Versions /\ tasks \in Seq(Builds)
    BY DEF IInv, Types
  <2>2. QED
    BY <2>1
<1>3. /\ RunInv' /\ task[b] = "none" /\ task'[b] = "running" /\ head'[b] = app
      /\ task' \in [Runs -> {"none", "running", "succeeded", "failed"}]
      /\ head' \in [Runs -> {0} \cup Versions]
      /\ \A u \in Runs : u # b => task'[u] = task[u] /\ head'[u] = head[u]
  BY <1>1, <1>2, BeginKeeps
<1>4. /\ job'[b] = "upgrading" /\ id'[b] = Len(tasks) + 1
      /\ \A c \in Builds : c # b => job'[c] = job[c] /\ id'[c] = id[c]
  BY <1>1 DEF IInv, Types
<1>5. Types'
  <2>1. tasks' \in Seq(Builds)
    BY <1>1, <1>2
  <2>2. id' \in [Builds -> Nat]
    <3>1. Len(tasks) + 1 \in Nat
      BY <1>2
    <3>2. id \in [Builds -> Nat]
      BY DEF IInv, Types
    <3>3. QED
      BY ONLY <1>1, <3>1, <3>2
  <2>3. job' \in [Builds -> {"waiting", "stopped", "pushed", "upgrading", "succeeded",
                             "unsuccessful", "upgraded", "deployed", "failed"}]
    BY <1>1 DEF IInv, Types
  <2>4. QED
    BY <1>1, <1>3, <2>1, <2>2, <2>3 DEF IInv, Types, dbVars
<1>6. DowngradesAlone'
  <2>1. \A d \in Downgrades : ~Running(d) /\ ~Running(d)'
    BY <1>1, <1>3, Disjoint DEF IInv, DowngradesAlone, Deploying, Running
  <2>2. QED
    BY <2>1 DEF DowngradesAlone
<1>7. AppIsYoung'
  BY <1>1, <1>4 DEF IInv, AppInv, AppIsYoung
(* The task of a number that was not listed before is the new one.         *)
<1>8. \A c \in Builds : Listed(c)' /\ c # b =>
        tasks'[id'[c]] = b \/ (Listed(c) /\ tasks'[id'[c]] = tasks[id[c]])
  BY <1>1, <1>2, <1>4 DEF Listed
<1>9. tasks'[id'[b]] = b
  BY <1>1, <1>2, <1>4
<1>10. TasksAreYoung'
  <2> SUFFICES ASSUME NEW c \in Builds, job'[c] = "upgrading", Listed(c)', Status(c)' = "running"
               PROVE  head'[tasks'[id'[c]]] >= oldest[c]
    BY <1>1 DEF TasksAreYoung
  <2>1. CASE tasks'[id'[c]] = b
    BY <1>1, <1>3, <1>4, <2>1 DEF IInv, AppInv, AppIsYoung
  <2>2. CASE tasks'[id'[c]] # b
    <3>1. c # b /\ Listed(c) /\ tasks'[id'[c]] = tasks[id[c]]
      BY <1>8, <1>9, <2>2
    <3>2. tasks[id[c]] \in Runs /\ tasks[id[c]] # b
      BY <2>2, <3>1, ListedIsRun
    <3>3. Status(c) = "running" /\ head'[tasks[id[c]]] = head[tasks[id[c]]] /\ job[c] = "upgrading"
      BY <1>3, <1>4, <3>1, <3>2 DEF Status
    <3>4. QED
      BY <3>1, <3>3 DEF IInv, AppInv, TasksAreYoung
  <2>3. QED
    BY <2>1, <2>2
<1>11. UpgradesDone'
  <2> SUFFICES ASSUME NEW c \in Builds,
                      \/ job'[c] = "upgrading" /\ Listed(c)' /\ Status(c)' = "succeeded"
                      \/ job'[c] \in {"succeeded", "upgraded"}
               PROVE  Reaches(oldest[c])
    BY <1>1 DEF UpgradesDone, Reaches, dbVars
  <2>1. CASE job'[c] = "upgrading" /\ Listed(c)' /\ Status(c)' = "succeeded"
    <3>1. tasks'[id'[c]] # b
      BY <1>3, <2>1 DEF Status
    <3>2. c # b /\ Listed(c) /\ tasks'[id'[c]] = tasks[id[c]]
      BY <1>8, <1>9, <2>1, <3>1
    <3>3. tasks[id[c]] \in Runs /\ tasks[id[c]] # b
      BY <3>1, <3>2, ListedIsRun
    <3>4. Status(c) = "succeeded" /\ job[c] = "upgrading"
      BY <1>3, <1>4, <2>1, <3>2, <3>3 DEF Status
    <3>5. QED
      BY <3>2, <3>4 DEF IInv, AppInv, UpgradesDone
  <2>2. CASE job'[c] \in {"succeeded", "upgraded"}
    BY <1>4, <2>2 DEF IInv, AppInv, UpgradesDone
  <2>3. QED
    BY <2>1, <2>2
<1>12. WorkerIsOld'
  BY <1>1, <1>4 DEF IInv, Types, AppInv, WorkerIsOld, Reaches, dbVars
<1>13. QED
  BY <1>3, <1>5, <1>6, <1>7, <1>10, <1>11, <1>12 DEF IInv, RunInv, AppInv

LEMMA DowngradeKeeps ==
  ASSUME IInv, NEW d \in Downgrades, Downgrade(d) PROVE IInv'
<1>1. /\ ~AlembicRuns /\ \A b \in Builds : ~Deploying(b)
      /\ Begin(d, 0) /\ worker' = Nobody
      /\ UNCHANGED <<job, version, app, tasks, id, oldest, at, from, copied, dbVars>> /\ d \in Runs
  BY Disjoint DEF Downgrade
<1>2. /\ RunInv' /\ task'[d] = "running"
      /\ task' \in [Runs -> {"none", "running", "succeeded", "failed"}]
      /\ head' \in [Runs -> {0} \cup Versions]
      /\ \A u \in Runs : u # d => task'[u] = task[u]
  BY <1>1, BeginKeeps
<1>3. Types'
  BY <1>1, <1>2 DEF IInv, Types, dbVars
<1>4. \A t \in Runs : Running(t)' => t = d
  BY <1>1, <1>2 DEF AlembicRuns, Running
<1>5. DowngradesAlone'
  BY <1>1, <1>4, Disjoint DEF DowngradesAlone, Deploying
<1>6. \A b \in Builds : job[b] \notin {"pushed", "upgrading", "succeeded", "upgraded"}
  BY <1>1 DEF Deploying
<1>7. AppIsYoung' /\ TasksAreYoung' /\ UpgradesDone' /\ WorkerIsOld'
  BY <1>1, <1>6 DEF AppIsYoung, TasksAreYoung, UpgradesDone, WorkerIsOld
<1>8. QED
  BY <1>2, <1>3, <1>5, <1>7 DEF IInv, RunInv, AppInv

(* The broker's rows and what is left as it was matter to no other part.   *)
LEMMA QuietKeeps ==
  ASSUME IInv, UNCHANGED <<jobVars, task, head, rev, objects>>
  PROVE  DowngradesAlone' /\ AppInv' /\ SchemaIs'
<1>1. DowngradesAlone' /\ SchemaIs'
  BY DEF IInv, DowngradesAlone, SchemaIs, Running, Deploying, jobVars
<1>2. AppIsYoung' /\ TasksAreYoung' /\ UpgradesDone' /\ WorkerIsOld'
  BY DEF IInv, AppInv, AppIsYoung, TasksAreYoung, UpgradesDone, WorkerIsOld, Reaches,
         Listed, Status, jobVars
<1>3. QED
  BY <1>1, <1>2 DEF AppInv

LEMMA BrokerKeeps ==
  ASSUME IInv, NEW c \in Certificates, BrokerAddsCertificate(c) PROVE IInv'
<1>1. UNCHANGED <<jobVars, task, head, at, from, copied, holds, rev, objects>>
  BY DEF BrokerAddsCertificate, runVars
<1>2. Types'
  <2>1. rows' \in [Certificates -> {"none", "not copied", "copied"}]
    BY DEF IInv, Types, BrokerAddsCertificate
  <2>2. late' \subseteq Certificates
    BY DEF IInv, Types, BrokerAddsCertificate
  <2>3. QED
    BY <1>1, <2>1, <2>2 DEF IInv, Types, jobVars
<1>3. RunInv'
  BY <1>1 DEF IInv, RunInv, Places, HoldersRun, ReadsFit, HeldIsFresh, ReadIsOld, PassedIsDone,
              SchemaIs, Ahead, Over, Running
<1>4. QED
  BY <1>1, <1>2, <1>3, QuietKeeps DEF IInv, RunInv

-----------------------------------------------------------------------------
(* A run of alembic                                                        *)

(* Where a run is, as the phases tell it.                                  *)
LEMMA Where ==
  ASSUME NEW db \in Databases, NEW e \in Databases
  PROVE  /\ \A p, q : Step(p, db) = Step(q, e) <=> p = q /\ db = e
         /\ \A t : at[t] = Step("read", db) \/ at[t] = Step("migrate", db) =>
              /\ Ahead(t, db) /\ ~Over(t, db) /\ ~Over(t, e)
              /\ Ahead(t, e) <=> db = "cdn" \/ e = "domain"
         /\ \A t : at[t] = Step("commit", db) =>
              ~Ahead(t, e) /\ (Over(t, e) <=> db = "domain" /\ e = "cdn")
         /\ \A t : at[t] = Step("end", "domain") => ~Ahead(t, e) /\ Over(t, e)
BY DEF Databases, Step, Ahead, Over

LEMMA ReadKeeps ==
  ASSUME IInv, NEW t \in Runs, NEW db \in Databases, ReadRevision(t, db) PROVE IInv'
<1>1. /\ Running(t) /\ at[t] = Step("read", db)
      /\ IF t \in Builds THEN rev[db] <= head[t] ELSE rev[db] > 0
      /\ UNCHANGED <<jobVars, task, head, copied, holds, rev, objects, rows, late>>
  BY DEF ReadRevision, Running, dbVars
<1>2. /\ from' = [from EXCEPT ![t][db] = rev[db]]
      /\ at' = [at EXCEPT ![t] = Step("migrate", db)]
  BY DEF ReadRevision
<1>3. /\ at'[t] = Step("migrate", db) /\ from'[t][db] = rev[db]
      /\ \A e \in Databases : e # db => from'[t][e] = from[t][e]
      /\ \A u \in Runs : u # t => at'[u] = at[u] /\ from'[u] = from[u]
  BY <1>2 DEF IInv, Types
<1>4. Types'
  <2>1. at' \in [Runs -> {"read", "migrate", "commit", "end"} \X Databases]
    BY <1>2 DEF IInv, Types, Step
  <2>2. from' \in [Runs -> [Databases -> 0..7]]
    BY <1>2 DEF IInv, Types
  <2>3. QED
    BY <1>1, <2>1, <2>2 DEF IInv, Types, jobVars
<1>5. \A e \in Databases : (Ahead(t, e)' <=> Ahead(t, e)) /\ ~Over(t, e)'
  BY <1>1, <1>3, Where DEF Ahead, Over, Step, Databases
<1>6. \A u \in Runs, e \in Databases : u # t =>
        (Ahead(u, e)' <=> Ahead(u, e)) /\ (Over(u, e)' <=> Over(u, e))
  BY <1>3 DEF Ahead, Over
<1>7. Places'
  BY <1>1, <1>3 DEF IInv, Places, Running
<1>8. HoldersRun'
  BY <1>1, <1>5, <1>6 DEF IInv, HoldersRun, Running
<1>9. ReadsFit'
  <2> SUFFICES ASSUME NEW u \in Runs, NEW e \in Databases, at'[u] = Step("migrate", e)
               PROVE  IF u \in Builds THEN from'[u][e] <= head[u] ELSE from'[u][e] > 0
    BY <1>1 DEF ReadsFit
  <2>1. CASE u = t
    BY <1>1, <1>3, <2>1, Where
  <2>2. CASE u # t
    BY <1>3, <2>2 DEF IInv, ReadsFit
  <2>3. QED
    BY <2>1, <2>2
<1>10. HeldIsFresh'
  <2> SUFFICES ASSUME NEW u \in Runs, NEW e \in Databases, holds[e] = u
               PROVE  from'[u][e] = from[u][e]
    BY <1>1 DEF IInv, HeldIsFresh
  <2>1. u = t => e # db
    BY <1>1, Where DEF IInv, HoldersRun
  <2>2. QED
    BY <1>3, <2>1
<1>11. ReadIsOld'
  <2> SUFFICES ASSUME NEW b \in Builds, NEW e \in Databases, Running(b), at'[b] = Step("migrate", e)
               PROVE  from'[b][e] <= rev[e]
    BY <1>1 DEF ReadIsOld, Running
  <2>1. CASE b = t
    <3>1. from'[t][e] = rev[e]
      BY <1>3, <2>1, Where
    <3>2. rev[e] <= rev[e]
      BY Numbers
    <3>3. QED
      BY <2>1, <3>1, <3>2
  <2>2. CASE b # t
    BY <1>3, <2>2, Disjoint DEF IInv, ReadIsOld
  <2>3. QED
    BY <2>1, <2>2
<1>12. PassedIsDone'
  BY <1>1, <1>5, <1>6, Disjoint DEF IInv, PassedIsDone, Running
<1>13. QED
  BY <1>1, <1>4, <1>7, <1>8, <1>9, <1>10, <1>11, <1>12, QuietKeeps DEF IInv

(* A run goes past a database, whose transaction it then holds or not.     *)
LEMMA PassKeeps ==
  ASSUME IInv, NEW t \in Runs, NEW db \in Databases,
         Running(t), at[t] = Step("migrate", db),
         at' = [at EXCEPT ![t] = AfterMigrating(db)],
         UNCHANGED <<jobVars, task, head, from, rev, objects, rows, late>>,
         copied' \in [Runs -> SUBSET Certificates],
         \/ /\ holds' = holds
            /\ t \in Builds => rev[db] >= head[t]
         \/ /\ holds[db] = Nobody /\ holds' = [holds EXCEPT ![db] = t]
            /\ from[t][db] = rev[db]
            /\ IF t \in Builds THEN from[t][db] < head[t] ELSE from[t][db] > 0
  PROVE  IInv'
<1>1. /\ at'[t] = AfterMigrating(db)
      /\ \A u \in Runs : u # t => at'[u] = at[u]
  BY DEF IInv, Types
<1>2. Types'
  <2>1. at' \in [Runs -> {"read", "migrate", "commit", "end"} \X Databases]
    BY DEF IInv, Types, AfterMigrating, Step, Databases
  <2>2. holds' \in [Databases -> Runs \cup {Nobody}]
    BY DEF IInv, Types
  <2>3. QED
    BY <2>1, <2>2 DEF IInv, Types, jobVars
<1>3. \A e \in Databases :
        /\ ~Over(t, e)'
        /\ Ahead(t, e)' => Ahead(t, e) /\ e # db
        /\ ~Ahead(t, e)' => e = db \/ ~Ahead(t, e)
  BY <1>1, Where DEF Ahead, Over, AfterMigrating, Step, Databases
<1>4. \A u \in Runs, e \in Databases : u # t =>
        (Ahead(u, e)' <=> Ahead(u, e)) /\ (Over(u, e)' <=> Over(u, e))
  BY <1>1 DEF Ahead, Over
<1>5. /\ \A e \in Databases : e # db => holds'[e] = holds[e]
      /\ \A u \in Runs : u # t /\ holds'[db] = u => holds[db] = u
      /\ \A u \in Runs : holds[db] = u => holds'[db] = u
      /\ holds'[db] = t \/ (t \in Builds => rev[db] >= head[t])
  BY Disjoint DEF IInv, Types
<1>6. Places'
  BY <1>1 DEF IInv, Places, Running, AfterMigrating, Databases
<1>7. ~(holds[db] = t)
  BY Where DEF IInv, HoldersRun
<1>8. HoldersRun'
  <2> SUFFICES ASSUME NEW e \in Databases, NEW u \in Runs, holds'[e] = u
               PROVE  Running(u) /\ ~Ahead(u, e)' /\ ~Over(u, e)'
    BY DEF HoldersRun, Running
  <2>1. CASE u # t
    <3>1. holds[e] = u
      BY <1>5, <2>1
    <3>2. QED
      BY <1>4, <2>1, <3>1 DEF IInv, HoldersRun
  <2>2. CASE u = t /\ e # db
    <3>1. ~Ahead(t, e)
      BY <1>5, <2>2 DEF IInv, HoldersRun
    <3>2. QED
      BY <1>3, <2>2, <3>1
  <2>3. CASE u = t /\ e = db
    BY <1>3, <2>3
  <2>4. QED
    BY <2>1, <2>2, <2>3
<1>9. ReadsFit' /\ ReadIsOld'
  <2>1. \A e \in Databases : at'[t] # Step("migrate", e)
    BY <1>1 DEF AfterMigrating, Step
  <2>2. \A u \in Runs, e \in Databases : at'[u] = Step("migrate", e) => at[u] = at'[u]
    BY <1>1, <2>1
  <2>3. QED
    BY <2>2, Disjoint DEF IInv, ReadsFit, ReadIsOld, Running
<1>10. HeldIsFresh'
  <2> SUFFICES ASSUME NEW e \in Databases, NEW u \in Runs, holds'[e] = u
               PROVE  /\ from[u][e] = rev[e]
                      /\ IF u \in Builds THEN from[u][e] < head[u] ELSE from[u][e] > 0
    BY DEF HeldIsFresh
  <2>1. CASE holds[e] = u
    BY <2>1 DEF IInv, HeldIsFresh
  <2>2. CASE holds[e] # u
    BY <1>5, <2>2
  <2>3. QED
    BY <2>1, <2>2
<1>11. PassedIsDone'
  <2> SUFFICES ASSUME NEW b \in Builds, NEW e \in Databases, Running(b), ~Ahead(b, e)'
               PROVE  holds'[e] = b \/ rev[e] >= head[b]
    BY DEF PassedIsDone, Running
  <2>1. b \in Runs
    BY Disjoint
  <2>2. CASE b # t
    <3>1. holds[e] = b \/ rev[e] >= head[b]
      BY <1>4, <2>1, <2>2 DEF IInv, PassedIsDone
    <3>2. QED
      BY <1>5, <2>1, <3>1
  <2>3. CASE b = t /\ e = db
    BY <1>5, <2>3
  <2>4. CASE b = t /\ e # db
    <3>1. holds[e] = b \/ rev[e] >= head[b]
      BY <1>3, <2>4 DEF IInv, PassedIsDone
    <3>2. QED
      BY <1>5, <2>4, <3>1
  <2>5. QED
    BY <2>2, <2>3, <2>4
<1>12. QED
  BY <1>2, <1>6, <1>8, <1>9, <1>10, <1>11, QuietKeeps DEF IInv

LEMMA MigrateKeeps ==
  ASSUME IInv, NEW t \in Runs, NEW db \in Databases,
         Migrate(t, db) \/ NothingToMigrate(t, db)
  PROVE  IInv'
<1>1. /\ Running(t) /\ at[t] = Step("migrate", db)
      /\ at' = [at EXCEPT ![t] = AfterMigrating(db)]
      /\ UNCHANGED <<jobVars, task, head, from, rev, objects, rows, late>>
  BY DEF Migrate, NothingToMigrate, Running, dbVars
<1>2. IF t \in Builds THEN from[t][db] <= head[t] ELSE from[t][db] > 0
  BY <1>1 DEF IInv, ReadsFit
<1>3. /\ t \in Builds => head[t] \in Nat
      /\ from[t][db] \in Nat /\ rev[db] \in Nat
  BY Numbers
<1>4. CASE Migrate(t, db)
  <2>1. /\ from[t][db] # Target(t, db) /\ holds[db] = Nobody /\ rev[db] = from[t][db]
        /\ holds' = [holds EXCEPT ![db] = t]
    BY <1>4 DEF Migrate
  <2>2. copied' \in [Runs -> SUBSET Certificates]
    BY <1>4 DEF Migrate, IInv, Types
  <2>3. IF t \in Builds THEN from[t][db] < head[t] ELSE from[t][db] > 0
    BY <1>2, <1>3, <2>1 DEF Target
  <2>4. QED
    BY <1>1, <2>1, <2>2, <2>3, PassKeeps
<1>5. CASE NothingToMigrate(t, db)
  <2>1. from[t][db] = Target(t, db) /\ UNCHANGED <<copied, holds>>
    BY <1>5 DEF NothingToMigrate, dbVars
  <2>2. t \in Builds => rev[db] >= head[t]
    BY <1>1, <1>3, <2>1 DEF IInv, ReadIsOld, Target
  <2>3. copied' \in [Runs -> SUBSET Certificates]
    BY <2>1 DEF IInv, Types
  <2>4. QED
    BY <1>1, <2>1, <2>2, <2>3, PassKeeps
<1>6. QED
  BY <1>4, <1>5

(* What a commit makes of the revisions.                                   *)
LEMMA CommitMoves ==
  ASSUME IInv, NEW t \in Runs, NEW db \in Databases, Commit(t, db), holds[db] = t
  PROVE  /\ rev'[db] = Target(t, db) /\ holds'[db] = Nobody
         /\ \A e \in Databases : e # db =>
              rev'[e] = rev[e] /\ holds'[e] = holds[e] /\ objects'[e] = objects[e]
         /\ rev' \in [Databases -> 0..7]
         /\ SchemaIs'
         /\ t \in Builds => rev'[db] = head[t] /\ rev'[db] > rev[db]
<1>1. /\ rev' = [rev EXCEPT ![db] = Target(t, db)]
      /\ objects' = [objects EXCEPT ![db] = Migrated(t, db)]
      /\ holds' = [holds EXCEPT ![db] = Nobody]
  BY DEF Commit
<1>2. /\ from[t][db] = rev[db]
      /\ IF t \in Builds THEN from[t][db] < head[t] ELSE from[t][db] > 0
  BY DEF IInv, HeldIsFresh
<1>3. /\ Target(t, db) \in 0..7
      /\ t \in Builds => Target(t, db) = head[t] /\ Target(t, db) > rev[db]
      /\ t \notin Builds => Target(t, db) < rev[db]
  BY <1>2, Numbers DEF Target
<1>4. Migrated(t, db) = Schema(db, Target(t, db))
  <2>1. objects[db] = Schema(db, from[t][db]) /\ from[t][db] \in 0..7
    BY <1>2, Numbers DEF IInv, SchemaIs
  <2>2. CASE t \in Builds
    <3>1. from[t][db] < Target(t, db)
      BY <1>2, <1>3, <2>2
    <3>2. Migrated(t, db)
          = (objects[db] \ DroppedBy(db, (from[t][db] + 1)..Target(t, db)))
            \cup AddedBy(db, (from[t][db] + 1)..Target(t, db))
      BY <3>1 DEF Migrated
    <3>3. Target(t, db) \in 0..7
      BY <1>3
    <3>4. QED
      BY ONLY <2>1, <3>1, <3>2, <3>3, UpgradeMakesSchema
  <2>3. CASE t \notin Builds
    <3>1. Target(t, db) < from[t][db] /\ ~(from[t][db] < Target(t, db))
      BY <1>2, <1>3, <2>1, <2>3
    <3>2. Migrated(t, db)
          = (objects[db] \ AddedBy(db, (Target(t, db) + 1)..from[t][db]))
            \cup DroppedBy(db, (Target(t, db) + 1)..from[t][db])
      BY <3>1 DEF Migrated
    <3>3. Target(t, db) \in 0..7
      BY <1>3
    <3>4. QED
      BY ONLY <2>1, <3>1, <3>2, <3>3, DowngradeMakesSchema
  <2>4. QED
    BY <2>2, <2>3
<1>5. rev'[db] = Target(t, db) /\ holds'[db] = Nobody /\ rev' \in [Databases -> 0..7]
  BY <1>1, <1>3 DEF IInv, Types
<1>6. \A e \in Databases : e # db =>
        rev'[e] = rev[e] /\ holds'[e] = holds[e] /\ objects'[e] = objects[e]
  BY <1>1 DEF IInv, Types, SchemaIs
<1>7. objects'[db] = Schema(db, Target(t, db))
  BY <1>1, <1>4 DEF IInv, SchemaIs
<1>8. SchemaIs'
  <2>1. objects' = [e \in Databases |-> objects'[e]]
    BY <1>1 DEF IInv, SchemaIs
  <2>2. \A e \in Databases : objects'[e] = Schema(e, rev'[e])
    BY <1>5, <1>6, <1>7 DEF IInv, SchemaIs
  <2>3. QED
    BY <2>1, <2>2 DEF SchemaIs
<1>9. QED
  BY <1>3, <1>5, <1>6, <1>8

LEMMA CommitKeeps ==
  ASSUME IInv, NEW t \in Runs, NEW db \in Databases, Commit(t, db) PROVE IInv'
<1>1. /\ Running(t) /\ at[t] = Step("commit", db)
      /\ at' = [at EXCEPT ![t] =
                  IF db = "cdn" THEN Step("commit", "domain") ELSE Step("end", db)]
      /\ UNCHANGED <<jobVars, task, head, from, copied>>
  BY DEF Commit, Running
<1>2. /\ db = "cdn" => at'[t] = Step("commit", "domain")
      /\ db = "domain" => at'[t] = Step("end", "domain")
      /\ \A u \in Runs : u # t => at'[u] = at[u]
  BY <1>1 DEF IInv, Types
<1>3. \/ holds[db] # t /\ UNCHANGED <<rev, objects, holds>>
      \/ /\ holds[db] = t /\ holds'[db] = Nobody /\ SchemaIs'
         /\ \A e \in Databases : e # db => rev'[e] = rev[e] /\ holds'[e] = holds[e]
         /\ t \in Builds => rev'[db] = head[t] /\ rev'[db] > rev[db]
  <2>1. CASE holds[db] = t
    BY <2>1, CommitMoves
  <2>2. CASE holds[db] # t
    BY <2>2 DEF Commit
  <2>3. QED
    BY <2>1, <2>2
<1>4. SchemaIs'
  BY <1>3 DEF IInv, SchemaIs
<1>5. Types'
  <2>1. at' \in [Runs -> {"read", "migrate", "commit", "end"} \X Databases]
    BY <1>1 DEF IInv, Types, Step, Databases
  <2>2. holds' \in [Databases -> Runs \cup {Nobody}]
    BY DEF IInv, Types, Commit
  <2>3. rev' \in [Databases -> 0..7]
    <3>1. CASE holds[db] = t
      BY <3>1, CommitMoves
    <3>2. CASE holds[db] # t
      BY <3>2 DEF Commit, IInv, Types
    <3>3. QED
      BY <3>1, <3>2
  <2>4. rows' \in [Certificates -> {"none", "not copied", "copied"}] /\ late' \subseteq Certificates
    <3>1. MigratedRows(t) \in [Certificates -> {"none", "not copied", "copied"}]
      BY DEF IInv, Types, MigratedRows
    <3>2. rows' \in {rows, MigratedRows(t)} /\ late' \in {{}, late}
      BY DEF Commit
    <3>3. QED
      BY <3>1, <3>2 DEF IInv, Types
  <2>5. QED
    BY <1>1, <2>1, <2>2, <2>3, <2>4 DEF IInv, Types, jobVars
(* Revisions grow, or a downgrade runs, and it runs alone.                 *)
<1>6. \/ /\ t \in Downgrades /\ worker = Nobody /\ \A b \in Builds : ~Deploying(b)
         /\ \A u \in Runs : Running(u) => u = t
      \/ t \in Builds /\ \A e \in Databases, n \in Nat : rev[e] >= n => rev'[e] >= n
  <2>1. CASE t \in Downgrades
    BY <1>1, <2>1 DEF IInv, DowngradesAlone
  <2>2. CASE t \in Builds
    <3> SUFFICES ASSUME NEW e \in Databases, NEW n \in Nat, rev[e] >= n
                 PROVE  rev'[e] >= n
      BY <2>2
    <3>1. rev[e] \in Nat /\ (t \in Builds => head[t] \in Nat)
      BY Numbers
    <3>2. rev'[e] = rev[e] \/ (rev'[e] = head[t] /\ rev'[e] > rev[e])
      BY <1>3, <2>2
    <3>3. QED
      BY <2>2, <3>1, <3>2
  <2>3. QED
    BY <2>1, <2>2 DEF Runs
<1>7. \A e \in Databases : ~Ahead(t, e) /\ ~Ahead(t, e)'
  BY <1>1, <1>2, Where DEF Ahead, Step, Databases
<1>8. \A u \in Runs, e \in Databases : u # t =>
        (Ahead(u, e)' <=> Ahead(u, e)) /\ (Over(u, e)' <=> Over(u, e))
  BY <1>2 DEF Ahead, Over
<1>9. /\ holds'[db] # t
      /\ \A e \in Databases, u \in Runs : holds'[e] = u => holds[e] = u
      /\ \A e \in Databases, u \in Runs : u # t /\ holds[e] = u => holds'[e] = u
      /\ \A e \in Databases, u \in Runs : holds'[e] = u => rev'[e] = rev[e]
  BY <1>3, Disjoint
<1>10. Places'
  BY <1>1, <1>2 DEF IInv, Places, Running, Databases
<1>11. HoldersRun'
  <2> SUFFICES ASSUME NEW e \in Databases, NEW u \in Runs, holds'[e] = u
               PROVE  Running(u) /\ ~Ahead(u, e)' /\ ~Over(u, e)'
    BY <1>1 DEF HoldersRun, Running
  <2>1. Running(u) /\ ~Ahead(u, e) /\ ~Over(u, e)
    BY <1>9 DEF IInv, HoldersRun
  <2>2. CASE u # t
    BY <1>8, <2>1, <2>2
  <2>3. CASE u = t
    <3>1. db = "cdn" /\ e = "domain"
      BY <1>1, <1>9, <2>1, <2>3, Where DEF Databases
    <3>2. ~Over(t, e)'
      BY <1>2, <3>1 DEF Over, Step
    <3>3. QED
      BY <1>1, <1>7, <2>3, <3>2
  <2>4. QED
    BY <2>2, <2>3
<1>12. \A u \in Runs, e \in Databases : at'[u] = Step("migrate", e) => u # t /\ at[u] = at'[u]
  BY <1>2 DEF Step, Databases
<1>13. ReadsFit'
  BY <1>1, <1>12 DEF IInv, ReadsFit
<1>14. HeldIsFresh'
  BY <1>1, <1>9 DEF IInv, HeldIsFresh
<1>15. ReadIsOld'
  <2> SUFFICES ASSUME NEW b \in Builds, NEW e \in Databases, Running(b), at'[b] = Step("migrate", e)
               PROVE  from[b][e] <= rev'[e]
    BY <1>1 DEF ReadIsOld, Running
  <2>1. b \in Runs /\ b # t /\ rev[e] >= from[b][e]
    <3>1. b \in Runs
      BY Disjoint
    <3>2. b # t /\ from[b][e] <= rev[e]
      BY <1>12, <3>1 DEF IInv, ReadIsOld
    <3>3. QED
      BY <3>1, <3>2, Numbers
  <2>2. rev'[e] >= from[b][e]
    BY <1>6, <2>1, Numbers
  <2>3. rev'[e] \in 0..7 /\ from[b][e] \in 0..7
    BY <1>5, <2>1, Numbers DEF Types
  <2>4. QED
    BY <2>2, <2>3
<1>16. PassedIsDone'
  <2> SUFFICES ASSUME NEW b \in Builds, NEW e \in Databases, Running(b), ~Ahead(b, e)'
               PROVE  holds'[e] = b \/ rev'[e] >= head[b]
    BY <1>1 DEF PassedIsDone, Running
  <2>1. b \in Runs /\ head[b] \in Nat
    BY Disjoint, Numbers
  <2>2. holds[e] = b \/ rev[e] >= head[b]
    BY <1>7, <1>8, <2>1 DEF IInv, PassedIsDone
  <2>3. t \in Builds /\ (rev[e] >= head[b] => rev'[e] >= head[b])
    BY <1>6, <2>1, Disjoint
  <2>4. CASE holds[e] = b /\ ~(holds'[e] = b)
    <3>1. b = t /\ e = db /\ holds[db] = t
      BY <1>3, <1>9, <2>1, <2>4
    <3>2. rev'[e] = head[b]
      BY <1>3, <2>3, <3>1
    <3>3. QED
      BY <2>1, <3>2
  <2>5. QED
    BY <2>2, <2>3, <2>4
<1>17. DowngradesAlone'
  BY <1>1 DEF IInv, DowngradesAlone, Running, Deploying, jobVars
<1>18. \A b \in Builds : Deploying(b) \/ worker # Nobody =>
         (Reaches(oldest[b]) => Reaches(oldest[b])')
  <2>1. \A b \in Builds : oldest[b] \in Nat
    BY Numbers
  <2>2. QED
    BY <1>1, <1>6, <2>1 DEF Reaches, jobVars
<1>19. AppIsYoung' /\ TasksAreYoung'
  BY <1>1 DEF IInv, AppInv, AppIsYoung, TasksAreYoung, Listed, Status, jobVars
<1>20. UpgradesDone'
  <2> SUFFICES ASSUME NEW b \in Builds,
                      \/ job[b] = "upgrading" /\ Listed(b) /\ Status(b) = "succeeded"
                      \/ job[b] \in {"succeeded", "upgraded"}
               PROVE  Reaches(oldest[b])'
    BY <1>1 DEF UpgradesDone, Listed, Status, jobVars
  <2>1. Deploying(b) /\ Reaches(oldest[b])
    BY DEF IInv, AppInv, UpgradesDone, Deploying
  <2>2. QED
    BY <1>18, <2>1
<1>21. WorkerIsOld'
  BY <1>1, <1>18 DEF IInv, Types, AppInv, WorkerIsOld, jobVars
<1>22. QED
  BY <1>4, <1>5, <1>10, <1>11, <1>13, <1>14, <1>15, <1>16, <1>17, <1>19, <1>20, <1>21
     DEF IInv, AppInv

(* A run ends and lets go of its transactions: the others go on as before. *)
LEMMA EndsKeeps ==
  ASSUME IInv, NEW t \in Runs, NEW how \in {"succeeded", "failed"}, Running(t), Ends(t, how),
         UNCHANGED <<jobVars, rev, objects, rows>>,
         late' \subseteq Certificates, holds' \in [Databases -> Runs \cup {Nobody}],
         \A e \in Databases, u \in Runs : holds'[e] = u <=> holds[e] = u /\ u # t
  PROVE  /\ RunInv' /\ Types' /\ DowngradesAlone' /\ AppIsYoung' /\ TasksAreYoung'
         /\ WorkerIsOld'
         /\ task'[t] = how /\ \A u \in Runs : u # t => task'[u] = task[u]
<1>1. /\ task'[t] = how /\ at'[t] = Step("read", "cdn")
      /\ \A u \in Runs : u # t =>
           task'[u] = task[u] /\ at'[u] = at[u] /\ from'[u] = from[u] /\ head'[u] = head[u]
  BY DEF IInv, Types, Ends
<1>2. Types'
  <2>1. task' \in [Runs -> {"none", "running", "succeeded", "failed"}]
    BY DEF IInv, Types, Ends
  <2>2. at' \in [Runs -> {"read", "migrate", "commit", "end"} \X Databases]
    BY DEF IInv, Types, Ends, Step, Databases
  <2>3. from' \in [Runs -> [Databases -> 0..7]]
    <3>1. [db \in Databases |-> 0] \in [Databases -> 0..7]
      OBVIOUS
    <3>2. QED
      BY <3>1 DEF IInv, Types, Ends
  <2>4. copied' \in [Runs -> SUBSET Certificates]
    BY DEF IInv, Types, Ends
  <2>5. head' \in [Runs -> {0} \cup Versions]
    BY DEF IInv, Types, Ends
  <2>6. QED
    BY <2>1, <2>2, <2>3, <2>4, <2>5 DEF IInv, Types, jobVars
<1>3. ~Running(t)'
  BY <1>1 DEF Running
<1>4. \A u \in Runs : u # t =>
        /\ Running(u)' <=> Running(u)
        /\ \A e : (Ahead(u, e)' <=> Ahead(u, e)) /\ (Over(u, e)' <=> Over(u, e))
  BY <1>1 DEF Running, Ahead, Over
<1>5. Places'
  <2>1. "cdn" \in Databases
    BY DEF Databases
  <2>2. QED
    BY <1>1, <1>4, <2>1 DEF IInv, Places
<1>6. HoldersRun' /\ HeldIsFresh'
  BY <1>1, <1>4 DEF IInv, HoldersRun, HeldIsFresh
<1>7. \A u \in Runs, e \in Databases : at'[u] = Step("migrate", e) => u # t
  BY <1>1 DEF Step
<1>8. ReadsFit'
  BY <1>1, <1>7 DEF IInv, ReadsFit
<1>9. ReadIsOld'
  BY <1>1, <1>4, <1>7, Disjoint DEF IInv, ReadIsOld
<1>10. PassedIsDone'
  <2> SUFFICES ASSUME NEW b \in Builds, NEW e \in Databases, Running(b)', ~Ahead(b, e)'
               PROVE  holds'[e] = b \/ rev[e] >= head'[b]
    BY DEF PassedIsDone
  <2>1. b \in Runs /\ b # t
    BY <1>3, Disjoint
  <2>2. QED
    BY <1>1, <1>4, <2>1 DEF IInv, PassedIsDone
<1>11. DowngradesAlone'
  <2> SUFFICES ASSUME NEW d \in Downgrades, Running(d)'
               PROVE  /\ worker = Nobody /\ \A b \in Builds : ~Deploying(b)
                      /\ \A u \in Runs : Running(u)' => u = d
    BY DEF DowngradesAlone, Deploying, jobVars
  <2>1. d \in Runs /\ d # t
    BY <1>3, Disjoint
  <2>2. FALSE
    BY <1>4, <2>1 DEF IInv, DowngradesAlone
  <2>3. QED
    BY <2>2
<1>12. AppIsYoung' /\ WorkerIsOld' /\ SchemaIs'
  BY DEF IInv, AppInv, AppIsYoung, WorkerIsOld, Reaches, SchemaIs, jobVars
<1>13. TasksAreYoung'
  <2> SUFFICES ASSUME NEW b \in Builds, job[b] = "upgrading", Listed(b),
                      task'[tasks[id[b]]] = "running"
               PROVE  head'[tasks[id[b]]] >= oldest[b]
    BY DEF TasksAreYoung, Listed, Status, jobVars
  <2>1. tasks[id[b]] \in Runs
    BY ListedIsRun
  <2>2. tasks[id[b]] # t
    BY <1>1
  <2>3. QED
    BY <1>1, <2>1, <2>2 DEF IInv, AppInv, TasksAreYoung, Status
<1>14. QED
  BY <1>1, <1>2, <1>5, <1>6, <1>8, <1>9, <1>10, <1>11, <1>12, <1>13 DEF RunInv

LEMMA FailKeeps ==
  ASSUME IInv, NEW t \in Runs, Fail(t) PROVE IInv'
<1>1. /\ Running(t) /\ Ends(t, "failed") /\ UNCHANGED <<jobVars, rev, objects, rows>>
      /\ holds' = [db \in Databases |-> IF holds[db] = t THEN Nobody ELSE holds[db]]
  BY DEF Fail, Running
<1>2. late' \subseteq Certificates /\ holds' \in [Databases -> Runs \cup {Nobody}]
  BY <1>1 DEF Fail, IInv, Types
<1>3. \A e \in Databases, u \in Runs : holds'[e] = u <=> holds[e] = u /\ u # t
  BY <1>1, Disjoint
<1>4. /\ RunInv' /\ Types' /\ DowngradesAlone' /\ AppIsYoung' /\ TasksAreYoung' /\ WorkerIsOld'
      /\ task'[t] = "failed" /\ \A u \in Runs : u # t => task'[u] = task[u]
  BY <1>1, <1>2, <1>3, EndsKeeps
<1>5. \A b \in Builds : Listed(b) /\ task'[tasks[id[b]]] = "succeeded" => Status(b) = "succeeded"
  BY <1>4, ListedIsRun DEF Status
<1>6. UpgradesDone'
  BY <1>1, <1>5 DEF IInv, AppInv, UpgradesDone, Reaches, Listed, Status, jobVars
<1>7. QED
  BY <1>4, <1>6 DEF IInv, RunInv, AppInv

LEMMA SucceedKeeps ==
  ASSUME IInv, NEW t \in Runs, Succeed(t) PROVE IInv'
<1>1. /\ Running(t) /\ at[t] = Step("end", "domain") /\ Ends(t, "succeeded")
      /\ UNCHANGED <<jobVars, holds, rev, objects, rows, late>>
  BY DEF Succeed, Running, dbVars
<1>2. \A e \in Databases : ~Ahead(t, e) /\ Over(t, e)
  BY <1>1, Where DEF Databases
<1>3. \A e \in Databases : holds[e] # t
  BY <1>2 DEF IInv, HoldersRun
<1>4. late' \subseteq Certificates /\ holds' \in [Databases -> Runs \cup {Nobody}]
  BY <1>1 DEF IInv, Types
<1>5. /\ RunInv' /\ Types' /\ DowngradesAlone' /\ AppIsYoung' /\ TasksAreYoung' /\ WorkerIsOld'
      /\ task'[t] = "succeeded" /\ \A u \in Runs : u # t => task'[u] = task[u]
  BY <1>1, <1>3, <1>4, EndsKeeps
<1>6. UpgradesDone'
  <2> SUFFICES ASSUME NEW b \in Builds, NEW e \in Databases,
                      \/ job[b] = "upgrading" /\ Listed(b) /\ task'[tasks[id[b]]] = "succeeded"
                      \/ job[b] \in {"succeeded", "upgraded"}
               PROVE  rev[e] >= oldest[b]
    BY <1>1 DEF UpgradesDone, Reaches, Listed, Status, jobVars
  <2>1. CASE job[b] = "upgrading" /\ Listed(b) /\ tasks[id[b]] = t
    <3>1. head[t] >= oldest[b] /\ t \in Builds
      BY <1>1, <2>1, ListedIsRun DEF IInv, AppInv, TasksAreYoung, Status, Running
    <3>2. rev[e] >= head[t]
      BY <1>1, <1>2, <1>3, <3>1 DEF IInv, PassedIsDone
    <3>3. rev[e] \in Nat /\ head[t] \in Nat /\ oldest[b] \in Nat
      BY Numbers
    <3>4. QED
      BY <3>1, <3>2, <3>3
  <2>2. CASE job[b] = "upgrading" /\ Listed(b) /\ tasks[id[b]] # t
    <3>1. Status(b) = "succeeded"
      BY <1>5, <2>2, ListedIsRun DEF Status
    <3>2. QED
      BY <2>2, <3>1 DEF IInv, AppInv, UpgradesDone, Reaches
  <2>3. CASE job[b] \in {"succeeded", "upgraded"}
    BY <2>3 DEF IInv, AppInv, UpgradesDone, Reaches
  <2>4. QED
    BY <2>1, <2>2, <2>3
<1>7. QED
  BY <1>5, <1>6 DEF IInv, RunInv, AppInv

-----------------------------------------------------------------------------
(* The copying of the domain broker's rows                                 *)

(* A transaction that copies has copied every row that there was when it   *)
(* did so; the rows that have come since are late.                         *)
CopyIsWhole ==
  \A t \in Runs : holds["domain"] = t /\ Copies(t) =>
    \A c \in Certificates : rows[c] # "none" => c \in copied[t] \cup late

CopyInv == CopyIsWhole /\ OldRowsAreCopied

(* What a step leaves of the transaction and of the rows.                  *)
LEMMA CopyFrame ==
  ASSUME CopyInv, rows' = rows, rev'["domain"] = rev["domain"],
         rev["domain"] >= Copying => late \subseteq late',
         \A t \in Runs : holds'["domain"] = t =>
           /\ holds["domain"] = t /\ late \subseteq late'
           /\ head'[t] = head[t] /\ from'[t]["domain"] = from[t]["domain"]
           /\ copied'[t] = copied[t]
  PROVE  CopyInv'
<1>1. CopyIsWhole'
  BY DEF CopyInv, CopyIsWhole, Copies
<1>2. OldRowsAreCopied'
  BY DEF CopyInv, OldRowsAreCopied
<1>. QED
  BY <1>1, <1>2 DEF CopyInv

LEMMA CopyStarts == ASSUME Init PROVE CopyInv
<1>1. \A c \in Certificates : rows[c] = "none"
  BY DEF Init
<1>. QED
  BY <1>1 DEF CopyInv, CopyIsWhole, OldRowsAreCopied

LEMMA BrokerCopies ==
  ASSUME IInv, CopyInv, NEW c \in Certificates, BrokerAddsCertificate(c)
  PROVE  CopyInv'
<1>1. /\ rows[c] = "none" /\ rows' = [rows EXCEPT ![c] = "not copied"]
      /\ UNCHANGED <<head, from, copied, holds, rev>>
      /\ late \subseteq late'
      /\ rev["domain"] >= Copying => c \in late'
      /\ holds["domain"] # Nobody /\ Copies(holds["domain"]) => c \in late'
  BY DEF BrokerAddsCertificate, jobVars, runVars
<1>2. \A d \in Certificates : d # c => rows'[d] = rows[d]
  BY <1>1 DEF IInv, Types
<1>3. CopyIsWhole'
  <2>. SUFFICES ASSUME NEW t \in Runs, holds["domain"] = t, Copies(t), NEW d \in Certificates,
                       rows'[d] # "none"
                PROVE  d \in copied[t] \cup late'
    BY <1>1 DEF CopyIsWhole, Copies
  <2>1. c \in late'
    BY <1>1, Disjoint
  <2>. QED
    BY <1>1, <1>2, <2>1 DEF CopyInv, CopyIsWhole
<1>4. OldRowsAreCopied'
  BY <1>1, <1>2 DEF CopyInv, OldRowsAreCopied
<1>. QED
  BY <1>3, <1>4 DEF CopyInv

(* A run that reads, or that finds nothing to migrate, has changed nothing *)
(* of the domain database, and nor has one that migrates the other.        *)
LEMMA ReadCopies ==
  ASSUME IInv, CopyInv, NEW t \in Runs, NEW db \in Databases, ReadRevision(t, db)
  PROVE  CopyInv'
<1>1. /\ at[t] = Step("read", db) /\ UNCHANGED <<head, rows, rev, late, holds, copied>>
      /\ from' = [from EXCEPT ![t][db] = rev[db]]
  BY DEF ReadRevision, jobVars, dbVars
<1>2. Ahead(t, "domain")
  BY <1>1, Where DEF Databases
<1>3. holds["domain"] # t
  BY <1>2 DEF IInv, HoldersRun, Databases
<1>4. \A u \in Runs : u # t => from'[u] = from[u]
  BY <1>1 DEF IInv, Types
<1>. QED
  BY <1>1, <1>3, <1>4, CopyFrame

LEMMA MigrateCopies ==
  ASSUME IInv, CopyInv, NEW t \in Runs, NEW db \in Databases, Migrate(t, db)
  PROVE  CopyInv'
<1>1. /\ at[t] = Step("migrate", db) /\ UNCHANGED <<head, from, rev, rows, late>>
      /\ holds' = [holds EXCEPT ![db] = t]
      /\ copied' = [copied EXCEPT ![t] =
           IF db = "domain" /\ Copies(t) THEN {c \in Certificates : rows[c] # "none"}
           ELSE copied[t]]
  BY DEF Migrate, jobVars
<1>2. /\ \A u \in Runs : u # t => copied'[u] = copied[u]
      /\ db = "domain" /\ Copies(t) => copied'[t] = {c \in Certificates : rows[c] # "none"}
      /\ ~(db = "domain" /\ Copies(t)) => copied'[t] = copied[t]
  BY <1>1 DEF IInv, Types
<1>3. /\ holds'[db] = t
      /\ \A e \in Databases : e # db => holds'[e] = holds[e]
  BY <1>1 DEF IInv, Types
<1>4. CASE db = "domain"
  <2>1. CopyIsWhole'
    <3>1. \A u \in Runs : holds'["domain"] = u => u = t
      BY <1>3, <1>4
    <3>2. Copies(t)' <=> Copies(t)
      BY <1>1 DEF Copies
    <3>3. Copies(t) => \A c \in Certificates : rows'[c] # "none" => c \in copied'[t]
      BY <1>1, <1>2, <1>4
    <3>. QED
      BY <3>1, <3>2, <3>3 DEF CopyIsWhole
  <2>2. OldRowsAreCopied'
    BY <1>1 DEF CopyInv, OldRowsAreCopied
  <2>. QED
    BY <2>1, <2>2 DEF CopyInv
<1>5. CASE db # "domain"
  <2>1. holds'["domain"] = holds["domain"]
    BY <1>3, <1>5 DEF Databases
  <2>. QED
    BY <1>1, <1>2, <1>5, <2>1, CopyFrame
<1>. QED
  BY <1>4, <1>5

(* A commit of the domain database at the seventh revision is one of a     *)
(* transaction that has copied.                                            *)
LEMMA CommitCopies ==
  ASSUME IInv, CopyInv, NEW t \in Runs, NEW db \in Databases, Commit(t, db)
  PROVE  CopyInv'
<1>1. UNCHANGED <<head, from, copied>>
  BY DEF Commit, jobVars
<1>2. CASE holds[db] = t /\ db = "domain"
  <2>1. /\ rev'["domain"] = Target(t, "domain") /\ holds'["domain"] = Nobody
    BY <1>2, CommitMoves
  <2>2. rows' = MigratedRows(t) /\ late' = IF Target(t, "domain") < Copying THEN {} ELSE late
    BY <1>2 DEF Commit
  <2>3. CopyIsWhole'
    BY <2>1, Disjoint DEF CopyIsWhole
  <2>4. OldRowsAreCopied'
    <3>. SUFFICES ASSUME rev'["domain"] >= Copying
                  PROVE  \A c \in Certificates \ late' : rows'[c] # "not copied"
      BY DEF OldRowsAreCopied
    <3>1. from[t]["domain"] \in 0..7 /\ (t \in Builds => head[t] \in 0..7)
      BY Numbers DEF Databases
    <3>2. t \in Builds => from[t]["domain"] < head[t]
      BY <1>2 DEF IInv, HeldIsFresh, Databases
    <3>3. t \in Builds
      <4>. SUFFICES ASSUME t \notin Builds
                    PROVE  FALSE
        OBVIOUS
      <4>1. rev'["domain"] = from[t]["domain"] - 1
        BY <2>1 DEF Target
      <4>. QED
        BY <3>1, <4>1 DEF Copying
    <3>4. Target(t, "domain") = head[t] /\ head[t] >= Copying
      BY <2>1, <3>3 DEF Target
    <3>5. Copies(t)
      BY <3>1, <3>2, <3>3, <3>4 DEF Copies, Copying
    <3>6. late' = late
      BY <2>2, <3>1, <3>3, <3>4 DEF Copying
    <3>7. \A c \in Certificates : rows[c] # "none" => c \in copied[t] \cup late
      BY <1>2, <3>5 DEF CopyInv, CopyIsWhole
    <3>8. ASSUME NEW c \in Certificates
          PROVE  /\ rows[c] = "none" => rows'[c] = "none"
                 /\ rows[c] # "none" /\ c \in copied[t] => rows'[c] = "copied"
      <4>1. CASE rows[c] = "none"
        BY <2>2, <4>1 DEF MigratedRows
      <4>2. CASE rows[c] # "none" /\ c \in copied[t]
        BY <2>2, <4>2 DEF MigratedRows
      <4>. QED
        BY <4>1, <4>2
    <3>. QED
      BY <3>6, <3>7, <3>8
  <2>. QED
    BY <2>3, <2>4 DEF CopyInv
<1>3. CASE ~(holds[db] = t /\ db = "domain")
  <2>1. UNCHANGED <<rows, late>>
    BY <1>3 DEF Commit
  <2>2. rev'["domain"] = rev["domain"] /\ holds'["domain"] = holds["domain"]
    <3>1. CASE holds[db] = t
      BY <1>3, <3>1, CommitMoves DEF Databases
    <3>2. CASE holds[db] # t
      BY <3>2 DEF Commit
    <3>. QED
      BY <3>1, <3>2
  <2>. QED
    BY <1>1, <2>1, <2>2, CopyFrame
<1>. QED
  BY <1>2, <1>3

(* What a run that ends has copied is committed or rolled back.            *)
LEMMA EndCopies ==
  ASSUME IInv, CopyInv, NEW t \in Runs, Succeed(t) \/ Fail(t)
  PROVE  CopyInv'
<1>1. /\ UNCHANGED <<rows, rev>>
      /\ \A u \in Runs : u # t =>
           head'[u] = head[u] /\ from'[u] = from[u] /\ copied'[u] = copied[u]
  BY DEF Succeed, Fail, Ends, IInv, Types, jobVars, dbVars
<1>2. /\ \A u \in Runs : holds'["domain"] = u => holds["domain"] = u /\ u # t
      /\ holds["domain"] # t \/ rev["domain"] >= Copying => late' = late
  <2>1. CASE Succeed(t)
    <3>1. UNCHANGED <<holds, late>> /\ at[t] = Step("end", "domain")
      BY <2>1 DEF Succeed, dbVars
    <3>2. Over(t, "domain")
      BY <3>1 DEF Over
    <3>. QED
      BY <3>1, <3>2 DEF IInv, HoldersRun, Databases
  <2>2. CASE Fail(t)
    <3>1. /\ holds' = [db \in Databases |-> IF holds[db] = t THEN Nobody ELSE holds[db]]
          /\ late' = IF rev["domain"] < Copying /\ holds["domain"] = t THEN {} ELSE late
      BY <2>2 DEF Fail
    <3>2. holds'["domain"] = IF holds["domain"] = t THEN Nobody ELSE holds["domain"]
      BY <3>1 DEF Databases
    <3>3. rev["domain"] \in Nat
      BY Numbers DEF Databases
    <3>. QED
      BY <3>1, <3>2, <3>3, Disjoint DEF Copying
  <2>. QED
    BY <2>1, <2>2
<1>. QED
  BY <1>1, <1>2, CopyFrame

LEMMA NextCopies == IInv /\ CopyInv /\ [Next]_vars => CopyInv'
<1>. SUFFICES ASSUME IInv, CopyInv, [Next]_vars
              PROVE  CopyInv'
  OBVIOUS
<1>1. ASSUME UNCHANGED <<rows, rev, late, holds, from, copied>>,
             \A t \in Runs : Running(t) => head'[t] = head[t]
      PROVE  CopyInv'
  <2>1. \A t \in Runs : holds["domain"] = t => Running(t)
    BY DEF IInv, HoldersRun, Databases
  <2>. QED
    BY <1>1, <2>1, CopyFrame
<1>2. CASE UNCHANGED vars
  BY <1>1, <1>2 DEF vars, jobVars, runVars, dbVars
<1>3. ASSUME NEW b \in Builds,
             JobStep(b) \/ RunTask(b)
      PROVE  CopyInv'
  <2>1. CASE JobStep(b)
    BY <1>1, <2>1, JobSteps DEF runVars, dbVars
  <2>2. CASE RunTask(b)
    <3>1. Begin(b, app) /\ UNCHANGED <<from, copied, dbVars>>
      BY <2>2 DEF RunTask
    <3>2. \A t \in Runs : Running(t) => head'[t] = head[t]
      BY <3>1 DEF Begin, Running, IInv, Types
    <3>. QED
      BY <1>1, <3>1, <3>2 DEF dbVars
  <2>. QED
    BY <1>3, <2>1, <2>2
<1>4. ASSUME NEW d \in Downgrades, Downgrade(d) PROVE CopyInv'
  <2>1. Begin(d, 0) /\ UNCHANGED <<from, copied, dbVars>>
    BY <1>4 DEF Downgrade
  <2>2. \A t \in Runs : Running(t) => head'[t] = head[t]
    BY <2>1 DEF Begin, Running, IInv, Types
  <2>. QED
    BY <1>1, <2>1, <2>2 DEF dbVars
<1>5. ASSUME NEW c \in Certificates, BrokerAddsCertificate(c) PROVE CopyInv'
  BY <1>5, BrokerCopies
<1>6. ASSUME NEW t \in Runs, NEW db \in Databases, NothingToMigrate(t, db) PROVE CopyInv'
  BY <1>1, <1>6 DEF NothingToMigrate, jobVars, dbVars
<1>7. ASSUME NEW t \in Runs, NEW db \in Databases,
             ReadRevision(t, db) \/ Migrate(t, db) \/ Commit(t, db)
      PROVE  CopyInv'
  BY <1>7, ReadCopies, MigrateCopies, CommitCopies
<1>8. ASSUME NEW t \in Runs, Succeed(t) \/ Fail(t) PROVE CopyInv'
  BY <1>8, EndCopies
<1>. QED
  BY <1>2, <1>3, <1>4, <1>5, <1>6, <1>7, <1>8 DEF Next, JobStep

-----------------------------------------------------------------------------
(* What always holds                                                       *)

LEMMA NextKeeps == ASSUME IInv, [Next]_vars PROVE IInv'
<1>1. CASE UNCHANGED vars
  <2>1. UNCHANGED <<jobVars, task, head, at, from, copied, holds, rev, objects, rows, late>>
    BY <1>1 DEF vars, runVars, dbVars
  <2>2. Types'
    BY <2>1 DEF IInv, Types, jobVars
  <2>3. Places' /\ HoldersRun' /\ ReadsFit' /\ HeldIsFresh'
    BY <2>1 DEF IInv, Places, HoldersRun, ReadsFit, HeldIsFresh, Running, Ahead, Over
  <2>4. ReadIsOld' /\ PassedIsDone'
    BY <2>1 DEF IInv, ReadIsOld, PassedIsDone, Running, Ahead
  <2>5. QED
    BY <2>1, <2>2, <2>3, <2>4, QuietKeeps DEF IInv
<1>2. ASSUME NEW b \in Builds, JobStep(b) \/ RunTask(b) PROVE IInv'
  BY <1>2, JobKeeps, RunTaskKeeps
<1>3. ASSUME NEW d \in Downgrades, Downgrade(d) PROVE IInv'
  BY <1>3, DowngradeKeeps
<1>4. ASSUME NEW c \in Certificates, BrokerAddsCertificate(c) PROVE IInv'
  BY <1>4, BrokerKeeps
<1>5. ASSUME NEW t \in Runs, NEW db \in Databases,
             \/ ReadRevision(t, db) \/ Migrate(t, db)
             \/ NothingToMigrate(t, db) \/ Commit(t, db)
      PROVE  IInv'
  BY <1>5, ReadKeeps, MigrateKeeps, CommitKeeps
<1>6. ASSUME NEW t \in Runs, Succeed(t) \/ Fail(t) PROVE IInv'
  BY <1>6, SucceedKeeps, FailKeeps
<1>7. QED
  BY <1>1, <1>2, <1>3, <1>4, <1>5, <1>6 DEF Next, JobStep

LEMMA AlwaysIInv == Spec => []IInv
<1>1. Init => IInv
  BY SchemaStarts
<1>2. IInv /\ [Next]_vars => IInv'
  BY NextKeeps
<1>3. QED
  BY <1>1, <1>2, PTL DEF Spec

(* What a build deploys is known from its start, and its bound from its    *)
(* push on.                                                                *)
PushesKnown ==
  \A b \in Builds :
    /\ job[b] \notin {"waiting", "failed"} => version[b] # 0
    /\ job[b] \notin {"waiting", "stopped", "failed"} => oldest[b] # 0

LEMMA NextKnows == IInv /\ PushesKnown /\ [Next]_vars => PushesKnown'
<1> SUFFICES ASSUME IInv, PushesKnown, [Next]_vars PROVE PushesKnown'
  OBVIOUS
<1>1. /\ job \in [Builds -> {"waiting", "stopped", "pushed", "upgrading", "succeeded",
                             "unsuccessful", "upgraded", "deployed", "failed"}]
      /\ version \in [Builds -> {0} \cup Versions] /\ oldest \in [Builds -> {0} \cup Versions]
  BY DEF IInv, Types
<1>2. ASSUME NEW b \in Builds, JobStep(b) PROVE PushesKnown'
  <2> USE DEF Becomes
  <2>1. CASE \E v \in Versions : StopApps(b, v)
    <3>1. \A v \in Versions : v # 0
      BY Disjoint
    <3>2. QED
      BY <1>1, <2>1, <3>1 DEF StopApps, PushesKnown
  <2>2. CASE PushApp(b)
    <3>1. /\ version[b] # 0 /\ job'[b] = "pushed" /\ oldest'[b] = version[b] /\ version' = version
          /\ \A c \in Builds : c # b =>
               job'[c] = job[c] /\ oldest'[c] \in {oldest[c], version[b]}
      BY <1>1, <2>2 DEF PushApp, PushesKnown
    <3>2. QED
      BY <3>1 DEF PushesKnown
  <2>3. CASE PollTask(b)
    BY <1>1, <2>3 DEF PollTask, PushesKnown
  <2>4. CASE DeleteApp(b)
    BY <1>1, <2>4 DEF DeleteApp, Fails, PushesKnown
  <2>5. CASE JobFails(b)
    BY <1>1, <2>5 DEF JobFails, Fails, PushesKnown
  <2>6. CASE Deploy(b)
    BY <1>1, <2>6 DEF Deploy, PushesKnown
  <2>7. QED
    BY <1>2, <2>1, <2>2, <2>3, <2>4, <2>5, <2>6 DEF JobStep
<1>3. ASSUME NEW b \in Builds, RunTask(b) PROVE PushesKnown'
  BY <1>1, <1>3 DEF RunTask, Becomes, PushesKnown
<1>4. ASSUME UNCHANGED <<job, version, oldest>> PROVE PushesKnown'
  BY <1>4 DEF PushesKnown
<1>5. ASSUME NEW t \in Runs, NEW db \in Databases,
             \/ ReadRevision(t, db) \/ Migrate(t, db) \/ NothingToMigrate(t, db) \/ Commit(t, db)
      PROVE  PushesKnown'
  BY <1>4, <1>5 DEF ReadRevision, Migrate, NothingToMigrate, Commit, jobVars
<1>6. ASSUME NEW t \in Runs, Succeed(t) \/ Fail(t) PROVE PushesKnown'
  BY <1>4, <1>6 DEF Succeed, Fail, jobVars
<1>7. CASE \/ \E d \in Downgrades : Downgrade(d)
           \/ \E c \in Certificates : BrokerAddsCertificate(c)
           \/ UNCHANGED vars
  BY <1>4, <1>7 DEF Downgrade, BrokerAddsCertificate, vars, jobVars
<1>8. QED
  BY <1>2, <1>3, <1>5, <1>6, <1>7 DEF Next, JobStep

(* Every variable keeps its type: a transaction that is open belongs to a  *)
(* run of alembic that goes on, and no database ever has what no migration *)
(* makes; and the bound of a build that has pushed is some version's.      *)
THEOREM SchemaTypeCorrect == Spec => []TypeOK
<1>1. IInv /\ PushesKnown => TypeOK
  <2> SUFFICES ASSUME IInv, PushesKnown PROVE TypeOK
    OBVIOUS
  <2>1. \A db \in Databases : holds[db] # Nobody => task[holds[db]] = "running"
    BY DEF IInv, Types, HoldersRun, Running
  <2>2. ASSUME NEW db \in Databases
        PROVE  objects[db] \subseteq Schema(db, 0) \cup Schema(db, 7)
    <3>1. objects[db] = Schema(db, rev[db]) /\ rev[db] \in 0..7
      BY Numbers DEF IInv, SchemaIs
    <3>2. 1..rev[db] \subseteq 1..7
      BY <3>1
    <3>3. AddedBy(db, 1..rev[db]) \subseteq AddedBy(db, 1..7)
      BY <3>2 DEF AddedBy
    <3>4. QED
      BY <3>1, <3>3 DEF Schema
  <2>3. QED
    BY <2>1, <2>2 DEF IInv, Types, PushesKnown, TypeOK
<1>2. Init => PushesKnown
  BY DEF Init, PushesKnown
<1>3. QED
  BY <1>1, <1>2, NextKnows, AlwaysIInv, PTL DEF Spec

(* Each database is what its alembic_version says, however the runs of     *)
(* env.py and their two commits overlap and wherever they stop.            *)
THEOREM SchemaFollows == Spec => []SchemaFollowsRevision
<1>1. IInv => SchemaFollowsRevision
  BY DEF IInv, SchemaIs, SchemaFollowsRevision
<1>2. QED
  BY <1>1, AlwaysIInv, PTL

(* A build that takes its upgrade for done finds both databases at the     *)
(* head it pushed or above, or at the lowest that another build has pushed *)
(* over the shared app before its last poll, whichever task it polled.     *)
THEOREM UpgradeReachesBoth == Spec => []SuccessUpgradesBoth
<1>1. IInv => SuccessUpgradesBoth
  BY DEF IInv, AppInv, UpgradesDone, Reaches, SuccessUpgradesBoth
<1>2. QED
  BY <1>1, AlwaysIInv, PTL

(* The worker that the pipeline deploys finds in both databases what its   *)
(* models name, or those of the oldest version that was pushed over it,    *)
(* for all versions and any builds before and beside it.                   *)
THEOREM WorkerFindsItsSchema == Spec => []WorkerFits
<1>1. IInv => WorkerFits
  <2> SUFFICES ASSUME IInv, worker # Nobody, NEW db \in Databases
               PROVE  Models(db, oldest[worker]) \subseteq objects[db]
    BY DEF WorkerFits
  <2>1. worker \in Builds
    BY DEF IInv, Types
  <2>2. oldest[worker] \in 0..7 /\ rev[db] >= oldest[worker] /\ rev[db] \in 0..7
    BY <2>1, Numbers DEF IInv, AppInv, WorkerIsOld, Reaches
  <2>3. objects[db] = Schema(db, rev[db])
    BY DEF IInv, SchemaIs
  <2>4. QED
    BY <2>2, <2>3, LaterFits
<1>2. QED
  BY <1>1, AlwaysIInv, PTL

(* Every certificate that the domain broker had when the seventh revision  *)
(* copied its rows has its arn and name in the iam_ columns, whichever     *)
(* runs were lost, and however often it was downgraded and upgraded again. *)
THEOREM CopyingLeavesNone == Spec => []OldRowsAreCopied
<1>1. Init => CopyInv
  BY CopyStarts
<1>2. CopyInv => OldRowsAreCopied
  BY DEF CopyInv
<1>. QED
  BY <1>1, <1>2, NextCopies, AlwaysIInv, PTL DEF Spec
=============================================================================
