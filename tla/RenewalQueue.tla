---------------------------- MODULE RenewalQueue ----------------------------
(***************************************************************************)
(* The renewal pipelines as huey runs them: renew_all_certs commits one    *)
(* Operation row per route and enqueues the first task of its pipeline, a  *)
(* pool of workers takes tasks off the Redis list, each task enqueues its  *)
(* successor when it returns, a task that raises is scheduled again until  *)
(* its retries are used up, and then mark_operation_failed closes the      *)
(* operation and sends an alert.                                           *)
(*                                                                         *)
(* What a task does to certificates is left to AlbRenewal; a task here     *)
(* only reaches the point where its effect is committed ("worked").  That  *)
(* a route is due is left to AlbRenewal too: any operation may be created. *)
(*                                                                         *)
(* A definition that nothing here refers to is a mutant: PROJECT.json says *)
(* which action it mutates and which property that breaks.                 *)
(***************************************************************************)
EXTENDS Naturals, Sequences

CONSTANTS
  Ops,        \* ids of the operations that are ever created
  Workers,    \* the threads of the huey consumer
  NumStages,  \* how many tasks a renewal pipeline chains
  RetriesOf,  \* the retries each of these tasks is declared with
  Idle,       \* what a worker without a task holds
  NoOp        \* what renew_all_certs holds between two routes

Stages == 1..NumStages

Task == [op : Ops, stage : Stages, retries : Nat]

ASSUME QueueAssumption ==
  /\ NumStages \in Nat \ {0}
  /\ RetriesOf \in [Stages -> Nat]
  /\ Idle \notin Task
  /\ NoOp \notin Ops

VARIABLES
  opState,    \* the state column of each operation, "none" without a row
  done,       \* how many tasks of its pipeline have returned
  tries,      \* how often the task it has reached has raised so far
  alerted,    \* the operations whose failure was mailed
  lost,       \* the operations that a crash or an outage took off the queue
  queue,      \* the Redis list, tasks in the order they are taken
  schedule,   \* the Redis sorted set of tasks that wait for their retry
  running,    \* the task each worker holds
  phase,      \* how far that worker is with it
  cron        \* the operation renew_all_certs has committed but not enqueued

opVars == <<opState, done, tries, alerted, lost>>
queueVars == <<queue, schedule>>
workerVars == <<running, phase>>
vars == <<opVars, queueVars, workerVars, cron>>

Phases == {"idle", "body", "worked", "raised", "alert", "handled"}

NewTask(op, stage) == [op |-> op, stage |-> stage, retries |-> RetriesOf[stage]]

Init ==
  /\ opState = [op \in Ops |-> "none"]
  /\ done = [op \in Ops |-> 0]
  /\ tries = [op \in Ops |-> 0]
  /\ alerted = {}
  /\ lost = {}
  /\ queue = <<>>
  /\ schedule = {}
  /\ running = [w \in Workers |-> Idle]
  /\ phase = [w \in Workers |-> "idle"]
  /\ cron = NoOp

-----------------------------------------------------------------------------
(* renew_all_certs.  It is a task of its own; the worker it occupies is    *)
(* not one of Workers.                                                     *)

(* get_*_renewal_pipeline: the row is committed before there is a task.    *)
CreateOperation(op) ==
  /\ cron = NoOp
  /\ opState[op] = "none"
  /\ opState' = [opState EXCEPT ![op] = "in progress"]
  /\ cron' = op
  /\ UNCHANGED <<done, tries, alerted, lost, queueVars, workerVars>>

EnqueuePipeline ==
  /\ cron # NoOp
  /\ queue' = Append(queue, NewTask(cron, 1))
  /\ cron' = NoOp
  /\ UNCHANGED <<opVars, schedule, workerVars>>

(* An exception leaves the loop over the routes, and nothing retries it.   *)
CronFails ==
  /\ cron # NoOp
  /\ lost' = lost \cup {cron}
  /\ cron' = NoOp
  /\ UNCHANGED <<opState, done, tries, alerted, queueVars, workerVars>>

-----------------------------------------------------------------------------
(* A worker and its task.                                                  *)

GoIdle(w) ==
  /\ running' = [running EXCEPT ![w] = Idle]
  /\ phase' = [phase EXCEPT ![w] = "idle"]

GoOn(w, p) ==
  /\ phase' = [phase EXCEPT ![w] = p]
  /\ UNCHANGED running

DequeuePeeks(w) ==
  /\ phase[w] = "idle"
  /\ queue # <<>>
  /\ running' = [running EXCEPT ![w] = Head(queue)]
  /\ phase' = [phase EXCEPT ![w] = "body"]
  /\ UNCHANGED <<opVars, queueVars, cron>>

(* The task leaves Redis when it is taken, not when it is finished.        *)
Dequeue(w) ==
  /\ phase[w] = "idle"
  /\ queue # <<>>
  /\ running' = [running EXCEPT ![w] = Head(queue)]
  /\ phase' = [phase EXCEPT ![w] = "body"]
  /\ queue' = Tail(queue)
  /\ UNCHANGED <<opVars, schedule, cron>>

(* The body commits.  mark_complete, the last task, writes "succeeded".    *)
Work(w) ==
  /\ phase[w] = "body"
  /\ GoOn(w, "worked")
  /\ opState' = IF running[w].stage = NumStages
                THEN [opState EXCEPT ![running[w].op] = "succeeded"]
                ELSE opState
  /\ UNCHANGED <<done, tries, alerted, lost, queueVars, cron>>

ReturnSkips(w) ==
  LET t == running[w] IN
  /\ phase[w] = "worked"
  /\ done' = [done EXCEPT ![t.op] = t.stage]
  /\ tries' = [tries EXCEPT ![t.op] = 0]
  /\ queue' = IF t.stage < NumStages
              THEN Append(queue, NewTask(t.op, NumStages))
              ELSE queue
  /\ GoIdle(w)
  /\ UNCHANGED <<opState, alerted, lost, schedule, cron>>

(* The task returns and huey enqueues the next one of the pipeline.        *)
Return(w) ==
  LET t == running[w] IN
  /\ phase[w] = "worked"
  /\ done' = [done EXCEPT ![t.op] = t.stage]
  /\ tries' = [tries EXCEPT ![t.op] = 0]
  /\ queue' = IF t.stage < NumStages
              THEN Append(queue, NewTask(t.op, t.stage + 1))
              ELSE queue
  /\ GoIdle(w)
  /\ UNCHANGED <<opState, alerted, lost, schedule, cron>>

(* The body raises, before its commit or, when the answer to the commit is *)
(* lost, after it.                                                         *)
Raise(w) ==
  /\ phase[w] \in {"body", "worked"}
  /\ GoOn(w, "raised")
  /\ tries' = [tries EXCEPT ![running[w].op] = @ + 1]
  /\ UNCHANGED <<opState, done, alerted, lost, queueVars, cron>>

MarkFailedAtOnce(w) ==
  /\ phase[w] = "raised"
  /\ opState' = [opState EXCEPT ![running[w].op] = "failed"]
  /\ GoOn(w, "alert")
  /\ UNCHANGED <<done, tries, alerted, lost, queueVars, cron>>

MarkFailedSilently(w) ==
  /\ phase[w] = "raised"
  /\ running[w].retries = 0
  /\ opState' = [opState EXCEPT ![running[w].op] = "failed"]
  /\ GoOn(w, "handled")
  /\ UNCHANGED <<done, tries, alerted, lost, queueVars, cron>>

MarkFailedNever(w) ==
  /\ phase[w] = "raised"
  /\ running[w].retries = 0
  /\ GoOn(w, "handled")
  /\ UNCHANGED <<opVars, queueVars, cron>>

(* mark_operation_failed, up to its commit.  It returns at once while the  *)
(* task has retries left: see Requeue.                                     *)
MarkOperationFailed(w) ==
  /\ phase[w] = "raised"
  /\ running[w].retries = 0
  /\ opState' = [opState EXCEPT ![running[w].op] = "failed"]
  /\ GoOn(w, "alert")
  /\ UNCHANGED <<done, tries, alerted, lost, queueVars, cron>>

SendAlert(w) ==
  /\ phase[w] = "alert"
  /\ alerted' = alerted \cup {running[w].op}
  /\ GoOn(w, "handled")
  /\ UNCHANGED <<opState, done, tries, lost, queueVars, cron>>

(* huey swallows what a signal handler raises.  The handler may fail       *)
(* before its commit, at it (the row is or is not written) and at the mail.*)
HandlerFails(w) ==
  LET op == running[w].op IN
  /\ \/ /\ phase[w] = "raised"
        /\ running[w].retries = 0
        /\ opState' \in {opState, [opState EXCEPT ![op] = "failed"]}
     \/ /\ phase[w] = "alert"
        /\ UNCHANGED opState
  /\ lost' = lost \cup {op}
  /\ GoOn(w, "handled")
  /\ UNCHANGED <<done, tries, alerted, queueVars, cron>>

RequeueUncounted(w) ==
  LET t == running[w] IN
  /\ phase[w] = "handled" \/ (phase[w] = "raised" /\ t.retries > 0)
  /\ schedule' = IF t.retries > 0 THEN schedule \cup {t} ELSE schedule
  /\ GoIdle(w)
  /\ UNCHANGED <<opVars, queue, cron>>

(* What huey does after the handlers: a task with retries is scheduled     *)
(* again with one less, any other is forgotten.                            *)
Requeue(w) ==
  LET t == running[w] IN
  /\ \/ phase[w] = "handled"
     \/ phase[w] = "raised" /\ t.retries > 0
  /\ schedule' = IF t.retries > 0
                 THEN schedule \cup {[t EXCEPT !.retries = @ - 1]}
                 ELSE schedule
  /\ GoIdle(w)
  /\ UNCHANGED <<opVars, queue, cron>>

(* Redis does not answer when the successor is enqueued or the retry is    *)
(* scheduled: the worker logs it and takes its next task.                  *)
RedisFails(w) ==
  /\ phase[w] \in {"worked", "raised"}
  /\ phase[w] = "raised" => running[w].retries > 0
  /\ lost' = lost \cup {running[w].op}
  /\ GoIdle(w)
  /\ UNCHANGED <<opState, done, tries, alerted, queueVars, cron>>

-----------------------------------------------------------------------------
(* The retry delay is over: the scheduler moves the task to the list.      *)
ScheduleDue(t) ==
  /\ t \in schedule
  /\ schedule' = schedule \ {t}
  /\ queue' = Append(queue, t)
  /\ UNCHANGED <<opVars, workerVars, cron>>

(* The consumer stops (a deploy, an eviction, a crash) and starts again:   *)
(* what its threads held is gone, with the tasks that the scheduler had    *)
(* already taken off the sorted set.                                       *)
Crash ==
  /\ \E taken \in SUBSET schedule :
       /\ schedule' = schedule \ taken
       /\ lost' = lost \cup {t.op : t \in taken}
                       \cup {running[w].op : w \in {v \in Workers : phase[v] # "idle"}}
                       \cup ({cron} \ {NoOp})
  /\ running' = [w \in Workers |-> Idle]
  /\ phase' = [w \in Workers |-> "idle"]
  /\ cron' = NoOp
  /\ UNCHANGED <<opState, done, tries, alerted, queue>>

WorkerStep(w) ==
  \/ Dequeue(w) \/ Work(w) \/ Return(w) \/ Raise(w) \/ MarkOperationFailed(w)
  \/ SendAlert(w) \/ HandlerFails(w) \/ Requeue(w) \/ RedisFails(w)

CronStep == (\E op \in Ops : CreateOperation(op)) \/ EnqueuePipeline \/ CronFails

SchedulerStep == \E t \in schedule : ScheduleDue(t)

Next ==
  \/ CronStep
  \/ \E w \in Workers : WorkerStep(w)
  \/ SchedulerStep
  \/ Crash

Spec == Init /\ [][Next]_vars

(* A worker's loop always goes on to its next step (every wait of a task   *)
(* has an end), renew_all_certs goes on with an operation it has created,  *)
(* and the scheduler looks at the sorted set every second.                 *)
Fairness ==
  /\ \A w \in Workers : WF_vars(WorkerStep(w))
  /\ WF_vars(EnqueuePipeline \/ CronFails)
  /\ WF_vars(SchedulerStep)

FairSpec == Spec /\ Fairness

-----------------------------------------------------------------------------
(* Properties *)

TypeOK ==
  /\ opState \in [Ops -> {"none", "in progress", "succeeded", "failed"}]
  /\ done \in [Ops -> 0..NumStages]
  /\ tries \in [Ops -> Nat]
  /\ alerted \subseteq Ops
  /\ lost \subseteq Ops
  /\ queue \in Seq(Task)
  /\ schedule \subseteq Task
  /\ running \in [Workers -> Task \cup {Idle}]
  /\ phase \in [Workers -> Phases]
  /\ cron \in Ops \cup {NoOp}
  /\ \A w \in Workers : running[w] = Idle <=> phase[w] = "idle"

InQueue(op) == \E i \in 1..Len(queue) : queue[i].op = op
InSchedule(op) == \E t \in schedule : t.op = op
Held(op) == \E w \in Workers : phase[w] # "idle" /\ running[w].op = op

(* The chain of tasks of an operation never forks: however retries, the    *)
(* scheduler and the workers interleave, an operation has at most one task *)
(* on the list, on the schedule and in the workers together (the .then     *)
(* chain of queue_all_tasks and huey's re-enqueueing of one task object).  *)
OneTaskPerOp ==
  /\ \A i, j \in 1..Len(queue) : queue[i].op = queue[j].op => i = j
  /\ \A s, t \in schedule : s.op = t.op => s = t
  /\ \A v, w \in Workers :
       phase[v] # "idle" /\ phase[w] # "idle" /\ running[v].op = running[w].op
         => v = w
  /\ \A op \in Ops : /\ ~(InQueue(op) /\ InSchedule(op))
                     /\ ~(InQueue(op) /\ Held(op))
                     /\ ~(InSchedule(op) /\ Held(op))

(* A row says "failed" only when one task of the pipeline has raised on    *)
(* its first run and on every retry it is declared with (25 runs for a     *)
(* retriable_task, one for the wait): the guard of mark_operation_failed.  *)
FailedAfterEveryRetry ==
  \A op \in Ops :
    opState[op] = "failed" => tries[op] = RetriesOf[done[op] + 1] + 1

(* "succeeded" is never written before all the tasks ahead of              *)
(* mark_complete have returned, even when some of them were retried.       *)
SucceededAfterEveryStage ==
  \A op \in Ops : opState[op] = "succeeded" => done[op] >= NumStages - 1

(* No operation is forgotten: one that is in progress has a task somewhere *)
(* or is about to be enqueued, and one that failed is alerted or about to  *)
(* be, unless a crash or an outage took it.                                *)
NothingForgotten ==
  \A op \in Ops \ lost :
    /\ opState[op] = "in progress" =>
         InQueue(op) \/ InSchedule(op) \/ Held(op) \/ cron = op
    /\ opState[op] = "failed" =>
         \/ op \in alerted
         \/ \E w \in Workers : phase[w] = "alert" /\ running[w].op = op

(* Once a row says "failed" it stays so, and no worker ever takes a task   *)
(* of that operation again.                                                *)
FailedIsFinal ==
  [][\A op \in Ops : opState[op] = "failed" =>
       /\ opState'[op] = "failed"
       /\ done'[op] = done[op]
       /\ \A w \in Workers :
            phase[w] = "idle" /\ phase'[w] # "idle" => running'[w].op # op]_vars

(* Every operation that was created ends: "succeeded" or "failed" is       *)
(* reached, unless a crash or an outage took its task.                     *)
EveryOperationEnds ==
  \A op \in Ops :
    opState[op] = "in progress" ~>
      opState[op] \in {"succeeded", "failed"} \/ op \in lost

(* Every failure is mailed, unless a crash or an outage came between.      *)
EveryFailureIsAlerted ==
  \A op \in Ops : opState[op] = "failed" ~> op \in alerted \cup lost

-----------------------------------------------------------------------------
(* The inductive invariant: how a task and the row of its operation agree, *)
(* wherever the task is.                                                   *)

(* The row of an operation that has a task which may still run.            *)
Open(t) == \/ opState[t.op] = "in progress"
           \/ opState[t.op] = "succeeded" /\ t.stage = NumStages

(* A task that waits for a worker, or that is in its body: the pipeline    *)
(* stands right before it, and its spent and its left retries add up.      *)
Waits(t) ==
  /\ Open(t)
  /\ done[t.op] = t.stage - 1
  /\ tries[t.op] + t.retries = RetriesOf[t.stage]

(* A task that has raised, while the worker deals with the exception.      *)
HasRaised(t, p) ==
  /\ Open(t) \/ (opState[t.op] = "failed" /\ p # "raised")
  /\ p = "alert" => opState[t.op] = "failed"
  /\ p # "raised" => t.retries = 0
  /\ done[t.op] = t.stage - 1
  /\ tries[t.op] + t.retries = RetriesOf[t.stage] + 1

TasksInStep ==
  /\ \A i \in 1..Len(queue) : Waits(queue[i])
  /\ \A t \in schedule : Waits(t)
  /\ \A w \in Workers :
       /\ phase[w] \in {"body", "worked"} => Waits(running[w])
       /\ phase[w] = "worked" /\ running[w].stage = NumStages
            => opState[running[w].op] = "succeeded"
       /\ phase[w] \in {"raised", "alert", "handled"}
            => HasRaised(running[w], phase[w])

(* An operation without a row, or whose pipeline is not enqueued yet, is   *)
(* untouched.                                                              *)
Untouched(op) ==
  /\ done[op] = 0
  /\ tries[op] = 0
  /\ ~InQueue(op) /\ ~InSchedule(op) /\ ~Held(op)

OpsInStep ==
  /\ cron # NoOp => opState[cron] = "in progress" /\ Untouched(cron)
  /\ \A op \in Ops :
       /\ opState[op] = "none" => Untouched(op)
       /\ opState[op] = "succeeded" => done[op] >= NumStages - 1
       /\ opState[op] = "failed" =>
            /\ done[op] < NumStages
            /\ tries[op] = RetriesOf[done[op] + 1] + 1

(* A task never runs ahead of its pipeline or behind it, its retries are   *)
(* counted exactly, and its row says so: the rest of what the code keeps   *)
(* about a pipeline follows from this.                                     *)
InStep == TypeOK /\ OneTaskPerOp /\ TasksInStep /\ OpsInStep

(* The engine keeps the promise of OperationLifecycle.                     *)
Lifecycle == INSTANCE OperationLifecycle
ImplementsLifecycle == Lifecycle!Spec
=============================================================================
