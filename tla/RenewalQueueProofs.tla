------------------------- MODULE RenewalQueueProofs -------------------------
(***************************************************************************)
(* Theorems about RenewalQueue, for any number of operations, workers,     *)
(* stages and retries.                                                     *)
(***************************************************************************)
EXTENDS RenewalQueue, SequenceTheorems, TLAPS

(* The constants, as the proofs use them.                                  *)
LEMMA Constants ==
  /\ NumStages \in Nat \ {0}
  /\ 1 \in Stages
  /\ NumStages \in Stages
  /\ \A s \in Stages : /\ s \in Nat
                       /\ s \in 0..NumStages
                       /\ RetriesOf[s] \in Nat
                       /\ s < NumStages => s + 1 \in Stages
  /\ Idle \notin Task
  /\ NoOp \notin Ops
BY QueueAssumption DEF QueueAssumption, Stages

(* The first task of a pipeline, and the successor of a task, are tasks.   *)
LEMMA NewTaskType ==
  ASSUME NEW op \in Ops, NEW stage \in Stages
  PROVE  /\ NewTask(op, stage) \in Task
         /\ NewTask(op, stage).op = op
         /\ NewTask(op, stage).stage = stage
         /\ NewTask(op, stage).retries = RetriesOf[stage]
BY Constants DEF NewTask, Task

(* What a worker that is not idle holds is a task.                         *)
LEMMA HeldTask ==
  ASSUME TypeOK, NEW w \in Workers, phase[w] # "idle"
  PROVE  /\ running[w] \in Task
         /\ running[w].op \in Ops
         /\ running[w].stage \in Stages
         /\ running[w].retries \in Nat
BY DEF TypeOK, Task

(* A counter per operation stays one when it is counted up.                *)
LEMMA CountUp ==
  ASSUME NEW S, NEW f \in [S -> Nat], NEW x \in S
  PROVE  [f EXCEPT ![x] = @ + 1] \in [S -> Nat]
OBVIOUS

(* A retry is the same task with one retry less.                           *)
LEMMA RetryType ==
  ASSUME NEW t \in Task, t.retries > 0
  PROVE  /\ [t EXCEPT !.retries = @ - 1] \in Task
         /\ [t EXCEPT !.retries = @ - 1].op = t.op
         /\ [t EXCEPT !.retries = @ - 1].stage = t.stage
         /\ [t EXCEPT !.retries = @ - 1].retries = t.retries - 1
<1> DEFINE r == [t EXCEPT !.retries = @ - 1]
<1>1. t.op \in Ops /\ t.stage \in Stages /\ t.retries \in Nat
  BY DEF Task
<1>2. r = [op |-> t.op, stage |-> t.stage, retries |-> t.retries - 1]
  BY DEF Task
<1>3. QED
  BY <1>1, <1>2 DEF Task

(* Redis list operations: the next task is the first, the rest keep their  *)
(* order, and a new task goes last.                                        *)
LEMMA QueueTail ==
  ASSUME TypeOK, queue # <<>>
  PROVE  /\ Head(queue) \in Task
         /\ Head(queue) = queue[1]
         /\ Len(queue) \in Nat \ {0}
         /\ Tail(queue) \in Seq(Task)
         /\ Len(Tail(queue)) = Len(queue) - 1
         /\ \A i \in 1..Len(Tail(queue)) : Tail(queue)[i] = queue[i + 1]
<1>1. queue \in Seq(Task)
  BY DEF TypeOK
<1>2. QED
  BY <1>1, HeadTailProperties, LenProperties, EmptySeq

LEMMA QueueAppend ==
  ASSUME TypeOK, NEW t \in Task
  PROVE  /\ Append(queue, t) \in Seq(Task)
         /\ Len(queue) \in Nat
         /\ Len(Append(queue, t)) = Len(queue) + 1
         /\ \A i \in 1..Len(queue) : Append(queue, t)[i] = queue[i]
         /\ Append(queue, t)[Len(queue) + 1] = t
<1>1. queue \in Seq(Task)
  BY DEF TypeOK
<1>2. QED
  BY <1>1, AppendProperties, LenProperties

-----------------------------------------------------------------------------
(* Type correctness *)

LEMMA TypeInit == Init => TypeOK
BY QueueAssumption, EmptySeq DEF QueueAssumption, Init, TypeOK, Phases

LEMMA TypeNext == TypeOK /\ [Next]_vars => TypeOK'
<1> SUFFICES ASSUME TypeOK, [Next]_vars
             PROVE  TypeOK'
  OBVIOUS
<1> USE DEF TypeOK, Phases, opVars, queueVars, workerVars
<1>1. ASSUME NEW op \in Ops, CreateOperation(op)
      PROVE  TypeOK'
  BY <1>1 DEF CreateOperation
<1>2. CASE EnqueuePipeline
  <2>1. NewTask(cron, 1) \in Task
    BY <1>2, Constants, NewTaskType DEF EnqueuePipeline
  <2>2. queue' \in Seq(Task)
    BY <1>2, <2>1, QueueAppend DEF EnqueuePipeline
  <2>3. QED
    BY <1>2, <2>2 DEF EnqueuePipeline
<1>3. CASE CronFails
  BY <1>3 DEF CronFails
<1>4. ASSUME NEW w \in Workers, Dequeue(w)
      PROVE  TypeOK'
  <2>1. Head(queue) \in Task /\ Tail(queue) \in Seq(Task)
    BY <1>4, QueueTail DEF Dequeue
  <2>2. QED
    BY <1>4, <2>1, Constants DEF Dequeue
<1>5. ASSUME NEW w \in Workers, Work(w)
      PROVE  TypeOK'
  BY <1>5, HeldTask DEF Work, GoOn
<1>6. ASSUME NEW w \in Workers, Return(w)
      PROVE  TypeOK'
  <2>1. phase[w] # "idle"
    BY <1>6 DEF Return
  <2>2. running[w].op \in Ops /\ running[w].stage \in Stages
    BY <2>1, HeldTask
  <2>3. queue' \in Seq(Task)
    <3>1. CASE running[w].stage < NumStages
      <4>1. running[w].stage + 1 \in Stages
        BY <2>2, <3>1, Constants
      <4>2. QED
        BY <1>6, <2>2, <3>1, <4>1, NewTaskType, QueueAppend DEF Return
    <3>2. CASE ~(running[w].stage < NumStages)
      BY <1>6, <3>2 DEF Return
    <3>3. QED
      BY <3>1, <3>2
  <2>4. done' \in [Ops -> 0..NumStages]
    BY <1>6, <2>2, Constants DEF Return
  <2>5. QED
    BY <1>6, <2>2, <2>3, <2>4 DEF Return, GoIdle
<1>7. ASSUME NEW w \in Workers, Raise(w)
      PROVE  TypeOK'
  <2>1. phase[w] # "idle" /\ running[w].op \in Ops
    BY <1>7, HeldTask DEF Raise
  <2>2. tries' \in [Ops -> Nat]
    BY <1>7, <2>1, CountUp DEF Raise
  <2>3. QED
    BY <1>7, <2>1, <2>2 DEF Raise, GoOn
<1>8. ASSUME NEW w \in Workers, MarkOperationFailed(w)
      PROVE  TypeOK'
  BY <1>8, HeldTask DEF MarkOperationFailed, GoOn
<1>9. ASSUME NEW w \in Workers, SendAlert(w)
      PROVE  TypeOK'
  BY <1>9, HeldTask DEF SendAlert, GoOn
<1>10. ASSUME NEW w \in Workers, HandlerFails(w)
       PROVE  TypeOK'
  <2>1. phase[w] # "idle" /\ running[w].op \in Ops
    BY <1>10, HeldTask DEF HandlerFails
  <2>2. opState' \in [Ops -> {"none", "in progress", "succeeded", "failed"}]
    BY <1>10, <2>1 DEF HandlerFails
  <2>3. QED
    BY <1>10, <2>1, <2>2 DEF HandlerFails, GoOn
<1>11. ASSUME NEW w \in Workers, Requeue(w)
       PROVE  TypeOK'
  <2>1. running[w] \in Task
    BY <1>11, HeldTask DEF Requeue
  <2>2. running[w].retries > 0 => [running[w] EXCEPT !.retries = @ - 1] \in Task
    BY <2>1, RetryType
  <2>3. schedule' \subseteq Task
    BY <1>11, <2>2 DEF Requeue
  <2>4. UNCHANGED <<opVars, queue, cron>>
    BY <1>11 DEF Requeue
  <2>5. GoIdle(w)
    BY <1>11 DEF Requeue
  <2>6. QED
    BY <2>3, <2>4, <2>5 DEF GoIdle
<1>12. ASSUME NEW w \in Workers, RedisFails(w)
       PROVE  TypeOK'
  BY <1>12, HeldTask DEF RedisFails, GoIdle
<1>13. ASSUME NEW t \in schedule, ScheduleDue(t)
       PROVE  TypeOK'
  BY <1>13, QueueAppend DEF ScheduleDue
<1>14. CASE Crash
  <2>1. lost' \subseteq Ops
    <3>1. \A t \in schedule : t.op \in Ops
      BY DEF Task
    <3>2. \A w \in Workers : phase[w] # "idle" => running[w].op \in Ops
      BY HeldTask
    <3>3. PICK taken \in SUBSET schedule :
            lost' = lost \cup {t.op : t \in taken}
                      \cup {running[w].op : w \in {v \in Workers : phase[v] # "idle"}}
                      \cup ({cron} \ {NoOp})
      BY <1>14 DEF Crash
    <3>4. QED
      BY <3>1, <3>2, <3>3
  <2>2. schedule' \subseteq Task
    BY <1>14 DEF Crash
  <2>3. UNCHANGED <<opState, done, tries, alerted, queue>>
    BY <1>14 DEF Crash
  <2>4. /\ running' = [v \in Workers |-> Idle]
        /\ phase' = [v \in Workers |-> "idle"]
        /\ cron' = NoOp
    BY <1>14 DEF Crash
  <2>5. QED
    BY <2>1, <2>2, <2>3, <2>4
<1>15. CASE UNCHANGED vars
  BY <1>15 DEF vars
<1>16. QED
  BY <1>1, <1>2, <1>3, <1>4, <1>5, <1>6, <1>7, <1>8, <1>9, <1>10, <1>11,
     <1>12, <1>13, <1>14, <1>15
     DEF Next, CronStep, WorkerStep, SchedulerStep

(* The state keeps its types, and a worker is idle exactly when it holds   *)
(* no task.                                                                *)
THEOREM TypeCorrect == Spec => []TypeOK
BY TypeInit, TypeNext, PTL DEF Spec

-----------------------------------------------------------------------------
(* The inductive invariant                                                 *)

(* Everything on the list, on the schedule and in the workers is a task.   *)
LEMMA AllAreTasks ==
  ASSUME TypeOK
  PROVE  /\ Len(queue) \in Nat
         /\ \A i \in 1..Len(queue) : queue[i] \in Task
         /\ \A t \in schedule : t \in Task
         /\ \A w \in Workers : phase[w] # "idle" => running[w] \in Task
         /\ \A t \in Task : t.op \in Ops /\ t.stage \in Stages /\ t.retries \in Nat
<1>1. queue \in Seq(Task) /\ schedule \subseteq Task
  BY DEF TypeOK
<1>2. \A i \in 1..Len(queue) : queue[i] \in Task
  BY <1>1, ElementOfSeq
<1>3. QED
  BY <1>1, <1>2, HeldTask, LenProperties DEF Task

(* The task a worker holds is the only one of its operation, which has a   *)
(* row and is not the one that renew_all_certs is about to enqueue.        *)
LEMMA OnlyTask ==
  ASSUME InStep, NEW w \in Workers, phase[w] # "idle"
  PROVE  /\ \A i \in 1..Len(queue) : queue[i].op # running[w].op
         /\ \A t \in schedule : t.op # running[w].op
         /\ \A v \in Workers \ {w} : phase[v] # "idle" => running[v].op # running[w].op
         /\ cron # running[w].op
         /\ opState[running[w].op] # "none"
<1>1. running[w].op \in Ops
  BY HeldTask DEF InStep
<1>2. Held(running[w].op)
  BY DEF Held
<1>3. ~InQueue(running[w].op) /\ ~InSchedule(running[w].op)
  BY <1>1, <1>2 DEF InStep, OneTaskPerOp
<1>4. \A v \in Workers \ {w} : phase[v] # "idle" => running[v].op # running[w].op
  BY DEF InStep, OneTaskPerOp
<1>5. cron # running[w].op
  BY <1>1, <1>2, Constants DEF InStep, OpsInStep, Untouched
<1>6. opState[running[w].op] # "none"
  BY <1>1, <1>2 DEF InStep, OpsInStep, Untouched
<1>7. QED
  BY <1>3, <1>4, <1>5, <1>6 DEF InQueue, InSchedule

LEMMA InStepInit == Init => InStep
<1> SUFFICES ASSUME Init
             PROVE  InStep
  OBVIOUS
<1>1. TypeOK
  BY TypeInit
<1>2. Len(queue) = 0
  BY EmptySeq DEF Init
<1>3. OneTaskPerOp
  BY <1>2 DEF Init, OneTaskPerOp, InQueue, InSchedule, Held
<1>4. TasksInStep
  BY <1>2 DEF Init, TasksInStep
<1>5. OpsInStep
  BY <1>2 DEF Init, OpsInStep, Untouched, InQueue, InSchedule, Held
<1>6. QED
  BY <1>1, <1>3, <1>4, <1>5 DEF InStep

(* Steps that neither move a task nor let a worker take or drop one.       *)
TasksStay ==
  /\ UNCHANGED <<queue, schedule, running>>
  /\ \A w \in Workers : phase'[w] = "idle" <=> phase[w] = "idle"

LEMMA StayInPlace ==
  ASSUME InStep, TasksStay
  PROVE  /\ OneTaskPerOp'
         /\ \A op : InQueue(op)' <=> InQueue(op)
         /\ \A op : InSchedule(op)' <=> InSchedule(op)
         /\ \A op : Held(op)' <=> Held(op)
<1>1. \A op : InQueue(op)' <=> InQueue(op)
  BY DEF TasksStay, InQueue
<1>2. \A op : InSchedule(op)' <=> InSchedule(op)
  BY DEF TasksStay, InSchedule
<1>3. \A op : Held(op)' <=> Held(op)
  BY DEF TasksStay, Held
<1>4. OneTaskPerOp'
  <2>1. OneTaskPerOp
    BY DEF InStep
  <2>2. QED
    BY <1>1, <1>2, <1>3, <2>1 DEF OneTaskPerOp, TasksStay
<1>5. QED
  BY <1>1, <1>2, <1>3, <1>4

LEMMA CreateOperationInStep ==
  ASSUME InStep, TypeOK', NEW op \in Ops, CreateOperation(op)
  PROVE  InStep'
<1>1. TasksStay
  BY DEF CreateOperation, TasksStay, queueVars, workerVars
<1>2. Untouched(op)
  BY DEF InStep, OpsInStep, CreateOperation
<1>3. /\ UNCHANGED <<done, tries, queue, schedule, running, phase>>
      /\ cron' = op
      /\ opState'[op] = "in progress"
      /\ \A o \in Ops \ {op} : opState'[o] = opState[o]
  BY DEF CreateOperation, queueVars, workerVars, InStep, TypeOK
<1>4. TasksInStep'
  <2>1. /\ \A i \in 1..Len(queue) : queue[i].op # op
        /\ \A t \in schedule : t.op # op
        /\ \A w \in Workers : phase[w] # "idle" => running[w].op # op
    BY <1>2 DEF Untouched, InQueue, InSchedule, Held
  <2>2. \A i \in 1..Len(queue) : Waits(queue[i])'
    BY <1>3, <2>1, AllAreTasks DEF InStep, TasksInStep, Waits, Open
  <2>3. \A t \in schedule : Waits(t)'
    BY <1>3, <2>1, AllAreTasks DEF InStep, TasksInStep, Waits, Open
  <2>4. \A w \in Workers : phase[w] # "idle"
           => opState'[running[w].op] = opState[running[w].op]
    BY <1>3, <2>1, HeldTask DEF InStep
  <2>5. QED
    BY <1>3, <2>2, <2>3, <2>4 DEF InStep, TasksInStep, Waits, HasRaised, Open
<1>5. OpsInStep'
  <2>1. \A o : Untouched(o)' <=> Untouched(o)
    BY <1>1, <1>3, StayInPlace DEF Untouched
  <2>2. QED
    BY <1>2, <1>3, <2>1 DEF InStep, OpsInStep
<1>6. QED
  BY <1>1, <1>4, <1>5, StayInPlace DEF InStep

LEMMA CronFailsInStep ==
  ASSUME InStep, TypeOK', CronFails
  PROVE  InStep'
<1>1. TasksStay
  BY DEF CronFails, TasksStay, queueVars, workerVars
<1>2. UNCHANGED <<opState, done, tries, queue, schedule, running, phase>>
  BY DEF CronFails, queueVars, workerVars
<1>3. TasksInStep'
  BY <1>2 DEF InStep, TasksInStep, Waits, HasRaised, Open
<1>4. OpsInStep'
  <2>1. \A o : Untouched(o)' <=> Untouched(o)
    BY <1>1, <1>2, StayInPlace DEF Untouched
  <2>2. cron' = NoOp
    BY DEF CronFails
  <2>3. QED
    BY <1>2, <2>1, <2>2 DEF InStep, OpsInStep
<1>5. QED
  BY <1>1, <1>3, <1>4, StayInPlace DEF InStep

(* A worker goes on with the task it holds: rows of other operations and   *)
(* tasks of other operations are as before.                                *)
LEMMA OwnStepInStep ==
  ASSUME InStep, TypeOK', NEW w \in Workers,
         phase[w] # "idle", phase'[w] # "idle",
         UNCHANGED <<queue, schedule, running, cron, done>>,
         \A v \in Workers \ {w} : phase'[v] = phase[v],
         \A op \in Ops \ {running[w].op} :
           opState'[op] = opState[op] /\ tries'[op] = tries[op],
         phase'[w] \in {"body", "worked"} => Waits(running[w])',
         phase'[w] = "worked" /\ running[w].stage = NumStages
           => opState'[running[w].op] = "succeeded",
         phase'[w] \in {"raised", "alert", "handled"}
           => HasRaised(running[w], phase[w])'
  PROVE  InStep'
<1> DEFINE own == running[w].op
<1>1. TasksStay
  BY DEF TasksStay
<1>2. /\ own \in Ops
      /\ running[w] \in Task
      /\ running[w].stage \in Stages
  BY HeldTask DEF InStep
<1>3. TasksInStep'
  <2>0. ASSUME NEW t \in Task, t.op # own, Waits(t)
        PROVE  Waits(t)'
    <3>1. t.op \in Ops \ {own}
      BY <2>0 DEF Task
    <3>2. opState'[t.op] = opState[t.op] /\ tries'[t.op] = tries[t.op]
      BY <3>1
    <3>3. QED
      BY <2>0, <3>2 DEF Waits, Open
  <2>1. \A i \in 1..Len(queue') : Waits(queue[i])'
    <3>1. \A i \in 1..Len(queue) : queue[i] \in Task /\ queue[i].op # own
      BY OnlyTask, AllAreTasks DEF InStep
    <3>2. \A i \in 1..Len(queue) : Waits(queue[i])
      BY DEF InStep, TasksInStep
    <3>3. \A i \in 1..Len(queue) : Waits(queue[i])'
      BY <2>0, <3>1, <3>2 DEF Waits, Open
    <3>4. QED
      BY <3>3
  <2>2. \A t \in schedule' : Waits(t)'
    <3>1. \A t \in schedule : t \in Task /\ t.op # own
      BY OnlyTask, AllAreTasks DEF InStep
    <3>2. \A t \in schedule : Waits(t)
      BY DEF InStep, TasksInStep
    <3>3. QED
      BY <2>0, <3>1, <3>2
  <2>3. \A v \in Workers \ {w} : phase[v] # "idle" =>
          /\ opState'[running[v].op] = opState[running[v].op]
          /\ tries'[running[v].op] = tries[running[v].op]
    BY OnlyTask, HeldTask DEF InStep
  <2>4. ASSUME NEW v \in Workers \ {w}
        PROVE  /\ phase'[v] \in {"body", "worked"} => Waits(running[v])'
               /\ phase'[v] = "worked" /\ running'[v].stage = NumStages
                    => opState'[running'[v].op] = "succeeded"
               /\ phase'[v] \in {"raised", "alert", "handled"}
                    => HasRaised(running[v], phase[v])'
    <3>1. phase'[v] = phase[v] /\ running' = running /\ done' = done
      OBVIOUS
    <3>2. /\ phase[v] \in {"body", "worked"} => Waits(running[v])
          /\ phase[v] = "worked" /\ running[v].stage = NumStages
               => opState[running[v].op] = "succeeded"
          /\ phase[v] \in {"raised", "alert", "handled"}
               => HasRaised(running[v], phase[v])
      BY DEF InStep, TasksInStep
    <3>3. CASE phase[v] = "idle"
      BY <3>1, <3>3
    <3>4. CASE phase[v] # "idle"
      <4>1. /\ opState'[running[v].op] = opState[running[v].op]
            /\ tries'[running[v].op] = tries[running[v].op]
        BY <2>3, <3>4
      <4>2. Waits(running[v]) => Waits(running[v])'
        BY <3>1, <4>1 DEF Waits, Open
      <4>3. HasRaised(running[v], phase[v]) => HasRaised(running[v], phase[v])'
        BY <3>1, <4>1 DEF HasRaised, Open
      <4>4. QED
        BY <3>1, <3>2, <4>1, <4>2, <4>3
    <3>5. QED
      BY <3>3, <3>4
  <2>5. QED
    BY <2>1, <2>2, <2>4 DEF TasksInStep
<1>4. OpsInStep'
  <2>1. \A op \in Ops \ {own} : Untouched(op)' <=> Untouched(op)
    BY <1>1, StayInPlace DEF Untouched
  <2>2. cron' # NoOp => opState'[cron'] = "in progress" /\ Untouched(cron)'
    <3>1. cron # own
      BY OnlyTask
    <3>2. cron # NoOp => cron \in Ops
      BY DEF InStep, TypeOK
    <3>3. cron # NoOp => Untouched(cron)'
      BY <1>1, <3>1, <3>2, StayInPlace DEF Untouched, InStep, OpsInStep
    <3>4. QED
      BY <3>1, <3>2, <3>3 DEF InStep, OpsInStep
  <2>3. ASSUME NEW op \in Ops \ {own}
        PROVE  /\ opState'[op] = "none" => Untouched(op)'
               /\ opState'[op] = "succeeded" => done'[op] >= NumStages - 1
               /\ opState'[op] = "failed" =>
                    /\ done'[op] < NumStages
                    /\ tries'[op] = RetriesOf[done'[op] + 1] + 1
    BY <2>1 DEF InStep, OpsInStep
  <2>4. /\ opState'[own] # "none"
        /\ opState'[own] = "succeeded" => done'[own] >= NumStages - 1
        /\ opState'[own] = "failed" =>
             /\ done'[own] < NumStages
             /\ tries'[own] = RetriesOf[done'[own] + 1] + 1
    <3>1. phase'[w] \in {"body", "worked", "raised", "alert", "handled"}
      BY DEF TypeOK, Phases
    <3>2. done'[own] = running[w].stage - 1
      BY <3>1 DEF Waits, HasRaised
    <3>3. running[w].stage \in Nat /\ done'[own] + 1 = running[w].stage
      <4>1. running[w].stage \in Nat
        BY <1>2, Constants
      <4>2. QED
        BY <3>2, <4>1
    <3>4. \/ opState'[own] = "in progress"
          \/ opState'[own] = "succeeded" /\ running[w].stage = NumStages
          \/ /\ opState'[own] = "failed"
             /\ running[w].retries = 0
             /\ tries'[own] + running[w].retries = RetriesOf[running[w].stage] + 1
      BY <3>1 DEF Waits, HasRaised, Open
    <3>5. tries'[own] \in Nat /\ RetriesOf[running[w].stage] \in Nat
      BY <1>2, Constants DEF TypeOK
    <3>6. running[w].stage <= NumStages
      BY <1>2 DEF Stages
    <3>7. NumStages \in Nat
      BY Constants
    <3>8. opState'[own] = "succeeded" => done'[own] >= NumStages - 1
      BY <3>2, <3>4, <3>7
    <3>9. ASSUME opState'[own] = "failed"
          PROVE  /\ done'[own] < NumStages
                 /\ tries'[own] = RetriesOf[done'[own] + 1] + 1
      <4>1. tries'[own] = RetriesOf[running[w].stage] + 1
        BY <3>4, <3>5, <3>9
      <4>2. QED
        BY <3>2, <3>3, <3>6, <3>7, <4>1
    <3>10. QED
      BY <3>4, <3>8, <3>9
  <2>5. QED
    BY <2>2, <2>3, <2>4 DEF OpsInStep
<1>5. QED
  BY <1>1, <1>3, <1>4, StayInPlace DEF InStep

LEMMA WorkInStep ==
  ASSUME InStep, TypeOK', NEW w \in Workers, Work(w)
  PROVE  InStep'
<1>1. /\ phase[w] = "body"
      /\ phase'[w] = "worked"
      /\ \A v \in Workers \ {w} : phase'[v] = phase[v]
      /\ UNCHANGED <<queue, schedule, running, cron, done, tries>>
  BY DEF Work, GoOn, queueVars, InStep, TypeOK
<1>2. running[w].op \in Ops /\ running[w].stage \in Stages
  BY <1>1, HeldTask DEF InStep
<1>3. /\ running[w].stage = NumStages => opState'[running[w].op] = "succeeded"
      /\ running[w].stage # NumStages => opState' = opState
      /\ \A op \in Ops \ {running[w].op} : opState'[op] = opState[op]
  BY <1>2 DEF Work, InStep, TypeOK
<1>4. Waits(running[w])
  BY <1>1 DEF InStep, TasksInStep
<1>5. Waits(running[w])'
  BY <1>1, <1>3, <1>4 DEF Waits, Open
<1>6. QED
  BY <1>1, <1>3, <1>5, OwnStepInStep

LEMMA RaiseInStep ==
  ASSUME InStep, TypeOK', NEW w \in Workers, Raise(w)
  PROVE  InStep'
<1>1. /\ phase[w] \in {"body", "worked"}
      /\ phase'[w] = "raised"
      /\ \A v \in Workers \ {w} : phase'[v] = phase[v]
      /\ UNCHANGED <<queue, schedule, running, cron, done, opState>>
  BY DEF Raise, GoOn, queueVars, InStep, TypeOK
<1>2. /\ running[w].op \in Ops
      /\ running[w].stage \in Stages
      /\ running[w].retries \in Nat
  BY <1>1, HeldTask DEF InStep
<1>3. /\ tries'[running[w].op] = tries[running[w].op] + 1
      /\ tries[running[w].op] \in Nat
      /\ \A op \in Ops \ {running[w].op} : tries'[op] = tries[op]
  BY <1>2 DEF Raise, InStep, TypeOK
<1>4. Waits(running[w])
  BY <1>1 DEF InStep, TasksInStep
<1>5. tries'[running[w].op] + running[w].retries = RetriesOf[running[w].stage] + 1
  <2>1. tries[running[w].op] + running[w].retries = RetriesOf[running[w].stage]
    BY <1>4 DEF Waits
  <2>2. QED
    BY <1>2, <1>3, <2>1
<1>6. HasRaised(running[w], phase[w])'
  BY <1>1, <1>4, <1>5 DEF HasRaised, Waits, Open
<1>7. QED
  BY <1>1, <1>3, <1>6, OwnStepInStep

LEMMA MarkOperationFailedInStep ==
  ASSUME InStep, TypeOK', NEW w \in Workers, MarkOperationFailed(w)
  PROVE  InStep'
<1>1. /\ phase[w] = "raised"
      /\ running[w].retries = 0
      /\ phase'[w] = "alert"
      /\ \A v \in Workers \ {w} : phase'[v] = phase[v]
      /\ UNCHANGED <<queue, schedule, running, cron, done, tries>>
  BY DEF MarkOperationFailed, GoOn, queueVars, InStep, TypeOK
<1>2. running[w].op \in Ops
  BY <1>1, HeldTask DEF InStep
<1>3. /\ opState'[running[w].op] = "failed"
      /\ \A op \in Ops \ {running[w].op} : opState'[op] = opState[op]
  BY <1>2 DEF MarkOperationFailed, InStep, TypeOK
<1>4. HasRaised(running[w], phase[w])
  BY <1>1 DEF InStep, TasksInStep
<1>5. HasRaised(running[w], phase[w])'
  BY <1>1, <1>3, <1>4 DEF HasRaised
<1>6. QED
  BY <1>1, <1>3, <1>5, OwnStepInStep

LEMMA SendAlertInStep ==
  ASSUME InStep, TypeOK', NEW w \in Workers, SendAlert(w)
  PROVE  InStep'
<1>1. /\ phase[w] = "alert"
      /\ phase'[w] = "handled"
      /\ \A v \in Workers \ {w} : phase'[v] = phase[v]
      /\ UNCHANGED <<queue, schedule, running, cron, done, tries, opState>>
  BY DEF SendAlert, GoOn, queueVars, InStep, TypeOK
<1>2. HasRaised(running[w], phase[w])
  BY <1>1 DEF InStep, TasksInStep
<1>3. HasRaised(running[w], phase[w])'
  BY <1>1, <1>2 DEF HasRaised, Open
<1>4. QED
  BY <1>1, <1>3, OwnStepInStep

LEMMA HandlerFailsInStep ==
  ASSUME InStep, TypeOK', NEW w \in Workers, HandlerFails(w)
  PROVE  InStep'
<1>1. /\ phase[w] \in {"raised", "alert"}
      /\ phase[w] = "raised" => running[w].retries = 0
      /\ phase'[w] = "handled"
      /\ \A v \in Workers \ {w} : phase'[v] = phase[v]
      /\ UNCHANGED <<queue, schedule, running, cron, done, tries>>
  BY DEF HandlerFails, GoOn, queueVars, InStep, TypeOK
<1>2. running[w].op \in Ops
  BY <1>1, HeldTask DEF InStep
<1>3. /\ \/ opState'[running[w].op] = opState[running[w].op]
         \/ opState'[running[w].op] = "failed"
      /\ \A op \in Ops \ {running[w].op} : opState'[op] = opState[op]
  BY <1>2 DEF HandlerFails, InStep, TypeOK
<1>4. HasRaised(running[w], phase[w])
  BY <1>1 DEF InStep, TasksInStep
<1>5. HasRaised(running[w], phase[w])'
  BY <1>1, <1>3, <1>4 DEF HasRaised, Open
<1>6. QED
  BY <1>1, <1>3, <1>5, OwnStepInStep

-----------------------------------------------------------------------------
(* Steps that move a task.                                                 *)

(* A task of an operation that has none on the list goes to its end.       *)
LEMMA QueueGrows ==
  ASSUME InStep, NEW t \in Task, ~InQueue(t.op), queue' = Append(queue, t)
  PROVE  /\ \A i \in 1..Len(queue') :
              queue'[i] = t \/ \E j \in 1..Len(queue) : queue'[i] = queue[j]
         /\ \A i, j \in 1..Len(queue') : queue'[i].op = queue'[j].op => i = j
         /\ \A op : InQueue(op)' <=> InQueue(op) \/ op = t.op
<1>1. /\ Len(queue) \in Nat
      /\ Len(queue') = Len(queue) + 1
      /\ \A i \in 1..Len(queue) : queue'[i] = queue[i]
      /\ queue'[Len(queue) + 1] = t
  BY QueueAppend DEF InStep
<1>2. \A i \in 1..Len(queue') :
        i \in 1..Len(queue) \/ (i = Len(queue) + 1 /\ queue'[i] = t)
  BY <1>1
<1>3. \A i \in 1..Len(queue) : queue[i].op # t.op
  BY DEF InQueue
<1>4. \A i, j \in 1..Len(queue) : queue[i].op = queue[j].op => i = j
  BY DEF InStep, OneTaskPerOp
<1>5. \A i, j \in 1..Len(queue') : queue'[i].op = queue'[j].op => i = j
  BY <1>1, <1>2, <1>3, <1>4
<1>6. \A op : InQueue(op)' <=> InQueue(op) \/ op = t.op
  <2>1. 1..Len(queue') = (1..Len(queue)) \cup {Len(queue) + 1}
    BY <1>1
  <2>2. QED
    BY <1>1, <2>1 DEF InQueue
<1>7. QED
  BY <1>1, <1>2, <1>5, <1>6

(* A worker that becomes idle holds nothing; the others hold what they did.*)
LEMMA WorkerDrops ==
  ASSUME InStep, NEW w \in Workers, phase[w] # "idle", GoIdle(w)
  PROVE  /\ \A v \in Workers : phase'[v] # "idle" =>
              /\ v # w
              /\ phase'[v] = phase[v]
              /\ running'[v] = running[v]
              /\ running[v].op # running[w].op
         /\ \A op : Held(op)' <=> Held(op) /\ op # running[w].op
<1>1. /\ phase'[w] = "idle"
      /\ \A v \in Workers \ {w} : phase'[v] = phase[v] /\ running'[v] = running[v]
  BY DEF GoIdle, InStep, TypeOK
<1>2. \A v \in Workers \ {w} : phase[v] # "idle" => running[v].op # running[w].op
  BY OnlyTask
<1>3. QED
  BY <1>1, <1>2 DEF Held

(* The row of an operation says no more than its pipeline has done.        *)
RowInStep(op) ==
  /\ opState[op] # "none"
  /\ opState[op] = "succeeded" => done[op] >= NumStages - 1
  /\ opState[op] = "failed" =>
       /\ done[op] < NumStages
       /\ tries[op] = RetriesOf[done[op] + 1] + 1

(* A step that touches one operation only: what the others have is theirs, *)
(* and the task it leaves, if any, waits in step with its row.             *)
LEMMA MoveInStep ==
  ASSUME InStep, TypeOK', OneTaskPerOp', NEW own \in Ops,
         RowInStep(own)',
         \A op \in Ops \ {own} :
           /\ opState'[op] = opState[op]
           /\ done'[op] = done[op]
           /\ tries'[op] = tries[op]
           /\ InQueue(op)' => InQueue(op)
           /\ InSchedule(op)' => InSchedule(op)
           /\ Held(op)' => Held(op),
         \A i \in 1..Len(queue') :
           \/ Waits(queue[i])'
           \/ \E j \in 1..Len(queue) : queue'[i] = queue[j] /\ queue[j].op # own,
         \A t \in schedule' : Waits(t)' \/ (t \in schedule /\ t.op # own),
         \A w \in Workers : phase'[w] # "idle" =>
           \/ phase'[w] = "body" /\ Waits(running[w])'
           \/ /\ phase'[w] = phase[w] /\ running'[w] = running[w]
              /\ running[w].op # own,
         cron' # NoOp => cron' = cron /\ cron # own
  PROVE  InStep'
<1>1. ASSUME NEW t \in Task, t.op # own, Waits(t)
      PROVE  Waits(t)'
  <2>1. t.op \in Ops \ {own}
    BY <1>1 DEF Task
  <2>2. /\ opState'[t.op] = opState[t.op]
        /\ done'[t.op] = done[t.op]
        /\ tries'[t.op] = tries[t.op]
    BY <2>1
  <2>3. QED
    BY <1>1, <2>2 DEF Waits, Open
<1>2. \A i \in 1..Len(queue') : Waits(queue[i])'
  <2>1. \A j \in 1..Len(queue) : Waits(queue[j]) /\ queue[j] \in Task
    BY AllAreTasks DEF InStep, TasksInStep
  <2>2. ASSUME NEW i \in 1..Len(queue'),
               NEW j \in 1..Len(queue), queue'[i] = queue[j], queue[j].op # own
        PROVE  Waits(queue[i])'
    <3>1. Waits(queue[j]) /\ queue[j] \in Task
      BY <2>1
    <3>2. queue[j].op \in Ops \ {own}
      BY <2>2, <3>1 DEF Task
    <3>3. /\ opState'[queue[j].op] = opState[queue[j].op]
          /\ done'[queue[j].op] = done[queue[j].op]
          /\ tries'[queue[j].op] = tries[queue[j].op]
      BY <3>2
    <3>4. QED
      BY <2>2, <3>1, <3>3 DEF Waits, Open
  <2>3. QED
    BY <2>2
<1>3. \A t \in schedule' : Waits(t)'
  <2>1. \A t \in schedule : Waits(t) /\ t \in Task
    BY AllAreTasks DEF InStep, TasksInStep
  <2>2. QED
    BY <1>1, <2>1
<1>4. ASSUME NEW w \in Workers
      PROVE  /\ phase'[w] \in {"body", "worked"} => Waits(running[w])'
             /\ phase'[w] = "worked" /\ running'[w].stage = NumStages
                  => opState'[running'[w].op] = "succeeded"
             /\ phase'[w] \in {"raised", "alert", "handled"}
                  => HasRaised(running[w], phase[w])'
  <2>1. CASE phase'[w] = "idle"
    BY <2>1
  <2>2. CASE phase'[w] = "body" /\ Waits(running[w])'
    BY <2>2
  <2>3. CASE /\ phase'[w] # "idle"
             /\ phase'[w] = phase[w] /\ running'[w] = running[w]
             /\ running[w].op # own
    <3>1. running[w].op \in Ops \ {own}
      BY <2>3, HeldTask DEF InStep
    <3>2. /\ opState'[running[w].op] = opState[running[w].op]
          /\ done'[running[w].op] = done[running[w].op]
          /\ tries'[running[w].op] = tries[running[w].op]
      BY <3>1
    <3>3. Waits(running[w]) => Waits(running[w])'
      BY <2>3, <3>2 DEF Waits, Open
    <3>4. HasRaised(running[w], phase[w]) => HasRaised(running[w], phase[w])'
      BY <2>3, <3>2 DEF HasRaised, Open
    <3>5. /\ phase[w] \in {"body", "worked"} => Waits(running[w])
          /\ phase[w] = "worked" /\ running[w].stage = NumStages
               => opState[running[w].op] = "succeeded"
          /\ phase[w] \in {"raised", "alert", "handled"}
               => HasRaised(running[w], phase[w])
      BY DEF InStep, TasksInStep
    <3>6. QED
      BY <2>3, <3>2, <3>3, <3>4, <3>5
  <2>4. QED
    BY <2>1, <2>2, <2>3
<1>5. TasksInStep'
  BY <1>2, <1>3, <1>4 DEF TasksInStep
<1>6. OpsInStep'
  <2>1. \A op \in Ops \ {own} : Untouched(op) => Untouched(op)'
    BY DEF Untouched
  <2>2. cron' # NoOp => opState'[cron'] = "in progress" /\ Untouched(cron)'
    <3>1. SUFFICES ASSUME cron' # NoOp
                   PROVE  opState'[cron'] = "in progress" /\ Untouched(cron)'
      OBVIOUS
    <3>2. cron' = cron /\ cron \in Ops \ {own}
      BY <3>1 DEF InStep, TypeOK
    <3>3. opState[cron] = "in progress" /\ Untouched(cron)
      BY <3>1, <3>2 DEF InStep, OpsInStep
    <3>4. QED
      BY <3>2, <3>3 DEF Untouched
  <2>3. \A op \in Ops \ {own} :
          /\ opState'[op] = "none" => Untouched(op)'
          /\ opState'[op] = "succeeded" => done'[op] >= NumStages - 1
          /\ opState'[op] = "failed" =>
               /\ done'[op] < NumStages
               /\ tries'[op] = RetriesOf[done'[op] + 1] + 1
    BY <2>1 DEF InStep, OpsInStep
  <2>4. QED
    BY <2>2, <2>3 DEF OpsInStep, RowInStep
<1>7. QED
  BY <1>5, <1>6 DEF InStep

LEMMA RowsInStep ==
  ASSUME InStep, NEW op \in Ops, opState[op] # "none"
  PROVE  RowInStep(op)
BY DEF InStep, OpsInStep, RowInStep

LEMMA DequeueInStep ==
  ASSUME InStep, TypeOK', NEW w \in Workers, Dequeue(w)
  PROVE  InStep'
<1>0. PICK t \in Task : t = Head(queue)
  BY QueueTail DEF Dequeue, InStep
<1>19. PICK own \in Ops : own = t.op
  BY DEF Task
<1>1. /\ t \in Task
      /\ t = queue[1]
      /\ Len(queue) \in Nat \ {0}
      /\ Len(queue') = Len(queue) - 1
      /\ \A i \in 1..Len(queue') : queue'[i] = queue[i + 1]
  BY <1>0, QueueTail DEF Dequeue, InStep
<1>2. /\ phase[w] = "idle"
      /\ phase'[w] = "body" /\ running'[w] = t
      /\ \A v \in Workers \ {w} : phase'[v] = phase[v] /\ running'[v] = running[v]
      /\ UNCHANGED <<opState, done, tries, schedule, cron>>
  BY <1>0 DEF Dequeue, opVars, InStep, TypeOK
<1>3. own \in Ops
  BY <1>19
<1>4. 1 \in 1..Len(queue) /\ InQueue(own)
  BY <1>1, <1>19 DEF InQueue
<1>5. ~InSchedule(own) /\ ~Held(own) /\ cron # own /\ opState[own] # "none"
  BY <1>3, <1>4, Constants DEF InStep, OneTaskPerOp, OpsInStep, Untouched
<1>6. \A i \in 1..Len(queue') : i + 1 \in 1..Len(queue) /\ i + 1 # 1
  BY <1>1
<1>7. \A i \in 1..Len(queue') : queue'[i].op # own
  BY <1>1, <1>4, <1>6, <1>19 DEF InStep, OneTaskPerOp
<1>8. Waits(t)
  BY <1>1, <1>4 DEF InStep, TasksInStep
<1>9. Waits(running[w])'
  BY <1>2, <1>8 DEF Waits, Open
<1>10. \A op : Held(op)' <=> Held(op) \/ op = own
  BY <1>2, <1>19 DEF Held
<1>11. \A op : InQueue(op)' => InQueue(op) /\ op # own
  BY <1>1, <1>6, <1>7 DEF InQueue
<1>12. \A op : InSchedule(op)' <=> InSchedule(op)
  BY <1>2 DEF InSchedule
<1>13. OneTaskPerOp'
  <2>1. OneTaskPerOp
    BY DEF InStep
  <2>2. \A i, j \in 1..Len(queue') : queue'[i].op = queue'[j].op => i = j
    <3>1. \A i, j \in 1..Len(queue) : queue[i].op = queue[j].op => i = j
      BY <2>1 DEF OneTaskPerOp
    <3>2. ASSUME NEW i \in 1..Len(queue'), NEW j \in 1..Len(queue'),
                 queue'[i].op = queue'[j].op
          PROVE  i = j
      <4>1. i + 1 = j + 1
        BY <1>1, <1>6, <3>1, <3>2
      <4>2. QED
        BY <4>1
    <3>3. QED
      BY <3>2
  <2>3. \A a, b \in schedule' : a.op = b.op => a = b
    BY <1>2, <2>1 DEF OneTaskPerOp
  <2>4. \A u, v \in Workers :
          phase'[u] # "idle" /\ phase'[v] # "idle" /\ running'[u].op = running'[v].op
            => u = v
    BY <1>2, <1>5, <1>19, <2>1 DEF OneTaskPerOp, Held
  <2>5. \A op \in Ops : /\ ~(InQueue(op)' /\ InSchedule(op)')
                        /\ ~(InQueue(op)' /\ Held(op)')
                        /\ ~(InSchedule(op)' /\ Held(op)')
    BY <1>5, <1>10, <1>11, <1>12, <2>1 DEF OneTaskPerOp
  <2>6. QED
    BY <2>2, <2>3, <2>4, <2>5 DEF OneTaskPerOp
<1>14. RowInStep(own)'
  <2>1. RowInStep(own)
    BY <1>3, <1>5, RowsInStep
  <2>2. QED
    BY <1>2, <2>1 DEF RowInStep
<1>15. \A i \in 1..Len(queue') :
         \E j \in 1..Len(queue) : queue'[i] = queue[j] /\ queue[j].op # own
  BY <1>1, <1>6, <1>7
<1>16. \A s \in schedule' : s \in schedule /\ s.op # own
  BY <1>2, <1>5 DEF InSchedule
<1>17. \A v \in Workers : phase'[v] # "idle" =>
         \/ phase'[v] = "body" /\ Waits(running[v])'
         \/ /\ phase'[v] = phase[v] /\ running'[v] = running[v]
            /\ running[v].op # own
  BY <1>2, <1>5, <1>9 DEF Held
<1>18. QED
  BY <1>2, <1>3, <1>5, <1>10, <1>11, <1>12, <1>13, <1>14, <1>15, <1>16, <1>17,
     MoveInStep

LEMMA EnqueuePipelineInStep ==
  ASSUME InStep, TypeOK', EnqueuePipeline
  PROVE  InStep'
<1>0. PICK t : t = NewTask(cron, 1)
  OBVIOUS
<1>1. cron \in Ops /\ cron # NoOp
  BY DEF EnqueuePipeline, InStep, TypeOK
<1>2. opState[cron] = "in progress" /\ Untouched(cron)
  BY <1>1 DEF InStep, OpsInStep
<1>3. /\ t \in Task /\ t.op = cron /\ t.stage = 1
      /\ t.retries = RetriesOf[1] /\ RetriesOf[1] \in Nat
  BY <1>0, <1>1, NewTaskType, Constants
<1>4. /\ queue' = Append(queue, t)
      /\ cron' = NoOp
      /\ UNCHANGED <<opState, done, tries, schedule, running, phase>>
  BY <1>0 DEF EnqueuePipeline, opVars, workerVars
<1>5. Waits(t)'
  <2>1. /\ opState'[t.op] = "in progress"
        /\ done'[t.op] = 0
        /\ tries'[t.op] = 0
    BY <1>2, <1>3, <1>4 DEF Untouched
  <2>2. done'[t.op] = t.stage - 1
    <3>1. t.stage = 1
      BY <1>3
    <3>2. t.stage - 1 = 0
      BY <3>1
    <3>3. QED
      BY <2>1, <3>2
  <2>3. tries'[t.op] + t.retries = RetriesOf[t.stage]
    <3>1. tries'[t.op] = 0
      BY <2>1
    <3>2. t.retries \in Nat /\ t.retries = RetriesOf[t.stage]
      BY <1>3
    <3>3. QED
      BY <3>1, <3>2
  <2>4. QED
    BY <2>1, <2>2, <2>3 DEF Waits, Open
<1>6. /\ \A i \in 1..Len(queue') :
           queue'[i] = t \/ \E j \in 1..Len(queue) : queue'[i] = queue[j]
      /\ \A i, j \in 1..Len(queue') : queue'[i].op = queue'[j].op => i = j
      /\ \A op : InQueue(op)' <=> InQueue(op) \/ op = cron
  BY <1>2, <1>3, <1>4, QueueGrows DEF Untouched
<1>7. /\ \A op : InSchedule(op)' <=> InSchedule(op)
      /\ \A op : Held(op)' <=> Held(op)
  BY <1>4 DEF InSchedule, Held
<1>8. OneTaskPerOp'
  <2>1. OneTaskPerOp
    BY DEF InStep
  <2>2. \A op \in Ops : /\ ~(InQueue(op)' /\ InSchedule(op)')
                        /\ ~(InQueue(op)' /\ Held(op)')
                        /\ ~(InSchedule(op)' /\ Held(op)')
    BY <1>2, <1>6, <1>7, <2>1 DEF OneTaskPerOp, Untouched
  <2>3. QED
    BY <1>4, <1>6, <2>1, <2>2 DEF OneTaskPerOp
<1>9. RowInStep(cron)
  BY <1>1, <1>2, RowsInStep
<1>10. QED
  <2>1. OpsInStep'
    <3>1. \A op \in Ops \ {cron} : Untouched(op) => Untouched(op)'
      BY <1>4, <1>6, <1>7 DEF Untouched
    <3>2. QED
      BY <1>2, <1>4, <3>1 DEF InStep, OpsInStep
  <2>2. TasksInStep'
    <3>1. \A i \in 1..Len(queue') : Waits(queue[i])'
      <4>1. \A j \in 1..Len(queue) : Waits(queue[j])
        BY DEF InStep, TasksInStep
      <4>2. ASSUME NEW i \in 1..Len(queue')
            PROVE  Waits(queue[i])'
        <5>1. CASE queue'[i] = t
          BY <1>5, <5>1 DEF Waits, Open
        <5>2. CASE \E j \in 1..Len(queue) : queue'[i] = queue[j]
          BY <1>4, <4>1, <5>2 DEF Waits, Open
        <5>3. QED
          BY <1>6, <5>1, <5>2
      <4>3. QED
        BY <4>2
    <3>2. QED
      BY <1>4, <3>1 DEF InStep, TasksInStep, Waits, HasRaised, Open
  <2>3. QED
    BY <1>8, <2>1, <2>2 DEF InStep

(* A worker drops its task and nothing takes its place.                    *)
LEMMA DropInStep ==
  ASSUME InStep, TypeOK', NEW w \in Workers, phase[w] # "idle", GoIdle(w),
         UNCHANGED <<queue, schedule, cron>>,
         \A op \in Ops \ {running[w].op} :
           opState'[op] = opState[op] /\ done'[op] = done[op] /\ tries'[op] = tries[op],
         \A op \in Ops : op = running[w].op => RowInStep(op)'
  PROVE  InStep'
<1>1. PICK own \in Ops : own = running[w].op
  BY HeldTask DEF InStep
<1>2. /\ \A v \in Workers : phase'[v] # "idle" =>
           /\ v # w
           /\ phase'[v] = phase[v]
           /\ running'[v] = running[v]
           /\ running[v].op # own
      /\ \A op : Held(op)' <=> Held(op) /\ op # own
  BY <1>1, WorkerDrops
<1>3. /\ \A op : InQueue(op)' <=> InQueue(op)
      /\ \A op : InSchedule(op)' <=> InSchedule(op)
  BY DEF InQueue, InSchedule
<1>4. OneTaskPerOp'
  <2>1. OneTaskPerOp
    BY DEF InStep
  <2>2. \A u, v \in Workers :
          phase'[u] # "idle" /\ phase'[v] # "idle" /\ running'[u].op = running'[v].op
            => u = v
    BY <1>2, <2>1 DEF OneTaskPerOp
  <2>3. \A op \in Ops : /\ ~(InQueue(op)' /\ InSchedule(op)')
                        /\ ~(InQueue(op)' /\ Held(op)')
                        /\ ~(InSchedule(op)' /\ Held(op)')
    BY <1>2, <1>3, <2>1 DEF OneTaskPerOp
  <2>4. QED
    BY <2>1, <2>2, <2>3 DEF OneTaskPerOp
<1>5. /\ \A i \in 1..Len(queue) : queue[i].op # own
      /\ \A t \in schedule : t.op # own
      /\ cron # own
  BY <1>1, OnlyTask
<1>6. RowInStep(own)'
  BY <1>1
<1>7. QED
  BY <1>1, <1>2, <1>3, <1>4, <1>5, <1>6, MoveInStep

LEMMA RedisFailsInStep ==
  ASSUME InStep, TypeOK', NEW w \in Workers, RedisFails(w)
  PROVE  InStep'
<1>1. /\ phase[w] # "idle"
      /\ GoIdle(w)
      /\ UNCHANGED <<queue, schedule, cron, opState, done, tries>>
  BY DEF RedisFails, queueVars
<1>2. \A op \in Ops : op = running[w].op => RowInStep(op)'
  <2>1. \A op \in Ops : op = running[w].op => RowInStep(op)
    BY <1>1, OnlyTask, RowsInStep
  <2>2. QED
    BY <1>1, <2>1 DEF RowInStep
<1>3. QED
  BY <1>1, <1>2, DropInStep

LEMMA ReturnInStep ==
  ASSUME InStep, TypeOK', NEW w \in Workers, Return(w)
  PROVE  InStep'
<1>1. PICK own \in Ops : own = running[w].op
  BY HeldTask DEF InStep, Return
<1>2. PICK stage \in Stages : stage = running[w].stage
  BY HeldTask DEF InStep, Return
<1>3. /\ phase[w] = "worked"
      /\ GoIdle(w)
      /\ UNCHANGED <<schedule, cron, opState>>
      /\ done'[own] = stage
      /\ tries'[own] = 0
      /\ \A op \in Ops \ {own} : done'[op] = done[op] /\ tries'[op] = tries[op]
  BY <1>1, <1>2 DEF Return, InStep, TypeOK
<1>4. /\ stage \in Nat /\ NumStages \in Nat /\ stage <= NumStages
      /\ stage < NumStages => stage + 1 \in Stages
  BY Constants DEF Stages
<1>5. Open(running[w])
  BY <1>3 DEF InStep, TasksInStep, Waits
<1>6. stage = NumStages => opState[own] = "succeeded"
  BY <1>1, <1>2, <1>3 DEF InStep, TasksInStep
<1>7. RowInStep(own)'
  <2>1. opState'[own] \in {"in progress", "succeeded"}
    BY <1>1, <1>3, <1>5 DEF Open
  <2>2. opState'[own] = "succeeded" => stage = NumStages
    BY <1>1, <1>2, <1>3, <1>5 DEF Open
  <2>3. done'[own] \in Nat /\ done'[own] = stage
    BY <1>3, <1>4
  <2>4. opState'[own] = "succeeded" => done'[own] >= NumStages - 1
    <3>1. ASSUME opState'[own] = "succeeded"
          PROVE  done'[own] >= NumStages - 1
      <4>1. done'[own] = NumStages
        BY <2>2, <2>3, <3>1
      <4>2. NumStages >= NumStages - 1
        BY <1>4
      <4>3. QED
        BY <4>1, <4>2
    <3>2. QED
      BY <3>1
  <2>5. opState'[own] # "none" /\ opState'[own] # "failed"
    BY <2>1
  <2>6. QED
    BY <2>4, <2>5 DEF RowInStep
<1>8. CASE ~(stage < NumStages)
  <2>1. queue' = queue
    BY <1>2, <1>8 DEF Return
  <2>2. QED
    BY <1>1, <1>3, <1>7, <2>1, DropInStep
<1>9. CASE stage < NumStages
  <2>1. PICK t : t = NewTask(own, stage + 1)
    OBVIOUS
  <2>2. /\ t \in Task /\ t.op = own /\ t.stage = stage + 1
        /\ t.retries = RetriesOf[stage + 1] /\ RetriesOf[stage + 1] \in Nat
    BY <1>4, <1>9, <2>1, NewTaskType, Constants
  <2>3. queue' = Append(queue, t)
    BY <1>1, <1>2, <1>9, <2>1 DEF Return
  <2>4. Waits(t)'
    <3>1. opState'[own] = "in progress"
      <4>1. stage # NumStages
        BY <1>4, <1>9
      <4>2. QED
        BY <1>1, <1>2, <1>3, <1>5, <4>1 DEF Open
    <3>2. done'[t.op] = t.stage - 1
      BY <1>3, <1>4, <2>2
    <3>3. tries'[t.op] + t.retries = RetriesOf[t.stage]
      BY <1>3, <2>2
    <3>4. QED
      BY <2>2, <3>1, <3>2, <3>3 DEF Waits, Open
  <2>5. /\ \A i \in 1..Len(queue) : queue[i].op # own
        /\ \A s \in schedule : s.op # own
        /\ cron # own
    BY <1>1, <1>3, OnlyTask
  <2>6. /\ \A i \in 1..Len(queue') :
             queue'[i] = t \/ \E j \in 1..Len(queue) : queue'[i] = queue[j]
        /\ \A i, j \in 1..Len(queue') : queue'[i].op = queue'[j].op => i = j
        /\ \A op : InQueue(op)' <=> InQueue(op) \/ op = own
    BY <2>2, <2>3, <2>5, QueueGrows DEF InQueue
  <2>7. /\ \A v \in Workers : phase'[v] # "idle" =>
             /\ v # w
             /\ phase'[v] = phase[v]
             /\ running'[v] = running[v]
             /\ running[v].op # own
        /\ \A op : Held(op)' <=> Held(op) /\ op # own
    BY <1>1, <1>3, WorkerDrops
  <2>8. \A op : InSchedule(op)' <=> InSchedule(op)
    BY <1>3 DEF InSchedule
  <2>9. OneTaskPerOp'
    <3>1. OneTaskPerOp
      BY DEF InStep
    <3>2. \A a, b \in schedule' : a.op = b.op => a = b
      BY <1>3, <3>1 DEF OneTaskPerOp
    <3>3. \A u, v \in Workers :
            phase'[u] # "idle" /\ phase'[v] # "idle" /\ running'[u].op = running'[v].op
              => u = v
      BY <2>7, <3>1 DEF OneTaskPerOp
    <3>4. ~InSchedule(own)
      BY <2>5 DEF InSchedule
    <3>5. \A op \in Ops : /\ ~(InQueue(op)' /\ InSchedule(op)')
                          /\ ~(InQueue(op)' /\ Held(op)')
                          /\ ~(InSchedule(op)' /\ Held(op)')
      BY <2>6, <2>7, <2>8, <3>1, <3>4 DEF OneTaskPerOp
    <3>6. QED
      BY <2>6, <3>2, <3>3, <3>5 DEF OneTaskPerOp
  <2>10. \A i \in 1..Len(queue') :
           \/ Waits(queue[i])'
           \/ \E j \in 1..Len(queue) : queue'[i] = queue[j] /\ queue[j].op # own
    <3>1. ASSUME NEW i \in 1..Len(queue'), queue'[i] = t
          PROVE  Waits(queue[i])'
      BY <2>4, <3>1 DEF Waits, Open
    <3>2. QED
      BY <2>5, <2>6, <3>1
  <2>11. QED
    BY <1>3, <1>7, <2>5, <2>6, <2>7, <2>8, <2>9, <2>10, MoveInStep
<1>10. QED
  BY <1>8, <1>9

LEMMA RequeueInStep ==
  ASSUME InStep, TypeOK', NEW w \in Workers, Requeue(w)
  PROVE  InStep'
<1>1. PICK own \in Ops : own = running[w].op
  BY HeldTask DEF InStep, Requeue
<1>2. /\ phase[w] \in {"raised", "handled"}
      /\ GoIdle(w)
      /\ UNCHANGED <<queue, cron, opState, done, tries>>
  BY DEF Requeue, opVars
<1>3. HasRaised(running[w], phase[w])
  BY <1>2 DEF InStep, TasksInStep
<1>4. RowInStep(own)'
  <2>1. RowInStep(own)
    BY <1>1, <1>2, OnlyTask, RowsInStep
  <2>2. QED
    BY <1>2, <2>1 DEF RowInStep
<1>5. CASE ~(running[w].retries > 0)
  <2>1. schedule' = schedule
    BY <1>5 DEF Requeue
  <2>2. QED
    BY <1>1, <1>2, <1>4, <2>1, DropInStep
<1>6. CASE running[w].retries > 0
  <2>1. running[w] \in Task /\ running[w].retries \in Nat
    BY <1>2, HeldTask DEF InStep
  <2>2. PICK t : t = [running[w] EXCEPT !.retries = @ - 1]
    OBVIOUS
  <2>3. /\ t \in Task /\ t.op = own /\ t.stage = running[w].stage
        /\ t.retries = running[w].retries - 1
    BY <1>1, <1>6, <2>1, <2>2, RetryType
  <2>4. schedule' = schedule \cup {t}
    BY <1>6, <2>2 DEF Requeue
  <2>5. Waits(t)'
    <3>1. Open(running[w])
      BY <1>2, <1>3, <1>6 DEF HasRaised
    <3>2. Open(t)'
      BY <1>1, <1>2, <2>3, <3>1 DEF Open
    <3>3. done'[t.op] = t.stage - 1
      BY <1>1, <1>2, <1>3, <2>3 DEF HasRaised
    <3>4. tries[own] + running[w].retries = RetriesOf[running[w].stage] + 1
      BY <1>1, <1>3 DEF HasRaised
    <3>5. tries[own] \in Nat /\ RetriesOf[running[w].stage] \in Nat
      BY <1>2, HeldTask, Constants DEF InStep, TypeOK
    <3>6. tries[own] + (running[w].retries - 1) = RetriesOf[running[w].stage]
      BY <2>1, <3>4, <3>5
    <3>7. tries'[t.op] + t.retries = RetriesOf[t.stage]
      BY <1>2, <2>3, <3>6
    <3>8. QED
      BY <3>2, <3>3, <3>7 DEF Waits
  <2>6. /\ \A i \in 1..Len(queue) : queue[i].op # own
        /\ \A s \in schedule : s.op # own
        /\ cron # own
    BY <1>1, <1>2, OnlyTask
  <2>7. /\ \A v \in Workers : phase'[v] # "idle" =>
             /\ v # w
             /\ phase'[v] = phase[v]
             /\ running'[v] = running[v]
             /\ running[v].op # own
        /\ \A op : Held(op)' <=> Held(op) /\ op # own
    BY <1>1, <1>2, WorkerDrops
  <2>8. /\ \A op : InQueue(op)' <=> InQueue(op)
        /\ \A op : InSchedule(op)' <=> InSchedule(op) \/ op = own
    BY <1>2, <2>3, <2>4 DEF InQueue, InSchedule
  <2>9. OneTaskPerOp'
    <3>1. OneTaskPerOp
      BY DEF InStep
    <3>2. \A a, b \in schedule' : a.op = b.op => a = b
      BY <2>3, <2>4, <2>6, <3>1 DEF OneTaskPerOp
    <3>3. \A u, v \in Workers :
            phase'[u] # "idle" /\ phase'[v] # "idle" /\ running'[u].op = running'[v].op
              => u = v
      BY <2>7, <3>1 DEF OneTaskPerOp
    <3>4. ~InQueue(own)
      BY <2>6 DEF InQueue
    <3>5. \A op \in Ops : /\ ~(InQueue(op)' /\ InSchedule(op)')
                          /\ ~(InQueue(op)' /\ Held(op)')
                          /\ ~(InSchedule(op)' /\ Held(op)')
      BY <2>7, <2>8, <3>1, <3>4 DEF OneTaskPerOp
    <3>6. \A i, j \in 1..Len(queue') : queue'[i].op = queue'[j].op => i = j
      BY <1>2, <3>1 DEF OneTaskPerOp
    <3>7. QED
      BY <3>2, <3>3, <3>5, <3>6 DEF OneTaskPerOp
  <2>10. \A s \in schedule' : Waits(s)' \/ (s \in schedule /\ s.op # own)
    BY <2>4, <2>5, <2>6
  <2>11. \A i \in 1..Len(queue') :
           \E j \in 1..Len(queue) : queue'[i] = queue[j] /\ queue[j].op # own
    BY <1>2, <2>6
  <2>12. QED
    BY <1>2, <1>4, <2>6, <2>7, <2>8, <2>9, <2>10, <2>11, MoveInStep
<1>7. QED
  BY <1>5, <1>6

LEMMA ScheduleDueInStep ==
  ASSUME InStep, TypeOK', NEW t \in schedule, ScheduleDue(t)
  PROVE  InStep'
<1>1. t \in Task /\ t.op \in Ops
  BY AllAreTasks DEF InStep
<1>2. PICK own \in Ops : own = t.op
  BY <1>1
<1>3. /\ schedule' = schedule \ {t}
      /\ queue' = Append(queue, t)
      /\ UNCHANGED <<opState, done, tries, running, phase, cron>>
  BY DEF ScheduleDue, opVars, workerVars
<1>4. OneTaskPerOp
  BY DEF InStep
<1>5. InSchedule(own)
  BY <1>2 DEF InSchedule
<1>6. ~InQueue(own) /\ ~Held(own) /\ cron # own /\ opState[own] # "none"
  BY <1>4, <1>5, Constants DEF InStep, OneTaskPerOp, OpsInStep, Untouched
<1>7. Waits(t)'
  <2>1. Waits(t)
    BY DEF InStep, TasksInStep
  <2>2. QED
    BY <1>3, <2>1 DEF Waits, Open
<1>8. /\ \A i \in 1..Len(queue') :
           queue'[i] = t \/ \E j \in 1..Len(queue) : queue'[i] = queue[j]
      /\ \A i, j \in 1..Len(queue') : queue'[i].op = queue'[j].op => i = j
      /\ \A op : InQueue(op)' <=> InQueue(op) \/ op = own
  BY <1>1, <1>2, <1>3, <1>6, QueueGrows
<1>9. /\ \A s \in schedule' : s \in schedule /\ s.op # own
      /\ \A op : InSchedule(op)' => InSchedule(op) /\ op # own
      /\ \A op : Held(op)' <=> Held(op)
  BY <1>2, <1>3, <1>4 DEF OneTaskPerOp, InSchedule, Held
<1>10. OneTaskPerOp'
  <2>1. \A op \in Ops : /\ ~(InQueue(op)' /\ InSchedule(op)')
                        /\ ~(InQueue(op)' /\ Held(op)')
                        /\ ~(InSchedule(op)' /\ Held(op)')
    BY <1>4, <1>6, <1>8, <1>9 DEF OneTaskPerOp
  <2>2. QED
    BY <1>3, <1>4, <1>8, <2>1 DEF OneTaskPerOp
<1>11. RowInStep(own)'
  <2>1. RowInStep(own)
    BY <1>6, RowsInStep
  <2>2. QED
    BY <1>3, <2>1 DEF RowInStep
<1>12. \A i \in 1..Len(queue') :
         \/ Waits(queue[i])'
         \/ \E j \in 1..Len(queue) : queue'[i] = queue[j] /\ queue[j].op # own
  <2>1. ASSUME NEW i \in 1..Len(queue'), queue'[i] = t
        PROVE  Waits(queue[i])'
    BY <1>7, <2>1 DEF Waits, Open
  <2>2. \A j \in 1..Len(queue) : queue[j].op # own
    BY <1>6 DEF InQueue
  <2>3. QED
    BY <1>8, <2>1, <2>2
<1>13. \A w \in Workers : phase'[w] # "idle" =>
         /\ phase'[w] = phase[w] /\ running'[w] = running[w]
         /\ running[w].op # own
  BY <1>3, <1>6 DEF Held
<1>14. QED
  BY <1>3, <1>6, <1>8, <1>9, <1>10, <1>11, <1>12, <1>13, MoveInStep

LEMMA CrashInStep ==
  ASSUME InStep, TypeOK', Crash
  PROVE  InStep'
<1>1. /\ schedule' \subseteq schedule
      /\ \A w \in Workers : phase'[w] = "idle"
      /\ cron' = NoOp
      /\ UNCHANGED <<opState, done, tries, queue>>
  BY DEF Crash
<1>2. /\ \A op : InQueue(op)' <=> InQueue(op)
      /\ \A op : InSchedule(op)' => InSchedule(op)
      /\ \A op : ~Held(op)'
  BY <1>1 DEF InQueue, InSchedule, Held
<1>3. OneTaskPerOp'
  <2>1. OneTaskPerOp
    BY DEF InStep
  <2>2. QED
    BY <1>1, <1>2, <2>1 DEF OneTaskPerOp
<1>4. TasksInStep'
  BY <1>1 DEF InStep, TasksInStep, Waits, Open
<1>5. OpsInStep'
  <2>1. \A op : Untouched(op) => Untouched(op)'
    BY <1>1, <1>2 DEF Untouched
  <2>2. QED
    BY <1>1, <2>1 DEF InStep, OpsInStep
<1>6. QED
  BY <1>3, <1>4, <1>5 DEF InStep

LEMMA StutterInStep ==
  ASSUME InStep, TypeOK', UNCHANGED vars
  PROVE  InStep'
<1>1. UNCHANGED <<opState, done, tries, queue, schedule, running, phase, cron>>
  BY DEF vars, opVars, queueVars, workerVars
<1>2. TasksStay
  BY <1>1 DEF TasksStay
<1>3. TasksInStep'
  BY <1>1 DEF InStep, TasksInStep, Waits, HasRaised, Open
<1>4. OpsInStep'
  <2>1. \A op : Untouched(op)' <=> Untouched(op)
    BY <1>1, <1>2, StayInPlace DEF Untouched
  <2>2. QED
    BY <1>1, <2>1 DEF InStep, OpsInStep
<1>5. QED
  BY <1>2, <1>3, <1>4, StayInPlace DEF InStep

LEMMA InStepNext == InStep /\ [Next]_vars => InStep'
<1> SUFFICES ASSUME InStep, [Next]_vars
             PROVE  InStep'
  OBVIOUS
<1>1. TypeOK'
  BY TypeNext DEF InStep
<1>2. CASE CronStep
  BY <1>1, <1>2, CreateOperationInStep, EnqueuePipelineInStep, CronFailsInStep DEF CronStep
<1>3. ASSUME NEW w \in Workers, WorkerStep(w)
      PROVE  InStep'
  BY <1>1, <1>3, DequeueInStep, WorkInStep, ReturnInStep, RaiseInStep,
     MarkOperationFailedInStep, SendAlertInStep, HandlerFailsInStep, RequeueInStep,
     RedisFailsInStep
     DEF WorkerStep
<1>4. CASE SchedulerStep
  BY <1>1, <1>4, ScheduleDueInStep DEF SchedulerStep
<1>5. CASE Crash
  BY <1>1, <1>5, CrashInStep
<1>6. CASE UNCHANGED vars
  BY <1>1, <1>6, StutterInStep
<1>7. QED
  BY <1>2, <1>3, <1>4, <1>5, <1>6 DEF Next

(* Wherever a task is, its row, its stage and its retries agree.           *)
THEOREM AlwaysInStep == Spec => []InStep
BY InStepInit, InStepNext, PTL DEF Spec

(* No pipeline ever forks: an operation has at most one task.              *)
THEOREM PipelineNeverForks == Spec => []OneTaskPerOp
<1>1. InStep => OneTaskPerOp
  BY DEF InStep
<1>2. QED
  BY <1>1, AlwaysInStep, PTL

(* A row says "failed" only after every run its task is declared with.     *)
THEOREM FailedOnlyAfterEveryRetry == Spec => []FailedAfterEveryRetry
<1>1. InStep => FailedAfterEveryRetry
  BY DEF InStep, OpsInStep, FailedAfterEveryRetry
<1>2. QED
  BY <1>1, AlwaysInStep, PTL

(* A row says "succeeded" only after all the tasks before mark_complete.   *)
THEOREM SucceededOnlyAfterEveryStage == Spec => []SucceededAfterEveryStage
<1>1. InStep => SucceededAfterEveryStage
  BY DEF InStep, OpsInStep, SucceededAfterEveryStage
<1>2. QED
  BY <1>1, AlwaysInStep, PTL

-----------------------------------------------------------------------------
(* No operation is forgotten                                               *)

(* Where an operation in progress is, and who has heard of a failed one.   *)
Found(op) == InQueue(op) \/ InSchedule(op) \/ Held(op) \/ cron = op
Reported(op) == \/ op \in alerted
                \/ \E w \in Workers : phase[w] = "alert" /\ running[w].op = op

(* The worker that holds the task is through with mark_operation_failed.   *)
Closed(op) == \E w \in Workers : phase[w] = "handled" /\ running[w].op = op

Remembered(op) ==
  /\ opState[op] = "in progress" => Found(op)
  /\ opState[op] = "failed" => Reported(op)
  /\ Closed(op) => opState[op] = "failed"

(* Steps that change neither rows nor places nor reports.                  *)
LEMMA RememberedStays ==
  ASSUME NEW op, Remembered(op),
         opState'[op] = opState[op],
         Found(op) => Found(op)', Reported(op) => Reported(op)',
         Closed(op)' => Closed(op) \/ opState[op] = "failed"
  PROVE  Remembered(op)'
BY DEF Remembered

LEMMA GrownQueue ==
  ASSUME InStep, NEW t \in Task, queue' = Append(queue, t), NEW op
  PROVE  InQueue(op)' <=> InQueue(op) \/ op = t.op
<1>1. /\ Len(queue) \in Nat
      /\ Len(queue') = Len(queue) + 1
      /\ \A i \in 1..Len(queue) : queue'[i] = queue[i]
      /\ queue'[Len(queue) + 1] = t
  BY QueueAppend DEF InStep
<1>2. 1..Len(queue') = (1..Len(queue)) \cup {Len(queue) + 1}
  BY <1>1
<1>3. QED
  BY <1>1, <1>2 DEF InQueue

LEMMA ShrunkQueue ==
  ASSUME InStep, queue # <<>>, queue' = Tail(queue), NEW op
  PROVE  InQueue(op) => InQueue(op)' \/ op = Head(queue).op
<1>1. /\ Head(queue) = queue[1]
      /\ Len(queue) \in Nat \ {0}
      /\ Len(queue') = Len(queue) - 1
      /\ \A i \in 1..Len(queue') : queue'[i] = queue[i + 1]
  BY QueueTail DEF InStep
<1>2. ASSUME NEW i \in 1..Len(queue), i # 1
      PROVE  i - 1 \in 1..Len(queue') /\ queue'[i - 1] = queue[i]
  BY <1>1, <1>2
<1>3. QED
  BY <1>1, <1>2 DEF InQueue

(* While a worker goes on with its task, nothing leaves its place.         *)
LEMMA GoOnKeepsPlaces ==
  ASSUME InStep, NEW w \in Workers, phase[w] # "idle", NEW p, p # "idle", GoOn(w, p),
         UNCHANGED <<queue, schedule, cron>>, NEW op
  PROVE  /\ Found(op) => Found(op)'
         /\ phase'[w] = p
         /\ \A v \in Workers \ {w} : phase'[v] = phase[v]
<1>1. /\ phase'[w] = p
      /\ \A v \in Workers \ {w} : phase'[v] = phase[v]
      /\ running' = running
  BY DEF GoOn, InStep, TypeOK
<1>2. Held(op) => Held(op)'
  BY <1>1 DEF Held
<1>3. QED
  BY <1>1, <1>2 DEF Found, InQueue, InSchedule

LEMMA RememberedNext ==
  ASSUME InStep, [Next]_vars, NEW op \in Ops, op \notin lost', Remembered(op)
  PROVE  Remembered(op)'
<1> USE DEF opVars, queueVars, workerVars
<1>1. /\ opState \in [Ops -> {"none", "in progress", "succeeded", "failed"}]
      /\ phase \in [Workers -> Phases]
      /\ running \in [Workers -> Task \cup {Idle}]
  BY DEF InStep, TypeOK
<1>2. ASSUME NEW o \in Ops, CreateOperation(o)
      PROVE  Remembered(op)'
  <2>1. /\ UNCHANGED <<queue, schedule, running, phase, alerted>>
        /\ cron = NoOp /\ cron' = o
        /\ opState'[o] = "in progress"
        /\ op # o => opState'[op] = opState[op]
    BY <1>1, <1>2 DEF CreateOperation
  <2>2. cron # op
    BY <2>1, Constants
  <2>3. ~Held(o)
    BY <1>2 DEF CreateOperation, InStep, OpsInStep, Untouched
  <2>4. Closed(op)' => Closed(op) /\ op # o
    BY <2>1, <2>3 DEF Closed, Held
  <2>5. CASE op = o
    BY <2>1, <2>4, <2>5 DEF Remembered, Found
  <2>6. CASE op # o
    <3>1. Found(op) => Found(op)'
      BY <2>1, <2>2 DEF Found, InQueue, InSchedule, Held
    <3>2. Reported(op) => Reported(op)'
      BY <2>1 DEF Reported
    <3>3. QED
      BY <2>1, <2>4, <2>6, <3>1, <3>2, RememberedStays
  <2>7. QED
    BY <2>5, <2>6
<1>3. CASE EnqueuePipeline
  <2>1. PICK t \in Task : t = NewTask(cron, 1) /\ t.op = cron
    <3>1. cron \in Ops
      BY <1>3 DEF EnqueuePipeline, InStep, TypeOK
    <3>2. QED
      BY <3>1, NewTaskType, Constants
  <2>2. /\ UNCHANGED <<opState, schedule, running, phase, alerted>>
        /\ queue' = Append(queue, t)
    BY <1>3, <2>1 DEF EnqueuePipeline
  <2>3. Found(op) => Found(op)'
    BY <2>1, <2>2, GrownQueue DEF Found, InSchedule, Held
  <2>4. Reported(op) => Reported(op)'
    BY <2>2 DEF Reported
  <2>5. QED
    BY <2>2, <2>3, <2>4, RememberedStays DEF Closed
<1>4. CASE CronFails
  <2>1. /\ UNCHANGED <<opState, queue, schedule, running, phase, alerted>>
        /\ cron # op
    BY <1>4 DEF CronFails
  <2>2. QED
    BY <2>1 DEF Remembered, Found, Reported, Closed, InQueue, InSchedule, Held
<1>5. ASSUME NEW w \in Workers, Dequeue(w)
      PROVE  Remembered(op)'
  <2>1. /\ UNCHANGED <<opState, schedule, cron, alerted>>
        /\ queue # <<>> /\ queue' = Tail(queue)
        /\ phase[w] = "idle"
        /\ running'[w] = Head(queue) /\ phase'[w] = "body"
        /\ \A v \in Workers \ {w} : phase'[v] = phase[v] /\ running'[v] = running[v]
    BY <1>1, <1>5 DEF Dequeue
  <2>2. InQueue(op) => InQueue(op)' \/ op = Head(queue).op
    BY <2>1, ShrunkQueue
  <2>3. Held(op)' <=> Held(op) \/ op = Head(queue).op
    BY <2>1 DEF Held
  <2>4. Found(op) => Found(op)'
    BY <2>1, <2>2, <2>3 DEF Found, InSchedule
  <2>5. Reported(op) => Reported(op)'
    BY <2>1 DEF Reported
  <2>6. QED
    BY <2>1, <2>4, <2>5, RememberedStays DEF Closed
<1>6. ASSUME NEW w \in Workers, Work(w)
      PROVE  Remembered(op)'
  <2>1. /\ phase[w] = "body" /\ GoOn(w, "worked") /\ running' = running
        /\ UNCHANGED <<queue, schedule, cron, alerted>>
        /\ opState'[op] \in {opState[op], "succeeded"}
    BY <1>1, <1>6 DEF Work, GoOn
  <2>2. /\ Found(op) => Found(op)'
        /\ phase'[w] # "idle"
        /\ \A v \in Workers \ {w} : phase'[v] = phase[v]
    BY <2>1, GoOnKeepsPlaces
  <2>3. Reported(op) => Reported(op)'
    BY <2>1, <2>2 DEF Reported
  <2>4. QED
    <3>1. Closed(op)' => Closed(op) /\ op # running[w].op
      <4>1. Closed(op)' => Closed(op)
        BY <2>1, <2>2 DEF Closed, GoOn, InStep, TypeOK
      <4>2. Closed(op) => op # running[w].op
        BY <2>1, OnlyTask DEF Closed
      <4>3. QED
        BY <4>1, <4>2
    <3>2. op # running[w].op => opState'[op] = opState[op]
      BY <1>1, <1>6 DEF Work
    <3>3. QED
      BY <2>1, <2>2, <2>3, <3>1, <3>2 DEF Remembered
<1>7. ASSUME NEW w \in Workers, Raise(w)
      PROVE  Remembered(op)'
  <2>1. /\ phase[w] \in {"body", "worked"} /\ GoOn(w, "raised") /\ running' = running
        /\ UNCHANGED <<queue, schedule, cron, alerted, opState>>
    BY <1>7 DEF Raise, GoOn
  <2>2. /\ Found(op) => Found(op)'
        /\ phase'[w] # "idle"
        /\ \A v \in Workers \ {w} : phase'[v] = phase[v]
    BY <2>1, GoOnKeepsPlaces
  <2>3. Reported(op) => Reported(op)'
    BY <2>1, <2>2 DEF Reported
  <2>4. Closed(op)' => Closed(op)
    BY <2>1, <2>2 DEF Closed, GoOn, InStep, TypeOK
  <2>5. QED
    BY <2>1, <2>2, <2>3, <2>4, RememberedStays
<1>8. ASSUME NEW w \in Workers, MarkOperationFailed(w)
      PROVE  Remembered(op)'
  <2>1. /\ phase[w] = "raised" /\ GoOn(w, "alert") /\ running' = running
        /\ UNCHANGED <<queue, schedule, cron, alerted>>
        /\ op # running[w].op => opState'[op] = opState[op]
        /\ op = running[w].op => opState'[op] = "failed"
    BY <1>1, <1>8 DEF MarkOperationFailed, GoOn
  <2>2. /\ Found(op) => Found(op)'
        /\ phase'[w] = "alert"
        /\ phase'[w] # "idle"
        /\ \A v \in Workers \ {w} : phase'[v] = phase[v]
    BY <2>1, GoOnKeepsPlaces
  <2>3. Reported(op) \/ op = running[w].op => Reported(op)'
    BY <2>1, <2>2 DEF Reported
  <2>4. Closed(op)' => Closed(op)
    BY <2>1, <2>2 DEF Closed
  <2>5. QED
    BY <2>1, <2>2, <2>3, <2>4 DEF Remembered
<1>9. ASSUME NEW w \in Workers, SendAlert(w)
      PROVE  Remembered(op)'
  <2>1. /\ phase[w] = "alert" /\ GoOn(w, "handled") /\ running' = running
        /\ UNCHANGED <<queue, schedule, cron, opState>>
        /\ alerted' = alerted \cup {running[w].op}
    BY <1>9 DEF SendAlert, GoOn
  <2>2. /\ Found(op) => Found(op)'
        /\ phase'[w] # "idle"
        /\ \A v \in Workers \ {w} : phase'[v] = phase[v]
    BY <2>1, GoOnKeepsPlaces
  <2>3. Reported(op) => Reported(op)'
    BY <2>1, <2>2 DEF Reported
  <2>4. Closed(op)' => Closed(op) \/ opState[op] = "failed"
    <3>1. opState[running[w].op] = "failed"
      BY <2>1 DEF InStep, TasksInStep, HasRaised
    <3>2. QED
      BY <2>1, <2>2, <3>1 DEF Closed
  <2>5. QED
    BY <2>1, <2>2, <2>3, <2>4, RememberedStays
<1>10. ASSUME NEW w \in Workers, HandlerFails(w)
       PROVE  Remembered(op)'
  <2>1. /\ phase[w] \in {"raised", "alert"} /\ GoOn(w, "handled") /\ running' = running
        /\ UNCHANGED <<queue, schedule, cron, alerted>>
        /\ op # running[w].op
    BY <1>10 DEF HandlerFails, GoOn
  <2>2. opState'[op] = opState[op]
    BY <1>1, <1>10, <2>1 DEF HandlerFails
  <2>3. /\ Found(op) => Found(op)'
        /\ phase'[w] # "idle"
        /\ \A v \in Workers \ {w} : phase'[v] = phase[v]
    BY <2>1, GoOnKeepsPlaces
  <2>4. Reported(op) => Reported(op)'
    BY <2>1, <2>3 DEF Reported
  <2>5. Closed(op)' => Closed(op)
    BY <2>1, <2>3 DEF Closed
  <2>6. QED
    BY <2>2, <2>3, <2>4, <2>5, RememberedStays
<1>11. ASSUME NEW w \in Workers, phase[w] # "idle", phase[w] # "alert", GoIdle(w),
              UNCHANGED <<opState, alerted, cron>>,
              InQueue(op) => InQueue(op)', InSchedule(op) => InSchedule(op)',
              op = running[w].op =>
                InQueue(op)' \/ InSchedule(op)' \/ opState[op] # "in progress"
       PROVE  Remembered(op)'
  <2>1. Held(op)' <=> Held(op) /\ op # running[w].op
    BY <1>11, WorkerDrops
  <2>2. opState[op] = "in progress" => (Found(op) => Found(op)')
    BY <1>11, <2>1 DEF Found
  <2>3. \A v \in Workers \ {w} : phase'[v] = phase[v] /\ running'[v] = running[v]
    BY <1>1, <1>11 DEF GoIdle
  <2>4. Reported(op) => Reported(op)'
    BY <1>11, <2>3 DEF Reported
  <2>5. Closed(op)' => Closed(op)
    BY <1>11, <2>3 DEF Closed, GoIdle, InStep, TypeOK
  <2>6. QED
    BY <1>11, <2>2, <2>4, <2>5 DEF Remembered
<1>12. ASSUME NEW w \in Workers, Return(w)
       PROVE  Remembered(op)'
  <2>1. /\ phase[w] = "worked" /\ GoIdle(w)
        /\ UNCHANGED <<opState, alerted, cron, schedule>>
        /\ running[w].op \in Ops /\ running[w].stage \in Stages
    BY <1>12, HeldTask DEF Return, InStep
  <2>2. CASE running[w].stage < NumStages
    <3>1. running[w].stage + 1 \in Stages
      BY <2>1, <2>2, Constants
    <3>2. PICK t \in Task :
            t = NewTask(running[w].op, running[w].stage + 1) /\ t.op = running[w].op
      BY <2>1, <3>1, NewTaskType
    <3>3. InQueue(op)' <=> InQueue(op) \/ op = running[w].op
      BY <1>12, <2>2, <3>2, GrownQueue DEF Return
    <3>4. QED
      BY <1>11, <2>1, <3>3 DEF InSchedule
  <2>3. CASE ~(running[w].stage < NumStages)
    <3>1. queue' = queue
      BY <1>12, <2>3 DEF Return
    <3>2. running[w].stage = NumStages
      BY <2>1, <2>3, Constants DEF Stages
    <3>3. opState[running[w].op] = "succeeded"
      BY <2>1, <3>2 DEF InStep, TasksInStep
    <3>4. QED
      BY <1>11, <2>1, <3>1, <3>3 DEF InSchedule, InQueue
  <2>4. QED
    BY <2>2, <2>3
<1>13. ASSUME NEW w \in Workers, RedisFails(w)
       PROVE  Remembered(op)'
  <2>1. /\ phase[w] \in {"worked", "raised"} /\ GoIdle(w)
        /\ UNCHANGED <<opState, alerted, cron, schedule, queue>>
        /\ op # running[w].op
    BY <1>13 DEF RedisFails
  <2>2. QED
    BY <1>11, <2>1 DEF InSchedule, InQueue
<1>14. ASSUME NEW w \in Workers, Requeue(w)
       PROVE  Remembered(op)'
  <2>1. /\ phase[w] \in {"raised", "handled"} /\ GoIdle(w)
        /\ UNCHANGED <<opState, alerted, cron, queue>>
    BY <1>14 DEF Requeue
  <2>2. /\ running[w] \in Task
        /\ schedule \subseteq schedule'
    BY <1>14, HeldTask DEF Requeue, InStep
  <2>3. CASE running[w].retries > 0
    <3>1. PICK t : t = [running[w] EXCEPT !.retries = @ - 1]
      OBVIOUS
    <3>2. t.op = running[w].op /\ t \in schedule'
      BY <1>14, <2>2, <2>3, <3>1, RetryType DEF Requeue
    <3>3. op = running[w].op => InSchedule(op)'
      BY <3>2 DEF InSchedule
    <3>4. QED
      BY <1>11, <2>1, <2>2, <3>3 DEF InSchedule, InQueue
  <2>4. CASE ~(running[w].retries > 0)
    <3>1. phase[w] = "handled"
      BY <1>14, <2>4 DEF Requeue
    <3>2. op = running[w].op => opState[op] = "failed"
      BY <3>1 DEF Remembered, Closed
    <3>3. QED
      BY <1>11, <2>1, <2>2, <3>2 DEF InSchedule, InQueue
  <2>5. QED
    BY <2>3, <2>4
<1>15. ASSUME NEW t \in schedule, ScheduleDue(t)
       PROVE  Remembered(op)'
  <2>1. /\ UNCHANGED <<opState, running, phase, cron, alerted>>
        /\ schedule' = schedule \ {t}
        /\ queue' = Append(queue, t)
        /\ t \in Task
    BY <1>15, AllAreTasks DEF ScheduleDue, InStep
  <2>2. InQueue(op)' <=> InQueue(op) \/ op = t.op
    BY <2>1, GrownQueue
  <2>3. InSchedule(op) => InSchedule(op)' \/ op = t.op
    BY <2>1 DEF InSchedule
  <2>4. Found(op) => Found(op)'
    BY <2>1, <2>2, <2>3 DEF Found, Held
  <2>5. QED
    BY <2>1, <2>4, RememberedStays DEF Reported, Closed
<1>16. CASE Crash
  <2>1. PICK taken \in SUBSET schedule :
          /\ schedule' = schedule \ taken
          /\ lost' = lost \cup {t.op : t \in taken}
                       \cup {running[w].op : w \in {v \in Workers : phase[v] # "idle"}}
                       \cup ({cron} \ {NoOp})
    BY <1>16 DEF Crash
  <2>2. /\ UNCHANGED <<opState, queue, alerted>>
        /\ \A w \in Workers : phase'[w] = "idle"
    BY <1>16 DEF Crash
  <2>3. /\ ~Held(op)
        /\ cron # op
        /\ \A t \in taken : t.op # op
    BY <2>1, Constants DEF Held
  <2>4. Found(op) => Found(op)'
    BY <2>1, <2>2, <2>3 DEF Found, InQueue, InSchedule
  <2>5. Reported(op) => Reported(op)'
    BY <2>2, <2>3 DEF Reported, Held
  <2>6. QED
    BY <2>2, <2>4, <2>5, RememberedStays DEF Closed
<1>17. CASE UNCHANGED vars
  BY <1>17 DEF vars, Remembered, Found, Reported, Closed, InQueue, InSchedule, Held
<1>18. QED
  BY <1>2, <1>3, <1>4, <1>5, <1>6, <1>7, <1>8, <1>9, <1>10, <1>12, <1>13, <1>14,
     <1>15, <1>16, <1>17
     DEF Next, CronStep, WorkerStep, SchedulerStep

LEMMA LostIsForGood == [Next]_vars => lost \subseteq lost'
BY DEF Next, CronStep, WorkerStep, SchedulerStep, CreateOperation, EnqueuePipeline,
       CronFails, Dequeue, Work, Return, Raise, MarkOperationFailed, SendAlert,
       HandlerFails, Requeue, RedisFails, ScheduleDue, Crash, vars, opVars

AllRemembered == \A op \in Ops \ lost : Remembered(op)

(* An operation that is in progress has a task somewhere, or is about to   *)
(* have one, and one that failed is reported, unless it was lost.          *)
THEOREM NoneIsForgotten == Spec => []NothingForgotten
<1>1. Init => AllRemembered
  BY DEF Init, AllRemembered, Remembered, Closed
<1>2. InStep /\ AllRemembered /\ [Next]_vars => AllRemembered'
  BY RememberedNext, LostIsForGood DEF AllRemembered
<1>3. AllRemembered => NothingForgotten
  BY DEF AllRemembered, Remembered, NothingForgotten, Found, Reported
<1>4. QED
  BY <1>1, <1>2, <1>3, AlwaysInStep, PTL DEF Spec

-----------------------------------------------------------------------------
(* Action properties                                                       *)

(* A task that waits or is in its body belongs to no failed operation.     *)
LEMMA LiveTasksAreNotFailed ==
  ASSUME InStep
  PROVE  /\ \A i \in 1..Len(queue) : opState[queue[i].op] # "failed"
         /\ \A w \in Workers : phase[w] \in {"body", "worked", "raised"} =>
              opState[running[w].op] # "failed"
BY DEF InStep, TasksInStep, Waits, HasRaised, Open

LEMMA FailedStaysFailed ==
  ASSUME InStep, [Next]_vars, NEW op \in Ops, opState[op] = "failed"
  PROVE  /\ opState'[op] = "failed"
         /\ done'[op] = done[op]
         /\ \A w \in Workers :
              phase[w] = "idle" /\ phase'[w] # "idle" => running'[w].op # op
<1> USE DEF opVars, queueVars, workerVars
<1> DEFINE NoneTaken == \A w \in Workers : phase[w] = "idle" => phase'[w] = "idle"
           RowKept == opState'[op] = "failed" /\ done'[op] = done[op]
<1>1. /\ opState \in [Ops -> {"none", "in progress", "succeeded", "failed"}]
      /\ done \in [Ops -> 0..NumStages]
      /\ phase \in [Workers -> Phases]
      /\ running \in [Workers -> Task \cup {Idle}]
  BY DEF InStep, TypeOK
<1>2. CASE CronStep
  <2>1. NoneTaken
    BY <1>2 DEF CronStep, CreateOperation, EnqueuePipeline, CronFails
  <2>2. RowKept
    BY <1>1, <1>2 DEF CronStep, CreateOperation, EnqueuePipeline, CronFails
  <2>3. QED
    BY <2>1, <2>2
<1>3. ASSUME NEW w \in Workers, Dequeue(w)
      PROVE  RowKept /\ \A v \in Workers :
               phase[v] = "idle" /\ phase'[v] # "idle" => running'[v].op # op
  <2>1. RowKept
    BY <1>3 DEF Dequeue
  <2>2. Head(queue).op # op
    <3>1. Head(queue) = queue[1] /\ 1 \in 1..Len(queue)
      BY <1>3, QueueTail DEF Dequeue, InStep
    <3>2. QED
      BY <3>1, LiveTasksAreNotFailed
  <2>3. running'[w] = Head(queue)
    BY <1>1, <1>3 DEF Dequeue
  <2>4. \A v \in Workers \ {w} : phase'[v] = phase[v]
    BY <1>1, <1>3 DEF Dequeue
  <2>5. QED
    BY <2>1, <2>2, <2>3, <2>4
<1>4. ASSUME NEW w \in Workers, Work(w)
      PROVE  RowKept /\ NoneTaken
  <2>1. running[w].op # op
    BY <1>4, LiveTasksAreNotFailed DEF Work
  <2>2. QED
    BY <1>1, <1>4, <2>1 DEF Work, GoOn
<1>5. ASSUME NEW w \in Workers, Return(w)
      PROVE  RowKept /\ NoneTaken
  <2>1. running[w].op # op
    BY <1>5, LiveTasksAreNotFailed DEF Return
  <2>2. RowKept
    BY <1>1, <1>5, <2>1 DEF Return
  <2>3. NoneTaken
    BY <1>1, <1>5 DEF Return, GoIdle
  <2>4. QED
    BY <2>2, <2>3
<1>6. ASSUME NEW w \in Workers, MarkOperationFailed(w) \/ HandlerFails(w)
      PROVE  RowKept /\ NoneTaken
  <2>1. RowKept
    BY <1>1, <1>6 DEF MarkOperationFailed, HandlerFails
  <2>2. NoneTaken
    BY <1>1, <1>6 DEF MarkOperationFailed, HandlerFails, GoOn
  <2>3. QED
    BY <2>1, <2>2
<1>7. ASSUME NEW w \in Workers, Raise(w) \/ SendAlert(w)
      PROVE  RowKept /\ NoneTaken
  BY <1>1, <1>7 DEF Raise, SendAlert, GoOn
<1>8. ASSUME NEW w \in Workers, Requeue(w) \/ RedisFails(w)
      PROVE  RowKept /\ NoneTaken
  BY <1>1, <1>8 DEF Requeue, RedisFails, GoIdle
<1>9. CASE SchedulerStep
  BY <1>1, <1>9 DEF SchedulerStep, ScheduleDue
<1>10. CASE Crash
  BY <1>1, <1>10 DEF Crash
<1>11. CASE UNCHANGED vars
  BY <1>1, <1>11 DEF vars
<1>12. QED
  BY <1>2, <1>3, <1>4, <1>5, <1>6, <1>7, <1>8, <1>9, <1>10, <1>11
     DEF Next, WorkerStep

(* Nothing undoes a failure: the row keeps saying so, the pipeline stands  *)
(* still, and no worker takes a task of it.                                *)
THEOREM FailuresAreFinal == Spec => FailedIsFinal
<1>1. InStep /\ [Next]_vars =>
        [\A op \in Ops : opState[op] = "failed" =>
           /\ opState'[op] = "failed"
           /\ done'[op] = done[op]
           /\ \A w \in Workers :
                phase[w] = "idle" /\ phase'[w] # "idle" => running'[w].op # op]_vars
  BY FailedStaysFailed
<1>2. QED
  BY <1>1, AlwaysInStep, PTL DEF Spec, FailedIsFinal

-----------------------------------------------------------------------------
(* Implementation of OperationLifecycle                                    *)

LEMMA LifecycleInit == Init => Lifecycle!Init
BY DEF Init, Lifecycle!Init

LEMMA LifecycleStep ==
  ASSUME InStep, [Next]_vars
  PROVE  [Lifecycle!Next]_(Lifecycle!lifecycleVars)
<1> USE DEF opVars, queueVars, workerVars, Lifecycle!lifecycleVars
<1> DEFINE Same == opState' = opState /\ done' = done
<1>1. /\ opState \in [Ops -> {"none", "in progress", "succeeded", "failed"}]
      /\ done \in [Ops -> 0..NumStages]
  BY DEF InStep, TypeOK
<1>2. ASSUME NEW op \in Ops, CreateOperation(op)
      PROVE  Lifecycle!Create(op)
  BY <1>2 DEF CreateOperation, Lifecycle!Create
<1>3. ASSUME NEW w \in Workers, phase[w] # "idle"
      PROVE  running[w].op \in Ops /\ running[w].stage \in Stages
  BY <1>3, HeldTask DEF InStep
<1>4. ASSUME NEW w \in Workers, Work(w)
      PROVE  Same \/ Lifecycle!Succeed(running[w].op)
  <2>1. Waits(running[w]) /\ running[w].stage \in Nat
    BY <1>3, <1>4, Constants DEF InStep, TasksInStep, Work
  <2>2. CASE running[w].stage = NumStages
    <3>1. /\ opState[running[w].op] \in {"in progress", "succeeded"}
          /\ done[running[w].op] + 1 = NumStages
      <4>1. opState[running[w].op] \in {"in progress", "succeeded"}
        BY <2>1 DEF Waits, Open
      <4>2. done[running[w].op] = running[w].stage - 1
        BY <2>1 DEF Waits
      <4>3. done[running[w].op] + 1 = running[w].stage
        BY <2>1, <4>2
      <4>4. QED
        BY <2>2, <4>1, <4>3
    <3>2. done' = [done EXCEPT ![running[w].op] = done[running[w].op]]
      <4>1. done' = done
        BY <1>4 DEF Work
      <4>2. QED
        BY <1>1, <4>1
    <3>3. opState' = [opState EXCEPT ![running[w].op] = "succeeded"]
      BY <1>4, <2>2 DEF Work
    <3>4. QED
      BY <3>1, <3>2, <3>3 DEF Lifecycle!Succeed
  <2>3. CASE running[w].stage # NumStages
    BY <1>4, <2>3 DEF Work
  <2>4. QED
    BY <2>2, <2>3
<1>5. ASSUME NEW w \in Workers, Return(w)
      PROVE  \/ Lifecycle!Succeed(running[w].op)
             \/ Lifecycle!FinishStage(running[w].op)
  <2>1. /\ Waits(running[w])
        /\ running[w].stage = NumStages => opState[running[w].op] = "succeeded"
    BY <1>5 DEF InStep, TasksInStep, Return
  <2>2. /\ running[w].stage \in Nat /\ NumStages \in Nat
        /\ running[w].stage <= NumStages
        /\ running[w].op \in Ops
    BY <1>3, <1>5, Constants DEF Return, Stages
  <2>3. /\ done[running[w].op] = running[w].stage - 1
        /\ done[running[w].op] + 1 = running[w].stage
    BY <2>1, <2>2 DEF Waits
  <2>4. /\ done' = [done EXCEPT ![running[w].op] = running[w].stage]
        /\ opState' = opState
    BY <1>5 DEF Return
  <2>5. CASE running[w].stage = NumStages
    <3>1. opState' = [opState EXCEPT ![running[w].op] = "succeeded"]
      <4>1. opState' = opState /\ opState[running[w].op] = "succeeded"
        BY <2>1, <2>4, <2>5
      <4>2. QED
        BY <1>1, <4>1
    <3>2. QED
      BY <2>1, <2>3, <2>4, <2>5, <3>1 DEF Lifecycle!Succeed
  <2>6. CASE running[w].stage # NumStages
    <3>1. opState[running[w].op] = "in progress"
      BY <2>1, <2>6 DEF Waits, Open
    <3>2. done[running[w].op] + 1 < NumStages
      BY <2>2, <2>3, <2>6
    <3>3. done' = [done EXCEPT ![running[w].op] = done[running[w].op] + 1]
      BY <2>3, <2>4
    <3>4. QED
      BY <2>4, <3>1, <3>2, <3>3 DEF Lifecycle!FinishStage
  <2>7. QED
    BY <2>5, <2>6
<1>6. ASSUME NEW w \in Workers, phase[w] = "raised", running[w].retries = 0,
             opState' = [opState EXCEPT ![running[w].op] = "failed"], done' = done
      PROVE  Lifecycle!Fail(running[w].op)
  <2>1. HasRaised(running[w], phase[w])
    BY <1>6 DEF InStep, TasksInStep
  <2>2. /\ running[w].stage \in Nat /\ NumStages \in Nat
        /\ running[w].stage <= NumStages
    BY <1>3, <1>6, Constants DEF Stages
  <2>3. done[running[w].op] < NumStages
    BY <2>1, <2>2 DEF HasRaised
  <2>4. opState[running[w].op] \in {"in progress", "succeeded"}
    BY <1>6, <2>1 DEF HasRaised, Open
  <2>5. QED
    BY <1>6, <2>3, <2>4 DEF Lifecycle!Fail
<1>7. ASSUME NEW w \in Workers, MarkOperationFailed(w) \/ HandlerFails(w)
      PROVE  Same \/ Lifecycle!Fail(running[w].op)
  BY <1>6, <1>7 DEF MarkOperationFailed, HandlerFails
<1>8. ASSUME NEW w \in Workers,
             Dequeue(w) \/ Raise(w) \/ SendAlert(w) \/ Requeue(w) \/ RedisFails(w)
      PROVE  Same
  BY <1>8 DEF Dequeue, Raise, SendAlert, Requeue, RedisFails
<1>9. CASE EnqueuePipeline \/ CronFails \/ SchedulerStep \/ Crash \/ UNCHANGED vars
  BY <1>9 DEF EnqueuePipeline, CronFails, SchedulerStep, ScheduleDue, Crash, vars
<1>10. ASSUME NEW w \in Workers, WorkerStep(w)
       PROVE  [Lifecycle!Next]_(Lifecycle!lifecycleVars)
  <2>1. phase[w] # "idle" => running[w].op \in Ops
    BY <1>3
  <2>2. CASE Work(w)
    BY <1>4, <2>1, <2>2 DEF Lifecycle!Next, Work
  <2>3. CASE Return(w)
    BY <1>5, <2>1, <2>3 DEF Lifecycle!Next, Return
  <2>4. CASE MarkOperationFailed(w) \/ HandlerFails(w)
    BY <1>7, <2>1, <2>4 DEF Lifecycle!Next, MarkOperationFailed, HandlerFails
  <2>5. QED
    BY <1>8, <1>10, <2>2, <2>3, <2>4 DEF WorkerStep
<1>11. QED
  BY <1>2, <1>9, <1>10 DEF Next, CronStep, Lifecycle!Next

(* However the queue interleaves, retries and crashes, an operation goes   *)
(* through its stages in order and ends at most once.                      *)
THEOREM QueueImplementsLifecycle == Spec => ImplementsLifecycle
<1>1. InStep /\ [Next]_vars => [Lifecycle!Next]_(Lifecycle!lifecycleVars)
  BY LifecycleStep
<1>2. QED
  BY <1>1, LifecycleInit, AlwaysInStep, PTL
     DEF Spec, ImplementsLifecycle, Lifecycle!Spec
=============================================================================
