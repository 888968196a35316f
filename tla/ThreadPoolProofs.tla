-------------------------- MODULE ThreadPoolProofs --------------------------
(***************************************************************************)
(* The safety properties of ThreadPool, for any number of workers, callers *)
(* and tasks and any capacity of the queue.                                *)
(***************************************************************************)
EXTENDS ThreadPool, QueueLemmas, FiniteSetTheorems

\* Every step of a thread, for the case analyses below.
LEMMA StepCases ==
  ASSUME [Next]_vars
  PROVE  \/ \E w \in Workers : \/ WorkerWait(w) \/ WorkerExit(w) \/ WorkerPop(w)
                               \/ WorkerRun(w) \/ SpuriousWorker(w)
         \/ \E c \in Callers : \/ AddTaskWait(c) \/ AddTaskThrow(c) \/ AddTaskPush(c)
                               \/ NotifyWorker(c) \/ SpuriousCaller(c)
         \/ \E c \in Callers, t \in Tasks :
               AddTask(c, t) \/ TryAddTaskRefuse(c, t) \/ TryAddTaskPush(c, t)
         \/ KillStop \/ KillWakeWorkers \/ KillWakeCallers \/ KillJoin
         \/ UNCHANGED vars
BY DEF Next, WorkerStep, CallerStep, Submit, KillStep, Terminated

\* A caller inside addTask holds its task, a worker running one too.
HoldingInv ==
    /\ \A c \in Callers : caller[c] \in {"adding", "blocked"} => arg[c] \in Tasks
    /\ \A w \in Workers : worker[w] = "running" <=> task[w] # NoTask

TypeInv == TypeOK /\ HoldingInv

LEMMA TypeInductive == Spec => []TypeInv
<1>1. Init => TypeInv
  BY EmptySeq DEF Init, TypeInv, TypeOK, HoldingInv, WorkerStates, CallerStates, KillerStates
<1>2. TypeInv /\ [Next]_vars => TypeInv'
  <2> SUFFICES ASSUME TypeInv, [Next]_vars
               PROVE  TypeInv'
    OBVIOUS
  <2> USE DEF TypeInv, TypeOK, HoldingInv, WorkerStates, CallerStates, KillerStates, history
  <2>1. ASSUME NEW w \in Workers, WorkerWait(w)
        PROVE  TypeInv'
    BY <2>1 DEF WorkerWait
  <2>2. ASSUME NEW w \in Workers, WorkerExit(w)
        PROVE  TypeInv'
    BY <2>2 DEF WorkerExit
  <2>3. ASSUME NEW w \in Workers, WorkerPop(w)
        PROVE  TypeInv'
    <3>1. /\ Head(queue) \in Tasks /\ Tail(queue) \in Seq(Tasks)
          /\ Append(started, Head(queue)) \in Seq(Tasks)
      BY <2>3, HeadTailProperties, AppendProperties DEF WorkerPop
    <3>2. /\ caller' \in [Callers -> CallerStates]
          /\ \A c \in Callers : caller'[c] = caller[c] \/ (caller[c] = "blocked" /\ caller'[c] = "adding")
      BY <2>3 DEF WorkerPop, NotifyOne
    <3>3. QED
      BY <2>3, <3>1, <3>2, PoolAssumption DEF WorkerPop, Popped
  <2>4. ASSUME NEW w \in Workers, WorkerRun(w)
        PROVE  TypeInv'
    BY <2>4 DEF WorkerRun
  <2>5. ASSUME NEW w \in Workers, SpuriousWorker(w)
        PROVE  TypeInv'
    BY <2>5 DEF SpuriousWorker
  <2>6. ASSUME NEW c \in Callers, AddTaskWait(c)
        PROVE  TypeInv'
    BY <2>6 DEF AddTaskWait
  <2>7. ASSUME NEW c \in Callers, AddTaskThrow(c)
        PROVE  TypeInv'
    BY <2>7 DEF AddTaskThrow
  <2>8. ASSUME NEW c \in Callers, AddTaskPush(c)
        PROVE  TypeInv'
    BY <2>8 DEF AddTaskPush, Push, AfterPush
  <2>9. ASSUME NEW c \in Callers, NotifyWorker(c)
        PROVE  TypeInv'
    <3>1. /\ worker' \in [Workers -> WorkerStates]
          /\ \A w \in Workers : worker'[w] = worker[w] \/ (worker[w] = "waiting" /\ worker'[w] = "ready")
      BY <2>9 DEF NotifyWorker, NotifyOne
    <3>2. QED
      BY <2>9, <3>1 DEF NotifyWorker
  <2>10. ASSUME NEW c \in Callers, SpuriousCaller(c)
         PROVE  TypeInv'
    BY <2>10 DEF SpuriousCaller
  <2>11. ASSUME NEW c \in Callers, NEW t \in Tasks, AddTask(c, t)
         PROVE  TypeInv'
    BY <2>11 DEF AddTask
  <2>12. ASSUME NEW c \in Callers, NEW t \in Tasks, TryAddTaskRefuse(c, t)
         PROVE  TypeInv'
    BY <2>12 DEF TryAddTaskRefuse
  <2>13. ASSUME NEW c \in Callers, NEW t \in Tasks, TryAddTaskPush(c, t)
         PROVE  TypeInv'
    BY <2>13 DEF TryAddTaskPush, Push, AfterPush
  <2>14. CASE KillStop
    BY <2>14 DEF KillStop
  <2>15. CASE KillWakeWorkers
    <3>1. /\ worker' \in [Workers -> WorkerStates]
          /\ \A w \in Workers : worker'[w] = worker[w] \/ (worker[w] = "waiting" /\ worker'[w] = "ready")
      BY <2>15 DEF KillWakeWorkers, NotifyAll
    <3>2. QED
      BY <2>15, <3>1 DEF KillWakeWorkers
  <2>16. CASE KillWakeCallers
    <3>1. /\ caller' \in [Callers -> CallerStates]
          /\ \A c \in Callers : caller'[c] = caller[c] \/ (caller[c] = "blocked" /\ caller'[c] = "adding")
      BY <2>16 DEF KillWakeCallers, NotifyAll
    <3>2. QED
      BY <2>16, <3>1 DEF KillWakeCallers
  <2>17. CASE KillJoin
    BY <2>17 DEF KillJoin
  <2>18. CASE UNCHANGED vars
    BY <2>18 DEF vars
  <2>19. QED
    BY <2>1, <2>2, <2>3, <2>4, <2>5, <2>6, <2>7, <2>8, <2>9, <2>10, <2>11,
       <2>12, <2>13, <2>14, <2>15, <2>16, <2>17, <2>18, StepCases
<1>3. QED
  BY <1>1, <1>2, PTL DEF Spec

\* Every variable of the pool keeps its type; in particular only tasks are
\* ever put in queue_, although addTask may wait between taking its argument
\* and storing it.
THEOREM TypeCorrect == Spec => []TypeOK
BY TypeInductive, PTL DEF TypeInv

-----------------------------------------------------------------------------
(* The queue: its bound and its order. *)

\* Only a pop and the two ways of pushing touch the queue and its histories.
LEMMA QueueCases ==
  ASSUME [Next]_vars
  PROVE  \/ \E w \in Workers : WorkerPop(w)
         \/ \E c \in Callers : AddTaskPush(c)
         \/ \E c \in Callers, t \in Tasks : TryAddTaskPush(c, t)
         \/ UNCHANGED <<queue, accepted, started>>
BY StepCases DEF WorkerWait, WorkerExit, WorkerRun, SpuriousWorker, AddTaskWait,
   AddTaskThrow, NotifyWorker, SpuriousCaller, AddTask, TryAddTaskRefuse,
   KillStop, KillWakeWorkers, KillWakeCallers, KillJoin, vars, history

QueueInv == BoundedQueue /\ FifoExactlyOnce

LEMMA QueueInductive == Spec => []QueueInv
<1>1. Init => QueueInv
  BY EmptySeq, PoolAssumption DEF Init, QueueInv, BoundedQueue, FifoExactlyOnce
<1>2. TypeInv /\ QueueInv /\ [Next]_vars => QueueInv'
  <2> SUFFICES ASSUME TypeInv, QueueInv, [Next]_vars
               PROVE  QueueInv'
    OBVIOUS
  <2>1. /\ queue \in Seq(Tasks) /\ accepted \in Seq(Tasks) /\ started \in Seq(Tasks)
        /\ Len(queue) \in Nat /\ Len(queue) <= MaxQueueSize
        /\ accepted = started \o queue
    BY DEF TypeInv, TypeOK, QueueInv, BoundedQueue, FifoExactlyOnce
  <2>2. ASSUME NEW t \in Tasks, ~Full, Push(t), started' = started
        PROVE  QueueInv'
    <3>1. Len(queue') = Len(queue) + 1 /\ Len(queue) < MaxQueueSize
      BY <2>1, <2>2, AppendProperties, PoolAssumption DEF Push, Full
    <3>2. accepted' = started' \o queue'
      <4>1. started \o Append(queue, t) = Append(started \o queue, t)
        BY <2>1, AppendRight
      <4>2. QED
        BY <2>1, <2>2, <4>1 DEF Push
    <3>3. QED
      BY <2>1, <3>1, <3>2, PoolAssumption DEF QueueInv, BoundedQueue, FifoExactlyOnce
  <2>3. ASSUME NEW w \in Workers, WorkerPop(w)
        PROVE  QueueInv'
    <3>1. Len(queue') = Len(queue) - 1
      BY <2>1, <2>3, HeadTailProperties DEF WorkerPop, Popped
    <3>2. accepted' = started' \o queue'
      BY <2>1, <2>3, MoveHead DEF WorkerPop, Popped
    <3>3. QED
      BY <2>1, <3>1, <3>2, PoolAssumption DEF QueueInv, BoundedQueue, FifoExactlyOnce
  <2>4. ASSUME NEW c \in Callers, AddTaskPush(c)
        PROVE  QueueInv'
    BY <2>2, <2>4 DEF AddTaskPush, TypeInv, HoldingInv
  <2>5. ASSUME NEW c \in Callers, NEW t \in Tasks, TryAddTaskPush(c, t)
        PROVE  QueueInv'
    BY <2>2, <2>5 DEF TryAddTaskPush
  <2>6. CASE UNCHANGED <<queue, accepted, started>>
    BY <2>6 DEF QueueInv, BoundedQueue, FifoExactlyOnce
  <2>7. QED
    BY <2>3, <2>4, <2>5, <2>6, QueueCases
<1>3. QED
  BY <1>1, <1>2, TypeInductive, PTL DEF Spec

\* However many threads push and however many callers were woken for one free
\* place, queue_ never holds more than max_queue_size_ tasks.
THEOREM QueueIsBounded == Spec => []BoundedQueue
BY QueueInductive, PTL DEF QueueInv

\* Tasks are taken from queue_ in the order they were accepted; none is lost,
\* none is taken twice.
THEOREM TasksAreFifo == Spec => []FifoExactlyOnce
BY QueueInductive, PTL DEF QueueInv

-----------------------------------------------------------------------------
(* kill(): where a thread can be once stop_ is set. *)

StopInv ==
    /\ killer = "idle" <=> ~stop
    /\ \A w \in Workers : worker[w] = "exited" => stop /\ queue = <<>>
    /\ killer = "joined" => \A w \in Workers : worker[w] = "exited"
    /\ NobodySleepsThroughKill

LEMMA StopInductive == Spec => []StopInv
<1>1. Init => StopInv
  BY DEF Init, StopInv, NobodySleepsThroughKill
<1>2. TypeInv /\ StopInv /\ [Next]_vars => StopInv'
  <2> SUFFICES ASSUME TypeInv, StopInv, [Next]_vars
               PROVE  StopInv'
    OBVIOUS
  <2> USE DEF TypeInv, TypeOK, WorkerStates, CallerStates, KillerStates, history,
              StopInv, NobodySleepsThroughKill
  <2>1. ASSUME NEW w \in Workers, WorkerWait(w)
        PROVE  StopInv'
    BY <2>1 DEF WorkerWait
  <2>2. ASSUME NEW w \in Workers, WorkerExit(w)
        PROVE  StopInv'
    BY <2>2 DEF WorkerExit, Finished
  <2>3. ASSUME NEW w \in Workers, WorkerPop(w)
        PROVE  StopInv'
    <3>1. \A c \in Callers : caller'[c] = "blocked" => caller[c] = "blocked"
      BY <2>3 DEF WorkerPop, NotifyOne
    <3>2. QED
      BY <2>3, <3>1 DEF WorkerPop
  <2>4. ASSUME NEW w \in Workers, WorkerRun(w) \/ SpuriousWorker(w)
        PROVE  StopInv'
    BY <2>4 DEF WorkerRun, SpuriousWorker
  <2>5. ASSUME NEW c \in Callers, AddTaskWait(c)
        PROVE  StopInv'
    BY <2>5 DEF AddTaskWait
  <2>6. ASSUME NEW c \in Callers, AddTaskThrow(c) \/ SpuriousCaller(c)
        PROVE  StopInv'
    BY <2>6 DEF AddTaskThrow, SpuriousCaller
  <2>7. ASSUME NEW c \in Callers, AddTaskPush(c)
        PROVE  StopInv'
    BY <2>7 DEF AddTaskPush, AfterPush
  <2>8. ASSUME NEW c \in Callers, NotifyWorker(c)
        PROVE  StopInv'
    <3>1. \A w \in Workers : /\ worker'[w] = "waiting" => worker[w] = "waiting"
                             /\ worker'[w] = "exited" <=> worker[w] = "exited"
      BY <2>8 DEF NotifyWorker, NotifyOne
    <3>2. QED
      BY <2>8, <3>1 DEF NotifyWorker
  <2>9. ASSUME NEW c \in Callers, NEW t \in Tasks, AddTask(c, t) \/ TryAddTaskRefuse(c, t)
        PROVE  StopInv'
    BY <2>9 DEF AddTask, TryAddTaskRefuse
  <2>10. ASSUME NEW c \in Callers, NEW t \in Tasks, TryAddTaskPush(c, t)
         PROVE  StopInv'
    BY <2>10 DEF TryAddTaskPush, AfterPush
  <2>11. CASE KillStop
    BY <2>11 DEF KillStop
  <2>12. CASE KillWakeWorkers
    BY <2>12 DEF KillWakeWorkers, NotifyAll
  <2>13. CASE KillWakeCallers
    BY <2>13 DEF KillWakeCallers, NotifyAll
  <2>14. CASE KillJoin
    BY <2>14 DEF KillJoin
  <2>15. CASE UNCHANGED vars
    BY <2>15 DEF vars
  <2>16. QED
    BY <2>1, <2>2, <2>3, <2>4, <2>5, <2>6, <2>7, <2>8, <2>9, <2>10, <2>11,
       <2>12, <2>13, <2>14, <2>15, StepCases
<1>3. QED
  BY <1>1, <1>2, TypeInductive, PTL DEF Spec

\* kill() sets stop_ under the mutex and notifies both condition variables
\* afterwards: no thread can fall asleep after its notification.
THEOREM KillWakesEverybody == Spec => []NobodySleepsThroughKill
BY StopInductive, PTL DEF StopInv

-----------------------------------------------------------------------------
(* The life of a task: in the hands of a caller, in the queue, in the hands *)
(* of a worker, done; in one place at a time.                               *)

Distinct(s) == \A i, j \in DOMAIN s : s[i] = s[j] => i = j

OriginInv ==
    /\ Distinct(accepted)
    /\ Members(accepted) \subseteq submitted
    /\ \A c \in Callers : arg[c] # NoTask => arg[c] \in submitted \ Members(accepted)
    /\ \A c1, c2 \in Callers : arg[c1] = arg[c2] /\ arg[c1] # NoTask => c1 = c2

LEMMA DistinctAppend ==
  ASSUME NEW S, NEW s \in Seq(S), NEW e \in S, Distinct(s), e \notin Members(s)
  PROVE  /\ Distinct(Append(s, e))
         /\ Members(Append(s, e)) = Members(s) \cup {e}
<1>1. /\ DOMAIN s = 1 .. Len(s) /\ Len(s) \in Nat
      /\ DOMAIN Append(s, e) = 1 .. Len(s) + 1
      /\ \A i \in 1 .. Len(s) : Append(s, e)[i] = s[i]
      /\ Append(s, e)[Len(s) + 1] = e
  BY AppendProperties, LenProperties
<1>2. Distinct(Append(s, e))
  BY <1>1 DEF Distinct, Members
<1>3. QED
  BY <1>2, RangeOfAppend DEF Members

LEMMA OriginInductive == Spec => []OriginInv
<1>1. Init => OriginInv
  BY DEF Init, OriginInv, Distinct, Members
<1>2. TypeInv /\ TypeInv' /\ OriginInv /\ [Next]_vars => OriginInv'
  <2> SUFFICES ASSUME TypeInv, TypeInv', OriginInv, [Next]_vars
               PROVE  OriginInv'
    OBVIOUS
  <2>1. /\ accepted \in Seq(Tasks) /\ arg \in [Callers -> Tasks \cup {NoTask}]
        /\ arg' \in [Callers -> Tasks \cup {NoTask}]
        /\ NoTask \notin Tasks /\ submitted \in SUBSET Tasks
    BY PoolAssumption DEF TypeInv, TypeOK
  <2>2. CASE /\ accepted' = accepted /\ submitted \subseteq submitted'
             /\ \A c \in Callers : arg'[c] \in {arg[c], NoTask}
    BY <2>1, <2>2 DEF OriginInv
  <2>3. ASSUME NEW c \in Callers, NEW t \in Tasks, AddTask(c, t)
        PROVE  OriginInv'
    <3>1. /\ arg' = [arg EXCEPT ![c] = t] /\ t \notin submitted
          /\ submitted' = submitted \cup {t} /\ accepted' = accepted
      BY <2>3 DEF AddTask
    <3>2. \A d \in Callers : arg[d] # t
      BY <2>1, <3>1 DEF OriginInv
    <3>3. QED
      BY <2>1, <3>1, <3>2 DEF OriginInv
  <2>4. ASSUME NEW t \in Tasks, t \notin Members(accepted), accepted' = Append(accepted, t)
        PROVE  Distinct(accepted') /\ Members(accepted') = Members(accepted) \cup {t}
    BY <2>1, <2>4, DistinctAppend DEF OriginInv
  <2>5. ASSUME NEW c \in Callers, AddTaskPush(c)
        PROVE  OriginInv'
    <3>1. /\ arg[c] \in Tasks /\ accepted' = Append(accepted, arg[c])
          /\ arg' = [arg EXCEPT ![c] = NoTask] /\ submitted' = submitted
      BY <2>5 DEF AddTaskPush, Push, TypeInv, HoldingInv
    <3>2. arg[c] \in submitted \ Members(accepted)
      BY <2>1, <3>1 DEF OriginInv
    <3>3. /\ Distinct(accepted')
          /\ Members(accepted') = Members(accepted) \cup {arg[c]}
      BY <2>4, <3>1, <3>2
    <3>4. \A d \in Callers : d # c /\ arg[d] # NoTask => arg[d] # arg[c]
      BY DEF OriginInv
    <3>5. QED
      BY <2>1, <3>1, <3>2, <3>3, <3>4 DEF OriginInv
  <2>6. ASSUME NEW c \in Callers, NEW t \in Tasks, TryAddTaskPush(c, t)
        PROVE  OriginInv'
    <3>1. /\ t \notin submitted /\ accepted' = Append(accepted, t)
          /\ arg' = arg /\ submitted' = submitted \cup {t}
      BY <2>6 DEF TryAddTaskPush, Push
    <3>2. /\ Distinct(accepted')
          /\ Members(accepted') = Members(accepted) \cup {t}
      BY <2>4, <3>1 DEF OriginInv
    <3>3. QED
      BY <2>1, <3>1, <3>2 DEF OriginInv
  <2>7. QED
    <3>1. \/ \E c \in Callers, t \in Tasks : AddTask(c, t) \/ TryAddTaskPush(c, t)
          \/ \E c \in Callers : AddTaskPush(c) \/ AddTaskThrow(c)
          \/ UNCHANGED <<accepted, arg>> /\ submitted \subseteq submitted'
      BY StepCases DEF WorkerWait, WorkerExit, WorkerPop, WorkerRun, SpuriousWorker,
         AddTaskWait, NotifyWorker, SpuriousCaller, TryAddTaskRefuse,
         KillStop, KillWakeWorkers, KillWakeCallers, KillJoin, vars, history
    <3>2. ASSUME NEW c \in Callers, AddTaskThrow(c)
          PROVE  OriginInv'
      BY <2>1, <2>2, <3>2 DEF AddTaskThrow, history
    <3>3. QED
      BY <2>2, <2>3, <2>5, <2>6, <3>1, <3>2
<1>3. QED
  BY <1>1, <1>2, TypeInductive, PTL DEF Spec

\* What is in a history after an append.
LEMMA MembersAppend ==
  ASSUME NEW S, NEW s \in Seq(S), NEW e \in S
  PROVE  Members(Append(s, e)) = Members(s) \cup {e}
BY RangeOfAppend DEF Members

\* A task taken from the queue was not started before.
LEMMA HeadIsFresh ==
  ASSUME NEW S, NEW s \in Seq(S), NEW t \in Seq(S), t # <<>>, Distinct(s \o t)
  PROVE  Head(t) \in S /\ Head(t) \notin Members(s)
<1>1. /\ Len(s) \in Nat /\ Len(t) \in Nat \ {0}
      /\ DOMAIN s = 1 .. Len(s) /\ DOMAIN (s \o t) = 1 .. Len(s) + Len(t)
      /\ \A i \in 1 .. Len(s) : (s \o t)[i] = s[i]
      /\ (s \o t)[Len(s) + 1] = t[1]
      /\ Head(t) = t[1] /\ t[1] \in S
  BY EmptySeq, LenProperties, ConcatProperties, HeadTailProperties
<1>2. QED
  BY <1>1 DEF Distinct, Members

Hands == {task[w] : w \in Workers} \ {NoTask}

HandsInv ==
    /\ \A w1, w2 \in Workers : task[w1] = task[w2] /\ task[w1] # NoTask => w1 = w2
    /\ Members(started) = done \cup Hands
    /\ done \cap Hands = {}

LEMMA HandsInductive == Spec => []HandsInv
<1>1. Init => HandsInv
  BY DEF Init, HandsInv, Hands, Members
<1>2. TypeInv /\ QueueInv /\ OriginInv /\ HandsInv /\ [Next]_vars => HandsInv'
  <2> SUFFICES ASSUME TypeInv, QueueInv, OriginInv, HandsInv, [Next]_vars
               PROVE  HandsInv'
    OBVIOUS
  <2>1. /\ queue \in Seq(Tasks) /\ started \in Seq(Tasks)
        /\ task \in [Workers -> Tasks \cup {NoTask}] /\ NoTask \notin Tasks
        /\ \A w \in Workers : worker[w] = "running" <=> task[w] # NoTask
    BY PoolAssumption DEF TypeInv, TypeOK, HoldingInv
  <2>2. ASSUME NEW w \in Workers, WorkerPop(w)
        PROVE  HandsInv'
    <3> DEFINE t == Head(queue)
    <3>1. t \in Tasks /\ t \notin Members(started)
      BY <2>1, <2>2, HeadIsFresh DEF WorkerPop, QueueInv, FifoExactlyOnce, OriginInv
    <3>2. /\ task' = [task EXCEPT ![w] = t] /\ task[w] = NoTask
          /\ started' = Append(started, t) /\ done' = done
      BY <2>1, <2>2 DEF WorkerPop
    <3> HIDE DEF t
    <3>3. Members(started') = Members(started) \cup {t}
      <4>1. Members(Append(started, t)) = Members(started) \cup {t}
        BY <2>1, <3>1, MembersAppend
      <4>2. QED
        BY <3>2, <4>1
    <3>4. Hands' = Hands \cup {t}
      BY <2>1, <3>1, <3>2 DEF Hands
    <3>5. QED
      BY <2>1, <3>1, <3>2, <3>3, <3>4 DEF HandsInv, Hands
  <2>3. ASSUME NEW w \in Workers, WorkerRun(w)
        PROVE  HandsInv'
    <3>1. /\ task' = [task EXCEPT ![w] = NoTask] /\ task[w] # NoTask
          /\ started' = started /\ done' = done \cup {task[w]}
      BY <2>1, <2>3 DEF WorkerRun
    <3>2. Hands' = Hands \ {task[w]}
      BY <2>1, <3>1 DEF Hands, HandsInv
    <3>3. task[w] \in Hands
      BY <3>1 DEF Hands
    <3>4. QED
      BY <2>1, <3>1, <3>2, <3>3 DEF HandsInv
  <2>4. CASE UNCHANGED <<task, started, done>>
    BY <2>4 DEF HandsInv, Hands
  <2>5. QED
    <3>1. \/ \E w \in Workers : WorkerPop(w) \/ WorkerRun(w)
          \/ UNCHANGED <<task, started, done>>
      BY StepCases DEF WorkerWait, WorkerExit, SpuriousWorker, AddTaskWait, AddTaskThrow,
         AddTaskPush, Push, NotifyWorker, SpuriousCaller, AddTask, TryAddTaskRefuse,
         TryAddTaskPush, KillStop, KillWakeWorkers, KillWakeCallers, KillJoin, vars, history
    <3>2. QED
      BY <2>2, <2>3, <2>4, <3>1
<1>3. QED
  BY <1>1, <1>2, TypeInductive, QueueInductive, OriginInductive, PTL DEF Spec

\* No two workers ever run one task, and a started task is either done or in
\* the hands of a worker.
THEOREM TasksHaveOneWorker == Spec => []OneWorkerPerTask
<1>1. TypeInv /\ HandsInv => OneWorkerPerTask
  BY DEF TypeInv, HoldingInv, HandsInv, Hands, OneWorkerPerTask
<1>2. QED
  BY <1>1, TypeInductive, HandsInductive, PTL

\* When kill() has joined the workers, every accepted task has been run.
THEOREM KillDrains == Spec => []DrainedOnKill
<1>1. TypeInv /\ QueueInv /\ StopInv /\ HandsInv => DrainedOnKill
  <2> SUFFICES ASSUME TypeInv, QueueInv, StopInv, HandsInv, killer = "joined"
               PROVE  Members(accepted) = done
    BY DEF StopInv, DrainedOnKill
  <2>1. PICK w \in Workers : worker[w] = "exited"
    BY PoolAssumption DEF StopInv
  <2>2. queue = <<>>
    BY <2>1 DEF StopInv
  <2>3. accepted = started
    BY <2>2, ConcatEmptySeq DEF QueueInv, FifoExactlyOnce, TypeInv, TypeOK
  <2>4. Hands = {}
    BY DEF Hands, StopInv, TypeInv, HoldingInv
  <2>5. QED
    BY <2>3, <2>4 DEF HandsInv
<1>2. QED
  BY <1>1, TypeInductive, QueueInductive, StopInductive, HandsInductive, PTL

-----------------------------------------------------------------------------
(* No lost wakeup: counting the threads that are under way. *)

Ready == Cardinality({w \in Workers : worker[w] = "ready"})
Notifying == Cardinality({c \in Callers : caller[c] = "notifying"})
Adding == Cardinality({c \in Callers : caller[c] = "adding"})

\* How the counts change when one worker, or one caller, goes to a new state.
LEMMA WorkerMoves ==
  ASSUME TypeInv, NEW w \in Workers, \A v \in Workers \ {w} : worker'[v] = worker[v]
  PROVE  /\ Ready \in Nat
         /\ worker[w] = "ready" /\ worker'[w] # "ready" => Ready' = Ready - 1
         /\ worker[w] # "ready" /\ worker'[w] = "ready" => Ready' = Ready + 1
<1> DEFINE F == {v \in Workers : worker[v] = "ready"}
           G == {v \in Workers : worker'[v] = "ready"}
<1>1. /\ F \ {w} = G \ {w}
      /\ w \in F <=> worker[w] = "ready"
      /\ w \in G <=> worker'[w] = "ready"
  BY DEF TypeInv, TypeOK
<1>2. F \subseteq Workers
  OBVIOUS
<1>3. Ready = Cardinality(F) /\ Ready' = Cardinality(G)
  BY DEF Ready
<1> HIDE DEF F, G
<1>4. IsFiniteSet(F)
  BY <1>2, FS_Subset, PoolAssumption
<1>5. QED
  BY <1>1, <1>3, <1>4, CountMove

LEMMA CallerMoves ==
  ASSUME TypeInv, NEW c \in Callers, \A d \in Callers \ {c} : caller'[d] = caller[d]
  PROVE  /\ Notifying \in Nat /\ Adding \in Nat
         /\ caller[c] = "notifying" /\ caller'[c] # "notifying" => Notifying' = Notifying - 1
         /\ caller[c] # "notifying" /\ caller'[c] = "notifying" => Notifying' = Notifying + 1
         /\ caller[c] # "notifying" /\ caller'[c] # "notifying" => Notifying' = Notifying
         /\ caller[c] = "adding" /\ caller'[c] # "adding" => Adding' = Adding - 1
         /\ caller[c] # "adding" /\ caller'[c] = "adding" => Adding' = Adding + 1
         /\ caller[c] # "adding" /\ caller'[c] # "adding" => Adding' = Adding
<1> DEFINE F(s) == {d \in Callers : caller[d] = s}
           G(s) == {d \in Callers : caller'[d] = s}
<1>1. \A s : /\ F(s) \ {c} = G(s) \ {c}
             /\ c \in F(s) <=> caller[c] = s
             /\ c \in G(s) <=> caller'[c] = s
  BY DEF TypeInv, TypeOK
<1>2. \A s : F(s) \subseteq Callers
  OBVIOUS
<1>3. /\ Notifying = Cardinality(F("notifying")) /\ Notifying' = Cardinality(G("notifying"))
      /\ Adding = Cardinality(F("adding")) /\ Adding' = Cardinality(G("adding"))
  BY DEF Notifying, Adding
<1> HIDE DEF F, G
<1>4. \A s : IsFiniteSet(F(s))
  BY <1>2, FS_Subset, PoolAssumption
<1>5. QED
  BY <1>1, <1>3, <1>4, CountMove

LEMMA CountsAreNat ==
    /\ Ready \in Nat /\ Notifying \in Nat /\ Adding \in Nat
    /\ Ready' \in Nat /\ Notifying' \in Nat /\ Adding' \in Nat
<1>1. \A S, T : IsFiniteSet(T) /\ S \subseteq T => Cardinality(S) \in Nat
  BY FS_Subset, FS_CardinalityType
<1>2. /\ {w \in Workers : worker[w] = "ready"} \subseteq Workers
      /\ {c \in Callers : caller[c] = "notifying"} \subseteq Callers
      /\ {c \in Callers : caller[c] = "adding"} \subseteq Callers
      /\ {w \in Workers : worker'[w] = "ready"} \subseteq Workers
      /\ {c \in Callers : caller'[c] = "notifying"} \subseteq Callers
      /\ {c \in Callers : caller'[c] = "adding"} \subseteq Callers
  OBVIOUS
<1>3. QED
  BY <1>1, <1>2, PoolAssumption DEF Ready, Notifying, Adding

\* The two halves of NoLostWakeup, for the workers and for the callers.
WorkersAreWoken ==
    (\E w \in Workers : worker[w] = "waiting") =>
        Len(queue) <= Ready + Notifying \/ killer = "stopped"

CallersAreWoken ==
    (\E c \in Callers : caller[c] = "blocked") =>
        MaxQueueSize <= Len(queue) + Adding \/ killer \in {"stopped", "waking_callers"}

LEMMA WorkersWakeupInductive == Spec => []WorkersAreWoken
<1>1. Init => WorkersAreWoken
  BY DEF Init, WorkersAreWoken
<1>2. TypeInv /\ StopInv /\ WorkersAreWoken /\ [Next]_vars => WorkersAreWoken'
  <2> SUFFICES ASSUME TypeInv, StopInv, WorkersAreWoken, [Next]_vars
               PROVE  WorkersAreWoken'
    OBVIOUS
  <2>1. /\ queue \in Seq(Tasks) /\ Len(queue) \in Nat
        /\ worker \in [Workers -> WorkerStates] /\ caller \in [Callers -> CallerStates]
        /\ Ready \in Nat /\ Notifying \in Nat
    BY CountsAreNat DEF TypeInv, TypeOK
  <2>2. worker' = worker => Ready' = Ready
    BY DEF Ready
  <2>3. caller' = caller => Notifying' = Notifying
    BY DEF Notifying
  <2>4. ASSUME NEW w \in Workers, WorkerWait(w)
        PROVE  WorkersAreWoken'
    <3>1. Len(queue') = 0
      BY <2>4, EmptySeq DEF WorkerWait
    <3>2. Len(queue') <= Ready' + Notifying'
      <4>1. \A m, n \in Nat : 0 <= m + n
        OBVIOUS
      <4>2. QED
        BY <3>1, <4>1, CountsAreNat
    <3>3. QED
      BY <3>2 DEF WorkersAreWoken
  <2>5. ASSUME NEW w \in Workers, WorkerExit(w)
        PROVE  WorkersAreWoken'
    <3>1. /\ stop /\ killer' = killer
          /\ \A v \in Workers : worker'[v] = "waiting" => worker[v] = "waiting"
      BY <2>1, <2>5 DEF WorkerExit, Finished
    <3>2. QED
      BY <3>1 DEF WorkersAreWoken, StopInv, NobodySleepsThroughKill
  <2>6. ASSUME NEW w \in Workers, WorkerPop(w)
        PROVE  WorkersAreWoken'
    <3>1. /\ Len(queue') = Len(queue) - 1 /\ Ready' = Ready - 1 /\ killer' = killer
          /\ \A v \in Workers : worker'[v] = "waiting" => worker[v] = "waiting"
      <4>1. /\ worker' = [worker EXCEPT ![w] = "running"] /\ worker[w] = "ready"
            /\ worker'[w] = "running" /\ \A v \in Workers \ {w} : worker'[v] = worker[v]
            /\ queue # <<>> /\ queue' = Tail(queue) /\ killer' = killer
        BY <2>1, <2>6 DEF WorkerPop, Popped
      <4>2. Ready' = Ready - 1
        BY <4>1, WorkerMoves
      <4>3. Len(Tail(queue)) = Len(queue) - 1
        BY <2>1, <4>1, HeadTailProperties
      <4>4. QED
        BY <2>1, <4>1, <4>2, <4>3
    <3>2. Notifying' = Notifying
      <4>1. \A c \in Callers : caller'[c] = "notifying" <=> caller[c] = "notifying"
        BY <2>1, <2>6 DEF WorkerPop, NotifyOne
      <4>2. QED
        BY <4>1 DEF Notifying
    <3>3. QED
      BY <2>1, <3>1, <3>2 DEF WorkersAreWoken
  <2>7. ASSUME NEW w \in Workers, WorkerRun(w) \/ SpuriousWorker(w)
        PROVE  WorkersAreWoken'
    <3>1. /\ Ready' = Ready + 1 /\ Notifying' = Notifying
          /\ queue' = queue /\ killer' = killer
          /\ \A v \in Workers : worker'[v] = "waiting" => worker[v] = "waiting"
      BY <2>1, <2>3, <2>7, WorkerMoves DEF WorkerRun, SpuriousWorker
    <3>2. QED
      BY <2>1, <3>1 DEF WorkersAreWoken
  <2>8. ASSUME NEW c \in Callers, AddTaskWait(c) \/ AddTaskThrow(c) \/ SpuriousCaller(c)
               \/ \E t \in Tasks : AddTask(c, t)
        PROVE  WorkersAreWoken'
    <3>1. /\ Notifying' = Notifying /\ Ready' = Ready
          /\ queue' = queue /\ killer' = killer /\ worker' = worker
      BY <2>1, <2>2, <2>8, CallerMoves
         DEF AddTaskWait, AddTaskThrow, SpuriousCaller, AddTask, history
    <3>2. QED
      BY <2>1, <3>1 DEF WorkersAreWoken
  <2>9. ASSUME NEW c \in Callers, AddTaskPush(c) \/ \E t \in Tasks : TryAddTaskPush(c, t)
        PROVE  WorkersAreWoken'
    <3>1. /\ Notifying' = Notifying + 1 /\ Ready' = Ready
          /\ killer' = killer /\ worker' = worker
      BY <2>1, <2>2, <2>9, CallerMoves DEF AddTaskPush, TryAddTaskPush, AfterPush
    <3>2. Len(queue') = Len(queue) + 1
      BY <2>1, <2>9, AppendProperties DEF AddTaskPush, TryAddTaskPush, Push, TypeInv, HoldingInv
    <3>3. QED
      BY <2>1, <3>1, <3>2 DEF WorkersAreWoken
  <2>10. ASSUME NEW c \in Callers, NotifyWorker(c)
         PROVE  WorkersAreWoken'
    <3>1. Notifying' = Notifying - 1 /\ queue' = queue /\ killer' = killer
      <4>1. /\ caller'[c] = "idle" /\ caller[c] = "notifying"
            /\ \A d \in Callers \ {c} : caller'[d] = caller[d]
            /\ queue' = queue /\ killer' = killer
        BY <2>1, <2>10 DEF NotifyWorker
      <4>2. QED
        BY <4>1, CallerMoves
    <3>2. CASE \A v \in Workers : worker[v] # "waiting"
      <4>1. \A v \in Workers : worker'[v] # "waiting"
        BY <2>1, <2>10, <3>2 DEF NotifyWorker, NotifyOne
      <4>2. QED
        BY <4>1 DEF WorkersAreWoken
    <3>3. CASE \E v \in Workers : worker[v] = "waiting"
      <4>1. PICK v \in Workers : worker[v] = "waiting" /\ worker' = [worker EXCEPT ![v] = "ready"]
        BY <2>1, <2>10, <3>3 DEF NotifyWorker, NotifyOne
      <4>2. Ready' = Ready + 1
        BY <2>1, <4>1, WorkerMoves
      <4>3. QED
        BY <2>1, <3>1, <3>3, <4>2 DEF WorkersAreWoken
    <3>4. QED
      BY <3>2, <3>3
  <2>11. CASE KillStop
    BY <2>11 DEF KillStop, WorkersAreWoken
  <2>12. CASE KillWakeWorkers
    BY <2>1, <2>12 DEF KillWakeWorkers, NotifyAll, WorkersAreWoken
  <2>13. CASE KillWakeCallers \/ KillJoin
    BY <2>13 DEF KillWakeCallers, KillJoin, WorkersAreWoken, StopInv, NobodySleepsThroughKill
  <2>14. CASE \/ \E c \in Callers, t \in Tasks : TryAddTaskRefuse(c, t)
              \/ UNCHANGED vars
    <3>1. worker' = worker /\ caller' = caller /\ queue' = queue /\ killer' = killer
      BY <2>14 DEF TryAddTaskRefuse, vars
    <3>2. QED
      BY <2>2, <2>3, <3>1 DEF WorkersAreWoken
  <2>15. QED
    BY <2>4, <2>5, <2>6, <2>7, <2>8, <2>9, <2>10, <2>11, <2>12, <2>13, <2>14, StepCases
<1>3. QED
  BY <1>1, <1>2, TypeInductive, StopInductive, PTL DEF Spec

LEMMA CallersWakeupInductive == Spec => []CallersAreWoken
<1>1. Init => CallersAreWoken
  BY DEF Init, CallersAreWoken
<1>2. TypeInv /\ StopInv /\ CallersAreWoken /\ [Next]_vars => CallersAreWoken'
  <2> SUFFICES ASSUME TypeInv, StopInv, CallersAreWoken, [Next]_vars
               PROVE  CallersAreWoken'
    OBVIOUS
  <2>1. /\ queue \in Seq(Tasks) /\ Len(queue) \in Nat /\ MaxQueueSize \in Nat
        /\ worker \in [Workers -> WorkerStates] /\ caller \in [Callers -> CallerStates]
        /\ Adding \in Nat
    BY CountsAreNat, PoolAssumption DEF TypeInv, TypeOK
  <2>2. ASSUME NEW w \in Workers, WorkerPop(w)
        PROVE  CallersAreWoken'
    <3>1. Len(queue') = Len(queue) - 1 /\ killer' = killer
      BY <2>1, <2>2, EmptySeq, HeadTailProperties DEF WorkerPop, Popped
    <3>2. CASE \A d \in Callers : caller[d] # "blocked"
      <4>1. \A d \in Callers : caller'[d] # "blocked"
        BY <2>1, <2>2, <3>2 DEF WorkerPop, NotifyOne
      <4>2. QED
        BY <4>1 DEF CallersAreWoken
    <3>3. CASE \E d \in Callers : caller[d] = "blocked"
      <4>1. PICK d \in Callers : caller[d] = "blocked" /\ caller' = [caller EXCEPT ![d] = "adding"]
        BY <2>1, <2>2, <3>3 DEF WorkerPop, NotifyOne
      <4>2. Adding' = Adding + 1
        BY <2>1, <4>1, CallerMoves
      <4>3. QED
        BY <2>1, <3>1, <3>3, <4>2 DEF CallersAreWoken
    <3>4. QED
      BY <3>2, <3>3
  <2>3. ASSUME NEW c \in Callers, AddTaskWait(c)
        PROVE  CallersAreWoken'
    <3>1. Adding' \in Nat /\ queue' = queue /\ Len(queue) >= MaxQueueSize
      BY <2>1, <2>3, CountsAreNat DEF AddTaskWait, Full
    <3>2. QED
      BY <2>1, <3>1 DEF CallersAreWoken
  <2>4. ASSUME NEW c \in Callers, AddTaskThrow(c)
        PROVE  CallersAreWoken'
    <3>1. /\ stop /\ killer' = killer
          /\ \A d \in Callers : caller'[d] = "blocked" => caller[d] = "blocked"
      BY <2>1, <2>4 DEF AddTaskThrow
    <3>2. QED
      BY <3>1 DEF CallersAreWoken, StopInv, NobodySleepsThroughKill
  <2>5. ASSUME NEW c \in Callers, AddTaskPush(c)
        PROVE  CallersAreWoken'
    <3>1. /\ Adding' = Adding - 1 /\ killer' = killer
          /\ \A d \in Callers : caller'[d] = "blocked" => caller[d] = "blocked"
      BY <2>1, <2>5, CallerMoves DEF AddTaskPush, AfterPush
    <3>2. Len(queue') = Len(queue) + 1
      BY <2>1, <2>5, AppendProperties DEF AddTaskPush, Push, TypeInv, HoldingInv
    <3>3. QED
      BY <2>1, <3>1, <3>2 DEF CallersAreWoken
  <2>6. ASSUME NEW c \in Callers, NEW t \in Tasks, TryAddTaskPush(c, t)
        PROVE  CallersAreWoken'
    <3>1. /\ Adding' = Adding /\ killer' = killer
          /\ \A d \in Callers : caller'[d] = "blocked" => caller[d] = "blocked"
      BY <2>1, <2>6, CallerMoves DEF TryAddTaskPush, AfterPush
    <3>2. Len(queue') = Len(queue) + 1
      BY <2>1, <2>6, AppendProperties DEF TryAddTaskPush, Push
    <3>3. QED
      BY <2>1, <3>1, <3>2 DEF CallersAreWoken
  <2>7. ASSUME NEW c \in Callers,
               NotifyWorker(c) \/ SpuriousCaller(c) \/ \E t \in Tasks : AddTask(c, t)
        PROVE  CallersAreWoken'
    <3>1. /\ Adding' \in {Adding, Adding + 1} /\ queue' = queue /\ killer' = killer
          /\ \A d \in Callers : caller'[d] = "blocked" => caller[d] = "blocked"
      BY <2>1, <2>7, CallerMoves DEF NotifyWorker, SpuriousCaller, AddTask, history
    <3>2. QED
      BY <2>1, <3>1 DEF CallersAreWoken
  <2>8. CASE KillStop \/ KillWakeWorkers
    BY <2>8 DEF KillStop, KillWakeWorkers, CallersAreWoken
  <2>9. CASE KillWakeCallers
    BY <2>1, <2>9 DEF KillWakeCallers, NotifyAll, CallersAreWoken
  <2>10. CASE KillJoin
    BY <2>10 DEF KillJoin, CallersAreWoken, StopInv, NobodySleepsThroughKill
  <2>11. CASE UNCHANGED <<queue, caller, killer>>
    <3>1. Adding' = Adding
      BY <2>11 DEF Adding
    <3>2. QED
      BY <2>11, <3>1 DEF CallersAreWoken
  <2>12. QED
    <3>1. \/ \E w \in Workers : WorkerPop(w)
          \/ \E c \in Callers : \/ AddTaskWait(c) \/ AddTaskThrow(c) \/ AddTaskPush(c)
                                \/ NotifyWorker(c) \/ SpuriousCaller(c)
          \/ \E c \in Callers, t \in Tasks : AddTask(c, t) \/ TryAddTaskPush(c, t)
          \/ KillStop \/ KillWakeWorkers \/ KillWakeCallers \/ KillJoin
          \/ UNCHANGED <<queue, caller, killer>>
      BY StepCases DEF WorkerWait, WorkerExit, WorkerRun, SpuriousWorker, TryAddTaskRefuse, vars
    <3>2. QED
      BY <2>2, <2>3, <2>4, <2>5, <2>6, <2>7, <2>8, <2>9, <2>10, <2>11, <3>1
<1>3. QED
  BY <1>1, <1>2, TypeInductive, StopInductive, PTL DEF Spec

\* No wakeup is lost, for any number of threads: a worker sleeps on a non-empty
\* queue, or a caller on a queue with room, only while enough others are under
\* way to it.
THEOREM WakeupsAreNotLost == Spec => []NoLostWakeup
<1>1. WorkersAreWoken /\ CallersAreWoken => NoLostWakeup
  BY DEF WorkersAreWoken, CallersAreWoken, NoLostWakeup, Ready, Notifying, Adding
<1>2. QED
  BY <1>1, WorkersWakeupInductive, CallersWakeupInductive, PTL

-----------------------------------------------------------------------------
(* The pool implements the abstract executor, step by step. *)

\* A worker about to take a task leaves room for one more task in flight.
LEMMA FreeHand ==
  ASSUME TypeInv, HandsInv, NEW w \in Workers, task[w] = NoTask
  PROVE  Cardinality(Members(started) \ done) < Cardinality(Workers)
<1> DEFINE Busy == {v \in Workers : task[v] # NoTask}
           hold == [v \in Busy |-> task[v]]
<1>1. Members(started) \ done = Hands
  BY DEF HandsInv
<1>2. hold \in Surjection(Busy, Hands)
  BY DEF Surjection, Hands
<1>3. Busy \subseteq Workers \ {w}
  OBVIOUS
<1> HIDE DEF Busy, hold
<1>4. /\ IsFiniteSet(Workers \ {w})
      /\ Cardinality(Workers \ {w}) = Cardinality(Workers) - 1
      /\ Cardinality(Workers) \in Nat
  BY PoolAssumption, FS_RemoveElement, FS_CardinalityType
<1>5. /\ IsFiniteSet(Busy) /\ Cardinality(Busy) \in Nat
      /\ Cardinality(Busy) <= Cardinality(Workers) - 1
  BY <1>3, <1>4, FS_Subset, FS_CardinalityType
<1>6. /\ IsFiniteSet(Hands)
      /\ Cardinality(Hands) <= Cardinality(Busy)
  BY <1>2, <1>5, FS_Surjection
<1>7. Cardinality(Hands) \in Nat
  BY <1>6, FS_CardinalityType
<1>8. QED
  BY <1>1, <1>4, <1>5, <1>6, <1>7

\* The head of the queue is the oldest accepted task that was not started.
LEMMA HeadIsNext ==
  ASSUME NEW S, NEW s \in Seq(S), NEW t \in Seq(S), t # <<>>
  PROVE  /\ Len(s) < Len(s \o t)
         /\ Head(t) = (s \o t)[Len(s) + 1]
<1>1. Len(t) \in Nat \ {0} /\ Len(s) \in Nat
  BY EmptySeq, LenProperties
<1>2. QED
  BY <1>1, ConcatProperties, HeadTailProperties

LEMMA StepRefines ==
  ASSUME TypeInv, QueueInv, StopInv, OriginInv, HandsInv, [Next]_vars
  PROVE  [Executor!Next]_(Executor!vars)
<1> USE DEF Executor!Next, Executor!vars
<1>1. /\ queue \in Seq(Tasks) /\ started \in Seq(Tasks)
      /\ accepted = started \o queue
      /\ Len(queue) \in Nat /\ Len(started) \in Nat /\ MaxQueueSize \in Nat
      /\ Len(accepted) = Len(started) + Len(queue)
  BY ConcatProperties, PoolAssumption DEF TypeInv, TypeOK, QueueInv, FifoExactlyOnce
<1>2. ASSUME NEW w \in Workers, WorkerPop(w)
      PROVE  Executor!Start
  <2>1. Len(started) < Len(accepted) /\ Head(queue) = accepted[Len(started) + 1]
    BY <1>1, <1>2, HeadIsNext DEF WorkerPop
  <2>2. task[w] = NoTask
    BY <1>2 DEF WorkerPop, TypeInv, HoldingInv
  <2>3. Cardinality(Members(started) \ done) < Cardinality(Workers)
    BY <2>2, FreeHand
  <2>4. /\ started' = Append(started, Head(queue))
        /\ accepted' = accepted /\ done' = done /\ stop' = stop
    BY <1>2 DEF WorkerPop
  <2>5. Executor!Members(started) = Members(started)
    BY DEF Executor!Members, Members
  <2>6. started' = Append(started, accepted[Len(started) + 1])
    BY <2>1, <2>4
  <2>7. Executor!Cardinality(Executor!Members(started) \ done) < Cardinality(Workers)
    BY <2>3, <2>5 DEF Executor!Cardinality, Cardinality
  <2>8. QED
    BY ONLY <2>1, <2>4, <2>6, <2>7 DEF Executor!Start
<1>3. ASSUME NEW w \in Workers, WorkerRun(w)
      PROVE  task[w] \in Tasks /\ Executor!Finish(task[w])
  <2>1. task[w] \in Hands /\ task[w] \in Tasks
    BY <1>3 DEF WorkerRun, TypeInv, TypeOK, HoldingInv, Hands
  <2>2. QED
    BY <1>3, <2>1 DEF WorkerRun, HandsInv, Executor!Finish, Executor!Members, Members
<1>4. ASSUME NEW t \in Tasks, ~stop, ~Full, Push(t), t \notin Members(accepted),
             UNCHANGED <<started, done, stop>>
      PROVE  Executor!Accept(t)
  <2>1. Len(accepted) - Len(started) < MaxQueueSize
    BY <1>1, <1>4 DEF Full
  <2>2. QED
    BY <1>4, <2>1 DEF Push, Executor!Accept, Executor!Members, Members
<1>5. ASSUME NEW c \in Callers, AddTaskPush(c)
      PROVE  arg[c] \in Tasks /\ Executor!Accept(arg[c])
  <2>1. arg[c] \in Tasks /\ arg[c] # NoTask
    BY <1>5, PoolAssumption DEF AddTaskPush, TypeInv, HoldingInv
  <2>2. arg[c] \notin Members(accepted)
    BY <2>1 DEF OriginInv
  <2>3. QED
    BY <1>4, <1>5, <2>1, <2>2 DEF AddTaskPush
<1>6. ASSUME NEW c \in Callers, NEW t \in Tasks, TryAddTaskPush(c, t)
      PROVE  Executor!Accept(t)
  <2>1. t \notin Members(accepted)
    BY <1>6 DEF TryAddTaskPush, OriginInv
  <2>2. QED
    BY <1>4, <1>6, <2>1 DEF TryAddTaskPush
<1>7. CASE KillStop
  <2>1. Executor!Close
    BY <1>7 DEF KillStop, StopInv, history, Executor!Close
  <2>2. QED
    BY <2>1
<1>8. CASE UNCHANGED <<accepted, started, done, stop>>
  BY <1>8
<1>9. QED
  <2>1. \/ \E w \in Workers : WorkerPop(w) \/ WorkerRun(w)
        \/ \E c \in Callers : AddTaskPush(c)
        \/ \E c \in Callers, t \in Tasks : TryAddTaskPush(c, t)
        \/ KillStop
        \/ UNCHANGED <<accepted, started, done, stop>>
    BY StepCases DEF WorkerWait, WorkerExit, SpuriousWorker, AddTaskWait, AddTaskThrow,
       NotifyWorker, SpuriousCaller, AddTask, TryAddTaskRefuse, KillWakeWorkers,
       KillWakeCallers, KillJoin, vars, history
  <2>2. QED
    BY <1>2, <1>3, <1>5, <1>6, <1>7, <1>8, <2>1

\* Seen from outside - what was accepted, started, done, and whether the pool
\* is stopped - every behaviour of the threads is one of the abstract executor
\* (its safety part: the fairness of Executor!Spec is left to the run).
THEOREM PoolIsExecutor == Spec => Executor!Init /\ [][Executor!Next]_(Executor!vars)
<1>1. Init => Executor!Init
  BY DEF Init, Executor!Init
<1>2. QED
  BY <1>1, StepRefines, TypeInductive, QueueInductive, StopInductive, OriginInductive,
     HandsInductive, PTL DEF Spec
=============================================================================
