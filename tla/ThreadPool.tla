----------------------------- MODULE ThreadPool -----------------------------
(***************************************************************************)
(* threading::ThreadPool (sources/threading/thread_pool.cpp): a bounded    *)
(* FIFO of tasks, one mutex, two condition variables, a stop flag.         *)
(*                                                                         *)
(* Every critical section of the class is one action: nothing but the      *)
(* mutex's owner reads queue_ or stop_.  What happens outside the mutex -  *)
(* running a task, the notify_one after the unlock, the notify_all of      *)
(* kill() - are actions of their own, so that every thread may run between *)
(* them.  A thread blocked in condition_variable::wait is "waiting" or     *)
(* "blocked"; a notification (or a spurious wakeup) moves it back to the   *)
(* point where it takes the mutex and evaluates the predicate again.       *)
(***************************************************************************)
EXTENDS Naturals, Sequences, FiniteSets

CONSTANTS Workers,        \* threads_
          Callers,        \* threads that call addTask / tryAddTask
          Tasks,          \* every task is submitted at most once
          MaxQueueSize,   \* max_queue_size_
          NoTask          \* the empty std::function

\* queue_capacity never returns 0, and size_ is at least 1.
ASSUME PoolAssumption ==
    /\ IsFiniteSet(Workers) /\ Workers # {}
    /\ IsFiniteSet(Callers)
    /\ MaxQueueSize \in Nat \ {0}
    /\ NoTask \notin Tasks

VARIABLES
    queue,      \* queue_
    stop,       \* stop_
    worker,     \* where each worker thread is
    task,       \* the local variable `task` of each worker
    caller,     \* where each caller is
    arg,        \* the task each caller is adding
    killer,     \* where the thread that calls kill() is
    submitted,  \* history: tasks handed to addTask / tryAddTask
    accepted,   \* history: tasks put in queue_, in order
    started,    \* history: tasks taken from queue_, in order
    done        \* history: tasks whose body has returned or thrown

vars == <<queue, stop, worker, task, caller, arg, killer,
          submitted, accepted, started, done>>

history == <<submitted, accepted, started, done>>

WorkerStates == {"ready", "waiting", "running", "exited"}
CallerStates == {"idle", "adding", "blocked", "notifying"}
KillerStates == {"idle", "stopped", "waking_callers", "joining", "joined"}

Members(s) == {s[i] : i \in DOMAIN s}

Full == Len(queue) >= MaxQueueSize

\* condition_variable::notify_one on the threads of `f` that are in state `at`:
\* one of them, any of them, goes on to state `to`; no effect if there is none.
NotifyOne(f, g, at, to) ==
    \/ /\ \A x \in DOMAIN f : f[x] # at
       /\ g = f
    \/ \E x \in DOMAIN f : f[x] = at /\ g = [f EXCEPT ![x] = to]

\* condition_variable::notify_all
NotifyAll(f, at, to) == [x \in DOMAIN f |-> IF f[x] = at THEN to ELSE f[x]]

Init ==
    /\ queue = <<>>
    /\ stop = FALSE
    /\ worker = [w \in Workers |-> "ready"]
    /\ task = [w \in Workers |-> NoTask]
    /\ caller = [c \in Callers |-> "idle"]
    /\ arg = [c \in Callers |-> NoTask]
    /\ killer = "idle"
    /\ submitted = {}
    /\ accepted = <<>>
    /\ started = <<>>
    /\ done = {}

-----------------------------------------------------------------------------
(* The worker loop of init(). *)

\* The predicate is false: the worker waits on cond_not_empty_.
WorkerWait(w) ==
    /\ worker[w] = "ready"
    /\ ~stop /\ queue = <<>>
    /\ worker' = [worker EXCEPT ![w] = "waiting"]
    /\ UNCHANGED <<queue, stop, task, caller, arg, killer, history>>

\* The worker gives up: the pool is stopped and the queue drained.  An operator
\* X_Y is a plausible mistake in X: no specification uses it; it replaces X to
\* show that the properties would notice.
Finished_Undrained == stop
Finished == stop /\ queue = <<>>

WorkerExit(w) ==
    /\ worker[w] = "ready"
    /\ Finished
    /\ worker' = [worker EXCEPT ![w] = "exited"]
    /\ UNCHANGED <<queue, stop, task, caller, arg, killer, history>>

\* queue_.pop()
Popped_Forgotten == queue
Popped == Tail(queue)

\* Takes the head of the queue and notifies one blocked caller, mutex held.
WorkerPop(w) ==
    /\ worker[w] = "ready"
    /\ queue # <<>>
    /\ task' = [task EXCEPT ![w] = Head(queue)]
    /\ queue' = Popped
    /\ started' = Append(started, Head(queue))
    /\ worker' = [worker EXCEPT ![w] = "running"]
    /\ NotifyOne(caller, caller', "blocked", "adding")
    /\ UNCHANGED <<stop, arg, killer, submitted, accepted, done>>

\* The task returns, or throws and the exception is swallowed.
WorkerRun(w) ==
    /\ worker[w] = "running"
    /\ done' = done \cup {task[w]}
    /\ task' = [task EXCEPT ![w] = NoTask]
    /\ worker' = [worker EXCEPT ![w] = "ready"]
    /\ UNCHANGED <<queue, stop, caller, arg, killer, submitted, accepted, started>>

-----------------------------------------------------------------------------
(* addTask, tryAddTask *)

\* emplace; what is left to do after the mutex is released is the notification.
Push(t) ==
    /\ queue' = Append(queue, t)
    /\ accepted' = Append(accepted, t)

AfterPush_Silent == "idle"
AfterPush == "notifying"

AddTask(c, t) ==
    /\ caller[c] = "idle"
    /\ t \notin submitted
    /\ caller' = [caller EXCEPT ![c] = "adding"]
    /\ arg' = [arg EXCEPT ![c] = t]
    /\ submitted' = submitted \cup {t}
    /\ UNCHANGED <<queue, stop, worker, task, killer, accepted, started, done>>

\* A mistake: the task is moved out of the parameter before the wait, not after.
AddTaskWait_MovedOut(c) ==
    /\ caller[c] = "adding"
    /\ ~stop /\ Full
    /\ caller' = [caller EXCEPT ![c] = "blocked"]
    /\ arg' = [arg EXCEPT ![c] = NoTask]
    /\ UNCHANGED <<queue, stop, worker, task, killer, history>>

\* A plausible mistake: the predicate of the wait forgets stop_.
AddTaskWait_IgnoresStop(c) ==
    /\ caller[c] = "adding"
    /\ Full
    /\ caller' = [caller EXCEPT ![c] = "blocked"]
    /\ UNCHANGED <<queue, stop, worker, task, arg, killer, history>>

\* The queue is full: addTask waits on cond_not_full_.
AddTaskWait(c) ==
    /\ caller[c] = "adding"
    /\ ~stop /\ Full
    /\ caller' = [caller EXCEPT ![c] = "blocked"]
    /\ UNCHANGED <<queue, stop, worker, task, arg, killer, history>>

\* The pool is stopped: addTask throws, even to a caller that had been waiting.
AddTaskThrow(c) ==
    /\ caller[c] = "adding"
    /\ stop
    /\ caller' = [caller EXCEPT ![c] = "idle"]
    /\ arg' = [arg EXCEPT ![c] = NoTask]
    /\ UNCHANGED <<queue, stop, worker, task, killer, history>>

AddTaskPush(c) ==
    /\ caller[c] = "adding"
    /\ ~stop /\ ~Full
    /\ Push(arg[c])
    /\ caller' = [caller EXCEPT ![c] = AfterPush]
    /\ arg' = [arg EXCEPT ![c] = NoTask]
    /\ UNCHANGED <<stop, worker, task, killer, submitted, started, done>>

TryAddTaskRefuse(c, t) ==
    /\ caller[c] = "idle"
    /\ t \notin submitted
    /\ stop \/ Full
    /\ submitted' = submitted \cup {t}
    /\ UNCHANGED <<queue, stop, worker, task, caller, arg, killer,
                   accepted, started, done>>

TryAddTaskPush(c, t) ==
    /\ caller[c] = "idle"
    /\ t \notin submitted
    /\ ~stop /\ ~Full
    /\ Push(t)
    /\ submitted' = submitted \cup {t}
    /\ caller' = [caller EXCEPT ![c] = AfterPush]
    /\ UNCHANGED <<stop, worker, task, arg, killer, started, done>>

\* cond_not_empty_.notify_one(), after the mutex has been released.
NotifyWorker(c) ==
    /\ caller[c] = "notifying"
    /\ NotifyOne(worker, worker', "waiting", "ready")
    /\ caller' = [caller EXCEPT ![c] = "idle"]
    /\ UNCHANGED <<queue, stop, task, arg, killer, history>>

-----------------------------------------------------------------------------
(* kill(), also called by the destructor *)

KillStop ==
    /\ killer = "idle"
    /\ stop' = TRUE
    /\ killer' = "stopped"
    /\ UNCHANGED <<queue, worker, task, caller, arg, history>>

KillWakeWorkers ==
    /\ killer = "stopped"
    /\ worker' = NotifyAll(worker, "waiting", "ready")
    /\ killer' = "waking_callers"
    /\ UNCHANGED <<queue, stop, task, caller, arg, history>>

KillWakeCallers ==
    /\ killer = "waking_callers"
    /\ caller' = NotifyAll(caller, "blocked", "adding")
    /\ killer' = "joining"
    /\ UNCHANGED <<queue, stop, worker, task, arg, history>>

KillJoin ==
    /\ killer = "joining"
    /\ \A w \in Workers : worker[w] = "exited"
    /\ killer' = "joined"
    /\ UNCHANGED <<queue, stop, worker, task, caller, arg, history>>

-----------------------------------------------------------------------------
(* condition_variable::wait may return without a notification. *)

SpuriousWorker(w) ==
    /\ worker[w] = "waiting"
    /\ worker' = [worker EXCEPT ![w] = "ready"]
    /\ UNCHANGED <<queue, stop, task, caller, arg, killer, history>>

SpuriousCaller(c) ==
    /\ caller[c] = "blocked"
    /\ caller' = [caller EXCEPT ![c] = "adding"]
    /\ UNCHANGED <<queue, stop, worker, task, arg, killer, history>>

\* Everything that could happen has happened.
Terminated ==
    /\ killer = "joined"
    /\ submitted = Tasks
    /\ \A c \in Callers : caller[c] = "idle"
    /\ UNCHANGED vars

-----------------------------------------------------------------------------

WorkerStep(w) == WorkerWait(w) \/ WorkerExit(w) \/ WorkerPop(w) \/ WorkerRun(w)

\* What a caller that has entered addTask or tryAddTask does next.
CallerStep(c) ==
    AddTaskWait(c) \/ AddTaskThrow(c) \/ AddTaskPush(c) \/ NotifyWorker(c)

Submit(c, t) == AddTask(c, t) \/ TryAddTaskRefuse(c, t) \/ TryAddTaskPush(c, t)

KillStep == KillStop \/ KillWakeWorkers \/ KillWakeCallers \/ KillJoin

Next ==
    \/ \E w \in Workers : WorkerStep(w) \/ SpuriousWorker(w)
    \/ \E c \in Callers : CallerStep(c) \/ SpuriousCaller(c)
    \/ \E c \in Callers, t \in Tasks : Submit(c, t)
    \/ KillStep
    \/ Terminated

Spec == Init /\ [][Next]_vars

\* Every thread that can go on does; tasks return.  Nobody has to submit a
\* task or call kill(), and no spurious wakeup is relied upon.
Fairness ==
    /\ \A w \in Workers : WF_vars(WorkerStep(w))
    /\ \A c \in Callers : WF_vars(CallerStep(c))
    /\ WF_vars(KillWakeWorkers \/ KillWakeCallers \/ KillJoin)

FairSpec == Spec /\ Fairness

-----------------------------------------------------------------------------
(* Properties *)

TypeOK ==
    /\ queue \in Seq(Tasks)
    /\ stop \in BOOLEAN
    /\ worker \in [Workers -> WorkerStates]
    /\ task \in [Workers -> Tasks \cup {NoTask}]
    /\ caller \in [Callers -> CallerStates]
    /\ arg \in [Callers -> Tasks \cup {NoTask}]
    /\ killer \in KillerStates
    /\ submitted \in SUBSET Tasks
    /\ accepted \in Seq(Tasks)
    /\ started \in Seq(Tasks)
    /\ done \in SUBSET Tasks

\* The queue never outgrows max_queue_size_, whichever of the two entry points
\* filled it and however many callers were woken for one free place.
BoundedQueue == Len(queue) <= MaxQueueSize

\* Tasks leave the pool in the order of their acceptance, none is lost and none
\* is taken twice: what was accepted is what was started followed by the queue.
FifoExactlyOnce == accepted = started \o queue

\* A started task is in the hands of exactly one worker until it is done.
OneWorkerPerTask ==
    /\ \A w1, w2 \in Workers :
          task[w1] = task[w2] /\ task[w1] # NoTask => w1 = w2
    /\ \A w \in Workers : worker[w] = "running" <=> task[w] # NoTask
    /\ Members(started) = done \cup ({task[w] : w \in Workers} \ {NoTask})

\* kill() drains: a worker gives up only when the pool is stopped and nothing
\* is left, so once the join is over every accepted task has been run.
DrainedOnKill ==
    /\ \A w \in Workers : worker[w] = "exited" => stop /\ queue = <<>>
    /\ killer = "joined" => Members(accepted) = done

\* No wakeup is lost: while a worker sleeps on a non-empty queue, enough other
\* threads - workers on their way to the mutex, callers about to notify - are
\* under way to take every queued task; and while a caller sleeps on a queue
\* with room, enough woken callers are under way to fill the room.
NoLostWakeup ==
    /\ (\E w \in Workers : worker[w] = "waiting") =>
          \/ Len(queue) <= Cardinality({w \in Workers : worker[w] = "ready"})
                           + Cardinality({c \in Callers : caller[c] = "notifying"})
          \/ killer = "stopped"
    /\ (\E c \in Callers : caller[c] = "blocked") =>
          \/ MaxQueueSize <= Len(queue) + Cardinality({c \in Callers : caller[c] = "adding"})
          \/ killer \in {"stopped", "waking_callers"}

\* Once kill() has set the flag and notified, nobody is left asleep.
NobodySleepsThroughKill ==
    /\ (stop /\ \E w \in Workers : worker[w] = "waiting") => killer = "stopped"
    /\ (stop /\ \E c \in Callers : caller[c] = "blocked")
          => killer \in {"stopped", "waking_callers"}

\* Every accepted task is run, even one accepted just before kill().
AcceptedIsRun == \A t \in Tasks : t \in Members(accepted) ~> t \in done

\* kill() returns, and every call of addTask returns or throws.
CallsReturn ==
    /\ stop ~> killer = "joined"
    /\ \A c \in Callers : caller[c] = "adding" ~> caller[c] = "idle"

\* The pool implements the bounded first-in first-out executor.
Executor == INSTANCE TaskExecutor
    WITH MaxInFlight <- Cardinality(Workers), MaxWaiting <- MaxQueueSize,
         closed <- stop

ImplementsExecutor == Executor!Spec
=============================================================================
