---------------------------- MODULE TaskExecutor ----------------------------
(***************************************************************************)
(* What threading::ThreadPool promises to its callers, with no threads,    *)
(* mutex or condition variables: accepted tasks are started in the order   *)
(* they were accepted, each exactly once, at most one per worker at a      *)
(* time, never more than a bounded number waiting; closing the executor    *)
(* refuses new tasks but drops none of those already accepted.             *)
(***************************************************************************)
EXTENDS Naturals, Sequences, FiniteSets

CONSTANTS Tasks,          \* the tasks callers may submit
          MaxInFlight,    \* number of worker threads
          MaxWaiting      \* capacity of the queue

VARIABLES accepted,       \* accepted tasks, in the order of acceptance
          started,        \* started tasks, in the order they were started
          done,           \* tasks whose body has returned
          closed          \* no task is accepted any more

vars == <<accepted, started, done, closed>>

Members(s) == {s[i] : i \in DOMAIN s}

Init ==
    /\ accepted = <<>>
    /\ started = <<>>
    /\ done = {}
    /\ closed = FALSE

Accept(t) ==
    /\ ~closed
    /\ t \notin Members(accepted)
    /\ Len(accepted) - Len(started) < MaxWaiting
    /\ accepted' = Append(accepted, t)
    /\ UNCHANGED <<started, done, closed>>

\* The oldest accepted task that has not been started is the next to start.
Start ==
    /\ Len(started) < Len(accepted)
    /\ Cardinality(Members(started) \ done) < MaxInFlight
    /\ started' = Append(started, accepted[Len(started) + 1])
    /\ UNCHANGED <<accepted, done, closed>>

Finish(t) ==
    /\ t \in Members(started) \ done
    /\ done' = done \cup {t}
    /\ UNCHANGED <<accepted, started, closed>>

Close ==
    /\ ~closed
    /\ closed' = TRUE
    /\ UNCHANGED <<accepted, started, done>>

Next ==
    \/ \E t \in Tasks : Accept(t) \/ Finish(t)
    \/ Start
    \/ Close

\* An accepted task is started and finished even if the executor is closed.
Spec ==
    /\ Init
    /\ [][Next]_vars
    /\ WF_vars(Start)
    /\ \A t \in Tasks : WF_vars(Finish(t))
=============================================================================
