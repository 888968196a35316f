--------------------------- MODULE CompletionQueue ---------------------------
(***************************************************************************)
(* How a worker tells the epoll loop that it is finished with a connection *)
(* (RequestIO::complete_connection) and how the loop learns of it          *)
(* (RequestIO::DrainCompletions): the vector completed_ under a mutex, the *)
(* counter pending_notify_ that spares the workers needless writes, and    *)
(* the eventfd the loop's epoll_wait watches.  Every atomic operation and  *)
(* every system call of the two functions is an action of its own.         *)
(***************************************************************************)
EXTENDS Naturals, Sequences, FiniteSets

CONSTANTS Workers,      \* threads that complete connections
          Items         \* completions; each is pushed at most once

VARIABLES
    completed,      \* completed_
    pending_notify, \* pending_notify_
    eventfd,        \* the counter behind notify_fd_
    worker,         \* where each worker is
    loop,           \* where the loop is
    batch,          \* the loop's local vector `done`
    pushed,         \* history: completions pushed, in order
    handled         \* history: completions handled by the loop, in order

vars == <<completed, pending_notify, eventfd, worker, loop, batch,
          pushed, handled>>

Members(s) == {s[i] : i \in DOMAIN s}

WorkerStates == {"serving", "pushed", "writing"}
LoopStates == {"epoll_wait", "resetting", "swapping", "handling"}

Init ==
    /\ completed = <<>>
    /\ pending_notify = 0
    /\ eventfd = 0
    /\ worker = [w \in Workers |-> "serving"]
    /\ loop = "epoll_wait"
    /\ batch = <<>>
    /\ pushed = <<>>
    /\ handled = <<>>

-----------------------------------------------------------------------------
(* complete_connection, run by the workers *)

\* completed_.push_back, under completed_mutex_
Push(w, item) ==
    /\ worker[w] = "serving"
    /\ item \notin Members(pushed)
    /\ completed' = Append(completed, item)
    /\ pushed' = Append(pushed, item)
    /\ worker' = [worker EXCEPT ![w] = "pushed"]
    /\ UNCHANGED <<pending_notify, eventfd, loop, batch, handled>>

\* pending_notify_.fetch_add: only who finds 0 goes on to write.
Count(w) ==
    /\ worker[w] = "pushed"
    /\ pending_notify' = pending_notify + 1
    /\ worker' = [worker EXCEPT ![w] = IF pending_notify = 0 THEN "writing"
                                                              ELSE "serving"]
    /\ UNCHANGED <<completed, eventfd, loop, batch, pushed, handled>>

\* write(notify_fd_, 1)
WriteEvent(w) ==
    /\ worker[w] = "writing"
    /\ eventfd' = eventfd + 1
    /\ worker' = [worker EXCEPT ![w] = "serving"]
    /\ UNCHANGED <<completed, pending_notify, loop, batch, pushed, handled>>

-----------------------------------------------------------------------------
(* DrainCompletions, run by the loop when epoll reports notify_fd_ *)

\* epoll_wait reports the eventfd; the read empties it.
ReadEvent ==
    /\ loop = "epoll_wait"
    /\ eventfd > 0
    /\ eventfd' = 0
    /\ loop' = "resetting"
    /\ UNCHANGED <<completed, pending_notify, worker, batch, pushed, handled>>

\* pending_notify_.store(0)
ResetCounter ==
    /\ loop = "resetting"
    /\ pending_notify' = 0
    /\ loop' = "swapping"
    /\ UNCHANGED <<completed, eventfd, worker, batch, pushed, handled>>

\* done.swap(completed_), under completed_mutex_
SwapBatch ==
    /\ loop = "swapping"
    /\ batch' = completed
    /\ completed' = <<>>
    /\ loop' = "handling"
    /\ UNCHANGED <<pending_notify, eventfd, worker, pushed, handled>>

\* The for loop over `done`: one completion after the other.
Handle ==
    /\ loop = "handling"
    /\ batch # <<>>
    /\ handled' = Append(handled, Head(batch))
    /\ batch' = Tail(batch)
    /\ UNCHANGED <<completed, pending_notify, eventfd, worker, loop, pushed>>

Return ==
    /\ loop = "handling"
    /\ batch = <<>>
    /\ loop' = "epoll_wait"
    /\ UNCHANGED <<completed, pending_notify, eventfd, worker, batch,
                   pushed, handled>>

-----------------------------------------------------------------------------

Complete(w) == Count(w) \/ WriteEvent(w)

\* A plausible mistake: the vector is taken first, the counter reset second.
SwapFirst ==
    /\ loop = "resetting"
    /\ batch' = completed
    /\ completed' = <<>>
    /\ loop' = "swapping"
    /\ UNCHANGED <<pending_notify, eventfd, worker, pushed, handled>>

ResetSecond ==
    /\ loop = "swapping"
    /\ pending_notify' = 0
    /\ loop' = "handling"
    /\ UNCHANGED <<completed, eventfd, worker, batch, pushed, handled>>

Drain_SwapFirst == ReadEvent \/ SwapFirst \/ ResetSecond \/ Handle \/ Return

Drain == ReadEvent \/ ResetCounter \/ SwapBatch \/ Handle \/ Return

\* Every item has been handled and nobody is on the way to the loop.
Quiet ==
    /\ Members(handled) = Items
    /\ loop = "epoll_wait" /\ eventfd = 0
    /\ \A w \in Workers : worker[w] = "serving"
    /\ UNCHANGED vars

Next ==
    \/ \E w \in Workers : Complete(w) \/ \E item \in Items : Push(w, item)
    \/ Drain
    \/ Quiet

Spec == Init /\ [][Next]_vars

\* A worker inside complete_connection and the loop's thread keep running;
\* epoll_wait returns while the eventfd is readable.
FairSpec ==
    /\ Spec
    /\ \A w \in Workers : WF_vars(Complete(w))
    /\ WF_vars(Drain)

-----------------------------------------------------------------------------
(* Properties *)

TypeOK ==
    /\ completed \in Seq(Items)
    /\ pending_notify \in Nat
    /\ eventfd \in Nat
    /\ worker \in [Workers -> WorkerStates]
    /\ loop \in LoopStates
    /\ batch \in Seq(Items)
    /\ pushed \in Seq(Items)
    /\ handled \in Seq(Items)

\* A raised counter, which silences the other workers, is backed by a wakeup:
\* the eventfd is readable, or its write is still to come, or the loop has
\* read it and is about to reset the counter.
CounterIsBacked ==
    pending_notify > 0 =>
        \/ eventfd > 0
        \/ \E w \in Workers : worker[w] = "writing"
        \/ loop = "resetting"

\* A completion in the vector is counted, or about to be, or about to be taken.
CompletionIsCounted ==
    completed # <<>> =>
        \/ pending_notify > 0
        \/ \E w \in Workers : worker[w] = "pushed"
        \/ loop \in {"resetting", "swapping"}

\* No lost wakeup: the loop never sleeps in epoll_wait on a silent eventfd with
\* a completion in the vector, unless a worker is about to make it readable.
NoLostWakeup ==
    completed # <<>> /\ loop = "epoll_wait" /\ eventfd = 0 =>
        \E w \in Workers : worker[w] \in {"pushed", "writing"}

\* What was pushed is what was handled, what the loop holds, what waits: each
\* completion reaches the loop once, in the order of the pushes.
DeliveredOnceInOrder == pushed = handled \o batch \o completed

\* Counter, eventfd and lock make of the vector the channel RequestIO counts on:
\* nothing is lost, repeated or overtaken, what is pushed is taken even if the
\* worker that pushed it did not write, and every completed connection is
\* eventually handled (io.cpp 397-418, 451-461).  A wakeup that finds nothing
\* is a stutter of the channel.
Channel == INSTANCE CompletionChannel
    WITH posted <- pushed, waiting <- completed, taken <- batch

ImplementsChannel == Channel!Spec
=============================================================================
