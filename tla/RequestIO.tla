------------------------------ MODULE RequestIO ------------------------------
(***************************************************************************)
(* RequestIO (sources/request/io.cpp): the life of the connections of one  *)
(* epoll loop.  The loop accepts connections, reads and frames requests,   *)
(* hands them to the thread pool (or serves them itself in inline mode),   *)
(* takes the completions back, re-arms or closes, and sweeps stale         *)
(* connections; the workers send the responses.  Clients connect, send,    *)
(* half-close and reset at any time.                                       *)
(*                                                                         *)
(* Data: a request is cut into one or more parts; a connection's Stream is *)
(* the sequence of parts its client sends.  A buffer is a sequence of      *)
(* parts.  Time is abstracted: a sweep may find any slot expired, and      *)
(* always finds expired one whose last_activity was never set.             *)
(*                                                                         *)
(* The pool is the bounded FIFO of TaskExecutor, the completion vector the *)
(* reliable channel that CompletionQueue proves it to be.                  *)
(***************************************************************************)
EXTENDS Integers, Sequences, FiniteSets

CONSTANTS
    Conns,            \* client connections
    Fds,              \* descriptors the kernel may give to accepted sockets
    Workers,          \* worker threads of the pool
    None,
    Stream,           \* Stream[c]: the parts client c sends, in order
    Pooled,           \* config.threads > 0
    QueueSize,        \* capacity of the pool's queue
    MaxConnections,   \* config.max_connections, 0 for no cap
    Unique,           \* listenOne: stop after the first handled connection
    Pipelining,       \* clients may send a request before the previous response
    Leaving,          \* how clients may leave: subset of {"fin", "rst"}
    SizeMod           \* size of size_t, reduced (2^64 in the program)

Kinds == {"keep", "close", "bad"}

Parts == [conn : Conns, req : Nat \ {0}, kind : Kinds, part : Nat \ {0}, parts : Nat \ {0}]

\* ConnState: `expected` is 0 while head_known is false, and `dated` says that
\* last_activity has been set.
Slots == [buffer : Seq(Parts), expected : Nat, dispatching : BOOLEAN, dated : BOOLEAN]

\* What DispatchTask captures; Completion; an epoll_event and, as history, the
\* connection it was reported for.
Tasks == [fd : Fds, conn : Conns, req : Nat \ {0}, kind : Kinds]
Serving == [task : Tasks, replied : BOOLEAN]
Completions == [fd : Fds, keep_alive : BOOLEAN]
Events == [kind : {"listener", "notify", "client"}, fd : Fds \cup {None},
           hup : BOOLEAN, conn : Conns \cup {None}]

ASSUME RequestIOAssumption ==
    /\ IsFiniteSet(Conns) /\ IsFiniteSet(Fds) /\ Fds \subseteq Nat
    /\ Cardinality(Conns) <= Cardinality(Fds)
    /\ None \notin Conns \cup Fds \cup Slots \cup Serving
    /\ Stream \in [Conns -> Seq(Parts)]
    /\ Pooled \in BOOLEAN /\ Unique \in BOOLEAN /\ Pipelining \in BOOLEAN
    /\ QueueSize \in Nat \ {0}
    /\ MaxConnections \in Nat
    /\ Leaving \subseteq {"fin", "rst"}
    /\ SizeMod \in Nat /\ SizeMod > Cardinality(Fds)

\* What a stream is: the client's requests, numbered from 1, each in its parts.
ASSUME StreamAssumption ==
    \A c \in Conns : LET s == Stream[c] IN
        /\ s # <<>> => s[1].req = 1 /\ s[1].part = 1
        /\ \A i \in DOMAIN s : s[i].conn = c /\ s[i].part <= s[i].parts
        /\ \A i \in 1 .. Len(s) - 1 :
              IF s[i].part < s[i].parts THEN s[i + 1] = [s[i] EXCEPT !.part = @ + 1]
              ELSE s[i + 1].req = s[i].req + 1 /\ s[i + 1].part = 1

VARIABLES
    \* the clients and the network
    peer,       \* the server's side of each connection
    gone,       \* whether the client has half-closed or reset
    sent,       \* number of parts sent
    rcvd,       \* number of parts read by the server
    out,        \* responses written to the connection
    \* the kernel's tables
    conn,       \* the connection behind each descriptor, None when closed
    armed,      \* epoll reports events on the descriptor
    \* the members of RequestIO
    pending,    \* pending_
    active,     \* active_connections_
    handled,    \* handled_ # 0
    completed,  \* completed_
    \* the pool and its workers
    queue,
    serving,    \* the task of each worker and whether its response is written
    \* the loop's thread
    at,         \* where it is
    batch,      \* events of the current epoll_wait not yet dispatched
    done,       \* the local vector of DrainCompletions
    cur,        \* fd, event mask and peer_closed of the HandleReadable under way
    listening   \* listen_status_ = START

outside == <<gone, sent, queue, serving, listening>>     \* not the loop's business
sockets == <<rcvd, out, peer, conn, armed>>
members == <<pending, active, handled, completed>>
locals == <<batch, done, cur>>

vars == <<outside, sockets, members, at, locals>>

-----------------------------------------------------------------------------
(* Connections, descriptors, slots.  An operator X_Y is a plausible mistake *)
(* in X: the specification never uses it; it replaces X to show that the    *)
(* properties would notice.                                                 *)

NewSlot(dated) == [buffer |-> <<>>, expected |-> 0, dispatching |-> FALSE, dated |-> dated]

\* pending_slot: the slot of fd, a fresh one when it has none.
PendingSlot(fd) == IF pending[fd] = None THEN NewSlot(FALSE) ELSE pending[fd]

HasPending(fd) == pending[fd] # None

Open == {fd \in Fds : conn[fd] # None}

\* fetch_sub on a size_t: below zero it wraps around
Minus(n, k) == (n - k) % SizeMod

\* accept4 and socket give out the lowest descriptor that is free.
LowestFree(fd) == conn[fd] = None /\ \A g \in Fds \ Open : fd <= g

\* The parts client data left to read on a connection.
Unread(c) == SubSeq(Stream[c], rcvd[c] + 1, sent[c])

\* close() of a set of descriptors; closing a closed one is EBADF, no effect.
CloseAll(S) ==
    /\ conn' = [fd \in Fds |-> IF fd \in S THEN None ELSE conn[fd]]
    /\ armed' = [fd \in Fds |-> armed[fd] /\ fd \notin S]
    /\ peer' = [c \in Conns |-> IF \E fd \in S : conn[fd] = c THEN "closed" ELSE peer[c]]

\* close, drop_pending, active_connections_.fetch_sub
Drop(fd) == pending' = [pending EXCEPT ![fd] = None]
Release_Uncounted(fd) == CloseAll({fd}) /\ Drop(fd) /\ UNCHANGED active
Release(fd) == CloseAll({fd}) /\ Drop(fd) /\ active' = Minus(active, 1)

\* What is written to a client: the connection and number of the request it
\* answers, or an error response of the loop itself (400, 408, 503...).
ErrorReply == <<None, 0>>

\* A response written to whatever connection the descriptor now names.
ReplyAll(S, r) ==
    out' = [c \in Conns |-> IF \E fd \in S : conn[fd] = c THEN Append(out[c], r) ELSE out[c]]

Reject(fd) == ReplyAll({fd}, ErrorReply) /\ Release(fd) /\ handled' = TRUE

\* epoll_ctl(MOD): fails on a closed descriptor.  rearm_wait is for the pool only.
Arm(fd) == armed' = [armed EXCEPT ![fd] = conn[fd] # None]
RearmWait(fd) == IF Pooled THEN Arm(fd) ELSE UNCHANGED armed

KeepsAlive(kind) == kind = "keep" /\ ~Unique

Init ==
    /\ peer = [c \in Conns |-> "new"]
    /\ gone = [c \in Conns |-> "no"]
    /\ sent = [c \in Conns |-> 0]
    /\ rcvd = [c \in Conns |-> 0]
    /\ out = [c \in Conns |-> <<>>]
    /\ conn = [fd \in Fds |-> None]
    /\ armed = [fd \in Fds |-> FALSE]
    /\ pending = [fd \in Fds |-> None]
    /\ active = 0
    /\ handled = FALSE
    /\ completed = <<>>
    /\ queue = <<>>
    /\ serving = [w \in Workers |-> None]
    /\ at = "epoll_wait"
    /\ batch = {}
    /\ done = <<>>
    /\ cur = [fd |-> None, hup |-> FALSE, eof |-> FALSE]
    /\ listening = TRUE

-----------------------------------------------------------------------------
(* Clients *)

Connect(c) ==
    /\ peer[c] = "new"
    /\ peer' = [peer EXCEPT ![c] = "backlog"]
    /\ UNCHANGED <<outside, rcvd, out, conn, armed, members, at, locals>>

Send(c) ==
    /\ peer[c] \in {"backlog", "open"}
    /\ gone[c] = "no"
    /\ sent[c] < Len(Stream[c])
    /\ Pipelining \/ Len(out[c]) + 1 >= Stream[c][sent[c] + 1].req
    /\ sent' = [sent EXCEPT ![c] = @ + 1]
    /\ UNCHANGED <<gone, queue, serving, listening, sockets, members, at, locals>>

\* The client closes its writing side, or resets the connection.
Leave(c, how) ==
    /\ peer[c] \in {"backlog", "open"}
    /\ gone[c] = "no"
    /\ gone' = [gone EXCEPT ![c] = how]
    /\ UNCHANGED <<sent, queue, serving, listening, sockets, members, at, locals>>

-----------------------------------------------------------------------------
(* epoll_wait and Dispatch *)

Event(kind, fd, hup) ==
    [kind |-> kind, fd |-> fd, hup |-> hup,
     conn |-> IF fd = None THEN None ELSE conn[fd]]

ReadyFds ==
    {fd \in Open : /\ armed[fd]
                   /\ rcvd[conn[fd]] < sent[conn[fd]] \/ gone[conn[fd]] # "no"}

Ready ==
    {Event("listener", None, FALSE) : c \in {x \in Conns : peer[x] = "backlog"}}
    \cup {Event("notify", None, FALSE) : i \in DOMAIN completed}
    \cup {Event("client", fd, gone[conn[fd]] = "rst") : fd \in ReadyFds}

\* EPOLLONESHOT, in pool mode: a reported descriptor is disarmed.
OneShot_Off == {}
OneShot == IF Pooled THEN ReadyFds ELSE {}

EpollWait ==
    /\ at = "epoll_wait"
    /\ Ready # {}
    /\ batch' = Ready
    /\ armed' = [fd \in Fds |-> armed[fd] /\ fd \notin OneShot]
    /\ at' = "dispatch"
    /\ UNCHANGED <<outside, rcvd, out, peer, conn, members, done, cur>>

EpollTimeout_Never == at = "epoll_wait" /\ Ready = {} /\ UNCHANGED vars

EpollTimeout ==
    /\ at = "epoll_wait"
    /\ Ready = {}
    /\ at' = "sweep"
    /\ UNCHANGED <<outside, sockets, members, locals>>

\* epoll_wait fails: the loop is left at once.  (After EINTR the condition of the
\* loop is tested, and without LoopEnds epoll_wait called again.)
WaitFails ==
    /\ at = "epoll_wait"
    /\ at' = "kill"
    /\ UNCHANGED <<outside, sockets, members, locals>>

\* The next event of the batch, in whatever order epoll listed them.
DispatchEvent(e) ==
    /\ at = "dispatch" /\ done = <<>>
    /\ e \in batch
    /\ batch' = batch \ {e}
    /\ \/ /\ e.kind = "notify"
          /\ done' = completed
          /\ completed' = <<>>
          /\ UNCHANGED <<at, cur>>
       \/ /\ e.kind = "listener"
          /\ at' = "accept"
          /\ UNCHANGED <<completed, done, cur>>
       \/ /\ e.kind = "client"
          /\ at' = "receive"
          /\ cur' = [fd |-> e.fd, hup |-> e.hup, eof |-> FALSE]
          /\ UNCHANGED <<completed, done>>
    /\ UNCHANGED <<outside, sockets, pending, active, handled>>

DispatchEnd ==
    /\ at = "dispatch" /\ done = <<>>
    /\ batch = {}
    /\ at' = "sweep"
    /\ UNCHANGED <<outside, sockets, members, locals>>

\* After HandleReadable, an event with EPOLLHUP closes what is still pending.
Resume == at' = IF cur.hup THEN "hangup" ELSE "dispatch"

Hangup ==
    /\ at = "hangup"
    /\ at' = "dispatch"
    /\ IF HasPending(cur.fd)
          THEN Release(cur.fd) /\ handled' = TRUE
          ELSE UNCHANGED <<peer, conn, armed, pending, active, handled>>
    /\ UNCHANGED <<outside, rcvd, out, completed, locals>>

-----------------------------------------------------------------------------
(* AcceptPending: one accept4 after the other until the backlog is empty *)

AtCap_OffByOne == MaxConnections # 0 /\ active > MaxConnections
AtCap == MaxConnections # 0 /\ active >= MaxConnections

AcceptRefuse(c) ==
    /\ at = "accept"
    /\ peer[c] = "backlog"
    /\ AtCap
    /\ peer' = [peer EXCEPT ![c] = "closed"]
    /\ UNCHANGED <<outside, rcvd, out, conn, armed, members, at, locals>>

\* epoll_ctl(ADD) fails: closed before it was counted or had a slot.
AcceptFails(c) ==
    /\ at = "accept"
    /\ peer[c] = "backlog"
    /\ ~AtCap
    /\ peer' = [peer EXCEPT ![c] = "closed"]
    /\ UNCHANGED <<outside, rcvd, out, conn, armed, members, at, locals>>

Accept(c) ==
    /\ at = "accept"
    /\ peer[c] = "backlog"
    /\ ~AtCap
    /\ peer' = [peer EXCEPT ![c] = "open"]
    /\ active' = (active + 1) % SizeMod
    /\ \E fd \in Fds :
          /\ LowestFree(fd)
          /\ conn' = [conn EXCEPT ![fd] = c]
          /\ armed' = [armed EXCEPT ![fd] = TRUE]
          /\ pending' = [pending EXCEPT ![fd] = NewSlot(TRUE)]
    /\ UNCHANGED <<outside, rcvd, out, handled, completed, at, locals>>

AcceptEnd ==
    /\ at = "accept"
    /\ \A c \in Conns : peer[c] # "backlog"
    /\ at' = "dispatch"
    /\ UNCHANGED <<outside, sockets, members, locals>>

-----------------------------------------------------------------------------
(* HandleReadable: the recv loop, then the framing loop *)

\* recv fails: the peer has reset the connection, or the descriptor is closed.
ReceiveError ==
    /\ at = "receive"
    /\ conn[cur.fd] # None => gone[conn[cur.fd]] = "rst"
    /\ Reject(cur.fd)
    /\ Resume
    /\ UNCHANGED <<outside, rcvd, completed, locals>>

\* The buffer outgrows max_request_size: 413.
ReceiveTooLarge ==
    /\ at = "receive"
    /\ conn[cur.fd] # None
    /\ Unread(conn[cur.fd]) # <<>>
    /\ Reject(cur.fd)
    /\ Resume
    /\ UNCHANGED <<outside, rcvd, completed, locals>>

\* The loop drains the socket.  It learns of the end of the stream when a recv
\* returns 0, which a short read before it prevents.
Receive(eof) ==
    LET fd == cur.fd
        c  == conn[fd]
        s  == PendingSlot(fd)
        more == Unread(c)
        buffer == s.buffer \o more
    IN  /\ at = "receive"
        /\ c # None
        /\ eof => gone[c] # "no"
        /\ gone[c] # "no" /\ more = <<>> => eof
        /\ rcvd' = [rcvd EXCEPT ![c] = sent[c]]
        /\ pending' = [pending EXCEPT ![fd] =
                          [s EXCEPT !.buffer = buffer, !.dated = @ \/ more # <<>>]]
        /\ cur' = [cur EXCEPT !.eof = eof]
        /\ IF buffer = <<>>
              THEN RearmWait(fd) /\ Resume
              ELSE at' = "frame" /\ UNCHANGED armed
        /\ UNCHANGED <<outside, out, peer, conn, active, handled, completed, batch, done>>

\* Message::inspect, or the length remembered from an earlier inspection.
Malformed(s) == s.expected = 0 /\ (s.buffer[1].kind = "bad" \/ s.buffer[1].part # 1)
RequestLen(s) == IF s.expected # 0 THEN s.expected ELSE s.buffer[1].parts
Incomplete(s) == ~Malformed(s) /\ Len(s.buffer) < RequestLen(s)
Complete(s) == ~Malformed(s) /\ Len(s.buffer) >= RequestLen(s)

Framing(fd) == at = "frame" /\ fd = cur.fd

\* 400, 408 (the deadline may be over at any time), 413, 431, 501
FrameReject(fd) ==
    /\ Framing(fd)
    /\ ~Complete(pending[fd])
    /\ Reject(fd)
    /\ Resume
    /\ UNCHANGED <<outside, rcvd, completed, locals>>

\* The length the slot remembers while the rest of the request is on its way.
Expected(s) == RequestLen(s)

FrameWait(fd) ==
    /\ Framing(fd)
    /\ Incomplete(pending[fd])
    /\ ~cur.eof
    /\ pending' = [pending EXCEPT ![fd].expected = Expected(pending[fd])]
    /\ RearmWait(fd)
    /\ Resume
    /\ UNCHANGED <<outside, rcvd, out, peer, conn, active, handled, completed, locals>>

Task(fd) ==
    LET p == pending[fd].buffer[1] IN [fd |-> fd, conn |-> p.conn, req |-> p.req, kind |-> p.kind]

Leftover_Dropped(s) == <<>>
Leftover_Whole(s) == s.buffer
Leftover(s) == SubSeq(s.buffer, RequestLen(s) + 1, Len(s.buffer))

\* The slot without its first request.
Advanced(s) == [s EXCEPT !.buffer = Leftover(s), !.expected = 0]

\* A slot with a leftover is kept and marked, an empty one dropped.
Dispatched_Unmarked(s) == Advanced(s)
Dispatched(s) ==
    IF Leftover(s) = <<>> THEN None ELSE [Advanced(s) EXCEPT !.dispatching = TRUE]

\* DispatchTask, the pool has room.
FrameDispatch(fd) ==
    /\ Framing(fd) /\ Pooled
    /\ Complete(pending[fd])
    /\ Len(queue) < QueueSize
    /\ queue' = Append(queue, Task(fd))
    /\ pending' = [pending EXCEPT ![fd] = Dispatched(@)]
    /\ Resume
    /\ UNCHANGED <<gone, sent, serving, listening, sockets, active, handled, completed, locals>>

\* DispatchTask, the queue is full: the connection is shed with a 503.
Shed_Ignored(fd) == Drop(fd) /\ UNCHANGED <<out, peer, conn, armed, active, handled>>
Shed(fd) == Reject(fd)

FrameShed(fd) ==
    /\ Framing(fd) /\ Pooled
    /\ Complete(pending[fd])
    /\ Len(queue) >= QueueSize
    /\ Shed(fd)
    /\ Resume
    /\ UNCHANGED <<outside, rcvd, completed, locals>>

\* serve_inline, then the next request of the buffer, if any.
FrameServe(fd) ==
    LET t == Task(fd)
        s == Advanced(pending[fd])
    IN  /\ Framing(fd) /\ ~Pooled
        /\ Complete(pending[fd])
        /\ ReplyAll({fd}, <<t.conn, t.req>>)
        /\ handled' = TRUE
        /\ IF KeepsAlive(t.kind)
              THEN /\ pending' = [pending EXCEPT ![fd] = [s EXCEPT !.dated = TRUE]]
                   /\ UNCHANGED <<peer, conn, armed, active>>
              ELSE Release(fd)
        /\ IF KeepsAlive(t.kind) /\ s.buffer # <<>> THEN UNCHANGED at ELSE Resume
        /\ UNCHANGED <<outside, rcvd, completed, locals>>

-----------------------------------------------------------------------------
(* ServeRequest, run by the workers *)

WorkerPop(w) ==
    /\ serving[w] = None
    /\ queue # <<>>
    /\ serving' = [serving EXCEPT ![w] = [task |-> Head(queue), replied |-> FALSE]]
    /\ queue' = Tail(queue)
    /\ UNCHANGED <<gone, sent, listening, sockets, members, at, locals>>

\* ExecuteRoute sends the response to the descriptor; then handled_ is raised.
WorkerReply(w) ==
    LET t == serving[w].task IN
    /\ serving[w] # None
    /\ ~serving[w].replied
    /\ ReplyAll({t.fd}, <<t.conn, t.req>>)
    /\ serving' = [serving EXCEPT ![w].replied = TRUE]
    /\ handled' = TRUE
    /\ UNCHANGED <<gone, sent, queue, listening, rcvd, peer, conn, armed,
                   pending, active, completed, at, locals>>

\* complete_connection
WorkerComplete(w) ==
    LET t == serving[w].task IN
    /\ serving[w] # None
    /\ serving[w].replied
    /\ completed' = Append(completed, [fd |-> t.fd, keep_alive |-> KeepsAlive(t.kind)])
    /\ serving' = [serving EXCEPT ![w] = None]
    /\ UNCHANGED <<gone, sent, queue, listening, sockets, pending, active, handled, at, locals>>

-----------------------------------------------------------------------------
(* DrainCompletions, one completion after the other *)

DrainClose ==
    /\ at = "dispatch" /\ done # <<>>
    /\ ~Head(done).keep_alive
    /\ Release(Head(done).fd)
    /\ done' = Tail(done)
    /\ UNCHANGED <<outside, rcvd, out, handled, completed, at, batch, cur>>

\* RearmConnection: the descriptor is armed first, the leftover handled next.
DrainRearm ==
    LET fd == Head(done).fd
        s  == [PendingSlot(fd) EXCEPT !.dated = TRUE, !.expected = 0, !.dispatching = FALSE]
    IN  /\ at = "dispatch" /\ done # <<>>
        /\ Head(done).keep_alive
        /\ done' = Tail(done)
        /\ pending' = [pending EXCEPT ![fd] = s]
        /\ Arm(fd)
        /\ IF s.buffer # <<>>
              THEN at' = "receive" /\ cur' = [fd |-> fd, hup |-> FALSE, eof |-> FALSE]
              ELSE UNCHANGED <<at, cur>>
        /\ UNCHANGED <<outside, rcvd, out, peer, conn, active, handled, completed, batch>>

-----------------------------------------------------------------------------
(* SweepStale, and the condition of run_loop *)

Sweepable_None == {}
Sweepable == {fd \in Fds : pending[fd] # None /\ ~pending[fd].dispatching}
Undated == {fd \in Sweepable : ~pending[fd].dated}

LoopEnds_StopOnly(served) == ~listening
LoopEnds(served) == ~listening \/ (Unique /\ served)

Sweep(expired) ==
    /\ at = "sweep"
    /\ Undated \subseteq expired /\ expired \subseteq Sweepable
    /\ ReplyAll(expired, ErrorReply)
    /\ CloseAll(expired)
    /\ active' = Minus(active, Cardinality(expired))
    /\ pending' = [fd \in Fds |-> IF fd \in expired THEN None ELSE pending[fd]]
    /\ handled' = (handled \/ expired # {})
    /\ at' = IF LoopEnds(handled') THEN "kill" ELSE "epoll_wait"
    /\ UNCHANGED <<outside, rcvd, completed, locals>>

\* setListenStatus, from another thread
StopListening ==
    /\ listening /\ ~Unique
    /\ listening' = FALSE
    /\ UNCHANGED <<gone, sent, queue, serving, sockets, members, at, locals>>

-----------------------------------------------------------------------------
(* shutdown: the pool is killed (its workers drain the queue), then every  *)
(* completed and every pending connection is closed.                       *)

ShutdownKill ==
    /\ at = "kill"
    /\ queue = <<>> /\ \A w \in Workers : serving[w] = None
    /\ at' = "close"
    /\ UNCHANGED <<outside, sockets, members, locals>>

CompletedFds_Forgotten == {}
CompletedFds == {completed[i].fd : i \in DOMAIN completed}

ShutdownClose ==
    LET left == {fd \in Fds \ CompletedFds : pending[fd] # None}
    IN  /\ at = "close"
        /\ CloseAll(CompletedFds \cup left)
        /\ active' = Minus(active, Len(completed) + Cardinality(left))
        /\ completed' = <<>>
        /\ pending' = [fd \in Fds |-> None]
        /\ at' = "stopped"
        /\ UNCHANGED <<outside, rcvd, out, handled, locals>>

Terminated == at = "stopped" /\ UNCHANGED vars

-----------------------------------------------------------------------------

Client(c) == Connect(c) \/ Send(c) \/ \E how \in Leaving : Leave(c, how)

Worker(w) == WorkerPop(w) \/ WorkerReply(w) \/ WorkerComplete(w)

HandleReadable ==
    \/ ReceiveError \/ ReceiveTooLarge
    \/ \E eof \in BOOLEAN : Receive(eof)
    \/ \E fd \in Fds : \/ FrameReject(fd) \/ FrameWait(fd)
                       \/ FrameDispatch(fd) \/ FrameShed(fd) \/ FrameServe(fd)

Loop ==
    \/ EpollWait \/ EpollTimeout
    \/ \E e \in batch : DispatchEvent(e)
    \/ DispatchEnd \/ Hangup
    \/ \E c \in Conns : Accept(c) \/ AcceptRefuse(c) \/ AcceptFails(c)
    \/ AcceptEnd
    \/ HandleReadable
    \/ DrainClose \/ DrainRearm
    \/ \E expired \in SUBSET Fds : Sweep(expired)
    \/ ShutdownKill \/ ShutdownClose

Next ==
    \/ \E c \in Conns : Client(c)
    \/ \E w \in Workers : Worker(w)
    \/ Loop \/ WaitFails
    \/ StopListening
    \/ Terminated

Spec == Init /\ [][Next]_vars

\* The loop's thread and the workers keep running; that epoll_wait fails is never
\* owed.  Time passes, so that a slot which the sweep could find expired again
\* and again is found so at last.
SweepOf(fd) == \E expired \in SUBSET Fds : fd \in expired /\ Sweep(expired)

FairSpec ==
    /\ Spec
    /\ WF_vars(Loop)
    /\ \A w \in Workers : WF_vars(Worker(w))
    /\ \A fd \in Fds : SF_vars(SweepOf(fd))

-----------------------------------------------------------------------------
(* Properties *)

TypeOK ==
    /\ peer \in [Conns -> {"new", "backlog", "open", "closed"}]
    /\ gone \in [Conns -> {"no", "fin", "rst"}]
    /\ sent \in [Conns -> Nat]
    /\ rcvd \in [Conns -> Nat]
    /\ out \in [Conns -> Seq((Conns \cup {None}) \X Nat)]
    /\ conn \in [Fds -> Conns \cup {None}]
    /\ armed \in [Fds -> BOOLEAN]
    /\ pending \in [Fds -> Slots \cup {None}]
    /\ active \in 0 .. SizeMod - 1
    /\ handled \in BOOLEAN
    /\ completed \in Seq(Completions)
    /\ queue \in Seq(Tasks)
    /\ serving \in [Workers -> Serving \cup {None}]
    /\ at \in {"epoll_wait", "dispatch", "accept", "receive", "frame", "hangup",
               "sweep", "kill", "close", "stopped"}
    /\ batch \subseteq Events
    /\ done \in Seq(Completions)
    /\ cur \in [fd : Fds \cup {None}, hup : BOOLEAN, eof : BOOLEAN]
    /\ listening \in BOOLEAN

\* Tasks and completions of a descriptor that are still on their way round.
InFlight(fd) ==
      Cardinality({i \in DOMAIN queue : queue[i].fd = fd})
    + Cardinality({w \in Workers : serving[w] # None /\ serving[w].task.fd = fd})
    + Cardinality({i \in DOMAIN completed : completed[i].fd = fd})
    + Cardinality({i \in DOMAIN done : done[i].fd = fd})

\* The loop holds the connection: its slot is in pending_ and not marked.
WithLoop(fd) == pending[fd] # None /\ ~pending[fd].dispatching

\* The counter the cap is tested against is the number of open sockets.
CounterIsOpenSockets == active = Cardinality(Open)

\* config.hpp: max_connections is a hard cap on the open client connections.
HardCap == MaxConnections # 0 => Cardinality(Open) <= MaxConnections

\* Between accept and close every connection is in exactly one hand: the loop's
\* or that of one task; a closed descriptor is in nobody's.
SingleOwner ==
    \A fd \in Fds :
        IF fd \in Open THEN InFlight(fd) + (IF WithLoop(fd) THEN 1 ELSE 0) = 1
        ELSE InFlight(fd) = 0 /\ pending[fd] = None

\* An event of the batch is dispatched to the connection it was reported for,
\* although descriptors are closed and reused while the batch is worked off.
EventsAreCurrent == \A e \in batch : e.kind = "client" => e.conn = conn[e.fd]

\* A connection is answered in the order of its requests, each once, by the
\* responses to its own requests; an error response ends it.
ResponsesInOrder ==
    \A c \in Conns : \A i \in DOMAIN out[c] :
        \/ out[c][i] = <<c, i>>
        \/ out[c][i] = ErrorReply /\ i = Len(out[c])

\* A descriptor is closed only when no task will write to it any more.
NoCloseUnderTask ==
    [][\A fd \in Fds : conn[fd] # None /\ conn'[fd] = None =>
          /\ \A i \in DOMAIN queue : queue[i].fd # fd
          /\ \A w \in Workers : serving[w] # None => serving[w].task.fd # fd]_vars

\* After shutdown nothing is left open, counted, queued or remembered.
CleanShutdown ==
    at = "stopped" =>
        /\ Open = {} /\ active = 0
        /\ queue = <<>> /\ completed = <<>>
        /\ \A w \in Workers : serving[w] = None
        /\ \A fd \in Fds : pending[fd] = None

\* Nothing a client has sent is lost, kept twice or cut in the wrong place: on an
\* open connection the slot's buffer is the end of what was received, and what is
\* no longer in it are the parts of the requests that are answered or have a task,
\* all of them and of no other.  At shutdown, with the workers joined, each of
\* those requests is answered.
Taken(fd) ==
      Cardinality({i \in DOMAIN queue : queue[i].fd = fd})
    + Cardinality({w \in Workers : serving[w] # None /\ serving[w].task.fd = fd
                                    /\ ~serving[w].replied})

Buffered(fd) == IF pending[fd] = None THEN <<>> ELSE pending[fd].buffer

NothingReceivedIsLost ==
    \A fd \in Open :
        LET c == conn[fd]
            left == rcvd[c] - Len(Buffered(fd))
            requests == Len(out[c]) + Taken(fd)
        IN  /\ Len(Buffered(fd)) <= rcvd[c]
            /\ \A i \in DOMAIN Buffered(fd) : Buffered(fd)[i] = Stream[c][left + i]
            /\ \A i \in DOMAIN Stream[c] : Stream[c][i].req <= requests <=> i <= left

\* Requests whose last part has been received are answered or the connection
\* ends: no task, completion or wakeup is lost on the way round.
Received(c, r) == \E i \in 1 .. rcvd[c] :
                     Stream[c][i].req = r /\ Stream[c][i].part = Stream[c][i].parts

RequestIsAnswered ==
    \A c \in Conns : \A r \in 1 .. 3 :
        Received(c, r) ~> (Len(out[c]) >= r \/ peer[c] = "closed")

\* A connection whose client has left, or sends no more, is closed by the
\* server: no descriptor and no slot leaks.
ConnectionEnds == \A c \in Conns : peer[c] = "open" ~> peer[c] = "closed"

\* Once told to stop, or in listenOne once a connection has been handled, the loop
\* shuts down, with workers under way.
LoopStops == ~listening \/ (Unique /\ handled) ~> at = "stopped"
=============================================================================
