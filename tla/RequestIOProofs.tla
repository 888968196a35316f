--------------------------- MODULE RequestIOProofs ---------------------------
(***************************************************************************)
(* Theorems about RequestIO, for any number of connections, descriptors    *)
(* and workers, any scripts of the clients, either mode.                   *)
(***************************************************************************)
EXTENDS RequestIO, QueueLemmas

-----------------------------------------------------------------------------
(* Types.  TypeOK is not inductive: the framing loop takes the first part  *)
(* of a buffer, so the buffer must not be empty, and a handler's fd must be *)
(* a descriptor.                                                           *)

OutsideOK ==
    /\ gone \in [Conns -> {"no", "fin", "rst"}]
    /\ sent \in [Conns -> Nat]
    /\ \A c \in Conns : sent[c] <= Len(Stream[c])
    /\ queue \in Seq(Tasks)
    /\ serving \in [Workers -> Serving \cup {None}]
    /\ listening \in BOOLEAN

SocketsOK ==
    /\ rcvd \in [Conns -> Nat]
    /\ out \in [Conns -> Seq((Conns \cup {None}) \X Nat)]
    /\ peer \in [Conns -> {"new", "backlog", "open", "closed"}]
    /\ conn \in [Fds -> Conns \cup {None}]
    /\ armed \in [Fds -> BOOLEAN]

MembersOK ==
    /\ pending \in [Fds -> Slots \cup {None}]
    /\ active \in 0 .. SizeMod - 1
    /\ handled \in BOOLEAN
    /\ completed \in Seq(Completions)

LocalsOK ==
    /\ batch \subseteq Events
    /\ \A e \in batch : e.kind = "client" => e.fd \in Fds
    /\ done \in Seq(Completions)
    /\ cur \in [fd : Fds \cup {None}, hup : BOOLEAN, eof : BOOLEAN]

ControlOK ==
    /\ at \in {"epoll_wait", "dispatch", "accept", "receive", "frame", "hangup",
               "sweep", "kill", "close", "stopped"}
    /\ at \in {"receive", "frame", "hangup"} => cur.fd \in Fds
    /\ at = "frame" => pending[cur.fd] # None /\ pending[cur.fd].buffer # <<>>

TypeInv == OutsideOK /\ SocketsOK /\ MembersOK /\ LocalsOK /\ ControlOK

LEMMA TypeInvImpliesTypeOK == TypeInv => TypeOK
BY DEF TypeInv, OutsideOK, SocketsOK, MembersOK, LocalsOK, ControlOK, TypeOK

\* fetch_sub wraps around: its result is a size_t.
LEMMA MinusType ==
    ASSUME NEW n \in Nat, NEW k \in Nat
    PROVE  Minus(n, k) \in 0 .. SizeMod - 1
<1>1. SizeMod \in Nat /\ SizeMod > 0
  BY FS_CardinalityType, RequestIOAssumption
<1> QED
  BY <1>1 DEF Minus

\* close() keeps the kernel's tables and the clients' ends typed.
LEMMA CloseAllType ==
    ASSUME SocketsOK, NEW S, CloseAll(S)
    PROVE  /\ conn' \in [Fds -> Conns \cup {None}]
           /\ armed' \in [Fds -> BOOLEAN]
           /\ peer' \in [Conns -> {"new", "backlog", "open", "closed"}]
BY DEF SocketsOK, CloseAll

\* A response appended to some connections.
LEMMA ReplyAllType ==
    ASSUME SocketsOK, NEW S, NEW r \in (Conns \cup {None}) \X Nat, ReplyAll(S, r)
    PROVE  out' \in [Conns -> Seq((Conns \cup {None}) \X Nat)]
<1>1. \A c \in Conns : Append(out[c], r) \in Seq((Conns \cup {None}) \X Nat)
  BY DEF SocketsOK
<1> QED
  BY <1>1 DEF SocketsOK, ReplyAll

LEMMA ErrorReplyType == ErrorReply \in (Conns \cup {None}) \X Nat
BY DEF ErrorReply

LEMMA ReleaseType ==
    ASSUME SocketsOK, MembersOK, NEW fd \in Fds, Release(fd)
    PROVE  /\ conn' \in [Fds -> Conns \cup {None}]
           /\ armed' \in [Fds -> BOOLEAN]
           /\ peer' \in [Conns -> {"new", "backlog", "open", "closed"}]
           /\ pending' \in [Fds -> Slots \cup {None}]
           /\ active' \in 0 .. SizeMod - 1
<1>1. active' \in 0 .. SizeMod - 1
  BY MinusType DEF MembersOK, Release
<1>2. pending' \in [Fds -> Slots \cup {None}]
  BY DEF MembersOK, Release, Drop
<1> QED
  BY <1>1, <1>2, CloseAllType DEF Release

LEMMA RejectType ==
    ASSUME SocketsOK, MembersOK, NEW fd \in Fds, Reject(fd), UNCHANGED <<rcvd, completed>>
    PROVE  SocketsOK' /\ MembersOK'
<1>1. out' \in [Conns -> Seq((Conns \cup {None}) \X Nat)]
  BY ReplyAllType, ErrorReplyType DEF Reject
<1>2. /\ conn' \in [Fds -> Conns \cup {None}]
      /\ armed' \in [Fds -> BOOLEAN]
      /\ peer' \in [Conns -> {"new", "backlog", "open", "closed"}]
      /\ pending' \in [Fds -> Slots \cup {None}]
      /\ active' \in 0 .. SizeMod - 1
  BY ReleaseType DEF Reject
<1> QED
  BY <1>1, <1>2 DEF SocketsOK, MembersOK, Reject

\* Where a handler returns to.
LEMMA ResumeType ==
    ASSUME cur.fd \in Fds, Resume, UNCHANGED cur
    PROVE  ControlOK'
BY DEF Resume, ControlOK

LEMMA OutsideUnchanged == OutsideOK /\ UNCHANGED outside => OutsideOK'
BY DEF OutsideOK, outside
LEMMA SocketsUnchanged == SocketsOK /\ UNCHANGED sockets => SocketsOK'
BY DEF SocketsOK, sockets
LEMMA MembersUnchanged == MembersOK /\ UNCHANGED members => MembersOK'
BY DEF MembersOK, members
LEMMA LocalsUnchanged == LocalsOK /\ UNCHANGED locals => LocalsOK'
BY DEF LocalsOK, locals
LEMMA ControlUnchanged == ControlOK /\ UNCHANGED <<at, cur, pending>> => ControlOK'
BY DEF ControlOK

-----------------------------------------------------------------------------
(* Every step preserves the types. *)

\* The clients' steps.
LEMMA ClientTypes ==
    ASSUME TypeInv, NEW c \in Conns, Client(c)
    PROVE  TypeInv'
<1> USE DEF TypeInv
<1>1. CASE Connect(c)
  <2>1. SocketsOK'
    BY <1>1 DEF Connect, SocketsOK
  <2> QED
    BY <1>1, <2>1, OutsideUnchanged, MembersUnchanged, LocalsUnchanged, ControlUnchanged
    DEF Connect, locals, members
<1>2. CASE Send(c)
  <2>1. Len(Stream[c]) \in Nat
    BY RequestIOAssumption
  <2>2. OutsideOK'
    BY <1>2, <2>1 DEF Send, OutsideOK
  <2> QED
    BY <1>2, <2>2, SocketsUnchanged, MembersUnchanged, LocalsUnchanged, ControlUnchanged
    DEF Send, locals, members
<1>3. ASSUME NEW how \in Leaving, Leave(c, how) PROVE TypeInv'
  <2>1. OutsideOK'
    BY <1>3, RequestIOAssumption DEF Leave, OutsideOK
  <2> QED
    BY <1>3, <2>1, SocketsUnchanged, MembersUnchanged, LocalsUnchanged, ControlUnchanged
    DEF Leave, locals, members
<1> QED
  BY <1>1, <1>2, <1>3 DEF Client

\* epoll_wait, Dispatch and AcceptPending.
LEMMA DispatchTypes ==
    ASSUME TypeInv,
           \/ EpollWait \/ EpollTimeout \/ WaitFails \/ DispatchEnd \/ Hangup \/ AcceptEnd
           \/ \E e \in batch : DispatchEvent(e)
           \/ \E c \in Conns : Accept(c) \/ AcceptRefuse(c) \/ AcceptFails(c)
    PROVE  TypeInv'
<1> USE DEF TypeInv
<1>1. CASE EpollWait
  <2>1. Ready \subseteq Events /\ \A e \in Ready : e.kind = "client" => e.fd \in Fds
    <3>1. Event("listener", None, FALSE) \in Events /\ Event("notify", None, FALSE) \in Events
      BY DEF Event, Events
    <3>2. \A fd \in ReadyFds, h \in BOOLEAN :
             fd \in Fds /\ Event("client", fd, h) \in Events /\ Event("client", fd, h).fd = fd
      BY RequestIOAssumption DEF Event, Events, ReadyFds, Open, SocketsOK
    <3>3. Event("listener", None, FALSE).kind # "client" /\ Event("notify", None, FALSE).kind # "client"
      BY DEF Event
    <3>4. ASSUME NEW e \in Ready
          PROVE  \/ e = Event("listener", None, FALSE) \/ e = Event("notify", None, FALSE)
                 \/ \E fd \in ReadyFds, h \in BOOLEAN : e = Event("client", fd, h)
      BY <3>4 DEF Ready
    <3>5. ASSUME NEW e \in Ready PROVE e \in Events /\ (e.kind = "client" => e.fd \in Fds)
      <4>1. CASE e = Event("listener", None, FALSE) \/ e = Event("notify", None, FALSE)
        BY <4>1, <3>1, <3>3
      <4>2. CASE \E fd \in ReadyFds, h \in BOOLEAN : e = Event("client", fd, h)
        BY <4>2, <3>2, Zenon
      <4> QED
        BY <3>4, <4>1, <4>2
    <3> QED
      BY <3>5
  <2>2. SocketsOK'
    BY <1>1 DEF EpollWait, SocketsOK
  <2>3. LocalsOK' /\ ControlOK'
    BY <1>1, <2>1 DEF EpollWait, LocalsOK, ControlOK
  <2> QED
    BY <1>1, <2>2, <2>3, OutsideUnchanged, MembersUnchanged DEF EpollWait
<1>2. CASE EpollTimeout \/ WaitFails \/ DispatchEnd \/ AcceptEnd
  <2>1. ControlOK' /\ UNCHANGED <<outside, sockets, members, locals>>
    BY <1>2 DEF EpollTimeout, WaitFails, DispatchEnd, AcceptEnd, ControlOK
  <2> QED
    BY <2>1, OutsideUnchanged, SocketsUnchanged, MembersUnchanged, LocalsUnchanged
<1>3. CASE Hangup
  <2>1. cur.fd \in Fds
    BY <1>3 DEF Hangup, ControlOK
  <2>2. SocketsOK' /\ MembersOK'
    <3>1. CASE HasPending(cur.fd)
      BY <1>3, <2>1, <3>1, ReleaseType DEF Hangup, SocketsOK, MembersOK
    <3>2. CASE ~HasPending(cur.fd)
      BY <1>3, <3>2 DEF Hangup, SocketsOK, MembersOK
    <3> QED
      BY <3>1, <3>2
  <2>3. ControlOK'
    BY <1>3 DEF Hangup, ControlOK
  <2> QED
    BY <1>3, <2>2, <2>3, OutsideUnchanged, LocalsUnchanged DEF Hangup
<1>4. ASSUME NEW e \in batch, DispatchEvent(e) PROVE TypeInv'
  <2>1. e.hup \in BOOLEAN /\ e.fd \in Fds \cup {None} /\ (e.kind = "client" => e.fd \in Fds)
    BY DEF LocalsOK, Events
  <2>2. /\ batch' = batch \ {e}
        /\ \/ completed' = completed /\ done' = done
           \/ completed' = <<>> /\ done' = completed
        /\ UNCHANGED <<pending, active, handled>>
    BY <1>4 DEF DispatchEvent
  <2>3. \/ at' \in {at, "accept"} /\ cur' = cur
        \/ at' = "receive" /\ e.fd \in Fds /\ cur' = [fd |-> e.fd, hup |-> e.hup, eof |-> FALSE]
    BY <1>4, <2>1 DEF DispatchEvent
  <2>4. at = "dispatch"
    BY <1>4 DEF DispatchEvent
  <2>5. LocalsOK'
    <3>1. cur' \in [fd : Fds \cup {None}, hup : BOOLEAN, eof : BOOLEAN]
      <4>1. CASE cur' = cur
        BY <4>1 DEF LocalsOK
      <4>2. CASE cur' = [fd |-> e.fd, hup |-> e.hup, eof |-> FALSE]
        BY <2>1, <4>2, Zenon
      <4> QED
        BY <2>3, <4>1, <4>2
    <3> QED
      BY <2>2, <3>1 DEF LocalsOK, MembersOK
  <2>6. ControlOK'
    BY <2>3, <2>4 DEF ControlOK
  <2>7. MembersOK'
    <3>1. completed' \in Seq(Completions)
      <4>1. completed \in Seq(Completions) /\ <<>> \in Seq(Completions)
        BY DEF MembersOK
      <4> QED
        BY <2>2, <4>1, Zenon
    <3> QED
      BY <2>2, <3>1 DEF MembersOK
  <2> QED
    BY <1>4, <2>5, <2>6, <2>7, OutsideUnchanged, SocketsUnchanged DEF DispatchEvent
<1>5. ASSUME NEW c \in Conns, Accept(c) PROVE TypeInv'
  <2>1. NewSlot(TRUE) \in Slots
    BY DEF NewSlot, Slots
  <2>2. (active + 1) % SizeMod \in 0 .. SizeMod - 1
    BY FS_CardinalityType, RequestIOAssumption DEF MembersOK
  <2>3. SocketsOK'
    BY <1>5 DEF Accept, SocketsOK
  <2>4. MembersOK'
    BY <1>5, <2>1, <2>2 DEF Accept, MembersOK
  <2>5. ControlOK'
    BY <1>5 DEF Accept, ControlOK
  <2> QED
    BY <1>5, <2>3, <2>4, <2>5, OutsideUnchanged, LocalsUnchanged DEF Accept
<1>6. ASSUME NEW c \in Conns, AcceptRefuse(c) \/ AcceptFails(c) PROVE TypeInv'
  <2>1. SocketsOK'
    BY <1>6 DEF AcceptRefuse, AcceptFails, SocketsOK
  <2> QED
    BY <1>6, <2>1, OutsideUnchanged, MembersUnchanged, LocalsUnchanged, ControlUnchanged
    DEF AcceptRefuse, AcceptFails, locals, members
<1> QED
  BY <1>1, <1>2, <1>3, <1>4, <1>5, <1>6

\* The recv loop of HandleReadable.
LEMMA ReceiveTypes ==
    ASSUME TypeInv, NEW eof \in BOOLEAN, Receive(eof)
    PROVE  TypeInv'
<1> DEFINE fd == cur.fd
           c == conn[fd]
           s == PendingSlot(fd)
           buffer == s.buffer \o Unread(c)
           slot == [s EXCEPT !.buffer = buffer, !.dated = @ \/ Unread(c) # <<>>]
<1>1. fd \in Fds /\ c \in Conns /\ cur \in [fd : Fds \cup {None}, hup : BOOLEAN, eof : BOOLEAN]
  BY DEF TypeInv, ControlOK, Receive, SocketsOK, LocalsOK
<1>2. s \in Slots
  <2>1. NewSlot(FALSE) \in Slots
    BY DEF NewSlot, Slots
  <2>2. pending[fd] \in Slots \cup {None}
    BY <1>1 DEF TypeInv, MembersOK
  <2> QED
    BY <2>1, <2>2 DEF PendingSlot
<1>3. Unread(c) \in Seq(Parts)
  BY <1>1, RequestIOAssumption DEF TypeInv, OutsideOK, SocketsOK, Unread
<1>4. buffer \in Seq(Parts)
  BY <1>2, <1>3 DEF Slots
<1> HIDE DEF s, buffer
<1>5. slot \in Slots /\ slot.buffer = buffer /\ slot # None
  BY <1>2, <1>4, RequestIOAssumption DEF Slots
<1>6. /\ rcvd' = [rcvd EXCEPT ![c] = sent[c]]
      /\ pending' = [pending EXCEPT ![fd] = slot]
      /\ cur' = [cur EXCEPT !.eof = eof]
      /\ \/ RearmWait(fd) /\ Resume
         \/ buffer # <<>> /\ at' = "frame" /\ UNCHANGED armed
      /\ UNCHANGED <<outside, out, peer, conn, active, handled, completed, batch, done>>
  BY DEF Receive, s, buffer
<1> HIDE DEF slot
<1>7. SocketsOK'
  BY <1>1, <1>6, ZenonT(60) DEF TypeInv, SocketsOK, OutsideOK, RearmWait, Arm
<1>8. MembersOK'
  BY <1>1, <1>5, <1>6 DEF TypeInv, MembersOK
<1>9. cur' \in [fd : Fds \cup {None}, hup : BOOLEAN, eof : BOOLEAN] /\ cur'.fd = fd
  BY <1>1, <1>6
<1>10. LocalsOK'
  BY <1>6, <1>9 DEF TypeInv, LocalsOK
<1>11. ControlOK'
  <2>1. CASE Resume
    BY <1>1, <1>9, <2>1 DEF Resume, ControlOK
  <2>2. CASE buffer # <<>> /\ at' = "frame"
    <3>1. pending'[fd] = slot
      BY <1>1, <1>6 DEF TypeInv, MembersOK
    <3> QED
      BY <1>1, <1>5, <1>9, <2>2, <3>1 DEF ControlOK
  <2> QED
    BY <1>6, <2>1, <2>2
<1> QED
  BY <1>6, <1>7, <1>8, <1>10, <1>11, OutsideUnchanged DEF TypeInv

\* What the framing loop may rely on.
LEMMA FramingSlot ==
    ASSUME TypeInv, NEW fd \in Fds, Framing(fd)
    PROVE  /\ pending[fd] \in Slots
           /\ pending[fd].buffer \in Seq(Parts) /\ pending[fd].buffer # <<>>
           /\ RequestLen(pending[fd]) \in Nat \ {0}
           /\ Advanced(pending[fd]) \in Slots
           /\ Leftover(pending[fd]) \in Seq(Parts)
<1> DEFINE s == pending[fd]
<1>1. s \in Slots
  BY DEF TypeInv, MembersOK, ControlOK, Framing
<1>2. s.buffer \in Seq(Parts) /\ s.buffer # <<>> /\ s.expected \in Nat
  BY <1>1 DEF TypeInv, ControlOK, Framing, Slots
<1>3. s.buffer[1] \in Parts
  BY <1>2
<1> HIDE DEF s
<1>4. RequestLen(s) \in Nat \ {0}
  BY <1>2, <1>3 DEF RequestLen, Parts
<1>5. Leftover(s) \in Seq(Parts)
  BY <1>2, <1>4 DEF Leftover
<1>6. Advanced(s) \in Slots
  BY <1>1, <1>5 DEF Advanced, Slots
<1> QED
  BY <1>1, <1>2, <1>4, <1>5, <1>6 DEF s

\* The first request of the buffer as a task.
LEMMA TaskType ==
    ASSUME TypeInv, NEW fd \in Fds, Framing(fd)
    PROVE  Task(fd) \in Tasks
<1>1. pending[fd].buffer[1] \in Parts
  BY FramingSlot
<1> QED
  BY <1>1 DEF Task, Tasks, Parts

\* The framing loop of HandleReadable, and the errors of its recv loop.
LEMMA FrameTypes ==
    ASSUME TypeInv,
           \/ ReceiveError \/ ReceiveTooLarge
           \/ \E fd \in Fds : \/ FrameReject(fd) \/ FrameWait(fd)
                              \/ FrameDispatch(fd) \/ FrameShed(fd) \/ FrameServe(fd)
    PROVE  TypeInv'
<1>1. ASSUME NEW fd \in Fds, fd = cur.fd, Reject(fd), Resume,
             UNCHANGED <<outside, rcvd, completed, locals>>
      PROVE  TypeInv'
  BY <1>1, RejectType, ResumeType, OutsideUnchanged, LocalsUnchanged DEF TypeInv, locals
<1>2. CASE ReceiveError \/ ReceiveTooLarge
  BY <1>1, <1>2 DEF ReceiveError, ReceiveTooLarge, TypeInv, ControlOK
<1>3. ASSUME NEW fd \in Fds, FrameReject(fd) \/ FrameShed(fd) PROVE TypeInv'
  BY <1>1, <1>3 DEF FrameReject, FrameShed, Shed, Framing
<1>4. ASSUME NEW fd \in Fds, FrameWait(fd) PROVE TypeInv'
  <2>1. Framing(fd) /\ fd = cur.fd
    BY <1>4 DEF FrameWait, Framing
  <2>2. [pending[fd] EXCEPT !.expected = RequestLen(pending[fd])] \in Slots
    BY <2>1, FramingSlot DEF Slots
  <2>3. MembersOK'
    BY <1>4, <2>2 DEF TypeInv, MembersOK, FrameWait, Expected
  <2>4. SocketsOK'
    BY <1>4 DEF TypeInv, SocketsOK, FrameWait, RearmWait, Arm
  <2> QED
    BY <1>4, <2>1, <2>3, <2>4, ResumeType, OutsideUnchanged, LocalsUnchanged
    DEF TypeInv, FrameWait, locals
<1>5. ASSUME NEW fd \in Fds, FrameDispatch(fd) PROVE TypeInv'
  <2>1. Framing(fd) /\ fd = cur.fd
    BY <1>5 DEF FrameDispatch, Framing
  <2>2. Append(queue, Task(fd)) \in Seq(Tasks)
    BY <2>1, TaskType DEF TypeInv, OutsideOK
  <2>3. OutsideOK'
    BY <1>5, <2>2 DEF TypeInv, OutsideOK, FrameDispatch
  <2>4. Dispatched(pending[fd]) \in Slots \cup {None}
    <3>1. Advanced(pending[fd]) \in Slots
      BY <2>1, FramingSlot
    <3>2. [Advanced(pending[fd]) EXCEPT !.dispatching = TRUE] \in Slots
      BY <3>1 DEF Slots
    <3> QED
      BY <3>2 DEF Dispatched
  <2>5. MembersOK'
    BY <1>5, <2>4 DEF TypeInv, MembersOK, FrameDispatch
  <2> QED
    BY <1>5, <2>1, <2>3, <2>5, ResumeType, SocketsUnchanged, LocalsUnchanged
    DEF TypeInv, FrameDispatch, locals
<1>6. ASSUME NEW fd \in Fds, FrameServe(fd) PROVE TypeInv'
  <2> DEFINE t == Task(fd)
             s == Advanced(pending[fd])
             slot == [s EXCEPT !.dated = TRUE]
  <2>1. Framing(fd) /\ fd = cur.fd
    BY <1>6 DEF FrameServe, Framing
  <2>2. <<t.conn, t.req>> \in (Conns \cup {None}) \X Nat
    BY <2>1, TaskType DEF Tasks
  <2>3. s \in Slots
    BY <2>1, FramingSlot
  <2>4. out' \in [Conns -> Seq((Conns \cup {None}) \X Nat)]
    BY <1>6, <2>2, ReplyAllType DEF TypeInv, FrameServe
  <2> HIDE DEF s
  <2>5. slot \in Slots /\ slot.buffer = s.buffer /\ slot # None
    BY <2>3, RequestIOAssumption DEF Slots
  <2> HIDE DEF slot
  <2>6. /\ handled' = TRUE
        /\ UNCHANGED <<outside, rcvd, completed, locals>>
        /\ \/ pending' = [pending EXCEPT ![fd] = slot] /\ UNCHANGED <<peer, conn, armed, active>>
           \/ Release(fd)
        /\ \/ at' = at /\ s.buffer # <<>> /\ pending' = [pending EXCEPT ![fd] = slot]
           \/ Resume
    BY <1>6 DEF FrameServe, s, slot
  <2>7. SocketsOK' /\ MembersOK'
    <3>1. CASE pending' = [pending EXCEPT ![fd] = slot] /\ UNCHANGED <<peer, conn, armed, active>>
      BY <2>4, <2>5, <2>6, <3>1 DEF TypeInv, SocketsOK, MembersOK
    <3>2. CASE Release(fd)
      <4>1. /\ conn' \in [Fds -> Conns \cup {None}]
            /\ armed' \in [Fds -> BOOLEAN]
            /\ peer' \in [Conns -> {"new", "backlog", "open", "closed"}]
            /\ pending' \in [Fds -> Slots \cup {None}]
            /\ active' \in 0 .. SizeMod - 1
        BY <3>2, ReleaseType DEF TypeInv
      <4> QED
        BY <4>1, <2>4, <2>6 DEF TypeInv, SocketsOK, MembersOK
    <3> QED
      BY <2>6, <3>1, <3>2
  <2>8. ControlOK'
    <3>1. CASE at' = at /\ s.buffer # <<>> /\ pending' = [pending EXCEPT ![fd] = slot]
      <4>1. pending'[fd] = slot
        BY <3>1 DEF TypeInv, MembersOK
      <4> QED
        BY <2>1, <2>5, <2>6, <3>1, <4>1 DEF TypeInv, ControlOK, locals
    <3>2. CASE Resume
      BY <2>1, <2>6, <3>2, ResumeType DEF locals
    <3> QED
      BY <2>6, <3>1, <3>2
  <2> QED
    BY <2>6, <2>7, <2>8, OutsideUnchanged, LocalsUnchanged DEF TypeInv
<1> QED
  BY <1>2, <1>3, <1>4, <1>5, <1>6

\* The workers' steps.
LEMMA WorkerTypes ==
    ASSUME TypeInv, NEW w \in Workers, Worker(w)
    PROVE  TypeInv'
<1> USE DEF TypeInv
<1>1. CASE WorkerPop(w)
  <2>1. Head(queue) \in Tasks /\ Tail(queue) \in Seq(Tasks)
    BY <1>1 DEF WorkerPop, OutsideOK
  <2>2. [task |-> Head(queue), replied |-> FALSE] \in Serving
    BY <2>1 DEF Serving
  <2>3. OutsideOK'
    BY <1>1, <2>1, <2>2 DEF WorkerPop, OutsideOK
  <2> QED
    BY <1>1, <2>3, SocketsUnchanged, MembersUnchanged, LocalsUnchanged, ControlUnchanged
    DEF WorkerPop, locals, members
<1>2. CASE WorkerReply(w)
  <2> DEFINE t == serving[w].task
  <2>1. serving[w] \in Serving
    BY <1>2 DEF WorkerReply, OutsideOK
  <2>2. <<t.conn, t.req>> \in (Conns \cup {None}) \X Nat
    BY <2>1 DEF Serving, Tasks
  <2>3. [serving[w] EXCEPT !.replied = TRUE] \in Serving
    BY <2>1 DEF Serving
  <2>4. OutsideOK'
    BY <1>2, <2>3 DEF WorkerReply, OutsideOK
  <2>5. out' \in [Conns -> Seq((Conns \cup {None}) \X Nat)]
    BY <1>2, <2>2, ReplyAllType DEF WorkerReply
  <2>6. SocketsOK' /\ MembersOK'
    BY <1>2, <2>5 DEF WorkerReply, SocketsOK, MembersOK
  <2> QED
    BY <1>2, <2>4, <2>6, LocalsUnchanged, ControlUnchanged DEF WorkerReply, locals
<1>3. CASE WorkerComplete(w)
  <2> DEFINE t == serving[w].task
  <2>1. t \in Tasks
    BY <1>3 DEF WorkerComplete, OutsideOK, Serving
  <2>2. KeepsAlive(t.kind) \in BOOLEAN
    BY DEF KeepsAlive
  <2>3. [fd |-> t.fd, keep_alive |-> KeepsAlive(t.kind)] \in Completions
    BY <2>1, <2>2, Zenon DEF Completions, Tasks
  <2>4. MembersOK'
    BY <1>3, <2>3 DEF WorkerComplete, MembersOK
  <2>5. OutsideOK'
    BY <1>3 DEF WorkerComplete, OutsideOK
  <2> QED
    BY <1>3, <2>4, <2>5, SocketsUnchanged, LocalsUnchanged, ControlUnchanged
    DEF WorkerComplete, locals
<1> QED
  BY <1>1, <1>2, <1>3 DEF Worker

\* DrainCompletions.
LEMMA DrainTypes ==
    ASSUME TypeInv, DrainClose \/ DrainRearm
    PROVE  TypeInv'
<1> USE DEF TypeInv
<1> DEFINE fd == Head(done).fd
<1>1. fd \in Fds /\ Tail(done) \in Seq(Completions) /\ at = "dispatch"
  <2>1. done # <<>> /\ at = "dispatch"
    BY DEF DrainClose, DrainRearm
  <2>2. Head(done) \in Completions /\ Tail(done) \in Seq(Completions)
    BY <2>1 DEF LocalsOK
  <2> QED
    BY <2>1, <2>2 DEF Completions
<1>2. CASE DrainClose
  <2>1. /\ conn' \in [Fds -> Conns \cup {None}]
        /\ armed' \in [Fds -> BOOLEAN]
        /\ peer' \in [Conns -> {"new", "backlog", "open", "closed"}]
        /\ pending' \in [Fds -> Slots \cup {None}]
        /\ active' \in 0 .. SizeMod - 1
    BY <1>1, <1>2, ReleaseType DEF DrainClose
  <2>2. SocketsOK' /\ MembersOK'
    BY <1>2, <2>1 DEF DrainClose, SocketsOK, MembersOK
  <2>3. LocalsOK' /\ ControlOK'
    BY <1>1, <1>2 DEF DrainClose, LocalsOK, ControlOK
  <2> QED
    BY <1>2, <2>2, <2>3, OutsideUnchanged DEF DrainClose
<1>3. CASE DrainRearm
  <2> DEFINE s == PendingSlot(fd)
             slot == [s EXCEPT !.dated = TRUE, !.expected = 0, !.dispatching = FALSE]
  <2>1. s \in Slots
    <3>1. NewSlot(FALSE) \in Slots
      BY DEF NewSlot, Slots
    <3>2. pending[fd] \in Slots \cup {None}
      BY <1>1 DEF MembersOK
    <3> QED
      BY <3>1, <3>2 DEF PendingSlot
  <2> HIDE DEF s
  <2>2. slot \in Slots
    BY <2>1 DEF Slots
  <2>3. /\ done' = Tail(done)
        /\ pending' = [pending EXCEPT ![fd] = slot]
        /\ Arm(fd)
        /\ \/ at' = "receive" /\ cur' = [fd |-> fd, hup |-> FALSE, eof |-> FALSE]
           \/ UNCHANGED <<at, cur>>
        /\ UNCHANGED <<outside, rcvd, out, peer, conn, active, handled, completed, batch>>
    BY <1>3 DEF DrainRearm, s
  <2> HIDE DEF slot
  <2>4. SocketsOK' /\ MembersOK'
    BY <1>1, <2>2, <2>3 DEF Arm, SocketsOK, MembersOK
  <2>5. cur' \in [fd : Fds \cup {None}, hup : BOOLEAN, eof : BOOLEAN]
    <3>1. CASE cur' = [fd |-> fd, hup |-> FALSE, eof |-> FALSE]
      BY <1>1, <3>1
    <3> QED
      BY <2>3, <3>1 DEF LocalsOK
  <2>6. LocalsOK' /\ ControlOK'
    BY <1>1, <2>3, <2>5 DEF LocalsOK, ControlOK
  <2> QED
    BY <2>3, <2>4, <2>6, OutsideUnchanged
<1> QED
  BY <1>2, <1>3

\* SweepStale, setListenStatus and shutdown.
LEMMA EndTypes ==
    ASSUME TypeInv,
           \/ \E expired \in SUBSET Fds : Sweep(expired)
           \/ StopListening \/ ShutdownKill \/ ShutdownClose
    PROVE  TypeInv'
<1> USE DEF TypeInv
<1>1. ASSUME NEW S \in SUBSET Fds PROVE Cardinality(S) \in Nat
  BY FS_Subset, FS_CardinalityType, RequestIOAssumption
<1>2. ASSUME NEW expired \in SUBSET Fds, Sweep(expired) PROVE TypeInv'
  <2>1. active' \in 0 .. SizeMod - 1
    <3>1. active \in Nat /\ Cardinality(expired) \in Nat
      BY <1>1 DEF MembersOK
    <3>2. active' = Minus(active, Cardinality(expired))
      BY <1>2 DEF Sweep
    <3> QED
      BY <3>1, <3>2, MinusType
  <2>2. /\ conn' \in [Fds -> Conns \cup {None}]
        /\ armed' \in [Fds -> BOOLEAN]
        /\ peer' \in [Conns -> {"new", "backlog", "open", "closed"}]
        /\ out' \in [Conns -> Seq((Conns \cup {None}) \X Nat)]
    BY <1>2, CloseAllType, ReplyAllType, ErrorReplyType DEF Sweep
  <2>3. handled' \in BOOLEAN
    BY <1>2, Zenon DEF Sweep
  <2>4. SocketsOK' /\ MembersOK'
    BY <1>2, <2>1, <2>2, <2>3 DEF Sweep, SocketsOK, MembersOK
  <2>5. ControlOK'
    BY <1>2 DEF Sweep, ControlOK
  <2> QED
    BY <1>2, <2>4, <2>5, OutsideUnchanged, LocalsUnchanged DEF Sweep
<1>3. CASE StopListening
  <2>1. OutsideOK'
    BY <1>3 DEF StopListening, OutsideOK
  <2> QED
    BY <1>3, <2>1, SocketsUnchanged, MembersUnchanged, LocalsUnchanged, ControlUnchanged
    DEF StopListening, locals, members
<1>4. CASE ShutdownKill
  <2>1. ControlOK'
    BY <1>4 DEF ShutdownKill, ControlOK
  <2> QED
    BY <1>4, <2>1, OutsideUnchanged, SocketsUnchanged, MembersUnchanged, LocalsUnchanged
    DEF ShutdownKill
<1>5. CASE ShutdownClose
  <2> DEFINE left == {fd \in Fds \ CompletedFds : pending[fd] # None}
  <2>1. Len(completed) + Cardinality(left) \in Nat
    BY <1>1 DEF MembersOK
  <2>2. active' \in 0 .. SizeMod - 1
    BY <1>5, <2>1, MinusType DEF ShutdownClose, MembersOK
  <2>3. /\ conn' \in [Fds -> Conns \cup {None}]
        /\ armed' \in [Fds -> BOOLEAN]
        /\ peer' \in [Conns -> {"new", "backlog", "open", "closed"}]
    BY <1>5, CloseAllType DEF ShutdownClose
  <2>4. pending' \in [Fds -> Slots \cup {None}] /\ completed' \in Seq(Completions)
    BY <1>5 DEF ShutdownClose
  <2>5. SocketsOK' /\ MembersOK' /\ ControlOK'
    BY <1>5, <2>2, <2>3, <2>4 DEF ShutdownClose, SocketsOK, MembersOK, ControlOK
  <2> QED
    BY <1>5, <2>5, OutsideUnchanged, LocalsUnchanged DEF ShutdownClose
<1> QED
  BY <1>2, <1>3, <1>4, <1>5

LEMMA TypeInductive == Spec => []TypeInv
<1>1. Init => TypeInv
  <2> SUFFICES ASSUME Init PROVE TypeInv
    OBVIOUS
  <2>1. OutsideOK
    BY RequestIOAssumption DEF Init, OutsideOK
  <2>2. SocketsOK
    BY DEF Init, SocketsOK
  <2>3. SizeMod \in Nat /\ SizeMod > 0
    BY FS_CardinalityType, RequestIOAssumption
  <2>4. MembersOK
    <3>1. completed \in Seq(Completions)
      <4>1. completed = <<>> /\ <<>> \in Seq(Completions)
        BY DEF Init
      <4> QED
        BY <4>1, Zenon
    <3>2. pending \in [Fds -> Slots \cup {None}]
      <4>1. pending = [fd \in Fds |-> None]
        BY DEF Init
      <4> QED
        BY <4>1
    <3>3. active \in 0 .. SizeMod - 1 /\ handled \in BOOLEAN
      <4>1. active = 0 /\ handled = FALSE
        BY DEF Init
      <4>2. 0 \in 0 .. SizeMod - 1
        BY <2>3
      <4> QED
        BY <4>1, <4>2, Zenon
    <3> QED
      BY <3>1, <3>2, <3>3 DEF MembersOK
  <2>5. LocalsOK /\ ControlOK
    BY DEF Init, LocalsOK, ControlOK
  <2> QED
    BY <2>1, <2>2, <2>4, <2>5 DEF TypeInv
<1>2. TypeInv /\ [Next]_vars => TypeInv'
  <2> SUFFICES ASSUME TypeInv, [Next]_vars PROVE TypeInv'
    OBVIOUS
  <2>1. CASE UNCHANGED vars
    BY <2>1, OutsideUnchanged, SocketsUnchanged, MembersUnchanged, LocalsUnchanged,
       ControlUnchanged DEF vars, TypeInv, locals, members
  <2>2. CASE Loop
    BY <2>2, DispatchTypes, ReceiveTypes, FrameTypes, DrainTypes, EndTypes
    DEF Loop, HandleReadable
  <2> QED
    BY <2>1, <2>2, ClientTypes, WorkerTypes, DispatchTypes, EndTypes DEF Next, Terminated
<1> QED
  BY <1>1, <1>2, PTL DEF Spec

\* The members of RequestIO, the kernel's tables and the loop's locals keep
\* their types: in particular active_connections_ is a size_t whatever is
\* subtracted from it, and no handler works on a descriptor that is none.
THEOREM TypeCorrect == Spec => []TypeOK
BY TypeInductive, TypeInvImpliesTypeOK, PTL

-----------------------------------------------------------------------------
(* Who holds a connection, and how far its conversation has come.  Tasks   *)
(* and completions that are on their way round the pool hold a descriptor, *)
(* each of another one; the loop holds those that pending_ has a slot for. *)
(* The invariant is inductive in inline mode, and in pool mode if clients  *)
(* wait for a response before they send their next request: a pipelined    *)
(* request breaks it (findings 1 and 2 of the README).                     *)

InTurn == Pooled = FALSE \/ Pipelining = FALSE

FdsOf(s) == {s[i].fd : i \in DOMAIN s}
Distinct(s) == \A i, j \in DOMAIN s : s[i].fd = s[j].fd => i = j

Served == {w \in Workers : serving[w] # None}
ServedFds == {serving[w].task.fd : w \in Served}
DoneFds == FdsOf(completed) \cup FdsOf(done)
Away == FdsOf(queue) \cup ServedFds \cup DoneFds

\* No two tasks or completions are about the same descriptor.
TokenInv ==
    /\ Distinct(queue) /\ Distinct(completed) /\ Distinct(done)
    /\ \A v, w \in Served : serving[v].task.fd = serving[w].task.fd => v = w
    /\ FdsOf(queue) \cap ServedFds = {}
    /\ (FdsOf(queue) \cup ServedFds) \cap DoneFds = {}
    /\ FdsOf(completed) \cap FdsOf(done) = {}

\* An open descriptor has a slot or is away, a closed one neither; epoll
\* watches those with a slot only.
HandInv ==
    \A fd \in Fds :
        /\ conn[fd] # None <=> pending[fd] # None \/ fd \in Away
        /\ pending[fd] # None => fd \notin Away /\ ~pending[fd].dispatching
        /\ armed[fd] => pending[fd] # None

\* Each open descriptor belongs to one connection, which is open, and one that
\* was not accepted yet has no history.
PeerInv ==
    /\ \A fd \in Fds : conn[fd] # None => peer[conn[fd]] = "open"
    /\ \A fd, g \in Fds : conn[fd] # None /\ conn[fd] = conn[g] => fd = g
    /\ \A c \in Conns : peer[c] \in {"new", "backlog"} => rcvd[c] = 0 /\ out[c] = <<>>

CountInv == active = Cardinality(Open) /\ HardCap

\* A handler works on a descriptor that has a slot, and no later event of the
\* batch is about the same one; every event is about the connection it was
\* reported for.  EPOLLONESHOT: in pool mode the descriptors are disarmed.
BatchInv ==
    /\ at \in {"receive", "frame"} => pending[cur.fd] # None /\ (Pooled => ~armed[cur.fd])
    /\ at \in {"epoll_wait", "sweep", "kill", "close", "stopped"} => batch = {}
    /\ \A e \in batch : e.kind = "client" =>
          /\ pending[e.fd] # None /\ e.conn = conn[e.fd] /\ (Pooled => ~armed[e.fd])
          /\ at \in {"receive", "frame", "hangup"} => e.fd # cur.fd
    /\ \A e, f \in batch :
          e.kind = "client" /\ f.kind = "client" /\ e.fd = f.fd => e = f

\* The first k parts of a stream are its first n requests.
Aligned(c, k, n) ==
    /\ k < Len(Stream[c]) => Stream[c][k + 1].req = n + 1 /\ Stream[c][k + 1].part = 1
    /\ k > 0 => Stream[c][k].req = n

\* A client that waits has sent parts of its next request at most.
SentInv ==
    \A c \in Conns :
        /\ rcvd[c] <= sent[c]
        /\ Pooled => \A j \in 1 .. sent[c] : Stream[c][j].req <= Len(out[c]) + 1

\* The buffer of a slot is what was received, r parts, and not answered by the
\* n responses.
Held(s, c, r, n) ==
    /\ Len(s.buffer) <= r
    /\ \A i \in 1 .. Len(s.buffer) : s.buffer[i] = Stream[c][r - Len(s.buffer) + i]
    /\ Aligned(c, r - Len(s.buffer), n)
    /\ s.expected # 0 => s.buffer # <<>> /\ s.expected = s.buffer[1].parts

HeldInv ==
    \A fd \in Fds : pending[fd] # None =>
        Held(pending[fd], conn[fd], rcvd[conn[fd]], Len(out[conn[fd]]))

\* The request of a task is the next to be answered, n = 1, or the last that
\* was, n = 0, and nothing after it has been received.
InHand(t, n) ==
    /\ conn[t.fd] = t.conn
    /\ t.req = Len(out[t.conn]) + n
    /\ Aligned(t.conn, rcvd[t.conn], t.req)

TaskInv ==
    /\ \A i \in DOMAIN queue : InHand(queue[i], 1)
    /\ \A w \in Served : InHand(serving[w].task, IF serving[w].replied THEN 0 ELSE 1)
    /\ \A fd \in DoneFds : Aligned(conn[fd], rcvd[conn[fd]], Len(out[conn[fd]]))

\* An error response ends its connection.
OutInv ==
    \A c \in Conns : \A i \in DOMAIN out[c] :
        \/ out[c][i] = <<c, i>>
        \/ out[c][i] = ErrorReply /\ i = Len(out[c]) /\ peer[c] = "closed"

\* Completions are worked off before anything else, and the workers before the
\* connections are closed.
EndInv ==
    /\ done # <<>> => at = "dispatch"
    /\ at \in {"close", "stopped"} => queue = <<>> /\ Served = {}
    /\ at = "stopped" => Open = {} /\ completed = <<>>

TalkInv == SentInv /\ HeldInv /\ TaskInv /\ OutInv
OwnerInv == TokenInv /\ HandInv /\ PeerInv /\ CountInv /\ BatchInv /\ TalkInv /\ EndInv

-----------------------------------------------------------------------------
(* Streams *)

LEMMA StreamType ==
    ASSUME NEW c \in Conns
    PROVE  /\ Stream[c] \in Seq(Parts) /\ Len(Stream[c]) \in Nat
           /\ \A i \in 1 .. Len(Stream[c]) :
                 /\ Stream[c][i].req \in Nat \ {0} /\ Stream[c][i].part \in Nat \ {0}
                 /\ Stream[c][i].parts \in Nat \ {0} /\ Stream[c][i].kind \in Kinds
<1>1. Stream[c] \in Seq(Parts)
  BY RequestIOAssumption
<1>2. \A i \in 1 .. Len(Stream[c]) : Stream[c][i] \in Parts
  BY <1>1
<1> QED
  BY <1>1, <1>2 DEF Parts

\* The parts of a request follow each other.
LEMMA PartsInRow ==
    ASSUME NEW c \in Conns, NEW i \in 1 .. Len(Stream[c]), NEW k \in Nat,
           i + k <= Len(Stream[c]), Stream[c][i].part + k <= Stream[c][i].parts
    PROVE  /\ Stream[c][i + k].part = Stream[c][i].part + k
           /\ Stream[c][i + k].parts = Stream[c][i].parts
           /\ Stream[c][i + k].req = Stream[c][i].req
<1> DEFINE s == Stream[c]
           Same(n) == /\ s[i + n].part = s[i].part + n
                      /\ s[i + n].parts = s[i].parts /\ s[i + n].req = s[i].req
           T == {n \in Nat : i + n <= Len(s) /\ s[i].part + n <= s[i].parts => Same(n)}
<1>1. i \in Nat /\ i > 0 /\ Len(s) \in Nat /\ s[i].part \in Nat /\ s[i].parts \in Nat
  BY StreamType
<1>2. \A j \in 1 .. Len(s) - 1 : s[j].part < s[j].parts =>
         /\ s[j + 1].part = s[j].part + 1 /\ s[j + 1].parts = s[j].parts /\ s[j + 1].req = s[j].req
  <2> SUFFICES ASSUME NEW j \in 1 .. Len(s) - 1, s[j].part < s[j].parts
               PROVE  /\ s[j + 1].part = s[j].part + 1
                      /\ s[j + 1].parts = s[j].parts /\ s[j + 1].req = s[j].req
    OBVIOUS
  <2>1. s[j] \in Parts
    BY <1>1, StreamType
  <2>2. s[j + 1] = [s[j] EXCEPT !.part = @ + 1]
    BY StreamAssumption
  <2> QED
    BY <2>1, <2>2 DEF Parts
<1> HIDE DEF s
<1>3. 0 \in T
  BY <1>1
<1> DEFINE first == s[i].part
           all == s[i].parts
           l == Len(s)
<1>1a. i \in Nat /\ i > 0 /\ l \in Nat /\ first \in Nat /\ all \in Nat
  BY <1>1
<1>4. ASSUME NEW n \in Nat, n \in T, i + (n + 1) <= l, first + (n + 1) <= all
      PROVE  Same(n + 1)
  <2>1. \A a, b, m \in Nat : a + (m + 1) <= b => a + m <= b /\ a + m < b
    OBVIOUS
  <2>2. \A a, b, m \in Nat : a > 0 /\ a + (m + 1) <= b => a + m \in 1 .. b - 1
    OBVIOUS
  <2>3. \A a, m \in Nat : (a + m) + 1 = a + (m + 1)
    OBVIOUS
  <2>4. i + n <= l /\ first + n <= all /\ first + n < all /\ i + n \in 1 .. l - 1
    <3> HIDE DEF first, all, l, T, Same
    <3> QED
      BY <1>1a, <1>4, <2>1, <2>2
  <2>5. Same(n)
    <3> HIDE DEF Same
    <3> QED
      BY <1>4, <2>4
  <2>6. /\ s[(i + n) + 1].part = (first + n) + 1
        /\ s[(i + n) + 1].parts = all /\ s[(i + n) + 1].req = s[i].req
    <3>1. s[i + n].part < s[i + n].parts
      BY <2>4, <2>5
    <3> QED
      BY <1>2, <2>4, <2>5, <3>1, Zenon
  <2>7. (i + n) + 1 = i + (n + 1) /\ (first + n) + 1 = first + (n + 1)
    <3> HIDE DEF first, all, l, T, Same
    <3> QED
      BY <1>1a, <1>4, <2>3, Zenon
  <2>8. /\ s[i + (n + 1)].part = first + (n + 1)
        /\ s[i + (n + 1)].parts = all /\ s[i + (n + 1)].req = s[i].req
    <3> HIDE DEF first, all, T, Same
    <3> QED
      BY <2>6, <2>7, Zenon
  <2> QED
    BY <2>8, Zenon
<1>5. \A n \in Nat : n \in T => n + 1 \in T
  <2>1. ASSUME NEW n \in Nat, n \in T
        PROVE  i + (n + 1) <= Len(s) /\ s[i].part + (n + 1) <= s[i].parts => Same(n + 1)
    BY <1>4, <2>1, Zenon
  <2>2. \A n \in Nat : n + 1 \in Nat
    OBVIOUS
  <2> HIDE DEF Same
  <2> QED
    BY <2>1, <2>2
<1>6. Nat \subseteq T
  <2> HIDE DEF T
  <2> QED
    BY <1>3, <1>5, SetInduction
<1> QED
  BY <1>6 DEF s

\* Behind the last part of a request the next request begins.
LEMMA NextAligned ==
    ASSUME NEW c \in Conns, NEW k \in Nat, NEW n \in Nat, Aligned(c, k, n), k < Len(Stream[c]),
           k + Stream[c][k + 1].parts <= Len(Stream[c])
    PROVE  Aligned(c, k + Stream[c][k + 1].parts, n + 1)
<1> DEFINE s == Stream[c]
           p == s[k + 1].parts
<1>1. k + 1 \in 1 .. Len(s) /\ p \in Nat \ {0} /\ Len(s) \in Nat
  BY StreamType
<1>2. s[k + 1].part = 1 /\ s[k + 1].req = n + 1
  BY DEF Aligned
<1> DEFINE i == k + 1
           m == p - 1
<1>3. i \in 1 .. Len(s) /\ m \in Nat /\ i + m <= Len(s) /\ s[i].part + m <= s[i].parts
  BY <1>1, <1>2, SMTT(40)
<1>4. s[i + m].part = s[i].part + m /\ s[i + m].parts = s[i].parts /\ s[i + m].req = s[i].req
  <2> HIDE DEF i, m
  <2> QED
    BY <1>3, PartsInRow
<1>5. i + m = k + p /\ s[i].part + m = p
  <2> HIDE DEF p, s
  <2> QED
    BY <1>1, <1>2
<1>6. s[k + p].part = p /\ s[k + p].parts = p /\ s[k + p].req = n + 1
  BY <1>2, <1>4, <1>5
<1>7. ASSUME k + p < Len(s)
      PROVE  s[(k + p) + 1].req = s[k + p].req + 1 /\ s[(k + p) + 1].part = 1
  <2> DEFINE j == k + p
  <2>1. j \in 1 .. Len(s) - 1 /\ ~(s[j].part < s[j].parts)
    BY <1>1, <1>6, <1>7
  <2> HIDE DEF j
  <2>2. s[j + 1].req = s[j].req + 1 /\ s[j + 1].part = 1
    BY <2>1, StreamAssumption
  <2> QED
    BY <2>2 DEF j
<1> QED
  BY <1>6, <1>7 DEF Aligned
\* Open is finite, and smaller than a size_t can count.
LEMMA OpenFinite ==
    /\ IsFiniteSet(Open) /\ Cardinality(Open) \in Nat /\ Cardinality(Open) < SizeMod
    /\ SizeMod \in Nat
    /\ \A S \in SUBSET Open : IsFiniteSet(S) /\ Cardinality(S) \in Nat
<1>1. IsFiniteSet(Fds) /\ Cardinality(Fds) \in Nat /\ Cardinality(Fds) < SizeMod /\ SizeMod \in Nat
  BY FS_CardinalityType, RequestIOAssumption
<1>2. Open \in SUBSET Fds
  BY DEF Open
<1>3. IsFiniteSet(Open) /\ Cardinality(Open) <= Cardinality(Fds)
  BY <1>1, <1>2, FS_Subset
<1>4. Cardinality(Open) \in Nat
  BY <1>3, FS_CardinalityType
<1>5. \A S \in SUBSET Open : IsFiniteSet(S)
  BY <1>3, FS_Subset
<1> QED
  BY <1>1, <1>3, <1>4, <1>5, FS_CardinalityType

\* The counter and the set of open descriptors when a set of them is closed.
LEMMA CloseCounts ==
    ASSUME TypeInv, CountInv, NEW S \in SUBSET Open, CloseAll(S),
           active' = Minus(active, Cardinality(S))
    PROVE  CountInv'
<1>1. Open' = Open \ S
  BY DEF CloseAll, Open, TypeInv, SocketsOK
<1>2. Open \cap S = S
  OBVIOUS
<1>3. /\ Cardinality(Open \ S) = Cardinality(Open) - Cardinality(S)
      /\ IsFiniteSet(Open \ S)
  BY <1>2, OpenFinite, FS_Difference
<1>4. Cardinality(S) \in Nat /\ Cardinality(Open \ S) \in Nat
  BY <1>3, OpenFinite, FS_CardinalityType
<1>5. Cardinality(Open) - Cardinality(S) \in 0 .. SizeMod - 1
  BY <1>3, <1>4, OpenFinite
<1>6. (Cardinality(Open) - Cardinality(S)) % SizeMod = Cardinality(Open) - Cardinality(S)
  BY <1>5, OpenFinite
<1>7. active' = Cardinality(Open')
  BY <1>1, <1>3, <1>6 DEF Minus, CountInv
<1>8. Cardinality(Open') <= Cardinality(Open)
  BY <1>1, <1>3, <1>4, OpenFinite
<1>9. MaxConnections # 0 => Cardinality(Open') <= MaxConnections
  <2>1. Cardinality(Open') \in Nat /\ Cardinality(Open) \in Nat /\ MaxConnections \in Nat
    BY <1>1, <1>4, OpenFinite, RequestIOAssumption
  <2>2. MaxConnections # 0 => Cardinality(Open) <= MaxConnections
    BY DEF CountInv, HardCap
  <2> QED
    BY <1>8, <2>1, <2>2
<1> QED
  BY <1>7, <1>9 DEF CountInv, HardCap

-----------------------------------------------------------------------------
(* Tasks and completions on their way *)

LEMMA AppendFds ==
    ASSUME NEW S, NEW s \in Seq(S), NEW e \in S, Distinct(s), e.fd \notin FdsOf(s)
    PROVE  FdsOf(Append(s, e)) = FdsOf(s) \cup {e.fd} /\ Distinct(Append(s, e))
<1> DEFINE a == Append(s, e)
<1>1. /\ DOMAIN s = 1 .. Len(s) /\ DOMAIN a = 1 .. Len(s) + 1 /\ Len(s) \in Nat
      /\ \A i \in 1 .. Len(s) : a[i] = s[i]
      /\ a[Len(s) + 1] = e
  BY AppendProperties, LenProperties
<1> HIDE DEF a
<1>2. FdsOf(a) = FdsOf(s) \cup {e.fd}
  BY <1>1 DEF FdsOf
<1>3. Distinct(a)
  BY <1>1 DEF Distinct, FdsOf
<1> QED
  BY <1>2, <1>3 DEF a

LEMMA TailFds ==
    ASSUME NEW S, NEW s \in Seq(S), s # <<>>, Distinct(s)
    PROVE  /\ FdsOf(Tail(s)) = FdsOf(s) \ {Head(s).fd} /\ Distinct(Tail(s))
           /\ Head(s).fd \in FdsOf(s)
<1> DEFINE t == Tail(s)
<1>1. /\ DOMAIN s = 1 .. Len(s) /\ Len(s) \in Nat \ {0}
      /\ t \in Seq(S) /\ Len(t) = Len(s) - 1
      /\ \A i \in 1 .. Len(t) : t[i] = s[i + 1]
      /\ Head(s) = s[1]
  BY EmptySeq, HeadTailProperties, LenProperties
<1>2. DOMAIN t = 1 .. Len(s) - 1
  BY <1>1, LenProperties
<1> HIDE DEF t
<1>3. \A i \in DOMAIN t : i + 1 \in DOMAIN s /\ t[i] = s[i + 1] /\ i + 1 # 1
  BY <1>1, <1>2
<1>4. \A i \in DOMAIN s : i # 1 => i - 1 \in DOMAIN t /\ t[i - 1] = s[i]
  BY <1>1, <1>2
<1>5. Distinct(t)
  BY <1>1, <1>2, <1>3 DEF Distinct
<1>6. FdsOf(t) \subseteq FdsOf(s) \ {s[1].fd}
  BY <1>1, <1>3 DEF FdsOf, Distinct
<1>7. FdsOf(s) \ {s[1].fd} \subseteq FdsOf(t)
  <2> SUFFICES ASSUME NEW i \in DOMAIN s, s[i].fd # s[1].fd PROVE s[i].fd \in FdsOf(t)
    BY DEF FdsOf
  <2>1. i # 1
    OBVIOUS
  <2>2. i - 1 \in DOMAIN t /\ t[i - 1].fd = s[i].fd
    BY <1>4, <2>1
  <2> QED
    BY <2>2 DEF FdsOf
<1>8. 1 \in DOMAIN s /\ s[1].fd \in FdsOf(s)
  BY <1>1 DEF FdsOf
<1> QED
  BY <1>1, <1>5, <1>6, <1>7, <1>8 DEF t

\* As many completions, each of another descriptor, as descriptors.
LEMMA DistinctCount ==
    ASSUME NEW S, NEW s \in Seq(S), Distinct(s)
    PROVE  IsFiniteSet(FdsOf(s)) /\ Cardinality(FdsOf(s)) = Len(s)
<1> DEFINE f == [i \in 1 .. Len(s) |-> s[i].fd]
<1>1. Len(s) \in Nat /\ DOMAIN s = 1 .. Len(s)
  BY LenProperties
<1>2. f \in Bijection(1 .. Len(s), FdsOf(s))
  BY <1>1 DEF Distinct, FdsOf, Bijection, Injection, Surjection, IsInjective
<1>3. IsFiniteSet(1 .. Len(s)) /\ Cardinality(1 .. Len(s)) = Len(s)
  BY <1>1, FS_Interval, SMTT(40)
<1> QED
  BY <1>1, <1>2, <1>3, FS_Bijection DEF ExistsBijection

LEMMA TokensUnchanged ==
    ASSUME UNCHANGED <<queue, serving, completed, done>>
    PROVE  /\ Served' = Served /\ ServedFds' = ServedFds /\ DoneFds' = DoneFds /\ Away' = Away
           /\ FdsOf(queue)' = FdsOf(queue)
           /\ TokenInv => TokenInv'
<1>1. /\ Served' = Served /\ ServedFds' = ServedFds
      /\ FdsOf(queue)' = FdsOf(queue) /\ FdsOf(completed)' = FdsOf(completed)
      /\ FdsOf(done)' = FdsOf(done)
  BY DEF Served, ServedFds, FdsOf
<1>2. DoneFds' = DoneFds /\ Away' = Away
  BY <1>1 DEF DoneFds, Away
<1>3. TokenInv => TokenInv'
  BY <1>1, <1>2 DEF TokenInv, Distinct
<1> QED
  BY <1>1, <1>2, <1>3

\* Tasks and completions are about descriptors.
LEMMA TokenTypes ==
    ASSUME TypeInv
    PROVE  /\ \A i \in DOMAIN queue : queue[i] \in Tasks /\ queue[i].fd \in FdsOf(queue)
           /\ \A w \in Served : serving[w] \in Serving /\ serving[w].task \in Tasks
                                 /\ serving[w].task.fd \in ServedFds
           /\ \A i \in DOMAIN completed : completed[i] \in Completions
           /\ \A i \in DOMAIN done : done[i] \in Completions
           /\ \A t \in Tasks : t.fd \in Fds /\ t.conn \in Conns /\ t.req \in Nat \ {0}
           /\ Away \subseteq Fds
<1>1. /\ queue \in Seq(Tasks) /\ completed \in Seq(Completions) /\ done \in Seq(Completions)
      /\ serving \in [Workers -> Serving \cup {None}]
  BY DEF TypeInv, OutsideOK, MembersOK, LocalsOK
<1>2. /\ \A i \in DOMAIN queue : queue[i] \in Tasks
      /\ \A i \in DOMAIN completed : completed[i] \in Completions
      /\ \A i \in DOMAIN done : done[i] \in Completions
  BY <1>1, ElementOfSeq, LenProperties
<1>3. \A w \in Served : serving[w] \in Serving /\ serving[w].task \in Tasks
  BY <1>1 DEF Served, Serving
<1>4. \A t \in Tasks : t.fd \in Fds /\ t.conn \in Conns /\ t.req \in Nat \ {0}
  BY DEF Tasks
<1>5. \A t \in Completions : t.fd \in Fds
  BY DEF Completions
<1> QED
  BY <1>2, <1>3, <1>4, <1>5 DEF FdsOf, ServedFds, DoneFds, Away

\* A step that touches neither the tables nor the conversations.
LEMMA QuietStep ==
    ASSUME OwnerInv, UNCHANGED <<queue, serving, completed, done, conn, armed, pending, peer,
                                 active, rcvd, out>>,
           sent' = sent \/ SentInv'
    PROVE  TokenInv' /\ HandInv' /\ PeerInv' /\ CountInv' /\ TalkInv' /\ Open' = Open
<1>1. TokenInv' /\ HandInv'
  BY TokensUnchanged DEF OwnerInv, HandInv
<1>2. PeerInv' /\ CountInv' /\ Open' = Open
  BY DEF OwnerInv, PeerInv, CountInv, HardCap, Open
<1>3. TalkInv'
  BY TokensUnchanged DEF OwnerInv, TalkInv, SentInv, HeldInv, TaskInv, InHand, Aligned, OutInv
<1> QED
  BY <1>1, <1>2, <1>3

-----------------------------------------------------------------------------
(* Closing *)

\* Responses written along with a close.
LEMMA LastWords ==
    ASSUME TypeInv, OwnerInv, NEW S \in SUBSET Open, CloseAll(S),
           out' = out \/ ReplyAll(S, ErrorReply)
    PROVE  /\ OutInv'
           /\ \A c \in Conns : /\ (\A fd \in S : conn[fd] # c) => out'[c] = out[c]
                               /\ Len(out[c]) <= Len(out'[c])
<1>1. \A c \in Conns : /\ out[c] \in Seq((Conns \cup {None}) \X Nat)
                       /\ peer'[c] = IF \E fd \in S : conn[fd] = c THEN "closed" ELSE peer[c]
  BY DEF TypeInv, SocketsOK, CloseAll
<1>2. CASE out' = out
  BY <1>1, <1>2 DEF OwnerInv, TalkInv, OutInv
<1>3. CASE ReplyAll(S, ErrorReply)
  <2> SUFFICES ASSUME NEW c \in Conns
               PROVE  /\ \A i \in DOMAIN out'[c] :
                            \/ out'[c][i] = <<c, i>>
                            \/ out'[c][i] = ErrorReply /\ i = Len(out'[c]) /\ peer'[c] = "closed"
                      /\ (\A fd \in S : conn[fd] # c) => out'[c] = out[c]
                      /\ Len(out[c]) <= Len(out'[c])
    BY DEF OutInv
  <2>1. Len(out[c]) \in Nat /\ DOMAIN out[c] = 1 .. Len(out[c])
    BY <1>1, LenProperties
  <2>2. CASE \E fd \in S : conn[fd] = c
    <3>1. peer[c] = "open" /\ peer'[c] = "closed"
      BY <1>1, <2>2 DEF Open, OwnerInv, PeerInv
    <3>2. \A i \in DOMAIN out[c] : out[c][i] = <<c, i>>
      BY <3>1 DEF OwnerInv, TalkInv, OutInv
    <3>3. out'[c] = Append(out[c], ErrorReply)
      BY <1>3, <2>2 DEF ReplyAll
    <3>4. /\ Len(out'[c]) = Len(out[c]) + 1
          /\ \A i \in 1 .. Len(out[c]) : out'[c][i] = out[c][i]
          /\ out'[c][Len(out[c]) + 1] = ErrorReply
          /\ DOMAIN out'[c] = 1 .. Len(out[c]) + 1
      BY <1>1, <3>3, ErrorReplyType, AppendProperties
    <3> QED
      BY <2>1, <2>2, <3>1, <3>2, <3>4, SMTT(40)
  <2>3. CASE ~ \E fd \in S : conn[fd] = c
    <3>1. out'[c] = out[c] /\ peer'[c] = peer[c]
      BY <1>1, <1>3, <2>3 DEF ReplyAll
    <3> QED
      BY <2>1, <3>1 DEF OwnerInv, TalkInv, OutInv
  <2> QED
    BY <2>2, <2>3
<1> QED
  BY <1>2, <1>3

\* Descriptors are closed that no task is about.
LEMMA ClosingStep ==
    ASSUME TypeInv, TypeInv', OwnerInv,
           NEW S \in SUBSET Open, S \cap (FdsOf(queue) \cup ServedFds) = {},
           CloseAll(S), active' = Minus(active, Cardinality(S)),
           pending' = [fd \in Fds |-> IF fd \in S THEN None ELSE pending[fd]],
           UNCHANGED <<queue, serving, rcvd, sent>>,
           TokenInv', DoneFds' = DoneFds \ S,
           OutInv',
           \A c \in Conns : /\ (\A fd \in S : conn[fd] # c) => out'[c] = out[c]
                            /\ Len(out[c]) <= Len(out'[c])
    PROVE  HandInv' /\ PeerInv' /\ CountInv' /\ TalkInv' /\ Open' = Open \ S
<1>1. /\ \A fd \in Fds : /\ conn'[fd] = IF fd \in S THEN None ELSE conn[fd]
                         /\ armed'[fd] = (armed[fd] /\ fd \notin S)
                         /\ pending'[fd] = IF fd \in S THEN None ELSE pending[fd]
      /\ \A c \in Conns : peer'[c] = IF \E fd \in S : conn[fd] = c THEN "closed" ELSE peer[c]
  BY DEF CloseAll, TypeInv, SocketsOK, MembersOK
<1>2. Served' = Served /\ ServedFds' = ServedFds /\ FdsOf(queue)' = FdsOf(queue)
  BY DEF Served, ServedFds, FdsOf
<1>3. Away' = Away \ S
  BY <1>2 DEF Away
<1>4. HandInv'
  BY <1>1, <1>3 DEF OwnerInv, HandInv
<1>5. CountInv'
  BY CloseCounts DEF OwnerInv
\* The connections of the descriptors that stay open are others.
<1>6. ASSUME NEW fd \in Fds \ S, conn[fd] # None
      PROVE  /\ conn'[fd] = conn[fd] /\ conn[fd] \in Conns
             /\ peer'[conn[fd]] = peer[conn[fd]] /\ out'[conn[fd]] = out[conn[fd]]
  <2>1. conn[fd] \in Conns
    BY <1>6 DEF TypeInv, SocketsOK
  <2>2. \A g \in S : conn[g] # conn[fd]
    BY <1>6 DEF OwnerInv, PeerInv, Open
  <2> QED
    BY <1>1, <2>1, <2>2
<1>7. PeerInv'
  <2>1. \A fd \in Fds : conn'[fd] # None => peer'[conn'[fd]] = "open"
    BY <1>1, <1>6 DEF OwnerInv, PeerInv
  <2>2. \A c \in Conns : peer'[c] \in {"new", "backlog"} => rcvd'[c] = 0 /\ out'[c] = <<>>
    BY <1>1 DEF OwnerInv, PeerInv
  <2> QED
    BY <1>1, <2>1, <2>2 DEF OwnerInv, PeerInv
<1>8. SentInv'
  <2> SUFFICES ASSUME NEW c \in Conns, Pooled, NEW j \in 1 .. sent[c]
               PROVE  Stream[c][j].req <= Len(out'[c]) + 1
    BY DEF OwnerInv, TalkInv, SentInv
  <2>1. Stream[c][j].req <= Len(out[c]) + 1
    BY DEF OwnerInv, TalkInv, SentInv
  <2>2. sent[c] <= Len(Stream[c]) /\ sent[c] \in Nat
    BY DEF TypeInv, OutsideOK
  <2>3. Stream[c][j].req \in Nat
    BY <2>2, StreamType
  <2>4. Len(out[c]) \in Nat /\ Len(out[c]) <= Len(out'[c])
    BY DEF TypeInv, SocketsOK
  <2>5. Len(out'[c]) \in Nat
    BY DEF TypeInv, SocketsOK
  <2> QED
    BY <2>1, <2>3, <2>4, <2>5
<1>9. HeldInv'
  <2> SUFFICES ASSUME NEW fd \in Fds, pending'[fd] # None
               PROVE  Held(pending'[fd], conn'[fd], rcvd'[conn'[fd]], Len(out'[conn'[fd]]))
    BY DEF HeldInv, Held, Aligned
  <2>1. fd \notin S /\ pending'[fd] = pending[fd] /\ pending[fd] # None /\ conn[fd] # None
    BY <1>1 DEF OwnerInv, HandInv
  <2>2. conn'[fd] = conn[fd] /\ out'[conn[fd]] = out[conn[fd]] /\ rcvd' = rcvd
    BY <1>6, <2>1
  <2> QED
    BY <2>1, <2>2 DEF OwnerInv, TalkInv, HeldInv
<1>10. TaskInv'
  <2>1. ASSUME NEW t, NEW n, InHand(t, n), t.fd \in FdsOf(queue) \cup ServedFds, t.fd \in Fds
        PROVE  InHand(t, n)'
    <3>1. t.fd \notin S /\ conn[t.fd] # None
      BY <2>1 DEF OwnerInv, HandInv, Away
    <3> QED
      BY <1>6, <2>1, <3>1 DEF InHand, Aligned
  <2>2. \A i \in DOMAIN queue : queue[i].fd \in FdsOf(queue) /\ queue[i].fd \in Fds
    BY TokenTypes
  <2>3. \A w \in Served : serving[w].task.fd \in ServedFds /\ serving[w].task.fd \in Fds
    BY TokenTypes
  <2>4. \A fd \in DoneFds' : Aligned(conn'[fd], rcvd'[conn'[fd]], Len(out'[conn'[fd]]))
    <3> SUFFICES ASSUME NEW fd \in DoneFds \ S
                 PROVE  Aligned(conn'[fd], rcvd'[conn'[fd]], Len(out'[conn'[fd]]))
      OBVIOUS
    <3>1. fd \in Fds
      BY TokenTypes DEF Away
    <3>2. conn[fd] # None
      BY <3>1 DEF OwnerInv, HandInv, Away
    <3>3. Aligned(conn[fd], rcvd[conn[fd]], Len(out[conn[fd]]))
      BY DEF OwnerInv, TalkInv, TaskInv
    <3> QED
      BY <1>6, <3>1, <3>2, <3>3
  <2>5. \A i \in DOMAIN queue : InHand(queue[i], 1)'
    BY <2>1, <2>2 DEF OwnerInv, TalkInv, TaskInv
  <2>6. \A w \in Served : InHand(serving[w].task, IF serving[w].replied THEN 0 ELSE 1)'
    BY <2>1, <2>3 DEF OwnerInv, TalkInv, TaskInv
  <2> QED
    BY <1>2, <2>4, <2>5, <2>6 DEF TaskInv
<1>11. Open' = Open \ S
  BY <1>1 DEF Open
<1> QED
  BY <1>4, <1>5, <1>7, <1>8, <1>9, <1>10, <1>11 DEF TalkInv

-----------------------------------------------------------------------------
(* Every step keeps the invariant *)

\* A handler closes its descriptor and returns.
LEMMA HandlerReleases ==
    ASSUME TypeInv, TypeInv', OwnerInv, NEW fd \in Fds, fd = cur.fd, pending[fd] # None,
           at \in {"receive", "frame", "hangup"}, Release(fd), at' \in {"dispatch", "hangup"},
           UNCHANGED <<queue, serving, completed, done, rcvd, sent, cur, batch>>,
           OutInv',
           \A c \in Conns : /\ conn[fd] # c => out'[c] = out[c]
                            /\ Len(out[c]) <= Len(out'[c])
    PROVE  OwnerInv'
<1>1. conn[fd] # None /\ fd \notin Away
  BY DEF OwnerInv, HandInv
<1>2. /\ {fd} \in SUBSET Open /\ {fd} \cap (FdsOf(queue) \cup ServedFds) = {}
      /\ DoneFds \ {fd} = DoneFds
  BY <1>1 DEF Open, Away
<1>3. Cardinality({fd}) = 1
  BY FS_Singleton
<1>4. CloseAll({fd}) /\ active' = Minus(active, Cardinality({fd}))
  BY <1>3 DEF Release
<1>5. pending' = [g \in Fds |-> IF g \in {fd} THEN None ELSE pending[g]]
  BY DEF Release, Drop, TypeInv, MembersOK
<1>6. TokenInv' /\ DoneFds' = DoneFds \ {fd}
  BY <1>2, TokensUnchanged DEF OwnerInv
<1>7. HandInv' /\ PeerInv' /\ CountInv' /\ TalkInv'
  BY <1>2, <1>4, <1>5, <1>6, ClosingStep
<1>8. \A g \in Fds : g # fd => /\ conn'[g] = conn[g] /\ pending'[g] = pending[g]
                               /\ armed'[g] => armed[g]
  BY <1>4, <1>5 DEF CloseAll
<1>9. BatchInv'
  <2>1. ASSUME NEW e \in batch, e.kind = "client"
        PROVE  pending'[e.fd] # None /\ e.conn = conn'[e.fd] /\ (Pooled => ~armed'[e.fd])
    <3>1. e.fd \in Fds
      BY <2>1 DEF TypeInv, LocalsOK
    <3>2. /\ pending[e.fd] # None /\ e.conn = conn[e.fd] /\ (Pooled => ~armed[e.fd])
          /\ e.fd # fd
      BY <2>1 DEF OwnerInv, BatchInv
    <3> QED
      BY <1>8, <3>1, <3>2
  <2>2. at' = "hangup" => \A e \in batch : e.kind = "client" => e.fd # cur.fd
    BY DEF OwnerInv, BatchInv
  <2> QED
    BY <2>1, <2>2 DEF OwnerInv, BatchInv
<1>10. EndInv'
  BY DEF OwnerInv, EndInv
<1> QED
  BY <1>6, <1>7, <1>9, <1>10 DEF OwnerInv

\* It rejects the request, too.
LEMMA HandlerRejects ==
    ASSUME TypeInv, TypeInv', OwnerInv, NEW fd \in Fds, fd = cur.fd, pending[fd] # None,
           at \in {"receive", "frame"}, Reject(fd), Resume,
           UNCHANGED <<outside, rcvd, completed, locals>>
    PROVE  OwnerInv'
<1>1. {fd} \in SUBSET Open
  BY DEF OwnerInv, HandInv, Open
<1>2. CloseAll({fd}) /\ ReplyAll({fd}, ErrorReply) /\ Release(fd)
  BY DEF Reject, Release
<1>3. /\ OutInv'
      /\ \A c \in Conns : /\ conn[fd] # c => out'[c] = out[c]
                          /\ Len(out[c]) <= Len(out'[c])
  BY <1>1, <1>2, LastWords
<1>4. /\ at' \in {"dispatch", "hangup"}
      /\ UNCHANGED <<queue, serving, completed, done, rcvd, sent, cur, batch>>
  BY DEF Resume, outside, locals
<1> QED
  BY <1>2, <1>3, <1>4, HandlerReleases

\* The clients and setListenStatus.
LEMMA OwnerClients ==
    ASSUME InTurn, TypeInv, OwnerInv,
           StopListening \/ \E c \in Conns : Client(c)
    PROVE  OwnerInv'
<1>1. ASSUME NEW c \in Conns, Connect(c) PROVE OwnerInv'
  <2>1. /\ peer[c] = "new" /\ peer' = [peer EXCEPT ![c] = "backlog"]
        /\ UNCHANGED <<queue, serving, completed, done, conn, armed, pending, active, rcvd, out,
                       sent, at, batch, cur>>
    BY <1>1 DEF Connect, outside, members, locals
  <2>2. \A x \in Conns : peer'[x] = IF x = c THEN "backlog" ELSE peer[x]
    BY <2>1 DEF TypeInv, SocketsOK
  <2>3. PeerInv'
    <3>1. \A fd \in Fds : conn[fd] # None => conn[fd] \in Conns /\ conn[fd] # c
      BY <2>1 DEF TypeInv, SocketsOK, OwnerInv, PeerInv
    <3> QED
      BY <2>1, <2>2, <3>1 DEF OwnerInv, PeerInv
  <2>4. OutInv'
    BY <2>1, <2>2 DEF OwnerInv, TalkInv, OutInv
  <2>5. TokenInv' /\ HandInv'
    BY <2>1, TokensUnchanged DEF OwnerInv, HandInv
  <2>6. SentInv' /\ HeldInv' /\ TaskInv'
    BY <2>1, TokensUnchanged DEF OwnerInv, TalkInv, SentInv, HeldInv, TaskInv, InHand, Aligned
  <2>7. CountInv' /\ BatchInv' /\ EndInv'
    BY <2>1, TokensUnchanged DEF OwnerInv, CountInv, HardCap, BatchInv, EndInv, Open
  <2> QED
    BY <2>3, <2>4, <2>5, <2>6, <2>7 DEF OwnerInv, TalkInv
<1>2. ASSUME NEW c \in Conns, Send(c) PROVE OwnerInv'
  <2>1. /\ sent' = [sent EXCEPT ![c] = @ + 1] /\ sent[c] < Len(Stream[c])
        /\ Pipelining \/ Len(out[c]) + 1 >= Stream[c][sent[c] + 1].req
        /\ UNCHANGED <<queue, serving, completed, done, conn, armed, pending, active, rcvd, out,
                       peer, at, batch, cur>>
    BY <1>2 DEF Send, sockets, members, locals
  <2>2. SentInv'
    <3> SUFFICES ASSUME NEW x \in Conns
                 PROVE  /\ rcvd[x] <= sent'[x]
                        /\ Pooled => \A j \in 1 .. sent'[x] : Stream[x][j].req <= Len(out[x]) + 1
      BY <2>1 DEF SentInv
    <3>1. /\ sent[x] \in Nat /\ rcvd[x] \in Nat /\ sent'[x] = IF x = c THEN sent[x] + 1 ELSE sent[x]
          /\ Len(out[x]) \in Nat
      BY <2>1 DEF TypeInv, OutsideOK, SocketsOK
    <3>2. rcvd[x] <= sent[x] /\ (Pooled => \A j \in 1 .. sent[x] : Stream[x][j].req <= Len(out[x]) + 1)
      BY DEF OwnerInv, TalkInv, SentInv
    <3>3. ASSUME Pooled, x = c PROVE Stream[c][sent[c] + 1].req <= Len(out[c]) + 1
      <4>1. sent[c] + 1 \in 1 .. Len(Stream[c])
        BY <2>1, <3>1, <3>3, StreamType
      <4>2. Stream[c][sent[c] + 1].req \in Nat
        BY <4>1, StreamType
      <4> QED
        BY <2>1, <3>1, <3>3, <4>2 DEF InTurn
    <3>4. rcvd[x] <= sent'[x]
      BY <3>1, <3>2
    <3>5. ASSUME Pooled, NEW j \in 1 .. sent'[x] PROVE Stream[x][j].req <= Len(out[x]) + 1
      <4>1. j \in 1 .. sent[x] \/ (x = c /\ j = sent[c] + 1)
        BY <3>1
      <4> QED
        BY <3>2, <3>3, <3>5, <4>1
    <3> QED
      BY <3>4, <3>5
  <2>3. TokenInv' /\ HandInv' /\ PeerInv' /\ CountInv' /\ TalkInv' /\ Open' = Open
    BY <2>1, <2>2, QuietStep
  <2>4. BatchInv' /\ EndInv'
    BY <2>1, <2>3, TokensUnchanged DEF OwnerInv, BatchInv, EndInv
  <2> QED
    BY <2>3, <2>4 DEF OwnerInv
<1>3. CASE StopListening \/ \E c \in Conns, how \in Leaving : Leave(c, how)
  <2>1. UNCHANGED <<queue, serving, completed, done, conn, armed, pending, peer, active, rcvd, out,
                    sent, at, batch, cur>>
    BY <1>3 DEF StopListening, Leave, sockets, members, locals
  <2>2. TokenInv' /\ HandInv' /\ PeerInv' /\ CountInv' /\ TalkInv' /\ Open' = Open
    BY <2>1, QuietStep
  <2>3. BatchInv' /\ EndInv'
    BY <2>1, <2>2, TokensUnchanged DEF OwnerInv, BatchInv, EndInv
  <2> QED
    BY <2>2, <2>3 DEF OwnerInv
<1> QED
  BY <1>1, <1>2, <1>3 DEF Client

\* The loop between its handlers.
LEMMA OwnerDispatch ==
    ASSUME TypeInv, TypeInv', OwnerInv,
           \/ EpollWait \/ EpollTimeout \/ WaitFails \/ DispatchEnd \/ AcceptEnd \/ ShutdownKill
           \/ Hangup
           \/ \E e \in batch : DispatchEvent(e)
    PROVE  OwnerInv'
<1>1. CASE EpollTimeout \/ WaitFails \/ DispatchEnd \/ AcceptEnd \/ ShutdownKill
  <2>1. /\ UNCHANGED <<queue, serving, completed, done, conn, armed, pending, peer, active, rcvd,
                       out, sent, batch, cur>>
        /\ at' \in {"sweep", "dispatch", "kill", "close"}
        /\ at' \in {"sweep", "kill", "close"} => batch = {} /\ done = <<>>
        /\ at' = "close" => queue = <<>> /\ Served = {}
    BY <1>1 DEF EpollTimeout, WaitFails, DispatchEnd, AcceptEnd, ShutdownKill, outside, sockets, members,
       locals, OwnerInv, BatchInv, EndInv, Served
  <2>2. TokenInv' /\ HandInv' /\ PeerInv' /\ CountInv' /\ TalkInv' /\ Served' = Served
    BY <2>1, QuietStep, TokensUnchanged
  <2>3. BatchInv' /\ EndInv'
    BY <2>1, <2>2 DEF OwnerInv, BatchInv, EndInv
  <2> QED
    BY <2>2, <2>3 DEF OwnerInv
<1>2. CASE EpollWait
  <2>1. /\ UNCHANGED <<queue, serving, completed, done, conn, pending, peer, active, rcvd, out,
                       sent, cur>>
        /\ batch' = Ready /\ at' = "dispatch"
        /\ \A fd \in Fds : armed'[fd] <=> armed[fd] /\ fd \notin OneShot
    BY <1>2 DEF EpollWait, outside, members
  <2>2. TokenInv' /\ HandInv'
    BY <2>1, TokensUnchanged DEF OwnerInv, HandInv
  <2>3. PeerInv' /\ CountInv'
    BY <2>1 DEF OwnerInv, PeerInv, CountInv, HardCap, Open
  <2>4. TalkInv'
    BY <2>1, TokensUnchanged
    DEF OwnerInv, TalkInv, SentInv, HeldInv, TaskInv, InHand, Aligned, OutInv
  <2>5. ASSUME NEW e \in Ready, e.kind = "client"
        PROVE  /\ pending[e.fd] # None /\ e.conn = conn[e.fd] /\ (Pooled => ~armed'[e.fd])
               /\ e = Event("client", e.fd, gone[conn[e.fd]] = "rst")
    <3>1. PICK fd \in ReadyFds : e = Event("client", fd, gone[conn[fd]] = "rst")
      <4>1. Event("listener", None, FALSE).kind # "client" /\ Event("notify", None, FALSE).kind # "client"
        BY DEF Event
      <4> QED
        BY <2>5, <4>1 DEF Ready
    <3>2. fd \in Fds /\ armed[fd] /\ fd # None
      BY RequestIOAssumption DEF ReadyFds, Open
    <3>3. e.fd = fd /\ e.conn = conn[fd]
      BY <3>1, <3>2 DEF Event
    <3>4. pending[fd] # None /\ (Pooled => ~armed'[fd])
      BY <2>1, <3>2 DEF OwnerInv, HandInv, OneShot
    <3> QED
      BY <3>1, <3>3, <3>4
  <2>6. BatchInv' /\ EndInv'
    BY <2>1, <2>5 DEF BatchInv, EndInv
  <2> QED
    BY <2>2, <2>3, <2>4, <2>6 DEF OwnerInv
<1>3. CASE Hangup
  <2>1. cur.fd \in Fds /\ at = "hangup" /\ at' = "dispatch"
        /\ UNCHANGED <<queue, serving, completed, done, rcvd, out, sent, cur, batch>>
    BY <1>3 DEF Hangup, TypeInv, ControlOK, outside, locals
  <2>2. CASE HasPending(cur.fd)
    <3>1. pending[cur.fd] # None /\ Release(cur.fd)
      BY <1>3, <2>2 DEF Hangup, HasPending
    <3>2. {cur.fd} \in SUBSET Open /\ CloseAll({cur.fd})
      BY <2>1, <3>1 DEF OwnerInv, HandInv, Open, Release
    <3>3. OutInv' /\ \A c \in Conns : Len(out[c]) <= Len(out'[c])
      BY <2>1, <3>2, LastWords
    <3> QED
      BY <2>1, <3>1, <3>3, HandlerReleases
  <2>3. CASE ~HasPending(cur.fd)
    <3>1. UNCHANGED <<conn, armed, pending, peer, active>>
      BY <1>3, <2>3 DEF Hangup
    <3>2. TokenInv' /\ HandInv' /\ PeerInv' /\ CountInv' /\ TalkInv'
      BY <2>1, <3>1, QuietStep
    <3>3. BatchInv' /\ EndInv'
      BY <2>1, <3>1 DEF OwnerInv, BatchInv, EndInv
    <3> QED
      BY <3>2, <3>3 DEF OwnerInv
  <2> QED
    BY <2>2, <2>3
<1>4. ASSUME NEW e \in batch, DispatchEvent(e) PROVE OwnerInv'
  <2>1. /\ UNCHANGED <<queue, serving, conn, armed, pending, peer, active, rcvd, out, sent>>
        /\ batch' = batch \ {e} /\ at = "dispatch" /\ done = <<>>
        /\ at' \in {"dispatch", "accept", "receive"}
        /\ at' = "receive" => e.kind = "client" /\ cur'.fd = e.fd
        /\ \/ completed' = completed /\ done' = done
           \/ completed' = <<>> /\ done' = completed /\ at' = at
    BY <1>4 DEF DispatchEvent, outside, sockets
  <2>2. /\ Served' = Served /\ ServedFds' = ServedFds /\ FdsOf(queue)' = FdsOf(queue)
    BY <2>1 DEF Served, ServedFds, FdsOf
  <2>3. TokenInv' /\ DoneFds' = DoneFds /\ Away' = Away
    <3>1. FdsOf(<<>>) = {} /\ Distinct(<<>>)
      BY DEF FdsOf, Distinct
    <3>2. CASE completed' = completed /\ done' = done
      BY <2>1, <3>2, TokensUnchanged DEF OwnerInv
    <3>3. CASE completed' = <<>> /\ done' = completed /\ at' = at
      <4>1. /\ FdsOf(completed)' = {} /\ FdsOf(done)' = FdsOf(completed)
            /\ Distinct(completed)' /\ (Distinct(done)' <=> Distinct(completed))
            /\ FdsOf(done) = {} /\ (Distinct(queue)' <=> Distinct(queue))
        BY <2>1, <3>1, <3>3 DEF FdsOf, Distinct
      <4>2. DoneFds' = DoneFds
        BY <4>1 DEF DoneFds
      <4>3. TokenInv'
        BY <2>1, <2>2, <4>1, <4>2 DEF OwnerInv, TokenInv
      <4> QED
        BY <2>2, <4>2, <4>3 DEF Away
    <3> QED
      BY <2>1, <3>2, <3>3
  <2>4. HandInv' /\ PeerInv' /\ CountInv'
    BY <2>1, <2>3 DEF OwnerInv, HandInv, PeerInv, CountInv, HardCap, Open
  <2>5. TalkInv'
    BY <2>1, <2>2, <2>3
    DEF OwnerInv, TalkInv, SentInv, HeldInv, TaskInv, InHand, Aligned, OutInv
  <2>6. BatchInv'
    BY <2>1 DEF OwnerInv, BatchInv
  <2>7. EndInv'
    BY <2>1 DEF OwnerInv, EndInv
  <2> QED
    BY <2>3, <2>4, <2>5, <2>6, <2>7 DEF OwnerInv
<1> QED
  BY <1>1, <1>2, <1>3, <1>4

\* A slot whose buffer is empty.
LEMMA EmptyHeld ==
    ASSUME NEW s, s.buffer = <<>>, s.expected = 0, NEW c \in Conns, NEW r \in Nat, NEW n \in Nat,
           Aligned(c, r, n)
    PROVE  Held(s, c, r, n)
<1>1. Len(s.buffer) = 0
  OBVIOUS
<1>2. r - Len(s.buffer) = r /\ 0 <= r
  BY <1>1
<1>3. 1 .. Len(s.buffer) = {}
  BY <1>1
<1>4. Aligned(c, r - Len(s.buffer), n)
  <2> DEFINE m == r - Len(s.buffer)
  <2>1. m = r
    BY <1>2
  <2> HIDE DEF m
  <2>2. Aligned(c, m, n)
    BY <2>1
  <2> QED
    BY <2>2 DEF m
<1> QED
  BY <1>1, <1>2, <1>3, <1>4 DEF Held

\* A step that concerns one connection leaves the others' conversations alone.
LEMMA OthersTalk ==
    ASSUME TypeInv, OwnerInv, NEW fd \in Fds, NEW c \in Conns,
           \A g \in Fds \ {fd} : conn'[g] = conn[g] /\ conn[g] # c,
           \A x \in Conns \ {c} : out'[x] = out[x] /\ rcvd'[x] = rcvd[x]
    PROVE  /\ \A t \in Tasks, n \in Nat : t.fd \in Away \ {fd} /\ InHand(t, n) => InHand(t, n)'
           /\ \A g \in DoneFds \ {fd} : Aligned(conn'[g], rcvd'[conn'[g]], Len(out'[conn'[g]]))
           /\ \A g \in Fds \ {fd} : pending[g] # None =>
                 Held(pending[g], conn'[g], rcvd'[conn'[g]], Len(out'[conn'[g]]))
<1>1. ASSUME NEW g \in Fds \ {fd}, conn[g] # None
      PROVE  /\ conn'[g] = conn[g]
             /\ out'[conn[g]] = out[conn[g]] /\ rcvd'[conn[g]] = rcvd[conn[g]]
  BY <1>1 DEF TypeInv, SocketsOK
<1>2. \A g \in Away : g \in Fds /\ conn[g] # None
  BY TokenTypes DEF OwnerInv, HandInv
<1>3. \A t \in Tasks, n \in Nat : t.fd \in Away \ {fd} /\ InHand(t, n) => InHand(t, n)'
  <2> SUFFICES ASSUME NEW t \in Tasks, NEW n \in Nat, t.fd \in Away \ {fd}, InHand(t, n)
               PROVE  InHand(t, n)'
    OBVIOUS
  <2> DEFINE g == t.fd
  <2>1. g \in Fds \ {fd} /\ conn[g] # None
    BY <1>2
  <2>2. conn[g] = t.conn /\ t.req = Len(out[t.conn]) + n /\ Aligned(t.conn, rcvd[t.conn], t.req)
    BY DEF InHand
  <2>3. conn'[g] = t.conn /\ out'[t.conn] = out[t.conn] /\ rcvd'[t.conn] = rcvd[t.conn]
    BY <1>1, <2>1, <2>2
  <2> QED
    BY <2>2, <2>3 DEF InHand, Aligned
<1>4. \A g \in DoneFds \ {fd} : Aligned(conn'[g], rcvd'[conn'[g]], Len(out'[conn'[g]]))
  <2> SUFFICES ASSUME NEW g \in DoneFds \ {fd}
               PROVE  Aligned(conn'[g], rcvd'[conn'[g]], Len(out'[conn'[g]]))
    OBVIOUS
  <2>1. g \in Fds \ {fd} /\ conn[g] # None
    BY <1>2 DEF Away
  <2>2. Aligned(conn[g], rcvd[conn[g]], Len(out[conn[g]]))
    BY DEF OwnerInv, TalkInv, TaskInv
  <2> QED
    BY <1>1, <2>1, <2>2
<1>5. \A g \in Fds \ {fd} : pending[g] # None =>
         Held(pending[g], conn'[g], rcvd'[conn'[g]], Len(out'[conn'[g]]))
  <2> SUFFICES ASSUME NEW g \in Fds \ {fd}, pending[g] # None
               PROVE  Held(pending[g], conn'[g], rcvd'[conn'[g]], Len(out'[conn'[g]]))
    OBVIOUS
  <2>1. conn[g] # None /\ Held(pending[g], conn[g], rcvd[conn[g]], Len(out[conn[g]]))
    BY DEF OwnerInv, HandInv, TalkInv, HeldInv
  <2> QED
    BY <1>1, <2>1
<1> QED
  BY <1>3, <1>4, <1>5

\* The tasks of a step that moves none.
LEMMA TasksStay ==
    ASSUME TypeInv, OwnerInv, UNCHANGED <<queue, serving, completed, done>>,
           NEW fd \in Fds, fd \notin Away, NEW c \in Conns,
           \A g \in Fds \ {fd} : conn'[g] = conn[g] /\ conn[g] # c,
           \A x \in Conns \ {c} : out'[x] = out[x] /\ rcvd'[x] = rcvd[x]
    PROVE  TaskInv'
<1>1. \A i \in DOMAIN queue : queue[i] \in Tasks /\ queue[i].fd \in Away \ {fd}
  BY TokenTypes DEF Away
<1>2. \A w \in Served : /\ serving[w].task \in Tasks /\ serving[w].task.fd \in Away \ {fd}
                        /\ (IF serving[w].replied THEN 0 ELSE 1) \in Nat
  BY TokenTypes DEF Away
<1>3. DoneFds \ {fd} = DoneFds
  BY DEF Away
<1>4. \A t \in Tasks, n \in Nat : t.fd \in Away \ {fd} /\ InHand(t, n) => InHand(t, n)'
  BY OthersTalk
<1>5. \A g \in DoneFds \ {fd} : Aligned(conn'[g], rcvd'[conn'[g]], Len(out'[conn'[g]]))
  BY OthersTalk
<1>6. Served' = Served /\ DoneFds' = DoneFds
  BY TokensUnchanged
<1>7. \A i \in DOMAIN queue : InHand(queue[i], 1)'
  <2> SUFFICES ASSUME NEW i \in DOMAIN queue PROVE InHand(queue[i], 1)'
    OBVIOUS
  <2>1. InHand(queue[i], 1)
    BY DEF OwnerInv, TalkInv, TaskInv
  <2> DEFINE t == queue[i]
  <2>2. t \in Tasks /\ t.fd \in Away \ {fd} /\ InHand(t, 1) /\ t' = t
    BY <1>1, <2>1
  <2> HIDE DEF t
  <2>3. InHand(t, 1)'
    BY <1>4, <2>2 DEF InHand
  <2> QED
    BY <2>3 DEF t
<1>8. \A w \in Served : InHand(serving[w].task, IF serving[w].replied THEN 0 ELSE 1)'
  <2> SUFFICES ASSUME NEW w \in Served
               PROVE  InHand(serving[w].task, IF serving[w].replied THEN 0 ELSE 1)'
    OBVIOUS
  <2> DEFINE t == serving[w].task
             n == IF serving[w].replied THEN 0 ELSE 1
  <2>1. InHand(t, n)
    BY DEF OwnerInv, TalkInv, TaskInv
  <2>2. t \in Tasks /\ t.fd \in Away \ {fd} /\ n \in Nat /\ t' = t /\ n' = n
    BY <1>2
  <2> HIDE DEF t, n
  <2>3. InHand(t, n)'
    BY <1>4, <2>1, <2>2 DEF InHand
  <2> QED
    BY <2>3 DEF t, n
<1> QED
  BY <1>3, <1>5, <1>6, <1>7, <1>8 DEF TaskInv

\* AcceptPending: the new connection takes a free descriptor, and the counter
\* cannot wrap because the descriptors are fewer than a size_t can count.
LEMMA OwnerAccept ==
    ASSUME TypeInv, TypeInv', OwnerInv, NEW c \in Conns, Accept(c) \/ AcceptRefuse(c) \/ AcceptFails(c)
    PROVE  OwnerInv'
<1>1. CASE AcceptRefuse(c) \/ AcceptFails(c)
  <2>1. /\ peer[c] = "backlog" /\ peer' = [peer EXCEPT ![c] = "closed"]
        /\ UNCHANGED <<queue, serving, completed, done, conn, armed, pending, active, rcvd, out,
                       sent, at, batch, cur>>
    BY <1>1 DEF AcceptRefuse, AcceptFails, outside, members, locals
  <2>2. \A x \in Conns : peer'[x] = IF x = c THEN "closed" ELSE peer[x]
    BY <2>1 DEF TypeInv, SocketsOK
  <2>3. PeerInv'
    <3>1. \A fd \in Fds : conn[fd] # None => conn[fd] \in Conns /\ conn[fd] # c
      BY <2>1 DEF TypeInv, SocketsOK, OwnerInv, PeerInv
    <3> QED
      BY <2>1, <2>2, <3>1 DEF OwnerInv, PeerInv
  <2>4. OutInv'
    BY <2>1, <2>2 DEF OwnerInv, TalkInv, OutInv
  <2>5. TokenInv' /\ HandInv'
    BY <2>1, TokensUnchanged, SMTT(40) DEF OwnerInv, HandInv
  <2>6. SentInv' /\ HeldInv' /\ TaskInv'
    BY <2>1, TokensUnchanged DEF OwnerInv, TalkInv, SentInv, HeldInv, TaskInv, InHand, Aligned
  <2>7. CountInv' /\ BatchInv' /\ EndInv'
    BY <2>1, TokensUnchanged DEF OwnerInv, CountInv, HardCap, BatchInv, EndInv, Open
  <2> QED
    BY <2>3, <2>4, <2>5, <2>6, <2>7 DEF OwnerInv, TalkInv
<1>2. CASE Accept(c)
  <2>1. PICK fd \in Fds : /\ LowestFree(fd)
                          /\ conn' = [conn EXCEPT ![fd] = c]
                          /\ armed' = [armed EXCEPT ![fd] = TRUE]
                          /\ pending' = [pending EXCEPT ![fd] = NewSlot(TRUE)]
    BY <1>2 DEF Accept
  <2>2. /\ peer[c] = "backlog" /\ peer' = [peer EXCEPT ![c] = "open"]
        /\ ~AtCap /\ at = "accept" /\ at' = at
        /\ active' = (active + 1) % SizeMod
        /\ UNCHANGED <<queue, serving, completed, done, rcvd, out, sent, batch, cur>>
    BY <1>2 DEF Accept, outside, locals
  <2>3. conn[fd] = None /\ c # None /\ fd \notin Open /\ pending[fd] = None /\ fd \notin Away
    BY <2>1, RequestIOAssumption DEF LowestFree, Open, OwnerInv, HandInv
  <2>4. NewSlot(TRUE) \in Slots /\ NewSlot(TRUE) # None
    <3>1. NewSlot(TRUE) \in Slots
      BY DEF NewSlot, Slots
    <3> QED
      BY <3>1, RequestIOAssumption
  <2>5. \A g \in Fds : /\ conn'[g] = IF g = fd THEN c ELSE conn[g]
                       /\ armed'[g] = IF g = fd THEN TRUE ELSE armed[g]
                       /\ pending'[g] = IF g = fd THEN NewSlot(TRUE) ELSE pending[g]
    BY <2>1 DEF TypeInv, SocketsOK, MembersOK
  <2>6. \A x \in Conns : peer'[x] = IF x = c THEN "open" ELSE peer[x]
    BY <2>2 DEF TypeInv, SocketsOK
  <2>7. TokenInv' /\ Away' = Away /\ Served' = Served
    BY <2>2, TokensUnchanged DEF OwnerInv
  <2>8. HandInv'
    <3>1. ~NewSlot(TRUE).dispatching
      BY DEF NewSlot
    <3> QED
      BY <2>3, <2>4, <2>5, <2>7, <3>1 DEF OwnerInv, HandInv
  <2>9. \A g \in Fds \ {fd} : conn'[g] = conn[g] /\ conn[g] # c
    BY <2>2, <2>3, <2>5 DEF OwnerInv, PeerInv
  <2>10. PeerInv'
    <3>1. \A g \in Fds : conn'[g] # None => peer'[conn'[g]] = "open"
      <4> SUFFICES ASSUME NEW g \in Fds, conn'[g] # None PROVE peer'[conn'[g]] = "open"
        OBVIOUS
      <4>1. conn[g] # None => conn[g] \in Conns /\ peer[conn[g]] = "open"
        BY DEF TypeInv, SocketsOK, OwnerInv, PeerInv
      <4>2. peer'[c] = "open"
        BY <2>6
      <4> QED
        BY <2>5, <2>6, <4>1, <4>2
    <3>2. \A g, h \in Fds : conn'[g] # None /\ conn'[g] = conn'[h] => g = h
      BY <2>5, <2>9, ZenonT(60) DEF OwnerInv, PeerInv
    <3>3. \A x \in Conns : peer'[x] \in {"new", "backlog"} => rcvd'[x] = 0 /\ out'[x] = <<>>
      BY <2>2, <2>6 DEF OwnerInv, PeerInv
    <3> QED
      BY <3>1, <3>2, <3>3 DEF PeerInv
  <2>11. CountInv'
    <3>1. Open' = Open \cup {fd}
      BY <2>3, <2>5 DEF Open
    <3>2. Cardinality(Open') = Cardinality(Open) + 1
      BY <2>3, <3>1, OpenFinite, FS_AddElement
    <3>3. Cardinality(Open') < SizeMod /\ Cardinality(Open') \in Nat
      <4>1. Open' \in SUBSET Fds /\ IsFiniteSet(Fds)
        BY <3>1, RequestIOAssumption DEF Open
      <4>2. Cardinality(Open') <= Cardinality(Fds) /\ Cardinality(Fds) \in Nat
        BY <4>1, FS_Subset, FS_CardinalityType
      <4> QED
        BY <3>2, <4>2, OpenFinite, RequestIOAssumption
    <3>4. active' = Cardinality(Open')
      BY <2>2, <3>2, <3>3, OpenFinite DEF OwnerInv, CountInv
    <3>5. MaxConnections # 0 => Cardinality(Open') <= MaxConnections
      BY <2>2, <3>2, OpenFinite, RequestIOAssumption DEF AtCap, OwnerInv, CountInv
    <3> QED
      BY <3>4, <3>5 DEF CountInv, HardCap
  <2>12. BatchInv'
    <3>1. \A e \in batch : e.kind = "client" => e.fd \in Fds /\ e.fd # fd
      BY <2>3 DEF TypeInv, LocalsOK, OwnerInv, BatchInv
    <3> QED
      BY <2>2, <2>5, <3>1 DEF OwnerInv, BatchInv
  <2>13. EndInv'
    BY <2>2, <2>7 DEF OwnerInv, EndInv
  <2>14. TaskInv'
    BY <2>2, <2>3, <2>9, TasksStay
  <2>15. SentInv' /\ OutInv'
    <3>1. SentInv'
      BY <2>2 DEF OwnerInv, TalkInv, SentInv
    <3>2. OutInv'
      BY <2>2, <2>6 DEF OwnerInv, TalkInv, OutInv
    <3> QED
      BY <3>1, <3>2
  <2>16. HeldInv'
    <3>1. rcvd[c] = 0 /\ Len(out[c]) = 0
      BY <2>2 DEF OwnerInv, PeerInv
    <3>2. NewSlot(TRUE).buffer = <<>> /\ NewSlot(TRUE).expected = 0
      BY DEF NewSlot
    <3>3. Aligned(c, 0, 0)
      <4>1. 0 < Len(Stream[c]) => Stream[c] # <<>>
        OBVIOUS
      <4>2. Stream[c] # <<>> => Stream[c][1].req = 1 /\ Stream[c][1].part = 1
        BY StreamAssumption
      <4> QED
        BY <4>1, <4>2 DEF Aligned
    <3>4. Held(NewSlot(TRUE), c, 0, 0)
      <4>1. 0 \in Nat
        OBVIOUS
      <4> QED
        BY <3>2, <3>3, <4>1, EmptyHeld, Zenon
    <3>5. \A g \in Fds \ {fd} : pending[g] # None =>
             Held(pending[g], conn'[g], rcvd'[conn'[g]], Len(out'[conn'[g]]))
      BY <2>2, <2>9, OthersTalk
    <3>6. \A g \in Fds : pending'[g] # None =>
             Held(pending'[g], conn'[g], rcvd'[conn'[g]], Len(out'[conn'[g]]))
      BY <2>2, <2>5, <3>1, <3>4, <3>5
    <3> QED
      BY <3>6 DEF HeldInv, Held, Aligned
  <2> QED
    BY <2>7, <2>8, <2>10, <2>11, <2>12, <2>13, <2>14, <2>15, <2>16 DEF OwnerInv, TalkInv
<1> QED
  BY <1>1, <1>2

\* A slot to which the parts received since were appended.
LEMMA GrownHeld ==
    ASSUME NEW s \in Slots, NEW c \in Conns, NEW r \in Nat, NEW q \in Nat, NEW n \in Nat,
           r <= q, q <= Len(Stream[c]), Held(s, c, r, n),
           NEW u, u.buffer = s.buffer \o SubSeq(Stream[c], r + 1, q), u.expected = s.expected
    PROVE  Held(u, c, q, n)
<1> DEFINE k == r - Len(s.buffer)
           t == Stream[c]
           b == s.buffer
           d == u.buffer
<1>1. b \in Seq(Parts) /\ t \in Seq(Parts) /\ Len(b) \in Nat /\ Len(t) \in Nat
  BY RequestIOAssumption DEF Slots
<1>2. /\ Len(b) <= r /\ \A i \in 1 .. Len(b) : b[i] = t[k + i]
      /\ Aligned(c, k, n)
      /\ s.expected # 0 => b # <<>> /\ s.expected = b[1].parts
  BY DEF Held
<1>3. k \in Nat /\ r = k + Len(b)
  BY <1>1, <1>2
<1>4. d = b \o SubSeq(t, r + 1, q) /\ r <= q /\ q <= Len(t)
  OBVIOUS
<1>5. b # <<>> => 1 \in 1 .. Len(b)
  BY <1>1
<1> HIDE DEF k, b, t, d
<1>6. /\ d \in Seq(Parts) /\ Len(d) = q - k
      /\ \A i \in 1 .. Len(d) : d[i] = t[k + i]
      /\ \A i \in 1 .. Len(b) : i \in 1 .. Len(d) /\ d[i] = b[i]
  BY <1>1, <1>2, <1>3, <1>4, StretchGrows
<1>7. q - Len(d) = k /\ Len(d) <= q
  BY <1>3, <1>6
<1>8. u.expected # 0 => d # <<>> /\ u.expected = d[1].parts
  BY <1>1, <1>2, <1>5, <1>6
<1>9. Aligned(c, q - Len(d), n) /\ \A i \in 1 .. Len(d) : d[i] = t[q - Len(d) + i]
  BY <1>2, <1>6, <1>7
<1> QED
  BY <1>7, <1>8, <1>9 DEF Held, d, t

\* The first request of a buffer is the next to be answered; without it the
\* buffer begins with the one after.
LEMMA FirstRequest ==
    ASSUME NEW s \in Slots, NEW c \in Conns, NEW r \in Nat, NEW n \in Nat, r <= Len(Stream[c]),
           Held(s, c, r, n), s.buffer # <<>>, Complete(s)
    PROVE  /\ s.buffer[1].conn = c /\ s.buffer[1].req = n + 1
           /\ RequestLen(s) = s.buffer[1].parts /\ RequestLen(s) \in 1 .. Len(s.buffer)
           /\ Leftover(s) \in Seq(Parts) /\ Len(Leftover(s)) = Len(s.buffer) - RequestLen(s)
           /\ \A u : u.buffer = Leftover(s) /\ u.expected = 0 => Held(u, c, r, n + 1)
<1> DEFINE b == s.buffer
           t == Stream[c]
           k == r - Len(s.buffer)
           p == RequestLen(s)
           l == Leftover(s)
<1>1. /\ b \in Seq(Parts) /\ t \in Seq(Parts) /\ Len(b) \in Nat /\ Len(t) \in Nat
      /\ b # <<>> => 1 \in 1 .. Len(b)
  BY RequestIOAssumption DEF Slots
<1>2. /\ Len(b) <= r /\ \A i \in 1 .. Len(b) : b[i] = t[k + i]
      /\ Aligned(c, k, n)
      /\ s.expected # 0 => s.expected = b[1].parts
  BY DEF Held
<1>3. p = b[1].parts /\ Len(b) >= p
  BY <1>2 DEF Complete, RequestLen
<1>4. k \in Nat /\ k + Len(b) = r
  BY <1>1, <1>2
<1>5. b # <<>> /\ r <= Len(t) /\ l = SubSeq(b, p + 1, Len(b))
  BY DEF Leftover
<1> HIDE DEF b, k, p, l
<1>6. k < Len(t) /\ b[1] = t[k + 1] /\ k + 1 \in 1 .. Len(t)
  BY <1>1, <1>2, <1>4, <1>5 DEF t
<1>7. p \in Nat \ {0} /\ b[1].req = n + 1 /\ b[1].conn = c
  <2>1. t[k + 1].parts \in Nat \ {0}
    BY <1>6, StreamType
  <2>2. t[k + 1].req = n + 1
    BY <1>2, <1>6 DEF Aligned
  <2>3. t[k + 1].conn = c
    BY <1>1, <1>6, StreamAssumption
  <2> QED
    BY <1>3, <1>6, <2>1, <2>2, <2>3
<1>8. /\ l \in Seq(Parts) /\ Len(l) = Len(b) - p
      /\ \A i \in 1 .. Len(l) : l[i] = t[(k + p) + i]
  <2>1. p \in Nat /\ p <= Len(b)
    BY <1>1, <1>3, <1>7
  <2>2. \A i \in 1 .. Len(b) : b[i] = t[k + i]
    BY <1>2
  <2>3. b \in Seq(Parts) /\ k \in Nat /\ l = SubSeq(b, p + 1, Len(b))
    BY <1>1, <1>4, <1>5
  <2> HIDE DEF t
  <2> QED
    BY <2>1, <2>2, <2>3, StretchCut, SMTT(60)
<1>9. Aligned(c, k + p, n + 1)
  <2>1. p = t[k + 1].parts
    BY <1>3, <1>6
  <2>2. k + p <= Len(t)
    <3> HIDE DEF t
    <3> QED
      BY <1>1, <1>3, <1>4, <1>5, <1>7
  <2> QED
    BY <1>2, <1>4, <1>6, <2>1, <2>2, NextAligned
<1> DEFINE h == k + p
           len == Len(b)
<1>10. h \in Nat /\ r - Len(l) = h /\ Len(l) <= r
  <2>1. len \in Nat /\ len <= r /\ Len(l) = len - p /\ k + len = r /\ p <= len
    BY <1>1, <1>2, <1>3, <1>4, <1>8
  <2> HIDE DEF len
  <2> QED
    BY <1>4, <1>7, <2>1
<1>11. Aligned(c, h, n + 1) /\ \A i \in 1 .. Len(l) : l[i] = t[h + i]
  BY <1>8, <1>9
<1>12. p \in 1 .. Len(b)
  BY <1>1, <1>3, <1>7
<1> HIDE DEF h, len
<1>13. ASSUME NEW u, u.buffer = l, u.expected = 0 PROVE Held(u, c, r, n + 1)
  <2>1. Aligned(c, r - Len(l), n + 1) /\ \A i \in 1 .. Len(l) : l[i] = t[r - Len(l) + i]
    BY <1>10, <1>11
  <2> QED
    BY <1>10, <1>13, <2>1 DEF Held
<1> QED
  BY <1>3, <1>7, <1>8, <1>12, <1>13 DEF b, p, l

\* A response to the next request of an open connection.
LEMMA Answered ==
    ASSUME TypeInv, OwnerInv, NEW fd \in Fds, NEW c \in Conns, conn[fd] = c,
           NEW n \in Nat, n = Len(out[c]) + 1, ReplyAll({fd}, <<c, n>>),
           \A x \in Conns : peer'[x] = peer[x] \/ peer'[x] = "closed"
    PROVE  /\ OutInv' /\ Len(out'[c]) = n
           /\ \A x \in Conns : /\ x # c => out'[x] = out[x]
                               /\ Len(out[x]) <= Len(out'[x])
<1>1. \A x \in Conns : Len(out[x]) \in Nat /\ DOMAIN out[x] = 1 .. Len(out[x])
  BY LenProperties DEF TypeInv, SocketsOK
<1>2. \A x \in Conns : out'[x] = IF x = c THEN Append(out[c], <<c, n>>) ELSE out[x]
  BY DEF ReplyAll
<1>3. /\ Len(out'[c]) = n /\ DOMAIN out'[c] = 1 .. n
      /\ \A i \in 1 .. Len(out[c]) : out'[c][i] = out[c][i]
      /\ out'[c][n] = <<c, n>>
  <2> DEFINE S == (Conns \cup {None}) \X Nat
             r == <<c, n>>
  <2>1. out[c] \in Seq(S) /\ r \in S
    BY DEF TypeInv, SocketsOK
  <2> HIDE DEF S, r
  <2>2. /\ Len(Append(out[c], r)) = n
        /\ \A i \in 1 .. Len(out[c]) : Append(out[c], r)[i] = out[c][i]
        /\ Append(out[c], r)[n] = r
    BY <2>1, AppendProperties
  <2>3. out'[c] = Append(out[c], r)
    BY <1>2 DEF r
  <2>4. DOMAIN Append(out[c], r) = 1 .. n
    BY <2>1, <2>2, LenProperties, AppendProperties
  <2> QED
    BY <2>2, <2>3, <2>4 DEF r
<1>4. c # None /\ peer[c] = "open"
  BY RequestIOAssumption DEF OwnerInv, PeerInv
<1>5. \A i \in 1 .. n : out'[c][i] = <<c, i>>
  <2>1. \A i \in 1 .. Len(out[c]) : out[c][i] = <<c, i>>
    BY <1>1, <1>4 DEF OwnerInv, TalkInv, OutInv
  <2>2. \A i \in 1 .. n : i \in 1 .. Len(out[c]) \/ i = n
    BY <1>1
  <2> QED
    BY <1>3, <2>1, <2>2
<1>6. OutInv'
  <2> SUFFICES ASSUME NEW x \in Conns, NEW i \in DOMAIN out'[x]
               PROVE  \/ out'[x][i] = <<x, i>>
                      \/ out'[x][i] = ErrorReply /\ i = Len(out'[x]) /\ peer'[x] = "closed"
    BY DEF OutInv, ErrorReply
  <2>1. CASE x = c
    BY <1>3, <1>5, <2>1
  <2>2. CASE x # c
    BY <1>2, <2>2 DEF OwnerInv, TalkInv, OutInv
  <2> QED
    BY <2>1, <2>2
<1>7. Len(out[c]) <= n
  BY <1>1
<1> QED
  BY <1>1, <1>2, <1>3, <1>6, <1>7

\* What the clients have sent stays within bounds as responses are added.
LEMMA SentStays ==
    ASSUME TypeInv, TypeInv', OwnerInv, sent' = sent,
           \A x \in Conns : rcvd'[x] <= sent[x] /\ Len(out[x]) <= Len(out'[x])
    PROVE  SentInv'
<1> SUFFICES ASSUME NEW x \in Conns, Pooled, NEW j \in 1 .. sent[x]
             PROVE  Stream[x][j].req <= Len(out'[x]) + 1
  BY DEF SentInv
<1>1. Stream[x][j].req <= Len(out[x]) + 1
  BY DEF OwnerInv, TalkInv, SentInv
<1>2. sent[x] <= Len(Stream[x]) /\ sent[x] \in Nat
  BY DEF TypeInv, OutsideOK
<1>3. Stream[x][j].req \in Nat
  BY <1>2, StreamType
<1>4. Len(out[x]) \in Nat /\ Len(out'[x]) \in Nat /\ Len(out[x]) <= Len(out'[x])
  BY DEF TypeInv, SocketsOK
<1> QED
  BY <1>1, <1>3, <1>4

\* A handler keeps its descriptor open and pending.
LEMMA HandlerKeeps ==
    ASSUME TypeInv, TypeInv', OwnerInv, NEW fd \in Fds, fd = cur.fd, pending[fd] # None,
           at \in {"receive", "frame"}, at' \in {"dispatch", "hangup", "frame"},
           at' = "frame" => armed' = armed,
           cur'.fd = fd, NEW slot, slot # None, ~slot.dispatching,
           pending' = [pending EXCEPT ![fd] = slot],
           UNCHANGED <<queue, serving, completed, done, conn, peer, active, sent, batch>>,
           \A g \in Fds \ {fd} : armed'[g] => armed[g],
           NEW c \in Conns, c = conn[fd],
           \A x \in Conns \ {c} : out'[x] = out[x] /\ rcvd'[x] = rcvd[x],
           rcvd'[c] <= sent[c], Len(out[c]) <= Len(out'[c]), OutInv',
           Held(slot, c, rcvd'[c], Len(out'[c]))
    PROVE  OwnerInv'
<1>1. fd \notin Away /\ conn[fd] # None
  BY DEF OwnerInv, HandInv
<1>2. \A g \in Fds : pending'[g] = IF g = fd THEN slot ELSE pending[g]
  BY DEF TypeInv, MembersOK
<1>3. TokenInv' /\ Away' = Away /\ Served' = Served
  BY TokensUnchanged DEF OwnerInv
<1>4. HandInv'
  <2>1. \A g \in Fds : armed'[g] => armed[g] \/ g = fd
    OBVIOUS
  <2> QED
    BY <1>1, <1>2, <1>3, <2>1 DEF OwnerInv, HandInv
<1>5. PeerInv'
  <2>1. \A x \in Conns : peer[x] \in {"new", "backlog"} => x # c
    BY <1>1 DEF OwnerInv, PeerInv
  <2> QED
    BY <2>1 DEF OwnerInv, PeerInv
<1>6. CountInv'
  BY DEF OwnerInv, CountInv, HardCap, Open
<1>7. BatchInv'
  <2>1. ASSUME NEW e \in batch, e.kind = "client"
        PROVE  /\ pending'[e.fd] # None /\ e.conn = conn'[e.fd] /\ (Pooled => ~armed'[e.fd])
               /\ e.fd # fd
    <3>1. e.fd \in Fds
      BY <2>1 DEF TypeInv, LocalsOK
    <3>2. /\ pending[e.fd] # None /\ e.conn = conn[e.fd] /\ (Pooled => ~armed[e.fd])
          /\ e.fd # fd
      BY <2>1 DEF OwnerInv, BatchInv
    <3>3. armed'[e.fd] => armed[e.fd]
      BY <3>1, <3>2
    <3> QED
      BY <1>2, <3>1, <3>2, <3>3
  <2>2. at' = "frame" => pending'[fd] # None /\ (Pooled => ~armed'[fd])
    BY <1>2 DEF OwnerInv, BatchInv
  <2> QED
    BY <2>1, <2>2 DEF OwnerInv, BatchInv
<1>8. EndInv'
  BY <1>3 DEF OwnerInv, EndInv
<1>9. \A g \in Fds \ {fd} : conn'[g] = conn[g] /\ conn[g] # c
  BY <1>1 DEF OwnerInv, PeerInv
<1>10. TaskInv'
  BY <1>1, <1>9, TasksStay
<1>11. SentInv'
  <2>1. \A x \in Conns : rcvd'[x] <= sent[x] /\ Len(out[x]) <= Len(out'[x])
    <3>1. \A x \in Conns : Len(out[x]) \in Nat /\ rcvd[x] <= sent[x]
      BY DEF TypeInv, SocketsOK, OwnerInv, TalkInv, SentInv
    <3> QED
      BY <3>1
  <2> QED
    BY <2>1, SentStays
<1>12. HeldInv'
  <2>1. \A g \in Fds \ {fd} : pending[g] # None =>
           Held(pending[g], conn'[g], rcvd'[conn'[g]], Len(out'[conn'[g]]))
    BY <1>9, OthersTalk
  <2>2. \A g \in Fds : pending'[g] # None =>
           Held(pending'[g], conn'[g], rcvd'[conn'[g]], Len(out'[conn'[g]]))
    BY <1>2, <2>1
  <2> QED
    BY <2>2 DEF HeldInv, Held, Aligned
<1> QED
  BY <1>3, <1>4, <1>5, <1>6, <1>7, <1>8, <1>10, <1>11, <1>12 DEF OwnerInv, TalkInv

\* The recv loop.
LEMMA OwnerRead ==
    ASSUME TypeInv, TypeInv', OwnerInv,
           ReceiveError \/ ReceiveTooLarge \/ \E eof \in BOOLEAN : Receive(eof)
    PROVE  OwnerInv'
<1> DEFINE fd == cur.fd
           c == conn[fd]
<1>1. at = "receive" /\ fd \in Fds /\ pending[fd] # None /\ c \in Conns
  <2>1. at = "receive"
    BY DEF ReceiveError, ReceiveTooLarge, Receive
  <2>2. fd \in Fds /\ pending[fd] # None
    BY <2>1 DEF TypeInv, ControlOK, OwnerInv, BatchInv
  <2> QED
    BY <2>1, <2>2 DEF OwnerInv, HandInv, TypeInv, SocketsOK
<1>2. CASE ReceiveError \/ ReceiveTooLarge
  BY <1>1, <1>2, HandlerRejects DEF ReceiveError, ReceiveTooLarge
<1>3. ASSUME NEW eof \in BOOLEAN, Receive(eof) PROVE OwnerInv'
  <2> DEFINE s == pending[fd]
             buffer == s.buffer \o Unread(c)
             slot == [s EXCEPT !.buffer = buffer, !.dated = @ \/ Unread(c) # <<>>]
  <2>1. PendingSlot(fd) = s /\ s \in Slots /\ ~s.dispatching
    BY <1>1 DEF PendingSlot, TypeInv, MembersOK, OwnerInv, HandInv
  <2>2. /\ rcvd' = [rcvd EXCEPT ![c] = sent[c]]
        /\ pending' = [pending EXCEPT ![fd] = slot]
        /\ cur' = [cur EXCEPT !.eof = eof]
        /\ \/ RearmWait(fd) /\ Resume
           \/ at' = "frame" /\ UNCHANGED armed
        /\ UNCHANGED <<queue, serving, completed, done, conn, peer, active, sent, batch, out>>
    BY <1>3, <2>1 DEF Receive, outside
  <2>3. slot.buffer = buffer /\ slot.expected = s.expected /\ slot.dispatching = s.dispatching
    BY <2>1 DEF Slots
  <2>4. slot # None
    <3>1. pending'[fd] = slot
      BY <1>1, <2>2 DEF TypeInv, MembersOK
    <3>2. s.buffer \in Seq(Parts) /\ Stream[c] \in Seq(Parts)
      BY <1>1, <2>1, RequestIOAssumption DEF Slots
    <3>3. Unread(c) \in Seq(Parts)
      BY <1>1, <3>2 DEF Unread, TypeInv, OutsideOK, SocketsOK
    <3>4. buffer \in Seq(Parts)
      BY <3>2, <3>3, ConcatProperties
    <3> HIDE DEF buffer
    <3>5. slot \in Slots
      BY <2>1, <3>4 DEF Slots
    <3> QED
      BY <3>5, RequestIOAssumption
  <2>5. /\ rcvd[c] \in Nat /\ sent[c] \in Nat /\ rcvd[c] <= sent[c] /\ sent[c] <= Len(Stream[c])
        /\ Len(out[c]) \in Nat
    BY <1>1 DEF TypeInv, SocketsOK, OutsideOK, OwnerInv, TalkInv, SentInv
  <2>6. Held(s, c, rcvd[c], Len(out[c]))
    BY <1>1 DEF OwnerInv, TalkInv, HeldInv
  <2>7. Held(slot, c, sent[c], Len(out[c]))
    <3>1. slot.buffer = s.buffer \o SubSeq(Stream[c], rcvd[c] + 1, sent[c])
      BY <2>3, Zenon DEF Unread
    <3> HIDE DEF slot, s, c, buffer
    <3>2. c \in Conns /\ s \in Slots
      BY <1>1, <2>1 DEF c
    <3> QED
      BY <2>3, <2>5, <2>6, <3>1, <3>2, GrownHeld, Zenon
  <2>8. /\ rcvd'[c] = sent[c] /\ \A x \in Conns \ {c} : out'[x] = out[x] /\ rcvd'[x] = rcvd[x]
        /\ out'[c] = out[c]
    BY <1>1, <2>2 DEF TypeInv, SocketsOK
  <2>9. OutInv'
    BY <2>2 DEF OwnerInv, TalkInv, OutInv
  <2>10. \A g \in Fds \ {fd} : armed'[g] => armed[g]
    BY <1>1, <2>2 DEF RearmWait, Arm, TypeInv, SocketsOK
  <2>11. cur'.fd = fd /\ at' \in {"dispatch", "hangup", "frame"} /\ (at' = "frame" => armed' = armed)
    BY <2>2 DEF Resume, TypeInv, LocalsOK
  <2>12. rcvd'[c] <= sent[c] /\ Len(out[c]) <= Len(out'[c]) /\ Held(slot, c, rcvd'[c], Len(out'[c]))
    <3>1. Len(out'[c]) = Len(out[c])
      BY <2>8
    <3> HIDE DEF slot, c
    <3>2. rcvd'[c] <= sent[c] /\ Len(out[c]) <= Len(out'[c])
      BY <2>5, <2>8
    <3> QED
      BY <2>7, <2>8, <3>1, <3>2
  <2> HIDE DEF slot
  <2>13. ~slot.dispatching
    BY <2>1, <2>3
  <2> QED
    BY <1>1, <2>2, <2>4, <2>8, <2>9, <2>10, <2>11, <2>12, <2>13, HandlerKeeps
<1> QED
  BY <1>2, <1>3

\* What the framing loop works on.
LEMMA FramingFacts ==
    ASSUME TypeInv, OwnerInv, NEW fd \in Fds, Framing(fd)
    PROVE  /\ at = "frame" /\ fd = cur.fd /\ pending[fd] # None /\ conn[fd] # None /\ fd \notin Away
           /\ conn[fd] \in Conns /\ (Pooled => ~armed[fd])
           /\ pending[fd] \in Slots /\ ~pending[fd].dispatching /\ pending[fd].buffer # <<>>
           /\ Held(pending[fd], conn[fd], rcvd[conn[fd]], Len(out[conn[fd]]))
           /\ rcvd[conn[fd]] \in Nat /\ rcvd[conn[fd]] <= sent[conn[fd]] /\ sent[conn[fd]] \in Nat
           /\ sent[conn[fd]] <= Len(Stream[conn[fd]])
           /\ Len(out[conn[fd]]) \in Nat
<1>1. at = "frame" /\ fd = cur.fd
  BY DEF Framing
<1>2. pending[fd] # None /\ pending[fd].buffer # <<>> /\ (Pooled => ~armed[fd])
  BY <1>1 DEF TypeInv, ControlOK, OwnerInv, BatchInv
<1>3. conn[fd] # None /\ fd \notin Away /\ ~pending[fd].dispatching
  BY <1>2 DEF OwnerInv, HandInv
<1>4. conn[fd] \in Conns /\ pending[fd] \in Slots
  BY <1>2, <1>3 DEF TypeInv, SocketsOK, MembersOK
<1>5. Held(pending[fd], conn[fd], rcvd[conn[fd]], Len(out[conn[fd]]))
  BY <1>2 DEF OwnerInv, TalkInv, HeldInv
<1>6. /\ rcvd[conn[fd]] \in Nat /\ rcvd[conn[fd]] <= sent[conn[fd]] /\ sent[conn[fd]] \in Nat
      /\ sent[conn[fd]] <= Len(Stream[conn[fd]])
      /\ Len(out[conn[fd]]) \in Nat
  BY <1>4 DEF TypeInv, SocketsOK, OutsideOK, OwnerInv, TalkInv, SentInv
<1> QED
  BY <1>1, <1>2, <1>3, <1>4, <1>5, <1>6

\* A request that is not complete.
LEMMA OwnerWait ==
    ASSUME TypeInv, TypeInv', OwnerInv, NEW fd \in Fds, FrameReject(fd) \/ FrameWait(fd) \/ FrameShed(fd)
    PROVE  OwnerInv'
<1>1. CASE FrameReject(fd) \/ FrameShed(fd)
  <2>1. Framing(fd)
    BY <1>1 DEF FrameReject, FrameShed
  <2>2. at \in {"receive", "frame"} /\ fd = cur.fd /\ pending[fd] # None
    BY <2>1, FramingFacts
  <2>3. Reject(fd) /\ Resume /\ UNCHANGED <<outside, rcvd, completed, locals>>
    BY <1>1 DEF FrameReject, FrameShed, Shed
  <2> QED
    BY <2>2, <2>3, HandlerRejects
<1>2. CASE FrameWait(fd)
  <2> DEFINE s == pending[fd]
             c == conn[fd]
             slot == [s EXCEPT !.expected = RequestLen(s)]
  <2>1. Framing(fd)
    BY <1>2 DEF FrameWait
  <2>2. s \in Slots /\ RequestLen(s) \in Nat \ {0} /\ s.buffer # <<>>
    BY <2>1, FramingFacts, FramingSlot
  <2>3. /\ slot.buffer = s.buffer /\ slot.expected = RequestLen(s)
        /\ slot.dispatching = s.dispatching /\ slot \in Slots
    BY <2>2 DEF Slots
  <2>4. /\ pending' = [pending EXCEPT ![fd] = slot]
        /\ RearmWait(fd) /\ Resume
        /\ UNCHANGED <<queue, serving, completed, done, conn, peer, active, sent, batch, out, rcvd,
                       cur>>
    BY <1>2 DEF FrameWait, Expected, outside, locals
  <2>5. /\ \A g \in Fds \ {fd} : armed'[g] => armed[g]
        /\ at' \in {"dispatch", "hangup"}
    BY <2>4 DEF RearmWait, Arm, Resume, TypeInv, SocketsOK
  <2>6. OutInv'
    BY <2>4 DEF OwnerInv, TalkInv, OutInv
  <2>7. Held(slot, c, rcvd[c], Len(out[c]))
    <3>1. Held(s, c, rcvd[c], Len(out[c]))
      BY <2>1, FramingFacts
    <3>2. RequestLen(s) = s.buffer[1].parts
      BY <3>1 DEF Held, RequestLen
    <3> HIDE DEF s, c, slot
    <3> QED
      BY <2>2, <2>3, <3>1, <3>2 DEF Held
  <2>8. slot # None /\ ~slot.dispatching
    BY <2>1, <2>3, FramingFacts, RequestIOAssumption
  <2>9. /\ at = "frame" /\ fd = cur.fd /\ s # None /\ c \in Conns
        /\ rcvd[c] <= sent[c] /\ Len(out[c]) \in Nat
    BY <2>1, FramingFacts
  <2>10. /\ \A x \in Conns \ {c} : out'[x] = out[x] /\ rcvd'[x] = rcvd[x]
         /\ rcvd'[c] <= sent[c] /\ Len(out[c]) <= Len(out'[c])
         /\ Held(slot, c, rcvd'[c], Len(out'[c]))
         /\ cur'.fd = fd
    <3>1. rcvd' = rcvd /\ out' = out /\ cur' = cur
      BY <2>4
    <3> HIDE DEF slot, c
    <3> QED
      BY <2>7, <2>9, <3>1
  <2> HIDE DEF slot
  <2> QED
    BY <2>4, <2>5, <2>6, <2>8, <2>9, <2>10, HandlerKeeps
<1> QED
  BY <1>1, <1>2

\* DispatchTask: the client that waits for the response has sent nothing more,
\* so that the slot is dropped and the task alone holds the descriptor.
LEMMA OwnerSubmit ==
    ASSUME TypeInv, TypeInv', OwnerInv, NEW fd \in Fds, FrameDispatch(fd)
    PROVE  OwnerInv'
<1> DEFINE s == pending[fd]
           c == conn[fd]
           n == Len(out[c]) + 1
<1>1. Framing(fd) /\ Pooled /\ Complete(s)
      /\ queue' = Append(queue, Task(fd))
      /\ pending' = [pending EXCEPT ![fd] = Dispatched(s)]
      /\ Resume
      /\ UNCHANGED <<serving, completed, done, conn, armed, peer, active, rcvd, out, sent, batch,
                     cur>>
  BY DEF FrameDispatch, sockets, locals
<1>2. /\ at = "frame" /\ fd = cur.fd /\ fd \notin Away /\ c \in Conns /\ c # None /\ ~armed[fd]
      /\ s \in Slots /\ s.buffer # <<>> /\ Held(s, c, rcvd[c], Len(out[c]))
      /\ rcvd[c] \in Nat /\ rcvd[c] <= sent[c] /\ sent[c] \in Nat /\ sent[c] <= Len(Stream[c])
      /\ Len(out[c]) \in Nat
  BY <1>1, FramingFacts
<1>3. /\ s.buffer[1].conn = c /\ s.buffer[1].req = n
      /\ Leftover(s) \in Seq(Parts)
      /\ \A u : u.buffer = Leftover(s) /\ u.expected = 0 => Held(u, c, rcvd[c], n)
  <2>1. rcvd[c] <= Len(Stream[c])
    BY <1>2, StreamType
  <2> HIDE DEF s, c
  <2> QED
    BY <1>1, <1>2, <2>1, FirstRequest
<1>4. Len(Leftover(s)) = 0 /\ Aligned(c, rcvd[c], n)
  <2> DEFINE u == [buffer |-> Leftover(s), expected |-> 0]
             m == Len(Leftover(s))
             k == rcvd[c] - m
  <2>1. Held(u, c, rcvd[c], n) /\ u.buffer = Leftover(s)
    BY <1>3
  <2>2. m \in Nat /\ m <= rcvd[c] /\ Aligned(c, k, n)
    BY <1>3, <2>1 DEF Held
  <2>3. ASSUME m # 0 PROVE FALSE
    <3>1. k \in Nat /\ k < rcvd[c]
      BY <1>2, <2>2, <2>3
    <3>2. k + 1 \in 1 .. sent[c] /\ k < Len(Stream[c])
      <4>1. Len(Stream[c]) \in Nat
        BY <1>2, StreamType
      <4> HIDE DEF k
      <4> QED
        BY <1>2, <3>1, <4>1
    <3>3. Stream[c][k + 1].req = n + 1
      BY <2>2, <3>2 DEF Aligned
    <3>4. Stream[c][k + 1].req <= n
      BY <1>1, <1>2, <3>2 DEF OwnerInv, TalkInv, SentInv
    <3>5. n \in Nat
      BY <1>2
    <3> HIDE DEF n
    <3> QED
      BY <3>3, <3>4, <3>5
  <2>4. k = rcvd[c]
    BY <1>2, <2>2, <2>3
  <2> HIDE DEF k, n
  <2> QED
    BY <2>2, <2>3, <2>4
<1>5. pending' = [pending EXCEPT ![fd] = None]
  <2>1. Leftover(s) = <<>>
    BY <1>3, <1>4, EmptySeq
  <2> QED
    BY <1>1, <2>1 DEF Dispatched
<1>6. PICK t \in Tasks : t = Task(fd) /\ t.fd = fd /\ t.conn = c /\ t.req = n
  <2>1. Task(fd).fd = fd /\ Task(fd).conn = c /\ Task(fd).req = n
    BY <1>3 DEF Task
  <2>2. Task(fd) \in Tasks
    BY <1>1, TaskType
  <2> QED
    BY <2>1, <2>2
<1>7. /\ queue \in Seq(Tasks) /\ Distinct(queue)
      /\ t.fd \notin FdsOf(queue)
  BY <1>2, <1>6 DEF TypeInv, OutsideOK, OwnerInv, TokenInv, Away
<1>8. FdsOf(queue') = FdsOf(queue) \cup {fd} /\ Distinct(queue')
  BY <1>1, <1>6, <1>7, AppendFds
<1>9. /\ Served' = Served /\ ServedFds' = ServedFds /\ DoneFds' = DoneFds
      /\ FdsOf(completed)' = FdsOf(completed) /\ FdsOf(done)' = FdsOf(done)
  BY <1>1 DEF Served, ServedFds, DoneFds, FdsOf
<1>10. FdsOf(queue)' = FdsOf(queue) \cup {fd} /\ Distinct(queue)' /\ Away' = Away \cup {fd}
  <2>1. FdsOf(queue)' = FdsOf(queue') /\ (Distinct(queue)' <=> Distinct(queue'))
    BY DEF FdsOf, Distinct
  <2> QED
    BY <1>8, <1>9, <2>1 DEF Away
<1>11. TokenInv'
  <2>1. Distinct(completed)' /\ Distinct(done)'
    BY <1>1 DEF OwnerInv, TokenInv, Distinct
  <2>2. fd \notin ServedFds /\ fd \notin DoneFds
    BY <1>2 DEF Away
  <2> QED
    BY <1>1, <1>9, <1>10, <2>1, <2>2 DEF OwnerInv, TokenInv
<1>12. \A g \in Fds : pending'[g] = IF g = fd THEN None ELSE pending[g]
  BY <1>5 DEF TypeInv, MembersOK
<1>13. HandInv'
  BY <1>1, <1>2, <1>10, <1>12 DEF OwnerInv, HandInv
<1>14. PeerInv' /\ CountInv'
  BY <1>1 DEF OwnerInv, PeerInv, CountInv, HardCap, Open
<1>15. BatchInv'
  <2>1. at' \in {"dispatch", "hangup"}
    BY <1>1 DEF Resume
  <2>2. \A e \in batch : e.kind = "client" => e.fd \in Fds /\ e.fd # fd
    BY <1>2 DEF TypeInv, LocalsOK, OwnerInv, BatchInv
  <2>3. ASSUME NEW e \in batch, e.kind = "client"
        PROVE  /\ pending'[e.fd] # None /\ e.conn = conn'[e.fd] /\ (Pooled => ~armed'[e.fd])
               /\ e.fd # fd
    BY <1>1, <1>12, <2>2, <2>3 DEF OwnerInv, BatchInv
  <2> QED
    BY <1>1, <1>2, <2>1, <2>3 DEF OwnerInv, BatchInv
<1>16. EndInv'
  <2>1. at' \in {"dispatch", "hangup"} /\ done = <<>>
    BY <1>1, <1>2 DEF Resume, OwnerInv, EndInv
  <2> QED
    BY <1>1, <2>1 DEF EndInv
<1>17. SentInv' /\ HeldInv' /\ OutInv'
  <2>1. SentInv' /\ OutInv'
    BY <1>1 DEF OwnerInv, TalkInv, SentInv, OutInv
  <2>2. HeldInv'
    BY <1>1, <1>12 DEF OwnerInv, TalkInv, HeldInv, Held, Aligned
  <2> QED
    BY <2>1, <2>2
<1>18. TaskInv'
  <2>1. InHand(t, 1)'
    <3>1. conn'[t.fd] = t.conn /\ t.req = Len(out'[t.conn]) + 1
      BY <1>1, <1>6
    <3>2. Aligned(t.conn, rcvd'[t.conn], t.req)
      BY <1>1, <1>4, <1>6
    <3> QED
      BY <3>1, <3>2 DEF InHand, Aligned
  <2>2. \A i \in DOMAIN queue : InHand(queue[i], 1)
    BY DEF OwnerInv, TalkInv, TaskInv
  <2>3. \A i \in DOMAIN queue' : queue'[i] = t \/ \E j \in DOMAIN queue : queue'[i] = queue[j]
    <3>1. {queue'[i] : i \in DOMAIN queue'} = {queue[i] : i \in DOMAIN queue} \cup {t}
      BY <1>1, <1>6, <1>7, RangeOfAppend
    <3> QED
      BY <3>1
  <2>4. \A i \in DOMAIN queue' : InHand(queue[i], 1)'
    <3>1. \A u : InHand(u, 1) \/ u = t =>
             /\ conn'[u.fd] = u.conn /\ u.req = Len(out'[u.conn]) + 1
             /\ Aligned(u.conn, rcvd'[u.conn], u.req)
      <4>1. /\ conn'[t.fd] = t.conn /\ t.req = Len(out'[t.conn]) + 1
            /\ Aligned(t.conn, rcvd'[t.conn], t.req)
        BY <1>1, <1>4, <1>6
      <4>2. UNCHANGED <<conn, out, rcvd>>
        BY <1>1
      <4> QED
        BY <4>1, <4>2 DEF InHand
    <3>2. \A i \in DOMAIN queue' :
             /\ conn'[queue'[i].fd] = queue'[i].conn
             /\ queue'[i].req = Len(out'[queue'[i].conn]) + 1
             /\ Aligned(queue'[i].conn, rcvd'[queue'[i].conn], queue'[i].req)
      BY <2>2, <2>3, <3>1, Zenon
    <3> QED
      BY <3>2 DEF InHand, Aligned
  <2>5. \A w \in Served : InHand(serving[w].task, IF serving[w].replied THEN 0 ELSE 1)'
    BY <1>1 DEF OwnerInv, TalkInv, TaskInv, InHand, Aligned
  <2>6. \A g \in DoneFds : Aligned(conn'[g], rcvd'[conn'[g]], Len(out'[conn'[g]]))
    BY <1>1 DEF OwnerInv, TalkInv, TaskInv
  <2> QED
    BY <1>9, <2>4, <2>5, <2>6 DEF TaskInv, InHand, Aligned
<1> QED
  BY <1>11, <1>13, <1>14, <1>15, <1>16, <1>17, <1>18 DEF OwnerInv, TalkInv

\* serve_inline.
LEMMA OwnerServe ==
    ASSUME TypeInv, TypeInv', OwnerInv, NEW fd \in Fds, FrameServe(fd)
    PROVE  OwnerInv'
<1> DEFINE s == pending[fd]
           a == Advanced(s)
           slot == [a EXCEPT !.dated = TRUE]
<1>1. Framing(fd) /\ Complete(s)
  BY DEF FrameServe
<1> DEFINE c == conn[fd]
           n == Len(out[c]) + 1
<1>2. /\ at = "frame" /\ fd = cur.fd /\ pending[fd] # None /\ c \in Conns
      /\ s \in Slots /\ ~s.dispatching /\ s.buffer # <<>> /\ Held(s, c, rcvd[c], Len(out[c]))
      /\ rcvd[c] \in Nat /\ rcvd[c] <= sent[c] /\ sent[c] \in Nat /\ sent[c] <= Len(Stream[c])
      /\ Len(out[c]) \in Nat /\ n \in Nat
  BY <1>1, FramingFacts
<1>3. /\ s.buffer[1].conn = c /\ s.buffer[1].req = n
      /\ \A u : u.buffer = Leftover(s) /\ u.expected = 0 => Held(u, c, rcvd[c], n)
  <2>1. rcvd[c] <= Len(Stream[c])
    BY <1>2, StreamType
  <2> HIDE DEF s, c
  <2> QED
    BY <1>1, <1>2, <2>1, FirstRequest
<1>4. a \in Slots
  BY <1>1, FramingSlot
<1>5. slot \in Slots /\ slot.buffer = Leftover(s) /\ slot.expected = 0 /\ ~slot.dispatching
  <2>1. a.buffer = Leftover(s) /\ a.expected = 0 /\ a.dispatching = s.dispatching
    BY <1>2 DEF Advanced, Slots
  <2> HIDE DEF a
  <2> QED
    BY <1>2, <1>4, <2>1 DEF Slots
<1>6. slot # None /\ Held(slot, c, rcvd[c], n)
  <2>1. slot # None
    BY <1>5, RequestIOAssumption
  <2> HIDE DEF slot, c, n
  <2> QED
    BY <1>3, <1>5, <2>1
<1>7. Task(fd).conn = c /\ Task(fd).req = n
  BY <1>3 DEF Task
<1>8. /\ ReplyAll({fd}, <<c, n>>)
      /\ UNCHANGED <<queue, serving, completed, done, rcvd, sent, cur, batch>>
      /\ \/ /\ pending' = [pending EXCEPT ![fd] = slot]
            /\ UNCHANGED <<peer, conn, armed, active>>
            /\ at' \in {"dispatch", "hangup", "frame"}
         \/ Release(fd) /\ at' \in {"dispatch", "hangup"}
  BY <1>2, <1>7 DEF FrameServe, Resume, outside, locals
<1> HIDE DEF slot
<1>9. \A x \in Conns : peer'[x] = peer[x] \/ peer'[x] = "closed"
  BY <1>8 DEF Release, CloseAll
<1>10. /\ OutInv' /\ Len(out'[c]) = n
       /\ \A x \in Conns : /\ x # c => out'[x] = out[x]
                           /\ Len(out[x]) <= Len(out'[x])
  <2> HIDE DEF n
  <2>1. n = Len(out[c]) + 1
    BY DEF n
  <2> QED
    BY <1>2, <1>8, <1>9, <2>1, Answered
<1>11. CASE Release(fd) /\ at' \in {"dispatch", "hangup"}
  BY <1>2, <1>8, <1>10, <1>11, HandlerReleases
<1>12. CASE /\ pending' = [pending EXCEPT ![fd] = slot]
            /\ UNCHANGED <<peer, conn, armed, active>>
            /\ at' \in {"dispatch", "hangup", "frame"}
  <2>1. Held(slot, c, rcvd'[c], Len(out'[c])) /\ rcvd'[c] <= sent[c]
    <3>1. rcvd' = rcvd
      BY <1>8
    <3> HIDE DEF c, n
    <3> QED
      BY <1>2, <1>6, <1>10, <3>1
  <2>2. \A x \in Conns \ {c} : out'[x] = out[x] /\ rcvd'[x] = rcvd[x]
    BY <1>8, <1>10
  <2>3. cur'.fd = fd
    BY <1>2, <1>8
  <2> QED
    BY <1>2, <1>5, <1>6, <1>8, <1>10, <1>12, <2>1, <2>2, <2>3, HandlerKeeps
<1> QED
  BY <1>8, <1>11, <1>12

-----------------------------------------------------------------------------
(* The workers *)

\* A worker's step: where its token is, and what everything else keeps.
LEMMA WorkerFrame ==
    ASSUME OwnerInv, TokenInv', Away' = Away,
           UNCHANGED <<done, conn, armed, pending, peer, active, rcvd, sent, at, batch, cur>>,
           done # <<>> => at = "dispatch",
           at \in {"close", "stopped"} => queue' = <<>> /\ Served' = {},
           at = "stopped" => completed' = <<>>,
           out' = out
    PROVE  TaskInv' => OwnerInv'
<1> SUFFICES ASSUME TaskInv' PROVE OwnerInv'
  OBVIOUS
<1>1. HandInv'
  BY DEF OwnerInv, HandInv
<1>2. PeerInv' /\ CountInv' /\ BatchInv' /\ Open' = Open
  BY DEF OwnerInv, PeerInv, CountInv, HardCap, Open, BatchInv
<1>3. SentInv' /\ HeldInv' /\ OutInv'
  BY DEF OwnerInv, TalkInv, SentInv, HeldInv, Held, Aligned, OutInv
<1>4. EndInv'
  BY <1>2 DEF OwnerInv, EndInv
<1> QED
  BY <1>1, <1>2, <1>3, <1>4 DEF OwnerInv, TalkInv

LEMMA OwnerPop ==
    ASSUME TypeInv, TypeInv', OwnerInv, NEW w \in Workers, WorkerPop(w)
    PROVE  OwnerInv'
<1> DEFINE t == Head(queue)
           f == t.fd
<1>1. /\ serving[w] = None /\ queue # <<>>
      /\ serving' = [serving EXCEPT ![w] = [task |-> t, replied |-> FALSE]]
      /\ queue' = Tail(queue)
      /\ UNCHANGED <<completed, done, conn, armed, pending, peer, active, rcvd, out, sent, at,
                     batch, cur>>
  BY DEF WorkerPop, sockets, members, locals
<1>2. /\ queue \in Seq(Tasks) /\ serving \in [Workers -> Serving \cup {None}]
      /\ t \in Tasks
  BY <1>1, HeadTailProperties DEF TypeInv, OutsideOK
<1>3. [task |-> t, replied |-> FALSE] # None /\ w \notin Served
  <2>1. [task |-> t, replied |-> FALSE] \in Serving
    BY <1>2 DEF Serving
  <2> QED
    BY <1>1, <2>1, RequestIOAssumption DEF Served
<1>4. /\ Served' = Served \cup {w}
      /\ \A v \in Served : serving'[v] = serving[v]
      /\ serving'[w].task = t /\ ~serving'[w].replied
  <2>1. \A v \in Workers : serving'[v] = IF v = w THEN [task |-> t, replied |-> FALSE] ELSE serving[v]
    BY <1>1, <1>2
  <2> QED
    BY <1>3, <2>1 DEF Served
<1>5. /\ FdsOf(queue') = FdsOf(queue) \ {f} /\ Distinct(queue') /\ f \in FdsOf(queue)
      /\ FdsOf(queue)' = FdsOf(queue') /\ (Distinct(queue)' <=> Distinct(queue'))
  <2>1. /\ FdsOf(queue') = FdsOf(queue) \ {f} /\ Distinct(queue') /\ f \in FdsOf(queue)
    BY <1>1, <1>2, TailFds DEF OwnerInv, TokenInv
  <2> QED
    BY <2>1 DEF FdsOf, Distinct
<1> HIDE DEF t, f
<1>6. ServedFds' = ServedFds \cup {f}
  BY <1>4 DEF ServedFds, f
<1>7. FdsOf(completed)' = FdsOf(completed) /\ FdsOf(done)' = FdsOf(done) /\ DoneFds' = DoneFds
  BY <1>1 DEF FdsOf, DoneFds
<1>8. Away' = Away
  BY <1>5, <1>6, <1>7 DEF Away
<1>9. TokenInv'
  <2>1. Distinct(completed)' /\ Distinct(done)'
    BY <1>1 DEF OwnerInv, TokenInv, Distinct
  <2>2. f \notin ServedFds /\ f \notin DoneFds
    BY <1>5 DEF OwnerInv, TokenInv
  <2>3. \A v, x \in Served' : serving'[v].task.fd = serving'[x].task.fd => v = x
    <3>1. \A v \in Served : serving'[v].task.fd # f /\ serving'[v].task.fd \in ServedFds
      BY <1>4, <2>2 DEF ServedFds
    <3>2. serving'[w].task.fd = f
      BY <1>4 DEF f
    <3> QED
      BY <1>4, <3>1, <3>2 DEF OwnerInv, TokenInv
  <2> QED
    BY <1>5, <1>6, <1>7, <2>1, <2>2, <2>3 DEF OwnerInv, TokenInv
<1>10. TaskInv'
  <2>1. 1 \in DOMAIN queue /\ queue[1] = t
    BY <1>1, <1>2, EmptySeq, LenProperties DEF t
  <2>2. InHand(t, 1)
    BY <2>1 DEF OwnerInv, TalkInv, TaskInv
  <2>3. \A i \in DOMAIN queue' : \E j \in DOMAIN queue : queue'[i] = queue[j]
    <3>1. \A i \in 1 .. Len(queue') : i + 1 \in 1 .. Len(queue) /\ queue'[i] = queue[i + 1]
      BY <1>1, <1>2, HeadTailProperties, EmptySeq
    <3>2. DOMAIN queue = 1 .. Len(queue) /\ DOMAIN queue' = 1 .. Len(queue')
      BY <1>2, LenProperties DEF TypeInv, OutsideOK
    <3> QED
      BY <3>1, <3>2
  <2>4. \A i \in DOMAIN queue' : InHand(queue[i], 1)'
    BY <1>1, <2>3, SMTT(40) DEF OwnerInv, TalkInv, TaskInv, InHand, Aligned
  <2>5. \A v \in Served' : InHand(serving[v].task, IF serving[v].replied THEN 0 ELSE 1)'
    <3> DEFINE Stays(u, m) == /\ conn'[u.fd] = u.conn /\ u.req = Len(out'[u.conn]) + m
                              /\ Aligned(u.conn, rcvd'[u.conn], u.req)
    <3>1. \A u, m : InHand(u, m) => Stays(u, m)
      BY <1>1 DEF InHand
    <3> HIDE DEF Stays
    <3>2. ASSUME NEW v \in Served
          PROVE  Stays(serving'[v].task, IF serving'[v].replied THEN 0 ELSE 1)
      <4>1. InHand(serving[v].task, IF serving[v].replied THEN 0 ELSE 1)
        BY DEF OwnerInv, TalkInv, TaskInv
      <4>2. serving'[v] = serving[v]
        BY <1>4
      <4> QED
        BY <3>1, <4>1, <4>2
    <3>3. Stays(serving'[w].task, IF serving'[w].replied THEN 0 ELSE 1)
      BY <1>4, <2>2, <3>1
    <3>4. \A v \in Served' : Stays(serving'[v].task, IF serving'[v].replied THEN 0 ELSE 1)
      BY <1>4, <3>2, <3>3
    <3> QED
      BY <3>4 DEF Stays, InHand, Aligned
  <2>6. \A g \in DoneFds : Aligned(conn'[g], rcvd'[conn'[g]], Len(out'[conn'[g]]))
    BY <1>1 DEF OwnerInv, TalkInv, TaskInv
  <2> QED
    BY <1>7, <2>4, <2>5, <2>6 DEF TaskInv, InHand, Aligned
<1>11. /\ done # <<>> => at = "dispatch"
       /\ at \in {"close", "stopped"} => queue' = <<>> /\ Served' = {}
       /\ at = "stopped" => completed' = <<>>
  BY <1>1 DEF OwnerInv, EndInv
<1> QED
  BY <1>1, <1>8, <1>9, <1>10, <1>11, WorkerFrame

LEMMA OwnerComplete ==
    ASSUME TypeInv, TypeInv', OwnerInv, NEW w \in Workers, WorkerComplete(w)
    PROVE  OwnerInv'
<1> DEFINE t == serving[w].task
           f == t.fd
<1>1. PICK e \in Completions :
         /\ serving[w] # None /\ serving[w].replied
         /\ e.fd = f /\ completed' = Append(completed, e)
         /\ serving' = [serving EXCEPT ![w] = None]
         /\ UNCHANGED <<queue, done, conn, armed, pending, peer, active, rcvd, out, sent, at,
                        batch, cur>>
  <2> DEFINE e == [fd |-> f, keep_alive |-> KeepsAlive(t.kind)]
  <2>1. serving[w] # None /\ serving[w] \in Serving /\ t \in Tasks
    BY DEF WorkerComplete, TypeInv, OutsideOK, Serving
  <2>2. e \in Completions /\ e.fd = f
    BY <2>1, RequestIOAssumption DEF Completions, Tasks, KeepsAlive
  <2>3. /\ serving[w].replied /\ completed' = Append(completed, e)
        /\ serving' = [serving EXCEPT ![w] = None]
        /\ UNCHANGED <<queue, done, conn, armed, pending, peer, active, rcvd, out, sent, at,
                        batch, cur>>
    BY DEF WorkerComplete, sockets, locals
  <2> QED
    BY <2>1, <2>2, <2>3
<1>2. /\ completed \in Seq(Completions) /\ serving \in [Workers -> Serving \cup {None}]
      /\ w \in Served /\ f \in ServedFds
  BY <1>1 DEF TypeInv, OutsideOK, MembersOK, Served, ServedFds
<1>3. Served' = Served \ {w} /\ \A v \in Served \ {w} : serving'[v] = serving[v]
  <2>1. \A v \in Workers : serving'[v] = IF v = w THEN None ELSE serving[v]
    BY <1>1, <1>2
  <2> QED
    BY <2>1 DEF Served
<1>4. ServedFds' = ServedFds \ {f}
  <2>1. \A v \in Served : serving[v].task.fd = f => v = w
    BY <1>2 DEF OwnerInv, TokenInv
  <2> QED
    BY <1>2, <1>3, <2>1 DEF ServedFds
<1> HIDE DEF t, f
<1>5. f \notin FdsOf(completed) /\ f \notin FdsOf(done) /\ f \notin FdsOf(queue)
  BY <1>2 DEF OwnerInv, TokenInv, DoneFds
<1>6. /\ FdsOf(completed') = FdsOf(completed) \cup {f} /\ Distinct(completed')
      /\ FdsOf(completed)' = FdsOf(completed') /\ (Distinct(completed)' <=> Distinct(completed'))
  <2>1. FdsOf(completed') = FdsOf(completed) \cup {f} /\ Distinct(completed')
    BY <1>1, <1>2, <1>5, AppendFds DEF OwnerInv, TokenInv
  <2> QED
    BY <2>1 DEF FdsOf, Distinct
<1>7. FdsOf(queue)' = FdsOf(queue) /\ FdsOf(done)' = FdsOf(done) /\ DoneFds' = DoneFds \cup {f}
  <2>1. FdsOf(queue)' = FdsOf(queue) /\ FdsOf(done)' = FdsOf(done)
    BY <1>1 DEF FdsOf
  <2> QED
    BY <1>6, <2>1 DEF DoneFds
<1>8. Away' = Away
  BY <1>2, <1>4, <1>7 DEF Away
<1>9. TokenInv'
  <2>1. Distinct(queue)' /\ Distinct(done)'
    BY <1>1 DEF OwnerInv, TokenInv, Distinct
  <2>2. \A v, x \in Served' : serving'[v].task.fd = serving'[x].task.fd => v = x
    BY <1>3 DEF OwnerInv, TokenInv
  <2> QED
    BY <1>4, <1>5, <1>6, <1>7, <2>1, <2>2 DEF OwnerInv, TokenInv
<1>10. TaskInv'
  <2>1. InHand(t, 0)
    BY <1>1, <1>2 DEF OwnerInv, TalkInv, TaskInv, t
  <2>2. Aligned(conn[f], rcvd[conn[f]], Len(out[conn[f]]))
    <3>1. conn[f] = t.conn /\ t.req = Len(out[t.conn]) + 0 /\ Aligned(t.conn, rcvd[t.conn], t.req)
      BY <2>1 DEF InHand, f
    <3>2. Served \subseteq Workers
      BY DEF Served
    <3>3. t \in Tasks
      BY <1>2, TokenTypes DEF t
    <3>4. Len(out[t.conn]) \in Nat
      BY <3>3, TokenTypes DEF TypeInv, SocketsOK
    <3>5. t.req = Len(out[t.conn])
      BY <3>1, <3>4
    <3> QED
      BY <3>1, <3>5
  <2>3. \A g \in DoneFds \cup {f} : Aligned(conn'[g], rcvd'[conn'[g]], Len(out'[conn'[g]]))
    BY <1>1, <2>2 DEF OwnerInv, TalkInv, TaskInv
  <2>4. \A i \in DOMAIN queue' : InHand(queue[i], 1)'
    BY <1>1 DEF OwnerInv, TalkInv, TaskInv, InHand, Aligned
  <2>5. \A v \in Served' : InHand(serving[v].task, IF serving[v].replied THEN 0 ELSE 1)'
    <3> SUFFICES ASSUME NEW v \in Served \ {w}
                 PROVE  InHand(serving[v].task, IF serving[v].replied THEN 0 ELSE 1)'
      BY <1>3
    <3>1. serving'[v] = serving[v]
      BY <1>3
    <3>2. InHand(serving[v].task, IF serving[v].replied THEN 0 ELSE 1)
      BY DEF OwnerInv, TalkInv, TaskInv
    <3> QED
      BY <1>1, <3>1, <3>2 DEF InHand, Aligned
  <2> QED
    BY <1>7, <2>3, <2>4, <2>5 DEF TaskInv, InHand, Aligned
<1>11. /\ done # <<>> => at = "dispatch"
       /\ at \in {"close", "stopped"} => queue' = <<>> /\ Served' = {}
       /\ at = "stopped" => completed' = <<>>
  BY <1>1, <1>2 DEF OwnerInv, EndInv
<1> QED
  BY <1>1, <1>8, <1>9, <1>10, <1>11, WorkerFrame

\* ExecuteRoute: the descriptor is still the one of the task's connection, and
\* the task's request the next to be answered.
LEMMA OwnerReply ==
    ASSUME TypeInv, TypeInv', OwnerInv, NEW w \in Workers, WorkerReply(w)
    PROVE  OwnerInv'
<1>1. PICK t \in Tasks :
         /\ serving[w] # None /\ ~serving[w].replied /\ t = serving[w].task
         /\ ReplyAll({t.fd}, <<t.conn, t.req>>)
         /\ serving' = [serving EXCEPT ![w].replied = TRUE]
         /\ UNCHANGED <<queue, completed, done, conn, armed, pending, peer, active, rcvd, sent, at,
                        batch, cur>>
  <2>1. serving[w] # None /\ serving[w].task \in Tasks
    BY DEF WorkerReply, TypeInv, OutsideOK, Serving
  <2> QED
    BY <2>1 DEF WorkerReply, locals
<1> DEFINE fd == t.fd
           c == t.conn
           n == t.req
<1>2. w \in Served /\ fd \in ServedFds /\ fd \in Away /\ fd \in Fds /\ c \in Conns /\ n \in Nat
  BY <1>1, TokenTypes DEF Served, Away
<1>3. conn[fd] = c /\ n = Len(out[c]) + 1 /\ Aligned(c, rcvd[c], n)
  BY <1>1, <1>2 DEF OwnerInv, TalkInv, TaskInv, InHand
<1>4. c # None /\ pending[fd] = None
  BY <1>2, RequestIOAssumption DEF OwnerInv, HandInv
<1>5. /\ Served' = Served
      /\ \A v \in Served : /\ serving'[v].task = serving[v].task
                           /\ v # w => serving'[v] = serving[v]
      /\ serving'[w].replied
  <2>1. serving \in [Workers -> Serving \cup {None}] /\ serving[w] \in Serving
    BY <1>1 DEF TypeInv, OutsideOK
  <2>2. \A v \in Workers : serving'[v] = IF v = w THEN [serving[w] EXCEPT !.replied = TRUE]
                                         ELSE serving[v]
    BY <1>1, <2>1
  <2>3. /\ [serving[w] EXCEPT !.replied = TRUE] \in Serving
        /\ [serving[w] EXCEPT !.replied = TRUE].task = serving[w].task
        /\ [serving[w] EXCEPT !.replied = TRUE].replied
    BY <2>1 DEF Serving
  <2>4. [serving[w] EXCEPT !.replied = TRUE] # None
    BY <2>3, RequestIOAssumption
  <2> QED
    BY <1>1, <2>2, <2>3, <2>4 DEF Served
<1>6. ServedFds' = ServedFds
  BY <1>5 DEF ServedFds
<1>7. FdsOf(queue)' = FdsOf(queue) /\ FdsOf(completed)' = FdsOf(completed)
      /\ FdsOf(done)' = FdsOf(done)
  BY <1>1 DEF FdsOf
<1>8. DoneFds' = DoneFds /\ Away' = Away
  BY <1>6, <1>7 DEF DoneFds, Away
<1>9. TokenInv'
  <2>1. Distinct(queue)' /\ Distinct(completed)' /\ Distinct(done)'
    BY <1>1 DEF OwnerInv, TokenInv, Distinct
  <2>2. \A v, x \in Served' : serving'[v].task.fd = serving'[x].task.fd => v = x
    BY <1>5 DEF OwnerInv, TokenInv
  <2> QED
    BY <1>6, <1>7, <1>8, <2>1, <2>2 DEF OwnerInv, TokenInv
<1>10. /\ OutInv' /\ Len(out'[c]) = n
       /\ \A x \in Conns : /\ x # c => out'[x] = out[x]
                           /\ Len(out[x]) <= Len(out'[x])
  <2>1. peer' = peer
    BY <1>1
  <2> QED
    BY <1>1, <1>2, <1>3, <2>1, Answered
<1>11. /\ \A g \in Fds \ {fd} : conn'[g] = conn[g] /\ conn[g] # c
       /\ \A x \in Conns \ {c} : out'[x] = out[x] /\ rcvd'[x] = rcvd[x]
  BY <1>1, <1>2, <1>3, <1>4, <1>10 DEF OwnerInv, PeerInv
<1>12. /\ \A u \in Tasks, k \in Nat : u.fd \in Away \ {fd} /\ InHand(u, k) => InHand(u, k)'
       /\ \A g \in DoneFds \ {fd} : Aligned(conn'[g], rcvd'[conn'[g]], Len(out'[conn'[g]]))
       /\ \A g \in Fds \ {fd} : pending[g] # None =>
             Held(pending[g], conn'[g], rcvd'[conn'[g]], Len(out'[conn'[g]]))
  <2> HIDE DEF fd, c
  <2> QED
    BY <1>2, <1>11, OthersTalk, SMTT(40)
<1>13. TaskInv'
  <2>1. InHand(t, 0)'
    <3>1. conn'[t.fd] = t.conn /\ t.req = Len(out'[t.conn]) + 0
      BY <1>1, <1>2, <1>3, <1>10
    <3> QED
      BY <1>1, <1>3, <3>1 DEF InHand, Aligned
  <2>2. ASSUME NEW u \in Tasks, NEW k \in Nat, InHand(u, k), u.fd \in Away, u.fd # fd
        PROVE  InHand(u, k)'
    BY <1>12, <2>2 DEF InHand, Aligned
  <2>3. ASSUME NEW i \in DOMAIN queue PROVE InHand(queue[i], 1)'
    <3>1. queue[i] \in Tasks /\ queue[i].fd \in FdsOf(queue)
      BY TokenTypes
    <3>2. queue[i].fd \in Away /\ queue[i].fd # fd
      BY <1>2, <3>1 DEF Away, OwnerInv, TokenInv
    <3> DEFINE u == queue[i]
    <3>3. InHand(u, 1) /\ u' = u
      BY <1>1 DEF OwnerInv, TalkInv, TaskInv
    <3>4. u \in Tasks /\ u.fd \in Away /\ u.fd # fd
      BY <3>1, <3>2
    <3> HIDE DEF u
    <3>5. InHand(u, 1)'
      BY <2>2, <3>3, <3>4 DEF InHand
    <3> QED
      BY <3>5 DEF u
  <2>4. ASSUME NEW v \in Served
        PROVE  InHand(serving[v].task, IF serving[v].replied THEN 0 ELSE 1)'
    <3>1. CASE v = w
      <4>1. serving'[v].task = t /\ (IF serving'[v].replied THEN 0 ELSE 1) = 0
        BY <1>1, <1>2, <1>5, <3>1
      <4> QED
        BY <2>1, <4>1 DEF InHand, Aligned
    <3>2. CASE v # w
      <4> DEFINE u == serving[v].task
                 k == IF serving[v].replied THEN 0 ELSE 1
      <4>1. u \in Tasks /\ u.fd \in ServedFds
        BY TokenTypes
      <4>2. u.fd \in Away /\ u.fd # fd
        BY <1>1, <1>2, <3>2, <4>1 DEF Away, OwnerInv, TokenInv
      <4>3. InHand(u, k) /\ u' = u /\ k' = k /\ k \in Nat
        BY <1>5, <3>2 DEF OwnerInv, TalkInv, TaskInv
      <4> HIDE DEF u, k
      <4>4. InHand(u, k)'
        BY <2>2, <4>1, <4>2, <4>3 DEF InHand
      <4> QED
        BY <4>4 DEF u, k
    <3> QED
      BY <3>1, <3>2
  <2>5. \A g \in DoneFds : Aligned(conn'[g], rcvd'[conn'[g]], Len(out'[conn'[g]]))
    <3>1. fd \notin DoneFds
      BY <1>2 DEF OwnerInv, TokenInv
    <3> QED
      BY <1>12, <3>1
  <2> QED
    BY <1>1, <1>5, <1>8, <2>3, <2>4, <2>5, ZenonT(60) DEF TaskInv, InHand, Aligned
<1>14. SentInv'
  <2>1. \A x \in Conns : rcvd'[x] <= sent[x]
    BY <1>1 DEF OwnerInv, TalkInv, SentInv
  <2> QED
    BY <1>1, <1>10, <2>1, SentStays
<1>15. HeldInv'
  <2>1. \A g \in Fds : pending'[g] # None =>
           Held(pending'[g], conn'[g], rcvd'[conn'[g]], Len(out'[conn'[g]]))
    BY <1>1, <1>4, <1>12
  <2> QED
    BY <2>1 DEF HeldInv, Held, Aligned
<1>16. HandInv' /\ PeerInv'
  <2>1. HandInv'
    BY <1>1, <1>8 DEF OwnerInv, HandInv
  <2>2. PeerInv'
    <3>1. \A x \in Conns : peer[x] \in {"new", "backlog"} => x # c
      BY <1>2, <1>3, <1>4 DEF OwnerInv, PeerInv
    <3> QED
      BY <1>1, <1>10, <3>1 DEF OwnerInv, PeerInv
  <2> QED
    BY <2>1, <2>2
<1>17. CountInv' /\ BatchInv' /\ EndInv'
  BY <1>1, <1>5 DEF OwnerInv, CountInv, HardCap, Open, BatchInv, EndInv
<1> QED
  BY <1>9, <1>10, <1>13, <1>14, <1>15, <1>16, <1>17 DEF OwnerInv, TalkInv

-----------------------------------------------------------------------------
(* DrainCompletions, SweepStale and shutdown                               *)

\* The first completion is taken.
LEMMA DoneTail ==
    ASSUME TypeInv, OwnerInv, done # <<>>, done' = Tail(done),
           UNCHANGED <<queue, serving, completed>>
    PROVE  /\ Head(done).fd \in DoneFds /\ Head(done).fd \in Fds
           /\ Head(done).fd \notin FdsOf(queue) \cup ServedFds
           /\ TokenInv' /\ DoneFds' = DoneFds \ {Head(done).fd}
           /\ Away' = Away \ {Head(done).fd} /\ Served' = Served
<1> DEFINE f == Head(done).fd
<1>1. done \in Seq(Completions)
  BY DEF TypeInv, LocalsOK
<1>2. FdsOf(done') = FdsOf(done) \ {f} /\ Distinct(done') /\ f \in FdsOf(done)
  BY <1>1, TailFds DEF OwnerInv, TokenInv
<1>3. FdsOf(done)' = FdsOf(done') /\ (Distinct(done)' <=> Distinct(done'))
  BY DEF FdsOf, Distinct
<1> HIDE DEF f
<1>4. /\ Served' = Served /\ ServedFds' = ServedFds /\ FdsOf(queue)' = FdsOf(queue)
      /\ FdsOf(completed)' = FdsOf(completed)
  BY DEF Served, ServedFds, FdsOf
<1>5. f \in DoneFds /\ f \notin FdsOf(completed) /\ f \notin FdsOf(queue) \cup ServedFds
  BY <1>2 DEF OwnerInv, TokenInv, DoneFds
<1>6. f \in Fds
  BY <1>5, TokenTypes DEF Away
<1>7. DoneFds' = DoneFds \ {f}
  BY <1>2, <1>3, <1>4, <1>5 DEF DoneFds
<1>8. Away' = Away \ {f}
  BY <1>4, <1>5, <1>7 DEF Away
<1>9. TokenInv'
  <2>1. Distinct(queue)' /\ Distinct(completed)'
    BY DEF OwnerInv, TokenInv, Distinct
  <2>2. \A v, x \in Served' : serving'[v].task.fd = serving'[x].task.fd => v = x
    BY <1>4 DEF OwnerInv, TokenInv
  <2> QED
    BY <1>2, <1>3, <1>4, <1>7, <2>1, <2>2 DEF OwnerInv, TokenInv
<1> QED
  BY <1>4, <1>5, <1>6, <1>7, <1>8, <1>9 DEF f

LEMMA OwnerDrain ==
    ASSUME TypeInv, TypeInv', OwnerInv, DrainClose \/ DrainRearm
    PROVE  OwnerInv'
<1> DEFINE fd == Head(done).fd
<1>1. /\ at = "dispatch" /\ done # <<>> /\ done' = Tail(done)
      /\ UNCHANGED <<queue, serving, completed, sent, rcvd, out, batch>>
  BY DEF DrainClose, DrainRearm, outside
<1>2. /\ fd \in DoneFds /\ fd \in Fds /\ fd \notin FdsOf(queue) \cup ServedFds
      /\ TokenInv' /\ DoneFds' = DoneFds \ {fd} /\ Away' = Away \ {fd} /\ Served' = Served
  BY <1>1, DoneTail
<1>3. pending[fd] = None /\ conn[fd] # None /\ fd \in Away
  <2>1. fd \in Away
    BY <1>2 DEF Away
  <2> QED
    BY <1>2, <2>1 DEF OwnerInv, HandInv
<1> HIDE DEF fd
<1>4. \A e \in batch : e.kind = "client" => e.fd \in Fds /\ e.fd # fd
  BY <1>3 DEF TypeInv, LocalsOK, OwnerInv, BatchInv
<1>5. CASE DrainClose
  <2>1. Release(fd) /\ at' = at
    BY <1>5 DEF DrainClose, fd
  <2>2. /\ {fd} \in SUBSET Open /\ {fd} \cap (FdsOf(queue) \cup ServedFds) = {}
        /\ DoneFds' = DoneFds \ {fd}
    BY <1>2, <1>3 DEF Open
  <2>3. Cardinality({fd}) = 1
    BY FS_Singleton
  <2>4. CloseAll({fd}) /\ active' = Minus(active, Cardinality({fd}))
    BY <2>1, <2>3 DEF Release
  <2>5. pending' = [g \in Fds |-> IF g \in {fd} THEN None ELSE pending[g]]
    BY <2>1 DEF Release, Drop, TypeInv, MembersOK
  <2>6. /\ OutInv'
        /\ \A x \in Conns : /\ (\A g \in {fd} : conn[g] # x) => out'[x] = out[x]
                            /\ Len(out[x]) <= Len(out'[x])
    BY <1>1, <2>2, <2>4, LastWords
  <2>7. HandInv' /\ PeerInv' /\ CountInv' /\ TalkInv' /\ Open' = Open \ {fd}
    BY <1>1, <1>2, <2>2, <2>4, <2>5, <2>6, ClosingStep
  <2>8. BatchInv'
    <3>1. \A g \in Fds : g # fd => /\ conn'[g] = conn[g] /\ pending'[g] = pending[g]
                                   /\ armed'[g] => armed[g]
      BY <2>4, <2>5 DEF CloseAll
    <3>2. ASSUME NEW e \in batch, e.kind = "client"
          PROVE  pending'[e.fd] # None /\ e.conn = conn'[e.fd] /\ (Pooled => ~armed'[e.fd])
      <4>1. pending[e.fd] # None /\ e.conn = conn[e.fd] /\ (Pooled => ~armed[e.fd])
        BY <3>2 DEF OwnerInv, BatchInv
      <4> QED
        BY <1>4, <3>1, <3>2, <4>1
    <3> QED
      BY <1>1, <2>1, <3>2 DEF OwnerInv, BatchInv
  <2>9. EndInv'
    BY <1>1, <2>1 DEF EndInv
  <2> QED
    BY <1>2, <2>7, <2>8, <2>9 DEF OwnerInv
<1>6. CASE DrainRearm
  <2> DEFINE s == [PendingSlot(fd) EXCEPT !.dated = TRUE, !.expected = 0, !.dispatching = FALSE]
  <2>1. PendingSlot(fd) \in Slots /\ PendingSlot(fd).buffer = <<>>
    <3>1. NewSlot(FALSE) \in Slots /\ NewSlot(FALSE).buffer = <<>>
      BY DEF NewSlot, Slots
    <3> QED
      BY <1>3, <3>1 DEF PendingSlot
  <2>2. s \in Slots /\ s.buffer = <<>> /\ s.expected = 0 /\ ~s.dispatching
    BY <2>1 DEF Slots
  <2>3. s # None
    BY <2>2, RequestIOAssumption
  <2>4. /\ pending' = [pending EXCEPT ![fd] = s] /\ Arm(fd)
        /\ s.buffer = <<>> => at' = at
        /\ UNCHANGED <<peer, conn, active>>
    BY <1>6 DEF DrainRearm, fd
  <2> HIDE DEF s
  <2>5. at' = at
    BY <2>2, <2>4
  <2>6. \A g \in Fds : /\ pending'[g] = IF g = fd THEN s ELSE pending[g]
                       /\ g # fd => armed'[g] = armed[g]
    BY <2>4 DEF Arm, TypeInv, MembersOK, SocketsOK
  <2>7. HandInv'
    BY <1>2, <1>3, <2>2, <2>3, <2>4, <2>6 DEF OwnerInv, HandInv
  <2>8. PeerInv' /\ CountInv'
    BY <1>1, <2>4 DEF OwnerInv, PeerInv, CountInv, HardCap, Open
  <2>9. BatchInv'
    <3>1. ASSUME NEW e \in batch, e.kind = "client"
          PROVE  pending'[e.fd] # None /\ e.conn = conn'[e.fd] /\ (Pooled => ~armed'[e.fd])
      <4>1. pending[e.fd] # None /\ e.conn = conn[e.fd] /\ (Pooled => ~armed[e.fd])
        BY <3>1 DEF OwnerInv, BatchInv
      <4> QED
        BY <1>4, <2>4, <2>6, <3>1, <4>1
    <3> QED
      BY <1>1, <2>5, <3>1 DEF OwnerInv, BatchInv
  <2>10. EndInv'
    BY <1>1, <2>5 DEF EndInv
  <2>11. SentInv' /\ OutInv'
    BY <1>1, <2>4 DEF OwnerInv, TalkInv, SentInv, OutInv
  <2>12. HeldInv'
    <3> DEFINE c == conn[fd]
    <3>1. c \in Conns /\ rcvd[c] \in Nat /\ Len(out[c]) \in Nat /\ Aligned(c, rcvd[c], Len(out[c]))
      <4>1. c \in Conns
        BY <1>2, <1>3 DEF TypeInv, SocketsOK
      <4>2. Aligned(c, rcvd[c], Len(out[c]))
        BY <1>2 DEF OwnerInv, TalkInv, TaskInv
      <4> QED
        BY <4>1, <4>2 DEF TypeInv, SocketsOK
    <3> HIDE DEF c
    <3>2. Held(s, c, rcvd[c], Len(out[c]))
      BY <2>2, <3>1, EmptyHeld
    <3>3. \A g \in Fds : pending'[g] # None =>
             Held(pending'[g], conn'[g], rcvd'[conn'[g]], Len(out'[conn'[g]]))
      BY <1>1, <2>4, <2>6, <3>2, SMTT(40) DEF OwnerInv, TalkInv, HeldInv, c
    <3> QED
      BY <3>3 DEF HeldInv, Held, Aligned
  <2>13. TaskInv'
    <3>1. \A i \in DOMAIN queue : InHand(queue[i], 1)'
      BY <1>1, <2>4 DEF OwnerInv, TalkInv, TaskInv, InHand, Aligned
    <3>2. \A v \in Served : InHand(serving[v].task, IF serving[v].replied THEN 0 ELSE 1)'
      BY <1>1, <2>4 DEF OwnerInv, TalkInv, TaskInv, InHand, Aligned
    <3>3. \A g \in DoneFds : Aligned(conn'[g], rcvd'[conn'[g]], Len(out'[conn'[g]]))
      BY <1>1, <2>4 DEF OwnerInv, TalkInv, TaskInv
    <3> QED
      BY <1>1, <1>2, <3>1, <3>2, <3>3 DEF TaskInv, InHand, Aligned
  <2> QED
    BY <1>2, <2>7, <2>8, <2>9, <2>10, <2>11, <2>12, <2>13 DEF OwnerInv, TalkInv
<1> QED
  BY <1>5, <1>6

LEMMA OwnerSweep ==
    ASSUME TypeInv, TypeInv', OwnerInv, NEW expired \in SUBSET Fds, Sweep(expired)
    PROVE  OwnerInv'
<1>1. /\ expired \in SUBSET Open
      /\ expired \cap Away = {}
  BY DEF Sweep, Sweepable, OwnerInv, HandInv, Open
<1>2. /\ CloseAll(expired) /\ active' = Minus(active, Cardinality(expired))
      /\ ReplyAll(expired, ErrorReply)
      /\ pending' = [fd \in Fds |-> IF fd \in expired THEN None ELSE pending[fd]]
      /\ at = "sweep" /\ at' \in {"kill", "epoll_wait"}
      /\ UNCHANGED <<queue, serving, completed, done, rcvd, sent, batch, cur>>
  BY DEF Sweep, outside, locals
<1>3. /\ OutInv'
      /\ \A c \in Conns : /\ (\A fd \in expired : conn[fd] # c) => out'[c] = out[c]
                          /\ Len(out[c]) <= Len(out'[c])
  BY <1>1, <1>2, LastWords
<1>4. TokenInv' /\ DoneFds' = DoneFds
  BY <1>2, TokensUnchanged DEF OwnerInv
<1>5. expired \cap (FdsOf(queue) \cup ServedFds) = {} /\ DoneFds' = DoneFds \ expired
  BY <1>1, <1>4 DEF Away
<1>6. HandInv' /\ PeerInv' /\ CountInv' /\ TalkInv'
  BY <1>1, <1>2, <1>3, <1>4, <1>5, ClosingStep
<1>7. BatchInv' /\ EndInv'
  BY <1>2 DEF OwnerInv, BatchInv, EndInv
<1> QED
  BY <1>4, <1>6, <1>7 DEF OwnerInv

\* What the pool had completed and what pending_ still holds are all the open
\* descriptors, and none is closed and counted down twice.
LEMMA OwnerShutdown ==
    ASSUME TypeInv, TypeInv', OwnerInv, ShutdownClose
    PROVE  OwnerInv'
<1> DEFINE left == {fd \in Fds \ CompletedFds : pending[fd] # None}
           S == CompletedFds \cup left
<1>1. /\ at = "close" /\ at' = "stopped" /\ CloseAll(S)
      /\ active' = Minus(active, Len(completed) + Cardinality(left))
      /\ completed' = <<>> /\ pending' = [fd \in Fds |-> None]
      /\ UNCHANGED <<queue, serving, done, rcvd, sent, out, batch, cur>>
  BY DEF ShutdownClose, outside, locals
<1>2. queue = <<>> /\ Served = {} /\ done = <<>>
  BY <1>1 DEF OwnerInv, EndInv
<1>3. /\ FdsOf(queue) = {} /\ ServedFds = {} /\ FdsOf(done) = {}
      /\ DoneFds = CompletedFds /\ Away = CompletedFds /\ FdsOf(completed) = CompletedFds
  BY <1>2 DEF FdsOf, ServedFds, DoneFds, CompletedFds, Away
<1>4. S = Open /\ CompletedFds \cap left = {} /\ left \in SUBSET Open /\ CompletedFds \in SUBSET Open
  BY <1>3, TokenTypes DEF OwnerInv, HandInv, Open
<1>5. Cardinality(S) = Len(completed) + Cardinality(left)
  <2>1. IsFiniteSet(CompletedFds) /\ Cardinality(CompletedFds) = Len(completed)
    BY <1>3, DistinctCount DEF TypeInv, MembersOK, OwnerInv, TokenInv
  <2>2. IsFiniteSet(left) /\ Cardinality(left) \in Nat
    BY <1>4, OpenFinite
  <2>3. Len(completed) \in Nat
    BY DEF TypeInv, MembersOK
  <2> HIDE DEF left
  <2>4. Cardinality(CompletedFds \cup left) = Cardinality(CompletedFds) + Cardinality(left)
                                              - Cardinality(CompletedFds \cap left)
    BY <2>1, <2>2, FS_Union
  <2>5. Cardinality(CompletedFds \cap left) = 0
    BY <1>4, FS_EmptySet
  <2> QED
    BY <2>1, <2>2, <2>3, <2>4, <2>5
<1>6. active' = Minus(active, Cardinality(S))
  BY <1>1, <1>5
<1> HIDE DEF S
<1>7. pending' = [fd \in Fds |-> IF fd \in S THEN None ELSE pending[fd]]
  <2>1. \A fd \in Fds : fd \notin S => pending[fd] = None
    BY <1>4 DEF OwnerInv, HandInv, Open
  <2> QED
    BY <1>1, <2>1
<1>8. TokenInv' /\ DoneFds' = {} /\ Served' = {}
  <2>1. FdsOf(queue)' = {} /\ FdsOf(completed)' = {} /\ FdsOf(done)' = {}
    BY <1>1, <1>2 DEF FdsOf
  <2>2. Served' = {} /\ ServedFds' = {}
    BY <1>1, <1>2 DEF Served, ServedFds
  <2>3. Distinct(queue)' /\ Distinct(completed)' /\ Distinct(done)'
    BY <1>1, <1>2 DEF Distinct
  <2> QED
    BY <2>1, <2>2, <2>3 DEF TokenInv, DoneFds
<1>9. S \in SUBSET Open /\ S \cap (FdsOf(queue) \cup ServedFds) = {} /\ DoneFds' = DoneFds \ S
  BY <1>3, <1>4, <1>8 DEF S
<1>10. /\ OutInv'
       /\ \A c \in Conns : /\ (\A fd \in S : conn[fd] # c) => out'[c] = out[c]
                           /\ Len(out[c]) <= Len(out'[c])
  BY <1>1, <1>9, LastWords DEF S
<1>11. HandInv' /\ PeerInv' /\ CountInv' /\ TalkInv' /\ Open' = Open \ S
  <2>1. CloseAll(S)
    BY <1>1 DEF S
  <2> QED
    BY <1>1, <1>6, <1>7, <1>8, <1>9, <1>10, <2>1, ClosingStep
<1>12. BatchInv' /\ EndInv'
  BY <1>1, <1>2, <1>4, <1>8, <1>11 DEF OwnerInv, BatchInv, EndInv
<1> QED
  BY <1>8, <1>11, <1>12 DEF OwnerInv

LEMMA OwnerInit == Init => OwnerInv
<1> SUFFICES ASSUME Init PROVE OwnerInv
  OBVIOUS
<1>1. /\ queue = <<>> /\ completed = <<>> /\ done = <<>> /\ batch = {} /\ at = "epoll_wait"
      /\ active = 0
  BY DEF Init
<1>2. \A fd \in Fds : conn[fd] = None /\ pending[fd] = None /\ armed[fd] = FALSE
  BY DEF Init
<1>3. \A c \in Conns : peer[c] = "new" /\ sent[c] = 0 /\ rcvd[c] = 0 /\ out[c] = <<>>
  BY DEF Init
<1>4. Served = {}
  BY DEF Init, Served
<1>5. /\ FdsOf(queue) = {} /\ FdsOf(completed) = {} /\ FdsOf(done) = {} /\ ServedFds = {}
      /\ Distinct(queue) /\ Distinct(completed) /\ Distinct(done)
  BY <1>1, <1>4 DEF FdsOf, ServedFds, Distinct
<1>6. DoneFds = {} /\ Away = {}
  BY <1>5 DEF DoneFds, Away
<1>7. TokenInv /\ HandInv
  BY <1>2, <1>4, <1>5, <1>6 DEF TokenInv, HandInv
<1>8. Open = {} /\ Cardinality(Open) = 0
  BY <1>2, FS_EmptySet DEF Open
<1>9. PeerInv /\ CountInv /\ BatchInv /\ EndInv
  <2>1. CountInv
    BY <1>1, <1>8, RequestIOAssumption DEF CountInv, HardCap
  <2>2. PeerInv
    BY <1>2, <1>3 DEF PeerInv
  <2>3. BatchInv /\ EndInv
    BY <1>1, <1>8 DEF BatchInv, EndInv
  <2> QED
    BY <2>1, <2>2, <2>3
<1>10. TalkInv
  <2>1. SentInv
    <3>1. \A c \in Conns : rcvd[c] <= sent[c] /\ 1 .. sent[c] = {}
      BY <1>3
    <3> QED
      BY <3>1 DEF SentInv
  <2>2. HeldInv
    BY <1>2 DEF HeldInv
  <2>3. TaskInv
    BY <1>1, <1>4, <1>6 DEF TaskInv
  <2>4. OutInv
    BY <1>3 DEF OutInv
  <2> QED
    BY <2>1, <2>2, <2>3, <2>4 DEF TalkInv
<1> QED
  BY <1>7, <1>9, <1>10 DEF OwnerInv

LEMMA OwnerStep ==
    ASSUME InTurn, TypeInv, TypeInv', OwnerInv, [Next]_vars
    PROVE  OwnerInv'
<1>1. CASE UNCHANGED vars
  <2>1. UNCHANGED <<queue, serving, completed, done, conn, armed, pending, peer, active, rcvd, out,
                    sent, at, batch, cur>>
    BY <1>1 DEF vars, outside, sockets, members, locals
  <2>2. TokenInv' /\ HandInv' /\ PeerInv' /\ CountInv' /\ TalkInv' /\ Open' = Open
    BY <2>1, QuietStep
  <2>3. BatchInv' /\ EndInv'
    BY <2>1, <2>2, TokensUnchanged DEF OwnerInv, BatchInv, EndInv
  <2> QED
    BY <2>2, <2>3 DEF OwnerInv
<1>2. CASE StopListening \/ \E c \in Conns : Client(c)
  BY <1>2, OwnerClients
<1>3. ASSUME NEW w \in Workers, Worker(w) PROVE OwnerInv'
  BY <1>3, OwnerPop, OwnerReply, OwnerComplete DEF Worker
<1>4. CASE HandleReadable
  <2>1. CASE ReceiveError \/ ReceiveTooLarge \/ \E eof \in BOOLEAN : Receive(eof)
    BY <2>1, OwnerRead
  <2>2. ASSUME NEW fd \in Fds, FrameReject(fd) \/ FrameWait(fd) \/ FrameShed(fd) PROVE OwnerInv'
    BY <2>2, OwnerWait
  <2>3. ASSUME NEW fd \in Fds, FrameDispatch(fd) PROVE OwnerInv'
    BY <2>3, OwnerSubmit
  <2>4. ASSUME NEW fd \in Fds, FrameServe(fd) PROVE OwnerInv'
    BY <2>4, OwnerServe
  <2> QED
    BY <1>4, <2>1, <2>2, <2>3, <2>4 DEF HandleReadable
<1>5. CASE \/ EpollWait \/ EpollTimeout \/ WaitFails \/ DispatchEnd \/ AcceptEnd \/ ShutdownKill
           \/ Hangup
           \/ \E e \in batch : DispatchEvent(e)
  BY <1>5, OwnerDispatch
<1>6. ASSUME NEW c \in Conns, Accept(c) \/ AcceptRefuse(c) \/ AcceptFails(c) PROVE OwnerInv'
  BY <1>6, OwnerAccept
<1>7. CASE DrainClose \/ DrainRearm
  BY <1>7, OwnerDrain
<1>8. ASSUME NEW expired \in SUBSET Fds, Sweep(expired) PROVE OwnerInv'
  BY <1>8, OwnerSweep
<1>9. CASE ShutdownClose
  BY <1>9, OwnerShutdown
<1>10. CASE Loop
  BY <1>4, <1>5, <1>6, <1>7, <1>8, <1>9, <1>10 DEF Loop
<1> QED
  BY <1>1, <1>2, <1>3, <1>5, <1>10 DEF Next, Terminated

LEMMA OwnerInductive ==
    ASSUME InTurn
    PROVE  Spec => [](TypeInv /\ OwnerInv)
<1>1. TypeInv /\ TypeInv' /\ OwnerInv /\ [Next]_vars => OwnerInv'
  BY OwnerStep
<1> QED
  BY <1>1, OwnerInit, TypeInductive, PTL DEF Spec

-----------------------------------------------------------------------------
(* What follows, in inline mode and in pool mode with clients that wait    *)

\* active_connections_ is the number of open connections.
THEOREM CounterExact ==
    ASSUME InTurn
    PROVE  Spec => []CounterIsOpenSockets
<1>1. OwnerInv => CounterIsOpenSockets
  BY DEF OwnerInv, CountInv, CounterIsOpenSockets
<1> QED
  BY <1>1, OwnerInductive, PTL

\* AcceptPending's test against max_connections is the hard cap it should be:
\* no more connections are open, whichever were refused, rejected, swept,
\* completed by the workers or closed before.
THEOREM CapIsHard ==
    ASSUME InTurn
    PROVE  Spec => []HardCap
<1>1. OwnerInv => HardCap
  BY DEF OwnerInv, CountInv
<1> QED
  BY <1>1, OwnerInductive, PTL

\* Every open connection is in one hand, the loop's or that of one task or one
\* completion, and a closed descriptor in nobody's: no slot leaks, none
\* outlives its connection, and none is handled by the loop and a worker.
THEOREM OneOwner ==
    ASSUME InTurn
    PROVE  Spec => []SingleOwner
<1>1. ASSUME TypeInv, OwnerInv, NEW fd \in Fds
      PROVE  IF fd \in Open THEN InFlight(fd) + (IF WithLoop(fd) THEN 1 ELSE 0) = 1
             ELSE InFlight(fd) = 0 /\ pending[fd] = None
  <2> DEFINE Q == {i \in DOMAIN queue : queue[i].fd = fd}
             W == {w \in Workers : serving[w] # None /\ serving[w].task.fd = fd}
             C == {i \in DOMAIN completed : completed[i].fd = fd}
             D == {i \in DOMAIN done : done[i].fd = fd}
  <2>1. \A T : (\E x : T = {x}) => Cardinality(T) = 1
    BY FS_Singleton
  <2>2. Cardinality({}) = 0
    BY FS_EmptySet
  <2>3. /\ Q = {} \/ \E x : Q = {x}
        /\ C = {} \/ \E x : C = {x}
        /\ D = {} \/ \E x : D = {x}
        /\ W = {} \/ \E x : W = {x}
    <3>1. \A T : (\A x, y \in T : x = y) => T = {} \/ \E x : T = {x}
      <4> SUFFICES ASSUME NEW T, \A x, y \in T : x = y, T # {} PROVE \E x : T = {x}
        OBVIOUS
      <4>1. PICK x : x \in T
        OBVIOUS
      <4>2. T = {x}
        BY <4>1
      <4> QED
        BY <4>2
    <3>2. /\ \A x, y \in Q : x = y
          /\ \A x, y \in C : x = y
          /\ \A x, y \in D : x = y
      BY <1>1 DEF OwnerInv, TokenInv, Distinct
    <3>3. \A x, y \in W : x = y
      BY <1>1 DEF OwnerInv, TokenInv, Served
    <3> HIDE DEF Q, W, C, D
    <3> QED
      BY <3>1, <3>2, <3>3
  <2>4. /\ fd \in FdsOf(queue) <=> Q # {}
        /\ fd \in ServedFds <=> W # {}
        /\ fd \in FdsOf(completed) <=> C # {}
        /\ fd \in FdsOf(done) <=> D # {}
    BY DEF FdsOf, ServedFds, Served
  <2> HIDE DEF Q, W, C, D
  <2>5. /\ Cardinality(Q) = IF fd \in FdsOf(queue) THEN 1 ELSE 0
        /\ Cardinality(W) = IF fd \in ServedFds THEN 1 ELSE 0
        /\ Cardinality(C) = IF fd \in FdsOf(completed) THEN 1 ELSE 0
        /\ Cardinality(D) = IF fd \in FdsOf(done) THEN 1 ELSE 0
    BY <2>1, <2>2, <2>3, <2>4
  <2>6. InFlight(fd) = IF fd \in Away THEN 1 ELSE 0
    <3>1. InFlight(fd) = Cardinality(Q) + Cardinality(W) + Cardinality(C) + Cardinality(D)
      BY DEF InFlight, Q, W, C, D
    <3>2. /\ FdsOf(queue) \cap ServedFds = {}
          /\ (FdsOf(queue) \cup ServedFds) \cap (FdsOf(completed) \cup FdsOf(done)) = {}
          /\ FdsOf(completed) \cap FdsOf(done) = {}
      BY <1>1 DEF OwnerInv, TokenInv, DoneFds
    <3>3. Away = FdsOf(queue) \cup ServedFds \cup FdsOf(completed) \cup FdsOf(done)
      BY DEF Away, DoneFds
    <3> QED
      BY <2>5, <3>1, <3>2, <3>3
  <2>7. /\ fd \in Open <=> pending[fd] # None \/ fd \in Away
        /\ pending[fd] # None => fd \notin Away
        /\ WithLoop(fd) <=> pending[fd] # None
    <3>1. /\ conn[fd] # None <=> pending[fd] # None \/ fd \in Away
          /\ pending[fd] # None => fd \notin Away /\ ~pending[fd].dispatching
      BY <1>1 DEF OwnerInv, HandInv
    <3>2. fd \in Open <=> conn[fd] # None
      BY DEF Open
    <3> QED
      BY <3>1, <3>2 DEF WithLoop
  <2> QED
    BY <2>6, <2>7
<1>2. TypeInv /\ OwnerInv => SingleOwner
  BY <1>1 DEF SingleOwner
<1> QED
  BY <1>2, OwnerInductive, PTL

\* While a batch is worked off, with descriptors closed and given out again,
\* every event still reaches the connection it was reported for.
THEOREM EventsReachTheirs ==
    ASSUME InTurn
    PROVE  Spec => []EventsAreCurrent
<1>1. OwnerInv => EventsAreCurrent
  BY DEF OwnerInv, BatchInv, EventsAreCurrent
<1> QED
  BY <1>1, OwnerInductive, PTL

\* Every client gets the responses to its own requests, in the order of the
\* requests and each once, whatever descriptors are reused meanwhile; an error
\* response is the last.
THEOREM OwnResponsesInOrder ==
    ASSUME InTurn
    PROVE  Spec => []ResponsesInOrder
<1>1. OwnerInv => ResponsesInOrder
  BY DEF OwnerInv, TalkInv, OutInv, ResponsesInOrder
<1> QED
  BY <1>1, OwnerInductive, PTL

\* After shutdown() no connection is open, counted or remembered, and nothing
\* is queued or under way.
THEOREM ShutdownIsClean ==
    ASSUME InTurn
    PROVE  Spec => []CleanShutdown
<1>1. OwnerInv => CleanShutdown
  <2> SUFFICES ASSUME OwnerInv, at = "stopped"
               PROVE  /\ Open = {} /\ active = 0
                      /\ queue = <<>> /\ completed = <<>>
                      /\ \A w \in Workers : serving[w] = None
                      /\ \A fd \in Fds : pending[fd] = None
    BY DEF CleanShutdown
  <2>1. Open = {} /\ queue = <<>> /\ Served = {} /\ completed = <<>>
    BY DEF OwnerInv, EndInv
  <2>2. active = 0
    BY <2>1, FS_EmptySet DEF OwnerInv, CountInv
  <2>3. \A fd \in Fds : pending[fd] = None
    BY <2>1 DEF OwnerInv, HandInv, Open
  <2> QED
    BY <2>1, <2>2, <2>3 DEF Served
<1> QED
  BY <1>1, OwnerInductive, PTL

\* A descriptor is closed only when no task will write to it any more: the loop
\* closes those that it holds itself, or whose completion it has.
THEOREM NoTaskLosesItsFd ==
    ASSUME InTurn
    PROVE  Spec => NoCloseUnderTask
<1> DEFINE Safe == \A fd \in Fds : conn[fd] # None /\ conn'[fd] = None =>
                      /\ \A i \in DOMAIN queue : queue[i].fd # fd
                      /\ \A w \in Workers : serving[w] # None => serving[w].task.fd # fd
\* A step that closes a descriptor leaves the tasks alone, and no closed
\* descriptor has a task.
<1>1. ASSUME [Next]_vars PROVE conn' = conn \/ UNCHANGED <<queue, serving>>
  <2>1. CASE UNCHANGED vars
    BY <2>1 DEF vars, sockets
  <2>2. CASE StopListening \/ \E c \in Conns : Client(c)
    BY <2>2 DEF StopListening, Client, Connect, Send, Leave, outside
  <2>3. CASE \E w \in Workers : Worker(w)
    BY <2>3 DEF Worker, WorkerPop, WorkerReply, WorkerComplete, sockets
  <2>4. CASE HandleReadable
    <3>1. CASE ReceiveError \/ ReceiveTooLarge \/ \E eof \in BOOLEAN : Receive(eof)
      BY <3>1 DEF ReceiveError, ReceiveTooLarge, Receive, outside
    <3>2. ASSUME NEW fd \in Fds,
                 FrameReject(fd) \/ FrameWait(fd) \/ FrameShed(fd) \/ FrameServe(fd)
          PROVE  UNCHANGED <<queue, serving>>
      BY <3>2 DEF FrameReject, FrameWait, FrameShed, FrameServe, outside
    <3>3. ASSUME NEW fd \in Fds, FrameDispatch(fd) PROVE conn' = conn
      BY <3>3 DEF FrameDispatch, sockets
    <3> QED
      BY <2>4, <3>1, <3>2, <3>3 DEF HandleReadable
  <2>5. CASE \/ EpollWait \/ EpollTimeout \/ WaitFails \/ DispatchEnd \/ AcceptEnd \/ ShutdownKill
           \/ Hangup
             \/ \E e \in batch : DispatchEvent(e)
    BY <2>5 DEF EpollWait, EpollTimeout, WaitFails, DispatchEnd, AcceptEnd, ShutdownKill, Hangup,
       DispatchEvent, outside
  <2>6. CASE \/ \E c \in Conns : Accept(c) \/ AcceptRefuse(c) \/ AcceptFails(c)
             \/ DrainClose \/ DrainRearm
             \/ \E expired \in SUBSET Fds : Sweep(expired)
             \/ ShutdownClose
    BY <2>6 DEF Accept, AcceptRefuse, AcceptFails, DrainClose, DrainRearm, Sweep, ShutdownClose, outside
  <2>7. CASE Loop
    BY <2>4, <2>5, <2>6, <2>7 DEF Loop
  <2> QED
    BY <1>1, <2>1, <2>2, <2>3, <2>5, <2>7 DEF Next, Terminated
<1>2. ASSUME TypeInv, TypeInv', OwnerInv, OwnerInv', [Next]_vars PROVE Safe
  <2> SUFFICES ASSUME NEW fd \in Fds, conn[fd] # None, conn'[fd] = None
               PROVE  /\ \A i \in DOMAIN queue : queue[i].fd # fd
                      /\ \A w \in Workers : serving[w] # None => serving[w].task.fd # fd
    OBVIOUS
  <2>1. UNCHANGED <<queue, serving>>
    BY <1>1, <1>2
  <2>2. fd \notin Away'
    BY <1>2 DEF OwnerInv, HandInv
  <2>3. FdsOf(queue)' = FdsOf(queue) /\ ServedFds' = ServedFds
    BY <2>1 DEF FdsOf, ServedFds, Served
  <2>4. fd \notin FdsOf(queue) /\ fd \notin ServedFds
    BY <2>2, <2>3 DEF Away
  <2> QED
    BY <2>4 DEF FdsOf, ServedFds, Served
<1>3. TypeInv /\ TypeInv' /\ OwnerInv /\ OwnerInv' /\ [Next]_vars => [Safe]_vars
  BY <1>2
<1>4. TypeInv /\ OwnerInv /\ (TypeInv /\ OwnerInv)' /\ [Next]_vars => [Safe]_vars
  BY <1>3
<1> QED
  BY <1>4, OwnerInductive, PTL DEF Spec, NoCloseUnderTask

-----------------------------------------------------------------------------
(* What was received *)

\* Along a stream the requests are numbered upwards.
LEMMA StreamOrder ==
    ASSUME NEW c \in Conns, NEW i \in 1 .. Len(Stream[c]), NEW j \in 1 .. Len(Stream[c]), i <= j
    PROVE  Stream[c][i].req <= Stream[c][j].req
<1> DEFINE s == Stream[c]
           l == Len(s)
           T == {n \in Nat : i + n <= l => s[i].req <= s[i + n].req}
<1>1. l \in Nat /\ i \in Nat /\ i > 0 /\ \A x \in 1 .. l : s[x].req \in Nat
  BY StreamType
<1>2. ASSUME NEW x \in 1 .. l - 1 PROVE s[x].req <= s[x + 1].req
  <2>1. s[x] \in Parts /\ s[x].req \in Nat
    BY <1>1, StreamType
  <2>2. IF s[x].part < s[x].parts THEN s[x + 1] = [s[x] EXCEPT !.part = @ + 1]
        ELSE s[x + 1].req = s[x].req + 1 /\ s[x + 1].part = 1
    BY StreamAssumption
  <2>3. CASE s[x].part < s[x].parts
    BY <2>1, <2>2, <2>3 DEF Parts
  <2>4. CASE ~(s[x].part < s[x].parts)
    BY <2>1, <2>2, <2>4
  <2> QED
    BY <2>3, <2>4
<1> HIDE DEF s, l
<1>3. 0 \in T
  BY <1>1
<1>4. ASSUME NEW n \in Nat, n \in T PROVE n + 1 \in T
  <2> SUFFICES ASSUME i + (n + 1) <= l PROVE s[i].req <= s[i + (n + 1)].req
    OBVIOUS
  <2>1. i + n \in 1 .. l - 1 /\ i + n \in 1 .. l /\ (i + n) + 1 \in 1 .. l
    BY <1>1
  <2>2. s[i].req <= s[i + n].req
    BY <1>1, <1>4, <2>1
  <2>3. s[i + n].req <= s[(i + n) + 1].req
    BY <1>2, <2>1
  <2>4. (i + n) + 1 = i + (n + 1)
    BY <1>1
  <2>5. s[i].req \in Nat /\ s[i + n].req \in Nat /\ s[(i + n) + 1].req \in Nat
    BY <1>1, <2>1
  <2> QED
    BY <2>2, <2>3, <2>4, <2>5
<1>5. Nat \subseteq T
  <2> HIDE DEF T
  <2> QED
    BY <1>3, <1>4, SetInduction
<1>6. j - i \in Nat /\ i + (j - i) = j /\ j <= l
  BY <1>1 DEF l, s
<1>7. s[i].req <= s[i + (j - i)].req
  BY <1>5, <1>6
<1> QED
  BY <1>6, <1>7 DEF s

\* The first k parts are those of the first n requests, and no others.
LEMMA AlignedCuts ==
    ASSUME NEW c \in Conns, NEW k \in 0 .. Len(Stream[c]), NEW n \in Nat, Aligned(c, k, n)
    PROVE  \A i \in DOMAIN Stream[c] : Stream[c][i].req <= n <=> i <= k
<1> SUFFICES ASSUME NEW i \in 1 .. Len(Stream[c])
             PROVE  Stream[c][i].req <= n <=> i <= k
  BY StreamType
<1> DEFINE s == Stream[c]
           l == Len(s)
<1>1. l \in Nat /\ \A x \in 1 .. l : s[x].req \in Nat
  BY StreamType
<1>2. CASE i <= k
  <2>1. k \in 1 .. l /\ s[k].req = n
    BY <1>1, <1>2 DEF Aligned
  <2>2. s[i].req <= s[k].req
    BY <1>2, <2>1, StreamOrder
  <2> QED
    BY <1>2, <2>1, <2>2
<1>3. CASE ~(i <= k)
  <2>1. k + 1 \in 1 .. l /\ k + 1 <= i /\ k < l
    BY <1>1, <1>3
  <2>2. s[k + 1].req = n + 1
    BY <2>1 DEF Aligned
  <2>3. s[k + 1].req <= s[i].req
    BY <2>1, StreamOrder
  <2>4. s[i].req \in Nat
    BY <1>1
  <2> QED
    BY <1>3, <2>2, <2>3, <2>4
<1> QED
  BY <1>2, <1>3

\* The tasks of a descriptor still to be answered: one if it has a task in the
\* queue or with a worker that has not replied, none otherwise.
LEMMA TakenCount ==
    ASSUME TypeInv, OwnerInv, NEW fd \in Fds
    PROVE  Taken(fd) = IF \/ fd \in FdsOf(queue)
                          \/ \E w \in Served : serving[w].task.fd = fd /\ ~serving[w].replied
                       THEN 1 ELSE 0
<1> DEFINE Q == {i \in DOMAIN queue : queue[i].fd = fd}
           W == {w \in Workers : serving[w] # None /\ serving[w].task.fd = fd /\ ~serving[w].replied}
<1>1. \A T : (\A x, y \in T : x = y) => Cardinality(T) = IF T = {} THEN 0 ELSE 1
  <2> SUFFICES ASSUME NEW T, \A x, y \in T : x = y
               PROVE  Cardinality(T) = IF T = {} THEN 0 ELSE 1
    OBVIOUS
  <2>1. CASE T = {}
    BY <2>1, FS_EmptySet
  <2>2. CASE T # {}
    <3>1. PICK x : x \in T
      BY <2>2
    <3>2. T = {x}
      BY <3>1
    <3> QED
      BY <2>2, <3>2, FS_Singleton
  <2> QED
    BY <2>1, <2>2
<1>2. \A x, y \in Q : x = y
  BY DEF OwnerInv, TokenInv, Distinct
<1>3. \A x, y \in W : x = y
  BY DEF OwnerInv, TokenInv, Served
<1>4. fd \in FdsOf(queue) <=> Q # {}
  BY DEF FdsOf
<1>5. (\E w \in Served : serving[w].task.fd = fd /\ ~serving[w].replied) <=> W # {}
  BY DEF Served
<1>6. Q # {} => W = {}
  <2>1. W # {} => fd \in ServedFds
    BY DEF ServedFds, Served
  <2> QED
    BY <1>4, <2>1 DEF OwnerInv, TokenInv
<1>7. Taken(fd) = Cardinality(Q) + Cardinality(W)
  BY DEF Taken
<1> HIDE DEF Q, W
<1>8. Cardinality(Q) = (IF Q = {} THEN 0 ELSE 1) /\ Cardinality(W) = (IF W = {} THEN 0 ELSE 1)
  BY <1>1, <1>2, <1>3
<1> QED
  BY <1>4, <1>5, <1>6, <1>7, <1>8

\* Of what an open connection has received, the slot keeps what belongs to no
\* request that is answered or has a task.
LEMMA ReceivedKept ==
    ASSUME TypeInv, OwnerInv, NEW fd \in Open
    PROVE  LET c == conn[fd]
               left == rcvd[c] - Len(Buffered(fd))
               requests == Len(out[c]) + Taken(fd)
           IN  /\ Len(Buffered(fd)) <= rcvd[c]
               /\ \A i \in DOMAIN Buffered(fd) : Buffered(fd)[i] = Stream[c][left + i]
               /\ \A i \in DOMAIN Stream[c] : Stream[c][i].req <= requests <=> i <= left
<1> DEFINE c == conn[fd]
           r == rcvd[c]
           left == r - Len(Buffered(fd))
           requests == Len(out[c]) + Taken(fd)
<1>1. fd \in Fds /\ c \in Conns /\ c # None
  BY RequestIOAssumption DEF Open, TypeInv, SocketsOK
<1>2. /\ r \in Nat /\ r <= Len(Stream[c]) /\ Len(out[c]) \in Nat /\ Len(Stream[c]) \in Nat
  <2>1. r \in Nat /\ sent[c] \in Nat /\ r <= sent[c] /\ sent[c] <= Len(Stream[c])
    BY <1>1 DEF TypeInv, SocketsOK, OutsideOK, OwnerInv, TalkInv, SentInv
  <2>2. out[c] \in Seq((Conns \cup {None}) \X Nat)
    BY <1>1 DEF TypeInv, SocketsOK
  <2>3. Len(out[c]) \in Nat
    BY <2>2
  <2> QED
    BY <1>1, <2>1, <2>3, StreamType
<1>3. CASE pending[fd] # None
  <2>1. Held(pending[fd], c, r, Len(out[c])) /\ Buffered(fd) = pending[fd].buffer
    BY <1>1, <1>3 DEF OwnerInv, TalkInv, HeldInv, Buffered
  <2>2. Taken(fd) = 0
    <3>1. fd \notin FdsOf(queue) /\ fd \notin ServedFds
      BY <1>1, <1>3 DEF OwnerInv, HandInv, Away
    <3>2. ~ \E w \in Served : serving[w].task.fd = fd /\ ~serving[w].replied
      BY <3>1 DEF ServedFds
    <3> QED
      BY <1>1, <3>1, <3>2, TakenCount
  <2>3. Buffered(fd) \in Seq(Parts)
    BY <1>1, <1>3, <2>1 DEF TypeInv, MembersOK, Slots
  <2>4. /\ Len(Buffered(fd)) \in Nat /\ DOMAIN Buffered(fd) = 1 .. Len(Buffered(fd))
        /\ Len(Buffered(fd)) <= r /\ Aligned(c, left, Len(out[c]))
        /\ \A i \in 1 .. Len(Buffered(fd)) : Buffered(fd)[i] = Stream[c][left + i]
    BY <2>1, <2>3 DEF Held
  <2>5. left \in 0 .. Len(Stream[c]) /\ requests = Len(out[c])
    <3> HIDE DEF r, c
    <3> QED
      BY <1>2, <2>2, <2>4
  <2>6. \A i \in DOMAIN Stream[c] : Stream[c][i].req <= Len(out[c]) <=> i <= left
    <3> HIDE DEF left, c
    <3> QED
      BY <1>1, <1>2, <2>4, <2>5, AlignedCuts
  <2> QED
    BY <2>4, <2>5, <2>6
<1>4. CASE pending[fd] = None
  <2>1. fd \in Away /\ Buffered(fd) = <<>>
    BY <1>1, <1>4 DEF OwnerInv, HandInv, Buffered
  <2>2. left = r
    <3>1. Len(<<>>) = 0
      OBVIOUS
    <3> HIDE DEF r
    <3> QED
      BY <1>2, <2>1, <3>1
  <2>3. requests \in Nat /\ Aligned(c, r, requests)
    <3>1. ASSUME fd \in FdsOf(queue) PROVE requests \in Nat /\ Aligned(c, r, requests)
      <4>1. Taken(fd) = 1
        BY <1>1, <3>1, TakenCount
      <4>2. PICK i \in DOMAIN queue : queue[i].fd = fd
        BY <3>1 DEF FdsOf
      <4>3. InHand(queue[i], 1)
        BY DEF OwnerInv, TalkInv, TaskInv
      <4>4. /\ queue[i].conn = c /\ queue[i].req = Len(out[c]) + 1 /\ Aligned(c, r, queue[i].req)
        BY <4>2, <4>3 DEF InHand
      <4> QED
        BY <1>2, <4>1, <4>4
    <3>2. ASSUME NEW w \in Served, serving[w].task.fd = fd
          PROVE  requests \in Nat /\ Aligned(c, r, requests)
      <4>1. fd \notin FdsOf(queue) /\ \A v \in Served : serving[v].task.fd = fd => v = w
        BY <3>2 DEF OwnerInv, TokenInv, ServedFds
      <4>2. Taken(fd) = IF serving[w].replied THEN 0 ELSE 1
        BY <1>1, <3>2, <4>1, TakenCount
      <4>3. InHand(serving[w].task, IF serving[w].replied THEN 0 ELSE 1)
        BY DEF OwnerInv, TalkInv, TaskInv
      <4>4. InHand(serving[w].task, Taken(fd))
        BY <4>2, <4>3
      <4>5. /\ serving[w].task.conn = c /\ serving[w].task.req = requests
            /\ Aligned(c, r, serving[w].task.req)
        BY <3>2, <4>4 DEF InHand
      <4>6. Taken(fd) \in Nat
        BY <4>2
      <4> QED
        BY <1>2, <4>5, <4>6
    <3>3. ASSUME fd \in DoneFds PROVE requests \in Nat /\ Aligned(c, r, requests)
      <4>1. fd \notin FdsOf(queue) /\ fd \notin ServedFds
        BY <3>3 DEF OwnerInv, TokenInv
      <4>2. Taken(fd) = 0
        <5>1. ~ \E w \in Served : serving[w].task.fd = fd /\ ~serving[w].replied
          BY <4>1 DEF ServedFds
        <5> QED
          BY <1>1, <4>1, <5>1, TakenCount
      <4>3. Aligned(c, r, Len(out[c]))
        BY <3>3 DEF OwnerInv, TalkInv, TaskInv
      <4>4. requests = Len(out[c])
        BY <1>2, <4>2
      <4> QED
        BY <1>2, <4>3, <4>4
    <3> QED
      BY <2>1, <3>1, <3>2, <3>3 DEF Away, ServedFds
  <2>4. r \in 0 .. Len(Stream[c])
    <3> HIDE DEF r, c
    <3> QED
      BY <1>2
  <2>5. \A i \in DOMAIN Stream[c] : Stream[c][i].req <= requests <=> i <= r
    <3> HIDE DEF requests, r, c
    <3> QED
      BY <1>1, <2>3, <2>4, AlignedCuts
  <2>6. Len(Buffered(fd)) = 0 /\ DOMAIN Buffered(fd) = {}
    BY <2>1
  <2>7. Len(Buffered(fd)) <= r
    <3> HIDE DEF r
    <3> QED
      BY <1>2, <2>6
  <2> HIDE DEF requests, r, left
  <2>8. /\ Len(Buffered(fd)) <= r
        /\ \A i \in DOMAIN Buffered(fd) : Buffered(fd)[i] = Stream[c][left + i]
        /\ \A i \in DOMAIN Stream[c] : Stream[c][i].req <= requests <=> i <= left
    BY <2>2, <2>5, <2>6, <2>7
  <2> QED
    BY <2>8 DEF requests, r, left
<1> QED
  BY <1>3, <1>4

\* Of what was received on an open connection nothing is lost and nothing is
\* served twice or in part: the buffer of its slot starts where the last request
\* ends that was answered or is a task's, for any streams, descriptors, workers
\* and sizes of the queue.
THEOREM ReceivedIsKept ==
    ASSUME InTurn
    PROVE  Spec => []NothingReceivedIsLost
<1>1. TypeInv /\ OwnerInv => NothingReceivedIsLost
  BY ReceivedKept DEF NothingReceivedIsLost
<1> QED
  BY <1>1, OwnerInductive, PTL
=============================================================================
