---------------------------- MODULE RouterEpoll ----------------------------
(***************************************************************************)
(* The life of a server (vermell.h, request/router_epoll.h): the program   *)
(* sets its configuration, listens - one event loop per accept thread,     *)
(* each with a listener and an epoll descriptor of its own - and stops.    *)
(* Set-up can fail at every descriptor.  What a loop does with its events  *)
(* is RequestIO's.                                                         *)
(*                                                                         *)
(* A field "timeout" stands for the four timeouts of the configuration,    *)
(* and a port of 0 for "none given".  Configuring while getMainProcess     *)
(* sets its loops up, or from two threads at once, is a data race of the   *)
(* program's and left out.                                                 *)
(***************************************************************************)
EXTENDS Integers, Sequences

CONSTANTS
    Ports, MinPort, DefPort,
    Cores,          \* hardware_concurrency
    Asks,           \* the values a program may ask for, by field
    Lowest, Highest,\* the bounds of each field
    Defaults,       \* Config's own values
    MaxChanges,     \* bound: calls that change the configuration
    MaxListens      \* bound: calls of listen() and listenOne()

Fields == DOMAIN Asks

ASSUME RouterEpollAssumption ==
    /\ Ports \subseteq Nat /\ MinPort \in Nat \ {0} /\ DefPort >= MinPort
    /\ Cores \in Nat /\ MaxChanges \in Nat /\ MaxListens \in Nat
    /\ Fields = {"threads", "accept_threads", "read_chunk", "timeout"}
    /\ Defaults \in [Fields -> Int]
    /\ \A f \in Fields : /\ Asks[f] \subseteq Int
                         /\ Lowest[f] \in Nat /\ Highest[f] \in Nat
                         /\ Defaults[f] \in Lowest[f] .. Highest[f]
    /\ Lowest["threads"] = 0 /\ Lowest["accept_threads"] = 0
    /\ Lowest["read_chunk"] = 1 /\ Lowest["timeout"] = 1

VARIABLES
    config,         \* Vermell::config_
    port,           \* Engine::PORT of tcpControl
    status,         \* listen_status_
    stage,          \* where getMainProcess is, "idle" when nobody is in it
    unique,         \* _listen_type = UNIQUE
    accept_count,
    served,         \* the configuration the RequestIOs hold
    loops,          \* the loops set up so far: listener and epfd
    loop_state,     \* "new", "running" or "ended" for each loop
    requests,       \* requests_: the loops with a RequestIO that is kept
    socket,         \* tcpControl's socket_id
    bound,          \* the ports the open listeners are bound to
    pool,           \* pool_ and configured_threads_: number of threads, 0 without
    pool_killed,
    handled,        \* the loop of listenOne() has handled a connection
    open,           \* the descriptors that are open
    stray,          \* history: a descriptor was closed that was not open
    wanted,         \* history: the last valid port asked for
    told,           \* history: what it was when listen() was called last
    listens, changes

vars == <<config, port, status, stage, unique, accept_count, served, loops, loop_state, requests, socket,
          bound, pool, pool_killed, handled, open, stray, wanted, told, listens, changes>>

apiVars == <<config, port, wanted, changes>>
poolVars == <<pool, pool_killed>>
fdVars == <<loops, socket, bound, told, open, stray>>

None == <<>>

\* getPort: what is below MinPort means the default.
PortOf(given) == IF given >= MinPort THEN given ELSE DefPort

Init ==
    \E p \in Ports :
        /\ config = [port |-> IF p >= MinPort THEN p ELSE 0, values |-> Defaults]
        /\ port = PortOf(config.port) /\ wanted = PortOf(p) /\ told = PortOf(p)
        /\ status = "START" /\ stage = "idle" /\ unique = FALSE /\ accept_count = 0
        /\ served = Defaults
        /\ loops = <<>> /\ loop_state = <<>> /\ requests = {}
        /\ socket = None /\ bound = {} /\ open = {} /\ stray = FALSE
        /\ pool = 0 /\ pool_killed = FALSE /\ handled = FALSE
        /\ listens = 0 /\ changes = 0

-----------------------------------------------------------------------------
(* The program configures the server *)

\* Out of range means the bound; for read_chunk both ends mean the highest.
Clamp(field, v) ==
    IF v < Lowest[field] THEN (IF field = "read_chunk" THEN Highest[field] ELSE Lowest[field])
    ELSE IF v > Highest[field] THEN Highest[field] ELSE v

MayChange == stage \in {"idle", "running"} /\ changes < MaxChanges

\* setThreads, setAcceptThreads, setReadChunkSize, setReadTimeout, ...: for the next listen().
SetField(field, v) ==
    /\ MayChange
    /\ config' = [config EXCEPT !.values[field] = Clamp(field, v)]
    /\ changes' = changes + 1
    /\ UNCHANGED <<port, status, stage, unique, accept_count, served, loop_state, requests, handled,
                   wanted, listens, poolVars, fdVars>>

\* Only the port of the next listen(): the listeners that are open stay bound
\* to theirs, here and in configure.
SetPort(p) ==
    /\ MayChange
    /\ changes' = changes + 1
    /\ IF p >= MinPort
       THEN /\ config' = [config EXCEPT !.port = p]
            /\ port' = p
            /\ wanted' = p
       ELSE UNCHANGED <<config, port, wanted>>
    /\ UNCHANGED <<status, stage, unique, accept_count, served, loop_state, requests, handled, listens,
                   poolVars, fdVars>>

\* A Config with port 0 keeps the port the server has.
PortAfter_Given(given) == given
PortAfter(given) == IF given < MinPort THEN config.port ELSE given

\* configure: clamps every field, and hands them to loops that run.  A pool that
\* exists is replaced by one of the new size, the old one drained and joined.
Configure(given, values) ==
    LET clamped == [f \in Fields |-> Clamp(f, values[f])]
        resized == pool > 0 /\ clamped["threads"] > 0 /\ clamped["threads"] # pool
    IN  /\ MayChange
        /\ changes' = changes + 1
        /\ config' = [port |-> PortAfter(given), values |-> clamped]
        /\ port' = PortOf(config'.port)
        /\ wanted' = IF given >= MinPort THEN given ELSE wanted
        /\ served' = IF requests = {} THEN served ELSE clamped
        /\ pool' = IF resized THEN clamped["threads"] ELSE pool
        /\ pool_killed' = IF resized THEN FALSE ELSE pool_killed
        /\ UNCHANGED <<status, stage, unique, accept_count, loop_state, requests, handled, listens, fdVars>>

SetListenStatus(s) ==
    /\ status # s
    /\ status' = s
    /\ UNCHANGED <<stage, unique, accept_count, served, loop_state, requests, handled, listens, apiVars,
                   poolVars, fdVars>>

-----------------------------------------------------------------------------
(* getMainProcess *)

AcceptThreads(values) == IF values["accept_threads"] > 0 THEN values["accept_threads"]
                         ELSE IF Cores > 0 THEN Cores ELSE 1

Listen(one) ==
    /\ stage = "idle" /\ listens < MaxListens
    /\ listens' = listens + 1
    /\ stage' = "setup"
    /\ unique' = one
    /\ accept_count' = IF one THEN 1 ELSE AcceptThreads(config.values)
    /\ served' = config.values
    /\ pool' = config.values["threads"]
    /\ pool_killed' = FALSE
    /\ handled' = FALSE
    /\ loops' = <<>> /\ loop_state' = <<>>
    /\ told' = wanted
    /\ UNCHANGED <<status, requests, socket, bound, open, stray, apiVars>>

\* Closing a set of descriptors.
Close(fds) == open' = open \ fds /\ stray' = (stray \/ ~(fds \subseteq open))

\* The descriptors of the loop that is set up next, and of those the failing
\* step had opened itself, all closed again.
NextListener == <<"listener", listens, Len(loops) + 1>>
NextEpoll == <<"epoll", listens, Len(loops) + 1>>

\* on() closes the descriptor tcpControl may still have.
Stale == IF loops = <<>> /\ socket # None THEN {socket} ELSE {}

Opened(outcome) ==
    CASE outcome \in {"ok", "ctl"} -> {NextListener, NextEpoll}
      [] outcome \in {"nonblocking", "epoll"} -> {NextListener}
      [] outcome = "on" -> {}

Closed_ListenerOnly(outcome) == IF outcome \in {"ok", "on"} THEN {} ELSE {NextListener}
Closed(outcome) == IF outcome = "ok" THEN {} ELSE Opened(outcome)

\* One loop: listener, epoll descriptor, RequestIO; or what fails on the way.
\* The eventfd of the RequestIO stays open for good and is not in the model.
SetUpLoop(outcome) ==
    /\ stage = "setup" /\ Len(loops) < accept_count
    /\ open' = ((open \ Stale) \cup Opened(outcome)) \ Closed(outcome)
    /\ stray' = (stray \/ ~(Stale \subseteq open))
    /\ socket' = IF loops # <<>> THEN socket ELSE IF outcome = "ok" THEN NextListener ELSE None
    /\ IF outcome = "ok"
       THEN /\ bound' = bound \cup {port}
            /\ loops' = Append(loops, [listener |-> NextListener, epfd |-> NextEpoll])
            /\ loop_state' = Append(loop_state, "new")
            /\ requests' = requests \cup {Len(loops) + 1}
            /\ stage' = stage
       ELSE /\ stage' = "failed"
            /\ UNCHANGED <<loops, loop_state, requests, bound>>
    /\ UNCHANGED <<status, unique, accept_count, served, handled, listens, told, apiVars, poolVars>>

\* The descriptors of the finished loops; RequestIO::shutdown kills the pool.
CloseLoops ==
    /\ Close({loops[i].epfd : i \in DOMAIN loops} \cup {loops[i].listener : i \in DOMAIN loops})
    /\ socket' = IF loops = <<>> THEN socket ELSE None
    /\ bound' = {}

Leave ==
    /\ CloseLoops
    /\ requests' = {}
    /\ pool_killed' = (pool_killed \/ (pool > 0 /\ loops # <<>>))
    /\ stage' = "idle"
    /\ loops' = <<>> /\ loop_state' = <<>>
    /\ UNCHANGED <<status, unique, accept_count, served, pool, handled, listens, told, apiVars>>

\* The catch block, and the end of getMainProcess.
SetUpFailed == stage = "failed" /\ Leave
TearDown == stage = "running" /\ (\A i \in DOMAIN loops : loop_state[i] = "ended") /\ Leave

\* All loops but the last get a thread.  When the system has none left the
\* exception leaves listen() with threads running that nobody joins.
Started == Len(SelectSeq(loop_state, LAMBDA s : s # "new"))

StartLoop ==
    /\ stage = "setup" /\ Len(loops) = accept_count
    /\ loop_state' = [loop_state EXCEPT ![Started + 1] = "running"]
    /\ stage' = IF Started + 1 = accept_count THEN "running" ELSE stage
    /\ UNCHANGED <<status, unique, accept_count, served, requests, handled, listens, apiVars, poolVars,
                   fdVars>>

StartFails ==
    /\ stage = "setup" /\ Len(loops) = accept_count /\ Started + 1 < accept_count
    /\ stage' = "threw"
    /\ UNCHANGED <<status, unique, accept_count, served, loop_state, requests, handled, listens, apiVars,
                   poolVars, fdVars>>

\* Dispatch of a batch in which a connection is completed or rejected.
HandleConnection ==
    /\ stage = "running" /\ ~handled
    /\ handled' = TRUE
    /\ UNCHANGED <<status, stage, unique, accept_count, served, loop_state, requests, listens, apiVars,
                   poolVars, fdVars>>

End(i) ==
    /\ loop_state' = [loop_state EXCEPT ![i] = "ended"]
    /\ UNCHANGED <<status, stage, unique, accept_count, served, requests, handled, listens, apiVars,
                   poolVars, fdVars>>

\* The condition of the loop, tested after each wait of at most epoll_timeout.
MayEnd_LastOnly(i) == i = accept_count /\ IF unique THEN handled ELSE status # "START"
MayEnd(i) == IF unique THEN handled ELSE status # "START"

LoopEnds(i) == i \in DOMAIN loops /\ loop_state[i] = "running" /\ MayEnd(i) /\ End(i)

\* epoll_wait fails with something else than EINTR.
WaitFails(i) == i \in DOMAIN loops /\ loop_state[i] = "running" /\ End(i)

LoopNumbers == 1 .. (IF Cores > Highest["accept_threads"] THEN Cores ELSE Highest["accept_threads"])

Program ==
    \/ \E f \in Fields : \E v \in Asks[f] : SetField(f, v)
    \/ \E p \in Ports : SetPort(p)
    \/ \E p \in Ports, t \in Asks["threads"], v \in Asks["timeout"] :
           Configure(p, [config.values EXCEPT !["threads"] = t, !["timeout"] = v])
    \/ \E s \in {"START", "STOP"} : SetListenStatus(s)
    \/ \E one \in BOOLEAN : Listen(one)

Next ==
    \/ Program
    \/ \E outcome \in {"ok", "on", "nonblocking", "epoll", "ctl"} : SetUpLoop(outcome)
    \/ SetUpFailed \/ StartLoop \/ StartFails \/ HandleConnection \/ TearDown
    \/ \E i \in LoopNumbers : LoopEnds(i) \/ WaitFails(i)

\* epoll_wait returns within epoll_timeout, and getMainProcess goes on.
Spec ==
    /\ Init /\ [][Next]_vars
    /\ WF_vars(SetUpFailed) /\ WF_vars(StartLoop) /\ WF_vars(TearDown)
    /\ WF_vars(\E outcome \in {"ok", "on", "nonblocking", "epoll", "ctl"} : SetUpLoop(outcome))
    /\ \A i \in LoopNumbers : WF_vars(LoopEnds(i))

-----------------------------------------------------------------------------
(* Properties *)

\* Whenever listen() has returned - stopped, failed at any point of its set-up,
\* or after an epoll error - its listeners and epoll descriptors are closed,
\* each exactly once, and nothing is left that would take part in the next one.
NothingLeftOpen ==
    /\ ~stray
    /\ stage = "idle" => open = {} /\ requests = {} /\ socket = None

\* Every listener of a server is bound to one port, the one last validly given
\* before listen() was called, the default without one; a port given while the
\* loops run moves none of them and is the next call's.  No loop ever runs with
\* a value out of bounds.  Whichever of the setters, configure() and listen()
\* came in between.
ConfigurationHolds ==
    /\ port = wanted
    /\ bound \subseteq {told}
    /\ \A f \in Fields : served[f] \in Lowest[f] .. Highest[f]

\* Stopping works: with STOP set and not taken back listen() returns, with any
\* number of loops.
StopIsFollowed ==
    stage = "running" /\ ~unique /\ status = "STOP" ~> stage = "idle" \/ status = "START"
=============================================================================
