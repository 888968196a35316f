------------------------- MODULE RouterEpollProofs -------------------------
(***************************************************************************)
(* The safety properties of RouterEpoll, for any number of cores, of loops *)
(* and of calls, any bounds of the configuration and any ports.            *)
(***************************************************************************)
EXTENDS RouterEpoll, TLAPS

-----------------------------------------------------------------------------
(* Descriptors *)

Loop(listen, i) == [listener |-> <<"listener", listen, i>>, epfd |-> <<"epoll", listen, i>>]
LoopRecords == {Loop(listen, i) : listen \in Nat, i \in Nat}

\* The loops set up so far are those of this call, in order.
InOrder ==
    /\ listens \in Nat
    /\ loops \in Seq(LoopRecords)
    /\ \A i \in DOMAIN loops : loops[i] = Loop(listens, i)

\* What is open is what the loops have.
OfLoops == {loops[i].epfd : i \in DOMAIN loops} \cup {loops[i].listener : i \in DOMAIN loops}

\* Nothing is left of an earlier call once a new one starts.
DescriptorInv ==
    /\ InOrder
    /\ open = OfLoops
    /\ loops = <<>> => socket = None
    /\ stage = "idle" => loops = <<>> /\ requests = {}
    /\ ~stray

LEMMA DescriptorInit == Init => DescriptorInv
  BY DEF Init, DescriptorInv, InOrder, OfLoops, None

\* The descriptors of the loop set up next are not open yet.
LEMMA NextIsFresh ==
    ASSUME DescriptorInv
    PROVE  NextListener \notin open /\ NextEpoll \notin open
<1>1. \A i \in DOMAIN loops : /\ loops[i].listener = <<"listener", listens, i>>
                              /\ loops[i].epfd = <<"epoll", listens, i>>
                              /\ i \in Nat /\ i # Len(loops) + 1
  BY DEF DescriptorInv, InOrder, Loop
<1>2. QED
  BY <1>1 DEF DescriptorInv, OfLoops, NextListener, NextEpoll

\* A loop that is set up adds its two descriptors.
LEMMA SetUpAdds ==
    ASSUME DescriptorInv, loops' = Append(loops, [listener |-> NextListener, epfd |-> NextEpoll]),
           listens' = listens
    PROVE  InOrder' /\ OfLoops' = OfLoops \cup {NextListener, NextEpoll} /\ loops' # <<>>
<1>1. [listener |-> NextListener, epfd |-> NextEpoll] = Loop(listens, Len(loops) + 1)
  BY DEF Loop, NextListener, NextEpoll
<1>2. Len(loops) + 1 \in Nat
  BY DEF DescriptorInv, InOrder
<1>3. Loop(listens, Len(loops) + 1) \in LoopRecords
  BY <1>2 DEF LoopRecords, DescriptorInv, InOrder
<1>4. /\ loops' \in Seq(LoopRecords)
      /\ DOMAIN loops' = DOMAIN loops \cup {Len(loops) + 1}
      /\ \A i \in DOMAIN loops : loops'[i] = loops[i]
      /\ loops'[Len(loops) + 1] = Loop(listens, Len(loops) + 1)
      /\ loops' # <<>>
  BY <1>1, <1>2, <1>3 DEF DescriptorInv, InOrder
<1>5. InOrder'
  BY <1>4 DEF DescriptorInv, InOrder
<1>6. OfLoops' = OfLoops \cup {NextListener, NextEpoll}
  <2>1. /\ Loop(listens, Len(loops) + 1).listener = NextListener
        /\ Loop(listens, Len(loops) + 1).epfd = NextEpoll
    BY DEF Loop, NextListener, NextEpoll
  <2>2. {loops'[i].epfd : i \in DOMAIN loops'} = {loops[i].epfd : i \in DOMAIN loops} \cup {NextEpoll}
    BY <1>4, <2>1
  <2>3. {loops'[i].listener : i \in DOMAIN loops'}
          = {loops[i].listener : i \in DOMAIN loops} \cup {NextListener}
    BY <1>4, <2>1
  <2>4. QED
    BY <2>2, <2>3 DEF OfLoops
<1>7. QED
  BY <1>4, <1>5, <1>6

LEMMA DescriptorStep ==
    ASSUME DescriptorInv, [Next]_vars
    PROVE  DescriptorInv'
<1> USE DEF DescriptorInv, InOrder
<1>1. ASSUME NEW outcome \in {"ok", "on", "nonblocking", "epoll", "ctl"}, SetUpLoop(outcome)
      PROVE  DescriptorInv'
  <2>1. Stale = {}
    BY DEF Stale
  <2>2. /\ open' = (open \cup Opened(outcome)) \ Closed(outcome)
        /\ ~stray'
        /\ listens' = listens
    BY <1>1, <2>1 DEF SetUpLoop
  <2>3. CASE outcome = "ok"
    <3>1. loops' = Append(loops, [listener |-> NextListener, epfd |-> NextEpoll]) /\ stage' = "setup"
      BY <1>1, <2>3 DEF SetUpLoop
    <3>2. open' = open \cup {NextListener, NextEpoll}
      BY <2>2, <2>3 DEF Opened, Closed
    <3>3. InOrder' /\ OfLoops' = OfLoops \cup {NextListener, NextEpoll} /\ loops' # <<>>
      BY <2>2, <3>1, SetUpAdds
    <3>4. QED
      BY <2>2, <3>1, <3>2, <3>3
  <2>4. CASE outcome # "ok"
    <3>1. loops' = loops /\ stage' = "failed" /\ (loops = <<>> => socket' = None)
      BY <1>1, <2>4 DEF SetUpLoop
    <3>2. Closed(outcome) = Opened(outcome) /\ Opened(outcome) \subseteq {NextListener, NextEpoll}
      BY <2>4 DEF Opened, Closed
    <3>3. open' = open
      BY <2>2, <3>2, NextIsFresh
    <3>4. QED
      BY <2>2, <3>1, <3>3 DEF OfLoops
  <2>5. QED
    BY <2>3, <2>4
<1>2. ASSUME Leave
      PROVE  DescriptorInv'
  <2>1. open' = {} /\ ~stray'
    BY <1>2 DEF Leave, CloseLoops, Close, OfLoops
  <2>2. loops' = <<>> /\ listens' = listens /\ socket' = None /\ requests' = {}
    BY <1>2 DEF Leave, CloseLoops
  <2>3. QED
    BY <2>1, <2>2 DEF OfLoops
<1>3. ASSUME NEW one \in BOOLEAN, Listen(one)
      PROVE  DescriptorInv'
  BY <1>3 DEF Listen, OfLoops
<1>4. ASSUME stage' \in {stage, "running", "threw"}, UNCHANGED <<fdVars, requests, listens>>
      PROVE  DescriptorInv'
  BY <1>4 DEF fdVars, OfLoops
<1>5. CASE Program
  <2>1. ASSUME NEW f \in Fields, NEW v \in Asks[f], SetField(f, v)
        PROVE  DescriptorInv'
    BY <2>1, <1>4 DEF SetField
  <2>2. ASSUME NEW p \in Ports, SetPort(p)
        PROVE  DescriptorInv'
    BY <2>2, <1>4 DEF SetPort
  <2>3. ASSUME NEW p \in Ports, NEW t \in Asks["threads"], NEW v \in Asks["timeout"],
               Configure(p, [config.values EXCEPT !["threads"] = t, !["timeout"] = v])
        PROVE  DescriptorInv'
    BY <2>3, <1>4 DEF Configure
  <2>4. ASSUME NEW s \in {"START", "STOP"}, SetListenStatus(s)
        PROVE  DescriptorInv'
    BY <2>4, <1>4 DEF SetListenStatus
  <2>5. QED
    BY <1>3, <1>5, <2>1, <2>2, <2>3, <2>4 DEF Program
<1>6. CASE SetUpFailed \/ TearDown
  BY <1>2, <1>6 DEF SetUpFailed, TearDown
<1>7. CASE StartLoop
  BY <1>4, <1>7 DEF StartLoop
<1>8. CASE StartFails
  BY <1>4, <1>8 DEF StartFails
<1>9. CASE HandleConnection
  BY <1>4, <1>9 DEF HandleConnection
<1>10. ASSUME NEW i \in LoopNumbers, LoopEnds(i) \/ WaitFails(i)
       PROVE  DescriptorInv'
  BY <1>4, <1>10 DEF LoopEnds, WaitFails, End
<1>11. CASE UNCHANGED vars
  BY <1>4, <1>11 DEF vars, fdVars
<1>12. QED
  BY <1>1, <1>5, <1>6, <1>7, <1>8, <1>9, <1>10, <1>11 DEF Next

\* Whatever fails during set-up and however the loops end, listen() returns with
\* every descriptor of getMainProcess closed exactly once (router_epoll.h 103-205).
THEOREM DescriptorsAreClosed == Spec => []NothingLeftOpen
<1>1. DescriptorInv => NothingLeftOpen
  BY DEF DescriptorInv, OfLoops, NothingLeftOpen
<1>2. Init /\ [][Next]_vars => []DescriptorInv
  BY DescriptorInit, DescriptorStep, PTL
<1>3. QED
  BY <1>1, <1>2, PTL DEF Spec

-----------------------------------------------------------------------------
(* Configuration *)

InBounds(values) == \A f \in Fields : values[f] \in Lowest[f] .. Highest[f]

ConfigurationInv ==
    /\ config \in [port : Int, values : [Fields -> Int]]
    /\ InBounds(config.values)
    /\ InBounds(served)
    /\ port = PortOf(config.port)
    /\ wanted = PortOf(config.port)
    /\ stage = "setup" => told = wanted
    /\ stage = "idle" => bound = {}
    /\ bound \subseteq {told}

\* The default of a field lies within its bounds, hence each bound does.
LEMMA ClampIsInBounds ==
    ASSUME NEW f \in Fields, NEW v \in Int
    PROVE  Clamp(f, v) \in Lowest[f] .. Highest[f] /\ Clamp(f, v) \in Int
<1>1. /\ Lowest[f] \in Int /\ Highest[f] \in Int /\ Lowest[f] <= Highest[f]
  BY RouterEpollAssumption
<1>2. QED
  BY <1>1 DEF Clamp

LEMMA ConfigurationInit == Init => ConfigurationInv
<1> SUFFICES ASSUME NEW p \in Ports,
                    config = [port |-> IF p >= MinPort THEN p ELSE 0, values |-> Defaults],
                    port = PortOf(config.port), wanted = PortOf(p), served = Defaults,
                    bound = {}, stage = "idle"
             PROVE  ConfigurationInv
  BY DEF Init
<1>1. p \in Nat /\ MinPort \in Nat /\ MinPort > 0
  BY RouterEpollAssumption
<1>2. InBounds(Defaults)
  BY RouterEpollAssumption DEF InBounds
<1>3. Defaults \in [Fields -> Int]
  BY RouterEpollAssumption
<1>4. PortOf(config.port) = PortOf(p)
  BY <1>1 DEF PortOf
<1>5. QED
  BY <1>1, <1>2, <1>3, <1>4 DEF ConfigurationInv

LEMMA ConfigurationStep ==
    ASSUME ConfigurationInv, [Next]_vars
    PROVE  ConfigurationInv'
<1> USE DEF ConfigurationInv
<1>1. ASSUME UNCHANGED <<config, port, served, wanted>>,
             \/ UNCHANGED <<stage, bound, told>>
             \/ bound' = {} /\ stage' = "idle"
             \/ UNCHANGED <<bound, told>> /\ stage' \in {"running", "threw"}
      PROVE  ConfigurationInv'
  BY <1>1 DEF InBounds, PortOf
<1>2. ASSUME NEW f \in Fields, NEW v \in Asks[f], SetField(f, v)
      PROVE  ConfigurationInv'
  <2>1. Clamp(f, v) \in Lowest[f] .. Highest[f] /\ Clamp(f, v) \in Int
    BY ClampIsInBounds, RouterEpollAssumption
  <2>2. config' = [config EXCEPT !.values[f] = Clamp(f, v)] /\ UNCHANGED <<port, served, wanted, stage, bound, told>>
    BY <1>2 DEF SetField, fdVars
  <2>3. config'.values = [config.values EXCEPT ![f] = Clamp(f, v)] /\ config'.port = config.port
    BY <2>2
  <2>4. InBounds(config'.values) /\ config' \in [port : Int, values : [Fields -> Int]]
    BY <2>1, <2>2, <2>3 DEF InBounds
  <2>5. QED
    BY <2>2, <2>3, <2>4 DEF InBounds, PortOf
<1>3. ASSUME NEW p \in Ports, SetPort(p)
      PROVE  ConfigurationInv'
  <2>1. p \in Int
    BY RouterEpollAssumption
  <2>2. CASE p >= MinPort
    BY <1>3, <2>1, <2>2 DEF SetPort, MayChange, InBounds, PortOf, fdVars
  <2>3. CASE ~(p >= MinPort)
    BY <1>1, <1>3, <2>3 DEF SetPort, fdVars
  <2>4. QED
    BY <2>2, <2>3
<1>4. ASSUME NEW p \in Ports, NEW t \in Asks["threads"], NEW v \in Asks["timeout"],
             Configure(p, [config.values EXCEPT !["threads"] = t, !["timeout"] = v])
      PROVE  ConfigurationInv'
  <2> DEFINE values == [config.values EXCEPT !["threads"] = t, !["timeout"] = v]
             clamped == [f \in Fields |-> Clamp(f, values[f])]
  <2>1. values \in [Fields -> Int]
    BY RouterEpollAssumption
  <2>2. clamped \in [Fields -> Int] /\ InBounds(clamped)
    <3> HIDE DEF values
    <3>1. \A f \in Fields : values[f] \in Int
      BY <2>1
    <3>2. QED
      BY <3>1, ClampIsInBounds DEF InBounds
  <2> HIDE DEF clamped
  <2>3. /\ config' = [port |-> PortAfter(p), values |-> clamped]
        /\ port' = PortOf(config'.port)
        /\ wanted' = IF p >= MinPort THEN p ELSE wanted
        /\ served' = IF requests = {} THEN served ELSE clamped
    BY <1>4, Zenon DEF Configure, clamped, values
  <2>4. stage # "setup" /\ UNCHANGED <<stage, bound, told>>
    BY <1>4 DEF Configure, MayChange, fdVars
  <2>5. InBounds(served)' /\ InBounds(config.values)'
    BY <2>2, <2>3 DEF InBounds
  <2>6. PortAfter(p) \in Int /\ (IF p >= MinPort THEN p ELSE wanted) = PortOf(PortAfter(p))
    BY RouterEpollAssumption DEF PortAfter, PortOf
  <2>7. QED
    BY <2>2, <2>3, <2>4, <2>5, <2>6 DEF PortOf
<1>5. ASSUME NEW one \in BOOLEAN, Listen(one)
      PROVE  ConfigurationInv'
  BY <1>5 DEF Listen, apiVars, InBounds, PortOf
<1>6. CASE Program
  <2>1. ASSUME NEW s \in {"START", "STOP"}, SetListenStatus(s)
        PROVE  ConfigurationInv'
    BY <1>1, <2>1 DEF SetListenStatus, apiVars, fdVars
  <2>2. QED
    BY <1>2, <1>3, <1>4, <1>5, <1>6, <2>1 DEF Program
<1>7. ASSUME NEW outcome \in {"ok", "on", "nonblocking", "epoll", "ctl"}, SetUpLoop(outcome)
      PROVE  ConfigurationInv'
  <2>1. /\ UNCHANGED <<config, port, served, wanted, told>> /\ stage = "setup"
        /\ stage' \in {"setup", "failed"}
        /\ bound' = bound \cup {port} \/ bound' = bound
    BY <1>7 DEF SetUpLoop, apiVars
  <2>2. bound' \subseteq {told'} /\ told' = wanted'
    BY <2>1
  <2>3. QED
    BY <2>1, <2>2 DEF InBounds, PortOf
<1>8. CASE SetUpFailed \/ TearDown
  BY <1>1, <1>8 DEF SetUpFailed, TearDown, Leave, CloseLoops, apiVars
<1>9. CASE StartLoop \/ StartFails
  BY <1>1, <1>9 DEF StartLoop, StartFails, apiVars, fdVars
<1>10. CASE HandleConnection
  BY <1>1, <1>10 DEF HandleConnection, apiVars, fdVars
<1>11. ASSUME NEW i \in LoopNumbers, LoopEnds(i) \/ WaitFails(i)
       PROVE  ConfigurationInv'
  BY <1>1, <1>11 DEF LoopEnds, WaitFails, End, apiVars, fdVars
<1>12. CASE UNCHANGED vars
  BY <1>1, <1>12 DEF vars
<1>13. QED
  BY <1>6, <1>7, <1>8, <1>9, <1>10, <1>11, <1>12 DEF Next

\* Whatever the program asks for, in whatever order, the listeners of a server are
\* bound to the port that was the last valid one when listen() was called, and its
\* loops run within the bounds (vermell.h 206-336, router_epoll.h 105-111).
THEOREM ConfigurationIsKept == Spec => []ConfigurationHolds
<1>1. ConfigurationInv => ConfigurationHolds
  BY DEF ConfigurationInv, ConfigurationHolds, InBounds
<1>2. Init /\ [][Next]_vars => []ConfigurationInv
  BY ConfigurationInit, ConfigurationStep, PTL
<1>3. QED
  BY <1>1, <1>2, PTL DEF Spec
=============================================================================
