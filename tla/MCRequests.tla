----------------------------- MODULE MCRequests -----------------------------
(***************************************************************************)
(* Programs and requests for TLC: a program that registers routes and      *)
(* mounts and serves a client (Exchange), and one route under its cooldown *)
(* (RouteGuard), each from its start.                                      *)
(***************************************************************************)
EXTENDS RouteGuard, Exchange

VARIABLE subject  \* "exchange" or "cooldown"

Symmetry == Permutations(Requests)

\* "twin" replaces "old" within its second and has its size.
MCVersions == {"old", "twin", "new", "longer"}
MCSizeOf == [v \in MCVersions |-> IF v = "longer" THEN 2 ELSE 1]
MCMTimeOf == [v \in MCVersions |-> IF v \in {"old", "twin"} THEN 1 ELSE 2]

Mount(prefix, cache, spa) == [kind |-> "mount", prefix |-> prefix, cache |-> cache, spa |-> spa]
Route(path, method, handler) == [kind |-> "route", path |-> path, method |-> method, handler |-> handler]

Site == Mount(<<"/">>, TRUE, FALSE)
App == Mount(<<"/", "app", "/">>, TRUE, TRUE)
Plain == Mount(<<>>, FALSE, FALSE)
Hello == Route(<<"/", "x">>, Get, "hello")
Again == Route(<<"/", "x">>, Get, "bye")
Look == Route(<<"/", "x">>, <<"HEAD">>, "hello")
ById == Route(<<"/", ":x">>, Get, "fail")
Everything == Route(<<"/", "app", "/", "*">>, Get, "bye")

Literally == Route(<<"/", "a:b">>, Get, "proxied")

MCRegistrations == {Hello, Again, Look, ById, Everything, Literally, Site, App, Plain}
MCPrograms == {<<Hello, Look>>, <<Again, ById>>, <<Literally>>, <<Site, App>>, <<Plain>>}

MCChains ==
    "hello" :> <<<<SetHeaders(<<"content-type", ":", " ", "text/html", "CR", "LF", ":", "LF", "X", ":">>),
                   Send(<<"h", "i">>, "text/plain", 200)>>>>
    @@ "bye" :> <<<<SetHeaders(<<"Connection", ":", "close">>), Send(<<>>, "text/plain", 204), Continue>>,
                  <<Send(<<"b">>, "text/plain", 200)>>, <<Throw>>>>
    @@ "proxied" :> <<<<SetHeaders(<<"Proxy-Connection", ":", "close">>), Send(<<"p">>, "text/plain", 200)>>>>
    @@ "fail" :> <<<<Continue>>, <<Send(<<"b">>, "text/plain", 200), Throw, Continue>>>>

MCFirstDisk == <<"a">> :> "old" @@ <<"index">> :> "longer" @@ <<"b">> :> "missing" @@ <<"c">> :> "dir"
               @@ <<"d">> :> "large" @@ <<"e">> :> "unreadable" @@ <<"f">> :> "outside"

Ask(target, method, version, connection) ==
    [target |-> target, method |-> method, version |-> version, connection |-> connection,
     parses |-> TRUE, tags |-> {}]

Of(target) == Ask(target, Get, "HTTP/1.1", "")
MCAsked ==
    {Of(<<"/", "x", "?", "q">>), Of(<<"/", "app", "/", "a">>), Of(<<"/", "app", "/", "b", "/">>),
     Of(<<"/", "%61">>), Of(<<"/", "c">>), Of(<<"/", "d">>), Of(<<"/", "e">>), Of(<<"/", "f">>),
     Of(<<"/", "%2e%2e">>), [Of(<<"/">>) EXCEPT !.parses = FALSE],
     Ask(<<"/", "x">>, <<"HEAD">>, "HTTP/1.1", "close"), Ask(<<"/", "x", "G">>, <<"ET">>, "HTTP/1.1", ""),
     Ask(<<"/", "a">>, <<"HEAD">>, "HTTP/1.0", "keep-alive"), Ask(<<"/", "y">>, Get, "HTTP/1.0", ""),
     Of(<<"/", "a:b">>)}

MCInit == Init /\ ExchangeInit /\ subject \in {"exchange", "cooldown"}

MCNext ==
    \/ subject = "exchange" /\ ExchangeNext /\ UNCHANGED <<subject, vars>>
    \/ subject = "cooldown" /\ Next /\ UNCHANGED <<subject, exchangeVars>>

MCSpec == MCInit /\ [][MCNext]_<<subject, vars, exchangeVars>>
=============================================================================
