------------------------------ MODULE Exchange ------------------------------
(***************************************************************************)
(* Requests and responses on one connection: the program registers routes  *)
(* and mounts, listens, and serves a client (RequestIO::ExecuteRoute and   *)
(* Reject, Server::sendResponse).  The client reads the responses by their *)
(* Content-Length, keeps the files it got with their ETag and asks again   *)
(* with If-None-Match; between requests new versions of files are put in   *)
(* place.  The cooldown's verdict on a route is open here, see RouteGuard. *)
(***************************************************************************)
EXTENDS StaticFiles, Response

CONSTANTS
    Registrations,   \* what a program may register, routes and mounts
    Chains,          \* the middlewares of each handler
    Programs,        \* bound: the sequences of registrations that are served
    Asked,           \* the requests a client may send
    FirstDisk,       \* the files at the start
    MaxRoutes,       \* bound: registrations
    MaxRequests,     \* bound: requests
    MaxDeploys       \* bound: changes of files

\* No target (is_valid_target) and no method token holds the control character.
Texts == {s \in Seq(STRING) : \A i \in DOMAIN s : s[i] # "US"}

ASSUME ExchangeAssumption ==
    /\ Registrations \subseteq
           [kind : {"route"}, path : Texts, method : Texts, handler : DOMAIN Chains]
           \cup [kind : {"mount"}, prefix : Seq(STRING), cache : BOOLEAN, spa : BOOLEAN]
    /\ Asked \subseteq [target : Texts, method : Texts, version : STRING, connection : STRING,
                        parses : BOOLEAN, tags : {{}}]
    /\ DOMAIN FirstDisk \subseteq Seq(STRING)
    /\ \A name \in DOMAIN FirstDisk : FirstDisk[name] \in Versions \cup Unreadable
    /\ \A handler \in DOMAIN Chains : Chains[handler] \in Seq(Seq(Calls))
    /\ MaxRoutes \in Nat /\ MaxRequests \in Nat /\ MaxDeploys \in Nat

\* What Content-Length framing needs of the handlers: they answer, set no
\* other Content-Length and put no body into a response that has none.
ASSUME HandlersAssumption ==
    \A handler \in DOMAIN Chains :
        LET done == ExecuteChain(Query, Chains[handler])
            last == done.last
        IN  done.threw \/
            /\ last.head # <<>>
            /\ last.head.status \in {204, 304} => last.body = <<>>
            /\ \A i \in DOMAIN last.head.headers :
                  SameName(last.head.headers[i][1], "Content-Length") =>
                      last.head.headers[i][2] = Len(last.body)

VARIABLES
    log,               \* history: what was registered, in order
    table,             \* routes, pattern_routes_ and static_mounts_
    stage,             \* "setup", "idle", "writing" or "closed"
    allow_keep_alive,  \* RequestIO::allow_keep_alive_: listen(), not listenOne()
    disk,
    deploys,           \* history: changes so far
    out,               \* what sendResponse has still to write: head and body
    keep_alive,        \* what ExecuteRoute returns after it
    asked,             \* history: the requests, in order
    wire,              \* history: what was written
    cut,               \* history: a response was not written to its end
    copies,            \* the client's copies, by path: body and ETag
    confirmed          \* history: the last 304's copy and what a GET would have got

exchangeVars == <<log, table, stage, allow_keep_alive, disk, deploys, out, keep_alive, asked, wire,
                  cut, copies, confirmed>>

Nothing == [head |-> <<>>, body |-> <<>>]

\* The files that may be put in place: those that are there or missing.
Replaced == {name \in DOMAIN FirstDisk : FirstDisk[name] \in Versions \cup {"missing"}}

ExchangeInit ==
    /\ log = <<>> /\ table = NoRoutes /\ stage = "setup" /\ allow_keep_alive = TRUE
    /\ disk = FirstDisk /\ deploys = 0
    /\ out = Nothing /\ keep_alive = FALSE
    /\ asked = <<>> /\ wire = <<>> /\ cut = FALSE
    /\ copies = <<>> /\ confirmed = [copy |-> <<>>, current |-> <<>>]

-----------------------------------------------------------------------------
(* The program *)

Register(r) ==
    /\ stage = "setup" /\ Len(log) < MaxRoutes
    /\ log' = Append(log, r)
    /\ table' = IF r.kind = "route" THEN WithRoute(table, r.path, r.method, r.handler)
                ELSE WithMount(table, r.prefix, r)
    /\ UNCHANGED <<stage, allow_keep_alive, disk, deploys, out, keep_alive, asked, wire, cut, copies,
                   confirmed>>

Listen(single) ==
    /\ stage = "setup" /\ log \in Programs
    /\ stage' = "idle"
    /\ allow_keep_alive' = ~single
    /\ UNCHANGED <<log, table, disk, deploys, out, keep_alive, asked, wire, cut, copies, confirmed>>

Deploy(name, version) ==
    /\ stage = "idle" /\ deploys < MaxDeploys
    /\ disk' = Put(disk, name, version)
    /\ deploys' = deploys + 1
    /\ UNCHANGED <<log, table, stage, allow_keep_alive, out, keep_alive, asked, wire, cut, copies,
                   confirmed>>

-----------------------------------------------------------------------------
(* ExecuteRoute: the answer and the fate of the connection *)

KeepAliveRequested(q) ==
    \/ q.connection = "keep-alive"
    \/ q.connection # "close" /\ q.version # "HTTP/1.0"

Fallback(parsed) == WireResponse(IF parsed THEN 404 ELSE 400, <<<<"Content-Type", "application/json">>>>,
                                 <<"error">>)

OfFile(served) ==
    WireResponse(served.status,
                 <<<<"Content-Type", "mime">>>>
                    \o (IF served.etag = NoEtag THEN <<>> ELSE <<<<"ETag", served.etag>>>>),
                 served.body)

Answer(q, guarded) ==
    LET who    == Resolve(table, PathOf(q.target), q.method)
        chain  == ExecuteChain(Query, Chains[who.who])
        served == Serve(table.mounts[who.who], disk, PathOf(q.target), q.method, q.tags)
    IN  IF ~q.parses \/ who.kind = "nobody" THEN Fallback(q.parses)
        ELSE IF who.kind = "mount"
        THEN IF served = Declined THEN Fallback(TRUE) ELSE OfFile(served)
        ELSE IF guarded THEN GuardRoute
        ELSE IF chain.threw THEN Fallback(TRUE) ELSE chain.last

WithoutBody(response, q) ==
    IF q.parses /\ q.method = <<"HEAD">> THEN [response EXCEPT !.body = <<>>] ELSE response

\* Both searches look for the text "Connection: " and a fate in the whole head.
\* "Proxy-Connection" stands for the other headers it is found in: their name
\* ends so, or their value quotes it.
FateNames == {"Connection", "Proxy-Connection"}

Mentions(header, fate) == header[1] \in FateNames /\ header[2] = fate

SaysClose(head) == \E i \in DOMAIN head.headers : Mentions(head.headers[i], "close")

KeepAlive(q, response) ==
    q.parses /\ KeepAliveRequested(q) /\ allow_keep_alive /\ ~SaysClose(response.head)

\* The head is made to announce that the connection will be closed.
Announce_Never(head, keep) == head
Announce(head, keep) ==
    LET at == {i \in DOMAIN head.headers : Mentions(head.headers[i], "keep-alive")}
    IN  IF keep \/ at = {} THEN head
        ELSE [head EXCEPT !.headers[Min(at)] = <<@[1], "close">>]

\* The lexemes of a response as they are written.
HeadLexemes(head) == <<<<"head", head>>, <<"blank">>>>
BodyLexemes(body) == [i \in DOMAIN body |-> <<"byte", body[i]>>]

CopyOf(path) == IF path \in DOMAIN copies THEN copies[path] ELSE [body |-> <<>>, etag |-> NoEtag]

\* The body an unconditional GET would get now.
CurrentBody(q) == Answer([q EXCEPT !.method = Get, !.tags = {}], FALSE).body

ExecuteRoute(q, guarded) ==
    LET response == WithoutBody(Answer(q, guarded), q)
        keep     == KeepAlive(q, response)
    IN  /\ stage = "idle" /\ Len(asked) < MaxRequests
        /\ asked' = Append(asked, q)
        /\ out' = [head |-> HeadLexemes(Announce(response.head, keep)), body |-> BodyLexemes(response.body)]
        /\ keep_alive' = keep
        /\ stage' = "writing"
        /\ confirmed' = IF response.head.status # 304 THEN confirmed
                        ELSE [copy |-> CopyOf(q.target).body, current |-> CurrentBody(q)]
        /\ UNCHANGED <<log, table, allow_keep_alive, disk, deploys, wire, cut, copies>>

-----------------------------------------------------------------------------
(* sendResponse *)

Smaller(a, b) == IF a < b THEN a ELSE b
Drop(s, n) == SubSeq(s, n + 1, Len(s))

\* What is left of both buffers when n bytes were taken.
Rest_BothAdvanced(rest, n) ==
    [head |-> Drop(rest.head, Smaller(n, Len(rest.head))),
     body |-> Drop(rest.body, Smaller(n, Len(rest.body)))]
Rest(rest, n) ==
    LET take == Smaller(n, Len(rest.head))
    IN  [head |-> Drop(rest.head, take), body |-> Drop(rest.body, Smaller(n - take, Len(rest.body)))]

\* sendmsg takes n bytes of what is left.
WriteSome(n) ==
    /\ stage = "writing" /\ n <= Len(out.head) + Len(out.body)
    /\ wire' = wire \o SubSeq(out.head \o out.body, 1, n)
    /\ out' = Rest(out, n)
    /\ UNCHANGED <<log, table, stage, allow_keep_alive, disk, deploys, keep_alive, asked, cut, copies,
                   confirmed>>

\* poll times out or the peer is gone: the rest is not written, and the
\* connection is kept all the same.
GiveUp ==
    /\ stage = "writing" /\ out # Nothing
    /\ out' = Nothing
    /\ cut' = TRUE
    /\ stage' = IF keep_alive THEN "idle" ELSE "closed"
    /\ UNCHANGED <<log, table, allow_keep_alive, disk, deploys, keep_alive, asked, wire, copies,
                   confirmed>>

-----------------------------------------------------------------------------
(* The client: it reads a status line, headers, and a body unless the status *)
(* or its own method rules one out                                          *)

Value(head, name) == LET i == CHOOSE i \in DOMAIN head.headers : SameName(head.headers[i][1], name)
                     IN  head.headers[i][2]

BodyLength(head, method) ==
    IF method = <<"HEAD">> \/ head.status \in {204, 304} THEN 0 ELSE Value(head, "Content-Length")

\* Where it looks for each response, and for the one after the last: behind the
\* one before.  It is stuck where something else comes than a status line.
Starts(stream, requests) ==
    LET start[k \in 1 .. Len(requests) + 1] ==
            IF k = 1 THEN 1
            ELSE LET p == start[k - 1]
                 IN  IF p \in DOMAIN stream /\ stream[p][1] = "head"
                     THEN p + 2 + BodyLength(stream[p][2], requests[k - 1].method)
                     ELSE p
    IN  start

\* All is written: the client has the response, and keeps a file with its tag.
Finish ==
    LET q     == Last(asked)
        n     == Len(asked)
        start == Starts(wire, asked)
        head  == wire[start[n]][2]
        body  == SubSeq(wire, start[n] + 2, start[n + 1] - 1)
        keeps == /\ ~cut /\ q.method = Get
                 /\ start[n] \in DOMAIN wire /\ wire[start[n]][1] = "head"
                 /\ head.status = 200 /\ Has(head.headers, "ETag")
    IN  /\ stage = "writing" /\ out = Nothing
        /\ stage' = IF keep_alive THEN "idle" ELSE "closed"
        /\ copies' = IF ~keeps THEN copies
                     ELSE Put(copies, q.target, [body |-> [i \in DOMAIN body |-> body[i][2]],
                                                 etag |-> Value(head, "ETag")])
        /\ UNCHANGED <<log, table, allow_keep_alive, disk, deploys, out, keep_alive, asked, wire, cut,
                       confirmed>>

\* The client sends a request, with the tag of its copy or without.
Request(q, conditional, guarded) ==
    /\ conditional => q.target \in DOMAIN copies
    /\ guarded => Resolve(table, PathOf(q.target), q.method).kind = "route"
    /\ ExecuteRoute([q EXCEPT !.tags = IF conditional THEN {CopyOf(q.target).etag} ELSE {}], guarded)

\* Reject: one attempt to write an error, and the connection is closed.
Reject(status, n) ==
    LET response == WireResponse(status, <<<<"Content-Type", "application/json">>,
                                           <<"Connection", "close">>>>, <<"error">>)
        bytes    == HeadLexemes(response.head) \o BodyLexemes(response.body)
    IN  /\ stage = "idle" /\ Len(asked) < MaxRequests /\ n <= Len(bytes)
        /\ asked' = Append(asked, [method |-> Get])
        /\ wire' = wire \o SubSeq(bytes, 1, n)
        /\ cut' = (cut \/ n < Len(bytes))
        /\ stage' = "closed"
        /\ UNCHANGED <<log, table, allow_keep_alive, disk, deploys, out, keep_alive, copies, confirmed>>

ExchangeNext ==
    \/ \E r \in Registrations : Register(r)
    \/ \E single \in BOOLEAN : Listen(single)
    \/ \E name \in Replaced, version \in Versions : Deploy(name, version)
    \/ \E q \in Asked, conditional, guarded \in BOOLEAN : Request(q, conditional, guarded)
    \/ \E n \in 1 .. 4 : WriteSome(n)
    \/ GiveUp
    \/ Finish
    \/ \E status \in {400, 408}, n \in 0 .. 3 : Reject(status, n)

ExchangeSpec == ExchangeInit /\ [][ExchangeNext]_exchangeVars

-----------------------------------------------------------------------------
(* Properties.  Those about the table are checked before listen(): it does  *)
(* not change after it.                                                    *)

\* Whoever answers a request was registered for it, and a literal route answers
\* its requests whatever else is registered in whatever order: the handler that
\* was registered last for the path, which ends with no "/", and the method.  A
\* mount answers when no other covers more of the path.
TheRightOneAnswers ==
    LET routes == {i \in DOMAIN log : log[i].kind = "route"}
        literal(path, method) == {i \in routes : /\ log[i].path = path /\ log[i].method = method
                                                 /\ ~IsPatternRoute(path)}
        fits(i, path, method) ==
            /\ log[i].method = method
            /\ log[i].path = path \/ MatchPattern(SplitPath(log[i].path), SplitPath(path))
    IN  stage = "setup" => \A q \in Asked :
            LET path == PathOf(q.target)
                who  == Resolve(table, path, q.method)
                own  == literal(path, q.method)
            IN  /\ who.kind = "route" =>
                      \E i \in routes : log[i].handler = who.who /\ fits(i, path, q.method)
                /\ who.kind = "mount" =>
                      \A i \in DOMAIN table.mounts :
                          Covers(table.mounts[i], path) =>
                              Len(table.mounts[i].prefix) <= Len(table.mounts[who.who].prefix)
                /\ own # {} => who = [kind |-> "route", who |-> log[Max(own)].handler]

\* StaticMount, "Explicit routes always win over static mounts (static is the
\* fallback layer)": a GET that no route matches and a mount covers goes to a
\* mount, whichever other routes there are.
StaticIsFallback ==
    stage = "setup" => \A q \in Asked :
        LET path    == PathOf(q.target)
            literal == RouteKey(path, q.method) \in DOMAIN table.exact
            pattern == \E i \in DOMAIN table.patterns :
                           /\ table.patterns[i].method = q.method
                           /\ MatchPattern(table.patterns[i].segments, SplitPath(path))
        IN  q.method = Get /\ ~literal /\ ~pattern
              /\ (\E i \in DOMAIN table.mounts : Covers(table.mounts[i], path))
            => Resolve(table, path, q.method).kind = "mount"

\* As long as no response was cut the client finds its responses: each starts
\* where Content-Length, its own method and the status let it look for one,
\* whatever portions they were written in; once written none is incomplete,
\* and there is nothing else.
ClientInSync ==
    LET n        == Len(asked)
        start    == Starts(wire, asked)
        whole(k) == start[k] \in DOMAIN wire /\ start[k + 1] <= Len(wire) + 1
    IN  ~cut =>
            /\ Len(wire) < start[n + 1]
            /\ \A k \in 1 .. n : start[k] \in DOMAIN wire => wire[start[k]][1] = "head"
            /\ \A k \in 1 .. n : k < n \/ stage # "writing" => whole(k)

\* What the head announces is what happens: a response that says close is the
\* last on its connection, and the server closes after no other.
FateAsAnnounced ==
    LET heads   == {p \in DOMAIN wire : wire[p][1] = "head"}
        closing == {p \in heads : Value(wire[p][2], "Connection") = "close"}
        last    == {p \in heads : \A r \in heads : r <= p}
    IN  ~cut /\ stage # "writing" =>
            /\ closing = IF stage = "closed" THEN last ELSE {}
            /\ stage = "closed" => last # {}

\* No response names a header twice, in whatever letters a handler wrote it.
OneHeaderEach ==
    \A p \in DOMAIN wire : wire[p][1] = "head" =>
        LET headers == wire[p][2].headers
        IN  \A i, j \in DOMAIN headers : CaseFold(headers[i][1]) = CaseFold(headers[j][1]) => i = j

\* A 304 confirms a copy that is what a GET would get now, or one that only a
\* file of the same size and modification second has taken the place of: though
\* the URL may have stood for another file, or for none, when the copy was made.
ConfirmedBySizeAndTime ==
    \/ confirmed.copy = confirmed.current
    \/ \E v, w \in Versions : /\ confirmed.copy = Content(v) /\ confirmed.current = Content(w)
                              /\ SizeOf[v] = SizeOf[w] /\ MTimeOf[v] = MTimeOf[w]
=============================================================================
