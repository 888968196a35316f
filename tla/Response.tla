------------------------------ MODULE Response ------------------------------
(***************************************************************************)
(* How a response is built (http/response.hpp, request/parameters.hpp) and *)
(* what a chain of middlewares answers (routes.hpp, request/routes.cpp).   *)
(*                                                                         *)
(* A header is <<name, value>>.  A block of headers is the text that       *)
(* setHeaders takes: names, ":", " ", values, "CR", "LF" and "CTL", any    *)
(* other control character.  A body is a sequence of bytes.                *)
(***************************************************************************)
EXTENDS Integers, Sequences, FiniteSetsExt, SequencesExt, TLC

Lower == [n \in {"Connection", "Content-Type", "Content-Length"} |->
             CASE n = "Connection" -> "connection"
               [] n = "Content-Type" -> "content-type"
               [] n = "Content-Length" -> "content-length"]

CaseFold(name) == IF name \in DOMAIN Lower THEN Lower[name] ELSE name

\* iequals
SameName_Exact(a, b) == a = b
SameName(a, b) == CaseFold(a) = CaseFold(b)

Sanitize(text) ==
    LET dirty == {p \in DOMAIN text : text[p] \in {"CR", "LF", "CTL"}}
    IN  IF dirty = {} THEN text ELSE SubSeq(text, 1, Min(dirty) - 1)

Has(headers, name) == \E i \in DOMAIN headers : SameName(headers[i][1], name)

Set(headers, name, value) ==
    LET same == {i \in DOMAIN headers : SameName(headers[i][1], name)}
    IN  IF same = {} THEN Append(headers, <<name, value>>)
        ELSE [headers EXCEPT ![Min(same)] = <<@[1], value>>]

Default(headers, name, value) == IF Has(headers, name) THEN headers ELSE Append(headers, <<name, value>>)

\* Response::head; Server, Accept-Ranges and nosniff have no part here.
ResponseHead(status, headers, body) ==
    LET typed  == IF Has(headers, "Content-Type") THEN headers
                  ELSE <<<<"Content-Type", "text/plain">>>> \o headers
        framed == Default(typed, "Content-Length", Len(body))
    IN  [status |-> status, headers |-> Default(framed, "Connection", "keep-alive")]

WireResponse(status, headers, body) == [head |-> ResponseHead(status, headers, body), body |-> body]

-----------------------------------------------------------------------------
(* utility_t::prepare, guard_route *)

\* One line of a block: what is before the first ":" names, the rest less one
\* " " in front and one "CR" behind is the value, one lexeme here, "empty" if
\* there is none.
HeaderLine(headers, line) ==
    LET colons == {p \in DOMAIN line : line[p] = ":"}
        after  == SubSeq(line, Min(colons) + 1, Len(line))
        value  == Sanitize(IF after # <<>> /\ after[1] = " " THEN Tail(after) ELSE after)
    IN  IF colons = {} \/ Min(colons) = 1 \/ line[1] = "CTL" THEN headers
        ELSE Set(headers, line[1], IF value = <<>> THEN "empty" ELSE value[1])

\* The line that ends at p, at a "LF" or behind the block.
LineUpTo(block, p) ==
    LET ends == {q \in 1 .. p - 1 : block[q] = "LF"}
    IN  SubSeq(block, Max({0} \cup ends) + 1, p - 1)

ApplyHeaders(headers, block) ==
    LET n == Len(block) + 1
        set[p \in 0 .. n] ==
            IF p = 0 THEN headers
            ELSE IF p = n \/ block[p] = "LF" THEN HeaderLine(set[p - 1], LineUpTo(block, p))
            ELSE set[p - 1]
    IN  set[n]

Prepare(body, type, block, status) ==
    WireResponse(status, ApplyHeaders(<<<<"Content-Type", type>>>>, block), body)

GuardRoute == Prepare(<<"message">>, "application/json", <<>>, 401)

-----------------------------------------------------------------------------
(* Core_init_t::execute: a middleware is the sequence of its Query calls *)

SetHeaders(block) == [call |-> "setHeaders", block |-> block]
Send(body, type, status) == [call |-> "send", body |-> body, type |-> type, status |-> status]
Continue == [call |-> "next"]
Throw == [call |-> "throw"]

\* What a middleware may call.
Calls ==
    [call : {"setHeaders"}, block : Seq(STRING)]
    \cup [call : {"send"}, body : Seq(STRING), type : STRING, status : Nat]
    \cup [call : {"next", "throw"}]

\* The query object the middlewares of a request share.
Query == [headers |-> <<>>, last |-> [head |-> <<>>, body |-> <<>>], next |-> FALSE, threw |-> FALSE]

Called(query, c) ==
    CASE c.call = "setHeaders" -> [query EXCEPT !.headers = @ \o c.block \o <<"LF">>]
      [] c.call = "send" -> [query EXCEPT !.last = Prepare(c.body, c.type, query.headers, c.status)]
      [] c.call = "next" -> [query EXCEPT !.next = TRUE]
      [] c.call = "throw" -> [query EXCEPT !.threw = TRUE]

Perform(query, calls) ==
    LET after[k \in 0 .. Len(calls)] ==
            IF k = 0 THEN query
            ELSE LET q == after[k - 1] IN IF q.threw THEN q ELSE Called(q, calls[k])
    IN  after[Len(calls)]

\* Each middleware has to call next() for the one after it to run.
ExecuteChain(query, chain) ==
    LET after[k \in 0 .. Len(chain)] ==
            IF k = 0 THEN [query EXCEPT !.next = TRUE]
            ELSE LET q == after[k - 1]
                 IN  IF q.next /\ ~q.threw THEN Perform([q EXCEPT !.next = FALSE], chain[k]) ELSE q
    IN  after[Len(chain)]
=============================================================================
