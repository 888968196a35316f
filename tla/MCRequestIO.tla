---- MODULE MCRequestIO ----
EXTENDS RequestIO, TLC

CONSTANTS c1, c2, c3, c4

Symmetry == Permutations(Workers)

\* The parts of request r of client c.
Request(c, r, kind, parts) ==
    [p \in 1 .. parts |-> [conn |-> c, req |-> r, kind |-> kind, part |-> p, parts |-> parts]]

\* c1: a whole request, then one in two parts, then one that ends the connection.
LongStream == (c1 :> Request(c1, 1, "keep", 1) \o Request(c1, 2, "keep", 2)
                     \o Request(c1, 3, "close", 1))
              @@ (c2 :> Request(c2, 1, "keep", 1) \o Request(c2, 2, "bad", 1))

\* Two requests that may be sent at once, the second in two parts, and a short
\* connection.
PairStream == (c1 :> Request(c1, 1, "keep", 1) \o Request(c1, 2, "keep", 2))
              @@ (c2 :> Request(c2, 1, "close", 1))

\* One long-lived and one short connection.
ShortStream == (c1 :> Request(c1, 1, "keep", 1) \o Request(c1, 2, "close", 1))
               @@ (c2 :> Request(c2, 1, "close", 2))
\* Three requests a client may send at once, and a bystander.
TripleStream == (c1 :> Request(c1, 1, "keep", 1) \o Request(c1, 2, "keep", 1)
                       \o Request(c1, 3, "keep", 1))
                @@ (c2 :> Request(c2, 1, "keep", 1))
\* One client with two requests; three that only connect.
IdleStream == (c1 :> Request(c1, 1, "keep", 1) \o Request(c1, 2, "close", 1))
              @@ [c \in {c2, c3, c4} |-> <<>>]
====
