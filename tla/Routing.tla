------------------------------- MODULE Routing -------------------------------
(***************************************************************************)
(* Which handler answers a request: the route table (vermell.h,            *)
(* routes.hpp) and the choice ExecuteRoute makes (request/io.cpp).         *)
(*                                                                         *)
(* A path is a sequence of lexemes, "/" and the segments between; ":x" is  *)
(* a named segment, "*" a catch-all, and "a:b" stands for a segment with   *)
(* one of their characters elsewhere.  A method is a sequence of lexemes   *)
(* too (GET of two, so that there is a method ET), and "US" is the control *)
(* character that joins both to a key.                                     *)
(***************************************************************************)
EXTENDS Integers, Sequences, FiniteSetsExt, SequencesExt, TLC

Named == {":x", ":y"}
Marked == Named \cup {"*", "a:b"}
Get == <<"G", "ET">>

RouteKey_Concatenated(path, method) == path \o method
RouteKey(path, method) == path \o <<"US">> \o method

IsPatternRoute(path) == \E i \in DOMAIN path : path[i] \in Marked

SplitPath(path) == SelectSeq(path, LAMBDA l : l # "/")

\* The path of a target: no query, and one trailing "/" less.
PathOf(target) ==
    LET marks == {p \in DOMAIN target : target[p] = "?"}
        path  == IF marks = {} THEN target ELSE SubSeq(target, 1, Min(marks) - 1)
    IN  IF Len(path) > 1 /\ Last(path) = "/" THEN Front(path) ELSE path

MatchPattern(pattern, path) ==
    LET stars   == {i \in DOMAIN pattern : pattern[i] = "*"}
        literal == IF stars = {} THEN Len(pattern) ELSE Min(stars) - 1
    IN  /\ Len(path) >= literal
        /\ stars = {} => Len(path) = literal
        /\ \A i \in 1 .. literal : pattern[i] \in Named \/ pattern[i] = path[i]

-----------------------------------------------------------------------------
(* The table: exact routes by key, pattern routes and mounts in order *)

\* A table with this value at k.
Put(f, k, value) == [x \in DOMAIN f \cup {k} |-> IF x = k THEN value ELSE f[x]]

NoRoutes == [exact |-> <<>>, patterns |-> <<>>, mounts |-> <<>>]

\* http_response: a literal route replaces the one with its key.
WithRoute(table, path, method, handler) ==
    IF IsPatternRoute(path)
    THEN [table EXCEPT !.patterns = Append(@, [segments |-> SplitPath(path), method |-> method,
                                               handler |-> handler])]
    ELSE [table EXCEPT !.exact = Put(@, RouteKey(path, method), handler)]

\* StaticMount: the prefix starts with "/" and ends with none, the root excepted.
NormalizeMount(prefix) ==
    LET rooted == IF prefix # <<>> /\ prefix[1] = "/" THEN prefix ELSE <<"/">> \o prefix
        keep   == Max({1} \cup {p \in DOMAIN rooted : rooted[p] # "/"})
    IN  SubSeq(rooted, 1, keep)

WithMount(table, prefix, mount) ==
    [table EXCEPT !.mounts = Append(@, [mount EXCEPT !.prefix = NormalizeMount(prefix)])]

\* percent_decode of a path
Decode(path) ==
    [i \in DOMAIN path |-> CASE path[i] = "%2e%2e" -> ".." [] path[i] = "%61" -> "a" [] OTHER -> path[i]]

UnderMount(mount, path) ==
    \/ mount.prefix = <<"/">>
    \/ path = mount.prefix
    \/ /\ Len(path) > Len(mount.prefix)
       /\ SubSeq(path, 1, Len(mount.prefix)) = mount.prefix
       /\ path[Len(mount.prefix) + 1] = "/"

Covers(mount, path) == UnderMount(mount, Decode(path))

\* The mount with the longest prefix, the first of those that are as long.
BestMount(mounts, path) ==
    LET covering == {i \in DOMAIN mounts : Covers(mounts[i], path)}
        longest  == Max({Len(mounts[i].prefix) : i \in covering})
    IN  Min({i \in covering : Len(mounts[i].prefix) = longest})

Nobody == [kind |-> "nobody", who |-> 0]

\* Pattern routes are tried when there is no exact route, mounts when there is
\* neither an exact route nor any pattern route in the table.
Resolve(table, path, method) ==
    LET key     == RouteKey(path, method)
        matched == {i \in DOMAIN table.patterns :
                       /\ table.patterns[i].method = method
                       /\ MatchPattern(table.patterns[i].segments, SplitPath(path))}
    IN  IF key \in DOMAIN table.exact
        THEN [kind |-> "route", who |-> table.exact[key]]
        ELSE IF table.patterns # <<>>
        THEN IF matched = {} THEN Nobody
             ELSE [kind |-> "route", who |-> table.patterns[Min(matched)].handler]
        ELSE IF \E i \in DOMAIN table.mounts : Covers(table.mounts[i], path)
        THEN [kind |-> "mount", who |-> BestMount(table.mounts, path)]
        ELSE Nobody
=============================================================================
