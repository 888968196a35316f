---------------------------- MODULE TemplateText ----------------------------
(***************************************************************************)
(* The reference for Templates: an author writes a page piece by piece -   *)
(* characters, tags, and at most one delimiter that belongs to no tag -    *)
(* and its meaning is read off the pieces, not off the characters.         *)
(***************************************************************************)
EXTENDS Templates

CONSTANTS
    Modules,      \* the pieces of each file of the folder, by name
    Others,       \* the names of what is not a regular file, with the kind
    Variables     \* the sequences of variables a program may give

VARIABLE pieces   \* of the page

TemplateInit == pieces = <<>>

Char(c) == [kind |-> "char", text |-> <<c>>]
Include(name) == [kind |-> "include", name |-> name, text |-> OpenTag \o name \o CloseTag]
Marker(name) == [kind |-> "marker", name |-> name, text |-> OpenData \o name \o CloseData]
Lone(delimiter) == [kind |-> "lone", text |-> delimiter]

Written(ps) == FlattenSeq([i \in DOMAIN ps |-> ps[i].text])

PageName == <<"page">>

Files == [name \in DOMAIN Modules \cup DOMAIN Others \cup {PageName} |->
            IF name = PageName THEN [kind |-> "file", text |-> Written(pieces)]
            ELSE IF name \in DOMAIN Modules THEN [kind |-> "file", text |-> Written(Modules[name])]
            ELSE [kind |-> Others[name], text |-> <<>>]]

\* Names that are not there, and names or files that no page may include.
Missing == {<<"d", "a">>} \cup {name \in DOMAIN Others : Others[name] # "outside"}
Refused == {<<>>, <<".", ".">>, <<"a", "/">>} \cup {name \in DOMAIN Others : Others[name] = "outside"}

-----------------------------------------------------------------------------
(* The author *)

\* No two pieces may make a delimiter where the author meant none; a bracket
\* next to a marker's own is a bracket.
Fits(before, piece) ==
    LET pair == <<Last(before.text), Head(piece.text)>>
    IN  \/ pair \notin {OpenTag, CloseTag, OpenData, CloseData}
        \/ pair = OpenData /\ piece.kind = "marker"
        \/ pair = CloseData /\ before.kind = "marker"

WritePiece(piece) ==
    /\ \A i \in DOMAIN pieces : /\ i = Len(pieces) => Fits(pieces[i], piece)
                                /\ piece.kind = "lone" => pieces[i].kind # "lone"
    /\ pieces' = Append(pieces, piece)

WritePage ==
    \/ \E c \in {"#", "[", "]", ";", "<", "a"} : WritePiece(Char(c))
    \/ \E name \in DOMAIN Modules \cup Missing \cup Refused : WritePiece(Include(name))
    \/ \E name \in {<<"a">>, <<"b">>, <<"d">>} : WritePiece(Marker(name))
    \/ \E delimiter \in {OpenTag, CloseTag, OpenData, CloseData} : WritePiece(Lone(delimiter))

-----------------------------------------------------------------------------
(* The meaning *)

Of(ps, kind) == {i \in DOMAIN ps : ps[i].kind = kind}
Replaced(ps, i, by) == SubSeq(ps, 1, i - 1) \o by \o SubSeq(ps, i + 1, Len(ps))

\* A delimiter left over makes the page unreadable once no tag stands before a
\* closing one, and none stands anywhere with an opening one.
Unreadable(ps, kind, open, close) ==
    \E i \in Of(ps, "lone") :
        \/ ps[i].text = close /\ \A j \in Of(ps, kind) : j > i
        \/ ps[i].text = open /\ Of(ps, kind) = {}

RECURSIVE MeaningOf(_, _)
MeaningOf(ps, passes) ==
    LET i    == Min(Of(ps, "include"))
        name == ps[i].name
        next == Replaced(ps, i, Modules[name])
    IN  IF passes = 0 THEN Page(200, Written(ps))
        ELSE IF Unreadable(ps, "include", OpenTag, CloseTag) THEN Page(400, <<>>)
        ELSE IF Of(ps, "include") = {} THEN Page(200, Written(ps))
        ELSE IF name \in Missing THEN Page(404, <<>>)
        ELSE IF name \in Refused THEN Page(403, <<>>)
        ELSE IF Len(Written(Modules[name])) > MaxFileBytes \/ Len(Written(next)) > MaxFileBytes
             THEN Page(413, <<>>)
        ELSE MeaningOf(next, passes - 1)

RECURSIVE ValuesIn(_, _, _)
ValuesIn(ps, variables, passes) ==
    LET i == Min(Of(ps, "marker"))
    IN  IF passes = 0 THEN Written(ps)
        ELSE IF Unreadable(ps, "marker", OpenData, CloseData) THEN NoSafeData
        ELSE IF Of(ps, "marker") = {} THEN Written(ps)
        ELSE ValuesIn(Replaced(ps, i, <<[kind |-> "value",
                                        text |-> EscapeHtml(ValueOf(variables, ps[i].name))]>>),
                      variables, passes - 1)

Inert(variables) == \A i \in DOMAIN variables : ToSet(variables[i][2]) \cap {"[", "]"} = {}
Markup(text) == Cardinality({i \in DOMAIN text : text[i] = "<"})

-----------------------------------------------------------------------------

\* compose() puts each module where its tag stands, the first `reserve` of them
\* in the order of the text, modules of modules included; a cycle ends at the
\* passes or at the size limit, and a page that is not composed says why
\* (ver_reader.h 27-74).
ComposedAsWritten ==
    pieces # <<>> => \A reserve \in -1 .. MaxPasses + 1 :
        Compose(Files, PageName, reserve) =
            IF Len(Written(pieces)) > MaxFileBytes THEN Page(413, <<>>)
            ELSE MeaningOf(pieces, IF reserve > MaxPasses THEN MaxPasses
                                   ELSE IF reserve < 0 THEN 0 ELSE reserve)

\* render() puts the value of each marker where it stands, as many markers as
\* there are variables; and whatever the values are, those with markers of
\* their own included, the page has no markup but its author's (data_render.h
\* 86-87: "can never inject markup/scripts into the rendered page").
ValuesAreInert ==
    pieces # <<>> => \A variables \in Variables :
        LET page == Render(Files, PageName, variables)
        IN  Len(Written(pieces)) <= MaxFileBytes =>
                /\ Markup(page) <= Markup(Written(pieces))
                /\ Inert(variables) => page = ValuesIn(pieces, variables, Len(variables))
=============================================================================
