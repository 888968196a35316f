------------------------------- MODULE MCTexts -------------------------------
(***************************************************************************)
(* The text formats for TLC: every HTTP request, JSON document, query,     *)
(* multipart body and template up to a length, each from its start.        *)
(***************************************************************************)
EXTENDS HttpText, JsonText, FormText, TemplateText

CONSTANTS
    MaxRequest,   \* bound: lexemes of a request that breaks no rule
    MaxFlawed,    \* bound: lexemes of a request that breaks one
    MaxJson,      \* bound: lexemes of a document
    MaxQuery,     \* bound: characters of a query
    MaxBody,      \* bound: lexemes of a multipart body
    MaxPieces     \* bound: pieces of a template

VARIABLE subject  \* the format this behaviour is about

MCModules ==
    <<"a">> :> <<Char("a"), Char("<")>>
    @@ <<"b">> :> <<Char("b"), Include(<<"b">>), Char("b")>>
    @@ <<"c">> :> <<Include(<<"a">>), Char("c"), Include(<<"a">>)>>
    @@ <<"d">> :> [i \in 1 .. 30 |-> Char("d")]

MCOthers == <<"b", "b">> :> "dir" @@ <<"b", "c">> :> "outside" @@ <<"b", "d">> :> "unreadable"

MCVariables ==
    {<<>>, <<<<<<"a">>, <<"v">>>>>>,
     <<<<<<"b">>, <<"<", "v">>>>, <<<<"a">>, <<"v", "ctl">>>>>>,
     <<<<<<"a">>, <<"[", "[", "b", "]", "]">>>>, <<<<"a">>, <<"v">>>>, <<<<"b">>, <<"<">>>>>>,
     <<<<<<"b">>, <<"]", "]">>>>, <<<<"a">>, <<"<">>>>>>}

vars == <<subject, httpVars, jsonVars, formVars, pieces>>

Init ==
    /\ HttpInit /\ JsonInit /\ TemplateInit
    /\ \/ subject \in {"http", "json", "query", "template"} /\ QueryInit
       \/ subject = "multipart" /\ BodyInit

\* The lexemes worth offering in each mode: those that can mean something there.
Offered ==
    CASE mode = "string" -> {Quote, Backslash, "a", "LF"}
      [] mode \in {"escape", "pair", "low"} -> {Quote, Backslash, "n", "a", "u0001", "uD83D", "uDE00", "u00"}
      [] mode = "dead" -> {Quote, "]"}
      [] OTHER -> {"[", "]", "{", "}", ",", ":", "null", "-", "0", "1", ".", "e", "LF", Quote, "a"}

ReadRequest ==
    /\ subject = "http"
    /\ Len(text) < IF flawed THEN MaxFlawed ELSE MaxRequest
    /\ HttpRead
    /\ UNCHANGED <<subject, jsonVars, formVars, pieces>>

ReadDocument ==
    /\ subject = "json"
    /\ Len(json) < MaxJson
    /\ \E l \in Offered : JsonRead(l)
    /\ UNCHANGED <<subject, httpVars, formVars, pieces>>

ReadQuery ==
    /\ subject = "query"
    /\ Len(form) < MaxQuery
    /\ QueryRead
    /\ UNCHANGED <<subject, httpVars, jsonVars, pieces>>

WriteMultipart ==
    /\ subject = "multipart"
    /\ Len(form) < MaxBody
    /\ WriteBody
    /\ UNCHANGED <<subject, httpVars, jsonVars, pieces>>

WriteTemplate ==
    /\ subject = "template"
    /\ Len(pieces) < MaxPieces
    /\ WritePage
    /\ UNCHANGED <<subject, httpVars, jsonVars, formVars>>

Next == ReadRequest \/ ReadDocument \/ ReadQuery \/ WriteMultipart \/ WriteTemplate

Spec == Init /\ [][Next]_vars
=============================================================================
