------------------------------ MODULE JsonText ------------------------------
(***************************************************************************)
(* The reference for Json: RFC 8259 as an automaton with a stack that      *)
(* reads a text one lexeme at a time.  It shares nothing with the parser.  *)
(***************************************************************************)
EXTENDS Json

VARIABLES
    json,    \* the lexemes read so far
    mode,    \* what may come next; "dead" if nothing can make the text right
    stack    \* the brackets that are open; "key" while a key is being read

jsonVars == <<json, mode, stack>>

Lexemes == {"[", "]", "{", "}", ",", ":", "null", "-", "0", "1", ".", "e", "LF", Quote,
            Backslash, "n", "a", "u0001", "uD83D", "uDE00", "u00", "ctl"}

JsonInit == json = <<>> /\ mode = "value" /\ stack = <<>>

\* A number may end wherever it could be complete.
Ended == {"after", "zero", "int", "frac", "exp"}

Begin ==
    [l \in {"null", "true"} |-> "after"] @@ (Quote :> "string") @@ ("-" :> "minus")
    @@ ("0" :> "zero") @@ ("1" :> "int") @@ ("[" :> "first") @@ ("{" :> "member")

Number ==
    [m \in {"minus"} |-> ("0" :> "zero") @@ ("1" :> "int")]
    @@ ("zero" :> (("." :> "point") @@ ("e" :> "e")))
    @@ ("int" :> ([d \in Digits |-> "int"] @@ ("." :> "point") @@ ("e" :> "e")))
    @@ ("point" :> [d \in Digits |-> "frac"])
    @@ ("frac" :> ([d \in Digits |-> "frac"] @@ ("e" :> "e")))
    @@ ("e" :> ([d \in Digits |-> "exp"] @@ ("-" :> "esign")))
    @@ ("esign" :> [d \in Digits |-> "exp"])
    @@ ("exp" :> [d \in Digits |-> "exp"])

Top == IF stack = <<>> THEN "none" ELSE stack[Len(stack)]
Push(m, b) == mode' = m /\ stack' = Append(stack, b)
Pop(m) == mode' = m /\ stack' = SubSeq(stack, 1, Len(stack) - 1)
Stay(m) == mode' = m /\ stack' = stack

InString(l) ==
    CASE mode = "string" /\ l = Quote -> IF Top = "key" THEN Pop("colon") ELSE Stay("after")
      [] mode = "string" /\ l = Backslash -> Stay("escape")
      [] mode = "string" -> Stay(IF l \in {"LF", "ctl"} THEN "dead" ELSE "string")
      [] mode = "escape" /\ l \in {Quote, Backslash, "n", "u0001"} -> Stay("string")
      [] mode = "escape" /\ l = "uD83D" -> Stay("pair")
      [] mode = "pair" /\ l = Backslash -> Stay("low")
      [] mode = "low" /\ l = "uDE00" -> Stay("string")
      [] OTHER -> Stay("dead")

Structure(l) ==
    CASE mode \in DOMAIN Number /\ l \in DOMAIN Number[mode] -> Stay(Number[mode][l])
      [] l = "LF" /\ mode \in Ended -> Stay("after")
      [] l = "LF" /\ mode \in {"value", "first", "member", "key", "colon"} -> Stay(mode)
      [] mode \in {"value", "first"} /\ l \in DOMAIN Begin ->
            IF Len(stack) > MaxDepth THEN Stay("dead")
            ELSE IF l \in {"[", "{"} THEN Push(Begin[l], l) ELSE Stay(Begin[l])
      [] mode \in {"member", "key"} /\ l = Quote -> Push("string", "key")
      [] mode = "colon" /\ l = ":" -> Stay("value")
      [] mode \in Ended \cup {"first"} /\ l = "]" /\ Top = "[" -> Pop("after")
      [] mode \in Ended \cup {"member"} /\ l = "}" /\ Top = "{" -> Pop("after")
      [] mode \in Ended /\ l = "," /\ stack # <<>> ->
            Stay(IF Top = "[" THEN "value" ELSE "key")
      [] OTHER -> Stay("dead")

JsonRead(l) ==
    /\ json' = Append(json, l)
    /\ IF mode \in {"string", "escape", "pair", "low"} THEN InString(l) ELSE Structure(l)

-----------------------------------------------------------------------------

\* json.hpp:143 promises a strict RFC 8259 parse: the parser accepts a text
\* exactly when the grammar does, up to the depth limit; no lexeme is accepted
\* too many and none too few, at any depth.
JsonIsStrict == Parse(json).ok <=> mode \in Ended /\ stack = <<>>

\* dump() writes a text that parses back to the tree it was written from,
\* whatever characters and escapes its strings and keys hold.
JsonRoundTrip ==
    LET v == Parse(json).val
    IN  Parse(json).ok /\ ~HasDouble(v) => Parse(Dump(v)) = Got(v, Len(Dump(v)) + 1)
=============================================================================
