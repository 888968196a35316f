-------------------------------- MODULE Json --------------------------------
(***************************************************************************)
(* Json (util/json.hpp): the recursive descent parser and the serializer.  *)
(*                                                                         *)
(* A text is a sequence of lexemes.  A literal is one lexeme, a number is  *)
(* spelled with "-" "0" "1" "." "e", inside a string a lexeme is a         *)
(* character.  "LF" stands for white space outside a string and for a      *)
(* control character inside one, "n" for the letters of simple escapes,    *)
(* "u0001" "uD83D" "uDE00" for the letter u and four digits that name a    *)
(* control character and the two halves of the pair "emoji", "u00" for an  *)
(* incomplete escape.  Numbers are within the range of a double.           *)
(***************************************************************************)
EXTENDS Integers, Sequences, TLC

CONSTANTS
    MaxDepth,   \* JsonParser::MAX_DEPTH
    IntDigits   \* an integer of more digits does not fit an int64

ASSUME JsonAssumption == MaxDepth \in Nat /\ IntDigits \in Nat \ {0}

Digits == {"0", "1"}
Literals == {"null", "true"}
Controls == {"LF", "ctl"}
Quote == "quote"
Backslash == "backslash"

\* What a parser function returns: where it stopped and what it read.
Fail == [ok |-> FALSE, at |-> 0, val |-> "none"]
Got(val, at) == [ok |-> TRUE, at |-> at, val |-> val]

Peek(s, at) == IF at <= Len(s) THEN s[at] ELSE "end"

\* The first position from `at` on that holds no member of S.
Past(s, at, S) ==
    CHOOSE p \in at .. Len(s) + 1 :
        Peek(s, p) \notin S /\ \A q \in at .. p - 1 : s[q] \in S

SkipWs(s, at) == Past(s, at, {"LF"})

-----------------------------------------------------------------------------
(* Strings *)

SimpleEscape == (Quote :> Quote) @@ (Backslash :> Backslash) @@ ("n" :> "LF")

\* What follows a backslash; a high surrogate must be followed by a low one.
Codepoint_AnyLow(s, at) ==
    IF s[at] = "u0001" THEN Got("ctl", at + 1)
    ELSE IF s[at] = "uD83D" /\ Peek(s, at + 1) = Backslash THEN Got("emoji", at + 3)
    ELSE Fail

Codepoint(s, at) ==
    IF s[at] = "u0001" THEN Got("ctl", at + 1)
    ELSE IF s[at] = "uD83D" /\ Peek(s, at + 1) = Backslash /\ Peek(s, at + 2) = "uDE00"
    THEN Got("emoji", at + 3)
    ELSE Fail

Escape(s, at) ==
    IF Peek(s, at) \in DOMAIN SimpleEscape THEN Got(SimpleEscape[s[at]], at + 1)
    ELSE IF Peek(s, at) = "end" THEN Fail
    ELSE Codepoint(s, at)

RECURSIVE Characters(_, _, _)
Characters(s, at, out) ==
    CASE Peek(s, at) \in Controls \cup {"end"} -> Fail
      [] Peek(s, at) = Quote -> Got([type |-> "string", of |-> out], at + 1)
      [] Peek(s, at) = Backslash ->
            LET e == Escape(s, at + 1)
            IN  IF e.ok THEN Characters(s, e.at, Append(out, e.val)) ELSE Fail
      [] OTHER -> Characters(s, at + 1, Append(out, s[at]))

ParseString(s, at) == IF Peek(s, at) = Quote THEN Characters(s, at + 1, <<>>) ELSE Fail

-----------------------------------------------------------------------------
(* Numbers *)

ParseNumber(s, begin) ==
    LET sign  == IF Peek(s, begin) = "-" THEN begin + 1 ELSE begin
        whole == IF Peek(s, sign) = "0" THEN sign + 1 ELSE Past(s, sign, Digits)
        frac  == IF Peek(s, whole) = "." THEN Past(s, whole + 1, Digits) ELSE whole
        mark  == IF Peek(s, frac) # "e" THEN frac
                 ELSE IF Peek(s, frac + 1) = "-" THEN frac + 2 ELSE frac + 1
        end   == IF mark = frac THEN frac ELSE Past(s, mark, Digits)
        token == SubSeq(s, begin, end - 1)
        fits  == end = whole /\ whole - sign <= IntDigits
    IN  IF \/ whole = sign
           \/ Peek(s, sign) = "0" /\ Peek(s, whole) \in Digits
           \/ frac = whole + 1
           \/ mark # frac /\ end = mark
        THEN Fail
        ELSE Got([type |-> IF fits THEN "int" ELSE "double",
                  of |-> IF fits /\ token = <<"-", "0">> THEN <<"0">> ELSE token], end)

-----------------------------------------------------------------------------
(* Values *)

RECURSIVE ParseValue(_, _, _), Items(_, _, _, _), Members(_, _, _, _)

\* The loops of parse_array and parse_object; `at` is past a bracket or a comma.
Items(s, at, depth, items) ==
    LET item == ParseValue(s, SkipWs(s, at), depth + 1)
        next == SkipWs(s, item.at)
        all  == Append(items, item.val)
    IN  CASE ~item.ok -> Fail
          [] Peek(s, next) = "," -> Items(s, next + 1, depth, all)
          [] Peek(s, next) = "]" -> Got([type |-> "array", of |-> all], next + 1)
          [] OTHER -> Fail

Members(s, at, depth, members) ==
    LET key   == ParseString(s, SkipWs(s, at))
        colon == SkipWs(s, key.at)
        item  == ParseValue(s, SkipWs(s, colon + 1), depth + 1)
        next  == SkipWs(s, item.at)
        all   == Append(members, <<key.val, item.val>>)
    IN  CASE ~key.ok \/ Peek(s, colon) # ":" -> Fail
          [] ~item.ok -> Fail
          [] Peek(s, next) = "," -> Members(s, next + 1, depth, all)
          [] Peek(s, next) = "}" -> Got([type |-> "object", of |-> all], next + 1)
          [] OTHER -> Fail

ParseArray(s, at, depth) ==
    LET first == SkipWs(s, at + 1)
    IN  IF Peek(s, first) = "]" THEN Got([type |-> "array", of |-> <<>>], first + 1)
        ELSE Items(s, at + 1, depth, <<>>)

ParseObject(s, at, depth) ==
    LET first == SkipWs(s, at + 1)
    IN  IF Peek(s, first) = "}" THEN Got([type |-> "object", of |-> <<>>], first + 1)
        ELSE Members(s, at + 1, depth, <<>>)

TooDeep(depth) == depth > MaxDepth

ParseValue(s, at, depth) ==
    CASE TooDeep(depth) -> Fail
      [] Peek(s, at) \in Literals -> Got([type |-> "literal", of |-> s[at]], at + 1)
      [] Peek(s, at) = Quote -> ParseString(s, at)
      [] Peek(s, at) = "[" -> ParseArray(s, at, depth)
      [] Peek(s, at) = "{" -> ParseObject(s, at, depth)
      [] OTHER -> ParseNumber(s, at)

\* JsonParser::run: one value and nothing after it.
Parse(s) ==
    LET value == ParseValue(s, SkipWs(s, 1), 0)
    IN  IF value.ok /\ SkipWs(s, value.at) = Len(s) + 1 THEN value ELSE Fail

-----------------------------------------------------------------------------
(* Serialization *)

\* Comma-separated texts.
RECURSIVE Joined(_)
Joined(texts) ==
    IF Len(texts) < 2 THEN IF texts = <<>> THEN <<>> ELSE texts[1]
    ELSE texts[1] \o <<",">> \o Joined(Tail(texts))

EscapedChar_Raw(c) ==
    CASE c \in {Quote, Backslash} -> <<Backslash, c>>
      [] c = "LF" -> <<Backslash, "n">>
      [] OTHER -> <<c>>

EscapedChar(c) ==
    CASE c \in {Quote, Backslash} -> <<Backslash, c>>
      [] c = "LF" -> <<Backslash, "n">>
      [] c = "ctl" -> <<Backslash, "u0001">>
      [] OTHER -> <<c>>

RECURSIVE Escaped(_)
Escaped(chars) ==
    IF chars = <<>> THEN <<>> ELSE EscapedChar(Head(chars)) \o Escaped(Tail(chars))

EscapeString(chars) == <<Quote>> \o Escaped(chars) \o <<Quote>>

RECURSIVE Dump(_)
Dump(v) ==
    CASE v.type = "literal" -> <<v.of>>
      [] v.type = "int" -> v.of
      [] v.type = "string" -> EscapeString(v.of)
      [] v.type = "array" -> <<"[">> \o Joined([i \in DOMAIN v.of |-> Dump(v.of[i])]) \o <<"]">>
      [] v.type = "object" ->
            <<"{">> \o Joined([i \in DOMAIN v.of |->
                                  EscapeString(v.of[i][1].of) \o <<":">> \o Dump(v.of[i][2])])
                    \o <<"}">>

\* Printing a double is std::to_chars; a tree with one is not dumped here.
RECURSIVE HasDouble(_)
HasDouble(v) ==
    \/ v.type = "double"
    \/ v.type = "array" /\ \E i \in DOMAIN v.of : HasDouble(v.of[i])
    \/ v.type = "object" /\ \E i \in DOMAIN v.of : HasDouble(v.of[i][2])
=============================================================================
