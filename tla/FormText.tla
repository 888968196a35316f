------------------------------ MODULE FormText ------------------------------
(***************************************************************************)
(* The references for Forms: a reader that decodes a query one character   *)
(* at a time, and a client that writes a multipart body part by part and   *)
(* keeps account of the parts it has finished.                             *)
(***************************************************************************)
EXTENDS Forms

CONSTANT MaxContent    \* bound: lexemes of a part's content

VARIABLES
    form,      \* the characters of a query, or the lexemes of a body
    place,     \* what is being read or written
    escape,    \* the characters of an escape that is not complete
    current,   \* the pair or the part under way
    done       \* the pairs or the parts that are complete

formVars == <<form, place, escape, current, done>>

NoPair == <<<<>>, <<>>>>
NoPart == [name |-> <<>>, file |-> <<>>, typed |-> FALSE, content |-> <<>>]

QueryInit == form = <<>> /\ place = "key" /\ escape = <<>> /\ current = NoPair /\ done = <<>>
BodyInit == form = <<>> /\ place = "preamble" /\ escape = <<>> /\ current = NoPart /\ done = <<>>

-----------------------------------------------------------------------------
(* The reader of a query *)

Plus(pair, chars) ==
    IF place = "key" THEN <<pair[1] \o chars, pair[2]>> ELSE <<pair[1], pair[2] \o chars>>
Plain(c) == IF c = "+" THEN <<"space">> ELSE <<c>>

\* An escape that is not one stands for itself.
Finished == Plus(current, escape)

ReadChar(c) ==
    /\ form' = Append(form, c)
    /\ escape' = CASE c = "%" -> <<"%">>
                   [] escape = <<"%">> /\ c \in HexDigits -> <<"%", c>>
                   [] OTHER -> <<>>
    /\ place' = CASE c = "&" -> "key"
                  [] c = "=" -> "value"
                  [] OTHER -> place
    /\ current' =
          CASE c = "&" -> NoPair
            [] c = "=" /\ place = "value" -> Plus(Finished, <<"=">>)
            [] c = "=" /\ place = "key" -> Finished
            [] c = "%" -> Finished
            [] escape = <<"%">> /\ c \in HexDigits -> current
            [] Len(escape) = 2 /\ c \in HexDigits -> Plus(current, <<CharOf(escape[2], c)>>)
            [] OTHER -> Plus(Finished, Plain(c))
    /\ done' = IF c # "&" \/ form = <<>> \/ Last(form) = "&" THEN done ELSE Append(done, Finished)

QueryRead == \E c \in Chars : ReadChar(c)
QuerySpec == QueryInit /\ [][QueryRead]_formVars

-----------------------------------------------------------------------------
(* The writer of a multipart body *)

Write(lexemes) == form' = form \o lexemes

Preamble == place = "preamble" /\ form = <<>> /\ Write(<<"x">>) /\ UNCHANGED <<place, escape, current, done>>

FirstDelimiter ==
    /\ place = "preamble" /\ Write(<<"--B">>)
    /\ place' = "part" /\ UNCHANGED <<escape, current, done>>

Disposition(name, file) ==
    LET named == <<";", "name", "quote">> \o name \o <<"quote">>
        filed == <<";", "file", "name", "quote">> \o file \o <<"quote">>
    IN  /\ place = "part"
        /\ \/ file = <<>> /\ Write(<<"CRLF", "CD">> \o named)
           \/ file # <<>> /\ Write(<<"CRLF", "CD">> \o named \o filed)
           \/ file # <<>> /\ Write(<<"CRLF", "CD">> \o filed \o named)
        /\ place' = "headers"
        /\ current' = [NoPart EXCEPT !.name = name,
                          !.file = IF file = <<"a", "/", "b">> THEN <<"b">>
                                   ELSE IF file = <<"a">> THEN <<"a">> ELSE <<>>]
        /\ UNCHANGED <<escape, done>>

Type ==
    /\ place = "headers" /\ ~current.typed
    /\ Write(<<"CRLF", "CT">>)
    /\ current' = [current EXCEPT !.typed = @ \/ current.file # <<>>]
    /\ place' = "typed" /\ UNCHANGED <<escape, done>>

Blank ==
    /\ place \in {"headers", "typed"} /\ Write(<<"CRLF", "CRLF">>)
    /\ place' = "content" /\ UNCHANGED <<escape, current, done>>

Content(c) ==
    /\ place = "content" /\ Len(current.content) < MaxContent /\ Write(<<c>>)
    /\ current' = [current EXCEPT !.content = Append(@, c)]
    /\ UNCHANGED <<place, escape, done>>

Delimiter ==
    /\ place = "content" /\ Write(<<"CRLF", "--B">>)
    /\ done' = IF current.name = <<>> THEN done ELSE Append(done, current)
    /\ place' = "part" /\ UNCHANGED <<escape, current>>

Close ==
    /\ place = "part" /\ Write(<<"--">>)
    /\ place' = "epilogue" /\ UNCHANGED <<escape, current, done>>

Epilogue(l) ==
    /\ place = "epilogue" /\ Last(form) = "--" /\ Write(<<l>>)
    /\ UNCHANGED <<place, escape, current, done>>

\* No name holds a ";": a disposition is cut at it inside the quotes too, and
\* such a file becomes a field (message.hpp:787).
Filenames == {<<>>, <<"a">>, <<"a", "/", "b">>, <<"..">>, <<"a", "/", "..">>, <<"a", "/">>, <<"a", "ctl">>}

WriteBody ==
    \/ Preamble \/ FirstDelimiter
    \/ \E name \in {<<>>, <<"a">>}, file \in Filenames : Disposition(name, file)
    \/ Type \/ Blank
    \/ \E c \in {"x", "CRLF", "LF", "--", "CD"} : Content(c)
    \/ Delimiter \/ Close
    \/ \E l \in {"x", "CRLF", "--B"} : Epilogue(l)

BodySpec == BodyInit /\ [][WriteBody]_formVars

-----------------------------------------------------------------------------

\* A query is cut at its separators before it is decoded: an escaped "&"
\* never starts a pair, no character is decoded twice, and an escape that is
\* incomplete or malformed, the last characters of the text included, stands
\* for itself (message.hpp:117).
QueryIsDecoded ==
    place \in {"key", "value"} =>
        ParseQuery[form] =
            IF form = <<>> \/ Last(form) = "&" THEN done ELSE Append(done, Finished)

\* Of a multipart body the parts whose closing delimiter has arrived are found,
\* each with its name, its file name without directories and exactly the bytes
\* between its blank line and the line end of its delimiter, whatever line
\* ends, dashes or header-like lines the content holds.  The content never
\* holds the delimiter: parse_multipart cuts at it in mid-line as well.
MultipartIsSplit == place \notin {"key", "value"} => ParseMultipart(form) = done
=============================================================================
