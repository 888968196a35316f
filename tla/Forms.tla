-------------------------------- MODULE Forms --------------------------------
(***************************************************************************)
(* Query strings, urlencoded bodies and multipart/form-data bodies         *)
(* (http/message.hpp).                                                     *)
(*                                                                         *)
(* In a query a lexeme is a character.  In a multipart body "--B" is the   *)
(* delimiter, "--" two dashes, "CD" the bytes of Content-Disposition with  *)
(* its colon and form-data, "CT" a Content-Type with its value, "CRLF" and *)
(* "LF" line ends, the others characters of a name or of the content.      *)
(***************************************************************************)
EXTENDS Integers, Sequences, SequencesExt, FiniteSetsExt

Chars == {"&", "=", "%", "+", "2", "5", "6", "a"}
HexDigits == {"2", "5", "6"}
FormLexemes == {"--B", "--", "CD", "CT", "CRLF", "LF", ";", "name", "file", "quote",
            "a", "b", "x", "/", ".", "..", "ctl"}

\* The character two digits name.
CharOf(hi, lo) ==
    CASE <<hi, lo>> = <<"2", "5">> -> "%"
      [] <<hi, lo>> = <<"2", "6">> -> "&"
      [] OTHER -> "other"

\* What stands before the first separator, and what behind the first n lexemes.
Piece(s, sep) == SubSeq(s, 1, Min({p \in DOMAIN s : s[p] = sep} \cup {Len(s) + 1}) - 1)
Rest(s, n) == SubSeq(s, n + 1, Len(s))

\* The pieces of a text between the separators, empty ones included.
Split(s, sep) ==
    LET pieces[r \in Seq(FormLexemes)] ==
            LET first == Piece(r, sep)
            IN  IF first = r THEN <<r>> ELSE <<first>> \o pieces[Rest(r, Len(first) + 1)]
    IN  pieces[s]

-----------------------------------------------------------------------------
(* url_decode, percent_decode, parse_query *)

IsEscape_OffByOne(s) ==
    s[1] = "%" /\ Len(s) > 3 /\ s[2] \in HexDigits /\ s[3] \in HexDigits

IsEscape(s) ==
    s[1] = "%" /\ Len(s) >= 3 /\ s[2] \in HexDigits /\ s[3] \in HexDigits

UrlDecode[s \in Seq(Chars)] ==
    IF s = <<>> THEN <<>>
    ELSE IF IsEscape(s) THEN <<CharOf(s[2], s[3])>> \o UrlDecode[Rest(s, 3)]
    ELSE <<IF s[1] = "+" THEN "space" ELSE s[1]>> \o UrlDecode[Rest(s, 1)]

ParsePair(segment) ==
    LET key == Piece(segment, "=")
    IN  <<UrlDecode[key], UrlDecode[Rest(segment, Len(key) + 1)]>>

ParseQuery[raw \in Seq(Chars)] ==
    LET segment == Piece(raw, "&")
        pair    == IF segment = <<>> THEN <<>> ELSE <<ParsePair(segment)>>
    IN  IF segment = raw THEN pair ELSE pair \o ParseQuery[Rest(raw, Len(segment) + 1)]

-----------------------------------------------------------------------------
(* parse_multipart *)

\* A file name without its directories, empty if it cannot be trusted.
SanitizeFilename(name) ==
    LET pieces == Split(name, "/")
        base   == pieces[Len(pieces)]
    IN  IF base \in {<<".">>, <<"..">>} \/ \E i \in DOMAIN base : base[i] = "ctl"
        THEN <<>> ELSE base

\* A quoted parameter of a disposition; "filename" is the two lexemes "file" "name".
DispositionParam_Anywhere(disposition, key) ==
    LET name == key[Len(key)]
        at   == {p \in DOMAIN disposition : disposition[p] = name /\ disposition[p + 1] = "quote"}
        from == Min(at)
        rest == SubSeq(disposition, from + 2, Len(disposition))
    IN  IF at = {} THEN <<>> ELSE Split(rest, "quote")[1]

DispositionParam(disposition, key) ==
    LET n      == Len(key)
        params == Split(disposition, ";")
        them   == {k \in DOMAIN params : /\ Len(params[k]) > n
                                         /\ SubSeq(params[k], 1, n) = key /\ params[k][n + 1] = "quote"}
        values == Split(Rest(params[Min(them)], n + 1), "quote")
    IN  IF them = {} \/ Len(values) < 2 THEN <<>> ELSE values[1]

\* The line end behind a delimiter belongs to the delimiter, and so does the
\* one before it.
WithoutLineStart(piece) ==
    IF piece # <<>> /\ piece[1] \in {"CRLF", "LF"} THEN Rest(piece, 1) ELSE piece
WithoutLineEnd(part) ==
    IF part # <<>> /\ part[Len(part)] \in {"CRLF", "LF"} THEN Front(part) ELSE part

\* One part as [name, file, typed, content]; a field has no file name.
ParsePart(part) ==
    LET blanks  == {p \in 1 .. Len(part) - 1 : part[p] = "CRLF" /\ part[p + 1] = "CRLF"}
        split   == Min(blanks)
        headers == Split(IF blanks = {} THEN part ELSE SubSeq(part, 1, split - 1), "CRLF")
        content == IF blanks = {} THEN <<>> ELSE Rest(part, split + 1)
        ofKind(k) == {i \in DOMAIN headers : headers[i] # <<>> /\ headers[i][1] = k}
        disposition == IF ofKind("CD") = {} THEN <<>> ELSE Rest(headers[Max(ofKind("CD"))], 1)
        file    == SanitizeFilename(DispositionParam(disposition, <<"file", "name">>))
    IN  [name |-> DispositionParam(disposition, <<"name">>), file |-> file,
         typed |-> file # <<>> /\ ofKind("CT") # {}, content |-> content]

\* The parts with a name among the pieces that stand between two delimiters:
\* all but the first.
PartsIn(pieces) ==
    LET parts[k \in 0 .. Len(pieces)] ==
            LET part == ParsePart(WithoutLineEnd(WithoutLineStart(pieces[k])))
            IN  IF k < 2 THEN <<>>
                ELSE IF part.name = <<>> THEN parts[k - 1]
                ELSE Append(parts[k - 1], part)
    IN  parts[Len(pieces)]

\* The piece behind the last delimiter, or behind the final one, is no part.
PartsOf(pieces) ==
    LET final == {k \in 2 .. Len(pieces) : pieces[k] # <<>> /\ pieces[k][1] = "--"}
    IN  PartsIn(SubSeq(pieces, 1, Min(final \cup {Len(pieces)}) - 1))

ParseMultipart(body) == PartsOf(Split(body, "--B"))
=============================================================================
