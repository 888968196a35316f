------------------------------ MODULE Templates ------------------------------
(***************************************************************************)
(* Templates: compose() puts modules "#[name];" into a page and render()   *)
(* variables "[[name]]", one per pass over the text (util/ver_reader.h,    *)
(* util/data_render.h, util/secure_render.h).                              *)
(*                                                                         *)
(* A text is a sequence of characters; "&lt;" is one that cannot be markup *)
(* and "ctl" a control character.  The files are those of the template's   *)
(* folder by name, each with its kind: "file", "dir", "unreadable" or      *)
(* "outside", a link that leads out of the folder.                         *)
(***************************************************************************)
EXTENDS Integers, Sequences, SequencesExt, FiniteSetsExt

CONSTANTS
    MaxFileBytes,   \* RenderSecurity::max_file_bytes
    MaxPasses       \* VerReader::MAX_PASSES

OpenTag == <<"#", "[">>
CloseTag == <<"]", ";">>
OpenData == <<"[", "[">>
CloseData == <<"]", "]">>

NameChars == {"a", "b", "c", "d", "."}

Pairs(text, pair) == {p \in 1 .. Len(text) - 1 : text[p] = pair[1] /\ text[p + 1] = pair[2]}

\* The first closing pair and the last opening one before it, 0 for none.
FindTag_NoBreak(text, open, close) ==
    [open |-> Max({0} \cup Pairs(text, open)), close |-> Max({0} \cup Pairs(text, close))]
FindTag(text, open, close) ==
    LET closes == Pairs(text, close)
        opens  == {p \in Pairs(text, open) : closes = {} \/ p < Min(closes)}
    IN  [open |-> Max({0} \cup opens), close |-> IF closes = {} THEN 0 ELSE Min(closes)]

NameIn(text, tag) == SubSeq(text, tag.open + 2, tag.close - 1)

\* The text with its tag replaced.
Spliced(text, tag, by) ==
    SubSeq(text, 1, tag.open - 1) \o by \o SubSeq(text, tag.close + 2, Len(text))

FileAt(files, name) == IF name \in DOMAIN files THEN files[name] ELSE [kind |-> "missing", text |-> <<>>]

\* is_within and read_bounded.
ReadStatus(file) ==
    CASE file.kind \in {"outside", "dir"} -> 403
      [] file.kind = "missing" -> 404
      [] file.kind = "unreadable" -> 500
      [] file.kind = "file" -> IF Len(file.text) > MaxFileBytes THEN 413 ELSE 200

-----------------------------------------------------------------------------
(* compose *)

ValidIncludeName(name) ==
    /\ name # <<>> /\ ToSet(name) \subseteq NameChars /\ name # <<".">>
    /\ Pairs(name, <<".", ".">>) = {}

\* Of a module only its size and its way out of the folder are told apart.
ModuleStatus(name, file) ==
    IF ~ValidIncludeName(name) \/ file.kind = "outside" THEN 403
    ELSE IF ReadStatus(file) \in {200, 413} THEN ReadStatus(file) ELSE 404

Page(status, text) == [status |-> status, text |-> IF status = 200 THEN text ELSE <<"error">>]

\* At most `passes` modules are put in place.
RECURSIVE Expanded(_, _, _)
Expanded(text, files, passes) ==
    LET tag    == FindTag(text, OpenTag, CloseTag)
        name   == NameIn(text, tag)
        file   == FileAt(files, name)
        status == ModuleStatus(name, file)
        larger == Spliced(text, tag, file.text)
    IN  IF passes = 0 \/ (tag.open = 0 /\ tag.close = 0) THEN Page(200, text)
        ELSE IF tag.open = 0 \/ tag.close = 0 THEN Page(400, text)
        ELSE IF status # 200 THEN Page(status, text)
        ELSE IF Len(larger) > MaxFileBytes THEN Page(413, text)
        ELSE Expanded(larger, files, passes - 1)

Passes(reserve) == Max({0, Min({reserve, MaxPasses})})

Compose(files, path, reserve) ==
    LET file == FileAt(files, path)
    IN  IF ReadStatus(file) # 200 THEN Page(ReadStatus(file), <<>>)
        ELSE Expanded(file.text, files, Passes(reserve))

-----------------------------------------------------------------------------
(* render *)

EscapeHtml_Not(text) == text
EscapeHtml(text) ==
    FlattenSeq([i \in DOMAIN text |-> CASE text[i] = "<" -> <<"&lt;">>
                                       [] text[i] = "ctl" -> <<>>
                                       [] OTHER -> <<text[i]>>])

\* The value of the first variable of that name.
ValueOf(variables, name) ==
    LET at == {i \in DOMAIN variables : variables[i][1] = name}
    IN  IF at = {} THEN <<"error">> ELSE variables[Min(at)][2]

\* The page that replaces one whose marker is not complete; it has one itself.
NoSafeData == <<"error", "]", "]">>

BodyTratament(text, variables) ==
    LET tag == FindTag(text, OpenData, CloseData)
    IN  IF tag.open = 0 /\ tag.close = 0 THEN text
        ELSE IF tag.open = 0 \/ tag.close = 0 THEN NoSafeData
        ELSE Spliced(text, tag, EscapeHtml(ValueOf(variables, NameIn(text, tag))))

\* One pass for each variable, whichever markers there are.
RECURSIVE Rendered(_, _, _)
Rendered(text, variables, passes) ==
    IF passes = 0 THEN text ELSE Rendered(BodyTratament(text, variables), variables, passes - 1)

Render(files, path, variables) ==
    LET file == FileAt(files, path)
    IN  IF ReadStatus(file) # 200 THEN <<"error">> ELSE Rendered(file.text, variables, Len(variables))
=============================================================================
