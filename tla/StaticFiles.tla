---------------------------- MODULE StaticFiles ----------------------------
(***************************************************************************)
(* Static mounts (util/static_files.h, util/secure_render.h): from a path  *)
(* below a mount to a response.  The disk maps the segments of a file name *)
(* to what is there: a version of a regular file, "dir", "large" (a file   *)
(* beyond the size cap), "outside" (a link that leads out of the mount) or *)
(* "unreadable" (it opens and reading it fails); a name it does not map    *)
(* does not exist or cannot be opened, which is the same here.             *)
(***************************************************************************)
EXTENDS Routing

CONSTANTS
    Versions,    \* the contents files may have
    SizeOf,      \* st_size of each
    MTimeOf      \* st_mtim.tv_sec of each

Unreadable == {"missing", "dir", "large", "outside", "unreadable"}

ASSUME StaticAssumption ==
    /\ SizeOf \in [Versions -> Nat] /\ MTimeOf \in [Versions -> Nat]
    /\ Versions \cap Unreadable = {}

Index == "index"

KindAt(disk, full) == IF full \in DOMAIN disk THEN disk[full] ELSE "missing"

MakeEtag_SizeOnly(version) == <<SizeOf[version], 0>>
MakeEtag(version) == <<SizeOf[version], MTimeOf[version]>>

\* An If-None-Match list; AnyTag, its "*", matches whatever there is.
AnyTag == <<>>
EtagMatches(list, etag) == AnyTag \in list \/ etag \in list

Respond(status, body, etag) == [status |-> status, body |-> body, etag |-> etag]

NoEtag == <<0, 0>>
Error(status) == Respond(status, <<"error">>, NoEtag)

Content(version) == [i \in 1 .. SizeOf[version] |-> version]

\* A regular file of the mount, conditional on the tags the client has.
Regular(mount, version, tags) ==
    IF ~mount.cache THEN Respond(200, Content(version), NoEtag)
    ELSE IF EtagMatches(tags, MakeEtag(version)) THEN Respond(304, <<>>, MakeEtag(version))
    ELSE Respond(200, Content(version), MakeEtag(version))

\* For a missing file an application of one page has its index.
ServePath(mount, disk, full, tags) ==
    LET name == IF KindAt(disk, full) = "missing" /\ mount.spa THEN <<Index>> ELSE full
        kind == KindAt(disk, name)
    IN  CASE kind = "missing" -> Error(404)
          [] kind \in {"dir", "outside"} -> Error(403)
          [] kind = "large" -> Error(413)
          [] kind = "unreadable" -> Error(500)
          [] OTHER -> Regular(mount, kind, tags)

\* The name below the mount, a directory's index if it is one.
Below(mount, disk, path) ==
    LET rest == IF mount.prefix = <<"/">> THEN path
                ELSE SubSeq(path, Len(mount.prefix) + 1, Len(path))
        rel  == SplitPath(rest)
    IN  IF rel = <<>> \/ KindAt(disk, rel) = "dir" THEN Append(rel, Index) ELSE rel

Declined == [status |-> 0]

Serve(mount, disk, target, method, tags) ==
    LET path == Decode(target)
        full == Below(mount, disk, path)
    IN  IF method \notin {Get, <<"HEAD">>} \/ ~UnderMount(mount, path) THEN Declined
        ELSE IF \E i \in DOMAIN full : full[i] = ".." THEN Error(403)
        ELSE ServePath(mount, disk, full, tags)
=============================================================================
