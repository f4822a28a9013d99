------------------------------ MODULE Download ------------------------------
(***************************************************************************)
(* Downloading and archiving one document (documentrepository.py,          *)
(* download_single and download_if_needed; documentstore.py, archive and   *)
(* remove): a conditional GET against a server whose document changes, and *)
(* the files it leaves, in the order they are written, with crashes in     *)
(* between and a move that fails silently.  A content stands for itself,   *)
(* for its hash and for its ETag.                                          *)
(***************************************************************************)
EXTENDS Naturals, Sequences

CONSTANTS
  Content,      \* what the document's URL can serve
  Partial,      \* what is in a copy of it that was cut short
  None,         \* no file
  Dir,          \* storage_policy is "dir"
  Archive,      \* download_archive
  Copy,         \* download_archive_copy
  SendsEtag,    \* the server sends ETag headers
  SendsDate,    \* the server sends Last-Modified headers
  Removes,      \* the remove command is used
  MaxTime,      \* bound on the clock
  MaxCrashes    \* bound on the number of crashes

ASSUME ContentAssumption ==
  /\ None \notin Content \cup Partial
  /\ Content # {} /\ Content \cap Partial = {}
ASSUME PolicyAssumption ==
  /\ {Dir, Archive, Copy, SendsEtag, SendsDate, Removes} \subseteq BOOLEAN
  /\ Copy => Archive /\ ~Dir     \* shutil.copy2 does not copy a directory
ASSUME BoundAssumption == MaxTime \in Nat /\ MaxCrashes \in Nat

File == [content : Content \cup Partial \cup {None}, mtime : Nat]
Absent == [content |-> None, mtime |-> 0]

(* A response in the temporary file, its Last-Modified, and when it was    *)
(* written.                                                                *)
Response == [content : Content \cup {None}, modified : Nat, written : Nat]

VARIABLES
  clock,
  remote,     \* what the server has: a File
  pc,         \* where download_if_needed is
  tmp,        \* the last Response
  down,       \* the downloaded file
  etag,       \* the .etag file beside it: the content it was sent with
  parsed,     \* the parsed file: the content it was parsed from
  archive,    \* the archived versions, by version id
  verdict,    \* what the last download_single said, if nothing happened since
  crashes,
  seen,       \* history: the server's content when the last request was made
  kept,       \* history: contents put in place and never removed by remove
  botched     \* history: a move or a remove was not completed, and no
              \* download was since

store == <<down, etag, parsed, archive>>
vars == <<clock, remote, pc, tmp, down, etag, parsed, archive, verdict, crashes,
          seen, kept, botched>>

Init ==
  /\ clock = 1
  /\ remote \in [content : Content, mtime : {1}]
  /\ pc = "idle"
  /\ tmp = [content |-> None, modified |-> 0, written |-> 0]
  /\ down = Absent
  /\ etag = None
  /\ parsed = Absent
  /\ archive = <<>>
  /\ verdict = "none"
  /\ crashes = 0
  /\ seen = None
  /\ kept = {}
  /\ botched = FALSE

-----------------------------------------------------------------------------
(* The server. *)

RemoteChange(c) ==
  /\ clock < MaxTime
  /\ c # remote.content
  /\ clock' = clock + 1
  /\ remote' = [content |-> c, mtime |-> clock + 1]
  /\ UNCHANGED <<pc, tmp, store, verdict, crashes, seen, kept, botched>>

(* If-None-Match takes precedence over If-Modified-Since (_addheaders      *)
(* sends each of them when the file it comes from exists).                 *)
NotModified ==
  IF etag # None THEN etag = remote.content
  ELSE SendsDate /\ down # Absent /\ remote.mtime <= down.mtime

-----------------------------------------------------------------------------
(* download_single. *)

Respond(status) ==
  /\ pc = "idle"
  /\ seen' = remote.content
  /\ IF status = 304
       THEN NotModified /\ verdict' = "unchanged" /\ UNCHANGED <<pc, tmp>>
       ELSE /\ ~NotModified
            /\ verdict' = "none"
            /\ tmp' = [content |-> remote.content, modified |-> remote.mtime,
                       written |-> clock]
            /\ pc' = "got"
  /\ UNCHANGED <<clock, remote, store, crashes, kept, botched>>

(* The file exists and download_is_different says no. *)
SameContent ==
  /\ pc = "got"
  /\ down.content = tmp.content
  /\ pc' = "idle"
  /\ verdict' = "unchanged"
  /\ UNCHANGED <<clock, remote, tmp, store, crashes, seen, kept,
                 botched>>

(* Mutant: only a document that has been parsed is archived. *)
ArchivesIfParsed == down # Absent /\ parsed # Absent /\ Archive

Archives == down # Absent /\ Archive

NewContent ==
  /\ pc = "got"
  /\ down.content # tmp.content
  /\ pc' = IF Archives THEN "archive" ELSE "unlink"
  /\ UNCHANGED <<clock, remote, tmp, store, verdict, crashes, seen, kept,
                 botched>>

(* Mutant: the version id is the number of versions. *)
VersionAddedAtCount(v) ==
  IF archive = <<>> THEN <<v>> ELSE [archive EXCEPT ![Len(archive)] = v]

(* get_archive_version: the number of versions plus one. *)
VersionAdded(v) == Append(archive, v)

(* store.archive under that version id: first the downloaded file (with    *)
(* "dir", its directory and so the .etag file) ...                         *)
ArchiveDownloaded ==
  /\ pc = "archive"
  /\ archive' = VersionAdded([down |-> down.content, parsed |-> None])
  /\ down' = IF Copy THEN down ELSE Absent
  /\ etag' = IF Dir THEN None ELSE etag
  /\ pc' = "archiveparsed"
  /\ UNCHANGED <<clock, remote, tmp, parsed, verdict, crashes, seen, kept,
                 botched>>

(* Mutant: the parsed file is copied and not moved. *)
ParsedStays == parsed

ParsedAfterArchive == IF Copy THEN parsed ELSE Absent

(* ... then the parsed file and what was made from it. *)
ArchiveParsed ==
  /\ pc = "archiveparsed"
  /\ archive' = [archive EXCEPT ![Len(archive)].parsed = parsed.content]
  /\ parsed' = ParsedAfterArchive
  /\ pc' = "unlink"
  /\ UNCHANGED <<clock, remote, tmp, down, etag, verdict, crashes, seen, kept,
                 botched>>

(* robust_rename removes a file that is in the way ... *)
Unlink ==
  /\ pc = "unlink"
  /\ down' = Absent
  /\ pc' = "move"
  /\ kept' = IF Archive THEN kept ELSE kept \ {down.content}
  /\ UNCHANGED <<clock, remote, tmp, etag, parsed, archive, verdict, crashes,
                 seen, botched>>

(* ... and moves the temporary file there, with its mtime. *)
Move ==
  /\ pc = "move"
  /\ down' = [content |-> tmp.content, mtime |-> tmp.written]
  /\ kept' = kept \cup {tmp.content}
  /\ pc' = "utime"
  /\ UNCHANGED <<clock, remote, tmp, etag, parsed, archive, verdict, crashes,
                 seen, botched>>

(* From another file system the file is copied.  A copy that cannot be     *)
(* made leaves no file or a part of it.                                    *)
Uncopied == {Absent} \cup [content : Partial, mtime : {clock}]

(* robust_rename swallows the error, and the download goes on. *)
MoveFails ==
  /\ pc = "move"
  /\ down' \in Uncopied
  /\ botched' = TRUE
  /\ pc' = "utime"
  /\ UNCHANGED <<clock, remote, tmp, etag, parsed, archive, verdict, crashes,
                 seen, kept>>

(* The file's mtime is set to Last-Modified, if it is there: os.utime      *)
(* raises otherwise.                                                       *)
SetTime ==
  /\ pc = "utime"
  /\ down' = IF SendsDate /\ down # Absent
               THEN [down EXCEPT !.mtime = tmp.modified] ELSE down
  /\ pc' = IF SendsDate /\ down = Absent THEN "idle" ELSE "etag"
  /\ UNCHANGED <<clock, remote, tmp, etag, parsed, archive, verdict, crashes,
                 seen, kept, botched>>

(* The .etag file is written in any case; os.chmod of a missing file       *)
(* raises after that.                                                      *)
WriteEtag ==
  /\ pc = "etag"
  /\ etag' = IF SendsEtag THEN tmp.content ELSE etag
  /\ pc' = "idle"
  /\ verdict' = IF down = Absent THEN "none" ELSE "updated"
  /\ botched' = (botched /\ down.content # tmp.content)
  /\ UNCHANGED <<clock, remote, tmp, down, parsed, archive, crashes, seen, kept>>

(* The process dies in the middle of a download or of a remove, or of the  *)
(* copying of a file.                                                      *)
Crash ==
  /\ pc # "idle"
  /\ crashes < MaxCrashes
  /\ crashes' = crashes + 1
  /\ down' \in IF pc = "move" THEN Uncopied ELSE {down}
  /\ botched' = (botched \/ pc = "removedir" \/ down' # down)
  /\ pc' = "idle"
  /\ verdict' = "none"
  /\ UNCHANGED <<clock, remote, tmp, etag, parsed, archive, seen, kept>>

-----------------------------------------------------------------------------
(* The other commands. *)

(* store.needed(basefile, "parse"): not outfile_is_newer([down], parsed). *)
ParseNeeded == parsed = Absent \/ down.mtime > parsed.mtime

Parse ==
  /\ pc = "idle"
  /\ down # Absent
  /\ ParseNeeded
  /\ clock < MaxTime
  /\ clock' = clock + 1
  /\ parsed' = [content |-> down.content, mtime |-> clock + 1]
  /\ UNCHANGED <<remote, pc, tmp, down, etag, archive, verdict, crashes, seen,
                 kept, botched>>

(* Mutant: the .etag file is left where it is. *)
EtagStays == etag

(* With storage_policy "file" the .etag file is not removed. *)
EtagAfterRemove == IF Dir THEN None ELSE etag

(* store.remove: the current files.  With "dir" the downloaded file's      *)
(* directory goes, and rmtree may come to the .etag file first.            *)
Remove ==
  /\ Removes
  /\ pc = "idle"
  /\ down # Absent \/ parsed # Absent
  /\ \/ down' = Absent /\ kept' = kept \ {down.content} /\ etag' = etag
     \/ Dir /\ etag' = None /\ UNCHANGED <<down, kept>>
  /\ pc' = "removedir"
  /\ verdict' = "none"
  /\ UNCHANGED <<clock, remote, tmp, parsed, archive, crashes, seen, botched>>

(* ... then the rest of that directory ... *)
RemoveRest ==
  /\ pc = "removedir"
  /\ kept' = kept \ {down.content}
  /\ down' = Absent
  /\ etag' = EtagAfterRemove
  /\ botched' = FALSE
  /\ pc' = "removeparsed"
  /\ UNCHANGED <<clock, remote, tmp, parsed, archive, verdict, crashes, seen>>

(* ... and the parsed file. *)
RemoveParsed ==
  /\ pc = "removeparsed"
  /\ parsed' = Absent
  /\ pc' = "idle"
  /\ UNCHANGED <<clock, remote, tmp, down, etag, archive, verdict, crashes, seen,
                 kept, botched>>

Next ==
  \/ \E c \in Content : RemoteChange(c)
  \/ \E status \in {200, 304} : Respond(status)
  \/ SameContent \/ NewContent \/ ArchiveDownloaded \/ ArchiveParsed
  \/ Unlink \/ Move \/ MoveFails \/ SetTime \/ WriteEtag
  \/ Crash \/ Parse \/ Remove \/ RemoveRest \/ RemoveParsed

Spec == Init /\ [][Next]_vars

-----------------------------------------------------------------------------
(* The types of the variables. *)
TypeOK ==
  /\ clock \in Nat
  /\ {remote, down, parsed} \subseteq File
  /\ tmp \in Response
  /\ pc \in {"idle", "got", "archive", "archiveparsed", "unlink", "move",
             "utime", "etag", "removedir", "removeparsed"}
  /\ etag \in Content \cup {None}
  /\ archive \in Seq([down : Content \cup Partial,
                      parsed : Content \cup Partial \cup {None}])
  /\ verdict \in {"none", "unchanged", "updated"}
  /\ crashes \in 0..MaxCrashes
  /\ seen \in Content \cup {None}
  /\ kept \subseteq Content
  /\ botched \in BOOLEAN

(* With download_archive no content that was ever put in place is lost,    *)
(* wherever a download is cut short or fails to put the new one in place:  *)
(* it is the current file or archived.                                     *)
NothingLost ==
  Archive =>
    kept \subseteq {down.content} \cup {archive[v].down : v \in DOMAIN archive}

(* After a download, whatever it answered, the file on disk is what the    *)
(* server had when it was asked, unless a move of the file or a remove was *)
(* not completed since the last whole download: crashes anywhere else, and *)
(* contents that come back, are noticed.                                   *)
CheckedIsCurrent == verdict # "none" /\ ~botched => down.content = seen

(* If no download was cut short, a document whose parsed file was made     *)
(* from other content than the downloaded file has is parsed again by the  *)
(* next parse --all.                                                       *)
ParseNotMasked ==
  crashes = 0 /\ pc = "idle" /\ down # Absent /\ parsed.content # down.content
    => ParseNeeded

(* If no download was cut short, a version's archived parsed file was made *)
(* from that version's downloaded file.                                    *)
ArchiveConsistent ==
  crashes = 0 =>
    \A v \in DOMAIN archive : archive[v].parsed \in {None, archive[v].down}

(* An archived version is never overwritten or renumbered by a later one.  *)
ArchiveOnlyGrows ==
  [][\A v \in DOMAIN archive :
       /\ v \in DOMAIN archive'
       /\ archive'[v].down = archive[v].down
       /\ v < Len(archive) => archive'[v] = archive[v]]_vars
=============================================================================
