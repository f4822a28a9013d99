-------------------------- MODULE Download_proofs ---------------------------
(***************************************************************************)
(* Proofs about what is downloaded.  First the download of one document,   *)
(* for all contents, whatever the server sends, and any number of crashes; *)
(* then the harvest of the code of statutes, for any acts and amendments   *)
(* published at any time, any attempts, any years and any crashes.         *)
(***************************************************************************)
EXTENDS Download, Harvest, FiniteSetTheorems, WellFoundedInduction, TLAPS

(* A download is under way.                                                *)
InDownload == pc \notin {"idle", "removedir", "removeparsed"}

(* A version that is archived.                                             *)
Version ==
  [down : Content \cup Partial, parsed : Content \cup Partial \cup {None}]

(* With the types: a file that is there has a content, and so has the      *)
(* server's document, the response that is dealt with, and a file that is  *)
(* about to be archived.                                                   *)
Files ==
  /\ TypeOK
  /\ remote.content \in Content
  /\ InDownload => tmp.content \in Content
  /\ down = Absent \/ down.content \in Content \cup Partial
  /\ parsed = Absent \/ parsed.content \in Content \cup Partial
  /\ pc = "archive" => down # Absent
  /\ pc = "archiveparsed" => archive # <<>>

(* Before the first download there are no files. *)
LEMMA FilesInit == Init => Files
  <1>. SUFFICES ASSUME Init PROVE Files
    OBVIOUS
  <1>. USE ContentAssumption, BoundAssumption DEF Init
  <1>1. remote.content \in Content /\ {remote, down, parsed} \subseteq File
    BY DEF File, Absent
  <1>2. tmp \in Response
    BY DEF Response
  <1>3. archive \in Seq([down : Content \cup Partial,
                         parsed : Content \cup Partial \cup {None}])
    OBVIOUS
  <1>4. clock \in Nat /\ crashes \in 0..MaxCrashes
    OBVIOUS
  <1>5. etag = None /\ seen = None /\ kept = {} /\ botched = FALSE
    BY Zenon
  <1>6. pc = "idle" /\ verdict = "none"
    OBVIOUS
  <1>. HIDE DEF Init
  <1>7. TypeOK
    BY <1>1, <1>2, <1>3, <1>4, <1>5, <1>6 DEF TypeOK
  <1>. QED  BY <1>1, <1>6, <1>7 DEF Init, Files, InDownload

(* A sequence has its elements in its set. *)
LEMMA ElementType ==
  ASSUME NEW S, NEW s \in Seq(S), s # <<>>
  PROVE  s[Len(s)] \in S
  OBVIOUS

(* The steps of a download keep the files in order. *)
LEMMA FilesStep == Files /\ [Next]_vars => Files'
  <1>. SUFFICES ASSUME Files, [Next]_vars PROVE Files'
    OBVIOUS
  <1>. USE ContentAssumption, BoundAssumption
       DEF Files, TypeOK, File, Response, Absent, store, Version, InDownload
  <1>1. ASSUME NEW c \in Content, RemoteChange(c) PROVE Files'
    BY <1>1 DEF RemoteChange
  <1>2. ASSUME NEW status \in {200, 304}, Respond(status) PROVE Files'
    BY <1>2 DEF Respond
  <1>3. CASE SameContent  BY <1>3 DEF SameContent
  <1>4. CASE NewContent  BY <1>4 DEF NewContent, Archives
  <1>5. CASE ArchiveDownloaded
    <2>. DEFINE v == [down |-> down.content, parsed |-> None]
    <2>1. v \in Version
      BY <1>5 DEF ArchiveDownloaded
    <2>2. archive' = Append(archive, v)
      BY <1>5 DEF ArchiveDownloaded, VersionAdded
    <2>. HIDE DEF v
    <2>3. /\ archive' \in Seq(Version)
          /\ archive' # <<>>
      BY <2>1, <2>2
    <2>. QED  BY <1>5, <2>3 DEF ArchiveDownloaded
  <1>6. CASE ArchiveParsed
    <2>. DEFINE n == Len(archive)
                v == [archive[n] EXCEPT !.parsed = parsed.content]
    <2>1. n \in 1..Len(archive)
      BY <1>6 DEF ArchiveParsed
    <2>2. v \in Version
      <3>1. archive[n] \in Version
        BY <1>6, ElementType DEF ArchiveParsed
      <3>2. parsed.content \in Content \cup Partial \cup {None}
        OBVIOUS
      <3>. QED  BY <3>1, <3>2
    <2>3. archive' = [archive EXCEPT ![n] = v]
      <3>. HIDE DEF Files, TypeOK, File, Absent
      <3>. QED  BY <1>6, Zenon DEF ArchiveParsed
    <2>. HIDE DEF v, n
    <2>4. archive' \in Seq(Version)
      BY <2>1, <2>2, <2>3
    <2>. QED  BY <1>6, <2>4 DEF ArchiveParsed, ParsedAfterArchive
  <1>7. CASE Unlink  BY <1>7 DEF Unlink
  <1>8. CASE Move  BY <1>8 DEF Move
  <1>9. CASE SetTime
    <2>1. CASE SendsDate /\ down # Absent
      <3>1. down' = [content |-> down.content, mtime |-> tmp.modified]
        BY <1>9, <2>1 DEF SetTime
      <3>2. down' = Absent \/ down'.content \in Content \cup Partial
        BY <1>9, <2>1, <3>1 DEF SetTime
      <3>. QED  BY <1>9, <3>1, <3>2 DEF SetTime
    <2>2. CASE ~(SendsDate /\ down # Absent)
      BY <1>9, <2>2 DEF SetTime
    <2>. QED  BY <2>1, <2>2
  <1>10. CASE WriteEtag  BY <1>10 DEF WriteEtag
  <1>11. CASE Crash
    <2>1. /\ down' = Absent \/ down'.content \in Content \cup Partial
          /\ down' \in File
      BY <1>11 DEF Crash, Uncopied
    <2>. QED  BY <1>11, <2>1 DEF Crash
  <1>12. CASE Parse  BY <1>12 DEF Parse
  <1>13. CASE Remove  BY <1>13 DEF Remove
  <1>14. CASE MoveFails  BY <1>14 DEF MoveFails, Uncopied
  <1>15. CASE RemoveRest
    <2>1. down' \in File /\ etag' \in Content \cup {None}
      BY <1>15 DEF RemoveRest, EtagAfterRemove
    <2>. QED  BY <1>15, <2>1 DEF RemoveRest
  <1>16. CASE RemoveParsed  BY <1>16 DEF RemoveParsed
  <1>17. CASE UNCHANGED vars  BY <1>17 DEF vars
  <1>. HIDE DEF Files, TypeOK
  <1>. QED  BY <1>1, <1>2, <1>3, <1>4, <1>5, <1>6, <1>7, <1>8, <1>9, <1>10,
               <1>11, <1>12, <1>13, <1>14, <1>15, <1>16, <1>17 DEF Next

(* The files are always in order. *)
LEMMA FilesAlways == Spec => []Files
  BY FilesInit, FilesStep, PTL DEF Spec

(* The types are kept. *)
THEOREM TypeCorrect == Spec => []TypeOK
  <1>1. Files => TypeOK  BY DEF Files
  <1>. QED  BY <1>1, FilesAlways, PTL

-----------------------------------------------------------------------------
(* The steps that leave the files and what is kept of them alone.          *)
Elsewhere ==
  \/ \E c \in Content : RemoteChange(c)
  \/ \E status \in {200, 304} : Respond(status)
  \/ SameContent

(* They do leave them alone. *)
LEMMA ElsewhereStore ==
  Elsewhere => UNCHANGED <<store, kept>>
  BY DEF Elsewhere, RemoteChange, Respond, SameContent, store

(* What has been archived, as downloaded files. *)
Archived == {archive[v].down : v \in DOMAIN archive}

(* Archiving adds the downloaded file, and its parsed file afterwards      *)
(* changes nothing of what was archived.                                   *)
LEMMA ArchivedGrows ==
  ASSUME Files
  PROVE  /\ ArchiveDownloaded => Archived' = Archived \cup {down.content}
         /\ ArchiveParsed => Archived' = Archived
  <1>1. ASSUME ArchiveDownloaded
        PROVE  Archived' = Archived \cup {down.content}
    <2>. DEFINE v == [down |-> down.content, parsed |-> None]
                n == Len(archive)
    <2>1. archive' = Append(archive, v) /\ v.down = down.content
      BY <1>1 DEF ArchiveDownloaded, VersionAdded
    <2>2. archive \in Seq(Version)
      BY DEF Files, TypeOK, Version
    <2>. HIDE DEF v
    <2>3. /\ n \in Nat /\ DOMAIN archive = 1..n /\ DOMAIN archive' = 1..(n + 1)
          /\ \A k \in 1..n : archive'[k] = archive[k]
          /\ archive'[n + 1] = v
      BY <2>1, <2>2
    <2>. QED  BY <2>1, <2>3 DEF Archived
  <1>2. ASSUME ArchiveParsed
        PROVE  Archived' = Archived
    <2>1. archive' = [archive EXCEPT ![Len(archive)].parsed = parsed.content]
      BY <1>2 DEF ArchiveParsed
    <2>2. archive \in Seq(Version)
      BY DEF Files, TypeOK, Version
    <2>3. /\ DOMAIN archive' = DOMAIN archive
          /\ \A k \in DOMAIN archive : archive'[k].down = archive[k].down
      BY <2>1, <2>2
    <2>. QED  BY <2>3 DEF Archived
  <1>. QED  BY <1>1, <1>2

(* What is kept is in place or archived, and a file is archived before it  *)
(* is in the way of a new one.                                             *)
Safe ==
  /\ kept \subseteq {down.content} \cup Archived
  /\ pc \in {"archiveparsed", "unlink"} =>
       down = Absent \/ down.content \in Archived
  /\ pc = "move" => down = Absent

(* Every step keeps that. *)
LEMMA SafeStep ==
  ASSUME Archive, Files, Safe, [Next]_vars
  PROVE  Safe'
  <1>. USE DEF Safe
  <1>1. CASE Elsewhere
    <2>1. UNCHANGED <<down, Archived, kept>>
      BY <1>1, ElsewhereStore DEF store, Archived
    <2>2. pc' \in {"archiveparsed", "unlink", "move"} => pc' = pc
      BY <1>1 DEF Elsewhere, RemoteChange, Respond, SameContent
    <2>. QED  BY <2>1, <2>2
  <1>2. CASE NewContent
    <2>1. UNCHANGED <<down, Archived, kept>>
      BY <1>2 DEF NewContent, store, Archived
    <2>2. pc' = "archive" \/ (pc' = "unlink" /\ down = Absent)
      BY <1>2 DEF NewContent, Archives
    <2>. QED  BY <2>1, <2>2
  <1>3. CASE ArchiveDownloaded
    <2>1. Archived' = Archived \cup {down.content}
      BY <1>3, ArchivedGrows
    <2>2. down' \in {down, Absent} /\ pc' = "archiveparsed" /\ kept' = kept
      BY <1>3 DEF ArchiveDownloaded
    <2>. QED  BY <2>1, <2>2
  <1>4. CASE ArchiveParsed
    BY <1>4, ArchivedGrows DEF ArchiveParsed
  <1>5. CASE Unlink
    <2>1. Archived' = Archived
      BY <1>5 DEF Unlink, Archived
    <2>2. None \notin kept
      BY ContentAssumption DEF Files, TypeOK
    <2>. QED  BY <1>5, <2>1, <2>2 DEF Unlink, Absent
  <1>6. CASE Move
    <2>1. Archived' = Archived
      BY <1>6 DEF Move, Archived
    <2>2. None \notin kept
      BY ContentAssumption DEF Files, TypeOK
    <2>. QED  BY <1>6, <2>1, <2>2 DEF Move, Absent
  <1>7. CASE SetTime
    <2>1. Archived' = Archived
      BY <1>7 DEF SetTime, Archived
    <2>2. down'.content = down.content
      BY <1>7 DEF SetTime, Files, TypeOK, File
    <2>. QED  BY <1>7, <2>1, <2>2 DEF SetTime
  <1>8. CASE WriteEtag
    BY <1>8 DEF WriteEtag, Archived
  <1>9. CASE Parse
    BY <1>9 DEF Parse, Archived
  <1>10. CASE Remove
    BY <1>10 DEF Remove, Archived
  <1>11. CASE MoveFails \/ Crash
    <2>1. Archived' = Archived /\ kept' = kept
      BY <1>11 DEF MoveFails, Crash, Archived
    <2>2. down' = down \/ (pc = "move" /\ down = Absent)
      BY <1>11 DEF MoveFails, Crash
    <2>3. pc' \in {"utime", "idle"} /\ None \notin kept
      BY <1>11, ContentAssumption DEF MoveFails, Crash, Files, TypeOK
    <2>. QED  BY <2>1, <2>2, <2>3 DEF Absent
  <1>12. CASE RemoveRest
    BY <1>12 DEF RemoveRest, Archived
  <1>13. CASE RemoveParsed
    BY <1>13 DEF RemoveParsed, Archived
  <1>14. CASE UNCHANGED vars
    BY <1>14 DEF vars, Archived
  <1>. QED  BY <1>1, <1>2, <1>3, <1>4, <1>5, <1>6, <1>7, <1>8, <1>9, <1>10,
               <1>11, <1>12, <1>13, <1>14 DEF Next, Elsewhere

(* With download_archive, no content that was put in place is lost.  It    *)
(* takes Safe: a crash between archiving and moving, or a move that fails, *)
(* finds the content in the archive already.                               *)
THEOREM NothingIsLost == Spec => []NothingLost
  <1>. DEFINE Inv == Archive => Safe
  <1>1. Init => Inv
    BY DEF Init, Safe, Absent
  <1>2. Files /\ Inv /\ [Next]_vars => Inv'
    BY SafeStep
  <1>3. Inv => NothingLost
    BY DEF Safe, NothingLost, Archived
  <1>. HIDE DEF Inv
  <1>. QED  BY <1>1, <1>2, <1>3, FilesAlways, PTL DEF Spec

(* Archived versions stay as they are, but for the parsed file of the last *)
(* one, which follows its downloaded file.                                 *)
THEOREM ArchivedVersionsStay == Spec => ArchiveOnlyGrows
  <1>. DEFINE Grows == \A v \in DOMAIN archive :
                         /\ v \in DOMAIN archive'
                         /\ archive'[v].down = archive[v].down
                         /\ v < Len(archive) => archive'[v] = archive[v]
  <1>1. Files /\ [Next]_vars => Grows
    <2>. SUFFICES ASSUME Files, [Next]_vars PROVE Grows
      OBVIOUS
    <2>1. archive \in Seq(Version)
      BY DEF Files, TypeOK, Version
    <2>2. CASE ArchiveDownloaded
      <3>. DEFINE v == [down |-> down.content, parsed |-> None]
      <3>1. archive' = Append(archive, v)
        BY <2>2 DEF ArchiveDownloaded, VersionAdded
      <3>. HIDE DEF v
      <3>. QED  BY <2>1, <3>1
    <2>3. CASE ArchiveParsed
      <3>1. archive' = [archive EXCEPT ![Len(archive)].parsed = parsed.content]
        BY <2>3 DEF ArchiveParsed
      <3>. QED  BY <2>1, <3>1
    <2>4. CASE UNCHANGED archive
      BY <2>4
    <2>5. Next => ArchiveDownloaded \/ ArchiveParsed \/ UNCHANGED archive
      BY DEF Next, RemoteChange, Respond, SameContent, NewContent, Unlink,
         Move, MoveFails, SetTime, WriteEtag, Crash, Parse, Remove,
         RemoveRest, RemoveParsed, store
    <2>6. UNCHANGED vars => UNCHANGED archive
      BY DEF vars
    <2>. QED  BY <2>2, <2>3, <2>4, <2>5, <2>6
  <1>2. Files /\ [Next]_vars => [Grows]_vars
    BY <1>1
  <1>. QED  BY <1>2, FilesAlways, PTL DEF Spec, ArchiveOnlyGrows

-----------------------------------------------------------------------------
(* What the files say of the server's document, when the .etag file goes   *)
(* with the downloaded file and the last move and remove were completed:   *)
(* the etag is that of the file; a file that is not older than the         *)
(* server's document has its content.  And the same for the response that  *)
(* is being put in place.                                                  *)
Truthful ==
  /\ remote.mtime <= clock
  /\ down.mtime <= clock
  /\ InDownload =>
       /\ verdict = "none"
       /\ tmp.content = seen
       /\ tmp.modified <= tmp.written /\ tmp.written <= clock
       /\ remote.mtime <= tmp.written => remote.content = tmp.content
  /\ pc \in {"removedir", "removeparsed"} => verdict = "none"
  /\ pc = "removeparsed" => down = Absent /\ etag = None
  /\ ~SendsEtag => etag = None
  /\ /\ pc \in {"utime", "etag"} /\ down.content = tmp.content
     /\ remote.mtime <= down.mtime
     => remote.content = down.content
  /\ ~botched =>
       /\ etag # None /\ pc # "removedir" => etag = down.content
       /\ pc \in {"archiveparsed", "unlink", "move", "utime", "etag"} =>
            etag = None
       /\ pc \in {"utime", "etag"} => down.content = tmp.content
       /\ down # Absent /\ remote.mtime <= down.mtime =>
            remote.content = down.content
       /\ verdict # "none" => down.content = seen

(* Every step keeps the files truthful. *)
LEMMA TruthfulStep ==
  ASSUME Dir, Archive, Files, Truthful, [Next]_vars
  PROVE  Truthful'
  <1>. USE ContentAssumption, PolicyAssumption
       DEF Truthful, Files, TypeOK, File, Response, Absent, InDownload
  <1>1. ASSUME NEW c \in Content, RemoteChange(c) PROVE Truthful'
    BY <1>1 DEF RemoteChange, store
  <1>2. ASSUME NEW status \in {200, 304}, Respond(status) PROVE Truthful'
    <2>1. CASE status = 304
      BY <1>2, <2>1 DEF Respond, NotModified, store
    <2>2. CASE status = 200
      BY <1>2, <2>2 DEF Respond, store
    <2>. QED  BY <1>2, <2>1, <2>2
  <1>3. CASE SameContent  BY <1>3 DEF SameContent, store
  <1>4. CASE NewContent
    <2>1. pc' = "archive" \/ (pc' = "unlink" /\ down = Absent)
      BY <1>4 DEF NewContent, Archives
    <2>. QED  BY <1>4, <2>1 DEF NewContent, store
  <1>5. CASE ArchiveDownloaded  BY <1>5 DEF ArchiveDownloaded
  <1>6. CASE ArchiveParsed  BY <1>6 DEF ArchiveParsed
  <1>7. CASE Unlink  BY <1>7 DEF Unlink
  <1>8. CASE Move  BY <1>8 DEF Move
  <1>9. CASE SetTime
    <2>1. CASE SendsDate /\ down # Absent
      <3>1. down' = [content |-> down.content, mtime |-> tmp.modified]
        BY <1>9, <2>1 DEF SetTime
      <3>. QED  BY <1>9, <3>1 DEF SetTime
    <2>2. CASE ~(SendsDate /\ down # Absent)
      BY <1>9, <2>2 DEF SetTime
    <2>. QED  BY <2>1, <2>2
  <1>10. CASE WriteEtag
    <2>1. CASE botched'
      BY <1>10, <2>1 DEF WriteEtag
    <2>2. CASE ~botched'
      <3>1. down' = down /\ down.content = tmp.content /\ etag' \in {etag, tmp.content}
        BY <1>10, <2>2 DEF WriteEtag
      <3>. QED  BY <1>10, <2>2, <3>1 DEF WriteEtag
    <2>. QED  BY <2>1, <2>2
  <1>11. CASE Crash
    <2>1. CASE botched'
      BY <1>11, <2>1 DEF Crash, Uncopied
    <2>2. CASE ~botched'
      BY <1>11, <2>2 DEF Crash
    <2>. QED  BY <2>1, <2>2
  <1>12. CASE Parse  BY <1>12 DEF Parse
  <1>13. CASE Remove  BY <1>13 DEF Remove
  <1>14. CASE MoveFails  BY <1>14 DEF MoveFails, Uncopied
  <1>15. CASE RemoveRest  BY <1>15 DEF RemoveRest, EtagAfterRemove
  <1>16. CASE RemoveParsed  BY <1>16 DEF RemoveParsed
  <1>17. CASE UNCHANGED vars  BY <1>17 DEF vars
  <1>. HIDE DEF Truthful, Files, TypeOK
  <1>. QED  BY <1>1, <1>2, <1>3, <1>4, <1>5, <1>6, <1>7, <1>8, <1>9, <1>10,
               <1>11, <1>12, <1>13, <1>14, <1>15, <1>16, <1>17 DEF Next

(* With storage policy "dir" and download_archive, a download that answers *)
(* leaves the content the server had, after any crashes, unless a move or  *)
(* a remove was not completed.  Truthful is what makes an answer "not      *)
(* modified" right.                                                        *)
THEOREM CheckedFilesAreCurrent ==
  Spec => [](Dir /\ Archive => CheckedIsCurrent)
  <1>. DEFINE Inv == Dir /\ Archive => Truthful
              Goal == Dir /\ Archive => CheckedIsCurrent
  <1>1. Init => Inv
    BY DEF Init, Truthful, Absent, InDownload
  <1>2. Files /\ Inv /\ [Next]_vars => Inv'
    BY TruthfulStep
  <1>3. Inv => Goal
    BY DEF Truthful, CheckedIsCurrent
  <1>4. Spec => []Goal
    <2>. HIDE DEF Inv, Goal
    <2>. QED  BY <1>1, <1>2, <1>3, FilesAlways, PTL DEF Spec
  <1>. QED  BY <1>4

-----------------------------------------------------------------------------
(* While nothing has crashed, a parsed file is there only for the          *)
(* downloaded file it was made from, and it is archived with that file.    *)
Matching ==
  /\ pc \in {"idle", "got", "archive"} =>
       parsed.content \in {None, down.content}
  /\ pc = "archiveparsed" =>
       parsed.content \in {None, archive[Len(archive)].down}
  /\ pc \in {"unlink", "move", "utime", "etag"} => parsed.content = None
  /\ \A v \in DOMAIN archive : archive[v].parsed \in {None, archive[v].down}

(* Every step but a crash keeps the files matching. *)
LEMMA MatchingStep ==
  ASSUME Archive, ~Copy, Files, crashes = 0, Matching, [Next]_vars, crashes' = 0
  PROVE  Matching'
  <1>. USE DEF Matching
  <1>1. CASE Elsewhere
    <2>1. UNCHANGED store
      BY <1>1, ElsewhereStore
    <2>2. \/ pc' = pc
          \/ pc \in {"idle", "got"} /\ pc' \in {"idle", "got"}
      BY <1>1 DEF Elsewhere, RemoteChange, Respond, SameContent
    <2>. QED  BY <2>1, <2>2 DEF store
  <1>2. CASE NewContent
    <2>1. \/ pc' = "archive"
          \/ pc' = "unlink" /\ down = Absent
      BY <1>2 DEF NewContent, Archives
    <2>. QED  BY <1>2, <2>1 DEF NewContent, store, Absent
  <1>3. CASE ArchiveDownloaded
    <2>. DEFINE v == [down |-> down.content, parsed |-> None]
                n == Len(archive)
    <2>1. archive' = Append(archive, v)
      BY <1>3 DEF ArchiveDownloaded, VersionAdded
    <2>2. archive \in Seq(Version)
      BY DEF Files, TypeOK, Version
    <2>3. v.down = down.content /\ v.parsed = None
      OBVIOUS
    <2>. HIDE DEF v
    <2>4. /\ n \in Nat /\ Len(archive') = n + 1
          /\ DOMAIN archive = 1..n /\ DOMAIN archive' = 1..(n + 1)
          /\ \A k \in 1..n : archive'[k] = archive[k]
          /\ archive'[n + 1] = v
      BY <2>1, <2>2
    <2>5. \A k \in DOMAIN archive' :
            archive'[k].parsed \in {None, archive'[k].down}
      BY <2>3, <2>4
    <2>6. pc' = "archiveparsed" /\ parsed' = parsed /\ pc = "archive"
      BY <1>3 DEF ArchiveDownloaded
    <2>. QED  BY <2>3, <2>4, <2>5, <2>6
  <1>4. CASE ArchiveParsed
    <2>1. archive' = [archive EXCEPT ![Len(archive)].parsed = parsed.content]
      BY <1>4 DEF ArchiveParsed
    <2>2. archive \in Seq(Version)
      BY DEF Files, TypeOK, Version
    <2>3. parsed.content \in {None, archive[Len(archive)].down}
      BY <1>4 DEF ArchiveParsed
    <2>4. \A k \in DOMAIN archive' :
            archive'[k].parsed \in {None, archive'[k].down}
      BY <2>1, <2>2, <2>3
    <2>5. parsed' = Absent /\ pc' = "unlink"
      BY <1>4 DEF ArchiveParsed, ParsedAfterArchive
    <2>. QED  BY <2>4, <2>5 DEF Absent
  <1>5. CASE Unlink
    BY <1>5 DEF Unlink
  <1>6. CASE Move
    BY <1>6 DEF Move
  <1>7. CASE SetTime
    BY <1>7 DEF SetTime
  <1>8. CASE WriteEtag
    BY <1>8 DEF WriteEtag
  <1>9. CASE Parse
    BY <1>9 DEF Parse
  <1>10. CASE Remove \/ RemoveRest
    BY <1>10 DEF Remove, RemoveRest
  <1>11. CASE RemoveParsed
    BY <1>11 DEF RemoveParsed, Absent
  <1>12. CASE MoveFails
    BY <1>12 DEF MoveFails
  <1>13. CASE Crash
    BY <1>13 DEF Crash, Files, TypeOK
  <1>14. CASE UNCHANGED vars
    BY <1>14 DEF vars
  <1>. QED  BY <1>1, <1>2, <1>3, <1>4, <1>5, <1>6, <1>7, <1>8, <1>9, <1>10,
               <1>11, <1>12, <1>13, <1>14 DEF Next, Elsewhere

(* A crash stays in the count of crashes. *)
LEMMA CrashesCount ==
  Files /\ [Next]_vars /\ crashes' = 0 => crashes = 0
  BY DEF Files, TypeOK, Next, vars, RemoteChange, Respond, SameContent,
         NewContent, ArchiveDownloaded, ArchiveParsed, Unlink, Move, MoveFails,
         SetTime, WriteEtag, Crash, Parse, Remove, RemoveRest, RemoveParsed

(* When the archive takes the parsed file with the downloaded one and no   *)
(* download was cut short, a document whose parsed file is not of its      *)
(* downloaded file is parsed again, whatever file times the server gives,  *)
(* and archived files belong together.  Not by comparing times: the parsed *)
(* file of other content is not there any more (Matching).                 *)
THEOREM ParsedFilesMatch ==
  Spec => [](Archive /\ ~Copy => ParseNotMasked /\ ArchiveConsistent)
  <1>. DEFINE Inv == Archive /\ ~Copy /\ crashes = 0 => Matching
              Goal == Archive /\ ~Copy => ParseNotMasked /\ ArchiveConsistent
  <1>1. Init => Inv
    BY DEF Init, Matching, Absent
  <1>2. Files /\ Inv /\ [Next]_vars => Inv'
    BY MatchingStep, CrashesCount
  <1>3. Files /\ Inv => Goal
    BY ContentAssumption
       DEF Files, Matching, ParseNotMasked, ParseNeeded, ArchiveConsistent
  <1>4. Spec => []Goal
    <2>. HIDE DEF Inv, Goal
    <2>. QED  BY <1>1, <1>2, <1>3, FilesAlways, PTL DEF Spec
  <1>. QED  BY <1>4

-----------------------------------------------------------------------------
(* The harvest.                                                            *)

(* A single base act is made or amended by the number, which is there.     *)
Found(n, there) == n \in there /\ Cardinality(BasesOf[n]) = 1

(* The number is worked into the text of its base act.                     *)
WorkedIn(n, texts) == ~ Less(texts[TheBase(n)], n)

(* The service only adds, and what is downloaded was there.                *)
Texts ==
  /\ \A n \in published : BasesOf[n] \subseteq published
  /\ \A b \in Base : /\ text[b] = NoText \/ ~ Less(text[b], b)
                     /\ text[b] = NoText <=> b \notin published
                     /\ have[b] = NoText \/ ~ Less(have[b], b)
                     /\ ~ Less(text[b], have[b])

(* A run of download_new is under way.                                     *)
InRun == place \in {"look", "change", "fetch", "save"}

(* The search for changes is made for what is no base act; a run fetches   *)
(* the base act of the number if the search was right, or tries whether it *)
(* is one; and what was fetched is there.                                  *)
Fetching ==
  /\ place = "change" => Wanted \notin Base \cap before
  /\ place = "fetch" =>
       /\ \/ Wanted \in misled
          \/ Found(Wanted, published) /\ base = TheBase(Wanted)
          \/ base = Wanted /\ part = 1 /\ new
       /\ part > 1 \/ ~ new => base \in Base /\ have[base] # NoText
  /\ place = "save" => todo = <<>>
  /\ place \in {"idle", "listed"} => revisit = <<>>

(* What a run started with, and how far it is.                             *)
Progress ==
  InRun => /\ before \subseteq published
           /\ Elements(todo) \subseteq Elements(config.revisit)
           /\ config.next # Unset
           /\ ~ Less(last, config.next) /\ ~ Less(want, last)

(* The numbers of its year that a run from some number on comes to before  *)
(* n.                                                                      *)
Ahead(n, from) ==
  {m \in {n[1]} \X (Nat \ {0}) : Less(m, n) /\ ~ Less(m, from)}

(* Of two of them that the search is right about at least one is found.    *)
OneMissing(n, from, there, wrong) ==
  \A k, m \in Ahead(n, from) \ wrong :
    k = m \/ Found(k, there) \/ Found(m, there)

(* The search is right about all numbers of the year before this one.      *)
Sound(n, wrong) == \A k \in wrong : ~ (k[1] = n[1] /\ Less(k, n))

(* A run gets past one missing number in a year.                           *)
Gaps ==
  InRun =>
    /\ OneMissing(want, config.next, published, misled)
    /\ OneMissing(last, config.next, published, misled)
    /\ peek /\ Sound(want, misled) =>
         \E m \in Ahead(want, config.next) : ~ Found(m, before)
    /\ ~ peek =>
         \A m \in Ahead(want, config.next) \ misled : Found(m, published)

(* What is owed or on a list was found by the search for changes.          *)
Listed ==
  Elements(todo) \cup Elements(revisit) \cup Elements(config.revisit) \cup owed

FoundOnce == \A n \in Listed \ misled : Found(n, published) /\ n \notin Base

(* Whoever found it can get there again: it has been passed, or there is   *)
(* one number missing before it at most.                                   *)
Reached(n, from, there, wrong) ==
  Less(n, from) \/ OneMissing(n, from, there, wrong)

(* That is so of what is owed and of what is listed, for the run under way *)
(* by what was there when it began.                                        *)
Reachable ==
  ~ torn =>
    /\ \A n \in owed \cup Elements(revisit) :
         Reached(n, config.next, published, misled)
    /\ place # "saved" => \A n \in Elements(config.revisit) :
                            Reached(n, config.next, published, misled)
    /\ InRun =>
         /\ \A n \in Elements(config.revisit) :
              Reached(n, config.next, before, misled)
         /\ \A n \in owed : \/ Less(n, want)
                            \/ Reached(n, config.next, before, misled)

(* A run comes to what is owed, or has put it on its list.                 *)
Remembers ==
  ~ torn =>
    /\ InRun =>
         \A n \in owed : \/ Misled(n)
                         \/ WorkedIn(n, have) \/ n \in Elements(revisit)
                         \/ n \in Elements(todo) \/ ~ Less(n, want)
    /\ place = "saved" =>
         \A n \in owed : \/ Misled(n)
                         \/ WorkedIn(n, have) \/ n \in Elements(revisit)
                         \/ ~ Less(n, config.next)

(* What was there when the run began and is behind it is dealt with.       *)
Dealt(k, list, texts) ==
  Cardinality(BasesOf[k]) = 1 => k \in Elements(list) \/ WorkedIn(k, texts)

(* So are those ahead of the number the run has come to, and those up to   *)
(* the last it will save.                                                  *)
DealtWith ==
  InRun =>
    \A k \in before \ misled :
      /\ k \in Ahead(want, config.next) => Dealt(k, revisit, have)
      /\ k[1] = last[1] /\ Less(config.next, k) /\ ~ Less(last, k)
           => Dealt(k, revisit, have)

(* The inductive invariant.                                                *)
HInv ==
  /\ HarvestTypeOK /\ Texts /\ Fetching /\ Progress /\ Gaps /\ FoundOnce
  /\ Reachable /\ Remembers /\ AmendmentsRemembered /\ DealtWith

-----------------------------------------------------------------------------
(* The order of numbers.                                                   *)

Pair == Int \X Int

(* It is total, and a number's successor is the next one.                  *)
LEMMA Order ==
  ASSUME NEW a \in Pair, NEW b \in Pair, NEW c \in Pair
  PROVE  /\ ~ Less(a, a)
         /\ Less(a, b) => ~ Less(b, a)
         /\ Less(a, b) \/ Less(b, a) \/ a = b
         /\ ~ Less(b, a) /\ ~ Less(c, b) => ~ Less(c, a)
         /\ ~ Less(b, a) /\ Less(b, c) => Less(a, c)
         /\ Less(a, b) /\ ~ Less(c, b) => Less(a, c)
         /\ Succ(b) \in Pair /\ Less(b, Succ(b))
         /\ Less(a, Succ(b)) <=> ~ Less(b, a)
BY DEF Pair, Less, Succ

(* What is a number.                                                       *)
LEMMA Numbers ==
  /\ Acts \subseteq Number /\ Number \subseteq Pair
  /\ {NoText, Origin, Unset} \subseteq Pair /\ Origin \in Number
  /\ Unset \notin Number /\ NoText \notin Number
  /\ Base \subseteq Acts
  /\ \A n \in Acts : /\ BasesOf[n] \subseteq Base
                     /\ TheBase(n) \in BasesOf[n] /\ TheBase(n) \in Base
                     /\ Less(NoText, n)
<1>1. Acts \subseteq Number /\ Number \subseteq Pair
  BY HarvestAssumption DEF Pair, Number
<1>2. {NoText, Origin, Unset} \subseteq Pair /\ Origin \in Number
  BY DEF Pair, NoText, Origin, Unset, Number
<1>3. Unset \notin Number /\ NoText \notin Number
  BY DEF Unset, NoText, Number
<1>4. \A n \in Acts : BasesOf[n] \in SUBSET Acts /\ BasesOf[n] # {}
  BY HarvestAssumption
<1>5. Base \subseteq Acts /\ \A n \in Acts : BasesOf[n] \subseteq Base
  BY <1>4 DEF Base
<1>6. \A n \in Acts : TheBase(n) \in BasesOf[n]
  BY <1>4 DEF TheBase
<1>7. \A n \in Acts : Less(NoText, n)
  BY <1>1 DEF Less, NoText, Number
<1> QED BY <1>1, <1>2, <1>3, <1>5, <1>6, <1>7

(* A base act makes itself, and only itself.                               *)
LEMMA BaseMakesItself ==
  ASSUME NEW b \in Base
  PROVE  BasesOf[b] = {b} /\ TheBase(b) = b /\ Cardinality(BasesOf[b]) = 1
<1>1. PICK n \in Acts : b \in BasesOf[n]
  BY DEF Base
<1>2. BasesOf[b] = {b}
  BY <1>1, HarvestAssumption
<1> QED BY <1>2, FS_Singleton DEF TheBase

(* What the types say of the variables that are numbers.                   *)
LEMMA Types ==
  ASSUME HarvestTypeOK
  PROVE  /\ want \in Pair /\ last \in Pair /\ today \in Nat
         /\ published \subseteq Acts /\ owed \subseteq Acts
         /\ before \subseteq Acts /\ misled \subseteq Pair
         /\ config.next \in Pair
         /\ todo \in Seq(Number) /\ revisit \in Seq(Number)
         /\ config.revisit \in Seq(Number)
         /\ \A b \in Base : text[b] \in Pair /\ have[b] \in Pair
<1>1. want \in Pair /\ last \in Pair /\ misled \subseteq Pair
  BY Numbers DEF HarvestTypeOK
<1>2. config.next \in Pair
  BY Numbers DEF HarvestTypeOK
<1>3. \A b \in Base : text[b] \in Pair /\ have[b] \in Pair
  BY Numbers DEF HarvestTypeOK
<1> QED BY <1>1, <1>2, <1>3 DEF HarvestTypeOK

(* Lists.                                                                  *)
LEMMA Lists ==
  ASSUME NEW S, NEW s \in Seq(S)
  PROVE  /\ Elements(s) \subseteq S
         /\ Elements(<<>>) = {}
         /\ \A n \in S : Elements(Append(s, n)) = Elements(s) \cup {n}
         /\ s # <<>> => /\ Head(s) \in Elements(s) /\ Tail(s) \in Seq(S)
                        /\ Elements(s) = {Head(s)} \cup Elements(Tail(s))
<1>1. Elements(s) \subseteq S /\ Elements(<<>>) = {}
  BY DEF Elements
<1>2. ASSUME NEW n \in S
      PROVE  Elements(Append(s, n)) = Elements(s) \cup {n}
  <2> DEFINE t == Append(s, n)
  <2>1. /\ Len(t) = Len(s) + 1 /\ Len(s) \in Nat /\ t[Len(s) + 1] = n
        /\ \A i \in 1..Len(s) : t[i] = s[i]
    OBVIOUS
  <2> HIDE DEF t
  <2>2. \A x : x \in Elements(t) <=> x \in Elements(s) \/ x = n
    BY <2>1 DEF Elements
  <2> QED BY <2>2 DEF t
<1>3. ASSUME s # <<>>
      PROVE  /\ Head(s) \in Elements(s) /\ Tail(s) \in Seq(S)
             /\ Elements(s) = {Head(s)} \cup Elements(Tail(s))
  <2> DEFINE t == Tail(s)
  <2>1. /\ Len(s) \in Nat /\ Len(s) >= 1 /\ Head(s) = s[1] /\ t \in Seq(S)
        /\ Len(t) = Len(s) - 1 /\ \A i \in 1..Len(t) : t[i] = s[i + 1]
    BY <1>3
  <2> HIDE DEF t
  <2>2. ASSUME NEW i \in 1..Len(s), i # 1
        PROVE  s[i] \in Elements(t)
    <3>1. i - 1 \in 1..Len(t) /\ t[i - 1] = s[i]
      BY <2>1, <2>2
    <3> QED BY <3>1 DEF Elements
  <2>3. ASSUME NEW i \in 1..Len(t)
        PROVE  t[i] \in Elements(s)
    <3>1. i + 1 \in 1..Len(s) /\ t[i] = s[i + 1]
      BY <2>1
    <3> QED BY <3>1 DEF Elements
  <2>4. Head(s) \in Elements(s)
    BY <2>1 DEF Elements
  <2>5. \A x \in Elements(s) : x = Head(s) \/ x \in Elements(t)
    BY <2>1, <2>2 DEF Elements
  <2>6. \A x \in Elements(t) : x \in Elements(s)
    BY <2>3 DEF Elements
  <2> QED BY <2>1, <2>4, <2>5, <2>6 DEF t
<1> QED BY <1>1, <1>2, <1>3

(* Among the texts that were downloaded one is the last.                   *)
LEMMA LastIsNumber ==
  ASSUME HarvestTypeOK
  PROVE  LastDownloaded \in Acts \cup {Origin}
<1> DEFINE known == {have[b] : b \in {c \in Base : have[c] # NoText}}
                      \cup {Origin}
           Later(m) == {k \in known : Less(m, k)}
           counts == {Cardinality(Later(m)) : m \in known}
<1>1. known \subseteq Acts \cup {Origin}
  BY Numbers DEF HarvestTypeOK
<1>2. IsFiniteSet(known) /\ known \subseteq Pair
  <2>1. IsFiniteSet(Acts \cup {Origin})
    BY HarvestAssumption, FS_AddElement
  <2> QED BY <1>1, <2>1, FS_Subset, Numbers
<1>3. \A m \in known : IsFiniteSet(Later(m)) /\ Cardinality(Later(m)) \in Nat
  BY <1>2, FS_Subset, FS_CardinalityType
<1>4. counts \subseteq Nat /\ counts # {}
  BY <1>3
<1>5. PICK c \in counts : \A d \in counts : <<d, c>> \notin OpToRel(<, Nat)
  BY <1>4, NatLessThanWellFounded, WFMin
<1>6. PICK n \in known : c = Cardinality(Later(n))
  BY <1>5
<1>7. ASSUME NEW m \in known, Less(n, m) PROVE FALSE
  <2>1. Later(m) \subseteq Later(n) /\ m \in Later(n) /\ m \notin Later(m)
    BY <1>2, <1>6, <1>7, Order
  <2>2. Cardinality(Later(m)) < Cardinality(Later(n))
    <3>1. /\ Later(m) \in SUBSET Later(n) /\ Later(n) # Later(m)
          /\ IsFiniteSet(Later(n))
      BY <1>3, <2>1
    <3>2. Cardinality(Later(m)) \in Nat /\ Cardinality(Later(n)) \in Nat
      BY <1>3
    <3> HIDE DEF Later
    <3>3. /\ Cardinality(Later(m)) <= Cardinality(Later(n))
          /\ Cardinality(Later(n)) # Cardinality(Later(m))
      BY <3>1, FS_Subset
    <3> QED BY <3>2, <3>3
  <2> QED BY <1>3, <1>4, <1>5, <1>6, <2>2 DEF OpToRel
<1>8. \E k \in known : \A m \in known : ~ Less(k, m)
  BY <1>7
<1>9. LastDownloaded \in known
  BY <1>8 DEF LastDownloaded
<1> QED BY <1>1, <1>9

(* A page is tried at least once. *)
LEMMA Tries == Attempts \in 0..Attempts
BY HarvestAssumption

(* The types are kept.                                                     *)
LEMMA HarvestTypeInit == HarvestInit => HarvestTypeOK
<1> SUFFICES ASSUME HarvestInit PROVE HarvestTypeOK
  OBVIOUS
<1>1. text \in [Base -> Acts \cup {NoText}]
  BY Numbers DEF HarvestInit
<1>2. have \in [Base -> Acts \cup {NoText}]
  BY DEF HarvestInit
<1>3. config \in [next : Number \cup {Unset}, revisit : Seq(Number)]
  BY DEF HarvestInit
<1>4. want \in Number /\ last \in Number /\ base \in Number
  BY Numbers DEF HarvestInit
<1>5. todo \in Seq(Number) /\ revisit \in Seq(Number)
  BY DEF HarvestInit
<1>6. /\ today \in Nat /\ published \subseteq Acts /\ place \in Place
      /\ peek \in BOOLEAN /\ part \in 1..3 /\ new \in BOOLEAN
      /\ attempts \in 0..Attempts /\ exception \in BOOLEAN
      /\ response \in {"none", "200", "404", "error"}
      /\ before \subseteq Acts /\ owed \subseteq Acts /\ torn \in BOOLEAN
      /\ misled \subseteq Number
  <2>1. attempts = Attempts /\ part = 1
    BY DEF HarvestInit
  <2>2. attempts \in 0..Attempts /\ part \in 1..3
    BY <2>1, Tries
  <2> QED BY <2>2 DEF HarvestInit, Place
<1> QED BY <1>1, <1>2, <1>3, <1>4, <1>5, <1>6 DEF HarvestTypeOK

(* A fetch that begins, and a run that ends, have the types they should.   *)
LEMMA FreshTypes ==
  /\ StartFetch => /\ part' \in 1..3 /\ attempts' \in 0..Attempts
                   /\ response' \in {"none", "200", "404", "error"}
                   /\ exception' \in BOOLEAN
  /\ NoFetch => new' \in BOOLEAN /\ base' \in Number
  /\ Over => /\ place' \in Place /\ todo' \in Seq(Number)
             /\ revisit' \in Seq(Number) /\ want' \in Number
             /\ last' \in Number /\ peek' \in BOOLEAN
             /\ before' \subseteq Acts
<1>1. Origin \in Number
  BY Numbers
<1>2. ASSUME StartFetch
      PROVE  /\ part' \in 1..3 /\ attempts' \in 0..Attempts
             /\ response' \in {"none", "200", "404", "error"}
             /\ exception' \in BOOLEAN
  <2>1. attempts' = Attempts /\ part' = 1
    BY <1>2 DEF StartFetch
  <2>2. attempts' \in 0..Attempts /\ part' \in 1..3
    BY <2>1, Tries
  <2> QED BY <1>2, <2>2 DEF StartFetch
<1>3. ASSUME Over
      PROVE  /\ place' \in Place /\ todo' \in Seq(Number)
             /\ revisit' \in Seq(Number) /\ want' \in Number
             /\ last' \in Number /\ peek' \in BOOLEAN
             /\ before' \subseteq Acts
  <2>1. todo' = <<>> /\ revisit' = <<>>
    BY <1>3 DEF Over
  <2>2. todo' \in Seq(Number) /\ revisit' \in Seq(Number)
    BY <2>1
  <2>3. want' \in Number /\ last' \in Number
    BY <1>1, <1>3 DEF Over
  <2> QED BY <1>3, <2>2, <2>3 DEF Over, Place
<1>4. NoFetch => new' \in BOOLEAN /\ base' \in Number
  BY <1>1 DEF NoFetch
<1> QED BY <1>2, <1>3, <1>4

(* What is wanted is a number, and so is the next.                         *)
LEMMA WantedIs ==
  ASSUME HarvestTypeOK
  PROVE  /\ Wanted \in Number
         /\ todo # <<>> => Wanted \in Elements(todo)
         /\ todo = <<>> => Wanted = want
         /\ Succ(want) \in Number
<1>1. todo # <<>> => Head(todo) \in Elements(todo) /\ Head(todo) \in Number
  BY Types, Lists
<1>2. want \in Number /\ Succ(want) \in Number
  BY DEF HarvestTypeOK, Succ, Number
<1> QED BY <1>1, <1>2 DEF Wanted

(* The types are kept when a number was examined.                          *)
LEMMA ExaminedTypes ==
  ASSUME HarvestTypeOK, Examined(have),
         UNCHANGED <<service, have, config, before, torn, misled>>
  PROVE  HarvestTypeOK'
<1>1. todo' \in Seq(Number) /\ revisit' \in Seq(Number)
  <2>1. Wanted \in Number /\ todo \in Seq(Number) /\ revisit \in Seq(Number)
    BY WantedIs, Types
  <2>2. todo # <<>> => Tail(todo) \in Seq(Number)
    BY <2>1
  <2>3. Append(revisit, Wanted) \in Seq(Number)
    BY <2>1
  <2> QED BY <2>1, <2>2, <2>3 DEF Examined
<1>2. /\ want' \in Number /\ last' \in Number
      /\ owed' \subseteq Acts /\ peek' \in BOOLEAN
  BY WantedIs DEF Examined, HarvestTypeOK
<1>3. /\ place' \in Place /\ new' \in BOOLEAN /\ part' \in 1..3
      /\ attempts' \in 0..Attempts /\ exception' \in BOOLEAN
      /\ response' \in {"none", "200", "404", "error"} /\ base' \in Number
  <2>1. place' = "look" /\ NoFetch
    BY DEF Examined
  <2> QED BY <2>1, FreshTypes DEF NoFetch, Place
<1> QED BY <1>1, <1>2, <1>3 DEF HarvestTypeOK, service

(* So they are when a run is over.                                         *)
LEMMA OverTypes ==
  ASSUME HarvestTypeOK, Over, torn' \in BOOLEAN,
         config' \in [next : Number \cup {Unset}, revisit : Seq(Number)],
         misled' \subseteq Number, UNCHANGED <<service, have, owed>>
  PROVE  HarvestTypeOK'
<1>1. StartFetch /\ NoFetch
  BY DEF Over, NoFetch
<1> QED BY <1>1, FreshTypes DEF HarvestTypeOK, service

(* So they are when a download begins.                                     *)
LEMMA DownloadTypes ==
  ASSUME HarvestTypeOK, NEW b \in Number, DownloadSingle(b),
         misled' \subseteq Number
  PROVE  HarvestTypeOK'
<1>1. /\ StartFetch /\ base' \in Number /\ new' \in BOOLEAN
      /\ place' \in Place
      /\ UNCHANGED <<service, have, config, run, before, owed, torn>>
  BY DEF DownloadSingle, Place
<1> QED BY <1>1, FreshTypes DEF HarvestTypeOK, service, run

(* What a search was wrong about is a number.                              *)
LEMMA AnswerTypes ==
  ASSUME HarvestTypeOK, NEW found, Answer(found)
  PROVE  misled' \subseteq Number /\ misled \subseteq misled'
BY WantedIs DEF Answer, HarvestTypeOK

(* Every step of the harvest keeps its types.                              *)
LEMMA HarvestTypeStep ==
  ASSUME HarvestTypeOK, Fetching, [HarvestNext]_harvestVars
  PROVE  HarvestTypeOK'
<1> USE DEF service, run, fetch
<1>1. ASSUME NEW ok \in SUBSET {b \in Base : b \in published}, DownloadAll(ok)
      PROVE  HarvestTypeOK'
  <2>1. have' \in [Base -> Acts \cup {NoText}]
    BY <1>1 DEF DownloadAll, HarvestTypeOK
  <2> QED BY <1>1, <2>1 DEF DownloadAll, HarvestTypeOK, Place
<1>2. CASE _set_last_sfsnr
  <2>1. LastDownloaded \in Number
    BY LastIsNumber, Numbers
  <2> QED BY <1>2, <2>1 DEF _set_last_sfsnr, HarvestTypeOK, Place
<1>3. CASE download_new
  <2>1. config.next \in Number
    BY <1>3 DEF download_new, HarvestTypeOK
  <2>2. /\ want' = config.next /\ last' = config.next /\ todo' = config.revisit
        /\ revisit' = <<>> /\ peek' = FALSE /\ before' = published
        /\ place' = "look"
        /\ UNCHANGED <<service, have, config, fetch, owed, torn, misled>>
    BY <1>3 DEF download_new
  <2>3. todo' \in Seq(Number) /\ revisit' \in Seq(Number)
    BY <2>2, Types
  <2> QED BY <2>1, <2>2, <2>3 DEF HarvestTypeOK, Place
<1>4. CASE BaseActFound \/ ChangeActFound
  <2>1. CASE BaseActFound
    <3>1. misled' \subseteq Number
      BY <2>1 DEF BaseActFound, HarvestTypeOK
    <3> QED BY <2>1, <3>1, WantedIs, DownloadTypes DEF BaseActFound
  <2>2. CASE ChangeActFound
    <3>1. PICK b \in Base : Answer({b}) /\ DownloadSingle(b)
      BY <2>2 DEF ChangeActFound
    <3>2. b \in Number
      BY Numbers
    <3> QED BY <3>1, <3>2, AnswerTypes, DownloadTypes
  <2> QED BY <1>4, <2>1, <2>2
<1>5. CASE NoBaseAct
  BY <1>5 DEF NoBaseAct, HarvestTypeOK, Place
<1>6. CASE InteExisterande
  <2>1. <<today, 1>> \in Number /\ Succ(want) \in Number
    <3>1. Succ(want) \in Number
      BY WantedIs
    <3>2. <<today, 1>> \in Number
      BY DEF HarvestTypeOK, Number
    <3> QED BY <3>1, <3>2
  <2>2. misled' \subseteq Number
    BY <1>6, AnswerTypes DEF InteExisterande
  <2>3. /\ want' \in Number /\ peek' \in BOOLEAN
        /\ place' \in Place /\ owed' \subseteq Acts
    BY <1>6, <2>1 DEF InteExisterande, PeekForward, ThisYear, Done,
                      HarvestTypeOK, Place
  <2> QED BY <1>6, <2>2, <2>3 DEF InteExisterande, HarvestTypeOK
<1>7. CASE RevisitedIsMissing
  <2>1. misled' \subseteq Number
    BY <1>7, AnswerTypes DEF RevisitedIsMissing
  <2> QED BY <1>7, <2>1, OverTypes DEF RevisitedIsMissing, HarvestTypeOK
<1>8. CASE ConnectionLost
  <2>1. attempts - 1 \in 0..Attempts
    BY <1>8, HarvestAssumption DEF ConnectionLost, Pending, HarvestTypeOK
  <2> QED BY <1>8, <2>1 DEF ConnectionLost, HarvestTypeOK
<1>9. ASSUME NEW status \in {"200", "404", "error"}, Responds(status)
      PROVE  HarvestTypeOK'
  <2>1. attempts - 1 \in 0..Attempts
    BY <1>9, HarvestAssumption DEF Responds, Pending, HarvestTypeOK
  <2> QED BY <1>9, <2>1 DEF Responds, HarvestTypeOK
<1>10. CASE NotAnAct
  BY <1>10, OverTypes DEF NotAnAct, Abort, HarvestTypeOK
<1>11. CASE Received /\ part < 3
  <2> DEFINE got == IF part = 1 THEN text[base] ELSE have[base]
  <2>1. base \in Base
    BY <1>11 DEF Received, TextOf
  <2>2. got \in Acts \cup {NoText}
    BY <2>1 DEF HarvestTypeOK
  <2>3. /\ have' = [have EXCEPT ![base] = got] /\ new' \in BOOLEAN
        /\ part' = part + 1 /\ attempts' = Attempts /\ response' = "none"
        /\ exception' = FALSE
        /\ UNCHANGED <<base, place, run, owed, service, config, before, torn,
                       misled>>
    BY <1>11 DEF Received, HarvestTypeOK
  <2>4. part' \in 1..3
    BY <1>11, <2>3 DEF HarvestTypeOK
  <2> HIDE DEF got
  <2> QED BY <2>2, <2>3, <2>4, Tries DEF HarvestTypeOK
<1>12. CASE Received /\ ~ (part < 3)
  BY <1>12, ExaminedTypes DEF Received
<1>13. CASE FetchFails
  <2>1. CASE Abort
    BY <2>1, OverTypes DEF Abort, HarvestTypeOK
  <2>2. CASE /\ Examined(have)
             /\ UNCHANGED <<service, have, config, before, torn, misled>>
    BY <2>2, ExaminedTypes
  <2> QED BY <1>13, <2>1, <2>2 DEF FetchFails, FailSingle
<1>14. CASE SaveLast
  BY <1>14 DEF SaveLast, HarvestTypeOK, Place
<1>15. CASE SaveRevisit
  BY <1>15, OverTypes DEF SaveRevisit, HarvestTypeOK
<1>16. CASE Service
  <2>1. ASSUME NEW n \in Acts, Publish(n) PROVE HarvestTypeOK'
    <3>1. text' \in [Base -> Acts \cup {NoText}]
      BY <2>1 DEF Publish, HarvestTypeOK
    <3> QED BY <2>1, <3>1 DEF Publish, HarvestTypeOK
  <2>2. ASSUME NEW n \in Acts, NEW b \in BasesOf[n], Consolidate(b, n)
        PROVE  HarvestTypeOK'
    BY <2>2 DEF Consolidate, HarvestTypeOK
  <2>3. CASE NewYear
    BY <2>3 DEF NewYear, HarvestTypeOK
  <2> QED BY <1>16, <2>1, <2>2, <2>3 DEF Service
<1>17. CASE Dies
  BY <1>17, OverTypes DEF Dies, HarvestTypeOK
<1>18. CASE UNCHANGED harvestVars
  BY <1>18 DEF harvestVars, HarvestTypeOK
<1> QED BY <1>1, <1>2, <1>3, <1>4, <1>5, <1>6, <1>7, <1>8, <1>9, <1>10, <1>11,
           <1>12, <1>13, <1>14, <1>15, <1>16, <1>17, <1>18
        DEF HarvestNext, Process, Search

-----------------------------------------------------------------------------
(* What the steps do to a run.                                             *)

(* A request, an answer or the service: the run is where it was, but for   *)
(* its place in the search.                                                *)
Quiet ==
  /\ UNCHANGED <<config, todo, want, last, revisit, peek, before, owed, torn>>
  /\ place' = place \/ {place, place'} \subseteq {"look", "change", "fetch"}
  /\ misled \subseteq misled'

(* The run is given up, and is not between its two writes, or is torn.     *)
Dropped ==
  /\ Over /\ place # "idle" /\ UNCHANGED <<config, owed>>
  /\ torn' = (torn \/ place = "saved")
  /\ misled \subseteq misled'

(* The number that was found is done with.                                 *)
Looked ==
  /\ place = "fetch" /\ Examined(have) /\ (part > 1 \/ ~ new)
  /\ UNCHANGED <<service, have, config, before, torn, misled>>

(* All that a step can be to a run.                                        *)
RunStep ==
  \/ Quiet \/ Dropped \/ Looked
  \/ \E ok \in SUBSET {b \in Base : b \in published} : DownloadAll(ok)
  \/ _set_last_sfsnr \/ download_new \/ InteExisterande
  \/ SaveLast \/ SaveRevisit

(* Every step is one of these.                                             *)
LEMMA StepIsRunStep ==
  ASSUME HarvestTypeOK, [HarvestNext]_harvestVars
  PROVE  RunStep
<1> USE DEF RunStep
<1>1. CASE ConnectionLost \/ \E s \in {"200", "404", "error"} : Responds(s)
  BY <1>1 DEF ConnectionLost, Responds, Quiet, run
<1>2. CASE Received
  <2>1. CASE part < 3
    BY <1>2, <2>1 DEF Received, Quiet, run
  <2>2. CASE ~ (part < 3)
    <3>1. part > 1
      BY <2>2 DEF HarvestTypeOK
    <3> QED BY <1>2, <2>2, <3>1 DEF Received, Looked
  <2> QED BY <2>1, <2>2
<1>3. CASE FetchFails \/ NotAnAct
  <2>1. place = "fetch"
    BY <1>3 DEF FetchFails, LastException, HTTPError, GivesUp, NotAnAct
  <2>2. CASE Abort
    BY <2>1, <2>2 DEF Abort, Dropped, HarvestTypeOK
  <2>3. CASE ~ new /\ Examined(have)
             /\ UNCHANGED <<service, have, config, before, torn, misled>>
    BY <2>1, <2>3 DEF Looked
  <2> QED BY <1>3, <2>2, <2>3 DEF FetchFails, FailSingle, NotAnAct
<1>4. CASE Service
  BY <1>4 DEF Service, Publish, Consolidate, NewYear, Quiet, run
<1>5. CASE Dies
  BY <1>5 DEF Dies, Dropped
<1>6. CASE UNCHANGED harvestVars
  BY <1>6 DEF harvestVars, Quiet, run
<1>7. CASE BaseActFound \/ NoBaseAct
  BY <1>7 DEF BaseActFound, NoBaseAct, DownloadSingle, Quiet, run
<1>8. CASE ChangeActFound
  BY <1>8, AnswerTypes DEF ChangeActFound, Answer, DownloadSingle, Quiet, run
<1>9. CASE RevisitedIsMissing
  <2>1. place = "change" /\ misled \subseteq misled'
    BY <1>9, AnswerTypes DEF RevisitedIsMissing, Answer
  <2> QED BY <1>9, <2>1 DEF RevisitedIsMissing, Dropped, HarvestTypeOK
<1> QED BY <1>1, <1>2, <1>3, <1>4, <1>5, <1>6, <1>7, <1>8, <1>9
        DEF HarvestNext, Process, Search

(* What the search was wrong about is not forgotten.                       *)
LEMMA MisledGrows ==
  ASSUME HarvestTypeOK, [HarvestNext]_harvestVars
  PROVE  /\ misled \subseteq misled'
         /\ \A n : (\E k \in misled : k[1] = n[1] /\ ~ Less(n, k))
                  => \E k \in misled' : k[1] = n[1] /\ ~ Less(n, k)
<1>1. CASE Quiet \/ Dropped \/ Looked
  BY <1>1 DEF Quiet, Dropped, Looked
<1>2. CASE \/ \E ok \in SUBSET {b \in Base : b \in published} : DownloadAll(ok)
           \/ _set_last_sfsnr \/ download_new \/ SaveLast \/ SaveRevisit
  BY <1>2 DEF DownloadAll, _set_last_sfsnr, download_new, SaveLast, SaveRevisit
<1>3. CASE InteExisterande
  BY <1>3, AnswerTypes DEF InteExisterande
<1> QED BY <1>1, <1>2, <1>3, StepIsRunStep DEF RunStep

(* What it is to be done with a number that was found.                     *)
LEMMA LookedIs ==
  ASSUME HarvestTypeOK, Fetching, Texts, Looked
  PROVE  /\ InRun /\ InRun' /\ place # "saved" /\ place' # "saved"
         /\ Wanted \in Pair
         /\ Wanted \in misled \/ Found(Wanted, published)
         /\ UNCHANGED <<published, have, config, before, torn, peek, misled>>
         /\ Elements(todo) \subseteq {Wanted} \cup Elements(todo')
         /\ Elements(todo') \subseteq Elements(todo)
         /\ Elements(revisit) \subseteq Elements(revisit')
         /\ Elements(revisit') \subseteq {Wanted} \cup Elements(revisit)
         /\ owed' \subseteq {Wanted} \cup owed
         /\ \/ /\ Elements(revisit') \subseteq Elements(revisit)
               /\ owed' \subseteq owed
            \/ Wanted \in misled \/ Wanted \notin Base
         /\ \/ /\ Wanted \in Elements(todo) /\ want' = want /\ last' = last
            \/ /\ todo = <<>> /\ Wanted = want /\ want' = Succ(want)
               /\ last' \in {last, want}
         /\ \/ Wanted \in Elements(revisit') /\ last' = last
            \/ Wanted \in misled \/ WorkedIn(Wanted, have)
<1>1. /\ place = "fetch" /\ place' = "look" /\ Wanted \in Pair
      /\ UNCHANGED <<published, have, config, before, torn, peek, misled>>
  BY WantedIs, Numbers DEF Looked, Examined, service
<1>2. \/ Wanted \in misled
      \/ /\ Found(Wanted, published) /\ base = TheBase(Wanted)
         /\ Wanted \in Acts /\ have[TheBase(Wanted)] # NoText
  <2>1. part > 1 \/ ~ new
    BY DEF Looked
  <2>2. ~ (part = 1 /\ new)
    BY <2>1 DEF HarvestTypeOK
  <2> QED BY <1>1, <2>1, <2>2, Types DEF Fetching, Found
<1>3. \/ /\ todo = <<>> /\ Wanted = want /\ want' = Succ(want) /\ todo' = todo
      \/ /\ todo # <<>> /\ Wanted = Head(todo) /\ want' = want
         /\ todo' = Tail(todo)
  BY DEF Looked, Examined, Wanted
<1>4. /\ Elements(todo) \subseteq {Wanted} \cup Elements(todo')
      /\ Elements(todo') \subseteq Elements(todo)
      /\ todo # <<>> => Wanted \in Elements(todo)
  <2>1. todo # <<>> => /\ Head(todo) \in Elements(todo)
                       /\ Elements(todo)
                            = {Head(todo)} \cup Elements(Tail(todo))
    BY Types, Lists
  <2> QED BY <1>3, <2>1
<1>5. CASE InteUppdaterad(Wanted, have)
  <2>1. /\ revisit' = Append(revisit, Wanted) /\ last' = last
        /\ owed' \subseteq owed \cup {Wanted}
    BY <1>5 DEF Looked, Examined
  <2>2. Elements(revisit') = Elements(revisit) \cup {Wanted}
    BY <2>1, Types, Lists, WantedIs
  <2>3. Wanted \in misled \/ Wanted \notin Base
    BY <1>2, <1>5, BaseMakesItself DEF InteUppdaterad
  <2> QED BY <1>1, <1>2, <1>3, <1>4, <2>1, <2>2, <2>3 DEF InRun
<1>6. CASE ~ InteUppdaterad(Wanted, have)
  <2>1. /\ revisit' = revisit /\ owed' = owed \ {Wanted}
        /\ last' = IF todo = <<>> THEN Wanted ELSE last
    BY <1>6 DEF Looked, Examined
  <2>2. Wanted \in misled \/ WorkedIn(Wanted, have)
    <3>1. CASE Wanted \notin misled /\ base = Wanted
      <4>1. Wanted \in Base /\ TheBase(Wanted) = Wanted
        BY <1>2, <3>1, Numbers
      <4> QED BY <1>2, <3>1, <4>1 DEF Texts, WorkedIn
    <3>2. CASE Wanted \notin misled /\ base # Wanted
      BY <1>2, <1>6, <3>2 DEF InteUppdaterad, WorkedIn
    <3> QED BY <3>1, <3>2
  <2> QED BY <1>1, <1>2, <1>3, <1>4, <2>1, <2>2 DEF InRun
<1> QED BY <1>5, <1>6

(* What it is to come to a number that is not found.                       *)
LEMMA MissingIs ==
  ASSUME HarvestTypeOK, Fetching, InteExisterande
  PROVE  /\ place = "change" /\ InRun /\ InRun' /\ place' # "saved"
         /\ todo = <<>> /\ misled \subseteq misled'
         /\ \/ want \in misled'
            \/ ~ Found(want, published)
            \/ want \in Base \ before
         /\ UNCHANGED <<published, have, config, before, torn, todo, last,
                        revisit>>
         /\ \/ /\ ~ peek /\ peek' /\ want' = Succ(want) /\ owed' = owed
            \/ /\ peek /\ ~ peek' /\ want[1] < today /\ want' = <<today, 1>>
               /\ owed' = owed \ PassedBy
            \/ UNCHANGED <<peek, want, owed>>
<1>1. /\ place = "change" /\ todo = <<>> /\ Answer({})
      /\ UNCHANGED <<published, have, config, before, torn, todo, last,
                     revisit>>
  BY DEF InteExisterande, service, Answer
<1>2. misled \subseteq misled' /\ Wanted = want /\ want \notin Base \cap before
  BY <1>1, AnswerTypes, WantedIs DEF Fetching
<1>3. \/ want \in misled'
      \/ ~ Found(want, published)
      \/ want \in Base \ before
  <2> SUFFICES ASSUME want \notin Base, Found(want, published)
               PROVE  want \in misled'
    BY <1>2
  <2>1. Changed(want) = BasesOf[want] /\ want \in Acts
    BY Types DEF Changed, There, Found
  <2>2. BasesOf[want] # {}
    BY <2>1, Numbers
  <2>3. misled' = IF {} = Changed(want) THEN misled ELSE misled \cup {want}
    BY <1>1, <1>2 DEF Answer
  <2> QED BY <2>1, <2>2, <2>3
<1>4. CASE PeekForward
  BY <1>1, <1>2, <1>3, <1>4 DEF PeekForward, InRun
<1>5. CASE ThisYear
  BY <1>1, <1>2, <1>3, <1>5 DEF ThisYear, InRun
<1>6. CASE Done
  BY <1>1, <1>2, <1>3, <1>6 DEF Done, InRun
<1> QED BY <1>4, <1>5, <1>6 DEF InteExisterande

-----------------------------------------------------------------------------
(* The service and what is downloaded from it.                             *)

(* Downloading: a text that is kept, or the service's.                     *)
Downloads ==
  /\ UNCHANGED <<published, text>>
  /\ \A b \in Base : have'[b] = have[b] \/ have'[b] = text[b]

(* Every step downloads, or publishes a number, or consolidates a text.    *)
LEMMA TextCases ==
  ASSUME HarvestTypeOK, [HarvestNext]_harvestVars
  PROVE  \/ Downloads
         \/ \E n \in Acts : Publish(n)
         \/ \E n \in Acts : \E b \in BasesOf[n] : Consolidate(b, n)
<1> USE DEF service, Downloads
<1>1. ASSUME NEW ok \in SUBSET {b \in Base : b \in published}, DownloadAll(ok)
      PROVE  Downloads
  BY <1>1 DEF DownloadAll
<1>2. CASE _set_last_sfsnr \/ download_new \/ Search
  BY <1>2 DEF _set_last_sfsnr, download_new, Search, BaseActFound, NoBaseAct,
              ChangeActFound, DownloadSingle, InteExisterande,
              RevisitedIsMissing
<1>3. CASE ConnectionLost \/ \E s \in {"200", "404", "error"} : Responds(s)
  BY <1>3 DEF ConnectionLost, Responds
<1>4. CASE Received /\ part < 3
  <2> DEFINE got == IF part = 1 THEN text[base] ELSE have[base]
  <2>1. have' = [have EXCEPT ![base] = got] /\ UNCHANGED <<published, text>>
    BY <1>4 DEF Received
  <2>2. ASSUME NEW b \in Base
        PROVE  have'[b] = have[b] \/ have'[b] = text[b]
    <3>1. have'[b] = IF b = base THEN got ELSE have[b]
      BY <2>1 DEF HarvestTypeOK
    <3> QED BY <3>1
  <2> QED BY <2>1, <2>2
<1>5. CASE Received /\ ~ (part < 3)
  BY <1>5 DEF Received
<1>6. CASE FetchFails \/ NotAnAct
  BY <1>6 DEF FetchFails, FailSingle, NotAnAct, Abort
<1>7. CASE SaveLast \/ SaveRevisit \/ Dies
  BY <1>7 DEF SaveLast, SaveRevisit, Dies
<1>8. CASE Service
  BY <1>8 DEF Service, NewYear
<1>9. CASE UNCHANGED harvestVars
  BY <1>9 DEF harvestVars
<1> QED BY <1>1, <1>2, <1>3, <1>4, <1>5, <1>6, <1>7, <1>8, <1>9
        DEF HarvestNext, Process

(* Numbers stay published, and no text gets older.                         *)
LEMMA OnlyGrows ==
  ASSUME HarvestTypeOK, HarvestTypeOK', Texts, [HarvestNext]_harvestVars
  PROVE  /\ published \subseteq published'
         /\ \A n \in Acts : Found(n, published) => Found(n, published')
         /\ \A n \in Acts : WorkedIn(n, have) => WorkedIn(n, have')
<1>1. published \subseteq published'
  BY TextCases DEF Downloads, Publish, Consolidate
<1>2. \A b \in Base : ~ Less(have'[b], have[b])
  BY TextCases, Types, Order DEF Downloads, Publish, Consolidate, Texts
<1>3. ASSUME NEW n \in Acts, WorkedIn(n, have)
      PROVE  WorkedIn(n, have')
  <2>1. have[TheBase(n)] \in Pair /\ have'[TheBase(n)] \in Pair /\ n \in Pair
    <3>1. TheBase(n) \in Base
      BY Numbers
    <3>2. HarvestTypeOK => \A b \in Base : have[b] \in Pair
      BY Types
    <3>3. HarvestTypeOK' => \A b \in Base : have'[b] \in Pair
      BY Numbers DEF HarvestTypeOK
    <3> QED BY <3>1, <3>2, <3>3, Numbers
  <2>2. ~ Less(have'[TheBase(n)], have[TheBase(n)])
    BY <1>2, Numbers
  <2>3. ~ Less(have[TheBase(n)], n)
    BY <1>3 DEF WorkedIn
  <2>4. ~ Less(have'[TheBase(n)], n)
    BY <2>1, <2>2, <2>3, Order
  <2> QED BY <2>4 DEF WorkedIn
<1> QED BY <1>1, <1>3 DEF Found

(* So it is before the first run.                                          *)
LEMMA TextsInit == HarvestInit => Texts
<1> SUFFICES ASSUME HarvestInit PROVE Texts
  OBVIOUS
<1>1. ASSUME NEW n \in published PROVE BasesOf[n] \subseteq published
  <2>1. n \in Acts /\ n = <<1, 1>>
    BY <1>1 DEF HarvestInit
  <2>2. BasesOf[n] = {n}
    BY <2>1, HarvestAssumption
  <2> QED BY <2>2
<1>2. ASSUME NEW b \in Base
      PROVE  /\ text[b] = NoText \/ ~ Less(text[b], b)
             /\ text[b] = NoText <=> b \notin published
             /\ have[b] = NoText \/ ~ Less(have[b], b)
             /\ ~ Less(text[b], have[b])
  <2>1. /\ text[b] = IF b \in published THEN b ELSE NoText
        /\ have[b] = NoText
    BY DEF HarvestInit
  <2>2. b \in Acts /\ b \in Pair /\ NoText \in Pair /\ b # NoText
    BY Numbers
  <2>3. ~ Less(b, b) /\ ~ Less(NoText, NoText) /\ ~ Less(b, NoText)
    BY <2>2, Numbers, Order
  <2> QED BY <2>1, <2>2, <2>3
<1> QED BY <1>1, <1>2 DEF Texts

(* Every step keeps it so.                                                 *)
LEMMA TextsStep ==
  ASSUME HarvestTypeOK, Texts, [HarvestNext]_harvestVars
  PROVE  Texts'
<1>1. CASE Downloads
  <2>1. ASSUME NEW b \in Base
        PROVE  have'[b] = NoText \/ ~ Less(have'[b], b)
    BY <1>1, <2>1 DEF Downloads, Texts
  <2>2. ASSUME NEW b \in Base PROVE ~ Less(text'[b], have'[b])
    <3>1. ~ Less(text[b], text[b])
      BY Types, Order
    <3> QED BY <1>1, <2>2, <3>1 DEF Downloads, Texts
  <2> QED BY <1>1, <2>1, <2>2 DEF Downloads, Texts
<1>2. ASSUME NEW n \in Acts, Publish(n) PROVE Texts'
  <2>1. /\ published' = published \cup {n} /\ have' = have
        /\ BasesOf[n] \subseteq published \cup {n} /\ n \notin published
        /\ text' = [b \in Base |-> IF b = n THEN n ELSE text[b]]
    BY <1>2 DEF Publish
  <2>2. ASSUME NEW b \in Base, b = n
        PROVE  /\ text'[b] # NoText /\ ~ Less(text'[b], b) /\ b \in published'
               /\ ~ Less(text'[b], have'[b])
    <3>1. text'[b] = n /\ n # NoText /\ n \in Pair
      BY <2>1, <2>2, Numbers
    <3>2. text[b] = NoText /\ ~ Less(NoText, have[b])
      BY <2>1, <2>2 DEF Texts
    <3>3. ~ Less(n, NoText) /\ ~ Less(n, n)
      BY <3>1, Numbers, Order
    <3>4. ~ Less(n, have[b])
      <4>1. have[b] \in Pair /\ NoText \in Pair
        BY Types, Numbers
      <4> QED BY <3>1, <3>2, <3>3, <4>1, Order
    <3> QED BY <2>1, <2>2, <3>1, <3>3, <3>4
  <2>3. ASSUME NEW b \in Base, b # n
        PROVE  text'[b] = text[b] /\ (b \in published' <=> b \in published)
    BY <2>1, <2>3
  <2>4. \A m \in published' : BasesOf[m] \subseteq published'
    BY <2>1 DEF Texts
  <2> QED BY <2>1, <2>2, <2>3, <2>4 DEF Texts
<1>3. ASSUME NEW n \in Acts, NEW b \in BasesOf[n], Consolidate(b, n)
      PROVE  Texts'
  <2>1. /\ n \in published /\ Less(text[b], n)
        /\ text' = [text EXCEPT ![b] = n] /\ UNCHANGED <<published, have>>
    BY <1>3 DEF Consolidate
  <2>2. b \in Base /\ b \in published /\ b \in Pair /\ n \in Pair
        /\ n # NoText /\ text[b] \in Pair /\ have[b] \in Pair
    BY <2>1, Numbers, Types DEF Texts
  <2>3. text'[b] = n
    BY <2>1, <2>2 DEF HarvestTypeOK
  <2>4. ~ Less(text[b], b) /\ ~ Less(text[b], have[b])
    BY <2>2 DEF Texts
  <2>5. ~ Less(n, b) /\ ~ Less(n, have[b])
    BY <2>1, <2>2, <2>4, Order
  <2>6. \A a \in Base : a # b => text'[a] = text[a]
    BY <2>1 DEF HarvestTypeOK
  <2> QED BY <2>1, <2>2, <2>3, <2>5, <2>6 DEF Texts
<1> QED BY <1>1, <1>2, <1>3, TextCases

(* Where the service has no text, none was downloaded.                     *)
LEMMA HaveIsOlder ==
  ASSUME HarvestTypeOK, Texts, NEW b \in Base, text[b] = NoText
  PROVE  have[b] = NoText
<1>1. ~ Less(NoText, have[b]) /\ have[b] \in Acts \cup {NoText}
  BY DEF Texts, HarvestTypeOK
<1> QED BY <1>1, Numbers

-----------------------------------------------------------------------------
(* Where a run is.                                                         *)

(* What is fetched stays found while it is.                                *)
LEMMA FetchingStep ==
  ASSUME HarvestTypeOK, HarvestTypeOK', Texts, Fetching, Progress,
         [HarvestNext]_harvestVars
  PROVE  Fetching'
<1> USE DEF Fetching, run, service
<1>0. published \subseteq published' /\ misled \subseteq misled'
  BY OnlyGrows, MisledGrows
<1>1. ASSUME NEW ok \in SUBSET {b \in Base : b \in published}, DownloadAll(ok)
      PROVE  Fetching'
  BY <1>1 DEF DownloadAll
<1>2. CASE _set_last_sfsnr \/ download_new \/ SaveLast
  BY <1>2 DEF _set_last_sfsnr, download_new, SaveLast
<1>3. ASSUME NEW b, DownloadSingle(b),
             \/ Wanted \in misled'
             \/ Found(Wanted, published) /\ b = TheBase(Wanted)
             \/ b = Wanted /\ (b \notin Base \/ have[b] = NoText)
             \/ b = Wanted /\ b \in Base /\ have[b] # NoText
      PROVE  Fetching'
  <2>1. /\ place' = "fetch" /\ base' = b /\ part' = 1
        /\ new' = (TextOf(b, have) = NoText)
        /\ UNCHANGED <<service, have, run>>
    BY <1>3 DEF DownloadSingle, StartFetch
  <2>2. Wanted' = Wanted
    BY <2>1 DEF Wanted
  <2>3. ~ new' => b \in Base /\ have[b] # NoText
    BY <2>1, Zenon DEF TextOf
  <2>4. b \notin Base \/ have[b] = NoText => new'
    BY <2>1, Zenon DEF TextOf
  <2>5. ASSUME b = Wanted, b \in Base, have[b] # NoText
        PROVE  Found(Wanted, published) /\ b = TheBase(Wanted)
    <3>1. b \in published
      <4>1. text[b] = NoText => have[b] = NoText
        BY <2>5, Types, HaveIsOlder
      <4> QED BY <2>5, <4>1 DEF Texts
    <3> QED BY <2>5, <3>1, BaseMakesItself DEF Found
  <2>6. \/ Wanted \in misled'
        \/ Found(Wanted, published) /\ b = TheBase(Wanted)
        \/ b = Wanted /\ new'
    BY <1>3, <2>4, <2>5
  <2>7. UNCHANGED published
    BY <2>1
  <2> QED BY <2>1, <2>2, <2>3, <2>6, <2>7
<1>4. CASE BaseActFound
  BY <1>3, <1>4 DEF BaseActFound
<1>5. CASE NoBaseAct
  <2>1. /\ place' = "change" /\ Wanted \notin Base \cap published
        /\ UNCHANGED <<run, before>> /\ InRun
    BY <1>5 DEF NoBaseAct, InRun
  <2>2. Wanted' = Wanted
    BY <2>1 DEF Wanted
  <2> QED BY <2>1, <2>2 DEF Progress
<1>6. CASE ChangeActFound
  <2>1. PICK b \in Base : Answer({b}) /\ DownloadSingle(b)
    BY <1>6 DEF ChangeActFound
  <2>2. \/ Wanted \in misled'
        \/ Found(Wanted, published) /\ b = TheBase(Wanted)
    <3>1. {b} # Changed(Wanted) => Wanted \in misled'
      BY <2>1 DEF Answer
    <3>2. ASSUME {b} = Changed(Wanted)
          PROVE  Found(Wanted, published) /\ b = TheBase(Wanted)
      <4>1. There(Wanted) /\ BasesOf[Wanted] = {b}
        BY <3>2 DEF Changed
      <4> QED BY <4>1 DEF There, Found, TheBase
    <3> QED BY <3>1, <3>2
  <2> QED BY <1>3, <2>1, <2>2
<1>7. CASE InteExisterande
  BY <1>7 DEF InteExisterande, PeekForward, ThisYear, Done
<1>8. CASE ConnectionLost \/ \E s \in {"200", "404", "error"} : Responds(s)
  BY <1>8 DEF ConnectionLost, Responds, Wanted, Found
<1>9. CASE Received /\ part < 3
  <2> DEFINE got == IF part = 1 THEN text[base] ELSE have[base]
  <2>1. /\ place = "fetch" /\ have' = [have EXCEPT ![base] = got]
        /\ base \in Base /\ text[base] # NoText
        /\ UNCHANGED <<service, config, base, place, run, misled>>
    BY <1>9 DEF Received, TextOf
  <2>2. base \in published /\ TheBase(base) = base
        /\ Cardinality(BasesOf[base]) = 1
    BY <2>1, BaseMakesItself DEF Texts
  <2>3. part = 1 \/ have[base] # NoText
    BY <2>1, <1>9 DEF HarvestTypeOK
  <2>4. have'[base] # NoText
    BY <2>1, <2>3 DEF HarvestTypeOK
  <2>5. Wanted' = Wanted
    BY <2>1 DEF Wanted
  <2>6. \/ Wanted \in misled
        \/ Found(Wanted, published) /\ base = TheBase(Wanted)
    BY <2>1, <2>2 DEF Found
  <2> QED BY <2>1, <2>4, <2>5, <2>6
<1>10. CASE Received /\ ~ (part < 3)
  BY <1>10 DEF Received, Examined
<1>11. CASE FetchFails \/ NotAnAct
  BY <1>11 DEF FetchFails, FailSingle, NotAnAct, Abort, Over, Examined
<1>12. CASE SaveRevisit \/ Dies \/ RevisitedIsMissing
  BY <1>12 DEF SaveRevisit, Dies, RevisitedIsMissing, Over
<1>13. CASE Service \/ UNCHANGED harvestVars
  <2>1. UNCHANGED <<have, place, run, base, part, new, before, misled>>
    BY <1>13 DEF Service, Publish, Consolidate, NewYear, harvestVars, fetch
  <2>2. Wanted' = Wanted
    BY <2>1 DEF Wanted
  <2>3. Found(Wanted, published) => Found(Wanted, published')
    BY <1>0 DEF Found
  <2> QED BY <2>1, <2>2, <2>3
<1> QED BY <1>1, <1>2, <1>4, <1>5, <1>6, <1>7, <1>8, <1>9, <1>10, <1>11, <1>12,
           <1>13 DEF HarvestNext, Process, Search

(* A run goes forward.                                                     *)
LEMMA ProgressStep ==
  ASSUME HarvestTypeOK, HarvestTypeOK', Texts, Fetching, Progress,
         [HarvestNext]_harvestVars
  PROVE  Progress'
<1> USE DEF service, run
<1>1. published \subseteq published'
  BY OnlyGrows
<1>2. CASE Quiet
  BY <1>1, <1>2 DEF Quiet, Progress, InRun
<1>3. CASE \/ \E ok \in SUBSET {b \in Base : b \in published} : DownloadAll(ok)
           \/ Dropped \/ SaveRevisit \/ _set_last_sfsnr \/ SaveLast
  BY <1>3 DEF DownloadAll, Dropped, SaveRevisit, _set_last_sfsnr, SaveLast,
              Over, Progress, InRun
<1>4. CASE download_new
  <2>1. /\ before' = published' /\ todo' = config'.revisit
        /\ config'.next # Unset /\ want' = config'.next /\ last' = want'
    BY <1>4 DEF download_new
  <2>2. ~ Less(want', want')
    <3>1. want' \in Pair
      BY Numbers DEF HarvestTypeOK, Pair
    <3> QED BY <3>1, Order
  <2> QED BY <2>1, <2>2 DEF Progress
<1>6. CASE InteExisterande
  <2>1. /\ InRun /\ UNCHANGED <<published, before, todo, config, last>>
        /\ \/ want' \in {want, Succ(want)}
           \/ want' = <<today, 1>> /\ want[1] < today
    <3>1. CASE PeekForward
      BY <1>6, <3>1 DEF InteExisterande, Answer, PeekForward, InRun
    <3>2. CASE ThisYear
      BY <1>6, <3>2 DEF InteExisterande, Answer, ThisYear, InRun
    <3>3. CASE Done
      BY <1>6, <3>3 DEF InteExisterande, Answer, Done, InRun
    <3> QED BY <1>6, <3>1, <3>2, <3>3 DEF InteExisterande
  <2>2. want' \in Pair /\ ~ Less(want', want)
    <3>1. Less(want, Succ(want)) /\ Succ(want) \in Pair /\ ~ Less(want, want)
          /\ ~ Less(Succ(want), want)
      BY Types, Order
    <3>2. <<today, 1>> \in Pair
      BY Types DEF Pair
    <3>3. want[1] < today => Less(want, <<today, 1>>)
      BY DEF Less
    <3> QED BY <2>1, <3>1, <3>2, <3>3, Types, Order
  <2>3. ~ Less(want', last)
    BY <2>1, <2>2, Types, Order DEF Progress
  <2> QED BY <2>1, <2>3 DEF Progress
<1>7. CASE Looked
  <2>1. /\ InRun /\ UNCHANGED <<published, before, config>>
        /\ IF todo = <<>> THEN want' = Succ(want) /\ todo' = todo
                          ELSE todo' = Tail(todo) /\ want' = want
        /\ last' = last \/ (todo = <<>> /\ last' = want)
    <3>1. /\ place = "fetch" /\ Examined(have)
          /\ UNCHANGED <<published, before, config>>
      BY <1>7 DEF Looked
    <3>2. IF todo = <<>> THEN want' = Succ(want) /\ todo' = todo
                        ELSE todo' = Tail(todo) /\ want' = want
      BY <3>1 DEF Examined
    <3>3. last' = last \/ (todo = <<>> /\ last' = want)
      <4>1. last' = last \/ last' = IF todo = <<>> THEN Wanted ELSE last
        BY <3>1 DEF Examined
      <4> QED BY <4>1 DEF Wanted
    <3> QED BY <3>1, <3>2, <3>3 DEF InRun
  <2>2. Elements(todo') \subseteq Elements(todo)
    <3>1. todo # <<>> => Elements(Tail(todo)) \subseteq Elements(todo)
      BY Types, Lists
    <3> QED BY <2>1, <3>1
  <2>3. ~ Less(want', want) /\ want' \in Pair
    BY <2>1, Types, Order
  <2>4. ~ Less(want', last')
    <3>1. ~ Less(want, want)
      BY Types, Order
    <3> QED BY <2>1, <2>3, <3>1, Types, Order DEF Progress
  <2>5. ~ Less(last', config'.next)
    <3>1. config.next \in Pair
      BY <2>1, Types DEF Progress
    <3> QED BY <2>1, <3>1, Types, Order DEF Progress
  <2> QED BY <2>1, <2>2, <2>4, <2>5 DEF Progress
<1> QED BY <1>2, <1>3, <1>4, <1>6, <1>7, StepIsRunStep DEF RunStep

-----------------------------------------------------------------------------
(* The numbers ahead of a number.                                          *)

(* More of them are ahead of a later number, fewer from a later start.     *)
LEMMA AheadOf ==
  ASSUME NEW n \in Pair, NEW from \in Pair
  PROVE  /\ Ahead(n, from) \subseteq Pair
         /\ Ahead(from, from) = {}
         /\ \A m \in Ahead(n, from) : Less(m, n)
         /\ Ahead(n, from) \subseteq Ahead(Succ(n), from)
         /\ Ahead(Succ(n), from) \subseteq {n} \cup Ahead(n, from)
         /\ n \in Nat \X (Nat \ {0}) /\ ~ Less(n, from)
              => n \in Ahead(Succ(n), from)
         /\ \A k \in Pair : n[1] = k[1] /\ ~ Less(k, n)
              => Ahead(n, from) \subseteq Ahead(k, from)
         /\ \A k \in Pair : ~ Less(k, from)
              => Ahead(n, k) \subseteq Ahead(n, from)
<1>1. Ahead(n, from) \subseteq Pair /\ \A m \in Ahead(n, from) : Less(m, n)
  BY DEF Ahead, Pair
<1>2. Ahead(from, from) = {}
  BY DEF Ahead
<1>3. Succ(n) \in Pair /\ Succ(n)[1] = n[1]
  BY Order DEF Succ
<1>4. ASSUME NEW m \in {n[1]} \X (Nat \ {0})
      PROVE  m \in Pair /\ (Less(m, Succ(n)) <=> Less(m, n) \/ m = n)
  <2>1. m \in Pair
    BY DEF Pair
  <2> QED BY <2>1, Order
<1>5. Ahead(n, from) \subseteq Ahead(Succ(n), from)
  BY <1>3, <1>4 DEF Ahead
<1>6. Ahead(Succ(n), from) \subseteq {n} \cup Ahead(n, from)
  BY <1>3, <1>4 DEF Ahead
<1>7. ASSUME n \in Nat \X (Nat \ {0}), ~ Less(n, from)
      PROVE  n \in Ahead(Succ(n), from)
  <2>1. n \in {n[1]} \X (Nat \ {0})
    BY <1>7
  <2> QED BY <1>3, <1>4, <1>7, <2>1 DEF Ahead
<1>8. ASSUME NEW k \in Pair, n[1] = k[1], ~ Less(k, n)
      PROVE  Ahead(n, from) \subseteq Ahead(k, from)
  <2>1. \A m \in Ahead(n, from) : Less(m, k)
    BY <1>1, <1>8, Order
  <2> QED BY <1>8, <2>1 DEF Ahead
<1>9. ASSUME NEW k \in Pair, ~ Less(k, from)
      PROVE  Ahead(n, k) \subseteq Ahead(n, from)
  <2>1. \A m \in Pair : ~ Less(m, k) => ~ Less(m, from)
    BY <1>9, Order
  <2>2. Ahead(n, k) \subseteq Pair
    BY DEF Ahead, Pair
  <2> QED BY <2>1, <2>2 DEF Ahead
<1> QED BY <1>1, <1>2, <1>5, <1>6, <1>7, <1>8, <1>9

(* No number of a year comes before its first one.                         *)
LEMMA FirstOfYear ==
  ASSUME NEW y \in Nat, NEW from
  PROVE  Ahead(<<y, 1>>, from) = {}
BY DEF Ahead, Less

(* A number that is found does not get lost again, and a wrong answer is   *)
(* not forgotten.                                                          *)
LEMMA FoundKept ==
  ASSUME NEW there, NEW more, there \subseteq more, NEW n, NEW from,
         NEW wrong, NEW wronger, wrong \subseteq wronger
  PROVE  /\ \A m : Found(m, there) => Found(m, more)
         /\ OneMissing(n, from, there, wrong)
              => OneMissing(n, from, more, wronger)
         /\ Reached(n, from, there, wrong) => Reached(n, from, more, wronger)
         /\ Sound(n, wronger) => Sound(n, wrong)
BY DEF Found, OneMissing, Reached, Sound

(* What the search is right about to a number is so to the one before.     *)
LEMMA SoundBefore ==
  ASSUME NEW n \in Pair, NEW wrong \in SUBSET Pair, Sound(Succ(n), wrong)
  PROVE  Sound(n, wrong) /\ n \notin wrong
<1>1. Succ(n)[1] = n[1] /\ Less(n, Succ(n))
  BY Order DEF Succ
<1>2. ASSUME NEW k \in wrong, Less(k, n) PROVE Less(k, Succ(n))
  BY <1>2, Order
<1> QED BY <1>1, <1>2 DEF Sound

(* Nor does a number get out of reach when runs begin later.               *)
LEMMA ReachedKept ==
  ASSUME NEW n \in Pair, NEW from \in Pair, NEW to \in Pair, ~ Less(to, from),
         NEW there, NEW wrong, Reached(n, from, there, wrong)
  PROVE  Reached(n, to, there, wrong)
<1>1. CASE Less(n, from)
  BY <1>1, Order DEF Reached
<1>2. CASE OneMissing(n, from, there, wrong)
  BY <1>2, AheadOf DEF Reached, OneMissing
<1> QED BY <1>1, <1>2 DEF Reached

-----------------------------------------------------------------------------
(* The invariants of a run.                                                *)

(* A run that has got past a missing number waits at the next.             *)
LEMMA GapsStep ==
  ASSUME HarvestTypeOK, HarvestTypeOK', Texts, Fetching, Progress, Gaps,
         [HarvestNext]_harvestVars
  PROVE  Gaps'
<1> DEFINE from == config.next
<1>1. published \subseteq published' /\ misled \subseteq misled'
  BY OnlyGrows, MisledGrows
<1>2. /\ want \in Pair /\ last \in Pair /\ from \in Pair /\ today \in Nat
      /\ misled \subseteq Pair /\ misled' \subseteq Pair
  BY Types, Numbers DEF HarvestTypeOK
<1>3. CASE Quiet
  <2>1. UNCHANGED <<config, want, last, peek, before>> /\ (InRun' => InRun)
    BY <1>3 DEF Quiet, InRun
  <2> QED BY <1>1, <2>1, FoundKept DEF Gaps
<1>4. CASE \/ \E ok \in SUBSET {b \in Base : b \in published} : DownloadAll(ok)
           \/ Dropped \/ SaveRevisit \/ _set_last_sfsnr \/ SaveLast
  BY <1>4 DEF DownloadAll, Dropped, SaveRevisit, _set_last_sfsnr, SaveLast,
              Over, Gaps, InRun
<1>5. CASE download_new
  <2>1. want' = from /\ last' = from /\ config' = config /\ ~ peek'
    BY <1>5 DEF download_new
  <2> QED BY <1>2, <2>1, AheadOf DEF Gaps, OneMissing
<1>6. CASE InteExisterande
  <2>1. /\ InRun /\ (want \in misled' \/ ~ Found(want, before))
        /\ UNCHANGED <<published, config, before, last>>
        /\ ~ Less(want, from) /\ before \subseteq published
    <3>1. /\ InRun /\ UNCHANGED <<published, config, before, last>>
          /\ \/ want \in misled'
             \/ ~ Found(want, published)
             \/ want \in Base \ before
      BY <1>6, MissingIs
    <3> QED BY <3>1, <1>2, Order DEF Progress, Found
  <2>2. OneMissing(last, from, published, misled')
    BY <1>1, <2>1, FoundKept DEF Gaps
  <2>3. CASE /\ ~ peek /\ peek' /\ want' = Succ(want)
    <3>1. \A m \in Ahead(want, from) \ misled' : Found(m, published)
      BY <1>1, <2>1, <2>3 DEF Gaps
    <3>2. OneMissing(Succ(want), from, published, misled')
      BY <1>2, <3>1, AheadOf DEF OneMissing
    <3>3. ASSUME Sound(Succ(want), misled')
          PROVE  want \in Ahead(Succ(want), from) /\ ~ Found(want, before)
      <4>1. want \in Nat \X (Nat \ {0})
        BY DEF HarvestTypeOK, Number
      <4>2. want \in Ahead(Succ(want), from)
        BY <1>2, <2>1, <4>1, AheadOf
      <4>3. ~ Found(want, before)
        BY <1>2, <2>1, <3>3, SoundBefore
      <4> QED BY <4>2, <4>3
    <3> QED BY <2>1, <2>2, <2>3, <3>2, <3>3 DEF Gaps
  <2>4. CASE ~ peek' /\ want' = <<today, 1>>
    <3>1. Ahead(want', from) = {}
      BY <1>2, <2>4, FirstOfYear
    <3> QED BY <2>1, <2>2, <2>4, <3>1 DEF Gaps, OneMissing
  <2>5. CASE UNCHANGED <<peek, want>>
    BY <1>1, <2>1, <2>2, <2>5, FoundKept DEF Gaps
  <2> QED BY <1>6, <2>3, <2>4, <2>5, MissingIs
<1>7. CASE Looked
  <2>1. /\ InRun /\ (Wanted \in misled \/ Found(Wanted, published))
        /\ UNCHANGED <<published, config, before, peek, misled>>
        /\ \/ want' = want /\ last' = last
           \/ Wanted = want /\ want' = Succ(want) /\ last' \in {last, want}
    BY <1>7, LookedIs
  <2>2. OneMissing(last', from, published, misled)
    BY <2>1 DEF Gaps
  <2>3. CASE want' = want
    BY <2>1, <2>2, <2>3 DEF Gaps
  <2>4. CASE Wanted = want /\ want' = Succ(want)
    <3>1. Ahead(want', from) \subseteq {want} \cup Ahead(want, from)
          /\ Ahead(want, from) \subseteq Ahead(want', from)
      BY <1>2, <2>4, AheadOf
    <3>2. OneMissing(want', from, published, misled)
      BY <2>1, <2>4, <3>1 DEF Gaps, OneMissing
    <3>3. ~ peek => \A m \in Ahead(want', from) \ misled : Found(m, published)
      BY <2>1, <2>4, <3>1 DEF Gaps
    <3>4. peek /\ Sound(want', misled) =>
            \E m \in Ahead(want', from) : ~ Found(m, before)
      BY <1>2, <2>1, <2>4, <3>1, SoundBefore DEF Gaps
    <3> QED BY <2>1, <2>2, <3>2, <3>3, <3>4 DEF Gaps
  <2> QED BY <2>1, <2>3, <2>4
<1> QED BY <1>3, <1>4, <1>5, <1>6, <1>7, StepIsRunStep DEF RunStep

(* Only numbers that were found are listed.                                *)
LEMMA FoundOnceStep ==
  ASSUME HarvestTypeOK, HarvestTypeOK', Texts, Fetching, FoundOnce,
         [HarvestNext]_harvestVars
  PROVE  FoundOnce'
<1>0. published \subseteq published' /\ misled \subseteq misled'
  BY OnlyGrows, MisledGrows
<1>1. ASSUME Listed' \subseteq Listed
                \cup {n \in Pair : n \in misled \/ (Found(n, published)
                                                 /\ n \notin Base)}
      PROVE  FoundOnce'
  BY <1>0, <1>1 DEF FoundOnce, Found
<1>2. Elements(<<>>) = {}
  BY DEF Elements
<1>3. CASE Quiet
  BY <1>1, <1>3 DEF Quiet, Listed
<1>4. CASE Dropped \/ SaveRevisit
  <2>1. /\ todo' = <<>> /\ revisit' = <<>> /\ owed' = owed
        /\ config'.revisit \in {config.revisit, revisit}
    BY <1>4 DEF Dropped, SaveRevisit, Over, HarvestTypeOK
  <2>2. Listed' \subseteq Listed
    BY <1>2, <2>1 DEF Listed
  <2> QED BY <1>1, <2>2
<1>5. CASE \/ \E ok \in SUBSET {b \in Base : b \in published} : DownloadAll(ok)
           \/ SaveLast
  <2>1. UNCHANGED <<todo, revisit, owed>> /\ config'.revisit = config.revisit
    BY <1>5 DEF DownloadAll, SaveLast, run, HarvestTypeOK
  <2> QED BY <1>1, <2>1 DEF Listed
<1>6. CASE _set_last_sfsnr \/ download_new
  <2>1. /\ todo' \in {todo, config.revisit} /\ revisit' \in {revisit, <<>>}
        /\ owed' \subseteq owed /\ config'.revisit = config.revisit
    BY <1>6 DEF _set_last_sfsnr, download_new, HarvestTypeOK
  <2>2. Listed' \subseteq Listed
    BY <1>2, <2>1 DEF Listed
  <2> QED BY <1>1, <2>2
<1>7. CASE InteExisterande
  <2>1. UNCHANGED <<todo, revisit, config>> /\ owed' \subseteq owed
    BY <1>7, MissingIs
  <2> QED BY <1>1, <2>1 DEF Listed
<1>8. CASE Looked
  <2>1. /\ Elements(todo') \subseteq Elements(todo)
        /\ Elements(revisit') \subseteq {Wanted} \cup Elements(revisit)
        /\ owed' \subseteq {Wanted} \cup owed /\ config' = config
        /\ Wanted \in Pair /\ (Wanted \in misled \/ Found(Wanted, published))
        /\ \/ /\ Elements(revisit') \subseteq Elements(revisit)
              /\ owed' \subseteq owed
           \/ Wanted \in misled \/ Wanted \notin Base
    BY <1>8, LookedIs
  <2>2. CASE /\ Elements(revisit') \subseteq Elements(revisit)
             /\ owed' \subseteq owed
    <3>1. Listed' \subseteq Listed
      BY <2>1, <2>2 DEF Listed
    <3> QED BY <1>1, <3>1
  <2>3. CASE Wanted \in misled \/ Wanted \notin Base
    <3>1. Listed' \subseteq {Wanted} \cup Listed
      BY <2>1 DEF Listed
    <3> QED BY <1>1, <2>1, <2>3, <3>1
  <2> QED BY <2>1, <2>2, <2>3
<1> QED BY <1>3, <1>4, <1>5, <1>6, <1>7, <1>8, StepIsRunStep DEF RunStep

(* What is owed or listed is a number, and so is what gets there. *)
LEMMA ListedArePairs ==
  ASSUME HarvestTypeOK
  PROVE  /\ owed \subseteq Pair /\ Elements(revisit) \subseteq Pair
         /\ Elements(todo) \subseteq Pair
         /\ Elements(config.revisit) \subseteq Pair
BY Types, Lists, Numbers

(* A number that comes on a list was come to from where the run began, and *)
(* later runs begin later.                                                 *)
LEMMA ReachableStep ==
  ASSUME HarvestTypeOK, HarvestTypeOK', Texts, Fetching, Progress, Gaps,
         Reachable, [HarvestNext]_harvestVars
  PROVE  Reachable'
<1> DEFINE from == config.next
<1> SUFFICES ASSUME ~ torn' PROVE Reachable'
  BY DEF Reachable
<1>1. published \subseteq published' /\ misled \subseteq misled'
  BY OnlyGrows, MisledGrows
<1>2. \A n, f : /\ Reached(n, f, published, misled)
                   => Reached(n, f, published', misled')
                /\ Reached(n, f, before, misled)
                   => Reached(n, f, before, misled')
  BY <1>1, FoundKept
<1>3. want \in Pair /\ last \in Pair /\ from \in Pair /\ today \in Nat
  BY Types
<1>4. Elements(<<>>) = {}
  BY DEF Elements
<1>5. CASE Quiet
  <2>1. /\ UNCHANGED <<config, revisit, want, before, owed, torn>>
        /\ (InRun' => InRun) /\ (place' # "saved" => place # "saved")
    BY <1>5 DEF Quiet, InRun
  <2> QED BY <1>2, <2>1 DEF Reachable
<1>6. ASSUME NEW ok \in SUBSET {b \in Base : b \in published}, DownloadAll(ok)
      PROVE  Reachable'
  <2>1. /\ UNCHANGED <<published, config, revisit, owed, torn, misled>>
        /\ ~ InRun' /\ place # "saved"
    BY <1>6 DEF DownloadAll, InRun, service, run
  <2> QED BY <2>1 DEF Reachable
<1>7. CASE Dropped
  <2>1. /\ UNCHANGED <<config, owed>> /\ revisit' = <<>> /\ ~ InRun'
        /\ place # "saved" /\ ~ torn
    BY <1>7 DEF Dropped, Over, InRun
  <2> QED BY <1>2, <1>4, <2>1 DEF Reachable
<1>8. CASE SaveRevisit
  <2>1. /\ config'.next = from /\ config'.revisit = revisit /\ owed' = owed
        /\ revisit' = <<>> /\ ~ InRun' /\ ~ torn
    BY <1>8 DEF SaveRevisit, Over, InRun, HarvestTypeOK
  <2> QED BY <1>2, <1>4, <2>1 DEF Reachable
<1>9. CASE _set_last_sfsnr
  <2>1. owed' = {} /\ revisit' = <<>> /\ place' = "saved" /\ ~ InRun'
    BY <1>9 DEF _set_last_sfsnr, Fetching, InRun
  <2> QED BY <1>4, <2>1 DEF Reachable
<1>10. CASE download_new
  <2>1. /\ UNCHANGED <<published, config, owed, torn, misled>>
        /\ before' = published /\ revisit' = <<>> /\ place # "saved"
    BY <1>10 DEF download_new, service
  <2> QED BY <1>4, <2>1 DEF Reachable
<1>11. CASE SaveLast
  <2>1. /\ UNCHANGED <<published, revisit, owed, torn, misled>>
        /\ config'.next = last
        /\ place' = "saved" /\ ~ InRun' /\ ~ Less(last, from)
    BY <1>11 DEF SaveLast, Progress, InRun, service, run, HarvestTypeOK
  <2>2. ASSUME NEW n \in owed \cup Elements(revisit)
        PROVE  Reached(n, last, published, misled)
    <3>1. Reached(n, from, published, misled) /\ n \in Pair
      BY <2>1, ListedArePairs DEF Reachable
    <3> QED BY <1>3, <2>1, <3>1, ReachedKept
  <2> QED BY <2>1, <2>2 DEF Reachable
<1>12. CASE InteExisterande
  <2>1. /\ InRun /\ place # "saved" /\ owed' \subseteq owed
        /\ UNCHANGED <<published, config, before, torn, revisit>>
        /\ want' \in {want, Succ(want)}
           \/ (want[1] < today /\ want' = <<today, 1>>)
    <3>1. InRun /\ place # "saved"
      BY <1>12 DEF InteExisterande, Answer, InRun
    <3> QED BY <1>12, <3>1, MissingIs
  <2>2. ASSUME NEW n \in owed, Less(n, want) PROVE Less(n, want')
    <3>1. n \in Pair /\ Succ(want) \in Pair /\ Less(want, Succ(want))
      BY <1>3, ListedArePairs, Order
    <3>2. Less(n, Succ(want))
      BY <1>3, <2>2, <3>1, Order
    <3>3. want[1] < today => Less(n, <<today, 1>>)
      BY <1>3, <2>2, <3>1 DEF Less, Pair
    <3> QED BY <2>1, <2>2, <3>2, <3>3
  <2> QED BY <1>2, <2>1, <2>2 DEF Reachable
<1>13. CASE Looked
  <2>1. /\ InRun /\ place # "saved"
        /\ UNCHANGED <<published, config, before, torn, misled>>
        /\ Elements(revisit') \subseteq {Wanted} \cup Elements(revisit)
        /\ owed' \subseteq {Wanted} \cup owed
        /\ \/ Wanted \in Elements(todo) /\ want' = want
           \/ Wanted = want /\ want' = Succ(want)
    BY <1>13, LookedIs
  <2>2. Reached(Wanted, from, published, misled)
    BY <2>1 DEF Reachable, Reached, Gaps, Progress
  <2>3. Less(Wanted, want') \/ Reached(Wanted, from, before, misled)
    <3>1. Less(want, Succ(want))
      BY <1>3, Order
    <3> QED BY <2>1, <3>1 DEF Reachable, Progress
  <2>4. ASSUME NEW n \in owed, Less(n, want) PROVE Less(n, want')
    <3>1. n \in Pair /\ Succ(want) \in Pair /\ Less(want, Succ(want))
      BY <1>3, ListedArePairs, Order
    <3>2. Less(n, Succ(want))
      BY <1>3, <2>4, <3>1, Order
    <3> QED BY <2>1, <2>4, <3>2
  <2> QED BY <2>1, <2>2, <2>3, <2>4 DEF Reachable
<1> QED BY <1>5, <1>6, <1>7, <1>8, <1>9, <1>10, <1>11, <1>12, <1>13,
           StepIsRunStep DEF RunStep

-----------------------------------------------------------------------------
(* Nothing that is owed is forgotten.                                      *)

(* A number that a run goes on from is owed no more, or can be seen to be. *)
LEMMA NotPassedBy ==
  ASSUME HarvestTypeOK, Progress, Gaps, Reachable, ~ torn, InRun, peek,
         NEW wrong \in SUBSET Pair, misled \subseteq wrong,
         want \in wrong \/ ~ Found(want, before),
         NEW n \in owed \ PassedBy, n # want, ~ Less(n, want)
  PROVE  \/ \E k \in wrong : k[1] = n[1] /\ ~ Less(n, k)
         \/ n \in Elements(revisit) \/ ~ Less(n, <<today, 1>>)
<1> SUFFICES ASSUME n \notin Elements(revisit), Less(n, <<today, 1>>),
                    \A k \in wrong : ~ (k[1] = n[1] /\ ~ Less(n, k))
             PROVE  FALSE
  OBVIOUS
<1> DEFINE from == config.next
<1>1. /\ want \in Pair /\ from \in Pair /\ n \in Acts /\ n \in Pair
      /\ n \in Nat \X (Nat \ {0}) /\ want \in Nat \X (Nat \ {0})
      /\ today \in Nat
  BY Types, Numbers DEF HarvestTypeOK, Number
<1>3. n[1] = want[1]
  <2>1. n[1] < today
    BY <1>1 DEF Less
  <2>2. ~ (want[1] < n[1])
    BY <1>1, <2>1 DEF PassedBy
  <2> QED BY <1>1, <2>2 DEF Less
<1>4. Less(want, n) /\ ~ Less(want, from)
  <2>1. last \in Pair
    BY Types
  <2> QED BY <1>1, <2>1, Order DEF Progress
<1>5. OneMissing(n, from, before, misled)
  <2>1. ~ Less(n, from)
    BY <1>1, <1>4, Order
  <2> QED BY <2>1 DEF Reachable, Reached
<1>6. want \notin wrong /\ Sound(want, misled)
  <2>1. ~ Less(n, want)
    BY <1>1, <1>4, Order
  <2>2. ASSUME NEW k \in misled, k[1] = want[1], Less(k, want) PROVE FALSE
    <3>1. k \in Pair /\ k \in wrong
      OBVIOUS
    <3>2. ~ Less(n, k)
      BY <1>1, <1>4, <2>2, <3>1, Order
    <3> QED BY <1>3, <2>2, <3>1, <3>2
  <2> QED BY <1>3, <2>1, <2>2 DEF Sound
<1>7. PICK m \in Ahead(want, from) : ~ Found(m, before)
  BY <1>6 DEF Gaps
<1>8. m \in Ahead(n, from) /\ m # want /\ m \notin misled
  <2>1. Less(m, want) /\ ~ Less(want, want) /\ m \in Pair
    BY <1>1, <1>7, AheadOf, Order
  <2>2. Ahead(want, from) \subseteq Ahead(n, from)
    BY <1>1, <1>3, AheadOf
  <2>3. m[1] = want[1]
    BY <1>7 DEF Ahead
  <2> QED BY <1>6, <1>7, <2>1, <2>2, <2>3 DEF Sound
<1>9. want \in Ahead(n, from) /\ want \notin misled
  <2>1. want \in {n[1]} \X (Nat \ {0})
    BY <1>1, <1>3
  <2> QED BY <1>4, <1>6, <2>1 DEF Ahead
<1> QED BY <1>5, <1>6, <1>7, <1>8, <1>9 DEF OneMissing

(* A run leaves no number that is owed behind.                             *)
LEMMA RemembersStep ==
  ASSUME HarvestTypeOK, HarvestTypeOK', Texts, Fetching, Progress, Gaps,
         FoundOnce, Reachable, Remembers, AmendmentsRemembered,
         [HarvestNext]_harvestVars
  PROVE  Remembers'
<1> SUFFICES ASSUME ~ torn' PROVE Remembers'
  BY DEF Remembers
<1>1. \A n \in owed : WorkedIn(n, have) => WorkedIn(n, have')
  BY Types, OnlyGrows
<1>2. want \in Pair /\ last \in Pair /\ config.next \in Pair /\ today \in Nat
  BY Types
<1>0. \A n : Misled(n) => Misled(n)'
  BY MisledGrows DEF Misled
<1>10. \A n \in Pair : n \in misled => Misled(n)
  BY Order DEF Misled
<1>3. CASE Quiet
  <2>1. /\ UNCHANGED <<config, todo, revisit, want, owed, torn>>
        /\ (InRun' => InRun) /\ (place' = "saved" => place = "saved")
    BY <1>3 DEF Quiet, InRun
  <2> QED BY <1>0, <1>1, <2>1 DEF Remembers
<1>4. CASE \/ \E ok \in SUBSET {b \in Base : b \in published} : DownloadAll(ok)
           \/ Dropped \/ SaveRevisit
  BY <1>4 DEF DownloadAll, Dropped, SaveRevisit, Over, Remembers, InRun
<1>5. CASE _set_last_sfsnr
  BY <1>5 DEF _set_last_sfsnr, Remembers, InRun
<1>6. CASE download_new
  <2>1. /\ UNCHANGED <<have, config, owed, torn>> /\ todo' = config.revisit
        /\ want' = config.next /\ place = "idle" /\ place' = "look"
    BY <1>6 DEF download_new
  <2> QED BY <1>0, <2>1 DEF AmendmentsRemembered, Remembers, WorkedIn
<1>7. CASE SaveLast
  <2>1. /\ UNCHANGED <<have, revisit, owed, torn>> /\ config'.next = last
        /\ place' = "saved" /\ InRun /\ ~ InRun' /\ ~ Less(want, last)
        /\ todo = <<>>
    BY <1>7 DEF SaveLast, Progress, Fetching, InRun, run, HarvestTypeOK
  <2>2. ASSUME NEW n \in owed
        PROVE  \/ Misled(n) \/ WorkedIn(n, have) \/ n \in Elements(revisit)
               \/ ~ Less(n, last)
    <3>1. Elements(todo) = {} /\ n \in Pair
      BY <2>1, ListedArePairs DEF Elements
    <3>2. ~ Less(n, want) => ~ Less(n, last)
      BY <1>2, <2>1, <3>1, Order
    <3> QED BY <2>1, <3>1, <3>2 DEF Remembers
  <2> QED BY <1>0, <2>1, <2>2 DEF Remembers
<1>8. CASE InteExisterande
  <2>1. /\ InRun /\ InRun' /\ place' # "saved" /\ misled \subseteq misled'
        /\ UNCHANGED <<have, torn, todo, revisit>> /\ todo = <<>>
        /\ owed' \subseteq owed /\ misled' \subseteq Pair
        /\ \/ want \in misled'
           \/ ~ Found(want, published)
           \/ want \in Base \ before
    BY <1>8, MissingIs, Numbers DEF HarvestTypeOK
  <2>2. want \in misled' \/ ~ Found(want, before)
    BY <2>1 DEF Progress, Found
  <2>3. ASSUME NEW n \in owed', ~ Less(n, want)
        PROVE  \/ Misled(n)' \/ n \in Elements(revisit) \/ ~ Less(n, want')
    <3>1. n \in Pair /\ n \in owed
      BY <2>1, ListedArePairs
    <3>2. CASE n = want
      <4>1. want \in misled'
        BY <2>1, <3>1, <3>2 DEF FoundOnce, Listed
      <4>2. ~ Less(n, want)
        BY <2>3
      <4> QED BY <3>2, <4>1, <4>2 DEF Misled
    <3>3. CASE n # want /\ want' = Succ(want)
      BY <1>2, <2>3, <3>1, <3>3, Order
    <3>4. CASE n # want /\ peek /\ want' = <<today, 1>>
               /\ owed' = owed \ PassedBy
      <4>1. \/ \E k \in misled' : k[1] = n[1] /\ ~ Less(n, k)
            \/ n \in Elements(revisit) \/ ~ Less(n, <<today, 1>>)
        BY <2>1, <2>2, <2>3, <3>4, NotPassedBy
      <4> QED BY <3>4, <4>1 DEF Misled
    <3>5. CASE want' = want
      BY <2>3, <3>5
    <3> QED BY <1>8, <3>2, <3>3, <3>4, <3>5, MissingIs
  <2>4. Elements(todo) = {}
    BY <2>1 DEF Elements
  <2> QED BY <1>0, <2>1, <2>3, <2>4 DEF Remembers
<1>9. CASE Looked
  <2>1. /\ InRun /\ InRun' /\ place' # "saved" /\ UNCHANGED <<have, torn>>
        /\ Elements(todo) \subseteq {Wanted} \cup Elements(todo')
        /\ Elements(revisit) \subseteq Elements(revisit')
        /\ owed' \subseteq {Wanted} \cup owed
        /\ \/ Wanted \in Elements(revisit')
           \/ Wanted \in misled \/ WorkedIn(Wanted, have)
        /\ want' = want \/ (Wanted = want /\ want' = Succ(want))
        /\ Wanted \in Pair
    BY <1>9, LookedIs
  <2>2. ASSUME NEW n \in owed, n # Wanted, ~ Less(n, want)
        PROVE  ~ Less(n, want')
    <3>1. n \in Pair
      BY ListedArePairs
    <3> QED BY <1>2, <2>1, <2>2, <3>1, Order
  <2>3. \/ Wanted \in Elements(revisit')
        \/ Misled(Wanted) \/ WorkedIn(Wanted, have)
    BY <1>10, <2>1
  <2>4. ASSUME NEW n \in owed', n # Wanted
        PROVE  \/ Misled(n)' \/ WorkedIn(n, have) \/ n \in Elements(revisit')
               \/ n \in Elements(todo') \/ ~ Less(n, want')
    <3>1. n \in owed
      BY <2>1, <2>4
    <3>2. \/ Misled(n) \/ WorkedIn(n, have) \/ n \in Elements(revisit)
          \/ n \in Elements(todo) \/ ~ Less(n, want)
      BY <2>1, <3>1 DEF Remembers
    <3> QED BY <1>0, <2>1, <2>2, <2>4, <3>1, <3>2
  <2>5. \/ Wanted \in Elements(revisit')
        \/ (\E k \in misled' : k[1] = Wanted[1] /\ ~ Less(Wanted, k))
        \/ WorkedIn(Wanted, have)
    BY <2>3, MisledGrows DEF Misled
  <2>6. ASSUME NEW n \in owed'
        PROVE  \/ Misled(n)' \/ WorkedIn(n, have) \/ n \in Elements(revisit')
               \/ n \in Elements(todo') \/ ~ Less(n, want')
    BY <2>4, <2>5 DEF Misled
  <2> QED BY <2>1, <2>6 DEF Remembers
<1> QED BY <1>3, <1>4, <1>5, <1>6, <1>7, <1>8, <1>9, StepIsRunStep DEF RunStep

(* Nor do its two writes.                                                  *)
LEMMA AmendmentsStep ==
  ASSUME HarvestTypeOK, HarvestTypeOK', Texts, Fetching, Progress, Remembers,
         AmendmentsRemembered, [HarvestNext]_harvestVars
  PROVE  AmendmentsRemembered'
<1> SUFFICES ASSUME ~ torn', NEW n \in owed'
             PROVE  \/ Misled(n)'
                    \/ WorkedIn(n, have') \/ n \in Elements(config'.revisit)
                    \/ place' = "saved" /\ n \in Elements(revisit')
                    \/ ~ Less(n, config'.next)
  BY DEF AmendmentsRemembered, WorkedIn
<1>0. \A k : Misled(k) => Misled(k)'
  BY MisledGrows DEF Misled
<1>1. \A k \in owed : WorkedIn(k, have) => WorkedIn(k, have')
  BY Types, OnlyGrows
<1>2. ASSUME ~ torn, NEW k \in owed
      PROVE  \/ Misled(k)
             \/ WorkedIn(k, have) \/ k \in Elements(config.revisit)
             \/ place = "saved" /\ k \in Elements(revisit)
             \/ ~ Less(k, config.next)
  BY <1>2 DEF AmendmentsRemembered, WorkedIn
<1>3. CASE Quiet
  <2>1. /\ UNCHANGED <<config, revisit, owed, torn>>
        /\ (place = "saved" => place' = "saved")
    BY <1>3 DEF Quiet
  <2> QED BY <1>0, <1>1, <1>2, <2>1
<1>4. ASSUME NEW ok \in SUBSET {b \in Base : b \in published}, DownloadAll(ok)
      PROVE  \/ Misled(n)'
             \/ WorkedIn(n, have') \/ n \in Elements(config'.revisit)
             \/ ~ Less(n, config'.next)
  <2>1. UNCHANGED <<config, owed, torn>> /\ place # "saved"
    BY <1>4 DEF DownloadAll
  <2> QED BY <1>0, <1>1, <1>2, <2>1
<1>5. CASE Dropped
  <2>1. UNCHANGED <<config, owed>> /\ place # "saved" /\ ~ torn
    BY <1>5 DEF Dropped
  <2> QED BY <1>0, <1>1, <1>2, <2>1
<1>6. CASE SaveRevisit
  <2>1. /\ config'.next = config.next /\ config'.revisit = revisit
        /\ UNCHANGED <<have, owed, torn>> /\ place = "saved"
    BY <1>6 DEF SaveRevisit, HarvestTypeOK
  <2>2. \/ Misled(n) \/ WorkedIn(n, have) \/ n \in Elements(revisit)
        \/ ~ Less(n, config.next)
    BY <2>1 DEF Remembers
  <2> QED BY <1>0, <2>1, <2>2
<1>7. CASE _set_last_sfsnr
  BY <1>7 DEF _set_last_sfsnr
<1>8. CASE download_new
  <2>1. UNCHANGED <<have, config, owed, torn>> /\ place # "saved"
    BY <1>8 DEF download_new
  <2> QED BY <1>0, <1>2, <2>1
<1>9. CASE SaveLast
  <2>1. /\ UNCHANGED <<have, revisit, owed, torn>> /\ config'.next = last
        /\ place' = "saved" /\ InRun /\ ~ Less(want, last) /\ todo = <<>>
    BY <1>9 DEF SaveLast, Progress, Fetching, InRun, run, HarvestTypeOK
  <2>2. /\ Elements(todo) = {} /\ n \in Pair /\ n \in owed
        /\ want \in Pair /\ last \in Pair
    BY <2>1, ListedArePairs, Types DEF Elements
  <2>3. ~ Less(n, want) => ~ Less(n, last)
    BY <2>1, <2>2, Order
  <2>4. \/ Misled(n) \/ WorkedIn(n, have) \/ n \in Elements(revisit)
        \/ ~ Less(n, want)
    BY <2>1, <2>2 DEF Remembers
  <2> QED BY <1>0, <2>1, <2>3, <2>4
<1>10. CASE InteExisterande
  <2>1. /\ UNCHANGED <<have, config, torn>> /\ owed' \subseteq owed
        /\ place # "saved"
    BY <1>10, MissingIs
  <2> QED BY <1>0, <1>2, <2>1
<1>11. CASE Looked
  <2>1. /\ UNCHANGED <<have, config, torn>>
        /\ owed' \subseteq {Wanted} \cup owed
        /\ place # "saved" /\ InRun
        /\ Wanted \in Elements(todo) \/ Wanted = want
    BY <1>11, LookedIs
  <2>2. Wanted \in Elements(config.revisit) \/ ~ Less(Wanted, config.next)
    <3>1. ~ Less(want, config.next)
      BY <2>1, Types, Order DEF Progress
    <3> QED BY <2>1, <3>1 DEF Progress
  <2> QED BY <1>0, <1>2, <2>1, <2>2
<1> QED BY <1>3, <1>4, <1>5, <1>6, <1>7, <1>8, <1>9, <1>10, <1>11,
           StepIsRunStep DEF RunStep

-----------------------------------------------------------------------------
(* Nothing is passed over.                                                 *)

(* A run deals with the numbers it goes past: a missing one was not there  *)
(* when it began.                                                          *)
LEMMA DealtWithStep ==
  ASSUME HarvestTypeOK, HarvestTypeOK', Texts, Fetching, Progress, DealtWith,
         [HarvestNext]_harvestVars
  PROVE  DealtWith'
<1> DEFINE from == config.next
<1>1. \A k \in Acts : WorkedIn(k, have) => WorkedIn(k, have')
  BY OnlyGrows
<1>2. /\ want \in Pair /\ last \in Pair /\ from \in Pair /\ today \in Nat
      /\ before \subseteq Acts /\ before \subseteq Pair
  BY Types, Numbers
<1>0. misled \subseteq misled'
  BY MisledGrows
<1>3. CASE Quiet
  <2>1. /\ UNCHANGED <<config, revisit, want, last, before>>
        /\ (InRun' => InRun)
    BY <1>3 DEF Quiet, InRun
  <2>2. ASSUME NEW k \in before, Dealt(k, revisit, have)
        PROVE  Dealt(k, revisit, have')
    BY <1>1, <1>2, <2>2 DEF Dealt
  <2> QED BY <1>0, <2>1, <2>2 DEF DealtWith
<1>4. CASE \/ \E ok \in SUBSET {b \in Base : b \in published} : DownloadAll(ok)
           \/ Dropped \/ SaveRevisit \/ _set_last_sfsnr \/ SaveLast
  BY <1>4 DEF DownloadAll, Dropped, SaveRevisit, _set_last_sfsnr, SaveLast,
              Over, DealtWith, InRun
<1>5. CASE download_new
  <2>1. want' = from /\ last' = from /\ config' = config
    BY <1>5 DEF download_new
  <2>2. Ahead(want', from) = {}
    BY <1>2, <2>1, AheadOf
  <2>3. before' \subseteq Pair
    BY Numbers DEF HarvestTypeOK
  <2>4. \A k \in before' : ~ (Less(from, k) /\ ~ Less(last', k))
    BY <1>2, <2>1, <2>3, Order
  <2> QED BY <2>1, <2>2, <2>4 DEF DealtWith
<1>6. CASE InteExisterande
  <2>1. /\ InRun /\ (want \in misled' \/ ~ Found(want, before))
        /\ UNCHANGED <<have, config, before, last, revisit>>
    <3>1. /\ InRun /\ UNCHANGED <<have, config, before, last, revisit>>
          /\ \/ want \in misled'
             \/ ~ Found(want, published)
             \/ want \in Base \ before
      BY <1>6, MissingIs
    <3> QED BY <3>1 DEF Progress, Found
  <2>2. ASSUME NEW k \in before \ misled', k \in Ahead(want', from)
        PROVE  Dealt(k, revisit, have)
    <3>1. CASE want' = Succ(want)
      <4>1. k = want \/ k \in Ahead(want, from)
        BY <1>2, <2>2, <3>1, AheadOf
      <4>2. k = want => Cardinality(BasesOf[k]) # 1
        BY <2>1, <2>2 DEF Found
      <4> QED BY <1>0, <2>1, <4>1, <4>2 DEF DealtWith, Dealt
    <3>2. CASE want' = <<today, 1>>
      BY <1>2, <2>2, <3>2, FirstOfYear
    <3>3. CASE want' = want
      BY <1>0, <2>1, <2>2, <3>3 DEF DealtWith
    <3> QED BY <1>6, <3>1, <3>2, <3>3, MissingIs
  <2> QED BY <1>0, <2>1, <2>2 DEF DealtWith
<1>7. CASE Looked
  <2>1. /\ InRun /\ UNCHANGED <<have, config, before, misled>>
        /\ Elements(revisit) \subseteq Elements(revisit')
        /\ \/ want' = want /\ last' = last
           \/ Wanted = want /\ want' = Succ(want) /\ last' \in {last, want}
        /\ \/ Wanted \in Elements(revisit') \/ Wanted \in misled
           \/ WorkedIn(Wanted, have)
    BY <1>7, LookedIs
  <2>2. ASSUME NEW k \in before \ misled,
               k = Wanted \/ Dealt(k, revisit, have)
        PROVE  Dealt(k, revisit', have)
    BY <2>1, <2>2 DEF Dealt
  <2>3. ASSUME NEW k \in before \ misled, k \in Ahead(want', from)
        PROVE  Dealt(k, revisit', have)
    <3>1. k = Wanted \/ k \in Ahead(want, from)
      BY <1>2, <2>1, <2>3, AheadOf
    <3> QED BY <2>1, <2>2, <3>1 DEF DealtWith
  <2>4. ASSUME NEW k \in before \ misled, k[1] = last'[1], Less(from, k),
               ~ Less(last', k)
        PROVE  Dealt(k, revisit', have)
    <3>1. CASE last' = last
      BY <2>1, <2>2, <2>4, <3>1 DEF DealtWith
    <3>2. CASE Wanted = want /\ last' = want
      <4>1. k = want \/ k \in Ahead(want, from)
        <5>1. k \in Pair /\ k \in {want[1]} \X (Nat \ {0})
          <6>1. k \in Number /\ k[1] = want[1]
            BY <1>2, <2>4, <3>2, Numbers
          <6> QED BY <6>1, Numbers DEF Number
        <5>2. Less(k, want) \/ k = want
          BY <1>2, <2>4, <3>2, <5>1, Order
        <5>3. ~ Less(k, from)
          BY <1>2, <2>4, <5>1, Order
        <5> QED BY <5>1, <5>2, <5>3 DEF Ahead
      <4> QED BY <2>1, <2>2, <3>2, <4>1 DEF DealtWith
    <3> QED BY <2>1, <3>1, <3>2
  <2> QED BY <2>1, <2>3, <2>4 DEF DealtWith
<1> QED BY <1>3, <1>4, <1>5, <1>6, <1>7, StepIsRunStep DEF RunStep

-----------------------------------------------------------------------------
(* The inductive invariant.                                                *)

(* It holds before the first run.                                          *)
LEMMA HInvInit == HarvestInit => HInv
<1> SUFFICES ASSUME HarvestInit PROVE HInv
  OBVIOUS
<1>1. HarvestTypeOK /\ Texts
  BY HarvestTypeInit, TextsInit
<1>2. /\ place = "idle" /\ owed = {} /\ revisit = <<>> /\ todo = <<>>
      /\ config.revisit = <<>> /\ ~ InRun
  BY DEF HarvestInit, InRun
<1>3. Elements(<<>>) = {}
  BY DEF Elements
<1>4. Fetching /\ Progress /\ Gaps /\ DealtWith
  BY <1>2 DEF Fetching, Progress, Gaps, DealtWith
<1>5. FoundOnce /\ Reachable
  BY <1>2, <1>3 DEF FoundOnce, Listed, Reachable
<1>6. Remembers /\ AmendmentsRemembered
  BY <1>2 DEF Remembers, AmendmentsRemembered
<1> QED BY <1>1, <1>4, <1>5, <1>6 DEF HInv

(* Every step keeps it.                                                    *)
LEMMA HInvStep == HInv /\ [HarvestNext]_harvestVars => HInv'
<1> SUFFICES ASSUME HInv, [HarvestNext]_harvestVars PROVE HInv'
  OBVIOUS
<1> USE DEF HInv
<1>1. HarvestTypeOK' /\ Texts'
  BY HarvestTypeStep, TextsStep
<1>2. Fetching' /\ Progress'
  BY <1>1, FetchingStep, ProgressStep
<1>3. Gaps' /\ FoundOnce'
  BY <1>1, GapsStep, FoundOnceStep
<1>4. Reachable' /\ Remembers'
  BY <1>1, ReachableStep, RemembersStep
<1>5. AmendmentsRemembered' /\ DealtWith'
  BY <1>1, AmendmentsStep, DealtWithStep
<1> QED BY <1>1, <1>2, <1>3, <1>4, <1>5

(* The invariants of the harvest hold in every reachable state, whatever   *)
(* numbers there are, however often a request is tried and however many    *)
(* years begin (sfs.py:208-291).                                           *)
THEOREM HarvestInvariant == HarvestSpec => []HInv
BY HInvInit, HInvStep, PTL DEF HarvestSpec

(* The variables of the harvest have their types.                          *)
THEOREM HarvestTypeCorrect == HarvestSpec => []HarvestTypeOK
<1>1. HInv => HarvestTypeOK
  BY DEF HInv
<1> QED BY <1>1, HarvestInvariant, PTL

(* A number whose amendment was not in its text is looked at again until   *)
(* it is, whatever failed and wherever runs died, but between their two    *)
(* writes, and whatever the search was wrong about, but the number itself  *)
(* and those before it in its year (sfs.py:271-291, 354-368).              *)
THEOREM AmendmentsNotForgotten == HarvestSpec => []AmendmentsRemembered
<1>1. HInv => AmendmentsRemembered
  BY DEF HInv
<1> QED BY <1>1, HarvestInvariant, PTL

(* A run that saves how far it got has dealt with every number of that     *)
(* year that was there when it began, but for those that the search was    *)
(* itself wrong about (sfs.py:265-289, 354-368).                           *)
THEOREM NonePassedOver == HarvestSpec => []NothingPassedOver
<1>1. HInv => NothingPassedOver
  <2> SUFFICES ASSUME HInv, place = "save", NEW n \in before \ misled,
                      Cardinality(BasesOf[n]) = 1,
                      n[1] = last[1], Less(config.next, n), ~ Less(last, n)
               PROVE  n \in Elements(revisit) \/ ~ Less(have[TheBase(n)], n)
    BY DEF NothingPassedOver
  <2>1. Dealt(n, revisit, have)
    BY DEF HInv, DealtWith, InRun
  <2> QED BY <2>1 DEF Dealt, WorkedIn
<1> QED BY <1>1, HarvestInvariant, PTL

(* No run goes past two numbers in a row that are not there, unless it     *)
(* finds one by its first digits only (sfs.py:273-287).                    *)
THEOREM GapsWaited == HarvestSpec => []GapsAreWaitedFor
<1>1. HInv => GapsAreWaitedFor
  <2> SUFFICES ASSUME HInv, place = "save",
                      NEW n \in {last[1]} \X (1..last[2]),
                      Less(config.next, n), Less(Succ(n), last),
                      {n, Succ(n)} \cap misled = {}
               PROVE  There(n) \/ There(Succ(n))
    BY DEF GapsAreWaitedFor
  <2>1. config.next \in Pair /\ last \in Pair /\ last \in Nat \X (Nat \ {0})
    BY Types, Numbers DEF HInv, HarvestTypeOK, Number
  <2>2. /\ n \in {last[1]} \X (Nat \ {0}) /\ n \in Pair /\ n # Succ(n)
        /\ Succ(n) \in {last[1]} \X (Nat \ {0}) /\ Succ(n) \in Pair
    BY <2>1 DEF Succ, Pair
  <2>3. /\ Less(n, last) /\ ~ Less(n, config.next)
        /\ ~ Less(Succ(n), config.next)
    <3>1. Less(n, Succ(n)) /\ ~ Less(n, config.next) /\ ~ Less(last, Succ(n))
      BY <2>1, <2>2, Order
    <3>2. Less(n, last)
      BY <2>1, <2>2, <3>1, Order
    <3>3. ~ Less(Succ(n), config.next)
      BY <2>1, <2>2, <3>1, Order
    <3> QED BY <3>1, <3>2, <3>3
  <2>4. {n, Succ(n)} \subseteq Ahead(last, config.next) \ misled
    BY <2>2, <2>3 DEF Ahead
  <2>5. OneMissing(last, config.next, published, misled)
    BY DEF HInv, Gaps, InRun
  <2>6. Found(n, published) \/ Found(Succ(n), published)
    BY <2>2, <2>4, <2>5 DEF OneMissing
  <2> QED BY <2>6 DEF Found, There
<1> QED BY <1>1, HarvestInvariant, PTL
=============================================================================
