----------------------------- MODULE Composite ------------------------------
(***************************************************************************)
(* One document in a composite repository (compositerepository.py): the    *)
(* subrepositories that may have it, parsing with the first of them that   *)
(* succeeds, the links to the files of that one, the entry file that is    *)
(* read and written through one of the links, and the triples of the       *)
(* document.  Every file operation is a step of its own, and the process   *)
(* may die between any two of them.                                        *)
(*                                                                         *)
(* Files are told apart by their times.  0 is no file; a distilled file    *)
(* has the time of the parsed file it was made from.                       *)
(***************************************************************************)
EXTENDS Integers

CONSTANTS
  N,           \* the number of subrepositories, the preferred one first
  MaxClock,    \* bound: changes of a file's time
  MaxCrashes   \* bound: times the process dies

ASSUME CompositeAssumption ==
  /\ N \in Nat \ {0}
  /\ MaxClock \in Nat /\ MaxCrashes \in Nat

Sub == 1..N
ForceOption == {"no", "parseforce", "force"}
Time == 0..MaxClock
Linked == {"entry", "distilled", "parsed"}

(* Where the process is: done with the last command, trying the            *)
(* subrepository cur, between its parsed and its distilled file, before    *)
(* copy_parsed, before os.unlink or os.symlink of file, before loading the *)
(* entry of the composite store, before opening an entry file for writing, *)
(* before writing it, before loading the triples.                          *)
Place == {"idle", "try", "distil", "copy", "unlink", "symlink", "load",
          "truncate", "write", "triples"}

VARIABLES
  clock,
  down,       \* downloaded_path of each subrepository
  parsed,     \* parsed_path of each subrepository
  distilled,  \* distilled_path of each subrepository
  entry,      \* documententry_path; that of 0 is not a link but the
              \* composite store's own file
  link,       \* the subrepository that each path of the composite store
              \* leads to; 0: no link
  store,      \* the distilled files whose triples were added: [sub, time]
  pc,
  cur,        \* the subrepository that is tried
  forced,     \* the option the parse was started with
  file,       \* the file that is being linked
  saving,     \* the entry being saved: [to, indexed, then]
  crashes,
  torn,       \* history: a parse was cut short before all links were made
  parses      \* history: whether each subrepository could parse what it
              \* tried last

sources == <<down, parsed, distilled>>
process == <<pc, cur, forced, file, saving>>
history == <<crashes, torn, parses>>
vars == <<clock, sources, entry, link, store, process, history>>

Absent == [size |-> "none", indexed |-> 0]
Unsaved == [to |-> 0, indexed |-> 0, then |-> "idle"]

Init ==
  /\ clock = 0
  /\ down = [r \in Sub |-> 0]
  /\ parsed = [r \in Sub |-> 0]
  /\ distilled = [r \in Sub |-> 0]
  /\ entry = [r \in 0..N |-> Absent]
  /\ link = [f \in Linked |-> 0]
  /\ store = {}
  /\ pc = "idle"
  /\ cur = 1
  /\ forced = "no"
  /\ file = "entry"
  /\ saving = Unsaved
  /\ crashes = 0
  /\ torn = FALSE
  /\ parses = [r \in Sub |-> FALSE]

Tick == clock < MaxClock /\ clock' = clock + 1
Goto(place) == pc' = place

(* The command has ended, or the process has: nothing is remembered. *)
GoIdle ==
  /\ pc' = "idle" /\ cur' = 1 /\ forced' = "no" /\ file' = "entry"
  /\ saving' = Unsaved

-----------------------------------------------------------------------------
(* What is read from the disk. *)

(* store.needed(basefile, "parse") of a subrepository. *)
SubNeeded(r) == parsed[r] = 0 \/ down[r] > parsed[r]

(* The file that a path of the composite store leads to, 0 if none. *)
Through(f, times) == IF link[f] = 0 THEN 0 ELSE times[link[f]]
ParsedTime == Through("parsed", parsed)
DistilledTime == Through("distilled", distilled)

(* indexed_ts of DocumentEntry(path): a missing or empty file gives a new  *)
(* entry.                                                                  *)
Indexed(e) == IF entry[e].size = "full" THEN entry[e].indexed ELSE 0

(* Mutant: what has been related once is never related again. *)
RelateNeededOnce == DistilledTime # 0 /\ Indexed(link["entry"]) = 0

(* store.needed(basefile, "relate").triples of the composite store.        *)
RelateNeeded ==
  /\ DistilledTime # 0
  /\ Indexed(link["entry"]) = 0 \/ DistilledTime > Indexed(link["entry"])

-----------------------------------------------------------------------------
(* Downloading and removing. *)

Download(r) ==
  /\ pc = "idle"
  /\ Tick
  /\ down' = [down EXCEPT ![r] = clock']
  /\ UNCHANGED <<parsed, distilled, entry, link, store, process, history>>

(* The files of the subrepositories are removed first; links that lead     *)
(* nowhere then do not exist for the composite store, and stay.            *)
Remove ==
  /\ pc = "idle"
  /\ \E r \in Sub : down[r] # 0
  /\ down' = [r \in Sub |-> 0]
  /\ parsed' = [r \in Sub |-> 0]
  /\ distilled' = [r \in Sub |-> 0]
  /\ entry' = [e \in 0..N |-> Absent]
  /\ UNCHANGED <<clock, link, store, process, history>>

-----------------------------------------------------------------------------
(* CompositeRepository.parse. *)

(* Some subrepository has nothing to parse, and there is a parsed file.    *)
UpToDate == ParsedTime # 0 /\ \E r \in Sub : ~ SubNeeded(r)

StartParse(force) ==
  /\ pc = "idle"
  /\ \E r \in Sub : down[r] # 0
  /\ Goto(IF force = "no" /\ UpToDate THEN "load" ELSE "try")
  /\ forced' = force
  /\ UNCHANGED <<clock, sources, entry, link, store, cur, file, saving,
                 history>>

(* get_preferred_instances leaves out those without the document. *)
NotPreferred ==
  /\ pc = "try"
  /\ cur \in Sub /\ down[cur] = 0
  /\ cur' = cur + 1
  /\ UNCHANGED <<clock, sources, entry, link, store, pc, forced, file, saving,
                 history>>

(* inst.parse returns True without doing anything. *)
SubSkips ==
  /\ pc = "try"
  /\ cur \in Sub /\ down[cur] # 0
  /\ forced = "no" /\ ~ SubNeeded(cur)
  /\ Goto("copy")
  /\ UNCHANGED <<clock, sources, entry, link, store, cur, forced, file, saving,
                 history>>

SubStarts ==
  /\ pc = "try"
  /\ cur \in Sub /\ down[cur] # 0
  /\ forced # "no" \/ SubNeeded(cur)
  /\ parses' = [parses EXCEPT ![cur] = FALSE]
  /\ UNCHANGED <<down, distilled, entry, link, store, forced, file, crashes,
                 torn>>

(* updateentry of the subrepository saves the entry in any case; after a   *)
(* failure the next subrepository is tried.                                *)
SubSaves(then) ==
  /\ Goto("truncate")
  /\ saving' = [to |-> cur, indexed |-> Indexed(cur), then |-> then]
  /\ cur' = IF then = "try" THEN cur + 1 ELSE cur

SubFails ==
  /\ SubStarts
  /\ SubSaves("try")
  /\ UNCHANGED <<clock, parsed>>

SubParses ==
  /\ SubStarts
  /\ Tick
  /\ parsed' = [parsed EXCEPT ![cur] = clock']
  /\ Goto("distil")
  /\ UNCHANGED <<cur, saving>>

(* The metadata is written after the text, if it can be extracted. *)
SubDistils ==
  /\ pc = "distil"
  /\ distilled' = [distilled EXCEPT ![cur] = parsed[cur]]
  /\ SubSaves("copy")
  /\ parses' = [parses EXCEPT ![cur] = TRUE]
  /\ UNCHANGED <<clock, down, parsed, entry, link, store, forced, file, crashes,
                 torn>>

SubFailsLate ==
  /\ pc = "distil"
  /\ SubSaves("try")
  /\ UNCHANGED <<clock, sources, entry, link, store, forced, file, history>>

(* No subrepository could parse the document: ParseError. *)
NoneLeft ==
  /\ pc = "try"
  /\ cur > N
  /\ Goto("load")
  /\ UNCHANGED <<clock, sources, entry, link, store, cur, forced, file, saving,
                 history>>

-----------------------------------------------------------------------------
(* copy_parsed. *)

(* Mutant: any existing links are taken for recent. *)
LinksExist == forced # "force" /\ DistilledTime # 0 /\ ParsedTime # 0

(* Both files of the composite store are not older than those of the       *)
(* subrepository; unlike the parse, this asks for config.force only.       *)
LinksRecent ==
  /\ forced # "force"
  /\ DistilledTime # 0 /\ DistilledTime >= distilled[cur]
  /\ ParsedTime # 0 /\ ParsedTime >= parsed[cur]

CopyParsed ==
  /\ pc = "copy"
  /\ Goto(IF LinksRecent THEN "load" ELSE "unlink")
  /\ file' = "entry"
  /\ UNCHANGED <<clock, sources, entry, link, store, cur, forced, saving,
                 history>>

(* link_or_copy: the old link, or the composite store's own entry, goes.   *)
Unlink ==
  /\ pc = "unlink"
  /\ link' = [link EXCEPT ![file] = 0]
  /\ entry' = IF file = "entry" THEN [entry EXCEPT ![0] = Absent] ELSE entry
  /\ Goto("symlink")
  /\ UNCHANGED <<clock, sources, store, cur, forced, file, saving, history>>

(* Mutant: the distilled file is not linked. *)
NextFileSkipping(f) == IF f = "entry" THEN "parsed" ELSE "none"

NextFile(f) ==
  CASE f = "entry" -> "distilled"
    [] f = "distilled" -> "parsed"
    [] f = "parsed" -> "none"

Symlink ==
  /\ pc = "symlink"
  /\ link' = [link EXCEPT ![file] = cur]
  /\ IF NextFile(file) = "none"
     THEN Goto("load") /\ file' = file
     ELSE Goto("unlink") /\ file' = NextFile(file)
  /\ UNCHANGED <<clock, sources, entry, store, cur, forced, saving, history>>

-----------------------------------------------------------------------------
(* Entry files. *)

(* updateentry of the composite repository loads the entry, whatever       *)
(* parse or relate did, and saves it.                                      *)
LoadEntry ==
  /\ pc = "load"
  /\ saving' = [to |-> link["entry"], indexed |-> Indexed(link["entry"]),
                then |-> "idle"]
  /\ Goto("truncate")
  /\ UNCHANGED <<clock, sources, entry, link, store, cur, forced, file,
                 history>>

(* open(path, "w") *)
Truncate ==
  /\ pc = "truncate"
  /\ entry' = [entry EXCEPT ![saving.to] = [size |-> "empty", indexed |-> 0]]
  /\ Goto("write")
  /\ UNCHANGED <<clock, sources, link, store, cur, forced, file, saving,
                 history>>

Write ==
  /\ pc = "write"
  /\ entry' = [entry EXCEPT ![saving.to] =
                 [size |-> "full", indexed |-> saving.indexed]]
  /\ IF saving.then = "idle" THEN GoIdle
     ELSE /\ Goto(saving.then)
          /\ saving' = Unsaved
          /\ UNCHANGED <<cur, forced, file>>
  /\ UNCHANGED <<clock, sources, link, store, history>>

-----------------------------------------------------------------------------
(* relate of the composite repository. *)

StartRelate ==
  /\ pc = "idle"
  /\ RelateNeeded
  /\ Goto("triples")
  /\ UNCHANGED <<clock, sources, entry, link, store, cur, forced, file, saving,
                 history>>

(* The triples of the document are added, and those of its earlier         *)
(* metadata stay: removesubjects is not used.  indexed_ts is saved and     *)
(* then updateentry loads and saves the entry once more.                   *)
RelateTriples ==
  /\ pc = "triples"
  /\ Tick
  /\ store' = store \cup {[sub |-> link["distilled"], time |-> DistilledTime]}
  /\ saving' = [to |-> link["entry"], indexed |-> clock', then |-> "load"]
  /\ Goto("truncate")
  /\ UNCHANGED <<sources, entry, link, cur, forced, file, history>>

-----------------------------------------------------------------------------
(* parse has not come to the end of copy_parsed. *)
Unlinked ==
  \/ pc \in {"try", "distil", "copy", "unlink", "symlink"}
  \/ pc \in {"truncate", "write"} /\ saving.then \in {"try", "copy"}

Crash ==
  /\ pc # "idle"
  /\ crashes < MaxCrashes
  /\ crashes' = crashes + 1
  /\ torn' = (torn \/ Unlinked)
  /\ GoIdle
  /\ UNCHANGED <<clock, sources, entry, link, store, parses>>

Parse ==
  \/ \E force \in ForceOption : StartParse(force)
  \/ NotPreferred \/ SubSkips \/ SubFails \/ SubParses \/ SubDistils
  \/ SubFailsLate \/ NoneLeft \/ CopyParsed \/ Unlink \/ Symlink
Relate == StartRelate \/ RelateTriples
SaveEntry == LoadEntry \/ Truncate \/ Write

Next ==
  \/ \E r \in Sub : Download(r)
  \/ Remove
  \/ Parse \/ Relate \/ SaveEntry
  \/ Crash

Spec == Init /\ [][Next]_vars

-----------------------------------------------------------------------------
(* The types of the variables. *)
TypeOK ==
  /\ clock \in Time
  /\ down \in [Sub -> Time]
  /\ parsed \in [Sub -> Time]
  /\ distilled \in [Sub -> Time]
  /\ entry \in [0..N -> [size : {"none", "empty", "full"}, indexed : Time]]
  /\ link \in [Linked -> 0..N]
  /\ store \subseteq [sub : 0..N, time : Time]
  /\ pc \in Place
  /\ cur \in 1..(N + 1)
  /\ forced \in ForceOption
  /\ file \in Linked
  /\ saving \in [to : 0..N, indexed : Time,
                 then : {"idle", "try", "copy", "load"}]
  /\ crashes \in 0..MaxCrashes
  /\ torn \in BOOLEAN
  /\ parses \in [Sub -> BOOLEAN]

Idle == pc = "idle"

(* Unless a parse was cut short, the text, the metadata and the entry of   *)
(* the composite store are those of one subrepository.                     *)
LinkedTogether ==
  Idle /\ ~ torn =>
    link["entry"] = link["distilled"] /\ link["distilled"] = link["parsed"]

(* The last parse of the subrepository succeeded and is not outdated. *)
Complete(r) == ~ SubNeeded(r) /\ parses[r]

(* Unless a parse was cut short, no subrepository that is preferred to the *)
(* linked one has parsed what it last downloaded: a document that the      *)
(* preferred one has parsed is never served by another.                    *)
BestParsedLinked ==
  Idle /\ ~ torn /\ link["parsed"] # 0 =>
    \A r \in 1..(link["parsed"] - 1) : ~ Complete(r)

(* When there is nothing to relate the triples of the metadata that is     *)
(* linked have been added, although the time of the last relate is kept in *)
(* the entry of a subrepository, the link may lead to another one by now,  *)
(* and the process may die in relate or while any entry is saved; only a   *)
(* parse that was cut short can put the time of one file next to another.  *)
LinkedTriplesAdded ==
  Idle /\ ~ torn /\ DistilledTime # 0 /\ ~ RelateNeeded =>
    [sub |-> link["distilled"], time |-> DistilledTime] \in store
=============================================================================
