------------------------------ MODULE Pipeline ------------------------------
(***************************************************************************)
(* What the build steps of one repository make of one another's files, as  *)
(* `ferenda-build.py <alias> all` runs them: download, parse, relate and   *)
(* generate over every document (manager.py, run; documentrepository.py;   *)
(* documentstore.py, needed; decorators.py, ifneeded and render).  Whether *)
(* a step is run for a document is decided by comparing file times, so the *)
(* model keeps the time of every file.  A document refers to others; the   *)
(* page generated for a document lists the documents that refer to it, as  *)
(* the triple store knows them.  Steps fail half way.  A downloaded file's *)
(* time is the time of the download (the server sends no Last-Modified;    *)
(* Download.tla has the case where it does).                               *)
(***************************************************************************)
EXTENDS Naturals, FiniteSets

CONSTANTS
  Doc,          \* basefiles
  MaxContent,   \* a document's contents are numbered from 1
  Refs,         \* Refs[d][c]: the documents that content c of d refers to
  Archive,      \* download_archive: a new content moves the old files away
  MaxTime,      \* bound on the clock
  MaxFailures   \* bound on the number of failing steps

Contents == 1..MaxContent

ASSUME RefsAssumption ==
  /\ Refs \in [Doc -> [Contents -> SUBSET Doc]]
  /\ \A d \in Doc, c \in Contents : d \notin Refs[d][c]
ASSUME BoundAssumption ==
  /\ MaxContent \in Nat /\ MaxTime \in Nat /\ MaxFailures \in Nat
  /\ Archive \in BOOLEAN

(* A file made from a content; content 0: there is no such file. *)
File == [content : 0..MaxContent, mtime : Nat]
NoFile == [content |-> 0, mtime |-> 0]
Exists(f) == f.content # 0

(* A dependency or annotation file lists documents, and a page shows them. *)
List == [refs : SUBSET Doc, mtime : Nat]
Page == [content : 0..MaxContent, refs : SUBSET Doc, mtime : Nat]
NoList == [refs |-> {}, mtime |-> 0]
NoPage == [content |-> 0, refs |-> {}, mtime |-> 0]

VARIABLES
  clock,
  down,       \* downloaded files
  parsed,     \* XHTML files
  distilled,  \* RDF/XML files
  indexed,    \* indexed_ft, indexed_dep and indexed_ts of the entry; 0: None
  deps,       \* dependency files: [refs, mtime], the parsed files listed
  loaded,     \* triple store: the contents of each document loaded into it
  dump,       \* time of distilled/dump.nt, 0 if there is none
  annot,      \* annotation files: [refs, mtime]
  page,       \* generated files: [content, refs, mtime]
  phase,      \* the step being run
  todo,       \* the documents the step still has to be run for
  failures,   \* number of failures so far ...
  failed,     \* history: ... and whether there was one in this pass
  skipped     \* history: relate_all_setup said "nothing to do" in this pass

files == <<down, parsed, distilled, indexed, deps, loaded, dump, annot, page>>
vars == <<clock, down, parsed, distilled, indexed, deps, loaded, dump, annot,
          page, phase, todo, failures, failed, skipped>>

Init ==
  /\ clock = 0
  /\ down = [d \in Doc |-> NoFile]
  /\ parsed = [d \in Doc |-> NoFile]
  /\ distilled = [d \in Doc |-> NoFile]
  /\ indexed = [d \in Doc |-> 0]
  /\ deps = [d \in Doc |-> NoList]
  /\ loaded = [d \in Doc |-> {}]
  /\ dump = 0
  /\ annot = [d \in Doc |-> NoList]
  /\ page = [d \in Doc |-> NoPage]
  /\ phase = "download"
  /\ todo = {}
  /\ failures = 0
  /\ failed = FALSE
  /\ skipped = FALSE

-----------------------------------------------------------------------------
(* Moving from step to step. *)

Now == clock + 1

(* An action that writes files, at a time of its own. *)
Tick == clock < MaxTime /\ clock' = clock + 1

Go(p, docs) == phase' = p /\ todo' = docs

StartParse ==
  /\ phase = "download"
  /\ Go("parse", {d \in Doc : Exists(down[d])})
  /\ UNCHANGED <<clock, files, failures, failed, skipped>>

StartRelateSetup ==
  /\ phase = "parse"
  /\ todo = {}
  /\ Go("relatesetup", {})
  /\ UNCHANGED <<clock, files, failures, failed, skipped>>

(* relate_all_setup: dump.nt is newer than every distilled file. *)
DumpIsNewer ==
  dump # 0 /\ \A d \in Doc : Exists(parsed[d]) => distilled[d].mtime <= dump

(* Mutant: the documents with a distilled file. *)
ToGenerateDistilled == Go("generate", {d \in Doc : Exists(distilled[d])})

(* generate --all: the documents with a parsed file. *)
ToGenerate == Go("generate", {d \in Doc : Exists(parsed[d])})

RelateSetup ==
  /\ phase = "relatesetup"
  /\ IF DumpIsNewer
       THEN ToGenerate /\ skipped' = TRUE
       ELSE Go("relate", {d \in Doc : Exists(distilled[d])}) /\ UNCHANGED skipped
  /\ UNCHANGED <<clock, files, failures, failed>>

(* relate_all_teardown writes dump.nt, however the relating went. *)
RelateTeardown ==
  /\ phase = "relate"
  /\ todo = {}
  /\ Tick
  /\ dump' = Now
  /\ ToGenerate
  /\ UNCHANGED <<down, parsed, distilled, indexed, deps, loaded, annot, page,
                 failures, failed, skipped>>

EndPass ==
  /\ phase = "generate"
  /\ todo = {}
  /\ Go("done", {})
  /\ UNCHANGED <<clock, files, failures, failed, skipped>>

NextPass ==
  /\ phase = "done"
  /\ Go("download", {})
  /\ failed' = FALSE
  /\ skipped' = FALSE
  /\ UNCHANGED <<clock, files, failures>>

Fails ==
  /\ failures < MaxFailures
  /\ failures' = failures + 1
  /\ failed' = TRUE

-----------------------------------------------------------------------------
(* download *)

(* New content is put in place; with download_archive, store.archive has   *)
(* moved the old entry, parsed, distilled, annotation and generated files  *)
(* away, but not the dependency file.                                      *)
Download(d) ==
  LET Reset(f, none) == IF Archive /\ Exists(down[d]) THEN [f EXCEPT ![d] = none] ELSE f
  IN
  /\ phase = "download"
  /\ Tick
  /\ \E c \in Contents : c > down[d].content
       /\ down' = [down EXCEPT ![d] = [content |-> c, mtime |-> Now]]
  /\ parsed' = Reset(parsed, NoFile)
  /\ distilled' = Reset(distilled, NoFile)
  /\ indexed' = Reset(indexed, 0)
  /\ annot' = Reset(annot, NoList)
  /\ page' = Reset(page, NoPage)
  /\ UNCHANGED <<deps, loaded, dump, phase, todo, failures, failed, skipped>>

-----------------------------------------------------------------------------
(* parse *)

(* store.needed(basefile, "parse") *)
ParseNeeded(d) == ~Exists(parsed[d]) \/ down[d].mtime > parsed[d].mtime

(* render: the XHTML file is written, and then the RDF/XML file. *)
Parse(d) ==
  /\ phase = "parse" /\ d \in todo
  /\ ParseNeeded(d)
  /\ Tick
  /\ parsed' = [parsed EXCEPT ![d] = [content |-> down[d].content, mtime |-> Now]]
  /\ distilled' = [distilled EXCEPT ![d] = [content |-> down[d].content, mtime |-> Now]]
  /\ todo' = todo \ {d}
  /\ UNCHANGED <<down, indexed, deps, loaded, dump, annot, page, phase,
                 failures, failed, skipped>>

(* An exception before anything is written, or between the two files. *)
ParseFails(d) ==
  /\ phase = "parse" /\ d \in todo
  /\ ParseNeeded(d)
  /\ Tick
  /\ Fails
  /\ \/ UNCHANGED parsed
     \/ parsed' = [parsed EXCEPT ![d] = [content |-> down[d].content, mtime |-> Now]]
  /\ todo' = todo \ {d}
  /\ UNCHANGED <<down, distilled, indexed, deps, loaded, dump, annot, page,
                 phase, skipped>>

-----------------------------------------------------------------------------
(* relate *)

(* Mutant: what is not in the dump is related. *)
NewerThanDump(d) == distilled[d].mtime > dump

(* RelateNeeded: any of the three; each is False if its file is missing. *)
RelateNeeded(d) ==
  \/ Exists(parsed[d]) /\ parsed[d].mtime > indexed[d]
  \/ distilled[d].mtime > indexed[d]
  \/ deps[d].mtime > indexed[d]

(* relate_dependencies: add_dependency for each document referred to. *)
DepsAfter(d) ==
  [e \in Doc |->
     IF e \in Refs[d][distilled[d].content] /\ d \notin deps[e].refs
       THEN [refs |-> deps[e].refs \cup {d}, mtime |-> Now]
       ELSE deps[e]]

(* First the dependencies, then the triples, then the entry. *)
Relate(d) ==
  /\ phase = "relate" /\ d \in todo
  /\ RelateNeeded(d)
  /\ Tick
  /\ deps' = DepsAfter(d)
  /\ loaded' = [loaded EXCEPT ![d] = @ \cup {distilled[d].content}]
  /\ indexed' = [indexed EXCEPT ![d] = Now]
  /\ todo' = todo \ {d}
  /\ UNCHANGED <<down, parsed, distilled, dump, annot, page, phase, failures,
                 failed, skipped>>

(* Mutant: the triples first, then the dependencies. *)
RelateFailsTriplesFirst(d) ==
  /\ phase = "relate" /\ d \in todo
  /\ RelateNeeded(d)
  /\ Tick
  /\ Fails
  /\ loaded' = [loaded EXCEPT ![d] = @ \cup {distilled[d].content}]
  /\ todo' = todo \ {d}
  /\ UNCHANGED <<down, parsed, distilled, indexed, deps, dump, annot, page,
                 phase, skipped>>

(* An exception before, between, or after the two (the entry is not saved). *)
RelateFails(d) ==
  /\ phase = "relate" /\ d \in todo
  /\ RelateNeeded(d)
  /\ Tick
  /\ Fails
  /\ \/ UNCHANGED <<deps, loaded>>
     \/ deps' = DepsAfter(d) /\ UNCHANGED loaded
     \/ deps' = DepsAfter(d) /\ loaded' = [loaded EXCEPT ![d] = @ \cup {distilled[d].content}]
  /\ todo' = todo \ {d}
  /\ UNCHANGED <<down, parsed, distilled, indexed, dump, annot, page, phase,
                 skipped>>

(* The command is cut short (TimeoutError out of the worker pool): the     *)
(* remaining documents are not related, and there is no teardown.          *)
RelateAborted ==
  /\ phase = "relate"
  /\ Fails
  /\ ToGenerate
  /\ UNCHANGED <<clock, files, skipped>>

-----------------------------------------------------------------------------
(* generate *)

DepsOnDisk(d) == {e \in deps[d].refs : Exists(parsed[e])}

(* Mutant: the dependencies are not looked at. *)
GenerateNeededForItself(d) ==
  parsed[d].mtime > page[d].mtime \/ annot[d].mtime > page[d].mtime

GenerateNeeded(d) ==
  \/ page[d].content = 0
  \/ parsed[d].mtime > page[d].mtime
  \/ annot[d].mtime > page[d].mtime
  \/ \E e \in DepsOnDisk(d) : parsed[e].mtime > page[d].mtime

(* The documents that refer to d, as the triple store has it: nothing is   *)
(* ever taken out of it.                                                   *)
Referrers(d) == {e \in Doc : \E c \in loaded[e] : d \in Refs[e][c]}

(* The annotation file is made anew unless it is newer than all parsed     *)
(* files listed as dependencies; it is not written if there is nothing to  *)
(* write.                                                                  *)
AnnotAfter(d) ==
  IF /\ annot[d].mtime = 0 \/ \E e \in DepsOnDisk(d) : parsed[e].mtime > annot[d].mtime
     /\ Referrers(d) # {}
    THEN [refs |-> Referrers(d), mtime |-> Now]
    ELSE annot[d]

Generate(d) ==
  /\ phase = "generate" /\ d \in todo
  /\ GenerateNeeded(d)
  /\ Tick
  /\ annot' = [annot EXCEPT ![d] = AnnotAfter(d)]
  /\ page' = [page EXCEPT ![d] = [content |-> parsed[d].content,
                                  refs |-> AnnotAfter(d).refs, mtime |-> Now]]
  /\ todo' = todo \ {d}
  /\ UNCHANGED <<down, parsed, distilled, indexed, deps, loaded, dump, phase,
                 failures, failed, skipped>>

(* The transformation fails, after the annotation file was made. *)
GenerateFails(d) ==
  /\ phase = "generate" /\ d \in todo
  /\ GenerateNeeded(d)
  /\ Tick
  /\ Fails
  /\ annot' = [annot EXCEPT ![d] = AnnotAfter(d)]
  /\ todo' = todo \ {d}
  /\ UNCHANGED <<down, parsed, distilled, indexed, deps, loaded, dump, page,
                 phase, skipped>>

-----------------------------------------------------------------------------
(* ifneeded: "skipped". *)
Skip(d) ==
  /\ d \in todo
  /\ \/ phase = "parse" /\ ~ParseNeeded(d)
     \/ phase = "relate" /\ ~RelateNeeded(d)
     \/ phase = "generate" /\ ~GenerateNeeded(d)
  /\ todo' = todo \ {d}
  /\ UNCHANGED <<clock, files, phase, failures, failed, skipped>>

Next ==
  \/ StartParse \/ StartRelateSetup \/ RelateSetup \/ RelateTeardown
  \/ EndPass \/ NextPass \/ RelateAborted
  \/ \E d \in Doc :
       \/ Download(d) \/ Parse(d) \/ ParseFails(d) \/ Relate(d)
       \/ RelateFails(d) \/ Generate(d) \/ GenerateFails(d) \/ Skip(d)

Spec == Init /\ [][Next]_vars

-----------------------------------------------------------------------------
(* The types of the variables. *)
TypeOK ==
  /\ clock \in Nat
  /\ down \in [Doc -> File]
  /\ parsed \in [Doc -> File] /\ distilled \in [Doc -> File]
  /\ indexed \in [Doc -> Nat]
  /\ deps \in [Doc -> List] /\ annot \in [Doc -> List]
  /\ loaded \in [Doc -> SUBSET Contents]
  /\ dump \in Nat
  /\ page \in [Doc -> Page]
  /\ phase \in {"download", "parse", "relatesetup", "relate", "generate", "done"}
  /\ todo \subseteq Doc
  /\ failures \in Nat
  /\ failed \in BOOLEAN /\ skipped \in BOOLEAN

(* The documents whose current content refers to d. *)
TrueReferrers(d) == {e \in Doc : Exists(down[e]) /\ d \in Refs[e][down[e].content]}

(* If no step ever failed, then after each pass every page shows the       *)
(* current content of its document and lists every document that refers to *)
(* it, although no step compares anything but file times.                  *)
FreshAfterCleanBuild ==
  phase = "done" /\ failures = 0 =>
    \A d \in Doc : Exists(down[d]) =>
      /\ page[d].content = down[d].content
      /\ TrueReferrers(d) \subseteq page[d].refs

(* Whatever failed in earlier passes, a pass without failure leaves every  *)
(* page with its document's own current content.                           *)
OwnContentHeals ==
  phase = "done" /\ ~failed =>
    \A d \in Doc : page[d].content = down[d].content

(* A document the triple store knows to refer to d is in d's dependency    *)
(* file, so that its next version will make d's page needed again.         *)
DepsCoverTriples == \A d \in Doc : Referrers(d) \subseteq deps[d].refs

(* Whatever failed in earlier passes, after a pass without failure in      *)
(* which relating was not skipped every distilled file is in the store.    *)
RelateHeals ==
  phase = "done" /\ ~failed /\ ~skipped =>
    \A d \in Doc : Exists(distilled[d]) => distilled[d].content \in loaded[d]

=============================================================================
