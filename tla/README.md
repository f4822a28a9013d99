# TLA+ models of Ferenda

Ferenda (`src/ferenda/`) downloads collections of documents, parses them into
XHTML with RDFa, loads their metadata into a triple store, and generates static
HTML pages and feeds.  A *document repository* is a class with one method per
build step; `ferenda-build.py` (`manager.py`) runs these steps over all
documents, one by one, in a local pool of processes, or on any number of machines
through a queue server.

These modules state what that machinery promises, check it with TLC on small
instances, and prove the most important part with TLAPS for all instances.

## 1. The system and its parts

| Part | Source | State | Operations | Modelled by |
|---|---|---|---|---|
| command runner | `manager.py` `run`, `_run_class`, `_run_class_with_basefile` | the shared `kwargs`, results | run a list of commands; run one command over (basefile, version) pairs | `SerialRun`, `CommandRun`; order of steps in `Pipeline` |
| distributed build queue | `manager.py` `_queue_jobs`, `_build_worker`, `runbuildclient`, `runbuildqueue` | job queue, result queue, `processing`, an alarm, what workers hold | put jobs, take, run, put results, receive, give up, die, join, leave | `BuildQueue` |
| local worker pool | `manager.py` `_parallelizejobs`, `_process_resultqueue` | two queues, the list of processes, results by basefile, an alarm | put, replace dead processes, get, time out, terminate | `WorkerPool`, `CommandRun` |
| downloading one document | `documentrepository.py` `download_single`, `download_if_needed`; `documentstore.py` `archive`, `remove`; `util.py` `robust_rename` | the downloaded file, its time, its `.etag` file, the parsed file, the archive | conditional GET, compare, archive, unlink, move, set time, write etag, parse, remove, crash | `Download` |
| build pipeline | `documentstore.py` `needed`, `list_basefiles_for`; `decorators.py` `ifneeded`, `render`; `documentrepository.py` `relate*`, `generate` | file times, dependency files, indexed times of entries, triples, `dump.nt` | download, parse, relate, generate, their set-ups and teardowns, and their failures | `Pipeline` |
| document entries | `documententry.py` | one JSON file per document | load, truncate, write, `updateentry` | `indexed_*` in `Pipeline`; loading and saving through a link, with crashes, in `Composite` |
| triple store | `triplestore.py` | triples by context | add, clear, query | only adding and finding referrers (in `Pipeline`) |
| composite repositories | `compositerepository.py` | files of the subrepositories, three links, an entry | parse with the first that succeeds, link, remove, relate | `Composite` |
| finite state parser | `fsmparser.py` | stack of states, look-ahead, recursion of constructors | parse, recognize, transition, make children | `FSMParser` |
| grammars of particular sources | `get_parser` of `rfc.py`, `w3c.py`, `jo.py`, `jk.py`, `direktiv.py`, `dv.py`, `myndfskr.py`, `offtryck.py` | what recognizers remember | tables, recognizers, constructors | `Grammars`, `LegalGrammars` |
| statute parser | `sources/legal/se/sfs_parser.py`; `sfs.py` `construct_id`, `set_skipfragments`, `postprocess_doc` | part, chapter and section last seen, the last line of a table of contents, level of headings; URIs given | recognize, make and end elements; name them; move transitional provisions | `Statute` |
| harvest of the code of statutes | `sources/legal/se/sfs.py` `download*`, `util.py` `robust_fetch` | two configuration entries, downloaded texts | look up a number, fetch, revisit, save | `Harvest` |
| news, facets, tables of contents | `feed.py`, `facet.py`, `tocpage*.py` | feed files | split, archive, sort | no |
| fulltext index | `fulltextindex.py` | an index | client code of two search engines | no: I/O and query building |
| web application | `wsgiapp.py`, `requesthandler.py` | none of its own | dispatch, render | no: one request, no shared state |
| readers, citations, URIs, elements, resources, transformations | `textreader.py`, `pdf*.py`, `citation*.py`, `uri*.py`, `elements/`, `resources.py`, `transformer.py` | files | conversion | no: data conversion by grammars, XSLT and external programs |
| other repositories | the rest of `sources/`, `src/lagen/` | — | scraping of particular sites | no |

How they interact: `run` goes through a list of (action, class) pairs; for each it
calls `setup`, then the step for every basefile (serial loop, `WorkerPool` or
`BuildQueue`), then `teardown`.  The steps talk to each other only through files,
file times and the triple store (`Pipeline`), and the download step replaces files
under the others (`Download`).  A composite repository is a repository over others:
its steps call theirs, and its files are links to theirs (`Composite`).  Parsing a text
document is a `FSMParser` with the recognizers and the table of its repository
(`Grammars`, `LegalGrammars`), except for the statutes, which have a recursive parser of
their own (`Statute`).  `Harvest` decides which statutes are downloaded at all.

What is hard in it:

* **Build queue**: both queues outlive a command, and a result says which repository
  and document it is for but not which command; the first `get()` has no timeout;
  the alarm may go off with workers still busy, and a `get()` that was cut short
  goes on at the queue server.  What makes it right: no job is run twice and no result
  kept twice, a clean command has all its results, whoever is waited for is still to
  come or was lost, and the build ends if nothing dies.
* **Worker pool**: processes die with a job, between jobs, or holding the queue's
  lock; results may be impossible to pickle or unpickle.  Right: nothing but what
  was lost is missing; each place of the returned list has its own result; an
  armed command ends.
* **Serial loop**: one dict of arguments for all jobs, with the version of one job
  left behind for the next.
* **Download**: a crash between any two file operations; a move that fails and is not
  told; file times that lie in the past; `.etag` files outliving their file.  Right: no
  content is ever lost; what "unchanged" means; needed parses are not masked; the files of
  an archived version belong together.
* **Pipeline**: everything is decided by comparing file times; a page depends on
  other documents; steps fail half way.  Right: pages are fresh after a clean
  build, and later builds repair what a failure left.
* **Composite repository**: links are replaced one after the other; the time of the last
  relate is kept in a file that is reached through one of them.  Right: the links lead
  to one subrepository, the best that could parse; the triples of the linked metadata are
  in the store when there is nothing to relate.
* **Finite state parser**: every level of the recursion reads from one look-ahead, and
  takes a StopIteration for its end; constructors read chunks on their own; a table
  must have an entry for everything that may come.  Right: every chunk is in the tree
  once; the parser never stops early, never meets a hole, and ends.
* **Statute parser**: whether a line begins a chapter or is one of a table of contents, a
  heading, a row or running text depends on the numbers seen before and on the
  paragraphs after; what ends an element is listed in each function anew.  Right:
  elements nest by rank, every text becomes a document, tables of contents do not split
  chapters, sections in force have URIs of their own, and transitional provisions that
  are moved come back.
* **Harvest**: numbers are published out of order and consolidated late; every request
  may fail in several ways, and the searches do not notice; the process dies between two
  writes.  Right: no number that was there is passed over, gaps are waited for, and what is
  to be looked at again is not forgotten, but for the numbers a search was wrong about.

## 2. Modules

Each name below is a TLA+ definition; `PROJECT.json` gives the lines of the source
each one stands for.  Definitions with a comment `Mutant:` are plausible bugs, used
to show that each property can fail; no specification uses them.

### BuildQueue

The control process is `step` (which command of `run`'s list), `phase` (`setup`,
`put`: the loop that puts jobs; `collect`: the loop that gets results; `over`),
`unput`, `processing` and `alarm` (a SIGALRM pending).  A worker process has the job
it runs in `hand`.  A job is named by its command and its (basefile, version) pair;
the field `step` of a result is history: the code cannot see it, and `Key` is what it
sees.

| Action | Code |
|---|---|
| `NothingToDo`, `SetUp`, `NoJobs`, `Return` | `_run_class`: `setup`, the empty iterable, the end of `_queue_jobs` with `teardown` |
| `PutJob`, `StartCollect` | the loop of `_queue_jobs` that puts jobs |
| `ReceiveValue`, `ReceiveCatastrophe`, `ReceiveInterrupt` | one turn of its second loop: a normal result; the substitute dict, on which `r['alias']` raises KeyError; a wrapped KeyboardInterrupt |
| `GiveUp` | `TimeoutError` from the alarm while `get()` blocks |
| `StrayAlarm` | an alarm left armed by a command that raised goes off in a later command |
| `Take`, `Finish`, `Leave` | `_build_worker` |
| `Die`, `Join` | a client process is killed; a client is started |
| `LoseJob`, `LoseResult` | `multiprocessing.managers` serves a `get()` whose caller is gone (external) |

`GiveUp` requires an empty result queue: the alarm is re-armed by every result, and
900 seconds pass only in a blocked `get()`.

### WorkerPool, SerialRun, CommandRun

`CommandRun` is the abstract specification of "run one command over an iterable":
every job is run before the command returns, or the command raises.  `WorkerPool`
implements it with `pending` the jobs not yet run, `SerialRun` with `pending` the
places of the iterable not yet gone through (which version it has been called with
is another question: `OnlyUnfailedVersionsLeak`, `EachPairRun`).  In `WorkerPool` a job is
its place in the iterable; `res` is stored by basefile as in the code; `jammed` says
that a process died while it held the read lock of the job queue.

### Download

One document, one server.  `pc` goes through `download_if_needed` one file operation
at a time, and `Crash` may happen between any two.  A content stands for itself, its
hash and its ETag.  `kept` is history.  `Dir`, `Archive`, `Copy`, `SendsEtag`,
`SendsDate` are the storage policy, `download_archive`, `download_archive_copy` and
what the server sends.  `Move` is `shutil.move` in `robust_rename`; `MoveFails` is its
IOError, which is swallowed: nothing or a part of the content (`Partial`) is in place, and
the time and the `.etag` file are set all the same, unless setting the time of a missing
file raises.  `Remove`, `RemoveRest` and `RemoveParsed` take away one path after the
other.  `botched` is history: the last move of a new file failed or was cut short, or a
remove was, and no whole download has come since.

### Pipeline

Every file is a content number and an mtime.  `Doc`s refer to each other by `Refs`.
`phase` and `todo` are the loop of `run` over the steps of `all`; within a step the
documents come in any order.  `ParseNeeded`, `RelateNeeded`, `GenerateNeeded` are
`DocumentStore.needed`; `DumpIsNewer` is `relate_all_setup`.  Each step has a failing
variant that stops at every place where the code may raise between two writes.

### Composite

One document in `N` subrepositories, the preferred one first.  Every file is its time.
`link[f]` is the subrepository that the entry, distilled or parsed path of the composite
store leads to; `Through` reads a file through its link.  `pc` goes one file operation
at a time through `parse` (`try`, `distil`), `copy_parsed` (`copy`, `unlink`, `symlink`),
saving an entry (`load`, `truncate`, `write`) and `relate` (`triples`); `Crash` may
happen between any two.  A parse is forced by `force` or by `parseforce`, of which
`copy_parsed` asks for the first only.  `store` only grows: `relate_triples` takes
`removesubjects` and does not use it, and the triples of earlier metadata stay.  `torn` and
`parses` are history.

### FSMParser, Grammars, LegalGrammars

A chunk is the set of the names of what it looks like (`"section"`, `"pagebreak"`, …): a
recognizer says yes if its name is there, with the exceptions its code makes.
`Grammars` and `LegalGrammars` have, for each of eight repositories, the recognizers in
their order, what each one sees (`…Sees`), and the transition table (`…Table`).
Both are lists, as in the code: `…Rows` are the lines of a table, of which the last one for
a state and a recognizer counts, and `Symbol` is the first recognizer in the list that hits.
`FSMParser` is the parser itself: `stack` is `_state_stack`, and the recursion
`make_children` → constructor → `make_children` is a sequence of `frames`, each with the
chunks its element holds.  `Turn` is one turn of the loop in `make_children`: `Symbol` is
`analyze_symbol`, `Transition` the look-up, and each constructor is an action that reads
the chunks it reads and pushes a frame if it makes children.  `StopAhead` is a
StopIteration raised by look-ahead, which every level takes for its own end.  A parse
that fails is tried again with the next of the repository's configurations
(`parse_body`).

### Statute

A paragraph of the text is a chunk: what it looks like to the patterns (`look`), its
number, marks that exceptions in the recognizers ask for (`closed`, `lower`, `long`,
`lines`), and
the directive "Upphör att gälla …" or "Träder i kraft …" in it.  Directives are told
apart by whether they are past.  The mark `toc` is history: no recognizer sees it.  A part's
heading of two or three lines (`lines`) is two chunks, since `makeAvdelning` reads its first
line only.

| Definition | Code |
|---|---|
| `guess_state`, `Recognizers`, `isX` | the recognizers in their order, with the paragraphs they look ahead at; past the end they are given the empty string and look at the current paragraph instead |
| `AfterGuess`, `Remembered` | what the recognizers remember while they are asked: `fake_chapter`, `current_headline_level` |
| `frames`, `Ends`, `Return` | the recursion of the `makeX` functions and the elements at which each one returns |
| `makeX`, `makeLista`, `Listelement`, `Tabellrad` | making an element of the current paragraph, in the element that is open |
| `RubrikSaknas`, wrapped in `Made` | transitional provisions without their heading, or without a number |
| `construct_id`, `Visited`, `set_skipfragments` | the visit that gives URIs; `Continuous` decides which numbers go into them, from the elements `_count_elements` comes to (`Reached`) |
| `postprocess_doc` | taking the first list of provisions out and putting each one back with its act |

The assertion in `makeParagraf` and the IOError in `makeAvdelning` near the end of the
text are guards: the parser stops there, and `ParsesAll` says that it never does on the
texts of the run.  The assertion, `AssertionHolds`, is also a theorem.

### Harvest

A statute number is a pair of a year and an ordinal; a text is the last number that is
worked into it.  `place` goes through `download` and `download_new`: the two searches of
`_check_for_sfs` (`BaseActFound`, `NoBaseAct`; `ChangeActFound`, `InteExisterande`,
`RevisitedIsMissing`), then document, metadata and register page with
`robust_fetch` (`ConnectionLost`, `Responds`, `FetchFails`, `NotAnAct`, `Received`), then the
two writes (`SaveLast`, `SaveRevisit`).  `Publish`, `Consolidate` and `NewYear` are the
service, `Dies` is a killed process.

Neither search looks at the status of its answer.  An error page of the first has no "Inga
träffar" and no "Totalt", and so is taken for the page of the act: `BaseActFound` may happen
for any number.  An error page of the second has no link either, and raises
InteExisterandeSFS; so `Answer` is either what the hits are taken for (`Changes`) or
nothing.  The hits are those of all numbers that begin with the wanted one (`Hits`, the
comment at `sfs.py:350`), and several are taken for none.  The first search is for the
whole number: no comment says otherwise of it.  `RevisitedIsMissing` is the loop over
the list to revisit, which catches nothing but InteUppdateradSFS.

`before`, `owed`, `torn` and `misled` (the numbers a search answered wrongly for) are
history; `PassedBy` are the numbers that a change of the year takes out of `owed`.  That an
act is revoked excuses no old text, although `sfs.py:312-318` asks for it:
`_find_upphavts_genom` (`sfs.py:457-460`) returns None whatever it finds.  The names of this
module are its own, so that one proof module can extend it together with `Download`.

### MC modules, proof modules

The `MC…` modules give the constants of the TLC runs.  `…_proofs` modules hold the
theorems.

## 3. Runs

| Run | What it shows | Bounds |
|---|---|---|
| `build_queue` | `NoJobRunTwice`, `CleanCommandComplete`, `NoResultKeptTwice`, `WaitsForSomething`, `ArmedCommandEnds`, `BuildEnds` | two commands of one repository (so that stragglers have a later command to disturb), one of another over the same document, one over nothing; two workers, one death |
| `build_queue_every_file` | violation: a straggler of an abandoned command counts for the next one | two commands, no deaths |
| `worker_pool` | `Conservation`, `OwnAnswers`, `ImplementsCommandRun`, `ArmedPoolEnds`, `EndsIfNothingLost` | four jobs, one over an archived version of the same document; two processes, two deaths (both processes, or a replaced one again); 158 133 states |
| `serial_run` | `OnlyUnfailedVersionsLeak`, `ImplementsCommandRun` | six pairs over three documents, three of them archived versions |
| `serial_run_pairs` | violation: a current version is run as an archived one | the same |
| `download` | `NothingLost`, `CheckedIsCurrent`, `ParseNotMasked`, `ArchiveConsistent`, `ArchiveOnlyGrows` | two contents that come back and a part of one that a failed move leaves, clock to 6 (four changes or parses), two crashes; 517 566 states |
| `pipeline` | `FreshAfterCleanBuild`, `OwnContentHeals`, `DepsCoverTriples`, `RelateHeals` | two documents that refer to each other in their second contents, clock to 18 (enough for three full passes), one failure |
| `composite` | `LinkedTogether`, `BestParsedLinked`, `LinkedTriplesAdded` | two subrepositories, clock to 6, one crash; 1 814 084 states |
| `parser` | `Conserved`, `NothingLost`, `NeverStuck`, `NoSelfNesting`, `HeadingsOpen`, `ParseEnds` | every document of up to three to five chunks of the kinds each of the eight tables tells apart, some after a fixed beginning; all parse configurations; 202 705 states |
| `parser_appendix` | violation: an announced appendix is never made | the documents with margin notes |
| `harvest` | `AmendmentsRemembered`, `NothingPassedOver`, `GapsAreWaitedFor`, `RunEnds` | four numbers over three years (1:1, 2:1, 2:3, 2:10), two of them amendments, one of which begins with the other; two attempts at each page (five in the code); no run starts with more than one number to revisit; 688 314 states |
| `statutes` | `NestedByRank`, `ParsesAll`, `ChaptersFound`, `SectionsNamed`, `TransitionalKept` | seven families of texts of up to six paragraphs (chapters and sections; lists; wordings with dates; parts, with headings of one line or more; transitional provisions and appendices; tables), each with every paragraph the code treats differently there in every order, and longer ones with tables of contents of up to three lines, once or in two wordings; 211 478 states |

Deadlock is not checked where a system comes to rest (the build is over, a document is
parsed, the clock is at its bound, a queue waits for a dead worker); the liveness
properties say when it must not.  It is checked for `harvest`, where a new run can
always start.

**Bounds.**  `MaxDeaths`, `MaxCrashes`, `MaxTime`, `MaxFailures` bound actions of the
environment only.  One death is enough to lose a job or a `get()`; a second command of
the same repository is enough for stragglers, since a result does not depend on how
many commands ago it was asked for; the theorems below hold without these bounds.  In
`Pipeline` two documents make one refer to and be referred to by another, in both
orders; three passes make a repaired page visible.  In `Composite` two subrepositories
are a preferred one and another, and one crash is enough to part what belongs together.
In `FSMParser` three to five chunks are enough for each table to be in each of its
states (depth at most four) with any chunk coming next.  In `Harvest` two attempts
tell apart a failure that is tried again from the last one, and the orders of the two kinds of
failure; an amendment of one act and one of another have numbers of which one begins with the other, so
that the search for changes finds both, the wrong one, or takes both for none; what is
published later leaves gaps of one, two or more; the third year is what a run that begins in the first goes on to.  In `Statute` three
paragraphs after a beginning are enough for each pair of elements to come inside and
after each other with a third one ahead, which is as far as a recognizer looks; numbers
to 3 are enough for a table of contents to be longer than one line and to start again.

**Fairness.**  `BuildQueue!FairSpec`: weak fairness of the control process as a whole
(it is one thread, blocked only in `get()`, and an armed alarm does go off), and of
each worker's taking and finishing (the command a job runs ends).  Nothing makes a
process die, a client join, or the server lose anything.  `WorkerPool!FairSpec` is the
same for the pool.  `BuildEnds` and `EndsIfNothingLost` have as assumption that nothing
is lost, since the first `get()` of the code has no timeout: a command whose first
result never comes waits for ever.  `FSMParser!Spec`: weak fairness of the parser, a
sequential program.  `Statute!Spec`: the same for the
statute parser.  `HarvestSpec`: weak fairness of a run that has begun, but for its
searches: it is one thread, and `robust_fetch` waits ten seconds at most, whereas the two
`requests.get` of `_check_for_sfs` have no time limit.  `RunEnds` is therefore said of runs that no
search leaves waiting for ever.  Nothing makes a run
begin, the service publish, or a request succeed.  The other modules state no liveness:
their processes end unless they crash.

## 4. Findings

The runs marked *violation* above; `PROJECT.json` quotes the docstring or comment each
one contradicts.

* A straggler of an abandoned command counts for a later command of its repository
  (`manager.py:1495`).
* The version of one job leaks into the next one's arguments (`manager.py:1693`).
* A margin note that announces an appendix makes the parser remember its number, so that
  the heading which follows is taken for one more page of it (`offtryck.py:1898`).

What the models show without a document or comment that says otherwise:

* *Build queue.*  A `get()` cut short by the alarm still stands at the queue server and
  eats a later result (`manager.py:1483`).
* *Results of versions.*  With `--allversions` the pool stores results by basefile, so a
  document's versions share one entry of the returned list (`manager.py:1641`);
  `OwnAnswers` is about the basefile.
* *Download.*  With storage policy "file" `remove` leaves the `.etag` file, and the next
  download is answered 304 with nothing on disk (`documentstore.py:836`); without
  archiving, a Last-Modified in the past hides that the new content has to be parsed
  (`documentrepository.py:1082`).  A move of the new file that fails, with the disk full,
  is not told (`util.py:132`): the part that was copied gets the time and the `.etag` of the
  whole, the answer is True, which the docstring (`documentrepository.py:949`) calls "downloaded
  and stored on disk", and later requests are answered 304.  `CheckedIsCurrent` excepts it
  (`botched`).
* *Pipeline.*  After a failed relate `dump.nt` is newer than the file that was not
  loaded, and says there is nothing to do (`documentrepository.py:1758`).
* *Composite.*  A document is skipped when any subrepository is up to date, also if a
  preferred one has a download it was never asked to parse
  (`compositerepository.py:233`; why `BestParsedLinked` speaks of what was parsed).  A
  crash between two links leaves links to different subrepositories, and the next parse
  is skipped; followed by a forced parse it makes the index time of one subrepository
  stand for the triples of another (why `LinkedTriplesAdded` excepts `torn`).  What was
  related stays when the document is related again, since `removesubjects` is not used
  (`documentrepository.py:1971`): after a change the store has the triples of both
  versions.  `remove` leaves the triples of the document in
  the store (`documentstore.py:827`), although it "removes all traces" of it
  (`documentrepository.py:3755`), and dangling links with storage policy "file".  A subrepository that failed after
  it wrote its parsed file counts as up to date from then on.
* *Parser.*  When the last chunk of a terms-of-reference section looks like a heading, its
  recognizer looks ahead, and the StopIteration silently drops the whole section
  (`fsmparser.py:223`); so does a short last appendix without title or page.
  `make_appendix` leaves out the page mark it reads.  In `dv.py` the states of `endmeta`
  and `betankande` swallow a later `delmal`, and a sentence that looks like both grounds
  (`dom`) and a ruling (`domslut`) would be entered for ever (no such kind of chunk is
  in the run); in `jk.py` `special_subsection` has a table entry but is not among the
  recognizers.
* *Statute.*  A first chapter of a single section loses chapter 2 when there is no table
  of contents, or a short one.  A revoked first section is not counted, so sections may
  be taken for numbered through the statute, and those with a number that was seen get no
  URI.  When a chapter gets another title at a date, the sections under the one to come
  have no URI until then.  Of three headings in a row the second is not made a
  subheading, although the comment at `sfs_parser.py:818` says "all subsequent".  The
  second line of a part's heading is taken from a following short section if nothing
  else is there; a part that follows one with only the first chapter is not seen.  In a
  table, short lines with the number of an act or of a chapter are rows, and a heading
  with a directive in it is dropped.  Provisions without number are all wrapped with the
  statute's own, and only the last comes back (`sfs.py:1017`); unheaded provisions inside
  a chapter stay in it.  A part near the end of the text raises IOError.  Appendices without
  a number that compare equal share their URI.
* *Harvest.*  An error page of the search for changes makes the run pass over a number
  that is there, and what was owed at or behind it in its year may be forgotten
  (`sfs.py:368`); an error page of the search for the act itself makes it download whatever
  is at the number's address (`sfs.py:341`), which ends the run if nothing is.  A
  search for a number of one or two digits is right by accident (`sfs.py:350`).  A number to
  revisit that is not found ends the run, and every later one as long as it is not
  (`sfs.py:256`-`261`).  A single missing number is passed over for good when it is published
  later.  A crash between the two writes forgets the entries that were new
  (`sfs.py:289`–`291`; why `AmendmentsRemembered` excepts `torn`).  When no number after
  a revisited one succeeds, the list gets the same number once more in every run.  A gap
  of two numbers holds the harvest until the year changes, and then the rest of the old
  year is never looked at.  A run that comes to the end of an old year goes on with this
  one and leaves out whole years between (`sfs.py:281`–`283`): what earlier runs had
  found there and could not save before they died is forgotten (why `owed` loses
  `PassedBy`).  A full download clears the list.  A number that amends several acts is
  taken for one that does not exist (the comment at `sfs.py:366`, whereas the docstring
  at `sfs.py:327` speaks of lists).  An HTTP error on a new document ends the run with
  UnboundLocalError (`sfs.py:421`), on a known one it is swallowed.

## 5. Theorems

`BuildQueue_proofs` proves, for every plan of commands, every set of documents,
repositories and workers, any `MaxDeaths` and both kinds of queue server, from the
assumptions `PlanAssumption` (a command is over a finite set of documents) and
`BoundAssumption`:

* `TypeCorrect`: `Spec => []TypeOK`.
* `JobsRunOnce`: `NoJobRunTwice`.  It is not inductive: a job is put at most once only
  because no job exists before its command puts it (`JobsBegun`), and it is in one
  place only if its result counts as a place (`OnePlace`).
* `CleanCommandsComplete`: `CleanCommandComplete`.  The invariant `IInv` adds the
  bookkeeping of the command being run (`Bookkeeping`: each document is waited for or
  has its one result, and the numbers add up) and `NoStragglers`: nothing of a settled
  command is in flight, so that a result of the same repository in a clean command can
  only be its own (`OwnCommand`).  That is where "no earlier command was abandoned" is
  needed; without it the run `build_queue_every_file` is the counterexample.
* `ResultsKeptOnce`: `NoResultKeptTwice`, with or without abandoned commands.  A result that
  was kept counts as the place of its job, so that no second one is anywhere.
* `WaitsJustly`: `WaitsForSomething`.  It is an account (`Spent`): what is waited for and
  nowhere to be found, and each `get()` served for nobody, is charged to one death or
  to one command given up; each step charges no more than it loses (`Charged`).

The proofs split a step into the control process's steps (`ServerCases`) and the others
(`OthersFlow`: workers and queue server only move and lose jobs), with one lemma for
each part of `IInv` and each of the two.

`Download_proofs` proves, for all contents, whatever the server sends, and any number
of crashes:

* `TypeCorrect`, from `Files`: what each step finds on disk (a file that is about to be
  archived exists, a file being timed has the response's content).
* `NothingIsLost`: `NothingLost`, from `Safe`: a file that is about to be unlinked is
  archived already.
* `ArchivedVersionsStay`: the action property `ArchiveOnlyGrows`.
* `CheckedFilesAreCurrent`: `CheckedIsCurrent`, with `Dir` and `Archive`.  Its invariant
  `Truthful` says what makes "not modified" a right answer: an etag is that of the file
  beside it, and a file not older than the server's document has its content, unless a move
  failed or a remove was cut short since (`botched`).  Without
  `Dir` it fails when a document is removed, without `Archive` when the process dies after
  the old file was unlinked.
* `ParsedFilesMatch`: `ParseNotMasked` and `ArchiveConsistent`, with `Archive` and not
  `Copy`.  `Matching` shows why: not by comparing times, but because the parsed file
  goes into the archive with the downloaded one.  Without `Archive` a download with
  a Last-Modified in the past is a counterexample.

It also proves of `Harvest`, for any acts and amendments, published and consolidated at any
time, any number of attempts, years, runs and crashes, `HarvestTypeCorrect` and, from one
inductive invariant (`HInv`), whatever the searches answer:

* `GapsWaited`: `GapsAreWaitedFor`.  `Gaps` says that of the numbers of its year that a run
  has come past, and that no search was wrong about, at most one is not there, and none
  unless `peek` is set.
* `NonePassedOver`: `NothingPassedOver`, from `DealtWith`: what was there when the run began
  and lies ahead of the number it has come to, or of the last it will save, is on its list or
  worked in.  `Fetching` (what is fetched was found, what was fetched is there) and `Texts`
  (no text gets older) are what makes "not late" mean "worked in".
* `AmendmentsNotForgotten`: `AmendmentsRemembered`.  The hard part is a run that goes on to
  another year: it may leave no owed number of the old year behind.  `Reachable` says
  that whoever found a number got there past one missing number at most; a later run begins
  no earlier and misses no more, and so is stopped (`peek`, and then the end of the year)
  by two missing numbers only behind it (`NotPassedBy`).  `Remembers` carries this through
  the two writes.

`Pipeline_proofs` proves, for any documents and references between them, any number of
contents, passes and failures, with and without `download_archive`, `TypeCorrect` and

* `DependenciesCover`: `DepsCoverTriples`, since dependencies are written before triples.
* `OwnContent`: `OwnContentHeals`.  `Times` (no file is from the future) makes every step's
  file strictly newer than what was there; `Own` then says what the comparison of times is
  worth: a file not older than what it was made from has its content.  `Behind` says what
  a pass that has not failed has left behind it, place by place.
* `RelatingHeals`: `RelateHeals`.  `Related` says that an index time is only given to what
  was loaded.
* `FreshPages`: `FreshAfterCleanBuild`.  As long as nothing failed (`Clean`), the distilled
  file is of the parsed file's time, what is not newer than `dump.nt` is loaded, and
  dependency lists and pages not older than a parsed file know its references.  It needs all
  the parts above, and that the clock advances with every write.

`SerialRun_proofs` proves, for any iterable of (basefile, version) pairs, `TypeCorrect`,
`LeaksAreOfUnfailed` (`OnlyUnfailedVersionsLeak`: what is left in `kwargs` is the version of
an earlier job that did not fail) and `Refinement` (`ImplementsCommandRun`: each
call takes one job off `pending`, and `Return` finds none).

`WorkerPool_proofs` proves, for any iterable, number of processes and deaths:

* `TypeCorrect`, and `NothingDisappears`: `Conservation`.  The invariant gives each job one
  place: not put yet, in the job queue, in a hand, in the result queue, lost, or received.
* `AnswersAreOwn`: `OwnAnswers`; it rests on every result being that of a job that was
  put, and on `res` being filled only with what was received.
* `Refinement`: `ImplementsCommandRun`.  Finishing a job is `CommandRun`'s `RunJob`; what
  loses or moves a job stutters; a return finds every job run or lost.

`Composite_proofs` proves, for any number of subrepositories, any clock and any number
of crashes, `TypeCorrect`, `LinksTogether` (`LinkedTogether`), `BestIsServed`
(`BestParsedLinked`) and `TriplesFollow` (`LinkedTriplesAdded`).  The first needs what
each place of `copy_parsed` has linked so far; the second needs that while `cur` is
tried, no subrepository before it has parsed what it last downloaded.  The third is
about stamps, the index times that the entries say or are about to say: a subrepository
is linked anew only while what it distilled is newer than any stamp of its own
(`ReplacedByUndone`), so the next relate cannot pass it by.  That in turn needs
`Outdated`: unless a parse is forced, whoever is asked later has to be parsed, and what
has to be parsed gets a new time.

`FSMParser_proofs` proves `ChunksConserved`: `Conserved`, for any set of documents over the
eight grammars and any order of configurations.  The invariant is where the reader stands
(`Placed`) together with `Partition`, which says that the chunks before it are divided
among the frames, `skipped` and `lost`.  It is proved constructor by constructor from what
each reads and pushes, and uses neither the tables nor the recognizers: no mistake in
a grammar can make the parser lose or double a chunk, except at a StopIteration.  The one
constructor that reads ahead for a title (`make_appendix`) needs the least place at which
one comes.

The other properties of the parser are about the tables, and are proved line by line.  Each
state has a depth, and the proof checks of every line that is not replaced by a later one
(`RowsFit`) that what it opens is further in and what it leaves is not the outermost
state; that lists and recognizers are searched in their order is proved of the lists
themselves.

* `TablesComplete`: `NeverStuck`.  In each grammar one of a few recognizers always says yes
  (`Certain`), and every state that can be on the stack has an entry for it and for all
  that are asked before it.  Only the outermost states of an RFC are not of this kind:
  they need that its one header comes first, and that what follows the preamble is a section
  (`RfcPlaced`).
* `NoneNested`: `NoSelfNesting`.  The stack leads further and further in, and has one state for
  each frame unless a StopIteration has cut one off (`Paired`).
* `NothingDropped`: `NothingLost`, from `ChunksConserved` and `Paired`: no table closes the
  outermost element while there are chunks.
* `HeadingsFound`: `HeadingsOpen`, for numbered headings in which nothing of `SeenFirst` is
  seen.  Those recognizers are asked before the one for sections, and a dash list (strecksats)
  goes on without asking for headings at all.

`Statute_proofs` proves, for any texts:

* `TypeCorrect`: `Spec => []TypeOK`; every frame is an element made, and an element is in an
  earlier one.
* `Nesting`: `NestedByRank`.  It is proved from the sets in `Ends` and the ranks alone: what
  is made in an open element is not among what ends it, and so is of a higher rank.
  No recognizer is looked into, so no text and no change of the patterns can make a part
  end up in a chapter or a section in a section.  The assertion of `makeParagraf` is used (as
  a guard); that it never fails is the next theorem.
* `NoAssertionFails`: `AssertionHolds`, the safety part of `ParsesAll` (a failed assertion
  would be a guard that no action passes), for any texts.  The invariant `Asserted` says that all that is made
  directly in a section are paragraphs, and that the reader is back in the section's own loop
  only at a line that looks like no list and no table, because that is where the loop of a
  paragraph ends.  What was guessed there is asked again in the section's loop, after the
  first answer has changed what the recognizers remember; `ListGuessed` is why this does not
  matter: a list or a table is known by its look alone, and what is asked before takes no such
  line.
* `Transitional`: `TransitionalKept`, for texts whose provisions are those of registered acts,
  one of each, under headings that a provision follows, and that have no tables.  The
  invariant is `Regulars`: what is being made is a path of the tree, every line that was read
  is in an element, a provision holds the one line it began with, and no two came of the same
  line.  It holds because a line that begins a provision or an appendix is taken for nothing
  else (`GuessIs`) and ends every loop up to the heading's, so that what stands among the
  provisions is one of them (`NextProvision`).  `PutBack` then follows the lines through
  `postprocess_doc`: what the first list held is in one of its children (`InAChild`), and each
  of those is put back.
* `UniqueNames`: `SectionsNamed`, for statutes whose numbered elements can be told apart
  (`Unmistakable`).  The invariant `Naming` says what `construct_id` has left at each element:
  in one of the main part that is in force, the numbers of `Fragments`, which no other has
  (`FragmentsApart`).  That needs the nesting above: a chapter is in a part or in the statute, a
  section in a chapter or one of those, so the numbers that `set_skipfragments` leaves out
  are those that cannot be needed.  Where sections are counted through the statute they
  are told apart by their own numbers, as only one of them is 1 (`OneFirstSection`).
* `ContentsApart`: `ChaptersFound`, for any number of chapters, sections, lines in the table
  and wordings of the first section.  What is supposed is `ListsChapters` (chapters and
  sections in order, the table in the first section of the first chapter and in each new
  wording of it, no parts or tables) and that the next chapter has a smaller number than the
  last line, or another section before it.  The invariant `Found` says what the parser
  remembers of the text that was read: the last chapter, the last section of the first
  chapter, and the last line of the table in this wording (`Counted`); from it a chapter
  line is taken for a chapter exactly when it is one (`KapitelIs`).  The step that fails
  without `ContentsAgain` is the first line of a second wording.

`Above`, the elements that one is in, is a recursive function; that it satisfies its
own equation is proved from the least set closed under going up (`AboveIs`), so that no
induction with an operator for a parameter is needed.

The assumptions named in the modules (`PlanAssumption`, `BoundAssumption`,
`CompositeAssumption`, `ProfileAssumption`, …) are all the theorems assume of the
constants; TLC evaluates each of them.

## 6. What is only model-checked, and what is not modelled

Only checked by TLC: the liveness properties (`ArmedCommandEnds`, `BuildEnds`,
`ArmedPoolEnds`, `EndsIfNothingLost`, `ParseEnds`, `RunEnds`, `ParsesAll`), which need fairness
and ENABLED and so are out of the prover's reach.  Every other property of a
passing run is a theorem as well.

Left out on purpose: option parsing, configuration, logging and profiling; the
content of documents, triples and pages; the network beyond conditional GETs and the
attempts of `robust_fetch`.  The abstractions that matter:

* a command's result is its kind; what the repository class does in it is not;
* in `Pipeline` all steps of a repository run in one process and one after another;
  `transformlinks`, `toc`, `news` and `makeresources` are not there; a download's file
  time is the time of the download (`Download` has the other case);
* in `Download` one process works on a document, and the clock does not advance
  between the response and the file's time;
* a worker's configuration (`_build_worker` keeps the one of the first job of a class,
  `manager.py:1288`) is not modelled: no text says which one a kept worker should use;
* no property says that pages heal after a failed relate (`manager.py:631`): they do not,
  until the referring document changes;
* entry files are written by one process at a time; two that relate and update one
  entry may lose a change (`documententry.py:342`);
* in `Composite` the triples of a context are never cleared (`relate_all_setup` does it when
  relating is forced), and renamed documents, attachments and the listing of basefiles are left out;
* in `FSMParser` the wording that recognizers look for, variants of scanning
  errors, `validate_body`, and the ValueError of `int()` at `offtryck.py:1773` are left
  out (a heading that has run into the note in the margin, `is_mashed_header`, is there);
  where a table is given two entries for one state and recognizer the later line
  replaces the earlier, which under the Pythons before 3.6 that `setup.py:88` names
  depends on the order of a dict (`fsmparser.py:64`);
* in `Statute` the patterns themselves, the cells of tables, the dates of rows, tables whose
  paragraphs have several short lines, sections in moments (`1 mom.`) and URIs below
  sections, in provisions and in appendices are left out; which elements have numbers in
  their URI is what `lagen/nu/sfs.py` says; no text of the run ends right after the heading
  of a part (`LinesFollow`);
* in `Harvest` numbers are never withdrawn, a whole page is a right one once `robust_fetch` has
  it, and if nothing was downloaded a run goes on from a number of a year
  without acts, as from the code's 1600:1;
* not modelled at all: feeds and tables of contents (sorting and file splitting, no state
  kept), the search index (a client of two servers), the web application (one request,
  no state between requests), resources and transformations (copying and XSLT), readers of
  PDF and Word files (external programs), citation parsing and URI formatting
  (pyparsing grammars), elements and serialisation (data structures), development commands,
  and the scrapers of particular sites.

## 7. Plan

Done: the modules of section 2, the runs of section 3 and the theorems of section 5.
What would come next: the parser of agency regulations (`myndfskr.py`), which names its
sections the way `Statute` does, and a model of the feed files; in `Statute`, tables among
the transitional provisions, and tables of contents in statutes with parts.
