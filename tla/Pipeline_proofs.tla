-------------------------- MODULE Pipeline_proofs --------------------------
(***************************************************************************)
(* Proofs about the build pipeline, for any documents, references between  *)
(* them, number of failing steps, with and without download_archive.       *)
(***************************************************************************)
EXTENDS Pipeline, TLAPS

(* With the types: which files there are when there are others, and that a *)
(* step is only run for documents that have the file it reads.             *)
Present ==
  /\ TypeOK
  /\ \A d \in Doc :
       /\ Exists(parsed[d]) => Exists(down[d])
       /\ Exists(distilled[d]) => Exists(parsed[d])
       /\ page[d].content # 0 => Exists(parsed[d])
  /\ \A d \in todo :
       /\ phase = "parse" => Exists(down[d])
       /\ phase = "relate" => Exists(distilled[d])
       /\ phase = "generate" => Exists(parsed[d])

(* No file is from the future, and none is from before the first step.     *)
Times ==
  /\ dump <= clock
  /\ \A d \in Doc :
       /\ down[d].mtime <= clock /\ parsed[d].mtime <= clock
       /\ distilled[d].mtime <= clock /\ indexed[d] <= clock
       /\ deps[d].mtime <= clock /\ annot[d].mtime <= clock
       /\ page[d].mtime <= clock
       /\ Exists(parsed[d]) => parsed[d].mtime # 0

(* Nothing that is not older than what it was made from is of another      *)
(* content.                                                                *)
Own ==
  \A d \in Doc :
    /\ Exists(parsed[d]) /\ ~ParseNeeded(d)
         => parsed[d].content = down[d].content
    /\ page[d].content # 0 /\ parsed[d].mtime <= page[d].mtime
         => page[d].content = parsed[d].content

(* What the steps of a pass without failure have left behind them.         *)
Behind ==
  ~failed =>
    /\ phase = "parse" => \A d \in Doc \ todo :
                            Exists(down[d]) => ~ParseNeeded(d)
    /\ phase \in {"relatesetup", "relate", "generate", "done"} =>
         \A d \in Doc : Exists(down[d]) => ~ParseNeeded(d)
    /\ phase = "generate" => \A d \in Doc \ todo :
                               Exists(parsed[d]) => ~GenerateNeeded(d)
    /\ phase = "done" => \A d \in Doc :
                           Exists(parsed[d]) => ~GenerateNeeded(d)

(* A distilled file that the entry says was related is in the store, and   *)
(* so is what a pass that did not fail or skip relating has gone by.       *)
Stored(d) == Exists(distilled[d]) => distilled[d].content \in loaded[d]

Related ==
  /\ \A d \in Doc : distilled[d].mtime <= indexed[d] => Stored(d)
  /\ ~failed /\ ~skipped =>
       /\ phase = "relate" => \A d \in Doc \ todo : Stored(d)
       /\ phase \in {"generate", "done"} => \A d \in Doc : Stored(d)

(* As long as nothing has failed, a distilled file was made with its       *)
(* parsed file, the store has what is not newer than the dump, and lists   *)
(* and pages not older than a parsed file know what it refers to.          *)
Known(list, d) ==
  list.mtime # 0 =>
    \A e \in Doc : /\ Exists(parsed[e]) /\ parsed[e].mtime <= list.mtime
                   /\ d \in Refs[e][parsed[e].content]
                   => e \in list.refs

Clean ==
  failures = 0 =>
    /\ ~failed
    /\ \A d \in Doc : /\ distilled[d] = parsed[d]
                      /\ dump # 0 /\ distilled[d].mtime <= dump => Stored(d)
                      /\ Known(annot[d], d) /\ Known(page[d], d)
                      /\ phase = "relate" /\ d \notin todo => Stored(d)
                      /\ phase \in {"generate", "done"} => Stored(d)

IInv == Present /\ Times /\ Own /\ Behind /\ Related /\ DepsCoverTriples /\ Clean

-----------------------------------------------------------------------------
(* The steps that move from one build step to the next and write nothing.  *)
Moves == StartParse \/ StartRelateSetup \/ RelateSetup \/ EndPass \/ NextPass
         \/ RelateAborted

(* They leave every file and the clock alone.                              *)
LEMMA MovesFiles == Moves => UNCHANGED <<clock, files>>
  BY DEF Moves, StartParse, StartRelateSetup, RelateSetup, EndPass, NextPass,
         RelateAborted, files

(* Before the first download there are no files. *)
LEMMA PresentInit == Init => Present
  <1>. SUFFICES ASSUME Init PROVE Present
    OBVIOUS
  <1>1. NoFile \in File /\ NoList \in List /\ NoPage \in Page
    BY BoundAssumption DEF File, List, Page, NoFile, NoList, NoPage
  <1>2. TypeOK
    BY <1>1 DEF Init, TypeOK
  <1>3. ~Exists(NoFile) /\ NoPage.content = 0
    BY DEF NoFile, NoPage, Exists
  <1>. QED  BY <1>2, <1>3 DEF Init, Present

(* What the steps write has its type.                                      *)
LEMMA FileMade ==
  ASSUME clock \in Nat, NEW c \in 0..MaxContent
  PROVE  [content |-> c, mtime |-> Now] \in File
  BY DEF File, Now

(* A file has a content and a time.                                        *)
LEMMA FileParts ==
  ASSUME NEW f \in File
  PROVE  /\ f.content \in 0..MaxContent /\ f.mtime \in Nat
         /\ Exists(f) => f.content \in Contents
  BY BoundAssumption DEF File, Exists, Contents

(* A list has documents and a time.                                        *)
LEMMA ListParts ==
  ASSUME NEW f \in List
  PROVE  f.refs \subseteq Doc /\ f.mtime \in Nat
  BY DEF List

(* A page has a content, documents and a time.                             *)
LEMMA PageParts ==
  ASSUME NEW f \in Page
  PROVE  /\ f.content \in 0..MaxContent /\ f.refs \subseteq Doc
         /\ f.mtime \in Nat
  BY DEF Page

(* Dependency files, annotation files and pages as the steps write them.   *)
LEMMA DepsType ==
  ASSUME TypeOK, NEW d \in Doc
  PROVE  DepsAfter(d) \in [Doc -> List]
  <1>. SUFFICES ASSUME NEW e \in Doc
                PROVE  [refs |-> deps[e].refs \cup {d}, mtime |-> Now] \in List
    BY DEF TypeOK, DepsAfter
  <1>. QED  BY DEF TypeOK, List, Now

(* The annotation file, made anew or not, is a list.                       *)
LEMMA AnnotType ==
  ASSUME TypeOK, NEW d \in Doc
  PROVE  AnnotAfter(d) \in List
  <1>1. [refs |-> Referrers(d), mtime |-> Now] \in List
    BY DEF TypeOK, List, Referrers, Now
  <1>. QED  BY <1>1 DEF TypeOK, AnnotAfter

(* A page is made from the parsed file and the annotation file.            *)
LEMMA PageType ==
  ASSUME TypeOK, NEW d \in Doc
  PROVE  [content |-> parsed[d].content, refs |-> AnnotAfter(d).refs,
          mtime |-> Now] \in Page
  <1>1. parsed[d].content \in 0..MaxContent
    BY FileParts DEF TypeOK
  <1>2. AnnotAfter(d).refs \subseteq Doc
    BY AnnotType, ListParts
  <1>. QED  BY <1>1, <1>2 DEF TypeOK, Page, Now

(* A file that is not there has the type of one that is.                   *)
LEMMA NoneType == NoFile \in File /\ NoList \in List /\ NoPage \in Page
  BY BoundAssumption DEF File, List, Page, NoFile, NoList, NoPage

(* Every step keeps the types.                                             *)
LEMMA TypeStep == Present /\ [Next]_vars => TypeOK'
  <1>. SUFFICES ASSUME TypeOK, [Next]_vars,
                       phase = "relate" => \A d \in todo : Exists(distilled[d])
                PROVE  TypeOK'
    BY DEF Present
  <1>. USE DEF TypeOK
  <1>1. CASE Moves
    <2>1. CASE RelateSetup
      BY <2>1 DEF RelateSetup, files, Go, ToGenerate
    <2>2. CASE RelateAborted
      BY <2>2 DEF RelateAborted, files, Go, ToGenerate, Fails
    <2>3. CASE StartParse \/ StartRelateSetup \/ EndPass \/ NextPass
      BY <2>3 DEF StartParse, StartRelateSetup, EndPass, NextPass, files, Go
    <2>. QED  BY <1>1, <2>1, <2>2, <2>3 DEF Moves
  <1>2. CASE RelateTeardown
    BY <1>2 DEF RelateTeardown, Tick, Now, Go, ToGenerate
  <1>3. ASSUME NEW d \in Doc, Download(d) PROVE TypeOK'
    <2>1. PICK c \in Contents :
            down' = [down EXCEPT ![d] = [content |-> c, mtime |-> Now]]
      BY <1>3 DEF Download
    <2>2. c \in 0..MaxContent
      BY BoundAssumption DEF Contents
    <2>3. [content |-> c, mtime |-> Now] \in File
      BY <2>2, FileMade
    <2>. QED  BY <1>3, <2>1, <2>3, NoneType DEF Download, Tick
  <1>4. ASSUME NEW d \in Doc, Parse(d) PROVE TypeOK'
    <2>1. [content |-> down[d].content, mtime |-> Now] \in File
      BY FileMade, FileParts
    <2>. QED  BY <1>4, <2>1 DEF Parse, Tick
  <1>5. ASSUME NEW d \in Doc, ParseFails(d) PROVE TypeOK'
    <2>1. [content |-> down[d].content, mtime |-> Now] \in File
      BY FileMade, FileParts
    <2>2. parsed' \in [Doc -> File]
      BY <1>5, <2>1 DEF ParseFails
    <2>. QED  BY <1>5, <2>2 DEF ParseFails, Tick, Fails
  <1>6. ASSUME NEW d \in Doc, Relate(d) \/ RelateFails(d) PROVE TypeOK'
    <2>1. distilled[d].content \in Contents
      BY <1>6, FileParts DEF Relate, RelateFails
    <2>2. DepsAfter(d) \in [Doc -> List]
      BY DepsType
    <2>3. CASE Relate(d)
      BY <2>1, <2>2, <2>3 DEF Relate, Tick, Now
    <2>4. CASE RelateFails(d)
      <3>1. deps' \in [Doc -> List] /\ loaded' \in [Doc -> SUBSET Contents]
        BY <2>1, <2>2, <2>4 DEF RelateFails
      <3>. QED  BY <2>4, <3>1 DEF RelateFails, Tick, Fails
    <2>. QED  BY <1>6, <2>3, <2>4
  <1>7. ASSUME NEW d \in Doc, Generate(d) PROVE TypeOK'
    <2>1. AnnotAfter(d) \in List
      BY AnnotType
    <2>2. [content |-> parsed[d].content, refs |-> AnnotAfter(d).refs,
           mtime |-> Now] \in Page
      BY PageType
    <2>. QED  BY <1>7, <2>1, <2>2 DEF Generate, Tick
  <1>8. ASSUME NEW d \in Doc, GenerateFails(d) PROVE TypeOK'
    <2>1. AnnotAfter(d) \in List
      BY AnnotType
    <2>. QED  BY <1>8, <2>1 DEF GenerateFails, Fails, Tick
  <1>9. ASSUME NEW d \in Doc, Skip(d) PROVE TypeOK'
    BY <1>9 DEF Skip, files
  <1>10. CASE UNCHANGED vars
    BY <1>10 DEF vars
  <1>. HIDE DEF TypeOK
  <1>. QED  BY <1>1, <1>2, <1>3, <1>4, <1>5, <1>6, <1>7, <1>8, <1>9, <1>10
               DEF Next, Moves

(* A step is only run for documents that have the file it reads, and a     *)
(* file is only made from one that is there.                               *)
LEMMA PresentStep == Present /\ [Next]_vars => Present'
  <1>. SUFFICES ASSUME Present, [Next]_vars PROVE Present'
    OBVIOUS
  <1>. DEFINE P == /\ \A d \in Doc :
                        /\ Exists(parsed[d]) => Exists(down[d])
                        /\ Exists(distilled[d]) => Exists(parsed[d])
                        /\ page[d].content # 0 => Exists(parsed[d])
                   /\ \A d \in todo :
                        /\ phase = "parse" => Exists(down[d])
                        /\ phase = "relate" => Exists(distilled[d])
                        /\ phase = "generate" => Exists(parsed[d])
  <1>. SUFFICES P'
    BY TypeStep DEF Present
  <1>. USE DEF Present, TypeOK, Exists
  <1>1. CASE Moves
    BY <1>1 DEF Moves, StartParse, StartRelateSetup, RelateSetup, EndPass,
                NextPass, RelateAborted, files, Go, ToGenerate
  <1>2. CASE RelateTeardown
    BY <1>2 DEF RelateTeardown, Go, ToGenerate
  <1>3. ASSUME NEW d \in Doc, Download(d) PROVE P'
    BY <1>3, BoundAssumption DEF Download, NoFile, NoPage, Contents
  <1>4. ASSUME NEW d \in Doc, Parse(d) PROVE P'
    BY <1>4 DEF Parse
  <1>5. ASSUME NEW d \in Doc, ParseFails(d) PROVE P'
    <2>1. CASE UNCHANGED parsed
      BY <1>5, <2>1 DEF ParseFails
    <2>2. CASE parsed' = [parsed EXCEPT ![d] = [content |-> down[d].content,
                                                mtime |-> Now]]
      BY <1>5, <2>2 DEF ParseFails
    <2>. QED  BY <1>5, <2>1, <2>2 DEF ParseFails
  <1>6. ASSUME NEW d \in Doc, Relate(d) \/ RelateFails(d) PROVE P'
    BY <1>6 DEF Relate, RelateFails
  <1>7. ASSUME NEW d \in Doc, Generate(d) \/ GenerateFails(d) PROVE P'
    BY <1>7 DEF Generate, GenerateFails
  <1>8. ASSUME NEW d \in Doc, Skip(d) PROVE P'
    BY <1>8 DEF Skip, files
  <1>9. CASE UNCHANGED vars
    BY <1>9 DEF vars
  <1>. HIDE DEF Present, P
  <1>. QED  BY <1>1, <1>2, <1>3, <1>4, <1>5, <1>6, <1>7, <1>8, <1>9
               DEF Next, Moves

(* The files are there in every state of every behaviour.                  *)
LEMMA PresentAlways == Spec => []Present
  BY PresentInit, PresentStep, PTL DEF Spec

(* The types are kept. *)
THEOREM TypeCorrect == Spec => []TypeOK
  <1>1. Present => TypeOK  BY DEF Present
  <1>. QED  BY <1>1, PresentAlways, PTL

-----------------------------------------------------------------------------
(* What the types say of one document.                                     *)
LEMMA Numbers ==
  ASSUME TypeOK
  PROVE  /\ clock \in Nat /\ dump \in Nat /\ Now = clock + 1
         /\ \A d \in Doc :
              /\ down[d].mtime \in Nat /\ parsed[d].mtime \in Nat
              /\ distilled[d].mtime \in Nat /\ indexed[d] \in Nat
              /\ deps[d].mtime \in Nat /\ annot[d].mtime \in Nat
              /\ page[d].mtime \in Nat
  BY FileParts, ListParts, PageParts DEF TypeOK, Now

(* Relating and generating write files at their own time.                  *)
LEMMA TimesAfter ==
  ASSUME TypeOK, NEW d \in Doc
  PROVE  /\ \A e \in Doc : DepsAfter(d)[e].mtime \in {deps[e].mtime, Now}
         /\ AnnotAfter(d).mtime \in {annot[d].mtime, Now}
  BY DEF DepsAfter, AnnotAfter

(* Every step writes at a time of its own, which is the latest.            *)
LEMMA TimesStep == TypeOK /\ Times /\ [Next]_vars => Times'
  <1>. SUFFICES ASSUME TypeOK, Times, [Next]_vars PROVE Times'
    OBVIOUS
  <1>. USE Numbers DEF Times
  <1>1. CASE UNCHANGED <<clock, files>>
    BY <1>1 DEF files
  <1>2. CASE RelateTeardown
    BY <1>2 DEF RelateTeardown, Tick
  <1>3. ASSUME NEW d \in Doc, Download(d) PROVE Times'
    <2>1. \A e \in Doc : parsed'[e] \in {parsed[e], NoFile}
      BY <1>3 DEF Download, TypeOK
    <2>2. ~Exists(NoFile)
      BY DEF NoFile, Exists
    <2>3. \A e \in Doc : Exists(parsed'[e]) => parsed'[e].mtime # 0
      BY <2>1, <2>2
    <2>. QED  BY <1>3, <2>3 DEF Download, Tick, NoFile, NoList, NoPage, TypeOK
  <1>4. ASSUME NEW d \in Doc, Parse(d) PROVE Times'
    BY <1>4 DEF Parse, Tick, TypeOK
  <1>5. ASSUME NEW d \in Doc, ParseFails(d) PROVE Times'
    <2>. DEFINE f == [content |-> down[d].content, mtime |-> Now]
    <2>0. parsed' = parsed \/ parsed' = [parsed EXCEPT ![d] = f]
      BY <1>5 DEF ParseFails
    <2>1. \A e \in Doc : parsed'[e] = parsed[e] \/ parsed'[e].mtime = Now
      BY <2>0 DEF TypeOK
    <2>. QED  BY <1>5, <2>1 DEF ParseFails, Tick
  <1>6. ASSUME NEW d \in Doc, Relate(d) \/ RelateFails(d) PROVE Times'
    <2>1. \A e \in Doc : deps'[e].mtime \in {deps[e].mtime, Now}
      BY <1>6, TimesAfter DEF Relate, RelateFails
    <2>2. \A e \in Doc : indexed'[e] \in {indexed[e], Now}
      BY <1>6 DEF Relate, RelateFails, TypeOK
    <2>. QED  BY <1>6, <2>1, <2>2 DEF Relate, RelateFails, Tick
  <1>7. ASSUME NEW d \in Doc, Generate(d) \/ GenerateFails(d) PROVE Times'
    <2>1. \A e \in Doc : annot'[e].mtime \in {annot[e].mtime, Now}
      BY <1>7, TimesAfter DEF Generate, GenerateFails, TypeOK
    <2>2. \A e \in Doc : page'[e].mtime \in {page[e].mtime, Now}
      BY <1>7 DEF Generate, GenerateFails, TypeOK
    <2>. QED  BY <1>7, <2>1, <2>2 DEF Generate, GenerateFails, Tick
  <1>8. ASSUME NEW d \in Doc, Skip(d) PROVE UNCHANGED <<clock, files>>
    BY <1>8 DEF Skip
  <1>9. UNCHANGED vars => UNCHANGED <<clock, files>>
    BY DEF vars, files
  <1>. HIDE DEF Times
  <1>. QED  BY <1>1, <1>2, <1>3, <1>4, <1>5, <1>6, <1>7, <1>8, <1>9, MovesFiles
               DEF Next, Moves

-----------------------------------------------------------------------------
(* Relating adds to the store only what it has entered as a dependency.    *)
LEMMA DepsGrow ==
  ASSUME TypeOK, NEW d \in Doc, NEW e \in Doc
  PROVE  /\ deps[e].refs \subseteq DepsAfter(d)[e].refs
         /\ e \in Refs[d][distilled[d].content] => d \in DepsAfter(d)[e].refs
  BY DEF DepsAfter

(* Only relating changes dependencies or triples, dependencies first.      *)
LEMMA CoverStep ==
  ASSUME TypeOK, DepsCoverTriples, [Next]_vars
  PROVE  DepsCoverTriples'
  <1>1. CASE UNCHANGED <<deps, loaded>>
    BY <1>1 DEF DepsCoverTriples, Referrers
  <1>2. ASSUME NEW d \in Doc, Relate(d) \/ RelateFails(d), ~UNCHANGED <<deps, loaded>>
        PROVE  DepsCoverTriples'
    <2>1. deps' = DepsAfter(d)
      BY <1>2 DEF Relate, RelateFails
    <2>2. \/ loaded' = loaded
          \/ loaded' = [loaded EXCEPT ![d] = @ \cup {distilled[d].content}]
      BY <1>2 DEF Relate, RelateFails
    <2>. SUFFICES ASSUME NEW e \in Doc, NEW f \in Doc, NEW c \in loaded'[f],
                         e \in Refs[f][c]
                  PROVE  f \in deps'[e].refs
      BY DEF DepsCoverTriples, Referrers
    <2>3. CASE c \in loaded[f]
      BY <2>1, <2>3, DepsGrow DEF DepsCoverTriples, Referrers
    <2>4. CASE c \notin loaded[f]
      <3>1. f = d /\ c = distilled[d].content
        BY <2>2, <2>4 DEF TypeOK
      <3>. QED  BY <2>1, <3>1, DepsGrow
    <2>. QED  BY <2>3, <2>4
  <1>3. \/ UNCHANGED <<deps, loaded>>
        \/ \E d \in Doc : Relate(d) \/ RelateFails(d)
    BY MovesFiles DEF Next, Moves, vars, files, RelateTeardown, Download, Parse,
       ParseFails, Generate, GenerateFails, Skip
  <1>. QED  BY <1>1, <1>2, <1>3

(* A document that the store knows to refer to another is in its           *)
(* dependency file, whatever failed: dependencies are written first, and   *)
(* they are the ones whose triples are then added.                         *)
THEOREM DependenciesCover == Spec => []DepsCoverTriples
  <1>1. Init => DepsCoverTriples
    BY DEF Init, DepsCoverTriples, Referrers
  <1>2. TypeOK /\ DepsCoverTriples /\ [Next]_vars => DepsCoverTriples'
    BY CoverStep
  <1>. QED  BY <1>1, <1>2, TypeCorrect, PTL DEF Spec

-----------------------------------------------------------------------------
(* Nothing that is not older than what it was made from has another        *)
(* content than that.                                                      *)
LEMMA OwnStep ==
  ASSUME Present, Times, Own, [Next]_vars
  PROVE  Own'
  <1>. USE Numbers DEF Present
  <1>1. CASE UNCHANGED files
    BY <1>1 DEF Own, files, ParseNeeded
  <1>2. CASE RelateTeardown
    BY <1>2 DEF RelateTeardown, Own, ParseNeeded
  <1>3. ASSUME NEW d \in Doc, Download(d) PROVE Own'
    <2>. SUFFICES ASSUME NEW e \in Doc
                  PROVE  /\ Exists(parsed'[e]) /\ ~ParseNeeded(e)'
                              => parsed'[e].content = down'[e].content
                         /\ page'[e].content # 0 /\ parsed'[e].mtime <= page'[e].mtime
                              => page'[e].content = parsed'[e].content
      BY DEF Own
    <2>1. CASE e # d
      BY <1>3, <2>1 DEF Own, Download, ParseNeeded, TypeOK
    <2>2. CASE e = d
      <3>1. down'[d].mtime = Now
        BY <1>3 DEF Download, TypeOK
      <3>2. \/ parsed'[d] = NoFile /\ page'[d] = NoPage
            \/ parsed'[d] = parsed[d] /\ page'[d] = page[d]
        BY <1>3 DEF Download, TypeOK
      <3>3. parsed'[d].mtime < Now
        BY <3>2 DEF Times, NoFile
      <3>4. Exists(parsed'[d]) => ParseNeeded(d)'
        BY <3>1, <3>3 DEF ParseNeeded
      <3>5. page'[d].content # 0 => parsed'[d] = parsed[d] /\ page'[d] = page[d]
        BY <3>2 DEF NoPage
      <3>. QED  BY <2>2, <3>4, <3>5 DEF Own
    <2>. QED  BY <2>1, <2>2
  <1>4. ASSUME NEW d \in Doc, Parse(d) \/ ParseFails(d) PROVE Own'
    <2>. DEFINE f == [content |-> down[d].content, mtime |-> Now]
    <2>1. /\ parsed' = parsed \/ parsed' = [parsed EXCEPT ![d] = f]
          /\ UNCHANGED <<down, page>>
      BY <1>4 DEF Parse, ParseFails
    <2>2. CASE parsed' = parsed
      BY <2>1, <2>2 DEF Own, ParseNeeded
    <2>3. CASE parsed' = [parsed EXCEPT ![d] = f]
      <3>1. \A e \in Doc : parsed'[e] = IF e = d THEN f ELSE parsed[e]
        BY <2>3 DEF TypeOK
      <3>2. /\ f.mtime \in Nat /\ page[d].mtime < f.mtime
            /\ f.content = down[d].content
        BY DEF Times
      <3>. HIDE DEF f
      <3>. QED  BY <2>1, <3>1, <3>2, FileParts DEF Own, ParseNeeded, TypeOK
    <2>. QED  BY <2>1, <2>2, <2>3
  <1>5. ASSUME NEW d \in Doc, Relate(d) \/ RelateFails(d) PROVE Own'
    BY <1>5 DEF Relate, RelateFails, Own, ParseNeeded
  <1>6. ASSUME NEW d \in Doc, Generate(d) \/ GenerateFails(d) PROVE Own'
    <2>1. /\ UNCHANGED <<down, parsed>>
          /\ \A e \in Doc : \/ page'[e] = page[e]
                            \/ page'[e].content = parsed[e].content
      BY <1>6 DEF Generate, GenerateFails, TypeOK
    <2>. QED  BY <2>1 DEF Own, ParseNeeded
  <1>7. (\E d \in Doc : Skip(d)) \/ UNCHANGED vars => UNCHANGED files
    BY DEF Skip, vars, files
  <1>. QED  BY <1>1, <1>2, <1>3, <1>4, <1>5, <1>6, <1>7, MovesFiles
               DEF Next, Moves

(* What a pass without failure has gone by is up to date.                  *)
LEMMA BehindStep ==
  ASSUME Present, Times, Behind, [Next]_vars
  PROVE  Behind'
  <1>. USE Numbers DEF Present
  <1>1. CASE RelateAborted
    BY <1>1 DEF RelateAborted, Fails, Behind
  <1>2. CASE StartParse \/ StartRelateSetup \/ RelateSetup \/ EndPass \/ NextPass
    <2>1. \A d \in Doc : /\ ParseNeeded(d)' <=> ParseNeeded(d)
                         /\ GenerateNeeded(d)' <=> GenerateNeeded(d)
                         /\ UNCHANGED <<down, parsed>>
      BY <1>2, MovesFiles DEF files, Moves, ParseNeeded, GenerateNeeded, DepsOnDisk
    <2>2. CASE StartParse
      BY <2>1, <2>2 DEF StartParse, Go, Behind
    <2>3. CASE StartRelateSetup
      BY <2>1, <2>3 DEF StartRelateSetup, Go, Behind
    <2>4. CASE RelateSetup
      BY <2>1, <2>4 DEF RelateSetup, Go, ToGenerate, Behind
    <2>5. CASE EndPass
      BY <2>1, <2>5 DEF EndPass, Go, Behind
    <2>6. CASE NextPass
      BY <2>6 DEF NextPass, Go, Behind
    <2>. QED  BY <1>2, <2>2, <2>3, <2>4, <2>5, <2>6
  <1>3. CASE RelateTeardown
    <2>1. \A d \in Doc : ParseNeeded(d)' <=> ParseNeeded(d)
      BY <1>3 DEF RelateTeardown, ParseNeeded
    <2>. QED  BY <1>3, <2>1 DEF RelateTeardown, Go, ToGenerate, Behind
  <1>4. ASSUME NEW d \in Doc, Download(d) PROVE Behind'
    BY <1>4 DEF Download, Behind
  <1>5. ASSUME NEW d \in Doc, Parse(d) PROVE Behind'
    <2>1. /\ phase = "parse" /\ phase' = phase /\ todo' = todo \ {d}
          /\ failed' = failed /\ down' = down
      BY <1>5 DEF Parse
    <2>2. \A e \in Doc \ {d} : parsed'[e] = parsed[e]
      BY <1>5 DEF Parse, TypeOK
    <2>3. ~ParseNeeded(d)'
      <3>1. /\ parsed'[d] = [content |-> down[d].content, mtime |-> Now]
            /\ Exists(down[d])
        BY <1>5 DEF Parse, TypeOK
      <3>. QED  BY <2>1, <3>1 DEF ParseNeeded, Exists, Times
    <2>. QED  BY <2>1, <2>2, <2>3 DEF Behind, ParseNeeded
  <1>6. ASSUME NEW d \in Doc, ParseFails(d) \/ RelateFails(d) \/ GenerateFails(d)
        PROVE  Behind'
    BY <1>6 DEF ParseFails, RelateFails, GenerateFails, Fails, Behind
  <1>7. ASSUME NEW d \in Doc, Relate(d) PROVE Behind'
    BY <1>7 DEF Relate, Behind, ParseNeeded
  <1>8. ASSUME NEW d \in Doc, Generate(d) PROVE Behind'
    <2>1. /\ phase = "generate" /\ phase' = phase /\ todo' = todo \ {d}
          /\ failed' = failed /\ UNCHANGED <<down, parsed, deps>>
      BY <1>8 DEF Generate
    <2>2. \A e \in Doc \ {d} : page'[e] = page[e] /\ annot'[e] = annot[e]
      BY <1>8 DEF Generate, TypeOK
    <2>3. ~GenerateNeeded(d)'
      <3>1. /\ page'[d].content = parsed[d].content /\ page'[d].mtime = Now
            /\ annot'[d] = AnnotAfter(d) /\ Exists(parsed[d])
        BY <1>8 DEF Generate, TypeOK
      <3>2. annot'[d].mtime \in Nat /\ annot'[d].mtime <= Now
        BY <3>1, TimesAfter DEF Times
      <3>3. \A e \in Doc : parsed[e].mtime <= Now
        BY DEF Times
      <3>4. DepsOnDisk(d) \subseteq Doc
        BY ListParts DEF DepsOnDisk, TypeOK
      <3>5. DepsOnDisk(d)' = DepsOnDisk(d)
        BY <2>1 DEF DepsOnDisk
      <3>. QED  BY <2>1, <3>1, <3>2, <3>3, <3>4, <3>5 DEF GenerateNeeded, Exists
    <2>4. \A e \in Doc \ {d} : GenerateNeeded(e)' <=> GenerateNeeded(e)
      BY <2>1, <2>2 DEF GenerateNeeded, DepsOnDisk
    <2>. QED  BY <2>1, <2>3, <2>4 DEF Behind, ParseNeeded
  <1>9. ASSUME NEW d \in Doc, Skip(d) PROVE Behind'
    <2>1. \A e \in Doc : /\ ParseNeeded(e)' <=> ParseNeeded(e)
                         /\ GenerateNeeded(e)' <=> GenerateNeeded(e)
      BY <1>9 DEF Skip, files, ParseNeeded, GenerateNeeded, DepsOnDisk
    <2>. QED  BY <1>9, <2>1 DEF Skip, files, Behind
  <1>10. CASE UNCHANGED vars
    BY <1>10 DEF vars, Behind, ParseNeeded, GenerateNeeded, DepsOnDisk
  <1>. QED  BY <1>1, <1>2, <1>3, <1>4, <1>5, <1>6, <1>7, <1>8, <1>9, <1>10
               DEF Next

(* Whatever failed in earlier passes, a pass without failure leaves every  *)
(* page with the content of its own document, although only times are      *)
(* compared: what is older is made anew, and what is not has that content. *)
THEOREM OwnContent == Spec => []OwnContentHeals
  <1>. DEFINE Inv == Present /\ Times /\ Own /\ Behind
  <1>1. Init => Inv
    <2>. SUFFICES ASSUME Init PROVE Inv
      OBVIOUS
    <2>1. Present
      BY PresentInit
    <2>2. Times /\ Own /\ Behind
      BY DEF Init, Times, Own, Behind, NoFile, NoList, NoPage, Exists
    <2>. QED  BY <2>1, <2>2
  <1>2. Inv /\ [Next]_vars => Inv'
    BY PresentStep, TimesStep, OwnStep, BehindStep DEF Present
  <1>3. Inv => OwnContentHeals
    <2>. SUFFICES ASSUME Inv, phase = "done", ~failed, NEW d \in Doc
                  PROVE  page[d].content = down[d].content
      BY DEF OwnContentHeals
    <2>1. CASE Exists(down[d])
      <3>1. ~ParseNeeded(d)
        BY <2>1 DEF Behind
      <3>2. ~GenerateNeeded(d)
        BY <3>1 DEF Behind, ParseNeeded
      <3>. QED  BY <3>1, <3>2, Numbers
                   DEF Own, ParseNeeded, GenerateNeeded, Present
    <2>2. CASE ~Exists(down[d])
      BY <2>2 DEF Present, Exists
    <2>. QED  BY <2>1, <2>2
  <1>. HIDE DEF Inv
  <1>. QED  BY <1>1, <1>2, <1>3, PTL DEF Spec

-----------------------------------------------------------------------------
(* The steps that leave the store, the distilled files and their index     *)
(* times alone.                                                            *)
LEMMA StoredKept ==
  UNCHANGED <<distilled, loaded>> => \A d \in Doc : Stored(d)' <=> Stored(d)
  BY DEF Stored

(* What the entry or the pass says was related is in the store.            *)
LEMMA RelatedStep ==
  ASSUME Present, Times, Related, [Next]_vars
  PROVE  Related'
  <1>. USE Numbers DEF Present
  <1>1. CASE RelateAborted
    BY <1>1, StoredKept DEF RelateAborted, Fails, files, Related
  <1>2. CASE StartParse \/ StartRelateSetup \/ EndPass \/ NextPass
    BY <1>2, StoredKept
       DEF StartParse, StartRelateSetup, EndPass, NextPass, Go, files, Related
  <1>3. CASE RelateSetup
    <2>1. CASE DumpIsNewer
      BY <1>3, <2>1, StoredKept DEF RelateSetup, ToGenerate, Go, files, Related
    <2>2. CASE ~DumpIsNewer
      <3>1. \A d \in Doc \ todo' : Stored(d)
        BY <1>3, <2>2 DEF RelateSetup, Go, Stored
      <3>. QED  BY <1>3, <2>2, <3>1, StoredKept
                   DEF RelateSetup, Go, files, Related
    <2>. QED  BY <2>1, <2>2
  <1>4. CASE RelateTeardown
    BY <1>4, StoredKept DEF RelateTeardown, Go, ToGenerate, Related
  <1>5. ASSUME NEW d \in Doc, Download(d) PROVE Related'
    <2>1. /\ \A e \in Doc \ {d} : /\ distilled'[e] = distilled[e]
                                 /\ indexed'[e] = indexed[e]
          /\ \/ distilled'[d] = distilled[d] /\ indexed'[d] = indexed[d]
             \/ distilled'[d] = NoFile
          /\ loaded' = loaded /\ phase' = "download"
      BY <1>5 DEF Download, TypeOK
    <2>. QED  BY <2>1 DEF Related, Stored, NoFile, Exists
  <1>6. ASSUME NEW d \in Doc, Parse(d) PROVE Related'
    <2>1. /\ \A e \in Doc \ {d} : distilled'[e] = distilled[e]
          /\ distilled'[d].mtime = Now /\ indexed[d] < Now
          /\ UNCHANGED <<loaded, indexed>> /\ phase' = "parse"
      BY <1>6 DEF Parse, TypeOK, Times
    <2>. QED  BY <2>1 DEF Related, Stored
  <1>7. ASSUME NEW d \in Doc, ParseFails(d) \/ GenerateFails(d) PROVE Related'
    BY <1>7, StoredKept DEF ParseFails, GenerateFails, Fails, Related
  <1>8. ASSUME NEW d \in Doc, Relate(d) PROVE Related'
    <2>1. /\ distilled' = distilled /\ todo' = todo \ {d}
          /\ UNCHANGED <<phase, failed, skipped>> /\ phase = "relate"
          /\ loaded' = [loaded EXCEPT ![d] = @ \cup {distilled[d].content}]
          /\ indexed' = [indexed EXCEPT ![d] = Now]
      BY <1>8 DEF Relate
    <2>2. \A e \in Doc \ {d} : Stored(e)' <=> Stored(e)
      BY <2>1 DEF TypeOK, Stored
    <2>3. Stored(d)'
      BY <2>1 DEF TypeOK, Stored
    <2>4. \A e \in Doc \ {d} : indexed'[e] = indexed[e]
      BY <2>1 DEF TypeOK
    <2>. QED  BY <2>1, <2>2, <2>3, <2>4 DEF Related
  <1>9. ASSUME NEW d \in Doc, RelateFails(d) PROVE Related'
    <2>1. \A e \in Doc : loaded[e] \subseteq loaded'[e]
      BY <1>9 DEF RelateFails, TypeOK
    <2>2. \A e \in Doc : Stored(e) => Stored(e)'
      BY <1>9, <2>1 DEF RelateFails, Stored
    <2>. QED  BY <1>9, <2>2 DEF RelateFails, Fails, Related
  <1>10. ASSUME NEW d \in Doc, Generate(d) PROVE Related'
    BY <1>10, StoredKept DEF Generate, Related
  <1>11. ASSUME NEW d \in Doc, Skip(d) PROVE Related'
    <2>1. phase = "relate" => distilled[d].mtime <= indexed[d]
      BY <1>11 DEF Skip, RelateNeeded
    <2>2. phase = "relate" => Stored(d)
      BY <2>1 DEF Related
    <2>. QED  BY <1>11, <2>2, StoredKept DEF Skip, files, Related
  <1>12. CASE UNCHANGED vars
    BY <1>12, StoredKept DEF vars, Related
  <1>. QED  BY <1>1, <1>2, <1>3, <1>4, <1>5, <1>6, <1>7, <1>8, <1>9, <1>10,
               <1>11, <1>12 DEF Next

(* Whatever failed in earlier passes, a pass that neither fails nor skips  *)
(* relating leaves every distilled file in the store: what failed has no   *)
(* index time, and is related again.                                       *)
THEOREM RelatingHeals == Spec => []RelateHeals
  <1>. DEFINE Inv == Present /\ Times /\ Related
  <1>1. Init => Inv
    <2>. SUFFICES ASSUME Init PROVE Inv
      OBVIOUS
    <2>1. Present
      BY PresentInit
    <2>2. Times /\ Related
      BY DEF Init, Times, Related, Stored, NoFile, NoList, NoPage, Exists
    <2>. QED  BY <2>1, <2>2
  <1>2. Inv /\ [Next]_vars => Inv'
    BY PresentStep, TimesStep, RelatedStep DEF Present
  <1>3. Inv => RelateHeals
    BY DEF Related, Stored, RelateHeals
  <1>. HIDE DEF Inv
  <1>. QED  BY <1>1, <1>2, <1>3, PTL DEF Spec

-----------------------------------------------------------------------------
(* In a build where nothing has failed, every parsed file that is there    *)
(* when pages are made is in the store, and the dependency files and the   *)
(* triples agree; so a list that is made anew has every referrer.          *)
LEMMA ReferrersKnown ==
  ASSUME Present, Clean, failures = 0, phase = "generate", NEW d \in Doc,
         NEW e \in Doc, Exists(parsed[e]), d \in Refs[e][parsed[e].content]
  PROVE  e \in Referrers(d)
  <1>1. distilled[e] = parsed[e] /\ Stored(e)
    BY DEF Clean
  <1>2. parsed[e].content \in loaded[e]
    BY <1>1 DEF Stored
  <1>. QED  BY <1>2 DEF Referrers

(* A list that is not made anew is not older than any dependency on disk.  *)
LEMMA AnnotKnown ==
  ASSUME Present, Clean, DepsCoverTriples, failures = 0, phase = "generate",
         NEW d \in Doc, NEW e \in Doc, Exists(parsed[e]),
         d \in Refs[e][parsed[e].content]
  PROVE  e \in AnnotAfter(d).refs
  <1>1. e \in Referrers(d)
    BY ReferrersKnown
  <1>2. e \in DepsOnDisk(d)
    BY <1>1 DEF DepsCoverTriples, DepsOnDisk
  <1>3. CASE AnnotAfter(d) = [refs |-> Referrers(d), mtime |-> Now]
    BY <1>1, <1>3
  <1>4. CASE AnnotAfter(d) # [refs |-> Referrers(d), mtime |-> Now]
    <2>1. /\ AnnotAfter(d) = annot[d]
          /\ annot[d].mtime # 0 /\ ~(parsed[e].mtime > annot[d].mtime)
      BY <1>1, <1>2, <1>4 DEF AnnotAfter
    <2>2. parsed[e].mtime <= annot[d].mtime
      BY <2>1, Numbers DEF Present
    <2>. QED  BY <2>1, <2>2 DEF Clean, Known
  <1>. QED  BY <1>3, <1>4

(* A failing step ends the assumption that nothing has failed.             *)
LEMMA FailsCount == TypeOK /\ Fails => failures' # 0
  BY DEF TypeOK, Fails

(* While nothing has failed, times say no less than contents do.           *)
LEMMA CleanStep ==
  ASSUME Present, Times, Related, DepsCoverTriples, Clean, [Next]_vars
  PROVE  Clean'
  <1>. SUFFICES ASSUME failures' = 0 PROVE Clean'
    BY DEF Clean
  <1>. USE Numbers DEF Present
  <1>0. ~Fails
    BY FailsCount
  <1>1. CASE StartParse \/ StartRelateSetup \/ EndPass \/ NextPass
    BY <1>1, StoredKept DEF StartParse, StartRelateSetup, EndPass, NextPass,
                            Go, files, Clean, Known
  <1>2. CASE RelateSetup
    <2>1. /\ failures = 0 /\ UNCHANGED <<parsed, annot, page, distilled, dump>>
          /\ failed' = failed /\ \A d \in Doc : Stored(d)' <=> Stored(d)
          /\ phase' \in {"generate", "relate"}
      BY <1>2, StoredKept DEF RelateSetup, files, Go, ToGenerate
    <2>2. phase' = "generate" => \A d \in Doc : Stored(d)
      <3>1. phase' = "generate" => DumpIsNewer
        BY <1>2 DEF RelateSetup, Go
      <3>. QED  BY <2>1, <3>1 DEF DumpIsNewer, Clean, Stored
    <2>3. phase' = "relate" => \A d \in Doc \ todo' : Stored(d)
      BY <1>2 DEF RelateSetup, Go, ToGenerate, Stored
    <2>. QED  BY <2>1, <2>2, <2>3 DEF Clean, Known
  <1>3. CASE RelateTeardown
    <2>1. /\ failures = 0 /\ UNCHANGED <<parsed, annot, page, distilled>>
          /\ failed' = failed /\ phase' = "generate"
          /\ \A d \in Doc : Stored(d)' <=> Stored(d)
      BY <1>3, StoredKept DEF RelateTeardown, Go, ToGenerate
    <2>2. \A d \in Doc : Stored(d)
      BY <1>3, <2>1 DEF RelateTeardown, Clean
    <2>. QED  BY <2>1, <2>2 DEF Clean, Known
  <1>4. ASSUME NEW d \in Doc, Download(d) PROVE Clean'
    <2>1. /\ failures = 0 /\ UNCHANGED <<loaded, dump, failed>>
          /\ phase' = "download"
          /\ \A e \in Doc \ {d} :
               /\ parsed'[e] = parsed[e] /\ distilled'[e] = distilled[e]
               /\ annot'[e] = annot[e] /\ page'[e] = page[e]
          /\ \/ /\ parsed'[d] = parsed[d] /\ distilled'[d] = distilled[d]
                /\ annot'[d] = annot[d] /\ page'[d] = page[d]
             \/ /\ parsed'[d] = NoFile /\ distilled'[d] = NoFile
                /\ annot'[d] = NoList /\ page'[d] = NoPage
      BY <1>4 DEF Download, TypeOK
    <2>2. ~Exists(NoFile) /\ NoList.mtime = 0 /\ NoPage.mtime = 0
      BY DEF NoFile, NoList, NoPage, Exists
    <2>. SUFFICES ASSUME NEW e \in Doc
                  PROVE  /\ distilled'[e] = parsed'[e]
                         /\ (dump # 0 /\ distilled[e].mtime <= dump => Stored(e))'
                         /\ Known(annot[e], e)' /\ Known(page[e], e)'
      BY <2>1 DEF Clean
    <2>3. distilled'[e] = parsed'[e]
      BY <2>1 DEF Clean
    <2>4. (dump # 0 /\ distilled[e].mtime <= dump => Stored(e))'
      BY <2>1, <2>2 DEF Clean, Stored
    <2>5. \A f \in Doc : Exists(parsed'[f]) => parsed'[f] = parsed[f]
      BY <2>1, <2>2
    <2>6. annot'[e].mtime # 0 => annot'[e] = annot[e]
      BY <2>1, <2>2
    <2>7. page'[e].mtime # 0 => page'[e] = page[e]
      BY <2>1, <2>2
    <2>8. Known(annot[e], e) /\ Known(page[e], e)
      BY <2>1 DEF Clean
    <2>9. Known(annot[e], e)'
      BY <2>5, <2>6, <2>8 DEF Known
    <2>10. Known(page[e], e)'
      BY <2>5, <2>7, <2>8 DEF Known
    <2>. QED  BY <2>3, <2>4, <2>9, <2>10
  <1>5. ASSUME NEW d \in Doc, Parse(d) PROVE Clean'
    <2>1. /\ failures = 0 /\ UNCHANGED <<loaded, dump, failed, annot, page>>
          /\ phase' = "parse"
          /\ \A e \in Doc \ {d} :
               parsed'[e] = parsed[e] /\ distilled'[e] = distilled[e]
          /\ parsed'[d] = distilled'[d] /\ parsed'[d].mtime = Now
      BY <1>5 DEF Parse, TypeOK
    <2>. SUFFICES ASSUME NEW e \in Doc
                  PROVE  /\ distilled'[e] = parsed'[e]
                         /\ (dump # 0 /\ distilled[e].mtime <= dump => Stored(e))'
                         /\ Known(annot[e], e)' /\ Known(page[e], e)'
      BY <2>1 DEF Clean
    <2>2. distilled'[e] = parsed'[e]
      BY <2>1 DEF Clean
    <2>3. (dump # 0 /\ distilled[e].mtime <= dump => Stored(e))'
      BY <2>1 DEF Clean, Stored, Times
    <2>4. Known(annot[e], e) /\ Known(page[e], e)
      BY <2>1 DEF Clean
    <2>5. Known(annot[e], e)' /\ Known(page[e], e)'
      BY <2>1, <2>4 DEF Known, Times
    <2>. QED  BY <2>2, <2>3, <2>5
  <1>6. ASSUME NEW d \in Doc, Relate(d) PROVE Clean'
    <2>1. /\ failures = 0
          /\ UNCHANGED <<parsed, distilled, dump, failed, annot, page, phase>>
          /\ phase = "relate" /\ todo' = todo \ {d}
          /\ loaded' = [loaded EXCEPT ![d] = @ \cup {distilled[d].content}]
      BY <1>6 DEF Relate
    <2>2. \A e \in Doc : Stored(e) => Stored(e)'
      BY <2>1 DEF TypeOK, Stored
    <2>3. Stored(d)'
      BY <2>1 DEF TypeOK, Stored
    <2>. QED  BY <2>1, <2>2, <2>3 DEF Clean, Known
  <1>7. ASSUME NEW d \in Doc, Generate(d) PROVE Clean'
    <2>1. /\ failures = 0 /\ phase = "generate"
          /\ UNCHANGED <<parsed, distilled, loaded, dump, failed, phase>>
          /\ \A e \in Doc \ {d} : annot'[e] = annot[e] /\ page'[e] = page[e]
          /\ annot'[d] = AnnotAfter(d)
          /\ page'[d].refs = AnnotAfter(d).refs
      BY <1>7 DEF Generate, TypeOK
    <2>2. \A e \in Doc : Stored(e)' <=> Stored(e)
      BY <2>1, StoredKept
    <2>3. Known(annot[d], d)' /\ Known(page[d], d)'
      BY <2>1, AnnotKnown DEF Known
    <2>4. \A e \in Doc \ {d} : Known(annot[e], e)' /\ Known(page[e], e)'
      BY <2>1 DEF Clean, Known
    <2>. QED  BY <2>1, <2>2, <2>3, <2>4 DEF Clean
  <1>8. ASSUME NEW d \in Doc, Skip(d) PROVE Clean'
    <2>1. /\ failures = 0 /\ todo' = todo \ {d}
          /\ UNCHANGED <<parsed, distilled, loaded, dump, failed, annot, page,
                         phase>>
      BY <1>8 DEF Skip, files
    <2>2. phase = "relate" => Stored(d)
      BY <1>8 DEF Skip, RelateNeeded, Related
    <2>. QED  BY <2>1, <2>2, StoredKept DEF Clean, Known
  <1>9. CASE UNCHANGED vars
    BY <1>9, StoredKept DEF vars, Clean, Known
  <1>10. ~RelateAborted /\ \A d \in Doc : /\ ~ParseFails(d) /\ ~RelateFails(d)
                                         /\ ~GenerateFails(d)
    BY <1>0 DEF RelateAborted, ParseFails, RelateFails, GenerateFails
  <1>. HIDE DEF Present
  <1>. QED  BY <1>1, <1>2, <1>3, <1>4, <1>5, <1>6, <1>7, <1>8, <1>9, <1>10
               DEF Next

(* The invariant of the pipeline. *)
LEMMA Invariant == Spec => []IInv
  <1>1. Init => IInv
    <2>. SUFFICES ASSUME Init PROVE IInv
      OBVIOUS
    <2>1. Present
      BY PresentInit
    <2>2. Times /\ Own /\ Behind /\ Related
      BY DEF Init, Times, Own, Behind, Related, Stored, NoFile, NoList, NoPage,
             Exists
    <2>3. DepsCoverTriples
      BY DEF Init, DepsCoverTriples, Referrers
    <2>4. Clean
      BY DEF Init, Clean, Known, NoList, NoPage
    <2>. QED  BY <2>1, <2>2, <2>3, <2>4 DEF IInv
  <1>2. IInv /\ [Next]_vars => IInv'
    BY PresentStep, TimesStep, OwnStep, BehindStep, RelatedStep, CoverStep,
       CleanStep DEF IInv, Present
  <1>. QED  BY <1>1, <1>2, PTL DEF Spec

(* In a build in which nothing has ever failed, every pass leaves every    *)
(* page with its document's current content and with every document that   *)
(* refers to it: the times that are compared, the dependency files and the *)
(* store say no less than the contents do.                                 *)
THEOREM FreshPages == Spec => []FreshAfterCleanBuild
  <1>1. IInv => FreshAfterCleanBuild
    <2>. SUFFICES ASSUME IInv, phase = "done", failures = 0,
                         NEW d \in Doc, Exists(down[d])
                  PROVE  /\ page[d].content = down[d].content
                         /\ TrueReferrers(d) \subseteq page[d].refs
      BY DEF FreshAfterCleanBuild
    <2>. USE Numbers DEF IInv, Present
    <2>1. ~failed
      BY DEF Clean
    <2>2. \A e \in Doc : Exists(down[e]) =>
            Exists(parsed[e]) /\ parsed[e].content = down[e].content
      BY <2>1 DEF Behind, ParseNeeded, Own
    <2>3. ~GenerateNeeded(d)
      BY <2>1, <2>2 DEF Behind
    <2>4. page[d].content = down[d].content
      BY <2>2, <2>3 DEF GenerateNeeded, Own
    <2>5. ASSUME NEW e \in TrueReferrers(d) PROVE e \in page[d].refs
      <3>1. /\ e \in Doc /\ Exists(parsed[e])
            /\ d \in Refs[e][parsed[e].content]
        BY <2>2 DEF TrueReferrers
      <3>2. e \in DepsOnDisk(d)
        <4>1. parsed[e].content \in loaded[e]
          BY <3>1 DEF Clean, Stored
        <4>. QED  BY <3>1, <4>1 DEF DepsCoverTriples, Referrers, DepsOnDisk
      <3>3. parsed[e].mtime <= page[d].mtime
        BY <2>3, <3>1, <3>2 DEF GenerateNeeded
      <3>4. page[d].mtime # 0
        <4>1. parsed[d].mtime # 0 /\ ~(parsed[d].mtime > page[d].mtime)
          BY <2>2, <2>3 DEF GenerateNeeded, Times
        <4>. QED  BY <4>1
      <3>. QED  BY <3>1, <3>3, <3>4 DEF Clean, Known
    <2>. QED  BY <2>4, <2>5
  <1>. QED  BY <1>1, Invariant, PTL
=============================================================================
