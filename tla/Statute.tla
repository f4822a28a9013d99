------------------------------- MODULE Statute -------------------------------
(***************************************************************************)
(* How the text of a Swedish statute becomes a document: the recursive     *)
(* parser (sources/legal/se/sfs_parser.py), which finds parts, chapters,   *)
(* sections, lists, tables, transitional provisions and appendices by the  *)
(* looks of each paragraph and by the numbers it has seen; the URIs that   *)
(* chapters and sections get (construct_id in sfs.py); and the moving of   *)
(* transitional provisions to the acts they come with (postprocess_doc).   *)
(*                                                                         *)
(* A paragraph is a chunk: what it looks like, its number, marks, and the  *)
(* date directive in it, if any.  The recursion of the makeX functions is  *)
(* a sequence of frames, which are places in the sequence of nodes made.   *)
(***************************************************************************)
EXTENDS Naturals, Sequences, FiniteSets

CONSTANTS
  Texts,       \* the statutes, sequences of chunks
  Basefile,    \* the number of the statute's own act
  Registered   \* the numbers of the acts in the register

Looks == {"avd", "uavd", "upphkap", "upphpar", "kap", "par", "tab", "obs",
          "ob", "bil", "num", "streck", "bokst", "rub", "dir", "text"}

(* "closed": a chapter line that ends like running text.  "lower": a       *)
(* section that goes on in lower case.  "long": more than one short line.  *)
(* "lines": a part's heading with more lines than one, of which the next   *)
(* chunk is the rest.  "toc": history, a chapter line in a table of        *)
(* contents.                                                               *)
Marks == {"closed", "lower", "long", "lines", "toc"}

(* No date, or a date from which the chunk applies or applies no longer,   *)
(* each of them before or after today.                                     *)
Dates == {"none", "ended", "ends", "begun", "begins"}

Chunk == [look : Looks, no : Nat, marks : SUBSET Marks, date : Dates]

ASSUME StatuteAssumption ==
  /\ \A t \in Texts : t \in Seq(Chunk) /\ t # <<>>
  /\ Basefile \in Nat /\ Registered \subseteq Nat

VARIABLES
  doc,      \* the chunks
  pos,      \* the place the reader has come to
  frames,   \* the elements being made, as places in nodes
  nodes,    \* the elements made: [kind, no, up, own, date]
  state,    \* [avdelning, chapter, section, fake, level]
  named,    \* of the first elements: [visit, attrs, uri]
  body,     \* the chunks in the document that parse leaves
  status

vars == <<doc, pos, frames, nodes, state, named, body, status>>

ikrafttrader(c) == c.date \in {"begun", "begins"}

Node(kind, no, up, own, date) ==
  [kind |-> kind, no |-> no, up |-> up, own |-> own, date |-> date]

(* A directive in the first line is the statute's own, and the line is     *)
(* read past.                                                              *)
makeForfattning ==
  LET dated == ikrafttrader(doc[1])
  IN  /\ pos = IF dated THEN 2 ELSE 1
      /\ nodes = <<Node("root", 0, 0, IF dated THEN {1} ELSE {}, "none")>>

make_parser ==
  state = [avdelning |-> 0, chapter |-> 0, section |-> 0, fake |-> 0,
           level |-> 0]

Init ==
  /\ doc \in Texts
  /\ makeForfattning /\ make_parser
  /\ frames = <<1>>
  /\ named = <<>> /\ body = {}
  /\ status = "parsing"

eof(i) == i > Len(doc)
Look(i) == IF eof(i) THEN "eof" ELSE doc[i].look
Marked(i, m) == m \in doc[i].marks

-----------------------------------------------------------------------------
(* The recognizers, of the chunk at place i; past the end they are given   *)
(* the empty string, for which they look at the current chunk instead.     *)

(* A section is not less than the last one and does not go on in lower     *)
(* case; a first section always is one.                                    *)
isParagraf(i) ==
  LET j == IF eof(i) THEN pos ELSE i
  IN  /\ Look(j) \in {"par", "upphpar"}
      /\ \/ doc[j].no = 1
         \/ doc[j].no >= state.section /\ ~Marked(j, "lower")

isNumreradLista == Look(pos) = "num"

(* isRubrik of a following paragraph.                                      *)
LooksLikeRubrik(i) ==
  IF eof(i) THEN ~isParagraf(pos) /\ Look(pos) \notin {"num", "streck"}
  ELSE Look(i) \in {"rub", "avd", "uavd", "obs", "bil"}

isRubrik ==
  /\ LooksLikeRubrik(pos)
  /\ isParagraf(pos + 1) \/ LooksLikeRubrik(pos + 1)

(* A part comes after the last one; in the first chapter it is taken for a *)
(* line of a table of contents.                                            *)
isAvdelning ==
  /\ Look(pos) = "avd"
  /\ doc[pos].no > state.avdelning /\ state.chapter # 1

(* A line with the number of a chapter may be one of a table of contents   *)
(* as long as there was only one section: then it begins a chapter only    *)
(* when the numbers start again.                                           *)
idOfKapitel(i) == Look(i) \in {"kap", "upphkap"} /\ ~Marked(i, "closed")

MayBeContents == state.chapter = 1 /\ state.section = 1

isKapitel(i) ==
  /\ idOfKapitel(i) /\ doc[i].no >= state.chapter
  /\ MayBeContents => doc[i].no < state.fake

isOvergangsbestammelser ==
  Look(pos) = "obs" /\ (eof(pos + 1) \/ ~isParagraf(pos + 1))

(* Where the next paragraph begins. *)
After(i) == IF ~eof(i) /\ Marked(i, "lines") THEN i + 2 ELSE i + 1

(* In a table every short line is a row, unless it is a section, has one   *)
(* after it or after a heading, or begins the provisions or an appendix.   *)
isTabell(assumeTable) ==
  \/ Look(pos) = "tab"
  \/ /\ assumeTable /\ ~Marked(pos, "long")
     /\ ~isParagraf(pos) /\ ~isParagraf(pos + 1)
     /\ ~(LooksLikeRubrik(pos + 1) /\ isParagraf(After(pos + 1)))
     /\ ~isOvergangsbestammelser /\ Look(pos) # "bil"

-----------------------------------------------------------------------------
(* guess_state: the recognizers in their order, and what they remember.    *)

Recognizers == <<"avd", "uavd", "upphkap", "upphpar", "kap", "par", "tab",
                 "obs", "ob", "bil", "num", "streck", "bokst", "rub">>

Recognized(h) ==
  CASE h = "avd" -> isAvdelning
    [] h = "kap" -> isKapitel(pos)
    [] h = "par" -> isParagraf(pos)
    [] h = "tab" -> isTabell(FALSE)
    [] h = "obs" -> isOvergangsbestammelser
    [] h = "rub" -> isRubrik
    [] OTHER -> Look(pos) = h

guess_state ==
  LET yes == {i \in DOMAIN Recognizers : Recognized(Recognizers[i])}
  IN  IF yes = {} THEN "stycke"
      ELSE Recognizers[CHOOSE i \in yes : \A j \in yes : i <= j]

(* A line that was not taken for a chapter is remembered, and a heading    *)
(* that another one follows makes that one a subheading.                   *)
AfterGuess(h) ==
  IF /\ Look(pos) = "kap" /\ idOfKapitel(pos) /\ ~isKapitel(pos)
     /\ doc[pos].no >= state.chapter
  THEN [state EXCEPT !.fake = doc[pos].no]
  ELSE IF h = "rub" /\ LooksLikeRubrik(pos + 1) /\ doc[pos].date = "none"
  THEN [state EXCEPT !.level = 1]
  ELSE state

-----------------------------------------------------------------------------
(* The loops of the makeX functions: what ends each element.               *)

Handlers == {Recognizers[i] : i \in DOMAIN Recognizers} \cup {"stycke"}
Lists == {"num", "streck", "bokst"}

PartEnds == {"avd", "obs", "bil"}

(* Mutant: a chapter goes on over the heading of a subdivision. *)
ChapterEndsLate == PartEnds \cup {"kap", "upphkap"}
ChapterEnds == PartEnds \cup {"uavd", "kap", "upphkap"}

(* Mutant: a section that was revoked does not end the one before it. *)
SectionEndsLate == ChapterEnds \cup {"par", "rub", "ob"}
SectionEnds == ChapterEnds \cup {"par", "upphpar", "rub", "ob"}

Ends ==
  [root |-> {}, avd |-> PartEnds, uavd |-> PartEnds \cup {"uavd"},
   kap |-> ChapterEnds, par |-> SectionEnds,
   stycke |-> Handlers \ (Lists \cup {"tab"}),
   num |-> Handlers \ Lists,
   streck |-> Handlers \ {"streck"}, bokst |-> Handlers \ {"bokst"},
   obs |-> {"bil"}, ob |-> {"ob", "bil"}, bil |-> {"bil", "obs"}]

Top == frames[Len(frames)]
Within == nodes[Top].kind
Parsing == status = "parsing"

(* In a numbered list the next paragraph is tried as an item first.        *)
ItemFirst == Within = "num" /\ isNumreradLista
Handler == IF ItemFirst THEN "num" ELSE guess_state
Remembered == IF ItemFirst THEN state ELSE AfterGuess(Handler)

rest == <<doc, named, body, status>>

Turn(h) == /\ Parsing /\ ~eof(pos) /\ Within \notin {"tab", "wrap"}
           /\ Handler = h

Return ==
  /\ \E h \in Handlers : Turn(h) /\ h \in Ends[Within]
  /\ frames' = SubSeq(frames, 1, Len(frames) - 1)
  /\ state' = Remembered
  /\ UNCHANGED <<pos, nodes, rest>>

(* assert state_handler == makeStycke: in a section nothing else is left,  *)
(* or the parser stops here.                                               *)
Makes(h) == /\ Turn(h) /\ h \notin Ends[Within]
            /\ Within = "par" => h = "stycke"

(* The elements of chain, each one in the one before it, are made in the   *)
(* current element; opened, they are made further.  What comes among the   *)
(* transitional provisions without a number of its own is wrapped in one   *)
(* that gets the statute's.                                                *)
Made(chain, opened) ==
  LET wraps == Within = "obs" /\ chain[1].kind # "ob"
      all == IF wraps
             THEN <<Node("wrap", Basefile, 0, {}, "none")>> \o chain ELSE chain
      n == Len(nodes)
      kept == IF opened THEN Len(all) ELSE IF wraps THEN 1 ELSE 0
  IN  /\ nodes' = nodes \o [i \in DOMAIN all |->
                    [all[i] EXCEPT !.up = IF i = 1 THEN Top ELSE n + i - 1]]
      /\ frames' = frames \o [i \in 1..kept |-> n + i]
      /\ UNCHANGED rest

(* The element of the current chunk and of how many after it.              *)
Element(kind, n) ==
  Node(kind, doc[pos].no, 0, pos..(pos + n - 1), doc[pos].date)

(* The lines up to the one after a label of the part are looked at; in a   *)
(* text without them an IOError stops the parser.                          *)
LinesFollow ==
  \/ Marked(pos, "lines")
  \/ ~eof(pos + 1) /\ (Marked(pos + 1, "long") \/ ~eof(pos + 2))

makeAvdelning ==
  /\ Makes("avd")
  /\ LinesFollow
  /\ LET label == /\ ~Marked(pos, "lines") /\ ~Marked(pos + 1, "long")
                  /\ ~isKapitel(pos + 1) /\ Look(pos + 1) # "uavd"
         n == IF label THEN 2 ELSE 1
     IN  Made(<<Element("avd", n)>>, TRUE) /\ pos' = pos + n
  /\ state' = [Remembered EXCEPT !.avdelning = doc[pos].no]

makeUnderavdelning ==
  /\ Makes("uavd")
  /\ Made(<<Element("uavd", 1)>>, TRUE)
  /\ pos' = pos + 1 /\ state' = Remembered

makeUpphavtKapitel ==
  /\ Makes("upphkap")
  /\ Made(<<Element("upphkap", 1)>>, FALSE)
  /\ pos' = pos + 1 /\ state' = Remembered

makeKapitel ==
  /\ Makes("kap")
  /\ Made(<<Element("kap", 1)>>, TRUE)
  /\ pos' = pos + 1
  /\ state' = [Remembered EXCEPT !.level = 0, !.section = 0, !.fake = 0,
                                 !.chapter = doc[pos].no]

(* The number of a heading is its level.                                   *)
makeRubrik ==
  /\ Makes("rub")
  /\ LET level == IF Remembered.level = 2 THEN 2 ELSE 1
     IN  Made(<<[Element("rub", 1) EXCEPT !.no = level]>>, FALSE)
  /\ pos' = pos + 1
  /\ state' = [Remembered EXCEPT !.level = IF @ = 1 THEN 2 ELSE @]

makeUpphavdParagraf ==
  /\ Makes("upphpar")
  /\ Made(<<Element("upphpar", 1)>>, FALSE)
  /\ pos' = pos + 1
  /\ state' = [Remembered EXCEPT !.section = doc[pos].no]

(* Mutant: the table of contents is not expected a second time. *)
NoContentsAgain == FALSE

(* The first section of a first chapter that has a new wording may contain *)
(* the table of contents once more.                                        *)
ContentsAgain ==
  doc[pos].no = 1 /\ state.chapter = 1 /\ ikrafttrader(doc[pos])

makeParagraf ==
  /\ Makes("par")
  /\ Made(<<Element("par", 0), Element("stycke", 1)>>, TRUE)
  /\ pos' = pos + 1
  /\ state' = [Remembered EXCEPT !.section = doc[pos].no,
                                 !.fake = IF ContentsAgain THEN 0 ELSE @]

makeStycke ==
  /\ Makes("stycke")
  /\ Made(<<Element("stycke", 1)>>, TRUE)
  /\ pos' = pos + 1 /\ state' = Remembered

(* A list is begun, and its first item is made in its own loop.            *)
makeLista ==
  /\ \E h \in Lists :
       /\ Makes(h) /\ Within # h
       /\ Made(<<Element(h, 0)>>, TRUE)
  /\ state' = Remembered
  /\ UNCHANGED pos

Listelement ==
  /\ \E h \in Lists : Makes(h) /\ Within = h
  /\ nodes' = [nodes EXCEPT ![Top].own = @ \cup {pos}]
  /\ pos' = pos + 1 /\ state' = Remembered
  /\ UNCHANGED <<frames, rest>>

makeTabell ==
  /\ Makes("tab")
  /\ Made(<<Element("tab", 1)>>, TRUE)
  /\ pos' = pos + 1 /\ state' = Remembered

(* A line that begins with a directive is read past, and only gives the    *)
(* rows after it a date.                                                   *)
Directive == Look(pos) = "dir" \/ (Look(pos) = "rub" /\ doc[pos].date # "none")

Tabellrad ==
  /\ Parsing /\ ~eof(pos) /\ Within = "tab"
  /\ Directive \/ isTabell(TRUE)
  /\ nodes' = IF Directive THEN nodes
              ELSE [nodes EXCEPT ![Top].own = @ \cup {pos}]
  /\ pos' = pos + 1
  /\ UNCHANGED <<frames, state, rest>>

makeOvergangsbestammelser ==
  /\ Makes("obs")
  /\ Made(<<Element("obs", 1)>>, TRUE)
  /\ pos' = pos + 1 /\ state' = Remembered

(* Mutant: the number of the first provision is taken for the heading. *)
NumberAsHeading ==
  /\ Makes("ob") /\ Within = "root"
  /\ Made(<<Element("obs", 1)>>, TRUE)
  /\ pos' = pos + 1 /\ state' = Remembered

(* Provisions that come without their heading after the text.              *)
RubrikSaknas ==
  /\ Makes("ob") /\ Within = "root"
  /\ Made(<<Element("obs", 0)>>, TRUE)
  /\ state' = Remembered
  /\ UNCHANGED pos

makeOvergangsbestammelse ==
  /\ Makes("ob") /\ Within # "root"
  /\ Made(<<Element("ob", 1)>>, TRUE)
  /\ pos' = pos + 1 /\ state' = Remembered

makeBilaga ==
  /\ Makes("bil")
  /\ Made(<<Element("bil", 1)>>, TRUE)
  /\ pos' = pos + 1 /\ state' = Remembered

(* The table ends, or what a transitional provision was wrapped around.    *)
InnerReturn ==
  /\ Parsing /\ ~eof(pos)
  /\ \/ Within = "wrap"
     \/ Within = "tab" /\ ~Directive /\ ~isTabell(TRUE)
  /\ frames' = SubSeq(frames, 1, Len(frames) - 1)
  /\ UNCHANGED <<pos, nodes, state, rest>>

(* Every loop ends when the reader has come to the end.                    *)
EndOfText ==
  /\ Parsing /\ eof(pos)
  /\ frames' = <<1>>
  /\ status' = "naming"
  /\ UNCHANGED <<doc, pos, nodes, state, named, body>>

-----------------------------------------------------------------------------
(* construct_id visits the elements in the order they were made, and gives *)
(* parts, chapters and sections a URI that is made of their numbers and of *)
(* those they are in.  What is in transitional provisions and appendices   *)
(* gets URIs with their numbers, which no other element has.               *)

InEffect(n) == n.date \in {"none", "ends", "begun"}

NoAttrs == [avd |-> 0, uavd |-> 0, kap |-> 0, par |-> 0]
NoURI == NoAttrs

(* The elements each one is in.                                            *)
Above == LET up[k \in DOMAIN nodes] ==
               IF k = 1 THEN {} ELSE {nodes[k].up} \cup up[nodes[k].up]
         IN  up

(* The elements that _count_elements comes to: it does not go into the     *)
(* transitional provisions, which have no fragment_label.                  *)
Reached == {k \in DOMAIN nodes : \A j \in Above[k] : nodes[j].kind # "obs"}

FirstSections == {k \in Reached : nodes[k].kind = "par" /\ nodes[k].no = 1}

(* Mutant: one first section too many is let pass. *)
ContinuousToTwo ==
  /\ \E k \in Reached : nodes[k].kind = "kap"
  /\ Cardinality(FirstSections) <= 2

(* set_skipfragments: with chapters and at most one first section the      *)
(* sections are numbered through the whole statute.                        *)
Continuous ==
  /\ \E k \in Reached : nodes[k].kind = "kap"
  /\ Cardinality(FirstSections) < 2

(* The number of a part does not count beside that of a chapter, and that  *)
(* of a chapter not beside one that is continuous.                         *)
set_skipfragments(a) ==
  LET b == IF a.kap # 0 THEN [a EXCEPT !.avd = 0, !.uavd = 0] ELSE a
  IN  IF Continuous /\ a.par # 0 THEN [b EXCEPT !.kap = 0] ELSE b

(* The attributes of the element and whether its children are visited.     *)
(* Which elements have attributes is what lagen/nu/sfs.py says; paragraphs *)
(* and headings, which have nothing with a number in them, are left out.   *)
Visited(n) ==
  LET parent == named[n.up]
      attrs == set_skipfragments([parent.attrs EXCEPT ![n.kind] = n.no])
      taken == \E k \in DOMAIN named : named[k].uri = attrs
      ok == ~taken /\ (n.kind \in {"kap", "par"} => InEffect(n))
  IN  IF ~parent.visit \/ n.kind \in {"obs", "ob", "wrap", "bil"}
      THEN [visit |-> FALSE, attrs |-> NoAttrs, uri |-> NoURI]
      ELSE IF n.kind \in DOMAIN NoAttrs
      THEN [visit |-> ok, attrs |-> attrs, uri |-> IF ok THEN attrs ELSE NoURI]
      ELSE [visit |-> TRUE, attrs |-> parent.attrs, uri |-> NoURI]

construct_id ==
  /\ status = "naming" /\ Len(named) < Len(nodes)
  /\ named' = Append(named,
                IF named = <<>>
                THEN [visit |-> TRUE, attrs |-> NoAttrs, uri |-> NoURI]
                ELSE Visited(nodes[Len(named) + 1]))
  /\ UNCHANGED <<doc, pos, frames, nodes, state, body, status>>

-----------------------------------------------------------------------------
(* postprocess_doc *)

Children(k) == {j \in DOMAIN nodes : nodes[j].up = k}

In(k) == {j \in DOMAIN nodes : j = k \/ k \in Above[j]}
Chunks(ks) == UNION {nodes[j].own : j \in ks}

(* The provisions of the first list of them are taken from the document;   *)
(* the last one of each act comes back with the act, if it is in the       *)
(* register.                                                               *)
postprocess_doc ==
  LET lists == {k \in Children(1) : nodes[k].kind = "obs"}
      first == {k \in lists : \A j \in lists : k <= j}
      obs == UNION {Children(k) : k \in first}
      back == {k \in obs : /\ nodes[k].no \in Registered
                           /\ \A j \in obs : nodes[j].no = nodes[k].no
                                              => j <= k}
      gone == IF obs = {} THEN {} ELSE UNION {In(k) : k \in first}
  IN  /\ status = "naming" /\ Len(named) = Len(nodes)
      /\ body' = Chunks((DOMAIN nodes \ gone) \cup UNION {In(k) : k \in back})
      /\ status' = "done"
      /\ UNCHANGED <<doc, pos, frames, nodes, state, named>>

Next ==
  \/ Return \/ InnerReturn
  \/ makeAvdelning \/ makeUnderavdelning \/ makeUpphavtKapitel \/ makeKapitel
  \/ makeRubrik \/ makeUpphavdParagraf \/ makeParagraf \/ makeStycke
  \/ makeLista \/ Listelement \/ makeTabell \/ Tabellrad
  \/ makeOvergangsbestammelser \/ RubrikSaknas \/ makeOvergangsbestammelse
  \/ makeBilaga
  \/ EndOfText \/ construct_id \/ postprocess_doc

Spec == Init /\ [][Next]_vars /\ WF_vars(Next)

-----------------------------------------------------------------------------
Done == status = "done"

(* The types of the variables. *)
TypeOK ==
  /\ pos \in 1..(Len(doc) + 1)
  /\ Len(frames) >= 1
  /\ \A i \in DOMAIN frames : frames[i] \in DOMAIN nodes
  /\ \A k \in DOMAIN nodes :
       /\ nodes[k].kind \in
            DOMAIN Ends \cup {"rub", "upphkap", "upphpar", "tab", "wrap"}
       /\ nodes[k].own \subseteq DOMAIN doc /\ nodes[k].up \in 0..(k - 1)
  /\ body \subseteq DOMAIN doc
  /\ status \in {"parsing", "naming", "done"}

(* The lines of a table of contents, and those that begin chapters.        *)
Contents == {i \in DOMAIN doc : Marked(i, "toc")}
Chapters == {i \in DOMAIN doc : Look(i) = "kap"} \ Contents

(* The sections of the chapter that begins at r, whole or revoked.         *)
SectionsOf(r) ==
  {p \in DOMAIN doc : /\ Look(p) \in {"par", "upphpar"} /\ r < p
                      /\ \A j \in Chapters : ~(r < j /\ j < p)}

(* A new wording of the first section.                                     *)
Reworded(p) == Look(p) = "par" /\ doc[p].no = 1 /\ ikrafttrader(doc[p])

(* Chapters and sections are in order, the statute has no parts or tables, *)
(* and the first section of the first chapter, at r, lists the chapters up *)
(* to the line l, again in each of its wordings.                           *)
ListsChapters(r, l) ==
  LET first == SectionsOf(r)
  IN  /\ \A i \in DOMAIN doc : Look(i) \notin {"avd", "tab"}
      /\ r \in Chapters /\ doc[r].no = 1 /\ (r = 1 => ~ikrafttrader(doc[r]))
      /\ l \in Contents /\ ~Marked(l, "closed") /\ doc[l].no >= 1
      /\ \A j \in Chapters : /\ ~Marked(j, "closed")
                             /\ j # r => j > l /\ doc[j].no >= 2
                             /\ \A k \in Chapters :
                                  j < k => doc[j].no <= doc[k].no
      /\ \A c \in Contents : /\ Look(c) = "kap" /\ r < c /\ c <= l
                             /\ \E p \in first : p < c
                             /\ \A p \in first : p < c => doc[p].no = 1
                             /\ \A d \in Contents :
                                  c < d /\ doc[d].no < doc[c].no
                                  => \E p \in first : /\ Reworded(p)
                                                      /\ c < p /\ p < d
      /\ \A p \in first : /\ ~Marked(p, "lower")
                          /\ Reworded(p) => p < l
                          /\ \A q \in first : p < q => doc[p].no <= doc[q].no

(* A table of contents of three or more chapters, or followed by a second  *)
(* section: its lines never begin a chapter, and the chapters it lists are *)
(* all found, also when the section is there in several wordings.          *)
ChaptersFound ==
  LET next(r, j) == j > r /\ \A k \in Chapters : ~(r < k /\ k < j)
      clear(r, l) == \A j \in Chapters :
                       next(r, j) => \/ doc[j].no < doc[l].no
                                     \/ \E p \in SectionsOf(r) :
                                          p < j /\ doc[p].no >= 2
      found == UNION {nodes[k].own : k \in
                        {j \in DOMAIN nodes : nodes[j].kind = "kap"}}
  IN  Done => \A r, l \in DOMAIN doc :
                ListsChapters(r, l) /\ clear(r, l) => found = Chapters

(* However headings, lists, tables and revoked elements come, an element   *)
(* is only in one of a higher rank: a part never ends up in a chapter, nor *)
(* a section in a section or a heading in a paragraph; and an appendix is  *)
(* never in anything.                                                      *)
Rank == [avd |-> 1, uavd |-> 2, kap |-> 3, upphkap |-> 3, rub |-> 4,
         par |-> 4, upphpar |-> 4, stycke |-> 5, num |-> 6, streck |-> 7,
         bokst |-> 7, tab |-> 7]

NestedByRank ==
  \A k \in DOMAIN nodes :
    /\ nodes[k].kind = "bil" => nodes[k].up = 1
    /\ nodes[k].kind \in DOMAIN Rank /\ nodes[nodes[k].up].kind \in DOMAIN Rank
       => Rank[nodes[nodes[k].up].kind] < Rank[nodes[k].kind]

(* Which elements are of the statute's main part, and which apply today.   *)
Kinds(kind) == {k \in DOMAIN nodes : nodes[k].kind = kind}
Main(k) == \A j \in Above[k] \cup {k} :
             nodes[j].kind \notin {"obs", "ob", "wrap", "bil"}
InForce(k) == \A j \in Above[k] \cup {k} :
              nodes[j].kind \in {"kap", "par"} => InEffect(nodes[j])

(* When chapters, and the sections of each, have numbers (not 0) of their  *)
(* own, and sections begin with 1 in every chapter or never repeat one:    *)
(* whichever way the statute is numbered, every section in force in a      *)
(* chapter in force gets a URI of its own.                                 *)
SectionsNamed ==
  LET numbered == {k \in DOMAIN nodes : /\ nodes[k].kind \in DOMAIN NoAttrs
                                        /\ Main(k) /\ InForce(k)}
      sections == numbered \cap Kinds("par")
      chapters == numbered \cap Kinds("kap")
      same(a, b) == nodes[a].kind = nodes[b].kind /\ nodes[a].no = nodes[b].no
      distinct == \A a, b \in numbered :
                    same(a, b) /\ (nodes[a].up = nodes[b].up \/ a \in chapters)
                    => a = b
      of(c) == {k \in sections : nodes[k].up = c}
      restarts == \A c \in DOMAIN nodes :
                    of(c) # {} => \E k \in of(c) : nodes[k].no = 1
      continues == \A a, b \in sections : same(a, b) => a = b
      counted == \A k \in numbered : nodes[k].no # 0
  IN  Done /\ distinct /\ counted /\ (restarts \/ continues)
      => \A k \in sections : named[k].uri # NoURI

(* "combine data from the registry with any possible overgangsbestammelser *)
(* and append them at the end of the document": when each of them begins   *)
(* with the number of an act of its own that is in the register, not a     *)
(* paragraph of the statute is lost but their heading.                     *)
TransitionalKept ==
  LET acts == {i \in DOMAIN doc : Look(i) = "ob"}
      heads == {i \in DOMAIN doc : Look(i) = "obs"}
  IN  Done /\ (\A i \in acts : doc[i].no \in Registered)
      /\ (\A i, j \in acts : doc[i].no = doc[j].no => i = j)
      /\ (\A i \in heads : Look(i + 1) = "ob")
      /\ (\A i \in DOMAIN doc : Look(i) # "tab")
      => DOMAIN doc \ heads \subseteq body

(* Every text of the run, none of which ends right after a part's heading  *)
(* (sfs_parser.py:121-122 reads past the end there, which is an IOError),  *)
(* becomes a document: no loop goes on for ever, and no loop is left at a  *)
(* paragraph that it neither makes nor ends at.                            *)
ParsesAll == <>Done
=============================================================================
