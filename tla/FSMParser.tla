----------------------------- MODULE FSMParser ------------------------------
(***************************************************************************)
(* The finite state parser (fsmparser.py) that turns a sequence of chunks  *)
(* into a tree of elements, and the loop over parse configurations around  *)
(* it (SwedishLegalSource.parse_body).  The recursion of make_children and *)
(* of the constructors it calls is a sequence of frames, one for each      *)
(* element whose children are being made; an element is the set of the     *)
(* places of the chunks in it.                                             *)
(***************************************************************************)
EXTENDS LegalGrammars

CONSTANT
  Profile  \* name -> [grammar, preset, configs, prefix, kinds, max]: the
           \* documents are the prefix and at most max chunks of these kinds

ASSUME ProfileAssumption ==
  \A p \in DOMAIN Profile :
    /\ Profile[p].grammar \in {"rfc", "w3c", "jo", "jk", "direktiv", "dv",
                               "myndfskr", "offtryck"}
    /\ Profile[p].configs \in Seq({"default", "noappendix", "simple"})
    /\ Profile[p].configs # <<>>
    /\ Profile[p].prefix \in Seq(SUBSET STRING)
    /\ Profile[p].max \in Nat

VARIABLES
  profile,   \* the profile of the document
  doc,       \* the chunks
  config,    \* the place in parse_body_parseconfigs()
  pos,       \* the place of the chunk that reader.peek() returns
  stack,     \* _state_stack
  frames,    \* the elements whose children are being made: [kind, held]
  mem,       \* what the recognizers and constructors remember
  skipped,   \* the chunks read and left out on purpose
  lost,      \* the chunks of elements dropped by a StopIteration
  heads,     \* history: the chunks that opened an element
  cut,       \* history: a StopIteration was taken for the end
  status

vars == <<profile, doc, config, pos, stack, frames, mem, skipped, lost, heads,
          cut, status>>

P == Profile[profile]
Documents(p) ==
  {p.prefix \o d : d \in UNION {[1..n -> p.kinds] : n \in 0..p.max}}

Tables == [rfc |-> RfcTable, w3c |-> W3cTable, jo |-> JoTable, jk |-> JkTable,
           direktiv |-> DirektivTable, dv |-> DvTable,
           myndfskr |-> MyndfskrTable, offtryck |-> OfftryckTable]

Recognizers ==
  LET c == P.configs[config] IN
  CASE P.grammar = "rfc" -> RfcRecognizers
    [] P.grammar = "w3c" -> W3cRecognizers
    [] P.grammar = "jo" -> JoRecognizers
    [] P.grammar = "jk" -> JkRecognizers
    [] P.grammar = "direktiv" -> DirektivRecognizers(c)
    [] P.grammar = "dv" -> DvRecognizers(c)
    [] P.grammar = "myndfskr" -> MyndfskrRecognizers
    [] P.grammar = "offtryck" -> OfftryckRecognizers(c, P.preset)

View == [doc |-> doc, pos |-> pos, stack |-> stack, mem |-> mem]

Sees(r) ==
  CASE P.grammar = "rfc" -> RfcSees(View, r)
    [] P.grammar = "w3c" -> W3cSees(View, r)
    [] P.grammar = "jo" -> JoSees(View, r)
    [] P.grammar = "jk" -> JkSees(View, r)
    [] P.grammar = "direktiv" -> DirektivSees(View, r)
    [] P.grammar = "dv" -> DvSees(View, r)
    [] P.grammar = "myndfskr" -> MyndfskrSees(View, r)
    [] P.grammar = "offtryck" -> OfftryckSees(View, r)

Running == status = "running"
Root == [kind |-> "root", held |-> {}]

Init ==
  /\ profile \in DOMAIN Profile
  /\ doc \in Documents(P)
  /\ config = 1
  /\ pos = 1
  /\ stack = <<"body">>
  /\ frames = <<Root>>
  /\ mem = NewParser
  /\ skipped = {} /\ lost = {} /\ heads = {}
  /\ cut = FALSE
  /\ status = "running"

-----------------------------------------------------------------------------
(* analyze_symbol and transition *)

Top == stack[Len(stack)]

(* A recognizer is tried if the table has an entry for it in this state.   *)
Hit(r) == /\ <<Top, r>> \in DOMAIN Tables[P.grammar] /\ r \notin mem.off
          /\ Sees(r) # "no"

(* They are tried in the order of set_recognizers, and the first that does *)
(* not say no decides.                                                     *)
Symbol ==
  LET hits == {i \in DOMAIN Recognizers : Hit(Recognizers[i])}
  IN  IF hits = {} THEN "none"
      ELSE Recognizers[CHOOSE i \in hits : \A j \in hits : i <= j]

(* What the recognizers tried before this symbol was found leave behind.   *)
MemAfter(symbol) ==
  IF /\ <<Top, "appendix">> \in DOMAIN Tables[P.grammar]
     /\ P.configs[config] = "default"
     /\ symbol \notin BeforeAppendix
  THEN AfterIsAppendix(View) ELSE mem

(* (constructor, newstate) = self.transition(...), or the exception that   *)
(* analyze_symbol raises.                                                  *)
Transition(symbol) ==
  LET row == IF symbol = "none" THEN Row({}, {}, "FSMStateError", Stay)
             ELSE Tables[P.grammar][<<Top, symbol>>]
      stop == symbol # "none" /\ Sees(symbol) = "stop"
  IN [make |-> IF stop THEN "StopIteration" ELSE row.make,
      new |-> row.new,
      mem |-> MemAfter(symbol)]

-----------------------------------------------------------------------------
(* A frame is finished: its element goes to its parent, the state stack is *)
(* popped, and the root element is what parse returns.  A table of         *)
(* contents is thrown away; any other preamble section ends the section of *)
(* proposed statutes.                                                      *)
GiveBack(fs, stk, m) ==
  LET n == Len(fs)
      el == fs[n]
      kept == IF el.kind = "toc" THEN {} ELSE el.held
  IN /\ frames' = IF n = 1 THEN fs
                  ELSE [SubSeq(fs, 1, n - 1) EXCEPT ![n - 1].held = @ \cup kept]
     /\ stack' = IF n = 1 THEN stk ELSE SubSeq(stk, 1, Len(stk) - 1)
     /\ skipped' = skipped \cup (el.held \ kept)
     /\ mem' = IF el.kind = "preamblesection" THEN [m EXCEPT !.forslag = FALSE]
               ELSE m
     /\ status' = IF n = 1 THEN "parsed" ELSE status

(* An exception leaves parse: parse_body goes on to the next configuration *)
(* with a new parser, or raises the last exception.                        *)
Fail(exception) ==
  IF config < Len(P.configs)
  THEN /\ config' = config + 1
       /\ pos' = 1
       /\ stack' = <<"body">>
       /\ frames' = <<Root>>
       /\ mem' = NewParser
       /\ skipped' = {} /\ lost' = {} /\ heads' = {}
       /\ cut' = FALSE
       /\ status' = "running"
       /\ UNCHANGED <<profile, doc>>
  ELSE /\ status' = exception
       /\ UNCHANGED <<profile, doc, config, pos, stack, frames, mem, skipped,
                      lost, heads, cut>>

(* No more symbols: every make_children returns its element. *)
EndOfChunks ==
  /\ Running
  /\ pos > Len(doc)
  /\ GiveBack(frames, stack, mem)
  /\ UNCHANGED <<profile, doc, config, pos, lost, heads, cut>>

(* No recognizer matches: FSMStateError, which nothing catches here. *)
Stuck(a) ==
  /\ a.make = "FSMStateError"
  /\ Fail("FSMStateError")

(* A recognizer looked past the last chunk.  The StopIteration leaves the  *)
(* constructor of the innermost element and is caught by the make_children *)
(* of its parent, which returns its own element at once: the innermost     *)
(* element is dropped, and its state stays on the stack in place of its    *)
(* parent's.  Raised for the root, it leaves parse.                        *)
StopAhead(a) ==
  /\ a.make = "StopIteration"
  /\ LET n == Len(frames) IN
     IF n = 1 THEN Fail("StopIteration")
     ELSE /\ GiveBack(SubSeq(frames, 1, n - 1), stack, a.mem)
          /\ lost' = lost \cup frames[n].held
          /\ cut' = TRUE
          /\ UNCHANGED <<profile, doc, config, pos, heads>>

(* The constructor is False: make_children returns, and the state it       *)
(* returns to may be set.                                                  *)
LeaveElement(a) ==
  /\ a.make = "leave"
  /\ LET n == Len(stack)
         stk == IF a.new = Stay THEN stack
                ELSE [stack EXCEPT ![n - 1] = a.new]
     IN GiveBack(frames, stk, a.mem)
  /\ UNCHANGED <<profile, doc, config, pos, lost, heads, cut>>

-----------------------------------------------------------------------------
(* make_child and the constructors. *)

(* The element made of these chunks is appended to the current one, in a   *)
(* new state if the constructor has no newstate attribute.                 *)
AppendTo(a, held, left, next) ==
  LET n == Len(frames) IN
  /\ frames' = [frames EXCEPT ![n].held = @ \cup held]
  /\ skipped' = skipped \cup left
  /\ stack' = IF a.new = Stay THEN stack
              ELSE [stack EXCEPT ![Len(stack)] = a.new]
  /\ pos' = next
  /\ UNCHANGED <<profile, doc, config, lost, heads, cut, status>>

(* The constructor calls make_children for an element of its own.          *)
Descend(a, kind, held, next) ==
  /\ frames' = Append(frames, [kind |-> kind, held |-> held])
  /\ stack' = Append(stack, a.new)
  /\ heads' = heads \cup (held \cap {pos})
  /\ pos' = next
  /\ UNCHANGED <<profile, doc, config, lost, cut, status>>

(* A constructor ran out of chunks: the make_children that called it       *)
(* returns its element, and what the constructor had read is dropped.      *)
OutOfChunks(a) ==
  /\ GiveBack(frames, stack, a.mem)
  /\ lost' = lost \cup pos..Len(doc)
  /\ pos' = Len(doc) + 1
  /\ cut' = TRUE
  /\ UNCHANGED <<profile, doc, config, heads>>

KeepChunk(a) ==
  /\ a.make = "keep"
  /\ AppendTo(a, {pos}, {}, pos + 1)
  /\ mem' = a.mem

SkipChunk(a) ==
  /\ a.make = "skip"
  /\ AppendTo(a, {}, {pos}, pos + 1)
  /\ mem' = a.mem

OpenElement(a) ==
  /\ a.make = "open"
  /\ Descend(a, "element", {pos}, pos + 1)
  /\ mem' = a.mem
  /\ UNCHANGED skipped

WrapElement(a) ==
  /\ a.make = "wrap"
  /\ Descend(a, "element", {}, pos)
  /\ mem' = a.mem
  /\ UNCHANGED skipped

(* make_unordered_list of the RFC grammar: the list and its first item.    *)
OpenList(a) ==
  /\ a.make = "list"
  /\ frames' = frames \o << [kind |-> "element", held |-> {}],
                            [kind |-> "element", held |-> {pos}] >>
  /\ stack' = stack \o <<a.new, "listitem">>
  /\ heads' = heads \cup {pos}
  /\ pos' = pos + 1
  /\ mem' = a.mem
  /\ UNCHANGED <<profile, doc, config, skipped, lost, cut, status>>

(* Mutant: the second line of the header is looked at and not read. *)
make_rfcheader_peeking(a) ==
  /\ a.make = "make_rfcheader"
  /\ IF pos = Len(doc)
     THEN OutOfChunks(a)
     ELSE LET two == "strict" \in doc[pos + 1] IN
          /\ AppendTo(a, pos..(IF two THEN pos + 1 ELSE pos), {}, pos + 1)
          /\ mem' = a.mem

(* The next chunk belongs to the header as well if it looks like one.      *)
make_rfcheader(a) ==
  /\ a.make = "make_rfcheader"
  /\ IF pos = Len(doc)
     THEN OutOfChunks(a)
     ELSE LET two == "strict" \in doc[pos + 1] IN
          /\ AppendTo(a, pos..(IF two THEN pos + 1 ELSE pos), {},
                      IF two THEN pos + 2 ELSE pos + 1)
          /\ mem' = a.mem

(* The first date with a possible year, and the first case number, are the *)
(* ones of the decision; from then on neither is recognized.               *)
make_datum(a) ==
  /\ a.make = "make_datum"
  /\ IF "year" \in doc[pos]
     THEN /\ AppendTo(a, {pos}, {}, pos + 1)
          /\ mem' = [a.mem EXCEPT !.off = @ \cup {"datum"}]
     ELSE /\ AppendTo(a, {}, {pos}, pos + 1)
          /\ mem' = a.mem

make_dnr(a) ==
  /\ a.make = "make_dnr"
  /\ AppendTo(a, {pos}, {}, pos + 1)
  /\ mem' = [a.mem EXCEPT !.off = @ \cup {"dnr"}]

make_delmal(a) ==
  /\ a.make = "make_delmal"
  /\ Descend(a, "element", {pos}, pos + 1)
  /\ mem' = [a.mem EXCEPT !.court = "None"]
  /\ UNCHANGED skipped

make_instans(a) ==
  /\ a.make = "make_instans"
  /\ Descend(a, "element", {pos}, pos + 1)
  /\ mem' = [a.mem EXCEPT !.court =
               IF doc[pos] \cap {"hd", "tr"} = {} THEN "None"
               ELSE CHOOSE c \in {"hd", "tr"} : c \in doc[pos]]
  /\ UNCHANGED skipped

skip_pagebreak(a) ==
  /\ a.make = "skip_pagebreak"
  /\ AppendTo(a, {pos}, {}, pos + 1)
  /\ mem' = [a.mem EXCEPT !.page = @ + 1, !.appendixstarted = FALSE]

make_preamblesection(a) ==
  /\ a.make = "make_preamblesection"
  /\ Descend(a, IF "toc" \in doc[pos] THEN "toc" ELSE "preamblesection",
             {pos}, pos + 1)
  /\ mem' = [a.mem EXCEPT !.forslag = @ \/ "statutes" \in doc[pos]]
  /\ UNCHANGED skipped

(* The chunks up to the title are children of the appendix, except those   *)
(* that are not essential.  A page that ends the search is read as well.   *)
make_appendix(a) ==
  /\ a.make = "make_appendix"
  /\ IF AppendixTitle(View) = 0
     THEN OutOfChunks(a)
     ELSE LET q == AppendixTitle(View)
              left == {k \in (pos + 1)..q : \/ "nonessential" \in doc[k]
                                            \/ "pagebreak" \in doc[k]}
          IN /\ Descend(a, "element", (pos..q) \ left, q + 1)
             /\ skipped' = skipped \cup left
             /\ mem' = [a.mem EXCEPT
                          !.appendixno = AppendixNumber(View),
                          !.opened = @ \cup {AppendixNumber(View)}]

-----------------------------------------------------------------------------
Constructors(a) ==
  \/ KeepChunk(a) \/ SkipChunk(a) \/ OpenElement(a) \/ WrapElement(a)
  \/ OpenList(a) \/ make_rfcheader(a) \/ make_datum(a) \/ make_dnr(a)
  \/ make_delmal(a) \/ make_instans(a) \/ skip_pagebreak(a)
  \/ make_preamblesection(a) \/ make_appendix(a)

(* One turn of the loop in make_children. *)
Turn ==
  /\ Running
  /\ pos <= Len(doc)
  /\ \E a \in {Transition(symbol) : symbol \in {Symbol}} :
     Stuck(a) \/ StopAhead(a) \/ LeaveElement(a) \/ Constructors(a)

Next == EndOfChunks \/ Turn

Spec == Init /\ [][Next]_vars /\ WF_vars(Next)

-----------------------------------------------------------------------------
Tree == frames[1].held
Finished == status = "parsed"

(* The types of the variables. *)
TypeOK ==
  /\ profile \in DOMAIN Profile
  /\ config \in DOMAIN P.configs
  /\ pos \in 1..(Len(doc) + 1)
  /\ Len(stack) >= 1 /\ \A i \in DOMAIN stack : stack[i] \in STRING
  /\ Len(frames) >= 1
  /\ \A i \in DOMAIN frames : frames[i].held \subseteq DOMAIN doc
  /\ skipped \subseteq DOMAIN doc /\ lost \subseteq DOMAIN doc
  /\ heads \subseteq DOMAIN doc
  /\ cut \in BOOLEAN

(* Every chunk that has been read is in exactly one place: in one of the   *)
(* elements being made, left out on purpose, or dropped by a               *)
(* StopIteration; reading on never loses one and never keeps one twice.    *)
Conserved ==
  /\ (UNION {frames[i].held : i \in DOMAIN frames}) \cup skipped \cup lost
       = 1..(pos - 1)
  /\ \A i \in DOMAIN frames :
       /\ frames[i].held \cap (skipped \cup lost) = {}
       /\ \A j \in DOMAIN frames :
            i # j => frames[i].held \cap frames[j].held = {}

(* A document whose end nobody looked past is parsed to its end, and the   *)
(* tree has every chunk that was not left out on purpose: no table closes  *)
(* the root element early.                                                 *)
NothingLost ==
  Finished /\ ~ cut =>
    Tree = DOMAIN doc \ skipped /\ pos = Len(doc) + 1

(* The tables have an entry for whatever comes: a parser with these tables *)
(* raises FSMStateError only for an RFC that does not begin with a header. *)
NeverStuck ==
  status = "FSMStateError" =>
    P.grammar = "rfc" /\ "rfcheader" \notin doc[1]

(* As long as no StopIteration was taken for the end there is one state on *)
(* the stack for each element being made, and no state is inside itself:   *)
(* a section never ends up in a section, however the headings come.        *)
NoSelfNesting ==
  ~ cut => /\ Len(stack) = Len(frames)
           /\ \A i, j \in DOMAIN stack : stack[i] = stack[j] => i = j

(* The grammars in which a numbered heading of the first level opens a     *)
(* section wherever it comes.                                              *)
Sectioned ==
  \/ P.grammar \in {"w3c", "jk", "jo"}
  \/ P.grammar = "direktiv" /\ P.configs[config] = "default"

(* What is recognized before a heading, or goes on where none is looked    *)
(* for, in some of those.                                                  *)
SeenFirst == {"datum", "dnr", "nonessential", "heading", "abstract",
              "strecksats"}

(* In those, every such heading that was read has opened an element.       *)
HeadingsOpen ==
  Sectioned =>
    \A k \in 1..(pos - 1) :
      "section" \in doc[k] /\ doc[k] \cap SeenFirst = {} => k \in heads

(* "this is just one more page of the appendix currently being processed": *)
(* an announcement is only passed over as that when an appendix with the   *)
(* number it has was made.                                                 *)
OneMorePageOfSame ==
  mem.appendixstarted => mem.appendixno \in mem.opened

(* Every parse ends, with a tree or with an exception. *)
ParseEnds == <>(~ Running)
=============================================================================
