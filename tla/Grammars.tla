------------------------------ MODULE Grammars ------------------------------
(***************************************************************************)
(* The grammars that document repositories give to FSMParser (get_parser   *)
(* of each of them): the order of the recognizers, what each of them       *)
(* looks at, the transition table, and what each constructor does.         *)
(*                                                                         *)
(* A chunk of text is the set of the facts the recognizers can find in it  *)
(* ("section": it looks like a numbered heading of the first level).  A    *)
(* recognizer is named without its is_, and its verdict is "yes", "no" or  *)
(* "stop": it looked past the last chunk and raised StopIteration.         *)
(*                                                                         *)
(* A constructor                                                           *)
(*   "keep"  reads a chunk and returns an element made of it,              *)
(*   "skip"  reads a chunk and returns None,                               *)
(*   "open"  reads a chunk (a title, or the first child) and then makes    *)
(*           children; it has the attribute newstate,                      *)
(*   "wrap"  makes children without reading anything; it has newstate,     *)
(*   "list"  makes a list whose first item makes children of its own,      *)
(* or has a name of its own where it does something more.                  *)
(***************************************************************************)
EXTENDS Integers, Sequences, FiniteSets

(* A line of a transition table: in each of these states each of these     *)
(* recognizers leads to the constructor and to the new state.              *)
Row(states, recognizers, make, new) ==
  [states |-> states, recognizers |-> recognizers, make |-> make, new |-> new]

Stay == "None"
Leave(states, recognizers) == Row(states, recognizers, "leave", Stay)
Keep(states, recognizers) == Row(states, recognizers, "keep", Stay)
Open(states, recognizers, new) == Row(states, recognizers, "open", new)

Names(row, entry) == entry[1] \in row.states /\ entry[2] \in row.recognizers
Entries(rows) ==
  UNION {rows[i].states \X rows[i].recognizers : i \in DOMAIN rows}

(* Mutant: an entry that is there already is not replaced. *)
SetTransitionsOnce(rows) ==
  [entry \in Entries(rows) |->
    rows[CHOOSE i \in DOMAIN rows :
           /\ Names(rows[i], entry)
           /\ \A j \in 1..(i - 1) : ~ Names(rows[j], entry)]]

(* self.transitions: (state, recognizer) -> (constructor, new state).  The *)
(* lines are entered into one dict, and a later one replaces.              *)
SetTransitions(rows) ==
  [entry \in Entries(rows) |->
    rows[CHOOSE i \in DOMAIN rows :
           /\ Names(rows[i], entry)
           /\ \A j \in (i + 1)..Len(rows) : ~ Names(rows[j], entry)]]

(* What a recognizer sees: the document, the place of the reader, the      *)
(* state stack and what the parser object remembers.                       *)
Here(v) == v.doc[v.pos]
AtLast(v) == v.pos = Len(v.doc)
Ahead(v, n) == v.pos + n <= Len(v.doc)
If(holds) == IF holds THEN "yes" ELSE "no"

-----------------------------------------------------------------------------
(* RFCs (tech/rfc.py).  preformatted and bnf text makes what a paragraph   *)
(* makes; the definitions are never recognized.                            *)

RfcRecognizers == <<"pagebreak", "rfcheader", "doctitle", "section",
  "subsection", "subsubsection", "header", "ul_listitem", "paragraph">>

RfcSees(v, r) ==
  If(r \in {"doctitle", "paragraph"} \/ r \in Here(v))

RfcRows ==
  LET common == {"section", "subsection", "subsubsection"} IN <<
    Row({"body"}, {"rfcheader"}, "make_rfcheader", "doctitle"),
    Row({"doctitle"}, {"doctitle"}, "keep", "preamble"),
    Open({"preamble"}, {"header"}, "preamble-section"),
    Row({"preamble"}, {"paragraph"}, "wrap", "preamble-section"),
    Keep({"preamble-section"}, {"paragraph"}),
    Leave({"preamble-section"}, {"header"}),
    Row({"preamble-section"} \cup common, {"pagebreak"}, "skip", Stay),
    Row({"preamble-section"}, {"section"}, "leave", "after-preamble"),
    Open({"after-preamble"}, {"section"}, "section"),
    Open({"section"}, {"subsection"}, "subsection"),
    Open({"subsection"}, {"subsubsection"}, "subsubsection"),
    Leave(common, {"section"}),
    Leave({"subsection", "subsubsection"}, {"subsection"}),
    Leave({"subsubsection"}, {"subsubsection"}),
    Row(common, {"ul_listitem"}, "list", "ul-list"),
    Open({"ul-list"}, {"ul_listitem"}, "listitem"),
    Leave({"ul-list", "listitem"}, {"paragraph"}),
    Keep(common, {"paragraph"}) >>

RfcTable == SetTransitions(RfcRows)

-----------------------------------------------------------------------------
(* W3C standards (tech/w3c.py). *)

W3cRecognizers == <<"section", "subsection", "subsubsection",
  "preamblesection", "preambleending", "header", "other">>

W3cSees(v, r) == If(r = "other" \/ r \in Here(v))

W3cRows ==
  LET sections == {"section", "subsection", "subsubsection"} IN <<
    Open({"body"}, {"preamblesection"}, "preamblesection"),
    Leave({"preamblesection"},
          {"preamblesection", "preambleending", "section"}),
    Open({"body"}, {"section"}, "section"),
    Keep({"body", "preamblesection"} \cup sections, {"other"}),
    Open({"section"}, {"subsection"}, "subsection"),
    Open({"subsection"}, {"subsubsection"}, "subsubsection"),
    Leave(sections, {"section"}),
    Leave({"subsection", "subsubsection"}, {"subsection"}),
    Leave({"subsubsection"}, {"subsubsection"}) >>

W3cTable == SetTransitions(W3cRows)

-----------------------------------------------------------------------------
(* Decisions of the Parliamentary Ombudsmen (legal/se/jo.py).              *)

JoRecognizers == <<"datum", "dnr", "nonessential", "heading", "abstract",
  "section", "normal", "blockquote", "paragraph">>

JoSees(v, r) ==
  If(\/ r = "paragraph"
     \/ r = "normal" /\ "blockquote" \notin Here(v)
     \/ r \in Here(v) \ {"normal"})

JoRows ==
  LET deep == {"section", "blockquote"} IN <<
    Keep({"body"}, {"heading"}),
    Row({"body"} \cup deep, {"nonessential"}, "skip", Stay),
    Row({"body"} \cup deep, {"datum"}, "make_datum", Stay),
    Row({"body"} \cup deep, {"dnr"}, "make_dnr", Stay),
    Open({"body"}, {"abstract"}, "abstract"),
    Open({"body"}, {"section"}, "section"),
    Row({"body", "section"}, {"blockquote"}, "wrap", "blockquote"),
    Keep({"body", "abstract", "section"}, {"paragraph"}),
    Leave({"abstract"}, {"section", "dnr", "datum"}),
    Leave(deep, {"section"}),
    Keep({"blockquote"}, {"blockquote"}),
    Leave({"blockquote"}, {"normal"}) >>

(* Mutant: a quotation does not go on in a quotation. *)
JoTableLoop ==
  SetTransitions(Append(JoRows, Leave({"blockquote"}, {"blockquote"})))

(* Mutant: no line for the paragraphs of an abstract. *)
JoTableHole ==
  LET all == SetTransitions(JoRows) IN
  [entry \in DOMAIN all \ {<<"abstract", "paragraph">>} |-> all[entry]]

JoTable == SetTransitions(JoRows)

-----------------------------------------------------------------------------
(* Decisions of the Chancellor of Justice (legal/se/jk.py).  The table has *)
(* lines for is_special_subsection, which is not among the recognizers.    *)

(* Mutant: a paragraph is recognized first. *)
JkRecognizersReversed == <<"paragraph", "subsubsection", "subsection",
  "section">>

JkRecognizers == <<"section", "subsection", "subsubsection", "paragraph">>

JkSees(v, r) == If(r = "paragraph" \/ r \in Here(v))

JkRows ==
  LET sections == {"section", "subsection", "subsubsection"} IN <<
    Open({"body"}, {"section"}, "section"),
    Leave(sections, {"section"}),
    Open({"section"}, {"subsection"}, "subsection"),
    Leave({"subsection", "subsubsection"}, {"subsection"}),
    Open({"subsection"}, {"subsubsection"}, "subsubsection"),
    Leave({"subsubsection"}, {"subsubsection"}),
    Keep({"body"} \cup sections, {"paragraph"}) >>

(* Mutant: a subsection also ends the body. *)
JkTableEnds ==
  SetTransitions(Append(JkRows, Leave({"body"}, {"subsection"})))

JkTable == SetTransitions(JkRows)

-----------------------------------------------------------------------------
(* Committee terms of reference (legal/se/direktiv.py).                    *)

DirektivRecognizers(config) ==
  (IF config = "simple" THEN <<>> ELSE <<"section", "subsection">>)
  \o <<"header", "strecksats", "paragraph">>

(* A header is a line that looks like one ("headerlike") and is not        *)
(* followed by a list item; the chunk after it is looked at whenever the   *)
(* line looks like a header.                                               *)
DirektivSees(v, r) ==
  CASE r = "paragraph" -> "yes"
    [] r = "header" ->
         IF "headerlike" \notin Here(v) THEN "no"
         ELSE IF AtLast(v) THEN "stop"
         ELSE If("strecksats" \notin v.doc[v.pos + 1])
    [] OTHER -> If(r \in Here(v))

DirektivRows ==
  LET common == {"body", "section", "subsection", "unorderedsection"} IN <<
    Keep(common, {"paragraph"}),
    Open(common, {"strecksats"}, "strecksats"),
    Open(common, {"header"}, "unorderedsection"),
    Open(common, {"section"}, "section"),
    Leave({"unorderedsection", "section"}, {"header", "section"}),
    Leave({"strecksats"}, {"paragraph"}),
    Keep({"strecksats"}, {"strecksats"}),
    Open({"section"}, {"subsection"}, "subsection"),
    Leave({"subsection"}, {"subsection", "section"}) >>

DirektivTable == SetTransitions(DirektivRows)
=============================================================================
