--------------------------- MODULE LegalGrammars ----------------------------
(***************************************************************************)
(* The grammars whose recognizers depend on what has been read before:     *)
(* court reports, regulations of authorities, and government bills and     *)
(* reports (offtryck).  What they remember is in v.mem:                    *)
(*   court      parser.current_instans.court, or "None"                    *)
(*   page       state.pageno                                               *)
(*   appendixno, appendixstarted                                           *)
(*   opened     history: the numbers of the appendices made so far         *)
(*   forslag    parser.in_forfattningsforslag                              *)
(*   off        the recognizers taken away by remove_recognizer            *)
(***************************************************************************)
EXTENDS Grammars

NewParser == [court |-> "None", page |-> 0, appendixno |-> 0,
              appendixstarted |-> FALSE, opened |-> {}, forslag |-> FALSE,
              off |-> {}]

-----------------------------------------------------------------------------
(* Court reports (legal/se/dv.py).  A chunk that looks like the beginning  *)
(* of an instance names a court ("hd": the Supreme Court, "tr": a district *)
(* court) or no court ("some").                                            *)

DvRecognizers(config) ==
  IF config = "simple" THEN <<"paragraph">>
  ELSE <<"delmal", "endmeta", "instans", "dom", "betankande", "domskal",
         "domslut", "skiljaktig", "tillagg", "paragraph">>

Courts == {"hd", "tr", "some"}

(* The instance that the chunk speaks of is the current one.               *)
SameInstans(v) ==
  \/ v.mem.court \in Here(v)
  \/ v.mem.court = "hd" /\ "some" \in Here(v)

(* is_instans: at the root anything begins an instance; after the Supreme  *)
(* Court no district court does.                                           *)
IsInstans(v) ==
  IF Here(v) \cap Courts = {} THEN Len(v.stack) = 1
  ELSE ~ SameInstans(v) /\ ~ (v.mem.court = "hd" /\ "tr" \in Here(v))

DvSees(v, r) ==
  If(\/ r = "paragraph"
     \/ r = "instans" /\ IsInstans(v)
     \/ r \in Here(v))

(* transition_domskal always makes a domskal: it is only called when the   *)
(* top of the stack is a betankande.                                       *)
DvRows ==
  LET dissent == {"skiljaktig", "tillagg"}
      verdict == {"dom", "domskal", "domslut"}
  IN <<
    Row({"body"}, {"delmal"}, "make_delmal", "delmal"),
    Row({"body", "delmal"}, {"instans"}, "make_instans", "instans"),
    Open({"body"}, {"endmeta"}, "endmeta"),
    Leave({"delmal", "instans", "dom", "domslut"} \cup dissent,
          {"delmal", "endmeta"}),
    Open({"instans"}, {"betankande"}, "betankande"),
    Row({"instans", "betankande", "dom"}, {"domslut"}, "wrap", "domslut"),
    Row({"instans"}, {"dom"}, "wrap", "dom"),
    Leave({"instans", "skiljaktig"} \cup verdict, {"instans"}),
    Open({"instans"}, {"skiljaktig"}, "skiljaktig"),
    Open({"instans"}, {"tillagg"}, "tillagg"),
    Row({"betankande", "dom"}, {"domskal"}, "wrap", "domskal"),
    Leave({"betankande", "domslut"}, {"dom"}),
    Leave({"dom", "domslut"}, dissent),
    Leave({"domskal"}, {"delmal", "domslut"}),
    Leave({"domslut"}, {"domskal"}),
    Leave({"skiljaktig"}, {"domslut", "skiljaktig", "tillagg"}),
    Leave({"tillagg"}, {"tillagg"}),
    Keep({"body", "delmal", "instans", "betankande", "endmeta"}
         \cup verdict \cup dissent, {"paragraph"}) >>

DvTable == SetTransitions(DvRows)

-----------------------------------------------------------------------------
(* Regulations of authorities (legal/se/myndfskr.py).  The table has lines *)
(* for a state "appendix", which is_appendix never lets it enter, and none *)
(* for is_bulletlist.                                                      *)

MyndfskrRecognizers == <<"pagebreak", "nonessential", "marginalia", "kapitel",
  "paragraf", "rubrik", "stycke">>

MyndfskrSees(v, r) == If(r = "stycke" \/ r \in Here(v))

MyndfskrRows ==
  LET common == {"body", "kapitel", "paragraf"} IN <<
    Row(common, {"nonessential"}, "skip", Stay),
    Row(common, {"pagebreak"}, "skip_pagebreak", Stay),
    Keep(common, {"marginalia", "stycke", "rubrik"}),
    Open(common, {"paragraf"}, "paragraf"),
    Open({"body"}, {"kapitel"}, "kapitel"),
    Leave({"kapitel"}, {"kapitel"}),
    Leave({"paragraf"}, {"paragraf", "kapitel", "rubrik"}) >>

MyndfskrTable == SetTransitions(MyndfskrRows)

-----------------------------------------------------------------------------
(* Government bills and reports (legal/se/offtryck.py).  Pages are chunks  *)
(* of their own.  An appendix is announced by a heading ("heading1",       *)
(* "heading2": "Bilaga 1", "Bilaga 2" in the largest type), by a note in   *)
(* the margin ("margin1", "margin2") or by one of the standard titles      *)
(* ("implicit").                                                           *)

(* The recognizers for bills (preset) are inserted at fixed places of the  *)
(* list, so that without is_appendix protokollsutdrag comes after section. *)
OfftryckRecognizers(config, preset) ==
  LET first == IF preset THEN <<"prophuvudrubrik", "proprubrik">> ELSE <<>>
      extract == IF preset THEN <<"protokollsutdrag">> ELSE <<>>
      rest == <<"subsection", "subsubsection", "preamblesection",
                "forfattningsforslag">>
              \o (IF preset THEN <<>> ELSE <<"unorderedsection">>)
              \o <<"unorderedsubsection", "bulletlist", "paragraph">>
  IN CASE config = "simple" -> first \o <<"pagebreak", "paragraph">>
       [] config = "noappendix" ->
            first \o <<"pagebreak", "nonessential", "section">>
            \o extract \o rest
       [] OTHER ->
            first \o <<"pagebreak", "appendix", "nonessential">>
            \o extract \o <<"section">> \o rest

(* The recognizers tried before is_appendix, which leaves something behind *)
(* whenever it is tried.                                                   *)
BeforeAppendix == {"prophuvudrubrik", "proprubrik", "pagebreak"}

Headings == <<"heading1", "heading2">>
Margins == <<"margin1", "margin2">>

(* In scanned sources: a heading that has run into the note in the margin. *)
Mashed == <<"mashed1", "mashed2">>

(* The number of the appendix the chunk is marked with, or 0. *)
Numbered(marks, chunk) ==
  IF marks[1] \in chunk THEN 1 ELSE IF marks[2] \in chunk THEN 2 ELSE 0

(* is_appendix_header, for the chunk n after the one looked at. *)
HeaderAhead(v, n) ==
  Ahead(v, n) /\ Numbered(Headings, v.doc[v.pos + n]) # 0

(* is_header, which is a number or True; True == 1.  It is not looked for  *)
(* again on a page where the appendix has been seen.                       *)
AppendixHeader(v) ==
  IF v.mem.appendixstarted THEN 0
  ELSE IF Numbered(Headings, Here(v)) # 0 THEN Numbered(Headings, Here(v))
  ELSE IF "implicit" \in Here(v) THEN 1
  ELSE Numbered(Mashed, Here(v))

(* A note in the margin of a new appendix: the heading to come is left to  *)
(* start the appendix, and its number is remembered already.               *)
HeadingToCome(v) == HeaderAhead(v, 1) \/ HeaderAhead(v, 2)

(* The number the chunk announces an appendix with: of the heading, or of  *)
(* the note in the margin.                                                 *)
Announced(v) ==
  IF AppendixHeader(v) # 0 THEN AppendixHeader(v)
  ELSE Numbered(Margins, Here(v))

OneMorePage(v) == Announced(v) # 0 /\ Announced(v) = v.mem.appendixno

IsAppendix(v) ==
  /\ Announced(v) # 0
  /\ ~ OneMorePage(v)
  /\ AppendixHeader(v) = 0 => ~ HeadingToCome(v)

(* What is_appendix leaves behind when it has been tried.                  *)
AfterIsAppendix(v) ==
  CASE OneMorePage(v) -> [v.mem EXCEPT !.appendixstarted = TRUE]
    [] Announced(v) # 0 /\ ~ OneMorePage(v) /\ ~ IsAppendix(v) ->
         [v.mem EXCEPT !.appendixno = Announced(v)]
    [] OTHER -> v.mem

(* For a numbered heading of any level that ends in digits is_section looks *)
(* ahead: it may be a line of a table of contents.                         *)
OfftryckSees(v, r) ==
  CASE r = "paragraph" -> "yes"
    [] r = "appendix" -> If(IsAppendix(v))
    [] r = "section" ->
         IF v.mem.forslag /\ "forslag" \in Here(v) THEN "no"
         ELSE IF "digits" \in Here(v) /\ AtLast(v) THEN "stop"
         ELSE If(/\ "section" \in Here(v)
                 /\ "digits" \in Here(v) => "dots" \notin v.doc[v.pos + 1])
    [] r = "forfattningsforslag" ->
         If(v.mem.forslag /\ "forslag" \in Here(v))
    [] r = "protokollsutdrag" ->
         IF "departement" \notin Here(v) THEN "no"
         ELSE IF AtLast(v) THEN "stop"
         ELSE If("utdrag" \in v.doc[v.pos + 1])
    [] r \in {"prophuvudrubrik", "proprubrik"} ->
         If(v.mem.page = 1 /\ r \in Here(v))
    [] OTHER -> If(r \in Here(v))

OfftryckRows ==
  LET sections == {"section", "subsection", "subsubsection"}
      unordered == {"unorderedsection", "unorderedsubsection"}
      common == {"body", "frontmatter", "preamblesection",
                 "forfattningsforslag", "protokollsutdrag", "appendix"}
                \cup sections \cup unordered
  IN <<
    Row(common, {"nonessential"}, "skip", Stay),
    Row(common, {"pagebreak"}, "skip_pagebreak", Stay),
    Keep(common, {"paragraph"}),
    Open(common, {"bulletlist"}, "bulletlist"),
    Leave({"bulletlist"}, {"paragraph"}),
    Keep({"bulletlist"}, {"bulletlist"}),
    Row({"body"}, {"appendix"}, "make_appendix", "appendix"),
    Row({"body"}, {"preamblesection"}, "make_preamblesection",
        "preamblesection"),
    Row({"body"}, {"prophuvudrubrik"}, "wrap", "frontmatter"),
    Open({"body"}, {"protokollsutdrag"}, "protokollsutdrag"),
    Open({"body", "protokollsutdrag"}, {"section"}, "section"),
    Open({"body", "section"}, {"unorderedsection"}, "unorderedsection"),
    Keep({"frontmatter"}, {"prophuvudrubrik", "proprubrik"}),
    Leave({"frontmatter"}, {"preamblesection"}),
    Leave({"preamblesection"}, {"preamblesection", "section", "appendix"}),
    Open({"preamblesection"}, {"forfattningsforslag"}, "forfattningsforslag"),
    Leave({"forfattningsforslag"},
          {"forfattningsforslag", "section", "preamblesection"}),
    Leave({"protokollsutdrag"}, {"protokollsutdrag", "appendix"}),
    Leave(sections, {"section", "preamblesection", "protokollsutdrag",
                     "appendix"}),
    Open({"section"}, {"subsection"}, "subsection"),
    Open({"section", "unorderedsection"}, {"unorderedsubsection"},
         "unorderedsubsection"),
    Leave({"subsection", "subsubsection"}, {"subsection"}),
    Open({"subsection"}, {"subsubsection"}, "subsubsection"),
    Leave({"subsubsection"}, {"subsubsection"}),
    Leave(unordered, {"appendix", "preamblesection", "section",
                      "unorderedsection"}),
    Leave({"unorderedsubsection"}, {"unorderedsubsection"}),
    Leave({"appendix"}, {"preamblesection", "appendix"}) >>

OfftryckTable == SetTransitions(OfftryckRows)

(* make_appendix reads on after a numbered heading or note until the next  *)
(* page or heading, which is the title; it ends at the title itself when   *)
(* the appendix has a standard title or one before the number.             *)
(* 0: StopIteration.                                                       *)
Big == {"heading1", "heading2", "implicit", "section", "subsection",
        "preamblesection", "unorderedsection", "unorderedsubsection",
        "departement"}

AppendixTitle(v) ==
  LET ends == {q \in (v.pos + 1)..Len(v.doc) :
                 "pagebreak" \in v.doc[q] \/ v.doc[q] \cap Big # {}}
  IN IF Here(v) \cap {"implicit", "mashed1", "mashed2"} # {} THEN v.pos
     ELSE IF ends = {} THEN 0
     ELSE CHOOSE q \in ends : \A p \in ends : q <= p

AppendixNumber(v) ==
  IF "implicit" \in Here(v) THEN v.mem.appendixno + 1
  ELSE IF Numbered(Headings, Here(v)) # 0 THEN Numbered(Headings, Here(v))
  ELSE IF Numbered(Mashed, Here(v)) # 0 THEN Numbered(Mashed, Here(v))
  ELSE Numbered(Margins, Here(v))
=============================================================================
