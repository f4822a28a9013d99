---------------------------- MODULE MCFSMParser -----------------------------
(* Small documents of every grammar for TLC. *)
EXTENDS FSMParser

Texts(grammar, prefix, kinds, max) ==
  [grammar |-> grammar, preset |-> FALSE, configs |-> <<"default">>,
   prefix |-> prefix, kinds |-> kinds, max |-> max]

Facts(names) == {{n} : n \in names} \cup {{}}

Headed == {"rfcheader"}
RfcText ==
  Texts("rfc", <<Headed, {}>>,
        Facts({"pagebreak", "header", "ul_listitem"})
        \cup {{s, "header"} : s \in {"section", "subsection", "subsubsection"}},
        4)
RfcStart ==
  Texts("rfc", <<>>, {Headed, {"rfcheader", "strict"}, {"section", "header"},
                      {"header"}, {}}, 4)
W3cText ==
  Texts("w3c", <<>>, Facts({"section", "subsection", "subsubsection",
                            "preamblesection", "preambleending"}), 4)
JoText ==
  Texts("jo", <<>>, Facts({"dnr", "nonessential", "heading", "abstract",
                           "section", "blockquote"})
                    \cup {{"datum", "dnr"}, {"datum", "dnr", "year"}}, 3)
JkText ==
  Texts("jk", <<>>, Facts({"section", "subsection", "subsubsection"}), 4)
DirektivText ==
  [Texts("direktiv", <<>>, Facts({"section", "subsection", "headerlike",
                                  "strecksats"}), 5)
     EXCEPT !.configs = <<"default", "simple">>]
DvText ==
  [Texts("dv", <<>>, Facts({"hd", "tr", "some", "dom", "domskal", "domslut",
                            "betankande", "delmal", "endmeta", "skiljaktig",
                            "tillagg"}) \cup {{"dom", "domskal"}}, 3)
     EXCEPT !.configs = <<"default", "simple">>]
MyndfskrText ==
  Texts("myndfskr", <<>>, Facts({"pagebreak", "nonessential", "kapitel",
                                 "paragraf", "rubrik"}), 4)

Offtryck(prefix, kinds, max) ==
  [Texts("offtryck", prefix, kinds, max)
     EXCEPT !.configs = <<"default", "noappendix", "simple">>]
Page == {"pagebreak"}
Heading(n) == {n, "unorderedsection"}
OfftryckAppendix ==
  Offtryck(<<Page>>,
           Facts({"margin2", "nonessential", "section"})
           \cup {Page, Heading("heading1"), Heading("heading2"),
                 Heading("implicit"), Heading("mashed2")}, 4)
OfftryckSections ==
  Offtryck(<<Page>>,
           Facts({"section", "subsection", "subsubsection", "dots",
                  "unorderedsection", "unorderedsubsection", "bulletlist",
                  "preamblesection"})
           \cup {{"section", "forslag"}, {"section", "digits"},
                 {"subsection", "digits"},
                 {"preamblesection", "toc"}, {"preamblesection", "statutes"},
                 Heading("heading1")}, 3)
Proposition ==
  [Offtryck(<<Page>>,
            Facts({"prophuvudrubrik", "proprubrik", "departement", "utdrag",
                   "preamblesection", "section", "heading1"}) \cup {Page}, 3)
     EXCEPT !.preset = TRUE]

MCProfile ==
  [rfc |-> RfcText, rfcstart |-> RfcStart, w3c |-> W3cText, jo |-> JoText,
   jk |-> JkText, direktiv |-> DirektivText, dv |-> DvText,
   myndfskr |-> MyndfskrText, appendix |-> OfftryckAppendix,
   sections |-> OfftryckSections, proposition |-> Proposition]

MCAppendix == [appendix |-> OfftryckAppendix]
=============================================================================
