------------------------------ MODULE MCStatute ------------------------------
(* Small statutes for TLC. *)
EXTENDS Statute

C(look, no) == [look |-> look, no |-> no, marks |-> {}, date |-> "none"]
With(c, m) == [c EXCEPT !.marks = {m}]
Dated(c, d) == [c EXCEPT !.date = d]

Upto(n, S) == UNION {[1..k -> S] : k \in 0..n}
Kap(n) == C("kap", n)
Par(n) == C("par", n)
Text == C("text", 0)
Rub == C("rub", 0)

(* A chapter with n sections. *)
Chapter(c, n) == <<Kap(c)>> \o [i \in 1..n |-> Par(i)]
Lines(n) == [i \in 1..n |-> With(Kap(i), "toc")]

(* A table of contents of m lines in the first section, once or in two     *)
(* wordings, and further chapters.                                         *)
WithContents ==
  {<<Kap(1), Par(1)>> \o Lines(m) \o more \o Chapter(2, n) \o Chapter(3, n) :
     m \in 1..3, n \in 1..2,
     more \in {<<>>, <<Par(2)>>, <<C("upphpar", 2)>>, <<Rub, Text>>}}
  \cup
  {<<Kap(1), Dated(Par(1), d[1])>> \o Lines(m) \o <<Dated(Par(1), d[2])>>
     \o Lines(m) \o Chapter(2, n) \o Chapter(3, n) :
     m \in 1..3, n \in 1..2,
     d \in {<<"ends", "begins">>, <<"ended", "begun">>}}

ChapterChunks ==
  {Kap(1), Kap(2), With(Kap(2), "closed"), Par(1), Par(2),
   With(Par(2), "lower"), Rub, Text, C("upphkap", 2), C("upphpar", 1)}
ListChunks ==
  {C("num", 1), C("bokst", 1), C("streck", 1), C("tab", 0), Text, Rub,
   Par(1), Par(2)}
DatedChunks ==
  {Dated(Kap(1), d) : d \in {"ends", "begins"}} \cup {Kap(2)}
  \cup {Dated(Par(n), d) : n \in 1..2, d \in {"none", "ended", "begun"}}
PartChunks ==
  {C("avd", 1), C("avd", 2), C("uavd", 1), Kap(1), Kap(2), Rub, Text, Par(1)}
ProvisionChunks ==
  {C("obs", 0), C("ob", 1), C("ob", 2), C("bil", 0), Kap(2), Par(1), Par(2),
   Text, C("num", 1)}
TableChunks ==
  {C("tab", 0), With(Text, "long"), Text, Rub, Dated(Rub, "begins"),
   C("dir", 0), Par(2), Kap(2), C("ob", 1), C("obs", 0), C("bil", 0),
   C("num", 1)}

MCTexts ==
  WithContents
  \cup {<<Kap(1)>> \o t : t \in Upto(3, ChapterChunks)}
  \cup {<<Par(1)>> \o t : t \in Upto(3, ListChunks)}
  \cup {t : t \in Upto(4, DatedChunks) \ {<<>>}}
  \cup {<<C("avd", 1)>> \o t \o <<Par(1), Par(2)>> :
          t \in Upto(3, PartChunks)}
  \cup {<<With(C("avd", 1), "lines"), rest_of_it>> \o t \o <<Par(1), Par(2)>> :
          rest_of_it \in {Rub, Text}, t \in Upto(2, PartChunks)}
  \cup {<<Par(1)>> \o t : t \in Upto(3, ProvisionChunks)}
  \cup {<<Par(1), C("tab", 0)>> \o t : t \in Upto(3, TableChunks)}
=============================================================================
