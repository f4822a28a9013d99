---------------------------- MODULE Statute_proofs ----------------------------
(***************************************************************************)
(* For any set of statutes: the variables of the parser keep their types,  *)
(* every element ends up in one of a higher rank, no provision is lost,    *)
(* every section gets a name, and a table of contents adds no chapters.    *)
(*                                                                         *)
(* An element is only made in one whose loop does not end at it, and the   *)
(* sets of what ends each loop are such that the ranks come out right.     *)
(* For that nothing is used of the recognizers, or of the order in which   *)
(* they are tried: no mistake in a regular expression can nest a section   *)
(* in a section.  What is named follows from the nesting alone.  That      *)
(* nothing is lost, and what is taken for a chapter, does need them, but   *)
(* only for the lines that begin a provision, an appendix, a chapter or a  *)
(* section; that the assertion never fails, only for lists and tables.     *)
(***************************************************************************)
EXTENDS Statute, FiniteSetTheorems, WellFoundedInduction, TLAPS

Loops == {"root", "avd", "uavd", "kap", "par", "stycke", "num", "streck",
          "bokst", "obs", "ob", "bil"}
Opened == Loops \cup {"tab", "wrap"}
Elements == Opened \cup {"rub", "upphkap", "upphpar"}

Nodes == [kind : Elements, no : Nat, up : Nat, own : SUBSET DOMAIN doc,
          date : Dates]

(* The reader is in the document or has come to its end.                   *)
Reading ==
  /\ doc \in Texts
  /\ pos \in 1..(Len(doc) + 1)
  /\ status \in {"parsing", "naming", "done"}
  /\ body \subseteq DOMAIN doc

(* The elements made are a tree with the statute as its root.              *)
Tree ==
  /\ nodes \in Seq(Nodes) /\ Len(nodes) >= 1
  /\ nodes[1].kind = "root" /\ nodes[1].up = 0
  /\ \A k \in 2..Len(nodes) :
       /\ nodes[k].kind # "root" /\ nodes[k].up \in 1..(k - 1)
       /\ nodes[nodes[k].up].kind \in Opened

(* Those being made have loops, and the statute is the first of them.      *)
Frames ==
  /\ frames \in Seq(1..Len(nodes)) /\ Len(frames) >= 1
  /\ frames[1] = 1
  /\ \A i \in 1..Len(frames) : nodes[frames[i]].kind \in Opened

IInv == Reading /\ Tree /\ Frames /\ NestedByRank

-----------------------------------------------------------------------------
(* What each set of ends leaves out.                                       *)

LEMMA EndsOf ==
  /\ DOMAIN Ends = Loops
  /\ Ends["root"] = {}
  /\ Ends["avd"] = {"avd", "obs", "bil"}
  /\ Ends["uavd"] = {"avd", "obs", "bil", "uavd"}
  /\ Ends["kap"] = {"avd", "obs", "bil", "uavd", "kap", "upphkap"}
  /\ Ends["par"] = {"avd", "obs", "bil", "uavd", "kap", "upphkap", "par",
                    "upphpar", "rub", "ob"}
  /\ Ends["stycke"] = Handlers \ {"num", "streck", "bokst", "tab"}
  /\ Ends["num"] = Handlers \ {"num", "streck", "bokst"}
  /\ Ends["streck"] = Handlers \ {"streck"}
  /\ Ends["bokst"] = Handlers \ {"bokst"}
  /\ Ends["obs"] = {"bil"} /\ Ends["ob"] = {"ob", "bil"}
  /\ Ends["bil"] = {"bil", "obs"}
BY DEF Ends, Loops, PartEnds, ChapterEnds, SectionEnds, Lists

LEMMA HandlersAre ==
  Handlers = {"avd", "uavd", "upphkap", "upphpar", "kap", "par", "tab",
              "obs", "ob", "bil", "num", "streck", "bokst", "rub", "stycke"}
<1>1. DOMAIN Recognizers = 1..14
  BY DEF Recognizers
<1>2. {Recognizers[i] : i \in 1..14} =
        {"avd", "uavd", "upphkap", "upphpar", "kap", "par", "tab",
         "obs", "ob", "bil", "num", "streck", "bokst", "rub"}
  BY DEF Recognizers
<1> QED BY <1>1, <1>2 DEF Handlers

(* The element a may be made in one of kind w.                             *)
Fits(w, kind) ==
  /\ kind = "bil" => w = "root"
  /\ w \in DOMAIN Rank /\ kind \in DOMAIN Rank => Rank[w] < Rank[kind]

LEMMA RankOf ==
  /\ DOMAIN Rank = {"avd", "uavd", "kap", "upphkap", "rub", "par", "upphpar",
                    "stycke", "num", "streck", "bokst", "tab"}
  /\ Rank["avd"] = 1 /\ Rank["uavd"] = 2 /\ Rank["kap"] = 3
  /\ Rank["upphkap"] = 3 /\ Rank["rub"] = 4 /\ Rank["par"] = 4
  /\ Rank["upphpar"] = 4 /\ Rank["stycke"] = 5 /\ Rank["num"] = 6
  /\ Rank["streck"] = 7 /\ Rank["bokst"] = 7 /\ Rank["tab"] = 7
BY DEF Rank

LEMMA MadeWhereItFits ==
  ASSUME NEW h \in Handlers, NEW w \in Loops, h \notin Ends[w],
         w = "par" => h = "stycke", w = h => h \notin Lists
  PROVE  Fits(w, h)
<1>1. CASE w = "root"
  BY <1>1, RankOf DEF Fits
<1>2. CASE w \in {"avd", "uavd", "kap"}
  BY <1>2, EndsOf, HandlersAre, RankOf DEF Fits
<1>3. CASE w = "par"
  BY <1>3, EndsOf, RankOf DEF Fits
<1>4. CASE w \in {"stycke", "num", "streck", "bokst"}
  <2>1. h \in {"num", "streck", "bokst", "tab"}
    BY <1>4, EndsOf
  <2> QED BY <1>4, <2>1, EndsOf, HandlersAre, RankOf DEF Fits, Lists
<1>5. CASE w \in {"obs", "ob", "bil"}
  BY <1>5, EndsOf, RankOf DEF Fits
<1> QED BY <1>1, <1>2, <1>3, <1>4, <1>5 DEF Loops

-----------------------------------------------------------------------------
(* What all the actions that make elements have in common.                 *)

LEMMA TopIs ==
  ASSUME Tree, Frames
  PROVE  /\ Top \in 1..Len(nodes) /\ Within \in Opened
         /\ Within = "root" => Top = 1
BY DEF Tree, Frames, Top, Within

LEMMA Shifted ==
  ASSUME NEW a \in Nat, NEW b \in Nat, NEW k \in 1..(a + b)
  PROVE  k \in 1..a \/ \E i \in 1..b : k = a + i
<1>1. CASE k \notin 1..a
  <2>1. k - a \in 1..b /\ k = a + (k - a)
    BY <1>1
  <2> QED BY <2>1
<1> QED BY <1>1

(* The chain all is added, its first kept elements are opened, and each of *)
(* them fits in the one before it.                                         *)
Adds(all, kept) ==
  /\ doc' = doc
  /\ nodes' = nodes \o [i \in DOMAIN all |->
                [all[i] EXCEPT !.up = IF i = 1 THEN Top
                                      ELSE Len(nodes) + i - 1]]
  /\ frames' = frames \o [i \in 1..kept |-> Len(nodes) + i]

FitsIn(all, kept) ==
  /\ \A i \in 1..Len(all) : all[i].kind # "root"
  /\ \A i \in 1..kept : all[i].kind \in Opened
  /\ Fits(Within, all[1].kind)
  /\ \A i \in 2..Len(all) : /\ all[i - 1].kind \in Opened
                            /\ Fits(all[i - 1].kind, all[i].kind)

LEMMA Appended ==
  ASSUME Tree, Frames,
         NEW all \in Seq(Nodes), Len(all) >= 1, NEW kept \in 0..Len(all),
         Adds(all, kept)
  PROVE  LET n == Len(nodes)
             m == Len(all)
             l == Len(frames)
         IN  /\ n \in Nat \ {0} /\ m \in Nat \ {0} /\ l \in Nat \ {0}
             /\ nodes' \in Seq(Nodes) /\ Len(nodes') = n + m
             /\ \A k \in 1..n : nodes'[k] = nodes[k]
             /\ \A i \in 1..m :
                  /\ nodes'[n + i].kind = all[i].kind
                  /\ nodes'[n + i].no = all[i].no
                  /\ nodes'[n + i].own = all[i].own
                  /\ nodes'[n + i].date = all[i].date
                  /\ nodes'[n + i].up = IF i = 1 THEN Top ELSE n + i - 1
             /\ \A k \in 1..(n + m) :
                  k \in 1..n \/ \E i \in 1..m : k = n + i
             /\ frames' \in Seq(1..(n + m)) /\ Len(frames') = l + kept
             /\ \A i \in 1..l : frames'[i] = frames[i]
             /\ \A i \in 1..kept : frames'[l + i] = n + i
             /\ \A i \in 1..(l + kept) :
                  i \in 1..l \/ \E j \in 1..kept : i = l + j
<1> DEFINE n == Len(nodes)
           m == Len(all)
           l == Len(frames)
           up(i) == IF i = 1 THEN Top ELSE n + i - 1
           new == [i \in 1..m |-> [all[i] EXCEPT !.up = up(i)]]
           more == [i \in 1..kept |-> n + i]
           S == 1..(n + m)
<1>1. /\ n \in Nat \ {0} /\ m \in Nat \ {0} /\ l \in Nat \ {0}
      /\ DOMAIN all = 1..m
  BY DEF Tree, Frames
<1>2. Top \in 1..n
  BY TopIs
<1>2a. n = Len(nodes) /\ m = Len(all) /\ l = Len(frames)
  OBVIOUS
<1> HIDE DEF n, m, l
<1>3. \A i \in 1..m : up(i) \in Nat
  BY <1>1, <1>2
<1>4. ASSUME NEW i \in 1..m
      PROVE  /\ new[i] \in Nodes /\ new[i].kind = all[i].kind
             /\ new[i].no = all[i].no /\ new[i].own = all[i].own
             /\ new[i].date = all[i].date
             /\ new[i].up = up(i)
  <2>2. all[i] \in Nodes /\ up(i) \in Nat
    BY <1>1, <1>3, <1>2a
  <2>3. new[i] = [all[i] EXCEPT !.up = up(i)]
    OBVIOUS
  <2> HIDE DEF new, up
  <2> QED BY <2>2, <2>3 DEF Nodes
<1>5. new \in Seq(Nodes) /\ Len(new) = m
  <2>1. new \in [1..m -> Nodes]
    BY <1>4
  <2> QED BY <1>1, <2>1, <1>2a
<1>6. nodes' = nodes \o new
  BY <1>1, <1>2a DEF Adds
<1>7. nodes \in Seq(Nodes)
  BY DEF Tree
<1> HIDE DEF new
<1>8. /\ nodes' \in Seq(Nodes) /\ Len(nodes') = n + m
      /\ \A k \in 1..n : nodes'[k] = nodes[k]
      /\ \A i \in 1..m : nodes'[n + i] = new[i]
  <2>1. /\ nodes \o new \in Seq(Nodes) /\ Len(nodes \o new) = n + m
        /\ \A k \in 1..n : (nodes \o new)[k] = nodes[k]
        /\ \A i \in 1..m : (nodes \o new)[n + i] = new[i]
    BY <1>1, <1>5, <1>7, <1>2a
  <2> QED BY <2>1, <1>6
<1>9. ASSUME NEW i \in 1..m
      PROVE  /\ nodes'[n + i].kind = all[i].kind
             /\ nodes'[n + i].no = all[i].no
             /\ nodes'[n + i].own = all[i].own
             /\ nodes'[n + i].date = all[i].date
             /\ nodes'[n + i].up = IF i = 1 THEN Top ELSE n + i - 1
  <2>1. nodes'[n + i] = new[i]
    BY <1>8
  <2>2. /\ new[i].kind = all[i].kind /\ new[i].no = all[i].no
        /\ new[i].own = all[i].own /\ new[i].date = all[i].date
        /\ new[i].up = up(i)
    BY <1>4
  <2>3. up(i) = IF i = 1 THEN Top ELSE n + i - 1
    OBVIOUS
  <2> HIDE DEF up
  <2> QED BY <2>1, <2>2, <2>3
<1>10. \A k \in 1..(n + m) : k \in 1..n \/ \E i \in 1..m : k = n + i
  BY <1>1, Shifted
<1>11. kept \in Nat /\ more \in Seq(S) /\ Len(more) = kept
  <2>1. more \in [1..kept -> S]
    BY <1>1
  <2> QED BY <1>1, <2>1
<1>12. \A i \in 1..kept : more[i] = n + i
  OBVIOUS
<1>13. frames \in Seq(S)
  BY <1>1, <1>2a DEF Frames
<1>14. frames' = frames \o more
  BY <1>2a DEF Adds
<1> HIDE DEF more, S
<1>15. /\ frames' \in Seq(S) /\ Len(frames') = l + kept
       /\ \A i \in 1..l : frames'[i] = frames[i]
       /\ \A i \in 1..kept : frames'[l + i] = more[i]
  <2>1. frames \o more \in Seq(S) /\ Len(frames \o more) = l + kept
    BY <1>11, <1>13, <1>2a
  <2>2. \A i \in 1..l : (frames \o more)[i] = frames[i]
    BY <1>1, <1>11, <1>13, <1>2a
  <2>3. \A i \in 1..kept : (frames \o more)[l + i] = more[i]
    BY <1>1, <1>11, <1>13, <1>2a
  <2> QED BY <2>1, <2>2, <2>3, <1>14
<1>16. \A i \in 1..(l + kept) : i \in 1..l \/ \E j \in 1..kept : i = l + j
  BY <1>1, <1>11, Shifted
<1> QED BY <1>1, <1>8, <1>9, <1>10, <1>12, <1>15, <1>16 DEF S, n, m, l

LEMMA Extended ==
  ASSUME Tree, Frames, NestedByRank,
         NEW all \in Seq(Nodes), Len(all) >= 1, NEW kept \in 0..Len(all),
         FitsIn(all, kept), Adds(all, kept)
  PROVE  Tree' /\ Frames' /\ NestedByRank'
<1> DEFINE n == Len(nodes)
           m == Len(all)
           l == Len(frames)
<1>1. /\ n \in Nat \ {0} /\ m \in Nat \ {0} /\ l \in Nat \ {0}
      /\ nodes' \in Seq(Nodes) /\ Len(nodes') = n + m
      /\ \A k \in 1..n : nodes'[k] = nodes[k]
      /\ \A i \in 1..m :
           /\ nodes'[n + i].kind = all[i].kind
           /\ nodes'[n + i].up = IF i = 1 THEN Top ELSE n + i - 1
      /\ \A k \in 1..(n + m) : k \in 1..n \/ \E i \in 1..m : k = n + i
  BY Appended
<1>2. /\ frames' \in Seq(1..(n + m)) /\ Len(frames') = l + kept
      /\ \A i \in 1..l : frames'[i] = frames[i]
      /\ \A i \in 1..kept : frames'[l + i] = n + i
      /\ \A i \in 1..(l + kept) :
           i \in 1..l \/ \E j \in 1..kept : i = l + j
  BY Appended
<1>3. Top \in 1..n /\ Within = nodes[Top].kind /\ Within \in Opened
      /\ (Within = "root" => Top = 1)
  BY TopIs DEF Within
<1>4. nodes \in Seq(Nodes) /\ DOMAIN nodes = 1..n /\ DOMAIN nodes' = 1..(n + m)
  BY <1>1 DEF Tree
<1>5. /\ frames[1] = 1 /\ \A i \in 1..l : frames[i] \in 1..n
      /\ kept \in Nat /\ \A j \in 1..kept : j \in 1..m
  BY <1>1 DEF Frames
<1> HIDE DEF n, m, l
<1>6. ASSUME NEW i \in 1..m, NEW k, k = n + i
      PROVE  /\ nodes'[k].kind = all[i].kind /\ all[i].kind # "root"
             /\ nodes'[k].up \in 1..(k - 1)
             /\ nodes'[nodes'[k].up].kind \in Opened
             /\ Fits(nodes'[nodes'[k].up].kind, all[i].kind)
  <2>1. /\ nodes'[k].kind = all[i].kind
        /\ nodes'[k].up = IF i = 1 THEN Top ELSE n + i - 1
    BY <1>1, <1>6
  <2>2. all[i].kind # "root"
    BY DEF FitsIn, m
  <2>3. CASE i = 1
    <3>1. nodes'[k].up = Top /\ nodes'[Top] = nodes[Top]
      BY <1>1, <1>3, <2>1, <2>3
    <3>2. Top \in 1..(k - 1)
      BY <1>1, <1>3, <1>6, <2>3
    <3>3. Fits(Within, all[i].kind)
      BY <2>3 DEF FitsIn
    <3> QED BY <2>1, <2>2, <3>1, <3>2, <3>3, <1>3
  <2>4. CASE i # 1
    <3>1. i - 1 \in 1..m /\ i \in 2..m /\ n + i - 1 = n + (i - 1)
      BY <1>1, <2>4
    <3>2. nodes'[n + (i - 1)].kind = all[i - 1].kind
      BY <1>1, <3>1
    <3>3. all[i - 1].kind \in Opened /\ Fits(all[i - 1].kind, all[i].kind)
      BY <3>1 DEF FitsIn, m
    <3>4. nodes'[k].up = n + (i - 1) /\ n + (i - 1) \in 1..(k - 1)
      BY <1>1, <1>6, <2>1, <2>4
    <3> QED BY <2>1, <2>2, <3>2, <3>3, <3>4
  <2> QED BY <2>3, <2>4
<1>7. Nodes' = Nodes
  BY DEF Nodes, Adds
<1>8. Tree'
  <2>1. ASSUME NEW k \in 2..(n + m)
        PROVE  /\ nodes'[k].kind # "root" /\ nodes'[k].up \in 1..(k - 1)
               /\ nodes'[nodes'[k].up].kind \in Opened
    <3>1. CASE k \in 1..n
      <4>1. nodes'[k] = nodes[k] /\ k \in 2..n
        BY <3>1, <1>1
      <4>2. /\ nodes[k].kind # "root" /\ nodes[k].up \in 1..(k - 1)
            /\ nodes[nodes[k].up].kind \in Opened
        BY <4>1 DEF Tree, n
      <4>3. nodes[k].up \in 1..n
        BY <4>1, <4>2, <1>1
      <4> QED BY <4>1, <4>2, <4>3, <1>1
    <3>2. ASSUME NEW i \in 1..m, k = n + i
          PROVE  /\ nodes'[k].kind # "root" /\ nodes'[k].up \in 1..(k - 1)
                 /\ nodes'[nodes'[k].up].kind \in Opened
      BY <3>2, <1>6
    <3>3. CASE k > n
      <4>1. k = n + (k - n) /\ k - n \in 1..m
        BY <3>3, <1>1
      <4> QED BY <3>2, <4>1
    <3>4. k \in 1..n \/ k > n
      BY <1>1
    <3> QED BY <3>1, <3>3, <3>4
  <2>2. nodes'[1].kind = "root" /\ nodes'[1].up = 0
    <3>1. nodes'[1] = nodes[1]
      BY <1>1
    <3> QED BY <3>1 DEF Tree
  <2> QED BY <2>1, <2>2, <1>1, <1>7 DEF Tree
<1>9. Frames'
  <2>1. ASSUME NEW i \in 1..(l + kept)
        PROVE  nodes'[frames'[i]].kind \in Opened
    <3>1. CASE i \in 1..l
      <4>1. frames'[i] = frames[i] /\ frames[i] \in 1..n
        BY <3>1, <1>2, <1>5
      <4>2. nodes[frames[i]].kind \in Opened
        BY <3>1 DEF Frames, l
      <4> QED BY <4>1, <4>2, <1>1
    <3>2. ASSUME NEW j \in 1..kept, i = l + j
          PROVE  nodes'[frames'[i]].kind \in Opened
      <4>1. frames'[i] = n + j /\ nodes'[n + j].kind = all[j].kind
        BY <3>2, <1>1, <1>2, <1>5
      <4> QED BY <4>1 DEF FitsIn
    <3> QED BY <3>1, <3>2, <1>2
  <2>2. frames'[1] = 1 /\ Len(frames') >= 1
    BY <1>1, <1>2, <1>5
  <2> QED BY <2>1, <2>2, <1>1, <1>2 DEF Frames
<1>10. NestedByRank'
  <2>1. SUFFICES ASSUME NEW k \in 1..(n + m)
                 PROVE  /\ nodes'[k].kind = "bil" => nodes'[k].up = 1
                        /\ /\ nodes'[k].kind \in DOMAIN Rank
                           /\ nodes'[nodes'[k].up].kind \in DOMAIN Rank
                           => Rank[nodes'[nodes'[k].up].kind]
                                < Rank[nodes'[k].kind]
    BY <1>4 DEF NestedByRank, Rank
  <2>2. CASE k = 1
    BY <2>2, <1>1, RankOf DEF Tree
  <2>3. CASE k \in 2..n
    <3>1. nodes'[k] = nodes[k] /\ k \in DOMAIN nodes
      BY <2>3, <1>1, <1>4
    <3>2. nodes[k].up \in 1..n
      BY <2>3, <1>1 DEF Tree, n
    <3>3. nodes'[nodes[k].up] = nodes[nodes[k].up]
      BY <1>1, <3>2
    <3> QED BY <3>1, <3>3 DEF NestedByRank
  <2>4. ASSUME NEW i \in 1..m, k = n + i
        PROVE  /\ nodes'[k].kind = "bil" => nodes'[k].up = 1
               /\ /\ nodes'[k].kind \in DOMAIN Rank
                  /\ nodes'[nodes'[k].up].kind \in DOMAIN Rank
                  => Rank[nodes'[nodes'[k].up].kind] < Rank[nodes'[k].kind]
    <3>1. /\ nodes'[k].kind = all[i].kind
          /\ Fits(nodes'[nodes'[k].up].kind, all[i].kind)
      BY <2>4, <1>6
    <3>2. nodes'[nodes'[k].up].kind = "root" => nodes'[k].up = 1
      <4>1. \A j \in 2..(n + m) : nodes'[j].kind # "root"
        BY <1>1, <1>8 DEF Tree
      <4>2. nodes'[k].up \in 1..(n + m)
        <5>1. nodes'[k].up \in 1..(k - 1)
          BY <2>4, <1>6
        <5> QED BY <5>1, <2>4, <1>1
      <4> QED BY <4>1, <4>2, <1>1
    <3> QED BY <3>1, <3>2 DEF Fits
  <2> QED BY <2>2, <2>3, <2>4, <1>1
<1> QED BY <1>8, <1>9, <1>10

-----------------------------------------------------------------------------
(* The ways in which a step changes the tree and the elements being made.  *)

Kept(chain, opened) == IF opened THEN Len(chain) ELSE 0

LEMMA MadeExtends ==
  ASSUME Tree, Frames, NestedByRank,
         NEW chain \in Seq(Nodes), Len(chain) >= 1, NEW opened \in BOOLEAN,
         FitsIn(chain, Kept(chain, opened)), Made(chain, opened)
  PROVE  Tree' /\ Frames' /\ NestedByRank'
<1> DEFINE W == Node("wrap", Basefile, 0, {}, "none")
           m == Len(chain)
<1>1. m \in Nat \ {0} /\ DOMAIN chain = 1..m /\ doc' = doc
  BY DEF Made, rest
<1>2. CASE Within = "obs" /\ chain[1].kind # "ob"
  <2> DEFINE all == <<W>> \o chain
             kept == IF opened THEN Len(all) ELSE 1
  <2>1. W \in Nodes /\ W.kind = "wrap"
    BY StatuteAssumption
    DEF Node, Nodes, Elements, Opened, Dates
  <2> HIDE DEF W
  <2>2. /\ all \in Seq(Nodes) /\ Len(all) = m + 1 /\ all[1] = W
        /\ \A i \in 1..m : all[i + 1] = chain[i]
    BY <2>1, <1>1
  <2>3. FitsIn(all, kept)
    <3>1. \A i \in 2..(m + 1) : i - 1 \in 1..m /\ all[i] = chain[i - 1]
      <4>1. ASSUME NEW i \in 2..(m + 1)
            PROVE  i - 1 \in 1..m /\ all[i] = chain[i - 1]
        <5>1. i - 1 \in 1..m /\ (i - 1) + 1 = i
          BY <1>1
        <5> QED BY <5>1, <2>2
      <4> QED BY <4>1
    <3>2. \A i \in 1..(m + 1) : all[i].kind # "root"
      BY <3>1, <2>1, <2>2, <1>1 DEF FitsIn
    <3>3. \A i \in 1..kept : all[i].kind \in Opened
      <4>1. all[1].kind \in Opened
        BY <2>1, <2>2 DEF Opened
      <4>2. CASE opened
        BY <4>1, <4>2, <3>1, <2>2, <1>1 DEF FitsIn, Kept
      <4> QED BY <4>1, <4>2
    <3>4. Fits(Within, all[1].kind)
      BY <2>1, <2>2, RankOf DEF Fits
    <3>5. \A i \in 2..(m + 1) : /\ all[i - 1].kind \in Opened
                                /\ Fits(all[i - 1].kind, all[i].kind)
      <4>1. SUFFICES ASSUME NEW i \in 2..(m + 1)
                     PROVE  /\ all[i - 1].kind \in Opened
                            /\ Fits(all[i - 1].kind, all[i].kind)
        OBVIOUS
      <4>2. CASE i = 2
        <5>1. all[i - 1].kind = "wrap" /\ all[i] = chain[1]
          BY <4>2, <2>1, <2>2, <1>1
        <5>2. chain[1].kind # "bil"
          BY <1>2 DEF FitsIn, Fits
        <5> QED BY <5>1, <5>2, RankOf DEF Fits, Opened
      <4>3. CASE i \in 3..(m + 1)
        <5> DEFINE j == i - 1
        <5>1. j \in 2..m /\ j \in 2..(m + 1)
          BY <4>3, <1>1
        <5>2. all[j] = chain[j - 1] /\ all[i] = chain[j]
          BY <5>1, <3>1
        <5>3. /\ chain[j - 1].kind \in Opened
              /\ Fits(chain[j - 1].kind, chain[j].kind)
          BY <5>1 DEF FitsIn
        <5> QED BY <5>2, <5>3
      <4> QED BY <4>2, <4>3, <1>1
    <3> QED BY <3>2, <3>3, <3>4, <3>5, <2>2 DEF FitsIn
  <2>4. Adds(all, kept)
    BY <1>1, <1>2 DEF Made, Adds, W
  <2>5. kept \in 0..Len(all) /\ Len(all) >= 1
    BY <2>2, <1>1
  <2> HIDE DEF all, kept
  <2> QED BY <2>2, <2>3, <2>4, <2>5, Extended
<1>3. CASE ~ (Within = "obs" /\ chain[1].kind # "ob")
  <2> DEFINE kept == Kept(chain, opened)
  <2>1. Adds(chain, kept)
    BY <1>1, <1>3 DEF Made, Adds, Kept
  <2>2. kept \in 0..Len(chain)
    BY <1>1 DEF Kept
  <2> HIDE DEF kept
  <2> QED BY <2>1, <2>2, Extended DEF kept
<1> QED BY <1>2, <1>3

LEMMA Popped ==
  ASSUME Tree, Frames, NestedByRank, Within # "root",
         frames' = SubSeq(frames, 1, Len(frames) - 1),
         nodes' = nodes, doc' = doc
  PROVE  Tree' /\ Frames' /\ NestedByRank'
<1>1. Len(frames) \in Nat /\ Len(frames) >= 2
  BY DEF Tree, Frames, Within, Top
<1>2. /\ frames' \in Seq(1..Len(nodes)) /\ Len(frames') = Len(frames) - 1
      /\ \A i \in 1..(Len(frames) - 1) : frames'[i] = frames[i]
  BY <1>1 DEF Frames
<1>3. Frames'
  BY <1>1, <1>2 DEF Frames
<1> QED BY <1>3 DEF Tree, Nodes, NestedByRank

LEMMA Owned ==
  ASSUME Tree, Frames, NestedByRank, NEW i \in DOMAIN doc,
         nodes' = [nodes EXCEPT ![Top].own = @ \cup {i}],
         frames' = frames, doc' = doc
  PROVE  Tree' /\ Frames' /\ NestedByRank'
<1> DEFINE new == [nodes[Top] EXCEPT !.own = @ \cup {i}]
<1>1. /\ Top \in 1..Len(nodes) /\ nodes \in Seq(Nodes)
      /\ Len(nodes) \in Nat /\ DOMAIN nodes = 1..Len(nodes)
  BY TopIs DEF Tree
<1>2. /\ new \in Nodes /\ new.kind = nodes[Top].kind
      /\ new.up = nodes[Top].up
  <2>1. nodes[Top] \in Nodes
    BY <1>1
  <2> QED BY <2>1 DEF Nodes
<1>3. nodes' = [nodes EXCEPT ![Top] = new]
  BY <1>1
<1> HIDE DEF new
<1>4. /\ nodes' \in Seq(Nodes) /\ Len(nodes') = Len(nodes)
      /\ DOMAIN nodes' = 1..Len(nodes)
  <2> DEFINE l == Len(nodes)
  <2>1. l \in Nat /\ nodes \in [1..l -> Nodes]
    BY <1>1
  <2> HIDE DEF l
  <2>2. nodes' \in [1..l -> Nodes]
    BY <2>1, <1>2, <1>3
  <2>3. nodes' \in Seq(Nodes) /\ Len(nodes') = l
    BY <2>1, <2>2
  <2> QED BY <2>2, <2>3 DEF l
<1>5. \A k \in 1..Len(nodes) : /\ nodes'[k].kind = nodes[k].kind
                              /\ nodes'[k].up = nodes[k].up
  BY <1>1, <1>2, <1>3
<1>6. Tree'
  <2>1. Nodes' = Nodes
    BY DEF Nodes
  <2> QED BY <2>1, <1>1, <1>4, <1>5 DEF Tree
<1>7. Frames'
  BY <1>1, <1>4, <1>5 DEF Frames
<1>8. NestedByRank'
  <2>1. SUFFICES ASSUME NEW k \in 1..Len(nodes)
                 PROVE  /\ nodes'[k].kind = "bil" => nodes'[k].up = 1
                        /\ /\ nodes'[k].kind \in DOMAIN Rank
                           /\ nodes'[nodes'[k].up].kind \in DOMAIN Rank
                           => Rank[nodes'[nodes'[k].up].kind]
                                < Rank[nodes'[k].kind]
    BY <1>4 DEF NestedByRank, Rank
  <2>2. CASE k = 1
    BY <2>2, <1>5, RankOf DEF Tree
  <2>3. CASE k \in 2..Len(nodes)
    <3>1. nodes[k].up \in 1..Len(nodes)
      BY <2>3, <1>1 DEF Tree
    <3> QED BY <3>1, <1>1, <1>5 DEF NestedByRank
  <2> QED BY <2>2, <2>3, <1>1
<1> QED BY <1>6, <1>7, <1>8

-----------------------------------------------------------------------------
(* The elements that the actions make.                                     *)

LEMMA DocIs ==
  ASSUME Reading
  PROVE  /\ doc \in Seq(Chunk) /\ Len(doc) \in Nat \ {0}
         /\ DOMAIN doc = 1..Len(doc)
         /\ \A i \in 1..Len(doc) : /\ doc[i].no \in Nat
                                   /\ doc[i].date \in Dates
<1>1. doc \in Seq(Chunk) /\ doc # <<>>
  BY StatuteAssumption DEF Reading
<1>2. \A i \in 1..Len(doc) : doc[i] \in Chunk
  BY <1>1
<1>3. \A c \in Chunk : c.no \in Nat /\ c.date \in Dates
  BY DEF Chunk
<1> HIDE DEF Chunk
<1>4. Len(doc) \in Nat \ {0} /\ DOMAIN doc = 1..Len(doc)
  BY <1>1
<1> QED BY <1>1, <1>2, <1>3, <1>4

LEMMA ElementIs ==
  ASSUME Reading, ~eof(pos), NEW kind \in Elements, NEW n \in 0..2,
         pos + n <= Len(doc) + 1
  PROVE  Element(kind, n) \in Nodes /\ Element(kind, n).kind = kind
<1>1. pos \in 1..Len(doc)
  BY DocIs DEF Reading, eof
<1>2. pos..(pos + n - 1) \subseteq DOMAIN doc
  BY <1>1, DocIs
<1> QED BY <1>1, <1>2, DocIs DEF Element, Node, Nodes

(* A single element, opened or not.                                        *)
LEMMA OneMade ==
  ASSUME Tree, Frames, NestedByRank,
         NEW e \in Nodes, NEW opened \in BOOLEAN, Made(<<e>>, opened),
         e.kind # "root", opened => e.kind \in Opened, Fits(Within, e.kind)
  PROVE  Tree' /\ Frames' /\ NestedByRank'
<1> DEFINE chain == <<e>>
<1>1. chain \in Seq(Nodes) /\ Len(chain) = 1 /\ chain[1] = e
  OBVIOUS
<1> HIDE DEF chain
<1>2. FitsIn(chain, Kept(chain, opened))
  BY <1>1 DEF FitsIn, Kept
<1>3. Made(chain, opened)
  BY DEF chain
<1> QED BY <1>1, <1>2, <1>3, MadeExtends

(* An element is made only where it fits.                                  *)
LEMMA MakesFits ==
  ASSUME Tree, Frames, NEW h \in Handlers, Makes(h),
         Within = h => h \notin Lists
  PROVE  ~eof(pos) /\ Fits(Within, h)
<1>1. Within \in Loops
  BY TopIs DEF Makes, Turn, Opened
<1>2. h \notin Ends[Within] /\ (Within = "par" => h = "stycke") /\ ~eof(pos)
  BY DEF Makes, Turn
<1> QED BY <1>1, <1>2, MadeWhereItFits

LEMMA HandlersAreElements ==
  \A h \in Handlers : h \in Elements /\ h # "root"
BY HandlersAre DEF Elements, Opened, Loops

(* The form most actions have.                                             *)
LEMMA MakesOne ==
  ASSUME Reading, Tree, Frames, NestedByRank,
         NEW h \in Handlers, Makes(h), Within = h => h \notin Lists,
         NEW n \in 0..2, pos + n <= Len(doc) + 1,
         NEW opened \in BOOLEAN, opened => h \in Opened,
         Made(<<Element(h, n)>>, opened)
  PROVE  Tree' /\ Frames' /\ NestedByRank'
<1> DEFINE e == Element(h, n)
<1>1. e \in Nodes /\ e.kind = h
  BY MakesFits, HandlersAreElements, ElementIs
<1>2. Fits(Within, h) /\ h # "root"
  BY MakesFits, HandlersAreElements
<1> HIDE DEF e
<1>3. Made(<<e>>, opened)
  BY DEF e
<1> QED BY <1>1, <1>2, <1>3, OneMade

LEMMA MakesOpened ==
  ASSUME Reading, Tree, Frames, NestedByRank,
         NEW h \in Handlers, Makes(h), Within = h => h \notin Lists,
         NEW n \in 0..2, pos + n <= Len(doc) + 1, h \in Opened,
         Made(<<Element(h, n)>>, TRUE)
  PROVE  Tree' /\ Frames' /\ NestedByRank'
BY MakesOne, Zenon

LEMMA MakesClosed ==
  ASSUME Reading, Tree, Frames, NestedByRank,
         NEW h \in Handlers, Makes(h), Within = h => h \notin Lists,
         NEW n \in 0..2, pos + n <= Len(doc) + 1,
         Made(<<Element(h, n)>>, FALSE)
  PROVE  Tree' /\ Frames' /\ NestedByRank'
BY MakesOne, Zenon

-----------------------------------------------------------------------------
(* The elements made, action by action.                                    *)

LEMMA InDoc ==
  ASSUME Reading, ~eof(pos)
  PROVE  /\ pos \in 1..Len(doc) /\ pos + 0 <= Len(doc) + 1
         /\ pos + 1 <= Len(doc) + 1
BY DocIs DEF Reading, eof

LEMMA LabelInDoc ==
  ASSUME Reading, LinesFollow, ~Marked(pos, "lines"), ~Marked(pos + 1, "long")
  PROVE  pos + 2 <= Len(doc) + 1
BY DocIs DEF Reading, LinesFollow, eof

LEMMA OpenHandlers ==
  {"avd", "uavd", "kap", "par", "stycke", "num", "streck", "bokst", "obs",
   "ob", "bil", "tab"} \subseteq Handlers \cap Opened
BY HandlersAre DEF Opened, Loops

LEMMA TreeStep ==
  ASSUME Reading, Tree, Frames, NestedByRank, [Next]_vars
  PROVE  Tree' /\ Frames' /\ NestedByRank'
<1> DEFINE Good == Tree' /\ Frames' /\ NestedByRank'
<1>1. CASE Return
  <2>1. Within # "root"
    BY <1>1, EndsOf DEF Return
  <2> QED BY <1>1, <2>1, Popped DEF Return, rest
<1>2. CASE InnerReturn
  <2>1. Within # "root"
    BY <1>2 DEF InnerReturn
  <2> QED BY <1>2, <2>1, Popped DEF InnerReturn, rest
<1>3. CASE makeAvdelning
  <2> DEFINE label == /\ ~Marked(pos, "lines") /\ ~Marked(pos + 1, "long")
                      /\ ~isKapitel(pos + 1) /\ Look(pos + 1) # "uavd"
             n == IF label THEN 2 ELSE 1
  <2>1. Made(<<Element("avd", n)>>, TRUE)
    BY <1>3 DEF makeAvdelning
  <2>2. Makes("avd") /\ LinesFollow
    BY <1>3 DEF makeAvdelning
  <2>3. "avd" \in Handlers \cap Opened /\ "avd" \notin Lists
    BY OpenHandlers DEF Lists
  <2>4. ~eof(pos)
    BY <2>2 DEF Makes, Turn
  <2>5. n \in 0..2 /\ pos + n <= Len(doc) + 1
    BY <2>2, <2>4, InDoc, LabelInDoc
  <2> HIDE DEF n
  <2> QED BY <2>1, <2>2, <2>3, <2>5, MakesOpened, Zenon
<1>4. CASE makeUnderavdelning
  <2>1. Makes("uavd") /\ Made(<<Element("uavd", 1)>>, TRUE)
    BY <1>4 DEF makeUnderavdelning
  <2>2. "uavd" \in Handlers \cap Opened /\ "uavd" \notin Lists
    BY OpenHandlers DEF Lists
  <2>3. 1 \in 0..2 /\ pos + 1 <= Len(doc) + 1
    BY <2>1, InDoc DEF Makes, Turn
  <2> QED BY <2>1, <2>2, <2>3, MakesOpened, Zenon
<1>5. CASE makeUpphavtKapitel
  <2>1. Makes("upphkap") /\ Made(<<Element("upphkap", 1)>>, FALSE)
    BY <1>5 DEF makeUpphavtKapitel
  <2>2. "upphkap" \in Handlers /\ "upphkap" \notin Lists
    BY HandlersAre DEF Lists
  <2>3. 1 \in 0..2 /\ pos + 1 <= Len(doc) + 1
    BY <2>1, InDoc DEF Makes, Turn
  <2> QED BY <2>1, <2>2, <2>3, MakesClosed, Zenon
<1>6. CASE makeKapitel
  <2>1. Makes("kap") /\ Made(<<Element("kap", 1)>>, TRUE)
    BY <1>6 DEF makeKapitel
  <2>2. "kap" \in Handlers \cap Opened /\ "kap" \notin Lists
    BY OpenHandlers DEF Lists
  <2>3. 1 \in 0..2 /\ pos + 1 <= Len(doc) + 1
    BY <2>1, InDoc DEF Makes, Turn
  <2> QED BY <2>1, <2>2, <2>3, MakesOpened, Zenon
<1>7. CASE makeRubrik
  <2> DEFINE level == IF Remembered.level = 2 THEN 2 ELSE 1
  <2>1. Made(<<[Element("rub", 1) EXCEPT !.no = level]>>, FALSE)
    BY <1>7 DEF makeRubrik
  <2>2. Makes("rub")
    BY <1>7 DEF makeRubrik
  <2>2a. "rub" \in Handlers /\ "rub" \notin Lists
    BY HandlersAre DEF Lists
  <2>3. Fits(Within, "rub") /\ pos + 1 <= Len(doc) + 1 /\ ~eof(pos)
    BY <2>2, <2>2a, MakesFits, InDoc
  <2>4. Element("rub", 1) \in Nodes /\ Element("rub", 1).kind = "rub"
    BY <2>3, ElementIs DEF Elements
  <2> DEFINE e == [Element("rub", 1) EXCEPT !.no = level]
  <2>5. e \in Nodes /\ e.kind = "rub"
    <3>1. level \in Nat
      OBVIOUS
    <3> HIDE DEF level
    <3> QED BY <2>4, <3>1 DEF Nodes
  <2> HIDE DEF e
  <2>6. Made(<<e>>, FALSE)
    BY <2>1 DEF e
  <2> QED BY <2>3, <2>5, <2>6, OneMade
<1>8. CASE makeUpphavdParagraf
  <2>1. Makes("upphpar") /\ Made(<<Element("upphpar", 1)>>, FALSE)
    BY <1>8 DEF makeUpphavdParagraf
  <2>2. "upphpar" \in Handlers /\ "upphpar" \notin Lists
    BY HandlersAre DEF Lists
  <2>3. 1 \in 0..2 /\ pos + 1 <= Len(doc) + 1
    BY <2>1, InDoc DEF Makes, Turn
  <2> QED BY <2>1, <2>2, <2>3, MakesClosed, Zenon
<1>9. CASE makeParagraf
  <2> DEFINE chain == <<Element("par", 0), Element("stycke", 1)>>
  <2>1. Makes("par") /\ Made(chain, TRUE)
    BY <1>9 DEF makeParagraf
  <2>1a. "par" \in Handlers /\ "par" \notin Lists
    BY OpenHandlers DEF Lists
  <2>2. /\ ~eof(pos) /\ Fits(Within, "par")
        /\ pos + 0 <= Len(doc) + 1 /\ pos + 1 <= Len(doc) + 1
    BY <2>1, <2>1a, MakesFits, InDoc
  <2>3. /\ Element("par", 0) \in Nodes /\ Element("par", 0).kind = "par"
        /\ Element("stycke", 1) \in Nodes
        /\ Element("stycke", 1).kind = "stycke"
    BY <2>2, ElementIs DEF Elements, Opened, Loops
  <2>4. /\ chain \in Seq(Nodes) /\ Len(chain) = 2 /\ Len(chain) >= 1
        /\ chain[1].kind = "par" /\ chain[2].kind = "stycke"
    BY <2>3
  <2> HIDE DEF chain
  <2>5. Fits("par", "stycke")
    BY RankOf DEF Fits
  <2>6. FitsIn(chain, Kept(chain, TRUE))
    BY <2>2, <2>4, <2>5 DEF FitsIn, Kept, Opened, Loops
  <2> QED BY <2>1, <2>4, <2>6, MadeExtends, Zenon
<1>10. CASE makeStycke
  <2>1. Makes("stycke") /\ Made(<<Element("stycke", 1)>>, TRUE)
    BY <1>10 DEF makeStycke
  <2>2. "stycke" \in Handlers \cap Opened /\ "stycke" \notin Lists
    BY OpenHandlers DEF Lists
  <2>3. 1 \in 0..2 /\ pos + 1 <= Len(doc) + 1
    BY <2>1, InDoc DEF Makes, Turn
  <2> QED BY <2>1, <2>2, <2>3, MakesOpened, Zenon
<1>11. CASE makeLista
  <2>1. PICK h \in Lists : /\ Makes(h) /\ Within # h
                           /\ Made(<<Element(h, 0)>>, TRUE)
    BY <1>11 DEF makeLista
  <2>2. 0 \in 0..2 /\ pos + 0 <= Len(doc) + 1
    BY <2>1, InDoc DEF Makes, Turn
  <2>3. h \in Handlers /\ h \in Opened
    BY OpenHandlers DEF Lists
  <2> QED BY <2>1, <2>2, <2>3, MakesOpened, Zenon
<1>12. CASE Listelement
  <2>1. PICK h \in Lists : Makes(h)
    BY <1>12 DEF Listelement
  <2>2. pos \in DOMAIN doc
    BY <2>1, InDoc, DocIs DEF Makes, Turn
  <2> QED BY <1>12, <2>2, Owned DEF Listelement, rest
<1>13. CASE makeTabell
  <2>1. Makes("tab") /\ Made(<<Element("tab", 1)>>, TRUE)
    BY <1>13 DEF makeTabell
  <2>2. "tab" \in Handlers \cap Opened /\ "tab" \notin Lists
    BY OpenHandlers DEF Lists
  <2>3. 1 \in 0..2 /\ pos + 1 <= Len(doc) + 1
    BY <2>1, InDoc DEF Makes, Turn
  <2> QED BY <2>1, <2>2, <2>3, MakesOpened, Zenon
<1>14. CASE Tabellrad
  <2>1. CASE Directive
    BY <1>14, <2>1
    DEF Tabellrad, rest, Tree, Nodes, Frames, NestedByRank
  <2>2. CASE ~Directive
    <3>1. pos \in DOMAIN doc
      BY <1>14, InDoc, DocIs DEF Tabellrad
    <3> QED BY <1>14, <2>2, <3>1, Owned DEF Tabellrad, rest
  <2> QED BY <2>1, <2>2
<1>15. CASE makeOvergangsbestammelser
  <2>1. Makes("obs") /\ Made(<<Element("obs", 1)>>, TRUE)
    BY <1>15 DEF makeOvergangsbestammelser
  <2>2. "obs" \in Handlers \cap Opened /\ "obs" \notin Lists
    BY OpenHandlers DEF Lists
  <2>3. 1 \in 0..2 /\ pos + 1 <= Len(doc) + 1
    BY <2>1, InDoc DEF Makes, Turn
  <2> QED BY <2>1, <2>2, <2>3, MakesOpened, Zenon
<1>16. CASE RubrikSaknas
  <2>1. /\ Makes("ob") /\ Within = "root"
        /\ Made(<<Element("obs", 0)>>, TRUE)
    BY <1>16 DEF RubrikSaknas
  <2>2. ~eof(pos) /\ pos + 0 <= Len(doc) + 1
    BY <2>1, InDoc DEF Makes, Turn
  <2> DEFINE e == Element("obs", 0)
  <2>3. e \in Nodes /\ e.kind = "obs"
    BY <2>2, ElementIs DEF Elements, Opened, Loops
  <2> HIDE DEF e
  <2>4. Fits(Within, "obs") /\ "obs" \in Opened
    BY <2>1, RankOf DEF Fits, Opened, Loops
  <2>5. Made(<<e>>, TRUE)
    BY <2>1 DEF e
  <2> QED BY <2>3, <2>4, <2>5, OneMade
<1>17. CASE makeOvergangsbestammelse
  <2>1. Makes("ob") /\ Made(<<Element("ob", 1)>>, TRUE)
    BY <1>17 DEF makeOvergangsbestammelse
  <2>2. "ob" \in Handlers \cap Opened /\ "ob" \notin Lists
    BY OpenHandlers DEF Lists
  <2>3. 1 \in 0..2 /\ pos + 1 <= Len(doc) + 1
    BY <2>1, InDoc DEF Makes, Turn
  <2> QED BY <2>1, <2>2, <2>3, MakesOpened, Zenon
<1>18. CASE makeBilaga
  <2>1. Makes("bil") /\ Made(<<Element("bil", 1)>>, TRUE)
    BY <1>18 DEF makeBilaga
  <2>2. "bil" \in Handlers \cap Opened /\ "bil" \notin Lists
    BY OpenHandlers DEF Lists
  <2>3. 1 \in 0..2 /\ pos + 1 <= Len(doc) + 1
    BY <2>1, InDoc DEF Makes, Turn
  <2> QED BY <2>1, <2>2, <2>3, MakesOpened, Zenon
<1>19. CASE EndOfText
  <2>1. frames' = <<1>> /\ nodes' = nodes /\ doc' = doc
    BY <1>19 DEF EndOfText
  <2>2. Frames'
    BY <2>1 DEF Frames, Tree, Opened, Loops
  <2> QED BY <2>1, <2>2 DEF Tree, Nodes, NestedByRank
<1>20. CASE construct_id \/ postprocess_doc \/ UNCHANGED vars
  BY <1>20
  DEF construct_id, postprocess_doc, vars, Tree, Nodes, Frames, NestedByRank
<1> QED
  BY <1>1, <1>2, <1>3, <1>4, <1>5, <1>6, <1>7, <1>8, <1>9, <1>10, <1>11,
     <1>12, <1>13, <1>14, <1>15, <1>16, <1>17, <1>18, <1>19, <1>20
  DEF Next

-----------------------------------------------------------------------------
(* The reader.                                                             *)

LEMMA OwnedInDoc ==
  ASSUME Tree, NEW ks \in SUBSET DOMAIN nodes
  PROVE  Chunks(ks) \subseteq DOMAIN doc
<1>1. \A k \in DOMAIN nodes : nodes[k].own \subseteq DOMAIN doc
  <2>1. \A k \in DOMAIN nodes : nodes[k] \in Nodes
    BY DEF Tree
  <2> QED BY <2>1 DEF Nodes
<1> QED BY <1>1 DEF Chunks

LEMMA ReadingStep ==
  ASSUME Reading, Tree, [Next]_vars
  PROVE  Reading'
<1>1. CASE \/ Return \/ InnerReturn \/ EndOfText \/ construct_id
           \/ makeLista \/ RubrikSaknas \/ UNCHANGED vars
  BY <1>1
  DEF Reading, Return, InnerReturn, EndOfText, construct_id, makeLista,
      RubrikSaknas, Made, rest, vars
<1>2. CASE \/ makeUnderavdelning \/ makeUpphavtKapitel \/ makeKapitel
           \/ makeRubrik \/ makeUpphavdParagraf \/ makeParagraf
           \/ makeStycke \/ Listelement \/ makeTabell \/ Tabellrad
           \/ makeOvergangsbestammelser \/ makeOvergangsbestammelse
           \/ makeBilaga
  <2>1. ~eof(pos) /\ pos' = pos + 1
    BY <1>2
    DEF makeUnderavdelning, makeUpphavtKapitel, makeKapitel, makeRubrik,
        makeUpphavdParagraf, makeParagraf, makeStycke, Listelement,
        makeTabell, Tabellrad, makeOvergangsbestammelser,
        makeOvergangsbestammelse, makeBilaga, Makes, Turn
  <2>2. UNCHANGED rest
    BY <1>2
    DEF makeUnderavdelning, makeUpphavtKapitel, makeKapitel, makeRubrik,
        makeUpphavdParagraf, makeParagraf, makeStycke, Listelement,
        makeTabell, Tabellrad, makeOvergangsbestammelser,
        makeOvergangsbestammelse, makeBilaga, Made
  <2> QED BY <2>1, <2>2, InDoc, DocIs DEF Reading, rest
<1>3. CASE makeAvdelning
  <2> DEFINE label == /\ ~Marked(pos, "lines") /\ ~Marked(pos + 1, "long")
                      /\ ~isKapitel(pos + 1) /\ Look(pos + 1) # "uavd"
             n == IF label THEN 2 ELSE 1
  <2>1. Makes("avd") /\ LinesFollow /\ pos' = pos + n /\ UNCHANGED rest
    BY <1>3 DEF makeAvdelning, Made
  <2>2. ~eof(pos)
    BY <2>1 DEF Makes, Turn
  <2>3. n \in 1..2 /\ pos + n <= Len(doc) + 1
    BY <2>1, <2>2, InDoc, LabelInDoc
  <2> HIDE DEF n
  <2> QED BY <2>1, <2>3, DocIs DEF Reading, rest
<1>4. CASE postprocess_doc
  <2>1. PICK ks \in SUBSET DOMAIN nodes : body' = Chunks(ks)
    <3> DEFINE lists == {k \in Children(1) : nodes[k].kind = "obs"}
               first == {k \in lists : \A j \in lists : k <= j}
               obs == UNION {Children(k) : k \in first}
               back == {k \in obs :
                          /\ nodes[k].no \in Registered
                          /\ \A j \in obs : nodes[j].no = nodes[k].no
                                            => j <= k}
               gone == IF obs = {} THEN {} ELSE UNION {In(k) : k \in first}
               kept == (DOMAIN nodes \ gone) \cup UNION {In(k) : k \in back}
    <3>1. body' = Chunks(kept)
      BY <1>4 DEF postprocess_doc
    <3>2. \A k : In(k) \subseteq DOMAIN nodes
      BY DEF In
    <3> HIDE DEF back, gone
    <3>3. kept \subseteq DOMAIN nodes
      BY <3>2
    <3> HIDE DEF kept
    <3> QED BY <3>1, <3>3
  <2>2. body' \subseteq DOMAIN doc
    BY <2>1, OwnedInDoc
  <2> QED BY <1>4, <2>2 DEF postprocess_doc, Reading
<1> QED BY <1>1, <1>2, <1>3, <1>4 DEF Next

-----------------------------------------------------------------------------
LEMMA InitIInv == ASSUME Init PROVE IInv
<1>1. /\ doc \in Texts /\ body = {} /\ status = "parsing" /\ frames = <<1>>
      /\ pos \in 1..2
  BY DEF Init, makeForfattning
<1>2. PICK own \in SUBSET {1} : nodes = <<Node("root", 0, 0, own, "none")>>
  BY DEF Init, makeForfattning
<1>3. Len(doc) \in Nat \ {0} /\ DOMAIN doc = 1..Len(doc)
  BY <1>1, StatuteAssumption
<1>4. Reading
  BY <1>1, <1>3 DEF Reading
<1>5. Node("root", 0, 0, own, "none") \in Nodes
  BY <1>3 DEF Node, Nodes, Elements, Opened, Loops, Dates
<1>6. Tree
  BY <1>2, <1>5 DEF Tree, Node
<1>7. Frames
  BY <1>1, <1>2 DEF Frames, Node, Opened, Loops
<1>8. NestedByRank
  BY <1>2, RankOf DEF NestedByRank, Node
<1> QED BY <1>4, <1>6, <1>7, <1>8 DEF IInv

LEMMA Invariant == Spec => []IInv
<1>1. IInv /\ [Next]_vars => IInv'
  BY TreeStep, ReadingStep DEF IInv
<1> QED BY <1>1, InitIInv, PTL DEF Spec

(* The variables keep their types: elements being made are in the tree,    *)
(* elements and their text are in the document, whatever is made of it.    *)
THEOREM TypeCorrect == Spec => []TypeOK
<1>1. IInv => TypeOK
  <2>1. SUFFICES ASSUME IInv PROVE TypeOK
    OBVIOUS
  <2>2. \A k \in DOMAIN nodes : nodes[k] \in Nodes
    BY <2>1 DEF IInv, Tree
  <2>3. \A k \in DOMAIN nodes :
          /\ nodes[k].kind \in
               DOMAIN Ends \cup {"rub", "upphkap", "upphpar", "tab", "wrap"}
          /\ nodes[k].own \subseteq DOMAIN doc
    BY <2>2, EndsOf DEF Nodes, Elements, Opened
  <2>4. DOMAIN nodes = 1..Len(nodes) /\ Len(nodes) \in Nat
    BY <2>1 DEF IInv, Tree
  <2>5. \A k \in DOMAIN nodes : nodes[k].up \in 0..(k - 1)
    BY <2>1, <2>4 DEF IInv, Tree
  <2>6. /\ Len(frames) >= 1
        /\ \A i \in DOMAIN frames : frames[i] \in DOMAIN nodes
    BY <2>1, <2>4 DEF IInv, Frames
  <2> QED BY <2>1, <2>3, <2>5, <2>6 DEF TypeOK, IInv, Reading
<1> QED BY <1>1, Invariant, PTL

(* Whatever the statute and however wrong the recognizers: a section is    *)
(* never made in a section, a chapter never in a chapter or section, and   *)
(* an appendix never in anything (the loops of the makeX functions).       *)
THEOREM Nesting == Spec => []NestedByRank
<1>1. IInv => NestedByRank
  BY DEF IInv
<1> QED BY <1>1, Invariant, PTL

-----------------------------------------------------------------------------
(* What an element is in.                                                  *)

(* The least set that has what the element is in and what that is in.      *)
Holds(k, S) ==
  nodes[k].up \in S /\ \A i \in S : i # 1 => nodes[i].up \in S

Holders(k) == {j \in DOMAIN nodes : \A S \in SUBSET DOMAIN nodes :
                                      Holds(k, S) => j \in S}

(* The equation that defines Above has a solution.                         *)
LEMMA AboveIs ==
  ASSUME Tree
  PROVE  \A k \in DOMAIN nodes :
           Above[k] = IF k = 1 THEN {}
                      ELSE {nodes[k].up} \cup Above[nodes[k].up]
<1> DEFINE Solves(up) ==
             up = [k \in DOMAIN nodes |->
                     IF k = 1 THEN {} ELSE {nodes[k].up} \cup up[nodes[k].up]]
           all == [k \in DOMAIN nodes |-> IF k = 1 THEN {} ELSE Holders(k)]
<1>1. \A k \in DOMAIN nodes : k # 1 => nodes[k].up \in DOMAIN nodes
  BY DEF Tree
<1>2. ASSUME NEW k \in DOMAIN nodes, k # 1
      PROVE  Holders(k) = {nodes[k].up} \cup all[nodes[k].up]
  <2> DEFINE u == nodes[k].up
             T == {u} \cup all[u]
  <2>1. u \in DOMAIN nodes
    BY <1>1, <1>2
  <2>2. all[u] = IF u = 1 THEN {} ELSE Holders(u)
    BY <2>1
  <2>3. T \in SUBSET DOMAIN nodes
    BY <2>1, <2>2 DEF Holders
  <2>4. Holds(k, T)
    <3>1. ASSUME u # 1 PROVE nodes[u].up \in Holders(u)
      BY <1>1, <2>1, <3>1 DEF Holders, Holds
    <3>2. ASSUME NEW i \in Holders(u), i # 1 PROVE nodes[i].up \in Holders(u)
      BY <1>1, <3>2 DEF Holders, Holds
    <3>3. ASSUME NEW i \in T, i # 1 PROVE nodes[i].up \in T
      <4>1. CASE u = 1
        BY <2>2, <3>3, <4>1
      <4>2. CASE u # 1 /\ i = u
        BY <2>2, <3>1, <4>2
      <4>3. CASE u # 1 /\ i # u
        BY <2>2, <3>2, <3>3, <4>3
      <4> QED BY <4>1, <4>2, <4>3
    <3>4. nodes[k].up \in T
      OBVIOUS
    <3> HIDE DEF T
    <3> QED BY <3>3, <3>4 DEF Holds
  <2>5. Holders(k) \subseteq T
    BY <2>3, <2>4 DEF Holders
  <2>6. ASSUME NEW S \in SUBSET DOMAIN nodes, Holds(k, S) PROVE T \subseteq S
    <3>1. u \in S
      BY <2>6 DEF Holds
    <3>2. u # 1 => Holds(u, S)
      BY <2>6 DEF Holds
    <3> QED BY <2>2, <3>1, <3>2 DEF Holders
  <2>7. T \subseteq Holders(k)
    BY <2>3, <2>6 DEF Holders
  <2> QED BY <2>5, <2>7
<1>3. \E up : Solves(up)
  <2> HIDE DEF all
  <2>1. all = [k \in DOMAIN nodes |->
                 IF k = 1 THEN {} ELSE {nodes[k].up} \cup all[nodes[k].up]]
    <3>1. all = [k \in DOMAIN nodes |-> IF k = 1 THEN {} ELSE Holders(k)]
      BY DEF all
    <3> QED BY <1>2, <3>1
  <2> QED BY <2>1
<1>4. Solves(CHOOSE up : Solves(up))
  BY <1>3
<1>5. Above = CHOOSE up : Solves(up)
  BY DEF Above
<1>6. Solves(Above)
  BY <1>4, <1>5
<1> HIDE DEF all
<1> QED BY <1>6

(* Whatever is in an element is in one of its children.                    *)
LEMMA InAChild ==
  ASSUME Tree, NEW f \in DOMAIN nodes, NEW j \in In(f), j # f
  PROVE  \E b \in Children(f) : j \in In(b)
<1> SUFFICES ASSUME ~ \E b \in Children(f) : j \in In(b) PROVE FALSE
  OBVIOUS
<1> DEFINE lost == {i \in In(f) \ {f} : ~ \E b \in Children(f) : i \in In(b)}
<1>1. lost \subseteq Nat /\ lost # {} /\ lost \subseteq DOMAIN nodes
  BY DEF Tree, In
<1>2. PICK i \in lost : \A d \in lost : <<d, i>> \notin OpToRel(<, Nat)
  BY <1>1, NatLessThanWellFounded, WFMin
<1>3. \A d \in lost : ~ (d < i)
  BY <1>1, <1>2 DEF OpToRel
<1> DEFINE u == nodes[i].up
<1>4. /\ i \in DOMAIN nodes /\ f \in Above[i] /\ i # 1 /\ u \in DOMAIN nodes
      /\ Above[i] = {u} \cup Above[u] /\ u < i
  <2>1. i \in DOMAIN nodes /\ f \in Above[i]
    BY <1>1 DEF In
  <2>2. i # 1
    BY <2>1, AboveIs
  <2>3. u \in DOMAIN nodes /\ u < i
    BY <2>1, <2>2 DEF Tree
  <2> QED BY <2>1, <2>2, <2>3, AboveIs
<1>5. CASE u = f
  BY <1>1, <1>4, <1>5 DEF Children, In
<1>6. CASE u # f
  <2>1. u \in In(f)
    BY <1>4, <1>6 DEF In
  <2>2. u \notin lost
    BY <1>3, <1>4
  <2>3. PICK b \in Children(f) : u \in In(b)
    BY <1>6, <2>1, <2>2
  <2>4. i \in In(b)
    BY <1>4, <2>3 DEF In
  <2> QED BY <1>1, <2>3, <2>4
<1> QED BY <1>5, <1>6

-----------------------------------------------------------------------------
(* What is guessed was recognized; some things are seen at once.           *)

(* The guess is what a recognizer took the line for, and a line that       *)
(* begins a provision or an appendix is taken for nothing else.            *)
LEMMA GuessIs ==
  /\ guess_state \in Handlers
  /\ guess_state # "stycke" => Recognized(guess_state)
  /\ \A look \in {"ob", "bil"} : Look(pos) = look => guess_state = look
  /\ \A i \in 1..14 : Recognized(Recognizers[i])
                      => \E j \in 1..i : guess_state = Recognizers[j]
<1> DEFINE yes == {i \in 1..14 : Recognized(Recognizers[i])}
           least == CHOOSE i \in yes : \A j \in yes : i <= j
<1>1. DOMAIN Recognizers = 1..14
  BY DEF Recognizers
<1>2. guess_state = IF yes = {} THEN "stycke" ELSE Recognizers[least]
  BY <1>1 DEF guess_state
<1>3. ASSUME yes # {}
      PROVE  least \in yes /\ \A j \in yes : least <= j
  <2>1. yes \subseteq Nat
    OBVIOUS
  <2>2. PICK i \in yes : \A j \in yes : <<j, i>> \notin OpToRel(<, Nat)
    BY <1>3, <2>1, NatLessThanWellFounded, WFMin
  <2>3. \A j \in yes : ~ (j < i)
    BY <2>1, <2>2 DEF OpToRel
  <2>4. \A j \in yes : i <= j
    BY <2>1, <2>3
  <2> HIDE DEF yes
  <2> QED BY <2>4
<1> HIDE DEF least
<1>4. yes # {} => /\ Recognizers[least] \in Handlers
                 /\ Recognized(Recognizers[least])
  BY <1>1, <1>3 DEF Handlers
<1>6. ASSUME NEW look \in {"ob", "bil"}, Look(pos) = look, NEW i \in 1..14
      PROVE  Recognized(Recognizers[i]) <=>
               Recognizers[i] = look \/ (i = 14 /\ isRubrik)
  <2>1. ~ isAvdelning /\ ~ isKapitel(pos) /\ ~ isTabell(FALSE)
    BY <1>6 DEF isAvdelning, isKapitel, idOfKapitel, isTabell
  <2>2. ~ isParagraf(pos)
    BY <1>6 DEF isParagraf
  <2>3. ~ isOvergangsbestammelser
    BY <1>6 DEF isOvergangsbestammelser
  <2>4. ASSUME NEW h \in Handlers, h # "stycke"
        PROVE  Recognized(h) <=> h = look \/ (h = "rub" /\ isRubrik)
    <3>1. CASE h \in {"avd", "kap", "par", "tab", "obs", "rub"}
      BY <1>6, <2>1, <2>2, <2>3, <3>1 DEF Recognized
    <3>2. CASE h \in {"uavd", "upphkap", "upphpar", "ob", "bil", "num",
                      "streck", "bokst"}
      BY <1>6, <3>2 DEF Recognized
    <3> QED BY <2>4, <3>1, <3>2, HandlersAre
  <2>5. Recognizers[i] \in Handlers
    BY <1>1 DEF Handlers
  <2>6. Recognizers[i] # "stycke" /\ (Recognizers[i] = "rub" <=> i = 14)
    BY DEF Recognizers
  <2> QED BY <2>4, <2>5, <2>6
<1>7. ASSUME NEW look \in {"ob", "bil"}, Look(pos) = look
      PROVE  guess_state = look
  <2>1. PICK i \in {9, 10} : Recognizers[i] = look
    BY DEF Recognizers
  <2>2. i \in yes
    BY <1>6, <1>7, <2>1
  <2>3. \A j \in yes : i <= j
    <3>1. ASSUME NEW j \in 1..14, j < i PROVE Recognizers[j] # look /\ j # 14
      BY <2>1, <3>1 DEF Recognizers
    <3>2. \A j \in yes : j \in 1..14 /\ ~ (j < i)
      BY <1>6, <1>7, <3>1
    <3> QED BY <2>1, <3>2
  <2>4. least \in yes /\ \A j \in yes : least <= j
    BY <1>3, <2>2
  <2>5. least = i
    <3>1. least <= i /\ i <= least /\ least \in 1..14
      BY <2>2, <2>3, <2>4
    <3> QED BY <3>1
  <2> QED BY <1>2, <2>1, <2>2, <2>5
<1>8. ASSUME NEW i \in yes
      PROVE  \E j \in 1..i : guess_state = Recognizers[j]
  <2>1. least \in yes /\ least <= i /\ i \in Nat
    BY <1>3, <1>8
  <2>2. least \in 1..i
    BY <2>1
  <2> QED BY <1>2, <1>8, <2>2
<1>9. \A i \in 1..14 : Recognized(Recognizers[i]) => i \in yes
  OBVIOUS
<1> HIDE DEF yes
<1> QED BY <1>2, <1>4, <1>7, <1>8, <1>9, HandlersAre DEF Handlers

(* The same of the handler of a turn.                                      *)
LEMMA TurnIs ==
  ASSUME NEW h, Turn(h)
  PROVE  /\ h \in Handlers /\ ~ eof(pos)
         /\ h \in {"obs", "ob", "bil", "tab"} => Look(pos) = h
         /\ Look(pos) \in {"ob", "bil"} => h = Look(pos)
<1>1. Handler = h /\ ~ eof(pos)
  BY DEF Turn
<1>2. CASE ItemFirst
  <2>1. h = "num" /\ Look(pos) = "num"
    BY <1>1, <1>2 DEF Handler, ItemFirst, isNumreradLista
  <2> QED BY <1>1, <2>1, HandlersAre
<1>3. CASE ~ ItemFirst
  <2>1. h = guess_state
    BY <1>1, <1>3 DEF Handler
  <2>2. /\ Recognized("obs") => Look(pos) = "obs"
        /\ Recognized("tab") => Look(pos) = "tab"
        /\ \A k \in {"ob", "bil"} : Recognized(k) => Look(pos) = k
    BY DEF Recognized, isOvergangsbestammelser, isTabell
  <2> QED BY <1>1, <2>1, <2>2, GuessIs
<1> QED BY <1>2, <1>3

-----------------------------------------------------------------------------
(* The transitional provisions of a regular text.                          *)

(* A text in which the transitional provisions can be told apart: what the *)
(* premises of TransitionalKept say, of the lines before they are made.    *)
Regular ==
  /\ \A i \in DOMAIN doc : Look(i) # "tab"
  /\ \A i \in DOMAIN doc : Look(i) = "obs" => Look(i + 1) = "ob"
  /\ \A i \in DOMAIN doc : Look(i) = "ob" => doc[i].no \in Registered
  /\ \A i, j \in DOMAIN doc : Look(i) = "ob" /\ Look(j) = "ob"
                              => (doc[i].no = doc[j].no => i = j)

(* What is being made is a path of the tree, from the statute down.        *)
Path == \A i \in 2..Len(frames) : nodes[frames[i]].up = frames[i - 1]

(* Every line that was read is in an element.                              *)
AllOwned ==
  /\ \A i \in 1..(pos - 1) : \E k \in DOMAIN nodes : i \in nodes[k].own
  /\ status # "parsing" => eof(pos)

(* No table is made of a regular text; the heading of the provisions holds *)
(* only headings, and each provision holds the one line it begins with.    *)
Provision(n) ==
  /\ n.kind \notin {"tab", "wrap"}
  /\ n.kind = "obs" => \A i \in n.own : Look(i) = "obs"
  /\ n.kind = "ob" => \E i \in 1..(pos - 1) :
                        Look(i) = "ob" /\ n.own = {i} /\ n.no = doc[i].no

(* What is under the heading of the provisions are provisions, and no two  *)
(* of them were made of the same line.                                     *)
Provisions ==
  /\ \A k \in DOMAIN nodes : Provision(nodes[k])
  /\ \A k \in 2..Len(nodes) :
       nodes[nodes[k].up].kind = "obs" => nodes[k].kind = "ob"
  /\ \A j, k \in Kinds("ob") : nodes[j].own = nodes[k].own => j = k

(* Under the heading comes a provision, an appendix or the end.            *)
NextProvision ==
  Parsing /\ Within = "obs" => eof(pos) \/ Look(pos) \in {"ob", "bil"}

(* What holds of a regular text all along.                                 *)
Regulars == Path /\ AllOwned /\ Provisions /\ NextProvision

(* What the chain is to be like, when the reader goes on to p.             *)
Suits(chain, p) ==
  /\ \A c \in 1..Len(chain) :
       /\ chain[c].kind \notin {"tab", "wrap"}
       /\ chain[c].kind = "obs" => \A i \in chain[c].own : Look(i) = "obs"
       /\ chain[c].kind = "ob" => /\ c = 1 /\ Look(pos) = "ob" /\ p = pos + 1
                                  /\ chain[c].own = {pos}
                                  /\ chain[c].no = doc[pos].no
  /\ \A c \in 2..Len(chain) : chain[c - 1].kind # "obs"
  /\ \A i \in pos..(p - 1) : \E c \in 1..Len(chain) : i \in chain[c].own

(* When a chain of elements that suits the text is made where the loops    *)
(* allow it, all of this still holds.                                      *)
LEMMA SavedMade ==
  ASSUME Reading, Tree, Frames, Regulars, Parsing, ~ eof(pos),
         NEW chain \in Seq(Nodes), Len(chain) >= 1, NEW opened \in BOOLEAN,
         Within = "obs" => chain[1].kind = "ob", Made(chain, opened),
         pos' \in Nat, pos <= pos', Suits(chain, pos'),
         \/ ~ opened /\ Within # "obs"
         \/ opened /\ chain[Len(chain)].kind # "obs"
         \/ Look(pos') \in {"ob", "bil"}
  PROVE  Regulars'
<1> DEFINE n == Len(nodes)
           m == Len(chain)
           l == Len(frames)
           kept == Kept(chain, opened)
<1>1. doc' = doc /\ status' = status
  BY DEF Made, rest
<1>2. Adds(chain, kept)
  BY <1>1 DEF Made, Adds, Kept
<1>3. kept \in 0..Len(chain)
  BY DEF Kept
<1>4. /\ n \in Nat \ {0} /\ m \in Nat \ {0} /\ l \in Nat \ {0}
      /\ nodes' \in Seq(Nodes) /\ Len(nodes') = n + m
      /\ \A k \in 1..n : nodes'[k] = nodes[k]
      /\ \A i \in 1..m :
           /\ nodes'[n + i].kind = chain[i].kind
           /\ nodes'[n + i].no = chain[i].no
           /\ nodes'[n + i].own = chain[i].own
           /\ nodes'[n + i].up = IF i = 1 THEN Top ELSE n + i - 1
      /\ \A k \in 1..(n + m) : k \in 1..n \/ \E i \in 1..m : k = n + i
  BY <1>2, <1>3, Appended
<1>5. /\ frames' \in Seq(1..(n + m)) /\ Len(frames') = l + kept
      /\ \A i \in 1..l : frames'[i] = frames[i]
      /\ \A i \in 1..kept : frames'[l + i] = n + i
      /\ \A i \in 1..(l + kept) :
           i \in 1..l \/ \E j \in 1..kept : i = l + j
  BY <1>2, <1>3, Appended
<1>6. /\ Top \in 1..n /\ Top = frames[l] /\ Within = nodes[Top].kind
      /\ \A i \in 1..l : frames[i] \in 1..n
      /\ \A k \in 2..n : nodes[k].up \in 1..n
      /\ DOMAIN nodes = 1..n /\ DOMAIN nodes' = 1..(n + m)
      /\ nodes[1].up = 0
  <2>1. Top \in 1..n /\ Top = frames[l] /\ Within = nodes[Top].kind
    BY TopIs DEF Top, Within
  <2>2. frames \in Seq(1..n) /\ nodes \in Seq(Nodes) /\ nodes[1].up = 0
    BY DEF Frames, Tree
  <2>3. (\A i \in 1..l : frames[i] \in 1..n) /\ DOMAIN nodes = 1..n
    BY <2>2
  <2>4. DOMAIN nodes' = 1..(n + m)
    BY <1>4
  <2>5. \A k \in 2..n : nodes[k].up \in 1..n
    BY <1>4 DEF Tree
  <2> QED BY <2>1, <2>2, <2>3, <2>4, <2>5
<1>7. /\ pos \in 1..Len(doc) /\ Len(doc) \in Nat
      /\ pos \in Nat \ {0} /\ pos' \in Nat /\ pos <= pos'
  BY DocIs, InDoc
<1>7a. /\ kept \in Nat /\ \A j \in 1..kept : j \in 1..m
       /\ \A i \in 1..(pos' - 1) : i \in 1..(pos - 1) \/ i \in pos..(pos' - 1)
       /\ \A i \in 1..(pos - 1) : i \in 1..(pos' - 1)
       /\ pos' = pos + 1 => pos \in 1..(pos' - 1)
  <2> HIDE DEF kept
  <2>1. kept \in Nat /\ \A j \in 1..kept : j \in 1..m
    BY <1>3, <1>4
  <2> HIDE DEF n, m, l
  <2>2. ASSUME NEW p \in Nat, NEW q \in Nat, p >= 1, p <= q
        PROVE  /\ \A i \in 1..(q - 1) : i \in 1..(p - 1) \/ i \in p..(q - 1)
               /\ \A i \in 1..(p - 1) : i \in 1..(q - 1)
               /\ q = p + 1 => p \in 1..(q - 1)
    BY <2>2
  <2>3. pos \in Nat /\ pos' \in Nat /\ pos >= 1 /\ pos <= pos'
    BY <1>7
  <2> QED BY <2>1, <2>2, <2>3, Zenon
<1> HIDE DEF n, m, l, kept
<1>8. Path'
  <2>1. SUFFICES ASSUME NEW i \in 2..(l + kept)
                 PROVE  nodes'[frames'[i]].up = frames'[i - 1]
    BY <1>5 DEF Path
  <2>2. CASE i \in 2..l
    <3>1. frames'[i] = frames[i] /\ frames'[i - 1] = frames[i - 1]
      BY <1>4, <1>5, <2>2
    <3>2. frames[i] \in 1..n
      BY <1>4, <1>6, <2>2
    <3>3. nodes[frames[i]].up = frames[i - 1]
      BY <2>2 DEF Regulars, Path, l
    <3> QED BY <3>1, <3>2, <3>3, <1>4
  <2>3. ASSUME NEW j \in 1..kept, i = l + j
        PROVE  nodes'[frames'[i]].up = frames'[i - 1]
    <3>1. frames'[i] = n + j /\ j \in 1..m
      BY <1>5, <1>7a, <2>3
    <3>2. nodes'[n + j].up = IF j = 1 THEN Top ELSE n + j - 1
      BY <1>4, <3>1
    <3>3. CASE j = 1
      BY <1>4, <1>5, <1>6, <2>3, <3>1, <3>2, <3>3
    <3>4. CASE j # 1
      <4>1. j - 1 \in 1..kept /\ i - 1 = l + (j - 1)
        BY <1>3, <1>4, <2>3, <3>4
      <4>2. frames'[i - 1] = n + (j - 1)
        BY <4>1, <1>5
      <4> QED BY <4>2, <3>1, <3>2, <3>4, <1>4
    <3> QED BY <3>3, <3>4
  <2> QED BY <2>2, <2>3, <1>4, <1>5
<1>9. AllOwned'
  <2>1. status' = "parsing"
    BY <1>1 DEF Parsing
  <2>2. SUFFICES ASSUME NEW i \in 1..(pos' - 1)
                 PROVE  \E k \in 1..(n + m) : i \in nodes'[k].own
    BY <2>1, <1>6 DEF AllOwned
  <2>3. CASE i \in 1..(pos - 1)
    <3>1. PICK k \in 1..n : i \in nodes[k].own
      BY <2>3, <1>6 DEF Regulars, AllOwned
    <3> QED BY <3>1, <1>4
  <2>4. CASE i \in pos..(pos' - 1)
    <3>1. PICK c \in 1..m : i \in chain[c].own
      BY <2>4 DEF Suits, m
    <3>2. n + c \in 1..(n + m) /\ nodes'[n + c].own = chain[c].own
      BY <3>1, <1>4
    <3> QED BY <3>1, <3>2
  <2> QED BY <2>2, <2>3, <2>4, <1>7a
<1>10. Provisions'
  <2>1. ASSUME NEW k \in 1..(n + m) PROVE Provision(nodes[k])'
    <3>1. CASE k \in 1..n
      <4>1. Provision(nodes[k])
        BY <3>1, <1>6 DEF Regulars, Provisions
      <4>2. nodes'[k] = nodes[k]
        BY <3>1, <1>4
      <4>3. \A i : Look(i)' = Look(i)
        BY <1>1 DEF Look, eof
      <4>4. Provision(nodes[k])' <=>
              /\ nodes'[k].kind \notin {"tab", "wrap"}
              /\ nodes'[k].kind = "obs"
                 => \A i \in nodes'[k].own : Look(i)' = "obs"
              /\ nodes'[k].kind = "ob"
                 => \E i \in 1..(pos' - 1) :
                      /\ Look(i)' = "ob" /\ nodes'[k].own = {i}
                      /\ nodes'[k].no = doc'[i].no
        BY DEF Provision
      <4> QED BY <4>1, <4>2, <4>3, <4>4, <1>1, <1>7a DEF Provision
    <3>2. ASSUME NEW c \in 1..m, k = n + c PROVE Provision(nodes[k])'
      <4>1. /\ nodes'[k].kind = chain[c].kind /\ nodes'[k].no = chain[c].no
            /\ nodes'[k].own = chain[c].own
        BY <3>2, <1>4
      <4>2. /\ chain[c].kind \notin {"tab", "wrap"}
            /\ chain[c].kind = "obs"
               => \A i \in chain[c].own : Look(i) = "obs"
            /\ chain[c].kind = "ob"
               => /\ Look(pos) = "ob" /\ pos' = pos + 1
                  /\ chain[c].own = {pos} /\ chain[c].no = doc[pos].no
        BY DEF Suits, m
      <4>3. pos' = pos + 1 => pos \in 1..(pos' - 1)
        BY <1>7a
      <4>4. \A i : Look(i)' = Look(i)
        BY <1>1 DEF Look, eof
      <4>5. CASE chain[c].kind = "ob"
        BY <4>1, <4>2, <4>3, <4>5, <1>1 DEF Provision, Look, eof
      <4>6. CASE chain[c].kind # "ob"
        BY <4>1, <4>2, <4>6, <1>1 DEF Provision, Look, eof
      <4> QED BY <4>5, <4>6
    <3> QED BY <3>1, <3>2, <1>4
  <2>2. ASSUME NEW k \in 2..(n + m), nodes'[nodes'[k].up].kind = "obs"
        PROVE  nodes'[k].kind = "ob"
    <3>1. CASE k \in 1..n
      <4>1. nodes[k].up \in 1..n /\ nodes'[k] = nodes[k]
        BY <2>2, <3>1, <1>4, <1>6
      <4>2. nodes'[nodes[k].up] = nodes[nodes[k].up]
        BY <4>1, <1>4
      <4>3. k \in 2..Len(nodes)
        BY <2>2, <3>1, <1>4 DEF n
      <4> QED BY <2>2, <4>1, <4>2, <4>3 DEF Regulars, Provisions
    <3>2. ASSUME NEW c \in 1..m, k = n + c PROVE nodes'[k].kind = "ob"
      <4>1. /\ nodes'[k].kind = chain[c].kind
            /\ nodes'[k].up = IF c = 1 THEN Top ELSE n + c - 1
        BY <3>2, <1>4
      <4>2. CASE c = 1
        <5>1. nodes'[Top] = nodes[Top]
          BY <1>4, <1>6
        <5> QED BY <2>2, <4>1, <4>2, <5>1, <1>6
      <4>3. CASE c # 1
        <5>1. c - 1 \in 1..m /\ c \in 2..m /\ n + c - 1 = n + (c - 1)
          BY <1>4, <4>3
        <5>2. nodes'[n + (c - 1)].kind = chain[c - 1].kind
          BY <1>4, <5>1
        <5>3. chain[c - 1].kind # "obs"
          BY <5>1 DEF Suits, m
        <5> QED BY <2>2, <4>1, <4>3, <5>1, <5>2, <5>3
      <4> QED BY <4>2, <4>3
    <3> QED BY <3>1, <3>2, <2>2, <1>4
  <2>3. ASSUME NEW j \in 1..(n + m), NEW k \in 1..(n + m),
               nodes'[j].kind = "ob", nodes'[k].kind = "ob",
               nodes'[j].own = nodes'[k].own
        PROVE  j = k
    <3>1. ASSUME NEW i \in 1..n, nodes'[i].kind = "ob"
          PROVE  pos \notin nodes'[i].own
      <4>1. nodes'[i] = nodes[i]
        BY <3>1, <1>4
      <4>2. \E p \in 1..(pos - 1) : nodes[i].own = {p}
        BY <3>1, <4>1, <1>6 DEF Regulars, Provisions, Provision
      <4> QED BY <4>1, <4>2, <1>7
    <3>2. ASSUME NEW c \in 1..m, nodes'[n + c].kind = "ob"
          PROVE  c = 1 /\ nodes'[n + c].own = {pos}
      <4>1. /\ nodes'[n + c].kind = chain[c].kind
            /\ nodes'[n + c].own = chain[c].own
        BY <1>4
      <4>2. chain[c].kind = "ob" => c = 1 /\ chain[c].own = {pos}
        BY DEF Suits, m
      <4> QED BY <3>2, <4>1, <4>2
    <3>2a. ASSUME NEW i \in 1..(n + m), i \notin 1..n, nodes'[i].kind = "ob"
           PROVE  i = n + 1 /\ nodes'[i].own = {pos}
      <4>1. PICK c \in 1..m : i = n + c
        BY <3>2a, <1>4
      <4> QED BY <3>2, <3>2a, <4>1
    <3>3. CASE j \in 1..n /\ k \in 1..n
      <4>1. nodes'[j] = nodes[j] /\ nodes'[k] = nodes[k]
        BY <3>3, <1>4
      <4> QED BY <2>3, <3>3, <4>1, <1>6 DEF Regulars, Provisions, Kinds
    <3>4. CASE j \notin 1..n \/ k \notin 1..n
      <4>1. j \notin 1..n => j = n + 1 /\ nodes'[j].own = {pos}
        BY <2>3, <3>2a
      <4>2. k \notin 1..n => k = n + 1 /\ nodes'[k].own = {pos}
        BY <2>3, <3>2a
      <4> QED BY <2>3, <3>1, <3>4, <4>1, <4>2
    <3> QED BY <3>3, <3>4
  <2> QED BY <2>1, <2>2, <2>3, <1>4, <1>6 DEF Provisions, Kinds
<1>11. NextProvision'
  <2>1. \A i : Look(i)' = Look(i)
    BY <1>1 DEF Look, eof
  <2>1a. Look(pos') \in {"ob", "bil"} => Look(pos)' \in {"ob", "bil"}
    BY <1>1 DEF Look, eof
  <2>2. CASE opened
    <3>1. kept = m
      BY <2>2 DEF kept, Kept, m
    <3>1a. m \in 1..kept /\ frames'[l + m] = n + m
      BY <3>1, <1>4, <1>5
    <3>2. Within' = chain[m].kind
      <4>1. frames'[Len(frames')] = n + m
        BY <3>1, <3>1a, <1>5
      <4>2. nodes'[n + m].kind = chain[m].kind
        BY <1>4
      <4> QED BY <4>1, <4>2 DEF Within, Top
    <3> QED BY <2>1a, <2>2, <3>2 DEF NextProvision, m
  <2>3. CASE ~ opened
    <3>1. kept = 0
      BY <2>3 DEF kept, Kept
    <3>2. frames'[Len(frames')] = frames[l]
      <4>1. l + kept = l /\ l \in 1..l
        BY <3>1, <1>4
      <4> QED BY <4>1, <1>5
    <3>3. Within' = Within
      BY <3>2, <1>4, <1>6 DEF Within, Top
    <3> QED BY <2>1a, <2>3, <3>3 DEF NextProvision
  <2> QED BY <2>2, <2>3
<1> QED BY <1>8, <1>9, <1>10, <1>11 DEF Regulars

(* The same of one element that holds the n lines that are read.           *)
LEMMA OneSaved ==
  ASSUME Reading, Tree, Frames, Regulars, Regular,
         NEW h \in Handlers, Makes(h), NEW e \in Nodes, NEW n \in 0..2,
         e.own = pos..(pos + n - 1), pos' = pos + n, pos' <= Len(doc) + 1,
         NEW opened \in BOOLEAN, Made(<<e>>, opened),
         e.kind # "tab",
         \/ e.kind = h /\ (h \in {"obs", "ob"} => n = 1 /\ opened)
         \/ h = "ob" /\ Within = "root" /\ e.kind = "obs" /\ n = 0,
         e.kind = "ob" => e.no = doc[pos].no
  PROVE  Regulars'
<1> DEFINE chain == <<e>>
<1>1. /\ chain \in Seq(Nodes) /\ Len(chain) = 1 /\ chain[1] = e
      /\ Len(chain) >= 1
  OBVIOUS
<1> HIDE DEF chain
<1>2. /\ Parsing /\ ~ eof(pos) /\ Turn(h) /\ h \notin Ends[Within]
  BY DEF Makes, Turn
<1>3. /\ h \in {"obs", "ob", "bil", "tab"} => Look(pos) = h
      /\ Look(pos) \in {"ob", "bil"} => h = Look(pos)
  BY <1>2, TurnIs
<1>4. pos \in 1..Len(doc) /\ DOMAIN doc = 1..Len(doc) /\ pos \in Nat
  BY <1>2, InDoc, DocIs
<1>5. Within = "obs" => chain[1].kind = "ob"
  <2>1. ASSUME Within = "obs" PROVE h = "ob"
    BY <2>1, <1>2, <1>3, EndsOf DEF Regulars, NextProvision
  <2> QED BY <2>1, <1>1
<1>6. Suits(chain, pos')
  <2>1. e.kind = "obs" => \A i \in e.own : Look(i) = "obs"
    <3>1. CASE e.kind = h /\ h = "obs"
      <4>1. e.own = {pos}
        BY <3>1, <1>4
      <4> QED BY <4>1, <3>1, <1>3
    <3>2. CASE n = 0
      <4>1. e.own = {}
        BY <3>2, <1>4
      <4> QED BY <4>1
    <3> QED BY <3>1, <3>2
  <2>2. e.kind = "ob" => /\ Look(pos) = "ob" /\ pos' = pos + 1
                         /\ e.own = {pos}
    <3>1. ASSUME e.kind = "ob"
          PROVE  Look(pos) = "ob" /\ pos' = pos + 1 /\ e.own = {pos}
      <4>1. h = "ob" /\ n = 1
        BY <3>1
      <4>2. e.own = {pos}
        BY <4>1, <1>4
      <4> QED BY <4>1, <4>2, <1>3
    <3> QED BY <3>1
  <2>3. pos..(pos' - 1) = e.own
    BY <1>4
  <2>4. e.kind \notin {"tab", "wrap"}
    BY HandlersAre
  <2>5. \A c \in 1..Len(chain) : c = 1 /\ chain[c] = e
    BY <1>1
  <2>6. 1 \in 1..Len(chain) /\ ~ \E c : c \in 2..Len(chain)
    BY <1>1
  <2> QED BY <1>1, <2>1, <2>2, <2>3, <2>4, <2>5, <2>6 DEF Suits
<1>7. \/ ~ opened /\ Within # "obs"
      \/ opened /\ chain[Len(chain)].kind # "obs"
      \/ Look(pos') \in {"ob", "bil"}
  <2>1. CASE e.kind = "obs" /\ h = "obs"
    <3>1. Look(pos) = "obs" /\ pos' = pos + 1
      BY <2>1, <1>3
    <3>2. Look(pos + 1) = "ob"
      BY <3>1, <1>4 DEF Regular
    <3> QED BY <3>1, <3>2
  <2>2. CASE e.kind = "obs" /\ h = "ob"
    <3>1. pos' = pos
      BY <2>2, <1>4
    <3> QED BY <2>2, <3>1, <1>3
  <2>3. CASE e.kind # "obs" /\ opened
    BY <2>3, <1>1
  <2>4. CASE e.kind # "obs" /\ ~ opened
    <3>1. e.kind # "ob"
      BY <2>4
    <3> QED BY <2>4, <3>1, <1>1, <1>5
  <2> QED BY <2>1, <2>2, <2>3, <2>4
<1>8. pos' \in Nat /\ pos <= pos'
  BY <1>4
<1>9. Made(chain, opened)
  BY DEF chain
<1> QED BY <1>1, <1>2, <1>5, <1>6, <1>7, <1>8, <1>9, SavedMade, Zenon

(* The handlers of most lines make such an element.                        *)
LEMMA MakesSaved ==
  ASSUME Reading, Tree, Frames, Regulars, Regular,
         NEW h \in Handlers \ {"rub", "tab", "obs", "ob", "par"}, Makes(h),
         NEW n \in 0..2, pos' = pos + n, pos' <= Len(doc) + 1,
         NEW opened \in BOOLEAN, Made(<<Element(h, n)>>, opened)
  PROVE  Regulars'
<1>1. ~ eof(pos) /\ h \in Elements
  BY HandlersAreElements DEF Makes, Turn
<1> DEFINE e == Element(h, n)
<1>2. e \in Nodes /\ e.kind = h
  BY <1>1, ElementIs
<1>3. e.own = pos..(pos + n - 1)
  BY DEF Element, Node
<1> HIDE DEF e
<1>4. Made(<<e>>, opened)
  BY DEF e
<1> QED BY <1>2, <1>3, <1>4, OneSaved

(* Every step on a regular text keeps all of this.                         *)
LEMMA SavedStep ==
  ASSUME Reading, Tree, Frames, Regulars, Regular, Next
  PROVE  Regulars'
<1> USE DEF Regulars
<1>1. CASE Return
  <2>1. PICK h \in Handlers : Turn(h) /\ h \in Ends[Within]
    BY <1>1 DEF Return
  <2>2. UNCHANGED <<doc, pos, nodes, status>>
    BY <1>1 DEF Return, rest
  <2>3. Within # "root" /\ Len(frames) \in Nat /\ Len(frames) >= 1
    BY <2>1, EndsOf DEF Frames
  <2>4. Len(frames) >= 2
    BY <2>3 DEF Frames, Tree, Within, Top
  <2>5. /\ Len(frames') = Len(frames) - 1
        /\ \A i \in 1..(Len(frames) - 1) : frames'[i] = frames[i]
    BY <1>1, <2>4 DEF Return, Frames
  <2>6. Path'
    <3>1. ASSUME NEW i \in 2..(Len(frames) - 1)
          PROVE  nodes[frames'[i]].up = frames'[i - 1]
      <4>1. frames'[i] = frames[i] /\ frames'[i - 1] = frames[i - 1]
        BY <2>4, <2>5, <3>1
      <4>2. i \in 2..Len(frames)
        BY <2>4, <3>1
      <4> QED BY <4>1, <4>2 DEF Path
    <3> QED BY <3>1, <2>2, <2>5 DEF Path
  <2>7. AllOwned'
    BY <2>2 DEF AllOwned, eof
  <2>8. Provisions'
    BY <2>2 DEF Provisions, Provision, Kinds, Look, eof
  <2>9. NextProvision'
    <3>1. Top' = frames[Len(frames) - 1]
      BY <2>4, <2>5 DEF Top
    <3>2. Top' = nodes[Top].up
      <4>1. Len(frames) \in 2..Len(frames)
        BY <2>3, <2>4
      <4> QED BY <3>1, <4>1 DEF Path, Top
    <3>3. Within' = nodes[nodes[Top].up].kind
      BY <3>2, <2>2 DEF Within
    <3>4. Top \in 2..Len(nodes)
      BY <2>3, TopIs DEF Tree, Within
    <3>5. Within' = "obs" => Within = "ob"
      BY <3>3, <3>4 DEF Provisions, Within
    <3>6. Within = "ob" => h \in {"ob", "bil"} /\ Look(pos) = h
      BY <2>1, TurnIs, EndsOf
    <3>7. Look(pos)' = Look(pos)
      BY <2>2 DEF Look, eof
    <3> QED BY <3>5, <3>6, <3>7 DEF NextProvision
  <2> QED BY <2>6, <2>7, <2>8, <2>9
<1>2. CASE InnerReturn \/ Tabellrad
  <2>1. Within \in {"wrap", "tab"}
    BY <1>2 DEF InnerReturn, Tabellrad
  <2>2. Within \notin {"wrap", "tab"}
    BY TopIs DEF Provisions, Provision, Within, Tree
  <2> QED BY <2>1, <2>2
<1>3. CASE makeAvdelning
  <2> DEFINE label == /\ ~Marked(pos, "lines") /\ ~Marked(pos + 1, "long")
                      /\ ~isKapitel(pos + 1) /\ Look(pos + 1) # "uavd"
             n == IF label THEN 2 ELSE 1
  <2>1. Made(<<Element("avd", n)>>, TRUE) /\ pos' = pos + n
    BY <1>3 DEF makeAvdelning
  <2>2. Makes("avd") /\ LinesFollow
    BY <1>3 DEF makeAvdelning
  <2>3. "avd" \in Handlers \ {"rub", "tab", "obs", "ob", "par"}
    BY HandlersAre
  <2>4. ~eof(pos)
    BY <2>2 DEF Makes, Turn
  <2>5. n \in 0..2 /\ pos + n <= Len(doc) + 1
    BY <2>2, <2>4, InDoc, LabelInDoc
  <2> HIDE DEF n
  <2> QED BY <2>1, <2>2, <2>3, <2>5, MakesSaved
<1>4. CASE \/ makeUnderavdelning \/ makeUpphavtKapitel \/ makeKapitel
           \/ makeUpphavdParagraf \/ makeStycke \/ makeBilaga
  <2>1. PICK h \in {"uavd", "upphkap", "kap", "upphpar", "stycke", "bil"},
             opened \in BOOLEAN :
          Makes(h) /\ Made(<<Element(h, 1)>>, opened) /\ pos' = pos + 1
    BY <1>4
    DEF makeUnderavdelning, makeUpphavtKapitel, makeKapitel,
        makeUpphavdParagraf, makeStycke, makeBilaga
  <2>2. h \in Handlers \ {"rub", "tab", "obs", "ob", "par"}
    BY HandlersAre
  <2>3. 1 \in 0..2 /\ pos + 1 <= Len(doc) + 1
    BY <2>1, InDoc DEF Makes, Turn
  <2> QED BY <2>1, <2>2, <2>3, MakesSaved
<1>5. CASE makeLista
  <2>1. PICK h \in Lists : Makes(h) /\ Made(<<Element(h, 0)>>, TRUE)
    BY <1>5 DEF makeLista
  <2>2. h \in Handlers \ {"rub", "tab", "obs", "ob", "par"}
    BY HandlersAre DEF Lists
  <2>3. 0 \in 0..2 /\ pos + 0 <= Len(doc) + 1 /\ pos' = pos + 0
    BY <1>5, <2>1, InDoc DEF Makes, Turn, makeLista
  <2> QED BY <2>1, <2>2, <2>3, MakesSaved
<1>6. CASE makeRubrik
  <2> DEFINE level == IF Remembered.level = 2 THEN 2 ELSE 1
             e == [Element("rub", 1) EXCEPT !.no = level]
  <2>1. Makes("rub") /\ Made(<<e>>, FALSE) /\ pos' = pos + 1
    BY <1>6 DEF makeRubrik
  <2>2. "rub" \in Handlers /\ "rub" \in Elements
    BY HandlersAre DEF Elements
  <2>3. ~ eof(pos) /\ 1 \in 0..2 /\ pos + 1 <= Len(doc) + 1
    BY <2>1, InDoc DEF Makes, Turn
  <2>4. Element("rub", 1) \in Nodes /\ Element("rub", 1).kind = "rub"
    BY <2>2, <2>3, ElementIs
  <2>5. Element("rub", 1).own = pos..(pos + 1 - 1)
    BY DEF Element, Node
  <2>6. e \in Nodes /\ e.kind = "rub" /\ e.own = pos..(pos + 1 - 1)
    <3>1. level \in Nat
      OBVIOUS
    <3> HIDE DEF level
    <3> QED BY <2>4, <2>5, <3>1 DEF Nodes
  <2> HIDE DEF e
  <2> QED BY <2>1, <2>2, <2>3, <2>6, OneSaved
<1>7. CASE makeTabell
  <2>1. Turn("tab") /\ ~ eof(pos)
    BY <1>7 DEF makeTabell, Makes, Turn
  <2> QED BY <2>1, TurnIs, InDoc, DocIs DEF Regular
<1>8. CASE makeOvergangsbestammelser \/ makeOvergangsbestammelse
  <2>1. PICK h \in {"obs", "ob"} :
          Makes(h) /\ Made(<<Element(h, 1)>>, TRUE) /\ pos' = pos + 1
    BY <1>8 DEF makeOvergangsbestammelser, makeOvergangsbestammelse
  <2> DEFINE e == Element(h, 1)
  <2>2. h \in Handlers /\ h \in Elements
    BY HandlersAre DEF Elements, Opened, Loops
  <2>3. ~ eof(pos) /\ 1 \in 0..2 /\ pos + 1 <= Len(doc) + 1
    BY <2>1, InDoc DEF Makes, Turn
  <2>4. e \in Nodes /\ e.kind = h
    BY <2>2, <2>3, ElementIs
  <2>5. e.own = pos..(pos + 1 - 1) /\ e.no = doc[pos].no
    BY DEF Element, Node
  <2> HIDE DEF e
  <2>6. Made(<<e>>, TRUE)
    BY <2>1 DEF e
  <2> QED BY <2>1, <2>2, <2>3, <2>4, <2>5, <2>6, OneSaved
<1>9. CASE RubrikSaknas
  <2> DEFINE e == Element("obs", 0)
  <2>1. /\ Makes("ob") /\ Within = "root" /\ Made(<<e>>, TRUE)
        /\ pos' = pos
    BY <1>9 DEF RubrikSaknas
  <2>2. "ob" \in Handlers /\ "obs" \in Elements
    BY HandlersAre DEF Elements, Opened, Loops
  <2>3. /\ ~ eof(pos) /\ 0 \in 0..2 /\ pos + 0 <= Len(doc) + 1
        /\ pos \in Nat
    BY <2>1, InDoc DEF Makes, Turn
  <2>4. e \in Nodes /\ e.kind = "obs"
    BY <2>2, <2>3, ElementIs
  <2>5. e.own = pos..(pos + 0 - 1)
    BY DEF Element, Node
  <2> HIDE DEF e
  <2>6. pos' = pos + 0 /\ pos' <= Len(doc) + 1
    BY <2>1, <2>3
  <2>7. e.kind # "tab" /\ e.kind # "ob"
    BY <2>4
  <2> QED BY <2>1, <2>2, <2>3, <2>4, <2>5, <2>6, <2>7, OneSaved
<1>10. CASE makeParagraf
  <2> DEFINE chain == <<Element("par", 0), Element("stycke", 1)>>
  <2>1. Makes("par") /\ Made(chain, TRUE) /\ pos' = pos + 1
    BY <1>10 DEF makeParagraf
  <2>2. /\ ~eof(pos) /\ pos + 0 <= Len(doc) + 1
        /\ pos + 1 <= Len(doc) + 1 /\ Turn("par") /\ Parsing
        /\ "par" \notin Ends[Within]
    BY <2>1, InDoc DEF Makes, Turn
  <2>3. /\ Element("par", 0) \in Nodes /\ Element("par", 0).kind = "par"
        /\ Element("stycke", 1) \in Nodes
        /\ Element("stycke", 1).kind = "stycke"
        /\ Element("stycke", 1).own = pos..(pos + 1 - 1)
    BY <2>2, ElementIs DEF Elements, Opened, Loops, Element, Node
  <2>4. /\ chain \in Seq(Nodes) /\ Len(chain) = 2 /\ Len(chain) >= 1
        /\ chain[1].kind = "par" /\ chain[2].kind = "stycke"
        /\ chain[2].own = pos..(pos + 1 - 1)
    BY <2>3
  <2> HIDE DEF chain
  <2>5. Within # "obs"
    BY <2>2, TurnIs, EndsOf DEF NextProvision
  <2>6. Suits(chain, pos')
    <3>1. \A c \in 1..Len(chain) : chain[c].kind \in {"par", "stycke"}
      BY <2>4
    <3>2. \A c \in 2..Len(chain) : chain[c - 1].kind = "par"
      BY <2>4
    <3>3. \A i \in pos..(pos' - 1) : i \in chain[2].own /\ 2 \in 1..Len(chain)
      <4>1. pos..(pos' - 1) = chain[2].own
        <5>1. pos \in Nat
          BY <2>2, InDoc
        <5> QED BY <5>1, <2>1, <2>4
      <4>2. 2 \in 1..Len(chain)
        BY <2>4
      <4> QED BY <4>1, <4>2
    <3> QED BY <3>1, <3>2, <3>3 DEF Suits
  <2>7. pos' \in Nat /\ pos <= pos'
    BY <2>1, <2>2, InDoc
  <2>8. chain[Len(chain)].kind # "obs"
    BY <2>4
  <2> QED BY <2>1, <2>2, <2>4, <2>5, <2>6, <2>7, <2>8, SavedMade
<1>11. CASE Listelement
  <2>1. PICK h \in Lists : Makes(h) /\ Within = h
    BY <1>11 DEF Listelement
  <2>2. UNCHANGED <<doc, frames, status>> /\ pos' = pos + 1
    BY <1>11 DEF Listelement, rest
  <2>3. nodes' = [nodes EXCEPT ![Top].own = @ \cup {pos}]
    BY <1>11 DEF Listelement
  <2>4. /\ pos \in 1..Len(doc) /\ Top \in 1..Len(nodes)
        /\ DOMAIN nodes = 1..Len(nodes) /\ nodes \in Seq(Nodes) /\ Parsing
        /\ \A i \in 1..Len(frames) : frames[i] \in DOMAIN nodes
        /\ \A i \in 2..Len(nodes) : nodes[i].up \in DOMAIN nodes
    BY <2>1, InDoc, TopIs DEF Makes, Turn, Tree, Frames
  <2>5. /\ DOMAIN nodes' = DOMAIN nodes /\ Len(nodes') = Len(nodes)
        /\ \A k \in DOMAIN nodes :
             /\ nodes'[k].kind = nodes[k].kind /\ nodes'[k].up = nodes[k].up
             /\ nodes'[k].no = nodes[k].no
             /\ nodes[k].own \subseteq nodes'[k].own
             /\ k # Top => nodes'[k].own = nodes[k].own
        /\ pos \in nodes'[Top].own
    <3>1. \A k \in DOMAIN nodes : nodes[k] \in Nodes
      BY <2>4
    <3>2. Len(nodes') = Len(nodes) /\ DOMAIN nodes' = DOMAIN nodes
      BY <2>3, <2>4
    <3> QED BY <2>3, <2>4, <3>1, <3>2 DEF Nodes
  <2>6. nodes[Top].kind \in Lists
    BY <2>1 DEF Within
  <2>7. \A i : Look(i)' = Look(i)
    BY <2>2 DEF Look, eof
  <2>8. Path'
    BY <2>2, <2>4, <2>5 DEF Path
  <2>9. AllOwned'
    <3>1. ASSUME NEW i \in 1..(pos' - 1)
          PROVE  \E k \in DOMAIN nodes : i \in nodes'[k].own
      <4>1. i \in 1..(pos - 1) \/ i = pos
        BY <2>2, <2>4, <3>1
      <4> QED BY <4>1, <2>4, <2>5 DEF AllOwned
    <3> QED BY <3>1, <2>2, <2>4, <2>5 DEF AllOwned, Parsing
  <2>10. Provisions'
    <3>1. ASSUME NEW k \in DOMAIN nodes PROVE Provision(nodes[k])'
      <4>1. Provision(nodes[k])
        BY DEF Provisions
      <4>2. \A i \in 1..(pos - 1) : i \in 1..(pos' - 1)
        BY <2>2, <2>4
      <4>3. CASE k = Top
        BY <4>1, <4>3, <2>5, <2>6 DEF Provision, Lists
      <4>4. CASE k # Top
        BY <4>1, <4>2, <4>4, <2>2, <2>5, <2>7 DEF Provision
      <4> QED BY <4>3, <4>4
    <3>2. ASSUME NEW k \in 2..Len(nodes), nodes'[nodes'[k].up].kind = "obs"
          PROVE  nodes'[k].kind = "ob"
      BY <3>2, <2>4, <2>5 DEF Provisions
    <3>3. \A k \in Kinds("ob")' :
            k \in Kinds("ob") /\ nodes'[k].own = nodes[k].own
      BY <2>5, <2>6 DEF Kinds, Lists
    <3> QED BY <3>1, <3>2, <3>3, <2>5 DEF Provisions
  <2>11. NextProvision'
    <3>1. Within' = Within
      BY <2>2, <2>4, <2>5 DEF Within, Top
    <3> QED BY <3>1, <2>1 DEF NextProvision, Lists
  <2> QED BY <2>8, <2>9, <2>10, <2>11
<1>12. CASE EndOfText
  <2>1. /\ UNCHANGED <<doc, pos, nodes>> /\ frames' = <<1>> /\ eof(pos)
        /\ status' = "naming"
    BY <1>12 DEF EndOfText
  <2>2. Path'
    BY <2>1 DEF Path
  <2>3. AllOwned'
    BY <2>1 DEF AllOwned, eof
  <2>4. Provisions'
    BY <2>1 DEF Provisions, Provision, Kinds, Look, eof
  <2>5. NextProvision'
    BY <2>1 DEF NextProvision, Parsing
  <2> QED BY <2>2, <2>3, <2>4, <2>5
<1>13. CASE construct_id \/ postprocess_doc
  <2>1. /\ UNCHANGED <<doc, pos, nodes, frames>> /\ status = "naming"
        /\ status' \in {"naming", "done"}
    BY <1>13 DEF construct_id, postprocess_doc
  <2>2. Path'
    BY <2>1 DEF Path
  <2>3. AllOwned'
    BY <2>1 DEF AllOwned, eof
  <2>4. Provisions'
    BY <2>1 DEF Provisions, Provision, Kinds, Look, eof
  <2>5. NextProvision'
    BY <2>1 DEF NextProvision, Parsing
  <2> QED BY <2>2, <2>3, <2>4, <2>5
<1> QED
  BY <1>1, <1>2, <1>3, <1>4, <1>5, <1>6, <1>7, <1>8, <1>9, <1>10, <1>11,
     <1>12, <1>13
  DEF Next

-----------------------------------------------------------------------------
(* Nothing but their headings is lost.                                     *)

(* The headings of the transitional provisions.                            *)
Heads == {i \in DOMAIN doc : Look(i) = "obs"}

(* An element holds itself and what its children hold.                     *)
LEMMA InTheirChildren ==
  ASSUME Tree, NEW f \in DOMAIN nodes
  PROVE  In(f) \subseteq {f} \cup UNION {In(b) : b \in Children(f)}
BY InAChild

(* postprocess_doc takes the first list of provisions out of the statute   *)
(* and puts back, from the register, those that have an act: on a regular  *)
(* text that is all of them, and whatever is in one of them comes back     *)
(* with it.                                                                *)
LEMMA PutBack ==
  ASSUME Reading, Tree, Regular, Regulars, postprocess_doc
  PROVE  DOMAIN doc \ Heads \subseteq body'
<1> DEFINE lists == {k \in Children(1) : nodes[k].kind = "obs"}
           first == {k \in lists : \A j \in lists : k <= j}
           obs == UNION {Children(k) : k \in first}
           back == {k \in obs : /\ nodes[k].no \in Registered
                                /\ \A j \in obs : nodes[j].no = nodes[k].no
                                                  => j <= k}
           gone == IF obs = {} THEN {} ELSE UNION {In(k) : k \in first}
           kept == (DOMAIN nodes \ gone) \cup UNION {In(k) : k \in back}
<1>1. body' = Chunks(kept) /\ status = "naming"
  BY DEF postprocess_doc
<1>2. \A i \in DOMAIN doc : \E k \in DOMAIN nodes : i \in nodes[k].own
  <2>1. pos = Len(doc) + 1 /\ Len(doc) \in Nat /\ DOMAIN doc = 1..Len(doc)
    BY <1>1, DocIs DEF Regulars, AllOwned, eof, Reading
  <2>2. \A i \in DOMAIN doc : i \in 1..(pos - 1)
    BY <2>1
  <2> QED BY <2>2 DEF Regulars, AllOwned
<1>3. /\ DOMAIN nodes = 1..Len(nodes) /\ Len(nodes) \in Nat
      /\ \A k : Children(k) \subseteq DOMAIN nodes
      /\ \A k \in first : k \in DOMAIN nodes /\ nodes[k].kind = "obs"
  BY DEF Tree, Children
<1>4. \A k \in obs : nodes[k].kind = "ob" /\ k \in DOMAIN nodes
  <2>1. ASSUME NEW f \in first, NEW k \in Children(f)
        PROVE  nodes[k].kind = "ob" /\ k \in DOMAIN nodes
    <3>1. k \in DOMAIN nodes /\ nodes[k].up = f /\ f \in DOMAIN nodes
      BY <1>3, <2>1 DEF Children
    <3>2. k # 1 /\ nodes[f].kind = "obs"
      BY <1>3, <3>1 DEF Tree
    <3> QED BY <1>3, <3>1, <3>2 DEF Regulars, Provisions
  <2> QED BY <2>1
<1>5. obs \subseteq back
  <2>1. ASSUME NEW k \in obs PROVE nodes[k].no \in Registered
    <3>1. PICK i : /\ i \in 1..(pos - 1) /\ Look(i) = "ob"
                   /\ nodes[k].no = doc[i].no
      BY <1>4 DEF Regulars, Provisions, Provision
    <3>2. i \in DOMAIN doc
      BY <3>1, DocIs DEF Reading
    <3> QED BY <3>1, <3>2 DEF Regular
  <2>2. ASSUME NEW k \in obs, NEW j \in obs, nodes[j].no = nodes[k].no
        PROVE  j = k
    <3>1. /\ nodes[k].kind = "ob" /\ nodes[j].kind = "ob"
          /\ k \in DOMAIN nodes /\ j \in DOMAIN nodes
      BY <1>4
    <3>2. PICK a \in 1..(pos - 1) : /\ Look(a) = "ob" /\ nodes[k].own = {a}
                                    /\ nodes[k].no = doc[a].no
      BY <3>1 DEF Regulars, Provisions, Provision
    <3>3. PICK b \in 1..(pos - 1) : /\ Look(b) = "ob" /\ nodes[j].own = {b}
                                    /\ nodes[j].no = doc[b].no
      BY <3>1 DEF Regulars, Provisions, Provision
    <3>4. a \in DOMAIN doc /\ b \in DOMAIN doc
      BY <3>2, <3>3, DocIs DEF Reading
    <3>5. a = b
      BY <2>2, <3>2, <3>3, <3>4 DEF Regular
    <3> QED BY <3>1, <3>2, <3>3, <3>5 DEF Regulars, Provisions, Kinds
  <2>3. \A k \in obs : k <= k
    BY <1>3, <1>4
  <2> HIDE DEF obs
  <2> QED BY <2>1, <2>2, <2>3
<1> HIDE DEF back
<1>6. ASSUME NEW f \in first, NEW g \in first PROVE f = g
  <2>1. f \in Nat /\ g \in Nat /\ f <= g /\ g <= f
    BY <1>3, <1>6
  <2> QED BY <2>1
<1>7. ASSUME NEW i \in DOMAIN doc \ Heads PROVE i \in Chunks(kept)
  <2>1. PICK k \in DOMAIN nodes : i \in nodes[k].own
    BY <1>2
  <2>2. k \in kept => i \in Chunks(kept)
    BY <2>1 DEF Chunks
  <2>3. CASE k \notin gone
    BY <2>1, <2>2, <2>3
  <2>4. CASE k \in gone
    <3>1. PICK f \in first : k \in In(f)
      BY <2>4
    <3>2. k # f
      <4>1. nodes[f].kind = "obs" /\ f \in DOMAIN nodes
        BY <1>3
      <4>2. i \in nodes[f].own => Look(i) = "obs"
        BY <4>1 DEF Regulars, Provisions, Provision
      <4> QED BY <1>7, <2>1, <4>2 DEF Heads
    <3>3. PICK b \in Children(f) : k \in In(b)
      BY <1>3, <3>1, <3>2, InTheirChildren
    <3>4. b \in back
      BY <1>5, <3>3
    <3>5. k \in kept
      BY <3>3, <3>4
    <3> QED BY <2>2, <3>5
  <2> QED BY <2>3, <2>4
<1> QED BY <1>1, <1>7

(* The inductive invariant: of a regular text, nothing but headings is     *)
(* lost.                                                                   *)
Moved == Regular => Regulars /\ (Done => DOMAIN doc \ Heads \subseteq body)

(* It holds before anything is read, the preamble's line included.         *)
LEMMA MovedInit == ASSUME Init PROVE Moved
<1> SUFFICES ASSUME Regular PROVE Regulars /\ ~ Done
  BY DEF Moved
<1>1. /\ doc \in Texts /\ status = "parsing" /\ frames = <<1>>
      /\ nodes = <<Node("root", 0, 0, IF pos = 2 THEN {1} ELSE {}, "none")>>
      /\ pos \in 1..2
  BY DEF Init, makeForfattning
<1>2. /\ DOMAIN nodes = {1} /\ Len(nodes) = 1 /\ nodes[1].kind = "root"
      /\ pos = 2 => 1 \in nodes[1].own
  BY <1>1 DEF Node
<1>3. Path
  BY <1>1 DEF Path
<1>4. AllOwned
  BY <1>1, <1>2 DEF AllOwned
<1>5. Provisions
  BY <1>2 DEF Provisions, Provision, Kinds
<1>6. NextProvision
  BY <1>1, <1>2 DEF NextProvision, Within, Top
<1> QED BY <1>1, <1>3, <1>4, <1>5, <1>6 DEF Regulars, Done

(* And every step keeps it.                                                *)
LEMMA MovedStep ==
  ASSUME IInv, Moved, [Next]_vars
  PROVE  Moved'
<1> SUFFICES ASSUME Regular'
             PROVE  /\ Regulars'
                    /\ Done' => (DOMAIN doc \ Heads \subseteq body)'
  BY DEF Moved
<1>1. doc' = doc
  BY DEF Next, vars, Return, InnerReturn, makeAvdelning, makeUnderavdelning,
     makeUpphavtKapitel, makeKapitel, makeRubrik, makeUpphavdParagraf,
     makeParagraf, makeStycke, makeLista, Listelement, makeTabell, Tabellrad,
     makeOvergangsbestammelser, RubrikSaknas, makeOvergangsbestammelse,
     makeBilaga, EndOfText, construct_id, postprocess_doc, Made, rest
<1>2. \A i : Look(i)' = Look(i)
  BY <1>1 DEF Look, eof
<1>3. Regular
  BY <1>1, <1>2 DEF Regular, Look, eof
<1>4. Heads' = Heads
  BY <1>1, <1>2 DEF Heads
<1>5. CASE Next
  <2>1. Regulars'
    BY <1>3, <1>5, SavedStep DEF IInv, Moved
  <2>2. Done' => postprocess_doc \/ (body' = body /\ Done)
    BY <1>5 DEF Done, Next, Return, InnerReturn, makeAvdelning,
     makeUnderavdelning,
     makeUpphavtKapitel, makeKapitel, makeRubrik, makeUpphavdParagraf,
     makeParagraf, makeStycke, makeLista, Listelement, makeTabell, Tabellrad,
     makeOvergangsbestammelser, RubrikSaknas, makeOvergangsbestammelse,
     makeBilaga, EndOfText, construct_id, Made, rest
  <2>3. postprocess_doc => DOMAIN doc \ Heads \subseteq body'
    BY <1>3, PutBack DEF IInv, Moved
  <2> QED BY <1>1, <1>3, <1>4, <2>1, <2>2, <2>3 DEF Moved
<1>6. CASE UNCHANGED vars
  BY <1>3, <1>4, <1>6
  DEF vars, Moved, Regulars, Path, AllOwned, Provisions, Provision, Kinds,
      NextProvision, Parsing, Within, Top, Look, eof, Done
<1> QED BY <1>5, <1>6

(* Whatever the statute: when its provisions are those of registered acts, *)
(* one of each, not a paragraph of it is lost but their heading (the move  *)
(* of the provisions in postprocess_doc). A line that begins a provision   *)
(* or an appendix is one no earlier recognizer takes, so it ends every     *)
(* loop up to the heading's, and no provision is made in another.          *)
THEOREM Transitional == Spec => []TransitionalKept
<1>1. Moved => TransitionalKept
  <2> DEFINE acts == {i \in DOMAIN doc : Look(i) = "ob"}
  <2>1. SUFFICES ASSUME Moved, Done,
                        \A i \in acts : doc[i].no \in Registered,
                        \A i, j \in acts : doc[i].no = doc[j].no => i = j,
                        \A i \in Heads : Look(i + 1) = "ob",
                        \A i \in DOMAIN doc : Look(i) # "tab"
                 PROVE  DOMAIN doc \ Heads \subseteq body
    BY DEF TransitionalKept, Heads
  <2>2. Regular
    <3>1. \A i \in DOMAIN doc : Look(i) = "ob" => i \in acts
      OBVIOUS
    <3>2. \A i \in DOMAIN doc : Look(i) = "obs" => i \in Heads
      BY DEF Heads
    <3> HIDE DEF acts
    <3>3. \A i \in DOMAIN doc : Look(i) = "obs" => Look(i + 1) = "ob"
      BY <2>1, <3>2
    <3>4. \A i \in DOMAIN doc : Look(i) = "ob" => doc[i].no \in Registered
      BY <2>1, <3>1
    <3>5. \A i, j \in DOMAIN doc : Look(i) = "ob" /\ Look(j) = "ob"
                                   => (doc[i].no = doc[j].no => i = j)
      BY <2>1, <3>1
    <3> QED BY <2>1, <3>3, <3>4, <3>5 DEF Regular
  <2> QED BY <2>1, <2>2 DEF Moved
<1>2. IInv /\ Moved /\ [Next]_vars => Moved'
  BY MovedStep
<1> QED BY <1>1, <1>2, MovedInit, Invariant, PTL DEF Spec

-----------------------------------------------------------------------------
(* What the names are made of.                                             *)

(* The parts, chapters and sections that are to have URIs.                 *)
Numbered == {k \in DOMAIN nodes : /\ nodes[k].kind \in DOMAIN NoAttrs
                                  /\ Main(k) /\ InForce(k)}

(* The sections among them.                                                *)
Sections == {k \in Numbered : nodes[k].kind = "par"}

(* Two of the same name.                                                   *)
Same(a, b) == nodes[a].kind = nodes[b].kind /\ nodes[a].no = nodes[b].no

(* What SectionsNamed supposes of them: each has a number, none the name   *)
(* of another where it counts, and sections are counted in each chapter or *)
(* through the statute.                                                    *)
Unmistakable ==
  /\ \A k \in Numbered : nodes[k].no # 0
  /\ \A a, b \in Numbered :
       Same(a, b) /\ (nodes[a].up = nodes[b].up \/ nodes[a].kind = "kap")
       => a = b
  /\ \/ \A a \in Sections : \E k \in Sections :
          nodes[k].up = nodes[a].up /\ nodes[k].no = 1
     \/ \A a, b \in Sections : Same(a, b) => a = b

(* What the URI of an element is made of, by where it is.                  *)
avdOf(k) == IF nodes[k].kind = "avd" THEN nodes[k].no
            ELSE IF nodes[k].kind = "uavd" /\ nodes[k].up # 1
                 THEN nodes[nodes[k].up].no ELSE 0
uavdOf(k) == IF nodes[k].kind = "uavd" THEN nodes[k].no ELSE 0
kapOf(k) == IF nodes[k].kind = "kap" THEN nodes[k].no ELSE 0

Fragments(k) ==
  LET par == nodes[k].kind = "par"
      q == IF par THEN nodes[k].up ELSE k
  IN  [avd |-> avdOf(q), uavd |-> uavdOf(q),
       kap |-> IF par /\ Continuous THEN 0 ELSE kapOf(q),
       par |-> IF par THEN nodes[k].no ELSE 0]

(* The numbers a URI is made of, and what construct_id leaves of an        *)
(* element.                                                                *)
Attributes == [DOMAIN NoAttrs -> Nat]
Names == [visit : BOOLEAN, attrs : Attributes, uri : Attributes]

(* What is known of an element that construct_id has been at.              *)
NameOf(k) ==
  /\ named[k].visit => Main(k) /\ InForce(k)
  /\ named[k].uri # NoURI => /\ named[k].uri = named[k].attrs
                             /\ k \in Numbered
  /\ Unmistakable /\ Main(k) /\ InForce(k) => named[k].visit
  /\ Unmistakable /\ k \in Numbered => /\ named[k].attrs = Fragments(k)
                                       /\ named[k].uri # NoURI

(* The inductive invariant: elements get their names in the order in which *)
(* they were made, which puts a parent before its children.                *)
Naming ==
  /\ named \in Seq(Names) /\ Len(named) <= Len(nodes)
  /\ Parsing => named = <<>>
  /\ Done => Len(named) = Len(nodes)
  /\ named # <<>> => named[1].attrs = NoAttrs
  /\ \A k \in 1..Len(named) : NameOf(k)

(* The kinds of elements that have numbers.                                *)
LEMMA KindsNamed == DOMAIN NoAttrs = {"avd", "uavd", "kap", "par"}
BY DEF NoAttrs

(* What construct_id does not enter.                                       *)
Transition == {"obs", "ob", "wrap", "bil"}

(* An element is in the main part, or in force, when its parent is and     *)
(* nothing of its own is against it.                                       *)
LEMMA MainIs ==
  ASSUME Tree, NEW k \in DOMAIN nodes
  PROVE  /\ k = 1 => Main(k) /\ InForce(k)
         /\ k # 1 => /\ Main(k) <=> /\ Main(nodes[k].up)
                                    /\ nodes[k].kind \notin Transition
                     /\ InForce(k) <=>
                          /\ InForce(nodes[k].up)
                          /\ nodes[k].kind \in {"kap", "par"}
                             => InEffect(nodes[k])
<1>1. CASE k = 1
  <2>1. Above[k] = {} /\ nodes[k].kind = "root"
    BY <1>1, AboveIs DEF Tree
  <2> QED BY <2>1, <1>1 DEF Main, InForce
<1>2. CASE k # 1
  <2> DEFINE p == nodes[k].up
  <2>1. Above[k] = {p} \cup Above[p]
    BY <1>2, AboveIs
  <2>2. Main(k) <=> Main(p) /\ nodes[k].kind \notin Transition
    BY <2>1 DEF Main, Transition
  <2>3. InForce(k) <=> /\ InForce(p)
                       /\ nodes[k].kind \in {"kap", "par"}
                          => InEffect(nodes[k])
    BY <2>1 DEF InForce
  <2> QED BY <1>2, <2>2, <2>3
<1> QED BY <1>1, <1>2

(* What a numbered element can be in.                                      *)
LEMMA UpOf ==
  ASSUME Tree, NestedByRank, NEW k \in Numbered
  PROVE  LET p == nodes[k].up
         IN  /\ k \in 2..Len(nodes) /\ p \in 1..(k - 1) /\ p \in 1..Len(nodes)
             /\ Main(p) /\ InForce(p)
             /\ nodes[k].kind = "avd" => p = 1
             /\ nodes[k].kind = "uavd" => p = 1 \/ nodes[p].kind = "avd"
             /\ nodes[k].kind = "kap"
                => p = 1 \/ nodes[p].kind \in {"avd", "uavd"}
             /\ p # 1 => /\ p \in Numbered
                         /\ nodes[p].kind \in {"avd", "uavd", "kap"}
             /\ p = 1 => nodes[p].kind = "root"
<1> DEFINE p == nodes[k].up
<1>1. /\ DOMAIN nodes = 1..Len(nodes) /\ Len(nodes) \in Nat
      /\ nodes[1].kind = "root" /\ k \in DOMAIN nodes
      /\ nodes[k].kind \in {"avd", "uavd", "kap", "par"}
      /\ Main(k) /\ InForce(k)
  BY KindsNamed DEF Tree, Numbered
<1>2. k \in 2..Len(nodes)
  BY <1>1
<1>3. p \in 1..(k - 1) /\ nodes[p].kind \in Opened
  BY <1>2 DEF Tree
<1>4. p \in DOMAIN nodes /\ k # 1
  BY <1>1, <1>2, <1>3
<1>5. Main(p) /\ InForce(p)
  BY <1>1, <1>4, MainIs
<1>6. nodes[p].kind \notin Transition
  BY <1>5 DEF Main, Transition
<1>7. p # 1 => nodes[p].kind # "root"
  BY <1>1, <1>4 DEF Tree
<1>8. nodes[p].kind \in DOMAIN Rank
      => Rank[nodes[p].kind] < Rank[nodes[k].kind]
  BY <1>1, RankOf DEF NestedByRank
<1>9. p # 1 => nodes[p].kind \in DOMAIN Rank
  BY <1>3, <1>6, <1>7, RankOf DEF Opened, Loops, Transition
<1>10. p # 1 => /\ nodes[p].kind \in {"avd", "uavd", "kap"}
                /\ nodes[k].kind # "avd"
                /\ nodes[k].kind = "uavd" => nodes[p].kind = "avd"
                /\ nodes[k].kind = "kap" => nodes[p].kind \in {"avd", "uavd"}
  <2>1. SUFFICES ASSUME p # 1
                 PROVE  /\ nodes[p].kind \in {"avd", "uavd", "kap"}
                        /\ nodes[k].kind # "avd"
                        /\ nodes[k].kind = "uavd" => nodes[p].kind = "avd"
                        /\ nodes[k].kind = "kap"
                           => nodes[p].kind \in {"avd", "uavd"}
    OBVIOUS
  <2>2. nodes[p].kind \notin {"upphkap", "rub", "upphpar"}
    BY <1>3 DEF Opened, Loops
  <2> DEFINE v == nodes[p].kind
             w == nodes[k].kind
  <2>3. Rank[v] < Rank[w] /\ v \in DOMAIN Rank \ {"upphkap", "rub", "upphpar"}
    BY <1>8, <1>9, <2>1, <2>2
  <2>4. w \in {"avd", "uavd", "kap", "par"}
    BY <1>1
  <2> HIDE DEF v, w
  <2>5. /\ v \in {"avd", "uavd", "kap"} /\ w # "avd"
        /\ w = "uavd" => v = "avd"
        /\ w = "kap" => v \in {"avd", "uavd"}
    BY <2>3, <2>4, RankOf
  <2> QED BY <2>5 DEF v, w
<1>11. p # 1 => p \in Numbered
  BY <1>4, <1>5, <1>10, KindsNamed DEF Numbered
<1> QED BY <1>1, <1>2, <1>3, <1>4, <1>5, <1>10, <1>11

(* When sections are counted through the statute, only one has number 1.   *)
LEMMA OneFirstSection ==
  ASSUME Tree, Continuous, NEW a \in DOMAIN nodes, NEW b \in DOMAIN nodes,
         nodes[a].kind = "par", nodes[a].no = 1, Main(a),
         nodes[b].kind = "par", nodes[b].no = 1, Main(b)
  PROVE  a = b
<1> SUFFICES ASSUME a # b PROVE FALSE
  OBVIOUS
<1> DEFINE S == FirstSections
<1>1. Cardinality(S) < 2
  BY DEF Continuous
<1>2. IsFiniteSet(S)
  <2>1. DOMAIN nodes = 1..Len(nodes) /\ Len(nodes) \in Nat
    BY DEF Tree
  <2>2. IsFiniteSet(DOMAIN nodes)
    BY <2>1, FS_Interval
  <2> QED BY <2>2, FS_Subset DEF FirstSections, Reached
<1>3. {a, b} \in SUBSET S
  BY DEF FirstSections, Reached, Main
<1>4. IsFiniteSet({a}) /\ Cardinality({a}) = 1
  BY FS_Singleton
<1> HIDE DEF S
<1>5. Cardinality({a} \cup {b}) = 2
  <2>1. b \notin {a}
    OBVIOUS
  <2>2. Cardinality({a} \cup {b}) = Cardinality({a}) + 1
    BY <1>4, <2>1, FS_AddElement
  <2> QED BY <1>4, <2>2
<1>6. {a} \cup {b} = {a, b}
  OBVIOUS
<1>7. Cardinality({a, b}) <= Cardinality(S)
  BY <1>2, <1>3, FS_Subset
<1>8. Cardinality(S) \in Nat
  BY <1>2, FS_CardinalityType
<1> QED BY <1>1, <1>5, <1>6, <1>7, <1>8

(* Two parts or chapters never get the same fragments: a chapter has one   *)
(* name in the statute, a subdivision one in its division.                 *)
LEMMA PartsApart ==
  ASSUME Tree, NestedByRank, Unmistakable,
         NEW a \in Numbered \ Sections, NEW b \in Numbered \ Sections,
         avdOf(a) = avdOf(b), uavdOf(a) = uavdOf(b), kapOf(a) = kapOf(b)
  PROVE  a = b
<1>1. /\ nodes[a].kind \in {"avd", "uavd", "kap"} /\ nodes[a].no # 0
      /\ nodes[b].kind \in {"avd", "uavd", "kap"} /\ nodes[b].no # 0
  BY KindsNamed DEF Numbered, Sections, Unmistakable
<1>2. Same(a, b)
  <2>1. CASE nodes[a].kind = "kap" \/ nodes[b].kind = "kap"
    BY <1>1, <2>1 DEF kapOf, Same
  <2>2. CASE /\ nodes[a].kind # "kap" /\ nodes[b].kind # "kap"
             /\ nodes[a].kind = "uavd" \/ nodes[b].kind = "uavd"
    BY <1>1, <2>2 DEF uavdOf, Same
  <2>3. CASE nodes[a].kind = "avd" /\ nodes[b].kind = "avd"
    BY <2>3 DEF avdOf, Same
  <2> QED BY <1>1, <2>1, <2>2, <2>3
<1>3. CASE nodes[a].kind = "kap"
  BY <1>2, <1>3 DEF Unmistakable
<1>4. CASE nodes[a].kind = "avd"
  <2>1. nodes[a].up = 1 /\ nodes[b].up = 1
    BY <1>2, <1>4, UpOf DEF Same
  <2> QED BY <1>2, <2>1 DEF Unmistakable
<1>5. CASE nodes[a].kind = "uavd"
  <2> DEFINE p == nodes[a].up
             q == nodes[b].up
  <2>1. nodes[b].kind = "uavd"
    BY <1>2, <1>5 DEF Same
  <2>2. p # 1 => /\ p \in Numbered /\ nodes[p].kind = "avd"
                 /\ nodes[p].up = 1 /\ nodes[p].no # 0
    BY <1>5, UpOf DEF Unmistakable
  <2>3. q # 1 => /\ q \in Numbered /\ nodes[q].kind = "avd"
                 /\ nodes[q].up = 1 /\ nodes[q].no # 0
    BY <2>1, UpOf DEF Unmistakable
  <2>4. /\ avdOf(a) = IF p # 1 THEN nodes[p].no ELSE 0
        /\ avdOf(b) = IF q # 1 THEN nodes[q].no ELSE 0
    BY <1>5, <2>1 DEF avdOf
  <2>5. p = q
    <3>1. p = 1 <=> q = 1
      BY <2>2, <2>3, <2>4
    <3>2. p # 1 => Same(p, q) /\ nodes[p].up = nodes[q].up
      BY <2>2, <2>3, <2>4, <3>1 DEF Same
    <3> QED BY <2>2, <2>3, <3>1, <3>2 DEF Unmistakable
  <2> QED BY <1>2, <2>5 DEF Unmistakable
<1> QED BY <1>1, <1>3, <1>4, <1>5

(* Nor do two numbered elements of any kind.                               *)
LEMMA FragmentsApart ==
  ASSUME Tree, NestedByRank, Unmistakable,
         NEW a \in Numbered, NEW b \in Numbered, Fragments(a) = Fragments(b)
  PROVE  a = b
<1> DEFINE par(k) == nodes[k].kind = "par"
           at(k) == IF par(k) THEN nodes[k].up ELSE k
<1>1. /\ avdOf(at(a)) = avdOf(at(b)) /\ uavdOf(at(a)) = uavdOf(at(b))
      /\ (IF par(a) /\ Continuous THEN 0 ELSE kapOf(at(a))) =
           (IF par(b) /\ Continuous THEN 0 ELSE kapOf(at(b)))
      /\ (IF par(a) THEN nodes[a].no ELSE 0) =
           (IF par(b) THEN nodes[b].no ELSE 0)
  BY DEF Fragments
<1>2. nodes[a].no # 0 /\ nodes[b].no # 0
  BY DEF Unmistakable
<1>3. par(a) <=> par(b)
  BY <1>1, <1>2
<1>4. CASE ~ par(a)
  <2>1. a \in Numbered \ Sections /\ b \in Numbered \ Sections
    BY <1>3, <1>4 DEF Sections
  <2>2. avdOf(a) = avdOf(b) /\ uavdOf(a) = uavdOf(b) /\ kapOf(a) = kapOf(b)
    BY <1>1, <1>3, <1>4
  <2> QED BY <2>1, <2>2, PartsApart
<1>5. CASE par(a)
  <2> DEFINE p == nodes[a].up
             q == nodes[b].up
  <2>1. a \in Sections /\ b \in Sections /\ Same(a, b)
    BY <1>1, <1>3, <1>5 DEF Sections, Same
  <2>2. p = q => a = b
    BY <2>1 DEF Unmistakable
  <2>3. CASE Continuous
    <3>1. CASE \A c, d \in Sections : Same(c, d) => c = d
      BY <2>1, <3>1
    <3>2. CASE \A c \in Sections : \E k \in Sections :
                 nodes[k].up = nodes[c].up /\ nodes[k].no = 1
      <4>1. PICK c \in Sections : nodes[c].up = p /\ nodes[c].no = 1
        BY <2>1, <3>2
      <4>2. PICK d \in Sections : nodes[d].up = q /\ nodes[d].no = 1
        BY <2>1, <3>2
      <4>3. c = d
        BY <2>3, <4>1, <4>2, OneFirstSection DEF Sections, Numbered
      <4> QED BY <2>2, <4>1, <4>2, <4>3
    <3> QED BY <3>1, <3>2 DEF Unmistakable
  <2>4. CASE ~ Continuous
    <3>1. avdOf(p) = avdOf(q) /\ uavdOf(p) = uavdOf(q) /\ kapOf(p) = kapOf(q)
      BY <1>1, <1>3, <1>5, <2>4
    <3>2. /\ p # 1 => /\ p \in Numbered
                      /\ nodes[p].kind \in {"avd", "uavd", "kap"}
          /\ p = 1 => nodes[p].kind = "root"
      BY UpOf
    <3>3. /\ q # 1 => /\ q \in Numbered
                      /\ nodes[q].kind \in {"avd", "uavd", "kap"}
          /\ q = 1 => nodes[q].kind = "root"
      BY UpOf
    <3>4. /\ p = 1 => avdOf(p) = 0 /\ uavdOf(p) = 0 /\ kapOf(p) = 0
          /\ q = 1 => avdOf(q) = 0 /\ uavdOf(q) = 0 /\ kapOf(q) = 0
      BY <3>2, <3>3 DEF avdOf, uavdOf, kapOf
    <3>5. /\ p # 1 => avdOf(p) # 0 \/ uavdOf(p) # 0 \/ kapOf(p) # 0
          /\ q # 1 => avdOf(q) # 0 \/ uavdOf(q) # 0 \/ kapOf(q) # 0
      BY <3>2, <3>3 DEF avdOf, uavdOf, kapOf, Unmistakable
    <3>6. p = 1 <=> q = 1
      BY <3>1, <3>4, <3>5
    <3>7. p # 1 => p = q
      <4>1. p # 1 => p \in Numbered \ Sections /\ q \in Numbered \ Sections
        BY <3>2, <3>3, <3>6 DEF Sections
      <4> QED BY <3>1, <4>1, PartsApart
    <3> QED BY <2>2, <3>6, <3>7
  <2> QED BY <2>3, <2>4
<1> QED BY <1>4, <1>5

-----------------------------------------------------------------------------
(* How an element is named.                                                *)

(* Fragments are four numbers.                                             *)
LEMMA AttributesAre ==
  /\ NoAttrs \in Attributes /\ NoURI = NoAttrs
  /\ \A a \in Attributes :
       /\ a.avd \in Nat /\ a.uavd \in Nat /\ a.kap \in Nat /\ a.par \in Nat
       /\ a = [avd |-> a.avd, uavd |-> a.uavd, kap |-> a.kap, par |-> a.par]
BY DEF NoAttrs, NoURI, Attributes

(* What set_skipfragments leaves out: the parts above a chapter, and the   *)
(* chapter when sections are counted through the statute.                  *)
LEMMA SkipIs ==
  ASSUME NEW a \in Attributes
  PROVE  /\ set_skipfragments(a) \in Attributes
         /\ set_skipfragments(a) =
              [avd |-> IF a.kap # 0 THEN 0 ELSE a.avd,
               uavd |-> IF a.kap # 0 THEN 0 ELSE a.uavd,
               kap |-> IF Continuous /\ a.par # 0 THEN 0 ELSE a.kap,
               par |-> a.par]
<1> DEFINE b == IF a.kap # 0 THEN [a EXCEPT !.avd = 0, !.uavd = 0] ELSE a
           c == IF Continuous /\ a.par # 0 THEN [b EXCEPT !.kap = 0] ELSE b
<1>1. /\ b \in Attributes /\ b.kap = a.kap /\ b.par = a.par
      /\ b.avd = IF a.kap # 0 THEN 0 ELSE a.avd
      /\ b.uavd = IF a.kap # 0 THEN 0 ELSE a.uavd
  BY KindsNamed DEF Attributes
<1> HIDE DEF b
<1>2. /\ c \in Attributes /\ c.avd = b.avd /\ c.uavd = b.uavd
      /\ c.par = b.par
      /\ c.kap = IF Continuous /\ a.par # 0 THEN 0 ELSE b.kap
  BY <1>1, KindsNamed DEF Attributes
<1>3. c = set_skipfragments(a)
  BY DEF set_skipfragments, b
<1> HIDE DEF c
<1>4. c = [avd |-> c.avd, uavd |-> c.uavd, kap |-> c.kap, par |-> c.par]
  BY <1>2, AttributesAre
<1> QED BY <1>1, <1>2, <1>3, <1>4

(* An element's number with its parent's attributes are its fragments,     *)
(* whatever those leave out.                                               *)
LEMMA NumberedOnce ==
  ASSUME Tree, NestedByRank, Unmistakable, NEW k \in Numbered,
         NEW b \in Attributes,
         b = IF nodes[k].up = 1 THEN NoAttrs ELSE Fragments(nodes[k].up)
  PROVE  LET a == [b EXCEPT ![nodes[k].kind] = nodes[k].no]
         IN  /\ a \in Attributes /\ set_skipfragments(a) = Fragments(k)
             /\ Fragments(k) # NoURI
<1> DEFINE p == nodes[k].up
           no == nodes[k].no
           a == [b EXCEPT ![nodes[k].kind] = no]
<1>1. /\ no \in Nat /\ no # 0
      /\ nodes[k].kind \in {"avd", "uavd", "kap", "par"}
  <2>1. k \in DOMAIN nodes /\ nodes[k].kind \in DOMAIN NoAttrs
    BY DEF Numbered
  <2>2. nodes[k] \in Nodes
    BY <2>1 DEF Tree
  <2>3. no \in Nat
    BY <2>2 DEF Nodes
  <2> QED BY <2>1, <2>3, KindsNamed DEF Unmistakable
<1>2. /\ a \in Attributes
      /\ a.avd = IF nodes[k].kind = "avd" THEN no ELSE b.avd
      /\ a.uavd = IF nodes[k].kind = "uavd" THEN no ELSE b.uavd
      /\ a.kap = IF nodes[k].kind = "kap" THEN no ELSE b.kap
      /\ a.par = IF nodes[k].kind = "par" THEN no ELSE b.par
  <2>1. b \in [{"avd", "uavd", "kap", "par"} -> Nat]
    BY KindsNamed DEF Attributes
  <2> DEFINE w == nodes[k].kind
  <2>2. w \in {"avd", "uavd", "kap", "par"}
    BY <1>1
  <2> HIDE DEF w, no
  <2> QED BY <2>1, <2>2, <1>1, KindsNamed DEF Attributes, w
<1>3. /\ nodes[k].kind = "avd" => p = 1
      /\ nodes[k].kind = "uavd" => p = 1 \/ nodes[p].kind = "avd"
      /\ nodes[k].kind = "kap" => p = 1 \/ nodes[p].kind \in {"avd", "uavd"}
      /\ p # 1 => nodes[p].kind \in {"avd", "uavd", "kap"} /\ p \in Numbered
      /\ p = 1 => nodes[p].kind = "root"
  BY UpOf
<1>4. /\ b.avd = avdOf(p) /\ b.uavd = uavdOf(p) /\ b.kap = kapOf(p)
      /\ b.par = 0
  <2>1. CASE p = 1
    BY <2>1, <1>3 DEF NoAttrs, avdOf, uavdOf, kapOf
  <2>2. CASE p # 1
    BY <2>2, <1>3 DEF Fragments
  <2> QED BY <2>1, <2>2
<1>5. set_skipfragments(a) =
        [avd |-> IF a.kap # 0 THEN 0 ELSE a.avd,
         uavd |-> IF a.kap # 0 THEN 0 ELSE a.uavd,
         kap |-> IF Continuous /\ a.par # 0 THEN 0 ELSE a.kap,
         par |-> a.par]
  BY <1>2, SkipIs
<1> HIDE DEF a
<1>6. CASE nodes[k].kind = "avd"
  <2>1. a.avd = no /\ a.uavd = 0 /\ a.kap = 0 /\ a.par = 0
    BY <1>2, <1>3, <1>4, <1>6 DEF uavdOf, kapOf
  <2>2. Fragments(k) = [avd |-> no, uavd |-> 0, kap |-> 0, par |-> 0]
    BY <1>6 DEF Fragments, avdOf, uavdOf, kapOf
  <2> QED BY <1>1, <1>2, <1>5, <2>1, <2>2 DEF NoURI, NoAttrs, a
<1>7. CASE nodes[k].kind = "uavd"
  <2>1. /\ a.avd = IF p # 1 THEN nodes[p].no ELSE 0
        /\ a.uavd = no /\ a.kap = 0 /\ a.par = 0
    BY <1>2, <1>3, <1>4, <1>7 DEF avdOf, kapOf
  <2>2. Fragments(k) = [avd |-> IF p # 1 THEN nodes[p].no ELSE 0,
                        uavd |-> no, kap |-> 0, par |-> 0]
    BY <1>7 DEF Fragments, avdOf, uavdOf, kapOf
  <2> QED BY <1>1, <1>2, <1>5, <2>1, <2>2 DEF NoURI, NoAttrs, a
<1>8. CASE nodes[k].kind = "kap"
  <2>1. a.kap = no /\ a.par = 0
    BY <1>2, <1>4, <1>8
  <2>2. Fragments(k) = [avd |-> 0, uavd |-> 0, kap |-> no, par |-> 0]
    BY <1>8 DEF Fragments, avdOf, uavdOf, kapOf
  <2> QED BY <1>1, <1>2, <1>5, <2>1, <2>2 DEF NoURI, NoAttrs, a
<1>9. CASE nodes[k].kind = "par"
  <2>1. /\ a.avd = avdOf(p) /\ a.uavd = uavdOf(p) /\ a.kap = kapOf(p)
        /\ a.par = no
    BY <1>2, <1>4, <1>9
  <2>2. a.kap # 0 => a.avd = 0 /\ a.uavd = 0
    BY <2>1 DEF avdOf, uavdOf, kapOf
  <2>3. Fragments(k) = [avd |-> avdOf(p), uavd |-> uavdOf(p),
                        kap |-> IF Continuous THEN 0 ELSE kapOf(p),
                        par |-> no]
    BY <1>9 DEF Fragments
  <2> QED BY <1>1, <1>2, <1>5, <2>1, <2>2, <2>3 DEF NoURI, NoAttrs, a
<1> QED BY <1>1, <1>6, <1>7, <1>8, <1>9

(* While the elements stay as they are, so does all that is said of them.  *)
LEMMA NodesStay ==
  ASSUME nodes' = nodes
  PROVE  /\ \A k : Main(k)' = Main(k) /\ InForce(k)' = InForce(k)
         /\ Numbered' = Numbered /\ Unmistakable' = Unmistakable
         /\ \A k : Fragments(k)' = Fragments(k)
<1>1. Above' = Above
  BY DEF Above
<1>2. \A k : Main(k)' = Main(k) /\ InForce(k)' = InForce(k)
  BY <1>1 DEF Main, InForce, InEffect
<1>3. Numbered' = Numbered
  BY <1>2 DEF Numbered
<1>4. Unmistakable' = Unmistakable
  BY <1>3 DEF Unmistakable, Sections, Same
<1>5. \A k : Fragments(k)' = Fragments(k)
  BY <1>1 DEF Fragments, avdOf, uavdOf, kapOf, Continuous, FirstSections,
              Reached
<1> QED BY <1>2, <1>3, <1>4, <1>5

(* construct_id at the next element gives it the fragments it is to have;  *)
(* they were not taken, since no other numbered element has them.          *)
LEMMA VisitedIs ==
  ASSUME Tree, NestedByRank, Naming, status = "naming",
         NEW k, k = Len(named) + 1, k \in 2..Len(nodes),
         NEW v, v = Visited(nodes[k])
  PROVE  /\ v \in Names
         /\ v.visit => Main(k) /\ InForce(k)
         /\ v.uri # NoURI => v.uri = v.attrs /\ k \in Numbered
         /\ Unmistakable /\ Main(k) /\ InForce(k) => v.visit
         /\ Unmistakable /\ k \in Numbered
            => v.attrs = Fragments(k) /\ v.uri # NoURI
<1> DEFINE n == nodes[k]
           p == n.up
           parent == named[p]
           a == [parent.attrs EXCEPT ![n.kind] = n.no]
           attrs == set_skipfragments(a)
           taken == \E j \in DOMAIN named : named[j].uri = attrs
           ok == ~taken /\ (n.kind \in {"kap", "par"} => InEffect(n))
<1>1. v = IF ~parent.visit \/ n.kind \in {"obs", "ob", "wrap", "bil"}
          THEN [visit |-> FALSE, attrs |-> NoAttrs, uri |-> NoURI]
          ELSE IF n.kind \in DOMAIN NoAttrs
          THEN [visit |-> ok, attrs |-> attrs,
                uri |-> IF ok THEN attrs ELSE NoURI]
          ELSE [visit |-> TRUE, attrs |-> parent.attrs, uri |-> NoURI]
  BY DEF Visited
<1>2. /\ Len(named) \in Nat /\ DOMAIN named = 1..Len(named)
      /\ p \in 1..Len(named) /\ k \in DOMAIN nodes /\ p \in DOMAIN nodes
      /\ k # 1 /\ n \in Nodes
  BY DEF Naming, Tree
<1>3. parent \in Names
  BY <1>2 DEF Naming
<1>4. /\ Main(k) <=> Main(p) /\ n.kind \notin Transition
      /\ InForce(k) <=> /\ InForce(p)
                        /\ n.kind \in {"kap", "par"} => InEffect(n)
  BY <1>2, MainIs
<1>5. NameOf(p)
  BY <1>2 DEF Naming
<1>6. k \in Numbered <=> n.kind \in DOMAIN NoAttrs /\ Main(k) /\ InForce(k)
  BY <1>2 DEF Numbered
<1>7. n.kind \in DOMAIN NoAttrs => attrs \in Attributes
  <2>1. parent.attrs \in Attributes /\ n.no \in Nat
    BY <1>2, <1>3 DEF Names, Nodes
  <2>2. ASSUME n.kind \in DOMAIN NoAttrs PROVE a \in Attributes
    BY <2>1, <2>2 DEF Attributes
  <2> HIDE DEF a
  <2> QED BY <2>2, SkipIs
<1>8. ASSUME Unmistakable, k \in Numbered
      PROVE  /\ attrs = Fragments(k) /\ attrs # NoURI /\ ~ taken
             /\ parent.visit
  <2>1. parent.attrs = IF p = 1 THEN NoAttrs ELSE Fragments(p)
    <3>1. p = 1 => parent.attrs = NoAttrs
      BY <1>2 DEF Naming
    <3>2. p # 1 => p \in Numbered
      BY <1>8, UpOf
    <3> QED BY <1>5, <1>8, <3>1, <3>2 DEF NameOf
  <2>2. parent.attrs \in Attributes
    BY <1>3 DEF Names
  <2>3. attrs = Fragments(k) /\ Fragments(k) # NoURI
    BY <1>8, <2>1, <2>2, NumberedOnce
  <2>4. ASSUME NEW j \in 1..Len(named), named[j].uri = Fragments(k)
        PROVE  FALSE
    <3>1. NameOf(j)
      BY DEF Naming
    <3>2. j \in Numbered /\ named[j].attrs = Fragments(k)
      BY <2>3, <2>4, <3>1 DEF NameOf
    <3>3. Fragments(j) = Fragments(k)
      BY <1>8, <3>1, <3>2 DEF NameOf
    <3>4. j = k
      BY <1>8, <3>2, <3>3, FragmentsApart
    <3> QED BY <1>2, <2>4, <3>4
  <2>5. parent.visit
    BY <1>4, <1>5, <1>6, <1>8 DEF NameOf
  <2> HIDE DEF attrs, parent
  <2> QED BY <2>3, <2>4, <2>5, <1>2
<1> HIDE DEF ok, taken, attrs, parent, n, a
<1>9. parent.visit => Main(p) /\ InForce(p)
  BY <1>5 DEF NameOf, parent
<1>10. CASE ~parent.visit \/ n.kind \in {"obs", "ob", "wrap", "bil"}
  <2>1. v = [visit |-> FALSE, attrs |-> NoAttrs, uri |-> NoURI]
    BY <1>1, <1>10
  <2>2. v \in Names /\ v.visit = FALSE /\ v.uri = NoURI
    BY <2>1, AttributesAre DEF Names
  <2>3. ~ (Unmistakable /\ Main(k) /\ InForce(k))
    BY <1>4, <1>5, <1>10 DEF NameOf, Transition, parent
  <2> QED BY <2>2, <2>3, <1>6
<1>11. CASE /\ parent.visit /\ n.kind \notin {"obs", "ob", "wrap", "bil"}
            /\ n.kind \in DOMAIN NoAttrs
  <2>1. v = [visit |-> ok, attrs |-> attrs,
             uri |-> IF ok THEN attrs ELSE NoURI]
    BY <1>1, <1>11
  <2>2. ok \in BOOLEAN
    BY DEF ok
  <2>3. /\ v \in Names /\ v.visit = ok /\ v.attrs = attrs
        /\ v.uri = IF ok THEN attrs ELSE NoURI
    BY <2>1, <2>2, <1>7, <1>11, AttributesAre DEF Names
  <2>4. ok => Main(k) /\ InForce(k)
    BY <1>4, <1>9, <1>11 DEF ok, Transition
  <2>5. Unmistakable /\ k \in Numbered => ok
    BY <1>4, <1>6, <1>8 DEF ok
  <2> QED BY <2>3, <2>4, <2>5, <1>6, <1>8, <1>11
<1>12. CASE /\ parent.visit /\ n.kind \notin {"obs", "ob", "wrap", "bil"}
            /\ n.kind \notin DOMAIN NoAttrs
  <2>1. v = [visit |-> TRUE, attrs |-> parent.attrs, uri |-> NoURI]
    BY <1>1, <1>12
  <2>2. v \in Names /\ v.visit = TRUE /\ v.uri = NoURI
    BY <2>1, <1>3, AttributesAre DEF Names
  <2>3. n.kind \notin {"kap", "par"}
    BY <1>12, KindsNamed
  <2>4. Main(k) /\ InForce(k)
    BY <1>4, <1>9, <1>12, <2>3 DEF Transition
  <2> QED BY <2>2, <2>4, <1>6, <1>12
<1> QED BY <1>10, <1>11, <1>12

(* Every step keeps the invariant: only construct_id names anything, and   *)
(* it runs after the last element is made.                                 *)
LEMMA NamingStep ==
  ASSUME IInv, Naming, [Next]_vars
  PROVE  Naming'
<1>1. CASE construct_id
  <2> DEFINE v == IF named = <<>>
                  THEN [visit |-> TRUE, attrs |-> NoAttrs, uri |-> NoURI]
                  ELSE Visited(nodes[Len(named) + 1])
             m == Len(named)
  <2>1. /\ named' = Append(named, v) /\ UNCHANGED <<nodes, status>>
        /\ status = "naming" /\ m < Len(nodes)
    BY <1>1 DEF construct_id
  <2>2. /\ named \in Seq(Names) /\ m \in Nat /\ Len(nodes) \in Nat
        /\ DOMAIN nodes = 1..Len(nodes)
        /\ named = <<>> <=> m = 0
    BY DEF Naming, IInv, Tree
  <2>3. /\ v \in Names
        /\ v.visit => Main(m + 1) /\ InForce(m + 1)
        /\ v.uri # NoURI => v.uri = v.attrs /\ m + 1 \in Numbered
        /\ Unmistakable /\ Main(m + 1) /\ InForce(m + 1) => v.visit
        /\ Unmistakable /\ m + 1 \in Numbered
           => v.attrs = Fragments(m + 1) /\ v.uri # NoURI
        /\ m = 0 => v.attrs = NoAttrs
    <3>1. CASE m = 0
      <4>1. v = [visit |-> TRUE, attrs |-> NoAttrs, uri |-> NoURI]
        BY <2>2, <3>1
      <4> HIDE DEF v
      <4>2. v \in Names
        BY <4>1, AttributesAre DEF Names
      <4>5. v.uri = NoURI /\ v.visit = TRUE /\ v.attrs = NoAttrs
        BY <4>1
      <4>3. Main(1) /\ InForce(1) /\ 1 \notin Numbered
        <5>1. Tree /\ 1 \in DOMAIN nodes /\ nodes[1].kind = "root"
          BY <2>2 DEF IInv, Tree
        <5>2. Main(1) /\ InForce(1)
          BY <5>1, MainIs
        <5> QED BY <5>1, <5>2, KindsNamed DEF Numbered
      <4> HIDE DEF m
      <4>4. m + 1 = 1
        BY <3>1
      <4> QED BY <3>1, <4>2, <4>3, <4>4, <4>5
    <3>2. CASE m # 0
      <4>1. v = Visited(nodes[m + 1]) /\ m + 1 \in 2..Len(nodes)
        BY <2>1, <2>2, <3>2
      <4> HIDE DEF v
      <4> QED BY <2>1, <3>2, <4>1, VisitedIs DEF IInv
    <3> QED BY <3>1, <3>2
  <2> HIDE DEF v
  <2>4. /\ named' \in Seq(Names) /\ Len(named') = m + 1
        /\ named'[m + 1] = v /\ \A i \in 1..m : named'[i] = named[i]
    BY <2>1, <2>2, <2>3
  <2>5. ASSUME NEW i \in 1..(m + 1) PROVE NameOf(i)'
    <3>1. CASE i = m + 1
      BY <2>1, <2>3, <2>4, <3>1, NodesStay DEF NameOf, NoURI, NoAttrs
    <3>2. CASE i \in 1..m
      <4>1. NameOf(i) /\ named'[i] = named[i]
        BY <2>4, <3>2 DEF Naming
      <4> QED BY <2>1, <4>1, NodesStay DEF NameOf, NoURI, NoAttrs
    <3> QED BY <2>2, <3>1, <3>2
  <2>6. named'[1].attrs = NoAttrs
    <3>1. CASE m = 0
      BY <2>3, <2>4, <3>1
    <3>2. CASE m # 0
      BY <2>2, <2>4, <3>2 DEF Naming
    <3> QED BY <3>1, <3>2
  <2>7. ~ Parsing' /\ ~ Done' /\ Len(named') <= Len(nodes')
    BY <2>1, <2>2, <2>4 DEF Parsing, Done
  <2> QED BY <2>4, <2>5, <2>6, <2>7
      DEF Naming, Names, Attributes, NoAttrs
<1>2. CASE Parsing /\ Next /\ ~ construct_id
  <2>1. named' = named /\ named = <<>>
    BY <1>2
    DEF Next, Return, InnerReturn, makeAvdelning, makeUnderavdelning,
        makeUpphavtKapitel, makeKapitel, makeRubrik, makeUpphavdParagraf,
        makeParagraf, makeStycke, makeLista, Listelement, makeTabell,
        Tabellrad, makeOvergangsbestammelser, RubrikSaknas,
        makeOvergangsbestammelse, makeBilaga, EndOfText, postprocess_doc,
        Made, rest, Naming, Parsing
  <2>2. ~ Done'
    BY <1>2
    DEF Next, Return, InnerReturn, makeAvdelning, makeUnderavdelning,
        makeUpphavtKapitel, makeKapitel, makeRubrik, makeUpphavdParagraf,
        makeParagraf, makeStycke, makeLista, Listelement, makeTabell,
        Tabellrad, makeOvergangsbestammelser, RubrikSaknas,
        makeOvergangsbestammelse, makeBilaga, EndOfText, postprocess_doc,
        Made, rest, Naming, Parsing, Done
  <2>3. Len(named') <= Len(nodes')
    BY <2>1, TreeStep DEF IInv, Tree
  <2> QED BY <2>1, <2>2, <2>3 DEF Naming
<1>3. CASE \/ postprocess_doc \/ UNCHANGED vars
  <2>1. UNCHANGED <<nodes, named>> /\ (Parsing' => Parsing)
    BY <1>3 DEF postprocess_doc, vars, Parsing
  <2>2. Done' => Len(named) = Len(nodes)
    BY <1>3 DEF postprocess_doc, vars, Done, Naming
  <2>3. \A k : NameOf(k)' <=> NameOf(k)
    BY <2>1, NodesStay DEF NameOf, NoURI, NoAttrs
  <2> QED BY <2>1, <2>2, <2>3 DEF Naming, Names, Attributes, NoAttrs
<1>4. Next /\ ~ Parsing => construct_id \/ postprocess_doc
  BY DEF Next, Return, InnerReturn, makeAvdelning, makeUnderavdelning,
     makeUpphavtKapitel, makeKapitel, makeRubrik, makeUpphavdParagraf,
     makeParagraf, makeStycke, makeLista, Listelement, makeTabell,
     Tabellrad, makeOvergangsbestammelser, RubrikSaknas,
     makeOvergangsbestammelse, makeBilaga, EndOfText, Makes, Turn
<1> QED BY <1>1, <1>2, <1>3, <1>4

(* Whatever the statute: when its parts, chapters and sections can be told *)
(* apart, every section in force has a URI (construct_id, which gives none *)
(* to the second of two elements with the same one, and enters none that   *)
(* has expired).                                                           *)
THEOREM UniqueNames == Spec => []SectionsNamed
<1>1. Init => Naming
  BY InitIInv DEF Init, Naming, Done, Parsing, IInv, Tree
<1>2. ASSUME IInv, Naming PROVE SectionsNamed
  <2> DEFINE same(a, b) == /\ nodes[a].kind = nodes[b].kind
                           /\ nodes[a].no = nodes[b].no
             numbered == {k \in DOMAIN nodes :
                            /\ nodes[k].kind \in DOMAIN NoAttrs
                            /\ Main(k) /\ InForce(k)}
             sections == numbered \cap Kinds("par")
             chapters == numbered \cap Kinds("kap")
             of(c) == {k \in sections : nodes[k].up = c}
             distinct == \A a, b \in numbered :
                           same(a, b) /\ (nodes[a].up = nodes[b].up
                                          \/ a \in chapters)
                           => a = b
             restarts == \A c \in DOMAIN nodes :
                           of(c) # {} => \E k \in of(c) : nodes[k].no = 1
             continues == \A a, b \in sections : same(a, b) => a = b
             counted == \A k \in numbered : nodes[k].no # 0
  <2>3. numbered = Numbered /\ sections = Sections
    BY DEF Numbered, Sections, Kinds
  <2>4. \A a \in Numbered : nodes[a].kind = "kap" => a \in chapters
    BY <2>3 DEF Numbered, Kinds
  <2>5. \A a \in Sections : nodes[a].up \in DOMAIN nodes
    BY <1>2, UpOf DEF IInv, Sections, Tree
  <2> HIDE DEF numbered, sections, chapters
  <2>6. distinct /\ counted /\ (restarts \/ continues) => Unmistakable
    <3>1. restarts => \A a \in Sections : \E k \in Sections :
                        nodes[k].up = nodes[a].up /\ nodes[k].no = 1
      <4> SUFFICES ASSUME restarts, NEW a \in Sections
                   PROVE  \E k \in Sections :
                            nodes[k].up = nodes[a].up /\ nodes[k].no = 1
        OBVIOUS
      <4>1. a \in of(nodes[a].up) /\ nodes[a].up \in DOMAIN nodes
        BY <2>3, <2>5
      <4> QED BY <2>3, <4>1
    <3>2. distinct => \A a, b \in Numbered :
                        Same(a, b) /\ (nodes[a].up = nodes[b].up
                                       \/ nodes[a].kind = "kap")
                        => a = b
      BY <2>3, <2>4 DEF Same
    <3>3. continues => \A a, b \in Sections : Same(a, b) => a = b
      BY <2>3 DEF Same
    <3>4. counted => \A k \in Numbered : nodes[k].no # 0
      BY <2>3
    <3> HIDE DEF distinct, restarts, continues, counted
    <3> QED BY <3>1, <3>2, <3>3, <3>4 DEF Unmistakable
  <2>1. ASSUME Done, Unmistakable, NEW k \in Sections
        PROVE  named[k].uri # NoURI
    <3>1. k \in 1..Len(named) /\ k \in Numbered
      BY <1>2, <2>1 DEF Naming, IInv, Tree, Sections, Numbered
    <3> QED BY <1>2, <2>1, <3>1 DEF Naming, NameOf
  <2>7. Done /\ distinct /\ counted /\ (restarts \/ continues)
        => \A k \in sections : named[k].uri # NoURI
    <3> HIDE DEF distinct, restarts, continues, counted
    <3> QED BY <2>1, <2>3, <2>6
  <2> QED BY <2>7 DEF SectionsNamed, numbered, sections, chapters
<1>3. IInv /\ Naming /\ [Next]_vars => Naming'
  BY NamingStep
<1> QED BY <1>1, <1>2, <1>3, Invariant, PTL DEF Spec

-----------------------------------------------------------------------------
(* The lines that begin chapters.                                          *)

States == [avdelning : Nat, chapter : Nat, section : Nat, fake : Nat,
           level : Nat]

(* What the property supposes of the table of contents.                    *)
Listed(r, l) ==
  /\ ListsChapters(r, l)
  /\ \A j \in Chapters :
       j > r /\ (\A k \in Chapters : ~(r < k /\ k < j))
       => \/ doc[j].no < doc[l].no
          \/ \E p \in SectionsOf(r) : p < j /\ doc[p].no >= 2

(* The chapters made are of the lines that begin chapters, of all that     *)
(* were read.                                                              *)
Chaptered ==
  /\ \A k \in DOMAIN nodes :
       /\ nodes[k].kind # "tab"
       /\ nodes[k].kind = "kap" => nodes[k].own \subseteq Chapters
  /\ \A i \in Chapters :
       i < pos => \E k \in DOMAIN nodes : /\ nodes[k].kind = "kap"
                                          /\ i \in nodes[k].own
  /\ ~ Parsing => eof(pos)

(* What is remembered of the lines that were read: the last chapter, the   *)
(* last section of the first one, and the last line in the table of the    *)
(* wording that is being read.                                             *)
Counted(r, l) ==
  /\ pos <= r => state.chapter = 0
  /\ r < pos =>
       /\ \E i \in Chapters : i < pos /\ state.chapter = doc[i].no
       /\ \A i \in Chapters : i < pos => doc[i].no <= state.chapter
  /\ state.chapter = 1 =>
       /\ \A p \in SectionsOf(r) : p < pos => doc[p].no <= state.section
       /\ state.section # 0 => \E p \in SectionsOf(r) :
                                 p < pos /\ doc[p].no = state.section
       /\ state.fake # 0 => \E c \in Contents :
            /\ c <= pos /\ state.fake = doc[c].no
            /\ \A p \in SectionsOf(r) : Reworded(p) => ~(c < p /\ p < pos)
       /\ l < pos => state.fake = doc[l].no

(* The inductive invariant.                                                *)
Found ==
  /\ state \in States
  /\ \A r, l \in DOMAIN doc : Listed(r, l) => Chaptered /\ Counted(r, l)

(* What a chapter or a section is taken for, and what is taken for one.    *)
LEMMA HandlerIs ==
  ASSUME NEW h, Turn(h)
  PROVE  /\ Look(pos) = "kap"
            => h = IF isKapitel(pos) THEN "kap" ELSE "stycke"
         /\ Look(pos) = "par" /\ isParagraf(pos) => h = "par"
         /\ Look(pos) = "upphpar" => h = "upphpar"
         /\ h \in {"kap", "par", "upphpar", "avd", "tab"} => Look(pos) = h
<1>1. Handler = h /\ ~ eof(pos)
  BY DEF Turn
<1>2. CASE ItemFirst
  <2>1. h = "num" /\ Look(pos) = "num"
    BY <1>1, <1>2 DEF Handler, ItemFirst, isNumreradLista
  <2> QED BY <2>1
<1>3. CASE ~ ItemFirst
  <2>1. h = guess_state
    BY <1>1, <1>3 DEF Handler
  <2>2. ASSUME Look(pos) \in {"kap", "par", "upphpar"}, NEW g \in Handlers,
               g # "stycke", Recognized(g)
        PROVE  /\ g \in {"kap", "par", "upphpar"}
               /\ g = "kap" => Look(pos) = "kap" /\ isKapitel(pos)
               /\ g = "par" => Look(pos) # "kap" /\ isParagraf(pos)
               /\ g = "upphpar" => Look(pos) = "upphpar"
    <3>1. /\ ~ isAvdelning /\ ~ isTabell(FALSE)
          /\ ~ isOvergangsbestammelser /\ ~ LooksLikeRubrik(pos)
      BY <1>1, <2>2
      DEF isAvdelning, isTabell, isOvergangsbestammelser, LooksLikeRubrik
    <3>2. /\ isKapitel(pos) => Look(pos) \in {"kap", "upphkap"}
          /\ isParagraf(pos) => Look(pos) \in {"par", "upphpar"}
      BY <1>1 DEF isKapitel, idOfKapitel, isParagraf
    <3>3. CASE g \in {"avd", "kap", "par", "tab", "obs", "rub"}
      BY <2>2, <3>1, <3>2, <3>3 DEF Recognized, isRubrik
    <3>4. CASE g \notin {"avd", "kap", "par", "tab", "obs", "rub"}
      <4>1. Look(pos) = g
        BY <2>2, <3>4 DEF Recognized
      <4> QED BY <2>2, <3>4, <4>1
    <3> QED BY <3>3, <3>4
  <2>3. /\ Recognized("kap") <=> isKapitel(pos)
        /\ Recognized("par") <=> isParagraf(pos)
        /\ Recognized("upphpar") <=> Look(pos) = "upphpar"
    BY DEF Recognized
  <2>4. /\ Recognizers[1] = "avd" /\ Recognizers[2] = "uavd"
        /\ Recognizers[3] = "upphkap" /\ Recognizers[4] = "upphpar"
        /\ Recognizers[5] = "kap" /\ Recognizers[6] = "par"
    BY DEF Recognizers
  <2>5. h \in Handlers /\ (h # "stycke" => Recognized(h))
    BY <2>1, GuessIs
  <2>6. /\ Recognized("upphkap") => h \in {"avd", "uavd", "upphkap"}
        /\ Recognized("upphpar") => h \in {"avd", "uavd", "upphkap", "upphpar"}
        /\ Recognized("kap")
           => h \in {"avd", "uavd", "upphkap", "upphpar", "kap"}
        /\ Recognized("par")
           => h \in {"avd", "uavd", "upphkap", "upphpar", "kap", "par"}
    <3>1. \A i \in 1..14 : Recognized(Recognizers[i])
                           => \E j \in 1..i : h = Recognizers[j]
      BY <2>1, GuessIs
    <3>2. Recognized("upphpar") => \E j \in 1..4 : h = Recognizers[j]
      BY <2>4, <3>1
    <3>3. Recognized("kap") => \E j \in 1..5 : h = Recognizers[j]
      BY <2>4, <3>1
    <3>4. Recognized("par") => \E j \in 1..6 : h = Recognizers[j]
      BY <2>4, <3>1
    <3>5. Recognized("upphkap") => \E j \in 1..3 : h = Recognizers[j]
      BY <2>4, <3>1
    <3> QED BY <2>4, <3>2, <3>3, <3>4, <3>5
  <2>7. Look(pos) = "kap" => h = IF isKapitel(pos) THEN "kap" ELSE "stycke"
    BY <2>2, <2>3, <2>5, <2>6
  <2>8. Look(pos) = "par" /\ isParagraf(pos) => h = "par"
    BY <2>2, <2>3, <2>5, <2>6
  <2>9. Look(pos) = "upphpar" => h = "upphpar"
    BY <2>2, <2>3, <2>5, <2>6
  <2>10. ASSUME h \in {"kap", "par", "upphpar", "avd", "tab"}
         PROVE  Look(pos) = h
    <3>1. Recognized(h)
      BY <2>5, <2>10
    <3>2. CASE h = "kap"
      <4>1. Look(pos) \in {"kap", "upphkap"}
        BY <3>1, <3>2, <2>3 DEF isKapitel, idOfKapitel
      <4>2. Recognized("upphkap") <=> Look(pos) = "upphkap"
        BY DEF Recognized
      <4> QED BY <3>2, <2>6, <4>1, <4>2
    <3> QED BY <3>1, <3>2, <2>10, <2>9, <1>1
            DEF Recognized, isAvdelning, isTabell, isParagraf
  <2> QED BY <2>7, <2>8, <2>9, <2>10
<1> QED BY <1>2, <1>3

(* What is remembered of a line as such.                                   *)
LEMMA RememberedIs ==
  ASSUME Reading, state \in States, NEW h, Turn(h)
  PROVE  /\ Remembered \in States
         /\ Remembered.chapter = state.chapter
         /\ Remembered.section = state.section
         /\ Remembered.fake =
              IF /\ Look(pos) = "kap" /\ idOfKapitel(pos)
                 /\ ~ isKapitel(pos) /\ doc[pos].no >= state.chapter
              THEN doc[pos].no ELSE state.fake
<1>1. Handler = h /\ ~ eof(pos) /\ doc[pos].no \in Nat
  BY DocIs, InDoc DEF Turn
<1>2. CASE ItemFirst
  BY <1>1, <1>2 DEF Remembered, ItemFirst, isNumreradLista
<1>3. CASE ~ ItemFirst
  <2>1. Remembered = AfterGuess(h)
    BY <1>1, <1>3 DEF Remembered
  <2> QED BY <1>1, <2>1 DEF AfterGuess, States
<1> QED BY <1>2, <1>3

(* The premises of one table, as far as the reader is concerned.           *)
LEMMA PremisesAre ==
  ASSUME Reading, NEW r \in DOMAIN doc, NEW l \in DOMAIN doc, Listed(r, l)
  PROVE  /\ \A i \in DOMAIN doc : /\ Look(i) = doc[i].look
                                  /\ Look(i) \notin {"avd", "tab"}
         /\ r \in Chapters /\ doc[r].no = 1
         /\ r = 1 => ~ ikrafttrader(doc[r])
         /\ \A j \in Chapters :
              /\ j \in DOMAIN doc /\ Look(j) = "kap" /\ ~ Marked(j, "closed")
              /\ r <= j
              /\ j # r => j > l /\ doc[j].no >= 2
              /\ \A k \in Chapters : j < k => doc[j].no <= doc[k].no
         /\ l \in Contents /\ ~ Marked(l, "closed") /\ doc[l].no >= 1 /\ r < l
         /\ \A c \in Contents :
              /\ c \in DOMAIN doc /\ Look(c) = "kap" /\ r < c /\ c <= l
              /\ \E p \in SectionsOf(r) : p < c
              /\ \A p \in SectionsOf(r) : p < c => doc[p].no = 1
              /\ \A d \in Contents :
                   c < d /\ doc[d].no < doc[c].no
                   => \E p \in SectionsOf(r) : Reworded(p) /\ c < p /\ p < d
         /\ \A p \in SectionsOf(r) :
              /\ p \in DOMAIN doc /\ Look(p) \in {"par", "upphpar"} /\ r < p
              /\ ~ Marked(p, "lower")
              /\ Reworded(p) => p < l
              /\ \A q \in SectionsOf(r) : p < q => doc[p].no <= doc[q].no
         /\ \A i \in DOMAIN doc :
              Look(i) = "kap" => i \in Chapters \/ i \in Contents
<1>1. /\ DOMAIN doc = 1..Len(doc) /\ Len(doc) \in Nat
      /\ r \in Chapters /\ l \in Contents
  BY DocIs DEF Listed, ListsChapters
<1>2. \A i \in DOMAIN doc : Look(i) = doc[i].look
  BY <1>1 DEF Look, eof
<1>3. /\ Chapters = {i \in DOMAIN doc : Look(i) = "kap"} \ Contents
      /\ Contents \subseteq DOMAIN doc
  BY DEF Chapters, Contents
<1>4. r < l
  BY <1>1 DEF Listed, ListsChapters
<1>5. \A j \in Chapters : j \in Nat /\ (j = r \/ j > l)
  BY <1>1, <1>3 DEF Listed, ListsChapters
<1>6. \A j \in Chapters : r <= j
  BY <1>1, <1>3, <1>4, <1>5
<1> QED BY <1>1, <1>2, <1>3, <1>4, <1>6
        DEF Listed, ListsChapters, SectionsOf

(* In the first chapter are the lines before the second.                   *)
LEMMA FirstIs ==
  ASSUME Reading, NEW r \in DOMAIN doc, NEW l \in DOMAIN doc, Listed(r, l),
         Counted(r, l), state \in States
  PROVE  /\ state.chapter = 1 <=>
              r < pos /\ \A j \in Chapters : j < pos => j = r
         /\ r < pos => state.chapter >= 1
<1>1. /\ pos \in Nat /\ r \in Nat /\ state.chapter \in Nat
      /\ r \in Chapters /\ doc[r].no = 1
      /\ \A j \in Chapters : /\ j \in Nat /\ doc[j].no \in Nat
                             /\ j # r => doc[j].no >= 2
  BY PremisesAre, DocIs DEF Reading, States
<1>2. pos <= r => state.chapter = 0
  BY DEF Counted
<1>3. ASSUME r < pos
      PROVE  /\ \E i \in Chapters : i < pos /\ state.chapter = doc[i].no
             /\ \A i \in Chapters : i < pos => doc[i].no <= state.chapter
  BY <1>3 DEF Counted
<1> QED BY <1>1, <1>2, <1>3

(* A line of a chapter is taken for one, and only that.                    *)
LEMMA KapitelIs ==
  ASSUME Reading, NEW r \in DOMAIN doc, NEW l \in DOMAIN doc, Listed(r, l),
         Counted(r, l), state \in States, ~ eof(pos), Look(pos) = "kap"
  PROVE  isKapitel(pos) <=> pos \in Chapters
<1>1. /\ pos \in DOMAIN doc /\ pos \in Nat /\ r \in Nat /\ l \in Nat
      /\ \A i \in DOMAIN doc : i \in Nat /\ doc[i].no \in Nat
  BY DocIs, InDoc
<1>2. /\ state.chapter \in Nat /\ state.section \in Nat
      /\ state.fake \in Nat
  BY DEF States
<1>3. ASSUME pos \in Chapters PROVE isKapitel(pos)
  <2>1. idOfKapitel(pos)
    BY <1>3, PremisesAre DEF idOfKapitel
  <2>2. doc[pos].no >= state.chapter
    <3>1. CASE pos <= r
      BY <1>1, <3>1 DEF Counted
    <3>2. CASE r < pos
      <4>1. PICK i \in Chapters : i < pos /\ state.chapter = doc[i].no
        BY <3>2 DEF Counted
      <4> QED BY <1>1, <1>3, <4>1, PremisesAre
    <3> QED BY <1>1, <3>1, <3>2
  <2>3. ASSUME MayBeContents PROVE doc[pos].no < state.fake
    <3>1. /\ state.chapter = 1 /\ state.section = 1 /\ r < pos
          /\ \A j \in Chapters : j < pos => j = r
      BY <2>3, FirstIs DEF MayBeContents
    <3>2. l < pos
      BY <1>1, <1>3, <3>1, PremisesAre
    <3>3. state.fake = doc[l].no
      BY <3>1, <3>2 DEF Counted
    <3>4. \A k \in Chapters : ~(r < k /\ k < pos)
      BY <1>1, <3>1
    <3>5. \/ doc[pos].no < doc[l].no
          \/ \E p \in SectionsOf(r) : p < pos /\ doc[p].no >= 2
      BY <1>1, <1>3, <3>1, <3>4 DEF Listed
    <3>6. ASSUME NEW p \in SectionsOf(r), p < pos, doc[p].no >= 2
          PROVE  FALSE
      <4>1. doc[p].no <= 1 /\ doc[p].no \in Nat
        BY <1>1, <3>1, <3>6, PremisesAre DEF Counted
      <4> QED BY <3>6, <4>1
    <3> QED BY <3>3, <3>5, <3>6
  <2> QED BY <2>1, <2>2, <2>3 DEF isKapitel
<1>4. ASSUME pos \notin Chapters, isKapitel(pos) PROVE FALSE
  <2>1. pos \in Contents /\ r < pos /\ pos <= l
    BY <1>1, <1>4, PremisesAre
  <2>2. state.chapter = 1
    <3>1. \A j \in Chapters : j < pos => j = r
      <4>1. \A j \in Chapters : j \in Nat /\ (j # r => j > l)
        BY <1>1, PremisesAre
      <4> QED BY <1>1, <2>1, <4>1
    <3> QED BY <2>1, <3>1, FirstIs
  <2>3. state.section = 1
    <3>1. PICK p \in SectionsOf(r) : p < pos
      BY <2>1, PremisesAre
    <3>2. \A q \in SectionsOf(r) : q < pos => doc[q].no = 1
      BY <2>1, PremisesAre
    <3>3. 1 <= state.section
      BY <2>2, <3>1, <3>2 DEF Counted
    <3>4. state.section # 0
      BY <1>2, <3>3
    <3> QED BY <2>2, <3>2, <3>4 DEF Counted
  <2>4. doc[pos].no < state.fake
    BY <1>4, <2>2, <2>3 DEF isKapitel, MayBeContents
  <2>5. PICK c \in Contents :
          /\ c <= pos /\ state.fake = doc[c].no
          /\ \A p \in SectionsOf(r) : Reworded(p) => ~(c < p /\ p < pos)
    <3>1. state.fake # 0
      BY <1>1, <1>2, <2>4
    <3> QED BY <2>2, <3>1 DEF Counted
  <2>6. c \in DOMAIN doc /\ c # pos
    BY <1>1, <2>4, <2>5, PremisesAre
  <2>7. c < pos
    BY <1>1, <2>5, <2>6
  <2>8. \E p \in SectionsOf(r) : Reworded(p) /\ c < p /\ p < pos
    BY <2>1, <2>4, <2>5, <2>7, PremisesAre
  <2> QED BY <2>5, <2>8
<1> QED BY <1>3, <1>4

(* A section of the first chapter is taken for one.                        *)
LEMMA ParagrafIs ==
  ASSUME Reading, NEW r \in DOMAIN doc, NEW l \in DOMAIN doc, Listed(r, l),
         Counted(r, l), state \in States, ~ eof(pos), Look(pos) = "par",
         pos \in SectionsOf(r), state.chapter = 1
  PROVE  isParagraf(pos)
<1>1. /\ pos \in DOMAIN doc /\ pos \in Nat
      /\ \A i \in DOMAIN doc : i \in Nat /\ doc[i].no \in Nat
      /\ state.section \in Nat
  BY DocIs, InDoc DEF States
<1>2. ~ Marked(pos, "lower")
  BY PremisesAre
<1>3. doc[pos].no >= state.section
  <2>1. CASE state.section = 0
    BY <1>1, <2>1
  <2>2. CASE state.section # 0
    <3>1. PICK p \in SectionsOf(r) : p < pos /\ doc[p].no = state.section
      BY <2>2 DEF Counted
    <3> QED BY <1>1, <3>1, PremisesAre
  <2> QED BY <2>1, <2>2
<1> QED BY <1>2, <1>3 DEF isParagraf

(* What is said of the text stays, as it does.                             *)
LEMMA TextStays ==
  ASSUME doc' = doc
  PROVE  /\ Contents' = Contents /\ Chapters' = Chapters
         /\ \A r : SectionsOf(r)' = SectionsOf(r)
         /\ \A p : Reworded(p)' <=> Reworded(p)
         /\ \A r, l : Listed(r, l)' <=> Listed(r, l)
<1>1. Contents' = Contents /\ \A i : Look(i)' = Look(i)
  BY DEF Contents, Marked, Look, eof
<1>2. Chapters' = Chapters
  BY <1>1 DEF Chapters
<1>3. /\ \A r : SectionsOf(r)' = SectionsOf(r)
      /\ \A p : Reworded(p)' <=> Reworded(p)
  BY <1>1, <1>2 DEF SectionsOf, Reworded
<1>4. ASSUME NEW r, NEW l PROVE Listed(r, l)' <=> Listed(r, l)
  BY <1>1, <1>2, <1>3 DEF Listed, ListsChapters, Marked
<1> QED BY <1>1, <1>2, <1>3, <1>4

(* One line is looked at, and read or not: what is remembered is right     *)
(* again.                                                                  *)
LEMMA CountedNext ==
  ASSUME Reading, doc' = doc,
         NEW r \in DOMAIN doc, NEW l \in DOMAIN doc, Listed(r, l),
         Counted(r, l), state \in States, NEW h, Turn(h),
         pos' \in {pos, pos + 1},
         state'.chapter =
           IF pos' # pos /\ h = "kap" THEN doc[pos].no ELSE state.chapter,
         state'.section =
           IF pos' = pos THEN state.section
           ELSE IF h = "kap" THEN 0
           ELSE IF h \in {"par", "upphpar"} THEN doc[pos].no
           ELSE state.section,
         state'.fake =
           IF pos' # pos /\ (h = "kap" \/ (h = "par" /\ ContentsAgain))
           THEN 0 ELSE Remembered.fake
  PROVE  Counted(r, l)'
<1>1. /\ pos \in DOMAIN doc /\ pos \in Nat /\ r \in Nat /\ l \in Nat
      /\ \A i \in DOMAIN doc : i \in Nat /\ doc[i].no \in Nat
      /\ ~ eof(pos)
  BY DocIs, InDoc DEF Turn
<1>2. /\ state.chapter \in Nat /\ state.section \in Nat
      /\ state.fake \in Nat
  BY DEF States
<1>3. /\ Contents' = Contents /\ Chapters' = Chapters
      /\ SectionsOf(r)' = SectionsOf(r)
      /\ \A p : Reworded(p)' <=> Reworded(p)
  BY TextStays
<1>4. Remembered.fake =
        IF /\ Look(pos) = "kap" /\ idOfKapitel(pos)
           /\ ~ isKapitel(pos) /\ doc[pos].no >= state.chapter
        THEN doc[pos].no ELSE state.fake
  BY RememberedIs
<1>5. /\ \A c \in Contents : c \in Nat /\ c <= l /\ r < c
      /\ \A j \in Chapters : j \in Nat /\ r <= j /\ j \in DOMAIN doc
      /\ \A p \in SectionsOf(r) : p \in Nat /\ p \in DOMAIN doc
  BY <1>1, PremisesAre
<1>6. pos \in Chapters <=> h = "kap"
  BY <1>1, HandlerIs, KapitelIs, PremisesAre
<1>7. /\ h = "kap" => Look(pos) = "kap"
      /\ h \in {"par", "upphpar"} => Look(pos) = h
  BY HandlerIs
<1>8. state.chapter = 1 /\ pos \notin Chapters
      => /\ r < pos
         /\ pos \in SectionsOf(r) <=> Look(pos) \in {"par", "upphpar"}
  <2>1. SUFFICES ASSUME state.chapter = 1, pos \notin Chapters
                 PROVE  /\ r < pos
                        /\ pos \in SectionsOf(r)
                           <=> Look(pos) \in {"par", "upphpar"}
    OBVIOUS
  <2>2. r < pos /\ \A j \in Chapters : j < pos => j = r
    BY <2>1, FirstIs
  <2>3. \A j \in Chapters : ~(r < j /\ j < pos)
    BY <1>1, <2>2
  <2> QED BY <1>1, <2>2, <2>3 DEF SectionsOf
<1>9. CASE pos' = pos
  <2>1. state'.chapter = state.chapter /\ state'.section = state.section
    BY <1>9
  <2>2. state'.fake = Remembered.fake
    BY <1>9
  <2>3. /\ pos' <= r => state'.chapter = 0
        /\ r < pos' =>
             /\ \E i \in Chapters : i < pos' /\ state'.chapter = doc[i].no
             /\ \A i \in Chapters : i < pos' => doc[i].no <= state'.chapter
    BY <1>9, <2>1 DEF Counted
  <2>4. ASSUME state.chapter = 1
        PROVE  /\ \A p \in SectionsOf(r) :
                    p < pos' => doc[p].no <= state'.section
               /\ state'.section # 0
                  => \E p \in SectionsOf(r) :
                       p < pos' /\ doc[p].no = state'.section
    BY <1>9, <2>1, <2>4 DEF Counted
  <2>5. ASSUME state.chapter = 1
        PROVE  /\ state'.fake # 0 => \E c \in Contents :
                    /\ c <= pos' /\ state'.fake = doc[c].no
                    /\ \A p \in SectionsOf(r) :
                         Reworded(p) => ~(c < p /\ p < pos')
               /\ l < pos' => state'.fake = doc[l].no
    <3>1. CASE state'.fake = state.fake
      BY <1>9, <2>5, <3>1 DEF Counted
    <3>2. CASE state'.fake # state.fake
      <4>1. /\ Look(pos) = "kap" /\ ~ isKapitel(pos)
            /\ state'.fake = doc[pos].no
        BY <1>4, <2>2, <3>2
      <4>2. pos \in Contents
        BY <1>1, <4>1, KapitelIs, PremisesAre
      <4> QED BY <1>1, <1>5, <1>9, <4>1, <4>2
    <3> QED BY <3>1, <3>2
  <2> QED BY <1>3, <2>1, <2>3, <2>4, <2>5 DEF Counted
<1>10. CASE pos' = pos + 1 /\ pos \in Chapters
  <2>1. /\ h = "kap" /\ pos' # pos
        /\ state'.chapter = doc[pos].no /\ state'.section = 0
        /\ state'.fake = 0
    BY <1>1, <1>6, <1>10
  <2>2. ~(pos' <= r) /\ r <= pos
    BY <1>1, <1>5, <1>10
  <2>3. /\ \E i \in Chapters : i < pos' /\ state'.chapter = doc[i].no
        /\ \A i \in Chapters : i < pos' => doc[i].no <= state'.chapter
    <3>1. pos < pos'
      BY <1>1, <1>10
    <3>2. ASSUME NEW i \in Chapters, i < pos'
          PROVE  doc[i].no <= doc[pos].no
      <4>1. i < pos \/ i = pos
        BY <1>1, <1>5, <1>10, <3>2
      <4> QED BY <1>1, <1>10, <4>1, PremisesAre
    <3> QED BY <1>10, <2>1, <3>1, <3>2
  <2>4. ASSUME state'.chapter = 1
        PROVE  /\ \A p \in SectionsOf(r) : ~(p < pos')
               /\ ~(l < pos')
    <3>1. pos = r /\ r < l /\ \A p \in SectionsOf(r) : r < p
      <4>1. pos \in Chapters /\ doc[pos].no = 1
        BY <1>10, <2>1, <2>4
      <4>2. pos # r => doc[pos].no >= 2
        BY <4>1, PremisesAre
      <4>3. r < l /\ \A p \in SectionsOf(r) : r < p
        BY PremisesAre
      <4> QED BY <4>1, <4>2, <4>3
    <3> QED BY <1>1, <1>5, <1>10, <3>1
  <2> QED BY <1>3, <2>1, <2>2, <2>3, <2>4 DEF Counted
<1>11. CASE pos' = pos + 1 /\ pos \notin Chapters
  <2>1. /\ h # "kap" /\ pos' # pos
        /\ state'.chapter = state.chapter
        /\ state'.section = IF h \in {"par", "upphpar"} THEN doc[pos].no
                            ELSE state.section
        /\ state'.fake = IF h = "par" /\ ContentsAgain THEN 0
                         ELSE Remembered.fake
    BY <1>1, <1>6, <1>11
  <2>2. /\ \A i \in Chapters : i < pos' <=> i < pos
        /\ r # pos
        /\ \A p \in SectionsOf(r) : p < pos' <=> p < pos \/ p = pos
        /\ l < pos' <=> l < pos \/ l = pos
        /\ \A c \in Contents : c <= pos => c <= pos'
    <3>1. r \in Chapters
      BY PremisesAre
    <3>2. \A i \in Chapters : i # pos
      BY <1>11
    <3> QED BY <1>1, <1>5, <1>11, <3>1, <3>2
  <2>3. /\ pos' <= r => state'.chapter = 0
        /\ r < pos' =>
             /\ \E i \in Chapters : i < pos' /\ state'.chapter = doc[i].no
             /\ \A i \in Chapters : i < pos' => doc[i].no <= state'.chapter
    <3>1. (pos' <= r => pos <= r) /\ (r < pos' => r < pos)
      BY <1>1, <1>11, <2>2
    <3> QED BY <2>1, <2>2, <3>1 DEF Counted
  <2>4. ASSUME state.chapter = 1
        PROVE  /\ \A p \in SectionsOf(r) :
                    p < pos' => doc[p].no <= state'.section
               /\ state'.section # 0
                  => \E p \in SectionsOf(r) :
                       p < pos' /\ doc[p].no = state'.section
               /\ state'.fake # 0 => \E c \in Contents :
                    /\ c <= pos' /\ state'.fake = doc[c].no
                    /\ \A p \in SectionsOf(r) :
                         Reworded(p) => ~(c < p /\ p < pos')
               /\ l < pos' => state'.fake = doc[l].no
    <3>1. CASE pos \in SectionsOf(r)
      <4>1. Look(pos) \in {"par", "upphpar"} /\ l # pos
        BY <1>8, <1>11, <2>4, <3>1, PremisesAre
      <4>2. h = Look(pos)
        BY <1>1, <2>4, <3>1, <4>1, HandlerIs, ParagrafIs
      <4>3. state'.section = doc[pos].no
        BY <2>1, <4>1, <4>2
      <4>4. \A p \in SectionsOf(r) : p < pos => doc[p].no <= doc[pos].no
        BY <3>1, PremisesAre
      <4>5. /\ \A p \in SectionsOf(r) :
                 p < pos' => doc[p].no <= state'.section
            /\ \E p \in SectionsOf(r) :
                 p < pos' /\ doc[p].no = state'.section
        BY <1>1, <2>2, <3>1, <4>3, <4>4
      <4>6. Reworded(pos) <=> h = "par" /\ ContentsAgain
        BY <2>4, <4>2 DEF Reworded, ContentsAgain
      <4>7. CASE Reworded(pos)
        <5>1. state'.fake = 0 /\ pos < l
          BY <2>1, <3>1, <4>6, <4>7, PremisesAre
        <5>2. ~(l < pos')
          BY <1>1, <2>2, <4>1, <5>1
        <5> QED BY <4>5, <5>1, <5>2
      <4>8. CASE ~ Reworded(pos)
        <5>1. state'.fake = state.fake
          BY <1>4, <2>1, <4>1, <4>6, <4>8
        <5>2. /\ state.fake # 0 => \E c \in Contents :
                   /\ c <= pos /\ state.fake = doc[c].no
                   /\ \A p \in SectionsOf(r) :
                        Reworded(p) => ~(c < p /\ p < pos)
              /\ l < pos => state.fake = doc[l].no
          BY <2>4 DEF Counted
        <5>3. \A p \in SectionsOf(r) :
                Reworded(p) /\ p < pos' => p < pos
          BY <2>2, <4>8
        <5>4. /\ state'.fake # 0 => \E c \in Contents :
                   /\ c <= pos' /\ state'.fake = doc[c].no
                   /\ \A p \in SectionsOf(r) :
                        Reworded(p) => ~(c < p /\ p < pos')
              /\ l < pos' => state'.fake = doc[l].no
          BY <2>2, <4>1, <5>1, <5>2, <5>3
        <5> QED BY <4>5, <5>4
      <4> QED BY <4>7, <4>8
    <3>2. CASE pos \notin SectionsOf(r)
      <4>1. /\ Look(pos) \notin {"par", "upphpar"}
            /\ h \notin {"par", "upphpar"}
        BY <1>7, <1>8, <1>11, <2>4, <3>2
      <4>2. /\ state'.section = state.section
            /\ state'.fake = Remembered.fake
            /\ \A p \in SectionsOf(r) : p < pos' <=> p < pos
        BY <2>1, <2>2, <3>2, <4>1
      <4>3. /\ \A p \in SectionsOf(r) :
                 p < pos' => doc[p].no <= state'.section
            /\ state'.section # 0
               => \E p \in SectionsOf(r) :
                    p < pos' /\ doc[p].no = state'.section
        BY <2>4, <4>2 DEF Counted
      <4>4. CASE /\ Look(pos) = "kap" /\ idOfKapitel(pos)
                 /\ ~ isKapitel(pos) /\ doc[pos].no >= state.chapter
        <5>1. state'.fake = doc[pos].no
          BY <1>4, <4>2, <4>4
        <5>2. pos \in Contents /\ pos <= l
          BY <1>1, <1>11, <1>5, <4>4, PremisesAre
        <5>3. l < pos' => l = pos
          BY <1>1, <2>2, <5>2
        <5>4. \A p \in SectionsOf(r) : ~(pos < p /\ p < pos')
          BY <1>1, <1>5, <4>2
        <5>5. pos <= pos'
          BY <1>1, <1>11
        <5> QED BY <4>3, <5>1, <5>2, <5>3, <5>4, <5>5
      <4>5. CASE ~ (/\ Look(pos) = "kap" /\ idOfKapitel(pos)
                    /\ ~ isKapitel(pos) /\ doc[pos].no >= state.chapter)
        <5>1. state'.fake = state.fake
          BY <1>4, <4>2, <4>5
        <5>2. l # pos
          <6>1. SUFFICES ASSUME l = pos PROVE FALSE
            OBVIOUS
          <6>2. /\ Look(pos) = "kap" /\ idOfKapitel(pos)
                /\ doc[pos].no >= state.chapter
            BY <2>4, <6>1, PremisesAre DEF idOfKapitel
          <6>3. ~ isKapitel(pos)
            BY <1>1, <1>11, <6>2, KapitelIs
          <6> QED BY <4>5, <6>2, <6>3
        <5>3. /\ state.fake # 0 => \E c \in Contents :
                   /\ c <= pos /\ state.fake = doc[c].no
                   /\ \A p \in SectionsOf(r) :
                        Reworded(p) => ~(c < p /\ p < pos)
              /\ l < pos => state.fake = doc[l].no
          BY <2>4 DEF Counted
        <5>4. /\ state'.fake # 0 => \E c \in Contents :
                   /\ c <= pos' /\ state'.fake = doc[c].no
                   /\ \A p \in SectionsOf(r) :
                        Reworded(p) => ~(c < p /\ p < pos')
              /\ l < pos' => state'.fake = doc[l].no
          BY <2>2, <4>2, <5>1, <5>2, <5>3
        <5> QED BY <4>3, <5>4
      <4> QED BY <4>4, <4>5
    <3> QED BY <3>1, <3>2
  <2> QED BY <1>3, <2>1, <2>3, <2>4 DEF Counted
<1> QED BY <1>9, <1>10, <1>11

(* The elements that are there and those of the chain.                     *)
LEMMA AddsHas ==
  ASSUME Tree, Frames, NEW all \in Seq(Nodes), Len(all) >= 1,
         NEW kept \in 0..Len(all), Adds(all, kept)
  PROVE  /\ \A k \in DOMAIN nodes : k \in DOMAIN nodes' /\ nodes'[k] = nodes[k]
         /\ \A k \in DOMAIN nodes' :
              \/ k \in DOMAIN nodes
              \/ \E i \in 1..Len(all) : /\ nodes'[k].kind = all[i].kind
                                        /\ nodes'[k].own = all[i].own
         /\ \A i \in 1..Len(all) :
              \E k \in DOMAIN nodes' : /\ nodes'[k].kind = all[i].kind
                                       /\ nodes'[k].own = all[i].own
<1> DEFINE m == Len(all)
           n == Len(nodes)
<1>1. /\ n \in Nat \ {0} /\ m \in Nat \ {0}
      /\ nodes' \in Seq(Nodes) /\ Len(nodes') = n + m
      /\ \A k \in 1..n : nodes'[k] = nodes[k]
      /\ \A i \in 1..m : /\ nodes'[n + i].kind = all[i].kind
                         /\ nodes'[n + i].own = all[i].own
      /\ \A k \in 1..(n + m) : k \in 1..n \/ \E i \in 1..m : k = n + i
  BY Appended
<1>2. DOMAIN nodes = 1..n /\ DOMAIN nodes' = 1..(n + m)
  BY <1>1 DEF Tree
<1> HIDE DEF n
<1>3. /\ \A k \in 1..n : k \in 1..(n + m)
      /\ \A i \in 1..m : n + i \in 1..(n + m)
  BY <1>1
<1> HIDE DEF m
<1>4. /\ \A k \in DOMAIN nodes : k \in DOMAIN nodes' /\ nodes'[k] = nodes[k]
      /\ \A k \in DOMAIN nodes' :
           \/ k \in DOMAIN nodes
           \/ \E i \in 1..m : /\ nodes'[k].kind = all[i].kind
                              /\ nodes'[k].own = all[i].own
  <2>1. ASSUME NEW k \in 1..n PROVE k \in 1..(n + m) /\ nodes'[k] = nodes[k]
    BY <1>1, <1>3
  <2>2. ASSUME NEW k \in 1..(n + m), k \notin 1..n
        PROVE  \E i \in 1..m : /\ nodes'[k].kind = all[i].kind
                               /\ nodes'[k].own = all[i].own
    <3>1. PICK i \in 1..m : k = n + i
      BY <1>1, <2>2
    <3> QED BY <1>1, <3>1
  <2> QED BY <1>2, <2>1, <2>2
<1>5. \A i \in 1..m : \E k \in DOMAIN nodes' : /\ nodes'[k].kind = all[i].kind
                                               /\ nodes'[k].own = all[i].own
  <2>1. SUFFICES ASSUME NEW i \in 1..m
                 PROVE  \E k \in DOMAIN nodes' :
                          /\ nodes'[k].kind = all[i].kind
                          /\ nodes'[k].own = all[i].own
    OBVIOUS
  <2>2. n + i \in DOMAIN nodes'
    BY <1>2, <1>3
  <2> QED BY <1>1, <2>2
<1> QED BY <1>4, <1>5 DEF m

(* The same of what is made, besides what it is wrapped in.                *)
LEMMA MadeHas ==
  ASSUME Tree, Frames, NEW chain \in Seq(Nodes), Len(chain) >= 1,
         NEW opened \in BOOLEAN, Made(chain, opened)
  PROVE  /\ doc' = doc /\ status' = status
         /\ \A k \in DOMAIN nodes : k \in DOMAIN nodes' /\ nodes'[k] = nodes[k]
         /\ \A k \in DOMAIN nodes' :
              \/ k \in DOMAIN nodes \/ nodes'[k].kind = "wrap"
              \/ \E i \in 1..Len(chain) : /\ nodes'[k].kind = chain[i].kind
                                          /\ nodes'[k].own = chain[i].own
         /\ \A i \in 1..Len(chain) :
              \E k \in DOMAIN nodes' : /\ nodes'[k].kind = chain[i].kind
                                       /\ nodes'[k].own = chain[i].own
<1> DEFINE W == Node("wrap", Basefile, 0, {}, "none")
           m == Len(chain)
<1>1. /\ m \in Nat \ {0} /\ DOMAIN chain = 1..m
      /\ doc' = doc /\ status' = status
  BY DEF Made, rest
<1>2. CASE Within = "obs" /\ chain[1].kind # "ob"
  <2> DEFINE all == <<W>> \o chain
             kept == IF opened THEN Len(all) ELSE 1
  <2>1. W \in Nodes /\ W.kind = "wrap"
    BY StatuteAssumption
    DEF Node, Nodes, Elements, Opened, Dates
  <2> HIDE DEF W
  <2>2. /\ all \in Seq(Nodes) /\ Len(all) = m + 1 /\ all[1] = W
        /\ \A i \in 1..m : all[i + 1] = chain[i]
    BY <2>1, <1>1
  <2>3. Adds(all, kept)
    BY <1>1, <1>2 DEF Made, Adds, W
  <2>4. kept \in 0..Len(all) /\ Len(all) >= 1
    BY <2>2, <1>1
  <2> HIDE DEF all, kept
  <2>5. /\ \A k \in DOMAIN nodes : k \in DOMAIN nodes' /\ nodes'[k] = nodes[k]
        /\ \A k \in DOMAIN nodes' :
             \/ k \in DOMAIN nodes
             \/ \E i \in 1..Len(all) : /\ nodes'[k].kind = all[i].kind
                                       /\ nodes'[k].own = all[i].own
        /\ \A i \in 1..Len(all) :
             \E k \in DOMAIN nodes' : /\ nodes'[k].kind = all[i].kind
                                      /\ nodes'[k].own = all[i].own
    BY <2>2, <2>3, <2>4, AddsHas
  <2> HIDE DEF m
  <2>6. ASSUME NEW i \in 1..Len(all)
        PROVE  i = 1 \/ \E j \in 1..m : all[i] = chain[j]
    <3>1. CASE i # 1
      <4>1. i - 1 \in 1..m /\ (i - 1) + 1 = i
        BY <1>1, <2>2, <3>1
      <4> QED BY <2>2, <4>1
    <3> QED BY <3>1
  <2>7. ASSUME NEW i \in 1..m PROVE \E j \in 1..Len(all) : all[j] = chain[i]
    <3>1. i + 1 \in 1..Len(all)
      BY <1>1, <2>2
    <3> QED BY <2>2, <3>1
  <2>8. ASSUME NEW k \in DOMAIN nodes'
        PROVE  \/ k \in DOMAIN nodes \/ nodes'[k].kind = "wrap"
               \/ \E i \in 1..m : /\ nodes'[k].kind = chain[i].kind
                                  /\ nodes'[k].own = chain[i].own
    <3>1. CASE k \notin DOMAIN nodes
      <4>1. PICK i \in 1..Len(all) : /\ nodes'[k].kind = all[i].kind
                                     /\ nodes'[k].own = all[i].own
        BY <2>5, <3>1
      <4> QED BY <2>1, <2>2, <2>6, <4>1
    <3> QED BY <3>1
  <2>9. ASSUME NEW i \in 1..m
        PROVE  \E k \in DOMAIN nodes' : /\ nodes'[k].kind = chain[i].kind
                                        /\ nodes'[k].own = chain[i].own
    <3>1. PICK j \in 1..Len(all) : all[j] = chain[i]
      BY <2>7
    <3> QED BY <2>5, <3>1
  <2> QED BY <1>1, <2>5, <2>8, <2>9 DEF m
<1>3. CASE ~ (Within = "obs" /\ chain[1].kind # "ob")
  <2> DEFINE kept == Kept(chain, opened)
  <2>1. Adds(chain, kept)
    BY <1>1, <1>3 DEF Made, Adds, Kept
  <2>2. kept \in 0..Len(chain)
    BY <1>1 DEF Kept
  <2> HIDE DEF kept
  <2> QED BY <1>1, <2>1, <2>2, AddsHas
<1> QED BY <1>2, <1>3

(* A chain is made of a line: a chapter of a chapter's, and no table.      *)
LEMMA ChapteredMade ==
  ASSUME Reading, Tree, Frames, Chaptered, Parsing, pos' \in {pos, pos + 1},
         NEW chain \in Seq(Nodes), Len(chain) >= 1,
         NEW opened \in BOOLEAN, Made(chain, opened),
         \A i \in 1..Len(chain) :
           /\ chain[i].kind # "tab"
           /\ chain[i].kind = "kap" => chain[i].own \subseteq Chapters,
         pos \in Chapters /\ pos' = pos + 1
           => \E i \in 1..Len(chain) :
                chain[i].kind = "kap" /\ pos \in chain[i].own
  PROVE  Chaptered'
<1>1. /\ doc' = doc /\ status' = status
      /\ \A k \in DOMAIN nodes : k \in DOMAIN nodes' /\ nodes'[k] = nodes[k]
      /\ \A k \in DOMAIN nodes' :
           \/ k \in DOMAIN nodes \/ nodes'[k].kind = "wrap"
           \/ \E i \in 1..Len(chain) : /\ nodes'[k].kind = chain[i].kind
                                       /\ nodes'[k].own = chain[i].own
      /\ \A i \in 1..Len(chain) :
           \E k \in DOMAIN nodes' : /\ nodes'[k].kind = chain[i].kind
                                    /\ nodes'[k].own = chain[i].own
  BY MadeHas
<1>2. Chapters' = Chapters
  BY <1>1, TextStays
<1>3. ASSUME NEW k \in DOMAIN nodes'
      PROVE  /\ nodes'[k].kind # "tab"
             /\ nodes'[k].kind = "kap" => nodes'[k].own \subseteq Chapters
  BY <1>1 DEF Chaptered
<1>4. ASSUME NEW i \in Chapters, i < pos'
      PROVE  \E k \in DOMAIN nodes' :
               nodes'[k].kind = "kap" /\ i \in nodes'[k].own
  <2>1. CASE i < pos
    BY <1>1, <2>1 DEF Chaptered
  <2>2. CASE ~ (i < pos)
    <3>1. i \in Nat /\ pos \in Nat
      BY DocIs DEF Reading, Chapters
    <3>2. i = pos /\ pos' = pos + 1
      BY <1>4, <2>2, <3>1
    <3> QED BY <1>1, <1>4, <3>2
  <2> QED BY <2>1, <2>2
<1> QED BY <1>1, <1>2, <1>3, <1>4 DEF Chaptered, Parsing

(* The same of what leaves the elements as they are, but for what they     *)
(* hold.                                                                   *)
LEMMA ChapteredKept ==
  ASSUME Reading, Chaptered, Parsing, doc' = doc, pos' \in {pos, pos + 1},
         Parsing', DOMAIN nodes' = DOMAIN nodes,
         \A k \in DOMAIN nodes :
           /\ nodes'[k].kind = nodes[k].kind
           /\ nodes[k].kind = "kap" => nodes'[k].own = nodes[k].own,
         pos' = pos \/ pos \notin Chapters
  PROVE  Chaptered'
<1>1. Chapters' = Chapters
  BY TextStays
<1>2. \A i \in Chapters : i < pos' => i < pos
  <2>1. \A i \in Chapters : i \in Nat
    BY DocIs DEF Chapters
  <2>2. pos \in Nat
    BY DEF Reading
  <2> QED BY <2>1, <2>2
<1> QED BY <1>1, <1>2 DEF Chaptered

(* An action that makes one element of n lines.                            *)
LEMMA FoundOne ==
  ASSUME Reading, Tree, Frames, Found, Parsing,
         NEW h, Turn(h), NEW e \in Nodes, pos' \in {pos, pos + 1},
         e.kind # "tab", e.own = pos..(pos' - 1), e.kind = "kap" <=> h = "kap",
         h = "kap" => pos' = pos + 1, h # "par",
         NEW opened \in BOOLEAN, Made(<<e>>, opened),
         state' \in States,
         state'.chapter = IF h = "kap" THEN doc[pos].no ELSE state.chapter,
         state'.section =
           IF pos' = pos THEN state.section
           ELSE IF h = "kap" THEN 0
           ELSE IF h \in {"par", "upphpar"} THEN doc[pos].no
           ELSE state.section,
         state'.fake = IF h = "kap" THEN 0 ELSE Remembered.fake
  PROVE  Found'
<1> DEFINE chain == <<e>>
<1>1. chain \in Seq(Nodes) /\ Len(chain) = 1 /\ chain[1] = e
  OBVIOUS
<1>2. Made(chain, opened)
  OBVIOUS
<1> HIDE DEF chain
<1>3. doc' = doc
  BY <1>2 DEF Made, rest
<1>4. /\ pos \in DOMAIN doc /\ pos \in Nat /\ ~ eof(pos) /\ state \in States
  BY DocIs, InDoc DEF Turn, Found
<1>5. ASSUME NEW r \in DOMAIN doc, NEW l \in DOMAIN doc, Listed(r, l)
      PROVE  Chaptered' /\ Counted(r, l)'
  <2>1. Chaptered /\ Counted(r, l)
    BY <1>5 DEF Found
  <2>2. pos \in Chapters <=> h = "kap"
    BY <1>4, <1>5, <2>1, HandlerIs, KapitelIs, PremisesAre
  <2>3. Chaptered'
    <3>1. pos' = pos + 1 => e.own = {pos}
      BY <1>4
    <3>2. /\ e.kind = "kap" => e.own \subseteq Chapters
          /\ pos \in Chapters => e.kind = "kap" /\ pos \in e.own
      BY <2>2, <3>1
    <3>3. \A i \in 1..Len(chain) :
            /\ chain[i].kind # "tab"
            /\ chain[i].kind = "kap" => chain[i].own \subseteq Chapters
      <4>1. \A i \in 1..Len(chain) : i = 1
        BY <1>1
      <4>2. e.kind # "tab"
        OBVIOUS
      <4> QED BY <1>1, <3>2, <4>1, <4>2
    <3>4. pos \in Chapters /\ pos' = pos + 1
          => \E i \in 1..Len(chain) :
               chain[i].kind = "kap" /\ pos \in chain[i].own
      <4>1. 1 \in 1..Len(chain)
        BY <1>1
      <4> QED BY <1>1, <3>2, <4>1
    <3>5. Len(chain) >= 1
      BY <1>1
    <3> QED BY <1>1, <1>2, <1>4, <2>1, <3>3, <3>4, <3>5, ChapteredMade
  <2>4. Counted(r, l)'
    BY <1>3, <1>4, <1>5, <2>1, CountedNext
  <2> QED BY <2>3, <2>4
<1> QED BY <1>3, <1>5, TextStays DEF Found

(* An action that makes none.                                              *)
LEMMA FoundNone ==
  ASSUME Reading, Tree, Found, Parsing, Parsing', doc' = doc,
         NEW h, Turn(h), h \notin {"kap", "par", "upphpar"} \/ pos' = pos,
         pos' \in {pos, pos + 1}, state' = Remembered,
         DOMAIN nodes' = DOMAIN nodes,
         \A k \in DOMAIN nodes :
           /\ nodes'[k].kind = nodes[k].kind
           /\ nodes[k].kind = "kap" => nodes'[k].own = nodes[k].own
  PROVE  Found'
<1>1. pos \in DOMAIN doc /\ pos \in Nat /\ ~ eof(pos) /\ state \in States
  BY DocIs, InDoc DEF Turn, Found
<1>2. /\ state' \in States /\ state'.chapter = state.chapter
      /\ state'.section = state.section /\ state'.fake = Remembered.fake
  BY <1>1, RememberedIs
<1>3. ASSUME NEW r \in DOMAIN doc, NEW l \in DOMAIN doc, Listed(r, l)
      PROVE  Chaptered' /\ Counted(r, l)'
  <2>1. Chaptered /\ Counted(r, l)
    BY <1>3 DEF Found
  <2>2. pos \in Chapters <=> h = "kap"
    BY <1>1, <1>3, <2>1, HandlerIs, KapitelIs, PremisesAre
  <2>3. Chaptered'
    BY <2>1, <2>2, ChapteredKept
  <2>4. Counted(r, l)'
    <3>1. pos' # pos => h \notin {"kap", "par", "upphpar"}
      OBVIOUS
    <3> QED BY <1>1, <1>2, <1>3, <2>1, <3>1, CountedNext
  <2> QED BY <2>3, <2>4
<1> QED BY <1>2, <1>3, TextStays DEF Found

(* Every step keeps the invariant.                                         *)
LEMMA FoundStep ==
  ASSUME IInv, Found, [Next]_vars
  PROVE  Found'
<1> USE DEF IInv
<1>0. state \in States
  BY DEF Found
<1>1. CASE Return
  <2>1. PICK h \in Handlers : Turn(h)
    BY <1>1 DEF Return
  <2>2. /\ UNCHANGED <<doc, pos, nodes, status>> /\ state' = Remembered
        /\ Parsing /\ Parsing'
    BY <1>1, <2>1 DEF Return, rest, Turn, Parsing
  <2> QED BY <2>1, <2>2, FoundNone
<1>2. CASE Listelement
  <2>1. PICK h \in Lists : Makes(h) /\ Within = h
    BY <1>2 DEF Listelement
  <2>2. /\ UNCHANGED <<doc, status>> /\ state' = Remembered /\ pos' = pos + 1
        /\ Parsing /\ Parsing' /\ Turn(h)
        /\ nodes' = [nodes EXCEPT ![Top].own = @ \cup {pos}]
    BY <1>2, <2>1 DEF Listelement, rest, Makes, Turn, Parsing
  <2>3. /\ DOMAIN nodes' = DOMAIN nodes
        /\ \A k \in DOMAIN nodes :
             /\ nodes'[k].kind = nodes[k].kind
             /\ nodes[k].kind = "kap" => nodes'[k].own = nodes[k].own
    <3>1. nodes[Top].kind # "kap" /\ \A k \in DOMAIN nodes : nodes[k] \in Nodes
      BY <2>1 DEF Within, Lists, Tree
    <3>2. DOMAIN nodes' = DOMAIN nodes
      BY <2>2
    <3>3. \A k \in DOMAIN nodes : k # Top => nodes'[k] = nodes[k]
      BY <2>2
    <3>4. Top \in DOMAIN nodes => nodes'[Top].kind = nodes[Top].kind
      BY <2>2, <3>1 DEF Nodes
    <3> QED BY <3>1, <3>2, <3>3, <3>4
  <2>4. h \notin {"kap", "par", "upphpar"}
    BY DEF Lists
  <2> QED BY <2>2, <2>3, <2>4, FoundNone
<1>3. CASE \/ makeUnderavdelning \/ makeUpphavtKapitel \/ makeStycke
           \/ makeBilaga \/ makeOvergangsbestammelser
           \/ makeOvergangsbestammelse
  <2>1. PICK h \in {"uavd", "upphkap", "stycke", "bil", "obs", "ob"},
             opened \in BOOLEAN :
          /\ Makes(h) /\ Made(<<Element(h, 1)>>, opened) /\ pos' = pos + 1
          /\ state' = Remembered
    BY <1>3
    DEF makeUnderavdelning, makeUpphavtKapitel, makeStycke, makeBilaga,
        makeOvergangsbestammelser, makeOvergangsbestammelse
  <2> DEFINE e == Element(h, 1)
  <2>2. /\ Turn(h) /\ Parsing /\ ~ eof(pos) /\ h \in Elements
        /\ pos + 1 <= Len(doc) + 1
    BY <2>1, InDoc, HandlersAre, HandlersAreElements DEF Makes, Turn
  <2>3. e \in Nodes /\ e.kind = h
    BY <2>2, ElementIs
  <2>4. e.own = pos..(pos' - 1) /\ pos' # pos
    <3>1. e.own = pos..(pos + 1 - 1)
      BY DEF Element, Node
    <3> HIDE DEF e
    <3> QED BY <2>1, <2>2, <3>1, InDoc
  <2> HIDE DEF e
  <2>5. Made(<<e>>, opened)
    BY <2>1 DEF e
  <2>6. /\ state' \in States /\ state'.chapter = state.chapter
        /\ state'.section = state.section /\ state'.fake = Remembered.fake
    BY <1>0, <2>1, <2>2, RememberedIs
  <2> QED BY <2>1, <2>2, <2>3, <2>4, <2>5, <2>6, FoundOne
<1>4. CASE makeLista \/ RubrikSaknas
  <2>1. PICK h \in Lists \cup {"ob"}, kind \in Lists \cup {"obs"} :
          /\ Makes(h) /\ Made(<<Element(kind, 0)>>, TRUE) /\ pos' = pos
          /\ state' = Remembered
    BY <1>4 DEF makeLista, RubrikSaknas
  <2> DEFINE e == Element(kind, 0)
  <2>2. /\ Turn(h) /\ Parsing /\ ~ eof(pos) /\ kind \in Elements
        /\ pos + 0 <= Len(doc) + 1 /\ pos \in Nat
    BY <2>1, InDoc, HandlersAre, HandlersAreElements
    DEF Makes, Turn, Lists
  <2>3. e \in Nodes /\ e.kind = kind
    BY <2>2, ElementIs
  <2>4. e.own = pos..(pos' - 1)
    BY <2>1, <2>2 DEF Element, Node
  <2> HIDE DEF e
  <2>5. Made(<<e>>, TRUE)
    BY <2>1 DEF e
  <2>6. /\ state' \in States /\ state'.chapter = state.chapter
        /\ state'.section = state.section /\ state'.fake = Remembered.fake
    BY <1>0, <2>1, <2>2, RememberedIs
  <2>7. /\ e.kind \notin {"tab", "kap"} /\ h \notin {"kap", "par"}
        /\ pos' = pos
    BY <2>1, <2>2, <2>3 DEF Lists
  <2> QED BY <2>2, <2>3, <2>4, <2>5, <2>6, <2>7, FoundOne
<1>5. CASE makeKapitel
  <2> DEFINE e == Element("kap", 1)
  <2>1. /\ Makes("kap") /\ Made(<<e>>, TRUE) /\ pos' = pos + 1
        /\ state' = [Remembered EXCEPT !.level = 0, !.section = 0,
                                       !.fake = 0, !.chapter = doc[pos].no]
    BY <1>5 DEF makeKapitel
  <2>2. /\ Turn("kap") /\ Parsing /\ ~ eof(pos) /\ "kap" \in Elements
        /\ pos + 1 <= Len(doc) + 1 /\ doc[pos].no \in Nat
    BY <2>1, InDoc, DocIs, HandlersAre, HandlersAreElements DEF Makes, Turn
  <2>3. e \in Nodes /\ e.kind = "kap"
    BY <2>2, ElementIs
  <2>4. e.own = pos..(pos' - 1) /\ pos' # pos
    <3>1. e.own = pos..(pos + 1 - 1)
      BY DEF Element, Node
    <3> HIDE DEF e
    <3> QED BY <2>1, <2>2, <3>1, InDoc
  <2> HIDE DEF e
  <2>5. /\ state' \in States /\ state'.chapter = doc[pos].no
        /\ state'.section = 0 /\ state'.fake = 0
    BY <1>0, <2>1, <2>2, RememberedIs DEF States
  <2> QED BY <2>1, <2>2, <2>3, <2>4, <2>5, FoundOne
<1>6. CASE makeUpphavdParagraf
  <2> DEFINE e == Element("upphpar", 1)
  <2>1. /\ Makes("upphpar") /\ Made(<<e>>, FALSE) /\ pos' = pos + 1
        /\ state' = [Remembered EXCEPT !.section = doc[pos].no]
    BY <1>6 DEF makeUpphavdParagraf
  <2>2. /\ Turn("upphpar") /\ Parsing /\ ~ eof(pos) /\ "upphpar" \in Elements
        /\ pos + 1 <= Len(doc) + 1 /\ doc[pos].no \in Nat
    BY <2>1, InDoc, DocIs, HandlersAre, HandlersAreElements DEF Makes, Turn
  <2>3. e \in Nodes /\ e.kind = "upphpar"
    BY <2>2, ElementIs
  <2>4. e.own = pos..(pos' - 1) /\ pos' # pos
    <3>1. e.own = pos..(pos + 1 - 1)
      BY DEF Element, Node
    <3> HIDE DEF e
    <3> QED BY <2>1, <2>2, <3>1, InDoc
  <2> HIDE DEF e
  <2>5. /\ state' \in States /\ state'.chapter = state.chapter
        /\ state'.section = doc[pos].no /\ state'.fake = Remembered.fake
    BY <1>0, <2>1, <2>2, RememberedIs DEF States
  <2> QED BY <2>1, <2>2, <2>3, <2>4, <2>5, FoundOne
<1>7. CASE makeRubrik
  <2> DEFINE level == IF Remembered.level = 2 THEN 2 ELSE 1
             e == [Element("rub", 1) EXCEPT !.no = level]
  <2>1. /\ Makes("rub") /\ Made(<<e>>, FALSE) /\ pos' = pos + 1
        /\ state' = [Remembered EXCEPT !.level = IF @ = 1 THEN 2 ELSE @]
    BY <1>7 DEF makeRubrik
  <2>2. /\ Turn("rub") /\ Parsing /\ ~ eof(pos) /\ "rub" \in Elements
        /\ pos + 1 <= Len(doc) + 1
    BY <2>1, InDoc, HandlersAre, HandlersAreElements DEF Makes, Turn
  <2>3. Element("rub", 1) \in Nodes /\ Element("rub", 1).kind = "rub"
    BY <2>2, ElementIs
  <2>4. Element("rub", 1).own = pos..(pos' - 1)
    <3>1. Element("rub", 1).own = pos..(pos + 1 - 1)
      BY DEF Element, Node
    <3> QED BY <2>1, <2>2, <3>1, InDoc
  <2>5. e \in Nodes /\ e.kind = "rub" /\ e.own = pos..(pos' - 1)
    <3>1. level \in Nat
      OBVIOUS
    <3> HIDE DEF level
    <3> QED BY <2>3, <2>4, <3>1 DEF Nodes
  <2> HIDE DEF e
  <2>6. /\ state' \in States /\ state'.chapter = state.chapter
        /\ state'.section = state.section /\ state'.fake = Remembered.fake
    BY <1>0, <2>1, <2>2, RememberedIs DEF States
  <2> QED BY <2>1, <2>2, <2>5, <2>6, FoundOne
<1>8. CASE makeParagraf
  <2> DEFINE chain == <<Element("par", 0), Element("stycke", 1)>>
  <2>1. /\ Makes("par") /\ Made(chain, TRUE) /\ pos' = pos + 1
        /\ state' = [Remembered EXCEPT
                       !.section = doc[pos].no,
                       !.fake = IF ContentsAgain THEN 0 ELSE @]
    BY <1>8 DEF makeParagraf
  <2>2. /\ Turn("par") /\ Parsing /\ ~ eof(pos) /\ pos + 0 <= Len(doc) + 1
        /\ pos + 1 <= Len(doc) + 1 /\ doc[pos].no \in Nat /\ pos \in Nat
    BY <2>1, InDoc, DocIs DEF Makes, Turn
  <2>3. /\ Element("par", 0) \in Nodes /\ Element("par", 0).kind = "par"
        /\ Element("stycke", 1) \in Nodes
        /\ Element("stycke", 1).kind = "stycke"
    BY <2>2, ElementIs DEF Elements, Opened, Loops
  <2>4. /\ chain \in Seq(Nodes) /\ Len(chain) = 2
        /\ \A i \in 1..Len(chain) : chain[i].kind \notin {"tab", "kap"}
    BY <2>3
  <2> HIDE DEF chain
  <2>5. doc' = doc
    BY <2>1 DEF Made, rest
  <2>6. /\ state' \in States /\ state'.chapter = state.chapter
        /\ state'.section = doc[pos].no
        /\ state'.fake = IF ContentsAgain THEN 0 ELSE Remembered.fake
    BY <1>0, <2>1, <2>2, RememberedIs DEF States
  <2>7. ASSUME NEW r \in DOMAIN doc, NEW l \in DOMAIN doc, Listed(r, l)
        PROVE  Chaptered' /\ Counted(r, l)'
    <3>1. Chaptered /\ Counted(r, l)
      BY <2>7 DEF Found
    <3>2. pos \notin Chapters
      BY <2>2, <2>7, HandlerIs, PremisesAre
    <3>3. Chaptered'
      <4>1. /\ Len(chain) >= 1 /\ pos' \in {pos, pos + 1} /\ TRUE \in BOOLEAN
            /\ \A i \in 1..Len(chain) :
                 /\ chain[i].kind # "tab"
                 /\ chain[i].kind = "kap" => chain[i].own \subseteq Chapters
        BY <2>1, <2>4
      <4> QED BY <2>1, <2>2, <2>4, <3>1, <3>2, <4>1, ChapteredMade
    <3>4. pos' # pos
      BY <2>1, <2>2
    <3>5. Counted(r, l)'
      BY <1>0, <2>1, <2>2, <2>5, <2>6, <2>7, <3>1, <3>4, CountedNext
    <3> QED BY <3>3, <3>5
  <2> QED BY <2>5, <2>6, <2>7, TextStays DEF Found
<1>9. CASE InnerReturn \/ EndOfText \/ construct_id \/ postprocess_doc
           \/ UNCHANGED vars
  <2>1. UNCHANGED <<doc, pos, nodes, state>>
    BY <1>9 DEF InnerReturn, EndOfText, construct_id, postprocess_doc, vars,
                rest
  <2>2. Parsing' \/ eof(pos) \/ ~ Parsing
    BY <1>9 DEF InnerReturn, EndOfText, construct_id, postprocess_doc, vars,
                rest, Parsing
  <2>3. eof(pos)' <=> eof(pos)
    BY <2>1 DEF eof
  <2>4. ASSUME NEW r \in DOMAIN doc, NEW l \in DOMAIN doc, Listed(r, l)
        PROVE  Chaptered' /\ Counted(r, l)'
    <3>1. Chaptered /\ Counted(r, l)
      BY <2>4 DEF Found
    <3>2. Chaptered'
      BY <2>1, <2>2, <2>3, <3>1, TextStays DEF Chaptered
    <3>3. Counted(r, l)'
      BY <2>1, <3>1, TextStays DEF Counted
    <3> QED BY <3>2, <3>3
  <2> QED BY <1>0, <2>1, <2>4, TextStays DEF Found
<1>10. CASE makeAvdelning \/ makeTabell \/ Tabellrad
  <2>1. UNCHANGED doc /\ state' \in States
    <3>1. CASE makeAvdelning \/ makeTabell
      <4>1. PICK h : Turn(h)
        BY <3>1 DEF makeAvdelning, makeTabell, Makes
      <4>2. Remembered \in States /\ doc[pos].no \in Nat
        BY <1>0, <4>1, RememberedIs, InDoc, DocIs DEF Turn
      <4>3. UNCHANGED doc
        BY <3>1 DEF makeAvdelning, makeTabell, Made, rest
      <4>4. \/ state' = Remembered
            \/ state' = [Remembered EXCEPT !.avdelning = doc[pos].no]
        BY <3>1 DEF makeAvdelning, makeTabell
      <4> QED BY <4>2, <4>3, <4>4 DEF States
    <3>2. CASE Tabellrad
      BY <1>0, <3>2 DEF Tabellrad, rest
    <3> QED BY <1>10, <3>1, <3>2
  <2>2. ASSUME NEW r \in DOMAIN doc, NEW l \in DOMAIN doc, Listed(r, l)
        PROVE  FALSE
    <3>1. Chaptered
      BY <2>2 DEF Found
    <3>2. CASE makeAvdelning \/ makeTabell
      <4>1. PICK h \in {"avd", "tab"} : Turn(h)
        BY <3>2 DEF makeAvdelning, makeTabell, Makes
      <4>2. Look(pos) = h /\ pos \in DOMAIN doc
        BY <4>1, HandlerIs, InDoc, DocIs DEF Turn
      <4> QED BY <2>2, <4>1, <4>2, PremisesAre
    <3>3. CASE Tabellrad
      <4>1. nodes[Top].kind = "tab"
        BY <3>3 DEF Tabellrad, Within
      <4>2. Top \in DOMAIN nodes
        BY TopIs DEF Tree
      <4> QED BY <3>1, <4>1, <4>2 DEF Chaptered
    <3> QED BY <1>10, <3>2, <3>3
  <2> QED BY <2>1, <2>2, TextStays DEF Found
<1> QED BY <1>1, <1>2, <1>3, <1>4, <1>5, <1>6, <1>7, <1>8, <1>9, <1>10
        DEF Next

(* It holds before the first line is read: one that the statute's own date *)
(* is on is none of the table's first chapter.                             *)
LEMMA FoundInit == ASSUME Init PROVE Found
<1>1. /\ state = [avdelning |-> 0, chapter |-> 0, section |-> 0, fake |-> 0,
                  level |-> 0]
      /\ status = "parsing"
      /\ pos = IF ikrafttrader(doc[1]) THEN 2 ELSE 1
      /\ nodes = <<Node("root", 0, 0, IF pos = 2 THEN {1} ELSE {}, "none")>>
  BY DEF Init, makeForfattning, make_parser
<1>2. IInv
  BY InitIInv
<1>3. state \in States
  BY <1>1 DEF States
<1>4. ASSUME NEW r \in DOMAIN doc, NEW l \in DOMAIN doc, Listed(r, l)
      PROVE  Chaptered /\ Counted(r, l)
  <2>1. /\ DOMAIN doc = 1..Len(doc) /\ Len(doc) \in Nat
        /\ \A j \in Chapters : j \in DOMAIN doc /\ r <= j
        /\ r = 1 => ~ ikrafttrader(doc[r])
    BY <1>2, <1>4, DocIs, PremisesAre DEF IInv
  <2>2. pos <= r
    BY <1>1, <2>1
  <2>3. \A j \in Chapters : ~ (j < pos)
    BY <1>1, <2>1, <2>2
  <2>4. \A k \in DOMAIN nodes : nodes[k].kind = "root"
    BY <1>1 DEF Node
  <2>5. Chaptered
    BY <1>1, <2>3, <2>4 DEF Chaptered, Parsing
  <2>6. Counted(r, l)
    BY <1>1, <2>1, <2>2 DEF Counted
  <2> QED BY <2>5, <2>6
<1> QED BY <1>3, <1>4 DEF Found

(* Whatever the statute: when its first section lists the chapters and the *)
(* list can be told from them, each chapter is found and no line of the    *)
(* list is taken for one, in any number of wordings (isKapitel and what    *)
(* makeKapitel and makeParagraf forget of the list).                       *)
THEOREM ContentsApart == Spec => []ChaptersFound
<1>1. ASSUME IInv, Found PROVE ChaptersFound
  <2>1. SUFFICES ASSUME Done, NEW r \in DOMAIN doc, NEW l \in DOMAIN doc,
                        Listed(r, l)
                 PROVE  UNION {nodes[k].own : k \in
                          {j \in DOMAIN nodes : nodes[j].kind = "kap"}}
                        = Chapters
    BY DEF ChaptersFound, Listed
  <2>2. Chaptered /\ eof(pos)
    BY <1>1, <2>1 DEF Found, Chaptered, Done, Parsing
  <2>3. \A i \in Chapters : i < pos
    <3>1. Chapters \subseteq 1..Len(doc) /\ pos \in Nat /\ Len(doc) \in Nat
      BY <1>1, DocIs DEF IInv, Reading, Chapters
    <3>2. pos > Len(doc)
      BY <2>2 DEF eof
    <3> QED BY <3>1, <3>2
  <2> QED BY <2>2, <2>3 DEF Chaptered
<1>2. IInv /\ Found /\ [Next]_vars => Found'
  BY FoundStep
<1> QED BY <1>1, <1>2, FoundInit, Invariant, PTL DEF Spec

-----------------------------------------------------------------------------
(* The assertion in makeParagraf.                                          *)

(* "guess_state returned %s, not makeStycke": what comes after a paragraph *)
(* of a section with its lists and tables ends the section or is one more  *)
(* paragraph.                                                              *)
AssertionHolds ==
  Parsing /\ Within = "par" /\ ~eof(pos)
  => Handler \in Ends["par"] \cup {"stycke"}

(* The inductive invariant: what is made in a section is a paragraph, and  *)
(* a section goes on only where that has ended, at no list and no table.   *)
Asserted ==
  /\ \A i \in 1..(Len(frames) - 1) :
       nodes[frames[i]].kind = "par" => nodes[frames[i + 1]].kind = "stycke"
  /\ Parsing /\ Within = "par"
     => eof(pos) \/ Look(pos) \notin Lists \cup {"tab"}

(* Lists and tables are known by their look alone.                         *)
LEMMA ListGuessed ==
  ASSUME ~ eof(pos)
  PROVE  guess_state \in Lists \cup {"tab"}
         <=> Look(pos) \in Lists \cup {"tab"}
<1>1. \A h \in Lists \cup {"tab"} : Recognized(h) <=> Look(pos) = h
  BY DEF Recognized, Lists, isTabell
<1>2. guess_state \in Lists \cup {"tab"} => Look(pos) = guess_state
  <2>1. guess_state # "stycke" => Recognized(guess_state)
    BY GuessIs
  <2> QED BY <1>1, <2>1 DEF Lists
<1>3. ASSUME Look(pos) \in Lists \cup {"tab"}
      PROVE  guess_state \in Lists \cup {"tab"}
  <2>1. PICK i \in {7, 11, 12, 13} : Recognizers[i] = Look(pos)
    BY <1>3 DEF Recognizers, Lists
  <2>2. Recognized(Recognizers[i])
    BY <1>1, <1>3, <2>1
  <2>3. PICK j \in 1..i : guess_state = Recognizers[j]
    BY <2>2, GuessIs
  <2>4. \A k \in 1..13 : Recognizers[k] \in Handlers \ {"rub", "stycke"}
    BY HandlersAre DEF Recognizers
  <2>5. guess_state \in Handlers \ {"rub", "stycke"} /\ Recognized(guess_state)
    BY <2>3, <2>4, GuessIs
  <2>6. /\ ~ isAvdelning /\ ~ isKapitel(pos) /\ ~ isParagraf(pos)
        /\ ~ isOvergangsbestammelser
    BY <1>3
    DEF isAvdelning, isKapitel, idOfKapitel, isParagraf,
        isOvergangsbestammelser, Lists
  <2>7. guess_state \notin {"avd", "kap", "par", "obs"}
    BY <2>5, <2>6 DEF Recognized
  <2>8. CASE guess_state = "tab"
    BY <2>8
  <2>9. CASE guess_state # "tab"
    <3>1. Look(pos) = guess_state
      BY <2>5, <2>7, <2>9 DEF Recognized
    <3> QED BY <1>3, <3>1
  <2> QED BY <2>8, <2>9
<1> QED BY <1>2, <1>3

(* A chain in which a section is followed by a paragraph is added where a  *)
(* paragraph is all that is made in a section.                             *)
LEMMA AssertedAdds ==
  ASSUME Tree, Frames, Asserted,
         NEW all \in Seq(Nodes), Len(all) >= 1, NEW kept \in 0..Len(all),
         Adds(all, kept), status' = status,
         Within = "par" => kept >= 1 /\ all[1].kind = "stycke",
         \A i \in 1..(kept - 1) :
           all[i].kind = "par" => all[i + 1].kind = "stycke",
         kept >= 1 => all[kept].kind # "par"
  PROVE  Asserted'
<1> DEFINE n == Len(nodes)
           m == Len(all)
           l == Len(frames)
<1>1. /\ n \in Nat \ {0} /\ m \in Nat \ {0} /\ l \in Nat \ {0}
      /\ \A k \in 1..n : nodes'[k] = nodes[k]
      /\ \A i \in 1..m : nodes'[n + i].kind = all[i].kind
      /\ Len(frames') = l + kept
      /\ \A i \in 1..l : frames'[i] = frames[i]
      /\ \A i \in 1..kept : frames'[l + i] = n + i
  BY Appended
<1>2. \A i \in 1..l : frames[i] \in 1..n
  BY DEF Frames
<1>3. Within = nodes[frames[l]].kind /\ l = Len(frames)
  BY DEF Within, Top
<1> HIDE DEF n, m, l
<1>4. \A i \in 1..l : nodes'[frames'[i]] = nodes[frames[i]]
  BY <1>1, <1>2
<1>5. \A i \in 1..kept : nodes'[frames'[l + i]].kind = all[i].kind
  <2>1. \A i \in 1..kept : i \in 1..m
    BY <1>1 DEF m
  <2> QED BY <1>1, <2>1
<1>6. ASSUME NEW i \in 1..(l + kept - 1), nodes'[frames'[i]].kind = "par"
      PROVE  nodes'[frames'[i + 1]].kind = "stycke"
  <2>1. CASE i \in 1..(l - 1)
    <3>1. i \in 1..l /\ i + 1 \in 1..l
      BY <1>1, <2>1
    <3>2. nodes[frames[i]].kind = "par" => nodes[frames[i + 1]].kind = "stycke"
      BY <1>3, <2>1 DEF Asserted
    <3> QED BY <1>4, <1>6, <3>1, <3>2
  <2>2. CASE i = l
    <3>1. Within = "par"
      BY <1>1, <1>3, <1>4, <1>6, <2>2
    <3>2. 1 \in 1..kept /\ all[1].kind = "stycke"
      BY <3>1
    <3> QED BY <1>5, <2>2, <3>2
  <2>3. CASE i > l
    <3> DEFINE j == i - l
    <3>1. /\ j \in 1..(kept - 1) /\ j \in 1..kept /\ j + 1 \in 1..kept
          /\ i = l + j /\ i + 1 = l + (j + 1)
      BY <1>1, <2>3
    <3> HIDE DEF j
    <3>2. all[j].kind = "par" /\ nodes'[frames'[i + 1]].kind = all[j + 1].kind
      BY <1>5, <1>6, <3>1
    <3> QED BY <3>1, <3>2
  <2> QED BY <1>1, <2>1, <2>2, <2>3
<1>7. CASE kept = 0
  <2>1. Within' = Within /\ Within # "par"
    <3>1. Top' = frames'[l]
      BY <1>1, <1>7 DEF Top
    <3>2. Within' = nodes'[frames'[l]].kind
      BY <3>1 DEF Within
    <3> QED BY <1>1, <1>3, <1>4, <1>7, <3>2
  <2> QED BY <1>1, <1>6, <2>1 DEF Asserted
<1>8. CASE kept >= 1
  <2>1. Within' = nodes'[frames'[l + kept]].kind
    BY <1>1 DEF Within, Top
  <2>2. Within' # "par"
    BY <1>5, <1>8, <2>1
  <2> QED BY <1>1, <1>6, <2>2 DEF Asserted
<1> QED BY <1>7, <1>8

(* What the makeX functions make.                                          *)
Paragraphs(chain, opened) ==
  /\ Within = "par" => opened /\ chain[1].kind = "stycke"
  /\ \/ Len(chain) = 1 /\ (opened => chain[1].kind # "par")
     \/ Len(chain) = 2 /\ chain[2].kind = "stycke"

(* Such a chain, wrapped or not, keeps the invariant.                      *)
LEMMA AssertedMade ==
  ASSUME Tree, Frames, Asserted,
         NEW chain \in Seq(Nodes), NEW opened \in BOOLEAN,
         Made(chain, opened), Paragraphs(chain, opened)
  PROVE  Asserted'
<1> DEFINE W == Node("wrap", Basefile, 0, {}, "none")
           m == Len(chain)
<1>1. /\ m \in {1, 2} /\ DOMAIN chain = 1..m
      /\ doc' = doc /\ status' = status
  BY DEF Made, rest, Paragraphs
<1>2. CASE Within = "obs" /\ chain[1].kind # "ob"
  <2> DEFINE all == <<W>> \o chain
             kept == IF opened THEN Len(all) ELSE 1
  <2>1. W \in Nodes /\ W.kind = "wrap"
    BY StatuteAssumption
    DEF Node, Nodes, Elements, Opened, Dates
  <2> HIDE DEF W
  <2>2. /\ all \in Seq(Nodes) /\ Len(all) = m + 1 /\ all[1] = W
        /\ \A i \in 1..m : all[i + 1] = chain[i]
    BY <2>1, <1>1
  <2>3. Adds(all, kept)
    BY <1>1, <1>2 DEF Made, Adds, W
  <2>4. kept \in 0..Len(all) /\ Len(all) >= 1 /\ kept >= 1
    BY <2>2, <1>1
  <2>5. /\ all[2] = chain[1] /\ m = 2 => all[3] = chain[2]
    BY <2>2, <1>1
  <2>6. \A i \in 1..(kept - 1) :
          all[i].kind = "par" => all[i + 1].kind = "stycke"
    BY <2>1, <2>2, <2>5, <1>1 DEF Paragraphs
  <2>7. all[kept].kind # "par"
    BY <2>1, <2>2, <2>5, <1>1 DEF Paragraphs
  <2> HIDE DEF all, kept
  <2> QED BY <1>1, <1>2, <2>2, <2>3, <2>4, <2>6, <2>7, AssertedAdds
<1>3. CASE ~ (Within = "obs" /\ chain[1].kind # "ob")
  <2> DEFINE kept == Kept(chain, opened)
  <2>1. Adds(chain, kept)
    BY <1>1, <1>3 DEF Made, Adds, Kept
  <2>2. kept = IF opened THEN m ELSE 0
    BY DEF Kept
  <2>3. kept \in 0..m /\ m >= 1 /\ (kept >= 1 => opened /\ kept = m)
    BY <2>2, <1>1
  <2>4. m = 2 => chain[2].kind = "stycke"
    BY <1>1 DEF Paragraphs
  <2>5. m = 1 /\ opened => chain[1].kind # "par"
    BY <1>1 DEF Paragraphs
  <2>6. Within = "par" => opened /\ chain[1].kind = "stycke"
    BY DEF Paragraphs
  <2>7. m = Len(chain)
    OBVIOUS
  <2> HIDE DEF kept, m
  <2>8. \A i \in 1..(kept - 1) :
          chain[i].kind = "par" => chain[i + 1].kind = "stycke"
    <3>1. \A i \in 1..(kept - 1) : i = 1 /\ m = 2
      BY <2>3, <1>1
    <3> QED BY <3>1, <2>4
  <2>9. kept >= 1 => chain[kept].kind # "par"
    BY <2>3, <2>4, <2>5, <1>1
  <2>10. Within = "par" => kept >= 1 /\ chain[1].kind = "stycke"
    BY <2>2, <2>6, <1>1
  <2> QED BY <1>1, <2>1, <2>3, <2>7, <2>8, <2>9, <2>10, AssertedAdds
<1> QED BY <1>2, <1>3

(* The form most actions have.                                             *)
LEMMA AssertedOne ==
  ASSUME Reading, Tree, Frames, Asserted,
         NEW h, Makes(h), NEW kind \in Elements \ {"par"},
         NEW n \in 0..2, pos + n <= Len(doc) + 1, NEW opened \in BOOLEAN,
         h = "stycke" => kind = "stycke" /\ opened,
         Made(<<Element(kind, n)>>, opened)
  PROVE  Asserted'
<1> DEFINE e == Element(kind, n)
           chain == <<e>>
<1>1. ~ eof(pos) /\ (Within = "par" => h = "stycke")
  BY DEF Makes, Turn
<1>2. e \in Nodes /\ e.kind = kind
  BY <1>1, ElementIs
<1> HIDE DEF e
<1>3. chain \in Seq(Nodes) /\ Len(chain) = 1 /\ chain[1].kind = kind
  BY <1>2
<1>4. Made(chain, opened)
  BY DEF e
<1> HIDE DEF chain
<1>5. Paragraphs(chain, opened)
  BY <1>1, <1>3 DEF Paragraphs
<1> QED BY <1>3, <1>4, <1>5, AssertedMade

(* So does the end of an element, when a paragraph ends at no list.        *)
LEMMA AssertedPopped ==
  ASSUME Tree, Frames, Asserted, Within # "root",
         frames' = SubSeq(frames, 1, Len(frames) - 1),
         nodes' = nodes, doc' = doc, pos' = pos,
         Within = "stycke" => Look(pos) \notin Lists \cup {"tab"}
  PROVE  Asserted'
<1>1. Len(frames) \in Nat /\ Len(frames) >= 2
  BY DEF Tree, Frames, Within, Top
<1> DEFINE l == Len(frames) - 1
<1>2. /\ l \in Nat \ {0} /\ Len(frames') = l
      /\ \A i \in 1..l : frames'[i] = frames[i]
  BY <1>1 DEF Frames
<1>3. ASSUME Within' = "par" PROVE Look(pos) \notin Lists \cup {"tab"}
  <2>1. nodes[frames[l]].kind = "par"
    BY <1>2, <1>3 DEF Within, Top
  <2>2. l \in 1..(Len(frames) - 1) /\ l + 1 = Len(frames)
    BY <1>1
  <2>3. nodes[frames[Len(frames)]].kind = "stycke"
    BY <2>1, <2>2 DEF Asserted
  <2> QED BY <2>3 DEF Within, Top
<1>4. Look(pos)' = Look(pos)
  BY DEF Look, eof
<1>5. ASSUME NEW i \in 1..(l - 1), nodes[frames[i]].kind = "par"
      PROVE  nodes[frames[i + 1]].kind = "stycke"
  BY <1>1, <1>5 DEF Asserted
<1>6. \A i \in 1..(l - 1) : i \in 1..l /\ i + 1 \in 1..l
  BY <1>2
<1> HIDE DEF l
<1> QED BY <1>2, <1>3, <1>4, <1>5, <1>6 DEF Asserted

(* What leaves the elements being made as they are, other than sections.   *)
LEMMA AssertedStays ==
  ASSUME Tree, Frames, Asserted, frames' = frames, Within # "par",
         \A k \in DOMAIN nodes : nodes'[k].kind = nodes[k].kind
  PROVE  Asserted'
<1>1. \A i \in 1..Len(frames) : frames[i] \in DOMAIN nodes
  BY DEF Tree, Frames
<1>2. Len(frames) \in Nat \ {0}
  BY DEF Frames
<1>3. Within' = Within
  BY <1>1, <1>2 DEF Within, Top
<1>4. \A i \in 1..(Len(frames) - 1) : i \in 1..Len(frames)
                                     /\ i + 1 \in 1..Len(frames)
  BY <1>2
<1> QED BY <1>1, <1>3, <1>4 DEF Asserted

(* A line that is added to an element leaves what it is.                   *)
LEMMA OwnKeeps ==
  ASSUME NEW i,
         nodes' \in {nodes, [nodes EXCEPT ![Top].own = @ \cup {i}]}, Tree
  PROVE  \A k \in DOMAIN nodes : nodes'[k].kind = nodes[k].kind
<1>1. \A k \in DOMAIN nodes : nodes[k] \in Nodes
  BY DEF Tree
<1> QED BY <1>1 DEF Nodes

(* Every step keeps the invariant.                                         *)
LEMMA AssertedStep ==
  ASSUME Reading, Tree, Frames, Asserted, [Next]_vars
  PROVE  Asserted'
<1>1. CASE Return
  <2>1. PICK h \in Handlers : Turn(h) /\ h \in Ends[Within]
    BY <1>1 DEF Return
  <2>2. Within # "root" /\ ~ eof(pos)
    BY <2>1, EndsOf DEF Turn
  <2>3. Within = "stycke" => Look(pos) \notin Lists \cup {"tab"}
    <3>1. ASSUME Within = "stycke" PROVE guess_state \notin Lists \cup {"tab"}
      BY <2>1, <3>1, EndsOf DEF Turn, Handler, ItemFirst, Lists
    <3> QED BY <2>2, <3>1, ListGuessed
  <2> QED BY <1>1, <2>2, <2>3, AssertedPopped DEF Return, rest
<1>2. CASE InnerReturn
  <2>1. Within \notin {"root", "stycke"}
    BY <1>2 DEF InnerReturn
  <2> QED BY <1>2, <2>1, AssertedPopped DEF InnerReturn, rest
<1>3. CASE makeAvdelning
  <2> DEFINE label == /\ ~Marked(pos, "lines") /\ ~Marked(pos + 1, "long")
                      /\ ~isKapitel(pos + 1) /\ Look(pos + 1) # "uavd"
             n == IF label THEN 2 ELSE 1
  <2>1. Made(<<Element("avd", n)>>, TRUE)
    BY <1>3 DEF makeAvdelning
  <2>2. Makes("avd") /\ LinesFollow
    BY <1>3 DEF makeAvdelning
  <2>3. "avd" \in Elements \ {"par"} /\ "avd" # "stycke"
    BY DEF Elements, Opened, Loops
  <2>4. ~eof(pos)
    BY <2>2 DEF Makes, Turn
  <2>5. n \in 0..2 /\ pos + n <= Len(doc) + 1
    BY <2>2, <2>4, InDoc, LabelInDoc
  <2> HIDE DEF n
  <2> QED BY <2>1, <2>2, <2>3, <2>5, AssertedOne, Zenon
<1>4. CASE makeUnderavdelning
  <2>1. Makes("uavd") /\ Made(<<Element("uavd", 1)>>, TRUE)
    BY <1>4 DEF makeUnderavdelning
  <2>2. "uavd" \in Elements \ {"par"} /\ "uavd" # "stycke"
    BY DEF Elements, Opened, Loops
  <2>3. 1 \in 0..2 /\ pos + 1 <= Len(doc) + 1
    BY <2>1, InDoc DEF Makes, Turn
  <2> QED BY <2>1, <2>2, <2>3, AssertedOne, Zenon
<1>5. CASE makeUpphavtKapitel
  <2>1. Makes("upphkap") /\ Made(<<Element("upphkap", 1)>>, FALSE)
    BY <1>5 DEF makeUpphavtKapitel
  <2>2. "upphkap" \in Elements \ {"par"} /\ "upphkap" # "stycke"
    BY DEF Elements, Opened, Loops
  <2>3. 1 \in 0..2 /\ pos + 1 <= Len(doc) + 1
    BY <2>1, InDoc DEF Makes, Turn
  <2> QED BY <2>1, <2>2, <2>3, AssertedOne, Zenon
<1>6. CASE makeKapitel
  <2>1. Makes("kap") /\ Made(<<Element("kap", 1)>>, TRUE)
    BY <1>6 DEF makeKapitel
  <2>2. "kap" \in Elements \ {"par"} /\ "kap" # "stycke"
    BY DEF Elements, Opened, Loops
  <2>3. 1 \in 0..2 /\ pos + 1 <= Len(doc) + 1
    BY <2>1, InDoc DEF Makes, Turn
  <2> QED BY <2>1, <2>2, <2>3, AssertedOne, Zenon
<1>7. CASE makeRubrik
  <2> DEFINE level == IF Remembered.level = 2 THEN 2 ELSE 1
             e == [Element("rub", 1) EXCEPT !.no = level]
             chain == <<e>>
  <2>1. Makes("rub") /\ Made(chain, FALSE)
    BY <1>7 DEF makeRubrik
  <2>2. ~eof(pos) /\ Within # "par" /\ pos + 1 <= Len(doc) + 1
    BY <2>1, InDoc DEF Makes, Turn
  <2>3. e \in Nodes
    <3>1. Element("rub", 1) \in Nodes /\ level \in Nat
      BY <2>2, ElementIs DEF Elements
    <3> HIDE DEF level
    <3> QED BY <3>1 DEF Nodes
  <2> HIDE DEF e
  <2>4. chain \in Seq(Nodes) /\ Len(chain) = 1
    BY <2>3
  <2> HIDE DEF chain
  <2>5. Paragraphs(chain, FALSE)
    BY <2>2, <2>4 DEF Paragraphs
  <2> QED BY <2>1, <2>4, <2>5, AssertedMade, Zenon
<1>8. CASE makeUpphavdParagraf
  <2>1. Makes("upphpar") /\ Made(<<Element("upphpar", 1)>>, FALSE)
    BY <1>8 DEF makeUpphavdParagraf
  <2>2. "upphpar" \in Elements \ {"par"} /\ "upphpar" # "stycke"
    BY DEF Elements, Opened, Loops
  <2>3. 1 \in 0..2 /\ pos + 1 <= Len(doc) + 1
    BY <2>1, InDoc DEF Makes, Turn
  <2> QED BY <2>1, <2>2, <2>3, AssertedOne, Zenon
<1>9. CASE makeParagraf
  <2> DEFINE chain == <<Element("par", 0), Element("stycke", 1)>>
  <2>1. Makes("par") /\ Made(chain, TRUE)
    BY <1>9 DEF makeParagraf
  <2>2. /\ ~eof(pos) /\ Within # "par"
        /\ pos + 0 <= Len(doc) + 1 /\ pos + 1 <= Len(doc) + 1
    BY <2>1, InDoc DEF Makes, Turn
  <2>3. /\ Element("par", 0) \in Nodes
        /\ Element("stycke", 1) \in Nodes
        /\ Element("stycke", 1).kind = "stycke"
    BY <2>2, ElementIs DEF Elements, Opened, Loops
  <2>4. /\ chain \in Seq(Nodes) /\ Len(chain) = 2
        /\ chain[2].kind = "stycke"
    BY <2>3
  <2> HIDE DEF chain
  <2>5. Paragraphs(chain, TRUE)
    BY <2>2, <2>4 DEF Paragraphs
  <2> QED BY <2>1, <2>4, <2>5, AssertedMade, Zenon
<1>10. CASE makeStycke
  <2>1. Makes("stycke") /\ Made(<<Element("stycke", 1)>>, TRUE)
    BY <1>10 DEF makeStycke
  <2>2. "stycke" \in Elements \ {"par"} 
    BY DEF Elements, Opened, Loops
  <2>3. 1 \in 0..2 /\ pos + 1 <= Len(doc) + 1
    BY <2>1, InDoc DEF Makes, Turn
  <2> QED BY <2>1, <2>2, <2>3, AssertedOne, Zenon
<1>11. CASE makeLista
  <2>1. PICK h \in Lists : Makes(h) /\ Made(<<Element(h, 0)>>, TRUE)
    BY <1>11 DEF makeLista
  <2>2. h \in Elements \ {"par"} /\ h # "stycke"
    BY DEF Elements, Opened, Loops, Lists
  <2>3. 0 \in 0..2 /\ pos + 0 <= Len(doc) + 1
    BY <2>1, InDoc DEF Makes, Turn
  <2> QED BY <2>1, <2>2, <2>3, AssertedOne, Zenon
<1>12. CASE Listelement
  <2>1. Within # "par"
    BY <1>12 DEF Listelement, Lists
  <2> QED BY <1>12, <2>1, AssertedStays, OwnKeeps DEF Listelement
<1>13. CASE makeTabell
  <2>1. Makes("tab") /\ Made(<<Element("tab", 1)>>, TRUE)
    BY <1>13 DEF makeTabell
  <2>2. "tab" \in Elements \ {"par"} /\ "tab" # "stycke"
    BY DEF Elements, Opened, Loops
  <2>3. 1 \in 0..2 /\ pos + 1 <= Len(doc) + 1
    BY <2>1, InDoc DEF Makes, Turn
  <2> QED BY <2>1, <2>2, <2>3, AssertedOne, Zenon
<1>14. CASE Tabellrad
  <2>1. Within # "par" /\ frames' = frames
    BY <1>14 DEF Tabellrad
  <2>2. \A k \in DOMAIN nodes : nodes'[k].kind = nodes[k].kind
    BY <1>14, OwnKeeps DEF Tabellrad
  <2> QED BY <2>1, <2>2, AssertedStays
<1>15. CASE makeOvergangsbestammelser
  <2>1. Makes("obs") /\ Made(<<Element("obs", 1)>>, TRUE)
    BY <1>15 DEF makeOvergangsbestammelser
  <2>2. "obs" \in Elements \ {"par"} /\ "obs" # "stycke"
    BY DEF Elements, Opened, Loops
  <2>3. 1 \in 0..2 /\ pos + 1 <= Len(doc) + 1
    BY <2>1, InDoc DEF Makes, Turn
  <2> QED BY <2>1, <2>2, <2>3, AssertedOne, Zenon
<1>16. CASE RubrikSaknas
  <2>1. Makes("ob") /\ Made(<<Element("obs", 0)>>, TRUE)
    BY <1>16 DEF RubrikSaknas
  <2>2. "obs" \in Elements \ {"par"} /\ "ob" # "stycke"
    BY DEF Elements, Opened, Loops
  <2>3. 0 \in 0..2 /\ pos + 0 <= Len(doc) + 1
    BY <2>1, InDoc DEF Makes, Turn
  <2> QED BY <2>1, <2>2, <2>3, AssertedOne, Zenon
<1>17. CASE makeOvergangsbestammelse
  <2>1. Makes("ob") /\ Made(<<Element("ob", 1)>>, TRUE)
    BY <1>17 DEF makeOvergangsbestammelse
  <2>2. "ob" \in Elements \ {"par"} /\ "ob" # "stycke"
    BY DEF Elements, Opened, Loops
  <2>3. 1 \in 0..2 /\ pos + 1 <= Len(doc) + 1
    BY <2>1, InDoc DEF Makes, Turn
  <2> QED BY <2>1, <2>2, <2>3, AssertedOne, Zenon
<1>18. CASE makeBilaga
  <2>1. Makes("bil") /\ Made(<<Element("bil", 1)>>, TRUE)
    BY <1>18 DEF makeBilaga
  <2>2. "bil" \in Elements \ {"par"} /\ "bil" # "stycke"
    BY DEF Elements, Opened, Loops
  <2>3. 1 \in 0..2 /\ pos + 1 <= Len(doc) + 1
    BY <2>1, InDoc DEF Makes, Turn
  <2> QED BY <2>1, <2>2, <2>3, AssertedOne, Zenon
<1>19. CASE EndOfText
  <2>1. frames' = <<1>> /\ ~ Parsing'
    BY <1>19 DEF EndOfText, Parsing
  <2>2. \A i \in 1..(Len(frames') - 1) : FALSE
    BY <2>1
  <2> QED BY <2>1, <2>2 DEF Asserted
<1>20. CASE construct_id \/ postprocess_doc \/ UNCHANGED vars
  <2>1. UNCHANGED <<doc, pos, frames, nodes>> /\ (Parsing' => Parsing)
    BY <1>20 DEF construct_id, postprocess_doc, vars, Parsing
  <2> QED BY <2>1 DEF Asserted, Within, Top, Look, eof
<1> QED
  BY <1>1, <1>2, <1>3, <1>4, <1>5, <1>6, <1>7, <1>8, <1>9, <1>10, <1>11,
     <1>12, <1>13, <1>14, <1>15, <1>16, <1>17, <1>18, <1>19, <1>20
  DEF Next

(* Whatever the statute, the assertion in makeParagraf never fails: a list *)
(* or a table comes in a paragraph, whose loop ends at neither, and no     *)
(* earlier recognizer takes the first line of one for anything else.       *)
THEOREM NoAssertionFails == Spec => []AssertionHolds
<1>1. ASSUME IInv, Asserted PROVE AssertionHolds
  <2>1. SUFFICES ASSUME Parsing, Within = "par", ~eof(pos)
                 PROVE  Handler \in Ends["par"] \cup {"stycke"}
    BY DEF AssertionHolds
  <2>2. Handler = guess_state
    BY <2>1 DEF Handler, ItemFirst
  <2>3. guess_state \notin Lists \cup {"tab"}
    BY <1>1, <2>1, ListGuessed DEF Asserted
  <2>4. guess_state \in Handlers
    BY GuessIs
  <2> QED BY <2>2, <2>3, <2>4, EndsOf, HandlersAre DEF Lists
<1>2. ASSUME Init PROVE Asserted
  <2>1. frames = <<1>> /\ IInv
    <3>1. frames = <<1>>
      BY <1>2 DEF Init
    <3> QED BY <3>1, <1>2, InitIInv
  <2>2. Within = "root"
    BY <2>1 DEF Within, Top, IInv, Tree
  <2> QED BY <2>1, <2>2 DEF Asserted
<1>3. IInv /\ Asserted /\ [Next]_vars => Asserted'
  BY AssertedStep DEF IInv
<1> QED BY <1>1, <1>2, <1>3, Invariant, PTL DEF Spec
===============================================================================
