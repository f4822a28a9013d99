-------------------------- MODULE FSMParser_proofs --------------------------
(***************************************************************************)
(* The parser loses no chunk and keeps none twice, for every grammar,      *)
(* document and sequence of configurations: for this only what the         *)
(* constructors do matters.  In the second part the tables are used as     *)
(* well: every state they lead to has an entry for whatever comes, an      *)
(* element is only opened in a state that is further in than the one it    *)
(* is opened in, the outermost state is never left, and numbered headings  *)
(* are always recognized.                                                  *)
(***************************************************************************)
EXTENDS FSMParser, WellFoundedInduction, TLAPS

(* Each member of H is in one of the sets of A, which has the indexes I,   *)
(* or one of those out, and nowhere else.                                  *)
Split(A, I, out, H) ==
  /\ \A i \in I : \A x \in A[i] :
       x \in H /\ x \notin out /\ \A j \in I : x \in A[j] => i = j
  /\ \A x \in out : x \in H
  /\ \A x \in H : x \in out \/ \E i \in I : x \in A[i]

(* The chunks of each frame. *)
Held(fs) == [i \in DOMAIN fs |-> fs[i].held]

(* Each of the chunks 1..n is in one frame or out. *)
Partition(fs, out, n) == Split(Held(fs), DOMAIN fs, out, 1..n)

Kind == {"root", "element", "preamblesection", "toc"}
Frame == [kind : Kind, held : SUBSET Nat]

(* A list of frames whose outermost element is the root. *)
Nested(fs) == fs \in Seq(Frame) /\ Len(fs) >= 1 /\ fs[1].kind = "root"

(* The place of the reader is in the document.                             *)
Placed ==
  /\ Len(doc) \in Nat /\ DOMAIN doc = 1..Len(doc)
  /\ pos \in 1..(Len(doc) + 1)
  /\ Nested(frames)

IInv == Placed /\ Partition(frames, skipped \cup lost, pos - 1)

(* It is the partition that is conserved. *)
LEMMA ConservedIs == Conserved <=> Partition(frames, skipped \cup lost, pos - 1)
<1> DEFINE D == DOMAIN frames
           A == Held(frames)
           out == skipped \cup lost
           All == UNION {A[i] : i \in D}
           H == 1..(pos - 1)
<1>1. Conserved <=>
        /\ All \cup out = H
        /\ \A i \in D : /\ A[i] \cap out = {}
                        /\ \A j \in D : i # j => A[i] \cap A[j] = {}
  <2>1. \A i \in D : A[i] = frames[i].held
    BY DEF Held
  <2>2. (UNION {frames[i].held : i \in D}) = All
    BY <2>1
  <2> QED BY <2>1, <2>2 DEF Conserved
<1>2. Partition(frames, out, pos - 1) <=> Split(A, D, out, H)
  BY DEF Partition
<1>3. \A x : x \in All <=> \E i \in D : x \in A[i]
  BY Zenon
<1> HIDE DEF D, A, out, All, H
<1>4. All \cup out = H <=>
        /\ \A x \in out : x \in H
        /\ \A i \in D : \A x \in A[i] : x \in H
        /\ \A x \in H : x \in out \/ \E i \in D : x \in A[i]
  BY <1>3
<1>5. \A i \in D : A[i] \cap out = {} <=> \A x \in A[i] : x \notin out
  OBVIOUS
<1>6. \A i, j \in D : (i # j => A[i] \cap A[j] = {})
                       <=> \A x \in A[i] : x \in A[j] => i = j
  OBVIOUS
<1>7. Conserved <=> Split(A, D, out, H)
  BY <1>1, <1>4, <1>5, <1>6 DEF Split
<1> QED BY <1>2, <1>7 DEF out

-----------------------------------------------------------------------------
(* Among the places that can end an appendix's head there is a first.      *)
Below == OpToRel(<, Nat)

(* Below is the order of the numbers. *)
LEMMA BelowIs == \A x, y \in Nat : <<x, y>> \in Below <=> x < y
  BY DEF Below, OpToRel

(* It is well-founded. *)
LEMMA BelowIsWellFounded == IsWellFoundedOn(Below, Nat)
  BY NatLessThanWellFounded DEF Below

(* A set of numbers has a least. *)
LEMMA Least ==
  ASSUME NEW T \in SUBSET Nat, T # {}
  PROVE  \E x \in T : \A y \in T : x <= y
<1>1. PICK x \in T : \A y \in T : ~ (<<y, x>> \in Below)
  BY BelowIsWellFounded, WFMin
<1>2. ASSUME NEW y \in T PROVE x <= y
  <2>1. x \in Nat /\ y \in Nat
    OBVIOUS
  <2>2. ~ (y < x)
    BY <1>1, <2>1, BelowIs
  <2> QED BY <2>1, <2>2
<1> QED BY <1>2

(* The title of an appendix is in the document. *)
LEMMA TitlePlace ==
  ASSUME Len(doc) \in Nat, pos \in 1..Len(doc), AppendixTitle(View) # 0
  PROVE  AppendixTitle(View) \in pos..Len(doc)
<1> DEFINE ends == {q \in (pos + 1)..Len(doc) :
                      "pagebreak" \in doc[q] \/ doc[q] \cap Big # {}}
<1>1. View.doc = doc /\ View.pos = pos
  BY DEF View
<1>2. CASE Here(View) \cap {"implicit", "mashed1", "mashed2"} # {}
  BY <1>1, <1>2 DEF AppendixTitle
<1>3. CASE Here(View) \cap {"implicit", "mashed1", "mashed2"} = {}
  <2>1. ends # {}
    BY <1>1, <1>3 DEF AppendixTitle
  <2>2. AppendixTitle(View) = CHOOSE q \in ends : \A p \in ends : q <= p
    BY <1>1, <1>3, <2>1 DEF AppendixTitle
  <2>3. ends \in SUBSET Nat
    OBVIOUS
  <2> HIDE DEF ends
  <2>4. \E q \in ends : \A p \in ends : q <= p
    BY <2>1, <2>3, Least
  <2>5. AppendixTitle(View) \in ends
    BY <2>2, <2>4
  <2> QED BY <2>5 DEF ends
<1> QED BY <1>2, <1>3

-----------------------------------------------------------------------------
(* What the operations on frames do to a partition.                        *)

(* A set is given to another one, or what is not kept of it goes out.      *)
LEMMA SplitMerge ==
  ASSUME NEW I, NEW A, NEW out, NEW H, Split(A, I, out, H),
         NEW n \in I, NEW p \in I, p # n,
         NEW kept, kept = {} \/ kept = A[n],
         NEW B, \A i \in I \ {n} : B[i] = IF i = p THEN A[i] \cup kept ELSE A[i]
  PROVE  Split(B, I \ {n}, out \cup (A[n] \ kept), H)
<1> DEFINE rest == A[n] \ kept
<1>1. ASSUME NEW i \in I \ {n}, NEW x \in B[i]
      PROVE  /\ x \in H /\ x \notin out /\ x \notin rest
             /\ \A j \in I \ {n} : x \in B[j] => i = j
  <2>1. CASE x \in A[i]
    BY <2>1 DEF Split
  <2>2. CASE i = p /\ x \in kept /\ x \in A[n]
    BY <2>2 DEF Split
  <2> QED BY <2>1, <2>2
<1>2. \A x \in out \cup rest : x \in H
  BY DEF Split
<1>3. ASSUME NEW x \in H
      PROVE  x \in out \cup rest \/ \E i \in I \ {n} : x \in B[i]
  <2>1. CASE x \in out \/ x \in rest
    BY <2>1
  <2>2. CASE x \in kept
    BY <2>2
  <2>3. ASSUME NEW i \in I \ {n}, x \in A[i]
        PROVE  \E k \in I \ {n} : x \in B[k]
    BY <2>3
  <2>4. CASE \E i \in I : x \in A[i]
    BY <2>1, <2>2, <2>3, <2>4
  <2> QED BY <2>1, <2>4 DEF Split
<1> QED BY <1>1, <1>2, <1>3 DEF Split

(* One of the sets goes out. *)
LEMMA SplitDrop ==
  ASSUME NEW I, NEW A, NEW out, NEW H, Split(A, I, out, H), NEW n \in I,
         NEW B, \A i \in I \ {n} : B[i] = A[i]
  PROVE  Split(B, I \ {n}, out \cup A[n], H)
<1>1. ASSUME NEW i \in I \ {n}, NEW x \in B[i]
      PROVE  /\ x \in H /\ x \notin out /\ x \notin A[n]
             /\ \A j \in I \ {n} : x \in B[j] => i = j
  <2>1. x \in A[i]
    OBVIOUS
  <2> QED BY <2>1 DEF Split
<1>2. \A x \in out \cup A[n] : x \in H
  BY DEF Split
<1>3. \A x \in H : x \in out \cup A[n] \/ \E i \in I \ {n} : x \in B[i]
  BY DEF Split
<1> QED BY <1>1, <1>2, <1>3 DEF Split

(* More comes into one of the sets and out.                                *)
LEMMA SplitAdd ==
  ASSUME NEW I, NEW A, NEW out, NEW H, Split(A, I, out, H), NEW p \in I,
         NEW held, NEW left, \A x \in held : x \notin H /\ x \notin left,
         \A x \in left : x \notin H,
         NEW B, \A i \in I : B[i] = IF i = p THEN A[i] \cup held ELSE A[i]
  PROVE  Split(B, I, out \cup left, H \cup held \cup left)
<1>1. ASSUME NEW i \in I, NEW x \in B[i]
      PROVE  /\ x \in H \cup held \cup left /\ x \notin out \cup left
             /\ \A j \in I : x \in B[j] => i = j
  <2>1. CASE x \in A[i]
    <3>1. x \in H /\ x \notin out /\ \A j \in I : x \in A[j] => i = j
      BY <2>1 DEF Split
    <3>2. x \notin left /\ x \notin held
      BY <3>1
    <3>3. \A j \in I : x \in B[j] => i = j
      BY <3>1, <3>2
    <3> QED BY <3>1, <3>2, <3>3
  <2>2. CASE i = p /\ x \in held
    <3>1. x \notin H /\ x \notin left
      BY <2>2
    <3>2. x \notin out /\ \A j \in I : x \notin A[j]
      BY <3>1 DEF Split
    <3>3. \A j \in I : x \in B[j] => i = j
      BY <2>2, <3>2
    <3> QED BY <2>2, <3>1, <3>2, <3>3
  <2> QED BY <2>1, <2>2
<1>2. \A x \in out \cup left : x \in H \cup held \cup left
  BY DEF Split
<1>3. \A x \in H \cup held \cup left :
        x \in out \cup left \/ \E i \in I : x \in B[i]
  BY DEF Split
<1> QED BY <1>1, <1>2, <1>3 DEF Split

(* A set of its own is made of more.                                       *)
LEMMA SplitPush ==
  ASSUME NEW I, NEW A, NEW out, NEW H, Split(A, I, out, H), NEW m, m \notin I,
         NEW held, NEW left, \A x \in held : x \notin H /\ x \notin left,
         \A x \in left : x \notin H,
         NEW B, \A i \in I : B[i] = A[i], B[m] = held
  PROVE  Split(B, I \cup {m}, out \cup left, H \cup held \cup left)
<1>1. ASSUME NEW i \in I \cup {m}, NEW x \in B[i]
      PROVE  /\ x \in H \cup held \cup left /\ x \notin out \cup left
             /\ \A j \in I \cup {m} : x \in B[j] => i = j
  <2>1. CASE i \in I
    <3>1. x \in A[i] /\ i # m
      BY <2>1
    <3>2. x \in H /\ x \notin out /\ \A j \in I : x \in A[j] => i = j
      BY <2>1, <3>1 DEF Split
    <3>3. x \notin left /\ x \notin held
      BY <3>2
    <3>4. \A j \in I \cup {m} : x \in B[j] => i = j
      BY <3>2, <3>3
    <3> QED BY <3>2, <3>3, <3>4
  <2>2. CASE i = m
    <3>1. x \in held /\ x \notin H /\ x \notin left
      BY <2>2
    <3>2. x \notin out /\ \A j \in I : x \notin B[j]
      BY <3>1 DEF Split
    <3>3. \A j \in I \cup {m} : x \in B[j] => i = j
      BY <2>2, <3>2
    <3> QED BY <3>1, <3>2, <3>3
  <2> QED BY <2>1, <2>2
<1>2. \A x \in out \cup left : x \in H \cup held \cup left
  BY DEF Split
<1>3. \A x \in H \cup held \cup left :
        x \in out \cup left \/ \E i \in I \cup {m} : x \in B[i]
  BY DEF Split
<1> QED BY <1>1, <1>2, <1>3 DEF Split

-----------------------------------------------------------------------------
(* The same of sequences of frames.                                        *)

(* There is at least the outermost frame. *)
LEMMA NestedLength ==
  ASSUME NEW fs, Nested(fs)
  PROVE  /\ Len(fs) \in Nat /\ Len(fs) >= 1 /\ DOMAIN fs = 1..Len(fs)
         /\ \A i \in 1..Len(fs) : fs[i] \in Frame
<1>1. fs \in Seq(Frame) /\ Len(fs) >= 1
  BY DEF Nested
<1> QED BY <1>1

(* A finished frame goes to its parent, or what is not kept of it goes out. *)
LEMMA PartitionMerge ==
  ASSUME NEW fs, Nested(fs), Len(fs) # 1, NEW out, NEW m, Partition(fs, out, m),
         NEW kept, kept = {} \/ kept = fs[Len(fs)].held,
         NEW gs, gs = [SubSeq(fs, 1, Len(fs) - 1)
                         EXCEPT ![Len(fs) - 1].held = @ \cup kept]
  PROVE  /\ Nested(gs)
         /\ Partition(gs, out \cup (fs[Len(fs)].held \ kept), m)
<1> DEFINE n == Len(fs)
           ss == SubSeq(fs, 1, n - 1)
<1>1. /\ fs \in Seq(Frame) /\ n \in Nat /\ n >= 2 /\ DOMAIN fs = 1..n
      /\ fs[1].kind = "root" /\ fs[n] \in Frame
  <2>1. /\ n \in Nat /\ n >= 1 /\ DOMAIN fs = 1..n
        /\ \A i \in 1..n : fs[i] \in Frame
    BY NestedLength
  <2>2. fs \in Seq(Frame) /\ fs[1].kind = "root"
    BY DEF Nested
  <2>3. n # 1
    OBVIOUS
  <2> HIDE DEF n
  <2> QED BY <2>1, <2>2, <2>3
<1>2. /\ ss \in Seq(Frame) /\ Len(ss) = n - 1
      /\ \A i \in 1..(n - 1) : ss[i] = fs[i]
  BY <1>1
<1>3. /\ ss[n - 1] \in Frame /\ kept \in SUBSET Nat
  BY <1>1, <1>2 DEF Frame
<1>4. /\ gs \in Seq(Frame) /\ Len(gs) = n - 1 /\ DOMAIN gs = 1..(n - 1)
      /\ gs[1].kind = "root"
      /\ \A i \in 1..(n - 1) :
           gs[i].held = IF i = n - 1 THEN fs[i].held \cup kept ELSE fs[i].held
  <2>1. \A i \in 1..(n - 1) : ss[i] \in Frame
    BY <1>1, <1>2
  <2>2. DOMAIN ss = 1..(n - 1)
    BY <1>1, <1>2
  <2>3. gs = [ss EXCEPT ![n - 1] =
                [ss[n - 1] EXCEPT !.held = ss[n - 1].held \cup kept]]
    OBVIOUS
  <2>4. [ss[n - 1] EXCEPT !.held = ss[n - 1].held \cup kept] \in Frame
    BY <1>3 DEF Frame
  <2>5. gs \in Seq(Frame) /\ Len(gs) = n - 1 /\ DOMAIN gs = 1..(n - 1)
    BY <1>1, <1>2, <2>2, <2>3, <2>4
  <2>6. ASSUME NEW i \in 1..(n - 1)
        PROVE  /\ gs[i].kind = fs[i].kind
               /\ gs[i].held = IF i = n - 1 THEN fs[i].held \cup kept
                                            ELSE fs[i].held
    <3>1. CASE i = n - 1
      BY <1>2, <1>3, <2>2, <2>3, <3>1 DEF Frame
    <3>2. CASE i # n - 1
      BY <1>2, <2>2, <2>3, <3>2
    <3> QED BY <3>1, <3>2
  <2>7. 1 \in 1..(n - 1)
    BY <1>1
  <2> QED BY <1>1, <2>5, <2>6, <2>7
<1>5. Len(gs) >= 1
  BY <1>1, <1>4
<1>6. Split(Held(gs), (1..n) \ {n}, out \cup (Held(fs)[n] \ kept), 1..m)
  <2>1. Split(Held(fs), 1..n, out, 1..m)
    BY <1>1 DEF Partition
  <2>2. n \in 1..n /\ n - 1 \in 1..n /\ n - 1 # n
    <3>1. n \in Nat /\ n >= 2
      BY <1>1
    <3> HIDE DEF n
    <3> QED BY <3>1
  <2>3. \A i \in 1..n : Held(fs)[i] = fs[i].held
    BY <1>1 DEF Held
  <2>4. \A i \in 1..(n - 1) : Held(gs)[i] = gs[i].held
    BY <1>4 DEF Held
  <2>5. (1..n) \ {n} = 1..(n - 1)
    BY <1>1
  <2>6. \A i \in (1..n) \ {n} :
          Held(gs)[i] = IF i = n - 1 THEN Held(fs)[i] \cup kept ELSE Held(fs)[i]
    BY <1>4, <2>3, <2>4, <2>5
  <2>7. kept = {} \/ kept = Held(fs)[n]
    BY <2>2, <2>3
  <2> HIDE DEF n
  <2> QED BY <2>1, <2>2, <2>6, <2>7, SplitMerge
<1>7. (1..n) \ {n} = DOMAIN gs /\ Held(fs)[n] = fs[n].held
  BY <1>1, <1>4 DEF Held
<1> QED BY <1>4, <1>5, <1>6, <1>7 DEF Partition, Nested

(* The innermost frame is dropped. *)
LEMMA PartitionDrop ==
  ASSUME NEW fs, Nested(fs), Len(fs) # 1, NEW out, NEW m, Partition(fs, out, m),
         NEW gs, gs = SubSeq(fs, 1, Len(fs) - 1)
  PROVE  Nested(gs) /\ Partition(gs, out \cup fs[Len(fs)].held, m)
<1> DEFINE n == Len(fs)
<1>1. /\ fs \in Seq(Frame) /\ n \in Nat /\ n >= 2 /\ DOMAIN fs = 1..n
      /\ fs[1].kind = "root"
  <2>1. /\ n \in Nat /\ n >= 1 /\ DOMAIN fs = 1..n
        /\ \A i \in 1..n : fs[i] \in Frame
    BY NestedLength
  <2>2. fs \in Seq(Frame) /\ fs[1].kind = "root"
    BY DEF Nested
  <2>3. n # 1
    OBVIOUS
  <2> HIDE DEF n
  <2> QED BY <2>1, <2>2, <2>3
<1>2. /\ gs \in Seq(Frame) /\ Len(gs) = n - 1 /\ DOMAIN gs = 1..(n - 1)
      /\ \A i \in 1..(n - 1) : gs[i] = fs[i]
  BY <1>1
<1>3. Nested(gs)
  <2>1. gs[1] = fs[1]
    BY <1>1, <1>2
  <2>2. Len(gs) >= 1
    BY <1>1, <1>2
  <2> QED BY <1>1, <1>2, <2>1, <2>2 DEF Nested
<1>4. Split(Held(gs), (1..n) \ {n}, out \cup Held(fs)[n], 1..m)
  <2>1. Split(Held(fs), 1..n, out, 1..m)
    BY <1>1 DEF Partition
  <2>2. n \in 1..n /\ (1..n) \ {n} = 1..(n - 1)
    BY <1>1
  <2>3. \A i \in (1..n) \ {n} : Held(gs)[i] = Held(fs)[i]
    BY <1>1, <1>2, <2>2 DEF Held
  <2> HIDE DEF n
  <2> QED BY <2>1, <2>2, <2>3, SplitDrop
<1>5. (1..n) \ {n} = DOMAIN gs /\ Held(fs)[n] = fs[n].held
  BY <1>1, <1>2 DEF Held
<1> QED BY <1>3, <1>4, <1>5 DEF Partition

(* Chunks that come next are appended to the innermost frame or left out. *)
LEMMA PartitionAdd ==
  ASSUME NEW fs, Nested(fs), NEW out, NEW m \in Nat, Partition(fs, out, m),
         NEW k \in Nat, m <= k, NEW held, NEW left,
         held \cup left = (m + 1)..k, held \cap left = {},
         NEW gs, gs = [fs EXCEPT ![Len(fs)].held = @ \cup held]
  PROVE  Nested(gs) /\ Partition(gs, out \cup left, k)
<1> DEFINE n == Len(fs)
<1>1. /\ fs \in Seq(Frame) /\ n \in Nat /\ n >= 1 /\ DOMAIN fs = 1..n
      /\ fs[1].kind = "root" /\ fs[n] \in Frame
  BY NestedLength DEF Nested
<1>2. held \in SUBSET Nat
  OBVIOUS
<1>3. /\ gs \in Seq(Frame) /\ Len(gs) = n /\ DOMAIN gs = 1..n
      /\ \A i \in 1..n : /\ gs[i].kind = fs[i].kind
                         /\ gs[i].held = IF i = n THEN fs[i].held \cup held
                                                  ELSE fs[i].held
  <2>1. gs = [fs EXCEPT ![n] = [fs[n] EXCEPT !.held = fs[n].held \cup held]]
    OBVIOUS
  <2>2. [fs[n] EXCEPT !.held = fs[n].held \cup held] \in Frame
    BY <1>1, <1>2 DEF Frame
  <2>3. gs \in Seq(Frame) /\ Len(gs) = n /\ DOMAIN gs = 1..n
    BY <1>1, <2>1, <2>2
  <2>4. ASSUME NEW i \in 1..n
        PROVE  /\ gs[i].kind = fs[i].kind
               /\ gs[i].held = IF i = n THEN fs[i].held \cup held
                                        ELSE fs[i].held
    <3>1. CASE i = n
      BY <1>1, <2>1, <3>1 DEF Frame
    <3>2. CASE i # n
      BY <1>1, <2>1, <3>2
    <3> QED BY <3>1, <3>2
  <2> QED BY <2>3, <2>4
<1>4. Nested(gs)
  BY <1>1, <1>3 DEF Nested
<1>5. Split(Held(gs), 1..n, out \cup left, (1..m) \cup held \cup left)
  <2>1. Split(Held(fs), 1..n, out, 1..m)
    BY <1>1 DEF Partition
  <2>2. n \in 1..n
    BY <1>1
  <2>3. \A i \in 1..n :
          Held(gs)[i] = IF i = n THEN Held(fs)[i] \cup held ELSE Held(fs)[i]
    BY <1>1, <1>3 DEF Held
  <2>4. /\ \A x \in held : x \notin 1..m /\ x \notin left
        /\ \A x \in left : x \notin 1..m
    OBVIOUS
  <2> HIDE DEF n
  <2> QED BY <2>1, <2>2, <2>3, <2>4, SplitAdd
<1>6. (1..m) \cup held \cup left = 1..k
  <2>1. (1..m) \cup ((m + 1)..k) = 1..k
    OBVIOUS
  <2> QED BY <2>1
<1> QED BY <1>3, <1>4, <1>5, <1>6 DEF Partition

(* Chunks that come next are those of a new frame or left out. *)
LEMMA PartitionPush ==
  ASSUME NEW fs, Nested(fs), NEW out, NEW m \in Nat, Partition(fs, out, m),
         NEW k \in Nat, m <= k, NEW held, NEW left,
         held \cup left = (m + 1)..k, held \cap left = {},
         NEW kind \in Kind,
         NEW gs, gs = Append(fs, [kind |-> kind, held |-> held])
  PROVE  Nested(gs) /\ Partition(gs, out \cup left, k)
<1> DEFINE n == Len(fs)
<1>1. /\ fs \in Seq(Frame) /\ n \in Nat /\ n >= 1 /\ DOMAIN fs = 1..n
      /\ fs[1].kind = "root"
  BY NestedLength DEF Nested
<1>2. [kind |-> kind, held |-> held] \in Frame
  BY DEF Frame
<1>3. /\ gs \in Seq(Frame) /\ Len(gs) = n + 1 /\ DOMAIN gs = 1..(n + 1)
      /\ \A i \in 1..n : gs[i] = fs[i]
      /\ gs[n + 1] = [kind |-> kind, held |-> held]
  BY <1>1, <1>2
<1>4. Nested(gs)
  BY <1>1, <1>3 DEF Nested
<1>5. Split(Held(gs), (1..n) \cup {n + 1}, out \cup left,
            (1..m) \cup held \cup left)
  <2>1. Split(Held(fs), 1..n, out, 1..m)
    BY <1>1 DEF Partition
  <2>2. n + 1 \notin 1..n
    BY <1>1
  <2>3. /\ \A i \in 1..n : Held(gs)[i] = Held(fs)[i]
        /\ Held(gs)[n + 1] = held
    BY <1>1, <1>3 DEF Held
  <2>4. /\ \A x \in held : x \notin 1..m /\ x \notin left
        /\ \A x \in left : x \notin 1..m
    OBVIOUS
  <2> HIDE DEF n
  <2> QED BY <2>1, <2>2, <2>3, <2>4, SplitPush
<1>6. (1..m) \cup held \cup left = 1..k
  <2>1. (1..m) \cup ((m + 1)..k) = 1..k
    OBVIOUS
  <2> QED BY <2>1
<1>7. (1..n) \cup {n + 1} = DOMAIN gs
  BY <1>1, <1>3
<1> QED BY <1>4, <1>5, <1>6, <1>7 DEF Partition
-----------------------------------------------------------------------------
(* What the steps do.                                                      *)

(* An element that is given to its parent is still there, or left out.     *)
LEMMA GiveBackKeeps ==
  ASSUME NEW fs, Nested(fs), NEW stk, NEW m, NEW out, NEW k,
         Partition(fs, skipped \cup out, k), GiveBack(fs, stk, m)
  PROVE  Nested(frames') /\ Partition(frames', skipped' \cup out, k)
<1> DEFINE n == Len(fs)
           kept == IF fs[n].kind = "toc" THEN {} ELSE fs[n].held
<1>1. /\ frames' = IF n = 1 THEN fs
                   ELSE [SubSeq(fs, 1, n - 1)
                           EXCEPT ![n - 1].held = @ \cup kept]
      /\ skipped' = skipped \cup (fs[n].held \ kept)
  BY DEF GiveBack
<1>2. CASE n = 1
  <2>1. fs[n].kind = "root"
    BY <1>2 DEF Nested
  <2>2. skipped' = skipped /\ frames' = fs
    BY <1>1, <1>2, <2>1
  <2> QED BY <2>2
<1>3. CASE n # 1
  <2>1. kept = {} \/ kept = fs[n].held
    OBVIOUS
  <2>2. frames' = [SubSeq(fs, 1, n - 1) EXCEPT ![n - 1].held = @ \cup kept]
    BY <1>1, <1>3
  <2>3. skipped' \cup out = (skipped \cup out) \cup (fs[n].held \ kept)
    BY <1>1
  <2> HIDE DEF kept
  <2> DEFINE gs == [SubSeq(fs, 1, Len(fs) - 1)
                      EXCEPT ![Len(fs) - 1].held = @ \cup kept]
             out2 == skipped \cup out
  <2>4. Len(fs) # 1 /\ (kept = {} \/ kept = fs[Len(fs)].held)
    BY <1>3, <2>1
  <2>5. Partition(fs, out2, k)
    OBVIOUS
  <2> HIDE DEF out2
  <2>6. Nested(gs) /\ Partition(gs, out2 \cup (fs[Len(fs)].held \ kept), k)
    BY <2>4, <2>5, PartitionMerge
  <2>7. frames' = gs
    BY <2>2
  <2> HIDE DEF gs
  <2> QED BY <2>3, <2>6, <2>7 DEF out2
<1> QED BY <1>2, <1>3

(* What IInv asks for after a step. *)
LEMMA InPlace ==
  ASSUME IInv, doc' = doc, pos' \in 1..(Len(doc) + 1), Nested(frames'),
         Partition(frames', skipped' \cup lost', pos' - 1)
  PROVE  IInv'
<1>1. Nested(frames)'
  BY DEF Nested
<1>2. Partition(frames, skipped \cup lost, pos - 1)'
  BY DEF Partition, Split, Held
<1> QED BY <1>1, <1>2 DEF IInv, Placed

(* A parser begins with nothing read. *)
LEMMA FreshParser == Nested(<<Root>>) /\ Partition(<<Root>>, {} \cup {}, 0)
<1>1. Root \in Frame /\ Root.kind = "root" /\ Root.held = {}
  <2>1. Root.kind = "root" /\ Root.held = {}
    BY DEF Root
  <2>2. {} \in SUBSET Nat /\ "root" \in Kind
    BY DEF Kind
  <2> QED BY <2>1, <2>2 DEF Root, Frame
<1> DEFINE fs == <<Root>>
<1>2. fs \in Seq(Frame) /\ Len(fs) = 1 /\ DOMAIN fs = {1} /\ fs[1] = Root
  BY <1>1
<1> HIDE DEF fs
<1>3. Nested(fs)
  BY <1>1, <1>2 DEF Nested
<1>4. \A i \in DOMAIN fs : Held(fs)[i] = {}
  BY <1>1, <1>2 DEF Held
<1>5. Split(Held(fs), DOMAIN fs, {} \cup {}, 1..0)
  BY <1>4 DEF Split
<1> QED BY <1>3, <1>5 DEF fs, Partition

(* The next configuration begins with nothing read, and the last exception *)
(* leaves everything as it is.                                             *)
LEMMA FailKeeps ==
  ASSUME IInv, NEW exception, Fail(exception)
  PROVE  IInv'
<1>1. CASE config < Len(P.configs)
  <2>1. /\ frames' = <<Root>> /\ skipped' = {} /\ lost' = {} /\ pos' = 1
        /\ doc' = doc
    BY <1>1 DEF Fail
  <2>2. pos' \in 1..(Len(doc) + 1)
    BY <2>1 DEF IInv, Placed
  <2>3. Partition(frames', skipped' \cup lost', pos' - 1)
    <3>1. pos' - 1 = 0
      BY <2>1
    <3> QED BY <2>1, <3>1, FreshParser
  <2> QED BY <2>1, <2>2, <2>3, FreshParser, InPlace
<1>2. CASE ~ (config < Len(P.configs))
  <2>1. UNCHANGED <<frames, skipped, lost, pos, doc>>
    BY <1>2 DEF Fail
  <2> QED BY <2>1 DEF IInv, Placed
<1> QED BY <1>1, <1>2

(* Appending the next chunks, or leaving them out. *)
LEMMA AppendKeeps ==
  ASSUME IInv, NEW a, NEW held, NEW left, NEW next \in 1..(Len(doc) + 1),
         pos <= next, held \cup left = pos..(next - 1), held \cap left = {},
         AppendTo(a, held, left, next)
  PROVE  IInv'
<1>1. /\ pos \in Nat \ {0} /\ next \in Nat \ {0} /\ Len(doc) \in Nat
      /\ Nested(frames) /\ Partition(frames, skipped \cup lost, pos - 1)
  BY DEF IInv, Placed
<1>2. /\ frames' = [frames EXCEPT ![Len(frames)].held = @ \cup held]
      /\ skipped' = skipped \cup left /\ pos' = next /\ lost' = lost
      /\ doc' = doc
  BY DEF AppendTo
<1>3. /\ pos - 1 \in Nat /\ next - 1 \in Nat /\ pos - 1 <= next - 1
      /\ (pos - 1) + 1 = pos
  BY <1>1
<1>4. Nested(frames') /\ Partition(frames', (skipped \cup lost) \cup left, next - 1)
  BY <1>1, <1>2, <1>3, PartitionAdd
<1>5. skipped' \cup lost' = (skipped \cup lost) \cup left
  BY <1>2
<1> QED BY <1>2, <1>4, <1>5, InPlace

(* Making a new element of the next chunks; some of them may be left out. *)
LEMMA DescendKeeps ==
  ASSUME IInv, NEW a, NEW kind \in Kind, NEW held, NEW left,
         NEW next \in 1..(Len(doc) + 1),
         pos <= next, held \cup left = pos..(next - 1), held \cap left = {},
         Descend(a, kind, held, next), skipped' = skipped \cup left
  PROVE  IInv'
<1>1. /\ pos \in Nat \ {0} /\ next \in Nat \ {0} /\ Len(doc) \in Nat
      /\ Nested(frames) /\ Partition(frames, skipped \cup lost, pos - 1)
  BY DEF IInv, Placed
<1>2. /\ frames' = Append(frames, [kind |-> kind, held |-> held])
      /\ pos' = next /\ lost' = lost /\ doc' = doc
  BY DEF Descend
<1>3. /\ pos - 1 \in Nat /\ next - 1 \in Nat /\ pos - 1 <= next - 1
      /\ (pos - 1) + 1 = pos
  BY <1>1
<1>4. Nested(frames') /\ Partition(frames', (skipped \cup lost) \cup left, next - 1)
  BY <1>1, <1>2, <1>3, PartitionPush
<1>5. skipped' \cup lost' = (skipped \cup lost) \cup left
  BY <1>2
<1> QED BY <1>2, <1>4, <1>5, InPlace

(* What a constructor read before it ran out of chunks is dropped. *)
LEMMA OutOfChunksKeeps ==
  ASSUME IInv, pos <= Len(doc), NEW a, OutOfChunks(a)
  PROVE  IInv'
<1>1. /\ pos \in Nat \ {0} /\ Len(doc) \in Nat
      /\ Nested(frames) /\ Partition(frames, skipped \cup lost, pos - 1)
  BY DEF IInv, Placed
<1>2. /\ GiveBack(frames, stack, a.mem) /\ lost' = lost \cup pos..Len(doc)
      /\ pos' = Len(doc) + 1 /\ doc' = doc
  BY DEF OutOfChunks
<1> DEFINE rest == pos..Len(doc)
           gs == [frames EXCEPT ![Len(frames)].held = @ \cup {}]
<1>3. gs = frames
  <2>1. \A S \in SUBSET Nat : S \cup {} = S
    OBVIOUS
  <2>2. /\ Len(frames) \in 1..Len(frames) /\ DOMAIN frames = 1..Len(frames)
        /\ \A i \in 1..Len(frames) : frames[i] \in Frame
        /\ frames = [i \in DOMAIN frames |-> frames[i]]
    BY <1>1, NestedLength DEF Nested
  <2>3. frames[Len(frames)].held \cup {} = frames[Len(frames)].held
    OBVIOUS
  <2>4. [frames[Len(frames)] EXCEPT !.held = frames[Len(frames)].held \cup {}]
          = frames[Len(frames)]
    BY <2>2, <2>3 DEF Frame
  <2> QED BY <2>2, <2>4
<1>4. Partition(frames, (skipped \cup lost) \cup rest, Len(doc))
  <2>1. /\ pos - 1 \in Nat /\ pos - 1 <= Len(doc) /\ (pos - 1) + 1 = pos
    BY <1>1
  <2>2. {} \cup rest = ((pos - 1) + 1)..Len(doc) /\ {} \cap rest = {}
    BY <2>1
  <2> HIDE DEF rest
  <2> QED BY <1>1, <1>3, <2>1, <2>2, PartitionAdd
<1>5. (skipped \cup lost) \cup rest = skipped \cup lost'
  BY <1>2
<1>6. Nested(frames') /\ Partition(frames', skipped' \cup lost', Len(doc))
  BY <1>1, <1>2, <1>4, <1>5, GiveBackKeeps
<1>7. pos' \in 1..(Len(doc) + 1) /\ pos' - 1 = Len(doc)
  BY <1>1, <1>2
<1> QED BY <1>2, <1>6, <1>7, InPlace
-----------------------------------------------------------------------------
(* The partition holds from the first chunk to the last.                   *)

(* No chunk of the document has been read. *)
LEMMA InitEstablishes == Init => IInv
<1> SUFFICES ASSUME Init PROVE IInv
  OBVIOUS
<1>1. /\ profile \in DOMAIN Profile /\ doc \in Documents(P)
      /\ pos = 1 /\ frames = <<Root>> /\ skipped = {} /\ lost = {}
  BY DEF Init
<1>2. /\ P.prefix \in Seq(SUBSET STRING)
  BY <1>1, ProfileAssumption DEF P
<1>3. PICK d \in UNION {[1..n -> P.kinds] : n \in 0..P.max} : doc = P.prefix \o d
  BY <1>1 DEF Documents
<1>4. Len(doc) \in Nat /\ DOMAIN doc = 1..Len(doc)
  <2>1. PICK n \in 0..P.max : d \in [1..n -> P.kinds]
    BY <1>3
  <2> DEFINE S == (SUBSET STRING) \cup P.kinds
  <2>2. d \in Seq(S) /\ P.prefix \in Seq(S)
    <3>1. d \in Seq(P.kinds)
      BY <2>1
    <3>2. P.kinds \subseteq S /\ SUBSET STRING \subseteq S
      OBVIOUS
    <3> HIDE DEF S
    <3>3. \A A, B : A \subseteq B => \A x : x \in Seq(A) => x \in Seq(B)
      OBVIOUS
    <3> QED BY <1>2, <3>1, <3>2, <3>3
  <2> HIDE DEF S
  <2>3. doc \in Seq(S)
    BY <1>3, <2>2
  <2> QED BY <2>3
<1>5. pos \in 1..(Len(doc) + 1) /\ pos - 1 = 0
  BY <1>1, <1>4
<1>6. Nested(frames)
  BY <1>1, FreshParser
<1>7. Partition(frames, skipped \cup lost, pos - 1)
  BY <1>1, <1>5, FreshParser
<1> QED BY <1>4, <1>5, <1>6, <1>7 DEF IInv, Placed

(* The places that the constructors read and go on to. *)
LEMMA Places ==
  ASSUME IInv, pos <= Len(doc)
  PROVE  /\ Len(doc) \in Nat /\ pos \in 1..Len(doc) /\ pos <= pos + 1
         /\ pos \in 1..(Len(doc) + 1) /\ pos + 1 \in 1..(Len(doc) + 1)
         /\ {pos} = pos..((pos + 1) - 1) /\ {} = pos..(pos - 1)
         /\ {pos} \cup {} = {pos} /\ {} \cup {pos} = {pos}
         /\ {pos} \cap {} = {} /\ {} \cap {pos} = {} /\ {} \cap {} = {}
BY DEF IInv, Placed

(* The frames of a list and of its first item are two. *)
LEMMA OpenListKeeps ==
  ASSUME IInv, pos <= Len(doc), NEW a, OpenList(a)
  PROVE  IInv'
<1> DEFINE list == [kind |-> "element", held |-> {}]
           item == [kind |-> "element", held |-> {pos}]
           mid == Append(frames, list)
<1>1. /\ frames' = frames \o <<list, item>> /\ pos' = pos + 1
      /\ skipped' = skipped /\ lost' = lost /\ doc' = doc
  BY DEF OpenList
<1>2. /\ pos \in Nat /\ pos - 1 \in Nat /\ pos - 1 <= pos /\ pos <= pos
      /\ (pos - 1) + 1 = pos /\ pos' - 1 = pos /\ pos - 1 <= pos - 1
  BY <1>1, Places
<1>3. Nested(frames) /\ Partition(frames, skipped \cup lost, pos - 1)
  BY DEF IInv, Placed
<1>4. frames' = Append(mid, item)
  <2>1. frames \in Seq(Frame) /\ list \in Frame /\ item \in Frame
    BY <1>2, <1>3 DEF Nested, Frame, Kind
  <2> HIDE DEF list, item
  <2> QED BY <1>1, <2>1
<1>5. Nested(mid) /\ Partition(mid, (skipped \cup lost) \cup {}, pos - 1)
  <2>1. /\ {} \cup {} = ((pos - 1) + 1)..(pos - 1) /\ {} \cap {} = {}
        /\ "element" \in Kind
    BY <1>2 DEF Kind
  <2> QED BY <1>2, <1>3, <2>1, PartitionPush
<1> HIDE DEF mid
<1>6. /\ Nested(frames')
      /\ Partition(frames', ((skipped \cup lost) \cup {}) \cup {}, pos)
  <2> DEFINE out == (skipped \cup lost) \cup {}
  <2>1. Nested(mid) /\ Partition(mid, out, pos - 1)
    BY <1>5
  <2> HIDE DEF out
  <2>2. /\ {pos} \cup {} = ((pos - 1) + 1)..pos /\ {pos} \cap {} = {}
        /\ "element" \in Kind
    BY <1>2 DEF Kind
  <2>3. pos - 1 \in Nat /\ pos \in Nat /\ pos - 1 <= pos
    BY <1>2
  <2>4. Nested(Append(mid, item)) /\ Partition(Append(mid, item), out \cup {}, pos)
    BY <2>1, <2>2, <2>3, PartitionPush
  <2> QED BY <1>4, <2>4 DEF out
<1>7. ((skipped \cup lost) \cup {}) \cup {} = skipped' \cup lost'
  BY <1>1
<1>8. pos' \in 1..(Len(doc) + 1)
  BY <1>1, Places
<1> QED BY <1>1, <1>2, <1>6, <1>7, <1>8, InPlace

(* The header is a line, or two; a parser that is at the last reads on. *)
LEMMA RfcHeaderKeeps ==
  ASSUME IInv, pos <= Len(doc), NEW a, make_rfcheader(a)
  PROVE  IInv'
<1> DEFINE two == "strict" \in doc[pos + 1]
           last == IF two THEN pos + 1 ELSE pos
           next == IF two THEN pos + 2 ELSE pos + 1
<1>1. CASE pos = Len(doc)
  BY <1>1, OutOfChunksKeeps DEF make_rfcheader
<1>2. CASE pos # Len(doc)
  <2>1. AppendTo(a, pos..last, {}, next)
    BY <1>2 DEF make_rfcheader
  <2>2. /\ next \in 1..(Len(doc) + 1) /\ pos <= next
        /\ (pos..last) \cup {} = pos..(next - 1) /\ (pos..last) \cap {} = {}
    <3>1. pos \in Nat /\ pos >= 1 /\ Len(doc) \in Nat /\ pos < Len(doc)
      BY <1>2, Places
    <3>2. next = last + 1 /\ last \in {pos, pos + 1}
      BY <3>1
    <3> HIDE DEF next, last
    <3> QED BY <3>1, <3>2
  <2> HIDE DEF last, next
  <2> QED BY <2>1, <2>2, AppendKeeps
<1> QED BY <1>1, <1>2

(* What make_appendix reads up to the title is of the appendix or left out. *)
LEMMA AppendixKeeps ==
  ASSUME IInv, pos <= Len(doc), NEW a, make_appendix(a)
  PROVE  IInv'
<1> DEFINE q == AppendixTitle(View)
           left == {k \in (pos + 1)..q : \/ "nonessential" \in doc[k]
                                         \/ "pagebreak" \in doc[k]}
<1>1. CASE q = 0
  BY <1>1, OutOfChunksKeeps DEF make_appendix
<1>2. CASE q # 0
  <2>1. /\ Descend(a, "element", (pos..q) \ left, q + 1)
        /\ skipped' = skipped \cup left
    BY <1>2 DEF make_appendix
  <2>2. q \in pos..Len(doc)
    BY <1>2, Places, TitlePlace
  <2>3. left \in SUBSET ((pos + 1)..q)
    OBVIOUS
  <2> HIDE DEF q, left
  <2>4. /\ q + 1 \in 1..(Len(doc) + 1) /\ pos <= q + 1 /\ (q + 1) - 1 = q
        /\ pos \in Nat /\ q \in Nat
    BY <2>2, Places
  <2>5. /\ left \in SUBSET (pos..q)
    BY <2>3, <2>4
  <2>6. /\ ((pos..q) \ left) \cup left = pos..((q + 1) - 1)
        /\ ((pos..q) \ left) \cap left = {}
    <3>1. ((pos..q) \ left) \cup left = pos..q
      BY <2>5
    <3> QED BY <2>4, <3>1
  <2>7. "element" \in Kind
    BY DEF Kind
  <2> QED BY <2>1, <2>4, <2>6, <2>7, DescendKeeps
<1> QED BY <1>1, <1>2

(* Each constructor keeps the partition. *)
LEMMA ConstructorsKeep ==
  ASSUME IInv, pos <= Len(doc), NEW a, Constructors(a)
  PROVE  IInv'
<1>1. ASSUME AppendTo(a, {pos}, {}, pos + 1) PROVE IInv'
  BY <1>1, Places, AppendKeeps
<1>2. ASSUME AppendTo(a, {}, {pos}, pos + 1) PROVE IInv'
  BY <1>2, Places, AppendKeeps
<1>3. ASSUME NEW kind \in Kind, Descend(a, kind, {pos}, pos + 1),
             skipped' = skipped
      PROVE  IInv'
  <2>1. skipped' = skipped \cup {}
    BY <1>3
  <2>2. Descend(a, kind, {pos}, pos + 1)
    BY <1>3
  <2> QED BY <2>1, <2>2, Places, DescendKeeps
<1>4. ASSUME Descend(a, "element", {}, pos), skipped' = skipped
      PROVE  IInv'
  <2>1. /\ skipped' = skipped \cup {} /\ "element" \in Kind
        /\ Descend(a, "element", {}, pos)
    BY <1>4 DEF Kind
  <2>2. pos <= pos /\ {} \cup {} = pos..(pos - 1)
    BY Places
  <2> QED BY <2>1, <2>2, Places, DescendKeeps
<1>5. "element" \in Kind /\ "toc" \in Kind /\ "preamblesection" \in Kind
  BY DEF Kind
<1>6. CASE KeepChunk(a)
  BY <1>1, <1>6 DEF KeepChunk
<1>7. CASE SkipChunk(a)
  BY <1>2, <1>7 DEF SkipChunk
<1>8. CASE OpenElement(a)
  BY <1>3, <1>5, <1>8 DEF OpenElement
<1>9. CASE WrapElement(a)
  BY <1>4, <1>9 DEF WrapElement
<1>10. CASE OpenList(a)
  BY <1>10, OpenListKeeps
<1>11. CASE make_rfcheader(a)
  BY <1>11, RfcHeaderKeeps
<1>12. CASE make_datum(a)
  BY <1>1, <1>2, <1>12 DEF make_datum
<1>13. CASE make_dnr(a)
  BY <1>1, <1>13 DEF make_dnr
<1>14. CASE make_delmal(a)
  BY <1>3, <1>5, <1>14 DEF make_delmal
<1>15. CASE make_instans(a)
  BY <1>3, <1>5, <1>15 DEF make_instans
<1>16. CASE skip_pagebreak(a)
  BY <1>1, <1>16 DEF skip_pagebreak
<1>17. CASE make_preamblesection(a)
  <2>1. PICK kind \in Kind : Descend(a, kind, {pos}, pos + 1)
    BY <1>5, <1>17 DEF make_preamblesection
  <2> QED BY <1>3, <1>17, <2>1 DEF make_preamblesection
<1>18. CASE make_appendix(a)
  BY <1>18, AppendixKeeps
<1> QED BY <1>6, <1>7, <1>8, <1>9, <1>10, <1>11, <1>12, <1>13, <1>14, <1>15,
           <1>16, <1>17, <1>18 DEF Constructors

(* The innermost element is dropped with all its chunks. *)
LEMMA StopAheadKeeps ==
  ASSUME IInv, NEW a, StopAhead(a)
  PROVE  IInv'
<1> DEFINE n == Len(frames)
           fs == SubSeq(frames, 1, n - 1)
<1>1. CASE n = 1
  BY <1>1, FailKeeps DEF StopAhead
<1>2. CASE n # 1
  <2>1. /\ GiveBack(fs, stack, a.mem) /\ lost' = lost \cup frames[n].held
        /\ doc' = doc /\ pos' = pos
    BY <1>2 DEF StopAhead
  <2>2. /\ Nested(frames) /\ Partition(frames, skipped \cup lost, pos - 1)
        /\ pos \in 1..(Len(doc) + 1)
    BY DEF IInv, Placed
  <2>3. /\ Nested(fs)
        /\ Partition(fs, (skipped \cup lost) \cup frames[n].held, pos - 1)
    BY <1>2, <2>2, PartitionDrop
  <2>4. (skipped \cup lost) \cup frames[n].held = skipped \cup lost'
    BY <2>1
  <2> HIDE DEF fs, n
  <2>5. Nested(frames') /\ Partition(frames', skipped' \cup lost', pos - 1)
    BY <2>1, <2>3, <2>4, GiveBackKeeps
  <2> QED BY <2>1, <2>2, <2>5, InPlace
<1> QED BY <1>1, <1>2

(* An element that ends is given to its parent where the reader stands. *)
LEMMA EndKeeps ==
  ASSUME IInv, NEW stk, NEW m, GiveBack(frames, stk, m),
         UNCHANGED <<doc, pos, lost>>
  PROVE  IInv'
<1>1. /\ Nested(frames) /\ Partition(frames, skipped \cup lost, pos - 1)
      /\ pos \in 1..(Len(doc) + 1)
  BY DEF IInv, Placed
<1>2. Nested(frames') /\ Partition(frames', skipped' \cup lost, pos - 1)
  BY <1>1, GiveBackKeeps
<1> QED BY <1>1, <1>2, InPlace

(* Every step keeps the partition. *)
LEMMA StepPreserves == IInv /\ [Next]_vars => IInv'
<1> SUFFICES ASSUME IInv, [Next]_vars PROVE IInv'
  OBVIOUS
<1>1. CASE EndOfChunks
  BY <1>1, EndKeeps DEF EndOfChunks
<1>2. CASE Turn
  <2>1. pos <= Len(doc)
    BY <1>2 DEF Turn
  <2>2. PICK a : Stuck(a) \/ StopAhead(a) \/ LeaveElement(a) \/ Constructors(a)
    BY <1>2 DEF Turn
  <2>3. CASE Stuck(a)
    BY <2>3, FailKeeps DEF Stuck
  <2>4. CASE StopAhead(a)
    BY <2>4, StopAheadKeeps
  <2>5. CASE LeaveElement(a)
    <3>1. PICK stk : GiveBack(frames, stk, a.mem)
      BY <2>5 DEF LeaveElement
    <3>2. UNCHANGED <<doc, pos, lost>>
      BY <2>5 DEF LeaveElement
    <3> QED BY <3>1, <3>2, EndKeeps
  <2>6. CASE Constructors(a)
    BY <2>1, <2>6, ConstructorsKeep
  <2> QED BY <2>2, <2>3, <2>4, <2>5, <2>6
<1>3. CASE UNCHANGED vars
  BY <1>3 DEF vars, IInv, Placed
<1> QED BY <1>1, <1>2, <1>3 DEF Next

(* Every chunk that was read is in one element, left out on purpose or     *)
(* dropped by a StopIteration, and in no two of these, for every grammar   *)
(* and document: what a constructor reads itself is neither lost nor kept  *)
(* twice (make_children, make_child and the constructors).                 *)
THEOREM ChunksConserved == Spec => []Conserved
<1>1. Init => IInv
  BY InitEstablishes
<1>2. IInv /\ [Next]_vars => IInv'
  BY StepPreserves
<1>3. IInv => Conserved
  BY ConservedIs DEF IInv
<1> QED BY <1>1, <1>2, <1>3, PTL DEF Spec

-----------------------------------------------------------------------------
(* What the lines of the tables say.                                       *)

(* How far in the element of a state is; the outermost ones are not in any. *)
Depth(s) ==
  IF s \in {"preamble-section", "preamblesection", "abstract", "kapitel",
            "delmal", "endmeta", "frontmatter", "protokollsutdrag",
            "appendix"} THEN 1
  ELSE IF s \in {"section", "instans", "paragraf", "forfattningsforslag"} THEN 2
  ELSE IF s \in {"subsection", "betankande", "skiljaktig", "tillagg",
                 "blockquote"} THEN 3
  ELSE IF s \in {"subsubsection", "unorderedsection", "dom"} THEN 4
  ELSE IF s \in {"unorderedsubsection", "domskal", "domslut", "ul-list"} THEN 5
  ELSE IF s \in {"listitem", "bulletlist", "strecksats"} THEN 6 ELSE 0

Outermost == {"body", "doctitle", "preamble", "after-preamble"}
Opening == {"open", "wrap", "list", "make_delmal", "make_instans",
            "make_preamblesection", "make_appendix"}
Reading == {"keep", "skip", "make_rfcheader", "make_datum", "make_dnr",
            "skip_pagebreak"}

Grammar == {"rfc", "w3c", "jo", "jk", "direktiv", "dv", "myndfskr", "offtryck"}

Rows ==
  [rfc |-> RfcRows, w3c |-> W3cRows, jo |-> JoRows, jk |-> JkRows,
   direktiv |-> DirektivRows, dv |-> DvRows, myndfskr |-> MyndfskrRows,
   offtryck |-> OfftryckRows]

(* Of the recognizers in one of these sets one always says yes.            *)
Certain ==
  [rfc |-> {{"doctitle"}, {"paragraph"}}, w3c |-> {{"other"}},
   jo |-> {{"paragraph"}, {"blockquote", "normal"}}, jk |-> {{"paragraph"}},
   direktiv |-> {{"paragraph"}}, dv |-> {{"paragraph"}},
   myndfskr |-> {{"stycke"}}, offtryck |-> {{"paragraph"}}]

(* The states in which the table has entries for all of one of these sets. *)
States ==
  [rfc |-> {"doctitle", "preamble", "preamble-section", "section",
            "subsection", "subsubsection", "ul-list", "listitem"},
   w3c |-> {"body", "preamblesection", "section", "subsection",
            "subsubsection"},
   jo |-> {"body", "abstract", "section", "blockquote"},
   jk |-> {"body", "section", "subsection", "subsubsection"},
   direktiv |-> {"body", "section", "subsection", "unorderedsection",
                 "strecksats"},
   dv |-> {"body", "delmal", "instans", "betankande", "endmeta", "dom",
           "domskal", "domslut", "skiljaktig", "tillagg"},
   myndfskr |-> {"body", "kapitel", "paragraf"},
   offtryck |-> {"body", "frontmatter", "preamblesection",
                 "forfattningsforslag", "protokollsutdrag", "appendix",
                 "section", "subsection", "subsubsection",
                 "unorderedsection", "unorderedsubsection", "bulletlist"}]

(* What the lines of an RFC say of the outermost states. *)
RfcFits(s, r, row) ==
  /\ s = "body" => /\ r = "rfcheader" /\ row.make = "make_rfcheader"
                   /\ row.new = "doctitle"
  /\ s = "doctitle" => row.make = "keep" /\ row.new = "preamble"
  /\ s = "preamble" => row.make \in {"open", "wrap"} /\ row.new = "preamble-section"
  /\ s = "after-preamble" => row.make = "open" /\ row.new = "section"
  /\ s \notin Outermost =>
       /\ row.make \in Reading => row.new = Stay
       /\ row.make = "leave" /\ row.new # Stay =>
            s = "preamble-section" /\ row.new = "after-preamble" /\ r = "section"
       /\ row.make = "leave" /\ s = "section" => r = "section"
       /\ row.make \notin {"make_rfcheader", "make_appendix"}

(* The grammars with numbered sections. *)
Numberings == {"w3c", "jo", "jk", "direktiv"}

(* What those of the grammars with numbered sections say of them.          *)
SectionFits(s, r, row) ==
  /\ row.make \notin {"make_rfcheader", "make_appendix"}
  /\ r = "section" => row.make \in {"open", "leave"}
  /\ s = "strecksats" => r = "strecksats" \/ row.make = "leave"

(* What an entry says: an element is opened in a state that is further in, *)
(* and the outermost state is never left.                                  *)
Fits(g, s, r, row) ==
  /\ r # "none" /\ row.make \in Opening \cup Reading \cup {"leave"}
  /\ row.make \in Opening => Depth(s) < Depth(row.new) /\ row.new \in States[g]
  /\ row.make = "list" => row.new = "ul-list" /\ g = "rfc"
  /\ row.make = "leave" => s \notin Outermost
  /\ IF g = "rfc" THEN RfcFits(s, r, row)
     ELSE row.make \in Reading \cup {"leave"} => row.new = Stay
  /\ g \in Numberings => SectionFits(s, r, row)

(* A later line names the pair too. *)
Later(rows, i, s, r) == \E j \in (i + 1)..Len(rows) : Names(rows[j], <<s, r>>)

(* Every line of the table fits, or is replaced by a later one. *)
RowsFit(g) ==
  \A i \in DOMAIN Rows[g] :
    \A s \in Rows[g][i].states, r \in Rows[g][i].recognizers :
      Fits(g, s, r, Rows[g][i]) \/ Later(Rows[g], i, s, r)

(* The entries are the pairs that a line names. *)
LEMMA EntryIs ==
  \A rows, s, r :
    <<s, r>> \in Entries(rows) <=>
      \E i \in DOMAIN rows : s \in rows[i].states /\ r \in rows[i].recognizers
BY DEF Entries

(* The lines of W3C standards fit.                                         *)
LEMMA W3cFit == RowsFit("w3c")
BY DEF RowsFit, Rows, Fits, SectionFits, Depth, Opening, Reading, Outermost, States, Stay,
       Row, Leave, Open, Keep, W3cRows, Later, Names, Numberings

(* The lines of the Chancellor of Justice fit.                             *)
LEMMA JkFit == RowsFit("jk")
BY DEF RowsFit, Rows, Fits, SectionFits, Depth, Opening, Reading, Outermost, States, Stay,
       Row, Leave, Open, Keep, JkRows, Later, Names, Numberings

(* The lines of regulations fit.                                           *)
LEMMA MyndfskrFit == RowsFit("myndfskr")
BY DEF RowsFit, Rows, Fits, Depth, Opening, Reading, Outermost, States, Stay,
       Row, Leave, Open, Keep, MyndfskrRows, Later, Names, Numberings

(* The lines of the Ombudsmen fit.                                         *)
LEMMA JoFit == RowsFit("jo")
<1>1. Rows["jo"] = JoRows /\ DOMAIN JoRows = 1..12 /\ Len(JoRows) = 12
  BY DEF Rows, JoRows
<1> SUFFICES ASSUME NEW i \in 1..12, NEW s \in JoRows[i].states,
                    NEW r \in JoRows[i].recognizers
             PROVE  Fits("jo", s, r, JoRows[i]) \/ Later(JoRows, i, s, r)
  BY <1>1 DEF RowsFit
<1> USE DEF Fits, SectionFits, Depth, Opening, Reading, Outermost, States, Stay, Row, Leave,
            Open, Keep, Later, Names, Numberings
<1>2. CASE i \in 1..6
  BY <1>1, <1>2, SMTT(60) DEF JoRows
<1>3. CASE i \in 7..12
  BY <1>1, <1>3, SMTT(60) DEF JoRows
<1> QED BY <1>2, <1>3

(* The lines of terms of reference fit.                                    *)
LEMMA DirektivFit == RowsFit("direktiv")
<1>1. Rows["direktiv"] = DirektivRows /\ DOMAIN DirektivRows = 1..9 /\ Len(DirektivRows) = 9
  BY DEF Rows, DirektivRows
<1> SUFFICES ASSUME NEW i \in 1..9, NEW s \in DirektivRows[i].states,
                    NEW r \in DirektivRows[i].recognizers
             PROVE  Fits("direktiv", s, r, DirektivRows[i]) \/ Later(DirektivRows, i, s, r)
  BY <1>1 DEF RowsFit
<1> USE DEF Fits, SectionFits, Depth, Opening, Reading, Outermost, States, Stay, Row, Leave,
            Open, Keep, Later, Names, Numberings
<1>2. CASE i \in 1..9
  BY <1>1, <1>2, SMTT(60) DEF DirektivRows
<1> QED BY <1>2

(* The lines of RFCs fit.                                                  *)
LEMMA RfcFit == RowsFit("rfc")
<1>1. Rows["rfc"] = RfcRows /\ DOMAIN RfcRows = 1..18 /\ Len(RfcRows) = 18
  BY DEF Rows, RfcRows
<1> SUFFICES ASSUME NEW i \in 1..18, NEW s \in RfcRows[i].states,
                    NEW r \in RfcRows[i].recognizers
             PROVE  Fits("rfc", s, r, RfcRows[i]) \/ Later(RfcRows, i, s, r)
  BY <1>1 DEF RowsFit
<1> USE DEF Fits, RfcFits, Depth, Opening, Reading, Outermost, States, Stay, Row, Leave,
            Open, Keep, Later, Names, Numberings
<1>2. CASE i \in 1..6
  BY <1>1, <1>2, SMTT(60) DEF RfcRows
<1>3. CASE i \in 7..12
  BY <1>1, <1>3, SMTT(60) DEF RfcRows
<1>4. CASE i \in 13..18
  BY <1>1, <1>4, SMTT(60) DEF RfcRows
<1> QED BY <1>2, <1>3, <1>4

(* The lines of court reports fit.                                         *)
LEMMA DvFit == RowsFit("dv")
<1>1. Rows["dv"] = DvRows /\ DOMAIN DvRows = 1..18 /\ Len(DvRows) = 18
  BY DEF Rows, DvRows
<1> SUFFICES ASSUME NEW i \in 1..18, NEW s \in DvRows[i].states,
                    NEW r \in DvRows[i].recognizers
             PROVE  Fits("dv", s, r, DvRows[i]) \/ Later(DvRows, i, s, r)
  BY <1>1 DEF RowsFit
<1> USE DEF Fits, Depth, Opening, Reading, Outermost, States, Stay, Row, Leave,
            Open, Keep, Later, Names, Numberings
<1>2. CASE i \in 1..6
  BY <1>1, <1>2, SMTT(60) DEF DvRows
<1>3. CASE i \in 7..12
  BY <1>1, <1>3, SMTT(60) DEF DvRows
<1>4. CASE i \in 13..18
  BY <1>1, <1>4, SMTT(60) DEF DvRows
<1> QED BY <1>2, <1>3, <1>4

(* The lines of bills and reports fit.                                     *)
LEMMA OfftryckFit == RowsFit("offtryck")
<1>1. Rows["offtryck"] = OfftryckRows /\ DOMAIN OfftryckRows = 1..27 /\ Len(OfftryckRows) = 27
  BY DEF Rows, OfftryckRows
<1> SUFFICES ASSUME NEW i \in 1..27, NEW s \in OfftryckRows[i].states,
                    NEW r \in OfftryckRows[i].recognizers
             PROVE  Fits("offtryck", s, r, OfftryckRows[i]) \/ Later(OfftryckRows, i, s, r)
  BY <1>1 DEF RowsFit
<1> USE DEF Fits, Depth, Opening, Reading, Outermost, States, Stay, Row, Leave,
            Open, Keep, Later, Names, Numberings
<1>2. CASE i \in 1..7
  BY <1>1, <1>2, SMTT(60) DEF OfftryckRows
<1>3. CASE i \in 8..14
  BY <1>1, <1>3, SMTT(60) DEF OfftryckRows
<1>4. CASE i \in 15..21
  BY <1>1, <1>4, SMTT(60) DEF OfftryckRows
<1>5. CASE i \in 22..27
  BY <1>1, <1>5, SMTT(60) DEF OfftryckRows
<1> QED BY <1>2, <1>3, <1>4, <1>5

(* The lines of every grammar fit.                                         *)
LEMMA AllFit == \A g \in Grammar : RowsFit(g)
BY W3cFit, JkFit, MyndfskrFit, JoFit, DirektivFit, RfcFit, DvFit, OfftryckFit
   DEF Grammar

(* A list, of lines or of recognizers. *)
Listed(rows) == Len(rows) \in Nat /\ DOMAIN rows = 1..Len(rows)

(* The tables are made of the lines. *)
LEMMA TablesOf ==
  ASSUME NEW g \in Grammar
  PROVE  Tables[g] = SetTransitions(Rows[g]) /\ Listed(Rows[g])
<1>1. Listed(RfcRows)
  BY DEF Listed, RfcRows
<1>2. Listed(W3cRows)
  BY DEF Listed, W3cRows
<1>3. Listed(JoRows)
  BY DEF Listed, JoRows
<1>4. Listed(JkRows)
  BY DEF Listed, JkRows
<1>5. Listed(DirektivRows)
  BY DEF Listed, DirektivRows
<1>6. Listed(DvRows)
  BY DEF Listed, DvRows
<1>7. Listed(MyndfskrRows)
  BY DEF Listed, MyndfskrRows
<1>8. Listed(OfftryckRows)
  BY DEF Listed, OfftryckRows
<1>9. CASE g = "rfc"
  BY <1>1, <1>9 DEF Tables, Rows, RfcTable
<1>10. CASE g = "w3c"
  BY <1>2, <1>10 DEF Tables, Rows, W3cTable
<1>11. CASE g = "jo"
  BY <1>3, <1>11 DEF Tables, Rows, JoTable
<1>12. CASE g = "jk"
  BY <1>4, <1>12 DEF Tables, Rows, JkTable
<1>13. CASE g = "direktiv"
  BY <1>5, <1>13 DEF Tables, Rows, DirektivTable
<1>14. CASE g = "dv"
  BY <1>6, <1>14 DEF Tables, Rows, DvTable
<1>15. CASE g = "myndfskr"
  BY <1>7, <1>15 DEF Tables, Rows, MyndfskrTable
<1>16. CASE g = "offtryck"
  BY <1>8, <1>16 DEF Tables, Rows, OfftryckTable
<1> QED BY <1>9, <1>10, <1>11, <1>12, <1>13, <1>14, <1>15, <1>16 DEF Grammar

(* An entry is the last line that names it.                                *)
LEMMA LastLine ==
  ASSUME NEW rows, Listed(rows), NEW s, NEW r, <<s, r>> \in DOMAIN SetTransitions(rows)
  PROVE  \E i \in DOMAIN rows :
           /\ SetTransitions(rows)[<<s, r>>] = rows[i]
           /\ s \in rows[i].states /\ r \in rows[i].recognizers
           /\ ~ Later(rows, i, s, r)
<1> DEFINE e == <<s, r>>
           n == Len(rows)
           named == {i \in DOMAIN rows : Names(rows[i], e)}
           back == {n - i : i \in named}
           Is(i) == /\ Names(rows[i], e)
                    /\ \A j \in (i + 1)..n : ~ Names(rows[j], e)
<1>1. /\ e \in Entries(rows) /\ n \in Nat /\ DOMAIN rows = 1..n
  BY DEF SetTransitions, Listed
<1>2. PICK i \in DOMAIN rows : s \in rows[i].states /\ r \in rows[i].recognizers
  BY <1>1, EntryIs
<1>3. i \in named
  BY <1>2 DEF Names
<1>4. back \in SUBSET Nat /\ back # {}
  BY <1>1, <1>3
<1>5. PICK x \in back : \A y \in back : x <= y
  BY <1>4, Least
<1>6. PICK m \in named : x = n - m
  BY <1>5
<1>7. m \in DOMAIN rows /\ Is(m)
  <2>1. ASSUME NEW j \in (m + 1)..n, Names(rows[j], e) PROVE FALSE
    <3>1. j \in 1..n /\ j > m /\ m \in 1..n
      BY <1>1, <1>6
    <3>2. n - j \in back
      BY <1>1, <2>1, <3>1
    <3>3. n - m <= n - j
      BY <1>5, <1>6, <3>2
    <3> QED BY <1>1, <3>1, <3>3
  <2> QED BY <1>6, <2>1
<1> DEFINE k == CHOOSE j \in DOMAIN rows : Is(j)
<1>8. k \in DOMAIN rows /\ Is(k)
  BY <1>7
<1>9. SetTransitions(rows)[e] = rows[k]
  BY <1>1 DEF SetTransitions
<1> HIDE DEF k
<1>10. s \in rows[k].states /\ r \in rows[k].recognizers /\ ~ Later(rows, k, s, r)
  BY <1>8 DEF Names, Later
<1> QED BY <1>8, <1>9, <1>10

(* What the table says of an entry fits.                                   *)
LEMMA TableFits ==
  ASSUME NEW g \in Grammar, NEW s, NEW r, <<s, r>> \in DOMAIN Tables[g]
  PROVE  Fits(g, s, r, Tables[g][<<s, r>>])
<1>1. Tables[g] = SetTransitions(Rows[g]) /\ Listed(Rows[g])
  BY TablesOf
<1>2. PICK i \in DOMAIN Rows[g] :
        /\ SetTransitions(Rows[g])[<<s, r>>] = Rows[g][i]
        /\ s \in Rows[g][i].states /\ r \in Rows[g][i].recognizers
        /\ ~ Later(Rows[g], i, s, r)
  BY <1>1, LastLine
<1>3. Fits(g, s, r, Rows[g][i])
  BY <1>2, AllFit DEF RowsFit
<1> QED BY <1>1, <1>2, <1>3

(* A grammar has a table entry for what is certain in each of its states.  *)
LEMMA Covered ==
  ASSUME NEW g \in Grammar, NEW s \in States[g]
  PROVE  \E c \in Certain[g] : \A r \in c : <<s, r>> \in DOMAIN Tables[g]
<1>1. DOMAIN Tables[g] = Entries(Rows[g])
  BY TablesOf DEF SetTransitions
<1> USE DEF States, Certain, Rows, Stay, Row, Leave, Open, Keep
<1>2. CASE g = "rfc"
  <2>1. s = "doctitle" => <<s, "doctitle">> \in Entries(RfcRows)
    BY EntryIs DEF RfcRows
  <2>2. s # "doctitle" => <<s, "paragraph">> \in Entries(RfcRows)
    BY <1>2, EntryIs DEF RfcRows
  <2> QED BY <1>1, <1>2, <2>1, <2>2
<1>3. CASE g = "w3c"
  <2>1. <<s, "other">> \in Entries(W3cRows)
    BY <1>3, EntryIs DEF W3cRows
  <2> QED BY <1>1, <1>3, <2>1
<1>4. CASE g = "jo"
  <2>1. s # "blockquote" => <<s, "paragraph">> \in Entries(JoRows)
    BY <1>4, EntryIs DEF JoRows
  <2>2. /\ <<"blockquote", "blockquote">> \in Entries(JoRows)
        /\ <<"blockquote", "normal">> \in Entries(JoRows)
    BY EntryIs DEF JoRows
  <2> QED BY <1>1, <1>4, <2>1, <2>2
<1>5. CASE g = "jk"
  <2>1. <<s, "paragraph">> \in Entries(JkRows)
    BY <1>5, EntryIs DEF JkRows
  <2> QED BY <1>1, <1>5, <2>1
<1>6. CASE g = "direktiv"
  <2>1. <<s, "paragraph">> \in Entries(DirektivRows)
    BY <1>6, EntryIs DEF DirektivRows
  <2> QED BY <1>1, <1>6, <2>1
<1>7. CASE g = "dv"
  <2>1. <<s, "paragraph">> \in Entries(DvRows)
    BY <1>7, EntryIs DEF DvRows
  <2> QED BY <1>1, <1>7, <2>1
<1>8. CASE g = "myndfskr"
  <2>1. <<s, "stycke">> \in Entries(MyndfskrRows)
    BY <1>8, EntryIs DEF MyndfskrRows
  <2> QED BY <1>1, <1>8, <2>1
<1>9. CASE g = "offtryck"
  <2>1. <<s, "paragraph">> \in Entries(OfftryckRows)
    BY <1>9, EntryIs DEF OfftryckRows
  <2> QED BY <1>1, <1>9, <2>1
<1> QED BY <1>2, <1>3, <1>4, <1>5, <1>6, <1>7, <1>8, <1>9 DEF Grammar

(* Outside the body an RFC is covered too, and so are numbered sections.   *)
LEMMA OthersCovered ==
  /\ <<"body", "rfcheader">> \in DOMAIN Tables.rfc
  /\ <<"after-preamble", "section">> \in DOMAIN Tables.rfc
  /\ \A g \in Numberings : \A s \in States[g] :
       s # "strecksats" => <<s, "section">> \in DOMAIN Tables[g]
<1>1. \A g \in Grammar : DOMAIN Tables[g] = Entries(Rows[g])
  BY TablesOf DEF SetTransitions
<1> USE DEF Rows, Stay, Row, Leave, Open, Keep
<1>2. /\ <<"body", "rfcheader">> \in Entries(Rows.rfc)
      /\ <<"after-preamble", "section">> \in Entries(Rows.rfc)
  BY EntryIs DEF RfcRows
<1>3. \A s \in States.w3c : <<s, "section">> \in Entries(Rows.w3c)
  BY EntryIs DEF W3cRows, States
<1>4. \A s \in States.jo : <<s, "section">> \in Entries(Rows.jo)
  BY EntryIs DEF JoRows, States
<1>5. \A s \in States.jk : <<s, "section">> \in Entries(Rows.jk)
  BY EntryIs DEF JkRows, States
<1>6. \A s \in States.direktiv :
        s # "strecksats" => <<s, "section">> \in Entries(Rows.direktiv)
  BY EntryIs DEF DirektivRows, States
<1> QED
  <2> HIDE DEF Rows
  <2> QED BY <1>1, <1>2, <1>3, <1>4, <1>5, <1>6 DEF Numberings, Grammar
-----------------------------------------------------------------------------
(* What is recognized.                                                     *)

(* A list of recognizers with r in it.                                     *)
Listing(rs) == \E S : rs \in Seq(S)
Lists(rs, r) == Listing(rs) /\ \E i \in DOMAIN rs : rs[i] = r

(* Lists one after the other are a list. *)
LEMMA ListingOn ==
  ASSUME NEW rs, Listing(rs), NEW qs, Listing(qs)
  PROVE  Listing(rs \o qs)
<1>1. PICK S, T : rs \in Seq(S) /\ qs \in Seq(T)
  BY DEF Listing
<1>2. rs \in Seq(S \cup T) /\ qs \in Seq(S \cup T)
  BY <1>1
<1> QED BY <1>2 DEF Listing

(* What is in the latter of two lists is in both together. *)
LEMMA ListsOn ==
  ASSUME NEW rs, Listing(rs), NEW qs, NEW r, Lists(qs, r)
  PROVE  Lists(rs \o qs, r)
<1>1. PICK S, T : rs \in Seq(S) /\ qs \in Seq(T)
  BY DEF Listing, Lists
<1>2. PICK i \in DOMAIN qs : qs[i] = r
  BY DEF Lists
<1>3. rs \in Seq(S \cup T) /\ qs \in Seq(S \cup T)
  BY <1>1
<1>4. /\ Len(rs) + i \in DOMAIN (rs \o qs)
      /\ (rs \o qs)[Len(rs) + i] = qs[i]
  BY <1>2, <1>3
<1> QED BY <1>2, <1>4, ListingOn DEF Lists

(* Short lists of names are lists, with the last name in them. *)
LEMMA NamesListed ==
  /\ Listing(<<>>)
  /\ \A a : Listing(<<a>>) /\ Lists(<<a>>, a)
  /\ \A a, b : Listing(<<a, b>>) /\ Lists(<<a, b>>, b)
  /\ \A a, b, c : Listing(<<a, b, c>>) /\ Lists(<<a, b, c>>, c)
  /\ \A a, b, c, d : Listing(<<a, b, c, d>>)
<1>1. \A a, b, c, d, S : a \in S /\ b \in S /\ c \in S /\ d \in S =>
         /\ <<>> \in Seq(S) /\ <<a>> \in Seq(S) /\ <<a, b>> \in Seq(S)
         /\ <<a, b, c>> \in Seq(S) /\ <<a, b, c, d>> \in Seq(S)
  OBVIOUS
<1>2. \A a, b, c, d : /\ Listing(<<>>) /\ Listing(<<a>>) /\ Listing(<<a, b>>)
                      /\ Listing(<<a, b, c>>) /\ Listing(<<a, b, c, d>>)
  <2> SUFFICES ASSUME NEW a, NEW b, NEW c, NEW d
               PROVE  /\ Listing(<<>>) /\ Listing(<<a>>) /\ Listing(<<a, b>>)
                      /\ Listing(<<a, b, c>>) /\ Listing(<<a, b, c, d>>)
    OBVIOUS
  <2>1. PICK S : S = {a, b, c, d}
    OBVIOUS
  <2>2. a \in S /\ b \in S /\ c \in S /\ d \in S
    BY <2>1
  <2> QED BY <1>1, <2>2 DEF Listing
<1>3. ASSUME NEW a PROVE Lists(<<a>>, a)
  <2> DEFINE t == <<a>>
  <2>1. Listing(t)
    BY <1>2
  <2>2. 1 \in DOMAIN t /\ t[1] = a
    OBVIOUS
  <2> HIDE DEF t
  <2>3. Lists(t, a)
    BY <2>1, <2>2 DEF Lists
  <2> QED BY <2>3 DEF t
<1>4. ASSUME NEW a, NEW b PROVE Lists(<<a, b>>, b)
  <2> DEFINE t == <<a, b>>
  <2>1. Listing(t)
    BY <1>2
  <2>2. 2 \in DOMAIN t /\ t[2] = b
    OBVIOUS
  <2> HIDE DEF t
  <2>3. Lists(t, b)
    BY <2>1, <2>2 DEF Lists
  <2> QED BY <2>3 DEF t
<1>5. ASSUME NEW a, NEW b, NEW c PROVE Lists(<<a, b, c>>, c)
  <2> DEFINE t == <<a, b, c>>
  <2>1. Listing(t)
    BY <1>2
  <2>2. 3 \in DOMAIN t /\ t[3] = c
    OBVIOUS
  <2> HIDE DEF t
  <2>3. Lists(t, c)
    BY <2>1, <2>2 DEF Lists
  <2> QED BY <2>3 DEF t
<1> QED BY <1>2, <1>3, <1>4, <1>5

(* Whatever the configuration, a paragraph is recognized in a bill. *)
LEMMA OfftryckLists ==
  \A c, preset : Lists(OfftryckRecognizers(c, preset), "paragraph")
<1> SUFFICES ASSUME NEW c, NEW preset
             PROVE  Lists(OfftryckRecognizers(c, preset), "paragraph")
  OBVIOUS
<1> DEFINE first == IF preset THEN <<"prophuvudrubrik", "proprubrik">> ELSE <<>>
           extract == IF preset THEN <<"protokollsutdrag">> ELSE <<>>
           subs == <<"subsection", "subsubsection", "preamblesection",
                     "forfattningsforslag">>
           mid == IF preset THEN <<>> ELSE <<"unorderedsection">>
           end == <<"unorderedsubsection", "bulletlist", "paragraph">>
           rest == subs \o mid \o end
           some == first \o <<"pagebreak", "nonessential", "section">>
           all == first \o <<"pagebreak", "appendix", "nonessential">>
           more == all \o extract \o <<"section">>
           brief == <<"pagebreak", "paragraph">>
<1>1. /\ Listing(first) /\ Listing(extract) /\ Listing(subs) /\ Listing(mid)
      /\ Listing(<<"pagebreak", "nonessential", "section">>)
      /\ Listing(<<"pagebreak", "appendix", "nonessential">>)
      /\ Listing(<<"section">>)
  BY NamesListed
<1>2. Lists(end, "paragraph") /\ Lists(brief, "paragraph")
  BY NamesListed
<1>3. OfftryckRecognizers(c, preset) \in
        {first \o brief, some \o extract \o rest, more \o rest}
  <2>1. CASE c = "simple"
    BY <2>1, Zenon DEF OfftryckRecognizers
  <2>2. CASE c = "noappendix"
    BY <2>2, Zenon DEF OfftryckRecognizers
  <2>3. CASE c # "simple" /\ c # "noappendix"
    BY <2>3, Zenon DEF OfftryckRecognizers
  <2> QED BY <2>1, <2>2, <2>3
<1> HIDE DEF first, extract, subs, mid, end, brief
<1>4. Listing(subs \o mid)
  BY <1>1, ListingOn
<1>5. Lists(rest, "paragraph") /\ Lists(first \o brief, "paragraph")
  BY <1>1, <1>2, <1>4, ListsOn
<1>6. Listing(some \o extract) /\ Listing(more)
  BY <1>1, ListingOn
<1> HIDE DEF some, more, rest, all
<1>7. /\ Lists((some \o extract) \o rest, "paragraph")
      /\ Lists(more \o rest, "paragraph")
  BY <1>5, <1>6, ListsOn
<1> QED BY <1>3, <1>5, <1>7

(* So it is in terms of reference; but for the simplest configuration the  *)
(* sections come first there.                                              *)
LEMMA DirektivLists ==
  \A c : /\ Lists(DirektivRecognizers(c), "paragraph")
         /\ c # "simple" =>
              Lists(DirektivRecognizers(c), "section")
              /\ DirektivRecognizers(c)[1] = "section"
<1> DEFINE end == <<"header", "strecksats", "paragraph">>
           two == <<"section", "subsection">>
           none == <<>>
           five == <<"section", "subsection", "header", "strecksats", "paragraph">>
<1>1. \A c : DirektivRecognizers(c) = IF c = "simple" THEN none \o end ELSE two \o end
  BY DEF DirektivRecognizers
<1>2. Lists(end, "paragraph") /\ Listing(none) /\ Listing(two)
  BY NamesListed
<1>3. \E i \in DOMAIN (two \o end) : (two \o end)[i] = "section" /\ i = 1
  OBVIOUS
<1> HIDE DEF none, two, end
<1>4. Lists(none \o end, "paragraph") /\ Lists(two \o end, "paragraph")
  BY <1>2, ListsOn
<1> QED BY <1>1, <1>3, <1>4 DEF Lists

(* A grammar is one of those the tables are for. *)
LEMMA Profiled ==
  ASSUME profile \in DOMAIN Profile
  PROVE  P.grammar \in Grammar
BY ProfileAssumption DEF P, Grammar

(* A recognizer is in a list; only those of SeenFirst come before section. *)
Has(rs, r) == \E i \in DOMAIN rs : rs[i] = r
SectionFirst(rs) ==
  \E i \in DOMAIN rs : rs[i] = "section" /\ \A j \in 1..(i - 1) : rs[j] \in SeenFirst

(* The recognizers of a grammar, those that are certain among them.        *)
LEMMA OneList ==
  /\ Listed(RfcRecognizers) /\ Has(RfcRecognizers, "doctitle")
  /\ Has(RfcRecognizers, "paragraph") /\ Has(RfcRecognizers, "rfcheader")
  /\ Has(RfcRecognizers, "section")
  /\ Listed(W3cRecognizers) /\ Has(W3cRecognizers, "other")
  /\ SectionFirst(W3cRecognizers)
  /\ Listed(JoRecognizers) /\ Has(JoRecognizers, "paragraph")
  /\ Has(JoRecognizers, "blockquote") /\ Has(JoRecognizers, "normal")
  /\ SectionFirst(JoRecognizers)
  /\ Listed(JkRecognizers) /\ Has(JkRecognizers, "paragraph")
  /\ SectionFirst(JkRecognizers)
  /\ Listed(MyndfskrRecognizers) /\ Has(MyndfskrRecognizers, "stycke")
<1> USE DEF Listed, Has, SectionFirst, SeenFirst
<1>1. /\ Listed(RfcRecognizers) /\ Has(RfcRecognizers, "doctitle")
      /\ Has(RfcRecognizers, "paragraph") /\ Has(RfcRecognizers, "rfcheader")
      /\ Has(RfcRecognizers, "section")
  BY DEF RfcRecognizers
<1>2. /\ Listed(W3cRecognizers) /\ Has(W3cRecognizers, "other")
      /\ SectionFirst(W3cRecognizers)
  BY DEF W3cRecognizers
<1>3. /\ Listed(JoRecognizers) /\ Has(JoRecognizers, "paragraph")
      /\ Has(JoRecognizers, "blockquote") /\ Has(JoRecognizers, "normal")
  BY DEF JoRecognizers
<1>4. SectionFirst(JoRecognizers)
  <2>1. /\ 6 \in DOMAIN JoRecognizers /\ JoRecognizers[6] = "section"
        /\ \A j \in 1..5 : JoRecognizers[j] \in SeenFirst
    BY DEF JoRecognizers
  <2>2. \A j \in 1..(6 - 1) : JoRecognizers[j] \in SeenFirst
    BY <2>1
  <2> QED BY <2>1, <2>2
<1>5. /\ Listed(JkRecognizers) /\ Has(JkRecognizers, "paragraph")
      /\ SectionFirst(JkRecognizers)
  BY DEF JkRecognizers
<1>6. Listed(MyndfskrRecognizers) /\ Has(MyndfskrRecognizers, "stycke")
  BY DEF MyndfskrRecognizers
<1> QED BY <1>1, <1>2, <1>3, <1>4, <1>5, <1>6

(* Those of the grammars with several. *)
LEMMA SeveralLists ==
  \A c, preset :
    /\ Listed(DirektivRecognizers(c)) /\ Has(DirektivRecognizers(c), "paragraph")
    /\ c = "default" => SectionFirst(DirektivRecognizers(c))
    /\ Listed(DvRecognizers(c)) /\ Has(DvRecognizers(c), "paragraph")
    /\ Listed(OfftryckRecognizers(c, preset))
    /\ Has(OfftryckRecognizers(c, preset), "paragraph")
<1>1. \A rs, r : Lists(rs, r) => Listed(rs) /\ Has(rs, r)
  BY DEF Lists, Listing, Listed, Has
<1>2. \A c, preset :
        /\ Listed(DirektivRecognizers(c)) /\ Has(DirektivRecognizers(c), "paragraph")
        /\ Listed(OfftryckRecognizers(c, preset))
        /\ Has(OfftryckRecognizers(c, preset), "paragraph")
  BY <1>1, DirektivLists, OfftryckLists
<1>3. ASSUME NEW c, c = "default"
      PROVE  SectionFirst(DirektivRecognizers(c))
  <2>1. Has(DirektivRecognizers(c), "section") /\ DirektivRecognizers(c)[1] = "section"
    BY <1>1, <1>3, DirektivLists
  <2>2. 1 \in DOMAIN DirektivRecognizers(c)
    BY <1>2, <2>1 DEF Listed, Has
  <2> QED BY <2>1, <2>2 DEF SectionFirst
<1>4. \A c : Listed(DvRecognizers(c)) /\ Has(DvRecognizers(c), "paragraph")
  <2> DEFINE one == <<"paragraph">>
             ten == <<"delmal", "endmeta", "instans", "dom", "betankande",
                      "domskal", "domslut", "skiljaktig", "tillagg", "paragraph">>
  <2>1. Listed(one) /\ Has(one, "paragraph") /\ Listed(ten) /\ Has(ten, "paragraph")
    BY DEF Listed, Has
  <2>2. \A c : DvRecognizers(c) \in {one, ten}
    BY DEF DvRecognizers
  <2> HIDE DEF one, ten
  <2> QED BY <2>1, <2>2
<1> QED BY <1>2, <1>3, <1>4

(* What the recognizers of the parser have in them, and what comes before  *)
(* sections.                                                               *)
LEMMA RecognizersAre ==
  ASSUME profile \in DOMAIN Profile
  PROVE  /\ Listed(Recognizers)
         /\ \A c \in Certain[P.grammar] : \A r \in c : Has(Recognizers, r)
         /\ P.grammar = "rfc" => /\ Has(Recognizers, "rfcheader")
                                 /\ Has(Recognizers, "section")
         /\ Sectioned => SectionFirst(Recognizers)
<1> DEFINE c == P.configs[config]
           g == P.grammar
<1>1. /\ g = "rfc" => Recognizers = RfcRecognizers
      /\ g = "w3c" => Recognizers = W3cRecognizers
      /\ g = "jo" => Recognizers = JoRecognizers
      /\ g = "jk" => Recognizers = JkRecognizers
  BY Zenon DEF Recognizers
<1>2. /\ g = "direktiv" => Recognizers = DirektivRecognizers(c)
      /\ g = "dv" => Recognizers = DvRecognizers(c)
      /\ g = "myndfskr" => Recognizers = MyndfskrRecognizers
      /\ g = "offtryck" => Recognizers = OfftryckRecognizers(c, P.preset)
  BY Zenon DEF Recognizers
<1> HIDE DEF g
<1>3. g \in Grammar
  BY Profiled DEF g
<1>4. Listed(Recognizers)
  BY <1>1, <1>2, <1>3, OneList, SeveralLists DEF Grammar
<1>5. \A d \in Certain[g] : \A r \in d : Has(Recognizers, r)
  BY <1>1, <1>2, <1>3, OneList, SeveralLists DEF Grammar, Certain
<1>6. g = "rfc" => Has(Recognizers, "rfcheader") /\ Has(Recognizers, "section")
  BY <1>1, OneList
<1>7. Sectioned => SectionFirst(Recognizers)
  <2>1. Sectioned => g \in {"w3c", "jk", "jo"} \/ (g = "direktiv" /\ c = "default")
    BY DEF Sectioned, g
  <2> QED BY <1>1, <1>2, <2>1, OneList, SeveralLists
<1> QED BY <1>4, <1>5, <1>6, <1>7 DEF g

(* What the recognizers of a grammar see of the chunk the reader is at.    *)
LEMMA SeesIs ==
  ASSUME NEW r
  PROVE  /\ P.grammar = "rfc" =>
              Sees(r) = If(r \in {"doctitle", "paragraph"} \/ r \in doc[pos])
         /\ P.grammar = "w3c" => Sees(r) = If(r = "other" \/ r \in doc[pos])
         /\ P.grammar = "jo" =>
              Sees(r) = If(\/ r = "paragraph"
                           \/ r = "normal" /\ "blockquote" \notin doc[pos]
                           \/ r \in doc[pos] \ {"normal"})
         /\ P.grammar = "jk" => Sees(r) = If(r = "paragraph" \/ r \in doc[pos])
         /\ P.grammar = "direktiv" =>
              IF r = "paragraph" THEN Sees(r) = "yes"
              ELSE r # "header" => Sees(r) = If(r \in doc[pos])
         /\ P.grammar = "dv" => (r = "paragraph" => Sees(r) = "yes")
         /\ P.grammar = "myndfskr" => (r = "stycke" => Sees(r) = "yes")
         /\ P.grammar = "offtryck" => (r = "paragraph" => Sees(r) = "yes")
<1> DEFINE g == P.grammar
<1>1. Here(View) = doc[pos]
  BY DEF Here, View
<1>2. /\ g = "rfc" => Sees(r) = RfcSees(View, r)
      /\ g = "w3c" => Sees(r) = W3cSees(View, r)
      /\ g = "jo" => Sees(r) = JoSees(View, r)
      /\ g = "jk" => Sees(r) = JkSees(View, r)
  BY Zenon DEF Sees
<1>3. /\ g = "direktiv" => Sees(r) = DirektivSees(View, r)
      /\ g = "dv" => Sees(r) = DvSees(View, r)
      /\ g = "myndfskr" => Sees(r) = MyndfskrSees(View, r)
      /\ g = "offtryck" => Sees(r) = OfftryckSees(View, r)
  BY Zenon DEF Sees
<1>4. /\ r = "paragraph" => DirektivSees(View, r) = "yes"
      /\ r # "paragraph" /\ r # "header" => DirektivSees(View, r) = If(r \in Here(View))
      /\ r = "paragraph" => OfftryckSees(View, r) = "yes"
  <2>1. r = "paragraph" => DirektivSees(View, r) = "yes"
    BY Zenon DEF DirektivSees
  <2>2. r # "paragraph" /\ r # "header" => DirektivSees(View, r) = If(r \in Here(View))
    BY Zenon DEF DirektivSees
  <2>3. r = "paragraph" => OfftryckSees(View, r) = "yes"
    BY Zenon DEF OfftryckSees
  <2> QED BY <2>1, <2>2, <2>3
<1>5. /\ r = "paragraph" => DvSees(View, r) = "yes"
      /\ r = "stycke" => MyndfskrSees(View, r) = "yes"
  BY DEF DvSees, MyndfskrSees, If
<1> HIDE DEF g
<1>6. /\ g = "rfc" => Sees(r) = If(r \in {"doctitle", "paragraph"} \/ r \in doc[pos])
      /\ g = "w3c" => Sees(r) = If(r = "other" \/ r \in doc[pos])
      /\ g = "jo" => Sees(r) = If(\/ r = "paragraph"
                                  \/ r = "normal" /\ "blockquote" \notin doc[pos]
                                  \/ r \in doc[pos] \ {"normal"})
      /\ g = "jk" => Sees(r) = If(r = "paragraph" \/ r \in doc[pos])
  BY <1>1, <1>2 DEF RfcSees, W3cSees, JoSees, JkSees
<1> QED BY <1>1, <1>3, <1>4, <1>5, <1>6 DEF g

(* What is certain is seen, and never taken away. *)
LEMMA CertainIsSeen ==
  ASSUME profile \in DOMAIN Profile, NEW c \in Certain[P.grammar]
  PROVE  \E r \in c : Sees(r) # "no" /\ r \notin {"datum", "dnr"}
<1>1. P.grammar \in Grammar
  BY Profiled
<1>2. CASE P.grammar = "jo" /\ c = {"blockquote", "normal"}
  <2>1. Sees("blockquote") # "no" \/ Sees("normal") # "no"
    BY <1>2, SeesIs DEF If
  <2> QED BY <1>2, <2>1
<1>3. CASE ~ (P.grammar = "jo" /\ c = {"blockquote", "normal"})
  <2>1. \/ c = {"paragraph"} /\ P.grammar \notin {"w3c", "myndfskr"}
        \/ c = {"doctitle"} /\ P.grammar = "rfc"
        \/ c = {"other"} /\ P.grammar = "w3c"
        \/ c = {"stycke"} /\ P.grammar = "myndfskr"
    BY <1>1, <1>3 DEF Certain, Grammar
  <2>2. \E r \in c : Sees(r) = "yes" /\ r \notin {"datum", "dnr"}
    BY <1>1, <2>1, SeesIs DEF If, Grammar
  <2> QED BY <2>2
<1> QED BY <1>2, <1>3
-----------------------------------------------------------------------------
(* The invariant of the state stack.                                       *)

(* What is in the outermost element of an RFC. *)
RfcPairs == {<<"preamble", "preamble-section">>, <<"after-preamble", "section">>}

State == Outermost \cup UNION {States[g] : g \in Grammar}

(* The states on the stack lead further and further in, each of them one   *)
(* that the tables cover.                                                  *)
StackFits(g, stk) ==
  /\ stk \in Seq(State) /\ Len(stk) >= 1
  /\ \A i \in DOMAIN stk :
       stk[i] \in States[g] \/ (g = "rfc" /\ i = 1 /\ stk[i] \in Outermost)
  /\ \A i, j \in DOMAIN stk : i < j => Depth(stk[i]) < Depth(stk[j])
  /\ stk[1] \in Outermost
  /\ g = "rfc" /\ Len(stk) > 1 => <<stk[1], stk[2]>> \in RfcPairs

(* An RFC has one header, and what comes after the preamble begins with a  *)
(* section.                                                                *)
RfcPlaced ==
  P.grammar = "rfc" /\ Running =>
    /\ ~ cut
    /\ stack[1] = "body" => pos = 1
    /\ stack[1] = "after-preamble" /\ Len(stack) = 1 /\ pos <= Len(doc)
       => "section" \in doc[pos]

(* One state for each frame, or more after a StopIteration. *)
Paired ==
  /\ Len(stack) >= Len(frames)
  /\ ~ cut => Len(stack) = Len(frames) /\ lost = {}
  /\ Finished /\ ~ cut => Len(frames) = 1 /\ pos = Len(doc) + 1

(* Only the recognizers of dates and case numbers are ever taken away.     *)
MemoryKept(m) == "off" \in DOMAIN m /\ m.off \subseteq {"datum", "dnr"}

(* The invariant of the parser and its tables.                             *)
SInv ==
  /\ profile \in DOMAIN Profile
  /\ StackFits(P.grammar, stack) /\ RfcPlaced /\ Paired /\ MemoryKept(mem)
  /\ NeverStuck /\ HeadingsOpen

(* What a turn of the loop comes to.                                       *)
Outcome(a) ==
  \/ a.make = "FSMStateError" /\ P.grammar = "rfc" /\ "rfcheader" \notin doc[1]
  \/ a.make = "StopIteration" /\ P.grammar # "rfc"
  \/ /\ Fits(P.grammar, Top, Symbol, a) /\ Sees(Symbol) # "no"
     /\ <<Top, Symbol>> \in DOMAIN Tables[P.grammar]

(* A chunk is a heading and nothing that is seen before one. *)
Plain(k) == "section" \in doc[k] /\ doc[k] \cap SeenFirst = {}

(* The first recognizer that hits decides. *)
LEMMA SymbolIs ==
  ASSUME profile \in DOMAIN Profile
  PROVE  \/ Symbol = "none" /\ \A i \in DOMAIN Recognizers : ~ Hit(Recognizers[i])
         \/ \E i \in DOMAIN Recognizers :
              /\ Symbol = Recognizers[i] /\ Hit(Symbol)
              /\ \A j \in 1..(i - 1) : ~ Hit(Recognizers[j])
<1> DEFINE hits == {i \in DOMAIN Recognizers : Hit(Recognizers[i])}
           n == Len(Recognizers)
           k == CHOOSE i \in hits : \A j \in hits : i <= j
<1>1. n \in Nat /\ DOMAIN Recognizers = 1..n
  BY RecognizersAre DEF Listed
<1>2. CASE hits = {}
  BY <1>2 DEF Symbol
<1>3. CASE hits # {}
  <2>1. hits \in SUBSET Nat
    BY <1>1
  <2>2. k \in hits /\ \A j \in hits : k <= j
    <3>1. \E i \in hits : \A j \in hits : i <= j
      BY <1>3, <2>1, Least
    <3> QED BY <3>1
  <2>3. Symbol = Recognizers[k]
    BY <1>3 DEF Symbol
  <2> HIDE DEF k
  <2>4. \A j \in 1..(k - 1) : ~ Hit(Recognizers[j])
    BY <1>1, <2>2
  <2> QED BY <2>2, <2>3, <2>4
<1> QED BY <1>2, <1>3

(* An appendix that is looked for takes no recognizer away. *)
LEMMA MemAfterKept ==
  ASSUME MemoryKept(mem), NEW symbol
  PROVE  MemoryKept(MemAfter(symbol))
<1>1. View.mem = mem
  BY DEF View
<1>2. \/ AfterIsAppendix(View) = [View.mem EXCEPT !.appendixstarted = TRUE]
      \/ AfterIsAppendix(View) = [View.mem EXCEPT !.appendixno = Announced(View)]
      \/ AfterIsAppendix(View) = View.mem
  BY Zenon DEF AfterIsAppendix
<1>3. MemoryKept(AfterIsAppendix(View))
  BY <1>1, <1>2 DEF MemoryKept
<1> QED BY <1>3 DEF MemAfter

(* A parser that finds nothing is at the beginning of an RFC.              *)
LEMMA NothingFound ==
  ASSUME SInv, Running, pos \in 1..Len(doc), Len(doc) \in Nat,
         \A i \in DOMAIN Recognizers : ~ Hit(Recognizers[i])
  PROVE  P.grammar = "rfc" /\ "rfcheader" \notin doc[1]
<1> DEFINE g == P.grammar
<1>1. /\ g \in Grammar /\ profile \in DOMAIN Profile /\ mem.off \subseteq {"datum", "dnr"}
      /\ RfcPlaced
  BY Profiled DEF SInv, MemoryKept
<1>2. \A r : Has(Recognizers, r) => ~ Hit(r)
  BY DEF Has
<1>3. Top \notin States[g]
  <2> SUFFICES ASSUME Top \in States[g] PROVE FALSE
    OBVIOUS
  <2>1. PICK c \in Certain[g] : \A r \in c : <<Top, r>> \in DOMAIN Tables[g]
    BY <1>1, Covered
  <2>2. PICK r \in c : Sees(r) # "no" /\ r \notin {"datum", "dnr"}
    BY <1>1, CertainIsSeen
  <2>3. Hit(r)
    BY <1>1, <2>1, <2>2 DEF Hit
  <2> QED BY <1>1, <1>2, <2>3, RecognizersAre
<1>4. /\ Len(stack) \in Nat \ {0} /\ DOMAIN stack = 1..Len(stack)
      /\ Len(stack) \in DOMAIN stack /\ StackFits(g, stack)
  BY DEF SInv, StackFits
<1>5. g = "rfc" /\ Len(stack) = 1 /\ Top \in Outermost
  BY <1>3, <1>4 DEF StackFits, Top
<1>6. Top \in {"body", "after-preamble"}
  BY <1>3, <1>5 DEF Outermost, States
<1>7. ASSUME NEW r, Sees(r) = "no"
      PROVE  r \notin doc[pos]
  BY <1>5, <1>7, SeesIs DEF If
<1>8. CASE Top = "body"
  <2>1. pos = 1
    BY <1>1, <1>5, <1>8 DEF RfcPlaced, Top
  <2>2. ~ Hit("rfcheader")
    BY <1>1, <1>2, <1>5, RecognizersAre
  <2>3. Sees("rfcheader") = "no"
    BY <1>1, <1>5, <1>8, <2>2, OthersCovered DEF Hit
  <2> QED BY <1>5, <1>7, <2>1, <2>3
<1>9. CASE Top = "after-preamble"
  <2>1. "section" \in doc[pos]
    BY <1>1, <1>5, <1>9 DEF RfcPlaced, Top
  <2>2. ~ Hit("section")
    BY <1>1, <1>2, <1>5, RecognizersAre
  <2>3. Sees("section") = "no"
    BY <1>1, <1>5, <1>9, <2>2, OthersCovered DEF Hit
  <2> QED BY <1>7, <2>1, <2>3
<1> QED BY <1>6, <1>8, <1>9

(* What is found has an entry that fits. *)
LEMMA Chosen ==
  ASSUME SInv, Running, pos \in 1..Len(doc), Len(doc) \in Nat,
         NEW a, a = Transition(Symbol)
  PROVE  Outcome(a) /\ MemoryKept(a.mem)
<1> DEFINE g == P.grammar
           row == IF Symbol = "none" THEN Row({}, {}, "FSMStateError", Stay)
                  ELSE Tables[g][<<Top, Symbol>>]
           stop == Symbol # "none" /\ Sees(Symbol) = "stop"
<1>1. /\ a.make = IF stop THEN "StopIteration" ELSE row.make
      /\ a.new = row.new /\ a.mem = MemAfter(Symbol)
  BY DEF Transition
<1>2. g \in Grammar /\ profile \in DOMAIN Profile /\ MemoryKept(mem)
  BY Profiled DEF SInv
<1>3. MemoryKept(a.mem)
  BY <1>1, <1>2, MemAfterKept
<1>4. CASE Symbol = "none" /\ \A i \in DOMAIN Recognizers : ~ Hit(Recognizers[i])
  <2>1. a.make = "FSMStateError"
    BY <1>1, <1>4 DEF Row
  <2> QED BY <1>3, <1>4, <2>1, NothingFound DEF Outcome
<1>5. CASE Hit(Symbol)
  <2>1. <<Top, Symbol>> \in DOMAIN Tables[g] /\ Sees(Symbol) # "no"
    BY <1>5 DEF Hit
  <2>2. Fits(g, Top, Symbol, Tables[g][<<Top, Symbol>>])
    BY <1>2, <2>1, TableFits
  <2>3. Symbol # "none"
    BY <2>2 DEF Fits
  <2>4. CASE stop
    <3>1. g # "rfc"
      BY <2>4, SeesIs DEF If
    <3> QED BY <1>1, <1>3, <2>4, <3>1 DEF Outcome
  <2>5. CASE ~ stop
    <3>1. a.make = Tables[g][<<Top, Symbol>>].make /\ a.new = Tables[g][<<Top, Symbol>>].new
      BY <1>1, <2>3, <2>5
    <3>2. Fits(g, Top, Symbol, a)
      BY <2>2, <3>1 DEF Fits, RfcFits, SectionFits
    <3> QED BY <1>3, <2>1, <3>2 DEF Outcome
  <2> QED BY <2>4, <2>5
<1> QED BY <1>2, <1>4, <1>5, SymbolIs

(* A heading that nothing else is seen in opens an element or leaves one.  *)
LEMMA HeadingChosen ==
  ASSUME SInv, pos \in 1..Len(doc), Len(doc) \in Nat, NEW a, Outcome(a), Sectioned, Plain(pos)
  PROVE  a.make \in {"FSMStateError", "StopIteration", "open", "leave"}
<1> DEFINE g == P.grammar
<1>1. /\ g \in Grammar /\ profile \in DOMAIN Profile /\ mem.off \subseteq {"datum", "dnr"}
      /\ StackFits(g, stack)
  BY Profiled DEF SInv, MemoryKept
<1>2. g \in Numberings
  BY DEF Sectioned, Numberings
<1>3. Top \in States[g]
  <2>1. Len(stack) \in DOMAIN stack /\ g # "rfc"
    BY <1>1, <1>2 DEF StackFits, Numberings
  <2> QED BY <1>1, <2>1 DEF StackFits, Top
<1>4. /\ Sees("section") # "no" /\ \A r \in SeenFirst : Sees(r) = "no"
  <2>1. "section" \in doc[pos] /\ \A r \in SeenFirst : r \notin doc[pos]
    BY DEF Plain
  <2>2. Sees("section") # "no"
    BY <1>2, <2>1, SeesIs DEF If, Numberings
  <2>3. ASSUME NEW r \in SeenFirst PROVE Sees(r) = "no"
    BY <1>2, <2>1, <2>3, SeesIs DEF If, Numberings, SeenFirst
  <2> QED BY <2>2, <2>3
<1> SUFFICES ASSUME Fits(g, Top, Symbol, a), Sees(Symbol) # "no",
                    <<Top, Symbol>> \in DOMAIN Tables[g]
             PROVE  a.make \in {"open", "leave"}
  BY DEF Outcome
<1>5. SectionFits(Top, Symbol, a)
  BY <1>2 DEF Fits
<1>6. CASE Top = "strecksats"
  BY <1>4, <1>5, <1>6 DEF SectionFits, SeenFirst
<1>7. CASE Top # "strecksats"
  <2>1. Hit("section")
    BY <1>1, <1>2, <1>3, <1>4, <1>7, OthersCovered DEF Hit
  <2>2. PICK i \in DOMAIN Recognizers :
          Recognizers[i] = "section" /\ \A j \in 1..(i - 1) : Recognizers[j] \in SeenFirst
    BY <1>1, RecognizersAre DEF SectionFirst
  <2>3. PICK k \in DOMAIN Recognizers :
          Symbol = Recognizers[k] /\ \A j \in 1..(k - 1) : ~ Hit(Recognizers[j])
    BY <1>1, <2>1, <2>2, SymbolIs
  <2>4. DOMAIN Recognizers \subseteq Nat \ {0}
    BY <1>1, RecognizersAre DEF Listed
  <2>5. ~ (i < k)
    <3>1. ASSUME i < k PROVE FALSE
      <4>1. i \in 1..(k - 1)
        BY <2>4, <3>1
      <4> QED BY <2>1, <2>2, <2>3, <4>1
    <3> QED BY <3>1
  <2>6. ~ (k < i)
    <3>1. ASSUME k < i PROVE FALSE
      <4>1. k \in 1..(i - 1)
        BY <2>4, <3>1
      <4> QED BY <1>4, <2>2, <2>3, <4>1
    <3> QED BY <3>1
  <2>7. Symbol = "section"
    BY <2>2, <2>3, <2>4, <2>5, <2>6
  <2> QED BY <1>5, <2>7 DEF SectionFits
<1> QED BY <1>6, <1>7
-----------------------------------------------------------------------------
(* What becomes of the stack.                                              *)

(* A depth is a number, and that of the outermost states is 0. *)
LEMMA DepthIs ==
  /\ \A s : Depth(s) \in Nat
  /\ \A s \in Outermost : Depth(s) = 0
BY DEF Depth, Outermost

(* The innermost state is left. *)
LEMMA PopFits ==
  ASSUME NEW g \in Grammar, NEW stk, StackFits(g, stk), Len(stk) > 1
  PROVE  /\ StackFits(g, SubSeq(stk, 1, Len(stk) - 1))
         /\ Len(SubSeq(stk, 1, Len(stk) - 1)) = Len(stk) - 1
         /\ SubSeq(stk, 1, Len(stk) - 1)[1] = stk[1]
<1> DEFINE n == Len(stk)
           top == SubSeq(stk, 1, n - 1)
<1>1. stk \in Seq(State) /\ n \in Nat /\ n > 1 /\ DOMAIN stk = 1..n
  BY DEF StackFits
<1>2. /\ top \in Seq(State) /\ Len(top) = n - 1 /\ DOMAIN top = 1..(n - 1)
      /\ \A i \in 1..(n - 1) : top[i] = stk[i]
  BY <1>1
<1> HIDE DEF top
<1>3. \A i \in DOMAIN top : i \in DOMAIN stk /\ top[i] = stk[i]
  BY <1>1, <1>2
<1>4. top[1] = stk[1] /\ (Len(top) > 1 => top[2] = stk[2])
  BY <1>1, <1>2
<1>5. StackFits(g, top)
  <2>1. \A i \in DOMAIN top :
          top[i] \in States[g] \/ (g = "rfc" /\ i = 1 /\ top[i] \in Outermost)
    BY <1>3 DEF StackFits
  <2>2. \A i, j \in DOMAIN top : i < j => Depth(top[i]) < Depth(top[j])
    BY <1>3 DEF StackFits
  <2>3. Len(top) >= 1 /\ top[1] \in Outermost
    BY <1>1, <1>2, <1>4 DEF StackFits
  <2>4. g = "rfc" /\ Len(top) > 1 => <<top[1], top[2]>> \in RfcPairs
    BY <1>1, <1>2, <1>4 DEF StackFits
  <2> QED BY <1>2, <2>1, <2>2, <2>3, <2>4 DEF StackFits
<1> QED BY <1>2, <1>4, <1>5 DEF top

(* A state that is further in is entered. *)
LEMMA PushFits ==
  ASSUME NEW g \in Grammar, NEW stk, StackFits(g, stk), NEW new \in States[g],
         Depth(stk[Len(stk)]) < Depth(new),
         g = "rfc" /\ Len(stk) = 1 => <<stk[1], new>> \in RfcPairs
  PROVE  /\ StackFits(g, Append(stk, new))
         /\ Len(Append(stk, new)) = Len(stk) + 1
         /\ Append(stk, new)[1] = stk[1]
         /\ Append(stk, new)[Len(stk) + 1] = new
<1> DEFINE n == Len(stk)
           top == Append(stk, new)
<1>1. /\ stk \in Seq(State) /\ n \in Nat \ {0} /\ DOMAIN stk = 1..n
      /\ new \in State
  BY DEF StackFits, State
<1>2. /\ top \in Seq(State) /\ Len(top) = n + 1 /\ DOMAIN top = 1..(n + 1)
      /\ \A i \in 1..n : top[i] = stk[i]
      /\ top[n + 1] = new
  BY <1>1
<1> HIDE DEF top
<1>3. \A i \in DOMAIN top : (i \in 1..n /\ top[i] = stk[i]) \/ (i = n + 1 /\ top[i] = new)
  BY <1>1, <1>2
<1>4. ASSUME NEW i \in DOMAIN top, NEW j \in DOMAIN top, i < j
      PROVE  Depth(top[i]) < Depth(top[j])
  <2>1. i \in 1..n /\ top[i] = stk[i]
    BY <1>1, <1>2, <1>3, <1>4
  <2>2. CASE j \in 1..n
    BY <1>1, <1>2, <1>4, <2>1, <2>2 DEF StackFits
  <2>3. CASE j = n + 1
    <3>1. Depth(stk[i]) <= Depth(stk[n])
      <4>1. CASE i = n
        BY <4>1, DepthIs
      <4>2. CASE i # n
        BY <1>1, <2>1, <4>2, DepthIs DEF StackFits
      <4> QED BY <4>1, <4>2
    <3> QED BY <1>2, <2>1, <2>3, <3>1, DepthIs
  <2> QED BY <1>2, <2>2, <2>3
<1>5. top[1] = stk[1] /\ (n > 1 => top[2] = stk[2]) /\ (n = 1 => top[2] = new)
  BY <1>1, <1>2
<1>6. StackFits(g, top)
  <2>1. \A i \in DOMAIN top :
          top[i] \in States[g] \/ (g = "rfc" /\ i = 1 /\ top[i] \in Outermost)
    BY <1>1, <1>3 DEF StackFits
  <2>2. Len(top) >= 1 /\ top[1] \in Outermost
    BY <1>1, <1>2, <1>5 DEF StackFits
  <2>3. g = "rfc" => <<top[1], top[2]>> \in RfcPairs
    BY <1>1, <1>5 DEF StackFits
  <2> QED BY <1>2, <1>4, <2>1, <2>2, <2>3 DEF StackFits
<1> QED BY <1>2, <1>5, <1>6 DEF top

(* The only state of the parser of an RFC is changed for another.          *)
LEMMA OnlyFits ==
  ASSUME NEW new \in Outermost
  PROVE  StackFits("rfc", <<new>>)
<1> DEFINE s == <<new>>
<1>1. s \in Seq(State) /\ Len(s) = 1 /\ DOMAIN s = {1} /\ s[1] = new
  BY DEF State
<1> HIDE DEF s
<1>2. StackFits("rfc", s)
  BY <1>1 DEF StackFits
<1> QED BY <1>2 DEF s

(* The outermost states are at the bottom only. *)
LEMMA BottomIs ==
  ASSUME NEW g \in Grammar, NEW stk, StackFits(g, stk)
  PROVE  /\ Len(stk) \in Nat \ {0} /\ DOMAIN stk = 1..Len(stk)
         /\ stk[Len(stk)] \in Outermost <=> Len(stk) = 1
         /\ Len(stk) = 1 => stk = <<stk[1]>>
<1>1. stk \in Seq(State) /\ Len(stk) \in Nat \ {0} /\ DOMAIN stk = 1..Len(stk)
  BY DEF StackFits
<1>2. CASE Len(stk) = 1
  BY <1>1, <1>2 DEF StackFits
<1>3. CASE Len(stk) # 1
  <2>1. Depth(stk[1]) < Depth(stk[Len(stk)])
    BY <1>1, <1>3 DEF StackFits
  <2>2. Depth(stk[Len(stk)]) # 0
    BY <2>1, DepthIs
  <2> QED BY <1>1, <1>3, <2>2, DepthIs
<1> QED BY <1>2, <1>3

(* What is in the body of an RFC. *)
LEMMA RfcPairIs ==
  ASSUME NEW stk, StackFits("rfc", stk), Len(stk) > 1
  PROVE  \/ stk[1] = "preamble" /\ stk[2] = "preamble-section"
         \/ stk[1] = "after-preamble" /\ stk[2] = "section"
<1>1. <<stk[1], stk[2]>> \in RfcPairs
  BY DEF StackFits
<1> QED BY <1>1 DEF RfcPairs

(* What giving back does to the lengths.                                   *)
LEMMA GiveBackDoes ==
  ASSUME NEW fs, Nested(fs), NEW stk, NEW m, GiveBack(fs, stk, m),
         MemoryKept(m)
  PROVE  /\ Len(fs) \in Nat \ {0} /\ MemoryKept(mem')
         /\ \/ /\ Len(fs) = 1 /\ frames' = fs
               /\ stack' = stk /\ status' = "parsed"
            \/ /\ Len(fs) # 1 /\ Len(frames') = Len(fs) - 1
               /\ stack' = SubSeq(stk, 1, Len(stk) - 1) /\ status' = status
<1> DEFINE n == Len(fs)
           kept == IF fs[n].kind = "toc" THEN {} ELSE fs[n].held
           top == SubSeq(fs, 1, n - 1)
<1>1. fs \in Seq(Frame) /\ n \in Nat \ {0}
  BY DEF Nested
<1>2. /\ frames' = IF n = 1 THEN fs ELSE [top EXCEPT ![n - 1].held = @ \cup kept]
      /\ stack' = IF n = 1 THEN stk ELSE SubSeq(stk, 1, Len(stk) - 1)
      /\ status' = IF n = 1 THEN "parsed" ELSE status
      /\ mem' = IF fs[n].kind = "preamblesection" THEN [m EXCEPT !.forslag = FALSE]
                ELSE m
  BY DEF GiveBack
<1>3. MemoryKept(mem')
  BY <1>2 DEF MemoryKept
<1>4. n # 1 => top \in Seq(Frame) /\ Len(top) = n - 1
  <2>1. n # 1 => n - 1 \in 1..n
    <3> HIDE DEF n
    <3> QED BY <1>1
  <2> QED BY <1>1, <2>1
<1> HIDE DEF top, kept
<1>5. n # 1 => Len([top EXCEPT ![n - 1].held = @ \cup kept]) = n - 1
  BY <1>1, <1>4
<1> QED BY <1>1, <1>2, <1>3, <1>5
-----------------------------------------------------------------------------
(* The steps keep the invariant of the stack.                              *)

(* A new parser has nothing on the stack and remembers nothing.            *)
LEMMA FreshFits ==
  /\ \A g \in Grammar : StackFits(g, <<"body">>)
  /\ Len(<<"body">>) = 1 /\ <<"body">>[1] = "body"
  /\ MemoryKept(NewParser) /\ Len(<<Root>>) = 1
<1> DEFINE s == <<"body">>
<1>1. s \in Seq(State) /\ Len(s) = 1 /\ DOMAIN s = {1} /\ s[1] = "body"
  BY DEF State, Outermost
<1> HIDE DEF s
<1>2. \A g \in Grammar : g = "rfc" \/ "body" \in States[g]
  BY DEF Grammar, States
<1>3. \A g \in Grammar : StackFits(g, s)
  BY <1>1, <1>2 DEF StackFits, Outermost
<1>4. MemoryKept(NewParser) /\ Len(<<Root>>) = 1
  BY DEF MemoryKept, NewParser
<1> QED BY <1>1, <1>3, <1>4 DEF s

(* A turn of the loop that has come to something.                          *)
Going(a) ==
  /\ SInv /\ IInv /\ Running /\ pos <= Len(doc)
  /\ Outcome(a) /\ MemoryKept(a.mem)

(* Where a turn begins. *)
LEMMA GoingIs ==
  ASSUME NEW a, Going(a)
  PROVE  /\ P.grammar \in Grammar /\ StackFits(P.grammar, stack)
         /\ Len(doc) \in Nat /\ pos \in 1..Len(doc) /\ pos + 1 \in 1..(Len(doc) + 1)
         /\ Nested(frames) /\ Len(frames) \in Nat \ {0}
         /\ Len(stack) \in Nat \ {0} /\ Len(stack) >= Len(frames)
         /\ DOMAIN stack = 1..Len(stack)
         /\ Top \in Outermost <=> Len(stack) = 1
         /\ status = "running" /\ (P.grammar = "rfc" => ~ cut)
         /\ ~ cut => Len(stack) = Len(frames) /\ lost = {}
<1>1. /\ profile \in DOMAIN Profile /\ StackFits(P.grammar, stack) /\ RfcPlaced
      /\ Paired /\ Placed /\ Running /\ pos <= Len(doc)
  BY DEF Going, SInv, IInv
<1>2. P.grammar \in Grammar
  BY <1>1, Profiled
<1>3. Len(frames) \in Nat \ {0}
  BY <1>1 DEF Placed, Nested
<1>4. /\ Len(stack) \in Nat \ {0} /\ DOMAIN stack = 1..Len(stack)
      /\ Top \in Outermost <=> Len(stack) = 1
  BY <1>1, <1>2, BottomIs DEF Top
<1> QED BY <1>1, <1>2, <1>3, <1>4 DEF Placed, Paired, RfcPlaced, Running

(* The document and the configuration are the same, and so are the         *)
(* headings that were read but for the one at the reader.                  *)
Onward(a) ==
  /\ UNCHANGED <<profile, doc, config>>
  /\ heads \subseteq heads'
  /\ Sectioned => /\ pos' \in {pos, pos + 1}
                  /\ Plain(pos) => pos' = pos \/ pos \in heads'

(* A step that goes on like that keeps the headings open.                  *)
LEMMA HeadingsKept ==
  ASSUME NEW a, Going(a), Onward(a)
  PROVE  HeadingsOpen'
<1>1. Sectioned' = Sectioned
  BY DEF Onward, Sectioned, P
<1> SUFFICES ASSUME Sectioned, NEW k \in 1..(pos' - 1), "section" \in doc'[k],
                    doc'[k] \cap SeenFirst = {}
             PROVE  k \in heads'
  BY <1>1 DEF HeadingsOpen
<1>2. Plain(k)
  BY DEF Plain, Onward
<1>3. pos \in Nat /\ pos' \in {pos, pos + 1}
  BY GoingIs DEF Onward
<1>4. CASE k = pos
  BY <1>2, <1>3, <1>4 DEF Onward
<1>5. CASE k # pos
  <2>1. k \in 1..(pos - 1)
    <3>1. CASE pos' = pos
      BY <1>3, <3>1
    <3>2. CASE pos' = pos + 1
      BY <1>3, <1>5, <3>2
    <3> QED BY <1>3, <3>1, <3>2
  <2>2. k \in heads
    BY <1>2, <2>1 DEF Going, SInv, HeadingsOpen, Plain
  <2> QED BY <2>2 DEF Onward
<1> QED BY <1>4, <1>5

(* What is left to show of a step within a configuration.                  *)
LEMMA Stepped ==
  ASSUME NEW a, Going(a), Onward(a), StackFits(P.grammar, stack'), RfcPlaced',
         Paired', MemoryKept(mem'), status' \in {"running", "parsed"}
  PROVE  SInv'
<1>1. P' = P /\ profile' = profile
  BY DEF Onward, P
<1>2. NeverStuck'
  BY DEF NeverStuck
<1>3. (StackFits(P.grammar, stack))' /\ (MemoryKept(mem))'
  BY <1>1 DEF StackFits, MemoryKept
<1> QED BY <1>1, <1>2, <1>3, HeadingsKept DEF SInv, Going

(* A new parser, or no more. *)
LEMMA FailSteps ==
  ASSUME NEW a, Going(a), NEW exception, Fail(exception),
         exception \in {"FSMStateError", "StopIteration"},
         exception = "FSMStateError" => P.grammar = "rfc" /\ "rfcheader" \notin doc[1]
  PROVE  SInv'
<1> DEFINE g == P.grammar
<1>1. g \in Grammar /\ profile \in DOMAIN Profile /\ SInv
  BY GoingIs DEF Going, SInv
<1>2. CASE config < Len(P.configs)
  <2>1. /\ pos' = 1 /\ stack' = <<"body">> /\ frames' = <<Root>> /\ mem' = NewParser
        /\ lost' = {} /\ cut' = FALSE /\ status' = "running"
        /\ profile' = profile /\ P' = P
    BY <1>2 DEF Fail, P
  <2>2. (StackFits(P.grammar, stack))' /\ (MemoryKept(mem))'
    BY <1>1, <2>1, FreshFits DEF StackFits, MemoryKept
  <2>3. RfcPlaced'
    BY <2>1, FreshFits DEF RfcPlaced
  <2>4. Paired'
    BY <2>1, FreshFits DEF Paired, Finished
  <2>5. NeverStuck' /\ HeadingsOpen'
    BY <2>1 DEF NeverStuck, HeadingsOpen
  <2> QED BY <1>1, <2>1, <2>2, <2>3, <2>4, <2>5 DEF SInv
<1>3. CASE ~ (config < Len(P.configs))
  <2>1. /\ status' = exception
        /\ UNCHANGED <<profile, doc, config, pos, stack, frames, mem, lost, heads, cut>>
    BY <1>3 DEF Fail
  <2>2. P' = P
    BY <2>1 DEF P
  <2>3. (StackFits(P.grammar, stack))' /\ (MemoryKept(mem))'
    BY <1>1, <2>1, <2>2 DEF StackFits, MemoryKept, SInv
  <2>4. RfcPlaced'
    BY <2>1 DEF RfcPlaced, Running
  <2>5. Paired'
    BY <1>1, <2>1 DEF Paired, SInv, Finished
  <2>6. NeverStuck'
    BY <1>1, <2>1, <2>2 DEF NeverStuck
  <2>7. HeadingsOpen'
    BY <1>1, <2>1, <2>2 DEF HeadingsOpen, Sectioned, SInv
  <2> QED BY <1>1, <2>1, <2>3, <2>4, <2>5, <2>6, <2>7 DEF SInv
<1> QED BY <1>2, <1>3

(* Something is read for the current element. *)
LEMMA AppendSteps ==
  ASSUME NEW a, Going(a), Fits(P.grammar, Top, Symbol, a), a.make \in Reading,
         NEW held, NEW left, NEW next, AppendTo(a, held, left, next),
         IInv', MemoryKept(mem'),
         a.make = "make_rfcheader" \/ next = pos + 1
  PROVE  SInv'
<1> DEFINE g == P.grammar
           n == Len(stack)
<1>1. /\ stack' = IF a.new = Stay THEN stack ELSE [stack EXCEPT ![n] = a.new]
      /\ frames' = [frames EXCEPT ![Len(frames)].held = @ \cup held]
      /\ pos' = next
      /\ UNCHANGED <<profile, doc, config, lost, heads, cut, status>>
  BY DEF AppendTo
<1>2. /\ g \in Grammar /\ StackFits(g, stack) /\ n \in Nat \ {0}
      /\ Nested(frames) /\ (Top \in Outermost <=> n = 1)
      /\ status = "running" /\ pos \in 1..Len(doc)
  BY GoingIs
<1>3. Len(frames') = Len(frames)
  <2>1. frames \in Seq(Frame)
    BY <1>2 DEF Nested
  <2> QED BY <1>1, <2>1
<1>4. a.make \notin {"FSMStateError", "StopIteration", "open", "leave"}
  BY DEF Reading
<1>5. Onward(a)
  <2>1. Sectioned => ~ Plain(pos)
    BY <1>2, <1>4, GoingIs, HeadingChosen DEF Going
  <2>2. Sectioned => a.make # "make_rfcheader"
    BY DEF Fits, SectionFits, Sectioned, Numberings
  <2> QED BY <1>1, <2>1, <2>2 DEF Onward
<1>6. Paired'
  <2>1. Len(stack') = Len(stack)
    BY <1>1, <1>2 DEF StackFits
  <2> QED BY <1>1, <1>2, <1>3, <2>1 DEF Paired, Going, SInv, Finished
<1>7. CASE g # "rfc"
  <2>1. stack' = stack
    BY <1>1, <1>7 DEF Fits
  <2>2. RfcPlaced'
    BY <1>1, <1>7 DEF RfcPlaced, P
  <2> QED BY <1>1, <1>2, <1>5, <1>6, <2>1, <2>2, Stepped
<1>8. CASE g = "rfc" /\ n = 1
  <2>1. Top \in Outermost /\ RfcFits(Top, Symbol, a) /\ stack = <<Top>>
    BY <1>2, <1>8, BottomIs DEF Fits, Top
  <2>2. a.new \in {"doctitle", "preamble"}
    BY <2>1 DEF RfcFits, Outermost, Reading
  <2>3. stack' = <<a.new>>
    <3>1. a.new # Stay
      BY <2>2 DEF Stay
    <3> QED BY <1>1, <1>8, <2>1, <3>1
  <2>4. StackFits(g, stack')
    BY <1>8, <2>2, <2>3, OnlyFits DEF Outermost
  <2>5. RfcPlaced'
    <3>1. stack'[1] = a.new
      BY <2>3
    <3>2. ~ cut'
      BY <1>1, <1>2, <1>8, GoingIs
    <3> QED BY <2>2, <3>1, <3>2 DEF RfcPlaced
  <2> QED BY <1>1, <1>2, <1>5, <1>6, <2>4, <2>5, Stepped
<1>9. CASE g = "rfc" /\ n # 1
  <2>1. Top \notin Outermost /\ RfcFits(Top, Symbol, a)
    BY <1>2, <1>9 DEF Fits
  <2>2. stack' = stack
    BY <1>1, <2>1 DEF RfcFits
  <2>3. RfcPlaced'
    <3>1. stack[1] # "body"
      <4>1. StackFits("rfc", stack)
        BY <1>2, <1>9
      <4>2. n \in Nat \ {0} /\ n # 1
        BY <1>2, <1>9
      <4> HIDE DEF n
      <4>3. n > 1
        BY <4>2
      <4> USE DEF n
      <4> QED BY <4>1, <4>3, RfcPairIs
    <3>2. ~ cut'
      BY <1>1, <1>2, <1>9, GoingIs
    <3> QED BY <1>9, <2>2, <3>1, <3>2 DEF RfcPlaced
  <2> QED BY <1>1, <1>2, <1>5, <1>6, <2>2, <2>3, Stepped
<1> QED BY <1>7, <1>8, <1>9

(* An element is entered. *)
LEMMA DescendSteps ==
  ASSUME NEW a, Going(a), Fits(P.grammar, Top, Symbol, a), a.make \in Opening,
         a.make # "list",
         NEW kind, NEW held, NEW next, Descend(a, kind, held, next),
         MemoryKept(mem'),
         a.make = "make_appendix" \/ (held = {} /\ next = pos)
           \/ (held = {pos} /\ next = pos + 1)
  PROVE  SInv'
<1> DEFINE g == P.grammar
           n == Len(stack)
<1>1. /\ stack' = Append(stack, a.new)
      /\ frames' = Append(frames, [kind |-> kind, held |-> held])
      /\ pos' = next /\ heads' = heads \cup (held \cap {pos})
      /\ UNCHANGED <<profile, doc, config, lost, cut, status>>
  BY DEF Descend
<1>2. /\ g \in Grammar /\ StackFits(g, stack) /\ n \in Nat \ {0}
      /\ Nested(frames) /\ (Top \in Outermost <=> n = 1)
      /\ status = "running" /\ pos \in 1..Len(doc)
      /\ a.new \in States[g] /\ Depth(Top) < Depth(a.new)
  BY GoingIs DEF Fits
<1>3. g = "rfc" /\ n = 1 => <<stack[1], a.new>> \in RfcPairs
  <2> SUFFICES ASSUME g = "rfc", n = 1 PROVE <<stack[1], a.new>> \in RfcPairs
    OBVIOUS
  <2>1. Top = stack[1] /\ Top \in Outermost /\ RfcFits(Top, Symbol, a)
    BY <1>2 DEF Fits, Top
  <2>2. \/ Top = "preamble" /\ a.new = "preamble-section"
        \/ Top = "after-preamble" /\ a.new = "section"
    BY <2>1 DEF RfcFits, Outermost, Opening
  <2> QED BY <2>1, <2>2 DEF RfcPairs
<1>4. /\ StackFits(g, stack') /\ Len(stack') = n + 1 /\ stack'[1] = stack[1]
  BY <1>1, <1>2, <1>3, PushFits DEF Top
<1>5. Len(frames') = Len(frames) + 1 /\ Len(frames) \in Nat
  BY <1>1, <1>2 DEF Nested
<1>6. Onward(a)
  <2>1. Sectioned => a.make # "make_appendix"
    BY DEF Fits, SectionFits, Sectioned, Numberings
  <2> QED BY <1>1, <2>1 DEF Onward
<1>7. Paired'
  BY <1>1, <1>2, <1>4, <1>5 DEF Paired, Going, SInv, Finished
<1>8. RfcPlaced'
  <2> SUFFICES ASSUME g = "rfc" PROVE RfcPlaced'
    BY <1>1 DEF RfcPlaced, P
  <2>1. stack'[1] # "body" /\ Len(stack') # 1
    BY <1>2, <1>4, RfcPairIs
  <2>2. ~ cut'
    BY <1>1, GoingIs
  <2> QED BY <2>1, <2>2 DEF RfcPlaced
<1> QED BY <1>1, <1>2, <1>4, <1>6, <1>7, <1>8, Stepped

(* A list and its first item are entered. *)
LEMMA ListSteps ==
  ASSUME NEW a, Going(a), Fits(P.grammar, Top, Symbol, a), OpenList(a)
  PROVE  SInv'
<1> DEFINE n == Len(stack)
           mid == Append(stack, "ul-list")
<1>1. /\ a.make = "list" /\ stack' = stack \o <<a.new, "listitem">>
      /\ frames' = frames \o << [kind |-> "element", held |-> {}],
                                [kind |-> "element", held |-> {pos}] >>
      /\ pos' = pos + 1 /\ heads' = heads \cup {pos} /\ mem' = a.mem
      /\ UNCHANGED <<profile, doc, config, lost, cut, status>>
  BY DEF OpenList
<1>2. /\ P.grammar = "rfc" /\ a.new = "ul-list" /\ Depth(Top) < Depth(a.new)
      /\ a.new \in States["rfc"] /\ RfcFits(Top, Symbol, a)
  BY <1>1 DEF Fits, Opening
<1>3. /\ StackFits("rfc", stack) /\ n \in Nat \ {0}
      /\ Nested(frames) /\ (Top \in Outermost <=> n = 1)
      /\ status = "running" /\ pos \in 1..Len(doc) /\ "rfc" \in Grammar
  BY <1>2, GoingIs DEF Grammar
<1>4. n > 1
  <2>1. Top \notin Outermost
    BY <1>1, <1>2 DEF RfcFits, Outermost
  <2>2. n # 1
    BY <1>3, <2>1
  <2>3. n \in Nat \ {0}
    BY <1>3
  <2> HIDE DEF n
  <2> QED BY <2>2, <2>3
<1>5. /\ StackFits("rfc", mid) /\ Len(mid) = n + 1 /\ mid[1] = stack[1]
      /\ mid[n + 1] = "ul-list"
  <2>1. /\ "ul-list" \in States["rfc"] /\ Depth(stack[n]) < Depth("ul-list")
        /\ n # 1
    BY <1>2, <1>4 DEF Top
  <2> QED BY <1>3, <2>1, PushFits
<1>6. stack' = Append(mid, "listitem")
  <2>1. stack \in Seq(State) /\ "ul-list" \in State /\ "listitem" \in State
    BY <1>3 DEF StackFits, State, States, Grammar
  <2> QED BY <1>1, <1>2, <2>1
<1> HIDE DEF mid
<1>7. /\ StackFits("rfc", stack') /\ Len(stack') = n + 2 /\ stack'[1] = stack[1]
  <2>1. Depth("ul-list") < Depth("listitem") /\ "listitem" \in States["rfc"]
    BY DEF Depth, States
  <2>2. Depth(mid[Len(mid)]) < Depth("listitem") /\ Len(mid) # 1
    BY <1>3, <1>5, <2>1
  <2>3. /\ StackFits("rfc", stack') /\ Len(stack') = Len(mid) + 1
        /\ stack'[1] = mid[1]
    BY <1>3, <1>5, <1>6, <2>1, <2>2, PushFits
  <2> QED BY <1>3, <1>5, <2>3
<1>8. Len(frames') = Len(frames) + 2 /\ Len(frames) \in Nat
  <2> DEFINE list == [kind |-> "element", held |-> {}]
             item == [kind |-> "element", held |-> {pos}]
  <2>1. frames \in Seq(Frame) /\ list \in Frame /\ item \in Frame
    BY <1>3 DEF Nested, Frame, Kind
  <2>2. frames' = frames \o <<list, item>>
    BY <1>1
  <2> HIDE DEF list, item
  <2>3. frames' = Append(Append(frames, list), item)
    BY <2>1, <2>2
  <2> QED BY <2>1, <2>3
<1>9. Onward(a) /\ MemoryKept(mem')
  BY <1>1 DEF Onward, Going
<1>10. Paired'
  BY <1>1, <1>3, <1>7, <1>8 DEF Paired, Going, SInv, Finished
<1>11. RfcPlaced'
  <2>1. stack'[1] # "body" /\ Len(stack') # 1
    BY <1>3, <1>4, <1>7, RfcPairIs
  <2>2. ~ cut'
    BY <1>1, <1>2, GoingIs
  <2> QED BY <2>1, <2>2 DEF RfcPlaced
<1> QED BY <1>1, <1>2, <1>3, <1>7, <1>9, <1>10, <1>11, Stepped

(* An element that is given back leaves its state, the root does not.      *)
LEMMA BackFits ==
  ASSUME NEW g \in Grammar, StackFits(g, stack), NEW fs, Nested(fs), NEW m,
         Len(stack) >= Len(fs), GiveBack(fs, stack, m), MemoryKept(m)
  PROVE  /\ StackFits(g, stack') /\ Len(stack') >= Len(frames')
         /\ stack'[1] = stack[1] /\ MemoryKept(mem')
         /\ \/ /\ Len(fs) = 1 /\ frames' = fs
               /\ stack' = stack /\ status' = "parsed"
            \/ /\ Len(fs) # 1 /\ Len(frames') = Len(fs) - 1
               /\ Len(stack') = Len(stack) - 1 /\ status' = status
<1> DEFINE n == Len(fs)
           d == Len(stack)
<1>1. /\ n \in Nat \ {0} /\ MemoryKept(mem')
      /\ \/ n = 1 /\ frames' = fs /\ stack' = stack /\ status' = "parsed"
         \/ /\ n # 1 /\ Len(frames') = n - 1
            /\ stack' = SubSeq(stack, 1, d - 1) /\ status' = status
  BY GiveBackDoes
<1>2. d \in Nat /\ d >= n
  BY BottomIs
<1>3. CASE n = 1
  BY <1>1, <1>3
<1>4. CASE n # 1
  <2>1. /\ Len(frames') = n - 1 /\ status' = status
        /\ stack' = SubSeq(stack, 1, d - 1)
    BY <1>1, <1>4
  <2>2. d > 1
    <3> HIDE DEF n, d
    <3> QED BY <1>1, <1>2, <1>4
  <2>3. /\ StackFits(g, stack') /\ Len(stack') = d - 1 /\ stack'[1] = stack[1]
    BY <2>1, <2>2, PopFits
  <2>4. Len(stack') >= Len(frames')
    <3> HIDE DEF n, d
    <3> QED BY <1>1, <1>2, <2>1, <2>3
  <2> QED BY <1>1, <1>4, <2>1, <2>3, <2>4
<1> QED BY <1>3, <1>4

(* No more symbols. *)
LEMMA EndSteps ==
  ASSUME SInv, IInv, EndOfChunks
  PROVE  SInv'
<1> DEFINE g == P.grammar
           n == Len(frames)
<1>1. /\ status = "running" /\ pos > Len(doc) /\ GiveBack(frames, stack, mem)
      /\ UNCHANGED <<profile, doc, config, pos, lost, heads, cut>>
  BY DEF EndOfChunks, Running
<1>2. /\ profile \in DOMAIN Profile /\ g \in Grammar /\ StackFits(g, stack)
      /\ Nested(frames) /\ Len(stack) >= n /\ pos = Len(doc) + 1
      /\ Len(doc) \in Nat /\ MemoryKept(mem)
  BY <1>1, Profiled DEF SInv, Paired, IInv, Placed
<1>3. /\ StackFits(g, stack') /\ Len(stack') >= Len(frames')
      /\ stack'[1] = stack[1] /\ MemoryKept(mem')
      /\ \/ n = 1 /\ frames' = frames /\ stack' = stack /\ status' = "parsed"
         \/ /\ n # 1 /\ Len(frames') = n - 1
            /\ Len(stack') = Len(stack) - 1 /\ status' = status
  BY <1>1, <1>2, BackFits
<1> HIDE DEF n
<1>4. P' = P /\ status' \in {"running", "parsed"}
      /\ profile' = profile
  <2>1. P' = P /\ profile' = profile
    BY <1>1 DEF P
  <2> QED BY <1>1, <1>3, <2>1
<1>5. Paired'
  <2>1. ~ cut' => Len(stack') = Len(frames') /\ lost' = {}
    <3> SUFFICES ASSUME ~ cut' PROVE Len(stack') = Len(frames') /\ lost' = {}
      OBVIOUS
    <3>1. Len(stack) = n /\ lost = {}
      BY <1>1 DEF SInv, Paired, n
    <3> QED BY <1>1, <1>3, <3>1 DEF n
  <2>2. Finished' => Len(frames') = 1
    BY <1>1, <1>3 DEF Finished, n
  <2>3. pos' = Len(doc') + 1
    BY <1>1, <1>2
  <2> QED BY <1>3, <2>1, <2>2, <2>3 DEF Paired
<1>6. RfcPlaced'
  <2> SUFFICES ASSUME g = "rfc" PROVE RfcPlaced'
    BY <1>4 DEF RfcPlaced
  <2>1. ~ cut /\ (stack[1] = "body" => pos = 1)
    BY <1>1 DEF SInv, RfcPlaced, Running
  <2>2. ~ (pos' <= Len(doc'))
    BY <1>1, <1>2
  <2> QED BY <1>1, <1>3, <2>1, <2>2 DEF RfcPlaced
<1>7. NeverStuck'
  BY <1>4 DEF NeverStuck
<1>8. HeadingsOpen'
  BY <1>1, <1>4 DEF HeadingsOpen, Sectioned, SInv
<1>9. (StackFits(P.grammar, stack))' /\ (MemoryKept(mem))'
  BY <1>3, <1>4 DEF StackFits, MemoryKept
<1> QED BY <1>2, <1>4, <1>5, <1>6, <1>7, <1>8, <1>9 DEF SInv

(* A constructor that ran out of chunks: in an RFC that is the header.     *)
LEMMA OutSteps ==
  ASSUME NEW a, Going(a), Fits(P.grammar, Top, Symbol, a),
         a.make \in {"make_rfcheader", "make_appendix"}, OutOfChunks(a)
  PROVE  SInv'
<1> DEFINE g == P.grammar
           n == Len(frames)
<1>1. /\ GiveBack(frames, stack, a.mem) /\ pos' = Len(doc) + 1 /\ cut' = TRUE
      /\ UNCHANGED <<profile, doc, config, heads>> /\ status = "running"
  BY GoingIs DEF OutOfChunks
<1>2. /\ g \in Grammar /\ StackFits(g, stack) /\ Nested(frames)
      /\ Len(stack) >= n /\ MemoryKept(a.mem) /\ n \in Nat \ {0}
      /\ (Top \in Outermost <=> Len(stack) = 1)
  BY GoingIs DEF Going
<1>3. /\ StackFits(g, stack') /\ Len(stack') >= Len(frames') /\ MemoryKept(mem')
      /\ (n = 1 /\ status' = "parsed") \/ (n # 1 /\ status' = status)
  BY <1>1, <1>2, BackFits
<1> HIDE DEF n
<1>4. status' \in {"running", "parsed"}
  BY <1>1, <1>3
<1>5. RfcPlaced'
  <2> SUFFICES ASSUME g = "rfc" PROVE RfcPlaced'
    BY <1>1 DEF RfcPlaced, P
  <2>1. Top \in Outermost
    BY DEF Fits, RfcFits
  <2>2. n = 1
    <3> DEFINE d == Len(stack)
    <3>1. d = 1 /\ d >= n /\ n \in Nat \ {0}
      BY <1>2, <2>1
    <3> HIDE DEF d
    <3> QED BY <3>1
  <2> QED BY <1>3, <2>2 DEF RfcPlaced, Running
<1>6. Onward(a)
  <2>1. ~ Sectioned
    BY DEF Fits, SectionFits, Sectioned, Numberings
  <2> QED BY <1>1, <2>1 DEF Onward
<1>7. Paired'
  BY <1>1, <1>3 DEF Paired
<1> QED BY <1>3, <1>4, <1>5, <1>6, <1>7, Stepped

(* A StopIteration of a recognizer. *)
LEMMA StopSteps ==
  ASSUME NEW a, Going(a), a.make = "StopIteration", StopAhead(a)
  PROVE  SInv'
<1> DEFINE g == P.grammar
           n == Len(frames)
           fs == SubSeq(frames, 1, n - 1)
<1>1. g # "rfc"
  BY DEF Going, Outcome, Fits, Opening, Reading
<1>2. CASE n = 1
  BY <1>2, FailSteps DEF StopAhead
<1>3. CASE n # 1
  <2>1. /\ GiveBack(fs, stack, a.mem) /\ cut' = TRUE
        /\ UNCHANGED <<profile, doc, config, pos, heads>> /\ status = "running"
    BY <1>3, GoingIs DEF StopAhead
  <2>2. /\ g \in Grammar /\ StackFits(g, stack) /\ Nested(frames) /\ n \in Nat \ {0}
        /\ Len(stack) \in Nat /\ Len(stack) >= n /\ MemoryKept(a.mem)
    BY GoingIs DEF Going
  <2>3. Nested(fs) /\ Len(fs) = n - 1
    <3>1. frames \in Seq(Frame) /\ frames[1].kind = "root" /\ n - 1 \in 1..n
      <4>1. n \in Nat \ {0} /\ n # 1
        BY <1>3, <2>2
      <4>2. n - 1 \in 1..n
        <5> HIDE DEF n
        <5> QED BY <4>1
      <4> QED BY <2>2, <4>2 DEF Nested
    <3>2. fs \in Seq(Frame) /\ Len(fs) = n - 1 /\ fs[1] = frames[1]
      BY <3>1
    <3>3. Len(fs) >= 1
      BY <3>1, <3>2
    <3> HIDE DEF fs
    <3> QED BY <3>1, <3>2, <3>3 DEF Nested
  <2>4. Len(stack) >= Len(fs)
    BY <2>2, <2>3
  <2> HIDE DEF fs
  <2>5. /\ StackFits(g, stack') /\ Len(stack') >= Len(frames') /\ MemoryKept(mem')
        /\ status' = "parsed" \/ status' = status
    BY <2>1, <2>2, <2>3, <2>4, BackFits
  <2>6. status' \in {"running", "parsed"}
    BY <2>1, <2>5
  <2>7. RfcPlaced'
    BY <1>1, <2>1 DEF RfcPlaced, P
  <2>8. Paired' /\ Onward(a)
    BY <2>1, <2>5 DEF Paired, Onward
  <2> QED BY <2>5, <2>6, <2>7, <2>8, Stepped
<1> QED BY <1>2, <1>3

(* An element is left; an RFC comes to what is after the preamble at a     *)
(* section only.                                                           *)
LEMMA LeaveSteps ==
  ASSUME NEW a, Going(a), Fits(P.grammar, Top, Symbol, a), Sees(Symbol) # "no",
         LeaveElement(a)
  PROVE  SInv'
<1> DEFINE g == P.grammar
           n == Len(stack)
           f == Len(frames)
           stk == IF a.new = Stay THEN stack ELSE [stack EXCEPT ![n - 1] = a.new]
<1>1. /\ a.make = "leave" /\ GiveBack(frames, stk, a.mem)
      /\ UNCHANGED <<profile, doc, config, pos, lost, heads, cut>>
  BY DEF LeaveElement
<1>2. /\ g \in Grammar /\ StackFits(g, stack) /\ Nested(frames)
      /\ n \in Nat \ {0} /\ n >= f /\ MemoryKept(a.mem)
      /\ f \in Nat \ {0} /\ status = "running" /\ n > 1
      /\ (~ cut => n = f /\ lost = {}) /\ (g = "rfc" => ~ cut)
  <2>1. /\ g \in Grammar /\ StackFits(g, stack) /\ Nested(frames)
        /\ n \in Nat \ {0} /\ n >= f /\ MemoryKept(a.mem)
        /\ f \in Nat \ {0} /\ status = "running"
        /\ (Top \in Outermost <=> n = 1)
        /\ (~ cut => n = f /\ lost = {}) /\ (g = "rfc" => ~ cut)
    BY GoingIs DEF Going
  <2>2. n # 1
    BY <1>1, <2>1 DEF Fits
  <2>3. n \in Nat \ {0}
    BY <2>1
  <2>4. n > 1
    <3> HIDE DEF n
    <3> QED BY <2>2, <2>3
  <2> QED BY <2>1, <2>4
<1>3. Onward(a)
  BY <1>1 DEF Onward
<1>4. CASE a.new = Stay
  <2>1. GiveBack(frames, stack, a.mem)
    BY <1>1, <1>4
  <2>2. /\ StackFits(g, stack') /\ Len(stack') >= Len(frames')
        /\ stack'[1] = stack[1] /\ MemoryKept(mem')
        /\ \/ /\ f = 1 /\ frames' = frames
              /\ stack' = stack /\ status' = "parsed"
           \/ /\ f # 1 /\ Len(frames') = f - 1
              /\ Len(stack') = n - 1 /\ status' = status
    BY <1>2, <2>1, BackFits
  <2> HIDE DEF n, f
  <2>3. status' \in {"running", "parsed"}
    BY <1>2, <2>2
  <2>4. ~ cut => f # 1 /\ n = f /\ lost = {}
    BY <1>2
  <2>5. Paired'
    <3>1. CASE cut
      BY <1>1, <2>2, <3>1 DEF Paired
    <3>2. CASE ~ cut
      <4>1. status' = "running" /\ Len(stack') = Len(frames') /\ lost' = {}
        BY <1>1, <1>2, <2>2, <2>4, <3>2
      <4> QED BY <2>2, <4>1 DEF Paired, Finished
    <3> QED BY <3>1, <3>2
  <2>6. RfcPlaced'
    <3> SUFFICES ASSUME g = "rfc" PROVE RfcPlaced'
      BY <1>1 DEF RfcPlaced, P
    <3>1. /\ ~ cut /\ Len(stack') = n - 1 /\ stack'[1] = stack[1]
      BY <1>2, <2>2, <2>4
    <3>2. \/ stack[1] = "preamble"
          \/ stack[1] = "after-preamble" /\ stack[2] = "section"
      BY <1>2, RfcPairIs DEF n
    <3>3. ASSUME Len(stack') = 1, stack[1] = "after-preamble"
          PROVE  "section" \in doc[pos]
      <4>1. n = 2
        <5>1. n - 1 = 1 /\ n \in Nat
          BY <1>2, <3>1, <3>3
        <5> QED BY <5>1
      <4>2. Top = "section"
        BY <3>2, <3>3, <4>1 DEF Top, n
      <4>3. Symbol = "section"
        BY <1>1, <4>2 DEF Fits, RfcFits, Outermost
      <4> QED BY <4>3, SeesIs DEF If
    <3> QED BY <1>1, <3>1, <3>2, <3>3 DEF RfcPlaced
  <2> QED BY <1>3, <2>2, <2>3, <2>5, <2>6, Stepped
<1>5. CASE a.new # Stay
  <2>1. g = "rfc" /\ RfcFits(Top, Symbol, a) /\ Top \notin Outermost
    BY <1>1, <1>5 DEF Fits
  <2>2. Top = "preamble-section" /\ a.new = "after-preamble" /\ Symbol = "section"
    BY <1>1, <1>5, <2>1 DEF RfcFits
  <2>3. n = 2
    <3> SUFFICES ASSUME n # 2 PROVE FALSE
      OBVIOUS
    <3>1. n > 2 /\ 2 \in DOMAIN stack /\ n \in DOMAIN stack
      <4>1. DOMAIN stack = 1..n /\ n > 1 /\ n \in Nat
        BY <1>2, BottomIs
      <4> HIDE DEF n
      <4> QED BY <4>1
    <3>2. Depth(stack[2]) < Depth(stack[n])
      BY <1>2, <3>1 DEF StackFits
    <3>3. stack[2] \in {"preamble-section", "section"}
      BY <1>2, <2>1, RfcPairIs
    <3> QED BY <2>2, <3>2, <3>3 DEF Top, Depth
  <2>4. f = 2 /\ ~ cut /\ lost = {}
    BY <1>2, <2>1, <2>3
  <2>5. stk \in Seq(State) /\ Len(stk) = 2 /\ stk[1] = a.new
    <3>1. stack \in Seq(State) /\ a.new \in State
      BY <1>2, <2>2 DEF StackFits, State, Outermost
    <3> QED BY <1>5, <2>3, <3>1
  <2> HIDE DEF stk
  <2>6. /\ Len(frames') = 1 /\ status' = status /\ MemoryKept(mem')
        /\ stack' = SubSeq(stk, 1, Len(stk) - 1)
    <3>1. /\ MemoryKept(mem')
          /\ \/ f = 1
             \/ /\ Len(frames') = f - 1 /\ status' = status
                /\ stack' = SubSeq(stk, 1, Len(stk) - 1)
      BY <1>1, <1>2, GiveBackDoes
    <3> HIDE DEF f
    <3> QED BY <2>4, <3>1
  <2>7. stack' = <<"after-preamble">>
    <3>1. /\ SubSeq(stk, 1, 1) \in Seq(State) /\ Len(SubSeq(stk, 1, 1)) = 1
          /\ SubSeq(stk, 1, 1)[1] = stk[1]
      BY <2>5
    <3>2. \A s \in Seq(State) : Len(s) = 1 => s = <<s[1]>>
      OBVIOUS
    <3>3. SubSeq(stk, 1, 1) = <<stk[1]>>
      BY <3>1, <3>2
    <3>4. Len(stk) - 1 = 1
      BY <2>5
    <3> QED BY <2>2, <2>5, <2>6, <3>3, <3>4
  <2>8. StackFits(g, stack') /\ Len(stack') = 1 /\ stack'[1] = "after-preamble"
    BY <2>1, <2>7, OnlyFits DEF Outermost
  <2>9. "section" \in doc[pos]
    BY <2>1, <2>2, SeesIs DEF If
  <2>10. RfcPlaced'
    BY <1>1, <2>4, <2>8, <2>9 DEF RfcPlaced
  <2>11. Paired'
    BY <1>1, <1>2, <2>4, <2>6, <2>8 DEF Paired, Finished
  <2>12. status' \in {"running", "parsed"}
    BY <1>2, <2>6
  <2> QED BY <1>3, <2>6, <2>8, <2>10, <2>11, <2>12, Stepped
<1> QED BY <1>4, <1>5

(* A constructor. *)
LEMMA ConstructorSteps ==
  ASSUME NEW a, Going(a), Fits(P.grammar, Top, Symbol, a), Constructors(a)
  PROVE  SInv'
<1>1. MemoryKept(a.mem) /\ IInv /\ pos <= Len(doc)
  BY DEF Going
<1>2. IInv'
  BY <1>1, ConstructorsKeep
<1>3. ASSUME a.make \in Reading \ {"make_rfcheader"}, NEW held, NEW left,
             AppendTo(a, held, left, pos + 1), MemoryKept(mem')
      PROVE  SInv'
  BY <1>2, <1>3, AppendSteps
<1>4. ASSUME a.make \in Opening \ {"list"}, NEW kind, NEW held, NEW next,
             Descend(a, kind, held, next), MemoryKept(mem'),
             \/ a.make = "make_appendix"
             \/ held = {} /\ next = pos
             \/ held = {pos} /\ next = pos + 1
      PROVE  SInv'
  BY <1>2, <1>4, DescendSteps
<1>5. CASE KeepChunk(a)
  BY <1>1, <1>3, <1>5 DEF KeepChunk, Reading
<1>6. CASE SkipChunk(a)
  BY <1>1, <1>3, <1>6 DEF SkipChunk, Reading
<1>7. CASE OpenElement(a)
  BY <1>1, <1>4, <1>7 DEF OpenElement, Opening
<1>8. CASE WrapElement(a)
  BY <1>1, <1>4, <1>8 DEF WrapElement, Opening
<1>9. CASE OpenList(a)
  BY <1>9, ListSteps
<1>10. CASE make_rfcheader(a)
  <2>1. CASE pos = Len(doc)
    BY <1>10, <2>1, OutSteps DEF make_rfcheader
  <2>2. CASE pos # Len(doc)
    <3>1. PICK held, next : AppendTo(a, held, {}, next)
      BY <1>10, <2>2 DEF make_rfcheader
    <3>2. a.make = "make_rfcheader" /\ mem' = a.mem
      BY <1>10, <2>2 DEF make_rfcheader
    <3> QED BY <1>1, <1>2, <3>1, <3>2, AppendSteps DEF Reading
  <2> QED BY <2>1, <2>2
<1>11. CASE make_datum(a)
  <2>1. mem' = a.mem \/ mem' = [a.mem EXCEPT !.off = @ \cup {"datum"}]
    BY <1>11 DEF make_datum
  <2>2. MemoryKept(mem')
    BY <1>1, <2>1 DEF MemoryKept
  <2> QED BY <1>3, <1>11, <2>2 DEF make_datum, Reading
<1>12. CASE make_dnr(a)
  <2>1. MemoryKept(mem')
    BY <1>1, <1>12 DEF make_dnr, MemoryKept
  <2> QED BY <1>3, <1>12, <2>1 DEF make_dnr, Reading
<1>13. CASE make_delmal(a)
  <2>1. MemoryKept(mem')
    BY <1>1, <1>13 DEF make_delmal, MemoryKept
  <2> QED BY <1>4, <1>13, <2>1 DEF make_delmal, Opening
<1>14. CASE make_instans(a)
  <2>1. MemoryKept(mem')
    BY <1>1, <1>14 DEF make_instans, MemoryKept
  <2> QED BY <1>4, <1>14, <2>1 DEF make_instans, Opening
<1>15. CASE skip_pagebreak(a)
  <2>1. MemoryKept(mem')
    BY <1>1, <1>15 DEF skip_pagebreak, MemoryKept
  <2> QED BY <1>3, <1>15, <2>1 DEF skip_pagebreak, Reading
<1>16. CASE make_preamblesection(a)
  <2>1. MemoryKept(mem')
    BY <1>1, <1>16 DEF make_preamblesection, MemoryKept
  <2>2. PICK kind : Descend(a, kind, {pos}, pos + 1)
    BY <1>16 DEF make_preamblesection
  <2> QED BY <1>4, <1>16, <2>1, <2>2 DEF make_preamblesection, Opening
<1>17. CASE make_appendix(a)
  <2>1. CASE AppendixTitle(View) = 0
    BY <1>17, <2>1, OutSteps DEF make_appendix
  <2>2. CASE AppendixTitle(View) # 0
    <3>1. MemoryKept(mem')
      BY <1>1, <1>17, <2>2 DEF make_appendix, MemoryKept
    <3>2. PICK held, next : Descend(a, "element", held, next)
      BY <1>17, <2>2 DEF make_appendix
    <3> QED BY <1>4, <1>17, <3>1, <3>2 DEF make_appendix, Opening
  <2> QED BY <2>1, <2>2
<1> QED BY <1>5, <1>6, <1>7, <1>8, <1>9, <1>10, <1>11, <1>12, <1>13, <1>14,
           <1>15, <1>16, <1>17 DEF Constructors

(* One turn of the loop. *)
LEMMA TurnSteps ==
  ASSUME SInv, IInv, Turn
  PROVE  SInv'
<1> DEFINE a == Transition(Symbol)
<1>1. /\ Running /\ pos <= Len(doc)
      /\ Stuck(a) \/ StopAhead(a) \/ LeaveElement(a) \/ Constructors(a)
  BY DEF Turn
<1>2. Len(doc) \in Nat /\ pos \in 1..Len(doc)
  BY <1>1, Places
<1>3. PICK b : b = Transition(Symbol)
  OBVIOUS
<1>4. Stuck(b) \/ StopAhead(b) \/ LeaveElement(b) \/ Constructors(b)
  BY <1>1, <1>3
<1> HIDE DEF a
<1>5. Outcome(b) /\ MemoryKept(b.mem)
  BY <1>1, <1>2, <1>3, Chosen
<1>6. Going(b)
  BY <1>1, <1>5 DEF Going
<1>7. CASE b.make = "FSMStateError" /\ P.grammar = "rfc" /\ "rfcheader" \notin doc[1]
  <2>1. Stuck(b)
    BY <1>4, <1>7 DEF StopAhead, LeaveElement, Constructors, KeepChunk,
          SkipChunk, OpenElement, WrapElement, OpenList, make_rfcheader,
          make_datum, make_dnr, make_delmal, make_instans, skip_pagebreak,
          make_preamblesection, make_appendix
  <2> QED BY <1>6, <1>7, <2>1, FailSteps DEF Stuck
<1>8. CASE b.make = "StopIteration" /\ P.grammar # "rfc"
  <2>1. StopAhead(b)
    BY <1>4, <1>8 DEF Stuck, LeaveElement, Constructors, KeepChunk,
          SkipChunk, OpenElement, WrapElement, OpenList, make_rfcheader,
          make_datum, make_dnr, make_delmal, make_instans, skip_pagebreak,
          make_preamblesection, make_appendix
  <2> QED BY <1>6, <1>8, <2>1, StopSteps
<1>9. CASE Fits(P.grammar, Top, Symbol, b) /\ Sees(Symbol) # "no"
  <2>1. b.make \notin {"FSMStateError", "StopIteration"}
    BY <1>9 DEF Fits, Opening, Reading
  <2>2. LeaveElement(b) \/ Constructors(b)
    BY <1>4, <2>1 DEF Stuck, StopAhead
  <2> QED BY <1>6, <1>9, <2>2, LeaveSteps, ConstructorSteps
<1> QED BY <1>5, <1>7, <1>8, <1>9 DEF Outcome

(* The invariant holds when a parser begins. *)
LEMMA SInvInit == Init => SInv
<1> SUFFICES ASSUME Init PROVE SInv
  OBVIOUS
<1>1. /\ profile \in DOMAIN Profile /\ pos = 1 /\ stack = <<"body">>
      /\ frames = <<Root>> /\ mem = NewParser /\ lost = {} /\ heads = {}
      /\ cut = FALSE /\ status = "running"
  BY DEF Init
<1>2. P.grammar \in Grammar
  BY <1>1, Profiled
<1>3. StackFits(P.grammar, stack) /\ MemoryKept(mem)
  BY <1>1, <1>2, FreshFits
<1>4. RfcPlaced
  BY <1>1, FreshFits DEF RfcPlaced
<1>5. Paired
  BY <1>1, FreshFits DEF Paired, Finished
<1>6. NeverStuck /\ HeadingsOpen
  BY <1>1 DEF NeverStuck, HeadingsOpen
<1> QED BY <1>1, <1>3, <1>4, <1>5, <1>6 DEF SInv

(* Every step keeps it. *)
LEMMA SInvStep == SInv /\ IInv /\ [Next]_vars => SInv'
<1> SUFFICES ASSUME SInv, IInv, [Next]_vars PROVE SInv'
  OBVIOUS
<1>1. CASE EndOfChunks
  BY <1>1, EndSteps
<1>2. CASE Turn
  BY <1>2, TurnSteps
<1>3. CASE UNCHANGED vars
  <2>1. /\ UNCHANGED <<profile, doc, config, pos, stack, frames, mem, lost,
                       heads, cut, status>>
        /\ P' = P
    BY <1>3 DEF vars, P
  <2>2. (StackFits(P.grammar, stack))' /\ (MemoryKept(mem))'
    BY <2>1 DEF StackFits, MemoryKept, SInv
  <2>3. RfcPlaced' /\ Paired'
    BY <2>1 DEF RfcPlaced, Paired, Running, Finished, SInv
  <2>4. NeverStuck' /\ HeadingsOpen'
    BY <2>1 DEF NeverStuck, HeadingsOpen, Sectioned, SInv
  <2> QED BY <2>1, <2>2, <2>3, <2>4 DEF SInv
<1> QED BY <1>1, <1>2, <1>3 DEF Next

(* Both invariants of the parser. *)
LEMMA AlwaysFits == Spec => [](SInv /\ IInv)
<1>1. Init => SInv /\ IInv
  BY SInvInit, InitEstablishes
<1>2. (SInv /\ IInv) /\ [Next]_vars => (SInv /\ IInv)'
  BY SInvStep, StepPreserves
<1> QED BY <1>1, <1>2, PTL DEF Spec
-----------------------------------------------------------------------------
(* The tables of all eight grammars have an entry for whatever comes in    *)
(* whatever state they lead to: only an RFC that does not begin with its   *)
(* header makes analyze_symbol raise FSMStateError (get_parser of each     *)
(* repository, FSMParser.analyze_symbol).                                  *)
THEOREM TablesComplete == Spec => []NeverStuck
<1>1. SInv /\ IInv => NeverStuck
  BY DEF SInv
<1> QED BY <1>1, AlwaysFits, PTL

(* As long as no StopIteration is taken for the end, _state_stack has one  *)
(* state for each element being made, and no state twice: what is opened   *)
(* is always further in than what it is opened in.                         *)
THEOREM NoneNested == Spec => []NoSelfNesting
<1>1. SInv /\ IInv => NoSelfNesting
  <2> SUFFICES ASSUME SInv, ~ cut
               PROVE  /\ Len(stack) = Len(frames)
                      /\ \A i, j \in DOMAIN stack : stack[i] = stack[j] => i = j
    BY DEF NoSelfNesting
  <2>1. Len(stack) = Len(frames)
    BY DEF SInv, Paired
  <2>2. ASSUME NEW i \in DOMAIN stack, NEW j \in DOMAIN stack, stack[i] = stack[j]
        PROVE  i = j
    <3>1. DOMAIN stack \subseteq Nat
      BY DEF SInv, StackFits
    <3>2. \A k, l \in DOMAIN stack : k < l => Depth(stack[k]) < Depth(stack[l])
      BY DEF SInv, StackFits
    <3>3. Depth(stack[i]) = Depth(stack[j]) /\ Depth(stack[i]) \in Nat
      BY <2>2, DepthIs
    <3>4. ~ (i < j) /\ ~ (j < i)
      BY <3>2, <3>3
    <3> QED BY <3>1, <3>4
  <2> QED BY <2>1, <2>2
<1> QED BY <1>1, AlwaysFits, PTL

(* When the root element is given back and nobody looked past the end, the *)
(* whole document has been read and the tree has all of it but what was    *)
(* left out on purpose: no table closes the root early (make_children,     *)
(* get_parser of each repository).                                         *)
THEOREM NothingDropped == Spec => []NothingLost
<1>1. SInv /\ IInv => NothingLost
  <2> SUFFICES ASSUME SInv, IInv, Finished, ~ cut
               PROVE  Tree = DOMAIN doc \ skipped /\ pos = Len(doc) + 1
    BY DEF NothingLost
  <2>1. Len(frames) = 1 /\ lost = {} /\ pos = Len(doc) + 1
    BY DEF SInv, Paired
  <2>2. Conserved
    BY ConservedIs DEF IInv
  <2>3. Len(doc) \in Nat /\ DOMAIN doc = 1..Len(doc) /\ Nested(frames)
    BY DEF IInv, Placed
  <2>4. DOMAIN frames = {1}
    <3>1. frames \in Seq(Frame)
      BY <2>3 DEF Nested
    <3> QED BY <2>1, <3>1
  <2>5. pos - 1 = Len(doc)
    BY <2>1, <2>3
  <2>6. (UNION {frames[i].held : i \in DOMAIN frames}) = Tree
    BY <2>4 DEF Tree
  <2>7. Tree \cup skipped \cup lost = 1..Len(doc) /\ Tree \cap (skipped \cup lost) = {}
    BY <2>2, <2>4, <2>5, <2>6 DEF Conserved, Tree
  <2> QED BY <2>1, <2>3, <2>7
<1> QED BY <1>1, AlwaysFits, PTL

(* In the grammars with numbered sections, every heading of the first      *)
(* level that was read, and in which nothing is seen that is recognized    *)
(* before it, has opened an element, whatever it came after (the tables    *)
(* and set_recognizers of w3c, jo, jk and direktiv).                       *)
THEOREM HeadingsFound == Spec => []HeadingsOpen
<1>1. SInv /\ IInv => HeadingsOpen
  BY DEF SInv
<1> QED BY <1>1, AlwaysFits, PTL
=============================================================================
