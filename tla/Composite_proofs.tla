-------------------------- MODULE Composite_proofs --------------------------
(***************************************************************************)
(* The links of a composite repository belong together, for any number of  *)
(* subrepositories, downloads, removals and crashes.                       *)
(***************************************************************************)
EXTENDS Composite, TLAPS

(* From the file it parses to the last link, the process is at one of the  *)
(* subrepositories.                                                        *)
CurrentIsSub ==
  \/ pc \in {"distil", "copy", "unlink", "symlink"}
  \/ pc \in {"truncate", "write"} /\ saving.then = "copy"
  => cur \in Sub

(* Between the links, those made so far lead to the current subrepository. *)
LinkedSoFar ==
  pc \in {"unlink", "symlink"} =>
    /\ file \in {"distilled", "parsed"} => link["entry"] = cur
    /\ file = "parsed" => link["distilled"] = cur

(* Outside of copy_parsed all three links lead to one place.               *)
LinksAgree ==
  ~torn /\ pc \notin {"unlink", "symlink"} =>
    link["entry"] = link["distilled"] /\ link["distilled"] = link["parsed"]

IInv == TypeOK /\ CurrentIsSub /\ LinkedSoFar /\ LinksAgree

-----------------------------------------------------------------------------
(* The smallest of each set. *)
LEMMA Smallest ==
  0 \in Time /\ 0 \in 0..N /\ 1 \in 1..(N + 1) /\ 0 \in 0..MaxCrashes
  BY CompositeAssumption DEF Time

(* A time is reached within the bound. *)
LEMMA ClockStep == ASSUME clock \in Time, Tick PROVE clock' \in Time
  BY CompositeAssumption DEF Time, Tick

(* The first state satisfies the invariant. *)
LEMMA InitIInv == Init => IInv
<1> SUFFICES ASSUME Init PROVE IInv
  OBVIOUS
<1>1. TypeOK
  BY Smallest DEF Init, TypeOK, Linked, Place, Absent, Unsaved, ForceOption
<1>2. CurrentIsSub /\ LinkedSoFar /\ LinksAgree
  BY DEF Init, CurrentIsSub, LinkedSoFar, LinksAgree, Linked
<1> QED BY <1>1, <1>2 DEF IInv

(* The types are kept.                                                      *)
LEMMA TypeStep ==
  ASSUME TypeOK, CurrentIsSub, [Next]_vars
  PROVE  TypeOK'
<1> USE Smallest DEF TypeOK, CurrentIsSub, sources, process, history, Goto
<1>s. Sub \subseteq 0..N /\ Sub \subseteq 1..(N + 1)
      /\ \A r \in Sub : r + 1 \in 1..(N + 1)
  BY CompositeAssumption DEF Sub
<1>i. \A e \in 0..N : Indexed(e) \in Time
  BY DEF Indexed
<1>1. CASE \E r \in Sub : Download(r)
  BY <1>1, ClockStep DEF Download
<1>2. CASE \E force \in ForceOption : StartParse(force)
  BY <1>2 DEF StartParse, Place
<1>3. CASE Remove
  BY <1>3 DEF Remove, Absent
<1>4. CASE NotPreferred
  BY <1>4, <1>s DEF NotPreferred
<1>5. CASE SubSkips
  BY <1>5 DEF SubSkips, Place
<1>6. CASE SubFails
  BY <1>6, <1>s, <1>i DEF SubFails, SubStarts, SubSaves, Place
<1>7. CASE SubParses
  BY <1>7, ClockStep DEF SubParses, SubStarts, Place
<1>8. CASE SubDistils
  BY <1>8, <1>s, <1>i DEF SubDistils, SubSaves, Place
<1>9. CASE SubFailsLate
  BY <1>9, <1>s, <1>i DEF SubFailsLate, SubSaves, Place
<1>10. CASE NoneLeft
  BY <1>10 DEF NoneLeft, Place
<1>11. CASE CopyParsed
  BY <1>11 DEF CopyParsed, Place, Linked
<1>12. CASE Unlink
  BY <1>12 DEF Unlink, Absent, Place
<1>13. CASE Symlink
  BY <1>13, <1>s DEF Symlink, NextFile, Place, Linked
<1>14. CASE StartRelate
  BY <1>14 DEF StartRelate, Place
<1>15. CASE RelateTriples
  <2>1. DistilledTime \in Time
    BY DEF DistilledTime, Through, Linked, Sub
  <2> QED BY <1>15, <2>1, ClockStep DEF RelateTriples, Place, Linked
<1>16. CASE LoadEntry
  BY <1>16, <1>i DEF LoadEntry, Place, Linked
<1>17. CASE Truncate
  BY <1>17 DEF Truncate, Place
<1>18. CASE Write
  <2>1. entry' \in [0..N -> [size : {"none", "empty", "full"},
                             indexed : Time]]
    BY <1>18 DEF Write
  <2>2. CASE saving.then = "idle"
    <3>1. pc' = "idle" /\ cur' = 1 /\ forced' = "no" /\ file' = "entry"
      BY <1>18, <2>2 DEF Write, GoIdle
    <3>2. saving' = [to |-> 0, indexed |-> 0, then |-> "idle"]
      BY <1>18, <2>2 DEF Write, GoIdle, Unsaved
    <3>3. UNCHANGED <<clock, sources, link, store, history>>
      BY <1>18 DEF Write
    <3> HIDE DEF CurrentIsSub
    <3> QED BY <2>1, <3>1, <3>2, <3>3 DEF Place, Linked, ForceOption
  <2>3. CASE saving.then # "idle"
    <3>1. saving.then \in {"try", "copy", "load"}
      BY <2>3
    <3> QED BY <1>18, <2>1, <2>3, <3>1 DEF Write, Unsaved, Place
  <2> QED BY <2>2, <2>3
<1>19. CASE Crash
  <2>1. crashes' \in 0..MaxCrashes
    BY <1>19, CompositeAssumption DEF Crash
  <2>2. torn' \in BOOLEAN
    BY <1>19 DEF Crash, Unlinked
  <2> QED BY <1>19, <2>1, <2>2 DEF Crash, GoIdle, Unsaved, Place, Linked,
             ForceOption
<1>20. CASE UNCHANGED vars
  BY <1>20 DEF vars
<1> QED
  BY <1>1, <1>2, <1>3, <1>4, <1>5, <1>6, <1>7, <1>8, <1>9, <1>10, <1>11,
     <1>12, <1>13, <1>14, <1>15, <1>16, <1>17, <1>18, <1>19, <1>20
  DEF Next, Parse, Relate, SaveEntry

(* The current one stays a subrepository until it is linked.                *)
LEMMA CurrentStep ==
  ASSUME TypeOK, CurrentIsSub, [Next]_vars
  PROVE  CurrentIsSub'
<1> USE CompositeAssumption
    DEF TypeOK, CurrentIsSub, Sub, sources, process, history, Goto, Tick
<1>1. CASE \E r \in Sub : Download(r)
  BY <1>1 DEF Download
<1>2. CASE \E force \in ForceOption : StartParse(force)
  BY <1>2 DEF StartParse
<1>3. CASE Remove
  BY <1>3 DEF Remove
<1>4. CASE NotPreferred
  BY <1>4 DEF NotPreferred
<1>5. CASE SubSkips
  BY <1>5 DEF SubSkips
<1>6. CASE SubFails
  BY <1>6 DEF SubFails, SubStarts, SubSaves
<1>7. CASE SubParses
  BY <1>7 DEF SubParses, SubStarts
<1>8. CASE SubDistils
  BY <1>8 DEF SubDistils, SubSaves
<1>9. CASE SubFailsLate
  BY <1>9 DEF SubFailsLate, SubSaves
<1>10. CASE NoneLeft
  BY <1>10 DEF NoneLeft
<1>11. CASE CopyParsed
  BY <1>11 DEF CopyParsed
<1>12. CASE Unlink
  BY <1>12 DEF Unlink
<1>13. CASE Symlink
  BY <1>13 DEF Symlink, NextFile
<1>14. CASE StartRelate
  BY <1>14 DEF StartRelate
<1>15. CASE RelateTriples
  BY <1>15 DEF RelateTriples
<1>16. CASE LoadEntry
  BY <1>16 DEF LoadEntry
<1>17. CASE Truncate
  BY <1>17 DEF Truncate
<1>18. CASE Write
  BY <1>18 DEF Write, GoIdle, Unsaved
<1>19. CASE Crash
  BY <1>19 DEF Crash, GoIdle, Unlinked, Unsaved
<1>20. CASE UNCHANGED vars
  BY <1>20 DEF vars
<1> QED
  BY <1>1, <1>2, <1>3, <1>4, <1>5, <1>6, <1>7, <1>8, <1>9, <1>10, <1>11,
     <1>12, <1>13, <1>14, <1>15, <1>16, <1>17, <1>18, <1>19, <1>20
  DEF Next, Parse, Relate, SaveEntry

(* Link by link.                                                            *)
LEMMA SoFarStep ==
  ASSUME TypeOK, LinkedSoFar, [Next]_vars
  PROVE  LinkedSoFar'
<1> USE DEF TypeOK, LinkedSoFar, Linked, sources, process, history, Goto,
        Tick
<1>1. CASE \E r \in Sub : Download(r)
  BY <1>1 DEF Download
<1>2. CASE \E force \in ForceOption : StartParse(force)
  BY <1>2 DEF StartParse
<1>3. CASE Remove
  BY <1>3 DEF Remove
<1>4. CASE NotPreferred
  BY <1>4 DEF NotPreferred
<1>5. CASE SubSkips
  BY <1>5 DEF SubSkips
<1>6. CASE SubFails
  BY <1>6 DEF SubFails, SubStarts, SubSaves
<1>7. CASE SubParses
  BY <1>7 DEF SubParses, SubStarts
<1>8. CASE SubDistils
  BY <1>8 DEF SubDistils, SubSaves
<1>9. CASE SubFailsLate
  BY <1>9 DEF SubFailsLate, SubSaves
<1>10. CASE NoneLeft
  BY <1>10 DEF NoneLeft
<1>11. CASE CopyParsed
  BY <1>11 DEF CopyParsed
<1>12. CASE Unlink
  BY <1>12 DEF Unlink
<1>13. CASE Symlink
  BY <1>13 DEF Symlink, NextFile
<1>14. CASE StartRelate
  BY <1>14 DEF StartRelate
<1>15. CASE RelateTriples
  BY <1>15 DEF RelateTriples
<1>16. CASE LoadEntry
  BY <1>16 DEF LoadEntry
<1>17. CASE Truncate
  BY <1>17 DEF Truncate
<1>18. CASE Write
  BY <1>18 DEF Write, GoIdle, Unsaved
<1>19. CASE Crash
  BY <1>19 DEF Crash, GoIdle, Unlinked, Unsaved
<1>20. CASE UNCHANGED vars
  BY <1>20 DEF vars
<1> QED
  BY <1>1, <1>2, <1>3, <1>4, <1>5, <1>6, <1>7, <1>8, <1>9, <1>10, <1>11,
     <1>12, <1>13, <1>14, <1>15, <1>16, <1>17, <1>18, <1>19, <1>20
  DEF Next, Parse, Relate, SaveEntry

(* The links agree before the first and after the last.                     *)
LEMMA AgreeStep ==
  ASSUME TypeOK, LinkedSoFar, LinksAgree, [Next]_vars
  PROVE  LinksAgree'
<1> USE DEF TypeOK, LinkedSoFar, LinksAgree, Linked, sources, process,
        history, Goto, Tick
<1>1. CASE \E r \in Sub : Download(r)
  BY <1>1 DEF Download
<1>2. CASE \E force \in ForceOption : StartParse(force)
  BY <1>2 DEF StartParse
<1>3. CASE Remove
  BY <1>3 DEF Remove
<1>4. CASE NotPreferred
  BY <1>4 DEF NotPreferred
<1>5. CASE SubSkips
  BY <1>5 DEF SubSkips
<1>6. CASE SubFails
  BY <1>6 DEF SubFails, SubStarts, SubSaves
<1>7. CASE SubParses
  BY <1>7 DEF SubParses, SubStarts
<1>8. CASE SubDistils
  BY <1>8 DEF SubDistils, SubSaves
<1>9. CASE SubFailsLate
  BY <1>9 DEF SubFailsLate, SubSaves
<1>10. CASE NoneLeft
  BY <1>10 DEF NoneLeft
<1>11. CASE CopyParsed
  BY <1>11 DEF CopyParsed
<1>12. CASE Unlink
  BY <1>12 DEF Unlink
<1>13. CASE Symlink
  BY <1>13 DEF Symlink, NextFile
<1>14. CASE StartRelate
  BY <1>14 DEF StartRelate
<1>15. CASE RelateTriples
  BY <1>15 DEF RelateTriples
<1>16. CASE LoadEntry
  BY <1>16 DEF LoadEntry
<1>17. CASE Truncate
  BY <1>17 DEF Truncate
<1>18. CASE Write
  BY <1>18 DEF Write, GoIdle, Unsaved
<1>19. CASE Crash
  BY <1>19 DEF Crash, GoIdle, Unlinked, Unsaved
<1>20. CASE UNCHANGED vars
  BY <1>20 DEF vars
<1> QED
  BY <1>1, <1>2, <1>3, <1>4, <1>5, <1>6, <1>7, <1>8, <1>9, <1>10, <1>11,
     <1>12, <1>13, <1>14, <1>15, <1>16, <1>17, <1>18, <1>19, <1>20
  DEF Next, Parse, Relate, SaveEntry

(* The invariant holds in every state of every behaviour. *)
LEMMA Invariant == Spec => []IInv
<1>1. ASSUME IInv, [Next]_vars PROVE IInv'
  BY <1>1, TypeStep, CurrentStep, SoFarStep, AgreeStep DEF IInv
<1> QED BY InitIInv, <1>1, PTL DEF Spec

-----------------------------------------------------------------------------
(* The variables of a composite repository keep their types. *)
THEOREM TypeCorrect == Spec => []TypeOK
<1>1. IInv => TypeOK
  BY DEF IInv
<1> QED BY <1>1, Invariant, PTL

(* Unless a parse was cut short, text, metadata and entry are those of one *)
(* subrepository (compositerepository.py:316-323), whatever failed.        *)
THEOREM LinksTogether == Spec => []LinkedTogether
<1>1. IInv => LinkedTogether
  BY DEF IInv, LinksAgree, LinkedTogether, Idle
<1> QED BY <1>1, Invariant, PTL
-----------------------------------------------------------------------------
(* The subrepository that is served is the best that parsed the document.  *)

(* Times are not in the future; what is not downloaded is not parsed.      *)
TimesKept ==
  \A r \in Sub : parsed[r] <= clock /\ (down[r] = 0 => parsed[r] = 0)

(* Nobody else's parsed file is as new as that of the current one.         *)
CurNewest == \A r \in Sub \ {cur} : parsed[r] < parsed[cur]

(* A subrepository that has written its parsed file is not complete before *)
(* its distilled file is there.                                            *)
Halfway == pc = "distil" => ~ parses[cur] /\ CurNewest

(* Whoever was asked before the current one, which is the first at the     *)
(* start, has nothing that is complete.                                    *)
NoneBefore ==
  /\ pc = "idle" => cur = 1
  /\ Unlinked => \A r \in Sub : r < cur => ~ Complete(r)

Copying ==
  pc = "copy" \/ (pc \in {"truncate", "write"} /\ saving.then = "copy")

(* The linked one is the best but while it is being replaced.              *)
ServedIsBest ==
  ~ torn /\ link["parsed"] # 0 =>
    \/ \A r \in Sub : r < link["parsed"] => ~ Complete(r)
    \/ pc \in {"unlink", "symlink"}
    \/ Copying /\ CurNewest

BInv == TimesKept /\ Halfway /\ NoneBefore /\ ServedIsBest

(* What the steps need of the types. *)
LEMMA Numbers ==
  ASSUME TypeOK
  PROVE  /\ clock \in Int /\ cur \in Int /\ link["parsed"] \in 0..N
         /\ \A r \in Sub : r \in 1..N /\ parsed[r] \in Nat /\ down[r] \in Nat
<1>1. clock \in Int /\ cur \in Int
  BY CompositeAssumption DEF TypeOK, Time
<1>2. link["parsed"] \in 0..N
  BY DEF TypeOK, Linked
<1>3. ASSUME NEW r \in Sub
      PROVE  r \in 1..N /\ parsed[r] \in Nat /\ down[r] \in Nat
  <2>1. parsed[r] \in Time /\ down[r] \in Time
    BY <1>3 DEF TypeOK
  <2> QED BY <2>1, CompositeAssumption DEF Time, Sub
<1> QED BY <1>1, <1>2, <1>3

(* Times only grow. *)
LEMMA TimesStep ==
  ASSUME TypeOK, CurrentIsSub, TimesKept, [Next]_vars
  PROVE  TimesKept'
<1> USE Numbers
    DEF TypeOK, CurrentIsSub, TimesKept, sources, process, history, Goto,
        Tick
<1>1. CASE \E r \in Sub : Download(r)
  BY <1>1 DEF Download
<1>2. CASE \E force \in ForceOption : StartParse(force)
  BY <1>2 DEF StartParse, UpToDate
<1>3. CASE Remove
  BY <1>3 DEF Remove
<1>4. CASE NotPreferred
  BY <1>4 DEF NotPreferred
<1>5. CASE SubSkips
  BY <1>5 DEF SubSkips
<1>6. CASE SubFails
  BY <1>6 DEF SubFails, SubStarts, SubSaves
<1>7. CASE SubParses
  <2>1. /\ clock' = clock + 1 /\ down' = down /\ down[cur] # 0
        /\ parsed' = [parsed EXCEPT ![cur] = clock']
    BY <1>7 DEF SubParses, SubStarts
  <2>2. ASSUME NEW r \in Sub
        PROVE  parsed'[r] <= clock' /\ (down'[r] = 0 => parsed'[r] = 0)
    <3>1. parsed'[r] = IF r = cur THEN clock' ELSE parsed[r]
      BY <2>1
    <3>2. parsed[r] <= clock /\ parsed[r] \in Nat /\ clock \in Int
          /\ (down[r] = 0 => parsed[r] = 0)
      OBVIOUS
    <3> HIDE DEF TypeOK, CurrentIsSub, TimesKept
    <3> QED BY <2>1, <3>1, <3>2
  <2> QED BY <2>2
<1>8. CASE SubDistils
  BY <1>8 DEF SubDistils, SubSaves
<1>9. CASE SubFailsLate
  BY <1>9 DEF SubFailsLate, SubSaves
<1>10. CASE NoneLeft
  BY <1>10 DEF NoneLeft
<1>11. CASE CopyParsed
  BY <1>11 DEF CopyParsed, LinksRecent, ParsedTime, Through
<1>12. CASE Unlink
  BY <1>12 DEF Unlink
<1>13. CASE Symlink
  BY <1>13 DEF Symlink, NextFile
<1>14. CASE StartRelate
  BY <1>14 DEF StartRelate
<1>15. CASE RelateTriples
  BY <1>15 DEF RelateTriples
<1>16. CASE LoadEntry
  BY <1>16 DEF LoadEntry
<1>17. CASE Truncate
  BY <1>17 DEF Truncate
<1>18. CASE Write
  BY <1>18 DEF Write, GoIdle, Unsaved
<1>19. CASE Crash
  BY <1>19 DEF Crash, GoIdle, Unsaved
<1>20. CASE UNCHANGED vars
  BY <1>20 DEF vars
<1> QED
  BY <1>1, <1>2, <1>3, <1>4, <1>5, <1>6, <1>7, <1>8, <1>9, <1>10, <1>11,
     <1>12, <1>13, <1>14, <1>15, <1>16, <1>17, <1>18, <1>19, <1>20
  DEF Next, Parse, Relate, SaveEntry

(* The parsed file of the current one is the newest.                        *)
LEMMA HalfwayStep ==
  ASSUME TypeOK, CurrentIsSub, TimesKept, Halfway, [Next]_vars
  PROVE  Halfway'
<1> USE Numbers
    DEF TypeOK, CurrentIsSub, TimesKept, Halfway, CurNewest, sources, process,
        history, Goto, Tick
<1>1. CASE \E r \in Sub : Download(r)
  BY <1>1 DEF Download
<1>2. CASE \E force \in ForceOption : StartParse(force)
  BY <1>2 DEF StartParse, UpToDate
<1>3. CASE Remove
  BY <1>3 DEF Remove
<1>4. CASE NotPreferred
  BY <1>4 DEF NotPreferred
<1>5. CASE SubSkips
  BY <1>5 DEF SubSkips
<1>6. CASE SubFails
  BY <1>6 DEF SubFails, SubStarts, SubSaves
<1>7. CASE SubParses
  BY <1>7 DEF SubParses, SubStarts
<1>8. CASE SubDistils
  BY <1>8 DEF SubDistils, SubSaves
<1>9. CASE SubFailsLate
  BY <1>9 DEF SubFailsLate, SubSaves
<1>10. CASE NoneLeft
  BY <1>10 DEF NoneLeft
<1>11. CASE CopyParsed
  BY <1>11 DEF CopyParsed, LinksRecent, ParsedTime, Through
<1>12. CASE Unlink
  BY <1>12 DEF Unlink
<1>13. CASE Symlink
  BY <1>13 DEF Symlink, NextFile
<1>14. CASE StartRelate
  BY <1>14 DEF StartRelate
<1>15. CASE RelateTriples
  BY <1>15 DEF RelateTriples
<1>16. CASE LoadEntry
  BY <1>16 DEF LoadEntry
<1>17. CASE Truncate
  BY <1>17 DEF Truncate
<1>18. CASE Write
  BY <1>18 DEF Write, GoIdle, Unsaved
<1>19. CASE Crash
  BY <1>19 DEF Crash, GoIdle, Unsaved
<1>20. CASE UNCHANGED vars
  BY <1>20 DEF vars
<1> QED
  BY <1>1, <1>2, <1>3, <1>4, <1>5, <1>6, <1>7, <1>8, <1>9, <1>10, <1>11,
     <1>12, <1>13, <1>14, <1>15, <1>16, <1>17, <1>18, <1>19, <1>20
  DEF Next, Parse, Relate, SaveEntry

(* Whoever is passed over has failed or has not got the document.           *)
LEMMA BeforeStep ==
  ASSUME TypeOK, CurrentIsSub, TimesKept, Halfway, NoneBefore, [Next]_vars
  PROVE  NoneBefore'
<1> USE Numbers
    DEF TypeOK, CurrentIsSub, TimesKept, Halfway, NoneBefore, Unlinked,
        Complete, SubNeeded, sources, process, history, Goto, Tick
<1>1. CASE \E r \in Sub : Download(r)
  <2>1. pc' = "idle" /\ cur' = 1
    BY <1>1 DEF Download
  <2> QED BY <2>1
<1>2. CASE \E force \in ForceOption : StartParse(force)
  BY <1>2 DEF StartParse, UpToDate
<1>3. CASE Remove
  BY <1>3 DEF Remove
<1>4. CASE NotPreferred
  BY <1>4 DEF NotPreferred
<1>5. CASE SubSkips
  BY <1>5 DEF SubSkips
<1>6. CASE SubFails
  BY <1>6 DEF SubFails, SubStarts, SubSaves
<1>7. CASE SubParses
  BY <1>7 DEF SubParses, SubStarts
<1>8. CASE SubDistils
  BY <1>8 DEF SubDistils, SubSaves
<1>9. CASE SubFailsLate
  BY <1>9 DEF SubFailsLate, SubSaves
<1>10. CASE NoneLeft
  BY <1>10 DEF NoneLeft
<1>11. CASE CopyParsed
  BY <1>11 DEF CopyParsed, LinksRecent, ParsedTime, Through
<1>12. CASE Unlink
  BY <1>12 DEF Unlink
<1>13. CASE Symlink
  BY <1>13 DEF Symlink, NextFile
<1>14. CASE StartRelate
  BY <1>14 DEF StartRelate
<1>15. CASE RelateTriples
  BY <1>15 DEF RelateTriples
<1>16. CASE LoadEntry
  BY <1>16 DEF LoadEntry
<1>17. CASE Truncate
  BY <1>17 DEF Truncate
<1>18. CASE Write
  BY <1>18 DEF Write, GoIdle, Unsaved
<1>19. CASE Crash
  BY <1>19 DEF Crash, GoIdle, Unsaved
<1>20. CASE UNCHANGED vars
  BY <1>20 DEF vars
<1> QED
  BY <1>1, <1>2, <1>3, <1>4, <1>5, <1>6, <1>7, <1>8, <1>9, <1>10, <1>11,
     <1>12, <1>13, <1>14, <1>15, <1>16, <1>17, <1>18, <1>19, <1>20
  DEF Next, Parse, Relate, SaveEntry

(* The link changes when a better or a newer one is complete.               *)
LEMMA ServedStep ==
  ASSUME TypeOK, CurrentIsSub, BInv, [Next]_vars
  PROVE  ServedIsBest'
<1> USE Numbers
    DEF BInv, TypeOK, CurrentIsSub, TimesKept, Halfway, NoneBefore,
        ServedIsBest, Unlinked, Copying, CurNewest, Complete, SubNeeded,
        Linked, sources, process, history, Goto, Tick
<1>1. CASE \E r \in Sub : Download(r)
  BY <1>1 DEF Download
<1>2. CASE \E force \in ForceOption : StartParse(force)
  BY <1>2 DEF StartParse, UpToDate
<1>3. CASE Remove
  BY <1>3 DEF Remove
<1>4. CASE NotPreferred
  BY <1>4 DEF NotPreferred
<1>5. CASE SubSkips
  BY <1>5 DEF SubSkips
<1>6. CASE SubFails
  BY <1>6 DEF SubFails, SubStarts, SubSaves
<1>7. CASE SubParses
  BY <1>7 DEF SubParses, SubStarts
<1>8. CASE SubDistils
  BY <1>8 DEF SubDistils, SubSaves
<1>9. CASE SubFailsLate
  BY <1>9 DEF SubFailsLate, SubSaves
<1>10. CASE NoneLeft
  BY <1>10 DEF NoneLeft
<1>11. CASE CopyParsed
  <2>1. CASE ~ LinksRecent
    BY <1>11, <2>1 DEF CopyParsed
  <2>2. CASE LinksRecent /\ link["parsed"] # 0
    <3>1. link["parsed"] \in Sub
      BY <2>2, CompositeAssumption DEF Sub
    <3>2. parsed[link["parsed"]] >= parsed[cur]
      BY <2>2 DEF LinksRecent, ParsedTime, Through
    <3>3. parsed[link["parsed"]] \in Nat /\ parsed[cur] \in Nat
      BY <3>1, <1>11, Numbers DEF CopyParsed
    <3>4. CurNewest => link["parsed"] = cur
      <4> HIDE DEF BInv, TypeOK, CurrentIsSub, TimesKept, Halfway, NoneBefore,
                   ServedIsBest, Complete, SubNeeded
      <4> QED BY <3>1, <3>2, <3>3
    <3> QED BY <1>11, <3>4 DEF CopyParsed
  <2>3. CASE link["parsed"] = 0
    BY <1>11, <2>3 DEF CopyParsed
  <2> QED BY <2>1, <2>2, <2>3
<1>12. CASE Unlink
  BY <1>12 DEF Unlink
<1>13. CASE Symlink
  BY <1>13 DEF Symlink, NextFile
<1>14. CASE StartRelate
  BY <1>14 DEF StartRelate
<1>15. CASE RelateTriples
  BY <1>15 DEF RelateTriples
<1>16. CASE LoadEntry
  BY <1>16 DEF LoadEntry
<1>17. CASE Truncate
  BY <1>17 DEF Truncate
<1>18. CASE Write
  BY <1>18 DEF Write, GoIdle, Unsaved
<1>19. CASE Crash
  BY <1>19 DEF Crash, GoIdle, Unsaved
<1>20. CASE UNCHANGED vars
  BY <1>20 DEF vars
<1> QED
  BY <1>1, <1>2, <1>3, <1>4, <1>5, <1>6, <1>7, <1>8, <1>9, <1>10, <1>11,
     <1>12, <1>13, <1>14, <1>15, <1>16, <1>17, <1>18, <1>19, <1>20
  DEF Next, Parse, Relate, SaveEntry

(* It holds in every state of every behaviour.                             *)
LEMMA BInvariant == Spec => []BInv
<1>1. Init => BInv
  BY DEF Init, BInv, TimesKept, Halfway, NoneBefore, ServedIsBest, Unlinked,
         Linked
<1>2. ASSUME IInv, BInv, [Next]_vars PROVE BInv'
  BY <1>2, TimesStep, HalfwayStep, BeforeStep, ServedStep DEF IInv, BInv
<1> QED BY <1>1, <1>2, Invariant, PTL DEF Spec

(* A document that a preferred subrepository has parsed since it last      *)
(* downloaded it is never served by another (compositerepository.py:239),  *)
(* unless a parse was cut short.                                           *)
THEOREM BestIsServed == Spec => []BestParsedLinked
<1>1. IInv /\ BInv => BestParsedLinked
  <2> SUFFICES ASSUME IInv, BInv, Idle, ~ torn, link["parsed"] # 0
               PROVE  \A r \in 1..(link["parsed"] - 1) : ~ Complete(r)
    BY DEF BestParsedLinked
  <2>1. \A r \in 1..(link["parsed"] - 1) : r \in Sub /\ r < link["parsed"]
    BY Numbers, CompositeAssumption DEF IInv, Sub
  <2> QED BY <2>1 DEF BInv, ServedIsBest, Idle, Copying
<1> QED BY <1>1, BInvariant, Invariant, PTL
-----------------------------------------------------------------------------
(* The triples are those of the subrepository that is served.              *)

(* The times of relating that an entry file says, or will say when the     *)
(* entry that is being saved is written.                                   *)
Stamps(e) ==
  {Indexed(e)} \cup
    IF pc \in {"truncate", "write"} /\ saving.to = e THEN {saving.indexed}
    ELSE {}

NothingIndexed == \A e \in 0..N : \A t \in Stamps(e) : t = 0

(* The metadata of r is yet to be related.                                 *)
Undone(r) == distilled[r] = 0 \/ \A t \in Stamps(r) : t < distilled[r]

(* No time is in the future; what is parsed is newer than when it was      *)
(* last related.                                                           *)
StampsKept ==
  /\ \A e \in 0..N : \A t \in Stamps(e) : t <= clock
  /\ \A r \in Sub : distilled[r] <= parsed[r]
  /\ Copying \/ pc \in {"distil", "unlink", "symlink"} => parsed[cur] # 0
  /\ pc = "distil" =>
       \A r \in Sub : r = cur => \A t \in Stamps(r) : t < parsed[r]

(* If there is no text in the composite store, nothing was ever related    *)
(* since the document was there; only what has metadata is related.        *)
Unparsed ==
  ~ torn =>
    /\ ParsedTime = 0 => NothingIndexed \/ (pc = "symlink" /\ file = "parsed")
    /\ pc = "triples" => DistilledTime # 0

(* Whoever is asked later needs to be parsed, unless force is given, or    *)
(* nothing was ever related.                                               *)
Outdated ==
  ~ torn /\ forced = "no" =>
    /\ pc = "try" \/ (pc \in {"truncate", "write"} /\ saving.then = "try")
         => NothingIndexed \/ \A r \in Sub : r >= cur => SubNeeded(r)
    /\ pc = "distil"
         => NothingIndexed \/ \A r \in Sub : r > cur => SubNeeded(r)

(* A subrepository is linked before it is related, and until then the      *)
(* linked one is related or yet to be related.                             *)
ReplacedByUndone ==
  ~ torn /\ (Copying \/ pc \in {"unlink", "symlink"}) =>
    \A r \in Sub : r = cur => Undone(r)

RelatedOrUndone ==
  ~ torn /\ pc \notin {"unlink", "symlink"} =>
    \A r \in Sub : r = link["distilled"] =>
      Undone(r) \/ [sub |-> r, time |-> distilled[r]] \in store

RInv ==
  StampsKept /\ Unparsed /\ Outdated /\ ReplacedByUndone /\ RelatedOrUndone

(* Relating is what gives an entry a new time.                             *)
LEMMA StampsStep ==
  ASSUME TypeOK, [Next]_vars, NEW e \in 0..N, NEW t \in Stamps(e)'
  PROVE  \/ t = 0 \/ t \in Stamps(e)
         \/ RelateTriples /\ e = link["entry"] /\ t = clock'
<1> USE DEF Stamps, Indexed, sources, process, history, Goto
<1>1. CASE \E r \in Sub : Download(r)
  BY <1>1 DEF Download
<1>2. CASE \E force \in ForceOption : StartParse(force)
  BY <1>2 DEF StartParse
<1>3. CASE Remove
  BY <1>3 DEF Remove, Absent
<1>4. CASE NotPreferred
  BY <1>4 DEF NotPreferred
<1>5. CASE SubSkips
  BY <1>5 DEF SubSkips
<1>6. CASE SubFails
  BY <1>6 DEF SubFails, SubStarts, SubSaves
<1>7. CASE SubParses
  BY <1>7 DEF SubParses, SubStarts
<1>8. CASE SubDistils
  BY <1>8 DEF SubDistils, SubSaves
<1>9. CASE SubFailsLate
  BY <1>9 DEF SubFailsLate, SubSaves
<1>10. CASE NoneLeft
  BY <1>10 DEF NoneLeft
<1>11. CASE CopyParsed
  BY <1>11 DEF CopyParsed
<1>12. CASE Unlink
  BY <1>12 DEF Unlink, Absent, TypeOK
<1>13. CASE Symlink
  BY <1>13 DEF Symlink, NextFile
<1>14. CASE StartRelate
  BY <1>14 DEF StartRelate
<1>15. CASE RelateTriples
  BY <1>15 DEF RelateTriples
<1>16. CASE LoadEntry
  BY <1>16 DEF LoadEntry
<1>17. CASE Truncate
  BY <1>17 DEF Truncate, TypeOK
<1>18. CASE Write
  <2>1. Indexed(e)' \in {Indexed(e)} \cup
                         IF saving.to = e THEN {saving.indexed} ELSE {}
    BY <1>18 DEF Write, TypeOK
  <2>2. pc' \notin {"truncate", "write"}
    BY <1>18 DEF Write, GoIdle, TypeOK
  <2> QED BY <1>18, <2>1, <2>2 DEF Write
<1>19. CASE Crash
  BY <1>19 DEF Crash, GoIdle
<1>20. CASE UNCHANGED vars
  BY <1>20 DEF vars
<1> QED
  BY <1>1, <1>2, <1>3, <1>4, <1>5, <1>6, <1>7, <1>8, <1>9, <1>10, <1>11,
     <1>12, <1>13, <1>14, <1>15, <1>16, <1>17, <1>18, <1>19, <1>20
  DEF Next, Parse, Relate, SaveEntry

(* Stamps, and the times of distilled files, are numbers.                  *)
LEMMA StampNumbers ==
  ASSUME TypeOK
  PROVE  /\ \A e \in 0..N : \A t \in Stamps(e) : t \in Nat
         /\ \A r \in Sub : r \in 0..N /\ distilled[r] \in Nat
<1>1. ASSUME NEW e \in 0..N, NEW t \in Stamps(e) PROVE t \in Nat
  BY CompositeAssumption DEF Stamps, Indexed, TypeOK, Time
<1>2. ASSUME NEW r \in Sub PROVE r \in 0..N /\ distilled[r] \in Nat
  <2>1. distilled[r] \in Time
    BY DEF TypeOK
  <2> QED BY <2>1, CompositeAssumption DEF Time, Sub
<1> QED BY <1>1, <1>2

(* Nothing is indexed, and what is yet to be related stays so, until       *)
(* something is related.                                                   *)
LEMMA NothingKept ==
  ASSUME TypeOK, [Next]_vars, pc = "triples" => pc' # "truncate"
  PROVE  /\ NothingIndexed => NothingIndexed'
         /\ \A r \in Sub : Undone(r) /\ distilled'[r] = distilled[r]
                            => Undone(r)'
<1>1. ~ RelateTriples
  BY DEF RelateTriples, Goto
<1>2. ASSUME NothingIndexed PROVE NothingIndexed'
  <2> SUFFICES ASSUME NEW e \in 0..N, NEW t \in Stamps(e)' PROVE t = 0
    BY DEF NothingIndexed
  <2> QED BY <1>1, <1>2, StampsStep DEF NothingIndexed
<1>3. ASSUME NEW r \in Sub, Undone(r), distilled'[r] = distilled[r]
      PROVE  Undone(r)'
  <2> SUFFICES ASSUME distilled[r] # 0, NEW t \in Stamps(r)'
               PROVE  t < distilled[r]
    BY <1>3 DEF Undone
  <2>1. t = 0 \/ t \in Stamps(r)
    BY <1>1, StampsStep, StampNumbers
  <2> QED BY <1>3, <2>1, StampNumbers DEF Undone
<1> QED BY <1>2, <1>3

(* Removing the document removes what was known of it.                     *)
LEMMA NothingAfterRemove == TypeOK /\ Remove => NothingIndexed'
  BY DEF Remove, process, NothingIndexed, Stamps, Indexed, Absent

(* Times of relating are not in the future. *)
LEMMA StampsKeptStep ==
  ASSUME TypeOK, CurrentIsSub, TimesKept, StampsKept, [Next]_vars
  PROVE  StampsKept'
<1>0. \A e \in 0..N : \A t \in Stamps(e)' : t <= clock'
  <2> SUFFICES ASSUME NEW e \in 0..N, NEW t \in Stamps(e)' PROVE t <= clock'
    OBVIOUS
  <2>1. clock' = clock \/ clock' = clock + 1
    BY DEF Next, Parse, Relate, SaveEntry, Download, StartParse, Remove,
           NotPreferred, SubSkips, SubFails, SubParses, SubDistils,
           SubFailsLate, NoneLeft, CopyParsed, Unlink, Symlink, StartRelate,
           RelateTriples, LoadEntry, Truncate, Write, Crash, Tick, vars
  <2>2. clock \in Nat
    BY CompositeAssumption DEF TypeOK, Time
  <2> QED BY <2>1, <2>2, StampsStep, StampNumbers DEF StampsKept
<1>a. \A r \in Sub : \A t \in Stamps(r) : t \in Nat /\ t <= clock
  BY StampNumbers DEF StampsKept
<1>b. pc \in {"try", "distil"} =>
        \A r \in Sub : \A t \in Stamps(r)' : t = 0 \/ t \in Stamps(r)
  BY StampsStep, StampNumbers DEF RelateTriples
<1>c. ASSUME SubParses
      PROVE  /\ parsed'[cur] = clock + 1 /\ parsed'[cur] # 0
             /\ \A r \in Sub : /\ distilled'[r] <= parsed'[r]
                               /\ r = cur => \A t \in Stamps(r)' : t < parsed'[r]
  <2>1. clock \in Nat /\ parsed'[cur] = clock + 1 /\ pc = "try"
    BY <1>c, CompositeAssumption DEF SubParses, SubStarts, TypeOK, Time, Tick
  <2>2. ASSUME NEW r \in Sub PROVE distilled'[r] <= parsed'[r]
    <3>1. distilled'[r] = distilled[r]
      BY <1>c DEF SubParses, SubStarts
    <3>2. r # cur => parsed'[r] = parsed[r]
      BY <1>c DEF SubParses, SubStarts, TypeOK
    <3>3. distilled[r] <= parsed[r] /\ parsed[r] <= clock
      BY DEF StampsKept, TimesKept
    <3>4. distilled[r] \in Nat /\ parsed[r] \in Nat
      BY Numbers, StampNumbers
    <3> QED BY <2>1, <3>1, <3>2, <3>3, <3>4
  <2>3. ASSUME NEW r \in Sub, r = cur, NEW t \in Stamps(r)'
        PROVE  t < parsed'[r]
    <3>1. t = 0 \/ (t \in Nat /\ t <= clock)
      BY <1>a, <1>b, <2>1
    <3> QED BY <2>1, <2>3, <3>1
  <2> QED BY <2>1, <2>2, <2>3
<1> USE Numbers, StampNumbers, <1>0, <1>a, <1>b
    DEF TypeOK, CurrentIsSub, TimesKept, StampsKept, Copying, sources,
        process, history, Goto, Tick
<1>1. CASE \E r \in Sub : Download(r)
  BY <1>1 DEF Download
<1>2. CASE \E force \in ForceOption : StartParse(force)
  BY <1>2 DEF StartParse
<1>3. CASE Remove
  BY <1>3 DEF Remove
<1>4. CASE NotPreferred
  BY <1>4 DEF NotPreferred
<1>5. CASE SubSkips
  BY <1>5 DEF SubSkips, SubNeeded
<1>6. CASE SubFails
  BY <1>6 DEF SubFails, SubStarts, SubSaves
<1>7. CASE SubParses
  BY <1>7, <1>c DEF SubParses, SubStarts
<1>8. CASE SubDistils
  BY <1>8 DEF SubDistils, SubSaves
<1>9. CASE SubFailsLate
  BY <1>9 DEF SubFailsLate, SubSaves
<1>10. CASE NoneLeft
  BY <1>10 DEF NoneLeft
<1>11. CASE CopyParsed
  BY <1>11 DEF CopyParsed
<1>12. CASE Unlink
  BY <1>12 DEF Unlink
<1>13. CASE Symlink
  BY <1>13 DEF Symlink, NextFile
<1>14. CASE StartRelate
  BY <1>14 DEF StartRelate
<1>15. CASE RelateTriples
  BY <1>15 DEF RelateTriples
<1>16. CASE LoadEntry
  BY <1>16 DEF LoadEntry
<1>17. CASE Truncate
  BY <1>17 DEF Truncate
<1>18. CASE Write
  BY <1>18 DEF Write, GoIdle, Unsaved
<1>19. CASE Crash
  BY <1>19 DEF Crash, GoIdle, Unsaved
<1>20. CASE UNCHANGED vars
  <2>1. pc = "distil" => \A r \in Sub : r = cur =>
                            \A t \in Stamps(r)' : t < parsed[r]
    <3> SUFFICES ASSUME pc = "distil", NEW r \in Sub, r = cur,
                        NEW t \in Stamps(r)'
                 PROVE  t < parsed[r]
      OBVIOUS
    <3>1. parsed[r] # 0 /\ parsed[r] \in Nat
      OBVIOUS
    <3> QED BY <3>1
  <2> QED BY <1>20, <2>1 DEF vars
<1> QED
  BY <1>1, <1>2, <1>3, <1>4, <1>5, <1>6, <1>7, <1>8, <1>9, <1>10, <1>11,
     <1>12, <1>13, <1>14, <1>15, <1>16, <1>17, <1>18, <1>19, <1>20
  DEF Next, Parse, Relate, SaveEntry

(* Where there is no text, nothing is indexed. *)
LEMMA UnparsedStep ==
  ASSUME TypeOK, CurrentIsSub, LinkedSoFar, LinksAgree, StampsKept, Unparsed,
         [Next]_vars
  PROVE  Unparsed'
<1>n. (pc = "triples" => pc' # "truncate") =>
        (NothingIndexed => NothingIndexed')
  BY NothingKept
<1>m. \A r \in Sub : distilled[r] # 0 => parsed[r] # 0
  BY StampNumbers, Numbers DEF StampsKept
<1>t. ~ torn /\ (pc = "triples" \/ (pc = "idle" /\ DistilledTime # 0)) =>
        ParsedTime # 0
  <2> SUFFICES ASSUME ~ torn, DistilledTime # 0, pc \in {"idle", "triples"}
               PROVE  ParsedTime # 0
    BY DEF Unparsed
  <2>1. link["distilled"] \in Sub /\ link["parsed"] = link["distilled"]
    BY CompositeAssumption
       DEF TypeOK, Linked, LinksAgree, DistilledTime, Through, Sub
  <2>2. distilled[link["distilled"]] # 0 /\ link["distilled"] # 0
    BY DEF DistilledTime, Through
  <2> QED BY <1>m, <2>1, <2>2 DEF ParsedTime, Through
<1> USE <1>n, <1>m
    DEF TypeOK, CurrentIsSub, LinkedSoFar, LinksAgree, StampsKept, Copying,
        Unparsed, ParsedTime, DistilledTime, Through, Linked, sources,
        process, history, Goto, Tick
<1>1. CASE \E r \in Sub : Download(r)
  BY <1>1 DEF Download
<1>2. CASE \E force \in ForceOption : StartParse(force)
  BY <1>2 DEF StartParse
<1>3. CASE Remove
  BY <1>3, NothingAfterRemove DEF Remove
<1>4. CASE NotPreferred
  BY <1>4 DEF NotPreferred
<1>5. CASE SubSkips
  BY <1>5 DEF SubSkips
<1>6. CASE SubFails
  BY <1>6 DEF SubFails, SubStarts, SubSaves
<1>7. CASE SubParses
  <2>1. clock' # 0 /\ cur \in Sub
    BY <1>7, CompositeAssumption DEF SubParses, SubStarts, Time
  <2>2. ParsedTime' = 0 => ParsedTime = 0
    BY <1>7, <2>1 DEF SubParses, SubStarts
  <2> QED BY <1>7, <2>2 DEF SubParses, SubStarts
<1>8. CASE SubDistils
  BY <1>8 DEF SubDistils, SubSaves
<1>9. CASE SubFailsLate
  BY <1>9 DEF SubFailsLate, SubSaves
<1>10. CASE NoneLeft
  BY <1>10 DEF NoneLeft
<1>11. CASE CopyParsed
  BY <1>11 DEF CopyParsed
<1>12. CASE Unlink
  BY <1>12 DEF Unlink
<1>13. CASE Symlink
  BY <1>13 DEF Symlink, NextFile
<1>14. CASE StartRelate
  BY <1>14, <1>t DEF StartRelate, RelateNeeded
<1>15. CASE RelateTriples
  BY <1>15, <1>t DEF RelateTriples
<1>16. CASE LoadEntry
  BY <1>16 DEF LoadEntry
<1>17. CASE Truncate
  BY <1>17 DEF Truncate
<1>18. CASE Write
  BY <1>18 DEF Write, GoIdle, Unsaved
<1>19. CASE Crash
  BY <1>19, <1>t DEF Crash, GoIdle, Unsaved, Unlinked
<1>20. CASE UNCHANGED vars
  BY <1>20 DEF vars
<1> QED
  BY <1>1, <1>2, <1>3, <1>4, <1>5, <1>6, <1>7, <1>8, <1>9, <1>10, <1>11,
     <1>12, <1>13, <1>14, <1>15, <1>16, <1>17, <1>18, <1>19, <1>20
  DEF Next, Parse, Relate, SaveEntry

(* Who is asked later needs to be parsed. *)
LEMMA OutdatedStep ==
  ASSUME TypeOK, CurrentIsSub, Unparsed, Outdated, [Next]_vars
  PROVE  Outdated'
<1>n. (pc = "triples" => pc' # "truncate") =>
        (NothingIndexed => NothingIndexed')
  BY NothingKept
<1> USE <1>n, Numbers
    DEF TypeOK, CurrentIsSub, Unparsed, Outdated, SubNeeded, UpToDate,
        sources, process, history, Goto, Tick
<1>1. CASE \E r \in Sub : Download(r)
  BY <1>1 DEF Download
<1>2. CASE \E force \in ForceOption : StartParse(force)
  BY <1>2 DEF StartParse
<1>3. CASE Remove
  BY <1>3 DEF Remove
<1>4. CASE NotPreferred
  BY <1>4 DEF NotPreferred
<1>5. CASE SubSkips
  BY <1>5 DEF SubSkips
<1>6. CASE SubFails
  BY <1>6 DEF SubFails, SubStarts, SubSaves
<1>7. CASE SubParses
  BY <1>7 DEF SubParses, SubStarts
<1>8. CASE SubDistils
  BY <1>8 DEF SubDistils, SubSaves
<1>9. CASE SubFailsLate
  BY <1>9 DEF SubFailsLate, SubSaves
<1>10. CASE NoneLeft
  BY <1>10 DEF NoneLeft
<1>11. CASE CopyParsed
  BY <1>11 DEF CopyParsed
<1>12. CASE Unlink
  BY <1>12 DEF Unlink
<1>13. CASE Symlink
  BY <1>13 DEF Symlink, NextFile
<1>14. CASE StartRelate
  BY <1>14 DEF StartRelate
<1>15. CASE RelateTriples
  BY <1>15 DEF RelateTriples
<1>16. CASE LoadEntry
  BY <1>16 DEF LoadEntry
<1>17. CASE Truncate
  BY <1>17 DEF Truncate
<1>18. CASE Write
  BY <1>18 DEF Write, GoIdle, Unsaved
<1>19. CASE Crash
  BY <1>19 DEF Crash, GoIdle, Unsaved
<1>20. CASE UNCHANGED vars
  BY <1>20 DEF vars
<1> QED
  BY <1>1, <1>2, <1>3, <1>4, <1>5, <1>6, <1>7, <1>8, <1>9, <1>10, <1>11,
     <1>12, <1>13, <1>14, <1>15, <1>16, <1>17, <1>18, <1>19, <1>20
  DEF Next, Parse, Relate, SaveEntry

(* What is parsed anew is yet to be related. *)
LEMMA DistilUndone ==
  ASSUME TypeOK, StampsKept, [Next]_vars, SubDistils
  PROVE  \A r \in Sub : r = cur => Undone(r)'
<1> SUFFICES ASSUME NEW r \in Sub, r = cur, NEW t \in Stamps(r)'
             PROVE  t < distilled'[r]
  BY DEF Undone
<1>1. distilled'[r] = parsed[r] /\ pc = "distil"
  BY DEF SubDistils, TypeOK
<1>2. t = 0 \/ t \in Stamps(r)
  BY <1>1, StampsStep, StampNumbers DEF RelateTriples
<1>3. parsed[r] \in Nat /\ parsed[r] # 0
  BY <1>1, Numbers DEF StampsKept
<1>4. t \in Stamps(r) => t < parsed[r]
  BY <1>1 DEF StampsKept
<1> QED BY <1>1, <1>2, <1>3, <1>4

(* Only a subrepository that is yet to be related is linked anew.          *)
LEMMA ReplacedStep ==
  ASSUME TypeOK, CurrentIsSub, StampsKept, Outdated, ReplacedByUndone,
         [Next]_vars
  PROVE  ReplacedByUndone'
<1>n. (pc = "triples" => pc' # "truncate") =>
        \A r \in Sub : Undone(r) /\ distilled'[r] = distilled[r] => Undone(r)'
  BY NothingKept
<1> USE <1>n
    DEF TypeOK, CurrentIsSub, ReplacedByUndone, Copying,
        sources, process, history, Goto, Tick
<1>1. CASE \E r \in Sub : Download(r)
  BY <1>1 DEF Download
<1>2. CASE \E force \in ForceOption : StartParse(force)
  BY <1>2 DEF StartParse
<1>3. CASE Remove
  BY <1>3 DEF Remove
<1>4. CASE NotPreferred
  BY <1>4 DEF NotPreferred
<1>5. CASE SubSkips
  <2>1. ~ torn => NothingIndexed
    BY <1>5, Numbers DEF SubSkips, Outdated
  <2>2. NothingIndexed => \A r \in Sub : Undone(r)
    BY StampNumbers DEF NothingIndexed, Undone
  <2> QED BY <1>5, <2>1, <2>2 DEF SubSkips
<1>6. CASE SubFails
  BY <1>6 DEF SubFails, SubStarts, SubSaves
<1>7. CASE SubParses
  BY <1>7 DEF SubParses, SubStarts
<1>8. CASE SubDistils
  BY <1>8, DistilUndone DEF SubDistils, SubSaves
<1>9. CASE SubFailsLate
  BY <1>9 DEF SubFailsLate, SubSaves
<1>10. CASE NoneLeft
  BY <1>10 DEF NoneLeft
<1>11. CASE CopyParsed
  BY <1>11 DEF CopyParsed
<1>12. CASE Unlink
  BY <1>12 DEF Unlink
<1>13. CASE Symlink
  BY <1>13 DEF Symlink, NextFile
<1>14. CASE StartRelate
  BY <1>14 DEF StartRelate
<1>15. CASE RelateTriples
  BY <1>15 DEF RelateTriples
<1>16. CASE LoadEntry
  BY <1>16 DEF LoadEntry
<1>17. CASE Truncate
  BY <1>17 DEF Truncate
<1>18. CASE Write
  BY <1>18 DEF Write, GoIdle, Unsaved
<1>19. CASE Crash
  BY <1>19 DEF Crash, GoIdle, Unsaved
<1>20. CASE UNCHANGED vars
  BY <1>20 DEF vars
<1> QED
  BY <1>1, <1>2, <1>3, <1>4, <1>5, <1>6, <1>7, <1>8, <1>9, <1>10, <1>11,
     <1>12, <1>13, <1>14, <1>15, <1>16, <1>17, <1>18, <1>19, <1>20
  DEF Next, Parse, Relate, SaveEntry

(* The linked one is related or yet to be. *)
LEMMA RelatedStep ==
  ASSUME TypeOK, CurrentIsSub, LinkedSoFar, LinksAgree, StampsKept,
         ReplacedByUndone, RelatedOrUndone, [Next]_vars
  PROVE  RelatedOrUndone'
<1>n. (pc = "triples" => pc' # "truncate") =>
        \A r \in Sub : Undone(r) /\ distilled'[r] = distilled[r] => Undone(r)'
  BY NothingKept
<1> USE <1>n
    DEF TypeOK, CurrentIsSub, LinkedSoFar, LinksAgree, ReplacedByUndone,
        RelatedOrUndone, Copying, Linked, DistilledTime, Through,
        sources, process, history, Goto, Tick
<1>1. CASE \E r \in Sub : Download(r)
  BY <1>1 DEF Download
<1>2. CASE \E force \in ForceOption : StartParse(force)
  BY <1>2 DEF StartParse
<1>3. CASE Remove
  <2>1. \A r \in Sub : Undone(r)'
    BY <1>3 DEF Remove, Undone
  <2> QED BY <1>3, <2>1 DEF Remove
<1>4. CASE NotPreferred
  BY <1>4 DEF NotPreferred
<1>5. CASE SubSkips
  BY <1>5 DEF SubSkips
<1>6. CASE SubFails
  BY <1>6 DEF SubFails, SubStarts, SubSaves
<1>7. CASE SubParses
  BY <1>7 DEF SubParses, SubStarts
<1>8. CASE SubDistils
  BY <1>8, DistilUndone DEF SubDistils, SubSaves
<1>9. CASE SubFailsLate
  BY <1>9 DEF SubFailsLate, SubSaves
<1>10. CASE NoneLeft
  BY <1>10 DEF NoneLeft
<1>11. CASE CopyParsed
  BY <1>11 DEF CopyParsed
<1>12. CASE Unlink
  BY <1>12 DEF Unlink
<1>13. CASE Symlink
  BY <1>13 DEF Symlink, NextFile
<1>14. CASE StartRelate
  BY <1>14 DEF StartRelate
<1>15. CASE RelateTriples
  <2>1. link["distilled"] \in Sub =>
          DistilledTime = distilled[link["distilled"]]
    BY CompositeAssumption DEF Sub
  <2>2. /\ UNCHANGED <<link, distilled>>
        /\ [sub |-> link["distilled"], time |-> DistilledTime] \in store'
    BY <1>15 DEF RelateTriples
  <2> QED BY <2>1, <2>2
<1>16. CASE LoadEntry
  BY <1>16 DEF LoadEntry
<1>17. CASE Truncate
  BY <1>17 DEF Truncate
<1>18. CASE Write
  BY <1>18 DEF Write, GoIdle, Unsaved
<1>19. CASE Crash
  BY <1>19 DEF Crash, GoIdle, Unsaved, Unlinked
<1>20. CASE UNCHANGED vars
  BY <1>20 DEF vars
<1> QED
  BY <1>1, <1>2, <1>3, <1>4, <1>5, <1>6, <1>7, <1>8, <1>9, <1>10, <1>11,
     <1>12, <1>13, <1>14, <1>15, <1>16, <1>17, <1>18, <1>19, <1>20
  DEF Next, Parse, Relate, SaveEntry

(* When there is nothing to relate, the triples of the metadata that is    *)
(* linked (compositerepository.py:316) have been added, whatever was       *)
(* removed, failed or died in the meantime, unless a parse was cut short.  *)
THEOREM TriplesFollow == Spec => []LinkedTriplesAdded
<1>1. Init => RInv
  BY DEF Init, RInv, StampsKept, Unparsed, Outdated, ReplacedByUndone,
         RelatedOrUndone, Copying, Stamps, Indexed, Absent, NothingIndexed,
         Linked, Undone
<1>2. ASSUME IInv, BInv, RInv, [Next]_vars PROVE RInv'
  BY <1>2, StampsKeptStep, UnparsedStep, OutdatedStep, ReplacedStep,
     RelatedStep DEF IInv, BInv, RInv
<1>3. IInv /\ RInv => LinkedTriplesAdded
  <2> SUFFICES ASSUME IInv, RInv, Idle, ~ torn, DistilledTime # 0,
                      ~ RelateNeeded
               PROVE  [sub |-> link["distilled"], time |-> DistilledTime]
                        \in store
    BY DEF LinkedTriplesAdded
  <2>1. pc = "idle" /\ link["entry"] = link["distilled"]
        /\ link["distilled"] \in Sub
        /\ DistilledTime = distilled[link["distilled"]]
    BY CompositeAssumption
       DEF IInv, TypeOK, Linked, LinksAgree, Idle, DistilledTime, Through, Sub
  <2>2. Indexed(link["distilled"]) \in Stamps(link["distilled"])
    BY DEF Stamps
  <2>3. ~ Undone(link["distilled"])
    BY <2>1, <2>2, StampNumbers DEF RelateNeeded, Undone, IInv
  <2> QED BY <2>1, <2>3 DEF RInv, RelatedOrUndone
<1> QED BY <1>1, <1>2, <1>3, BInvariant, Invariant, PTL DEF Spec
=============================================================================
