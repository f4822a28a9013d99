------------------------------ MODULE Harvest -------------------------------
(***************************************************************************)
(* The daily harvest of the Swedish code of statutes (sources/legal/se/    *)
(* sfs.py): a run looks at one statute number after the other, downloads   *)
(* the base act that the number makes or amends, and stops when the        *)
(* numbers end.  How far it got, and the numbers whose amendment the       *)
(* service has not consolidated yet, are kept in the configuration for     *)
(* the next run.  Each document is fetched with util.robust_fetch.         *)
(*                                                                         *)
(* A number is a pair of a year and an ordinal.  A text is told apart by   *)
(* the last number that is worked into it, NoText where there is none.     *)
(* An act that changes a base act is found by a search that matches the    *)
(* beginning of the number (the comment of sfs.py:350-353).                *)
(***************************************************************************)
EXTENDS Integers, Sequences, FiniteSets

CONSTANTS
  Acts,         \* the numbers that may be published
  BasesOf,      \* the base acts of each number; of a base act, itself
  Attempts,     \* robust_fetch's attempts (5 in the code)
  LastYear,     \* bound: the years that begin
  MaxRevisit    \* bound: no run starts with a longer list to revisit

ASSUME HarvestAssumption ==
  /\ IsFiniteSet(Acts) /\ Acts \subseteq Nat \X (Nat \ {0})
  /\ BasesOf \in [Acts -> (SUBSET Acts) \ {{}}]
  /\ \A n \in Acts : \A b \in BasesOf[n] : BasesOf[b] = {b}
  /\ \A n \in Acts : n = <<1, 1>> => BasesOf[n] = {n}
  /\ Attempts \in Nat \ {0}
  /\ LastYear \in Nat /\ MaxRevisit \in Nat

Base == UNION {BasesOf[n] : n \in Acts}
Number == Nat \X (Nat \ {0})
NoText == <<-1, 0>>
Unset == <<-1, 1>>      \* next_sfsnr is not in the configuration
Origin == <<0, 1>>      \* "1600:1"

(* Where the run is: none, waiting for the first and for the second search *)
(* of a number, in robust_fetch, after the whole listing was downloaded,   *)
(* before the first and before the second write of the configuration.      *)
Place == {"idle", "look", "change", "fetch", "listed", "save", "saved"}

VARIABLES
  today,       \* the year
  published,   \* numbers that the service can find
  text,        \* the service's text of each base act
  have,        \* the downloaded text of each base act
  config,      \* next_sfsnr and revisit in the configuration file
  place,
  todo,        \* numbers left of the list to revisit
  want,        \* the number the main loop has come to
  last,        \* last_sfsnr
  revisit,     \* the list being made
  peek,
  base,        \* base_sfsnr, which is downloaded
  part,        \* document, metadata or register page being fetched: 1..3
  new,         \* created or updated, in download_single
  attempts, response, exception,   \* of robust_fetch
  before,      \* history: what was published when the run under way began
  owed,        \* history: numbers last found not consolidated, since the
               \* last full download and the last run that passed their year by
  torn,        \* history: a run died between its two writes
  misled       \* history: numbers that a search answered wrongly for

service == <<today, published, text>>
fetch == <<base, part, new, attempts, response, exception>>
run == <<todo, want, last, revisit, peek>>
harvestVars ==
  <<service, have, config, place, run, fetch, before, owed, torn, misled>>

-----------------------------------------------------------------------------
(* util.numcmp: years first, then ordinals. *)
Less(m, n) == m[1] < n[1] \/ (m[1] = n[1] /\ m[2] < n[2])

Succ(n) == <<n[1], n[2] + 1>>

Elements(s) == {s[i] : i \in 1..Len(s)}

Wanted == IF todo = <<>> THEN want ELSE Head(todo)

TheBase(n) == CHOOSE b \in BasesOf[n] : TRUE

(* A single base act is made or amended by the number, which is there.     *)
There(n) == n \in published /\ Cardinality(BasesOf[n]) = 1

(* The ordinal k begins with the digits of n, in the same year.  Ordinals  *)
(* have four digits at most.                                               *)
StartsWith(k, n) ==
  k[1] = n[1] /\ \E p \in {1, 10, 100, 1000} : k[2] \div p = n[2]

(* The base acts changed by an act whose number starts with this one.      *)
Hits(n) == UNION {BasesOf[m] : m \in {k \in published \ Base :
                                       StartsWith(k, n)}}

(* What the search for changes makes of it: several hits are taken for     *)
(* none.                                                                   *)
Changes(n) == IF Cardinality(Hits(n)) = 1 THEN Hits(n) ELSE {}

(* What it should say: the base act that this number changes, if it is one.*)
Changed(n) == IF n \notin Base /\ There(n) THEN BasesOf[n] ELSE {}

(* _find_uppdaterad_tom is before the number that was wanted: the text is  *)
(* not updated.  That of the number's own base act never is.  That the act *)
(* was revoked excuses nothing: _find_upphavts_genom always returns None.  *)
InteUppdaterad(n, texts) == base # n /\ Less(texts[base], n)

TextOf(b, texts) == IF b \in Base THEN texts[b] ELSE NoText

(* The greatest number worked into any downloaded text. *)
LastDownloaded ==
  LET known == {have[b] : b \in {c \in Base : have[c] # NoText}} \cup {Origin}
  IN  CHOOSE n \in known : \A m \in known : ~Less(n, m)

StartFetch == /\ part' = 1 /\ attempts' = Attempts
              /\ response' = "none" /\ exception' = FALSE

NoFetch == StartFetch /\ new' = FALSE /\ base' = Origin

(* The run is over or dies, and its local variables with it. *)
Over == /\ place' = "idle"
        /\ todo' = <<>> /\ want' = Origin /\ last' = Origin
        /\ revisit' = <<>> /\ peek' = FALSE /\ before' = {}
        /\ NoFetch

(* The exception leaves download_new: nothing of the run is saved. *)
Abort == Over /\ UNCHANGED <<service, have, config, owed, torn, misled>>

HarvestInit ==
  /\ today = 1
  /\ published = {n \in Acts : n = <<1, 1>>}
  /\ text = [b \in Base |-> IF b \in published THEN b ELSE NoText]
  /\ have = [b \in Base |-> NoText]
  /\ config = [next |-> Unset, revisit |-> <<>>]
  /\ place = "idle"
  /\ todo = <<>> /\ want = Origin /\ last = Origin
  /\ revisit = <<>> /\ peek = FALSE
  /\ base = Origin /\ part = 1 /\ new = FALSE /\ attempts = Attempts
  /\ response = "none" /\ exception = FALSE
  /\ before = {} /\ owed = {} /\ torn = FALSE /\ misled = {}

-----------------------------------------------------------------------------
(* The service, which takes its time to work amendments into the texts. *)

Publish(n) ==
  /\ n \in Acts \ published /\ n[1] <= today
  /\ BasesOf[n] \subseteq published \cup {n}
  /\ published' = published \cup {n}
  /\ text' = [b \in Base |-> IF b = n THEN n ELSE text[b]]
  /\ UNCHANGED <<today, have, config, place, run, fetch, before, owed, torn,
                 misled>>

Consolidate(b, n) ==
  /\ n \in published /\ b \in BasesOf[n] /\ Less(text[b], n)
  /\ text' = [text EXCEPT ![b] = n]
  /\ UNCHANGED <<today, published, have, config, place, run, fetch, before,
                 owed, torn, misled>>

NewYear ==
  /\ today < LastYear
  /\ today' = today + 1
  /\ UNCHANGED <<published, text, have, config, place, run, fetch, before,
                 owed, torn, misled>>

-----------------------------------------------------------------------------
(* A full download, of which any documents may fail, forgets the numbers   *)
(* to revisit and takes the last number from the documents.                *)

DownloadAll(ok) ==
  /\ place = "idle"
  /\ have' = [b \in Base |-> IF b \in ok THEN text[b] ELSE have[b]]
  /\ place' = "listed"
  /\ UNCHANGED <<service, config, run, fetch, before, owed, torn, misled>>

_set_last_sfsnr ==
  /\ place = "listed"
  /\ last' = LastDownloaded
  /\ config' = [config EXCEPT !.next = LastDownloaded]
  /\ owed' = {}
  /\ place' = "saved"
  /\ UNCHANGED <<service, have, todo, want, revisit, peek, fetch, before, torn,
                 misled>>

-----------------------------------------------------------------------------
(* download_new: the numbers to revisit first, then those that follow the  *)
(* last one.                                                               *)

download_new ==
  /\ place = "idle" /\ config.next # Unset
  /\ Len(config.revisit) <= MaxRevisit
  /\ todo' = config.revisit
  /\ want' = config.next /\ last' = config.next
  /\ revisit' = <<>> /\ peek' = FALSE
  /\ before' = published
  /\ place' = "look"
  /\ UNCHANGED <<service, have, config, fetch, owed, torn, misled>>

(* download_single(b) begins. *)
DownloadSingle(b) ==
  /\ place' = "fetch" /\ base' = b
  /\ StartFetch
  /\ new' = (TextOf(b, have) = NoText)
  /\ UNCHANGED <<service, have, config, run, before, owed, torn>>

(* The first search of _check_for_sfs is answered.  A page that does not   *)
(* count its hits is taken for the act's own, that of an HTTP error too.   *)
BaseActFound ==
  place = "look" /\ DownloadSingle(Wanted) /\ UNCHANGED misled

NoBaseAct ==
  /\ place = "look" /\ Wanted \notin Base \cap published
  /\ place' = "change"
  /\ UNCHANGED <<service, have, config, run, fetch, before, owed, torn, misled>>

(* So is the second, by what it makes of its hits, or by an HTTP error,    *)
(* whose page has none.                                                    *)
Answer(found) ==
  /\ place = "change" /\ found \in {Changes(Wanted), {}}
  /\ misled' = IF found = Changed(Wanted) THEN misled
                                         ELSE misled \cup {Wanted}

ChangeActFound == \E b \in Base : Answer({b}) /\ DownloadSingle(b)

(* Mutant: the number is increased here and again at the end of the loop. *)
PeekForwardTwice ==
  /\ ~peek
  /\ peek' = TRUE /\ want' = Succ(Succ(want))
  /\ place' = "look" /\ UNCHANGED owed

(* Mutant: the year is begun again although it is this one. *)
ThisYearAgain ==
  /\ peek /\ today >= want[1]
  /\ peek' = FALSE /\ want' = <<today, 1>>
  /\ place' = "look" /\ UNCHANGED owed

(* Numbers of the years between, which are never looked at unless they are *)
(* on the list.                                                            *)
PassedBy ==
  {n \in Acts \ Elements(revisit) : want[1] < n[1] /\ n[1] < today}

(* One missing number is passed over in a run, and one more at the change  *)
(* of the year; at the next the run is done.                               *)
PeekForward ==
  /\ ~peek
  /\ peek' = TRUE /\ want' = Succ(want)
  /\ place' = "look" /\ UNCHANGED owed

ThisYear ==
  /\ peek /\ today > want[1]
  /\ peek' = FALSE /\ want' = <<today, 1>>
  /\ owed' = owed \ PassedBy
  /\ place' = "look"

Done ==
  /\ peek /\ ~(today > want[1])
  /\ place' = "save"
  /\ UNCHANGED <<peek, want, owed>>

InteExisterande ==
  /\ Answer({}) /\ todo = <<>>
  /\ PeekForward \/ ThisYear \/ Done
  /\ UNCHANGED <<service, have, config, todo, last, revisit, fetch, before,
                 torn>>

(* For a number that is looked at again nothing catches it, and the run is *)
(* over.                                                                   *)
RevisitedIsMissing ==
  /\ Answer({}) /\ todo # <<>>
  /\ Over
  /\ UNCHANGED <<service, have, config, owed, torn>>

-----------------------------------------------------------------------------
(* robust_fetch: a lost connection or an error status is tried again, as   *)
(* long as there are attempts.                                             *)

Pending == place = "fetch" /\ attempts > 0 /\ response \in {"none", "error"}

ConnectionLost ==
  /\ Pending
  /\ exception' = TRUE /\ attempts' = attempts - 1
  /\ UNCHANGED <<service, have, config, place, run, base, part, new, response,
                 before, owed, torn, misled>>

Responds(status) ==
  /\ Pending
  /\ response' = status /\ attempts' = attempts - 1
  /\ UNCHANGED <<service, have, config, place, run, base, part, new, exception,
                 before, owed, torn, misled>>

(* All attempts failed, the last one however. *)
GivesUp == place = "fetch" /\ attempts = 0 /\ response \in {"none", "error"}

LastException == GivesUp /\ exception

HTTPError == \/ GivesUp /\ ~exception
             \/ place = "fetch" /\ response = "404"

-----------------------------------------------------------------------------
(* Mutant: a number that is revisited in vain is dropped. *)
ExaminedOnce(texts) ==
  LET n == Wanted
      late == InteUppdaterad(n, texts)
  IN  /\ revisit' = IF late /\ todo = <<>> THEN Append(revisit, n) ELSE revisit
      /\ owed' = IF late THEN owed \cup ({n} \cap published) ELSE owed \ {n}
      /\ last' = IF todo = <<>> /\ ~late THEN n ELSE last
      /\ want' = IF todo = <<>> THEN Succ(want) ELSE want
      /\ todo' = IF todo = <<>> THEN todo ELSE Tail(todo)
      /\ place' = "look"
      /\ NoFetch
      /\ UNCHANGED peek

(* download_base_sfs after the number's base act was downloaded: with it   *)
(* in these texts the number is done with, or comes on the list to revisit.*)
Examined(texts) ==
  LET n == Wanted
  IN  /\ IF InteUppdaterad(n, texts)
         THEN /\ revisit' = Append(revisit, n)
              /\ owed' = owed \cup ({n} \cap published)
              /\ UNCHANGED last
         ELSE /\ owed' = owed \ {n}
              /\ last' = IF todo = <<>> THEN n ELSE last
              /\ UNCHANGED revisit
      /\ IF todo = <<>>
         THEN want' = Succ(want) /\ UNCHANGED todo
         ELSE todo' = Tail(todo) /\ UNCHANGED want
      /\ place' = "look"
      /\ NoFetch
      /\ UNCHANGED peek

(* There is no act of that number.  The page that says so is removed, and  *)
(* _find_uppdaterad_tom cannot read it: that ends the run.                 *)
NotAnAct == /\ place = "fetch" /\ response = "200"
            /\ part = 1 /\ TextOf(base, text) = NoText
            /\ Abort

(* The page is saved, and with the last page the download is complete. *)
Received ==
  /\ place = "fetch" /\ response = "200" /\ TextOf(base, text) # NoText
  /\ IF part < 3
     THEN LET got == IF part = 1 THEN text[base] ELSE have[base]
          IN  /\ have' = [have EXCEPT ![base] = got]
              /\ new' = (new \/ have[base] # got)
              /\ part' = part + 1
              /\ attempts' = Attempts /\ response' = "none"
              /\ exception' = FALSE
              /\ UNCHANGED <<base, place, run, owed>>
     ELSE Examined(have) /\ UNCHANGED have
  /\ UNCHANGED <<service, config, before, torn, misled>>

(* Mutant: the error is caught in download_new, which goes on with the     *)
(* next number.                                                            *)
FailSingleSkips ==
  IF todo # <<>> THEN Abort
  ELSE /\ want' = Succ(want) /\ place' = "look"
       /\ NoFetch
       /\ UNCHANGED <<service, have, config, todo, last, revisit, peek, before,
                      owed, torn, misled>>

(* download_single swallows an HTTP error, and then sets the time in an    *)
(* entry it has not made if the document is new: that ends the run.        *)
FailSingle == IF new THEN Abort
              ELSE Examined(have) /\ UNCHANGED <<service, have, config, before,
                                                 torn, misled>>

FetchFails == \/ LastException /\ Abort
              \/ HTTPError /\ FailSingle

-----------------------------------------------------------------------------
(* The configuration is written twice, by _set_last_sfsnr and for the list *)
(* to revisit.                                                             *)

SaveLast ==
  /\ place = "save"
  /\ config' = [config EXCEPT !.next = last]
  /\ place' = "saved"
  /\ UNCHANGED <<service, have, run, fetch, before, owed, torn, misled>>

SaveRevisit ==
  /\ place = "saved"
  /\ config' = [config EXCEPT !.revisit = revisit]
  /\ Over
  /\ UNCHANGED <<service, have, owed, torn, misled>>

(* The process is killed, or cannot connect to the search. *)
Dies ==
  /\ place # "idle"
  /\ Over
  /\ torn' = (torn \/ place = "saved")
  /\ UNCHANGED <<service, have, config, owed, misled>>

Search == \/ BaseActFound \/ NoBaseAct
          \/ ChangeActFound \/ InteExisterande \/ RevisitedIsMissing

Process ==
  \/ \E ok \in SUBSET {b \in Base : b \in published} : DownloadAll(ok)
  \/ _set_last_sfsnr \/ download_new
  \/ ConnectionLost
  \/ \E status \in {"200", "404", "error"} : Responds(status)
  \/ NotAnAct \/ Received \/ FetchFails \/ SaveLast \/ SaveRevisit

Service ==
  \/ \E n \in Acts : Publish(n)
  \/ \E n \in Acts : \E b \in BasesOf[n] : Consolidate(b, n)
  \/ NewYear

HarvestNext == Process \/ Search \/ Service \/ Dies

(* A run that has begun goes on: it is one thread, and robust_fetch waits  *)
(* ten seconds at most.  The searches have no time limit, so nothing says  *)
(* that they are answered.                                                 *)
HarvestSpec ==
  /\ HarvestInit /\ [][HarvestNext]_harvestVars
  /\ WF_harvestVars(place # "idle" /\ Process)

-----------------------------------------------------------------------------
HarvestTypeOK ==
  /\ today \in Nat /\ published \subseteq Acts
  /\ text \in [Base -> Acts \cup {NoText}]
  /\ have \in [Base -> Acts \cup {NoText}]
  /\ config \in [next : Number \cup {Unset}, revisit : Seq(Number)]
  /\ place \in Place
  /\ todo \in Seq(Number) /\ revisit \in Seq(Number)
  /\ want \in Number /\ last \in Number
  /\ peek \in BOOLEAN
  /\ base \in Number /\ part \in 1..3 /\ new \in BOOLEAN
  /\ attempts \in 0..Attempts
  /\ response \in {"none", "200", "404", "error"}
  /\ exception \in BOOLEAN
  /\ before \subseteq Acts /\ owed \subseteq Acts
  /\ torn \in BOOLEAN /\ misled \subseteq Number

(* The search was answered wrongly for the number, or for one before it in *)
(* its year.                                                               *)
Misled(n) == \E k \in misled : k[1] = n[1] /\ ~Less(n, k)

(* A number whose amendment was not in the text yet is looked at again     *)
(* until it is: it is on the saved list, or on the one about to be saved,  *)
(* or the next run comes to it anyway (sfs.py:271-291).  Forgotten are     *)
(* only those that a process had when it died between its two writes,      *)
(* those of the years between that runs that died had found, when a run    *)
(* goes on from a year to another one, and, since an error page and        *)
(* several hits look like no act at all, those at or behind a number that  *)
(* the search was wrong about (sfs.py:354-368).                            *)
AmendmentsRemembered ==
  torn \/ \A n \in owed :
            \/ Misled(n)
            \/ ~Less(have[TheBase(n)], n)
            \/ n \in Elements(config.revisit)
            \/ place = "saved" /\ n \in Elements(revisit)
            \/ ~Less(n, config.next)

(* When a run is about to save how far it got, every number of that year   *)
(* that was there when the run began and that it passed is downloaded, or  *)
(* on the list to revisit (sfs.py:265-289), unless the search was wrong    *)
(* about this very number: whatever failed with the others, and with its   *)
(* own download, makes the run miss none.                                  *)
NothingPassedOver ==
  place = "save" =>
    \A n \in before \ misled :
      /\ Cardinality(BasesOf[n]) = 1 /\ n[1] = last[1]
      /\ Less(config.next, n) /\ ~Less(last, n)
      => n \in Elements(revisit) \/ ~Less(have[TheBase(n)], n)

(* A run does not go past two numbers in a row that are not there, unless  *)
(* the search finds one by its first digits only (sfs.py:273-287).  One    *)
(* missing number it does pass, and if that is published later no run      *)
(* comes back to it.                                                       *)
GapsAreWaitedFor ==
  place = "save" =>
    \A n \in {last[1]} \X (1..last[2]) :
      Less(config.next, n) /\ Less(Succ(n), last)
      => There(n) \/ There(Succ(n)) \/ {n, Succ(n)} \cap misled # {}

(* Every run comes to an end, whatever fails and however many numbers are  *)
(* missing (sfs.py:265-287), if no search leaves it waiting for ever       *)
(* (sfs.py:337, 349).                                                      *)
RunEnds ==
  []<>(place # "look") /\ []<>(place # "change")
  => (place # "idle" ~> place = "idle")
=============================================================================
