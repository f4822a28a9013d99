----------------------------- MODULE SerialRun ------------------------------
(***************************************************************************)
(* A command run with --processes=1 (manager.py, _run_class): the jobs are *)
(* run one by one in the control process, by _run_class_with_basefile.     *)
(* All the calls share one kwargs dict, in which the version of the job is *)
(* passed to the command.                                                  *)
(***************************************************************************)
EXTENDS Naturals, Sequences, Functions

CONSTANTS
  Jobs,        \* the iterable: a sequence of [basefile, version]
  NoVersion    \* None: the current version

Pairs == Range(Jobs)

ASSUME JobsAssumption == Jobs \in Seq(Pairs) /\ IsInjective(Jobs)
ASSUME PairsAssumption ==
  \A j \in Pairs : j = [basefile |-> j.basefile, version |-> j.version]

VARIABLES
  next,        \* the place in the iterable of the job to run next
  kwVersion,   \* kwargs.get('version')
  res,         \* the results: [job, value]
  ran,         \* history: the (basefile, version) pairs really run
  outcome      \* of the command: "running", "returned", "raised"

vars == <<next, kwVersion, res, ran, outcome>>

Init ==
  /\ next = 1
  /\ kwVersion = NoVersion
  /\ res = <<>>
  /\ ran = {}
  /\ outcome = "running"

(* if version: kwargs['version'] = version *)
Passed(j) == IF j.version # NoVersion THEN j.version ELSE kwVersion

(* The (basefile, version) pair the command is called with. *)
Calls(j) == [basefile |-> j.basefile, version |-> Passed(j)]

(* Mutant: off by one. *)
AtLastJob == next >= Len(Jobs)

Exhausted == next > Len(Jobs)

More == outcome = "running" /\ ~Exhausted

(* The command is run, and its result kept.  "ok": it returned; "removed": *)
(* DocumentRemovedError, recorded as None after writing the dummyfile or   *)
(* as an exception triple; "parseerror": lxml's ParseError as a triple.    *)
(* None of these paths takes the version out of kwargs.                    *)
RunJob(value) ==
  LET j == Jobs[next] IN
  /\ More
  /\ value \in {"ok", "removed", "parseerror"}
  /\ ran' = ran \cup {Calls(j)}
  /\ kwVersion' = Passed(j)
  /\ res' = Append(res, [job |-> next, value |-> value])
  /\ next' = next + 1
  /\ UNCHANGED outcome

(* Mutant: the version stays in kwargs after a failure. *)
FailJobKeeping ==
  LET j == Jobs[next] IN
  /\ More
  /\ ran' = ran \cup {Calls(j)}
  /\ kwVersion' = Passed(j)
  /\ res' = Append(res, [job |-> next, value |-> "failed"])
  /\ next' = next + 1
  /\ UNCHANGED outcome

(* Any other Exception: if version: del kwargs['version']. *)
FailJob ==
  LET j == Jobs[next] IN
  /\ More
  /\ ran' = ran \cup {Calls(j)}
  /\ kwVersion' = IF j.version # NoVersion THEN NoVersion ELSE kwVersion
  /\ res' = Append(res, [job |-> next, value |-> "failed"])
  /\ next' = next + 1
  /\ UNCHANGED outcome

(* KeyboardInterrupt, which is not wrapped here, or bdb.BdbQuit. *)
Interrupt ==
  /\ More
  /\ outcome' = "raised"
  /\ UNCHANGED <<next, kwVersion, res, ran>>

(* The iterable is exhausted: cls.teardown, return res. *)
Return ==
  /\ outcome = "running"
  /\ Exhausted
  /\ outcome' = "returned"
  /\ UNCHANGED <<next, kwVersion, res, ran>>

Next ==
  \/ \E value \in {"ok", "removed", "parseerror"} : RunJob(value)
  \/ FailJob \/ Interrupt \/ Return

Spec == Init /\ [][Next]_vars

-----------------------------------------------------------------------------
(* The types of the variables. *)
TypeOK ==
  /\ next \in 1..(Len(Jobs) + 1)
  /\ kwVersion \in {j.version : j \in Pairs} \cup {NoVersion}
  /\ res \in Seq([job : DOMAIN Jobs,
                  value : {"ok", "removed", "parseerror", "failed"}])
  /\ ran \subseteq [basefile : {j.basefile : j \in Pairs},
                    version : {j.version : j \in Pairs} \cup {NoVersion}]
  /\ outcome \in {"running", "returned", "raised"}

(* A pair is run as something else only if it names no version and a call  *)
(* for an archived version before it did not fail: what a failed call puts *)
(* into kwargs reaches no later call, whatever was left there before it.   *)
OnlyUnfailedVersionsLeak ==
  \A k \in 1..(next - 1) : Jobs[k] \notin ran =>
    /\ Jobs[k].version = NoVersion
    /\ \E i \in 1..(k - 1) :
         Jobs[i].version # NoVersion /\ res[i].value # "failed"

(* "create an iterable that yields (basefile, version) pairs": every pair  *)
(* of the iterable that has been gone through has been run as it stands.   *)
EachPairRun == \A k \in 1..(next - 1) : Jobs[k] \in ran

(* The serial loop does what a command run promises: it returns only when  *)
(* it has made a call for every place of the iterable, in whichever ways   *)
(* earlier calls failed.                                                   *)
Abstract == INSTANCE CommandRun WITH Job <- DOMAIN Jobs,
                                     pending <- {k \in DOMAIN Jobs : k >= next}
ImplementsCommandRun == Abstract!Spec
=============================================================================
