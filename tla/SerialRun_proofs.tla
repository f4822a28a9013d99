-------------------------- MODULE SerialRun_proofs --------------------------
(* Proofs about the serial loop, for every iterable of jobs. *)
EXTENDS SerialRun, TLAPS

(* A place of the iterable that has a job has a pair. *)
LEMMA JobAt ==
  ASSUME NEW k \in DOMAIN Jobs
  PROVE  /\ k \in 1..Len(Jobs)
         /\ Jobs[k] \in Pairs
  BY JobsAssumption DEF Pairs, Range

(* The number of jobs is a number. *)
LEMMA LenJobs == Len(Jobs) \in Nat /\ DOMAIN Jobs = 1..Len(Jobs)
  BY JobsAssumption

(* A place of the iterable that is still to come is one of its places.     *)
LEMMA NextIsAPlace == TypeOK /\ More => next \in DOMAIN Jobs
  BY LenJobs DEF TypeOK, More, Exhausted

(* The version a job is called with is that of a pair, or none.            *)
LEMMA PassedType ==
  ASSUME TypeOK, NEW k \in DOMAIN Jobs
  PROVE  Passed(Jobs[k]) \in {j.version : j \in Pairs} \cup {NoVersion}
  BY JobAt DEF TypeOK, Passed

-----------------------------------------------------------------------------
(* One call, however it ends: what RunJob and FailJob have in common. *)
CallMade ==
  LET j == Jobs[next] IN
  /\ More
  /\ ran' = ran \cup {Calls(j)}
  /\ kwVersion' \in {Passed(j), NoVersion, kwVersion}
  /\ \E value \in {"ok", "removed", "parseerror", "failed"} :
       res' = Append(res, [job |-> next, value |-> value])
  /\ next' = next + 1
  /\ outcome' = outcome

(* The end of a command, however it ends. *)
Ended ==
  /\ outcome = "running"
  /\ outcome' = "raised" \/ (outcome' = "returned" /\ Exhausted)
  /\ UNCHANGED <<next, kwVersion, res, ran>>

(* Every step makes a call or ends the command. *)
LEMMA StepCases == Next => CallMade \/ Ended
  <1>. SUFFICES ASSUME Next PROVE CallMade \/ Ended
    OBVIOUS
  <1>1. CASE \E value \in {"ok", "removed", "parseerror"} : RunJob(value)
    BY <1>1 DEF RunJob, CallMade
  <1>2. CASE FailJob
    BY <1>2 DEF FailJob, CallMade
  <1>3. CASE Interrupt
    BY <1>3 DEF Interrupt, Ended, More
  <1>4. CASE Return
    BY <1>4 DEF Return, Ended
  <1>. QED  BY <1>1, <1>2, <1>3, <1>4 DEF Next

(* The types are kept by every step of the loop. *)
THEOREM TypeCorrect == Spec => []TypeOK
  <1>1. Init => TypeOK
    BY LenJobs DEF Init, TypeOK
  <1>2. TypeOK /\ [Next]_vars => TypeOK'
    <2>. SUFFICES ASSUME TypeOK, [Next]_vars PROVE TypeOK'
      OBVIOUS
    <2>1. CASE CallMade
      <3>. DEFINE j == Jobs[next]
                  Version == {p.version : p \in Pairs} \cup {NoVersion}
      <3>1. next \in DOMAIN Jobs /\ next \in 1..Len(Jobs)
        BY <2>1, NextIsAPlace, LenJobs DEF CallMade
      <3>2. next' \in 1..(Len(Jobs) + 1)
        BY <2>1, <3>1, LenJobs DEF CallMade
      <3>3. Passed(j) \in Version
        BY <3>1, PassedType
      <3>4. kwVersion' \in Version
        BY <2>1, <3>3 DEF CallMade, TypeOK
      <3>5. Calls(j) \in [basefile : {p.basefile : p \in Pairs},
                          version : Version]
        BY <3>1, <3>3, JobAt DEF Calls
      <3>6. res' \in Seq([job : DOMAIN Jobs,
                          value : {"ok", "removed", "parseerror", "failed"}])
        BY <2>1, <3>1 DEF CallMade, TypeOK
      <3>. QED  BY <2>1, <3>2, <3>4, <3>5, <3>6 DEF CallMade, TypeOK
    <2>2. CASE Ended
      BY <2>2 DEF Ended, TypeOK
    <2>3. CASE UNCHANGED vars
      BY <2>3 DEF vars, TypeOK
    <2>. QED  BY <2>1, <2>2, <2>3, StepCases
  <1>. QED  BY <1>1, <1>2, PTL DEF Spec

-----------------------------------------------------------------------------
(* A call for an archived version, before place k, that did not fail.      *)
Unfailed(k) ==
  \E i \in 1..(k - 1) : Jobs[i].version # NoVersion /\ res[i].value # "failed"

(* There is a result for each place gone past, and what is in kwargs was   *)
(* left by a call that did not fail.                                       *)
LeftByUnfailed ==
  /\ Len(res) = next - 1
  /\ kwVersion # NoVersion => Unfailed(next)
  /\ OnlyUnfailedVersionsLeak

(* A call leaves its version in kwargs only if it does not fail.           *)
LEMMA LeftByUnfailedStep ==
  ASSUME TypeOK, LeftByUnfailed, Next
  PROVE  LeftByUnfailed'
  <1>1. CASE CallMade /\ (FailJob \/ \E value \in {"ok", "removed", "parseerror"} :
                                     RunJob(value))
    <2>. DEFINE j == Jobs[next]
    <2>1. PICK value \in {"ok", "removed", "parseerror", "failed"} :
            /\ res' = Append(res, [job |-> next, value |-> value])
            /\ kwVersion' = IF value = "failed"
                             THEN IF j.version # NoVersion THEN NoVersion
                                                           ELSE kwVersion
                             ELSE Passed(j)
      BY <1>1 DEF FailJob, RunJob
    <2>2. /\ next \in Nat \ {0} /\ next' = next + 1 /\ next \in 1..Len(Jobs)
          /\ ran' = ran \cup {Calls(j)} /\ Len(res) = next - 1
      BY <1>1, LenJobs, NextIsAPlace DEF CallMade, LeftByUnfailed, TypeOK
    <2>3. PICK n \in 1..Len(Jobs) : n = next
      BY <2>2
    <2>4. /\ n \in Nat \ {0} /\ next' = n + 1
          /\ Len(res') = n /\ res'[n].value = value
          /\ \A i \in 1..(n - 1) : res'[i] = res[i]
      BY <2>1, <2>2, <2>3, LenJobs DEF TypeOK
    <2>. HIDE DEF j
    <2>5. \A k \in 1..n : Unfailed(k) => Unfailed(k)'
      BY <2>4 DEF Unfailed
    <2>6. /\ Unfailed(n) => Unfailed(n + 1)'
          /\ j.version # NoVersion /\ value # "failed" => Unfailed(n + 1)'
      BY <2>3, <2>4 DEF Unfailed, j
    <2>7. kwVersion' # NoVersion => Unfailed(n + 1)'
      <3>1. kwVersion # NoVersion => Unfailed(n)
        BY <2>3 DEF LeftByUnfailed
      <3>. QED  BY <2>1, <2>6, <3>1 DEF Passed
    <2>8. ASSUME NEW k \in 1..n, Jobs[k] \notin ran'
          PROVE  Jobs[k].version = NoVersion /\ Unfailed(k)'
      <3>1. CASE k \in 1..(n - 1)
        <4>1. Jobs[k] \notin ran
          BY <2>2, <2>8
        <4>. QED  BY <2>3, <2>5, <3>1, <4>1
                    DEF LeftByUnfailed, OnlyUnfailedVersionsLeak, Unfailed
      <3>2. CASE k = n
        <4>1. Calls(j) # j /\ j \in Pairs
          BY <2>2, <2>3, <2>8, <3>2, JobAt, LenJobs DEF j
        <4>2. Passed(j) # j.version
          BY <4>1, PairsAssumption DEF Calls
        <4>3. j.version = NoVersion /\ kwVersion # NoVersion
          BY <4>2 DEF Passed
        <4>. QED  BY <2>3, <2>5, <3>2, <4>3 DEF LeftByUnfailed, j
      <3>. QED  BY <2>4, <2>8, <3>1, <3>2
    <2>9. OnlyUnfailedVersionsLeak'
      BY <2>4, <2>8 DEF OnlyUnfailedVersionsLeak, Unfailed
    <2>. QED
      BY <2>4, <2>7, <2>9 DEF LeftByUnfailed
  <1>2. CASE Ended
    BY <1>2 DEF Ended, LeftByUnfailed, OnlyUnfailedVersionsLeak, Unfailed
  <1>3. CASE Interrupt \/ Return
    BY <1>2, <1>3 DEF Interrupt, Return, Ended, More
  <1>4. FailJob \/ (\E value \in {"ok", "removed", "parseerror"} : RunJob(value))
          => CallMade
    BY StepCases DEF Next, FailJob, RunJob, More, Exhausted, Ended
  <1>. QED  BY <1>1, <1>3, <1>4 DEF Next

(* A pair that was run as another one names no version, and a call for an  *)
(* archived version before it did not fail (manager.py:1690-1716).         *)
THEOREM LeaksAreOfUnfailed == Spec => []OnlyUnfailedVersionsLeak
  <1>1. Init => LeftByUnfailed
    BY DEF Init, LeftByUnfailed, OnlyUnfailedVersionsLeak
  <1>2. TypeOK /\ LeftByUnfailed /\ [Next]_vars => LeftByUnfailed'
    <2>1. LeftByUnfailed /\ UNCHANGED vars => LeftByUnfailed'
      BY DEF vars, LeftByUnfailed, OnlyUnfailedVersionsLeak, Unfailed
    <2>. QED  BY <2>1, LeftByUnfailedStep
  <1>3. LeftByUnfailed => OnlyUnfailedVersionsLeak
    BY DEF LeftByUnfailed
  <1>. QED  BY <1>1, <1>2, <1>3, TypeCorrect, PTL DEF Spec

-----------------------------------------------------------------------------
(* The serial loop implements "run one command": each call takes one job   *)
(* off those that are pending, and the command returns with none of them.  *)
THEOREM Refinement == Spec => ImplementsCommandRun
  <1>. DEFINE Pending == {k \in DOMAIN Jobs : k >= next}
  <1>1. Init => Abstract!Init
    BY LenJobs DEF Init, Abstract!Init
  <1>2. TypeOK /\ [Next]_vars => [Abstract!Next]_(Abstract!vars)
    <2>. SUFFICES ASSUME TypeOK, [Next]_vars
                  PROVE  Abstract!Next \/ UNCHANGED Abstract!vars
      OBVIOUS
    <2>1. CASE CallMade
      <3>1. next \in DOMAIN Jobs /\ next \in Nat /\ outcome = "running"
        BY <2>1, NextIsAPlace, LenJobs DEF CallMade, More
      <3>2. Pending' = Pending \ {next}
        BY <2>1, <3>1, LenJobs DEF CallMade
      <3>3. next \in Pending
        BY <3>1
      <3>4. Abstract!Run(next)
        BY <2>1, <3>1, <3>2, <3>3 DEF CallMade, Abstract!Run
      <3>. QED  BY <3>1, <3>4 DEF Abstract!Next, Abstract!Run
    <2>2. CASE Ended
      <3>1. Pending' = Pending
        BY <2>2 DEF Ended
      <3>2. CASE outcome' = "raised"
        BY <2>2, <3>1, <3>2 DEF Ended, Abstract!Next, Abstract!Raise
      <3>3. CASE outcome' = "returned" /\ Exhausted
        <4>1. Pending = {}
          BY <3>3, LenJobs DEF Exhausted, TypeOK
        <4>. QED  BY <2>2, <3>1, <3>3, <4>1
                  DEF Ended, Abstract!Next, Abstract!Return
      <3>. QED  BY <2>2, <3>2, <3>3 DEF Ended
    <2>3. CASE UNCHANGED vars
      BY <2>3 DEF vars, Abstract!vars
    <2>. QED  BY <2>1, <2>2, <2>3, StepCases
  <1>. QED  BY <1>1, <1>2, TypeCorrect, PTL
            DEF Spec, ImplementsCommandRun, Abstract!Spec
=============================================================================
