------------------------- MODULE WorkerPool_proofs -------------------------
(***************************************************************************)
(* A pool of processes loses no job silently and implements "run one       *)
(* command", for any iterable, any number of processes and any number of   *)
(* deaths.                                                                 *)
(***************************************************************************)
EXTENDS WorkerPool, FiniteSetTheorems, TLAPS

(* The command runs until the control process is at its end.              *)
Phases == outcome = "running" <=> pc # "ended"

(* A process runs one job at most, and only while it is alive.             *)
Hands ==
  \A p \in Proc :
    /\ hand[p] = {} \/ \E j \in Job : hand[p] = {j}
    /\ p \notin alive => hand[p] = {}

(* Nobody works for a command that has ended.                              *)
Stopped == outcome # "running" => alive = {}

(* A job that was put is queued once, or in one hand, or lost.             *)
OnePlace ==
  /\ \A i, k \in DOMAIN jobqueue : jobqueue[i] = jobqueue[k] => i = k
  /\ \A i \in DOMAIN jobqueue :
       /\ jobqueue[i] <= put /\ jobqueue[i] \notin lost
       /\ \A p \in Proc : jobqueue[i] \notin hand[p]
  /\ \A p \in Proc : \A j \in hand[p] :
       /\ j <= put /\ j \notin lost
       /\ \A q \in Proc : j \in hand[q] => p = q
  /\ \A j \in lost : j <= put

(* Where a job is that was not run. *)
Queued(k) == \E i \in DOMAIN jobqueue : jobqueue[i] = k
Run(k) == \E p \in Proc : k \in hand[p]
Interrupted(k) ==
  \E i \in DOMAIN resultqueue : /\ resultqueue[i].job = k
                                /\ resultqueue[i].kind = "interrupt"

(* A job that was not run is somewhere, or it was interrupted.             *)
Accounted ==
  outcome = "running" =>
    \A k \in Job :
      k > put \/ k \in lost \cup done \/ Queued(k) \/ Run(k) \/ Interrupted(k)

(* A command that returned has run its jobs.                               *)
AllRun == outcome = "returned" => done = Job /\ lost = {}

(* A result is kept under the basefile it is about.                        *)
OwnPlace == \A b \in DOMAIN res : Jobs[res[b]].basefile = b

IInv ==
  /\ TypeOK /\ Phases /\ Hands /\ Stopped /\ OnePlace /\ Accounted
  /\ Conservation /\ AllRun /\ OwnPlace

-----------------------------------------------------------------------------
(* The jobs are numbered, and there are finitely many. *)
LEMMA JobNumbers ==
  /\ Len(Jobs) \in Nat /\ Job = 1..Len(Jobs)
  /\ \A S \in SUBSET Job : IsFiniteSet(S) /\ Cardinality(S) \in Nat
<1>1. Len(Jobs) \in Nat /\ Job = 1..Len(Jobs)
  BY JobsAssumption DEF Job
<1>2. IsFiniteSet(Job)
  BY <1>1, FS_Interval
<1> QED BY <1>1, <1>2, FS_Subset, FS_CardinalityType

(* What is left of a queue when its head is taken. *)
LEMMA TailFacts ==
  ASSUME NEW S, NEW q \in Seq(S), q # <<>>
  PROVE  /\ Head(q) \in S /\ Head(q) = q[1] /\ 1 \in DOMAIN q
         /\ Tail(q) \in Seq(S) /\ Len(Tail(q)) = Len(q) - 1
         /\ Len(q) \in Nat \ {0}
         /\ \A i \in DOMAIN Tail(q) :
              i + 1 \in DOMAIN q /\ Tail(q)[i] = q[i + 1] /\ i # 0
         /\ \A i \in DOMAIN q : i # 1 => /\ i - 1 \in DOMAIN Tail(q)
                                        /\ Tail(q)[i - 1] = q[i]
  OBVIOUS

(* What is in a queue to which something is added. *)
LEMMA AppendFacts ==
  ASSUME NEW S, NEW q \in Seq(S), NEW e \in S
  PROVE  /\ Append(q, e) \in Seq(S) /\ Len(Append(q, e)) = Len(q) + 1
         /\ \A i \in DOMAIN q : i \in DOMAIN Append(q, e)
                                /\ Append(q, e)[i] = q[i]
         /\ \A i \in DOMAIN Append(q, e) :
              \/ i \in DOMAIN q
              \/ i = Len(q) + 1 /\ Append(q, e)[i] = e
         /\ Len(q) + 1 \in DOMAIN Append(q, e)
         /\ Append(q, e)[Len(q) + 1] = e
  OBVIOUS
-----------------------------------------------------------------------------
(* Steps. *)

(* There is a get() to come for every result that is queued. *)
LEMMA RoomForResult ==
  ASSUME TypeOK, Phases, Conservation, pc = "get", resultqueue # <<>>
  PROVE  got + 1 \in 0..Len(Jobs)
<1>1. Cardinality(Held) \in Nat /\ Cardinality(lost) \in Nat
  BY JobNumbers DEF TypeOK, Held
<1>2. Len(resultqueue) \in Nat \ {0} /\ Len(jobqueue) \in Nat
  BY DEF TypeOK
<1> QED BY <1>1, <1>2, JobNumbers DEF TypeOK, Phases, Conservation

(* The types are kept. *)
LEMMA TypeStep ==
  ASSUME TypeOK, Phases, Conservation, [Next]_vars
  PROVE  TypeOK'
<1> USE JobNumbers DEF TypeOK, controlVars
<1>1. CASE Put
  <2>1. put + 1 \in 0..Len(Jobs) /\ put + 1 \in Job
    BY <1>1 DEF Put, MoreToPut
  <2>2. jobqueue' \in Seq(Job)
    BY <1>1, <2>1 DEF Put
  <2> QED BY <1>1, <2>1, <2>2 DEF Put
<1>2. CASE StartLoop
  BY <1>2 DEF StartLoop
<1>3. CASE ReplaceDead
  BY <1>3 DEF ReplaceDead
<1>4. CASE TimeOut
  BY <1>4 DEF TimeOut, EndWith
<1>5. CASE Return
  BY <1>5 DEF Return, EndWith
<1>6. ASSUME NEW r \in Range(resultqueue), GetValue(r)
       PROVE  TypeOK'
  <2>1. got' \in 0..Len(Jobs)
    BY <1>6, RoomForResult DEF GetValue, Get
  <2>2. r \in Result /\ resultqueue' \in Seq(Result)
    BY <1>6, TailFacts DEF GetValue, Get
  <2>3. r.job \in Job
    BY <2>2 DEF Result
  <2>4. /\ DOMAIN res' \subseteq {Jobs[k].basefile : k \in Job}
        /\ \A b \in DOMAIN res' : res'[b] \in Job
    BY <1>6, <2>3 DEF GetValue, Stored
  <2> QED BY <1>6, <2>1, <2>2, <2>4 DEF GetValue
<1>7. ASSUME NEW r \in Range(resultqueue), GetUndecodable(r)
       PROVE  TypeOK'
  <2>1. got' \in 0..Len(Jobs)
    BY <1>7, RoomForResult DEF GetUndecodable, Get
  <2>2. resultqueue' \in Seq(Result)
    BY <1>7, TailFacts DEF GetUndecodable, Get
  <2> QED BY <1>7, <2>1, <2>2 DEF GetUndecodable
<1>8. ASSUME NEW r \in Range(resultqueue), GetInterrupt(r)
       PROVE  TypeOK'
  <2>1. resultqueue' \in Seq(Result)
    BY <1>8, TailFacts DEF GetInterrupt, Get
  <2> QED BY <1>8, <2>1 DEF GetInterrupt, EndWith
<1>9. ASSUME NEW p \in Proc, Take(p)
       PROVE  TypeOK'
  <2>1. Head(jobqueue) \in Job /\ jobqueue' \in Seq(Job)
    BY <1>9, TailFacts DEF Take
  <2> QED BY <1>9, <2>1 DEF Take
<1>10. ASSUME NEW p \in Proc, NEW kind \in Kinds, Finish(p, kind)
       PROVE  TypeOK'
  <2>1. PICK j \in hand[p] :
          /\ done' = IF kind = "interrupt" THEN done ELSE done \cup {j}
          /\ IF kind = "unpicklable"
             THEN lost' = lost \cup {j} /\ UNCHANGED resultqueue
             ELSE /\ resultqueue' =
                       Append(resultqueue, [job |-> j, kind |-> kind])
                  /\ UNCHANGED lost
    BY <1>10 DEF Finish
  <2>2. j \in Job
    OBVIOUS
  <2>3. kind # "unpicklable" => [job |-> j, kind |-> kind] \in Result
    BY <2>2 DEF Kinds, Result
  <2>4. lost' \subseteq Job /\ done' \subseteq Job
    BY <2>1, <2>2
  <2>5. CASE kind = "unpicklable"
    BY <1>10, <2>1, <2>4, <2>5 DEF Finish
  <2>6. CASE kind # "unpicklable"
    <3>1. resultqueue' \in Seq(Result)
      BY <2>1, <2>3, <2>6, AppendFacts
    <3> QED BY <1>10, <2>4, <3>1 DEF Finish
  <2> QED BY <2>5, <2>6
<1>11. ASSUME NEW p \in Proc, Die(p)
       PROVE  TypeOK'
  <2>1. lost' \subseteq Job /\ hand' \in [Proc -> SUBSET Job]
    BY <1>11 DEF Die
  <2>2. jammed' \in BOOLEAN
    BY <1>11 DEF Die
  <2> QED BY <1>11, <2>1, <2>2 DEF Die
<1>12. CASE UNCHANGED vars
  BY <1>12 DEF vars
<1> QED
  BY <1>1, <1>2, <1>3, <1>4, <1>5, <1>6, <1>7, <1>8, <1>9, <1>10, <1>11, <1>12
  DEF Next, Control, ProcNext

(* The phases, hands and places of results are as they were.              *)
Bookkeeping == Phases /\ Hands /\ Stopped /\ OwnPlace

(* The small parts of the invariant. *)
LEMMA BookStep ==
  ASSUME TypeOK, Bookkeeping, [Next]_vars
  PROVE  Bookkeeping'
<1> USE JobNumbers
    DEF TypeOK, Bookkeeping, Phases, Hands, Stopped, OwnPlace, controlVars
<1>1. CASE Put
  BY <1>1 DEF Put
<1>2. CASE StartLoop
  BY <1>2 DEF StartLoop
<1>3. CASE ReplaceDead
  BY <1>3 DEF ReplaceDead
<1>4. CASE TimeOut
  BY <1>4 DEF TimeOut, EndWith
<1>5. CASE Return
  BY <1>5 DEF Return, EndWith
<1>6. ASSUME NEW r \in Range(resultqueue), GetValue(r)
       PROVE  Bookkeeping'
  <2>1. r \in Result
    BY <1>6, TailFacts DEF GetValue, Get
  <2>2. r.job \in Job
    BY <2>1 DEF Result
  <2>3. OwnPlace'
    BY <1>6, <2>2 DEF GetValue, Stored
  <2>4. Phases'
    BY <1>6 DEF GetValue, Get
  <2>5. UNCHANGED <<hand, alive, outcome>>
    BY <1>6 DEF GetValue
  <2> QED BY <2>3, <2>4, <2>5
<1>7. ASSUME NEW r \in Range(resultqueue), GetUndecodable(r)
       PROVE  Bookkeeping'
  BY <1>7 DEF GetUndecodable, Get
<1>8. ASSUME NEW r \in Range(resultqueue), GetInterrupt(r)
       PROVE  Bookkeeping'
  BY <1>8 DEF GetInterrupt, Get, EndWith
<1>9. ASSUME NEW p \in Proc, Take(p)
       PROVE  Bookkeeping'
  <2>1. Head(jobqueue) \in Job
    BY <1>9, TailFacts DEF Take
  <2>2. Hands'
    BY <1>9, <2>1 DEF Take
  <2> QED BY <1>9, <2>2 DEF Take
<1>10. ASSUME NEW p \in Proc, NEW kind \in Kinds, Finish(p, kind)
       PROVE  Bookkeeping'
  BY <1>10 DEF Finish, Kinds
<1>11. ASSUME NEW p \in Proc, Die(p)
       PROVE  Bookkeeping'
  BY <1>11 DEF Die
<1>12. CASE UNCHANGED vars
  BY <1>12 DEF vars
<1> QED
  BY <1>1, <1>2, <1>3, <1>4, <1>5, <1>6, <1>7, <1>8, <1>9, <1>10, <1>11, <1>12
  DEF Next, Control, ProcNext

(* A job stays in one place. *)
LEMMA PlaceStep ==
  ASSUME TypeOK, Hands, OnePlace, [Next]_vars
  PROVE  OnePlace'
<1> USE JobNumbers DEF TypeOK, OnePlace, controlVars
<1>1. CASE Put
  <2>1. put + 1 \in Job /\ put \in Nat
    BY <1>1 DEF Put, MoreToPut
  <2>2. /\ \A i \in DOMAIN jobqueue' :
             \/ i \in DOMAIN jobqueue /\ jobqueue'[i] = jobqueue[i]
             \/ i = Len(jobqueue) + 1 /\ jobqueue'[i] = put + 1
    BY <1>1, <2>1, AppendFacts DEF Put
  <2>3. UNCHANGED <<hand, lost>> /\ put' = put + 1
    BY <1>1 DEF Put
  <2>4. \A p \in Proc : \A j \in hand[p] : j \in Nat
    OBVIOUS
  <2>5. \A j \in lost : j \in Nat
    OBVIOUS
  <2>6. \A i \in DOMAIN jobqueue : jobqueue[i] \in Nat
    OBVIOUS
  <2>7. \A i, m \in DOMAIN jobqueue' : jobqueue'[i] = jobqueue'[m] => i = m
    BY <2>1, <2>2, <2>6
  <2>8. \A i \in DOMAIN jobqueue' :
          /\ jobqueue'[i] <= put' /\ jobqueue'[i] \notin lost'
          /\ \A p \in Proc : jobqueue'[i] \notin hand'[p]
    <3>1. SUFFICES ASSUME NEW i \in DOMAIN jobqueue'
                   PROVE  /\ jobqueue'[i] <= put' /\ jobqueue'[i] \notin lost'
                          /\ \A p \in Proc : jobqueue'[i] \notin hand'[p]
      OBVIOUS
    <3>2. CASE i \in DOMAIN jobqueue /\ jobqueue'[i] = jobqueue[i]
      BY <2>1, <2>3, <2>6, <3>2
    <3>3. CASE jobqueue'[i] = put + 1
      <4>1. put + 1 \notin lost /\ \A p \in Proc : put + 1 \notin hand[p]
        BY <2>1, <2>4, <2>5
      <4> QED BY <2>1, <2>3, <3>3, <4>1
    <3> QED BY <2>2, <3>2, <3>3
  <2>9. \A p \in Proc : \A j \in hand'[p] :
          /\ j <= put' /\ j \notin lost'
          /\ \A q \in Proc : j \in hand'[q] => p = q
    BY <2>1, <2>3, <2>4
  <2>10. \A j \in lost' : j <= put'
    BY <2>1, <2>3, <2>5
  <2> QED BY <2>7, <2>8, <2>9, <2>10
<1>2. CASE StartLoop
  BY <1>2 DEF StartLoop
<1>3. CASE ReplaceDead
  BY <1>3 DEF ReplaceDead
<1>4. CASE TimeOut
  BY <1>4 DEF TimeOut, EndWith
<1>5. CASE Return
  BY <1>5 DEF Return, EndWith
<1>6. ASSUME NEW r \in Range(resultqueue), GetValue(r)
       PROVE  OnePlace'
  BY <1>6 DEF GetValue, Get, Stored
<1>7. ASSUME NEW r \in Range(resultqueue), GetUndecodable(r)
       PROVE  OnePlace'
  BY <1>7 DEF GetUndecodable, Get
<1>8. ASSUME NEW r \in Range(resultqueue), GetInterrupt(r)
       PROVE  OnePlace'
  BY <1>8 DEF GetInterrupt, Get, EndWith
<1>9. ASSUME NEW p \in Proc, Take(p)
       PROVE  OnePlace'
  <2> DEFINE j == Head(jobqueue)
  <2>1. j \in Job /\ j = jobqueue[1] /\ 1 \in DOMAIN jobqueue
    BY <1>9, TailFacts DEF Take
  <2>2. \A i \in DOMAIN jobqueue' :
          i + 1 \in DOMAIN jobqueue /\ jobqueue'[i] = jobqueue[i + 1] /\ i # 0
          /\ i \in Nat
    BY <1>9, TailFacts DEF Take
  <2>3. hand' = [hand EXCEPT ![p] = {j}] /\ UNCHANGED <<put, lost>>
    BY <1>9 DEF Take
  <2>4. \A i \in DOMAIN jobqueue' : jobqueue'[i] # j
    BY <2>1, <2>2
  <2>5. \A i, k \in DOMAIN jobqueue' : jobqueue'[i] = jobqueue'[k] => i = k
    BY <2>2
  <2> QED BY <2>1, <2>2, <2>3, <2>4, <2>5
<1>10. ASSUME NEW p \in Proc, NEW kind \in Kinds, Finish(p, kind)
       PROVE  OnePlace'
  <2>1. PICK j \in hand[p] : lost' = lost \/ lost' = lost \cup {j}
    BY <1>10 DEF Finish
  <2>2. hand' = [hand EXCEPT ![p] = {}] /\ UNCHANGED <<put, jobqueue>>
    BY <1>10 DEF Finish
  <2> QED BY <2>1, <2>2
<1>11. ASSUME NEW p \in Proc, Die(p)
       PROVE  OnePlace'
  BY <1>11 DEF Die
<1>12. CASE UNCHANGED vars
  BY <1>12 DEF vars
<1> QED
  BY <1>1, <1>2, <1>3, <1>4, <1>5, <1>6, <1>7, <1>8, <1>9, <1>10, <1>11, <1>12
  DEF Next, Control, ProcNext

(* Nothing disappears without being lost. *)
LEMMA AccountStep ==
  ASSUME TypeOK, Phases, Hands, Stopped, Accounted, [Next]_vars
  PROVE  Accounted'
<1> SUFFICES ASSUME outcome' = "running", NEW k \in Job
             PROVE  \/ k > put' \/ k \in lost' \cup done'
                    \/ Queued(k)' \/ Run(k)' \/ Interrupted(k)'
  BY DEF Accounted
<1>o. outcome = "running"
  BY DEF Next, Control, ProcNext, Put, StartLoop, ReplaceDead, TimeOut, Return,
         EndWith, GetValue, GetUndecodable, GetInterrupt, Take, Finish, Die,
         controlVars, vars
<1>k. k > put \/ k \in lost \cup done \/ Queued(k) \/ Run(k) \/ Interrupted(k)
  BY <1>o DEF Accounted
<1> DEFINE Found == \/ k > put' \/ k \in lost' \cup done'
                   \/ Queued(k)' \/ Run(k)' \/ Interrupted(k)'
<1>1. CASE Put
  <2>1. put + 1 \in Job /\ put \in Nat /\ k \in Nat
    BY <1>1, JobNumbers DEF Put, MoreToPut, TypeOK
  <2>2. /\ \A i \in DOMAIN jobqueue : /\ i \in DOMAIN jobqueue'
                                      /\ jobqueue'[i] = jobqueue[i]
        /\ Len(jobqueue) + 1 \in DOMAIN jobqueue'
        /\ jobqueue'[Len(jobqueue) + 1] = put + 1
    BY <1>1, <2>1, AppendFacts DEF Put, TypeOK
  <2>3. Queued(k) \/ k = put + 1 => Queued(k)'
    BY <2>2 DEF Queued
  <2>4. k > put => k = put + 1 \/ k > put'
    BY <1>1, <2>1 DEF Put
  <2> QED BY <1>1, <1>k, <2>3, <2>4 DEF Put, Run, Interrupted
<1>2. CASE StartLoop
  BY <1>2, <1>k DEF StartLoop, Queued, Run, Interrupted
<1>3. CASE ReplaceDead
  BY <1>3, <1>k DEF ReplaceDead, Queued, Run, Interrupted
<1>4. CASE TimeOut
  BY <1>4, <1>k DEF TimeOut, EndWith, Queued, Run, Interrupted
<1>5. CASE Return
  BY <1>5, <1>k DEF Return, EndWith, Queued, Run, Interrupted
<1>6. ASSUME NEW r \in Range(resultqueue), GetValue(r)
       PROVE  Found
  <2>1. /\ resultqueue[1].kind # "interrupt"
        /\ \A i \in DOMAIN resultqueue : i # 1 =>
             /\ i - 1 \in DOMAIN resultqueue'
             /\ resultqueue'[i - 1] = resultqueue[i]
    BY <1>6, TailFacts DEF GetValue, Get, TypeOK
  <2>2. Interrupted(k) => Interrupted(k)'
    BY <2>1 DEF Interrupted
  <2> QED BY <1>6, <1>k, <2>2 DEF GetValue, Queued, Run
<1>7. ASSUME NEW r \in Range(resultqueue), GetUndecodable(r)
       PROVE  Found
  <2>1. /\ resultqueue[1].kind # "interrupt"
        /\ \A i \in DOMAIN resultqueue : i # 1 =>
             /\ i - 1 \in DOMAIN resultqueue'
             /\ resultqueue'[i - 1] = resultqueue[i]
    BY <1>7, TailFacts DEF GetUndecodable, Get, TypeOK
  <2>2. Interrupted(k) => Interrupted(k)'
    BY <2>1 DEF Interrupted
  <2> QED BY <1>7, <1>k, <2>2 DEF GetUndecodable, Queued, Run
<1>8. ASSUME NEW r \in Range(resultqueue), GetInterrupt(r)
       PROVE  Found
  BY <1>8, <1>k DEF GetInterrupt, Get, EndWith, Queued, Run, Interrupted
<1>9. ASSUME NEW p \in Proc, Take(p)
       PROVE  Found
  <2>1. /\ Head(jobqueue) = jobqueue[1]
        /\ \A i \in DOMAIN jobqueue : i # 1 =>
             i - 1 \in DOMAIN jobqueue' /\ jobqueue'[i - 1] = jobqueue[i]
    BY <1>9, TailFacts DEF Take, TypeOK
  <2>2. hand[p] = {} /\ hand' = [hand EXCEPT ![p] = {jobqueue[1]}]
    BY <1>9, <2>1 DEF Take
  <2>3. Queued(k) => Queued(k)' \/ k = jobqueue[1]
    BY <2>1 DEF Queued
  <2>4. Run(k) \/ k = jobqueue[1] => Run(k)'
    BY <2>2 DEF Run, TypeOK
  <2> QED BY <1>9, <1>k, <2>3, <2>4 DEF Take, controlVars, Interrupted
<1>10. ASSUME NEW p \in Proc, NEW kind \in Kinds, Finish(p, kind)
       PROVE  Found
  <2>1. PICK j \in hand[p] :
          /\ done' = IF kind = "interrupt" THEN done ELSE done \cup {j}
          /\ IF kind = "unpicklable"
             THEN lost' = lost \cup {j} /\ UNCHANGED resultqueue
             ELSE /\ resultqueue' =
                       Append(resultqueue, [job |-> j, kind |-> kind])
                  /\ UNCHANGED lost
    BY <1>10 DEF Finish
  <2>2. hand[p] = {j} /\ j \in Job
    BY DEF Hands
  <2>3. /\ hand' = [hand EXCEPT ![p] = {}]
        /\ UNCHANGED <<outcome, put, jobqueue>>
    BY <1>10 DEF Finish, controlVars
  <2>4. Run(k) => Run(k)' \/ k = j
    BY <2>2, <2>3 DEF Run, TypeOK
  <2>5. Queued(k) => Queued(k)'
    BY <2>3 DEF Queued
  <2>6. k \in lost \cup done => k \in lost' \cup done'
    BY <2>1
  <2>7. /\ Interrupted(k) => Interrupted(k)'
        /\ kind = "interrupt" /\ k = j => Interrupted(k)'
    <3>1. CASE kind = "unpicklable"
      BY <2>1, <3>1 DEF Interrupted
    <3>2. CASE kind # "unpicklable"
      <4>1. [job |-> j, kind |-> kind] \in Result
        BY <2>2, <3>2 DEF Result, Kinds
      <4>2. /\ \A i \in DOMAIN resultqueue : /\ i \in DOMAIN resultqueue'
                                            /\ resultqueue'[i] = resultqueue[i]
            /\ Len(resultqueue) + 1 \in DOMAIN resultqueue'
            /\ resultqueue'[Len(resultqueue) + 1] = [job |-> j, kind |-> kind]
        BY <2>1, <3>2, <4>1, AppendFacts DEF TypeOK
      <4> QED BY <4>2 DEF Interrupted
    <3> QED BY <3>1, <3>2
  <2>8. kind # "interrupt" => j \in done'
    BY <2>1
  <2> QED BY <1>k, <2>3, <2>4, <2>5, <2>6, <2>7, <2>8
<1>11. ASSUME NEW p \in Proc, Die(p)
       PROVE  Found
  <2>1. Run(k) => Run(k)' \/ k \in lost'
    BY <1>11 DEF Die, Run, TypeOK
  <2> QED BY <1>11, <1>k, <2>1 DEF Die, Queued, Interrupted, controlVars
<1>12. CASE UNCHANGED vars
  BY <1>12, <1>k DEF vars, Queued, Run, Interrupted
<1> QED
  BY <1>1, <1>2, <1>3, <1>4, <1>5, <1>6, <1>7, <1>8, <1>9, <1>10, <1>11, <1>12
  DEF Next, Control, ProcNext

(* Both sides of the balance are one less when a result is read. *)
LEMMA ReadBalance ==
  ASSUME Conservation, Len(Jobs) \in Nat, got \in Nat, put \in Nat,
         Len(jobqueue) \in Nat, Len(resultqueue) \in Nat,
         Cardinality(Held) \in Nat, Cardinality(lost) \in Nat,
         got' = got + 1, Len(resultqueue') = Len(resultqueue) - 1,
         UNCHANGED <<outcome, put, jobqueue, Held, lost>>
  PROVE  Conservation'
<1> SUFFICES ASSUME outcome' = "running"
             PROVE  Len(Jobs) - got' =
                      (Len(Jobs) - put') + Len(jobqueue') + Cardinality(Held')
                        + Len(resultqueue') + Cardinality(lost')
  BY DEF Conservation
<1>1. Len(Jobs) - got = (Len(Jobs) - put) + Len(jobqueue) + Cardinality(Held)
                          + Len(resultqueue) + Cardinality(lost)
  BY DEF Conservation
<1>2. /\ Len(jobqueue') = Len(jobqueue) /\ put' = put
      /\ Cardinality(Held') = Cardinality(Held)
      /\ Cardinality(lost') = Cardinality(lost)
  OBVIOUS
<1> QED BY <1>1, <1>2

(* The numbers add up. *)
LEMMA ConservationStep ==
  ASSUME TypeOK, Hands, OnePlace, Conservation, [Next]_vars
  PROVE  Conservation'
<1>h. IsFiniteSet(Held) /\ IsFiniteSet(lost)
  BY JobNumbers DEF TypeOK, Held
<1>n. /\ Conservation
      /\ Len(Jobs) \in Nat /\ got \in Nat /\ put \in Nat
      /\ Len(jobqueue) \in Nat /\ Len(resultqueue) \in Nat
      /\ Cardinality(Held) \in Nat /\ Cardinality(lost) \in Nat
  BY <1>h, JobNumbers, FS_CardinalityType DEF TypeOK
<1>r. ASSUME NEW q \in Proc, NEW j \in Job, hand[q] = {j},
             hand' = [hand EXCEPT ![q] = {}]
      PROVE  Cardinality(Held') = Cardinality(Held) - 1
  <2>1. \A p \in Proc : hand'[p] = IF p = q THEN {} ELSE hand[p]
    BY <1>r DEF TypeOK
  <2>2. \A p \in Proc : p # q => j \notin hand[p]
    BY <1>r DEF OnePlace
  <2>3. Held' = Held \ {j} /\ j \in Held
    BY <1>r, <2>1, <2>2 DEF Held
  <2> QED BY <1>h, <2>3, FS_RemoveElement
<1>1. CASE Put
  <2>1. put' = put + 1 /\ Len(jobqueue') = Len(jobqueue) + 1
    <3>1. put + 1 \in Job
      BY <1>1, JobNumbers DEF Put, MoreToPut, TypeOK
    <3> QED BY <1>1, <3>1, AppendFacts DEF Put, TypeOK
  <2>2. UNCHANGED <<outcome, got, Held, resultqueue, lost>>
    BY <1>1 DEF Put, Held
  <2> QED BY <2>1, <2>2, <1>n DEF Conservation
<1>2. CASE StartLoop
  BY <1>2 DEF StartLoop, Held, Conservation
<1>3. CASE ReplaceDead
  BY <1>3 DEF ReplaceDead, Held, Conservation
<1>4. CASE TimeOut
  BY <1>4 DEF TimeOut, EndWith, Conservation
<1>5. CASE Return
  BY <1>5 DEF Return, EndWith, Conservation
<1>6. ASSUME NEW r \in Range(resultqueue), GetValue(r)
       PROVE  Conservation'
  <2>1. got' = got + 1 /\ Len(resultqueue') = Len(resultqueue) - 1
    BY <1>6, TailFacts DEF GetValue, Get, TypeOK
  <2>2. UNCHANGED <<outcome, put, jobqueue, Held, lost>>
    BY <1>6 DEF GetValue, Held
  <2> QED BY <2>1, <2>2, <1>n, ReadBalance
<1>7. ASSUME NEW r \in Range(resultqueue), GetUndecodable(r)
       PROVE  Conservation'
  <2>1. got' = got + 1 /\ Len(resultqueue') = Len(resultqueue) - 1
    BY <1>7, TailFacts DEF GetUndecodable, Get, TypeOK
  <2>2. UNCHANGED <<outcome, put, jobqueue, Held, lost>>
    BY <1>7 DEF GetUndecodable, Held
  <2> QED BY <2>1, <2>2, <1>n, ReadBalance
<1>8. ASSUME NEW r \in Range(resultqueue), GetInterrupt(r)
       PROVE  Conservation'
  BY <1>8 DEF GetInterrupt, EndWith, Conservation
<1>9. ASSUME NEW p \in Proc, Take(p)
       PROVE  Conservation'
  <2> DEFINE j == Head(jobqueue)
  <2>1. /\ j \in Job /\ j = jobqueue[1] /\ 1 \in DOMAIN jobqueue
        /\ Len(jobqueue') = Len(jobqueue) - 1
    BY <1>9, TailFacts DEF Take, TypeOK
  <2>2. hand[p] = {} /\ hand' = [hand EXCEPT ![p] = {j}]
    BY <1>9 DEF Take
  <2>3. Held' = Held \cup {j}
    <3>1. \A q \in Proc : hand'[q] = IF q = p THEN {j} ELSE hand[q]
      BY <2>2 DEF TypeOK
    <3> QED BY <2>2, <3>1 DEF Held
  <2>4. j \notin Held
    BY <2>1 DEF OnePlace, Held
  <2>5. Cardinality(Held') = Cardinality(Held) + 1
    BY <1>h, <2>3, <2>4, FS_AddElement
  <2>6. UNCHANGED <<outcome, got, put, resultqueue, lost>>
    BY <1>9 DEF Take, controlVars
  <2> QED BY <2>1, <2>5, <2>6, <1>n DEF Conservation
<1>10. ASSUME NEW p \in Proc, NEW kind \in Kinds, Finish(p, kind)
       PROVE  Conservation'
  <2>1. PICK j \in hand[p] :
          IF kind = "unpicklable"
          THEN lost' = lost \cup {j} /\ UNCHANGED resultqueue
          ELSE /\ resultqueue' = Append(resultqueue, [job |-> j, kind |-> kind])
               /\ UNCHANGED lost
    BY <1>10 DEF Finish
  <2>2. /\ hand' = [hand EXCEPT ![p] = {}]
        /\ UNCHANGED <<outcome, got, put, jobqueue>>
    BY <1>10 DEF Finish, controlVars
  <2>3. hand[p] = {j} /\ j \in Job
    BY DEF Hands, TypeOK
  <2>4. Cardinality(Held') = Cardinality(Held) - 1
    BY <1>r, <2>2, <2>3
  <2>5. CASE kind = "unpicklable"
    <3>1. Cardinality(lost') = Cardinality(lost) + 1
      BY <1>h, <2>1, <2>3, <2>5, FS_AddElement DEF OnePlace
    <3>2. UNCHANGED resultqueue
      BY <2>1, <2>5
    <3> QED BY <1>n, <2>2, <2>4, <3>1, <3>2 DEF Conservation
  <2>6. CASE kind # "unpicklable"
    <3>1. [job |-> j, kind |-> kind] \in Result
      BY <2>3, <2>6 DEF Result, Kinds
    <3>2. Len(resultqueue') = Len(resultqueue) + 1 /\ UNCHANGED lost
      BY <2>1, <2>6, <3>1, AppendFacts DEF TypeOK
    <3> QED BY <1>n, <2>2, <2>4, <3>2 DEF Conservation
  <2> QED BY <2>5, <2>6
<1>11. ASSUME NEW p \in Proc, Die(p)
       PROVE  Conservation'
  <2>1. /\ hand' = [hand EXCEPT ![p] = {}] /\ lost' = lost \cup hand[p]
        /\ UNCHANGED <<outcome, got, put, jobqueue, resultqueue>>
    BY <1>11 DEF Die, controlVars
  <2>2. CASE hand[p] = {}
    <3>1. hand' = hand /\ lost' = lost
      BY <2>1, <2>2 DEF TypeOK
    <3> QED BY <1>n, <2>1, <3>1 DEF Held, Conservation
  <2>3. ASSUME NEW j \in Job, hand[p] = {j}
        PROVE  Conservation'
    <3>1. Cardinality(Held') = Cardinality(Held) - 1
      BY <1>r, <2>1, <2>3
    <3>2. Cardinality(lost') = Cardinality(lost) + 1
      BY <1>h, <2>1, <2>3, FS_AddElement DEF OnePlace
    <3> QED BY <1>n, <2>1, <3>1, <3>2 DEF Conservation
  <2> QED BY <2>2, <2>3 DEF Hands
<1>12. CASE UNCHANGED vars
  BY <1>12 DEF vars, Held, Conservation
<1> QED
  BY <1>1, <1>2, <1>3, <1>4, <1>5, <1>6, <1>7, <1>8, <1>9, <1>10, <1>11, <1>12
  DEF Next, Control, ProcNext

(* A command that returned has run everything: nothing is outstanding then. *)
LEMMA NothingOutstanding ==
  ASSUME IInv, Return
  PROVE  done = Job /\ lost = {}
<1>1. outcome = "running" /\ got = Len(Jobs)
  BY DEF Return, AllRead, IInv, Phases
<1>2. /\ Len(Jobs) \in Nat /\ put \in 0..Len(Jobs)
      /\ Len(jobqueue) \in Nat /\ Len(resultqueue) \in Nat
      /\ Cardinality(Held) \in Nat /\ Cardinality(lost) \in Nat
      /\ IsFiniteSet(Held) /\ IsFiniteSet(lost)
  <2>1. Held \subseteq Job /\ lost \subseteq Job
    BY DEF IInv, TypeOK, Held
  <2> QED BY <2>1, JobNumbers DEF IInv, TypeOK
<1>3. /\ put = Len(Jobs) /\ Len(jobqueue) = 0 /\ Len(resultqueue) = 0
      /\ Cardinality(Held) = 0 /\ Cardinality(lost) = 0
  BY <1>1, <1>2 DEF IInv, Conservation
<1>4. Held = {} /\ lost = {}
  BY <1>2, <1>3, FS_EmptySet
<1>5. DOMAIN jobqueue = {} /\ DOMAIN resultqueue = {}
  BY <1>3 DEF IInv, TypeOK
<1>6. ASSUME NEW k \in Job PROVE k \in done
  <2>1. ~ (k > put)
    BY <1>3, JobNumbers
  <2>2. ~ Queued(k) /\ ~ Interrupted(k) /\ ~ Run(k)
    BY <1>4, <1>5 DEF Queued, Interrupted, Run, Held
  <2> QED BY <1>1, <1>4, <2>1, <2>2 DEF IInv, Accounted
<1> QED BY <1>4, <1>6 DEF IInv, TypeOK

(* A command that has ended stays as it is.                                *)
LEMMA AllRunStep ==
  ASSUME IInv, [Next]_vars
  PROVE  AllRun'
<1> USE DEF IInv, AllRun, Phases, controlVars
<1>1. CASE Put
  BY <1>1 DEF Put
<1>2. CASE StartLoop
  BY <1>2 DEF StartLoop
<1>3. CASE ReplaceDead
  BY <1>3 DEF ReplaceDead
<1>4. CASE TimeOut
  BY <1>4 DEF TimeOut, EndWith
<1>5. CASE Return
  BY <1>5, NothingOutstanding DEF Return, EndWith
<1>6. ASSUME NEW r \in Range(resultqueue), GetValue(r)
       PROVE  AllRun'
  BY <1>6 DEF GetValue, Get
<1>7. ASSUME NEW r \in Range(resultqueue), GetUndecodable(r)
       PROVE  AllRun'
  BY <1>7 DEF GetUndecodable, Get
<1>8. ASSUME NEW r \in Range(resultqueue), GetInterrupt(r)
       PROVE  AllRun'
  BY <1>8 DEF GetInterrupt, Get, EndWith
<1>9. ASSUME NEW p \in Proc, Take(p)
       PROVE  AllRun'
  BY <1>9 DEF Take
<1>10. ASSUME NEW p \in Proc, NEW kind \in Kinds, Finish(p, kind)
       PROVE  AllRun'
  <2>1. outcome = "running"
    BY <1>10 DEF Finish, Hands, Stopped, TypeOK
  <2> QED BY <1>10, <2>1 DEF Finish
<1>11. ASSUME NEW p \in Proc, Die(p)
       PROVE  AllRun'
  <2>1. outcome = "running"
    BY <1>11 DEF Die, Stopped
  <2> QED BY <1>11, <2>1 DEF Die
<1>12. CASE UNCHANGED vars
  BY <1>12 DEF vars
<1> QED
  BY <1>1, <1>2, <1>3, <1>4, <1>5, <1>6, <1>7, <1>8, <1>9, <1>10, <1>11, <1>12
  DEF Next, Control, ProcNext

(* The first state. *)
LEMMA InitIInv == Init => IInv
<1> SUFFICES ASSUME Init PROVE IInv
  OBVIOUS
<1>1. TypeOK
  <2>1. DOMAIN res = {}
    BY DEF Init
  <2>2. 0 \in 0..Len(Jobs) /\ jobqueue \in Seq(Job)
        /\ resultqueue \in Seq(Result)
    BY JobNumbers DEF Init
  <2> QED BY <2>1, <2>2 DEF Init, TypeOK
<1>2. Phases /\ Hands /\ Stopped /\ OnePlace /\ AllRun /\ OwnPlace
  BY DEF Init, Phases, Hands, Stopped, OnePlace, AllRun, OwnPlace
<1>3. Accounted
  BY JobNumbers DEF Init, Accounted
<1>4. Conservation
  <2>1. Held = {} /\ lost = {}
    BY DEF Init, Held
  <2> QED BY <2>1, JobNumbers, FS_EmptySet DEF Init, Conservation
<1> QED BY <1>1, <1>2, <1>3, <1>4 DEF IInv

(* The invariant holds in every state of every behaviour. *)
LEMMA Invariant == Spec => []IInv
<1>1. ASSUME IInv, [Next]_vars PROVE IInv'
  BY <1>1, TypeStep, BookStep, PlaceStep, AccountStep, ConservationStep,
     AllRunStep
  DEF IInv, Bookkeeping
<1> QED BY InitIInv, <1>1, PTL DEF Spec

-----------------------------------------------------------------------------
(* The variables of the pool keep their types: in particular the control   *)
(* process never makes a get() too many (manager.py:1631).                 *)
THEOREM TypeCorrect == Spec => []TypeOK
<1>1. IInv => TypeOK
  BY DEF IInv
<1> QED BY <1>1, Invariant, PTL

(* As many get() calls are to come as there are jobs unaccounted for       *)
(* (manager.py:1631-1646).                                                 *)
THEOREM NothingDisappears == Spec => []Conservation
<1>1. IInv => Conservation
  BY DEF IInv
<1> QED BY <1>1, Invariant, PTL

(* A command that returns has run every job and gives each basefile a      *)
(* result about it (manager.py:1642), whatever died.                       *)
THEOREM AnswersAreOwn == Spec => []OwnAnswers
<1>1. ASSUME IInv PROVE OwnAnswers
  <2>1. ASSUME NEW k \in Job, Answer[k] # 0
        PROVE  Jobs[Answer[k]].basefile = Jobs[k].basefile
    BY <1>1, <2>1 DEF IInv, OwnPlace, Answer
  <2> QED BY <1>1, <2>1 DEF IInv, AllRun, OwnAnswers
<1> QED BY <1>1, Invariant, PTL

(* The pool does what running one command promises (manager.py,            *)
(* _parallelizejobs): a job that ends is taken off those pending, and the  *)
(* command returns only with none of them.                                 *)
THEOREM Refinement == Spec => ImplementsCommandRun
<1>1. Init => Abstract!Init
  BY DEF Init, Abstract!Init
<1>2. ASSUME IInv, [Next]_vars PROVE [Abstract!Next]_(Abstract!vars)
  <2> USE DEF IInv, Phases, controlVars, Job
  <2>1. CASE UNCHANGED <<done, outcome>>
    BY <1>2, <2>1 DEF Abstract!vars
  <2>2. CASE TimeOut \/ \E r \in Range(resultqueue) : GetInterrupt(r)
    BY <1>2, <2>2 DEF TimeOut, GetInterrupt, Get, EndWith, Abstract!Next,
                Abstract!Raise
  <2>3. CASE Return
    BY <1>2, <2>3, NothingOutstanding
    DEF Return, EndWith, Abstract!Next, Abstract!Return
  <2>4. ASSUME NEW p \in Proc, NEW kind \in Kinds, Finish(p, kind)
        PROVE  [Abstract!Next]_(Abstract!vars)
    <3>1. outcome = "running" /\ outcome' = outcome
      BY <1>2, <2>4 DEF Finish, Hands, Stopped, TypeOK
    <3>2. PICK j \in hand[p] :
            done' = IF kind = "interrupt" THEN done ELSE done \cup {j}
      BY <2>4 DEF Finish
    <3>3. j \in Job
      BY <1>2 DEF TypeOK
    <3>4. CASE done' = done
      BY <3>1, <3>4 DEF Abstract!vars
    <3>5. CASE done' = done \cup {j} /\ j \notin done
      <4>1. Abstract!Run(j)
        BY <3>1, <3>3, <3>5 DEF Abstract!Run
      <4> QED BY <3>3, <4>1 DEF Abstract!Next
    <3>6. CASE done' = done \cup {j} /\ j \in done
      BY <3>1, <3>6 DEF Abstract!vars
    <3> QED BY <3>2, <3>4, <3>5, <3>6
  <2>5. Next => \/ UNCHANGED <<done, outcome>>
                \/ TimeOut \/ Return
                \/ \E r \in Range(resultqueue) : GetInterrupt(r)
                \/ \E p \in Proc, kind \in Kinds : Finish(p, kind)
    BY DEF Next, Control, ProcNext, Put, StartLoop, ReplaceDead, GetValue,
           GetUndecodable, Take, Die
  <2>6. CASE UNCHANGED vars
    BY <2>6 DEF vars, Abstract!vars
  <2> QED BY <1>2, <2>1, <2>2, <2>3, <2>4, <2>5, <2>6
<1> QED BY <1>1, <1>2, Invariant, PTL
        DEF Spec, ImplementsCommandRun, Abstract!Spec
=============================================================================
