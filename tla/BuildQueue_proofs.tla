-------------------------- MODULE BuildQueue_proofs --------------------------
(***************************************************************************)
(* Theorems about BuildQueue for any number of commands, documents and     *)
(* workers, any number of deaths, and both kinds of queue server.          *)
(***************************************************************************)
EXTENDS BuildQueue, SequenceTheorems, FiniteSetTheorems, TLAPS

(* What get() takes from a queue was in the queue, and so is what it leaves. *)
LEMMA HeadTail ==
  ASSUME NEW S, NEW s \in Seq(S), s # <<>>
  PROVE  /\ Head(s) \in S
         /\ Tail(s) \in Seq(S)
         /\ Head(s) \in Range(s)
         /\ Range(Tail(s)) \subseteq Range(s)
  <1>1. /\ Len(s) \in Nat \ {0}
        /\ Head(s) = s[1]
        /\ Tail(s) \in Seq(S)
        /\ Len(Tail(s)) = Len(s) - 1
        /\ \A i \in 1..Len(Tail(s)) : Tail(s)[i] = s[i + 1]
    OBVIOUS
  <1>2. DOMAIN s = 1..Len(s) /\ DOMAIN Tail(s) = 1..Len(Tail(s))
    BY <1>1
  <1>. QED
    BY <1>1, <1>2 DEF Range

(* What a queue holds after an element was put. *)
LEMMA AppendRange ==
  ASSUME NEW S, NEW s \in Seq(S), NEW e \in S
  PROVE  /\ Append(s, e) \in Seq(S)
         /\ Range(Append(s, e)) = Range(s) \cup {e}
  <1>1. /\ Append(s, e) \in Seq(S)
        /\ Len(Append(s, e)) = Len(s) + 1
        /\ Append(s, e)[Len(s) + 1] = e
        /\ \A i \in 1..Len(s) : Append(s, e)[i] = s[i]
    OBVIOUS
  <1>2. DOMAIN s = 1..Len(s) /\ DOMAIN Append(s, e) = 1..(Len(s) + 1)
    BY <1>1
  <1>3. Len(s) \in Nat
    OBVIOUS
  <1>. QED
    BY <1>1, <1>2, <1>3 DEF Range

(* Putting an answer is appending one result. *)
LEMMA AnswerAppended ==
  ASSUME NEW s \in Seq(Result), NEW j \in Job,
         NEW kind \in {"value", "interrupt", "catastrophe"}
  PROVE  s \o Answer(j, kind) = Append(s, [job |-> j, kind |-> kind])
  BY DEF Answer, Result

(* The commands are numbered from 1. *)
LEMMA StepFacts ==
  /\ Step = 1..Len(Plan)
  /\ Len(Plan) \in Nat \ {0}
  /\ 1 \in Step
  /\ \A i \in Step : i # Len(Plan) => i + 1 \in Step
  /\ \A i \in Step : Plan[i].alias \in Alias /\ Plan[i].docs \subseteq Doc
  <1>1. Plan \in Seq([alias : Alias, docs : SUBSET Doc]) /\ Plan # <<>>
    BY PlanAssumption
  <1>2. Len(Plan) \in Nat \ {0} /\ Step = 1..Len(Plan)
    BY <1>1 DEF Step
  <1>3. Plan \in [1..Len(Plan) -> [alias : Alias, docs : SUBSET Doc]]
    BY <1>1, LenProperties
  <1>4. \A i \in Step : Plan[i].alias \in Alias /\ Plan[i].docs \subseteq Doc
    BY <1>2, <1>3
  <1>. QED
    BY <1>2, <1>4

(* Ending a command keeps the types of what it writes. *)
LEMMA EndCommandType ==
  ASSUME TypeOK, NEW v \in Verdict, EndCommand(v)
  PROVE  /\ step' \in Step
         /\ phase' \in {"setup", "put", "collect", "over"}
         /\ unput' \subseteq Doc
         /\ processing' \subseteq Alias \X Doc
         /\ verdict' \in [Step -> Verdict]
  BY StepFacts DEF TypeOK, EndCommand, LastCommand

-----------------------------------------------------------------------------
(* Type correctness. *)

LEMMA TypeInit == Init => TypeOK
  <1> SUFFICES ASSUME Init
               PROVE  TypeOK
    OBVIOUS
  <1>1. res \in [Step -> Seq(Result)]
    BY DEF Init
  <1>2. jobqueue \in Seq(Job) /\ resultqueue \in Seq(Result)
    BY DEF Init
  <1>3. /\ step \in Step /\ verdict \in [Step -> Verdict]
        /\ hand \in [Worker -> SUBSET Job]
    BY StepFacts DEF Init, Verdict
  <1>. QED
    BY <1>1, <1>2, <1>3 DEF Init, TypeOK

LEMMA ReceiveType ==
  ASSUME TypeOK, NEW r \in Range(resultqueue), Get(r)
  PROVE  /\ r \in Result
         /\ r.job \in Job
         /\ resultqueue' \in Seq(Result)
         /\ alarm' \in BOOLEAN
         /\ Kept(r) \in [Step -> Seq(Result)]
  <1>1. r \in Result /\ resultqueue' \in Seq(Result)
    BY HeadTail DEF TypeOK, Get
  <1>2. Kept(r) \in [Step -> Seq(Result)]
    BY <1>1, AppendRange DEF Kept, TypeOK
  <1>. QED
    BY <1>1, <1>2 DEF Get, Result

LEMMA TypeServer == TypeOK /\ ServerNext => TypeOK'
  <1> SUFFICES ASSUME TypeOK, ServerNext
               PROVE  TypeOK'
    OBVIOUS
  <1>1. CASE NothingToDo
    BY <1>1, EndCommandType
       DEF NothingToDo, TypeOK, Verdict, workerVars, orphans
  <1>2. CASE SetUp
    BY <1>2, StepFacts DEF SetUp, TypeOK, workerVars, orphans
  <1>3. ASSUME NEW d \in Doc, PutJob(d)
        PROVE  TypeOK'
    <2>1. [step |-> step, doc |-> d] \in Job
      BY DEF TypeOK, Job
    <2>2. jobqueue' \in Seq(Job)
      BY <1>3, <2>1, AppendRange DEF PutJob, TypeOK
    <2>3. processing' \subseteq Alias \X Doc
      BY <1>3, StepFacts DEF PutJob, Key, TypeOK
    <2>. QED
      BY <1>3, <2>2, <2>3 DEF PutJob, TypeOK, workerVars, orphans
  <1>4. CASE NoJobs
    BY <1>4, EndCommandType DEF NoJobs, TypeOK, Verdict, workerVars, orphans
  <1>5. CASE StartCollect
    BY <1>5 DEF StartCollect, TypeOK, workerVars, orphans
  <1>6. ASSUME NEW r \in Range(resultqueue), ReceiveValue(r)
        PROVE  TypeOK'
    BY <1>6, ReceiveType DEF ReceiveValue, TypeOK, workerVars, orphans
  <1>7. ASSUME NEW r \in Range(resultqueue), ReceiveCatastrophe(r)
        PROVE  TypeOK'
    BY <1>7, ReceiveType, EndCommandType
       DEF ReceiveCatastrophe, TypeOK, Verdict, workerVars, orphans
  <1>8. ASSUME NEW r \in Range(resultqueue), ReceiveInterrupt(r)
        PROVE  TypeOK'
    BY <1>8, ReceiveType
       DEF ReceiveInterrupt, TypeOK, Verdict, workerVars, orphans
  <1>9. CASE GiveUp
    <2>1. orphanGets \in Nat /\ orphanGets' = orphanGets + 1
      BY <1>9, Zenon DEF GiveUp, TypeOK
    <2>2. orphanGets' \in Nat
      BY <2>1
    <2>. QED
      BY <1>9, <2>2, EndCommandType DEF GiveUp, TypeOK, Verdict, workerVars
  <1>10. CASE Return
    BY <1>10, EndCommandType DEF Return, TypeOK, Verdict, workerVars, orphans
  <1>11. CASE StrayAlarm
    BY <1>11, EndCommandType
       DEF StrayAlarm, TypeOK, Verdict, workerVars, orphans
  <1>. QED
    BY <1>1, <1>2, <1>3, <1>4, <1>5, <1>6, <1>7, <1>8, <1>9, <1>10, <1>11
       DEF ServerNext, Receive

LEMMA TypeWorker ==
  ASSUME TypeOK, NEW w \in Worker, WorkerNext(w)
  PROVE  TypeOK'
  <1>1. CASE Take(w)
    BY <1>1, HeadTail DEF Take, TypeOK, serverVars, orphans
  <1>2. ASSUME NEW kind \in {"value", "interrupt", "catastrophe"}, Finish(w, kind)
        PROVE  TypeOK'
    <2>1. PICK j \in hand[w] :
            /\ resultqueue' = resultqueue \o Answer(j, kind)
            /\ done' = IF kind = "interrupt" THEN done ELSE done \cup {j}
      BY <1>2 DEF Finish
    <2>2. j \in Job
      BY DEF TypeOK
    <2>3. resultqueue' \in Seq(Result)
      <3>1. resultqueue \in Seq(Result)
        BY DEF TypeOK
      <3>2. [job |-> j, kind |-> kind] \in Result
        BY <2>2 DEF Result
      <3>. QED
        BY <2>1, <2>2, <3>1, <3>2, AnswerAppended, AppendRange
    <2>. QED
      BY <1>2, <2>1, <2>2, <2>3 DEF Finish, TypeOK, serverVars, orphans
  <1>3. CASE Die(w)
    BY <1>3 DEF Die, TypeOK, serverVars, orphans
  <1>4. CASE Join(w)
    BY <1>4 DEF Join, TypeOK, serverVars, orphans
  <1>5. CASE Leave(w)
    BY <1>5 DEF Leave, TypeOK, serverVars, orphans
  <1>. QED
    BY <1>1, <1>2, <1>3, <1>4, <1>5 DEF WorkerNext

LEMMA TypeLoseJob == TypeOK /\ LoseJob => TypeOK'
  <1> SUFFICES ASSUME TypeOK, LoseJob
               PROVE  TypeOK'
    OBVIOUS
  <1>1. jobqueue' \in Seq(Job)
    BY HeadTail DEF LoseJob, TypeOK
  <1>. QED
    BY <1>1 DEF LoseJob, TypeOK, serverVars, workerVars

LEMMA TypeLoseResult == TypeOK /\ LoseResult => TypeOK'
  <1> SUFFICES ASSUME TypeOK, LoseResult
               PROVE  TypeOK'
    OBVIOUS
  <1>1. resultqueue' \in Seq(Result)
    BY HeadTail DEF LoseResult, TypeOK
  <1>. QED
    BY <1>1 DEF LoseResult, TypeOK, serverVars, workerVars

LEMMA TypeStep == TypeOK /\ [Next]_vars => TypeOK'
  <1>1. TypeOK /\ UNCHANGED vars => TypeOK'
    BY DEF TypeOK, vars
  <1>. QED
    BY <1>1, TypeServer, TypeWorker, TypeLoseJob, TypeLoseResult DEF Next

(* The variables of _queue_jobs and of the worker processes keep their     *)
(* types, whatever is abandoned, dies, or is lost by the queue server.     *)
THEOREM TypeCorrect == Spec => []TypeOK
  BY TypeInit, TypeStep, PTL DEF Spec

-----------------------------------------------------------------------------
(* The inductive invariant, in parts. *)

(* What is put and waited for in each phase of a command. *)
Phases ==
  /\ unput \subseteq Plan[step].docs
  /\ phase # "put" => unput = {}
  /\ phase \notin {"put", "collect"} => processing = {}

(* Only so many results are waited for as jobs were put. *)
FinitelyMany == IsFiniteSet(processing)

(* Only commands that are over have a verdict. *)
Verdicts ==
  \A i \in Step : verdict[i] # "pending" => i < step \/ (i = step /\ phase = "over")

(* No job is about, or has been run, before _queue_jobs has put it. *)
JobsBegun ==
  \A j \in InFlight \cup done :
    /\ j.doc \in Plan[j.step].docs
    /\ j.step <= step
    /\ j.step = step => phase # "setup" /\ j.doc \notin unput

(* A queue of results with at most one result of each job. *)
JobsOnce(q) == \A m, n \in DOMAIN q : q[m].job = q[n].job => m = n

(* A job is in one place only, its result included. *)
OnePlace ==
  /\ NoJobRunTwice
  /\ JobsOnce(resultqueue)
  /\ Answered \cap (Queued \cup Held) = {}
  /\ \A w \in Worker : \A j, k \in hand[w] : j = k

(* A result that is not an interrupt is the result of a job that was run. *)
AnswersDone ==
  \A r \in Range(resultqueue) : r.kind # "interrupt" => r.job \in done

(* Nothing has been collected for commands that have not begun. *)
NotBegun ==
  \A i \in Step : i > step \/ (i = step /\ phase = "setup") => res[i] = <<>>

(* A command i that was not abandoned, nor was one of its repository       *)
(* before it.                                                              *)
Settled(i) == verdict[i] \in {"returned", "nothing"} /\ Clean(i)

(* No straggler of a settled command is about. *)
NoStragglers ==
  \A i \in Step : Settled(i) => \A j \in InFlight : j.step # i

(* The bookkeeping of a clean command while it waits: each document whose  *)
(* job was put is either waited for or has its one result, and every job   *)
(* of it still in flight is waited for.                                    *)
Bookkeeping ==
  phase \in {"put", "collect"} /\ Clean(step) =>
    /\ processing \subseteq {<<Plan[step].alias, d>> : d \in Plan[step].docs \ unput}
    /\ \A j \in InFlight : j.step = step => Key(j) \in processing
    /\ \A r \in Range(res[step]) :
         r.job.step = step /\ r.job \in done /\ Key(r.job) \notin processing
    /\ \A d \in Plan[step].docs \ unput :
         \/ <<Plan[step].alias, d>> \in processing
         \/ [step |-> step, doc |-> d] \in {r.job : r \in Range(res[step])}
    /\ Len(res[step]) + Cardinality(processing)
         = Cardinality(Plan[step].docs \ unput)

(* The whole. *)
IInv ==
  /\ TypeOK /\ Phases /\ FinitelyMany /\ Verdicts
  /\ JobsBegun /\ OnePlace /\ AnswersDone
  /\ NotBegun /\ NoStragglers /\ Bookkeeping /\ CleanCommandComplete

-----------------------------------------------------------------------------
(* What the steps do to jobs and commands. *)

LEMMA EndCommandFacts ==
  ASSUME TypeOK, NEW v \in Verdict, EndCommand(v)
  PROVE  /\ verdict' = [verdict EXCEPT ![step] = v]
         /\ processing' = {}
         /\ unput' = {}
         /\ \/ step' = step /\ phase' = "over"
            \/ step' = step + 1 /\ step' \in Step /\ phase' = "setup"
  BY StepFacts DEF TypeOK, EndCommand, LastCommand

(* A command ends other than by returning. *)
Aborts ==
  /\ phase # "over"
  /\ \E v \in {"raised", "gaveup"} : EndCommand(v)
  /\ UNCHANGED <<jobqueue, res, hand, done>>
  /\ \/ resultqueue' = resultqueue
     \/ resultqueue # <<>> /\ resultqueue' = Tail(resultqueue)

LEMMA ServerCases ==
  ASSUME ServerNext
  PROVE  \/ NothingToDo \/ SetUp \/ NoJobs \/ StartCollect \/ Return \/ Aborts
         \/ \E d \in Doc : PutJob(d)
         \/ \E r \in Range(resultqueue) : ReceiveValue(r) \/ ReceiveInterrupt(r)
  <1>1. ASSUME NEW r \in Range(resultqueue), ReceiveCatastrophe(r)
        PROVE  Aborts
    BY <1>1 DEF ReceiveCatastrophe, Get, Aborts, workerVars
  <1>2. GiveUp => Aborts
    BY DEF GiveUp, Aborts, workerVars
  <1>3. StrayAlarm => Aborts
    BY DEF StrayAlarm, Aborts, workerVars
  <1>. QED
    BY <1>1, <1>2, <1>3 DEF ServerNext, Receive

(* A result is taken from the queue. *)
LEMMA ResultTaken ==
  ASSUME TypeOK, resultqueue # <<>>, resultqueue' = Tail(resultqueue)
  PROVE  /\ Range(resultqueue') \subseteq Range(resultqueue)
         /\ Answered' \subseteq Answered
         /\ JobsOnce(resultqueue) =>
               /\ JobsOnce(resultqueue')
               /\ Head(resultqueue).job \notin Answered'
  <1>1. /\ Len(resultqueue) \in Nat \ {0}
        /\ Head(resultqueue) = resultqueue[1]
        /\ DOMAIN resultqueue = 1..Len(resultqueue)
        /\ DOMAIN resultqueue' = 1..(Len(resultqueue) - 1)
        /\ \A i \in 1..(Len(resultqueue) - 1) : resultqueue'[i] = resultqueue[i + 1]
    BY HeadTailProperties, LenProperties DEF TypeOK
  <1>2. Range(resultqueue') \subseteq Range(resultqueue)
    BY <1>1 DEF Range
  <1>3. Answered' \subseteq Answered
    BY <1>2 DEF Answered
  <1>4. ASSUME JobsOnce(resultqueue)
        PROVE  JobsOnce(resultqueue')
    BY <1>1, <1>4 DEF JobsOnce
  <1>5. ASSUME JobsOnce(resultqueue)
        PROVE  Head(resultqueue).job \notin Answered'
    BY <1>1, <1>5 DEF JobsOnce, Answered, Range
  <1>. QED
    BY <1>2, <1>3, <1>4, <1>5

(* A job is taken from the queue. *)
LEMMA JobTaken ==
  ASSUME TypeOK, jobqueue # <<>>, jobqueue' = Tail(jobqueue)
  PROVE  /\ Queued' \subseteq Queued
         /\ Head(jobqueue) \in Queued
         /\ Queued \subseteq Queued' \cup {Head(jobqueue)}
         /\ IsInjective(jobqueue) =>
               /\ IsInjective(jobqueue')
               /\ Head(jobqueue) \notin Queued'
  <1>1. /\ Len(jobqueue) \in Nat \ {0}
        /\ Head(jobqueue) = jobqueue[1]
        /\ DOMAIN jobqueue = 1..Len(jobqueue)
        /\ DOMAIN jobqueue' = 1..(Len(jobqueue) - 1)
        /\ \A i \in 1..(Len(jobqueue) - 1) : jobqueue'[i] = jobqueue[i + 1]
    BY HeadTailProperties, LenProperties DEF TypeOK
  <1>2. Queued' \subseteq Queued /\ Head(jobqueue) \in Queued
    BY <1>1 DEF Queued, Range
  <1>3. \A i \in DOMAIN jobqueue :
          i = 1 \/ (i - 1 \in DOMAIN jobqueue' /\ jobqueue'[i - 1] = jobqueue[i])
    BY <1>1
  <1>4. Queued \subseteq Queued' \cup {Head(jobqueue)}
    BY <1>1, <1>3 DEF Queued, Range
  <1>5. ASSUME IsInjective(jobqueue)
        PROVE  IsInjective(jobqueue') /\ Head(jobqueue) \notin Queued'
    BY <1>1, <1>5 DEF IsInjective, Queued, Range
  <1>. QED
    BY <1>2, <1>4, <1>5
(* A job is put. *)
LEMMA JobPut ==
  ASSUME TypeOK, NEW d \in Doc, PutJob(d)
  PROVE  /\ [step |-> step, doc |-> d] \in Job
         /\ Queued' = Queued \cup {[step |-> step, doc |-> d]}
         /\ IsInjective(jobqueue) /\ [step |-> step, doc |-> d] \notin Queued
              => IsInjective(jobqueue')
         /\ UNCHANGED <<resultqueue, hand, done>>
  <1> DEFINE j == [step |-> step, doc |-> d]
  <1>1. j \in Job /\ jobqueue \in Seq(Job) /\ jobqueue' = Append(jobqueue, j)
    BY DEF TypeOK, Job, PutJob
  <1>2. Queued' = Queued \cup {j}
    BY <1>1, AppendRange DEF Queued
  <1>3. /\ Len(jobqueue) \in Nat
        /\ DOMAIN jobqueue = 1..Len(jobqueue)
        /\ DOMAIN jobqueue' = 1..(Len(jobqueue) + 1)
        /\ jobqueue'[Len(jobqueue) + 1] = j
        /\ \A i \in 1..Len(jobqueue) : jobqueue'[i] = jobqueue[i]
    BY <1>1, LenProperties
  <1>4. ASSUME IsInjective(jobqueue), j \notin Queued
        PROVE  IsInjective(jobqueue')
    BY <1>3, <1>4 DEF IsInjective, Queued, Range
  <1>5. UNCHANGED <<resultqueue, hand, done>>
    BY DEF PutJob, workerVars
  <1>. QED
    BY <1>1, <1>2, <1>4, <1>5

(* A result is put. *)
LEMMA ResultPut ==
  ASSUME TypeOK, NEW j \in Job, NEW kind \in {"value", "interrupt", "catastrophe"},
         resultqueue' = resultqueue \o Answer(j, kind)
  PROVE  /\ Range(resultqueue') = Range(resultqueue) \cup {[job |-> j, kind |-> kind]}
         /\ Answered' = Answered \cup {j}
         /\ JobsOnce(resultqueue) /\ j \notin Answered => JobsOnce(resultqueue')
  <1> DEFINE r == [job |-> j, kind |-> kind]
  <1>1. r \in Result /\ resultqueue \in Seq(Result)
    BY DEF TypeOK, Result
  <1>2. resultqueue' = Append(resultqueue, r)
    BY <1>1, AnswerAppended
  <1>3. Range(resultqueue') = Range(resultqueue) \cup {r}
    BY <1>1, <1>2, AppendRange
  <1>4. Answered' = Answered \cup {j}
    <2>1. r.job = j
      OBVIOUS
    <2> HIDE DEF r
    <2>. QED
      BY <1>3, <2>1 DEF Answered
  <1>5. /\ Len(resultqueue) \in Nat
        /\ DOMAIN resultqueue = 1..Len(resultqueue)
        /\ DOMAIN resultqueue' = 1..(Len(resultqueue) + 1)
        /\ resultqueue'[Len(resultqueue) + 1] = r
        /\ \A i \in 1..Len(resultqueue) : resultqueue'[i] = resultqueue[i]
    BY <1>1, <1>2, LenProperties
  <1>6. ASSUME JobsOnce(resultqueue), j \notin Answered
        PROVE  JobsOnce(resultqueue')
    BY <1>5, <1>6 DEF JobsOnce, Answered, Range
  <1>. QED
    BY <1>3, <1>4, <1>6

(* The control process makes no jobs but by putting them. *)
LEMMA ServerFlow ==
  ASSUME TypeOK, ServerNext
  PROVE  /\ UNCHANGED <<hand, done>>
         /\ Held' = Held
         /\ Range(resultqueue') \subseteq Range(resultqueue)
         /\ Answered' \subseteq Answered
         /\ JobsOnce(resultqueue) => JobsOnce(resultqueue')
         /\ \/ jobqueue' = jobqueue /\ Queued' = Queued
            \/ \E d \in Doc : PutJob(d)
  <1>1. UNCHANGED <<hand, done>>
    BY ServerCases
       DEF NothingToDo, SetUp, NoJobs, StartCollect, Return, Aborts,
           PutJob,
         ReceiveValue, ReceiveInterrupt, workerVars
  <1>2. jobqueue' = jobqueue \/ \E d \in Doc : PutJob(d)
    BY ServerCases
       DEF NothingToDo, SetUp, NoJobs, StartCollect, Return, Aborts,
         ReceiveValue, ReceiveInterrupt
  <1>3. \/ resultqueue' = resultqueue
        \/ resultqueue # <<>> /\ resultqueue' = Tail(resultqueue)
    BY ServerCases
       DEF NothingToDo, SetUp, NoJobs, StartCollect, Return, Aborts,
           PutJob,
         ReceiveValue, ReceiveInterrupt, Get
  <1>4. /\ Range(resultqueue') \subseteq Range(resultqueue)
        /\ Answered' \subseteq Answered
        /\ JobsOnce(resultqueue) => JobsOnce(resultqueue')
    BY <1>3, ResultTaken DEF Answered
  <1>. QED
    BY <1>1, <1>2, <1>4 DEF Held, Queued

(* The workers and the queue server. *)
OthersNext == (\E w \in Worker : WorkerNext(w)) \/ LoseJob \/ LoseResult

(* Workers and queue server make no jobs: they move and lose them.  A job  *)
(* that has newly been run was held before.                                *)
LEMMA OthersFlow ==
  ASSUME TypeOK, OthersNext
  PROVE  /\ UNCHANGED serverVars
         /\ InFlight' \subseteq InFlight
         /\ done \subseteq done'
         /\ done' \subseteq done \cup Held
  <1>1. ASSUME NEW w \in Worker, Take(w)
        PROVE  /\ UNCHANGED serverVars /\ done' = done
               /\ InFlight' \subseteq InFlight
    <2>1. Queued' \subseteq Queued /\ Head(jobqueue) \in Queued
      BY <1>1, JobTaken DEF Take
    <2>2. Held' \subseteq Held \cup {Head(jobqueue)}
      BY <1>1 DEF Take, Held, TypeOK
    <2>. QED
      BY <1>1, <2>1, <2>2 DEF Take, InFlight, Answered
  <1>2. ASSUME NEW w \in Worker, NEW kind \in {"value", "interrupt", "catastrophe"},
               Finish(w, kind)
        PROVE  /\ UNCHANGED serverVars /\ done \subseteq done'
               /\ done' \subseteq done \cup Held
               /\ InFlight' \subseteq InFlight
    <2>1. PICK j \in hand[w] :
            /\ resultqueue' = resultqueue \o Answer(j, kind)
            /\ done' = IF kind = "interrupt" THEN done ELSE done \cup {j}
      BY <1>2 DEF Finish
    <2>2. j \in Job /\ j \in Held
      BY DEF TypeOK, Held
    <2>3. Answered' = Answered \cup {j}
      BY <2>1, <2>2, ResultPut
    <2>4. Held' \subseteq Held /\ Queued' = Queued
      BY <1>2 DEF Finish, Held, TypeOK, Queued
    <2>. QED
      BY <1>2, <2>1, <2>2, <2>3, <2>4 DEF Finish, InFlight
  <1>3. ASSUME NEW w \in Worker, Die(w) \/ Join(w) \/ Leave(w)
        PROVE  /\ UNCHANGED serverVars /\ done \subseteq done'
               /\ done' \subseteq done \cup Held
               /\ InFlight' \subseteq InFlight
    <2>1. hand' = hand \/ hand' = [hand EXCEPT ![w] = {}]
      BY <1>3 DEF Die, Join, Leave
    <2>2. Held' \subseteq Held /\ hand[w] \subseteq Held
      BY <2>1 DEF Held, TypeOK
    <2>3. UNCHANGED <<jobqueue, resultqueue>>
      BY <1>3 DEF Die, Join, Leave
    <2>4. InFlight' \subseteq InFlight
      BY <2>2, <2>3 DEF InFlight, Queued, Answered
    <2>5. UNCHANGED serverVars /\ (done' = done \/ done' = done \cup hand[w])
      BY <1>3 DEF Die, Join, Leave
    <2>. QED
      BY <2>2, <2>4, <2>5
  <1>4. ASSUME LoseJob
        PROVE  UNCHANGED serverVars /\ done' = done /\ InFlight' \subseteq InFlight
    BY <1>4, JobTaken DEF LoseJob, InFlight, Held, Answered, workerVars
  <1>5. ASSUME LoseResult
        PROVE  UNCHANGED serverVars /\ done' = done /\ InFlight' \subseteq InFlight
    BY <1>5, ResultTaken DEF LoseResult, InFlight, Held, Queued, workerVars
  <1>. QED
    BY <1>1, <1>2, <1>3, <1>4, <1>5 DEF OthersNext, WorkerNext
-----------------------------------------------------------------------------
(* The parts of the invariant. *)

LEMMA InvInit == Init => IInv
  <1> SUFFICES ASSUME Init
               PROVE  IInv
    OBVIOUS
  <1>1. TypeOK
    BY TypeInit
  <1>2. Queued = {} /\ Held = {} /\ Answered = {} /\ done = {}
    BY DEF Init, Queued, Held, Answered, Range
  <1>3. Phases /\ Verdicts /\ NotBegun /\ CleanCommandComplete
    BY <1>1 DEF Init, Phases, Verdicts, NotBegun, CleanCommandComplete, Step
  <1>4. JobsBegun /\ NoStragglers /\ Bookkeeping
    BY <1>2 DEF Init, JobsBegun, InFlight, NoStragglers, Bookkeeping
  <1>5. OnePlace /\ AnswersDone
    BY <1>2
       DEF Init, OnePlace, NoJobRunTwice, IsInjective, JobsOnce,
           AnswersDone, Range
  <1>6. FinitelyMany
    BY FS_EmptySet DEF Init, FinitelyMany
  <1>. QED
    BY <1>1, <1>3, <1>4, <1>5, <1>6 DEF IInv

LEMMA PhasesServer ==
  ASSUME TypeOK, Phases, Verdicts, ServerNext
  PROVE  Phases' /\ Verdicts'
  <1>1. ASSUME NEW v \in Verdict, EndCommand(v)
        PROVE  Phases' /\ Verdicts'
    <2>1. Phases'
      BY <1>1, EndCommandFacts DEF Phases
    <2>2. ASSUME NEW i \in Step, verdict'[i] # "pending"
          PROVE  i < step' \/ (i = step' /\ phase' = "over")
      <3>1. i = step \/ i < step
        BY <1>1, <2>2, EndCommandFacts DEF Verdicts, TypeOK
      <3>2. step \in Nat /\ i \in Nat
        BY StepFacts DEF TypeOK
      <3>. QED
        BY <1>1, <3>1, <3>2, EndCommandFacts
    <2>. QED
      BY <2>1, <2>2 DEF Verdicts
  <1>2. CASE SetUp
    BY <1>2 DEF SetUp, Phases, Verdicts
  <1>3. ASSUME NEW d \in Doc, PutJob(d)
        PROVE  Phases' /\ Verdicts'
    BY <1>3 DEF PutJob, Phases, Verdicts
  <1>4. CASE StartCollect
    BY <1>4 DEF StartCollect, Phases, Verdicts
  <1>5. ASSUME NEW r \in Range(resultqueue), ReceiveValue(r)
        PROVE  Phases' /\ Verdicts'
    BY <1>5 DEF ReceiveValue, Get, Phases, Verdicts
  <1>6. ASSUME NEW r \in Range(resultqueue), ReceiveInterrupt(r)
        PROVE  Phases' /\ Verdicts'
    BY <1>6 DEF ReceiveInterrupt, Get, Phases, Verdicts, TypeOK
  <1>. QED
    BY <1>1, <1>2, <1>3, <1>4, <1>5, <1>6, ServerCases
       DEF NothingToDo, NoJobs, Return, Aborts, Verdict

LEMMA FinitelyManyServer ==
  ASSUME TypeOK, FinitelyMany, ServerNext
  PROVE  FinitelyMany'
  <1>1. \/ processing' \in {processing, {}}
        \/ \E k : processing' = processing \cup {k} \/ processing' = processing \ {k}
    BY ServerCases, EndCommandFacts
       DEF NothingToDo, SetUp, NoJobs, StartCollect, Return, Aborts, PutJob,
           ReceiveValue, ReceiveInterrupt, Verdict
  <1>. QED
    BY <1>1, FS_EmptySet, FS_AddElement, FS_RemoveElement DEF FinitelyMany

LEMMA JobTypes ==
  ASSUME TypeOK
  PROVE  \A j \in InFlight \cup done :
           /\ j \in Job /\ j.step \in Step /\ j.step \in Nat /\ j.doc \in Doc
           /\ j = [step |-> j.step, doc |-> j.doc]
  <1>1. Queued \subseteq Job
    BY RangeOfSeq DEF TypeOK, Queued
  <1>2. Range(resultqueue) \subseteq Result
    BY RangeOfSeq DEF TypeOK
  <1>3. Held \subseteq Job /\ Answered \subseteq Job /\ done \subseteq Job
    BY <1>2 DEF TypeOK, Held, Answered, Result
  <1>. QED
    BY <1>1, <1>3, StepFacts DEF InFlight, Job

LEMMA JobsBegunServer ==
  ASSUME TypeOK, Phases, JobsBegun, ServerNext
  PROVE  JobsBegun'
  <1>1. \A j \in InFlight \cup done : j \in Job /\ j.step \in Nat
    BY JobTypes
  <1>2. step \in Nat
    BY StepFacts DEF TypeOK
  <1>3. CASE \E v \in Verdict : EndCommand(v) /\ InFlight' \subseteq InFlight /\ done' = done
    BY <1>1, <1>2, <1>3, EndCommandFacts DEF JobsBegun
  <1>4. CASE SetUp
    <2>1. InFlight' = InFlight /\ done' = done
      BY <1>4 DEF SetUp, workerVars, InFlight, Queued, Held, Answered
    <2>. QED
      BY <1>1, <1>2, <1>4, <2>1 DEF SetUp, JobsBegun
  <1>5. ASSUME NEW d \in Doc, PutJob(d)
        PROVE  JobsBegun'
    <2>1. /\ InFlight' = InFlight \cup {[step |-> step, doc |-> d]}
          /\ done' = done
      BY <1>5, JobPut DEF InFlight, Held, Answered
    <2>2. /\ d \in Plan[step].docs /\ step' = step /\ phase' = "put"
          /\ unput' = unput \ {d}
      BY <1>5 DEF PutJob, Phases
    <2>. QED
      BY <1>1, <1>2, <2>1, <2>2 DEF JobsBegun
  <1>6. CASE /\ phase' # "setup" /\ UNCHANGED <<step, unput, done>>
             /\ InFlight' \subseteq InFlight /\ phase # "setup"
    BY <1>6 DEF JobsBegun
  <1>7. (InFlight' \subseteq InFlight /\ done' = done) \/ \E d \in Doc : PutJob(d)
    BY ServerFlow DEF InFlight
  <1>8. StartCollect \/ (\E r \in Range(resultqueue) : ReceiveValue(r) \/ ReceiveInterrupt(r))
          => phase # "setup" /\ phase' # "setup" /\ UNCHANGED <<step, unput>>
    BY DEF StartCollect, ReceiveValue, ReceiveInterrupt, Get
  <1>9. NothingToDo \/ NoJobs \/ Return \/ Aborts => \E v \in Verdict : EndCommand(v)
    BY DEF NothingToDo, NoJobs, Return, Aborts, Verdict
  <1>. QED
    BY <1>3, <1>4, <1>5, <1>6, <1>7, <1>8, <1>9, ServerCases
LEMMA OnePlaceServer ==
  ASSUME TypeOK, JobsBegun, OnePlace, ServerNext
  PROVE  OnePlace'
  <1>1. CASE jobqueue' = jobqueue
    BY <1>1, ServerFlow DEF OnePlace, NoJobRunTwice, Queued
  <1>2. ASSUME NEW d \in Doc, PutJob(d)
        PROVE  OnePlace'
    <2> DEFINE j == [step |-> step, doc |-> d]
    <2>1. j \notin InFlight \cup done
      BY <1>2 DEF PutJob, JobsBegun
    <2>2. Queued' = Queued \cup {j} /\ IsInjective(jobqueue')
      BY <1>2, <2>1, JobPut DEF OnePlace, NoJobRunTwice, InFlight
    <2>3. UNCHANGED <<Held, Answered, resultqueue, hand, done>>
      BY <1>2, JobPut DEF Held, Answered
    <2>. QED
      BY <2>1, <2>2, <2>3 DEF OnePlace, NoJobRunTwice, InFlight
  <1>. QED
    BY <1>1, <1>2, ServerFlow

LEMMA OnePlaceOthers ==
  ASSUME TypeOK, OnePlace, OthersNext
  PROVE  OnePlace'
  <1>1. ASSUME NEW w \in Worker, Take(w)
        PROVE  OnePlace'
    <2> DEFINE h == Head(jobqueue)
    <2>1. /\ Queued' \subseteq Queued
          /\ h \in Queued /\ h \notin Queued'
          /\ IsInjective(jobqueue')
      BY <1>1, JobTaken DEF Take, OnePlace, NoJobRunTwice
    <2>2. /\ hand[w] = {}
          /\ hand' = [hand EXCEPT ![w] = {h}]
          /\ UNCHANGED <<resultqueue, done>>
      BY <1>1 DEF Take
    <2>3. Held' \subseteq Held \cup {h} /\ Answered' = Answered
      BY <2>2 DEF Held, TypeOK, Answered
    <2>4. \A v \in Worker : v # w => hand'[v] = hand[v] /\ h \notin hand[v]
      BY <2>1, <2>2 DEF OnePlace, NoJobRunTwice, Held, TypeOK
    <2>5. hand'[w] = {h}
      BY <2>2 DEF TypeOK
    <2>. QED
      BY <2>1, <2>2, <2>3, <2>4, <2>5 DEF OnePlace, NoJobRunTwice
  <1>2. ASSUME NEW w \in Worker, NEW kind \in {"value", "interrupt", "catastrophe"},
               Finish(w, kind)
        PROVE  OnePlace'
    <2>1. PICK j \in hand[w] :
            /\ resultqueue' = resultqueue \o Answer(j, kind)
            /\ done' = IF kind = "interrupt" THEN done ELSE done \cup {j}
      BY <1>2 DEF Finish
    <2>2. j \in Job /\ j \in Held
      BY DEF TypeOK, Held
    <2>3. Answered' = Answered \cup {j} /\ JobsOnce(resultqueue')
      BY <2>1, <2>2, ResultPut DEF OnePlace
    <2>4. hand' = [hand EXCEPT ![w] = {}] /\ jobqueue' = jobqueue
      BY <1>2 DEF Finish
    <2>5. Held' \subseteq Held /\ j \notin Held' /\ Queued' = Queued
      BY <2>4 DEF OnePlace, NoJobRunTwice, Held, TypeOK, Queued
    <2>6. \A v \in Worker : hand'[v] \subseteq hand[v]
      BY <2>4 DEF TypeOK
    <2>. QED
      BY <2>1, <2>2, <2>3, <2>4, <2>5, <2>6 DEF OnePlace, NoJobRunTwice
  <1>3. ASSUME NEW w \in Worker, Die(w) \/ Join(w) \/ Leave(w)
        PROVE  OnePlace'
    <2>1. /\ hand' = hand \/ hand' = [hand EXCEPT ![w] = {}]
          /\ \/ done' = done
             \/ done' = done \cup hand[w] /\ hand' = [hand EXCEPT ![w] = {}]
      BY <1>3 DEF Die, Join, Leave
    <2>2. UNCHANGED <<jobqueue, resultqueue>>
      BY <1>3 DEF Die, Join, Leave
    <2>3. Held' \subseteq Held /\ \A v \in Worker : hand'[v] \subseteq hand[v]
      <3>1. \A v \in Worker : hand'[v] \subseteq hand[v]
        BY <2>1 DEF TypeOK
      <3>. QED
        BY <3>1 DEF Held
    <2>4. ASSUME hand' = [hand EXCEPT ![w] = {}]
          PROVE  Held' \cap hand[w] = {}
      <3>1. \A v \in Worker : hand'[v] \cap hand[w] = {}
        BY <2>4 DEF TypeOK, OnePlace, NoJobRunTwice
      <3>. QED
        BY <3>1 DEF Held
    <2>5. hand[w] \subseteq Held
      BY DEF Held
    <2>6. Queued' = Queued /\ Answered' = Answered
      BY <2>2 DEF Queued, Answered
    <2>7. done' \cap Held' = {} /\ done' \cap Queued' = {}
      BY <2>1, <2>3, <2>4, <2>5, <2>6 DEF OnePlace, NoJobRunTwice
    <2>. QED
      BY <2>2, <2>3, <2>6, <2>7 DEF OnePlace, NoJobRunTwice
  <1>4. CASE LoseJob
    <2>1. Queued' \subseteq Queued /\ IsInjective(jobqueue')
      BY <1>4, JobTaken DEF LoseJob, OnePlace, NoJobRunTwice
    <2>2. UNCHANGED <<hand, Held, resultqueue, Answered, done>>
      BY <1>4 DEF LoseJob, Held, Answered, workerVars
    <2>. QED
      BY <2>1, <2>2 DEF OnePlace, NoJobRunTwice
  <1>5. CASE LoseResult
    <2>1. Answered' \subseteq Answered /\ JobsOnce(resultqueue')
      BY <1>5, ResultTaken DEF LoseResult, OnePlace
    <2>2. UNCHANGED <<hand, Held, jobqueue, Queued, done>>
      BY <1>5 DEF LoseResult, Held, Queued, workerVars
    <2>. QED
      BY <2>1, <2>2 DEF OnePlace, NoJobRunTwice
  <1>. QED
    BY <1>1, <1>2, <1>3, <1>4, <1>5 DEF OthersNext, WorkerNext

LEMMA AnswersDoneStep ==
  ASSUME TypeOK, AnswersDone, ServerNext \/ OthersNext
  PROVE  AnswersDone'
  <1>1. CASE ServerNext
    BY <1>1, ServerFlow DEF AnswersDone
  <1>2. ASSUME NEW w \in Worker, NEW kind \in {"value", "interrupt", "catastrophe"},
               Finish(w, kind)
        PROVE  AnswersDone'
    <2>1. PICK j \in hand[w] :
            /\ resultqueue' = resultqueue \o Answer(j, kind)
            /\ done' = IF kind = "interrupt" THEN done ELSE done \cup {j}
      BY <1>2 DEF Finish
    <2>2. j \in Job
      BY DEF TypeOK
    <2>3. Range(resultqueue') = Range(resultqueue) \cup {[job |-> j, kind |-> kind]}
      BY <2>1, <2>2, ResultPut
    <2>. QED
      BY <2>1, <2>3 DEF AnswersDone
  <1>3. CASE /\ OthersNext
             /\ Range(resultqueue') \subseteq Range(resultqueue)
    BY <1>3, OthersFlow DEF AnswersDone
  <1>4. ASSUME NEW w \in Worker, Take(w) \/ Die(w) \/ Join(w) \/ Leave(w)
        PROVE  resultqueue' = resultqueue
    BY <1>4 DEF Take, Die, Join, Leave
  <1>5. ASSUME LoseJob \/ LoseResult
        PROVE  Range(resultqueue') \subseteq Range(resultqueue)
    BY <1>5, ResultTaken DEF LoseJob, LoseResult
  <1>. QED
    BY <1>1, <1>2, <1>3, <1>4, <1>5 DEF OthersNext, WorkerNext
(* The results of other commands than the one being run stay as they are.  *)
LEMMA ResultsKept ==
  ASSUME TypeOK, ServerNext
  PROVE  /\ res' = res \/ \E r \in Range(resultqueue) : ReceiveValue(r)
         /\ \A i \in Step : i # step => res'[i] = res[i]
  <1>1. res' = res \/ \E r \in Range(resultqueue) : ReceiveValue(r)
    BY ServerCases
       DEF NothingToDo, SetUp, NoJobs, StartCollect, Return, Aborts,
           PutJob,
         ReceiveInterrupt
  <1>2. ASSUME NEW r \in Range(resultqueue), ReceiveValue(r)
        PROVE  \A i \in Step : i # step => res'[i] = res[i]
    BY <1>2 DEF ReceiveValue, Kept, TypeOK
  <1>. QED
    BY <1>1, <1>2

LEMMA NotBegunServer ==
  ASSUME TypeOK, NotBegun, ServerNext
  PROVE  NotBegun'
  <1>1. step \in Nat /\ Step \subseteq Nat
    BY StepFacts DEF TypeOK
  <1>2. ASSUME NEW i \in Step, i > step' \/ (i = step' /\ phase' = "setup")
        PROVE  i > step
    <2>1. CASE NothingToDo \/ NoJobs \/ Return \/ Aborts
      <3>1. PICK v \in Verdict : EndCommand(v)
        BY <2>1 DEF NothingToDo, NoJobs, Return, Aborts, Verdict
      <3>. QED
        BY <1>1, <1>2, <3>1, EndCommandFacts
    <2>2. CASE ~(NothingToDo \/ NoJobs \/ Return \/ Aborts)
      <3>1. step' = step /\ phase' # "setup"
        BY <2>2, ServerCases DEF SetUp, StartCollect, PutJob, ReceiveValue,
             ReceiveInterrupt, Get
      <3>. QED
        BY <1>2, <3>1
    <2>. QED
      BY <2>1, <2>2
  <1>3. ASSUME NEW i \in Step, i > step
        PROVE  res'[i] = <<>>
    BY <1>1, <1>3, ResultsKept DEF NotBegun
  <1>. QED
    BY <1>2, <1>3 DEF NotBegun

(* Only the command being run gets a verdict. *)
LEMMA SettledNow ==
  ASSUME TypeOK, Verdicts, ServerNext, NEW i \in Step, Settled(i)'
  PROVE  /\ i # step => Settled(i) /\ verdict'[i] = verdict[i]
         /\ i = step => NothingToDo \/ ((NoJobs \/ Return) /\ Clean(step))
  <1>1. step \in Nat /\ Step \subseteq Nat
    BY StepFacts DEF TypeOK
  <1>2. phase # "over"
    BY ServerCases
       DEF NothingToDo, SetUp, NoJobs, StartCollect, Return, Aborts,
           PutJob,
         ReceiveValue, ReceiveInterrupt, Get
  <1>3. verdict[step] = "pending"
    BY <1>1, <1>2 DEF Verdicts, TypeOK
  <1>4. \E v \in Verdict : verdict' = [verdict EXCEPT ![step] = v] \/ verdict' = verdict
    BY ServerCases, EndCommandFacts
       DEF NothingToDo, SetUp, NoJobs, StartCollect, Return, Aborts, PutJob,
           ReceiveValue, ReceiveInterrupt, Get, Verdict
  <1>5. \A k \in Step : k # step => verdict'[k] = verdict[k]
    BY <1>4 DEF TypeOK
  <1>6. i <= step
    BY <1>1, <1>5 DEF Settled, Verdicts
  <1>7. Clean(i)
    BY <1>1, <1>5, <1>6 DEF Settled, Clean
  <1>8. i # step => Settled(i) /\ verdict'[i] = verdict[i]
    BY <1>5, <1>7 DEF Settled
  <1>9. ASSUME i = step
        PROVE  NothingToDo \/ NoJobs \/ Return
    <2>1. verdict'[step] \in {"returned", "nothing"}
      BY <1>9 DEF Settled
    <2>2. SetUp \/ StartCollect \/ (\E d \in Doc : PutJob(d))
             \/ (\E r \in Range(resultqueue) : ReceiveValue(r)) => verdict'[step] = "pending"
      BY <1>3 DEF SetUp, StartCollect, PutJob, ReceiveValue
    <2>3. (\E r \in Range(resultqueue) : ReceiveInterrupt(r)) => verdict'[step] = "raised"
      BY DEF ReceiveInterrupt, TypeOK
    <2>4. Aborts => verdict'[step] \in {"raised", "gaveup"}
      BY DEF Aborts, EndCommand, TypeOK
    <2>. QED
      BY <2>1, <2>2, <2>3, <2>4, ServerCases
  <1>. QED
    BY <1>7, <1>8, <1>9
LEMMA NoStragglersServer ==
  ASSUME TypeOK, Phases, Verdicts, JobsBegun, NoStragglers, Bookkeeping, ServerNext
  PROVE  NoStragglers'
  <1>1. ASSUME NEW i \in Step, Settled(i)', NEW j \in InFlight'
        PROVE  j.step # i
    <2>1. CASE i # step
      <3>1. Settled(i) /\ verdict[i] # "pending"
        BY <1>1, <2>1, SettledNow DEF Settled
      <3>2. i < step \/ phase = "over"
        BY <3>1 DEF Verdicts
      <3>3. CASE j \in InFlight
        BY <3>1, <3>3 DEF NoStragglers
      <3>4. CASE j \notin InFlight
        <4>1. PICK d \in Doc : PutJob(d)
          BY <1>1, <3>4, ServerFlow DEF InFlight
        <4>2. j = [step |-> step, doc |-> d]
          BY <1>1, <3>4, <4>1, JobPut DEF InFlight, Held, Answered
        <4>. QED
          BY <2>1, <4>2
      <3>. QED
        BY <3>3, <3>4
    <2>2. CASE i = step
      <3>1. NothingToDo \/ ((NoJobs \/ Return) /\ Clean(step))
        BY <1>1, <2>2, SettledNow
      <3>2. j \in InFlight
        BY <1>1, <3>1, ServerFlow
           DEF NothingToDo, NoJobs, Return, PutJob, InFlight
      <3>3. CASE NothingToDo
        BY <2>2, <3>2, <3>3 DEF NothingToDo, JobsBegun
      <3>4. CASE (NoJobs \/ Return) /\ Clean(step)
        BY <2>2, <3>2, <3>4 DEF NoJobs, Return, Bookkeeping
      <3>. QED
        BY <3>1, <3>3, <3>4
    <2>. QED
      BY <2>1, <2>2
  <1>. QED
    BY <1>1 DEF NoStragglers

(* When a clean command has nothing more to put or to wait for, it is      *)
(* complete.                                                               *)
LEMMA CompleteAtEnd ==
  ASSUME TypeOK, JobsBegun, Bookkeeping, phase \in {"put", "collect"}, Clean(step),
         unput = {}, processing = {}
  PROVE  /\ JobsOf(step) \subseteq done
         /\ {r.job : r \in Range(res[step])} = JobsOf(step)
         /\ Len(res[step]) = Cardinality(Plan[step].docs)
  <1> DEFINE Got == {r.job : r \in Range(res[step])}
  <1>1. \A d \in Plan[step].docs : [step |-> step, doc |-> d] \in Got
    BY DEF Bookkeeping
  <1>2. JobsOf(step) \subseteq Got
    BY <1>1 DEF JobsOf
  <1>3. Range(res[step]) \subseteq Result /\ Len(res[step]) \in Nat
    BY RangeOfSeq DEF TypeOK
  <1>4. ASSUME NEW r \in Range(res[step])
        PROVE  r.job \in JobsOf(step) /\ r.job \in done
    <2>1. r.job.step = step /\ r.job \in done
      BY DEF Bookkeeping
    <2>2. /\ r.job.doc \in Plan[step].docs
          /\ r.job = [step |-> r.job.step, doc |-> r.job.doc]
      BY <2>1, JobTypes DEF JobsBegun
    <2>. QED
      BY <2>1, <2>2 DEF JobsOf
  <1>5. Got = JobsOf(step) /\ JobsOf(step) \subseteq done
    BY <1>2, <1>4
  <1>6. Len(res[step]) + Cardinality({}) = Cardinality(Plan[step].docs \ {})
    BY DEF Bookkeeping
  <1>7. Cardinality({}) = 0 /\ Plan[step].docs \ {} = Plan[step].docs
    BY FS_EmptySet
  <1>. QED
    BY <1>3, <1>5, <1>6, <1>7

LEMMA CompleteServer ==
  ASSUME TypeOK, Phases, Verdicts, JobsBegun, Bookkeeping, CleanCommandComplete,
         ServerNext
  PROVE  CleanCommandComplete'
  <1> SUFFICES ASSUME NEW i \in Step, verdict'[i] = "returned", Clean(i)'
               PROVE  /\ JobsOf(i) \subseteq done'
                      /\ {r.job : r \in Range(res'[i])} = JobsOf(i)
                      /\ Len(res'[i]) = Cardinality(Plan[i].docs)
    BY DEF CleanCommandComplete, JobsOf
  <1>1. Settled(i)'
    BY DEF Settled
  <1>2. done' = done
    BY ServerFlow
  <1>3. CASE i # step
    <2>1. Settled(i) /\ verdict[i] = "returned"
      BY <1>1, <1>3, SettledNow
    <2>2. res'[i] = res[i]
      BY <1>3, ResultsKept
    <2>. QED
      BY <1>2, <2>1, <2>2 DEF CleanCommandComplete, Settled
  <1>4. CASE i = step
    <2>1. verdict'[step] = "nothing" \/ ((NoJobs \/ Return) /\ Clean(step))
      BY <1>1, <1>4, SettledNow DEF NothingToDo, EndCommand, TypeOK
    <2>2. /\ phase \in {"put", "collect"} /\ unput = {} /\ processing = {}
          /\ res' = res
      BY <1>4, <2>1 DEF NoJobs, Return, Phases
    <2>. QED
      BY <1>2, <1>4, <2>1, <2>2, CompleteAtEnd
  <1>. QED
    BY <1>3, <1>4

(* A result in flight of the repository of a clean command is a result of  *)
(* that very command.                                                      *)
LEMMA OwnCommand ==
  ASSUME TypeOK, JobsBegun, NoStragglers, Clean(step),
         NEW j \in InFlight, Plan[j.step].alias = Plan[step].alias
  PROVE  j.step = step
  <1>1. j.step \in Step /\ j.step \in Nat /\ step \in Nat /\ j.step <= step
    BY JobTypes, StepFacts DEF TypeOK, JobsBegun
  <1>2. ASSUME j.step < step
        PROVE  Settled(j.step)
    BY <1>1, <1>2, StepFacts DEF Clean, Settled
  <1>. QED
    BY <1>1, <1>2 DEF NoStragglers
LEMMA BookkeepingSetUp ==
  ASSUME TypeOK, Phases, JobsBegun, NotBegun, SetUp
  PROVE  Bookkeeping'
  <1>1. /\ step' = step /\ unput' = Plan[step].docs /\ processing' = {}
        /\ res'[step] = <<>> /\ step \in Step
    BY DEF SetUp, Phases, NotBegun, TypeOK
  <1>2. InFlight' = InFlight
    BY DEF SetUp, workerVars, InFlight, Queued, Held, Answered
  <1>3. \A j \in InFlight : j.step # step
    BY DEF SetUp, JobsBegun
  <1>4. Range(res'[step]) = {} /\ Len(res'[step]) = 0
    BY <1>1 DEF Range
  <1>5. Plan[step].docs \ unput' = {}
    BY <1>1
  <1>. QED
    <2>1. Len(res'[step']) + Cardinality(processing') = Cardinality(Plan[step'].docs \ unput')
      <3>1. Cardinality({}) = 0
        BY FS_EmptySet
      <3>2. Len(res'[step']) = 0 /\ processing' = {} /\ Plan[step'].docs \ unput' = {}
        BY <1>1, <1>4, <1>5
      <3>3. Cardinality(processing') = 0 /\ Cardinality(Plan[step'].docs \ unput') = 0
        BY <3>1, <3>2, Zenon
      <3>. QED
        BY <3>2, <3>3
    <2>2. \A j \in InFlight' : j.step = step' => Key(j) \in processing'
      BY <1>1, <1>2, <1>3
    <2>3. \A r \in Range(res[step])' : FALSE
      BY <1>1, <1>4
    <2>4. \A d \in Plan[step'].docs \ unput' : FALSE
      BY <1>1
    <2>5. processing' = {}
      BY <1>1
    <2>. QED
      BY <2>1, <2>2, <2>3, <2>4, <2>5 DEF Bookkeeping, Key

LEMMA BookkeepingPut ==
  ASSUME TypeOK, Phases, FinitelyMany, JobsBegun, NotBegun, Bookkeeping,
         NEW d \in Doc, PutJob(d), Clean(step)
  PROVE  Bookkeeping'
  <1> DEFINE j == [step |-> step, doc |-> d]
             P == Plan[step].docs
             k == <<Plan[step].alias, d>>
  <1>1. /\ phase = "put" /\ d \in unput /\ unput \subseteq P
        /\ unput' = unput \ {d} /\ processing' = processing \cup {k}
        /\ step' = step /\ res' = res /\ done' = done
    BY DEF PutJob, Phases, Key, workerVars
  <1>2. InFlight' = InFlight \cup {j}
    BY JobPut DEF InFlight, Held, Answered
  <1>3. k \notin processing /\ d \notin P \ unput
    BY <1>1 DEF Bookkeeping
  <1>4. P \ unput' = (P \ unput) \cup {d}
    BY <1>1
  <1>5. processing' \subseteq {<<Plan[step].alias, e>> : e \in P \ unput'}
    BY <1>1, <1>4 DEF Bookkeeping
  <1>6. \A i \in InFlight' : i.step = step => Key(i) \in processing'
    BY <1>1, <1>2 DEF Bookkeeping, Key
  <1>7. ASSUME NEW r \in Range(res[step])
        PROVE  r.job.step = step /\ r.job \in done /\ Key(r.job) \notin processing'
    <2>1. r.job.step = step /\ r.job \in done /\ Key(r.job) \notin processing
      BY <1>1 DEF Bookkeeping
    <2>2. r.job.doc # d
      BY <1>1, <2>1 DEF JobsBegun
    <2>. QED
      BY <1>1, <2>1, <2>2 DEF Key
  <1>8. \A e \in P \ unput' :
          \/ <<Plan[step].alias, e>> \in processing'
          \/ [step |-> step, doc |-> e] \in {r.job : r \in Range(res[step])}
    BY <1>1, <1>4 DEF Bookkeeping
  <1>9. IsFiniteSet(P \ unput) /\ IsFiniteSet(processing)
    BY PlanAssumption, FS_Subset DEF FinitelyMany, TypeOK, Step
  <1>10. /\ Cardinality(processing') = Cardinality(processing) + 1
         /\ Cardinality(P \ unput') = Cardinality(P \ unput) + 1
         /\ Cardinality(processing) \in Nat /\ Cardinality(P \ unput) \in Nat
    BY <1>1, <1>3, <1>4, <1>9, FS_AddElement, FS_CardinalityType
  <1>11. Len(res[step]) \in Nat
    BY LenProperties DEF TypeOK
  <1>12. Len(res[step]) + Cardinality(processing) = Cardinality(P \ unput)
    BY <1>1 DEF Bookkeeping
  <1>13. Len(res[step]) + Cardinality(processing') = Cardinality(P \ unput')
    BY <1>10, <1>11, <1>12
  <1>. QED
    BY <1>1, <1>5, <1>6, <1>7, <1>8, <1>13 DEF Bookkeeping

LEMMA BookkeepingReceive ==
  ASSUME TypeOK, FinitelyMany, JobsBegun, OnePlace, AnswersDone, NoStragglers,
         Bookkeeping, NEW r \in Range(resultqueue), ReceiveValue(r), Clean(step)
  PROVE  Bookkeeping'
  <1> DEFINE P == Plan[step].docs
  <1>1. /\ phase = "collect" /\ r = Head(resultqueue) /\ r.kind = "value"
        /\ resultqueue # <<>> /\ resultqueue' = Tail(resultqueue)
        /\ processing' = processing \ {Key(r.job)} /\ res' = Kept(r)
        /\ UNCHANGED <<step, phase, unput, jobqueue, hand, done>>
    BY DEF ReceiveValue, Get, workerVars
  <1>2. r.job \in InFlight /\ r.job \in done /\ r \in Result
    BY <1>1, RangeOfSeq DEF InFlight, Answered, AnswersDone, TypeOK
  <1>3. InFlight' \subseteq InFlight /\ r.job \notin InFlight'
    <2>1. Answered' \subseteq Answered /\ r.job \notin Answered'
      BY <1>1, ResultTaken DEF OnePlace
    <2>2. Queued' = Queued /\ Held' = Held
      BY <1>1 DEF Queued, Held
    <2>3. r.job \notin Queued \cup Held
      BY DEF Answered, OnePlace
    <2>. QED
      BY <2>1, <2>2, <2>3 DEF InFlight
  <1>4. CASE Plan[r.job.step].alias # Plan[step].alias
    <2>1. Key(r.job) \notin processing
      BY <1>1, <1>4 DEF Bookkeeping, Key
    <2>2. processing' = processing /\ res' = res
      BY <1>1, <1>4, <2>1 DEF Kept
    <2>3. \A j \in InFlight' : j.step = step => Key(j) \in processing
      BY <1>1, <1>3 DEF Bookkeeping
    <2>4. UNCHANGED <<step, processing, unput, res, done>>
      BY <1>1, <2>2
    <2>5. /\ processing \subseteq {<<Plan[step].alias, d>> : d \in Plan[step].docs \ unput}
          /\ \A q \in Range(res[step]) :
               q.job.step = step /\ q.job \in done /\ Key(q.job) \notin processing
          /\ \A d \in Plan[step].docs \ unput :
               \/ <<Plan[step].alias, d>> \in processing
               \/ [step |-> step, doc |-> d] \in {q.job : q \in Range(res[step])}
          /\ Len(res[step]) + Cardinality(processing) = Cardinality(Plan[step].docs \ unput)
      BY <1>1 DEF Bookkeeping
    <2>. QED
      BY <2>3, <2>4, <2>5 DEF Bookkeeping, Key
  <1>5. CASE Plan[r.job.step].alias = Plan[step].alias
    <2> DEFINE Q == Range(res[step])
    <2>1. r.job.step = step
      BY <1>2, <1>5, OwnCommand
    <2>2. Key(r.job) \in processing
      BY <1>1, <1>2, <2>1 DEF Bookkeeping
    <2>3. /\ res'[step] = Append(res[step], r)
          /\ res[step] \in Seq(Result)
      BY <1>1, <1>5 DEF Kept, TypeOK
    <2>4. /\ Range(res'[step]) = Q \cup {r}
          /\ Len(res'[step]) = Len(res[step]) + 1
          /\ Len(res[step]) \in Nat
      BY <1>2, <2>3, AppendRange
    <2>5. /\ Cardinality(processing') = Cardinality(processing) - 1
          /\ Cardinality(processing) \in Nat
      BY <1>1, <2>2, FS_RemoveElement, FS_CardinalityType DEF FinitelyMany
    <2>6. processing' \subseteq {<<Plan[step].alias, d>> : d \in P \ unput}
      BY <1>1 DEF Bookkeeping
    <2>7. ASSUME NEW j \in InFlight', j.step = step
          PROVE  Key(j) \in processing'
      <3>1. Key(j) \in processing
        BY <1>1, <1>3, <2>7 DEF Bookkeeping
      <3>2. j # r.job /\ j = [step |-> j.step, doc |-> j.doc]
              /\ r.job = [step |-> r.job.step, doc |-> r.job.doc]
        BY <1>2, <1>3, JobTypes
      <3>3. Key(j) # Key(r.job)
        BY <2>1, <2>7, <3>2 DEF Key
      <3>. QED
        BY <1>1, <3>1, <3>3
    <2>8. ASSUME NEW q \in Q \cup {r}
          PROVE  q.job.step = step /\ q.job \in done /\ Key(q.job) \notin processing'
      BY <1>1, <1>2, <2>1 DEF Bookkeeping
    <2>9. ASSUME NEW d \in P \ unput
          PROVE  \/ <<Plan[step].alias, d>> \in processing'
                 \/ [step |-> step, doc |-> d] \in {q.job : q \in Q \cup {r}}
      <3>1. CASE <<Plan[step].alias, d>> = Key(r.job)
        <4>1. d = r.job.doc /\ r.job = [step |-> r.job.step, doc |-> r.job.doc]
          BY <1>2, <3>1, JobTypes DEF Key
        <4>. QED
          BY <2>1, <4>1
      <3>2. CASE <<Plan[step].alias, d>> # Key(r.job)
        BY <1>1, <3>2 DEF Bookkeeping
      <3>. QED
        BY <3>1, <3>2
    <2>10. Len(res[step]) + Cardinality(processing) = Cardinality(P \ unput)
      BY <1>1 DEF Bookkeeping
    <2>11. Len(res'[step]) + Cardinality(processing') = Cardinality(P \ unput)
      BY <2>4, <2>5, <2>10
    <2>12. /\ \A j \in InFlight' : j.step = step' => Key(j)' \in processing'
           /\ \A q \in Range(res[step])' :
                q.job.step = step' /\ q.job \in done' /\ Key(q.job) \notin processing'
      BY <1>1, <2>4, <2>7, <2>8 DEF Key
    <2>13. /\ processing' \subseteq {<<Plan[step'].alias, d>> : d \in Plan[step'].docs \ unput'}
           /\ \A d \in Plan[step'].docs \ unput' :
                \/ <<Plan[step'].alias, d>> \in processing'
                \/ [step |-> step', doc |-> d] \in {q.job : q \in Range(res'[step'])}
           /\ Len(res'[step']) + Cardinality(processing')
                = Cardinality(Plan[step'].docs \ unput')
      BY <1>1, <2>4, <2>6, <2>9, <2>11
    <2>. QED
      BY <2>12, <2>13 DEF Bookkeeping
  <1>. QED
    BY <1>4, <1>5

LEMMA BookkeepingServer ==
  ASSUME IInv, ServerNext
  PROVE  Bookkeeping'
  <1> USE DEF IInv
  <1>1. CASE SetUp
    BY <1>1, BookkeepingSetUp
  <1>2. ASSUME NEW d \in Doc, PutJob(d)
        PROVE  Bookkeeping'
    <2>1. Clean(step)' => Clean(step)
      BY <1>2 DEF PutJob, Clean
    <2>. QED
      BY <1>2, <2>1, BookkeepingPut DEF Bookkeeping
  <1>3. ASSUME NEW r \in Range(resultqueue), ReceiveValue(r)
        PROVE  Bookkeeping'
    <2>1. Clean(step)' => Clean(step)
      BY <1>3 DEF ReceiveValue, Clean
    <2>. QED
      BY <1>3, <2>1, BookkeepingReceive DEF Bookkeeping
  <1>4. CASE StartCollect
    BY <1>4
       DEF StartCollect, workerVars, Bookkeeping, InFlight, Queued, Held,
           Answered,
         Clean
  <1>5. CASE \E v \in Verdict : EndCommand(v)
    BY <1>5, EndCommandFacts DEF Bookkeeping
  <1>6. ASSUME NEW r \in Range(resultqueue), ReceiveInterrupt(r)
        PROVE  Bookkeeping'
    BY <1>6 DEF ReceiveInterrupt, Bookkeeping
  <1>. QED
    BY <1>1, <1>2, <1>3, <1>4, <1>5, <1>6, ServerCases
       DEF NothingToDo, NoJobs, Return, Aborts, Verdict
-----------------------------------------------------------------------------
(* The invariant as a whole. *)

LEMMA InvServer == IInv /\ ServerNext => IInv'
  <1> SUFFICES ASSUME IInv, ServerNext
               PROVE  IInv'
    OBVIOUS
  <1> USE DEF IInv
  <1>1. TypeOK' /\ Phases' /\ Verdicts' /\ FinitelyMany'
    BY TypeServer, PhasesServer, FinitelyManyServer
  <1>2. JobsBegun' /\ OnePlace' /\ AnswersDone'
    BY JobsBegunServer, OnePlaceServer, AnswersDoneStep
  <1>3. NotBegun' /\ NoStragglers'
    BY NotBegunServer, NoStragglersServer
  <1>4. Bookkeeping' /\ CleanCommandComplete'
    BY BookkeepingServer, CompleteServer
  <1>. QED
    BY <1>1, <1>2, <1>3, <1>4

LEMMA InvOthers == IInv /\ OthersNext => IInv'
  <1> SUFFICES ASSUME IInv, OthersNext
               PROVE  IInv'
    OBVIOUS
  <1> USE DEF IInv
  <1>1. /\ UNCHANGED <<step, phase, unput, processing, alarm, res, verdict>>
        /\ InFlight' \subseteq InFlight
        /\ done \subseteq done'
        /\ done' \subseteq InFlight \cup done
    BY OthersFlow DEF serverVars, InFlight
  <1>2. TypeOK'
    BY TypeWorker, TypeLoseJob, TypeLoseResult DEF OthersNext
  <1>3. Phases' /\ Verdicts' /\ FinitelyMany' /\ NotBegun'
    BY <1>1 DEF Phases, Verdicts, FinitelyMany, NotBegun
  <1>4. JobsBegun'
    BY <1>1 DEF JobsBegun
  <1>5. OnePlace' /\ AnswersDone'
    BY OnePlaceOthers, AnswersDoneStep
  <1>6. \A i \in Step : Clean(i)' = Clean(i) /\ Settled(i)' = Settled(i)
    BY <1>1 DEF Clean, Settled
  <1>7. NoStragglers'
    BY <1>1, <1>6 DEF NoStragglers
  <1>8. Bookkeeping'
    BY <1>1, <1>6 DEF Bookkeeping, TypeOK, Clean, Key
  <1>9. CleanCommandComplete'
    BY <1>1, <1>6 DEF CleanCommandComplete, JobsOf
  <1>. QED
    BY <1>2, <1>3, <1>4, <1>5, <1>7, <1>8, <1>9

LEMMA InvStep == IInv /\ [Next]_vars => IInv'
  <1>1. ASSUME IInv, UNCHANGED vars
        PROVE  IInv'
    <2> USE <1>1 DEF IInv, vars
    <2>1. UNCHANGED <<InFlight, Queued, Held, Answered>>
      BY DEF InFlight, Queued, Held, Answered
    <2>2. \A i \in Step : Clean(i)' = Clean(i)
      BY DEF Clean
    <2>3. TypeOK' /\ Phases' /\ Verdicts' /\ FinitelyMany' /\ NotBegun'
      BY TypeStep DEF Phases, Verdicts, FinitelyMany, NotBegun
    <2>4. JobsBegun' /\ OnePlace' /\ AnswersDone'
      BY <2>1 DEF JobsBegun, OnePlace, NoJobRunTwice, JobsOnce, AnswersDone
    <2>5. NoStragglers'
      BY <2>1, <2>2 DEF NoStragglers, Settled
    <2>6. Bookkeeping'
      BY <2>1, <2>2 DEF Bookkeeping, Clean, Key
    <2>7. CleanCommandComplete'
      BY <2>2 DEF CleanCommandComplete, JobsOf
    <2>. QED
      BY <2>3, <2>4, <2>5, <2>6, <2>7
  <1>. QED
    BY <1>1, InvServer, InvOthers DEF Next, OthersNext

LEMMA InvCorrect == Spec => []IInv
  BY InvInit, InvStep, PTL DEF Spec

(* A job is never run twice: not by two workers, not by being queued       *)
(* again, however many workers die and whatever the queue server loses.    *)
THEOREM JobsRunOnce == Spec => []NoJobRunTwice
  <1>1. IInv => NoJobRunTwice
    BY DEF IInv, OnePlace
  <1>. QED
    BY <1>1, InvCorrect, PTL

(* A command that returns normally, of a repository none of whose earlier  *)
(* commands was abandoned, has run every job and has exactly one result    *)
(* for each: the bookkeeping by (alias, (basefile, version)) is enough.    *)
THEOREM CleanCommandsComplete == Spec => []CleanCommandComplete
  <1>1. IInv => CleanCommandComplete
    BY DEF IInv
  <1>. QED
    BY <1>1, InvCorrect, PTL

(* What was kept has been run, and its result is not in the queue any      *)
(* more.                                                                   *)
KeptIsDone ==
  \A i \in Step : \A m \in DOMAIN res[i] : res[i][m].job \in done \ Answered

(* The workers and the queue server keep nothing, and answer no job again. *)
LEMMA KeptOnceOthers ==
  ASSUME IInv, KeptIsDone, NoResultKeptTwice, OthersNext
  PROVE  KeptIsDone' /\ NoResultKeptTwice'
  <1>1. res' = res /\ done \subseteq done' /\ InFlight' \subseteq InFlight
    BY OthersFlow DEF IInv, serverVars
  <1>2. \A j \in done \ Answered : j \notin Answered'
    BY <1>1 DEF IInv, OnePlace, NoJobRunTwice, InFlight
  <1>. QED
    BY <1>1, <1>2 DEF KeptIsDone, NoResultKeptTwice

(* A result that is kept is taken off the queue, and was kept by nobody.   *)
LEMMA KeptOnceServer ==
  ASSUME IInv, KeptIsDone, NoResultKeptTwice, ServerNext
  PROVE  KeptIsDone' /\ NoResultKeptTwice'
  <1>1. TypeOK /\ done' = done /\ Answered' \subseteq Answered
    BY ServerFlow DEF IInv
  <1>2. CASE res' = res
    BY <1>1, <1>2 DEF KeptIsDone, NoResultKeptTwice
  <1>3. ASSUME NEW r \in Range(resultqueue), ReceiveValue(r)
        PROVE  KeptIsDone' /\ NoResultKeptTwice'
    <2>1. r \in Result /\ res' = Kept(r)
      BY <1>1, <1>3, RangeOfSeq DEF ReceiveValue, TypeOK
    <2>2. r.job \in done /\ r.job \in Answered
      BY <1>3 DEF ReceiveValue, IInv, AnswersDone, Answered
    <2>3. r.job \notin Answered'
      BY <1>1, <1>3, ResultTaken DEF ReceiveValue, Get, IInv, OnePlace
    <2>4. CASE res' = res
      BY <1>2, <2>4
    <2>5. CASE res' = [res EXCEPT ![step] = Append(@, r)]
      <3>. DEFINE l == Len(res[step])
      <3>1. /\ \A i \in Step : i # step => res'[i] = res[i]
            /\ res'[step] = Append(res[step], r) /\ res[step] \in Seq(Result)
            /\ step \in Step
        BY <1>1, <2>5 DEF TypeOK
      <3>2. /\ l \in Nat /\ DOMAIN res[step] = 1..l
            /\ DOMAIN res'[step] = 1..(l + 1) /\ res'[step][l + 1] = r
            /\ \A m \in 1..l : res'[step][m] = res[step][m]
        BY <2>1, <3>1
      <3>. HIDE DEF l
      <3>3. ASSUME NEW i \in Step, NEW m \in DOMAIN res'[i]
            PROVE  \/ m \in DOMAIN res[i] /\ res'[i][m] = res[i][m]
                   \/ i = step /\ m = l + 1 /\ res'[i][m] = r
        BY <3>1, <3>2
      <3>4. \A i \in Step : \A m \in DOMAIN res[i] : res[i][m].job # r.job
        BY <2>2 DEF KeptIsDone
      <3>5. KeptIsDone'
        BY <1>1, <2>2, <2>3, <3>3 DEF KeptIsDone
      <3>6. NoResultKeptTwice'
        BY <3>3, <3>4 DEF NoResultKeptTwice
      <3>. QED
        BY <3>5, <3>6
    <2>. QED
      BY <2>1, <2>4, <2>5 DEF Kept
  <1>. QED
    BY <1>1, <1>2, <1>3, ResultsKept

(* The result of a job is kept once at most, by one command, whoever waits *)
(* when it comes (manager.py:1484-1520).                                   *)
THEOREM ResultsKeptOnce == Spec => []NoResultKeptTwice
  <1>. DEFINE Inv == KeptIsDone /\ NoResultKeptTwice
  <1>1. Init => Inv
    BY DEF Init, KeptIsDone, NoResultKeptTwice
  <1>2. IInv /\ Inv /\ [Next]_vars => Inv'
    <2>1. IInv /\ Inv /\ UNCHANGED vars => Inv'
      BY DEF vars, serverVars, workerVars, KeptIsDone, NoResultKeptTwice,
             Answered
    <2>. QED
      BY <2>1, KeptOnceOthers, KeptOnceServer DEF Next, OthersNext
  <1>. HIDE DEF Inv
  <1>3. Inv => NoResultKeptTwice
    BY DEF Inv
  <1>. QED
    BY <1>1, <1>2, <1>3, InvCorrect, PTL DEF Spec

-----------------------------------------------------------------------------
(* What is waited for in vain.                                             *)

GaveUp == {i \in Step : verdict[i] = "gaveup"}

(* v keys are waited for in vain, t and g calls of get() are served for    *)
(* nobody, d workers died and u commands were given up: the account, and   *)
(* what a step may do to it.                                               *)
Covered(v, t, g, d, u) == v + t + g <= d + u

Charged(v1, t1, g1, d1, u1, v, t, g, d, u) ==
  \/ v1 <= v /\ t1 = t /\ g1 = g /\ d1 = d /\ u1 = u
  \/ v1 <= v /\ t1 \in {t, t + 1} /\ g1 = g /\ d1 = d + 1 /\ u1 = u
  \/ v1 <= v + 1 /\ t1 = t /\ g1 = g /\ d1 = d + 1 /\ u1 = u
  \/ v1 <= v + 1 /\ t = t1 + 1 /\ g1 = g /\ d1 = d /\ u1 = u
  \/ v1 <= v + 1 /\ t1 = t /\ g = g1 + 1 /\ d1 = d /\ u1 = u
  \/ v1 <= v /\ t1 = t /\ g1 = g + 1 /\ d1 = d /\ u1 = u + 1

(* Every key that is waited for in vain, and every get() that is still     *)
(* served for nobody, is owed to a worker that died or a command given up. *)
Spent ==
  Covered(Cardinality(WaitedForInVain), orphanTakes, orphanGets, deaths,
          Cardinality(GaveUp))

StepCharged ==
  Charged(Cardinality(WaitedForInVain'), orphanTakes', orphanGets', deaths',
          Cardinality(GaveUp'), Cardinality(WaitedForInVain), orphanTakes,
          orphanGets, deaths, Cardinality(GaveUp))

(* No step loses what it does not charge. *)
LEMMA CoveredKept ==
  ASSUME NEW v, NEW t, NEW g, NEW d, NEW u,
         NEW v1, NEW t1, NEW g1, NEW d1, NEW u1,
         Charged(v1, t1, g1, d1, u1, v, t, g, d, u), Covered(v, t, g, d, u),
         v \in Nat, t \in Nat, g \in Nat, d \in Nat, u \in Nat,
         v1 \in Nat, t1 \in Nat, g1 \in Nat, d1 \in Nat, u1 \in Nat
  PROVE  Covered(v1, t1, g1, d1, u1)
  BY DEF Covered, Charged

(* A set that has gained one element at most. *)
LEMMA OneMore ==
  ASSUME NEW S, IsFiniteSet(S), NEW x, NEW T, T \subseteq S \cup {x}
  PROVE  /\ Cardinality(S) \in Nat /\ Cardinality(T) \in Nat
         /\ Cardinality(T) <= Cardinality(S) + 1
         /\ T \subseteq S => Cardinality(T) <= Cardinality(S)
  <1>0. Cardinality(S) \in Nat /\ IsFiniteSet(S \cup {x})
    BY FS_AddElement, FS_CardinalityType
  <1>1. /\ IsFiniteSet(S \cup {x})
        /\ Cardinality(S \cup {x}) \in {Cardinality(S), Cardinality(S) + 1}
    BY <1>0, FS_AddElement
  <1>2. IsFiniteSet(T) /\ Cardinality(T) <= Cardinality(S \cup {x})
    BY <1>1, FS_Subset
  <1>3. T \subseteq S => Cardinality(T) <= Cardinality(S)
    BY FS_Subset
  <1>4. /\ Cardinality(S) \in Nat /\ Cardinality(T) \in Nat
        /\ Cardinality(S \cup {x}) \in Nat
    BY <1>1, <1>2, FS_CardinalityType
  <1>. QED
    BY <1>1, <1>2, <1>3, <1>4

(* There are only so many of either. *)
LEMMA FewInVain ==
  ASSUME IInv
  PROVE  /\ IsFiniteSet(WaitedForInVain) /\ IsFiniteSet(GaveUp)
         /\ Cardinality(WaitedForInVain) \in Nat
         /\ Cardinality(GaveUp) \in Nat
  <1>1. WaitedForInVain \subseteq processing
    BY DEF WaitedForInVain
  <1>2. IsFiniteSet(Step) /\ GaveUp \subseteq Step
    BY StepFacts, FS_Interval DEF GaveUp
  <1>3. IsFiniteSet(WaitedForInVain) /\ IsFiniteSet(GaveUp)
    BY <1>1, <1>2, FS_Subset DEF IInv, FinitelyMany
  <1>. QED
    BY <1>3, FS_CardinalityType

(* The job that is missing after a step is the only one whose key can      *)
(* newly be waited for in vain.                                            *)
LEMMA OneLost ==
  ASSUME NEW j, InFlight \subseteq InFlight' \cup {j}, UNCHANGED serverVars
  PROVE  WaitedForInVain' \subseteq WaitedForInVain \cup {Key(j)}
  BY DEF WaitedForInVain, serverVars, Key

(* A job that is not lost is not waited for in vain.                       *)
LEMMA NoneLost ==
  ASSUME InFlight \subseteq InFlight', UNCHANGED serverVars
  PROVE  WaitedForInVain' \subseteq WaitedForInVain
  BY DEF WaitedForInVain, serverVars, Key

(* Only the head of a queue is taken.                                      *)
LEMMA HeadLost ==
  ASSUME TypeOK, resultqueue # <<>>, resultqueue' = Tail(resultqueue)
  PROVE  Answered \subseteq Answered' \cup {Head(resultqueue).job}
  <1>1. /\ Len(resultqueue) \in Nat \ {0}
        /\ Head(resultqueue) = resultqueue[1]
        /\ DOMAIN resultqueue = 1..Len(resultqueue)
        /\ DOMAIN resultqueue' = 1..(Len(resultqueue) - 1)
        /\ \A i \in 1..(Len(resultqueue) - 1) : resultqueue'[i] = resultqueue[i + 1]
    BY HeadTailProperties, LenProperties DEF TypeOK
  <1>2. \A i \in DOMAIN resultqueue :
          \/ i = 1
          \/ i - 1 \in DOMAIN resultqueue' /\ resultqueue'[i - 1] = resultqueue[i]
    BY <1>1
  <1>. QED
    BY <1>1, <1>2 DEF Answered, Range

(* The account is one of natural numbers.                                  *)
Account ==
  /\ orphanTakes \in Nat /\ orphanGets \in Nat /\ deaths \in Nat
  /\ Cardinality(WaitedForInVain) \in Nat
  /\ Cardinality(GaveUp) \in Nat

LEMMA AccountType == IInv => Account
  BY FewInVain DEF IInv, TypeOK, Account

(* A step that charges what it loses keeps the account.                    *)
LEMMA SpentKept ==
  ASSUME IInv, IInv', Spent, StepCharged
  PROVE  Spent'
  <1>1. Account /\ Account'
    BY AccountType, PTL
  <1>2. /\ orphanTakes' \in Nat /\ orphanGets' \in Nat /\ deaths' \in Nat
        /\ Cardinality(WaitedForInVain') \in Nat
        /\ Cardinality(GaveUp') \in Nat
    BY <1>1 DEF Account
  <1>3. Covered(Cardinality(WaitedForInVain), orphanTakes, orphanGets, deaths,
                Cardinality(GaveUp))
    BY DEF Spent
  <1>4. Covered(Cardinality(WaitedForInVain'), orphanTakes', orphanGets',
                deaths', Cardinality(GaveUp'))
    BY <1>1, <1>2, <1>3, CoveredKept DEF Account, StepCharged
  <1>. QED
    BY <1>4 DEF Spent

(* Ending a command ends its waiting; giving up is counted.                *)
LEMMA ChargedAtEnd ==
  ASSUME IInv, NEW v \in Verdict, EndCommand(v), phase # "over",
         UNCHANGED <<orphanTakes, deaths>>,
         IF v = "gaveup" THEN orphanGets' = orphanGets + 1
                         ELSE orphanGets' = orphanGets
  PROVE  StepCharged
  <1>1. verdict' = [verdict EXCEPT ![step] = v] /\ processing' = {}
    BY EndCommandFacts DEF IInv
  <1>2. verdict[step] = "pending" /\ step \in Step
    BY StepFacts DEF IInv, Verdicts, TypeOK
  <1>3. Cardinality(WaitedForInVain') <= Cardinality(WaitedForInVain)
    <2>1. WaitedForInVain' = {}
      BY <1>1 DEF WaitedForInVain
    <2>2. Cardinality(WaitedForInVain') = 0
      BY <2>1, FS_EmptySet
    <2>. QED
      BY <2>2, FewInVain
  <1>4. GaveUp' = IF v = "gaveup" THEN GaveUp \cup {step} ELSE GaveUp
    BY <1>1, <1>2 DEF GaveUp, IInv, TypeOK
  <1>5. step \notin GaveUp
    BY <1>2 DEF GaveUp
  <1>6. CASE v = "gaveup"
    <2>1. Cardinality(GaveUp \cup {step}) = Cardinality(GaveUp) + 1
      BY <1>5, FewInVain, FS_AddElement
    <2>2. Cardinality(GaveUp') = Cardinality(GaveUp) + 1
      BY <1>4, <1>6, <2>1
    <2>. QED
      BY <1>3, <1>6, <2>2 DEF StepCharged, Charged
  <1>7. CASE v # "gaveup"
    BY <1>3, <1>4, <1>7 DEF StepCharged, Charged
  <1>. QED
    BY <1>6, <1>7

(* While it goes on, the control process does not wait in vain for more    *)
(* than before.                                                            *)
LEMMA ChargedServer ==
  ASSUME IInv, ServerNext
  PROVE  StepCharged
  <1>1. ASSUME UNCHANGED <<orphanTakes, orphanGets, deaths, verdict>>,
               WaitedForInVain' \subseteq WaitedForInVain
        PROVE  StepCharged
    <2>1. Cardinality(WaitedForInVain') <= Cardinality(WaitedForInVain)
      BY <1>1, FewInVain, FS_Subset
    <2>2. GaveUp' = GaveUp
      BY <1>1 DEF GaveUp
    <2>. QED
      BY <1>1, <2>1, <2>2 DEF StepCharged, Charged
  <1>2. CASE NothingToDo \/ NoJobs \/ Return \/ StrayAlarm
    BY <1>2, ChargedAtEnd
       DEF NothingToDo, NoJobs, Return, StrayAlarm, workerVars, orphans, Verdict
  <1>3. CASE GiveUp
    BY <1>3, ChargedAtEnd DEF GiveUp, workerVars, Verdict
  <1>4. CASE SetUp \/ StartCollect
    <2>1. WaitedForInVain' = WaitedForInVain
      BY <1>4 DEF SetUp, StartCollect, workerVars, WaitedForInVain, InFlight,
                  Queued, Held, Answered
    <2>. QED
      BY <1>1, <1>4, <2>1 DEF SetUp, StartCollect, workerVars, orphans
  <1>5. ASSUME NEW d \in Doc, PutJob(d) PROVE StepCharged
    <2> DEFINE j == [step |-> step, doc |-> d]
    <2>1. /\ Queued' = Queued \cup {j} /\ j.step = step
          /\ UNCHANGED <<resultqueue, hand>>
      BY <1>5, JobPut DEF IInv
    <2>2. processing' = processing \cup {Key(j)} /\ step' = step
      BY <1>5 DEF PutJob
    <2>3. InFlight' = InFlight \cup {j}
      BY <2>1 DEF InFlight, Held, Answered
    <2> HIDE DEF j
    <2>4. WaitedForInVain' \subseteq WaitedForInVain
      BY <2>1, <2>2, <2>3 DEF WaitedForInVain, Key
    <2>. QED
      BY <1>1, <1>5, <2>4 DEF PutJob, workerVars, orphans
  <1>6. ASSUME NEW r \in Range(resultqueue), ReceiveValue(r) PROVE StepCharged
    <2>1. /\ r = Head(resultqueue) /\ resultqueue # <<>>
          /\ resultqueue' = Tail(resultqueue)
          /\ UNCHANGED <<jobqueue, hand, step>>
          /\ processing' = processing \ {Key(r.job)}
      BY <1>6 DEF ReceiveValue, Get, workerVars
    <2>2. Answered \subseteq Answered' \cup {r.job}
      BY <2>1, HeadLost DEF IInv
    <2>3. InFlight \subseteq InFlight' \cup {r.job}
      BY <2>1, <2>2 DEF InFlight, Queued, Held
    <2>4. WaitedForInVain' \subseteq WaitedForInVain
      BY <2>1, <2>3 DEF WaitedForInVain, Key
    <2>. QED
      BY <1>1, <1>6, <2>4 DEF ReceiveValue, workerVars, orphans
  <1>7. ASSUME NEW r \in Range(resultqueue), ReceiveCatastrophe(r) PROVE StepCharged
    BY <1>7, ChargedAtEnd
       DEF ReceiveCatastrophe, Get, workerVars, orphans, Verdict
  <1>8. ASSUME NEW r \in Range(resultqueue), ReceiveInterrupt(r) PROVE StepCharged
    <2>1. /\ processing' = {} /\ phase = "collect"
          /\ verdict' = [verdict EXCEPT ![step] = "raised"]
          /\ UNCHANGED <<orphanTakes, orphanGets, deaths>>
      BY <1>8 DEF ReceiveInterrupt, Get, workerVars, orphans
    <2>2. verdict[step] = "pending" /\ step \in Step
      BY <2>1, StepFacts DEF IInv, Verdicts, TypeOK
    <2>3. GaveUp' = GaveUp
      BY <2>1, <2>2 DEF GaveUp, IInv, TypeOK
    <2>4. Cardinality(WaitedForInVain') = 0
      BY <2>1, FS_EmptySet DEF WaitedForInVain
    <2>. QED
      BY <2>1, <2>3, <2>4, FewInVain DEF StepCharged, Charged
  <1>. QED
    BY <1>2, <1>3, <1>4, <1>5, <1>6, <1>7, <1>8 DEF ServerNext, Receive

(* A job is lost with the process that holds it, or to the get() of one    *)
(* that died waiting; a result to the get() of a command given up.         *)
LEMMA ChargedOthers ==
  ASSUME IInv, OthersNext
  PROVE  StepCharged
  <1>0. UNCHANGED serverVars
    BY OthersFlow DEF IInv
  <1>1. GaveUp' = GaveUp
    BY <1>0 DEF GaveUp, serverVars
  <1>2. ASSUME InFlight \subseteq InFlight'
        PROVE  Cardinality(WaitedForInVain') <= Cardinality(WaitedForInVain)
    BY <1>0, <1>2, NoneLost, FewInVain, FS_Subset
  <1>3. ASSUME NEW j, InFlight \subseteq InFlight' \cup {j}
        PROVE  Cardinality(WaitedForInVain') <= Cardinality(WaitedForInVain) + 1
    BY <1>0, <1>3, OneLost, FewInVain, OneMore
  <1>4. ASSUME InFlight \subseteq InFlight', UNCHANGED <<orphans, deaths>>
        PROVE  StepCharged
    BY <1>1, <1>2, <1>4 DEF StepCharged, Charged, orphans
  <1>5. ASSUME NEW w \in Worker, Take(w) PROVE StepCharged
    <2>1. Queued \subseteq Queued' \cup {Head(jobqueue)}
      BY <1>5, JobTaken DEF Take, IInv
    <2>2. Held \cup {Head(jobqueue)} \subseteq Held'
      <3>1. hand' = [hand EXCEPT ![w] = {Head(jobqueue)}] /\ hand[w] = {}
        BY <1>5 DEF Take
      <3>2. \A v \in Worker : hand[v] \subseteq hand'[v]
        BY <3>1 DEF IInv, TypeOK
      <3>. QED
        BY <3>1, <3>2 DEF Held, IInv, TypeOK
    <2>3. InFlight \subseteq InFlight'
      BY <1>5, <2>1, <2>2 DEF InFlight, Answered, Take
    <2>. QED
      BY <1>4, <1>5, <2>3 DEF Take
  <1>6. ASSUME NEW w \in Worker,
               NEW kind \in {"value", "interrupt", "catastrophe"}, Finish(w, kind)
        PROVE  StepCharged
    <2>1. PICK j \in hand[w] : resultqueue' = resultqueue \o Answer(j, kind)
      BY <1>6 DEF Finish
    <2>2. j \in Job /\ hand[w] = {j}
      BY <2>1 DEF IInv, TypeOK, OnePlace
    <2>3. Answered' = Answered \cup {j}
      BY <2>1, <2>2, ResultPut DEF IInv
    <2>4. Held \subseteq Held' \cup {j}
      BY <1>6, <2>2 DEF Finish, Held, IInv, TypeOK
    <2>5. InFlight \subseteq InFlight'
      BY <1>6, <2>3, <2>4 DEF InFlight, Queued, Finish
    <2>. QED
      BY <1>4, <1>6, <2>5 DEF Finish
  <1>7. ASSUME NEW w \in Worker, Die(w) PROVE StepCharged
    <2>1. /\ UNCHANGED <<jobqueue, resultqueue, orphanGets>>
          /\ deaths' = deaths + 1
          /\ hand' = [hand EXCEPT ![w] = {}]
          /\ \/ orphanTakes' = orphanTakes
             \/ hand[w] = {} /\ orphanTakes' = orphanTakes + 1
      BY <1>7 DEF Die, orphans
    <2>2. CASE hand[w] = {}
      <3>1. hand' = hand
        BY <2>1, <2>2 DEF IInv, TypeOK
      <3>2. InFlight \subseteq InFlight'
        BY <2>1, <3>1 DEF InFlight, Queued, Held, Answered
      <3>. QED
        BY <1>1, <1>2, <2>1, <3>2 DEF StepCharged, Charged
    <2>3. CASE hand[w] # {}
      <3>1. PICK j : hand[w] = {j}
        <4>1. PICK j : j \in hand[w]
          BY <2>3
        <4>2. hand[w] = {j}
          BY <4>1 DEF IInv, OnePlace
        <4>. QED
          BY <4>2
      <3>2. Held \subseteq Held' \cup {j}
        BY <2>1, <3>1 DEF Held, IInv, TypeOK
      <3>3. InFlight \subseteq InFlight' \cup {j}
        BY <2>1, <3>2 DEF InFlight, Queued, Answered
      <3>. QED
        BY <1>1, <1>3, <2>1, <2>3, <3>3 DEF StepCharged, Charged
    <2>. QED
      BY <2>2, <2>3
  <1>8. ASSUME NEW w \in Worker, Join(w) PROVE StepCharged
    <2>1. InFlight' = InFlight
      BY <1>8 DEF Join, InFlight, Queued, Held, Answered
    <2>. QED
      BY <1>4, <1>8, <2>1 DEF Join
  <1>9. ASSUME NEW w \in Worker, Leave(w) PROVE StepCharged
    <2>1. processing' = {} /\ UNCHANGED <<orphanTakes, orphanGets, deaths>>
      BY <1>0, <1>9 DEF Leave, ShutDown, IInv, Phases, serverVars, orphans
    <2>2. Cardinality(WaitedForInVain') = 0
      BY <2>1, FS_EmptySet DEF WaitedForInVain
    <2>. QED
      BY <1>1, <2>1, <2>2, FewInVain DEF StepCharged, Charged
  <1>10. CASE LoseJob
    <2>1. Queued \subseteq Queued' \cup {Head(jobqueue)}
      BY <1>10, JobTaken DEF LoseJob, IInv
    <2>2. InFlight \subseteq InFlight' \cup {Head(jobqueue)}
      BY <1>10, <2>1 DEF InFlight, Held, Answered, LoseJob, workerVars
    <2>3. /\ orphanTakes = orphanTakes' + 1 /\ orphanGets' = orphanGets
          /\ deaths' = deaths
      BY <1>10 DEF LoseJob, workerVars, IInv, TypeOK
    <2>. QED
      BY <1>1, <1>3, <2>2, <2>3 DEF StepCharged, Charged
  <1>11. CASE LoseResult
    <2>1. Answered \subseteq Answered' \cup {Head(resultqueue).job}
      BY <1>11, HeadLost DEF LoseResult, IInv
    <2>2. InFlight \subseteq InFlight' \cup {Head(resultqueue).job}
      BY <1>11, <2>1 DEF InFlight, Held, Queued, LoseResult, workerVars
    <2>3. /\ orphanTakes' = orphanTakes /\ orphanGets = orphanGets' + 1
          /\ deaths' = deaths
      BY <1>11 DEF LoseResult, workerVars, IInv, TypeOK
    <2>. QED
      BY <1>1, <1>3, <2>2, <2>3 DEF StepCharged, Charged
  <1>. QED
    BY <1>5, <1>6, <1>7, <1>8, <1>9, <1>10, <1>11 DEF OthersNext, WorkerNext

(* _queue_jobs never waits for more jobs that are nowhere than workers     *)
(* have died and commands have been given up: everything else it waits for *)
(* is in a queue or in a worker's hands, and will be answered.             *)
THEOREM WaitsJustly == Spec => []WaitsForSomething
  <1>1. Init => Spent
    <2> SUFFICES ASSUME Init PROVE Spent
      OBVIOUS
    <2>1. Cardinality(WaitedForInVain) = 0
      BY FS_EmptySet DEF Init, WaitedForInVain
    <2>2. Cardinality(GaveUp) \in Nat
      BY InvInit, FewInVain
    <2>. QED
      BY <2>1, <2>2 DEF Init, Spent, Covered
  <1>2. IInv /\ Spent /\ [Next]_vars => Spent'
    <2>1. ASSUME UNCHANGED vars, Spent PROVE Spent'
      <3>1. WaitedForInVain' = WaitedForInVain /\ GaveUp' = GaveUp
        BY <2>1 DEF vars, WaitedForInVain, GaveUp, InFlight, Queued, Held,
                    Answered
      <3>. QED
        BY <2>1, <3>1 DEF vars, Spent
    <2>. QED
      BY <2>1, InvStep, ChargedServer, ChargedOthers, SpentKept
         DEF Next, OthersNext
  <1>3. IInv /\ Spent => WaitsForSomething
    <2> SUFFICES ASSUME IInv, Spent PROVE WaitsForSomething
      OBVIOUS
    <2>1. /\ orphanTakes \in Nat /\ orphanGets \in Nat /\ deaths \in Nat
      BY DEF IInv, TypeOK
    <2>. QED
      BY <2>1, FewInVain DEF Spent, Covered, WaitsForSomething, GaveUp
  <1>. QED
    BY <1>1, <1>2, <1>3, InvCorrect, PTL DEF Spec
=============================================================================
