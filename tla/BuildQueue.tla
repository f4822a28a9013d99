----------------------------- MODULE BuildQueue -----------------------------
(***************************************************************************)
(* Distributed builds (manager.py, --buildserver and --buildqueue): the    *)
(* control process runs a list of commands over repositories.  For each    *)
(* command _queue_jobs puts one job per (basefile, version) on a shared    *)
(* job queue and collects results from a shared result queue; worker       *)
(* processes on any number of clients run _build_worker.  Both queues      *)
(* outlive the command, and a result names its repository alias and its    *)
(* (basefile, version), but not the command it is the result of.           *)
(***************************************************************************)
EXTENDS Naturals, Sequences, FiniteSets, Functions

CONSTANTS
  Alias,       \* repository aliases
  Doc,         \* (basefile, version) pairs
  Worker,      \* slots for worker processes on the clients
  Plan,        \* the commands, in order: [alias, docs] (the job's iterable)
  External,    \* TRUE: --buildqueue, the queues outlive the control process
  MaxDeaths    \* bound on the number of worker processes that die

ASSUME PlanAssumption ==
  /\ Plan \in Seq([alias : Alias, docs : SUBSET Doc])
  /\ Plan # <<>>
  /\ \A i \in DOMAIN Plan : IsFiniteSet(Plan[i].docs)
ASSUME BoundAssumption == MaxDeaths \in Nat /\ External \in BOOLEAN

Step == DOMAIN Plan

(* A job dict: classname, command and config are those of its step. *)
Job == [step : Step, doc : Doc]

(* What _build_worker puts on the result queue.  "value": outdict with     *)
(* whatever _run_class_with_basefile returned, an exception triple         *)
(* included; "interrupt": the _WrappedKeyboardInterrupt triple;            *)
(* "catastrophe": the substitute dict put when outdict cannot be pickled,  *)
(* which has no 'alias'.  The field job is the job that was really run.    *)
Result == [job : Job, kind : {"value", "interrupt", "catastrophe"}]

(* Mutant: the alias of the result is not looked at. *)
KeyOfDoc(j) == <<CHOOSE a \in Alias : TRUE, j.doc>>

(* What a result is discarded from processing by: (alias, (basefile,       *)
(* version)).                                                              *)
Key(j) == <<Plan[j.step].alias, j.doc>>

JobsOf(i) == [step : {i}, doc : Plan[i].docs]

VARIABLES
  step,         \* index of the command being run
  phase,        \* "setup", "put", "collect", or "over": run() has returned
  unput,        \* the part of the iterable _queue_jobs has not put yet
  processing,   \* the keys _queue_jobs waits for
  jobqueue,
  resultqueue,
  orphanTakes,  \* jobqueue.get() calls of processes that are gone
  orphanGets,   \* resultqueue.get() calls cut short by an alarm
  alarm,        \* a SIGALRM is pending in the control process
  res,          \* what each command has collected
  alive,        \* worker processes that run _build_worker
  hand,         \* the job a worker process is running, as a set
  deaths,       \* number of worker processes that died
  verdict,      \* history: how each command ended
  done          \* history: jobs whose command has run to its end

serverVars == <<step, phase, unput, processing, alarm, res, verdict>>
workerVars == <<alive, hand, deaths, done>>
orphans == <<orphanTakes, orphanGets>>
vars == <<step, phase, unput, processing, jobqueue, resultqueue, orphanTakes,
          orphanGets, alarm, res, alive, hand, deaths, verdict, done>>

Verdict == {"pending", "nothing", "returned", "gaveup", "raised"}

Init ==
  /\ step = 1
  /\ phase = "setup"
  /\ unput = {}
  /\ processing = {}
  /\ jobqueue = <<>>
  /\ resultqueue = <<>>
  /\ orphanTakes = 0
  /\ orphanGets = 0
  /\ alarm = FALSE
  /\ res = [i \in Step |-> <<>>]
  /\ alive = Worker
  /\ hand = [w \in Worker |-> {}]
  /\ deaths = 0
  /\ verdict = [i \in Step |-> "pending"]
  /\ done = {}

-----------------------------------------------------------------------------
(* The control process. *)

LastCommand == step = Len(Plan)

(* The command is over; run() goes on with the next one (it logs and       *)
(* swallows an Exception), or returns.                                     *)
EndCommand(v) ==
  /\ verdict' = [verdict EXCEPT ![step] = v]
  /\ processing' = {}
  /\ unput' = {}
  /\ IF LastCommand
       THEN phase' = "over" /\ step' = step
       ELSE phase' = "setup" /\ step' = step + 1

(* cls.setup returned False: "Nothing to do!", and no teardown. *)
NothingToDo ==
  /\ phase = "setup"
  /\ EndCommand("nothing")
  /\ UNCHANGED <<jobqueue, resultqueue, alarm, res, workerVars, orphans>>

SetUp ==
  /\ phase = "setup"
  /\ phase' = "put"
  /\ unput' = Plan[step].docs
  /\ UNCHANGED <<step, processing, jobqueue, resultqueue, alarm, res, verdict,
                 workerVars, orphans>>

PutJob(d) ==
  /\ phase = "put"
  /\ d \in unput
  /\ LET j == [step |-> step, doc |-> d] IN
       /\ jobqueue' = Append(jobqueue, j)
       /\ processing' = processing \cup {Key(j)}
  /\ unput' = unput \ {d}
  /\ UNCHANGED <<step, phase, resultqueue, alarm, res, verdict, workerVars,
                 orphans>>

(* No job at all: _queue_jobs returns before it touches the alarm. *)
NoJobs ==
  /\ phase = "put"
  /\ unput = {}
  /\ processing = {}
  /\ EndCommand("returned")
  /\ UNCHANGED <<jobqueue, resultqueue, alarm, res, workerVars, orphans>>

StartCollect ==
  /\ phase = "put"
  /\ unput = {}
  /\ processing # {}
  /\ phase' = "collect"
  /\ UNCHANGED <<step, unput, processing, jobqueue, resultqueue, alarm, res,
                 verdict, workerVars, orphans>>

(* resultqueue.get(), then signal.alarm(timeout_length). *)
Get(r) ==
  /\ phase = "collect"
  /\ processing # {}
  /\ resultqueue # <<>>
  /\ r = Head(resultqueue)
  /\ resultqueue' = Tail(resultqueue)
  /\ alarm' = TRUE

(* A result is kept if it is of this command's repository. *)
Kept(r) ==
  IF Plan[r.job.step].alias = Plan[step].alias
    THEN [res EXCEPT ![step] = Append(@, r)]
    ELSE res

(* A result, possibly a straggler of an earlier command. *)
ReceiveValue(r) ==
  /\ Get(r)
  /\ r.kind = "value"
  /\ processing' = processing \ {Key(r.job)}
  /\ res' = Kept(r)
  /\ UNCHANGED <<step, phase, unput, jobqueue, verdict, workerVars, orphans>>

(* r['alias'] raises KeyError, with the alarm armed. *)
ReceiveCatastrophe(r) ==
  /\ Get(r)
  /\ r.kind = "catastrophe"
  /\ EndCommand("raised")
  /\ UNCHANGED <<jobqueue, res, workerVars, orphans>>

(* raise KeyboardInterrupt: run() does not catch it. *)
ReceiveInterrupt(r) ==
  /\ Get(r)
  /\ r.kind = "interrupt"
  /\ phase' = "over"
  /\ verdict' = [verdict EXCEPT ![step] = "raised"]
  /\ processing' = {}
  /\ UNCHANGED <<step, unput, jobqueue, res, workerVars, orphans>>

(* Mutant: the TimeoutError is swallowed and the waiting goes on. *)
GiveUpOnce ==
  /\ phase = "collect"
  /\ processing # {}
  /\ alarm
  /\ resultqueue = <<>>
  /\ alarm' = FALSE
  /\ orphanGets' = orphanGets + 1
  /\ UNCHANGED <<step, phase, unput, processing, jobqueue, resultqueue, res,
                 verdict, workerVars, orphanTakes>>

(* 900 seconds after the last result the blocked get() raises              *)
(* TimeoutError: processing.clear(), the loop ends, and the command        *)
(* returns what it has.  The queue server goes on serving the get().       *)
GiveUp ==
  /\ phase = "collect"
  /\ processing # {}
  /\ alarm
  /\ resultqueue = <<>>
  /\ alarm' = FALSE
  /\ EndCommand("gaveup")
  /\ orphanGets' = orphanGets + 1
  /\ UNCHANGED <<jobqueue, resultqueue, res, workerVars, orphanTakes>>

(* processing is empty: signal.alarm(0), return res; then cls.teardown. *)
Return ==
  /\ phase = "collect"
  /\ processing = {}
  /\ alarm' = FALSE
  /\ EndCommand("returned")
  /\ UNCHANGED <<jobqueue, resultqueue, res, workerVars, orphans>>

(* An alarm left armed by a command that raised goes off outside the try   *)
(* block of a later command: TimeoutError ends that command.               *)
StrayAlarm ==
  /\ phase \in {"setup", "put"}
  /\ alarm
  /\ alarm' = FALSE
  /\ EndCommand("raised")
  /\ UNCHANGED <<jobqueue, resultqueue, res, workerVars, orphans>>

Receive ==
  \E r \in Range(resultqueue) :
    ReceiveValue(r) \/ ReceiveCatastrophe(r) \/ ReceiveInterrupt(r)

-----------------------------------------------------------------------------
(* The worker processes. *)

(* run() has returned and has shut its own queue server down. *)
ShutDown == phase = "over" /\ ~External

(* jobqueue.get() *)
Take(w) ==
  /\ w \in alive
  /\ hand[w] = {}
  /\ jobqueue # <<>>
  /\ ~ShutDown
  /\ hand' = [hand EXCEPT ![w] = {Head(jobqueue)}]
  /\ jobqueue' = Tail(jobqueue)
  /\ UNCHANGED <<serverVars, orphans, resultqueue, alive, deaths, done>>

(* Mutant: the answer is put once more after a failed attempt. *)
AnswerTwice(j, kind) ==
  IF kind = "value" THEN <<[job |-> j, kind |-> kind], [job |-> j, kind |-> kind]>>
                    ELSE <<[job |-> j, kind |-> kind]>>

(* Mutant: a result that cannot be pickled is not replaced by anything. *)
AnswerIfPicklable(j, kind) ==
  IF kind = "catastrophe" THEN <<>> ELSE <<[job |-> j, kind |-> kind]>>

(* outdict, or its substitute if pickling it raised. *)
Answer(j, kind) == <<[job |-> j, kind |-> kind]>>

(* Mutant: a job whose result cannot be pickled is queued again. *)
FinishRequeuing(w, kind) ==
  /\ ~ShutDown
  /\ \E j \in hand[w] :
       /\ resultqueue' = resultqueue \o Answer(j, kind)
       /\ jobqueue' =
            IF kind = "catastrophe" THEN Append(jobqueue, j) ELSE jobqueue
       /\ done' = IF kind = "interrupt" THEN done ELSE done \cup {j}
  /\ hand' = [hand EXCEPT ![w] = {}]
  /\ UNCHANGED <<serverVars, orphans, alive, deaths>>

(* The command returns or raises, or is interrupted, and the result is put *)
(* on the result queue.                                                    *)
Finish(w, kind) ==
  /\ ~ShutDown
  /\ \E j \in hand[w] :
       /\ resultqueue' = resultqueue \o Answer(j, kind)
       /\ done' = IF kind = "interrupt" THEN done ELSE done \cup {j}
  /\ hand' = [hand EXCEPT ![w] = {}]
  /\ UNCHANGED <<serverVars, orphans, jobqueue, alive, deaths>>

(* The process is killed: the job it had taken is nowhere any more, or it  *)
(* was waiting for one in a get() that the queue server goes on serving.   *)
Die(w) ==
  /\ w \in alive
  /\ deaths < MaxDeaths
  /\ deaths' = deaths + 1
  /\ alive' = alive \ {w}
  /\ hand' = [hand EXCEPT ![w] = {}]
  /\ \/ UNCHANGED orphanTakes
     \/ hand[w] = {} /\ orphanTakes' = orphanTakes + 1
  /\ UNCHANGED <<serverVars, jobqueue, resultqueue, orphanGets, done>>

(* A buildclient is started and connects to the running queue server:      *)
(* clients "can come and go at will".                                      *)
Join(w) ==
  /\ w \notin alive
  /\ ~ShutDown
  /\ alive' = alive \cup {w}
  /\ UNCHANGED <<serverVars, orphans, jobqueue, resultqueue, hand, deaths,
                 done>>

(* The queue server is gone: get() or put() fails and the worker ends,     *)
(* after running the job it has in hand.                                   *)
Leave(w) ==
  /\ ShutDown
  /\ w \in alive
  /\ alive' = alive \ {w}
  /\ done' = done \cup hand[w]
  /\ hand' = [hand EXCEPT ![w] = {}]
  /\ UNCHANGED <<serverVars, orphans, jobqueue, resultqueue, deaths>>

-----------------------------------------------------------------------------
(* The queue server (multiprocessing.managers): a get() whose caller is    *)
(* gone takes an element of the queue like any other get(), and then has   *)
(* no one to send it to.                                                   *)

LoseJob ==
  /\ orphanTakes > 0
  /\ jobqueue # <<>>
  /\ jobqueue' = Tail(jobqueue)
  /\ orphanTakes' = orphanTakes - 1
  /\ UNCHANGED <<serverVars, workerVars, resultqueue, orphanGets>>

LoseResult ==
  /\ orphanGets > 0
  /\ resultqueue # <<>>
  /\ resultqueue' = Tail(resultqueue)
  /\ orphanGets' = orphanGets - 1
  /\ UNCHANGED <<serverVars, workerVars, jobqueue, orphanTakes>>

-----------------------------------------------------------------------------
ServerNext ==
  \/ NothingToDo \/ SetUp \/ NoJobs \/ StartCollect
  \/ \E d \in Doc : PutJob(d)
  \/ Receive \/ GiveUp \/ Return \/ StrayAlarm

WorkerNext(w) ==
  \/ Take(w)
  \/ \E kind \in {"value", "interrupt", "catastrophe"} : Finish(w, kind)
  \/ Die(w) \/ Join(w) \/ Leave(w)

Next ==
  \/ ServerNext
  \/ \E w \in Worker : WorkerNext(w)
  \/ LoseJob \/ LoseResult

Spec == Init /\ [][Next]_vars

(* The control process is never suspended: it is blocked only in get(),    *)
(* and a pending alarm does go off.  A worker goes on taking jobs, and the *)
(* command it runs ends.  Nothing makes a process die or a client join.    *)
Fairness ==
  /\ WF_vars(ServerNext)
  /\ \A w \in Worker :
       /\ WF_vars(Take(w))
       /\ WF_vars(\E kind \in {"value", "interrupt", "catastrophe"} :
                    Finish(w, kind))

FairSpec == Spec /\ Fairness

-----------------------------------------------------------------------------
(* Where a job can be between put() and the server's get(). *)
Held == UNION {hand[w] : w \in Worker}
Queued == Range(jobqueue)
Answered == {r.job : r \in Range(resultqueue)}
InFlight == Queued \cup Held \cup Answered

(* No earlier command of the same repository was abandoned with jobs still *)
(* in flight.                                                              *)
Clean(i) ==
  \A k \in Step : k < i /\ Plan[k].alias = Plan[i].alias
                    => verdict[k] \in {"returned", "nothing"}

(* The types of the variables. *)
TypeOK ==
  /\ step \in Step
  /\ phase \in {"setup", "put", "collect", "over"}
  /\ unput \subseteq Doc
  /\ processing \subseteq Alias \X Doc
  /\ jobqueue \in Seq(Job)
  /\ resultqueue \in Seq(Result)
  /\ orphanTakes \in Nat
  /\ orphanGets \in Nat
  /\ alarm \in BOOLEAN
  /\ res \in [Step -> Seq(Result)]
  /\ alive \subseteq Worker
  /\ hand \in [Worker -> SUBSET Job]
  /\ deaths \in Nat
  /\ verdict \in [Step -> Verdict]
  /\ done \subseteq Job

(* A command of a repository none of whose earlier commands was abandoned  *)
(* returns normally only when every one of its jobs has been run, with     *)
(* exactly one result for each of them: _queue_jobs's bookkeeping by       *)
(* (alias, (basefile, version)) is enough as long as no straggler of the   *)
(* same repository is about.                                               *)
CleanCommandComplete ==
  \A i \in Step : verdict[i] = "returned" /\ Clean(i) =>
    /\ JobsOf(i) \subseteq done
    /\ {r.job : r \in Range(res[i])} = JobsOf(i)
    /\ Len(res[i]) = Cardinality(Plan[i].docs)

(* The keys _queue_jobs waits for although their jobs of this command are  *)
(* nowhere: no result will ever come for them.                             *)
WaitedForInVain ==
  {k \in processing : ~ \E j \in InFlight : j.step = step /\ Key(j) = k}

(* While _queue_jobs waits, each key it waits for has its job of this very *)
(* command in one of the queues or in a worker's hands, but for at most    *)
(* one job per worker process that died and one per command given up.      *)
WaitsForSomething ==
  Cardinality(WaitedForInVain)
    <= deaths + Cardinality({i \in Step : verdict[i] = "gaveup"})

(* A job is in one place only and is never run twice: two workers never    *)
(* hold the same job, a held job is not queued, and a job already run is   *)
(* neither queued nor held.                                                *)
NoJobRunTwice ==
  /\ IsInjective(jobqueue)
  /\ \A v, w \in Worker : v # w => hand[v] \cap hand[w] = {}
  /\ Queued \cap Held = {}
  /\ done \cap (Queued \cup Held) = {}

(* No result is kept twice, by one command or by two: the result of a job  *)
(* is read once, whichever command is waiting when it comes, although      *)
(* workers die, jobs are lost and commands are given up.                   *)
NoResultKeptTwice ==
  \A i, k \in Step : \A m \in DOMAIN res[i], n \in DOMAIN res[k] :
    res[i][m].job = res[k][n].job => i = k /\ m = n

(* run()'s promise for --all: a command that returns without giving up has *)
(* been run for every file.                                                *)
RunForEveryFile ==
  \A i \in Step : verdict[i] = "returned" => JobsOf(i) \subseteq done

(* Once a first result has armed the alarm, the command ends, whatever     *)
(* workers die: silence is cut short by the alarm and results are finite.  *)
ArmedCommandEnds ==
  \A i \in Step :
    (step = i /\ phase = "collect" /\ alarm) ~> (step # i \/ phase = "over")

(* If no worker dies and no command is given up, the whole build comes to  *)
(* an end, also over commands without documents.                           *)
BuildEnds ==
  [](deaths = 0 /\ \A i \in Step : verdict[i] # "gaveup") => <>(phase = "over")
=============================================================================
