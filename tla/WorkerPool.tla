----------------------------- MODULE WorkerPool -----------------------------
(***************************************************************************)
(* A command run on one machine with --processes=N (manager.py,            *)
(* _parallelizejobs): the control process starts N worker processes that   *)
(* share a job queue and a result queue, puts every job, and then          *)
(* _process_resultqueue makes one get() for each job, replacing dead       *)
(* processes before each of them.                                          *)
(***************************************************************************)
EXTENDS Naturals, Sequences, FiniteSets, Functions

CONSTANTS
  Jobs,        \* the iterable: a sequence of [basefile, version]
  Proc,        \* the slots of the N processes
  MaxDeaths    \* bound on the number of processes that die

ASSUME JobsAssumption == Jobs \in Seq(Range(Jobs))
ASSUME BoundAssumption == MaxDeaths \in Nat

(* A job is named by its place in the iterable. *)
Job == DOMAIN Jobs

(* "undecodable": the result was pickled by the worker, but get() raises   *)
(* TypeError when it unpickles it.                                         *)
Result == [job : Job, kind : {"value", "interrupt", "undecodable"}]

VARIABLES
  pc,           \* the control process: "put", "check", "get", "ended"
  outcome,      \* of the command: "running", "returned", "raised"
  put,          \* number of jobs put on the job queue
  got,          \* i of the loop: number of get() calls that came back
  res,          \* results by basefile: the job each one is the result of
  jobqueue,
  resultqueue,
  jammed,       \* a process died holding the job queue's read lock
  alarm,        \* a SIGALRM is pending in the control process
  alive,        \* processes that run
  hand,         \* the job a process is running, as a set
  deaths,       \* number of processes that died
  done,         \* history: jobs that have been run
  lost          \* history: jobs whose result will never arrive

controlVars == <<pc, outcome, put, got, res, alarm>>
vars == <<pc, outcome, put, got, res, jobqueue, resultqueue, jammed, alarm,
          alive, hand, deaths, done, lost>>

Init ==
  /\ pc = "put"
  /\ outcome = "running"
  /\ put = 0
  /\ got = 0
  /\ res = << >>
  /\ jobqueue = <<>>
  /\ resultqueue = <<>>
  /\ jammed = FALSE
  /\ alarm = FALSE
  /\ alive = Proc
  /\ hand = [p \in Proc |-> {}]
  /\ deaths = 0
  /\ done = {}
  /\ lost = {}

-----------------------------------------------------------------------------
(* The control process. *)

MoreToPut == put < Len(Jobs)

(* __queue_jobs_nomanager: one job of the iterable. *)
Put ==
  /\ pc = "put"
  /\ MoreToPut
  /\ jobqueue' = Append(jobqueue, put + 1)
  /\ put' = put + 1
  /\ UNCHANGED <<pc, outcome, got, res, resultqueue, alarm, alive, hand, deaths,
                 done, lost, jammed>>

StartLoop ==
  /\ pc = "put"
  /\ ~MoreToPut
  /\ pc' = "check"
  /\ UNCHANGED <<outcome, put, got, res, jobqueue, resultqueue, alarm, alive,
                 hand, deaths, done, lost, jammed>>

(* Mutant: off by one. *)
OneLeft == got + 1 >= Len(Jobs)

AllRead == got = Len(Jobs)

(* The top of the loop: every process that is not alive is replaced. *)
ReplaceDead ==
  /\ pc = "check"
  /\ ~AllRead
  /\ pc' = "get"
  /\ alive' = Proc
  /\ UNCHANGED <<outcome, put, got, res, jobqueue, resultqueue, alarm, hand,
                 deaths, done, lost, jammed>>

(* The command ends; _finish_multiprocessing terminates every process. *)
EndWith(o) ==
  /\ pc' = "ended"
  /\ outcome' = o
  /\ alive' = {}
  /\ hand' = [p \in Proc |-> {}]

Get(r) ==
  /\ pc = "get"
  /\ resultqueue # <<>>
  /\ r = Head(resultqueue)
  /\ resultqueue' = Tail(resultqueue)

(* Mutant: the results are stored in the order they arrive in. *)
StoredByArrival(r) ==
  LET b == Jobs[got + 1].basefile IN
    [x \in DOMAIN res \cup {b} |-> IF x = b THEN r.job ELSE res[x]]

(* res[r['basefile']] = r['result'] *)
Stored(r) ==
  LET b == Jobs[r.job].basefile IN
    [x \in DOMAIN res \cup {b} |-> IF x = b THEN r.job ELSE res[x]]

(* A result, after which signal.alarm(900). *)
GetValue(r) ==
  /\ Get(r)
  /\ r.kind = "value"
  /\ alarm' = TRUE
  /\ res' = Stored(r)
  /\ got' = got + 1
  /\ pc' = "check"
  /\ UNCHANGED <<outcome, put, jobqueue, alive, hand, deaths, done, lost, jammed>>

(* Mutant: the loop does not count a result it could not decode. *)
GetUndecodableAgain(r) ==
  /\ Get(r)
  /\ r.kind = "undecodable"
  /\ pc' = "check"
  /\ UNCHANGED <<outcome, put, got, res, jobqueue, alarm, alive, hand, deaths,
                 done, lost, jammed>>

(* get() raises TypeError: the loop goes on without a result, and the      *)
(* alarm is not armed again.                                               *)
GetUndecodable(r) ==
  /\ Get(r)
  /\ r.kind = "undecodable"
  /\ got' = got + 1
  /\ pc' = "check"
  /\ UNCHANGED <<outcome, put, res, jobqueue, alarm, alive, hand, deaths, done,
                 lost, jammed>>

(* A _WrappedKeyboardInterrupt: raise KeyboardInterrupt, alarm armed. *)
GetInterrupt(r) ==
  /\ Get(r)
  /\ r.kind = "interrupt"
  /\ alarm' = TRUE
  /\ EndWith("raised")
  /\ UNCHANGED <<put, got, res, jobqueue, deaths, done, lost, jammed>>

(* Mutant: the TimeoutError is swallowed and get() called again. *)
TimeOutOnce ==
  /\ pc = "get"
  /\ alarm
  /\ resultqueue = <<>>
  /\ alarm' = FALSE
  /\ UNCHANGED <<pc, outcome, put, got, res, jobqueue, resultqueue, alive, hand,
                 deaths, done, lost, jammed>>

(* 900 seconds after the last result get() raises TimeoutError, which      *)
(* nothing in _process_resultqueue or _parallelizejobs catches.            *)
TimeOut ==
  /\ pc = "get"
  /\ alarm
  /\ resultqueue = <<>>
  /\ alarm' = FALSE
  /\ EndWith("raised")
  /\ UNCHANGED <<put, got, res, jobqueue, resultqueue, deaths, done, lost, jammed>>

(* Every get() has come back: signal.alarm(0), return the list. *)
Return ==
  /\ pc = "check"
  /\ AllRead
  /\ alarm' = FALSE
  /\ EndWith("returned")
  /\ UNCHANGED <<put, got, res, jobqueue, resultqueue, deaths, done, lost, jammed>>

(* The list that is returned: in the order of the iterable, 0 standing for *)
(* the CATASTROPHIC ERROR entry.                                           *)
Answer ==
  [k \in Job |-> LET b == Jobs[k].basefile
                 IN IF b \in DOMAIN res THEN res[b] ELSE 0]

-----------------------------------------------------------------------------
(* The worker processes. *)

Take(p) ==
  /\ p \in alive
  /\ hand[p] = {}
  /\ jobqueue # <<>>
  /\ ~jammed
  /\ hand' = [hand EXCEPT ![p] = {Head(jobqueue)}]
  /\ jobqueue' = Tail(jobqueue)
  /\ UNCHANGED <<controlVars, resultqueue, alive, deaths, done, lost, jammed>>

(* The job is run and its result put.  "unpicklable": a                    *)
(* multiprocessing.Queue pickles in a feeder thread, so put() raises       *)
(* nothing and the result is dropped.                                      *)
Finish(p, kind) ==
  /\ \E j \in hand[p] :
       /\ done' = IF kind = "interrupt" THEN done ELSE done \cup {j}
       /\ IF kind = "unpicklable"
            THEN lost' = lost \cup {j} /\ UNCHANGED resultqueue
            ELSE /\ resultqueue' = Append(resultqueue, [job |-> j, kind |-> kind])
                 /\ UNCHANGED lost
  /\ hand' = [hand EXCEPT ![p] = {}]
  /\ UNCHANGED <<controlVars, jobqueue, alive, deaths, jammed>>

(* The process is killed, with the job it had taken, or while it waits for *)
(* one, perhaps holding the lock under which a multiprocessing.Queue is    *)
(* read: then no process reads the queue any more.                         *)
Die(p) ==
  /\ p \in alive
  /\ deaths < MaxDeaths
  /\ deaths' = deaths + 1
  /\ alive' = alive \ {p}
  /\ lost' = lost \cup hand[p]
  /\ hand' = [hand EXCEPT ![p] = {}]
  /\ \/ UNCHANGED jammed
     \/ hand[p] = {} /\ jammed' = TRUE
  /\ UNCHANGED <<controlVars, jobqueue, resultqueue, done>>

-----------------------------------------------------------------------------
Kinds == {"value", "interrupt", "undecodable", "unpicklable"}

Control ==
  \/ Put \/ StartLoop \/ ReplaceDead \/ TimeOut \/ Return
  \/ \E r \in Range(resultqueue) :
       GetValue(r) \/ GetUndecodable(r) \/ GetInterrupt(r)

ProcNext(p) ==
  \/ Take(p)
  \/ \E kind \in Kinds : Finish(p, kind)
  \/ Die(p)

Next == Control \/ \E p \in Proc : ProcNext(p)

Spec == Init /\ [][Next]_vars

(* The control process runs, an armed alarm goes off, a process that is    *)
(* alive takes jobs, and the command it runs ends.                         *)
FairSpec ==
  /\ Spec
  /\ WF_vars(Control)
  /\ \A p \in Proc : WF_vars(Take(p)) /\ WF_vars(\E kind \in Kinds : Finish(p, kind))

-----------------------------------------------------------------------------
Held == UNION {hand[p] : p \in Proc}

(* The types of the variables. *)
TypeOK ==
  /\ pc \in {"put", "check", "get", "ended"}
  /\ outcome \in {"running", "returned", "raised"}
  /\ put \in 0..Len(Jobs)
  /\ got \in 0..Len(Jobs)
  /\ DOMAIN res \subseteq {Jobs[k].basefile : k \in Job}
  /\ \A b \in DOMAIN res : res[b] \in Job
  /\ jobqueue \in Seq(Job)
  /\ resultqueue \in Seq(Result)
  /\ jammed \in BOOLEAN
  /\ alarm \in BOOLEAN
  /\ alive \subseteq Proc
  /\ hand \in [Proc -> SUBSET Job]
  /\ deaths \in Nat
  /\ done \subseteq Job
  /\ lost \subseteq Job

(* Nothing disappears: while the command runs, the get() calls that are    *)
(* still to come are as many as the jobs not yet put, queued, being run,   *)
(* answered but not read, or lost with a process or a pickle.  In          *)
(* particular the loop can wait for nothing only after a loss.             *)
Conservation ==
  outcome = "running" =>
    Len(Jobs) - got = (Len(Jobs) - put) + Len(jobqueue) + Cardinality(Held)
                        + Len(resultqueue) + Cardinality(lost)

(* A command that returns has run every job, gives each job a result of a  *)
(* job over the same basefile (its own, unless there are versions of it),  *)
(* and marks as a catastrophe only what could not be decoded, even if      *)
(* processes died.                                                         *)
OwnAnswers ==
  outcome = "returned" =>
    /\ done = Job
    /\ lost = {}
    /\ \A k \in Job :
         Answer[k] # 0 => Jobs[Answer[k]].basefile = Jobs[k].basefile

(* With the alarm armed the command ends, whatever is lost. *)
ArmedPoolEnds == (pc = "get" /\ alarm) ~> (pc = "ended")

(* If no result is ever lost, the job queue is not jammed and a process is *)
(* always alive, the command ends, even if other processes die between two *)
(* jobs.                                                                   *)
EndsIfNothingLost ==
  [](lost = {} /\ ~jammed /\ (pc # "ended" => alive # {})) => <>(pc = "ended")

(* The detailed pool does what a command run promises: it returns only     *)
(* when every job has been run.                                            *)
Abstract == INSTANCE CommandRun WITH pending <- Job \ done
ImplementsCommandRun == Abstract!Spec
=============================================================================
