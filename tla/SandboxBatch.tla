---------------------------- MODULE SandboxBatch ----------------------------
(***************************************************************************)
(* A batch of the harness: ParallelOrchestrator.run submits one job per    *)
(* specification to a thread pool, collects the records as the jobs end,   *)
(* cancels what is still queued when a job failed and fail_fast is set,    *)
(* waits for the pool and writes the report.  A job is one E2BExecutor:    *)
(* it creates a remote sandbox, prepares it, delivers the plan, runs it    *)
(* and kills the sandbox.                                                  *)
(*                                                                         *)
(* A sandbox lives at the provider until it is killed or its 600 seconds   *)
(* are over.  One that was made although create raised, and one that kill  *)
(* failed to end, stay there: nobody in the batch tries to end them again, *)
(* and they may outlast it.                                                *)
(***************************************************************************)
EXTENDS Naturals, FiniteSets

CONSTANTS
  NumSpecs,      \* how many runs the batch has; they are submitted in this order
  Concurrency,   \* how many of them run at a time
  FailFast       \* the values of fail_fast that are looked at

ASSUME BatchAssumption ==
  /\ NumSpecs \in Nat \ {0} /\ Concurrency \in Nat \ {0}
  /\ FailFast \subseteq BOOLEAN

Run == 1 .. NumSpecs

LeftBy == {"create", "retry", "kill"}

VARIABLES
  failFast,   \* the argument fail_fast
  main,       \* what the calling thread does
  next,       \* the job it submits or cancels next
  records,    \* the jobs whose records it has collected
  failures,   \* those of them it lists as failures
  report,     \* how many jobs the report says completed, 0 before it is written
  job,        \* where each job is
  status,     \* the status of its result
  held,       \* the jobs whose executor has a sandbox_id
  alive,      \* the jobs whose sandbox exists, is known to the executor and was not killed yet
  left        \* the other sandboxes that exist: the job, and the call that left it behind

calling == <<main, next, records, failures, report>>
boxes   == <<held, alive, left>>
vars == <<failFast, calling, job, status, boxes>>

Init ==
  /\ failFast \in FailFast
  /\ main = "submit" /\ next = 1 /\ records = {} /\ failures = {} /\ report = 0
  /\ job = [s \in Run |-> "new"] /\ status = [s \in Run |-> "none"]
  /\ held = {} /\ alive = {} /\ left = {}

-----------------------------------------------------------------------------
(* ParallelOrchestrator.run *)

Submit ==
  /\ main = "submit"
  /\ job' = [job EXCEPT ![next] = "queued"]
  /\ IF next = NumSpecs
       THEN main' = "collect" /\ next' = 1
       ELSE next' = next + 1 /\ UNCHANGED main
  /\ UNCHANGED <<failFast, records, failures, report, status, boxes>>

\* Mutant: fail_fast leaves the loop before the failure is noted.
CollectLeavesFirst(s) ==
  /\ main = "collect" /\ job[s] = "done" /\ s \notin records
  /\ records' = records \cup {s}
  /\ IF status[s] = "FAILED"
       THEN /\ failures' = IF failFast THEN failures ELSE failures \cup {s}
            /\ main' = IF failFast THEN "cancel" ELSE main
       ELSE UNCHANGED <<failures, main>>
  /\ UNCHANGED <<failFast, next, report, job, status, boxes>>

\* as_completed yields the future of a job that ended, of several in any order.
Collect(s) ==
  /\ main = "collect" /\ job[s] = "done" /\ s \notin records
  /\ records' = records \cup {s}
  /\ IF status[s] = "FAILED"
       THEN /\ failures' = failures \cup {s}
            /\ main' = IF failFast THEN "cancel" ELSE main
       ELSE UNCHANGED <<failures, main>>
  /\ UNCHANGED <<failFast, next, report, job, status, boxes>>

AllCollected ==
  /\ main = "collect" /\ records = Run
  /\ main' = "close"
  /\ UNCHANGED <<failFast, next, records, failures, report, job, status, boxes>>

\* Future.cancel, one after the other: a job a worker has taken goes on.
CancelFuture ==
  /\ main = "cancel"
  /\ job' = [job EXCEPT ![next] = IF @ = "queued" THEN "cancelled" ELSE @]
  /\ IF next = NumSpecs
       THEN main' = "close" /\ UNCHANGED next
       ELSE next' = next + 1 /\ UNCHANGED main
  /\ UNCHANGED <<failFast, records, failures, report, status, boxes>>

\* Mutant: the pool is left when every job has ended, a cancelled one never does.
SettledDone(s) == job[s] = "done"

Settled(s) == job[s] \in {"done", "cancelled"}

Completed == {s \in records : status[s] = "COMPLETED"}

\* The pool is left when its threads are; then the report counts the collected records.
Close ==
  /\ main = "close" /\ \A s \in Run : Settled(s)
  /\ main' = "done"
  /\ report' = Cardinality(Completed)
  /\ UNCHANGED <<failFast, next, records, failures, job, status, boxes>>

-----------------------------------------------------------------------------
(* One job: _run_one with an E2BExecutor *)

Working == {"create", "boot", "retry", "boot_retry", "deliver", "run", "cleanup"}

Workers == Cardinality({s \in Run : job[s] \in Working})

Goto(s, p) == job' = [job EXCEPT ![s] = p]

Result(s, r) == status' = [status EXCEPT ![s] = r] /\ Goto(s, "cleanup")

\* A worker takes the oldest job of the queue; the executor may fail to be made.
Begin(s) ==
  /\ job[s] = "queued" /\ \A t \in Run : job[t] = "queued" => s <= t
  /\ Workers < Concurrency
  /\ \/ Goto(s, "create") /\ UNCHANGED status
     \/ Goto(s, "done") /\ status' = [status EXCEPT ![s] = "FAILED"]
  /\ UNCHANGED <<failFast, calling, boxes>>

\* Mutant: the executor learns of its sandbox only when that is bootstrapped.
CreateForgets(s) ==
  /\ job[s] \in {"create", "retry"}
  /\ alive' = alive \cup {s}
  /\ Goto(s, IF job[s] = "create" THEN "boot" ELSE "boot_retry")
  /\ UNCHANGED <<failFast, calling, status, held, left>>

\* provider.create: prepare is called by _run_one, and again by execute_plan when it got no
\* sandbox.
Create(s) ==
  /\ job[s] \in {"create", "retry"}
  /\ alive' = alive \cup {s} /\ held' = held \cup {s}
  /\ Goto(s, IF job[s] = "create" THEN "boot" ELSE "boot_retry")
  /\ UNCHANGED <<failFast, calling, status, left>>

\* The call raises before a sandbox was made, or when there is one that nobody learns of.
CreateFails(s) ==
  /\ \/ job[s] = "create" /\ Goto(s, "retry") /\ UNCHANGED status
     \/ job[s] = "retry" /\ Result(s, "FAILED")
  /\ left' = left \/ left' = left \cup {<<s, job[s]>>}
  /\ UNCHANGED <<failFast, calling, held, alive>>

\* ensure_playwright_ready returns or raises.  The first time nobody asks whether prepare
\* succeeded: with a sandbox at hand, execute_plan goes on.
Bootstrap(s) ==
  /\ \/ job[s] \in {"boot", "boot_retry"} /\ Goto(s, "deliver") /\ UNCHANGED status
     \/ job[s] = "boot_retry" /\ Result(s, "FAILED")
  /\ UNCHANGED <<failFast, calling, boxes>>

\* deliver_plan_and_config verifies that the files are there; it raises when they are not.
Deliver(s) ==
  /\ job[s] = "deliver"
  /\ \/ s \in alive /\ Goto(s, "run") /\ UNCHANGED status
     \/ Result(s, "FAILED")
  /\ UNCHANGED <<failFast, calling, boxes>>

\* The script runs and its artifacts are fetched, or neither: a command that fails, in a
\* sandbox that is gone too, is an answer.  Only the local files can raise.
RunScript(s) ==
  /\ job[s] = "run"
  /\ \E r \in {"COMPLETED", "FAILED"} : Result(s, r)
  /\ UNCHANGED <<failFast, calling, boxes>>

\* Mutant: an executor that failed is not cleaned up.
CleanupOfCompleted(s) ==
  /\ job[s] = "cleanup"
  /\ alive' = IF status[s] = "COMPLETED" THEN alive \ {s} ELSE alive
  /\ held' = held \ {s}
  /\ Goto(s, "done")
  /\ UNCHANGED <<failFast, calling, status, left>>

\* The sandbox the executor knows of is killed, or kill fails, answers False and _run_one does
\* not look at it.
Cleanup(s) ==
  /\ job[s] = "cleanup"
  /\ \/ UNCHANGED left
     \/ s \in alive /\ left' = left \cup {<<s, "kill">>}
  /\ alive' = alive \ {s} /\ held' = held \ {s}
  /\ Goto(s, "done")
  /\ UNCHANGED <<failFast, calling, status>>

\* The provider ends a sandbox when its 600 seconds are over.
Expire(s) ==
  /\ \/ s \in alive /\ alive' = alive \ {s} /\ UNCHANGED left
     \/ UNCHANGED alive /\ \E w \in LeftBy : <<s, w>> \in left /\ left' = left \ {<<s, w>>}
  /\ UNCHANGED <<failFast, calling, job, status, held>>

-----------------------------------------------------------------------------
Main == Submit \/ (\E s \in Run : Collect(s)) \/ AllCollected \/ CancelFuture \/ Close

Worker(s) ==
  \/ Begin(s) \/ Create(s) \/ CreateFails(s) \/ Bootstrap(s) \/ Deliver(s) \/ RunScript(s)
  \/ Cleanup(s)

Next == Main \/ (\E s \in Run : Worker(s)) \/ (\E s \in Run : Expire(s))

Spec == Init /\ [][Next]_vars

\* The threads run, and every call of the provider has a timeout.
FairSpec == Spec /\ WF_vars(Main) /\ \A s \in Run : WF_vars(Worker(s))

-----------------------------------------------------------------------------
\* The types of the variables; failures and collected records are of jobs that ended.
TypeOK ==
  /\ failFast \in BOOLEAN
  /\ main \in {"submit", "collect", "cancel", "close", "done"}
  /\ next \in Run /\ records \subseteq Run /\ failures \subseteq records
  /\ report \in 0 .. NumSpecs
  /\ job \in [Run -> Working \cup {"new", "queued", "cancelled", "done"}]
  /\ status \in [Run -> {"none", "COMPLETED", "FAILED"}]
  /\ alive \subseteq held /\ held \subseteq Run /\ left \subseteq Run \X LeftBy

SandboxesOf(s) ==
  {w \in LeftBy : <<s, w>> \in left} \cup IF s \in alive THEN {"in use"} ELSE {}

\* Cleanup follows every step that can fail: a sandbox an executor knows of is in use by a job at
\* work, of which there are no more than workers, or kill was called for it; when the batch has
\* returned none is waiting for that.  What stays at the provider was left by a kill or a create
\* that failed, and however many calls fail that is never more than two sandboxes of one job.
SandboxesAccounted ==
  /\ Cardinality(alive) <= Concurrency
  /\ \A s \in alive : job[s] \in Working
  /\ main = "done" => alive = {}
  /\ \A s \in Run : Cardinality(SandboxesOf(s)) <= 2

\* The report speaks of what happened: it counts every job as completed exactly when all of
\* them completed, it names a failure otherwise, and without fail_fast it names them all.
ReportIsTrue ==
  main = "done" =>
    /\ report = NumSpecs <=> \A s \in Run : status[s] = "COMPLETED"
    /\ report < NumSpecs => failures # {}
    /\ \A s \in failures : status[s] = "FAILED"
    /\ ~failFast => failures = {s \in Run : status[s] = "FAILED"}

\* The batch returns, whatever fails and whatever is cancelled.
BatchEnds == <>(main = "done")

=============================================================================
