------------------------- MODULE SandboxBatchProofs -------------------------
(***************************************************************************)
(* Proofs about SandboxBatch: that sandboxes are accounted for and that    *)
(* the report is true, for any number of runs and any concurrency.         *)
(*                                                                         *)
(* Neither property is inductive.  That a kill was tried for every known   *)
(* sandbox when the batch has returned follows from where each job is:     *)
(* only a job at work holds a sandbox, and the batch returns when no job   *)
(* is at work.  How many a job leaves behind follows from the order of the *)
(* calls that leave one: after a second create that failed there is        *)
(* nothing to kill.  The report counts the collected records, so it must be known that these are of     *)
(* jobs whose result can no longer change, and that the loop over them was *)
(* left early only for a failure that is listed.                           *)
(***************************************************************************)
EXTENDS SandboxBatch, FiniteSetTheorems, TLAPS

(* Jobs are submitted in order, each once.                                 *)
Submitted == main = "submit" => \A s \in Run : s >= next => job[s] = "new"

(* A job has a result when its executor is done, not before and not after  *)
(* it was cancelled; only a job at work holds a sandbox; records are of    *)
(* jobs that ended; of a second create and a kill only one leaves a        *)
(* sandbox behind.                                                         *)
JobFits(s) ==
  /\ status[s] = "none" <=> job[s] \notin {"cleanup", "done"}
  /\ s \in held => job[s] \in Working \ {"create", "retry"}
  /\ s \in records => job[s] = "done"
  /\ <<s, "retry">> \in left => job[s] \in {"cleanup", "done"} /\ s \notin held
  /\ <<s, "kill">> \in left => job[s] = "done" /\ <<s, "retry">> \notin left
Jobs == \A s \in Run : JobFits(s)

AtWork == {s \in Run : job[s] \in Working}
Room == Cardinality(AtWork) <= Concurrency

(* The failures are those of the records, and the loop goes on until all   *)
(* are collected or, with fail_fast, until the first failure.              *)
Collected ==
  /\ failures = {s \in records : status[s] = "FAILED"}
  /\ main = "cancel" => failFast /\ failures # {}
  /\ main \in {"close", "done"} => records = Run \/ (failFast /\ failures # {})

Closed == main = "done" => report = Cardinality(Completed) /\ \A s \in Run : Settled(s)

BatchInv == TypeOK /\ Submitted /\ Jobs /\ Room /\ Collected /\ Closed

-----------------------------------------------------------------------------
(* What the constants and the library give.                                *)

LEMMA RunIsFinite ==
  /\ NumSpecs \in Nat \ {0} /\ Concurrency \in Nat \ {0}
  /\ IsFiniteSet(Run) /\ Cardinality(Run) = NumSpecs
<1>1. NumSpecs \in Nat \ {0} /\ Concurrency \in Nat \ {0}
  BY BatchAssumption
<1>2. IsFiniteSet(1 .. NumSpecs) /\ Cardinality(1 .. NumSpecs) = NumSpecs
  BY <1>1, FS_Interval
<1> QED BY <1>1, <1>2 DEF Run

LEMMA PartOfRun ==
  ASSUME NEW S \in SUBSET Run
  PROVE  /\ IsFiniteSet(S) /\ Cardinality(S) \in 0 .. NumSpecs
         /\ Cardinality(S) = NumSpecs => S = Run
<1>1. IsFiniteSet(S) /\ Cardinality(S) <= Cardinality(Run)
  BY RunIsFinite, FS_Subset
<1>2. Cardinality(S) = Cardinality(Run) => S = Run
  BY RunIsFinite, FS_Subset
<1>3. Cardinality(S) \in Nat
  BY <1>1, FS_CardinalityType
<1> QED BY <1>1, <1>2, <1>3, RunIsFinite

LEMMA WorkersAreAtWork == Workers = Cardinality(AtWork)
BY DEF Workers, AtWork

(* Fewer jobs at work, or one more while there was room.                   *)
LEMMA RoomKept ==
  ASSUME Room,
         \/ AtWork' \subseteq AtWork
         \/ Workers < Concurrency /\ \E s \in Run : AtWork' \subseteq AtWork \cup {s}
  PROVE  Room'
<1>1. AtWork \in SUBSET Run /\ AtWork' \in SUBSET Run
  BY DEF AtWork
<1>2. Cardinality(AtWork) \in Nat /\ Cardinality(AtWork') \in Nat /\ IsFiniteSet(AtWork)
  BY <1>1, PartOfRun
<1>3. CASE AtWork' \subseteq AtWork
  <2>1. Cardinality(AtWork') <= Cardinality(AtWork)
    BY <1>2, <1>3, FS_Subset
  <2> QED BY <1>2, <2>1, RunIsFinite DEF Room
<1>4. ASSUME NEW s \in Run, Workers < Concurrency, AtWork' \subseteq AtWork \cup {s}
      PROVE  Room'
  <2>1. /\ IsFiniteSet(AtWork \cup {s})
        /\ Cardinality(AtWork \cup {s}) \in {Cardinality(AtWork), Cardinality(AtWork) + 1}
    BY <1>2, FS_AddElement
  <2>2. Cardinality(AtWork') <= Cardinality(AtWork \cup {s})
    BY <1>4, <2>1, FS_Subset
  <2>3. Cardinality(AtWork) < Concurrency
    BY <1>4, WorkersAreAtWork
  <2>4. Cardinality(AtWork') <= Concurrency
    BY <1>2, <2>1, <2>2, <2>3, RunIsFinite
  <2> QED BY <2>4 DEF Room
<1> QED BY <1>3, <1>4

-----------------------------------------------------------------------------
(* The calling thread.                                                     *)

LEMMA BatchInitially == Init => BatchInv
<1> SUFFICES ASSUME Init PROVE BatchInv
  OBVIOUS
<1>1. TypeOK
  BY RunIsFinite, BatchAssumption DEF Init, TypeOK, Run
<1>2. Submitted /\ Jobs /\ Collected /\ Closed
  BY DEF Init, Submitted, Jobs, JobFits, Working, Collected, Closed
<1>3. AtWork = {}
  BY DEF Init, AtWork, Working
<1>4. Room
  BY <1>3, FS_EmptySet, RunIsFinite DEF Room
<1> QED BY <1>1, <1>2, <1>4 DEF BatchInv

LEMMA SubmitKeeps == BatchInv /\ Submit => BatchInv'
<1> SUFFICES ASSUME BatchInv, Submit PROVE BatchInv'
  OBVIOUS
<1> USE DEF BatchInv
<1>1. /\ main = "submit" /\ next \in 1 .. NumSpecs /\ NumSpecs \in Nat
      /\ job' = [job EXCEPT ![next] = "queued"] /\ job[next] = "new"
      /\ UNCHANGED <<failFast, records, failures, report, status, held, alive, left>>
  BY RunIsFinite DEF Submit, boxes, TypeOK, Run, Submitted
<1>2. \/ main' = "collect" /\ next' = 1
      \/ main' = "submit" /\ next' = next + 1 /\ next # NumSpecs
  BY <1>1 DEF Submit
<1>3. TypeOK'
  BY <1>1, <1>2 DEF TypeOK, Run
<1>4. Submitted'
  BY <1>1, <1>2 DEF Submitted, Run, TypeOK
<1>5. Jobs'
  BY <1>1 DEF Jobs, JobFits, TypeOK, Working
<1>6. AtWork' \subseteq AtWork
  BY <1>1 DEF AtWork, TypeOK, Working
<1>7. Collected' /\ Closed'
  BY <1>1, <1>2 DEF Collected, Closed
<1> QED BY <1>3, <1>4, <1>5, <1>6, <1>7, RoomKept

LEMMA CollectKeeps == ASSUME NEW s \in Run PROVE BatchInv /\ Collect(s) => BatchInv'
<1> SUFFICES ASSUME BatchInv, Collect(s) PROVE BatchInv'
  OBVIOUS
<1> USE DEF BatchInv
<1>1. /\ main = "collect" /\ job[s] = "done" /\ records' = records \cup {s}
      /\ UNCHANGED <<failFast, next, report, job, status, held, alive, left>>
  BY DEF Collect, boxes
<1>2. \/ /\ status[s] = "FAILED" /\ failures' = failures \cup {s}
         /\ main' = IF failFast THEN "cancel" ELSE "collect"
      \/ status[s] # "FAILED" /\ failures' = failures /\ main' = "collect"
  BY <1>1 DEF Collect
<1>3. TypeOK'
  BY <1>1, <1>2 DEF TypeOK
<1>4. Submitted' /\ Jobs' /\ Closed'
  BY <1>1, <1>2 DEF Submitted, Jobs, JobFits, Closed
<1>5. AtWork' \subseteq AtWork
  BY <1>1 DEF AtWork
<1>6. Collected'
  BY <1>1, <1>2 DEF Collected
<1> QED BY <1>3, <1>4, <1>5, <1>6, RoomKept

LEMMA CancelKeeps == BatchInv /\ CancelFuture => BatchInv'
<1> SUFFICES ASSUME BatchInv, CancelFuture PROVE BatchInv'
  OBVIOUS
<1> USE DEF BatchInv
<1>1. /\ main = "cancel" /\ next \in 1 .. NumSpecs /\ NumSpecs \in Nat
      /\ job' = [job EXCEPT ![next] = IF @ = "queued" THEN "cancelled" ELSE @]
      /\ UNCHANGED <<failFast, records, failures, report, status, held, alive, left>>
  BY RunIsFinite DEF CancelFuture, boxes, TypeOK, Run
<1>2. \/ main' = "close" /\ next' = next
      \/ main' = "cancel" /\ next' = next + 1 /\ next # NumSpecs
  BY <1>1 DEF CancelFuture
<1>3. TypeOK'
  BY <1>1, <1>2 DEF TypeOK, Run
<1>4. Submitted' /\ Closed' /\ Collected'
  BY <1>1, <1>2 DEF Submitted, Closed, Collected
<1>5. Jobs'
  BY <1>1 DEF Jobs, JobFits, TypeOK, Working
<1>6. AtWork' \subseteq AtWork
  BY <1>1 DEF AtWork, TypeOK, Working
<1> QED BY <1>3, <1>4, <1>5, <1>6, RoomKept

LEMMA EndKeeps == BatchInv /\ (AllCollected \/ Close) => BatchInv'
<1> SUFFICES ASSUME BatchInv, AllCollected \/ Close PROVE BatchInv'
  OBVIOUS
<1> USE DEF BatchInv
<1>1. UNCHANGED <<failFast, next, records, failures, job, status, held, alive, left>>
  BY DEF AllCollected, Close, boxes
<1>2. Completed \in SUBSET Run
  BY DEF Completed, TypeOK
<1>3. \/ main' = "close" /\ report' = report /\ records = Run
      \/ /\ main = "close" /\ main' = "done" /\ report' = Cardinality(Completed)
         /\ \A s \in Run : Settled(s)
  BY DEF AllCollected, Close
<1>4. TypeOK'
  BY <1>1, <1>2, <1>3, PartOfRun DEF TypeOK
<1>5. Submitted' /\ Jobs'
  BY <1>1, <1>3 DEF Submitted, Jobs, JobFits
<1>6. AtWork' \subseteq AtWork
  BY <1>1 DEF AtWork
<1>7. Collected'
  BY <1>1, <1>3 DEF Collected
<1>8. Completed' = Completed
  BY <1>1 DEF Completed
<1>9. Closed'
  BY <1>1, <1>3, <1>8 DEF Closed, Settled
<1> QED BY <1>4, <1>5, <1>6, <1>7, <1>9, RoomKept

-----------------------------------------------------------------------------
(* A job.                                                                  *)

(* What a step of the worker of s that takes it to p leaves behind.        *)
LeavesBehind(s, p) ==
  /\ left' \subseteq Run \X LeftBy
  /\ \A t \in Run, w \in LeftBy : t # s => (<<t, w>> \in left' <=> <<t, w>> \in left)
  /\ <<s, "retry">> \in left' => p \in {"cleanup", "done"} /\ s \notin held'
  /\ <<s, "kill">> \in left' => p = "done" /\ <<s, "retry">> \notin left'

(* A step of the worker of s: nobody else's job moves, the job has not     *)
(* ended yet, and it has a result exactly from its cleanup on.             *)
WorkerStep(s) ==
  \E p \in Working \cup {"done"}, r \in {"none", "COMPLETED", "FAILED"} :
    /\ job' = [job EXCEPT ![s] = p] /\ status' = [status EXCEPT ![s] = r]
    /\ job[s] \in Working \cup {"queued"}
    /\ r = "none" <=> p \notin {"cleanup", "done"}
    /\ job[s] \in Working \/ Workers < Concurrency
    /\ alive' \subseteq held' /\ held' \subseteq held \cup {s}
    /\ s \in held' => p \in Working \ {"create", "retry"}
    /\ LeavesBehind(s, p)
    /\ UNCHANGED <<failFast, main, next, records, failures, report>>

LEMMA WorkerTakesStep ==
  ASSUME BatchInv, NEW s \in Run, Worker(s)
  PROVE  WorkerStep(s)
<1> USE DEF BatchInv, calling, boxes
<1>1. /\ job \in [Run -> Working \cup {"new", "queued", "cancelled", "done"}]
      /\ status \in [Run -> {"none", "COMPLETED", "FAILED"}] /\ alive \subseteq held
      /\ left \subseteq Run \X LeftBy
  BY DEF TypeOK
<1>2. /\ status[s] = "none" <=> job[s] \notin {"cleanup", "done"}
      /\ s \in held => job[s] \in Working \ {"create", "retry"}
      /\ <<s, "retry">> \in left => job[s] \in {"cleanup", "done"} /\ s \notin held
      /\ <<s, "kill">> \in left => job[s] = "done" /\ <<s, "retry">> \notin left
  BY DEF Jobs, JobFits
<1>3. status = [status EXCEPT ![s] = status[s]]
  BY <1>1
<1>4. CASE Begin(s)
  BY <1>1, <1>2, <1>3, <1>4 DEF Begin, Goto, WorkerStep, Working, LeavesBehind
<1>5. CASE Create(s)
  <2> DEFINE p == IF job[s] = "create" THEN "boot" ELSE "boot_retry"
  <2>1. /\ job[s] \in {"create", "retry"} /\ status[s] = "none"
        /\ <<s, "retry">> \notin left /\ <<s, "kill">> \notin left
    BY <1>2, <1>5 DEF Create
  <2>2. /\ alive' = alive \cup {s} /\ held' = held \cup {s} /\ left' = left
        /\ job' = [job EXCEPT ![s] = p] /\ status' = [status EXCEPT ![s] = "none"]
        /\ UNCHANGED <<failFast, main, next, records, failures, report>>
    BY <1>3, <1>5, <2>1 DEF Create, Goto
  <2>3. LeavesBehind(s, p)
    BY <1>1, <2>1, <2>2 DEF LeavesBehind
  <2>4. p \in Working \ {"create", "retry"} /\ p \notin {"cleanup", "done"}
    BY DEF Working
  <2>5. job[s] \in Working /\ alive' \subseteq held'
    BY <1>1, <2>1, <2>2 DEF Working
  <2> HIDE DEF p
  <2> QED BY <2>1, <2>2, <2>3, <2>4, <2>5 DEF WorkerStep
<1>6. CASE CreateFails(s)
  <2> DEFINE p == IF job[s] = "create" THEN "retry" ELSE "cleanup"
             r == IF job[s] = "create" THEN "none" ELSE "FAILED"
  <2>1. /\ job[s] \in {"create", "retry"} /\ s \notin held
        /\ status[s] = "none" /\ <<s, "retry">> \notin left /\ <<s, "kill">> \notin left
    BY <1>2, <1>6 DEF CreateFails, Working
  <2>2. left' = left \/ left' = left \cup {<<s, job[s]>>}
    BY <1>6 DEF CreateFails
  <2>3. UNCHANGED <<failFast, main, next, records, failures, report, held, alive>>
    BY <1>6 DEF CreateFails
  <2>4. /\ job' = [job EXCEPT ![s] = p] /\ status' = [status EXCEPT ![s] = r]
    BY <1>3, <1>6, <2>1 DEF CreateFails, Goto, Result
  <2>5. LeavesBehind(s, p)
    BY <1>1, <2>1, <2>2, <2>3 DEF LeavesBehind, LeftBy
  <2>6. p \in Working \cup {"done"} /\ r \in {"none", "COMPLETED", "FAILED"}
    BY DEF Working
  <2>7. r = "none" <=> p \notin {"cleanup", "done"}
    OBVIOUS
  <2>8. job[s] \in Working
    BY <2>1 DEF Working
  <2> HIDE DEF p, r
  <2> QED BY <1>1, <2>1, <2>3, <2>4, <2>5, <2>6, <2>7, <2>8 DEF WorkerStep
<1>7. CASE Bootstrap(s)
  BY <1>1, <1>2, <1>3, <1>7 DEF Bootstrap, Goto, Result, WorkerStep, Working, LeavesBehind
<1>8. CASE Deliver(s)
  BY <1>1, <1>2, <1>3, <1>8 DEF Deliver, Goto, Result, WorkerStep, Working, LeavesBehind
<1>9. CASE RunScript(s)
  BY <1>1, <1>2, <1>3, <1>9 DEF RunScript, Goto, Result, WorkerStep, Working, LeavesBehind
<1>10. CASE Cleanup(s)
  BY <1>1, <1>2, <1>3, <1>10 DEF Cleanup, LeftBy, Goto, WorkerStep, Working, LeavesBehind
<1> QED BY <1>4, <1>5, <1>6, <1>7, <1>8, <1>9, <1>10 DEF Worker

LEMMA WorkerKeeps == ASSUME NEW s \in Run PROVE BatchInv /\ Worker(s) => BatchInv'
<1> SUFFICES ASSUME BatchInv, WorkerStep(s) PROVE BatchInv'
  BY WorkerTakesStep
<1> USE DEF BatchInv
<1>1. PICK p \in Working \cup {"done"}, r \in {"none", "COMPLETED", "FAILED"} :
        /\ job' = [job EXCEPT ![s] = p] /\ status' = [status EXCEPT ![s] = r]
        /\ job[s] \in Working \cup {"queued"}
        /\ r = "none" <=> p \notin {"cleanup", "done"}
        /\ job[s] \in Working \/ Workers < Concurrency
        /\ alive' \subseteq held' /\ held' \subseteq held \cup {s}
        /\ s \in held' => p \in Working \ {"create", "retry"}
        /\ LeavesBehind(s, p)
        /\ UNCHANGED <<failFast, main, next, records, failures, report>>
  BY DEF WorkerStep
<1>2. /\ job \in [Run -> Working \cup {"new", "queued", "cancelled", "done"}]
      /\ status \in [Run -> {"none", "COMPLETED", "FAILED"}]
      /\ job[s] \notin {"new", "cancelled", "done"}
  BY <1>1 DEF TypeOK, Working
<1>3. TypeOK'
  BY <1>1, <1>2 DEF TypeOK, LeavesBehind
<1>4. Submitted'
  BY <1>1, <1>2 DEF Submitted
<1>5. s \notin records
  BY <1>2 DEF Jobs, JobFits
<1>6. Jobs'
  BY <1>1, <1>2, <1>5 DEF Jobs, JobFits, LeavesBehind, LeftBy
<1>7. AtWork' \subseteq AtWork \cup {s} /\ (job[s] \in Working => s \in AtWork)
  BY <1>1, <1>2 DEF AtWork
<1>8. Room'
  BY <1>1, <1>7, RoomKept
<1>9. \A t \in records : status'[t] = status[t]
  BY <1>1, <1>2, <1>5
<1>10. Collected'
  BY <1>1, <1>9 DEF Collected
<1>11. main # "done"
  BY <1>2 DEF Closed, Settled
<1>12. Closed'
  BY <1>1, <1>11 DEF Closed
<1> QED BY <1>3, <1>4, <1>6, <1>8, <1>10, <1>12

LEMMA ExpireKeeps == ASSUME NEW s \in Run PROVE BatchInv /\ Expire(s) => BatchInv'
<1> SUFFICES ASSUME BatchInv, Expire(s) PROVE BatchInv'
  OBVIOUS
<1>1. /\ alive' \subseteq alive /\ left' \subseteq left
      /\ UNCHANGED <<failFast, main, next, records, failures, report, job, status, held>>
  BY DEF Expire, calling
<1> QED BY <1>1 DEF BatchInv, TypeOK, Submitted, Jobs, JobFits, Room, AtWork, Collected,
                    Closed, Completed, Settled

LEMMA BatchInvKept == BatchInv /\ [Next]_vars => BatchInv'
<1> SUFFICES ASSUME BatchInv, [Next]_vars PROVE BatchInv'
  OBVIOUS
<1>1. CASE Main
  BY <1>1, SubmitKeeps, CollectKeeps, CancelKeeps, EndKeeps DEF Main
<1>2. CASE \E s \in Run : Worker(s)
  BY <1>2, WorkerKeeps
<1>3. CASE \E s \in Run : Expire(s)
  BY <1>3, ExpireKeeps
<1>4. CASE UNCHANGED vars
  BY <1>4 DEF vars, calling, boxes, BatchInv, TypeOK, Submitted, Jobs, JobFits, Room, AtWork,
              Collected, Closed, Completed, Settled
<1> QED BY <1>1, <1>2, <1>3, <1>4 DEF Next

-----------------------------------------------------------------------------
(* Theorems.                                                               *)

(* Where every job is, what it holds and which results are collected: the  *)
(* invariant that carries the other theorems.                              *)
THEOREM BatchInvHolds == Spec => []BatchInv
<1> QED BY BatchInitially, BatchInvKept, PTL DEF Spec

(* The batch's state is well typed, and failures are of collected jobs.    *)
THEOREM BatchTypesHold == Spec => []TypeOK
<1>1. BatchInv => TypeOK
  BY DEF BatchInv
<1> QED BY <1>1, BatchInvHolds, PTL

(* prepare, execute_plan and cleanup: whichever step of a job fails, there *)
(* are never more sandboxes in use than the pool has threads, each belongs *)
(* to a job at work, kill was called for each of them before the batch     *)
(* returns, and kills and creates that fail leave no more than two         *)
(* sandboxes of one job behind.                                            *)
THEOREM NoSandboxIsForgotten == Spec => []SandboxesAccounted
<1>1. BatchInv => SandboxesAccounted
  <2> SUFFICES ASSUME BatchInv PROVE SandboxesAccounted
    OBVIOUS
  <2> USE DEF BatchInv
  <2>1. alive \subseteq AtWork
    BY DEF TypeOK, Jobs, JobFits, AtWork
  <2>2. AtWork \in SUBSET Run /\ alive \in SUBSET Run
    BY DEF AtWork, TypeOK
  <2>3. /\ IsFiniteSet(AtWork) /\ Cardinality(AtWork) \in Nat /\ Cardinality(alive) \in Nat
    BY <2>2, PartOfRun
  <2>4. Cardinality(alive) <= Cardinality(AtWork)
    BY <2>1, <2>3, FS_Subset
  <2>5. Cardinality(alive) <= Concurrency
    BY <2>3, <2>4, RunIsFinite DEF Room
  <2>6. main = "done" => alive = {}
    BY <2>1 DEF Closed, Settled, AtWork, Working
  <2>7. ASSUME NEW s \in Run PROVE Cardinality(SandboxesOf(s)) <= 2
    <3>1. PICK w : SandboxesOf(s) \subseteq {"create", w}
      BY DEF SandboxesOf, LeftBy, TypeOK, Jobs, JobFits, Working
    <3>2. IsFiniteSet({"create"}) /\ Cardinality({"create"}) = 1
      BY FS_Singleton
    <3>3. /\ IsFiniteSet({"create"} \cup {w})
          /\ Cardinality({"create"} \cup {w}) \in {1, 2}
      BY <3>2, FS_AddElement
    <3>4. SandboxesOf(s) \subseteq {"create"} \cup {w}
      BY <3>1
    <3>5. /\ Cardinality(SandboxesOf(s)) <= Cardinality({"create"} \cup {w})
          /\ IsFiniteSet(SandboxesOf(s))
      BY <3>3, <3>4, FS_Subset
    <3>6. Cardinality(SandboxesOf(s)) \in Nat
      BY <3>5, FS_CardinalityType
    <3> QED BY <3>3, <3>5, <3>6
  <2> QED BY <2>1, <2>5, <2>6, <2>7 DEF SandboxesAccounted, AtWork
<1> QED BY <1>1, BatchInvHolds, PTL

(* ParallelOrchestrator.run: the report counts all jobs as completed       *)
(* exactly when they all are, and otherwise names a failure; without       *)
(* fail_fast it names every one.                                           *)
THEOREM TheReportIsTrue == Spec => []ReportIsTrue
<1>1. BatchInv => ReportIsTrue
  <2> SUFFICES ASSUME BatchInv, main = "done"
               PROVE  /\ report = NumSpecs <=> \A s \in Run : status[s] = "COMPLETED"
                      /\ report < NumSpecs => failures # {}
                      /\ \A s \in failures : status[s] = "FAILED"
                      /\ ~failFast => failures = {s \in Run : status[s] = "FAILED"}
    BY DEF ReportIsTrue
  <2> USE DEF BatchInv
  <2>1. Completed \in SUBSET Run /\ report = Cardinality(Completed)
    BY DEF Completed, TypeOK, Closed
  <2>2. report \in 0 .. NumSpecs /\ (report = NumSpecs => Completed = Run)
    BY <2>1, PartOfRun
  <2>3. Completed = Run => report = NumSpecs
    BY <2>1, RunIsFinite
  <2>4. failures = {s \in records : status[s] = "FAILED"}
    BY DEF Collected
  <2>5. records = Run \/ (failFast /\ failures # {})
    BY DEF Collected
  <2>6. \A s \in records : status[s] \in {"COMPLETED", "FAILED"} /\ s \in Run
    BY DEF Jobs, JobFits, TypeOK
  <2>7. failures = {} => Completed = Run
    BY <2>4, <2>5, <2>6 DEF Completed
  <2>8. (\A s \in Run : status[s] = "COMPLETED") => failures = {}
    BY <2>4, <2>6
  <2>9. Completed = Run => \A s \in Run : status[s] = "COMPLETED"
    BY DEF Completed
  <2>10. report < NumSpecs => report # NumSpecs
    BY <2>2, RunIsFinite
  <2>11. ~failFast => failures = {s \in Run : status[s] = "FAILED"}
    BY <2>4, <2>5
  <2> QED BY <2>2, <2>3, <2>4, <2>7, <2>8, <2>9, <2>10, <2>11
<1> QED BY <1>1, BatchInvHolds, PTL

=============================================================================
