---------------------------- MODULE AnalysisRuns ----------------------------
(***************************************************************************)
(* Analysis runs of the core service: the rows that start_run creates for  *)
(* one commit of one project, the streams that execute them                *)
(* (RunOrchestrator.stream_full_cycle behind stream_run), the containers   *)
(* of the executor service in which generated tests run, the pull request  *)
(* that proposes them, and the database session of each stream, whose      *)
(* unflushed change and row lock decide who waits for whom.                *)
(***************************************************************************)
EXTENDS Naturals

CONSTANTS
  MaxStreams, \* bound on the requests for a run's stream
  MaxSymbols, \* max_symbols; a symbol is its rank in the selection
  Modes,      \* subset of {"structural", "sandbox", "automation"}
  MaxRuns     \* bound on the rows

ASSUME RunsAssumption ==
  /\ {MaxStreams, MaxSymbols, MaxRuns} \subseteq Nat \ {0}
  /\ Modes \subseteq {"structural", "sandbox", "automation"}

VARIABLES
  rows,     \* the table of runs, by id; a later id is a later created_at
  lock,     \* the session that has updated a row and not committed
  results,  \* the committed RunResults of generated tests
  pulls,    \* pull requests of the automation repository
  stream    \* each stream's request, generator and session

vars == <<rows, lock, results, pulls, stream>>

Free == 0
Run == 1..MaxRuns
Stream == 1..MaxStreams
Symbol == 1..MaxSymbols
Status == {"PENDING", "RUNNING", "COMPLETED", "FAILED"}
Absent == [mode |-> "none", status |-> "none", events |-> 0]
Exists(r) == rows[r] # Absent
Newest(r) == Exists(r) /\ (r < MaxRuns => ~Exists(r + 1))

\* Where a stream's generator is: "ending" is the finally clause of
\* event_generator, "saving" persist_final_events after its SELECT.
Working == {"symbol", "generating", "following", "failing"}
PC == {"none", "ending", "saving", "saved"} \cup Working

TypeOK ==
  /\ rows \in [Run -> {Absent} \cup [mode : Modes, status : Status, events : {0} \cup Stream]]
  /\ lock \in [Run -> {Free} \cup Stream]
  /\ results \subseteq [run : Run, by : Stream, symbol : Symbol, status : Status,
                        how : {"sandbox", "pull"}]
  /\ pulls \subseteq [by : Stream, tests : SUBSET Symbol]
  /\ \A s \in Stream :
       LET g == stream[s] IN
       /\ g.pc \in PC /\ g.client \in BOOLEAN
       /\ g.pc # "none" => g.run \in Run /\ g.target \in Run
       /\ g.dirty \in BOOLEAN
       /\ g.at \in Symbol \cup {0} /\ g.left \subseteq Symbol /\ g.queued \subseteq Symbol
       /\ g.box \in [Symbol -> {"none", "running", "logged", "passed", "failed"}]
       /\ g.end \in {"none", "COMPLETED", "FAILED"} /\ g.error \in BOOLEAN
       /\ g.seen \in Status \cup {"none"}
  \* A lock is a change that was flushed and not committed.
  /\ \A r \in Run : lock[r] # Free => stream[lock[r]].dirty /\ stream[lock[r]].target = r

NoStream == [pc |-> "none", run |-> 0, target |-> 0, client |-> FALSE, dirty |-> FALSE,
             left |-> {}, at |-> 0, queued |-> {},
             box |-> [x \in Symbol |-> "none"], end |-> "none", error |-> FALSE, seen |-> "none"]

Init ==
  /\ rows = [r \in Run |-> Absent]
  /\ lock = [r \in Run |-> Free]
  /\ results = {} /\ pulls = {}
  /\ stream = [s \in Stream |-> NoStream]

-----------------------------------------------------------------------------
(* The request's session *)

At(s, pc) == stream[s].pc = pc
Target(s) == stream[s].target

\* Autoflush sends the UPDATE of a changed status with the next SELECT; it
\* waits for the row lock of any other session.
CanFlush(s) == stream[s].dirty => lock[Target(s)] \in {Free, s}
Flush(s) == lock' = IF stream[s].dirty THEN [lock EXCEPT ![Target(s)] = s] ELSE lock

\* Mutant: the row stays locked after the commit.
CommittedLocked(s, status) ==
  /\ UNCHANGED lock
  /\ rows' = IF stream[s].dirty THEN [rows EXCEPT ![Target(s)].status = status] ELSE rows
\* The commit makes the status visible and gives the row up.
Committed(s, status) ==
  /\ lock' = [lock EXCEPT ![Target(s)] = IF @ = s THEN Free ELSE @]
  /\ rows' = IF stream[s].dirty THEN [rows EXCEPT ![Target(s)].status = status] ELSE rows

Result(s, x, how, status) ==
  [run |-> Target(s), by |-> s, symbol |-> x, how |-> how, status |-> status]

-----------------------------------------------------------------------------
(* The requests *)

\* start_run: a new row, whose metadata fix the mode of its streams.
StartRun(mode) ==
  \E r \in Run :
    /\ ~Exists(r) /\ (r > 1 => Exists(r - 1))
    /\ rows' = [rows EXCEPT ![r] = [mode |-> mode, status |-> "PENDING", events |-> 0]]
    /\ UNCHANGED <<lock, results, pulls, stream>>

\* stream_run: a client opens the stream of a run, which may have had one before.
\* stream_full_cycle looks for the newest run of the commit, not for the run that
\* was asked for, sets its status in memory and selects the symbols.
StreamRun(s, r) ==
  /\ At(s, "none") /\ (s > 1 => ~At(s - 1, "none"))
  /\ Exists(r)
  /\ \E t \in Run, n \in 0..MaxSymbols, pc \in {"symbol", "failing"} :
       /\ Newest(t)
       /\ pc = "failing" => n = 0
       /\ stream' = [stream EXCEPT ![s] = [NoStream EXCEPT
            !.pc = pc, !.run = r, !.target = t, !.client = TRUE,
            !.dirty = rows[t].status # "RUNNING", !.left = 1..n]]
  /\ UNCHANGED <<rows, lock, results, pulls>>

\* The graph failed when the symbols were selected: the outer handler commits FAILED.
Fail(s) ==
  /\ At(s, "failing")
  /\ lock[Target(s)] = Free
  /\ rows' = [rows EXCEPT ![Target(s)].status = "FAILED"]
  /\ stream' = [stream EXCEPT ![s].pc = "ending", ![s].dirty = FALSE, ![s].end = "FAILED"]
  /\ UNCHANGED <<lock, results, pulls>>

-----------------------------------------------------------------------------
(* _process_symbol_stream *)

\* The symbol that the generator takes next, and the generator when it has done with x.
Takes(s, x) == At(s, "symbol") /\ x \in stream[s].left /\ \A y \in stream[s].left : x <= y
Works(s, x, pc) == At(s, pc) /\ stream[s].at = x
Past(s, x) == [stream[s] EXCEPT !.pc = "symbol", !.left = @ \ {x}, !.at = 0]

\* Any exception but one of the database: a log event, and the next symbol.  A
\* container that was started goes on, and nobody looks at it again.
SymbolFails(s, x) ==
  /\ Takes(s, x) \/ Works(s, x, "generating") \/ Works(s, x, "following")
  /\ stream' = [stream EXCEPT ![s] = [Past(s, x) EXCEPT !.box[x] = "none"]]
  /\ UNCHANGED <<rows, lock, results, pulls>>

\* The graph has tests for the symbol: a result that delegates to them
\* (and of which nothing is to be shown) is committed.
Reuse(s, x) ==
  /\ Takes(s, x)
  /\ CanFlush(s)
  /\ Committed(s, "RUNNING")
  /\ stream' = [stream EXCEPT ![s] = [Past(s, x) EXCEPT !.dirty = FALSE]]
  /\ UNCHANGED <<results, pulls>>

\* It has none: the style capsule is read, and the status goes out with that.
ReadCapsule(s, x) ==
  /\ Takes(s, x)
  /\ CanFlush(s) /\ Flush(s)
  /\ stream' = [stream EXCEPT ![s].pc = "generating", ![s].at = x]
  /\ UNCHANGED <<rows, results, pulls>>

Generates(s, x, mode) == Works(s, x, "generating") /\ rows[stream[s].run].mode = mode

\* Structural mode stops here.
Skip(s, x) ==
  /\ Generates(s, x, "structural")
  /\ stream' = [stream EXCEPT ![s] = Past(s, x)]
  /\ UNCHANGED <<rows, lock, results, pulls>>

\* A generated test waits for the pull request ...
Queue(s, x) ==
  /\ Generates(s, x, "automation")
  /\ stream' = [stream EXCEPT ![s] = [Past(s, x) EXCEPT !.queued = @ \cup {x}]]
  /\ UNCHANGED <<rows, lock, results, pulls>>

\* ... or runs in a container, which the executor service starts.
Execute(s, x) ==
  /\ Generates(s, x, "sandbox")
  /\ stream' = [stream EXCEPT ![s].pc = "following", ![s].box[x] = "running"]
  /\ UNCHANGED <<rows, lock, results, pulls>>

\* The container's log ends; a moment later its exit is on record.
Box(s, x) ==
  /\ Works(s, x, "following")
  /\ \/ /\ stream[s].box[x] = "running"
        /\ stream' = [stream EXCEPT ![s].box[x] = "logged"]
     \/ /\ stream[s].box[x] = "logged"
        /\ \E v \in {"passed", "failed"} : stream' = [stream EXCEPT ![s].box[x] = v]
  /\ UNCHANGED <<rows, lock, results, pulls>>

\* Mutant: a container whose exit is not on record counts as one that exited with 0.
BoxStatusOptimistic(b) == IF b = "failed" THEN "FAILED" ELSE "COMPLETED"
\* SandboxManager.get_run_status.
BoxStatus(b) ==
  CASE b = "passed" -> "COMPLETED"
    [] b = "failed" -> "FAILED"
    [] OTHER -> "RUNNING"

\* The log has been followed to its end: the status is read, once, and committed.
CommitResult(s, x) ==
  /\ Works(s, x, "following")
  /\ stream[s].box[x] # "running"
  /\ results' = results \cup {Result(s, x, "sandbox", BoxStatus(stream[s].box[x]))}
  /\ Committed(s, "RUNNING")
  /\ stream' = [stream EXCEPT ![s] = [Past(s, x) EXCEPT !.dirty = FALSE]]
  /\ UNCHANGED pulls

-----------------------------------------------------------------------------
(* The pull request, and the end of the cycle *)

\* All symbols are done and tests wait for a pull request.  Branch, files and
\* request are made without a pause; results are added to the session file by file.
Propose(s) ==
  /\ At(s, "symbol") /\ stream[s].left = {} /\ stream[s].queued # {}
  /\ pulls' = pulls \cup {[by |-> s, tests |-> stream[s].queued]}
  /\ results' = results \cup {Result(s, x, "pull", "COMPLETED") : x \in stream[s].queued}
  /\ Committed(s, "RUNNING")
  /\ stream' = [stream EXCEPT ![s].queued = {}, ![s].dirty = FALSE]

\* Mutant: what was added before the failure is committed.
ProposeFailsCommitted(s) ==
  /\ At(s, "symbol") /\ stream[s].left = {} /\ stream[s].queued # {}
  /\ \E made \in SUBSET stream[s].queued :
       results' = results \cup {Result(s, x, "pull", "COMPLETED") : x \in made}
  /\ Committed(s, "RUNNING")
  /\ stream' = [stream EXCEPT ![s].queued = {}, ![s].dirty = FALSE, ![s].error = TRUE]
  /\ UNCHANGED pulls
\* It fails somewhere: an error event; results that were added stay in the
\* session and are lost.  The request may have been made and its answer lost.
ProposeFails(s) ==
  /\ At(s, "symbol") /\ stream[s].left = {} /\ stream[s].queued # {}
  /\ stream' = [stream EXCEPT ![s].queued = {}, ![s].error = TRUE]
  /\ pulls' \in {pulls, pulls \cup {[by |-> s, tests |-> stream[s].queued]}}
  /\ UNCHANGED <<rows, lock, results>>

\* The COMPLETED event, whatever failed on the way.
Finish(s) ==
  /\ At(s, "symbol") /\ stream[s].left = {} /\ stream[s].queued = {}
  /\ stream' = [stream EXCEPT ![s].pc = "ending", ![s].end = "COMPLETED", ![s].error = FALSE]
  /\ UNCHANGED <<rows, lock, results, pulls>>

\* What persist_final_events makes of the events that were collected.
Outcome(s) ==
  IF stream[s].end # "none" THEN stream[s].end
  ELSE IF stream[s].error THEN "FAILED" ELSE "none"

\* A session that is reclaimed: what it had flushed and not committed is undone.
RolledBack(s) == lock' = [r \in Run |-> IF lock[r] = s THEN Free ELSE lock[r]]

\* Mutant: the events are saved in the run that the orchestrator works on.
SavesInTarget(s) == stream[s].target
\* persist_final_events saves in the run that was asked for.
SavesIn(s) == stream[s].run

\* persist_final_events, in a session of its own: the row is read ...
PersistRead(s) ==
  /\ At(s, "ending")
  /\ stream' = [stream EXCEPT ![s].pc = "saving", ![s].seen = rows[SavesIn(s)].status]
  /\ UNCHANGED <<rows, lock, results, pulls>>

\* ... and updated once no session, the stream's own included, holds it; the
\* status is part of the update when it is not what was read.  With that the
\* response ends, and the request's session is reclaimed.
PersistWrite(s) ==
  LET r == SavesIn(s) IN
  /\ At(s, "saving")
  /\ lock[r] = Free
  /\ rows' = [rows EXCEPT ![r].events = s,
                          ![r].status = IF Outcome(s) \in {"none", stream[s].seen} THEN @ ELSE Outcome(s)]
  /\ stream' = [stream EXCEPT ![s] = [@ EXCEPT !.pc = "saved", !.seen = "none", !.client = FALSE,
                                                  !.dirty = FALSE]]
  /\ RolledBack(s)
  /\ UNCHANGED <<results, pulls>>

\* A generator that is cancelled forgets its plans; what it flushed stays.
Cancelled(g) == [g EXCEPT !.pc = "ending", !.client = FALSE, !.left = {}, !.at = 0,
                           !.queued = {}, !.box = [x \in Symbol |-> IF @[x] \in {"running", "logged"} /\ x = g.at THEN "none" ELSE @[x]]]

\* Mutant: the events are not saved when the client has left.
LeaveUnsaved(s) ==
  /\ stream[s].client
  /\ stream' = [stream EXCEPT ![s].client = FALSE, ![s].pc = IF @ \in Working THEN "none" ELSE @]
  /\ UNCHANGED <<rows, lock, results, pulls>>
\* The client closes the connection: the generator is cancelled where it waits,
\* and its finally clause still saves the events (asyncio.shield).
Leave(s) ==
  /\ stream[s].client
  /\ stream' = [stream EXCEPT ![s] = IF @.pc \in Working THEN Cancelled(@) ELSE [@ EXCEPT !.client = FALSE]]
  /\ UNCHANGED <<rows, lock, results, pulls>>

\* The client of a request has left: the request's session is reclaimed.
Release(s) ==
  /\ ~stream[s].client /\ stream[s].pc \in {"ending", "saving"}
  /\ stream[s].dirty
  /\ RolledBack(s)
  /\ stream' = [stream EXCEPT ![s].dirty = FALSE]
  /\ UNCHANGED <<rows, results, pulls>>

\* What the server does when nothing fails.
Step(s) ==
  \/ Fail(s) \/ Propose(s) \/ Finish(s) \/ PersistRead(s) \/ PersistWrite(s) \/ Release(s)
  \/ \E x \in Symbol : Reuse(s, x) \/ ReadCapsule(s, x) \/ Skip(s, x) \/ Queue(s, x)
                       \/ Execute(s, x) \/ CommitResult(s, x)

Next ==
  \/ \E mode \in Modes : StartRun(mode)
  \/ \E s \in Stream :
       \/ Step(s) \/ ProposeFails(s) \/ Leave(s)
       \/ \E r \in Run : StreamRun(s, r)
       \/ \E x \in Symbol : SymbolFails(s, x) \/ Box(s, x)

Spec == Init /\ [][Next]_vars

\* The event loop runs, PostgreSQL grants a free row, and the tests in containers end.
ServerFairness == \A s \in Stream : WF_vars(Step(s)) /\ \A x \in Symbol : WF_vars(Box(s, x))
ServerSpec == Spec /\ ServerFairness

\* Besides, no client keeps its connection for ever.
FairSpec == ServerSpec /\ \A s \in Stream : WF_vars(Leave(s))

-----------------------------------------------------------------------------
(* What is asked of the runs *)

\* A committed result tells the truth: a COMPLETED sandbox result is of a test
\* that exited with 0, and the results of a pull request are of tests that are
\* in it (they are added to the session before the request is made).
ResultsAreReal ==
  \A x \in results :
    /\ x.how = "sandbox" /\ x.status = "COMPLETED" => stream[x.by].box[x.symbol] = "passed"
    /\ x.how = "pull" => \E p \in pulls : p.by = x.by /\ x.symbol \in p.tests

\* The row of a run shows how its stream ended, unless another stream worked on
\* the same row: although the orchestrator's session leaves an UPDATE to
\* RUNNING behind that nobody commits.
EndIsRecorded ==
  \A s \in Stream :
    LET r == stream[s].run IN
    At(s, "saved") /\ stream[s].end # "none"
      /\ (\A q \in Stream \ {s} : stream[q].run # r /\ stream[q].target # r)
    => rows[r].status = stream[s].end /\ rows[r].events = s

\* Whatever fails and whoever leaves, the events of a stream are saved (the
\* comment on the shield), once clients close their connections.
EventsSaved ==
  \A s \in Stream : stream[s].pc \in Working ~> At(s, "saved") /\ rows[stream[s].run].events # 0

\* "Let the server close the connection naturally to ensure background
\* persistence completes" (the terminal of the web page): the server ends every stream.
StreamsEnd == \A s \in Stream : stream[s].pc \in Working ~> At(s, "saved")
=============================================================================
