------------------------------ MODULE CellRun ------------------------------
(***************************************************************************)
(* The run runtime of the factory cell: the orchestrator, the run store    *)
(* (runs.json), the per-run event log (events/<run>.jsonl) and the event   *)
(* streams that clients follow.                                            *)
(*                                                                         *)
(* The cell is one asyncio event loop.  A coroutine that has started       *)
(* a segment runs it to its next await without interference, but the       *)
(* process can be killed between any two effects on the disk.  A handler   *)
(* or a resumed task is therefore one action that puts its segment -- the  *)
(* emits and saves up to the next await, in source order -- in "script";   *)
(* Perform carries the effects out one by one; every other action of the   *)
(* process waits for an empty script; Crash does not.                      *)
(***************************************************************************)
EXTENDS Naturals, Sequences, FiniteSets

CONSTANTS
  Runs,           \* run ids
  Clients,        \* subscribers of the event stream
  NumPhases,      \* length of PHASE_ORDER
  GeneratePhase,  \* position of Phase.GENERATE in it
  ExecutePhase,   \* position of Phase.EXECUTE in it
  Policies,       \* kinds of policy that POST /v1/runs may carry
  MaxCrashes,     \* bound: process deaths
  TornWrites,     \* can a death leave half a line in the event file?
  Shutdowns,      \* can the event loop be torn down with its tasks alive?
  SlowClients     \* can a connection be so slow that it blocks the stream while it sends?

PolicyKinds == {"stub", "bad_delay", "bad_hosts", "agent", "agent_with_secret"}

ASSUME CellAssumption ==
  /\ NumPhases \in Nat /\ GeneratePhase \in Nat /\ ExecutePhase \in Nat
  /\ 0 < GeneratePhase /\ GeneratePhase < ExecutePhase /\ ExecutePhase < NumPhases
  /\ Policies \subseteq PolicyKinds
  /\ MaxCrashes \in Nat
  /\ TornWrites \in BOOLEAN /\ Shutdowns \in BOOLEAN /\ SlowClients \in BOOLEAN

VARIABLES
  proc,     \* the process: up, closing its event loop, or down
  mem,      \* RunStore._runs
  disk,     \* runs.json
  events,   \* Orchestrator._events
  seq,      \* Orchestrator._seq
  file,     \* the decodable lines of events/<run>.jsonl
  tail,     \* how the last line of that file ends
  task,     \* the asyncio task of each run
  script,   \* effects the coroutine that holds the loop has still to make
  acked,    \* runs whose cancel request got the answer "cancelled": true
  conn,     \* the clients' connections to the event stream
  crashes   \* process deaths so far

procVars == <<proc, crashes>>
storeVars == <<mem, disk>>
logVars == <<events, seq, file, tail>>
vars == <<proc, mem, disk, events, seq, file, tail, task, script, acked, conn, crashes>>

Terminal == {"succeeded", "failed", "cancelled"}
Status == {"queued", "running"} \cup Terminal
Phase == 0 .. NumPhases                  \* 0 is "no phase yet"
Absent == [status |-> "absent", phase |-> 0, cancelled |-> FALSE, policy |-> "none"]
RunRecord == [status : Status, phase : Phase, cancelled : BOOLEAN, policy : Policies]

EventType ==
  {"run.started", "phase.started", "phase.completed", "context.retrieved",
   "plan.created", "verdict.passed", "verdict.failed", "run.completed",
   "run.failed", "run.cancelled"}
Event == [seq : Nat, type : EventType, phase : Phase]
LineEnd == {"whole",          \* ends with a newline
         "unterminated",   \* the last event is there, its newline is not
         "fragment"}       \* ends in a piece of a line that does not decode

(* The task of a run: not there, not begun, in one of the three awaits,     *)
(* with a CancelledError on its way, or over.                              *)
TaskState == {"none", "ready", "sleep", "plan", "execute", "interrupted", "done"}

Effect == [do : {"emit"}, run : Runs, what : EventType, phase : Phase]
     \cup [do : {"save"}, run : Runs, what : Status, phase : Phase]
     \cup [do : {"answer"}, run : Runs, what : {"cancelled"}, phase : Phase]

EmitOf(r, t, p) == [do |-> "emit", run |-> r, what |-> t, phase |-> p]
SaveOf(r, s, p) == [do |-> "save", run |-> r, what |-> s, phase |-> p]
AnswerOf(r) == [do |-> "answer", run |-> r, what |-> "cancelled", phase |-> 0]

NoConn == [run |-> "none", state |-> "off", slow |-> FALSE, got |-> <<>>]

RunTypeOK ==
  /\ proc \in {"up", "closing", "down"}
  /\ mem \in [Runs -> RunRecord \cup {Absent}]
  /\ disk \in [Runs -> RunRecord \cup {Absent}]
  /\ events \in [Runs -> Seq(Event)]
  /\ seq \in [Runs -> Nat]
  /\ file \in [Runs -> Seq(Event)]
  /\ tail \in [Runs -> LineEnd]
  /\ task \in [Runs -> TaskState]
  /\ script \in Seq(Effect)
  /\ acked \in SUBSET Runs
  /\ crashes \in Nat

StreamTypeOK ==
  conn \in [Clients -> [run : Runs \cup {"none"},
                       state : {"off", "opening", "polling", "sending", "done"},
                       slow : BOOLEAN, got : Seq(Event)]]

TypeOK == RunTypeOK /\ StreamTypeOK

Init ==
  /\ proc = "up"
  /\ mem = [r \in Runs |-> Absent]
  /\ disk = [r \in Runs |-> Absent]
  /\ events = [r \in Runs |-> <<>>]
  /\ seq = [r \in Runs |-> 0]
  /\ file = [r \in Runs |-> <<>>]
  /\ tail = [r \in Runs |-> "whole"]
  /\ task = [r \in Runs |-> "none"]
  /\ script = <<>>
  /\ acked = {}
  /\ conn = [c \in Clients |-> NoConn]
  /\ crashes = 0

-----------------------------------------------------------------------------
(* Effects.                                                                *)

LoopIdle == proc = "up" /\ script = <<>>

\* Mutant: the event is kept in memory only.
LinesNeverWritten(f, t, e) == f

(* Appending a line to a file whose last line has no newline glues the two *)
(* into one line that json.loads rejects.                                  *)
LinesAfter(f, t, e) ==
  CASE t = "whole"        -> Append(f, e)
    [] t = "fragment"     -> f
    [] t = "unterminated" -> SubSeq(f, 1, Len(f) - 1)

NextEvent(o) == [seq |-> seq[o.run] + 1, type |-> o.what, phase |-> o.phase]

(* _emit: number the event, keep it in memory, append it to the file.      *)
PerformEmit ==
  /\ proc # "down" /\ script # <<>> /\ Head(script).do = "emit"
  /\ LET o == Head(script) IN
       /\ seq' = [seq EXCEPT ![o.run] = @ + 1]
       /\ events' = [events EXCEPT ![o.run] = Append(@, NextEvent(o))]
       /\ file' = [file EXCEPT ![o.run] = LinesAfter(@, tail[o.run], NextEvent(o))]
       /\ tail' = [tail EXCEPT ![o.run] = "whole"]
  /\ script' = Tail(script)
  /\ UNCHANGED <<procVars, storeVars, task, acked, conn>>

(* Setting run.status / run.phase and store.save(): the write goes to a    *)
(* temporary file that replaces runs.json, and it writes every run.        *)
PerformSave ==
  /\ proc # "down" /\ script # <<>> /\ Head(script).do = "save"
  /\ LET o == Head(script) IN
       mem' = [mem EXCEPT ![o.run].status = o.what, ![o.run].phase = o.phase]
  /\ disk' = mem'
  /\ script' = Tail(script)
  /\ UNCHANGED <<procVars, logVars, task, acked, conn>>

(* The response of POST /v1/runs/{id}/cancel reaches the caller.           *)
PerformAnswer ==
  /\ proc # "down" /\ script # <<>> /\ Head(script).do = "answer"
  /\ acked' = acked \cup {Head(script).run}
  /\ script' = Tail(script)
  /\ UNCHANGED <<procVars, storeVars, logVars, task, conn>>

Perform == PerformEmit \/ PerformSave \/ PerformAnswer

(* The coroutine of r runs segment s and then awaits as t (or is done).    *)
RunSegment(r, s, t) ==
  /\ script' = s
  /\ task' = [task EXCEPT ![r] = t]
  /\ UNCHANGED <<procVars, storeVars, logVars, acked, conn>>

-----------------------------------------------------------------------------
(* The HTTP surface.                                                       *)

(* POST /v1/runs: the run is stored before its policy is loaded, and an    *)
(* allowed_hosts that is no list makes load raise: no task is started.     *)
CreateRun(r) ==
  /\ LoopIdle
  /\ mem[r] = Absent
  /\ \E p \in Policies :
       /\ mem' = [mem EXCEPT ![r] = [status |-> "queued", phase |-> 0,
                                     cancelled |-> FALSE, policy |-> p]]
       /\ task' = [task EXCEPT ![r] = IF p = "bad_hosts" THEN "none" ELSE "ready"]
  /\ disk' = mem'
  /\ UNCHANGED <<procVars, logVars, script, acked, conn>>

\* Mutant: a finished run is cancelled again.
CancelAnyRun(r) ==
  /\ LoopIdle
  /\ mem[r] # Absent /\ r \notin acked
  /\ script' = <<EmitOf(r, "run.cancelled", 0), SaveOf(r, "cancelled", mem[r].phase), AnswerOf(r)>>
  /\ UNCHANGED <<procVars, storeVars, logVars, task, acked, conn>>

(* Orchestrator.cancel.  task.cancel() makes a suspended coroutine raise   *)
(* CancelledError when it is next resumed; one that has not begun never    *)
(* will.  task' is set at once: no coroutine sees it before the script is  *)
(* empty.                                                                  *)
CancelRun(r) ==
  /\ LoopIdle
  /\ mem[r] # Absent /\ mem[r].status \notin Terminal
  /\ mem' = [mem EXCEPT ![r].cancelled = TRUE]
  /\ script' = <<EmitOf(r, "run.cancelled", 0),
                 SaveOf(r, "cancelled", mem[r].phase),
                 AnswerOf(r)>>
  /\ task' = [task EXCEPT ![r] = CASE @ \in {"sleep", "plan", "execute"} -> "interrupted"
                                   [] @ = "ready" -> "done"
                                   [] OTHER -> @]
  /\ UNCHANGED <<procVars, disk, logVars, acked, conn>>

-----------------------------------------------------------------------------
(* The stub runtime: _run.                                                 *)

IsAgent(r) == mem[r].policy \in {"agent", "agent_with_secret"}

\* Mutant: the outcome is saved before it is logged.
StubFromSaveFirst(r, p) ==
  IF p <= NumPhases
  THEN <<SaveOf(r, "running", p), EmitOf(r, "phase.started", p)>>
  ELSE <<SaveOf(r, "succeeded", mem[r].phase), EmitOf(r, "run.completed", NumPhases)>>

\* Mutant: one phase too many.
StubFromOneMore(r, p) ==
  IF p <= NumPhases + 1
  THEN <<SaveOf(r, "running", p), EmitOf(r, "phase.started", p)>>
  ELSE <<EmitOf(r, "run.completed", NumPhases), SaveOf(r, "succeeded", mem[r].phase)>>

(* The top of the loop at phase p: announce it and sleep, or finish.       *)
StubFrom(r, p) ==
  IF p <= NumPhases
  THEN <<SaveOf(r, "running", p), EmitOf(r, "phase.started", p)>>
  ELSE <<EmitOf(r, "run.completed", NumPhases), SaveOf(r, "succeeded", mem[r].phase)>>

StubAwait(p) == IF p <= NumPhases THEN "sleep" ELSE "done"

\* Mutant: a resumed run goes back to the phase it was in.
StartStubAgain(r) ==
  /\ LoopIdle /\ task[r] = "ready" /\ ~IsAgent(r)
  /\ LET next == IF mem[r].phase = 0 THEN 1 ELSE mem[r].phase
     IN  RunSegment(r, <<SaveOf(r, "running", mem[r].phase), EmitOf(r, "run.started", 0)>>
                         \o StubFrom(r, next), StubAwait(next))

(* start_index: a run that is resumed goes on after the phase it was in.   *)
StartStub(r) ==
  /\ LoopIdle /\ task[r] = "ready" /\ ~IsAgent(r)
  /\ LET begin == <<SaveOf(r, "running", mem[r].phase), EmitOf(r, "run.started", 0)>>
         next == mem[r].phase + 1
     IN  IF mem[r].policy = "bad_delay"      \* float() raises: the task dies
         THEN RunSegment(r, begin, "done")
         ELSE RunSegment(r, begin \o StubFrom(r, next), StubAwait(next))

WakeStub(r) ==
  /\ LoopIdle /\ task[r] = "sleep" /\ ~mem[r].cancelled
  /\ LET p == mem[r].phase
     IN  RunSegment(r, <<EmitOf(r, "phase.completed", p)>> \o StubFrom(r, p + 1),
                    StubAwait(p + 1))

-----------------------------------------------------------------------------
(* The agent runtime: _run_agent.                                          *)

(* Phases p .. q one after the other, none of which awaits anything.       *)
PassThrough(r, p, q) ==
  [i \in 1 .. (IF p <= q THEN 3 * (q - p + 1) ELSE 0) |->
     LET n == p + ((i - 1) \div 3)
     IN  CASE (i - 1) % 3 = 0 -> SaveOf(r, "running", n)
           [] (i - 1) % 3 = 1 -> EmitOf(r, "phase.started", n)
           [] (i - 1) % 3 = 2 -> EmitOf(r, "phase.completed", n)]

Enter(r, p) == <<SaveOf(r, "running", p), EmitOf(r, "phase.started", p)>>

(* Every start, a resume included, begins again at the first phase.        *)
StartAgent(r) ==
  /\ LoopIdle /\ task[r] = "ready" /\ IsAgent(r)
  /\ RunSegment(r, <<SaveOf(r, "running", mem[r].phase), EmitOf(r, "run.started", 0)>>
                     \o PassThrough(r, 1, GeneratePhase - 1) \o Enter(r, GeneratePhase),
                "plan")

(* agent_factory raises outside the try: nobody looks at the dead task.    *)
FactoryRaises(r) ==
  /\ LoopIdle /\ task[r] = "ready" /\ mem[r].policy = "agent_with_secret"
  /\ RunSegment(r, <<>>, "done")

PlanReturns(r) ==
  /\ LoopIdle /\ task[r] = "plan"
  /\ RunSegment(r, <<EmitOf(r, "context.retrieved", GeneratePhase),
                     EmitOf(r, "plan.created", GeneratePhase),
                     EmitOf(r, "phase.completed", GeneratePhase)>>
                     \o PassThrough(r, GeneratePhase + 1, ExecutePhase - 1)
                     \o Enter(r, ExecutePhase),
                "execute")

ExecutePasses(r) ==
  /\ LoopIdle /\ task[r] = "execute"
  /\ RunSegment(r, <<EmitOf(r, "phase.completed", ExecutePhase),
                     EmitOf(r, "verdict.passed", ExecutePhase)>>
                     \o PassThrough(r, ExecutePhase + 1, NumPhases)
                     \o <<EmitOf(r, "run.completed", NumPhases),
                          SaveOf(r, "succeeded", NumPhases)>>,
                "done")

ExecuteFails(r) ==
  /\ LoopIdle /\ task[r] = "execute"
  /\ RunSegment(r, <<EmitOf(r, "phase.completed", ExecutePhase),
                     EmitOf(r, "verdict.failed", ExecutePhase),
                     SaveOf(r, "failed", mem[r].phase)>>,
                "done")

(* session.plan or session.execute raises.                                 *)
SessionRaises(r) ==
  /\ LoopIdle /\ task[r] \in {"plan", "execute"}
  /\ RunSegment(r, <<EmitOf(r, "run.failed", mem[r].phase),
                     SaveOf(r, "failed", mem[r].phase)>>,
                "done")

(* except asyncio.CancelledError, of both runtimes.                        *)
TakeCancellation(r) ==
  /\ proc # "down" /\ script = <<>> /\ task[r] = "interrupted"
  /\ RunSegment(r, <<SaveOf(r, "cancelled", mem[r].phase)>>, "done")

RunTask(r) ==
  \/ StartStub(r) \/ WakeStub(r)
  \/ StartAgent(r) \/ FactoryRaises(r)
  \/ PlanReturns(r) \/ ExecutePasses(r) \/ ExecuteFails(r) \/ SessionRaises(r)
  \/ TakeCancellation(r)

-----------------------------------------------------------------------------
(* GET /v1/runs/{id}/events: the event stream.                             *)

SeqsOf(s) == {s[i].seq : i \in DOMAIN s}
\* Mutant: numbering starts again after a restart.
MaxSeqForgotten(s) == 0
\* Mutant: the number of the next event is reloaded as that of the last.
MaxSeqNext(s) == Len(s) + 1
MaxSeq(s) == IF s = <<>> THEN 0 ELSE CHOOSE m \in SeqsOf(s) : \A n \in SeqsOf(s) : n <= m
LastSeq(s) == IF s = <<>> THEN 0 ELSE s[Len(s)].seq

(* Those of the log that are numbered after "since", in their order: the   *)
(* n-th of them has n - 1 before it.  (SelectSeq, said without recursion.) *)
EventsAfter(log, since) ==
  LET fresh == {i \in DOMAIN log : log[i].seq > since}
  IN  [n \in 1 .. Cardinality(fresh) |->
         log[CHOOSE i \in fresh : Cardinality({j \in fresh : j < i}) = n - 1]]
GetEvents(r, since) == EventsAfter(events[r], since)

StreamUnchanged == UNCHANGED <<procVars, storeVars, logVars, task, script, acked>>

(* A client connects, or reconnects: the stream starts at event 1 again.   *)
(* The yields of the first events can suspend on a slow client.            *)
OpenStream(c, r) ==
  /\ LoopIdle
  /\ conn[c].state = "off" /\ conn[c].run \in {"none", r}
  /\ mem[r] # Absent
  /\ \E slow \in {FALSE, SlowClients} :
       \E state \in {"polling"} \cup
                    (IF slow /\ GetEvents(r, 0) # <<>> THEN {"opening"} ELSE {}) :
         conn' = [conn EXCEPT ![c] = [run |-> r, state |-> state, slow |-> slow,
                                      got |-> GetEvents(r, 0)]]
  /\ StreamUnchanged

\* Mutant: the stream does not know that a cancelled run is over.
AfterCheckNoCancel(r) == IF mem[r].status \in {"succeeded", "failed"} THEN "done" ELSE "polling"
AfterCheck(r) == IF mem[r].status \in Terminal THEN "done" ELSE "polling"

\* Mutant: the status is read before the events are fetched.
PollStreamCheckFirst(c) ==
  /\ LoopIdle
  /\ conn[c].state = "polling"
  /\ LET r == conn[c].run
         fresh == GetEvents(r, LastSeq(conn[c].got))
     IN  conn' = [conn EXCEPT ![c].got = IF AfterCheck(r) = "done" THEN @ ELSE @ \o fresh,
                              ![c].state = AfterCheck(r)]
  /\ StreamUnchanged

(* One turn of the poll loop.  The yields of a turn with fresh events can  *)
(* suspend on a slow client, and the status is read only after them.       *)
PollStream(c) ==
  /\ LoopIdle
  /\ conn[c].state = "polling"
  /\ LET r == conn[c].run
         fresh == GetEvents(r, LastSeq(conn[c].got))
     IN  \E after \in {AfterCheck(r)} \cup
                      (IF conn[c].slow /\ fresh # <<>> THEN {"sending"} ELSE {}) :
           conn' = [conn EXCEPT ![c].got = @ \o fresh, ![c].state = after]
  /\ StreamUnchanged

(* The suspended stream goes on: into its loop, or, after the yields of a   *)
(* turn, to the status it reads only now.                                  *)
CheckStream(c) ==
  /\ LoopIdle
  /\ conn[c].state \in {"opening", "sending"}
  /\ conn' = [conn EXCEPT ![c].state = IF @ = "opening" THEN "polling"
                                       ELSE AfterCheck(conn[c].run)]
  /\ StreamUnchanged

(* The 3000 turns are used up, or the client goes away.                    *)
CloseStream(c) ==
  /\ LoopIdle
  /\ conn[c].state \in {"opening", "polling", "sending"}
  /\ conn' = [conn EXCEPT ![c].state = "off"]
  /\ StreamUnchanged

-----------------------------------------------------------------------------
(* The life of the process.                                                *)

Broken == [c \in Clients |-> [conn[c] EXCEPT !.state = IF @ = "done" THEN @ ELSE "off"]]

(* The memory goes: what restart rebuilds from the disk.                   *)
Die(lines, ends, connections) ==
  /\ proc' = "down"
  /\ mem' = [r \in Runs |-> Absent]
  /\ events' = [r \in Runs |-> <<>>]
  /\ seq' = [r \in Runs |-> 0]
  /\ task' = [r \in Runs |-> "none"]
  /\ script' = <<>>
  /\ file' = lines /\ tail' = ends
  /\ conn' = connections
  /\ UNCHANGED <<disk, acked>>

(* The process is killed, between any two effects.                         *)
Crash ==
  /\ proc # "down" /\ crashes < MaxCrashes
  /\ crashes' = crashes + 1
  /\ Die(file, tail, Broken)

(* The process is killed inside the write of a line.                       *)
TornCrash ==
  /\ TornWrites
  /\ proc # "down" /\ crashes < MaxCrashes
  /\ script # <<>> /\ Head(script).do = "emit"
  /\ LET o == Head(script)
         r == o.run
     IN  \E t \in {"fragment", "unterminated"} :
           Die([file EXCEPT ![r] = IF tail[r] = "whole" /\ t = "fragment" THEN @
                                   ELSE LinesAfter(@, tail[r], NextEvent(o))],
               [tail EXCEPT ![r] = IF tail[r] = "whole" THEN t ELSE "fragment"],
               Broken)
  /\ crashes' = crashes + 1

(* The loop is torn down with its tasks alive (asyncio.run ends on Ctrl-C, *)
(* a test client closes): requests are no longer served, each suspended    *)
(* task gets a CancelledError, and a task that has not begun never will.   *)
Shutdown ==
  /\ Shutdowns
  /\ LoopIdle /\ crashes < MaxCrashes
  /\ proc' = "closing"
  /\ crashes' = crashes + 1
  /\ task' = [r \in Runs |-> IF task[r] \in {"sleep", "plan", "execute", "interrupted"}
                             THEN "interrupted" ELSE "none"]
  /\ conn' = Broken
  /\ UNCHANGED <<storeVars, logVars, script, acked>>

ShutdownEnds ==
  /\ proc = "closing"
  /\ script = <<>> /\ \A r \in Runs : task[r] # "interrupted"
  /\ Die(file, tail, conn)
  /\ UNCHANGED crashes

\* Mutants: finished runs are started again; queued runs are forgotten.
ResumableAny(run) == run.status # "absent"
ResumableRunning(run) == run.status = "running"

(* resume_incomplete's condition.                                          *)
Resumable(run) == run.status \in {"queued", "running"} /\ ~run.cancelled

(* RunStore._load, Orchestrator._load_all_events, then resume_incomplete   *)
(* in the application's lifespan.  The new status is not saved here.       *)
Restart ==
  /\ proc = "down"
  /\ proc' = "up"
  /\ mem' = [r \in Runs |-> IF Resumable(disk[r])
                            THEN [disk[r] EXCEPT !.status = "queued"] ELSE disk[r]]
  /\ task' = [r \in Runs |-> IF Resumable(disk[r]) THEN "ready" ELSE "none"]
  /\ events' = file
  /\ seq' = [r \in Runs |-> MaxSeq(file[r])]
  /\ UNCHANGED <<disk, file, tail, script, acked, conn, crashes>>

Next ==
  \/ Perform
  \/ \E r \in Runs : CreateRun(r) \/ CancelRun(r) \/ RunTask(r)
  \/ \E c \in Clients : \/ \E r \in Runs : OpenStream(c, r)
                        \/ PollStream(c) \/ CheckStream(c) \/ CloseStream(c)
  \/ Crash \/ TornCrash \/ Shutdown \/ ShutdownEnds \/ Restart

Spec == Init /\ [][Next]_vars

(* The event loop runs what is ready.  plan and execute return or raise:   *)
(* the provider and every tool call have a timeout.  Nobody has to create, *)
(* cancel or follow a run, to read what a stream sends, or to start a dead *)
(* process again.                                                          *)
Fairness ==
  /\ WF_vars(Perform) /\ WF_vars(ShutdownEnds)
  /\ \A r \in Runs : SF_vars(RunTask(r))
  /\ \A c \in Clients : SF_vars(PollStream(c))

FairSpec == Spec /\ Fairness

-----------------------------------------------------------------------------
(* Properties.                                                             *)

Types(s) == {s[i].type : i \in DOMAIN s}
Count(s, t, p) == Cardinality({i \in DOMAIN s : s[i].type = t /\ s[i].phase = p})

(* What the log says and what the status says agree: a run stored as       *)
(* succeeded has a log that ends with run.completed, a failed one ends     *)
(* with the failure, and a caller who was told "cancelled" finds that in   *)
(* the log.  _emit and save are two writes that a crash can separate.      *)
StatusMatchesLog ==
  \A r \in Runs :
    /\ disk[r].status = "succeeded" => /\ file[r] # <<>>
                                       /\ file[r][Len(file[r])].type = "run.completed"
    /\ disk[r].status = "failed" => /\ file[r] # <<>>
                                    /\ file[r][Len(file[r])].type
                                         \in {"run.failed", "verdict.failed"}
    /\ r \in acked => "run.cancelled" \in Types(file[r])

(* Nothing is added to the log of a run once its status is terminal: not   *)
(* by the task a cancel interrupted, and not by a restart.                 *)
QuietAfterEnd ==
  [][\A r \in Runs : disk[r].status \in Terminal =>
        /\ file'[r] = file[r]
        /\ proc # "down" /\ proc' # "down" => events'[r] = events[r]]_vars

(* A stub run that is resumed does not do a phase again ("resume skips     *)
(* already completed phases"), and of a run that succeeded no more phases  *)
(* are missing than processes died: each death costs the phase it          *)
(* interrupted, never a later one.                                         *)
StubPhases ==
  \A r \in Runs : disk[r].policy \in {"stub", "bad_hosts"} =>
    /\ \A p \in 1 .. NumPhases : Count(file[r], "phase.started", p) <= 1
    /\ disk[r].status = "succeeded" =>
         Cardinality({p \in 1 .. NumPhases : Count(file[r], "phase.completed", p) = 0})
           <= crashes

(* The durable status keeps the promises of RunLifecycle.                  *)
Lifecycle == INSTANCE RunLifecycle WITH status <- [r \in Runs |-> disk[r].status],
                                        told <- acked
LifecycleSpec == Lifecycle!Spec

(* The n-th event of a run has sequence number n.                          *)
SeqGapFree == \A r \in Runs : \A i \in DOMAIN events[r] : events[r][i].seq = i

(* The sequence numbers of a run's log increase, in memory and on disk,    *)
(* however often the process dies and wherever in a line it dies.          *)
Increasing(s) == \A i, j \in DOMAIN s : i < j => s[i].seq < s[j].seq
SeqIncreasing == \A r \in Runs : Increasing(events[r]) /\ Increasing(file[r])

(* What makes SeqIncreasing inductive: the counter is never behind the     *)
(* log, neither the one in memory nor the one it is reloaded from.  And    *)
(* what makes the types inductive: effects and tasks belong to known runs, *)
(* and a dead process has no effects left to make.                         *)
Below(s, n) == \A i \in DOMAIN s : s[i].seq <= n
CounterAhead ==
  \A r \in Runs : /\ Below(events[r], seq[r])
                  /\ proc # "down" => Below(file[r], seq[r])
KnownRuns ==
  /\ \A i \in DOMAIN script : mem[script[i].run] # Absent
  /\ \A r \in Runs : task[r] # "none" => mem[r] # Absent
  /\ proc = "down" => script = <<>>
LogInv == RunTypeOK /\ KnownRuns /\ SeqIncreasing /\ CounterAhead

(* What a client has received stays true: its events are the first events  *)
(* of the log, also after the cell has died and come back.                 *)
ClientSawPrefix ==
  \A c \in Clients :
    proc = "up" /\ conn[c].run # "none" =>
      LET log == events[conn[c].run]
      IN  /\ Len(conn[c].got) <= Len(log)
          /\ conn[c].got = SubSeq(log, 1, Len(conn[c].got))

(* A stream that the cell ended has delivered the whole log of the run,    *)
(* unless a slow connection let the run go on between send and check.      *)
StreamComplete ==
  \A c \in Clients :
    proc = "up" /\ conn[c].state = "done" /\ ~conn[c].slow => conn[c].got = events[conn[c].run]

(* In a process that stays up a run ends: as soon as it was created if its *)
(* policy can be loaded and acted on ("stub", "agent"), and once it has a  *)
(* task if its policy was refused when it was created ("bad_hosts"), also  *)
(* if it was resumed by a restart.  Excepted are the two kinds of task     *)
(* that die before their try, on a delay that is no number and on a secret *)
(* that is not there: such a run stays as it is until it is cancelled.     *)
WillRun(r) == \/ mem[r].policy \in {"stub", "agent"}
              \/ mem[r].policy = "bad_hosts" /\ task[r] # "none"
RunsEnd == \A r \in Runs : WillRun(r) ~> disk[r].status \in Terminal \/ proc = "down"

(* The stream of a run that has ended is ended by the cell, or has broken, *)
(* if its client goes on reading: a yield returns only if what it sends is *)
(* taken, and nothing limits how long that may be.                         *)
Streaming(c) == conn[c].state \in {"opening", "polling", "sending"}
Reading(c) == []<>(conn[c].state \notin {"opening", "sending"})
StreamsEnd ==
  \A c \in Clients :
    Reading(c) => (Streaming(c) /\ mem[conn[c].run].status \in Terminal ~> ~Streaming(c))

=============================================================================
