# TLA+ models of testradius

This directory holds TLA+ specifications of the parts of testradius in which
the order of events decides whether the result is right, the TLC configurations
that check them on small instances, and proofs, checked by TLAPS, of what
matters most for instances of any size.

Contents: [1 the system](#1-the-system), [2 modules](#2-modules), [3 the cell's
runs](#3-the-run-runtime-of-the-cell), [4 agent
sessions](#4-agent-sessions-of-the-cell), [5 the
license](#5-licensing-and-metering), [6 the evidence
graph](#6-instrumentation-and-the-evidence-graph), [7 pull
requests](#7-pull-request-analysis), [8 the testbed
cache](#8-the-testbed-cache), [9 analysis runs](#9-analysis-runs-of-the-core),
[10 sandbox batches](#10-sandbox-batches-of-the-harness), [11 hazards without a
property](#11-hazards-without-a-property), [12 not modelled](#12-not-modelled),
[13 running it](#13-running-it).

Paths are relative to the root of the repository, without `src/`. Short names:

| Short name | Directory |
|---|---|
| `orchestrator.py`, `state.py` | `apps/cell/cell/runs/` |
| `routes.py` | `apps/cell/cell/` |
| `planner.py`, `provider.py`, `executor.py`, `mcp.py`, `playwright.py`, `runtime.py` | `apps/cell/cell/agent/` |
| `service.py`, `app.py` | `services/license/license_server/` |
| `client.py`, `store.py` | `packages/license-client/license_client/` |
| `neo4j_store.py`, `incremental.py`, `pipeline_worker.py`, `per_test_analyzer.py`, `testbed_manager.py` | `services/core/testsquad_core/instrumentation/` |
| `selection.py`, `freshness.py`, `fusion.py` | `services/core/testsquad_core/analysis/` |
| `analyze.py`, `tools/fs.py`, `tools/github.py` | `apps/tia-agent/tia_agent/` |
| `run_orchestrator.py`, `main.py` | `services/core/testsquad_core/orchestration/`, `services/core/testsquad_core/` |
| `manager.py` | `services/executor/src/testsquad_executor/sandbox/` |
| `parallel.py`, `e2b.py` | `harness/orchestration/`, `harness/execution/` |

## 1 The system

testradius selects, generates and runs tests for a change of a code base. It is
a family of programs. Those that keep state which several actors change are
modelled.

### Inventory

| Component | State it keeps | Operations | Interacts with | Hard behaviour | What makes it correct | Modelled |
|---|---|---|---|---|---|---|
| Cell: run lifecycle (`orchestrator.py`, `state.py`, `routes.py`) | `runs.json`, `events/<run>.jsonl`, an asyncio task per run, streams | create, cancel, execute phases, resume at start, follow events | its agent session; clients over HTTP and SSE | kills between two writes and inside one, cancel of a task at any await, teardown of the loop, reconnecting clients | status moves forward only and agrees with the log; numbers increase; runs and streams end | `RunLifecycle`, `CellRun` |
| Cell: agent session (`planner.py`, `provider.py`, `executor.py`, `mcp.py`, `playwright.py`) | token budget, plan, counts of calls, handles of a browser | plan with retries, call tools, close | language model, browser; is called by the run lifecycle | interruption at any await, timeouts around a lazy start, replies that are rejected | the budget holds, a pass is earned, no browser is left, it ends | `AgentSession` |
| License metering (`services/license`, `packages/license-client`, the gate and meter of `apps/tia-agent`) | tables of licenses, activations and runs; `license.json` of each device | activate, validate, meter, flush the queue, webhook | server threads, client processes, Stripe | check-then-insert in threads, lost answers, retries, offline grace, two processes of a device | overruns are bounded; nobody pays for a run of which he was told that it did not count; starts are covered by a license; queued runs are kept | `LicenseMeter` |
| Instrumentation and the evidence graph (`neo4j_store.py`, `incremental.py`, `pipeline_worker.py`, `per_test_analyzer.py`, endpoints in `main.py`) | edges and stamps in Neo4j, cancel flags, `instrumentation_runs` | full and narrowed runs, the test map, mappers, cancel | testbed cache, graph, the repository's remote | narrowing from evidence that earlier narrowings left; lost shards; overlapping runs; restarts | narrowed runs leave what full ones would have left; one anchor | `EvidenceGraph`, `FullEvidence` (Python pipeline) |
| Pull-request analysis (`analyze_pr` in `main.py`, `selection.py`, `freshness.py`, `fusion.py`, `analyze.py`) | none of its own | rank, cap, fuse, judge freshness, fall back | evidence graph, GitHub, the user's checkout | reads what runs have left; a cap; three sources of the list of files | misses no test, or asks for the whole suite | `Selection` |
| Testbed cache (`testbed_manager.py`) | checkouts on disk, sidecar files, slot locks | clone, refresh, publish, expire | instrumentation runs in several processes | replacement of a tree that others use; kill between its removal and the rename | what is served is whole, installed, and current | `TestbedCache` |
| Core run orchestrator and executor service (`run_orchestrator.py`, `stream_run` in `main.py`, `manager.py`) | run rows and results in PostgreSQL, containers | start a run, stream it, generate, execute, propose, save the events | language model, graph, GitHub, Docker, web page | sessions with uncommitted updates, clients that leave, a status read before it is final | results are true; events are saved; streams end | `AnalysisRuns` |
| Harness: parallel batches over E2B (`parallel.py`, `e2b.py`, `harness/sandbox`) | futures, records, remote sandboxes | run a batch, fail fast, report | E2B | completion order, fail-fast while jobs run, each step of a job failing, sandboxes that expire | the report is true; a sandbox outlives the batch only if its creation or its kill failed; the batch returns | `SandboxBatch` |
| Core API (`main.py`) | project records, users | CRUD, login, reports | PostgreSQL | none | -- | no |
| Knowledge graph ingestion and mappers (`graph/ingestor.py`, `intelligence/`) | symbols and edges in Neo4j | parse, embed, propose tests | evidence graph | writes evidence beside the runs | does not disturb measured evidence | one action of `EvidenceGraph`, constants of `Selection` |
| TypeScript and Playwright pipelines | as the Python pipeline | full runs only | evidence graph | none of their own | full replacement | as `Replace` |
| Harness: state machine, retry (`fsm.py`, `retry.py`) | a run state | tick, transition | -- | none | -- | no |
| Harness: approval and bug filing (`harness/checkpoints`) | files | prepare, approve, revoke, file | trackers | one command at a time | -- | no |
| Harness: routines (`scheduler.py`) | append-only history | register, run due | e2b | clock arithmetic | -- | no |
| Harness: other executors, computer use | remote sessions | drive them | browsers | remote failures | -- | no |
| Harness: planning, vision, evidence, API | documents; a dictionary | transform | -- | none | -- | no |
| Cell: policy and secrets | files | load, resolve | runs | failures at load | -- | its failures, in `CellRun` |
| tia-agent: conversation, output, packaging | -- | ask, print | core API, license | none | -- | no |
| sdet-agent; workbench service | a session | plan and act, generate | language model | the model's choices | -- | no |
| testradius bridge; GitHub app | -- | proxy, webhooks | core | none of their own | -- | no |
| Front ends and control plane | the user's | -- | APIs | -- | -- | no |
| Shared packages, infrastructure, evaluations, data | -- | -- | -- | -- | -- | no |

### How the modelled parts are scheduled

* The **cell** and the **core service** are each one asyncio event loop: code
  between two awaits (or two yields of a synchronous generator behind an event
  stream) is not interleaved with other code of the process. What can happen
  anywhere is a kill of the process.
* The **license server** runs each request in a thread, with a database session
  whose statements are not one transaction.
* License **clients** are processes that make one call at a time; several of
  them may share a device and its `license.json`.
* The **testbed cache** is a directory that several processes use, each one a
  run; a `flock` per slot is all they share.
* A **batch** of the harness is a calling thread and a pool of threads.

### How the models fit together

`EvidenceGraph` is composed by extension with `Selection`, whose answers are
judged in every state that instrumentation runs leave. `CellRun` takes of an
agent session only how its two phases end (`PlanReturns`, `ExecutePasses`,
`ExecuteFails`, `SessionRaises`, `TakeCancellation`); `AgentSession` is what
happens inside, and its verdicts are these outcomes. `TestbedCache` is the
protocol behind `EvidenceGraph`'s `CloneTip`, `KeepCheckout` and `CloneFails`:
`ServedCurrent` is the reason why a run that cloned or refreshed is on the tip,
and an edited or offline checkout why it may not be. `RunLifecycle` and
`FullEvidence` are abstract specifications that `CellRun` and `EvidenceGraph`
implement.

## 2 Modules

| Module | What it is |
|---|---|
| `RunLifecycle` | Abstract: what a cell promises about the durable status of a run |
| `CellRun` | The run runtime of the cell; implements `RunLifecycle` |
| `MCCellRun`, `CellRunProofs` | Symmetry for TLC, the filter of `get_events`; all safety of the cell, the refinement |
| `AgentSession`, `AgentSessionProofs` | One agent session; types, budget, verdict, browser |
| `LicenseMeter` | License server, clients, Stripe |
| `MCLicenseMeter`, `LicenseMeterProofs` | Instances; types, the bounds of the two overruns, warnings, cover of starts, the queue |
| `FullEvidence` | Abstract: the evidence is what one run of the whole suite recorded |
| `EvidenceGraph` | Instrumentation runs and the graph; implements `FullEvidence` |
| `MCEvidenceGraph`, `EvidenceGraphProofs` | Instances; types, one anchor, soundness, the refinement, cancellation |
| `Selection` | Pull-request analysis over the evidence graph |
| `MCSelection`, `SelectionProofs` | An instance; completeness of the answers |
| `TestbedCache`, `TestbedCacheProofs` | The cache of checkouts, its lock and its sidecar; types, what is served, staging |
| `AnalysisRuns`, `AnalysisRunsProofs` | Run rows, streams, containers and database sessions of the core; types, true results, recorded ends |
| `SandboxBatch`, `SandboxBatchProofs` | A parallel batch; types, sandboxes, the report |

`PROJECT.json` names for every definition the lines of code it stands for.
Definitions after a comment `\* Mutant:` are plausible bugs: each property is
checked to fail when one of them takes the place of the definition it mutates,
so that every property is known to depend on the code. Comments of properties
say which behaviour of the code they are about.

Constants called `Max...` bound what would be counted for ever (crashes,
activations, days, calls, faults, streams, rows); every other bound of an
instance is the size of a set.

All proofs are of safety: every invariant and every action property that a
passing run checks is a theorem, and so are the two refinements. Some theorems
have a hypothesis about a constant (no torn lines, one run at a time, one
client process of a device); the sections say which, why the property fails
without it, and the theorem names it. Liveness under fairness (`RunsEnd`,
`StreamsEnd`, `CallsEnd`, `EventsSaved`, `SessionEnds`, `BatchEnds`) is out of
the reach of TLAPS here and is only model-checked.

Two runs check what a comment says and the code does not do; TLC shows how:
`license_cached` (section 5) and `analysis_hang` (9). Other disagreements with
the documents are listed as known deviations, section by section.

## 3 The run runtime of the cell

### Model

`mem` and `disk` are `RunStore._runs` and `runs.json` (which is replaced
atomically), `events`/`seq` and `file`/`tail` the event log in memory and its
JSON lines on disk, `task` the asyncio task of each run with the await it is
suspended in, `conn` the clients' event streams, `acked` the cancel requests
that were answered.

A handler, or a task that is woken, is **one action** that runs its guards and
computes the segment up to the next await: the list of its emits, saves and
answers, in source order. The list is put in `script`, and `Perform` carries
out one effect at a time. Other actions of the process wait until the script is
empty, since the event loop is not free before; `Crash` and `TornCrash` (half a
line written) do not wait. So all interleavings of the event loop and all crash
points are there, and no others.

| Code | Model |
|---|---|
| `POST /v1/runs`, `create_run` | `CreateRun` |
| `Orchestrator.cancel` | `CancelRun`, `PerformAnswer` |
| `_run` (stub runtime) | `StartStub`, `WakeStub`, `StubFrom` |
| `_run_agent` | `StartAgent`, `FactoryRaises`, `PlanReturns`, `ExecutePasses`, `ExecuteFails`, `SessionRaises`, `TakeCancellation` |
| `_emit`, `RunStore.save` | `PerformEmit`, `PerformSave` |
| `stream_events` | `OpenStream`, `PollStream`, `CheckStream`, `CloseStream` |
| `_load_events`, `resume_incomplete` | `Restart`, `MaxSeq`, `Resumable` |
| end of `asyncio.run` | `Shutdown`, `ShutdownEnds` |

Left out: the path for a full disk, the step events an agent session emits by
itself, `timed_out` (a status nothing ever sets), and that a stream gives up
after 3000 turns. The seven phases are `NumPhases` phases of which two are
GENERATE and EXECUTE.

### Runs

| Run | Instance | Shows |
|---|---|---|
| `cell_lifecycle` | 2 runs of any of the five kinds of policy, 3 phases, one death, loop teardown, whole lines, symmetry in the runs | `StatusMatchesLog`: a terminal status and an answered cancel are backed by the log. `LifecycleSpec`: `CellRun` implements `RunLifecycle` -- no run leaves a terminal status, no cancel that was confirmed is undone, and a write for one run changes another only by queueing it again. `StubPhases`: a stub run that is resumed repeats no phase, and when it succeeds no more phases are missing than processes died |
| `cell_streams` | 1 run of any of the five kinds of policy, 1 client that may be slow, one death, torn lines, teardown | Types; `QuietAfterEnd`: nothing is logged after the end; `SeqIncreasing`; `SeqGapFree`; `ClientSawPrefix`: what a client has seen stays the beginning of the log; `StreamComplete`: a stream that the cell ended has delivered the whole log. Under `FairSpec`: `RunsEnd`: in a process that stays up a run ends if its policy can be acted on, resumed runs included; `StreamsEnd`: the stream of a run that has ended is ended, if its client goes on reading |

*Bounds.* Two runs suffice for what they share, the one `runs.json`, since
their logs and tasks are separate. A second death matters only after a first
(resuming what was resumed, a torn line after a torn line); the runs have one,
and the proofs, which cover every safety property here, have no bound on
deaths. Three phases leave one before EXECUTE and one after.

*Fairness.* `Perform` and `ShutdownEnds` are weakly fair: a coroutine that
holds the loop goes on. `RunTask(r)` and `PollStream` are strongly fair: the
loop's queue is first in, first out, and each of them is disabled whenever
another coroutine holds the loop, so weak fairness would permit what the queue
excludes. A task that waits in `plan` or `execute` is included because the
provider and every tool call have timeouts (section 4 shows that a session
comes to its verdict, and the status of the run is saved before its browser is
closed). Nothing else is fair. `Restart` is not: no restart policy is set for
the cell (`infra/compose/compose.factory.yaml`), so that `RunsEnd` is about
processes that stay up, the one that a restart starts included. `CheckStream`
is not: a suspended `yield` returns when the client has read, which nobody can
promise for it, so that `StreamsEnd` has it as its hypothesis (`Reading`).
Clients, cancels and creations are not fair: nobody has to do them.

*Where properties hold by restriction.* `StatusMatchesLog` is for whole lines;
`SeqGapFree`, `ClientSawPrefix` and `StreamComplete` are for one death if lines
can be torn: with a second one after a torn line the log has a gap.
`StreamComplete` excepts streams whose connection let the run go on between a
send and the check after it. `RunsEnd` excepts the runs whose task dies before
its `try`: a delay that is no number, and a secret that cannot be read. A run
whose policy was refused ends once a restart has given it a task. A stream of a
run that does not end is given up after 3000 turns, which is left out;
`StreamsEnd` does not rely on it.

### Proved (`CellRunProofs`, from `CellAssumption`)

For any number of runs, clients, phases and deaths:

| Theorem | States | Where |
|---|---|---|
| `LogInvHolds`, `TypesHold`, `CellTypesHold` | `LogInv`, `RunTypeOK`, `TypeOK` | always |
| `SequenceNumbersIncrease` | `SeqIncreasing` | always |
| `LifeInvHolds` | `LogInv /\ LifeInv` | always |
| `LogOfEndedRunIsQuiet` | `QuietAfterEnd` | always |
| `CellImplementsLifecycle` | `LifecycleSpec` | always |
| `StubRunsSkipFewPhases` | `StubPhases` | always |
| `StatusAgreesWithLog` | `StatusMatchesLog` | no torn lines |
| `NumbersHaveNoGap` | `SeqGapFree` | `FewTears` |
| `ClientsSeeThePrefix` | `ClientSawPrefix` | `FewTears` |
| `EndedStreamsAreComplete` | `StreamComplete` | `FewTears` |

`FewTears` is "no torn lines, or one death": with two deaths a line can be torn
and the next one glued to it, and the log has a gap, which a client can notice.
Likewise, if a torn line takes the event that names an outcome, status and log
disagree. Without these hypotheses TLC finds each of the four violated (one torn
death for the status, two for the others).

*Numbers.* `SeqIncreasing` is not inductive: an event gets the counter plus
one, so the counter must not be behind the log (`CounterAhead`), neither in
memory nor, while the process lives, the file. After a death the counter is
reloaded as the largest number in the file; that this is a number, and an upper
bound, needs the types and the order of the file. `LogInv` is their
conjunction, with `KnownRuns` (effects and tasks belong to runs that exist).
Without gaps (`GapInv`) the counter is the length of the log in memory, and as
long as no line can have been torn the file is that log (`WholeSoFar`); the
file that a first death leaves, torn or not, still has no gap to reload.

*Life.* Everything else about the end of a run needs to know where in the run's
life an effect is made. `LifeInv` says it in three parts. `ScriptFits`: the
effects of a segment belong to one run, follow each other as the code writes
them (`Follows`: an outcome's event, then its save, then nothing), and the
first one is fit for the status in memory (`Fits`). `TaskFits`: a task in one
of its awaits belongs to a run that is running. `MemOnDisk`: memory and disk
differ only in what a restart has queued again. From it, no effect of a run
whose stored status is terminal can be next (`QuietAfterEnd`), and a save
writes a status that `RunLifecycle` permits. `Logged` adds that the log ends
with the event on which the next save relies.

*Phases of a stub run.* `StubInv` relates the phase that is saved, the script
and the log. `Announced`: one `phase.started` for each phase, none beyond the
one that is saved. `Completed` counts the phases whose end is in lines that no
append can spoil; `FewLost(r, n)` says that of the first `n` no more are
missing than processes died. In the middle of phase `k` that is known of
`k - 1` phases; of all `k` once the phase is completed, or the process has died
(which is what the death costs), and a resumed run goes on from there.
`Middle` names the five places of a segment where a run can be, and what each
knows; `Resting` is every other state. `StubInv` was model-checked first: with
one run, four phases and two deaths, with two runs and one death, and with
three deaths.

*Streams.* A client asks for what is numbered after its last event. In a log
without gaps that is exactly the rest (`FreshInGapFree`), so that what a client
has stays a beginning of the log (`GotInv`). `EventsAfter` is the filter of
`get_events` as a function of positions, the `n`-th selected event being the
one with `n - 1` selected before it, since a recursive operator cannot be
reasoned about here; `EventsAfterSelects` in `MCCellRun` has TLC compare it
with `SelectSeq` on all logs of up to four events, and that position `n`
exists is proved from the well-foundedness of the naturals (`LeastElement`).

Only model-checked: `RunsEnd` and `StreamsEnd`.

### Known deviations

* A phase is saved when it starts (`orchestrator.py:126`), and a resumed stub
  run begins with the one after it, so that the interrupted phase has no
  `phase.completed`. `docs/project-plan.md:298` says "never skips a phase".
  `StubPhases` bounds what is skipped: one phase for each death.
* A resumed agent run executes every phase again, and may give a second verdict
  (`orchestrator.py:168`; `docs/project-plan.md:299`).
* The event that follows a torn line is glued to it and lost
  (`orchestrator.py:51`), so numbers can have gaps (but never repeat).
* A client that is slow to read misses what is emitted while it is being sent
  to and the run ends (`routes.py:121` looks at the status after the yields).
* A reconnecting client gets the log from the first event again
  (`routes.py:111`; `docs/project-plan.md:314`).
* A teardown of the loop cancels runs for good (`orchestrator.py:145`), while a
  kill lets them be resumed.
* The agent factory is called outside the `try`; if it raises, the task is gone
  and the run stays queued; a restart tries again (`orchestrator.py:160`).
  `docs/project-plan.md:331` says that without the broker "the run fails fast".
  `RunsEnd` excepts these runs.
* A policy that cannot be loaded is answered with an error, but its run has
  been stored and is executed after a restart (`routes.py:63`).
  `docs/project-plan.md:306` says that "no run is created". `RunsEnd` excepts
  these runs until a restart has given them a task.
* A `stub_delay_ms` that is no number ends the task of a run that is stored as
  running (`orchestrator.py:127`); a restart repeats it.

## 4 Agent sessions of the cell

### Model

`pc` is where the session's task is suspended, `ask` and `attempt` count the
plans asked for and the retries of one request, `calls` and `used` are the
`ProviderBudget`, `plan`, `at`, `seen` and `called` the executor's plan, its
step, its counts per call and the steps it has recorded. `handle` is what
`PlaywrightMCPClient` holds, `alive` the processes that really exist, and
`lost` says that a process exists to which no handle leads.

| Code | Model |
|---|---|
| `Planner.plan`, the parsing of a reply | `Retrieve`, `Reply`, `Replies`, `Accepted` |
| `RetryingProvider.complete`, `ProviderBudget.charge` | `Request`, `ProviderFails`, `BackoffEnds`, `OverBudget` |
| `Executor.execute` | `PlanningStep`, `CallTool`, `ToolAnswers`, `ToolFails`, `AllStepsDone` |
| `_page_or_start` under the time limit of `ToolRegistry.call` | `StartReturns`, `Abandon` |
| cancel of the run, end of the loop | `Interrupt` |
| `close` | `CloseBrowser`, `StopDriver`, `CloseFails` |

Left out is what a session never meets: a tool that is not offered or not
registered and a citation that does not resolve (the plan was parsed against
the same lists), an unhealthy client, a limit on the number of calls
(`runtime.py` sets none). A plan's dependencies are checked when it is parsed;
steps then run in the order in which they are listed.

### Run

`agent_session`: two tool calls, plans of up to three steps, one retry, two
repetitions, completions that cost 1 or 2 against a limit of 2. `BudgetHolds`:
the provider is asked no more often than two plans with their retries take, and
what is used exceeds the limit by one completion at most. `PassedIsEarned`: a
session that passed called the tool of every step that has one, in order, each
answered well. `BrowserGone`: wherever it was interrupted, an ended session
leaves no browser and no driver, save those to which no handle leads.
`SessionEnds`: it comes to its verdict although the browser may hang at any
point of its start or of a tool call, and it then ends unless it waits for ever
for the browser or the driver to close.

*Bounds.* Three steps let a call be repeated more often than twice, and a
planning step be between two calls; two costs make the limit be met exactly,
and exceeded by the first and by a later completion. Deadlock is not checked: a
session stops.

*Fairness.* Only the session's own steps and the expiry of its two time limits
(30 seconds for a request, 15 for a tool call) are weakly fair: `Progress`, and
of `Close` what has no handle to wait for. `StartReturns`, `ToolAnswers` and a
close that waits (`ClosingWaits`) are not fair: nothing limits the time of
`playwright.py:199` and `:202`.

### Proved (`AgentSessionProofs`, from `SessionAssumption`)

`SessionTypesHold`, `BudgetIsHeld`, `PassIsEarned`, `NoBrowserIsLeft`, each
`Spec => []P` for the property of the run, for any calls, costs, lengths of
plans and limits; `SessionInvHolds` is the invariant behind them. `Asking`
counts the requests of the current plan on top of those of the first.
`Spending` says that before a plan is accepted what was used is within the
limit. `Carrying` relates the recorded calls to the plan up to the executor's
step, where a call in progress is counted in `seen` but not yet recorded.
`Browsing` says that the handles are set in the order in which `close` needs
them, and what may exist without one. Only `SessionEnds` is merely
model-checked.

### Known deviations

* The "tokens" of the metrics are those of the last completion only; failed
  completions are not charged.
* The run is stored as succeeded or failed before the browser is closed, and
  `close` has no time limit: a browser that hangs in it keeps the task of a run
  that is over.
* A driver whose start was interrupted before its handle was returned stays.

## 5 Licensing and metering

### Model

One license. `tokens`, `runs`, `lic` are the rows of the server's database,
`thread` is the request each server thread works on with its locals, `store` is
`license.json` per device, `agent` the client process with the `LicenseState`
in its hands. A handler is a chain of stages, one per commit or per group of
reads that nothing separates; `record_run` validates, reads the quota, and
inserts in three steps, and another thread or a webhook may act in between. A
client may give up any call (`Unanswered`) while the server goes on with it.
`Quit` kills a client, `ThreadDies` a request. `Tick` lets a day pass.

| Code | Model |
|---|---|
| `service.activate` | `ActivateReads`, `ActivateCommits` |
| `service.validate`, `evaluate_access` | `Validate`, `Allowed`, `QuotaLeft`, `Expired`, `InGrace` |
| `service.record_run` | `MeterValidates`, `MeterReads`, `MeterInserts` |
| the Stripe webhook | `Webhook` |
| `LicenseClient.activate`, `ensure_valid`, `record_run`, `_flush_pending` | `StartActivation`, `StartRun`, `FinishRun`, the `Receive...` operators |
| `_offline_grace` | `OfflineOK` |
| `LicenseStore` | `store`, `Saved` |

Only what is shown to the user is left out of the `LicenseState`. History
variables: `warned` (runs of which the user was told that they were not
counted), `usable` (the last day on which the server would have allowed runs).

### Runs

`license_meter`: 1 device, 1 client process, 2 server threads, 3 runs, quota 1,
3 days, two billing periods and a cancellation, 2 activations.
`OverrunBounded`: in each billing period fewer than `Quota + Threads` runs are
counted. `WarnedIsFinal`: who was told that a run was not counted is not
charged for it, by a late request or by the queue. `StartsAreCovered`: an
analysis starts only if the server would have allowed it within the last
`OfflineGrace` days; it says nothing of the quota at that moment (see
`license_cached`). `QueuedRunsKept`: a queued run stays in `license.json`
until it is counted, while the device has the server's token. Types.

`license_cached` (a violation): 2 devices with a client process each share a
quota of one run; 1 thread, 2 days.
`client.py:134-136` says that a cached positive "must not let an exhausted quota
start a run". `StartsHaveQuota` states it and does not hold: `ensure_valid` asks
the server only when the cache is a day old or says 0, and goes on with the
cache when the server is not reached. TLC's trace: a run is reported, the server
counts it and its answer is lost, and the next analysis starts with the quota in
`license.json`.

*Bounds.* The overrun needs a report in each thread and one more, so three runs
for two threads and quota 1; since a client gives up calls, one client process
is enough to keep two threads busy. Three days leave a day of grace after a
period and one after the grace. A second activation is what makes the tokens of
device and server differ. Deadlock is not checked: the days, run ids and
activations end. Safety only: no fairness is assumed, since clients and
networks promise none.

### Proved (`LicenseMeterProofs`, from `LicenseAssumption`)

For any quota, device limit, number of threads, devices, clients, runs and any
set of subscription states; the assumption also says that "none" is neither a
thread nor a run id, since the model uses it for "no thread" and "no run".

* `TypesHold`: `Spec => []TypeOK`
* `OverrunIsBounded`: `Spec => []OverrunBounded`
* `DevicesAreBounded`: `Spec => []DevicesBounded`
* `WarningsAreFinal`: `Spec => []WarnedIsFinal`
* `EveryStartIsCovered`: `Spec => StartsAreCovered`
* `QueuesAreKept`: `Spec => QueuedRunsKept` if each device has one client
  process (`OneClient`)

*The overruns* (`MeterInvHolds`). Nothing in `OverrunBounded` says how many
requests have looked at the quota and will insert whatever happens. `QuotaRoom`
counts them in: runs of the period plus requests about to insert a run that is
not yet there stay below the bound. A request that passes the check finds fewer
than `Quota` runs, and at most all threads are then about to insert; an insert
turns a request into a run. `DeviceRoom` says the same of activated devices and
of requests about to add one. The types are needed for the sets to be finite,
and `Periods` because a request counts in the period it has read, while a
webhook may have replaced it. `DevicesBounded` has no run, since an instance in
which it is not trivially true needs three devices; its theorem covers every
number of them.

*Warnings* (`WarnInv`). A run id is followed through the system: unused, with
the one client that reports it, on the thread this client waits for, in a
queue, or counted. `RunsApart` says that a warned run is in none of the places
from which it could still be counted. It is not on a thread that nobody waits
for, because a client that gives up the report of a run queues the run instead
of warning.

*Starts* (`CoverInv`). `usable` is the last day on which the server would have
allowed a run. What is cached, on the disk or in the hands of a client, and says
that runs are left, was validated on a day no later than that; an answer under
way that says so was decided today, and the day does not change while a client
waits. A start looks at what is cached and adds at most `OfflineGrace` days.

*Queues* (`QueueInv`). A client reads the queue, reports its entries one by one
and writes the rest back. In between, every entry on the disk is in the part it
will write (`kept`), in the part still to be reported (`todo`), or counted
(`Accounts`); and a 401 comes only for a token that is not the server's
(`Carries`). With two processes on one device the second write undoes the first,
and TLC finds the property violated.

These invariants were model-checked before they were proved: `CoverInv` and
`QueueInv` on the instance of the run, `WarnInv` and `CoverInv` also with two
clients of one device, `QueueInv` with two clients of two. No safety property is
only model-checked, and no liveness property is stated.

### Known deviations

* `activate` replaces the device's token even if its answer is a refusal or is
  lost (`service.py:157`); the next validation is a 401, upon which
  `client.py:152` clears `license.json`, the queue included. `client.py:192`
  says queued runs are "flushed on next call". `QueuedRunsKept` is stated with
  this exception.
* The quota and the device limit are checked before the insert
  (`service.py:206`, `service.py:142`), so both can be overrun by concurrent
  requests; how far is what `OverrunBounded` and `DevicesBounded` say.
  `services/license/README.md:20` has no such margin.
* The gate believes a cached quota of up to a day (`client.py:140`), and an
  older one within the offline grace (`client.py:146`), while the server has no
  run left: `license_cached`.
* A repeated report of a run that was counted can be refused, because the quota
  is looked at before the id (`service.py:199`).
* Two client processes of a device overwrite each other's `license.json`
  (`store.py:62`).

## 6 Instrumentation and the evidence graph

### Model

An instrumentation run executes test files of a checkout under coverage and
writes EVIDENCE edges (test -> symbol) to Neo4j, with the commit they were
built at. If all stamps agree, that commit is the *anchor*: the next run diffs
against it, executes only the tests that the change can affect according to the
edges, carries the others forward and stamps everything with the new commit. An
error here is never corrected by itself: what a narrowed run does not execute
is believed by all later ones.

A test file stands for its tests, a source file for its symbols. `edges`,
`stamp`, `symbols`, `mapped` are the graph, `checkout` the cached working tree
(`head` what `git rev-parse` says, `files` what is in it, `data` the coverage
databases that lie in it), `tip` the remote
branch, `run` the progress and locals of each run, `cancel` the cancel flag,
`record` the latest row of `instrumentation_runs`. A step of a run goes from
one yield of the event stream to the next one that matters. What files contain
and what tests cover are the constants `Content` and `Covers`, per state of the
checkout.

| Code | Model |
|---|---|
| `run_instrumentation`, and the test map | `Start`, `Store`, `StoreFails`, `StoreCancelled` |
| `clone_testbed` with cache, refresh, failure | `CloneTip`, `KeepCheckout`, `CloneFails` (the protocol itself: section 8) |
| `_repo_head_sha` (which may fail) | `ReadHead` |
| discovery | `Discover`, `Present` |
| `plan_incremental_run`, `build_incremental_plan` | `PlanFull`, `PlanNarrow`, `Affected`, `MayNarrow`, `LargeDiff` |
| execution in shards | `Measure`, `Partitions`, `LostShards`, `DataAfter` |
| the databases that are read, and their lines as symbols | `CoverageRead`, `Mappings`, `Resolved` |
| `replace_mappings`, `apply_incremental_mappings`, `store_mappings` | `Replace`, `Apply`, `Merge`, `Verified` |
| `get_coverage_summary` | `Anchor`, `AgreedOn`, `TestsCovering` |
| `cancel_instrumentation`, a client that goes away, a restart | `RequestCancel`, `Disconnect`, `Restart` |
| the Siamese mapper | `MapUnmapped` |

A run spreads its test files over `Shards` pytest processes, each of which
leaves a database `.coverage.shard<n>` in the checkout. A process deletes the
database of its own number before it starts, so a run with fewer shards than an
earlier one leaves those of the higher numbers where they are, and `git reset
--hard` does, too (`checkout.data`). A shard that times out or crashes has no
database. If at least one shard left one, these are read; if none did, the code
reads whatever databases are in the checkout (`_find_all_coverage_dbs`), and
only if there are none either the run fails. A restart may find the shards of a
run half done.

`unmeasured` is a history variable: the tests whose last execution left no
database.

Assumed of the environment: rows of `instrumentation_runs` can be saved; the
test map and the instrumentation of a project use the same repository. Left
out: the TypeScript and Playwright pipelines (they write with `Replace`),
`purge_project`, auto-mapping.

### Runs

| Run | Instance | Shows |
|---|---|---|
| `evidence_sound` | 1 run at a time, by both endpoints, 2 shards, 3 commits over 2 sources in any order, a test whose shard may be lost | `Sound`: no test of the anchor commit lacks an edge to what it covers there, except the tests whose last execution left no database; databases of earlier runs that are read in its place do no harm to any other test. `CancelHonoured`: a run that was cancelled writes nothing. Types |
| `evidence_exact` | the endpoint alone, 1 shard, 4 commits, one without one of the tests; the mapper writes too; analyses read (section 7) | `FullSpec`: `EvidenceGraph` implements `FullEvidence`. `AnswersComplete` |
| `evidence_overlap` | 2 runs, 1 shard, 2 commits, a checkout with local edits, symmetry in the runs | `SingleAnchor`: edges and stamps never name two commits |

*Bounds.* Each commit is there for a reason: one makes a covered source use
another source (a test's coverage grows through a file it covers already), one
removes a test while a source changes, one rewrites a test. The branch may
point to any of them at any time and so goes back, too. Two tests and three
sources let a narrowed run execute one test and carry another. With two shards
a full run leaves a database that a narrowed run of one test does not delete;
more shards would only leave more of the same. To pay for them,
`evidence_sound` has no removal (its third commit rewrites a test) and two
sources. Where no shard is lost nothing of an earlier run is ever read, so
`evidence_exact` loses nothing with one shard; the proof of `FullSpec` is for
any number. Since the
coverage of instances is computed from what files use, TLC checks the
assumption `Determined` of the proofs for them. Safety only. (`FourCommits`,
`ThreeCommits` and `EditedCommits` have the second names `History`, `Kept` and
`Modified`, by which the configurations name them: TLC then computes each of
them once.)

*Where properties hold by restriction.* `Sound` and `FullSpec` are for one run
at a time in a checkout that is at a commit, and where nothing but recorded
files influences coverage; the code is known to go wrong otherwise (below).
`Sound` says nothing of a test whose last execution left no database: its edges
may be missing, or of another commit than their stamp. It is these tests only:
one that was executed with success, or was carried and is not one of them,
keeps what it covers whatever databases were read, in that run and in all that
build on it.

### Proved (`EvidenceGraphProofs`, from `EvidenceAssumption`)

* `TypesHold`: `Spec => []TypeOK`, any number of overlapping runs.
* `SingleAnchorHolds`: `Spec => []SingleAnchor` if only the instrumentation
  endpoint writes (`Kinds = {"run"}`), for any number of overlapping runs and
  any edits.
* `SoundHolds`: `Spec => []Sound` with one run at a time (`OneRun`), no local
  edits, and `Determined`: a test covers the same at two commits if it and the
  files it covers at the first have the same content at both. For any number
  of shards, any way to spread tests over them and any loss of them, including
  runs that read the databases of earlier ones.
* `RunsImplementFull`: `Spec => FullSpec` if moreover no shard is lost, only
  the endpoint writes, and test files that are absent cover nothing.

All for any suite, any history and any order of commits. The assumptions are
those without which the code is wrong: they mark the limits of narrowing.

The argument. `Sound` is not inductive, since it says nothing of what a run has
in hand. `RunRight` says of every run, per stage, what it knows: the commit it
read is that of the checkout; the suite is what is in it; what it will write
has all that the tests it measured cover (`MeasureParts` reduces a step of the
shards to this); and (`KeptRight`) the tests it carries have edges to all
they cover *at the new commit*. The last is established by the plan from
`Sound`: a test that is neither changed nor covers a changed file covers at the
new commit what it covered at the anchor (`UnaffectedSame`, where `Determined`
is used). `Apply` turns it back into `Sound`. In between it stays true because
only `Store` changes the graph. For the refinement, inclusions become equations
(`ExactInv`).

`CancelIsHonoured`: `Spec => CancelHonoured` with one run at a time. The flag of
a run for which a cancel was requested stays up until the run looks at it
(`CancelInv`). With several runs of a project it does not: the flag is the
project's, the start of a run clears it, and TLC finds the property violated.

Nothing is only model-checked.

### Known deviations

* A run none of whose shards left a database reads those that earlier runs
  left in the checkout (`per_test_analyzer.py:820` passes `coverage_files or
  None`, `:509-518`). A narrowed run whose only shard times out therefore
  completes: it stores what another commit covered under the stamp of the new
  one, and does not name the test as missing if it is in one of these
  databases, although `per_test_analyzer.py:736` says "`missing_test_files`
  names the exact shortfall so a run never silently under-covers".
* A test whose shard left no data is in no later narrowed plan unless it
  changes, yet later runs count it as instrumented because it is carried
  (`pipeline_worker.py:526`). `per_test_analyzer.py:736` says "so a run never
  silently under-covers". `Sound` excepts such tests (`unmeasured`).
* A change of a file that coverage does not record (a helper below `tests/`,
  `conftest.py`, data) selects no test (`incremental.py:159`), and everything
  is stamped with the new commit. `pipeline_worker.py:463` says that the run
  falls back to full "whenever narrowing could be wrong".
* Two runs of a project share its checkout: the lock of a slot covers the
  refresh, not the use (`testbed_manager.py:249`), so evidence may bear a
  commit it was not measured at. `SingleAnchor` still holds, `Sound` does not.
  Local edits have the same effect: evidence is stamped with HEAD.
* A second run resets the cancel flag before the first has seen it
  (`main.py:1599`).
* The test map merges into what is there (`neo4j_store.py:500`) and leaves
  stamps of several commits; there is no anchor until the next full run.
* Verification counts edges of every source between the pairs that were written
  (`neo4j_store.py:194`): after a mapper has proposed the same pair, a run that
  measures it is rolled back.
* A run that leaves no edges is recorded as ERROR although its write stands
  (`main.py:1674`).

## 7 Pull-request analysis

### Model

`Selection` extends `EvidenceGraph`. An analysis changes no state, and after
the list of files is there its handler reads the graph without an await
between. What it answers is therefore an operator of the state, the request,
and what is not determined: which of several equally ranked symbols the cap
keeps, and whether there is a local checkout.

| Code | Model |
|---|---|
| `filter_source_files`, the list from the agent, the core or nobody | `FileLists`, `Touched`, `Ignored` |
| symbols of the changed files, the ranking, `max_symbols` | `Candidates`, `HasTests`, `Selected`, `TestsDropped` |
| tests by coverage, by mapper, by imports; `fusion.py` | `RuntimeTests`, `StaticTests`, `FusedTests` |
| `freshness.py` | `EvidenceShas`, `Stale` |
| `to_result` and the check against the checkout | `Cut`, `ValidTests`, `FallbackUsed` |

Counts, confidence, wording, and the tests that are listed along with a
fallback are left out.

### Run

`AnswersComplete` is an invariant of `evidence_exact`: in whatever state the
runs leave the graph, an analysis of any commit against any base, with any of
the three lists of files, a cap of 0 (none), 1 or 2 symbols and with or without
a checkout, either asks for the whole suite or selects every test that covers a
changed source. Three sources make a cap of 1 and of 2 drop some; in four
commits the evidence is behind or beside the commit that is analysed. One
source is known from the ingestor only, imports reach two steps.

### Proved (`SelectionProofs`)

`AnswersAreComplete`: `Spec => []AnswersComplete` for any suite, history, limit
and tie of the ranking, from the assumptions of `SoundHolds` and `Ignored \cap
Source = {}`. The argument: the graph names no source without a symbol
(`SymbolsInductive`), so a test that covers a changed source is a test of a
candidate; evidence that is not stale is of the commit that is analysed
(`FreshIsAnchor`), so that `Sound` holds there; and a candidate that the cap
takes although it has tests is reported (`CoveringTestsReported`).

### Known deviations

* What a fallback lists are the tests *related by name* to the changed files if
  there are such (`chosen = related or files` in `tools/fs.py`), at most 200.
  The comment at `analyze.py:275` speaks of the complete local suite.
* Evidence without a commit gives a note, no fallback; `commit_sha` defaults to
  `main`, for which freshness is not compared. `AnswersComplete` is stated for
  evidence that has a commit.
* `filter_source_files` drops paths with segments such as `build`, `out`,
  `site` or `vendor`, and json or yaml: a covered source among them is missed
  when other sources changed as well. This is the assumption on `Ignored`.
* Tests that the pull request itself changes are not selected unless they cover
  a changed source; tests that are only approved are not reported; tests
  without measurement are missed.
* When the cap drops symbols that only have static tests, no fallback follows.

Assumed: the local checkout is at the analysed commit; `priority_risk_index` is
below the 5000 points that a test gives.

## 8 The testbed cache

### Model

One slot, that is one repository, branch and install command. `slot` is the
directory (its HEAD, whether `.git` is there, whether it is whole, edited, and
whether the install command succeeded in it), `meta` the sidecar, `lock` the
holder of the `flock`, `run` the call of each process with its locals,
`staging` the staging directories. Each file operation that others can see is a
step; the removal of a directory is visible while it lasts.

| Code | Model |
|---|---|
| `clone_testbed` up to the lock | `Call`, `Look`, `LockForHit`, `LockForClone` |
| `_cache_usable`, the TTL | `Usable`, `Expired` |
| `_refresh_checkout` | `RefreshCheckout`, `Refresh`, `Dirty` |
| clone and install in staging | `Clone`, `Install` |
| `_publish` | `Publish`, `Remove`, `Rename` |
| the sidecar, truncated and written | `Truncate`, `Write`, `WriteFails`, `Installed` |
| what uses the checkout | `Returns`, `Finish` |
| kill, push, edit, time | `Kill`, `Push`, `Edit`, `Tick` |

### Run

`testbed_cache`: two runs make three calls, fresh ones included; the branch
advances once, the cache expires, files are edited, and one process is killed
or one sidecar is not written. `CachedIsPrepared`: what the next run would be
served is whole and installed, and its sidecar names its commit.
`StagingRemoved`: only a kill leaves a staging directory. `ServedCurrent`: a
call that cloned or refreshed returns no commit older than the branch was when
it began, however long it waited. `CallsEnd`: every call ends. Types, with who
holds the lock.

*Bounds.* Two runs contend for the lock; the third call meets what the first
two left. Two commits and two moments make "older" and "expired" possible.
Deadlock is not checked: the calls end.

*Fairness.* `Step(r)` is weakly fair: processes run, the install command has a
timeout of 300 seconds, and git's clone and fetch return, which is assumed:
nothing limits their time. A free `flock` is granted to each waiter at last
because calls are finitely many. Kills, edits, pushes and time are not fair.

*Where properties hold by restriction.* `CachedIsPrepared` and `StagingRemoved`
speak of histories without a kill and without a failed write; see below.

### Proved (`TestbedCacheProofs`, from `CacheAssumption`)

`CacheTypesHold`, `PreparedIsCached`, `StagingIsRemoved`, each `Spec => []P`,
and `ServedIsCurrent` (`Spec => ServedCurrent`), for any number of runs, calls,
commits, moments, kills and failed writes. The three properties look at the
slot when nobody changes it, or at the end of a call; `CacheInvHolds` is about
the middle. `SlotKept` says that the slot is right (`SlotRight`) as long as no
run is `Changing` it, that what a run is about to replace has no `.git` left,
and that what it put there, or advanced, is what it will write into the sidecar.
`Staged` says which stages have a staging directory, `Current` that what was
cloned, or what the slot was advanced to, is no older than the call. Since the
lock belongs to one run, the others cannot disturb this. Only `CallsEnd` is
merely model-checked.

### Known deviations

* A process killed between the rename and the sidecar leaves the sidecar of the
  previous checkout, and with it its marker of a successful install.
* A checkout whose removal was cut short and that still has its `.git` counts
  as edited and is served as it is.
* Each refresh renews `cloned_at`, so the TTL never passes for a slot in use; a
  refresh does not install dependencies again.
* What an editable install or a virtual environment recorded are paths of the
  staging directory, which the rename removes.
* `git reset --hard` of a refresh moves a checkout under a run that is using
  it; a fresh publication removes one file by file, although the comment at
  `testbed_manager.py:203` says that a concurrent run "never sees a half-cloned
  directory".
* Staging directories of killed processes are never removed.

## 9 Analysis runs of the core

### Model

`rows` is the table of runs of one commit of one project, `lock` for each row
the database session that has updated it and not committed, `results` the
committed results, `pulls` the pull requests of the automation repository,
`stream` each request for a run's stream: its generator, the change that its
session has not flushed (`dirty`), the symbols that are left, containers, and
the events that decide what is saved.

The core is one event loop, and its sessions autoflush: an assignment to
`run.status` is sent as UPDATE with the next SELECT, and the row is then locked
until the session commits or is reclaimed.

| Code | Model |
|---|---|
| `start_run`, `stream_run` | `StartRun`, `StreamRun` |
| `stream_full_cycle` | `StreamRun` (its head), `Propose`, `ProposeFails`, `Finish`, `Fail` |
| `_process_symbol_stream` | `Reuse`, `ReadCapsule`, `Skip`, `Queue`, `Execute`, `CommitResult`, `SymbolFails` |
| the session: autoflush, commit, end | `CanFlush`, `Flush`, `Committed`, `RolledBack`, `Release` |
| the container behind `SandboxManager.get_run_status` | `Box`, `BoxStatus` |
| `persist_final_events` under `asyncio.shield` | `PersistRead`, `PersistWrite`, `Outcome`, `SavesIn` |
| a client that leaves | `Leave`, `Cancelled` |

Left out: faults of the database itself, a crash of the service, and a client
that leaves while the generator is suspended in a send. Ranking, prompts and
answers are data.

### Runs

| Run | Instance | Shows |
|---|---|---|
| `analysis_runs` | 2 streams, of two runs or twice of one, 1 symbol, all three modes | `ResultsAreReal`: a COMPLETED sandbox result is of a test that exited with 0, and the result of a proposed test is of one that is in a pull request. `EndIsRecorded`: a row shows how its stream ended, unless another stream worked on it. `EventsSaved`: once clients close their connections, the events of every stream are saved. Types |
| `analysis_hang` | 1 structural run, 1 stream, 2 symbols | violation of `StreamsEnd`, see below |

*Bounds.* Two streams are what it takes to wait for each other's row or to
overwrite each other; the symbols of a stream are worked on one after the
other, and one of them decides what is committed. The hang needs one symbol
without tests.

*Fairness.* `Step` and `Box` are weakly fair (`ServerFairness`): the event loop
runs, PostgreSQL grants a free row, tests in containers end. `FairSpec` adds
that no client keeps its connection for ever; `EventsSaved` needs that,
`StreamsEnd` is the claim that it is not needed.

### Proved (`AnalysisRunsProofs`, from `RunsAssumption`)

For any number of rows, streams and symbols, in any mode: `RunsInvHolds`, and
from it `RunTypesHold`, `ResultsAreTrue` and `EndIsShown`. `RunsInv` adds to
the types four facts that the properties need:

* `Opened`: a stream that has started works on rows that exist, and one that has
  not is untouched (so it holds no lock and no result is by it);
* `LocksFit`: a locked row is the target of a session with an uncommitted change;
* `ResultsTrue`: a sandbox result is of a symbol its stream is past, and what a
  stream knows of a symbol it is past never changes. Without "is past" the
  truth of a result would not survive the next container;
* `Recorded`: a stream that is alone with its row and is about to save has seen
  the status the row still has, so leaving the status out of the update is no loss.

Every action but `StartRun` and `StreamRun` advances one stream, and is
described by what it does to the rows and locks and which results it commits
(`Advances`, `RowsKept`, `LocksLeft`, `ResultsKept`, `OwnRecord`);
`AdvanceKeeps` is the proof for all of them, `PrivateKeeps` and `CommitKeeps`
for the two common kinds, and one lemma per action says of which kind it is.
`EventsSaved` is liveness and stays with TLC.

### The stream that does not end

Run `analysis_hang`. The orchestrator sets `run.status = RUNNING` and does not
commit (`run_orchestrator.py:53`); the SELECT of the style capsule
(`run_orchestrator.py:294`) flushes the UPDATE. A structural run commits
nothing afterwards, so the session of the request keeps the row. The generator
ends in its `finally` clause, where it waits for `persist_final_events`
(`main.py:2187`), whose own session waits for that row. The request's session
is reclaimed only when the response has ended: the stream stays open until its
client leaves. `ui/src/components/AnalysisTerminal.jsx:36` leaves the closing
to the server: "Let the server close the connection naturally to ensure
background persistence completes".

### Known deviations

* A stream works on the newest run of the commit, not on the run it was opened
  for; the events are saved in the latter.
* A stream that is opened again executes the run again and overwrites its
  events.
* The status of a container is read once, right after its log has ended, and
  may still be RUNNING; it is committed as such. Containers are never removed.
* A pull request that was made though its answer was lost has no results.
* A cycle ends with COMPLETED although every symbol failed.
* The web page takes the natural end of a stream for an error and shows the run
  as failed (`ui/src/App.jsx:46`).

## 10 Sandbox batches of the harness

### Model

`main` is what the calling thread does, `next` the job it submits or cancels,
`records`, `failures` and `report` its results, `job` where each job is,
`status` the status of its record, `held` the sandbox ids that executors know,
`alive` the known sandboxes that exist at the provider and were not killed
yet, `left` those that a failed call left there.

| Code | Model |
|---|---|
| `ParallelOrchestrator.run` | `Submit`, `Collect`, `AllCollected`, `CancelFuture`, `Close` |
| the thread pool | `Begin`, `Workers`, `Settled` |
| `_run_one` with `E2BExecutor.prepare`, `execute_plan`, `cleanup` | `Create`, `CreateFails`, `Bootstrap`, `Deliver`, `RunScript`, `Cleanup` |
| the provider's limit of 600 seconds | `Expire` |

A `create` may raise after the sandbox was made (`e2b_provider.py:79`), and a
`kill` that fails answers False (`:99-101`), which `_run_one` does not look at
(`parallel.py:226-229`). Either leaves a sandbox in `left`, with the call that
left it; only the provider ends it, maybe after the batch has returned.

### Run

`sandbox_batch`: three runs, two at a time, with and without `fail_fast`; every
call of the provider may fail, every sandbox may expire at any time.
`SandboxesAccounted`: never more sandboxes in use than workers, each of a job
at work; when the batch has returned, `kill` was called for each that an
executor knew of; kills and creates that fail leave at most two sandboxes of
one job behind. The property does not say that no sandbox outlives the batch:
one does when its `kill` fails. `ReportIsTrue`: all runs are counted as
completed exactly when all are; otherwise a failure is named, and without
`fail_fast` all of them. `BatchEnds`: the batch returns.

*Bounds.* With three runs, two at a time, a failure can find jobs that are
finished, running and queued. Deadlock is not checked: the batch returns.

*Fairness.* `Main` and each `Worker` are weakly fair: threads run, and each
call of the provider has a timeout. Sandboxes need not expire.

### Proved (`SandboxBatchProofs`, from `BatchAssumption`)

`BatchTypesHold`, `NoSandboxIsForgotten`, `TheReportIsTrue`, each `Spec => []P`
for the property of the run, for any number of runs and workers;
`BatchInvHolds` is the invariant behind them: only a job at work holds a
sandbox, a job whose second `create` failed has nothing to kill, at most
`Concurrency` jobs are at work, records are of jobs that have ended, and the
loop was left early only for a failure that is listed. Only `BatchEnds` is
merely model-checked.

### Known deviations

* A job is COMPLETED whatever the exit code of its script, even if the sandbox
  has expired under it.
* If the first bootstrap fails, the job goes on in the sandbox it has; a second
  one is tried only when there was no sandbox.
* That `kill` failed is ignored: the sandbox stays for up to 600 seconds after
  the batch, and so does one whose creation was not answered (both are in the
  model, as `left`). A bootstrap may outlast the 600 seconds.
* With `fail_fast` the report omits jobs that had ended, were running, or were
  cancelled when the loop was left.
* A step file of an earlier run with the same id may be read (`e2b.py:176`).

## 11 Hazards without a property

`PROJECT.json` lists every hazard at its line, with the properties that watch
it. No property of a run covers these:

* the devices beyond the limit (`service.py:142`): a theorem bounds them;
* the repeated report that is refused (`service.py:199`): the model follows the
  code, and no document says what should happen;
* the answer that carries a new token and is lost (`service.py:157`), and two
  client processes of one device (`store.py:62`): the code loses the queue in
  both cases, and `QueuedRunsKept` excepts them;
* a run whose checkout is moved (`pipeline_worker.py:574`) or replaced
  (`testbed_manager.py:209`) under it by another: nothing protects it, and
  `Sound` is stated for one run at a time;
* files that coverage does not record (`incremental.py:159`): the planner is
  known to be wrong for them, and `Sound` is stated without them;
* a kill between a checkout and its sidecar (`testbed_manager.py:141`):
  `CachedIsPrepared` does not hold with one;
* a browser that hangs in `close` (`playwright.py:199`): `SessionEnds` excepts
  it;
* `tick` of the harness's state machine (`harness/orchestration/fsm.py:132`),
  which asks for a transition that the table may not have: the state machine is
  not modelled.

## 12 Not modelled

* *Core API, tia-agent's conversation and output, testradius bridge, GitHub
  app, front ends, control plane*: handlers over one database session or none,
  which change nothing that the modelled parts read.
* *Ingestion and mappers, TypeScript and Playwright pipelines*: parsing,
  embeddings and scores. Their effect on the evidence is in `EvidenceGraph`
  (`MapUnmapped`, `Replace`) and `Selection` (`Ingested`, `Imports`).
* *Harness: state machine and retry, approval and bug filing, routines, other
  executors, planning, vision, evidence*: sequential code of one thread. A
  model would repeat a table, a file format, or calls of a remote service.
* *Cell: policy and secrets*: read once per run; `CellRun` has their failures.
* *sdet-agent, workbench*: loops around a language model whose choices are the
  model's; sessions live in memory and are not shared.
* *Shared packages, infrastructure, evaluations, scripts, data*: no state.

What could follow: the run state machine of the harness with its retries, the
device and quota checks as an abstract specification that `LicenseMeter`
implements up to the overruns, and a refinement of `TestbedCache` that explains
`EvidenceGraph`'s clones.

## 13 Running it

    cd tla
    tlasany CellRun.tla                                   # parse
    tlc -workers 2 -config cell_streams.cfg MCCellRun.tla # one run
    tlapm EvidenceGraphProofs.tla                         # proofs

The configuration of a run has its name; `PROJECT.json` says which module it
belongs to, which properties it checks, and whether it is expected to pass. No
run takes more than five minutes; the proofs take a few minutes per module.
