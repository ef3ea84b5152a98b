---------------------------- MODULE AgentSession ----------------------------
(***************************************************************************)
(* One agent session of the cell: what happens inside the GENERATE and     *)
(* EXECUTE phases that CellRun takes as one outcome each.  The planner     *)
(* asks a language model for a plan (retried, charged to a token budget,   *)
(* prompted once more when the plan is rejected); the executor carries the *)
(* plan out with browser tools, one step at a time; the browser is started *)
(* by the first tool call and closed when the session ends, however it     *)
(* ends.                                                                   *)
(*                                                                         *)
(* What the session never meets is left out: a tool that is not allowed or *)
(* not registered (the plan was parsed against the same two lists), an     *)
(* unhealthy client (the Playwright client is healthy until it is closed)  *)
(* and a citation that cannot be resolved when the plan is carried out     *)
(* (the context is indexed once, and parsing resolved it).                 *)
(***************************************************************************)
EXTENDS Naturals, SequencesExt

CONSTANTS
  Call,             \* what a step may call: a tool with its arguments
  NoCall,           \* the call of a planning step: it has no tool
  MaxSteps,         \* max_steps of the policy
  MaxRetries,       \* max_retries of the policy
  MaxRepetitions,   \* max_repetitions of the policy
  MaxTokens,        \* max_tokens of the policy, 0 for no limit
  Usages            \* what one completion may cost

ASSUME SessionAssumption ==
  /\ NoCall \notin Call
  /\ MaxSteps \in Nat \ {0} /\ MaxRetries \in Nat /\ MaxRepetitions \in Nat
  /\ MaxTokens \in Nat /\ Usages \subseteq Nat

VARIABLES
  block,     \* a11y.block_on_violation of the policy
  pc,        \* where the session's task is; see Awaits
  ask,       \* attempt of Planner.plan: 1, then 2
  attempt,   \* attempt of RetryingProvider.complete: 0..MaxRetries
  calls,     \* ProviderBudget.calls
  used,      \* ProviderBudget.used_tokens
  plan,      \* the calls of the plan's steps, << >> before there is a plan
  at,        \* the step the executor is at
  seen,      \* how often each call came up
  called,    \* AgentResult.steps, those with a tool: which step, and how its call went
  verdict,   \* "none", or how the session ended
  handle,    \* which handles the client holds: driver, browser, page
  alive,     \* which processes exist: driver, browser
  lost       \* a process may have stayed behind, by a failure no handler sees

planning  == <<ask, attempt, calls, used, plan>>
executing == <<at, seen, called>>
browsing  == <<handle, alive, lost>>
vars == <<block, pc, planning, executing, verdict, browsing>>

Starting == {"driver", "browser", "page"}

\* The session gives way to the event loop only here, so only here is it cancelled.
Awaits == {"ask", "backoff", "tool"} \cup Starting

Init ==
  /\ block \in BOOLEAN /\ pc = "plan"
  /\ ask = 1 /\ attempt = 0 /\ calls = 0 /\ used = 0 /\ plan = << >>
  /\ at = 1 /\ seen = [c \in Call |-> 0] /\ called = << >>
  /\ verdict = "none"
  /\ handle = {} /\ alive = {} /\ lost = FALSE

-----------------------------------------------------------------------------
(* Planner.plan over RetryingProvider.complete *)

\* Every request to the provider is counted, a retry too.
Request == pc' = "ask" /\ calls' = calls + 1

\* The finally of _run_agent follows every end.
End(v) == verdict' = v /\ pc' = "close"

\* The session begins: without context nodes there is nothing to plan with.
Retrieve ==
  /\ pc = "plan"
  /\ \/ Request /\ UNCHANGED verdict
     \/ End("raised") /\ UNCHANGED calls
  /\ UNCHANGED <<block, ask, attempt, used, plan, executing, browsing>>

\* Mutant: the retries are counted from one.
ProviderFailsOneMore ==
  /\ pc = "ask"
  /\ \/ attempt <= MaxRetries /\ pc' = "backoff" /\ UNCHANGED verdict
     \/ End("raised")
  /\ UNCHANGED <<block, planning, executing, browsing>>

\* The provider refuses, or it times out or is overloaded and attempts are left.
ProviderFails ==
  /\ pc = "ask"
  /\ \/ attempt < MaxRetries /\ pc' = "backoff" /\ UNCHANGED verdict
     \/ End("raised")
  /\ UNCHANGED <<block, planning, executing, browsing>>

BackoffEnds ==
  /\ pc = "backoff"
  /\ attempt' = attempt + 1
  /\ Request
  /\ UNCHANGED <<block, ask, used, plan, executing, verdict, browsing>>

\* Mutant: the limit is compared with what was used before this completion.
OverBudgetLate(tokens) == MaxTokens > 0 /\ used > MaxTokens

OverBudget(tokens) == MaxTokens > 0 /\ tokens > MaxTokens

\* A reply is a sequence of steps; << >> is one that cannot be parsed, cites nothing or
\* unknown nodes, names a tool that is not offered, or has bad dependencies.
Replies == BoundedSeq(Call \cup {NoCall}, MaxSteps + 1)

Accepted(p) == Len(p) \in 1 .. MaxSteps

\* A completion arrives: it is charged, then parsed; the first plan that is rejected is
\* sent back once with the reason.
Reply(tokens, p) ==
  /\ pc = "ask"
  /\ used' = used + tokens
  /\ CASE OverBudget(used') -> End("raised") /\ UNCHANGED <<ask, attempt, calls, plan>>
       [] ~OverBudget(used') /\ Accepted(p) ->
            plan' = p /\ pc' = "execute" /\ UNCHANGED <<ask, attempt, calls, verdict>>
       [] ~OverBudget(used') /\ ~Accepted(p) /\ ask = 1 ->
            ask' = 2 /\ attempt' = 0 /\ Request /\ UNCHANGED <<plan, verdict>>
       [] OTHER -> End("raised") /\ UNCHANGED <<ask, attempt, calls, plan>>
  /\ UNCHANGED <<block, executing, browsing>>

-----------------------------------------------------------------------------
(* Executor.execute over ToolRegistry.call and PlaywrightMCPClient *)

PlanningStep ==
  /\ pc = "execute" /\ at <= Len(plan) /\ plan[at] = NoCall
  /\ at' = at + 1
  /\ UNCHANGED <<block, pc, planning, seen, called, verdict, browsing>>

\* The first call of the session starts the browser; later ones find the page.
CallTool ==
  /\ pc = "execute" /\ at <= Len(plan) /\ plan[at] # NoCall
  /\ seen' = [seen EXCEPT ![plan[at]] = @ + 1]
  /\ IF seen'[plan[at]] > MaxRepetitions
       THEN End("failed")
       ELSE pc' = (IF "page" \in handle THEN "tool" ELSE "driver") /\ UNCHANGED verdict
  /\ UNCHANGED <<block, planning, at, called, browsing>>

\* One of the three awaits of _page_or_start returns.
StartReturns ==
  /\ pc \in Starting
  /\ handle' = handle \cup {pc}
  /\ alive' = alive \cup (IF pc = "page" THEN {} ELSE {pc})
  /\ pc' = [driver |-> "browser", browser |-> "page", page |-> "tool"][pc]
  /\ UNCHANGED <<block, planning, executing, verdict, lost>>

\* An await that raises or is interrupted leaves no handle; what it was starting may be there
\* all the same.  Nobody can stop a driver whose handle was never returned.
Abandon ==
  /\ UNCHANGED handle
  /\ alive' \in {alive} \cup {alive \cup {p} : p \in {pc} \cap {"driver", "browser"}}
  /\ lost' = ("driver" \in alive' \ handle)

\* Mutant: the limit is set in the tools, not around the call.
ToolFailsStarted ==
  /\ pc = "tool"
  /\ Abandon
  /\ End("failed")
  /\ UNCHANGED <<block, planning, executing>>

\* The tool raises, or its 15 seconds are over; the start of the browser is part of them.
ToolFails ==
  /\ pc \in Starting \cup {"tool"}
  /\ Abandon
  /\ End("failed")
  /\ UNCHANGED <<block, planning, executing>>

\* Mutant: only violations stop the plan; a tool that reports a failure is recorded as a step.
ToolAnswersAnyway(ok, clean) ==
  /\ pc = "tool"
  /\ called' = Append(called, [step |-> at, ok |-> ok, clean |-> clean])
  /\ IF ~clean /\ block
       THEN End("testability_defect") /\ UNCHANGED at
       ELSE at' = at + 1 /\ pc' = "execute" /\ UNCHANGED verdict
  /\ UNCHANGED <<block, planning, seen, browsing>>

\* The tool answers: violations block first, a reported failure ends the session too.
ToolAnswers(ok, clean) ==
  /\ pc = "tool"
  /\ called' = Append(called, [step |-> at, ok |-> ok, clean |-> clean])
  /\ CASE ~clean /\ block -> End("testability_defect") /\ UNCHANGED at
       [] ~ok -> End("failed") /\ UNCHANGED at
       [] OTHER -> at' = at + 1 /\ pc' = "execute" /\ UNCHANGED verdict
  /\ UNCHANGED <<block, planning, seen, browsing>>

AllStepsDone ==
  /\ pc = "execute" /\ at > Len(plan)
  /\ End("passed")
  /\ UNCHANGED <<block, planning, executing, browsing>>

\* The run is cancelled, or the event loop is torn down.
Interrupt ==
  /\ pc \in Awaits
  /\ Abandon
  /\ End("cancelled")
  /\ UNCHANGED <<block, planning, executing>>

-----------------------------------------------------------------------------
(* PlaywrightMCPClient.close *)

\* close() waits for whatever it has a handle of, and no time limit covers it.
ClosingWaits ==
  \/ pc = "close" /\ "browser" \in handle
  \/ pc = "stop" /\ "driver" \in handle

\* The browser is closed if its handle was ever returned ...
CloseBrowser ==
  /\ pc = "close"
  /\ handle' = handle \ {"browser"}
  /\ alive' = IF "browser" \in handle THEN alive \ {"browser"} ELSE alive
  /\ pc' = "stop"
  /\ UNCHANGED <<block, planning, executing, verdict, lost>>

\* Mutant: the driver is stopped together with a page, not by itself.
StopDriverOfPage ==
  /\ pc = "stop"
  /\ handle' = {}
  /\ alive' = IF "page" \in handle THEN {} ELSE alive
  /\ pc' = "ended"
  /\ UNCHANGED <<block, planning, executing, verdict, lost>>

\* ... and the driver, which takes a browser it launched with it, if its handle was.
StopDriver ==
  /\ pc = "stop"
  /\ handle' = {}
  /\ alive' = IF "driver" \in handle THEN {} ELSE alive
  /\ pc' = "ended"
  /\ UNCHANGED <<block, planning, executing, verdict, lost>>

\* One of the two awaits raises, or the event loop is torn down meanwhile.
CloseFails ==
  /\ ClosingWaits
  /\ pc' = "ended" /\ lost' = TRUE
  /\ UNCHANGED <<block, planning, executing, verdict, handle, alive>>

-----------------------------------------------------------------------------
ProviderReplies == \E tokens \in Usages, p \in Replies : Reply(tokens, p)

\* What the session's own code, its timeouts and the provider's do.
Progress ==
  \/ Retrieve \/ ProviderFails \/ ProviderReplies \/ BackoffEnds
  \/ PlanningStep \/ CallTool \/ ToolFails \/ AllStepsDone

Close == CloseBrowser \/ StopDriver

\* What the browser does, or does not do.
Browser == StartReturns \/ \E ok, clean \in BOOLEAN : ToolAnswers(ok, clean)

Next == Progress \/ Close \/ Browser \/ CloseFails \/ Interrupt

Spec == Init /\ [][Next]_vars

\* A request has a timeout of 30 seconds, a tool call one of 15; a browser may never answer,
\* neither a tool call nor its close.
FairSpec == Spec /\ WF_vars(Progress \/ (Close /\ ~ClosingWaits))

-----------------------------------------------------------------------------
TimesCalled(c) == Cardinality({k \in DOMAIN called : plan[called[k].step] = c})

\* The types of the variables; the counters stay within the attempts the policy allows.
TypeOK ==
  /\ block \in BOOLEAN /\ lost \in BOOLEAN
  /\ pc \in {"plan", "execute", "close", "stop", "ended"} \cup Awaits
  /\ ask \in 1 .. 2 /\ attempt \in 0 .. MaxRetries /\ calls \in Nat /\ used \in Nat
  /\ plan \in Seq(Call \cup {NoCall}) /\ Len(plan) <= MaxSteps
  /\ at \in 1 .. MaxSteps + 1 /\ seen \in [Call -> Nat]
  /\ called \in Seq([step : 1 .. MaxSteps, ok : BOOLEAN, clean : BOOLEAN])
  /\ verdict \in {"none", "raised", "failed", "testability_defect", "passed", "cancelled"}
  /\ handle \subseteq Starting /\ alive \subseteq {"driver", "browser"}

\* The provider is not asked more often than two plans with their retries take, what is used
\* exceeds the limit by one completion at most, and a plan that is carried out was paid for.
BudgetHolds ==
  /\ calls <= 2 * (MaxRetries + 1)
  /\ MaxTokens > 0 =>
       /\ \E tokens \in Usages \cup {0} : used <= MaxTokens + tokens
       /\ plan # << >> => used <= MaxTokens

\* A session that passed called the tool of every step that has one, in the plan's order, and
\* none more often than allowed; each answered well, and without violations where they block.
PassedIsEarned ==
  verdict = "passed" =>
    /\ plan # << >>
    /\ {called[k].step : k \in DOMAIN called} = {i \in DOMAIN plan : plan[i] # NoCall}
    /\ \A j, k \in DOMAIN called : j < k => called[j].step < called[k].step
    /\ \A k \in DOMAIN called : called[k].ok /\ (block => called[k].clean)
    /\ \A c \in Call : TimesCalled(c) <= MaxRepetitions

\* A session that has ended, at whatever point it was interrupted, has left no browser and no
\* driver behind, save for a driver whose start was interrupted and a close that failed.
BrowserGone == pc = "ended" /\ ~lost => alive = {}

\* Every session comes to its verdict, although a browser may hang at any point of its start
\* or of a tool call: the time limit of the call covers both.  It then ends, unless it waits
\* for ever for a browser or a driver to close: that wait has no time limit.
SessionEnds == <>(verdict # "none") /\ (<>(pc = "ended") \/ <>[]ClosingWaits)

=============================================================================
