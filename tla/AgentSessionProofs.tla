------------------------ MODULE AgentSessionProofs -------------------------
(***************************************************************************)
(* Proofs about AgentSession, for any set of calls and any policy: what a  *)
(* session may spend, what it takes to pass, and that its browser is gone  *)
(* when it has ended.                                                      *)
(*                                                                         *)
(* The three properties speak of how a session ends; each needs what holds *)
(* on the way there.  Asking counts the requests of the plan that is being *)
(* asked for on top of those of the first one.  Carrying says that what    *)
(* was called is what the plan has up to the step the executor is at, and  *)
(* that a call in progress is already in the count of its repetitions.     *)
(* Browsing says that the handles are set in the order in which close      *)
(* needs them: whatever runs can be stopped by the handle of the driver.   *)
(***************************************************************************)
EXTENDS AgentSession, FiniteSetTheorems, SequenceTheorems, TLAPS

Planning == {"plan", "ask", "backoff"}
Calling == {"tool"} \cup Starting
Ending == {"close", "stop", "ended"}

Asking ==
  /\ attempt <= MaxRetries
  /\ calls <= (IF ask = 1 THEN 0 ELSE MaxRetries + 1) + attempt + 1
  /\ pc = "plan" => calls = 0 /\ ask = 1
  /\ pc = "backoff" => attempt < MaxRetries
  /\ verdict = "none" <=> pc \notin Ending

Spending ==
  MaxTokens > 0 =>
    /\ pc \in Planning \/ plan # <<>> => used <= MaxTokens
    /\ \E tokens \in Usages \cup {0} : used <= MaxTokens + tokens

Unstarted ==
  pc \in Planning => /\ plan = <<>> /\ called = <<>> /\ at = 1
                     /\ \A c \in Call : seen[c] = 0

(* What was called when the executor is at step n: a call for each step    *)
(* before it that has a tool, in order, all of them good.                  *)
CalledUpTo(n) ==
  /\ {called[k].step : k \in DOMAIN called} = {i \in DOMAIN plan : i < n /\ plan[i] # NoCall}
  /\ \A j, k \in DOMAIN called : j < k => called[j].step < called[k].step
  /\ \A k \in DOMAIN called : called[k].ok /\ (block => called[k].clean)

InProgress(c) == IF pc \in Calling /\ plan[at] = c THEN 1 ELSE 0

Carrying ==
  /\ verdict = "none" => CalledUpTo(at)
  /\ verdict = "none" =>
       \A c \in Call : TimesCalled(c) + InProgress(c) <= seen[c] /\ seen[c] <= MaxRepetitions
  /\ pc \in Calling \cup {"execute"} => plan # <<>>
  /\ pc \in Calling => at <= Len(plan) /\ plan[at] # NoCall

Browsing ==
  /\ lost => pc \in Ending
  /\ pc \in {"browser", "page"} => "driver" \in handle
  /\ ~lost /\ pc # "ended" /\ alive # {} => "driver" \in handle

SessionInv ==
  /\ TypeOK /\ Asking /\ Spending /\ Unstarted /\ Carrying /\ PassedIsEarned
  /\ Browsing /\ BrowserGone

-----------------------------------------------------------------------------
(* The types.                                                              *)

LEMMA SessionConstants ==
  /\ MaxSteps \in Nat \ {0} /\ MaxRetries \in Nat /\ MaxRepetitions \in Nat
  /\ MaxTokens \in Nat /\ Usages \subseteq Nat /\ NoCall \notin Call
BY SessionAssumption

LEMMA RepliesAreSequences ==
  ASSUME NEW p \in Replies
  PROVE  p \in Seq(Call \cup {NoCall})
BY DEF Replies, BoundedSeq, SeqOf

LEMMA TypesInitially == Init => TypeOK
<1> SUFFICES ASSUME Init PROVE TypeOK
  OBVIOUS
<1>1. plan \in Seq(Call \cup {NoCall}) /\ Len(plan) <= MaxSteps
  BY EmptySeq, SessionConstants DEF Init
<1>2. called \in Seq([step : 1 .. MaxSteps, ok : BOOLEAN, clean : BOOLEAN])
  BY EmptySeq DEF Init
<1>3. /\ ask \in 1 .. 2 /\ attempt \in 0 .. MaxRetries /\ calls \in Nat /\ used \in Nat
      /\ at \in 1 .. MaxSteps + 1 /\ seen \in [Call -> Nat]
  BY SessionConstants DEF Init
<1>4. /\ block \in BOOLEAN /\ lost \in BOOLEAN /\ pc = "plan" /\ verdict = "none"
      /\ handle \subseteq Starting /\ alive \subseteq {"driver", "browser"}
  BY DEF Init
<1> QED BY <1>1, <1>2, <1>3, <1>4 DEF TypeOK

LEMMA PlanningTypes ==
  ASSUME TypeOK, Asking, Retrieve \/ ProviderFails \/ BackoffEnds \/ ProviderReplies
  PROVE  TypeOK'
<1>1. CASE Retrieve
  BY <1>1 DEF Retrieve, Request, End, TypeOK, Awaits, executing, browsing
<1>2. CASE ProviderFails
  BY <1>2 DEF ProviderFails, End, TypeOK, Awaits, planning, executing, browsing
<1>3. CASE BackoffEnds
  BY <1>3, SessionConstants DEF BackoffEnds, Request, TypeOK, Awaits, executing, browsing, Asking
<1>4. ASSUME NEW tokens \in Usages, NEW p \in Replies, Reply(tokens, p)
      PROVE  TypeOK'
  <2>1. p \in Seq(Call \cup {NoCall})
    BY RepliesAreSequences
  <2>2. used' = used + tokens /\ UNCHANGED <<block, executing, browsing>>
    BY <1>4 DEF Reply
  <2>3. used' \in Nat
    BY <2>2, SessionConstants DEF TypeOK
  <2>4. \/ End("raised") /\ UNCHANGED <<ask, attempt, calls, plan>>
        \/ Accepted(p) /\ plan' = p /\ pc' = "execute" /\ UNCHANGED <<ask, attempt, calls, verdict>>
        \/ ask' = 2 /\ attempt' = 0 /\ Request /\ UNCHANGED <<plan, verdict>>
    BY <1>4 DEF Reply
  <2> QED BY <2>1, <2>2, <2>3, <2>4, SessionConstants
          DEF TypeOK, End, Accepted, Request, Awaits, executing, browsing
<1> QED BY <1>1, <1>2, <1>3, <1>4 DEF ProviderReplies

LEMMA ExecutingTypes ==
  ASSUME TypeOK, Carrying, PlanningStep \/ CallTool \/ AllStepsDone \/ StartReturns
  PROVE  TypeOK'
<1>1. CASE PlanningStep
  BY <1>1, SessionConstants DEF PlanningStep, TypeOK, planning, browsing
<1>2. CASE CallTool
  <2>1. plan[at] \in Call
    BY <1>2 DEF CallTool, TypeOK
  <2>2. seen' = [seen EXCEPT ![plan[at]] = seen[plan[at]] + 1] /\ seen' \in [Call -> Nat]
    BY <1>2, <2>1 DEF CallTool, TypeOK
  <2>3. /\ UNCHANGED <<block, planning, at, called, browsing>>
        /\ \/ End("failed")
           \/ pc' \in {"tool", "driver"} /\ UNCHANGED verdict
    BY <1>2 DEF CallTool
  <2> QED BY <2>2, <2>3 DEF TypeOK, End, Awaits, Starting, planning, browsing
<1>3. CASE AllStepsDone
  BY <1>3 DEF AllStepsDone, End, TypeOK, planning, executing, browsing
<1>4. CASE StartReturns
  BY <1>4 DEF StartReturns, TypeOK, Awaits, Starting, planning, executing
<1> QED BY <1>1, <1>2, <1>3, <1>4

LEMMA AnswerTypes ==
  ASSUME TypeOK, Carrying, NEW ok \in BOOLEAN, NEW clean \in BOOLEAN, ToolAnswers(ok, clean)
  PROVE  TypeOK'
<1>1. at \in 1 .. MaxSteps /\ at + 1 \in 1 .. MaxSteps + 1
  BY SessionConstants DEF ToolAnswers, Carrying, Calling, TypeOK
<1>2. called' \in Seq([step : 1 .. MaxSteps, ok : BOOLEAN, clean : BOOLEAN])
  BY <1>1, AppendProperties DEF ToolAnswers, TypeOK
<1>3. /\ UNCHANGED <<block, planning, seen, browsing>>
      /\ \/ End("testability_defect") /\ UNCHANGED at
         \/ End("failed") /\ UNCHANGED at
         \/ at' = at + 1 /\ pc' = "execute" /\ UNCHANGED verdict
  BY DEF ToolAnswers
<1> QED BY <1>1, <1>2, <1>3 DEF TypeOK, End, planning, browsing

LEMMA EndingTypes ==
  ASSUME TypeOK, ToolFails \/ Interrupt \/ CloseBrowser \/ StopDriver \/ CloseFails
  PROVE  TypeOK'
<1>1. CASE ToolFails
  BY <1>1 DEF ToolFails, Abandon, End, TypeOK, planning, executing
<1>2. CASE Interrupt
  BY <1>2 DEF Interrupt, Abandon, End, TypeOK, planning, executing
<1>3. CASE CloseBrowser
  BY <1>3 DEF CloseBrowser, TypeOK, planning, executing
<1>4. CASE StopDriver
  BY <1>4 DEF StopDriver, TypeOK, planning, executing
<1>5. CASE CloseFails
  BY <1>5 DEF CloseFails, ClosingWaits, TypeOK, planning, executing
<1> QED BY <1>1, <1>2, <1>3, <1>4, <1>5

LEMMA TypesKept == ASSUME TypeOK, Asking, Carrying, [Next]_vars PROVE TypeOK'
<1>1. CASE UNCHANGED vars
  BY <1>1 DEF vars, planning, executing, browsing, TypeOK
<1> QED BY <1>1, PlanningTypes, ExecutingTypes, AnswerTypes, EndingTypes
        DEF Next, Progress, Close, Browser

-----------------------------------------------------------------------------
(* What the steps that the following lemmas are not about leave alone.     *)

(* The executor, the browser and the end touch nothing of the planner's.   *)
LEMMA PlannerLeftAlone ==
  ASSUME \/ PlanningStep \/ CallTool \/ ToolFails \/ AllStepsDone \/ CloseBrowser
         \/ StopDriver \/ CloseFails \/ Interrupt \/ Browser
  PROVE  UNCHANGED <<block, ask, attempt, calls, used, plan>>
BY DEF PlanningStep, CallTool, ToolFails, AllStepsDone, CloseBrowser, StopDriver,
       CloseFails, ClosingWaits, Interrupt, Browser, StartReturns, ToolAnswers, planning

(* Where a step of theirs leads.                                           *)
LEMMA EndsInOrder ==
  ASSUME TypeOK, Asking,
         \/ PlanningStep \/ CallTool \/ ToolFails \/ AllStepsDone \/ CloseBrowser
         \/ StopDriver \/ CloseFails \/ Interrupt \/ Browser
  PROVE  pc' \notin Planning /\ (verdict' = "none" <=> pc' \notin Ending)
<1>1. CASE PlanningStep
  BY <1>1 DEF PlanningStep, Asking, Planning, Ending
<1>2. CASE CallTool
  BY <1>2 DEF CallTool, End, Asking, Planning, Ending
<1>3. CASE ToolFails \/ AllStepsDone \/ Interrupt
  BY <1>3 DEF ToolFails, AllStepsDone, Interrupt, End, Planning, Ending
<1>4. CASE CloseBrowser \/ StopDriver \/ CloseFails
  BY <1>4 DEF CloseBrowser, StopDriver, CloseFails, ClosingWaits, Asking, Planning, Ending
<1>5. CASE StartReturns
  BY <1>5 DEF StartReturns, Starting, Asking, Planning, Ending
<1>6. ASSUME NEW ok \in BOOLEAN, NEW clean \in BOOLEAN, ToolAnswers(ok, clean)
      PROVE  pc' \notin Planning /\ (verdict' = "none" <=> pc' \notin Ending)
  BY <1>6 DEF ToolAnswers, End, Asking, Planning, Ending
<1> QED BY <1>1, <1>2, <1>3, <1>4, <1>5, <1>6 DEF Browser

-----------------------------------------------------------------------------
(* What a session may spend.                                               *)

LEMMA AskingKept == ASSUME TypeOK, Asking, [Next]_vars PROVE Asking'
<1>1. CASE Retrieve
  BY <1>1, SessionConstants DEF Retrieve, Request, End, Asking, Ending, TypeOK
<1>2. CASE ProviderFails
  BY <1>2, SessionConstants DEF ProviderFails, End, Asking, Ending, TypeOK, planning
<1>3. CASE BackoffEnds
  BY <1>3, SessionConstants DEF BackoffEnds, Request, Asking, Ending, TypeOK
<1>4. ASSUME NEW tokens \in Usages, NEW p \in Replies, Reply(tokens, p)
      PROVE  Asking'
  <2>1. /\ pc = "ask"
        /\ \/ End("raised") /\ UNCHANGED <<ask, attempt, calls, plan>>
           \/ pc' = "execute" /\ UNCHANGED <<ask, attempt, calls, verdict>>
           \/ ask = 1 /\ ask' = 2 /\ attempt' = 0 /\ Request /\ UNCHANGED <<plan, verdict>>
    BY <1>4 DEF Reply
  <2> QED BY <2>1, SessionConstants DEF End, Request, Asking, Ending, TypeOK
<1>5. CASE \/ PlanningStep \/ CallTool \/ ToolFails \/ AllStepsDone \/ CloseBrowser
           \/ StopDriver \/ CloseFails \/ Interrupt \/ Browser
  <2>1. UNCHANGED <<ask, attempt, calls>>
    BY <1>5, PlannerLeftAlone
  <2>2. pc' \notin Planning /\ (verdict' = "none" <=> pc' \notin Ending)
    BY <1>5, EndsInOrder
  <2> QED BY <2>1, <2>2 DEF Asking, Planning
<1>6. CASE UNCHANGED vars
  BY <1>6 DEF vars, planning, Asking
<1> QED BY <1>1, <1>2, <1>3, <1>4, <1>5, <1>6 DEF Next, Progress, Close, ProviderReplies

LEMMA SpendingKept == ASSUME TypeOK, Asking, Spending, Unstarted, [Next]_vars PROVE Spending'
<1>1. CASE Retrieve
  BY <1>1 DEF Retrieve, Request, End, Spending, Planning
<1>2. CASE ProviderFails
  BY <1>2 DEF ProviderFails, End, Spending, Planning, planning
<1>3. CASE BackoffEnds
  BY <1>3 DEF BackoffEnds, Request, Spending, Planning
<1>4. ASSUME NEW tokens \in Usages, NEW p \in Replies, Reply(tokens, p)
      PROVE  Spending'
  <2>1. pc = "ask" /\ used' = used + tokens /\ plan = <<>>
    BY <1>4 DEF Reply, Unstarted, Planning
  <2>2. \/ End("raised") /\ plan' = plan
        \/ ~OverBudget(used')
    BY <1>4 DEF Reply
  <2>3. MaxTokens > 0 => used' <= MaxTokens + tokens
    BY <2>1, SessionConstants DEF Spending, Planning, TypeOK
  <2>4. MaxTokens > 0 => (pc' \in Planning \/ plan' # <<>> => used' <= MaxTokens)
    <3>1. CASE End("raised") /\ plan' = plan
      BY <2>1, <3>1 DEF End, Planning
    <3>2. CASE ~OverBudget(used')
      BY <2>1, <3>2, SessionConstants DEF OverBudget, TypeOK
    <3> QED BY <2>2, <3>1, <3>2
  <2> QED BY <2>3, <2>4 DEF Spending
<1>5. CASE \/ PlanningStep \/ CallTool \/ ToolFails \/ AllStepsDone \/ CloseBrowser
           \/ StopDriver \/ CloseFails \/ Interrupt \/ Browser
  <2>1. UNCHANGED <<used, plan>> /\ pc' \notin Planning
    BY <1>5, PlannerLeftAlone, EndsInOrder
  <2> QED BY <2>1 DEF Spending
<1>6. CASE UNCHANGED vars
  BY <1>6 DEF vars, planning, Spending
<1> QED BY <1>1, <1>2, <1>3, <1>4, <1>5, <1>6 DEF Next, Progress, Close, ProviderReplies

LEMMA UnstartedKept == ASSUME TypeOK, Asking, Unstarted, [Next]_vars PROVE Unstarted'
<1>1. CASE Retrieve \/ ProviderFails \/ BackoffEnds
  BY <1>1 DEF Retrieve, ProviderFails, BackoffEnds, Request, End, Unstarted, Planning,
              planning, executing
<1>2. ASSUME NEW tokens \in Usages, NEW p \in Replies, Reply(tokens, p)
      PROVE  Unstarted'
  <2>1. /\ pc = "ask" /\ UNCHANGED executing
        /\ pc' \notin Planning \/ plan' = plan
    BY <1>2 DEF Reply, End, Planning
  <2> QED BY <2>1 DEF Unstarted, Planning, executing
<1>3. CASE \/ PlanningStep \/ CallTool \/ ToolFails \/ AllStepsDone \/ CloseBrowser
           \/ StopDriver \/ CloseFails \/ Interrupt \/ Browser
  BY <1>3, EndsInOrder DEF Unstarted
<1>4. CASE UNCHANGED vars
  BY <1>4 DEF vars, planning, executing, Unstarted
<1> QED BY <1>1, <1>2, <1>3, <1>4 DEF Next, Progress, Close, ProviderReplies

-----------------------------------------------------------------------------
(* What it takes to pass.                                                  *)

LEMMA CountIsNatural ==
  ASSUME TypeOK, NEW c
  PROVE  /\ IsFiniteSet({k \in DOMAIN called : plan[called[k].step] = c})
         /\ TimesCalled(c) \in Nat
<1>1. DOMAIN called = 1 .. Len(called) /\ Len(called) \in Nat
  BY LenProperties DEF TypeOK
<1>2. IsFiniteSet(DOMAIN called)
  BY <1>1, FS_Interval
<1>3. IsFiniteSet({k \in DOMAIN called : plan[called[k].step] = c})
  BY <1>2, FS_Subset
<1> QED BY <1>3, FS_CardinalityType DEF TimesCalled

(* Before a plan is carried out, nothing has been called.                  *)
LEMMA NothingCalled ==
  ASSUME called = <<>>
  PROVE  /\ plan \in Seq(Call \cup {NoCall}) => CalledUpTo(1)
         /\ \A c : TimesCalled(c) = 0
<1>1. DOMAIN called = {}
  BY EmptySeq
<1>2. plan \in Seq(Call \cup {NoCall}) => \A i \in DOMAIN plan : ~(i < 1)
  BY LenProperties
<1>3. ASSUME NEW c PROVE TimesCalled(c) = 0
  <2>1. {k \in DOMAIN called : plan[called[k].step] = c} = {}
    BY <1>1
  <2> QED BY <2>1, FS_EmptySet DEF TimesCalled
<1> QED BY <1>1, <1>2, <1>3 DEF CalledUpTo

(* A step without a tool is passed over.                                   *)
LEMMA PassedOver ==
  ASSUME TypeOK, CalledUpTo(at), plan[at] = NoCall
  PROVE  CalledUpTo(at + 1)
<1>1. DOMAIN plan \subseteq Nat /\ at \in Nat
  BY LenProperties, SessionConstants DEF TypeOK
<1>2. \A i \in DOMAIN plan : (i < at + 1 /\ plan[i] # NoCall) <=> (i < at /\ plan[i] # NoCall)
  BY <1>1
<1> QED BY <1>2 DEF CalledUpTo

(* A good answer continues what was called by the step the executor is at. *)
LEMMA AnswerContinues ==
  ASSUME TypeOK, CalledUpTo(at), at <= Len(plan), plan[at] # NoCall,
         NEW clean \in BOOLEAN, block => clean,
         called' = Append(called, [step |-> at, ok |-> TRUE, clean |-> clean]),
         UNCHANGED <<block, plan>>, at' = at + 1
  PROVE  /\ CalledUpTo(at)'
         /\ \A c : TimesCalled(c)' <= TimesCalled(c) + (IF plan[at] = c THEN 1 ELSE 0)
<1> DEFINE last == Len(called) + 1
           record == [step |-> at, ok |-> TRUE, clean |-> clean]
<1>1. at \in Nat \ {0} /\ DOMAIN plan = 1 .. Len(plan) /\ Len(plan) \in Nat /\ at \in DOMAIN plan
  BY LenProperties, SessionConstants DEF TypeOK
<1>2. Len(called) \in Nat /\ DOMAIN called = 1 .. Len(called) /\ last \notin DOMAIN called
  BY LenProperties DEF TypeOK
<1>3. record \in [step : 1 .. MaxSteps, ok : BOOLEAN, clean : BOOLEAN]
  BY <1>1, SessionConstants DEF TypeOK
<1>4. /\ DOMAIN called' = DOMAIN called \cup {last}
      /\ \A k \in DOMAIN called : called'[k] = called[k]
      /\ called'[last] = record
  <2>1. called \in Seq([step : 1 .. MaxSteps, ok : BOOLEAN, clean : BOOLEAN])
    BY DEF TypeOK
  <2>2. /\ Len(called') = last /\ DOMAIN called' = 1 .. last
        /\ \A k \in 1 .. Len(called) : called'[k] = called[k]
        /\ called'[last] = record
    BY <1>3, <2>1, AppendProperties, LenProperties
  <2> QED BY <1>2, <2>2
<1>5. ASSUME NEW k \in DOMAIN called
      PROVE  called[k].step \in Nat /\ called[k].step < at
  <2>1. called[k].step \in {i \in DOMAIN plan : i < at /\ plan[i] # NoCall}
    BY DEF CalledUpTo
  <2> QED BY <1>1, <2>1
<1> HIDE DEF last
<1>6. {called'[k].step : k \in DOMAIN called'} = {called[k].step : k \in DOMAIN called} \cup {at}
  BY <1>4
<1>7. {i \in DOMAIN plan : i < at + 1 /\ plan[i] # NoCall}
        = {i \in DOMAIN plan : i < at /\ plan[i] # NoCall} \cup {at}
  BY <1>1
<1>8. {called'[k].step : k \in DOMAIN called'} = {i \in DOMAIN plan : i < at + 1 /\ plan[i] # NoCall}
  BY <1>6, <1>7 DEF CalledUpTo
<1>9. \A k \in DOMAIN called' : called'[k].ok /\ (block => called'[k].clean)
  BY <1>4 DEF CalledUpTo
<1>10. ASSUME NEW j \in DOMAIN called', NEW k \in DOMAIN called', j < k
       PROVE  called'[j].step < called'[k].step
  <2>1. j # last
    BY <1>2, <1>4, <1>10 DEF last
  <2>2. CASE k = last
    BY <1>4, <1>5, <2>1, <2>2
  <2>3. CASE k # last
    BY <1>4, <1>10, <2>1, <2>3 DEF CalledUpTo
  <2> QED BY <2>2, <2>3
<1>11. ASSUME NEW c
       PROVE  TimesCalled(c)' <= TimesCalled(c) + (IF plan[at] = c THEN 1 ELSE 0)
  <2> DEFINE before == {k \in DOMAIN called : plan[called[k].step] = c}
             after == {k \in DOMAIN called' : plan[called'[k].step] = c}
  <2>1. IsFiniteSet(before) /\ Cardinality(before) \in Nat /\ TimesCalled(c) = Cardinality(before)
    BY CountIsNatural DEF TimesCalled
  <2>2. TimesCalled(c)' = Cardinality(after)
    BY DEF TimesCalled
  <2>3. CASE plan[at] = c
    <3>1. after = before \cup {last} /\ last \notin before
      BY <1>2, <1>4, <2>3
    <3> HIDE DEF before, after
    <3>2. Cardinality(after) = Cardinality(before) + 1
      BY <2>1, <3>1, FS_AddElement
    <3>3. TimesCalled(c)' <= TimesCalled(c) + 1
      BY <2>1, <2>2, <3>2
    <3> QED BY <2>3, <3>3
  <2>4. CASE plan[at] # c
    <3>1. after = before
      BY <1>4, <2>4
    <3> HIDE DEF before, after
    <3>2. TimesCalled(c)' <= TimesCalled(c) + 0
      BY <2>1, <2>2, <3>1
    <3> QED BY <2>4, <3>2
  <2> QED BY <2>3, <2>4
<1> QED BY <1>8, <1>9, <1>10, <1>11 DEF CalledUpTo

(* Every step but a good answer, a plan that is accepted, and a call that  *)
(* is counted leaves the executor where it is.                             *)
LEMMA NothingNewCalled ==
  ASSUME TypeOK, Carrying, verdict = "none", pc' \notin Calling \cup {"execute"},
         UNCHANGED <<block, plan, executing>>
  PROVE  Carrying'
<1>1. CalledUpTo(at)'
  BY DEF Carrying, CalledUpTo, executing
<1>2. ASSUME NEW c \in Call
      PROVE  TimesCalled(c)' + InProgress(c)' <= seen'[c] /\ seen'[c] <= MaxRepetitions
  <2>1. TimesCalled(c)' = TimesCalled(c) /\ TimesCalled(c) \in Nat
    BY CountIsNatural DEF TimesCalled, executing
  <2>2. InProgress(c)' = 0 /\ InProgress(c) \in {0, 1}
    BY DEF InProgress
  <2>3. TimesCalled(c) + InProgress(c) <= seen[c] /\ seen[c] <= MaxRepetitions /\ seen[c] \in Nat
    BY DEF Carrying, TypeOK
  <2> QED BY <2>1, <2>2, <2>3, SessionConstants DEF executing
<1> QED BY <1>1, <1>2 DEF Carrying

LEMMA PlanIsCarried ==
  ASSUME TypeOK, Asking, Unstarted, Carrying,
         Retrieve \/ ProviderFails \/ BackoffEnds \/ ProviderReplies
  PROVE  Carrying'
<1>1. pc \in Planning /\ verdict = "none" /\ UNCHANGED <<block, executing>>
  BY DEF Retrieve, ProviderFails, BackoffEnds, ProviderReplies, Reply, Planning, Asking, Ending
<1>2. CASE verdict' # "none" /\ pc' = "close"
  BY <1>2 DEF Carrying, Calling, Starting
<1>3. CASE pc' \in Planning /\ UNCHANGED plan
  BY <1>1, <1>3, NothingNewCalled DEF Planning, Calling, Starting
<1>4. ASSUME NEW p \in Replies, Accepted(p), plan' = p, pc' = "execute"
      PROVE  Carrying'
  <2>1. called = <<>> /\ at = 1 /\ (\A c \in Call : seen[c] = 0) /\ UNCHANGED <<at, seen, called>>
    BY <1>1 DEF Unstarted, executing
  <2>2. plan' \in Seq(Call \cup {NoCall}) /\ plan' # <<>>
    BY <1>4, RepliesAreSequences, EmptySeq DEF Accepted
  <2>3. called' = <<>>
    BY <2>1
  <2>4. DOMAIN called' = {}
    BY <2>3, EmptySeq
  <2>5. \A i \in DOMAIN plan' : ~(i < 1)
    BY <2>2, LenProperties
  <2>6. CalledUpTo(at)'
    BY <2>1, <2>4, <2>5 DEF CalledUpTo
  <2>7. ASSUME NEW c \in Call
        PROVE  TimesCalled(c)' + InProgress(c)' <= seen'[c] /\ seen'[c] <= MaxRepetitions
    <3>1. {k \in DOMAIN called' : plan'[called'[k].step] = c} = {}
      BY <2>4
    <3>2. TimesCalled(c)' = 0
      BY <3>1, FS_EmptySet DEF TimesCalled
    <3>3. InProgress(c)' = 0
      BY <1>4 DEF InProgress, Calling, Starting
    <3>4. seen'[c] = 0
      BY <2>1
    <3> QED BY <3>2, <3>3, <3>4, SessionConstants
  <2> QED BY <1>4, <2>2, <2>6, <2>7 DEF Carrying, Calling, Starting
<1>5. CASE Retrieve \/ ProviderFails \/ BackoffEnds
  BY <1>2, <1>3, <1>5 DEF Retrieve, ProviderFails, BackoffEnds, Request, End, Planning, planning
<1>6. ASSUME NEW tokens \in Usages, NEW p \in Replies, Reply(tokens, p)
      PROVE  Carrying'
  <2>1. \/ verdict' # "none" /\ pc' = "close"
        \/ Accepted(p) /\ plan' = p /\ pc' = "execute"
        \/ pc' \in Planning /\ UNCHANGED plan
    BY <1>6 DEF Reply, End, Request, Planning
  <2> QED BY <1>2, <1>3, <1>4, <2>1
<1> QED BY <1>5, <1>6 DEF ProviderReplies

LEMMA StepIsCarried ==
  ASSUME TypeOK, Asking, Carrying, PlanningStep \/ CallTool
  PROVE  Carrying'
<1>1. /\ verdict = "none" /\ pc = "execute" /\ plan # <<>> /\ at \in Nat
      /\ CalledUpTo(at) /\ UNCHANGED <<block, plan, called>>
  BY SessionConstants DEF PlanningStep, CallTool, Asking, Ending, Carrying, planning, TypeOK
<1>2. \A c \in Call : /\ TimesCalled(c)' = TimesCalled(c) /\ TimesCalled(c) \in Nat
                      /\ TimesCalled(c) <= seen[c] /\ seen[c] <= MaxRepetitions /\ seen[c] \in Nat
  <2> SUFFICES ASSUME NEW c \in Call
               PROVE  /\ TimesCalled(c)' = TimesCalled(c) /\ TimesCalled(c) \in Nat
                      /\ TimesCalled(c) <= seen[c] /\ seen[c] <= MaxRepetitions /\ seen[c] \in Nat
    OBVIOUS
  <2>1. TimesCalled(c)' = TimesCalled(c) /\ TimesCalled(c) \in Nat
    BY <1>1, CountIsNatural DEF TimesCalled
  <2>2. InProgress(c) = 0
    BY <1>1 DEF InProgress, Calling, Starting
  <2>3. TimesCalled(c) + InProgress(c) <= seen[c] /\ seen[c] <= MaxRepetitions /\ seen[c] \in Nat
    BY <1>1 DEF Carrying, TypeOK
  <2> QED BY <2>1, <2>2, <2>3
<1>3. CASE PlanningStep
  <2>1. CalledUpTo(at + 1) /\ at' = at + 1
    BY <1>1, <1>3, PassedOver DEF PlanningStep
  <2>2. CalledUpTo(at)'
    BY <1>1, <2>1 DEF CalledUpTo
  <2>3. pc' = "execute" /\ UNCHANGED <<seen, verdict>>
    BY <1>1, <1>3 DEF PlanningStep
  <2>4. \A c \in Call : InProgress(c)' = 0
    BY <2>3 DEF InProgress, Calling, Starting
  <2> QED BY <1>1, <1>2, <2>2, <2>3, <2>4 DEF Carrying, Calling, Starting
<1>4. CASE CallTool
  <2>1. plan[at] \in Call /\ plan[at] # NoCall /\ at <= Len(plan) /\ UNCHANGED at
    BY <1>4, SessionConstants DEF CallTool, TypeOK
  <2>2. \A c \in Call : seen'[c] = seen[c] + (IF plan[at] = c THEN 1 ELSE 0)
    BY <1>2, <1>4, <2>1 DEF CallTool, TypeOK
  <2>3. CASE verdict' # "none" /\ pc' = "close"
    BY <2>3 DEF Carrying, Calling, Starting
  <2>4. CASE seen'[plan[at]] <= MaxRepetitions /\ pc' \in Calling
    <3>1. CalledUpTo(at)'
      BY <1>1, <2>1 DEF CalledUpTo
    <3>2. \A c \in Call : InProgress(c)' = (IF plan[at] = c THEN 1 ELSE 0)
      BY <1>1, <2>1, <2>4 DEF InProgress
    <3>3. \A c \in Call : TimesCalled(c)' + InProgress(c)' <= seen'[c] /\ seen'[c] <= MaxRepetitions
      BY <1>2, <2>2, <2>4, <3>2, SessionConstants
    <3> QED BY <1>1, <2>1, <3>1, <3>3 DEF Carrying
  <2>5. seen'[plan[at]] \in Nat
    BY <1>2, <2>1, <2>2
  <2> QED BY <1>4, <2>3, <2>4, <2>5, SessionConstants DEF CallTool, End, Calling, Starting
<1> QED BY <1>3, <1>4

LEMMA CallIsCarried ==
  ASSUME TypeOK, Asking, Carrying, Browser
  PROVE  Carrying'
<1>1. CASE StartReturns
  <2>1. pc \in Calling /\ pc' \in Calling /\ UNCHANGED <<block, plan, at, seen, called, verdict>>
    BY <1>1 DEF StartReturns, Calling, Starting, planning, executing
  <2>2. CalledUpTo(at) => CalledUpTo(at)'
    BY <2>1 DEF CalledUpTo
  <2>3. \A c : TimesCalled(c)' = TimesCalled(c) /\ InProgress(c)' = InProgress(c)
    BY <2>1 DEF TimesCalled, InProgress
  <2> QED BY <2>1, <2>2, <2>3 DEF Carrying
<1>2. ASSUME NEW ok \in BOOLEAN, NEW clean \in BOOLEAN, ToolAnswers(ok, clean)
      PROVE  Carrying'
  <2>1. CASE verdict' # "none" /\ pc' = "close"
    BY <2>1 DEF Carrying, Calling, Starting
  <2>2. CASE ok /\ (block => clean) /\ at' = at + 1 /\ pc' = "execute"
    <3>1. /\ pc \in Calling /\ verdict = "none" /\ UNCHANGED <<block, plan, seen>>
          /\ called' = Append(called, [step |-> at, ok |-> TRUE, clean |-> clean])
      BY <1>2, <2>2 DEF ToolAnswers, Calling, Asking, Ending, planning
    <3>2. CalledUpTo(at) /\ plan # <<>> /\ at <= Len(plan) /\ plan[at] # NoCall
      BY <3>1 DEF Carrying
    <3>3. /\ CalledUpTo(at)'
          /\ \A c : TimesCalled(c)' <= TimesCalled(c) + (IF plan[at] = c THEN 1 ELSE 0)
      BY <2>2, <3>1, <3>2, AnswerContinues
    <3>4. ASSUME NEW c \in Call
          PROVE  TimesCalled(c)' + InProgress(c)' <= seen'[c] /\ seen'[c] <= MaxRepetitions
      <4>1. InProgress(c)' = 0 /\ InProgress(c) = (IF plan[at] = c THEN 1 ELSE 0)
        BY <2>2, <3>1 DEF InProgress, Calling, Starting
      <4>2. TimesCalled(c) + InProgress(c) <= seen[c] /\ seen[c] <= MaxRepetitions
        BY <3>1 DEF Carrying
      <4>3. TimesCalled(c) \in Nat /\ seen[c] \in Nat
        BY CountIsNatural DEF TypeOK
      <4>4. TimesCalled(c)' \in Nat
        <5>1. TypeOK'
          BY <1>2, AnswerTypes
        <5>2. IsFiniteSet(DOMAIN called')
          BY <5>1, LenProperties, FS_Interval DEF TypeOK
        <5>3. IsFiniteSet({k \in DOMAIN called' : plan'[called'[k].step] = c})
          BY <5>2, FS_Subset
        <5> QED BY <5>3, FS_CardinalityType DEF TimesCalled
      <4>5. TimesCalled(c)' <= TimesCalled(c) + InProgress(c)
        BY <3>3, <4>1
      <4> QED BY <3>1, <4>1, <4>2, <4>3, <4>4, <4>5, SessionConstants
    <3>5. pc' \notin Calling /\ plan' # <<>>
      BY <2>2, <3>1, <3>2 DEF Calling, Starting
    <3> QED BY <3>3, <3>4, <3>5 DEF Carrying
  <2> QED BY <1>2, <2>1, <2>2 DEF ToolAnswers, End
<1> QED BY <1>1, <1>2 DEF Browser

LEMMA CarryingKept == ASSUME TypeOK, Asking, Unstarted, Carrying, [Next]_vars PROVE Carrying'
<1>1. CASE \/ ToolFails \/ AllStepsDone \/ CloseBrowser \/ StopDriver \/ CloseFails \/ Interrupt
  <2>1. pc' \in Ending
    BY <1>1 DEF ToolFails, AllStepsDone, CloseBrowser, StopDriver, CloseFails, ClosingWaits, Interrupt, End, Ending
  <2>2. verdict' # "none"
    BY <1>1, <2>1, EndsInOrder
  <2> QED BY <2>1, <2>2 DEF Carrying, Calling, Starting, Ending
<1>2. CASE UNCHANGED vars
  <2>1. UNCHANGED <<block, pc, plan, at, seen, called, verdict>>
    BY <1>2 DEF vars, planning, executing
  <2>2. CalledUpTo(at) => CalledUpTo(at)'
    BY <2>1 DEF CalledUpTo
  <2>3. \A c : TimesCalled(c)' = TimesCalled(c) /\ InProgress(c)' = InProgress(c)
    BY <2>1 DEF TimesCalled, InProgress
  <2> QED BY <2>1, <2>2, <2>3 DEF Carrying
<1> QED BY <1>1, <1>2, PlanIsCarried, StepIsCarried, CallIsCarried DEF Next, Progress, Close

LEMMA PassedIsEarnedKept ==
  ASSUME TypeOK, Asking, Carrying, PassedIsEarned, [Next]_vars
  PROVE  PassedIsEarned'
<1>1. CASE AllStepsDone
  <2>1. /\ verdict = "none" /\ plan # <<>> /\ CalledUpTo(at) /\ at > Len(plan)
        /\ UNCHANGED <<block, plan, called>>
    BY <1>1 DEF AllStepsDone, Asking, Ending, Carrying, planning, executing
  <2>2. {i \in DOMAIN plan : i < at /\ plan[i] # NoCall} = {i \in DOMAIN plan : plan[i] # NoCall}
    <3>1. \A i \in DOMAIN plan : i < at
      BY <2>1, LenProperties, SessionConstants DEF TypeOK
    <3> QED BY <3>1
  <2>3. ASSUME NEW c \in Call PROVE TimesCalled(c) <= MaxRepetitions
    <3>1. /\ TimesCalled(c) + InProgress(c) <= seen[c] /\ seen[c] <= MaxRepetitions
          /\ seen[c] \in Nat /\ InProgress(c) \in {0, 1}
      BY <2>1 DEF Carrying, TypeOK, InProgress
    <3>2. TimesCalled(c) \in Nat
      BY CountIsNatural
    <3> QED BY <3>1, <3>2, SessionConstants
  <2>4. \A c \in Call : TimesCalled(c)' = TimesCalled(c)
    BY <2>1 DEF TimesCalled
  <2> QED BY <2>1, <2>2, <2>3, <2>4 DEF PassedIsEarned, CalledUpTo
<1>2. CASE verdict' # "passed"
  BY <1>2 DEF PassedIsEarned
<1>3. CASE UNCHANGED <<block, plan, called, verdict>>
  <2>1. \A c \in Call : TimesCalled(c)' = TimesCalled(c)
    BY <1>3 DEF TimesCalled
  <2> QED BY <1>3, <2>1 DEF PassedIsEarned
<1>4. CASE Retrieve \/ ProviderFails \/ BackoffEnds \/ ProviderReplies
  <2>1. verdict = "none" /\ (verdict' = verdict \/ verdict' = "raised")
    BY <1>4 DEF Retrieve, ProviderFails, BackoffEnds, ProviderReplies, Reply, End, Asking, Ending
  <2> QED BY <1>2, <2>1
<1>5. CASE PlanningStep \/ CallTool
  BY <1>2, <1>5 DEF PlanningStep, CallTool, End, Asking, Ending
<1>6. CASE Browser
  <2>1. verdict = "none" /\ verdict' \in {"none", "failed", "testability_defect"}
    BY <1>6 DEF Browser, StartReturns, ToolAnswers, End, Asking, Ending, Starting
  <2> QED BY <1>2, <2>1
<1>7. CASE ToolFails \/ Interrupt
  BY <1>2, <1>7 DEF ToolFails, Interrupt, End
<1>8. CASE CloseBrowser \/ StopDriver \/ CloseFails
  BY <1>3, <1>8 DEF CloseBrowser, StopDriver, CloseFails, ClosingWaits, planning, executing
<1>9. CASE UNCHANGED vars
  BY <1>3, <1>9 DEF vars, planning, executing
<1> QED BY <1>1, <1>4, <1>5, <1>6, <1>7, <1>8, <1>9 DEF Next, Progress, Close

-----------------------------------------------------------------------------
(* The browser.                                                            *)

(* A failed or interrupted await: what it may have left can be stopped by  *)
(* the handle of the driver, or it is the driver itself.                   *)
LEMMA AbandonedIsKnown ==
  ASSUME TypeOK, Browsing, pc \in Calling \cup Awaits, Abandon, pc' = "close"
  PROVE  Browsing'
<1>1. ~lost
  BY DEF Browsing, Calling, Starting, Awaits, Ending
<1>2. CASE pc \in {"browser", "page"}
  BY <1>2 DEF Browsing, Abandon, Ending
<1>3. CASE pc \notin {"browser", "page"}
  <2>1. alive' = alive \/ (pc = "driver" /\ alive' = alive \cup {"driver"})
    BY <1>3 DEF Abandon
  <2>2. UNCHANGED handle /\ lost' = ("driver" \in alive' \ handle)
    BY DEF Abandon
  <2>3. alive # {} => "driver" \in handle
    BY <1>1 DEF Browsing, Calling, Starting, Awaits
  <2> QED BY <2>1, <2>2, <2>3 DEF Browsing, Ending
<1> QED BY <1>2, <1>3

LEMMA BrowsingKept == ASSUME TypeOK, Asking, Browsing, [Next]_vars PROVE Browsing'
<1>1. CASE Retrieve \/ ProviderFails \/ BackoffEnds \/ ProviderReplies
  <2>1. /\ UNCHANGED browsing /\ pc \notin Ending
        /\ pc' \in {"ask", "backoff", "execute", "close"}
    BY <1>1 DEF Retrieve, ProviderFails, BackoffEnds, ProviderReplies, Reply, Request, End, Ending
  <2> QED BY <2>1 DEF Browsing, browsing, Ending
<1>2. CASE PlanningStep \/ CallTool \/ AllStepsDone
  BY <1>2 DEF PlanningStep, CallTool, AllStepsDone, End, Browsing, browsing, Ending
<1>3. CASE ToolFails \/ Interrupt
  BY <1>3, AbandonedIsKnown DEF ToolFails, Interrupt, End, Calling
<1>4. CASE StartReturns
  BY <1>4 DEF StartReturns, Starting, Browsing, Ending
<1>5. CASE \E ok, clean \in BOOLEAN : ToolAnswers(ok, clean)
  <2>1. pc = "tool" /\ pc' \in {"close", "execute"} /\ UNCHANGED browsing
    BY <1>5 DEF ToolAnswers, End
  <2> QED BY <2>1 DEF Browsing, browsing, Ending
<1>6. CASE CloseBrowser
  BY <1>6 DEF CloseBrowser, Browsing, Ending
<1>7. CASE StopDriver \/ CloseFails
  BY <1>7 DEF StopDriver, CloseFails, ClosingWaits, Browsing, Ending
<1>8. CASE UNCHANGED vars
  BY <1>8 DEF vars, browsing, Browsing
<1> QED BY <1>1, <1>2, <1>3, <1>4, <1>5, <1>6, <1>7, <1>8 DEF Next, Progress, Close, Browser

LEMMA BrowserGoneKept == ASSUME TypeOK, Asking, Browsing, BrowserGone, [Next]_vars PROVE BrowserGone'
<1>1. CASE StopDriver
  BY <1>1 DEF StopDriver, Browsing, BrowserGone
<1>2. CASE CloseFails
  BY <1>2 DEF CloseFails, ClosingWaits, BrowserGone
<1>3. CASE UNCHANGED vars
  BY <1>3 DEF vars, browsing, BrowserGone
<1>4. CASE pc' # "ended"
  BY <1>4 DEF BrowserGone
<1>5. CASE Retrieve \/ ProviderFails \/ BackoffEnds \/ ProviderReplies
  <2>1. pc' \in {"ask", "backoff", "execute", "close"}
    BY <1>5 DEF Retrieve, ProviderFails, BackoffEnds, ProviderReplies, Reply, Request, End
  <2> QED BY <1>4, <2>1
<1>6. CASE \/ PlanningStep \/ CallTool \/ ToolFails \/ AllStepsDone \/ Interrupt
           \/ CloseBrowser
  BY <1>4, <1>6 DEF PlanningStep, CallTool, ToolFails, AllStepsDone, Interrupt, CloseBrowser, End
<1>7. CASE StartReturns
  BY <1>4, <1>7 DEF StartReturns, Starting
<1>8. CASE \E ok, clean \in BOOLEAN : ToolAnswers(ok, clean)
  BY <1>4, <1>8 DEF ToolAnswers, End
<1> QED BY <1>1, <1>2, <1>3, <1>5, <1>6, <1>7, <1>8 DEF Next, Progress, Close, Browser

-----------------------------------------------------------------------------
(* The theorems.                                                           *)

LEMMA SessionInvInitially == Init => SessionInv
<1> SUFFICES ASSUME Init PROVE SessionInv
  OBVIOUS
<1>1. TypeOK
  BY TypesInitially
<1>2. pc = "plan" /\ verdict = "none" /\ at = 1 /\ called = <<>> /\ plan = <<>>
  BY DEF Init
<1>3. Asking /\ Spending /\ Unstarted
  BY <1>2, SessionConstants DEF Init, Asking, Ending, Spending, Planning, Unstarted
<1>4. Carrying
  <2>1. CalledUpTo(at) /\ \A c : TimesCalled(c) = 0
    BY <1>1, <1>2, NothingCalled DEF TypeOK
  <2>2. \A c \in Call : InProgress(c) = 0 /\ seen[c] = 0
    BY <1>2 DEF Init, InProgress, Calling, Starting
  <2> QED BY <1>2, <2>1, <2>2, SessionConstants DEF Carrying, Calling, Starting
<1>5. PassedIsEarned
  BY <1>2 DEF PassedIsEarned
<1>6. Browsing /\ BrowserGone
  BY <1>2 DEF Init, Browsing, BrowserGone
<1> QED BY <1>1, <1>3, <1>4, <1>5, <1>6 DEF SessionInv

LEMMA SessionInvKept == ASSUME SessionInv, [Next]_vars PROVE SessionInv'
BY TypesKept, AskingKept, SpendingKept, UnstartedKept, CarryingKept, PassedIsEarnedKept,
   BrowsingKept, BrowserGoneKept DEF SessionInv

(* The inductive invariant holds in every state of a session.              *)
THEOREM SessionInvHolds == Spec => []SessionInv
BY SessionInvInitially, SessionInvKept, PTL DEF Spec

(* The variables have their types; the attempts, the steps of the plan and *)
(* the step at hand stay within the policy.                                *)
THEOREM SessionTypesHold == Spec => []TypeOK
<1>1. SessionInv => TypeOK
  BY DEF SessionInv
<1> QED BY <1>1, SessionInvHolds, PTL

(* RetryingProvider and ProviderBudget: two plans with their retries bound *)
(* the requests, one completion bounds what is used beyond the limit, and  *)
(* no plan is carried out that was not paid for.                           *)
THEOREM BudgetIsHeld == Spec => []BudgetHolds
<1>1. SessionInv => BudgetHolds
  <2> SUFFICES ASSUME SessionInv PROVE BudgetHolds
    OBVIOUS
  <2>1. TypeOK /\ Asking /\ Spending
    BY DEF SessionInv
  <2>2. calls <= 2 * (MaxRetries + 1)
    BY <2>1, SessionConstants DEF Asking, TypeOK
  <2> QED BY <2>1, <2>2 DEF Spending, BudgetHolds
<1> QED BY <1>1, SessionInvHolds, PTL

(* Executor.execute: "passed" is returned only after every step with a     *)
(* tool was called, in order, answered well, and clean where that blocks.  *)
THEOREM PassIsEarned == Spec => []PassedIsEarned
<1>1. SessionInv => PassedIsEarned
  BY DEF SessionInv
<1> QED BY <1>1, SessionInvHolds, PTL

(* PlaywrightMCPClient.close: a session leaves no browser behind, wherever *)
(* it was interrupted, save for what no handle leads to.                   *)
THEOREM NoBrowserIsLeft == Spec => []BrowserGone
<1>1. SessionInv => BrowserGone
  BY DEF SessionInv
<1> QED BY <1>1, SessionInvHolds, PTL

=============================================================================
