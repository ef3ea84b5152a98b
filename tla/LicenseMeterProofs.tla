------------------------ MODULE LicenseMeterProofs -------------------------
(***************************************************************************)
(* Proofs about LicenseMeter, in four parts.                               *)
(*                                                                         *)
(* How far the quota and the device limit can be overrun.  OverrunBounded  *)
(* is not inductive: nothing in it says how many requests have looked at   *)
(* the quota and will insert their run whatever happens.  QuotaRoom counts *)
(* them in.  A request that passes the check finds fewer than Quota runs,  *)
(* and at most all threads are then about to insert; an insert turns one   *)
(* of them into a run.  The types are needed because the sets that are     *)
(* counted must be finite, and Periods because a request goes on with the  *)
(* billing period that it has read, while a webhook may have replaced the  *)
(* period of the license: the runs of an older period cannot become more,  *)
(* since a run is dated when it is inserted.                               *)
(*                                                                         *)
(* Runs whose user was warned.  WarnInv follows each run id through the    *)
(* system: it is nowhere, or with one client, or on the thread that this   *)
(* client waits for, or in a queue, or in the table, and a warning finds   *)
(* it with its client only.                                                *)
(*                                                                         *)
(* Analyses that begin.  CoverInv says of what is cached, on the disk and  *)
(* in the hands of each client, that it was validated on a day that was    *)
(* usable, and of each answer under way that it was decided today: the day *)
(* does not change while a client waits.                                   *)
(*                                                                         *)
(* Runs that are queued.  QueueInv accounts for every entry on the disk    *)
(* while a client holds a copy that it will write back.                    *)
(***************************************************************************)
EXTENDS LicenseMeter, FiniteSetTheorems, SequenceTheorems, TLAPS

Starts == PeriodStarts \cup {0}

(* A client that reports a run has one, and one that flushes has entries.  *)
FitAgents ==
  {g \in Agent : /\ g.pc \in {"renewing", "flushing", "metering"} => g.run \in RunIds
                 /\ g.pc = "flushing" => g.todo # <<>>}

(* A thread that meters has a run, and a billing period that was reported. *)
FitRequests ==
  {q \in Request : /\ q.stage \in {"check", "meter", "insert_run"} => q.run \in RunIds
                   /\ q.lic.start \in Starts}

Types ==
  /\ now \in Day /\ usable \in Day
  /\ lic \in SubscriptionStates /\ lic.start \in Starts
  /\ tokens \in [Devices -> Token] /\ asked \in Token
  /\ runs \in SUBSET Row /\ IsFiniteSet(runs)
  /\ thread \in [Threads -> FitRequests]
  /\ store \in [Devices -> LicenseState]
  /\ agent \in [Agents -> FitAgents]
  /\ used \in SUBSET RunIds /\ warned \in SUBSET RunIds

(* No period begins after today, neither the license's nor a request's.    *)
Periods ==
  /\ lic.start <= now
  /\ \A t \in Threads : thread[t].lic.start <= now

(* The requests that will add a run to the period that begins on day s, or *)
(* to an earlier one.                                                      *)
Inserting(s) == {t \in Threads : thread[t].stage = "insert_run" /\ thread[t].lic.start <= s}
QuotaRoom ==
  \A s \in Starts :
    Cardinality(RunsIn(s)) + Cardinality(Inserting(s)) <= Quota - 1 + Cardinality(Threads)

MeterInv == Types /\ Periods /\ QuotaRoom

-----------------------------------------------------------------------------
(* What the constants and the library give.                                *)

LEMMA Constants ==
  /\ MaxDay \in Nat /\ MaxActivations \in Nat /\ Quota \in Nat /\ Quota > 0
  /\ Day \subseteq Nat /\ Starts \subseteq Nat /\ Token \subseteq Nat
  /\ Cardinality(Threads) \in Nat
  /\ \A a \in Agents : DeviceOf[a] \in Devices
<1>1. Starts \subseteq Nat
  BY LicenseAssumption DEF Starts, PeriodStarts, SubscriptionStates
<1>2. Cardinality(Threads) \in Nat
  BY LicenseAssumption, FS_CardinalityType
<1> QED BY <1>1, <1>2, LicenseAssumption DEF Day, Token

(* A set of threads, or of runs, has a size, and a part of it no larger    *)
(* one.                                                                    *)
LEMMA Sizes ==
  ASSUME NEW S, IsFiniteSet(S), NEW T \in SUBSET S
  PROVE  /\ Cardinality(S) \in Nat /\ Cardinality(T) \in Nat
         /\ IsFiniteSet(T) /\ Cardinality(T) <= Cardinality(S)
BY FS_Subset, FS_CardinalityType

LEMMA QuotaLeftType ==
  ASSUME NEW rows, IsFiniteSet(rows), NEW l
  PROVE  QuotaLeft(l, rows) \in 0 .. Quota
<1>1. RunsSince(l, rows) \in SUBSET rows
  BY DEF RunsSince
<1>2. Cardinality(RunsSince(l, rows)) \in Nat
  BY <1>1, Sizes
<1> QED BY <1>2, Constants DEF QuotaLeft

-----------------------------------------------------------------------------
(* The types of the client: an answer, or none, leaves each client process *)
(* and each license.json well formed.                                      *)

LEMMA TailOfMany ==
  ASSUME NEW S, NEW q \in Seq(S), Len(q) > 1
  PROVE  Tail(q) # <<>>
<1> DEFINE n == Len(q)
           m == Len(Tail(q))
<1>1. n \in Nat /\ n > 1
  BY LenProperties
<1>2. q # <<>>
  BY <1>1, EmptySeq
<1>3. m = n - 1
  BY <1>2, HeadTailProperties
<1>4. m # 0
  <2> HIDE DEF n, m
  <2> QED BY <1>1, <1>3
<1>5. Len(<<>>) = 0
  BY EmptySeq
<1> QED BY <1>4, <1>5, Zenon

LEMMA IdleFits == Idle \in FitAgents /\ Blank \in LicenseState
<1>1. Blank \in LicenseState
  BY Constants DEF Blank, LicenseState, Token, Day
<1> QED BY <1>1, Constants DEF Idle, FitAgents, Agent, Token, Calls

LEMMA OnwardFits ==
  ASSUME NEW a, NEW r \in RunIds \cup {"none"}, NEW s \in LicenseState
  PROVE  Onward(a, r, s) \in FitAgents
<1>1. s.pending \in Seq(RunIds)
  BY DEF LicenseState
<1>2. Idle \in FitAgents
  BY IdleFits
<1> QED BY <1>1, <1>2 DEF Onward, FitAgents, Agent, Idle, Calls

(* What an answer changes on the client's side.                            *)
ClientTypes ==
  /\ store \in [Devices -> LicenseState]
  /\ agent \in [Agents -> FitAgents]
  /\ warned \in SUBSET RunIds

LEMMA BlockedTypes ==
  ASSUME ClientTypes, NEW a \in Agents, Blocked(a)
  PROVE  agent' \in [Agents -> FitAgents] /\ warned' \in SUBSET RunIds
<1>1. agent[a].run \in RunIds \cup {"none"}
  BY DEF ClientTypes, FitAgents, Agent
<1> QED BY <1>1, IdleFits DEF Blocked, ClientTypes

LEMMA SavedTypes ==
  ASSUME ClientTypes, NEW a \in Agents, NEW s \in LicenseState, Saved(a, s)
  PROVE  store' \in [Devices -> LicenseState]
BY Constants DEF Saved, ClientTypes

LEMMA ReceiveTypes ==
  ASSUME ClientTypes, now \in Day, NEW a \in Agents, NEW code, NEW left \in 0 .. Quota,
         Receive(a, code, left)
  PROVE  ClientTypes'
<1> DEFINE g == agent[a]
<1>0. /\ g \in Agent /\ g.mine \in LicenseState /\ g.run \in RunIds \cup {"none"}
      /\ g.todo \in Seq(RunIds) /\ g.kept \in Seq(RunIds)
      /\ g.pc \in {"renewing", "flushing", "metering"} => g.run \in RunIds
      /\ g.pc = "flushing" => g.todo # <<>>
  BY DEF ClientTypes, FitAgents, Agent
<1>1. CASE ReceiveActivation(a, code, left)
  <2>1. store[DeviceOf[a]] \in LicenseState
    BY Constants DEF ClientTypes
  <2>2. [store[DeviceOf[a]] EXCEPT !.token = g.token, !.quota = left, !.validated = now]
          \in LicenseState
    BY <1>0, <2>1 DEF LicenseState, Agent
  <2>3. store' \in [Devices -> LicenseState]
    BY <1>1, <2>2, SavedTypes DEF ReceiveActivation, ClientTypes
  <2> QED BY <1>1, <2>3, IdleFits DEF ReceiveActivation, ClientTypes
<1>2. CASE ReceiveValidation(a, code, left)
  <2> DEFINE s == [g.mine EXCEPT !.quota = left, !.validated = now]
  <2>1. s \in LicenseState
    BY <1>0 DEF LicenseState
  <2>2. Onward(a, g.run, s) \in FitAgents /\ Onward(a, g.run, g.mine) \in FitAgents
    BY <1>0, <2>1, OnwardFits
  <2>3. store' \in [Devices -> LicenseState]
    BY <1>2, <2>1, IdleFits, SavedTypes DEF ReceiveValidation, ClientTypes
  <2>4. agent' \in [Agents -> FitAgents] /\ warned' \in SUBSET RunIds
    BY <1>2, <2>2, BlockedTypes DEF ReceiveValidation, ClientTypes
  <2> QED BY <2>3, <2>4 DEF ClientTypes
<1>3. CASE ReceiveFlush(a, code, left)
  <2> DEFINE kept == IF code = "ok" THEN g.kept ELSE Append(g.kept, Head(g.todo))
             quota == IF code = "ok" THEN left ELSE g.mine.quota
             s == [g.mine EXCEPT !.pending = kept, !.quota = quota]
  <2>1. g.pc = "flushing" /\ g.todo # <<>> /\ g.run \in RunIds
    BY <1>0, <1>3 DEF ReceiveFlush
  <2>2. Head(g.todo) \in RunIds /\ Tail(g.todo) \in Seq(RunIds)
    BY <1>0, <2>1, HeadTailProperties
  <2>3. kept \in Seq(RunIds) /\ quota \in 0 .. Quota
    BY <1>0, <2>2, AppendProperties DEF LicenseState
  <2>4. s \in LicenseState /\ [g.mine EXCEPT !.quota = quota] \in LicenseState
    BY <1>0, <2>3 DEF LicenseState
  <2>5. [Idle EXCEPT !.pc = "metering", !.run = g.run, !.mine = s] \in FitAgents
    BY <2>1, <2>4, IdleFits DEF FitAgents, Agent, Idle, Calls
  <2>6. ASSUME Len(g.todo) > 1
        PROVE  [g EXCEPT !.on = "none", !.todo = Tail(g.todo), !.kept = kept,
                         !.mine.quota = quota] \in FitAgents
    <3>1. Tail(g.todo) # <<>>
      BY <1>0, <2>6, TailOfMany
    <3> QED BY <1>0, <2>1, <2>2, <2>3, <2>4, <3>1 DEF FitAgents, Agent
  <2>7. store' \in [Devices -> LicenseState]
    BY <1>3, <2>4, SavedTypes DEF ReceiveFlush, ClientTypes
  <2>8. agent' \in [Agents -> FitAgents] /\ warned' \in SUBSET RunIds
    <3>1. CASE Blocked(a)
      BY <3>1, BlockedTypes
    <3>2. CASE ~Blocked(a)
      BY <1>3, <2>5, <2>6, <3>2 DEF ReceiveFlush, ClientTypes
    <3> QED BY <3>1, <3>2
  <2> QED BY <2>7, <2>8 DEF ClientTypes
<1>4. CASE ReceiveMeter(a, code, left)
  <2>1. g.run \in RunIds
    BY <1>0, <1>4 DEF ReceiveMeter
  <2>2. Append(g.mine.pending, g.run) \in Seq(RunIds)
    BY <1>0, <2>1, AppendProperties DEF LicenseState
  <2>3. /\ [g.mine EXCEPT !.quota = left] \in LicenseState
        /\ [g.mine EXCEPT !.pending = Append(@, g.run)] \in LicenseState
    BY <1>0, <2>2 DEF LicenseState
  <2>4. store' \in [Devices -> LicenseState]
    BY <1>4, <2>3, SavedTypes DEF ReceiveMeter, ClientTypes
  <2>5. agent' \in [Agents -> FitAgents] /\ warned' \in SUBSET RunIds
    BY <1>4, IdleFits, BlockedTypes DEF ReceiveMeter, ClientTypes
  <2> QED BY <2>4, <2>5 DEF ClientTypes
<1> QED BY <1>1, <1>2, <1>3, <1>4 DEF Receive

LEMMA AnswerTypes ==
  ASSUME Types, NEW t \in Threads, NEW code, NEW left \in 0 .. Quota, Answer(t, code, left)
  PROVE  ClientTypes' /\ thread' \in [Threads -> FitRequests]
<1>1. Free \in FitRequests
  BY Constants DEF Free, FitRequests, Request, Token, NoPeriod, SubscriptionStates, Starts
<1>2. thread' \in [Threads -> FitRequests]
  BY <1>1 DEF Answer, Types
<1>3. ClientTypes /\ now \in Day
  BY DEF Types, ClientTypes
<1>4. ASSUME NEW a \in Agents, Receive(a, code, left)
      PROVE  ClientTypes'
  BY <1>3, <1>4, ReceiveTypes
<1>5. ASSUME UNCHANGED <<store, agent, warned>>
      PROVE  ClientTypes'
  BY <1>3, <1>5 DEF ClientTypes
<1>6. (\E a \in Agents : Receive(a, code, left)) \/ UNCHANGED <<store, agent, warned>>
  BY Zenon DEF Answer
<1> QED BY <1>2, <1>4, <1>5, <1>6, Zenon

LEMMA LastUsableType ==
  ASSUME usable \in Day, NEW l, NEW day \in Day
  PROVE  LastUsable(l, day) \in Day
BY DEF LastUsable

-----------------------------------------------------------------------------
(* Every step keeps the types.                                             *)

LEMMA TypesInitially == Init => Types
<1> SUFFICES ASSUME Init PROVE Types
  OBVIOUS
<1>1. Free \in FitRequests
  BY Constants DEF Free, FitRequests, Request, Token, NoPeriod, SubscriptionStates, Starts
<1>2. IsFiniteSet(runs) /\ runs \in SUBSET Row
  BY FS_EmptySet DEF Init
<1>3. /\ now \in Day /\ usable \in Day /\ lic \in SubscriptionStates /\ lic.start \in Starts
      /\ tokens \in [Devices -> Token] /\ asked \in Token
  BY LicenseAssumption, Constants DEF Init, Day, Token, NoPeriod, SubscriptionStates, Starts
<1> QED BY <1>1, <1>2, <1>3, IdleFits DEF Init, Types

(* The steps that only a client takes.                                     *)
LEMMA ClientStepTypes ==
  ASSUME Types, NEW a \in Agents,
         StartActivation(a) \/ StartRun(a) \/ FinishRun(a) \/ Quit(a) \/ Unanswered(a)
  PROVE  Types'
<1> DEFINE s == store[DeviceOf[a]]
<1>1. s \in LicenseState /\ s.pending \in Seq(RunIds)
  BY Constants DEF Types, LicenseState
<1>2. Idle \in FitAgents
  BY IdleFits
<1>3. CASE StartActivation(a)
  <2>1. asked + 1 \in Token
    BY <1>3, Constants DEF StartActivation, Types, Token
  <2>2. [Idle EXCEPT !.pc = "activating", !.token = asked + 1] \in FitAgents
    BY <1>2, <2>1 DEF FitAgents, Agent, Idle, Calls
  <2> QED BY <1>3, <2>1, <2>2 DEF StartActivation, Types
<1>4. CASE StartRun(a)
  <2>1. [Idle EXCEPT !.pc = "gate", !.mine = s] \in FitAgents
    BY <1>1, <1>2 DEF FitAgents, Agent, Idle, Calls
  <2>2. Onward(a, "none", s) \in FitAgents
    BY <1>1, OnwardFits
  <2> QED BY <1>4, <2>1, <2>2 DEF StartRun, Types
<1>5. CASE FinishRun(a)
  <2>1. PICK r \in RunIds \ used :
          /\ used' = used \cup {r}
          /\ warned' = IF s.token = 0 THEN warned \cup {r} ELSE warned
          /\ agent' = [agent EXCEPT ![a] =
               CASE s.token = 0 -> Idle
                 [] s.token # 0 /\ NeedsRefresh(s) ->
                      [Idle EXCEPT !.pc = "renewing", !.run = r, !.mine = s]
                 [] OTHER -> Onward(a, r, s)]
    BY <1>5 DEF FinishRun
  <2>2. [Idle EXCEPT !.pc = "renewing", !.run = r, !.mine = s] \in FitAgents
    BY <1>1, <1>2 DEF FitAgents, Agent, Idle, Calls
  <2>3. Onward(a, r, s) \in FitAgents
    BY <1>1, OnwardFits
  <2>4. used' \in SUBSET RunIds /\ warned' \in SUBSET RunIds
    BY <2>1 DEF Types
  <2>5. agent' \in [Agents -> FitAgents]
    BY <1>2, <2>1, <2>2, <2>3 DEF Types
  <2> QED BY <1>5, <2>4, <2>5 DEF FinishRun, Types
<1>6. CASE Quit(a)
  BY <1>2, <1>6 DEF Quit, Types
<1>7. CASE Unanswered(a)
  <2>1. ClientTypes' /\ 0 \in 0 .. Quota
    BY <1>7, Constants, ReceiveTypes DEF Unanswered, Types, ClientTypes
  <2> QED BY <1>7, <2>1 DEF Unanswered, Types, ClientTypes
<1> QED BY <1>3, <1>4, <1>5, <1>6, <1>7

(* A request reaches the server.                                           *)
LEMMA SendTypes ==
  ASSUME Types, NEW a \in Agents, NEW t \in Threads, Send(a, t)
  PROVE  Types'
<1> DEFINE g == agent[a]
           stage == CASE g.pc = "activating" -> "activate"
                      [] g.pc \in {"gate", "renewing"} -> "validate"
                      [] g.pc \in {"flushing", "metering"} -> "check"
           run == CASE g.pc = "flushing" -> Head(g.todo)
                    [] g.pc = "metering" -> g.run
                    [] OTHER -> "none"
           token == IF g.pc = "activating" THEN g.token ELSE g.mine.token
           q == [Free EXCEPT !.stage = stage, !.device = DeviceOf[a], !.token = token,
                             !.run = run]
<1>1. /\ g \in Agent /\ g.mine \in LicenseState /\ g.pc \in Calls
      /\ g.todo \in Seq(RunIds)
      /\ g.pc \in {"renewing", "flushing", "metering"} => g.run \in RunIds
      /\ g.pc = "flushing" => g.todo # <<>>
  BY DEF Types, FitAgents, Agent, Send
<1>2. g.pc = "flushing" => Head(g.todo) \in RunIds
  BY <1>1, HeadTailProperties
<1>3. /\ stage \in {"activate", "validate", "check"}
      /\ run \in RunIds \cup {"none"} /\ (stage = "check" => run \in RunIds)
  BY <1>1, <1>2 DEF Calls
<1>4. token \in Token
  BY <1>1 DEF Agent, LicenseState
<1>5. Free \in FitRequests
  BY Constants DEF Free, FitRequests, Request, Token, NoPeriod, SubscriptionStates, Starts
<1>6. q \in FitRequests
  <2> HIDE DEF stage, run, token
  <2> QED BY <1>3, <1>4, <1>5, Constants DEF FitRequests, Request
<1>7. thread' \in [Threads -> FitRequests]
  BY <1>6 DEF Send, Types
<1>8. agent' \in [Agents -> FitAgents]
  BY DEF Send, Types, FitAgents, Agent
<1> QED BY <1>7, <1>8 DEF Send, Types

(* The steps of the server; the argument of Answer is always a quota.      *)
LEMMA ServeTypes ==
  ASSUME Types, NEW t \in Threads, Serve(t) \/ ThreadDies(t)
  PROVE  Types'
<1> DEFINE q == thread[t]
           left == QuotaLeft(lic, runs)
<1>1. /\ q \in Request /\ q.lic.start \in Starts /\ q.left \in 0 .. Quota
      /\ q.device \in Devices \cup {"none"} /\ q.token \in Token
      /\ q.stage \in {"check", "meter", "insert_run"} => q.run \in RunIds
  BY DEF Types, FitRequests, Request
<1>2. left \in 0 .. Quota /\ 0 \in 0 .. Quota
  BY QuotaLeftType, Constants DEF Types
<1>3. ASSUME NEW code, NEW n \in 0 .. Quota, Answer(t, code, n)
      PROVE  ClientTypes' /\ thread' \in [Threads -> FitRequests]
  BY <1>3, AnswerTypes
<1>4. ASSUME UNCHANGED <<store, agent, warned>>
      PROVE  ClientTypes'
  BY <1>4 DEF Types, ClientTypes
<1>5. ASSUME ClientTypes', thread' \in [Threads -> FitRequests],
             UNCHANGED <<now, lic, tokens, runs, used, asked, usable>>
      PROVE  Types'
  BY <1>5 DEF Types, ClientTypes
<1>6. CASE ActivateReads(t)
  <2> DEFINE r == [AtStage(t, "insert_device") EXCEPT
                     !.fresh = tokens[q.device] = 0,
                     !.ok = Allowed(lic, runs, now), !.left = left]
  <2>1. r \in FitRequests
    <3>1. (tokens[q.device] = 0) \in BOOLEAN /\ Allowed(lic, runs, now) \in BOOLEAN
      BY DEF Allowed
    <3> QED BY <1>1, <1>2, <3>1 DEF AtStage, FitRequests, Request
  <2>2. CASE Answer(t, "refused", 0)
    BY <1>2, <1>3, <1>5, <1>6, <2>2 DEF ActivateReads
  <2>3. CASE thread' = [thread EXCEPT ![t] = r] /\ UNCHANGED <<store, agent, warned>>
    <3>1. thread' \in [Threads -> FitRequests]
      BY <2>1, <2>3 DEF Types
    <3> QED BY <1>4, <1>5, <1>6, <2>3, <3>1 DEF ActivateReads
  <2>4. Answer(t, "refused", 0)
          \/ (thread' = [thread EXCEPT ![t] = r] /\ UNCHANGED <<store, agent, warned>>)
    BY <1>6 DEF ActivateReads
  <2> QED BY <2>2, <2>3, <2>4
<1>7. CASE ActivateCommits(t)
  <2>1. ClientTypes' /\ thread' \in [Threads -> FitRequests]
    BY <1>1, <1>2, <1>3, <1>7 DEF ActivateCommits
  <2>2. tokens' \in [Devices -> Token]
    BY <1>1, <1>7 DEF ActivateCommits, Types
  <2> QED BY <1>7, <2>1, <2>2 DEF ActivateCommits, Types, ClientTypes
<1>8. CASE Validate(t)
  <2>1. ClientTypes' /\ thread' \in [Threads -> FitRequests]
    BY <1>2, <1>3, <1>8 DEF Validate
  <2> QED BY <1>5, <1>8, <2>1 DEF Validate
<1>9. CASE MeterValidates(t)
  <2> DEFINE r == [AtStage(t, "meter") EXCEPT !.lic = lic, !.left = left]
  <2>1. r \in FitRequests
    BY <1>1, <1>2, <1>9 DEF MeterValidates, AtStage, FitRequests, Request, Types
  <2>2. CASE \E code : Answer(t, code, 0)
    BY <1>2, <1>3, <1>5, <1>9, <2>2 DEF MeterValidates
  <2>3. CASE thread' = [thread EXCEPT ![t] = r] /\ UNCHANGED <<store, agent, warned>>
    <3>1. thread' \in [Threads -> FitRequests]
      BY <2>1, <2>3 DEF Types
    <3> QED BY <1>4, <1>5, <1>9, <2>3, <3>1 DEF MeterValidates
  <2>4. (\E code : Answer(t, code, 0))
          \/ (thread' = [thread EXCEPT ![t] = r] /\ UNCHANGED <<store, agent, warned>>)
    BY <1>9 DEF MeterValidates
  <2> QED BY <2>2, <2>3, <2>4
<1>10. CASE MeterReads(t)
  <2> DEFINE r == AtStage(t, "insert_run")
  <2>1. r \in FitRequests
    BY <1>1, <1>10 DEF MeterReads, AtStage, FitRequests, Request
  <2>2. CASE Answer(t, "ok", q.left) \/ Answer(t, "refused", 0)
    BY <1>1, <1>2, <1>3, <1>5, <1>10, <2>2 DEF MeterReads
  <2>3. CASE thread' = [thread EXCEPT ![t] = r] /\ UNCHANGED <<store, agent, warned>>
    <3>1. thread' \in [Threads -> FitRequests]
      BY <2>1, <2>3 DEF Types
    <3> QED BY <1>4, <1>5, <1>10, <2>3, <3>1 DEF MeterReads
  <2>4. \/ Answer(t, "ok", q.left) \/ Answer(t, "refused", 0)
        \/ (thread' = [thread EXCEPT ![t] = r] /\ UNCHANGED <<store, agent, warned>>)
    BY <1>10 DEF MeterReads
  <2> QED BY <2>2, <2>3, <2>4
<1>11. CASE MeterInserts(t)
  <2>1. UNCHANGED <<now, lic, tokens, used, asked, usable>> /\ q.run \in RunIds
    BY <1>1, <1>11 DEF MeterInserts
  <2>2. CASE Answer(t, "refused", 0) /\ UNCHANGED runs
    BY <1>2, <1>3, <1>5, <2>1, <2>2
  <2>3. CASE /\ runs' = runs \cup {[id |-> q.run, day |-> now]}
             /\ Answer(t, "ok", QuotaLeft(q.lic, runs'))
    <3>1. runs' \in SUBSET Row /\ IsFiniteSet(runs')
      <4>1. [id |-> q.run, day |-> now] \in Row
        BY <2>1 DEF Types, Row
      <4>2. IsFiniteSet(runs')
        BY <2>3, FS_AddElement DEF Types
      <4> QED BY <2>3, <4>1, <4>2 DEF Types
    <3>2. ClientTypes' /\ thread' \in [Threads -> FitRequests]
      BY <1>3, <2>3, <3>1, QuotaLeftType
    <3> QED BY <2>1, <3>1, <3>2 DEF Types, ClientTypes
  <2> QED BY <1>11, <2>2, <2>3 DEF MeterInserts
<1>12. CASE ThreadDies(t)
  <2>1. ClientTypes' /\ thread' \in [Threads -> FitRequests]
    BY <1>2, <1>3, <1>12 DEF ThreadDies
  <2> QED BY <1>5, <1>12, <2>1 DEF ThreadDies
<1> QED BY <1>6, <1>7, <1>8, <1>9, <1>10, <1>11, <1>12 DEF Serve

LEMMA TypesKept ==
  ASSUME Types, [Next]_vars
  PROVE  Types'
<1>1. ASSUME NEW e \in Subscriptions, e.start <= now, lic' = e,
             usable' = LastUsable(e, now),
             UNCHANGED <<now, tokens, runs, thread, store, agent, used, warned, asked>>
      PROVE  Types'
  <2>1. e \in SubscriptionStates /\ e.start \in Starts
    BY LicenseAssumption DEF Starts, PeriodStarts
  <2>2. usable' \in Day
    BY <1>1, LastUsableType DEF Types
  <2> QED BY <1>1, <2>1, <2>2 DEF Types
<1>2. CASE Webhook
  BY <1>1, <1>2 DEF Webhook
<1>3. CASE Tick
  <2>1. now + 1 \in Day
    BY <1>3, Constants DEF Tick, Types, Day
  <2>2. usable' \in Day
    BY <1>3, <2>1, LastUsableType DEF Tick, Types
  <2> QED BY <1>3, <2>1, <2>2 DEF Tick, Types
<1>4. CASE UNCHANGED vars
  BY <1>4 DEF vars, Types
<1> QED BY <1>2, <1>3, <1>4, ClientStepTypes, SendTypes, ServeTypes DEF Next

-----------------------------------------------------------------------------
(* The billing periods.                                                    *)

(* What a step may do to the threads: one thread is given a new request,   *)
(* which begins before any look at the quota, goes on with a period of its *)
(* own or with the license's, or is done.                                  *)
ThreadStep(t) ==
  \E q \in FitRequests :
    /\ thread' = [thread EXCEPT ![t] = q]
    /\ q.lic \in {thread[t].lic, lic, NoPeriod}
    /\ q.stage = "insert_run" => q.lic = thread[t].lic

LEMMA AnswerIsThreadStep ==
  ASSUME NEW t, NEW code, NEW left, Answer(t, code, left)
  PROVE  ThreadStep(t) /\ thread' = [thread EXCEPT ![t] = Free]
<1>1. Free \in FitRequests
  BY Constants DEF Free, FitRequests, Request, Token, NoPeriod, SubscriptionStates, Starts
<1> QED BY <1>1 DEF Answer, ThreadStep, Free

LEMMA ServeIsThreadStep ==
  ASSUME Types, NEW t \in Threads, Serve(t) \/ ThreadDies(t)
  PROVE  ThreadStep(t) /\ UNCHANGED <<now, lic>>
<1>1. thread' \in [Threads -> FitRequests] /\ thread \in [Threads -> FitRequests]
  BY ServeTypes DEF Types
<1>2. ASSUME NEW r, thread' = [thread EXCEPT ![t] = r],
             r.lic \in {thread[t].lic, lic, NoPeriod},
             r.stage = "insert_run" => r.lic = thread[t].lic
      PROVE  ThreadStep(t)
  BY <1>1, <1>2 DEF ThreadStep
<1>3. thread[t] \in Request
  BY <1>1 DEF FitRequests
<1>4. CASE ActivateReads(t)
  BY <1>2, <1>3, <1>4, AnswerIsThreadStep DEF ActivateReads, AtStage, Request
<1>5. CASE ActivateCommits(t)
  BY <1>5, AnswerIsThreadStep DEF ActivateCommits
<1>6. CASE Validate(t)
  BY <1>6, AnswerIsThreadStep DEF Validate
<1>7. CASE MeterValidates(t)
  BY <1>2, <1>3, <1>7, AnswerIsThreadStep DEF MeterValidates, AtStage, Request
<1>8. CASE MeterReads(t)
  BY <1>2, <1>3, <1>8, AnswerIsThreadStep DEF MeterReads, AtStage, Request
<1>9. CASE MeterInserts(t)
  BY <1>9, AnswerIsThreadStep DEF MeterInserts
<1>10. CASE ThreadDies(t)
  BY <1>10, AnswerIsThreadStep DEF ThreadDies
<1> QED BY <1>4, <1>5, <1>6, <1>7, <1>8, <1>9, <1>10 DEF Serve

LEMMA SendIsThreadStep ==
  ASSUME Types, NEW a \in Agents, NEW t \in Threads, Send(a, t)
  PROVE  /\ ThreadStep(t) /\ UNCHANGED <<now, lic, runs>>
         /\ thread'[t].stage # "insert_run"
<1> DEFINE g == agent[a]
<1>1. thread' \in [Threads -> FitRequests] /\ thread \in [Threads -> FitRequests]
  BY SendTypes DEF Types
<1>2. /\ thread' = [thread EXCEPT ![t] = thread'[t]]
      /\ thread'[t].stage \in {"activate", "validate", "check"}
      /\ thread'[t].lic = NoPeriod
  BY <1>1 DEF Send, Calls, Free
<1> QED BY <1>1, <1>2 DEF Send, ThreadStep

LEMMA PeriodsKept ==
  ASSUME Types, Periods, [Next]_vars
  PROVE  Periods'
<1>1. now \in Nat /\ lic.start \in Nat /\ NoPeriod.start = 0
  BY Constants DEF Types, NoPeriod
<1>2. ASSUME NEW t \in Threads, ThreadStep(t), UNCHANGED <<now, lic>>
      PROVE  Periods'
  BY <1>1, <1>2 DEF ThreadStep, Periods, Types
<1>3. ASSUME NEW a \in Agents,
             StartActivation(a) \/ StartRun(a) \/ FinishRun(a) \/ Quit(a) \/ Unanswered(a)
      PROVE  Periods'
  BY <1>3 DEF StartActivation, StartRun, FinishRun, Quit, Unanswered, Periods
<1>4. CASE Webhook
  BY <1>4 DEF Webhook, Periods
<1>5. CASE Tick
  <2>1. \A t \in Threads : thread[t].lic.start \in Nat
    BY Constants DEF Types, FitRequests
  <2>2. now' = now + 1 /\ UNCHANGED <<lic, thread>>
    BY <1>5 DEF Tick
  <2>3. lic'.start <= now'
    BY <1>1, <2>2 DEF Periods
  <2>4. ASSUME NEW t \in Threads
        PROVE  thread'[t].lic.start <= now'
    BY <1>1, <2>1, <2>2 DEF Periods
  <2> QED BY <2>3, <2>4 DEF Periods
<1>6. CASE UNCHANGED vars
  BY <1>6 DEF vars, Periods
<1> QED BY <1>2, <1>3, <1>4, <1>5, <1>6, SendIsThreadStep, ServeIsThreadStep DEF Next

-----------------------------------------------------------------------------
(* The quota.                                                              *)

LEMMA RoomTypes ==
  ASSUME Types, NEW s
  PROVE  /\ IsFiniteSet(RunsIn(s)) /\ Cardinality(RunsIn(s)) \in Nat
         /\ IsFiniteSet(Inserting(s)) /\ Cardinality(Inserting(s)) \in Nat
         /\ Cardinality(Inserting(s)) <= Cardinality(Threads)
         /\ Cardinality(Inserting(s)') \in Nat
         /\ Cardinality(Inserting(s)') <= Cardinality(Threads)
<1>1. RunsIn(s) \in SUBSET runs
  BY DEF RunsIn
<1>2. Inserting(s) \in SUBSET Threads /\ Inserting(s)' \in SUBSET Threads
  BY DEF Inserting
<1> QED BY <1>1, <1>2, Sizes, LicenseAssumption DEF Types

LEMMA RoomInitially == Init => QuotaRoom
<1> SUFFICES ASSUME Init, NEW s \in Starts
             PROVE  Cardinality(RunsIn(s)) + Cardinality(Inserting(s))
                      <= Quota - 1 + Cardinality(Threads)
  BY DEF QuotaRoom
<1>1. RunsIn(s) = {}
  BY DEF Init, RunsIn
<1>2. Cardinality(RunsIn(s)) = 0
  BY <1>1, FS_EmptySet
<1>3. Cardinality(Inserting(s)) <= Cardinality(Threads) /\ Cardinality(Inserting(s)) \in Nat
  BY TypesInitially, RoomTypes
<1> QED BY <1>2, <1>3, Constants

(* Neither a run nor a request that will insert one is added.              *)
LEMMA RoomKeptIfQuiet ==
  ASSUME Types, Types', QuotaRoom, runs' = runs,
         \A s \in Starts : Inserting(s)' \subseteq Inserting(s)
  PROVE  QuotaRoom'
<1> SUFFICES ASSUME NEW s \in Starts
             PROVE  Cardinality(RunsIn(s)') + Cardinality(Inserting(s)')
                      <= Quota - 1 + Cardinality(Threads)
  BY DEF QuotaRoom
<1>1. RunsIn(s)' = RunsIn(s)
  BY DEF RunsIn, PeriodStarts
<1>2. Cardinality(Inserting(s)') <= Cardinality(Inserting(s))
  BY RoomTypes, FS_Subset
<1>3. Cardinality(Inserting(s)') \in Nat
  BY RoomTypes
<1>4. Cardinality(RunsIn(s)) + Cardinality(Inserting(s)) <= Quota - 1 + Cardinality(Threads)
  BY DEF QuotaRoom
<1> QED BY <1>1, <1>2, <1>3, <1>4, RoomTypes, Constants

(* A request that passes the look at the quota has found room: the runs of *)
(* every period from its own on are among those it has counted.            *)
LEMMA RoomKeptByMeterReads ==
  ASSUME Types, Types', QuotaRoom, NEW t \in Threads, MeterReads(t)
  PROVE  QuotaRoom'
<1> DEFINE q == thread[t]
<1>1. UNCHANGED runs /\ q \in Request
  BY DEF MeterReads, Types, FitRequests
<1>2. ASSUME NEW code, NEW left, Answer(t, code, left)
      PROVE  QuotaRoom'
  <2>1. thread' = [thread EXCEPT ![t] = Free]
    BY <1>2 DEF Answer
  <2>2. \A s \in Starts : Inserting(s)' \subseteq Inserting(s)
    BY <2>1 DEF Inserting, Free, Types
  <2> QED BY <1>1, <2>2, RoomKeptIfQuiet
<1>3. ASSUME thread' = [thread EXCEPT ![t] = AtStage(t, "insert_run")],
             QuotaLeft(q.lic, runs) # 0
      PROVE  QuotaRoom'
  <2> SUFFICES ASSUME NEW s \in Starts
               PROVE  Cardinality(RunsIn(s)') + Cardinality(Inserting(s)')
                        <= Quota - 1 + Cardinality(Threads)
    BY DEF QuotaRoom
  <2>1. RunsIn(s)' = RunsIn(s)
    BY <1>1 DEF RunsIn, PeriodStarts
  <2>2. Cardinality(RunsIn(s)) \in Nat /\ Cardinality(Inserting(s)) \in Nat
    BY RoomTypes
  <2>3. CASE q.lic.start <= s
    <3>1. RunsIn(s) \in SUBSET RunsSince(q.lic, runs)
      <4>1. \A x \in runs : x.day \in Nat
        BY Constants DEF Types, Row
      <4>2. q.lic.start \in Nat /\ s \in Nat
        BY Constants DEF Types, FitRequests
      <4> QED BY <2>3, <4>1, <4>2 DEF RunsIn, RunsSince
    <3>2. IsFiniteSet(RunsSince(q.lic, runs))
      BY Sizes DEF RunsSince, Types
    <3>3. Cardinality(RunsIn(s)) <= Cardinality(RunsSince(q.lic, runs))
      BY <3>1, <3>2, Sizes
    <3>4. Cardinality(RunsSince(q.lic, runs)) < Quota
      BY <1>3 DEF QuotaLeft
    <3>5. Cardinality(Inserting(s)') \in Nat /\ Cardinality(Inserting(s)') <= Cardinality(Threads)
      BY RoomTypes
    <3>6. Cardinality(RunsSince(q.lic, runs)) \in Nat
      BY <3>2, FS_CardinalityType
    <3> QED BY <2>1, <2>2, <3>3, <3>4, <3>5, <3>6, Constants
  <2>4. CASE ~(q.lic.start <= s)
    <3>1. Inserting(s)' \subseteq Inserting(s)
      BY <1>1, <1>3, <2>4 DEF Inserting, AtStage, Request, Types
    <3>2. Cardinality(Inserting(s)') <= Cardinality(Inserting(s)) /\ Cardinality(Inserting(s)') \in Nat
      BY <3>1, RoomTypes, FS_Subset
    <3>3. Cardinality(RunsIn(s)) + Cardinality(Inserting(s)) <= Quota - 1 + Cardinality(Threads)
      BY DEF QuotaRoom
    <3> QED BY <2>1, <2>2, <3>2, <3>3, Constants
  <2> QED BY <2>3, <2>4
<1> QED BY <1>2, <1>3 DEF MeterReads

(* An insert turns a request into a run of today.  A period before the one *)
(* that the request has read is over by now and gets no run.               *)
LEMMA RoomKeptByMeterInserts ==
  ASSUME Types, Types', Periods, QuotaRoom, NEW t \in Threads, MeterInserts(t)
  PROVE  QuotaRoom'
<1> DEFINE q == thread[t]
           x == [id |-> q.run, day |-> now]
<1>1. /\ q \in Request /\ q.stage = "insert_run" /\ now \in Nat
      /\ q.lic.start \in Starts /\ q.lic.start \in Nat /\ q.lic.start <= now
  BY Constants DEF MeterInserts, Types, FitRequests, Periods
<1>2. thread' = [thread EXCEPT ![t] = Free]
  BY DEF MeterInserts, Answer
<1>3. CASE runs' = runs
  <2>1. \A s \in Starts : Inserting(s)' \subseteq Inserting(s)
    BY <1>2 DEF Inserting, Free, Types
  <2> QED BY <1>3, <2>1, RoomKeptIfQuiet
<1>4. CASE runs' = runs \cup {x}
  <2> SUFFICES ASSUME NEW s \in Starts
               PROVE  Cardinality(RunsIn(s)') + Cardinality(Inserting(s)')
                        <= Quota - 1 + Cardinality(Threads)
    BY DEF QuotaRoom
  <2> DEFINE n == Cardinality(RunsIn(s))
             n1 == Cardinality(RunsIn(s)')
             i == Cardinality(Inserting(s))
             i1 == Cardinality(Inserting(s)')
  <2>1. n \in Nat /\ i \in Nat /\ i1 \in Nat /\ IsFiniteSet(RunsIn(s)) /\ s \in Nat
    BY RoomTypes, Constants
  <2>2. n + i <= Quota - 1 + Cardinality(Threads)
    BY DEF QuotaRoom
  <2>3. CASE q.lic.start <= s
    <3>1. Inserting(s)' = Inserting(s) \ {t} /\ t \in Inserting(s)
      BY <1>1, <1>2, <2>3 DEF Inserting, Free, Types
    <3>2. i1 = i - 1
      BY <3>1, RoomTypes, FS_RemoveElement
    <3>3. RunsIn(s)' \in SUBSET (RunsIn(s) \cup {x})
      BY <1>4 DEF RunsIn, PeriodStarts
    <3>4. IsFiniteSet(RunsIn(s) \cup {x}) /\ Cardinality(RunsIn(s) \cup {x}) \in {n, n + 1}
      <4> HIDE DEF x
      <4> QED BY <2>1, FS_AddElement
    <3>5. n1 \in Nat /\ n1 <= Cardinality(RunsIn(s) \cup {x})
             /\ Cardinality(RunsIn(s) \cup {x}) \in Nat
      BY <3>3, <3>4, Sizes
    <3>6. n1 + i1 <= Quota - 1 + Cardinality(Threads)
      <4> HIDE DEF n, n1, i, i1
      <4> QED BY <2>1, <2>2, <3>2, <3>4, <3>5, Constants
    <3> QED BY <3>6
  <2>4. CASE ~(q.lic.start <= s)
    <3>1. Inserting(s)' = Inserting(s)
      BY <1>1, <1>2, <2>4 DEF Inserting, Free, Types
    <3>2. q.lic.start \in PeriodStarts /\ q.lic.start > s /\ ~(now < q.lic.start)
      BY <1>1, <2>1, <2>4 DEF Starts
    <3>3. RunsIn(s)' = RunsIn(s)
      BY <1>4, <3>2 DEF RunsIn, PeriodStarts
    <3> QED BY <2>2, <3>1, <3>3
  <2> QED BY <2>3, <2>4
<1> QED BY <1>3, <1>4 DEF MeterInserts

LEMMA RoomKept ==
  ASSUME Types, Types', Periods, QuotaRoom, [Next]_vars
  PROVE  QuotaRoom'
<1>1. ASSUME runs' = runs, thread' = thread
      PROVE  QuotaRoom'
  BY <1>1, RoomKeptIfQuiet DEF Inserting
<1>2. ASSUME NEW t \in Threads, runs' = runs,
             thread' = [thread EXCEPT ![t] = thread'[t]],
             thread'[t].stage # "insert_run"
      PROVE  QuotaRoom'
  <2>1. \A s \in Starts : Inserting(s)' \subseteq Inserting(s)
    BY <1>2 DEF Inserting, Types
  <2> QED BY <1>2, <2>1, RoomKeptIfQuiet
<1>3. ASSUME NEW t \in Threads, runs' = runs, NEW code, NEW left, Answer(t, code, left)
      PROVE  QuotaRoom'
  BY <1>2, <1>3 DEF Answer, Types, Free
<1>4. ASSUME NEW a \in Agents,
             StartActivation(a) \/ StartRun(a) \/ FinishRun(a) \/ Quit(a) \/ Unanswered(a)
      PROVE  QuotaRoom'
  BY <1>1, <1>4 DEF StartActivation, StartRun, FinishRun, Quit, Unanswered
<1>5. ASSUME NEW a \in Agents, NEW t \in Threads, Send(a, t)
      PROVE  QuotaRoom'
  BY <1>2, <1>5, SendIsThreadStep DEF ThreadStep, Types
<1>6. ASSUME NEW t \in Threads, ActivateReads(t)
      PROVE  QuotaRoom'
  <2>1. CASE Answer(t, "refused", 0)
    BY <1>3, <1>6, <2>1 DEF ActivateReads
  <2>2. CASE ~Answer(t, "refused", 0)
    <3>1. thread' = [thread EXCEPT ![t] = [AtStage(t, "insert_device") EXCEPT
                       !.fresh = tokens[thread[t].device] = 0,
                       !.ok = Allowed(lic, runs, now), !.left = QuotaLeft(lic, runs)]]
      BY <1>6, <2>2 DEF ActivateReads
    <3>2. thread[t] \in Request /\ runs' = runs
      BY <1>6 DEF ActivateReads, Types, FitRequests
    <3>3. thread'[t].stage = "insert_device"
      BY <3>1, <3>2 DEF AtStage, Types, Request
    <3>4. thread' = [thread EXCEPT ![t] = thread'[t]]
      BY <3>1 DEF Types
    <3> QED BY <1>2, <3>2, <3>3, <3>4
  <2> QED BY <2>1, <2>2
<1>7. ASSUME NEW t \in Threads, ActivateCommits(t) \/ Validate(t) \/ ThreadDies(t)
      PROVE  QuotaRoom'
  BY <1>3, <1>7 DEF ActivateCommits, Validate, ThreadDies
<1>8. ASSUME NEW t \in Threads, MeterValidates(t)
      PROVE  QuotaRoom'
  <2>1. CASE \E code : Answer(t, code, 0)
    BY <1>3, <1>8, <2>1 DEF MeterValidates
  <2>2. CASE ~\E code : Answer(t, code, 0)
    <3>1. thread'[t].stage = "meter"
      BY <1>8, <2>2 DEF MeterValidates, AtStage, Types, FitRequests, Request
    <3>2. thread' = [thread EXCEPT ![t] = thread'[t]] /\ runs' = runs
      BY <1>8, <2>2 DEF MeterValidates, Types
    <3> QED BY <1>2, <3>1, <3>2
  <2> QED BY <2>1, <2>2
<1>9. CASE Webhook \/ Tick \/ UNCHANGED vars
  BY <1>1, <1>9 DEF Webhook, Tick, vars
<1> QED BY <1>4, <1>5, <1>6, <1>7, <1>8, <1>9, RoomKeptByMeterReads, RoomKeptByMeterInserts
        DEF Next, Serve

-----------------------------------------------------------------------------
(* The devices.  A token that is stored is never 0, a request that did not *)
(* find its device new finds it in the table when it commits, and DeviceRoom *)
(* counts in the requests that have found room for a device and will add it. *)
Tokened(g) == g.pc = "activating" => g.token # 0
Settles(q, stored) ==
  /\ q.stage \in {"activate", "insert_device"} => q.token # 0
  /\ q.stage = "insert_device" /\ ~q.fresh /\ q.device \in Devices => stored[q.device] # 0
Activations ==
  /\ \A a \in Agents : Tokened(agent[a])
  /\ \A t \in Threads : Settles(thread[t], tokens)

Registering == {t \in Threads : thread[t].stage = "insert_device" /\ thread[t].fresh}
DeviceRoom ==
  Cardinality(Activated) + Cardinality(Registering) <= DeviceLimit - 1 + Cardinality(Threads)

DeviceInv == Activations /\ DeviceRoom

LEMMA IdleIsTokened == Tokened(Idle)
BY DEF Tokened, Idle

LEMMA OnwardIsTokened == \A a, r, s : Tokened(Onward(a, r, s))
BY DEF Tokened, Onward, Idle

LEMMA BlockedIsTokened ==
  ASSUME ClientTypes, NEW a \in Agents, Blocked(a), \A b \in Agents : Tokened(agent[b])
  PROVE  \A b \in Agents : Tokened(agent'[b])
BY IdleIsTokened DEF Blocked, ClientTypes

LEMMA ReceiveIsTokened ==
  ASSUME ClientTypes, NEW a \in Agents, NEW code, NEW left, Receive(a, code, left),
         \A b \in Agents : Tokened(agent[b])
  PROVE  \A b \in Agents : Tokened(agent'[b])
<1>1. ASSUME NEW g, Tokened(g), agent' = [agent EXCEPT ![a] = g]
      PROVE  \A b \in Agents : Tokened(agent'[b])
  BY <1>1 DEF ClientTypes
<1>2. agent[a] \in Agent
  BY DEF ClientTypes, FitAgents
<1>3. CASE ReceiveActivation(a, code, left)
  BY <1>1, <1>3, IdleIsTokened DEF ReceiveActivation
<1>4. CASE ReceiveValidation(a, code, left)
  BY <1>1, <1>4, OnwardIsTokened, BlockedIsTokened DEF ReceiveValidation
<1>5. CASE ReceiveFlush(a, code, left)
  <2> DEFINE g == agent[a]
             kept == IF code = "ok" THEN g.kept ELSE Append(g.kept, Head(g.todo))
             quota == IF code = "ok" THEN left ELSE g.mine.quota
             s == [g.mine EXCEPT !.pending = kept, !.quota = quota]
             before == [g EXCEPT !.on = "none", !.todo = Tail(g.todo), !.kept = kept,
                                 !.mine.quota = quota]
             after == [Idle EXCEPT !.pc = "metering", !.run = g.run, !.mine = s]
  <2>1. Tokened(after)
    BY DEF Tokened, Idle
  <2>2. g.pc = "flushing"
    BY <1>5 DEF ReceiveFlush
  <2>3. before.pc = "flushing"
    BY <1>2, <2>2 DEF Agent
  <2>4. Tokened(before)
    BY <2>3 DEF Tokened
  <2>5. \/ agent' = [agent EXCEPT ![a] = before]
        \/ agent' = [agent EXCEPT ![a] = after]
        \/ Blocked(a)
    BY <1>5, Zenon DEF ReceiveFlush
  <2> HIDE DEF before, after
  <2> QED BY <1>1, <2>1, <2>4, <2>5, BlockedIsTokened
<1>6. CASE ReceiveMeter(a, code, left)
  BY <1>1, <1>6, IdleIsTokened, BlockedIsTokened DEF ReceiveMeter
<1> QED BY <1>3, <1>4, <1>5, <1>6 DEF Receive

LEMMA AnswerIsTokened ==
  ASSUME Types, NEW t \in Threads, NEW code, NEW left, Answer(t, code, left),
         \A b \in Agents : Tokened(agent[b])
  PROVE  (\A b \in Agents : Tokened(agent'[b])) /\ \A stored : Settles(thread'[t], stored)
<1>1. ClientTypes
  BY DEF Types, ClientTypes
<1>2. thread'[t] = Free
  BY DEF Answer, Types
<1>3. \A stored : Settles(Free, stored)
  BY DEF Settles, Free
<1>4. (\E a \in Agents : Receive(a, code, left)) \/ UNCHANGED <<store, agent, warned>>
  BY Zenon DEF Answer
<1>5. \A b \in Agents : Tokened(agent'[b])
  BY <1>1, <1>4, ReceiveIsTokened
<1> QED BY <1>2, <1>3, <1>5

(* Nothing but the commit of an activation changes the table.              *)
LEMMA ActivationsKept ==
  ASSUME Types, Types', Activations, [Next]_vars
  PROVE  Activations'
<1>1. ASSUME NEW t \in Threads, thread' = [thread EXCEPT ![t] = thread'[t]],
             Settles(thread'[t], tokens'), \A b \in Agents : Tokened(agent'[b]),
             \A d \in Devices : tokens[d] # 0 => tokens'[d] # 0
      PROVE  Activations'
  <2>1. ASSUME NEW u \in Threads
        PROVE  Settles(thread'[u], tokens')
    <3>1. CASE u = t
      BY <1>1, <3>1
    <3>2. CASE u # t
      <4>1. thread'[u] = thread[u]
        BY <1>1, <3>2 DEF Types
      <4>2. Settles(thread[u], tokens)
        BY DEF Activations
      <4> QED BY <1>1, <4>1, <4>2 DEF Settles
    <3> QED BY <3>1, <3>2
  <2> QED BY <1>1, <2>1 DEF Activations
<1>2. ASSUME UNCHANGED <<thread, tokens>>, \A b \in Agents : Tokened(agent'[b])
      PROVE  Activations'
  BY <1>2 DEF Activations
<1>3. ASSUME NEW t \in Threads, NEW code, NEW left, Answer(t, code, left),
             \A d \in Devices : tokens[d] # 0 => tokens'[d] # 0
      PROVE  Activations'
  <2>1. \A b \in Agents : Tokened(agent[b])
    BY DEF Activations
  <2>2. (\A b \in Agents : Tokened(agent'[b])) /\ \A stored : Settles(thread'[t], stored)
    BY <1>3, <2>1, AnswerIsTokened
  <2>3. thread' = [thread EXCEPT ![t] = thread'[t]]
    BY <1>3 DEF Answer, Types
  <2> QED BY <1>1, <1>3, <2>2, <2>3
<1>4. ASSUME NEW a \in Agents,
             StartActivation(a) \/ StartRun(a) \/ FinishRun(a) \/ Quit(a)
      PROVE  Activations'
  <2>1. \A b \in Agents : Tokened(agent[b])
    BY DEF Activations
  <2>2. ASSUME NEW g, Tokened(g), agent' = [agent EXCEPT ![a] = g]
        PROVE  \A b \in Agents : Tokened(agent'[b])
    BY <2>1, <2>2 DEF Types
  <2>3. UNCHANGED <<thread, tokens>>
    BY <1>4 DEF StartActivation, StartRun, FinishRun, Quit
  <2>4. CASE StartActivation(a)
    <3>1. asked + 1 # 0
      BY Constants DEF Types
    <3>2. Tokened([Idle EXCEPT !.pc = "activating", !.token = asked + 1])
      BY <3>1 DEF Tokened, Idle
    <3> QED BY <1>2, <2>2, <2>3, <2>4, <3>2 DEF StartActivation
  <2>5. \A r, s : /\ Tokened([Idle EXCEPT !.pc = "gate", !.mine = s])
                  /\ Tokened([Idle EXCEPT !.pc = "renewing", !.run = r, !.mine = s])
    BY DEF Tokened, Idle
  <2>6. CASE StartRun(a)
    BY <1>2, <2>2, <2>3, <2>5, <2>6, OnwardIsTokened DEF StartRun
  <2>7. CASE FinishRun(a)
    <3>1. PICK g : Tokened(g) /\ agent' = [agent EXCEPT ![a] = g]
      BY <2>5, <2>7, OnwardIsTokened, IdleIsTokened DEF FinishRun
    <3> QED BY <1>2, <2>2, <2>3, <3>1
  <2>8. CASE Quit(a)
    BY <1>2, <2>2, <2>3, <2>8, IdleIsTokened DEF Quit
  <2> QED BY <1>4, <2>4, <2>6, <2>7, <2>8
<1>5. ASSUME NEW a \in Agents, Unanswered(a)
      PROVE  Activations'
  <2>1. ClientTypes /\ \A b \in Agents : Tokened(agent[b])
    BY DEF Types, ClientTypes, Activations
  <2>2. \A b \in Agents : Tokened(agent'[b])
    BY <1>5, <2>1, ReceiveIsTokened DEF Unanswered
  <2> QED BY <1>2, <1>5, <2>2 DEF Unanswered
<1>6. ASSUME NEW a \in Agents, NEW t \in Threads, Send(a, t)
      PROVE  Activations'
  <2>1. /\ thread' = [thread EXCEPT ![t] = thread'[t]] /\ tokens' = tokens
        /\ agent' = [agent EXCEPT ![a].on = t]
        /\ thread'[t].stage # "insert_device"
        /\ thread'[t].stage = "activate" => agent[a].pc = "activating"
        /\ agent[a].pc = "activating" => thread'[t].token = agent[a].token
    BY <1>6 DEF Send, Types, Free, Calls
  <2>2. Tokened(agent[a]) /\ \A b \in Agents : Tokened(agent[b])
    BY DEF Activations
  <2>3. Settles(thread'[t], tokens')
    BY <2>1, <2>2 DEF Settles, Tokened
  <2>4. \A b \in Agents : Tokened(agent'[b])
    BY <2>1, <2>2 DEF Tokened, Types, FitAgents, Agent
  <2> QED BY <1>1, <2>1, <2>3, <2>4
<1>7. ASSUME NEW t \in Threads, ActivateReads(t)
      PROVE  Activations'
  <2>1. CASE Answer(t, "refused", 0)
    BY <1>3, <1>7, <2>1 DEF ActivateReads
  <2>2. CASE ~Answer(t, "refused", 0)
    <3> DEFINE q == thread[t]
    <3>1. /\ thread' = [thread EXCEPT ![t] = [AtStage(t, "insert_device") EXCEPT
                       !.fresh = tokens[q.device] = 0,
                       !.ok = Allowed(lic, runs, now), !.left = QuotaLeft(lic, runs)]]
          /\ UNCHANGED <<agent, tokens>> /\ q.stage = "activate"
      BY <1>7, <2>2 DEF ActivateReads
    <3>2. q \in Request /\ q.token # 0
      BY <3>1 DEF Types, FitRequests, Activations, Settles
    <3>3. /\ thread'[t].token = q.token /\ thread'[t].device = q.device
          /\ thread'[t].fresh = (tokens[q.device] = 0)
          /\ thread' = [thread EXCEPT ![t] = thread'[t]]
      BY <3>1, <3>2 DEF AtStage, Types, Request
    <3>4. Settles(thread'[t], tokens')
      BY <3>1, <3>2, <3>3 DEF Settles
    <3> QED BY <1>1, <3>1, <3>3, <3>4 DEF Activations
  <2> QED BY <2>1, <2>2
<1>8. ASSUME NEW t \in Threads, ActivateCommits(t)
      PROVE  Activations'
  <2>1. thread[t].token # 0 /\ tokens \in [Devices -> Token]
    BY <1>8 DEF ActivateCommits, Activations, Settles, Types
  <2>2. \A d \in Devices : tokens[d] # 0 => tokens'[d] # 0
    BY <1>8, <2>1 DEF ActivateCommits
  <2> QED BY <1>3, <1>8, <2>2 DEF ActivateCommits
<1>9. ASSUME NEW t \in Threads, Validate(t) \/ ThreadDies(t) \/ MeterInserts(t)
      PROVE  Activations'
  BY <1>3, <1>9 DEF Validate, ThreadDies, MeterInserts
<1>10. ASSUME NEW t \in Threads, MeterValidates(t) \/ MeterReads(t)
       PROVE  Activations'
  <2>1. CASE \E code, left : Answer(t, code, left)
    BY <1>3, <1>10, <2>1 DEF MeterValidates, MeterReads
  <2>2. CASE ~\E code, left : Answer(t, code, left)
    <3>1. /\ thread'[t].stage \in {"meter", "insert_run"} /\ UNCHANGED <<agent, tokens>>
          /\ thread' = [thread EXCEPT ![t] = thread'[t]]
      <4>1. /\ thread \in [Threads -> FitRequests] /\ thread[t] \in Request
            /\ UNCHANGED <<agent, tokens>>
        BY <1>10, <2>2 DEF MeterValidates, MeterReads, Types, FitRequests
      <4>2. CASE MeterValidates(t)
        BY <2>2, <4>1, <4>2 DEF MeterValidates, AtStage, Request
      <4>3. CASE MeterReads(t)
        BY <2>2, <4>1, <4>3 DEF MeterReads, AtStage, Request
      <4> QED BY <1>10, <4>2, <4>3
    <3>2. Settles(thread'[t], tokens')
      BY <3>1 DEF Settles
    <3> QED BY <1>1, <3>1, <3>2 DEF Activations
  <2> QED BY <2>1, <2>2
<1>11. CASE Webhook \/ Tick \/ UNCHANGED vars
  BY <1>2, <1>11 DEF Webhook, Tick, vars, Activations
<1> QED BY <1>4, <1>5, <1>6, <1>7, <1>8, <1>9, <1>10, <1>11 DEF Next, Serve

LEMMA DeviceRoomTypes ==
  /\ IsFiniteSet(Activated) /\ Cardinality(Activated) \in Nat
  /\ IsFiniteSet(Registering) /\ Cardinality(Registering) \in Nat
  /\ Cardinality(Registering) <= Cardinality(Threads)
<1>1. Activated \in SUBSET Devices /\ Registering \in SUBSET Threads
  BY DEF Activated, Registering
<1> QED BY <1>1, LicenseAssumption, Sizes

LEMMA DeviceRoomTypesNext ==
  /\ IsFiniteSet(Activated') /\ Cardinality(Activated') \in Nat
  /\ IsFiniteSet(Registering') /\ Cardinality(Registering') \in Nat
  /\ Cardinality(Registering') <= Cardinality(Threads)
<1>1. Activated' \in SUBSET Devices /\ Registering' \in SUBSET Threads
  BY DEF Activated, Registering
<1> QED BY <1>1, LicenseAssumption, Sizes

LEMMA DeviceRoomKeptIfQuiet ==
  ASSUME DeviceRoom, Activated' \subseteq Activated, Registering' \subseteq Registering
  PROVE  DeviceRoom'
<1>1. /\ Cardinality(Activated') <= Cardinality(Activated)
      /\ Cardinality(Registering') <= Cardinality(Registering)
  BY DeviceRoomTypes, FS_Subset
<1>2. Cardinality(Activated) + Cardinality(Registering) <= DeviceLimit - 1 + Cardinality(Threads)
  BY DEF DeviceRoom
<1>3. Cardinality(Activated') + Cardinality(Registering')
        <= DeviceLimit - 1 + Cardinality(Threads)
  BY <1>1, <1>2, DeviceRoomTypes, DeviceRoomTypesNext, Constants, LicenseAssumption
<1> QED BY <1>3 DEF DeviceRoom

(* An activation that found room found fewer devices than the limit; all   *)
(* threads together can then be about to add one.                          *)
LEMMA DeviceRoomKeptByActivateReads ==
  ASSUME Types, Types', DeviceRoom, NEW t \in Threads, ActivateReads(t)
  PROVE  DeviceRoom'
<1> DEFINE d == thread[t].device
<1>1. Activated' = Activated
  BY DEF ActivateReads, Activated
<1>2. CASE Answer(t, "refused", 0)
  <2>1. Registering' \subseteq Registering
    BY <1>2 DEF Answer, Registering, Free, Types
  <2> QED BY <1>1, <2>1, DeviceRoomKeptIfQuiet
<1>3. CASE ~Answer(t, "refused", 0)
  <2>1. thread' = [thread EXCEPT ![t] = [AtStage(t, "insert_device") EXCEPT
                     !.fresh = tokens[d] = 0,
                     !.ok = Allowed(lic, runs, now), !.left = QuotaLeft(lic, runs)]]
    BY <1>3 DEF ActivateReads
  <2>2. thread'[t].fresh = (tokens[d] = 0) /\ \A u \in Threads \ {t} : thread'[u] = thread[u]
    BY <2>1 DEF AtStage, Types, FitRequests, Request
  <2>3. CASE tokens[d] = 0
    <3>1. ~(Cardinality({e \in Devices : tokens[e] # 0}) >= DeviceLimit)
      BY <1>3, <2>3 DEF ActivateReads
    <3>2. ~(Cardinality(Activated) >= DeviceLimit)
      BY <3>1 DEF Activated
    <3>3. Cardinality(Activated') + Cardinality(Registering')
            <= DeviceLimit - 1 + Cardinality(Threads)
      BY <1>1, <3>2, DeviceRoomTypes, DeviceRoomTypesNext, Constants, LicenseAssumption
    <3> QED BY <3>3 DEF DeviceRoom
  <2>4. CASE tokens[d] # 0
    <3>1. Registering' \subseteq Registering
      BY <2>2, <2>4 DEF Registering
    <3> QED BY <1>1, <3>1, DeviceRoomKeptIfQuiet
  <2> QED BY <2>3, <2>4
<1> QED BY <1>2, <1>3

(* The commit turns a request into a device of the table, or replaces the  *)
(* token of one that is there.                                             *)
LEMMA DeviceRoomKeptByActivateCommits ==
  ASSUME Types, Types', Activations, DeviceRoom, NEW t \in Threads, ActivateCommits(t)
  PROVE  DeviceRoom'
<1> DEFINE q == thread[t]
<1>1. /\ thread' = [thread EXCEPT ![t] = Free] /\ q.stage = "insert_device"
      /\ thread \in [Threads -> FitRequests] /\ tokens \in [Devices -> Token]
  BY DEF ActivateCommits, Answer, Types
<1>2. Registering' = Registering \ {t}
  BY <1>1 DEF Registering, Free
<1>3. CASE tokens' = tokens \/ q.device \notin Devices \/ ~q.fresh
  <2>1. Activated' \subseteq Activated
    BY <1>1, <1>3 DEF ActivateCommits, Activated, Activations, Settles
  <2> QED BY <1>2, <2>1, DeviceRoomKeptIfQuiet
<1>4. CASE tokens' = [tokens EXCEPT ![q.device] = q.token] /\ q.device \in Devices /\ q.fresh
  <2>1. Activated' \in SUBSET (Activated \cup {q.device})
    BY <1>1, <1>4 DEF Activated
  <2>2. t \in Registering
    BY <1>1, <1>4 DEF Registering
  <2>3. Cardinality(Registering') = Cardinality(Registering) - 1
    BY <1>2, <2>2, DeviceRoomTypes, FS_RemoveElement
  <2>4. /\ IsFiniteSet(Activated \cup {q.device})
        /\ Cardinality(Activated \cup {q.device}) \in
             {Cardinality(Activated), Cardinality(Activated) + 1}
    <3> HIDE DEF q
    <3> QED BY DeviceRoomTypes, FS_AddElement
  <2>5. /\ Cardinality(Activated') <= Cardinality(Activated \cup {q.device})
        /\ Cardinality(Activated \cup {q.device}) \in Nat
    BY <2>1, <2>4, Sizes
  <2>6. Cardinality(Activated) + Cardinality(Registering)
          <= DeviceLimit - 1 + Cardinality(Threads)
    BY DEF DeviceRoom
  <2> DEFINE c == Cardinality(Activated \cup {q.device})
             a0 == Cardinality(Activated)
             a1 == Cardinality(Activated')
             r0 == Cardinality(Registering)
             r1 == Cardinality(Registering')
  <2>7. a1 + r1 <= DeviceLimit - 1 + Cardinality(Threads)
    <3>1. a0 \in Nat /\ a1 \in Nat /\ r0 \in Nat /\ r1 \in Nat /\ c \in Nat
      BY <2>5, DeviceRoomTypes, DeviceRoomTypesNext
    <3>2. c \in {a0, a0 + 1} /\ a1 <= c /\ r1 = r0 - 1
      BY <2>3, <2>4, <2>5
    <3>3. a0 + r0 <= DeviceLimit - 1 + Cardinality(Threads)
      BY <2>6
    <3> HIDE DEF c, a0, a1, r0, r1
    <3> QED BY <3>1, <3>2, <3>3, Constants, LicenseAssumption
  <2> QED BY <2>7 DEF DeviceRoom
<1>5. tokens' = tokens \/ tokens' = [tokens EXCEPT ![q.device] = q.token]
  BY DEF ActivateCommits
<1> QED BY <1>3, <1>4, <1>5

LEMMA DeviceRoomKept ==
  ASSUME Types, Types', Activations, DeviceRoom, [Next]_vars
  PROVE  DeviceRoom'
<1>1. ASSUME UNCHANGED <<tokens, thread>>
      PROVE  DeviceRoom'
  BY <1>1, DeviceRoomKeptIfQuiet DEF Activated, Registering
<1>2. ASSUME NEW t \in Threads, UNCHANGED tokens, thread' = [thread EXCEPT ![t] = thread'[t]],
             thread'[t].stage # "insert_device"
      PROVE  DeviceRoom'
  BY <1>2, DeviceRoomKeptIfQuiet DEF Activated, Registering, Types
<1>3. ASSUME NEW t \in Threads, UNCHANGED tokens, NEW code, NEW left, Answer(t, code, left)
      PROVE  DeviceRoom'
  BY <1>2, <1>3 DEF Answer, Free, Types
<1>4. ASSUME NEW a \in Agents,
             StartActivation(a) \/ StartRun(a) \/ FinishRun(a) \/ Quit(a) \/ Unanswered(a)
      PROVE  DeviceRoom'
  BY <1>1, <1>4 DEF StartActivation, StartRun, FinishRun, Quit, Unanswered
<1>5. ASSUME NEW a \in Agents, NEW t \in Threads, Send(a, t)
      PROVE  DeviceRoom'
  <2>1. /\ thread' = [thread EXCEPT ![t] = thread'[t]] /\ tokens' = tokens
        /\ thread'[t].stage # "insert_device"
    BY <1>5 DEF Send, Types, Free, Calls
  <2> QED BY <1>2, <2>1
<1>6. ASSUME NEW t \in Threads, Validate(t) \/ ThreadDies(t) \/ MeterInserts(t)
      PROVE  DeviceRoom'
  BY <1>3, <1>6 DEF Validate, ThreadDies, MeterInserts
<1>7. ASSUME NEW t \in Threads, MeterValidates(t) \/ MeterReads(t)
      PROVE  DeviceRoom'
  <2>1. CASE \E code, left : Answer(t, code, left)
    BY <1>3, <1>7, <2>1 DEF MeterValidates, MeterReads
  <2>2. CASE ~\E code, left : Answer(t, code, left)
    <3>1. /\ thread \in [Threads -> FitRequests] /\ thread[t] \in Request
          /\ UNCHANGED tokens
      BY <1>7 DEF MeterValidates, MeterReads, Types, FitRequests
    <3>2. CASE MeterValidates(t)
      BY <1>2, <2>2, <3>1, <3>2 DEF MeterValidates, AtStage, Request
    <3>3. CASE MeterReads(t)
      BY <1>2, <2>2, <3>1, <3>3 DEF MeterReads, AtStage, Request
    <3> QED BY <1>7, <3>2, <3>3
  <2> QED BY <2>1, <2>2
<1>8. CASE Webhook \/ Tick \/ UNCHANGED vars
  BY <1>1, <1>8 DEF Webhook, Tick, vars
<1> QED BY <1>4, <1>5, <1>6, <1>7, <1>8, DeviceRoomKeptByActivateReads,
           DeviceRoomKeptByActivateCommits DEF Next, Serve

LEMMA DevicesInitially == Init => DeviceInv
<1> SUFFICES ASSUME Init PROVE DeviceInv
  OBVIOUS
<1>1. Activations
  BY IdleIsTokened DEF Init, Activations, Settles, Free
<1>2. Activated = {} /\ Registering = {}
  BY DEF Init, Activated, Registering, Free
<1>3. Cardinality({}) = 0
  BY FS_EmptySet
<1>4. DeviceRoom
  BY <1>2, <1>3, Constants, LicenseAssumption DEF DeviceRoom
<1> QED BY <1>1, <1>4 DEF DeviceInv

-----------------------------------------------------------------------------
(* Theorems.                                                               *)

(* The types, the order of the billing periods and the room in the quota   *)
(* together are inductive.                                                 *)
THEOREM MeterInvHolds == Spec => []MeterInv
<1>1. Init => MeterInv
  BY TypesInitially, RoomInitially, Constants DEF Init, MeterInv, Periods, NoPeriod, Free, Day
<1>2. MeterInv /\ [Next]_vars => MeterInv'
  BY TypesKept, PeriodsKept, RoomKept DEF MeterInv
<1> QED BY <1>1, <1>2, PTL DEF Spec

(* The license's state is well typed for every number of clients, devices, *)
(* threads and runs.                                                       *)
THEOREM TypesHold == Spec => []TypeOK
<1>1. MeterInv => TypeOK
  BY DEF MeterInv, Types, TypeOK, FitAgents, FitRequests
<1> QED BY <1>1, MeterInvHolds, PTL

(* record_run: however many requests, retries and webhooks interleave, the *)
(* runs counted in a period exceed its quota by less than the number of    *)
(* the server's threads.                                                   *)
THEOREM OverrunIsBounded == Spec => []OverrunBounded
<1>1. MeterInv => OverrunBounded
  <2> SUFFICES ASSUME MeterInv, NEW s \in Starts
               PROVE  Cardinality(RunsIn(s)) < Quota + Cardinality(Threads)
    BY DEF OverrunBounded, Starts
  <2>1. Cardinality(RunsIn(s)) + Cardinality(Inserting(s)) <= Quota - 1 + Cardinality(Threads)
    BY DEF MeterInv, QuotaRoom
  <2>2. Cardinality(RunsIn(s)) \in Nat /\ Cardinality(Inserting(s)) \in Nat
    BY RoomTypes DEF MeterInv
  <2> QED BY <2>1, <2>2, Constants
<1> QED BY <1>1, MeterInvHolds, PTL

(* activate: however many activations interleave, the devices of a license *)
(* exceed its limit by less than the number of the server's threads.       *)
THEOREM DevicesAreBounded == Spec => []DevicesBounded
<1>1. Init => DeviceInv
  BY DevicesInitially
<1>2. MeterInv /\ MeterInv' /\ DeviceInv /\ [Next]_vars => DeviceInv'
  BY ActivationsKept, DeviceRoomKept DEF MeterInv, DeviceInv
<1>3. DeviceInv => DevicesBounded
  <2> SUFFICES ASSUME DeviceRoom
               PROVE  Cardinality(Activated) < DeviceLimit + Cardinality(Threads)
    BY DEF DeviceInv, DevicesBounded
  <2> QED BY DeviceRoomTypes, Constants, LicenseAssumption DEF DeviceRoom
<1> QED BY <1>1, <1>2, <1>3, MeterInvHolds, PTL DEF Spec

-----------------------------------------------------------------------------
(* A run that a user was warned about.                                     *)

(* A run id is in the stock when some queue, on a disk or in the hands of  *)
(* a client, holds it.                                                     *)
Elems(s) == {s[i] : i \in DOMAIN s}
Held(g) == Elems(g.mine.pending) \cup Elems(g.todo) \cup Elems(g.kept)
Stock ==
  {r \in RunIds : \/ \E d \in Devices : r \in Elems(store[d].pending)
                  \/ \E a \in Agents : r \in Held(agent[a])}
Untouched(r) == r \notin Counted /\ r \notin Stock
Sent(r) == {t \in Threads : thread[t].run = r}

(* A client that waits for a thread is the only one that does, and the     *)
(* thread is at work.                                                      *)
Calling ==
  \A a \in Agents : agent[a].on # "none" =>
    /\ thread[agent[a].on].stage # "free"
    /\ \A b \in Agents : b # a => agent[b].on # agent[a].on

(* A run that is not drawn yet, or that its user was warned about, is      *)
(* nowhere.  A run that is being reported belongs to one client, is in no  *)
(* queue, not counted, and on no thread but the one the client waits for.  *)
Nowhere(r) == Untouched(r) /\ Sent(r) = {} /\ \A a \in Agents : agent[a].run # r
Reported(r, a) ==
  /\ r \in used /\ Untouched(r)
  /\ \A t \in Sent(r) : agent[a].pc = "metering" /\ agent[a].on = t
  /\ \A b \in Agents : b # a => agent[b].run # r
RunsApart ==
  \A r \in RunIds :
    /\ r \notin used \/ r \in warned => Nowhere(r)
    /\ r \in warned => r \in used
    /\ \A a \in Agents : agent[a].run = r => Reported(r, a)

WarnInv == Calling /\ RunsApart

LEMMA NoElems == Elems(<<>>) = {}
BY DEF Elems

LEMMA ElemsAppended ==
  ASSUME NEW s \in Seq(RunIds), NEW x \in RunIds
  PROVE  Elems(Append(s, x)) = Elems(s) \cup {x}
<1>1. Len(s) \in Nat /\ DOMAIN s = 1 .. Len(s)
  BY LenProperties
<1>2. /\ Append(s, x) \in Seq(RunIds) /\ Len(Append(s, x)) = Len(s) + 1
      /\ \A i \in 1 .. Len(s) : Append(s, x)[i] = s[i]
      /\ Append(s, x)[Len(s) + 1] = x
  BY AppendProperties
<1>3. DOMAIN Append(s, x) = 1 .. (Len(s) + 1)
  BY <1>2, LenProperties
<1>4. Elems(Append(s, x)) \subseteq Elems(s) \cup {x}
  <2>1. ASSUME NEW i \in 1 .. (Len(s) + 1)
        PROVE  Append(s, x)[i] \in Elems(s) \cup {x}
    <3>1. i \in 1 .. Len(s) \/ i = Len(s) + 1
      BY <1>1
    <3> QED BY <1>1, <1>2, <3>1 DEF Elems
  <2> QED BY <1>3, <2>1 DEF Elems
<1>5. Elems(s) \subseteq Elems(Append(s, x))
  <2>1. ASSUME NEW i \in 1 .. Len(s)
        PROVE  s[i] \in Elems(Append(s, x))
    <3>1. i \in 1 .. (Len(s) + 1) /\ Append(s, x)[i] = s[i]
      BY <1>1, <1>2
    <3> QED BY <1>3, <3>1 DEF Elems
  <2> QED BY <1>1, <2>1 DEF Elems
<1>6. x \in Elems(Append(s, x))
  <2>1. Len(s) + 1 \in 1 .. (Len(s) + 1)
    BY <1>1
  <2> QED BY <1>2, <1>3, <2>1 DEF Elems
<1> QED BY <1>4, <1>5, <1>6

LEMMA ElemsHeadTail ==
  ASSUME NEW s \in Seq(RunIds), s # <<>>
  PROVE  /\ Elems(s) = {Head(s)} \cup Elems(Tail(s))
         /\ Head(s) \in RunIds /\ Tail(s) \in Seq(RunIds)
<1>1. Len(s) \in Nat /\ DOMAIN s = 1 .. Len(s)
  BY LenProperties
<1>2. /\ Head(s) \in RunIds /\ Tail(s) \in Seq(RunIds) /\ Len(Tail(s)) = Len(s) - 1
      /\ \A i \in 1 .. Len(Tail(s)) : Tail(s)[i] = s[i + 1]
      /\ Head(s) = s[1]
  BY HeadTailProperties
<1>3. DOMAIN Tail(s) = 1 .. (Len(s) - 1) /\ Len(s) # 0
  BY <1>1, <1>2, LenProperties, EmptySeq
<1>4. ASSUME NEW i \in 1 .. Len(s)
      PROVE  s[i] \in {Head(s)} \cup Elems(Tail(s))
  <2>1. CASE i = 1
    BY <1>2, <2>1
  <2>2. CASE i # 1
    <3>1. i - 1 \in 1 .. (Len(s) - 1) /\ (i - 1) + 1 = i
      BY <1>1, <2>2
    <3>2. Tail(s)[i - 1] = s[i]
      BY <1>2, <3>1
    <3> QED BY <1>3, <3>1, <3>2 DEF Elems
  <2> QED BY <2>1, <2>2
<1>5. ASSUME NEW i \in 1 .. (Len(s) - 1)
      PROVE  Tail(s)[i] \in Elems(s)
  <2>1. i + 1 \in 1 .. Len(s) /\ Tail(s)[i] = s[i + 1]
    BY <1>1, <1>2
  <2> QED BY <1>1, <2>1 DEF Elems
<1>6. Head(s) \in Elems(s)
  <2>1. 1 \in 1 .. Len(s)
    BY <1>1, <1>3
  <2> QED BY <1>1, <1>2, <2>1 DEF Elems
<1>7. Elems(s) \subseteq {Head(s)} \cup Elems(Tail(s))
  BY <1>1, <1>4 DEF Elems
<1>8. Elems(Tail(s)) \subseteq Elems(s)
  BY <1>3, <1>5 DEF Elems
<1> QED BY <1>2, <1>6, <1>7, <1>8

LEMMA IdleHolds == Held(Idle) = {} /\ Idle.run = "none" /\ Idle.on = "none"
BY NoElems DEF Held, Idle, Blank

LEMMA OnwardHolds ==
  ASSUME NEW a, NEW r, NEW s
  PROVE  /\ Held(Onward(a, r, s)) = Elems(s.pending)
         /\ Onward(a, r, s).run = r /\ Onward(a, r, s).on = "none"
         /\ Onward(a, r, s).mine = s /\ Onward(a, r, s).todo = s.pending
         /\ Onward(a, r, s).kept = <<>>
<1>1. /\ Onward(a, r, s).run = r /\ Onward(a, r, s).on = "none"
      /\ Onward(a, r, s).mine = s /\ Onward(a, r, s).todo = s.pending
      /\ Onward(a, r, s).kept = <<>>
  BY DEF Onward, Idle
<1> QED BY <1>1, NoElems DEF Held

(* What enters the stock comes from client a.                              *)
LEMMA StockMoves ==
  ASSUME Types, NEW a \in Agents, NEW more,
         \A b \in Agents : b # a => agent'[b] = agent[b],
         Held(agent'[a]) \subseteq Held(agent[a]) \cup more,
         \/ store' = store
         \/ \E s : /\ Saved(a, s)
                   /\ Elems(s.pending)
                        \subseteq Elems(store[DeviceOf[a]].pending) \cup Held(agent[a]) \cup more
  PROVE  Stock' \subseteq Stock \cup more
<1>1. ASSUME NEW r \in RunIds, NEW b \in Agents, r \in Held(agent'[b])
      PROVE  r \in Stock \cup more
  BY <1>1 DEF Stock
<1>2. ASSUME NEW r \in RunIds, NEW d \in Devices, r \in Elems(store'[d].pending)
      PROVE  r \in Stock \cup more
  <2>1. CASE store' = store
    BY <1>2, <2>1 DEF Stock
  <2>2. ASSUME NEW s, Saved(a, s),
               Elems(s.pending)
                 \subseteq Elems(store[DeviceOf[a]].pending) \cup Held(agent[a]) \cup more
        PROVE  r \in Stock \cup more
    <3>1. store'[d] = IF d = DeviceOf[a] THEN s ELSE store[d]
      BY <2>2 DEF Saved, Types
    <3>2. DeviceOf[a] \in Devices
      BY Constants
    <3> QED BY <1>2, <2>2, <3>1, <3>2 DEF Stock
  <2> QED BY <2>1, <2>2
<1> QED BY <1>1, <1>2 DEF Stock, Held

-----------------------------------------------------------------------------
(* What an answer, or none, does to the run of a client and to the queues. *)

Moves(a, code) ==
  /\ \A b \in Agents : b # a => agent'[b] = agent[b]
  /\ agent'[a].on = "none"
  /\ agent'[a].run \in {"none", agent[a].run}
  /\ agent[a].pc = "metering" => agent'[a].run = "none"
  /\ \/ Stock' \subseteq Stock /\ warned' = warned
     \/ /\ Stock' \subseteq Stock \cup {agent[a].run} /\ warned' = warned
        /\ agent[a].pc = "metering" /\ code = "unreachable"
     \/ /\ Stock' \subseteq Stock /\ warned' = warned \cup {agent[a].run}
        /\ agent'[a].run = "none"
        /\ agent[a].pc = "metering" => code \in {"invalid", "refused"}

(* A client that is blocked keeps nothing, and its user is warned.         *)
LEMMA BlockedMoves ==
  ASSUME Types, NEW a \in Agents, NEW code, Blocked(a),
         agent[a].pc = "metering" => code \in {"invalid", "refused"},
         \/ store' = store
         \/ \E s : /\ Saved(a, s)
                   /\ Elems(s.pending)
                        \subseteq Elems(store[DeviceOf[a]].pending) \cup Held(agent[a]) \cup {}
  PROVE  Moves(a, code)
<1>1. /\ \A b \in Agents : b # a => agent'[b] = agent[b]
      /\ agent'[a] = Idle
  BY DEF Blocked, Types
<1>2. Held(agent'[a]) \subseteq Held(agent[a]) \cup {}
  BY <1>1, IdleHolds
<1>3. Stock' \subseteq Stock \cup {}
  BY <1>1, <1>2, StockMoves
<1>4. warned' = warned \/ warned' = warned \cup {agent[a].run}
  BY DEF Blocked
<1> QED BY <1>1, <1>3, <1>4, IdleHolds DEF Moves

(* A client that goes on holds part of what it held.                       *)
LEMMA OnMoves ==
  ASSUME Types, NEW a \in Agents, NEW code, NEW h, agent' = [agent EXCEPT ![a] = h],
         h.on = "none", h.run \in {"none", agent[a].run},
         agent[a].pc = "metering" => h.run = "none",
         Held(h) \subseteq Held(agent[a]), warned' = warned,
         \/ store' = store
         \/ \E s : /\ Saved(a, s)
                   /\ Elems(s.pending)
                        \subseteq Elems(store[DeviceOf[a]].pending) \cup Held(agent[a]) \cup {}
  PROVE  Moves(a, code)
<1>1. /\ \A b \in Agents : b # a => agent'[b] = agent[b]
      /\ agent'[a] = h
  BY DEF Types
<1>2. Held(agent'[a]) \subseteq Held(agent[a]) \cup {}
  BY <1>1
<1>3. Stock' \subseteq Stock \cup {}
  BY <1>1, <1>2, StockMoves
<1> QED BY <1>1, <1>3 DEF Moves

LEMMA ReceiveMoves ==
  ASSUME Types, NEW a \in Agents, NEW code, NEW left \in 0 .. Quota, Receive(a, code, left)
  PROVE  Moves(a, code)
<1> DEFINE g == agent[a]
<1>0. /\ g \in Agent /\ g.mine \in LicenseState /\ g.run \in RunIds \cup {"none"}
      /\ g.todo \in Seq(RunIds) /\ g.kept \in Seq(RunIds) /\ g.mine.pending \in Seq(RunIds)
      /\ g.pc \in {"renewing", "flushing", "metering"} => g.run \in RunIds
      /\ g.pc = "flushing" => g.todo # <<>>
  BY DEF Types, FitAgents, Agent, LicenseState
<1>1. CASE ReceiveActivation(a, code, left)
  <2> DEFINE s == [store[DeviceOf[a]] EXCEPT !.token = g.token, !.quota = left, !.validated = now]
  <2>1. g.pc = "activating" /\ agent' = [agent EXCEPT ![a] = Idle] /\ warned' = warned
    BY <1>1 DEF ReceiveActivation
  <2>2. Saved(a, s) \/ store' = store
    BY <1>1 DEF ReceiveActivation
  <2>3. s.pending = store[DeviceOf[a]].pending
    <3>1. store[DeviceOf[a]] \in LicenseState
      BY Constants DEF Types
    <3> QED BY <3>1 DEF LicenseState
  <2> HIDE DEF s
  <2> QED BY <2>1, <2>2, <2>3, IdleHolds, OnMoves
<1>2. CASE ReceiveValidation(a, code, left)
  <2> DEFINE s == [g.mine EXCEPT !.quota = left, !.validated = now]
  <2>1. s.pending = g.mine.pending
    BY <1>0 DEF LicenseState
  <2>2. g.pc \in {"gate", "renewing"}
    BY <1>2 DEF ReceiveValidation
  <2>3. Elems(g.mine.pending) \subseteq Held(g) /\ Elems(Blank.pending) = {}
    BY NoElems DEF Held, Blank
  <2>4. \/ store' = store
        \/ \E x : /\ Saved(a, x)
                  /\ Elems(x.pending)
                       \subseteq Elems(store[DeviceOf[a]].pending) \cup Held(agent[a]) \cup {}
    <3>1. store' = store \/ Saved(a, s) \/ Saved(a, Blank)
      BY <1>2 DEF ReceiveValidation
    <3> HIDE DEF s
    <3> QED BY <2>1, <2>3, <3>1
  <2>5. CASE Blocked(a)
    BY <2>2, <2>4, <2>5, BlockedMoves
  <2>6. CASE ~Blocked(a)
    <3>1. PICK x \in {s, g.mine} : agent' = [agent EXCEPT ![a] = Onward(a, g.run, x)]
      BY <1>2, <2>6 DEF ReceiveValidation
    <3>2. warned' = warned
      BY <1>2, <2>6 DEF ReceiveValidation
    <3>3. Held(Onward(a, g.run, x)) \subseteq Held(g)
      <4>1. x.pending = g.mine.pending
        <5> HIDE DEF s
        <5> QED BY <2>1, <3>1
      <4>2. Held(Onward(a, g.run, x)) = Elems(x.pending)
        BY OnwardHolds
      <4> QED BY <2>3, <4>1, <4>2
    <3> DEFINE h == Onward(a, g.run, x)
    <3>4. h.on = "none" /\ h.run = g.run /\ Held(h) \subseteq Held(g)
      BY <3>3, OnwardHolds
    <3>5. agent' = [agent EXCEPT ![a] = h]
      BY <3>1
    <3> HIDE DEF h, s
    <3> QED BY <2>2, <2>4, <3>2, <3>4, <3>5, OnMoves
  <2> QED BY <2>5, <2>6
<1>3. CASE ReceiveFlush(a, code, left)
  <2> DEFINE kept == IF code = "ok" THEN g.kept ELSE Append(g.kept, Head(g.todo))
             quota == IF code = "ok" THEN left ELSE g.mine.quota
             s == [g.mine EXCEPT !.pending = kept, !.quota = quota]
  <2>1. g.pc = "flushing" /\ g.todo # <<>> /\ g.run \in RunIds
    BY <1>0, <1>3 DEF ReceiveFlush
  <2>2. Elems(g.todo) = {Head(g.todo)} \cup Elems(Tail(g.todo)) /\ Head(g.todo) \in RunIds
    BY <1>0, <2>1, ElemsHeadTail
  <2>3. Elems(kept) \subseteq Elems(g.kept) \cup {Head(g.todo)}
    BY <1>0, <2>2, ElemsAppended
  <2>4. Elems(kept) \subseteq Held(g) /\ s.pending = kept
    BY <1>0, <2>2, <2>3 DEF Held, LicenseState
  <2>5. \/ store' = store
        \/ \E x : /\ Saved(a, x)
                  /\ Elems(x.pending)
                       \subseteq Elems(store[DeviceOf[a]].pending) \cup Held(agent[a]) \cup {}
    <3>1. store' = store \/ Saved(a, s)
      BY <1>3 DEF ReceiveFlush
    <3> HIDE DEF s, kept
    <3> QED BY <2>4, <3>1
  <2>6. CASE Blocked(a)
    BY <2>1, <2>5, <2>6, BlockedMoves
  <2>7. CASE ~Blocked(a)
    <3>1. warned' = warned
      BY <1>3, <2>7 DEF ReceiveFlush
    <3>2. ASSUME agent' = [agent EXCEPT ![a] =
                   [g EXCEPT !.on = "none", !.todo = Tail(g.todo), !.kept = kept,
                             !.mine.quota = quota]]
          PROVE  Moves(a, code)
      <4> DEFINE h == [g EXCEPT !.on = "none", !.todo = Tail(g.todo), !.kept = kept,
                                !.mine.quota = quota]
      <4>1. h.on = "none" /\ h.run = g.run
        BY <1>0 DEF Agent
      <4>2. h.todo = Tail(g.todo) /\ h.kept = kept /\ h.mine.pending = g.mine.pending
        <5> HIDE DEF kept, quota
        <5> QED BY <1>0 DEF Agent, LicenseState
      <4>3. agent' = [agent EXCEPT ![a] = h]
        BY <3>2
      <4> HIDE DEF h
      <4>4. Held(h) \subseteq Held(g)
        <5> HIDE DEF kept
        <5> QED BY <2>2, <2>4, <4>2 DEF Held
      <4> QED BY <2>1, <2>5, <3>1, <4>1, <4>3, <4>4, OnMoves
    <3>3. ASSUME agent' = [agent EXCEPT ![a] = [Idle EXCEPT !.pc = "metering",
                                                  !.run = g.run, !.mine = s]]
          PROVE  Moves(a, code)
      <4> DEFINE h == [Idle EXCEPT !.pc = "metering", !.run = g.run, !.mine = s]
      <4> HIDE DEF s
      <4>1. h.on = "none" /\ h.run = g.run /\ h.mine = s /\ h.todo = <<>> /\ h.kept = <<>>
        BY DEF Idle
      <4>3. agent' = [agent EXCEPT ![a] = h]
        BY <3>3
      <4> HIDE DEF h, kept
      <4>4. Held(h) \subseteq Held(g)
        BY <2>4, <4>1, NoElems DEF Held
      <4> QED BY <2>1, <2>5, <3>1, <4>1, <4>3, <4>4, OnMoves
    <3> QED BY <1>3, <2>7, <3>2, <3>3 DEF ReceiveFlush
  <2> QED BY <2>6, <2>7
<1>4. CASE ReceiveMeter(a, code, left)
  <2>1. g.pc = "metering" /\ g.run \in RunIds
    BY <1>0, <1>4 DEF ReceiveMeter
  <2>2. CASE code = "ok"
    <3> DEFINE s == [g.mine EXCEPT !.quota = left]
    <3>1. Saved(a, s) /\ agent' = [agent EXCEPT ![a] = Idle] /\ warned' = warned
      BY <1>4, <2>2 DEF ReceiveMeter
    <3>2. s.pending = g.mine.pending /\ Elems(g.mine.pending) \subseteq Held(g)
      BY <1>0 DEF LicenseState, Held
    <3> HIDE DEF s
    <3> QED BY <3>1, <3>2, IdleHolds, OnMoves
  <2>3. CASE code = "unreachable"
    <3> DEFINE s == [g.mine EXCEPT !.pending = Append(@, g.run)]
    <3>1. Saved(a, s) /\ agent' = [agent EXCEPT ![a] = Idle] /\ warned' = warned
      BY <1>4, <2>3 DEF ReceiveMeter
    <3>2. Elems(s.pending) \subseteq Elems(g.mine.pending) \cup {g.run}
      <4>1. s.pending = Append(g.mine.pending, g.run)
        BY <1>0 DEF LicenseState
      <4> QED BY <1>0, <2>1, <4>1, ElemsAppended
    <3>3. Elems(g.mine.pending) \subseteq Held(g)
      BY DEF Held
    <3> HIDE DEF s
    <3>4. /\ \A b \in Agents : b # a => agent'[b] = agent[b]
          /\ agent'[a] = Idle
      BY <3>1 DEF Types
    <3>5. Elems(s.pending)
            \subseteq Elems(store[DeviceOf[a]].pending) \cup Held(agent[a]) \cup {g.run}
      BY <3>2, <3>3
    <3>6. Held(agent'[a]) \subseteq Held(agent[a]) \cup {g.run}
      BY <3>4, IdleHolds
    <3>7. Stock' \subseteq Stock \cup {g.run}
      BY <3>1, <3>4, <3>5, <3>6, StockMoves
    <3> QED BY <2>1, <2>3, <3>1, <3>4, <3>7, IdleHolds DEF Moves
  <2>4. CASE code \in {"invalid", "refused"}
    <3>1. Blocked(a) /\ store' = store
      BY <1>4, <2>4 DEF ReceiveMeter
    <3> QED BY <2>4, <3>1, BlockedMoves
  <2> QED BY <1>4, <2>2, <2>3, <2>4 DEF ReceiveMeter
<1> QED BY <1>1, <1>2, <1>3, <1>4 DEF Receive

-----------------------------------------------------------------------------
(* Every step keeps the runs apart.                                        *)

Waits(a, t) == agent[a].on = t

(* The run that thread t inserts is counted; nothing else is.              *)
CountsOnly(t) == Counted' \subseteq Counted \cup {thread[t].run}

LEMMA ApartFacts ==
  ASSUME Types
  PROVE  /\ \A a \in Agents : /\ agent[a].on \in Threads \cup {"none"}
                              /\ agent[a].run \in RunIds \cup {"none"}
         /\ "none" \notin Threads /\ "none" \notin RunIds
BY LicenseAssumption DEF Types, FitAgents, Agent

(* Client a takes an answer, or gives its call up.                         *)
LEMMA CallerKeepsApart ==
  ASSUME Types, WarnInv, NEW a \in Agents, NEW code, Moves(a, code), used' = used,
         \A u \in Threads : thread'[u] = thread[u] \/ thread'[u].run = "none",
         \/ Counted' = Counted
         \/ \E t \in Threads : Waits(a, t) /\ CountsOnly(t) /\ code = "ok",
         warned' # warned /\ agent[a].pc = "metering" =>
           \A t \in Threads : Waits(a, t) => thread'[t].run = "none"
  PROVE  RunsApart'
<1>0. /\ \A b \in Agents : /\ agent[b].on \in Threads \cup {"none"}
                           /\ agent[b].run \in RunIds \cup {"none"}
      /\ "none" \notin Threads /\ "none" \notin RunIds
  BY ApartFacts
<1>1. \A r \in RunIds : Sent(r)' \subseteq Sent(r)
  BY <1>0 DEF Sent
<1>2. ASSUME NEW r \in RunIds, r \in Counted', r \notin Counted
      PROVE  /\ code = "ok"
             /\ \E t \in Sent(r) : Waits(a, t)
  BY <1>2 DEF CountsOnly, Sent
<1>3. ASSUME NEW r \in RunIds, Nowhere(r)
      PROVE  Nowhere(r)'
  <2>1. r \notin Counted'
    BY <1>2, <1>3 DEF Nowhere, Untouched
  <2>2. r \notin Stock'
    BY <1>3 DEF Nowhere, Untouched, Moves
  <2>3. \A b \in Agents : agent'[b].run # r
    BY <1>0, <1>3 DEF Nowhere, Moves
  <2>4. Sent(r)' = {}
    BY <1>1, <1>3 DEF Nowhere
  <2> QED BY <2>1, <2>2, <2>3, <2>4 DEF Nowhere, Untouched
<1>4. ASSUME NEW r \in RunIds, r \in warned', r \notin warned
      PROVE  Nowhere(r)' /\ r \in used
  <2>1. /\ r = agent[a].run /\ Stock' \subseteq Stock /\ agent'[a].run = "none"
        /\ agent[a].pc = "metering" => code \in {"invalid", "refused"}
        /\ \A b \in Agents : b # a => agent'[b] = agent[b]
    BY <1>4 DEF Moves
  <2>2. Reported(r, a)
    BY <2>1 DEF WarnInv, RunsApart
  <2>3. r \notin Counted'
    BY <1>2, <2>1, <2>2 DEF Reported, Untouched
  <2>4. \A b \in Agents : agent'[b].run # r
    BY <1>0, <2>1, <2>2 DEF Reported
  <2>5. Sent(r)' = {}
    <3>1. ASSUME NEW t \in Threads, thread'[t].run = r
          PROVE  FALSE
      <4>1. t \in Sent(r)
        BY <1>0, <3>1 DEF Sent
      <4>2. agent[a].pc = "metering" /\ agent[a].on = t
        BY <2>2, <4>1 DEF Reported
      <4>3. thread'[t].run = "none"
        BY <1>4, <4>2 DEF Waits
      <4> QED BY <1>0, <3>1, <4>3
    <3> QED BY <3>1 DEF Sent
  <2> QED BY <2>1, <2>2, <2>3, <2>4, <2>5 DEF Nowhere, Untouched, Reported
<1>5. ASSUME NEW r \in RunIds, NEW b \in Agents, agent'[b].run = r
      PROVE  Reported(r, b)'
  <2>1. agent[b].run = r /\ Reported(r, b)
    BY <1>0, <1>5 DEF Moves, WarnInv, RunsApart
  <2>2. \A c \in Agents : c # b => agent'[c].run # r
    BY <1>0, <2>1 DEF Reported, Moves
  <2>3. CASE b = a
    <3>1. agent[a].pc # "metering"
      BY <1>0, <1>5, <2>3 DEF Moves
    <3>2. Sent(r) = {}
      BY <2>1, <2>3, <3>1 DEF Reported
    <3>3. r \notin Counted'
      BY <1>2, <2>1, <3>2 DEF Reported, Untouched
    <3>4. r \notin Stock'
      BY <2>1, <3>1 DEF Reported, Untouched, Moves
    <3>5. Sent(r)' = {}
      BY <1>1, <3>2
    <3> QED BY <2>1, <2>2, <3>3, <3>4, <3>5 DEF Reported, Untouched
  <2>4. CASE b # a
    <3>1. agent'[b] = agent[b] /\ agent[a].run # r
      BY <2>1, <2>4 DEF Moves, Reported
    <3>2. r \notin Counted'
      <4>1. ASSUME r \in Counted'
            PROVE  FALSE
        <5>1. PICK t \in Sent(r) : Waits(a, t)
          BY <1>2, <2>1, <4>1 DEF Reported, Untouched
        <5>2. agent[b].on = t /\ agent[a].on = t /\ t # "none"
          BY <1>0, <2>1, <5>1 DEF Reported, Waits, Sent
        <5> QED BY <2>4, <5>2 DEF WarnInv, Calling
      <4> QED BY <4>1
    <3>3. r \notin Stock'
      BY <2>1, <3>1 DEF Reported, Untouched, Moves
    <3> QED BY <1>1, <2>1, <2>2, <3>1, <3>2, <3>3 DEF Reported, Untouched
  <2> QED BY <2>3, <2>4
<1>6. ASSUME NEW r \in RunIds
      PROVE  /\ r \notin used' \/ r \in warned' => Nowhere(r)'
             /\ r \in warned' => r \in used'
  BY <1>3, <1>4 DEF WarnInv, RunsApart
<1> QED BY <1>5, <1>6 DEF RunsApart

(* A thread ends, or goes on, and nobody waits for its answer.             *)
LEMMA LonelyKeepsApart ==
  ASSUME Types, WarnInv, UNCHANGED <<store, agent, warned, used>>, NEW t \in Threads,
         \A u \in Threads : thread'[u].run \in {thread[u].run, "none"},
         Counted' = Counted \/ (CountsOnly(t) /\ \A a \in Agents : ~Waits(a, t))
  PROVE  RunsApart'
<1>0. "none" \notin Threads /\ "none" \notin RunIds
  BY ApartFacts
<1>1. \A r \in RunIds : Sent(r)' \subseteq Sent(r)
  BY <1>0 DEF Sent
<1>2. ASSUME NEW r \in RunIds, r \in Counted', r \notin Counted
      PROVE  t \in Sent(r) /\ \A a \in Agents : ~Waits(a, t)
  BY <1>2 DEF CountsOnly, Sent
<1>3. Stock' = Stock
  BY DEF Stock
<1>4. ASSUME NEW r \in RunIds, Nowhere(r)
      PROVE  Nowhere(r)'
  BY <1>1, <1>2, <1>3, <1>4 DEF Nowhere, Untouched
<1>5. ASSUME NEW r \in RunIds, NEW a \in Agents, Reported(r, a)
      PROVE  Reported(r, a)'
  <2>1. r \notin Counted'
    BY <1>2, <1>5 DEF Reported, Untouched, Waits
  <2> QED BY <1>1, <1>3, <1>5, <2>1 DEF Reported, Untouched
<1> QED BY <1>4, <1>5 DEF WarnInv, RunsApart

LEMMA CallingKept ==
  ASSUME Types, Calling,
         \A a \in Agents : agent'[a].on \in {agent[a].on, "none"},
         \A a \in Agents : \A t \in Threads : agent'[a].on = t /\ thread'[t].stage = "free"
                                                => thread[t].stage = "free"
  PROVE  Calling'
<1>0. /\ \A b \in Agents : agent[b].on \in Threads \cup {"none"}
      /\ "none" \notin Threads
  BY ApartFacts
<1> SUFFICES ASSUME NEW a \in Agents, agent'[a].on # "none"
             PROVE  /\ thread'[agent'[a].on].stage # "free"
                    /\ \A b \in Agents : b # a => agent'[b].on # agent'[a].on
  BY DEF Calling
<1>1. agent'[a].on = agent[a].on /\ agent[a].on \in Threads
  BY <1>0
<1>2. /\ thread[agent[a].on].stage # "free"
      /\ \A b \in Agents : b # a => agent[b].on # agent[a].on
  BY <1>1 DEF Calling
<1> QED BY <1>1, <1>2

(* A thread answers.                                                       *)
LEMMA AnswerKeepsApart ==
  ASSUME Types, WarnInv, NEW t \in Threads, NEW code, NEW left \in 0 .. Quota,
         Answer(t, code, left), used' = used,
         Counted' = Counted \/ (CountsOnly(t) /\ code = "ok")
  PROVE  WarnInv'
<1>0. /\ \A b \in Agents : agent[b].on \in Threads \cup {"none"}
      /\ "none" \notin Threads /\ "none" \notin RunIds
  BY ApartFacts
<1>1. /\ \A u \in Threads : u # t => thread'[u] = thread[u]
      /\ thread'[t] = Free /\ Free.run = "none"
  BY DEF Answer, Types, Free
<1>2. ASSUME NEW a \in Agents, Waits(a, t), Receive(a, code, left)
      PROVE  WarnInv'
  <2>1. Moves(a, code)
    BY <1>2, ReceiveMoves
  <2>2. RunsApart'
    <3>1. \A u \in Threads : thread'[u] = thread[u] \/ thread'[u].run = "none"
      BY <1>1
    <3>2. \/ Counted' = Counted
          \/ \E u \in Threads : Waits(a, u) /\ CountsOnly(u) /\ code = "ok"
      BY <1>2
    <3>3. \A u \in Threads : Waits(a, u) => thread'[u].run = "none"
      BY <1>1, <1>2 DEF Waits
    <3> QED BY <2>1, <3>1, <3>2, <3>3, CallerKeepsApart
  <2>3. Calling'
    <3>1. \A b \in Agents : agent'[b].on \in {agent[b].on, "none"}
      BY <2>1 DEF Moves
    <3>2. ASSUME NEW b \in Agents, NEW u \in Threads, agent'[b].on = u, thread'[u].stage = "free"
          PROVE  thread[u].stage = "free"
      <4>1. b # a /\ agent[b].on = u
        BY <1>0, <2>1, <3>2 DEF Moves
      <4>2. u # t
        BY <1>0, <1>2, <4>1 DEF WarnInv, Calling, Waits
      <4> QED BY <1>1, <3>2, <4>2
    <3> QED BY <3>1, <3>2, CallingKept DEF WarnInv
  <2> QED BY <2>2, <2>3 DEF WarnInv
<1>3. ASSUME \A a \in Agents : ~Waits(a, t), UNCHANGED <<store, agent, warned>>
      PROVE  WarnInv'
  <2>1. RunsApart'
    BY <1>1, <1>3, LonelyKeepsApart
  <2>2. Calling'
    <3>1. \A b \in Agents : agent'[b].on \in {agent[b].on, "none"}
      BY <1>3
    <3>2. \A b \in Agents : \A u \in Threads :
            agent'[b].on = u /\ thread'[u].stage = "free" => thread[u].stage = "free"
      BY <1>1, <1>3 DEF Waits
    <3> QED BY <3>1, <3>2, CallingKept DEF WarnInv
  <2> QED BY <2>1, <2>2 DEF WarnInv
<1>4. \/ \E a \in Agents : Waits(a, t) /\ Receive(a, code, left)
      \/ (\A a \in Agents : ~Waits(a, t)) /\ UNCHANGED <<store, agent, warned>>
  BY DEF Answer, Waits
<1> QED BY <1>2, <1>3, <1>4

(* A thread goes on to the next part of its handler.                       *)
LEMMA InsideKeepsApart ==
  ASSUME Types, WarnInv, NEW t \in Threads, NEW q, thread' = [thread EXCEPT ![t] = q],
         q.run = thread[t].run, q.stage # "free",
         UNCHANGED <<store, agent, warned, used, runs>>
  PROVE  WarnInv'
<1>1. /\ \A u \in Threads : u # t => thread'[u] = thread[u]
      /\ thread'[t] = q
  BY DEF Types
<1>2. Counted' = Counted
  BY DEF Counted
<1>3. RunsApart'
  <2>1. \A u \in Threads : thread'[u].run \in {thread[u].run, "none"}
    BY <1>1
  <2> QED BY <1>2, <2>1, LonelyKeepsApart
<1>4. Calling'
  <2>1. \A b \in Agents : \A u \in Threads :
          agent'[b].on = u /\ thread'[u].stage = "free" => thread[u].stage = "free"
    BY <1>1
  <2> QED BY <2>1, CallingKept DEF WarnInv
<1> QED BY <1>3, <1>4 DEF WarnInv

LEMMA ServeKeepsApart ==
  ASSUME Types, WarnInv, NEW t \in Threads, Serve(t) \/ ThreadDies(t)
  PROVE  WarnInv'
<1> DEFINE q == thread[t]
           left == QuotaLeft(lic, runs)
<1>1. q \in Request /\ q.left \in 0 .. Quota /\ left \in 0 .. Quota /\ 0 \in 0 .. Quota
  BY QuotaLeftType, Constants DEF Types, FitRequests, Request
<1>2. runs' = runs => Counted' = Counted
  BY DEF Counted
<1>3. ASSUME NEW code, NEW n \in 0 .. Quota, Answer(t, code, n), used' = used, runs' = runs
      PROVE  WarnInv'
  BY <1>2, <1>3, AnswerKeepsApart
<1>4. CASE ActivateReads(t)
  <2> DEFINE x == [AtStage(t, "insert_device") EXCEPT
                     !.fresh = tokens[q.device] = 0,
                     !.ok = Allowed(lic, runs, now), !.left = left]
  <2>1. x.run = q.run /\ x.stage # "free"
    BY <1>1 DEF AtStage, Request
  <2>2. /\ used' = used /\ runs' = runs
        /\ \/ Answer(t, "refused", 0)
           \/ thread' = [thread EXCEPT ![t] = x] /\ UNCHANGED <<store, agent, warned>>
    BY <1>4 DEF ActivateReads
  <2> HIDE DEF x
  <2> QED BY <1>1, <1>3, <2>1, <2>2, InsideKeepsApart
<1>5. CASE ActivateCommits(t)
  <2>1. /\ used' = used /\ runs' = runs
        /\ \E code : Answer(t, code, 0) \/ Answer(t, code, q.left)
    BY <1>5 DEF ActivateCommits
  <2> QED BY <1>1, <1>3, <2>1
<1>6. CASE Validate(t)
  <2>1. used' = used /\ runs' = runs /\ \E code : Answer(t, code, left)
    BY <1>6 DEF Validate
  <2> QED BY <1>1, <1>3, <2>1
<1>7. CASE MeterValidates(t)
  <2> DEFINE x == [AtStage(t, "meter") EXCEPT !.lic = lic, !.left = left]
  <2>1. x.run = q.run /\ x.stage # "free"
    BY <1>1 DEF AtStage, Request
  <2>2. /\ used' = used /\ runs' = runs
        /\ \/ \E code : Answer(t, code, 0)
           \/ thread' = [thread EXCEPT ![t] = x] /\ UNCHANGED <<store, agent, warned>>
    BY <1>7 DEF MeterValidates
  <2> HIDE DEF x
  <2> QED BY <1>1, <1>3, <2>1, <2>2, InsideKeepsApart
<1>8. CASE MeterReads(t)
  <2> DEFINE x == AtStage(t, "insert_run")
  <2>1. x.run = q.run /\ x.stage # "free"
    BY <1>1 DEF AtStage, Request
  <2>2. /\ used' = used /\ runs' = runs
        /\ \/ Answer(t, "ok", q.left) \/ Answer(t, "refused", 0)
           \/ thread' = [thread EXCEPT ![t] = x] /\ UNCHANGED <<store, agent, warned>>
    BY <1>8 DEF MeterReads
  <2> HIDE DEF x
  <2> QED BY <1>1, <1>3, <2>1, <2>2, InsideKeepsApart
<1>9. CASE MeterInserts(t)
  <2>1. used' = used
    BY <1>9 DEF MeterInserts
  <2>2. CASE Answer(t, "refused", 0) /\ runs' = runs
    BY <1>1, <1>3, <2>1, <2>2
  <2>3. CASE /\ runs' = runs \cup {[id |-> q.run, day |-> now]}
             /\ Answer(t, "ok", QuotaLeft(q.lic, runs'))
    <3>1. CountsOnly(t)
      BY <2>3 DEF CountsOnly, Counted
    <3>2. QuotaLeft(q.lic, runs') \in 0 .. Quota
      <4>1. IsFiniteSet(runs')
        BY <2>3, FS_AddElement DEF Types
      <4> QED BY <4>1, QuotaLeftType
    <3> QED BY <2>1, <2>3, <3>1, <3>2, AnswerKeepsApart
  <2> QED BY <1>9, <2>2, <2>3 DEF MeterInserts
<1>10. CASE ThreadDies(t)
  <2>1. used' = used /\ runs' = runs /\ Answer(t, "unreachable", 0)
    BY <1>10 DEF ThreadDies
  <2> QED BY <1>1, <1>3, <2>1
<1> QED BY <1>4, <1>5, <1>6, <1>7, <1>8, <1>9, <1>10 DEF Serve

(* A call is given up: the request may still be on the server.             *)
LEMMA UnansweredKeepsApart ==
  ASSUME Types, WarnInv, NEW a \in Agents, Unanswered(a)
  PROVE  WarnInv'
<1>1. /\ Receive(a, "unreachable", 0) /\ UNCHANGED <<thread, used, runs>> /\ 0 \in 0 .. Quota
  BY Constants DEF Unanswered
<1>2. Moves(a, "unreachable") /\ Counted' = Counted
  BY <1>1, ReceiveMoves DEF Counted
<1>3. ~(warned' # warned /\ agent[a].pc = "metering")
  BY <1>2 DEF Moves
<1>4. RunsApart'
  BY <1>1, <1>2, <1>3, CallerKeepsApart
<1>5. Calling'
  <2>1. \A b \in Agents : agent'[b].on \in {agent[b].on, "none"}
    BY <1>2 DEF Moves
  <2> QED BY <1>1, <2>1, CallingKept DEF WarnInv
<1> QED BY <1>4, <1>5 DEF WarnInv

(* A client begins a call for no run, an analysis, or nothing.             *)
LEMMA BeginKeepsApart ==
  ASSUME Types, WarnInv, NEW a \in Agents, StartActivation(a) \/ StartRun(a) \/ Quit(a)
  PROVE  WarnInv'
<1> DEFINE s == store[DeviceOf[a]]
<1>0. DeviceOf[a] \in Devices
  BY Constants
<1>1. PICK h : /\ agent' = [agent EXCEPT ![a] = h] /\ h.on = "none" /\ h.run = "none"
               /\ Held(h) \subseteq Elems(s.pending)
  <2>1. CASE StartActivation(a)
    <3> DEFINE h == [Idle EXCEPT !.pc = "activating", !.token = asked + 1]
    <3>1. agent' = [agent EXCEPT ![a] = h]
      BY <2>1 DEF StartActivation
    <3>2. h.on = "none" /\ h.run = "none" /\ h.mine = Idle.mine /\ h.todo = Idle.todo /\ h.kept = Idle.kept
      BY DEF Idle
    <3> HIDE DEF h
    <3>3. Held(h) = {}
      BY <3>2, IdleHolds DEF Held
    <3> QED BY <3>1, <3>2, <3>3
  <2>2. CASE StartRun(a)
    <3>1. agent' = [agent EXCEPT ![a] = [Idle EXCEPT !.pc = "gate", !.mine = s]]
            \/ agent' = [agent EXCEPT ![a] = Onward(a, "none", s)]
      BY <2>2 DEF StartRun
    <3> DEFINE h == [Idle EXCEPT !.pc = "gate", !.mine = s]
    <3>2. h.on = "none" /\ h.run = "none" /\ h.mine = s /\ h.todo = <<>> /\ h.kept = <<>>
      BY DEF Idle
    <3> HIDE DEF h, s
    <3>3. Held(h) \subseteq Elems(s.pending)
      BY <3>2, NoElems DEF Held
    <3>4. CASE agent' = [agent EXCEPT ![a] = h]
      BY <3>2, <3>3, <3>4
    <3>5. CASE agent' = [agent EXCEPT ![a] = Onward(a, "none", s)]
      <4> DEFINE o == Onward(a, "none", s)
      <4>1. o.on = "none" /\ o.run = "none" /\ Held(o) \subseteq Elems(s.pending)
        BY OnwardHolds
      <4>2. agent' = [agent EXCEPT ![a] = o]
        BY <3>5
      <4> HIDE DEF o
      <4> QED BY <4>1, <4>2
    <3> QED BY <3>1, <3>4, <3>5 DEF h
  <2>3. CASE Quit(a)
    BY <2>3, IdleHolds DEF Quit
  <2> QED BY <2>1, <2>2, <2>3
<1>2. UNCHANGED <<thread, runs, store, used, warned>>
  BY DEF StartActivation, StartRun, Quit
<1>3. /\ \A b \in Agents : b # a => agent'[b] = agent[b]
      /\ agent'[a] = h
  BY <1>1 DEF Types
<1>4. Stock' \subseteq Stock
  <2>1. Stock' \subseteq Stock \cup Elems(s.pending)
    BY <1>1, <1>2, <1>3, StockMoves
  <2>2. \A r \in RunIds : r \in Elems(s.pending) => r \in Stock
    BY <1>0 DEF Stock
  <2> QED BY <2>1, <2>2 DEF Stock
<1>5. Moves(a, "ok")
  BY <1>1, <1>2, <1>3, <1>4 DEF Moves
<1>6. RunsApart'
  <2>1. Counted' = Counted
    BY <1>2 DEF Counted
  <2> QED BY <1>2, <1>5, <2>1, CallerKeepsApart
<1>7. Calling'
  BY <1>1, <1>2, <1>3, CallingKept DEF WarnInv
<1> QED BY <1>6, <1>7 DEF WarnInv

(* A run is drawn.                                                         *)
LEMMA FinishKeepsApart ==
  ASSUME Types, WarnInv, NEW a \in Agents, FinishRun(a)
  PROVE  WarnInv'
<1> DEFINE s == store[DeviceOf[a]]
<1>0. /\ DeviceOf[a] \in Devices
      /\ \A b \in Agents : agent[b].run \in RunIds \cup {"none"}
      /\ "none" \notin Threads /\ "none" \notin RunIds
  BY Constants, ApartFacts
<1>1. PICK x \in RunIds \ used :
        /\ used' = used \cup {x}
        /\ warned' = IF s.token = 0 THEN warned \cup {x} ELSE warned
        /\ agent' = [agent EXCEPT ![a] =
             CASE s.token = 0 -> Idle
               [] s.token # 0 /\ NeedsRefresh(s) ->
                    [Idle EXCEPT !.pc = "renewing", !.run = x, !.mine = s]
               [] OTHER -> Onward(a, x, s)]
  BY DEF FinishRun
<1>2. UNCHANGED <<thread, runs, store>>
  BY DEF FinishRun
<1>3. PICK h : /\ agent' = [agent EXCEPT ![a] = h] /\ h.on = "none"
               /\ h.run = IF s.token = 0 THEN "none" ELSE x
               /\ Held(h) \subseteq Elems(s.pending)
  <2>1. CASE s.token = 0
    <3>1. agent' = [agent EXCEPT ![a] = Idle]
      BY <1>1, <2>1
    <3> QED BY <2>1, <3>1, IdleHolds
  <2>2. CASE s.token # 0
    <3>1. agent' = [agent EXCEPT ![a] = [Idle EXCEPT !.pc = "renewing", !.run = x, !.mine = s]]
            \/ agent' = [agent EXCEPT ![a] = Onward(a, x, s)]
      BY <1>1, <2>2
    <3> DEFINE h == [Idle EXCEPT !.pc = "renewing", !.run = x, !.mine = s]
    <3>2. h.on = "none" /\ h.run = x /\ h.mine = s /\ h.todo = <<>> /\ h.kept = <<>>
      BY DEF Idle
    <3> HIDE DEF h, s
    <3>3. Held(h) \subseteq Elems(s.pending)
      BY <3>2, NoElems DEF Held
    <3>4. CASE agent' = [agent EXCEPT ![a] = h]
      BY <2>2, <3>2, <3>3, <3>4
    <3>5. CASE agent' = [agent EXCEPT ![a] = Onward(a, x, s)]
      <4> DEFINE o == Onward(a, x, s)
      <4>1. o.on = "none" /\ o.run = x /\ Held(o) \subseteq Elems(s.pending)
        BY OnwardHolds
      <4>2. agent' = [agent EXCEPT ![a] = o]
        BY <3>5
      <4> HIDE DEF o
      <4> QED BY <2>2, <4>1, <4>2
    <3> QED BY <3>1, <3>4, <3>5 DEF h
  <2> QED BY <2>1, <2>2
<1>4. /\ \A b \in Agents : b # a => agent'[b] = agent[b]
      /\ agent'[a] = h
  BY <1>3 DEF Types
<1>5. Stock' \subseteq Stock
  <2>1. Stock' \subseteq Stock \cup Elems(s.pending)
    BY <1>2, <1>3, <1>4, StockMoves
  <2>2. \A r \in RunIds : r \in Elems(s.pending) => r \in Stock
    BY <1>0 DEF Stock
  <2> QED BY <2>1, <2>2 DEF Stock
<1>6. Counted' = Counted /\ \A r \in RunIds : Sent(r)' = Sent(r)
  BY <1>2 DEF Counted, Sent
<1>7. Nowhere(x) /\ x \notin warned
  BY <1>1 DEF WarnInv, RunsApart
<1>8. ASSUME NEW r \in RunIds, r # x
      PROVE  /\ r \notin used' \/ r \in warned' => Nowhere(r)'
             /\ r \in warned' => r \in used'
             /\ \A b \in Agents : agent'[b].run = r => Reported(r, b)'
  <2>1. r \in used' <=> r \in used
    BY <1>1, <1>8
  <2>2. r \in warned' => r \in warned
    BY <1>1, <1>8
  <2>3. \A b \in Agents : agent'[b].run = r => b # a /\ agent'[b] = agent[b]
    BY <1>0, <1>3, <1>4, <1>8
  <2>4. Untouched(r) => Untouched(r)'
    BY <1>5, <1>6 DEF Untouched
  <2>5. Nowhere(r) => Nowhere(r)'
    BY <1>6, <2>3, <2>4 DEF Nowhere
  <2>6. ASSUME NEW b \in Agents, agent'[b].run = r
        PROVE  Reported(r, b)'
    <3>1. b # a /\ agent'[b] = agent[b] /\ Reported(r, b)
      BY <2>3, <2>6 DEF WarnInv, RunsApart
    <3> QED BY <1>6, <2>1, <2>3, <2>4, <3>1 DEF Reported
  <2> QED BY <2>1, <2>2, <2>5, <2>6 DEF WarnInv, RunsApart
<1>9. /\ x \notin used' \/ x \in warned' => Nowhere(x)'
      /\ x \in warned' => x \in used'
      /\ \A b \in Agents : agent'[b].run = x => Reported(x, b)'
  <2>1. x \in used' /\ (x \in warned' => h.run = "none")
    BY <1>1, <1>3, <1>7
  <2>2. Untouched(x)' /\ Sent(x)' = {}
    BY <1>5, <1>6, <1>7 DEF Nowhere, Untouched
  <2>3. \A b \in Agents : b # a => agent'[b].run # x
    BY <1>4, <1>7 DEF Nowhere
  <2>4. h.run = "none" => Nowhere(x)'
    BY <1>0, <1>4, <2>2, <2>3 DEF Nowhere
  <2>5. agent'[a].run = x => Reported(x, a)'
    BY <2>1, <2>2, <2>3 DEF Reported
  <2> QED BY <2>1, <2>3, <2>4, <2>5
<1>10. RunsApart'
  BY <1>8, <1>9 DEF RunsApart
<1>11. Calling'
  BY <1>2, <1>3, <1>4, CallingKept DEF WarnInv
<1> QED BY <1>10, <1>11 DEF WarnInv

(* A request is sent: it carries the run of a client that meters, or one   *)
(* of the stock.                                                           *)
LEMMA SendKeepsApart ==
  ASSUME Types, WarnInv, NEW a \in Agents, NEW t \in Threads, Send(a, t)
  PROVE  WarnInv'
<1> DEFINE g == agent[a]
<1>0. /\ \A b \in Agents : agent[b].on \in Threads \cup {"none"}
      /\ "none" \notin Threads /\ "none" \notin RunIds
  BY ApartFacts
<1>1. /\ g.pc \in Calls /\ g.on = "none" /\ thread[t].stage = "free"
      /\ UNCHANGED <<runs, store, used, warned>>
  BY DEF Send
<1>2. /\ \A u \in Threads : u # t => thread'[u] = thread[u]
      /\ thread'[t].stage # "free"
      /\ thread'[t].run = CASE g.pc = "flushing" -> Head(g.todo)
                            [] g.pc = "metering" -> g.run
                            [] OTHER -> "none"
  BY <1>1 DEF Send, Types, Free, Calls
<1>3. /\ \A b \in Agents : b # a => agent'[b] = agent[b]
      /\ \A b \in Agents : agent'[b].run = agent[b].run /\ agent'[b].pc = agent[b].pc
                           /\ Held(agent'[b]) = Held(agent[b])
      /\ agent'[a].on = t
  BY DEF Send, Types, FitAgents, Agent, Held
<1>4. Stock' = Stock /\ Counted' = Counted
  BY <1>1, <1>3 DEF Stock, Counted
<1>5. ASSUME NEW r \in RunIds, thread'[t].run = r
      PROVE  r \in Stock \/ (g.pc = "metering" /\ g.run = r)
  <2>1. CASE g.pc = "flushing"
    <3>1. g.todo \in Seq(RunIds) /\ g.todo # <<>>
      BY <2>1 DEF Types, FitAgents, Agent
    <3>2. r \in Elems(g.todo)
      BY <1>2, <1>5, <2>1, <3>1, ElemsHeadTail
    <3> QED BY <3>2 DEF Stock, Held
  <2>2. CASE g.pc # "flushing"
    BY <1>0, <1>2, <1>5, <2>2
  <2> QED BY <2>1, <2>2
<1>6. ASSUME NEW r \in RunIds, Nowhere(r)
      PROVE  Nowhere(r)'
  <2>1. Sent(r)' = {}
    BY <1>2, <1>5, <1>6 DEF Nowhere, Sent, Untouched
  <2> QED BY <1>3, <1>4, <1>6, <2>1 DEF Nowhere, Untouched
<1>7. ASSUME NEW r \in RunIds, NEW b \in Agents, agent[b].run = r, Reported(r, b)
      PROVE  Reported(r, b)'
  <2>1. ASSUME NEW u \in Threads, thread'[u].run = r
        PROVE  agent'[b].pc = "metering" /\ agent'[b].on = u
    <3>1. CASE u = t
      <4>1. g.pc = "metering" /\ g.run = r
        BY <1>5, <1>7, <2>1, <3>1 DEF Reported, Untouched
      <4>2. b = a
        BY <1>7, <4>1 DEF Reported
      <4> QED BY <1>3, <3>1, <4>1, <4>2
    <3>2. CASE u # t
      <4>1. agent[b].pc = "metering" /\ agent[b].on = u
        BY <1>2, <1>7, <2>1, <3>2 DEF Reported, Sent
      <4>2. b # a
        BY <1>0, <1>1, <4>1
      <4> QED BY <1>3, <4>1, <4>2
    <3> QED BY <3>1, <3>2
  <2>2. \A u \in Sent(r)' : agent'[b].pc = "metering" /\ agent'[b].on = u
    BY <2>1 DEF Sent
  <2> QED BY <1>1, <1>3, <1>4, <1>7, <2>2 DEF Reported, Untouched
<1>8. RunsApart'
  BY <1>1, <1>3, <1>6, <1>7 DEF WarnInv, RunsApart
<1>9. Calling'
  <2> SUFFICES ASSUME NEW b \in Agents, agent'[b].on # "none"
               PROVE  /\ thread'[agent'[b].on].stage # "free"
                      /\ \A c \in Agents : c # b => agent'[c].on # agent'[b].on
    BY DEF Calling
  <2>1. \A c \in Agents : c # a => agent[c].on # t
    BY <1>0, <1>1 DEF WarnInv, Calling
  <2>2. CASE b = a
    BY <1>2, <1>3, <2>1, <2>2
  <2>3. CASE b # a
    <3>1. agent[b].on # "none" /\ agent'[b].on = agent[b].on /\ agent[b].on # t
      BY <1>3, <2>1, <2>3
    <3>2. /\ thread[agent[b].on].stage # "free"
          /\ \A c \in Agents : c # b => agent[c].on # agent[b].on
      BY <3>1 DEF WarnInv, Calling
    <3> QED BY <1>0, <1>2, <1>3, <3>1, <3>2
  <2> QED BY <2>2, <2>3
<1> QED BY <1>8, <1>9 DEF WarnInv

LEMMA ApartKept ==
  ASSUME Types, WarnInv, [Next]_vars
  PROVE  WarnInv'
<1>1. ASSUME UNCHANGED <<runs, thread, store, agent, used, warned>>
      PROVE  WarnInv'
  BY <1>1 DEF WarnInv, Calling, RunsApart, Nowhere, Reported, Untouched, Counted, Stock, Sent
<1>2. CASE Webhook \/ Tick \/ UNCHANGED vars
  BY <1>1, <1>2 DEF Webhook, Tick, vars
<1> QED
  BY <1>2, BeginKeepsApart, FinishKeepsApart, UnansweredKeepsApart, SendKeepsApart,
     ServeKeepsApart DEF Next

LEMMA ApartInitially == Init => WarnInv
<1> SUFFICES ASSUME Init PROVE WarnInv
  OBVIOUS
<1>0. "none" \notin RunIds
  BY ApartFacts, TypesInitially
<1>1. Stock = {}
  BY IdleHolds, NoElems DEF Init, Stock, Blank
<1>2. Counted = {} /\ \A r \in RunIds : Sent(r) = {}
  BY <1>0 DEF Init, Counted, Sent, Free
<1>3. \A a \in Agents : agent[a].run = "none" /\ agent[a].on = "none"
  BY IdleHolds DEF Init
<1> QED BY <1>0, <1>1, <1>2, <1>3 DEF Init, WarnInv, Calling, RunsApart, Nowhere, Untouched

LEMMA ApartHolds == Spec => []WarnInv
<1>1. MeterInv /\ WarnInv /\ [Next]_vars => WarnInv'
  BY ApartKept DEF MeterInv
<1> QED BY ApartInitially, <1>1, MeterInvHolds, PTL DEF Spec

(* record_run and its callers: a user who was told that a run was not      *)
(* counted is never charged for it, for any number of clients, devices,    *)
(* server threads and runs, whatever is lost, late, repeated or killed: no *)
(* request that is still on the server carries that run, and no queue.     *)
THEOREM WarningsAreFinal == Spec => []WarnedIsFinal
<1>1. MeterInv /\ WarnInv => WarnedIsFinal
  BY DEF MeterInv, Types, WarnInv, RunsApart, Nowhere, Untouched, Stock, WarnedIsFinal, Queued, Elems
<1> QED BY <1>1, MeterInvHolds, ApartHolds, PTL

-----------------------------------------------------------------------------
(* Analyses that begin.                                                    *)

(* What a client has cached is covered when the day on which it was        *)
(* validated is not after the last usable day.  A quota of zero is never   *)
(* used, but a flush and a report go on with the state they began with,    *)
(* whatever quota the answers bring.                                       *)
Covered(s, day) == s.quota > 0 => s.validated <= day
ClientCovered(g, day) ==
  /\ Covered(g.mine, day)
  /\ g.pc \in {"flushing", "metering"} => g.mine.validated <= day

(* The thread that a client waits for serves the call it is in; and while  *)
(* it waits, the day does not change.                                      *)
Served(g, q) ==
  CASE g.pc = "activating" -> /\ q.stage \in {"activate", "insert_device"}
                              /\ q.stage = "insert_device" /\ q.ok => usable = now
    [] g.pc \in {"gate", "renewing"} -> q.stage = "validate"
    [] g.pc \in {"flushing", "metering"} -> q.stage \in {"check", "meter", "insert_run"}
    [] OTHER -> FALSE

CoverInv ==
  /\ usable <= now
  /\ Allowed(lic, runs, now) => usable = now
  /\ \A d \in Devices : Covered(store[d], usable)
  /\ \A a \in Agents : ClientCovered(agent[a], usable)
  /\ \A a \in Agents : agent[a].on # "none" => Served(agent[a], thread[agent[a].on])

(* A start that happens in this step is covered.                           *)
StartCovered ==
  \A a \in Agents : agent[a].pc # "analyzing" /\ agent'[a].pc = "analyzing" =>
    now <= usable + OfflineGrace

LEMMA CoverTypes ==
  ASSUME Types
  PROVE  /\ now \in Nat /\ usable \in Nat /\ OfflineGrace \in Nat /\ Quota \in Nat
         /\ \A s \in LicenseState : s.validated \in Nat /\ s.quota \in Nat
         /\ \A a \in Agents : agent[a].mine \in LicenseState
         /\ \A d \in Devices : store[d] \in LicenseState
         /\ \A a \in Agents : DeviceOf[a] \in Devices
         /\ \A a \in Agents : agent[a].on \in Threads \cup {"none"}
         /\ "none" \notin Threads
BY Constants, LicenseAssumption DEF Types, LicenseState, FitAgents, Agent, Day

LEMMA CoveredLater ==
  ASSUME NEW s \in LicenseState, NEW day \in Nat, NEW later \in Nat, day <= later
  PROVE  /\ Covered(s, day) => Covered(s, later)
         /\ s.validated <= day => Covered(s, later)
<1>1. s.validated \in Nat
  BY Constants DEF LicenseState, Day
<1> QED BY <1>1 DEF Covered

LEMMA OnwardCovered ==
  ASSUME NEW a, NEW r, NEW s \in LicenseState, NEW day \in Nat, s.validated <= day
  PROVE  ClientCovered(Onward(a, r, s), day)
BY OnwardHolds DEF ClientCovered, Covered

LEMMA IdleCovered ==
  ASSUME NEW day \in Nat
  PROVE  /\ ClientCovered(Idle, day) /\ Covered(Blank, day)
         /\ Idle.on = "none" /\ Idle.pc = "idle"
BY DEF ClientCovered, Covered, Idle, Blank

(* Client a goes on as h, and its device's license.json becomes s.         *)
Becomes(a, h) ==
  /\ agent' = [agent EXCEPT ![a] = h]
  /\ h.on = "none" /\ ClientCovered(h, usable)
  /\ h.pc = "analyzing" => now <= usable + OfflineGrace

LEMMA ReceiveCovered ==
  ASSUME Types, CoverInv, NEW a \in Agents, NEW code, NEW left \in 0 .. Quota,
         Receive(a, code, left),
         code = "ok" /\ agent[a].pc \in {"activating", "gate", "renewing"} => usable = now
  PROVE  /\ \E h : Becomes(a, h)
         /\ \A d \in Devices : Covered(store'[d], usable)
<1> DEFINE g == agent[a]
           mine == g.mine
           old == store[DeviceOf[a]]
<1>0. /\ now \in Nat /\ usable \in Nat /\ OfflineGrace \in Nat /\ now \in Day
      /\ g \in Agent /\ mine \in LicenseState /\ old \in LicenseState
      /\ mine.validated \in Nat /\ mine.quota \in Nat /\ left \in Nat
      /\ Covered(old, usable) /\ ClientCovered(g, usable)
      /\ g.todo \in Seq(RunIds) /\ g.kept \in Seq(RunIds)
  BY CoverTypes DEF CoverInv, Types, FitAgents, Agent
<1>i. ASSUME agent' = [agent EXCEPT ![a] = Idle]
      PROVE  \E h : Becomes(a, h)
  BY <1>0, <1>i, IdleCovered DEF Becomes
<1>b. ASSUME Blocked(a)
      PROVE  \E h : Becomes(a, h)
  BY <1>b, <1>i DEF Blocked
<1>o. ASSUME NEW r, NEW s \in LicenseState, s.validated <= usable,
             now <= usable + OfflineGrace, agent' = [agent EXCEPT ![a] = Onward(a, r, s)]
      PROVE  \E h : Becomes(a, h)
  <2> DEFINE h == Onward(a, r, s)
  <2>1. ClientCovered(h, usable) /\ h.on = "none"
    BY <1>0, <1>o, OnwardCovered, OnwardHolds
  <2>2. agent' = [agent EXCEPT ![a] = h]
    BY <1>o
  <2> HIDE DEF h
  <2> QED BY <1>o, <2>1, <2>2 DEF Becomes
<1>s. ASSUME NEW s, Saved(a, s), Covered(s, usable)
      PROVE  \A d \in Devices : Covered(store'[d], usable)
  BY <1>s DEF Saved, Types, CoverInv
<1>u. ASSUME store' = store
      PROVE  \A d \in Devices : Covered(store'[d], usable)
  BY <1>u DEF CoverInv
<1>1. CASE ReceiveActivation(a, code, left)
  <2> DEFINE s == [old EXCEPT !.token = g.token, !.quota = left, !.validated = now]
  <2>1. g.pc = "activating" /\ agent' = [agent EXCEPT ![a] = Idle]
    BY <1>1 DEF ReceiveActivation
  <2>2. CASE code = "ok"
    <3>1. s.validated = now
      BY <1>0 DEF LicenseState
    <3>2. Covered(s, usable)
      <4> HIDE DEF s
      <4> QED BY <1>0, <2>1, <2>2, <3>1 DEF Covered
    <3>3. Saved(a, s)
      BY <1>1, <2>2 DEF ReceiveActivation
    <3> HIDE DEF s
    <3> QED BY <1>i, <1>s, <2>1, <3>2, <3>3
  <2>3. CASE code # "ok"
    <3>1. store' = store
      BY <1>1, <2>3 DEF ReceiveActivation
    <3> QED BY <1>i, <1>u, <2>1, <3>1
  <2> QED BY <2>2, <2>3
<1>2. CASE ReceiveValidation(a, code, left)
  <2> DEFINE s == [mine EXCEPT !.quota = left, !.validated = now]
  <2>1. g.pc \in {"gate", "renewing"}
    BY <1>2 DEF ReceiveValidation
  <2>2. CASE code = "ok"
    <3>1. s.validated = now /\ s \in LicenseState /\ usable = now
      BY <1>0, <2>1, <2>2 DEF LicenseState
    <3>2. /\ Saved(a, s)
          /\ Blocked(a) \/ agent' = [agent EXCEPT ![a] = Onward(a, g.run, s)]
      BY <1>2, <2>2 DEF ReceiveValidation
    <3> HIDE DEF s
    <3>3. Covered(s, usable) /\ s.validated <= usable /\ now <= usable + OfflineGrace
      BY <1>0, <3>1 DEF Covered
    <3> QED BY <1>b, <1>o, <1>s, <3>1, <3>2, <3>3
  <2>3. CASE code # "ok"
    <3>1. CASE Blocked(a)
      <4>1. store' = store \/ Saved(a, Blank)
        BY <1>2, <2>3 DEF ReceiveValidation
      <4> QED BY <1>0, <1>b, <1>s, <1>u, <3>1, <4>1, IdleCovered
    <3>2. CASE ~Blocked(a)
      <4>1. /\ store' = store /\ OfflineOK(mine)
            /\ agent' = [agent EXCEPT ![a] = Onward(a, g.run, mine)]
        BY <1>2, <2>3, <3>2 DEF ReceiveValidation
      <4>2. mine.validated <= usable /\ now <= usable + OfflineGrace
        BY <1>0, <4>1 DEF OfflineOK, ClientCovered, Covered
      <4> QED BY <1>0, <1>o, <1>u, <4>1, <4>2
    <3> QED BY <3>1, <3>2
  <2> QED BY <2>2, <2>3
<1>3. CASE ReceiveFlush(a, code, left)
  <2> DEFINE kept == IF code = "ok" THEN g.kept ELSE Append(g.kept, Head(g.todo))
             quota == IF code = "ok" THEN left ELSE mine.quota
             s == [mine EXCEPT !.pending = kept, !.quota = quota]
  <2>1. g.pc = "flushing" /\ mine.validated <= usable
    BY <1>0, <1>3 DEF ReceiveFlush, ClientCovered
  <2>2. s.validated <= usable
    BY <1>0, <2>1 DEF LicenseState
  <2>3. store' = store \/ Saved(a, s)
    BY <1>3 DEF ReceiveFlush
  <2>4. \A d \in Devices : Covered(store'[d], usable)
    <3>1. Covered(s, usable)
      BY <2>2 DEF Covered
    <3> HIDE DEF s
    <3> QED BY <1>s, <1>u, <2>3, <3>1
  <2>5. CASE Blocked(a)
    BY <1>b, <2>4, <2>5
  <2>6. ASSUME agent' = [agent EXCEPT ![a] =
                 [g EXCEPT !.on = "none", !.todo = Tail(g.todo), !.kept = kept,
                           !.mine.quota = quota]]
        PROVE  \E h : Becomes(a, h)
    <3> DEFINE h == [g EXCEPT !.on = "none", !.todo = Tail(g.todo), !.kept = kept,
                              !.mine.quota = quota]
    <3> HIDE DEF kept, quota
    <3>1. h.on = "none" /\ h.pc = g.pc /\ h.mine.validated = mine.validated
      BY <1>0 DEF Agent, LicenseState
    <3>2. agent' = [agent EXCEPT ![a] = h]
      BY <2>6
    <3> HIDE DEF h
    <3>3. ClientCovered(h, usable)
      BY <2>1, <3>1 DEF ClientCovered, Covered
    <3> QED BY <2>1, <3>1, <3>2, <3>3 DEF Becomes
  <2>7. ASSUME agent' = [agent EXCEPT ![a] = [Idle EXCEPT !.pc = "metering",
                                                !.run = g.run, !.mine = s]]
        PROVE  \E h : Becomes(a, h)
    <3> DEFINE h == [Idle EXCEPT !.pc = "metering", !.run = g.run, !.mine = s]
    <3> HIDE DEF s
    <3>1. h.on = "none" /\ h.pc = "metering" /\ h.mine = s
      BY DEF Idle
    <3>2. agent' = [agent EXCEPT ![a] = h]
      BY <2>7
    <3> HIDE DEF h
    <3>3. ClientCovered(h, usable)
      BY <2>2, <3>1 DEF ClientCovered, Covered
    <3> QED BY <3>1, <3>2, <3>3 DEF Becomes
  <2>8. ASSUME ~Blocked(a)
        PROVE  \E h : Becomes(a, h)
    BY <1>3, <2>6, <2>7, <2>8 DEF ReceiveFlush
  <2> QED BY <2>4, <2>5, <2>8
<1>4. CASE ReceiveMeter(a, code, left)
  <2>1. g.pc = "metering" /\ mine.validated <= usable
    BY <1>0, <1>4 DEF ReceiveMeter, ClientCovered
  <2>2. agent' = [agent EXCEPT ![a] = Idle]
    BY <1>4 DEF ReceiveMeter, Blocked
  <2>3. \E s : /\ s.validated <= usable
               /\ Saved(a, s) \/ store' = store
    <3> DEFINE s1 == [mine EXCEPT !.quota = left]
               s2 == [mine EXCEPT !.pending = Append(@, g.run)]
    <3>1. s1.validated <= usable /\ s2.validated <= usable
      BY <1>0, <2>1 DEF LicenseState
    <3>2. Saved(a, s1) \/ Saved(a, s2) \/ store' = store
      BY <1>4 DEF ReceiveMeter
    <3> HIDE DEF s1, s2
    <3> QED BY <3>1, <3>2
  <2>4. \A d \in Devices : Covered(store'[d], usable)
    <3>1. PICK s : /\ s.validated <= usable
                   /\ Saved(a, s) \/ store' = store
      BY <2>3
    <3> QED BY <1>s, <1>u, <3>1 DEF Covered
  <2> QED BY <1>i, <2>2, <2>4
<1> QED BY <1>1, <1>2, <1>3, <1>4 DEF Receive

(* What every step keeps while the day stays the same.                     *)
StaysCovered ==
  /\ \A d \in Devices : Covered(store'[d], usable)
  /\ \A b \in Agents : ClientCovered(agent'[b], usable)
  /\ \A b \in Agents : agent'[b].on # "none" => Served(agent'[b], thread'[agent'[b].on])
  /\ StartCovered

LEMMA OneClientCovered ==
  ASSUME Types, CoverInv, NEW a \in Agents, NEW h, Becomes(a, h),
         \A d \in Devices : Covered(store'[d], usable),
         \A b \in Agents : b # a /\ agent[b].on # "none" =>
           thread'[agent[b].on] = thread[agent[b].on]
  PROVE  StaysCovered
<1>1. /\ \A b \in Agents : b # a => agent'[b] = agent[b]
      /\ agent'[a] = h
  BY DEF Becomes, Types
<1>2. \A b \in Agents : ClientCovered(agent'[b], usable)
  BY <1>1 DEF CoverInv, Becomes
<1>3. \A b \in Agents : agent'[b].on # "none" => Served(agent'[b], thread'[agent'[b].on])
  <2> SUFFICES ASSUME NEW b \in Agents, agent'[b].on # "none"
               PROVE  Served(agent'[b], thread'[agent'[b].on])
    OBVIOUS
  <2>1. b # a /\ agent'[b] = agent[b]
    BY <1>1 DEF Becomes
  <2>2. Served(agent[b], thread[agent[b].on]) /\ thread'[agent[b].on] = thread[agent[b].on]
    BY <2>1 DEF CoverInv
  <2> QED BY <2>1, <2>2
<1>4. StartCovered
  BY <1>1 DEF StartCovered, Becomes
<1> QED BY <1>2, <1>3, <1>4 DEF StaysCovered

(* An "ok" to a client that activates or validates says: usable today.     *)
Vouched(t, code) ==
  \A g : Served(g, thread[t]) /\ code = "ok" /\ g.pc \in {"activating", "gate", "renewing"} =>
    usable = now

LEMMA AnswerCovered ==
  ASSUME Types, WarnInv, CoverInv, NEW t \in Threads, NEW code, NEW left \in 0 .. Quota,
         Answer(t, code, left), Vouched(t, code)
  PROVE  StaysCovered
<1>1. \A u \in Threads : u # t => thread'[u] = thread[u]
  BY DEF Answer, Types
<1>2. \A b \in Agents : agent[b].on # t /\ agent[b].on # "none" =>
        thread'[agent[b].on] = thread[agent[b].on]
  BY <1>1, CoverTypes
<1>3. CASE \E a \in Agents : agent[a].on = t /\ Receive(a, code, left)
  <2>1. PICK a \in Agents : agent[a].on = t /\ Receive(a, code, left)
    BY <1>3
  <2>2. agent[a].on # "none" /\ \A b \in Agents : b # a => agent[b].on # t
    BY <2>1, CoverTypes DEF WarnInv, Calling
  <2>3. Served(agent[a], thread[t])
    BY <2>1, <2>2 DEF CoverInv
  <2>4. code = "ok" /\ agent[a].pc \in {"activating", "gate", "renewing"} => usable = now
    BY <2>3 DEF Vouched
  <2>5. /\ \E h : Becomes(a, h)
        /\ \A d \in Devices : Covered(store'[d], usable)
    BY <2>1, <2>4, ReceiveCovered
  <2> QED BY <1>2, <2>2, <2>5, OneClientCovered
<1>4. CASE (\A a \in Agents : agent[a].on # t) /\ UNCHANGED <<store, agent, warned>>
  <2>1. \A b \in Agents : agent'[b].on # "none" => Served(agent'[b], thread'[agent'[b].on])
    <3> SUFFICES ASSUME NEW b \in Agents, agent[b].on # "none"
                 PROVE  Served(agent[b], thread'[agent[b].on])
      BY <1>4
    <3>1. Served(agent[b], thread[agent[b].on]) /\ thread'[agent[b].on] = thread[agent[b].on]
      BY <1>2, <1>4 DEF CoverInv
    <3> QED BY <3>1
  <2> QED BY <1>4, <2>1 DEF StaysCovered, StartCovered, CoverInv
<1> QED BY <1>3, <1>4 DEF Answer

LEMMA InsideCovered ==
  ASSUME Types, CoverInv, NEW t \in Threads, NEW q, thread' = [thread EXCEPT ![t] = q],
         \A g : Served(g, thread[t]) => Served(g, q),
         UNCHANGED <<store, agent>>
  PROVE  StaysCovered
<1>1. /\ \A u \in Threads : u # t => thread'[u] = thread[u]
      /\ thread'[t] = q
  BY DEF Types
<1>2. \A b \in Agents : agent'[b].on # "none" => Served(agent'[b], thread'[agent'[b].on])
  <2> SUFFICES ASSUME NEW b \in Agents, agent[b].on # "none"
               PROVE  Served(agent[b], thread'[agent[b].on])
    OBVIOUS
  <2>1. agent[b].on \in Threads /\ Served(agent[b], thread[agent[b].on])
    BY CoverTypes DEF CoverInv
  <2> QED BY <1>1, <2>1
<1> QED BY <1>2 DEF StaysCovered, StartCovered, CoverInv

(* A run that is counted takes quota; it never allows what was not.        *)
LEMMA CountingAllowsNoMore ==
  ASSUME Types, NEW x, NEW l, NEW day, Allowed(l, runs \cup {x}, day)
  PROVE  Allowed(l, runs, day)
<1> DEFINE old == RunsSince(l, runs)
           new == RunsSince(l, runs \cup {x})
<1>1. IsFiniteSet(runs) /\ IsFiniteSet(runs \cup {x})
  BY FS_AddElement DEF Types
<1>2. new \in SUBSET (runs \cup {x}) /\ old \in SUBSET new
  BY DEF RunsSince
<1>3. IsFiniteSet(new) /\ Cardinality(new) \in Nat
  BY <1>1, <1>2, Sizes
<1>4. Cardinality(old) \in Nat /\ Cardinality(old) <= Cardinality(new)
  BY <1>2, <1>3, Sizes
<1>5. QuotaLeft(l, runs \cup {x}) > 0 => QuotaLeft(l, runs) > 0
  <2> HIDE DEF old, new
  <2>1. QuotaLeft(l, runs) = IF Cardinality(old) < Quota THEN Quota - Cardinality(old) ELSE 0
    BY DEF QuotaLeft, old
  <2>2. QuotaLeft(l, runs \cup {x})
          = IF Cardinality(new) < Quota THEN Quota - Cardinality(new) ELSE 0
    BY DEF QuotaLeft, new
  <2> QED BY <1>3, <1>4, <2>1, <2>2, Constants
<1> QED BY <1>5 DEF Allowed

LEMMA ServeCovered ==
  ASSUME Types, WarnInv, CoverInv, NEW t \in Threads, Serve(t) \/ ThreadDies(t)
  PROVE  /\ StaysCovered /\ UNCHANGED <<now, lic, usable>>
         /\ Allowed(lic, runs', now) => Allowed(lic, runs, now)
<1> DEFINE q == thread[t]
           left == QuotaLeft(lic, runs)
<1>1. q \in Request /\ q.left \in 0 .. Quota /\ left \in 0 .. Quota /\ 0 \in 0 .. Quota
  BY QuotaLeftType, Constants DEF Types, FitRequests, Request
<1>2. UNCHANGED <<now, lic, usable>>
  BY DEF Serve, ActivateReads, ActivateCommits, Validate, MeterValidates, MeterReads,
         MeterInserts, ThreadDies
<1>3. Allowed(lic, runs, now) => usable = now
  BY DEF CoverInv
<1>4. \A code : code # "ok" => Vouched(t, code)
  BY DEF Vouched
<1>5. ASSUME NEW code, NEW n \in 0 .. Quota, Answer(t, code, n), Vouched(t, code), runs' = runs
      PROVE  StaysCovered /\ (Allowed(lic, runs', now) => Allowed(lic, runs, now))
  BY <1>5, AnswerCovered
<1>6. ASSUME NEW x, thread' = [thread EXCEPT ![t] = x], UNCHANGED <<store, agent>>,
             runs' = runs, \A g : Served(g, thread[t]) => Served(g, x)
      PROVE  StaysCovered /\ (Allowed(lic, runs', now) => Allowed(lic, runs, now))
  BY <1>6, InsideCovered
<1>7. CASE ActivateReads(t)
  <2> DEFINE x == [AtStage(t, "insert_device") EXCEPT
                     !.fresh = tokens[q.device] = 0,
                     !.ok = Allowed(lic, runs, now), !.left = left]
  <2>1. x.stage = "insert_device" /\ x.ok = Allowed(lic, runs, now) /\ q.stage = "activate"
    BY <1>1, <1>7 DEF AtStage, Request, ActivateReads
  <2>2. /\ runs' = runs
        /\ \/ Answer(t, "refused", 0)
           \/ thread' = [thread EXCEPT ![t] = x] /\ UNCHANGED <<store, agent>>
    BY <1>7 DEF ActivateReads
  <2> HIDE DEF x
  <2>3. \A g : Served(g, q) => Served(g, x)
    BY <1>3, <2>1 DEF Served
  <2> QED BY <1>1, <1>2, <1>4, <1>5, <1>6, <2>2, <2>3
<1>8. CASE ActivateCommits(t)
  <2>1. q.stage = "insert_device" /\ runs' = runs
    BY <1>8 DEF ActivateCommits
  <2>2. \/ Answer(t, "refused", 0)
        \/ Answer(t, IF q.ok THEN "ok" ELSE "refused", q.left)
    BY <1>8 DEF ActivateCommits
  <2>3. q.ok => Vouched(t, "ok")
    BY <2>1 DEF Vouched, Served
  <2> QED BY <1>1, <1>2, <1>4, <1>5, <2>1, <2>2, <2>3
<1>9. CASE Validate(t)
  <2>1. runs' = runs
    BY <1>9 DEF Validate
  <2>2. \/ Allowed(lic, runs, now) /\ Answer(t, "ok", left)
        \/ Answer(t, "invalid", left) \/ Answer(t, "refused", left)
    BY <1>9 DEF Validate
  <2>3. Allowed(lic, runs, now) => Vouched(t, "ok")
    BY <1>3 DEF Vouched
  <2> QED BY <1>1, <1>2, <1>4, <1>5, <2>1, <2>2, <2>3
<1>10. CASE MeterValidates(t)
  <2> DEFINE x == [AtStage(t, "meter") EXCEPT !.lic = lic, !.left = left]
  <2>1. x.stage = "meter" /\ q.stage = "check"
    BY <1>1, <1>10 DEF AtStage, Request, MeterValidates
  <2>2. /\ runs' = runs
        /\ \/ Answer(t, "refused", 0) \/ Answer(t, "invalid", 0)
           \/ thread' = [thread EXCEPT ![t] = x] /\ UNCHANGED <<store, agent>>
    BY <1>10 DEF MeterValidates
  <2> HIDE DEF x
  <2>3. \A g : Served(g, q) => Served(g, x)
    BY <2>1 DEF Served
  <2> QED BY <1>1, <1>2, <1>4, <1>5, <1>6, <2>2, <2>3
<1>11. CASE MeterReads(t)
  <2> DEFINE x == AtStage(t, "insert_run")
  <2>1. x.stage = "insert_run" /\ q.stage = "meter"
    BY <1>1, <1>11 DEF AtStage, Request, MeterReads
  <2>2. /\ runs' = runs
        /\ \/ Answer(t, "ok", q.left) \/ Answer(t, "refused", 0)
           \/ thread' = [thread EXCEPT ![t] = x] /\ UNCHANGED <<store, agent>>
    BY <1>11 DEF MeterReads
  <2> HIDE DEF x
  <2>3. \A g : Served(g, q) => Served(g, x)
    BY <2>1 DEF Served
  <2>4. Vouched(t, "ok")
    BY <2>1 DEF Vouched, Served
  <2> QED BY <1>1, <1>2, <1>4, <1>5, <1>6, <2>2, <2>3, <2>4
<1>12. CASE MeterInserts(t)
  <2>1. q.stage = "insert_run"
    BY <1>12 DEF MeterInserts
  <2>2. CASE Answer(t, "refused", 0) /\ runs' = runs
    BY <1>1, <1>2, <1>4, <1>5, <2>2
  <2>3. CASE /\ runs' = runs \cup {[id |-> q.run, day |-> now]}
             /\ Answer(t, "ok", QuotaLeft(q.lic, runs'))
    <3>1. Vouched(t, "ok")
      BY <2>1 DEF Vouched, Served
    <3>2. QuotaLeft(q.lic, runs') \in 0 .. Quota
      <4>1. IsFiniteSet(runs')
        BY <2>3, FS_AddElement DEF Types
      <4> QED BY <4>1, QuotaLeftType
    <3>3. StaysCovered
      BY <2>3, <3>1, <3>2, AnswerCovered
    <3>4. Allowed(lic, runs', now) => Allowed(lic, runs, now)
      BY <2>3, CountingAllowsNoMore
    <3> QED BY <1>2, <3>3, <3>4
  <2> QED BY <1>12, <2>2, <2>3 DEF MeterInserts
<1>13. CASE ThreadDies(t)
  <2>1. runs' = runs /\ Answer(t, "unreachable", 0)
    BY <1>13 DEF ThreadDies
  <2> QED BY <1>1, <1>2, <1>4, <1>5, <2>1
<1> QED BY <1>7, <1>8, <1>9, <1>10, <1>11, <1>12, <1>13 DEF Serve

(* license.json is used without a call only on the day it was validated.   *)
LEMMA FreshStateIsCovered ==
  ASSUME Types, CoverInv, NEW d \in Devices, ~NeedsRefresh(store[d])
  PROVE  store[d].validated <= usable /\ now <= usable + OfflineGrace
<1>1. /\ store[d].validated \in Nat /\ store[d].quota \in Nat /\ now \in Nat
      /\ usable \in Nat /\ OfflineGrace \in Nat
  BY CoverTypes
<1>2. ~(now > store[d].validated) /\ store[d].quota # 0
  BY DEF NeedsRefresh
<1>3. store[d].validated <= usable
  BY <1>1, <1>2 DEF CoverInv, Covered
<1> QED BY <1>1, <1>2, <1>3

LEMMA ClientStepCovered ==
  ASSUME Types, CoverInv, NEW a \in Agents,
         StartActivation(a) \/ StartRun(a) \/ FinishRun(a) \/ Quit(a) \/ Unanswered(a)
  PROVE  StaysCovered
<1> DEFINE s == store[DeviceOf[a]]
<1>0. DeviceOf[a] \in Devices /\ usable \in Nat /\ s \in LicenseState /\ Covered(s, usable)
  BY CoverTypes DEF CoverInv
<1>1. thread' = thread
  BY DEF StartActivation, StartRun, FinishRun, Quit, Unanswered
<1>2. ASSUME NEW h, Becomes(a, h), store' = store
      PROVE  StaysCovered
  <2>1. \A d \in Devices : Covered(store'[d], usable)
    BY <1>2 DEF CoverInv
  <2> QED BY <1>1, <1>2, <2>1, OneClientCovered
<1>3. ASSUME agent' = [agent EXCEPT ![a] = Idle], store' = store
      PROVE  StaysCovered
  <2>1. Becomes(a, Idle)
    BY <1>0, <1>3, IdleCovered DEF Becomes
  <2> QED BY <1>2, <1>3, <2>1
<1>4. ASSUME NEW h, agent' = [agent EXCEPT ![a] = h], h.on = "none", h.mine = s,
             h.pc \in {"gate", "renewing"}, store' = store
      PROVE  StaysCovered
  <2>1. ClientCovered(h, usable)
    BY <1>0, <1>4 DEF ClientCovered
  <2>2. Becomes(a, h)
    BY <1>4, <2>1 DEF Becomes
  <2> QED BY <1>2, <1>4, <2>2
<1>5. ASSUME NEW r, agent' = [agent EXCEPT ![a] = Onward(a, r, s)], ~NeedsRefresh(s),
             store' = store
      PROVE  StaysCovered
  <2>1. s.validated <= usable /\ now <= usable + OfflineGrace
    BY <1>0, <1>5, FreshStateIsCovered
  <2> DEFINE h == Onward(a, r, s)
  <2>2. ClientCovered(h, usable) /\ h.on = "none" /\ agent' = [agent EXCEPT ![a] = h]
    BY <1>0, <1>5, <2>1, OnwardCovered, OnwardHolds
  <2> HIDE DEF h
  <2>3. Becomes(a, h)
    BY <2>1, <2>2 DEF Becomes
  <2> QED BY <1>2, <1>5, <2>3
<1>6. CASE StartActivation(a)
  <2> DEFINE h == [Idle EXCEPT !.pc = "activating", !.token = asked + 1]
  <2>1. h.on = "none" /\ h.pc = "activating" /\ h.mine = Blank
    BY DEF Idle
  <2>2. agent' = [agent EXCEPT ![a] = h] /\ store' = store
    BY <1>6 DEF StartActivation
  <2> HIDE DEF h
  <2>3. ClientCovered(h, usable)
    BY <1>0, <2>1, IdleCovered DEF ClientCovered
  <2>4. Becomes(a, h)
    BY <2>1, <2>2, <2>3 DEF Becomes
  <2> QED BY <1>2, <2>2, <2>4
<1>7. CASE StartRun(a)
  <2> DEFINE h == [Idle EXCEPT !.pc = "gate", !.mine = s]
  <2>1. h.on = "none" /\ h.pc = "gate" /\ h.mine = s
    BY DEF Idle
  <2>2. /\ store' = store
        /\ \/ agent' = [agent EXCEPT ![a] = h]
           \/ ~NeedsRefresh(s) /\ agent' = [agent EXCEPT ![a] = Onward(a, "none", s)]
    BY <1>7 DEF StartRun
  <2> HIDE DEF h, s
  <2> QED BY <1>4, <1>5, <2>1, <2>2
<1>8. CASE FinishRun(a)
  <2>1. PICK x \in RunIds \ used :
          /\ used' = used \cup {x}
          /\ warned' = IF s.token = 0 THEN warned \cup {x} ELSE warned
          /\ agent' = [agent EXCEPT ![a] =
               CASE s.token = 0 -> Idle
                 [] s.token # 0 /\ NeedsRefresh(s) ->
                      [Idle EXCEPT !.pc = "renewing", !.run = x, !.mine = s]
                 [] OTHER -> Onward(a, x, s)]
    BY <1>8 DEF FinishRun
  <2> DEFINE h == [Idle EXCEPT !.pc = "renewing", !.run = x, !.mine = s]
  <2>2. h.on = "none" /\ h.pc = "renewing" /\ h.mine = s
    BY DEF Idle
  <2>3. store' = store
    BY <1>8 DEF FinishRun
  <2>4. \/ agent' = [agent EXCEPT ![a] = Idle]
        \/ agent' = [agent EXCEPT ![a] = h]
        \/ ~NeedsRefresh(s) /\ agent' = [agent EXCEPT ![a] = Onward(a, x, s)]
    BY <2>1
  <2> HIDE DEF h, s
  <2> QED BY <1>3, <1>4, <1>5, <2>2, <2>3, <2>4
<1>9. CASE Quit(a)
  BY <1>3, <1>9 DEF Quit
<1>10. CASE Unanswered(a)
  <2>1. Receive(a, "unreachable", 0) /\ 0 \in 0 .. Quota
    BY <1>10, Constants DEF Unanswered
  <2>2. /\ \E h : Becomes(a, h)
        /\ \A d \in Devices : Covered(store'[d], usable)
    BY <2>1, ReceiveCovered
  <2> QED BY <1>1, <2>2, OneClientCovered
<1> QED BY <1>6, <1>7, <1>8, <1>9, <1>10

LEMMA SendCovered ==
  ASSUME Types, WarnInv, CoverInv, NEW a \in Agents, NEW t \in Threads, Send(a, t)
  PROVE  StaysCovered
<1> DEFINE g == agent[a]
<1>0. "none" \notin Threads /\ \A b \in Agents : agent[b].on \in Threads \cup {"none"}
  BY CoverTypes
<1>1. g.pc \in Calls /\ g.on = "none" /\ thread[t].stage = "free" /\ store' = store
  BY DEF Send
<1>2. /\ \A u \in Threads : u # t => thread'[u] = thread[u]
      /\ thread'[t].stage = CASE g.pc = "activating" -> "activate"
                              [] g.pc \in {"gate", "renewing"} -> "validate"
                              [] g.pc \in {"flushing", "metering"} -> "check"
  BY DEF Send, Types, Free
<1>3. /\ \A b \in Agents : b # a => agent'[b] = agent[b]
      /\ \A b \in Agents : agent'[b].mine = agent[b].mine /\ agent'[b].pc = agent[b].pc
      /\ agent'[a].on = t
  BY DEF Send, Types, FitAgents, Agent
<1>4. \A b \in Agents : ClientCovered(agent'[b], usable)
  BY <1>3 DEF CoverInv, ClientCovered
<1>5. \A b \in Agents : agent'[b].on # "none" => Served(agent'[b], thread'[agent'[b].on])
  <2> SUFFICES ASSUME NEW b \in Agents, agent'[b].on # "none"
               PROVE  Served(agent'[b], thread'[agent'[b].on])
    OBVIOUS
  <2>1. CASE b = a
    BY <1>1, <1>2, <1>3, <2>1 DEF Served, Calls
  <2>2. CASE b # a
    <3>1. agent[b].on # "none" /\ agent'[b] = agent[b]
      BY <1>3, <2>2
    <3>2. agent[b].on # t /\ Served(agent[b], thread[agent[b].on])
      BY <1>1, <3>1 DEF WarnInv, Calling, CoverInv
    <3>3. thread'[agent[b].on] = thread[agent[b].on]
      BY <1>0, <1>2, <3>1, <3>2
    <3> QED BY <3>1, <3>2, <3>3
  <2> QED BY <2>1, <2>2
<1>6. StartCovered
  BY <1>3 DEF StartCovered
<1>7. \A d \in Devices : Covered(store'[d], usable)
  BY <1>1 DEF CoverInv
<1> QED BY <1>4, <1>5, <1>6, <1>7 DEF StaysCovered

(* What a subscription event or the clock does to the last usable day.     *)
LEMMA UsableMovesOn ==
  ASSUME Types, CoverInv, NEW l, NEW day \in Day, now <= day
  PROVE  /\ LastUsable(l, day) \in Nat
         /\ LastUsable(l, day) <= day /\ usable <= LastUsable(l, day)
         /\ Allowed(l, runs, day) => LastUsable(l, day) = day
         /\ usable = day => LastUsable(l, day) = day
<1>1. now \in Nat /\ usable \in Nat /\ day \in Nat /\ usable <= now
  BY CoverTypes, Constants DEF CoverInv
<1>2. LastUsable(l, day) = IF Allowed(l, runs, day) THEN day ELSE usable
  BY DEF LastUsable
<1> HIDE DEF LastUsable, Allowed
<1> QED BY <1>1, <1>2

LEMMA WorldCovered ==
  ASSUME Types, CoverInv, Webhook \/ Tick
  PROVE  CoverInv' /\ StartCovered
<1>1. /\ UNCHANGED <<runs, thread, store, agent>>
      /\ now' \in Day /\ now' \in Nat /\ now <= now' /\ usable' = LastUsable(lic', now')
      /\ now' = now \/ \A a \in Agents : agent[a].pc \in {"idle", "analyzing"}
  <2>1. now \in Day /\ now \in Nat /\ MaxDay \in Nat
    BY Constants, CoverTypes DEF Types
  <2>2. CASE Webhook
    BY <2>1, <2>2 DEF Webhook
  <2>3. CASE Tick
    BY <2>1, <2>3 DEF Tick, Day
  <2> QED BY <2>2, <2>3
<1>2. /\ usable \in Nat /\ usable' \in Nat /\ usable' <= now' /\ usable <= usable'
      /\ Allowed(lic', runs, now') => usable' = now'
      /\ usable = now' => usable' = now'
  BY <1>1, UsableMovesOn, CoverTypes
<1>3. Allowed(lic, runs, now)' => usable' = now'
  BY <1>1, <1>2 DEF Allowed, Expired, InGrace, QuotaLeft, RunsSince
<1>4. \A d \in Devices : Covered(store'[d], usable')
  BY <1>1, <1>2, CoverTypes, CoveredLater DEF CoverInv
<1>5. \A a \in Agents : ClientCovered(agent'[a], usable')
  <2> SUFFICES ASSUME NEW a \in Agents
               PROVE  ClientCovered(agent[a], usable')
    BY <1>1
  <2>1. ClientCovered(agent[a], usable) /\ agent[a].mine.validated \in Nat
    BY CoverTypes DEF CoverInv
  <2> QED BY <1>2, <2>1 DEF ClientCovered, Covered
<1>6. \A a \in Agents : agent'[a].on # "none" => Served(agent[a], thread[agent[a].on])'
  <2> SUFFICES ASSUME NEW a \in Agents, agent[a].on # "none"
               PROVE  Served(agent[a], thread[agent[a].on])'
    BY <1>1
  <2>1. Served(agent[a], thread[agent[a].on])
    BY DEF CoverInv
  <2>2. agent[a].pc \notin {"idle", "analyzing"}
    BY <2>1 DEF Served
  <2>3. now' = now /\ (usable = now => usable' = now')
    BY <1>1, <1>2, <2>2
  <2> QED BY <1>1, <2>1, <2>3 DEF Served
<1> QED BY <1>1, <1>2, <1>3, <1>4, <1>5, <1>6 DEF CoverInv, StartCovered

LEMMA CoverKept ==
  ASSUME Types, WarnInv, CoverInv, [Next]_vars
  PROVE  CoverInv' /\ StartCovered
<1>1. ASSUME StaysCovered, UNCHANGED <<now, lic, usable>>,
             Allowed(lic, runs', now) => Allowed(lic, runs, now)
      PROVE  CoverInv' /\ StartCovered
  <2>1. Allowed(lic, runs, now)' => usable' = now'
    <3>1. Allowed(lic, runs, now)' => Allowed(lic, runs', now)
      BY <1>1 DEF Allowed, Expired, InGrace, QuotaLeft, RunsSince
    <3> QED BY <1>1, <3>1 DEF CoverInv
  <2>2. \A g, q : Served(g, q) => Served(g, q)'
    BY <1>1 DEF Served
  <2>3. \A a \in Agents : agent'[a].on # "none" => Served(agent[a], thread[agent[a].on])'
    BY <1>1, <2>2 DEF StaysCovered
  <2> QED BY <1>1, <2>1, <2>3 DEF CoverInv, StaysCovered
<1>2. ASSUME NEW a \in Agents, StartActivation(a) \/ StartRun(a) \/ FinishRun(a) \/ Quit(a)
                               \/ Unanswered(a) \/ \E t \in Threads : Send(a, t)
      PROVE  CoverInv' /\ StartCovered
  <2>1. UNCHANGED <<now, lic, usable, runs>>
    BY <1>2 DEF StartActivation, StartRun, FinishRun, Quit, Unanswered, Send
  <2>2. StaysCovered
    BY <1>2, ClientStepCovered, SendCovered
  <2> QED BY <1>1, <2>1, <2>2
<1>3. ASSUME NEW t \in Threads, Serve(t) \/ ThreadDies(t)
      PROVE  CoverInv' /\ StartCovered
  BY <1>1, <1>3, ServeCovered
<1>4. CASE UNCHANGED vars
  <2>1. StaysCovered /\ runs' = runs /\ UNCHANGED <<now, lic, usable>>
    BY <1>4 DEF vars, StaysCovered, CoverInv, StartCovered
  <2> QED BY <1>1, <2>1
<1> QED BY <1>2, <1>3, <1>4, WorldCovered DEF Next

LEMMA CoverInitially == Init => CoverInv
<1> SUFFICES ASSUME Init PROVE CoverInv
  OBVIOUS
<1>1. now = 1 /\ usable = 1
  BY DEF Init
<1>2. /\ \A d \in Devices : Covered(store[d], usable)
      /\ \A a \in Agents : ClientCovered(agent[a], usable) /\ agent[a].on = "none"
  BY <1>1, IdleCovered DEF Init
<1> QED BY <1>1, <1>2 DEF CoverInv

LEMMA CoverHolds == Spec => []CoverInv
<1>1. MeterInv /\ WarnInv /\ CoverInv /\ [Next]_vars => CoverInv'
  BY CoverKept DEF MeterInv
<1> QED BY CoverInitially, <1>1, MeterInvHolds, ApartHolds, PTL DEF Spec

(* AnalyzeRunner.run and ensure_valid: whatever the clients have cached,   *)
(* and however answers, webhooks and days interleave, an analysis begins   *)
(* only within OfflineGrace days of a day on which the server's own        *)
(* evaluate_access would have allowed it.                                  *)
THEOREM EveryStartIsCovered == Spec => StartsAreCovered
<1>1. MeterInv /\ WarnInv /\ CoverInv /\ [Next]_vars =>
        [\A a \in Agents : StartsAnalysis(a) => now <= usable + OfflineGrace]_vars
  BY CoverKept DEF MeterInv, StartCovered, StartsAnalysis
<1> QED BY <1>1, MeterInvHolds, ApartHolds, CoverHolds, PTL DEF Spec, StartsAreCovered

-----------------------------------------------------------------------------
(* The queues of runs that are still to be counted.                        *)

(* What a client that begins a call has read is what is on the disk, and   *)
(* its token is not blank; later nothing on the disk is unaccounted for: it *)
(* is still to be sent, it will be kept, or it is counted.                 *)
Accounts(g, s, counted) ==
  CASE g.pc \in {"gate", "renewing"} ->
         /\ g.mine.pending = s.pending /\ g.mine.token = s.token
         /\ g.mine.token # 0
    [] g.pc = "flushing" -> Elems(s.pending) \subseteq Elems(g.kept) \cup Elems(g.todo) \cup counted
    [] g.pc = "metering" -> Elems(s.pending) \subseteq Elems(g.mine.pending) \cup counted
    [] OTHER -> TRUE

(* What the thread that a client waits for has been sent.                  *)
Carries(a, g, q) ==
  /\ q.device = DeviceOf[a]
  /\ g.pc \in {"gate", "renewing"} => q.token = g.mine.token
  /\ g.pc = "flushing" => q.run = Head(g.todo)

QueueInv ==
  \A a \in Agents :
    /\ Accounts(agent[a], store[DeviceOf[a]], Counted)
    /\ agent[a].on # "none" => Carries(a, agent[a], thread[agent[a].on])

(* One client process at a time works with a license.json.                 *)
OneClient == \A a, b \in Agents : DeviceOf[a] = DeviceOf[b] => a = b

(* The queues in license.json lose only what is counted, where the token   *)
(* of the device is the one that the server knows.                         *)
KeptNow(d, s) ==
  store[d].token = tokens[d] => Elems(store[d].pending) \subseteq Elems(s.pending) \cup Counted'
AllKept == \A d \in Devices : KeptNow(d, store'[d])

LEMMA NothingToAccount ==
  ASSUME NEW g, g.pc \in {"idle", "analyzing", "activating"}, NEW s, NEW counted
  PROVE  Accounts(g, s, counted)
BY DEF Accounts

LEMMA IdleAccounts ==
  ASSUME NEW s, NEW counted
  PROVE  Accounts(Idle, s, counted) /\ Idle.on = "none"
BY NothingToAccount DEF Idle

LEMMA OnwardAccounts ==
  ASSUME NEW a, NEW r, NEW m, NEW s, m.pending = s.pending, NEW counted
  PROVE  Accounts(Onward(a, r, m), s, counted) /\ Onward(a, r, m).on = "none"
<1> DEFINE h == Onward(a, r, m)
<1>1. /\ h.on = "none" /\ h.mine = m /\ h.todo = s.pending
      /\ \/ h.pc = "analyzing" \/ h.pc = "flushing"
         \/ h.pc = "metering" /\ s.pending = <<>>
  BY OnwardHolds DEF Onward, Idle
<1> HIDE DEF h
<1>2. Accounts(h, s, counted)
  BY <1>1, NoElems DEF Accounts
<1> QED BY <1>1, <1>2 DEF h

LEMMA MoreCounted ==
  ASSUME NEW g, NEW s, NEW counted, NEW more, counted \subseteq more, Accounts(g, s, counted)
  PROVE  Accounts(g, s, more)
BY DEF Accounts

(* Client a goes on as h, and leaves s in license.json.                    *)
Leaves(a, h, s) ==
  /\ agent' = [agent EXCEPT ![a] = h] /\ h.on = "none"
  /\ store' = [store EXCEPT ![DeviceOf[a]] = s]
  /\ Accounts(h, s, Counted')
  /\ KeptNow(DeviceOf[a], s)

LEMMA LeavingKeepsQueues ==
  ASSUME Types, OneClient, QueueInv, Counted \subseteq Counted',
         NEW a \in Agents, NEW h, NEW s, Leaves(a, h, s),
         \A b \in Agents : b # a /\ agent[b].on # "none" =>
           thread'[agent[b].on] = thread[agent[b].on]
  PROVE  QueueInv' /\ AllKept
<1>1. /\ \A b \in Agents : b # a => agent'[b] = agent[b]
      /\ agent'[a] = h
  BY DEF Leaves, Types
<1>2. /\ \A d \in Devices : d # DeviceOf[a] => store'[d] = store[d]
      /\ store'[DeviceOf[a]] = s /\ \A b \in Agents : DeviceOf[b] \in Devices
  BY CoverTypes DEF Leaves, Types
<1>3. ASSUME NEW b \in Agents
      PROVE  /\ Accounts(agent'[b], store'[DeviceOf[b]], Counted')
             /\ agent'[b].on # "none" => Carries(b, agent'[b], thread'[agent'[b].on])
  <2>1. CASE b = a
    BY <1>1, <1>2, <2>1 DEF Leaves
  <2>2. CASE b # a
    <3>1. DeviceOf[b] # DeviceOf[a]
      BY <2>2 DEF OneClient
    <3>2. agent'[b] = agent[b] /\ store'[DeviceOf[b]] = store[DeviceOf[b]]
      BY <1>1, <1>2, <2>2, <3>1
    <3>3. Accounts(agent[b], store[DeviceOf[b]], Counted')
      BY MoreCounted DEF QueueInv
    <3>4. agent[b].on # "none" => Carries(b, agent[b], thread'[agent[b].on])
      BY <2>2 DEF QueueInv
    <3> QED BY <3>2, <3>3, <3>4
  <2> QED BY <2>1, <2>2
<1>4. QueueInv'
  BY <1>3 DEF QueueInv, Carries
<1>5. AllKept
  BY <1>2 DEF AllKept, KeptNow, Leaves
<1> QED BY <1>4, <1>5

(* A flush is told "ok" about a run that is counted, and a client is told  *)
(* "invalid" when the server does not know the token it has read.          *)
LEMMA ReceiveLeaves ==
  ASSUME Types, QueueInv, NEW a \in Agents, NEW code, NEW left,
         Receive(a, code, left), Counted \subseteq Counted',
         code = "ok" /\ agent[a].pc = "flushing" => Head(agent[a].todo) \in Counted',
         code = "invalid" /\ agent[a].pc \in {"gate", "renewing"} =>
           agent[a].mine.token # tokens[DeviceOf[a]]
  PROVE  \E h, s : Leaves(a, h, s)
<1> DEFINE g == agent[a]
           mine == g.mine
           d == DeviceOf[a]
           old == store[d]
<1>0. /\ g \in Agent /\ mine \in LicenseState /\ old \in LicenseState /\ d \in Devices
      /\ g.todo \in Seq(RunIds) /\ g.kept \in Seq(RunIds) /\ mine.pending \in Seq(RunIds)
      /\ g.pc = "flushing" => g.todo # <<>>
      /\ g.pc = "metering" => g.run \in RunIds
      /\ Accounts(g, old, Counted)
      /\ store = [store EXCEPT ![d] = old]
  BY CoverTypes DEF QueueInv, Types, FitAgents, Agent, LicenseState
<1>1. KeptNow(d, old)
  BY DEF KeptNow
<1>2. ASSUME NEW h, NEW s, agent' = [agent EXCEPT ![a] = h], h.on = "none",
             Saved(a, s) \/ (s = old /\ store' = store),
             Accounts(h, s, Counted'), KeptNow(d, s)
      PROVE  \E hh, ss : Leaves(a, hh, ss)
  <2>1. store' = [store EXCEPT ![d] = s]
    BY <1>0, <1>2 DEF Saved
  <2>2. Leaves(a, h, s)
    BY <1>2, <2>1 DEF Leaves
  <2> QED BY <2>2
<1>3. ASSUME NEW s, agent' = [agent EXCEPT ![a] = Idle],
             Saved(a, s) \/ (s = old /\ store' = store), KeptNow(d, s)
      PROVE  \E h, ss : Leaves(a, h, ss)
  BY <1>2, <1>3, IdleAccounts
<1>4. ASSUME agent' = [agent EXCEPT ![a] = Idle], store' = store
      PROVE  \E h, s : Leaves(a, h, s)
  BY <1>1, <1>3, <1>4
<1>5. ASSUME NEW r, NEW m, NEW s, m.pending = s.pending,
             agent' = [agent EXCEPT ![a] = Onward(a, r, m)],
             Saved(a, s) \/ (s = old /\ store' = store), KeptNow(d, s)
      PROVE  \E h, ss : Leaves(a, h, ss)
  <2>1. Accounts(Onward(a, r, m), s, Counted') /\ Onward(a, r, m).on = "none"
    BY <1>5, OnwardAccounts
  <2> DEFINE h == Onward(a, r, m)
  <2>2. agent' = [agent EXCEPT ![a] = h]
    BY <1>5
  <2> HIDE DEF h
  <2> QED BY <1>2, <1>5, <2>1, <2>2 DEF h
<1>6. CASE ReceiveActivation(a, code, left)
  <2> DEFINE s == [old EXCEPT !.token = g.token, !.quota = left, !.validated = now]
  <2>1. agent' = [agent EXCEPT ![a] = Idle] /\ (Saved(a, s) \/ store' = store)
    BY <1>6 DEF ReceiveActivation
  <2>2. s.pending = old.pending
    BY <1>0 DEF LicenseState
  <2> HIDE DEF s
  <2>3. KeptNow(d, s)
    BY <2>2 DEF KeptNow
  <2> QED BY <1>3, <1>4, <2>1, <2>3
<1>7. CASE ReceiveValidation(a, code, left)
  <2> DEFINE s == [mine EXCEPT !.quota = left, !.validated = now]
  <2>1. g.pc \in {"gate", "renewing"} /\ mine.pending = old.pending /\ mine.token = old.token
    BY <1>0, <1>7 DEF ReceiveValidation, Accounts
  <2>2. s.pending = old.pending
    BY <1>0, <2>1 DEF LicenseState
  <2>3. CASE code = "ok"
    <3>1. /\ Saved(a, s)
          /\ Blocked(a) \/ agent' = [agent EXCEPT ![a] = Onward(a, g.run, s)]
      BY <1>7, <2>3 DEF ReceiveValidation
    <3> HIDE DEF s
    <3>2. KeptNow(d, s)
      BY <2>2 DEF KeptNow
    <3> QED BY <1>3, <1>5, <3>1, <3>2 DEF Blocked
  <2>4. CASE code = "unreachable"
    <3>1. /\ store' = store
          /\ Blocked(a) \/ agent' = [agent EXCEPT ![a] = Onward(a, g.run, mine)]
      BY <1>7, <2>4 DEF ReceiveValidation
    <3> QED BY <1>1, <1>4, <1>5, <2>1, <3>1 DEF Blocked
  <2>5. CASE code = "invalid"
    <3>1. Saved(a, Blank) /\ Blocked(a)
      BY <1>7, <2>5 DEF ReceiveValidation
    <3>2. KeptNow(d, Blank)
      BY <2>1, <2>5 DEF KeptNow
    <3> QED BY <1>3, <3>1, <3>2 DEF Blocked
  <2>6. CASE code = "refused"
    <3>1. Blocked(a) /\ store' = store
      BY <1>7, <2>6 DEF ReceiveValidation
    <3> QED BY <1>4, <3>1 DEF Blocked
  <2> QED BY <1>7, <2>3, <2>4, <2>5, <2>6 DEF ReceiveValidation
<1>8. CASE ReceiveFlush(a, code, left)
  <2> DEFINE kept == IF code = "ok" THEN g.kept ELSE Append(g.kept, Head(g.todo))
             quota == IF code = "ok" THEN left ELSE mine.quota
             s == [mine EXCEPT !.pending = kept, !.quota = quota]
  <2>1. /\ g.pc = "flushing" /\ g.todo # <<>>
        /\ Elems(old.pending) \subseteq Elems(g.kept) \cup Elems(g.todo) \cup Counted
    BY <1>0, <1>8 DEF ReceiveFlush, Accounts
  <2>2. /\ Elems(g.todo) = {Head(g.todo)} \cup Elems(Tail(g.todo))
        /\ Head(g.todo) \in RunIds /\ Tail(g.todo) \in Seq(RunIds)
    BY <1>0, <2>1, ElemsHeadTail
  <2>3. Elems(Append(g.kept, Head(g.todo))) = Elems(g.kept) \cup {Head(g.todo)}
    BY <1>0, <2>2, ElemsAppended
  <2>4. Elems(old.pending) \subseteq Elems(kept) \cup Elems(Tail(g.todo)) \cup Counted'
    <3>1. CASE code = "ok"
      BY <2>1, <2>2, <3>1
    <3>2. CASE code # "ok"
      BY <2>1, <2>2, <2>3, <3>2
    <3> QED BY <3>1, <3>2
  <2>5. CASE Blocked(a) /\ store' = store
    BY <1>4, <2>5 DEF Blocked
  <2>6. ASSUME Len(g.todo) = 1
        PROVE  s.pending = kept /\ KeptNow(d, s)
    <3>1. Tail(g.todo) = <<>>
      <4>1. Len(Tail(g.todo)) = 0
        BY <1>0, <2>1, <2>6, HeadTailProperties
      <4> QED BY <2>2, <4>1, EmptySeq
    <3>2. s.pending = kept
      BY <1>0 DEF LicenseState
    <3> HIDE DEF s, kept
    <3> QED BY <2>4, <3>1, <3>2, NoElems DEF KeptNow
  <2>7. ASSUME UNCHANGED store,
               agent' = [agent EXCEPT ![a] =
                 [g EXCEPT !.on = "none", !.todo = Tail(g.todo), !.kept = kept,
                           !.mine.quota = quota]]
        PROVE  \E h, ss : Leaves(a, h, ss)
    <3> DEFINE h == [g EXCEPT !.on = "none", !.todo = Tail(g.todo), !.kept = kept,
                              !.mine.quota = quota]
    <3> HIDE DEF kept, quota
    <3>1. h.on = "none" /\ h.pc = "flushing" /\ h.todo = Tail(g.todo) /\ h.kept = kept
      BY <1>0, <2>1 DEF Agent, LicenseState
    <3>2. agent' = [agent EXCEPT ![a] = h]
      BY <2>7
    <3> HIDE DEF h
    <3>3. Accounts(h, old, Counted')
      BY <2>4, <3>1 DEF Accounts
    <3> QED BY <1>1, <1>2, <2>7, <3>1, <3>2, <3>3
  <2>8. ASSUME Len(g.todo) = 1, Saved(a, s),
               \/ Blocked(a)
               \/ agent' = [agent EXCEPT ![a] = [Idle EXCEPT !.pc = "metering",
                                                   !.run = g.run, !.mine = s]]
        PROVE  \E h, ss : Leaves(a, h, ss)
    <3> DEFINE h == [Idle EXCEPT !.pc = "metering", !.run = g.run, !.mine = s]
    <3>1. s.pending = kept /\ KeptNow(d, s)
      BY <2>6, <2>8
    <3> HIDE DEF s
    <3>2. h.on = "none" /\ h.pc = "metering" /\ h.mine = s
      BY DEF Idle
    <3>3. Blocked(a) \/ agent' = [agent EXCEPT ![a] = h]
      BY <2>8
    <3> HIDE DEF h
    <3>4. Accounts(h, s, Counted')
      BY <3>2 DEF Accounts
    <3> QED BY <1>2, <1>3, <2>8, <3>1, <3>2, <3>3, <3>4 DEF Blocked
  <2> QED BY <1>8, <2>5, <2>7, <2>8 DEF ReceiveFlush
<1>9. CASE ReceiveMeter(a, code, left)
  <2> DEFINE s1 == [mine EXCEPT !.quota = left]
             s2 == [mine EXCEPT !.pending = Append(@, g.run)]
  <2>1. /\ g.pc = "metering" /\ g.run \in RunIds
        /\ Elems(old.pending) \subseteq Elems(mine.pending) \cup Counted
    BY <1>0, <1>9 DEF ReceiveMeter, Accounts
  <2>2. s1.pending = mine.pending /\ s2.pending = Append(mine.pending, g.run)
    BY <1>0 DEF LicenseState
  <2>3. agent' = [agent EXCEPT ![a] = Idle] /\ (Saved(a, s1) \/ Saved(a, s2) \/ store' = store)
    BY <1>9 DEF ReceiveMeter, Blocked
  <2> HIDE DEF s1, s2
  <2>4. Elems(Append(mine.pending, g.run)) = Elems(mine.pending) \cup {g.run}
    BY <1>0, <2>1, ElemsAppended
  <2>5. KeptNow(d, s1) /\ KeptNow(d, s2)
    BY <2>1, <2>2, <2>4 DEF KeptNow
  <2> QED BY <1>3, <1>4, <2>3, <2>5
<1> QED BY <1>6, <1>7, <1>8, <1>9 DEF Receive

LEMMA StayingKeepsQueues ==
  ASSUME Types, QueueInv, Counted \subseteq Counted', UNCHANGED <<store, agent>>,
         \A b \in Agents : agent[b].on # "none" =>
           LET q == thread[agent[b].on]
               x == thread'[agent[b].on]
           IN  x.device = q.device /\ x.token = q.token /\ x.run = q.run
  PROVE  QueueInv' /\ AllKept
<1>1. ASSUME NEW b \in Agents
      PROVE  /\ Accounts(agent[b], store[DeviceOf[b]], Counted')
             /\ agent[b].on # "none" => Carries(b, agent[b], thread'[agent[b].on])
  <2>1. Accounts(agent[b], store[DeviceOf[b]], Counted')
    BY MoreCounted DEF QueueInv
  <2>2. agent[b].on # "none" => Carries(b, agent[b], thread'[agent[b].on])
    BY DEF QueueInv, Carries
  <2> QED BY <2>1, <2>2
<1>2. QueueInv'
  BY <1>1 DEF QueueInv, Carries
<1> QED BY <1>2 DEF AllKept, KeptNow

(* What the answer of thread t says is so.                                 *)
Honest(t, code) ==
  /\ code = "ok" /\ thread[t].stage \in {"check", "meter", "insert_run"} =>
       thread[t].run \in Counted'
  /\ code = "invalid" /\ thread[t].stage = "validate" => ~KnownToken(thread[t])

LEMMA AnswerKeepsQueues ==
  ASSUME Types, OneClient, WarnInv, CoverInv, QueueInv, NEW t \in Threads,
         NEW code, NEW left, Answer(t, code, left), Counted \subseteq Counted', Honest(t, code)
  PROVE  QueueInv' /\ AllKept
<1>1. \A u \in Threads : u # t => thread'[u] = thread[u]
  BY DEF Answer, Types
<1>2. \A b \in Agents : agent[b].on # t /\ agent[b].on # "none" =>
        thread'[agent[b].on] = thread[agent[b].on]
  BY <1>1, CoverTypes
<1>3. CASE \E a \in Agents : agent[a].on = t /\ Receive(a, code, left)
  <2>1. PICK a \in Agents : agent[a].on = t /\ Receive(a, code, left)
    BY <1>3
  <2>2. agent[a].on # "none" /\ \A b \in Agents : b # a => agent[b].on # t
    BY <2>1, CoverTypes DEF WarnInv, Calling
  <2>3. Served(agent[a], thread[t]) /\ Carries(a, agent[a], thread[t])
        /\ Accounts(agent[a], store[DeviceOf[a]], Counted)
    BY <2>1, <2>2 DEF CoverInv, QueueInv
  <2>4. code = "ok" /\ agent[a].pc = "flushing" => Head(agent[a].todo) \in Counted'
    BY <2>3 DEF Served, Carries, Honest
  <2>5. code = "invalid" /\ agent[a].pc \in {"gate", "renewing"} =>
          agent[a].mine.token # tokens[DeviceOf[a]]
    BY <2>3 DEF Served, Carries, Accounts, Honest, KnownToken
  <2>6. \E h, s : Leaves(a, h, s)
    BY <2>1, <2>4, <2>5, ReceiveLeaves
  <2> QED BY <1>2, <2>2, <2>6, LeavingKeepsQueues
<1>4. CASE (\A a \in Agents : agent[a].on # t) /\ UNCHANGED <<store, agent, warned>>
  BY <1>2, <1>4, StayingKeepsQueues
<1> QED BY <1>3, <1>4 DEF Answer

LEMMA InsideKeepsQueues ==
  ASSUME Types, QueueInv, NEW t \in Threads, NEW x, thread' = [thread EXCEPT ![t] = x],
         x.device = thread[t].device, x.token = thread[t].token, x.run = thread[t].run,
         UNCHANGED <<store, agent, runs>>
  PROVE  QueueInv' /\ AllKept
<1>1. \A u \in Threads : thread'[u] = IF u = t THEN x ELSE thread[u]
  BY DEF Types
<1>2. Counted' = Counted
  BY DEF Counted
<1> QED BY <1>1, <1>2, CoverTypes, StayingKeepsQueues

LEMMA ServeKeepsQueues ==
  ASSUME Types, OneClient, WarnInv, CoverInv, QueueInv, NEW t \in Threads,
         Serve(t) \/ ThreadDies(t)
  PROVE  QueueInv' /\ AllKept
<1> DEFINE q == thread[t]
           left == QuotaLeft(lic, runs)
<1>1. q \in Request
  BY DEF Types, FitRequests
<1>2. runs' = runs => Counted' = Counted
  BY DEF Counted
<1>3. ASSUME NEW code, NEW n, Answer(t, code, n), runs' = runs, Honest(t, code)
      PROVE  QueueInv' /\ AllKept
  BY <1>2, <1>3, AnswerKeepsQueues
<1>4. Honest(t, "refused") /\ Honest(t, "unreachable")
  BY DEF Honest
<1>5. CASE ActivateReads(t)
  <2> DEFINE x == [AtStage(t, "insert_device") EXCEPT
                     !.fresh = tokens[q.device] = 0,
                     !.ok = Allowed(lic, runs, now), !.left = left]
  <2>1. x.device = q.device /\ x.token = q.token /\ x.run = q.run
    BY <1>1 DEF AtStage, Request
  <2>2. /\ runs' = runs
        /\ \/ Answer(t, "refused", 0)
           \/ thread' = [thread EXCEPT ![t] = x] /\ UNCHANGED <<store, agent>>
    BY <1>5 DEF ActivateReads
  <2> HIDE DEF x
  <2> QED BY <1>3, <1>4, <2>1, <2>2, InsideKeepsQueues
<1>6. CASE ActivateCommits(t)
  <2>1. /\ runs' = runs /\ q.stage = "insert_device"
        /\ \/ Answer(t, "refused", 0) \/ Answer(t, "refused", q.left)
           \/ Answer(t, "ok", q.left)
    BY <1>6 DEF ActivateCommits
  <2>2. Honest(t, "ok")
    BY <2>1 DEF Honest
  <2> QED BY <1>3, <1>4, <2>1, <2>2
<1>7. CASE Validate(t)
  <2>1. /\ runs' = runs /\ q.stage = "validate"
        /\ \/ Answer(t, "ok", left) \/ Answer(t, "refused", left)
           \/ ~KnownToken(q) /\ Answer(t, "invalid", left)
    BY <1>7 DEF Validate
  <2>2. Honest(t, "ok") /\ (~KnownToken(q) => Honest(t, "invalid"))
    BY <2>1 DEF Honest
  <2> QED BY <1>3, <1>4, <2>1, <2>2
<1>8. CASE MeterValidates(t)
  <2> DEFINE x == [AtStage(t, "meter") EXCEPT !.lic = lic, !.left = left]
  <2>1. x.device = q.device /\ x.token = q.token /\ x.run = q.run
    BY <1>1 DEF AtStage, Request
  <2>2. /\ runs' = runs /\ q.stage = "check"
        /\ \/ Answer(t, "refused", 0) \/ Answer(t, "invalid", 0)
           \/ thread' = [thread EXCEPT ![t] = x] /\ UNCHANGED <<store, agent>>
    BY <1>8 DEF MeterValidates
  <2> HIDE DEF x
  <2>3. Honest(t, "invalid")
    BY <2>2 DEF Honest
  <2> QED BY <1>3, <1>4, <2>1, <2>2, <2>3, InsideKeepsQueues
<1>9. CASE MeterReads(t)
  <2> DEFINE x == AtStage(t, "insert_run")
  <2>1. x.device = q.device /\ x.token = q.token /\ x.run = q.run
    BY <1>1 DEF AtStage, Request
  <2>2. /\ runs' = runs
        /\ \/ q.run \in Counted /\ Answer(t, "ok", q.left)
           \/ Answer(t, "refused", 0)
           \/ thread' = [thread EXCEPT ![t] = x] /\ UNCHANGED <<store, agent>>
    BY <1>9 DEF MeterReads
  <2> HIDE DEF x
  <2>3. q.run \in Counted => Honest(t, "ok")
    BY <1>2, <2>2 DEF Honest
  <2> QED BY <1>3, <1>4, <2>1, <2>2, <2>3, InsideKeepsQueues
<1>10. CASE MeterInserts(t)
  <2>1. CASE Answer(t, "refused", 0) /\ runs' = runs
    BY <1>3, <1>4, <2>1
  <2>2. CASE /\ runs' = runs \cup {[id |-> q.run, day |-> now]}
             /\ Answer(t, "ok", QuotaLeft(q.lic, runs'))
    <3>1. Counted \subseteq Counted'
      BY <2>2 DEF Counted
    <3>2. Honest(t, "ok")
      <4>1. [id |-> q.run, day |-> now] \in runs'
        BY <2>2
      <4>2. q.run \in Counted'
        BY <4>1 DEF Counted
      <4> QED BY <4>2 DEF Honest
    <3> QED BY <2>2, <3>1, <3>2, AnswerKeepsQueues
  <2> QED BY <1>10, <2>1, <2>2 DEF MeterInserts
<1>11. CASE ThreadDies(t)
  <2>1. runs' = runs /\ Answer(t, "unreachable", 0)
    BY <1>11 DEF ThreadDies
  <2> QED BY <1>3, <1>4, <2>1
<1> QED BY <1>5, <1>6, <1>7, <1>8, <1>9, <1>10, <1>11 DEF Serve

LEMMA ClientStepKeepsQueues ==
  ASSUME Types, OneClient, QueueInv, NEW a \in Agents,
         StartActivation(a) \/ StartRun(a) \/ FinishRun(a) \/ Quit(a) \/ Unanswered(a)
  PROVE  QueueInv' /\ AllKept
<1> DEFINE s == store[DeviceOf[a]]
<1>1. thread' = thread /\ Counted' = Counted /\ store = [store EXCEPT ![DeviceOf[a]] = s]
  BY DEF StartActivation, StartRun, FinishRun, Quit, Unanswered, Counted, Types
<1>2. ASSUME NEW h, agent' = [agent EXCEPT ![a] = h], h.on = "none", store' = store,
             Accounts(h, s, Counted')
      PROVE  QueueInv' /\ AllKept
  <2>1. Leaves(a, h, s)
    BY <1>1, <1>2 DEF Leaves, KeptNow
  <2> QED BY <1>1, <2>1, LeavingKeepsQueues
<1>3. ASSUME agent' = [agent EXCEPT ![a] = Idle], store' = store
      PROVE  QueueInv' /\ AllKept
  BY <1>2, <1>3, IdleAccounts
<1>4. ASSUME NEW h, agent' = [agent EXCEPT ![a] = h], h.on = "none", h.mine = s,
             h.pc \in {"gate", "renewing"}, s.token # 0, store' = store
      PROVE  QueueInv' /\ AllKept
  <2>1. Accounts(h, s, Counted')
    BY <1>4 DEF Accounts
  <2> QED BY <1>2, <1>4, <2>1
<1>5. ASSUME NEW r, agent' = [agent EXCEPT ![a] = Onward(a, r, s)], store' = store
      PROVE  QueueInv' /\ AllKept
  <2> DEFINE h == Onward(a, r, s)
  <2>1. Accounts(h, s, Counted') /\ h.on = "none" /\ agent' = [agent EXCEPT ![a] = h]
    BY <1>5, OnwardAccounts
  <2> HIDE DEF h
  <2> QED BY <1>2, <1>5, <2>1
<1>6. CASE StartActivation(a)
  <2> DEFINE h == [Idle EXCEPT !.pc = "activating", !.token = asked + 1]
  <2>1. h.on = "none" /\ h.pc = "activating"
    BY DEF Idle
  <2>2. agent' = [agent EXCEPT ![a] = h] /\ store' = store
    BY <1>6 DEF StartActivation
  <2> HIDE DEF h
  <2>3. Accounts(h, s, Counted')
    BY <2>1, NothingToAccount
  <2> QED BY <1>2, <2>1, <2>2, <2>3
<1>7. CASE StartRun(a)
  <2> DEFINE h == [Idle EXCEPT !.pc = "gate", !.mine = s]
  <2>1. h.on = "none" /\ h.pc = "gate" /\ h.mine = s
    BY DEF Idle
  <2>2. /\ store' = store /\ s.token # 0
        /\ \/ agent' = [agent EXCEPT ![a] = h]
           \/ agent' = [agent EXCEPT ![a] = Onward(a, "none", s)]
    BY <1>7 DEF StartRun
  <2> HIDE DEF h, s
  <2> QED BY <1>4, <1>5, <2>1, <2>2
<1>8. CASE FinishRun(a)
  <2>1. PICK x \in RunIds \ used :
          /\ used' = used \cup {x}
          /\ warned' = IF s.token = 0 THEN warned \cup {x} ELSE warned
          /\ agent' = [agent EXCEPT ![a] =
               CASE s.token = 0 -> Idle
                 [] s.token # 0 /\ NeedsRefresh(s) ->
                      [Idle EXCEPT !.pc = "renewing", !.run = x, !.mine = s]
                 [] OTHER -> Onward(a, x, s)]
    BY <1>8 DEF FinishRun
  <2> DEFINE h == [Idle EXCEPT !.pc = "renewing", !.run = x, !.mine = s]
  <2>2. h.on = "none" /\ h.pc = "renewing" /\ h.mine = s
    BY DEF Idle
  <2>3. store' = store
    BY <1>8 DEF FinishRun
  <2>4. \/ agent' = [agent EXCEPT ![a] = Idle]
        \/ agent' = [agent EXCEPT ![a] = h] /\ s.token # 0
        \/ agent' = [agent EXCEPT ![a] = Onward(a, x, s)]
    BY <2>1
  <2> HIDE DEF h, s
  <2> QED BY <1>3, <1>4, <1>5, <2>2, <2>3, <2>4
<1>9. CASE Quit(a)
  BY <1>3, <1>9 DEF Quit
<1>10. CASE Unanswered(a)
  <2>1. Receive(a, "unreachable", 0)
    BY <1>10 DEF Unanswered
  <2>2. \E h, ss : Leaves(a, h, ss)
    BY <1>1, <2>1, ReceiveLeaves
  <2> QED BY <1>1, <2>2, LeavingKeepsQueues
<1> QED BY <1>6, <1>7, <1>8, <1>9, <1>10

LEMMA SendKeepsQueues ==
  ASSUME Types, WarnInv, QueueInv, NEW a \in Agents, NEW t \in Threads, Send(a, t)
  PROVE  QueueInv' /\ AllKept
<1> DEFINE g == agent[a]
<1>0. "none" \notin Threads /\ \A b \in Agents : agent[b].on \in Threads \cup {"none"}
  BY CoverTypes
<1>1. /\ g.pc \in Calls /\ g.on = "none" /\ thread[t].stage = "free"
      /\ store' = store /\ Counted' = Counted
  BY DEF Send, Counted
<1>2. /\ \A u \in Threads : u # t => thread'[u] = thread[u]
      /\ thread'[t].device = DeviceOf[a]
      /\ g.pc \in {"gate", "renewing"} => thread'[t].token = g.mine.token
      /\ g.pc = "flushing" => thread'[t].run = Head(g.todo)
  BY DEF Send, Types, Free
<1>3. /\ \A b \in Agents : b # a => agent'[b] = agent[b]
      /\ \A b \in Agents : /\ agent'[b].mine = agent[b].mine /\ agent'[b].pc = agent[b].pc
                           /\ agent'[b].todo = agent[b].todo /\ agent'[b].kept = agent[b].kept
      /\ agent'[a].on = t
  BY DEF Send, Types, FitAgents, Agent
<1>4. ASSUME NEW b \in Agents
      PROVE  /\ Accounts(agent'[b], store[DeviceOf[b]], Counted)
             /\ agent'[b].on # "none" => Carries(b, agent'[b], thread'[agent'[b].on])
  <2>1. Accounts(agent'[b], store[DeviceOf[b]], Counted)
    BY <1>3 DEF QueueInv, Accounts
  <2>2. CASE b = a
    BY <1>2, <1>3, <2>1, <2>2 DEF Carries
  <2>3. CASE b # a /\ agent'[b].on # "none"
    <3>1. agent[b].on # "none" /\ agent'[b] = agent[b]
      BY <1>3, <2>3
    <3>2. agent[b].on # t /\ Carries(b, agent[b], thread[agent[b].on])
      BY <1>1, <3>1 DEF WarnInv, Calling, QueueInv
    <3>3. thread'[agent[b].on] = thread[agent[b].on]
      BY <1>0, <1>2, <3>1, <3>2
    <3> QED BY <2>1, <3>1, <3>2, <3>3
  <2> QED BY <2>1, <2>2, <2>3
<1>5. QueueInv'
  BY <1>1, <1>4 DEF QueueInv, Carries
<1> QED BY <1>1, <1>5 DEF AllKept, KeptNow

LEMMA QueuesKept ==
  ASSUME Types, OneClient, WarnInv, CoverInv, QueueInv, [Next]_vars
  PROVE  QueueInv' /\ AllKept
<1>1. CASE Webhook \/ Tick \/ UNCHANGED vars
  <2>1. UNCHANGED <<store, agent, thread, runs>>
    BY <1>1 DEF Webhook, Tick, vars
  <2> QED BY <2>1, StayingKeepsQueues DEF Counted
<1> QED
  BY <1>1, ClientStepKeepsQueues, SendKeepsQueues, ServeKeepsQueues DEF Next

LEMMA QueuesInitially == Init => QueueInv
BY IdleAccounts DEF Init, QueueInv

(* client.py, "flushed on next call": with one client process per device,  *)
(* a run that was queued stays in license.json until the server has        *)
(* counted it, through refusals in the middle of a flush, lost answers,    *)
(* killed processes and repeated reports, for any number of devices,       *)
(* threads and runs -- as long as the server knows the device's token.     *)
THEOREM QueuesAreKept ==
  ASSUME OneClient
  PROVE  Spec => QueuedRunsKept
<1>1. MeterInv /\ WarnInv /\ CoverInv /\ QueueInv /\ [Next]_vars => QueueInv'
  BY QueuesKept DEF MeterInv
<1>2. MeterInv /\ WarnInv /\ CoverInv /\ QueueInv /\ [Next]_vars =>
        [\A d \in Devices : \A r \in Queued(d) :
           store[d].token = tokens[d] =>
             r \in Counted' \/ \E i \in DOMAIN store'[d].pending : store'[d].pending[i] = r]_vars
  <2> SUFFICES ASSUME AllKept, NEW d \in Devices, NEW r \in Queued(d),
                      store[d].token = tokens[d]
               PROVE  r \in Counted' \/ \E i \in DOMAIN store'[d].pending : store'[d].pending[i] = r
    BY QueuesKept DEF MeterInv
  <2> QED BY DEF AllKept, KeptNow, Queued, Elems
<1> QED
  BY QueuesInitially, <1>1, <1>2, MeterInvHolds, ApartHolds, CoverHolds, PTL
  DEF Spec, QueuedRunsKept
=============================================================================
