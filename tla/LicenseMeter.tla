---------------------------- MODULE LicenseMeter ----------------------------
(***************************************************************************)
(* Licensing and metering of the TIA agent: one license on the license     *)
(* server, the devices that are activated for it, the license clients that *)
(* validate and meter from these devices, and Stripe.                      *)
(*                                                                         *)
(* The server runs each request in a thread of its own.  The statements of *)
(* a handler are not one transaction, so a request is a chain of steps; a  *)
(* run of reads is one step.  A client process makes one call at a time.   *)
(* It gives a call up when it times out, and the server goes on with it.   *)
(***************************************************************************)
EXTENDS Integers, Sequences, FiniteSets

CONSTANTS
  Agents,          \* client processes
  Devices,         \* machines; each has one license.json
  DeviceOf,        \* the machine a client process runs on
  Threads,         \* request threads of the server
  RunIds,          \* the uuids that analyses may draw
  Quota,           \* License.runs_quota
  DeviceLimit,     \* License.device_limit
  GraceDays,       \* LICENSE_GRACE_DAYS
  OfflineGrace,    \* OFFLINE_GRACE_DAYS
  Subscriptions,   \* states of the subscription that Stripe may report
  MaxDay,          \* bound: days
  MaxActivations   \* bound: activation requests

SubscriptionStates == [status : {"active", "canceled"}, start : Nat, end : Nat]

ASSUME LicenseAssumption ==
  /\ "none" \notin Threads \cup RunIds
  /\ DeviceOf \in [Agents -> Devices]
  /\ IsFiniteSet(Threads) /\ IsFiniteSet(Devices) /\ IsFiniteSet(RunIds)
  /\ Quota \in Nat \ {0} /\ DeviceLimit \in Nat \ {0}
  /\ GraceDays \in Nat /\ OfflineGrace \in Nat
  /\ Subscriptions \subseteq SubscriptionStates
  /\ MaxDay \in Nat \ {0} /\ MaxActivations \in Nat

VARIABLES
  now,      \* the day
  lic,      \* subscription_status, current_period_start and _end (0: NULL)
  tokens,   \* the valid token of each device (0: not activated)
  runs,     \* the rows of the runs table
  thread,   \* the request that each server thread works on
  store,    \* license.json of each device
  agent,    \* what each client process is doing
  used,     \* run ids drawn so far
  warned,   \* runs whose user was told that they were not counted
  asked,    \* activation requests so far; the n-th one is given token n
  usable    \* history: the last day on which evaluate_access allowed runs

vars == <<now, lic, tokens, runs, thread, store, agent, used, warned, asked, usable>>

Day == 0 .. MaxDay
Token == 0 .. MaxActivations
Row == [id : RunIds, day : Day]

(* LicenseState, without what is only shown to the user.                   *)
LicenseState == [token : Token, quota : 0 .. Quota, validated : Day, pending : Seq(RunIds)]
Blank == [token |-> 0, quota |-> 0, validated |-> 0, pending |-> <<>>]

(* A server thread: the part of its handler that comes next, the request,  *)
(* and the locals of the handler: the License object, "is a new device",   *)
(* the decision.                                                           *)
Request ==
  [stage : {"free", "activate", "insert_device", "validate", "check", "meter", "insert_run"},
   device : Devices \cup {"none"}, token : Token, run : RunIds \cup {"none"},
   lic : SubscriptionStates, fresh : BOOLEAN, ok : BOOLEAN, left : 0 .. Quota]
NoPeriod == [status |-> "active", start |-> 0, end |-> 0]
Free == [stage |-> "free", device |-> "none", token |-> 0, run |-> "none",
         lic |-> NoPeriod, fresh |-> FALSE, ok |-> FALSE, left |-> 0]

(* A client process: the call it is in, the thread that serves it ("none": *)
(* still to be sent), the LicenseState in its hands, and the loop of       *)
(* _flush_pending: entries to send and entries to keep.                    *)
Calls == {"activating", "gate", "renewing", "flushing", "metering"}
Agent == [pc : {"idle", "analyzing"} \cup Calls, on : Threads \cup {"none"},
          run : RunIds \cup {"none"}, token : Token, mine : LicenseState,
          todo : Seq(RunIds), kept : Seq(RunIds)]
Idle == [pc |-> "idle", on |-> "none", run |-> "none", token |-> 0,
         mine |-> Blank, todo |-> <<>>, kept |-> <<>>]

TypeOK ==
  /\ now \in Day /\ usable \in Day
  /\ lic \in SubscriptionStates
  /\ tokens \in [Devices -> Token] /\ asked \in Token
  /\ runs \in SUBSET Row
  /\ thread \in [Threads -> Request]
  /\ store \in [Devices -> LicenseState]
  /\ agent \in [Agents -> Agent]
  /\ used \in SUBSET RunIds /\ warned \in SUBSET RunIds

Init ==
  /\ now = 1 /\ usable = 1
  /\ lic = NoPeriod
  /\ tokens = [d \in Devices |-> 0] /\ asked = 0
  /\ runs = {}
  /\ thread = [t \in Threads |-> Free]
  /\ store = [d \in Devices |-> Blank]
  /\ agent = [a \in Agents |-> Idle]
  /\ used = {} /\ warned = {}

-----------------------------------------------------------------------------
(* count_runs_this_period and evaluate_access.                             *)

RunsSince(l, rows) == {x \in rows : x.day >= l.start}
\* Mutant: the difference is not cut off at zero.
QuotaLeftBelowZero(l, rows) == Quota - Cardinality(RunsSince(l, rows))

QuotaLeft(l, rows) ==
  LET n == Cardinality(RunsSince(l, rows)) IN IF n < Quota THEN Quota - n ELSE 0

Expired(l, day) == l.end # 0 /\ day > l.end + GraceDays
InGrace(l, day) == l.end # 0 /\ day > l.end

(* In grace, or canceled, the quota is not looked at here.                 *)
Allowed(l, rows, day) ==
  /\ ~Expired(l, day)
  /\ InGrace(l, day) \/ l.status = "canceled" \/ QuotaLeft(l, rows) > 0

Counted == {x.id : x \in runs}
LastUsable(l, day) == IF Allowed(l, runs, day) THEN day ELSE usable

-----------------------------------------------------------------------------
(* The client: what it does with an answer, or with none.                  *)

NeedsRefresh(s) == now > s.validated \/ s.quota = 0

\* Mutant: no limit to the offline grace.
OfflineAlways(s) == s.quota > 0
OfflineOK(s) == now <= s.validated + OfflineGrace /\ s.quota > 0

(* LicenseBlocked reaches the user; a completed run is then not counted.   *)
Blocked(a) ==
  /\ agent' = [agent EXCEPT ![a] = Idle]
  /\ warned' = IF agent[a].run = "none" THEN warned ELSE warned \cup {agent[a].run}

Saved(a, s) == store' = [store EXCEPT ![DeviceOf[a]] = s]

(* What follows a successful ensure_valid: the analysis, or the flush of   *)
(* the queued runs and then the report of the new one.                     *)
Onward(a, r, s) ==
  [Idle EXCEPT !.pc = CASE r = "none" -> "analyzing"
                        [] r # "none" /\ s.pending = <<>> -> "metering"
                        [] OTHER -> "flushing",
               !.run = r, !.mine = s, !.todo = s.pending]

ReceiveActivation(a, code, left) ==
  /\ agent[a].pc = "activating"
  /\ agent' = [agent EXCEPT ![a] = Idle]
  /\ IF code = "ok"
     THEN Saved(a, [store[DeviceOf[a]] EXCEPT !.token = agent[a].token,
                                              !.quota = left, !.validated = now])
     ELSE UNCHANGED store
  /\ UNCHANGED warned

ReceiveValidation(a, code, left) ==
  /\ agent[a].pc \in {"gate", "renewing"}
  /\ LET s == [agent[a].mine EXCEPT !.quota = left, !.validated = now]
     IN  \/ /\ code = "ok"
            /\ Saved(a, s)
            /\ IF left > 0 THEN /\ agent' = [agent EXCEPT ![a] = Onward(a, @.run, s)]
                                /\ UNCHANGED warned
               ELSE Blocked(a)
         \/ /\ code = "unreachable"
            /\ IF OfflineOK(agent[a].mine)
               THEN /\ agent' = [agent EXCEPT ![a] = Onward(a, @.run, @.mine)]
                    /\ UNCHANGED warned
               ELSE Blocked(a)
            /\ UNCHANGED store
         \/ /\ code = "invalid"                    \* LicenseStore.clear
            /\ Saved(a, Blank)
            /\ Blocked(a)
         \/ /\ code = "refused"
            /\ Blocked(a)
            /\ UNCHANGED store

\* Mutant: an entry whose report was not answered is not kept.
ReceiveFlushForgets(a, code, left) ==
  /\ agent[a].pc = "flushing"
  /\ LET g == agent[a]
         s == [g.mine EXCEPT !.pending = g.kept]
     IN  /\ code \in {"ok", "unreachable"} /\ Len(g.todo) = 1
         /\ Saved(a, s)
         /\ agent' = [agent EXCEPT ![a] = [Idle EXCEPT !.pc = "metering", !.run = g.run, !.mine = s]]
         /\ UNCHANGED warned
(* One entry of the loop in _flush_pending, and what follows the loop.     *)
ReceiveFlush(a, code, left) ==
  /\ agent[a].pc = "flushing"
  /\ LET g == agent[a]
         kept == IF code = "ok" THEN g.kept ELSE Append(g.kept, Head(g.todo))
         quota == IF code = "ok" THEN left ELSE g.mine.quota
         s == [g.mine EXCEPT !.pending = kept, !.quota = quota]
     IN  \/ /\ code \in {"ok", "unreachable"} /\ Len(g.todo) > 1
            /\ agent' = [agent EXCEPT ![a] =
                 [g EXCEPT !.on = "none", !.todo = Tail(g.todo), !.kept = kept,
                           !.mine.quota = quota]]
            /\ UNCHANGED <<store, warned>>
         \/ /\ code \in {"ok", "unreachable"} /\ Len(g.todo) = 1
            /\ Saved(a, s)
            /\ IF quota > 0
               THEN /\ agent' = [agent EXCEPT ![a] = [Idle EXCEPT !.pc = "metering",
                                                          !.run = g.run, !.mine = s]]
                    /\ UNCHANGED warned
               ELSE Blocked(a)
         \/ /\ code \in {"invalid", "refused"}
            /\ Blocked(a)
            /\ UNCHANGED store

\* Mutant: a run whose report was not answered is given up.
ReceiveMeterNoQueue(a, code, left) ==
  /\ agent[a].pc = "metering"
  /\ IF code = "ok"
     THEN /\ Saved(a, [agent[a].mine EXCEPT !.quota = left])
          /\ agent' = [agent EXCEPT ![a] = Idle]
          /\ UNCHANGED warned
     ELSE Blocked(a) /\ UNCHANGED store

ReceiveMeter(a, code, left) ==
  /\ agent[a].pc = "metering"
  /\ LET s == agent[a].mine
     IN  \/ /\ code = "ok"
            /\ Saved(a, [s EXCEPT !.quota = left])
            /\ agent' = [agent EXCEPT ![a] = Idle]
            /\ UNCHANGED warned
         \/ /\ code = "unreachable"
            /\ Saved(a, [s EXCEPT !.pending = Append(@, agent[a].run)])
            /\ agent' = [agent EXCEPT ![a] = Idle]
            /\ UNCHANGED warned
         \/ /\ code \in {"invalid", "refused"}
            /\ Blocked(a)
            /\ UNCHANGED store

(* "invalid" is a 401, "refused" any other error status.                   *)
Receive(a, code, left) ==
  \/ ReceiveActivation(a, code, left) \/ ReceiveValidation(a, code, left)
  \/ ReceiveFlush(a, code, left) \/ ReceiveMeter(a, code, left)

-----------------------------------------------------------------------------
(* The client: what it asks.                                               *)

(* LicenseClient.activate.                                                 *)
StartActivation(a) ==
  /\ agent[a].pc = "idle" /\ asked < MaxActivations
  /\ asked' = asked + 1
  /\ agent' = [agent EXCEPT ![a] = [Idle EXCEPT !.pc = "activating", !.token = asked + 1]]
  /\ UNCHANGED <<now, lic, tokens, runs, thread, store, used, warned, usable>>

(* AnalyzeRunner.run and the gate of ensure_valid.                         *)
StartRun(a) ==
  /\ agent[a].pc = "idle" /\ used # RunIds
  /\ LET s == store[DeviceOf[a]]
     IN  /\ s.token # 0
         /\ agent' = [agent EXCEPT ![a] = IF NeedsRefresh(s)
                                          THEN [Idle EXCEPT !.pc = "gate", !.mine = s]
                                          ELSE Onward(a, "none", s)]
  /\ UNCHANGED <<now, lic, tokens, runs, thread, store, used, warned, asked, usable>>

(* The analysis fails, or the process is killed, wherever it is.           *)
Quit(a) ==
  /\ agent[a].pc # "idle"
  /\ agent' = [agent EXCEPT ![a] = Idle]
  /\ UNCHANGED <<now, lic, tokens, runs, thread, store, used, warned, asked, usable>>

(* The analysis is done; record_run begins with another ensure_valid.      *)
FinishRun(a) ==
  /\ agent[a].pc = "analyzing"
  /\ \E r \in RunIds \ used :
       LET s == store[DeviceOf[a]]
       IN  /\ used' = used \cup {r}
           /\ warned' = IF s.token = 0 THEN warned \cup {r} ELSE warned
           /\ agent' = [agent EXCEPT ![a] =
                CASE s.token = 0 -> Idle
                  [] s.token # 0 /\ NeedsRefresh(s) ->
                       [Idle EXCEPT !.pc = "renewing", !.run = r, !.mine = s]
                  [] OTHER -> Onward(a, r, s)]
  /\ UNCHANGED <<now, lic, tokens, runs, thread, store, asked, usable>>

(* A request reaches the server.                                           *)
Send(a, t) ==
  /\ agent[a].pc \in Calls /\ agent[a].on = "none"
  /\ thread[t].stage = "free"
  /\ LET g == agent[a]
     IN  thread' = [thread EXCEPT ![t] =
           [Free EXCEPT !.stage = CASE g.pc = "activating" -> "activate"
                                    [] g.pc \in {"gate", "renewing"} -> "validate"
                                    [] g.pc \in {"flushing", "metering"} -> "check",
                        !.device = DeviceOf[a],
                        !.token = IF g.pc = "activating" THEN g.token ELSE g.mine.token,
                        !.run = CASE g.pc = "flushing" -> Head(g.todo)
                                  [] g.pc = "metering" -> g.run
                                  [] OTHER -> "none"]]
  /\ agent' = [agent EXCEPT ![a].on = t]
  /\ UNCHANGED <<now, lic, tokens, runs, store, used, warned, asked, usable>>

(* The server is not reached, or does not answer in time.                  *)
Unanswered(a) ==
  /\ agent[a].pc \in Calls
  /\ Receive(a, "unreachable", 0)
  /\ UNCHANGED <<now, lic, tokens, runs, thread, used, asked, usable>>

-----------------------------------------------------------------------------
(* The server.                                                             *)

(* The thread answers; who asked may have given up.                        *)
Answer(t, code, left) ==
  /\ thread' = [thread EXCEPT ![t] = Free]
  /\ \/ \E a \in Agents : agent[a].on = t /\ Receive(a, code, left)
     \/ (\A a \in Agents : agent[a].on # t) /\ UNCHANGED <<store, agent, warned>>

AtStage(t, stage) == [thread[t] EXCEPT !.stage = stage]

KnownToken(q) == q.token # 0 /\ tokens[q.device] = q.token

\* Mutant: the devices are not counted.
ActivateAny(t) ==
  /\ thread[t].stage = "activate"
  /\ thread' = [thread EXCEPT ![t] = [AtStage(t, "insert_device") EXCEPT
                  !.fresh = tokens[thread[t].device] = 0,
                  !.ok = Allowed(lic, runs, now), !.left = QuotaLeft(lic, runs)]]
  /\ UNCHANGED <<now, lic, tokens, runs, store, agent, used, warned, asked, usable>>

(* activate, up to its commit.                                             *)
ActivateReads(t) ==
  /\ thread[t].stage = "activate"
  /\ LET d == thread[t].device
         full == Cardinality({e \in Devices : tokens[e] # 0}) >= DeviceLimit
     IN  IF tokens[d] = 0 /\ full
         THEN Answer(t, "refused", 0)
         ELSE /\ thread' = [thread EXCEPT ![t] = [AtStage(t, "insert_device") EXCEPT
                              !.fresh = tokens[d] = 0,
                              !.ok = Allowed(lic, runs, now), !.left = QuotaLeft(lic, runs)]]
              /\ UNCHANGED <<store, agent, warned>>
  /\ UNCHANGED <<now, lic, tokens, runs, used, asked, usable>>

(* Its commit: the token is replaced even when the answer is a refusal.    *)
ActivateCommits(t) ==
  /\ thread[t].stage = "insert_device"
  /\ LET q == thread[t]
     IN  IF q.fresh /\ tokens[q.device] # 0         \* uq_license_device
         THEN Answer(t, "refused", 0) /\ UNCHANGED tokens
         ELSE /\ tokens' = [tokens EXCEPT ![q.device] = q.token]
              /\ Answer(t, IF q.ok THEN "ok" ELSE "refused", q.left)
  /\ UNCHANGED <<now, lic, runs, used, asked, usable>>

(* GET /v1/validate.                                                       *)
Validate(t) ==
  /\ thread[t].stage = "validate"
  /\ Answer(t, CASE ~KnownToken(thread[t]) -> "invalid"
                 [] KnownToken(thread[t]) /\ Allowed(lic, runs, now) -> "ok"
                 [] OTHER -> "refused",
            QuotaLeft(lic, runs))
  /\ UNCHANGED <<now, lic, tokens, runs, used, asked, usable>>

(* record_run: the call of validate at its beginning.                      *)
MeterValidates(t) ==
  /\ thread[t].stage = "check"
  /\ IF KnownToken(thread[t]) /\ Allowed(lic, runs, now)
     THEN /\ thread' = [thread EXCEPT ![t] = [AtStage(t, "meter") EXCEPT
                          !.lic = lic, !.left = QuotaLeft(lic, runs)]]
          /\ UNCHANGED <<store, agent, warned>>
     ELSE Answer(t, IF KnownToken(thread[t]) THEN "refused" ELSE "invalid", 0)
  /\ UNCHANGED <<now, lic, tokens, runs, used, asked, usable>>

\* Mutant: no count before the insert.
MeterReadsNoCount(t) ==
  /\ thread[t].stage = "meter"
  /\ IF thread[t].run \in Counted
     THEN Answer(t, "ok", thread[t].left)
     ELSE /\ thread' = [thread EXCEPT ![t] = AtStage(t, "insert_run")]
          /\ UNCHANGED <<store, agent, warned>>
  /\ UNCHANGED <<now, lic, tokens, runs, used, asked, usable>>

(* record_run: is the run there already, is there quota left?              *)
MeterReads(t) ==
  /\ thread[t].stage = "meter"
  /\ LET q == thread[t]
     IN  CASE q.run \in Counted -> Answer(t, "ok", q.left)
           [] q.run \notin Counted /\ QuotaLeft(q.lic, runs) = 0 -> Answer(t, "refused", 0)
           [] OTHER -> /\ thread' = [thread EXCEPT ![t] = AtStage(t, "insert_run")]
                       /\ UNCHANGED <<store, agent, warned>>
  /\ UNCHANGED <<now, lic, tokens, runs, used, asked, usable>>

(* record_run: the insert, which fails when the run_id is there by now.    *)
MeterInserts(t) ==
  /\ thread[t].stage = "insert_run"
  /\ LET q == thread[t]
     IN  IF q.run \in Counted
         THEN Answer(t, "refused", 0) /\ UNCHANGED runs
         ELSE /\ runs' = runs \cup {[id |-> q.run, day |-> now]}
              /\ Answer(t, "ok", QuotaLeft(q.lic, runs'))
  /\ UNCHANGED <<now, lic, tokens, used, asked, usable>>

(* The server dies with the request; nothing of it was committed.          *)
ThreadDies(t) ==
  /\ thread[t].stage # "free"
  /\ Answer(t, "unreachable", 0)
  /\ UNCHANGED <<now, lic, tokens, runs, used, asked, usable>>

Serve(t) ==
  \/ ActivateReads(t) \/ ActivateCommits(t) \/ Validate(t)
  \/ MeterValidates(t) \/ MeterReads(t) \/ MeterInserts(t)

-----------------------------------------------------------------------------
(* Stripe and the clock.                                                   *)

(* _apply_stripe_event: whatever the event says; events may be late,       *)
(* repeated and out of order.                                              *)
Webhook ==
  \E e \in Subscriptions :
    /\ e.start <= now
    /\ lic' = e
    /\ usable' = LastUsable(e, now)
    /\ UNCHANGED <<now, tokens, runs, thread, store, agent, used, warned, asked>>

(* A call of a client takes seconds, an analysis may take any time.        *)
Tick ==
  /\ now < MaxDay
  /\ \A a \in Agents : agent[a].pc \in {"idle", "analyzing"}
  /\ now' = now + 1
  /\ usable' = LastUsable(lic, now + 1)
  /\ UNCHANGED <<lic, tokens, runs, thread, store, agent, used, warned, asked>>

Next ==
  \/ \E a \in Agents : \/ StartActivation(a) \/ StartRun(a) \/ FinishRun(a) \/ Quit(a)
                       \/ Unanswered(a) \/ \E t \in Threads : Send(a, t)
  \/ \E t \in Threads : Serve(t) \/ ThreadDies(t)
  \/ Webhook \/ Tick

Spec == Init /\ [][Next]_vars

-----------------------------------------------------------------------------
(* Properties.                                                             *)

Queued(d) == {store[d].pending[i] : i \in DOMAIN store[d].pending}

(* The runs counted in a subscription period exceed the quota by less than *)
(* the number of requests that the server works on at a time: each of them *)
(* may have looked at the quota before the others have inserted their run. *)
PeriodStarts == {e.start : e \in Subscriptions}
RunsIn(s) == {x \in runs : x.day >= s /\ \A n \in PeriodStarts : n > s => x.day < n}
OverrunBounded ==
  \A s \in PeriodStarts \cup {0} : Cardinality(RunsIn(s)) < Quota + Cardinality(Threads)

(* The same for the devices of a license.                                  *)
Activated == {d \in Devices : tokens[d] # 0}
DevicesBounded == Cardinality(Activated) < DeviceLimit + Cardinality(Threads)

StartsAnalysis(a) == agent[a].pc # "analyzing" /\ agent'[a].pc = "analyzing"

(* An analysis begins only if the server would have allowed runs at some   *)
(* time of the last OfflineGrace days, whatever the clients have cached.   *)
(* That is all the code gives: within these days a cached quota, of this   *)
(* or an earlier day, may start an analysis although the quota is used up  *)
(* by now, by a report whose answer was lost or from another device        *)
(* (StartsHaveQuota).                                                      *)
StartsAreCovered ==
  [][\A a \in Agents : StartsAnalysis(a) => now <= usable + OfflineGrace]_vars

(* client.py:134, in ensure_valid: "a cached positive must not let an       *)
(* exhausted quota start a run".  An analysis begins only while the server *)
(* has runs left in the period.                                            *)
StartsHaveQuota == [][\A a \in Agents : StartsAnalysis(a) => QuotaLeft(lic, runs) > 0]_vars

(* A user who was told that a run was not counted is not charged for it,   *)
(* then or later: not by a request that is still on the server, and not by *)
(* the queue.                                                              *)
WarnedIsFinal ==
  /\ warned \cap Counted = {}
  /\ \A d \in Devices : warned \cap Queued(d) = {}

(* client.py: queued runs are "flushed on next call".  A queued run stays   *)
(* in license.json until it is counted, whatever is or is not answered --   *)
(* as long as the device's token was not replaced by an activation whose    *)
(* answer was a refusal or was lost; the 401 that follows clears the file.  *)
QueuedRunsKept ==
  [][\A d \in Devices : \A r \in Queued(d) :
       store[d].token = tokens[d] =>
         r \in Counted' \/ \E i \in DOMAIN store'[d].pending : store'[d].pending[i] = r]_vars
=============================================================================
