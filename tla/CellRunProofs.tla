--------------------------- MODULE CellRunProofs ---------------------------
(***************************************************************************)
(* Proofs about CellRun, in six parts.                                     *)
(*                                                                         *)
(* 1. Types and the order of the sequence numbers.  The counter reloaded   *)
(*    at a restart is the largest number of the file, which is a number at *)
(*    all only because the numbers of a file increase; and they increase   *)
(*    only because the counter is never behind the log.  LogInv is their   *)
(*    conjunction.                                                         *)
(* 2. The life of a run.  LifeInv says where in its life a run is when an  *)
(*    effect is made.  From it: the log of a run that ended is final, and  *)
(*    the cell implements RunLifecycle.                                    *)
(* 3. Without torn lines, the stored status and the log agree.             *)
(* 4. With at most one torn line, a log has no gaps.                       *)
(* 5. The event streams: what a client holds is a beginning of the log,    *)
(*    and all of it when the cell ended the stream.                        *)
(* 6. A stub run that is resumed announces no phase twice, and skips no    *)
(*    more phases than processes died.                                     *)
(***************************************************************************)
EXTENDS CellRun, SequenceTheorems, FiniteSetTheorems, WellFoundedInduction, TLAPS

-----------------------------------------------------------------------------
(* Sequences of events.                                                    *)

(* A log of n events has the positions 1 .. n and a number at each.        *)
LEMMA LogPositions ==
  ASSUME NEW s \in Seq(Event)
  PROVE  /\ Len(s) \in Nat /\ DOMAIN s = 1 .. Len(s)
         /\ \A i \in 1 .. Len(s) : s[i] \in Event /\ s[i].seq \in Nat
<1>1. Len(s) \in Nat /\ DOMAIN s = 1 .. Len(s)
  BY LenProperties
<1>2. \A i \in 1 .. Len(s) : s[i] \in Event
  BY ElementOfSeq
<1>3. \A e \in Event : e.seq \in Nat
  BY DEF Event
<1> QED BY <1>1, <1>2, <1>3

(* The last event of an increasing log carries its largest number: what a  *)
(* restart reloads is a natural number, and no event of the file is above. *)
LEMMA MaxSeqIsUpperBound ==
  ASSUME NEW s \in Seq(Event), Increasing(s)
  PROVE  MaxSeq(s) \in Nat /\ Below(s, MaxSeq(s))
<1>1. CASE s = <<>>
  BY <1>1 DEF MaxSeq, Below
<1>2. CASE s # <<>>
  <2>1. Len(s) \in Nat \ {0} /\ DOMAIN s = 1 .. Len(s)
    BY <1>2, EmptySeq, LogPositions
  <2>2. \A i \in DOMAIN s : s[i].seq \in Nat
    BY LogPositions
  <2>3. \A i \in DOMAIN s : s[i].seq <= s[Len(s)].seq
    <3>1. TAKE i \in DOMAIN s
    <3>2. CASE i = Len(s)
      BY <2>2, <3>2
    <3>3. CASE i # Len(s)
      BY <2>1, <2>2, <3>3 DEF Increasing
    <3> QED BY <3>2, <3>3
  <2>4. s[Len(s)].seq \in SeqsOf(s) /\ \A n \in SeqsOf(s) : n <= s[Len(s)].seq
    BY <2>1, <2>3 DEF SeqsOf
  <2>5. MaxSeq(s) \in SeqsOf(s) /\ \A n \in SeqsOf(s) : n <= MaxSeq(s)
    BY <1>2, <2>4 DEF MaxSeq
  <2> QED
    BY <2>2, <2>5 DEF SeqsOf, Below
<1> QED BY <1>1, <1>2

(* A log whose numbers are below n is still increasing, and below n + 1,   *)
(* after an event numbered n + 1.                                          *)
LEMMA AppendKeepsOrder ==
  ASSUME NEW s \in Seq(Event), NEW n \in Nat, NEW e \in Event, e.seq = n + 1,
         Increasing(s), Below(s, n)
  PROVE  /\ Append(s, e) \in Seq(Event)
         /\ Increasing(Append(s, e))
         /\ Below(Append(s, e), n + 1)
<1>1. /\ Append(s, e) \in Seq(Event)
      /\ Len(Append(s, e)) = Len(s) + 1
      /\ \A i \in 1 .. Len(s) : Append(s, e)[i] = s[i]
      /\ Append(s, e)[Len(s) + 1] = e
  BY AppendProperties
<1>2. /\ Len(s) \in Nat /\ DOMAIN s = 1 .. Len(s)
      /\ DOMAIN Append(s, e) = 1 .. (Len(s) + 1)
  BY <1>1, LenProperties
<1>3. \A i \in 1 .. Len(s) : s[i].seq \in Nat /\ s[i].seq <= n
  BY LogPositions DEF Below
<1>4. Increasing(Append(s, e))
  <2>1. SUFFICES ASSUME NEW i \in 1 .. (Len(s) + 1), NEW j \in 1 .. (Len(s) + 1), i < j
                 PROVE  Append(s, e)[i].seq < Append(s, e)[j].seq
    BY <1>2 DEF Increasing
  <2>2. CASE j = Len(s) + 1
    BY <1>1, <1>2, <1>3, <2>1, <2>2
  <2>3. CASE j # Len(s) + 1
    <3>1. i \in 1 .. Len(s) /\ j \in 1 .. Len(s)
      BY <1>2, <2>1, <2>3
    <3> QED
      BY <1>1, <1>2, <2>1, <3>1 DEF Increasing
  <2> QED BY <2>2, <2>3
<1>5. Below(Append(s, e), n + 1)
  <2>1. SUFFICES ASSUME NEW i \in 1 .. (Len(s) + 1)
                 PROVE  Append(s, e)[i].seq <= n + 1
    BY <1>2 DEF Below
  <2>2. CASE i = Len(s) + 1
    BY <1>1, <2>2
  <2>3. CASE i # Len(s) + 1
    BY <1>1, <1>2, <1>3, <2>3
  <2> QED BY <2>2, <2>3
<1> QED BY <1>1, <1>4, <1>5

(* Losing the last line keeps the order.                                   *)
LEMMA CutKeepsOrder ==
  ASSUME NEW s \in Seq(Event), NEW n \in Nat, Increasing(s), Below(s, n)
  PROVE  /\ SubSeq(s, 1, Len(s) - 1) \in Seq(Event)
         /\ Increasing(SubSeq(s, 1, Len(s) - 1))
         /\ Below(SubSeq(s, 1, Len(s) - 1), n)
<1> DEFINE t == SubSeq(s, 1, Len(s) - 1)
<1>1. Len(s) \in Nat /\ DOMAIN s = 1 .. Len(s)
  BY LenProperties
<1>2. CASE Len(s) = 0
  <2>1. t = <<>>
    BY <1>2, SubSeqEmpty
  <2> QED
    BY <2>1 DEF Increasing, Below
<1>3. CASE Len(s) # 0
  <2>1. /\ t \in Seq(Event) /\ Len(t) = Len(s) - 1
        /\ \A i \in 1 .. (Len(s) - 1) : t[i] = s[i]
    <3>1. \A i \in 1 .. (Len(s) - 1) : s[i] \in Event
      BY <1>1, ElementOfSeq
    <3>2. /\ t \in Seq(Event)
          /\ Len(t) = IF 1 <= Len(s) - 1 THEN (Len(s) - 1) - 1 + 1 ELSE 0
          /\ \A i \in 1 .. ((Len(s) - 1) - 1 + 1) : t[i] = s[1 + i - 1]
      <4> HIDE DEF t
      <4>1. 1 \in Int /\ Len(s) - 1 \in Int
        BY <1>1
      <4> QED BY <3>1, <4>1, SubSeqProperties DEF t
    <3> QED
      <4> HIDE DEF t
      <4>1. Len(t) = Len(s) - 1
        <5>1. CASE Len(s) = 1
          BY <3>2, <5>1
        <5>2. CASE Len(s) # 1
          <6>1. 1 <= Len(s) - 1 /\ (Len(s) - 1) - 1 + 1 = Len(s) - 1
            BY <1>1, <1>3, <5>2
          <6> QED BY <3>2, <6>1
        <5> QED BY <5>1, <5>2
      <4>2. \A i \in 1 .. (Len(s) - 1) : t[i] = s[i]
        <5>1. TAKE i \in 1 .. (Len(s) - 1)
        <5>2. 1 + i - 1 = i /\ i \in 1 .. ((Len(s) - 1) - 1 + 1)
          BY <1>1
        <5> QED BY <3>2, <5>2
      <4> QED BY <3>2, <4>1, <4>2
  <2>2. DOMAIN t = 1 .. (Len(s) - 1)
    <3> HIDE DEF t
    <3> QED BY <2>1, LenProperties
  <2> QED
    <3> HIDE DEF t
    <3>1. Increasing(t) /\ Below(t, n)
      BY <1>1, <2>1, <2>2 DEF Increasing, Below
    <3> QED BY <2>1, <3>1 DEF t
<1> QED BY <1>2, <1>3

(* What _emit does to the file, whatever its last line ends in.            *)
LEMMA LinesAfterKeepsOrder ==
  ASSUME NEW s \in Seq(Event), NEW n \in Nat, NEW e \in Event, e.seq = n + 1,
         NEW t \in LineEnd, Increasing(s), Below(s, n)
  PROVE  /\ LinesAfter(s, t, e) \in Seq(Event)
         /\ Increasing(LinesAfter(s, t, e))
         /\ Below(LinesAfter(s, t, e), n + 1)
<1>1. CASE t = "whole"
  BY <1>1, AppendKeepsOrder DEF LinesAfter
<1>0. ASSUME NEW u \in Seq(Event), Below(u, n)
      PROVE  Below(u, n + 1)
  BY <1>0, LogPositions DEF Below
<1>2. CASE t = "fragment"
  BY <1>0, <1>2 DEF LinesAfter
<1>3. CASE t = "unterminated"
  <2>1. LinesAfter(s, t, e) = SubSeq(s, 1, Len(s) - 1)
    BY <1>3 DEF LinesAfter
  <2> QED BY <1>0, <2>1, CutKeepsOrder
<1> QED BY <1>1, <1>2, <1>3 DEF LineEnd

-----------------------------------------------------------------------------
(* Sequences of effects.                                                   *)

EffectsOf(r) == {o \in Effect : o.run = r}

LEMMA EffectTypes ==
  ASSUME NEW r \in Runs, NEW p \in Phase
  PROVE  /\ \A t \in EventType : EmitOf(r, t, p) \in EffectsOf(r)
         /\ \A s \in Status : SaveOf(r, s, p) \in EffectsOf(r)
         /\ AnswerOf(r) \in EffectsOf(r)
<1>1. 0 \in Phase
  BY CellAssumption DEF Phase
<1>2. \A t \in EventType : EmitOf(r, t, p) \in EffectsOf(r)
  BY DEF EmitOf, EffectsOf, Effect
<1>3. \A s \in Status : SaveOf(r, s, p) \in EffectsOf(r)
  BY DEF SaveOf, EffectsOf, Effect
<1>4. AnswerOf(r) \in EffectsOf(r)
  BY <1>1 DEF AnswerOf, EffectsOf, Effect
<1> QED BY <1>2, <1>3, <1>4

LEMMA EnterType ==
  ASSUME NEW r \in Runs, NEW p \in Phase
  PROVE  Enter(r, p) \in Seq(EffectsOf(r))
<1>1. SaveOf(r, "running", p) \in EffectsOf(r) /\ EmitOf(r, "phase.started", p) \in EffectsOf(r)
  BY EffectTypes DEF Status, EventType
<1> QED
  BY <1>1 DEF Enter

(* The phases that await nothing, from p to q.                             *)
LEMMA PassThroughType ==
  ASSUME NEW r \in Runs, NEW p \in Nat, NEW q \in Nat, q <= NumPhases
  PROVE  PassThrough(r, p, q) \in Seq(EffectsOf(r))
<1> DEFINE n == IF p <= q THEN 3 * (q - p + 1) ELSE 0
<1>1. n \in Nat
  OBVIOUS
<1>2. ASSUME NEW i \in 1 .. n
      PROVE  p + ((i - 1) \div 3) \in Phase /\ (i - 1) % 3 \in 0 .. 2
  <2>1. p <= q /\ i - 1 \in 0 .. (3 * (q - p + 1) - 1)
    BY <1>2
  <2>2. (i - 1) \div 3 \in 0 .. (q - p)
    BY <2>1
  <2> QED
    BY <2>1, <2>2, CellAssumption DEF Phase
<1>3. PassThrough(r, p, q) \in [1 .. n -> EffectsOf(r)]
  <2>1. ASSUME NEW i \in 1 .. n
        PROVE  PassThrough(r, p, q)[i] \in EffectsOf(r)
    BY <1>2, EffectTypes DEF PassThrough, Status, EventType
  <2> QED
    BY <2>1 DEF PassThrough
<1> QED
  <2> HIDE DEF n
  <2> QED BY <1>1, <1>3, SeqDef

LEMMA StubFromType ==
  ASSUME RunTypeOK, NEW r \in Runs, mem[r] # Absent, NEW p \in 1 .. (NumPhases + 1)
  PROVE  StubFrom(r, p) \in Seq(EffectsOf(r)) /\ StubAwait(p) \in TaskState
<1>1. mem[r].phase \in Phase /\ NumPhases \in Phase
  BY CellAssumption DEF RunTypeOK, RunRecord, Phase
<1>2. p <= NumPhases => p \in Phase
  BY CellAssumption DEF Phase
<1>3. CASE p <= NumPhases
  <2>1. SaveOf(r, "running", p) \in EffectsOf(r) /\ EmitOf(r, "phase.started", p) \in EffectsOf(r)
    BY <1>2, <1>3, EffectTypes DEF Status, EventType
  <2> QED
    BY <1>3, <2>1 DEF StubFrom, StubAwait, TaskState
<1>4. CASE ~(p <= NumPhases)
  <2>1. /\ EmitOf(r, "run.completed", NumPhases) \in EffectsOf(r)
        /\ SaveOf(r, "succeeded", mem[r].phase) \in EffectsOf(r)
    BY <1>1, EffectTypes DEF Status, EventType, Terminal
  <2> QED
    BY <1>4, <2>1 DEF StubFrom, StubAwait, TaskState
<1> QED BY <1>3, <1>4

-----------------------------------------------------------------------------
(* The types.                                                              *)

TypeInv == RunTypeOK /\ KnownRuns

(* A coroutine of a known run that begins a segment of its own effects.    *)
LEMMA SegmentKeepsTypes ==
  ASSUME TypeInv, NEW r \in Runs, mem[r] # Absent,
         NEW s \in Seq(EffectsOf(r)), NEW t \in TaskState,
         RunSegment(r, s, t), proc # "down"
  PROVE  TypeInv' /\ script' \in Seq(EffectsOf(r))
<1> USE DEF TypeInv
<1>1. s \in Seq(Effect) /\ \A i \in DOMAIN s : s[i].run = r
  <2>1. EffectsOf(r) \subseteq Effect
    BY DEF EffectsOf
  <2>2. s \in Seq(Effect)
    BY <2>1, SeqMonotonic
  <2>3. \A i \in DOMAIN s : s[i] \in EffectsOf(r)
    BY LenProperties, ElementOfSeq
  <2> QED BY <2>2, <2>3 DEF EffectsOf
<1>2. RunTypeOK'
  BY <1>1 DEF RunTypeOK, RunSegment, procVars, storeVars, logVars
<1>3. KnownRuns'
  <2>1. /\ mem' = mem /\ script' = s /\ proc' = proc
        /\ task' = [task EXCEPT ![r] = t] /\ task \in [Runs -> TaskState]
    BY DEF RunSegment, procVars, storeVars, RunTypeOK
  <2>2. \A i \in DOMAIN script' : mem'[script'[i].run] # Absent'
    BY <1>1, <2>1 DEF Absent
  <2>3. \A q \in Runs : task'[q] # "none" => mem'[q] # Absent'
    BY <2>1 DEF KnownRuns, Absent
  <2> QED
    BY <2>1, <2>2, <2>3 DEF KnownRuns
<1>4. script' \in Seq(EffectsOf(r))
  BY DEF RunSegment
<1> QED BY <1>2, <1>3, <1>4

(* The parts of a known record.                                            *)
LEMMA KnownRecord ==
  ASSUME TypeInv, NEW r \in Runs, mem[r] # Absent
  PROVE  mem[r] \in RunRecord /\ mem[r].phase \in Phase /\ mem[r].status \in Status
BY DEF TypeInv, RunTypeOK, RunRecord

(* The effect that is next: what it is, whose it is and what follows it.   *)
LEMMA NextEffect ==
  ASSUME TypeInv, script # <<>>
  PROVE  /\ Head(script) \in Effect /\ Head(script).run \in Runs
         /\ mem[Head(script).run] \in RunRecord
         /\ Tail(script) \in Seq(Effect)
         /\ \A i \in DOMAIN Tail(script) : mem[Tail(script)[i].run] # Absent
<1>1. script \in Seq(Effect)
  BY DEF TypeInv, RunTypeOK
<1>2. /\ Head(script) \in Effect /\ Tail(script) \in Seq(Effect)
      /\ Len(Tail(script)) = Len(script) - 1
      /\ \A i \in 1 .. Len(Tail(script)) : Tail(script)[i] = script[i + 1]
  BY <1>1, HeadTailProperties
<1>3. /\ Len(script) \in Nat \ {0} /\ DOMAIN script = 1 .. Len(script)
      /\ DOMAIN Tail(script) = 1 .. Len(Tail(script))
  BY <1>1, <1>2, EmptySeq, LenProperties
<1>4. Head(script) = script[1]
  BY <1>1, <1>3
<1>5. mem[Head(script).run] # Absent
  BY <1>3, <1>4 DEF TypeInv, KnownRuns
<1>6. \A i \in DOMAIN Tail(script) : mem[Tail(script)[i].run] # Absent
  <2>1. TAKE i \in DOMAIN Tail(script)
  <2>2. i + 1 \in DOMAIN script /\ Tail(script)[i] = script[i + 1]
    BY <1>2, <1>3
  <2> QED BY <2>2 DEF TypeInv, KnownRuns
<1>7. Head(script).run \in Runs
  BY <1>2 DEF Effect
<1> QED
  BY <1>2, <1>5, <1>6, <1>7 DEF TypeInv, RunTypeOK

(* An effect is made.                                                      *)
LEMMA PerformKeepsTypes ==
  ASSUME LogInv, Perform
  PROVE  TypeInv'
<1> DEFINE o == Head(script)
<1>0. TypeInv /\ script # <<>>
  BY DEF LogInv, TypeInv, Perform, PerformEmit, PerformSave, PerformAnswer
<1>1. /\ o \in Effect /\ o.run \in Runs /\ mem[o.run] \in RunRecord
      /\ Tail(script) \in Seq(Effect)
      /\ \A i \in DOMAIN Tail(script) : mem[Tail(script)[i].run] # Absent
  BY <1>0, NextEffect
<1> HIDE DEF o
<1>2. CASE PerformEmit
  <2>1. NextEvent(o) \in Event /\ NextEvent(o).seq = seq[o.run] + 1
    <3>1. o.what \in EventType /\ o.phase \in Phase
      BY <1>1, <1>2 DEF PerformEmit, Effect, o
    <3> QED
      BY <1>0, <1>1, <3>1 DEF NextEvent, Event, TypeInv, RunTypeOK
  <2>2. /\ events' = [events EXCEPT ![o.run] = Append(@, NextEvent(o))]
        /\ file' = [file EXCEPT ![o.run] = LinesAfter(@, tail[o.run], NextEvent(o))]
        /\ seq' = [seq EXCEPT ![o.run] = @ + 1]
        /\ tail' = [tail EXCEPT ![o.run] = "whole"]
        /\ script' = Tail(script)
        /\ UNCHANGED <<proc, crashes, mem, disk, task, acked>>
    BY <1>2 DEF PerformEmit, procVars, storeVars, o
  <2>3. Append(events[o.run], NextEvent(o)) \in Seq(Event)
    BY <1>0, <1>1, <2>1, AppendProperties DEF TypeInv, RunTypeOK
  <2>4. LinesAfter(file[o.run], tail[o.run], NextEvent(o)) \in Seq(Event)
    <3>1. proc # "down"
      BY <1>2 DEF PerformEmit
    <3>2. /\ file[o.run] \in Seq(Event) /\ tail[o.run] \in LineEnd /\ seq[o.run] \in Nat
          /\ Increasing(file[o.run]) /\ Below(file[o.run], seq[o.run])
      BY <1>1, <3>1 DEF LogInv, RunTypeOK, SeqIncreasing, CounterAhead
    <3> QED BY <2>1, <3>2, LinesAfterKeepsOrder
  <2>5. RunTypeOK'
    BY <1>0, <1>1, <2>2, <2>3, <2>4 DEF TypeInv, RunTypeOK, LineEnd
  <2>6. KnownRuns'
    BY <1>0, <1>1, <1>2, <2>2 DEF PerformEmit, TypeInv, KnownRuns, Absent
  <2> QED BY <2>5, <2>6 DEF TypeInv
<1>3. CASE PerformSave
  <2>1. o.what \in Status /\ o.phase \in Phase
    BY <1>1, <1>3 DEF PerformSave, Effect, o
  <2>2. /\ mem' = [mem EXCEPT ![o.run].status = o.what, ![o.run].phase = o.phase]
        /\ disk' = mem' /\ script' = Tail(script)
        /\ UNCHANGED <<proc, crashes, events, seq, file, tail, task, acked>>
    BY <1>3 DEF PerformSave, procVars, logVars, o
  <2>3. mem' \in [Runs -> RunRecord \cup {Absent}]
    BY <1>0, <1>1, <2>1, <2>2 DEF TypeInv, RunTypeOK, RunRecord
  <2>4. \A r \in Runs : mem[r] # Absent => mem'[r] # Absent
    <3>1. mem'[o.run].status \in Status
      BY <1>0, <1>1, <2>1, <2>2 DEF TypeInv, RunTypeOK, RunRecord
    <3>2. mem'[o.run] # Absent
      BY <3>1 DEF Absent, Status, Terminal
    <3>3. \A r \in Runs : r # o.run => mem'[r] = mem[r]
      BY <1>0, <2>2 DEF TypeInv, RunTypeOK
    <3> QED BY <3>2, <3>3
  <2>5. RunTypeOK'
    BY <1>0, <1>1, <2>2, <2>3 DEF TypeInv, RunTypeOK
  <2>6. KnownRuns'
    <3>1. \A i \in DOMAIN Tail(script) : Tail(script)[i].run \in Runs
      <4>1. \A i \in DOMAIN Tail(script) : Tail(script)[i] \in Effect
        BY <1>1, LenProperties, ElementOfSeq
      <4> QED BY <4>1 DEF Effect
    <3>2. \A i \in DOMAIN script' : mem'[script'[i].run] # Absent'
      BY <1>1, <2>2, <2>4, <3>1 DEF Absent
    <3>3. \A r \in Runs : task'[r] # "none" => mem'[r] # Absent'
      BY <1>0, <2>2, <2>4 DEF TypeInv, KnownRuns, Absent
    <3>4. proc' # "down"
      BY <1>3, <2>2 DEF PerformSave
    <3> QED BY <3>2, <3>3, <3>4 DEF KnownRuns
  <2> QED BY <2>5, <2>6 DEF TypeInv
<1>4. CASE PerformAnswer
  <2>1. /\ acked' = acked \cup {o.run} /\ script' = Tail(script)
        /\ UNCHANGED <<proc, crashes, mem, disk, events, seq, file, tail, task>>
        /\ proc # "down"
    BY <1>4 DEF PerformAnswer, procVars, storeVars, logVars, o
  <2>2. RunTypeOK'
    BY <1>0, <1>1, <2>1 DEF TypeInv, RunTypeOK
  <2>3. KnownRuns'
    BY <1>0, <1>1, <2>1 DEF TypeInv, KnownRuns, Absent
  <2> QED BY <2>2, <2>3 DEF TypeInv
<1> QED BY <1>2, <1>3, <1>4 DEF Perform

(* The HTTP handlers.                                                      *)
LEMMA CreateKeepsTypes ==
  ASSUME TypeInv, NEW r \in Runs, CreateRun(r)
  PROVE  TypeInv'
<1>1. PICK p \in Policies :
        /\ mem' = [mem EXCEPT ![r] = [status |-> "queued", phase |-> 0,
                                      cancelled |-> FALSE, policy |-> p]]
        /\ task' = [task EXCEPT ![r] = IF p = "bad_hosts" THEN "none" ELSE "ready"]
  BY DEF CreateRun
<1>2. /\ disk' = mem' /\ script = <<>> /\ script' = <<>> /\ proc = "up"
      /\ UNCHANGED <<proc, crashes, events, seq, file, tail, acked>>
  BY DEF CreateRun, LoopIdle, procVars, logVars
<1>3. mem' \in [Runs -> RunRecord \cup {Absent}]
  BY <1>1, CellAssumption DEF TypeInv, RunTypeOK, RunRecord, Status, Phase
<1>4. task' \in [Runs -> TaskState]
  BY <1>1 DEF TypeInv, RunTypeOK, TaskState
<1>5. RunTypeOK'
  BY <1>2, <1>3, <1>4 DEF TypeInv, RunTypeOK
<1>6. mem'[r] # Absent /\ \A q \in Runs : q # r => mem'[q] = mem[q] /\ task'[q] = task[q]
  BY <1>1 DEF TypeInv, RunTypeOK, Absent
<1>7. KnownRuns'
  BY <1>2, <1>6 DEF TypeInv, KnownRuns, Absent
<1> QED BY <1>5, <1>7 DEF TypeInv

LEMMA CancelKeepsTypes ==
  ASSUME TypeInv, NEW r \in Runs, CancelRun(r)
  PROVE  TypeInv'
<1> DEFINE s == <<EmitOf(r, "run.cancelled", 0), SaveOf(r, "cancelled", mem[r].phase), AnswerOf(r)>>
<1>1. /\ mem[r] # Absent /\ mem' = [mem EXCEPT ![r].cancelled = TRUE] /\ script' = s
      /\ task' = [task EXCEPT ![r] = CASE @ \in {"sleep", "plan", "execute"} -> "interrupted"
                                        [] @ = "ready" -> "done"
                                        [] OTHER -> @]
      /\ proc = "up"
      /\ UNCHANGED <<proc, crashes, disk, events, seq, file, tail, acked>>
  BY DEF CancelRun, LoopIdle, procVars, logVars
<1>2. mem[r] \in RunRecord /\ mem[r].phase \in Phase /\ mem[r].status \in Status
  BY <1>1, KnownRecord
<1>3. s \in Seq(EffectsOf(r))
  <2>1. /\ EmitOf(r, "run.cancelled", 0) \in EffectsOf(r)
        /\ SaveOf(r, "cancelled", mem[r].phase) \in EffectsOf(r)
        /\ AnswerOf(r) \in EffectsOf(r)
    <3>1. 0 \in Phase
      BY CellAssumption DEF Phase
    <3> QED BY <1>2, <3>1, EffectTypes DEF Status, Terminal, EventType
  <2> QED BY <2>1
<1> HIDE DEF s
<1>4. s \in Seq(Effect) /\ \A i \in DOMAIN s : s[i].run = r
  <2>1. EffectsOf(r) \subseteq Effect
    BY DEF EffectsOf
  <2>2. \A i \in DOMAIN s : s[i] \in EffectsOf(r)
    BY <1>3, LenProperties, ElementOfSeq
  <2>3. s \in Seq(Effect)
    BY <1>3, <2>1, SeqMonotonic
  <2> QED BY <2>2, <2>3 DEF EffectsOf
<1>5. mem' \in [Runs -> RunRecord \cup {Absent}] /\ mem'[r].status \in Status
  BY <1>1, <1>2 DEF TypeInv, RunTypeOK, RunRecord
<1>6. task' \in [Runs -> TaskState]
  BY <1>1 DEF TypeInv, RunTypeOK, TaskState
<1>7. RunTypeOK'
  BY <1>1, <1>4, <1>5, <1>6 DEF TypeInv, RunTypeOK
<1>8. KnownRuns'
  <2>1. mem'[r] # Absent
    BY <1>5 DEF Absent, Status, Terminal
  <2>2. \A q \in Runs : q # r => mem'[q] = mem[q] /\ task'[q] = task[q]
    BY <1>1 DEF TypeInv, RunTypeOK
  <2> QED
    BY <1>1, <1>4, <2>1, <2>2 DEF TypeInv, KnownRuns, Absent
<1> QED BY <1>7, <1>8 DEF TypeInv

(* A coroutine starts or goes on.                                          *)
LEMMA RunTaskKeepsTypes ==
  ASSUME TypeInv, NEW r \in Runs, RunTask(r)
  PROVE  TypeInv' /\ script' \in Seq(EffectsOf(r))
<1>1. /\ proc # "down" /\ mem[r] # Absent
      /\ mem[r] \in RunRecord /\ mem[r].phase \in Phase
  <2>1. proc # "down" /\ task[r] # "none"
    BY DEF RunTask, StartStub, WakeStub, StartAgent, FactoryRaises, PlanReturns,
           ExecutePasses, ExecuteFails, SessionRaises, TakeCancellation, LoopIdle
  <2>2. mem[r] # Absent
    BY <2>1 DEF TypeInv, KnownRuns
  <2> QED BY <2>1, <2>2, KnownRecord
<1>2. /\ NumPhases \in Nat /\ GeneratePhase \in Nat /\ ExecutePhase \in Nat
      /\ 0 \in Phase /\ NumPhases \in Phase /\ GeneratePhase \in Phase /\ ExecutePhase \in Phase
      /\ GeneratePhase - 1 \in Nat /\ ExecutePhase - 1 \in Nat
      /\ GeneratePhase - 1 <= NumPhases /\ ExecutePhase - 1 <= NumPhases
  BY CellAssumption DEF Phase
<1> DEFINE E(t, p) == EmitOf(r, t, p)
           S(t, p) == SaveOf(r, t, p)
           Es == EffectsOf(r)
<1>3. \A p \in Phase : /\ \A t \in EventType : E(t, p) \in Es
                        /\ \A s \in Status : S(s, p) \in Es
  BY EffectTypes
<1>4. \A a, b \in Seq(Es) : a \o b \in Seq(Es)
  <2> HIDE DEF Es
  <2> QED BY ConcatProperties
<1>5. <<S("running", mem[r].phase), E("run.started", 0)>> \in Seq(Es)
  <2>1. S("running", mem[r].phase) \in Es /\ E("run.started", 0) \in Es
    <3> HIDE DEF E, S, Es
    <3> QED BY <1>1, <1>2, <1>3 DEF Status, EventType
  <2> HIDE DEF E, S, Es
  <2> QED BY <2>1
<1>6. CASE StartStub(r)
  <2>1. mem[r].phase + 1 \in 1 .. (NumPhases + 1)
    BY <1>1, <1>2 DEF Phase
  <2>2. /\ StubFrom(r, mem[r].phase + 1) \in Seq(Es)
        /\ StubAwait(mem[r].phase + 1) \in TaskState
    BY <1>1, <2>1, StubFromType DEF TypeInv
  <2>3. \/ RunSegment(r, <<S("running", mem[r].phase), E("run.started", 0)>>, "done")
        \/ RunSegment(r, <<S("running", mem[r].phase), E("run.started", 0)>>
                            \o StubFrom(r, mem[r].phase + 1), StubAwait(mem[r].phase + 1))
    BY <1>6 DEF StartStub
  <2>4. "done" \in TaskState
    BY DEF TaskState
  <2> HIDE DEF E, S, Es
  <2>5. <<S("running", mem[r].phase), E("run.started", 0)>>
          \o StubFrom(r, mem[r].phase + 1) \in Seq(Es)
    BY <1>4, <1>5, <2>2
  <2> QED BY <1>1, <1>5, <2>2, <2>3, <2>4, <2>5, SegmentKeepsTypes DEF Es
<1>7. CASE WakeStub(r)
  <2>1. mem[r].phase + 1 \in 1 .. (NumPhases + 1)
    BY <1>1, <1>2 DEF Phase
  <2>2. /\ StubFrom(r, mem[r].phase + 1) \in Seq(Es)
        /\ StubAwait(mem[r].phase + 1) \in TaskState
    BY <1>1, <2>1, StubFromType DEF TypeInv
  <2>3. <<E("phase.completed", mem[r].phase)>> \in Seq(Es)
    BY <1>1, <1>3 DEF EventType
  <2>4. RunSegment(r, <<E("phase.completed", mem[r].phase)>>
                        \o StubFrom(r, mem[r].phase + 1), StubAwait(mem[r].phase + 1))
    BY <1>7 DEF WakeStub
  <2> HIDE DEF E, S, Es
  <2>5. <<E("phase.completed", mem[r].phase)>> \o StubFrom(r, mem[r].phase + 1) \in Seq(Es)
    BY <1>4, <2>2, <2>3
  <2> QED BY <1>1, <2>2, <2>4, <2>5, SegmentKeepsTypes DEF Es
<1>8. CASE StartAgent(r)
  <2>1. PassThrough(r, 1, GeneratePhase - 1) \in Seq(Es) /\ Enter(r, GeneratePhase) \in Seq(Es)
    BY <1>2, PassThroughType, EnterType
  <2>2. RunSegment(r, <<S("running", mem[r].phase), E("run.started", 0)>>
                        \o PassThrough(r, 1, GeneratePhase - 1) \o Enter(r, GeneratePhase), "plan")
    BY <1>8 DEF StartAgent
  <2>3. "plan" \in TaskState
    BY DEF TaskState
  <2> HIDE DEF E, S, Es
  <2>4. <<S("running", mem[r].phase), E("run.started", 0)>>
          \o PassThrough(r, 1, GeneratePhase - 1) \o Enter(r, GeneratePhase) \in Seq(Es)
    BY <1>4, <1>5, <2>1
  <2> QED BY <1>1, <2>2, <2>3, <2>4, SegmentKeepsTypes DEF Es
<1>9. CASE FactoryRaises(r)
  <2>1. <<>> \in Seq(Es) /\ "done" \in TaskState
    BY EmptySeq DEF TaskState
  <2> QED BY <1>1, <1>9, <2>1, SegmentKeepsTypes DEF FactoryRaises
<1>10. CASE PlanReturns(r)
  <2>1. /\ PassThrough(r, GeneratePhase + 1, ExecutePhase - 1) \in Seq(Es)
        /\ Enter(r, ExecutePhase) \in Seq(Es)
    BY <1>2, PassThroughType, EnterType
  <2>2. <<E("context.retrieved", GeneratePhase), E("plan.created", GeneratePhase),
          E("phase.completed", GeneratePhase)>> \in Seq(Es)
    BY <1>2, <1>3 DEF EventType
  <2>3. RunSegment(r, <<E("context.retrieved", GeneratePhase), E("plan.created", GeneratePhase),
                        E("phase.completed", GeneratePhase)>>
                        \o PassThrough(r, GeneratePhase + 1, ExecutePhase - 1)
                        \o Enter(r, ExecutePhase), "execute")
    BY <1>10 DEF PlanReturns
  <2>4. "execute" \in TaskState
    BY DEF TaskState
  <2> HIDE DEF E, S, Es
  <2>5. <<E("context.retrieved", GeneratePhase), E("plan.created", GeneratePhase),
          E("phase.completed", GeneratePhase)>>
          \o PassThrough(r, GeneratePhase + 1, ExecutePhase - 1)
          \o Enter(r, ExecutePhase) \in Seq(Es)
    BY <1>4, <2>1, <2>2
  <2> QED BY <1>1, <2>3, <2>4, <2>5, SegmentKeepsTypes DEF Es
<1>11. CASE ExecutePasses(r)
  <2>1. PassThrough(r, ExecutePhase + 1, NumPhases) \in Seq(Es)
    BY <1>2, PassThroughType
  <2>2. /\ <<E("phase.completed", ExecutePhase), E("verdict.passed", ExecutePhase)>> \in Seq(Es)
        /\ <<E("run.completed", NumPhases), S("succeeded", NumPhases)>> \in Seq(Es)
    BY <1>2, <1>3 DEF EventType, Status, Terminal
  <2>3. RunSegment(r, <<E("phase.completed", ExecutePhase), E("verdict.passed", ExecutePhase)>>
                        \o PassThrough(r, ExecutePhase + 1, NumPhases)
                        \o <<E("run.completed", NumPhases), S("succeeded", NumPhases)>>, "done")
    BY <1>11 DEF ExecutePasses
  <2>4. "done" \in TaskState
    BY DEF TaskState
  <2> HIDE DEF E, S, Es
  <2>5. <<E("phase.completed", ExecutePhase), E("verdict.passed", ExecutePhase)>>
          \o PassThrough(r, ExecutePhase + 1, NumPhases)
          \o <<E("run.completed", NumPhases), S("succeeded", NumPhases)>> \in Seq(Es)
    BY <1>4, <2>1, <2>2
  <2> QED BY <1>1, <2>3, <2>4, <2>5, SegmentKeepsTypes DEF Es
<1>12. CASE ExecuteFails(r)
  <2>1. /\ <<E("phase.completed", ExecutePhase), E("verdict.failed", ExecutePhase),
             S("failed", mem[r].phase)>> \in Seq(Es)
        /\ "done" \in TaskState
    <3> HIDE DEF E, S, Es
    <3>1. /\ E("phase.completed", ExecutePhase) \in Es
          /\ E("verdict.failed", ExecutePhase) \in Es
          /\ S("failed", mem[r].phase) \in Es
      BY <1>1, <1>2, <1>3 DEF EventType, Status, Terminal
    <3> QED BY <3>1 DEF TaskState
  <2> QED BY <1>1, <1>12, <2>1, SegmentKeepsTypes DEF ExecuteFails
<1>13. CASE SessionRaises(r)
  <2>1. /\ <<E("run.failed", mem[r].phase), S("failed", mem[r].phase)>> \in Seq(Es)
        /\ "done" \in TaskState
    BY <1>1, <1>3 DEF EventType, Status, Terminal, TaskState
  <2> QED BY <1>1, <1>13, <2>1, SegmentKeepsTypes DEF SessionRaises
<1>14. CASE TakeCancellation(r)
  <2>1. <<S("cancelled", mem[r].phase)>> \in Seq(Es) /\ "done" \in TaskState
    <3>0. "cancelled" \in Status
      BY DEF Status, Terminal
    <3>1. S("cancelled", mem[r].phase) \in Es
      BY <1>1, <3>0, EffectTypes
    <3> HIDE DEF E, S, Es
    <3> QED BY <3>1 DEF TaskState
  <2> QED BY <1>1, <1>14, <2>1, SegmentKeepsTypes DEF TakeCancellation
<1> QED
  BY <1>6, <1>7, <1>8, <1>9, <1>10, <1>11, <1>12, <1>13, <1>14 DEF RunTask

(* The streams change nothing but the connections.                         *)
LEMMA StreamKeepsAll ==
  ASSUME LogInv, StreamUnchanged
  PROVE  LogInv'
<1>1. UNCHANGED <<proc, mem, disk, events, seq, file, tail, task, script, acked, crashes>>
  BY DEF StreamUnchanged, procVars, storeVars, logVars
<1> QED
  BY <1>1 DEF LogInv, RunTypeOK, KnownRuns, SeqIncreasing, CounterAhead, Absent

(* A death takes the memory and leaves the disk and the given lines.       *)
LEMMA DieKeepsTypes ==
  ASSUME TypeInv, NEW lines \in [Runs -> Seq(Event)], NEW ends \in [Runs -> LineEnd],
         NEW connections, Die(lines, ends, connections), crashes' \in Nat
  PROVE  TypeInv'
<1>1. /\ proc' = "down" /\ script' = <<>>
      /\ mem' = [r \in Runs |-> Absent] /\ events' = [r \in Runs |-> <<>>]
      /\ seq' = [r \in Runs |-> 0] /\ task' = [r \in Runs |-> "none"]
      /\ file' = lines /\ tail' = ends /\ disk' = disk /\ acked' = acked
  BY DEF Die
<1>2. events' \in [Runs -> Seq(Event)] /\ script' \in Seq(Effect)
  BY <1>1, EmptySeq
<1>3. RunTypeOK'
  BY <1>1, <1>2 DEF TypeInv, RunTypeOK, TaskState
<1>4. KnownRuns'
  BY <1>1 DEF KnownRuns
<1> QED BY <1>3, <1>4 DEF TypeInv

LEMMA CrashKeepsTypes ==
  ASSUME TypeInv, Crash
  PROVE  TypeInv'
<1>1. Die(file, tail, Broken) /\ crashes' \in Nat
  BY DEF Crash, TypeInv, RunTypeOK
<1>2. file \in [Runs -> Seq(Event)] /\ tail \in [Runs -> LineEnd]
  BY DEF TypeInv, RunTypeOK
<1> QED BY <1>1, <1>2, DieKeepsTypes

(* The lines that are left when the process dies inside the write of one.  *)
LEMMA TornLines ==
  ASSUME LogInv, TornCrash
  PROVE  \E lines \in [Runs -> Seq(Event)], ends \in [Runs -> LineEnd] :
           /\ Die(lines, ends, Broken) /\ crashes' \in Nat
           /\ \A r \in Runs : Increasing(lines[r])
<1> DEFINE o == Head(script)
<1>1. PICK t \in {"fragment", "unterminated"} :
        Die([file EXCEPT ![o.run] = IF tail[o.run] = "whole" /\ t = "fragment" THEN @
                                    ELSE LinesAfter(@, tail[o.run], NextEvent(o))],
            [tail EXCEPT ![o.run] = IF tail[o.run] = "whole" THEN t ELSE "fragment"],
            Broken)
  BY DEF TornCrash
<1>2. proc # "down" /\ script # <<>> /\ o.do = "emit" /\ crashes' \in Nat
  BY DEF TornCrash, LogInv, RunTypeOK
<1>3. o \in Effect /\ o.run \in Runs
  BY <1>2, NextEffect DEF LogInv, TypeInv
<1> HIDE DEF o
<1>4. NextEvent(o) \in Event /\ NextEvent(o).seq = seq[o.run] + 1
  <2>1. o.what \in EventType /\ o.phase \in Phase
    BY <1>2, <1>3 DEF Effect
  <2> QED
    BY <1>3, <2>1 DEF NextEvent, Event, LogInv, RunTypeOK
<1>5. /\ file[o.run] \in Seq(Event) /\ tail[o.run] \in LineEnd /\ seq[o.run] \in Nat
      /\ Increasing(file[o.run]) /\ Below(file[o.run], seq[o.run])
  BY <1>2, <1>3 DEF LogInv, RunTypeOK, SeqIncreasing, CounterAhead
<1> DEFINE new == LinesAfter(file[o.run], tail[o.run], NextEvent(o))
           lines == [file EXCEPT ![o.run] = IF tail[o.run] = "whole" /\ t = "fragment" THEN @
                                            ELSE LinesAfter(@, tail[o.run], NextEvent(o))]
           ends == [tail EXCEPT ![o.run] = IF tail[o.run] = "whole" THEN t ELSE "fragment"]
<1>6. new \in Seq(Event) /\ Increasing(new)
  BY <1>4, <1>5, LinesAfterKeepsOrder
<1>7. lines \in [Runs -> Seq(Event)] /\ ends \in [Runs -> LineEnd]
  BY <1>3, <1>5, <1>6 DEF LogInv, RunTypeOK, LineEnd
<1>8. \A r \in Runs : lines[r] = file[r] \/ lines[r] = new
  BY <1>3 DEF LogInv, RunTypeOK
<1>9. \A r \in Runs : Increasing(lines[r])
  BY <1>6, <1>8 DEF LogInv, SeqIncreasing
<1>10. Die(lines, ends, Broken)
  BY <1>1
<1> QED
  <2> HIDE DEF lines, ends
  <2> QED BY <1>2, <1>7, <1>9, <1>10

LEMMA TornCrashKeepsTypes ==
  ASSUME LogInv, TornCrash
  PROVE  TypeInv'
<1>1. TypeInv
  BY DEF LogInv, TypeInv
<1> QED BY <1>1, TornLines, DieKeepsTypes

(* A teardown interrupts tasks; when they are through, the process ends.   *)
LEMMA ShutdownKeepsTypes ==
  ASSUME TypeInv, Shutdown \/ ShutdownEnds
  PROVE  TypeInv'
<1>1. CASE Shutdown
  <2>1. /\ proc' = "closing" /\ crashes' = crashes + 1
        /\ task' = [r \in Runs |-> IF task[r] \in {"sleep", "plan", "execute", "interrupted"}
                                   THEN "interrupted" ELSE "none"]
        /\ UNCHANGED <<mem, disk, events, seq, file, tail, script, acked>>
    BY <1>1 DEF Shutdown, storeVars, logVars
  <2>2. \A r \in Runs : task'[r] # "none" => task[r] # "none"
    BY <2>1 DEF TypeInv, RunTypeOK
  <2> QED
    BY <2>1, <2>2 DEF TypeInv, RunTypeOK, KnownRuns, TaskState, Absent
<1>2. CASE ShutdownEnds
  <2>1. /\ Die(file, tail, conn) /\ crashes' \in Nat
        /\ file \in [Runs -> Seq(Event)] /\ tail \in [Runs -> LineEnd]
    BY <1>2 DEF ShutdownEnds, TypeInv, RunTypeOK
  <2> QED BY <2>1, DieKeepsTypes
<1> QED BY <1>1, <1>2

(* A restart rebuilds the memory from what the disk holds.                 *)
LEMMA RestartKeepsTypes ==
  ASSUME LogInv, Restart
  PROVE  TypeInv'
<1>1. /\ proc = "down" /\ proc' = "up" /\ script = <<>>
      /\ mem' = [r \in Runs |-> IF Resumable(disk[r])
                               THEN [disk[r] EXCEPT !.status = "queued"] ELSE disk[r]]
      /\ task' = [r \in Runs |-> IF Resumable(disk[r]) THEN "ready" ELSE "none"]
      /\ events' = file /\ seq' = [r \in Runs |-> MaxSeq(file[r])]
      /\ UNCHANGED <<disk, file, tail, script, acked, crashes>>
  BY DEF Restart, LogInv, KnownRuns
<1>2. \A r \in Runs : MaxSeq(file[r]) \in Nat
  BY MaxSeqIsUpperBound DEF LogInv, RunTypeOK, SeqIncreasing
<1>3. ASSUME NEW r \in Runs, Resumable(disk[r])
      PROVE  mem'[r] \in RunRecord /\ mem'[r].status = "queued"
  <2>1. disk[r] \in RunRecord
    BY <1>3 DEF LogInv, RunTypeOK, Resumable, Absent
  <2> QED
    BY <1>1, <1>3, <2>1 DEF RunRecord, Status
<1>4. mem' \in [Runs -> RunRecord \cup {Absent}]
  <2>1. \A r \in Runs : ~Resumable(disk[r]) => mem'[r] = disk[r]
    BY <1>1
  <2> QED BY <1>1, <1>3, <2>1 DEF LogInv, RunTypeOK
<1>5. RunTypeOK'
  BY <1>1, <1>2, <1>4 DEF LogInv, RunTypeOK, TaskState
<1>6. KnownRuns'
  <2>1. \A r \in Runs : task'[r] # "none" => Resumable(disk[r])
    BY <1>1
  <2>2. \A r \in Runs : Resumable(disk[r]) => mem'[r] # Absent
    BY <1>3 DEF Absent
  <2> QED
    BY <1>1, <2>1, <2>2 DEF KnownRuns, Absent
<1> QED BY <1>5, <1>6 DEF TypeInv

(* The types are kept by every step that starts where LogInv holds.        *)
LEMMA NextKeepsTypes ==
  ASSUME LogInv, [Next]_vars
  PROVE  TypeInv'
<1>0. TypeInv
  BY DEF LogInv, TypeInv
<1>1. CASE Perform
  BY <1>1, PerformKeepsTypes
<1>2. ASSUME NEW r \in Runs, CreateRun(r) \/ CancelRun(r) \/ RunTask(r)
      PROVE  TypeInv'
  BY <1>0, <1>2, CreateKeepsTypes, CancelKeepsTypes, RunTaskKeepsTypes
<1>3. ASSUME NEW c \in Clients,
             \/ \E r \in Runs : OpenStream(c, r)
             \/ PollStream(c) \/ CheckStream(c) \/ CloseStream(c)
      PROVE  TypeInv'
  <2>1. StreamUnchanged
    BY <1>3 DEF OpenStream, PollStream, CheckStream, CloseStream
  <2> QED BY <2>1, StreamKeepsAll DEF LogInv, TypeInv
<1>4. CASE Crash
  BY <1>0, <1>4, CrashKeepsTypes
<1>5. CASE TornCrash
  BY <1>5, TornCrashKeepsTypes
<1>6. CASE Shutdown \/ ShutdownEnds
  BY <1>0, <1>6, ShutdownKeepsTypes
<1>7. CASE Restart
  BY <1>7, RestartKeepsTypes
<1>8. CASE UNCHANGED vars
  BY <1>0, <1>8 DEF TypeInv, RunTypeOK, KnownRuns, Absent, vars
<1> QED
  BY <1>1, <1>2, <1>3, <1>4, <1>5, <1>6, <1>7, <1>8 DEF Next

-----------------------------------------------------------------------------
(* The order of the sequence numbers.                                      *)

SeqInv == SeqIncreasing /\ CounterAhead

(* An emit adds the number after the counter to the log in memory and to   *)
(* the file; the other effects do not touch the log.                       *)
LEMMA PerformKeepsOrder ==
  ASSUME LogInv, Perform
  PROVE  SeqInv'
<1> DEFINE o == Head(script)
<1>1. CASE PerformEmit
  <2>1. proc # "down" /\ script # <<>> /\ o.do = "emit"
    BY <1>1 DEF PerformEmit
  <2>2. o \in Effect /\ o.run \in Runs
    BY <2>1, NextEffect DEF LogInv, TypeInv
  <2>3. /\ events' = [events EXCEPT ![o.run] = Append(@, NextEvent(o))]
        /\ file' = [file EXCEPT ![o.run] = LinesAfter(@, tail[o.run], NextEvent(o))]
        /\ seq' = [seq EXCEPT ![o.run] = @ + 1]
        /\ proc' = proc
    BY <1>1 DEF PerformEmit, procVars
  <2> HIDE DEF o
  <2>4. NextEvent(o) \in Event /\ NextEvent(o).seq = seq[o.run] + 1
    <3>1. o.what \in EventType /\ o.phase \in Phase
      BY <2>1, <2>2 DEF Effect
    <3> QED
      BY <2>2, <3>1 DEF NextEvent, Event, LogInv, RunTypeOK
  <2>5. /\ events[o.run] \in Seq(Event) /\ file[o.run] \in Seq(Event)
        /\ tail[o.run] \in LineEnd /\ seq[o.run] \in Nat
        /\ Increasing(events[o.run]) /\ Below(events[o.run], seq[o.run])
        /\ Increasing(file[o.run]) /\ Below(file[o.run], seq[o.run])
    BY <2>1, <2>2 DEF LogInv, RunTypeOK, SeqIncreasing, CounterAhead
  <2>6. /\ Increasing(Append(events[o.run], NextEvent(o)))
        /\ Below(Append(events[o.run], NextEvent(o)), seq[o.run] + 1)
    BY <2>4, <2>5, AppendKeepsOrder
  <2>7. /\ Increasing(LinesAfter(file[o.run], tail[o.run], NextEvent(o)))
        /\ Below(LinesAfter(file[o.run], tail[o.run], NextEvent(o)), seq[o.run] + 1)
    BY <2>4, <2>5, LinesAfterKeepsOrder
  <2>8. ASSUME NEW r \in Runs
        PROVE  /\ Increasing(events'[r]) /\ Below(events'[r], seq'[r])
               /\ Increasing(file'[r]) /\ Below(file'[r], seq'[r])
    <3>1. CASE r = o.run
      BY <2>2, <2>3, <2>6, <2>7, <3>1 DEF LogInv, RunTypeOK
    <3>2. CASE r # o.run
      <4>1. events'[r] = events[r] /\ file'[r] = file[r] /\ seq'[r] = seq[r]
        BY <2>3, <3>2 DEF LogInv, RunTypeOK
      <4> QED
        BY <2>1, <4>1 DEF LogInv, SeqIncreasing, CounterAhead
    <3> QED BY <3>1, <3>2
  <2> QED
    BY <2>8 DEF SeqInv, SeqIncreasing, CounterAhead, Increasing, Below
<1>2. CASE PerformSave \/ PerformAnswer
  <2>1. UNCHANGED <<proc, events, seq, file>>
    BY <1>2 DEF PerformSave, PerformAnswer, procVars, logVars
  <2> QED
    BY <2>1 DEF LogInv, SeqInv, SeqIncreasing, CounterAhead, Increasing, Below
<1> QED BY <1>1, <1>2 DEF Perform

(* A death leaves an empty log in memory and, in the file, lines in order. *)
LEMMA DieKeepsOrder ==
  ASSUME NEW lines, NEW ends, NEW connections,
         Die(lines, ends, connections), \A r \in Runs : Increasing(lines[r])
  PROVE  SeqInv'
<1>1. /\ proc' = "down" /\ file' = lines
      /\ events' = [r \in Runs |-> <<>>]
  BY DEF Die
<1>2. \A r \in Runs : Increasing(events'[r]) /\ Below(events'[r], seq'[r])
  BY <1>1 DEF Increasing, Below
<1> QED
  BY <1>1, <1>2 DEF SeqInv, SeqIncreasing, CounterAhead, Increasing, Below

(* A restart sets the counter to the largest number of the file.           *)
LEMMA RestartKeepsOrder ==
  ASSUME LogInv, Restart
  PROVE  SeqInv'
<1>1. events' = file /\ file' = file /\ seq' = [r \in Runs |-> MaxSeq(file[r])]
  BY DEF Restart
<1>2. \A r \in Runs : Increasing(file[r]) /\ Below(file[r], MaxSeq(file[r]))
  BY MaxSeqIsUpperBound DEF LogInv, RunTypeOK, SeqIncreasing
<1> QED
  BY <1>1, <1>2 DEF SeqInv, SeqIncreasing, CounterAhead, Increasing, Below

LEMMA NextKeepsOrder ==
  ASSUME LogInv, [Next]_vars
  PROVE  SeqInv'
<1>0. ASSUME UNCHANGED <<events, seq, file>>, proc # "down"
      PROVE  SeqInv'
  BY <1>0 DEF LogInv, SeqInv, SeqIncreasing, CounterAhead, Increasing, Below
<1>1. CASE Perform
  BY <1>1, PerformKeepsOrder
<1>2. ASSUME NEW r \in Runs, CreateRun(r) \/ CancelRun(r) \/ RunTask(r)
      PROVE  SeqInv'
  <2>1. UNCHANGED <<events, seq, file>> /\ proc # "down"
    BY <1>2 DEF CreateRun, CancelRun, RunTask, StartStub, WakeStub, StartAgent, FactoryRaises,
                PlanReturns, ExecutePasses, ExecuteFails, SessionRaises, TakeCancellation,
                RunSegment, LoopIdle, logVars
  <2> QED BY <1>0, <2>1
<1>3. ASSUME NEW c \in Clients,
             \/ \E r \in Runs : OpenStream(c, r)
             \/ PollStream(c) \/ CheckStream(c) \/ CloseStream(c)
      PROVE  SeqInv'
  <2>1. StreamUnchanged
    BY <1>3 DEF OpenStream, PollStream, CheckStream, CloseStream
  <2> QED BY <2>1, StreamKeepsAll DEF LogInv, SeqInv
<1>4. CASE Crash
  BY <1>4, DieKeepsOrder DEF Crash, LogInv, SeqIncreasing
<1>5. CASE TornCrash
  BY <1>5, TornLines, DieKeepsOrder
<1>6. CASE Shutdown
  BY <1>0, <1>6 DEF Shutdown, LoopIdle, logVars
<1>7. CASE ShutdownEnds
  BY <1>7, DieKeepsOrder DEF ShutdownEnds, LogInv, SeqIncreasing
<1>8. CASE Restart
  BY <1>8, RestartKeepsOrder
<1>9. CASE UNCHANGED vars
  BY <1>9 DEF vars, LogInv, SeqInv, SeqIncreasing, CounterAhead, Increasing, Below
<1> QED
  BY <1>1, <1>2, <1>3, <1>4, <1>5, <1>6, <1>7, <1>8, <1>9 DEF Next

-----------------------------------------------------------------------------
(* The theorems.                                                           *)

LEMMA InitEstablishesLogInv == Init => LogInv
<1> SUFFICES ASSUME Init PROVE LogInv
  OBVIOUS
<1>1. RunTypeOK
  <2>1. <<>> \in Seq(Event) /\ <<>> \in Seq(Effect)
    BY EmptySeq
  <2> QED BY <2>1 DEF Init, RunTypeOK, LineEnd, TaskState
<1>2. KnownRuns
  BY DEF Init, KnownRuns
<1>3. SeqIncreasing /\ CounterAhead
  BY DEF Init, SeqIncreasing, CounterAhead, Increasing, Below
<1> QED BY <1>1, <1>2, <1>3 DEF LogInv

(* LogInv is an inductive invariant: together with the types, the counter  *)
(* of _emit stays ahead of the log through kills, torn lines and restarts. *)
THEOREM LogInvHolds == Spec => []LogInv
<1>1. LogInv /\ [Next]_vars => LogInv'
  BY NextKeepsTypes, NextKeepsOrder DEF LogInv, TypeInv, SeqInv
<1> QED BY InitEstablishesLogInv, <1>1, PTL DEF Spec

(* The cell's state is well typed: every stored run has a status and a     *)
(* phase of the program, every effect and every logged event is one of     *)
(* those the orchestrator makes.  (The clients' connections are not in it.)*)
THEOREM TypesHold == Spec => []RunTypeOK
<1>1. LogInv => RunTypeOK
  BY DEF LogInv
<1> QED BY LogInvHolds, <1>1, PTL

(* The sequence numbers that _emit gives the events of a run increase, in  *)
(* memory and on disk, for any number of runs, phases and process deaths,  *)
(* also when a death leaves half a line behind.                            *)
THEOREM SequenceNumbersIncrease == Spec => []SeqIncreasing
<1>1. LogInv => SeqIncreasing
  BY DEF LogInv
<1> QED BY LogInvHolds, <1>1, PTL
-----------------------------------------------------------------------------
(* The life of a run.                                                      *)

(* The effects that end a run: an event that names the outcome, then the   *)
(* save of that outcome.  Every other emit, and the save of "running", may *)
(* be made only in the middle of a run's life.                             *)
Failures == {"run.failed", "verdict.failed"}
Outcomes == {"run.completed", "run.cancelled"} \cup Failures

Emits(o, types) == o.do = "emit" /\ o.what \in types
Saves(o, statuses) == o.do = "save" /\ o.what \in statuses

Plain(o) == Saves(o, {"running"}) \/ Emits(o, EventType \ Outcomes)

(* What may come after effect o in a segment.                              *)
Follows(o, p) ==
  /\ Plain(o) => Plain(p) \/ Emits(p, {"run.completed"} \cup Failures)
  /\ Emits(o, {"run.completed"}) => Saves(p, {"succeeded"})
  /\ Emits(o, Failures) => Saves(p, {"failed"})
  /\ Emits(o, {"run.cancelled"}) => Saves(p, {"cancelled"})
  /\ Saves(o, {"cancelled"}) => p.do = "answer"
  /\ ~Saves(o, {"succeeded", "failed"}) /\ o.do # "answer"

(* Where a run has to be for effect o of it to be made.                    *)
Fits(o, s) ==
  /\ Saves(o, {"running"}) \/ Emits(o, {"run.cancelled"}) => s \in {"queued", "running"}
  /\ Emits(o, EventType \ {"run.cancelled"}) \/ Saves(o, {"succeeded", "failed"}) => s = "running"
  /\ Saves(o, {"cancelled"}) => s \in {"queued", "running", "cancelled"}
  /\ o.do = "answer" => s = "cancelled"
  /\ ~Saves(o, {"queued"})

(* A segment is one run's, and its effects come in the order above.        *)
Ordered(s) ==
  \A i \in DOMAIN s :
    /\ s[i].run = s[1].run
    /\ i + 1 \in DOMAIN s => Follows(s[i], s[i + 1])

(* The task that stands behind an effect: a run ends with its task, or it  *)
(* is cancelled while its task is interrupted, dead or was never there.    *)
Behind(o, t) ==
  /\ Emits(o, {"run.completed"} \cup Failures) \/ Saves(o, {"succeeded", "failed"}) => t = "done"
  /\ Emits(o, {"run.cancelled"}) \/ Saves(o, {"cancelled"}) \/ o.do = "answer"
       => t \in {"none", "done", "interrupted"}
  /\ t # "ready"

ScriptFits ==
  /\ Ordered(script)
  /\ \A i \in DOMAIN script : Behind(script[i], task[script[i].run])
  /\ script # <<>> => Fits(script[1], mem[script[1].run].status)

(* What a task in one of its awaits knows of the status of its run.        *)
TaskFits ==
  \A r \in Runs :
    /\ task[r] = "ready" => mem[r].status = "queued"
    /\ task[r] \in {"sleep", "plan", "execute"} =>
         \/ mem[r].status = "running"
         \/ script # <<>> /\ script[1].run = r /\ Saves(script[1], {"running"})
    /\ task[r] = "interrupted" => mem[r].status \in {"running", "cancelled"}

(* Memory and disk differ in what a restart has put in the queue again.    *)
MemOnDisk ==
  proc # "down" =>
    \A r \in Runs : \/ mem[r].status = disk[r].status
                    \/ mem[r].status = "queued" /\ disk[r].status = "running"

LifeInv == ScriptFits /\ TaskFits /\ MemOnDisk

(* With no torn lines, the log has the event that the next save or answer  *)
(* relies on.                                                              *)
EndsWith(s, types) == s # <<>> /\ s[Len(s)].type \in types
Logged ==
  script # <<>> =>
    LET o == script[1] IN
    /\ Saves(o, {"succeeded"}) => EndsWith(file[o.run], {"run.completed"})
    /\ Saves(o, {"failed"}) => EndsWith(file[o.run], Failures)
    /\ script[Len(script)].do = "answer" =>
         Emits(o, {"run.cancelled"}) \/ "run.cancelled" \in Types(file[o.run])
WholeLines == \A r \in Runs : tail[r] = "whole"
LoggedInv == WholeLines /\ Logged /\ StatusMatchesLog

-----------------------------------------------------------------------------
(* Segments.                                                               *)

(* The kinds of effect the definitions above distinguish.                  *)
LEMMA EffectKinds ==
  ASSUME NEW o \in Effect
  PROVE  \/ Saves(o, {"running"}) \/ Emits(o, EventType \ Outcomes)
         \/ Emits(o, {"run.completed"}) \/ Emits(o, Failures) \/ Emits(o, {"run.cancelled"})
         \/ Saves(o, {"queued"}) \/ Saves(o, {"succeeded"}) \/ Saves(o, {"failed"})
         \/ Saves(o, {"cancelled"}) \/ o.do = "answer"
BY DEF Effect, Saves, Emits, Outcomes, Failures, Status, Terminal, EventType

(* A script that is not empty: its first effect and what follows it.       *)
LEMMA ScriptParts ==
  ASSUME TypeInv, script # <<>>
  PROVE  /\ Len(script) \in Nat \ {0} /\ DOMAIN script = 1 .. Len(script)
         /\ Head(script) = script[1] /\ script[1] \in Effect /\ script[1].run \in Runs
         /\ mem[script[1].run] \in RunRecord
         /\ Len(Tail(script)) = Len(script) - 1
         /\ DOMAIN Tail(script) = 1 .. (Len(script) - 1)
         /\ \A i \in 1 .. (Len(script) - 1) : Tail(script)[i] = script[i + 1]
         /\ Tail(script) # <<>> => 1 \in DOMAIN Tail(script) /\ 2 \in DOMAIN script
<1>1. script \in Seq(Effect)
  BY DEF TypeInv, RunTypeOK
<1>2. /\ Tail(script) \in Seq(Effect)
      /\ Len(Tail(script)) = Len(script) - 1
      /\ \A i \in 1 .. Len(Tail(script)) : Tail(script)[i] = script[i + 1]
  BY <1>1, HeadTailProperties
<1>3. /\ Len(script) \in Nat \ {0} /\ DOMAIN script = 1 .. Len(script)
      /\ DOMAIN Tail(script) = 1 .. Len(Tail(script))
  BY <1>1, <1>2, EmptySeq, LenProperties
<1>4. Head(script) = script[1]
  BY <1>1, <1>3
<1>5. Tail(script) # <<>> => Len(script) - 1 # 0
  BY <1>2, EmptySeq
<1> QED
  BY <1>2, <1>3, <1>4, <1>5, NextEffect

(* What is left of a segment is still one.                                 *)
LEMMA TailOrdered ==
  ASSUME TypeInv, script # <<>>, Ordered(script)
  PROVE  /\ Ordered(Tail(script))
         /\ \A i \in DOMAIN script : script[i].run = script[1].run
         /\ \A i \in DOMAIN Tail(script) : Tail(script)[i].run = script[1].run
         /\ Tail(script) # <<>> => Tail(script)[1] = script[2] /\ Follows(script[1], Tail(script)[1])
<1>1. \A i \in DOMAIN script :
        /\ script[i].run = script[1].run
        /\ i + 1 \in DOMAIN script => Follows(script[i], script[i + 1])
  BY DEF Ordered
<1>2. /\ Len(script) \in Nat \ {0} /\ DOMAIN script = 1 .. Len(script)
      /\ DOMAIN Tail(script) = 1 .. (Len(script) - 1)
      /\ \A i \in 1 .. (Len(script) - 1) : Tail(script)[i] = script[i + 1]
  BY ScriptParts
<1>3. \A i \in DOMAIN Tail(script) : Tail(script)[i].run = script[1].run
  <2>1. TAKE i \in DOMAIN Tail(script)
  <2>2. i + 1 \in DOMAIN script /\ Tail(script)[i] = script[i + 1]
    BY <1>2
  <2> QED BY <1>1, <2>2
<1>4. Ordered(Tail(script))
  <2>1. SUFFICES ASSUME NEW i \in DOMAIN Tail(script)
                 PROVE  /\ Tail(script)[i].run = Tail(script)[1].run
                        /\ i + 1 \in DOMAIN Tail(script)
                             => Follows(Tail(script)[i], Tail(script)[i + 1])
    BY DEF Ordered
  <2>2. 1 \in DOMAIN Tail(script)
    BY <1>2
  <2>3. Tail(script)[i].run = Tail(script)[1].run
    BY <1>3, <2>2
  <2>4. ASSUME i + 1 \in DOMAIN Tail(script)
        PROVE  Follows(Tail(script)[i], Tail(script)[i + 1])
    <3>1. /\ i + 1 \in DOMAIN script /\ (i + 1) + 1 \in DOMAIN script
          /\ Tail(script)[i] = script[i + 1] /\ Tail(script)[i + 1] = script[(i + 1) + 1]
      BY <1>2, <2>4
    <3>2. Follows(script[i + 1], script[(i + 1) + 1])
      BY <1>1, <3>1, Zenon
    <3> QED BY <3>1, <3>2
  <2> QED BY <2>3, <2>4
<1>5. ASSUME Tail(script) # <<>>
      PROVE  Tail(script)[1] = script[2] /\ Follows(script[1], Tail(script)[1])
  <2>1. 1 \in DOMAIN script /\ 1 + 1 \in DOMAIN script /\ Tail(script)[1] = script[1 + 1]
    BY <1>2, <1>5, ScriptParts
  <2>2. Follows(script[1], script[1 + 1])
    BY <1>1, <2>1, Zenon
  <2> QED BY <2>1, <2>2
<1> QED BY <1>1, <1>3, <1>4, <1>5

PlainOf(r) == {o \in EffectsOf(r) : Plain(o)}

(* A save of "running" or an event that ends nothing.                      *)
LEMMA PlainEffects ==
  ASSUME NEW r \in Runs, NEW p \in Phase
  PROVE  /\ SaveOf(r, "running", p) \in PlainOf(r)
         /\ \A t \in EventType \ Outcomes : EmitOf(r, t, p) \in PlainOf(r)
<1>1. SaveOf(r, "running", p) \in EffectsOf(r)
  BY EffectTypes DEF Status
<1>2. \A t \in EventType : EmitOf(r, t, p) \in EffectsOf(r)
  BY EffectTypes
<1> QED
  BY <1>1, <1>2 DEF PlainOf, Plain, Saves, Emits, SaveOf, EmitOf

LEMMA EnterPlain ==
  ASSUME NEW r \in Runs, NEW p \in Phase
  PROVE  Enter(r, p) \in Seq(PlainOf(r))
<1>1. /\ SaveOf(r, "running", p) \in PlainOf(r)
      /\ EmitOf(r, "phase.started", p) \in PlainOf(r)
  BY PlainEffects DEF EventType, Outcomes, Failures
<1> QED
  BY <1>1 DEF Enter

(* The phases that await nothing end nothing.                              *)
LEMMA PassThroughPlain ==
  ASSUME NEW r \in Runs, NEW p \in Nat, NEW q \in Nat, q <= NumPhases
  PROVE  PassThrough(r, p, q) \in Seq(PlainOf(r))
<1>1. /\ PassThrough(r, p, q) \in Seq(EffectsOf(r))
      /\ DOMAIN PassThrough(r, p, q) = 1 .. Len(PassThrough(r, p, q))
      /\ Len(PassThrough(r, p, q)) \in Nat
  BY PassThroughType, LenProperties
<1>2. ASSUME NEW i \in DOMAIN PassThrough(r, p, q)
      PROVE  PassThrough(r, p, q)[i] \in PlainOf(r)
  <2>1. PassThrough(r, p, q)[i] \in EffectsOf(r)
    BY <1>1, ElementOfSeq
  <2>2. Plain(PassThrough(r, p, q)[i])
    <3>1. i \in Nat /\ (i - 1) % 3 \in 0 .. 2
      BY <1>1
    <3> QED
      BY <3>1 DEF PassThrough, Plain, Saves, Emits, SaveOf, EmitOf, EventType, Outcomes, Failures
  <2> QED BY <2>1, <2>2 DEF PlainOf
<1> QED
  BY <1>1, <1>2, SeqDef

(* What may end a segment: nothing, or an outcome and its save.            *)
IsEnding(e, r) ==
  /\ e \in Seq(EffectsOf(r))
  /\ e # <<>> =>
       /\ Len(e) = 2
       /\ \/ Emits(e[1], {"run.completed"}) /\ Saves(e[2], {"succeeded"})
          \/ Emits(e[1], Failures) /\ Saves(e[2], {"failed"})

(* Positions in a sequence of length m followed by one of length 0 or 2.   *)
LEMMA AfterTheFirst ==
  ASSUME NEW m \in Nat, NEW n \in Nat, n = m \/ n = m + 2, NEW i \in 1 .. n
  PROVE  /\ i > m => n # m /\ (i = m + 1 \/ i = m + 2)
         /\ i > m /\ i + 1 \in 1 .. n => i = m + 1 /\ i + 1 = m + 2
         /\ i = m /\ i + 1 \in 1 .. n => n # m
OBVIOUS

LEMMA PlainSegment ==
  ASSUME NEW r \in Runs, NEW w \in Seq(PlainOf(r)), NEW e, IsEnding(e, r)
  PROVE  /\ w \o e \in Seq(EffectsOf(r))
         /\ Ordered(w \o e)
         /\ \A i \in DOMAIN (w \o e) : Behind((w \o e)[i], "done")
         /\ \A t \in {"sleep", "plan", "execute"} :
              e = <<>> => \A i \in DOMAIN (w \o e) : Behind((w \o e)[i], t)
         /\ w # <<>> => w \o e # <<>> /\ (w \o e)[1] = w[1]
         /\ w \o e # <<>> => (w \o e)[Len(w \o e)].do # "answer"
<1> DEFINE s == w \o e
<1>0. PlainOf(r) \subseteq EffectsOf(r)
  BY DEF PlainOf
<1>1. w \in Seq(EffectsOf(r)) /\ e \in Seq(EffectsOf(r))
  BY <1>0, SeqMonotonic DEF IsEnding
<1>2. /\ s \in Seq(EffectsOf(r)) /\ Len(s) = Len(w) + Len(e)
      /\ \A i \in 1 .. Len(s) : s[i] = IF i <= Len(w) THEN w[i] ELSE e[i - Len(w)]
  BY <1>1, ConcatProperties
<1>3. /\ Len(w) \in Nat /\ DOMAIN w = 1 .. Len(w)
      /\ Len(e) \in Nat /\ DOMAIN e = 1 .. Len(e)
      /\ Len(s) \in Nat /\ DOMAIN s = 1 .. Len(s)
  <2> HIDE DEF s
  <2> QED BY <1>1, <1>2, LenProperties
<1>4. \A i \in 1 .. Len(w) : w[i] \in PlainOf(r)
  BY ElementOfSeq
<1> HIDE DEF s
<1>5. \A i \in DOMAIN s : s[i].run = r /\ s[i] \in EffectsOf(r)
  <2>1. \A i \in DOMAIN s : s[i] \in EffectsOf(r)
    BY <1>2, <1>3, ElementOfSeq
  <2> QED BY <2>1 DEF EffectsOf
<1>6. /\ \A i \in 1 .. Len(w) : s[i] = w[i] /\ Plain(s[i])
      /\ e = <<>> => Len(s) = Len(w)
      /\ e # <<>> => /\ Len(s) = Len(w) + 2
                     /\ s[Len(w) + 1] = e[1] /\ s[Len(w) + 2] = e[2]
  <2>1. \A i \in 1 .. Len(w) : s[i] = w[i]
    BY <1>2, <1>3
  <2>2. \A i \in 1 .. Len(w) : s[i] = w[i] /\ Plain(s[i])
    <3>1. \A o \in PlainOf(r) : Plain(o)
      BY DEF PlainOf
    <3> QED BY <1>4, <2>1, <3>1, Zenon
  <2>3. e = <<>> => Len(e) = 0
    BY <1>1, EmptySeq
  <2>4. ASSUME e # <<>>
        PROVE  /\ Len(s) = Len(w) + 2
               /\ s[Len(w) + 1] = e[1] /\ s[Len(w) + 2] = e[2]
    <3>1. Len(e) = 2
      BY <2>4 DEF IsEnding
    <3>2. Len(w) + 1 \in 1 .. Len(s) /\ Len(w) + 2 \in 1 .. Len(s) /\ Len(s) = Len(w) + 2
      BY <1>2, <1>3, <3>1
    <3>3. ~(Len(w) + 1 <= Len(w)) /\ ~(Len(w) + 2 <= Len(w))
          /\ (Len(w) + 1) - Len(w) = 1 /\ (Len(w) + 2) - Len(w) = 2
      BY <1>3
    <3> QED BY <1>2, <3>2, <3>3
  <2>5. e = <<>> => Len(s) = Len(w)
    BY <1>2, <1>3, <2>3
  <2> QED BY <2>2, <2>4, <2>5, Zenon
<1>61. Len(s) = Len(w) \/ Len(s) = Len(w) + 2
  BY <1>6, Zenon
<1>62. e = <<>> => Len(s) = Len(w)
  BY <1>6, Zenon
<1>7. Ordered(s)
  <2>1. SUFFICES ASSUME NEW i \in DOMAIN s, i + 1 \in DOMAIN s
                 PROVE  Follows(s[i], s[i + 1])
    <3>1. ASSUME NEW i \in DOMAIN s
          PROVE  s[i].run = s[1].run
      <4>1. 1 \in DOMAIN s
        BY <1>3
      <4> QED BY <1>5, <4>1
    <3> QED BY <3>1 DEF Ordered
  <2>2. CASE i + 1 <= Len(w)
    <3>1. i \in 1 .. Len(w) /\ i + 1 \in 1 .. Len(w)
      BY <1>3, <2>2
    <3>2. Plain(s[i]) /\ Plain(s[i + 1])
      BY <1>6, <3>1, Zenon
    <3> QED BY <3>2 DEF Follows, Plain, Saves, Emits, Outcomes, Failures
  <2>3. CASE i = Len(w)
    <3>0. Len(s) # Len(w) /\ i + 1 = Len(w) + 1
      <4>1. i \in 1 .. Len(s) /\ i + 1 \in 1 .. Len(s)
        BY <1>3, <2>1, Zenon
      <4>2. Len(w) \in Nat /\ Len(s) \in Nat
        BY <1>3, Zenon
      <4> QED BY <1>61, <2>3, <4>1, <4>2, AfterTheFirst
    <3>1. e # <<>> /\ i + 1 = Len(w) + 1
      BY <1>62, <3>0, Zenon
    <3>2. Plain(s[i]) /\ Emits(s[i + 1], {"run.completed"} \cup Failures)
      <4>1. Plain(s[i])
        <5>1. i \in 1 .. Len(w)
          BY <1>3, <2>3
        <5> QED BY <1>6, <5>1, Zenon
      <4>2. s[i + 1] = e[1]
        BY <1>6, <3>1, Zenon
      <4> QED BY <3>1, <4>1, <4>2 DEF IsEnding, Emits
    <3> QED BY <3>2 DEF Follows, Plain, Saves, Emits, Outcomes, Failures
  <2>4. CASE i > Len(w)
    <3>0. Len(s) # Len(w) /\ i = Len(w) + 1 /\ i + 1 = Len(w) + 2
      <4>1. i \in 1 .. Len(s) /\ i + 1 \in 1 .. Len(s)
        BY <1>3, <2>1, Zenon
      <4>2. Len(w) \in Nat /\ Len(s) \in Nat
        BY <1>3, Zenon
      <4> QED BY <1>61, <2>4, <4>1, <4>2, AfterTheFirst
    <3>1. e # <<>> /\ i = Len(w) + 1 /\ i + 1 = Len(w) + 2
      BY <1>62, <3>0, Zenon
    <3>2. s[i] = e[1] /\ s[i + 1] = e[2]
      BY <1>6, <3>1, Zenon
    <3> QED BY <3>1, <3>2 DEF IsEnding, Follows, Plain, Saves, Emits, Outcomes, Failures
  <2> QED BY <1>3, <2>2, <2>3, <2>4
<1>8. \A i \in DOMAIN s : s[i].do # "answer" /\ Behind(s[i], "done")
  <2>1. SUFFICES ASSUME NEW i \in DOMAIN s PROVE s[i].do # "answer"
    BY DEF Behind
  <2>2. CASE i <= Len(w)
    <3>1. Plain(s[i])
      <4>1. i \in 1 .. Len(w)
        BY <1>3, <2>2
      <4> QED BY <1>6, <4>1, Zenon
    <3> QED BY <3>1 DEF Plain, Saves, Emits
  <2>3. CASE i > Len(w)
    <3>0. Len(s) # Len(w) /\ (i = Len(w) + 1 \/ i = Len(w) + 2)
      <4>1. i \in 1 .. Len(s)
        BY <1>3, Zenon
      <4>2. Len(w) \in Nat /\ Len(s) \in Nat
        BY <1>3, Zenon
      <4> QED BY <1>61, <2>3, <4>1, <4>2, AfterTheFirst
    <3>1. e # <<>> /\ (i = Len(w) + 1 \/ i = Len(w) + 2)
      BY <1>62, <3>0, Zenon
    <3>2. s[i] = e[1] \/ s[i] = e[2]
      BY <1>6, <3>1, Zenon
    <3> QED BY <3>1, <3>2 DEF IsEnding, Saves, Emits
  <2> QED BY <1>3, <2>2, <2>3
<1>9. ASSUME NEW t \in {"sleep", "plan", "execute"}, e = <<>>, NEW i \in DOMAIN s
      PROVE  Behind(s[i], t)
  <2>1. Plain(s[i])
    <3>1. i \in 1 .. Len(w)
      BY <1>3, <1>62, <1>9
    <3> QED BY <1>6, <3>1, Zenon
  <2> QED BY <2>1 DEF Behind, Plain, Saves, Emits, Outcomes, Failures
<1>10. ASSUME w # <<>>
       PROVE  s # <<>> /\ s[1] = w[1]
  <2>1. Len(w) # 0
    BY <1>1, <1>10, EmptySeq
  <2>2. Len(s) # 0
    BY <1>2, <1>3, <2>1
  <2>3. s # <<>> /\ 1 \in 1 .. Len(w)
    BY <1>2, <1>3, <2>1, <2>2, EmptySeq
  <2> QED BY <1>6, <2>3, Zenon
<1>11. s # <<>> => s[Len(s)].do # "answer"
  <2>1. s # <<>> => Len(s) # 0
    BY <1>2, EmptySeq
  <2> QED BY <1>2, <1>3, <1>8, <2>1
<1> QED
  BY <1>2, <1>7, <1>8, <1>9, <1>10, <1>11 DEF s

-----------------------------------------------------------------------------
(* Each step keeps LifeInv.                                                *)

(* A coroutine begins a segment: what it has to show about the segment.    *)
LEMMA SegmentFits ==
  ASSUME TypeInv, LifeInv, NEW r \in Runs, script = <<>>,
         NEW s \in Seq(EffectsOf(r)), NEW t \in TaskState, RunSegment(r, s, t),
         Ordered(s), \A i \in DOMAIN s : Behind(s[i], t),
         s # <<>> => Fits(s[1], mem[r].status),
         t \notin {"ready", "interrupted"},
         t \in {"sleep", "plan", "execute"} =>
           \/ mem[r].status = "running"
           \/ s # <<>> /\ Saves(s[1], {"running"})
  PROVE  LifeInv'
<1>1. /\ script' = s /\ task' = [task EXCEPT ![r] = t]
      /\ mem' = mem /\ disk' = disk /\ proc' = proc
  BY DEF RunSegment, procVars, storeVars
<1>2. task'[r] = t /\ \A q \in Runs : q # r => task'[q] = task[q]
  BY <1>1 DEF TypeInv, RunTypeOK
<1>3. \A i \in DOMAIN s : s[i].run = r
  <2>1. \A i \in DOMAIN s : s[i] \in EffectsOf(r)
    BY LenProperties, ElementOfSeq
  <2> QED BY <2>1 DEF EffectsOf
<1>4. s # <<>> => s[1].run = r
  <2>1. s # <<>> => 1 \in DOMAIN s
    BY EmptySeq, LenProperties
  <2> QED BY <1>3, <2>1
<1>5. ScriptFits'
  <2>1. \A i \in DOMAIN s : Behind(s[i], task'[s[i].run])
    BY <1>2, <1>3
  <2>2. s # <<>> => Fits(s[1], mem[s[1].run].status)
    BY <1>4
  <2> QED BY <1>1, <2>1, <2>2 DEF ScriptFits
<1>6. TaskFits'
  <2>1. ASSUME NEW q \in Runs
        PROVE  /\ task'[q] = "ready" => mem[q].status = "queued"
               /\ task'[q] \in {"sleep", "plan", "execute"} =>
                    \/ mem[q].status = "running"
                    \/ s # <<>> /\ s[1].run = q /\ Saves(s[1], {"running"})
               /\ task'[q] = "interrupted" => mem[q].status \in {"running", "cancelled"}
    <3>1. CASE q = r
      BY <1>2, <1>4, <3>1
    <3>2. CASE q # r
      BY <1>2, <3>2 DEF LifeInv, TaskFits
    <3> QED BY <3>1, <3>2
  <2> QED BY <1>1, <2>1 DEF TaskFits
<1>7. MemOnDisk'
  BY <1>1 DEF LifeInv, MemOnDisk
<1> QED BY <1>5, <1>6, <1>7 DEF LifeInv

(* A segment of a task neither begins with the save of an outcome nor      *)
(* answers a request.                                                      *)
Opens(s) ==
  s # <<>> => ~Saves(s[1], {"succeeded", "failed"}) /\ s[Len(s)].do # "answer"

(* A coroutine starts or goes on.                                          *)
LEMMA RunTaskKeepsLife ==
  ASSUME TypeInv, LifeInv, NEW r \in Runs, RunTask(r)
  PROVE  LifeInv' /\ Opens(script')
<1>1. /\ proc # "down" /\ script = <<>> /\ mem[r] # Absent
      /\ mem[r] \in RunRecord /\ mem[r].phase \in Phase
  <2>1. proc # "down" /\ script = <<>> /\ task[r] # "none"
    BY DEF RunTask, StartStub, WakeStub, StartAgent, FactoryRaises, PlanReturns,
           ExecutePasses, ExecuteFails, SessionRaises, TakeCancellation, LoopIdle
  <2>2. mem[r] # Absent
    BY <2>1 DEF TypeInv, KnownRuns
  <2> QED BY <2>1, <2>2, KnownRecord
<1>2. /\ NumPhases \in Nat /\ GeneratePhase \in Nat /\ ExecutePhase \in Nat
      /\ 0 \in Phase /\ NumPhases \in Phase /\ GeneratePhase \in Phase /\ ExecutePhase \in Phase
      /\ GeneratePhase - 1 \in Nat /\ ExecutePhase - 1 \in Nat
      /\ GeneratePhase - 1 <= NumPhases /\ ExecutePhase - 1 <= NumPhases
  BY CellAssumption DEF Phase
<1>3. /\ task[r] = "ready" => mem[r].status = "queued"
      /\ task[r] \in {"sleep", "plan", "execute"} => mem[r].status = "running"
      /\ task[r] = "interrupted" => mem[r].status \in {"running", "cancelled"}
  BY <1>1 DEF LifeInv, TaskFits
<1>4. /\ \A p \in Phase : SaveOf(r, "running", p) \in PlainOf(r)
      /\ \A p \in Phase : \A t \in EventType \ Outcomes : EmitOf(r, t, p) \in PlainOf(r)
      /\ \A a, b \in Seq(PlainOf(r)) : a \o b \in Seq(PlainOf(r))
      /\ \A a, b \in Seq(PlainOf(r)) : a # <<>> => a \o b # <<>> /\ (a \o b)[1] = a[1]
  <2>1. \A a, b \in Seq(PlainOf(r)) :
          /\ a \o b \in Seq(PlainOf(r))
          /\ a # <<>> => a \o b # <<>> /\ (a \o b)[1] = a[1]
    <3>1. TAKE a, b \in Seq(PlainOf(r))
    <3>2. /\ a \o b \in Seq(PlainOf(r)) /\ Len(a \o b) = Len(a) + Len(b)
          /\ \A i \in 1 .. (Len(a) + Len(b)) : (a \o b)[i] = IF i <= Len(a) THEN a[i] ELSE b[i - Len(a)]
      BY ConcatProperties
    <3>3. Len(a) \in Nat /\ Len(b) \in Nat
      BY LenProperties
    <3>4. ASSUME a # <<>>
          PROVE  a \o b # <<>> /\ (a \o b)[1] = a[1]
      <4>1. Len(a) # 0
        BY <3>4, EmptySeq
      <4>2. Len(a \o b) # 0 /\ 1 \in 1 .. (Len(a) + Len(b)) /\ 1 <= Len(a)
        BY <3>2, <3>3, <4>1
      <4> QED BY <3>2, <4>2, EmptySeq
    <3> QED BY <3>2, <3>4
  <2> QED BY <2>1, PlainEffects
<1>5. ASSUME NEW w \in Seq(PlainOf(r)), NEW e, IsEnding(e, r), NEW t \in TaskState,
             RunSegment(r, w \o e, t), w # <<>>, Fits(w[1], mem[r].status),
             t = "done",
             mem[r].status = "running" \/ Saves(w[1], {"running"})
      PROVE  LifeInv' /\ Opens(script')
  <2>1. /\ w \o e \in Seq(EffectsOf(r)) /\ Ordered(w \o e)
        /\ \A i \in DOMAIN (w \o e) : Behind((w \o e)[i], t)
        /\ w \o e # <<>> /\ (w \o e)[1] = w[1]
        /\ (w \o e)[Len(w \o e)].do # "answer"
    BY <1>5, PlainSegment
  <2>2. t \notin {"ready", "interrupted"}
    BY <1>5
  <2>3. LifeInv'
    BY <1>1, <1>5, <2>1, <2>2, SegmentFits
  <2>4. Opens(script')
    <3>1. script' = w \o e
      BY <1>5 DEF RunSegment
    <3>2. w[1] \in PlainOf(r)
      <4>1. 1 \in 1 .. Len(w)
        BY <1>5, EmptySeq, LenProperties
      <4> QED BY <4>1, ElementOfSeq
    <3>3. ~Saves(w[1], {"succeeded", "failed"})
      BY <3>2 DEF PlainOf, Plain, Saves, Emits
    <3> QED BY <2>1, <3>1, <3>3 DEF Opens
  <2> QED BY <2>3, <2>4
<1>6. ASSUME NEW w \in Seq(PlainOf(r)), NEW t \in {"sleep", "plan", "execute", "done"},
             RunSegment(r, w, t), w # <<>>, Fits(w[1], mem[r].status),
             mem[r].status = "running" \/ Saves(w[1], {"running"})
      PROVE  LifeInv' /\ Opens(script')
  <2>1. w \o <<>> = w
    BY ConcatEmptySeq
  <2>2. IsEnding(<<>>, r) /\ t \in TaskState /\ t \notin {"ready", "interrupted"}
    BY EmptySeq DEF IsEnding, TaskState
  <2>3. /\ w \in Seq(EffectsOf(r)) /\ Ordered(w)
        /\ \A i \in DOMAIN w : Behind(w[i], t)
        /\ w[Len(w)].do # "answer"
    <3>1. /\ w \in Seq(EffectsOf(r)) /\ Ordered(w)
          /\ \A i \in DOMAIN w : Behind(w[i], t)
      BY <2>1, <2>2, PlainSegment
    <3>2. w \o <<>> # <<>> => (w \o <<>>)[Len(w \o <<>>)].do # "answer"
      BY <2>2, PlainSegment, Zenon
    <3> QED BY <1>6, <2>1, <3>1, <3>2
  <2>4. LifeInv'
    BY <1>1, <1>6, <2>2, <2>3, SegmentFits
  <2>5. Opens(script')
    <3>1. script' = w
      BY <1>6 DEF RunSegment
    <3>2. w[1] \in PlainOf(r)
      <4>1. 1 \in 1 .. Len(w)
        BY <1>6, EmptySeq, LenProperties
      <4> QED BY <4>1, ElementOfSeq
    <3>3. ~Saves(w[1], {"succeeded", "failed"})
      BY <3>2 DEF PlainOf, Plain, Saves, Emits
    <3> QED BY <2>3, <3>1, <3>3 DEF Opens
  <2> QED BY <2>4, <2>5
<1> DEFINE begin == <<SaveOf(r, "running", mem[r].phase), EmitOf(r, "run.started", 0)>>
<1>7. begin \in Seq(PlainOf(r)) /\ begin # <<>> /\ Saves(begin[1], {"running"})
  <2>1. /\ SaveOf(r, "running", mem[r].phase) \in PlainOf(r)
        /\ EmitOf(r, "run.started", 0) \in PlainOf(r)
    BY <1>1, <1>2, <1>4 DEF EventType, Outcomes, Failures
  <2>2. begin \in Seq(PlainOf(r))
    BY <2>1
  <2> QED BY <2>2 DEF Saves, SaveOf
<1>8. ASSUME NEW o, Saves(o, {"running"}), mem[r].status \in {"queued", "running"}
      PROVE  Fits(o, mem[r].status)
  BY <1>8 DEF Fits, Saves, Emits
<1>9. ASSUME NEW o, Emits(o, EventType \ {"run.cancelled"}), mem[r].status = "running"
      PROVE  Fits(o, mem[r].status)
  BY <1>9 DEF Fits, Saves, Emits
<1>10. ASSUME NEW p \in 1 .. (NumPhases + 1)
       PROVE  \/ StubFrom(r, p) \in Seq(PlainOf(r)) /\ StubAwait(p) = "sleep"
              \/ IsEnding(StubFrom(r, p), r) /\ StubAwait(p) = "done"
  <2>1. CASE p <= NumPhases
    <3>1. p \in Phase
      BY <1>2, <2>1 DEF Phase
    <3>2. Enter(r, p) \in Seq(PlainOf(r))
      BY <3>1, EnterPlain
    <3> QED BY <2>1, <3>2 DEF StubFrom, StubAwait, Enter
  <2>2. CASE ~(p <= NumPhases)
    <3>1. StubFrom(r, p) \in Seq(EffectsOf(r))
      BY <1>1, StubFromType DEF TypeInv
    <3>2. StubFrom(r, p) = <<EmitOf(r, "run.completed", NumPhases), SaveOf(r, "succeeded", mem[r].phase)>>
      BY <2>2 DEF StubFrom
    <3>3. IsEnding(StubFrom(r, p), r)
      BY <3>1, <3>2 DEF IsEnding, Saves, Emits, SaveOf, EmitOf
    <3> QED BY <2>2, <3>3 DEF StubAwait
  <2> QED BY <2>1, <2>2
<1> HIDE DEF begin
<1>11. CASE StartStub(r)
  <2>1. mem[r].phase + 1 \in 1 .. (NumPhases + 1)
    BY <1>1, <1>2 DEF Phase
  <2>2. \/ RunSegment(r, begin, "done")
        \/ RunSegment(r, begin \o StubFrom(r, mem[r].phase + 1), StubAwait(mem[r].phase + 1))
    BY <1>11 DEF StartStub, begin
  <2>3. mem[r].status = "queued"
    BY <1>3, <1>11 DEF StartStub
  <2>4. Fits(begin[1], mem[r].status)
    BY <1>7, <1>8, <2>3
  <2>5. CASE RunSegment(r, begin, "done")
    BY <1>6, <1>7, <2>4, <2>5
  <2>6. CASE RunSegment(r, begin \o StubFrom(r, mem[r].phase + 1), StubAwait(mem[r].phase + 1))
    <3>1. CASE StubFrom(r, mem[r].phase + 1) \in Seq(PlainOf(r))
               /\ StubAwait(mem[r].phase + 1) = "sleep"
      <4>1. /\ begin \o StubFrom(r, mem[r].phase + 1) \in Seq(PlainOf(r))
            /\ begin \o StubFrom(r, mem[r].phase + 1) # <<>>
            /\ (begin \o StubFrom(r, mem[r].phase + 1))[1] = begin[1]
        BY <1>4, <1>7, <3>1
      <4>2. RunSegment(r, begin \o StubFrom(r, mem[r].phase + 1), "sleep")
        BY <2>6, <3>1
      <4> HIDE DEF StubFrom
      <4> QED BY <1>6, <1>7, <2>4, <4>1, <4>2
    <3>2. CASE IsEnding(StubFrom(r, mem[r].phase + 1), r)
               /\ StubAwait(mem[r].phase + 1) = "done"
      <4>1. RunSegment(r, begin \o StubFrom(r, mem[r].phase + 1), "done") /\ "done" \in TaskState
        BY <2>6, <3>2 DEF TaskState
      <4> QED BY <1>5, <1>7, <2>4, <3>2, <4>1
    <3> QED BY <1>10, <2>1, <3>1, <3>2
  <2> QED BY <2>2, <2>5, <2>6
<1>12. CASE WakeStub(r)
  <2>1. mem[r].phase + 1 \in 1 .. (NumPhases + 1)
    BY <1>1, <1>2 DEF Phase
  <2>2. mem[r].status = "running"
    BY <1>3, <1>12 DEF WakeStub
  <2> DEFINE w == <<EmitOf(r, "phase.completed", mem[r].phase)>>
             e == StubFrom(r, mem[r].phase + 1)
             t == StubAwait(mem[r].phase + 1)
  <2>3. w \in Seq(PlainOf(r)) /\ w # <<>> /\ w[1] = EmitOf(r, "phase.completed", mem[r].phase)
    <3>1. EmitOf(r, "phase.completed", mem[r].phase) \in PlainOf(r)
      BY <1>1, <1>4 DEF EventType, Outcomes, Failures
    <3> QED BY <3>1
  <2>4. Fits(w[1], mem[r].status)
    <3>1. Emits(w[1], EventType \ {"run.cancelled"})
      BY <2>3 DEF Emits, EmitOf, EventType
    <3> QED BY <1>9, <2>2, <3>1
  <2>5. RunSegment(r, w \o e, t)
    BY <1>12 DEF WakeStub
  <2>6. \/ e \in Seq(PlainOf(r)) /\ t = "sleep"
        \/ IsEnding(e, r) /\ t = "done"
    BY <1>10, <2>1
  <2> HIDE DEF w, e, t
  <2>7. CASE e \in Seq(PlainOf(r)) /\ t = "sleep"
    <3>1. w \o e \in Seq(PlainOf(r)) /\ w \o e # <<>> /\ (w \o e)[1] = w[1]
      BY <1>4, <2>3, <2>7
    <3> QED BY <1>6, <2>2, <2>4, <2>5, <2>7, <3>1
  <2>8. CASE IsEnding(e, r) /\ t = "done"
    BY <1>5, <2>2, <2>3, <2>4, <2>5, <2>8 DEF TaskState
  <2> QED BY <2>6, <2>7, <2>8
<1>13. CASE StartAgent(r)
  <2>1. PassThrough(r, 1, GeneratePhase - 1) \in Seq(PlainOf(r)) /\ Enter(r, GeneratePhase) \in Seq(PlainOf(r))
    BY <1>2, PassThroughPlain, EnterPlain
  <2> DEFINE w == (begin \o PassThrough(r, 1, GeneratePhase - 1)) \o Enter(r, GeneratePhase)
  <2>2. RunSegment(r, w, "plan")
    BY <1>13 DEF StartAgent, begin
  <2>3. /\ begin \o PassThrough(r, 1, GeneratePhase - 1) \in Seq(PlainOf(r))
        /\ begin \o PassThrough(r, 1, GeneratePhase - 1) # <<>>
        /\ (begin \o PassThrough(r, 1, GeneratePhase - 1))[1] = begin[1]
    BY <1>4, <1>7, <2>1
  <2>4. w \in Seq(PlainOf(r)) /\ w # <<>> /\ w[1] = begin[1]
    BY <1>4, <2>1, <2>3
  <2>5. Fits(begin[1], mem[r].status)
    BY <1>3, <1>7, <1>8, <1>13 DEF StartAgent
  <2> HIDE DEF w
  <2> QED BY <1>6, <1>7, <2>2, <2>4, <2>5
<1>14. CASE FactoryRaises(r)
  <2>1. RunSegment(r, <<>>, "done")
    BY <1>14 DEF FactoryRaises
  <2>2. <<>> \in Seq(EffectsOf(r)) /\ Ordered(<<>>) /\ \A i \in DOMAIN <<>> : Behind(<<>>[i], "done")
    BY EmptySeq DEF Ordered
  <2>3. "done" \in TaskState /\ "done" \notin {"ready", "interrupted", "sleep", "plan", "execute"}
    BY DEF TaskState
  <2>4. Opens(script')
    BY <2>1 DEF RunSegment, Opens
  <2> HIDE DEF Ordered, Behind
  <2> QED BY <1>1, <2>1, <2>2, <2>3, <2>4, SegmentFits
<1>15. CASE PlanReturns(r)
  <2>1. /\ PassThrough(r, GeneratePhase + 1, ExecutePhase - 1) \in Seq(PlainOf(r))
        /\ Enter(r, ExecutePhase) \in Seq(PlainOf(r))
    BY <1>2, PassThroughPlain, EnterPlain
  <2> DEFINE v == <<EmitOf(r, "context.retrieved", GeneratePhase),
                    EmitOf(r, "plan.created", GeneratePhase),
                    EmitOf(r, "phase.completed", GeneratePhase)>>
  <2>2. v \in Seq(PlainOf(r)) /\ v # <<>> /\ v[1] = EmitOf(r, "context.retrieved", GeneratePhase)
    <3>1. /\ EmitOf(r, "context.retrieved", GeneratePhase) \in PlainOf(r)
          /\ EmitOf(r, "plan.created", GeneratePhase) \in PlainOf(r)
          /\ EmitOf(r, "phase.completed", GeneratePhase) \in PlainOf(r)
      BY <1>2, <1>4 DEF EventType, Outcomes, Failures
    <3>2. v \in Seq(PlainOf(r))
      BY <3>1
    <3>3. Len(v) = 3
      OBVIOUS
    <3> QED BY <3>2, <3>3
  <2>3. mem[r].status = "running"
    BY <1>3, <1>15 DEF PlanReturns
  <2>4. Fits(v[1], mem[r].status)
    <3>1. Emits(v[1], EventType \ {"run.cancelled"})
      BY <2>2 DEF Emits, EmitOf, EventType
    <3> QED BY <1>9, <2>3, <3>1
  <2> DEFINE w == (v \o PassThrough(r, GeneratePhase + 1, ExecutePhase - 1)) \o Enter(r, ExecutePhase)
  <2>5. RunSegment(r, w, "execute")
    BY <1>15 DEF PlanReturns
  <2> HIDE DEF v
  <2>6. /\ v \o PassThrough(r, GeneratePhase + 1, ExecutePhase - 1) \in Seq(PlainOf(r))
        /\ v \o PassThrough(r, GeneratePhase + 1, ExecutePhase - 1) # <<>>
        /\ (v \o PassThrough(r, GeneratePhase + 1, ExecutePhase - 1))[1] = v[1]
    BY <1>4, <2>1, <2>2
  <2>7. w \in Seq(PlainOf(r)) /\ w # <<>> /\ w[1] = v[1]
    BY <1>4, <2>1, <2>6
  <2> HIDE DEF w
  <2> QED BY <1>6, <2>3, <2>4, <2>5, <2>7
<1>16. CASE ExecutePasses(r)
  <2>1. PassThrough(r, ExecutePhase + 1, NumPhases) \in Seq(PlainOf(r))
    BY <1>2, PassThroughPlain
  <2> DEFINE v == <<EmitOf(r, "phase.completed", ExecutePhase), EmitOf(r, "verdict.passed", ExecutePhase)>>
             e == <<EmitOf(r, "run.completed", NumPhases), SaveOf(r, "succeeded", NumPhases)>>
  <2>2. v \in Seq(PlainOf(r)) /\ v # <<>> /\ v[1] = EmitOf(r, "phase.completed", ExecutePhase)
    <3>1. /\ EmitOf(r, "phase.completed", ExecutePhase) \in PlainOf(r)
          /\ EmitOf(r, "verdict.passed", ExecutePhase) \in PlainOf(r)
      BY <1>2, <1>4 DEF EventType, Outcomes, Failures
    <3>2. v \in Seq(PlainOf(r))
      BY <3>1
    <3>3. Len(v) = 2
      OBVIOUS
    <3> QED BY <3>2, <3>3
  <2>3. mem[r].status = "running"
    BY <1>3, <1>16 DEF ExecutePasses
  <2>4. Fits(v[1], mem[r].status)
    <3>1. Emits(v[1], EventType \ {"run.cancelled"})
      BY <2>2 DEF Emits, EmitOf, EventType
    <3> QED BY <1>9, <2>3, <3>1
  <2>5. IsEnding(e, r)
    <3>1. /\ EmitOf(r, "run.completed", NumPhases) \in EffectsOf(r)
          /\ SaveOf(r, "succeeded", NumPhases) \in EffectsOf(r)
      BY <1>2, EffectTypes DEF EventType, Status, Terminal
    <3>2. e \in Seq(EffectsOf(r))
      BY <3>1
    <3> QED BY <3>2 DEF IsEnding, Emits, Saves, EmitOf, SaveOf
  <2> DEFINE w == v \o PassThrough(r, ExecutePhase + 1, NumPhases)
  <2>6. RunSegment(r, w \o e, "done") /\ "done" \in TaskState
    BY <1>16 DEF ExecutePasses, TaskState
  <2> HIDE DEF v, e
  <2>7. w \in Seq(PlainOf(r)) /\ w # <<>> /\ w[1] = v[1]
    BY <1>4, <2>1, <2>2
  <2> HIDE DEF w
  <2> QED BY <1>5, <2>3, <2>4, <2>5, <2>6, <2>7
<1>17. CASE ExecuteFails(r)
  <2> DEFINE w == <<EmitOf(r, "phase.completed", ExecutePhase)>>
             e == <<EmitOf(r, "verdict.failed", ExecutePhase), SaveOf(r, "failed", mem[r].phase)>>
  <2>1. mem[r].status = "running"
    BY <1>3, <1>17 DEF ExecuteFails
  <2>2. w \in Seq(PlainOf(r)) /\ w # <<>> /\ w[1] = EmitOf(r, "phase.completed", ExecutePhase)
    <3>1. EmitOf(r, "phase.completed", ExecutePhase) \in PlainOf(r)
      BY <1>2, <1>4 DEF EventType, Outcomes, Failures
    <3> QED BY <3>1
  <2>3. Fits(w[1], mem[r].status)
    <3>1. Emits(w[1], EventType \ {"run.cancelled"})
      BY <2>2 DEF Emits, EmitOf, EventType
    <3> QED BY <1>9, <2>1, <3>1
  <2>4. IsEnding(e, r)
    <3>1. /\ EmitOf(r, "verdict.failed", ExecutePhase) \in EffectsOf(r)
          /\ SaveOf(r, "failed", mem[r].phase) \in EffectsOf(r)
      BY <1>1, <1>2, EffectTypes DEF EventType, Status, Terminal
    <3>2. e \in Seq(EffectsOf(r))
      BY <3>1
    <3> QED BY <3>2 DEF IsEnding, Emits, Saves, EmitOf, SaveOf, Failures
  <2>5. w \o e = <<EmitOf(r, "phase.completed", ExecutePhase),
                   EmitOf(r, "verdict.failed", ExecutePhase), SaveOf(r, "failed", mem[r].phase)>>
    <3> DEFINE s == <<EmitOf(r, "phase.completed", ExecutePhase),
                      EmitOf(r, "verdict.failed", ExecutePhase), SaveOf(r, "failed", mem[r].phase)>>
    <3>1. /\ e \in Seq(EffectsOf(r)) /\ w \in Seq(EffectsOf(r)) /\ s \in Seq(EffectsOf(r))
      <4>1. /\ EmitOf(r, "phase.completed", ExecutePhase) \in EffectsOf(r)
            /\ EmitOf(r, "verdict.failed", ExecutePhase) \in EffectsOf(r)
            /\ SaveOf(r, "failed", mem[r].phase) \in EffectsOf(r)
        BY <1>1, <1>2, EffectTypes DEF EventType, Status, Terminal
      <4> QED BY <4>1
    <3>2. /\ Len(w) = 1 /\ Len(e) = 2 /\ Len(s) = 3
          /\ w[1] = s[1] /\ e[1] = s[2] /\ e[2] = s[3]
      OBVIOUS
    <3> HIDE DEF w, e, s
    <3>30. /\ w \o e \in Seq(EffectsOf(r)) /\ Len(w \o e) = Len(w) + Len(e)
           /\ \A i \in 1 .. (Len(w) + Len(e)) :
                (w \o e)[i] = IF i <= Len(w) THEN w[i] ELSE e[i - Len(w)]
      BY <3>1, ConcatProperties
    <3>3. /\ w \o e \in Seq(EffectsOf(r)) /\ Len(w \o e) = 3
          /\ \A i \in 1 .. 3 : (w \o e)[i] = IF i <= 1 THEN w[i] ELSE e[i - 1]
      BY <3>2, <3>30
    <3>4. \A i \in 1 .. 3 : (w \o e)[i] = s[i]
      BY <3>2, <3>3
    <3>5. w \o e = s
      BY <3>1, <3>2, <3>3, <3>4, SeqEqual
    <3> QED BY <3>5 DEF s
  <2>6. RunSegment(r, w \o e, "done") /\ "done" \in TaskState
    BY <1>17, <2>5 DEF ExecuteFails, TaskState
  <2> HIDE DEF w, e
  <2> QED BY <1>5, <2>1, <2>2, <2>3, <2>4, <2>6
<1>18. CASE SessionRaises(r)
  <2> DEFINE e == <<EmitOf(r, "run.failed", mem[r].phase), SaveOf(r, "failed", mem[r].phase)>>
  <2>1. mem[r].status = "running"
    BY <1>3, <1>18 DEF SessionRaises
  <2>2. IsEnding(e, r)
    <3>1. /\ EmitOf(r, "run.failed", mem[r].phase) \in EffectsOf(r)
          /\ SaveOf(r, "failed", mem[r].phase) \in EffectsOf(r)
      BY <1>1, <1>2, EffectTypes DEF EventType, Status, Terminal
    <3>2. e \in Seq(EffectsOf(r))
      BY <3>1
    <3> QED BY <3>2 DEF IsEnding, Emits, Saves, EmitOf, SaveOf, Failures
  <2>3. Fits(e[1], mem[r].status)
    <3>1. Emits(e[1], EventType \ {"run.cancelled"})
      BY DEF Emits, EmitOf, EventType
    <3> QED BY <1>9, <2>1, <3>1
  <2>4. RunSegment(r, e, "done") /\ "done" \in TaskState
        /\ "done" \notin {"ready", "interrupted", "sleep", "plan", "execute"}
    BY <1>18 DEF SessionRaises, TaskState
  <2>5. /\ e \in Seq(EffectsOf(r)) /\ Ordered(e)
        /\ \A i \in DOMAIN e : Behind(e[i], "done")
    <3> HIDE DEF e
    <3>1. <<>> \o e = e /\ <<>> \in Seq(PlainOf(r))
      BY <2>2, ConcatEmptySeq, EmptySeq DEF IsEnding
    <3> QED BY <2>2, <3>1, PlainSegment
  <2>6. Opens(script')
    <3>1. script' = e
      BY <2>4 DEF RunSegment
    <3>2. ~Saves(e[1], {"succeeded", "failed"}) /\ e[Len(e)].do # "answer"
      BY DEF Saves, EmitOf, SaveOf
    <3> QED BY <3>1, <3>2 DEF Opens
  <2> HIDE DEF e
  <2> QED BY <1>1, <2>1, <2>3, <2>4, <2>5, <2>6, SegmentFits
<1>19. CASE TakeCancellation(r)
  <2> DEFINE s == <<SaveOf(r, "cancelled", mem[r].phase)>>
  <2>1. mem[r].status \in {"running", "cancelled"}
    BY <1>3, <1>19 DEF TakeCancellation
  <2>2. SaveOf(r, "cancelled", mem[r].phase) \in EffectsOf(r)
    BY <1>1, EffectTypes DEF Status, Terminal
  <2>3. s \in Seq(EffectsOf(r)) /\ DOMAIN s = {1} /\ s[1] = SaveOf(r, "cancelled", mem[r].phase)
    BY <2>2
  <2>4. Saves(s[1], {"cancelled"})
    BY <2>3 DEF Saves, SaveOf
  <2>5. Fits(s[1], mem[r].status) /\ Behind(s[1], "done")
    BY <2>1, <2>4 DEF Fits, Behind, Saves, Emits
  <2>6. Ordered(s)
    BY <2>3 DEF Ordered
  <2>7. RunSegment(r, s, "done") /\ "done" \in TaskState
        /\ "done" \notin {"ready", "interrupted", "sleep", "plan", "execute"}
    BY <1>19 DEF TakeCancellation, TaskState
  <2> HIDE DEF s
  <2>8. \A i \in DOMAIN s : Behind(s[i], "done")
    BY <2>3, <2>5
  <2>9. Opens(script')
    <3>1. script' = s /\ Len(s) = 1
      BY <2>7 DEF RunSegment, s
    <3>2. ~Saves(s[1], {"succeeded", "failed"}) /\ s[1].do # "answer"
      BY <2>4 DEF Saves
    <3> QED BY <3>1, <3>2 DEF Opens
  <2> QED BY <1>1, <2>3, <2>5, <2>6, <2>7, <2>8, <2>9, SegmentFits
<1> QED
  BY <1>11, <1>12, <1>13, <1>14, <1>15, <1>16, <1>17, <1>18, <1>19 DEF RunTask

(* An effect is made: what the next one needs holds, because the effects   *)
(* of a segment follow one another as they do.                             *)
LEMMA PerformKeepsLife ==
  ASSUME TypeInv, LifeInv, Perform
  PROVE  LifeInv'
<1> DEFINE o == script[1]
           r == o.run
           next == Tail(script)
<1>0. script # <<>> /\ proc # "down" /\ proc' = proc /\ script' = next /\ task' = task
  BY DEF Perform, PerformEmit, PerformSave, PerformAnswer, procVars
<1>1. /\ Head(script) = o /\ o \in Effect /\ r \in Runs /\ mem[r] \in RunRecord
      /\ DOMAIN script = 1 .. Len(script) /\ Len(script) \in Nat \ {0}
      /\ DOMAIN next = 1 .. (Len(script) - 1)
      /\ \A i \in 1 .. (Len(script) - 1) : next[i] = script[i + 1]
  BY <1>0, ScriptParts
<1>2. /\ Ordered(next) /\ \A i \in DOMAIN next : next[i].run = r
      /\ next # <<>> => Follows(o, next[1])
  BY <1>0, TailOrdered DEF LifeInv, ScriptFits
<1>3. \A i \in DOMAIN next : Behind(next[i], task[next[i].run])
  <2>1. TAKE i \in DOMAIN next
  <2>2. i + 1 \in DOMAIN script /\ next[i] = script[i + 1]
    BY <1>1
  <2> QED BY <2>2 DEF LifeInv, ScriptFits
<1>4. Fits(o, mem[r].status) /\ Behind(o, task[r])
  <2>1. 1 \in DOMAIN script
    BY <1>1
  <2> QED BY <1>0, <2>1 DEF LifeInv, ScriptFits
<1>5. next # <<>> => next[1].run = r
  <2>1. next # <<>> => 1 \in DOMAIN next
    BY <1>0, ScriptParts
  <2> QED BY <1>2, <2>1
<1>6. \A q \in Runs :
        /\ task[q] = "ready" => mem[q].status = "queued"
        /\ task[q] \in {"sleep", "plan", "execute"} =>
             mem[q].status = "running" \/ (q = r /\ Saves(o, {"running"}))
        /\ task[q] = "interrupted" => mem[q].status \in {"running", "cancelled"}
  BY DEF LifeInv, TaskFits
<1> HIDE DEF o, r, next
<1>7. CASE PerformEmit
  <2>1. o.do = "emit" /\ mem' = mem /\ disk' = disk
    BY <1>1, <1>7 DEF PerformEmit, storeVars
  <2>2. next # <<>> => Fits(next[1], mem[r].status)
    <3>1. SUFFICES ASSUME next # <<>> PROVE Fits(next[1], mem[r].status)
      OBVIOUS
    <3>2. Follows(o, next[1])
      BY <1>2, <3>1
    <3>3. \/ Emits(o, EventType \ Outcomes) \/ Emits(o, {"run.completed"})
          \/ Emits(o, Failures) \/ Emits(o, {"run.cancelled"})
      BY <1>1, <2>1, EffectKinds DEF Saves
    <3> QED
      BY <1>4, <2>1, <3>2, <3>3 DEF Fits, Follows, Plain, Saves, Emits, Outcomes, Failures, EventType
  <2>3. ScriptFits'
    <3>1. next # <<>> => Fits(next[1], mem[next[1].run].status)
      BY <1>5, <2>2
    <3> QED BY <1>0, <1>2, <1>3, <2>1, <3>1 DEF ScriptFits
  <2>4. TaskFits'
    <3>1. ~Saves(o, {"running"})
      BY <2>1 DEF Saves
    <3> QED BY <1>0, <1>6, <2>1, <3>1 DEF TaskFits
  <2>5. MemOnDisk'
    BY <1>0, <2>1 DEF LifeInv, MemOnDisk
  <2> QED BY <2>3, <2>4, <2>5 DEF LifeInv
<1>8. CASE PerformSave
  <2>1. /\ o.do = "save" /\ disk' = mem'
        /\ mem' = [mem EXCEPT ![r].status = o.what, ![r].phase = o.phase]
    BY <1>1, <1>8 DEF PerformSave, r
  <2>2. mem'[r].status = o.what /\ \A q \in Runs : q # r => mem'[q] = mem[q]
    BY <1>1, <2>1 DEF TypeInv, RunTypeOK, RunRecord
  <2>3. next # <<>> => Fits(next[1], mem'[r].status)
    <3>1. SUFFICES ASSUME next # <<>> PROVE Fits(next[1], o.what)
      BY <2>2
    <3>2. Follows(o, next[1])
      BY <1>2, <3>1
    <3>3. \/ Saves(o, {"running"}) \/ Saves(o, {"succeeded"}) \/ Saves(o, {"failed"})
          \/ Saves(o, {"cancelled"})
      BY <1>1, <1>4, <2>1, EffectKinds DEF Emits, Fits
    <3> QED
      BY <3>2, <3>3 DEF Fits, Follows, Plain, Saves, Emits, Outcomes, Failures, EventType
  <2>4. ScriptFits'
    <3>1. next # <<>> => Fits(next[1], mem'[next[1].run].status)
      BY <1>5, <2>3
    <3> QED BY <1>0, <1>2, <1>3, <3>1 DEF ScriptFits
  <2>5. TaskFits'
    <3>1. ASSUME NEW q \in Runs
          PROVE  /\ task[q] = "ready" => mem'[q].status = "queued"
                 /\ task[q] \in {"sleep", "plan", "execute"} => mem'[q].status = "running"
                 /\ task[q] = "interrupted" => mem'[q].status \in {"running", "cancelled"}
      <4>1. CASE q = r
        <5>1. \/ Saves(o, {"running"}) \/ Saves(o, {"succeeded", "failed"})
              \/ Saves(o, {"cancelled"})
          BY <1>1, <1>4, <2>1, EffectKinds DEF Emits, Fits, Saves
        <5> QED BY <1>4, <2>2, <4>1, <5>1 DEF Behind, Saves
      <4>2. CASE q # r
        BY <1>6, <2>2, <4>2
      <4> QED BY <4>1, <4>2
    <3> QED BY <1>0, <3>1 DEF TaskFits
  <2>6. MemOnDisk'
    BY <2>1 DEF MemOnDisk
  <2> QED BY <2>4, <2>5, <2>6 DEF LifeInv
<1>9. CASE PerformAnswer
  <2>1. o.do = "answer" /\ mem' = mem /\ disk' = disk
    BY <1>1, <1>9 DEF PerformAnswer, storeVars
  <2>2. next = <<>>
    BY <1>2, <2>1 DEF Follows
  <2>3. ScriptFits'
    BY <1>0, <1>2, <1>3, <2>2 DEF ScriptFits
  <2>4. TaskFits'
    <3>1. ~Saves(o, {"running"})
      BY <2>1 DEF Saves
    <3> QED BY <1>0, <1>6, <2>1, <3>1 DEF TaskFits
  <2>5. MemOnDisk'
    BY <1>0, <2>1 DEF LifeInv, MemOnDisk
  <2> QED BY <2>3, <2>4, <2>5 DEF LifeInv
<1> QED BY <1>7, <1>8, <1>9 DEF Perform

(* POST /v1/runs and the cancel handler.                                   *)
LEMMA CreateKeepsLife ==
  ASSUME TypeInv, LifeInv, NEW r \in Runs, CreateRun(r)
  PROVE  LifeInv'
<1>1. PICK p \in Policies :
        /\ mem' = [mem EXCEPT ![r] = [status |-> "queued", phase |-> 0,
                                      cancelled |-> FALSE, policy |-> p]]
        /\ task' = [task EXCEPT ![r] = IF p = "bad_hosts" THEN "none" ELSE "ready"]
  BY DEF CreateRun
<1>2. disk' = mem' /\ script = <<>> /\ script' = <<>> /\ mem[r] = Absent
  BY DEF CreateRun, LoopIdle
<1>3. /\ mem'[r].status = "queued" /\ task'[r] \in {"none", "ready"}
      /\ \A q \in Runs : q # r => mem'[q] = mem[q] /\ task'[q] = task[q]
  BY <1>1 DEF TypeInv, RunTypeOK
<1>4. ScriptFits'
  BY <1>2 DEF ScriptFits, Ordered
<1>5. TaskFits'
  <2>1. \A q \in Runs :
          /\ task'[q] = "ready" => mem'[q].status = "queued"
          /\ task'[q] \in {"sleep", "plan", "execute"} => mem'[q].status = "running"
          /\ task'[q] = "interrupted" => mem'[q].status \in {"running", "cancelled"}
    BY <1>2, <1>3 DEF LifeInv, TaskFits
  <2> QED BY <2>1 DEF TaskFits
<1>6. MemOnDisk'
  BY <1>2 DEF MemOnDisk
<1> QED BY <1>4, <1>5, <1>6 DEF LifeInv

LEMMA CancelKeepsLife ==
  ASSUME TypeInv, LifeInv, NEW r \in Runs, CancelRun(r)
  PROVE  LifeInv'
<1> DEFINE s == <<EmitOf(r, "run.cancelled", 0), SaveOf(r, "cancelled", mem[r].phase), AnswerOf(r)>>
<1>1. /\ mem[r] # Absent /\ mem[r].status \notin Terminal
      /\ mem' = [mem EXCEPT ![r].cancelled = TRUE] /\ script' = s /\ script = <<>>
      /\ task' = [task EXCEPT ![r] = CASE @ \in {"sleep", "plan", "execute"} -> "interrupted"
                                        [] @ = "ready" -> "done"
                                        [] OTHER -> @]
      /\ disk' = disk /\ proc' = proc
  BY DEF CancelRun, LoopIdle, procVars
<1>2. mem[r] \in RunRecord /\ mem[r].status \in {"queued", "running"}
  BY <1>1, KnownRecord DEF Status
<1>3. /\ mem'[r].status = mem[r].status
      /\ \A q \in Runs : q # r => mem'[q] = mem[q] /\ task'[q] = task[q]
      /\ task'[r] = CASE task[r] \in {"sleep", "plan", "execute"} -> "interrupted"
                      [] task[r] = "ready" -> "done"
                      [] OTHER -> task[r]
  BY <1>1, <1>2 DEF TypeInv, RunTypeOK, RunRecord
<1>4. task[r] \in TaskState
  BY DEF TypeInv, RunTypeOK
<1>5. task'[r] \in {"none", "done", "interrupted"}
  BY <1>3, <1>4 DEF TaskState
<1>6. /\ DOMAIN s = 1 .. 3
      /\ s[1] = EmitOf(r, "run.cancelled", 0)
      /\ s[2] = SaveOf(r, "cancelled", mem[r].phase)
      /\ s[3] = AnswerOf(r)
  OBVIOUS
<1> HIDE DEF s
<1>7. /\ Emits(s[1], {"run.cancelled"}) /\ Saves(s[2], {"cancelled"}) /\ s[3].do = "answer"
      /\ \A i \in 1 .. 3 : s[i].run = r
  <2>1. \A i \in 1 .. 3 : i = 1 \/ i = 2 \/ i = 3
    OBVIOUS
  <2> QED BY <1>6, <2>1 DEF EmitOf, SaveOf, AnswerOf, Emits, Saves
<1>8. Ordered(s)
  <2>1. Follows(s[1], s[2]) /\ Follows(s[2], s[3])
    BY <1>7 DEF Follows, Plain, Emits, Saves, Outcomes, Failures
  <2>2. \A i \in 1 .. 3 : i + 1 \in 1 .. 3 => (i = 1 /\ i + 1 = 2) \/ (i = 2 /\ i + 1 = 3)
    OBVIOUS
  <2> QED BY <1>6, <1>7, <2>1, <2>2 DEF Ordered
<1>9. ScriptFits'
  <2>1. \A i \in 1 .. 3 : Behind(s[i], task'[r])
    <3>1. \A i \in 1 .. 3 : i = 1 \/ i = 2 \/ i = 3
      OBVIOUS
    <3>2. Behind(s[1], task'[r]) /\ Behind(s[2], task'[r]) /\ Behind(s[3], task'[r])
      BY <1>5, <1>7 DEF Behind, Emits, Saves, Failures
    <3> QED BY <3>1, <3>2
  <2>2. Fits(s[1], mem'[r].status)
    BY <1>2, <1>3, <1>7 DEF Fits, Emits, Saves
  <2>3. \A i \in DOMAIN s : Behind(s[i], task'[s[i].run])
    BY <1>6, <1>7, <2>1
  <2>4. Fits(s[1], mem'[s[1].run].status)
    BY <1>7, <2>2
  <2> QED BY <1>1, <1>8, <2>3, <2>4 DEF ScriptFits
<1>10. TaskFits'
  <2>1. ASSUME NEW q \in Runs
        PROVE  /\ task'[q] = "ready" => mem'[q].status = "queued"
               /\ task'[q] \in {"sleep", "plan", "execute"} => mem'[q].status = "running"
               /\ task'[q] = "interrupted" => mem'[q].status \in {"running", "cancelled"}
    <3>1. CASE q = r
      BY <1>1, <1>3, <1>4, <1>5, <3>1 DEF LifeInv, TaskFits, TaskState
    <3>2. CASE q # r
      BY <1>1, <1>3, <3>2 DEF LifeInv, TaskFits
    <3> QED BY <3>1, <3>2
  <2> QED BY <2>1 DEF TaskFits
<1>11. MemOnDisk'
  <2>1. \A q \in Runs : mem'[q].status = mem[q].status
    BY <1>3
  <2> QED BY <1>1, <2>1 DEF LifeInv, MemOnDisk
<1> QED BY <1>9, <1>10, <1>11 DEF LifeInv

(* The process dies, is torn down or starts again.                         *)
LEMMA ProcessKeepsLife ==
  ASSUME TypeInv, LifeInv, Crash \/ TornCrash \/ Shutdown \/ ShutdownEnds \/ Restart
  PROVE  LifeInv'
<1>1. ASSUME proc' = "down", script' = <<>>, task' = [r \in Runs |-> "none"]
      PROVE  LifeInv'
  BY <1>1 DEF LifeInv, ScriptFits, Ordered, TaskFits, MemOnDisk
<1>2. CASE Crash \/ TornCrash \/ ShutdownEnds
  BY <1>1, <1>2 DEF Crash, TornCrash, ShutdownEnds, Die
<1>3. CASE Shutdown
  <2>1. /\ script = <<>> /\ script' = <<>> /\ proc = "up" /\ mem' = mem /\ disk' = disk
        /\ task' = [r \in Runs |-> IF task[r] \in {"sleep", "plan", "execute", "interrupted"}
                                   THEN "interrupted" ELSE "none"]
    BY <1>3 DEF Shutdown, LoopIdle, storeVars
  <2>2. ASSUME NEW r \in Runs
        PROVE  /\ task'[r] \in {"interrupted", "none"}
               /\ task'[r] = "interrupted" => mem[r].status \in {"running", "cancelled"}
    BY <2>1 DEF LifeInv, TaskFits
  <2>3. TaskFits'
    BY <2>1, <2>2 DEF TaskFits
  <2>4. ScriptFits' /\ MemOnDisk'
    BY <2>1 DEF LifeInv, ScriptFits, Ordered, MemOnDisk
  <2> QED BY <2>3, <2>4 DEF LifeInv
<1>4. CASE Restart
  <2>1. /\ proc = "down" /\ script = <<>> /\ script' = <<>> /\ disk' = disk
        /\ mem' = [r \in Runs |-> IF Resumable(disk[r])
                                 THEN [disk[r] EXCEPT !.status = "queued"] ELSE disk[r]]
        /\ task' = [r \in Runs |-> IF Resumable(disk[r]) THEN "ready" ELSE "none"]
    BY <1>4 DEF Restart, TypeInv, KnownRuns
  <2>2. ASSUME NEW r \in Runs, Resumable(disk[r])
        PROVE  mem'[r].status = "queued" /\ disk[r].status \in {"queued", "running"}
    <3>1. disk[r] \in RunRecord
      BY <2>2 DEF TypeInv, RunTypeOK, Resumable, Absent
    <3> QED BY <2>1, <2>2, <3>1 DEF RunRecord, Resumable
  <2>3. ASSUME NEW r \in Runs, ~Resumable(disk[r])
        PROVE  mem'[r].status = disk[r].status /\ task'[r] = "none"
    BY <2>1, <2>3
  <2>4. \A r \in Runs : task'[r] = "none" \/ (task'[r] = "ready" /\ mem'[r].status = "queued")
    BY <2>1, <2>2
  <2>5. TaskFits'
    BY <2>4 DEF TaskFits
  <2>6. MemOnDisk'
    BY <2>1, <2>2, <2>3 DEF MemOnDisk
  <2>7. ScriptFits'
    BY <2>1 DEF ScriptFits, Ordered
  <2> QED BY <2>5, <2>6, <2>7 DEF LifeInv
<1> QED BY <1>2, <1>3, <1>4

LEMMA NextKeepsLife ==
  ASSUME LogInv, LifeInv, [Next]_vars
  PROVE  LifeInv'
<1>0. TypeInv
  BY DEF LogInv, TypeInv
<1>1. ASSUME UNCHANGED <<proc, mem, disk, task, script>>
      PROVE  LifeInv'
  BY <1>1 DEF LifeInv, ScriptFits, TaskFits, MemOnDisk
<1>2. CASE Perform
  BY <1>0, <1>2, PerformKeepsLife
<1>3. ASSUME NEW r \in Runs, CreateRun(r) \/ CancelRun(r) \/ RunTask(r)
      PROVE  LifeInv'
  BY <1>0, <1>3, CreateKeepsLife, CancelKeepsLife, RunTaskKeepsLife
<1>4. ASSUME NEW c \in Clients,
             \/ \E r \in Runs : OpenStream(c, r)
             \/ PollStream(c) \/ CheckStream(c) \/ CloseStream(c)
      PROVE  LifeInv'
  <2>1. StreamUnchanged
    BY <1>4 DEF OpenStream, PollStream, CheckStream, CloseStream
  <2> QED BY <1>1, <2>1 DEF StreamUnchanged, procVars, storeVars
<1>5. CASE Crash \/ TornCrash \/ Shutdown \/ ShutdownEnds \/ Restart
  BY <1>0, <1>5, ProcessKeepsLife
<1>6. CASE UNCHANGED vars
  BY <1>1, <1>6 DEF vars
<1> QED
  BY <1>2, <1>3, <1>4, <1>5, <1>6 DEF Next

(* The life of a run is orderly, also with torn lines: a segment ends a    *)
(* run only while its task is over, an effect is made only where the run   *)
(* is fit for it, and a restart never holds a status the disk has passed.  *)
THEOREM LifeInvHolds == Spec => [](LogInv /\ LifeInv)
<1>1. Init => LogInv /\ LifeInv
  BY InitEstablishesLogInv DEF Init, LifeInv, ScriptFits, Ordered, TaskFits, MemOnDisk
<1>2. LogInv /\ LifeInv /\ [Next]_vars => LogInv' /\ LifeInv'
  BY NextKeepsTypes, NextKeepsOrder, NextKeepsLife DEF LogInv, TypeInv, SeqInv
<1> QED BY <1>1, <1>2, PTL DEF Spec

-----------------------------------------------------------------------------
(* What follows from it, step by step.                                     *)

(* The run that an emit is about has not ended.                            *)
LEMMA EmitsBeforeEnd ==
  ASSUME LogInv, LifeInv, proc # "down", script # <<>>, Head(script).do = "emit"
  PROVE  /\ Head(script) = script[1] /\ script[1] \in Effect /\ script[1].run \in Runs
         /\ mem[script[1].run].status \in {"queued", "running"}
         /\ disk[script[1].run].status \in {"queued", "running"}
<1>1. TypeInv
  BY DEF LogInv, TypeInv
<1>2. Head(script) = script[1] /\ script[1] \in Effect /\ script[1].run \in Runs
  BY <1>1, ScriptParts
<1>3. Fits(script[1], mem[script[1].run].status)
  BY DEF LifeInv, ScriptFits
<1>4. mem[script[1].run].status \in {"queued", "running"}
  <2>1. \/ Emits(script[1], EventType \ {"run.cancelled"}) \/ Emits(script[1], {"run.cancelled"})
    BY <1>2 DEF Effect, Emits
  <2> QED BY <1>3, <2>1 DEF Fits
<1> QED BY <1>2, <1>4 DEF LifeInv, MemOnDisk

(* No step adds to the log of a run whose stored status is terminal.       *)
LEMMA StepKeepsLogOfEnded ==
  ASSUME LogInv, LifeInv, [Next]_vars, NEW r \in Runs, disk[r].status \in Terminal
  PROVE  /\ file'[r] = file[r]
         /\ proc # "down" /\ proc' # "down" => events'[r] = events[r]
<1>1. CASE PerformEmit \/ TornCrash
  <2>1. /\ Head(script) = script[1] /\ script[1] \in Effect
        /\ disk[script[1].run].status \in {"queued", "running"}
    BY <1>1, EmitsBeforeEnd DEF PerformEmit, TornCrash
  <2>2. Head(script).run # r
    BY <2>1 DEF Terminal
  <2>3. CASE PerformEmit
    BY <2>2, <2>3 DEF PerformEmit, LogInv, RunTypeOK
  <2>4. CASE TornCrash
    BY <2>2, <2>4 DEF TornCrash, Die, LogInv, RunTypeOK
  <2> QED BY <1>1, <2>3, <2>4
<1>2. CASE PerformSave \/ PerformAnswer
  BY <1>2 DEF PerformSave, PerformAnswer, logVars
<1>3. ASSUME NEW q \in Runs, CreateRun(q) \/ CancelRun(q) \/ RunTask(q)
      PROVE  events' = events /\ file' = file
  BY <1>3 DEF CreateRun, CancelRun, RunTask, StartStub, WakeStub, StartAgent, FactoryRaises,
              PlanReturns, ExecutePasses, ExecuteFails, SessionRaises, TakeCancellation,
              RunSegment, logVars
<1>4. ASSUME NEW c \in Clients,
             \/ \E q \in Runs : OpenStream(c, q)
             \/ PollStream(c) \/ CheckStream(c) \/ CloseStream(c)
      PROVE  events' = events /\ file' = file
  BY <1>4 DEF OpenStream, PollStream, CheckStream, CloseStream, StreamUnchanged, logVars
<1>5. CASE Crash \/ ShutdownEnds
  BY <1>5 DEF Crash, ShutdownEnds, Die
<1>6. CASE Shutdown
  BY <1>6 DEF Shutdown, logVars
<1>7. CASE Restart
  BY <1>7 DEF Restart
<1>8. CASE UNCHANGED vars
  BY <1>8 DEF vars
<1> QED
  BY <1>1, <1>2, <1>3, <1>4, <1>5, <1>6, <1>7, <1>8 DEF Next, Perform

(* Once the stored status of a run is terminal nothing is added to its     *)
(* log: no late event of the task a cancel interrupted, no torn line, no   *)
(* event of a resumed run -- for any number of runs, phases and deaths.    *)
THEOREM LogOfEndedRunIsQuiet == Spec => QuietAfterEnd
<1>1. LogInv /\ LifeInv /\ [Next]_vars =>
        [\A r \in Runs : disk[r].status \in Terminal =>
           /\ file'[r] = file[r]
           /\ proc # "down" /\ proc' # "down" => events'[r] = events[r]]_vars
  BY StepKeepsLogOfEnded
<1> QED BY <1>1, LifeInvHolds, PTL DEF Spec, QuietAfterEnd

-----------------------------------------------------------------------------
(* The cell implements RunLifecycle.                                       *)

(* Saving run r writes every run: r in its new status, and the others as   *)
(* they are on the disk or back in the queue.                              *)
LEMMA SaveIsWrite ==
  ASSUME LogInv, LifeInv, proc # "down", NEW r \in Runs, NEW s,
         disk' = mem', mem'[r].status = s, acked' = acked,
         \A q \in Runs : q # r => mem'[q] = mem[q]
  PROVE  Lifecycle!Write(r, s)
<1> DEFINE requeued == {q \in Runs : mem[q].status = "queued" /\ disk[q].status = "running"}
           before == [q \in Runs |-> disk[q].status]
<1>1. requeued \in SUBSET {q \in Runs : before[q] = "running"}
  OBVIOUS
<1>2. [q \in Runs |-> disk'[q].status]
        = [q \in Runs |-> IF q = r THEN s
                          ELSE IF q \in requeued THEN "queued"
                          ELSE before[q]]
  <2>1. ASSUME NEW q \in Runs
        PROVE  disk'[q].status = IF q = r THEN s
                                 ELSE IF q \in requeued THEN "queued"
                                 ELSE before[q]
    BY DEF LifeInv, MemOnDisk
  <2> HIDE DEF requeued, before
  <2> QED BY <2>1
<1> QED
  <2> HIDE DEF requeued
  <2> QED BY <1>1, <1>2 DEF Lifecycle!Write

(* A step that writes no status and answers no cancel is invisible.        *)
LEMMA OtherSteps ==
  ASSUME disk' = disk, acked' = acked
  PROVE  UNCHANGED Lifecycle!vars
BY DEF Lifecycle!vars

LEMMA PerformRefines ==
  ASSUME LogInv, LifeInv, Perform
  PROVE  [Lifecycle!Next]_(Lifecycle!vars)
<1>0. script # <<>> /\ proc # "down" /\ TypeInv
  BY DEF Perform, PerformEmit, PerformSave, PerformAnswer, LogInv, TypeInv
<1>1. /\ Head(script) = script[1] /\ script[1] \in Effect /\ script[1].run \in Runs
      /\ mem[script[1].run] \in RunRecord /\ 1 \in DOMAIN script
  BY <1>0, ScriptParts
<1>2. PICK r \in Runs : r = script[1].run
  BY <1>1
<1>3. Fits(script[1], mem[r].status)
  BY <1>0, <1>2 DEF LifeInv, ScriptFits
<1>4. \/ mem[r].status = disk[r].status
      \/ mem[r].status = "queued" /\ disk[r].status = "running"
  BY <1>0 DEF LifeInv, MemOnDisk
<1>5. CASE PerformEmit
  BY <1>5, OtherSteps DEF PerformEmit, storeVars
<1>6. CASE PerformSave
  <2>1. PICK s \in Status : s = script[1].what
    BY <1>1, <1>6 DEF PerformSave, Effect
  <2>2. /\ disk' = mem' /\ acked' = acked
        /\ mem' = [mem EXCEPT ![r].status = s, ![r].phase = script[1].phase]
    BY <1>1, <1>2, <1>6, <2>1 DEF PerformSave
  <2>3. mem'[r].status = s /\ \A q \in Runs : q # r => mem'[q] = mem[q]
    BY <1>1, <1>2, <2>2 DEF LogInv, RunTypeOK, RunRecord
  <2>4. Lifecycle!Write(r, s)
    BY <1>0, <2>2, <2>3, SaveIsWrite
  <2>5. \/ Saves(script[1], {"running"}) /\ s = "running"
        \/ Saves(script[1], {"succeeded", "failed"}) /\ s \in {"succeeded", "failed"}
        \/ Saves(script[1], {"cancelled"}) /\ s = "cancelled"
    BY <1>1, <1>3, <1>6, <2>1 DEF PerformSave, Fits, Saves, Status, Terminal
  <2>6. \/ s = "running" /\ disk[r].status \in {"queued", "running"}
        \/ s \in {"succeeded", "failed"} /\ disk[r].status = "running"
        \/ s = "cancelled" /\ disk[r].status \in {"queued", "running", "cancelled"}
    BY <1>3, <1>4, <2>5 DEF Fits
  <2>7. Lifecycle!Start(r) \/ Lifecycle!Finish(r) \/ Lifecycle!Cancel(r)
    BY <2>4, <2>6 DEF Lifecycle!Start, Lifecycle!Finish, Lifecycle!Cancel, Lifecycle!Terminal
  <2> QED BY <2>7 DEF Lifecycle!Next
<1>7. CASE PerformAnswer
  <2>1. script[1].do = "answer" /\ acked' = acked \cup {r} /\ disk' = disk
    BY <1>1, <1>2, <1>7 DEF PerformAnswer, storeVars
  <2>2. disk[r].status = "cancelled"
    BY <1>3, <1>4, <2>1 DEF Fits
  <2>3. Lifecycle!Tell(r)
    BY <2>1, <2>2 DEF Lifecycle!Tell
  <2> QED BY <2>3 DEF Lifecycle!Next
<1> QED BY <1>5, <1>6, <1>7 DEF Perform

LEMMA CreateRefines ==
  ASSUME LogInv, LifeInv, NEW r \in Runs, CreateRun(r)
  PROVE  Lifecycle!Next
<1>1. PICK p \in Policies :
        /\ mem' = [mem EXCEPT ![r] = [status |-> "queued", phase |-> 0,
                                      cancelled |-> FALSE, policy |-> p]]
        /\ task' = [task EXCEPT ![r] = IF p = "bad_hosts" THEN "none" ELSE "ready"]
  BY DEF CreateRun
<1>2. proc # "down" /\ mem[r] = Absent /\ disk' = mem' /\ acked' = acked
  BY DEF CreateRun, LoopIdle
<1>3. mem'[r].status = "queued" /\ \A q \in Runs : q # r => mem'[q] = mem[q]
  BY <1>1 DEF LogInv, RunTypeOK
<1>4. Lifecycle!Write(r, "queued")
  BY <1>2, <1>3, SaveIsWrite
<1>5. disk[r].status = "absent"
  BY <1>2 DEF LifeInv, MemOnDisk, Absent
<1> QED
  BY <1>4, <1>5 DEF Lifecycle!Create, Lifecycle!Next

LEMMA NextRefines ==
  ASSUME LogInv, LifeInv, [Next]_vars
  PROVE  [Lifecycle!Next]_(Lifecycle!vars)
<1>1. CASE Perform
  BY <1>1, PerformRefines
<1>2. ASSUME NEW r \in Runs, CreateRun(r) \/ CancelRun(r) \/ RunTask(r)
      PROVE  [Lifecycle!Next]_(Lifecycle!vars)
  <2>1. CASE CreateRun(r)
    BY <2>1, CreateRefines
  <2>2. CASE CancelRun(r) \/ RunTask(r)
    <3>1. disk' = disk /\ acked' = acked
      BY <2>2 DEF CancelRun, RunTask, StartStub, WakeStub, StartAgent, FactoryRaises,
                  PlanReturns, ExecutePasses, ExecuteFails, SessionRaises, TakeCancellation,
                  RunSegment, storeVars
    <3> QED BY <3>1, OtherSteps
  <2> QED BY <1>2, <2>1, <2>2
<1>3. ASSUME NEW c \in Clients,
             \/ \E q \in Runs : OpenStream(c, q)
             \/ PollStream(c) \/ CheckStream(c) \/ CloseStream(c)
      PROVE  [Lifecycle!Next]_(Lifecycle!vars)
  <2>1. disk' = disk /\ acked' = acked
    BY <1>3 DEF OpenStream, PollStream, CheckStream, CloseStream, StreamUnchanged, storeVars
  <2> QED BY <2>1, OtherSteps
<1>4. CASE Crash \/ TornCrash \/ Shutdown \/ ShutdownEnds \/ Restart \/ UNCHANGED vars
  <2>1. disk' = disk /\ acked' = acked
    BY <1>4 DEF Crash, TornCrash, Shutdown, ShutdownEnds, Restart, Die, storeVars, vars
  <2> QED BY <2>1, OtherSteps
<1> QED
  BY <1>1, <1>2, <1>3, <1>4 DEF Next

(* The cell implements RunLifecycle, step by step: creating a run and each *)
(* save are its moves, an answered cancel is its Tell, and everything else *)
(* -- emits, tasks, streams, deaths of the process, restarts -- is         *)
(* invisible to it.                                                        *)
THEOREM CellImplementsLifecycle == Spec => LifecycleSpec
<1>1. Init => Lifecycle!Init
  BY DEF Init, Lifecycle!Init, Absent
<1>2. LogInv /\ LifeInv /\ [Next]_vars => [Lifecycle!Next]_(Lifecycle!vars)
  BY NextRefines
<1> QED
  BY <1>1, <1>2, LifeInvHolds, PTL DEF Spec, LifecycleSpec, Lifecycle!Spec

-----------------------------------------------------------------------------
(* Status and log agree.                                                   *)

(* The last effect of a segment stays the last while effects are made.     *)
LEMMA LastEffect ==
  ASSUME TypeInv, script # <<>>, Tail(script) # <<>>
  PROVE  Tail(script)[Len(Tail(script))] = script[Len(script)]
<1>1. /\ Len(script) \in Nat \ {0} /\ Len(Tail(script)) = Len(script) - 1
      /\ DOMAIN Tail(script) = 1 .. (Len(script) - 1)
      /\ \A i \in 1 .. (Len(script) - 1) : Tail(script)[i] = script[i + 1]
      /\ 1 \in DOMAIN Tail(script)
  BY ScriptParts
<1>2. Len(script) - 1 \in 1 .. (Len(script) - 1) /\ (Len(script) - 1) + 1 = Len(script)
  BY <1>1
<1> QED BY <1>1, <1>2

(* What an effect leaves for the next one to rely on.                      *)
LEMMA PerformKeepsLogged ==
  ASSUME LogInv, LifeInv, LoggedInv, Perform
  PROVE  LoggedInv'
<1> DEFINE o == script[1]
           r == o.run
           next == Tail(script)
<1>0. /\ TypeInv /\ script # <<>> /\ proc # "down" /\ proc' = proc /\ script' = next
  BY DEF Perform, PerformEmit, PerformSave, PerformAnswer, procVars, LogInv, TypeInv
<1>1. /\ Head(script) = o /\ o \in Effect /\ r \in Runs /\ mem[r] \in RunRecord
  BY <1>0, ScriptParts
<1>2. /\ next # <<>> => Follows(o, next[1]) /\ next[1].run = r
  <2>1. next # <<>> => 1 \in DOMAIN next
    BY <1>0, ScriptParts
  <2> QED BY <1>0, <2>1, TailOrdered DEF LifeInv, ScriptFits
<1>3. Fits(o, mem[r].status)
  BY <1>0 DEF LifeInv, ScriptFits
<1>4. /\ Saves(o, {"succeeded"}) => EndsWith(file[r], {"run.completed"})
      /\ Saves(o, {"failed"}) => EndsWith(file[r], Failures)
      /\ script[Len(script)].do = "answer" =>
           Emits(o, {"run.cancelled"}) \/ "run.cancelled" \in Types(file[r])
  BY <1>0 DEF LoggedInv, Logged
<1>5. next # <<>> => next[Len(next)] = script[Len(script)]
  BY <1>0, LastEffect
<1>6. \A q \in Runs : file[q] \in Seq(Event)
  BY DEF LogInv, RunTypeOK
<1>7. \A q \in Runs : tail[q] = "whole"
  BY DEF LoggedInv, WholeLines
<1> HIDE DEF o, r, next
<1>8. CASE PerformEmit
  <2>1. mem[r].status \in {"queued", "running"} /\ disk[r].status \in {"queued", "running"}
    BY <1>0, <1>8, EmitsBeforeEnd DEF PerformEmit, o, r
  <2>2. /\ o.do = "emit" /\ disk' = disk /\ acked' = acked
        /\ file' = [file EXCEPT ![r] = LinesAfter(@, tail[r], NextEvent(o))]
        /\ tail' = [tail EXCEPT ![r] = "whole"]
    BY <1>1, <1>8 DEF PerformEmit, storeVars, r
  <2>3. NextEvent(o) \in Event /\ NextEvent(o).type = o.what
    <3>1. o.what \in EventType /\ o.phase \in Phase
      BY <1>1, <2>2 DEF Effect
    <3> QED
      BY <1>1, <3>1 DEF NextEvent, Event, LogInv, RunTypeOK, r
  <2>4. /\ file'[r] = Append(file[r], NextEvent(o))
        /\ \A q \in Runs : q # r => file'[q] = file[q]
    BY <1>1, <1>7, <2>2 DEF LogInv, RunTypeOK, LinesAfter
  <2>5. /\ file'[r] # <<>> /\ file'[r][Len(file'[r])].type = o.what
        /\ o.what \in Types(file'[r]) /\ Types(file[r]) \subseteq Types(file'[r])
    <3>1. /\ file'[r] \in Seq(Event) /\ Len(file'[r]) = Len(file[r]) + 1
          /\ \A i \in 1 .. Len(file[r]) : file'[r][i] = file[r][i]
          /\ file'[r][Len(file[r]) + 1] = NextEvent(o)
      BY <1>1, <1>6, <2>3, <2>4, AppendProperties
    <3>2. /\ Len(file[r]) \in Nat /\ DOMAIN file[r] = 1 .. Len(file[r])
          /\ DOMAIN file'[r] = 1 .. (Len(file[r]) + 1)
      BY <1>1, <1>6, <3>1, LenProperties
    <3>3. file'[r] # <<>>
      BY <3>1, <3>2, EmptySeq
    <3> QED
      BY <2>3, <3>1, <3>2, <3>3 DEF Types
  <2>6. WholeLines'
    BY <1>7, <2>2 DEF WholeLines, LogInv, RunTypeOK
  <2>7. Logged'
    <3>1. SUFFICES ASSUME next # <<>>
                   PROVE  /\ Saves(next[1], {"succeeded"}) => EndsWith(file'[r], {"run.completed"})
                          /\ Saves(next[1], {"failed"}) => EndsWith(file'[r], Failures)
                          /\ next[Len(next)].do = "answer" =>
                               "run.cancelled" \in Types(file'[r])
      BY <1>0, <1>2 DEF Logged
    <3>2. Follows(o, next[1])
      BY <1>2, <3>1
    <3>3. \/ Emits(o, EventType \ Outcomes) \/ Emits(o, {"run.completed"})
          \/ Emits(o, Failures) \/ Emits(o, {"run.cancelled"})
      BY <1>1, <2>2, EffectKinds DEF Saves
    <3>4. Saves(next[1], {"succeeded"}) => o.what = "run.completed"
      BY <3>2, <3>3 DEF Follows, Plain, Saves, Emits, Failures, Outcomes
    <3>5. Saves(next[1], {"failed"}) => o.what \in Failures
      BY <3>2, <3>3 DEF Follows, Plain, Saves, Emits, Failures, Outcomes
    <3>6. next[Len(next)].do = "answer" => "run.cancelled" \in Types(file'[r])
      BY <1>4, <1>5, <2>5, <3>1 DEF Emits
    <3> QED BY <2>5, <3>4, <3>5, <3>6 DEF EndsWith
  <2>8. StatusMatchesLog'
    <3>1. ASSUME NEW q \in Runs
          PROVE  /\ disk'[q].status = "succeeded" => /\ file'[q] # <<>>
                                                     /\ file'[q][Len(file'[q])].type = "run.completed"
                 /\ disk'[q].status = "failed" => /\ file'[q] # <<>>
                                                  /\ file'[q][Len(file'[q])].type
                                                       \in {"run.failed", "verdict.failed"}
                 /\ q \in acked' => "run.cancelled" \in Types(file'[q])
      <4>1. CASE q = r
        BY <2>1, <2>2, <2>5, <4>1 DEF LoggedInv, StatusMatchesLog
      <4>2. CASE q # r
        BY <2>2, <2>4, <4>2 DEF LoggedInv, StatusMatchesLog
      <4> QED BY <4>1, <4>2
    <3> QED BY <3>1 DEF StatusMatchesLog
  <2> QED BY <2>6, <2>7, <2>8 DEF LoggedInv
<1>9. CASE PerformSave
  <2>1. /\ o.do = "save" /\ disk' = mem' /\ acked' = acked /\ file' = file /\ tail' = tail
        /\ mem' = [mem EXCEPT ![r].status = o.what, ![r].phase = o.phase]
    BY <1>1, <1>9 DEF PerformSave, logVars, r
  <2>2. mem'[r].status = o.what /\ \A q \in Runs : q # r => mem'[q] = mem[q]
    BY <1>1, <2>1 DEF LogInv, RunTypeOK, RunRecord
  <2>3. \/ Saves(o, {"running"}) \/ Saves(o, {"succeeded"}) \/ Saves(o, {"failed"})
        \/ Saves(o, {"cancelled"})
    BY <1>1, <1>3, <2>1, EffectKinds DEF Emits, Fits
  <2>4. Logged'
    <3>1. SUFFICES ASSUME next # <<>>
                   PROVE  /\ ~Saves(next[1], {"succeeded"}) /\ ~Saves(next[1], {"failed"})
                          /\ next[Len(next)].do = "answer" =>
                               "run.cancelled" \in Types(file[r])
      BY <1>0, <1>2, <2>1 DEF Logged
    <3>2. Follows(o, next[1])
      BY <1>2, <3>1
    <3>3. ~Saves(next[1], {"succeeded"}) /\ ~Saves(next[1], {"failed"})
      BY <2>3, <3>2 DEF Follows, Plain, Saves, Emits, Failures, Outcomes
    <3>4. next[Len(next)].do = "answer" => "run.cancelled" \in Types(file[r])
      BY <1>4, <1>5, <2>1, <3>1 DEF Emits
    <3> QED BY <3>3, <3>4
  <2>5. StatusMatchesLog'
    <3>1. ASSUME NEW q \in Runs
          PROVE  /\ disk'[q].status = "succeeded" => /\ file[q] # <<>>
                                                     /\ file[q][Len(file[q])].type = "run.completed"
                 /\ disk'[q].status = "failed" => /\ file[q] # <<>>
                                                  /\ file[q][Len(file[q])].type
                                                       \in {"run.failed", "verdict.failed"}
                 /\ q \in acked => "run.cancelled" \in Types(file[q])
      <4>1. CASE q = r
        <5>1. /\ o.what = "succeeded" => EndsWith(file[r], {"run.completed"})
              /\ o.what = "failed" => EndsWith(file[r], Failures)
          BY <1>4, <2>1 DEF Saves
        <5> QED BY <2>1, <2>2, <4>1, <5>1 DEF LoggedInv, StatusMatchesLog, EndsWith, Failures
      <4>2. CASE q # r
        <5>1. disk'[q].status = disk[q].status \/ disk'[q].status = "queued"
          BY <1>0, <2>1, <2>2, <4>2 DEF LifeInv, MemOnDisk
        <5> QED BY <5>1 DEF LoggedInv, StatusMatchesLog
      <4> QED BY <4>1, <4>2
    <3> QED BY <2>1, <3>1 DEF StatusMatchesLog
  <2> QED BY <2>1, <2>4, <2>5 DEF LoggedInv, WholeLines
<1>10. CASE PerformAnswer
  <2>1. o.do = "answer" /\ disk' = disk /\ acked' = acked \cup {r} /\ file' = file /\ tail' = tail
    BY <1>1, <1>10 DEF PerformAnswer, storeVars, logVars, r
  <2>2. next = <<>>
    BY <1>2, <2>1 DEF Follows
  <2>3. "run.cancelled" \in Types(file[r])
    <3>1. Len(script) = 1
      <4>1. Len(script) \in Nat \ {0} /\ Len(next) = Len(script) - 1
        BY <1>0, ScriptParts DEF next
      <4>2. Len(next) = 0
        BY <2>2
      <4> QED BY <4>1, <4>2
    <3>2. script[Len(script)].do = "answer"
      BY <2>1, <3>1 DEF o
    <3> QED BY <1>4, <2>1, <3>2 DEF Emits
  <2>4. StatusMatchesLog'
    BY <2>1, <2>3 DEF LoggedInv, StatusMatchesLog
  <2> QED BY <1>0, <2>1, <2>2, <2>4 DEF LoggedInv, WholeLines, Logged
<1> QED BY <1>8, <1>9, <1>10 DEF Perform

(* No other step touches the end of a log or the status that goes with it. *)
LEMMA NextKeepsLogged ==
  ASSUME ~TornWrites, LogInv, LifeInv, LoggedInv, [Next]_vars
  PROVE  LoggedInv'
<1>0. TypeInv
  BY DEF LogInv, TypeInv
<1>1. ASSUME UNCHANGED <<disk, file, tail, acked>>, Opens(script')
      PROVE  LoggedInv'
  <2>1. Logged'
    BY <1>1 DEF Logged, Opens, Saves
  <2> QED BY <1>1, <2>1 DEF LoggedInv, WholeLines, StatusMatchesLog
<1>2. CASE Perform
  BY <1>2, PerformKeepsLogged
<1>3. ASSUME NEW r \in Runs, CreateRun(r)
      PROVE  LoggedInv'
  <2>1. PICK p \in Policies :
          /\ mem' = [mem EXCEPT ![r] = [status |-> "queued", phase |-> 0,
                                        cancelled |-> FALSE, policy |-> p]]
          /\ task' = [task EXCEPT ![r] = IF p = "bad_hosts" THEN "none" ELSE "ready"]
    BY <1>3 DEF CreateRun
  <2>2. /\ disk' = mem' /\ proc # "down" /\ script' = <<>>
        /\ file' = file /\ tail' = tail /\ acked' = acked
    BY <1>3 DEF CreateRun, LoopIdle, logVars
  <2>3. \A q \in Runs : disk'[q].status = disk[q].status \/ disk'[q].status = "queued"
    BY <2>1, <2>2 DEF LogInv, RunTypeOK, LifeInv, MemOnDisk
  <2>4. StatusMatchesLog'
    BY <2>2, <2>3 DEF LoggedInv, StatusMatchesLog
  <2> QED BY <2>2, <2>4 DEF LoggedInv, WholeLines, Logged
<1>4. ASSUME NEW r \in Runs, CancelRun(r)
      PROVE  LoggedInv'
  <2> DEFINE s == <<EmitOf(r, "run.cancelled", 0), SaveOf(r, "cancelled", mem[r].phase), AnswerOf(r)>>
  <2>1. script' = s /\ UNCHANGED <<disk, file, tail, acked>>
    BY <1>4 DEF CancelRun, logVars
  <2>2. Emits(s[1], {"run.cancelled"}) /\ ~Saves(s[1], {"succeeded"}) /\ ~Saves(s[1], {"failed"})
    BY DEF EmitOf, Emits, Saves
  <2> HIDE DEF s
  <2>3. Logged'
    BY <2>1, <2>2 DEF Logged
  <2> QED BY <2>1, <2>3 DEF LoggedInv, WholeLines, StatusMatchesLog
<1>5. ASSUME NEW r \in Runs, RunTask(r)
      PROVE  LoggedInv'
  <2>1. UNCHANGED <<disk, file, tail, acked>>
    BY <1>5 DEF RunTask, StartStub, WakeStub, StartAgent, FactoryRaises,
                PlanReturns, ExecutePasses, ExecuteFails, SessionRaises, TakeCancellation,
                RunSegment, storeVars, logVars
  <2> QED BY <1>0, <1>1, <1>5, <2>1, RunTaskKeepsLife
<1>6. ASSUME UNCHANGED <<disk, file, tail, acked, script>>
      PROVE  LoggedInv'
  BY <1>6 DEF LoggedInv, WholeLines, Logged, StatusMatchesLog
<1>7. ASSUME NEW c \in Clients,
             \/ \E q \in Runs : OpenStream(c, q)
             \/ PollStream(c) \/ CheckStream(c) \/ CloseStream(c)
      PROVE  LoggedInv'
  <2>1. UNCHANGED <<disk, file, tail, acked, script>>
    BY <1>7 DEF OpenStream, PollStream, CheckStream, CloseStream, StreamUnchanged, storeVars, logVars
  <2> QED BY <1>6, <2>1
<1>8. CASE Crash \/ ShutdownEnds
  <2>1. UNCHANGED <<disk, file, tail, acked>> /\ script' = <<>>
    BY <1>8 DEF Crash, ShutdownEnds, Die
  <2> QED BY <1>1, <2>1 DEF Opens
<1>9. CASE TornCrash
  BY <1>9 DEF TornCrash
<1>10. CASE Shutdown \/ Restart \/ UNCHANGED vars
  <2>1. UNCHANGED <<disk, file, tail, acked, script>>
    BY <1>10 DEF Shutdown, Restart, vars, storeVars, logVars
  <2> QED BY <1>6, <2>1
<1> QED
  BY <1>2, <1>3, <1>4, <1>5, <1>7, <1>8, <1>9, <1>10 DEF Next

(* If a line of the event file is written whole or not at all, the stored  *)
(* status and the log agree at every moment, whenever the process dies: a  *)
(* succeeded run has a log that ends with run.completed, a failed one ends *)
(* with the failure, and who was told "cancelled" finds it in the log.     *)
(* (Glued to a torn line, the run.cancelled of a waiting run can be lost.) *)
THEOREM StatusAgreesWithLog ==
  ASSUME ~TornWrites
  PROVE  Spec => []StatusMatchesLog
<1>1. Init => LoggedInv
  BY DEF Init, LoggedInv, WholeLines, Logged, StatusMatchesLog, Absent
<1>2. LogInv /\ LifeInv /\ LoggedInv /\ [Next]_vars => LoggedInv'
  BY NextKeepsLogged
<1>3. LoggedInv => StatusMatchesLog
  BY DEF LoggedInv
<1> QED
  BY <1>1, <1>2, <1>3, LifeInvHolds, PTL DEF Spec

-----------------------------------------------------------------------------
(* The log has no gaps.                                                    *)

GapFree(s) == \A i \in DOMAIN s : s[i].seq = i

(* While no line has been torn the file holds what the memory holds, and   *)
(* the counter is the length of the log.  The first death is the only one  *)
(* that may tear a line here: what a second one would reload has a gap.    *)
WholeSoFar == ~TornWrites \/ crashes = 0 \/ proc = "closing"
GapInv ==
  /\ crashes <= MaxCrashes
  /\ proc # "up" => crashes > 0
  /\ ~TornWrites => WholeLines
  /\ \A r \in Runs :
       /\ GapFree(events[r])
       /\ proc = "down" => GapFree(file[r])
       /\ proc # "down" => seq[r] = Len(events[r])
       /\ proc # "down" /\ WholeSoFar => file[r] = events[r] /\ tail[r] = "whole"

(* One more event, numbered after the last, leaves no gap.                 *)
LEMMA AppendKeepsGapFree ==
  ASSUME NEW s \in Seq(Event), GapFree(s), NEW e \in Event, e.seq = Len(s) + 1
  PROVE  GapFree(Append(s, e)) /\ Len(Append(s, e)) = Len(s) + 1
<1>1. /\ Append(s, e) \in Seq(Event)
      /\ Len(Append(s, e)) = Len(s) + 1
      /\ \A i \in 1 .. Len(s) : Append(s, e)[i] = s[i]
      /\ Append(s, e)[Len(s) + 1] = e
  BY AppendProperties
<1>2. /\ Len(s) \in Nat /\ DOMAIN s = 1 .. Len(s)
      /\ DOMAIN Append(s, e) = 1 .. (Len(s) + 1)
  BY <1>1, LenProperties
<1>3. ASSUME NEW i \in 1 .. (Len(s) + 1)
      PROVE  Append(s, e)[i].seq = i
  <2>1. CASE i = Len(s) + 1
    BY <1>1, <2>1
  <2>2. CASE i # Len(s) + 1
    <3>1. i \in 1 .. Len(s)
      BY <1>2, <2>2
    <3> QED BY <1>1, <1>2, <3>1 DEF GapFree
  <2> QED BY <2>1, <2>2
<1> QED BY <1>1, <1>2, <1>3 DEF GapFree

(* What a restart reloads as the counter is then the length of the log.    *)
LEMMA MaxSeqOfGapFree ==
  ASSUME NEW s \in Seq(Event), GapFree(s)
  PROVE  MaxSeq(s) = Len(s)
<1>1. Len(s) \in Nat /\ DOMAIN s = 1 .. Len(s)
  BY LenProperties
<1>2. CASE s = <<>>
  BY <1>2 DEF MaxSeq
<1>3. CASE s # <<>>
  <2>1. Len(s) \in DOMAIN s
    BY <1>1, <1>3, EmptySeq
  <2>2. SeqsOf(s) = 1 .. Len(s)
    <3>1. \A i \in 1 .. Len(s) : s[i].seq = i
      BY <1>1 DEF GapFree
    <3> QED BY <1>1, <3>1 DEF SeqsOf
  <2>3. Len(s) \in SeqsOf(s) /\ \A n \in SeqsOf(s) : n <= Len(s)
    BY <1>1, <2>1, <2>2
  <2>4. MaxSeq(s) \in SeqsOf(s) /\ \A n \in SeqsOf(s) : n <= MaxSeq(s)
    BY <1>3, <2>3 DEF MaxSeq
  <2>5. MaxSeq(s) \in 1 .. Len(s) /\ Len(s) <= MaxSeq(s)
    BY <2>2, <2>3, <2>4
  <2> QED BY <1>1, <2>5
<1> QED BY <1>2, <1>3

FewTears == ~TornWrites \/ MaxCrashes <= 1

LEMMA PerformKeepsGapFree ==
  ASSUME LogInv, GapInv, Perform
  PROVE  GapInv'
<1>1. CASE PerformEmit
  <2> DEFINE o == Head(script)
             r == o.run
  <2>1. proc # "down" /\ script # <<>> /\ o.do = "emit" /\ TypeInv
    BY <1>1 DEF PerformEmit, LogInv, TypeInv
  <2>2. o \in Effect /\ r \in Runs
    BY <2>1, NextEffect
  <2>3. /\ events' = [events EXCEPT ![r] = Append(@, NextEvent(o))]
        /\ file' = [file EXCEPT ![r] = LinesAfter(@, tail[r], NextEvent(o))]
        /\ seq' = [seq EXCEPT ![r] = @ + 1]
        /\ tail' = [tail EXCEPT ![r] = "whole"]
        /\ proc' = proc /\ crashes' = crashes
    BY <1>1 DEF PerformEmit, procVars
  <2>4. NextEvent(o) \in Event /\ NextEvent(o).seq = seq[r] + 1
    <3>1. o.what \in EventType /\ o.phase \in Phase
      BY <2>1, <2>2 DEF Effect
    <3> QED
      BY <2>2, <3>1 DEF NextEvent, Event, LogInv, RunTypeOK
  <2> HIDE DEF o, r
  <2>5. events[r] \in Seq(Event) /\ GapFree(events[r]) /\ seq[r] = Len(events[r])
    BY <2>1, <2>2 DEF LogInv, RunTypeOK, GapInv
  <2>6. /\ GapFree(Append(events[r], NextEvent(o)))
        /\ Len(Append(events[r], NextEvent(o))) = seq[r] + 1
    BY <2>4, <2>5, AppendKeepsGapFree
  <2>7. ASSUME NEW q \in Runs
        PROVE  /\ GapFree(events'[q]) /\ seq'[q] = Len(events'[q])
               /\ WholeSoFar => file'[q] = events'[q] /\ tail'[q] = "whole"
               /\ tail[q] = "whole" => tail'[q] = "whole"
    <3>1. CASE q = r
      <4>1. /\ events'[q] = Append(events[r], NextEvent(o)) /\ seq'[q] = seq[r] + 1
            /\ file'[q] = LinesAfter(file[r], tail[r], NextEvent(o)) /\ tail'[q] = "whole"
        BY <2>2, <2>3, <3>1 DEF LogInv, RunTypeOK
      <4>2. WholeSoFar => file'[q] = Append(events[r], NextEvent(o))
        BY <2>1, <2>2, <4>1 DEF GapInv, LinesAfter
      <4> QED BY <2>6, <4>1, <4>2
    <3>2. CASE q # r
      <4>1. /\ events'[q] = events[q] /\ seq'[q] = seq[q]
            /\ file'[q] = file[q] /\ tail'[q] = tail[q]
        BY <2>3, <3>2 DEF LogInv, RunTypeOK
      <4> QED BY <2>1, <4>1 DEF GapInv
    <3> QED BY <3>1, <3>2
  <2>8. WholeSoFar' = WholeSoFar
    BY <2>3 DEF WholeSoFar
  <2>9. ~TornWrites => WholeLines'
    BY <2>7 DEF GapInv, WholeLines
  <2> QED
    BY <2>1, <2>3, <2>7, <2>8, <2>9 DEF GapInv, GapFree
<1>2. CASE PerformSave \/ PerformAnswer
  <2>1. UNCHANGED <<proc, events, seq, file, tail, crashes>>
    BY <1>2 DEF PerformSave, PerformAnswer, procVars, logVars
  <2> QED BY <2>1 DEF GapInv, GapFree, WholeSoFar, WholeLines
<1> QED BY <1>1, <1>2 DEF Perform

(* The process dies: what it leaves in the files has no gap.               *)
LEMMA DieKeepsGapFree ==
  ASSUME NEW lines, NEW ends, NEW connections, Die(lines, ends, connections),
         crashes' \in Nat, 0 < crashes', crashes' <= MaxCrashes,
         \A r \in Runs : GapFree(lines[r]),
         ~TornWrites => \A r \in Runs : ends[r] = "whole"
  PROVE  GapInv'
<1>1. /\ proc' = "down" /\ events' = [r \in Runs |-> <<>>]
      /\ file' = lines /\ tail' = ends
  BY DEF Die
<1>2. \A r \in Runs : GapFree(events'[r])
  BY <1>1 DEF GapFree
<1> QED BY <1>1, <1>2 DEF GapInv, GapFree, WholeLines

LEMMA ProcessKeepsGapFree ==
  ASSUME FewTears, LogInv, GapInv, Crash \/ TornCrash \/ Shutdown \/ ShutdownEnds \/ Restart
  PROVE  GapInv'
<1>0. /\ crashes \in Nat /\ MaxCrashes \in Nat
      /\ file \in [Runs -> Seq(Event)] /\ tail \in [Runs -> LineEnd]
      /\ events \in [Runs -> Seq(Event)]
  BY CellAssumption DEF LogInv, RunTypeOK
<1>1. ASSUME proc # "down", WholeSoFar, NEW r \in Runs
      PROVE  file[r] = events[r] /\ tail[r] = "whole" /\ GapFree(file[r])
  BY <1>1 DEF GapInv
<1>2. CASE Crash
  <2>1. /\ proc # "down" /\ crashes < MaxCrashes /\ crashes' = crashes + 1
        /\ Die(file, tail, Broken)
    BY <1>2 DEF Crash
  <2>2. WholeSoFar
    BY <1>0, <2>1 DEF WholeSoFar, FewTears
  <2>3. crashes' \in Nat /\ 0 < crashes' /\ crashes' <= MaxCrashes
    BY <1>0, <2>1
  <2> QED BY <1>1, <2>1, <2>2, <2>3, DieKeepsGapFree
<1>3. CASE TornCrash
  <2> DEFINE o == Head(script)
             r == o.run
  <2>1. PICK t \in {"fragment", "unterminated"} :
          Die([file EXCEPT ![r] = IF tail[r] = "whole" /\ t = "fragment" THEN @
                                  ELSE LinesAfter(@, tail[r], NextEvent(o))],
              [tail EXCEPT ![r] = IF tail[r] = "whole" THEN t ELSE "fragment"],
              Broken)
    BY <1>3 DEF TornCrash
  <2>2. /\ TornWrites /\ proc # "down" /\ crashes < MaxCrashes /\ crashes' = crashes + 1
        /\ script # <<>> /\ o.do = "emit" /\ TypeInv
    BY <1>3 DEF TornCrash, LogInv, TypeInv
  <2>3. o \in Effect /\ r \in Runs
    BY <2>2, NextEffect
  <2>4. NextEvent(o) \in Event /\ NextEvent(o).seq = seq[r] + 1
    <3>1. o.what \in EventType /\ o.phase \in Phase
      BY <2>2, <2>3 DEF Effect
    <3> QED
      BY <2>3, <3>1 DEF NextEvent, Event, LogInv, RunTypeOK
  <2> HIDE DEF o, r
  <2>5. WholeSoFar
    BY <1>0, <2>2 DEF WholeSoFar, FewTears
  <2>6. crashes' \in Nat /\ 0 < crashes' /\ crashes' <= MaxCrashes
    BY <1>0, <2>2
  <2> DEFINE lines == [file EXCEPT ![r] = IF tail[r] = "whole" /\ t = "fragment" THEN @
                                          ELSE LinesAfter(@, tail[r], NextEvent(o))]
             ends == [tail EXCEPT ![r] = IF tail[r] = "whole" THEN t ELSE "fragment"]
  <2>7. \A q \in Runs : GapFree(lines[q])
    <3>1. events[r] \in Seq(Event) /\ seq[r] = Len(events[r]) /\ GapFree(events[r])
      BY <1>0, <2>2, <2>3 DEF GapInv
    <3>2. GapFree(Append(events[r], NextEvent(o)))
      BY <2>4, <3>1, AppendKeepsGapFree
    <3>3. file[r] = events[r] /\ tail[r] = "whole" /\ GapFree(file[r])
      BY <1>1, <2>2, <2>3, <2>5
    <3>4. lines[r] = file[r] \/ lines[r] = Append(events[r], NextEvent(o))
      BY <1>0, <2>3, <3>3 DEF LinesAfter
    <3>5. \A q \in Runs : q # r => lines[q] = file[q]
      BY <1>0
    <3> HIDE DEF lines
    <3>6. TAKE q \in Runs
    <3>7. CASE q = r
      BY <3>2, <3>3, <3>4, <3>7
    <3>8. CASE q # r
      BY <1>1, <2>2, <2>5, <3>5, <3>8
    <3> QED BY <3>7, <3>8
  <2>8. Die(lines, ends, Broken)
    BY <2>1
  <2> HIDE DEF lines, ends
  <2> QED BY <2>2, <2>6, <2>7, <2>8, DieKeepsGapFree
<1>4. CASE Shutdown
  <2>1. /\ proc = "up" /\ proc' = "closing" /\ crashes < MaxCrashes /\ crashes' = crashes + 1
        /\ UNCHANGED <<events, seq, file, tail>>
    BY <1>4 DEF Shutdown, LoopIdle, logVars
  <2>2. WholeSoFar
    BY <1>0, <2>1 DEF WholeSoFar, FewTears
  <2>3. crashes' <= MaxCrashes /\ crashes' > 0
    BY <1>0, <2>1
  <2>4. ASSUME NEW r \in Runs
        PROVE  /\ GapFree(events'[r]) /\ seq'[r] = Len(events'[r])
               /\ file'[r] = events'[r] /\ tail'[r] = "whole"
    BY <1>1, <2>1, <2>2 DEF GapInv
  <2> QED BY <2>1, <2>3, <2>4 DEF GapInv, GapFree, WholeLines
<1>5. CASE ShutdownEnds
  <2>1. proc = "closing" /\ crashes' = crashes /\ Die(file, tail, conn)
    BY <1>5 DEF ShutdownEnds
  <2>2. WholeSoFar /\ crashes > 0 /\ crashes <= MaxCrashes
    BY <2>1 DEF WholeSoFar, GapInv
  <2> QED BY <1>0, <1>1, <2>1, <2>2, DieKeepsGapFree
<1>6. CASE Restart
  <2>1. /\ proc = "down" /\ proc' = "up" /\ events' = file /\ file' = file /\ tail' = tail
        /\ seq' = [r \in Runs |-> MaxSeq(file[r])] /\ crashes' = crashes
    BY <1>6 DEF Restart
  <2>2. crashes > 0 /\ crashes <= MaxCrashes /\ \A r \in Runs : GapFree(file[r])
    BY <2>1 DEF GapInv
  <2>3. \A r \in Runs : seq'[r] = Len(events'[r])
    BY <1>0, <2>1, <2>2, MaxSeqOfGapFree
  <2>4. WholeSoFar' => ~TornWrites
    BY <1>0, <2>1, <2>2 DEF WholeSoFar
  <2>5. ~TornWrites => \A r \in Runs : tail[r] = "whole"
    BY DEF GapInv, WholeLines
  <2> QED BY <2>1, <2>2, <2>3, <2>4, <2>5 DEF GapInv, GapFree, WholeLines
<1> QED BY <1>2, <1>3, <1>4, <1>5, <1>6

LEMMA NextKeepsGapFree ==
  ASSUME FewTears, LogInv, GapInv, [Next]_vars
  PROVE  GapInv'
<1>1. ASSUME UNCHANGED <<proc, events, seq, file, tail, crashes>>
      PROVE  GapInv'
  BY <1>1 DEF GapInv, GapFree, WholeSoFar, WholeLines
<1>2. CASE Perform
  BY <1>2, PerformKeepsGapFree
<1>3. ASSUME NEW r \in Runs, CreateRun(r) \/ CancelRun(r) \/ RunTask(r)
      PROVE  GapInv'
  <2>1. UNCHANGED <<proc, events, seq, file, tail, crashes>>
    BY <1>3 DEF CreateRun, CancelRun, RunTask, StartStub, WakeStub, StartAgent, FactoryRaises,
                PlanReturns, ExecutePasses, ExecuteFails, SessionRaises, TakeCancellation,
                RunSegment, procVars, logVars
  <2> QED BY <1>1, <2>1
<1>4. ASSUME NEW c \in Clients,
             \/ \E q \in Runs : OpenStream(c, q)
             \/ PollStream(c) \/ CheckStream(c) \/ CloseStream(c)
      PROVE  GapInv'
  <2>1. UNCHANGED <<proc, events, seq, file, tail, crashes>>
    BY <1>4 DEF OpenStream, PollStream, CheckStream, CloseStream, StreamUnchanged, procVars, logVars
  <2> QED BY <1>1, <2>1
<1>5. CASE Crash \/ TornCrash \/ Shutdown \/ ShutdownEnds \/ Restart
  BY <1>5, ProcessKeepsGapFree
<1>6. CASE UNCHANGED vars
  BY <1>1, <1>6 DEF vars
<1> QED BY <1>2, <1>3, <1>4, <1>5, <1>6 DEF Next

LEMMA GapInvHolds ==
  ASSUME FewTears
  PROVE  Spec => [](LogInv /\ GapInv)
<1>1. Init => LogInv /\ GapInv
  <2>1. SUFFICES ASSUME Init PROVE GapInv
    BY InitEstablishesLogInv
  <2>2. \A r \in Runs : GapFree(events[r]) /\ Len(events[r]) = 0
    BY <2>1 DEF Init, GapFree
  <2> QED BY <2>1, <2>2, CellAssumption DEF Init, GapInv, WholeLines, GapFree
<1>2. LogInv /\ GapInv /\ [Next]_vars => LogInv' /\ GapInv'
  BY NextKeepsTypes, NextKeepsOrder, NextKeepsGapFree DEF LogInv, TypeInv, SeqInv
<1> QED BY <1>1, <1>2, PTL DEF Spec

(* The n-th event of a run has sequence number n, whenever the process     *)
(* dies and is started again, as long as no line is torn -- or at most one *)
(* death tears one.  (A death that follows a torn line reloads a log with  *)
(* a hole where the glued lines were.)                                     *)
THEOREM NumbersHaveNoGap ==
  ASSUME FewTears
  PROVE  Spec => []SeqGapFree
<1>1. GapInv => SeqGapFree
  BY DEF GapInv, GapFree, SeqGapFree
<1> QED BY <1>1, GapInvHolds, PTL

-----------------------------------------------------------------------------
(* What a stream fetches.                                                  *)

LEMMA RelatedIsLess ==
  ASSUME NEW x \in Nat, NEW y \in Nat
  PROVE  <<y, x>> \in OpToRel(<, Nat) <=> y < x
BY DEF OpToRel

(* A set of natural numbers that is not empty has a least element.         *)
LEMMA LeastElement ==
  ASSUME NEW T \in SUBSET Nat, T # {}
  PROVE  \E x \in T : \A y \in T : x <= y
<1>1. PICK x \in T : \A y \in T : ~(<<y, x>> \in OpToRel(<, Nat))
  BY NatLessThanWellFounded, WFMin
<1>2. \A y \in T : x <= y
  <2>1. TAKE y \in T
  <2>2. x \in Nat /\ y \in Nat
    OBVIOUS
  <2>3. ~(<<y, x>> \in OpToRel(<, Nat))
    BY <1>1
  <2>4. ~(y < x)
    BY <2>2, <2>3, RelatedIsLess
  <2> QED BY <2>2, <2>4
<1> QED BY <1>2

LEMMA IntervalSize ==
  ASSUME NEW a \in Int, NEW b \in Int
  PROVE  Cardinality(a .. b) = IF a <= b THEN b - a + 1 ELSE 0
BY FS_Interval

(* When the fresh events are those after position k, they are fetched in   *)
(* their order.                                                            *)
LEMMA EventsAfterPosition ==
  ASSUME NEW s \in Seq(Event), NEW since \in Nat, NEW k \in 0 .. Len(s),
         {i \in DOMAIN s : s[i].seq > since} = (k + 1) .. Len(s)
  PROVE  /\ EventsAfter(s, since) \in Seq(Event)
         /\ Len(EventsAfter(s, since)) = Len(s) - k
         /\ \A n \in 1 .. (Len(s) - k) : EventsAfter(s, since)[n] = s[k + n]
<1> DEFINE fresh == {i \in DOMAIN s : s[i].seq > since}
           at(n) == CHOOSE i \in fresh : Cardinality({j \in fresh : j < i}) = n - 1
           got == [n \in 1 .. Cardinality(fresh) |-> s[at(n)]]
<1>1. Len(s) \in Nat /\ k \in Nat /\ Len(s) - k \in Nat /\ fresh = (k + 1) .. Len(s)
  BY LenProperties
<1>2. Cardinality(fresh) = Len(s) - k
  <2>1. Cardinality((k + 1) .. Len(s))
          = IF k + 1 <= Len(s) THEN Len(s) - (k + 1) + 1 ELSE 0
    <3>1. k + 1 \in Int /\ Len(s) \in Int
      BY <1>1
    <3> QED BY <3>1, IntervalSize
  <2>2. Cardinality(fresh) = Cardinality((k + 1) .. Len(s))
    <3>1. fresh = (k + 1) .. Len(s)
      BY <1>1
    <3> HIDE DEF fresh
    <3> QED BY <3>1
  <2> HIDE DEF fresh
  <2> QED BY <1>1, <2>1, <2>2
<1>3. EventsAfter(s, since) = got
  BY DEF EventsAfter
<1>4. ASSUME NEW i \in fresh
      PROVE  Cardinality({j \in fresh : j < i}) = i - k - 1
  <2>1. i \in Nat /\ k + 1 <= i /\ i <= Len(s)
    BY <1>1
  <2> DEFINE before == {j \in fresh : j < i}
  <2>2. before = (k + 1) .. (i - 1)
    <3>1. fresh = (k + 1) .. Len(s)
      BY <1>1
    <3> HIDE DEF fresh
    <3> QED BY <1>1, <2>1, <3>1
  <2> HIDE DEF before
  <2>4. Cardinality(before) = Cardinality((k + 1) .. (i - 1))
    BY <2>2
  <2>3. Cardinality((k + 1) .. (i - 1))
          = IF k + 1 <= i - 1 THEN (i - 1) - (k + 1) + 1 ELSE 0
    <3>1. k + 1 \in Int /\ i - 1 \in Int
      BY <1>1, <2>1
    <3> QED BY <3>1, IntervalSize
  <2>5. Cardinality(before) = i - k - 1
    <3>1. CASE k + 1 <= i - 1
      BY <1>1, <2>1, <2>3, <2>4, <3>1
    <3>2. CASE ~(k + 1 <= i - 1)
      BY <1>1, <2>1, <2>3, <2>4, <3>2
    <3> QED BY <3>1, <3>2
  <2> QED BY <2>5 DEF before
<1> HIDE DEF fresh
<1>5. ASSUME NEW n \in 1 .. (Len(s) - k)
      PROVE  at(n) = k + n
  <2>1. k + n \in fresh /\ (k + n) - k - 1 = n - 1
    BY <1>1
  <2>2. Cardinality({j \in fresh : j < k + n}) = n - 1
    BY <1>4, <2>1
  <2>3. at(n) \in fresh /\ Cardinality({j \in fresh : j < at(n)}) = n - 1
    BY <2>1, <2>2
  <2>4. \A i \in fresh : Cardinality({j \in fresh : j < i}) = n - 1 => i = k + n
    <3>1. TAKE i \in fresh
    <3>2. Cardinality({j \in fresh : j < i}) = i - k - 1
      BY <1>4
    <3>3. i \in Nat
      BY <1>1
    <3> QED BY <1>1, <3>2, <3>3
  <2> HIDE DEF at
  <2> QED BY <2>3, <2>4
<1>6. DOMAIN got = 1 .. (Len(s) - k) /\ \A n \in 1 .. (Len(s) - k) : got[n] = s[k + n]
  <2>1. DOMAIN got = 1 .. (Len(s) - k)
    BY <1>2
  <2>2. ASSUME NEW n \in 1 .. (Len(s) - k)
        PROVE  got[n] = s[k + n]
    <3>1. got[n] = s[at(n)]
      BY <1>2
    <3> QED BY <1>5, <3>1
  <2> QED BY <2>1, <2>2
<1>7. \A n \in 1 .. (Len(s) - k) : s[k + n] \in Event
  <2>1. TAKE n \in 1 .. (Len(s) - k)
  <2>2. k + n \in 1 .. Len(s)
    BY <1>1
  <2> QED BY <2>2, ElementOfSeq
<1>8. got \in [1 .. (Len(s) - k) -> Event]
  BY <1>2, <1>6, <1>7
<1> HIDE DEF got
<1>9. got \in Seq(Event)
  BY <1>1, <1>8, SeqDef
<1>10. Len(got) = Len(s) - k
  BY <1>1, <1>6, <1>9, LenProperties
<1> QED BY <1>3, <1>6, <1>9, <1>10

(* In a log whose numbers increase the fresh events are the last ones.     *)
LEMMA FreshAreLast ==
  ASSUME NEW s \in Seq(Event), NEW since \in Nat, Increasing(s)
  PROVE  \E k \in 0 .. Len(s) : {i \in DOMAIN s : s[i].seq > since} = (k + 1) .. Len(s)
<1> DEFINE fresh == {i \in DOMAIN s : s[i].seq > since}
<1>1. /\ Len(s) \in Nat /\ DOMAIN s = 1 .. Len(s)
      /\ \A i \in 1 .. Len(s) : s[i].seq \in Nat
  BY LogPositions
<1>2. CASE fresh = {}
  <2>1. fresh = (Len(s) + 1) .. Len(s) /\ Len(s) \in 0 .. Len(s)
    BY <1>1, <1>2
  <2> QED BY <2>1
<1>3. CASE fresh # {}
  <2>1. PICK m \in fresh : \A j \in fresh : m <= j
    <3>1. fresh \in SUBSET Nat
      BY <1>1
    <3> HIDE DEF fresh
    <3> QED BY <1>3, <3>1, LeastElement
  <2>2. m \in 1 .. Len(s) /\ s[m].seq > since
    BY <1>1
  <2>3. \A j \in m .. Len(s) : s[j].seq > since
    <3>1. TAKE j \in m .. Len(s)
    <3>2. j \in 1 .. Len(s) /\ (m < j \/ m = j)
      BY <1>1, <2>2
    <3>3. m < j => s[m].seq < s[j].seq
      BY <1>1, <2>2, <3>2 DEF Increasing
    <3> QED BY <1>1, <2>2, <3>2, <3>3
  <2>4. fresh = m .. Len(s)
    BY <1>1, <2>1, <2>2, <2>3
  <2>5. m - 1 \in 0 .. Len(s) /\ (m - 1) + 1 = m
    BY <1>1, <2>2
  <2> QED BY <2>4, <2>5
<1> QED BY <1>2, <1>3

(* In a log without gaps they are the events after number "since".         *)
LEMMA FreshInGapFree ==
  ASSUME NEW s \in Seq(Event), NEW since \in 0 .. Len(s), GapFree(s)
  PROVE  {i \in DOMAIN s : s[i].seq > since} = (since + 1) .. Len(s)
<1>1. Len(s) \in Nat /\ DOMAIN s = 1 .. Len(s)
  BY LenProperties
<1>2. \A i \in 1 .. Len(s) : s[i].seq = i
  BY <1>1 DEF GapFree
<1> QED BY <1>1, <1>2

(* A client's last number.                                                 *)
LEMMA LastSeqType ==
  ASSUME NEW s \in Seq(Event)
  PROVE  LastSeq(s) \in Nat /\ (GapFree(s) => LastSeq(s) = Len(s))
<1>1. Len(s) \in Nat /\ DOMAIN s = 1 .. Len(s) /\ \A i \in 1 .. Len(s) : s[i].seq \in Nat
  BY LogPositions
<1>2. s # <<>> => Len(s) \in 1 .. Len(s)
  BY <1>1, EmptySeq
<1>3. s = <<>> => Len(s) = 0
  BY EmptySeq
<1> QED BY <1>1, <1>2, <1>3 DEF LastSeq, GapFree

-----------------------------------------------------------------------------
(* The clients' connections.                                               *)

ConnInv == StreamTypeOK /\ \A c \in Clients : conn[c].state # "off" => conn[c].run \in Runs

(* Whatever a log holds, a poll fetches events.                            *)
LEMMA FetchedType ==
  ASSUME LogInv, NEW r \in Runs, NEW since \in Nat
  PROVE  GetEvents(r, since) \in Seq(Event)
<1>1. events[r] \in Seq(Event) /\ Increasing(events[r])
  BY DEF LogInv, RunTypeOK, SeqIncreasing
<1>2. PICK k \in 0 .. Len(events[r]) :
        {i \in DOMAIN events[r] : events[r][i].seq > since} = (k + 1) .. Len(events[r])
  BY <1>1, FreshAreLast
<1> QED BY <1>1, <1>2, EventsAfterPosition DEF GetEvents

Connection == [run : Runs \cup {"none"}, state : {"off", "opening", "polling", "sending", "done"},
               slow : BOOLEAN, got : Seq(Event)]

LEMMA ConnectionType ==
  ASSUME ConnInv, NEW c \in Clients
  PROVE  /\ conn[c] \in Connection /\ DOMAIN conn = Clients
         /\ conn[c].got \in Seq(Event) /\ conn[c].slow \in BOOLEAN
         /\ conn[c].run \in Runs \cup {"none"}
         /\ conn[c].state \in {"off", "opening", "polling", "sending", "done"}
BY DEF ConnInv, StreamTypeOK, Connection

(* Only connection c changes.                                              *)
Changes(c) ==
  /\ conn' \in [Clients -> Connection]
  /\ \A d \in Clients : d # c => conn'[d] = conn[d]

LEMMA OneConnection ==
  ASSUME ConnInv, NEW c \in Clients, Changes(c),
         conn'[c].state # "off" => conn'[c].run \in Runs
  PROVE  ConnInv'
BY DEF ConnInv, StreamTypeOK, Connection, Changes

LEMMA OpenKeepsConn ==
  ASSUME LogInv, ConnInv, NEW c \in Clients, NEW r \in Runs, OpenStream(c, r)
  PROVE  ConnInv'
<1>1. PICK slow \in {FALSE, SlowClients}, state \in {"polling", "opening"} :
        conn' = [conn EXCEPT ![c] = [run |-> r, state |-> state, slow |-> slow,
                                     got |-> GetEvents(r, 0)]]
  BY DEF OpenStream
<1>2. GetEvents(r, 0) \in Seq(Event)
  BY FetchedType
<1> DEFINE n == [run |-> r, state |-> state, slow |-> slow, got |-> GetEvents(r, 0)]
<1>3. n \in Connection /\ n.run = r
  BY <1>2, CellAssumption DEF Connection
<1>4. conn' = [conn EXCEPT ![c] = n]
  BY <1>1
<1> HIDE DEF n
<1>5. Changes(c) /\ conn'[c] = n
  BY <1>3, <1>4 DEF Changes, ConnInv, StreamTypeOK, Connection
<1> QED BY <1>3, <1>5, OneConnection

(* A turn of the poll loop, as a change of one connection.                 *)
LEMMA PollIsChange ==
  ASSUME LogInv, ConnInv, NEW c \in Clients, PollStream(c)
  PROVE  /\ proc = "up" /\ script = <<>> /\ conn[c].run \in Runs /\ StreamUnchanged
         /\ Changes(c) /\ conn'[c].run = conn[c].run /\ conn'[c].slow = conn[c].slow
         /\ conn'[c].got = conn[c].got \o GetEvents(conn[c].run, LastSeq(conn[c].got))
         /\ \/ conn'[c].state = AfterCheck(conn[c].run)
            \/ conn'[c].state = "sending" /\ conn[c].slow
<1> DEFINE r == conn[c].run
           fresh == GetEvents(r, LastSeq(conn[c].got))
<1>1. proc = "up" /\ script = <<>> /\ r \in Runs /\ StreamUnchanged
  BY DEF PollStream, LoopIdle, ConnInv
<1>2. fresh \in Seq(Event)
  BY <1>1, FetchedType, LastSeqType, ConnectionType
<1> DEFINE more == conn[c].got \o fresh
<1>3. more \in Seq(Event)
  BY <1>2, ConnectionType, ConcatProperties
<1>4. PICK after \in {AfterCheck(r)} \cup
                     (IF conn[c].slow /\ fresh # <<>> THEN {"sending"} ELSE {}) :
        conn' = [conn EXCEPT ![c].got = @ \o fresh, ![c].state = after]
  BY DEF PollStream
<1>5. after \in {"done", "polling", "sending"} /\ conn \in [Clients -> Connection]
  BY <1>4 DEF AfterCheck, ConnInv, StreamTypeOK, Connection
<1>6. after = AfterCheck(r) \/ (after = "sending" /\ conn[c].slow)
  BY <1>4
<1>7. conn' = [conn EXCEPT ![c].got = more, ![c].state = after]
  BY <1>4
<1> HIDE DEF more
<1>8. /\ Changes(c) /\ conn'[c].run = conn[c].run /\ conn'[c].slow = conn[c].slow
      /\ conn'[c].got = more /\ conn'[c].state = after
  BY <1>3, <1>5, <1>7 DEF Changes, Connection
<1> HIDE DEF fresh
<1> QED BY <1>1, <1>6, <1>8 DEF more, fresh

(* A check of the status, or a close.                                      *)
LEMMA CheckIsChange ==
  ASSUME ConnInv, NEW c \in Clients, CheckStream(c) \/ CloseStream(c)
  PROVE  /\ proc = "up" /\ script = <<>> /\ conn[c].run \in Runs /\ StreamUnchanged
         /\ Changes(c) /\ conn'[c].run = conn[c].run /\ conn'[c].slow = conn[c].slow
         /\ conn'[c].got = conn[c].got
         /\ \/ conn'[c].state \in {"off", "polling"}
            \/ conn'[c].state = AfterCheck(conn[c].run) /\ conn[c].state = "sending"
<1>1. /\ proc = "up" /\ script = <<>> /\ conn[c].run \in Runs /\ StreamUnchanged
      /\ conn \in [Clients -> Connection]
  BY DEF CheckStream, CloseStream, LoopIdle, ConnInv, StreamTypeOK, Connection
<1>2. AfterCheck(conn[c].run) \in {"done", "polling"}
  BY DEF AfterCheck
<1>3. PICK s \in {"off", "done", "polling"} :
        /\ conn' = [conn EXCEPT ![c].state = s]
        /\ \/ s \in {"off", "polling"}
           \/ s = AfterCheck(conn[c].run) /\ conn[c].state = "sending"
  BY <1>2 DEF CheckStream, CloseStream
<1>4. /\ Changes(c) /\ conn'[c].run = conn[c].run /\ conn'[c].slow = conn[c].slow
      /\ conn'[c].got = conn[c].got /\ conn'[c].state = s
  BY <1>1, <1>3 DEF Changes, Connection
<1> QED BY <1>1, <1>3, <1>4

LEMMA BrokenType ==
  ASSUME ConnInv
  PROVE  /\ Broken \in [Clients -> Connection]
         /\ \A c \in Clients :
              /\ Broken[c].run = conn[c].run /\ Broken[c].got = conn[c].got
              /\ Broken[c].slow = conn[c].slow
              /\ Broken[c].state = IF conn[c].state = "done" THEN "done" ELSE "off"
<1>1. ASSUME NEW c \in Clients
      PROVE  /\ [conn[c] EXCEPT !.state = IF @ = "done" THEN @ ELSE "off"] \in Connection
             /\ Broken[c].run = conn[c].run /\ Broken[c].got = conn[c].got
             /\ Broken[c].slow = conn[c].slow
             /\ Broken[c].state = IF conn[c].state = "done" THEN "done" ELSE "off"
    BY ConnectionType DEF Connection, Broken
<1> QED BY <1>1 DEF Broken

(* What the other steps do to the connections.                             *)
LEMMA OthersOnConn ==
  ASSUME \/ Perform \/ \E r \in Runs : CreateRun(r) \/ CancelRun(r) \/ RunTask(r)
         \/ Crash \/ TornCrash \/ Shutdown \/ ShutdownEnds \/ Restart \/ UNCHANGED vars
  PROVE  conn' = conn \/ conn' = Broken
<1>1. CASE Perform \/ \E r \in Runs : CreateRun(r) \/ CancelRun(r) \/ RunTask(r)
  BY <1>1 DEF Perform, PerformEmit, PerformSave, PerformAnswer, CreateRun, CancelRun, RunTask,
              StartStub, WakeStub, StartAgent, FactoryRaises, PlanReturns, ExecutePasses,
              ExecuteFails, SessionRaises, TakeCancellation, RunSegment
<1>2. CASE Crash \/ TornCrash \/ Shutdown \/ ShutdownEnds \/ Restart \/ UNCHANGED vars
  BY <1>2 DEF Crash, TornCrash, Shutdown, ShutdownEnds, Restart, Die, vars
<1> QED BY <1>1, <1>2

LEMMA NextKeepsConn ==
  ASSUME LogInv, ConnInv, [Next]_vars
  PROVE  ConnInv'
<1>1. ASSUME NEW c \in Clients, NEW r \in Runs, OpenStream(c, r)
      PROVE  ConnInv'
  BY <1>1, OpenKeepsConn
<1>2. ASSUME NEW c \in Clients, PollStream(c)
      PROVE  ConnInv'
  BY <1>2, PollIsChange, OneConnection
<1>3. ASSUME NEW c \in Clients, CheckStream(c) \/ CloseStream(c)
      PROVE  ConnInv'
  BY <1>3, CheckIsChange, OneConnection
<1>4. ASSUME conn' = conn \/ conn' = Broken
      PROVE  ConnInv'
  <2>1. CASE conn' = conn
    BY <2>1 DEF ConnInv, StreamTypeOK
  <2>2. CASE conn' = Broken
    <3>1. StreamTypeOK'
      BY <2>2, BrokenType DEF StreamTypeOK, Connection
    <3>2. \A c \in Clients : conn'[c].state # "off" => conn'[c].run \in Runs
      BY <2>2, BrokenType DEF ConnInv
    <3> QED BY <3>1, <3>2 DEF ConnInv
  <2> QED BY <1>4, <2>1, <2>2
<1> QED BY <1>1, <1>2, <1>3, <1>4, OthersOnConn DEF Next

LEMMA ConnInvHolds == Spec => [](LogInv /\ ConnInv)
<1>1. Init => LogInv /\ ConnInv
  <2>1. NoConn \in Connection /\ NoConn.state = "off"
    BY EmptySeq DEF NoConn, Connection
  <2>2. Init => ConnInv
    BY <2>1 DEF Init, ConnInv, StreamTypeOK, Connection
  <2> QED BY <2>2, InitEstablishesLogInv
<1>2. LogInv /\ ConnInv /\ [Next]_vars => LogInv' /\ ConnInv'
  BY NextKeepsTypes, NextKeepsOrder, NextKeepsConn DEF LogInv, TypeInv, SeqInv
<1> QED BY <1>1, <1>2, PTL DEF Spec

(* The whole state is well typed, the clients' connections included: a     *)
(* stream that is open is about a run, and whatever it fetches from the    *)
(* log are events.                                                         *)
THEOREM CellTypesHold == Spec => []TypeOK
<1>1. LogInv /\ ConnInv => TypeOK
  BY DEF LogInv, ConnInv, TypeOK
<1> QED BY <1>1, ConnInvHolds, PTL

-----------------------------------------------------------------------------
(* What a client has received.                                             *)

(* The log of a run as the cell knows it, or would reload it.              *)
LogOf(r) == IF proc = "down" THEN file[r] ELSE events[r]
Begins(s, log) == Len(s) <= Len(log) /\ \A i \in 1 .. Len(s) : s[i] = log[i]

(* A client has a beginning of the log.  A stream that the cell ended is   *)
(* about a run that is over on the disk, so that nothing can be added, and *)
(* it has delivered the log unless the connection was slow.                *)
GotInv ==
  \A c \in Clients :
    /\ conn[c].run \in Runs => Begins(conn[c].got, LogOf(conn[c].run))
    /\ conn[c].state = "sending" => conn[c].slow
    /\ conn[c].state = "done" =>
         /\ disk[conn[c].run].status \in Terminal
         /\ ~conn[c].slow => conn[c].got = LogOf(conn[c].run)

(* GotInv of client c after a step.                                        *)
LogAfter(r) == IF proc' = "down" THEN file'[r] ELSE events'[r]
ClientKeeps(c) ==
  /\ conn'[c].run \in Runs => Begins(conn'[c].got, LogAfter(conn'[c].run))
  /\ conn'[c].state = "sending" => conn'[c].slow
  /\ conn'[c].state = "done" =>
       /\ disk'[conn'[c].run].status \in Terminal
       /\ ~conn'[c].slow => conn'[c].got = LogAfter(conn'[c].run)

LEMMA BeginsIsPrefix ==
  ASSUME NEW s \in Seq(Event), NEW log \in Seq(Event), Begins(s, log)
  PROVE  Len(s) <= Len(log) /\ s = SubSeq(log, 1, Len(s))
<1>1. Len(s) \in Nat /\ Len(log) \in Nat /\ Len(s) <= Len(log)
  BY LenProperties DEF Begins
<1>2. /\ SubSeq(log, 1, Len(s)) \in Seq(Event)
      /\ Len(SubSeq(log, 1, Len(s))) = Len(s)
      /\ \A i \in 1 .. Len(s) : SubSeq(log, 1, Len(s))[i] = log[i]
  <2>1. 1 \in 1 .. Len(log) + 1 /\ Len(s) \in (1 - 1) .. Len(log)
    BY <1>1
  <2> QED BY <1>1, <2>1, SubSeqProperties
<1> HIDE DEF Begins
<1>3. \A i \in 1 .. Len(s) : s[i] = SubSeq(log, 1, Len(s))[i]
  BY <1>2 DEF Begins
<1> QED BY <1>1, <1>2, <1>3, SeqEqual

(* A longer log has the same beginnings.                                   *)
LEMMA BeginsLonger ==
  ASSUME NEW s \in Seq(Event), NEW t \in Seq(Event), NEW log \in Seq(Event),
         Begins(s, t), Begins(t, log)
  PROVE  Begins(s, log)
<1>1. Len(s) \in Nat /\ Len(t) \in Nat /\ Len(log) \in Nat
  BY LenProperties
<1>2. 1 .. Len(s) \subseteq 1 .. Len(t)
  BY <1>1 DEF Begins
<1> QED BY <1>1, <1>2 DEF Begins

LEMMA BeginsItself ==
  ASSUME NEW s \in Seq(Event)
  PROVE  Begins(s, s)
BY LenProperties DEF Begins

LEMMA BeginsAppended ==
  ASSUME NEW s \in Seq(Event), NEW e \in Event
  PROVE  Begins(s, s) /\ Begins(s, Append(s, e))
BY AppendProperties, LenProperties DEF Begins

(* From a log without gaps, a poll fetches all that the client lacks.      *)
LEMMA PollFetchesRest ==
  ASSUME NEW s \in Seq(Event), GapFree(s), NEW g \in Seq(Event), Begins(g, s)
  PROVE  g \o EventsAfter(s, LastSeq(g)) = s
<1>1. Len(s) \in Nat /\ Len(g) \in Nat /\ Len(g) <= Len(s)
  BY LenProperties DEF Begins
<1>2. LastSeq(g) = Len(g)
  <2>1. DOMAIN s = 1 .. Len(s) /\ DOMAIN g = 1 .. Len(g)
    BY LenProperties
  <2>2. GapFree(g)
    BY <1>1, <2>1 DEF GapFree, Begins
  <2> QED BY <2>2, LastSeqType
<1> DEFINE rest == EventsAfter(s, Len(g))
<1>3. /\ rest \in Seq(Event) /\ Len(rest) = Len(s) - Len(g)
      /\ \A n \in 1 .. (Len(s) - Len(g)) : rest[n] = s[Len(g) + n]
  <2>1. Len(g) \in 0 .. Len(s) /\ Len(g) \in Nat
    BY <1>1
  <2>2. {i \in DOMAIN s : s[i].seq > Len(g)} = (Len(g) + 1) .. Len(s)
    BY <2>1, FreshInGapFree
  <2> QED BY <2>1, <2>2, EventsAfterPosition
<1> HIDE DEF rest
<1>4. /\ g \o rest \in Seq(Event) /\ Len(g \o rest) = Len(s)
      /\ \A i \in 1 .. Len(s) :
           (g \o rest)[i] = IF i <= Len(g) THEN g[i] ELSE rest[i - Len(g)]
  BY <1>1, <1>3, ConcatProperties
<1>5. ASSUME NEW i \in 1 .. Len(s)
      PROVE  (g \o rest)[i] = s[i]
  <2>1. CASE i <= Len(g)
    <3>1. i \in 1 .. Len(g)
      BY <1>1, <2>1
    <3> QED BY <1>4, <2>1, <3>1 DEF Begins
  <2>2. CASE ~(i <= Len(g))
    <3>1. i - Len(g) \in 1 .. (Len(s) - Len(g)) /\ Len(g) + (i - Len(g)) = i
      BY <1>1, <2>2
    <3>2. rest[i - Len(g)] = s[Len(g) + (i - Len(g))]
      BY <1>3, <3>1
    <3> QED BY <1>4, <2>2, <3>1, <3>2
  <2> QED BY <2>1, <2>2
<1>6. g \o rest = s
  BY <1>4, <1>5, SeqEqual
<1> QED BY <1>2, <1>6 DEF rest

(* A death leaves the log on the disk as it was in memory.                 *)
LEMMA DeathKeepsLog ==
  ASSUME FewTears, LogInv, GapInv, Crash \/ TornCrash \/ ShutdownEnds
  PROVE  /\ proc # "down" /\ proc' = "down"
         /\ \A r \in Runs : file[r] = events[r] /\ tail[r] = "whole"
<1>1. crashes \in Nat /\ MaxCrashes \in Nat
  BY CellAssumption DEF LogInv, RunTypeOK
<1>2. proc # "down" /\ proc' = "down"
  BY DEF Crash, TornCrash, ShutdownEnds, Die
<1>3. CASE Crash \/ TornCrash
  <2>1. crashes < MaxCrashes
    BY <1>3 DEF Crash, TornCrash
  <2>2. WholeSoFar
    BY <1>1, <2>1 DEF WholeSoFar, FewTears
  <2> QED BY <1>2, <2>2 DEF GapInv
<1>4. CASE ShutdownEnds
  <2>1. WholeSoFar
    BY <1>4 DEF ShutdownEnds, WholeSoFar
  <2> QED BY <1>2, <2>1 DEF GapInv
<1> QED BY <1>3, <1>4

LEMMA LogOfType ==
  ASSUME LogInv, NEW r \in Runs
  PROVE  LogOf(r) \in Seq(Event)
BY DEF LogInv, RunTypeOK, LogOf

(* A step adds to the log of a run or leaves it alone, deaths and restarts *)
(* included.                                                               *)
LEMMA LogGrows ==
  ASSUME FewTears, LogInv, GapInv, [Next]_vars, NEW r \in Runs
  PROVE  Begins(LogOf(r), LogOf(r)')
<1>0. /\ events[r] \in Seq(Event) /\ file[r] \in Seq(Event) /\ LogOf(r) \in Seq(Event)
      /\ events \in [Runs -> Seq(Event)] /\ file \in [Runs -> Seq(Event)]
  BY LogOfType DEF LogInv, RunTypeOK
<1>1. ASSUME UNCHANGED <<proc, events, file>>
      PROVE  Begins(LogOf(r), LogOf(r)')
  <2>1. LogOf(r)' = LogOf(r)
    BY <1>1 DEF LogOf
  <2> QED BY <1>0, <2>1, BeginsItself
<1>e. ASSUME script # <<>>, Head(script).do = "emit"
      PROVE  Head(script).run \in Runs /\ NextEvent(Head(script)) \in Event
  <2>1. TypeInv
    BY DEF LogInv, TypeInv
  <2>2. Head(script) \in Effect /\ Head(script).run \in Runs
    BY <1>e, <2>1, NextEffect
  <2>3. Head(script).what \in EventType /\ Head(script).phase \in Phase
    BY <1>e, <2>2 DEF Effect
  <2> QED BY <2>2, <2>3 DEF NextEvent, Event, LogInv, RunTypeOK
<1>2. CASE PerformEmit
  <2> DEFINE o == Head(script)
  <2>1. /\ proc # "down" /\ proc' = proc /\ script # <<>> /\ o.do = "emit"
        /\ events' = [events EXCEPT ![o.run] = Append(@, NextEvent(o))]
    BY <1>2 DEF PerformEmit, procVars
  <2>2. o.run \in Runs /\ NextEvent(o) \in Event
    BY <1>e, <2>1
  <2> HIDE DEF o
  <2>3. events'[r] = events[r] \/ events'[r] = Append(events[r], NextEvent(o))
    BY <1>0, <2>1
  <2>4. LogOf(r) = events[r] /\ LogOf(r)' = events'[r]
    BY <2>1 DEF LogOf
  <2> QED BY <1>0, <2>2, <2>3, <2>4, BeginsAppended
<1>3. CASE PerformSave \/ PerformAnswer
  BY <1>1, <1>3 DEF PerformSave, PerformAnswer, procVars, logVars
<1>4. ASSUME NEW q \in Runs, CreateRun(q) \/ CancelRun(q) \/ RunTask(q)
      PROVE  Begins(LogOf(r), LogOf(r)')
  <2>1. UNCHANGED <<proc, events, file>>
    BY <1>4 DEF CreateRun, CancelRun, RunTask, StartStub, WakeStub, StartAgent, FactoryRaises,
                PlanReturns, ExecutePasses, ExecuteFails, SessionRaises, TakeCancellation,
                RunSegment, procVars, logVars
  <2> QED BY <1>1, <2>1
<1>5. ASSUME NEW c \in Clients,
             \/ \E q \in Runs : OpenStream(c, q)
             \/ PollStream(c) \/ CheckStream(c) \/ CloseStream(c)
      PROVE  Begins(LogOf(r), LogOf(r)')
  <2>1. UNCHANGED <<proc, events, file>>
    BY <1>5 DEF OpenStream, PollStream, CheckStream, CloseStream, StreamUnchanged, procVars, logVars
  <2> QED BY <1>1, <2>1
<1>6. CASE Crash \/ ShutdownEnds
  <2>1. /\ proc # "down" /\ proc' = "down" /\ file[r] = events[r] /\ file' = file
    BY <1>6, DeathKeepsLog DEF Crash, ShutdownEnds, Die
  <2>2. LogOf(r) = events[r] /\ LogOf(r)' = events[r]
    BY <2>1 DEF LogOf
  <2> QED BY <1>0, <2>2, BeginsItself
<1>7. CASE TornCrash
  <2> DEFINE o == Head(script)
  <2>1. PICK t \in {"fragment", "unterminated"} :
          Die([file EXCEPT ![o.run] = IF tail[o.run] = "whole" /\ t = "fragment" THEN @
                                  ELSE LinesAfter(@, tail[o.run], NextEvent(o))],
              [tail EXCEPT ![o.run] = IF tail[o.run] = "whole" THEN t ELSE "fragment"],
              Broken)
    BY <1>7 DEF TornCrash
  <2>2. /\ proc # "down" /\ proc' = "down" /\ file[r] = events[r] /\ tail[r] = "whole"
        /\ script # <<>> /\ o.do = "emit"
    BY <1>7, DeathKeepsLog DEF TornCrash
  <2>3. o.run \in Runs /\ NextEvent(o) \in Event
    BY <1>e, <2>2
  <2> HIDE DEF o
  <2>4. file'[r] = file[r] \/ file'[r] = Append(file[r], NextEvent(o))
    BY <1>0, <2>1, <2>2 DEF Die, LinesAfter
  <2>5. LogOf(r) = events[r] /\ LogOf(r)' = file'[r]
    BY <2>2 DEF LogOf
  <2> QED BY <1>0, <2>2, <2>3, <2>4, <2>5, BeginsAppended
<1>8. CASE Shutdown
  <2>1. /\ proc # "down" /\ proc' # "down" /\ events' = events
    BY <1>8 DEF Shutdown, LoopIdle, logVars
  <2>2. LogOf(r) = events[r] /\ LogOf(r)' = events[r]
    BY <2>1 DEF LogOf
  <2> QED BY <1>0, <2>2, BeginsItself
<1>9. CASE Restart
  <2>1. /\ proc = "down" /\ proc' = "up" /\ events' = file
    BY <1>9 DEF Restart
  <2>2. LogOf(r) = file[r] /\ LogOf(r)' = file[r]
    BY <2>1 DEF LogOf
  <2> QED BY <1>0, <2>2, BeginsItself
<1>10. CASE UNCHANGED vars
  BY <1>1, <1>10 DEF vars
<1> QED
  BY <1>2, <1>3, <1>4, <1>5, <1>6, <1>7, <1>8, <1>9, <1>10 DEF Next, Perform

(* The log of a run that is over on the disk stays as it is, and the run   *)
(* stays over.                                                             *)
LEMMA EndedStaysEnded ==
  ASSUME FewTears, LogInv, LifeInv, GapInv, [Next]_vars,
         NEW r \in Runs, disk[r].status \in Terminal
  PROVE  LogOf(r)' = LogOf(r) /\ disk'[r].status \in Terminal
<1>1. disk'[r].status \in Terminal
  <2>1. [Lifecycle!Next]_(Lifecycle!vars)
    BY NextRefines
  <2> DEFINE status == [q \in Runs |-> disk[q].status]
  <2>2. CASE status' = status
    <3>1. status'[r] = status[r]
      BY <2>2
    <3> QED BY <3>1
  <2>3. ASSUME NEW q \in Runs, NEW s, Lifecycle!Write(q, s),
               q = r => s \in Terminal
        PROVE  disk'[r].status \in Terminal
    <3>1. PICK requeued \in SUBSET {x \in Runs : status[x] = "running"} :
            status' = [x \in Runs |-> IF x = q THEN s
                                      ELSE IF x \in requeued THEN "queued"
                                      ELSE status[x]]
      BY <2>3 DEF Lifecycle!Write
    <3>2. status'[r] = IF r = q THEN s ELSE status[r]
      BY <3>1 DEF Terminal
    <3> QED BY <2>3, <3>2
  <2>4. CASE Lifecycle!Next
    <3>1. PICK q \in Runs : Lifecycle!Create(q) \/ Lifecycle!Start(q) \/ Lifecycle!Finish(q)
                            \/ Lifecycle!Cancel(q) \/ Lifecycle!Tell(q)
      BY <2>4 DEF Lifecycle!Next
    <3>2. CASE Lifecycle!Create(q) \/ Lifecycle!Start(q)
      BY <2>3, <3>2 DEF Lifecycle!Create, Lifecycle!Start, Terminal
    <3>3. CASE Lifecycle!Finish(q)
      BY <2>3, <3>3 DEF Lifecycle!Finish, Lifecycle!Terminal, Terminal
    <3>4. CASE Lifecycle!Cancel(q)
      BY <2>3, <3>4 DEF Lifecycle!Cancel, Terminal
    <3>5. CASE Lifecycle!Tell(q)
      BY <2>2, <3>5 DEF Lifecycle!Tell
    <3> QED BY <3>1, <3>2, <3>3, <3>4, <3>5
  <2> QED BY <2>1, <2>2, <2>4 DEF Lifecycle!vars
<1>2. file'[r] = file[r] /\ (proc # "down" /\ proc' # "down" => events'[r] = events[r])
  BY StepKeepsLogOfEnded
<1>3. CASE proc # "down" /\ proc' = "down"
  <2>1. Crash \/ TornCrash \/ ShutdownEnds
    BY <1>3 DEF Next, Perform, PerformEmit, PerformSave, PerformAnswer, CreateRun, CancelRun,
                RunTask, StartStub, WakeStub, StartAgent, FactoryRaises, PlanReturns,
                ExecutePasses, ExecuteFails, SessionRaises, TakeCancellation, RunSegment,
                OpenStream, PollStream, CheckStream, CloseStream, StreamUnchanged,
                Shutdown, Restart, procVars, vars
  <2>2. file[r] = events[r]
    BY <2>1, DeathKeepsLog
  <2> QED BY <1>1, <1>2, <1>3, <2>2 DEF LogOf
<1>4. CASE proc = "down" /\ proc' # "down"
  <2>1. Restart
    BY <1>4 DEF Next, Perform, PerformEmit, PerformSave, PerformAnswer, CreateRun, CancelRun,
                RunTask, StartStub, WakeStub, StartAgent, FactoryRaises, PlanReturns,
                ExecutePasses, ExecuteFails, SessionRaises, TakeCancellation, RunSegment,
                OpenStream, PollStream, CheckStream, CloseStream, StreamUnchanged, LoopIdle,
                Crash, TornCrash, Die, Shutdown, ShutdownEnds, procVars, vars
  <2>2. events' = file
    BY <2>1 DEF Restart
  <2> QED BY <1>1, <1>4, <2>2 DEF LogOf
<1> QED BY <1>1, <1>2, <1>3, <1>4 DEF LogOf

(* A connection that goes on, is cut or is checked keeps what it has got.  *)
LEMMA StepKeepsGot ==
  ASSUME FewTears, LogInv, LifeInv, GapInv, ConnInv, GotInv, [Next]_vars, NEW c \in Clients,
         conn'[c].run = conn[c].run, conn'[c].got = conn[c].got, conn'[c].slow = conn[c].slow,
         conn'[c].state \in {conn[c].state, "off", "polling"}
  PROVE  ClientKeeps(c)
<1> DEFINE r == conn[c].run
           g == conn[c].got
<1>1. g \in Seq(Event) /\ (r \in Runs => Begins(g, LogOf(r)))
  BY ConnectionType DEF GotInv
<1>2. ASSUME NEW q \in Runs, Begins(g, LogOf(q))
      PROVE  Begins(g, LogOf(q)')
  <2>1. LogOf(q) \in Seq(Event) /\ Begins(LogOf(q), LogOf(q)')
    BY LogOfType, LogGrows
  <2>2. LogOf(q)' \in Seq(Event)
    <3>1. LogInv'
      BY NextKeepsTypes, NextKeepsOrder DEF LogInv, TypeInv, SeqInv
    <3> QED BY <3>1 DEF LogInv, RunTypeOK, LogOf
  <2> QED BY <1>1, <1>2, <2>1, <2>2, BeginsLonger
<1>3. ASSUME NEW q \in Runs, q = conn[c].run, conn'[c].state = "done"
      PROVE  /\ disk'[q].status \in Terminal
             /\ ~conn[c].slow => g = LogOf(q)'
  <2>1. conn[c].state = "done" /\ disk[q].status \in Terminal /\ (~conn[c].slow => g = LogOf(q))
    BY <1>3 DEF GotInv
  <2>2. LogOf(q)' = LogOf(q) /\ disk'[q].status \in Terminal
    BY <2>1, EndedStaysEnded
  <2> QED BY <2>1, <2>2
<1>4. conn[c].state # "off" => r \in Runs
  BY DEF ConnInv
<1>5. conn'[c].state = "sending" => conn'[c].slow
  BY DEF GotInv
<1>6. ASSUME NEW q \in Runs, q = conn[c].run
      PROVE  Begins(g, LogOf(q)')
  BY <1>1, <1>2, <1>6
<1>7. \A q \in Runs : LogOf(q)' = LogAfter(q)
  BY DEF LogOf, LogAfter
<1>8. conn'[c].state # "off" => conn[c].state # "off" \/ conn'[c].state = "polling"
  OBVIOUS
<1> QED BY <1>3, <1>4, <1>5, <1>6, <1>7, <1>8 DEF ClientKeeps

(* A stream fetches: the client has the whole log, and the stream is ended *)
(* only when the run is over.                                              *)
LEMMA FetchKeepsGot ==
  ASSUME LogInv, LifeInv, ConnInv, GotInv, NEW c \in Clients, NEW q \in Runs,
         proc = "up", script = <<>>, StreamUnchanged,
         conn'[c].run = q, conn'[c].got \in Seq(Event),
         Begins(conn'[c].got, events[q]),
         \/ conn'[c].state \in {"opening", "polling", "off"}
         \/ conn'[c].state = "sending" /\ conn'[c].slow
         \/ /\ conn'[c].state = AfterCheck(q)
            /\ conn'[c].slow \/ conn'[c].got = events[q]
  PROVE  ClientKeeps(c)
<1>1. UNCHANGED <<proc, events, file, disk>>
  BY DEF StreamUnchanged, procVars, logVars, storeVars
<1>2. \A x \in Runs : LogAfter(x) = events[x]
  BY <1>1 DEF LogAfter
<1>3. mem[q].status \in Terminal => disk[q].status \in Terminal
  BY DEF LifeInv, MemOnDisk, Terminal
<1>4. AfterCheck(q) = IF mem[q].status \in Terminal THEN "done" ELSE "polling"
  BY DEF AfterCheck
<1>5. conn'[c].state = "done" => disk'[q].status \in Terminal
  BY <1>1, <1>3, <1>4
<1>6. conn'[c].state = "done" /\ ~conn'[c].slow => conn'[c].got = events[q]
  OBVIOUS
<1>7. conn'[c].state = "sending" => conn'[c].slow
  BY <1>4
<1> QED BY <1>2, <1>5, <1>6, <1>7 DEF ClientKeeps

LEMMA NextKeepsGot ==
  ASSUME FewTears, LogInv, LifeInv, GapInv, ConnInv, GotInv, [Next]_vars
  PROVE  GotInv'
<1>1. SUFFICES ASSUME NEW c \in Clients PROVE ClientKeeps(c)
  BY DEF GotInv, ClientKeeps, LogOf, LogAfter
<1>2. ASSUME conn'[c] = conn[c]
      PROVE  ClientKeeps(c)
  BY <1>2, StepKeepsGot
<1>3. ASSUME NEW q \in Runs
      PROVE  events[q] \in Seq(Event) /\ GapFree(events[q])
  BY DEF LogInv, RunTypeOK, GapInv
<1>4. ASSUME NEW d \in Clients, NEW q \in Runs, OpenStream(d, q)
      PROVE  ClientKeeps(c)
  <2>1. PICK slow \in {FALSE, SlowClients}, state \in {"polling", "opening"} :
          conn' = [conn EXCEPT ![d] = [run |-> q, state |-> state, slow |-> slow,
                                       got |-> GetEvents(q, 0)]]
    BY <1>4 DEF OpenStream
  <2>2. CASE d # c
    <3>1. conn'[c] = conn[c]
      BY <2>1, <2>2, ConnectionType
    <3> QED BY <1>2, <3>1
  <2>3. CASE d = c
    <3>1. /\ conn'[c].run = q /\ conn'[c].state \in {"polling", "opening"}
          /\ conn'[c].got = GetEvents(q, 0)
      BY <2>1, <2>3, ConnectionType
    <3>2. GetEvents(q, 0) = events[q]
      <4>1. <<>> \in Seq(Event) /\ Begins(<<>>, events[q]) /\ LastSeq(<<>>) = 0
        BY <1>3, EmptySeq, LenProperties DEF Begins, LastSeq
      <4>2. <<>> \o EventsAfter(events[q], 0) = events[q]
        BY <1>3, <4>1, PollFetchesRest
      <4>3. EventsAfter(events[q], 0) \in Seq(Event)
        BY FetchedType DEF GetEvents
      <4> QED BY <4>2, <4>3, ConcatEmptySeq DEF GetEvents
    <3>3. proc = "up" /\ script = <<>> /\ StreamUnchanged
      BY <1>4 DEF OpenStream, LoopIdle
    <3>4. Begins(conn'[c].got, events[q]) /\ conn'[c].got \in Seq(Event)
      BY <1>3, <3>1, <3>2, BeginsItself
    <3> QED BY <3>1, <3>3, <3>4, FetchKeepsGot
  <2> QED BY <2>2, <2>3
<1>5. ASSUME NEW d \in Clients, PollStream(d)
      PROVE  ClientKeeps(c)
  <2>1. /\ proc = "up" /\ script = <<>> /\ conn[d].run \in Runs /\ StreamUnchanged
        /\ Changes(d) /\ conn'[d].run = conn[d].run /\ conn'[d].slow = conn[d].slow
        /\ conn'[d].got = conn[d].got \o GetEvents(conn[d].run, LastSeq(conn[d].got))
        /\ \/ conn'[d].state = AfterCheck(conn[d].run)
           \/ conn'[d].state = "sending" /\ conn[d].slow
    BY <1>5, PollIsChange
  <2>2. CASE d # c
    <3>1. conn'[c] = conn[c]
      BY <2>1, <2>2 DEF Changes
    <3> QED BY <1>2, <3>1
  <2>3. CASE d = c
    <3>1. PICK q \in Runs : q = conn[c].run
      BY <2>1, <2>3
    <3>2. conn[c].got \in Seq(Event) /\ Begins(conn[c].got, events[q])
      BY <2>1, <3>1, ConnectionType DEF GotInv, LogOf
    <3>3. conn'[c].got = events[q]
      BY <1>3, <2>1, <2>3, <3>1, <3>2, PollFetchesRest DEF GetEvents
    <3>4. Begins(conn'[c].got, events[q]) /\ conn'[c].got \in Seq(Event)
      BY <1>3, <3>3, BeginsItself
    <3> QED BY <2>1, <2>3, <3>1, <3>3, <3>4, FetchKeepsGot
  <2> QED BY <2>2, <2>3
<1>6. ASSUME NEW d \in Clients, CheckStream(d) \/ CloseStream(d)
      PROVE  ClientKeeps(c)
  <2>1. /\ proc = "up" /\ script = <<>> /\ conn[d].run \in Runs /\ StreamUnchanged
        /\ Changes(d) /\ conn'[d].run = conn[d].run /\ conn'[d].slow = conn[d].slow
        /\ conn'[d].got = conn[d].got
        /\ \/ conn'[d].state \in {"off", "polling"}
           \/ conn'[d].state = AfterCheck(conn[d].run) /\ conn[d].state = "sending"
    BY <1>6, CheckIsChange
  <2>2. CASE d # c
    <3>1. conn'[c] = conn[c]
      BY <2>1, <2>2 DEF Changes
    <3> QED BY <1>2, <3>1
  <2>3. CASE d = c
    <3>1. PICK q \in Runs : q = conn[c].run
      BY <2>1, <2>3
    <3>2. conn[c].got \in Seq(Event) /\ Begins(conn[c].got, events[q])
      BY <2>1, <3>1, ConnectionType DEF GotInv, LogOf
    <3>3. conn[c].state = "sending" => conn[c].slow
      BY DEF GotInv
    <3> QED BY <2>1, <2>3, <3>1, <3>2, <3>3, FetchKeepsGot
  <2> QED BY <2>2, <2>3
<1>7. ASSUME conn' = conn \/ conn' = Broken
      PROVE  ClientKeeps(c)
  <2>1. CASE conn' = conn
    BY <1>2, <2>1
  <2>2. CASE conn' = Broken
    <3>1. /\ conn'[c].run = conn[c].run /\ conn'[c].got = conn[c].got
          /\ conn'[c].slow = conn[c].slow /\ conn'[c].state \in {conn[c].state, "off"}
      BY <2>2, BrokenType
    <3> QED BY <3>1, StepKeepsGot
  <2> QED BY <1>7, <2>1, <2>2
<1> QED BY <1>4, <1>5, <1>6, <1>7, OthersOnConn DEF Next

LEMMA GotInvHolds ==
  ASSUME FewTears
  PROVE  Spec => [](LogInv /\ ConnInv /\ GotInv)
<1>1. Init => GotInv
  <2>1. SUFFICES ASSUME Init PROVE GotInv
    OBVIOUS
  <2>2. \A r \in Runs : LogOf(r) = <<>>
    BY <2>1 DEF Init, LogOf
  <2>3. Begins(<<>>, <<>>)
    BY EmptySeq, BeginsItself
  <2> QED BY <2>1, <2>2, <2>3 DEF Init, GotInv, NoConn
<1>2. LogInv /\ LifeInv /\ GapInv /\ ConnInv /\ GotInv /\ [Next]_vars => GotInv'
  BY NextKeepsGot
<1> QED BY <1>1, <1>2, LifeInvHolds, GapInvHolds, ConnInvHolds, PTL DEF Spec

(* The events a client has received are the first events of the run's log, *)
(* for any number of clients, reconnections, deaths and restarts of the    *)
(* cell -- as long as no line is torn, or at most one death tears one.     *)
(* (What a second death would reload has lost the glued lines, which a     *)
(* client may have seen.)                                                  *)
THEOREM ClientsSeeThePrefix ==
  ASSUME FewTears
  PROVE  Spec => []ClientSawPrefix
<1>1. LogInv /\ ConnInv /\ GotInv => ClientSawPrefix
  <2>1. SUFFICES ASSUME LogInv, ConnInv, GotInv, NEW c \in Clients,
                        proc = "up", conn[c].run # "none"
                 PROVE  /\ Len(conn[c].got) <= Len(events[conn[c].run])
                        /\ conn[c].got = SubSeq(events[conn[c].run], 1, Len(conn[c].got))
    BY DEF ClientSawPrefix
  <2>2. conn[c].run \in Runs /\ conn[c].got \in Seq(Event)
    BY <2>1, ConnectionType
  <2>3. events[conn[c].run] \in Seq(Event) /\ Begins(conn[c].got, events[conn[c].run])
    BY <2>1, <2>2 DEF GotInv, LogOf, LogInv, RunTypeOK
  <2> QED BY <2>2, <2>3, BeginsIsPrefix
<1> QED BY <1>1, GotInvHolds, PTL

(* A stream that the cell ended by itself has delivered the whole log of   *)
(* its run, which nothing adds to any more -- unless the connection was so *)
(* slow that the run went on between send and check -- under the same      *)
(* condition on torn lines.                                                *)
THEOREM EndedStreamsAreComplete ==
  ASSUME FewTears
  PROVE  Spec => []StreamComplete
<1>1. ConnInv /\ GotInv => StreamComplete
  BY DEF ConnInv, GotInv, LogOf, StreamComplete
<1> QED BY <1>1, GotInvHolds, PTL

-----------------------------------------------------------------------------
(* The phases of a stub run.                                               *)

IsStub(r) == disk[r].policy \in {"stub", "bad_hosts"}

(* A phase.started of at most phase n, and one for each phase.             *)
Announced(f, n) ==
  /\ \A i \in DOMAIN f : f[i].type = "phase.started" => f[i].phase <= n
  /\ \A i, j \in DOMAIN f : /\ f[i].type = "phase.started" /\ f[j].type = "phase.started"
                            /\ f[i].phase = f[j].phase
                            => i = j

(* The phases whose end is in lines that no later append can spoil: the    *)
(* last one counts only if its newline is there.                           *)
Completed(f, t) ==
  {p \in 1 .. NumPhases :
     \E i \in DOMAIN f : /\ f[i].type = "phase.completed" /\ f[i].phase = p
                         /\ i < Len(f) \/ t # "unterminated"}

(* How many of the first n phases are not among those of C.               *)
Lost(C, n) == Cardinality((1 .. n) \ C)

(* Of the first n phases, no more are missing than processes died.         *)
FewLost(r, n) == Lost(Completed(file[r], tail[r]), n) <= crashes

(* Effects none of which moves run r from phase k or ends a phase.         *)
Minor(o, r, k) ==
  o.run = r => /\ ~Emits(o, {"phase.started", "phase.completed"})
               /\ ~Saves(o, {"succeeded"})
               /\ o.do = "save" => o.phase = k
AllMinor(s, r, k) == \A i \in DOMAIN s : Minor(s[i], r, k)

(* What StubFrom makes of run r in phase k.                                *)
Onward(r, k) ==
  IF k < NumPhases
  THEN <<SaveOf(r, "running", k + 1), EmitOf(r, "phase.started", k + 1)>>
  ELSE <<EmitOf(r, "run.completed", NumPhases), SaveOf(r, "succeeded", NumPhases)>>

(* The script in the middle of a segment of a stub run that is in phase k, *)
(* and what is true of its log there.                                      *)
Starting(r, k) ==
  /\ \/ script = <<SaveOf(r, "running", k), EmitOf(r, "run.started", 0)>> \o Onward(r, k)
     \/ script = <<EmitOf(r, "run.started", 0)>> \o Onward(r, k)
  /\ FewLost(r, k)
Advancing(r, k) == script = Onward(r, k) /\ tail[r] = "whole" /\ FewLost(r, k)
Announcing(r, k) ==
  /\ script = <<EmitOf(r, "phase.started", k)>>
  /\ k > 0 /\ tail[r] = "whole" /\ Announced(file[r], k - 1)
Finishing(r, k) ==
  /\ script = <<SaveOf(r, "succeeded", k)>>
  /\ k = NumPhases /\ tail[r] = "whole" /\ FewLost(r, k)
Completing(r, k) ==
  /\ script = <<EmitOf(r, "phase.completed", k)>> \o Onward(r, k)
  /\ k > 0 /\ tail[r] = "whole"
Resting(r) ==
  /\ AllMinor(script, r, disk[r].phase)
  /\ task[r] = "sleep" => tail[r] = "whole" /\ disk[r].phase > 0

Middle(r, k) ==
  \/ Starting(r, k) \/ Advancing(r, k) \/ Announcing(r, k)
  \/ Finishing(r, k) \/ Completing(r, k)

PhaseInv(r) ==
  LET k == disk[r].phase IN
  /\ Announced(file[r], k)
  /\ FewLost(r, k - 1)
  /\ proc # "up" \/ task[r] = "ready" \/ disk[r].status = "succeeded" => FewLost(r, k)
  /\ disk[r].status = "succeeded" => k = NumPhases
  /\ task[r] \notin {"plan", "execute"}
  /\ Resting(r) \/ (proc = "up" /\ task[r] \in {"sleep", "done"} /\ Middle(r, k))

(* Memory and disk agree on the policy and the phase, and only memory      *)
(* knows that a run is queued again; a run that is not stored has no log.  *)
PhaseOnDisk ==
  \A r \in Runs :
    /\ proc # "down" => /\ mem[r].policy = disk[r].policy /\ mem[r].phase = disk[r].phase
                        /\ mem[r].status = "succeeded" => disk[r].status = "succeeded"
    /\ disk[r].policy = "none" => file[r] = <<>>

StubInv == PhaseOnDisk /\ \A r \in Runs : IsStub(r) => PhaseInv(r)

-----------------------------------------------------------------------------
(* What an append does to the phases that a log tells of.                  *)

LEMMA LostIsNumber ==
  ASSUME NEW C, NEW n \in Int
  PROVE  IsFiniteSet((1 .. n) \ C) /\ Lost(C, n) \in Nat /\ (n <= 0 => Lost(C, n) = 0)
<1>1. IsFiniteSet(1 .. n) /\ (1 .. n) \ C \in SUBSET (1 .. n)
  BY FS_Interval
<1>2. IsFiniteSet((1 .. n) \ C)
  BY <1>1, FS_Subset
<1>3. n <= 0 => (1 .. n) \ C = {}
  OBVIOUS
<1> QED
  BY <1>2, <1>3, FS_CardinalityType, FS_EmptySet DEF Lost

LEMMA LostFewer ==
  ASSUME NEW C, NEW D, C \subseteq D, NEW m \in Int, NEW n \in Int, m <= n
  PROVE  Lost(D, m) <= Lost(C, n)
<1>1. (1 .. m) \ D \in SUBSET ((1 .. n) \ C)
  OBVIOUS
<1> QED
  BY <1>1, LostIsNumber, FS_Subset DEF Lost

LEMMA LostOneMore ==
  ASSUME NEW C, NEW n \in Int
  PROVE  /\ Lost(C, n) <= Lost(C, n - 1) + 1
         /\ n \in C => Lost(C, n) <= Lost(C, n - 1)
<1> DEFINE S == (1 .. (n - 1)) \ C
<1>1. IsFiniteSet(S) /\ Cardinality(S) \in Nat
  <2>1. n - 1 \in Int
    OBVIOUS
  <2>2. IsFiniteSet((1 .. (n - 1)) \ C) /\ Lost(C, n - 1) \in Nat
    BY <2>1, LostIsNumber
  <2> QED BY <2>2 DEF Lost
<1>2. /\ (1 .. n) \ C \in SUBSET (S \cup {n})
      /\ n \in C => (1 .. n) \ C \in SUBSET S
  OBVIOUS
<1>3. Lost(C, n - 1) = Cardinality(S)
  BY DEF Lost
<1> HIDE DEF S
<1>4. IsFiniteSet(S \cup {n}) /\ Cardinality(S \cup {n}) <= Cardinality(S) + 1
  BY <1>1, FS_AddElement
<1>5. Lost(C, n) <= Cardinality(S \cup {n})
  BY <1>2, <1>4, FS_Subset DEF Lost
<1>6. n \in C => Lost(C, n) <= Cardinality(S)
  BY <1>1, <1>2, FS_Subset DEF Lost
<1>7. Lost(C, n) \in Nat /\ Cardinality(S \cup {n}) \in Nat
  BY <1>4, LostIsNumber, FS_CardinalityType
<1> QED
  BY <1>1, <1>3, <1>4, <1>5, <1>6, <1>7

(* The lines after an append: those before it, but for one that is glued   *)
(* to the new one, and the new one if the last line was whole.             *)
LEMMA LinesAre ==
  ASSUME NEW f \in Seq(Event), NEW t \in LineEnd, NEW e \in Event
  PROVE  LET g == LinesAfter(f, t, e) IN
         /\ Len(f) \in Nat /\ DOMAIN f = 1 .. Len(f)
         /\ g \in Seq(Event) /\ Len(g) \in Nat /\ DOMAIN g = 1 .. Len(g)
         /\ \A i \in 1 .. Len(g) : \/ i \in 1 .. Len(f) /\ g[i] = f[i]
                                   \/ t = "whole" /\ i = Len(f) + 1 /\ g[i] = e
         /\ \A i \in 1 .. Len(f) : i < Len(f) \/ t # "unterminated"
                                     => i \in 1 .. Len(g) /\ g[i] = f[i]
         /\ t = "whole" => Len(g) = Len(f) + 1 /\ g[Len(f) + 1] = e
<1> DEFINE g == LinesAfter(f, t, e)
<1>1. Len(f) \in Nat /\ DOMAIN f = 1 .. Len(f)
  BY LenProperties
<1>2. CASE t = "whole"
  <2>1. g = Append(f, e)
    BY <1>2 DEF LinesAfter
  <2>2. /\ Append(f, e) \in Seq(Event) /\ Len(Append(f, e)) = Len(f) + 1
        /\ \A i \in 1 .. Len(f) : Append(f, e)[i] = f[i]
        /\ Append(f, e)[Len(f) + 1] = e
    BY AppendProperties
  <2>3. DOMAIN Append(f, e) = 1 .. Len(Append(f, e))
    BY <2>2, LenProperties
  <2> HIDE DEF g
  <2>4. \A i \in 1 .. Len(g) : i \in 1 .. Len(f) \/ i = Len(f) + 1
    BY <1>1, <2>1, <2>2
  <2>5. \A i \in 1 .. Len(f) : i \in 1 .. Len(g)
    BY <1>1, <2>1, <2>2
  <2>6. Len(g) \in Nat
    BY <1>1, <2>1, <2>2
  <2> QED BY <1>1, <1>2, <2>1, <2>2, <2>3, <2>4, <2>5, <2>6 DEF g
<1>3. CASE t = "fragment"
  BY <1>1, <1>3 DEF LinesAfter
<1>4. CASE t = "unterminated"
  <2>1. g = SubSeq(f, 1, Len(f) - 1)
    BY <1>4 DEF LinesAfter
  <2>2. \A i \in 1 .. (Len(f) - 1) : f[i] \in Event
    BY <1>1, ElementOfSeq
  <2>3. /\ SubSeq(f, 1, Len(f) - 1) \in Seq(Event)
        /\ Len(SubSeq(f, 1, Len(f) - 1)) = IF 1 <= Len(f) - 1 THEN Len(f) - 1 ELSE 0
        /\ \A i \in 1 .. (Len(f) - 1) : SubSeq(f, 1, Len(f) - 1)[i] = f[i]
    BY <1>1, <2>2, SubSeqProperties
  <2>4. DOMAIN SubSeq(f, 1, Len(f) - 1) = 1 .. Len(SubSeq(f, 1, Len(f) - 1))
    BY <2>3, LenProperties
  <2> HIDE DEF g
  <2>5. Len(g) \in Nat /\ \A i \in 1 .. Len(g) : i \in 1 .. (Len(f) - 1) /\ i \in 1 .. Len(f)
    BY <1>1, <2>1, <2>3
  <2>6. \A i \in 1 .. Len(f) : i < Len(f) => i \in 1 .. Len(g) /\ i \in 1 .. (Len(f) - 1)
    BY <1>1, <2>1, <2>3
  <2> QED BY <1>1, <1>4, <2>1, <2>3, <2>4, <2>5, <2>6 DEF g
<1> QED BY <1>2, <1>3, <1>4 DEF LineEnd

(* What is known to be completed stays so, whatever becomes of the new     *)
(* line; the new line counts if the one before it was whole.               *)
LEMMA CompletedGrows ==
  ASSUME NEW f \in Seq(Event), NEW t \in LineEnd, NEW e \in Event
  PROVE  /\ Completed(f, t) \subseteq Completed(LinesAfter(f, t, e), "whole")
         /\ Completed(f, t) \subseteq Completed(LinesAfter(f, t, e), "fragment")
         /\ t = "whole" => Completed(f, t) \subseteq Completed(LinesAfter(f, t, e), "unterminated")
         /\ t = "whole" => Completed(f, t) \subseteq Completed(f, "fragment")
         /\ t = "whole" /\ e.type = "phase.completed" /\ e.phase \in 1 .. NumPhases
              => e.phase \in Completed(LinesAfter(f, t, e), "whole")
<1> DEFINE g == LinesAfter(f, t, e)
<1>1. /\ Len(f) \in Nat /\ DOMAIN f = 1 .. Len(f)
      /\ Len(g) \in Nat /\ DOMAIN g = 1 .. Len(g)
      /\ \A i \in 1 .. Len(f) : i < Len(f) \/ t # "unterminated"
                                  => i \in 1 .. Len(g) /\ g[i] = f[i]
      /\ t = "whole" => Len(g) = Len(f) + 1 /\ g[Len(f) + 1] = e
  BY LinesAre
<1> HIDE DEF g
<1>2. ASSUME NEW p \in Completed(f, t)
      PROVE  /\ p \in Completed(g, "whole") /\ p \in Completed(g, "fragment")
             /\ t = "whole" => p \in Completed(g, "unterminated") /\ p \in Completed(f, "fragment")
  <2>1. p \in 1 .. NumPhases
    BY DEF Completed
  <2>2. PICK i \in DOMAIN f : /\ f[i].type = "phase.completed" /\ f[i].phase = p
                              /\ i < Len(f) \/ t # "unterminated"
    BY DEF Completed
  <2>3. i \in DOMAIN g /\ g[i] = f[i]
    BY <1>1, <2>2
  <2>4. t = "whole" => i < Len(g)
    BY <1>1, <2>2
  <2> QED BY <2>1, <2>2, <2>3, <2>4 DEF Completed
<1>3. ASSUME t = "whole", e.type = "phase.completed", e.phase \in 1 .. NumPhases
      PROVE  e.phase \in Completed(g, "whole")
  <2>1. Len(f) + 1 \in DOMAIN g /\ g[Len(f) + 1] = e
    BY <1>1, <1>3
  <2> QED BY <1>3, <2>1 DEF Completed
<1> QED BY <1>2, <1>3 DEF g

(* The announced phases, when another event or the next phase is appended. *)
LEMMA AnnouncedGrows ==
  ASSUME NEW f \in Seq(Event), NEW t \in LineEnd, NEW e \in Event, NEW n \in Int,
         \/ Announced(f, n) /\ e.type # "phase.started"
         \/ Announced(f, n - 1) /\ e.type = "phase.started" /\ e.phase = n
  PROVE  Announced(f, n) /\ Announced(LinesAfter(f, t, e), n)
<1> DEFINE g == LinesAfter(f, t, e)
<1>1. /\ Len(f) \in Nat /\ DOMAIN f = 1 .. Len(f)
      /\ Len(g) \in Nat /\ DOMAIN g = 1 .. Len(g)
      /\ \A i \in 1 .. Len(g) : \/ i \in 1 .. Len(f) /\ g[i] = f[i]
                                \/ t = "whole" /\ i = Len(f) + 1 /\ g[i] = e
  BY LinesAre
<1>2. \A i \in DOMAIN f : f[i].phase \in Int
  <2>1. \A i \in DOMAIN f : f[i] \in Event
    BY <1>1, ElementOfSeq
  <2> QED BY <2>1, CellAssumption DEF Event, Phase
<1>3. Announced(f, n)
  <2>1. CASE Announced(f, n - 1)
    <3>1. \A i \in DOMAIN f : f[i].type = "phase.started" => f[i].phase <= n
      BY <1>2, <2>1 DEF Announced
    <3> QED BY <2>1, <3>1 DEF Announced
  <2> QED BY <2>1
<1> HIDE DEF g
<1>4. ASSUME NEW i \in DOMAIN g, g[i].type = "phase.started"
      PROVE  g[i].phase <= n
  <2>1. CASE i \in 1 .. Len(f) /\ g[i] = f[i]
    BY <1>1, <1>3, <1>4, <2>1 DEF Announced
  <2>2. CASE t = "whole" /\ i = Len(f) + 1 /\ g[i] = e
    BY <1>4, <2>2
  <2> QED BY <1>1, <2>1, <2>2
<1>5. ASSUME NEW i \in DOMAIN g, NEW j \in DOMAIN g,
             g[i].type = "phase.started", g[j].type = "phase.started", g[i].phase = g[j].phase
      PROVE  i = j
  <2>1. ASSUME NEW x \in DOMAIN g, g[x].type = "phase.started", x \notin 1 .. Len(f)
        PROVE  x = Len(f) + 1 /\ g[x].phase = n /\ Announced(f, n - 1)
    BY <1>1, <2>1
  <2>2. ASSUME NEW x \in DOMAIN g, g[x].type = "phase.started", x \in 1 .. Len(f),
               Announced(f, n - 1)
        PROVE  g[x].phase # n
    <3>1. g[x] = f[x] /\ f[x].phase <= n - 1 /\ f[x].phase \in Int
      BY <1>1, <1>2, <2>2 DEF Announced
    <3> QED BY <3>1
  <2>3. CASE i \in 1 .. Len(f) /\ j \in 1 .. Len(f)
    <3>1. g[i] = f[i] /\ g[j] = f[j]
      BY <1>1, <2>3
    <3> QED BY <1>1, <1>3, <1>5, <2>3, <3>1 DEF Announced
  <2> QED BY <1>5, <2>1, <2>2, <2>3
<1>6. Announced(g, n)
  BY <1>4, <1>5 DEF Announced
<1> QED BY <1>3, <1>6 DEF g

-----------------------------------------------------------------------------
(* Where in a segment of a stub run the script is.                         *)

LEMMA ConcatPairs ==
  ASSUME NEW S, NEW a \in S, NEW b \in S, NEW c \in S, NEW d \in S
  PROVE  <<a, b>> \o <<c, d>> = <<a, b, c, d>>
<1>1. <<a, b>> \in Seq(S) /\ <<c, d>> \in Seq(S)
  OBVIOUS
<1>2. /\ <<a, b>> \o <<c, d>> \in Seq(S) /\ Len(<<a, b>> \o <<c, d>>) = 4
      /\ \A i \in 1 .. 4 : (<<a, b>> \o <<c, d>>)[i] = <<a, b, c, d>>[i]
  BY <1>1, ConcatProperties
<1>3. <<a, b, c, d>> \in Seq(S) /\ Len(<<a, b, c, d>>) = 4
  OBVIOUS
<1> QED BY <1>2, <1>3, SeqEqual

LEMMA ConcatOne ==
  ASSUME NEW S, NEW a \in S, NEW c \in S, NEW d \in S
  PROVE  <<a>> \o <<c, d>> = <<a, c, d>>
<1>1. <<a>> \in Seq(S) /\ <<c, d>> \in Seq(S)
  OBVIOUS
<1>2. /\ <<a>> \o <<c, d>> \in Seq(S) /\ Len(<<a>> \o <<c, d>>) = 3
      /\ \A i \in 1 .. 3 : (<<a>> \o <<c, d>>)[i] = <<a, c, d>>[i]
  BY <1>1, ConcatProperties
<1>3. <<a, c, d>> \in Seq(S) /\ Len(<<a, c, d>>) = 3
  OBVIOUS
<1> QED BY <1>2, <1>3, SeqEqual

(* Onward is a pair, and effects before it come off one by one.            *)
LEMMA OnwardParts ==
  ASSUME NEW r \in Runs, NEW k \in Phase, NEW a \in EffectsOf(r), NEW b \in EffectsOf(r)
  PROVE  /\ \/ /\ k < NumPhases
               /\ Head(Onward(r, k)) = SaveOf(r, "running", k + 1)
               /\ Tail(Onward(r, k)) = <<EmitOf(r, "phase.started", k + 1)>>
            \/ /\ k = NumPhases
               /\ Head(Onward(r, k)) = EmitOf(r, "run.completed", NumPhases)
               /\ Tail(Onward(r, k)) = <<SaveOf(r, "succeeded", k)>>
         /\ Onward(r, k) # <<>>
         /\ <<a>> \o Onward(r, k) # <<>>
         /\ Head(<<a>> \o Onward(r, k)) = a /\ Tail(<<a>> \o Onward(r, k)) = Onward(r, k)
         /\ <<a, b>> \o Onward(r, k) # <<>>
         /\ Head(<<a, b>> \o Onward(r, k)) = a
         /\ Tail(<<a, b>> \o Onward(r, k)) = <<b>> \o Onward(r, k)
<1>1. k \in Nat /\ NumPhases \in Nat /\ k <= NumPhases /\ NumPhases \in Phase
  BY CellAssumption DEF Phase
<1>2. PICK c, d \in EffectsOf(r) : Onward(r, k) = <<c, d>>
  <2>1. CASE k < NumPhases
    <3>1. k + 1 \in Phase
      BY <1>1, <2>1 DEF Phase
    <3>2. /\ SaveOf(r, "running", k + 1) \in EffectsOf(r)
          /\ EmitOf(r, "phase.started", k + 1) \in EffectsOf(r)
      BY <3>1, EffectTypes DEF Status, EventType
    <3> QED BY <2>1, <3>2 DEF Onward
  <2>2. CASE ~(k < NumPhases)
    <3>2. /\ SaveOf(r, "succeeded", NumPhases) \in EffectsOf(r)
          /\ EmitOf(r, "run.completed", NumPhases) \in EffectsOf(r)
      BY <1>1, EffectTypes DEF Status, Terminal, EventType
    <3> QED BY <2>2, <3>2 DEF Onward
  <2> QED BY <2>1, <2>2
<1>3. <<a, b>> \o <<c, d>> = <<a, b, c, d>> /\ <<a>> \o <<c, d>> = <<a, c, d>>
      /\ <<b>> \o <<c, d>> = <<b, c, d>>
  <2> DEFINE S == EffectsOf(r)
  <2>1. a \in S /\ b \in S /\ c \in S /\ d \in S
    OBVIOUS
  <2> HIDE DEF S
  <2>2. <<a, b>> \o <<c, d>> = <<a, b, c, d>>
    BY <2>1, ConcatPairs
  <2>3. <<a>> \o <<c, d>> = <<a, c, d>>
    BY <2>1, ConcatOne
  <2>4. <<b>> \o <<c, d>> = <<b, c, d>>
    BY <2>1, ConcatOne
  <2> QED BY <2>2, <2>3, <2>4
<1>4. /\ <<a>> \o Onward(r, k) = <<a, c, d>> /\ <<a, b>> \o Onward(r, k) = <<a, b, c, d>>
      /\ <<b>> \o Onward(r, k) = <<b, c, d>>
  BY <1>2, <1>3
<1>5. \/ /\ k < NumPhases
         /\ Head(Onward(r, k)) = SaveOf(r, "running", k + 1)
         /\ Tail(Onward(r, k)) = <<EmitOf(r, "phase.started", k + 1)>>
      \/ /\ k = NumPhases
         /\ Head(Onward(r, k)) = EmitOf(r, "run.completed", NumPhases)
         /\ Tail(Onward(r, k)) = <<SaveOf(r, "succeeded", k)>>
  BY <1>1 DEF Onward
<1>6. /\ <<c, d>> # <<>> /\ <<a, c, d>> # <<>> /\ <<a, b, c, d>> # <<>>
      /\ Head(<<a, c, d>>) = a /\ Tail(<<a, c, d>>) = <<c, d>>
      /\ Head(<<a, b, c, d>>) = a /\ Tail(<<a, b, c, d>>) = <<b, c, d>>
  OBVIOUS
<1> QED
  BY <1>2, <1>4, <1>5, <1>6

(* The next effect of a segment and what is left of it.                    *)
LEMMA MiddleParts ==
  ASSUME NEW r \in Runs, NEW k \in Phase, Middle(r, k)
  PROVE  /\ script # <<>>
         /\ \/ /\ Starting(r, k)
               /\ Head(script) = SaveOf(r, "running", k)
               /\ Tail(script) = <<EmitOf(r, "run.started", 0)>> \o Onward(r, k)
            \/ /\ Starting(r, k)
               /\ Head(script) = EmitOf(r, "run.started", 0) /\ Tail(script) = Onward(r, k)
            \/ /\ Advancing(r, k) /\ k < NumPhases
               /\ Head(script) = SaveOf(r, "running", k + 1)
               /\ Tail(script) = <<EmitOf(r, "phase.started", k + 1)>>
            \/ /\ Advancing(r, k) /\ k = NumPhases
               /\ Head(script) = EmitOf(r, "run.completed", NumPhases)
               /\ Tail(script) = <<SaveOf(r, "succeeded", k)>>
            \/ /\ Announcing(r, k)
               /\ Head(script) = EmitOf(r, "phase.started", k) /\ Tail(script) = <<>>
            \/ /\ Finishing(r, k)
               /\ Head(script) = SaveOf(r, "succeeded", k) /\ Tail(script) = <<>>
            \/ /\ Completing(r, k)
               /\ Head(script) = EmitOf(r, "phase.completed", k) /\ Tail(script) = Onward(r, k)
<1>1. 0 \in Phase
  BY CellAssumption DEF Phase
<1>2. /\ SaveOf(r, "running", k) \in EffectsOf(r) /\ EmitOf(r, "run.started", 0) \in EffectsOf(r)
      /\ EmitOf(r, "phase.completed", k) \in EffectsOf(r)
  BY <1>1, EffectTypes DEF Status, EventType
<1>3. CASE Starting(r, k)
  <2> DEFINE a == SaveOf(r, "running", k)
             b == EmitOf(r, "run.started", 0)
  <2>1. /\ <<b>> \o Onward(r, k) # <<>>
        /\ Head(<<b>> \o Onward(r, k)) = b /\ Tail(<<b>> \o Onward(r, k)) = Onward(r, k)
        /\ <<a, b>> \o Onward(r, k) # <<>> /\ Head(<<a, b>> \o Onward(r, k)) = a
        /\ Tail(<<a, b>> \o Onward(r, k)) = <<b>> \o Onward(r, k)
    <3>1. a \in EffectsOf(r) /\ b \in EffectsOf(r)
      BY <1>2
    <3> HIDE DEF a, b
    <3> QED BY <3>1, OnwardParts
  <2>2. script = <<a, b>> \o Onward(r, k) \/ script = <<b>> \o Onward(r, k)
    BY <1>3 DEF Starting
  <2> QED BY <1>3, <2>1, <2>2, Zenon
<1>4. CASE Advancing(r, k)
  BY <1>2, <1>4, OnwardParts, Zenon DEF Advancing
<1>5. CASE Announcing(r, k)
  <2>1. script = <<EmitOf(r, "phase.started", k)>>
    BY <1>5 DEF Announcing
  <2>2. script # <<>> /\ Head(script) = EmitOf(r, "phase.started", k) /\ Tail(script) = <<>>
    BY <2>1
  <2> QED BY <1>5, <2>2
<1>6. CASE Finishing(r, k)
  <2>1. script = <<SaveOf(r, "succeeded", k)>>
    BY <1>6 DEF Finishing
  <2>2. script # <<>> /\ Head(script) = SaveOf(r, "succeeded", k) /\ Tail(script) = <<>>
    BY <2>1
  <2> QED BY <1>6, <2>2
<1>7. CASE Completing(r, k)
  BY <1>2, <1>7, OnwardParts, Zenon DEF Completing
<1> QED BY <1>3, <1>4, <1>5, <1>6, <1>7 DEF Middle

(* A script that is not in the middle of a segment, one effect later.      *)
LEMMA MinorTail ==
  ASSUME TypeInv, script # <<>>, NEW r, NEW k, AllMinor(script, r, k)
  PROVE  Minor(Head(script), r, k) /\ AllMinor(Tail(script), r, k)
<1>1. /\ Len(script) \in Nat \ {0} /\ DOMAIN script = 1 .. Len(script)
      /\ Head(script) = script[1]
      /\ DOMAIN Tail(script) = 1 .. (Len(script) - 1)
      /\ \A i \in 1 .. (Len(script) - 1) : Tail(script)[i] = script[i + 1]
  BY ScriptParts
<1>2. Minor(Head(script), r, k)
  BY <1>1 DEF AllMinor
<1>3. ASSUME NEW i \in DOMAIN Tail(script)
      PROVE  Minor(Tail(script)[i], r, k)
  <2>1. i + 1 \in DOMAIN script /\ Tail(script)[i] = script[i + 1]
    BY <1>1
  <2> QED BY <2>1, Zenon DEF AllMinor
<1> QED BY <1>2, <1>3 DEF AllMinor

-----------------------------------------------------------------------------
(* Steps that leave a stub run in its phase.                               *)

LEMMA DiskPhase ==
  ASSUME TypeInv, NEW r \in Runs
  PROVE  /\ disk[r].phase \in Phase /\ disk[r].phase \in Int /\ disk[r].phase - 1 \in Int
         /\ disk[r].phase >= 0 /\ disk[r].phase <= NumPhases
         /\ file[r] \in Seq(Event) /\ tail[r] \in LineEnd /\ crashes \in Nat
<1>1. disk[r].phase \in Phase
  <2>1. disk[r] \in RunRecord \cup {Absent} /\ 0 \in Phase
    BY CellAssumption DEF TypeInv, RunTypeOK, Phase
  <2> QED BY <2>1 DEF RunRecord, Absent
<1>2. \A p \in Phase : p \in Int /\ p - 1 \in Int /\ p >= 0 /\ p <= NumPhases
  BY CellAssumption DEF Phase
<1> QED BY <1>1, <1>2 DEF TypeInv, RunTypeOK

(* A step after which the run is in the same phase, with no less           *)
(* completed: what has to be looked at besides.                            *)
LEMMA PhaseKept ==
  ASSUME TypeInv, TypeInv', NEW r \in Runs, PhaseInv(r),
         disk'[r].phase = disk[r].phase,
         disk'[r].status = "succeeded" =>
           \/ disk[r].status = "succeeded"
           \/ disk[r].phase = NumPhases /\ FewLost(r, disk[r].phase),
         Completed(file[r], tail[r]) \subseteq Completed(file'[r], tail'[r]),
         Announced(file'[r], disk[r].phase),
         crashes' >= crashes,
         proc' # "up" \/ task'[r] = "ready" =>
           \/ FewLost(r, disk[r].phase)
           \/ crashes' = crashes + 1,
         task'[r] \notin {"plan", "execute"},
         \/ Resting(r)'
         \/ proc' = "up" /\ task'[r] \in {"sleep", "done"} /\ Middle(r, disk[r].phase)'
  PROVE  PhaseInv(r)'
<1> DEFINE k == disk[r].phase
           C == Completed(file[r], tail[r])
           D == Completed(file'[r], tail'[r])
<1>1. k \in Int /\ k - 1 \in Int /\ crashes \in Nat /\ crashes' \in Nat
  BY DiskPhase DEF TypeInv, RunTypeOK
<1>2. C \subseteq D
  OBVIOUS
<1>3. /\ Lost(C, k - 1) <= crashes
      /\ disk[r].status = "succeeded" => Lost(C, k) <= crashes /\ k = NumPhases
  BY DEF PhaseInv, FewLost
<1>4. FewLost(r, k) => Lost(C, k) <= crashes
  BY DEF FewLost
<1> HIDE DEF C, D
<1>5. /\ Lost(C, k) \in Nat /\ Lost(C, k - 1) \in Nat /\ Lost(D, k) \in Nat /\ Lost(D, k - 1) \in Nat
  BY <1>1, LostIsNumber
<1>6. Lost(D, k) <= Lost(C, k) /\ Lost(D, k - 1) <= Lost(C, k - 1)
  BY <1>1, <1>2, LostFewer
<1>7. Lost(C, k) <= Lost(C, k - 1) + 1
  BY <1>1, LostOneMore
<1>8. Lost(D, k - 1) <= crashes'
  BY <1>1, <1>3, <1>5, <1>6
<1>9. (proc' # "up" \/ task'[r] = "ready") => Lost(D, k) <= crashes'
  <2>1. CASE FewLost(r, k)
    BY <1>1, <1>4, <1>5, <1>6, <2>1
  <2>2. CASE crashes' = crashes + 1
    BY <1>1, <1>3, <1>5, <1>6, <1>7, <2>2
  <2> QED BY <2>1, <2>2
<1>10. disk'[r].status = "succeeded" => Lost(D, k) <= crashes' /\ k = NumPhases
  BY <1>1, <1>3, <1>4, <1>5, <1>6
<1> QED
  BY <1>8, <1>9, <1>10 DEF PhaseInv, FewLost, D

(* The effect that is next is another run's, or none of a stub run's       *)
(* segment.                                                                *)
LEMMA NextIsMinor ==
  ASSUME TypeInv, NEW r \in Runs, PhaseInv(r), script # <<>>,
         Head(script).run # r \/ Head(script).do = "answer"
  PROVE  Resting(r)
<1>1. disk[r].phase \in Phase
  BY DiskPhase
<1>2. ASSUME Middle(r, disk[r].phase)
      PROVE  FALSE
  <2> DEFINE k == disk[r].phase
             o == Head(script)
  <2>1. \/ o = SaveOf(r, "running", k) \/ o = EmitOf(r, "run.started", 0)
        \/ o = SaveOf(r, "running", k + 1) \/ o = EmitOf(r, "run.completed", NumPhases)
        \/ o = EmitOf(r, "phase.started", k) \/ o = SaveOf(r, "succeeded", k)
        \/ o = EmitOf(r, "phase.completed", k)
    <3> HIDE DEF k
    <3>1. k \in Phase /\ Middle(r, k)
      BY <1>1, <1>2 DEF k
    <3> QED BY <3>1, MiddleParts
  <2> QED BY <2>1 DEF SaveOf, EmitOf
<1> QED BY <1>2 DEF PhaseInv

(* An event is logged.                                                     *)
LEMMA EmitKeepsPhase ==
  ASSUME TypeInv, TypeInv', NEW r \in Runs, PhaseInv(r), PerformEmit
  PROVE  PhaseInv(r)'
<1> DEFINE o == Head(script)
           k == disk[r].phase
           e == NextEvent(o)
           C == Completed(file[r], tail[r])
           D == Completed(file'[r], tail'[r])
<1>1. /\ script # <<>> /\ o.do = "emit" /\ o \in Effect /\ o.run \in Runs
      /\ script' = Tail(script) /\ proc' = proc /\ crashes' = crashes
      /\ disk' = disk /\ task' = task /\ proc # "down"
  BY NextEffect DEF PerformEmit, procVars, storeVars
<1>2. /\ file' = [file EXCEPT ![o.run] = LinesAfter(@, tail[o.run], e)]
      /\ tail' = [tail EXCEPT ![o.run] = "whole"]
      /\ file \in [Runs -> Seq(Event)] /\ tail \in [Runs -> LineEnd]
  BY DEF PerformEmit, TypeInv, RunTypeOK
<1>3. e \in Event /\ e.type = o.what /\ e.phase = o.phase
  <2>1. o.what \in EventType /\ o.phase \in Phase
    BY <1>1 DEF Effect
  <2>2. seq[o.run] + 1 \in Nat
    BY <1>1 DEF TypeInv, RunTypeOK
  <2> QED BY <2>1, <2>2 DEF NextEvent, Event
<1>4. /\ k \in Phase /\ k \in Int /\ k - 1 \in Int /\ k >= 0 /\ k <= NumPhases
      /\ file[r] \in Seq(Event) /\ tail[r] \in LineEnd /\ crashes \in Nat
  BY DiskPhase
<1> HIDE DEF o, k, e
<1>5. /\ o.run # r => file'[r] = file[r] /\ tail'[r] = tail[r]
      /\ o.run = r => file'[r] = LinesAfter(file[r], tail[r], e) /\ tail'[r] = "whole"
  BY <1>1, <1>2
<1>6. C \subseteq D
  <2>1. o.run = r => C \subseteq D
    BY <1>3, <1>4, <1>5, CompletedGrows
  <2> QED BY <1>5, <2>1
<1>7. /\ Announced(file[r], k) /\ FewLost(r, k - 1) /\ task[r] \notin {"plan", "execute"}
      /\ proc # "up" \/ task[r] = "ready" => FewLost(r, k)
  BY DEF PhaseInv, k
<1>8. ASSUME Announced(file'[r], k),
             \/ Resting(r)'
             \/ proc' = "up" /\ task'[r] \in {"sleep", "done"} /\ Middle(r, disk[r].phase)'
      PROVE  PhaseInv(r)'
  <2>2. disk'[r].phase = disk[r].phase /\ disk'[r].status = disk[r].status
    BY <1>1
  <2>3. crashes' >= crashes
    BY <1>1, <1>4
  <2>4. proc' # "up" \/ task'[r] = "ready" => FewLost(r, disk[r].phase)
    BY <1>1, <1>7 DEF k
  <2>5. Completed(file[r], tail[r]) \subseteq Completed(file'[r], tail'[r])
    BY <1>6
  <2>6. task'[r] \notin {"plan", "execute"}
    BY <1>1, <1>7
  <2>7. Announced(file'[r], disk[r].phase)
    BY <1>8 DEF k
  <2> QED BY <1>8, <2>2, <2>3, <2>4, <2>5, <2>6, <2>7, PhaseKept, Zenon
<1>9. CASE Resting(r)
  <2>1. Minor(o, r, k) /\ AllMinor(script', r, k)
    BY <1>1, <1>9, MinorTail DEF Resting, o, k
  <2>2. Resting(r)'
    BY <1>1, <1>5, <1>9, <2>1 DEF Resting, k
  <2>3. Announced(file'[r], k)
    <3>1. CASE o.run # r
      BY <1>5, <1>7, <3>1
    <3>2. CASE o.run = r
      <4>1. e.type # "phase.started"
        BY <1>1, <1>3, <2>1, <3>2 DEF Minor, Emits
      <4> QED BY <1>3, <1>4, <1>5, <1>7, <3>2, <4>1, AnnouncedGrows
    <3> QED BY <3>1, <3>2
  <2> QED BY <1>8, <2>2, <2>3
<1>10. CASE ~Resting(r)
  <2>0. proc = "up" /\ task[r] \in {"sleep", "done"} /\ Middle(r, k)
    BY <1>10 DEF PhaseInv, k
  <2>1. o.run = r
    BY <1>1, <1>10, NextIsMinor DEF o
  <2>2. file'[r] = LinesAfter(file[r], tail[r], e) /\ tail'[r] = "whole"
    BY <1>5, <2>1
  <2>3. disk'[r].phase = k /\ disk[r].phase = k
    BY <1>1 DEF k
  <2>4. e.type # "phase.started" => Announced(file'[r], k)
    BY <1>3, <1>4, <1>7, <2>2, AnnouncedGrows
  <2>5. FewLost(r, k) => Lost(D, k) <= crashes'
    <3>1. Lost(D, k) <= Lost(C, k) /\ Lost(D, k) \in Nat /\ Lost(C, k) \in Nat
      <4> HIDE DEF C, D
      <4>1. Lost(D, k) \in Nat /\ Lost(C, k) \in Nat
        BY <1>4, LostIsNumber
      <4>2. Lost(D, k) <= Lost(C, k)
        BY <1>4, <1>6, LostFewer
      <4> QED BY <4>1, <4>2
    <3> QED BY <1>1, <1>4, <3>1 DEF FewLost
  <2>6. ASSUME Lost(D, k) <= crashes'
        PROVE  /\ Announced(file'[r], k) /\ script' = Onward(r, k) => PhaseInv(r)'
               /\ Announced(file'[r], k) /\ script' = <<SaveOf(r, "succeeded", k)>> /\ k = NumPhases
                    => PhaseInv(r)'
    <3>1. script' = Onward(r, k) => Middle(r, disk[r].phase)'
      BY <2>2, <2>3, <2>6 DEF Middle, Advancing, FewLost
    <3>2. script' = <<SaveOf(r, "succeeded", k)>> /\ k = NumPhases => Middle(r, disk[r].phase)'
      BY <2>2, <2>3, <2>6 DEF Middle, Finishing, FewLost
    <3> QED BY <1>1, <1>8, <2>0, <3>1, <3>2
  <2>7. CASE Starting(r, k) /\ o = EmitOf(r, "run.started", 0) /\ script' = Onward(r, k)
    <3>1. e.type # "phase.started" /\ FewLost(r, k)
      BY <1>3, <2>7 DEF EmitOf, Starting
    <3> QED BY <2>4, <2>5, <2>6, <2>7, <3>1
  <2>8. CASE /\ Advancing(r, k) /\ o = EmitOf(r, "run.completed", NumPhases)
             /\ script' = <<SaveOf(r, "succeeded", k)>> /\ k = NumPhases
    <3>1. e.type # "phase.started" /\ FewLost(r, k)
      BY <1>3, <2>8 DEF EmitOf, Advancing
    <3> QED BY <2>4, <2>5, <2>6, <2>8, <3>1
  <2>9. CASE Announcing(r, k) /\ o = EmitOf(r, "phase.started", k) /\ script' = <<>>
    <3>1. e.type = "phase.started" /\ e.phase = k /\ Announced(file[r], k - 1) /\ k > 0
      BY <1>3, <2>9 DEF EmitOf, Announcing
    <3>2. Announced(file'[r], k)
      BY <1>3, <1>4, <2>2, <3>1, AnnouncedGrows
    <3>3. Resting(r)'
      BY <2>2, <2>3, <2>9, <3>1 DEF Resting, AllMinor
    <3> QED BY <1>8, <3>2, <3>3
  <2>10. CASE Completing(r, k) /\ o = EmitOf(r, "phase.completed", k) /\ script' = Onward(r, k)
    <3>1. e.type = "phase.completed" /\ e.phase = k /\ k > 0 /\ tail[r] = "whole"
      BY <1>3, <2>10 DEF EmitOf, Completing
    <3>2. k \in D
      <4>1. e.phase \in 1 .. NumPhases
        BY <1>4, <3>1, CellAssumption
      <4> QED BY <1>3, <1>4, <2>2, <3>1, <4>1, CompletedGrows
    <3>3. Lost(D, k) <= crashes'
      <4>1. Lost(C, k - 1) <= crashes
        BY <1>7 DEF FewLost
      <4> HIDE DEF C, D
      <4>2. Lost(D, k) <= Lost(D, k - 1)
        BY <1>4, <3>2, LostOneMore
      <4>3. /\ Lost(D, k) \in Nat /\ Lost(D, k - 1) \in Nat /\ Lost(C, k - 1) \in Nat
            /\ Lost(C, k) \in Nat
        BY <1>4, LostIsNumber
      <4>4. Lost(D, k - 1) <= Lost(C, k - 1)
        BY <1>4, <1>6, LostFewer
      <4> QED BY <1>1, <1>4, <4>1, <4>2, <4>3, <4>4
    <3>4. e.type # "phase.started"
      BY <3>1
    <3> QED BY <2>4, <2>6, <2>10, <3>3, <3>4
  <2>11. \A s, p : SaveOf(r, s, p).do # "emit"
    BY DEF SaveOf
  <2>12. \/ Starting(r, k) /\ o = EmitOf(r, "run.started", 0) /\ script' = Onward(r, k)
         \/ /\ Advancing(r, k) /\ o = EmitOf(r, "run.completed", NumPhases)
            /\ script' = <<SaveOf(r, "succeeded", k)>> /\ k = NumPhases
         \/ Announcing(r, k) /\ o = EmitOf(r, "phase.started", k) /\ script' = <<>>
         \/ Completing(r, k) /\ o = EmitOf(r, "phase.completed", k) /\ script' = Onward(r, k)
    BY <1>1, <1>4, <2>0, <2>11, MiddleParts, Zenon DEF o
  <2> QED BY <2>7, <2>8, <2>9, <2>10, <2>12
<1> QED BY <1>9, <1>10

(* The phase and the status of the run that is saved; every other run is   *)
(* written as memory has it.                                               *)
LEMMA SaveWrites ==
  ASSUME TypeInv, PerformSave, NEW r \in Runs
  PROVE  /\ disk'[r].policy = mem[r].policy
         /\ Head(script).run # r => disk'[r] = mem[r]
         /\ Head(script).run = r => /\ disk'[r].phase = Head(script).phase
                                    /\ disk'[r].status = Head(script).what
         /\ mem'[r] = disk'[r]
<1> DEFINE o == Head(script)
<1>1. /\ script # <<>> /\ disk' = mem'
      /\ mem' = [mem EXCEPT ![o.run].status = o.what, ![o.run].phase = o.phase]
      /\ mem \in [Runs -> RunRecord \cup {Absent}]
  BY DEF PerformSave, TypeInv, RunTypeOK
<1>2. o.run \in Runs /\ mem[o.run] \in RunRecord
  BY <1>1, NextEffect
<1> HIDE DEF o
<1>3. CASE o.run # r
  BY <1>1, <1>3 DEF o
<1>4. CASE o.run = r
  <2>1. mem'[r] = [mem[r] EXCEPT !.status = o.what, !.phase = o.phase]
    BY <1>1, <1>2, <1>4
  <2>2. mem[r] \in RunRecord
    BY <1>2, <1>4
  <2>3. mem'[r].status = o.what /\ mem'[r].phase = o.phase /\ mem'[r].policy = mem[r].policy
    BY <2>1, <2>2 DEF RunRecord
  <2> QED BY <1>1, <1>4, <2>3 DEF o
<1> QED BY <1>3, <1>4

(* A status and a phase are saved.                                         *)
LEMMA SaveKeepsPhase ==
  ASSUME TypeInv, TypeInv', PhaseOnDisk, NEW r \in Runs, PhaseInv(r), PerformSave
  PROVE  PhaseInv(r)'
<1> DEFINE o == Head(script)
           k == disk[r].phase
<1>1. /\ script # <<>> /\ o.do = "save" /\ o \in Effect /\ o.run \in Runs
      /\ script' = Tail(script) /\ proc' = proc /\ crashes' = crashes
      /\ file' = file /\ tail' = tail /\ task' = task /\ proc # "down"
  BY NextEffect DEF PerformSave, procVars, logVars
<1>2. /\ mem[r].phase = disk[r].phase
      /\ mem[r].status = "succeeded" => disk[r].status = "succeeded"
  BY <1>1 DEF PhaseOnDisk
<1>3. /\ o.run # r => disk'[r] = mem[r]
      /\ o.run = r => disk'[r].phase = o.phase /\ disk'[r].status = o.what
  BY SaveWrites
<1>4. /\ k \in Phase /\ k \in Int /\ k - 1 \in Int /\ k >= 0 /\ k <= NumPhases
      /\ file[r] \in Seq(Event) /\ tail[r] \in LineEnd /\ crashes \in Nat
  BY DiskPhase
<1>5. /\ Announced(file[r], k) /\ FewLost(r, k - 1) /\ task[r] \notin {"plan", "execute"}
      /\ proc # "up" \/ task[r] = "ready" => FewLost(r, k)
  BY DEF PhaseInv
<1> HIDE DEF o, k
<1>6. ASSUME disk'[r].phase = k,
             disk'[r].status = "succeeded" =>
               disk[r].status = "succeeded" \/ (k = NumPhases /\ FewLost(r, k)),
             \/ Resting(r)'
             \/ proc' = "up" /\ task'[r] \in {"sleep", "done"} /\ Middle(r, disk[r].phase)'
      PROVE  PhaseInv(r)'
  <2>1. disk'[r].phase = disk[r].phase
    BY <1>6 DEF k
  <2>2. disk'[r].status = "succeeded" =>
          \/ disk[r].status = "succeeded"
          \/ disk[r].phase = NumPhases /\ FewLost(r, disk[r].phase)
    BY <1>6 DEF k
  <2>3. crashes' >= crashes
    BY <1>1, <1>4
  <2>4. proc' # "up" \/ task'[r] = "ready" => FewLost(r, disk[r].phase)
    BY <1>1, <1>5 DEF k
  <2>5. Completed(file[r], tail[r]) \subseteq Completed(file'[r], tail'[r])
    BY <1>1
  <2>6. task'[r] \notin {"plan", "execute"}
    BY <1>1, <1>5
  <2>7. Announced(file'[r], disk[r].phase)
    BY <1>1, <1>5 DEF k
  <2> QED BY <1>6, <2>1, <2>2, <2>3, <2>4, <2>5, <2>6, <2>7, PhaseKept, Zenon
<1>7. CASE Resting(r)
  <2>1. Minor(o, r, k) /\ AllMinor(script', r, k)
    BY <1>1, <1>7, MinorTail DEF Resting, o, k
  <2>2. disk'[r].phase = k
    BY <1>1, <1>2, <1>3, <2>1 DEF Minor, k
  <2>3. disk'[r].status = "succeeded" => disk[r].status = "succeeded"
    BY <1>1, <1>2, <1>3, <2>1 DEF Minor, Saves
  <2>4. Resting(r)'
    BY <1>1, <1>7, <2>1, <2>2 DEF Resting, k
  <2> QED BY <1>6, <2>2, <2>3, <2>4
<1>8. CASE ~Resting(r)
  <2>0. proc = "up" /\ task[r] \in {"sleep", "done"} /\ Middle(r, k)
    BY <1>8 DEF PhaseInv, k
  <2>1. o.run = r
    BY <1>1, <1>8, NextIsMinor DEF o
  <2>2. disk'[r].phase = o.phase /\ disk'[r].status = o.what
    BY <1>3, <2>1
  <2>3. \A n \in Phase : FewLost(r, n)' <=> FewLost(r, n)
    BY <1>1 DEF FewLost
  <2>4. CASE /\ Starting(r, k) /\ o = SaveOf(r, "running", k)
             /\ script' = <<EmitOf(r, "run.started", 0)>> \o Onward(r, k)
    <3>1. disk'[r].phase = k /\ disk'[r].status = "running" /\ FewLost(r, k)
      BY <2>2, <2>4 DEF SaveOf, Starting
    <3>2. Middle(r, disk[r].phase)'
      BY <1>4, <2>3, <2>4, <3>1 DEF Middle, Starting
    <3> QED BY <1>1, <1>6, <2>0, <3>1, <3>2
  <2>5. CASE /\ Advancing(r, k) /\ k < NumPhases /\ o = SaveOf(r, "running", k + 1)
             /\ script' = <<EmitOf(r, "phase.started", k + 1)>>
    <3>1. disk'[r].phase = k + 1 /\ disk'[r].status = "running" /\ FewLost(r, k) /\ tail[r] = "whole"
      BY <2>2, <2>5 DEF SaveOf, Advancing
    <3>2. disk'[r].phase > 0 /\ disk'[r].phase - 1 = k
      BY <1>4, <3>1
    <3>3. Announced(file'[r], k + 1)
      <4>1. \A i \in DOMAIN file[r] : file[r][i].phase \in Int
        <5>1. \A i \in DOMAIN file[r] : file[r][i] \in Event
          BY <1>4, LogPositions
        <5> QED BY <5>1, CellAssumption DEF Event, Phase
      <4>2. \A i \in DOMAIN file[r] : file[r][i].type = "phase.started" => file[r][i].phase <= k + 1
        BY <1>4, <1>5, <4>1 DEF Announced
      <4> QED BY <1>1, <1>5, <4>2 DEF Announced
    <3>4. Middle(r, disk[r].phase)'
      <4>1. script' = <<EmitOf(r, "phase.started", disk'[r].phase)>> /\ tail'[r] = "whole"
        BY <1>1, <2>5, <3>1
      <4>2. Announced(file'[r], disk'[r].phase - 1)
        BY <1>1, <1>5, <3>2
      <4> QED BY <3>2, <4>1, <4>2 DEF Middle, Announcing
    <3>5. FewLost(r, disk[r].phase - 1)'
      <4>1. Lost(Completed(file[r], tail[r]), k) <= crashes
        BY <3>1 DEF FewLost
      <4>2. Lost(Completed(file'[r], tail'[r]), disk'[r].phase - 1) <= crashes'
        BY <1>1, <3>2, <4>1
      <4> QED BY <4>2 DEF FewLost
    <3>6. proc' = "up" /\ task'[r] \in {"sleep", "done"}
      BY <1>1, <2>0
    <3> QED BY <3>1, <3>3, <3>4, <3>5, <3>6 DEF PhaseInv
  <2>6. CASE Finishing(r, k) /\ o = SaveOf(r, "succeeded", k) /\ script' = <<>>
    <3>1. disk'[r].phase = k /\ k = NumPhases /\ tail[r] = "whole" /\ FewLost(r, k)
      BY <2>2, <2>6 DEF SaveOf, Finishing
    <3>2. Resting(r)'
      <4>1. NumPhases > 0
        BY CellAssumption
      <4> QED BY <1>1, <2>6, <3>1, <4>1 DEF Resting, AllMinor
    <3> QED BY <1>6, <3>1, <3>2
  <2>7. \A t, p : EmitOf(r, t, p).do # "save"
    BY DEF EmitOf
  <2>8. \/ /\ Starting(r, k) /\ o = SaveOf(r, "running", k)
           /\ script' = <<EmitOf(r, "run.started", 0)>> \o Onward(r, k)
        \/ /\ Advancing(r, k) /\ k < NumPhases /\ o = SaveOf(r, "running", k + 1)
           /\ script' = <<EmitOf(r, "phase.started", k + 1)>>
        \/ Finishing(r, k) /\ o = SaveOf(r, "succeeded", k) /\ script' = <<>>
    BY <1>1, <1>4, <2>0, <2>7, MiddleParts, Zenon DEF o
  <2> QED BY <2>4, <2>5, <2>6, <2>8
<1> QED BY <1>7, <1>8

(* A step that touches neither runs.json nor the log.                      *)
LEMMA DiskKept ==
  ASSUME TypeInv, TypeInv', NEW r \in Runs, PhaseInv(r),
         disk'[r] = disk[r], file'[r] = file[r], tail'[r] = tail[r],
         crashes' = crashes \/ crashes' = crashes + 1,
         proc' # "up" \/ task'[r] = "ready" =>
           \/ FewLost(r, disk[r].phase)
           \/ crashes' = crashes + 1,
         task'[r] \notin {"plan", "execute"},
         \/ Resting(r)'
         \/ proc' = "up" /\ task'[r] \in {"sleep", "done"} /\ Middle(r, disk[r].phase)'
  PROVE  PhaseInv(r)'
<1>1. disk'[r].phase = disk[r].phase /\ disk'[r].status = disk[r].status
  OBVIOUS
<1>2. crashes' >= crashes
  BY DiskPhase
<1>3. Completed(file[r], tail[r]) \subseteq Completed(file'[r], tail'[r])
  OBVIOUS
<1>4. Announced(file'[r], disk[r].phase)
  BY DEF PhaseInv
<1> QED BY <1>1, <1>2, <1>3, <1>4, PhaseKept, Zenon

(* What a stub run is like when no coroutine holds the loop.               *)
LEMMA IdlePhase ==
  ASSUME TypeInv, NEW r \in Runs, PhaseInv(r), script = <<>>
  PROVE  /\ Resting(r) /\ task[r] \notin {"plan", "execute"}
         /\ proc # "up" \/ task[r] = "ready" => FewLost(r, disk[r].phase)
<1>1. disk[r].phase \in Phase
  BY DiskPhase
<1>2. ~Middle(r, disk[r].phase)
  <2> DEFINE k == disk[r].phase
  <2>1. k \in Phase
    BY <1>1
  <2> HIDE DEF k
  <2>2. ~Middle(r, k)
    BY <2>1, MiddleParts
  <2> QED BY <2>2 DEF k
<1> QED BY <1>2 DEF PhaseInv

(* A request to create a run, this one or another.                         *)
LEMMA CreateKeepsPhase ==
  ASSUME TypeInv, TypeInv', PhaseOnDisk, NEW r \in Runs, NEW q \in Runs, CreateRun(q),
         IsStub(r)', q # r => PhaseInv(r)
  PROVE  PhaseInv(r)'
<1>1. /\ proc = "up" /\ script = <<>> /\ mem[q] = Absent
      /\ disk' = mem' /\ file' = file /\ tail' = tail /\ script' = script
      /\ proc' = proc /\ crashes' = crashes
  BY DEF CreateRun, LoopIdle, procVars, logVars
<1>2. PICK p \in Policies :
        /\ mem' = [mem EXCEPT ![q] = [status |-> "queued", phase |-> 0,
                                      cancelled |-> FALSE, policy |-> p]]
        /\ task' = [task EXCEPT ![q] = IF p = "bad_hosts" THEN "none" ELSE "ready"]
  BY DEF CreateRun
<1>3. mem \in [Runs -> RunRecord \cup {Absent}] /\ task \in [Runs -> TaskState]
  BY DEF TypeInv, RunTypeOK
<1>4. CASE q = r
  <2>1. disk[r].policy = "none"
    BY <1>1, <1>4 DEF PhaseOnDisk, Absent
  <2>2. file'[r] = <<>>
    BY <1>1, <2>1 DEF PhaseOnDisk
  <2>3. /\ disk'[r].phase = 0 /\ disk'[r].status = "queued" /\ task'[r] \in {"none", "ready"}
    BY <1>1, <1>2, <1>3, <1>4
  <2>4. Announced(file'[r], disk'[r].phase)
    BY <2>2 DEF Announced
  <2>5. FewLost(r, disk[r].phase)' /\ FewLost(r, disk[r].phase - 1)'
    <3> DEFINE D == Completed(file'[r], tail'[r])
    <3>1. Lost(D, 0) = 0 /\ Lost(D, 0 - 1) = 0
      <4> HIDE DEF D
      <4>1. 0 \in Int /\ 0 - 1 \in Int /\ 0 <= 0 /\ 0 - 1 <= 0
        OBVIOUS
      <4> QED BY <4>1, LostIsNumber
    <3>2. crashes' >= 0
      BY <1>1, DiskPhase
    <3> QED BY <2>3, <3>1, <3>2 DEF FewLost
  <2>6. Resting(r)'
    BY <1>1, <2>3 DEF Resting, AllMinor
  <2> QED BY <2>3, <2>4, <2>5, <2>6 DEF PhaseInv
<1>5. CASE q # r
  <2>1. disk'[r] = mem[r] /\ task'[r] = task[r]
    BY <1>1, <1>2, <1>3, <1>5
  <2>2. PhaseInv(r)
    BY <1>5
  <2>3. /\ mem[r].phase = disk[r].phase
        /\ mem[r].status = "succeeded" => disk[r].status = "succeeded"
    BY <1>1 DEF PhaseOnDisk
  <2>4. /\ Resting(r) /\ task[r] \notin {"plan", "execute"}
        /\ proc # "up" \/ task[r] = "ready" => FewLost(r, disk[r].phase)
    BY <1>1, <2>2, IdlePhase
  <2>5. Resting(r)'
    BY <1>1, <2>1, <2>3, <2>4 DEF Resting
  <2>6. disk'[r].phase = disk[r].phase /\ (disk'[r].status = "succeeded" => disk[r].status = "succeeded")
    BY <2>1, <2>3
  <2>7. crashes' >= crashes
    BY <1>1, DiskPhase
  <2>8. Completed(file[r], tail[r]) \subseteq Completed(file'[r], tail'[r])
    BY <1>1
  <2>9. Announced(file'[r], disk[r].phase)
    BY <1>1, <2>2 DEF PhaseInv
  <2>10. proc' # "up" \/ task'[r] = "ready" => FewLost(r, disk[r].phase)
    BY <1>1, <2>1, <2>4
  <2>11. task'[r] \notin {"plan", "execute"}
    BY <2>1, <2>4
  <2> QED BY <2>2, <2>5, <2>6, <2>7, <2>8, <2>9, <2>10, <2>11, PhaseKept, Zenon
<1> QED BY <1>4, <1>5

(* A request to cancel a run, this one or another.                         *)
LEMMA CancelKeepsPhase ==
  ASSUME TypeInv, TypeInv', PhaseOnDisk, NEW r \in Runs, NEW q \in Runs, CancelRun(q), PhaseInv(r)
  PROVE  PhaseInv(r)'
<1>1. /\ proc = "up" /\ script = <<>>
      /\ disk' = disk /\ file' = file /\ tail' = tail
      /\ proc' = proc /\ crashes' = crashes
      /\ script' = <<EmitOf(q, "run.cancelled", 0), SaveOf(q, "cancelled", mem[q].phase), AnswerOf(q)>>
      /\ task' = [task EXCEPT ![q] = CASE @ \in {"sleep", "plan", "execute"} -> "interrupted"
                                       [] @ = "ready" -> "done"
                                       [] OTHER -> @]
      /\ task \in [Runs -> TaskState]
  BY DEF CancelRun, LoopIdle, procVars, logVars, TypeInv, RunTypeOK
<1>2. /\ Resting(r) /\ task[r] \notin {"plan", "execute"}
      /\ proc # "up" \/ task[r] = "ready" => FewLost(r, disk[r].phase)
  BY <1>1, IdlePhase
<1>3. \/ task'[r] = task[r]
      \/ task'[r] = "interrupted"
      \/ task'[r] = "done"
  BY <1>1
<1>4. q = r => mem[q].phase = disk[r].phase
  BY <1>1 DEF PhaseOnDisk
<1>5. AllMinor(script', r, disk[r].phase)
  <2> DEFINE a == EmitOf(q, "run.cancelled", 0)
             b == SaveOf(q, "cancelled", mem[q].phase)
             c == AnswerOf(q)
  <2>1. Minor(a, r, disk[r].phase)
    BY DEF Minor, EmitOf, Emits, Saves
  <2>2. Minor(b, r, disk[r].phase)
    BY <1>4 DEF Minor, SaveOf, Emits, Saves
  <2>3. Minor(c, r, disk[r].phase)
    BY DEF Minor, AnswerOf, Emits, Saves
  <2>4. script' = <<a, b, c>>
    BY <1>1
  <2> HIDE DEF a, b, c
  <2>5. /\ DOMAIN <<a, b, c>> = 1 .. 3
        /\ <<a, b, c>>[1] = a /\ <<a, b, c>>[2] = b /\ <<a, b, c>>[3] = c
    OBVIOUS
  <2>6. \A i \in 1 .. 3 : i = 1 \/ i = 2 \/ i = 3
    OBVIOUS
  <2> QED BY <2>1, <2>2, <2>3, <2>4, <2>5, <2>6 DEF AllMinor
<1>6. Resting(r)'
  BY <1>1, <1>2, <1>3, <1>5 DEF Resting
<1>7. /\ task'[r] \notin {"plan", "execute"}
      /\ proc' # "up" \/ task'[r] = "ready" => FewLost(r, disk[r].phase)
      /\ disk'[r] = disk[r] /\ file'[r] = file[r] /\ tail'[r] = tail[r] /\ crashes' = crashes
  BY <1>1, <1>2, <1>3
<1> QED BY <1>6, <1>7, DiskKept, Zenon

(* A coroutine of another run starts or goes on.                           *)
LEMMA OtherTaskKeepsPhase ==
  ASSUME TypeInv, TypeInv', NEW r \in Runs, NEW q \in Runs, q # r, RunTask(q), PhaseInv(r)
  PROVE  PhaseInv(r)'
<1>1. script = <<>>
  BY DEF RunTask, StartStub, WakeStub, StartAgent, FactoryRaises, PlanReturns,
         ExecutePasses, ExecuteFails, SessionRaises, TakeCancellation, LoopIdle
<1>2. \E s, t : RunSegment(q, s, t)
  BY DEF RunTask, StartStub, WakeStub, StartAgent, FactoryRaises, PlanReturns,
         ExecutePasses, ExecuteFails, SessionRaises, TakeCancellation
<1>3. /\ disk' = disk /\ file' = file /\ tail' = tail /\ proc' = proc /\ crashes' = crashes
      /\ task'[r] = task[r]
  <2>1. PICK s, t : RunSegment(q, s, t)
    BY <1>2
  <2>2. task' = [task EXCEPT ![q] = t] /\ task \in [Runs -> TaskState]
    BY <2>1 DEF RunSegment, TypeInv, RunTypeOK
  <2>3. task'[r] = task[r]
    BY <2>2
  <2> QED BY <2>1, <2>3 DEF RunSegment, procVars, storeVars, logVars
<1>4. AllMinor(script', r, disk[r].phase)
  <2>1. script' \in Seq(EffectsOf(q))
    BY RunTaskKeepsTypes
  <2>2. \A i \in DOMAIN script' : script'[i] \in EffectsOf(q)
    BY <2>1, LenProperties, ElementOfSeq
  <2>3. \A i \in DOMAIN script' : script'[i].run = q
    BY <2>2 DEF EffectsOf
  <2> QED BY <2>3 DEF AllMinor, Minor
<1>5. /\ Resting(r) /\ task[r] \notin {"plan", "execute"}
      /\ proc # "up" \/ task[r] = "ready" => FewLost(r, disk[r].phase)
  BY <1>1, IdlePhase
<1>6. Resting(r)'
  BY <1>3, <1>4, <1>5 DEF Resting
<1>7. /\ task'[r] \notin {"plan", "execute"}
      /\ proc' # "up" \/ task'[r] = "ready" => FewLost(r, disk[r].phase)
      /\ disk'[r] = disk[r] /\ file'[r] = file[r] /\ tail'[r] = tail[r] /\ crashes' = crashes
  BY <1>3, <1>5
<1> QED BY <1>6, <1>7, DiskKept, Zenon

(* A coroutine of the run itself.                                          *)
LEMMA OwnTaskKeepsPhase ==
  ASSUME TypeInv, TypeInv', PhaseOnDisk, NEW r \in Runs, IsStub(r), RunTask(r), PhaseInv(r)
  PROVE  PhaseInv(r)'
<1> DEFINE k == disk[r].phase
<1>1. /\ script = <<>> /\ proc # "down"
  BY DEF RunTask, StartStub, WakeStub, StartAgent, FactoryRaises, PlanReturns,
         ExecutePasses, ExecuteFails, SessionRaises, TakeCancellation, LoopIdle
<1>2. /\ Resting(r) /\ task[r] \notin {"plan", "execute"}
      /\ proc # "up" \/ task[r] = "ready" => FewLost(r, k)
  BY <1>1, IdlePhase
<1>3. mem[r].phase = k /\ mem[r].policy \in {"stub", "bad_hosts"}
  BY <1>1 DEF PhaseOnDisk, IsStub
<1>4. /\ k \in Phase /\ k \in Int /\ k >= 0 /\ k <= NumPhases /\ NumPhases \in Int
  BY DiskPhase, CellAssumption
<1>5. StubFrom(r, k + 1) = Onward(r, k) /\ StubAwait(k + 1) \in {"sleep", "done"}
  <2>1. k + 1 <= NumPhases <=> k < NumPhases
    BY <1>4
  <2>2. ~(k < NumPhases) => mem[r].phase = NumPhases
    BY <1>3, <1>4
  <2> HIDE DEF k
  <2> QED BY <2>1, <2>2 DEF StubFrom, StubAwait, Onward
<1>6. ASSUME NEW s, NEW t, RunSegment(r, s, t)
      PROVE  /\ disk' = disk /\ file' = file /\ tail' = tail /\ proc' = proc /\ crashes' = crashes
             /\ task'[r] = t /\ script' = s
  BY <1>6 DEF RunSegment, procVars, storeVars, logVars, TypeInv, RunTypeOK
<1>7. ASSUME NEW s, NEW t \in {"sleep", "done"}, RunSegment(r, s, t), proc = "up",
             Middle(r, disk[r].phase)'
      PROVE  PhaseInv(r)'
  <2>1. /\ disk'[r] = disk[r] /\ file'[r] = file[r] /\ tail'[r] = tail[r]
        /\ proc' = "up" /\ crashes' = crashes /\ task'[r] \in {"sleep", "done"}
    BY <1>6, <1>7
  <2>2. task'[r] \notin {"plan", "execute"} /\ ~(proc' # "up" \/ task'[r] = "ready")
    BY <2>1
  <2> QED BY <1>7, <2>1, <2>2, DiskKept, Zenon
<1>8. CASE StartStub(r)
  <2> DEFINE s == <<SaveOf(r, "running", k), EmitOf(r, "run.started", 0)>> \o Onward(r, k)
  <2>1. RunSegment(r, s, StubAwait(k + 1)) /\ proc = "up" /\ task[r] = "ready"
    BY <1>3, <1>5, <1>8 DEF StartStub, LoopIdle
  <2>2. script' = s /\ disk' = disk /\ file' = file /\ tail' = tail /\ crashes' = crashes
    <3> HIDE DEF s
    <3> QED BY <1>6, <2>1
  <2>3. FewLost(r, k)
    BY <1>2, <2>1
  <2>4. Middle(r, disk[r].phase)'
    BY <2>2, <2>3 DEF Middle, Starting, FewLost
  <2> QED BY <1>5, <1>7, <2>1, <2>4
<1>9. CASE WakeStub(r)
  <2> DEFINE s == <<EmitOf(r, "phase.completed", k)>> \o Onward(r, k)
  <2>1. RunSegment(r, s, StubAwait(k + 1)) /\ proc = "up" /\ task[r] = "sleep"
    BY <1>3, <1>5, <1>9 DEF WakeStub, LoopIdle
  <2>2. script' = s /\ disk' = disk /\ tail' = tail
    <3> HIDE DEF s
    <3> QED BY <1>6, <2>1
  <2>3. tail[r] = "whole" /\ k > 0
    BY <1>2, <2>1 DEF Resting
  <2>4. Middle(r, disk[r].phase)'
    BY <2>2, <2>3 DEF Middle, Completing
  <2> QED BY <1>5, <1>7, <2>1, <2>4
<1>10. CASE TakeCancellation(r)
  <2>1. RunSegment(r, <<SaveOf(r, "cancelled", k)>>, "done") /\ task[r] = "interrupted"
    BY <1>3, <1>10 DEF TakeCancellation
  <2>2. /\ script' = <<SaveOf(r, "cancelled", k)>> /\ task'[r] = "done"
        /\ disk' = disk /\ file' = file /\ tail' = tail /\ proc' = proc /\ crashes' = crashes
    BY <1>6, <2>1
  <2>3. Resting(r)'
    BY <2>2 DEF Resting, AllMinor, Minor, SaveOf, Emits, Saves
  <2>4. /\ task'[r] \notin {"plan", "execute"}
        /\ proc' # "up" \/ task'[r] = "ready" => FewLost(r, disk[r].phase)
        /\ disk'[r] = disk[r] /\ file'[r] = file[r] /\ tail'[r] = tail[r] /\ crashes' = crashes
    BY <1>2, <2>2
  <2> QED BY <2>3, <2>4, DiskKept, Zenon
<1>11. StartStub(r) \/ WakeStub(r) \/ TakeCancellation(r)
  <2>1. ~IsAgent(r) /\ mem[r].policy # "agent_with_secret"
    BY <1>3 DEF IsAgent
  <2> QED
    BY <1>2, <2>1 DEF RunTask, StartAgent, FactoryRaises, PlanReturns, ExecutePasses, ExecuteFails,
                      SessionRaises
<1> QED BY <1>8, <1>9, <1>10, <1>11

(* What the dying process leaves of the log of a run: all that was         *)
(* completed, and no phase announced twice.                                *)
LEMMA TornKeepsPhases ==
  ASSUME TypeInv, NEW r \in Runs, PhaseInv(r), TornCrash
  PROVE  /\ Completed(file[r], tail[r]) \subseteq Completed(file'[r], tail'[r])
         /\ Announced(file'[r], disk[r].phase)
<1> DEFINE o == Head(script)
           k == disk[r].phase
           e == NextEvent(o)
<1>1. PICK t \in {"fragment", "unterminated"} :
        Die([file EXCEPT ![o.run] = IF tail[o.run] = "whole" /\ t = "fragment" THEN @
                                    ELSE LinesAfter(@, tail[o.run], e)],
            [tail EXCEPT ![o.run] = IF tail[o.run] = "whole" THEN t ELSE "fragment"],
            Broken)
  BY DEF TornCrash
<1>2. script # <<>> /\ o.do = "emit" /\ o \in Effect /\ o.run \in Runs
  BY NextEffect DEF TornCrash
<1>3. e \in Event /\ e.type = o.what /\ e.phase = o.phase
  <2>1. o.what \in EventType /\ o.phase \in Phase
    BY <1>2 DEF Effect
  <2>2. seq[o.run] + 1 \in Nat
    BY <1>2 DEF TypeInv, RunTypeOK
  <2> QED BY <2>1, <2>2 DEF NextEvent, Event
<1>4. /\ k \in Phase /\ k \in Int /\ file[r] \in Seq(Event) /\ tail[r] \in LineEnd
      /\ Announced(file[r], k)
  BY DiskPhase DEF PhaseInv
<1>5. file \in [Runs -> Seq(Event)] /\ tail \in [Runs -> LineEnd]
  BY DEF TypeInv, RunTypeOK
<1> HIDE DEF o, k, e
<1>6. /\ file' = [file EXCEPT ![o.run] = IF tail[o.run] = "whole" /\ t = "fragment" THEN @
                                         ELSE LinesAfter(@, tail[o.run], e)]
      /\ tail' = [tail EXCEPT ![o.run] = IF tail[o.run] = "whole" THEN t ELSE "fragment"]
  BY <1>1 DEF Die
<1>7. CASE o.run # r
  <2>1. file'[r] = file[r] /\ tail'[r] = tail[r]
    BY <1>5, <1>6, <1>7
  <2> QED BY <1>4, <2>1 DEF k
<1>8. CASE o.run = r
  <2> DEFINE g == LinesAfter(file[r], tail[r], e)
  <2>1. \/ file'[r] = file[r] /\ tail[r] = "whole" /\ tail'[r] = "fragment"
        \/ file'[r] = g /\ tail[r] = "whole" /\ tail'[r] = "unterminated"
        \/ file'[r] = g /\ tail'[r] = "fragment"
    <3> HIDE DEF g
    <3>1. /\ file'[r] = IF tail[r] = "whole" /\ t = "fragment" THEN file[r] ELSE g
          /\ tail'[r] = IF tail[r] = "whole" THEN t ELSE "fragment"
      BY <1>2, <1>5, <1>6, <1>8 DEF g
    <3> QED BY <3>1
  <2>2. Completed(file[r], tail[r]) \subseteq Completed(file'[r], tail'[r])
    BY <1>3, <1>4, <2>1, CompletedGrows
  <2>3. Announced(g, k)
    <3>1. CASE e.type # "phase.started"
      BY <1>3, <1>4, <3>1, AnnouncedGrows
    <3>2. CASE e.type = "phase.started"
      <4>1. ~Resting(r)
        <5>1. ~Minor(o, r, k)
          BY <1>2, <1>3, <1>8, <3>2 DEF Minor, Emits
        <5> QED BY <1>2, <5>1, MinorTail DEF Resting, o, k
      <4>2. Middle(r, k)
        BY <4>1 DEF PhaseInv, k
      <4>3. Announcing(r, k) /\ o = EmitOf(r, "phase.started", k)
        <5>1. \/ o = SaveOf(r, "running", k) \/ o = SaveOf(r, "running", k + 1)
              \/ o = SaveOf(r, "succeeded", k) \/ o = EmitOf(r, "run.started", 0)
              \/ o = EmitOf(r, "run.completed", NumPhases) \/ o = EmitOf(r, "phase.completed", k)
              \/ Announcing(r, k) /\ o = EmitOf(r, "phase.started", k)
          BY <1>4, <4>2, MiddleParts, Zenon DEF o
        <5>2. /\ o # SaveOf(r, "running", k) /\ o # SaveOf(r, "running", k + 1)
              /\ o # SaveOf(r, "succeeded", k)
          BY <1>2 DEF SaveOf
        <5>3. /\ o # EmitOf(r, "run.started", 0) /\ o # EmitOf(r, "run.completed", NumPhases)
              /\ o # EmitOf(r, "phase.completed", k)
          <6>1. o.what = "phase.started"
            BY <1>3, <3>2
          <6> QED BY <6>1 DEF EmitOf
        <5> QED BY <5>1, <5>2, <5>3
      <4>4. Announced(file[r], k - 1) /\ e.phase = k
        BY <1>3, <4>3 DEF Announcing, EmitOf
      <4> QED BY <1>3, <1>4, <3>2, <4>4, AnnouncedGrows
    <3> QED BY <3>1, <3>2
  <2> QED BY <1>4, <2>1, <2>2, <2>3 DEF k
<1> QED BY <1>7, <1>8

(* The process dies, is torn down or starts again.                         *)
LEMMA ProcessKeepsPhase ==
  ASSUME TypeInv, TypeInv', PhaseOnDisk, NEW r \in Runs, PhaseInv(r),
         Crash \/ TornCrash \/ Shutdown \/ ShutdownEnds \/ Restart
  PROVE  PhaseInv(r)'
<1>0. /\ Announced(file[r], disk[r].phase) /\ task[r] \notin {"plan", "execute"}
      /\ proc # "up" \/ task[r] = "ready" => FewLost(r, disk[r].phase)
      /\ crashes \in Nat
  BY DiskPhase DEF PhaseInv
<1>1. CASE Crash \/ TornCrash
  <2>1. /\ proc' = "down" /\ script' = <<>> /\ task' = [q \in Runs |-> "none"]
        /\ disk' = disk /\ crashes' = crashes + 1
    BY <1>1 DEF Crash, TornCrash, Die
  <2>2. /\ Completed(file[r], tail[r]) \subseteq Completed(file'[r], tail'[r])
        /\ Announced(file'[r], disk[r].phase)
    <3>1. CASE Crash
      BY <1>0, <3>1 DEF Crash, Die
    <3>2. CASE TornCrash
      BY <3>2, TornKeepsPhases
    <3> QED BY <1>1, <3>1, <3>2
  <2>3. Resting(r)'
    BY <2>1 DEF Resting, AllMinor
  <2>4. /\ disk'[r].phase = disk[r].phase /\ disk'[r].status = disk[r].status
        /\ task'[r] \notin {"plan", "execute"} /\ crashes' >= crashes
    BY <1>0, <2>1
  <2> QED BY <2>1, <2>2, <2>3, <2>4, PhaseKept, Zenon
<1>2. CASE Shutdown
  <2>1. /\ script = <<>> /\ script' = <<>> /\ crashes' = crashes + 1
        /\ task' = [q \in Runs |-> IF task[q] \in {"sleep", "plan", "execute", "interrupted"}
                                   THEN "interrupted" ELSE "none"]
        /\ disk' = disk /\ file' = file /\ tail' = tail
    BY <1>2 DEF Shutdown, LoopIdle, storeVars, logVars
  <2>2. task'[r] \in {"interrupted", "none"}
    BY <2>1
  <2>3. Resting(r)'
    BY <2>1, <2>2 DEF Resting, AllMinor
  <2>4. /\ disk'[r] = disk[r] /\ file'[r] = file[r] /\ tail'[r] = tail[r]
        /\ task'[r] \notin {"plan", "execute"}
    BY <2>1, <2>2
  <2> QED BY <2>1, <2>3, <2>4, DiskKept, Zenon
<1>3. CASE ShutdownEnds
  <2>1. /\ proc = "closing" /\ script' = <<>> /\ task' = [q \in Runs |-> "none"]
        /\ disk' = disk /\ file' = file /\ tail' = tail /\ crashes' = crashes
    BY <1>3 DEF ShutdownEnds, Die
  <2>2. Resting(r)'
    BY <2>1 DEF Resting, AllMinor
  <2>3. /\ disk'[r] = disk[r] /\ file'[r] = file[r] /\ tail'[r] = tail[r]
        /\ task'[r] \notin {"plan", "execute"} /\ FewLost(r, disk[r].phase)
    BY <1>0, <2>1
  <2> QED BY <2>1, <2>2, <2>3, DiskKept, Zenon
<1>4. CASE Restart
  <2>1. /\ proc = "down" /\ script' = script
        /\ task' = [q \in Runs |-> IF Resumable(disk[q]) THEN "ready" ELSE "none"]
        /\ disk' = disk /\ file' = file /\ tail' = tail /\ crashes' = crashes
    BY <1>4 DEF Restart
  <2>2. script = <<>>
    BY <2>1 DEF TypeInv, KnownRuns
  <2>3. task'[r] \in {"ready", "none"}
    BY <2>1
  <2>4. Resting(r)'
    BY <2>1, <2>2, <2>3 DEF Resting, AllMinor
  <2>5. /\ disk'[r] = disk[r] /\ file'[r] = file[r] /\ tail'[r] = tail[r]
        /\ task'[r] \notin {"plan", "execute"} /\ FewLost(r, disk[r].phase)
    BY <1>0, <2>1, <2>3
  <2> QED BY <2>1, <2>4, <2>5, DiskKept, Zenon
<1> QED BY <1>1, <1>2, <1>3, <1>4

(* Memory and disk agree, but for what a restart has queued again.         *)
LEMMA NextKeepsPhaseOnDisk ==
  ASSUME TypeInv, TypeInv', PhaseOnDisk, [Next]_vars
  PROVE  PhaseOnDisk'
<1> SUFFICES ASSUME NEW r \in Runs
             PROVE  /\ proc' # "down" =>
                         /\ mem'[r].policy = disk'[r].policy /\ mem'[r].phase = disk'[r].phase
                         /\ mem'[r].status = "succeeded" => disk'[r].status = "succeeded"
                    /\ disk'[r].policy = "none" => file'[r] = <<>>
  BY DEF PhaseOnDisk
<1>0. /\ mem \in [Runs -> RunRecord \cup {Absent}] /\ file \in [Runs -> Seq(Event)]
      /\ proc # "down" => /\ mem[r].policy = disk[r].policy /\ mem[r].phase = disk[r].phase
                          /\ mem[r].status = "succeeded" => disk[r].status = "succeeded"
      /\ disk[r].policy = "none" => file[r] = <<>>
  BY DEF TypeInv, RunTypeOK, PhaseOnDisk
<1>1. CASE UNCHANGED <<proc, mem, disk, file>>
  BY <1>0, <1>1
<1>2. \A q \in Runs : mem[q] \in RunRecord => mem[q].policy # "none"
  BY CellAssumption DEF RunRecord, PolicyKinds
<1>3. ASSUME PerformEmit \/ TornCrash
      PROVE  disk'[r].policy = "none" => file'[r] = <<>>
  <2>1. /\ proc # "down" /\ script # <<>> /\ disk' = disk
        /\ \A q \in Runs : q # Head(script).run => file'[q] = file[q]
    <3>1. CASE PerformEmit
      BY <1>0, <3>1 DEF PerformEmit, storeVars
    <3>2. CASE TornCrash
      BY <1>0, <3>2 DEF TornCrash, Die
    <3> QED BY <1>3, <3>1, <3>2
  <2>2. CASE r = Head(script).run
    <3>1. mem[r] \in RunRecord
      BY <2>1, <2>2, NextEffect
    <3> QED BY <1>0, <1>2, <2>1, <3>1
  <2>3. CASE r # Head(script).run
    BY <1>0, <2>1, <2>3
  <2> QED BY <2>2, <2>3
<1>4. CASE PerformEmit
  BY <1>0, <1>3, <1>4 DEF PerformEmit, procVars, storeVars
<1>5. CASE PerformSave
  <2>1. disk'[r].policy = mem[r].policy /\ mem'[r] = disk'[r]
    BY <1>5, SaveWrites
  <2>2. proc # "down" /\ file' = file
    BY <1>5 DEF PerformSave, logVars
  <2> QED BY <1>0, <2>1, <2>2
<1>6. CASE PerformAnswer
  BY <1>1, <1>6 DEF PerformAnswer, procVars, storeVars, logVars
<1>7. ASSUME NEW q \in Runs, CreateRun(q)
      PROVE  /\ mem'[r] = disk'[r]
             /\ disk'[r].policy = "none" => file'[r] = <<>>
  <2>1. /\ proc # "down" /\ disk' = mem' /\ file' = file
    BY <1>7 DEF CreateRun, LoopIdle, logVars
  <2>2. PICK p \in Policies :
          mem' = [mem EXCEPT ![q] = [status |-> "queued", phase |-> 0,
                                     cancelled |-> FALSE, policy |-> p]]
    BY <1>7 DEF CreateRun
  <2>3. p # "none"
    BY CellAssumption DEF PolicyKinds
  <2>4. mem'[r] = mem[r] \/ mem'[r].policy = p
    BY <1>0, <2>2
  <2> QED BY <1>0, <2>1, <2>3, <2>4
<1>8. ASSUME NEW q \in Runs, CancelRun(q)
      PROVE  /\ mem'[r].policy = mem[r].policy /\ mem'[r].phase = mem[r].phase
             /\ mem'[r].status = mem[r].status
             /\ UNCHANGED <<proc, disk, file>>
  <2>1. /\ mem' = [mem EXCEPT ![q].cancelled = TRUE] /\ mem[q] # Absent
        /\ UNCHANGED <<proc, disk, file>>
    BY <1>8 DEF CancelRun, procVars, logVars
  <2>2. mem[q] \in RunRecord
    BY <1>0, <2>1
  <2>3. \/ mem'[r] = mem[r]
        \/ mem'[r] = [mem[r] EXCEPT !.cancelled = TRUE] /\ mem[r] \in RunRecord
    BY <1>0, <2>1, <2>2
  <2> QED BY <2>1, <2>3 DEF RunRecord
<1>9. ASSUME NEW q \in Runs, RunTask(q)
      PROVE  UNCHANGED <<proc, mem, disk, file>>
  <2>1. PICK s, t : RunSegment(q, s, t)
    BY <1>9 DEF RunTask, StartStub, WakeStub, StartAgent, FactoryRaises, PlanReturns,
                ExecutePasses, ExecuteFails, SessionRaises, TakeCancellation
  <2> QED BY <2>1 DEF RunSegment, procVars, storeVars, logVars
<1>10. ASSUME NEW c \in Clients,
              \/ \E q \in Runs : OpenStream(c, q)
              \/ PollStream(c) \/ CheckStream(c) \/ CloseStream(c)
       PROVE  UNCHANGED <<proc, mem, disk, file>>
  BY <1>10 DEF OpenStream, PollStream, CheckStream, CloseStream, StreamUnchanged,
               procVars, storeVars, logVars
<1>11. CASE Crash \/ ShutdownEnds
  BY <1>0, <1>11 DEF Crash, ShutdownEnds, Die
<1>12. CASE TornCrash
  BY <1>3, <1>12 DEF TornCrash, Die
<1>13. CASE Shutdown
  BY <1>0, <1>13 DEF Shutdown, LoopIdle, storeVars, logVars
<1>14. CASE Restart
  <2>1. /\ mem' = [q \in Runs |-> IF Resumable(disk[q])
                                  THEN [disk[q] EXCEPT !.status = "queued"] ELSE disk[q]]
        /\ disk' = disk /\ file' = file
    BY <1>14 DEF Restart
  <2>2. disk[r] \in RunRecord \cup {Absent}
    BY DEF TypeInv, RunTypeOK
  <2>3. CASE Resumable(disk[r])
    <3>1. disk[r] \in RunRecord
      BY <2>2, <2>3 DEF Resumable, Absent
    <3>2. /\ mem'[r].policy = disk[r].policy /\ mem'[r].phase = disk[r].phase
          /\ mem'[r].status = "queued"
      BY <2>1, <2>3, <3>1 DEF RunRecord
    <3> QED BY <1>0, <2>1, <3>2
  <2>4. CASE ~Resumable(disk[r])
    BY <1>0, <2>1, <2>4
  <2> QED BY <2>3, <2>4
<1>15. CASE UNCHANGED vars
  BY <1>1, <1>15 DEF vars
<1>16. CASE \E q \in Runs : CreateRun(q) \/ CancelRun(q) \/ RunTask(q)
  <2>1. PICK q \in Runs : CreateRun(q) \/ CancelRun(q) \/ RunTask(q)
    BY <1>16
  <2>2. CASE CreateRun(q)
    BY <1>7, <2>2
  <2>3. CASE CancelRun(q)
    BY <1>0, <1>8, <2>3
  <2>4. CASE RunTask(q)
    BY <1>1, <1>9, <2>4
  <2> QED BY <2>1, <2>2, <2>3, <2>4
<1> QED
  BY <1>1, <1>4, <1>5, <1>6, <1>10, <1>11, <1>12, <1>13, <1>14, <1>15, <1>16 DEF Next, Perform

(* Every step keeps what is known of a stub run.                           *)
LEMMA NextKeepsStub ==
  ASSUME TypeInv, TypeInv', StubInv, [Next]_vars
  PROVE  StubInv'
<1>1. PhaseOnDisk /\ PhaseOnDisk'
  BY NextKeepsPhaseOnDisk DEF StubInv
<1>2. SUFFICES ASSUME NEW r \in Runs, IsStub(r)'
               PROVE  PhaseInv(r)'
  BY <1>1 DEF StubInv
<1>3. ASSUME NEW q \in Runs, CreateRun(q), q = r \/ IsStub(r)
      PROVE  PhaseInv(r)'
  BY <1>1, <1>2, <1>3, CreateKeepsPhase DEF StubInv
<1>4. IsStub(r) \/ CreateRun(r)
  <2>1. CASE disk'[r].policy = disk[r].policy
    BY <1>2, <2>1 DEF IsStub
  <2>2. CASE Perform
    <3>1. CASE PerformSave
      BY <1>1, <1>2, <3>1, SaveWrites DEF IsStub, PhaseOnDisk, PerformSave
    <3> QED BY <2>1, <2>2, <3>1 DEF Perform, PerformEmit, PerformAnswer, storeVars
  <2>3. ASSUME NEW q \in Runs, CreateRun(q)
        PROVE  q = r \/ disk'[r].policy = disk[r].policy
    <3>1. /\ disk' = mem' /\ proc # "down" /\ mem \in [Runs -> RunRecord \cup {Absent}]
      BY <2>3 DEF CreateRun, LoopIdle, TypeInv, RunTypeOK
    <3>2. q # r => mem'[r] = mem[r]
      BY <2>3, <3>1 DEF CreateRun
    <3> QED BY <1>1, <3>1, <3>2 DEF PhaseOnDisk
  <2>4. ASSUME NEW q \in Runs, CancelRun(q) \/ RunTask(q)
        PROVE  disk' = disk
    <3>1. CASE CancelRun(q)
      BY <3>1 DEF CancelRun
    <3>2. CASE RunTask(q)
      <4>1. PICK s, t : RunSegment(q, s, t)
        BY <3>2 DEF RunTask, StartStub, WakeStub, StartAgent, FactoryRaises, PlanReturns,
                    ExecutePasses, ExecuteFails, SessionRaises, TakeCancellation
      <4> QED BY <4>1 DEF RunSegment, storeVars
    <3> QED BY <2>4, <3>1, <3>2
  <2>5. ASSUME NEW c \in Clients,
               \/ \E q \in Runs : OpenStream(c, q)
               \/ PollStream(c) \/ CheckStream(c) \/ CloseStream(c)
        PROVE  disk' = disk
    BY <2>5 DEF OpenStream, PollStream, CheckStream, CloseStream, StreamUnchanged, storeVars
  <2>6. CASE Crash \/ TornCrash \/ Shutdown \/ ShutdownEnds \/ Restart
    BY <2>1, <2>6 DEF Crash, TornCrash, Shutdown, ShutdownEnds, Restart, Die, storeVars
  <2>7. CASE UNCHANGED vars
    BY <2>1, <2>7 DEF vars
  <2>8. CASE \E q \in Runs : CreateRun(q) \/ CancelRun(q) \/ RunTask(q)
    <3>1. PICK q \in Runs : CreateRun(q) \/ CancelRun(q) \/ RunTask(q)
      BY <2>8
    <3>2. CASE CreateRun(q)
      BY <2>1, <2>3, <3>2
    <3> QED BY <2>1, <2>4, <3>1, <3>2
  <2> QED BY <2>1, <2>2, <2>5, <2>6, <2>7, <2>8 DEF Next
<1>5. CASE ~IsStub(r)
  BY <1>3, <1>4, <1>5
<1>6. CASE IsStub(r)
  <2>1. PhaseInv(r)
    BY <1>6 DEF StubInv
  <2>2. CASE Perform
    <3>1. CASE PerformEmit
      BY <2>1, <3>1, EmitKeepsPhase
    <3>2. CASE PerformSave
      BY <1>1, <2>1, <3>2, SaveKeepsPhase
    <3>3. CASE PerformAnswer
      <4>1. /\ script # <<>> /\ Head(script).do = "answer" /\ script' = Tail(script)
            /\ UNCHANGED <<proc, crashes, disk, file, tail, task>>
        BY <3>3 DEF PerformAnswer, procVars, storeVars, logVars
      <4>2. Resting(r)
        BY <2>1, <4>1, NextIsMinor
      <4>3. AllMinor(Tail(script), r, disk[r].phase)
        BY <4>1, <4>2, MinorTail DEF Resting
      <4>4. Resting(r)'
        BY <4>1, <4>2, <4>3 DEF Resting
      <4>5. /\ task'[r] \notin {"plan", "execute"}
            /\ proc' # "up" \/ task'[r] = "ready" => FewLost(r, disk[r].phase)
            /\ disk'[r] = disk[r] /\ file'[r] = file[r] /\ tail'[r] = tail[r] /\ crashes' = crashes
        BY <2>1, <4>1 DEF PhaseInv
      <4> QED BY <2>1, <4>4, <4>5, DiskKept, Zenon
    <3> QED BY <2>2, <3>1, <3>2, <3>3 DEF Perform
  <2>3. CASE \E q \in Runs : CreateRun(q) \/ CancelRun(q) \/ RunTask(q)
    <3>1. PICK q \in Runs : CreateRun(q) \/ CancelRun(q) \/ RunTask(q)
      BY <2>3
    <3>2. CASE CreateRun(q)
      BY <1>3, <1>6, <3>2
    <3>3. CASE CancelRun(q)
      BY <1>1, <2>1, <3>3, CancelKeepsPhase
    <3>4. CASE RunTask(q)
      <4>1. CASE q = r
        BY <1>1, <1>6, <2>1, <3>4, <4>1, OwnTaskKeepsPhase
      <4>2. CASE q # r
        BY <2>1, <3>4, <4>2, OtherTaskKeepsPhase
      <4> QED BY <4>1, <4>2
    <3> QED BY <3>1, <3>2, <3>3, <3>4
  <2>4. ASSUME UNCHANGED <<proc, disk, file, tail, task, script, crashes>>
        PROVE  PhaseInv(r)'
    BY <2>1, <2>4 DEF PhaseInv, Resting, Middle, Starting, Advancing, Announcing, Finishing,
                      Completing, FewLost
  <2>5. ASSUME NEW c \in Clients,
               \/ \E q \in Runs : OpenStream(c, q)
               \/ PollStream(c) \/ CheckStream(c) \/ CloseStream(c)
        PROVE  PhaseInv(r)'
    <3>1. StreamUnchanged
      BY <2>5 DEF OpenStream, PollStream, CheckStream, CloseStream
    <3> QED BY <2>4, <3>1 DEF StreamUnchanged, procVars, storeVars, logVars
  <2>6. CASE Crash \/ TornCrash \/ Shutdown \/ ShutdownEnds \/ Restart
    BY <1>1, <2>1, <2>6, ProcessKeepsPhase
  <2>7. CASE UNCHANGED vars
    BY <2>4, <2>7 DEF vars
  <2> QED BY <2>2, <2>3, <2>5, <2>6, <2>7 DEF Next
<1> QED BY <1>5, <1>6

(* A phase that is announced once is counted at most once, and one that is *)
(* counted never was not completed.                                        *)
LEMMA PhaseCounts ==
  ASSUME NEW f \in Seq(Event), NEW t, NEW n \in Int, Announced(f, n)
  PROVE  /\ \A p \in 1 .. NumPhases : Count(f, "phase.started", p) <= 1
         /\ Cardinality({p \in 1 .. NumPhases : Count(f, "phase.completed", p) = 0})
              <= Lost(Completed(f, t), NumPhases)
<1> DEFINE At(u, p) == {i \in DOMAIN f : f[i].type = u /\ f[i].phase = p}
<1>1. ASSUME NEW u, NEW p
      PROVE  IsFiniteSet(At(u, p)) /\ Count(f, u, p) = Cardinality(At(u, p))
  <2>1. Len(f) \in Nat /\ DOMAIN f = 1 .. Len(f)
    BY LenProperties
  <2>2. IsFiniteSet(1 .. Len(f))
    BY <2>1, FS_Interval
  <2>3. At(u, p) \in SUBSET (1 .. Len(f))
    BY <2>1
  <2>4. IsFiniteSet(At(u, p))
    <3> HIDE DEF At
    <3> QED BY <2>2, <2>3, FS_Subset
  <2> QED BY <2>4 DEF Count
<1>2. ASSUME NEW p \in 1 .. NumPhases
      PROVE  Count(f, "phase.started", p) <= 1
  <2> DEFINE S == At("phase.started", p)
  <2>1. \A i, j \in S : i = j
    BY DEF Announced
  <2>2. IsFiniteSet(S) /\ Count(f, "phase.started", p) = Cardinality(S)
    <3> HIDE DEF At
    <3> QED BY <1>1
  <2> HIDE DEF S
  <2>3. CASE S = {}
    BY <2>2, <2>3, FS_EmptySet
  <2>4. CASE S # {}
    <3>1. PICK i : i \in S
      BY <2>4
    <3>2. S = {i}
      BY <2>1, <3>1
    <3>3. Cardinality(S) = 1
      BY <3>2, FS_Singleton
    <3> QED BY <2>2, <3>3
  <2> QED BY <2>3, <2>4
<1>3. ASSUME NEW p \in 1 .. NumPhases, Count(f, "phase.completed", p) = 0
      PROVE  p \notin Completed(f, t)
  <2>1. At("phase.completed", p) = {}
    <3> HIDE DEF At
    <3> QED BY <1>1, <1>3, FS_EmptySet
  <2> QED BY <2>1 DEF Completed
<1>4. Cardinality({p \in 1 .. NumPhases : Count(f, "phase.completed", p) = 0})
        <= Lost(Completed(f, t), NumPhases)
  <2> DEFINE S == {p \in 1 .. NumPhases : Count(f, "phase.completed", p) = 0}
             C == Completed(f, t)
  <2>1. S \in SUBSET ((1 .. NumPhases) \ C)
    BY <1>3
  <2> HIDE DEF S, C
  <2>0. NumPhases \in Int
    BY CellAssumption
  <2>2. IsFiniteSet((1 .. NumPhases) \ C)
    BY <2>0, LostIsNumber
  <2>3. Cardinality(S) <= Lost(C, NumPhases)
    BY <2>1, <2>2, FS_Subset DEF Lost
  <2> QED BY <2>3 DEF S, C
<1> QED BY <1>2, <1>4

(* What is known of a stub run is more than what is promised of it.        *)
LEMMA StubInvSuffices ==
  ASSUME TypeInv, StubInv
  PROVE  StubPhases
<1> SUFFICES ASSUME NEW r \in Runs, disk[r].policy \in {"stub", "bad_hosts"}
             PROVE  /\ \A p \in 1 .. NumPhases : Count(file[r], "phase.started", p) <= 1
                    /\ disk[r].status = "succeeded" =>
                         Cardinality({p \in 1 .. NumPhases :
                                        Count(file[r], "phase.completed", p) = 0}) <= crashes
  BY DEF StubPhases
<1> DEFINE S == {p \in 1 .. NumPhases : Count(file[r], "phase.completed", p) = 0}
           C == Completed(file[r], tail[r])
<1>1. PhaseInv(r)
  BY DEF StubInv, IsStub
<1>2. Announced(file[r], disk[r].phase)
  BY <1>1 DEF PhaseInv
<1>3. file[r] \in Seq(Event) /\ disk[r].phase \in Int /\ crashes \in Nat
  BY DiskPhase
<1>4. /\ \A p \in 1 .. NumPhases : Count(file[r], "phase.started", p) <= 1
      /\ Cardinality(S) <= Lost(C, NumPhases)
  BY <1>2, <1>3, PhaseCounts
<1>5. disk[r].status = "succeeded" => Lost(C, NumPhases) <= crashes
  BY <1>1 DEF PhaseInv, FewLost
<1>6. Cardinality(S) \in Nat /\ Lost(C, NumPhases) \in Nat
  <2>1. NumPhases \in Int
    BY CellAssumption
  <2>2. IsFiniteSet(1 .. NumPhases) /\ S \in SUBSET (1 .. NumPhases)
    BY <2>1, FS_Interval
  <2>3. IsFiniteSet(S)
    BY <2>2, FS_Subset
  <2> HIDE DEF S, C
  <2> QED BY <2>1, <2>3, LostIsNumber, FS_CardinalityType
<1> HIDE DEF S, C
<1>7. disk[r].status = "succeeded" => Cardinality(S) <= crashes
  BY <1>3, <1>4, <1>5, <1>6
<1> QED BY <1>4, <1>7 DEF S

(* StubPhases: a stub run, however often it is resumed, announces no phase *)
(* twice; and of one that succeeded no more phases are missing in the log  *)
(* than processes died, be it between two effects or within a line.        *)
THEOREM StubRunsSkipFewPhases == Spec => []StubPhases
<1>1. Init => StubInv
  <2> SUFFICES ASSUME Init
               PROVE  StubInv
    OBVIOUS
  <2> QED
    BY DEF Init, StubInv, PhaseOnDisk, IsStub, Absent
<1>2. LogInv /\ LogInv' /\ StubInv /\ [Next]_vars => StubInv'
  BY NextKeepsStub DEF LogInv, TypeInv
<1>3. LogInv /\ StubInv => StubPhases
  BY StubInvSuffices DEF LogInv, TypeInv
<1>4. Spec => []LogInv
  BY LogInvHolds
<1> QED BY <1>1, <1>2, <1>3, <1>4, PTL DEF Spec

=============================================================================
