------------------------- MODULE AnalysisRunsProofs -------------------------
(***************************************************************************)
(* Proofs about AnalysisRuns: that committed results are true and that a   *)
(* row shows how its stream ended, for any number of rows, streams and     *)
(* symbols.                                                                *)
(*                                                                         *)
(* Every action but StartRun and StreamRun advances one stream, does one   *)
(* of a few things to the rows and their locks, and may commit results.    *)
(* The lemmas are about these parts: Advances(s, g) is what all have in    *)
(* common, and then it is enough to say of each action which parts it has. *)
(***************************************************************************)
EXTENDS AnalysisRuns, TLAPS

Box0 == {"none", "running", "logged", "passed", "failed"}
Row == [mode : Modes, status : Status, events : {0} \cup Stream]
Generator ==
  [pc : PC, run : Run \cup {0}, target : Run \cup {0}, client : BOOLEAN, dirty : BOOLEAN,
   left : SUBSET Symbol, at : Symbol \cup {0}, queued : SUBSET Symbol, box : [Symbol -> Box0],
   end : {"none", "COMPLETED", "FAILED"}, error : BOOLEAN, seen : Status \cup {"none"}]

StreamsTyped == stream \in [Stream -> Generator]
RowsTyped == rows \in [Run -> {Absent} \cup Row]
LocksTyped == lock \in [Run -> {Free} \cup Stream]
ResultsTyped ==
  /\ results \subseteq [run : Run, by : Stream, symbol : Symbol, status : Status,
                        how : {"sandbox", "pull"}]
  /\ pulls \subseteq [by : Stream, tests : SUBSET Symbol]

(* A stream that was opened has rows; one that was not has changed none.   *)
Opened ==
  \A s \in Stream :
    IF At(s, "none") THEN stream[s] = NoStream
    ELSE /\ stream[s].run \in Run /\ Exists(stream[s].run)
         /\ stream[s].target \in Run /\ Exists(stream[s].target)

(* A lock is a change that was flushed and not committed.                  *)
LocksFit ==
  \A r \in Run : lock[r] # Free => stream[lock[r]].dirty /\ stream[lock[r]].target = r

(* What a result says can no longer change: its stream is past the symbol. *)
Earned(x) ==
  /\ ~At(x.by, "none")
  /\ x.how = "sandbox" =>
       /\ x.symbol \notin stream[x.by].left /\ x.symbol # stream[x.by].at
       /\ x.status = "COMPLETED" => stream[x.by].box[x.symbol] = "passed"
  /\ x.how = "pull" => \E p \in pulls : p.by = x.by /\ x.symbol \in p.tests
ResultsTrue == \A x \in results : Earned(x)

(* Nobody else works on, or saves in, the row that s saves in.             *)
Alone(s) ==
  \A q \in Stream \ {s} : stream[q].run # stream[s].run /\ stream[q].target # stream[s].run
Recorded ==
  \A s \in Stream : Alone(s) =>
    /\ At(s, "saving") => rows[stream[s].run].status = stream[s].seen
    /\ At(s, "saved") /\ stream[s].end # "none" =>
         rows[stream[s].run].status = stream[s].end /\ rows[stream[s].run].events = s

Typed == StreamsTyped /\ RowsTyped /\ LocksTyped /\ ResultsTyped
RunsInv == Typed /\ Opened /\ LocksFit /\ ResultsTrue /\ Recorded

-----------------------------------------------------------------------------
(* The parts of a step of stream s to generator g.                         *)

Advances(s, g) ==
  /\ stream' = [stream EXCEPT ![s] = g] /\ g \in Generator
  /\ ~At(s, "none") /\ g.pc # "none"
  /\ g.run = stream[s].run /\ g.target = stream[s].target
  /\ g.left \subseteq stream[s].left /\ g.at \in {0, stream[s].at} \cup stream[s].left
  /\ \A y \in Symbol \ stream[s].left :
       y # stream[s].at => g.box[y] = stream[s].box[y]

RowsKept(s) ==
  /\ RowsTyped'
  /\ \A r \in Run : Exists(r) => Exists(r)'
  /\ \A r \in Run \ {stream[s].run, stream[s].target} : rows'[r] = rows[r]

(* The locks of s are given up, or there are none.                         *)
LocksLeft(s) == lock' = [r \in Run |-> IF lock[r] = s THEN Free ELSE lock[r]]

ResultsKept(s) ==
  /\ ResultsTyped' /\ pulls \subseteq pulls'
  /\ \A x \in results' \ results : x.by = s /\ Earned(x)'

OwnRecord(s, g) ==
  Alone(s) =>
    /\ g.pc = "saving" => rows'[g.run].status = g.seen
    /\ g.pc = "saved" /\ g.end # "none" =>
         rows'[g.run].status = g.end /\ rows'[g.run].events = s

LEMMA Numbers ==
  /\ Free \notin Stream /\ 0 \notin Symbol /\ 0 \notin Run
  /\ Absent \notin Row
BY RunsAssumption DEF Free, Stream, Symbol, Run, Absent, Row

LEMMA Others ==
  ASSUME StreamsTyped, NEW s \in Stream, NEW g, Advances(s, g)
  PROVE  StreamsTyped' /\ stream'[s] = g /\ \A q \in Stream \ {s} : stream'[q] = stream[q]
BY DEF StreamsTyped, Advances

LEMMA OpenedKept ==
  ASSUME RunsInv, NEW s \in Stream, NEW g, Advances(s, g), RowsKept(s)
  PROVE  Opened'
<1>1. stream'[s] = g /\ \A q \in Stream \ {s} : stream'[q] = stream[q]
  BY Others DEF RunsInv, Typed
<1>2. g.pc # "none" /\ ~At(s, "none") /\ g.run = stream[s].run /\ g.target = stream[s].target
  BY DEF Advances
<1>3. \A r \in Run : Exists(r) => Exists(r)'
  BY DEF RowsKept
<1> QED BY <1>1, <1>2, <1>3 DEF RunsInv, Opened, At

LEMMA ResultsStayTrue ==
  ASSUME RunsInv, NEW s \in Stream, NEW g, Advances(s, g), ResultsKept(s)
  PROVE  ResultsTrue'
<1>1. stream'[s] = g /\ \A q \in Stream \ {s} : stream'[q] = stream[q]
  BY Others DEF RunsInv, Typed
<1>2. ASSUME NEW x \in results PROVE Earned(x)'
  <2>1. x.by \in Stream /\ x.symbol \in Symbol /\ Earned(x) /\ pulls \subseteq pulls'
    BY DEF RunsInv, Typed, ResultsTyped, ResultsTrue, ResultsKept
  <2>2. CASE x.by # s
    BY <1>1, <2>1, <2>2 DEF Earned, At
  <2>3. CASE x.by = s
    BY <1>1, <2>1, <2>3, Numbers DEF Earned, At, Advances
  <2> QED BY <2>2, <2>3
<1> QED BY <1>2 DEF ResultsTrue, ResultsKept

LEMMA RecordKept ==
  ASSUME RunsInv, NEW s \in Stream, NEW g, Advances(s, g), RowsKept(s), OwnRecord(s, g)
  PROVE  Recorded'
<1>1. stream'[s] = g /\ \A q \in Stream \ {s} : stream'[q] = stream[q]
  BY Others DEF RunsInv, Typed
<1>2. g.run = stream[s].run /\ g.target = stream[s].target
  BY DEF Advances
<1>3. \A q \in Stream : Alone(q)' => Alone(q)
  BY <1>1, <1>2 DEF Alone
<1>4. ASSUME NEW q \in Stream \ {s}, Alone(q), stream[q].pc # "none"
      PROVE  rows'[stream[q].run] = rows[stream[q].run]
  <2>1. stream[q].run \in Run
    BY <1>4 DEF RunsInv, Opened, At
  <2>2. stream[s].run # stream[q].run /\ stream[s].target # stream[q].run
    BY <1>4 DEF Alone
  <2> QED BY <2>1, <2>2 DEF RowsKept
<1> SUFFICES ASSUME NEW q \in Stream, Alone(q)'
             PROVE  /\ stream'[q].pc = "saving" => rows'[stream'[q].run].status = stream'[q].seen
                    /\ stream'[q].pc = "saved" /\ stream'[q].end # "none" =>
                         /\ rows'[stream'[q].run].status = stream'[q].end
                         /\ rows'[stream'[q].run].events = q
  BY DEF Recorded, At
<1>5. CASE q = s
  BY <1>1, <1>3, <1>5 DEF OwnRecord
<1>6. CASE q # s
  <2>1. stream'[q] = stream[q] /\ Alone(q)
    BY <1>1, <1>3, <1>6
  <2>2. stream[q].pc # "none" => rows'[stream[q].run] = rows[stream[q].run]
    BY <1>4, <1>6, <2>1
  <2> QED BY <2>1, <2>2 DEF RunsInv, Recorded, At
<1> QED BY <1>5, <1>6

LEMMA AdvanceKeeps ==
  ASSUME RunsInv, NEW s \in Stream, NEW g, Advances(s, g), RowsKept(s), LocksTyped', LocksFit',
         ResultsKept(s), OwnRecord(s, g)
  PROVE  RunsInv'
<1>1. StreamsTyped'
  BY Others DEF RunsInv, Typed
<1>2. RowsTyped' /\ ResultsTyped'
  BY DEF RowsKept, ResultsKept
<1> QED BY <1>1, <1>2, OpenedKept, ResultsStayTrue, RecordKept, Zenon DEF RunsInv, Typed

(* Locks: as they were, or given up.                                       *)
LEMMA LocksSame ==
  ASSUME RunsInv, NEW s \in Stream, NEW g, Advances(s, g), g.dirty = stream[s].dirty, lock' = lock
  PROVE  LocksTyped' /\ LocksFit'
<1>1. stream'[s] = g /\ \A q \in Stream \ {s} : stream'[q] = stream[q]
  BY Others DEF RunsInv, Typed
<1>2. \A r \in Run : lock[r] # Free => lock[r] \in Stream
  BY DEF RunsInv, Typed, LocksTyped
<1>3. LocksFit'
  BY <1>1, <1>2 DEF RunsInv, LocksFit, Advances
<1> QED BY <1>3 DEF RunsInv, Typed, LocksTyped

LEMMA LocksGone ==
  ASSUME RunsInv, NEW s \in Stream, NEW g, Advances(s, g), LocksLeft(s)
  PROVE  LocksTyped' /\ LocksFit'
<1>1. stream'[s] = g /\ \A q \in Stream \ {s} : stream'[q] = stream[q]
  BY Others DEF RunsInv, Typed
<1>2. LocksTyped'
  BY DEF RunsInv, Typed, LocksTyped, LocksLeft
<1>3. \A r \in Run : lock'[r] # Free => lock'[r] = lock[r] /\ lock[r] # s /\ lock[r] \in Stream
  BY DEF LocksLeft, RunsInv, Typed, LocksTyped
<1>4. LocksFit'
  BY <1>1, <1>3 DEF RunsInv, LocksFit
<1> QED BY <1>2, <1>4

(* Rows: as they were, or with another status.                             *)
LEMMA RowsSame == ASSUME RunsInv, NEW s \in Stream, rows' = rows PROVE RowsKept(s)
BY DEF RunsInv, Typed, RowsTyped, RowsKept, Exists

LEMMA RowPut ==
  ASSUME RunsInv, NEW s \in Stream, NEW t \in {stream[s].run, stream[s].target}, t \in Run, Exists(t),
         NEW row \in Row, rows' = [rows EXCEPT ![t] = row]
  PROVE  RowsKept(s) /\ rows'[t] = row
BY Numbers DEF RunsInv, Typed, RowsTyped, RowsKept, Exists

LEMMA RowUpdated ==
  ASSUME RunsInv, NEW s \in Stream, ~At(s, "none"), NEW status \in Status,
         rows' = [rows EXCEPT ![Target(s)].status = status]
  PROVE  RowsKept(s)
<1>1. Target(s) = stream[s].target /\ Target(s) \in Run /\ Exists(Target(s))
  BY DEF Target, RunsInv, Opened
<1>2. rows[Target(s)] \in Row
  BY <1>1 DEF RunsInv, Typed, RowsTyped, Exists
<1>3. [rows[Target(s)] EXCEPT !.status = status] \in Row
  BY <1>2 DEF Row
<1>4. rows' = [rows EXCEPT ![Target(s)] = [rows[Target(s)] EXCEPT !.status = status]]
  OBVIOUS
<1> QED BY <1>1, <1>3, <1>4, RowPut, Zenon

(* What most actions do: nothing to the database, or a commit.             *)
LEMMA PrivateKeeps ==
  ASSUME RunsInv, NEW s \in Stream, NEW g, Advances(s, g), g.dirty = stream[s].dirty,
         g.pc \notin {"saving", "saved"}, UNCHANGED <<rows, lock, results>>,
         pulls \subseteq pulls', pulls' \subseteq [by : Stream, tests : SUBSET Symbol]
  PROVE  RunsInv'
<1>1. RowsKept(s) /\ LocksTyped' /\ LocksFit'
  BY RowsSame, LocksSame
<1>2. ResultsKept(s)
  BY DEF RunsInv, Typed, ResultsTyped, ResultsKept
<1>3. OwnRecord(s, g)
  BY DEF OwnRecord
<1> QED BY <1>1, <1>2, <1>3, AdvanceKeeps

LEMMA CommitKeeps ==
  ASSUME RunsInv, NEW s \in Stream, NEW g, Advances(s, g), Committed(s, "RUNNING"),
         g.pc \notin {"saving", "saved"}, ResultsKept(s)
  PROVE  RunsInv'
<1>1. ~At(s, "none") /\ "RUNNING" \in Status
  BY DEF Advances, Status
<1>2. RowsKept(s)
  <2>1. CASE rows' = rows
    BY <2>1, RowsSame
  <2>2. CASE rows' = [rows EXCEPT ![Target(s)].status = "RUNNING"]
    BY <1>1, <2>2, RowUpdated
  <2> QED BY <2>1, <2>2 DEF Committed
<1>3. LocksLeft(s)
  <2>1. \A r \in Run : lock[r] = s => r = Target(s)
    BY Numbers DEF RunsInv, LocksFit, Target
  <2>2. lock' = [lock EXCEPT ![Target(s)] = IF lock[Target(s)] = s THEN Free ELSE lock[Target(s)]]
    BY DEF Committed
  <2> QED BY <2>1, <2>2 DEF LocksLeft, RunsInv, Typed, LocksTyped
<1>4. LocksTyped' /\ LocksFit'
  BY <1>3, LocksGone
<1>5. OwnRecord(s, g)
  BY DEF OwnRecord
<1> QED BY <1>2, <1>4, <1>5, AdvanceKeeps
-----------------------------------------------------------------------------
(* The actions, one by one.                                                *)

LEMMA PastAdvances ==
  ASSUME RunsInv, NEW s \in Stream, NEW x \in Symbol,
         Takes(s, x) \/ \E pc \in {"generating", "following"} : Works(s, x, pc)
  PROVE  /\ Past(s, x) \in Generator /\ Past(s, x).pc = "symbol"
         /\ Past(s, x).dirty = stream[s].dirty
         /\ Past(s, x).run = stream[s].run /\ Past(s, x).target = stream[s].target
         /\ Past(s, x).left = stream[s].left \ {x} /\ Past(s, x).at = 0
         /\ Past(s, x).box = stream[s].box
         /\ ~At(s, "none") /\ x \in {stream[s].at} \cup stream[s].left
<1>1. stream[s] \in Generator
  BY DEF RunsInv, Typed, StreamsTyped
<1> QED BY <1>1 DEF Past, Generator, PC, Working, Takes, Works, At

LEMMA SymbolFailsKeeps ==
  ASSUME RunsInv, NEW s \in Stream, NEW x \in Symbol, SymbolFails(s, x)
  PROVE  RunsInv'
<1> DEFINE g == [Past(s, x) EXCEPT !.box[x] = "none"]
<1>1. Takes(s, x) \/ \E pc \in {"generating", "following"} : Works(s, x, pc)
  BY DEF SymbolFails
<1>2. g \in Generator /\ g.pc = "symbol" /\ g.dirty = stream[s].dirty /\ g.run = stream[s].run
      /\ g.target = stream[s].target /\ g.left = stream[s].left \ {x} /\ g.at = 0
      /\ \A y \in Symbol \ {x} : g.box[y] = stream[s].box[y]
  BY <1>1, PastAdvances DEF Generator, Box0
<1>3. stream' = [stream EXCEPT ![s] = g] /\ UNCHANGED <<rows, lock, results, pulls>>
  BY DEF SymbolFails
<1> HIDE DEF g
<1>4. Advances(s, g)
  BY <1>1, <1>2, <1>3, PastAdvances DEF Advances
<1> QED BY <1>2, <1>3, <1>4, PrivateKeeps DEF RunsInv, Typed, ResultsTyped
LEMMA SkipKeeps ==
  ASSUME RunsInv, NEW s \in Stream, NEW x \in Symbol, Skip(s, x)
  PROVE  RunsInv'
<1>1. Works(s, x, "generating")
  BY DEF Skip, Generates
<1>2. stream' = [stream EXCEPT ![s] = Past(s, x)] /\ UNCHANGED <<rows, lock, results, pulls>>
  BY DEF Skip
<1>3. Advances(s, Past(s, x))
  BY <1>1, <1>2, PastAdvances DEF Advances
<1> QED BY <1>1, <1>2, <1>3, PastAdvances, PrivateKeeps DEF RunsInv, Typed, ResultsTyped

LEMMA QueueKeeps ==
  ASSUME RunsInv, NEW s \in Stream, NEW x \in Symbol, Queue(s, x)
  PROVE  RunsInv'
<1> DEFINE g == [Past(s, x) EXCEPT !.queued = @ \cup {x}]
<1>1. Works(s, x, "generating")
  BY DEF Queue, Generates
<1>2. g \in Generator /\ g.pc = "symbol" /\ g.dirty = stream[s].dirty /\ g.run = stream[s].run
      /\ g.target = stream[s].target /\ g.left = stream[s].left \ {x} /\ g.at = 0
      /\ g.box = stream[s].box
  BY <1>1, PastAdvances DEF Generator
<1>3. stream' = [stream EXCEPT ![s] = g] /\ UNCHANGED <<rows, lock, results, pulls>>
  BY DEF Queue
<1> HIDE DEF g
<1>4. Advances(s, g)
  BY <1>1, <1>2, <1>3, PastAdvances DEF Advances
<1> QED BY <1>2, <1>3, <1>4, PrivateKeeps DEF RunsInv, Typed, ResultsTyped

(* Steps that change nothing but where the generator is, or its container.  *)
LEMMA ExecuteKeeps ==
  ASSUME RunsInv, NEW s \in Stream, NEW x \in Symbol, Execute(s, x)
  PROVE  RunsInv'
<1> DEFINE g == [stream[s] EXCEPT !.pc = "following", !.box[x] = "running"]
<1>1. stream[s] \in Generator /\ stream \in [Stream -> Generator]
  BY DEF RunsInv, Typed, StreamsTyped
<1>2. stream[s].pc = "generating" /\ stream[s].at = x
  BY DEF Execute, Generates, Works, At
<1>3. g \in Generator /\ g.pc = "following" /\ g.dirty = stream[s].dirty
      /\ g.run = stream[s].run /\ g.target = stream[s].target /\ g.left = stream[s].left
      /\ g.at = stream[s].at /\ \A y \in Symbol \ {x} : g.box[y] = stream[s].box[y]
  BY <1>1 DEF Generator, Box0, PC, Working
<1>4. stream' = [stream EXCEPT ![s] = g] /\ UNCHANGED <<rows, lock, results, pulls>>
  BY <1>1 DEF Execute
<1> HIDE DEF g
<1>5. Advances(s, g)
  BY <1>2, <1>3, <1>4 DEF Advances, At
<1> QED BY <1>3, <1>4, <1>5, PrivateKeeps DEF RunsInv, Typed, ResultsTyped

LEMMA BoxKeeps ==
  ASSUME RunsInv, NEW s \in Stream, NEW x \in Symbol, Box(s, x)
  PROVE  RunsInv'
<1>1. PICK b \in Box0 : stream' = [stream EXCEPT ![s].box[x] = b]
  BY DEF Box, Box0
<1> DEFINE g == [stream[s] EXCEPT !.box[x] = b]
<1>2. stream[s] \in Generator /\ stream \in [Stream -> Generator]
  BY DEF RunsInv, Typed, StreamsTyped
<1>3. stream[s].pc = "following" /\ stream[s].at = x
  BY DEF Box, Works, At
<1>4. g \in Generator /\ g.pc = "following" /\ g.dirty = stream[s].dirty
      /\ g.run = stream[s].run /\ g.target = stream[s].target /\ g.left = stream[s].left
      /\ g.at = stream[s].at /\ \A y \in Symbol \ {x} : g.box[y] = stream[s].box[y]
  BY <1>2, <1>3 DEF Generator
<1>5. stream' = [stream EXCEPT ![s] = g] /\ UNCHANGED <<rows, lock, results, pulls>>
  BY <1>1, <1>2 DEF Box
<1> HIDE DEF g
<1>6. Advances(s, g)
  BY <1>3, <1>4, <1>5 DEF Advances, At
<1> QED BY <1>4, <1>5, <1>6, PrivateKeeps DEF RunsInv, Typed, ResultsTyped

LEMMA FinishKeeps ==
  ASSUME RunsInv, NEW s \in Stream, Finish(s)
  PROVE  RunsInv'
<1> DEFINE g == [stream[s] EXCEPT !.pc = "ending", !.end = "COMPLETED", !.error = FALSE]
<1>1. stream[s] \in Generator /\ stream \in [Stream -> Generator]
  BY DEF RunsInv, Typed, StreamsTyped
<1>2. stream[s].pc = "symbol"
  BY DEF Finish, At
<1>3. g \in Generator /\ g.pc = "ending" /\ g.dirty = stream[s].dirty
      /\ g.run = stream[s].run /\ g.target = stream[s].target /\ g.left = stream[s].left
      /\ g.at = stream[s].at /\ g.box = stream[s].box
  BY <1>1 DEF Generator, PC
<1>4. stream' = [stream EXCEPT ![s] = g] /\ UNCHANGED <<rows, lock, results, pulls>>
  BY <1>1 DEF Finish
<1> HIDE DEF g
<1>5. Advances(s, g)
  BY <1>2, <1>3, <1>4 DEF Advances, At
<1> QED BY <1>3, <1>4, <1>5, PrivateKeeps DEF RunsInv, Typed, ResultsTyped

LEMMA ProposeFailsKeeps ==
  ASSUME RunsInv, NEW s \in Stream, ProposeFails(s)
  PROVE  RunsInv'
<1> DEFINE g == [stream[s] EXCEPT !.queued = {}, !.error = TRUE]
<1>1. stream[s] \in Generator /\ stream \in [Stream -> Generator]
  BY DEF RunsInv, Typed, StreamsTyped
<1>2. stream[s].pc = "symbol"
  BY DEF ProposeFails, At
<1>3. g \in Generator /\ g.pc = "symbol" /\ g.dirty = stream[s].dirty
      /\ g.run = stream[s].run /\ g.target = stream[s].target /\ g.left = stream[s].left
      /\ g.at = stream[s].at /\ g.box = stream[s].box
  BY <1>1, <1>2 DEF Generator
<1>4. stream' = [stream EXCEPT ![s] = g] /\ UNCHANGED <<rows, lock, results>>
  BY <1>1 DEF ProposeFails
<1>5. pulls \subseteq pulls' /\ pulls' \subseteq [by : Stream, tests : SUBSET Symbol]
  <2>1. [by |-> s, tests |-> stream[s].queued] \in [by : Stream, tests : SUBSET Symbol]
    BY <1>1 DEF Generator
  <2> QED BY <2>1 DEF ProposeFails, RunsInv, Typed, ResultsTyped
<1> HIDE DEF g
<1>6. Advances(s, g)
  BY <1>2, <1>3, <1>4 DEF Advances, At
<1> QED BY <1>3, <1>4, <1>5, <1>6, PrivateKeeps
LEMMA LeaveKeeps ==
  ASSUME RunsInv, NEW s \in Stream, Leave(s)
  PROVE  RunsInv'
<1>1. stream[s] \in Generator /\ stream \in [Stream -> Generator]
  BY DEF RunsInv, Typed, StreamsTyped
<1>2. stream[s].pc # "none" /\ UNCHANGED <<rows, lock, results, pulls>>
  BY DEF Leave, RunsInv, Opened, At, NoStream
<1>3. CASE stream[s].pc \in Working
  <2> DEFINE g == Cancelled(stream[s])
  <2>1. g \in Generator /\ g.pc = "ending" /\ g.dirty = stream[s].dirty
        /\ g.run = stream[s].run /\ g.target = stream[s].target /\ g.left = {} /\ g.at = 0
        /\ \A y \in Symbol : y # stream[s].at => g.box[y] = stream[s].box[y]
    BY <1>1 DEF Cancelled, Generator, PC, Box0
  <2>2. stream' = [stream EXCEPT ![s] = g]
    BY <1>3 DEF Leave
  <2> HIDE DEF g
  <2>3. Advances(s, g)
    BY <1>2, <2>1, <2>2 DEF Advances, At
  <2> QED BY <1>2, <2>1, <2>3, PrivateKeeps DEF RunsInv, Typed, ResultsTyped
<1>4. CASE stream[s].pc \notin Working
  <2> DEFINE g == [stream[s] EXCEPT !.client = FALSE]
  <2>1. g \in Generator /\ g.pc = stream[s].pc /\ g.dirty = stream[s].dirty
        /\ g.run = stream[s].run /\ g.target = stream[s].target /\ g.left = stream[s].left
        /\ g.at = stream[s].at /\ g.box = stream[s].box
        /\ g.end = stream[s].end /\ g.seen = stream[s].seen
    BY <1>1 DEF Generator
  <2>2. stream' = [stream EXCEPT ![s] = g]
    BY <1>4 DEF Leave
  <2> HIDE DEF g
  <2>3. Advances(s, g)
    BY <1>2, <2>1, <2>2 DEF Advances, At
  <2>4. RowsKept(s) /\ LocksTyped' /\ LocksFit'
    BY <1>2, <2>1, <2>3, RowsSame, LocksSame
  <2>5. ResultsKept(s)
    BY <1>2 DEF RunsInv, Typed, ResultsTyped, ResultsKept
  <2>6. OwnRecord(s, g)
    BY <1>2, <2>1 DEF OwnRecord, RunsInv, Recorded, At
  <2> QED BY <2>3, <2>4, <2>5, <2>6, AdvanceKeeps
<1> QED BY <1>3, <1>4

LEMMA ReuseKeeps ==
  ASSUME RunsInv, NEW s \in Stream, NEW x \in Symbol, Reuse(s, x)
  PROVE  RunsInv'
<1> DEFINE g == [Past(s, x) EXCEPT !.dirty = FALSE]
<1>1. Takes(s, x) /\ Committed(s, "RUNNING")
  BY DEF Reuse
<1>1a. /\ Past(s, x) \in Generator /\ Past(s, x).pc = "symbol"
      /\ Past(s, x).run = stream[s].run /\ Past(s, x).target = stream[s].target
      /\ Past(s, x).left = stream[s].left \ {x} /\ Past(s, x).at = 0
      /\ Past(s, x).box = stream[s].box
  BY <1>1, PastAdvances
<1>2. g \in Generator /\ g.pc = "symbol" /\ g.run = stream[s].run
      /\ g.target = stream[s].target /\ g.left = stream[s].left \ {x} /\ g.at = 0
      /\ g.box = stream[s].box
  BY <1>1a DEF Generator
<1>3. stream' = [stream EXCEPT ![s] = g] /\ UNCHANGED <<results, pulls>>
  BY DEF Reuse
<1> HIDE DEF g
<1>4. Advances(s, g)
  BY <1>1, <1>2, <1>3, PastAdvances DEF Advances
<1>5. ResultsKept(s)
  BY <1>3 DEF RunsInv, Typed, ResultsTyped, ResultsKept
<1> QED BY <1>1, <1>2, <1>4, <1>5, CommitKeeps

LEMMA CommitResultKeeps ==
  ASSUME RunsInv, NEW s \in Stream, NEW x \in Symbol, CommitResult(s, x)
  PROVE  RunsInv'
<1> DEFINE g == [Past(s, x) EXCEPT !.dirty = FALSE]
<1>0. PICK result : result = Result(s, x, "sandbox", BoxStatus(stream[s].box[x]))
  OBVIOUS
<1>1. Works(s, x, "following") /\ Committed(s, "RUNNING")
  BY DEF CommitResult
<1>1a. /\ Past(s, x) \in Generator /\ Past(s, x).pc = "symbol"
      /\ Past(s, x).run = stream[s].run /\ Past(s, x).target = stream[s].target
      /\ Past(s, x).left = stream[s].left \ {x} /\ Past(s, x).at = 0
      /\ Past(s, x).box = stream[s].box
  BY <1>1, PastAdvances
<1>2. g \in Generator /\ g.pc = "symbol" /\ g.run = stream[s].run
      /\ g.target = stream[s].target /\ g.left = stream[s].left \ {x} /\ g.at = 0
      /\ g.box = stream[s].box
  BY <1>1a DEF Generator
<1>3. stream' = [stream EXCEPT ![s] = g] /\ pulls' = pulls
  BY DEF CommitResult
<1>4. stream'[s] = g
  BY <1>3 DEF RunsInv, Typed, StreamsTyped
<1>5. /\ result.by = s /\ result.symbol = x /\ result.how = "sandbox"
      /\ result.status \in Status
      /\ result.status = "COMPLETED" => stream[s].box[x] = "passed"
      /\ result \in [run : Run, by : Stream, symbol : Symbol, status : Status,
                     how : {"sandbox", "pull"}]
  <2>1. stream[s].target \in Run
    BY <1>1 DEF RunsInv, Opened, Works, At
  <2> QED BY <1>0, <2>1 DEF Result, BoxStatus, Status, Target
<1>6. results' = results \cup {result}
  BY <1>0 DEF CommitResult
<1> HIDE DEF g
<1>7. Advances(s, g)
  BY <1>1, <1>2, <1>3, PastAdvances DEF Advances
<1>8. Earned(result)'
  BY <1>2, <1>4, <1>5, Numbers DEF Earned, At
<1>9. ResultsKept(s)
  BY <1>3, <1>5, <1>6, <1>8 DEF RunsInv, Typed, ResultsTyped, ResultsKept
<1> QED BY <1>1, <1>2, <1>7, <1>9, CommitKeeps

LEMMA ProposeKeeps ==
  ASSUME RunsInv, NEW s \in Stream, Propose(s)
  PROVE  RunsInv'
<1> DEFINE g == [stream[s] EXCEPT !.queued = {}, !.dirty = FALSE]
           pull == [by |-> s, tests |-> stream[s].queued]
<1>1. stream[s] \in Generator /\ stream \in [Stream -> Generator]
  BY DEF RunsInv, Typed, StreamsTyped
<1>2. stream[s].pc = "symbol" /\ Committed(s, "RUNNING")
  BY DEF Propose, At
<1>3. g \in Generator /\ g.pc = "symbol"
      /\ g.run = stream[s].run /\ g.target = stream[s].target /\ g.left = stream[s].left
      /\ g.at = stream[s].at /\ g.box = stream[s].box
  BY <1>1, <1>2 DEF Generator
<1>4. stream' = [stream EXCEPT ![s] = g] /\ stream'[s] = g
  BY <1>1 DEF Propose
<1>5. pulls' = pulls \cup {pull} /\ pull \in [by : Stream, tests : SUBSET Symbol] /\ pull.by = s
      /\ pull.tests = stream[s].queued
  BY <1>1 DEF Propose, Generator
<1>6. \A y \in results' \ results :
        /\ y \in [run : Run, by : Stream, symbol : Symbol, status : Status,
                  how : {"sandbox", "pull"}]
        /\ y.by = s /\ y.how = "pull" /\ y.symbol \in stream[s].queued
  <2> SUFFICES ASSUME NEW y \in results' \ results
               PROVE  /\ y \in [run : Run, by : Stream, symbol : Symbol, status : Status,
                                how : {"sandbox", "pull"}]
                      /\ y.by = s /\ y.how = "pull" /\ y.symbol \in stream[s].queued
    OBVIOUS
  <2>1. PICK x \in stream[s].queued : y = Result(s, x, "pull", "COMPLETED")
    BY DEF Propose
  <2>2. stream[s].target \in Run /\ x \in Symbol
    BY <1>1, <1>2 DEF RunsInv, Opened, At, Generator
  <2> QED BY <2>1, <2>2 DEF Result, Status, Target
<1>7. results \subseteq results'
  BY DEF Propose
<1> HIDE DEF g, pull
<1>8. Advances(s, g)
  BY <1>2, <1>3, <1>4 DEF Advances, At
<1>9. \A y \in results' \ results : Earned(y)'
  BY <1>3, <1>4, <1>5, <1>6 DEF Earned, At
<1>10. ResultsTyped'
  BY <1>5, <1>6 DEF RunsInv, Typed, ResultsTyped
<1>11. ResultsKept(s)
  BY <1>5, <1>6, <1>9, <1>10 DEF ResultsKept
<1> QED BY <1>2, <1>3, <1>8, <1>11, CommitKeeps
LEMMA ReadCapsuleKeeps ==
  ASSUME RunsInv, NEW s \in Stream, NEW x \in Symbol, ReadCapsule(s, x)
  PROVE  RunsInv'
<1> DEFINE g == [stream[s] EXCEPT !.pc = "generating", !.at = x]
<1>1. stream[s] \in Generator /\ stream \in [Stream -> Generator]
  BY DEF RunsInv, Typed, StreamsTyped
<1>2. stream[s].pc = "symbol" /\ x \in stream[s].left /\ stream[s].target \in Run
  BY DEF ReadCapsule, Takes, At, RunsInv, Opened
<1>3. g \in Generator /\ g.pc = "generating" /\ g.dirty = stream[s].dirty
      /\ g.run = stream[s].run /\ g.target = stream[s].target /\ g.left = stream[s].left
      /\ g.at = x /\ g.box = stream[s].box
  BY <1>1 DEF Generator, PC, Working
<1>4. stream' = [stream EXCEPT ![s] = g] /\ UNCHANGED <<rows, results, pulls>>
  BY <1>1 DEF ReadCapsule
<1>5. \A r \in Run : lock'[r] # lock[r] => stream[s].dirty /\ r = stream[s].target /\ lock'[r] = s
  BY DEF ReadCapsule, Flush, Target, RunsInv, Typed, LocksTyped
<1>6. LocksTyped'
  BY <1>2 DEF ReadCapsule, Flush, Target, RunsInv, Typed, LocksTyped
<1> HIDE DEF g
<1>7. Advances(s, g)
  BY <1>2, <1>3, <1>4 DEF Advances, At
<1>8. LocksFit'
  <2>1. stream'[s] = g /\ \A q \in Stream \ {s} : stream'[q] = stream[q]
    BY <1>7, Others DEF RunsInv, Typed
  <2>2. \A q \in Stream : stream'[q].dirty = stream[q].dirty /\ stream'[q].target = stream[q].target
    BY <1>3, <2>1
  <2> SUFFICES ASSUME NEW r \in Run, lock'[r] # Free
               PROVE  stream'[lock'[r]].dirty /\ stream'[lock'[r]].target = r
    BY DEF LocksFit
  <2>3. lock'[r] \in Stream
    BY <1>6 DEF LocksTyped
  <2>4. stream[lock'[r]].dirty /\ stream[lock'[r]].target = r
    BY <1>5 DEF RunsInv, LocksFit
  <2> QED BY <2>2, <2>3, <2>4
<1>9. RowsKept(s) /\ ResultsKept(s) /\ OwnRecord(s, g)
  BY <1>3, <1>4, RowsSame DEF RunsInv, Typed, ResultsTyped, ResultsKept, OwnRecord
<1> QED BY <1>6, <1>7, <1>8, <1>9, AdvanceKeeps

LEMMA FailKeeps ==
  ASSUME RunsInv, NEW s \in Stream, Fail(s)
  PROVE  RunsInv'
<1> DEFINE g == [stream[s] EXCEPT !.pc = "ending", !.dirty = FALSE, !.end = "FAILED"]
<1>1. stream[s] \in Generator /\ stream \in [Stream -> Generator]
  BY DEF RunsInv, Typed, StreamsTyped
<1>2. stream[s].pc = "failing"
  BY DEF Fail, At
<1>3. g \in Generator /\ g.pc = "ending"
      /\ g.run = stream[s].run /\ g.target = stream[s].target /\ g.left = stream[s].left
      /\ g.at = stream[s].at /\ g.box = stream[s].box
  BY <1>1 DEF Generator, PC
<1>4. stream' = [stream EXCEPT ![s] = g] /\ UNCHANGED <<lock, results, pulls>>
  BY <1>1 DEF Fail
<1> HIDE DEF g
<1>5. Advances(s, g)
  BY <1>2, <1>3, <1>4 DEF Advances, At
<1>6. LocksLeft(s)
  <2>1. \A r \in Run : lock[r] # s
    BY Numbers DEF Fail, RunsInv, LocksFit, Target
  <2> QED BY <1>4, <2>1 DEF LocksLeft, RunsInv, Typed, LocksTyped
<1>7. RowsKept(s)
  BY <1>2, RowUpdated DEF Fail, At, Status
<1>8. ResultsKept(s) /\ OwnRecord(s, g)
  BY <1>3, <1>4 DEF RunsInv, Typed, ResultsTyped, ResultsKept, OwnRecord
<1> QED BY <1>5, <1>6, <1>7, <1>8, LocksGone, AdvanceKeeps

LEMMA PersistReadKeeps ==
  ASSUME RunsInv, NEW s \in Stream, PersistRead(s)
  PROVE  RunsInv'
<1> DEFINE g == [stream[s] EXCEPT !.pc = "saving", !.seen = rows[stream[s].run].status]
<1>1. stream[s] \in Generator /\ stream \in [Stream -> Generator]
  BY DEF RunsInv, Typed, StreamsTyped
<1>2. stream[s].pc = "ending" /\ stream[s].run \in Run /\ Exists(stream[s].run)
  BY DEF PersistRead, At, RunsInv, Opened
<1>3. rows[stream[s].run].status \in Status
  BY <1>2 DEF RunsInv, Typed, RowsTyped, Exists, Row
<1>4. g \in Generator /\ g.pc = "saving" /\ g.dirty = stream[s].dirty
      /\ g.run = stream[s].run /\ g.target = stream[s].target /\ g.left = stream[s].left
      /\ g.at = stream[s].at /\ g.box = stream[s].box /\ g.seen = rows[stream[s].run].status
  BY <1>1, <1>3 DEF Generator, PC
<1>5. stream' = [stream EXCEPT ![s] = g] /\ UNCHANGED <<rows, lock, results, pulls>>
  BY <1>1 DEF PersistRead, SavesIn
<1> HIDE DEF g
<1>6. Advances(s, g)
  BY <1>2, <1>4, <1>5 DEF Advances, At
<1>7. RowsKept(s) /\ LocksTyped' /\ LocksFit'
  BY <1>4, <1>5, <1>6, RowsSame, LocksSame
<1>8. ResultsKept(s) /\ OwnRecord(s, g)
  BY <1>4, <1>5 DEF RunsInv, Typed, ResultsTyped, ResultsKept, OwnRecord
<1> QED BY <1>6, <1>7, <1>8, AdvanceKeeps

(* The status is left out of the update only when it is what was read, and *)
(* in a row of its own a stream finds what it read.                        *)
LEMMA PersistWriteKeeps ==
  ASSUME RunsInv, NEW s \in Stream, PersistWrite(s)
  PROVE  RunsInv'
<1> DEFINE g == [stream[s] EXCEPT !.pc = "saved", !.seen = "none", !.client = FALSE,
                                  !.dirty = FALSE]
           r == stream[s].run
           status == IF Outcome(s) \in {"none", stream[s].seen} THEN rows[r].status ELSE Outcome(s)
           row == [rows[r] EXCEPT !.events = s, !.status = status]
<1>1. stream[s] \in Generator /\ stream \in [Stream -> Generator]
  BY DEF RunsInv, Typed, StreamsTyped
<1>2. stream[s].pc = "saving" /\ r \in Run /\ Exists(r)
  BY DEF PersistWrite, At, RunsInv, Opened
<1>3. rows[r] \in Row
  BY <1>2 DEF RunsInv, Typed, RowsTyped, Exists
<1>4. Outcome(s) \in Status \cup {"none"}
  BY <1>1 DEF Outcome, Generator, Status
<1>5. row \in Row /\ row.events = s /\ row.status = status
  BY <1>3, <1>4 DEF Row
<1>6. rows' = [rows EXCEPT ![r] = row]
  BY DEF PersistWrite, SavesIn
<1>7. g \in Generator /\ g.pc = "saved" /\ g.run = r
      /\ g.target = stream[s].target /\ g.left = stream[s].left
      /\ g.at = stream[s].at /\ g.box = stream[s].box /\ g.end = stream[s].end
  BY <1>1 DEF Generator, PC
<1>8. stream' = [stream EXCEPT ![s] = g] /\ LocksLeft(s) /\ UNCHANGED <<results, pulls>>
  BY <1>1 DEF PersistWrite, RolledBack, LocksLeft
<1>9. Alone(s) /\ stream[s].end # "none" => status = stream[s].end
  BY <1>2 DEF Outcome, RunsInv, Recorded, At
<1> HIDE DEF g, row, status
<1>10. Advances(s, g)
  BY <1>2, <1>7, <1>8 DEF Advances, At
<1>11. RowsKept(s) /\ rows'[r] = row
  BY <1>2, <1>5, <1>6, RowPut
<1>12. ResultsKept(s)
  BY <1>8 DEF RunsInv, Typed, ResultsTyped, ResultsKept
<1>13. OwnRecord(s, g)
  BY <1>5, <1>7, <1>9, <1>11 DEF OwnRecord
<1> QED BY <1>8, <1>10, <1>11, <1>12, <1>13, LocksGone, AdvanceKeeps

LEMMA ReleaseKeeps ==
  ASSUME RunsInv, NEW s \in Stream, Release(s)
  PROVE  RunsInv'
<1> DEFINE g == [stream[s] EXCEPT !.dirty = FALSE]
<1>1. stream[s] \in Generator /\ stream \in [Stream -> Generator]
  BY DEF RunsInv, Typed, StreamsTyped
<1>2. stream[s].pc \in {"ending", "saving"}
  BY DEF Release
<1>3. g \in Generator /\ g.pc = stream[s].pc
      /\ g.run = stream[s].run /\ g.target = stream[s].target /\ g.left = stream[s].left
      /\ g.at = stream[s].at /\ g.box = stream[s].box
      /\ g.end = stream[s].end /\ g.seen = stream[s].seen
  BY <1>1 DEF Generator
<1>4. stream' = [stream EXCEPT ![s] = g] /\ LocksLeft(s) /\ UNCHANGED <<rows, results, pulls>>
  BY <1>1 DEF Release, RolledBack, LocksLeft
<1> HIDE DEF g
<1>5. Advances(s, g)
  BY <1>2, <1>3, <1>4 DEF Advances, At
<1>6. RowsKept(s) /\ ResultsKept(s)
  BY <1>4, RowsSame DEF RunsInv, Typed, ResultsTyped, ResultsKept
<1>7. OwnRecord(s, g)
  BY <1>3, <1>4 DEF OwnRecord, RunsInv, Recorded, At
<1> QED BY <1>4, <1>5, <1>6, <1>7, LocksGone, AdvanceKeeps
(* A stream that opens has changed nothing yet; the row it was asked for   *)
(* and the one it works on exist.                                          *)
LEMMA StreamRunKeeps ==
  ASSUME RunsInv, NEW s \in Stream, NEW r \in Run, StreamRun(s, r)
  PROVE  RunsInv'
<1>1. PICK t \in Run, n \in 0..MaxSymbols, pc \in {"symbol", "failing"} :
        /\ Newest(t)
        /\ pc = "failing" => n = 0
        /\ stream' = [stream EXCEPT ![s] = [NoStream EXCEPT
             !.pc = pc, !.run = r, !.target = t, !.client = TRUE,
             !.dirty = rows[t].status # "RUNNING", !.left = 1..n]]
  BY Zenon DEF StreamRun
<1> DEFINE g == [NoStream EXCEPT !.pc = pc, !.run = r, !.target = t, !.client = TRUE,
                                 !.dirty = rows[t].status # "RUNNING", !.left = 1..n]
<1>2. At(s, "none") /\ Exists(r) /\ Exists(t) /\ UNCHANGED <<rows, lock, results, pulls>>
  BY <1>1 DEF StreamRun, Newest
<1>3. NoStream \in Generator
  BY DEF NoStream, Generator, PC, Box0
<1>4. 1..n \subseteq Symbol
  BY RunsAssumption DEF Symbol
<1>5. g \in Generator /\ g.pc \notin {"none", "saving", "saved"} /\ g.run = r /\ g.target = t
  BY <1>3, <1>4 DEF Generator, PC, Working
<1> HIDE DEF g
<1>6. StreamsTyped' /\ stream'[s] = g /\ \A q \in Stream \ {s} : stream'[q] = stream[q]
  BY <1>1, <1>5 DEF RunsInv, Typed, StreamsTyped, g
<1>7. stream[s] = NoStream /\ ~stream[s].dirty /\ stream[s].run = 0 /\ stream[s].target = 0
  <2>1. stream[s] = NoStream
    BY <1>2 DEF RunsInv, Opened
  <2> QED BY <2>1 DEF NoStream
<1>8. Typed'
  BY <1>2, <1>6 DEF RunsInv, Typed, RowsTyped, LocksTyped, ResultsTyped
<1>9. Opened'
  BY <1>1, <1>2, <1>5, <1>6 DEF RunsInv, Opened, At, Exists
<1>10. LocksFit'
  <2>1. \A q \in Run : lock[q] # Free => lock[q] \in Stream \ {s}
    BY <1>7 DEF RunsInv, Typed, LocksTyped, LocksFit
  <2> QED BY <1>2, <1>6, <2>1 DEF RunsInv, LocksFit
<1>11. ResultsTrue'
  <2> SUFFICES ASSUME NEW x \in results PROVE Earned(x)'
    BY <1>2 DEF ResultsTrue
  <2>1. Earned(x) /\ x.by \in Stream \ {s}
    BY <1>2 DEF RunsInv, Typed, ResultsTyped, ResultsTrue, Earned
  <2> QED BY <1>2, <1>6, <2>1 DEF Earned, At
<1>12. Recorded'
  <2> SUFFICES ASSUME NEW q \in Stream, Alone(q)', stream'[q].pc \in {"saving", "saved"}
               PROVE  /\ stream'[q].pc = "saving" =>
                           rows[stream'[q].run].status = stream'[q].seen
                      /\ stream'[q].pc = "saved" /\ stream'[q].end # "none" =>
                           /\ rows[stream'[q].run].status = stream'[q].end
                           /\ rows[stream'[q].run].events = q
    BY <1>2 DEF Recorded, At
  <2>1. q # s /\ stream'[q] = stream[q]
    BY <1>5, <1>6
  <2>2. stream[q].run \in Run
    BY <2>1 DEF RunsInv, Opened, At
  <2>3. Alone(q)
    BY <1>6, <1>7, <2>1, <2>2, Numbers DEF Alone
  <2> QED BY <2>1, <2>3 DEF RunsInv, Recorded, At
<1> QED BY <1>8, <1>9, <1>10, <1>11, <1>12 DEF RunsInv

LEMMA StartRunKeeps ==
  ASSUME RunsInv, NEW mode \in Modes, StartRun(mode)
  PROVE  RunsInv'
<1> DEFINE row == [mode |-> mode, status |-> "PENDING", events |-> 0]
<1>1. PICK r \in Run : ~Exists(r) /\ rows' = [rows EXCEPT ![r] = row]
  BY DEF StartRun
<1>2. row \in Row
  BY DEF Row, Status
<1> HIDE DEF row
<1>3. UNCHANGED <<lock, results, pulls, stream>>
  BY DEF StartRun
<1>4. RowsTyped' /\ \A q \in Run : Exists(q) => rows'[q] = rows[q] /\ Exists(q)'
  BY <1>1, <1>2 DEF RunsInv, Typed, RowsTyped, Exists
<1>5. Typed'
  BY <1>3, <1>4 DEF RunsInv, Typed, StreamsTyped, LocksTyped, ResultsTyped
<1>6. Opened'
  BY <1>3, <1>4 DEF RunsInv, Opened, At
<1>7. LocksFit' /\ ResultsTrue'
  BY <1>3 DEF RunsInv, LocksFit, ResultsTrue, Earned, At
<1>8. Recorded'
  <2>1. \A q \in Stream : ~At(q, "none") => rows'[stream[q].run] = rows[stream[q].run]
    BY <1>4 DEF RunsInv, Opened
  <2> QED BY <1>3, <2>1 DEF RunsInv, Recorded, Alone, At
<1> QED BY <1>5, <1>6, <1>7, <1>8 DEF RunsInv

LEMMA RunsInit == Init => RunsInv
<1> SUFFICES ASSUME Init PROVE RunsInv
  OBVIOUS
<1>1. NoStream \in Generator /\ NoStream.pc = "none"
  BY DEF NoStream, Generator, PC, Box0
<1>2. \A s \in Stream : stream[s] = NoStream
  BY DEF Init
<1>3. Typed
  BY <1>1 DEF Init, Typed, StreamsTyped, RowsTyped, LocksTyped, ResultsTyped
<1>4. Opened /\ LocksFit /\ ResultsTrue /\ Recorded
  BY <1>1, <1>2 DEF Init, Opened, LocksFit, ResultsTrue, Recorded, At
<1> QED BY <1>3, <1>4 DEF RunsInv

LEMMA StepKeeps == RunsInv /\ [Next]_vars => RunsInv'
<1> SUFFICES ASSUME RunsInv, [Next]_vars PROVE RunsInv'
  OBVIOUS
<1>1. ASSUME NEW mode \in Modes, StartRun(mode) PROVE RunsInv'
  BY <1>1, StartRunKeeps
<1>2. ASSUME NEW s \in Stream, Step(s) PROVE RunsInv'
  <2>1. CASE Fail(s) \/ Propose(s) \/ Finish(s)
    BY <2>1, FailKeeps, ProposeKeeps, FinishKeeps
  <2>2. CASE PersistRead(s) \/ PersistWrite(s) \/ Release(s)
    BY <2>2, PersistReadKeeps, PersistWriteKeeps, ReleaseKeeps
  <2>3. ASSUME NEW x \in Symbol,
               Reuse(s, x) \/ ReadCapsule(s, x) \/ Skip(s, x) \/ Queue(s, x)
                 \/ Execute(s, x) \/ CommitResult(s, x)
        PROVE  RunsInv'
    BY <2>3, ReuseKeeps, ReadCapsuleKeeps, SkipKeeps, QueueKeeps, ExecuteKeeps, CommitResultKeeps
  <2> QED BY <1>2, <2>1, <2>2, <2>3 DEF Step
<1>3. ASSUME NEW s \in Stream, ProposeFails(s) \/ Leave(s) PROVE RunsInv'
  BY <1>3, ProposeFailsKeeps, LeaveKeeps
<1>4. ASSUME NEW s \in Stream, NEW r \in Run, StreamRun(s, r) PROVE RunsInv'
  BY <1>4, StreamRunKeeps
<1>5. ASSUME NEW s \in Stream, NEW x \in Symbol, SymbolFails(s, x) \/ Box(s, x) PROVE RunsInv'
  BY <1>5, SymbolFailsKeeps, BoxKeeps
<1>6. CASE UNCHANGED vars
  BY <1>6 DEF vars, RunsInv, Typed, StreamsTyped, RowsTyped, LocksTyped, ResultsTyped, Opened,
              Exists, LocksFit, ResultsTrue, Earned, Recorded, Alone, At
<1> QED BY <1>1, <1>2, <1>3, <1>4, <1>5, <1>6 DEF Next

(* The invariant that the theorems below follow from.                      *)
THEOREM RunsInvHolds == Spec => []RunsInv
BY RunsInit, StepKeeps, PTL DEF Spec

(* Rows, locks, results and generators have their types, and a row that is *)
(* locked is the one that the session has an uncommitted change of.        *)
THEOREM RunTypesHold == Spec => []TypeOK
<1>1. RunsInv => TypeOK
  <2> SUFFICES ASSUME RunsInv PROVE TypeOK
    OBVIOUS
  <2>1. \A s \in Stream :
          LET g == stream[s] IN
          /\ g.pc \in PC /\ g.client \in BOOLEAN
          /\ g.pc # "none" => g.run \in Run /\ g.target \in Run
          /\ g.dirty \in BOOLEAN
          /\ g.at \in Symbol \cup {0} /\ g.left \subseteq Symbol /\ g.queued \subseteq Symbol
          /\ g.box \in [Symbol -> {"none", "running", "logged", "passed", "failed"}]
          /\ g.end \in {"none", "COMPLETED", "FAILED"} /\ g.error \in BOOLEAN
          /\ g.seen \in Status \cup {"none"}
    BY DEF RunsInv, Typed, StreamsTyped, Generator, Box0, Opened, At
  <2> QED BY <2>1 DEF TypeOK, RunsInv, Typed, RowsTyped, Row, LocksTyped, ResultsTyped, LocksFit
<1> QED BY <1>1, RunsInvHolds, PTL

(* A committed result tells the truth, whoever leaves, fails or runs       *)
(* beside: COMPLETED in a sandbox means that the test exited with 0, and   *)
(* the results of a pull request are of tests that are in it.              *)
THEOREM ResultsAreTrue == Spec => []ResultsAreReal
<1>1. RunsInv => ResultsAreReal
  BY DEF RunsInv, ResultsTrue, Earned, ResultsAreReal
<1> QED BY <1>1, RunsInvHolds, PTL

(* The row of a run that no other stream works on shows how its stream     *)
(* ended, and the events of that stream.                                   *)
THEOREM EndIsShown == Spec => []EndIsRecorded
<1>1. RunsInv => EndIsRecorded
  BY DEF RunsInv, Recorded, Alone, EndIsRecorded
<1> QED BY <1>1, RunsInvHolds, PTL
=============================================================================
