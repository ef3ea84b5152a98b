------------------------ MODULE EvidenceGraphProofs ------------------------
(***************************************************************************)
(* Proofs about EvidenceGraph: types, one anchor, sound evidence, that     *)
(* narrowed runs leave what full runs would have left, and cancellation.   *)
(*                                                                         *)
(* Sound is not inductive: nothing in it says that what a run has computed *)
(* fits the graph it will be written to.  A run knows the commit, then the *)
(* suite, then what to execute and to carry, then what was covered; at     *)
(* each stage RunRight states this of the checkout and the graph as they   *)
(* are now.  Its last part, KeptRight, says that the edges of the tests    *)
(* that are carried will still be all that is covered: the plan            *)
(* establishes it from Sound (UnaffectedSame), and the store turns it back *)
(* into Sound.  It stays true in between because only Store changes the    *)
(* graph (OnlyStoreWrites), and with one run at a time nobody else stores. *)
(* For the refinement the inclusions become equations: ExactInv.           *)
(***************************************************************************)
EXTENDS EvidenceGraph, TLAPS

(* The ingredients of the state that the store writes.                     *)
GraphTypes ==
  /\ edges \subseteq Edge
  /\ stamp \in [Test -> Sha \cup {NoNode}]

-----------------------------------------------------------------------------
(* Types.                                                                  *)

LEMMA AnchorType == Anchor \in Sha
BY DEF Anchor, Sha

LEMMA IdleType == Idle \in RunState
BY DEF Idle, RunState, Sha

LEMMA EdgeParts ==
  ASSUME edges \subseteq Edge
  PROVE  PriorTests \subseteq Test /\ KnownSources \subseteq Source
BY DEF Edge, PriorTests, KnownSources

LEMMA NarrowPlanParts ==
  ASSUME edges \subseteq Edge, NEW changed, NEW universe \in SUBSET Test
  PROVE  /\ Affected(changed, universe) \in SUBSET universe
         /\ (Affected(changed, universe) \cap PriorTests)
              \cup (ChangedTests(changed, universe) \ universe) \in SUBSET Test
BY EdgeParts DEF Affected, ChangedTests, SuiteFiles

LEMMA NarrowRunType ==
  ASSUME NEW s \in RunState, NEW a \in Sha, NEW pc \in {"measuring", "storing"},
         NEW again \in SUBSET Test, NEW kept \in SUBSET Test, NEW out \in SUBSET Test
  PROVE  [s EXCEPT !.pc = pc, !.narrow = TRUE, !.anchor = a, !.todo = again,
                   !.carried = kept, !.replaced = out] \in RunState
<1>1. [s EXCEPT !.pc = pc, !.narrow = TRUE] \in RunState
  BY DEF RunState
<1>2. ASSUME NEW q \in RunState
      PROVE  [q EXCEPT !.anchor = a, !.todo = again] \in RunState
  BY DEF RunState
<1>3. ASSUME NEW q \in RunState
      PROVE  [q EXCEPT !.carried = kept, !.replaced = out] \in RunState
  BY DEF RunState
<1> QED BY <1>1, <1>2, <1>3, Zenon

LEMMA MeasuredRunType ==
  ASSUME NEW s \in RunState, NEW lost \in SUBSET Test, NEW seen \in SUBSET Test,
         NEW found \in SUBSET (Test \X Source)
  PROVE  [s EXCEPT !.pc = "storing", !.lost = lost, !.seen = seen, !.found = found] \in RunState
<1>1. [s EXCEPT !.pc = "storing", !.lost = lost] \in RunState
  BY DEF RunState
<1>2. ASSUME NEW q \in RunState
      PROVE  [q EXCEPT !.seen = seen, !.found = found] \in RunState
  BY DEF RunState
<1> QED BY <1>1, <1>2, Zenon

LEMMA PlanTypes ==
  ASSUME edges \subseteq Edge, NEW s \in RunState, NEW changed
  PROVE  FullPlan(s) \in RunState /\ NarrowPlan(s, changed) \in RunState
<1>1. s.universe \in SUBSET Test
  BY DEF RunState
<1>2. FullPlan(s) \in RunState
  BY <1>1 DEF FullPlan, RunState
<1>3. NarrowPlan(s, changed) \in RunState
  <2> DEFINE again == Affected(changed, s.universe)
             kept == s.universe \ again
             out == (again \cap PriorTests) \cup (ChangedTests(changed, s.universe) \ s.universe)
             pc == IF again = {} THEN "storing" ELSE "measuring"
  <2>1. again \in SUBSET Test /\ kept \in SUBSET Test /\ out \in SUBSET Test
    BY <1>1, NarrowPlanParts
  <2> DEFINE a == Anchor
             n == [s EXCEPT !.pc = pc, !.narrow = TRUE, !.anchor = a, !.todo = again,
                            !.carried = kept, !.replaced = out]
  <2>2. NarrowPlan(s, changed) = n
    BY DEF NarrowPlan
  <2>3. pc \in {"measuring", "storing"}
    OBVIOUS
  <2>4. a \in Sha
    BY AnchorType
  <2> HIDE DEF again, kept, out, pc, a
  <2>5. n \in RunState
    BY <2>1, <2>3, <2>4, NarrowRunType
  <2> HIDE DEF n
  <2> QED BY <2>2, <2>5
<1> QED BY <1>2, <1>3

LEMMA GoesTypes ==
  ASSUME run \in [Run -> RunState], NEW r \in Run, NEW s \in RunState, Goes(r, s)
  PROVE  run' \in [Run -> RunState]
BY IdleType DEF Goes

LEMMA FailsTypes ==
  ASSUME TypeOK, NEW r \in Run, Fails(r)
  PROVE  run' \in [Run -> RunState]
         /\ record' \in [status : {"none", "COMPLETED", "ERROR"}, missing : SUBSET Test]
BY IdleType DEF Fails, Failed, TypeOK

LEMMA EdgesOfType ==
  ASSUME NEW pairs \in SUBSET (Test \X Source), NEW sha \in Sha
  PROVE  EdgesOf(pairs, sha) \in SUBSET Edge
         /\ TestsIn(pairs) \in SUBSET Test /\ SourcesIn(pairs) \in SUBSET Source
BY DEF EdgesOf, Edge, TestsIn, SourcesIn

LEMMA WriteTypes ==
  ASSUME GraphTypes, NEW s \in RunState, Write(s)
  PROVE  GraphTypes'
<1>1. s.found \in SUBSET (Test \X Source) /\ s.sha \in Sha
  BY DEF RunState
<1>2. EdgesOf(s.found, s.sha) \in SUBSET Edge
  BY <1>1, EdgesOfType
<1>3. CASE Replace(s)
  BY <1>1, <1>2, <1>3 DEF Replace, GraphTypes, Sha
<1>4. CASE Apply(s)
  <2> DEFINE kept == {<<e.test, e.source>> : e \in {x \in edges : x.test \notin s.replaced}}
  <2>1. kept \in SUBSET (Test \X Source)
    BY DEF GraphTypes, Edge
  <2>2. EdgesOf(s.found \cup kept, s.sha) \in SUBSET Edge
    BY <1>1, <2>1, EdgesOfType
  <2> QED BY <1>1, <1>4, <2>2 DEF Apply, GraphTypes, Sha
<1>5. CASE Merge(s)
  <2> DEFINE new == {p \in s.found : s.sha # NoSha \/ \A e \in edges : <<e.test, e.source>> # p}
  <2>1. EdgesOf(new, s.sha) \in SUBSET Edge
    BY <1>1, EdgesOfType
  <2>2. edges' \subseteq Edge
    BY <1>5, <2>1 DEF Merge, GraphTypes
  <2>3. \A t \in Test : Coalesce(s.sha, stamp[t]) \in Sha
    BY <1>1 DEF Coalesce, GraphTypes, Sha
  <2> QED BY <1>5, <2>2, <2>3 DEF Merge, GraphTypes
<1> QED BY <1>3, <1>4, <1>5 DEF Write

LEMMA NoCheckoutType ==
  NoCheckout \in [head : Sha, files : State \cup {NoSha}, data : [LaterShard -> Data]]
<1>1. NoneLeft \in [LaterShard -> Data]
  BY DEF NoneLeft, NoData, Data
<1> QED BY <1>1 DEF NoCheckout, Sha

LEMMA MappingsType ==
  ASSUME NEW ran \in SUBSET Test, NEW w
  PROVE  Mappings(ran, w) \in SUBSET (Test \X Source)
BY DEF Mappings

LEMMA DataType ==
  ASSUME TypeOK, NEW part, DOMAIN part \subseteq Test, NEW dead
  PROVE  DataAfter(part, dead) \in [LaterShard -> Data]
<1> SUFFICES ASSUME NEW i \in LaterShard
             PROVE  DataAfter(part, dead)[i] \in Data
  BY DEF DataAfter
<1> DEFINE ran == {t \in DOMAIN part : part[t] = i}
           m == Mappings(ran, checkout.files)
<1>1. ran \in SUBSET Test /\ m \in SUBSET (Test \X Source)
  BY MappingsType
<1>2. DataAfter(part, dead)[i] = IF ran = {} THEN checkout.data[i]
                                 ELSE IF i \in dead THEN NoData
                                 ELSE [ran |-> ran, covered |-> m]
  BY DEF DataAfter
<1>3. checkout.data[i] \in Data /\ NoData \in Data
  BY DEF TypeOK, NoData, Data
<1> HIDE DEF ran, m
<1>4. [ran |-> ran, covered |-> m] \in Data
  BY <1>1 DEF Data
<1> QED BY <1>2, <1>3, <1>4

(* What is read of the databases: what the shards that answered have       *)
(* covered, and if there is none whatever is left.                         *)
LEMMA CoverageReadParts ==
  ASSUME NEW todo \in SUBSET Test, NEW lost, NEW data \in [LaterShard -> Data]
  PROVE  LET m == CoverageRead(todo, lost, data)
             ran == Mappings(todo \ lost, checkout.files)
         IN  /\ m.seen \in SUBSET Test /\ m.found \in SUBSET (Test \X Source)
             /\ ran \subseteq m.found
             /\ todo \ lost # {} => m.found = ran
<1> DEFINE ran == todo \ lost
           some == Mappings(ran, checkout.files)
           m == CoverageRead(todo, lost, data)
           left == UNION {data[i].ran : i \in LaterShard}
           pairs == Resolved(UNION {data[i].covered : i \in LaterShard}, checkout.files)
<1>1. some \in SUBSET (Test \X Source) /\ ran \in SUBSET Test
  BY MappingsType
<1>2. CASE ran # {}
  <2>1. m.seen = ran /\ m.found = some
    BY <1>2 DEF CoverageRead
  <2> QED BY <1>1, <1>2, <2>1
<1>3. CASE ran = {}
  <2>1. m.seen = left /\ m.found = pairs
    BY <1>3 DEF CoverageRead
  <2>2. \A i \in LaterShard : data[i].ran \in SUBSET Test
                              /\ data[i].covered \in SUBSET (Test \X Source)
    BY DEF Data
  <2>3. left \in SUBSET Test /\ pairs \in SUBSET (Test \X Source)
    BY <2>2 DEF Resolved
  <2>4. some = {}
    BY <1>3 DEF Mappings
  <2> HIDE DEF left, pairs
  <2> QED BY <1>3, <2>1, <2>3, <2>4
<1> QED BY <1>2, <1>3

(* A step of Measure, by what the rest of the proofs need of it.           *)
LEMMA MeasureParts ==
  ASSUME TypeOK, NEW r \in Run, Measure(r)
  PROVE  \E data \in [LaterShard -> Data], lost \in SUBSET run[r].todo,
            seen \in SUBSET Test, found \in SUBSET (Test \X Source) :
           /\ checkout' = [checkout EXCEPT !.data = data]
           /\ Mappings(run[r].todo \ lost, checkout.files) \subseteq found
           /\ run[r].todo \ lost # {} => found = Mappings(run[r].todo \ lost, checkout.files)
           /\ Flaky = {} => lost = {}
           /\ \/ Fails(r)
              \/ /\ Goes(r, [run[r] EXCEPT !.pc = "storing", !.lost = lost,
                                            !.seen = seen, !.found = found])
                 /\ UNCHANGED record
<1> DEFINE todo == run[r].todo
<1> DEFINE Outcome(part, dead) ==
             LET lost == {t \in todo : part[t] \in dead}
                 data == DataAfter(part, dead)
                 m == CoverageRead(todo, lost, data)
             IN  /\ checkout' = [checkout EXCEPT !.data = data]
                 /\ IF m.seen = {} THEN Fails(r)
                    ELSE /\ Goes(r, [run[r] EXCEPT !.pc = "storing", !.lost = lost,
                                                   !.seen = m.seen, !.found = m.found])
                         /\ UNCHANGED record
<1>a. PICK part \in Partitions(todo) : \E dead \in LostShards(part) : Outcome(part, dead)
  BY DEF Measure
<1>1. PICK dead \in LostShards(part) : Outcome(part, dead)
  BY <1>a
<1> DEFINE lost == {t \in todo : part[t] \in dead}
           data == DataAfter(part, dead)
           m == CoverageRead(todo, lost, data)
<1>2. todo \in SUBSET Test
  BY DEF TypeOK, RunState
<1>3. DOMAIN part = todo
  BY DEF Partitions
<1>4. data \in [LaterShard -> Data]
  BY <1>2, <1>3, DataType
<1>5. lost \in SUBSET todo
  OBVIOUS
<1>6. Flaky = {} => lost = {}
  BY <1>3 DEF LostShards
<1>7. /\ checkout' = [checkout EXCEPT !.data = data]
      /\ \/ Fails(r)
         \/ /\ Goes(r, [run[r] EXCEPT !.pc = "storing", !.lost = lost,
                                       !.seen = m.seen, !.found = m.found])
            /\ UNCHANGED record
  BY <1>1
<1> DEFINE seen == m.seen
           found == m.found
           new == [run[r] EXCEPT !.pc = "storing", !.lost = lost, !.seen = seen, !.found = found]
<1> HIDE DEF data, lost
<1>8. /\ seen \in SUBSET Test /\ found \in SUBSET (Test \X Source)
      /\ Mappings(todo \ lost, checkout.files) \subseteq found
      /\ todo \ lost # {} => found = Mappings(todo \ lost, checkout.files)
  BY <1>2, <1>4, CoverageReadParts
<1>9. Fails(r) \/ (Goes(r, new) /\ UNCHANGED record)
  BY <1>7
<1> HIDE DEF seen, found, todo
<1> QED BY <1>4, <1>5, <1>6, <1>7, <1>8, <1>9 DEF new, todo

LEMMA InitTypes == Init => TypeOK
<1> SUFFICES ASSUME Init PROVE TypeOK
  OBVIOUS
<1>1. edges \subseteq Edge /\ stamp \in [Test -> Sha \cup {NoNode}]
  BY DEF Init
<1>2. run \in [Run -> RunState]
  BY IdleType DEF Init
<1>3. record \in [status : {"none", "COMPLETED", "ERROR"}, missing : SUBSET Test]
  BY DEF Init
<1>4. mapped \subseteq Test \X Source /\ symbols \subseteq Source /\ unmeasured \subseteq Test
  BY DEF Init
<1> QED BY <1>1, <1>2, <1>3, <1>4, NoCheckoutType DEF Init, TypeOK

LEMMA PipelineTypes ==
  ASSUME TypeOK, NEW r \in Run,
         \/ \E kind \in Kinds, fresh \in BOOLEAN : Start(r, kind, fresh)
         \/ CloneTip(r) \/ KeepCheckout(r) \/ CloneFails(r)
         \/ ReadHead(r) \/ Discover(r) \/ PlanFull(r) \/ PlanNarrow(r) \/ Measure(r)
  PROVE  TypeOK'
<1> DEFINE s == run[r]
<1>1. s \in RunState
  BY DEF TypeOK
<1>2. CASE \E kind \in Kinds, fresh \in BOOLEAN : Start(r, kind, fresh)
  <2>1. PICK kind \in Kinds, fresh \in BOOLEAN : Start(r, kind, fresh)
    BY <1>2
  <2>2. kind \in {"run", "map"}
    BY EvidenceAssumption
  <2>3. [Idle EXCEPT !.pc = "cloning", !.kind = kind, !.fresh = fresh] \in RunState
    BY <2>2, IdleType DEF RunState
  <2> QED BY <2>1, <2>2, <2>3 DEF Start, TypeOK, graphVars
<1>3. CASE CloneTip(r)
  <2>1. [s EXCEPT !.pc = "reading"] \in RunState
    BY <1>1 DEF RunState
  <2>2. run' \in [Run -> RunState]
    BY <1>3, <2>1, GoesTypes DEF CloneTip, TypeOK
  <2>3. PICK data \in {NoneLeft, checkout.data} :
          checkout' = [head |-> tip, files |-> tip, data |-> data]
    BY <1>3 DEF CloneTip
  <2>4. data \in [LaterShard -> Data]
    BY DEF TypeOK, NoneLeft, NoData, Data
  <2>5. checkout' \in [head : Sha, files : State \cup {NoSha}, data : [LaterShard -> Data]]
    BY <2>3, <2>4 DEF TypeOK, State, Sha
  <2> QED BY <1>3, <2>2, <2>5 DEF CloneTip, PipelineUnchanged, graphVars, TypeOK
<1>4. CASE KeepCheckout(r)
  <2>1. [s EXCEPT !.pc = "reading"] \in RunState
    BY <1>1 DEF RunState
  <2>2. run' \in [Run -> RunState]
    BY <1>4, <2>1, GoesTypes DEF KeepCheckout, TypeOK
  <2> QED BY <1>4, <2>2 DEF KeepCheckout, PipelineUnchanged, graphVars, TypeOK
<1>5. CASE CloneFails(r)
  BY <1>5, FailsTypes DEF CloneFails, PipelineUnchanged, graphVars, TypeOK
<1>6. CASE ReadHead(r)
  <2>1. PICK sha \in {checkout.head, NoSha} :
          Goes(r, [s EXCEPT !.pc = "discovering", !.sha = sha])
    BY <1>6 DEF ReadHead
  <2>2. sha \in Sha
    BY DEF TypeOK, Sha
  <2>3. [s EXCEPT !.pc = "discovering", !.sha = sha] \in RunState
    BY <1>1, <2>2 DEF RunState
  <2>4. run' \in [Run -> RunState]
    BY <2>1, <2>3, GoesTypes DEF TypeOK
  <2> QED BY <1>6, <2>4 DEF ReadHead, PipelineUnchanged, graphVars, TypeOK
<1>7. CASE Discover(r)
  <2> DEFINE found == Present(checkout.files)
  <2>1. found \in SUBSET Test
    BY DEF Present
  <2>2. [s EXCEPT !.pc = "planning", !.universe = found] \in RunState
    <3> HIDE DEF found
    <3> QED BY <1>1, <2>1 DEF RunState
  <2>3. run' \in [Run -> RunState]
        /\ record' \in [status : {"none", "COMPLETED", "ERROR"}, missing : SUBSET Test]
    BY <1>7, <2>2, GoesTypes, FailsTypes DEF Discover, TypeOK
  <2> QED BY <1>7, <2>3 DEF Discover, PipelineUnchanged, graphVars, TypeOK
<1>8. CASE PlanFull(r)
  <2>1. FullPlan(s) \in RunState
    BY <1>1, PlanTypes DEF TypeOK
  <2>2. run' \in [Run -> RunState]
    BY <1>8, <2>1, GoesTypes DEF PlanFull, TypeOK
  <2> QED BY <1>8, <2>2 DEF PlanFull, PipelineUnchanged, graphVars, TypeOK
<1>9. CASE PlanNarrow(r)
  <2> DEFINE n == NarrowPlan(s, Changed(Anchor, checkout.files))
  <2>1. n \in RunState
    BY <1>1, PlanTypes DEF TypeOK
  <2>2. Goes(r, n)
    BY <1>9 DEF PlanNarrow
  <2> HIDE DEF n
  <2>3. run' \in [Run -> RunState]
    BY <2>1, <2>2, GoesTypes DEF TypeOK
  <2> QED BY <1>9, <2>3 DEF PlanNarrow, PipelineUnchanged, graphVars, TypeOK
<1>10. CASE Measure(r)
  <2>1. PICK data \in [LaterShard -> Data], lost \in SUBSET s.todo,
             seen \in SUBSET Test, found \in SUBSET (Test \X Source) :
          /\ checkout' = [checkout EXCEPT !.data = data]
          /\ \/ Fails(r)
             \/ /\ Goes(r, [s EXCEPT !.pc = "storing", !.lost = lost,
                                     !.seen = seen, !.found = found])
                /\ UNCHANGED record
    BY <1>10, MeasureParts
  <2> DEFINE n == [s EXCEPT !.pc = "storing", !.lost = lost, !.seen = seen, !.found = found]
  <2>2. lost \in SUBSET Test
    BY <1>1 DEF RunState
  <2>3. n \in RunState
    BY <1>1, <2>2, MeasuredRunType
  <2>4. Fails(r) \/ (Goes(r, n) /\ UNCHANGED record)
    BY <2>1
  <2> HIDE DEF n
  <2>5. run' \in [Run -> RunState]
        /\ record' \in [status : {"none", "COMPLETED", "ERROR"}, missing : SUBSET Test]
    BY <2>3, <2>4, GoesTypes, FailsTypes DEF TypeOK
  <2>6. checkout' \in [head : Sha, files : State \cup {NoSha}, data : [LaterShard -> Data]]
    BY <2>1 DEF TypeOK
  <2> QED BY <1>10, <2>5, <2>6 DEF Measure, PipelineUnchanged, graphVars, TypeOK
<1> QED BY <1>2, <1>3, <1>4, <1>5, <1>6, <1>7, <1>8, <1>9, <1>10

LEMMA StoreTypes ==
  ASSUME TypeOK, NEW r \in Run, Store(r) \/ StoreFails(r) \/ StoreCancelled(r) \/ Disconnect(r)
  PROVE  TypeOK'
<1> DEFINE s == run[r]
<1>1. s \in RunState
  BY DEF TypeOK
<1>2. s.universe \in SUBSET Test /\ s.lost \in SUBSET Test
      /\ s.carried \in SUBSET Test /\ s.found \in SUBSET (Test \X Source)
  BY <1>1 DEF RunState
<1>3. CASE Store(r)
  <2>1. GraphTypes'
    BY <1>1, <1>3, WriteTypes DEF Store, TypeOK, GraphTypes
  <2>2. symbols' \subseteq Source
    BY <1>2, <1>3, EdgesOfType DEF Store, TypeOK, SourcesIn
  <2>3. unmeasured' \subseteq Test
    BY <1>2, <1>3 DEF Store, StillUnmeasured, TypeOK
  <2>4. Missing(s) \in SUBSET Test
    BY <1>2 DEF Missing
  <2>5. record' \in {record, Failed, [status |-> "COMPLETED", missing |-> Missing(s)]}
    BY <1>3 DEF Store
  <2>6. record' \in [status : {"none", "COMPLETED", "ERROR"}, missing : SUBSET Test]
    BY <2>4, <2>5 DEF Failed, TypeOK
  <2>7. run' \in [Run -> RunState] /\ UNCHANGED <<tip, checkout, mapped, cancel>>
    BY <1>3, IdleType DEF Store, StoreEnds, TypeOK
  <2> QED BY <2>1, <2>2, <2>3, <2>6, <2>7 DEF TypeOK, GraphTypes
<1>4. CASE StoreFails(r)
  BY <1>4, IdleType DEF StoreFails, StoreEnds, Failed, TypeOK
<1>5. CASE StoreCancelled(r)
  BY <1>5, IdleType DEF StoreCancelled, StoreEnds, TypeOK
<1>6. CASE Disconnect(r)
  BY <1>6, IdleType DEF Disconnect, Around, graphVars, TypeOK
<1> QED BY <1>3, <1>4, <1>5, <1>6

LEMMA AroundTypes ==
  ASSUME TypeOK,
         \/ RequestCancel \/ Restart
         \/ \E c \in Commit : Push(c)
         \/ \E w \in State : Edit(w)
         \/ \E s \in Source : MapUnmapped(s)
  PROVE  TypeOK'
<1>1. CASE RequestCancel
  <2>1. ASSUME NEW q \in RunState PROVE [q EXCEPT !.asked = TRUE] \in RunState
    BY DEF RunState
  <2>2. run' \in [Run -> RunState]
    BY <1>1, <2>1 DEF RequestCancel, TypeOK
  <2> QED BY <1>1, <2>2 DEF RequestCancel, Around, graphVars, TypeOK
<1>2. CASE Restart
  <2>1. checkout' \in [head : Sha, files : State \cup {NoSha}, data : [LaterShard -> Data]]
    <3>1. CASE checkout' \in {checkout, NoCheckout}
      BY <3>1, NoCheckoutType DEF TypeOK
    <3>2. CASE \E r \in Run : \E part \in Partitions(run[r].todo), dead \in SUBSET (0 .. Shards - 1) :
                 checkout' = [checkout EXCEPT !.data = DataAfter(part, dead)]
      <4>1. PICK r \in Run : \E part \in Partitions(run[r].todo), dead \in SUBSET (0 .. Shards - 1) :
              checkout' = [checkout EXCEPT !.data = DataAfter(part, dead)]
        BY <3>2
      <4>2. PICK part \in Partitions(run[r].todo), dead \in SUBSET (0 .. Shards - 1) :
              checkout' = [checkout EXCEPT !.data = DataAfter(part, dead)]
        BY <4>1
      <4>3. DOMAIN part \subseteq Test
        BY DEF Partitions, TypeOK, RunState
      <4>4. DataAfter(part, dead) \in [LaterShard -> Data]
        BY <4>3, DataType
      <4> QED BY <4>2, <4>4 DEF TypeOK
    <3> QED BY <1>2, <3>1, <3>2 DEF Restart
  <2> QED BY <1>2, <2>1, IdleType DEF Restart, Around, graphVars, TypeOK
<1>3. CASE \E c \in Commit : Push(c)
  BY <1>3 DEF Push, Around, graphVars, TypeOK
<1>4. CASE \E w \in State : Edit(w)
  BY <1>4 DEF Edit, Around, graphVars, TypeOK, State, Sha
<1>5. CASE \E s \in Source : MapUnmapped(s)
  BY <1>5 DEF MapUnmapped, TypeOK
<1> QED BY <1>1, <1>2, <1>3, <1>4, <1>5

LEMMA TypesInductive == TypeOK /\ [Next]_vars => TypeOK'
<1> SUFFICES ASSUME TypeOK, [Next]_vars PROVE TypeOK'
  OBVIOUS
<1>1. CASE UNCHANGED vars
  BY <1>1 DEF vars, graphVars, TypeOK
<1>2. CASE \E r \in Run : Step(r)
  BY <1>2, PipelineTypes, StoreTypes DEF Step
<1>3. CASE \/ RequestCancel \/ Restart
           \/ \E c \in Commit : Push(c)
           \/ \E w \in State : Edit(w)
           \/ \E s \in Source : MapUnmapped(s)
  BY <1>3, AroundTypes
<1> QED BY <1>1, <1>2, <1>3 DEF Next

(* The state of the checkout, the graph and the runs is well typed for     *)
(* every history, any number of runs and any interleaving of them.         *)
THEOREM TypesHold == Spec => []TypeOK
<1>1. Init => TypeOK
  BY InitTypes
<1>2. TypeOK /\ [Next]_vars => TypeOK'
  BY TypesInductive
<1> QED BY <1>1, <1>2, PTL DEF Spec

-----------------------------------------------------------------------------
(* A single anchor.                                                        *)

LEMMA OnlyStoreWrites ==
  ASSUME [Next]_vars, ~ \E r \in Run : Store(r)
  PROVE  UNCHANGED <<edges, stamp, unmeasured>>
<1>1. CASE UNCHANGED vars
  BY <1>1 DEF vars, graphVars
<1>2. ASSUME NEW r \in Run, Step(r) PROVE UNCHANGED <<edges, stamp, unmeasured>>
  <2>1. ~Store(r)
    OBVIOUS
  <2>2. CASE PipelineUnchanged
    BY <2>2 DEF PipelineUnchanged, graphVars
  <2> QED BY <1>2, <2>1, <2>2 DEF Step, Start, CloneTip, KeepCheckout, CloneFails, ReadHead,
             Discover, PlanFull, PlanNarrow, Measure, StoreFails, StoreCancelled, Disconnect,
             Around, graphVars
<1>3. CASE \/ RequestCancel \/ Restart
           \/ \E c \in Commit : Push(c)
           \/ \E w \in State : Edit(w)
           \/ \E s \in Source : MapUnmapped(s)
  BY <1>3 DEF RequestCancel, Restart, Push, Edit, MapUnmapped, Around, graphVars
<1> QED BY <1>1, <1>2, <1>3 DEF Next

(* Where only runs by the endpoint are made, every run is one.             *)
AllRuns == \A r \in Run : run[r].kind = "run"

LEMMA GoesKind ==
  ASSUME TypeOK, AllRuns, NEW r \in Run, NEW s, s.kind = "run", Goes(r, s)
  PROVE  AllRuns'
BY DEF Goes, TypeOK, AllRuns, Idle

LEMMA FailsKind ==
  ASSUME TypeOK, AllRuns, NEW r \in Run, Fails(r)
  PROVE  AllRuns'
BY DEF Fails, TypeOK, AllRuns, Idle

LEMMA AllRunsInductive ==
  ASSUME Kinds = {"run"}, TypeOK, AllRuns, [Next]_vars
  PROVE  AllRuns'
<1>1. CASE UNCHANGED vars
  BY <1>1 DEF vars, AllRuns
<1>2. ASSUME NEW r \in Run, Step(r) PROVE AllRuns'
  <2> DEFINE s == run[r]
  <2>1. s.kind = "run" /\ s \in RunState
    BY DEF AllRuns, TypeOK
  <2>2. CASE \E kind \in Kinds, fresh \in BOOLEAN : Start(r, kind, fresh)
    <3>1. PICK fresh \in BOOLEAN : Start(r, "run", fresh)
      BY <2>2
    <3>2. [Idle EXCEPT !.pc = "cloning", !.kind = "run", !.fresh = fresh].kind = "run"
      BY DEF Idle
    <3> QED BY <3>1, <3>2 DEF Start, TypeOK, AllRuns
  <2>3. CASE CloneTip(r)
    BY <2>1, <2>3, GoesKind DEF CloneTip, RunState
  <2>4. CASE KeepCheckout(r)
    BY <2>1, <2>4, GoesKind DEF KeepCheckout, RunState
  <2>5. CASE CloneFails(r)
    BY <2>5, FailsKind DEF CloneFails
  <2>6. CASE ReadHead(r)
    BY <2>1, <2>6, GoesKind DEF ReadHead, RunState
  <2>7. CASE Discover(r)
    <3> DEFINE found == Present(checkout.files)
    <3>1. Fails(r) \/ Goes(r, [s EXCEPT !.pc = "planning", !.universe = found])
      BY <2>7 DEF Discover
    <3> HIDE DEF found
    <3>2. [s EXCEPT !.pc = "planning", !.universe = found].kind = "run"
      BY <2>1 DEF RunState
    <3> QED BY <3>1, <3>2, GoesKind, FailsKind, Zenon
  <2>8. CASE PlanFull(r)
    <3>1. FullPlan(s).kind = "run"
      BY <2>1 DEF FullPlan, RunState
    <3> QED BY <2>8, <3>1, GoesKind DEF PlanFull
  <2>9. CASE PlanNarrow(r)
    <3> DEFINE n == NarrowPlan(s, Changed(Anchor, checkout.files))
    <3>1. n.kind = "run"
      BY <2>1 DEF NarrowPlan, RunState
    <3>2. Goes(r, n)
      BY <2>9 DEF PlanNarrow
    <3> HIDE DEF n
    <3> QED BY <3>1, <3>2, GoesKind
  <2>10. CASE Measure(r)
    <3>1. Fails(r) \/ \E lost, seen, found :
             Goes(r, [s EXCEPT !.pc = "storing", !.lost = lost, !.seen = seen, !.found = found])
      BY <2>10, MeasureParts
    <3>2. \A lost, seen, found :
            [s EXCEPT !.pc = "storing", !.lost = lost, !.seen = seen, !.found = found].kind = "run"
      BY <2>1 DEF RunState
    <3> QED BY <3>1, <3>2, GoesKind, FailsKind, Zenon
  <2>11. CASE Store(r) \/ StoreFails(r) \/ StoreCancelled(r) \/ Disconnect(r)
    BY <2>11 DEF Store, StoreFails, StoreCancelled, StoreEnds, Disconnect, Idle, TypeOK, AllRuns
  <2> QED BY <1>2, <2>2, <2>3, <2>4, <2>5, <2>6, <2>7, <2>8, <2>9, <2>10, <2>11 DEF Step
<1>3. CASE RequestCancel
  <2>1. ASSUME NEW q \in RunState PROVE [q EXCEPT !.asked = TRUE].kind = q.kind
    BY DEF RunState
  <2> QED BY <1>3, <2>1 DEF RequestCancel, TypeOK, AllRuns
<1>4. CASE \/ Restart
           \/ \E c \in Commit : Push(c)
           \/ \E w \in State : Edit(w)
           \/ \E s \in Source : MapUnmapped(s)
  BY <1>4 DEF Restart, Push, Edit, MapUnmapped, Idle, AllRuns
<1> QED BY <1>1, <1>2, <1>3, <1>4 DEF Next

LEMMA SingleAnchorInductive ==
  ASSUME TypeOK, AllRuns, SingleAnchor, [Next]_vars
  PROVE  SingleAnchor'
<1>1. CASE \E r \in Run : Store(r)
  <2>1. PICK r \in Run : Store(r)
    BY <1>1
  <2> DEFINE s == run[r]
  <2>2. Apply(s) \/ Replace(s)
    BY <2>1 DEF Store, Write, AllRuns
  <2>3. \A e \in edges' : e.sha = s.sha
    BY <2>2 DEF Apply, Replace, EdgesOf
  <2>4. \A t \in Test : stamp'[t] \in {s.sha, NoSha, NoNode}
    BY <2>2 DEF Apply, Replace
  <2> QED BY <2>3, <2>4 DEF SingleAnchor
<1>2. CASE UNCHANGED <<edges, stamp>>
  BY <1>2 DEF SingleAnchor
<1> QED BY <1>1, <1>2, OnlyStoreWrites

(* A project instrumented by runs only never has evidence of two commits,  *)
(* for any number of runs that overlap, fail, are cancelled or killed.     *)
THEOREM SingleAnchorHolds ==
  ASSUME Kinds = {"run"}
  PROVE  Spec => []SingleAnchor
<1> DEFINE Inv == TypeOK /\ AllRuns /\ SingleAnchor
<1>1. Init => Inv
  <2> SUFFICES ASSUME Init PROVE Inv
    OBVIOUS
  <2>1. AllRuns
    BY DEF Init, Idle, AllRuns
  <2>2. SingleAnchor
    BY DEF Init, SingleAnchor
  <2> QED BY <2>1, <2>2, InitTypes
<1>2. Inv /\ [Next]_vars => Inv'
  BY TypesInductive, AllRunsInductive, SingleAnchorInductive
<1>3. Inv => SingleAnchor
  OBVIOUS
<1> QED BY <1>1, <1>2, <1>3, PTL DEF Spec

-----------------------------------------------------------------------------
(* Sound evidence.                                                         *)

OneRun == \A a, b \in Run : a = b

Covered(es, t) == {e.source : e \in {x \in es : x.test = t}}
Measured(s, w) == Mappings(s.todo \ s.lost, w)

(* The tests that a narrowed run does not execute keep their edges, and    *)
(* these are what executing them at commit w would give.                   *)
KeptRight(s, w, es, un) ==
  \A t \in s.universe \ s.todo :
    t \notin s.replaced /\ (t \notin un => Covers[w][t] \subseteq Covered(es, t))

(* What a run knows is true of the checkout and the graph as they are.     *)
RunRight(s, co, es, un) ==
  /\ s.pc \notin {"idle", "cloning"} => co.files \in Commit /\ co.head = co.files
  /\ s.pc \in {"discovering", "planning", "measuring", "storing"} => s.sha \in {co.files, NoSha}
  /\ s.pc \in {"planning", "measuring", "storing"} => s.universe = Present(co.files)
  /\ s.pc \notin {"measuring", "storing"} => ~s.narrow
  /\ s.pc # "storing" => s.found = {} /\ s.lost = {}
  /\ s.pc \in {"measuring", "storing"} /\ ~s.narrow => s.todo = s.universe
  /\ s.narrow => s.kind = "run" /\ s.sha # NoSha /\ KeptRight(s, co.files, es, un)
  /\ s.pc = "planning" => s.universe # {}
  /\ s.pc = "measuring" => s.todo # {}
  /\ s.pc = "storing" => Measured(s, co.files) \subseteq s.found

CheckoutRight == checkout = NoCheckout \/ (checkout.files \in Commit /\ checkout.head = checkout.files)

SoundInv ==
  /\ TypeOK
  /\ CheckoutRight
  /\ Sound
  /\ \A r \in Run : RunRight(run[r], checkout, edges, unmeasured)

LEMMA EvidenceConstants ==
  /\ \A t \in Test : t \notin Source /\ t \in File
  /\ \A f \in Source : f \in File /\ f \notin Test
  /\ \A w \in Commit : w \in State /\ w # NoSha /\ w # NoNode
  /\ \A w \in State, t \in Test : Covers[w][t] \in SUBSET Source
BY EvidenceAssumption DEF File, State, Sha

LEMMA SoundKept ==
  ASSUME Sound, UNCHANGED <<edges, stamp, unmeasured>>
  PROVE  Sound'
<1>1. Anchor' = Anchor
  BY DEF Anchor, AgreedOn
<1>2. \A t : CoveredBy(t)' = CoveredBy(t)
  BY DEF CoveredBy
<1> QED BY <1>1, <1>2 DEF Sound

(* Planning: a test that is not affected covers what it covered.           *)
LEMMA UnaffectedSame ==
  ASSUME Determined, TypeOK, NEW w \in Commit, Anchor # NoSha,
         NEW t \in Present(w), t \notin Affected(Changed(Anchor, w), Present(w))
  PROVE  /\ t \notin Changed(Anchor, w)
         /\ t \in Present(Anchor)
         /\ Covers[Anchor][t] \subseteq CoveredBy(t) => Covers[w][t] = Covers[Anchor][t]
<1> DEFINE a == Anchor
           changed == Changed(a, w)
           suite == SuiteFiles(Present(w))
<1>1. a \in Commit
  BY AnchorType DEF Sha
<1>2. t \in Test /\ t \in suite /\ suite \subseteq Test
  BY EdgeParts DEF Present, SuiteFiles, TypeOK
<1>3. t \notin changed
  <2> HIDE DEF changed, a
  <2>1. ASSUME t \in changed PROVE t \in Affected(changed, Present(w))
    <3>1. t \in ChangedTests(changed, Present(w))
      BY <1>2, <2>1 DEF ChangedTests
    <3>2. t \in Present(w)
      OBVIOUS
    <3> QED BY <3>1, <3>2, Zenon DEF Affected
  <2> USE DEF changed, a
  <2> QED BY <2>1
<1>4. Content[a][t] = Content[w][t]
  BY <1>2, <1>3, EvidenceConstants DEF Changed
<1>5. t \in Present(a)
  BY <1>2, <1>4 DEF Present
<1>6. ASSUME Covers[a][t] \subseteq CoveredBy(t) PROVE Covers[w][t] = Covers[a][t]
  <2>1. ASSUME NEW f \in Covers[a][t] PROVE Content[a][f] = Content[w][f]
    <3>1. f \in Source /\ f \in File /\ f \notin suite
      BY <1>1, <1>2, EvidenceConstants
    <3>2. t \in TestsCovering(f)
      BY <1>6 DEF CoveredBy, TestsCovering
    <3>3. f \notin ChangedSources(changed, Present(w))
      BY <3>2 DEF Affected
    <3> QED BY <3>1, <3>3 DEF ChangedSources, Changed
  <2>2. \A f \in {t} \cup Covers[a][t] : Content[a][f] = Content[w][f]
    BY <1>4, <2>1
  <2> QED BY <1>1, <1>2, <2>2 DEF Determined
<1> QED BY <1>3, <1>5, <1>6

LEMMA UnaffectedKept ==
  ASSUME Determined, TypeOK, Sound, NEW w \in Commit, Anchor # NoSha,
         NEW t \in Present(w), t \notin Affected(Changed(Anchor, w), Present(w))
  PROVE  /\ t \notin Affected(Changed(Anchor, w), Present(w)) \cap PriorTests
         /\ t \notin ChangedTests(Changed(Anchor, w), Present(w)) \ Present(w)
         /\ t \notin unmeasured => Covers[w][t] \subseteq Covered(edges, t)
<1>1. t \notin Changed(Anchor, w)
  BY UnaffectedSame
<1>2. ASSUME t \notin unmeasured PROVE Covers[w][t] \subseteq Covered(edges, t)
  <2>1. Covers[Anchor][t] \subseteq CoveredBy(t)
    BY <1>2, UnaffectedSame DEF Sound
  <2> QED BY <2>1, UnaffectedSame DEF Covered, CoveredBy
<1> QED BY <1>1, <1>2 DEF ChangedTests

LEMMA AnchorAfter ==
  ASSUME NEW c \in Sha, \A t \in Test : stamp'[t] \in {c, NoSha, NoNode}
  PROVE  Anchor' \in {c, NoSha}
<1>1. \A d \in Commit : AgreedOn(d)' => d = c
  BY DEF AgreedOn
<1> QED BY <1>1 DEF Anchor

LEMMA EdgesOfCovered ==
  ASSUME NEW pairs, NEW sha, NEW es, EdgesOf(pairs, sha) \subseteq es,
         NEW t, NEW f, <<t, f>> \in pairs
  PROVE  f \in Covered(es, t)
<1> DEFINE e == [test |-> t, source |-> f, sha |-> sha]
<1>1. e \in es
  BY DEF EdgesOf
<1> QED BY <1>1 DEF Covered

(* A full write: every test of the commit was executed.                    *)
LEMMA ReplaceSound ==
  ASSUME NEW s \in RunState, NEW w \in Commit, Replace(s), s.sha \in {w, NoSha},
         s.todo = Present(w), Measured(s, w) \subseteq s.found, unmeasured' = s.lost
  PROVE  Sound'
<1>1. Anchor' \in {w, NoSha}
  <2>1. \A t \in Test : stamp'[t] \in {s.sha, NoSha, NoNode}
    BY DEF Replace
  <2> QED BY <2>1, AnchorAfter DEF Sha
<1>2. ASSUME NEW t \in Present(w) \ unmeasured', NEW f \in Covers[w][t]
      PROVE  f \in Covered(edges', t)
  <2>1. t \in Test /\ f \in Source /\ t \in s.todo \ s.lost
    BY EvidenceConstants DEF Present
  <2>2. <<t, f>> \in s.found
    BY <2>1 DEF Measured, Mappings
  <2>3. EdgesOf(s.found, s.sha) \subseteq edges'
    BY DEF Replace
  <2> QED BY <2>2, <2>3, EdgesOfCovered
<1> QED BY <1>1, <1>2 DEF Sound, Covered, CoveredBy

(* A narrowed write: executed tests as above, the others keep their edges. *)
LEMMA ApplySound ==
  ASSUME NEW s \in RunState, NEW w \in Commit, Apply(s), edges \subseteq Edge,
         s.sha = w, s.universe = Present(w),
         Measured(s, w) \subseteq s.found, KeptRight(s, w, edges, unmeasured),
         unmeasured' = (unmeasured \ s.todo) \cup s.lost
  PROVE  Sound'
<1>1. Anchor' \in {w, NoSha}
  <2>1. \A t \in Test : stamp'[t] \in {s.sha, NoSha, NoNode}
    BY DEF Apply
  <2> QED BY <2>1, AnchorAfter DEF Sha
<1>2. ASSUME NEW t \in Present(w) \ unmeasured', NEW f \in Covers[w][t]
      PROVE  f \in Covered(edges', t)
  <2> DEFINE kept == {<<e.test, e.source>> : e \in {x \in edges : x.test \notin s.replaced}}
  <2>1. t \in Test /\ f \in Source
    BY EvidenceConstants DEF Present
  <2>2. <<t, f>> \in s.found \cup kept
    <3>1. CASE t \in s.todo
      BY <2>1, <3>1 DEF Measured, Mappings
    <3>2. CASE t \notin s.todo
      <4>1. t \notin unmeasured /\ t \notin s.replaced /\ f \in Covered(edges, t)
        BY <3>2 DEF KeptRight
      <4>2. PICK e \in edges : e.test = t /\ e.source = f
        BY <4>1 DEF Covered
      <4> QED BY <4>1, <4>2
    <3> QED BY <3>1, <3>2
  <2>3. EdgesOf(s.found \cup kept, s.sha) \subseteq edges'
    BY DEF Apply
  <2> HIDE DEF kept
  <2> QED BY <2>2, <2>3, EdgesOfCovered
<1> QED BY <1>1, <1>2 DEF Sound, Covered, CoveredBy

(* A test map adds to what is there.                                       *)
LEMMA MergeSound ==
  ASSUME NEW s \in RunState, NEW w \in Commit, Merge(s), TypeOK, Sound, s.sha \in {w, NoSha},
         s.todo = Present(w), Measured(s, w) \subseteq s.found,
         unmeasured' = IF s.sha = NoSha THEN unmeasured \cup s.lost
                       ELSE (unmeasured \ s.todo) \cup s.lost
  PROVE  Sound'
<1>1. CASE s.sha = NoSha
  <2>1. {stamp'[t] : t \in Test} \ {NoSha, NoNode} = {stamp[t] : t \in Test} \ {NoSha, NoNode}
    <3>1. \A t \in Test : \/ stamp'[t] = stamp[t]
                           \/ (stamp'[t] \in {NoSha, NoNode} /\ stamp[t] \in {NoSha, NoNode})
      BY <1>1 DEF Merge, Coalesce
    <3> QED BY <3>1
  <2>2. Anchor' = Anchor
    BY <2>1 DEF Anchor, AgreedOn
  <2>3. edges \subseteq edges' /\ unmeasured \subseteq unmeasured'
    BY <1>1 DEF Merge
  <2> QED BY <2>2, <2>3 DEF Sound, CoveredBy
<1>2. CASE s.sha = w
  <2>1. s.sha # NoSha
    BY <1>2, EvidenceConstants
  <2>2. PICK t0 \in Test : stamp'[t0] = w
    <3>1. PICK p \in s.found : TRUE
      BY DEF Merge
    <3>2. p[1] \in Test /\ p[1] \in TestsIn(s.found)
      BY DEF RunState, TestsIn
    <3> QED BY <1>2, <2>1, <3>2 DEF Merge, Coalesce
  <2>3. \A d \in Commit : AgreedOn(d)' => d = w
    BY <2>2, EvidenceConstants DEF AgreedOn
  <2>4. Anchor' \in {w, NoSha}
    BY <2>3 DEF Anchor
  <2>5. ASSUME NEW t \in Present(w) \ unmeasured', NEW f \in Covers[w][t]
        PROVE  f \in Covered(edges', t)
    <3>1. t \in Test /\ f \in Source /\ t \in s.todo \ s.lost
      BY <2>1, EvidenceConstants DEF Present
    <3>2. <<t, f>> \in s.found
      BY <3>1 DEF Measured, Mappings
    <3>3. EdgesOf({p \in s.found : s.sha # NoSha \/ \A e \in edges : <<e.test, e.source>> # p}, s.sha)
            \subseteq edges'
      BY DEF Merge
    <3> QED BY <2>1, <3>2, <3>3, EdgesOfCovered
  <2> QED BY <2>4, <2>5 DEF Sound, Covered, CoveredBy
<1> QED BY <1>1, <1>2

LEMMA IdleRight ==
  \A co, es, un : RunRight(Idle, co, es, un)
BY DEF RunRight, Idle

LEMMA GoesRight ==
  ASSUME OneRun, TypeOK, NEW r \in Run, NEW s, Goes(r, s),
         RunRight(s, checkout', edges', unmeasured')
  PROVE  \A q \in Run : RunRight(run'[q], checkout', edges', unmeasured')
<1> SUFFICES ASSUME NEW q \in Run
             PROVE  RunRight(run'[q], checkout', edges', unmeasured')
  OBVIOUS
<1>1. q = r
  BY DEF OneRun
<1>2. run'[q] = Idle \/ run'[q] = s
  BY <1>1 DEF Goes, TypeOK
<1> QED BY <1>2, IdleRight, Zenon

LEMMA FailsRight ==
  ASSUME OneRun, TypeOK, NEW r \in Run, run' = [run EXCEPT ![r] = Idle]
  PROVE  \A q \in Run : RunRight(run'[q], checkout', edges', unmeasured')
<1> SUFFICES ASSUME NEW q \in Run
             PROVE  RunRight(run'[q], checkout', edges', unmeasured')
  OBVIOUS
<1>1. run'[q] = Idle
  BY DEF OneRun, TypeOK
<1> QED BY <1>1, IdleRight, Zenon

(* The steps up to the plan.                                               *)
LEMMA FetchRight ==
  ASSUME OneRun, SoundInv, NEW r \in Run,
         \/ \E kind \in Kinds, fresh \in BOOLEAN : Start(r, kind, fresh)
         \/ CloneTip(r) \/ KeepCheckout(r) \/ CloneFails(r) \/ ReadHead(r) \/ Discover(r)
  PROVE  /\ CheckoutRight'
         /\ \A q \in Run : RunRight(run'[q], checkout', edges', unmeasured')
<1> DEFINE s == run[r]
<1>1. s \in RunState /\ RunRight(s, checkout, edges, unmeasured) /\ TypeOK
  BY DEF SoundInv, TypeOK
<1>2. CASE \E kind \in Kinds, fresh \in BOOLEAN : Start(r, kind, fresh)
  <2>1. PICK kind \in Kinds, fresh \in BOOLEAN : Start(r, kind, fresh)
    BY <1>2
  <2> DEFINE n == [Idle EXCEPT !.pc = "cloning", !.kind = kind, !.fresh = fresh]
  <2>2. RunRight(n, checkout', edges', unmeasured')
    BY DEF RunRight, Idle
  <2>3. run'[r] = n
    BY <1>1, <2>1 DEF Start, TypeOK
  <2>4. \A q \in Run : q = r
    BY DEF OneRun
  <2> HIDE DEF n
  <2> QED BY <2>1, <2>2, <2>3, <2>4 DEF Start, CheckoutRight, SoundInv
<1>3. CASE CloneTip(r)
  <2> DEFINE n == [s EXCEPT !.pc = "reading"]
  <2>1. checkout'.files \in Commit /\ checkout'.head = checkout'.files
    BY <1>1, <1>3 DEF CloneTip, TypeOK
  <2>2. RunRight(n, checkout', edges', unmeasured')
    BY <1>1, <1>3, <2>1 DEF CloneTip, RunRight, RunState
  <2>3. Goes(r, n)
    BY <1>3 DEF CloneTip
  <2> HIDE DEF n
  <2> QED BY <1>1, <2>1, <2>2, <2>3, GoesRight DEF CheckoutRight
<1>4. CASE KeepCheckout(r)
  <2> DEFINE n == [s EXCEPT !.pc = "reading"]
  <2>1. checkout'.files \in Commit /\ checkout'.head = checkout'.files
    BY <1>4 DEF KeepCheckout, SoundInv, CheckoutRight
  <2>2. RunRight(n, checkout', edges', unmeasured')
    BY <1>1, <1>4, <2>1 DEF KeepCheckout, RunRight, RunState
  <2>3. Goes(r, n)
    BY <1>4 DEF KeepCheckout
  <2> HIDE DEF n
  <2> QED BY <1>1, <2>1, <2>2, <2>3, GoesRight DEF CheckoutRight
<1>5. CASE CloneFails(r)
  BY <1>1, <1>5, FailsRight DEF CloneFails, Fails, SoundInv, CheckoutRight
<1>6. CASE ReadHead(r)
  <2>1. PICK sha \in {checkout.head, NoSha} :
          Goes(r, [s EXCEPT !.pc = "discovering", !.sha = sha])
    BY <1>6 DEF ReadHead
  <2> DEFINE n == [s EXCEPT !.pc = "discovering", !.sha = sha]
  <2>2. checkout' = checkout
    BY <1>6 DEF ReadHead
  <2>3. RunRight(n, checkout', edges', unmeasured')
    BY <1>1, <1>6, <2>2 DEF ReadHead, RunRight, RunState
  <2>4. Goes(r, n)
    BY <2>1
  <2> HIDE DEF n
  <2> QED BY <1>1, <2>2, <2>3, <2>4, GoesRight DEF CheckoutRight, SoundInv
<1>7. CASE Discover(r)
  <2> DEFINE found == Present(checkout.files)
             n == [s EXCEPT !.pc = "planning", !.universe = found]
  <2>1. checkout' = checkout
    BY <1>7 DEF Discover
  <2>2. found # {} => RunRight(n, checkout', edges', unmeasured')
    BY <1>1, <1>7, <2>1 DEF Discover, RunRight, RunState
  <2>3. Fails(r) \/ (found # {} /\ Goes(r, n))
    BY <1>7 DEF Discover
  <2> HIDE DEF n, found
  <2>4. \A q \in Run : RunRight(run'[q], checkout', edges', unmeasured')
    BY <1>1, <2>2, <2>3, GoesRight, FailsRight DEF Fails
  <2> QED BY <2>1, <2>4 DEF CheckoutRight, SoundInv
<1> QED BY <1>2, <1>3, <1>4, <1>5, <1>6, <1>7

(* The plan.                                                               *)
LEMMA PlanRight ==
  ASSUME Determined, OneRun, SoundInv, NEW r \in Run, PlanFull(r) \/ PlanNarrow(r)
  PROVE  /\ CheckoutRight'
         /\ \A q \in Run : RunRight(run'[q], checkout', edges', unmeasured')
<1> DEFINE s == run[r]
           w == checkout.files
<1>1. s \in RunState /\ RunRight(s, checkout, edges, unmeasured) /\ TypeOK /\ Sound
  BY DEF SoundInv, TypeOK
<1>2. s.pc = "planning" /\ UNCHANGED <<checkout, edges, unmeasured>>
  BY DEF PlanFull, PlanNarrow, PipelineUnchanged, graphVars
<1>3. w \in Commit /\ checkout.head = w /\ s.sha \in {w, NoSha} /\ s.universe = Present(w)
      /\ ~s.narrow /\ s.found = {} /\ s.lost = {} /\ s.universe # {}
  BY <1>1, <1>2 DEF RunRight
<1>4. CASE PlanFull(r)
  <2> DEFINE n == FullPlan(s)
  <2>1. RunRight(n, checkout, edges, unmeasured)
    BY <1>1, <1>3 DEF FullPlan, RunRight, RunState
  <2>2. Goes(r, n)
    BY <1>4 DEF PlanFull
  <2> HIDE DEF n
  <2> QED BY <1>1, <1>2, <2>1, <2>2, GoesRight DEF SoundInv, CheckoutRight
<1>5. CASE PlanNarrow(r)
  <2> DEFINE changed == Changed(Anchor, w)
             n == NarrowPlan(s, changed)
             again == Affected(changed, Present(w))
             out == (again \cap PriorTests) \cup (ChangedTests(changed, Present(w)) \ Present(w))
  <2>1. s.kind = "run" /\ s.sha # NoSha /\ Anchor # NoSha /\ Goes(r, n)
    BY <1>5 DEF PlanNarrow, MayNarrow
  <2>2. /\ n.pc = IF again = {} THEN "storing" ELSE "measuring"
        /\ n.narrow = TRUE /\ n.todo = again /\ n.replaced = out
        /\ n.kind = "run" /\ n.sha = s.sha /\ n.universe = Present(w)
        /\ n.found = {} /\ n.lost = {}
    <3> HIDE DEF changed
    <3> QED BY <1>1, <1>3, <2>1 DEF NarrowPlan, RunState
  <2>3. \A t \in Present(w) \ again :
          t \notin out /\ (t \notin unmeasured => Covers[w][t] \subseteq Covered(edges, t))
    BY <1>1, <1>3, <2>1, UnaffectedKept
  <2> HIDE DEF again, out, n
  <2>4. KeptRight(n, w, edges, unmeasured)
    BY <2>2, <2>3 DEF KeptRight
  <2>5. n.pc = "storing" => Measured(n, w) \subseteq n.found
    BY <2>2 DEF Measured, Mappings
  <2>6. RunRight(n, checkout, edges, unmeasured)
    BY <1>3, <2>1, <2>2, <2>4, <2>5 DEF RunRight
  <2> QED BY <1>1, <1>2, <2>1, <2>6, GoesRight DEF SoundInv, CheckoutRight
<1> QED BY <1>4, <1>5

LEMMA MeasureRight ==
  ASSUME OneRun, SoundInv, NEW r \in Run, Measure(r)
  PROVE  /\ CheckoutRight'
         /\ \A q \in Run : RunRight(run'[q], checkout', edges', unmeasured')
<1> DEFINE s == run[r]
           w == checkout.files
<1>1. s \in RunState /\ RunRight(s, checkout, edges, unmeasured) /\ TypeOK
  BY DEF SoundInv, TypeOK
<1>2. s.pc = "measuring" /\ UNCHANGED <<edges, unmeasured>>
  BY DEF Measure, PipelineUnchanged, graphVars
<1>3. w \in Commit /\ checkout.head = w
  BY <1>1, <1>2 DEF RunRight
<1>4. PICK data \in [LaterShard -> Data], lost \in SUBSET s.todo,
           seen \in SUBSET Test, found \in SUBSET (Test \X Source) :
        /\ checkout' = [checkout EXCEPT !.data = data]
        /\ Mappings(s.todo \ lost, checkout.files) \subseteq found
        /\ s.todo \ lost # {} => found = Mappings(s.todo \ lost, checkout.files)
        /\ Flaky = {} => lost = {}
        /\ \/ Fails(r)
           \/ /\ Goes(r, [s EXCEPT !.pc = "storing", !.lost = lost,
                                   !.seen = seen, !.found = found])
              /\ UNCHANGED record
  <2>1. TypeOK
    BY <1>1
  <2> QED BY ONLY <2>1, Measure(r), r \in Run, MeasureParts
<1>5. checkout'.files = w /\ checkout'.head = w
  BY <1>1, <1>3, <1>4 DEF TypeOK
<1> DEFINE n == [s EXCEPT !.pc = "storing", !.lost = lost, !.seen = seen, !.found = found]
<1>6. Fails(r) \/ Goes(r, n)
  BY <1>4
<1>7. /\ n.pc = "storing" /\ n.lost = lost /\ n.found = found
      /\ n.kind = s.kind /\ n.sha = s.sha /\ n.universe = s.universe /\ n.narrow = s.narrow
      /\ n.todo = s.todo /\ n.replaced = s.replaced
  BY <1>1 DEF RunState
<1> HIDE DEF n
<1>8. Measured(n, w) \subseteq n.found
  BY <1>4, <1>7 DEF Measured
<1>9. RunRight(n, checkout', edges', unmeasured')
  <2>1. s.narrow => KeptRight(n, w, edges, unmeasured)
    BY <1>1, <1>7 DEF RunRight, KeptRight
  <2>2. s.sha \in {w, NoSha} /\ s.universe = Present(w) /\ (~s.narrow => s.todo = s.universe)
        /\ (s.narrow => s.kind = "run" /\ s.sha # NoSha)
    BY <1>1, <1>2 DEF RunRight
  <2> QED BY <1>2, <1>3, <1>5, <1>7, <1>8, <2>1, <2>2 DEF RunRight
<1>10. \A q \in Run : RunRight(run'[q], checkout', edges', unmeasured')
  BY <1>1, <1>6, <1>9, GoesRight, FailsRight DEF Fails
<1> QED BY <1>3, <1>5, <1>10 DEF CheckoutRight

LEMMA StoreSound ==
  ASSUME SoundInv, NEW r \in Run, Store(r)
  PROVE  Sound'
<1> DEFINE s == run[r]
           w == checkout.files
<1>1. s \in RunState /\ RunRight(s, checkout, edges, unmeasured) /\ TypeOK /\ Sound
  BY DEF SoundInv, TypeOK
<1>2. s.pc = "storing" /\ Write(s) /\ unmeasured' = StillUnmeasured(s)
  BY DEF Store, MayStore
<1>3. /\ w \in Commit /\ s.sha \in {w, NoSha} /\ s.universe = Present(w)
      /\ Measured(s, w) \subseteq s.found
  BY <1>1, <1>2 DEF RunRight
<1>4. CASE s.kind = "map"
  <2>1. ~s.narrow /\ s.todo = Present(w)
    BY <1>1, <1>2, <1>3, <1>4 DEF RunRight
  <2>2. Merge(s)
    BY <1>2, <1>4 DEF Write
  <2>3. unmeasured' = IF s.sha = NoSha THEN unmeasured \cup s.lost
                      ELSE (unmeasured \ s.todo) \cup s.lost
    BY <1>2, <1>4 DEF StillUnmeasured
  <2> QED BY <1>1, <1>3, <2>1, <2>2, <2>3, MergeSound
<1>5. CASE s.kind # "map" /\ s.narrow
  <2>1. s.kind = "run" /\ s.sha = w /\ KeptRight(s, w, edges, unmeasured)
    BY <1>1, <1>3, <1>5 DEF RunRight
  <2>2. Apply(s)
    BY <1>2, <1>5 DEF Write
  <2>3. unmeasured' = (unmeasured \ s.todo) \cup s.lost
    BY <1>2, <1>5, <2>1, <1>3, EvidenceConstants DEF StillUnmeasured
  <2> QED BY <1>1, <1>3, <2>1, <2>2, <2>3, ApplySound DEF TypeOK
<1>6. CASE s.kind # "map" /\ ~s.narrow
  <2>1. s.kind = "run" /\ s.todo = Present(w)
    BY <1>1, <1>2, <1>3, <1>6 DEF RunRight, RunState
  <2>2. Replace(s)
    BY <1>2, <1>6 DEF Write
  <2>3. unmeasured' = s.lost
    BY <1>2, <1>6, <2>1 DEF StillUnmeasured
  <2> QED BY <1>1, <1>3, <2>1, <2>2, <2>3, ReplaceSound
<1> QED BY <1>4, <1>5, <1>6

LEMMA StepRight ==
  ASSUME Determined, OneRun, SoundInv, NEW r \in Run, Step(r)
  PROVE  /\ CheckoutRight'
         /\ Sound'
         /\ \A q \in Run : RunRight(run'[q], checkout', edges', unmeasured')
<1>1. CASE \/ \E kind \in Kinds, fresh \in BOOLEAN : Start(r, kind, fresh)
           \/ CloneTip(r) \/ KeepCheckout(r) \/ CloneFails(r) \/ ReadHead(r) \/ Discover(r)
           \/ PlanFull(r) \/ PlanNarrow(r) \/ Measure(r)
  <2>1. /\ CheckoutRight'
        /\ \A q \in Run : RunRight(run'[q], checkout', edges', unmeasured')
    BY <1>1, FetchRight, PlanRight, MeasureRight
  <2>2. UNCHANGED <<edges, stamp, unmeasured>>
    BY <1>1 DEF Start, CloneTip, KeepCheckout, CloneFails, ReadHead, Discover, PlanFull,
       PlanNarrow, Measure, PipelineUnchanged, graphVars
  <2>3. Sound'
    BY <2>2, SoundKept DEF SoundInv
  <2> QED BY <2>1, <2>3
<1>2. CASE Store(r) \/ StoreFails(r) \/ StoreCancelled(r)
  <2>1. run' = [run EXCEPT ![r] = Idle] /\ UNCHANGED checkout
    BY <1>2 DEF Store, StoreFails, StoreCancelled, StoreEnds
  <2>2. \A q \in Run : RunRight(run'[q], checkout', edges', unmeasured')
    BY <2>1, FailsRight DEF SoundInv
  <2>3. Sound'
    <3>1. CASE Store(r)
      BY <3>1, StoreSound
    <3>2. CASE StoreFails(r) \/ StoreCancelled(r)
      BY <3>2, SoundKept DEF StoreFails, StoreCancelled, SoundInv
    <3> QED BY <1>2, <3>1, <3>2
  <2> QED BY <2>1, <2>2, <2>3 DEF SoundInv, CheckoutRight
<1>3. CASE Disconnect(r)
  <2>1. run' = [run EXCEPT ![r] = Idle] /\ UNCHANGED <<checkout, edges, stamp, unmeasured>>
    BY <1>3 DEF Disconnect, Around, graphVars
  <2>2. \A q \in Run : RunRight(run'[q], checkout', edges', unmeasured')
    BY <2>1, FailsRight DEF SoundInv
  <2> QED BY <2>1, <2>2, SoundKept DEF SoundInv, CheckoutRight
<1> QED BY <1>1, <1>2, <1>3 DEF Step

LEMMA AroundRight ==
  ASSUME Edited = {}, SoundInv,
         \/ RequestCancel \/ Restart
         \/ \E c \in Commit : Push(c)
         \/ \E w \in State : Edit(w)
         \/ \E s \in Source : MapUnmapped(s)
  PROVE  /\ CheckoutRight'
         /\ Sound'
         /\ \A q \in Run : RunRight(run'[q], checkout', edges', unmeasured')
<1>1. UNCHANGED <<edges, stamp, unmeasured>>
  BY DEF RequestCancel, Restart, Push, Edit, MapUnmapped, Around, graphVars
<1>2. Sound'
  BY <1>1, SoundKept DEF SoundInv
<1>3. CheckoutRight'
  <2>1. CASE checkout' \in {checkout, NoCheckout}
    BY <2>1 DEF SoundInv, CheckoutRight
  <2>2. CASE \E r \in Run : \E data : run[r].pc = "measuring" /\ checkout' = [checkout EXCEPT !.data = data]
    <3>0. PICK r \in Run : \E data : run[r].pc = "measuring" /\ checkout' = [checkout EXCEPT !.data = data]
      BY <2>2
    <3>1. PICK data : run[r].pc = "measuring" /\ checkout' = [checkout EXCEPT !.data = data]
      BY <3>0
    <3>2. checkout.files \in Commit /\ checkout.head = checkout.files
      BY <3>1 DEF SoundInv, RunRight
    <3>3. checkout'.files = checkout.files /\ checkout'.head = checkout.head
      BY <3>1 DEF SoundInv, TypeOK
    <3> QED BY <3>2, <3>3 DEF CheckoutRight
  <2> QED BY <2>1, <2>2 DEF RequestCancel, Restart, Push, Edit, MapUnmapped
<1>4. ASSUME NEW q \in Run PROVE RunRight(run'[q], checkout', edges', unmeasured')
  <2>1. RunRight(run[q], checkout, edges, unmeasured) /\ run[q] \in RunState
    BY DEF SoundInv, TypeOK
  <2>2. CASE RequestCancel
    <3> DEFINE n == [run[q] EXCEPT !.asked = TRUE]
    <3>1. /\ n.pc = run[q].pc /\ n.kind = run[q].kind /\ n.sha = run[q].sha
          /\ n.universe = run[q].universe /\ n.narrow = run[q].narrow /\ n.todo = run[q].todo
          /\ n.replaced = run[q].replaced /\ n.found = run[q].found /\ n.lost = run[q].lost
      BY <2>1 DEF RunState
    <3> HIDE DEF n
    <3>2. RunRight(n, checkout, edges, unmeasured)
      BY <2>1, <3>1 DEF RunRight, KeptRight, Measured
    <3>3. run'[q] \in {n, run[q]} /\ checkout' = checkout
      BY <2>2 DEF RequestCancel, n
    <3> QED BY <1>1, <2>1, <3>2, <3>3
  <2>3. CASE Restart
    <3>1. run'[q] = Idle
      BY <2>3 DEF Restart
    <3> QED BY <3>1, IdleRight, Zenon
  <2>4. CASE \/ \E c \in Commit : Push(c)
             \/ \E w \in State : Edit(w)
             \/ \E s \in Source : MapUnmapped(s)
    <3>1. run' = run /\ checkout' = checkout
      BY <2>4 DEF Push, Edit, MapUnmapped
    <3> QED BY <1>1, <2>1, <3>1
  <2> QED BY <2>2, <2>3, <2>4
<1> QED BY <1>2, <1>3, <1>4

LEMMA SoundInvInductive ==
  ASSUME Determined, OneRun, Edited = {}, SoundInv, [Next]_vars
  PROVE  SoundInv'
<1>1. TypeOK'
  BY TypesInductive DEF SoundInv
<1>2. CASE UNCHANGED vars
  <2>1. UNCHANGED <<checkout, edges, stamp, run, unmeasured>>
    BY <1>2 DEF vars, graphVars
  <2>2. Sound' /\ CheckoutRight'
    BY <2>1, SoundKept DEF SoundInv, CheckoutRight
  <2>3. \A q \in Run : RunRight(run'[q], checkout', edges', unmeasured')
    BY <2>1 DEF SoundInv
  <2> QED BY <1>1, <2>2, <2>3 DEF SoundInv
<1>3. CASE \E r \in Run : Step(r)
  BY <1>1, <1>3, StepRight DEF SoundInv
<1>4. CASE \/ RequestCancel \/ Restart
           \/ \E c \in Commit : Push(c)
           \/ \E w \in State : Edit(w)
           \/ \E s \in Source : MapUnmapped(s)
  BY <1>1, <1>4, AroundRight DEF SoundInv
<1> QED BY <1>2, <1>3, <1>4 DEF Next

LEMMA SoundInvInit ==
  ASSUME Init
  PROVE  SoundInv
<1>1. Anchor = NoSha
  <2>1. {stamp[t] : t \in Test} \ {NoSha, NoNode} = {}
    BY DEF Init
  <2> QED BY <2>1 DEF Anchor, AgreedOn
<1>2. \A q \in Run : RunRight(run[q], checkout, edges, unmeasured)
  BY IdleRight DEF Init
<1> QED BY <1>1, <1>2, InitTypes DEF SoundInv, CheckoutRight, Sound, Init

(* One run at a time in a checkout that nobody edits: whatever commits the *)
(* branch points to, in whatever order, and wherever runs are narrowed,    *)
(* fail, are cancelled or killed, the evidence stamped with a commit has   *)
(* all that its tests cover there -- apart from the tests whose last       *)
(* execution left no database, of which it may have what a database left   *)
(* by an earlier run says.  Neither those tests nor such databases spoil   *)
(* the evidence of the others.                                             *)
THEOREM SoundHolds ==
  ASSUME Determined, OneRun, Edited = {}
  PROVE  Spec => []Sound
<1>1. Init => SoundInv
  BY SoundInvInit
<1>2. SoundInv /\ [Next]_vars => SoundInv'
  BY SoundInvInductive
<1>3. SoundInv => Sound
  BY DEF SoundInv
<1> QED BY <1>1, <1>2, <1>3, PTL DEF Spec

-----------------------------------------------------------------------------
(* Exact evidence: EvidenceGraph implements FullEvidence.                  *)

Exact == Anchor # NoSha => \A t \in Test : CoveredBy(t) = Covers[Anchor][t]

(* The tests that a narrowed run does not execute keep exactly the edges   *)
(* that executing them would give, or lose theirs and are no longer there. *)
KeptExact(s, w, es) ==
  /\ \A t \in Test \ s.todo :
       \/ t \notin s.replaced /\ Covered(es, t) = Covers[w][t]
       \/ t \in s.replaced /\ Covers[w][t] = {}
  /\ \A t \in s.todo : Covered(es, t) # {} => t \in s.replaced

RunExact(s, co, es) ==
  /\ s.lost = {}
  /\ s.pc = "storing" => s.found = Measured(s, co.files)
  /\ s.narrow => KeptExact(s, co.files, es)

ExactInv ==
  /\ SoundInv /\ AllRuns /\ Exact
  /\ \A r \in Run : RunExact(run[r], checkout, edges)

LEMMA PlanExact ==
  ASSUME Determined, AbsentCoverNothing, TypeOK, Exact, NEW w \in Commit, Anchor # NoSha,
         NEW s, s.todo = Affected(Changed(Anchor, w), Present(w)),
         s.replaced = (s.todo \cap PriorTests)
                        \cup (ChangedTests(Changed(Anchor, w), Present(w)) \ Present(w))
  PROVE  KeptExact(s, w, edges)
<1> DEFINE a == Anchor
           changed == Changed(a, w)
<1>1. a \in Commit
  BY AnchorType DEF Sha
<1>2. \A t \in Test : Covered(edges, t) = Covers[a][t] /\ CoveredBy(t) = Covers[a][t]
  BY DEF Exact, Covered, CoveredBy
<1>3. \A t : Covered(edges, t) # {} => t \in PriorTests
  BY DEF Covered, PriorTests
<1>4. ASSUME NEW t \in Test \ s.todo, t \in Present(w)
      PROVE  t \notin s.replaced /\ Covered(edges, t) = Covers[w][t]
  <2>1. t \notin changed /\ Covers[w][t] = Covers[a][t]
    BY <1>2, <1>4, UnaffectedSame
  <2> QED BY <1>2, <1>4, <2>1 DEF ChangedTests
<1>5. ASSUME NEW t \in Test \ s.todo, t \notin Present(w)
      PROVE  /\ Covers[w][t] = {}
             /\ t \in s.replaced \/ Covered(edges, t) = {}
  <2>1. Content[w][t] = NoFile
    BY <1>5 DEF Present
  <2>2. Covers[w][t] = {}
    BY <2>1 DEF AbsentCoverNothing
  <2>3. ASSUME Covered(edges, t) # {} PROVE t \in s.replaced
    <3>1. Content[a][t] # NoFile
      BY <1>1, <1>2, <2>3 DEF AbsentCoverNothing
    <3>2. t \in changed
      BY <2>1, <3>1, EvidenceConstants DEF Changed
    <3>3. t \in ChangedTests(changed, Present(w))
      BY <1>3, <2>3, <3>2 DEF ChangedTests, SuiteFiles
    <3> QED BY <1>5, <3>3
  <2> QED BY <2>2, <2>3
<1> QED BY <1>3, <1>4, <1>5 DEF KeptExact

LEMMA EdgesOfExact ==
  ASSUME NEW pairs, NEW sha, edges' = EdgesOf(pairs, sha), NEW t,
         pairs \in SUBSET (Test \X Source)
  PROVE  CoveredBy(t)' = {f \in Source : <<t, f>> \in pairs}
<1>1. ASSUME NEW f \in CoveredBy(t)' PROVE f \in Source /\ <<t, f>> \in pairs
  <2>1. PICK e \in edges' : e.test = t /\ e.source = f
    BY <1>1 DEF CoveredBy
  <2>2. PICK p \in pairs : e = [test |-> p[1], source |-> p[2], sha |-> sha]
    BY DEF EdgesOf
  <2> QED BY <2>1, <2>2
<1>2. ASSUME NEW f, <<t, f>> \in pairs PROVE f \in CoveredBy(t)'
  <2>1. f \in Covered(edges', t)
    BY <1>2, EdgesOfCovered
  <2> QED BY <2>1 DEF Covered, CoveredBy
<1> QED BY <1>1, <1>2

LEMMA ReplaceExact ==
  ASSUME AbsentCoverNothing, NEW s \in RunState, NEW w \in Commit, Replace(s),
         s.todo = Present(w), s.lost = {}, s.found = Measured(s, w), NEW t \in Test
  PROVE  CoveredBy(t)' = Covers[w][t]
<1>1. CoveredBy(t)' = {f \in Source : <<t, f>> \in s.found}
  BY EdgesOfExact DEF Replace, RunState
<1>2. Covers[w][t] \in SUBSET Source
  BY EvidenceConstants
<1>3. t \notin Present(w) => Covers[w][t] = {}
  BY DEF AbsentCoverNothing, Present
<1>4. \A f \in Source : <<t, f>> \in s.found <=> t \in Present(w) /\ f \in Covers[w][t]
  BY DEF Measured, Mappings
<1> QED BY <1>1, <1>2, <1>3, <1>4

LEMMA ApplyExact ==
  ASSUME NEW s \in RunState, NEW w \in Commit, Apply(s), edges \subseteq Edge,
         s.lost = {}, s.found = Measured(s, w), KeptExact(s, w, edges), NEW t \in Test
  PROVE  CoveredBy(t)' = Covers[w][t]
<1> DEFINE kept == {<<e.test, e.source>> : e \in {x \in edges : x.test \notin s.replaced}}
<1>1. kept \in SUBSET (Test \X Source) /\ s.found \in SUBSET (Test \X Source)
  BY DEF Edge, RunState
<1>2. edges' = EdgesOf(s.found \cup kept, s.sha)
  BY DEF Apply
<1>3. \A f : <<t, f>> \in kept <=> t \notin s.replaced /\ f \in Covered(edges, t)
  BY DEF Covered
<1>4. \A f \in Source : <<t, f>> \in s.found <=> t \in s.todo /\ f \in Covers[w][t]
  BY DEF Measured, Mappings
<1>5. Covers[w][t] \in SUBSET Source /\ Covered(edges, t) \in SUBSET Source
  BY EvidenceConstants DEF Covered, Edge
<1> HIDE DEF kept
<1>6. CoveredBy(t)' = {f \in Source : <<t, f>> \in s.found \cup kept}
  BY <1>1, <1>2, EdgesOfExact
<1>7. CASE t \in s.todo
  BY <1>3, <1>4, <1>5, <1>6, <1>7 DEF KeptExact
<1>8. CASE t \notin s.todo
  BY <1>3, <1>4, <1>5, <1>6, <1>8 DEF KeptExact
<1> QED BY <1>7, <1>8

LEMMA StoreExact ==
  ASSUME AbsentCoverNothing, ExactInv, NEW r \in Run, Store(r)
  PROVE  /\ checkout.files \in Commit
         /\ Anchor' \in {checkout.files, NoSha}
         /\ \A t \in Test : CoveredBy(t)' = Covers[checkout.files][t]
<1> DEFINE s == run[r]
           w == checkout.files
<1>1. s \in RunState /\ RunRight(s, checkout, edges, unmeasured) /\ TypeOK
      /\ RunExact(s, checkout, edges) /\ s.kind = "run"
  BY DEF ExactInv, SoundInv, TypeOK, AllRuns
<1>2. s.pc = "storing" /\ Write(s)
  BY DEF Store, MayStore
<1>3. w \in Commit /\ s.sha \in {w, NoSha} /\ s.universe = Present(w) /\ s.found = Measured(s, w)
  BY <1>1, <1>2 DEF RunRight, RunExact
<1>4. Anchor' \in {w, NoSha}
  <2>1. \A t \in Test : stamp'[t] \in {s.sha, NoSha, NoNode}
    BY <1>1, <1>2 DEF Write, Apply, Replace
  <2>2. s.sha \in Sha
    BY <1>1 DEF RunState
  <2> QED BY <1>3, <2>1, <2>2, AnchorAfter
<1>5. CASE s.narrow
  <2>1. KeptExact(s, w, edges) /\ s.lost = {} /\ Apply(s)
    BY <1>1, <1>2, <1>5 DEF RunExact, Write
  <2> QED BY <1>1, <1>3, <1>4, <2>1, ApplyExact DEF TypeOK
<1>6. CASE ~s.narrow
  <2>1. s.todo = Present(w) /\ s.lost = {} /\ Replace(s)
    BY <1>1, <1>2, <1>3, <1>6 DEF RunExact, RunRight, Write
  <2> QED BY <1>1, <1>3, <1>4, <2>1, ReplaceExact
<1> QED BY <1>5, <1>6

(* Before the plan a run is not narrowed and has lost nothing.             *)
LEMMA EarlyExact ==
  ASSUME NEW s, NEW co, NEW es, NEW un, RunRight(s, co, es, un),
         s.pc \notin {"measuring", "storing"}, s.narrow \in BOOLEAN
  PROVE  RunExact(s, co, es)
BY DEF RunRight, RunExact

LEMMA GoesExact ==
  ASSUME OneRun, TypeOK, NEW r \in Run, NEW s, Goes(r, s), RunExact(s, checkout', edges')
  PROVE  \A q \in Run : RunExact(run'[q], checkout', edges')
<1> SUFFICES ASSUME NEW q \in Run PROVE RunExact(run'[q], checkout', edges')
  OBVIOUS
<1>1. run'[q] = Idle \/ run'[q] = s
  BY DEF OneRun, Goes, TypeOK
<1>2. RunExact(Idle, checkout', edges')
  BY DEF RunExact, Idle
<1> QED BY <1>1, <1>2, Zenon

LEMMA IdleExact ==
  ASSUME OneRun, TypeOK, NEW r \in Run, run' = [run EXCEPT ![r] = Idle]
  PROVE  \A q \in Run : RunExact(run'[q], checkout', edges')
<1> SUFFICES ASSUME NEW q \in Run PROVE RunExact(run'[q], checkout', edges')
  OBVIOUS
<1>1. run'[q] = Idle
  BY DEF OneRun, TypeOK
<1> QED BY <1>1 DEF RunExact, Idle

LEMMA PlannedExact ==
  ASSUME Determined, AbsentCoverNothing, OneRun, Flaky = {}, ExactInv, NEW r \in Run,
         PlanFull(r) \/ PlanNarrow(r) \/ Measure(r)
  PROVE  \A q \in Run : RunExact(run'[q], checkout', edges')
<1> DEFINE s == run[r]
           w == checkout.files
<1>1. s \in RunState /\ RunRight(s, checkout, edges, unmeasured) /\ TypeOK /\ Exact
      /\ RunExact(s, checkout, edges)
  BY DEF ExactInv, SoundInv, TypeOK
<1>2. UNCHANGED edges /\ (~Measure(r) => UNCHANGED checkout)
  BY DEF PlanFull, PlanNarrow, Measure, PipelineUnchanged, graphVars
<1>3. CASE PlanFull(r)
  <2> DEFINE n == FullPlan(s)
  <2>1. s.lost = {} /\ ~s.narrow /\ UNCHANGED checkout
    BY <1>1, <1>3 DEF PlanFull, RunRight
  <2>2. RunExact(n, checkout, edges)
    BY <1>1, <2>1 DEF FullPlan, RunState, RunExact
  <2>3. Goes(r, n)
    BY <1>3 DEF PlanFull
  <2> HIDE DEF n
  <2> QED BY <1>1, <1>2, <2>1, <2>2, <2>3, GoesExact
<1>4. CASE PlanNarrow(r)
  <2> DEFINE changed == Changed(Anchor, w)
             n == NarrowPlan(s, changed)
             again == Affected(changed, Present(w))
             out == (again \cap PriorTests) \cup (ChangedTests(changed, Present(w)) \ Present(w))
  <2>1. /\ w \in Commit /\ s.universe = Present(w) /\ s.lost = {} /\ s.found = {}
        /\ Anchor # NoSha /\ Goes(r, n) /\ UNCHANGED checkout
    BY <1>1, <1>4 DEF PlanNarrow, MayNarrow, RunRight
  <2>2. /\ n.todo = again /\ n.replaced = out /\ n.lost = {} /\ n.found = {}
        /\ n.pc = IF again = {} THEN "storing" ELSE "measuring"
    <3> HIDE DEF changed
    <3> QED BY <1>1, <2>1 DEF NarrowPlan, RunState
  <2> HIDE DEF n
  <2>3. KeptExact(n, w, edges)
    BY <1>1, <2>1, <2>2, PlanExact
  <2>4. RunExact(n, checkout, edges)
    BY <2>2, <2>3 DEF RunExact, Measured, Mappings
  <2> QED BY <1>1, <1>2, <2>1, <2>4, GoesExact
<1>5. CASE Measure(r)
  <2>1. PICK data \in [LaterShard -> Data], lost \in SUBSET s.todo,
             seen \in SUBSET Test, found \in SUBSET (Test \X Source) :
          /\ checkout' = [checkout EXCEPT !.data = data]
          /\ s.todo \ lost # {} => found = Mappings(s.todo \ lost, w)
          /\ lost = {}
          /\ \/ Fails(r)
             \/ Goes(r, [s EXCEPT !.pc = "storing", !.lost = lost, !.seen = seen, !.found = found])
    BY <1>1, <1>5, MeasureParts
  <2>2. CASE Fails(r)
    BY <1>1, <2>2, IdleExact DEF Fails
  <2> DEFINE n == [s EXCEPT !.pc = "storing", !.lost = lost, !.seen = seen, !.found = found]
  <2>3. CASE Goes(r, n)
    <3>1. /\ n.lost = {} /\ n.narrow = s.narrow /\ n.todo = s.todo /\ n.replaced = s.replaced
          /\ n.found = found
      BY <1>1, <2>1 DEF RunState
    <3>2. checkout'.files = w
      BY <1>1, <2>1 DEF TypeOK
    <3>3. s.todo # {}
      BY <1>1, <1>5 DEF Measure, RunRight
    <3> HIDE DEF n
    <3>4. n.found = Measured(n, w)
      BY <2>1, <3>1, <3>3 DEF Measured
    <3>5. RunExact(n, checkout', edges')
      BY <1>1, <1>2, <3>1, <3>2, <3>4 DEF RunExact, KeptExact
    <3> QED BY <1>1, <2>3, <3>5, GoesExact
  <2> QED BY <2>1, <2>2, <2>3
<1> QED BY <1>3, <1>4, <1>5

LEMMA RunsStayExact ==
  ASSUME Determined, AbsentCoverNothing, OneRun, Edited = {}, Flaky = {}, ExactInv,
         SoundInv', [Next]_vars
  PROVE  \A q \in Run : RunExact(run'[q], checkout', edges')
<1>0. /\ TypeOK
      /\ \A q \in Run : run[q] \in RunState /\ RunExact(run[q], checkout, edges)
      /\ \A q \in Run : run'[q] \in RunState /\ RunRight(run'[q], checkout', edges', unmeasured')
  BY DEF ExactInv, SoundInv, TypeOK
<1>1. CASE UNCHANGED vars
  BY <1>0, <1>1 DEF vars, graphVars
<1>2. ASSUME NEW r \in Run,
             \/ \E kind \in Kinds, fresh \in BOOLEAN : Start(r, kind, fresh)
             \/ CloneTip(r) \/ KeepCheckout(r) \/ ReadHead(r)
             \/ \E found : Goes(r, [run[r] EXCEPT !.pc = "planning", !.universe = found])
      PROVE  \A q \in Run : RunExact(run'[q], checkout', edges')
  <2>1. run'[r].pc \in {"idle", "cloning", "reading", "discovering", "planning"}
    <3>1. ASSUME NEW s \in RunState, Goes(r, s)
          PROVE  run'[r].pc \in {"idle", s.pc}
      BY <1>0, <3>1 DEF Goes, Idle, TypeOK
    <3>2. run[r] \in RunState
      BY <1>0
    <3>3. CASE \E kind \in Kinds, fresh \in BOOLEAN : Start(r, kind, fresh)
      BY <1>0, <3>3 DEF Start, Idle, TypeOK
    <3>4. CASE CloneTip(r) \/ KeepCheckout(r)
      <4>1. Goes(r, [run[r] EXCEPT !.pc = "reading"])
        BY <3>4 DEF CloneTip, KeepCheckout
      <4> QED BY <1>0, <3>2, <4>1 DEF Goes, Idle, TypeOK, RunState
    <3>5. CASE ReadHead(r)
      <4>1. \E sha : Goes(r, [run[r] EXCEPT !.pc = "discovering", !.sha = sha])
        BY <3>5 DEF ReadHead
      <4> QED BY <1>0, <3>2, <4>1 DEF Goes, Idle, TypeOK, RunState
    <3>6. CASE \E found : Goes(r, [run[r] EXCEPT !.pc = "planning", !.universe = found])
      BY <1>0, <3>2, <3>6 DEF Goes, Idle, TypeOK, RunState
    <3> QED BY <1>2, <3>3, <3>4, <3>5, <3>6
  <2>2. run'[r].narrow \in BOOLEAN
    BY <1>0 DEF RunState
  <2>3. RunExact(run'[r], checkout', edges')
    BY <1>0, <2>1, <2>2, EarlyExact
  <2> QED BY <2>3 DEF OneRun
<1>3. ASSUME NEW r \in Run, run' = [run EXCEPT ![r] = Idle]
      PROVE  \A q \in Run : RunExact(run'[q], checkout', edges')
  BY <1>0, <1>3, IdleExact
<1>4. ASSUME NEW r \in Run, Step(r)
      PROVE  \A q \in Run : RunExact(run'[q], checkout', edges')
  <2>1. CASE PlanFull(r) \/ PlanNarrow(r) \/ Measure(r)
    BY <2>1, PlannedExact
  <2>2. CASE Discover(r)
    BY <1>2, <1>3, <2>2 DEF Discover, Fails
  <2>3. CASE \/ \E kind \in Kinds, fresh \in BOOLEAN : Start(r, kind, fresh)
             \/ CloneTip(r) \/ KeepCheckout(r) \/ ReadHead(r)
    BY <1>2, <2>3
  <2>4. CASE CloneFails(r) \/ Store(r) \/ StoreFails(r) \/ StoreCancelled(r) \/ Disconnect(r)
    BY <1>3, <2>4 DEF CloneFails, Fails, Store, StoreFails, StoreCancelled, StoreEnds, Disconnect
  <2> QED BY <1>4, <2>1, <2>2, <2>3, <2>4 DEF Step
<1>5. CASE RequestCancel
  <2> SUFFICES ASSUME NEW q \in Run PROVE RunExact(run'[q], checkout', edges')
    OBVIOUS
  <2> DEFINE n == [run[q] EXCEPT !.asked = TRUE]
  <2>1. /\ n.narrow = run[q].narrow /\ n.todo = run[q].todo
        /\ n.replaced = run[q].replaced /\ n.lost = run[q].lost
        /\ n.pc = run[q].pc /\ n.found = run[q].found
    BY <1>0 DEF RunState
  <2>2. run'[q] \in {n, run[q]} /\ checkout' = checkout /\ edges' = edges
    BY <1>5 DEF RequestCancel, Around, graphVars
  <2> HIDE DEF n
  <2>3. RunExact(n, checkout, edges)
    BY <1>0, <2>1 DEF RunExact, KeptExact, Measured
  <2> QED BY <1>0, <2>2, <2>3
<1>6. CASE Restart
  BY <1>6 DEF Restart, RunExact, Idle
<1>7. CASE \/ \E c \in Commit : Push(c)
           \/ \E w \in State : Edit(w)
           \/ \E s \in Source : MapUnmapped(s)
  <2>1. UNCHANGED <<run, checkout, edges>>
    BY <1>7 DEF Push, Edit, MapUnmapped, Around, graphVars
  <2> QED BY <1>0, <2>1
<1> QED BY <1>1, <1>4, <1>5, <1>6, <1>7 DEF Next

LEMMA EvidenceKept ==
  ASSUME UNCHANGED <<edges, stamp>>
  PROVE  Anchor' = Anchor /\ \A t : CoveredBy(t)' = CoveredBy(t)
BY DEF Anchor, AgreedOn, CoveredBy

LEMMA ExactInvInductive ==
  ASSUME Determined, AbsentCoverNothing, OneRun, Edited = {}, Flaky = {}, Kinds = {"run"},
         ExactInv, [Next]_vars
  PROVE  ExactInv'
<1>1. SoundInv'
  BY SoundInvInductive DEF ExactInv
<1>2. AllRuns'
  BY AllRunsInductive DEF ExactInv, SoundInv
<1>3. \A q \in Run : RunExact(run'[q], checkout', edges')
  BY <1>1, RunsStayExact
<1>4. Exact'
  <2>1. CASE \E r \in Run : Store(r)
    BY <2>1, StoreExact DEF Exact
  <2>2. CASE UNCHANGED <<edges, stamp>>
    BY <2>2, EvidenceKept DEF Exact, ExactInv
  <2> QED BY <2>1, <2>2, OnlyStoreWrites
<1> QED BY <1>1, <1>2, <1>3, <1>4 DEF ExactInv

LEMMA ExactInvInit ==
  ASSUME Init
  PROVE  ExactInv /\ Full!Init
<1>1. Anchor = NoSha
  <2>1. {stamp[t] : t \in Test} \ {NoSha, NoNode} = {}
    BY DEF Init
  <2> QED BY <2>1 DEF Anchor, AgreedOn
<1>2. SoundInv
  BY SoundInvInit
<1>3. Full!Init
  BY <1>1 DEF Full!Init, CoveredBy, Init
<1>4. AllRuns /\ \A r \in Run : RunExact(run[r], checkout, edges)
  BY DEF Init, AllRuns, RunExact, Idle
<1> QED BY <1>1, <1>2, <1>3, <1>4 DEF ExactInv, Exact

LEMMA StepRefines ==
  ASSUME AbsentCoverNothing, ExactInv, [Next]_vars
  PROVE  [Full!Next]_(Full!vars)
<1>1. CASE \E r \in Run : Store(r)
  <2> DEFINE w == checkout.files
  <2>1. w \in Commit /\ Anchor' \in {w, NoSha} /\ \A t \in Test : CoveredBy(t)' = Covers[w][t]
    BY <1>1, StoreExact
  <2>2. [t \in Test |-> CoveredBy(t)]' = [t \in Test |-> Covers[w][t]]
    BY <2>1
  <2>3. Full!Publish(w)
    BY <2>1, <2>2 DEF Full!Publish
  <2> QED BY <2>1, <2>3 DEF Full!Next
<1>2. CASE UNCHANGED <<edges, stamp>>
  BY <1>2, EvidenceKept DEF Full!vars
<1> QED BY <1>1, <1>2, OnlyStoreWrites

(* Runs by the endpoint, one at a time in a checkout that nobody edits and *)
(* without shards that lose their coverage: however they are narrowed,     *)
(* fail, are cancelled or killed, they leave in the graph what runs of the *)
(* whole suite would have left.                                            *)
THEOREM RunsImplementFull ==
  ASSUME Determined, AbsentCoverNothing, OneRun, Edited = {}, Flaky = {}, Kinds = {"run"}
  PROVE  Spec => FullSpec
<1>1. Init => ExactInv /\ Full!Init
  BY ExactInvInit
<1>2. ExactInv /\ [Next]_vars => ExactInv'
  BY ExactInvInductive
<1>3. ExactInv /\ [Next]_vars => [Full!Next]_(Full!vars)
  BY StepRefines
<1> QED BY <1>1, <1>2, <1>3, PTL DEF Spec, FullSpec, Full!Spec

-----------------------------------------------------------------------------
(* Cancellation.                                                           *)

(* The flag of a run for which a cancel was requested is still up, and the *)
(* run looks at it.                                                        *)
CancelInv == \A r \in Run : run[r].asked => cancel /\ run[r].kind = "run"

LEMMA GoesUnasked ==
  ASSUME TypeOK, CancelInv, NEW r \in Run, NEW s, s.asked = run[r].asked, Goes(r, s)
  PROVE  run'[r].asked = FALSE
<1>1. CASE cancel /\ run[r].kind = "run"
  BY <1>1 DEF Goes, Idle, TypeOK
<1>2. CASE ~(cancel /\ run[r].kind = "run")
  <2>1. run'[r] = s
    BY <1>2 DEF Goes, TypeOK
  <2>2. run[r].asked = FALSE
    BY <1>2 DEF CancelInv, TypeOK, RunState
  <2> QED BY <2>1, <2>2
<1> QED BY <1>1, <1>2

(* Whatever a run does next, it is not a run that goes on cancelled.       *)
LEMMA StepUnasked ==
  ASSUME TypeOK, CancelInv, NEW r \in Run, Step(r)
  PROVE  run'[r].asked = FALSE
<1>1. run[r] \in RunState
  BY DEF TypeOK
<1>2. ASSUME run' = [run EXCEPT ![r] = Idle] PROVE run'[r].asked = FALSE
  BY <1>2 DEF TypeOK, Idle
<1>3. CASE \E kind \in Kinds, fresh \in BOOLEAN : Start(r, kind, fresh)
  BY <1>3 DEF Start, Idle, TypeOK
<1>4. CASE CloneTip(r) \/ KeepCheckout(r)
  <2> DEFINE s == [run[r] EXCEPT !.pc = "reading"]
  <2>1. s.asked = run[r].asked
    BY <1>1 DEF RunState
  <2>2. Goes(r, s)
    BY <1>4 DEF CloneTip, KeepCheckout
  <2> HIDE DEF s
  <2> QED BY <2>1, <2>2, GoesUnasked
<1>5. CASE ReadHead(r)
  <2>1. PICK sha : Goes(r, [run[r] EXCEPT !.pc = "discovering", !.sha = sha])
    BY <1>5 DEF ReadHead
  <2> DEFINE s == [run[r] EXCEPT !.pc = "discovering", !.sha = sha]
  <2>2. s.asked = run[r].asked
    BY <1>1 DEF RunState
  <2>3. Goes(r, s)
    BY <2>1
  <2> HIDE DEF s
  <2> QED BY <2>2, <2>3, GoesUnasked
<1>6. CASE Discover(r)
  <2> DEFINE s == [run[r] EXCEPT !.pc = "planning", !.universe = Present(checkout.files)]
  <2>1. s.asked = run[r].asked
    BY <1>1 DEF RunState
  <2>2. Fails(r) \/ Goes(r, s)
    BY <1>6 DEF Discover
  <2> HIDE DEF s
  <2> QED BY <1>2, <2>1, <2>2, GoesUnasked DEF Fails
<1>7. CASE PlanFull(r)
  <2> DEFINE s == FullPlan(run[r])
  <2>1. s.asked = run[r].asked
    BY <1>1 DEF RunState, FullPlan
  <2>2. Goes(r, s)
    BY <1>7 DEF PlanFull
  <2> HIDE DEF s
  <2> QED BY <2>1, <2>2, GoesUnasked
<1>8. CASE PlanNarrow(r)
  <2> DEFINE changed == Changed(Anchor, checkout.files)
             s == NarrowPlan(run[r], changed)
  <2>1. Goes(r, s)
    BY <1>8 DEF PlanNarrow
  <2> HIDE DEF changed
  <2>2. s.asked = run[r].asked
    BY <1>1 DEF RunState, NarrowPlan
  <2> HIDE DEF s
  <2> QED BY <2>1, <2>2, GoesUnasked
<1>9. CASE Measure(r)
  <2>1. Fails(r) \/ \E lost, seen, found :
          Goes(r, [run[r] EXCEPT !.pc = "storing", !.lost = lost, !.seen = seen, !.found = found])
    BY <1>9, MeasureParts
  <2>2. ASSUME NEW lost, NEW seen, NEW found,
               Goes(r, [run[r] EXCEPT !.pc = "storing", !.lost = lost, !.seen = seen, !.found = found])
        PROVE  run'[r].asked = FALSE
    <3> DEFINE s == [run[r] EXCEPT !.pc = "storing", !.lost = lost, !.seen = seen, !.found = found]
    <3>1. s.asked = run[r].asked
      BY <1>1 DEF RunState
    <3>2. Goes(r, s)
      BY <2>2
    <3> HIDE DEF s
    <3> QED BY <3>1, <3>2, GoesUnasked
  <2> QED BY <1>2, <2>1, <2>2 DEF Fails
<1>10. CASE CloneFails(r) \/ Store(r) \/ StoreFails(r) \/ StoreCancelled(r) \/ Disconnect(r)
  BY <1>2, <1>10 DEF CloneFails, Fails, Store, StoreFails, StoreCancelled, StoreEnds, Disconnect
<1> QED BY <1>3, <1>4, <1>5, <1>6, <1>7, <1>8, <1>9, <1>10 DEF Step

LEMMA CancelInvInductive ==
  ASSUME OneRun, TypeOK, CancelInv, [Next]_vars
  PROVE  CancelInv'
<1>1. CASE UNCHANGED vars
  BY <1>1 DEF vars, CancelInv
<1>2. CASE \E r \in Run : Step(r)
  <2>1. PICK r \in Run : Step(r)
    BY <1>2
  <2>2. \A q \in Run : run'[q].asked = FALSE
    BY <2>1, StepUnasked DEF OneRun
  <2> QED BY <2>2 DEF CancelInv
<1>3. CASE RequestCancel
  <2> SUFFICES ASSUME NEW q \in Run, run'[q].asked
               PROVE  cancel' /\ run'[q].kind = "run"
    BY DEF CancelInv
  <2> DEFINE n == [run[q] EXCEPT !.asked = TRUE]
  <2>1. n.kind = run[q].kind
    BY DEF TypeOK, RunState
  <2>2. cancel' /\ run'[q] = IF run[q].pc # "idle" /\ run[q].kind = "run" THEN n ELSE run[q]
    BY <1>3 DEF RequestCancel
  <2> HIDE DEF n
  <2> QED BY <2>1, <2>2 DEF CancelInv
<1>4. CASE Restart
  BY <1>4 DEF Restart, CancelInv, Idle
<1>5. CASE \/ \E c \in Commit : Push(c)
           \/ \E w \in State : Edit(w)
           \/ \E s \in Source : MapUnmapped(s)
  BY <1>5 DEF Push, Edit, MapUnmapped, CancelInv
<1> QED BY <1>1, <1>2, <1>3, <1>4, <1>5 DEF Next

(* cancel_instrument: with one run at a time, a run that a user has        *)
(* cancelled writes nothing to the graph any more, at whatever point of    *)
(* the pipeline the request finds it.  (Another run of the project that is *)
(* started meanwhile clears the flag for both.)                            *)
THEOREM CancelIsHonoured ==
  ASSUME OneRun
  PROVE  Spec => CancelHonoured
<1>1. Init => CancelInv
  BY DEF Init, CancelInv, Idle
<1>2. TypeOK /\ CancelInv /\ [Next]_vars => CancelInv'
  BY CancelInvInductive
<1>3. TypeOK /\ CancelInv /\ [Next]_vars =>
        [\A r \in Run : run[r].asked /\ run'[r].pc = "idle" => UNCHANGED <<edges, stamp>>]_vars
  <2> SUFFICES ASSUME CancelInv, [Next]_vars, NEW r \in Run, run[r].asked
               PROVE  UNCHANGED <<edges, stamp>>
    OBVIOUS
  <2>1. ~ \E q \in Run : Store(q)
    <3> SUFFICES ASSUME NEW q \in Run, Store(q) PROVE FALSE
      OBVIOUS
    <3>1. q = r
      BY DEF OneRun
    <3> QED BY <3>1 DEF Store, MayStore, CancelInv
  <2> QED BY <2>1, OnlyStoreWrites
<1> QED BY <1>1, <1>2, <1>3, TypesHold, PTL DEF Spec, CancelHonoured
=============================================================================
