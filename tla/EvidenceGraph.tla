--------------------------- MODULE EvidenceGraph ----------------------------
(***************************************************************************)
(* Instrumentation of a project: runs that execute test files of a shared  *)
(* checkout under coverage and write what each test covered to the graph,  *)
(* as edges stamped with the commit they were built at.  Later runs use    *)
(* the stamp (the "anchor") to execute only what a change can affect.      *)
(*                                                                         *)
(* The service is one asyncio event loop and the pipeline is a synchronous *)
(* generator: a run is interrupted only where it yields to its event       *)
(* stream.  A step of a run is what it does from one such point to the     *)
(* next one that matters; other runs, cancel requests, pushes and a        *)
(* restart come in between.                                                *)
(*                                                                         *)
(* A test file stands for its tests, a source file for its symbols.        *)
(***************************************************************************)
EXTENDS Naturals, FiniteSets

CONSTANTS
  Run,          \* runs that can be in progress for the project at once
  Test,         \* test files
  Source,       \* files whose symbols coverage records
  Other,        \* files that tests use and coverage does not record
  Commit,       \* commits that the branch may point to
  Edited,       \* states of a checkout with local modifications
  Content,      \* Content[w][f]: content of file f in state w of the checkout
  Covers,       \* Covers[w][t]: what test t covers when it is executed in w
  Shards,       \* TIA_INSTRUMENT_SHARDS: pytest processes of a run
  Flaky,        \* tests that may make their shard end without coverage data
  Kinds,        \* ways to instrument: "run" the endpoint, "map" the test map
  Mappers,      \* do other mappers write evidence too?
  NoFile,       \* content of a file that is not there
  NoSha,        \* None, of a commit
  NoNode        \* a test that has no TestSymbol

File == Test \cup Source \cup Other
State == Commit \cup Edited
Sha == Commit \cup {NoSha}

ASSUME EvidenceAssumption ==
  /\ IsFiniteSet(Test) /\ IsFiniteSet(Source) /\ IsFiniteSet(Other)
  /\ Test \cap (Source \cup Other) = {}
  /\ DOMAIN Content = State
  /\ Covers \in [State -> [Test -> SUBSET Source]]
  /\ Shards \in Nat \ {0} /\ Flaky \subseteq Test
  /\ Kinds \subseteq {"run", "map"}
  /\ Mappers \in BOOLEAN
  /\ NoSha \notin Commit /\ NoNode \notin Sha

(* What a test covers is determined by the files it covers and by itself:  *)
(* it can cover something new only if one of them changes.                 *)
Determined ==
  \A v, w \in Commit : \A t \in Test :
    (\A f \in {t} \cup Covers[v][t] : Content[v][f] = Content[w][f])
      => Covers[v][t] = Covers[w][t]

(* A test file that is not there is not executed and covers nothing.       *)
AbsentCoverNothing ==
  \A w \in Commit, t \in Test : Content[w][t] = NoFile => Covers[w][t] = {}

VARIABLES
  tip,          \* commit of the branch in the remote repository
  checkout,     \* the cached checkout: HEAD, what is in its files, coverage databases
  edges,        \* the coverage EVIDENCE edges
  stamp,        \* built_at_sha of each TestSymbol
  mapped,       \* (test, source) pairs with an EVIDENCE edge of another source
  symbols,      \* sources that have a Symbol node
  cancel,       \* _cancel_flags[project]
  run,          \* what each run is doing
  record,       \* the latest row of instrumentation_runs
  unmeasured    \* history: tests whose last execution left no database

graphVars == <<edges, stamp, mapped, symbols>>
vars == <<tip, checkout, graphVars, cancel, run, record, unmeasured>>

(* A shard leaves the file .coverage.shard<n>: the tests that ran in it    *)
(* and what they covered.  Every run deletes that of shard 0 first, so     *)
(* only the others can be left from an earlier run.                        *)
LaterShard == 1 .. Shards - 1
Data == [ran : SUBSET Test, covered : SUBSET (Test \X Source)]
NoData == [ran |-> {}, covered |-> {}]
NoneLeft == [i \in LaterShard |-> NoData]

NoCheckout == [head |-> NoSha, files |-> NoSha, data |-> NoneLeft]
Edge == [test : Test, source : Source, sha : Sha]
Idle == [pc |-> "idle", kind |-> "run", fresh |-> FALSE, asked |-> FALSE,
         sha |-> NoSha, universe |-> {}, narrow |-> FALSE, anchor |-> NoSha,
         todo |-> {}, carried |-> {}, replaced |-> {}, found |-> {}, seen |-> {}, lost |-> {}]

RunState ==
  [pc : {"idle", "cloning", "reading", "discovering", "planning", "measuring", "storing"},
   kind : {"run", "map"}, fresh : BOOLEAN,
   asked : BOOLEAN,                    \* history: a cancel was requested
   sha : Sha,                          \* built_at_sha
   universe : SUBSET Test,             \* discovered test files
   narrow : BOOLEAN,                   \* IncrementalPlan.mode
   anchor : Sha,                       \* IncrementalPlan.anchor_sha
   todo : SUBSET Test,                 \* test files to execute
   carried : SUBSET Test,              \* IncrementalPlan.carried_forward
   replaced : SUBSET Test,             \* rerun_test_names and drop_test_names
   found : SUBSET (Test \X Source),    \* the mappings
   seen : SUBSET Test,                 \* tests in the databases that were read
   lost : SUBSET Test]                 \* executed without coverage data

TypeOK ==
  /\ tip \in Commit
  /\ checkout \in [head : Sha, files : State \cup {NoSha}, data : [LaterShard -> Data]]
  /\ edges \subseteq Edge
  /\ stamp \in [Test -> Sha \cup {NoNode}]
  /\ mapped \subseteq Test \X Source
  /\ symbols \subseteq Source
  /\ cancel \in BOOLEAN
  /\ run \in [Run -> RunState]
  /\ record \in [status : {"none", "COMPLETED", "ERROR"}, missing : SUBSET Test]
  /\ unmeasured \subseteq Test

Init ==
  /\ tip \in Commit
  /\ checkout = NoCheckout
  /\ edges = {} /\ mapped = {} /\ symbols = {}
  /\ stamp = [t \in Test |-> NoNode]
  /\ cancel = FALSE
  /\ run = [r \in Run |-> Idle]
  /\ record = [status |-> "none", missing |-> {}]
  /\ unmeasured = {}

-----------------------------------------------------------------------------
(* The plan of a run.                                                      *)

Changed(v, w) == {f \in File : Content[v][f] # Content[w][f]}
Present(w) == {t \in Test : Content[w][t] # NoFile}

CoveredBy(t) == {e.source : e \in {x \in edges : x.test = t}}
TestsCovering(f) == {e.test : e \in {x \in edges : x.source = f}}
PriorTests == {e.test : e \in edges}
KnownSources == {e.source : e \in edges}

(* The one commit that all TestSymbols with a stamp agree on.              *)
AgreedOn(c) == {stamp[t] : t \in Test} \ {NoSha, NoNode} = {c}
Anchor == IF \E c \in Commit : AgreedOn(c) THEN CHOOSE c \in Commit : AgreedOn(c) ELSE NoSha

(* What changed since the anchor, split into files of the suite and the    *)
(* rest; everything that is not a test file counts as production code.     *)
SuiteFiles(universe) == universe \cup PriorTests
\* Mutant: the changed files are not split.
AnyFile(changed, universe) == changed

ChangedTests(changed, universe) == changed \cap SuiteFiles(universe)
ChangedSources(changed, universe) == changed \ SuiteFiles(universe)

\* Mutant: a changed test file is run again only if a source it covers changed.
AffectedBySources(changed, universe) ==
  (UNION {TestsCovering(f) : f \in ChangedSources(changed, universe)}) \cap universe

Affected(changed, universe) ==
  ((UNION {TestsCovering(f) : f \in ChangedSources(changed, universe)})
     \cup ChangedTests(changed, universe)) \cap universe

(* DEFAULT_MAX_CHANGED_FRACTION is one half.                               *)
LargeDiff(changed, universe) ==
  2 * Cardinality(ChangedSources(changed, universe)) > Cardinality(KnownSources)

(* The fallbacks: no prior evidence, no anchor, no commit, a large diff.   *)
MayNarrow(s, changed) ==
  /\ edges # {} /\ Anchor # NoSha /\ s.sha # NoSha
  /\ ~LargeDiff(changed, s.universe)

FullPlan(s) == [s EXCEPT !.pc = "measuring", !.todo = s.universe]

NarrowPlan(s, changed) ==
  LET again == Affected(changed, s.universe)
  IN  [s EXCEPT !.pc = IF again = {} THEN "storing" ELSE "measuring",
                !.narrow = TRUE,
                !.anchor = Anchor,
                !.todo = again,
                !.carried = s.universe \ again,
                !.replaced = (again \cap PriorTests)
                               \cup (ChangedTests(changed, s.universe) \ s.universe)]

-----------------------------------------------------------------------------
(* A run up to its mappings.                                               *)

(* At every yield the worker looks at the cancel flag: what the step did   *)
(* to the checkout stays, and the run is over.  A test map has no flag.    *)
Goes(r, s) == run' = [run EXCEPT ![r] = IF cancel /\ run[r].kind = "run" THEN Idle ELSE s]

Failed == [status |-> "ERROR", missing |-> {}]

(* An error event; no mappings follow, so the run is recorded as failed.   *)
Fails(r) ==
  /\ run' = [run EXCEPT ![r] = Idle]
  /\ record' = IF run[r].kind = "run" /\ ~cancel
               THEN Failed ELSE record

PipelineUnchanged == UNCHANGED <<tip, graphVars, cancel, unmeasured>>

(* A request for a run clears the cancel flag of the project.              *)
Start(r, kind, fresh) ==
  /\ run[r].pc = "idle"
  /\ run' = [run EXCEPT ![r] = [Idle EXCEPT !.pc = "cloning", !.kind = kind, !.fresh = fresh]]
  /\ cancel' = (kind = "map" /\ cancel)
  /\ UNCHANGED <<tip, checkout, graphVars, record, unmeasured>>

(* A cached checkout is advanced to the tip, where reset --hard leaves     *)
(* untracked files alone, or a new clone takes its place.                  *)
CloneTip(r) ==
  /\ run[r].pc = "cloning"
  /\ \E data \in {NoneLeft} \cup IF run[r].fresh THEN {} ELSE {checkout.data} :
       checkout' = [head |-> tip, files |-> tip, data |-> data]
  /\ Goes(r, [run[r] EXCEPT !.pc = "reading"])
  /\ UNCHANGED record /\ PipelineUnchanged

(* The fetch fails, or there are local modifications.                      *)
KeepCheckout(r) ==
  /\ run[r].pc = "cloning" /\ ~run[r].fresh /\ checkout # NoCheckout
  /\ Goes(r, [run[r] EXCEPT !.pc = "reading"])
  /\ UNCHANGED <<checkout, record>> /\ PipelineUnchanged

CloneFails(r) ==
  /\ run[r].pc = "cloning"
  /\ Fails(r)
  /\ UNCHANGED checkout /\ PipelineUnchanged

(* HEAD cannot always be read.                                             *)
ReadHead(r) ==
  /\ run[r].pc = "reading"
  /\ \E sha \in {checkout.head, NoSha} :
       Goes(r, [run[r] EXCEPT !.pc = "discovering", !.sha = sha])
  /\ UNCHANGED <<checkout, record>> /\ PipelineUnchanged

Discover(r) ==
  /\ run[r].pc = "discovering"
  /\ LET found == Present(checkout.files)
     IN  IF found = {} THEN Fails(r)
         ELSE /\ Goes(r, [run[r] EXCEPT !.pc = "planning", !.universe = found])
              /\ UNCHANGED record
  /\ UNCHANGED checkout /\ PipelineUnchanged

(* The diff with the anchor may be unavailable (its commit cannot be       *)
(* fetched), so a full plan is always possible.                            *)
PlanFull(r) ==
  /\ run[r].pc = "planning"
  /\ Goes(r, FullPlan(run[r]))
  /\ UNCHANGED <<checkout, record>> /\ PipelineUnchanged

PlanNarrow(r) ==
  LET changed == Changed(Anchor, checkout.files)
  IN  /\ run[r].pc = "planning"
      /\ run[r].kind = "run" /\ ~run[r].fresh
      /\ MayNarrow(run[r], changed)
      /\ Goes(r, NarrowPlan(run[r], changed))
      /\ UNCHANGED <<checkout, record>> /\ PipelineUnchanged

(* Test files are spread over the shards by size, none of which is empty.  *)
Partitions(tests) ==
  LET n == IF Cardinality(tests) < Shards THEN Cardinality(tests) ELSE Shards
  IN  {part \in [tests -> 0 .. n - 1] : \A i \in 0 .. n - 1 : \E t \in tests : part[t] = i}

(* Shards may time out or crash and leave no coverage data.                *)
LostShards(part) == SUBSET {part[t] : t \in DOMAIN part \cap Flaky}

(* Covered lines are resolved to symbols; files of the suite are skipped.  *)
Mappings(ran, w) == {p \in ran \X Source : p[2] \in Covers[w][p[1]]}

(* The databases that lie in the checkout when these shards have ended.    *)
DataAfter(part, dead) ==
  [i \in LaterShard |->
     LET ran == {t \in DOMAIN part : part[t] = i}
     IN  IF ran = {} THEN checkout.data[i]
         ELSE IF i \in dead THEN NoData
         ELSE [ran |-> ran, covered |-> Mappings(ran, checkout.files)]]

(* A file that is no longer there has no symbols.                          *)
Resolved(pairs, w) == {p \in pairs : Content[w][p[2]] # NoFile}

(* The databases that are read: those of the shards that left one, and if  *)
(* none did, _find_all_coverage_dbs, which takes those of earlier runs.    *)
CoverageRead(todo, lost, data) ==
  LET ran == todo \ lost
  IN  IF ran # {}
      THEN [seen |-> ran, found |-> Mappings(ran, checkout.files)]
      ELSE [seen |-> UNION {data[i].ran : i \in LaterShard},
            found |-> Resolved(UNION {data[i].covered : i \in LaterShard}, checkout.files)]

(* The tests are executed.  Lost shards are passed over, unless there is   *)
(* no data at all.                                                         *)
Measure(r) ==
  /\ run[r].pc = "measuring"
  /\ \E part \in Partitions(run[r].todo) : \E dead \in LostShards(part) :
       LET lost == {t \in run[r].todo : part[t] \in dead}
           data == DataAfter(part, dead)
           m == CoverageRead(run[r].todo, lost, data)
       IN  /\ checkout' = [checkout EXCEPT !.data = data]
           /\ IF m.seen = {} THEN Fails(r)
              ELSE /\ Goes(r, [run[r] EXCEPT !.pc = "storing", !.lost = lost,
                                             !.seen = m.seen, !.found = m.found])
                   /\ UNCHANGED record
  /\ PipelineUnchanged

-----------------------------------------------------------------------------
(* The graph store.  Each write is one transaction.                        *)

TestsIn(pairs) == {p[1] : p \in pairs}
SourcesIn(pairs) == {p[2] : p \in pairs}
EdgesOf(pairs, sha) == {[test |-> p[1], source |-> p[2], sha |-> sha] : p \in pairs}

(* coalesce($built_at_sha, t.built_at_sha)                                 *)
Coalesce(sha, old) == IF sha # NoSha THEN sha ELSE IF old = NoNode THEN NoSha ELSE old

\* Mutant: the stamps of tests that are not in the mappings are left.
ReplaceKeepStamps(s) ==
  /\ s.found # {}
  /\ edges' = EdgesOf(s.found, s.sha)
  /\ stamp' = [t \in Test |-> IF t \in TestsIn(s.found) THEN s.sha ELSE stamp[t]]

(* replace_mappings: nothing is written without mappings.                  *)
Replace(s) ==
  /\ s.found # {}
  /\ edges' = EdgesOf(s.found, s.sha)
  /\ stamp' = [t \in Test |-> IF t \in TestsIn(s.found) THEN s.sha
                              ELSE IF stamp[t] = NoNode THEN NoNode ELSE NoSha]

\* Mutant: the tests of removed files keep their edges.
ApplyKeepRemoved(s) ==
  /\ edges' = EdgesOf(s.found \cup {<<e.test, e.source>> :
                         e \in {x \in edges : x.test \notin s.replaced \cap s.todo}}, s.sha)
  /\ stamp' = [t \in Test |-> IF stamp[t] # NoNode \/ t \in TestsIn(s.found) THEN s.sha ELSE NoNode]

(* apply_incremental_mappings: the edges of the tests that were executed   *)
(* or removed are replaced, and everything is stamped with the new commit. *)
Apply(s) ==
  /\ edges' = EdgesOf(s.found \cup {<<e.test, e.source>> :
                                      e \in {x \in edges : x.test \notin s.replaced}}, s.sha)
  /\ stamp' = [t \in Test |-> IF stamp[t] # NoNode \/ t \in TestsIn(s.found) THEN s.sha ELSE NoNode]

(* store_mappings, used by the test map: new edges are merged with the     *)
(* old ones.                                                               *)
Merge(s) ==
  /\ s.found # {}
  /\ edges' = {e \in edges : <<e.test, e.source>> \notin s.found \/ s.sha = NoSha}
              \cup EdgesOf({p \in s.found : s.sha # NoSha
                                            \/ \A e \in edges : <<e.test, e.source>> # p}, s.sha)
  /\ stamp' = [t \in Test |-> IF t \in TestsIn(s.found) THEN Coalesce(s.sha, stamp[t]) ELSE stamp[t]]

Write(s) == IF s.kind = "map" THEN Merge(s) ELSE IF s.narrow THEN Apply(s) ELSE Replace(s)

(* The tests of the suite that are left without a measurement; one by the  *)
(* test map counts if the commit it was made at is known.                  *)
StillUnmeasured(s) ==
  IF s.kind = "run" /\ ~s.narrow THEN s.lost
  ELSE IF s.kind = "map" /\ s.sha = NoSha THEN unmeasured \cup s.lost
  ELSE (unmeasured \ s.todo) \cup s.lost

(* Verification counts the EVIDENCE edges of every source between the      *)
(* pairs that were written; it must find one edge for each.                *)
Verified(s) == s.found \cap mapped = {}

\* Mutant: what has been computed is written.
MayStoreAnyway(r) == run[r].pc = "storing"

(* A cancelled run is not written.                                         *)
MayStore(r) == run[r].pc = "storing" /\ ~(cancel /\ run[r].kind = "run")
StoreEnds(r) ==
  /\ run' = [run EXCEPT ![r] = Idle]
  /\ UNCHANGED <<tip, checkout, mapped, cancel>>

(* What coverage_completeness reports: a file that is carried counts as    *)
(* instrumented.                                                           *)
Missing(s) == s.universe \ (s.seen \cup s.carried)

(* The edges are counted after the transaction: a run that leaves none, or *)
(* whose count fails, is recorded as failed although its write stands.     *)
Store(r) ==
  /\ MayStore(r) /\ Verified(run[r])
  /\ Write(run[r])
  /\ symbols' = symbols \cup SourcesIn(run[r].found)
  /\ unmeasured' = StillUnmeasured(run[r])
  /\ record' \in IF run[r].kind = "map" THEN {record}
                 ELSE (IF edges' # {} THEN {[status |-> "COMPLETED", missing |-> Missing(run[r])]} ELSE {})
                      \cup (IF edges' = {} \/ run[r].narrow THEN {Failed} ELSE {})
  /\ StoreEnds(r)

(* Nothing to write in full, the database fails, or the count is wrong.    *)
StoreFails(r) ==
  /\ MayStore(r)
  /\ record' = IF run[r].kind = "map" THEN record ELSE Failed
  /\ UNCHANGED <<edges, stamp, symbols, unmeasured>>
  /\ StoreEnds(r)

StoreCancelled(r) ==
  /\ run[r].pc = "storing" /\ cancel /\ run[r].kind = "run"
  /\ UNCHANGED <<edges, stamp, symbols, unmeasured, record>>
  /\ StoreEnds(r)

-----------------------------------------------------------------------------
(* What comes in between.                                                  *)

Around == UNCHANGED <<graphVars, record, unmeasured>>

RequestCancel ==
  /\ cancel' = TRUE
  /\ run' = [r \in Run |-> IF run[r].pc # "idle" /\ run[r].kind = "run"
                           THEN [run[r] EXCEPT !.asked = TRUE] ELSE run[r]]
  /\ UNCHANGED <<tip, checkout>> /\ Around

(* The client of the event stream goes away: the generator is closed.      *)
Disconnect(r) ==
  /\ run[r].pc # "idle"
  /\ run' = [run EXCEPT ![r] = Idle]
  /\ UNCHANGED <<tip, checkout, cancel>> /\ Around

(* The service is restarted, in the same container or in a new one.  The   *)
(* shards of a run that is measuring end with it, some before the others.  *)
Restart ==
  /\ run' = [r \in Run |-> Idle]
  /\ cancel' = FALSE
  /\ \/ checkout' \in {checkout, NoCheckout}
     \/ \E r \in Run : /\ run[r].pc = "measuring"
                       /\ \E part \in Partitions(run[r].todo), dead \in SUBSET (0 .. Shards - 1) :
                            checkout' = [checkout EXCEPT !.data = DataAfter(part, dead)]
  /\ UNCHANGED tip /\ Around

Push(c) ==
  /\ tip' = c
  /\ UNCHANGED <<checkout, cancel, run>> /\ Around

(* Somebody edits the checkout, or takes the edits back.                   *)
Edit(w) ==
  /\ checkout # NoCheckout /\ Edited # {}
  /\ w \in Edited \cup {checkout.head}
  /\ checkout' = [checkout EXCEPT !.files = w]
  /\ UNCHANGED <<tip, cancel, run>> /\ Around

Unmapped(s) == s \in symbols /\ TestsCovering(s) = {} /\ s \notin SourcesIn(mapped)

(* SiameseMapper proposes tests for a symbol that has no evidence.         *)
MapUnmapped(s) ==
  /\ Mappers /\ Unmapped(s)
  /\ \E tests \in SUBSET {t \in Test : stamp[t] # NoNode} :
       mapped' = mapped \cup (tests \X {s})
  /\ UNCHANGED <<tip, checkout, edges, stamp, symbols, cancel, run, record, unmeasured>>

Step(r) ==
  \/ \E kind \in Kinds, fresh \in BOOLEAN : Start(r, kind, fresh)
  \/ CloneTip(r) \/ KeepCheckout(r) \/ CloneFails(r)
  \/ ReadHead(r) \/ Discover(r) \/ PlanFull(r) \/ PlanNarrow(r) \/ Measure(r)
  \/ Store(r) \/ StoreFails(r) \/ StoreCancelled(r)
  \/ Disconnect(r)

Next ==
  \/ \E r \in Run : Step(r)
  \/ RequestCancel \/ Restart
  \/ \E c \in Commit : Push(c)
  \/ \E w \in State : Edit(w)
  \/ \E s \in Source : MapUnmapped(s)

Spec == Init /\ [][Next]_vars

-----------------------------------------------------------------------------
(* Properties.                                                             *)

(* The evidence is sound: when it is stamped with one commit, every test   *)
(* of that commit has an edge to every source it covers there -- nothing   *)
(* was lost by not executing it again.  Excepted are the tests whose last  *)
(* execution left no database: they have no edges, those of an earlier     *)
(* measurement, or those of a database that was left in the checkout, and  *)
(* the report need not name them.  That such a run does not spoil the      *)
(* evidence of any other test, now or by the narrowed runs that build on   *)
(* it, is what Sound says.  get_impacted_tests and the next plan rely on   *)
(* it.                                                                     *)
Sound ==
  Anchor # NoSha =>
    \A t \in Present(Anchor) \ unmeasured : Covers[Anchor][t] \subseteq CoveredBy(t)

(* Story 11.1: a project instrumented by runs only has at most one         *)
(* built_at_sha, on its TestSymbols and on its edges, whichever runs       *)
(* overlap, fail or are cancelled.                                         *)
SingleAnchor ==
  \A c, d \in ({stamp[t] : t \in Test} \cup {e.sha : e \in edges}) \ {NoSha, NoNode} : c = d

(* A run for which a cancel was requested writes nothing any more.         *)
CancelHonoured ==
  [][\A r \in Run : run[r].asked /\ run'[r].pc = "idle" => UNCHANGED <<edges, stamp>>]_vars

(* What the graph holds is what a run of the whole suite at the anchor     *)
(* would have put there.                                                   *)
Full == INSTANCE FullEvidence WITH anchor <- Anchor,
                                   evidence <- [t \in Test |-> CoveredBy(t)]
FullSpec == Full!Spec

=============================================================================
