-------------------------- MODULE SelectionProofs --------------------------
(***************************************************************************)
(* An analysis that asks for no fallback misses no test, for any suite,    *)
(* history, limit and tie of the ranking.  The graph never names a source  *)
(* without a symbol, the freshness check leaves the commit that is         *)
(* analysed as the anchor, and there the evidence is sound; what the cap   *)
(* takes away it reports.                                                  *)
(***************************************************************************)
EXTENDS Selection, EvidenceGraphProofs

(* A source with an edge has a symbol, so the query by path finds it.      *)
SourcesHaveSymbols == KnownSources \subseteq symbols

LEMMA WriteNamesSymbols ==
  ASSUME NEW s, Write(s), SourcesHaveSymbols,
         symbols' = symbols \cup SourcesIn(s.found)
  PROVE  SourcesHaveSymbols'
<1> SUFFICES ASSUME NEW e \in edges' PROVE e.source \in symbols'
  BY DEF SourcesHaveSymbols, KnownSources
<1> DEFINE kept == {<<x.test, x.source>> : x \in {y \in edges : y.test \notin s.replaced}}
<1>1. \A x \in edges : x.source \in symbols
  BY DEF SourcesHaveSymbols, KnownSources
<1>2. \A pairs, sha : e \in EdgesOf(pairs, sha) => \E p \in pairs : e.source = p[2]
  BY DEF EdgesOf
<1>3. \A p \in s.found : p[2] \in symbols'
  BY DEF SourcesIn
<1>4. CASE Replace(s)
  BY <1>2, <1>3, <1>4 DEF Replace
<1>5. CASE Apply(s)
  <2>1. e \in EdgesOf(s.found \cup kept, s.sha)
    BY <1>5 DEF Apply
  <2>2. \A p \in kept : p[2] \in symbols
    BY <1>1
  <2> QED BY <1>2, <1>3, <2>1, <2>2
<1>6. CASE Merge(s)
  <2>1. e \in edges \/ \E pairs \in SUBSET s.found : e \in EdgesOf(pairs, s.sha)
    BY <1>6 DEF Merge
  <2> QED BY <1>1, <1>2, <1>3, <2>1
<1> QED BY <1>4, <1>5, <1>6 DEF Write

LEMMA SymbolsInductive ==
  ASSUME SourcesHaveSymbols, [Next]_vars
  PROVE  SourcesHaveSymbols'
<1>1. ASSUME NEW r \in Run, Store(r) PROVE SourcesHaveSymbols'
  BY <1>1, WriteNamesSymbols DEF Store
<1>2. CASE UNCHANGED <<edges, symbols>>
  BY <1>2 DEF SourcesHaveSymbols, KnownSources
<1>3. ASSUME ~ \E r \in Run : Store(r) PROVE UNCHANGED <<edges, symbols>>
  <2>1. CASE UNCHANGED vars
    BY <2>1 DEF vars, graphVars
  <2>2. ASSUME NEW r \in Run, Step(r) PROVE UNCHANGED <<edges, symbols>>
    <3>1. ~Store(r)
      BY <1>3
    <3>2. CASE PipelineUnchanged
      BY <3>2 DEF PipelineUnchanged, graphVars
    <3> QED BY <2>2, <3>1, <3>2 DEF Step, Start, CloneTip, KeepCheckout, CloneFails, ReadHead,
               Discover, PlanFull, PlanNarrow, Measure, StoreFails, StoreCancelled, Disconnect,
               Around, graphVars
  <2>3. CASE \/ RequestCancel \/ Restart
             \/ \E c \in Commit : Push(c)
             \/ \E w \in State : Edit(w)
             \/ \E s \in Source : MapUnmapped(s)
    BY <2>3 DEF RequestCancel, Restart, Push, Edit, MapUnmapped, Around, graphVars
  <2> QED BY <2>1, <2>2, <2>3 DEF Next
<1> QED BY <1>1, <1>2, <1>3

(* Evidence that is not stale for a commit has it as the anchor.           *)
LEMMA FreshIsAnchor ==
  ASSUME NEW sha \in Commit, EvidenceShas # {}, ~Stale(sha)
  PROVE  Anchor = sha
<1>1. EvidenceShas = {sha}
  BY DEF Stale
<1>2. \A c \in Commit : AgreedOn(c) <=> c = sha
  BY <1>1 DEF AgreedOn, EvidenceShas
<1> QED BY <1>2 DEF Anchor

(* What the evidence has for a changed source is reported, or the cap is.  *)
LEMMA CoveringTestsReported ==
  ASSUME NEW f \in Source, NEW t, f \in CoveredBy(t), SourcesHaveSymbols,
         NEW files, files = {} \/ f \in files,
         NEW kept, kept \subseteq Candidates(files)
  PROVE  Cut(files, kept) \/ t \in FusedTests(kept)
<1>1. PICK e \in edges : e.test = t /\ e.source = f
  BY DEF CoveredBy
<1>2. t \in TestsCovering(f)
  BY <1>1 DEF TestsCovering
<1>3. f \in Candidates(files)
  BY <1>1 DEF Candidates, SourcesHaveSymbols, KnownSources
<1>4. CASE f \in kept
  BY <1>2, <1>4 DEF FusedTests, RuntimeTests
<1>5. CASE f \notin kept
  BY <1>2, <1>3, <1>5 DEF Cut, TestsDropped, HasTests
<1> QED BY <1>4, <1>5

LEMMA AnswersAreRight ==
  ASSUME Sound, SourcesHaveSymbols, Ignored \cap Source = {}
  PROVE  AnswersComplete
<1> SUFFICES ASSUME EvidenceShas # {},
                    NEW sha \in Commit, NEW base \in Commit, NEW t \in Present(sha) \ unmeasured,
                    Covers[sha][t] \cap Touched(base, sha) # {},
                    NEW files \in FileLists(base, sha), NEW limit \in Limits, NEW here \in BOOLEAN,
                    NEW kept \in Selected(files, limit),
                    ~FallbackUsed(sha, files, kept, here)
             PROVE  t \in ValidTests(sha, files, kept, here)
  BY DEF AnswersComplete
<1>1. Anchor = sha
  BY FreshIsAnchor DEF FallbackUsed
<1>2. Covers[sha][t] \subseteq CoveredBy(t)
  BY <1>1, EvidenceConstants DEF Sound
<1>3. PICK f : f \in Covers[sha][t] /\ f \in Touched(base, sha)
  OBVIOUS
<1>4. f \in Source /\ f \in CoveredBy(t)
  BY <1>2, <1>3, EvidenceConstants DEF Present
<1>5. files = {} \/ f \in files
  BY <1>3, <1>4 DEF FileLists, Touched
<1>6. kept \subseteq Candidates(files)
  BY DEF Selected
<1>7. t \in FusedTests(kept)
  BY <1>4, <1>5, <1>6, CoveringTestsReported DEF FallbackUsed
<1> QED BY <1>7 DEF ValidTests, FallbackUsed

(* One run at a time in a checkout that nobody edits, and no source that   *)
(* the file filter takes for something else: whatever the runs have left   *)
(* in the graph, no analysis without a fallback misses a test that covers  *)
(* a changed source -- unless the last execution of that test left no      *)
(* coverage database, in which case its evidence may be missing or be that *)
(* of an earlier commit under the stamp of the analysed one.               *)
THEOREM AnswersAreComplete ==
  ASSUME Determined, OneRun, Edited = {}, Ignored \cap Source = {}
  PROVE  Spec => []AnswersComplete
<1>1. Init => SourcesHaveSymbols
  BY DEF Init, SourcesHaveSymbols, KnownSources
<1>2. SourcesHaveSymbols /\ [Next]_vars => SourcesHaveSymbols'
  BY SymbolsInductive
<1>3. Sound /\ SourcesHaveSymbols => AnswersComplete
  BY AnswersAreRight
<1>4. Spec => []Sound
  BY SoundHolds
<1> QED BY <1>1, <1>2, <1>3, <1>4, PTL DEF Spec

=============================================================================
