----------------------------- MODULE Selection -----------------------------
(***************************************************************************)
(* Which tests a pull request needs: analyze_pr of the core reads the      *)
(* evidence graph, to_result of the agent decides whether to believe the   *)
(* answer and checks it against the user's checkout.                       *)
(*                                                                         *)
(* Once the list of files is there the handler has no await, so it sees    *)
(* one state of the graph; what it answers in a state is an operator here, *)
(* of the request and of what is not determined (ties of the ranking, a    *)
(* failing query).  The local checkout, if there is one, is at the commit  *)
(* that is analysed.                                                       *)
(***************************************************************************)
EXTENDS EvidenceGraph

CONSTANTS
  Ingested,     \* files whose symbols the ingestor has put into the graph
  Approved,     \* sources that have an approved generated test
  Imports,      \* Imports[t]: files that t reaches by one or two imports
  Ignored,      \* files that filter_source_files passes over
  Limits        \* max_symbols of a request, 0 for no limit

ASSUME SelectionAssumption ==
  /\ Ingested \subseteq File /\ Approved \subseteq Source
  /\ Imports \in [Test -> SUBSET File]
  /\ Ignored \subseteq File
  /\ Limits \subseteq Nat

(* What a pull request from base to sha changes and leaves there.          *)
Touched(base, sha) == {f \in Changed(base, sha) : Content[sha][f] # NoFile}

(* The list of files comes from the agent (without removed files and what  *)
(* it takes for documentation or build output), from the core, or from     *)
(* nobody: then the analysis is project-wide.                              *)
FileLists(base, sha) == {Touched(base, sha) \ Ignored, Changed(base, sha), {}}

-----------------------------------------------------------------------------
(* analyze_pr.                                                             *)

(* Symbols of the ingestor and of store_mappings, by the path of the file. *)
Candidates(files) ==
  {f \in symbols \cup Ingested : files = {} \/ f \in files}

HasTests(f) == f \in Approved \/ TestsCovering(f) # {} \/ f \in SourcesIn(mapped)

(* The cap: the first of the ranking, in which a symbol with tests is      *)
(* ahead of every symbol without (5000 points).                            *)
Selected(files, limit) ==
  LET all == Candidates(files)
  IN  IF limit = 0 \/ Cardinality(all) <= limit THEN {all}
      ELSE {k \in SUBSET all :
              /\ Cardinality(k) = limit
              /\ \A f \in k, g \in all \ k : HasTests(g) => HasTests(f)}

(* Tests that executed a symbol, and tests that only import its file.      *)
RuntimeTests(f) == TestsCovering(f) \cup {p[1] : p \in {q \in mapped : q[2] = f}}
StaticTests(f) == {t \in Test : stamp[t] # NoNode /\ f \in Imports[t]}
FusedTests(kept) == UNION {RuntimeTests(f) \cup StaticTests(f) : f \in kept}

\* Mutant: only approved tests are looked for.
ApprovedDropped(files, kept) == \E f \in Candidates(files) \ kept : f \in Approved

(* Were symbols with tests cut off?  (If the query fails, it is assumed.)  *)
TestsDropped(files, kept) == \E f \in Candidates(files) \ kept : HasTests(f)

(* The commits the evidence was built at.                                  *)
EvidenceShas == {stamp[t] : t \in Test} \ {NoSha, NoNode}

(* Evidence of several commits, or of one that is not analysed.  Evidence  *)
(* without a commit is reported as such and not as stale.                  *)
Stale(sha) == EvidenceShas # {} /\ EvidenceShas # {sha}

-----------------------------------------------------------------------------
(* to_result.                                                              *)

(* The cap dropped symbols that have tests.                                *)
Cut(files, kept) == kept # Candidates(files) /\ TestsDropped(files, kept)

(* The tests that are left; here: is there a checkout?  Then what cannot   *)
(* be trusted is discarded, and the tests must exist in it.                *)
ValidTests(sha, files, kept, here) ==
  IF ~here THEN FusedTests(kept)
  ELSE IF Stale(sha) \/ Cut(files, kept) THEN {}
  ELSE FusedTests(kept) \cap Present(sha)

(* fallback_used: the user is asked to run the whole suite, and the tests  *)
(* that are listed do not count.                                           *)
FallbackUsed(sha, files, kept, here) ==
  \/ Stale(sha) \/ Cut(files, kept)
  \/ FusedTests(kept) = {} \/ ValidTests(sha, files, kept, here) = {}

-----------------------------------------------------------------------------
(* "Never silently under-select": in whatever state the runs have left the *)
(* graph, an analysis of a commit that asks for no fallback, and whose     *)
(* evidence has a commit, selects every test of that commit that covers a  *)
(* changed source there.  Excepted are tests whose last execution left no  *)
(* coverage database: what the graph has of them may be of an earlier      *)
(* commit, although it bears the stamp of this one.                        *)
AnswersComplete ==
  EvidenceShas # {} =>
    \A sha, base \in Commit : \A t \in Present(sha) \ unmeasured :
      Covers[sha][t] \cap Touched(base, sha) # {} =>
        \A files \in FileLists(base, sha), limit \in Limits, here \in BOOLEAN :
          \A kept \in Selected(files, limit) :
            \/ FallbackUsed(sha, files, kept, here)
            \/ t \in ValidTests(sha, files, kept, here)

=============================================================================
