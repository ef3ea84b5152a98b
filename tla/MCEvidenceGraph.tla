-------------------------- MODULE MCEvidenceGraph --------------------------
(* Instances of EvidenceGraph for TLC.  The content of a file is the set   *)
(* of files it uses, and a test covers the sources it reaches.             *)
EXTENDS EvidenceGraph, TLC

CONSTANTS r1, r2, s1, s2, s3, t1, t2, h

RECURSIVE ReachFrom(_, _)
ReachFrom(world, fs) ==
  LET more == fs \cup UNION {world[f] : f \in {g \in fs : world[g] # NoFile}}
  IN  IF more = fs THEN fs ELSE ReachFrom(world, more)
CoversIn(worlds) ==
  [w \in DOMAIN worlds |-> [t \in Test |-> ReachFrom(worlds[w], {t}) \cap Source]]

World(t1uses, t2uses, s1uses, huses) ==
  (t1 :> t1uses) @@ (t2 :> t2uses) @@ (s1 :> s1uses) @@ (s2 :> {}) @@ (s3 :> {}) @@ (h :> huses)

(* TLC evaluates a definition without parameters once, but the one a       *)
(* constant is replaced with at every use: therefore two names.            *)

(* Four commits: a source starts to use another one, a test is removed     *)
(* while a source changes, and a test is rewritten.                        *)
FourCommits == [c \in 1 .. 4 |->
  CASE c = 1 -> World({s1}, {s2}, {}, {})
    [] c = 2 -> World({s1}, {s2}, {s2}, {})
    [] c = 3 -> World({s1}, NoFile, {s3}, {})
    [] c = 4 -> World({s1}, {s3}, {}, {})]
FourCommitsCovers == CoversIn(FourCommits)
History == FourCommits
HistoryCovers == FourCommitsCovers

(* Without the removal, and over two sources.                              *)
ThreeCommits == [c \in 1 .. 3 |->
  IF c = 3 THEN World({s1}, {s1}, {}, {}) ELSE FourCommits[c]]
ThreeCommitsCovers == CoversIn(ThreeCommits)
Kept == ThreeCommits
KeptCovers == ThreeCommitsCovers

(* One commit after another, and local modifications with which a test     *)
(* covers nothing.                                                         *)
EditedCommits ==
  [w \in 0 .. 2 |-> IF w = 0 THEN World({s1}, {}, {}, {}) ELSE FourCommits[w]]
EditedCommitsCovers == CoversIn(EditedCommits)
Modified == EditedCommits
ModifiedCovers == EditedCommitsCovers

(* In all of them a test covers what it covers because of these files.     *)
ASSUME CoverageDetermined == Determined /\ AbsentCoverNothing

RunSymmetry == Permutations(Run)
=============================================================================
