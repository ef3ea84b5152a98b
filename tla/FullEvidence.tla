---------------------------- MODULE FullEvidence ----------------------------
(***************************************************************************)
(* What instrumentation promises, whatever it executes: the coverage       *)
(* evidence of a project is at any time what one run of the whole suite,   *)
(* at one commit, would have recorded, and it is replaced in one piece.    *)
(*                                                                         *)
(* EvidenceGraph implements this specification although most of its runs   *)
(* execute only a part of the suite.                                       *)
(***************************************************************************)
CONSTANTS
  Commit,      \* the commits a branch may point to
  Test,        \* test files
  Covers,      \* Covers[c][t]: what t covers when it is run at commit c
  NoSha        \* the commit of the evidence is not known

VARIABLES
  anchor,      \* the commit the evidence is stamped with
  evidence     \* what each test is recorded to cover

vars == <<anchor, evidence>>

Init == anchor = NoSha /\ evidence = [t \in Test |-> {}]

(* A run at c ends; it may not have been able to name its commit.          *)
Publish(c) ==
  /\ anchor' \in {c, NoSha}
  /\ evidence' = [t \in Test |-> Covers[c][t]]

Next == \E c \in Commit : Publish(c)

Spec == Init /\ [][Next]_vars
=============================================================================
