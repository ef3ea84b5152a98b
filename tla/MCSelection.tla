---------------------------- MODULE MCSelection ----------------------------
(* Analyses of what the runs of MCEvidenceGraph leave in the graph.  The   *)
(* ingestor knows a source before coverage does, and a test imports a      *)
(* source that it does not always execute.                                 *)
EXTENDS Selection, MCEvidenceGraph

SomeImports == (t1 :> {s1}) @@ (t2 :> {s3})
Reach == SomeImports
=============================================================================
