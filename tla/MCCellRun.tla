------------------------------ MODULE MCCellRun -----------------------------
(* CellRun on small instances: three or four phases stand for the seven,   *)
(* with one phase before GENERATE and one after EXECUTE where it matters.  *)
EXTENDS CellRun, TLC

MCSymmetry == Permutations(Runs)

(* EventsAfter is the filter of Orchestrator.get_events: on every log of   *)
(* up to four events it gives what SelectSeq gives.                        *)
ShortLogs == UNION {[1 .. n -> [seq : 1 .. 4]] : n \in 0 .. 4}
ASSUME EventsAfterSelects ==
  \A s \in ShortLogs : \A since \in 0 .. 5 :
    EventsAfter(s, since) = SelectSeq(s, LAMBDA e : e.seq > since)
=============================================================================
