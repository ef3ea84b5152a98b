---------------------------- MODULE RunLifecycle ----------------------------
(***************************************************************************)
(* What a factory cell promises the outside world about its runs, whatever *)
(* the runtime, the event log and the restarts do underneath: the status   *)
(* a run has on stable storage moves forward only, a finished run stays    *)
(* finished, and a caller who was told that a cancel was accepted can rely *)
(* on the run being cancelled for good.                                    *)
(*                                                                         *)
(* CellRun implements this specification with status read off runs.json.   *)
(***************************************************************************)
EXTENDS Naturals

CONSTANT Runs       \* the run ids the cell may ever be asked to execute

VARIABLES
  status,           \* [Runs -> Status], the durable status
  told              \* runs whose cancel request was answered "cancelled"

vars == <<status, told>>

Terminal == {"succeeded", "failed", "cancelled"}
Status == {"absent", "queued", "running"} \cup Terminal

TypeOK ==
  /\ status \in [Runs -> Status]
  /\ told \in SUBSET Runs

Init ==
  /\ status = [r \in Runs |-> "absent"]
  /\ told = {}

(* A write of the run store changes the run it is about; because the store *)
(* is one file, it may at the same time carry back to "queued" any set of  *)
(* running runs that a restart has put in the queue again.                 *)
Write(r, s) ==
  /\ \E requeued \in SUBSET {q \in Runs : status[q] = "running"} :
       status' = [q \in Runs |-> IF q = r THEN s
                                 ELSE IF q \in requeued THEN "queued"
                                 ELSE status[q]]
  /\ UNCHANGED told

Create(r) == status[r] = "absent" /\ Write(r, "queued")
Start(r) == status[r] \in {"queued", "running"} /\ Write(r, "running")
Finish(r) == status[r] = "running" /\ \E s \in Terminal : Write(r, s)

(* A run can be cancelled before it ever ran.  A second write of the same  *)
(* outcome (the request handler, then the interrupted task) is harmless.   *)
Cancel(r) == status[r] \in {"queued", "running", "cancelled"} /\ Write(r, "cancelled")

Tell(r) ==
  /\ status[r] = "cancelled"
  /\ told' = told \cup {r}
  /\ UNCHANGED status

Next ==
  \E r \in Runs : Create(r) \/ Start(r) \/ Finish(r) \/ Cancel(r) \/ Tell(r)

Spec == Init /\ [][Next]_vars
=============================================================================
