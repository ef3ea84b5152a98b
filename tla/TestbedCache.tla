--------------------------- MODULE TestbedCache ----------------------------
(***************************************************************************)
(* The cache of testbed checkouts (TestbedManager): one slot, that is one  *)
(* repository, branch and install command.  Runs in several processes call *)
(* clone_testbed, which serves the slot's checkout after advancing it to   *)
(* the branch tip, or prepares a new one in a staging directory and        *)
(* publishes it.  A flock per slot serializes the two; the checkout is     *)
(* then used without the lock.  A sidecar file records the commit, the     *)
(* time and whether the install command succeeded.                         *)
(***************************************************************************)
EXTENDS Naturals

CONSTANTS
  Run,        \* the runs that want the checkout
  MaxCommit,  \* the branch advances from commit 1 to at most this one
  MaxTime,    \* the clock stops here
  TTL,        \* cache_ttl, in ticks of that clock
  MaxCalls,   \* bound on the calls of clone_testbed
  MaxFaults   \* bound on kills and failed writes of the sidecar

ASSUME CacheAssumption ==
  /\ MaxCommit \in Nat \ {0}
  /\ {MaxTime, TTL, MaxCalls, MaxFaults} \subseteq Nat
  /\ "free" \notin Run

VARIABLES
  tip,      \* the newest commit of the remote branch
  clock,
  slot,     \* the directory at cache_path(config)
  meta,     \* the sidecar next to it
  lock,     \* the run that holds the flock, if any
  run,      \* each run's call
  staging,  \* runs whose staging directory exists
  calls, faults

vars == <<tip, clock, slot, meta, lock, run, staging, calls, faults>>

Free == "free"
Commit == 1..MaxCommit

\* A directory: its HEAD, whether .git is there, whether all tracked files are
\* (some are missing once a removal began), whether they were edited, and
\* whether the install command succeeded in it.
Directory == [head : 0..MaxCommit, git : BOOLEAN, whole : BOOLEAN,
              edited : BOOLEAN, prepared : BOOLEAN]
NoDirectory == [head |-> 0, git |-> FALSE, whole |-> FALSE, edited |-> FALSE, prepared |-> FALSE]
Exists == slot.head # 0

\* A sidecar that is missing, or that cannot be parsed, is NoMeta.
Meta == [head : 0..MaxCommit, installed : BOOLEAN, at : 0..MaxTime]
NoMeta == [head |-> 0, installed |-> FALSE, at |-> 0]

Locked == {"refreshing", "cloning", "installing", "publishing", "removing", "renaming",
           "truncating", "writing"}
Calling == {"looking", "waiting_hit", "waiting_clone"} \cup Locked

NoCall == [pc |-> "idle", fresh |-> FALSE, since |-> 0, head |-> 0, ok |-> FALSE, by |-> "none"]

\* Types, and who holds the lock: exactly the run that is between the two ends of
\* a `with self._slot_lock` block.
TypeOK ==
  /\ \A r \in Run : lock = r <=> run[r].pc \in Locked
  /\ tip \in Commit /\ clock \in 0..MaxTime
  /\ slot \in Directory /\ meta \in Meta
  /\ lock \in Run \cup {Free}
  /\ run \in [Run -> [pc : {"idle", "failed", "killed", "using"} \cup Calling, fresh : BOOLEAN,
                      since : 0..MaxCommit, head : 0..MaxCommit, ok : BOOLEAN,
                      by : {"none", "clone", "refresh", "edited", "offline"}]]
  /\ staging \subseteq Run
  /\ calls \in 0..MaxCalls /\ faults \in 0..MaxFaults

Init ==
  /\ tip = 1 /\ clock = 0
  /\ slot = NoDirectory /\ meta = NoMeta
  /\ lock = Free
  /\ run = [r \in Run |-> NoCall]
  /\ staging = {}
  /\ calls = 0 /\ faults = 0

-----------------------------------------------------------------------------
(* What clone_testbed decides. *)

Expired == clock - meta.at > TTL

\* Mutant: the marker of a failed install is not looked at.
UsableUninstalled == slot.git /\ meta # NoMeta /\ ~Expired /\ slot.head = meta.head
\* _cache_usable: a checkout with a fresh, readable, installed marker for the
\* commit it is at.  The files themselves are not looked at.
Usable == slot.git /\ meta # NoMeta /\ meta.installed /\ ~Expired /\ slot.head = meta.head

At(r, pc) == run[r].pc = pc
Goes(r, pc) == run' = [run EXCEPT ![r].pc = pc]
Ends(r, pc) == run' = [run EXCEPT ![r] = [NoCall EXCEPT !.pc = pc]]
Holds(r) == lock = r

Disk == <<slot, meta>>
World == <<tip, clock, calls, faults>>

\* Mutant: the lock is not released when the call fails.
FailsLocked(r) ==
  /\ Ends(r, "failed")
  /\ staging' = staging \ {r}
  /\ lock' = lock
\* Mutant: the except branch does not remove the staging directory.
FailsLittered(r) == Ends(r, "failed") /\ lock' = Free /\ staging' = staging
\* The except branch: the staging directory goes and the lock is released.
Fails(r) ==
  /\ Ends(r, "failed")
  /\ staging' = staging \ {r}
  /\ lock' = Free

\* The call returns the checkout at the commit it is then at.
Returns(r, by) ==
  /\ run' = [run EXCEPT ![r].pc = "using", ![r].head = slot.head, ![r].ok = FALSE, ![r].by = by]
  /\ lock' = Free

-----------------------------------------------------------------------------
(* clone_testbed *)

\* A call begins; run_fresh passes use_cache = False and goes for a clean clone.
Call(r, fresh) ==
  /\ run[r].pc \in {"idle", "failed", "killed"}
  /\ calls < MaxCalls
  /\ calls' = calls + 1
  /\ run' = [run EXCEPT ![r] = [NoCall EXCEPT !.pc = IF fresh THEN "waiting_clone" ELSE "looking",
                                              !.fresh = fresh, !.since = tip]]
  /\ UNCHANGED <<tip, clock, Disk, lock, staging, faults>>

\* The first look at the slot is not under the lock.
Look(r) ==
  /\ At(r, "looking")
  /\ Goes(r, IF Usable THEN "waiting_hit" ELSE "waiting_clone")
  /\ UNCHANGED <<World, Disk, lock, staging>>

\* _reuse_checkout under the lock: the slot is looked at again; when it has
\* become unusable the lock is given back and the call goes on to the clone.
LockForHit(r) ==
  /\ At(r, "waiting_hit") /\ lock = Free
  /\ IF Usable THEN Goes(r, "refreshing") /\ lock' = r
               ELSE Goes(r, "waiting_clone") /\ UNCHANGED lock
  /\ UNCHANGED <<World, Disk, staging>>

\* Mutant: a checkout found after waiting for the lock is served as it is.
FoundUnrefreshed(r) == Returns(r, "refresh")
\* A checkout that another run published in the meantime is refreshed too.
Found(r) == Goes(r, "refreshing") /\ lock' = r

\* The lock for clone and publish, and a last look unless the call is fresh.
LockForClone(r) ==
  /\ At(r, "waiting_clone") /\ lock = Free
  /\ IF ~run[r].fresh /\ Usable
     THEN Found(r) /\ UNCHANGED staging
     ELSE Goes(r, "cloning") /\ lock' = r /\ staging' = staging \cup {r}
  /\ UNCHANGED <<World, Disk>>

\* Mutant: the sidecar is left behind when the checkout has been advanced.
RefreshUnmarked(r) ==
  /\ slot' = [slot EXCEPT !.head = tip]
  /\ run' = [run EXCEPT ![r].pc = "using", ![r].head = tip, ![r].by = "refresh"]
  /\ lock' = Free
\* fetch and reset --hard, after which the sidecar must follow.
Refresh(r) ==
  /\ slot' = [slot EXCEPT !.head = tip]
  /\ run' = [run EXCEPT ![r].pc = "truncating", ![r].ok = meta.installed, ![r].by = "refresh"]
  /\ UNCHANGED lock

Dirty == slot.edited \/ ~slot.whole

\* _refresh_checkout: a checkout with tracked files edited (or missing, which is
\* the same to git) is served as it is, and so is any when the fetch fails.
RefreshCheckout(r) ==
  /\ At(r, "refreshing")
  /\ \/ Dirty /\ Returns(r, "edited") /\ UNCHANGED slot
     \/ ~Dirty /\ Returns(r, "offline") /\ UNCHANGED slot
     \/ ~Dirty /\ Refresh(r)
  /\ UNCHANGED <<World, meta, staging>>

\* Repo.clone_from into the staging directory; any exception ends the call.
Clone(r) ==
  /\ At(r, "cloning")
  /\ \/ /\ run' = [run EXCEPT ![r].pc = "installing", ![r].head = tip]
        /\ UNCHANGED <<lock, staging>>
     \/ Fails(r)
  /\ UNCHANGED <<World, Disk>>

\* The install command succeeds, fails (the call goes on) or times out.
Install(r) ==
  /\ At(r, "installing")
  /\ \/ /\ \E ok \in BOOLEAN : run' = [run EXCEPT ![r].pc = "publishing", ![r].ok = ok]
        /\ UNCHANGED <<lock, staging>>
     \/ Fails(r)
  /\ UNCHANGED <<World, Disk>>

\* _publish: an existing directory is removed, file by file, before the rename.
Publish(r) ==
  /\ At(r, "publishing")
  /\ IF Exists
     THEN /\ Goes(r, "removing")
          /\ \E git \in BOOLEAN : slot' = [slot EXCEPT !.whole = FALSE, !.git = slot.git /\ git]
     ELSE Goes(r, "renaming") /\ UNCHANGED slot
  /\ UNCHANGED <<World, meta, lock, staging>>

\* rmtree ends.  It ignores errors: what a run that uses the checkout wrote in
\* the meantime keeps the directory in place.
Remove(r) ==
  /\ At(r, "removing")
  /\ Goes(r, "renaming")
  /\ \/ slot' = NoDirectory
     \/ (\E q \in Run : At(q, "using")) /\ slot' = [slot EXCEPT !.git = FALSE]
  /\ UNCHANGED <<World, meta, lock, staging>>

\* os.rename, which raises when the directory is still there.
Rename(r) ==
  /\ At(r, "renaming")
  /\ IF Exists
     THEN Fails(r) /\ UNCHANGED slot
     ELSE /\ slot' = [head |-> run[r].head, git |-> TRUE, whole |-> TRUE, edited |-> FALSE,
                      prepared |-> run[r].ok]
          /\ run' = [run EXCEPT ![r].pc = "truncating", ![r].by = "clone"]
          /\ staging' = staging \ {r}
          /\ UNCHANGED lock
  /\ UNCHANGED <<World, meta>>

\* _write_cache_meta opens the sidecar, which empties it ...
Truncate(r) ==
  /\ At(r, "truncating")
  /\ Goes(r, "writing")
  /\ meta' = NoMeta
  /\ UNCHANGED <<World, slot, lock, staging>>

\* Mutant: the sidecar does not record that the install command failed.
InstalledAnyway(r) == TRUE
Installed(r) == run[r].ok

\* ... and writes it, after which the call returns the checkout.
Write(r) ==
  /\ At(r, "writing")
  /\ meta' = [head |-> slot.head, installed |-> Installed(r), at |-> clock]
  /\ Returns(r, run[r].by)
  /\ UNCHANGED <<World, slot, staging>>

\* The sidecar cannot be opened, or not be written: a warning, and the call returns.
WriteFails(r) ==
  /\ run[r].pc \in {"truncating", "writing"}
  /\ faults < MaxFaults
  /\ faults' = faults + 1
  /\ Returns(r, run[r].by)
  /\ UNCHANGED <<tip, clock, calls, Disk, staging>>

\* The run has done with the checkout: commit read, tests executed, coverage read.
Finish(r) ==
  /\ At(r, "using")
  /\ Ends(r, "idle")
  /\ UNCHANGED <<World, Disk, lock, staging>>

-----------------------------------------------------------------------------
(* The surroundings *)

\* The process dies; the kernel drops its lock.  reset --hard may have written
\* some of the new files.
Kill(r) ==
  /\ run[r].pc \in Calling \cup {"using"}
  /\ faults < MaxFaults
  /\ faults' = faults + 1
  /\ Ends(r, "killed")
  /\ lock' = IF Holds(r) THEN Free ELSE lock
  /\ IF At(r, "refreshing") THEN \E e \in BOOLEAN : slot' = [slot EXCEPT !.edited = @ \/ e]
                            ELSE UNCHANGED slot
  /\ UNCHANGED <<tip, clock, calls, meta, staging>>

\* Somebody pushes to the branch.
Push ==
  /\ tip < MaxCommit
  /\ tip' = tip + 1
  /\ UNCHANGED <<clock, calls, faults, Disk, lock, run, staging>>

\* Somebody, or a test that runs, edits a tracked file of the checkout.
Edit ==
  /\ Exists /\ slot.whole /\ ~slot.edited
  /\ slot' = [slot EXCEPT !.edited = TRUE]
  /\ UNCHANGED <<World, meta, lock, run, staging>>

Tick ==
  /\ clock < MaxTime
  /\ clock' = clock + 1
  /\ UNCHANGED <<tip, calls, faults, Disk, lock, run, staging>>

Step(r) == Look(r) \/ LockForHit(r) \/ LockForClone(r) \/ RefreshCheckout(r) \/ Clone(r)
           \/ Install(r) \/ Publish(r) \/ Remove(r) \/ Rename(r) \/ Truncate(r) \/ Write(r)

Next ==
  \/ \E r \in Run : Step(r) \/ WriteFails(r) \/ Finish(r) \/ Kill(r) \/ \E f \in BOOLEAN : Call(r, f)
  \/ Push \/ Edit \/ Tick

Spec == Init /\ [][Next]_vars

\* The processes run, git's clone and fetch return (nothing limits their time; the
\* install command has 300 seconds), and a flock that is free is eventually granted to
\* each waiter (calls are finitely many, so it is free again and again for good).
Fairness == \A r \in Run : WF_vars(Step(r))
FairSpec == Spec /\ Fairness

-----------------------------------------------------------------------------
(* What the cache is for *)

\* A checkout that the next run would be served is complete and its install
\* command succeeded, and its sidecar names its commit, unless a process was
\* killed or the sidecar could not be written (_cache_usable trusts the sidecar
\* alone, so _publish and _refresh_checkout must keep it true).
CachedIsPrepared ==
  (lock = Free /\ faults = 0) =>
    /\ Usable => slot.whole /\ slot.prepared
    /\ slot.git => meta.head = slot.head

\* What a run is given is not older than the branch was when it asked (a
\* re-run instruments current code): the tip at some time during the call,
\* however many runs it waited for, except an edited or an offline checkout.
ServedCurrent ==
  [][\A r \in Run : (At(r, "using"))' /\ ~At(r, "using") /\ run'[r].by \in {"clone", "refresh"}
                      => run'[r].head >= run[r].since]_vars

\* Every staging directory belongs to a call in progress, whichever way calls
\* fail; only a kill leaves one behind (nothing removes that one later).
StagingRemoved == faults = 0 => \A r \in staging : Holds(r)

\* Every call ends, kills of the runs it waits for included (the lock of a run
\* that fails or dies is given back).
CallsEnd == \A r \in Run : run[r].pc \in Calling ~> run[r].pc \notin Calling
=============================================================================
