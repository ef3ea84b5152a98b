------------------------- MODULE TestbedCacheProofs -------------------------
(***************************************************************************)
(* Proofs about TestbedCache: what the cache offers is prepared, staging   *)
(* directories are removed, and a call is served a current checkout, for   *)
(* any number of runs, calls, commits and moments.                         *)
(*                                                                         *)
(* None of them is inductive: they look at the slot when nobody is in the  *)
(* middle of a change, or at the end of a call.  The invariant says what   *)
(* the run that holds the lock has established so far.                     *)
(***************************************************************************)
EXTENDS TestbedCache, TLAPS

(* Where a run with the lock has begun to change the slot.                 *)
Changing == {"removing", "renaming", "truncating", "writing"}
Publishing == {"cloning", "installing", "publishing", "removing", "renaming"}

(* A checkout with a .git is whole, its sidecar names its commit and says  *)
(* the truth about the install command.                                    *)
SlotRight ==
  slot.git => slot.whole /\ meta.head = slot.head /\ (meta.installed => slot.prepared)

(* That is so while nobody changes it.  A checkout to be replaced is none  *)
(* any more when the new one is renamed; one that was replaced or advanced *)
(* is what the run with the lock will say of it.                           *)
SlotKept ==
  /\ slot.head = 0 => ~slot.git
  /\ faults = 0 =>
       /\ (\A r \in Run : run[r].pc \notin Changing) => SlotRight
       /\ \A r \in Run :
            /\ run[r].pc = "refreshing" => slot.git
            /\ run[r].pc = "renaming" => ~slot.git
            /\ run[r].pc \in {"truncating", "writing"} =>
                 (slot.git => slot.whole) /\ (run[r].ok => slot.prepared)

(* A staging directory is of a run that clones and publishes.              *)
Staged == faults = 0 => \A r \in staging : run[r].pc \in Publishing

(* What a run cloned, or advanced the slot to, is no older than its call.  *)
CurrentFor(r) ==
  /\ run[r].since <= tip
  /\ run[r].pc \in {"installing", "publishing", "removing", "renaming"} =>
       run[r].head >= run[r].since /\ run[r].head # 0
  /\ run[r].pc \in {"truncating", "writing"} => slot.head >= run[r].since
Current == \A r \in Run : CurrentFor(r)

(* The parts of TypeOK: who holds the lock; the calls; the rest.           *)
LockFits == \A r \in Run : lock = r <=> run[r].pc \in Locked
CallState == [pc : {"idle", "failed", "killed", "using"} \cup Calling, fresh : BOOLEAN,
              since : 0..MaxCommit, head : 0..MaxCommit, ok : BOOLEAN,
              by : {"none", "clone", "refresh", "edited", "offline"}]
CallsTyped == run \in [Run -> CallState]
DiskTyped == slot \in Directory /\ meta \in Meta
WorldTyped ==
  /\ tip \in Commit /\ clock \in 0..MaxTime
  /\ lock \in Run \cup {Free} /\ staging \subseteq Run
  /\ calls \in 0..MaxCalls /\ faults \in 0..MaxFaults
Typed == CallsTyped /\ DiskTyped /\ WorldTyped

CacheInv == LockFits /\ Typed /\ SlotKept /\ Staged /\ Current

-----------------------------------------------------------------------------
LEMMA TypeParts == TypeOK <=> LockFits /\ Typed
BY Zenon DEF TypeOK, LockFits, Typed, CallsTyped, CallState, DiskTyped, WorldTyped

LEMMA Bounds ==
  /\ MaxCommit \in Nat /\ 1 <= MaxCommit
  /\ MaxTime \in Nat /\ MaxCalls \in Nat /\ MaxFaults \in Nat
  /\ Free \notin Run
BY CacheAssumption DEF Free

(* The calls, directories and sidecars that the actions begin with.        *)
LEMMA EndedTyped ==
  ASSUME NEW pc \in {"idle", "failed", "killed"}
  PROVE  [NoCall EXCEPT !.pc = pc] \in CallState
<1>1. NoCall \in CallState
  BY Bounds DEF NoCall, CallState
<1> QED BY <1>1 DEF CallState

LEMMA CalledTyped ==
  ASSUME NEW pc \in {"looking", "waiting_clone"}, NEW f \in BOOLEAN, NEW c \in 0..MaxCommit
  PROVE  [NoCall EXCEPT !.pc = pc, !.fresh = f, !.since = c] \in CallState
<1>1. NoCall \in CallState
  BY Bounds DEF NoCall, CallState
<1> QED BY <1>1, Bounds DEF CallState, Calling

LEMMA NothingTyped == NoDirectory \in Directory /\ NoMeta \in Meta
BY Bounds DEF NoDirectory, Directory, NoMeta, Meta

LEMMA CheckoutTyped ==
  ASSUME NEW h \in 0..MaxCommit, NEW ok \in BOOLEAN
  PROVE  [head |-> h, git |-> TRUE, whole |-> TRUE, edited |-> FALSE, prepared |-> ok] \in Directory
BY DEF Directory

LEMMA PutTyped ==
  ASSUME CallsTyped, NEW r \in Run, NEW c \in CallState, run' = [run EXCEPT ![r] = c]
  PROVE  CallsTyped'
BY DEF CallsTyped, CallState, Calling, Locked

LEMMA ReturnsTyped ==
  ASSUME Typed, NEW r \in Run, NEW by, Returns(r, by),
         by \in {"none", "clone", "refresh", "edited", "offline"}
  PROVE  CallsTyped'
<1>1. slot.head \in 0..MaxCommit
  BY DEF Typed, DiskTyped, Directory
<1>2. run' = [run EXCEPT ![r] =
                  [run[r] EXCEPT !.pc = "using", !.head = slot.head, !.ok = FALSE, !.by = by]]
  BY DEF Returns
<1>3. [run[r] EXCEPT !.pc = "using", !.head = slot.head, !.ok = FALSE, !.by = by] \in CallState
  BY <1>1 DEF Typed, CallsTyped, CallState
<1> QED BY <1>2, <1>3, PutTyped, Zenon DEF Typed

-----------------------------------------------------------------------------
LEMMA CallKeeps ==
  ASSUME NEW r \in Run, NEW f \in BOOLEAN, CacheInv, Call(r, f)
  PROVE  CacheInv'
<1> USE DEF CacheInv, Typed, Call, NoCall, Disk, World
<1>1. CallsTyped'
  <2>1. PICK pc \in {"looking", "waiting_clone"} :
          run' = [run EXCEPT ![r] = [NoCall EXCEPT !.pc = pc, !.fresh = f, !.since = tip]]
    OBVIOUS
  <2>2. [NoCall EXCEPT !.pc = pc, !.fresh = f, !.since = tip] \in CallState
    <3>1. tip \in 0..MaxCommit
      BY Bounds DEF WorldTyped, Commit
    <3> QED BY <3>1, CalledTyped
  <2> QED BY <2>1, <2>2, PutTyped, Zenon
<1>2. DiskTyped'
  BY Bounds DEF DiskTyped, Directory, Meta, Commit, WorldTyped, CallsTyped, CallState
<1>3. WorldTyped'
  BY Bounds DEF WorldTyped, Commit
<1>4. LockFits'
  BY Bounds DEF LockFits, CallsTyped, CallState, Locked, Calling
<1>5. SlotKept'
  BY Bounds DEF SlotKept, SlotRight, Changing, LockFits, Locked, CallsTyped,
                CallState, DiskTyped, WorldTyped, Directory, Meta, Commit
<1>6. Staged'
  BY Bounds DEF Staged, Publishing, LockFits, Locked, CallsTyped, CallState, WorldTyped
<1>7. Current'
  BY Bounds DEF Current, CurrentFor, LockFits, Locked, CallsTyped,
                CallState, DiskTyped, WorldTyped, Directory, Commit
<1> QED BY <1>1, <1>2, <1>3, <1>4, <1>5, <1>6, <1>7

LEMMA LookKeeps ==
  ASSUME NEW r \in Run, CacheInv, Look(r)
  PROVE  CacheInv'
<1> USE DEF CacheInv, Typed, Look, Goes, At, Usable, Expired, Disk, World
<1>1. CallsTyped'
  BY Bounds DEF CallsTyped, CallState, WorldTyped, DiskTyped, Directory,
                Meta, Commit, Calling, Locked
<1>2. DiskTyped'
  BY Bounds DEF DiskTyped, Directory, Meta, Commit, WorldTyped, CallsTyped, CallState
<1>3. WorldTyped'
  BY Bounds DEF WorldTyped, Commit
<1>4. LockFits'
  BY Bounds DEF LockFits, CallsTyped, CallState, Locked, Calling
<1>5. SlotKept'
  BY Bounds DEF SlotKept, SlotRight, Changing, LockFits, Locked, CallsTyped,
                CallState, DiskTyped, WorldTyped, Directory, Meta, Commit
<1>6. Staged'
  BY Bounds DEF Staged, Publishing, LockFits, Locked, CallsTyped, CallState, WorldTyped
<1>7. Current'
  BY Bounds DEF Current, CurrentFor, LockFits, Locked, CallsTyped,
                CallState, DiskTyped, WorldTyped, Directory, Commit
<1> QED BY <1>1, <1>2, <1>3, <1>4, <1>5, <1>6, <1>7

LEMMA LockForHitKeeps ==
  ASSUME NEW r \in Run, CacheInv, LockForHit(r)
  PROVE  CacheInv'
<1> USE DEF CacheInv, Typed, LockForHit, Usable, Goes, At, Disk, World
<1>1. CallsTyped'
  BY Bounds DEF CallsTyped, CallState, WorldTyped, DiskTyped, Directory,
                Meta, Commit, Calling, Locked
<1>2. DiskTyped'
  BY Bounds DEF DiskTyped, Directory, Meta, Commit, WorldTyped, CallsTyped, CallState
<1>3. WorldTyped'
  BY Bounds DEF WorldTyped, Commit
<1>4. LockFits'
  BY Bounds DEF LockFits, CallsTyped, CallState, Locked, Calling
<1>5. SlotKept'
  BY Bounds DEF SlotKept, SlotRight, Changing, LockFits, Locked, CallsTyped,
                CallState, DiskTyped, WorldTyped, Directory, Meta, Commit
<1>6. Staged'
  BY Bounds DEF Staged, Publishing, LockFits, Locked, CallsTyped, CallState, WorldTyped
<1>7. Current'
  BY Bounds DEF Current, CurrentFor, LockFits, Locked, CallsTyped,
                CallState, DiskTyped, WorldTyped, Directory, Commit
<1> QED BY <1>1, <1>2, <1>3, <1>4, <1>5, <1>6, <1>7

LEMMA LockForCloneKeeps ==
  ASSUME NEW r \in Run, CacheInv, LockForClone(r)
  PROVE  CacheInv'
<1> USE DEF CacheInv, Typed, LockForClone, Usable, Found, Goes, At, Disk, World
<1>1. CallsTyped'
  BY Bounds DEF CallsTyped, CallState, WorldTyped, DiskTyped, Directory,
                Meta, Commit, Calling, Locked
<1>2. DiskTyped'
  BY Bounds DEF DiskTyped, Directory, Meta, Commit, WorldTyped, CallsTyped, CallState
<1>3. WorldTyped'
  BY Bounds DEF WorldTyped, Commit
<1>4. LockFits'
  BY Bounds DEF LockFits, CallsTyped, CallState, Locked, Calling
<1>5. SlotKept'
  BY Bounds DEF SlotKept, SlotRight, Changing, LockFits, Locked, CallsTyped,
                CallState, DiskTyped, WorldTyped, Directory, Meta, Commit
<1>6. Staged'
  BY Bounds DEF Staged, Publishing, LockFits, Locked, CallsTyped, CallState, WorldTyped
<1>7. Current'
  BY Bounds DEF Current, CurrentFor, LockFits, Locked, CallsTyped,
                CallState, DiskTyped, WorldTyped, Directory, Commit
<1> QED BY <1>1, <1>2, <1>3, <1>4, <1>5, <1>6, <1>7

LEMMA RefreshCheckoutKeeps ==
  ASSUME NEW r \in Run, CacheInv, RefreshCheckout(r)
  PROVE  CacheInv'
<1> USE DEF CacheInv, Typed, RefreshCheckout, Refresh, Returns, Dirty, At, Disk, World
<1>1. CallsTyped'
  BY Bounds DEF CallsTyped, CallState, WorldTyped, DiskTyped, Directory,
                Meta, Commit, Calling, Locked
<1>2. DiskTyped'
  BY Bounds DEF DiskTyped, Directory, Meta, Commit, WorldTyped, CallsTyped, CallState
<1>3. WorldTyped'
  BY Bounds DEF WorldTyped, Commit
<1>4. LockFits'
  BY Bounds DEF LockFits, CallsTyped, CallState, Locked, Calling
<1>5. SlotKept'
  <2>1. CASE UNCHANGED slot /\ (Returns(r, "edited") \/ Returns(r, "offline"))
    BY <2>1, Bounds DEF SlotKept, SlotRight, Changing, LockFits,
                        Locked, CallsTyped, CallState, DiskTyped, WorldTyped
  <2>2. CASE ~Dirty /\ Refresh(r)
    <3>1. \A q \in Run : run[q].pc \notin Changing
      BY DEF LockFits, Locked, Changing
    <3>2. faults = 0 => (slot.git => slot.whole /\ (meta.installed => slot.prepared))
      BY <3>1, Zenon DEF SlotKept, SlotRight
    <3>3. /\ run'[r].pc = "truncating" /\ run'[r].ok = meta.installed
          /\ \A q \in Run \ {r} : run'[q] = run[q]
      BY <2>2 DEF CallsTyped, CallState
    <3>4. /\ slot'.head = tip /\ slot'.git = slot.git /\ slot'.whole = slot.whole
          /\ slot'.prepared = slot.prepared
      BY <2>2 DEF DiskTyped, Directory
    <3>5. tip # 0 /\ faults' = faults
      BY DEF WorldTyped, Commit
    <3>6. \A q \in Run : run'[q].pc \notin {"refreshing", "renaming"}
      <4>1. \A q \in Run \ {r} : run[q].pc \notin Locked
        BY DEF LockFits, Locked
      <4> QED BY <3>3, <4>1 DEF Locked
    <3>7. slot'.head = 0 => ~slot'.git
      BY <3>4, <3>5
    <3>8. ~ \A q \in Run : run'[q].pc \notin Changing
      BY <3>3 DEF Changing
    <3>9. ASSUME faults' = 0, NEW q \in Run, run'[q].pc \in {"truncating", "writing"}
          PROVE  (slot'.git => slot'.whole) /\ (run'[q].ok => slot'.prepared)
      <4>1. slot.git /\ slot.whole
        BY <2>2, <3>5, <3>9 DEF Dirty, SlotKept
      <4>2. q = r
        BY <3>1, <3>3, <3>9 DEF Changing
      <4> QED BY <3>2, <3>3, <3>4, <3>5, <3>9, <4>1, <4>2
    <3> QED BY <3>6, <3>7, <3>8, <3>9, Zenon DEF SlotKept
  <2> QED BY <2>1, <2>2
<1>6. Staged'
  BY Bounds DEF Staged, Publishing, LockFits, Locked, CallsTyped, CallState, WorldTyped
<1>7. Current'
  BY Bounds DEF Current, CurrentFor, LockFits, Locked, CallsTyped,
                CallState, DiskTyped, WorldTyped, Directory, Commit
<1> QED BY <1>1, <1>2, <1>3, <1>4, <1>5, <1>6, <1>7

LEMMA CloneKeeps ==
  ASSUME NEW r \in Run, CacheInv, Clone(r)
  PROVE  CacheInv'
<1> USE DEF CacheInv, Typed, Clone, Fails, Ends, NoCall, At, Disk, World
<1>1. CallsTyped'
  <2>1. CASE run' = [run EXCEPT ![r] = [NoCall EXCEPT !.pc = "failed"]]
    <3>1. [NoCall EXCEPT !.pc = "failed"] \in CallState
      BY EndedTyped
    <3> QED BY <2>1, <3>1, PutTyped, Zenon
  <2>2. CASE run' = [run EXCEPT ![r].pc = "installing", ![r].head = tip]
    BY <2>2, Bounds DEF CallsTyped, CallState, WorldTyped, Commit, Calling, Locked
  <2> QED BY <2>1, <2>2
<1>2. DiskTyped'
  BY Bounds DEF DiskTyped, Directory, Meta, Commit, WorldTyped, CallsTyped, CallState
<1>3. WorldTyped'
  BY Bounds DEF WorldTyped, Commit
<1>4. LockFits'
  BY Bounds DEF LockFits, CallsTyped, CallState, Locked, Calling
<1>5. SlotKept'
  BY Bounds DEF SlotKept, SlotRight, Changing, LockFits, Locked, CallsTyped,
                CallState, DiskTyped, WorldTyped, Directory, Meta, Commit
<1>6. Staged'
  BY Bounds DEF Staged, Publishing, LockFits, Locked, CallsTyped, CallState, WorldTyped
<1>7. Current'
  BY Bounds DEF Current, CurrentFor, LockFits, Locked, CallsTyped,
                CallState, DiskTyped, WorldTyped, Directory, Commit
<1> QED BY <1>1, <1>2, <1>3, <1>4, <1>5, <1>6, <1>7

LEMMA InstallKeeps ==
  ASSUME NEW r \in Run, CacheInv, Install(r)
  PROVE  CacheInv'
<1> USE DEF CacheInv, Typed, Install, Fails, Ends, NoCall, At, Disk, World
<1>1. CallsTyped'
  <2>1. CASE run' = [run EXCEPT ![r] = [NoCall EXCEPT !.pc = "failed"]]
    <3>1. [NoCall EXCEPT !.pc = "failed"] \in CallState
      BY EndedTyped
    <3> QED BY <2>1, <3>1, PutTyped, Zenon
  <2>2. ASSUME NEW ok \in BOOLEAN,
               run' = [run EXCEPT ![r].pc = "publishing", ![r].ok = ok]
        PROVE  CallsTyped'
    <3>1. run' = [run EXCEPT ![r] = [run[r] EXCEPT !.pc = "publishing", !.ok = ok]]
      BY <2>2
    <3>2. [run[r] EXCEPT !.pc = "publishing", !.ok = ok] \in CallState
      BY DEF CallsTyped, CallState, Calling, Locked
    <3> QED BY <3>1, <3>2, PutTyped, Zenon
  <2> QED BY <2>1, <2>2
<1>2. DiskTyped'
  BY Bounds DEF DiskTyped, Directory, Meta, Commit, WorldTyped, CallsTyped, CallState
<1>3. WorldTyped'
  BY Bounds DEF WorldTyped, Commit
<1>4. LockFits'
  BY Bounds DEF LockFits, CallsTyped, CallState, Locked, Calling
<1>5. SlotKept'
  BY Bounds DEF SlotKept, SlotRight, Changing, LockFits, Locked, CallsTyped,
                CallState, DiskTyped, WorldTyped, Directory, Meta, Commit
<1>6. Staged'
  BY Bounds DEF Staged, Publishing, LockFits, Locked, CallsTyped, CallState, WorldTyped
<1>7. Current'
  BY Bounds DEF Current, CurrentFor, LockFits, Locked, CallsTyped,
                CallState, DiskTyped, WorldTyped, Directory, Commit
<1> QED BY <1>1, <1>2, <1>3, <1>4, <1>5, <1>6, <1>7

LEMMA PublishKeeps ==
  ASSUME NEW r \in Run, CacheInv, Publish(r)
  PROVE  CacheInv'
<1> USE DEF CacheInv, Typed
<1>1. /\ run[r].pc = "publishing"
      /\ tip' = tip /\ clock' = clock /\ calls' = calls /\ faults' = faults
      /\ meta' = meta /\ lock' = lock /\ staging' = staging
  BY DEF Publish, At, World
<1>2. PICK pc \in {"removing", "renaming"} :
        run' = [run EXCEPT ![r] = [run[r] EXCEPT !.pc = pc]] /\ (pc = "renaming" => ~Exists)
  BY DEF Publish, Goes, At
<1>3. [run[r] EXCEPT !.pc = pc] \in CallState
  BY DEF CallsTyped, CallState, Calling, Locked
<1>4. CallsTyped'
  BY <1>2, <1>3, PutTyped, Zenon
<1>5. /\ run'[r].pc = pc /\ run'[r].head = run[r].head /\ run'[r].since = run[r].since
      /\ \A q \in Run \ {r} : run'[q] = run[q]
  BY <1>2 DEF CallsTyped, CallState
<1>6. \/ slot' = slot /\ ~Exists
      \/ Exists /\ \E g \in BOOLEAN : slot' = [slot EXCEPT !.whole = FALSE, !.git = g]
  BY DEF Publish
<1>7. slot' \in Directory /\ slot'.head = slot.head /\ (slot.head = 0 => slot' = slot)
  BY <1>6 DEF Exists, DiskTyped, Directory
<1>8. \A q \in Run \ {r} : run[q].pc \notin Locked
  BY <1>1 DEF LockFits, Locked
<1>9. LockFits'
  BY <1>1, <1>2, <1>5 DEF LockFits, Locked
<1>10. DiskTyped' /\ WorldTyped'
  BY <1>1, <1>7 DEF DiskTyped, WorldTyped
<1>11. SlotKept'
  BY <1>1, <1>2, <1>5, <1>7, <1>8 DEF SlotKept, Exists, Changing, Locked
<1>12. Staged'
  BY <1>1, <1>2, <1>5 DEF Staged, Publishing, WorldTyped
<1>13. Current'
  BY <1>1, <1>2, <1>5, <1>7 DEF Current, CurrentFor
<1> QED BY <1>4, <1>9, <1>10, <1>11, <1>12, <1>13

LEMMA RemoveKeeps ==
  ASSUME NEW r \in Run, CacheInv, Remove(r)
  PROVE  CacheInv'
<1> USE DEF CacheInv, Typed, Remove, NoDirectory, Goes, At, Disk, World
<1>1. CallsTyped'
  BY Bounds DEF CallsTyped, CallState, WorldTyped, DiskTyped, Directory,
                Meta, Commit, Calling, Locked
<1>2. DiskTyped'
  <2>1. CASE slot' = NoDirectory
    BY <2>1, NothingTyped DEF DiskTyped
  <2>2. CASE slot' = [slot EXCEPT !.git = FALSE]
    BY <2>2 DEF DiskTyped, Directory
  <2> QED BY <2>1, <2>2
<1>3. WorldTyped'
  BY Bounds DEF WorldTyped, Commit
<1>4. LockFits'
  BY Bounds DEF LockFits, CallsTyped, CallState, Locked, Calling
<1>5. SlotKept'
  BY Bounds DEF SlotKept, SlotRight, Changing, LockFits, Locked, CallsTyped,
                CallState, DiskTyped, WorldTyped, Directory, Meta, Commit
<1>6. Staged'
  BY Bounds DEF Staged, Publishing, LockFits, Locked, CallsTyped, CallState, WorldTyped
<1>7. Current'
  BY Bounds DEF Current, CurrentFor, LockFits, Locked, CallsTyped,
                CallState, DiskTyped, WorldTyped, Directory, Commit
<1> QED BY <1>1, <1>2, <1>3, <1>4, <1>5, <1>6, <1>7

LEMMA RenameKeeps ==
  ASSUME NEW r \in Run, CacheInv, Rename(r)
  PROVE  CacheInv'
<1> USE DEF CacheInv, Typed, Rename, Exists, Fails, Ends, NoCall, At, Disk, World
<1>1. CallsTyped'
  <2>1. CASE run' = [run EXCEPT ![r] = [NoCall EXCEPT !.pc = "failed"]]
    <3>1. [NoCall EXCEPT !.pc = "failed"] \in CallState
      BY EndedTyped
    <3> QED BY <2>1, <3>1, PutTyped, Zenon
  <2>2. CASE run' = [run EXCEPT ![r].pc = "truncating", ![r].by = "clone"]
    BY <2>2, Bounds DEF CallsTyped, CallState, WorldTyped, Commit, Calling, Locked
  <2> QED BY <2>1, <2>2
<1>2. DiskTyped'
  <2>1. run[r].head \in 0..MaxCommit /\ run[r].ok \in BOOLEAN
    BY DEF CallsTyped, CallState
  <2>2. CASE Exists
    BY <2>2 DEF DiskTyped
  <2>3. CASE ~Exists
    <3>1. slot' = [head |-> run[r].head, git |-> TRUE, whole |-> TRUE, edited |-> FALSE,
                   prepared |-> run[r].ok] /\ meta' = meta
      BY <2>3
    <3> QED BY <2>1, <3>1, CheckoutTyped, Zenon DEF DiskTyped
  <2> QED BY <2>2, <2>3
<1>3. WorldTyped'
  BY Bounds DEF WorldTyped, Commit
<1>4. LockFits'
  BY Bounds DEF LockFits, CallsTyped, CallState, Locked, Calling
<1>5. SlotKept'
  <2>1. run[r].pc = "renaming" /\ faults' = faults
    OBVIOUS
  <2>2. CASE Exists
    <3>1. slot' = slot /\ meta' = meta /\ run'[r].pc = "failed"
          /\ \A q \in Run \ {r} : run'[q] = run[q]
      BY <2>2 DEF CallsTyped
    <3> QED BY <2>1, <3>1 DEF SlotKept, SlotRight
  <2>3. CASE ~Exists
    <3>1. run'[r].pc = "truncating" /\ run'[r].ok = run[r].ok
          /\ \A q \in Run \ {r} : run'[q] = run[q]
      BY <2>3 DEF CallsTyped, CallState
    <3>2. /\ slot'.head = run[r].head /\ slot'.git /\ slot'.whole
          /\ slot'.prepared = run[r].ok
      BY <2>3
    <3>3. \A q \in Run \ {r} : run[q].pc \notin Changing
      BY <2>1 DEF LockFits, Locked, Changing
    <3>4. run[r].head # 0
      BY <2>1 DEF Current, CurrentFor
    <3> QED BY <2>1, <3>1, <3>2, <3>3, <3>4 DEF SlotKept, Changing
  <2> QED BY <2>2, <2>3
<1>6. Staged'
  BY Bounds DEF Staged, Publishing, LockFits, Locked, CallsTyped, CallState, WorldTyped
<1>7. Current'
  BY Bounds DEF Current, CurrentFor, LockFits, Locked, CallsTyped,
                CallState, DiskTyped, WorldTyped, Directory, Commit
<1> QED BY <1>1, <1>2, <1>3, <1>4, <1>5, <1>6, <1>7

LEMMA TruncateKeeps ==
  ASSUME NEW r \in Run, CacheInv, Truncate(r)
  PROVE  CacheInv'
<1> USE DEF CacheInv, Typed, Truncate, NoMeta, Goes, At, Disk, World
<1>1. CallsTyped'
  BY Bounds DEF CallsTyped, CallState, WorldTyped, DiskTyped, Directory,
                Meta, Commit, Calling, Locked
<1>2. DiskTyped'
  BY Bounds DEF DiskTyped, Directory, Meta, Commit, WorldTyped, CallsTyped, CallState
<1>3. WorldTyped'
  BY Bounds DEF WorldTyped, Commit
<1>4. LockFits'
  BY Bounds DEF LockFits, CallsTyped, CallState, Locked, Calling
<1>5. SlotKept'
  BY Bounds DEF SlotKept, SlotRight, Changing, LockFits, Locked, CallsTyped,
                CallState, DiskTyped, WorldTyped, Directory, Meta, Commit
<1>6. Staged'
  BY Bounds DEF Staged, Publishing, LockFits, Locked, CallsTyped, CallState, WorldTyped
<1>7. Current'
  BY Bounds DEF Current, CurrentFor, LockFits, Locked, CallsTyped,
                CallState, DiskTyped, WorldTyped, Directory, Commit
<1> QED BY <1>1, <1>2, <1>3, <1>4, <1>5, <1>6, <1>7

LEMMA WriteKeeps ==
  ASSUME NEW r \in Run, CacheInv, Write(r)
  PROVE  CacheInv'
<1> USE DEF CacheInv, Typed, Write, Installed, Returns, At, Disk, World
<1>1. CallsTyped'
  <2>1. run[r].by \in {"none", "clone", "refresh", "edited", "offline"}
    BY DEF CallsTyped, CallState
  <2> QED BY <2>1, ReturnsTyped
<1>2. DiskTyped'
  BY Bounds DEF DiskTyped, Directory, Meta, Commit, WorldTyped, CallsTyped, CallState
<1>3. WorldTyped'
  BY Bounds DEF WorldTyped, Commit
<1>4. LockFits'
  BY Bounds DEF LockFits, CallsTyped, CallState, Locked, Calling
<1>5. SlotKept'
  BY Bounds DEF SlotKept, SlotRight, Changing, LockFits, Locked, CallsTyped,
                CallState, DiskTyped, WorldTyped, Directory, Meta, Commit
<1>6. Staged'
  BY Bounds DEF Staged, Publishing, LockFits, Locked, CallsTyped, CallState, WorldTyped
<1>7. Current'
  BY Bounds DEF Current, CurrentFor, LockFits, Locked, CallsTyped,
                CallState, DiskTyped, WorldTyped, Directory, Commit
<1> QED BY <1>1, <1>2, <1>3, <1>4, <1>5, <1>6, <1>7

LEMMA WriteFailsKeeps ==
  ASSUME NEW r \in Run, CacheInv, WriteFails(r)
  PROVE  CacheInv'
<1> USE DEF CacheInv, Typed, WriteFails, Returns, Disk, World
<1>1. CallsTyped'
  <2>1. run[r].by \in {"none", "clone", "refresh", "edited", "offline"}
    BY DEF CallsTyped, CallState
  <2> QED BY <2>1, ReturnsTyped
<1>2. DiskTyped'
  BY Bounds DEF DiskTyped, Directory, Meta, Commit, WorldTyped, CallsTyped, CallState
<1>3. WorldTyped'
  BY Bounds DEF WorldTyped, Commit
<1>4. LockFits'
  BY Bounds DEF LockFits, CallsTyped, CallState, Locked, Calling
<1>5. SlotKept'
  BY Bounds DEF SlotKept, SlotRight, Changing, LockFits, Locked, CallsTyped,
                CallState, DiskTyped, WorldTyped, Directory, Meta, Commit
<1>6. Staged'
  BY Bounds DEF Staged, Publishing, LockFits, Locked, CallsTyped, CallState, WorldTyped
<1>7. Current'
  BY Bounds DEF Current, CurrentFor, LockFits, Locked, CallsTyped,
                CallState, DiskTyped, WorldTyped, Directory, Commit
<1> QED BY <1>1, <1>2, <1>3, <1>4, <1>5, <1>6, <1>7

LEMMA FinishKeeps ==
  ASSUME NEW r \in Run, CacheInv, Finish(r)
  PROVE  CacheInv'
<1> USE DEF CacheInv, Typed, Finish, Ends, NoCall, At, Disk, World
<1>1. CallsTyped'
  <2>1. [NoCall EXCEPT !.pc = "idle"] \in CallState
    BY EndedTyped
  <2> QED BY <2>1, PutTyped, Zenon
<1>2. DiskTyped'
  BY Bounds DEF DiskTyped, Directory, Meta, Commit, WorldTyped, CallsTyped, CallState
<1>3. WorldTyped'
  BY Bounds DEF WorldTyped, Commit
<1>4. LockFits'
  BY Bounds DEF LockFits, CallsTyped, CallState, Locked, Calling
<1>5. SlotKept'
  BY Bounds DEF SlotKept, SlotRight, Changing, LockFits, Locked, CallsTyped,
                CallState, DiskTyped, WorldTyped, Directory, Meta, Commit
<1>6. Staged'
  BY Bounds DEF Staged, Publishing, LockFits, Locked, CallsTyped, CallState, WorldTyped
<1>7. Current'
  BY Bounds DEF Current, CurrentFor, LockFits, Locked, CallsTyped,
                CallState, DiskTyped, WorldTyped, Directory, Commit
<1> QED BY <1>1, <1>2, <1>3, <1>4, <1>5, <1>6, <1>7

LEMMA KillKeeps ==
  ASSUME NEW r \in Run, CacheInv, Kill(r)
  PROVE  CacheInv'
<1> USE DEF CacheInv, Typed, Kill, Holds, Ends, NoCall, At, Disk, World
<1>1. CallsTyped'
  <2>1. [NoCall EXCEPT !.pc = "killed"] \in CallState
    BY EndedTyped
  <2> QED BY <2>1, PutTyped, Zenon
<1>2. DiskTyped'
  BY Bounds DEF DiskTyped, Directory, Meta, Commit, WorldTyped, CallsTyped, CallState
<1>3. WorldTyped'
  BY Bounds DEF WorldTyped, Commit
<1>4. LockFits'
  BY Bounds DEF LockFits, CallsTyped, CallState, Locked, Calling
<1>5. SlotKept'
  BY Bounds DEF SlotKept, SlotRight, Changing, LockFits, Locked, CallsTyped,
                CallState, DiskTyped, WorldTyped, Directory, Meta, Commit
<1>6. Staged'
  BY Bounds DEF Staged, Publishing, LockFits, Locked, CallsTyped, CallState, WorldTyped
<1>7. Current'
  BY Bounds DEF Current, CurrentFor, LockFits, Locked, CallsTyped,
                CallState, DiskTyped, WorldTyped, Directory, Commit
<1> QED BY <1>1, <1>2, <1>3, <1>4, <1>5, <1>6, <1>7

-----------------------------------------------------------------------------
LEMMA PushKeeps ==
  ASSUME CacheInv, Push
  PROVE  CacheInv'
<1> USE DEF CacheInv, Typed, Push, Disk, World
<1>1. CallsTyped'
  BY Bounds DEF CallsTyped, CallState, WorldTyped, DiskTyped, Directory,
                Meta, Commit, Calling, Locked
<1>2. DiskTyped'
  BY Bounds DEF DiskTyped, Directory, Meta, Commit, WorldTyped, CallsTyped, CallState
<1>3. WorldTyped'
  BY Bounds DEF WorldTyped, Commit
<1>4. LockFits'
  BY Bounds DEF LockFits, CallsTyped, CallState, Locked, Calling
<1>5. SlotKept'
  BY Bounds DEF SlotKept, SlotRight, Changing, LockFits, Locked, CallsTyped,
                CallState, DiskTyped, WorldTyped, Directory, Meta, Commit
<1>6. Staged'
  BY Bounds DEF Staged, Publishing, LockFits, Locked, CallsTyped, CallState, WorldTyped
<1>7. Current'
  BY Bounds DEF Current, CurrentFor, LockFits, Locked, CallsTyped,
                CallState, DiskTyped, WorldTyped, Directory, Commit
<1> QED BY <1>1, <1>2, <1>3, <1>4, <1>5, <1>6, <1>7

LEMMA EditKeeps ==
  ASSUME CacheInv, Edit
  PROVE  CacheInv'
<1> USE DEF CacheInv, Typed, Edit, Exists, Disk, World
<1>1. CallsTyped'
  BY Bounds DEF CallsTyped, CallState, WorldTyped, DiskTyped, Directory,
                Meta, Commit, Calling, Locked
<1>2. DiskTyped'
  BY Bounds DEF DiskTyped, Directory, Meta, Commit, WorldTyped, CallsTyped, CallState
<1>3. WorldTyped'
  BY Bounds DEF WorldTyped, Commit
<1>4. LockFits'
  BY Bounds DEF LockFits, CallsTyped, CallState, Locked, Calling
<1>5. SlotKept'
  BY Bounds DEF SlotKept, SlotRight, Changing, LockFits, Locked, CallsTyped,
                CallState, DiskTyped, WorldTyped, Directory, Meta, Commit
<1>6. Staged'
  BY Bounds DEF Staged, Publishing, LockFits, Locked, CallsTyped, CallState, WorldTyped
<1>7. Current'
  BY Bounds DEF Current, CurrentFor, LockFits, Locked, CallsTyped,
                CallState, DiskTyped, WorldTyped, Directory, Commit
<1> QED BY <1>1, <1>2, <1>3, <1>4, <1>5, <1>6, <1>7

LEMMA TickKeeps ==
  ASSUME CacheInv, Tick
  PROVE  CacheInv'
<1> USE DEF CacheInv, Typed, Tick, Disk, World
<1>1. CallsTyped'
  BY Bounds DEF CallsTyped, CallState, WorldTyped, DiskTyped, Directory,
                Meta, Commit, Calling, Locked
<1>2. DiskTyped'
  BY Bounds DEF DiskTyped, Directory, Meta, Commit, WorldTyped, CallsTyped, CallState
<1>3. WorldTyped'
  BY Bounds DEF WorldTyped, Commit
<1>4. LockFits'
  BY Bounds DEF LockFits, CallsTyped, CallState, Locked, Calling
<1>5. SlotKept'
  BY Bounds DEF SlotKept, SlotRight, Changing, LockFits, Locked, CallsTyped,
                CallState, DiskTyped, WorldTyped, Directory, Meta, Commit
<1>6. Staged'
  BY Bounds DEF Staged, Publishing, LockFits, Locked, CallsTyped, CallState, WorldTyped
<1>7. Current'
  BY Bounds DEF Current, CurrentFor, LockFits, Locked, CallsTyped,
                CallState, DiskTyped, WorldTyped, Directory, Commit
<1> QED BY <1>1, <1>2, <1>3, <1>4, <1>5, <1>6, <1>7

-----------------------------------------------------------------------------
LEMMA InitiallyKept == Init => CacheInv
<1> SUFFICES ASSUME Init PROVE CacheInv
  OBVIOUS
<1>1. NoCall \in CallState
  BY Bounds DEF NoCall, CallState
<1>2. run = [r \in Run |-> NoCall] /\ NoCall.pc = "idle" /\ NoCall.since = 0
  BY DEF Init, NoCall
<1>3. CallsTyped
  BY <1>1, <1>2, Zenon DEF CallsTyped
<1>4. DiskTyped /\ WorldTyped
  BY Bounds, NothingTyped DEF Init, DiskTyped, WorldTyped, Commit
<1>5. LockFits
  BY <1>2, Bounds DEF Init, LockFits, Locked
<1>6. SlotKept /\ Staged
  BY <1>2 DEF Init, SlotKept, SlotRight, NoDirectory, Staged
<1>7. Current
  <2>1. \A r \in Run : run[r].pc = "idle" /\ run[r].since = 0
    BY <1>2
  <2>2. tip = 1
    BY DEF Init
  <2>3. \A r \in Run : CurrentFor(r)
    <3> SUFFICES ASSUME NEW r \in Run PROVE CurrentFor(r)
      OBVIOUS
    <3>1. run[r].pc = "idle" /\ run[r].since = 0
      BY <2>1
    <3>2. run[r].since <= tip
      BY <2>2, <3>1
    <3> QED BY <3>1, <3>2 DEF CurrentFor
  <2> QED BY <2>3 DEF Current
<1> QED BY <1>3, <1>4, <1>5, <1>6, <1>7 DEF CacheInv, Typed

LEMMA StepKeeps == CacheInv /\ [Next]_vars => CacheInv'
<1> SUFFICES ASSUME CacheInv, [Next]_vars PROVE CacheInv'
  OBVIOUS
<1>1. ASSUME NEW r \in Run, Step(r) PROVE CacheInv'
  BY <1>1, LookKeeps, LockForHitKeeps, LockForCloneKeeps, RefreshCheckoutKeeps, CloneKeeps,
     InstallKeeps, PublishKeeps, RemoveKeeps, RenameKeeps, TruncateKeeps, WriteKeeps, Zenon
     DEF Step
<1>2. ASSUME NEW r \in Run, WriteFails(r) \/ Finish(r) \/ Kill(r) \/ \E f \in BOOLEAN : Call(r, f)
      PROVE  CacheInv'
  BY <1>2, WriteFailsKeeps, FinishKeeps, KillKeeps, CallKeeps, Zenon
<1>3. CASE Push \/ Edit \/ Tick
  BY <1>3, PushKeeps, EditKeeps, TickKeeps, Zenon
<1>4. CASE UNCHANGED vars
  BY <1>4 DEF vars, CacheInv, LockFits, Typed, CallsTyped, DiskTyped,
              WorldTyped, SlotKept, SlotRight,
              Staged, Current, CurrentFor
<1> QED BY <1>1, <1>2, <1>3, <1>4, Zenon DEF Next

(* The inductive invariant: what the run with the lock has established, for *)
(* any number of runs, calls, commits, moments, kills and failed writes.   *)
THEOREM CacheInvHolds == Spec => []CacheInv
BY InitiallyKept, StepKeeps, PTL DEF Spec

(* The state of the slot, the lock and the calls is well typed, and the    *)
(* lock is held exactly between the two ends of a locked block.            *)
THEOREM CacheTypesHold == Spec => []TypeOK
<1>1. CacheInv => TypeOK
  BY TypeParts DEF CacheInv
<1> QED BY <1>1, CacheInvHolds, PTL

(* What the next run would be served is whole and its install command      *)
(* succeeded (_cache_usable trusts the sidecar alone), whatever failed,    *)
(* unless a process was killed or a sidecar not written.                   *)
THEOREM PreparedIsCached == Spec => []CachedIsPrepared
<1>1. CacheInv => CachedIsPrepared
  <2> SUFFICES ASSUME CacheInv, lock = Free, faults = 0
               PROVE  /\ Usable => slot.whole /\ slot.prepared
                      /\ slot.git => meta.head = slot.head
    BY DEF CachedIsPrepared
  <2>1. \A r \in Run : run[r].pc \notin Changing
    BY Bounds DEF CacheInv, LockFits, Locked, Changing
  <2> QED BY <2>1 DEF CacheInv, SlotKept, SlotRight, Usable
<1> QED BY <1>1, CacheInvHolds, PTL

(* Only a kill leaves a staging directory: the except branch removes it.   *)
THEOREM StagingIsRemoved == Spec => []StagingRemoved
<1>1. CacheInv => StagingRemoved
  BY DEF CacheInv, StagingRemoved, Staged, Publishing, LockFits, Locked, Holds,
         Typed, WorldTyped
<1> QED BY <1>1, CacheInvHolds, PTL

(* A call is served a checkout no older than the branch was when it began, *)
(* however many runs it waited for (a re-run instruments current code).    *)
THEOREM ServedIsCurrent == Spec => ServedCurrent
<1> DEFINE Served ==
      \A r \in Run : (At(r, "using"))' /\ ~At(r, "using") /\ run'[r].by \in {"clone", "refresh"}
                      => run'[r].head >= run[r].since
<1>1. CacheInv /\ [Next]_vars => [Served]_vars
  <2> SUFFICES ASSUME CacheInv, Next,
                      NEW r \in Run, run'[r].pc = "using", run[r].pc # "using",
                      run'[r].by \in {"clone", "refresh"}
               PROVE  run'[r].head >= run[r].since
    BY DEF At
  <2> USE DEF CacheInv, Typed
  <2>1. ASSUME NEW q \in Run, Look(q) PROVE FALSE
    BY <2>1 DEF Look, At, Goes, CallsTyped, CallState
  <2>2. ASSUME NEW q \in Run, LockForHit(q) PROVE FALSE
    BY <2>2 DEF LockForHit, Goes, CallsTyped, CallState
  <2>3. ASSUME NEW q \in Run, LockForClone(q) PROVE FALSE
    BY <2>3 DEF LockForClone, Found, Goes, CallsTyped, CallState
  <2>4. ASSUME NEW q \in Run, RefreshCheckout(q) PROVE FALSE
    BY <2>4 DEF RefreshCheckout, Refresh, Returns, CallsTyped, CallState
  <2>5. ASSUME NEW q \in Run, Clone(q) PROVE FALSE
    BY <2>5 DEF Clone, Fails, Ends, NoCall, CallsTyped, CallState
  <2>6. ASSUME NEW q \in Run, Install(q) PROVE FALSE
    BY <2>6 DEF Install, Fails, Ends, NoCall, CallsTyped, CallState
  <2>7. ASSUME NEW q \in Run, Publish(q) PROVE FALSE
    BY <2>7 DEF Publish, Goes, CallsTyped, CallState
  <2>8. ASSUME NEW q \in Run, Remove(q) PROVE FALSE
    BY <2>8 DEF Remove, Goes, CallsTyped, CallState
  <2>9. ASSUME NEW q \in Run, Rename(q) PROVE FALSE
    BY <2>9 DEF Rename, Fails, Ends, NoCall, CallsTyped, CallState
  <2>10. ASSUME NEW q \in Run, Truncate(q) PROVE FALSE
    BY <2>10 DEF Truncate, Goes, CallsTyped, CallState
  <2>11. ASSUME NEW q \in Run, Write(q) \/ WriteFails(q)
        PROVE  run'[r].head >= run[r].since
    <3>1. q = r /\ run'[r].head = slot.head /\ run'[r].since = run[r].since
          /\ run[r].pc \in {"truncating", "writing"}
      BY <2>11 DEF Write, WriteFails, Returns, At, CallsTyped, CallState
    <3> QED BY <3>1 DEF Current, CurrentFor
  <2>12. ASSUME NEW q \in Run, Finish(q) \/ Kill(q) \/ \E f \in BOOLEAN : Call(q, f) PROVE FALSE
    <3>1. CASE Finish(q) \/ Kill(q)
      <4>1. PICK pc \in {"idle", "killed"} : run' = [run EXCEPT ![q] = [NoCall EXCEPT !.pc = pc]]
        BY <3>1 DEF Finish, Kill, Ends
      <4>2. [NoCall EXCEPT !.pc = pc].pc = pc
        BY DEF NoCall
      <4> QED BY <4>1, <4>2 DEF CallsTyped
    <3>2. ASSUME NEW f \in BOOLEAN, Call(q, f) PROVE FALSE
      <4>1. PICK pc \in {"looking", "waiting_clone"} :
              run' = [run EXCEPT ![q] = [NoCall EXCEPT !.pc = pc, !.fresh = f, !.since = tip]]
        BY <3>2 DEF Call
      <4>2. [NoCall EXCEPT !.pc = pc, !.fresh = f, !.since = tip].pc = pc
        BY DEF NoCall
      <4> QED BY <4>1, <4>2 DEF CallsTyped
    <3> QED BY <2>12, <3>1, <3>2
  <2>13. CASE Push \/ Edit \/ Tick
    BY <2>13 DEF Push, Edit, Tick
  <2> QED BY <2>1, <2>2, <2>3, <2>4, <2>5, <2>6, <2>7, <2>8, <2>9, <2>10, <2>11,
        <2>12, <2>13, Zenon DEF Next, Step
<1> QED BY <1>1, CacheInvHolds, PTL DEF Spec, ServedCurrent
=============================================================================
