---------------------------- MODULE SegmentStore ----------------------------
(***************************************************************************)
(* hls/segment_store.go: the replay tier on disk.  Saves run under the     *)
(* store's mutex but consist of several file operations, between which a   *)
(* reader looks at the files (Load takes no lock), the signal handler      *)
(* empties the directory (it takes storeMu, not the store's mutex), or the *)
(* process dies; whatever is on disk then is found by the next one.        *)
(*                                                                         *)
(* A manifest has a directory (sanitizeManifestID) and a segment a file in *)
(* it; the directory level made of the first two digits of the hash is     *)
(* left out.  Load changes nothing and has no action: what it can return   *)
(* is what `files' holds.  Any operation on the file system may fail.      *)
(***************************************************************************)
EXTENDS Integers, FiniteSets, Functions

CONSTANTS
  Writers,      \* goroutines that save segments
  ManifestIDs,
  Keys,         \* segment URLs
  Dirs,         \* directory names
  DirOf,        \* sanitizeManifestID
  Limit,        \* SegmentCount: most files kept for a manifest, 0 or less for no limit
  MaxTime,      \* bound: the clock of the file system stops here
  Nobody,       \* no goroutine
  Janitor       \* the goroutine that purges manifests

ASSUME StoreAssumption ==
  /\ DirOf \in [ManifestIDs -> Dirs]
  /\ Limit \in Int
  /\ MaxTime \in Nat
  /\ Nobody \notin Writers /\ Janitor \notin Writers /\ Nobody # Janitor

VARIABLES
  dirs,     \* the manifest directories that exist
  files,    \* the .seg files: path -> [whole, modTime]
  temps,    \* the .tmp files, likewise, under the path they are to get
  mu,       \* who holds s.mu
  pc,       \* where each writer's Save is
  path,     \* the path it saves to
  victims,  \* the files enforceLimitLocked still has to remove
  skipped,  \* those it could not remove; the code logs them (used in a property only)
  purging,  \* the directory the janitor is to remove, or has begun to, if any
  process,  \* up, cleaning or cleaned by the signal handler, or down
  enabled,  \* storeEnabled
  pending,  \* the directories RemoveAll(baseDir) has still to empty
  clock     \* the time a file written now gets; files may share a time

disk == <<dirs, files, temps>>
trimming == <<victims, skipped>>
saving == <<mu, pc, path, trimming>>
shutdown == <<process, enabled, pending>>
others == <<purging, shutdown, clock>>
vars == <<disk, saving, others>>

Paths == Dirs \X Keys
File == [whole : BOOLEAN, modTime : 0 .. MaxTime]

(* The files of f in directory d. *)
In(f, d) == {p \in DOMAIN f : p[1] = d}

Plus(f, p, file) == [x \in DOMAIN f \cup {p} |-> IF x = p THEN file ELSE f[x]]
Minus(f, S) == Restrict(f, DOMAIN f \ S)

(* Values of their kinds; a writer between its Lock and its Unlock, and no *)
(* other, holds the mutex, unless the janitor has a directory to remove.   *)
TypeOK ==
  /\ dirs \subseteq Dirs
  /\ DOMAIN files \subseteq Paths /\ files \in [DOMAIN files -> File]
  /\ DOMAIN temps \subseteq Paths /\ temps \in [DOMAIN temps -> File]
  /\ pc \in [Writers -> {"idle", "wait", "mkdir", "create", "write", "rename", "walk", "trim"}]
  /\ path \in [Writers -> Paths]
  /\ mu \in Writers \cup {Nobody, Janitor}
  /\ \A w \in Writers : mu = w <=> pc[w] \notin {"idle", "wait"}
  /\ mu = Janitor => purging # {}
  /\ victims \subseteq Paths /\ skipped \subseteq Paths
  /\ purging \subseteq Dirs
  /\ process \in {"up", "cleaning", "cleaned", "down"}
  /\ enabled \in BOOLEAN
  /\ pending \subseteq Dirs
  /\ clock \in 0 .. MaxTime

NoFiles == [p \in {} |-> [whole |-> TRUE, modTime |-> 0]]

Init ==
  /\ dirs = {} /\ files = NoFiles /\ temps = NoFiles
  /\ mu = Nobody
  /\ pc = [w \in Writers |-> "idle"]
  /\ path \in {[w \in Writers |-> p] : p \in Paths}
  /\ victims = {} /\ skipped = {}
  /\ purging = {}
  /\ process = "up" /\ enabled = TRUE /\ pending = {}
  /\ clock = 0

-----------------------------------------------------------------------------
Goto(w, place) == pc' = [pc EXCEPT ![w] = place]

(* Save returns, with or without an error: the deferred Unlock. *)
Return(w) ==
  /\ mu' = Nobody
  /\ Goto(w, "idle")
  /\ victims' = {} /\ skipped' = {}
  /\ UNCHANGED path

(* SaveSegment gets hold of the store; storeMu is not to be had during a   *)
(* clean-up, and the store is off after a successful one.                  *)
Start(w, m, k) ==
  /\ pc[w] = "idle"
  /\ process \in {"up", "cleaned"}
  /\ enabled
  /\ path' = [path EXCEPT ![w] = <<DirOf[m], k>>]
  /\ Goto(w, "wait")
  /\ UNCHANGED <<disk, mu, trimming, others>>

(* A mutant: Save without the mutex. *)
LockAlways(w) ==
  /\ pc[w] = "wait"
  /\ mu' = w
  /\ Goto(w, "mkdir")
  /\ UNCHANGED <<disk, path, trimming, others>>

Lock(w) ==
  /\ pc[w] = "wait"
  /\ mu = Nobody
  /\ mu' = w
  /\ Goto(w, "mkdir")
  /\ UNCHANGED <<disk, path, trimming, others>>

MakeDir(w) ==
  /\ pc[w] = "mkdir"
  /\ dirs' = dirs \cup {path[w][1]}
  /\ Goto(w, "create")
  /\ UNCHANGED <<files, temps, mu, path, trimming, others>>

(* WriteFile opens the temp file, which may be there from an earlier       *)
(* process, and truncates it ...                                           *)
CreateTemp(w) ==
  /\ pc[w] = "create"
  /\ path[w][1] \in dirs
  /\ temps' = Plus(temps, path[w], [whole |-> FALSE, modTime |-> clock])
  /\ Goto(w, "write")
  /\ UNCHANGED <<dirs, files, mu, path, trimming, others>>

(* ... and fills it, unless it has been unlinked meanwhile. *)
WriteTemp(w) ==
  /\ pc[w] = "write"
  /\ temps' = IF path[w] \in DOMAIN temps
              THEN [temps EXCEPT ![path[w]] = [whole |-> TRUE, modTime |-> clock]]
              ELSE temps
  /\ Goto(w, "rename")
  /\ UNCHANGED <<dirs, files, mu, path, trimming, others>>

(* A mutant: a failed Save leaves without its Unlock. *)
FailLocked(w) ==
  /\ pc[w] \in {"mkdir", "create", "write"}
  /\ Goto(w, "idle")
  /\ UNCHANGED <<disk, mu, path, trimming, others>>

(* MkdirAll or WriteFile fails, for instance on a full disk or because the *)
(* directory is gone; what WriteFile has written stays.                    *)
Fail(w) ==
  /\ pc[w] \in {"mkdir", "create", "write"}
  /\ Return(w)
  /\ UNCHANGED <<disk, others>>

Rename(w) ==
  /\ pc[w] = "rename"
  /\ path[w] \in DOMAIN temps
  /\ files' = Plus(files, path[w], temps[path[w]])
  /\ temps' = Minus(temps, {path[w]})
  /\ Goto(w, "walk")
  /\ UNCHANGED <<dirs, mu, path, trimming, others>>

(* Rename fails, as it must when the temp file is gone; removing that may  *)
(* fail, too.                                                              *)
RenameFails(w) ==
  /\ pc[w] = "rename"
  /\ temps' \in {temps, Minus(temps, {path[w]})}
  /\ Return(w)
  /\ UNCHANGED <<dirs, files, others>>

-----------------------------------------------------------------------------
(* A mutant of Excess: it counts from one file too few. *)
ExcessOneLess(d) ==
  LET n == Cardinality(In(files, d)) - 1 IN IF Limit > 0 /\ n > Limit THEN n - Limit ELSE 0

(* enforceLimitLocked: how many files of directory d are too many, ...     *)
Excess(d) ==
  LET n == Cardinality(In(files, d)) IN IF Limit > 0 /\ n > Limit THEN n - Limit ELSE 0

(* A mutant of Oldest: the comparison of the sort is the wrong way round. *)
NewestFirst(d, S) ==
  /\ Cardinality(S) = Excess(d)
  /\ \A p \in S, q \in In(files, d) \ S : files[p].modTime >= files[q].modTime

(* ... and which may be chosen: the oldest, sort.Slice deciding as it likes *)
(* among files of the same time.                                           *)
Oldest(d, S) ==
  /\ Cardinality(S) = Excess(d)
  /\ \A p \in S, q \in In(files, d) \ S : files[p].modTime <= files[q].modTime

Walk(w) ==
  /\ pc[w] = "walk"
  /\ \E S \in SUBSET In(files, path[w][1]) : Oldest(path[w][1], S) /\ victims' = S
  /\ skipped' = {}
  /\ Goto(w, "trim")
  /\ UNCHANGED <<disk, mu, path, others>>

(* Stat or Walk fails, or the clean-up has taken the directory: there is   *)
(* no trim, and the Save succeeds.                                         *)
WalkFails(w) ==
  /\ pc[w] = "walk"
  /\ Return(w)
  /\ UNCHANGED <<disk, others>>

(* The chosen files are removed in the order of the sort; one that cannot  *)
(* be removed is skipped.                                                  *)
Trim(w) ==
  /\ pc[w] = "trim"
  /\ \E p \in victims :
       /\ \A q \in victims :
            {p, q} \subseteq DOMAIN files => files[p].modTime <= files[q].modTime
       /\ victims' = victims \ {p}
       /\ \/ files' = Minus(files, {p}) /\ UNCHANGED skipped
          \/ p \in DOMAIN files /\ skipped' = skipped \cup {p} /\ UNCHANGED files
  /\ UNCHANGED <<dirs, temps, mu, pc, path, others>>

Saved(w) ==
  /\ pc[w] = "trim"
  /\ victims = {}
  /\ Return(w)
  /\ UNCHANGED <<disk, others>>

Step(w) ==
  \/ Lock(w) \/ MakeDir(w) \/ CreateTemp(w) \/ WriteTemp(w) \/ Fail(w)
  \/ Rename(w) \/ RenameFails(w) \/ Walk(w) \/ WalkFails(w) \/ Trim(w) \/ Saved(w)

-----------------------------------------------------------------------------
(* os.RemoveAll takes the files of a directory one by one, in any order,   *)
(* ...                                                                     *)
RemoveFile(D) ==
  /\ \/ /\ \E p \in DOMAIN files : p[1] \in D /\ files' = Minus(files, {p})
        /\ UNCHANGED temps
     \/ /\ \E p \in DOMAIN temps : p[1] \in D /\ temps' = Minus(temps, {p})
        /\ UNCHANGED files
  /\ UNCHANGED dirs

(* ... and then the directory, if it is empty; it goes on after an error,  *)
(* which leaves a file and therefore the directory.                        *)
LeaveDir(d) ==
  /\ \/ UNCHANGED dirs
     \/ In(files, d) = {} /\ In(temps, d) = {} /\ dirs' = dirs \ {d}
  /\ UNCHANGED <<files, temps>>

(* RemoveManifestSegments looks the store up, ...                          *)
RemoveManifest(m) ==
  /\ process \in {"up", "cleaned"}
  /\ enabled
  /\ purging = {}
  /\ purging' = {DirOf[m]}
  /\ UNCHANGED <<disk, saving, shutdown, clock>>

(* ... and Remove holds the mutex throughout, while Load goes on reading.  *)
PurgeLock ==
  /\ purging # {}
  /\ mu = Nobody
  /\ mu' = Janitor
  /\ UNCHANGED <<disk, pc, path, trimming, others>>

PurgeFile ==
  /\ mu = Janitor
  /\ RemoveFile(purging)
  /\ UNCHANGED <<saving, others>>

PurgeDone ==
  /\ mu = Janitor
  /\ \A d \in purging : LeaveDir(d)
  /\ mu' = Nobody
  /\ purging' = {}
  /\ UNCHANGED <<pc, path, trimming, shutdown, clock>>

Purge == PurgeFile \/ PurgeDone

(* SIGINT or SIGTERM: CleanupSegmentStore begins RemoveAll(baseDir), ...   *)
Signal ==
  /\ process = "up"
  /\ process' = "cleaning"
  /\ pending' = dirs
  /\ UNCHANGED <<disk, saving, purging, enabled, clock>>

CleanFile ==
  /\ process = "cleaning"
  /\ RemoveFile(pending)
  /\ UNCHANGED <<saving, others>>

CleanDir ==
  /\ process = "cleaning"
  /\ \E d \in pending : LeaveDir(d) /\ pending' = pending \ {d}
  /\ UNCHANGED <<saving, purging, process, enabled, clock>>

(* ... which fails when something is left there, or has been put there     *)
(* meanwhile, or for a reason of its own; then the store stays on.         *)
CleanDone ==
  /\ process = "cleaning"
  /\ pending = {}
  /\ process' = "cleaned"
  /\ enabled' = TRUE \/ (dirs = {} /\ enabled' = FALSE)
  /\ UNCHANGED <<disk, saving, purging, pending, clock>>

(* The process ends: the signal handler kills it when it has cleaned up,   *)
(* and it may crash at any time.                                           *)
Exit ==
  /\ process # "down"
  /\ process' = "down"
  /\ enabled' = FALSE
  /\ pending' = {}
  /\ purging' = {}
  /\ mu' = Nobody
  /\ pc' = [w \in Writers |-> "idle"]
  /\ victims' = {} /\ skipped' = {}
  /\ UNCHANGED <<disk, path, clock>>

(* ConfigureSegmentStore in the next process, over the same directory. *)
Restart ==
  /\ process = "down"
  /\ process' = "up"
  /\ enabled' = TRUE
  /\ UNCHANGED <<disk, saving, purging, pending, clock>>

Tick ==
  /\ clock < MaxTime
  /\ clock' = clock + 1
  /\ UNCHANGED <<disk, saving, purging, shutdown>>

Next ==
  \/ \E w \in Writers : Step(w) \/ \E m \in ManifestIDs, k \in Keys : Start(w, m, k)
  \/ \E m \in ManifestIDs : RemoveManifest(m)
  \/ PurgeLock \/ Purge
  \/ Signal \/ CleanFile \/ CleanDir \/ CleanDone \/ Exit \/ Restart
  \/ Tick

Spec == Init /\ [][Next]_vars

(* File operations end, and sync.Mutex hands the lock to a waiter that has *)
(* waited long enough.                                                     *)
FairSpec ==
  /\ Spec
  /\ \A w \in Writers : WF_vars(Step(w)) /\ SF_vars(Lock(w))
  /\ WF_vars(Purge)

-----------------------------------------------------------------------------
(* Load, which takes no lock, never gets part of a body: whatever a crash, *)
(* a failing disk or a second Save of the same segment leaves behind, a    *)
(* .seg file is whole.                                                     *)
NoTornSegment == \A p \in DOMAIN files : files[p].whole

(* "with per-manifest limits" (README.md): when a Save that could list the *)
(* directory is through with its trim, there are no more segments than the *)
(* limit and those it has tried to remove and could not, however many      *)
(* there were when the process started or were skipped by earlier trims.   *)
TrimmedAfterSave ==
  [][\A w \in Writers :
       pc[w] = "trim" /\ pc'[w] = "idle" /\ process' # "down" /\ Limit > 0
         => Cardinality(In(files, path[w][1]) \ skipped) <= Limit]_vars

(* The times of the segments that a Load can see, and the directories that *)
(* are being removed.                                                      *)
Loadable == [p \in DOMAIN files |-> files[p].modTime]

Doomed ==
  IF process \in {"cleaning", "cleaned"} THEN Dirs
  ELSE IF mu = Janitor THEN purging ELSE {}

(* Over failures, crashes and restarts the files that a Load can see are   *)
(* what the abstract tier holds: nothing is lost but to the limit, which   *)
(* spares the newest, or while its directory is being removed.             *)
Tier == INSTANCE FileTier WITH saved <- Loadable, doomed <- Doomed, Times <- 0 .. MaxTime

ImplementsFileTier == Tier!Spec

(* A Save ends, also when another one before it failed, or a purge did. *)
SaveEnds == \A w \in Writers : pc[w] = "wait" ~> pc[w] = "idle"

(* "signal-based cleanup to prevent stale artifacts" (README.md): when the *)
(* process ends after a clean-up that has succeeded, it leaves no file.    *)
ShutdownLeavesNothing ==
  [][process = "cleaned" /\ ~enabled /\ process' = "down"
       => DOMAIN files = {} /\ DOMAIN temps = {}]_vars
=============================================================================
