------------------------- MODULE SegmentStoreProofs -------------------------
(***************************************************************************)
(* Theorems of SegmentStore, for any number of writers, any manifests,     *)
(* directories (shared by manifests or not), segments and limit.           *)
(***************************************************************************)
EXTENDS SegmentStore, FiniteSetTheorems, TLAPS

(* What a writer is about to rename, if it is still there, it has written  *)
(* to the end: nobody else truncates it meanwhile.                         *)
WholeWhenRenamed ==
  \A w \in Writers : pc[w] = "rename" /\ path[w] \in DOMAIN temps => temps[path[w]].whole

(* What a trim has left to remove, and what it has skipped, is enough. *)
TrimPlanned ==
  \A w \in Writers : pc[w] = "trim" /\ Limit > 0 =>
    Cardinality(In(files, path[w][1]) \ (victims \cup skipped)) <= Limit

SInv == TypeOK /\ NoTornSegment /\ WholeWhenRenamed /\ IsFiniteSet(DOMAIN files) /\ TrimPlanned

-----------------------------------------------------------------------------
(* What adding and removing files does to a part of the disk. *)
LEMMA PlusProperties ==
  ASSUME NEW f, DOMAIN f \subseteq Paths, f \in [DOMAIN f -> File], NEW p \in Paths, NEW file \in File
  PROVE  /\ DOMAIN Plus(f, p, file) = DOMAIN f \cup {p}
         /\ DOMAIN Plus(f, p, file) \subseteq Paths
         /\ Plus(f, p, file) \in [DOMAIN Plus(f, p, file) -> File]
         /\ Plus(f, p, file)[p] = file
         /\ \A x \in DOMAIN f : x # p => Plus(f, p, file)[x] = f[x]
  BY DEF Plus

(* The same of removing. *)
LEMMA MinusProperties ==
  ASSUME NEW f, DOMAIN f \subseteq Paths, f \in [DOMAIN f -> File], NEW S
  PROVE  /\ DOMAIN Minus(f, S) = DOMAIN f \ S
         /\ DOMAIN Minus(f, S) \subseteq Paths
         /\ Minus(f, S) \in [DOMAIN Minus(f, S) -> File]
         /\ \A x \in DOMAIN f \ S : Minus(f, S)[x] = f[x]
  BY DEF Minus, Restrict

(* Fewer files of a directory are no more than the limit when more are not. *)
LEMMA FewerFiles ==
  ASSUME IsFiniteSet(DOMAIN files), NEW d, NEW V, NEW T,
         Cardinality(In(files, d) \ V) <= Limit, T \subseteq In(files, d) \ V
  PROVE  Cardinality(T) <= Limit
<1>1. IsFiniteSet(In(files, d) \ V)
  BY FS_Subset DEF In
<1>2. Cardinality(T) <= Cardinality(In(files, d) \ V) /\ IsFiniteSet(T)
  BY <1>1, FS_Subset
<1>3. Cardinality(T) \in Nat /\ Cardinality(In(files, d) \ V) \in Nat
  BY <1>1, <1>2, FS_CardinalityType
<1> QED
  BY <1>2, <1>3, StoreAssumption

(* The files a walk chooses are enough. *)
LEMMA WalkChooses ==
  ASSUME IsFiniteSet(DOMAIN files), NEW d, NEW S \in SUBSET In(files, d), Oldest(d, S), Limit > 0
  PROVE  Cardinality(In(files, d) \ S) <= Limit
<1>1. IsFiniteSet(In(files, d)) /\ IsFiniteSet(S)
  BY FS_Subset DEF In
<1>2. Cardinality(In(files, d) \ S) = Cardinality(In(files, d)) - Cardinality(S)
  <2>1. In(files, d) \cap S = S
    OBVIOUS
  <2> QED
    BY <1>1, <2>1, FS_Difference
<1>3. Cardinality(In(files, d)) \in Nat
  BY <1>1, FS_CardinalityType
<1>4. Cardinality(S) = Excess(d)
  BY DEF Oldest
<1> QED
  BY <1>2, <1>3, <1>4, StoreAssumption DEF Excess

-----------------------------------------------------------------------------
(* Steps that leave the disk and the savers alone. *)
LEMMA ShutdownSteps ==
  ASSUME SInv,
         \/ Signal \/ CleanDone \/ Restart \/ Tick \/ UNCHANGED vars
         \/ \E m \in ManifestIDs : RemoveManifest(m)
  PROVE  SInv'
<1>1. UNCHANGED <<dirs, files, temps, mu, pc, path, victims, skipped>>
  BY DEF Signal, CleanDone, Restart, Tick, RemoveManifest, vars, disk, saving, trimming
<1>2. TypeOK'
  <2>1. /\ process' \in {"up", "cleaning", "cleaned", "down"} /\ enabled' \in BOOLEAN
        /\ pending' \subseteq Dirs
    BY DEF SInv, TypeOK, Signal, CleanDone, Restart, Tick, RemoveManifest, vars, shutdown, others
  <2>2. clock' \in 0 .. MaxTime
    BY StoreAssumption
       DEF SInv, TypeOK, Signal, CleanDone, Restart, Tick, RemoveManifest, vars, others
  <2>3. purging' = purging \/ (purging = {} /\ purging' \subseteq Dirs)
    BY StoreAssumption DEF Signal, CleanDone, Restart, Tick, RemoveManifest, vars, others
  <2> QED
    BY <1>1, <2>1, <2>2, <2>3 DEF SInv, TypeOK
<1>3. TrimPlanned'
  BY <1>1 DEF SInv, TrimPlanned, In
<1> QED
  BY <1>1, <1>2, <1>3 DEF SInv, NoTornSegment, WholeWhenRenamed

(* Steps of one writer that leave the files alone. *)
LEMMA WriterSteps ==
  ASSUME SInv, NEW w \in Writers,
         \/ \E m \in ManifestIDs, k \in Keys : Start(w, m, k)
         \/ Lock(w) \/ MakeDir(w) \/ Fail(w) \/ WalkFails(w) \/ Saved(w)
  PROVE  SInv'
<1>1. UNCHANGED <<files, temps, purging, process, enabled, pending, clock>>
  BY DEF Start, Lock, MakeDir, Fail, WalkFails, Saved, disk, others, shutdown
<1>2. TypeOK'
  <2>1. dirs' \subseteq Dirs
    BY DEF SInv, TypeOK, Start, Lock, MakeDir, Fail, WalkFails, Saved, disk, Paths
  <2>2. path' \in [Writers -> Paths]
    BY StoreAssumption
       DEF SInv, TypeOK, Start, Lock, MakeDir, Fail, WalkFails, Saved, Return, Paths
  <2>3. victims' \subseteq Paths /\ skipped' \subseteq Paths
    BY DEF SInv, TypeOK, Start, Lock, MakeDir, Fail, WalkFails, Saved, Return, trimming
  <2>4. /\ pc' \in [Writers -> {"idle", "wait", "mkdir", "create", "write", "rename", "walk", "trim"}]
        /\ mu' \in Writers \cup {Nobody, Janitor} /\ (mu' = Janitor => mu = Janitor)
    BY StoreAssumption
       DEF SInv, TypeOK, Start, Lock, MakeDir, Fail, WalkFails, Saved, Return, Goto
  <2>5. \A x \in Writers : mu' = x <=> pc'[x] \notin {"idle", "wait"}
    BY StoreAssumption
       DEF SInv, TypeOK, Start, Lock, MakeDir, Fail, WalkFails, Saved, Return, Goto
  <2> QED
    BY <1>1, <2>1, <2>2, <2>3, <2>4, <2>5 DEF SInv, TypeOK
<1>3. \A x \in Writers :
        pc'[x] \in {"rename", "trim"} =>
          /\ pc[x] = pc'[x] /\ path'[x] = path[x]
          /\ pc[x] = "trim" => victims' = victims /\ skipped' = skipped
  BY DEF SInv, TypeOK, Start, Lock, MakeDir, Fail, WalkFails, Saved, Return, Goto, trimming
<1>4. TrimPlanned'
  BY <1>1, <1>3 DEF SInv, TrimPlanned, In
<1>5. WholeWhenRenamed'
  BY <1>1, <1>3 DEF SInv, WholeWhenRenamed
<1> QED
  BY <1>1, <1>2, <1>4, <1>5 DEF SInv, NoTornSegment

(* The temp file is created, then filled: only the writer that holds the   *)
(* mutex does that.                                                        *)
LEMMA TempSteps ==
  ASSUME SInv, NEW w \in Writers, CreateTemp(w) \/ WriteTemp(w) \/ RenameFails(w)
  PROVE  SInv'
<1>1. UNCHANGED <<dirs, files, path, purging, process, enabled, pending, clock>>
  BY DEF CreateTemp, WriteTemp, RenameFails, Return, others, shutdown
<1>2. /\ DOMAIN temps \subseteq Paths /\ temps \in [DOMAIN temps -> File]
      /\ path \in [Writers -> Paths] /\ path[w] \in Paths /\ clock \in 0 .. MaxTime
  BY DEF SInv, TypeOK
<1>3. \A b \in BOOLEAN : [whole |-> b, modTime |-> clock] \in File
  BY <1>2 DEF File
<1>4. DOMAIN temps' \subseteq Paths /\ temps' \in [DOMAIN temps' -> File]
  <2>1. CASE CreateTemp(w)
    BY <1>2, <1>3, <2>1, PlusProperties DEF CreateTemp
  <2>2. CASE WriteTemp(w)
    BY <1>2, <1>3, <2>2 DEF WriteTemp
  <2>3. CASE RenameFails(w)
    <3>1. PICK S : temps' = Minus(temps, S) \/ temps' = temps
      BY <2>3 DEF RenameFails
    <3>2. CASE temps' = Minus(temps, S)
      BY <1>2, <3>2, MinusProperties
    <3> QED
      BY <1>2, <3>1, <3>2
  <2> QED
    BY <2>1, <2>2, <2>3
<1>5. TypeOK'
  <2>1. victims' \subseteq Paths /\ skipped' \subseteq Paths
    BY DEF SInv, TypeOK, CreateTemp, WriteTemp, RenameFails, Return, trimming
  <2>2. /\ pc' \in [Writers -> {"idle", "wait", "mkdir", "create", "write", "rename", "walk", "trim"}]
        /\ mu' \in Writers \cup {Nobody, Janitor} /\ (mu' = Janitor => mu = Janitor)
    BY StoreAssumption DEF SInv, TypeOK, CreateTemp, WriteTemp, RenameFails, Return, Goto
  <2>3. \A x \in Writers : mu' = x <=> pc'[x] \notin {"idle", "wait"}
    BY StoreAssumption DEF SInv, TypeOK, CreateTemp, WriteTemp, RenameFails, Return, Goto
  <2> QED
    BY <1>1, <1>4, <2>1, <2>2, <2>3 DEF SInv, TypeOK
<1>6. \A x \in Writers \ {w} : pc[x] \in {"idle", "wait"} /\ pc'[x] = pc[x]
  BY DEF SInv, TypeOK, CreateTemp, WriteTemp, RenameFails, Return, Goto
<1>7. pc'[w] \in {"write", "rename", "idle"}
  BY DEF SInv, TypeOK, CreateTemp, WriteTemp, RenameFails, Return, Goto
<1>8. pc'[w] = "rename" /\ path[w] \in DOMAIN temps' => temps'[path[w]].whole
  BY <1>2 DEF SInv, TypeOK, CreateTemp, WriteTemp, RenameFails, Return, Goto
<1>9. WholeWhenRenamed' /\ TrimPlanned'
  BY <1>1, <1>6, <1>7, <1>8 DEF WholeWhenRenamed, TrimPlanned
<1> QED
  BY <1>1, <1>5, <1>9 DEF SInv, NoTornSegment

(* The temp file becomes the segment's, which it replaces. *)
LEMMA RenameStep ==
  ASSUME SInv, NEW w \in Writers, Rename(w)
  PROVE  SInv'
<1>1. PICK p \in Paths : p = path[w]
  BY DEF SInv, TypeOK
<1>2. /\ pc[w] = "rename" /\ p \in DOMAIN temps /\ pc' = [pc EXCEPT ![w] = "walk"]
      /\ files' = Plus(files, p, temps[p]) /\ temps' = Minus(temps, {p})
      /\ UNCHANGED <<dirs, mu, path, victims, skipped, purging, process, enabled, pending, clock>>
  BY <1>1 DEF Rename, Goto, trimming, others, shutdown
<1>3. temps[p] \in File /\ temps[p].whole
  BY <1>1, <1>2 DEF SInv, TypeOK, WholeWhenRenamed
<1>4. /\ DOMAIN files' = DOMAIN files \cup {p} /\ DOMAIN files' \subseteq Paths
      /\ files' \in [DOMAIN files' -> File] /\ files'[p] = temps[p]
      /\ \A x \in DOMAIN files : x # p => files'[x] = files[x]
  <2>1. DOMAIN files \subseteq Paths /\ files \in [DOMAIN files -> File]
    BY DEF SInv, TypeOK
  <2> QED
    BY <1>2, <1>3, <2>1 DEF Plus
<1>5. DOMAIN temps' \subseteq Paths /\ temps' \in [DOMAIN temps' -> File]
  BY <1>2, MinusProperties DEF SInv, TypeOK
<1>6. TypeOK'
  <2>1. \A x \in Writers : mu' = x <=> pc'[x] \notin {"idle", "wait"}
    BY <1>2 DEF SInv, TypeOK
  <2>2. pc' \in [Writers -> {"idle", "wait", "mkdir", "create", "write", "rename", "walk", "trim"}]
    BY <1>2 DEF SInv, TypeOK
  <2> QED
    BY <1>2, <1>4, <1>5, <2>1, <2>2 DEF SInv, TypeOK
<1>7. \A x \in Writers : pc'[x] \notin {"rename", "trim"}
  BY <1>2 DEF SInv, TypeOK
<1>8. WholeWhenRenamed' /\ TrimPlanned'
  BY <1>7 DEF WholeWhenRenamed, TrimPlanned
<1>9. NoTornSegment'
  BY <1>3, <1>4 DEF SInv, NoTornSegment
<1>10. IsFiniteSet(DOMAIN files')
  BY <1>4, FS_AddElement DEF SInv
<1> QED
  BY <1>6, <1>8, <1>9, <1>10 DEF SInv

(* The oldest files are chosen ... *)
LEMMA WalkStep ==
  ASSUME SInv, NEW w \in Writers, Walk(w)
  PROVE  SInv'
<1>1. PICK d : d = path[w][1]
  OBVIOUS
<1>2. PICK S \in SUBSET In(files, d) : Oldest(d, S) /\ victims' = S
  BY <1>1 DEF Walk
<1>3. /\ pc[w] = "walk" /\ pc' = [pc EXCEPT ![w] = "trim"] /\ skipped' = {}
      /\ UNCHANGED <<dirs, files, temps, mu, path, purging, process, enabled, pending, clock>>
  BY DEF Walk, Goto, disk, others, shutdown
<1>4. TypeOK'
  <2>1. victims' \subseteq Paths
    BY <1>2 DEF SInv, TypeOK, In
  <2>2. \A x \in Writers : mu' = x <=> pc'[x] \notin {"idle", "wait"}
    BY <1>3 DEF SInv, TypeOK
  <2>3. pc' \in [Writers -> {"idle", "wait", "mkdir", "create", "write", "rename", "walk", "trim"}]
    BY <1>3 DEF SInv, TypeOK
  <2> QED
    BY <1>3, <2>1, <2>2, <2>3 DEF SInv, TypeOK
<1>5. \A x \in Writers : pc'[x] \in {"rename", "trim"} => x = w
  BY <1>3 DEF SInv, TypeOK
<1>6. TrimPlanned'
  <2>1. Limit > 0 => Cardinality(In(files, d) \ (victims' \cup skipped')) <= Limit
    <3>1. victims' \cup skipped' = victims'
      BY <1>3
    <3> QED
      BY <1>2, <3>1, WalkChooses DEF SInv
  <2> QED
    BY <1>1, <1>3, <1>5, <2>1 DEF TrimPlanned, In
<1>7. WholeWhenRenamed'
  BY <1>3, <1>5 DEF SInv, TypeOK, WholeWhenRenamed
<1> QED
  BY <1>3, <1>4, <1>6, <1>7 DEF SInv, NoTornSegment

-----------------------------------------------------------------------------
(* Files may go at any time: what is left is whole, and no more than was   *)
(* planned.                                                                *)
LEMMA FilesGo ==
  ASSUME SInv, NEW S, NEW T, files' = Minus(files, S), temps' = Minus(temps, T),
         UNCHANGED <<pc, path>>,
         (victims \cup skipped) \ S \subseteq victims' \cup skipped'
  PROVE  NoTornSegment' /\ WholeWhenRenamed' /\ IsFiniteSet(DOMAIN files') /\ TrimPlanned'
<1>1. /\ DOMAIN files \subseteq Paths /\ files \in [DOMAIN files -> File]
      /\ DOMAIN temps \subseteq Paths /\ temps \in [DOMAIN temps -> File]
  BY DEF SInv, TypeOK
<1>2. /\ DOMAIN files' = DOMAIN files \ S
      /\ \A x \in DOMAIN files \ S : files'[x] = files[x]
      /\ \A d : In(files', d) = In(files, d) \ S
  BY DEF Minus, Restrict, In
<1>3. /\ DOMAIN temps' = DOMAIN temps \ T
      /\ \A x \in DOMAIN temps \ T : temps'[x] = temps[x]
  BY <1>1, MinusProperties
<1>4. NoTornSegment'
  BY <1>2 DEF SInv, NoTornSegment
<1>5. WholeWhenRenamed'
  BY <1>3 DEF SInv, WholeWhenRenamed
<1>6. IsFiniteSet(DOMAIN files')
  BY <1>2, FS_Subset DEF SInv
<1>7. ASSUME NEW w \in Writers, pc[w] = "trim", Limit > 0
      PROVE  Cardinality(In(files', path[w][1]) \ (victims' \cup skipped')) <= Limit
  <2>1. In(files', path[w][1]) \ (victims' \cup skipped')
          \subseteq In(files, path[w][1]) \ (victims \cup skipped)
    BY <1>2
  <2>2. Cardinality(In(files, path[w][1]) \ (victims \cup skipped)) <= Limit
    BY <1>7 DEF SInv, TrimPlanned
  <2> QED
    BY <2>1, <2>2, FewerFiles DEF SInv
<1>8. TrimPlanned'
  BY <1>7 DEF TrimPlanned, In
<1> QED
  BY <1>4, <1>5, <1>6, <1>8

(* To take no file away changes nothing. *)
LEMMA MinusNothing ==
  ASSUME SInv
  PROVE  files = Minus(files, {}) /\ temps = Minus(temps, {})
  BY DEF SInv, TypeOK, Minus, Restrict

(* ... and go one by one, or are skipped, ... *)
LEMMA TrimStep ==
  ASSUME SInv, NEW w \in Writers, Trim(w)
  PROVE  SInv'
<1>1. PICK p \in victims :
        /\ victims' = victims \ {p}
        /\ \/ files' = Minus(files, {p}) /\ skipped' = skipped
           \/ p \in DOMAIN files /\ skipped' = skipped \cup {p} /\ files' = files
  BY DEF Trim
<1>2. UNCHANGED <<dirs, temps, mu, pc, path, purging, process, enabled, pending, clock>>
  BY DEF Trim, others, shutdown
<1>3. PICK S : files' = Minus(files, S) /\ (victims \cup skipped) \ S \subseteq victims' \cup skipped'
  <2>1. CASE files' = Minus(files, {p}) /\ skipped' = skipped
    BY <1>1, <2>1
  <2>2. CASE skipped' = skipped \cup {p} /\ files' = files
    <3>1. (victims \cup skipped) \ {} \subseteq victims' \cup skipped'
      BY <1>1, <2>2
    <3> QED
      BY <2>2, <3>1, MinusNothing
  <2> QED
    BY <1>1, <2>1, <2>2
<1>4. DOMAIN files' \subseteq Paths /\ files' \in [DOMAIN files' -> File]
  BY <1>3, MinusProperties DEF SInv, TypeOK
<1>5. victims' \subseteq Paths /\ skipped' \subseteq Paths
  BY <1>1 DEF SInv, TypeOK
<1>6. TypeOK'
  BY <1>2, <1>4, <1>5 DEF SInv, TypeOK
<1> QED
  BY <1>2, <1>3, <1>6, FilesGo, MinusNothing DEF SInv

(* ... and with their directory one by one, too ... *)
LEMMA FilesOnlyGo ==
  ASSUME SInv, PurgeLock \/ Purge \/ CleanFile \/ CleanDir
  PROVE  \E S, T : files' = Minus(files, S) /\ temps' = Minus(temps, T)
<1>1. CASE UNCHANGED <<files, temps>>
  BY <1>1, MinusNothing
<1>2. ASSUME NEW D, RemoveFile(D)
      PROVE  \E S, T : files' = Minus(files, S) /\ temps' = Minus(temps, T)
  <2>1. CASE \E p : files' = Minus(files, {p}) /\ temps' = temps
    BY <2>1, MinusNothing
  <2>2. CASE \E p : temps' = Minus(temps, {p}) /\ files' = files
    BY <2>2, MinusNothing
  <2> QED
    BY <1>2, <2>1, <2>2 DEF RemoveFile
<1>3. PurgeLock \/ CleanDir => UNCHANGED <<files, temps>>
  BY DEF PurgeLock, CleanDir, LeaveDir, disk
<1>4. PurgeDone => UNCHANGED <<files, temps>>
  BY DEF PurgeDone, LeaveDir, SInv, TypeOK
<1> QED
  BY <1>1, <1>2, <1>3, <1>4 DEF Purge, PurgeFile, CleanFile

(* ... which leaves the rest as it is, ... *)
LEMMA RemoveStep ==
  ASSUME SInv, PurgeLock \/ Purge \/ CleanFile \/ CleanDir
  PROVE  SInv'
<1>1. /\ UNCHANGED <<pc, path, victims, skipped, process, enabled, clock>>
      /\ pending' \subseteq pending
  BY DEF PurgeLock, Purge, PurgeFile, PurgeDone, CleanFile, CleanDir, saving, trimming, others,
         shutdown
<1>2. PICK S, T : files' = Minus(files, S) /\ temps' = Minus(temps, T)
  BY FilesOnlyGo
<1>3. dirs' \subseteq dirs
  BY DEF PurgeLock, Purge, PurgeFile, PurgeDone, CleanFile, CleanDir, RemoveFile, LeaveDir, disk,
         SInv, TypeOK
<1>4. /\ mu' \in Writers \cup {Nobody, Janitor} /\ (mu' = Janitor => purging' # {})
      /\ purging' \subseteq purging
      /\ \A w \in Writers : mu' = w <=> mu = w
  BY StoreAssumption
     DEF PurgeLock, Purge, PurgeFile, PurgeDone, CleanFile, CleanDir, saving, others, SInv, TypeOK
<1>5. /\ DOMAIN files' \subseteq Paths /\ files' \in [DOMAIN files' -> File]
      /\ DOMAIN temps' \subseteq Paths /\ temps' \in [DOMAIN temps' -> File]
  BY <1>2, MinusProperties DEF SInv, TypeOK
<1>6. TypeOK'
  BY <1>1, <1>3, <1>4, <1>5 DEF SInv, TypeOK
<1> QED
  BY <1>1, <1>2, <1>6, FilesGo DEF SInv

(* ... and a crash leaves them as they are. *)
LEMMA ExitStep ==
  ASSUME SInv, Exit
  PROVE  SInv'
<1>1. /\ UNCHANGED <<dirs, files, temps, path, clock>> /\ pc' = [w \in Writers |-> "idle"]
      /\ mu' = Nobody /\ victims' = {} /\ skipped' = {} /\ purging' = {}
      /\ process' = "down" /\ enabled' = FALSE /\ pending' = {}
  BY DEF Exit, disk
<1>2. TypeOK'
  BY <1>1, StoreAssumption DEF SInv, TypeOK
<1> QED
  BY <1>1, <1>2 DEF SInv, NoTornSegment, WholeWhenRenamed, TrimPlanned

(* The invariant holds at the start and after every step. *)
LEMMA StoreInit == Init => SInv
<1> SUFFICES ASSUME Init PROVE SInv
  OBVIOUS
<1>1. DOMAIN NoFiles = {} /\ NoFiles \in [{} -> File]
  BY DEF NoFiles
<1>2. TypeOK
  BY <1>1, StoreAssumption DEF Init, TypeOK
<1>3. IsFiniteSet(DOMAIN files)
  BY <1>1, FS_EmptySet DEF Init
<1> QED
  BY <1>1, <1>2, <1>3 DEF Init, SInv, NoTornSegment, WholeWhenRenamed, TrimPlanned

(* See above. *)
LEMMA StoreStep == SInv /\ [Next]_vars => SInv'
  BY ShutdownSteps, WriterSteps, TempSteps, RenameStep, WalkStep, TrimStep, RemoveStep, ExitStep
     DEF Next, Step

-----------------------------------------------------------------------------
(* Values of their kinds, and the mutex has one holder. *)
THEOREM StoreTypeCorrect == Spec => []TypeOK
<1>1. SInv => TypeOK
  BY DEF SInv
<1> QED
  BY <1>1, StoreInit, StoreStep, PTL DEF Spec

(* No crash, failure, clean-up or other Save leaves a torn segment.        *)
THEOREM SegmentsAreWhole == Spec => []NoTornSegment
<1>1. SInv => NoTornSegment
  BY DEF SInv
<1> QED
  BY <1>1, StoreInit, StoreStep, PTL DEF Spec

(* When a Save is through with its trim, the limit holds, but for the      *)
(* segments that could not be removed: whatever other Saves, purges and    *)
(* clean-ups did, and however many files it found.                         *)
THEOREM SavesTrim == Spec => TrimmedAfterSave
<1> DEFINE A == \A w \in Writers :
                  pc[w] = "trim" /\ pc'[w] = "idle" /\ process' # "down" /\ Limit > 0
                    => Cardinality(In(files, path[w][1]) \ skipped) <= Limit
<1>1. SInv /\ [Next]_vars => [A]_vars
  <2> SUFFICES ASSUME SInv, Next, NEW w \in Writers, pc[w] = "trim", pc'[w] = "idle",
                      process' # "down", Limit > 0
               PROVE  Cardinality(In(files, path[w][1]) \ skipped) <= Limit
    OBVIOUS
  <2>1. Saved(w)
    <3>1. \A x \in Writers : Step(x) \/ (\E m \in ManifestIDs, k \in Keys : Start(x, m, k)) =>
            x = w \/ pc'[w] = pc[w]
      BY DEF SInv, TypeOK, Step, Lock, MakeDir, CreateTemp, WriteTemp, Fail, Rename, RenameFails,
             Walk, WalkFails, Trim, Saved, Start, Goto, Return
    <3>2. Step(w) \/ \E m \in ManifestIDs, k \in Keys : Start(w, m, k)
      BY <3>1 DEF Next, RemoveManifest, PurgeLock, Purge, PurgeFile, PurgeDone, Signal, CleanFile,
                  CleanDir, CleanDone, Exit, Restart, Tick, saving
    <3> QED
      BY <3>2 DEF SInv, TypeOK, Step, Lock, MakeDir, CreateTemp, WriteTemp, Fail, Rename, RenameFails,
                  Walk, WalkFails, Trim, Start, Goto
  <2>2. victims \cup skipped = skipped
    BY <2>1 DEF Saved
  <2> QED
    BY <2>2 DEF SInv, TrimPlanned
<1> QED
  BY <1>1, StoreInit, StoreStep, PTL DEF Spec, TrimmedAfterSave

-----------------------------------------------------------------------------
(* Ages: a temp file that is being written is not older than any file,     *)
(* as only one writer writes and the clock does not go back.               *)
FilesPast ==
  /\ \A p \in DOMAIN files : files[p].modTime <= clock
  /\ \A p \in DOMAIN temps : temps[p].modTime <= clock

TempNewest ==
  \A w \in Writers : pc[w] \in {"write", "rename"} /\ path[w] \in DOMAIN temps =>
    \A p \in DOMAIN files : files[p].modTime <= temps[path[w]].modTime

(* What a trim has still to remove lies in the writer's directory, is not  *)
(* newer than what stays, and is more than the limit allows; the last is   *)
(* no longer so when the clean-up takes files away meanwhile.              *)
VictimsOldest ==
  \A w \in Writers : pc[w] = "trim" => \A v \in victims :
    /\ v[1] = path[w][1]
    /\ v \in DOMAIN files =>
         \A q \in In(files, path[w][1]) \ (victims \cup skipped) :
           files[v].modTime <= files[q].modTime

Undisturbed == process \notin {"cleaning", "cleaned"}

TrimNeeded ==
  Undisturbed =>
    \A w \in Writers : pc[w] = "trim" /\ victims \cap DOMAIN files # {} =>
      Limit > 0 /\ Cardinality(In(files, path[w][1]) \ (victims \cup skipped)) >= Limit

AgeInv == FilesPast /\ TempNewest /\ VictimsOldest /\ TrimNeeded

(* At the start there are no files. *)
LEMMA AgeInit == Init => AgeInv
  BY DEF Init, NoFiles, AgeInv, FilesPast, TempNewest, VictimsOldest, TrimNeeded

(* Times are numbers. *)
LEMMA TimesAreNumbers ==
  ASSUME SInv
  PROVE  /\ clock \in Int
         /\ \A p \in DOMAIN files : files[p].modTime \in Int
         /\ \A p \in DOMAIN temps : temps[p].modTime \in Int
<1>1. /\ files \in [DOMAIN files -> File] /\ temps \in [DOMAIN temps -> File]
      /\ clock \in 0 .. MaxTime
  BY DEF SInv, TypeOK
<1> QED
  BY <1>1, StoreAssumption DEF File

(* Steps that leave the files alone, and do not start to write or to trim. *)
LEMMA AgeIdleSteps ==
  ASSUME SInv, AgeInv, UNCHANGED <<files, temps>>, clock' \in Int, clock <= clock',
         \A w \in Writers : pc'[w] \in {"write", "rename", "trim"} =>
           /\ pc'[w] = pc[w] /\ path'[w] = path[w]
           /\ pc[w] = "trim" => victims' = victims /\ skipped' = skipped /\ (Undisturbed' => Undisturbed)
  PROVE  AgeInv'
<1>1. FilesPast'
  BY TimesAreNumbers DEF AgeInv, FilesPast
<1>2. TempNewest'
  BY DEF AgeInv, TempNewest
<1>3. VictimsOldest' /\ TrimNeeded'
  BY DEF AgeInv, VictimsOldest, TrimNeeded, In
<1> QED
  BY <1>1, <1>2, <1>3 DEF AgeInv

(* The temp file gets the time of the clock. *)
LEMMA AgeTempSteps ==
  ASSUME SInv, AgeInv, NEW w \in Writers, CreateTemp(w) \/ WriteTemp(w)
  PROVE  AgeInv'
<1>1. PICK p \in Paths : p = path[w]
  BY DEF SInv, TypeOK
<1>2. UNCHANGED <<files, path, clock>>
  BY DEF CreateTemp, WriteTemp, others
<1>3. \A x \in Writers \ {w} : pc'[x] \in {"idle", "wait"}
  BY DEF SInv, TypeOK, CreateTemp, WriteTemp, Goto
<1>4. pc'[w] \in {"write", "rename"}
  BY DEF SInv, TypeOK, CreateTemp, WriteTemp, Goto
<1>5. /\ \A x \in DOMAIN temps' : x # p => x \in DOMAIN temps /\ temps'[x] = temps[x]
      /\ p \in DOMAIN temps' => temps'[p].modTime = clock
  <2>1. CASE CreateTemp(w)
    BY <1>1, <2>1 DEF CreateTemp, Plus
  <2>2. CASE WriteTemp(w)
    BY <1>1, <2>2 DEF WriteTemp
  <2> QED
    BY <2>1, <2>2
<1>6. FilesPast'
  BY <1>2, <1>5, TimesAreNumbers DEF AgeInv, FilesPast
<1>7. TempNewest'
  BY <1>1, <1>2, <1>3, <1>5 DEF AgeInv, FilesPast, TempNewest
<1>8. VictimsOldest' /\ TrimNeeded'
  BY <1>3, <1>4 DEF VictimsOldest, TrimNeeded
<1> QED
  BY <1>6, <1>7, <1>8 DEF AgeInv

(* The file that is renamed is then a newest one. *)
LEMMA AgeRename ==
  ASSUME SInv, AgeInv, NEW w \in Writers, Rename(w)
  PROVE  AgeInv'
<1>1. PICK p \in Paths : p = path[w]
  BY DEF SInv, TypeOK
<1>2. /\ p \in DOMAIN temps /\ files' = Plus(files, p, temps[p]) /\ temps' = Minus(temps, {p})
      /\ clock' = clock
  BY <1>1 DEF Rename, others
<1>3. \A x \in Writers : pc'[x] \notin {"write", "rename", "trim"}
  BY DEF SInv, TypeOK, Rename, Goto
<1>4. FilesPast'
  <2>0. DOMAIN temps \subseteq Paths /\ temps \in [DOMAIN temps -> File]
    BY DEF SInv, TypeOK
  <2>1. DOMAIN files \subseteq Paths /\ files \in [DOMAIN files -> File] /\ temps[p] \in File
    BY <1>2, <2>0 DEF SInv, TypeOK
  <2>2. /\ DOMAIN files' = DOMAIN files \cup {p} /\ files'[p] = temps[p]
        /\ \A x \in DOMAIN files : x # p => files'[x] = files[x]
    BY <1>2, <2>1 DEF Plus
  <2>3. /\ DOMAIN temps' = DOMAIN temps \ {p}
        /\ \A x \in DOMAIN temps \ {p} : temps'[x] = temps[x]
    BY <1>2, <2>0, MinusProperties
  <2> QED
    BY <1>2, <2>2, <2>3 DEF AgeInv, FilesPast
<1>5. TempNewest' /\ VictimsOldest' /\ TrimNeeded'
  BY <1>3 DEF TempNewest, VictimsOldest, TrimNeeded
<1> QED
  BY <1>4, <1>5 DEF AgeInv

(* A walk chooses no more than the limit asks for. *)
LEMMA WalkChoosesNoMore ==
  ASSUME IsFiniteSet(DOMAIN files), NEW d, NEW S \in SUBSET In(files, d), Oldest(d, S), S # {}
  PROVE  Limit > 0 /\ Cardinality(In(files, d) \ S) >= Limit
<1>1. IsFiniteSet(In(files, d)) /\ IsFiniteSet(S)
  BY FS_Subset DEF In
<1>2. Cardinality(In(files, d) \ S) = Cardinality(In(files, d)) - Cardinality(S)
  <2>1. In(files, d) \cap S = S
    OBVIOUS
  <2> QED
    BY <1>1, <2>1, FS_Difference
<1>3. Cardinality(In(files, d)) \in Nat /\ Cardinality(S) # 0
  BY <1>1, FS_CardinalityType, FS_EmptySet
<1>4. Cardinality(S) = Excess(d)
  BY DEF Oldest
<1> QED
  BY <1>2, <1>3, <1>4, StoreAssumption DEF Excess

(* The oldest are chosen. *)
LEMMA AgeWalk ==
  ASSUME SInv, AgeInv, NEW w \in Writers, Walk(w)
  PROVE  AgeInv'
<1>1. PICK d : d = path[w][1]
  OBVIOUS
<1>2. PICK S \in SUBSET In(files, d) : Oldest(d, S) /\ victims' = S
  BY <1>1 DEF Walk
<1>3. UNCHANGED <<files, temps, path, clock>> /\ skipped' = {}
  BY DEF Walk, disk, others
<1>4. \A x \in Writers : pc'[x] \in {"write", "rename", "trim"} => x = w /\ pc'[x] = "trim"
  BY DEF SInv, TypeOK, Walk, Goto
<1>9. victims' \cup skipped' = S
  BY <1>2, <1>3
<1>5. VictimsOldest'
  BY <1>1, <1>2, <1>3, <1>4, <1>9 DEF VictimsOldest, Oldest, In
<1>6. TrimNeeded'
  <2>1. S # {} => Limit > 0 /\ Cardinality(In(files, d) \ S) >= Limit
    BY <1>2, WalkChoosesNoMore DEF SInv
  <2> QED
    BY <1>1, <1>2, <1>3, <1>4, <1>9, <2>1 DEF TrimNeeded, In
<1>7. FilesPast' /\ TempNewest'
  BY <1>3, <1>4 DEF AgeInv, FilesPast, TempNewest
<1> QED
  BY <1>5, <1>6, <1>7 DEF AgeInv

(* Files go: by a trim ... *)
LEMMA AgeFilesGo ==
  ASSUME SInv, AgeInv, NEW S, NEW T, files' = Minus(files, S), temps' = Minus(temps, T),
         UNCHANGED <<pc, path, clock>>, Undisturbed' => Undisturbed,
         victims' \subseteq victims, (victims \cup skipped) \ S \subseteq victims' \cup skipped',
         Undisturbed => \A w \in Writers : pc[w] = "trim" =>
           In(files', path[w][1]) \ (victims' \cup skipped')
             = In(files, path[w][1]) \ (victims \cup skipped)
  PROVE  AgeInv'
<1>0. DOMAIN temps \subseteq Paths /\ temps \in [DOMAIN temps -> File]
  BY DEF SInv, TypeOK
<1>1. /\ DOMAIN files' = DOMAIN files \ S
      /\ \A x \in DOMAIN files \ S : files'[x] = files[x]
      /\ \A d : In(files', d) = In(files, d) \ S
  BY DEF Minus, Restrict, In
<1>2. /\ DOMAIN temps' = DOMAIN temps \ T
      /\ \A x \in DOMAIN temps \ T : temps'[x] = temps[x]
  BY <1>0, MinusProperties
<1>3. FilesPast' /\ TempNewest'
  BY <1>1, <1>2 DEF AgeInv, FilesPast, TempNewest
<1>4. VictimsOldest'
  <2> SUFFICES ASSUME NEW w \in Writers, pc[w] = "trim", NEW v \in victims'
               PROVE  /\ v[1] = path[w][1]
                      /\ v \in DOMAIN files' =>
                           \A q \in In(files', path[w][1]) \ (victims' \cup skipped') :
                             files'[v].modTime <= files'[q].modTime
    BY DEF VictimsOldest, In
  <2>1. In(files', path[w][1]) \ (victims' \cup skipped')
          \subseteq In(files, path[w][1]) \ (victims \cup skipped)
    BY <1>1
  <2>2. In(files', path[w][1]) \subseteq DOMAIN files'
    BY DEF In
  <2> QED
    BY <1>1, <2>1, <2>2 DEF AgeInv, VictimsOldest
<1>5. TrimNeeded'
  <2> SUFFICES ASSUME Undisturbed', NEW w \in Writers, pc[w] = "trim", victims' \cap DOMAIN files' # {}
               PROVE  /\ Limit > 0
                      /\ Cardinality(In(files', path[w][1]) \ (victims' \cup skipped')) >= Limit
    BY DEF TrimNeeded, In
  <2>1. victims \cap DOMAIN files # {}
    BY <1>1
  <2> QED
    BY <2>1 DEF AgeInv, TrimNeeded
<1> QED
  BY <1>3, <1>4, <1>5 DEF AgeInv

(* ... whose writer still plans for the rest ... *)
LEMMA AgeTrim ==
  ASSUME SInv, AgeInv, NEW w \in Writers, Trim(w)
  PROVE  AgeInv'
<1>1. PICK p \in victims :
        /\ victims' = victims \ {p}
        /\ \/ files' = Minus(files, {p}) /\ skipped' = skipped
           \/ p \in DOMAIN files /\ skipped' = skipped \cup {p} /\ files' = files
  BY DEF Trim
<1>2. UNCHANGED <<temps, pc, path, process, clock>> /\ temps' = Minus(temps, {})
  BY MinusNothing DEF Trim, others, shutdown
<1>3. CASE files' = Minus(files, {p}) /\ skipped' = skipped
  <2>1. \A d : In(files', d) \ (victims' \cup skipped') = In(files, d) \ (victims \cup skipped)
    BY <1>1, <1>3 DEF Minus, Restrict, In
  <2>2. (victims \cup skipped) \ {p} \subseteq victims' \cup skipped' /\ victims' \subseteq victims
    BY <1>1, <1>3
  <2> QED
    BY <1>2, <1>3, <2>1, <2>2, AgeFilesGo DEF Undisturbed
<1>4. CASE skipped' = skipped \cup {p} /\ files' = files
  <2>1. /\ victims' \cup skipped' = victims \cup skipped
        /\ (victims \cup skipped) \ {} \subseteq victims' \cup skipped' /\ victims' \subseteq victims
    BY <1>1, <1>4
  <2>2. files' = Minus(files, {})
    BY <1>4, MinusNothing
  <2>3. \A d : In(files', d) \ (victims' \cup skipped') = In(files, d) \ (victims \cup skipped)
    BY <1>4, <2>1
  <2> QED
    BY <1>2, <2>1, <2>2, <2>3, AgeFilesGo DEF Undisturbed
<1> QED
  BY <1>1, <1>3, <1>4

(* ... by a purge, which no trim runs beside, or by the clean-up. *)
LEMMA AgeRemove ==
  ASSUME SInv, AgeInv, PurgeLock \/ Purge \/ CleanFile \/ CleanDir
  PROVE  AgeInv'
<1>1. UNCHANGED <<pc, path, victims, skipped, process, clock>>
  BY DEF PurgeLock, Purge, PurgeFile, PurgeDone, CleanFile, CleanDir, saving, trimming, others,
         shutdown
<1>2. PICK S, T : files' = Minus(files, S) /\ temps' = Minus(temps, T)
  BY FilesOnlyGo
<1>3. Undisturbed => \A w \in Writers : pc[w] # "trim"
  BY StoreAssumption
     DEF Undisturbed, PurgeLock, Purge, PurgeFile, PurgeDone, CleanFile, CleanDir, SInv, TypeOK
<1>4. (victims \cup skipped) \ S \subseteq victims' \cup skipped' /\ victims' \subseteq victims
  BY <1>1
<1>5. Undisturbed' => Undisturbed
  BY <1>1 DEF Undisturbed
<1> QED
  BY <1>1, <1>2, <1>3, <1>4, <1>5, AgeFilesGo

(* Every step keeps the ages right. *)
LEMMA AgeStep == SInv /\ AgeInv /\ [Next]_vars => AgeInv'
<1> SUFFICES ASSUME SInv, AgeInv, [Next]_vars PROVE AgeInv'
  OBVIOUS
<1>1. ASSUME NEW w \in Writers,
             \/ \E m \in ManifestIDs, k \in Keys : Start(w, m, k)
             \/ Lock(w) \/ MakeDir(w) \/ Fail(w) \/ WalkFails(w) \/ Saved(w)
      PROVE  AgeInv'
  <2>1. UNCHANGED <<files, temps, process, clock>>
    BY <1>1 DEF Start, Lock, MakeDir, Fail, WalkFails, Saved, disk, others, shutdown
  <2>2. \A x \in Writers : pc'[x] \in {"write", "rename", "trim"} =>
          /\ pc'[x] = pc[x] /\ path'[x] = path[x]
          /\ pc[x] = "trim" => victims' = victims /\ skipped' = skipped
    BY <1>1 DEF SInv, TypeOK, Start, Lock, MakeDir, Fail, WalkFails, Saved, Return, Goto, trimming
  <2>3. Undisturbed' => Undisturbed
    BY <2>1 DEF Undisturbed
  <2> QED
    BY <2>1, <2>2, <2>3, AgeIdleSteps, TimesAreNumbers
<1>2. ASSUME NEW w \in Writers, RenameFails(w)
      PROVE  AgeInv'
  <2>1. UNCHANGED <<files, clock>> /\ temps' \in {temps, Minus(temps, {path[w]})}
    BY <1>2 DEF RenameFails, others
  <2>2. \A x \in Writers : pc'[x] \notin {"write", "rename", "trim"}
    BY <1>2 DEF SInv, TypeOK, RenameFails, Return, Goto
  <2>3. \A p \in DOMAIN temps' : p \in DOMAIN temps /\ temps'[p] = temps[p]
    BY <2>1 DEF SInv, TypeOK, Minus, Restrict
  <2> QED
    BY <2>1, <2>2, <2>3 DEF AgeInv, FilesPast, TempNewest, VictimsOldest, TrimNeeded
<1>3. CASE \/ Signal \/ CleanDone \/ Restart \/ Tick \/ UNCHANGED vars
           \/ \E m \in ManifestIDs : RemoveManifest(m)
  <2>1. UNCHANGED <<files, temps, pc, path, victims, skipped>>
    BY <1>3 DEF Signal, CleanDone, Restart, Tick, RemoveManifest, vars, disk, saving, trimming
  <2>2. clock' \in Int /\ clock <= clock'
    BY <1>3, TimesAreNumbers DEF Signal, CleanDone, Restart, Tick, RemoveManifest, vars, others
  <2>3. Undisturbed' => Undisturbed
    BY <1>3 DEF Undisturbed, Signal, CleanDone, Restart, Tick, RemoveManifest, vars, others, shutdown
  <2> QED
    BY <2>1, <2>2, <2>3, AgeIdleSteps
<1>4. CASE Exit
  <2>1. UNCHANGED <<files, temps, clock>> /\ \A w \in Writers : pc'[w] = "idle"
    BY <1>4 DEF Exit, disk
  <2> QED
    BY <2>1, AgeIdleSteps, TimesAreNumbers
<1> QED
  BY <1>1, <1>2, <1>3, <1>4, AgeTempSteps, AgeRename, AgeWalk, AgeTrim, AgeRemove DEF Next, Step

-----------------------------------------------------------------------------
(* Steps of the abstract tier.  A step that touches files changes neither  *)
(* what is being removed ...                                               *)
LEMMA DoomedStays ==
  ASSUME UNCHANGED <<process, mu, purging>>
  PROVE  UNCHANGED Doomed
  BY DEF Doomed

(* ... nor more than one file: a renamed one is saved, ... *)
LEMMA RenameIsSave ==
  ASSUME SInv, AgeInv, NEW w \in Writers, Rename(w)
  PROVE  Tier!Next
<1>1. PICK p \in Paths : p = path[w]
  BY DEF SInv, TypeOK
<1>2. PICK t : t = temps[p].modTime
  OBVIOUS
<1>3. /\ pc[w] = "rename" /\ p \in DOMAIN temps /\ files' = Plus(files, p, temps[p])
  BY <1>1 DEF Rename
<1>4. t \in 0 .. MaxTime
  BY <1>2, <1>3 DEF SInv, TypeOK, File
<1>5. \A q \in DOMAIN files : files[q].modTime <= t
  BY <1>1, <1>2, <1>3 DEF AgeInv, TempNewest
<1>6. Loadable' = [q \in DOMAIN Loadable \cup {p} |-> IF q = p THEN t ELSE Loadable[q]]
  BY <1>2, <1>3 DEF Loadable, Plus
<1>7. UNCHANGED Doomed
  BY DoomedStays DEF Rename, others, shutdown
<1>8. Tier!Save(p, t)
  BY <1>5, <1>6, <1>7 DEF Loadable, Tier!Save, Tier!Of
<1> QED
  BY <1>4, <1>8 DEF Tier!Next, Paths

(* ... one that is removed is dropped while its directory is doomed, ... *)
LEMMA RemovedIsDropped ==
  ASSUME SInv, NEW p \in DOMAIN files, files' = Minus(files, {p}), UNCHANGED Doomed, p[1] \in Doomed
  PROVE  Tier!Next
<1>1. p \in Paths
  BY DEF SInv, TypeOK
<1>2. Loadable' = Tier!Without({p})
  BY DEF Loadable, Tier!Without, Minus, Restrict
<1>3. Tier!Drop(p)
  BY <1>2 DEF Tier!Drop
<1> QED
  BY <1>1, <1>3 DEF Tier!Next, Paths

(* ... a trimmed one is evicted, unless it is gone already or the clean-up *)
(* is about, ...                                                           *)
LEMMA TrimIsEvict ==
  ASSUME SInv, AgeInv, NEW w \in Writers, Trim(w)
  PROVE  Tier!Next \/ UNCHANGED <<Loadable, Doomed>>
<1>1. PICK p \in victims : files' = Minus(files, {p}) \/ files' = files
  BY DEF Trim
<1>2. pc[w] = "trim" /\ UNCHANGED Doomed
  BY DoomedStays DEF Trim, others, shutdown
<1>3. CASE p \notin DOMAIN files \/ files' = files
  BY <1>1, <1>2, <1>3, MinusNothing DEF Loadable, Minus, Restrict
<1>4. CASE p \in DOMAIN files /\ files' = Minus(files, {p}) /\ ~Undisturbed
  <2>1. p[1] \in Doomed
    BY <1>4 DEF Doomed, Undisturbed, SInv, TypeOK, Paths
  <2> QED
    BY <1>2, <1>4, <2>1, RemovedIsDropped
<1>5. CASE p \in DOMAIN files /\ files' = Minus(files, {p}) /\ Undisturbed
  <2>1. p[1] = path[w][1] /\ p \in Paths
    BY <1>2 DEF AgeInv, VictimsOldest, SInv, TypeOK
  <2> DEFINE Stay == In(files, p[1]) \ (victims \cup skipped)
  <2>2. Limit > 0 /\ Cardinality(Stay) >= Limit
    BY <1>2, <1>5, <2>1 DEF AgeInv, TrimNeeded
  <2>3. Stay \subseteq Tier!NotOlder(p)
    BY <1>2, <1>5, <2>1 DEF AgeInv, VictimsOldest, Tier!NotOlder, Tier!Of, Loadable, In
  <2>4. IsFiniteSet(Tier!NotOlder(p))
    BY FS_Subset DEF SInv, Tier!NotOlder, Tier!Of, Loadable
  <2>5. Cardinality(Stay) <= Cardinality(Tier!NotOlder(p))
    BY <2>3, <2>4, FS_Subset
  <2>6. Cardinality(Tier!NotOlder(p)) \in Nat /\ Cardinality(Stay) \in Nat
    BY <2>3, <2>4, FS_Subset, FS_CardinalityType
  <2>7. Tier!Cardinality(Tier!NotOlder(p)) >= Limit
    <3>1. Cardinality(Tier!NotOlder(p)) >= Limit
      BY <2>2, <2>5, <2>6, StoreAssumption
    <3>2. \A S : Tier!Cardinality(S) = Cardinality(S)
      BY DEF Cardinality, Tier!Cardinality
    <3> QED
      BY <3>1, <3>2
  <2>8. Loadable' = Tier!Without({p})
    BY <1>5 DEF Loadable, Tier!Without, Minus, Restrict
  <2>9. Tier!Evict(p)
    BY <1>2, <1>5, <2>2, <2>7, <2>8 DEF Loadable, Tier!Evict
  <2> QED
    BY <2>1, <2>9 DEF Tier!Next, Paths
<1> QED
  BY <1>1, <1>3, <1>4, <1>5

(* ... and those of a purge or a clean-up go one by one. *)
LEMMA RemoveIsDrop ==
  ASSUME SInv, PurgeFile \/ CleanFile
  PROVE  Tier!Next \/ UNCHANGED <<Loadable, Doomed>>
<1>1. PICK D \in SUBSET Dirs : RemoveFile(D) /\ D \subseteq Doomed
  BY DEF PurgeFile, CleanFile, Doomed, SInv, TypeOK
<1>2. UNCHANGED Doomed
  BY DoomedStays DEF PurgeFile, CleanFile, saving, others, shutdown
<1>3. CASE UNCHANGED files
  BY <1>2, <1>3 DEF Loadable
<1>4. CASE \E p \in DOMAIN files : p[1] \in D /\ files' = Minus(files, {p})
  BY <1>1, <1>2, <1>4, RemovedIsDropped
<1> QED
  BY <1>1, <1>3, <1>4 DEF RemoveFile

(* No other step changes what can be loaded. *)
LEMMA StoreStepRefines ==
  ASSUME SInv, AgeInv, [Next]_vars
  PROVE  Tier!Next \/ UNCHANGED <<Loadable, Doomed>>
<1>1. ASSUME UNCHANGED files PROVE Tier!Next
  <2>1. Loadable' = Loadable
    BY <1>1 DEF Loadable
  <2>2. Doomed' \in SUBSET Dirs
    BY StoreStep DEF Doomed, SInv, TypeOK
  <2> QED
    BY <2>1, <2>2 DEF Tier!Next, Tier!Doom
<1>2. ASSUME NEW w \in Writers,
             \/ \E m \in ManifestIDs, k \in Keys : Start(w, m, k)
             \/ Lock(w) \/ MakeDir(w) \/ CreateTemp(w) \/ WriteTemp(w) \/ Fail(w)
             \/ RenameFails(w) \/ Walk(w) \/ WalkFails(w) \/ Saved(w)
      PROVE  UNCHANGED files
  BY <1>2 DEF Start, Lock, MakeDir, CreateTemp, WriteTemp, Fail, RenameFails, Walk, WalkFails,
              Saved, disk
<1>3. CASE \/ PurgeLock \/ PurgeDone \/ Signal \/ CleanDir \/ CleanDone \/ Exit \/ Restart \/ Tick
           \/ UNCHANGED vars \/ \E m \in ManifestIDs : RemoveManifest(m)
  <2>1. UNCHANGED files
    BY <1>3 DEF PurgeLock, PurgeDone, LeaveDir, Signal, CleanDir, CleanDone, Exit, Restart, Tick,
                RemoveManifest, vars, disk, SInv, TypeOK
  <2> QED
    BY <1>1, <2>1
<1> QED
  BY <1>1, <1>2, <1>3, RenameIsSave, TrimIsEvict, RemoveIsDrop DEF Next, Step, Purge

(* Over failing operations, crashes, restarts, purges and clean-ups that   *)
(* get through half of their files, a directory loses a segment to the     *)
(* limit, but none of the newest that the limit allows, or while the       *)
(* directory is being removed.                                             *)
THEOREM StoreImplementsTier == Spec => ImplementsFileTier
<1>1. Init => Tier!Init
  BY StoreAssumption DEF Init, NoFiles, Tier!Init, Loadable, Doomed
<1>2. SInv /\ AgeInv /\ [Next]_vars => [Tier!Next]_<<Loadable, Doomed>>
  BY StoreStepRefines
<1> QED
  BY <1>1, <1>2, StoreInit, StoreStep, AgeInit, AgeStep, PTL
     DEF Spec, ImplementsFileTier, Tier!Spec
=============================================================================
