---------------------------- MODULE SegmentCache ----------------------------
(***************************************************************************)
(* hls/segment_cache.go: the in-memory replay cache.  Every operation runs *)
(* under the cache's RWMutex from its first look at the maps to its last   *)
(* write, so each is one action; a loaded body is copied after RUnlock,    *)
(* which is safe because a stored body is replaced, never written to.      *)
(*                                                                         *)
(* Calls that return at once (an empty body, manifest or key; the cache    *)
(* switched off) change nothing and are left out.                          *)
(***************************************************************************)
EXTENDS Integers, Sequences, SequencesExt

CONSTANTS
  ManifestIDs,
  Keys,         \* segment URLs
  Data,         \* segment bodies
  Miss,         \* "not found"
  CacheLimit    \* the limit ConfigureSegmentCache is given

ASSUME CacheAssumption ==
  /\ CacheLimit \in Int
  /\ Miss \notin Data

VARIABLES
  manifests,  \* c.manifests: manifest -> its order and entries
  reply       \* the answer of the last Load

vars == <<manifests, reply>>

(* ConfigureSegmentCache: a negative limit means none. *)
Limit == IF CacheLimit < 0 THEN 0 ELSE CacheLimit

Init ==
  /\ manifests = [m \in {} |-> <<>>]
  /\ reply = Miss

-----------------------------------------------------------------------------
NoManifest == [order |-> <<>>, entries |-> [k \in {} |-> Miss]]

(* ensureManifest: the manifest's cache, a new one if there is none. *)
EnsureManifest(m) == IF m \in DOMAIN manifests THEN manifests[m] ELSE NoManifest

(* remove: the key leaves the map and, at its first place, the list. *)
RemoveKey(cache, k) ==
  IF k \in DOMAIN cache.entries
  THEN [order   |-> RemoveFirst(cache.order, k),
        entries |-> Restrict(cache.entries, DOMAIN cache.entries \ {k})]
  ELSE cache

(* A mutant of set: a key saved again keeps its old place in the list. *)
SetKeyInPlace(cache, k, d) ==
  [order   |-> IF k \in DOMAIN cache.entries THEN cache.order ELSE Append(cache.order, k),
   entries |-> (k :> d) @@ cache.entries]

(* A mutant of set: the old place is not removed. *)
SetKeyTwice(cache, k, d) ==
  [order |-> Append(cache.order, k), entries |-> (k :> d) @@ cache.entries]

(* set: remove and append, so that a key saved again is the newest. *)
SetKey(cache, k, d) ==
  LET rest == RemoveKey(cache, k)
  IN  [order   |-> Append(rest.order, k),
       entries |-> [x \in DOMAIN rest.entries \cup {k} |->
                      IF x = k THEN d ELSE rest.entries[x]]]

(* evict: the oldest keys leave until the limit holds. *)
Evict(cache) ==
  IF Limit > 0 /\ Len(cache.order) > Limit
  THEN LET drop == Len(cache.order) - Limit
           gone == {cache.order[i] : i \in 1 .. drop}
       IN  [order   |-> SubSeq(cache.order, drop + 1, Len(cache.order)),
            entries |-> Restrict(cache.entries, DOMAIN cache.entries \ gone)]
  ELSE cache

Put(m, cache) == [x \in DOMAIN manifests \cup {m} |-> IF x = m THEN cache ELSE manifests[x]]

Save(m, k, d) ==
  /\ manifests' = Put(m, Evict(SetKey(EnsureManifest(m), k, d)))
  /\ UNCHANGED reply

Load(m, k) ==
  /\ reply' = IF m \in DOMAIN manifests /\ k \in DOMAIN manifests[m].entries
              THEN manifests[m].entries[k]
              ELSE Miss
  /\ UNCHANGED manifests

(* Remove, from ClearSegmentCache. *)
Clear(m) ==
  /\ manifests' = Restrict(manifests, DOMAIN manifests \ {m})
  /\ UNCHANGED reply

(* Reset, from ResetSegmentCache. *)
ClearAll ==
  /\ manifests' = [m \in {} |-> <<>>]
  /\ UNCHANGED reply

Next ==
  \/ \E m \in ManifestIDs, k \in Keys : Load(m, k) \/ \E d \in Data : Save(m, k, d)
  \/ \E m \in ManifestIDs : Clear(m)
  \/ ClearAll

Spec == Init /\ [][Next]_vars

-----------------------------------------------------------------------------
(* In each manifest's cache the list and the map hold the same keys, each  *)
(* listed once: an eviction from the list removes exactly one body, and no *)
(* body is out of its reach.                                               *)
CacheConsistent ==
  \A m \in DOMAIN manifests :
    LET cache == manifests[m]
    IN  /\ Range(cache.order) = DOMAIN cache.entries
        /\ \A i, j \in 1 .. Len(cache.order) : cache.order[i] = cache.order[j] => i = j

(* The cache implements the abstract tier: the last saved segments of each *)
(* manifest in their last version, answers included.                       *)
Contents(cache) ==
  [i \in 1 .. Len(cache.order) |->
     [key |-> cache.order[i], data |-> cache.entries[cache.order[i]]]]

Tier == INSTANCE SegmentTier WITH
          tier <- [m \in ManifestIDs |-> Contents(EnsureManifest(m))]

ImplementsTier == Tier!Spec
=============================================================================
