------------------------- MODULE SegmentCacheProofs -------------------------
(***************************************************************************)
(* Theorems of SegmentCache, for all manifests, URLs and bodies and every  *)
(* limit.                                                                  *)
(***************************************************************************)
EXTENDS SegmentCache, SequenceTheorems, TLAPS

(* A list without repeats, and a map that holds a body for each of its keys. *)
Agree(keys, bodies) ==
  /\ keys \in Seq(Keys)
  /\ bodies \in [Range(keys) -> Data]
  /\ \A i, j \in 1 .. Len(keys) : keys[i] = keys[j] => i = j

Sound(cache) == Agree(cache.order, cache.entries)

CacheInv ==
  /\ DOMAIN manifests \subseteq ManifestIDs
  /\ \A m \in DOMAIN manifests : Sound(manifests[m])

-----------------------------------------------------------------------------
(* The places of a sequence that has lost one of its elements. *)
LEMMA RemoveAtEffect ==
  ASSUME NEW T, NEW s \in Seq(T), NEW i \in 1 .. Len(s)
  PROVE  /\ RemoveAt(s, i) \in Seq(T)
         /\ Len(RemoveAt(s, i)) = Len(s) - 1
         /\ \A j \in 1 .. Len(s) - 1 : /\ j < i => RemoveAt(s, i)[j] = s[j]
                                       /\ j >= i => RemoveAt(s, i)[j] = s[j + 1]
<1> DEFINE front == SubSeq(s, 1, i - 1)
           back == SubSeq(s, i + 1, Len(s))
<1>1. Len(s) \in Nat /\ i \in Int /\ 1 <= i /\ i <= Len(s)
  BY LenProperties
<1>2. /\ front \in Seq(T)
      /\ Len(front) = i - 1
      /\ \A j \in 1 .. i - 1 : front[j] = s[j]
  BY <1>1, SubSeqProperties
<1>3. /\ back \in Seq(T)
      /\ Len(back) = Len(s) - i
      /\ \A j \in 1 .. Len(s) - i : back[j] = s[i + j]
  <2>1. /\ back \in Seq(T)
        /\ Len(back) = IF i + 1 <= Len(s) THEN Len(s) - (i + 1) + 1 ELSE 0
        /\ \A j \in 1 .. Len(s) - (i + 1) + 1 : back[j] = s[i + 1 + j - 1]
    BY <1>1, SubSeqProperties
  <2> QED
    BY <1>1, <2>1
<1>4. /\ front \o back \in Seq(T)
      /\ Len(front \o back) = Len(front) + Len(back)
      /\ \A j \in 1 .. Len(front) + Len(back) :
           (front \o back)[j] = IF j <= Len(front) THEN front[j] ELSE back[j - Len(front)]
  BY <1>2, <1>3, ConcatProperties
<1>5. RemoveAt(s, i) = front \o back
  BY DEF RemoveAt
<1> HIDE DEF front, back
<1>6. Len(front \o back) = Len(s) - 1
  BY <1>1, <1>2, <1>3, <1>4
<1>7. ASSUME NEW j \in 1 .. Len(s) - 1
      PROVE  /\ j < i => (front \o back)[j] = s[j]
             /\ j >= i => (front \o back)[j] = s[j + 1]
  <2>1. CASE j < i
    BY <1>1, <1>2, <1>3, <1>4, <2>1
  <2>2. CASE j >= i
    <3>1. j - (i - 1) \in 1 .. Len(s) - i /\ i + (j - (i - 1)) = j + 1
      BY <1>1, <2>2
    <3>2. back[j - (i - 1)] = s[j + 1]
      BY <1>3, <3>1
    <3> QED
      BY <1>1, <1>2, <1>3, <1>4, <2>2, <3>2
  <2> QED
    BY <1>1, <2>1, <2>2
<1> QED
  BY <1>4, <1>5, <1>6, <1>7

(* A sequence without repeats still has none, and has lost one element. *)
LEMMA RemovalWithoutRepeats ==
  ASSUME NEW T, NEW s \in Seq(T), NEW i \in 1 .. Len(s),
         \A a, b \in 1 .. Len(s) : s[a] = s[b] => a = b
  PROVE  /\ \A a, b \in 1 .. Len(RemoveAt(s, i)) :
              RemoveAt(s, i)[a] = RemoveAt(s, i)[b] => a = b
         /\ Range(RemoveAt(s, i)) = Range(s) \ {s[i]}
<1>1. PICK n \in Nat : n = Len(s) /\ DOMAIN s = 1 .. n
  BY LenProperties
<1>2. PICK r : /\ r = RemoveAt(s, i)
               /\ r \in Seq(T)
               /\ Len(r) = n - 1
               /\ \A j \in 1 .. n - 1 : /\ j < i => r[j] = s[j]
                                        /\ j >= i => r[j] = s[j + 1]
  BY <1>1, RemoveAtEffect
<1>3. i \in 1 .. n /\ n - 1 \in Nat /\ DOMAIN r = 1 .. n - 1
  BY <1>1, <1>2, LenProperties
<1> DEFINE up(j) == IF j < i THEN j ELSE j + 1
<1>4. ASSUME NEW j \in 1 .. n - 1
      PROVE  up(j) \in 1 .. n /\ up(j) # i /\ r[j] = s[up(j)]
  <2>1. CASE j < i
    BY <1>2, <1>3, <2>1
  <2>2. CASE j >= i
    BY <1>2, <1>3, <2>2
  <2> QED
    BY <1>3, <2>1, <2>2
<1>5. ASSUME NEW a \in 1 .. n - 1, NEW b \in 1 .. n - 1, r[a] = r[b]
      PROVE  a = b
  <2>1. up(a) = up(b)
    <3> HIDE DEF up
    <3> QED
      BY <1>1, <1>4, <1>5
  <2> QED
    BY <1>3, <2>1
<1>6. ASSUME NEW j \in 1 .. n - 1
      PROVE  r[j] \in Range(s) \ {s[i]}
  <2> HIDE DEF up
  <2>1. s[up(j)] \in Range(s)
    BY <1>1, <1>4 DEF Range
  <2> QED
    BY <1>1, <1>3, <1>4, <2>1
<1>7. ASSUME NEW j \in 1 .. n, j # i
      PROVE  s[j] \in Range(r)
  <2>1. CASE j < i
    <3>1. j \in 1 .. n - 1
      BY <1>3, <2>1
    <3> QED
      BY <1>2, <1>3, <2>1, <3>1 DEF Range
  <2>2. CASE j > i
    <3>1. j - 1 \in 1 .. n - 1 /\ j - 1 >= i /\ (j - 1) + 1 = j
      BY <1>3, <2>2
    <3>2. r[j - 1] = s[j]
      BY <1>2, <3>1
    <3> QED
      BY <1>3, <3>1, <3>2 DEF Range
  <2> QED
    BY <1>3, <1>7, <2>1, <2>2
<1>8. Range(r) = Range(s) \ {s[i]}
  <2>1. ASSUME NEW x \in Range(r)
        PROVE  x \in Range(s) \ {s[i]}
    <3>1. PICK j \in 1 .. n - 1 : x = r[j]
      BY <1>3 DEF Range
    <3> QED
      BY <1>6, <3>1
  <2>2. ASSUME NEW x \in Range(s) \ {s[i]}
        PROVE  x \in Range(r)
    <3>1. PICK j \in 1 .. n : x = s[j]
      BY <1>1 DEF Range
    <3> QED
      BY <1>7, <3>1
  <2> QED
    BY <2>1, <2>2
<1> QED
  BY <1>2, <1>5, <1>8

(* The places of a sequence that has lost its oldest elements.             *)
LEMMA TailEffect ==
  ASSUME NEW T, NEW s \in Seq(T), NEW drop \in Nat, NEW l \in Nat, drop + l = Len(s)
  PROVE  /\ SubSeq(s, drop + 1, Len(s)) \in Seq(T)
         /\ Len(SubSeq(s, drop + 1, Len(s))) = l
         /\ \A j \in 1 .. l : SubSeq(s, drop + 1, Len(s))[j] = s[drop + j]
<1>1. PICK n \in Nat : n = Len(s) /\ drop + l = n
  BY LenProperties
<1>2. PICK tail : tail = SubSeq(s, drop + 1, n)
  OBVIOUS
<1>3. drop + 1 \in 1 .. n + 1 /\ n \in drop + 1 - 1 .. n
  BY <1>1
<1>4. /\ tail \in Seq(T)
      /\ Len(tail) = IF drop + 1 <= n THEN n - (drop + 1) + 1 ELSE 0
      /\ \A j \in 1 .. n - (drop + 1) + 1 : tail[j] = s[drop + 1 + j - 1]
  BY <1>1, <1>2, <1>3, SubSeqProperties
<1>5. Len(tail) = l
  BY <1>1, <1>4
<1>6. ASSUME NEW j \in 1 .. l
      PROVE  tail[j] = s[drop + j]
  <2>1. j \in 1 .. n - (drop + 1) + 1 /\ drop + 1 + j - 1 = drop + j
    BY <1>1
  <2> QED
    BY <1>4, <2>1
<1> QED
  BY <1>1, <1>2, <1>4, <1>5, <1>6

(* In a list without repeats a key has one place, the one remove finds. *)
LEMMA FirstPlace ==
  ASSUME NEW T, NEW s \in Seq(T), NEW i \in 1 .. Len(s),
         \A a, b \in 1 .. Len(s) : s[a] = s[b] => a = b
  PROVE  RemoveFirst(s, s[i]) = RemoveAt(s, i)
<1>1. {j \in 1 .. Len(s) : s[j] = s[i]} = {i}
  OBVIOUS
<1>2. Min({i}) = i
  BY DEF Min
<1>3. SelectInSeq(s, LAMBDA v : v = s[i]) = i
  BY <1>1, <1>2 DEF SelectInSeq
<1> QED
  BY <1>3 DEF RemoveFirst

-----------------------------------------------------------------------------
(* remove takes the key from list and map and leaves them in agreement. *)
LEMMA RemoveKeyEffect ==
  ASSUME NEW cache, Sound(cache), NEW k \in Keys
  PROVE  /\ Sound(RemoveKey(cache, k))
         /\ k \notin Range(RemoveKey(cache, k).order)
<1>1. PICK keys, bodies : keys = cache.order /\ bodies = cache.entries
  OBVIOUS
<1>2. /\ keys \in Seq(Keys)
      /\ bodies \in [Range(keys) -> Data]
      /\ \A a, b \in 1 .. Len(keys) : keys[a] = keys[b] => a = b
  BY <1>1 DEF Sound, Agree
<1>3. CASE k \notin Range(keys)
  <2>1. RemoveKey(cache, k) = cache
    BY <1>1, <1>2, <1>3 DEF RemoveKey
  <2> QED
    BY <1>1, <1>3, <2>1
<1>4. CASE k \in Range(keys)
  <2>1. PICK i \in 1 .. Len(keys) : keys[i] = k
    BY <1>2, <1>4, LenProperties DEF Range
  <2>2. PICK r : r = RemoveAt(keys, i)
    OBVIOUS
  <2>3. r = RemoveFirst(keys, k)
    BY <1>2, <2>1, <2>2, FirstPlace
  <2>4. r \in Seq(Keys)
    BY <1>2, <2>2, RemoveAtEffect
  <2>5. /\ \A a, b \in 1 .. Len(r) : r[a] = r[b] => a = b
        /\ Range(r) = Range(keys) \ {k}
    BY <1>2, <2>1, <2>2, RemovalWithoutRepeats
  <2>6. PICK kept : kept = [x \in Range(r) |-> bodies[x]]
    OBVIOUS
  <2>7. kept \in [Range(r) -> Data]
    BY <1>2, <2>5, <2>6
  <2>8. RemoveKey(cache, k) = [order |-> r, entries |-> kept]
    BY <1>1, <1>2, <1>4, <2>3, <2>5, <2>6 DEF RemoveKey, Restrict
  <2>9. Agree(r, kept)
    BY <2>4, <2>5, <2>7 DEF Agree
  <2> QED
    BY <2>5, <2>8, <2>9 DEF Sound
<1> QED
  BY <1>3, <1>4

(* set leaves list and map in agreement: the key is last, with its body. *)
LEMMA SetKeyEffect ==
  ASSUME NEW cache, Sound(cache), NEW k \in Keys, NEW d \in Data
  PROVE  Sound(SetKey(cache, k, d))
<1>1. PICK keys, bodies : /\ keys = RemoveKey(cache, k).order
                          /\ bodies = RemoveKey(cache, k).entries
  OBVIOUS
<1>2. /\ keys \in Seq(Keys)
      /\ bodies \in [Range(keys) -> Data]
      /\ \A a, b \in 1 .. Len(keys) : keys[a] = keys[b] => a = b
      /\ k \notin Range(keys)
  BY <1>1, RemoveKeyEffect DEF Sound, Agree
<1>3. PICK n \in Nat : n = Len(keys) /\ DOMAIN keys = 1 .. n
  BY <1>2, LenProperties
<1>4. PICK longer : longer = Append(keys, k)
  OBVIOUS
<1>5. /\ longer \in Seq(Keys)
      /\ Len(longer) = n + 1
      /\ DOMAIN longer = 1 .. n + 1
      /\ \A j \in 1 .. n : longer[j] = keys[j]
      /\ longer[n + 1] = k
  BY <1>2, <1>3, <1>4, AppendProperties, LenProperties
<1>6. \A j \in 1 .. n : keys[j] \in Range(keys) /\ keys[j] # k
  BY <1>2, <1>3 DEF Range
<1>7. ASSUME NEW a \in 1 .. n + 1, NEW b \in 1 .. n + 1, longer[a] = longer[b]
      PROVE  a = b
  <2>1. CASE a \in 1 .. n /\ b \in 1 .. n
    BY <1>2, <1>3, <1>5, <1>7, <2>1
  <2>2. CASE a = n + 1 /\ b \in 1 .. n
    BY <1>5, <1>6, <1>7, <2>2
  <2>3. CASE a \in 1 .. n /\ b = n + 1
    BY <1>5, <1>6, <1>7, <2>3
  <2> QED
    BY <1>3, <2>1, <2>2, <2>3
<1>8. Range(longer) = Range(keys) \cup {k}
  <2>1. ASSUME NEW x \in Range(longer)
        PROVE  x \in Range(keys) \cup {k}
    <3>1. PICK j \in 1 .. n + 1 : x = longer[j]
      BY <1>5 DEF Range
    <3>2. j \in 1 .. n \/ j = n + 1
      BY <1>3
    <3> QED
      BY <1>5, <1>6, <3>1, <3>2
  <2>2. ASSUME NEW x \in Range(keys) \cup {k}
        PROVE  x \in Range(longer)
    <3>1. CASE x = k
      BY <1>3, <1>5, <3>1 DEF Range
    <3>2. CASE x \in Range(keys)
      <4>1. PICK j \in 1 .. n : x = keys[j]
        BY <1>3, <3>2 DEF Range
      <4>2. j \in 1 .. n + 1 /\ x = longer[j]
        BY <1>3, <1>5, <4>1
      <4> QED
        BY <1>5, <4>2 DEF Range
    <3> QED
      BY <3>1, <3>2
  <2> QED
    BY <2>1, <2>2
<1>9. PICK grown : grown = [x \in Range(keys) \cup {k} |-> IF x = k THEN d ELSE bodies[x]]
  OBVIOUS
<1>10. grown \in [Range(longer) -> Data]
  BY <1>2, <1>8, <1>9
<1>11. SetKey(cache, k, d) = [order |-> longer, entries |-> grown]
  <2>1. DOMAIN bodies = Range(keys)
    BY <1>2
  <2> QED
    BY <1>1, <1>4, <1>9, <2>1 DEF SetKey
<1>12. Agree(longer, grown)
  BY <1>5, <1>7, <1>10 DEF Agree
<1> QED
  BY <1>11, <1>12 DEF Sound

(* evict takes the same keys from list and map, and leaves at most Limit. *)
LEMMA EvictEffect ==
  ASSUME NEW cache, Sound(cache)
  PROVE  /\ Sound(Evict(cache))
         /\ Limit > 0 => Len(Evict(cache).order) <= Limit
<1>1. PICK keys, bodies : keys = cache.order /\ bodies = cache.entries
  OBVIOUS
<1>2. /\ keys \in Seq(Keys)
      /\ bodies \in [Range(keys) -> Data]
      /\ \A a, b \in 1 .. Len(keys) : keys[a] = keys[b] => a = b
  BY <1>1 DEF Sound, Agree
<1>3. PICK n \in Nat : n = Len(keys) /\ DOMAIN keys = 1 .. n
  BY <1>2, LenProperties
<1>4. PICK l \in Nat : l = Limit
  BY CacheAssumption DEF Limit
<1>5. CASE ~(l > 0 /\ n > l)
  <2>1. Evict(cache) = cache
    BY <1>1, <1>3, <1>4, <1>5 DEF Evict
  <2> QED
    BY <1>1, <1>3, <1>4, <1>5, <2>1
<1>6. CASE l > 0 /\ n > l
  <2>1. PICK drop \in Nat : drop = n - l /\ drop + l = n /\ drop <= n
    BY <1>6
  <2>2. PICK tail : tail = SubSeq(keys, drop + 1, n)
    OBVIOUS
  <2>3. /\ tail \in Seq(Keys)
        /\ Len(tail) = l
        /\ \A j \in 1 .. l : tail[j] = keys[drop + j]
    BY <1>2, <1>3, <2>1, <2>2, TailEffect
  <2>4. DOMAIN tail = 1 .. l
    BY <2>3, LenProperties
  <2>5. ASSUME NEW a \in 1 .. l, NEW b \in 1 .. l, tail[a] = tail[b]
        PROVE  a = b
    <3>1. drop + a \in 1 .. n /\ drop + b \in 1 .. n
      BY <2>1
    <3>2. keys[drop + a] = keys[drop + b]
      BY <2>3, <2>5
    <3>3. drop + a = drop + b
      BY <1>2, <1>3, <3>1, <3>2
    <3> QED
      BY <2>1, <3>3
  <2>6. PICK gone : gone = {keys[j] : j \in 1 .. drop}
    OBVIOUS
  <2>7. Range(tail) = Range(keys) \ gone
    <3>1. ASSUME NEW x \in Range(tail)
          PROVE  x \in Range(keys) \ gone
      <4>1. PICK j \in 1 .. l : x = tail[j]
        BY <2>4 DEF Range
      <4>2. drop + j \in 1 .. n /\ x = keys[drop + j]
        BY <2>1, <2>3, <4>1
      <4>3. \A g \in 1 .. drop : g \in 1 .. n /\ g # drop + j
        BY <2>1
      <4>4. \A g \in 1 .. drop : keys[g] # x
        BY <1>2, <1>3, <4>2, <4>3
      <4> QED
        BY <1>3, <2>6, <4>2, <4>4 DEF Range
    <3>2. ASSUME NEW x \in Range(keys) \ gone
          PROVE  x \in Range(tail)
      <4>1. PICK j \in 1 .. n : x = keys[j]
        BY <1>3 DEF Range
      <4>2. j \notin 1 .. drop
        BY <2>6, <4>1
      <4>3. j - drop \in 1 .. l /\ drop + (j - drop) = j
        BY <2>1, <4>2
      <4>4. x = tail[j - drop]
        BY <2>3, <4>1, <4>3
      <4> QED
        BY <2>4, <4>3, <4>4 DEF Range
    <3> QED
      BY <3>1, <3>2
  <2>8. PICK kept : kept = [x \in Range(tail) |-> bodies[x]]
    OBVIOUS
  <2>9. kept \in [Range(tail) -> Data]
    BY <1>2, <2>7, <2>8
  <2>10. Evict(cache) = [order |-> tail, entries |-> kept]
    <3>1. DOMAIN bodies = Range(keys)
      BY <1>2
    <3> QED
      BY <1>1, <1>3, <1>4, <1>6, <2>1, <2>2, <2>6, <2>7, <2>8, <3>1 DEF Evict, Restrict
  <2>11. Agree(tail, kept)
    BY <2>3, <2>5, <2>9 DEF Agree
  <2> QED
    BY <1>4, <2>3, <2>10, <2>11 DEF Sound
<1> QED
  BY <1>5, <1>6

(* A manifest without a cache counts as one with an empty, sound cache. *)
LEMMA EnsuredIsSound ==
  ASSUME CacheInv, NEW m \in ManifestIDs
  PROVE  Sound(EnsureManifest(m))
<1>1. Agree(<<>>, [k \in {} |-> Miss])
  <2>1. <<>> \in Seq(Keys) /\ Len(<<>>) = 0 /\ Range(<<>>) = {}
    BY DEF Range
  <2> QED
    BY <2>1 DEF Agree
<1>2. Sound(NoManifest)
  BY <1>1 DEF Sound, NoManifest
<1> QED
  BY <1>2 DEF CacheInv, EnsureManifest

-----------------------------------------------------------------------------
(* Every operation leaves every cache sound.                               *)
LEMMA CacheInvInductive == Spec => []CacheInv
<1>1. Init => CacheInv
  BY DEF Init, CacheInv
<1>2. ASSUME CacheInv, [Next]_vars
      PROVE  CacheInv'
  <2>1. ASSUME NEW m \in ManifestIDs, NEW k \in Keys, NEW d \in Data, Save(m, k, d)
        PROVE  CacheInv'
    <3>1. PICK new : new = Evict(SetKey(EnsureManifest(m), k, d))
      OBVIOUS
    <3>2. Sound(new)
      BY <1>2, <3>1, EnsuredIsSound, SetKeyEffect, EvictEffect
    <3>3. manifests' = [x \in DOMAIN manifests \cup {m} |->
                          IF x = m THEN new ELSE manifests[x]]
      BY <2>1, <3>1 DEF Save, Put
    <3> QED
      BY <1>2, <3>2, <3>3 DEF CacheInv
  <2>2. ASSUME NEW m \in ManifestIDs, NEW k \in Keys, Load(m, k)
        PROVE  CacheInv'
    BY <1>2, <2>2 DEF Load, CacheInv
  <2>3. ASSUME NEW m \in ManifestIDs, Clear(m)
        PROVE  CacheInv'
    <3>1. manifests' = [x \in DOMAIN manifests \ {m} |-> manifests[x]]
      BY <2>3 DEF Clear, Restrict
    <3> QED
      BY <1>2, <3>1 DEF CacheInv
  <2>4. CASE ClearAll
    BY <2>4 DEF ClearAll, CacheInv
  <2>5. CASE UNCHANGED vars
    BY <1>2, <2>5 DEF vars, CacheInv
  <2> QED
    BY <1>2, <2>1, <2>2, <2>3, <2>4, <2>5 DEF Next
<1> QED
  BY <1>1, <1>2, PTL DEF Spec

(* However saves, evictions and clears of any manifests follow each other, *)
(* the list and the map of a manifest's cache hold the same keys, each     *)
(* listed once.                                                            *)
THEOREM CacheIsConsistent == Spec => []CacheConsistent
<1>1. CacheInv => CacheConsistent
  BY DEF CacheInv, Sound, Agree, CacheConsistent
<1> QED
  BY <1>1, CacheInvInductive, PTL

-----------------------------------------------------------------------------
(* What a list of keys and the bodies of a map hold, oldest first.         *)
Image(keys, bodies) ==
  [i \in 1 .. Len(keys) |-> [key |-> keys[i], data |-> bodies[keys[i]]]]

(* Two maps hold the same bodies for the keys of a list.                   *)
Coincide(others, bodies, keys) == \A x \in Range(keys) : others[x] = bodies[x]

(* An image is a sequence, one element for each key of the list.           *)
LEMMA ImageIsSeq ==
  ASSUME NEW keys \in Seq(Keys), NEW bodies
  PROVE  /\ Len(Image(keys, bodies)) = Len(keys)
         /\ Image(keys, bodies) \in Seq(Range(Image(keys, bodies)))
         /\ \A j \in 1 .. Len(keys) :
              Image(keys, bodies)[j] = [key |-> keys[j], data |-> bodies[keys[j]]]
<1>1. PICK n \in Nat : n = Len(keys)
  BY LenProperties
<1>2. PICK f : f = Image(keys, bodies)
  OBVIOUS
<1>3. /\ DOMAIN f = 1 .. n
      /\ f = [j \in 1 .. n |-> f[j]]
      /\ \A j \in 1 .. n : f[j] = [key |-> keys[j], data |-> bodies[keys[j]]]
  BY <1>1, <1>2 DEF Image
<1>4. \A j \in 1 .. n : f[j] \in Range(f)
  BY <1>3 DEF Range
<1>5. f \in [1 .. n -> Range(f)]
  BY <1>3, <1>4
<1>6. f \in Seq(Range(f))
  BY <1>5
<1>7. Len(f) = n
  BY <1>3, <1>6, LenProperties
<1> QED
  BY <1>1, <1>2, <1>3, <1>6, <1>7

(* An image is what any sequence of its length with its elements is.       *)
LEMMA IsImage ==
  ASSUME NEW keys \in Seq(Keys), NEW bodies, NEW T, NEW g \in Seq(T),
         Len(g) = Len(keys),
         \A j \in 1 .. Len(keys) : g[j] = [key |-> keys[j], data |-> bodies[keys[j]]]
  PROVE  g = Image(keys, bodies)
<1>1. g = [j \in 1 .. Len(keys) |-> g[j]]
  BY LenProperties
<1> QED
  BY <1>1 DEF Image

(* Taking the image commutes with the removal of a place ...               *)
LEMMA ImageOfRemoval ==
  ASSUME NEW keys \in Seq(Keys), NEW i \in 1 .. Len(keys), NEW bodies, NEW others,
         Coincide(others, bodies, RemoveAt(keys, i))
  PROVE  RemoveAt(Image(keys, bodies), i) = Image(RemoveAt(keys, i), others)
<1>1. PICK n \in Nat : n = Len(keys)
  BY LenProperties
<1>2. PICK r : r = RemoveAt(keys, i)
  OBVIOUS
<1>3. /\ r \in Seq(Keys)
      /\ Len(r) = n - 1
      /\ \A j \in 1 .. n - 1 : /\ j < i => r[j] = keys[j]
                               /\ j >= i => r[j] = keys[j + 1]
  BY <1>1, <1>2, RemoveAtEffect
<1>4. PICK f : f = Image(keys, bodies)
  OBVIOUS
<1>5. /\ Len(f) = n
      /\ f \in Seq(Range(f))
      /\ \A j \in 1 .. n : f[j] = [key |-> keys[j], data |-> bodies[keys[j]]]
  BY <1>1, <1>4, ImageIsSeq
<1>6. PICK g : g = RemoveAt(f, i)
  OBVIOUS
<1>7. i \in 1 .. Len(f) /\ i \in 1 .. n
  BY <1>1, <1>5
<1>8. /\ g \in Seq(Range(f))
      /\ Len(g) = n - 1
      /\ \A j \in 1 .. n - 1 : /\ j < i => g[j] = f[j]
                               /\ j >= i => g[j] = f[j + 1]
  BY <1>5, <1>6, <1>7, RemoveAtEffect
<1>9. ASSUME NEW j \in 1 .. n - 1
      PROVE  g[j] = [key |-> r[j], data |-> others[r[j]]]
  <2>1. others[r[j]] = bodies[r[j]]
    BY <1>2, <1>3, LenProperties DEF Range, Coincide
  <2>2. CASE j < i
    <3>1. j \in 1 .. n /\ r[j] = keys[j] /\ g[j] = f[j]
      BY <1>3, <1>7, <1>8, <2>2
    <3> QED
      BY <1>5, <2>1, <3>1
  <2>3. CASE j >= i
    <3>1. j + 1 \in 1 .. n /\ r[j] = keys[j + 1] /\ g[j] = f[j + 1]
      BY <1>3, <1>7, <1>8, <2>3
    <3> QED
      BY <1>5, <2>1, <3>1
  <2> QED
    BY <1>7, <2>2, <2>3
<1>10. g = Image(r, others)
  <2>1. /\ Len(g) = Len(r)
        /\ \A j \in 1 .. Len(r) : g[j] = [key |-> r[j], data |-> others[r[j]]]
    BY <1>3, <1>8, <1>9
  <2> QED
    BY <1>3, <1>8, <2>1, IsImage
<1> QED
  BY <1>2, <1>4, <1>6, <1>10

(* ... with the addition of a key ...                                      *)
LEMMA ImageOfAppend ==
  ASSUME NEW keys \in Seq(Keys), NEW k \in Keys, NEW bodies, NEW others,
         Coincide(others, bodies, keys)
  PROVE  Append(Image(keys, bodies), [key |-> k, data |-> others[k]])
           = Image(Append(keys, k), others)
<1>1. PICK n \in Nat : n = Len(keys)
  BY LenProperties
<1>2. PICK r : r = Append(keys, k)
  OBVIOUS
<1>3. /\ r \in Seq(Keys)
      /\ Len(r) = n + 1
      /\ \A j \in 1 .. n : r[j] = keys[j]
      /\ r[n + 1] = k
  BY <1>1, <1>2, AppendProperties
<1>4. PICK f : f = Image(keys, bodies)
  OBVIOUS
<1>5. /\ Len(f) = n
      /\ f \in Seq(Range(f))
      /\ \A j \in 1 .. n : f[j] = [key |-> keys[j], data |-> bodies[keys[j]]]
  BY <1>1, <1>4, ImageIsSeq
<1>6. PICK e : e = [key |-> k, data |-> others[k]]
  OBVIOUS
<1>7. PICK T : T = Range(f) \cup {e}
  OBVIOUS
<1>8. f \in Seq(T) /\ e \in T
  <2>1. \A j \in 1 .. n : f[j] \in T
    BY <1>5, <1>7, LenProperties DEF Range
  <2>2. f \in [1 .. n -> T]
    BY <1>5, <2>1, LenProperties
  <2> QED
    BY <1>7, <2>2
<1>9. PICK g : g = Append(f, e)
  OBVIOUS
<1>10. /\ g \in Seq(T)
       /\ Len(g) = n + 1
       /\ \A j \in 1 .. n : g[j] = f[j]
       /\ g[n + 1] = e
  BY <1>5, <1>8, <1>9, AppendProperties
<1>11. ASSUME NEW j \in 1 .. n + 1
       PROVE  g[j] = [key |-> r[j], data |-> others[r[j]]]
  <2>1. CASE j \in 1 .. n
    <3>1. r[j] = keys[j] /\ g[j] = [key |-> keys[j], data |-> bodies[keys[j]]]
      BY <1>3, <1>5, <1>10, <2>1
    <3>2. others[keys[j]] = bodies[keys[j]]
      BY <1>1, <2>1, LenProperties DEF Range, Coincide
    <3> QED
      BY <3>1, <3>2
  <2>2. CASE j = n + 1
    BY <1>3, <1>6, <1>10, <2>2
  <2> QED
    BY <1>1, <2>1, <2>2
<1>12. g = Image(r, others)
  <2>1. /\ Len(g) = Len(r)
        /\ \A j \in 1 .. Len(r) : g[j] = [key |-> r[j], data |-> others[r[j]]]
    BY <1>3, <1>10, <1>11
  <2> QED
    BY <1>3, <1>10, <2>1, IsImage
<1> QED
  BY <1>2, <1>4, <1>6, <1>9, <1>12

(* ... and with the loss of the oldest places.                             *)
LEMMA ImageOfTail ==
  ASSUME NEW keys \in Seq(Keys), NEW bodies, NEW others,
         NEW drop \in Nat, drop <= Len(keys),
         Coincide(others, bodies, SubSeq(keys, drop + 1, Len(keys)))
  PROVE  SubSeq(Image(keys, bodies), drop + 1, Len(keys))
           = Image(SubSeq(keys, drop + 1, Len(keys)), others)
<1>1. PICK n \in Nat : n = Len(keys)
  BY LenProperties
<1>2. PICK l \in Nat : l = n - drop /\ drop + l = n
  <2>1. n - drop \in Nat /\ drop + (n - drop) = n
    BY <1>1
  <2> QED
    BY <2>1
<1>3. \A j \in 1 .. l : drop + j \in 1 .. n
  BY <1>1, <1>2
<1>4. PICK r : r = SubSeq(keys, drop + 1, n)
  OBVIOUS
<1>5. /\ r \in Seq(Keys)
      /\ Len(r) = l
      /\ \A j \in 1 .. l : r[j] = keys[drop + j]
  BY <1>1, <1>2, <1>4, TailEffect
<1>6. PICK f : f = Image(keys, bodies)
  OBVIOUS
<1>7. /\ Len(f) = n
      /\ f \in Seq(Range(f))
      /\ \A j \in 1 .. n : f[j] = [key |-> keys[j], data |-> bodies[keys[j]]]
  BY <1>1, <1>6, ImageIsSeq
<1>8. PICK g : g = SubSeq(f, drop + 1, n)
  OBVIOUS
<1>9. /\ g \in Seq(Range(f))
      /\ Len(g) = l
      /\ \A j \in 1 .. l : g[j] = f[drop + j]
  BY <1>2, <1>7, <1>8, TailEffect
<1>10. ASSUME NEW j \in 1 .. l
       PROVE  g[j] = [key |-> r[j], data |-> others[r[j]]]
  <2>1. others[r[j]] = bodies[r[j]]
    BY <1>1, <1>4, <1>5, LenProperties DEF Range, Coincide
  <2>2. PICK p \in 1 .. n : p = drop + j
    BY <1>3
  <2>3. r[j] = keys[p] /\ g[j] = f[p]
    BY <1>5, <1>9, <2>2
  <2> QED
    BY <1>7, <2>1, <2>3
<1>11. g = Image(r, others)
  <2>1. /\ Len(g) = Len(r)
        /\ \A j \in 1 .. Len(r) : g[j] = [key |-> r[j], data |-> others[r[j]]]
    BY <1>5, <1>9, <1>10
  <2> QED
    BY <1>5, <1>9, <2>1, IsImage
<1> QED
  BY <1>1, <1>4, <1>6, <1>8, <1>11

-----------------------------------------------------------------------------
(* The refinement mapping of SegmentCache, as an image.                    *)
LEMMA ContentsAreImage ==
  ASSUME NEW cache
  PROVE  Contents(cache) = Image(cache.order, cache.entries)
BY DEF Contents, Image

(* remove does to what a cache holds what the tier does.                   *)
LEMMA RemoveKeyRefines ==
  ASSUME NEW cache, Sound(cache), NEW k \in Keys
  PROVE  /\ Contents(RemoveKey(cache, k)) = Tier!Without(Contents(cache), k)
         /\ \A x \in Range(RemoveKey(cache, k).order) :
              RemoveKey(cache, k).entries[x] = cache.entries[x]
<1>1. PICK keys, bodies : keys = cache.order /\ bodies = cache.entries
  OBVIOUS
<1>2. /\ keys \in Seq(Keys)
      /\ bodies \in [Range(keys) -> Data]
      /\ \A a, b \in 1 .. Len(keys) : keys[a] = keys[b] => a = b
  BY <1>1 DEF Sound, Agree
<1>3. PICK n \in Nat : n = Len(keys) /\ DOMAIN keys = 1 .. n
  BY <1>2, LenProperties
<1>4. PICK f : f = Contents(cache)
  OBVIOUS
<1>5. /\ f = Image(keys, bodies)
      /\ Len(f) = n
      /\ \A j \in 1 .. n : f[j] = [key |-> keys[j], data |-> bodies[keys[j]]]
  BY <1>1, <1>2, <1>3, <1>4, ContentsAreImage, ImageIsSeq
<1>6. \A j \in 1 .. n : f[j].key = keys[j]
  BY <1>5
<1>7. CASE k \notin Range(keys)
  <2>1. RemoveKey(cache, k) = cache
    BY <1>1, <1>2, <1>7 DEF RemoveKey
  <2>2. ~ \E j \in 1 .. Len(f) : f[j].key = k
    BY <1>3, <1>5, <1>6, <1>7 DEF Range
  <2>3. Tier!Without(f, k) = f
    BY <2>2 DEF Tier!Without
  <2> QED
    BY <1>4, <2>1, <2>3
<1>8. CASE k \in Range(keys)
  <2>1. PICK i \in 1 .. n : keys[i] = k
    BY <1>3, <1>8 DEF Range
  <2>2. RemoveFirst(keys, k) = RemoveAt(keys, i)
    BY <1>2, <1>3, <2>1, FirstPlace
  <2>3. Range(RemoveAt(keys, i)) = Range(keys) \ {k}
    BY <1>2, <1>3, <2>1, RemovalWithoutRepeats
  <2>4. PICK kept : kept = [x \in Range(keys) \ {k} |-> bodies[x]]
    OBVIOUS
  <2>5. RemoveKey(cache, k) = [order |-> RemoveAt(keys, i), entries |-> kept]
    BY <1>1, <1>2, <1>8, <2>2, <2>4 DEF RemoveKey, Restrict
  <2>6. Coincide(kept, bodies, RemoveAt(keys, i))
    BY <2>3, <2>4 DEF Coincide
  <2>7. Contents(RemoveKey(cache, k)) = Image(RemoveAt(keys, i), kept)
    BY <2>5, ContentsAreImage
  <2>8. Image(RemoveAt(keys, i), kept) = RemoveAt(f, i)
    <3>1. i \in 1 .. Len(keys) /\ keys \in Seq(Keys)
      BY <1>2, <1>3
    <3>2. RemoveAt(Image(keys, bodies), i) = Image(RemoveAt(keys, i), kept)
      BY <2>6, <3>1, ImageOfRemoval
    <3> QED
      BY <1>5, <3>2
  <2>9. Tier!Without(f, k) = RemoveAt(f, i)
    <3>1. \A j \in 1 .. Len(f) : f[j].key = k <=> j = i
      BY <1>2, <1>3, <1>5, <1>6, <2>1
    <3>2. i \in 1 .. Len(f)
      BY <1>5
    <3>3. (CHOOSE j \in 1 .. Len(f) : f[j].key = k) = i
      BY <3>1, <3>2
    <3> QED
      BY <3>1, <3>2, <3>3 DEF Tier!Without, RemoveAt
  <2> QED
    BY <1>1, <1>4, <2>5, <2>6, <2>7, <2>8, <2>9 DEF Coincide
<1> QED
  BY <1>7, <1>8

(* set does to the contents what the tier does before it drops the oldest. *)
LEMMA SetKeyRefines ==
  ASSUME NEW cache, Sound(cache), NEW k \in Keys, NEW d \in Data
  PROVE  Contents(SetKey(cache, k, d))
           = Append(Tier!Without(Contents(cache), k), [key |-> k, data |-> d])
<1>1. PICK keys, bodies : /\ keys = RemoveKey(cache, k).order
                          /\ bodies = RemoveKey(cache, k).entries
  OBVIOUS
<1>2. /\ keys \in Seq(Keys)
      /\ bodies \in [Range(keys) -> Data]
      /\ k \notin Range(keys)
  BY <1>1, RemoveKeyEffect DEF Sound, Agree
<1>3. PICK grown : grown = [x \in Range(keys) \cup {k} |-> IF x = k THEN d ELSE bodies[x]]
  OBVIOUS
<1>4. /\ \A x \in Range(keys) : grown[x] = bodies[x]
      /\ grown[k] = d
  BY <1>2, <1>3
<1>5. SetKey(cache, k, d) = [order |-> Append(keys, k), entries |-> grown]
  <2>1. DOMAIN bodies = Range(keys)
    BY <1>2
  <2> QED
    BY <1>1, <1>3, <2>1 DEF SetKey
<1>6. Contents(SetKey(cache, k, d)) = Image(Append(keys, k), grown)
  <2>1. /\ SetKey(cache, k, d).order = Append(keys, k)
        /\ SetKey(cache, k, d).entries = grown
    BY <1>5
  <2> QED
    BY <2>1, ContentsAreImage, Zenon
<1>7. Contents(RemoveKey(cache, k)) = Image(keys, bodies)
  BY <1>1, ContentsAreImage
<1>8. Append(Image(keys, bodies), [key |-> k, data |-> grown[k]]) = Image(Append(keys, k), grown)
  <2>1. keys \in Seq(Keys) /\ Coincide(grown, bodies, keys)
    BY <1>2, <1>4 DEF Coincide
  <2> QED
    BY <2>1, ImageOfAppend
<1> QED
  BY <1>4, <1>6, <1>7, <1>8, RemoveKeyRefines

(* evict leaves of the contents what the limit of the tier leaves.         *)
LEMMA EvictRefines ==
  ASSUME NEW cache, Sound(cache)
  PROVE  Contents(Evict(cache)) = Tier!Newest(Contents(cache))
<1>1. PICK keys, bodies : keys = cache.order /\ bodies = cache.entries
  OBVIOUS
<1>2. /\ keys \in Seq(Keys)
      /\ bodies \in [Range(keys) -> Data]
      /\ \A a, b \in 1 .. Len(keys) : keys[a] = keys[b] => a = b
  BY <1>1 DEF Sound, Agree
<1>3. PICK n \in Nat : n = Len(keys) /\ DOMAIN keys = 1 .. n
  BY <1>2, LenProperties
<1>4. PICK l \in Nat : l = Limit
  BY CacheAssumption DEF Limit
<1>5. PICK f : f = Contents(cache)
  OBVIOUS
<1>6. /\ f = Image(keys, bodies)
      /\ Len(f) = n
  BY <1>1, <1>2, <1>3, <1>5, ContentsAreImage, ImageIsSeq
<1>7. CASE ~(l > 0 /\ n > l)
  <2>1. Evict(cache) = cache
    BY <1>1, <1>3, <1>4, <1>7 DEF Evict
  <2>2. Tier!Newest(f) = f
    BY <1>4, <1>6, <1>7 DEF Tier!Newest
  <2> QED
    BY <1>5, <2>1, <2>2
<1>8. CASE l > 0 /\ n > l
  <2>1. PICK drop \in Nat : drop = n - l /\ drop + l = n /\ drop <= n
    BY <1>8
  <2>2. PICK tail : tail = SubSeq(keys, drop + 1, n)
    OBVIOUS
  <2>3. PICK kept : kept = Restrict(bodies, DOMAIN bodies \ {keys[j] : j \in 1 .. drop})
    OBVIOUS
  <2>4. Evict(cache) = [order |-> tail, entries |-> kept]
    BY <1>1, <1>3, <1>4, <1>8, <2>1, <2>2, <2>3 DEF Evict
  <2>5. DOMAIN kept = Range(tail)
    BY <2>4, EvictEffect DEF Sound, Agree
  <2>6. \A x \in Range(tail) : kept[x] = bodies[x]
    BY <2>3, <2>5 DEF Restrict
  <2>7. SubSeq(f, drop + 1, n) = Image(tail, kept)
    <3>1. /\ keys \in Seq(Keys)
          /\ drop <= Len(keys)
          /\ tail = SubSeq(keys, drop + 1, Len(keys))
      BY <1>2, <1>3, <2>1, <2>2
    <3>2. Coincide(kept, bodies, SubSeq(keys, drop + 1, Len(keys)))
      BY <2>6, <3>1 DEF Coincide
    <3>3. SubSeq(Image(keys, bodies), drop + 1, Len(keys))
            = Image(SubSeq(keys, drop + 1, Len(keys)), kept)
      BY <3>1, <3>2, ImageOfTail
    <3> QED
      BY <1>3, <1>6, <3>1, <3>3
  <2>8. Tier!Newest(f) = SubSeq(f, drop + 1, n)
    BY <1>4, <1>6, <1>8, <2>1 DEF Tier!Newest
  <2>9. Contents(Evict(cache)) = Image(tail, kept)
    BY <2>4, ContentsAreImage
  <2> QED
    BY <1>5, <2>7, <2>8, <2>9
<1> QED
  BY <1>7, <1>8

-----------------------------------------------------------------------------
(* What the tier holds for each manifest.                                  *)
Held == [m \in ManifestIDs |-> Contents(EnsureManifest(m))]

(* A manifest without a cache holds nothing.                               *)
LEMMA NothingHeld == Contents(NoManifest) = <<>>
<1>1. NoManifest.order = <<>>
  BY DEF NoManifest
<1> QED
  BY <1>1 DEF Contents

(* The tier starts empty.                                                  *)
LEMMA InitRefines == Init => Tier!Init
<1> SUFFICES ASSUME Init PROVE Tier!Init
  OBVIOUS
<1>1. \A m \in ManifestIDs : EnsureManifest(m) = NoManifest
  BY DEF Init, EnsureManifest
<1>2. Held = [m \in ManifestIDs |-> <<>>]
  BY <1>1, NothingHeld DEF Held
<1> QED
  BY <1>2 DEF Init, Held, Tier!Init

(* Save is a save of the tier, and touches no other manifest.              *)
LEMMA SaveRefines ==
  ASSUME CacheInv, NEW m \in ManifestIDs, NEW k \in Keys, NEW d \in Data, Save(m, k, d)
  PROVE  Tier!Save(m, k, d)
<1>1. PICK new : new = Evict(SetKey(EnsureManifest(m), k, d))
  OBVIOUS
<1>2. manifests' = [x \in DOMAIN manifests \cup {m} |->
                      IF x = m THEN new ELSE manifests[x]]
  BY <1>1 DEF Save, Put
<1>3. \A x \in ManifestIDs : EnsureManifest(x)' = IF x = m THEN new ELSE EnsureManifest(x)
  BY <1>2 DEF EnsureManifest
<1>4. Contents(new) = Tier!Newest(Append(Tier!Without(Contents(EnsureManifest(m)), k),
                                         [key |-> k, data |-> d]))
  <2>1. Sound(EnsureManifest(m))
    BY EnsuredIsSound
  <2>2. Contents(SetKey(EnsureManifest(m), k, d))
          = Append(Tier!Without(Contents(EnsureManifest(m)), k), [key |-> k, data |-> d])
    BY <2>1, SetKeyRefines
  <2>3. Sound(SetKey(EnsureManifest(m), k, d))
    BY <2>1, SetKeyEffect
  <2> QED
    BY <1>1, <2>2, <2>3, EvictRefines
<1>5. Held' = [Held EXCEPT ![m] = Tier!Newest(Append(Tier!Without(@, k),
                                                    [key |-> k, data |-> d]))]
  <2>1. Held[m] = Contents(EnsureManifest(m))
    BY DEF Held
  <2>2. Held' = [x \in ManifestIDs |->
                   IF x = m THEN Contents(new) ELSE Contents(EnsureManifest(x))]
    BY <1>3 DEF Held
  <2> QED
    BY <1>4, <2>1, <2>2 DEF Held
<1> QED
  BY <1>5 DEF Held, Tier!Save, Save

(* Load gives the answer of the tier.                                      *)
LEMMA LoadRefines ==
  ASSUME CacheInv, NEW m \in ManifestIDs, NEW k \in Keys, Load(m, k)
  PROVE  Tier!Load(m, k)
<1>1. PICK keys, bodies : /\ keys = EnsureManifest(m).order
                          /\ bodies = EnsureManifest(m).entries
  OBVIOUS
<1>2. /\ keys \in Seq(Keys)
      /\ bodies \in [Range(keys) -> Data]
  BY <1>1, EnsuredIsSound DEF Sound, Agree
<1>3. reply' = IF k \in Range(keys) THEN bodies[k] ELSE Miss
  <2>1. CASE m \in DOMAIN manifests
    BY <1>1, <1>2, <2>1 DEF Load, EnsureManifest
  <2>2. CASE m \notin DOMAIN manifests
    <3>1. bodies = [x \in {} |-> Miss]
      BY <1>1, <2>2 DEF EnsureManifest, NoManifest
    <3>2. Range(keys) = {}
      BY <1>2, <3>1
    <3> QED
      BY <2>2, <3>2 DEF Load
  <2> QED
    BY <2>1, <2>2
<1>4. PICK n \in Nat : n = Len(keys) /\ DOMAIN keys = 1 .. n
  BY <1>2, LenProperties
<1>5. PICK f : f = Held[m]
  OBVIOUS
<1>6. /\ Len(f) = n
      /\ \A j \in 1 .. n : f[j] = [key |-> keys[j], data |-> bodies[keys[j]]]
  <2>1. f = Image(keys, bodies)
    BY <1>1, <1>5, ContentsAreImage DEF Held
  <2> QED
    BY <1>2, <1>4, <2>1, ImageIsSeq
<1>7. \A j \in 1 .. n : f[j].key = keys[j] /\ f[j].data = bodies[keys[j]]
  BY <1>6
<1>8. \/ \E j \in 1 .. Len(f) : f[j].key = k /\ reply' = f[j].data
      \/ /\ \A j \in 1 .. Len(f) : f[j].key # k
         /\ reply' = Miss
  <2>1. CASE k \in Range(keys)
    <3>1. PICK j \in 1 .. n : keys[j] = k
      BY <1>4, <2>1 DEF Range
    <3> QED
      BY <1>3, <1>6, <1>7, <2>1, <3>1
  <2>2. CASE k \notin Range(keys)
    <3>1. \A j \in 1 .. n : keys[j] # k
      BY <1>4, <2>2 DEF Range
    <3> QED
      BY <1>3, <1>6, <1>7, <2>2, <3>1
  <2> QED
    BY <2>1, <2>2
<1>9. Held' = Held
  BY DEF Load, Held, EnsureManifest
<1> QED
  BY <1>5, <1>8, <1>9 DEF Held, Tier!Load

(* Remove clears one manifest of the tier.                                 *)
LEMMA ClearRefines ==
  ASSUME NEW m \in ManifestIDs, Clear(m)
  PROVE  Tier!Clear(m)
<1>1. manifests' = [x \in DOMAIN manifests \ {m} |-> manifests[x]]
  BY DEF Clear, Restrict
<1>2. \A x \in ManifestIDs : EnsureManifest(x)' = IF x = m THEN NoManifest ELSE EnsureManifest(x)
  BY <1>1 DEF EnsureManifest
<1>3. Held' = [Held EXCEPT ![m] = <<>>]
  BY <1>2, NothingHeld DEF Held
<1> QED
  BY <1>3 DEF Held, Tier!Clear, Clear

(* Reset clears the tier.                                                  *)
LEMMA ClearAllRefines ==
  ASSUME ClearAll
  PROVE  Tier!ClearAll
<1>1. \A x \in ManifestIDs : EnsureManifest(x)' = NoManifest
  BY DEF ClearAll, EnsureManifest
<1>2. Held' = [x \in ManifestIDs |-> <<>>]
  BY <1>1, NothingHeld DEF Held
<1> QED
  BY <1>2 DEF Held, Tier!ClearAll, ClearAll

(* The cache implements the tier: whatever was saved, evicted and cleared, *)
(* a load answers with the body saved last if the tier still holds it, and *)
(* what happens to one manifest leaves the others alone.                   *)
THEOREM CacheImplementsTier == Spec => ImplementsTier
<1>1. Init => Tier!Init
  BY InitRefines
<1>2. ASSUME CacheInv, [Next]_vars
      PROVE  [Tier!Next]_(Tier!vars)
  <2>1. ASSUME NEW m \in ManifestIDs, NEW k \in Keys, NEW d \in Data, Save(m, k, d)
        PROVE  Tier!Next
    BY <1>2, <2>1, SaveRefines DEF Tier!Next
  <2>2. ASSUME NEW m \in ManifestIDs, NEW k \in Keys, Load(m, k)
        PROVE  Tier!Next
    BY <1>2, <2>2, LoadRefines DEF Tier!Next
  <2>3. ASSUME NEW m \in ManifestIDs, Clear(m)
        PROVE  Tier!Next
    BY <2>3, ClearRefines DEF Tier!Next
  <2>4. CASE ClearAll
    BY <2>4, ClearAllRefines DEF Tier!Next
  <2>5. CASE UNCHANGED vars
    BY <2>5 DEF vars, Tier!vars, EnsureManifest
  <2> QED
    BY <1>2, <2>1, <2>2, <2>3, <2>4, <2>5 DEF Next
<1> QED
  BY <1>1, <1>2, CacheInvInductive, PTL DEF Spec, ImplementsTier, Tier!Spec
=============================================================================
