----------------------- MODULE ManifestHistoryProofs ------------------------
(***************************************************************************)
(* Theorems of ManifestHistory, for every set of players, every timeline   *)
(* (one that repeats URLs included), every window length and every limit.  *)
(***************************************************************************)
EXTENDS ManifestHistory, SequenceTheorems, TLAPS

-----------------------------------------------------------------------------
(* Drop is a number of entries order really has, and never all of them.    *)
LEMMA DropBounds ==
  ASSUME order \in Seq(Clips)
  PROVE  /\ Drop \in 0 .. Len(order)
         /\ order # <<>> => Drop < Len(order)
<1>1. Len(order) \in Nat
  BY LenProperties
<1>2. order # <<>> => Len(order) > 0
  BY <1>1, EmptySeq
<1>3. Limit \in Int
  BY HistoryAssumption
<1> QED
  BY <1>1, <1>2, <1>3 DEF Drop

(* What the trim of merge keeps: the entries after the first Drop ones.    *)
LEMMA KeptProperties ==
  ASSUME order \in Seq(Clips),
         NEW kept, kept = SubSeq(order, Drop + 1, Len(order))
  PROVE  /\ kept \in Seq(Clips)
         /\ Len(kept) = Len(order) - Drop
         /\ \A i \in 1 .. Len(kept) : kept[i] = order[Drop + i]
<1>1. Drop \in 0 .. Len(order) /\ Len(order) \in Nat
  BY DropBounds, LenProperties
<1>2. CASE Drop < Len(order)
  <2>1. /\ Drop + 1 \in 1 .. Len(order)
        /\ Len(order) \in Drop .. Len(order)
    BY <1>1, <1>2
  <2>2. \A i \in Drop + 1 .. Len(order) : order[i] \in Clips
    BY <1>1, ElementOfSeq
  <2> QED
    BY <1>1, <1>2, <2>1, <2>2, SubSeqProperties
<1>3. CASE Drop = Len(order)
  BY <1>1, <1>3, SubSeqProperties
<1> QED
  BY <1>1, <1>2, <1>3
-----------------------------------------------------------------------------
(* A poll reads the timeline at one of its positions only.                 *)
PollInTimeline ==
  \A p \in Players : poll[p].lo >= 1 /\ poll[p].at >= poll[p].lo /\ poll[p].hi <= Len(Timeline)

(* The type invariant is not inductive without HistoryConsistent: the list *)
(* merge returns looks up every URL of order in the map.                   *)
HInv == TypeOK /\ PollInTimeline /\ HistoryConsistent

(* A history that no poll has reached satisfies the invariant.             *)
LEMMA HistoryInit == Init => HInv
<1> SUFFICES ASSUME Init PROVE HInv
  OBVIOUS
<1>1. Len(Timeline) \in Nat
  BY HistoryAssumption, LenProperties
<1>2. <<>> \in Seq(Clips) /\ <<>> \in Seq(Entry)
  BY EmptySeq
<1> QED
  BY <1>1, <1>2 DEF Init, HInv, TypeOK, PollInTimeline, HistoryConsistent, Range

(* order lists no URL twice. *)
LEMMA OrderInjective ==
  ASSUME HInv
  PROVE  \A i, j \in 1 .. Len(order) : order[i] = order[j] => i = j
<1>1. Len(order) \in Nat /\ nextSeq \in Nat
  BY LenProperties DEF HInv, TypeOK
<1>2. \A i \in 1 .. Len(order) : segments[order[i]] = nextSeq - Len(order) + i - 1
  BY DEF HInv, HistoryConsistent
<1> QED
  BY <1>1, <1>2

(* The effect of AddEntry on the history, as the later proofs use it.      *)
LEMMA AddEntryEffect ==
  ASSUME HInv, NEW p \in Players, AddEntry(p)
  PROVE  \E clip \in Clips :
           /\ clip \notin DOMAIN segments
           /\ order' = Append(order, clip)
           /\ order' \in Seq(Clips)
           /\ Len(order') = Len(order) + 1
           /\ \A i \in 1 .. Len(order) : order'[i] = order[i]
           /\ order'[Len(order) + 1] = clip
           /\ nextSeq' = nextSeq + 1
           /\ segments' = [c \in DOMAIN segments \cup {clip} |->
                             IF c = clip THEN nextSeq ELSE segments[c]]
<1> DEFINE clip == Timeline[poll[p].at]
<1>1. poll[p].at \in 1 .. Len(Timeline)
  <2>1. poll[p] \in [lo : Nat, hi : Nat, at : Nat]
    BY DEF HInv, TypeOK
  <2> QED
    BY <2>1, HistoryAssumption, LenProperties DEF AddEntry, HInv, PollInTimeline
<1>2. clip \in Clips
  BY <1>1, HistoryAssumption, ElementOfSeq
<1>3. order \in Seq(Clips) /\ order' = Append(order, clip)
  BY DEF AddEntry, HInv, TypeOK
<1>4. /\ order' \in Seq(Clips)
      /\ Len(order') = Len(order) + 1
      /\ \A i \in 1 .. Len(order) : order'[i] = order[i]
      /\ order'[Len(order) + 1] = clip
  BY <1>2, <1>3, AppendProperties
<1> QED
  BY <1>2, <1>3, <1>4 DEF AddEntry

(* The effect of Finish on the history and on the list it returns.         *)
LEMMA FinishEffect ==
  ASSUME HInv, NEW p \in Players, Finish(p)
  PROVE  /\ order' \in Seq(Clips)
         /\ Len(order') = Len(order) - Drop
         /\ Drop \in 0 .. Len(order)
         /\ \A i \in 1 .. Len(order') : order'[i] = order[Drop + i]
         /\ served' = [served EXCEPT ![p] = served'[p]]
         /\ served'[p] \in Seq(Entry)
         /\ Len(served'[p]) = Len(order')
         /\ \A i \in 1 .. Len(order') :
              /\ served'[p][i].clip = order'[i]
              /\ served'[p][i].seq = nextSeq - Len(order') + i - 1
<1>1. order \in Seq(Clips) /\ order' = SubSeq(order, Drop + 1, Len(order))
  BY DEF Finish, HInv, TypeOK
<1>2. /\ order' \in Seq(Clips)
      /\ Len(order') = Len(order) - Drop
      /\ \A i \in 1 .. Len(order') : order'[i] = order[Drop + i]
  BY <1>1, KeptProperties
<1>3. Drop \in 0 .. Len(order) /\ Len(order) \in Nat /\ Len(order') \in Nat
  BY <1>1, <1>2, DropBounds, LenProperties
<1>4. served' = [served EXCEPT ![p] =
                  [i \in 1 .. Len(order') |-> [clip |-> order'[i], seq |-> segments[order'[i]]]]]
  BY <1>1 DEF Finish
<1>5. served'[p] = [i \in 1 .. Len(order') |-> [clip |-> order'[i], seq |-> segments[order'[i]]]]
  BY <1>4 DEF HInv, TypeOK
<1>6. \A i \in 1 .. Len(order') :
        /\ order'[i] \in DOMAIN segments
        /\ segments[order'[i]] = nextSeq - Len(order') + i - 1
  <2>1. TAKE i \in 1 .. Len(order')
  <2>2. Drop + i \in 1 .. Len(order) /\ order'[i] = order[Drop + i]
    BY <1>2, <1>3
  <2>3. DOMAIN order = 1 .. Len(order)
    BY <1>1, LenProperties
  <2>4. order[Drop + i] \in DOMAIN segments
    BY <2>2, <2>3 DEF HInv, HistoryConsistent, Range
  <2>5. segments[order[Drop + i]] = nextSeq - Len(order) + (Drop + i) - 1
    BY <2>2 DEF HInv, HistoryConsistent
  <2>6. nextSeq \in Nat
    BY DEF HInv, TypeOK
  <2> QED
    BY <1>2, <1>3, <2>2, <2>4, <2>5, <2>6
<1>7. \A i \in 1 .. Len(order') : order'[i] \in Clips /\ segments[order'[i]] \in Nat
  <2>1. \A i \in 1 .. Len(order') : order'[i] \in Clips
    BY <1>2, ElementOfSeq
  <2> QED
    BY <2>1, <1>6 DEF HInv, TypeOK
<1>8. served'[p] \in Seq(Entry) /\ Len(served'[p]) = Len(order')
  <2>1. \A i \in 1 .. Len(order') : served'[p][i] \in Entry
    BY <1>5, <1>7 DEF Entry
  <2> QED
    BY <1>3, <1>5, <2>1
<1>9. \A i \in 1 .. Len(order') :
        /\ served'[p][i].clip = order'[i]
        /\ served'[p][i].seq = nextSeq - Len(order') + i - 1
  BY <1>5, <1>6
<1> QED
  BY <1>2, <1>3, <1>4, <1>5, <1>8, <1>9

(* No step of a poll, and no progress of the origin, breaks the invariant. *)
LEMMA HistoryStep == HInv /\ [Next]_vars => HInv'
<1> SUFFICES ASSUME HInv, [Next]_vars PROVE HInv'
  OBVIOUS
<1>0. Len(Timeline) \in Nat /\ WindowLen \in Nat \ {0}
  BY HistoryAssumption, LenProperties
<1>1. CASE OriginAdvance
  BY <1>0, <1>1 DEF OriginAdvance, HInv, TypeOK, PollInTimeline, HistoryConsistent
<1>2. ASSUME NEW p \in Players, Fetch(p) PROVE HInv'
  <2>1. /\ WindowStart(head) \in Nat /\ WindowStart(head) >= 1
        /\ head \in Nat /\ head <= Len(Timeline)
    BY <1>0 DEF WindowStart, HInv, TypeOK
  <2> QED
    BY <1>0, <1>2, <2>1 DEF Fetch, HInv, TypeOK, PollInTimeline, HistoryConsistent
<1>3. ASSUME NEW p \in Players, Lock(p) PROVE HInv'
  BY <1>3 DEF Lock, HInv, TypeOK, PollInTimeline, HistoryConsistent
<1>4. ASSUME NEW p \in Players, KeepEntry(p) PROVE HInv'
  BY <1>4 DEF KeepEntry, HInv, TypeOK, PollInTimeline, HistoryConsistent
<1>5. ASSUME NEW p \in Players, AddEntry(p) PROVE HInv'
  <2>1. PICK clip \in Clips :
           /\ clip \notin DOMAIN segments
           /\ order' \in Seq(Clips)
           /\ Len(order') = Len(order) + 1
           /\ \A i \in 1 .. Len(order) : order'[i] = order[i]
           /\ order'[Len(order) + 1] = clip
           /\ nextSeq' = nextSeq + 1
           /\ segments' = [c \in DOMAIN segments \cup {clip} |->
                             IF c = clip THEN nextSeq ELSE segments[c]]
    BY <1>5, AddEntryEffect
  <2>2. TypeOK'
    <3>1. DOMAIN segments' \subseteq Clips /\ segments' \in [DOMAIN segments' -> Nat]
      BY <2>1 DEF HInv, TypeOK
    <3>2. poll' \in [Players -> [lo : Nat, hi : Nat, at : Nat]]
      <4>1. poll \in [Players -> [lo : Nat, hi : Nat, at : Nat]]
        BY DEF HInv, TypeOK
      <4>2. poll' = [poll EXCEPT ![p].at = @ + 1]
        BY <1>5 DEF AddEntry
      <4> QED
        BY <4>1, <4>2
    <3>3. /\ head' = head /\ pc' = pc /\ served' = served
          /\ nextSeq' \in Nat
      BY <1>5, <2>1 DEF AddEntry, HInv, TypeOK
    <3>4. /\ head \in 0 .. Len(Timeline)
          /\ pc \in [Players -> {"idle", "parsed", "merging"}]
          /\ served \in [Players -> Seq(Entry)]
      BY DEF HInv, TypeOK
    <3> QED
      BY <2>1, <3>1, <3>2, <3>3, <3>4 DEF TypeOK
  <2>3. PollInTimeline'
    BY <1>5 DEF AddEntry, HInv, TypeOK, PollInTimeline
  <2>4. /\ Len(order) \in Nat /\ nextSeq \in Nat
        /\ DOMAIN order = 1 .. Len(order) /\ DOMAIN order' = 1 .. Len(order) + 1
    BY <2>1, LenProperties DEF HInv, TypeOK
  <2>5. DOMAIN segments' = Range(order')
    <3>1. DOMAIN segments' = DOMAIN segments \cup {clip}
      BY <2>1
    <3>2. Range(order') = Range(order) \cup {clip}
      BY <2>1, <2>4 DEF Range
    <3> QED
      BY <3>1, <3>2 DEF HInv, HistoryConsistent
  <2>6. \A i \in 1 .. Len(order') : segments'[order'[i]] = nextSeq' - Len(order') + i - 1
    <3>1. TAKE i \in 1 .. Len(order')
    <3>2. CASE i = Len(order) + 1
      BY <2>1, <2>4, <3>2
    <3>3. CASE i \in 1 .. Len(order)
      <4>1. order'[i] \in DOMAIN segments /\ order'[i] = order[i]
        BY <2>1, <2>4, <3>3 DEF HInv, HistoryConsistent, Range
      <4>2. segments'[order'[i]] = segments[order[i]]
        BY <2>1, <4>1
      <4>3. segments[order[i]] = nextSeq - Len(order) + i - 1
        BY <3>3 DEF HInv, HistoryConsistent
      <4> QED
        BY <2>1, <2>4, <4>2, <4>3
    <3> QED
      BY <2>1, <2>4, <3>2, <3>3
  <2> QED
    BY <2>2, <2>3, <2>5, <2>6 DEF HInv, HistoryConsistent
<1>6. ASSUME NEW p \in Players, Finish(p) PROVE HInv'
  <2>1. /\ order' \in Seq(Clips)
        /\ Len(order') = Len(order) - Drop
        /\ Drop \in 0 .. Len(order)
        /\ \A i \in 1 .. Len(order') : order'[i] = order[Drop + i]
        /\ served' = [served EXCEPT ![p] = served'[p]]
        /\ served'[p] \in Seq(Entry)
    BY <1>6, FinishEffect
  <2>2. /\ Len(order) \in Nat /\ nextSeq \in Nat
        /\ DOMAIN order = 1 .. Len(order) /\ DOMAIN order' = 1 .. Len(order')
    BY <2>1, LenProperties DEF HInv, TypeOK
  <2>3. segments' = [c \in DOMAIN segments \ {order[i] : i \in 1 .. Drop} |-> segments[c]]
    BY <1>6 DEF Finish, Restrict
  <2>4. TypeOK'
    BY <1>6, <2>1, <2>3 DEF Finish, HInv, TypeOK
  <2>5. PollInTimeline'
    BY <1>6 DEF Finish, HInv, PollInTimeline
  <2>6. DOMAIN segments' = Range(order')
    <3>1. DOMAIN segments = {order[i] : i \in 1 .. Len(order)}
      BY <2>2 DEF HInv, HistoryConsistent, Range
    <3>2. Range(order') = {order[i] : i \in Drop + 1 .. Len(order)}
      <4>1. \A j \in Drop + 1 .. Len(order) :
              j - Drop \in 1 .. Len(order') /\ order'[j - Drop] = order[j]
        BY <2>1, <2>2
      <4>2. \A i \in 1 .. Len(order') :
              Drop + i \in Drop + 1 .. Len(order) /\ order'[i] = order[Drop + i]
        BY <2>1, <2>2
      <4> QED
        BY <2>2, <4>1, <4>2 DEF Range
    <3>3. \A i \in 1 .. Drop, j \in Drop + 1 .. Len(order) : order[i] # order[j]
      <4>1. TAKE i \in 1 .. Drop, j \in Drop + 1 .. Len(order)
      <4>2. i \in 1 .. Len(order) /\ j \in 1 .. Len(order) /\ i # j
        BY <2>1, <2>2
      <4> QED
        BY <4>2, OrderInjective
    <3>4. {order[i] : i \in 1 .. Len(order)} \ {order[i] : i \in 1 .. Drop}
            = {order[i] : i \in Drop + 1 .. Len(order)}
      BY <2>1, <2>2, <3>3
    <3> QED
      BY <2>3, <3>1, <3>2, <3>4
  <2>7. \A i \in 1 .. Len(order') : segments'[order'[i]] = nextSeq' - Len(order') + i - 1
    <3>1. TAKE i \in 1 .. Len(order')
    <3>2. order'[i] \in DOMAIN segments'
      BY <2>2, <2>6 DEF Range
    <3>3. segments'[order'[i]] = segments[order'[i]]
      BY <2>3, <3>2
    <3>4. Drop + i \in 1 .. Len(order) /\ order'[i] = order[Drop + i]
      BY <2>1, <2>2
    <3>5. segments[order[Drop + i]] = nextSeq - Len(order) + (Drop + i) - 1
      BY <3>4 DEF HInv, HistoryConsistent
    <3>6. nextSeq' = nextSeq
      BY <1>6 DEF Finish
    <3> QED
      BY <2>1, <2>2, <3>3, <3>4, <3>5, <3>6
  <2> QED
    BY <2>4, <2>5, <2>6, <2>7 DEF HInv, HistoryConsistent
<1>7. CASE UNCHANGED vars
  BY <1>7 DEF vars, HInv, TypeOK, PollInTimeline, HistoryConsistent
<1> QED
  BY <1>1, <1>2, <1>3, <1>4, <1>5, <1>6, <1>7 DEF Next, Merge

(* The map and the list of the history always agree.                       *)
THEOREM HistoryIsConsistent == Spec => []HistoryConsistent
<1>1. HInv => HistoryConsistent
  BY DEF HInv
<1> QED
  BY <1>1, HistoryInit, HistoryStep, PTL DEF Spec

(* Every variable keeps its type.                                          *)
THEOREM TypeCorrect == Spec => []TypeOK
<1>1. HInv => TypeOK
  BY DEF HInv
<1> QED
  BY <1>1, HistoryInit, HistoryStep, PTL DEF Spec
-----------------------------------------------------------------------------
(* What ties a list already served to the history as it is now: its        *)
(* numbers are consecutive and given out, its first is not ahead of the    *)
(* history's, and wherever the two overlap they list the same segment.     *)
ListInv(list) ==
  /\ \A i \in 1 .. Len(list) :
       /\ list[i].seq = list[1].seq + i - 1
       /\ list[i].seq < nextSeq
       /\ list[i].seq >= nextSeq - Len(order) =>
            order[list[i].seq - (nextSeq - Len(order)) + 1] = list[i].clip
  /\ list # <<>> => order # <<>> /\ list[1].seq <= nextSeq - Len(order)

ServedInv == \A p \in Players : ListInv(served[p])

(* Nothing has been served at first.                                       *)
LEMMA ServedInit == Init => ServedInv
<1> SUFFICES ASSUME Init, NEW p \in Players PROVE ListInv(served[p])
  BY DEF ServedInv
<1>1. served[p] = <<>> /\ Len(served[p]) = 0
  BY EmptySeq DEF Init
<1> QED
  BY <1>1 DEF ListInv

(* A list served earlier stays tied to the history when merge appends ...  *)
LEMMA ListInvAdd ==
  ASSUME HInv, NEW p \in Players, AddEntry(p), NEW list \in Seq(Entry), ListInv(list)
  PROVE  /\ \A i \in 1 .. Len(list) :
              /\ list[i].seq = list[1].seq + i - 1
              /\ list[i].seq < nextSeq'
              /\ list[i].seq >= nextSeq' - Len(order') =>
                   order'[list[i].seq - (nextSeq' - Len(order')) + 1] = list[i].clip
         /\ list # <<>> => order' # <<>> /\ list[1].seq <= nextSeq' - Len(order')
<1>1. PICK clip \in Clips :
        /\ order' \in Seq(Clips)
        /\ Len(order') = Len(order) + 1
        /\ \A i \in 1 .. Len(order) : order'[i] = order[i]
        /\ nextSeq' = nextSeq + 1
  BY AddEntryEffect
<1>2. /\ Len(order) \in Nat /\ nextSeq \in Nat /\ Len(list) \in Nat
      /\ \A i \in 1 .. Len(list) : list[i].seq \in Nat
  <2>1. Len(order) \in Nat /\ nextSeq \in Nat /\ Len(list) \in Nat
    BY LenProperties DEF HInv, TypeOK
  <2>2. \A i \in 1 .. Len(list) : list[i] \in Entry
    BY ElementOfSeq
  <2> QED
    BY <2>1, <2>2 DEF Entry
<1>3. nextSeq' - Len(order') = nextSeq - Len(order)
  BY <1>1, <1>2
<1>4. order' # <<>>
  BY <1>1, <1>2, EmptySeq
<1>5. ASSUME NEW i \in 1 .. Len(list), list[i].seq >= nextSeq - Len(order)
      PROVE  order'[list[i].seq - (nextSeq - Len(order)) + 1] = list[i].clip
  <2>1. list[i].seq < nextSeq
    BY DEF ListInv
  <2>2. list[i].seq - (nextSeq - Len(order)) + 1 \in 1 .. Len(order)
    BY <1>2, <1>5, <2>1
  <2>3. order[list[i].seq - (nextSeq - Len(order)) + 1] = list[i].clip
    BY <1>5 DEF ListInv
  <2> QED
    BY <1>1, <2>2, <2>3
<1>6. \A i \in 1 .. Len(list) :
        list[i].seq = list[1].seq + i - 1 /\ list[i].seq < nextSeq'
  BY <1>1, <1>2 DEF ListInv
<1>7. list # <<>> => list[1].seq <= nextSeq' - Len(order')
  BY <1>3 DEF ListInv
<1>8. \A i \in 1 .. Len(list) :
        list[i].seq >= nextSeq' - Len(order') =>
          order'[list[i].seq - (nextSeq' - Len(order')) + 1] = list[i].clip
  BY <1>3, <1>5
<1> QED
  BY <1>4, <1>6, <1>7, <1>8

(* ... and when merge trims. *)
LEMMA ListInvTrim ==
  ASSUME HInv, NEW p \in Players, Finish(p), NEW list \in Seq(Entry), ListInv(list)
  PROVE  /\ \A i \in 1 .. Len(list) :
              /\ list[i].seq = list[1].seq + i - 1
              /\ list[i].seq < nextSeq'
              /\ list[i].seq >= nextSeq' - Len(order') =>
                   order'[list[i].seq - (nextSeq' - Len(order')) + 1] = list[i].clip
         /\ list # <<>> => order' # <<>> /\ list[1].seq <= nextSeq' - Len(order')
<1>1. /\ Len(order') = Len(order) - Drop
      /\ Drop \in 0 .. Len(order)
      /\ \A i \in 1 .. Len(order') : order'[i] = order[Drop + i]
      /\ nextSeq' = nextSeq
      /\ order' \in Seq(Clips)
  BY FinishEffect DEF Finish
<1>2. /\ Len(order) \in Nat /\ nextSeq \in Nat /\ Len(list) \in Nat
      /\ \A i \in 1 .. Len(list) : list[i].seq \in Nat
  <2>1. Len(order) \in Nat /\ nextSeq \in Nat /\ Len(list) \in Nat
    BY LenProperties DEF HInv, TypeOK
  <2>2. \A i \in 1 .. Len(list) : list[i] \in Entry
    BY ElementOfSeq
  <2> QED
    BY <2>1, <2>2 DEF Entry
<1>3. nextSeq' - Len(order') = nextSeq - Len(order) + Drop
  BY <1>1, <1>2
<1>4. list # <<>> => order' # <<>> /\ list[1].seq <= nextSeq' - Len(order')
  <2>1. HAVE list # <<>>
  <2>2. order # <<>> /\ list[1].seq <= nextSeq - Len(order)
    BY <2>1 DEF ListInv
  <2>3. Drop < Len(order)
    BY <2>2, DropBounds DEF HInv, TypeOK
  <2>4. 1 \in 1 .. Len(list)
    BY <1>2, <2>1, EmptySeq
  <2>5. Len(order') > 0
    BY <1>1, <1>2, <2>3
  <2> QED
    BY <1>1, <1>2, <1>3, <2>2, <2>4, <2>5, EmptySeq
<1>5. ASSUME NEW i \in 1 .. Len(list), list[i].seq >= nextSeq' - Len(order')
      PROVE  order'[list[i].seq - (nextSeq' - Len(order')) + 1] = list[i].clip
  <2>1. list[i].seq < nextSeq
    BY DEF ListInv
  <2>2. list[i].seq - (nextSeq' - Len(order')) + 1 \in 1 .. Len(order')
    BY <1>1, <1>2, <1>5, <2>1
  <2>3. list[i].seq >= nextSeq - Len(order)
    BY <1>1, <1>2, <1>3, <1>5
  <2>4. order[list[i].seq - (nextSeq - Len(order)) + 1] = list[i].clip
    BY <2>3 DEF ListInv
  <2>5. Drop + (list[i].seq - (nextSeq' - Len(order')) + 1)
          = list[i].seq - (nextSeq - Len(order)) + 1
    BY <1>1, <1>2, <1>3
  <2> QED
    BY <1>1, <2>2, <2>4, <2>5
<1> QED
  BY <1>1, <1>4, <1>5 DEF ListInv

(* The list merge returns is tied to the history it was built from.        *)
LEMMA ListInvNew ==
  ASSUME HInv, NEW p \in Players, Finish(p)
  PROVE  ListInv(served[p])'
<1>1. /\ order' \in Seq(Clips)
      /\ nextSeq' = nextSeq
      /\ served'[p] \in Seq(Entry)
      /\ Len(served'[p]) = Len(order')
      /\ \A i \in 1 .. Len(order') :
           /\ served'[p][i].clip = order'[i]
           /\ served'[p][i].seq = nextSeq - Len(order') + i - 1
  BY FinishEffect DEF Finish
<1>2. Len(order') \in Nat /\ nextSeq \in Nat
  BY <1>1, LenProperties DEF HInv, TypeOK
<1>3. ASSUME served'[p] # <<>>
      PROVE  order' # <<>> /\ served'[p][1].seq = nextSeq' - Len(order')
  <2>1. Len(order') # 0
    BY <1>1, <1>3, EmptySeq
  <2> QED
    BY <1>1, <1>2, <2>1, EmptySeq
<1>4. \A i \in 1 .. Len(served'[p]) :
        /\ served'[p][i].seq = served'[p][1].seq + i - 1
        /\ served'[p][i].seq < nextSeq'
        /\ order'[served'[p][i].seq - (nextSeq' - Len(order')) + 1] = served'[p][i].clip
  <2>1. TAKE i \in 1 .. Len(served'[p])
  <2>2. 1 \in 1 .. Len(order') /\ i \in 1 .. Len(order')
    BY <1>1, <1>2
  <2> QED
    BY <1>1, <1>2, <2>2
<1>5. 1 \in 1 .. Len(order') => served'[p][1].seq <= nextSeq' - Len(order')
  BY <1>1, <1>2
<1>6. served'[p] # <<>> => served'[p][1].seq <= nextSeq' - Len(order')
  <2>1. HAVE served'[p] # <<>>
  <2>2. Len(order') # 0
    BY <1>1, <2>1, EmptySeq
  <2> QED
    BY <1>2, <1>5, <2>2
<1> QED
  BY <1>3, <1>4, <1>6 DEF ListInv

(* No step changes what the numbers of a served list mean.                 *)
LEMMA ServedStep == HInv /\ ServedInv /\ [Next]_vars => ServedInv'
<1> SUFFICES ASSUME HInv, ServedInv, [Next]_vars, NEW q \in Players
             PROVE  ListInv(served[q])'
  BY DEF ServedInv
<1>0. ListInv(served[q]) /\ served[q] \in Seq(Entry)
  BY DEF ServedInv, HInv, TypeOK
<1>1. ASSUME UNCHANGED <<order, nextSeq, served>> PROVE ListInv(served[q])'
  BY <1>0, <1>1 DEF ListInv
<1>2. ASSUME NEW p \in Players, AddEntry(p) PROVE ListInv(served[q])'
  <2>1. served'[q] = served[q]
    BY <1>2 DEF AddEntry
  <2> QED
    BY <1>0, <1>2, <2>1, ListInvAdd DEF ListInv
<1>3. ASSUME NEW p \in Players, Finish(p) PROVE ListInv(served[q])'
  <2>1. CASE q = p
    BY <1>3, <2>1, ListInvNew
  <2>2. CASE q # p
    <3>1. served'[q] = served[q]
      BY <1>3, <2>2 DEF Finish, HInv, TypeOK
    <3> QED
      BY <1>0, <1>3, <3>1, ListInvTrim DEF ListInv
  <2> QED
    BY <2>1, <2>2
<1>4. \/ UNCHANGED <<order, nextSeq, served>>
      \/ \E p \in Players : AddEntry(p) \/ Finish(p)
  BY DEF Next, Merge, OriginAdvance, Fetch, Lock, KeepEntry, vars
<1> QED
  BY <1>1, <1>2, <1>3, <1>4

(* The numbers a player counts from the one EXT-X-MEDIA-SEQUENCE header    *)
(* are the numbers of the history.                                         *)
THEOREM NumbersContiguous == Spec => []ServedContiguous
<1>1. ServedInv => ServedContiguous
  BY DEF ServedInv, ListInv, ServedContiguous
<1> QED
  BY <1>1, HistoryInit, HistoryStep, ServedInit, ServedStep, PTL DEF Spec

(* A new list of a player follows the one it had before.                   *)
LEMMA FinishFollows ==
  ASSUME HInv, ServedInv, NEW p \in Players, Finish(p)
  PROVE  Follows(served[p], served'[p])
<1> DEFINE old == served[p]
           new == served'[p]
<1>1. /\ order' \in Seq(Clips)
      /\ Len(order') = Len(order) - Drop
      /\ Drop \in 0 .. Len(order)
      /\ \A i \in 1 .. Len(order') : order'[i] = order[Drop + i]
      /\ new \in Seq(Entry)
      /\ Len(new) = Len(order')
      /\ \A i \in 1 .. Len(order') :
           /\ new[i].clip = order'[i]
           /\ new[i].seq = nextSeq - Len(order') + i - 1
  BY FinishEffect
<1>2. ListInv(old) /\ old \in Seq(Entry)
  BY DEF ServedInv, HInv, TypeOK
<1>3. /\ Len(order) \in Nat /\ nextSeq \in Nat /\ Len(order') \in Nat /\ Len(old) \in Nat
  BY <1>1, <1>2, LenProperties DEF HInv, TypeOK
<1>4. \A i \in 1 .. Len(old) : old[i].seq \in Nat
  <2>1. \A i \in 1 .. Len(old) : old[i] \in Entry
    BY <1>2, ElementOfSeq
  <2> QED
    BY <2>1 DEF Entry
<1> SUFFICES ASSUME old # <<>>
             PROVE  /\ new # <<>>
                    /\ new[1].seq >= old[1].seq
                    /\ new[Len(new)].seq >= old[Len(old)].seq
                    /\ \A i \in 1 .. Len(old), j \in 1 .. Len(new) :
                         old[i].seq = new[j].seq => old[i].clip = new[j].clip
  BY DEF Follows
<1>5. Len(old) >= 1
  BY <1>2, <1>3, EmptySeq
<1>6. order # <<>> /\ old[1].seq <= nextSeq - Len(order)
  BY <1>2 DEF ListInv
<1>7. Len(order') >= 1
  <2>1. Drop < Len(order)
    BY <1>6, DropBounds DEF HInv, TypeOK
  <2> QED
    BY <1>1, <1>3, <2>1
<1>8. new # <<>>
  BY <1>1, <1>7, EmptySeq
<1>9. new[1].seq >= old[1].seq
  <2>1. new[1].seq = nextSeq - Len(order')
    BY <1>1, <1>3, <1>7
  <2>2. old[1].seq \in Nat
    BY <1>4, <1>5, <1>3
  <2> QED
    BY <1>1, <1>3, <1>6, <2>1, <2>2
<1>10. new[Len(new)].seq >= old[Len(old)].seq
  <2>1. new[Len(new)].seq = nextSeq - 1
    BY <1>1, <1>3, <1>7
  <2>2. old[Len(old)].seq < nextSeq /\ old[Len(old)].seq \in Nat
    BY <1>2, <1>3, <1>4, <1>5 DEF ListInv
  <2> QED
    BY <1>3, <2>1, <2>2
<1>11. ASSUME NEW i \in 1 .. Len(old), NEW j \in 1 .. Len(new), old[i].seq = new[j].seq
       PROVE  old[i].clip = new[j].clip
  <2>1. new[j].seq = nextSeq - Len(order') + j - 1 /\ new[j].clip = order[Drop + j]
    BY <1>1
  <2>2. /\ old[i].seq >= nextSeq - Len(order)
        /\ old[i].seq - (nextSeq - Len(order)) + 1 = Drop + j
    BY <1>1, <1>3, <1>11, <2>1
  <2>3. order[old[i].seq - (nextSeq - Len(order)) + 1] = old[i].clip
    BY <1>2, <2>2 DEF ListInv
  <2> QED
    BY <2>1, <2>2, <2>3
<1> QED
  BY <1>8, <1>9, <1>10, <1>11

(* A list follows itself. *)
LEMMA SelfFollows ==
  ASSUME HInv, ServedInv, NEW p \in Players
  PROVE  Follows(served[p], served[p])
<1> DEFINE s == served[p]
<1>1. s \in Seq(Entry) /\ Len(s) \in Nat
  BY LenProperties DEF HInv, TypeOK
<1>2. \A i \in 1 .. Len(s) : s[i].seq \in Nat
  <2>1. \A i \in 1 .. Len(s) : s[i] \in Entry
    BY <1>1, ElementOfSeq
  <2> QED
    BY <2>1 DEF Entry
<1>3. \A i \in 1 .. Len(s) : s[i].seq = s[1].seq + i - 1
  BY DEF ServedInv, ListInv
<1> SUFFICES ASSUME s # <<>>
             PROVE  /\ s[1].seq >= s[1].seq
                    /\ s[Len(s)].seq >= s[Len(s)].seq
                    /\ \A i, j \in 1 .. Len(s) : s[i].seq = s[j].seq => s[i].clip = s[j].clip
  BY DEF Follows
<1>4. 1 \in 1 .. Len(s) /\ Len(s) \in 1 .. Len(s)
  BY <1>1, EmptySeq
<1>5. s[1].seq >= s[1].seq /\ s[Len(s)].seq >= s[Len(s)].seq
  <2>1. s[1].seq \in Nat /\ s[Len(s)].seq \in Nat
    BY <1>2, <1>4
  <2> QED
    BY <2>1
<1>6. ASSUME NEW i \in 1 .. Len(s), NEW j \in 1 .. Len(s), s[i].seq = s[j].seq
      PROVE  s[i].clip = s[j].clip
  <2> DEFINE n == s[1].seq
  <2>1. n \in Nat /\ i \in Int /\ j \in Int
    BY <1>1, <1>2, <1>4
  <2>2. n + i - 1 = n + j - 1
    BY <1>3, <1>6
  <2> HIDE DEF n
  <2>3. i = j
    BY <2>1, <2>2
  <2> QED
    BY <2>3
<1> QED
  BY <1>5, <1>6

(* No merge of any player takes another one's playlist backwards.          *)
THEOREM NeverGoesBack == Spec => PlayerNeverGoesBack
<1>1. HInv /\ ServedInv /\ [Next]_vars
        => [\A p \in Players : Follows(served[p], served'[p])]_served
  <2> SUFFICES ASSUME HInv, ServedInv, [Next]_vars, served' # served, NEW q \in Players
               PROVE  Follows(served[q], served'[q])
    OBVIOUS
  <2>1. PICK p \in Players : Finish(p)
    BY DEF Next, Merge, OriginAdvance, Fetch, Lock, KeepEntry, AddEntry, vars
  <2>2. CASE q = p
    BY <2>1, <2>2, FinishFollows
  <2>3. CASE q # p
    <3>1. served'[q] = served[q]
      BY <2>1, <2>3 DEF Finish, HInv, TypeOK
    <3> QED
      BY <3>1, SelfFollows
  <2> QED
    BY <2>2, <2>3
<1> QED
  BY <1>1, HistoryInit, HistoryStep, ServedInit, ServedStep, PTL DEF Spec, PlayerNeverGoesBack

-----------------------------------------------------------------------------
(* The history is a window that grows at the back and shrinks at the front *)
(* only: every step of it is a step of ReplayWindow or leaves that alone.  *)
THEOREM Refinement == Spec => ImplementsReplayWindow
<1>1. Init => Window!Init
  <2> SUFFICES ASSUME Init PROVE Window!Init
    OBVIOUS
  <2>1. order = <<>> /\ nextSeq = 0
    BY DEF Init
  <2>2. Len(order) = 0
    BY <2>1, EmptySeq
  <2>3. nextSeq - Len(order) = 0 - 0
    BY <2>1, <2>2, Zenon
  <2>4. 0 - 0 = 0
    OBVIOUS
  <2> QED
    BY <2>1, <2>3, <2>4, Zenon DEF Window!Init
<1>2. HInv /\ [Next]_vars => [Window!Next]_(Window!vars)
  <2> SUFFICES ASSUME HInv, [Next]_vars PROVE [Window!Next]_(Window!vars)
    OBVIOUS
  <2>0. order \in Seq(Clips) /\ Len(order) \in Nat /\ nextSeq \in Nat
    BY LenProperties DEF HInv, TypeOK
  <2>1. ASSUME UNCHANGED <<order, nextSeq>> PROVE UNCHANGED Window!vars
    BY <2>1 DEF Window!vars
  <2>2. ASSUME NEW p \in Players, AddEntry(p) PROVE Window!Next
    <3>1. PICK clip \in Clips :
            /\ clip \notin DOMAIN segments
            /\ order' = Append(order, clip)
            /\ Len(order') = Len(order) + 1
            /\ nextSeq' = nextSeq + 1
      BY <2>2, AddEntryEffect
    <3>2. clip \notin Range(order)
      BY <3>1 DEF HInv, HistoryConsistent
    <3>3. nextSeq' - Len(order') = nextSeq - Len(order)
      BY <2>0, <3>1
    <3>4. Window!Publish(clip)
      BY <3>1, <3>2, <3>3 DEF Window!Publish, Window!Range, Range
    <3> QED
      BY <3>4 DEF Window!Next
  <2>3. ASSUME NEW p \in Players, Finish(p) PROVE [Window!Next]_(Window!vars)
    <3>1. /\ Len(order') = Len(order) - Drop
          /\ order' \in Seq(Clips)
          /\ order' = SubSeq(order, Drop + 1, Len(order))
          /\ \A i \in 1 .. Len(order') : order'[i] = order[Drop + i]
          /\ nextSeq' = nextSeq
      BY <2>3, FinishEffect DEF Finish
    <3>2. CASE Limit > 0 /\ Len(order) > Limit
      <4>1. Drop = Len(order) - Limit /\ Limit \in Int
        BY <3>2, HistoryAssumption DEF Drop
      <4>2. nextSeq' - Len(order') = nextSeq - Len(order) + (Len(order) - Limit)
        BY <2>0, <3>1, <4>1
      <4> QED
        BY <3>1, <3>2, <4>1, <4>2 DEF Window!Next, Window!Retire
    <3>3. CASE ~(Limit > 0 /\ Len(order) > Limit)
      <4>1. Drop = 0
        BY <3>3 DEF Drop
      <4>2. Len(order') = Len(order) /\ \A i \in 1 .. Len(order) : order'[i] = order[i]
        BY <2>0, <3>1, <4>1
      <4>3. order' = order
        BY <2>0, <3>1, <4>2, SeqEqual
      <4> QED
        BY <3>1, <4>3 DEF Window!vars
    <3> QED
      BY <3>2, <3>3
  <2>4. \/ UNCHANGED <<order, nextSeq>>
        \/ \E p \in Players : AddEntry(p) \/ Finish(p)
    BY DEF Next, Merge, OriginAdvance, Fetch, Lock, KeepEntry, vars
  <2> QED
    BY <2>1, <2>2, <2>3, <2>4
<1> QED
  BY <1>1, <1>2, HistoryInit, HistoryStep, PTL DEF Spec, ImplementsReplayWindow, Window!Spec

-----------------------------------------------------------------------------
(* One handler merges at a time, a poll is no longer than a window, and a  *)
(* merge has added at most one entry for each turn of its loop to what was *)
(* within the limit when it took the lock.                                 *)
PollInWindow ==
  \A p \in Players :
    /\ poll[p].hi - poll[p].lo < WindowLen
    /\ poll[p].at <= poll[p].hi + 1
    /\ pc[p] = "parsed" => poll[p].at = poll[p].lo

Grown ==
  Limit > 0 =>
    /\ (\A p \in Players : pc[p] # "merging") => Len(order) <= Limit
    /\ \A p \in Players : pc[p] = "merging" => Len(order) <= Limit + (poll[p].at - poll[p].lo)
    /\ \A p \in Players : Len(served[p]) <= Limit

BoundInv ==
  /\ \A p, q \in Players : pc[p] = "merging" /\ pc[q] = "merging" => p = q
  /\ PollInWindow
  /\ Grown

(* It holds of an empty history. *)
LEMMA BoundInit == Init => BoundInv
<1> SUFFICES ASSUME Init PROVE BoundInv
  OBVIOUS
<1>1. Len(order) = 0 /\ \A p \in Players : Len(served[p]) = 0
  BY EmptySeq DEF Init
<1> QED
  BY <1>1, HistoryAssumption DEF Init, BoundInv, PollInWindow, Grown

(* What a handler has for a poll.                                          *)
LEMMA PollTypes ==
  ASSUME HInv, NEW p \in Players
  PROVE  /\ poll[p] \in [lo : Nat, hi : Nat, at : Nat] /\ poll[p].lo <= poll[p].at
         /\ Len(order) \in Nat /\ Limit \in Int
         /\ pc \in [Players -> {"idle", "parsed", "merging"}]
  BY HistoryAssumption, LenProperties DEF HInv, TypeOK, PollInTimeline

LEMMA FetchBound ==
  ASSUME HInv, BoundInv, NEW p \in Players, Fetch(p)
  PROVE  BoundInv'
<1>1. head \in Nat
  BY HistoryAssumption, LenProperties DEF HInv, TypeOK
<1>2. /\ WindowStart(head) <= head + 1 /\ head - WindowStart(head) < WindowLen
  BY <1>1, HistoryAssumption DEF WindowStart
<1>3. /\ UNCHANGED <<order, served>>
      /\ \A q \in Players : /\ pc'[q] = IF q = p THEN "parsed" ELSE pc[q]
                            /\ q # p => poll'[q] = poll[q]
      /\ poll'[p] = [lo |-> WindowStart(head), hi |-> head, at |-> WindowStart(head)]
      /\ pc[p] = "idle"
  BY DEF Fetch, HInv, TypeOK
<1>4. PollInWindow'
  BY <1>2, <1>3 DEF BoundInv, PollInWindow
<1>5. Grown'
  BY <1>3 DEF BoundInv, Grown
<1> QED
  BY <1>3, <1>4, <1>5 DEF BoundInv

LEMMA LockBound ==
  ASSUME HInv, BoundInv, NEW p \in Players, Lock(p)
  PROVE  BoundInv'
<1>1. /\ UNCHANGED <<order, served, poll>>
      /\ \A q \in Players : pc[q] # "merging" /\ pc'[q] = IF q = p THEN "merging" ELSE pc[q]
      /\ poll[p].at = poll[p].lo
  BY DEF Lock, HInv, TypeOK, BoundInv, PollInWindow
<1>2. PollInWindow'
  BY <1>1 DEF BoundInv, PollInWindow
<1>3. Limit > 0 => Len(order) <= Limit + (poll[p].at - poll[p].lo)
  <2>1. Len(order) \in Nat /\ Limit \in Int /\ poll[p].at \in Nat
    BY PollTypes
  <2> QED
    BY <1>1, <2>1 DEF BoundInv, Grown
<1>4. Grown'
  BY <1>1, <1>3 DEF BoundInv, Grown
<1> QED
  BY <1>1, <1>2, <1>4 DEF BoundInv

LEMMA TurnBound ==
  ASSUME HInv, BoundInv, NEW p \in Players, KeepEntry(p) \/ AddEntry(p)
  PROVE  BoundInv'
<1>1. /\ UNCHANGED <<pc, served>> /\ pc[p] = "merging" /\ poll[p].at <= poll[p].hi
      /\ \A q \in Players : q # p => poll'[q] = poll[q]
      /\ poll'[p] = [lo |-> poll[p].lo, hi |-> poll[p].hi, at |-> poll[p].at + 1]
  BY DEF KeepEntry, AddEntry, HInv, TypeOK
<1>2. Len(order') = Len(order) \/ Len(order') = Len(order) + 1
  BY AddEntryEffect DEF KeepEntry
<1>3. PICK lo \in Nat, hi \in Nat, at \in Nat :
        /\ poll[p].lo = lo /\ poll[p].hi = hi /\ poll[p].at = at
        /\ lo <= at /\ at <= hi /\ hi - lo < WindowLen
        /\ Limit > 0 => Len(order) <= Limit + (at - lo)
  BY <1>1, PollTypes DEF BoundInv, PollInWindow, Grown
<1>4. poll'[p].lo = lo /\ poll'[p].hi = hi /\ poll'[p].at = at + 1
  BY <1>1, <1>3
<1>5. PollInWindow'
  <2>1. ASSUME NEW q \in Players
        PROVE  /\ poll'[q].hi - poll'[q].lo < WindowLen
               /\ poll'[q].at <= poll'[q].hi + 1
               /\ pc'[q] = "parsed" => poll'[q].at = poll'[q].lo
    <3>1. CASE q = p
      BY <1>1, <1>3, <1>4, <3>1
    <3>2. CASE q # p
      BY <1>1, <3>2 DEF BoundInv, PollInWindow
    <3> QED
      BY <3>1, <3>2
  <2> QED
    BY <2>1 DEF PollInWindow
<1>6. Limit > 0 => Len(order') <= Limit + (at + 1 - lo)
  <2>1. PICK n \in Nat : n = Len(order)
    BY PollTypes
  <2>2. Limit \in Int
    BY HistoryAssumption
  <2> QED
    BY <1>2, <1>3, <2>1, <2>2
<1>7. \A q \in Players : pc[q] = "merging" => q = p
  BY <1>1 DEF BoundInv
<1>8. Grown'
  BY <1>1, <1>4, <1>6, <1>7 DEF BoundInv, Grown
<1> QED
  BY <1>1, <1>5, <1>8 DEF BoundInv

LEMMA FinishBound ==
  ASSUME HInv, BoundInv, NEW p \in Players, Finish(p)
  PROVE  BoundInv'
<1>1. /\ UNCHANGED poll /\ pc[p] = "merging"
      /\ \A q \in Players : pc'[q] = IF q = p THEN "idle" ELSE pc[q]
      /\ \A q \in Players : q # p => served'[q] = served[q] /\ pc[q] # "merging"
  BY DEF Finish, HInv, TypeOK, BoundInv
<1>2. Len(order') = Len(order) - Drop /\ Len(served'[p]) = Len(order')
  BY FinishEffect
<1>3. Limit > 0 => Len(order') <= Limit
  <2>1. Len(order) \in Nat /\ Limit \in Int
    BY PollTypes
  <2> QED
    BY <1>2, <2>1 DEF Drop
<1>4. PollInWindow'
  BY <1>1 DEF BoundInv, PollInWindow
<1>5. Grown'
  BY <1>1, <1>2, <1>3 DEF BoundInv, Grown
<1> QED
  BY <1>1, <1>4, <1>5 DEF BoundInv

LEMMA BoundStep == HInv /\ BoundInv /\ [Next]_vars => BoundInv'
<1> SUFFICES ASSUME HInv, BoundInv, [Next]_vars PROVE BoundInv'
  OBVIOUS
<1>1. CASE OriginAdvance \/ UNCHANGED vars
  BY <1>1 DEF OriginAdvance, vars, BoundInv, PollInWindow, Grown
<1> QED
  BY <1>1, FetchBound, LockBound, TurnBound, FinishBound DEF Next, Merge

(* The limit and the lock bound the history and every list, whoever polls. *)
THEOREM HistoryStaysBounded == Spec => []HistoryBounded
<1>1. HInv /\ BoundInv => HistoryBounded
  <2> SUFFICES ASSUME HInv, BoundInv, Limit > 0
               PROVE  /\ \A p \in Players : Len(served[p]) <= Limit
                      /\ Len(order) <= Limit + WindowLen
    BY DEF HistoryBounded
  <2>1. \A p \in Players : Len(served[p]) <= Limit
    BY DEF BoundInv, Grown
  <2>2. Len(order) <= Limit + WindowLen
    <3>1. CASE \A p \in Players : pc[p] # "merging"
      <4>1. Len(order) \in Nat /\ Len(order) <= Limit
        BY <3>1, LenProperties DEF BoundInv, Grown, HInv, TypeOK
      <4> QED
        BY <4>1, HistoryAssumption
    <3>2. ASSUME NEW p \in Players, pc[p] = "merging"
          PROVE  Len(order) <= Limit + WindowLen
      <4>1. /\ Len(order) <= Limit + (poll[p].at - poll[p].lo)
            /\ poll[p].hi - poll[p].lo < WindowLen
            /\ poll[p].at <= poll[p].hi + 1
        BY <3>2 DEF BoundInv, Grown, PollInWindow
      <4> QED
        BY <4>1, PollTypes, HistoryAssumption
    <3> QED
      BY <3>1, <3>2
  <2> QED
    BY <2>1, <2>2
<1> QED
  BY <1>1, HistoryInit, HistoryStep, BoundInit, BoundStep, PTL DEF Spec
=============================================================================
