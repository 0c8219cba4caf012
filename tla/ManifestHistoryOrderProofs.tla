--------------------- MODULE ManifestHistoryOrderProofs ---------------------
(***************************************************************************)
(* Theorems of ManifestHistory that hold only under conditions, each of    *)
(* which a failing run or a hazard shows to be needed: one player polls    *)
(* the manifest, the channel never uses a URL again, and the limit is not  *)
(* below the origin's window.                                              *)
(***************************************************************************)
EXTENDS ManifestHistoryProofs

OnePlayer == \A p, q \in Players : p = q
DistinctClips == \A m, n \in 1 .. Len(Timeline) : Timeline[m] = Timeline[n] => m = n
RoomForWindow == Limit <= 0 \/ Limit >= WindowLen

-----------------------------------------------------------------------------
(* The history lists positions of the timeline in their order.             *)
Ordered ==
  \A j \in 1 .. Len(order) : \A i \in 1 .. j - 1 :
    \E n \in 1 .. Len(Timeline) : \E m \in 1 .. n - 1 :
      order[i] = Timeline[m] /\ order[j] = Timeline[n]

(* Its newest position is l, none missing from the start of the poll on.   *)
EndsAt(p, l) ==
  /\ \A i \in 1 .. Len(order) : \E n \in 1 .. l : order[i] = Timeline[n]
  /\ \A n \in poll[p].lo .. l :
       l - n < Len(order) /\ order[Len(order) - (l - n)] = Timeline[n]

(* The poll is a window that is not older than the history, and the loop   *)
(* of merge has either only begun or has come no further than the history. *)
PollAhead(p, l) ==
  /\ poll[p].lo = WindowStart(poll[p].hi)
  /\ l <= poll[p].hi /\ poll[p].hi <= head
  /\ poll[p].at \in poll[p].lo .. poll[p].hi + 1
  /\ pc[p] = "idle" => l = poll[p].hi
  /\ poll[p].at <= l + 1 \/ poll[p].at = poll[p].lo

OrderInv ==
  /\ Ordered
  /\ \A p \in Players : \E l \in Nat : EndsAt(p, l) /\ PollAhead(p, l)
  /\ TailMatchesOrigin
  /\ InBroadcastOrder

-----------------------------------------------------------------------------
(* A window is not longer than WindowLen, and empty at the start only.     *)
LEMMA WindowStartBounds ==
  ASSUME NEW n \in Nat
  PROVE  /\ WindowStart(n) \in 1 .. n + 1
         /\ n - WindowStart(n) < WindowLen
         /\ WindowStart(n) = n + 1 => n = 0
  BY HistoryAssumption DEF WindowStart

(* Windows move forward.                                                   *)
LEMMA WindowStartMonotone ==
  ASSUME NEW m \in Nat, NEW n \in Nat, m <= n
  PROVE  WindowStart(m) <= WindowStart(n)
  BY HistoryAssumption DEF WindowStart

(* A new history is empty, and its newest position is 0.                   *)
LEMMA OrderInit == Init => OrderInv
<1> SUFFICES ASSUME Init PROVE OrderInv
  OBVIOUS
<1>1. Len(order) = 0 /\ \A p \in Players : Len(served[p]) = 0
  BY EmptySeq DEF Init
<1>2. Ordered /\ InBroadcastOrder
  BY <1>1 DEF Ordered, InBroadcastOrder
<1>3. TailMatchesOrigin
  BY DEF Init, TailMatchesOrigin
<1>4. head \in Nat
  BY HistoryAssumption, LenProperties DEF Init
<1>5. \A p \in Players : EndsAt(p, 0) /\ PollAhead(p, 0)
  <2>1. TAKE p \in Players
  <2>2. poll[p] = [lo |-> 1, hi |-> 0, at |-> 1]
    BY DEF Init
  <2>3. WindowStart(0) = 1
    BY HistoryAssumption DEF WindowStart
  <2> QED
    BY <1>1, <1>4, <2>2, <2>3 DEF EndsAt, PollAhead
<1> QED
  BY <1>2, <1>3, <1>5 DEF OrderInv

-----------------------------------------------------------------------------
(* A new poll lists nothing older than the one before it.                  *)
LEMMA FetchOrder ==
  ASSUME HInv, OrderInv, OnePlayer, NEW p \in Players, Fetch(p)
  PROVE  OrderInv'
<1>1. PICK l \in Nat : EndsAt(p, l) /\ PollAhead(p, l)
  BY DEF OrderInv
<1>2. /\ head \in Nat /\ poll[p] \in [lo : Nat, hi : Nat, at : Nat]
      /\ Len(order) \in Nat
  BY HistoryAssumption, LenProperties DEF HInv, TypeOK
<1>3. /\ pc[p] = "idle" /\ pc'[p] = "parsed"
      /\ UNCHANGED <<head, order, served>>
      /\ poll'[p] = [lo |-> WindowStart(head), hi |-> head, at |-> WindowStart(head)]
  BY DEF Fetch, HInv, TypeOK
<1>4. l <= head /\ poll[p].lo <= WindowStart(head)
  <2>1. l <= head /\ poll[p].hi <= head /\ poll[p].lo = WindowStart(poll[p].hi)
    BY <1>1, <1>2 DEF PollAhead
  <2>2. poll[p].hi \in Nat
    BY <1>2
  <2> QED
    BY <1>2, <2>1, <2>2, WindowStartMonotone
<1>5. WindowStart(head) \in 1 .. head + 1
  BY <1>2, WindowStartBounds
<1>6. EndsAt(p, l)'
  <2>1. \A n \in WindowStart(head) .. l : n \in poll[p].lo .. l
    BY <1>2, <1>4, <1>5
  <2> QED
    BY <1>1, <1>3, <2>1 DEF EndsAt
<1>7. PollAhead(p, l)'
  BY <1>2, <1>3, <1>4, <1>5 DEF PollAhead
<1>8. \A q \in Players : q = p
  BY DEF OnePlayer
<1>9. TailMatchesOrigin'
  BY <1>3, <1>8 DEF TailMatchesOrigin
<1>10. Ordered' /\ InBroadcastOrder'
  BY <1>3 DEF OrderInv, Ordered, InBroadcastOrder
<1> QED
  BY <1>6, <1>7, <1>8, <1>9, <1>10 DEF OrderInv

(* A known entry is one of the positions merged before ...                 *)
LEMMA KnownWasMerged ==
  ASSUME HInv, DistinctClips, NEW p \in Players, NEW l \in Nat, EndsAt(p, l), PollAhead(p, l),
         poll[p].at <= poll[p].hi, Timeline[poll[p].at] \in DOMAIN segments
  PROVE  poll[p].at <= l
<1>1. /\ poll[p] \in [lo : Nat, hi : Nat, at : Nat] /\ head \in Nat
      /\ DOMAIN order = 1 .. Len(order)
      /\ Len(Timeline) \in Nat /\ head <= Len(Timeline)
  BY HistoryAssumption, LenProperties DEF HInv, TypeOK
<1>2. PICK i \in 1 .. Len(order) : Timeline[poll[p].at] = order[i]
  BY <1>1 DEF HInv, HistoryConsistent, Range
<1>3. PICK n \in 1 .. l : order[i] = Timeline[n]
  BY <1>2 DEF EndsAt
<1>4. n \in 1 .. Len(Timeline) /\ poll[p].at \in 1 .. Len(Timeline)
  BY <1>1, <1>3 DEF PollAhead, HInv, PollInTimeline
<1> QED
  BY <1>2, <1>3, <1>4 DEF DistinctClips

(* ... and a new one is newer than all of them.                            *)
LEMMA NewWasNotMerged ==
  ASSUME HInv, NEW p \in Players, NEW l \in Nat, EndsAt(p, l), PollAhead(p, l),
         Timeline[poll[p].at] \notin DOMAIN segments
  PROVE  poll[p].at > l
<1>1. /\ poll[p] \in [lo : Nat, hi : Nat, at : Nat]
      /\ Len(order) \in Nat /\ DOMAIN order = 1 .. Len(order)
  BY LenProperties DEF HInv, TypeOK
<1>2. PICK at \in Nat : at = poll[p].at /\ poll[p].lo <= at
  BY <1>1 DEF PollAhead
<1> SUFFICES ASSUME at <= l PROVE FALSE
  BY <1>2
<1>3. at \in poll[p].lo .. l
  BY <1>1, <1>2
<1>4. l - at < Len(order) /\ order[Len(order) - (l - at)] = Timeline[at]
  BY <1>3 DEF EndsAt
<1>5. Len(order) - (l - at) \in 1 .. Len(order)
  BY <1>1, <1>2, <1>4
<1> QED
  BY <1>1, <1>2, <1>4, <1>5 DEF HInv, HistoryConsistent, Range

(* So a known entry leaves the history as it is.                           *)
LEMMA KeepEntryOrder ==
  ASSUME HInv, OrderInv, OnePlayer, DistinctClips, NEW p \in Players, KeepEntry(p)
  PROVE  OrderInv'
<1>1. PICK l \in Nat : EndsAt(p, l) /\ PollAhead(p, l)
  BY DEF OrderInv
<1>2. /\ poll[p] \in [lo : Nat, hi : Nat, at : Nat] /\ head \in Nat
      /\ Len(order) \in Nat /\ DOMAIN order = 1 .. Len(order)
      /\ Len(Timeline) \in Nat /\ head <= Len(Timeline)
  BY HistoryAssumption, LenProperties DEF HInv, TypeOK
<1>3. /\ pc[p] = "merging" /\ poll[p].at <= poll[p].hi
      /\ UNCHANGED <<head, order, served, pc>>
      /\ poll'[p] = [lo |-> poll[p].lo, hi |-> poll[p].hi, at |-> poll[p].at + 1]
  BY <1>2 DEF KeepEntry, HInv, TypeOK
<1>4. poll[p].at <= l
  BY <1>1, <1>3, KnownWasMerged DEF KeepEntry
<1>5. EndsAt(p, l)'
  BY <1>1, <1>3 DEF EndsAt
<1>6. PollAhead(p, l)'
  BY <1>1, <1>2, <1>3, <1>4 DEF PollAhead
<1>7. \A q \in Players : q = p
  BY DEF OnePlayer
<1>8. TailMatchesOrigin'
  BY <1>3, <1>7 DEF TailMatchesOrigin
<1>9. Ordered' /\ InBroadcastOrder'
  BY <1>3 DEF OrderInv, Ordered, InBroadcastOrder
<1> QED
  BY <1>5, <1>6, <1>7, <1>8, <1>9 DEF OrderInv

(* A new entry is a position newer than all merged before, and if it is    *)
(* not the next one, it is where the poll begins.                          *)
LEMMA AddEntryOrder ==
  ASSUME HInv, OrderInv, OnePlayer, NEW p \in Players, AddEntry(p)
  PROVE  OrderInv'
<1>1. PICK l \in Nat : EndsAt(p, l) /\ PollAhead(p, l)
  BY DEF OrderInv
<1>2. /\ poll[p] \in [lo : Nat, hi : Nat, at : Nat] /\ head \in Nat
      /\ order \in Seq(Clips) /\ Len(order) \in Nat /\ DOMAIN order = 1 .. Len(order)
      /\ Len(Timeline) \in Nat /\ head <= Len(Timeline)
  BY HistoryAssumption, LenProperties DEF HInv, TypeOK
<1>3. PICK at \in Nat : at = poll[p].at
  BY <1>2
<1>4. /\ pc[p] = "merging" /\ at <= poll[p].hi
      /\ UNCHANGED <<head, served, pc>>
      /\ Timeline[at] \notin DOMAIN segments
      /\ order' = Append(order, Timeline[at])
  BY <1>3 DEF AddEntry
<1>5. poll'[p] = [lo |-> poll[p].lo, hi |-> poll[p].hi, at |-> at + 1]
  BY <1>2, <1>3 DEF AddEntry, HInv, TypeOK
<1>6. poll[p].lo >= 1 /\ poll[p].lo <= at /\ at \in 1 .. Len(Timeline)
  BY <1>1, <1>2, <1>3, <1>4 DEF PollAhead, HInv, PollInTimeline
<1>7. /\ Len(order') = Len(order) + 1
      /\ \A i \in 1 .. Len(order) : order'[i] = order[i]
      /\ order'[Len(order) + 1] = Timeline[at]
  <2>1. Timeline[at] \in Clips
    BY <1>6, HistoryAssumption, ElementOfSeq
  <2> QED
    BY <1>2, <1>4, <2>1, AppendProperties
<1>8. at > l
  BY <1>1, <1>3, <1>4, NewWasNotMerged
<1>9. EndsAt(p, at)'
  <2>1. ASSUME NEW i \in 1 .. Len(order')
        PROVE  \E n \in 1 .. at : order'[i] = Timeline[n]
    <3>1. CASE i = Len(order) + 1
      BY <1>6, <1>7, <3>1
    <3>2. CASE i # Len(order) + 1
      <4>1. i \in 1 .. Len(order) /\ order'[i] = order[i]
        BY <1>2, <1>7, <3>2
      <4>2. PICK n \in 1 .. l : order[i] = Timeline[n]
        BY <1>1, <4>1 DEF EndsAt
      <4> QED
        BY <1>8, <4>1, <4>2
    <3> QED
      BY <3>1, <3>2
  <2>2. ASSUME NEW n \in poll[p].lo .. at
        PROVE  at - n < Len(order') /\ order'[Len(order') - (at - n)] = Timeline[n]
    <3>1. CASE n = at
      BY <1>2, <1>7, <3>1
    <3>2. CASE n # at
      <4>1. at = l + 1 /\ n \in poll[p].lo .. l
        BY <1>1, <1>2, <1>3, <1>8, <3>2 DEF PollAhead
      <4>2. l - n < Len(order) /\ order[Len(order) - (l - n)] = Timeline[n]
        BY <1>1, <4>1 DEF EndsAt
      <4>3. /\ Len(order') - (at - n) = Len(order) - (l - n)
            /\ Len(order) - (l - n) \in 1 .. Len(order)
        BY <1>2, <1>7, <4>1, <4>2
      <4> QED
        BY <1>2, <1>7, <4>1, <4>2, <4>3
    <3> QED
      BY <3>1, <3>2
  <2> QED
    BY <1>5, <2>1, <2>2 DEF EndsAt
<1>10. PollAhead(p, at)'
  <2>1. poll[p].lo = WindowStart(poll[p].hi) /\ poll[p].hi <= head
    BY <1>1 DEF PollAhead
  <2>2. at + 1 \in poll[p].lo .. poll[p].hi + 1
    BY <1>2, <1>4, <1>6
  <2> QED
    BY <1>4, <1>5, <2>1, <2>2 DEF PollAhead
<1>11. Ordered'
  <2>1. ASSUME NEW j \in 1 .. Len(order'), NEW i \in 1 .. j - 1
        PROVE  \E n \in 1 .. Len(Timeline) : \E m \in 1 .. n - 1 :
                 order'[i] = Timeline[m] /\ order'[j] = Timeline[n]
    <3>1. i \in 1 .. Len(order) /\ order'[i] = order[i]
      BY <1>2, <1>7
    <3>2. CASE j = Len(order) + 1
      <4>1. PICK m \in 1 .. l : order[i] = Timeline[m]
        BY <1>1, <3>1 DEF EndsAt
      <4>2. m \in 1 .. at - 1
        BY <1>8, <4>1
      <4> QED
        BY <1>6, <1>7, <3>1, <3>2, <4>1, <4>2
    <3>3. CASE j # Len(order) + 1
      <4>1. j \in 1 .. Len(order) /\ order'[j] = order[j]
        BY <1>2, <1>7, <3>3
      <4> QED
        BY <3>1, <4>1 DEF OrderInv, Ordered
    <3> QED
      BY <3>2, <3>3
  <2> QED
    BY <2>1 DEF Ordered
<1>12. \A q \in Players : q = p
  BY DEF OnePlayer
<1>13. TailMatchesOrigin'
  BY <1>4, <1>12 DEF TailMatchesOrigin
<1>14. InBroadcastOrder'
  <2>1. InBroadcastOrder
    BY DEF OrderInv
  <2>2. served' = served
    BY <1>4
  <2> QED
    BY <2>1, <2>2 DEF InBroadcastOrder
<1> QED
  BY <1>3, <1>9, <1>10, <1>11, <1>12, <1>13, <1>14 DEF OrderInv

(* At the end of merge the history ends with the poll's window, and the    *)
(* trim leaves all of that.                                                *)
LEMMA FinishOrder ==
  ASSUME HInv, OrderInv, OnePlayer, RoomForWindow, NEW p \in Players, Finish(p)
  PROVE  OrderInv'
<1>1. PICK l \in Nat : EndsAt(p, l) /\ PollAhead(p, l)
  BY DEF OrderInv
<1>2. /\ poll[p] \in [lo : Nat, hi : Nat, at : Nat] /\ head \in Nat
      /\ Len(order) \in Nat
  BY HistoryAssumption, LenProperties DEF HInv, TypeOK
<1>3. /\ pc[p] = "merging" /\ poll[p].at > poll[p].hi
      /\ UNCHANGED <<head, poll>>
  BY DEF Finish
<1>4. /\ Len(order') = Len(order) - Drop
      /\ Drop \in 0 .. Len(order)
      /\ \A i \in 1 .. Len(order') : order'[i] = order[Drop + i]
      /\ Len(served'[p]) = Len(order')
      /\ \A i \in 1 .. Len(order') : served'[p][i].clip = order'[i]
  BY FinishEffect
<1>5. /\ poll[p].lo \in 1 .. poll[p].hi + 1
      /\ poll[p].hi - poll[p].lo < WindowLen
      /\ poll[p].lo = poll[p].hi + 1 => poll[p].hi = 0
  BY <1>1, <1>2, WindowStartBounds DEF PollAhead
<1>6. l = poll[p].hi
  BY <1>1, <1>2, <1>3, <1>5 DEF PollAhead
<1>7. ASSUME NEW n \in poll[p].lo .. l
      PROVE  /\ l - n < Len(order')
             /\ order'[Len(order') - (l - n)] = Timeline[n]
  <2>1. l - n < Len(order) /\ order[Len(order) - (l - n)] = Timeline[n]
    BY <1>1 DEF EndsAt
  <2>2. l - n < WindowLen
    BY <1>2, <1>5, <1>6, HistoryAssumption
  <2>3. Drop = 0 \/ Len(order) - Drop >= WindowLen
    BY <1>2, HistoryAssumption DEF Drop, RoomForWindow
  <2>4. l - n < Len(order')
    BY <1>2, <1>4, <2>1, <2>2, <2>3, HistoryAssumption
  <2>5. /\ Len(order') - (l - n) \in 1 .. Len(order')
        /\ Drop + (Len(order') - (l - n)) = Len(order) - (l - n)
    BY <1>2, <1>4, <2>4
  <2> QED
    BY <1>4, <2>1, <2>4, <2>5
<1>8. \A i \in 1 .. Len(order') : Drop + i \in 1 .. Len(order) /\ order'[i] = order[Drop + i]
  BY <1>2, <1>4
<1>9. EndsAt(p, l)'
  <2>1. ASSUME NEW i \in 1 .. Len(order')
        PROVE  \E n \in 1 .. l : order'[i] = Timeline[n]
    BY <1>1, <1>8 DEF EndsAt
  <2> QED
    BY <1>3, <1>7, <2>1 DEF EndsAt
<1>10. PollAhead(p, l)'
  BY <1>1, <1>3, <1>6 DEF PollAhead
<1>11. Ordered'
  <2>1. ASSUME NEW j \in 1 .. Len(order'), NEW i \in 1 .. j - 1
        PROVE  \E n \in 1 .. Len(Timeline) : \E m \in 1 .. n - 1 :
                 order'[i] = Timeline[m] /\ order'[j] = Timeline[n]
    <3>1. i \in 1 .. Len(order') /\ Drop + i \in 1 .. (Drop + j) - 1
      BY <1>2, <1>4
    <3>2. \E n \in 1 .. Len(Timeline) : \E m \in 1 .. n - 1 :
            order[Drop + i] = Timeline[m] /\ order[Drop + j] = Timeline[n]
      BY <1>8, <3>1 DEF OrderInv, Ordered
    <3> QED
      BY <1>8, <3>1, <3>2
  <2> QED
    BY <2>1 DEF Ordered
<1>12. \A q \in Players : q = p
  BY DEF OnePlayer
<1>13. TailMatchesOrigin'
  <2>1. ASSUME NEW k \in 0 .. poll[p].hi - poll[p].lo
        PROVE  /\ k < Len(served'[p])
               /\ served'[p][Len(served'[p]) - k].clip = Timeline[poll[p].hi - k]
    <3>1. poll[p].hi - k \in poll[p].lo .. l /\ l - (poll[p].hi - k) = k
      BY <1>2, <1>6
    <3>2. k < Len(order') /\ order'[Len(order') - k] = Timeline[poll[p].hi - k]
      BY <1>7, <3>1
    <3>3. Len(order') - k \in 1 .. Len(order')
      BY <1>2, <1>4, <3>2
    <3> QED
      BY <1>4, <3>2, <3>3
  <2> QED
    BY <1>3, <1>12, <2>1 DEF TailMatchesOrigin
<1>14. InBroadcastOrder'
  <2>1. ASSUME NEW q \in Players, NEW j \in 1 .. Len(served'[q]), NEW i \in 1 .. j - 1
        PROVE  \E n \in 1 .. Len(Timeline) : \E m \in 1 .. n - 1 :
                 served'[q][i].clip = Timeline[m] /\ served'[q][j].clip = Timeline[n]
    <3>1. q = p
      BY <1>12
    <3>2. j \in 1 .. Len(order') /\ i \in 1 .. Len(order')
      BY <1>2, <1>4, <3>1
    <3>3. served'[q][i].clip = order'[i] /\ served'[q][j].clip = order'[j]
      BY <1>4, <3>1, <3>2
    <3>4. \E n \in 1 .. Len(Timeline) : \E m \in 1 .. n - 1 :
            order'[i] = Timeline[m] /\ order'[j] = Timeline[n]
      BY <1>11, <3>2 DEF Ordered
    <3> QED
      BY <3>3, <3>4
  <2> QED
    BY <2>1 DEF InBroadcastOrder
<1> QED
  BY <1>9, <1>10, <1>11, <1>12, <1>13, <1>14 DEF OrderInv

-----------------------------------------------------------------------------
(* All steps keep the history in order and its end complete.               *)
LEMMA OrderStep ==
  ASSUME OnePlayer, DistinctClips, RoomForWindow, HInv, OrderInv, [Next]_vars
  PROVE  OrderInv'
<1>1. CASE OriginAdvance
  <2>1. /\ head \in Nat /\ head' = head + 1
        /\ UNCHANGED <<order, pc, poll, served>>
    BY <1>1, HistoryAssumption, LenProperties DEF OriginAdvance, HInv, TypeOK
  <2>2. ASSUME NEW p \in Players
        PROVE  (\E l \in Nat : EndsAt(p, l) /\ PollAhead(p, l))'
    <3>1. PICK l \in Nat : EndsAt(p, l) /\ PollAhead(p, l)
      BY DEF OrderInv
    <3>2. poll[p].hi \in Nat
      BY DEF HInv, TypeOK
    <3>3. EndsAt(p, l)' /\ PollAhead(p, l)'
      BY <2>1, <3>1, <3>2 DEF EndsAt, PollAhead
    <3> QED
      BY <3>3
  <2> QED
    BY <2>1, <2>2 DEF OrderInv, Ordered, TailMatchesOrigin, InBroadcastOrder
<1>2. ASSUME NEW p \in Players, Lock(p) PROVE OrderInv'
  <2>1. /\ UNCHANGED <<head, order, poll, served>>
        /\ pc'[p] = "merging"
    BY <1>2 DEF Lock, HInv, TypeOK
  <2>2. PICK l \in Nat : EndsAt(p, l) /\ PollAhead(p, l)
    BY DEF OrderInv
  <2>3. EndsAt(p, l)' /\ PollAhead(p, l)'
    BY <2>1, <2>2 DEF EndsAt, PollAhead
  <2>4. \A q \in Players : q = p
    BY DEF OnePlayer
  <2>5. TailMatchesOrigin'
    BY <2>1, <2>4 DEF TailMatchesOrigin
  <2>6. Ordered' /\ InBroadcastOrder'
    BY <2>1 DEF OrderInv, Ordered, InBroadcastOrder
  <2> QED
    BY <2>3, <2>4, <2>5, <2>6 DEF OrderInv
<1>3. CASE UNCHANGED vars
  BY <1>3 DEF vars, OrderInv, Ordered, EndsAt, PollAhead, TailMatchesOrigin, InBroadcastOrder
<1> QED
  BY <1>1, <1>2, <1>3, FetchOrder, KeepEntryOrder, AddEntryOrder, FinishOrder DEF Next, Merge

(* A single player's list ends with exactly the origin's window, however   *)
(* many segments it missed between two polls.                              *)
THEOREM TailIsOrigins ==
  ASSUME OnePlayer, DistinctClips, RoomForWindow
  PROVE  Spec => []TailMatchesOrigin
<1>1. Init => HInv /\ OrderInv
  BY HistoryInit, OrderInit
<1>2. HInv /\ OrderInv /\ [Next]_vars => (HInv /\ OrderInv)'
  BY HistoryStep, OrderStep
<1>3. OrderInv => TailMatchesOrigin
  BY DEF OrderInv
<1> QED
  BY <1>1, <1>2, <1>3, PTL DEF Spec

(* Its list is in the order of the broadcast.                              *)
THEOREM ListInBroadcastOrder ==
  ASSUME OnePlayer, DistinctClips, RoomForWindow
  PROVE  Spec => []InBroadcastOrder
<1>1. Init => HInv /\ OrderInv
  BY HistoryInit, OrderInit
<1>2. HInv /\ OrderInv /\ [Next]_vars => (HInv /\ OrderInv)'
  BY HistoryStep, OrderStep
<1>3. OrderInv => InBroadcastOrder
  BY DEF OrderInv
<1> QED
  BY <1>1, <1>2, <1>3, PTL DEF Spec
=============================================================================
