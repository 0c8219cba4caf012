-------------------------- MODULE PrefetcherProofs --------------------------
(***************************************************************************)
(* Theorems of Prefetcher, for any playlists, prefetch count and number of *)
(* goroutines.                                                             *)
(***************************************************************************)
EXTENDS Prefetcher, SequenceTheorems, TLAPS

(* What a queue has still to do, and what a worker fetches, is listed by   *)
(* the object they work for.                                               *)
QueuesListed ==
  \A q \in Queues : qpc[q] \in {"check", "launch"} => Range(qclips[q]) \subseteq Range(list[qobj[q]])

WorkersListed == \A w \in Workers : wpc[w] # "idle" => wclip[w] \in Range(list[wobj[w]])

IInv == TypeOK /\ NoStuckMark /\ OnlyListedClips /\ QueuesListed /\ WorkersListed

-----------------------------------------------------------------------------
(* A stretch of a sequence is a sequence of its elements. *)
LEMMA StretchListed ==
  ASSUME NEW s \in Seq(Clips), NEW a \in Int, NEW b \in Int, 1 <= a, b <= Len(s)
  PROVE  SubSeq(s, a, b) \in Seq(Clips) /\ Range(SubSeq(s, a, b)) \subseteq Range(s)
<1>1. PICK n \in Nat : n = Len(s) /\ DOMAIN s = 1 .. n
  BY LenProperties
<1>2. CASE a <= b
  <2>1. PICK t : /\ t = SubSeq(s, a, b)
                 /\ t \in Seq(Clips)
                 /\ Len(t) = b - a + 1
                 /\ \A i \in 1 .. b - a + 1 : t[i] = s[a + i - 1]
    <3>1. \A i \in a .. b : i \in 1 .. n /\ s[i] \in Clips
      BY <1>1, LenProperties
    <3>2. /\ SubSeq(s, a, b) \in Seq(Clips)
          /\ Len(SubSeq(s, a, b)) = IF a <= b THEN b - a + 1 ELSE 0
          /\ \A i \in 1 .. b - a + 1 : SubSeq(s, a, b)[i] = s[a + i - 1]
      <4>1. \A i \in a .. b : s[i] \in Clips
        BY <3>1
      <4> QED
        BY <4>1, SubSeqProperties
    <3> QED
      BY <1>2, <3>2
  <2>2. ASSUME NEW i \in DOMAIN t
        PROVE  t[i] \in Range(s)
    <3>1. i \in 1 .. b - a + 1
      BY <2>1, LenProperties
    <3>2. a + i - 1 \in 1 .. n
      BY <1>1, <1>2, <3>1
    <3> QED
      BY <1>1, <2>1, <3>1, <3>2 DEF Range
  <2> QED
    BY <2>1, <2>2 DEF Range
<1>3. CASE b < a
  <2>1. SubSeq(s, a, b) = <<>>
    BY <1>3
  <2> QED
    BY <2>1 DEF Range
<1> QED
  BY <1>2, <1>3

(* The clips that WarmPlaylist queues are clips of the list. *)
LEMMA WarmListed ==
  ASSUME NEW s \in Seq(Clips)
  PROVE  /\ SubSeq(s, 1, WarmLimit(s)) \in Seq(Clips)
         /\ Range(SubSeq(s, 1, WarmLimit(s))) \subseteq Range(s)
<1>1. Len(s) \in Nat /\ WarmLimit(s) \in Int /\ WarmLimit(s) <= Len(s)
  BY PrefetcherAssumption, LenProperties DEF WarmLimit
<1> QED
  BY <1>1, StretchListed

(* The clips that prefetchClips queues are clips of the list, too, also at *)
(* its end and for a negative count.                                       *)
LEMMA NextListed ==
  ASSUME NEW s \in Seq(Clips), NEW c
  PROVE  NextClips(s, c) \in Seq(Clips) /\ Range(NextClips(s, c)) \subseteq Range(s)
<1>1. CASE \E i \in 1 .. Len(s) : s[i] = c
  <2>1. PICK i \in 1 .. Len(s) : i = CHOOSE j \in 1 .. Len(s) : s[j] = c
    BY <1>1
  <2>2. PICK m \in Int : /\ m = (IF i + PrefetchCount < Len(s) THEN i + PrefetchCount ELSE Len(s))
                         /\ m <= Len(s)
    BY PrefetcherAssumption, LenProperties
  <2>3. NextClips(s, c) = SubSeq(s, i + 1, m)
    BY <1>1, <2>1, <2>2 DEF NextClips
  <2> QED
    BY <2>2, <2>3, StretchListed, LenProperties
<1>2. CASE ~ \E i \in 1 .. Len(s) : s[i] = c
  <2>1. NextClips(s, c) = <<>>
    BY <1>2 DEF NextClips
  <2> QED
    BY <2>1 DEF Range
<1> QED
  BY <1>1, <1>2

(* Taking a clip off a queue. *)
LEMMA TakeListed ==
  ASSUME NEW s \in Seq(Clips), s # <<>>
  PROVE  /\ Head(s) \in Clips /\ Head(s) \in Range(s)
         /\ Tail(s) \in Seq(Clips) /\ Range(Tail(s)) \subseteq Range(s)
<1>1. PICK n \in Nat : n = Len(s) /\ DOMAIN s = 1 .. n /\ n >= 1
  BY LenProperties, EmptySeq
<1>2. Head(s) = s[1] /\ 1 \in DOMAIN s
  BY <1>1, HeadTailProperties
<1>3. Tail(s) = SubSeq(s, 2, n)
  BY <1>1
<1> QED
  BY <1>1, <1>2, <1>3, StretchListed, HeadTailProperties, ElementOfSeq DEF Range

-----------------------------------------------------------------------------
(* What the garbage collector leaves of the heap: objects in use as they   *)
(* were, the others blank.                                                 *)
LEMMA CollectEffect ==
  ASSUME TypeOK, OnlyListedClips, Collect
  PROVE  /\ list' \in [Objects -> Seq(Clips)]
         /\ fetched' \in [Objects -> SUBSET Clips]
         /\ OnlyListedClips'
         /\ \A o \in Objects : o \in Live' => list'[o] = list[o]
<1>1. <<>> \in Seq(Clips) /\ {} \in SUBSET Clips
  BY EmptySeq
<1>2. \A o \in Objects : fetched[o] \subseteq Range(list[o])
  BY DEF OnlyListedClips
<1>3. ASSUME NEW o \in Objects
      PROVE  fetched'[o] \subseteq Range(list'[o])
  BY <1>2 DEF Collect
<1> QED
  BY <1>1, <1>3 DEF Collect, TypeOK, OnlyListedClips

(* The goroutines' objects are in use. *)
LEMMA InUse ==
  ASSUME TypeOK
  PROVE  /\ \A q \in Queues : qobj[q] # None => qobj[q] \in Live
         /\ \A w \in Workers : wobj[w] # None => wobj[w] \in Live
         /\ current # None => current \in Live
  BY DEF TypeOK, Live, Range

(* The invariant holds at the start. *)
LEMMA InitInv == Init => IInv
  BY EmptySeq DEF Init, IInv, TypeOK, NoStuckMark, OnlyListedClips, QueuesListed, WorkersListed

-----------------------------------------------------------------------------
(* The handler's first step keeps the invariant: no object in use changes. *)
LEMMA AddPlaylistInv ==
  ASSUME IInv, NEW h \in Handlers, NEW clips \in Listings, AddPlaylist(h, clips)
  PROVE  IInv'
<1>1. PICK o \in Objects \ Live : /\ new' = [new EXCEPT ![h] = o]
                                 /\ list' = [list EXCEPT ![o] = clips]
                                 /\ fetched' = [fetched EXCEPT ![o] = {}]
  BY DEF AddPlaylist
<1>2. clips \in Seq(Clips)
  BY PrefetcherAssumption
<1>3. TypeOK'
  <2>1. o # None /\ o \in Objects
    BY PrefetcherAssumption
  <2>2. list' \in [Objects -> Seq(Clips)] /\ fetched' \in [Objects -> SUBSET Clips]
    BY <1>1, <1>2, <2>1 DEF IInv, TypeOK
  <2>3. /\ new' \in [Handlers -> Objects \cup {None}]
        /\ old' \in [Handlers -> Objects \cup {None}]
        /\ hpc' \in [Handlers -> {"idle", "merge", "set", "warm"}]
    BY <1>1, <2>1 DEF IInv, TypeOK, AddPlaylist
  <2>4. ASSUME NEW g \in Handlers
        PROVE  /\ hpc'[g] = "merge" => old'[g] # None
               /\ hpc'[g] \in {"merge", "set"} => new'[g] # None
    <3>1. CASE g = h
      BY <1>1, <2>1, <3>1 DEF IInv, TypeOK, AddPlaylist
    <3>2. CASE g # h
      BY <1>1, <3>2 DEF IInv, TypeOK, AddPlaylist
    <3> QED
      BY <3>1, <3>2
  <2>5. UNCHANGED <<current, currentlyPrefetching, queues, workers>>
    BY DEF AddPlaylist
  <2> QED
    BY <2>2, <2>3, <2>4, <2>5 DEF IInv, TypeOK, queues, workers
<1>4. NoStuckMark'
  BY DEF IInv, NoStuckMark, AddPlaylist, workers
<1>5. OnlyListedClips'
  BY <1>1 DEF IInv, TypeOK, OnlyListedClips
<1>6. QueuesListed'
  <2>1. ASSUME NEW q \in Queues, qpc[q] \in {"check", "launch"}
        PROVE  list'[qobj[q]] = list[qobj[q]]
    <3>1. qobj[q] # None
      BY <2>1 DEF IInv, TypeOK
    <3> QED
      BY <1>1, <3>1, InUse DEF IInv, TypeOK
  <2> QED
    BY <2>1 DEF IInv, QueuesListed, AddPlaylist, queues
<1>7. WorkersListed'
  <2>1. ASSUME NEW w \in Workers, wpc[w] # "idle"
        PROVE  list'[wobj[w]] = list[wobj[w]]
    <3>1. wobj[w] # None
      BY <2>1 DEF IInv, TypeOK
    <3> QED
      BY <1>1, <3>1, InUse DEF IInv, TypeOK
  <2> QED
    BY <2>1 DEF IInv, WorkersListed, AddPlaylist, workers
<1> QED
  BY <1>3, <1>4, <1>5, <1>6, <1>7 DEF IInv

(* Merging keeps the invariant: only listed clips are carried over. *)
LEMMA MergeInv ==
  ASSUME IInv, NEW h \in Handlers, Merge(h)
  PROVE  IInv'
<1>1. old[h] \in Objects /\ new[h] \in Objects
  BY DEF IInv, TypeOK, Merge
<1>2. TypeOK'
  BY <1>1 DEF IInv, TypeOK, Merge, queues, workers
<1>3. NoStuckMark' /\ QueuesListed' /\ WorkersListed'
  BY DEF IInv, NoStuckMark, QueuesListed, WorkersListed, Merge, queues, workers
<1>4. OnlyListedClips'
  BY <1>1 DEF IInv, TypeOK, OnlyListedClips, Merge
<1> QED
  BY <1>2, <1>3, <1>4 DEF IInv

(* A step that lets go of objects keeps the invariant when what the queues *)
(* and workers still have to do was listed by their objects before.        *)
LEMMA CollectInv ==
  ASSUME IInv, TypeOK', NoStuckMark', Collect,
         \A q \in Queues : qpc'[q] \in {"check", "launch"} => Range(qclips'[q]) \subseteq Range(list[qobj'[q]]),
         \A w \in Workers : wpc'[w] # "idle" => wclip'[w] \in Range(list[wobj'[w]])
  PROVE  IInv'
<1>1. /\ OnlyListedClips'
      /\ \A o \in Objects : o \in Live' => list'[o] = list[o]
  BY CollectEffect DEF IInv
<1>2. /\ \A q \in Queues : qobj'[q] # None => qobj'[q] \in Live'
      /\ \A w \in Workers : wobj'[w] # None => wobj'[w] \in Live'
  BY DEF TypeOK, Live, Range
<1>3. QueuesListed'
  BY <1>1, <1>2 DEF TypeOK, QueuesListed
<1>4. WorkersListed'
  BY <1>1, <1>2 DEF TypeOK, WorkersListed
<1> QED
  BY <1>1, <1>3, <1>4 DEF IInv

(* So does one that leaves queues and workers alone. *)
LEMMA ReleaseInv ==
  ASSUME IInv, TypeOK', Collect, UNCHANGED <<currentlyPrefetching, queues, workers>>
  PROVE  IInv'
<1>1. NoStuckMark'
  BY DEF IInv, NoStuckMark, workers
<1> QED
  BY <1>1, CollectInv DEF IInv, QueuesListed, WorkersListed, queues, workers

(* Publishing keeps it, whatever was published before. *)
LEMMA PublishInv ==
  ASSUME IInv, NEW h \in Handlers, Publish(h)
  PROVE  IInv'
<1>1. TypeOK'
  BY CollectEffect DEF IInv, TypeOK, Publish, queues, workers
<1> QED
  BY <1>1, ReleaseInv DEF Publish

(* The removal of the playlist keeps it. *)
LEMMA RemovePlaylistInv ==
  ASSUME IInv, RemovePlaylist
  PROVE  IInv'
<1>1. TypeOK'
  BY CollectEffect DEF IInv, TypeOK, RemovePlaylist, handlers, queues, workers
<1> QED
  BY <1>1, ReleaseInv DEF RemovePlaylist

(* The queue that WarmPlaylist starts keeps it. *)
LEMMA WarmInv ==
  ASSUME IInv, NEW h \in Handlers, Warm(h)
  PROVE  IInv'
<1>1. UNCHANGED <<current, heap, currentlyPrefetching, old, new, workers>>
  BY DEF Warm
<1>2. NoStuckMark' /\ OnlyListedClips' /\ WorkersListed'
  BY <1>1 DEF IInv, NoStuckMark, OnlyListedClips, WorkersListed, heap, workers
<1>3. CASE UNCHANGED queues
  BY <1>1, <1>2, <1>3 DEF IInv, TypeOK, QueuesListed, Warm, heap, queues, workers
<1>4. ASSUME NEW q \in Queues, current # None,
             StartQueue(q, "check", current, SubSeq(list[current], 1, WarmLimit(list[current])))
      PROVE  IInv'
  <2>1. PICK s : /\ s = SubSeq(list[current], 1, WarmLimit(list[current]))
                 /\ s \in Seq(Clips) /\ Range(s) \subseteq Range(list[current])
                 /\ qclips' = [qclips EXCEPT ![q] = s]
    BY <1>4, WarmListed DEF IInv, TypeOK, StartQueue
  <2>2. /\ qpc' = [qpc EXCEPT ![q] = "check"]
        /\ qobj' = [qobj EXCEPT ![q] = current]
        /\ hpc' = [hpc EXCEPT ![h] = "idle"]
    BY <1>4 DEF StartQueue, Warm
  <2>3. TypeOK'
    BY <1>1, <1>4, <2>1, <2>2 DEF IInv, TypeOK, heap, workers
  <2>4. QueuesListed'
    BY <1>1, <2>1, <2>2 DEF IInv, TypeOK, QueuesListed, heap
  <2> QED
    BY <1>2, <2>3, <2>4 DEF IInv
<1> QED
  BY <1>3, <1>4 DEF Warm

(* A queue's move that leaves the rest alone keeps the invariant when the  *)
(* queue's own variables keep it.                                          *)
LEMMA QueueInv ==
  ASSUME IInv, NEW q \in Queues,
         NEW place \in {"idle", "lookup", "check", "launch"},
         NEW o \in Objects \cup {None}, NEW s \in Seq(Clips),
         place \notin {"idle", "lookup"} => o # None,
         place \in {"lookup", "launch"} => s # <<>>,
         place \in {"check", "launch"} => Range(s) \subseteq Range(list[o]),
         qpc' = [qpc EXCEPT ![q] = place],
         qobj' = [qobj EXCEPT ![q] = o],
         qclips' = [qclips EXCEPT ![q] = s],
         UNCHANGED <<current, heap, currentlyPrefetching, handlers, workers>>
  PROVE  IInv'
<1>1. NoStuckMark' /\ OnlyListedClips' /\ WorkersListed'
  BY DEF IInv, NoStuckMark, OnlyListedClips, WorkersListed, heap, workers
<1>2. TypeOK'
  BY DEF IInv, TypeOK, heap, handlers, workers
<1>3. QueuesListed'
  BY DEF IInv, TypeOK, QueuesListed, heap
<1> QED
  BY <1>1, <1>2, <1>3 DEF IInv

(* A request for a clip keeps it: the queue has the clip after it to look  *)
(* for.                                                                    *)
LEMMA GetFetchedClipInv ==
  ASSUME IInv, NEW q \in Queues, NEW i \in 1 .. Len(list[current]), GetFetchedClip(q, i)
  PROVE  IInv'
<1>1. list[current] \in Seq(Clips)
  BY DEF IInv, TypeOK, GetFetchedClip
<1>2. PICK j \in 1 .. Len(list[current]) : j = IF i < Len(list[current]) THEN i + 1 ELSE Len(list[current])
  BY <1>1, LenProperties
<1>3. PICK c \in Clips : c = list[current][j]
  BY <1>1, <1>2, ElementOfSeq
<1>4. StartQueue(q, "lookup", None, <<c>>)
  BY <1>2, <1>3 DEF GetFetchedClip
<1>5. <<c>> \in Seq(Clips) /\ <<c>> # <<>>
  OBVIOUS
<1> QED
  BY <1>4, <1>5, QueueInv DEF GetFetchedClip, StartQueue

(* Looking the playlist up keeps it. *)
LEMMA LookupInv ==
  ASSUME IInv, NEW q \in Queues, Lookup(q)
  PROVE  IInv'
<1>1. CASE current = None
  BY <1>1, QueueInv, EmptySeq DEF Lookup, EndQueue
<1>2. CASE current # None
  <2>1. list[current] \in Seq(Clips) /\ current \in Objects
    BY <1>2 DEF IInv, TypeOK
  <2>2. PICK s : /\ s = NextClips(list[current], Head(qclips[q]))
                 /\ s \in Seq(Clips) /\ Range(s) \subseteq Range(list[current])
    BY <2>1, NextListed
  <2>3. qclips' = [qclips EXCEPT ![q] = s]
    BY <1>2, <2>2 DEF Lookup
  <2> QED
    BY <1>2, <2>1, <2>2, <2>3, QueueInv DEF Lookup
<1> QED
  BY <1>1, <1>2

(* Skipping a clip, or taking it up, keeps it. *)
LEMMA CheckInv ==
  ASSUME IInv, NEW q \in Queues, Check(q)
  PROVE  IInv'
<1>1. /\ qpc \in [Queues -> {"idle", "lookup", "check", "launch"}]
      /\ qobj \in [Queues -> Objects \cup {None}]
      /\ qclips \in [Queues -> Seq(Clips)]
      /\ qpc[q] = "check" /\ qclips[q] # <<>> /\ qobj[q] # None
      /\ Range(qclips[q]) \subseteq Range(list[qobj[q]])
  BY DEF IInv, TypeOK, QueuesListed, Check
<1>2. PICK s : s = Tail(qclips[q]) /\ s \in Seq(Clips) /\ Range(s) \subseteq Range(list[qobj[q]])
  BY <1>1, TakeListed
<1>3. UNCHANGED <<current, heap, currentlyPrefetching, handlers, qobj, workers>>
  BY DEF Check
<1>4. qobj' = [qobj EXCEPT ![q] = qobj[q]]
  BY <1>1, <1>3
<1>5. CASE qclips' = [qclips EXCEPT ![q] = Tail(@)] /\ UNCHANGED qpc
  <2>1. qpc' = [qpc EXCEPT ![q] = "check"] /\ qclips' = [qclips EXCEPT ![q] = s]
    BY <1>1, <1>2, <1>5
  <2> QED
    BY <1>1, <1>2, <1>3, <1>4, <2>1, QueueInv
<1>6. CASE qpc' = [qpc EXCEPT ![q] = "launch"] /\ UNCHANGED qclips
  <2>1. PICK r \in Seq(Clips) : r = qclips[q] /\ r # <<>> /\ Range(r) \subseteq Range(list[qobj[q]])
    BY <1>1
  <2>2. PICK o \in Objects \cup {None} : o = qobj[q] /\ o # None
    BY <1>1
  <2>3. qclips' = [qclips EXCEPT ![q] = r] /\ qobj' = [qobj EXCEPT ![q] = o]
    BY <1>1, <1>4, <1>6, <2>1, <2>2
  <2> QED
    BY <1>3, <1>6, <2>1, <2>2, <2>3, QueueInv
<1> QED
  BY <1>5, <1>6 DEF Check

(* Marking a clip and starting its worker keeps it. *)
LEMMA LaunchInv ==
  ASSUME IInv, NEW q \in Queues, Launch(q)
  PROVE  IInv'
<1>1. /\ qclips[q] \in Seq(Clips) /\ qclips[q] # <<>>
      /\ qobj[q] \in Objects /\ qobj[q] # None
      /\ Range(qclips[q]) \subseteq Range(list[qobj[q]])
  BY DEF IInv, TypeOK, QueuesListed, Launch
<1>2. PICK c \in Clips : c = Head(qclips[q]) /\ c \in Range(list[qobj[q]])
  BY <1>1, TakeListed
<1>3. PICK s \in Seq(Clips) : s = Tail(qclips[q]) /\ Range(s) \subseteq Range(list[qobj[q]])
  BY <1>1, TakeListed
<1>4. PICK w \in Workers : /\ wpc[w] = "idle"
                           /\ wpc' = [wpc EXCEPT ![w] = "fetch"]
                           /\ wobj' = [wobj EXCEPT ![w] = qobj[q]]
                           /\ wclip' = [wclip EXCEPT ![w] = c]
  BY <1>2 DEF Launch
<1>5. /\ currentlyPrefetching' = currentlyPrefetching \cup {c}
      /\ qpc' = [qpc EXCEPT ![q] = "check"]
      /\ qclips' = [qclips EXCEPT ![q] = s]
      /\ UNCHANGED <<current, heap, qobj, handlers>>
  BY <1>2, <1>3 DEF Launch
<1>6. TypeOK'
  BY <1>1, <1>4, <1>5 DEF IInv, TypeOK, heap, handlers
<1>7. NoStuckMark'
  BY <1>4, <1>5 DEF IInv, TypeOK, NoStuckMark
<1>8. OnlyListedClips'
  BY <1>5 DEF IInv, OnlyListedClips, heap
<1>9. QueuesListed'
  BY <1>3, <1>5 DEF IInv, TypeOK, QueuesListed, heap
<1>10. WorkersListed'
  BY <1>2, <1>4, <1>5 DEF IInv, TypeOK, WorkersListed, heap
<1> QED
  BY <1>6, <1>7, <1>8, <1>9, <1>10 DEF IInv

(* The end of a queue keeps it. *)
LEMMA DrainedInv ==
  ASSUME IInv, NEW q \in Queues, Drained(q)
  PROVE  IInv'
<1>1. /\ qpc' = [qpc EXCEPT ![q] = "idle"]
      /\ qobj' = [qobj EXCEPT ![q] = None]
      /\ qclips' = [qclips EXCEPT ![q] = <<>>]
      /\ UNCHANGED <<current, currentlyPrefetching, handlers, workers>>
      /\ Collect
  BY DEF Drained, EndQueue
<1>2. TypeOK'
  BY <1>1, CollectEffect, EmptySeq DEF IInv, TypeOK, handlers, workers
<1>3. NoStuckMark'
  BY <1>1 DEF IInv, NoStuckMark, workers
<1>4. \A p \in Queues : qpc'[p] \in {"check", "launch"} => Range(qclips'[p]) \subseteq Range(list[qobj'[p]])
  BY <1>1 DEF IInv, TypeOK, QueuesListed
<1>5. \A w \in Workers : wpc'[w] # "idle" => wclip'[w] \in Range(list[wobj'[w]])
  BY <1>1 DEF IInv, WorkersListed, workers
<1> QED
  BY <1>1, <1>2, <1>3, <1>4, <1>5, CollectInv

(* A fetched clip is put into its object, which lists it. *)
LEMMA AddClipInv ==
  ASSUME IInv, NEW w \in Workers, AddClip(w)
  PROVE  IInv'
<1>1. wobj[w] \in Objects /\ wclip[w] \in Clips /\ wclip[w] \in Range(list[wobj[w]])
  BY DEF IInv, TypeOK, WorkersListed, AddClip
<1>2. TypeOK'
  BY <1>1 DEF IInv, TypeOK, AddClip, handlers, queues
<1>3. NoStuckMark' /\ QueuesListed' /\ WorkersListed'
  BY DEF IInv, TypeOK, NoStuckMark, QueuesListed, WorkersListed, AddClip, queues
<1>4. OnlyListedClips'
  BY <1>1 DEF IInv, TypeOK, OnlyListedClips, AddClip
<1> QED
  BY <1>2, <1>3, <1>4 DEF IInv

(* A failed fetch keeps its worker until the mark is gone. *)
LEMMA FetchFailsInv ==
  ASSUME IInv, NEW w \in Workers, FetchFails(w)
  PROVE  IInv'
<1>1. TypeOK'
  BY DEF IInv, TypeOK, FetchFails, heap, handlers, queues
<1>2. NoStuckMark' /\ QueuesListed' /\ WorkersListed' /\ OnlyListedClips'
  BY DEF IInv, TypeOK, NoStuckMark, QueuesListed, WorkersListed, OnlyListedClips, FetchFails, heap, queues
<1> QED
  BY <1>1, <1>2 DEF IInv

(* The mark goes with its worker. *)
LEMMA UnmarkInv ==
  ASSUME IInv, NEW w \in Workers, Unmark(w)
  PROVE  IInv'
<1>1. /\ currentlyPrefetching' = currentlyPrefetching \ {wclip[w]}
      /\ wpc' = [wpc EXCEPT ![w] = "idle"]
      /\ wobj' = [wobj EXCEPT ![w] = None]
      /\ wclip' = [wclip EXCEPT ![w] = None]
      /\ UNCHANGED <<current, handlers, queues>>
      /\ Collect
  BY DEF Unmark, EndWorker
<1>2. TypeOK'
  BY <1>1, CollectEffect DEF IInv, TypeOK, handlers, queues
<1>3. NoStuckMark'
  BY <1>1 DEF IInv, TypeOK, NoStuckMark
<1>4. \A q \in Queues : qpc'[q] \in {"check", "launch"} => Range(qclips'[q]) \subseteq Range(list[qobj'[q]])
  BY <1>1 DEF IInv, QueuesListed, queues
<1>5. \A v \in Workers : wpc'[v] # "idle" => wclip'[v] \in Range(list[wobj'[v]])
  BY <1>1 DEF IInv, TypeOK, WorkersListed
<1> QED
  BY <1>1, <1>2, <1>3, <1>4, <1>5, CollectInv

(* An expired clip is only taken away. *)
LEMMA CleanClipInv ==
  ASSUME IInv, NEW o \in Objects, NEW c \in Clips, CleanClip(o, c)
  PROVE  IInv'
<1>1. TypeOK'
  BY DEF IInv, TypeOK, CleanClip, handlers, queues, workers
<1>2. NoStuckMark' /\ QueuesListed' /\ WorkersListed'
  BY DEF IInv, NoStuckMark, QueuesListed, WorkersListed, CleanClip, queues, workers
<1>3. OnlyListedClips'
  BY DEF IInv, TypeOK, OnlyListedClips, CleanClip
<1> QED
  BY <1>1, <1>2, <1>3 DEF IInv

-----------------------------------------------------------------------------
(* Every step keeps the invariant. *)
LEMMA NextInv == IInv /\ [Next]_vars => IInv'
<1> SUFFICES ASSUME IInv, [Next]_vars PROVE IInv'
  OBVIOUS
<1>1. CASE UNCHANGED vars
  BY <1>1 DEF IInv, TypeOK, NoStuckMark, OnlyListedClips, QueuesListed, WorkersListed,
              vars, heap, handlers, queues, workers
<1>2. ASSUME NEW h \in Handlers,
             (\E clips \in Listings : AddPlaylist(h, clips)) \/ Merge(h) \/ Publish(h) \/ Warm(h)
      PROVE  IInv'
  BY <1>2, AddPlaylistInv, MergeInv, PublishInv, WarmInv
<1>3. ASSUME NEW q \in Queues, NEW o \in Objects, NEW i \in 1 .. Len(list[o]), o = current, GetFetchedClip(q, i)
      PROVE  IInv'
  BY <1>3, GetFetchedClipInv
<1>4. ASSUME NEW q \in Queues, Queue(q)
      PROVE  IInv'
  BY <1>4, LookupInv, CheckInv, LaunchInv, DrainedInv DEF Queue
<1>5. ASSUME NEW w \in Workers, Worker(w)
      PROVE  IInv'
  BY <1>5, AddClipInv, FetchFailsInv, UnmarkInv DEF Worker
<1>6. CASE RemovePlaylist
  BY <1>6, RemovePlaylistInv
<1>7. ASSUME NEW o \in Objects, NEW c \in Clips, CleanClip(o, c)
      PROVE  IInv'
  BY <1>7, CleanClipInv
<1> QED
  BY <1>1, <1>2, <1>3, <1>4, <1>5, <1>6, <1>7 DEF Next

(* So the invariant always holds. *)
LEMMA Invariance == Spec => []IInv
  BY InitInv, NextInv, PTL DEF Spec

(* The pointers of handlers, queues and workers are never nil where they   *)
(* are followed.                                                           *)
THEOREM PrefetcherTypeCorrect == Spec => []TypeOK
<1>1. IInv => TypeOK
  BY DEF IInv
<1> QED
  BY <1>1, Invariance, PTL

(* No mark outlives the fetches of its clip. *)
THEOREM MarksAreFetched == Spec => []NoStuckMark
<1>1. IInv => NoStuckMark
  BY DEF IInv
<1> QED
  BY <1>1, Invariance, PTL

(* A playlist object never holds a clip it does not list. *)
THEOREM FetchedIsListed == Spec => []OnlyListedClips
<1>1. IInv => OnlyListedClips
  BY DEF IInv
<1> QED
  BY <1>1, Invariance, PTL
=============================================================================
