----------------------------- MODULE Prefetcher -----------------------------
(***************************************************************************)
(* hls/prefetch.go: the prefetcher, for one playlist ID.  ModifyM3u8       *)
(* replaces the playlist object at every poll and carries over the clips   *)
(* already fetched; TsProxy and WarmPlaylist start queues, which start a   *)
(* worker for each clip; a janitor expires playlists and clips.  None of   *)
(* them waits for another: a queue or a worker goes on with the object it  *)
(* was started with, whether it is still the published one or not.         *)
(*                                                                         *)
(* Every operation of concurrentMap and of the set currentlyPrefetching is *)
(* atomic, and what the code does between two of them is not.  Whatever    *)
(* this playlist object is nobody has a pointer to any more is blank and   *)
(* may be made anew.  Time is left out: a playlist or a clip has expired     *)
(* when the janitor says so, and the delay between two fetches of a queue  *)
(* is an arbitrary one.  What a worker does to the replay tier and to the  *)
(* manifest history is in ManifestLifecycle.                               *)
(***************************************************************************)
EXTENDS Integers, Sequences, Functions

CONSTANTS
  Clips,           \* clip URLs
  Listings,        \* the clip lists the polls of the manifest may publish
  PrefetchCount,   \* clipPrefetchCount
  BackgroundFetch, \* model.Configuration.SegmentBackgroundFetch
  Objects,         \* bound: playlist objects in use at one time
  Handlers,        \* bound: manifest handlers at one time
  Queues,          \* bound: queueClipsForPrefetch calls at one time
  Workers,         \* bound: clip fetches at one time
  None             \* no object

ASSUME PrefetcherAssumption ==
  /\ Listings \subseteq Seq(Clips)
  /\ PrefetchCount \in Int
  /\ BackgroundFetch \in BOOLEAN
  /\ None \notin Objects

VARIABLES
  current,   \* playlistInfo: the published object
  list,      \* playlistClips (and clipToIndex) of each object
  fetched,   \* the clips in its fetchedClips
  currentlyPrefetching,
  hpc, old, new,              \* handlers: place, existing object, new object
  qpc, qobj, qclips,          \* queues: place, playlist, clips still to do
  wpc, wobj, wclip            \* workers: place, playlist, clip

heap == <<list, fetched>>
handlers == <<hpc, old, new>>
queues == <<qpc, qobj, qclips>>
workers == <<wpc, wobj, wclip>>
vars == <<current, heap, currentlyPrefetching, handlers, queues, workers>>

(* Every variable has a value of its kind; a handler that merges has an    *)
(* object to merge from, and a queue or worker under way has its playlist. *)
TypeOK ==
  /\ current \in Objects \cup {None}
  /\ list \in [Objects -> Seq(Clips)]
  /\ fetched \in [Objects -> SUBSET Clips]
  /\ currentlyPrefetching \subseteq Clips
  /\ hpc \in [Handlers -> {"idle", "merge", "set", "warm"}]
  /\ old \in [Handlers -> Objects \cup {None}]
  /\ new \in [Handlers -> Objects \cup {None}]
  /\ \A h \in Handlers : /\ hpc[h] = "merge" => old[h] # None
                         /\ hpc[h] \in {"merge", "set"} => new[h] # None
  /\ qpc \in [Queues -> {"idle", "lookup", "check", "launch"}]
  /\ qobj \in [Queues -> Objects \cup {None}]
  /\ qclips \in [Queues -> Seq(Clips)]
  /\ \A q \in Queues : /\ qpc[q] \notin {"idle", "lookup"} => qobj[q] # None
                       /\ qpc[q] \in {"lookup", "launch"} => qclips[q] # <<>>
  /\ wpc \in [Workers -> {"idle", "fetch", "unmark"}]
  /\ wobj \in [Workers -> Objects \cup {None}]
  /\ wclip \in [Workers -> Clips \cup {None}]
  /\ \A w \in Workers : wpc[w] # "idle" => wobj[w] # None /\ wclip[w] \in Clips

Init ==
  /\ current = None
  /\ list = [o \in Objects |-> <<>>]
  /\ fetched = [o \in Objects |-> {}]
  /\ currentlyPrefetching = {}
  /\ hpc = [h \in Handlers |-> "idle"]
  /\ old = [h \in Handlers |-> None] /\ new = [h \in Handlers |-> None]
  /\ qpc = [q \in Queues |-> "idle"] /\ qobj = [q \in Queues |-> None]
  /\ qclips = [q \in Queues |-> <<>>]
  /\ wpc = [w \in Workers |-> "idle"] /\ wobj = [w \in Workers |-> None]
  /\ wclip = [w \in Workers |-> None]

-----------------------------------------------------------------------------
(* The objects somebody has a pointer to. *)
Live ==
  ({current} \cup Range(old) \cup Range(new) \cup Range(qobj) \cup Range(wobj)) \ {None}

(* The heap after a step that lets go of some. *)
Collect ==
  /\ list' = [o \in Objects |-> IF o \in Live' THEN list[o] ELSE <<>>]
  /\ fetched' = [o \in Objects |-> IF o \in Live' THEN fetched[o] ELSE {}]

-----------------------------------------------------------------------------
(* AddPlaylistToCache: the new object is made and the existing one read ... *)
AddPlaylist(h, clips) ==
  /\ hpc[h] = "idle"
  /\ Objects \ Live # {}
  /\ LET o == CHOOSE o \in Objects : o \notin Live
     IN  /\ new' = [new EXCEPT ![h] = o]
         /\ list' = [list EXCEPT ![o] = clips]
         /\ fetched' = [fetched EXCEPT ![o] = {}]
  /\ old' = [old EXCEPT ![h] = current]
  /\ hpc' = [hpc EXCEPT ![h] = IF current = None THEN "set" ELSE "merge"]
  /\ UNCHANGED <<current, currentlyPrefetching, queues, workers>>

(* A mutant: every clip is carried over. *)
MergeAll(h) ==
  /\ hpc[h] = "merge"
  /\ hpc' = [hpc EXCEPT ![h] = "set"]
  /\ fetched' = [fetched EXCEPT ![new[h]] = fetched[old[h]]]
  /\ UNCHANGED <<current, list, currentlyPrefetching, old, new, queues, workers>>

(* ... mergeFetchedClips carries over what is still listed ... *)
Merge(h) ==
  /\ hpc[h] = "merge"
  /\ hpc' = [hpc EXCEPT ![h] = "set"]
  /\ fetched' = [fetched EXCEPT ![new[h]] = fetched[old[h]] \cap Range(list[new[h]])]
  /\ UNCHANGED <<current, list, currentlyPrefetching, old, new, queues, workers>>

(* ... and the new object is published, whatever is there by now. *)
Publish(h) ==
  /\ hpc[h] = "set"
  /\ current' = new[h]
  /\ hpc' = [hpc EXCEPT ![h] = "warm"]
  /\ old' = [old EXCEPT ![h] = None]
  /\ new' = [new EXCEPT ![h] = None]
  /\ UNCHANGED <<currentlyPrefetching, queues, workers>>
  /\ Collect

(* queueClipsForPrefetch is started as a goroutine. *)
StartQueue(q, place, o, clips) ==
  /\ qpc[q] = "idle"
  /\ qpc' = [qpc EXCEPT ![q] = place]
  /\ qobj' = [qobj EXCEPT ![q] = o]
  /\ qclips' = [qclips EXCEPT ![q] = clips]

(* WarmPlaylist's limit. *)
WarmLimit(clips) ==
  IF PrefetchCount <= 0 \/ PrefetchCount > Len(clips) THEN Len(clips) ELSE PrefetchCount

(* WarmPlaylist, when background fetching is on, looks the playlist up     *)
(* again and queues its first clips.                                       *)
Warm(h) ==
  /\ hpc[h] = "warm"
  /\ hpc' = [hpc EXCEPT ![h] = "idle"]
  /\ IF BackgroundFetch /\ current # None /\ list[current] # <<>>
     THEN \E q \in Queues :
            StartQueue(q, "check", current, SubSeq(list[current], 1, WarmLimit(list[current])))
     ELSE UNCHANGED queues
  /\ UNCHANGED <<current, heap, currentlyPrefetching, old, new, workers>>

-----------------------------------------------------------------------------
(* GetFetchedClip, asked for the clip at place i of the published list:    *)
(* prefetchClips is started with the clip after it.  (Its answer, whether  *)
(* the clip is in fetchedClips, is used in SegmentRequest.)                *)
GetFetchedClip(q, i) ==
  /\ current # None
  /\ i \in 1 .. Len(list[current])
  /\ LET n == Len(list[current])
     IN  StartQueue(q, "lookup", None, <<list[current][IF i < n THEN i + 1 ELSE n]>>)
  /\ UNCHANGED <<current, heap, currentlyPrefetching, handlers, workers>>

(* getNextPrefetchClips: the clips that follow c in a list. *)
NextClips(clips, c) ==
  IF \E i \in 1 .. Len(clips) : clips[i] = c
  THEN LET i == CHOOSE i \in 1 .. Len(clips) : clips[i] = c
       IN  SubSeq(clips, i + 1, IF i + PrefetchCount < Len(clips) THEN i + PrefetchCount ELSE Len(clips))
  ELSE <<>>

(* A mutant: prefetchClips does not ask whether the playlist is there. *)
LookupUnchecked(q) ==
  /\ qpc[q] = "lookup"
  /\ qpc' = [qpc EXCEPT ![q] = "check"]
  /\ qobj' = [qobj EXCEPT ![q] = current]
  /\ qclips' = [qclips EXCEPT ![q] = IF current = None THEN @ ELSE NextClips(list[current], Head(@))]
  /\ UNCHANGED <<current, heap, currentlyPrefetching, handlers, workers>>

(* A queue ends. *)
EndQueue(q) ==
  /\ qpc' = [qpc EXCEPT ![q] = "idle"]
  /\ qobj' = [qobj EXCEPT ![q] = None]
  /\ qclips' = [qclips EXCEPT ![q] = <<>>]

(* prefetchClips looks the playlist up again: it may have another object   *)
(* by now, or none.                                                        *)
Lookup(q) ==
  /\ qpc[q] = "lookup"
  /\ IF current = None
     THEN EndQueue(q)
     ELSE /\ qpc' = [qpc EXCEPT ![q] = "check"]
          /\ qobj' = [qobj EXCEPT ![q] = current]
          /\ qclips' = [qclips EXCEPT ![q] = NextClips(list[current], Head(@))]
  /\ UNCHANGED <<current, heap, currentlyPrefetching, handlers, workers>>

-----------------------------------------------------------------------------
(* queueClipsForPrefetch, one turn of its loop: a clip that is being       *)
(* fetched or is here already is skipped.  (The code looks at the marks    *)
(* first; a worker puts its clip into fetchedClips before it takes its     *)
(* mark away, so that one step is as good as two.)                         *)
Check(q) ==
  /\ qpc[q] = "check"
  /\ qclips[q] # <<>>
  /\ IF Head(qclips[q]) \in currentlyPrefetching \cup fetched[qobj[q]]
     THEN qclips' = [qclips EXCEPT ![q] = Tail(@)] /\ UNCHANGED qpc
     ELSE qpc' = [qpc EXCEPT ![q] = "launch"] /\ UNCHANGED qclips
  /\ UNCHANGED <<current, heap, currentlyPrefetching, handlers, qobj, workers>>

(* The clip is marked and its worker started: at once for the first clip   *)
(* of a queue, when the ticker fires for a later one.                      *)
Launch(q) ==
  /\ qpc[q] = "launch"
  /\ currentlyPrefetching' = currentlyPrefetching \cup {Head(qclips[q])}
  /\ \E w \in Workers :
       /\ wpc[w] = "idle"
       /\ wpc' = [wpc EXCEPT ![w] = "fetch"]
       /\ wobj' = [wobj EXCEPT ![w] = qobj[q]]
       /\ wclip' = [wclip EXCEPT ![w] = Head(qclips[q])]
  /\ qpc' = [qpc EXCEPT ![q] = "check"]
  /\ qclips' = [qclips EXCEPT ![q] = Tail(@)]
  /\ UNCHANGED <<current, heap, qobj, handlers>>

Drained(q) ==
  /\ qpc[q] = "check"
  /\ qclips[q] = <<>>
  /\ EndQueue(q)
  /\ UNCHANGED <<current, currentlyPrefetching, handlers, workers>>
  /\ Collect

Queue(q) == Lookup(q) \/ Check(q) \/ Launch(q) \/ Drained(q)

-----------------------------------------------------------------------------
(* A worker has its clip: addClip puts it into fetchedClips.  (The saves   *)
(* to the tier that follow may fail; nothing here depends on it.)          *)
AddClip(w) ==
  /\ wpc[w] = "fetch"
  /\ fetched' = [fetched EXCEPT ![wobj[w]] = @ \cup {wclip[w]}]
  /\ wpc' = [wpc EXCEPT ![w] = "unmark"]
  /\ UNCHANGED <<current, list, currentlyPrefetching, handlers, queues, wobj, wclip>>

EndWorker(w) ==
  /\ wpc' = [wpc EXCEPT ![w] = "idle"]
  /\ wobj' = [wobj EXCEPT ![w] = None]
  /\ wclip' = [wclip EXCEPT ![w] = None]

(* A mutant: a failed fetch returns without the deferred Remove. *)
FetchFailsMarked(w) ==
  /\ wpc[w] = "fetch"
  /\ EndWorker(w)
  /\ UNCHANGED <<current, currentlyPrefetching, handlers, queues>>
  /\ Collect

(* All attempts of fetchClip have failed. *)
FetchFails(w) ==
  /\ wpc[w] = "fetch"
  /\ wpc' = [wpc EXCEPT ![w] = "unmark"]
  /\ UNCHANGED <<current, heap, currentlyPrefetching, handlers, queues, wobj, wclip>>

(* The deferred currentlyPrefetching.Remove. *)
Unmark(w) ==
  /\ wpc[w] = "unmark"
  /\ currentlyPrefetching' = currentlyPrefetching \ {wclip[w]}
  /\ EndWorker(w)
  /\ UNCHANGED <<current, handlers, queues>>
  /\ Collect

Worker(w) == AddClip(w) \/ FetchFails(w) \/ Unmark(w)

-----------------------------------------------------------------------------
(* Prefetcher.Clean, and RemovePlaylist, the call of the inactivity        *)
(* janitor.  Clean decides by a snapshot, the removal takes what is        *)
(* published by then; so any playlist may be removed at any time.          *)
RemovePlaylist ==
  /\ current # None
  /\ current' = None
  /\ UNCHANGED <<currentlyPrefetching, handlers, queues, workers>>
  /\ Collect

(* PrefetchPlaylist.Clean removes the clips that had expired in a snapshot *)
(* one by one, from the object of the snapshot, published or not, and in   *)
(* whatever version is there by then.                                      *)
CleanClip(o, c) ==
  /\ o \notin Range(new)
  /\ c \in fetched[o]
  /\ fetched' = [fetched EXCEPT ![o] = @ \ {c}]
  /\ UNCHANGED <<current, list, currentlyPrefetching, handlers, queues, workers>>

Next ==
  \/ \E h \in Handlers : (\E clips \in Listings : AddPlaylist(h, clips)) \/ Merge(h) \/ Publish(h) \/ Warm(h)
  \/ \E q \in Queues : (\E o \in Objects : \E i \in 1 .. Len(list[o]) : o = current /\ GetFetchedClip(q, i)) \/ Queue(q)
  \/ \E w \in Workers : Worker(w)
  \/ RemovePlaylist \/ \E o \in Objects, c \in Clips : CleanClip(o, c)

Spec == Init /\ [][Next]_vars

-----------------------------------------------------------------------------
(* A clip that is marked is being fetched: whatever fails, and however     *)
(* often two queues have taken up one clip, no mark stays behind, which    *)
(* would keep the clip from ever being prefetched again.                   *)
NoStuckMark ==
  \A c \in currentlyPrefetching : \E w \in Workers : wpc[w] # "idle" /\ wclip[w] = c

(* fetchedClips has no limit of its own.  What bounds it is that an object *)
(* never holds a clip its playlist does not list, over any number of       *)
(* merges and late workers.                                                *)
OnlyListedClips == \A o \in Objects : fetched[o] \subseteq Range(list[o])
=============================================================================
