------------------------- MODULE ManifestLifecycle --------------------------
(***************************************************************************)
(* The life of what the proxy keeps for one manifest key: the history      *)
(* object in `histories', the playlist in the prefetcher and the segments  *)
(* in the active replay tier.  Manifest requests (ModifyM3u8), segment     *)
(* requests (TsProxy) and prefetch workers use them; the inactivity        *)
(* janitor (purgeInactiveManifests) takes them away.                       *)
(*                                                                         *)
(* None of them holds a lock across two calls, so every locked section of  *)
(* hls/manifest_history.go is an action of its own, and a goroutine may    *)
(* keep a pointer to a history that is no longer in the map.               *)
(*                                                                         *)
(* Time is lastAccess only: "recent" for within the idle window, "idle"    *)
(* for older, "zero" for the zero time reset leaves behind.  The content   *)
(* of a history (ManifestHistory) and of the tier (SegmentCache) is left   *)
(* out; the tier is only known to hold something or nothing.               *)
(***************************************************************************)
EXTENDS Integers

CONSTANTS
  Threads,          \* goroutines: manifest and segment requests, prefetch workers
  RequireSegments,  \* SegmentIdleRequireSegments
  BackgroundFetch   \* SegmentBackgroundFetch

ASSUME LifecycleAssumption ==
  /\ RequireSegments \in BOOLEAN
  /\ BackgroundFetch \in BOOLEAN

(* Only two history objects can be told apart: the one in the map and the  *)
(* one the janitor is about.  An object that is neither can never be       *)
(* either again, and nothing a goroutine does to it has an effect: a       *)
(* pointer to such an object is Gone.                                      *)
Objects == {1, 2}
Nil == 0
Gone == 3

VARIABLES
  history,    \* histories[key]: an object or Nil
  heap,       \* the fields of each object; one that is not in use is blank
  published,  \* whether the prefetcher has a playlist for the key
  queued,     \* whether a queueClipsForPrefetch still has clips to start
  kept,       \* whether the replay tier has segments for the key
  asked,      \* whether a player has ever asked for a segment (used in a property only)
  role,       \* what each goroutine does
  pc,         \* where it is
  ptr,        \* the history it holds, Gone or Nil
  jpc,        \* where the janitor is
  target,     \* the history it is about, or Nil
  wasNamed,   \* the playlistID it read from the target: set or not
  suspect     \* whether the target's lastAccess is before the sweep's cutoff

contentVars == <<published, queued, kept, asked>>
threadVars == <<role, pc, ptr>>
janitorVars == <<jpc, target, wasNamed>>
vars == <<history, heap, contentVars, threadVars, janitorVars, suspect>>

Object == [access    : {"recent", "idle", "zero"},  \* lastAccess
           named     : BOOLEAN,                     \* playlistID is set (to the key)
           requested : BOOLEAN]                     \* segmentsRequested

NewObject == [access |-> "recent", named |-> FALSE, requested |-> FALSE]
Blank == [access |-> "zero", named |-> FALSE, requested |-> FALSE]

(* Every variable has a value of its kind, and a goroutine that is about   *)
(* to use a history has one.                                               *)
TypeOK ==
  /\ history \in Objects \cup {Nil}
  /\ heap \in [Objects -> Object]
  /\ published \in BOOLEAN
  /\ queued \in BOOLEAN
  /\ kept \in BOOLEAN
  /\ asked \in BOOLEAN
  /\ role \in [Threads -> {"none", "manifest", "segment", "prefetch"}]
  /\ pc \in [Threads -> {"rest", "peek", "refresh", "get", "touch", "create", "merge",
                         "derive", "ensure", "publish", "mark", "serve", "fetch"}]
  /\ ptr \in [Threads -> Objects \cup {Nil, Gone}]
  /\ \A t \in Threads : ptr[t] # Nil <=>
       pc[t] \in {"refresh", "touch", "merge", "derive", "ensure", "mark"}
  /\ jpc \in {"wait", "check", "require", "read", "reset", "remove", "playlist", "content"}
  /\ target \in Objects \cup {Nil}
  /\ target # Nil <=> jpc # "wait"
  /\ wasNamed \in BOOLEAN
  /\ suspect \in BOOLEAN

Init ==
  /\ history = Nil
  /\ heap = [o \in Objects |-> Blank]
  /\ published = FALSE
  /\ queued = FALSE
  /\ kept = FALSE
  /\ asked = FALSE
  /\ role = [t \in Threads |-> "none"]
  /\ pc = [t \in Threads |-> "rest"]
  /\ ptr = [t \in Threads |-> Nil]
  /\ jpc = "wait"
  /\ target = Nil
  /\ wasNamed = FALSE
  /\ suspect = FALSE

-----------------------------------------------------------------------------
(* Parts of the actions. *)

(* The janitor lets go of an object: what is not in use any more is blank, *)
(* and a goroutine's pointer to it Gone.                                   *)
InUse == {history, target} \ {Nil}

LetGo ==
  /\ heap' = [o \in Objects |-> IF o \in InUse' THEN heap[o] ELSE Blank]
  /\ ptr' = [t \in Threads |-> IF ptr[t] \in InUse' \cup {Nil} THEN ptr[t] ELSE Gone]
  /\ UNCHANGED <<role, pc>>

(* A goroutine starts as r at place ... *)
Start(t, r, place) ==
  /\ role[t] = "none"
  /\ role' = [role EXCEPT ![t] = r]
  /\ pc' = [pc EXCEPT ![t] = place]
  /\ UNCHANGED ptr

(* ... goes on at place with pointer o ... *)
Goto(t, place, o) ==
  /\ pc' = [pc EXCEPT ![t] = place]
  /\ ptr' = [ptr EXCEPT ![t] = o]
  /\ UNCHANGED role

(* ... and ends. *)
End(t) ==
  /\ role' = [role EXCEPT ![t] = "none"]
  /\ pc' = [pc EXCEPT ![t] = "rest"]
  /\ ptr' = [ptr EXCEPT ![t] = Nil]

(* A change f to the history a goroutine holds. *)
Update(o, f(_)) ==
  heap' = IF o = Gone THEN heap ELSE [heap EXCEPT ![o] = f(@)]

(* lastAccess = time.Now(): the sweep under way does not find it inactive  *)
(* any more.                                                               *)
Accessed(o) == suspect' = (suspect /\ o # target)

Touched(h) == [h EXCEPT !.access = "recent"]
Named(h) == [h EXCEPT !.named = TRUE]
Requested(h) == [h EXCEPT !.access = "recent", !.requested = TRUE]

-----------------------------------------------------------------------------
(* getManifestHistory: the lookup in the map. *)
Get(t) ==
  /\ pc[t] = "get"
  /\ Goto(t, IF history = Nil THEN "create" ELSE "touch", history)
  /\ UNCHANGED <<history, heap, contentVars, janitorVars, suspect>>

(* Where a goroutine goes on when it has its history. *)
AfterGet(t) == IF role[t] = "manifest" THEN "merge" ELSE "mark"

(* getManifestHistory: touch the history that was found. *)
Touch(t) ==
  /\ pc[t] = "touch"
  /\ Goto(t, AfterGet(t), ptr[t])
  /\ Accessed(ptr[t])
  /\ Update(ptr[t], Touched)
  /\ UNCHANGED <<history, contentVars, janitorVars>>

(* createManifestHistory: a new object goes into the map, whatever is      *)
(* there by now; it takes the place of the object the map loses.           *)
Create(t) ==
  /\ pc[t] = "create"
  /\ LET new == IF target = 1 THEN 2 ELSE 1
     IN  /\ history' = new
         /\ heap' = [heap EXCEPT ![new] = NewObject]
         /\ ptr' = [x \in Threads |->
                     IF x = t THEN new ELSE IF ptr[x] = new THEN Gone ELSE ptr[x]]
  /\ pc' = [pc EXCEPT ![t] = AfterGet(t)]
  /\ UNCHANGED <<role, contentVars, janitorVars, suspect>>

-----------------------------------------------------------------------------
(* ManifestProxy and ModifyM3u8.  A request whose origin answer fails, or  *)
(* is a master playlist, does not get here.                                *)
Poll(t) ==
  /\ Start(t, "manifest", "get")
  /\ UNCHANGED <<history, heap, contentVars, janitorVars, suspect>>

(* The playlist does not parse: the request ends with its history made. *)
ParseError(t) ==
  /\ pc[t] = "merge"
  /\ End(t)
  /\ UNCHANGED <<history, heap, contentVars, janitorVars, suspect>>

(* merge, whose work on the segments is ManifestHistory. *)
Merge(t) ==
  /\ pc[t] = "merge"
  /\ Goto(t, "derive", ptr[t])
  /\ Accessed(ptr[t])
  /\ Update(ptr[t], Touched)
  /\ UNCHANGED <<history, contentVars, janitorVars>>

(* derivePlaylistID: currentPlaylistID ... *)
Derive(t) ==
  /\ pc[t] = "derive"
  /\ IF ptr[t] # Gone /\ heap[ptr[t]].named
     THEN Goto(t, "publish", Nil)
     ELSE Goto(t, "ensure", ptr[t])
  /\ UNCHANGED <<history, heap, contentVars, janitorVars, suspect>>

(* ... and ensurePlaylistID. *)
Ensure(t) ==
  /\ pc[t] = "ensure"
  /\ Goto(t, "publish", Nil)
  /\ Update(ptr[t], Named)
  /\ UNCHANGED <<history, contentVars, janitorVars, suspect>>

(* A mutant: WarmPlaylist is called whatever SegmentBackgroundFetch says. *)
PublishWarms(t) ==
  /\ pc[t] = "publish"
  /\ published' = TRUE
  /\ queued' = TRUE
  /\ End(t)
  /\ UNCHANGED <<history, heap, kept, asked, janitorVars, suspect>>

(* AddPlaylistToCache and, with background fetch on, WarmPlaylist. *)
Publish(t) ==
  /\ pc[t] = "publish"
  /\ published' = TRUE
  /\ queued' = (queued \/ BackgroundFetch)
  /\ End(t)
  /\ UNCHANGED <<history, heap, kept, asked, janitorVars, suspect>>

-----------------------------------------------------------------------------
(* TsProxy: TouchManifest looks the history up ... *)
Request(t) ==
  /\ Start(t, "segment", "peek")
  /\ asked' = TRUE
  /\ UNCHANGED <<history, heap, published, queued, kept, janitorVars, suspect>>

(* A mutant: TouchManifest does not ask whether the lookup found anything. *)
PeekUnchecked(t) ==
  /\ pc[t] = "peek"
  /\ Goto(t, "refresh", history)
  /\ UNCHANGED <<history, heap, contentVars, janitorVars, suspect>>

Peek(t) ==
  /\ pc[t] = "peek"
  /\ Goto(t, IF history = Nil THEN "get" ELSE "refresh", history)
  /\ UNCHANGED <<history, heap, contentVars, janitorVars, suspect>>

(* ... and touches it; RecordSegmentRequest then starts with a Get. *)
Refresh(t) ==
  /\ pc[t] = "refresh"
  /\ Goto(t, "get", Nil)
  /\ Accessed(ptr[t])
  /\ Update(ptr[t], Touched)
  /\ UNCHANGED <<history, contentVars, janitorVars>>

(* markSegmentRequested, the end of RecordSegmentRequest for a handler and *)
(* the last thing a prefetch worker does.                                  *)
Mark(t) ==
  /\ pc[t] = "mark"
  /\ IF role[t] = "segment" THEN Goto(t, "serve", Nil) ELSE End(t)
  /\ Accessed(ptr[t])
  /\ Update(ptr[t], Requested)
  /\ UNCHANGED <<history, contentVars, janitorVars>>

(* The rest of TsProxy.  GetFetchedClip starts prefetching when it knows   *)
(* the playlist; the segment is then found in a tier, or fetched from the  *)
(* origin, or the origin fails.  A fetched segment is saved to the tier    *)
(* unless the request had a Range header.                                  *)
Serve(t, saves) ==
  /\ pc[t] = "serve"
  /\ queued' = (queued \/ published)
  /\ kept' = (kept \/ saves)
  /\ End(t)
  /\ UNCHANGED <<history, heap, published, asked, janitorVars, suspect>>

-----------------------------------------------------------------------------
(* queueClipsForPrefetch starts a worker for a clip ... *)
Launch(t) ==
  /\ queued
  /\ Start(t, "prefetch", "fetch")
  /\ UNCHANGED <<history, heap, contentVars, janitorVars, suspect>>

(* ... and comes to the end of its list. *)
QueueDone ==
  /\ queued
  /\ queued' = FALSE
  /\ UNCHANGED <<history, heap, published, kept, asked, threadVars, janitorVars, suspect>>

(* The worker's fetch or its save to the store fails. *)
FetchFails(t) ==
  /\ pc[t] = "fetch"
  /\ End(t)
  /\ UNCHANGED <<history, heap, contentVars, janitorVars, suspect>>

(* addClip: the clip is saved to the tier; RecordSegmentRequest follows.   *)
AddClip(t) ==
  /\ pc[t] = "fetch"
  /\ kept' = TRUE
  /\ Goto(t, "get", Nil)
  /\ UNCHANGED <<history, heap, published, queued, asked, janitorVars, suspect>>

(* A goroutine's steps, its start apart. *)
Step(t) ==
  \/ Get(t) \/ Touch(t) \/ Create(t)
  \/ ParseError(t) \/ Merge(t) \/ Derive(t) \/ Ensure(t) \/ Publish(t)
  \/ Peek(t) \/ Refresh(t) \/ Mark(t) \/ \E saves \in BOOLEAN : Serve(t, saves)
  \/ FetchFails(t) \/ AddClip(t)

-----------------------------------------------------------------------------
(* purgeInactiveManifests: the cutoff and the snapshot of the map. *)
Sweep ==
  /\ jpc = "wait"
  /\ history # Nil
  /\ suspect' = (heap[history].access = "idle")
  /\ target' = history
  /\ jpc' = "check"
  /\ UNCHANGED <<history, heap, contentVars, threadVars, wasNamed>>

(* The janitor goes on at place with the same target ... *)
Continue(place) ==
  /\ jpc' = place
  /\ UNCHANGED <<target, wasNamed, suspect>>
  /\ LetGo

(* ... or is done with it. *)
Rest ==
  /\ jpc' = "wait"
  /\ target' = Nil
  /\ wasNamed' = FALSE
  /\ suspect' = FALSE
  /\ LetGo

(* inactiveSince(cutoff); the zero time does not count as inactive. *)
Check ==
  /\ jpc = "check"
  /\ UNCHANGED <<history, contentVars>>
  /\ IF suspect THEN Continue(IF RequireSegments THEN "require" ELSE "read") ELSE Rest

(* A mutant: the answer of hasServedSegments is taken the wrong way round. *)
RequireUnserved ==
  /\ jpc = "require"
  /\ UNCHANGED <<history, contentVars>>
  /\ IF heap[target].requested THEN Rest ELSE Continue("read")

(* hasServedSegments, asked only when SegmentIdleRequireSegments is on. *)
Require ==
  /\ jpc = "require"
  /\ UNCHANGED <<history, contentVars>>
  /\ IF heap[target].requested THEN Continue("read") ELSE Rest

(* currentPlaylistID. *)
ReadID ==
  /\ jpc = "read"
  /\ wasNamed' = heap[target].named
  /\ jpc' = "reset"
  /\ UNCHANGED <<history, heap, contentVars, threadVars, target, suspect>>

(* reset. *)
Reset ==
  /\ jpc = "reset"
  /\ heap' = [heap EXCEPT ![target] = Blank]
  /\ suspect' = FALSE
  /\ jpc' = "remove"
  /\ UNCHANGED <<history, contentVars, threadVars, target, wasNamed>>

(* A mutant: a history without a playlistID is skipped before the Remove.  *)
RemoveNamed ==
  /\ jpc = "remove"
  /\ history' = IF wasNamed THEN Nil ELSE history
  /\ IF wasNamed THEN Continue("playlist") ELSE Rest
  /\ UNCHANGED contentVars

(* histories.Remove(key), whatever object is there; then, without a        *)
(* playlistID, on to the next history.                                     *)
Remove ==
  /\ jpc = "remove"
  /\ history' = Nil
  /\ IF wasNamed THEN Continue("playlist") ELSE Rest
  /\ UNCHANGED contentVars

RemovePlaylist ==
  /\ jpc = "playlist"
  /\ published' = FALSE
  /\ UNCHANGED <<history, queued, kept, asked>>
  /\ Continue("content")

(* RemoveManifestSegments and ClearSegmentCache: at most one of the tiers  *)
(* is on (applyConfiguration), the call for the other returns at once.  A  *)
(* removal from disk that fails is only logged; it is left out.            *)
RemoveContent ==
  /\ jpc = "content"
  /\ kept' = FALSE
  /\ UNCHANGED <<history, published, queued, asked>>
  /\ Rest

Janitor ==
  Sweep \/ Check \/ Require \/ ReadID \/ Reset \/ Remove \/ RemovePlaylist \/ RemoveContent

-----------------------------------------------------------------------------
(* Time passes: an object has not been accessed for the idle window.       *)
GrowIdle(o) ==
  /\ o \in InUse
  /\ heap[o].access = "recent"
  /\ heap' = [heap EXCEPT ![o].access = "idle"]
  /\ UNCHANGED <<history, contentVars, threadVars, janitorVars, suspect>>

(* Prefetcher.Clean: the playlist has outlived PlaylistRetention.          *)
ExpirePlaylist ==
  /\ published
  /\ published' = FALSE
  /\ UNCHANGED <<history, heap, queued, kept, asked, threadVars, janitorVars, suspect>>

Next ==
  \/ \E t \in Threads : Poll(t) \/ Request(t) \/ Launch(t) \/ Step(t)
  \/ QueueDone
  \/ Janitor
  \/ \E o \in Objects : GrowIdle(o)
  \/ ExpirePlaylist

Spec == Init /\ [][Next]_vars

(* Goroutines run on, the tickers of both janitors fire again and again,   *)
(* a prefetch queue is a finite list, and time passes.  Whether requests   *)
(* come is up to the players.                                              *)
Fairness ==
  /\ \A t \in Threads : WF_vars(Step(t))
  /\ WF_vars(QueueDone)
  /\ WF_vars(Janitor)
  /\ \A o \in Objects : WF_vars(GrowIdle(o))
  /\ WF_vars(ExpirePlaylist)

FairSpec == Spec /\ Fairness

-----------------------------------------------------------------------------
(* reset leaves the zero time behind, which inactiveSince never takes for  *)
(* idle: a history that stayed in the map after its reset would be kept    *)
(* for ever.  It is there only until the janitor's Remove, its next step.  *)
NoZombie ==
  history # Nil /\ heap[history].access = "zero" => jpc = "remove" /\ target = history

(* "Require at least one segment request before idle cleanup can purge     *)
(* cached manifests" (cmd/root.go, --segment-idle-require-segments): when  *)
(* the janitor is about to reset a history, some player has asked for a    *)
(* segment.  Prefetch workers mark histories as requested, too: it holds   *)
(* without background fetch, where a segment request must have come before *)
(* any of them, and fails with it.                                         *)
PurgeNeedsRequest == RequireSegments /\ jpc \in {"read", "reset"} => asked

Purgeable ==
  /\ history # Nil
  /\ heap[history].access = "idle"
  /\ RequireSegments => heap[history].requested

(* An idle history is accessed again, or replaced, or leaves the map.      *)
PurgedWhenIdle == Purgeable ~> history = Nil \/ heap[history].access = "recent"

(* No request is being served and no prefetching is going on. *)
Quiet == ~queued /\ \A t \in Threads : role[t] = "none"

(* "Duration with no requests before manifest cache and stored segments    *)
(* are purged" (cmd/root.go): when all is quiet, no segment stays.         *)
ContentPurged == (<>[]Quiet) => <>[]~kept

(* The same line read the other way: with a request inside the duration,   *)
(* nothing is purged.                                                      *)
NoActivePurge ==
  [][jpc = "reset" /\ jpc' = "remove" => heap[target].access = "idle"]_vars
=============================================================================
