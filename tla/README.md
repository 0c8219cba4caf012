# TLA+ verification of hls-proxy

hls-proxy stands between HLS players and an origin. It rewrites playlists so that
players come back to it for segments, keeps a longer history of a live channel than
the origin does, prefetches segments and keeps them in memory or on disk for replay,
and takes all of it away when a manifest is no longer requested.

The interesting part is what several goroutines do to the state of one manifest:
request handlers, prefetch workers, two janitors and a signal handler. Each piece of
state has a lock of its own and hardly any decision is made and carried out under one
lock.

## Inventory

| Component | State | Operations | Hard behaviour | Correct when |
|---|---|---|---|---|
| Manifest history, `hls/manifest_history.go` `merge` | per manifest: `segments` (URL to entry), `order`, `nextSeq` under `h.mu` | `merge(entries, limit)` called by `ModifyM3u8` with what the origin listed | origin answers of different age are merged in lock order; gaps; URLs used again; the limit against the origin's window | map and list agree; numbers are consecutive and never change meaning; the list ends with the origin's window; broadcast order |
| Manifest lifecycle, `hls/manifest_history.go` (the rest) | `histories` map; `lastAccess`, `playlistID`, `segmentsRequested` of each history | `getManifestHistory`, `touch`, `ensurePlaylistID`, `markSegmentRequested`, `TouchManifest`, `RecordSegmentRequest`, `purgeInactiveManifests` | every method locks for itself: lookup and insert, check and reset, reset and remove are interleaved with requests | what is idle goes, with its segments; what is in use, or still waits for the first segment request, stays |
| Prefetcher, `hls/prefetch.go`, `hls/concurrent_map.go` | `playlistInfo`, fetched clips with expiry, `currentlyPrefetching`, a janitor | `AddPlaylistToCache`, `WarmPlaylist`, `GetFetchedClip`, `queueClipsForPrefetch`, `Clean`, `RemovePlaylist` | workers outlive the playlist they work for; check and add are separate; a clean-up works on a snapshot; a ticker per call | no clip stays marked as being fetched; an object holds only clips it lists |
| Manifest rewriting, `hls/modify_hls.go` | local to a request | parse, `merge`, derive the playlist ID, render, publish | the entries it renders are shared with the next merge; which segments a key tag applies to; key fetches may fail | every line keeps its own tags, key and IV; the list can be played from its head |
| Memory tier, `hls/segment_cache.go` | per manifest `order` and `entries`, RWMutex | Save, Load, Remove, Reset | order and map must agree for eviction to work | the last saved segments, each in its last version |
| Disk tier, `hls/segment_store.go` | files under one directory per manifest, mutex; `activeStore`, `storeEnabled` under `storeMu` | Save (mkdir, temp file, rename, trim), Load (no lock), Remove, `CleanupSegmentStore` on a signal | crashes between file operations, failing operations, lock-free readers, removals that stop half-way, a clean-up under another lock | no partial file is ever read; a trim leaves the limit and what it could not remove, and spares the newest; nothing is left after a graceful shutdown |
| Segment handler, `proxy/proxy.go` | none of its own | `TsProxy`: touch, record, look in the prefetcher, memory, disk, then origin; save; decrypt | the tiers change between the looks; Range requests must not be saved | the bytes are the segment asked for, whole and decrypted if that is asked for; only whole raw segments are saved |
| HTTP retry, `http_retry/` | none | bounded retries with a delay | bodies of failed answers | at most `Attempts` requests, and an end |
| Encryption, `encryption/encryption.go` | none | AES-CBC decryption with the IV made from a number | padding | - |
| Request parsing, `parsing/`; configuration, CLI, server, `config/`, `model/`, `cmd/`; logging | set once at the start | - | - | - |

**How they interact.** A manifest request runs `ManifestProxy` -> `ModifyM3u8`, which gets
or makes the history, merges, derives the playlist ID, renders and gives the playlist to
the prefetcher. A segment request runs `TsProxy`, which touches the history *or makes one*
(`RecordSegmentRequest`), starts prefetching, looks through the tiers and saves what it
had to fetch. Prefetch workers save to the tiers and then also call
`RecordSegmentRequest`. The inactivity janitor goes through a snapshot of the `histories`
map and for each idle one resets it, removes its key, removes the playlist and clears the
tiers. The prefetcher's own janitor expires playlists and clips. `applyConfiguration`
switches the memory tier off when the disk tier is on.

## Plan

1. `ReplayWindow`, `ManifestHistory` and its proofs: the playlist that players see. **Done.**
2. `SegmentTier`, `SegmentCache`: the memory tier as an implementation of an abstract
   one. **Done.** Its consistency and refinement are proved, on its own
   (`SegmentCacheProofs`) and among the requests that use it (`SegmentRequestProofs`).
3. `ManifestLifecycle`: requests against the janitor. **Done** and its safety proved.
4. `SegmentStore`: files, crashes, shutdown. **Done**, with every file operation failing,
   its safety proved, and that it implements the abstract `FileTier`.
5. `Prefetcher`: which clips are queued, duplicate suppression, clip expiry, a playlist that
   is replaced while its workers run. **Done** and proved.
6. `ManifestRewrite`: tag, key and IV of each entry through parsing, merging and rendering
   after the unlock; it extends `ManifestHistory`. **Done**; `LineDecrypts` is proved for
   any players, `KeyInForce` for one.
7. `SegmentRequest`: `TsProxy` over the tiers, with the Range rule, retries and decryption;
   it extends `SegmentCache`. **Done** and its safety proved.
8. Broadcast order and a complete tail, proved for one player. **Done**
   (`ManifestHistoryOrderProofs`).
9. Left: a composition of `ManifestHistory` and `ManifestLifecycle`, for what a player sees
   when its history is purged, or made twice, between two polls. The code promises nothing
   there (numbers start again at 0), and the product of the two is large.

Abstract specifications: `ReplayWindow` (what a player relies on), `SegmentTier` (what the
memory tier promises) and `FileTier` (what the disk tier promises). `RewriteSpec => Spec`
makes `ManifestHistory` one for `ManifestRewrite`, `RequestSpec => Spec` makes `SegmentCache`
one for the memory tier in `SegmentRequest`.

## Modules

| Module | What it is |
|---|---|
| `ReplayWindow` | abstract: a numbered window over a growing list |
| `ManifestHistory` | one history object under concurrent polls |
| `MCManifestHistory` | its timelines for TLC: `Broadcast` (8 segments, no repeats) and `Rerun` (URLs used again) |
| `ManifestHistoryProofs`, `ManifestHistoryOrderProofs` | theorems about it, for any players and for one |
| `ManifestRewrite`, `MCManifestRewrite` | the history of an encrypted channel, with the content of its entries and their rendering |
| `ManifestRewriteProofs` | theorems about it |
| `SegmentTier` | abstract: the last saved segments of each manifest |
| `SegmentCache` | `memorySegmentCache` |
| `SegmentCacheProofs` | theorems about it |
| `SegmentRequest`, `MCSegmentRequest` | `TsProxy` over the memory tier (`SegmentCache`), the disk tier and the prefetched clips |
| `SegmentRequestProofs` | theorems about it |
| `FileTier` | abstract: segments with the times of their saves; the limit spares the newest, a removal may stop half-way |
| `SegmentStore`, `MCSegmentStore` | `fileSegmentStore`, its shutdown and restart |
| `SegmentStoreProofs` | theorems about it |
| `Prefetcher`, `MCPrefetcher` | `Prefetcher` and `PrefetchPlaylist` for one playlist ID |
| `PrefetcherProofs` | theorems about it |
| `ManifestLifecycle`, `MCManifestLifecycle` | access and idle purge of one manifest key |
| `ManifestLifecycleProofs` | theorems about it |

### ManifestHistory

The origin is a timeline of URLs with a window that slides over it (`head`, `WindowLen`).
A player's poll is `Fetch` (the origin has answered and the playlist is parsed), `Lock`,
then one `KeepEntry` or `AddEntry` for each entry, and `Finish` for trim, unlock and
rendering. `pc[p] = "merging"` is the time for which `h.mu` is held. `segments` maps a URL
to its `Sequence`; an entry's tags, line, key and IV, and the race on them while a list is
rendered, are in `ManifestRewrite`. The Sequence of an entry is written before the entry is in
the map and never again, hence rendering after the unlock reads the same numbers.

Entries are told apart by URL, as in the code. A channel that lists a URL again (a loop, or
byte ranges of one file) does not get the new position listed: `TailMatchesOrigin` is
therefore stated, and checked, for a timeline without repeats, while the other properties
are checked with repeats too.

### ManifestRewrite

It extends `ManifestHistory`: `FetchKeys` is its `Fetch`, `RefreshEntry` its `KeepEntry`,
`InsertEntry` its `AddEntry`, each with what happens to the fields of the entry object, and
`Render` writes one line of the list after the unlock, with the fields as they are *then*.
`content[n + 1]` is the object with number n. `Parsed` is what the parser's loop makes of a
segment: without `DecryptSegments` the key tag stays with the one segment after it, with it
key and `currentIV` go to each segment.

The origin writes a key tag before the first segment of its playlist and where the key
changes, as RFC 8216 asks. The channel is encrypted throughout and names no IV, and no URL
is used again; what a merge writes over key and IV is then what was there, and reading them
in one step loses nothing. The slice of tags may really be read torn while it is written;
the module allows the request to end there and nothing else.

### SegmentRequest

A request record holds what `TsProxy` looks at: manifest ID, segment, whether it has a Range
and a key. A body is a segment in one of its versions and in a form: raw, a part, decrypted,
or spoilt by a decryption of anything but a whole raw body. `Request` is the first part of
`TsProxy` up to the prefetched clips, `LookInMemory` and `LookOnDisk` the tiers, then
`AttemptFails`, `Receive` (the loop of `ExecuteRetryableRequest`), `ReadFails` and `Deliver`.
The memory tier is `SegmentCache` itself, so that `CacheConsistent` and `ImplementsTier` are
checked as it is used; the disk tier is the set of its whole files, which `NoTornSegment`
justifies. `WorkerSaves`, `TrimFile`, `Purge` and `Shutdown` are what others do to the tiers
meanwhile. `config` is any result of `applyConfiguration`: at most one tier. As the signal
handler is registered with the disk tier only, its reset of the memory tier never finds one;
`ClearAll` of `SegmentCache` is therefore not reached here and covered by the proofs alone.

### Prefetcher

For one playlist ID. `list` and `fetched` are the heap of `PrefetchPlaylist` objects, and
`current` the published one. A poll is `AddPlaylist` (new object, existing one looked up),
`Merge`, `Publish`, `Warm`; a queue is `Lookup`, then `Check` and `Launch` for each clip,
`Drained`; a worker is `AddClip` or `FetchFails`, then `Unmark`. Queues and workers keep the
object they were started with. An object nobody points to is blank and may be used again
(`Collect`), so that the number of objects is no bound on the number of polls. Any playlist
and any clip may expire at any time, and the wait for a ticker is any wait.

`GetFetchedClip` starts `prefetchClips` with the clip *after* the requested one, which
itself begins after the one it is given: the very next clip is not queued by that request.
The set of marks is shared by all playlists in the code; one playlist ID is enough here,
since a clip of another one could only be marked by a worker of its own.

### SegmentCache

Each operation is under the cache's lock from beginning to end and is one action.
`ImplementsTier` maps a manifest's `order` and `entries` to a sequence of saved segments;
the answers of `Load` are part of the mapping.

### SegmentStore

A Save is `Start` (the store has been looked up), `Lock`, `MakeDir`, `CreateTemp`,
`WriteTemp`, `Rename`, `Walk` (which files are too many), `Trim` for each of them, `Saved`;
`Fail` and `RenameFails` are its error returns, and `WalkFails` its success without a trim,
when `os.Stat` or `filepath.Walk` fails. `CreateTemp` leaves a file that is not whole, and
stays behind after a crash or a failed write. Modification times come from a clock that need
not advance between two saves, and `sort.Slice` then decides as it likes. `Trim` takes the
victims in the order of the sort; a file that cannot be removed is logged and skipped, and
the loop goes on with newer ones. `skipped` remembers those files for `TrimmedAfterSave`, and
no action reads it.

A purge is `RemoveManifest` (the store has been looked up), `PurgeLock`, `PurgeFile` for each
file that `os.RemoveAll` gets to, `PurgeDone`. It holds `s.mu`, but `Load` reads in between,
the process may crash, and any of the removals may fail, which leaves the file and its
directory. `Signal`, `CleanFile`, `CleanDir`, `CleanDone`, `Exit` are the signal handler: it
needs only `storeMu`, so it keeps out new saves and not those already on their way. If its
`RemoveAll` fails, the store stays enabled, as in the code. `Exit` is also a crash at any
time; `Restart` finds whatever is on the disk.

`ImplementsFileTier` maps the segments' files to `FileTier` (`Loadable`): a `Rename` is its
`Save`, a `Trim` its `Evict` or, during a clean-up, its `Drop`, a removal by the janitor or
the signal handler its `Drop`. `Doomed` are the directories being removed; during and after
a clean-up that is all of them. Temp files and the mutex are not seen. `Evict` has the guard
that the limit's number of other segments in the directory *at that moment* are at least as
new, whatever has failed or been skipped since the directory was listed: the newest stay.
"Oldest first" is not promised, since a skipped file stays and a newer one goes. Nor is it
promised that what is left of a removal that stopped half-way ever goes. The clock does not
go backwards; if the system's is set back, "newest" is by the time it showed.

Left out: the two-digit directory level and `cleanupEmptyDirs`. A walk sees the directory in
one step; when a clean-up takes files away under it, that is `WalkFails` or a walk before or
after. A writer's path is one name: `MakeDir` creates all of it.

### ManifestLifecycle

For one manifest key. A goroutine is a manifest handler, a segment handler or a prefetch
worker (`role`), and every locked section of `manifest_history.go` it goes through is an
action. The janitor's `Sweep` fixes the cutoff, and `Check`, `Require`, `ReadID`, `Reset`,
`Remove`, `RemovePlaylist`, `RemoveContent` are its calls, one action each.

A history object matters as long as the map or the janitor has it. An object that has
dropped out of both can never come back, so a goroutine's pointer to it becomes `Gone` and
what it does to it changes nothing. That makes two objects enough for every behaviour,
without a bound. `lastAccess` is "recent", "idle" or "zero"; `suspect` says whether it is
before the cutoff of the sweep under way, which any access undoes.

`ContentPurged` has `<>[]Quiet` as a premise: requests have stopped. `asked` remembers
whether a player has ever asked for a segment; no action reads it. `PurgeNeedsRequest` is
stated with it and not with `segmentsRequested`, which prefetch workers set, too.

That a playlist expires is left to the fairness of `ExpirePlaylist`, and no property: it
would say no more than that the ticker fires.

## Runs

| Run | Question | Bounds | Result |
|---|---|---|---|
| `history_concurrent` | two players, repeated URLs: numbers, contents and size of the history | 7 positions, window 2, limit 3 | holds, 82 647 states |
| `history_stale_merge` | answers merged out of order | two players, window 2, limit 3 | `InBroadcastOrder` fails |
| `rewrite` | one player, any pauses between polls, with and without `DecryptSegments` | 8 segments, window 3, limit 4, the key changes once | holds, 4525 states |
| `rewrite_head` | can the list be played from its head? | the same, without `DecryptSegments` | `HeadHasKey` fails |
| `prefetch` | marks and clips of a playlist that is replaced, expired and purged | 3 clips in windows of 2, 2 objects, 1 handler, 2 queues, 2 workers, symmetric | holds, 427 959 states |
| `request` | segment requests while the tiers change | 1 manifest, 3 URLs, 2 versions, cache limit 2, 2 attempts, 1 request at a time, all three configurations | holds, 37 241 states |
| `store` | saves, purges, failures at every operation, crashes, shutdown; which segments are lost, does every save end? | 2 writers, 2 URLs, limit 1, 2 times | holds, 148 292 states |
| `store_shutdown` | a save during the clean-up | 2 writers, 2 manifests | `ShutdownLeavesNothing` fails |
| `lifecycle` | does a reset history leave the map, a purge wait for a player's segment request, an idle history go? | 1 goroutine of any role beside the janitor, without background fetch | holds, 53 703 states |
| `lifecycle_unasked_purge` | does a purge wait for that request with background fetch? | 2 goroutines | `PurgeNeedsRequest` fails |
| `lifecycle_idle_leak` | do the segments go? | 2 goroutines | `ContentPurged` fails |
| `lifecycle_active_purge` | does what is in use stay? | 2 goroutines | `NoActivePurge` fails |

**Why the bounds are enough.** In `ManifestHistory` the timelines are longer than limit plus
window, so that a history fills up, trims and slides on several times, and the origin can
move past a whole window between polls. `MaxSeq` stops new polls after 20 numbers; no run
comes near it. The longest history a merge can make, limit plus window, is reached. Two players give one stale answer, which is all the ordering hazard needs.
In `SegmentStore` a limit of one makes every second save trim; two writers may save the
same URL or different ones; two clock values give older, newer and equal times. A trim then
has one victim, which it removes or skips; that it skips an older and removes a newer one
takes three URLs and is covered by the proofs alone (`SavesTrim`, `StoreImplementsTier`).
In `ManifestLifecycle` the passing run has one goroutine beside the janitor, because the graph
for two is too large for liveness: what that concerns, one late step after a purge, needs
one. The theorems are about any number of them, the failing runs have two. In
`ManifestRewrite` one player suffices for `KeyInForce`, which holds for one only; that
`LineDecrypts` holds when one player's merge overwrites what another renders is
`LinesDecrypt`, for any number of players. In `SegmentRequest` requests act on each other through the tiers only, as
`WorkerSaves`, `TrimFile` and `Purge` do at any time, so that one at a time meets all that
several would; with a cache limit of 2 and 3 URLs saves evict. In `Prefetcher` two queues and
two workers cover a clip that is taken up twice, and two objects a poll that replaces the one
they work for. Symmetry is used only without liveness.

**Fairness.** A handler that can go on does (WF on its steps), and `sync.Mutex` gives the
lock to a waiter after a millisecond of waiting (its starvation mode), hence SF on `Lock`.
The janitors' tickers fire for ever (WF), a prefetch queue is a finite list (WF on
`QueueDone`), time passes (WF on `GrowIdle`). A purge gets through its finitely many files (WF
on `Purge`), whether it can remove them or not. A segment handler goes on (WF on `Handle`), as the
HTTP client has a timeout. No fairness is assumed for players, for the
origin's progress, for file operations succeeding, for signals or for crashes.

## What the failing runs show

- `rewrite_head`: a key tag applies to all segments after it and is kept with one. When the
  window has moved by two or more segments between two polls, the segment that is the first
  after a trim has been listed only behind others, and has no tag. A player that begins there
  takes encrypted segments for clear ones. `EXT-X-MAP` takes the same path.
- `history_stale_merge`: two requests, the older answer merged last, the history short. The
  older segments come back at the end of the list under new numbers.
- `store_shutdown`: the directory is emptied under `storeMu`, saves run under `s.mu`. A save
  that has begun makes its directory again, and the process ends.
- `lifecycle_idle_leak`: `RecordSegmentRequest` makes a history without a `playlistID`. The
  janitor removes it and skips the purge of the segments; nothing is left that could purge
  them. It takes a single segment request after a purge or without its manifest.
- `lifecycle_active_purge`: the check and the reset are two critical sections.
- `lifecycle_unasked_purge`: with background fetch a manifest poll starts prefetch workers, and
  a worker ends with `RecordSegmentRequest`. That sets the flag by which the janitor is to see
  that a player has asked for a segment; the manifest is purged without any having done so.

Seen while modelling and not given a run of their own:

- With `SegmentCount` below the origin's window, every merge trims segments which the next
  poll lists again; they are numbered anew and put at the end, so that `InBroadcastOrder` and
  `TailMatchesOrigin` fail (`RoomForWindow` in the proofs). The same trim cuts the playlist
  of a recording to its last segments. `config.Settings.SegmentCount` (the environment
  variable, default 30) is what counts, not the `--segments` flag.
- After a purge the numbers of a manifest start again at 0.
- `KeyInForce` fails for two players, when the older answer of one is merged last.
- A range of an encrypted segment is decrypted as if it were whole, and a prefetched clip is
  written whole, whatever range was asked for.

## Proofs

`ManifestHistoryProofs` proves for any players, URLs, timeline, window, limit and bound:

- `TypeCorrect`, `HistoryIsConsistent`: from the inductive invariant
  `HInv == TypeOK /\ PollInTimeline /\ HistoryConsistent`. `PollInTimeline` (a poll's window
  lies inside the timeline) is what makes `Timeline[poll[p].at]` a URL. `HistoryConsistent`
  gives each listed URL the number `nextSeq - Len(order) + i - 1`, from which it follows
  that no URL is listed twice (`OrderInjective`), so that trimming the list and trimming the
  map take away the same entries.
- `NumbersContiguous`: the list rendered by `Finish` has the numbers of the history, which
  are consecutive.
- `NeverGoesBack`: needs to know about the list of each player's last poll that its numbers
  still mean the same in the history (`ServedInv`): a number below `nextSeq` that is still
  in the list belongs to the same URL.
- `HistoryStaysBounded`: from `BoundInv`: one handler merges at a time, a poll is no longer
  than a window, and the history is above the limit by no more than the turns the loop has
  made. Without the mutex two merges would both add to it.
- `Refinement`: every step of `ManifestHistory` is a step of `ReplayWindow` or a stutter,
  with `first = nextSeq - Len(order)`.

`SegmentCacheProofs` proves for any manifests, URLs, bodies and limit:

- `CacheIsConsistent`: from the inductive invariant `CacheInv`, which gives each manifest's
  cache a list without repeats and a map with a body for exactly the listed keys (`Sound`).
  Without "no repeats" a removal of the first place would leave the key in the list, and an
  eviction would take a body that a later place still names.
- `CacheImplementsTier`: what `remove`, `set` and `evict` do to list and map, `Without`,
  `Append` and `Newest` do to the contents (`RemoveKeyRefines`, `SetKeyRefines`,
  `EvictRefines`); every operation then is the tier's operation of the same name. The lemmas
  `ImageOfRemoval`, `ImageOfAppend` and `ImageOfTail` say that reading off the contents
  commutes with each change of the list.

`ManifestHistoryOrderProofs` proves, for one player (`OnePlayer`), a channel that uses no URL
again (`DistinctClips`) and a limit not below the window (`RoomForWindow`):

- `TailIsOrigins` and `ListInBroadcastOrder`, from `OrderInv`: the history lists positions of
  the timeline in their order, ends at some position `l`, and misses none from the start of
  the poll up to `l` (`EndsAt`); the poll is not older than that, and the loop of `merge` has
  either only begun or is at most one past `l` (`PollAhead`). So a known URL is one at or
  before `l`, a new one is beyond it, and at the end of the loop `l` is the poll's last.

`ManifestRewriteProofs`, for any players, rotation of the key, window and limit:

- `RewriteImplementsHistory`: each step is one of `ManifestHistory` or leaves it alone, from
  which `HInv` and `ServedInv` carry over.
- `RewriteTypeCorrect`, `LinesDecrypt`: from `WInv`, which adds that the object of each known
  segment (`KnownRight`) and of each segment in a list that may yet be rendered
  (`ListedRight`) decrypts that segment. The second is needed because an object may have left
  the map before it is rendered; that a number never changes its meaning (`ServedInv`) is what
  keeps another merge from writing a different segment into it.
- `RewrittenInBroadcastOrder`, for one player and a limit not below the window: what
  `ManifestHistoryOrderProofs` says of the history holds of the list that is rendered.
- `KeyStaysInForce`, under the same two conditions: from `KInv`, which adds that segments of
  the history with no tag between them have one key (`OneKeyBetweenTags`) and that what is
  rendered is the history as it still is (`LinesShowHistory`). A segment is left without a tag
  only when its poll also listed the segment before it, with the same key; by `EndsAt` that
  one stands right before it in the history, too, in spite of all gaps. So a tag is taken away
  (`OneTagWritten`) or left out (`OneTagAppended`) only next to a segment with the same key,
  and a trim takes segments from the front (`OldTagsDropped`). The invariant is stated for the
  history and not for lines, since a later poll writes tags of entries already listed; it is
  stated for all runs of segments without tags, not for neighbours, so that no induction
  along the list is needed. With two players it fails in `InsertEntry`: a new segment need
  not be next to the last one.

`SegmentRequestProofs`, for any requests, manifests, segments, limit and attempts:

- `RequestTypeCorrect`, `RequestsAreAnswered`, `TiersStayReplayable`: from `RInv`, which adds
  that a body received from the origin is the segment asked for, raw, or a part of it if the
  request has a range (`ReceivedRight`). The two properties need each other: answers are right
  because the tiers are, and the tiers because a body is saved before it is decrypted.
- `RequestsKeepCacheConsistent`, `RequestsImplementTier`: each step of a handler, a worker or
  a purge is a step of `SegmentCache` on the memory tier or leaves it alone
  (`StepUsesCache`; `RInv` says that what is saved is a body under a URL), hence
  `RequestSpec => Spec` (`RequestsUseCache`), and the two theorems of `SegmentCacheProofs`
  hold of the tier in use.

`PrefetcherProofs`, for any clips, lists, count and number of goroutines:

- `PrefetcherTypeCorrect`, `MarksAreFetched`, `FetchedIsListed`: from `IInv`, which adds that
  what a queue has still to do and what a worker fetches is listed by the object they work
  for (`QueuesListed`, `WorkersListed`), so that a late worker cannot add a foreign clip.

`ManifestLifecycleProofs`, for any number of goroutines and both settings of the flags:

- `LifecycleTypeCorrect`, `NoZombieStays`: from `LInv`, which ties the
  place of a goroutine to its role and to whether it has a history (`ThreadsOK`), and the
  place of the janitor to its target (`RestOK`).
- `PurgeFollowsRequest`, without background fetch: from `AskedFirst`. As long as no player has
  asked for a segment, the queue is empty, every goroutine serves a manifest, no history is
  marked and the janitor turns back at its second check (`NobodyAsks`); only a player's
  request ends this. With background fetch `Publish` fills the queue, and the property fails.

`SegmentStoreProofs`, for any writers, manifests, URLs, directories, limit and clock:

- `StoreTypeCorrect`, `SegmentsAreWhole`, `SavesTrim`: from `SInv`, which adds that a temp
  file is whole when its writer is about to rename it (`WholeWhenRenamed`; true because only
  the holder of the mutex writes), that the files are finitely many, and that what a trim has
  still to remove and what it has skipped is enough (`TrimPlanned`). The last is kept by
  removals of any size, also those of a clean-up beside the trim.
- `StoreImplementsTier`: needs besides that no file is newer than the clock (`FilesPast`),
  that a temp file about to be renamed is at least as new as all in its directory
  (`TempNewest`), that the victims of a trim are not newer than what it keeps
  (`VictimsOldest`), and that as long as one of them is there, what it keeps is as many as the
  limit (`TrimNeeded`); together `AgeInv`. The first two make a `Rename` a save of a newest
  segment, the last two make each removal an eviction that spares the newest: what the trim
  keeps are neither victims nor skipped, and they are enough. `TrimNeeded` holds because a
  purge and a trim exclude each other by the mutex; a clean-up does not, so it is stated
  `Undisturbed` by one, and a trim during a clean-up is a `Drop`.

The assumptions are the named `ASSUME`s of the modules: the constants are of their types, the
window is not empty, every segment of an encrypted channel has a key. TLC evaluates each of
them in a passing run.

**Only model-checked:** all liveness (`PollAnswered`, `SaveEnds`, `PurgedWhenIdle`,
`RequestEnds`), which is out of the prover's reach. Every invariant and
every other action property or refinement of a passing run is a theorem; `TailMatchesOrigin`,
`InBroadcastOrder`, `KeyInForce` and `PurgeNeedsRequest` under the conditions named above,
which the failing runs `history_stale_merge` and `lifecycle_unasked_purge` and the notes
behind them show to be needed.

## Not modelled

- Master playlists and the rewriting of URLs, header lines and `URI=` attributes in
  `modify_hls.go`: string work without state. Channels that are partly clear, or whose key
  tags carry an IV: the parser's `currentIV` is then not the origin's number, which the
  hazards list.
- Time in the prefetcher: a delay between two fetches is any delay, hence nothing is said of
  the rate limit. No liveness of the prefetcher either: its workers end when the HTTP client
  does, which `request` checks for the handler.
- In HTTP retry the delays and the bodies that are not closed; `ExecuteRetryClipRequest` is
  one step that succeeds or fails.
- The arithmetic of AES and padding; request parsing (a request is a record of what it
  yields); reading flags and the environment (the values are constants); the server, the
  health check and logging: no state of their own, or output only.
- The composition named last in the plan.
