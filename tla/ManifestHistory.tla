-------------------------- MODULE ManifestHistory ---------------------------
(***************************************************************************)
(* hls/manifest_history.go: one manifestHistory object, from its creation  *)
(* on, under the concurrent requests of several players for the same live  *)
(* manifest.  ModifyM3u8 parses the playlist it got from the origin and    *)
(* calls history.merge; merge numbers the segments it has not seen, trims  *)
(* the oldest ones and returns the list that is rendered for the player.   *)
(*                                                                         *)
(* The origin is a timeline of segment URLs behind a sliding window.  The  *)
(* URL is all that merge uses to tell segments apart, so a segment is its  *)
(* URL here, and the timeline may use one URL at several positions (a      *)
(* channel that loops).  Tags, Line, key and IV of an entry are left out:  *)
(* no property of this module is about them.  lastAccess, playlistID and   *)
(* segmentsRequested, and with them touch, reset and the janitor, belong   *)
(* to ManifestLifecycle.                                                   *)
(*                                                                         *)
(* The loop of merge is one action per entry, so that the lock matters:    *)
(* pc[p] = "merging" is the interval in which the handler of p holds h.mu. *)
(***************************************************************************)
EXTENDS Integers, Sequences, Functions

CONSTANTS
  Players,    \* the concurrent requesters of this manifest, one poll at a time each
  Clips,      \* segment URLs
  Timeline,   \* the origin's channel: the URL at each position
  WindowLen,  \* how many positions the origin lists at a time
  Limit,      \* config.Settings.SegmentCount, 0 or less for no limit
  MaxSeq      \* bound: no poll starts once this many numbers have been given

ASSUME HistoryAssumption ==
  /\ Timeline \in Seq(Clips)
  /\ WindowLen \in Nat \ {0}
  /\ Limit \in Int
  /\ MaxSeq \in Nat

VARIABLES
  head,      \* the newest position the origin lists
  segments,  \* h.segments: URL -> Sequence, the object's other fields left out
  order,     \* h.order
  nextSeq,   \* h.nextSeq
  pc,        \* where the handler of each player is
  poll,      \* its parsed playlist: positions lo..hi, and the next one to merge
  served     \* the list its last completed poll rendered

vars == <<head, segments, order, nextSeq, pc, poll, served>>

Entry == [clip : Clips, seq : Nat]

TypeOK ==
  /\ head \in 0 .. Len(Timeline)
  /\ DOMAIN segments \subseteq Clips
  /\ segments \in [DOMAIN segments -> Nat]
  /\ order \in Seq(Clips)
  /\ nextSeq \in Nat
  /\ pc \in [Players -> {"idle", "parsed", "merging"}]
  /\ poll \in [Players -> [lo : Nat, hi : Nat, at : Nat]]
  /\ served \in [Players -> Seq(Entry)]

(* createManifestHistory.  The origin may have been on the air for a while. *)
Init ==
  /\ head \in 0 .. Len(Timeline)
  /\ segments = [c \in {} |-> 0]
  /\ order = <<>>
  /\ nextSeq = 0
  /\ pc = [p \in Players |-> "idle"]
  /\ poll = [p \in Players |-> [lo |-> 1, hi |-> 0, at |-> 1]]
  /\ served = [p \in Players |-> <<>>]

-----------------------------------------------------------------------------
(* The origin adds a segment; the window follows it.  Several may be added *)
(* between two polls.                                                      *)
OriginAdvance ==
  /\ head < Len(Timeline)
  /\ head' = head + 1
  /\ UNCHANGED <<segments, order, nextSeq, pc, poll, served>>

WindowStart(n) == IF n > WindowLen THEN n - WindowLen + 1 ELSE 1

(* ManifestProxy has the origin's answer and ModifyM3u8 has parsed it into *)
(* newSegments.  A request that fails before merge (origin error, malformed *)
(* EXT-X-MEDIA-SEQUENCE, missing key) leaves this object alone: a stutter. *)
Fetch(p) ==
  /\ pc[p] = "idle"
  /\ nextSeq <= MaxSeq
  /\ pc' = [pc EXCEPT ![p] = "parsed"]
  /\ poll' = [poll EXCEPT ![p] =
                [lo |-> WindowStart(head), hi |-> head, at |-> WindowStart(head)]]
  /\ UNCHANGED <<head, segments, order, nextSeq, served>>

(* merge: h.mu.Lock(). *)
Lock(p) ==
  /\ pc[p] = "parsed"
  /\ \A q \in Players : pc[q] # "merging"
  /\ pc' = [pc EXCEPT ![p] = "merging"]
  /\ UNCHANGED <<head, segments, order, nextSeq, poll, served>>

-----------------------------------------------------------------------------
(* Mutants of the loop body and of the end of merge. *)
KeepEntryStuck(p) ==      \* the loop does not move on after a known entry
  /\ pc[p] = "merging"
  /\ poll[p].at <= poll[p].hi
  /\ Timeline[poll[p].at] \in DOMAIN segments
  /\ UNCHANGED vars

AddEntryNumbered(p, n) ==
  LET clip == Timeline[poll[p].at]
  IN  /\ pc[p] = "merging"
      /\ poll[p].at <= poll[p].hi
      /\ clip \notin DOMAIN segments
      /\ segments' = [c \in DOMAIN segments \cup {clip} |->
                        IF c = clip THEN n ELSE segments[c]]
      /\ nextSeq' = nextSeq + 1
      /\ order' = Append(order, clip)
      /\ poll' = [poll EXCEPT ![p].at = @ + 1]
      /\ UNCHANGED <<head, pc, served>>

AddEntryOriginNumber(p) == AddEntryNumbered(p, poll[p].at)   \* keeps the origin's number
AddEntryOffByOne(p) == AddEntryNumbered(p, nextSeq - 1)

-----------------------------------------------------------------------------
(* merge, one turn of the loop over entries: the URL is known.  Its entry  *)
(* is refreshed in place and keeps its Sequence and its place in order.    *)
KeepEntry(p) ==
  /\ pc[p] = "merging"
  /\ poll[p].at <= poll[p].hi
  /\ Timeline[poll[p].at] \in DOMAIN segments
  /\ poll' = [poll EXCEPT ![p].at = @ + 1]
  /\ UNCHANGED <<head, segments, order, nextSeq, pc, served>>

(* The URL is new: it is numbered and appended. *)
AddEntry(p) ==
  LET clip == Timeline[poll[p].at]
  IN  /\ pc[p] = "merging"
      /\ poll[p].at <= poll[p].hi
      /\ clip \notin DOMAIN segments
      /\ segments' = [c \in DOMAIN segments \cup {clip} |->
                        IF c = clip THEN nextSeq ELSE segments[c]]
      /\ nextSeq' = nextSeq + 1
      /\ order' = Append(order, clip)
      /\ poll' = [poll EXCEPT ![p].at = @ + 1]
      /\ UNCHANGED <<head, pc, served>>

(* Mutants of Drop: as many are dropped as should stay; one is dropped, as *)
(* if a poll never brought more than one.                                  *)
DropLimit == IF Limit > 0 /\ Len(order) > Limit THEN Limit ELSE 0
DropOne == IF Limit > 0 /\ Len(order) > Limit THEN 1 ELSE 0

(* How many of the oldest entries the limit makes merge drop. *)
Drop == IF Limit > 0 /\ Len(order) > Limit THEN Len(order) - Limit ELSE 0

(* Mutants of Finish. *)
FinishWith(p, kept, known) ==
  /\ pc[p] = "merging"
  /\ poll[p].at > poll[p].hi
  /\ order' = kept
  /\ segments' = Restrict(segments, known)
  /\ served' = [served EXCEPT ![p] =
                  [i \in 1 .. Len(kept) |-> [clip |-> kept[i], seq |-> segments[kept[i]]]]]
  /\ pc' = [pc EXCEPT ![p] = "idle"]
  /\ UNCHANGED <<head, nextSeq, poll>>

FinishKeepsEntries(p) ==   \* trims order and forgets the map
  FinishWith(p, SubSeq(order, Drop + 1, Len(order)), DOMAIN segments)

FinishDropsNewest(p) ==    \* trims the wrong end
  LET kept == SubSeq(order, 1, Len(order) - Drop)
  IN  FinishWith(p, kept, Range(kept))

FinishRestartsNumbers(p) ==   \* renumbers from the length of what is kept
  LET kept == SubSeq(order, Drop + 1, Len(order))
  IN  /\ pc[p] = "merging"
      /\ poll[p].at > poll[p].hi
      /\ order' = kept
      /\ segments' = Restrict(segments, Range(kept))
      /\ nextSeq' = Len(kept)
      /\ served' = [served EXCEPT ![p] =
                      [i \in 1 .. Len(kept) |-> [clip |-> kept[i], seq |-> segments[kept[i]]]]]
      /\ pc' = [pc EXCEPT ![p] = "idle"]
      /\ UNCHANGED <<head, poll>>

(* The end of merge: the trim, the combined list, h.mu.Unlock(), and what  *)
(* ModifyM3u8 renders from the list (the Sequence of an entry never changes *)
(* once it is numbered, so rendering after the unlock reads the same).     *)
(* The `!ok' skip of the combined loop is not modelled: HistoryConsistent  *)
(* says that every URL of order has its entry.                             *)
Finish(p) ==
  LET kept == SubSeq(order, Drop + 1, Len(order))
  IN  /\ pc[p] = "merging"
      /\ poll[p].at > poll[p].hi
      /\ order' = kept
      /\ segments' = Restrict(segments, DOMAIN segments \ {order[i] : i \in 1 .. Drop})
      /\ served' = [served EXCEPT ![p] =
                      [i \in 1 .. Len(kept) |-> [clip |-> kept[i], seq |-> segments[kept[i]]]]]
      /\ pc' = [pc EXCEPT ![p] = "idle"]
      /\ UNCHANGED <<head, nextSeq, poll>>

Merge(p) == KeepEntry(p) \/ AddEntry(p) \/ Finish(p)

Next ==
  \/ OriginAdvance
  \/ \E p \in Players : Fetch(p) \/ Lock(p) \/ Merge(p)

Spec == Init /\ [][Next]_vars

(* A goroutine that is not blocked runs on, and sync.Mutex hands the lock  *)
(* to a waiter that has waited long enough (its starvation mode), so a     *)
(* handler that can take the lock again and again does take it.  Players   *)
(* need not poll and the origin need not advance.                          *)
Fairness == \A p \in Players : SF_vars(Lock(p)) /\ WF_vars(Merge(p))

FairSpec == Spec /\ Fairness

-----------------------------------------------------------------------------
(* The map and the list agree: every listed URL has its entry and the      *)
(* other way round, and the entries carry consecutive numbers, the newest  *)
(* one nextSeq - 1 (so no URL is listed twice).  It holds inside a merge,  *)
(* too, at each turn of its loop.                                          *)
HistoryConsistent ==
  /\ DOMAIN segments = Range(order)
  /\ \A i \in 1 .. Len(order) : segments[order[i]] = nextSeq - Len(order) + i - 1

(* However many players poll a channel that never ends, its history does   *)
(* not grow: a list is never longer than the limit, and only the one merge *)
(* that has the lock may be above it, by the window it has parsed.         *)
HistoryBounded ==
  Limit > 0 => /\ \A p \in Players : Len(served[p]) <= Limit
               /\ Len(order) <= Limit + WindowLen

(* ModifyM3u8 writes one EXT-X-MEDIA-SEQUENCE header, the number of the    *)
(* first entry; a player counts on from it.  What it counts for an entry   *)
(* is the number the history gave that entry.                              *)
ServedContiguous ==
  \A p \in Players : \A i \in 1 .. Len(served[p]) :
    served[p][i].seq = served[p][1].seq + i - 1

(* Two successive lists of one player, whatever other players' merges came *)
(* between them: the window has not moved backwards at either end, and a   *)
(* number means the same segment in both (RFC 8216, 6.2.2).                *)
Follows(old, new) ==
  old = <<>> \/
    /\ new # <<>>
    /\ new[1].seq >= old[1].seq
    /\ new[Len(new)].seq >= old[Len(old)].seq
    /\ \A i \in 1 .. Len(old), j \in 1 .. Len(new) :
         old[i].seq = new[j].seq => old[i].clip = new[j].clip

PlayerNeverGoesBack ==
  [][\A p \in Players : Follows(served[p], served'[p])]_served

(* What a player is given ends with exactly what the origin listed for its *)
(* poll, in the origin's order.                                            *)
TailMatchesOrigin ==
  \A p \in Players : pc[p] = "idle" =>
    \A k \in 0 .. poll[p].hi - poll[p].lo :
      /\ k < Len(served[p])
      /\ served[p][Len(served[p]) - k].clip = Timeline[poll[p].hi - k]

(* A player is never given a segment after one that was broadcast later:   *)
(* the replayable window is a piece of the broadcast, in its order.        *)
InBroadcastOrder ==
  \A p \in Players : \A j \in 1 .. Len(served[p]) : \A i \in 1 .. j - 1 :
    \E n \in 1 .. Len(Timeline) : \E m \in 1 .. n - 1 :
      /\ served[p][i].clip = Timeline[m]
      /\ served[p][j].clip = Timeline[n]

(* The history implements the abstract window a player relies on. *)
Window == INSTANCE ReplayWindow WITH first <- nextSeq - Len(order), window <- order

ImplementsReplayWindow == Window!Spec

(* Every request that reaches merge gets its list. *)
PollAnswered == \A p \in Players : pc[p] = "parsed" ~> pc[p] = "idle"
=============================================================================
