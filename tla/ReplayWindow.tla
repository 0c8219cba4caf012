---------------------------- MODULE ReplayWindow ----------------------------
(***************************************************************************)
(* What the proxy promises a player about one live media playlist, with no *)
(* word about handlers, locks or maps: the playlist is a window over an    *)
(* ever growing list of segments.  A segment enters at the back and gets   *)
(* the next number; it leaves only at the front, and only when the window  *)
(* is longer than the configured limit.  The number of a segment is thus   *)
(* fixed while it is listed, and the single EXT-X-MEDIA-SEQUENCE header    *)
(* (here `first') numbers the whole list.                                  *)
(*                                                                         *)
(* ManifestHistory implements this specification.                          *)
(***************************************************************************)
EXTENDS Integers, Sequences, Functions

CONSTANTS
  Clips,  \* segment URLs
  Limit   \* longest window kept, 0 for no limit

VARIABLES
  first,  \* the number of the first listed segment
  window  \* the listed segments, oldest first

vars == <<first, window>>

Init ==
  /\ first = 0
  /\ window = <<>>

(* A segment that is not listed is added at the back. *)
Publish(c) ==
  /\ c \notin Range(window)
  /\ window' = Append(window, c)
  /\ UNCHANGED first

(* The oldest segments leave, exactly as many as the limit requires. *)
Retire ==
  /\ Limit > 0
  /\ Len(window) > Limit
  /\ window' = SubSeq(window, Len(window) - Limit + 1, Len(window))
  /\ first' = first + (Len(window) - Limit)

Next == Retire \/ \E c \in Clips : Publish(c)

Spec == Init /\ [][Next]_vars
=============================================================================
