------------------------------ MODULE FileTier ------------------------------
(***************************************************************************)
(* What the disk tier promises over any number of failures, crashes and    *)
(* restarts: a directory loses a segment to the limit, but never one of    *)
(* the newest that the limit allows, or while the directory is being       *)
(* removed, which may stop half-way.  Files that cannot be removed make    *)
(* the trim skip them and take newer ones, so "oldest first" is no part of *)
(* the promise.                                                            *)
(*                                                                         *)
(* SegmentStore implements this specification.                             *)
(***************************************************************************)
EXTENDS Integers, FiniteSets

CONSTANTS
  Dirs,   \* one directory for each manifest
  Keys,   \* segment URLs
  Times,  \* of the file system, numbers
  Limit   \* most segments kept in a directory, 0 or less for no limit

VARIABLES
  saved,   \* the segments that can be loaded: path -> time of the save
  doomed   \* the directories that are being removed

Init == saved = [p \in {} |-> 0] /\ doomed = {}

Of(d) == {p \in DOMAIN saved : p[1] = d}

Without(S) == [p \in DOMAIN saved \ S |-> saved[p]]

(* A segment is saved, perhaps again, and is then a newest one. *)
Save(p, t) ==
  /\ \A q \in Of(p[1]) : saved[q] <= t
  /\ saved' = [q \in DOMAIN saved \cup {p} |-> IF q = p THEN t ELSE saved[q]]
  /\ UNCHANGED doomed

(* Those that keep p from being one of the newest. *)
NotOlder(p) == {q \in Of(p[1]) \ {p} : saved[p] <= saved[q]}

Evict(p) ==
  /\ p \in DOMAIN saved
  /\ Limit > 0 /\ Cardinality(NotOlder(p)) >= Limit
  /\ saved' = Without({p})
  /\ UNCHANGED doomed

Drop(p) ==
  /\ p[1] \in doomed
  /\ saved' = Without({p})
  /\ UNCHANGED doomed

(* A removal begins, ends, fails or is cut off. *)
Doom ==
  /\ doomed' \in SUBSET Dirs
  /\ UNCHANGED saved

Next ==
  \/ \E p \in Dirs \X Keys : Evict(p) \/ Drop(p) \/ \E t \in Times : Save(p, t)
  \/ Doom

Spec == Init /\ [][Next]_<<saved, doomed>>
=============================================================================
