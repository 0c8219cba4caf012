---------------------------- MODULE SegmentTier -----------------------------
(***************************************************************************)
(* What a replay tier promises the segment handler: for each manifest it   *)
(* holds the segments saved last, each in the version saved last, never    *)
(* more than the limit, and what happens to one manifest does not disturb  *)
(* another.  A tier is a sequence per manifest, in the order of the saves. *)
(*                                                                         *)
(* SegmentCache implements this specification.                             *)
(***************************************************************************)
EXTENDS Integers, Sequences

CONSTANTS
  ManifestIDs,
  Keys,         \* segment URLs
  Data,         \* segment bodies
  Miss,         \* the answer of a Load that finds nothing
  Limit         \* most segments held for one manifest, 0 for no limit

VARIABLES
  tier,   \* what is held for each manifest, oldest save first
  reply   \* the answer of the last Load

vars == <<tier, reply>>

Saved == [key : Keys, data : Data]

Init ==
  /\ tier = [m \in ManifestIDs |-> <<>>]
  /\ reply = Miss

(* The sequence without what it held for key k. *)
Without(s, k) ==
  IF \E i \in 1 .. Len(s) : s[i].key = k
  THEN LET i == CHOOSE i \in 1 .. Len(s) : s[i].key = k
       IN  SubSeq(s, 1, i - 1) \o SubSeq(s, i + 1, Len(s))
  ELSE s

(* What the limit leaves of a sequence: its newest elements. *)
Newest(s) ==
  IF Limit > 0 /\ Len(s) > Limit THEN SubSeq(s, Len(s) - Limit + 1, Len(s)) ELSE s

Save(m, k, d) ==
  /\ tier' = [tier EXCEPT ![m] = Newest(Append(Without(@, k), [key |-> k, data |-> d]))]
  /\ UNCHANGED reply

Load(m, k) ==
  /\ \/ \E i \in 1 .. Len(tier[m]) : tier[m][i].key = k /\ reply' = tier[m][i].data
     \/ /\ \A i \in 1 .. Len(tier[m]) : tier[m][i].key # k
        /\ reply' = Miss
  /\ UNCHANGED tier

Clear(m) ==
  /\ tier' = [tier EXCEPT ![m] = <<>>]
  /\ UNCHANGED reply

ClearAll ==
  /\ tier' = [m \in ManifestIDs |-> <<>>]
  /\ UNCHANGED reply

Next ==
  \/ \E m \in ManifestIDs, k \in Keys : Load(m, k) \/ \E d \in Data : Save(m, k, d)
  \/ \E m \in ManifestIDs : Clear(m)
  \/ ClearAll

Spec == Init /\ [][Next]_vars
=============================================================================
