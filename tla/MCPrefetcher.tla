---------------------------- MODULE MCPrefetcher ----------------------------
(* Prefetcher for TLC. *)
EXTENDS Prefetcher, TLC

CONSTANTS c1, c2, c3

(* The window of the channel moves on by one clip. *)
Windows == {<<c1, c2>>, <<c2, c3>>}

(* Queues are alike, and so are workers. *)
Symmetry == Permutations(Queues) \cup Permutations(Workers)
=============================================================================
