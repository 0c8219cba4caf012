------------------------- MODULE MCManifestHistory --------------------------
(* Instances of ManifestHistory for TLC. *)
EXTENDS ManifestHistory

\* A channel whose segments all have a URL of their own.
Broadcast == <<"c1", "c2", "c3", "c4", "c5", "c6", "c7", "c8">>

\* A channel that shows a segment again, after one and after several others.
Rerun == <<"c1", "c2", "c1", "c3", "c4", "c2", "c5">>

\* The URLs of a channel.
ClipNames == {"c1", "c2", "c3", "c4", "c5", "c6", "c7", "c8"}
=============================================================================
