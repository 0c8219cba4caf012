------------------------- MODULE MCManifestRewrite --------------------------
(* ManifestRewrite for TLC. *)
EXTENDS ManifestRewrite

\* A channel of eight segments, and its key, which changes once.
Broadcast == <<"c1", "c2", "c3", "c4", "c5", "c6", "c7", "c8">>
ClipNames == {"c1", "c2", "c3", "c4", "c5", "c6", "c7", "c8"}
Rotation == <<"a", "a", "a", "b", "b", "b", "b", "b">>
=============================================================================
