--------------------------- MODULE MCSegmentStore ---------------------------
(* SegmentStore for TLC. *)
EXTENDS SegmentStore

(* Manifests with a directory each, named like the manifest. *)
OwnDir == [m \in ManifestIDs |-> m]
=============================================================================
