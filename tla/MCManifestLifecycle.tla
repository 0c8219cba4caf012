------------------------ MODULE MCManifestLifecycle ------------------------
(* ManifestLifecycle for TLC, whose goroutines and flags the configurations *)
(* name.                                                                    *)
EXTENDS ManifestLifecycle
=============================================================================
