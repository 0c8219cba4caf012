-------------------------- MODULE MCSegmentRequest --------------------------
(* SegmentRequest for TLC. *)
EXTENDS SegmentRequest

\* Bodies of whole and of partial segments, raw and not.
AllBodies == Bodies
=============================================================================
