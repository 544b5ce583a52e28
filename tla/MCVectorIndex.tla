--------------------------- MODULE MCVectorIndex ---------------------------
(* Small instances of VectorIndex for TLC: one person, one vector. *)
EXTENDS VectorIndex, TLC

CONSTANTS ann, k1, auto

JustAnn == k1 :> ann
=============================================================================
