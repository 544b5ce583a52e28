------------------------ MODULE MCDetectionEvidence ------------------------
(* Small instances of DetectionEvidence for TLC. *)
EXTENDS DetectionEvidence, TLC

CONSTANTS f1, f2, ann, u1, u2

FrameSymmetry == Permutations(Frames)

\* Unknowns merge into the known person or into each other.
UnknownIntoKnown == {<<u1, ann>>}
NoMerges == {}
UnknownIntoUnknown == {<<u1, u2>>}

\* Chains: u1 into u2 into the known person.
Chain == {<<u1, u2>>, <<u2, ann>>}
=============================================================================
