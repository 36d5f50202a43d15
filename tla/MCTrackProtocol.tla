--------------------------- MODULE MCTrackProtocol ---------------------------
(* Instances of TrackProtocol for TLC. *)
EXTENDS TrackProtocol, TLC

CONSTANTS s1, s2

ShaSymmetry == Permutations({s1, s2})
=============================================================================
