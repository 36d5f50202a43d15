---------------------------- MODULE MCTrackCohort ----------------------------
(* Instances of TrackCohort for TLC. *)
EXTENDS TrackCohort

MCTracks == {1, 2}
MCShas == ({0} \X (0..MaxCommits + 1)) \union {TrackTip(t) : t \in MCTracks}
MCNoSha == <<>>
=============================================================================
