------------------------- MODULE MCVerificationJobs -------------------------
(* Instances of VerificationJobs for TLC. *)
EXTENDS VerificationJobs

MCJobs == 1..2
=============================================================================
