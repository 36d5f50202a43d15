--------------------------- MODULE CohortContract ---------------------------
(***************************************************************************)
(* What a cohort of parallel tracks promises its plan, whatever the        *)
(* protocol behind it: no track is merged before the whole cohort is       *)
(* frozen, merges come one at a time and in the order of the ids, the      *)
(* cohort completes only with every track merged, and the plan goes back   *)
(* to serial execution only when every track that was ever set up has been *)
(* dismantled; a track whose ownership cannot be proved stops both.        *)
(* TrackProtocol implements it.                                            *)
(***************************************************************************)
EXTENDS Naturals

CONSTANT Tracks

VARIABLES
    outcome,   \* of the cohort: preparing, running, falling back, or how it ended
    status     \* of each track

vars == <<outcome, status>>

Open == {"preparing", "running"}
Over == {"complete", "serial", "blocked"}

\* A track that has nothing set up outside the journal.
Nothing == {"none", "gone"}

Some(P) == {t \in Tracks : status[t] \in P}
Enrolled == {t \in Tracks : status[t] # "none"}

Init ==
    /\ outcome = "preparing"
    /\ status = [t \in Tracks |-> "none"]

Become(t, s) == status' = [status EXCEPT ![t] = s]

SetUp(t) ==
    /\ outcome = "preparing"
    /\ status[t] = "none"
    /\ Become(t, "working")
    /\ UNCHANGED outcome

Start ==
    /\ outcome = "preparing"
    /\ Some({"stuck"}) = {}
    /\ \E t, u \in Enrolled : t # u
    /\ outcome' = "running"
    /\ UNCHANGED status

Freeze(t) ==
    /\ outcome = "running"
    /\ status[t] = "working"
    /\ Become(t, "frozen")
    /\ UNCHANGED outcome

Merge(t) ==
    /\ outcome = "running"
    /\ status[t] = "frozen"
    /\ \A u \in Enrolled :
          status[u] = IF u < t THEN "merged" ELSE "frozen"
    /\ Become(t, "merged")
    /\ UNCHANGED outcome

Complete ==
    /\ outcome = "running"
    /\ \A t \in Enrolled : status[t] = "merged"
    /\ outcome' = "complete"
    /\ UNCHANGED status

FallBack ==
    /\ outcome \in Open
    /\ outcome' = "falling"
    /\ status' = [t \in Tracks |-> IF status[t] \in {"none", "stuck"}
                                   THEN status[t] ELSE "dismantling"]

Dismantled(t) ==
    /\ outcome = "falling"
    /\ status[t] = "dismantling"
    /\ Some({"stuck"}) = {}
    /\ Become(t, "gone")
    /\ UNCHANGED outcome

Serialize ==
    /\ outcome = "falling"
    /\ \A t \in Tracks : status[t] \in Nothing
    /\ outcome' = "serial"
    /\ UNCHANGED status

\* Ownership or identity of a track's resources cannot be proved.
Stick(t) ==
    /\ outcome \notin Over
    /\ status[t] \notin Nothing \union {"merged"}
    /\ Become(t, "stuck")
    /\ IF outcome = "preparing" THEN UNCHANGED outcome ELSE outcome' = "blocked"

Next ==
    \/ Start \/ Complete \/ FallBack \/ Serialize
    \/ \E t \in Tracks :
          SetUp(t) \/ Freeze(t) \/ Merge(t) \/ Dismantled(t) \/ Stick(t)

Spec == Init /\ [][Next]_vars
=============================================================================
