--------------------------- MODULE MCRequestQueue ---------------------------
(* A registration that is rejected, one that is not, a dispatch that needs *)
(* it, and two payloads of one key.                                        *)
EXTENDS RequestQueue

T == 1

MCPayloads ==
    {[key |-> 1, kind |-> "task", task |-> T, good |-> FALSE],
     [key |-> 2, kind |-> "task", task |-> T, good |-> TRUE],
     [key |-> 3, kind |-> "dispatch", task |-> T, good |-> TRUE],
     [key |-> 4, kind |-> "other", task |-> T, good |-> TRUE],
     [key |-> 4, kind |-> "other", task |-> T, good |-> FALSE]}
=============================================================================
