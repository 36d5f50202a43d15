--------------------------- MODULE RequestContract ---------------------------
(***************************************************************************)
(* What the queue of requests promises those who emit them, without its    *)
(* files, its batches and its keys: a published request is executed once   *)
(* or refused, for good, and only a request of the generation in force is  *)
(* ever executed.                                                          *)
(***************************************************************************)
EXTENDS Naturals

CONSTANTS Requests     \* identities of requests

VARIABLES
    fate,        \* fate[r]: "unseen", "waiting", "executed" or "refused"
    token,       \* token[r]: the generation the request was emitted for
    gen          \* the generation in force

vars == <<fate, token, gen>>

ContractTypeOK ==
    /\ fate \in [Requests -> {"unseen", "waiting", "executed", "refused"}]
    /\ token \in [Requests -> Nat]
    /\ gen \in Nat

Init ==
    /\ fate = [r \in Requests |-> "unseen"]
    /\ token = [r \in Requests |-> 0]
    /\ gen = 0

(* An emitter writes the request; nobody sees it before it is published.   *)
Write(r) ==
    /\ fate[r] = "unseen"
    /\ \E g \in 0 .. gen : token' = [token EXCEPT ![r] = g]
    /\ UNCHANGED <<fate, gen>>

Publish(r) ==
    /\ fate[r] = "unseen"
    /\ fate' = [fate EXCEPT ![r] = "waiting"]
    /\ UNCHANGED <<token, gen>>

(* One durable write decides several requests.                             *)
Decide(run, refuse) ==
    /\ \A r \in run \union refuse : fate[r] = "waiting"
    /\ run \intersect refuse = {}
    /\ \A r \in run : token[r] = gen
    /\ fate' = [r \in Requests |-> IF r \in run THEN "executed"
                                   ELSE IF r \in refuse THEN "refused"
                                   ELSE fate[r]]
    /\ UNCHANGED <<token, gen>>

NewGeneration ==
    /\ gen' = gen + 1
    /\ UNCHANGED <<fate, token>>

Next ==
    \/ \E r \in Requests : Write(r) \/ Publish(r)
    \/ \E run, refuse \in SUBSET Requests : Decide(run, refuse)
    \/ NewGeneration

Spec == Init /\ [][Next]_vars
==============================================================================
