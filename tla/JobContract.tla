----------------------------- MODULE JobContract -----------------------------
(***************************************************************************)
(* What the jobs of a journal promise whoever certifies with them, whatever *)
(* supervisor, wrapper or crash is behind: the command of a job is started  *)
(* at most once, a job ends at most once and passes only if it was started, *)
(* an item of the verification plan cites only a job that could still pass  *)
(* when it was cited, and the cycle is certified only when every item cites *)
(* a job that passed and none is open or lost.                              *)
(* VerificationJobs implements it.                                          *)
(***************************************************************************)
EXTENDS Naturals

CONSTANTS Jobs, Items, NoJob

VARIABLES
    outcome,     \* of each job: "none", "open", "passed", "failed" or "lost"
    starts,      \* how often the command of each job was started
    cites,       \* the job each item cites as its evidence
    certified    \* whether the cycle was certified

vars == <<outcome, starts, cites, certified>>

Init ==
    /\ outcome = [j \in Jobs |-> "none"]
    /\ starts = [j \in Jobs |-> 0]
    /\ cites = [i \in Items |-> NoJob]
    /\ certified = FALSE

Cite(i, j) == cites' = [cites EXCEPT ![i] = j]

\* A job may be asked for by no item.
Open(j) ==
    /\ ~certified
    /\ outcome[j] = "none"
    /\ outcome' = [outcome EXCEPT ![j] = "open"]
    /\ cites' = cites \/ \E i \in Items : Cite(i, j)
    /\ UNCHANGED <<starts, certified>>

Reuse(i, j) ==
    /\ ~certified
    /\ outcome[j] \in {"open", "passed"}
    /\ Cite(i, j)
    /\ UNCHANGED <<outcome, starts, certified>>

\* A job given up as lost may still have its command started: a wrapper that
\* was delayed is not recalled.
Start(j) ==
    /\ outcome[j] # "none"
    /\ starts[j] = 0
    /\ starts' = [starts EXCEPT ![j] = 1]
    /\ UNCHANGED <<outcome, cites, certified>>

MayEndAs(j, o) ==
    /\ outcome[j] = "open"
    /\ o = "passed" => starts[j] = 1

\* Several jobs may end in one write of the journal.
End ==
    /\ ~certified
    /\ outcome' \in [Jobs -> {"none", "open", "passed", "failed", "lost"}]
    /\ \A j \in Jobs :
          outcome'[j] # outcome[j] =>
             /\ outcome'[j] \in {"passed", "failed", "lost"}
             /\ MayEndAs(j, outcome'[j])
    /\ UNCHANGED <<starts, cites, certified>>

Certify ==
    /\ ~certified
    /\ \A i \in Items : cites[i] \in Jobs /\ outcome[cites[i]] = "passed"
    /\ \A j \in Jobs : outcome[j] \in {"none", "passed", "failed"}
    /\ certified' = TRUE
    /\ UNCHANGED <<outcome, starts, cites>>

Next ==
    \/ \E j \in Jobs : Open(j) \/ Start(j)
    \/ \E i \in Items, j \in Jobs : Reuse(i, j)
    \/ End
    \/ Certify

Spec == Init /\ [][Next]_vars
=============================================================================
