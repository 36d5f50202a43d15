---------------------- MODULE VerificationJobsRefinement ----------------------
(***************************************************************************)
(* The jobs implement JobContract, for every set of jobs, items and trees   *)
(* and every bound: each step of VerificationJobs is a step of the contract *)
(* or leaves outcomes, starts, citations and the certification alone.       *)
(***************************************************************************)
EXTENDS VerificationJobsProofs

\* What the contract sees.
Outcomes == [j \in Jobs |-> OutcomeOf(job[j])]
Starts == [j \in Jobs |-> proc[j].runs]

LEMMA InitRefines == Init => Contract!Init
<1>. SUFFICES ASSUME Init  PROVE Contract!Init
  OBVIOUS
<1>1. \A j \in Jobs : OutcomeOf(job[j]) = "none" /\ proc[j].runs = 0
  <2>1. \A j \in Jobs : job[j].state = "unused" /\ proc[j].runs = 0
    BY DEF Init
  <2>. QED  BY <2>1 DEF OutcomeOf, Live, InFlight
<1>2. cycle.status \notin {"COMPLETE", "FROZEN"} /\ plan.link = [i \in Items |-> NoJob]
  BY DEF Init
<1>. QED  BY <1>1, <1>2 DEF Contract!Init

LEMMA OutcomeValues ==
  ASSUME NEW r \in JobRecords
  PROVE  /\ OutcomeOf(r) \in {"none", "open", "passed", "failed", "lost"}
         /\ OutcomeOf(r) = "none" <=> r.state = "unused"
         /\ OutcomeOf(r) = "open" <=> r.state \in Live
         /\ OutcomeOf(r) = "lost" <=> r.state = "orphaned"
         /\ OutcomeOf(r) = "passed" <=> r.state = "exited" /\ r.verdict = "pass"
         /\ OutcomeOf(r) = "failed" <=> r.state = "exited" /\ r.verdict # "pass"
  BY DEF OutcomeOf, JobRecords, States, Live, InFlight

\* A step that keeps the jobs, what the items cite and the certification.
LEMMA QuietRefines ==
  ASSUME UNCHANGED <<job, proc>>, plan'.link = plan.link, Certified' = Certified
  PROVE  UNCHANGED Contract!vars
  BY DEF Contract!vars, OutcomeOf, Certified

LEMMA CertifyRefines ==
  ASSUME JobsIInv, Certify
  PROVE  Contract!Certify
<1>1. \A j \in Jobs : job[j] \in JobRecords
  BY DEF JobsIInv, JobsTypeOK
<1>2. /\ \A j \in Jobs : job[j].state \in {"unused", "exited"}
      /\ \A i \in Items : plan.link[i] # NoJob /\ job[plan.link[i]].verdict = "pass"
  BY DEF JobsIInv, TickAgrees, Certify, NothingOpen, Cited, Passed
<1>3. \A i \in Items : plan.link[i] \in Jobs
  BY <1>2 DEF JobsIInv, JobsTypeOK
<1>4. \A j \in Jobs : job[j].verdict = "pass" => job[j].state = "exited"
  BY DEF JobsIInv, JournalAgrees
<1>5. \A i \in Items : OutcomeOf(job[plan.link[i]]) = "passed"
  BY <1>1, <1>2, <1>3, <1>4, OutcomeValues
<1>6. \A j \in Jobs : OutcomeOf(job[j]) \in {"none", "passed", "failed"}
  BY <1>1, <1>2, OutcomeValues
<1>7. ~Certified /\ Certified'
  BY DEF JobsIInv, JobsTypeOK, TickAgrees, Certify, Certified, At, InProgress, Goto
<1>8. UNCHANGED <<job, plan, proc>>
  BY DEF Certify
<1>. QED  BY <1>3, <1>5, <1>6, <1>7, <1>8 DEF Contract!Certify, Certified, OutcomeOf

LEMMA QuietNextRefines ==
  ASSUME JobsIInv, QuietNext
  PROVE  [Contract!Next]_(Contract!vars)
<1>. cycle \in [status : {"IN_PROGRESS", "BLOCKED", "COMPLETE", "FROZEN"},
                tasksDone : BOOLEAN, freezing : BOOLEAN]
  BY DEF JobsIInv, JobsTypeOK
<1>0. UNCHANGED <<job, proc>>
  BY QuietSteps DEF Quiet, JobsIInv
<1>. USE DEF Certified, journal
<1>1. CASE Certify
  BY <1>1, CertifyRefines DEF Contract!Next
<1>2. CASE Controller
  <2>1. UNCHANGED plan /\ cycle'.status = cycle.status
    BY <1>2 DEF Controller, ChangeTree, AskJob, ApplyTasksDone, ApplyFreeze
  <2>. QED  BY <1>0, <2>1, QuietRefines
<1>3. CASE BlockRecovery
  BY <1>0, <1>3, QuietRefines DEF BlockRecovery, InProgress, EnterCustody
<1>4. CASE CertifyUnconfirmed
  <2>1. InProgress
    BY <1>4 DEF CertifyUnconfirmed, At, JobsIInv, TickAgrees
  <2>. QED  BY <1>0, <1>4, <2>1, QuietRefines DEF CertifyUnconfirmed, InProgress, EnterCustody
<1>5. CASE \/ BeginTick \/ Defer \/ Decide \/ RestartSupervisor \/ CrashSupervisor
          \/ (\E j \in Jobs : SpawnThrows(j)) \/ UNCHANGED vars
  <2>1. UNCHANGED <<plan, cycle>>
    BY <1>5 DEF BeginTick, Defer, Decide, RestartSupervisor, CrashSupervisor, SpawnThrows, vars
  <2>. QED  BY <1>0, <2>1, QuietRefines
<1>. QED  BY <1>1, <1>2, <1>3, <1>4, <1>5 DEF QuietNext

\* A job may end in the scan and in the reconciliation, and passes only with
\* the result its command earned.
LEMMA EndRefines ==
  ASSUME JobsIInv, JobsIInv', At("requests") \/ At("judge"), UNCHANGED <<plan, cycle, proc>>,
         \A j \in Jobs :
            \/ job'[j] = job[j]
            \/ job[j].state \in InFlight /\ job'[j].state \in InFlight \union {"exited", "orphaned"}
  PROVE  Contract!End
<1>1. \A j \in Jobs : job[j] \in JobRecords /\ job'[j] \in JobRecords
  BY DEF JobsIInv, JobsTypeOK
<1>2. ~Certified
  BY DEF JobsIInv, TickAgrees, At, InProgress, Certified
<1>3. \A j \in Jobs : OutcomeOf(job[j])' \in {"none", "open", "passed", "failed", "lost"}
  BY <1>1, OutcomeValues DEF OutcomeOf
<1>4. ASSUME NEW j \in Jobs, OutcomeOf(job'[j]) # OutcomeOf(job[j])
      PROVE  /\ OutcomeOf(job'[j]) \in {"passed", "failed", "lost"}
             /\ OutcomeOf(job[j]) = "open"
             /\ OutcomeOf(job'[j]) = "passed" => proc[j].runs = 1
  <2>1. job[j].state \in InFlight /\ job'[j].state \in InFlight \union {"exited", "orphaned"}
    BY <1>4
  <2>2. OutcomeOf(job[j]) = "open"
    BY <1>1, <2>1, OutcomeValues DEF Live
  <2>3. job'[j].state \notin Live
    BY <1>1, <1>4, <2>2, OutcomeValues
  <2>4. job'[j].state \in {"exited", "orphaned"}
    BY <2>1, <2>3 DEF Live
  <2>5. OutcomeOf(job'[j]) \in {"passed", "failed", "lost"}
    BY <1>1, <2>4, OutcomeValues
  <2>6. ASSUME OutcomeOf(job'[j]) = "passed"  PROVE proc[j].runs = 1
    <3>1. job'[j].verdict = "pass" /\ sidecar'[j] = "pass"
      BY <1>1, <2>6, OutcomeValues DEF JobsIInv, JournalAgrees
    <3>2. proc'[j].command = "ok" /\ proc'[j].runs \in {0, 1} /\ proc'[j].runs # 0
      BY <3>1 DEF JobsIInv, JobsTypeOK, ProcessesAgree, ProcRecords
    <3>. QED  BY <3>2
  <2>. QED  BY <2>2, <2>5, <2>6
<1>5. UNCHANGED <<plan.link, cycle.status>> /\ Starts' = Starts
  BY DEF Starts
<1>. QED  BY <1>2, <1>3, <1>4, <1>5 DEF Contract!End, Contract!MayEndAs, Certified, Starts

LEMMA ScanRefines ==
  ASSUME JobsIInv, JobsIInv', NEW graceOver \in SUBSET Jobs, Scan(graceOver)
  PROVE  Contract!End
<1>1. \A j \in Jobs : job[j] \in JobRecords /\ sidecar[j] \in Sidecars
  BY DEF JobsIInv, JobsTypeOK
<1>2. \A j \in Jobs : job'[j] = Scanned(job[j], sidecar[j])
  BY DEF Scan
<1>3. \A j \in Jobs :
        \/ job'[j] = job[j]
        \/ job[j].state \in InFlight /\ job'[j].state \in InFlight \union {"exited", "orphaned"}
  BY <1>1, <1>2, ScannedKeeps
<1>. QED  BY <1>3, EndRefines DEF Scan

LEMMA ReconcileRefines ==
  ASSUME JobsIInv, JobsIInv', Reconcile
  PROVE  Contract!End
<1>1. \A j \in Jobs : job[j] \in JobRecords /\ sidecar[j] \in Sidecars
  BY DEF JobsIInv, JobsTypeOK
<1>2. \A j \in Jobs : job'[j] = IF j \in sup.dead THEN Reconciled(job[j], sidecar[j]) ELSE job[j]
  BY DEF Reconcile
<1>3. \A j \in sup.dead : j \in Jobs => job[j].state \in InFlight
  BY DEF JobsIInv, TickAgrees
<1>4. \A j \in Jobs :
        \/ job'[j] = job[j]
        \/ job[j].state \in InFlight /\ job'[j].state \in InFlight \union {"exited", "orphaned"}
  BY <1>1, <1>2, <1>3, ReconciledKeeps
<1>. QED  BY <1>4, EndRefines DEF Reconcile

LEMMA DispatchRefines ==
  ASSUME JobsIInv, Dispatch
  PROVE  UNCHANGED Contract!vars
<1>1. \A j \in Jobs : job[j] \in JobRecords
  BY DEF JobsIInv, JobsTypeOK
<1>2. job \in [Jobs -> JobRecords]
  BY DEF JobsIInv, JobsTypeOK
<1>3. ASSUME NEW j \in Jobs  PROVE OutcomeOf(job'[j]) = OutcomeOf(job[j])
  <2>1. CASE job[j].state = "received"
    <3>1. job'[j].state = "spawn-intent"
      BY <1>2, <2>1 DEF Dispatch, Received, JobRecords
    <3>. QED  BY <2>1, <3>1 DEF OutcomeOf, Live, InFlight
  <2>2. CASE job[j].state # "received"
    BY <2>2 DEF Dispatch, Received
  <2>. QED  BY <2>1, <2>2
<1>. QED  BY <1>3 DEF Dispatch, Contract!vars

LEMMA RequestRefines ==
  ASSUME JobsIInv, JobsIInv', ApplyRequest
  PROVE  [Contract!Next]_(Contract!vars)
<1>0. /\ \A j \in Jobs : job[j] \in JobRecords /\ job'[j] \in JobRecords
      /\ job \in [Jobs -> JobRecords]
      /\ plan.link \in [Items -> Jobs \union {NoJob}]
  BY DEF JobsIInv, JobsTypeOK
<1>1. ~Certified /\ UNCHANGED <<cycle, proc>>
  BY DEF JobsIInv, TickAgrees, ApplyRequest, At, InProgress, Certified
<1>2. CASE Alias(Head(queue))
  BY <1>1, <1>2, QuietRefines DEF Alias, Certified
<1>3. ASSUME NEW key, NEW j \in Jobs, Link(key, j)
      PROVE  plan'.link = plan.link \/ \E i \in Items : plan'.link = [plan.link EXCEPT ![i] = j]
  <2>1. plan'.link = [i \in Items |-> IF i = key.item THEN j ELSE plan.link[i]]
    BY <1>3 DEF Link
  <2>2. CASE key.item \in Items
    <3>1. [plan.link EXCEPT ![key.item] = j] = [i \in Items |-> IF i = key.item THEN j ELSE plan.link[i]]
      BY <1>0, <2>2
    <3>. QED  BY <2>1, <2>2, <3>1
  <2>3. CASE key.item \notin Items
    BY <1>0, <2>1, <2>3
  <2>. QED  BY <2>2, <2>3
<1>4. CASE ReuseJob(Head(queue))
  <2>1. PICK j \in Equivalent(Head(queue).fp) : Link(Head(queue), j)
    BY <1>4 DEF ReuseJob
  <2>2. j \in Jobs /\ OutcomeOf(job[j]) \in {"open", "passed"}
    BY <1>0, OutcomeValues DEF Equivalent, Reusable
  <2>3. UNCHANGED job
    BY <1>4 DEF ReuseJob
  <2>4. CASE plan'.link = plan.link
    BY <1>1, <2>3, <2>4, QuietRefines DEF Certified
  <2>5. ASSUME NEW i \in Items, plan'.link = [plan.link EXCEPT ![i] = j]
        PROVE  Contract!Reuse(i, j)
    <3>1. UNCHANGED <<Outcomes, Starts>>
      BY <1>1, <2>3 DEF Outcomes, Starts, OutcomeOf
    <3>2. Outcomes[j] \in {"open", "passed"}
      BY <2>2 DEF Outcomes
    <3>. QED  BY <1>1, <2>5, <3>1, <3>2
              DEF Contract!Reuse, Contract!Cite, Certified, Outcomes, Starts
  <2>. QED  BY <1>3, <2>1, <2>2, <2>4, <2>5 DEF Contract!Next
<1>5. CASE CreateJob(Head(queue))
  <2>1. PICK j \in Unused :
          /\ job' = [job EXCEPT ![j].state = "received", ![j].fp = Head(queue).fp]
          /\ Link(Head(queue), j)
    BY <1>5 DEF CreateJob
  <2>2. j \in Jobs /\ job[j].state = "unused" /\ job'[j].state = "received"
    BY <1>0, <2>1 DEF Unused, JobRecords
  <2>3. OutcomeOf(job[j]) = "none" /\ OutcomeOf(job'[j]) = "open"
    BY <1>0, <2>2, OutcomeValues DEF Live
  <2>4. \A k \in Jobs : k # j => job'[k] = job[k]
    BY <1>0, <2>1
  <2>5. Outcomes' = [Outcomes EXCEPT ![j] = "open"]
    <3>1. \A k \in Jobs : OutcomeOf(job'[k]) = IF k = j THEN "open" ELSE OutcomeOf(job[k])
      BY <2>3, <2>4
    <3>. QED  BY <2>2, <3>1 DEF Outcomes
  <2>6. Contract!Open(j)
    BY <1>1, <1>3, <2>1, <2>2, <2>3, <2>5 DEF Contract!Open, Contract!Cite, Certified, Outcomes
  <2>. QED  BY <2>2, <2>6 DEF Contract!Next
<1>. QED  BY <1>2, <1>4, <1>5 DEF ApplyRequest

LEMMA JobStepRefines ==
  ASSUME JobsIInv, NEW j \in Jobs, JobStep(j)
  PROVE  [Contract!Next]_(Contract!vars)
<1>0. /\ proc \in [Jobs -> ProcRecords] /\ \A k \in Jobs : job[k] \in JobRecords
      /\ proc[j] \in ProcRecords
  BY DEF JobsIInv, JobsTypeOK
<1>1. UNCHANGED <<job, plan, cycle>>
  BY JobStepFrame DEF JobsIInv
<1>2. CASE StartCommand(j)
  <2>1. proc[j].holder = "claimed" /\ proc[j].runs = 0
    BY <1>2 DEF StartCommand, JobsIInv, ProcessesAgree
  <2>2. job[j].state # "unused"
    BY <2>1 DEF JobsIInv, JournalAgrees, ProcessesAgree
  <2>3. OutcomeOf(job[j]) # "none"
    BY <1>0, <2>2, OutcomeValues
  <2>4. \A k \in Jobs : proc'[k].runs = IF k = j THEN 1 ELSE proc[k].runs
    BY <1>0, <1>2, <2>1 DEF StartCommand, ProcRecords
  <2>5. Starts' = [Starts EXCEPT ![j] = 1]
    BY <2>4 DEF Starts
  <2>6. Contract!Start(j)
    <3>1. UNCHANGED <<Outcomes, plan, cycle>>
      BY <1>1 DEF Outcomes, OutcomeOf
    <3>2. Outcomes[j] # "none" /\ Starts[j] = 0
      BY <2>1, <2>3 DEF Outcomes, Starts
    <3>. QED  BY <2>5, <3>1, <3>2 DEF Contract!Start, Outcomes, Starts
  <2>. QED  BY <2>6 DEF Contract!Next
<1>3. CASE ~StartCommand(j)
  <2>1. proc'[j].runs = proc[j].runs
    <3>1. CASE SpawnWrapper(j)
      <4>1. proc'[j] = [proc[j] EXCEPT !.fresh = proc'[j].fresh]
        BY <1>0, <3>1 DEF SpawnWrapper, ProcRecords
      <4>. QED  BY <1>0, <4>1 DEF ProcRecords
    <3>2. CASE ~SpawnWrapper(j)
      BY <1>0, <1>3, <3>2 DEF JobStep, Wrapper, Claim, ClaimTaken, StartFails, WriteIdentity, Finish,
                              CommandEnds, WrapperDies, ProcRecords
    <3>. QED  BY <3>1, <3>2
  <2>2. \A k \in Jobs : proc'[k].runs = proc[k].runs
    BY <2>1, OtherJobsUntouched DEF JobsIInv
  <2>3. Starts' = Starts
    BY <2>2 DEF Starts
  <2>. QED  BY <1>1, <2>3 DEF Contract!vars, Starts, OutcomeOf
<1>. QED  BY <1>2, <1>3

LEMMA NextRefines ==
  ASSUME JobsIInv, JobsIInv', [Next]_vars
  PROVE  [Contract!Next]_(Contract!vars)
<1>1. \/ QuietNext
      \/ \E j \in Jobs : JobStep(j)
      \/ ApplyRequest \/ (\E graceOver \in SUBSET Jobs : Scan(graceOver)) \/ Reconcile \/ Dispatch
  BY DEF Next, Supervisor, Failure, QuietNext, JobStep
<1>. QED  BY <1>1, QuietNextRefines, JobStepRefines, RequestRefines, ScanRefines, ReconcileRefines,
             DispatchRefines DEF Contract!Next

\* VerificationJobs implements JobContract.
THEOREM JobsRefinement == Spec => ImplementsJobContract
<1>1. JobsIInv /\ JobsIInv' /\ [Next]_vars => [Contract!Next]_(Contract!vars)
  BY NextRefines
<1>. QED  BY <1>1, InitRefines, IInvHolds, PTL DEF Spec, ImplementsJobContract, Contract!Spec
=============================================================================
