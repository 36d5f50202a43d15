------------------------ MODULE VerificationJobsProofs ------------------------
(***************************************************************************)
(* Theorems of VerificationJobs for every set of jobs, items and trees and  *)
(* every bound.                                                             *)
(***************************************************************************)
EXTENDS VerificationJobs, TLAPS

-----------------------------------------------------------------------------
(* Type correctness *)

LEMMA InitTypes == Init => JobsTypeOK
  BY BoundsAssumption
  DEF Init, JobsTypeOK, JobRecords, ProcRecords, Keys, Sidecars, States, Live, InFlight, Steps, SupervisorRecords

LEMMA SupervisorCounts ==
  ASSUME JobsTypeOK
  PROVE  /\ sup.faults + 1 \in Nat
         /\ sup.batch > 0 => sup.batch - 1 \in Nat
         /\ Len(queue) \in Nat
  BY DEF JobsTypeOK, SupervisorRecords

LEMMA ProcessCounts ==
  ASSUME JobsTypeOK, NEW j \in Jobs
  PROVE  /\ proc[j].runs \in Nat /\ proc[j].runs + 1 \in Nat
         /\ proc[j].fresh > 0 => proc[j].fresh - 1 \in 0..MaxWrappers
         /\ proc[j].fresh < MaxWrappers => proc[j].fresh + 1 \in 0..MaxWrappers
<1>1. proc[j] \in ProcRecords
  BY DEF JobsTypeOK
<1>2. proc[j].runs \in Nat /\ proc[j].fresh \in 0..MaxWrappers
  BY <1>1 DEF ProcRecords
<1>. QED  BY <1>2, BoundsAssumption

LEMMA ControllerTypes == JobsTypeOK /\ Controller => JobsTypeOK'
<1>. USE DEF JobsTypeOK, journal
<1>1. JobsTypeOK /\ ChangeTree => JobsTypeOK'
  BY DEF ChangeTree
<1>2. ASSUME JobsTypeOK, NEW i \in Items \union {NoItem}, AskJob(i)
      PROVE  JobsTypeOK'
  BY <1>2 DEF AskJob, Keys
<1>3. JobsTypeOK /\ ApplyTasksDone => JobsTypeOK'
  BY DEF ApplyTasksDone
<1>4. JobsTypeOK /\ ApplyFreeze => JobsTypeOK'
  BY DEF ApplyFreeze
<1>. QED  BY <1>1, <1>2, <1>3, <1>4 DEF Controller

LEMMA RequestTypes == JobsTypeOK /\ ApplyRequest => JobsTypeOK'
<1>. SUFFICES ASSUME JobsTypeOK, ApplyRequest  PROVE JobsTypeOK'
  OBVIOUS
<1>1. Head(queue) \in Keys /\ Tail(queue) \in Seq(Keys)
  BY DEF JobsTypeOK, ApplyRequest
<1>2. ASSUME NEW key \in Keys, NEW j \in Jobs, Link(key, j)
      PROVE  plan' \in [link : [Items -> Jobs \union {NoJob}], applied : SUBSET Keys]
  BY <1>2 DEF JobsTypeOK, Link
<1>3. /\ job' \in [Jobs -> JobRecords]
      /\ plan' \in [link : [Items -> Jobs \union {NoJob}], applied : SUBSET Keys]
  <2>1. CASE Alias(Head(queue))
    BY <2>1 DEF Alias, JobsTypeOK
  <2>2. CASE ReuseJob(Head(queue))
    BY <1>1, <1>2, <2>2 DEF ReuseJob, Equivalent, JobsTypeOK
  <2>3. CASE CreateJob(Head(queue))
    <3>1. PICK j \in Unused :
            /\ job' = [job EXCEPT ![j].state = "received", ![j].fp = Head(queue).fp]
            /\ Link(Head(queue), j)
      BY <2>3 DEF CreateJob
    <3>2. Head(queue).fp \in Trees
      BY <1>1 DEF Keys
    <3>3. j \in Jobs /\ job \in [Jobs -> JobRecords]
      BY DEF Unused, JobsTypeOK
    <3>4. job' \in [Jobs -> JobRecords]
      BY <3>1, <3>2, <3>3 DEF JobRecords, States, Live
    <3>. QED  BY <1>1, <1>2, <3>1, <3>3, <3>4
  <2>. QED  BY <2>1, <2>2, <2>3 DEF ApplyRequest
<1>. QED  BY <1>1, <1>3, SupervisorCounts DEF ApplyRequest, JobsTypeOK, SupervisorRecords

LEMMA ScannedType ==
  ASSUME NEW r \in JobRecords, NEW s \in Sidecars
  PROVE  Scanned(r, s) \in JobRecords
  BY DEF Scanned, Exit, JobRecords, Sidecars, Results, States, Live, InFlight

LEMMA ReconciledType ==
  ASSUME NEW r \in JobRecords, NEW s \in Sidecars
  PROVE  Reconciled(r, s) \in JobRecords
  BY DEF Reconciled, Exit, JobRecords, Sidecars, Results, States, Live, InFlight

LEMMA SupervisorTypes == JobsTypeOK /\ Supervisor => JobsTypeOK'
<1>1. JobsTypeOK /\ BlockRecovery => JobsTypeOK'
  BY DEF JobsTypeOK, BlockRecovery, EnterCustody
<1>2. JobsTypeOK /\ BeginTick => JobsTypeOK'
  BY SupervisorCounts DEF JobsTypeOK, BeginTick, journal, Steps, SupervisorRecords
<1>3. ASSUME JobsTypeOK, NEW graceOver \in SUBSET Jobs, Scan(graceOver)
      PROVE  JobsTypeOK'
  <2>1. job' \in [Jobs -> JobRecords]
    BY <1>3, ScannedType DEF Scan, JobsTypeOK
  <2>. QED  BY <1>3, <2>1 DEF Scan, JobsTypeOK, Steps, SupervisorRecords
<1>4. JobsTypeOK /\ Reconcile => JobsTypeOK'
  <2>. SUFFICES ASSUME JobsTypeOK, Reconcile  PROVE JobsTypeOK'
    OBVIOUS
  <2>1. job' \in [Jobs -> JobRecords]
    BY ReconciledType DEF Reconcile, JobsTypeOK
  <2>. QED  BY <2>1 DEF Reconcile, JobsTypeOK, NeverStarted, Steps, SupervisorRecords
<1>5. ASSUME JobsTypeOK, NEW j \in Jobs, SpawnWrapper(j)
      PROVE  JobsTypeOK'
  <2>1. proc' \in [Jobs -> ProcRecords]
    <3>1. proc \in [Jobs -> ProcRecords]
      BY <1>5 DEF JobsTypeOK
    <3>2. (IF proc[j].fresh < MaxWrappers THEN proc[j].fresh + 1 ELSE proc[j].fresh)
             \in 0..MaxWrappers
      BY <1>5, <3>1, ProcessCounts DEF ProcRecords
    <3>. QED  BY <1>5, <3>1, <3>2 DEF SpawnWrapper, ProcRecords
  <2>. QED  BY <1>5, <2>1 DEF SpawnWrapper, JobsTypeOK, journal, SupervisorRecords
<1>6. JobsTypeOK /\ Dispatch => JobsTypeOK'
  <2>. SUFFICES ASSUME JobsTypeOK, Dispatch  PROVE JobsTypeOK'
    OBVIOUS
  <2>1. job' \in [Jobs -> JobRecords]
    BY DEF Dispatch, JobsTypeOK, JobRecords, States, Live, InFlight
  <2>. QED  BY <2>1 DEF Dispatch, JobsTypeOK, Received, Steps, SupervisorRecords
<1>7. JobsTypeOK /\ Defer => JobsTypeOK'
  BY DEF JobsTypeOK, Defer, Goto, journal, Steps, SupervisorRecords
<1>8. JobsTypeOK /\ Decide => JobsTypeOK'
  BY DEF JobsTypeOK, Decide, Goto, journal, Steps, SupervisorRecords
<1>9. JobsTypeOK /\ Certify => JobsTypeOK'
  BY DEF JobsTypeOK, Certify, Goto, Steps, SupervisorRecords
<1>10. JobsTypeOK /\ RestartSupervisor => JobsTypeOK'
  BY DEF JobsTypeOK, RestartSupervisor, Goto, journal, Steps, SupervisorRecords
<1>. QED  BY <1>1, <1>2, <1>3, <1>4, <1>5, <1>6, <1>7, <1>8, <1>9, <1>10, RequestTypes
          DEF Supervisor

\* What the end of a command and its drain write of a job's processes.
LEMMA EndedType ==
  ASSUME NEW p \in [Jobs -> ProcRecords], NEW j \in Jobs, NEW how \in {"ok", "bad"}, NEW left \in BOOLEAN
  PROVE  [p EXCEPT ![j].command = how, ![j].group = left] \in [Jobs -> ProcRecords]
  BY DEF ProcRecords

LEMMA DrainedType ==
  ASSUME NEW p \in [Jobs -> ProcRecords], NEW j \in Jobs, NEW drained \in BOOLEAN
  PROVE  [p EXCEPT ![j].holder = "gone", ![j].group = ~drained] \in [Jobs -> ProcRecords]
  BY DEF ProcRecords

LEMMA WrapperTypes ==
  ASSUME JobsTypeOK, NEW j \in Jobs, Wrapper(j) \/ CommandEnds(j)
  PROVE  JobsTypeOK'
<1>1. /\ proc' \in [Jobs -> ProcRecords]
      /\ sidecar' \in [Jobs -> Sidecars]
  <2>. USE DEF ProcRecords, Sidecars
  <2>0. proc \in [Jobs -> ProcRecords] /\ sidecar \in [Jobs -> Sidecars]
    BY DEF JobsTypeOK
  <2>1. CASE Claim(j)
    <3>1. proc[j].fresh - 1 \in 0..MaxWrappers
      BY <2>1, ProcessCounts DEF Claim
    <3>. QED  BY <2>0, <2>1, <3>1 DEF Claim
  <2>2. CASE ClaimTaken(j)
    BY <2>0, <2>2, ProcessCounts DEF ClaimTaken
  <2>3. CASE StartCommand(j)
    BY <2>0, <2>3, ProcessCounts DEF StartCommand
  <2>4. CASE StartFails(j)
    BY <2>0, <2>4 DEF StartFails
  <2>5. CASE WriteIdentity(j)
    BY <2>0, <2>5 DEF WriteIdentity
  <2>6. CASE Finish(j)
    <3>1. PICK drained \in BOOLEAN :
             /\ sidecar' = [sidecar EXCEPT ![j] = ResultOf(j, drained)]
             /\ proc' = [proc EXCEPT ![j].holder = "gone", ![j].group = ~drained]
      BY <2>6 DEF Finish
    <3>2. ResultOf(j, drained) \in {"pass", "fail"}
      BY DEF ResultOf
    <3>. HIDE DEF ResultOf
    <3>3. sidecar' \in [Jobs -> Sidecars]
      BY <2>0, <3>1, <3>2
    <3>4. proc' \in [Jobs -> ProcRecords]
      BY <2>0, <3>1, DrainedType
    <3>. QED  BY <3>3, <3>4
  <2>7. CASE CommandEnds(j)
    <3>1. PICK how \in {"ok", "bad"}, left \in BOOLEAN :
             proc' = [proc EXCEPT ![j].command = how, ![j].group = left]
      BY <2>7 DEF CommandEnds
    <3>2. proc' \in [Jobs -> ProcRecords]
      BY <2>0, <3>1, EndedType
    <3>3. sidecar' = sidecar
      BY <2>7 DEF CommandEnds
    <3>. QED  BY <2>0, <3>2, <3>3
  <2>. QED  BY <2>1, <2>2, <2>3, <2>4, <2>5, <2>6, <2>7 DEF Wrapper
<1>2. UNCHANGED <<Outside, sup>>
  BY DEF Wrapper, Claim, ClaimTaken, StartCommand, StartFails, WriteIdentity, Finish, CommandEnds
<1>. QED  BY <1>1, <1>2 DEF JobsTypeOK, Outside, journal

LEMMA FailureTypes == JobsTypeOK /\ Failure => JobsTypeOK'
<1>. USE DEF JobsTypeOK, journal
<1>1. JobsTypeOK /\ CertifyUnconfirmed => JobsTypeOK'
  BY SupervisorCounts DEF CertifyUnconfirmed, EnterCustody, Steps, SupervisorRecords
<1>2. JobsTypeOK /\ CrashSupervisor => JobsTypeOK'
  <2>1. JobsTypeOK /\ CrashSupervisor => sup' \in SupervisorRecords
    <3>. SUFFICES ASSUME JobsTypeOK, CrashSupervisor  PROVE sup' \in SupervisorRecords
      OBVIOUS
    <3>1. sup' = [pc |-> "down", batch |-> 0, dead |-> {}, spawning |-> {},
                  faults |-> sup.faults + 1]
      BY DEF CrashSupervisor, SupervisorRecords
    <3>. QED  BY <3>1, SupervisorCounts DEF Steps, SupervisorRecords
  <2>. QED  BY <2>1 DEF CrashSupervisor
<1>3. ASSUME JobsTypeOK, NEW j \in Jobs, SpawnThrows(j)  PROVE JobsTypeOK'
  <2>1. sup \in SupervisorRecords
    BY <1>3
  <2>2. sup' \in SupervisorRecords
    BY <1>3, <2>1, SupervisorCounts DEF SpawnThrows, SupervisorRecords
  <2>. QED  BY <1>3, <2>2 DEF SpawnThrows
<1>4. ASSUME JobsTypeOK, NEW j \in Jobs, WrapperDies(j)  PROVE JobsTypeOK'
  <2>1. proc \in [Jobs -> ProcRecords] /\ sup \in SupervisorRecords
    BY <1>4
  <2>2. proc' \in [Jobs -> ProcRecords]
    <3>1. CASE /\ proc[j].fresh > 0
               /\ proc' = [proc EXCEPT ![j].fresh = @ - 1]
      <4>1. proc[j].fresh - 1 \in 0..MaxWrappers
        BY <1>4, <3>1, ProcessCounts
      <4>. QED  BY <2>1, <3>1, <4>1 DEF ProcRecords
    <3>2. CASE proc' = [proc EXCEPT ![j].holder = "gone"]
      BY <2>1, <3>2 DEF ProcRecords
    <3>. QED  BY <1>4, <3>1, <3>2 DEF WrapperDies
  <2>3. sup' \in SupervisorRecords
    BY <1>4, <2>1, SupervisorCounts DEF WrapperDies, SupervisorRecords
  <2>. QED  BY <1>4, <2>2, <2>3 DEF WrapperDies, Outside
<1>. QED  BY <1>1, <1>2, <1>3, <1>4 DEF Failure

LEMMA NextTypes == JobsTypeOK /\ [Next]_vars => JobsTypeOK'
<1>1. JobsTypeOK /\ UNCHANGED vars => JobsTypeOK'
  BY DEF JobsTypeOK, vars
<1>. QED  BY <1>1, ControllerTypes, SupervisorTypes, WrapperTypes, FailureTypes DEF Next

\* Every variable keeps its type.
THEOREM JobsTypeCorrect == Spec => []JobsTypeOK
  BY InitTypes, NextTypes, PTL DEF Spec

-----------------------------------------------------------------------------
(* The inductive invariant *)

\* The files and the processes of a job tell the same story: who claimed ran
\* the command, once, and who published a result was done with it.
ProcessesAgree ==
    \A j \in Jobs :
       /\ proc[j].holder = "none" <=> sidecar[j] = "nothing"
       /\ proc[j].holder \in {"none", "claimed"} => proc[j].runs = 0
       /\ proc[j].command = "off" <=> proc[j].runs = 0
       /\ proc[j].runs <= 1
       /\ sidecar[j] = "identity" => proc[j].holder \in {"waiting", "gone"}
       /\ sidecar[j] \in Results => proc[j].holder = "gone" /\ proc[j].command # "run"
       /\ sidecar[j] = "pass" => proc[j].command = "ok" /\ ~proc[j].group

\* What the journal says of a job is what its files said: nothing ran for an
\* unused one, a verdict is the published result, and a job with a known
\* identity that is given up, or found dead, has no process and no result.
JournalAgrees ==
    \A j \in Jobs :
       /\ job[j].state = "unused" =>
             proc[j].fresh = 0 /\ sidecar[j] = "nothing" /\ j \notin sup.spawning
       /\ job[j].state = "exited" <=> job[j].verdict # "none"
       /\ job[j].verdict # "none" => job[j].verdict = sidecar[j]
       /\ job[j].known => sidecar[j] \in {"identity", "pass", "fail"}
       /\ job[j].known /\ j \in sup.dead => ~AnyAlive(j)
       /\ job[j].known /\ job[j].state = "orphaned" => ~AnyAlive(j) /\ sidecar[j] \notin Results

Certified == cycle.status \in {"COMPLETE", "FROZEN"}

\* A tick runs in a cycle in progress, judges only jobs in flight, and what the
\* gate found stands until the cycle is certified and after.
TickAgrees ==
    /\ sup.pc \notin {"idle", "down"} => InProgress
    /\ sup.dead # {} => At("judge")
    /\ \A j \in sup.dead : job[j].state \in InFlight
    /\ At("certify") \/ Certified =>
          NothingOpen /\ \A i \in Items : i \in Cited /\ Passed(i)

JobsIInv ==
    JobsTypeOK /\ ProcessesAgree /\ JournalAgrees /\ TickAgrees /\ OneReusableJob

LEMMA InitInv == Init => JobsIInv
<1>1. Init => ProcessesAgree
  BY DEF Init, ProcessesAgree, Results
<1>2. Init => JournalAgrees
  BY DEF Init, JournalAgrees
<1>3. Init => TickAgrees
  BY DEF Init, TickAgrees, InProgress, At, Certified
<1>4. Init => OneReusableJob
  BY DEF Init, OneReusableJob, Reusable, Live, InFlight
<1>. QED  BY <1>1, <1>2, <1>3, <1>4, InitTypes DEF JobsIInv

\* The steps that touch the files or the processes of a job.
JobStep(j) == SpawnWrapper(j) \/ Wrapper(j) \/ CommandEnds(j) \/ WrapperDies(j)

LEMMA OtherSteps ==
  [Next]_vars => UNCHANGED <<sidecar, proc>> \/ \E j \in Jobs : JobStep(j)
  BY DEF vars, Next, JobStep, Controller, Supervisor, Failure, ChangeTree, AskJob, ApplyTasksDone,
         ApplyFreeze, BlockRecovery, BeginTick, ApplyRequest, Scan, Reconcile, Dispatch, Defer,
         Decide, Certify, RestartSupervisor, CertifyUnconfirmed, CrashSupervisor, SpawnThrows

\* A step of the processes of one job leaves those of the others alone.
LEMMA OtherJobsUntouched ==
  ASSUME JobsTypeOK, NEW j \in Jobs, JobStep(j), NEW k \in Jobs, k # j
  PROVE  proc'[k] = proc[k] /\ sidecar'[k] = sidecar[k]
<1>. proc \in [Jobs -> ProcRecords] /\ sidecar \in [Jobs -> Sidecars]
  BY DEF JobsTypeOK
<1>. QED  BY DEF JobStep, SpawnWrapper, Wrapper, Claim, ClaimTaken, StartCommand, StartFails,
                 WriteIdentity, Finish, CommandEnds, WrapperDies

LEMMA ProcessesKept ==
  ASSUME JobsTypeOK, ProcessesAgree, NEW j \in Jobs, JobStep(j)
  PROVE  ProcessesAgree'
<1>. proc \in [Jobs -> ProcRecords] /\ sidecar \in [Jobs -> Sidecars]
  BY DEF JobsTypeOK
<1>. USE DEF Results
<1>. DEFINE Agree(r, s) ==
       /\ r.holder = "none" <=> s = "nothing"
       /\ r.holder \in {"none", "claimed"} => r.runs = 0
       /\ r.command = "off" <=> r.runs = 0
       /\ r.runs <= 1
       /\ s = "identity" => r.holder \in {"waiting", "gone"}
       /\ s \in Results => r.holder = "gone" /\ r.command # "run"
       /\ s = "pass" => r.command = "ok" /\ ~r.group
<1>0. Agree(proc[j], sidecar[j]) /\ proc[j] \in ProcRecords
  BY DEF ProcessesAgree
<1>1. Agree(proc'[j], sidecar'[j])
  <2>1. CASE SpawnWrapper(j)
    <3>1. proc'[j] = [proc[j] EXCEPT !.fresh = proc'[j].fresh] /\ sidecar' = sidecar
      BY <2>1 DEF SpawnWrapper, ProcRecords
    <3>. QED  BY <1>0, <3>1 DEF ProcRecords
  <2>2. CASE Claim(j)
    BY <1>0, <2>2 DEF Claim, ProcRecords
  <2>3. CASE ClaimTaken(j)
    BY <1>0, <2>3 DEF ClaimTaken, ProcRecords
  <2>4. CASE StartCommand(j)
    BY <1>0, <2>4 DEF StartCommand, ProcRecords
  <2>5. CASE StartFails(j)
    BY <1>0, <2>5 DEF StartFails, ProcRecords
  <2>6. CASE WriteIdentity(j)
    BY <1>0, <2>6 DEF WriteIdentity, ProcRecords
  <2>7. CASE Finish(j)
    BY <1>0, <2>7 DEF Finish, ResultOf, ProcRecords
  <2>8. CASE CommandEnds(j)
    BY <1>0, <2>8 DEF CommandEnds, CommandAlive, ProcRecords
  <2>9. CASE WrapperDies(j)
    BY <1>0, <2>9 DEF WrapperDies, HolderAlive, ProcRecords
  <2>. QED  BY <2>1, <2>2, <2>3, <2>4, <2>5, <2>6, <2>7, <2>8, <2>9 DEF JobStep, Wrapper
<1>2. \A k \in Jobs : Agree(proc'[k], sidecar'[k])
  <2>. SUFFICES ASSUME NEW k \in Jobs, k # j  PROVE Agree(proc'[k], sidecar'[k])
    BY <1>1
  <2>. QED  BY OtherJobsUntouched DEF ProcessesAgree
<1>. QED  BY <1>2 DEF ProcessesAgree

\* The files a job's steps write, and the files they leave: a claim is taken
\* once, a result is never written over.
LEMMA FilesOnlyGrow ==
  ASSUME JobsTypeOK, ProcessesAgree, NEW j \in Jobs, JobStep(j)
  PROVE  /\ sidecar[j] # "nothing" => sidecar'[j] # "nothing"
         /\ proc[j].holder = "gone" => sidecar'[j] = sidecar[j] /\ proc'[j].holder = "gone"
         /\ proc[j].holder # "none" /\ ~CommandAlive(j) /\ ~HolderAlive(j) =>
               sidecar'[j] = sidecar[j] /\ ~AnyAlive(j)'
         /\ sidecar[j] = "identity" => sidecar'[j] \in {"identity", "pass", "fail"}
         /\ proc[j].fresh = 0 /\ j \notin sup.spawning /\ sidecar[j] = "nothing" =>
               proc'[j].fresh = 0 /\ sidecar'[j] = "nothing"
<1>. proc \in [Jobs -> ProcRecords] /\ sidecar \in [Jobs -> Sidecars] /\ proc[j] \in ProcRecords
  BY DEF JobsTypeOK
<1>. USE DEF AnyAlive, CommandAlive, HolderAlive, ProcRecords
<1>0. /\ proc[j].holder = "none" <=> sidecar[j] = "nothing"
      /\ sidecar[j] = "identity" => proc[j].holder \in {"waiting", "gone"}
  BY DEF ProcessesAgree
<1>1. CASE SpawnWrapper(j)
  <2>1. proc'[j] = [proc[j] EXCEPT !.fresh = proc'[j].fresh] /\ sidecar' = sidecar
    BY <1>1 DEF SpawnWrapper
  <2>2. j \in sup.spawning
    BY <1>1 DEF SpawnWrapper
  <2>. QED  BY <2>1, <2>2
<1>2. CASE Claim(j)
  BY <1>0, <1>2 DEF Claim
<1>3. CASE ClaimTaken(j)
  BY <1>3 DEF ClaimTaken
<1>4. CASE StartCommand(j)
  BY <1>0, <1>4 DEF StartCommand
<1>5. CASE StartFails(j)
  BY <1>0, <1>5 DEF StartFails
<1>6. CASE WriteIdentity(j)
  BY <1>0, <1>6 DEF WriteIdentity
<1>7. CASE Finish(j)
  BY <1>0, <1>7 DEF Finish, ResultOf
<1>8. CASE CommandEnds(j)
  BY <1>0, <1>8 DEF CommandEnds
<1>9. CASE WrapperDies(j)
  BY <1>0, <1>9 DEF WrapperDies
<1>. QED  BY <1>1, <1>2, <1>3, <1>4, <1>5, <1>6, <1>7, <1>8, <1>9 DEF JobStep, Wrapper

\* What the steps of the processes leave of the journal and of the tick.
LEMMA JobStepFrame ==
  ASSUME JobsTypeOK, NEW j \in Jobs, JobStep(j)
  PROVE  /\ UNCHANGED <<job, plan, cycle>>
         /\ sup'.pc = sup.pc /\ sup'.dead = sup.dead /\ sup'.spawning \subseteq sup.spawning
<1>. sup \in SupervisorRecords
  BY DEF JobsTypeOK
<1>. QED  BY DEF JobStep, SpawnWrapper, Wrapper, Claim, ClaimTaken, StartCommand, StartFails,
                 WriteIdentity, Finish, CommandEnds, WrapperDies, Outside, journal,
                 SupervisorRecords

LEMMA JobStepKeeps ==
  ASSUME JobsIInv, NEW j \in Jobs, JobStep(j)
  PROVE  JournalAgrees' /\ TickAgrees' /\ OneReusableJob'
<1>. USE DEF JobsIInv
<1>1. JournalAgrees'
  <2>. SUFFICES ASSUME NEW k \in Jobs
       PROVE  /\ job[k].state = "unused" =>
                    proc'[k].fresh = 0 /\ sidecar'[k] = "nothing" /\ k \notin sup'.spawning
              /\ job[k].verdict # "none" => job[k].verdict = sidecar'[k]
              /\ job[k].known => sidecar'[k] \in {"identity", "pass", "fail"}
              /\ job[k].known /\ k \in sup.dead => ~AnyAlive(k)'
              /\ job[k].known /\ job[k].state = "orphaned" =>
                    ~AnyAlive(k)' /\ sidecar'[k] \notin Results
    BY JobStepFrame DEF JournalAgrees
  <2>0. /\ job[k] \in JobRecords
        /\ job[k].state = "unused" =>
             proc[k].fresh = 0 /\ sidecar[k] = "nothing" /\ k \notin sup.spawning
        /\ job[k].verdict # "none" => job[k].verdict = sidecar[k]
        /\ job[k].known => sidecar[k] \in {"identity", "pass", "fail"}
        /\ job[k].known /\ k \in sup.dead => ~AnyAlive(k)
        /\ job[k].known /\ job[k].state = "orphaned" => ~AnyAlive(k) /\ sidecar[k] \notin Results
    BY DEF JournalAgrees, JobsTypeOK
  <2>1. CASE k # j
    BY <2>0, <2>1, OtherJobsUntouched, JobStepFrame DEF AnyAlive, CommandAlive, HolderAlive
  <2>2. CASE k = j
    <3>1. /\ proc[k].holder = "none" <=> sidecar[k] = "nothing"
          /\ sidecar[k] \in Results => proc[k].holder = "gone"
      BY DEF ProcessesAgree
    <3>2. job[k].verdict \in {"none", "pass", "fail"}
      BY <2>0 DEF JobRecords
    <3>. QED  BY <2>0, <2>2, <3>1, <3>2, FilesOnlyGrow, JobStepFrame DEF AnyAlive, Results
  <2>. QED  BY <2>1, <2>2
<1>2. TickAgrees'
  BY JobStepFrame DEF TickAgrees, InProgress, At, Certified, NothingOpen, Cited, Passed
<1>3. OneReusableJob'
  BY JobStepFrame DEF OneReusableJob, Reusable
<1>. QED  BY <1>1, <1>2, <1>3

\* A step that leaves the jobs and their processes alone, and at most forgets
\* what the tick had still to do.
Quiet ==
    /\ UNCHANGED <<job, sidecar, proc>>
    /\ sup'.dead \subseteq sup.dead
    /\ sup'.spawning \subseteq sup.spawning

LEMMA QuietKeeps ==
  ASSUME JobsIInv, Quiet
  PROVE  JournalAgrees' /\ OneReusableJob'
  BY DEF JobsIInv, Quiet, JournalAgrees, OneReusableJob, Reusable, AnyAlive, CommandAlive, HolderAlive

QuietNext ==
    \/ Controller \/ BlockRecovery \/ BeginTick \/ Defer \/ Decide \/ Certify \/ RestartSupervisor
    \/ CertifyUnconfirmed \/ CrashSupervisor \/ (\E j \in Jobs : SpawnThrows(j))
    \/ UNCHANGED vars

LEMMA QuietSteps ==
  ASSUME JobsTypeOK, QuietNext
  PROVE  Quiet
<1>. sup \in SupervisorRecords
  BY DEF JobsTypeOK
<1>. USE DEF Quiet, SupervisorRecords, journal, Goto
<1>1. CASE Controller
  BY <1>1 DEF Controller, ChangeTree, AskJob, ApplyTasksDone, ApplyFreeze
<1>2. CASE BlockRecovery
  BY <1>2 DEF BlockRecovery
<1>3. CASE BeginTick
  BY <1>3 DEF BeginTick
<1>4. CASE Defer
  BY <1>4 DEF Defer
<1>5. CASE Decide
  BY <1>5 DEF Decide
<1>6. CASE Certify
  BY <1>6 DEF Certify
<1>7. CASE RestartSupervisor
  BY <1>7 DEF RestartSupervisor
<1>8. CASE CertifyUnconfirmed
  BY <1>8 DEF CertifyUnconfirmed
<1>9. CASE CrashSupervisor
  BY <1>9 DEF CrashSupervisor
<1>10. CASE \E j \in Jobs : SpawnThrows(j)
  BY <1>10 DEF SpawnThrows
<1>11. CASE UNCHANGED vars
  BY <1>11 DEF vars
<1>. QED  BY <1>1, <1>2, <1>3, <1>4, <1>5, <1>6, <1>7, <1>8, <1>9, <1>10, <1>11 DEF QuietNext

LEMMA QuietKeepsTick ==
  ASSUME JobsIInv, QuietNext
  PROVE  TickAgrees'
<1>0. Quiet /\ sup \in SupervisorRecords
  BY QuietSteps DEF JobsIInv, JobsTypeOK
<1>. cycle \in [status : {"IN_PROGRESS", "BLOCKED", "COMPLETE", "FROZEN"},
                tasksDone : BOOLEAN, freezing : BOOLEAN]
  BY DEF JobsIInv, JobsTypeOK
<1>. USE <1>0 DEF JobsIInv, TickAgrees, Quiet, SupervisorRecords, InProgress, At, Goto, Certified,
                  NothingOpen, Cited, Passed, journal, EnterCustody
<1>1. CASE Controller
  <2>1. UNCHANGED <<plan, sup>> /\ cycle'.status = cycle.status
    BY <1>1 DEF Controller, ChangeTree, AskJob, ApplyTasksDone, ApplyFreeze
  <2>. QED  BY <2>1
<1>2. CASE BlockRecovery
  BY <1>2 DEF BlockRecovery
<1>3. CASE BeginTick
  BY <1>3 DEF BeginTick
<1>4. CASE Defer
  BY <1>4 DEF Defer
<1>5. CASE Decide
  BY <1>5 DEF Decide, GatePasses
<1>6. CASE Certify
  BY <1>6 DEF Certify
<1>7. CASE RestartSupervisor
  BY <1>7 DEF RestartSupervisor
<1>8. CASE CertifyUnconfirmed
  BY <1>8 DEF CertifyUnconfirmed
<1>9. CASE CrashSupervisor
  BY <1>9 DEF CrashSupervisor
<1>10. CASE \E j \in Jobs : SpawnThrows(j)
  BY <1>10 DEF SpawnThrows
<1>11. CASE UNCHANGED vars
  BY <1>11 DEF vars
<1>. QED  BY <1>1, <1>2, <1>3, <1>4, <1>5, <1>6, <1>7, <1>8, <1>9, <1>10, <1>11 DEF QuietNext

LEMMA RequestKeeps ==
  ASSUME JobsIInv, ApplyRequest
  PROVE  JournalAgrees' /\ TickAgrees' /\ OneReusableJob'
<1>. USE DEF JobsIInv
<1>0. /\ sup'.pc = sup.pc /\ sup'.dead = sup.dead /\ sup'.spawning = sup.spawning
      /\ UNCHANGED <<cycle, sidecar, proc>> /\ At("requests")
  BY DEF ApplyRequest, JobsTypeOK, SupervisorRecords
<1>1. sup.dead = {} /\ ~At("certify") /\ ~Certified
  BY <1>0 DEF TickAgrees, At, InProgress, Certified
<1>2. TickAgrees'
  BY <1>0, <1>1 DEF TickAgrees, At, InProgress, Certified
<1>3. CASE UNCHANGED job
  BY <1>0, <1>2, <1>3, QuietKeeps DEF Quiet
<1>4. CASE CreateJob(Head(queue))
  <2>1. PICK j \in Unused :
          job' = [job EXCEPT ![j].state = "received", ![j].fp = Head(queue).fp]
    BY <1>4 DEF CreateJob
  <2>2. job \in [Jobs -> JobRecords] /\ j \in Jobs /\ job[j].state = "unused"
    BY DEF JobsTypeOK, Unused
  <2>3. /\ job'[j].state = "received" /\ job'[j].fp = Head(queue).fp
        /\ job'[j].verdict = job[j].verdict /\ job'[j].known = job[j].known
        /\ \A k \in Jobs : k # j => job'[k] = job[k]
    BY <2>1, <2>2 DEF JobRecords
  <2>4. JournalAgrees'
    BY <1>0, <1>1, <2>2, <2>3 DEF JournalAgrees, AnyAlive, CommandAlive, HolderAlive
  <2>5. \A k \in Jobs : ~Reusable(k, Head(queue).fp)
    BY <1>4 DEF CreateJob, Equivalent
  <2>6. OneReusableJob'
    BY <2>2, <2>3, <2>5 DEF OneReusableJob, Reusable
  <2>. QED  BY <1>2, <2>4, <2>6
<1>. QED  BY <1>2, <1>3, <1>4 DEF ApplyRequest, Alias, ReuseJob

\* What the scan makes of one job.
LEMMA ScannedKeeps ==
  ASSUME NEW r \in JobRecords, NEW s \in Sidecars
  PROVE  /\ Scanned(r, s).fp = r.fp
         /\ r.state \notin InFlight => Scanned(r, s) = r
         /\ r.state \in InFlight => Scanned(r, s).state \in InFlight \union {"exited"}
         /\ r.state \in InFlight =>
               \/ Scanned(r, s).state = "exited" /\ Scanned(r, s).verdict = s /\ s \in Results
               \/ Scanned(r, s).state # "exited" /\ Scanned(r, s).verdict = r.verdict
         /\ Scanned(r, s).known => r.known \/ s = "identity"
  BY DEF Scanned, Exit, JobRecords, Sidecars, Results, States, Live, InFlight

LEMMA ScanKeeps ==
  ASSUME JobsIInv, NEW graceOver \in SUBSET Jobs, Scan(graceOver)
  PROVE  JournalAgrees' /\ TickAgrees' /\ OneReusableJob'
<1>. USE DEF JobsIInv
<1>0. /\ job \in [Jobs -> JobRecords] /\ sidecar \in [Jobs -> Sidecars] /\ sup \in SupervisorRecords
      /\ \A k \in Jobs : job[k] \in JobRecords /\ sidecar[k] \in Sidecars
  BY DEF JobsTypeOK
<1>1. /\ job' = [j \in Jobs |-> Scanned(job[j], sidecar[j])]
      /\ sup'.dead = {j \in graceOver : job'[j].state \in InFlight /\ ~SeenAlive(job'[j], j)}
      /\ sup'.pc = "judge" /\ sup'.spawning = sup.spawning
      /\ UNCHANGED <<plan, cycle, sidecar, proc>> /\ At("requests")
  BY <1>0 DEF Scan, SupervisorRecords
<1>2. \A k \in Jobs : job'[k] = Scanned(job[k], sidecar[k])
  BY <1>1
<1>. HIDE DEF JobsIInv
<1>3. JournalAgrees'
  <2>. SUFFICES ASSUME NEW k \in Jobs
       PROVE  /\ job'[k].state = "unused" =>
                    proc[k].fresh = 0 /\ sidecar[k] = "nothing" /\ k \notin sup.spawning
              /\ job'[k].state = "exited" <=> job'[k].verdict # "none"
              /\ job'[k].verdict # "none" => job'[k].verdict = sidecar[k]
              /\ job'[k].known => sidecar[k] \in {"identity", "pass", "fail"}
              /\ job'[k].known /\ k \in sup'.dead => ~AnyAlive(k)
              /\ job'[k].known /\ job'[k].state = "orphaned" =>
                    ~AnyAlive(k) /\ sidecar[k] \notin Results
    BY <1>1 DEF JournalAgrees, AnyAlive, CommandAlive, HolderAlive
  <2>1. /\ job[k].state = "unused" =>
             proc[k].fresh = 0 /\ sidecar[k] = "nothing" /\ k \notin sup.spawning
        /\ job[k].state = "exited" <=> job[k].verdict # "none"
        /\ job[k].verdict # "none" => job[k].verdict = sidecar[k]
        /\ job[k].known => sidecar[k] \in {"identity", "pass", "fail"}
        /\ job[k].known /\ job[k].state = "orphaned" => ~AnyAlive(k) /\ sidecar[k] \notin Results
    BY DEF JournalAgrees, JobsIInv
  <2>2. k \in sup'.dead /\ job'[k].known => ~AnyAlive(k)
    BY <1>1 DEF SeenAlive
  <2>3. CASE job[k].state \notin InFlight
    BY <1>0, <1>2, <2>1, <2>2, <2>3, ScannedKeeps
  <2>4. CASE job[k].state \in InFlight
    BY <1>0, <1>2, <2>1, <2>2, <2>4, ScannedKeeps DEF InFlight, Results
  <2>. QED  BY <2>3, <2>4
<1>4. TickAgrees'
  <2>1. InProgress /\ ~Certified
    BY <1>1 DEF TickAgrees, At, InProgress, Certified, JobsIInv
  <2>. QED  BY <1>1, <2>1 DEF TickAgrees, At, InProgress, Certified
<1>5. \A k \in Jobs : job'[k].fp = job[k].fp
  BY <1>0, <1>2, ScannedKeeps
<1>6. \A k \in Jobs, fp \in Trees : Reusable(k, fp)' => Reusable(k, fp)
  <2>. SUFFICES ASSUME NEW k \in Jobs, NEW fp \in Trees, Reusable(k, fp)'
       PROVE  Reusable(k, fp)
    OBVIOUS
  <2>1. CASE job[k].state \notin InFlight
    BY <1>0, <1>2, <2>1, ScannedKeeps DEF Reusable
  <2>2. CASE job[k].state \in InFlight
    BY <1>5, <2>2 DEF Reusable, Live
  <2>. QED  BY <2>1, <2>2
<1>7. OneReusableJob'
  BY <1>0, <1>5, <1>6 DEF OneReusableJob, JobRecords, JobsIInv
<1>. QED  BY <1>3, <1>4, <1>7

LEMMA ReconciledKeeps ==
  ASSUME NEW r \in JobRecords, NEW s \in Sidecars, r.state \in InFlight
  PROVE  /\ Reconciled(r, s).fp = r.fp /\ Reconciled(r, s).known = r.known
         /\ \/ Reconciled(r, s) = r
            \/ Reconciled(r, s).state = "exited" /\ Reconciled(r, s).verdict = s /\ s \in Results
            \/ /\ Reconciled(r, s).state = "orphaned" /\ Reconciled(r, s).verdict = r.verdict
               /\ s \notin Results
  BY DEF Reconciled, Exit, JobRecords, Sidecars, Results, States, Live, InFlight

LEMMA ReconcileKeeps ==
  ASSUME JobsIInv, Reconcile
  PROVE  JournalAgrees' /\ TickAgrees' /\ OneReusableJob'
<1>0. /\ job \in [Jobs -> JobRecords] /\ sidecar \in [Jobs -> Sidecars] /\ sup \in SupervisorRecords
      /\ \A k \in Jobs : job[k] \in JobRecords /\ sidecar[k] \in Sidecars
  BY DEF JobsTypeOK, JobsIInv
<1>1. /\ \A k \in Jobs : job'[k] = IF k \in sup.dead THEN Reconciled(job[k], sidecar[k]) ELSE job[k]
      /\ sup'.dead = {} /\ sup'.spawning = NeverStarted
      /\ sup'.pc = "dispatch"
      /\ UNCHANGED <<plan, cycle, sidecar, proc>> /\ At("judge")
  BY <1>0 DEF Reconcile, SupervisorRecords
<1>2. JournalAgrees'
  <2>. SUFFICES ASSUME NEW k \in Jobs
       PROVE  /\ job'[k].state = "unused" =>
                    proc[k].fresh = 0 /\ sidecar[k] = "nothing" /\ k \notin sup'.spawning
              /\ job'[k].state = "exited" <=> job'[k].verdict # "none"
              /\ job'[k].verdict # "none" => job'[k].verdict = sidecar[k]
              /\ job'[k].known => sidecar[k] \in {"identity", "pass", "fail"}
              /\ job'[k].known /\ job'[k].state = "orphaned" =>
                    ~AnyAlive(k) /\ sidecar[k] \notin Results
    BY <1>1 DEF JournalAgrees, AnyAlive, CommandAlive, HolderAlive
  <2>1. /\ job[k].state = "unused" => proc[k].fresh = 0 /\ sidecar[k] = "nothing"
        /\ job[k].state = "exited" <=> job[k].verdict # "none"
        /\ job[k].verdict # "none" => job[k].verdict = sidecar[k]
        /\ job[k].known => sidecar[k] \in {"identity", "pass", "fail"}
        /\ job[k].known /\ k \in sup.dead => ~AnyAlive(k)
        /\ job[k].known /\ job[k].state = "orphaned" => ~AnyAlive(k) /\ sidecar[k] \notin Results
    BY DEF JournalAgrees, JobsIInv
  <2>2. k \in sup.dead => job[k].state \in InFlight
    BY DEF TickAgrees, JobsIInv
  <2>3. k \in sup'.spawning => k \in sup.dead /\ job[k].state = "spawn-intent" /\ sidecar[k] = "nothing"
    BY <1>1 DEF NeverStarted
  <2>4. CASE k \notin sup.dead
    BY <1>1, <2>1, <2>3, <2>4
  <2>5. CASE k \in sup.dead
    BY <1>0, <1>1, <2>1, <2>2, <2>5, ReconciledKeeps DEF InFlight, Results
  <2>. QED  BY <2>4, <2>5
<1>3. TickAgrees'
  <2>1. InProgress /\ ~Certified
    BY <1>1 DEF TickAgrees, At, InProgress, Certified, JobsIInv
  <2>. QED  BY <1>1, <2>1 DEF TickAgrees, At, InProgress, Certified
<1>4. \A k \in Jobs : job'[k].fp = job[k].fp
  BY <1>0, <1>1, ReconciledKeeps DEF TickAgrees, JobsIInv
<1>5. \A k \in Jobs, fp \in Trees : Reusable(k, fp)' => Reusable(k, fp)
  <2>. SUFFICES ASSUME NEW k \in Jobs, NEW fp \in Trees, Reusable(k, fp)'
       PROVE  Reusable(k, fp)
    OBVIOUS
  <2>1. CASE k \notin sup.dead
    BY <1>1, <2>1 DEF Reusable
  <2>2. CASE k \in sup.dead
    BY <1>4, <2>2 DEF Reusable, Live, TickAgrees, JobsIInv
  <2>. QED  BY <2>1, <2>2
<1>6. OneReusableJob'
  BY <1>0, <1>4, <1>5 DEF OneReusableJob, JobRecords, JobsIInv
<1>. QED  BY <1>2, <1>3, <1>6

LEMMA DispatchKeeps ==
  ASSUME JobsIInv, Dispatch
  PROVE  JournalAgrees' /\ TickAgrees' /\ OneReusableJob'
<1>0. job \in [Jobs -> JobRecords] /\ sup \in SupervisorRecords
  BY DEF JobsTypeOK, JobsIInv
<1>1. /\ sup'.dead = sup.dead /\ sup'.spawning = Received /\ sup'.pc = "decide"
      /\ UNCHANGED <<plan, cycle, sidecar, proc>> /\ At("dispatch")
  BY <1>0 DEF Dispatch, SupervisorRecords
<1>2. \A k \in Jobs :
         /\ job'[k].fp = job[k].fp /\ job'[k].verdict = job[k].verdict /\ job'[k].known = job[k].known
         /\ IF job[k].state = "received" THEN job'[k].state = "spawn-intent"
                                         ELSE job'[k].state = job[k].state
  BY <1>0 DEF Dispatch, Received, JobRecords
<1>3. JournalAgrees'
  BY <1>1, <1>2 DEF JournalAgrees, JobsIInv, Received, AnyAlive, CommandAlive, HolderAlive
<1>4. TickAgrees'
  <2>1. InProgress /\ ~Certified /\ sup.dead = {}
    BY <1>1 DEF TickAgrees, At, InProgress, Certified, JobsIInv
  <2>. QED  BY <1>1, <2>1 DEF TickAgrees, At, InProgress, Certified
<1>5. OneReusableJob'
  BY <1>2 DEF OneReusableJob, Reusable, Live, InFlight, JobsIInv
<1>. QED  BY <1>3, <1>4, <1>5

LEMMA NextInv == JobsIInv /\ [Next]_vars => JobsIInv'
<1>. SUFFICES ASSUME JobsIInv, [Next]_vars  PROVE JobsIInv'
  OBVIOUS
<1>1. JobsTypeOK'
  BY NextTypes DEF JobsIInv
<1>2. ProcessesAgree'
  BY OtherSteps, ProcessesKept DEF JobsIInv, ProcessesAgree
<1>3. \/ QuietNext
      \/ \E j \in Jobs : JobStep(j)
      \/ ApplyRequest \/ (\E graceOver \in SUBSET Jobs : Scan(graceOver)) \/ Reconcile \/ Dispatch
  BY DEF Next, Supervisor, Failure, QuietNext, JobStep
<1>4. JournalAgrees' /\ TickAgrees' /\ OneReusableJob'
  <2>1. CASE QuietNext
    BY <2>1, QuietSteps, QuietKeeps, QuietKeepsTick DEF JobsIInv
  <2>. QED  BY <1>3, <2>1, JobStepKeeps, RequestKeeps, ScanKeeps, ReconcileKeeps, DispatchKeeps
<1>. QED  BY <1>1, <1>2, <1>4 DEF JobsIInv

LEMMA IInvHolds == Spec => []JobsIInv
  BY InitInv, NextInv, PTL DEF Spec

-----------------------------------------------------------------------------
(* The safety properties *)

\* The command of a job is started at most once (claim of exec-wrapper.ts).
THEOREM CommandRunsOnce == Spec => []OnceOnly
<1>1. JobsIInv => OnceOnly
  BY DEF JobsIInv, ProcessesAgree, OnceOnly
<1>. QED  BY <1>1, IInvHolds, PTL

\* A verdict in the journal is the one its command earned, drained
\* (collectAndReconcile, reconcileJobs).
THEOREM VerdictsAreEarned == Spec => []VerdictIsEarned
<1>1. JobsIInv => VerdictIsEarned
  <2>. SUFFICES ASSUME JobsIInv, NEW j \in Jobs, job[j].verdict # "none"
       PROVE  /\ job[j].verdict = "pass" =>
                    proc[j].runs = 1 /\ proc[j].command = "ok" /\ ~proc[j].group
              /\ ~CommandAlive(j) /\ proc[j].holder = "gone"
    BY DEF VerdictIsEarned
  <2>1. job[j] \in JobRecords /\ proc[j] \in ProcRecords
    BY DEF JobsIInv, JobsTypeOK
  <2>2. job[j].verdict \in Results /\ job[j].verdict = sidecar[j]
    BY <2>1 DEF JobsIInv, JournalAgrees, JobRecords, Results
  <2>3. /\ sidecar[j] \in Results => proc[j].holder = "gone" /\ proc[j].command # "run"
        /\ sidecar[j] = "pass" => proc[j].command = "ok" /\ ~proc[j].group
        /\ proc[j].command = "off" <=> proc[j].runs = 0
        /\ proc[j].runs <= 1
    BY DEF JobsIInv, ProcessesAgree
  <2>4. proc[j].command = "ok" => proc[j].runs = 1
    BY <2>1, <2>3 DEF ProcRecords
  <2>. QED  BY <2>2, <2>3, <2>4 DEF CommandAlive
<1>. QED  BY <1>1, IInvHolds, PTL

\* A job of known identity is given up only when its wrapper and its command
\* are dead and left no result (reconcileJobs).
THEOREM KnownOrphansAreDead == Spec => []KnownOrphanIsDead
<1>1. JobsIInv => KnownOrphanIsDead
  BY DEF JobsIInv, JournalAgrees, KnownOrphanIsDead
<1>. QED  BY <1>1, IInvHolds, PTL

\* One job at most can serve as the evidence of a tree (job-request, apply.ts).
THEOREM ReusableJobIsOne == Spec => []OneReusableJob
<1>1. JobsIInv => OneReusableJob
  BY DEF JobsIInv
<1>. QED  BY <1>1, IInvHolds, PTL

\* A certified cycle is backed by commands that succeeded, and nothing runs or
\* is still to run (the gate of the tick, COMPLETE and FROZEN).
THEOREM CertificationIsBacked == Spec => []CertifiedIsBacked
<1>1. JobsIInv => CertifiedIsBacked
  <2>. SUFFICES ASSUME JobsIInv, cycle.status \in {"COMPLETE", "FROZEN"}  PROVE CertifiedIsBacked
    BY DEF CertifiedIsBacked
  <2>0. /\ plan.link \in [Items -> Jobs \union {NoJob}]
        /\ \A j \in Jobs : job[j] \in JobRecords /\ proc[j] \in ProcRecords
    BY DEF JobsIInv, JobsTypeOK
  <2>1. /\ \A j \in Jobs : job[j].state \in {"unused", "exited"}
        /\ \A i \in Items : plan.link[i] # NoJob /\ job[plan.link[i]].verdict = "pass"
    BY DEF JobsIInv, TickAgrees, Certified, NothingOpen, Cited, Passed
  <2>2. \A j \in Jobs : job[j].verdict \in Results => job[j].verdict = sidecar[j]
    BY DEF JobsIInv, JournalAgrees, Results
  <2>3. \A i \in Items : i \in Cited /\ proc[plan.link[i]].command = "ok"
    BY <2>0, <2>1, <2>2 DEF JobsIInv, ProcessesAgree, Cited, Results
  <2>4. ASSUME NEW j \in Jobs
        PROVE  ~AnyAlive(j) /\ (proc[j].fresh > 0 => sidecar[j] # "nothing")
    <3>1. CASE job[j].state = "unused"
      <4>1. sidecar[j] = "nothing" /\ proc[j].fresh = 0
        BY <3>1 DEF JobsIInv, JournalAgrees
      <4>2. proc[j].holder = "none" /\ proc[j].command = "off"
        BY <4>1 DEF JobsIInv, ProcessesAgree
      <4>. QED  BY <4>1, <4>2 DEF AnyAlive, HolderAlive, CommandAlive
    <3>2. CASE job[j].state = "exited"
      <4>1. sidecar[j] \in Results
        BY <2>0, <3>2 DEF JobsIInv, JournalAgrees, JobRecords, Results
      <4>2. proc[j].holder = "gone" /\ proc[j].command # "run"
        BY <4>1 DEF JobsIInv, ProcessesAgree
      <4>. QED  BY <4>1, <4>2 DEF AnyAlive, HolderAlive, CommandAlive, Results
    <3>. QED  BY <2>1, <3>1, <3>2
  <2>. QED  BY <2>3, <2>4 DEF CertifiedIsBacked
<1>. QED  BY <1>1, IInvHolds, PTL

LEMMA EndStep ==
  ASSUME JobsIInv, [Next]_vars, NEW j \in Jobs, Ended(j)
  PROVE  job'[j] = job[j]
<1>. job \in [Jobs -> JobRecords] /\ job[j] \in JobRecords /\ sidecar[j] \in Sidecars
  BY DEF JobsIInv, JobsTypeOK
<1>0. job[j].state \notin InFlight /\ job[j].state # "received" /\ job[j].state # "unused"
  BY DEF Ended, InFlight
<1>1. CASE QuietNext \/ \E k \in Jobs : JobStep(k)
  BY <1>1, QuietSteps, JobStepFrame DEF Quiet, JobsIInv
<1>2. CASE ApplyRequest
  BY <1>0, <1>2 DEF ApplyRequest, Alias, ReuseJob, CreateJob, Unused
<1>3. CASE \E graceOver \in SUBSET Jobs : Scan(graceOver)
  BY <1>0, <1>3, ScannedKeeps DEF Scan
<1>4. CASE Reconcile
  BY <1>0, <1>4 DEF Reconcile, JobsIInv, TickAgrees
<1>5. CASE Dispatch
  BY <1>0, <1>5 DEF Dispatch, Received
<1>. QED  BY <1>1, <1>2, <1>3, <1>4, <1>5
          DEF Next, Supervisor, Failure, QuietNext, JobStep

\* What became of a job is final (R1.7): no late result is adopted, no exited
\* job comes back.
THEOREM EndsAreFinal == Spec => EndIsFinal
<1>1. JobsIInv /\ [Next]_vars => [\A j \in Jobs : Ended(j) => job'[j] = job[j]]_vars
  BY EndStep
<1>. QED  BY <1>1, IInvHolds, PTL DEF Spec, EndIsFinal
=============================================================================
