-------------------------- MODULE VerificationJobs --------------------------
(***************************************************************************)
(* The verification jobs of one journal. The controller (an agent) never    *)
(* runs a verifier: it requests a job for an item of its verification plan, *)
(* stamped with the fingerprint of the tree. The supervisor creates or      *)
(* reuses the job, writes an intent, spawns a detached wrapper and never    *)
(* waits for it; the wrapper claims the job, runs the command in a process  *)
(* group of its own and leaves its identity and its result in files beside  *)
(* the claim. Every tick the supervisor reads those files, decides about    *)
(* the jobs whose processes it believes dead, and certifies the cycle when  *)
(* the gate is green. Controller, supervisor, wrappers and commands run     *)
(* concurrently; the supervisor and each wrapper may crash anywhere.        *)
(*                                                                          *)
(* Every job runs the same command, so the fingerprint is the tree alone.   *)
(* Requests of a stale generation, the stall of the controller and the      *)
(* cohort of a plan are not part of this module.                            *)
(***************************************************************************)
EXTENDS Naturals, FiniteSets, Sequences

CONSTANTS
    Jobs,          \* ids, in the order of their creation
    Items,         \* of the verification plan, those a job must satisfy
    Trees,         \* the states of the working tree, by fingerprint
    NoJob,         \* what an item cites that no job was asked for
    NoItem,        \* what a request satisfies that names no item
    Freezable,     \* whether the journal may be asked to freeze (that of a track)
    MaxPending,    \* bound of the requests waiting at a time
    MaxWrappers,   \* bound of the wrappers of one job that have not claimed yet
    MaxFaults      \* bound of crashes of the supervisor and of wrappers

ASSUME JobsAssumption == Jobs \subseteq Nat /\ IsFiniteSet(Jobs)
ASSUME NoJobAssumption == NoJob \notin Jobs /\ NoItem \notin Items
ASSUME BoundsAssumption == /\ MaxPending \in Nat /\ MaxFaults \in Nat
                           /\ MaxWrappers \in Nat \ {0}
ASSUME FreezableAssumption == Freezable \in BOOLEAN

VARIABLES
    tree,      \* the fingerprint the working tree has now
    queue,     \* requests on disk, each an item and the tree it was computed on
    job,       \* of the journal: the state of each job
    plan,      \* of the journal: what each item cites, the keys applied so far
    cycle,     \* of the journal: how the cycle stands
    sidecar,   \* the files of each job: what the last one written says
    proc,      \* the processes of each job
    sup        \* the supervisor: where its tick is, and what it remembers

vars == <<tree, queue, job, plan, cycle, sidecar, proc, sup>>
journal == <<job, plan, cycle>>

(***************************************************************************)
(* Types                                                                   *)
(***************************************************************************)

InFlight == {"spawn-intent", "claimed", "running"}

Live == {"received"} \union InFlight
States == {"unused", "exited", "orphaned"} \union Live

\* The identity of a request; the command is always the same.
Keys == [item : Items \union {NoItem}, fp : Trees]

\* A job as the journal has it. known: identity sidecar adopted, so that the
\* journal has the processRef of the command and the wrapperRef.
JobRecords == [state : States, fp : Trees, verdict : {"none", "pass", "fail"}, known : BOOLEAN]

\* The claim comes first, then the identity, then the result.
Sidecars == {"nothing", "claim", "identity", "pass", "fail"}
Results == {"pass", "fail"}

\* fresh: wrappers spawned that have not tried to claim. holder: the wrapper
\* that claimed. command: the leader of its own group; group: whether that
\* group has any process left. runs counts the starts of the command.
ProcRecords ==
    [fresh : 0..MaxWrappers, holder : {"none", "claimed", "spawned", "waiting", "gone"},
     command : {"off", "run", "ok", "bad"}, group : BOOLEAN, runs : Nat]

Steps == {"idle", "requests", "judge", "dispatch", "decide", "certify", "down"}

\* batch: how many of the requests it listed are still to apply. dead: the
\* jobs whose processes it found dead. spawning: the wrappers still to spawn.
SupervisorRecords ==
    [pc : Steps, batch : Nat, dead : SUBSET Jobs, spawning : SUBSET Jobs, faults : Nat]

JobsTypeOK ==
    /\ tree \in Trees
    /\ queue \in Seq(Keys)
    /\ job \in [Jobs -> JobRecords]
    /\ plan \in [link : [Items -> Jobs \union {NoJob}], applied : SUBSET Keys]
    /\ cycle \in [status : {"IN_PROGRESS", "BLOCKED", "COMPLETE", "FROZEN"},
                  tasksDone : BOOLEAN, freezing : BOOLEAN]
    /\ sidecar \in [Jobs -> Sidecars]
    /\ proc \in [Jobs -> ProcRecords]
    /\ sup \in SupervisorRecords

Unused == {j \in Jobs : job[j].state = "unused"}
Ended(j) == job[j].state \in {"exited", "orphaned"}

Init ==
    /\ tree \in Trees
    /\ queue = <<>>
    /\ job = [j \in Jobs |-> [state |-> "unused", fp |-> tree, verdict |-> "none", known |-> FALSE]]
    /\ plan = [link |-> [i \in Items |-> NoJob], applied |-> {}]
    /\ cycle = [status |-> "IN_PROGRESS", tasksDone |-> FALSE, freezing |-> FALSE]
    /\ sidecar = [j \in Jobs |-> "nothing"]
    /\ proc = [j \in Jobs |-> [fresh |-> 0, holder |-> "none", command |-> "off",
                               group |-> FALSE, runs |-> 0]]
    /\ sup = [pc |-> "idle", batch |-> 0, dead |-> {}, spawning |-> {}, faults |-> 0]

At(step) == sup.pc = step
Goto(step) == sup' = [sup EXCEPT !.pc = step]
InProgress == cycle.status = "IN_PROGRESS"
EnterCustody == cycle' = [cycle EXCEPT !.status = "BLOCKED"]

\* A fault is something that may happen only MaxFaults times.
MayFail == sup.faults < MaxFaults

(***************************************************************************)
(* The working tree and the controller                                     *)
(***************************************************************************)

\* Whoever works in the tree edits it, at any time.
ChangeTree ==
    /\ InProgress
    /\ tree' \in Trees \ {tree}
    /\ UNCHANGED <<queue, journal, sidecar, proc, sup>>

Asked == plan.applied \union {queue[k] : k \in DOMAIN queue}

\* requestJob: the fingerprint is computed when the request is emitted. A key
\* may be asked for again; there are no more keys than jobs.
AskJob(i) ==
    LET key == [item |-> i, fp |-> tree]
    IN  /\ InProgress
        /\ Len(queue) < MaxPending
        /\ key \in Asked \/ Cardinality(Asked) < Cardinality(Jobs)
        /\ queue' = Append(queue, key)
        /\ UNCHANGED <<tree, journal, sidecar, proc, sup>>

(***************************************************************************)
(* The tick of the supervisor: recovery check, requests                    *)
(***************************************************************************)

Active == {j \in Jobs : job[j].state \in Live \union {"orphaned"}}

Cited == {i \in Items : plan.link[i] # NoJob}
Passed(i) == job[plan.link[i]].verdict = "pass"
Current(i) == job[plan.link[i]].fp = tree

\* What recovery finds before anything is dispatched: a job of another tree
\* still active, or, once every task claims to be done and nothing is active,
\* evidence that is adverse or stale.
RecoveryBlocked ==
    \/ \E j \in Active : job[j].fp # tree
    \/ /\ Active = {} /\ cycle.tasksDone
       /\ \E i \in Cited : ~Passed(i) \/ ~Current(i)

\* A tick that finds the cycle blocked returns at once: no job advances again.
BlockRecovery ==
    /\ At("idle") /\ InProgress
    /\ RecoveryBlocked
    /\ EnterCustody
    /\ UNCHANGED <<tree, queue, job, plan, sidecar, proc, sup>>

BeginTick ==
    /\ At("idle") /\ InProgress
    /\ ~RecoveryBlocked
    /\ sup' = [sup EXCEPT !.pc = "requests", !.batch = Len(queue)]
    /\ UNCHANGED <<tree, queue, journal, sidecar, proc>>

\* Mutant: a failed or lost job serves again.
ReusableAlways(j, fp) == job[j].fp = fp /\ job[j].state # "unused"

Reusable(j, fp) ==
    /\ job[j].fp = fp
    /\ \/ job[j].state \in Live
       \/ job[j].state = "exited" /\ job[j].verdict = "pass"

\* Mutant: only a finished job is reused.
EquivalentPassed(fp) == {j \in Jobs : job[j].fp = fp /\ job[j].verdict = "pass"}

Equivalent(fp) == {j \in Jobs : Reusable(j, fp)}

Link(key, j) ==
    plan' = [link |-> [i \in Items |-> IF i = key.item THEN j ELSE plan.link[i]],
             applied |-> plan.applied \union {key}]

\* A key applied before: the request is an alias of it, and links nothing.
Alias(key) ==
    /\ key \in plan.applied
    /\ UNCHANGED <<job, plan>>

ReuseJob(key) ==
    /\ key \notin plan.applied
    /\ \E j \in Equivalent(key.fp) : Link(key, j)
    /\ UNCHANGED job

CreateJob(key) ==
    /\ key \notin plan.applied
    /\ Equivalent(key.fp) = {}
    /\ \E j \in Unused :
          /\ \A k \in Unused : j <= k
          /\ job' = [job EXCEPT ![j].state = "received", ![j].fp = key.fp]
          /\ Link(key, j)

\* The requests the tick listed are applied to a copy of the journal that is
\* written once. A crash between two of them leaves what a tick that listed
\* fewer would have left: applying one is atomic here.
ApplyRequest ==
    /\ At("requests") /\ sup.batch > 0 /\ queue # <<>>
    /\ Alias(Head(queue)) \/ ReuseJob(Head(queue)) \/ CreateJob(Head(queue))
    /\ queue' = Tail(queue)
    /\ sup' = [sup EXCEPT !.batch = @ - 1]
    /\ UNCHANGED <<tree, cycle, sidecar, proc>>

\* Two more requests this module tells apart: the controller reports every
\* task done, the plan of a track asks it to freeze.
ApplyTasksDone ==
    /\ At("requests") /\ ~cycle.tasksDone
    /\ cycle' = [cycle EXCEPT !.tasksDone = TRUE]
    /\ UNCHANGED <<tree, queue, job, plan, sidecar, proc, sup>>

ApplyFreeze ==
    /\ At("requests") /\ Freezable /\ ~cycle.freezing
    /\ cycle' = [cycle EXCEPT !.freezing = TRUE]
    /\ UNCHANGED <<tree, queue, job, plan, sidecar, proc, sup>>

(***************************************************************************)
(* The tick of the supervisor: what became of the jobs                     *)
(***************************************************************************)

\* Mutant: the verdict goes where the state is.
ExitByVerdict(r, result) == [r EXCEPT !.state = result]

Exit(r, result) == [r EXCEPT !.state = "exited", !.verdict = result]

\* What the scan makes of a job by its sidecars: the result first, then the
\* identity, then the claim.
Scanned(r, s) ==
    CASE r.state \notin InFlight -> r
      [] r.state \in InFlight /\ s \in Results -> Exit(r, s)
      [] r.state \in {"spawn-intent", "claimed"} /\ s = "identity" ->
            [r EXCEPT !.state = "running", !.known = TRUE]
      [] r.state = "spawn-intent" /\ s = "claim" -> [r EXCEPT !.state = "claimed"]
      [] OTHER -> r

HolderAlive(j) == proc[j].holder \in {"claimed", "spawned", "waiting"}
CommandAlive(j) == proc[j].command = "run"

AnyAlive(j) == CommandAlive(j) \/ HolderAlive(j)

\* Mutant: only the command is looked at, not the wrapper that drains it.
SeenCommandAlive(r, j) == r.known /\ CommandAlive(j)

\* refIsAlive of the two identities the journal has; with none adopted there
\* is nothing to find alive.
SeenAlive(r, j) == r.known /\ AnyAlive(j)

\* One scan of all jobs, and the liveness of those whose grace is over. The
\* result is written at the end of the reconciliation; a crash before loses
\* only what the next scan finds again, so it is written here.
Scan(graceOver) ==
    LET new == [j \in Jobs |-> Scanned(job[j], sidecar[j])]
    IN  /\ At("requests") /\ sup.batch = 0
        /\ job' = new
        /\ sup' = [sup EXCEPT !.pc = "judge",
                  !.dead = {j \in graceOver : new[j].state \in InFlight /\ ~SeenAlive(new[j], j)}]
        /\ UNCHANGED <<tree, queue, plan, cycle, sidecar, proc>>

\* The recovery matrix, for a job found dead, by the sidecars of now.
Reconciled(r, s) ==
    CASE s = "nothing" -> r
      [] s \in Results -> Exit(r, s)
      [] s \in {"claim", "identity"} -> [r EXCEPT !.state = "orphaned"]

\* Mutant: a freeze stops the retries too.
NeverStartedUnfrozen ==
    {j \in sup.dead : ~cycle.freezing /\ sidecar[j] = "nothing" /\ job[j].state = "spawn-intent"}

\* The jobs no wrapper has claimed: the same intent is spawned again, under a
\* freeze too.
NeverStarted == {j \in sup.dead : sidecar[j] = "nothing" /\ job[j].state = "spawn-intent"}

Reconcile ==
    /\ At("judge")
    /\ job' = [j \in Jobs |-> IF j \in sup.dead THEN Reconciled(job[j], sidecar[j]) ELSE job[j]]
    /\ sup' = [sup EXCEPT !.pc = "dispatch", !.dead = {}, !.spawning = NeverStarted]
    /\ UNCHANGED <<tree, queue, plan, cycle, sidecar, proc>>

(***************************************************************************)
(* The tick of the supervisor: dispatch                                    *)
(***************************************************************************)

SpawnWrapper(j) ==
    /\ j \in sup.spawning
    /\ sup' = [sup EXCEPT !.spawning = @ \ {j}]
    /\ proc' = [proc EXCEPT ![j].fresh = IF @ < MaxWrappers THEN @ + 1 ELSE @]
    /\ UNCHANGED <<tree, queue, journal, sidecar>>

\* A spawn that throws is left to the next tick: its intent is durable.
SpawnThrows(j) ==
    /\ MayFail /\ j \in sup.spawning
    /\ sup' = [sup EXCEPT !.spawning = @ \ {j}, !.faults = @ + 1]
    /\ UNCHANGED <<tree, queue, journal, sidecar, proc>>

Received == {j \in Jobs : job[j].state = "received"}

\* Every intent is durable before the first spawn.
Dispatch ==
    /\ At("dispatch") /\ sup.spawning = {}
    /\ ~cycle.freezing
    /\ job' = [j \in Jobs |-> IF j \in Received THEN [job[j] EXCEPT !.state = "spawn-intent"]
                              ELSE job[j]]
    /\ sup' = [sup EXCEPT !.pc = "decide", !.spawning = Received]
    /\ UNCHANGED <<tree, queue, plan, cycle, sidecar, proc>>

\* During a freeze, or while the controller is not known to be supervised.
Defer ==
    /\ At("dispatch") /\ sup.spawning = {}
    /\ Goto("decide")
    /\ UNCHANGED <<tree, queue, journal, sidecar, proc>>

(***************************************************************************)
(* The tick of the supervisor: the gate                                    *)
(***************************************************************************)

\* Mutant: the gate forgets the jobs given up as lost.
NothingLive == \A j \in Jobs : job[j].state \notin Live

NothingOpen == \A j \in Jobs : job[j].state \in {"unused", "exited"}

GatePasses ==
    /\ cycle.tasksDone
    /\ NothingOpen
    /\ \A i \in Items : i \in Cited /\ Passed(i) /\ Current(i)

\* A freeze also waits for a clean worktree, which this module does not have.
Decide ==
    /\ At("decide") /\ sup.spawning = {}
    /\ \E clean \in IF cycle.freezing THEN BOOLEAN ELSE {TRUE} :
          Goto(IF GatePasses /\ clean THEN "certify" ELSE "idle")
    /\ UNCHANGED <<tree, queue, journal, sidecar, proc>>

\* The termination of the controller is awaited between the gate and the
\* write; it may fail to be confirmed.
Certify ==
    /\ At("certify")
    /\ cycle' = [cycle EXCEPT !.status = IF cycle.freezing THEN "FROZEN" ELSE "COMPLETE"]
    /\ Goto("idle")
    /\ UNCHANGED <<tree, queue, job, plan, sidecar, proc>>

CertifyUnconfirmed ==
    /\ At("certify") /\ MayFail
    /\ EnterCustody
    /\ sup' = [sup EXCEPT !.pc = "idle", !.faults = @ + 1]
    /\ UNCHANGED <<tree, queue, job, plan, sidecar, proc>>

CrashSupervisor ==
    /\ MayFail /\ ~At("down")
    /\ sup' = [sup EXCEPT !.pc = "down", !.batch = 0, !.dead = {}, !.spawning = {},
                         !.faults = @ + 1]
    /\ UNCHANGED <<tree, queue, journal, sidecar, proc>>

RestartSupervisor ==
    /\ At("down")
    /\ Goto("idle")
    /\ UNCHANGED <<tree, queue, journal, sidecar, proc>>

(***************************************************************************)
(* The wrappers and their commands                                         *)
(***************************************************************************)

Outside == <<tree, queue, journal>>

\* Mutant: the claim is opened, not created.
ClaimShared(j) ==
    /\ proc[j].fresh > 0
    /\ sidecar' = [sidecar EXCEPT ![j] = "claim"]
    /\ proc' = [proc EXCEPT ![j].fresh = @ - 1, ![j].holder = "claimed"]
    /\ UNCHANGED <<Outside, sup>>

\* The claim file is created exclusively: one wrapper of a job gets it.
Claim(j) ==
    /\ proc[j].fresh > 0
    /\ sidecar[j] = "nothing"
    /\ sidecar' = [sidecar EXCEPT ![j] = "claim"]
    /\ proc' = [proc EXCEPT ![j].fresh = @ - 1, ![j].holder = "claimed"]
    /\ UNCHANGED <<Outside, sup>>

ClaimTaken(j) ==
    /\ proc[j].fresh > 0
    /\ sidecar[j] # "nothing"
    /\ proc' = [proc EXCEPT ![j].fresh = @ - 1]
    /\ UNCHANGED <<Outside, sidecar, sup>>

StartCommand(j) ==
    /\ proc[j].holder = "claimed"
    /\ proc' = [proc EXCEPT ![j].holder = "spawned", ![j].command = "run", ![j].group = TRUE,
                           ![j].runs = @ + 1]
    /\ UNCHANGED <<Outside, sidecar, sup>>

\* The command cannot be executed: the result says 127 at once.
StartFails(j) ==
    /\ proc[j].holder = "claimed"
    /\ sidecar' = [sidecar EXCEPT ![j] = "fail"]
    /\ proc' = [proc EXCEPT ![j].holder = "gone"]
    /\ UNCHANGED <<Outside, sup>>

WriteIdentity(j) ==
    /\ proc[j].holder = "spawned"
    /\ sidecar' = [sidecar EXCEPT ![j] = "identity"]
    /\ proc' = [proc EXCEPT ![j].holder = "waiting"]
    /\ UNCHANGED <<Outside, sup>>

\* The command ends, or `awm job reap` terminates it, whatever became of its
\* wrapper; descendants may stay behind in its group.
CommandEnds(j) ==
    /\ CommandAlive(j)
    /\ \E how \in {"ok", "bad"}, left \in BOOLEAN :
          proc' = [proc EXCEPT ![j].command = how, ![j].group = left]
    /\ UNCHANGED <<Outside, sidecar, sup>>

\* Mutant: the exit code alone is the result.
ResultUndrained(j, drained) == IF proc[j].command = "ok" THEN "pass" ELSE "fail"

ResultOf(j, drained) == IF drained /\ proc[j].command = "ok" THEN "pass" ELSE "fail"

\* The wrapper drains the group of the command before it publishes the
\* result, which is 125 when it cannot.
Finish(j) ==
    /\ proc[j].holder = "waiting" /\ proc[j].command \in {"ok", "bad"}
    /\ \E drained \in BOOLEAN :
          /\ drained \/ proc[j].group
          /\ sidecar' = [sidecar EXCEPT ![j] = ResultOf(j, drained)]
          /\ proc' = [proc EXCEPT ![j].holder = "gone", ![j].group = ~drained]
    /\ UNCHANGED <<Outside, sup>>

WrapperDies(j) ==
    /\ MayFail
    /\ \/ /\ proc[j].fresh > 0
          /\ proc' = [proc EXCEPT ![j].fresh = @ - 1]
       \/ /\ HolderAlive(j)
          /\ proc' = [proc EXCEPT ![j].holder = "gone"]
    /\ sup' = [sup EXCEPT !.faults = @ + 1]
    /\ UNCHANGED <<Outside, sidecar>>

(***************************************************************************)
(* The specification                                                       *)
(***************************************************************************)

Supervisor ==
    \/ BlockRecovery \/ BeginTick \/ ApplyRequest
    \/ \E graceOver \in SUBSET Jobs : Scan(graceOver)
    \/ Reconcile
    \/ \E j \in Jobs : SpawnWrapper(j)
    \/ Dispatch \/ Defer \/ Decide \/ Certify
    \/ RestartSupervisor

Controller == ChangeTree \/ (\E i \in Items \union {NoItem} : AskJob(i)) \/ ApplyTasksDone \/ ApplyFreeze

Wrapper(j) ==
    Claim(j) \/ ClaimTaken(j) \/ StartCommand(j) \/ StartFails(j) \/ WriteIdentity(j) \/ Finish(j)

Failure ==
    \/ CertifyUnconfirmed \/ CrashSupervisor
    \/ \E j \in Jobs : SpawnThrows(j) \/ WrapperDies(j)

Next ==
    \/ Supervisor
    \/ Controller
    \/ \E j \in Jobs : Wrapper(j) \/ CommandEnds(j)
    \/ Failure

Spec == Init /\ [][Next]_vars

\* The loop of the supervisor ticks and is restarted after a crash, a grace
\* of a few seconds ends, wrappers run. Nothing makes a command end: the code
\* gives no command a time limit.
FairSpec ==
    /\ Spec
    /\ WF_vars(Supervisor)
    /\ SF_vars(Scan(Jobs))
    /\ \A j \in Jobs : WF_vars(Wrapper(j))

(***************************************************************************)
(* Properties                                                              *)
(***************************************************************************)

\* The command of a job is never started twice, whatever delayed wrappers,
\* repeated spawns of its intent and restarts of the supervisor there are
\* (reconcile.ts: "no puedan ejecutar ambos el comando").
OnceOnly == \A j \in Jobs : proc[j].runs <= 1

\* A verdict in the journal is what happened: a pass belongs to a command that
\* was started once, exited with 0 and left no process in its group; a command
\* whose job has any verdict is no longer running.
VerdictIsEarned ==
    \A j \in Jobs :
       /\ job[j].verdict = "pass" =>
             proc[j].runs = 1 /\ proc[j].command = "ok" /\ ~proc[j].group
       /\ job[j].verdict # "none" => ~CommandAlive(j) /\ proc[j].holder = "gone"

\* A job whose processes the journal knows is given up only after both are
\* dead and without a result: neither a wrapper that is still draining nor a
\* result written between the look at the processes and the look at the files
\* is lost.
KnownOrphanIsDead ==
    \A j \in Jobs :
       job[j].state = "orphaned" /\ job[j].known => ~AnyAlive(j) /\ sidecar[j] \notin Results

\* No two jobs that could still serve as evidence are of the same tree, however
\* many items ask for it at once (apply.ts: "no duplica ejecucion").
OneReusableJob ==
    \A j, k \in Jobs : Reusable(j, job[k].fp) /\ Reusable(k, job[k].fp) => j = k

\* A cycle certified, or a track frozen, has for each item a command that ran
\* once and succeeded, and no command of any job is running or still to run.
CertifiedIsBacked ==
    cycle.status \in {"COMPLETE", "FROZEN"} =>
       /\ \A i \in Items : i \in Cited /\ proc[plan.link[i]].command = "ok"
       /\ \A j \in Jobs : ~AnyAlive(j)
       /\ \A j \in Jobs : proc[j].fresh > 0 => sidecar[j] # "nothing"

\* What became of a job is final: a result that arrives after it was given up
\* is not adopted, an exited job does not come back (R1.7: a new attempt is a
\* new job).
EndIsFinal == [][\A j \in Jobs : Ended(j) => job'[j] = job[j]]_vars

\* Every intent the supervisor wrote comes to an end under a freeze as without
\* (runner.ts: the retry of an intent "corre SIEMPRE"), unless its command runs
\* for ever or the cycle is blocked, which stops the runner.
IntentsDrain ==
    \A j \in Jobs : job[j].state \in InFlight ~>
        Ended(j) \/ cycle.status = "BLOCKED" \/ []CommandAlive(j)

OutcomeOf(r) ==
    CASE r.state = "unused" -> "none"
      [] r.state \in Live -> "open"
      [] r.state = "exited" /\ r.verdict = "pass" -> "passed"
      [] r.state = "exited" /\ r.verdict # "pass" -> "failed"
      [] r.state = "orphaned" -> "lost"

Contract == INSTANCE JobContract WITH
    outcome <- [j \in Jobs |-> OutcomeOf(job[j])],
    starts <- [j \in Jobs |-> proc[j].runs],
    cites <- plan.link,
    certified <- cycle.status \in {"COMPLETE", "FROZEN"}

\* The jobs keep the promises of JobContract.
ImplementsJobContract == Contract!Spec
=============================================================================
