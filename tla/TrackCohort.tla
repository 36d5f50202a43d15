---------------------------- MODULE TrackCohort ----------------------------
(***************************************************************************)
(* A cohort of parallel tracks as it runs: the driver of the plan's        *)
(* supervisor (commands/watch/tracks.ts, teardown-driver.ts) executing the *)
(* effects TrackProtocol selects on git and on processes, the wrapper and  *)
(* the `awm watch` of each track (commands/track/supervisor-wrapper.ts,    *)
(* commands/watch/supervisor.ts), the plan's controller with its requests  *)
(* (commands/watch/apply.ts), the runner of the integration job, crashes   *)
(* of the plan's supervisor between an effect and the write that records   *)
(* it, and the faults named by the constant Faults.                        *)
(*                                                                         *)
(* One action is one turn of the loop of reconcileTracks: what it reads of *)
(* the world, the one effect it has on it, and the write of the journal.   *)
(* The turn of a merge is three: what the driver decides on, git merge,    *)
(* and what it finds afterwards.                                           *)
(***************************************************************************)
EXTENDS TrackProtocol

CONSTANTS
    Bindable,     \* tracks whose journal the operator bound to a plan (awm watch --init --plan)
    Workers,      \* tracks that get work done; the others stay at the base commit
    AutoBegin,    \* autoBeginGeneration: TRUE in runSupervisorLoop, FALSE by default
    Disciplined,  \* "commits": the plan's controller commits and reports only in the global QA;
                  \* "requests": it asks for a join or a teardown only where that can be granted
    Faults,       \* faults that may happen, see FaultKinds
    MaxCommits,   \* bound on the commits of the plan's branch
    MaxCrashes    \* bound on the crashes of the plan's supervisor and controller

FaultKinds == {"conflict", "foreign-merge", "foreign-path", "foreign-identity",
               "add-failure", "journal-failure", "wrapper-crash", "watch-crash",
               "integration-failure"}

\* A commit is a branch (0 is the plan's) and its number on that branch.
Base == <<0, 0>>
Foreign == <<0, MaxCommits + 1>>
TrackTip(t) == <<t, 1>>

ASSUME CohortConstants ==
    /\ 0 \notin Tracks
    /\ Bindable \subseteq Tracks /\ Workers \subseteq Tracks
    /\ AutoBegin \in BOOLEAN /\ Disciplined \subseteq {"commits", "requests"}
    /\ Faults \subseteq FaultKinds
    /\ MaxCommits \in Nat /\ MaxCrashes \in Nat
    /\ Cardinality(Tracks) <= MaxCommits  \* room for the merge of every track
    /\ {0} \X (0..MaxCommits + 1) \subseteq Shas
    /\ \A t \in Tracks : TrackTip(t) \in Shas

VARIABLES
    track,     \* of each track: its worktree, its journal, its processes and its supervisor's ref
    repo,      \* the plan's repository: HEAD, MERGE_HEAD, the tracks HEAD contains
    journal,   \* the plan's journal, beyond the variables of TrackProtocol
    sup        \* the plan's supervisor and controller, as processes; merge is how far
               \* mergeFrozenTrack got in the turn under way

world == <<track, repo, journal, sup>>
cohortVars == <<vars, world>>

\* What one track is.  freeze is the state of track-freeze-request, of
\* attemptFreeze and of `frozen` in the track's journal; ref is
\* supervisorProcessRef, which names the wrapper that holds the claim or one
\* that lost it; a foreign sidecar is an identity that cannot be read or has
\* another nonce.
TrackWorld ==
    [worktree : {"none", "ours", "foreign"}, branch : BOOLEAN, descriptor : BOOLEAN,
     journal : {"none", "unbound", "bound"}, head : Shas, dirty : BOOLEAN,
     ref : {"none", "holder", "loser"},
     wrapper : {"off", "started", "claimed", "polling", "launched"},
     sidecar : {"none", "claim", "ready", "foreign"},
     watch : {"off", "starting", "running"}, lock : {"free", "held", "stale"},
     freeze : {"no", "pending", "asked", "checked", "frozen"}]

CohortTypeOK ==
    /\ TypeOK
    /\ track \in [Tracks -> TrackWorld]
    /\ repo \in [head : Shas, mergeHead : Shas \union {NoSha}, merged : SUBSET Tracks]
    /\ journal \in [joins : SUBSET Tracks, teardowns : SUBSET Tracks, qaAsked : BOOLEAN,
                    qaReport : Shas \union {NoSha}, integration : {"none", "live", "pass", "fail"}]
    /\ sup \in [lockHeld : BOOLEAN, controller : BOOLEAN,
                merge : {"no", "asserted", "tried"}, crashes : 0..MaxCrashes]

NoTrack(path) ==
    [worktree |-> path, branch |-> FALSE, descriptor |-> FALSE, journal |-> "none",
     head |-> Base, dirty |-> FALSE, ref |-> "none", wrapper |-> "off",
     sidecar |-> "none", watch |-> "off", lock |-> "free", freeze |-> "no"]

Paths == IF "foreign-path" \in Faults THEN {"none", "foreign"} ELSE {"none"}

CohortInit ==
    /\ Init
    /\ \E path \in [Tracks -> Paths] : track = [t \in Tracks |-> NoTrack(path[t])]
    /\ repo = [head |-> Base, mergeHead |-> NoSha, merged |-> {}]
    /\ journal = [joins |-> {}, teardowns |-> {}, qaAsked |-> FALSE,
                  qaReport |-> NoSha, integration |-> "none"]
    /\ sup = [lockHeld |-> FALSE, controller |-> TRUE, merge |-> "no", crashes |-> 0]

\* The commit of a track is reachable from the plan's HEAD.
InPlan(t) == track[t].head = Base \/ t \in repo.merged

WrapperAlive(t) == track[t].ref = "holder" /\ track[t].wrapper # "off"
LockExists(t) == track[t].worktree = "ours" /\ track[t].lock # "free"
-----------------------------------------------------------------------------
(* The turn of the driver *)

\* A tick of runSupervisorLoop begins a generation before it reconciles the
\* tracks, except where it first settles a merge of its own left open.
OwnMergeOpen == \E t \in In({"JOIN_INTENT"}) : repo.mergeHead = frozenHeadSha[t]

BetweenTurns == sup.merge = "no"

TickReady == BetweenTurns /\ (AutoBegin => sup.controller \/ OwnMergeOpen)

\* reconcileTracks takes a teardown marker first, then a join that became
\* applicable or moot, then the effect that is due.
EffectTurn ==
    /\ TickReady
    /\ journal.teardowns = {}
    /\ \A t \in journal.joins : phase[t] \in PreparingPhases \union {"ARMED"}

\* persist: leaving the final route drops the self-report of QA.
Saved(j) ==
    journal' = IF cohortPhase' = "FALLBACK_PENDING" THEN [j EXCEPT !.qaReport = NoSha] ELSE j

\* The supervisor dies after an effect and before it records it; a new one
\* finds the journal as it was and holds no lock.
Lost ==
    /\ sup.crashes < MaxCrashes
    /\ sup' = [sup EXCEPT !.lockHeld = FALSE, !.merge = "no", !.crashes = @ + 1]
    /\ UNCHANGED <<vars, journal>>

Recorded(Step) == Step /\ Saved(journal) /\ UNCHANGED sup

\* An effect the reducer applies without touching the world.
Drained(Step) == EffectTurn /\ Recorded(Step) /\ UNCHANGED <<track, repo>>

SetTrack(t, r) == track' = [track EXCEPT ![t] = r]
-----------------------------------------------------------------------------
(* PREPARING: runCreateWorktree, runCreateTrackJournal, runSpawnTrackSupervisor *)

OwnWorktree(r) == [r EXCEPT !.worktree = "ours", !.branch = TRUE]

AddWorktree(t) ==
    /\ EffectTurn /\ PreparingTrack(t) /\ phase[t] = "PREPARE_INTENT"
    /\ track[t].worktree = "none" /\ ~track[t].branch
    /\ SetTrack(t, OwnWorktree(track[t]))
    /\ Recorded(WorktreeObserved(t, TRUE)) \/ Lost
    /\ UNCHANGED repo

\* What ownedWorktreeExists and foreignPathExists found needs no effect.
ObserveWorktree(t) ==
    /\ track[t].worktree # "none"
    /\ Drained(WorktreeObserved(t, track[t].worktree = "ours"))

\* `git worktree add` fails, or .awm is not ignored there and the worktree is
\* discarded, which leaves its branch.
AddWorktreeFails(t) ==
    /\ EffectTurn /\ phase[t] = "PREPARE_INTENT"
    /\ track[t].worktree = "none"
    /\ track[t].branch \/ "add-failure" \in Faults
    /\ \E b \in {track[t].branch, TRUE} : SetTrack(t, [track[t] EXCEPT !.branch = b])
    /\ Recorded(PrepareFailed(t))
    /\ UNCHANGED repo

\* Mutant: a journal that is there already is waited for and not taken.
InitTrackJournalOnce(t) ==
    LET created == [track[t] EXCEPT !.journal = IF t \in Bindable THEN "bound" ELSE "unbound"]
    IN  /\ EffectTurn /\ PreparingTrack(t) /\ phase[t] = "WORKTREE_CREATED"
        /\ track[t].journal = "none"
        /\ \/ /\ SetTrack(t, [created EXCEPT !.descriptor = TRUE])
              /\ Recorded(CreateTrackJournal(t)) \/ Lost
           \/ SetTrack(t, created) /\ Lost
        /\ UNCHANGED repo

\* initTrackJournal never overwrites a journal; the one it creates itself has
\* no plan binding.  A crash may come between the journal and the descriptor.
InitTrackJournal(t) ==
    LET created == [track[t] EXCEPT !.journal = IF t \in Bindable THEN "bound" ELSE "unbound"]
    IN  /\ EffectTurn /\ PreparingTrack(t) /\ phase[t] = "WORKTREE_CREATED"
        /\ \/ /\ SetTrack(t, [created EXCEPT !.descriptor = TRUE])
              /\ Recorded(CreateTrackJournal(t)) \/ Lost
           \/ SetTrack(t, created) /\ Lost
        /\ UNCHANGED repo

\* The journal cannot be written or is corrupt or another track's; or it was
\* created and the descriptor cannot be.  Not part of Driver: that a failure
\* may come is no reason why the turn should end.
InitTrackJournalFails(t) ==
    /\ "journal-failure" \in Faults
    /\ EffectTurn /\ PreparingTrack(t) /\ phase[t] = "WORKTREE_CREATED"
    /\ \E j \in {track[t].journal, IF t \in Bindable THEN "bound" ELSE "unbound"} :
          SetTrack(t, [track[t] EXCEPT !.journal = j])
    /\ Recorded(PrepareFailed(t))
    /\ UNCHANGED repo

\* The claim is absent: spawn.  After a crash before the ref was recorded
\* there may be two wrappers; one of them takes the claim.
SpawnSupervisor(t) ==
    /\ EffectTurn /\ PreparingTrack(t) /\ phase[t] = "SUPERVISOR_STARTING"
    /\ track[t].sidecar = "none" /\ track[t].ref = "none"
    /\ \/ /\ \E r \in (IF track[t].wrapper = "off" THEN {"holder"} ELSE {"holder", "loser"}) :
                SetTrack(t, [track[t] EXCEPT !.wrapper = "started", !.ref = r])
          /\ UNCHANGED <<vars, journal, sup>>
       \/ SetTrack(t, [track[t] EXCEPT !.wrapper = "started"]) /\ Lost
    /\ UNCHANGED repo

\* Mutant: a claim is taken for readiness.
ObserveClaim(t) ==
    track[t].sidecar # "none" /\ Drained(SupervisorObserved(t, TRUE))

\* Ready arms the track and an identity that is not of the intent blocks it;
\* a claim without an identity is waited for.
ObserveSupervisor(t) ==
    /\ track[t].sidecar \in {"ready", "foreign"}
    /\ Drained(SupervisorObserved(t, track[t].sidecar = "ready"))

PrepareDriver(t) ==
    \/ Drained(PersistPrepareIntent(t))
    \/ AddWorktree(t) \/ ObserveWorktree(t) \/ AddWorktreeFails(t)
    \/ InitTrackJournal(t)
    \/ Drained(PersistSupervisorIntent(t))
    \/ SpawnSupervisor(t) \/ ObserveSupervisor(t)
-----------------------------------------------------------------------------
(* ACTIVE and JOINING: markers, runFreezeTrack, runMergeTrack *)

TakeJoin(t) ==
    /\ TickReady /\ journal.teardowns = {} /\ t \in journal.joins
    /\ phase[t] \notin PreparingPhases \union {"ARMED"}
    /\ JoinRequested(t) \/ (phase[t] # "ACTIVE" /\ UNCHANGED vars)
    /\ Saved([journal EXCEPT !.joins = @ \ {t}])
    /\ UNCHANGED <<track, repo, sup>>

EmitFreezeRequest(t) ==
    /\ EffectTurn /\ FreezeDue(t)
    /\ track[t].freeze = "no"
    /\ SetTrack(t, [track[t] EXCEPT !.freeze = "pending"])
    /\ UNCHANGED <<vars, repo, journal, sup>>

\* The plan accepts what the track recorded once the wrapper is gone and the
\* track's lock is released.
AcceptFreeze(t) ==
    /\ track[t].freeze = "frozen"
    /\ ~WrapperAlive(t) /\ ~LockExists(t)
    /\ Drained(FreezeObserved(t, track[t].head))

\* The first touch of a process: pause the controller, take integration.lock.
EnsureIntegrationLock(t) ==
    /\ EffectTurn /\ MergeDue(t)
    /\ ~sup.lockHeld
    /\ sup' = [sup EXCEPT !.lockHeld = TRUE, !.controller = FALSE]
    /\ UNCHANGED <<vars, track, repo, journal>>

\* Mutant: no MERGE_HEAD is taken for a merge that succeeded.
NoMergeOpen(t) == repo.mergeHead = NoSha

TrackIsAncestor(t) == repo.mergeHead = NoSha /\ InPlan(t)

Decision(t) == JoinDecision(t, repo.mergeHead, repo.head, TrackIsAncestor(t))

\* Mutant: the lock is not acquired again after a crash.
MergingUnlocked(t, decision) ==
    /\ EffectTurn /\ MergeDue(t)
    /\ Decision(t) = decision
    /\ UNCHANGED track

\* A join in the state the last observation of it left; runMergeTrack.
Merging(t, decision) ==
    /\ EffectTurn /\ MergeDue(t) /\ sup.lockHeld
    /\ Decision(t) = decision
    /\ UNCHANGED track

NextCommit == <<0, repo.head[2] + 1>>

\* gatherJoinObservation, decideJoinReconciliation and assertPlanHead.  They
\* only read: what happens between two of them either ends the turn as if it
\* had come before the first or is seen by git merge.
BeginMerge(t) ==
    /\ Merging(t, "retry-merge")
    /\ sup' = [sup EXCEPT !.merge = "asserted"]
    /\ UNCHANGED <<vars, repo, journal>>

\* git merge, onto whatever HEAD is by now.
GitMerge(t, repoAfter) ==
    /\ sup.merge = "asserted" /\ MergeDue(t)
    /\ repo' = repoAfter
    /\ sup' = [sup EXCEPT !.merge = "tried"]
    /\ UNCHANGED <<vars, track, journal>>

MergeTrack(t) ==
    /\ repo.mergeHead = NoSha
    /\ GitMerge(t, [repo EXCEPT !.head = NextCommit, !.merged = @ \union {t}])

\* Mutant: MERGE_HEAD is the name of the track's branch and not its commit.
MergeConflictsByName(t) ==
    /\ "conflict" \in Faults
    /\ repo.mergeHead = NoSha
    /\ GitMerge(t, [repo EXCEPT !.mergeHead = <<t>>])

MergeConflicts(t) ==
    /\ "conflict" \in Faults
    /\ repo.mergeHead = NoSha
    /\ GitMerge(t, [repo EXCEPT !.mergeHead = frozenHeadSha[t]])

\* git refuses to merge beside a merge somebody else began.
MergeRefused(t) ==
    /\ repo.mergeHead # NoSha
    /\ GitMerge(t, repo)

\* The repository is read again, and only that decides; an intent to be
\* retried or a merge to be aborted is left to the next turn.
ObserveMerge(t) ==
    /\ sup.merge = "tried" /\ MergeDue(t)
    /\ \/ JoinObserved(t, repo.mergeHead, repo.head, TrackIsAncestor(t))
       \/ Decision(t) \in {"retry-merge", "abort-own-merge"} /\ UNCHANGED vars
    /\ Saved(journal)
    /\ sup' = [sup EXCEPT !.merge = "no"]
    /\ UNCHANGED <<track, repo>>

AbortOwnMerge(t) ==
    /\ Merging(t, "abort-own-merge")
    /\ repo' = [repo EXCEPT !.mergeHead = NoSha]
    /\ UNCHANGED <<vars, journal, sup>> \/ Lost

\* A merge already there is accepted, anything else blocks.
SettleMerge(t) ==
    /\ Merging(t, "accept-merge") \/ Merging(t, "block")
    /\ Recorded(JoinObserved(t, repo.mergeHead, repo.head, TrackIsAncestor(t)))
    /\ UNCHANGED repo

JoinDriver(t) ==
    \/ Drained(ActivateTrack(t))
    \/ TakeJoin(t)
    \/ EmitFreezeRequest(t) \/ AcceptFreeze(t)
    \/ Drained(PersistJoinIntent(t))
    \/ EnsureIntegrationLock(t)
    \/ BeginMerge(t) \/ MergeTrack(t) \/ MergeConflicts(t) \/ MergeRefused(t)
    \/ ObserveMerge(t) \/ AbortOwnMerge(t) \/ SettleMerge(t)
-----------------------------------------------------------------------------
(* The final route: runRequestGlobalQa, runRequestFinalIntegration,        *)
(* runRunFinalInterlock.                                                   *)

RequestGlobalQa ==
    /\ EffectTurn /\ GlobalQaDue
    /\ journal.qaReport = NoSha /\ ~journal.qaAsked
    /\ journal' = [journal EXCEPT !.qaAsked = TRUE]
    /\ UNCHANGED <<vars, track, repo, sup>>

\* The self-report counts only where HEAD and a clean tree bear it out.
AcceptGlobalQa ==
    /\ journal.qaReport = repo.head
    /\ repo.mergeHead = NoSha
    /\ Drained(GlobalQaPass(repo.head))

PauseForIntegration ==
    /\ EffectTurn /\ FinalIntegrationDue
    /\ journal.integration = "none"
    /\ sup.controller
    /\ sup' = [sup EXCEPT !.controller = FALSE]
    /\ UNCHANGED <<vars, track, repo, journal>>

\* Mutant: the integration job is requested under a live controller.
RequestIntegrationUnpaused ==
    /\ EffectTurn /\ FinalIntegrationDue
    /\ journal.integration = "none"
    /\ repo.mergeHead = NoSha
    /\ journal' = [journal EXCEPT !.integration = "live"]
    /\ UNCHANGED <<vars, track, repo, sup>>

RequestIntegration ==
    /\ EffectTurn /\ FinalIntegrationDue
    /\ journal.integration = "none"
    /\ ~sup.controller
    /\ repo.mergeHead = NoSha
    /\ journal' = [journal EXCEPT !.integration = "live"]
    /\ UNCHANGED <<vars, track, repo, sup>>

AcceptIntegration ==
    journal.integration = "pass" /\ Drained(IntegrationPass(repo.head))

\* The gate is green: the caller hands the reducer the head of QA itself, so
\* the reducer's own check of the head never fails here.
RunFinalInterlock ==
    /\ EffectTurn
    /\ journal.integration = "pass"
    /\ InterlockPass
    /\ Saved(journal)
    /\ sup' = [sup EXCEPT !.lockHeld = FALSE]
    /\ UNCHANGED <<track, repo>>

FinalDriver ==
    \/ Drained(ActivateCohort)
    \/ RequestGlobalQa \/ AcceptGlobalQa
    \/ PauseForIntegration \/ RequestIntegration \/ AcceptIntegration
    \/ RunFinalInterlock
-----------------------------------------------------------------------------
(* Teardown: the marker, then runBeginTeardown *)

\* Mutant: the marker is not cleared.
TakeTeardownKept(t) ==
    /\ TickReady /\ t \in journal.teardowns
    /\ \/ TeardownRequested
       \/ cohortPhase \in Terminal \union {"FALLBACK_PENDING"} /\ UNCHANGED vars
    /\ Saved(journal)
    /\ sup' = IF cohortPhase = "FINAL_INTERLOCK" THEN [sup EXCEPT !.lockHeld = FALSE] ELSE sup
    /\ UNCHANGED <<track, repo>>

TakeTeardown(t) ==
    /\ TickReady /\ t \in journal.teardowns
    /\ \/ TeardownRequested
       \/ cohortPhase \in Terminal \union {"FALLBACK_PENDING"} /\ UNCHANGED vars
    /\ Saved([journal EXCEPT !.teardowns = @ \ {t}])
    /\ sup' = IF cohortPhase = "FINAL_INTERLOCK" THEN [sup EXCEPT !.lockHeld = FALSE] ELSE sup
    /\ UNCHANGED <<track, repo>>

\* gatherTeardownObservation: each fact is read in the phase that needs it.
Gathered(t) ==
    [foreign |-> /\ phase[t] = "SUPERVISOR_STOPPED"
                 /\ track[t].worktree # "none"
                 /\ track[t].worktree = "foreign" \/ ~track[t].descriptor,
     supervisorAlive |-> WrapperAlive(t) \/ LockExists(t),
     worktreeExists |-> track[t].worktree = "ours",
     branchExists |-> track[t].branch]

TeardownAt(t, p) == EffectTurn /\ TeardownDue(t) /\ phase[t] = p

\* accept-supervisor-stopped, mark-removed and block-foreign.
ObserveTeardown(t) ==
    phase[t] # "TEARDOWN_REQUESTED" /\ Drained(TeardownObserved(t, Gathered(t)))

\* The ref names the wrapper: its group is terminated (or is gone already)
\* and the lock that may be left is removed.  Without a ref nothing is done.
StopOwnSupervisor(t) ==
    LET stopped == IF track[t].ref = "none" THEN track[t]
                   ELSE [track[t] EXCEPT !.lock = "free",
                                         !.wrapper = IF WrapperAlive(t) THEN "off" ELSE @]
    IN  /\ TeardownAt(t, "TEARDOWN_INTENT")
        /\ Gathered(t).supervisorAlive
        /\ SetTrack(t, stopped)
        /\ Recorded(TeardownObserved(t, [Gathered(t) EXCEPT !.supervisorAlive = FALSE])) \/ Lost
        /\ UNCHANGED repo

WithoutWorktree(r) ==
    [r EXCEPT !.worktree = "none", !.descriptor = FALSE, !.journal = "none",
              !.lock = "free", !.sidecar = "none", !.freeze = "no"]

\* Mutant: git worktree remove --force.
RemoveWorktreeForced(t) ==
    /\ TeardownAt(t, "SUPERVISOR_STOPPED")
    /\ Gathered(t).worktreeExists /\ ~Gathered(t).foreign
    /\ SetTrack(t, WithoutWorktree(track[t]))
    /\ Recorded(TeardownObserved(t, [Gathered(t) EXCEPT !.worktreeExists = FALSE]))
    /\ UNCHANGED repo

RemoveWorktree(t) ==
    /\ TeardownAt(t, "SUPERVISOR_STOPPED")
    /\ Gathered(t).worktreeExists /\ ~Gathered(t).foreign
    /\ \/ /\ ~track[t].dirty
          /\ SetTrack(t, WithoutWorktree(track[t]))
          /\ Recorded(TeardownObserved(t, [Gathered(t) EXCEPT !.worktreeExists = FALSE])) \/ Lost
       \/ /\ track[t].dirty
          /\ Recorded(TeardownFailed(t))
          /\ UNCHANGED track
    /\ UNCHANGED repo

\* Mutant: git branch -D.
RemoveBranchForced(t) ==
    /\ TeardownAt(t, "WORKTREE_REMOVED")
    /\ track[t].branch
    /\ SetTrack(t, [track[t] EXCEPT !.branch = FALSE])
    /\ Recorded(TeardownObserved(t, [Gathered(t) EXCEPT !.branchExists = FALSE]))
    /\ UNCHANGED repo

\* `git branch -d` refuses a branch that HEAD does not contain.
RemoveBranch(t) ==
    /\ TeardownAt(t, "WORKTREE_REMOVED")
    /\ track[t].branch
    /\ \/ /\ InPlan(t)
          /\ SetTrack(t, [track[t] EXCEPT !.branch = FALSE])
          /\ Recorded(TeardownObserved(t, [Gathered(t) EXCEPT !.branchExists = FALSE])) \/ Lost
       \/ /\ ~InPlan(t)
          /\ Recorded(TeardownFailed(t))
          /\ UNCHANGED track
    /\ UNCHANGED repo

TeardownDriver(t) ==
    \/ TakeTeardown(t)
    \/ Drained(BeginTeardown(t))
    \/ ObserveTeardown(t)
    \/ StopOwnSupervisor(t) \/ RemoveWorktree(t) \/ RemoveBranch(t)

Driver ==
    \/ FinalDriver
    \/ Drained(EnterSerial)
    \/ \E t \in Tracks : PrepareDriver(t) \/ JoinDriver(t) \/ TeardownDriver(t)
-----------------------------------------------------------------------------
(* The wrapper of a track's supervisor: runSupervisorWrapper *)

LaunchPhases == Frozen \union {"ACTIVE", "JOIN_REQUESTED"}

Aside == UNCHANGED <<vars, repo, journal, sup>>

\* Claim, identity, and then readiness.  The identity may still replace one
\* that somebody else left.
WrapperPrepares(t) ==
    /\ track[t].worktree = "ours"
    /\ \/ /\ track[t].wrapper = "started" /\ track[t].sidecar = "none"
          /\ SetTrack(t, [track[t] EXCEPT !.wrapper = "claimed", !.sidecar = "claim"])
       \/ /\ track[t].wrapper = "claimed"
          /\ \E s \in {"ready"} \union ({"foreign"} \intersect {track[t].sidecar}) :
                SetTrack(t, [track[t] EXCEPT !.wrapper = "polling", !.sidecar = s])
    /\ Aside

\* `awm watch` is spawned detached: its process group is not the wrapper's.
WrapperLaunches(t) ==
    /\ track[t].wrapper = "polling"
    /\ phase[t] \in LaunchPhases
    /\ SetTrack(t, [track[t] EXCEPT !.wrapper = "launched",
                                    !.watch = IF @ = "off" THEN "starting" ELSE @])
    /\ Aside

\* It saw the lock or stopped waiting for it, or the plan gave the track up,
\* or somebody else holds the claim, or its directory is gone.
WrapperExits(t) ==
    /\ \/ track[t].wrapper = "launched"
       \/ track[t].wrapper = "started" /\ track[t].sidecar # "none"
       \/ track[t].wrapper = "polling" /\ phase[t] \in {"BLOCKED", "REMOVED"}
       \/ track[t].wrapper \in {"started", "claimed"} /\ track[t].worktree # "ours"
    /\ SetTrack(t, [track[t] EXCEPT !.wrapper = "off"])
    /\ Aside

WrapperCrashes(t) ==
    /\ "wrapper-crash" \in Faults
    /\ track[t].wrapper # "off"
    /\ SetTrack(t, [track[t] EXCEPT !.wrapper = "off"])
    /\ Aside

\* The sidecars are damaged, or a wrapper of another intent has written them.
\* Nothing reads them once the track is armed.
ForeignIdentity(t) ==
    /\ "foreign-identity" \in Faults
    /\ track[t].worktree = "ours"
    /\ cohortPhase = "PREPARING" /\ phase[t] \in PreparingPhases
    /\ SetTrack(t, [track[t] EXCEPT !.sidecar = "foreign"])
    /\ Aside

Wrapper(t) == WrapperPrepares(t) \/ WrapperLaunches(t) \/ WrapperExits(t)
-----------------------------------------------------------------------------
(* The `awm watch` of a track: runSupervisorLoop, tick, attemptFreeze *)

\* A journal without a plan binding is refused before the lock is taken.
WatchStarts(t) ==
    /\ track[t].watch = "starting"
    /\ SetTrack(t, IF track[t].journal = "bound"
                   THEN [track[t] EXCEPT !.watch = "running", !.lock = "held"]
                   ELSE [track[t] EXCEPT !.watch = "off"])
    /\ Aside

WatchTakesFreeze(t) ==
    /\ track[t].watch = "running" /\ track[t].worktree = "ours"
    /\ track[t].freeze = "pending"
    /\ SetTrack(t, [track[t] EXCEPT !.freeze = "asked"])
    /\ Aside

\* The request was stamped with the token of a generation since replaced.
WatchRejectsFreeze(t) ==
    /\ track[t].watch = "running" /\ track[t].worktree = "ours"
    /\ track[t].freeze = "pending"
    /\ SetTrack(t, [track[t] EXCEPT !.freeze = "no"])
    /\ Aside

\* attemptFreeze: first no live job, the gate and a clean worktree; then the
\* track's controller is terminated, with its grace, and HEAD is read.
CheckFreeze(t) ==
    /\ track[t].watch = "running" /\ track[t].worktree = "ours"
    /\ track[t].freeze = "asked"
    /\ ~track[t].dirty
    /\ SetTrack(t, [track[t] EXCEPT !.freeze = "checked"])
    /\ Aside

FinishFreeze(t) ==
    /\ track[t].watch = "running" /\ track[t].worktree = "ours"
    /\ track[t].freeze = "checked"
    /\ SetTrack(t, [track[t] EXCEPT !.freeze = "frozen"])
    /\ Aside

\* Frozen: release the lock and exit.  Its directory gone: the tick throws.
WatchExits(t) ==
    /\ \/ track[t].watch = "running" /\ track[t].freeze = "frozen"
       \/ track[t].watch # "off" /\ track[t].worktree # "ours"
    /\ SetTrack(t, [track[t] EXCEPT !.watch = "off", !.lock = "free"])
    /\ Aside

WatchCrashes(t) ==
    /\ "watch-crash" \in Faults
    /\ track[t].watch = "running" /\ track[t].worktree = "ours"
    /\ SetTrack(t, [track[t] EXCEPT !.watch = "off",
                                    !.lock = IF @ = "held" THEN "stale" ELSE @,
                                    !.freeze = IF @ = "checked" THEN "asked" ELSE @])
    /\ Aside

\* Nothing in the code starts it again: the operator runs `awm watch` there.
OperatorRestartsWatch(t) ==
    /\ "watch-crash" \in Faults
    /\ track[t].watch = "off" /\ track[t].lock = "stale" /\ track[t].worktree = "ours"
    /\ SetTrack(t, [track[t] EXCEPT !.watch = "starting"])
    /\ Aside

Watch(t) == WatchStarts(t) \/ CheckFreeze(t) \/ FinishFreeze(t) \/ WatchExits(t)

\* Work in a track's worktree, by its own controller or by the plan's.
Work(t) ==
    /\ t \in Workers
    /\ track[t].worktree = "ours" /\ track[t].freeze # "frozen"
    /\ phase[t] \in {"ACTIVE", "JOIN_REQUESTED"} \/ track[t].watch = "running"
    /\ track[t].head = Base
    /\ \/ ~track[t].dirty /\ SetTrack(t, [track[t] EXCEPT !.dirty = TRUE])
       \/ track[t].dirty /\ SetTrack(t, [track[t] EXCEPT !.dirty = FALSE, !.head = TrackTip(t)])
    /\ Aside
-----------------------------------------------------------------------------
(* The plan's controller, the runner, and faults of the plan's side *)

\* The supervisor takes requests of a live generation, between its turns.
Requests == sup.controller /\ BetweenTurns

AddTrack(t) ==
    Requests /\ DeclareTrack(t, repo.head) /\ UNCHANGED world

\* track-join-request, track-teardown-request.
RequestJoin(t) ==
    /\ Requests /\ t \in Declared /\ t \notin journal.joins
    /\ "requests" \in Disciplined => phase[t] = "ACTIVE"
    /\ journal' = [journal EXCEPT !.joins = @ \union {t}]
    /\ UNCHANGED <<vars, track, repo, sup>>

RequestTeardown(t) ==
    /\ Requests /\ t \in Declared /\ cohortPhase # "NONE"
    /\ "requests" \in Disciplined =>
          cohortPhase \notin Terminal \union {"FALLBACK_PENDING"} /\ journal.teardowns = {}
    /\ journal' = [journal EXCEPT !.teardowns = @ \union {t}]
    /\ UNCHANGED <<vars, track, repo, sup>>

\* track-finalize-request: refused by the CLI on a dirty tree.
ReportQa ==
    /\ Requests /\ repo.mergeHead = NoSha
    /\ journal.qaReport # repo.head
    /\ "commits" \in Disciplined => GlobalQaDue /\ journal.qaAsked
    /\ journal' = [journal EXCEPT !.qaReport = repo.head]
    /\ UNCHANGED <<vars, track, repo, sup>>

\* The bound leaves room for the merges still to come.
ControllerCommits ==
    /\ sup.controller /\ repo.mergeHead = NoSha
    /\ "commits" \in Disciplined => (GlobalQaDue /\ journal.qaAsked /\ journal.qaReport = NoSha)
    /\ repo.head[2] + Cardinality(Tracks \ repo.merged) < MaxCommits
    /\ repo' = [repo EXCEPT !.head = NextCommit]
    /\ UNCHANGED <<vars, track, journal, sup>>

Finalizes == cohortPhase \in Finalizing

\* tick: a generation is begun and its controller launched.  The guard on the
\* final route belongs to one of the two places that do it.
LaunchController ==
    /\ ~sup.controller /\ BetweenTurns
    /\ AutoBegin \/ ~Finalizes
    /\ sup' = [sup EXCEPT !.controller = TRUE]
    /\ UNCHANGED <<vars, track, repo, journal>>

IntegrationEnds ==
    /\ journal.integration = "live"
    /\ \E v \in {"pass"} \union (IF "integration-failure" \in Faults THEN {"fail"} ELSE {}) :
          journal' = [journal EXCEPT !.integration = v]
    /\ UNCHANGED <<vars, track, repo, sup>>

\* Of the supervisor with nothing unrecorded, or of the controller.
Crash ==
    /\ sup.crashes < MaxCrashes
    /\ \/ sup' = [sup EXCEPT !.lockHeld = FALSE, !.merge = "no", !.crashes = @ + 1]
       \/ sup.controller /\ sup' = [sup EXCEPT !.controller = FALSE, !.crashes = @ + 1]
    /\ UNCHANGED <<vars, track, repo, journal>>

ForeignMerge ==
    /\ "foreign-merge" \in Faults
    /\ repo.mergeHead = NoSha
    /\ repo' = [repo EXCEPT !.mergeHead = Foreign]
    /\ UNCHANGED <<vars, track, journal, sup>>

Controller ==
    \/ ReportQa \/ ControllerCommits
    \/ \E t \in Tracks : AddTrack(t) \/ RequestJoin(t) \/ RequestTeardown(t)

CohortNextStep ==
    \/ Driver \/ Controller \/ LaunchController \/ IntegrationEnds
    \/ Crash \/ ForeignMerge
    \/ \E t \in Tracks :
          \/ InitTrackJournalFails(t) \/ ForeignIdentity(t)
          \/ Wrapper(t) \/ WrapperCrashes(t)
          \/ Watch(t) \/ WatchTakesFreeze(t) \/ WatchRejectsFreeze(t)
          \/ WatchCrashes(t) \/ OperatorRestartsWatch(t)
          \/ Work(t)

CohortSpec == CohortInit /\ [][CohortNextStep]_cohortVars

\* The loop of the plan's supervisor ticks, the processes of a track run, jobs
\* end, and the controllers do the work they were launched for.  Nothing is
\* assumed of crashes, faults or requests of teardown; a freeze request may be
\* rejected as stale, but not for ever.
FairCohortSpec ==
    /\ CohortSpec
    /\ WF_cohortVars(Driver)
    /\ WF_cohortVars(LaunchController) /\ WF_cohortVars(IntegrationEnds)
    /\ WF_cohortVars(ReportQa)
    /\ \A t \in Tracks :
          /\ WF_cohortVars(Wrapper(t)) /\ WF_cohortVars(Watch(t))
          /\ SF_cohortVars(WatchTakesFreeze(t))
          /\ SF_cohortVars(RequestJoin(t))
          /\ WF_cohortVars(track[t].dirty /\ Work(t))
-----------------------------------------------------------------------------
(* Safety *)

\* A track the journal calls merged is contained in the plan's HEAD, and the
\* commit recorded at its freeze is the one its branch is at: what QA and the
\* integration job see is what the tracks froze, after any crash.
MergedIsInPlan ==
    /\ \A t \in In({"MERGED_UNVERIFIED", "JOINED"}) : InPlan(t)
    /\ \A t \in In(Frozen) :
          track[t].freeze = "frozen" /\ track[t].head = frozenHeadSha[t]

\* C1: no track's supervisor runs before the supervisor of every track of the
\* cohort has proved itself ready.
ArmedBarrier ==
    \A t \in Tracks : track[t].watch # "off" =>
        \A u \in Declared : track[u].worktree = "ours" => track[u].sidecar = "ready"

\* R4.10: a commit of a track is never lost: its branch stays until the plan
\* contains it; and a cohort that went back to serial execution left neither
\* worktree nor branch of its own behind.
CommittedWorkSurvives ==
    /\ \A t \in Tracks : track[t].head # Base => track[t].branch \/ t \in repo.merged
    /\ cohortPhase = "SERIAL" =>
          \A t \in Tracks : track[t].worktree # "ours" /\ ~track[t].branch

\* R4.6, R6.8: what is not ours is never touched: a path that was there before,
\* a merge somebody else began.  Uncommitted work is never thrown away.
ForeignNeverTouched ==
    [][ /\ \A t \in Tracks :
              /\ track[t].worktree = "foreign" => track'[t].worktree = "foreign"
              /\ track[t].dirty /\ track'[t].worktree # "ours" => UNCHANGED track[t]
        /\ repo.mergeHead = Foreign => UNCHANGED repo.mergeHead ]_cohortVars

\* C7: the plan's branch receives one track at a time, the one whose intent is
\* on record, after those before it, only while this supervisor holds the
\* integration lock and the whole cohort is frozen; and onto the HEAD the
\* previous merge left, where the plan's controller commits in the global QA
\* only.  (Otherwise it may commit between assertPlanHead and git merge.)
MergesUnderLease ==
    [][ \A t \in repo'.merged \ repo.merged :
          /\ sup.lockHeld
          /\ AllIn(Frozen) /\ phase[t] = "JOIN_INTENT"
          /\ \A u \in Declared : u < t => InPlan(u)
          /\ "commits" \in Disciplined => repo.head = planHeadSha ]_cohortVars

\* R7.2, R7.4: the cohort completes only at the HEAD QA certified and the
\* integration job ran on, with the commits of every track in it.
CompleteIsCertified ==
    [][ cohortPhase' = "COMPLETE" /\ cohortPhase # "COMPLETE" =>
          /\ repo.head = globalQaHeadSha
          /\ \A t \in Declared : InPlan(t) ]_cohortVars
-----------------------------------------------------------------------------
(* Liveness *)

\* The wrapper of a track is gone before it was ready: nothing starts another.
Stranded(t) ==
    /\ phase[t] = "SUPERVISOR_STARTING" /\ track[t].wrapper = "off"
    /\ track[t].sidecar = "claim" \/ (track[t].sidecar = "none" /\ track[t].ref # "none")

\* C9: the preparation of a cohort ends, with every track ready or the cohort
\* falling back, whatever fails and whenever the supervisor dies; it waits for
\* an operator only where a track is blocked or its wrapper died unready.
BootstrapSettles ==
    cohortPhase = "PREPARING" ~>
        \/ cohortPhase # "PREPARING"
        \/ \E t \in Tracks : phase[t] = "BLOCKED" \/ Stranded(t)

\* C9: a fallback converges: the cohort becomes serial or is blocked, unless a
\* track was blocked before it.
TeardownConverges ==
    cohortPhase = "FALLBACK_PENDING" ~>
        cohortPhase \in {"SERIAL", "BLOCKED"} \/ In({"BLOCKED"}) # {}
-----------------------------------------------------------------------------
(* What the repository says and the code does not do: see README *)

\* parallel-tracks.md: "join -> COMPLETE with a live supervisor": an active
\* cohort completes unless a teardown is asked for.
ActiveCompletes ==
    cohortPhase = "ACTIVE" ~> cohortPhase \in {"COMPLETE", "FALLBACK_PENDING"}

\* core/tracks/git.ts: a HEAD that moved "bloquea en vez de mergear a ciegas".
MergesOntoExpectedHead ==
    [][ repo'.merged # repo.merged => repo.head = planHeadSha ]_cohortVars

\* supervisor.ts: "NADIE debe relanzar el controller" while the cohort runs
\* the canonical integration job or waits for the interlock.
NobodyRelaunches ==
    [][ Finalizes /\ ~sup.controller => ~sup'.controller ]_cohortVars

\* teardown-driver.ts: the worktree of a track is touched only with its
\* "supervisor propio muerto confirmado Y lock ausente".
StoppedIsStopped ==
    \A t \in In({"SUPERVISOR_STOPPED", "WORKTREE_REMOVED", "BRANCH_REMOVED", "REMOVED"}) :
        track[t].watch # "running"

\* supervisor.ts: `frozen` is persisted only where a clean worktree is
\* demonstrable.
FrozenIsClean ==
    \A t \in Tracks : track[t].freeze = "frozen" => ~track[t].dirty
=============================================================================
