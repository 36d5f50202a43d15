------------------------- MODULE TrackCohortProofs -------------------------
(***************************************************************************)
(* Theorems of TrackCohort for every set of tracks, every choice of faults *)
(* and every bound on commits and crashes.                                 *)
(***************************************************************************)
EXTENDS TrackCohort, TrackProtocolProofs

-----------------------------------------------------------------------------
(* The inductive invariant                                                 *)

SupWorld ==
    [lockHeld : BOOLEAN, controller : BOOLEAN, merge : {"no", "asserted", "tried"},
     crashes : 0..MaxCrashes]

NoDirectory == {"WORKTREE_REMOVED", "BRANCH_REMOVED", "REMOVED"}

\* What the phase of a track says of its place on the disk: nothing of it is
\* there before the driver adds it, and what teardown proved gone stays gone.
PlaceOfPhase(t) ==
    /\ phase[t] \in {"ABSENT", "DECLARED"} =>
          track[t].worktree # "ours" /\ ~track[t].branch
    /\ phase[t] \in NoDirectory => track[t].worktree # "ours"
    /\ phase[t] \in {"BRANCH_REMOVED", "REMOVED"} => ~track[t].branch

\* Work of a track is on its branch, in its own worktree, until it is merged.
WorkIsOurs(t) ==
    /\ track[t].worktree = "ours" => track[t].branch
    /\ track[t].dirty => track[t].worktree = "ours"
    /\ track[t].head \in {Base, TrackTip(t)}
    /\ track[t].head # Base => track[t].branch \/ t \in repo.merged

\* A ready supervisor is never taken back to a claim: the one wrapper that has
\* still to write its claim finds no readiness there.
ReadyStays(t) ==
    /\ phase[t] \in {"ABSENT", "DECLARED", "PREPARE_INTENT"} => track[t].wrapper = "off"
    /\ track[t].wrapper = "started" /\ track[t].worktree = "ours" => track[t].sidecar # "ready"
    /\ phase[t] \in Working => track[t].sidecar = "ready"

FrozenStays(t) ==
    /\ phase[t] \in Frozen => track[t].freeze = "frozen" /\ track[t].head = frozenHeadSha[t]
    /\ phase[t] \in {"MERGED_UNVERIFIED", "JOINED"} => InPlan(t)

\* A merge that is under way is of the track whose intent is on record, under
\* the lease; it is not in the plan yet.
Underway ==
    sup.merge = "asserted" =>
        /\ sup.lockHeld
        /\ \E t \in Tracks :
              /\ MergeDue(t) /\ t \notin repo.merged
              /\ "commits" \in Disciplined => repo.head = planHeadSha

TrackInv(t) == PlaceOfPhase(t) /\ WorkIsOurs(t) /\ ReadyStays(t) /\ FrozenStays(t)

Runs(t) == track[t].watch # "off" \/ track[t].lock # "free"

\* Past the barrier: it was activated, or its watch ran and may run again.
Ahead(t) == Runs(t) \/ phase[t] \in Working \ {"ARMED"}

Started == \E t \in Tracks : Ahead(t)

Barrier ==
    /\ cohortPhase \in {"NONE", "PREPARING"} => \A t \in Tracks : ~Runs(t)
    /\ Started => \A t \in Tracks : track[t].worktree = "ours" => track[t].sidecar = "ready"

\* The commits of the plan's branch and the merges still to come are in bounds.
Room ==
    /\ repo.head \in {0} \X Nat
    /\ repo.head[2] + Cardinality(Tracks \ repo.merged) <= MaxCommits

\* On the final route: the controller is at rest from the request of the
\* integration job on, so HEAD stays where QA certified it.  Where each tick
\* begins a generation the driver never finds the controller at rest.
Certified ==
    /\ AutoBegin => journal.integration = "none"
    /\ cohortPhase \in {"NONE", "PREPARING"} \union Running => journal.integration = "none"
    /\ cohortPhase \in Finalizing /\ journal.integration # "none" => ~sup.controller
    /\ cohortPhase = "FINAL_INTERLOCK" =>
          journal.integration = "pass" /\ repo.head = globalQaHeadSha

CohortIInv ==
    /\ CohortTypeOK
    /\ IInv
    /\ \A t \in Tracks : TrackInv(t)
    /\ Barrier
    /\ Room
    /\ Underway

-----------------------------------------------------------------------------
(* Commits                                                                 *)

LEMMA BaseIsCommit == Base \in Shas /\ Foreign \in Shas /\ Base # Foreign
<1>1. Base \in {0} \X (0 .. MaxCommits + 1) /\ Foreign \in {0} \X (0 .. MaxCommits + 1)
  BY CohortConstants DEF Base, Foreign
<1>2. Base # Foreign
  BY CohortConstants DEF Base, Foreign
<1>. QED  BY <1>1, <1>2, CohortConstants

LEMMA TipIsForeignToNone ==
  ASSUME NEW t \in Tracks
  PROVE  TrackTip(t) \in Shas /\ TrackTip(t) # Foreign /\ TrackTip(t) # Base
  BY CohortConstants, TracksAssumption DEF TrackTip, Foreign, Base

LEMMA NextIsCommit ==
  ASSUME Room
  PROVE  NextCommit \in Shas /\ NextCommit \in {0} \X Nat /\ NextCommit[2] = repo.head[2] + 1
<1>1. Cardinality(Tracks \ repo.merged) \in Nat
  BY TracksAssumption, FS_Difference, FS_CardinalityType
<1>2. repo.head[2] \in Nat /\ repo.head[2] + 1 \in 0 .. MaxCommits + 1
  BY <1>1, CohortConstants DEF Room
<1>3. NextCommit \in {0} \X (0 .. MaxCommits + 1)
  BY <1>2 DEF NextCommit
<1>. QED  BY <1>2, <1>3, CohortConstants DEF NextCommit

-----------------------------------------------------------------------------
(* Each step of the cohort is a step of its reducer or leaves it alone.    *)

LEMMA PrepareDriverIsStep ==
  ASSUME NEW t \in Tracks, PrepareDriver(t) \/ InitTrackJournalFails(t)
  PROVE  PrepareNext(t) \/ UNCHANGED vars
  BY DEF PrepareDriver, InitTrackJournalFails, AddWorktree, ObserveWorktree, AddWorktreeFails, InitTrackJournal,
     SpawnSupervisor, ObserveSupervisor, Drained, Recorded, Lost, PrepareNext

LEMMA JoinDriverIsStep ==
  ASSUME CohortTypeOK, Room, NEW t \in Tracks, JoinDriver(t)
  PROVE  JoinNext(t) \/ UNCHANGED vars
<1>1. CASE BeginMerge(t) \/ MergeTrack(t) \/ MergeConflicts(t) \/ MergeRefused(t)
  BY <1>1 DEF BeginMerge, MergeTrack, MergeConflicts, MergeRefused, GitMerge
<1>2. CASE SettleMerge(t) \/ ObserveMerge(t)
  <2>1. TrackIsAncestor(t) \in BOOLEAN /\ repo.head \in Shas /\ repo.mergeHead \in Shas \union {NoSha}
    BY DEF TrackIsAncestor, CohortTypeOK
  <2>. QED  BY <1>2, <2>1 DEF SettleMerge, ObserveMerge, Recorded, JoinNext
<1>3. CASE AcceptFreeze(t)
  <2>1. track[t].head \in Shas
    BY DEF CohortTypeOK, TrackWorld
  <2>. QED  BY <1>3, <2>1 DEF AcceptFreeze, Drained, Recorded, JoinNext
<1>4. CASE TakeJoin(t)
  BY <1>4 DEF TakeJoin, JoinNext
<1>5. CASE Drained(ActivateTrack(t)) \/ Drained(PersistJoinIntent(t))
  BY <1>5 DEF Drained, Recorded, JoinNext
<1>6. CASE EmitFreezeRequest(t) \/ EnsureIntegrationLock(t)
  BY <1>6 DEF EmitFreezeRequest, EnsureIntegrationLock
<1>7. CASE AbortOwnMerge(t)
  BY <1>7 DEF AbortOwnMerge, Lost
<1>. QED  BY <1>1, <1>2, <1>3, <1>4, <1>5, <1>6, <1>7 DEF JoinDriver

LEMMA TeardownDriverIsStep ==
  ASSUME CohortTypeOK, NEW t \in Tracks, TeardownDriver(t)
  PROVE  TeardownNext(t) \/ TeardownRequested \/ UNCHANGED vars
<1>1. Gathered(t) \in TeardownObservation
  BY DEF Gathered, TeardownObservation, CohortTypeOK, TrackWorld, WrapperAlive, LockExists
<1>2. /\ [Gathered(t) EXCEPT !.supervisorAlive = FALSE] \in TeardownObservation
      /\ [Gathered(t) EXCEPT !.worktreeExists = FALSE] \in TeardownObservation
      /\ [Gathered(t) EXCEPT !.branchExists = FALSE] \in TeardownObservation
  BY <1>1 DEF TeardownObservation
<1>3. CASE TakeTeardown(t)
  BY <1>3 DEF TakeTeardown
<1>4. CASE Drained(BeginTeardown(t)) \/ ObserveTeardown(t)
  BY <1>1, <1>4 DEF ObserveTeardown, Drained, Recorded, TeardownNext
<1>5. CASE StopOwnSupervisor(t) \/ RemoveWorktree(t) \/ RemoveBranch(t)
  BY <1>2, <1>5 DEF StopOwnSupervisor, RemoveWorktree, RemoveBranch, Recorded, Lost, TeardownNext
<1>. QED  BY <1>3, <1>4, <1>5 DEF TeardownDriver

LEMMA FinalDriverIsStep ==
  ASSUME CohortTypeOK, FinalDriver
  PROVE  CohortNext \/ UNCHANGED vars
<1>1. repo.head \in Shas
  BY DEF CohortTypeOK
<1>. QED
  BY <1>1 DEF FinalDriver, RequestGlobalQa, AcceptGlobalQa, PauseForIntegration, RequestIntegration,
     AcceptIntegration, RunFinalInterlock, Drained, Recorded, CohortNext

\* A process of a track, the controller, a fault: what the reducer does not do.
LEMMA WorldIsStep ==
  ASSUME CohortTypeOK,
         \/ Controller \/ LaunchController \/ IntegrationEnds \/ Crash \/ ForeignMerge
         \/ \E t \in Tracks : Wrapper(t) \/ WrapperCrashes(t)
         \/ \E t \in Tracks : Watch(t) \/ WatchTakesFreeze(t) \/ WatchRejectsFreeze(t)
         \/ \E t \in Tracks : WatchCrashes(t) \/ OperatorRestartsWatch(t) \/ Work(t)
         \/ \E t \in Tracks : InitTrackJournalFails(t) \/ ForeignIdentity(t)
  PROVE  [Next]_vars
<1>1. CASE Controller
  <2>1. repo.head \in Shas
    BY DEF CohortTypeOK
  <2>. QED
    BY <1>1, <2>1 DEF Controller, ReportQa, ControllerCommits, AddTrack, RequestJoin,
       RequestTeardown, Next
<1>2. CASE LaunchController \/ IntegrationEnds \/ Crash \/ ForeignMerge
  BY <1>2 DEF LaunchController, IntegrationEnds, Crash, ForeignMerge
<1>3. CASE \E t \in Tracks : Wrapper(t) \/ WrapperCrashes(t)
  BY <1>3 DEF Wrapper, WrapperPrepares, WrapperLaunches, WrapperExits, WrapperCrashes, Aside
<1>4. CASE \E t \in Tracks : Watch(t) \/ WatchTakesFreeze(t) \/ WatchRejectsFreeze(t)
  BY <1>4 DEF Watch, WatchStarts, CheckFreeze, FinishFreeze, WatchExits, WatchTakesFreeze,
     WatchRejectsFreeze, Aside
<1>5. CASE \E t \in Tracks : WatchCrashes(t) \/ OperatorRestartsWatch(t) \/ Work(t)
  BY <1>5 DEF WatchCrashes, OperatorRestartsWatch, Work, Aside
<1>6. CASE \E t \in Tracks : InitTrackJournalFails(t) \/ ForeignIdentity(t)
  BY <1>6, PrepareDriverIsStep DEF ForeignIdentity, Aside, Next
<1>. QED  BY <1>1, <1>2, <1>3, <1>4, <1>5, <1>6

LEMMA ProtocolStep ==
  ASSUME CohortTypeOK, Room, [CohortNextStep]_cohortVars
  PROVE  [Next]_vars
<1>1. CASE Driver
  <2>1. CASE FinalDriver
    BY <2>1, FinalDriverIsStep DEF Next
  <2>2. CASE Drained(EnterSerial)
    BY <2>2 DEF Drained, Recorded, Next, CohortNext
  <2>3. ASSUME NEW t \in Tracks, PrepareDriver(t)
        PROVE  [Next]_vars
    BY <2>3, PrepareDriverIsStep DEF Next
  <2>4. ASSUME NEW t \in Tracks, JoinDriver(t)
        PROVE  [Next]_vars
    BY <2>4, JoinDriverIsStep DEF Next
  <2>5. ASSUME NEW t \in Tracks, TeardownDriver(t)
        PROVE  [Next]_vars
    BY <2>5, TeardownDriverIsStep DEF Next, CohortNext
  <2>. QED  BY <1>1, <2>1, <2>2, <2>3, <2>4, <2>5 DEF Driver
<1>2. CASE CohortNextStep /\ ~Driver
  BY <1>2, WorldIsStep DEF CohortNextStep
<1>3. CASE UNCHANGED cohortVars
  BY <1>3 DEF cohortVars
<1>. QED  BY <1>1, <1>2, <1>3

-----------------------------------------------------------------------------
(* Types of the world                                                      *)

WorldTypeOK ==
    /\ track \in [Tracks -> TrackWorld]
    /\ repo \in [head : Shas, mergeHead : Shas \union {NoSha}, merged : SUBSET Tracks]
    /\ journal \in [joins : SUBSET Tracks, teardowns : SUBSET Tracks, qaAsked : BOOLEAN,
                    qaReport : Shas \union {NoSha}, integration : {"none", "live", "pass", "fail"}]
    /\ sup \in SupWorld

\* A track that is written is written whole, and no other is.
LEMMA SetTrackFacts ==
  ASSUME WorldTypeOK, NEW t \in Tracks, NEW r \in TrackWorld, SetTrack(t, r)
  PROVE  /\ track' \in [Tracks -> TrackWorld]
         /\ track'[t] = r
         /\ \A u \in Tracks \ {t} : track'[u] = track[u]
  BY DEF WorldTypeOK, SetTrack

\* What persist does to the journal keeps it one.
LEMMA SavedType ==
  ASSUME WorldTypeOK,
         NEW j \in [joins : SUBSET Tracks, teardowns : SUBSET Tracks, qaAsked : BOOLEAN,
                    qaReport : Shas \union {NoSha}, integration : {"none", "live", "pass", "fail"}],
         Saved(j)
  PROVE  /\ journal' \in [joins : SUBSET Tracks, teardowns : SUBSET Tracks, qaAsked : BOOLEAN,
                    qaReport : Shas \union {NoSha}, integration : {"none", "live", "pass", "fail"}]
         /\ journal'.integration = j.integration
  BY DEF Saved

\* One more crash within the bound.
LEMMA CrashCounted ==
  ASSUME NEW s \in SupWorld,
         s.crashes < MaxCrashes
  PROVE  /\ [s EXCEPT !.lockHeld = FALSE, !.merge = "no", !.crashes = @ + 1] \in SupWorld
         /\ [s EXCEPT !.controller = FALSE, !.crashes = @ + 1] \in SupWorld
<1>. USE DEF SupWorld
<1>1. s.crashes \in 0..MaxCrashes
  OBVIOUS
<1>2. s.crashes + 1 \in 0..MaxCrashes
  BY <1>1, CohortConstants
<1>3. \A n \in 0..MaxCrashes :
         /\ [s EXCEPT !.lockHeld = FALSE, !.merge = "no", !.crashes = n] \in SupWorld
         /\ [s EXCEPT !.controller = FALSE, !.crashes = n] \in SupWorld
  OBVIOUS
<1>. QED  BY <1>2, <1>3

LEMMA LostType ==
  ASSUME WorldTypeOK, Lost
  PROVE  /\ sup' \in SupWorld
         /\ sup'.controller = sup.controller
         /\ journal' = journal
<1>1. sup \in SupWorld
  BY DEF WorldTypeOK
<1>2. sup.crashes < MaxCrashes /\ sup' = [sup EXCEPT !.lockHeld = FALSE, !.merge = "no", !.crashes = @ + 1]
      /\ journal' = journal
  BY DEF Lost
<1>3. sup'.controller = sup.controller
  BY <1>1, <1>2 DEF SupWorld
<1>. QED  BY <1>1, <1>2, <1>3, CrashCounted

\* An effect that is recorded, or lost.
LEMMA RecordType ==
  ASSUME WorldTypeOK, NEW Step, (Step /\ Saved(journal) /\ UNCHANGED sup) \/ Lost
  PROVE  /\ journal' \in [joins : SUBSET Tracks, teardowns : SUBSET Tracks, qaAsked : BOOLEAN,
                    qaReport : Shas \union {NoSha}, integration : {"none", "live", "pass", "fail"}]
         /\ sup' \in SupWorld
         /\ journal'.integration = journal.integration
         /\ sup'.controller = sup.controller
<1>1. CASE Lost
  BY <1>1, LostType DEF WorldTypeOK
<1>2. CASE Saved(journal) /\ UNCHANGED sup
  BY <1>2, SavedType DEF WorldTypeOK
<1>. QED  BY <1>1, <1>2

LEMMA ClearedJournal ==
  ASSUME NEW r \in TrackWorld
  PROVE  [r EXCEPT !.journal = "none", !.lock = "free"] \in TrackWorld
<1>1. \A j \in {"none"}, k \in {"free"} : [r EXCEPT !.journal = j, !.lock = k] \in TrackWorld
  BY DEF TrackWorld
<1>. QED  BY <1>1

LEMMA ClearedClaim ==
  ASSUME NEW r \in TrackWorld
  PROVE  [r EXCEPT !.sidecar = "none"] \in TrackWorld
  BY DEF TrackWorld

LEMMA ClearedRequest ==
  ASSUME NEW r \in TrackWorld
  PROVE  [r EXCEPT !.freeze = "no"] \in TrackWorld
  BY DEF TrackWorld

\* What the driver and the processes write to a track leaves it one.
LEMMA DriverWrites ==
  ASSUME NEW r \in TrackWorld
  PROVE  /\ OwnWorktree(r) \in TrackWorld
         /\ WithoutWorktree(r) \in TrackWorld
         /\ \A b \in BOOLEAN : [r EXCEPT !.branch = b] \in TrackWorld
         /\ \A j \in {"none", "unbound", "bound"} : [r EXCEPT !.journal = j] \in TrackWorld
         /\ [r EXCEPT !.descriptor = TRUE] \in TrackWorld
         /\ \A f \in {"holder", "loser"} : [r EXCEPT !.wrapper = "started", !.ref = f] \in TrackWorld
         /\ [r EXCEPT !.wrapper = "started"] \in TrackWorld
         /\ \A w \in {"off", r.wrapper} : [r EXCEPT !.lock = "free", !.wrapper = w] \in TrackWorld
<1>. USE DEF TrackWorld
<1>1. OwnWorktree(r) \in TrackWorld
  BY DEF OwnWorktree
<1>2. WithoutWorktree(r) \in TrackWorld
  <2>. DEFINE a == [r EXCEPT !.worktree = "none", !.descriptor = FALSE]
              b == [a EXCEPT !.journal = "none", !.lock = "free"]
              c == [b EXCEPT !.sidecar = "none"]
              d == [c EXCEPT !.freeze = "no"]
  <2>1. a \in TrackWorld
    OBVIOUS
  <2>2. d \in TrackWorld
    <3>. HIDE DEF TrackWorld, a
    <3>1. b \in TrackWorld
      BY <2>1, ClearedJournal
    <3>. HIDE DEF b
    <3>2. c \in TrackWorld
      BY <3>1, ClearedClaim
    <3>. HIDE DEF c
    <3>. QED  BY <3>2, ClearedRequest
  <2>3. d = WithoutWorktree(r)
    BY DEF WithoutWorktree
  <2>. QED  BY <2>2, <2>3
<1>3. \A b \in BOOLEAN : [r EXCEPT !.branch = b] \in TrackWorld
  OBVIOUS
<1>4. \A j \in {"none", "unbound", "bound"} : [r EXCEPT !.journal = j] \in TrackWorld
  OBVIOUS
<1>5. [r EXCEPT !.descriptor = TRUE] \in TrackWorld
  OBVIOUS
<1>6. \A f \in {"holder", "loser"} : [r EXCEPT !.wrapper = "started", !.ref = f] \in TrackWorld
  OBVIOUS
<1>7. [r EXCEPT !.wrapper = "started"] \in TrackWorld
  OBVIOUS
<1>8. \A w \in {"off", r.wrapper} : [r EXCEPT !.lock = "free", !.wrapper = w] \in TrackWorld
  OBVIOUS
<1>. QED  BY <1>1, <1>2, <1>3, <1>4, <1>5, <1>6, <1>7, <1>8

LEMMA ProcessWrites ==
  ASSUME NEW r \in TrackWorld, NEW h \in Shas
  PROVE  /\ \A f \in {"no", "pending", "asked", "checked", "frozen"} :
                [r EXCEPT !.freeze = f] \in TrackWorld
         /\ \A w \in {"claimed", "polling"}, c \in {"claim", "ready", "foreign"} :
                [r EXCEPT !.wrapper = w, !.sidecar = c] \in TrackWorld
         /\ \A w \in {"starting", r.watch} :
                [r EXCEPT !.wrapper = "launched", !.watch = w] \in TrackWorld
         /\ [r EXCEPT !.wrapper = "off"] \in TrackWorld
         /\ \A w \in {"off", "running"}, k \in {"free", "held"} :
                [r EXCEPT !.watch = w, !.lock = k] \in TrackWorld
         /\ \A w \in {"off", "starting"} : [r EXCEPT !.watch = w] \in TrackWorld
         /\ \A k \in {"stale", r.lock}, f \in {"asked", r.freeze} :
                [r EXCEPT !.watch = "off", !.lock = k, !.freeze = f] \in TrackWorld
         /\ [r EXCEPT !.dirty = TRUE] \in TrackWorld
         /\ [r EXCEPT !.dirty = FALSE, !.head = h] \in TrackWorld
<1>. USE DEF TrackWorld
<1>1. \A f \in {"no", "pending", "asked", "checked", "frozen"} : [r EXCEPT !.freeze = f] \in TrackWorld
  OBVIOUS
<1>2. \A w \in {"claimed", "polling"}, c \in {"claim", "ready", "foreign"} :
         [r EXCEPT !.wrapper = w, !.sidecar = c] \in TrackWorld
  OBVIOUS
<1>3. \A w \in {"starting", r.watch} : [r EXCEPT !.wrapper = "launched", !.watch = w] \in TrackWorld
  OBVIOUS
<1>4. [r EXCEPT !.wrapper = "off"] \in TrackWorld
  OBVIOUS
<1>5. \A w \in {"off", "running"}, k \in {"free", "held"} :
         [r EXCEPT !.watch = w, !.lock = k] \in TrackWorld
  OBVIOUS
<1>6. \A w \in {"off", "starting"} : [r EXCEPT !.watch = w] \in TrackWorld
  OBVIOUS
<1>8. \A k \in {"stale", r.lock}, f \in {"asked", r.freeze} :
         [r EXCEPT !.watch = "off", !.lock = k, !.freeze = f] \in TrackWorld
  OBVIOUS
<1>9. [r EXCEPT !.dirty = TRUE] \in TrackWorld /\ [r EXCEPT !.dirty = FALSE, !.head = h] \in TrackWorld
  OBVIOUS
<1>. QED  BY <1>1, <1>2, <1>3, <1>4, <1>5, <1>6, <1>8, <1>9

LEMMA PrepareDriverType ==
  ASSUME WorldTypeOK, NEW t \in Tracks, PrepareDriver(t)
  PROVE  WorldTypeOK'
<1>. USE DEF WorldTypeOK
<1>0. track[t] \in TrackWorld
  OBVIOUS
<1>1. CASE \/ Drained(PersistPrepareIntent(t)) \/ ObserveWorktree(t)
           \/ Drained(PersistSupervisorIntent(t)) \/ ObserveSupervisor(t)
  BY <1>1, SavedType DEF Drained, Recorded, ObserveWorktree, ObserveSupervisor
<1>2. CASE AddWorktree(t)
  BY <1>0, <1>2, SetTrackFacts, DriverWrites, RecordType DEF AddWorktree, Recorded
<1>3. CASE AddWorktreeFails(t)
  <2>1. PICK b \in BOOLEAN : SetTrack(t, [track[t] EXCEPT !.branch = b])
    BY <1>3 DEF AddWorktreeFails, TrackWorld
  <2>. QED  BY <1>0, <1>3, <2>1, SetTrackFacts, DriverWrites, RecordType DEF AddWorktreeFails, Recorded
<1>4. CASE InitTrackJournal(t)
  <2>. DEFINE created == [track[t] EXCEPT !.journal = IF t \in Bindable THEN "bound" ELSE "unbound"]
  <2>1. created \in TrackWorld
    BY <1>0, DriverWrites
  <2>3. [created EXCEPT !.descriptor = TRUE] \in TrackWorld
    BY <2>1, DriverWrites
  <2>2. track' \in [Tracks -> TrackWorld]
    BY <1>4, <2>1, <2>3, SetTrackFacts DEF InitTrackJournal
  <2>. QED  BY <1>4, <2>2, RecordType DEF InitTrackJournal, Recorded
<1>5. CASE SpawnSupervisor(t)
  <2>1. \A r \in {"holder", "loser"} :
           [track[t] EXCEPT !.wrapper = "started", !.ref = r] \in TrackWorld
    BY <1>0, DriverWrites
  <2>2. [track[t] EXCEPT !.wrapper = "started"] \in TrackWorld
    BY <1>0, DriverWrites
  <2>. QED  BY <1>5, <2>1, <2>2, SetTrackFacts, LostType DEF SpawnSupervisor
<1>. QED  BY <1>1, <1>2, <1>3, <1>4, <1>5 DEF PrepareDriver

LEMMA JournalFailsType ==
  ASSUME WorldTypeOK, NEW t \in Tracks, InitTrackJournalFails(t)
  PROVE  /\ WorldTypeOK'
         /\ \E j : track'[t] = [track[t] EXCEPT !.journal = j]
         /\ \A u \in Tracks \ {t} : track'[u] = track[u]
<1>1. track[t] \in TrackWorld
  BY DEF WorldTypeOK
<1>2. PICK j \in {"none", "unbound", "bound"} : SetTrack(t, [track[t] EXCEPT !.journal = j])
  BY <1>1 DEF InitTrackJournalFails, TrackWorld
<1>3. [track[t] EXCEPT !.journal = j] \in TrackWorld
  BY <1>1, DriverWrites
<1>4. /\ track' \in [Tracks -> TrackWorld] /\ track'[t] = [track[t] EXCEPT !.journal = j]
      /\ \A u \in Tracks \ {t} : track'[u] = track[u]
  BY <1>2, <1>3, SetTrackFacts
<1>. QED  BY <1>4, SavedType DEF InitTrackJournalFails, Recorded, WorldTypeOK

LEMMA ForeignIdentityType ==
  ASSUME WorldTypeOK, NEW t \in Tracks, ForeignIdentity(t)
  PROVE  /\ WorldTypeOK'
         /\ track'[t] = [track[t] EXCEPT !.sidecar = "foreign"]
         /\ \A u \in Tracks \ {t} : track'[u] = track[u]
<1>1. track[t] \in TrackWorld
  BY DEF WorldTypeOK
<1>2. [track[t] EXCEPT !.sidecar = "foreign"] \in TrackWorld
  BY <1>1 DEF TrackWorld
<1>3. /\ track' \in [Tracks -> TrackWorld] /\ track'[t] = [track[t] EXCEPT !.sidecar = "foreign"]
      /\ \A u \in Tracks \ {t} : track'[u] = track[u]
  BY <1>2, SetTrackFacts DEF ForeignIdentity
<1>. QED  BY <1>3 DEF ForeignIdentity, Aside, WorldTypeOK

LEMMA JoinDriverType ==
  ASSUME CohortTypeOK, WorldTypeOK, Room, NEW t \in Tracks, JoinDriver(t)
  PROVE  WorldTypeOK'
<1>. USE DEF WorldTypeOK
<1>1. CASE Drained(ActivateTrack(t)) \/ AcceptFreeze(t) \/ Drained(PersistJoinIntent(t))
  BY <1>1, SavedType DEF Drained, Recorded, AcceptFreeze
<1>2. CASE TakeJoin(t)
  BY <1>2, SavedType DEF TakeJoin
<1>3. CASE EmitFreezeRequest(t)
  <2>1. track[t] \in TrackWorld
    OBVIOUS
  <2>2. [track[t] EXCEPT !.freeze = "pending"] \in TrackWorld
    BY <2>1, BaseIsCommit, ProcessWrites
  <2>. QED  BY <1>3, <2>2, SetTrackFacts DEF EmitFreezeRequest
<1>4. CASE EnsureIntegrationLock(t)
  BY <1>4 DEF EnsureIntegrationLock, SupWorld
<1>5. CASE BeginMerge(t)
  BY <1>5 DEF BeginMerge, Merging, SupWorld
<1>6. CASE MergeTrack(t) \/ MergeConflicts(t) \/ MergeRefused(t)
  <2>1. repo' \in [head : Shas, mergeHead : Shas \union {NoSha}, merged : SUBSET Tracks]
    <3>1. NextCommit \in Shas /\ frozenHeadSha[t] \in Shas \union {NoSha}
      BY NextIsCommit DEF CohortTypeOK, TypeOK
    <3>2. /\ [repo EXCEPT !.head = NextCommit, !.merged = @ \union {t}]
               \in [head : Shas, mergeHead : Shas \union {NoSha}, merged : SUBSET Tracks]
          /\ [repo EXCEPT !.mergeHead = frozenHeadSha[t]]
               \in [head : Shas, mergeHead : Shas \union {NoSha}, merged : SUBSET Tracks]
      BY <3>1
    <3>. QED  BY <1>6, <3>2 DEF MergeTrack, MergeConflicts, MergeRefused, GitMerge
  <2>. QED  BY <1>6, <2>1 DEF MergeTrack, MergeConflicts, MergeRefused, GitMerge, SupWorld
<1>7. CASE AbortOwnMerge(t)
  BY <1>7, LostType DEF AbortOwnMerge, Merging
<1>8. CASE SettleMerge(t)
  BY <1>8, SavedType DEF SettleMerge, Merging, Recorded
<1>9. CASE ObserveMerge(t)
  BY <1>9, SavedType DEF ObserveMerge, SupWorld
<1>. QED  BY <1>1, <1>2, <1>3, <1>4, <1>5, <1>6, <1>7, <1>8, <1>9 DEF JoinDriver

LEMMA TeardownDriverType ==
  ASSUME WorldTypeOK, NEW t \in Tracks, TeardownDriver(t)
  PROVE  WorldTypeOK'
<1>. USE DEF WorldTypeOK
<1>0. track[t] \in TrackWorld
  OBVIOUS
<1>1. CASE TakeTeardown(t)
  BY <1>1, SavedType DEF TakeTeardown, SupWorld
<1>2. CASE Drained(BeginTeardown(t)) \/ ObserveTeardown(t)
  BY <1>2, SavedType DEF Drained, Recorded, ObserveTeardown
<1>3. CASE StopOwnSupervisor(t)
  <2>. DEFINE stopped == IF track[t].ref = "none" THEN track[t]
                         ELSE [track[t] EXCEPT !.lock = "free",
                                         !.wrapper = IF WrapperAlive(t) THEN "off" ELSE @]
  <2>1. stopped \in TrackWorld
    BY <1>0, DriverWrites
  <2>2. track' \in [Tracks -> TrackWorld]
    BY <1>3, <2>1, SetTrackFacts DEF StopOwnSupervisor
  <2>. QED  BY <1>3, <2>2, RecordType DEF StopOwnSupervisor, Recorded
<1>4. CASE RemoveWorktree(t)
  BY <1>0, <1>4, SetTrackFacts, DriverWrites, RecordType DEF RemoveWorktree, Recorded
<1>5. CASE RemoveBranch(t)
  <2>1. [track[t] EXCEPT !.branch = FALSE] \in TrackWorld
    BY <1>0, DriverWrites
  <2>. QED  BY <1>5, <2>1, SetTrackFacts, RecordType DEF RemoveBranch, Recorded
<1>. QED  BY <1>1, <1>2, <1>3, <1>4, <1>5 DEF TeardownDriver

LEMMA FinalDriverType ==
  ASSUME WorldTypeOK, FinalDriver
  PROVE  WorldTypeOK'
<1>. USE DEF WorldTypeOK
<1>1. CASE Drained(ActivateCohort) \/ AcceptGlobalQa \/ AcceptIntegration
  BY <1>1, SavedType DEF Drained, Recorded, AcceptGlobalQa, AcceptIntegration
<1>2. CASE RequestGlobalQa \/ PauseForIntegration \/ RequestIntegration
  BY <1>2 DEF RequestGlobalQa, PauseForIntegration, RequestIntegration, SupWorld
<1>3. CASE RunFinalInterlock
  BY <1>3, SavedType DEF RunFinalInterlock, SupWorld
<1>. QED  BY <1>1, <1>2, <1>3 DEF FinalDriver

\* What the processes of a track make of it.
LEMMA AsideType ==
  ASSUME WorldTypeOK, NEW t \in Tracks,
         \/ Wrapper(t) \/ WrapperCrashes(t) \/ Watch(t) \/ WatchTakesFreeze(t)
         \/ WatchRejectsFreeze(t) \/ WatchCrashes(t) \/ OperatorRestartsWatch(t) \/ Work(t)
  PROVE  WorldTypeOK'
<1>1. track[t] \in TrackWorld /\ TrackTip(t) \in Shas
  BY TipIsForeignToNone DEF WorldTypeOK
<1>2. Aside
  BY DEF Wrapper, WrapperPrepares, WrapperLaunches, WrapperExits, WrapperCrashes, Watch, WatchStarts,
     CheckFreeze, FinishFreeze, WatchExits, WatchTakesFreeze, WatchRejectsFreeze, WatchCrashes,
     OperatorRestartsWatch, Work
<1>3. CASE Wrapper(t) \/ WrapperCrashes(t)
  <2>1. PICK r \in TrackWorld : SetTrack(t, r)
    BY <1>1, <1>3, ProcessWrites
    DEF Wrapper, WrapperPrepares, WrapperLaunches, WrapperExits, WrapperCrashes
  <2>. QED  BY <1>2, <2>1, SetTrackFacts DEF Aside, WorldTypeOK
<1>4. CASE Watch(t) \/ WatchTakesFreeze(t) \/ WatchRejectsFreeze(t)
  <2>1. PICK r \in TrackWorld : SetTrack(t, r)
    BY <1>1, <1>4, ProcessWrites
    DEF Watch, WatchStarts, CheckFreeze, FinishFreeze, WatchExits, WatchTakesFreeze,
        WatchRejectsFreeze
  <2>. QED  BY <1>2, <2>1, SetTrackFacts DEF Aside, WorldTypeOK
<1>5. CASE WatchCrashes(t) \/ OperatorRestartsWatch(t) \/ Work(t)
  <2>1. PICK r \in TrackWorld : SetTrack(t, r)
    BY <1>1, <1>5, ProcessWrites DEF WatchCrashes, OperatorRestartsWatch, Work
  <2>. QED  BY <1>2, <2>1, SetTrackFacts DEF Aside, WorldTypeOK
<1>. QED  BY <1>3, <1>4, <1>5

LEMMA PlanSideType ==
  ASSUME WorldTypeOK, Room,
         Controller \/ LaunchController \/ IntegrationEnds \/ Crash \/ ForeignMerge
  PROVE  WorldTypeOK'
<1>. USE DEF WorldTypeOK
<1>1. CASE ReportQa \/ ControllerCommits
  BY <1>1, NextIsCommit DEF ReportQa, ControllerCommits
<1>2. CASE \E t \in Tracks : AddTrack(t) \/ RequestJoin(t) \/ RequestTeardown(t)
  BY <1>2 DEF AddTrack, RequestJoin, RequestTeardown, world
<1>3. CASE LaunchController \/ IntegrationEnds \/ ForeignMerge
  BY <1>3, BaseIsCommit DEF LaunchController, IntegrationEnds, ForeignMerge, SupWorld
<1>4. CASE Crash
  BY <1>4, CrashCounted DEF Crash
<1>. QED  BY <1>1, <1>2, <1>3, <1>4 DEF Controller

LEMMA WorldType ==
  ASSUME CohortTypeOK, Room, [CohortNextStep]_cohortVars
  PROVE  WorldTypeOK'
<1>0. WorldTypeOK
  BY DEF CohortTypeOK, WorldTypeOK, SupWorld
<1>1. CASE FinalDriver
  BY <1>0, <1>1, FinalDriverType
<1>2. CASE Drained(EnterSerial)
  BY <1>0, <1>2, SavedType DEF WorldTypeOK, Drained, Recorded
<1>3. ASSUME NEW t \in Tracks, PrepareDriver(t) \/ JoinDriver(t) \/ TeardownDriver(t)
      PROVE  WorldTypeOK'
  BY <1>0, <1>3, PrepareDriverType, JoinDriverType, TeardownDriverType
<1>4. CASE Controller \/ LaunchController \/ IntegrationEnds \/ Crash \/ ForeignMerge
  BY <1>0, <1>4, PlanSideType
<1>5. ASSUME NEW t \in Tracks,
             \/ Wrapper(t) \/ WrapperCrashes(t) \/ Watch(t) \/ WatchTakesFreeze(t)
             \/ WatchRejectsFreeze(t) \/ WatchCrashes(t) \/ OperatorRestartsWatch(t) \/ Work(t)
      PROVE  WorldTypeOK'
  BY <1>0, <1>5, AsideType
<1>6. CASE UNCHANGED cohortVars
  BY <1>0, <1>6 DEF WorldTypeOK, cohortVars, world
<1>7. ASSUME NEW t \in Tracks, InitTrackJournalFails(t) \/ ForeignIdentity(t)
      PROVE  WorldTypeOK'
  BY <1>0, <1>7, JournalFailsType, ForeignIdentityType
<1>. QED  BY <1>1, <1>2, <1>3, <1>4, <1>5, <1>6, <1>7 DEF CohortNextStep, Driver
-----------------------------------------------------------------------------
(* The invariant of each track                                             *)

\* A track no step concerns.
LEMMA OtherKept ==
  ASSUME NEW u \in Tracks, TrackInv(u), phase'[u] = phase[u], track'[u] = track[u],
         frozenHeadSha'[u] = frozenHeadSha[u], repo.merged \subseteq repo'.merged
  PROVE  TrackInv(u)'
  BY DEF TrackInv, PlaceOfPhase, WorkIsOurs, ReadyStays, FrozenStays, InPlan

\* Phases that promise nothing of the world.
Neutral == {"WORKTREE_CREATED", "JOURNAL_CREATED", "SUPERVISOR_STARTING", "TEARDOWN_REQUESTED",
            "TEARDOWN_INTENT", "SUPERVISOR_STOPPED", "BLOCKED"}

LEMMA NeutralKept ==
  ASSUME NEW u \in Tracks, TrackInv(u), phase'[u] \in Neutral, track'[u] = track[u],
         repo.merged \subseteq repo'.merged
  PROVE  TrackInv(u)'
  BY DEF TrackInv, PlaceOfPhase, WorkIsOurs, ReadyStays, FrozenStays, Neutral, NoDirectory, Working, Frozen

\* The whole cohort falls back.
LEMMA FallBackKeeps ==
  ASSUME TypeOK, \A t \in Tracks : TrackInv(t), FallBack, UNCHANGED <<track, repo, frozenHeadSha>>
  PROVE  \A t \in Tracks : TrackInv(t)'
<1>. SUFFICES ASSUME NEW t \in Tracks  PROVE TrackInv(t)'
  OBVIOUS
<1>1. phase'[t] = phase[t] \/ phase'[t] = "TEARDOWN_REQUESTED"
  BY DEF FallBack, MarkTeardown
<1>. QED  BY <1>1, OtherKept, NeutralKept DEF Neutral

\* What a process of a track may make of it.
ProcessWrote(t) ==
    /\ track'[t].worktree = track[t].worktree /\ track'[t].branch = track[t].branch
    /\ track'[t].dirty => track[t].worktree = "ours"
    /\ \/ track'[t].head = track[t].head
       \/ track'[t].head = TrackTip(t) /\ track[t].worktree = "ours" /\ track[t].freeze # "frozen"
    /\ track'[t].wrapper # "off" => track[t].wrapper # "off"
    /\ track'[t].wrapper = "started" =>
          track[t].wrapper = "started" /\ track'[t].sidecar = track[t].sidecar
    /\ track[t].sidecar = "ready" => track'[t].sidecar = "ready"
    /\ track[t].freeze = "frozen" => track'[t].freeze = "frozen"

\* What `awm watch` makes of its lock is no concern of the rest of the track.
LEMMA WatchWrites ==
  ASSUME NEW r \in TrackWorld, NEW w \in {"off", "starting", "running"},
         NEW k \in {"free", "held", "stale"},
         NEW q, q = [r EXCEPT !.watch = w, !.lock = k]
  PROVE  /\ q.worktree = r.worktree /\ q.branch = r.branch /\ q.dirty = r.dirty
         /\ q.head = r.head /\ q.wrapper = r.wrapper /\ q.sidecar = r.sidecar
         /\ q.freeze = r.freeze
  BY DEF TrackWorld

LEMMA PlaceKept ==
  ASSUME NEW t \in Tracks, TrackInv(t), phase'[t] = phase[t] \/ phase'[t] \in Neutral,
         frozenHeadSha'[t] = frozenHeadSha[t], repo.merged \subseteq repo'.merged, ProcessWrote(t)
  PROVE  TrackInv(t)'
<1>. USE DEF TrackInv, ProcessWrote, Neutral
<1>1. PlaceOfPhase(t)'
  BY DEF PlaceOfPhase, NoDirectory
<1>2. WorkIsOurs(t)'
  BY DEF WorkIsOurs
<1>3. ReadyStays(t)'
  BY DEF ReadyStays, Working, Frozen
<1>4. FrozenStays(t)'
  BY DEF FrozenStays, InPlan, Frozen
<1>. QED  BY <1>1, <1>2, <1>3, <1>4

\* The processes of a track write what their own place allows, and the phases
\* stay: a frozen track is not worked in, a claim is written once.
LEMMA AsideKeeps ==
  ASSUME WorldTypeOK, \A u \in Tracks : TrackInv(u), NEW t \in Tracks,
         \/ Wrapper(t) \/ WrapperCrashes(t) \/ Watch(t) \/ WatchTakesFreeze(t)
         \/ WatchRejectsFreeze(t) \/ WatchCrashes(t) \/ OperatorRestartsWatch(t) \/ Work(t)
  PROVE  \A u \in Tracks : TrackInv(u)'
<1>1. Aside /\ \E r : SetTrack(t, r)
  BY DEF Wrapper, WrapperPrepares, WrapperLaunches, WrapperExits, WrapperCrashes, Watch, WatchStarts,
     CheckFreeze, FinishFreeze, WatchExits, WatchTakesFreeze, WatchRejectsFreeze, WatchCrashes,
     OperatorRestartsWatch, Work
<1>2. phase' = phase /\ frozenHeadSha' = frozenHeadSha /\ repo' = repo
  BY <1>1 DEF Aside, vars
<1>3. \A u \in Tracks \ {t} : track'[u] = track[u]
  BY <1>1 DEF SetTrack, WorldTypeOK
<1>4. ProcessWrote(t)
  <2>1. track \in [Tracks -> TrackWorld] /\ track[t] \in TrackWorld
    BY DEF WorldTypeOK
  <2>2. \A r : SetTrack(t, r) => track'[t] = r
    BY <2>1 DEF SetTrack
  <2>3. /\ track[t].dirty => track[t].worktree = "ours"
        /\ track[t].wrapper = "started" /\ track[t].worktree = "ours" => track[t].sidecar # "ready"
    BY DEF TrackInv, WorkIsOurs, ReadyStays
  <2>. USE <2>1, <2>2, <2>3 DEF ProcessWrote, TrackWorld
  <2>4. CASE WrapperPrepares(t)
    BY <2>4, ZenonT(60) DEF WrapperPrepares
  <2>5. CASE WrapperLaunches(t)
    BY <2>5, ZenonT(60) DEF WrapperLaunches
  <2>6. CASE WrapperExits(t)
    BY <2>6 DEF WrapperExits
  <2>7. CASE WrapperCrashes(t)
    BY <2>7 DEF WrapperCrashes
  <2>8. CASE WatchStarts(t)
    <3>1. \/ SetTrack(t, [track[t] EXCEPT !.watch = "running", !.lock = "held"])
          \/ SetTrack(t, [track[t] EXCEPT !.watch = "off"])
      BY <2>8, Zenon DEF WatchStarts
    <3>2. \/ track'[t] = [track[t] EXCEPT !.watch = "running", !.lock = "held"]
          \/ track'[t] = [track[t] EXCEPT !.watch = "off"]
      BY <3>1, <2>2, Zenon
    <3>3. /\ track'[t].worktree = track[t].worktree /\ track'[t].branch = track[t].branch
          /\ track'[t].dirty = track[t].dirty /\ track'[t].head = track[t].head
          /\ track'[t].wrapper = track[t].wrapper /\ track'[t].sidecar = track[t].sidecar
          /\ track'[t].freeze = track[t].freeze
      <4>1. CASE track'[t] = [track[t] EXCEPT !.watch = "running", !.lock = "held"]
        BY <2>1, <4>1, WatchWrites
      <4>2. CASE track'[t] = [track[t] EXCEPT !.watch = "off"]
        BY <4>2
      <4>. QED  BY <3>2, <4>1, <4>2
    <3>. QED  BY <2>3, <3>3
  <2>9. CASE WatchExits(t)
    <3>1. track'[t] = [track[t] EXCEPT !.watch = "off", !.lock = "free"]
      BY <2>2, <2>9, Zenon DEF WatchExits
    <3>2. /\ track'[t].worktree = track[t].worktree /\ track'[t].branch = track[t].branch
          /\ track'[t].dirty = track[t].dirty /\ track'[t].head = track[t].head
          /\ track'[t].wrapper = track[t].wrapper /\ track'[t].sidecar = track[t].sidecar
          /\ track'[t].freeze = track[t].freeze
      BY <2>1, <3>1, WatchWrites
    <3>. QED  BY <2>3, <3>2
  <2>10. CASE CheckFreeze(t)
    BY <2>10 DEF CheckFreeze
  <2>11. CASE FinishFreeze(t)
    BY <2>11 DEF FinishFreeze
  <2>12. CASE WatchTakesFreeze(t)
    BY <2>12 DEF WatchTakesFreeze
  <2>13. CASE WatchRejectsFreeze(t)
    BY <2>13 DEF WatchRejectsFreeze
  <2>14. CASE WatchCrashes(t)
    <3>1. PICK k, f : /\ SetTrack(t, [track[t] EXCEPT !.watch = "off", !.lock = k, !.freeze = f])
                      /\ track[t].freeze = "frozen" => f = "frozen"
      BY <2>14 DEF WatchCrashes
    <3>2. track'[t] = [track[t] EXCEPT !.watch = "off", !.lock = k, !.freeze = f]
      BY <3>1, <2>2, Zenon
    <3>. QED  BY <3>1, <3>2
  <2>15. CASE OperatorRestartsWatch(t)
    BY <2>15 DEF OperatorRestartsWatch
  <2>16. CASE Work(t)
    <3>1. /\ track[t].worktree = "ours" /\ track[t].freeze # "frozen"
          /\ \/ SetTrack(t, [track[t] EXCEPT !.dirty = TRUE])
             \/ SetTrack(t, [track[t] EXCEPT !.dirty = FALSE, !.head = TrackTip(t)])
      BY <2>16, Zenon DEF Work
    <3>2. \/ track'[t] = [track[t] EXCEPT !.dirty = TRUE]
          \/ track'[t] = [track[t] EXCEPT !.dirty = FALSE, !.head = TrackTip(t)]
      BY <3>1, <2>2, Zenon
    <3>. QED  BY <3>1, <3>2
  <2>. QED  BY <2>4, <2>5, <2>6, <2>7, <2>8, <2>9, <2>10, <2>11, <2>12, <2>13, <2>14, <2>15, <2>16, ZenonT(60)
           DEF Wrapper, Watch
<1>5. TrackInv(t)'
  BY <1>2, <1>4, PlaceKept
<1>. QED  BY <1>2, <1>3, <1>5, OtherKept

LEMMA PrepareKeeps ==
  ASSUME CohortTypeOK, WorldTypeOK, \A u \in Tracks : TrackInv(u), NEW t \in Tracks, PrepareDriver(t)
  PROVE  \A u \in Tracks : TrackInv(u)'
<1>0. /\ repo' = repo
      /\ track \in [Tracks -> TrackWorld] /\ track[t] \in TrackWorld
      /\ phase \in [Tracks -> TrackPhases] /\ TypeOK
      /\ TrackInv(t)
  BY DEF PrepareDriver, AddWorktree, ObserveWorktree, AddWorktreeFails, InitTrackJournal,
     SpawnSupervisor, ObserveSupervisor, Drained, WorldTypeOK, CohortTypeOK, TypeOK
<1>1. ASSUME NEW from, NEW to \in Neutral, PrepareStep(t, from, to), track' = track
      PROVE  \A u \in Tracks : TrackInv(u)'
  <2>1. phase'[t] = to /\ \A u \in Tracks \ {t} : phase'[u] = phase[u]
    BY <1>0, <1>1 DEF PrepareStep, SetPhase
  <2>2. frozenHeadSha' = frozenHeadSha
    BY <1>1 DEF PrepareStep, shas
  <2>. QED  BY <1>0, <1>1, <2>1, <2>2, OtherKept, NeutralKept
\* What an effect wrote to the place of a track that is being prepared.
<1>2. ASSUME NEW r, SetTrack(t, r), phase[t] \in PreparingPhases \ {"DECLARED"},
             UNCHANGED vars \/ \E from : \E to \in Neutral : PrepareStep(t, from, to),
             r.worktree = "ours" => r.branch,
             track[t].worktree = "ours" => r.worktree = "ours",
             track[t].branch => r.branch,
             r.dirty = track[t].dirty, r.head = track[t].head,
             r.wrapper = track[t].wrapper \/ phase[t] = "SUPERVISOR_STARTING",
             r.wrapper = "started" /\ r.worktree = "ours" => r.sidecar # "ready"
      PROVE  \A u \in Tracks : TrackInv(u)'
  <2>1. track'[t] = r /\ \A u \in Tracks \ {t} : track'[u] = track[u]
    BY <1>0, <1>2 DEF SetTrack
  <2>2. /\ phase'[t] \in Neutral \/ phase'[t] = phase[t]
        /\ \A u \in Tracks \ {t} : phase'[u] = phase[u]
        /\ frozenHeadSha' = frozenHeadSha
    <3>1. CASE UNCHANGED vars
      BY <3>1 DEF vars
    <3>2. ASSUME NEW from, NEW to \in Neutral, PrepareStep(t, from, to)
          PROVE  /\ phase'[t] = to
                 /\ \A u \in Tracks \ {t} : phase'[u] = phase[u]
                 /\ frozenHeadSha' = frozenHeadSha
      BY <1>0, <3>2 DEF PrepareStep, SetPhase, shas
    <3>. QED  BY <1>2, <3>1, <3>2
  <2>3. PlaceOfPhase(t)'
    BY <1>0, <1>2, <2>1, <2>2 DEF PlaceOfPhase, Neutral, NoDirectory, PreparingPhases
  <2>4. WorkIsOurs(t)'
    BY <1>0, <1>2, <2>1, <2>2 DEF TrackInv, WorkIsOurs
  <2>5. ReadyStays(t)'
    BY <1>0, <1>2, <2>1, <2>2 DEF TrackInv, ReadyStays, Neutral, PreparingPhases, Working, Frozen
  <2>6. FrozenStays(t)'
    BY <1>0, <1>2, <2>1, <2>2 DEF FrozenStays, Neutral, PreparingPhases, Frozen
  <2>. QED  BY <1>0, <2>1, <2>2, <2>3, <2>4, <2>5, <2>6, OtherKept DEF TrackInv
<1>3. CASE Drained(PersistPrepareIntent(t))
  <2>1. /\ PrepareStep(t, "DECLARED", "PREPARE_INTENT") /\ track' = track
    BY <1>3 DEF Drained, Recorded, PersistPrepareIntent
  <2>2. /\ phase[t] = "DECLARED" /\ phase'[t] = "PREPARE_INTENT"
        /\ \A u \in Tracks \ {t} : phase'[u] = phase[u]
        /\ frozenHeadSha' = frozenHeadSha
    BY <1>0, <2>1 DEF PrepareStep, SetPhase, shas
  <2>3. TrackInv(t)'
    BY <1>0, <2>1, <2>2
    DEF TrackInv, PlaceOfPhase, WorkIsOurs, ReadyStays, FrozenStays, NoDirectory, Working, Frozen
  <2>. QED  BY <1>0, <2>1, <2>2, <2>3, OtherKept
<1>4. CASE ObserveWorktree(t)
  BY <1>1, <1>4 DEF ObserveWorktree, Drained, Recorded, WorktreeObserved, Neutral
<1>5. CASE Drained(PersistSupervisorIntent(t))
  BY <1>1, <1>5 DEF Drained, Recorded, PersistSupervisorIntent, Neutral
<1>6. CASE ObserveSupervisor(t) /\ track[t].sidecar = "ready"
  <2>1. /\ PrepareStep(t, "SUPERVISOR_STARTING", "ARMED") /\ track' = track
        /\ track[t].sidecar = "ready"
    BY <1>6 DEF ObserveSupervisor, Drained, Recorded, SupervisorObserved
  <2>2. /\ phase[t] = "SUPERVISOR_STARTING" /\ phase'[t] = "ARMED"
        /\ \A u \in Tracks \ {t} : phase'[u] = phase[u]
        /\ frozenHeadSha' = frozenHeadSha
    BY <1>0, <2>1 DEF PrepareStep, SetPhase, shas
  <2>3. TrackInv(t)'
    BY <1>0, <2>1, <2>2
    DEF TrackInv, PlaceOfPhase, WorkIsOurs, ReadyStays, FrozenStays, NoDirectory, Frozen
  <2>. QED  BY <1>0, <2>1, <2>2, <2>3, OtherKept
<1>7. CASE AddWorktree(t)
  <2>. DEFINE r == OwnWorktree(track[t])
  <2>1. /\ r.worktree = "ours" /\ r.branch
        /\ r.dirty = track[t].dirty /\ r.head = track[t].head /\ r.wrapper = track[t].wrapper
    BY <1>0 DEF OwnWorktree, TrackWorld
  <2>2. /\ SetTrack(t, r) /\ phase[t] = "PREPARE_INTENT"
        /\ UNCHANGED vars \/ PrepareStep(t, "PREPARE_INTENT", "WORKTREE_CREATED")
    BY <1>7 DEF AddWorktree, Recorded, WorktreeObserved, Lost
  <2>3. track[t].wrapper = "off"
    BY <1>0, <2>2 DEF TrackInv, ReadyStays
  <2>. HIDE DEF r
  <2>. QED  BY <1>2, <2>1, <2>2, <2>3 DEF Neutral, PreparingPhases
<1>8. CASE InitTrackJournal(t)
  <2>. DEFINE SameTrack(r) ==
                         /\ r.worktree = track[t].worktree /\ r.branch = track[t].branch
                         /\ r.dirty = track[t].dirty /\ r.head = track[t].head
                         /\ r.wrapper = track[t].wrapper /\ r.sidecar = track[t].sidecar
  <2>1. \A x : SameTrack([track[t] EXCEPT !.journal = x])
               /\ SameTrack([[track[t] EXCEPT !.journal = x] EXCEPT !.descriptor = TRUE])
    BY <1>0 DEF TrackWorld
  <2>. HIDE DEF SameTrack
  <2>2. PICK r : SetTrack(t, r) /\ SameTrack(r)
    BY <1>8, <2>1, Zenon DEF InitTrackJournal
  <2>3. /\ phase[t] = "WORKTREE_CREATED"
        /\ UNCHANGED vars \/ PrepareStep(t, "WORKTREE_CREATED", "JOURNAL_CREATED")
    BY <1>8 DEF InitTrackJournal, Recorded, CreateTrackJournal, Lost
  <2>4. /\ track[t].worktree = "ours" => track[t].branch
        /\ track[t].wrapper = "started" /\ track[t].worktree = "ours" => track[t].sidecar # "ready"
    BY <1>0 DEF TrackInv, WorkIsOurs, ReadyStays
  <2>. USE DEF SameTrack
  <2>. QED  BY <1>2, <2>2, <2>3, <2>4 DEF Neutral, PreparingPhases
<1>9. CASE SpawnSupervisor(t)
  <2>. DEFINE SameTrack(r) ==
                         /\ r.worktree = track[t].worktree /\ r.branch = track[t].branch
                         /\ r.dirty = track[t].dirty /\ r.head = track[t].head
                         /\ r.sidecar = track[t].sidecar
  <2>1. /\ \A x : SameTrack([track[t] EXCEPT !.wrapper = "started", !.ref = x])
        /\ SameTrack([track[t] EXCEPT !.wrapper = "started"])
    BY <1>0 DEF TrackWorld
  <2>. HIDE DEF SameTrack
  <2>2. PICK r : SetTrack(t, r) /\ SameTrack(r)
    BY <1>9, <2>1, Zenon DEF SpawnSupervisor
  <2>. USE DEF SameTrack
  <2>3. phase[t] = "SUPERVISOR_STARTING" /\ UNCHANGED vars /\ track[t].sidecar = "none"
    BY <1>9 DEF SpawnSupervisor, Lost
  <2>4. track[t].worktree = "ours" => track[t].branch
    BY <1>0 DEF TrackInv, WorkIsOurs
  <2>. QED  BY <1>2, <2>2, <2>3, <2>4 DEF PreparingPhases
\* The worktree was not added, and the cohort falls back.
<1>10. CASE AddWorktreeFails(t)
  <2>1. PICK b \in {track[t].branch, TRUE} : SetTrack(t, [track[t] EXCEPT !.branch = b])
    BY <1>10 DEF AddWorktreeFails
  <2>2. /\ track'[t] = [track[t] EXCEPT !.branch = b]
        /\ \A u \in Tracks \ {t} : track'[u] = track[u]
    BY <1>0, <2>1 DEF SetTrack
  <2>3. FallBack /\ frozenHeadSha' = frozenHeadSha /\ phase[t] = "PREPARE_INTENT"
    BY <1>10 DEF AddWorktreeFails, Recorded, PrepareFailed, shas
  <2>4. phase'[t] = "TEARDOWN_REQUESTED"
    BY <2>3 DEF FallBack, MarkTeardown
  <2>5. ASSUME NEW u \in Tracks \ {t}
        PROVE  TrackInv(u)'
    <3>1. phase'[u] = phase[u] \/ phase'[u] \in Neutral
      BY <2>3 DEF FallBack, MarkTeardown, Neutral
    <3>. QED  BY <1>0, <2>2, <2>3, <3>1, OtherKept, NeutralKept
  <2>6. /\ track'[t].worktree = track[t].worktree /\ (track[t].branch => track'[t].branch)
        /\ track'[t].dirty = track[t].dirty /\ track'[t].head = track[t].head
        /\ track'[t].wrapper = track[t].wrapper /\ track'[t].sidecar = track[t].sidecar
    BY <1>0, <2>1, <2>2 DEF TrackWorld
  <2>7. TrackInv(t)'
    BY <1>0, <2>4, <2>6
    DEF TrackInv, PlaceOfPhase, WorkIsOurs, ReadyStays, FrozenStays, NoDirectory, Working, Frozen
  <2>. QED  BY <2>5, <2>7
\* An identity of somebody else blocks the track.
<1>11. CASE ObserveSupervisor(t) /\ track[t].sidecar # "ready"
  BY <1>1, <1>11 DEF ObserveSupervisor, Drained, Recorded, SupervisorObserved, Neutral
<1>. QED  BY <1>3, <1>4, <1>5, <1>6, <1>7, <1>8, <1>9, <1>10, <1>11 DEF PrepareDriver

\* Nor was the journal of a track.
LEMMA JournalFailsKeeps ==
  ASSUME CohortTypeOK, WorldTypeOK, \A u \in Tracks : TrackInv(u), NEW t \in Tracks,
         InitTrackJournalFails(t)
  PROVE  \A u \in Tracks : TrackInv(u)'
<1>1. PICK j : track'[t] = [track[t] EXCEPT !.journal = j]
  BY JournalFailsType
<1>2. \A u \in Tracks \ {t} : track'[u] = track[u]
  BY JournalFailsType
<1>3. /\ FallBack /\ frozenHeadSha' = frozenHeadSha /\ repo' = repo
      /\ phase[t] = "WORKTREE_CREATED" /\ track[t] \in TrackWorld /\ TrackInv(t)
  BY DEF InitTrackJournalFails, Recorded, PrepareFailed, shas, WorldTypeOK
<1>4. ASSUME NEW u \in Tracks \ {t}
      PROVE  TrackInv(u)'
  <2>1. phase'[u] = phase[u] \/ phase'[u] \in Neutral
    BY <1>3 DEF FallBack, MarkTeardown, Neutral
  <2>. QED  BY <1>2, <1>3, <2>1, OtherKept, NeutralKept
<1>5. phase'[t] = "TEARDOWN_REQUESTED"
  BY <1>3 DEF FallBack, MarkTeardown
<1>6. /\ track'[t].worktree = track[t].worktree /\ track'[t].branch = track[t].branch
      /\ track'[t].dirty = track[t].dirty /\ track'[t].head = track[t].head
      /\ track'[t].wrapper = track[t].wrapper /\ track'[t].sidecar = track[t].sidecar
  BY <1>1, <1>3 DEF TrackWorld
<1>7. TrackInv(t)'
  BY <1>3, <1>5, <1>6
  DEF TrackInv, PlaceOfPhase, WorkIsOurs, ReadyStays, FrozenStays, NoDirectory, Working, Frozen
<1>. QED  BY <1>4, <1>7

LEMMA ForeignIdentityKeeps ==
  ASSUME WorldTypeOK, \A u \in Tracks : TrackInv(u), NEW t \in Tracks, ForeignIdentity(t)
  PROVE  \A u \in Tracks : TrackInv(u)'
<1>1. /\ track'[t] = [track[t] EXCEPT !.sidecar = "foreign"] /\ track[t] \in TrackWorld
      /\ \A u \in Tracks \ {t} : track'[u] = track[u]
  BY ForeignIdentityType DEF WorldTypeOK
<1>2. /\ phase' = phase /\ frozenHeadSha' = frozenHeadSha /\ repo' = repo
      /\ phase[t] \in PreparingPhases /\ TrackInv(t)
  BY DEF ForeignIdentity, Aside, vars
<1>3. /\ track'[t].worktree = track[t].worktree /\ track'[t].branch = track[t].branch
      /\ track'[t].dirty = track[t].dirty /\ track'[t].head = track[t].head
      /\ track'[t].wrapper = track[t].wrapper /\ track'[t].sidecar = "foreign"
  BY <1>1 DEF TrackWorld
<1>4. TrackInv(t)'
  BY <1>2, <1>3 DEF TrackInv, PlaceOfPhase, WorkIsOurs, ReadyStays, FrozenStays, NoDirectory,
     PreparingPhases, Working, Frozen
<1>. QED  BY <1>1, <1>2, <1>4, OtherKept
\* A track that works goes on working, is frozen where it recorded its HEAD,
\* or is merged.
LEMMA WorkingKept ==
  ASSUME NEW t \in Tracks, TrackInv(t), phase[t] \in Working, phase'[t] \in Working,
         track'[t] = track[t], repo.merged \subseteq repo'.merged,
         phase'[t] \in Frozen =>
            track[t].freeze = "frozen" /\ track[t].head = frozenHeadSha'[t],
         phase'[t] \in {"MERGED_UNVERIFIED", "JOINED"} => InPlan(t)'
  PROVE  TrackInv(t)'
<1>1. PlaceOfPhase(t)'
  BY DEF PlaceOfPhase, Working, Frozen, NoDirectory
<1>2. WorkIsOurs(t)' /\ ReadyStays(t)'
  BY DEF TrackInv, WorkIsOurs, ReadyStays, Working, Frozen
<1>3. FrozenStays(t)'
  BY DEF FrozenStays
<1>. QED  BY <1>1, <1>2, <1>3 DEF TrackInv

\* First match first: what decideJoinReconciliation found in the world.
LEMMA DecisionFacts ==
  ASSUME NEW t, NEW mergeHead, NEW planHead, NEW anc \in BOOLEAN
  PROVE  /\ JoinDecision(t, mergeHead, planHead, anc) = "retry-merge" =>
               mergeHead = NoSha /\ planHead = expectedPlanHeadSha[t] /\ ~anc
         /\ JoinDecision(t, mergeHead, planHead, anc) = "abort-own-merge" =>
               mergeHead = frozenHeadSha[t]
         /\ JoinDecision(t, mergeHead, planHead, anc) = "accept-merge" =>
               mergeHead = NoSha /\ anc
  BY DEF JoinDecision

\* A merge the reducer accepts is of a track that is in the plan; one that
\* blocks promises nothing.
LEMMA JoinObservedKeeps ==
  ASSUME CohortTypeOK, \A u \in Tracks : TrackInv(u), NEW t \in Tracks,
         NEW mergeHead, NEW planHead, NEW anc \in BOOLEAN,
         JoinObserved(t, mergeHead, planHead, anc), anc => InPlan(t)',
         track' = track, repo.merged \subseteq repo'.merged
  PROVE  \A u \in Tracks : TrackInv(u)'
<1>1. /\ phase \in [Tracks -> TrackPhases] /\ phase[t] = "JOIN_INTENT"
      /\ frozenHeadSha' = frozenHeadSha
  BY DEF CohortTypeOK, TypeOK, JoinObserved, MergeDue, First, In
<1>2. \/ phase' = [phase EXCEPT ![t] = "MERGED_UNVERIFIED"] /\ anc
      \/ phase' = [phase EXCEPT ![t] = "BLOCKED"]
  BY DecisionFacts DEF JoinObserved, SetPhase
<1>3. \A u \in Tracks \ {t} : phase'[u] = phase[u]
  BY <1>1, <1>2
<1>4. TrackInv(t)'
  <2>1. CASE phase'[t] = "MERGED_UNVERIFIED" /\ anc
    <3>1. track[t].freeze = "frozen" /\ track[t].head = frozenHeadSha[t]
      BY <1>1 DEF TrackInv, FrozenStays, Frozen
    <3>. QED  BY <1>1, <2>1, <3>1, WorkingKept DEF Working, Frozen
  <2>2. CASE phase'[t] = "BLOCKED"
    BY <2>2, NeutralKept DEF Neutral
  <2>. QED  BY <1>1, <1>2, <2>1, <2>2
<1>. QED  BY <1>1, <1>3, <1>4, OtherKept

LEMMA JoinKeeps ==
  ASSUME CohortTypeOK, \A u \in Tracks : TrackInv(u), NEW t \in Tracks, JoinDriver(t)
  PROVE  \A u \in Tracks : TrackInv(u)'
<1>0. /\ track \in [Tracks -> TrackWorld] /\ track[t] \in TrackWorld
      /\ phase \in [Tracks -> TrackPhases] /\ frozenHeadSha \in [Tracks -> Shas \union {NoSha}]
      /\ TrackInv(t)
      /\ repo \in [head : Shas, mergeHead : Shas \union {NoSha}, merged : SUBSET Tracks]
  BY DEF CohortTypeOK, TypeOK
<1>1. ASSUME NEW p \in {"ACTIVE", "JOIN_REQUESTED", "FROZEN", "JOIN_INTENT"}, phase[t] \in Working,
             phase' = [phase EXCEPT ![t] = p], track' = track, repo' = repo,
             \A u \in Tracks \ {t} : frozenHeadSha'[u] = frozenHeadSha[u],
             p \in Frozen => track[t].freeze = "frozen" /\ track[t].head = frozenHeadSha'[t]
      PROVE  \A u \in Tracks : TrackInv(u)'
  <2>1. phase'[t] = p /\ \A u \in Tracks \ {t} : phase'[u] = phase[u]
    BY <1>0, <1>1
  <2>2. TrackInv(t)'
    BY <1>0, <1>1, <2>1, WorkingKept DEF Working, Frozen
  <2>. QED  BY <1>1, <2>1, <2>2, OtherKept
<1>2. ASSUME UNCHANGED <<vars, track>>, repo.merged \subseteq repo'.merged
      PROVE  \A u \in Tracks : TrackInv(u)'
  BY <1>2, OtherKept DEF vars
<1>3. CASE Drained(ActivateTrack(t))
  BY <1>1, <1>3 DEF Drained, Recorded, ActivateTrack, ActivateTrackDue, First, In, SetPhase, shas,
     Working, Frozen
<1>4. CASE TakeJoin(t)
  BY <1>1, <1>2, <1>4 DEF TakeJoin, JoinRequested, SetPhase, shas, Working, Frozen
<1>5. CASE EmitFreezeRequest(t)
  <2>1. /\ phase' = phase /\ frozenHeadSha' = frozenHeadSha /\ repo' = repo
        /\ track[t].freeze = "no"
        /\ track'[t] = [track[t] EXCEPT !.freeze = "pending"]
        /\ \A u \in Tracks \ {t} : track'[u] = track[u]
    BY <1>0, <1>5 DEF EmitFreezeRequest, SetTrack, vars
  <2>2. track[t].dirty => track[t].worktree = "ours"
    BY <1>0 DEF TrackInv, WorkIsOurs
  <2>3. ProcessWrote(t)
    BY <1>0, <2>1, <2>2 DEF ProcessWrote, TrackWorld
  <2>. QED  BY <1>0, <2>1, <2>3, PlaceKept, OtherKept
<1>6. CASE AcceptFreeze(t)
  <2>1. FreezeObserved(t, track[t].head) /\ track' = track /\ repo' = repo /\ track[t].freeze = "frozen"
    BY <1>6 DEF AcceptFreeze, Drained, Recorded
  <2>2. phase[t] \in Working /\ phase' = [phase EXCEPT ![t] = "FROZEN"]
    BY <2>1 DEF FreezeObserved, FreezeDue, First, In, SetPhase, Working
  <2>3. frozenHeadSha'[t] = track[t].head
        /\ \A u \in Tracks \ {t} : frozenHeadSha'[u] = frozenHeadSha[u]
    BY <1>0, <2>1 DEF FreezeObserved
  <2>. QED  BY <1>1, <2>1, <2>2, <2>3
<1>7. CASE Drained(PersistJoinIntent(t))
  <2>1. PersistJoinIntent(t) /\ track' = track /\ repo' = repo
    BY <1>7 DEF Drained, Recorded
  <2>2. /\ phase[t] = "FROZEN" /\ phase' = [phase EXCEPT ![t] = "JOIN_INTENT"]
        /\ frozenHeadSha' = frozenHeadSha
    BY <2>1 DEF PersistJoinIntent, JoinIntentDue, First, In, SetPhase
  <2>3. track[t].freeze = "frozen" /\ track[t].head = frozenHeadSha[t]
    BY <1>0, <2>2 DEF TrackInv, FrozenStays, Frozen
  <2>. QED  BY <1>1, <2>1, <2>2, <2>3 DEF Working, Frozen
<1>8. CASE EnsureIntegrationLock(t)
  BY <1>2, <1>8 DEF EnsureIntegrationLock
<1>9. CASE BeginMerge(t) \/ MergeConflicts(t) \/ MergeRefused(t) \/ AbortOwnMerge(t)
  <2>1. UNCHANGED <<vars, track>> /\ repo'.merged = repo.merged
    BY <1>0, <1>9 DEF BeginMerge, MergeConflicts, MergeRefused, GitMerge, AbortOwnMerge, Merging, Lost
  <2>. QED  BY <1>2, <2>1
<1>10. CASE MergeTrack(t)
  <2>1. UNCHANGED <<vars, track>> /\ repo'.merged = repo.merged \union {t}
    BY <1>0, <1>10 DEF MergeTrack, GitMerge
  <2>. QED  BY <1>2, <2>1
<1>12. CASE ObserveMerge(t) /\ UNCHANGED vars
  BY <1>2, <1>12 DEF ObserveMerge
<1>11. CASE SettleMerge(t) \/ (ObserveMerge(t) /\ ~UNCHANGED vars)
  <2>1. /\ track' = track /\ repo' = repo
        /\ JoinObserved(t, repo.mergeHead, repo.head, TrackIsAncestor(t))
    BY <1>11 DEF SettleMerge, ObserveMerge, Merging, Recorded
  <2>2. TrackIsAncestor(t) \in BOOLEAN /\ (TrackIsAncestor(t) => InPlan(t)')
    BY <2>1 DEF TrackIsAncestor, InPlan
  <2>. QED  BY <2>1, <2>2, JoinObservedKeeps
<1>. QED  BY <1>3, <1>4, <1>5, <1>6, <1>7, <1>8, <1>9, <1>10, <1>11, <1>12 DEF JoinDriver
LEMMA TeardownKeeps ==
  ASSUME CohortTypeOK, \A u \in Tracks : TrackInv(u), NEW t \in Tracks, TeardownDriver(t)
  PROVE  \A u \in Tracks : TrackInv(u)'
<1>0. /\ track \in [Tracks -> TrackWorld] /\ track[t] \in TrackWorld
      /\ phase \in [Tracks -> TrackPhases] /\ TypeOK
      /\ TrackInv(t)
  BY DEF CohortTypeOK, TypeOK
\* The driver concerns the track whose teardown is due, and the merges stay.
<1>1. ASSUME NEW p, phase' = [phase EXCEPT ![t] = p],
             UNCHANGED <<frozenHeadSha, repo>>,
             \A u \in Tracks \ {t} : track'[u] = track[u],
             TrackInv(t)'
      PROVE  \A u \in Tracks : TrackInv(u)'
  BY <1>0, <1>1, OtherKept
<1>2. ASSUME UNCHANGED <<vars, repo>>, \A u \in Tracks \ {t} : track'[u] = track[u], TrackInv(t)'
      PROVE  \A u \in Tracks : TrackInv(u)'
  BY <1>2, OtherKept DEF vars
<1>3. CASE TakeTeardown(t)
  <2>1. track' = track /\ repo' = repo /\ (TeardownRequested \/ UNCHANGED vars)
    BY <1>3 DEF TakeTeardown
  <2>2. CASE TeardownRequested
    BY <1>0, <2>1, <2>2, FallBackKeeps DEF TeardownRequested, shas
  <2>3. CASE UNCHANGED vars
    BY <2>1, <2>3, OtherKept DEF vars
  <2>. QED  BY <2>1, <2>2, <2>3
<1>4. CASE Drained(BeginTeardown(t))
  <2>1. /\ phase' = [phase EXCEPT ![t] = "TEARDOWN_INTENT"]
        /\ UNCHANGED <<frozenHeadSha, repo, track>>
    BY <1>4 DEF Drained, Recorded, BeginTeardown, SetPhase, shas
  <2>2. TrackInv(t)'
    BY <1>0, <2>1, NeutralKept DEF Neutral
  <2>. QED  BY <1>1, <2>1, <2>2
\* What was observed proves the phase it leads to.
<1>5. CASE ObserveTeardown(t)
  <2>1. TeardownObserved(t, Gathered(t)) /\ track' = track /\ repo' = repo
    BY <1>5 DEF ObserveTeardown, Drained, Recorded
  <2>2. /\ phase' = [phase EXCEPT ![t] = ProvenPhase(phase[t], Gathered(t))]
        /\ frozenHeadSha' = frozenHeadSha
        /\ ProvenPhase(phase[t], Gathered(t)) # phase[t]
    BY <2>1 DEF TeardownObserved, SetPhase, shas
  <2>3. LET q == ProvenPhase(phase[t], Gathered(t))
        IN  \/ q \in {"BLOCKED", "SUPERVISOR_STOPPED"}
            \/ q = "WORKTREE_REMOVED" /\ track[t].worktree # "ours"
            \/ q = "BRANCH_REMOVED" /\ phase[t] = "WORKTREE_REMOVED" /\ ~track[t].branch
            \/ q = "REMOVED" /\ phase[t] = "BRANCH_REMOVED"
    BY <2>2 DEF ProvenPhase, Gathered
  <2>4. TrackInv(t)'
    <3>1. phase'[t] = ProvenPhase(phase[t], Gathered(t))
      BY <1>0, <2>2
    <3>2. CASE phase'[t] \in {"BLOCKED", "SUPERVISOR_STOPPED"}
      BY <1>0, <2>1, <3>2, NeutralKept DEF Neutral
    <3>3. CASE /\ phase'[t] \in NoDirectory /\ track[t].worktree # "ours"
               /\ phase'[t] \in {"BRANCH_REMOVED", "REMOVED"} => ~track[t].branch
      BY <1>0, <2>1, <2>2, <3>3
      DEF TrackInv, PlaceOfPhase, WorkIsOurs, ReadyStays, FrozenStays, NoDirectory, Working, Frozen
    <3>4. PlaceOfPhase(t)
      BY <1>0 DEF TrackInv
    <3>. QED  BY <2>3, <3>1, <3>2, <3>3, <3>4 DEF PlaceOfPhase, NoDirectory
  <2>. QED  BY <1>1, <2>1, <2>2, <2>4
<1>6. CASE StopOwnSupervisor(t)
  <2>. DEFINE o == [Gathered(t) EXCEPT !.supervisorAlive = FALSE]
  <2>1. /\ phase[t] = "TEARDOWN_INTENT"
        /\ TeardownObserved(t, o) \/ UNCHANGED vars
        /\ repo' = repo
    BY <1>6 DEF StopOwnSupervisor, TeardownAt, Recorded, Lost
  <2>2. ~o.foreign /\ ~o.supervisorAlive
    BY <2>1 DEF Gathered
  <2>3. ProvenPhase("TEARDOWN_INTENT", o) = "SUPERVISOR_STOPPED"
    BY <2>2 DEF ProvenPhase
  <2>. HIDE DEF o
  <2>4. /\ frozenHeadSha' = frozenHeadSha
        /\ phase' = [phase EXCEPT ![t] = "SUPERVISOR_STOPPED"] \/ UNCHANGED vars
    BY <2>1, <2>3 DEF TeardownObserved, SetPhase, shas, vars
  <2>5. PICK w, k : /\ SetTrack(t, [track[t] EXCEPT !.lock = k, !.wrapper = w])
                    /\ w \in {"off", track[t].wrapper}
    <3>1. CASE track[t].ref = "none"
      <4>1. track[t] = [track[t] EXCEPT !.lock = track[t].lock, !.wrapper = track[t].wrapper]
        BY <1>0 DEF TrackWorld
      <4>2. SetTrack(t, track[t])
        BY <1>6, <3>1 DEF StopOwnSupervisor
      <4>3. SetTrack(t, [track[t] EXCEPT !.lock = track[t].lock, !.wrapper = track[t].wrapper])
        BY <4>1, <4>2, Zenon
      <4>. QED  BY <4>3, Zenon
    <3>2. CASE track[t].ref # "none" /\ WrapperAlive(t)
      <4>1. SetTrack(t, [track[t] EXCEPT !.lock = "free", !.wrapper = "off"])
        BY <1>6, <3>2 DEF StopOwnSupervisor
      <4>. QED  BY <4>1, Zenon
    <3>3. CASE track[t].ref # "none" /\ ~WrapperAlive(t)
      <4>1. SetTrack(t, [track[t] EXCEPT !.lock = "free", !.wrapper = track[t].wrapper])
        BY <1>6, <3>3 DEF StopOwnSupervisor
      <4>. QED  BY <4>1, Zenon
    <3>. QED  BY <3>1, <3>2, <3>3, Zenon
  <2>6. /\ track'[t] = [track[t] EXCEPT !.lock = k, !.wrapper = w]
        /\ \A u \in Tracks \ {t} : track'[u] = track[u]
    BY <1>0, <2>5 DEF SetTrack
  <2>7. track[t].dirty => track[t].worktree = "ours"
    BY <1>0 DEF TrackInv, WorkIsOurs
  <2>8. ProcessWrote(t)
    BY <1>0, <2>5, <2>6, <2>7 DEF ProcessWrote, TrackWorld
  <2>9. phase'[t] = phase[t] \/ phase'[t] \in Neutral
    BY <1>0, <2>4 DEF vars, Neutral
  <2>10. TrackInv(t)'
    BY <1>0, <2>1, <2>4, <2>8, <2>9, PlaceKept
  <2>. QED  BY <1>1, <1>2, <2>1, <2>4, <2>6, <2>10
\* A clean worktree is removed; its branch, and with it the work, stays.
<1>7. CASE RemoveWorktree(t)
  <2>1. CASE track[t].dirty
    <3>1. /\ phase' = [phase EXCEPT ![t] = "BLOCKED"]
          /\ UNCHANGED <<frozenHeadSha, repo, track>>
      BY <1>7, <2>1 DEF RemoveWorktree, Recorded, TeardownFailed, SetPhase, shas
    <3>2. TrackInv(t)'
      BY <1>0, <3>1, NeutralKept DEF Neutral
    <3>. QED  BY <1>1, <3>1, <3>2
  <2>2. CASE ~track[t].dirty
    <3>. DEFINE o == [Gathered(t) EXCEPT !.worktreeExists = FALSE]
    <3>1. /\ phase[t] = "SUPERVISOR_STOPPED" /\ repo' = repo
          /\ TeardownObserved(t, o) \/ UNCHANGED vars
          /\ SetTrack(t, WithoutWorktree(track[t]))
          /\ ~Gathered(t).foreign
      BY <1>7, <2>2 DEF RemoveWorktree, TeardownAt, Recorded, Lost
    <3>2. ~o.foreign /\ ~o.worktreeExists
      BY <3>1 DEF Gathered
    <3>3. ProvenPhase("SUPERVISOR_STOPPED", o) = "WORKTREE_REMOVED"
      BY <3>2 DEF ProvenPhase
    <3>. HIDE DEF o
    <3>4. /\ frozenHeadSha' = frozenHeadSha
          /\ phase' = [phase EXCEPT ![t] = "WORKTREE_REMOVED"] \/ UNCHANGED vars
      BY <3>1, <3>3 DEF TeardownObserved, SetPhase, shas, vars
    <3>5. /\ track'[t] = WithoutWorktree(track[t])
          /\ \A u \in Tracks \ {t} : track'[u] = track[u]
      BY <1>0, <3>1 DEF SetTrack
    <3>6. /\ track'[t].worktree = "none" /\ track'[t].branch = track[t].branch
          /\ track'[t].dirty = FALSE /\ track'[t].head = track[t].head
      BY <1>0, <2>2, <3>5 DEF WithoutWorktree, TrackWorld
    <3>7. phase'[t] \in {"WORKTREE_REMOVED", "SUPERVISOR_STOPPED"}
      BY <1>0, <3>1, <3>4 DEF vars
    <3>8. TrackInv(t)'
      BY <1>0, <3>1, <3>6, <3>7
      DEF TrackInv, PlaceOfPhase, WorkIsOurs, ReadyStays, FrozenStays, Working, Frozen
    <3>. QED  BY <1>1, <1>2, <3>1, <3>4, <3>5, <3>8
  <2>. QED  BY <2>1, <2>2
\* A branch the plan contains is removed; one it does not contain blocks.
<1>8. CASE RemoveBranch(t)
  <2>1. CASE ~InPlan(t)
    <3>1. /\ phase' = [phase EXCEPT ![t] = "BLOCKED"]
          /\ UNCHANGED <<frozenHeadSha, repo, track>>
      BY <1>8, <2>1 DEF RemoveBranch, Recorded, TeardownFailed, SetPhase, shas
    <3>2. TrackInv(t)'
      BY <1>0, <3>1, NeutralKept DEF Neutral
    <3>. QED  BY <1>1, <3>1, <3>2
  <2>2. CASE InPlan(t)
    <3>. DEFINE o == [Gathered(t) EXCEPT !.branchExists = FALSE]
    <3>1. /\ phase[t] = "WORKTREE_REMOVED" /\ repo' = repo
          /\ TeardownObserved(t, o) \/ UNCHANGED vars
          /\ SetTrack(t, [track[t] EXCEPT !.branch = FALSE])
      BY <1>8, <2>2 DEF RemoveBranch, TeardownAt, Recorded, Lost
    <3>2. ~o.foreign /\ ~o.branchExists
      BY <3>1 DEF Gathered
    <3>3. ProvenPhase("WORKTREE_REMOVED", o) = "BRANCH_REMOVED"
      BY <3>2 DEF ProvenPhase
    <3>. HIDE DEF o
    <3>4. /\ frozenHeadSha' = frozenHeadSha
          /\ phase' = [phase EXCEPT ![t] = "BRANCH_REMOVED"] \/ UNCHANGED vars
      BY <3>1, <3>3 DEF TeardownObserved, SetPhase, shas, vars
    <3>5. /\ track'[t] = [track[t] EXCEPT !.branch = FALSE]
          /\ \A u \in Tracks \ {t} : track'[u] = track[u]
      BY <1>0, <3>1 DEF SetTrack
    <3>6. /\ track'[t].worktree = track[t].worktree /\ ~track'[t].branch
          /\ track'[t].dirty = track[t].dirty /\ track'[t].head = track[t].head
      BY <1>0, <3>5 DEF TrackWorld
    <3>7. phase'[t] \in {"WORKTREE_REMOVED", "BRANCH_REMOVED"}
      BY <1>0, <3>1, <3>4 DEF vars
    <3>8. TrackInv(t)'
      BY <1>0, <2>2, <3>1, <3>6, <3>7
      DEF TrackInv, PlaceOfPhase, WorkIsOurs, ReadyStays, FrozenStays, NoDirectory, InPlan, Working,
          Frozen
    <3>. QED  BY <1>1, <1>2, <3>1, <3>4, <3>5, <3>8
  <2>. QED  BY <2>1, <2>2
<1>. QED  BY <1>3, <1>4, <1>5, <1>6, <1>7, <1>8 DEF TeardownDriver

LEMMA FinalKeeps ==
  ASSUME CohortTypeOK, IInv, \A u \in Tracks : TrackInv(u), FinalDriver \/ Drained(EnterSerial)
  PROVE  \A u \in Tracks : TrackInv(u)'
<1>1. track' = track /\ repo' = repo /\ frozenHeadSha' = frozenHeadSha
  BY DEF FinalDriver, RequestGlobalQa, AcceptGlobalQa, PauseForIntegration, RequestIntegration,
     AcceptIntegration, RunFinalInterlock, Drained, Recorded, ActivateCohort, GlobalQaPass,
     IntegrationPass, InterlockPass, EnterSerial, shas, vars
<1>2. CASE phase' = phase
  BY <1>1, <1>2, OtherKept
<1>3. CASE InterlockPass
  <2>1. \A u \in Tracks : /\ phase[u] \in {"MERGED_UNVERIFIED", "ABSENT"}
                          /\ phase'[u] = IF phase[u] = "ABSENT" THEN "ABSENT" ELSE "JOINED"
    BY <1>3 DEF InterlockPass, FinalInterlockDue, IInv, PhasesAgree, AllIn, Declared, Finalizing
  <2>2. ASSUME NEW u \in Tracks, phase[u] = "MERGED_UNVERIFIED"
        PROVE  TrackInv(u)'
    <3>1. phase'[u] = "JOINED"
      BY <2>1, <2>2
    <3>2. track[u].freeze = "frozen" /\ track[u].head = frozenHeadSha[u] /\ InPlan(u)
      BY <2>2 DEF TrackInv, FrozenStays, Frozen
    <3>3. InPlan(u)'
      BY <1>1, <3>2 DEF InPlan
    <3>. QED  BY <1>1, <2>2, <3>1, <3>2, <3>3, WorkingKept DEF Working, Frozen
  <2>3. ASSUME NEW u \in Tracks, phase[u] = "ABSENT"
        PROVE  TrackInv(u)'
    BY <1>1, <2>1, <2>3, OtherKept
  <2>. QED  BY <2>1, <2>2, <2>3
<1>4. phase' = phase \/ InterlockPass
  BY DEF FinalDriver, RequestGlobalQa, AcceptGlobalQa, PauseForIntegration, RequestIntegration,
     AcceptIntegration, RunFinalInterlock, Drained, Recorded, ActivateCohort, GlobalQaPass,
     IntegrationPass, EnterSerial, vars
<1>. QED  BY <1>2, <1>3, <1>4

LEMMA PlanSideKeeps ==
  ASSUME CohortTypeOK, \A u \in Tracks : TrackInv(u),
         Controller \/ LaunchController \/ IntegrationEnds \/ Crash \/ ForeignMerge
  PROVE  \A u \in Tracks : TrackInv(u)'
<1>1. CASE \E t \in Tracks : AddTrack(t)
  <2>1. PICK t \in Tracks : AddTrack(t)
    BY <1>1
  <2>2. /\ phase[t] = "ABSENT" /\ phase' = [phase EXCEPT ![t] = "DECLARED"]
        /\ UNCHANGED <<frozenHeadSha, track, repo>>
    BY <2>1 DEF AddTrack, DeclareTrack, SetPhase, world
  <2>3. phase'[t] = "DECLARED" /\ \A u \in Tracks \ {t} : phase'[u] = phase[u]
    BY <2>2 DEF CohortTypeOK, TypeOK
  <2>4. TrackInv(t)'
    BY <2>2, <2>3
    DEF TrackInv, PlaceOfPhase, WorkIsOurs, ReadyStays, FrozenStays, NoDirectory, Working, Frozen
  <2>. QED  BY <2>2, <2>3, <2>4, OtherKept
<1>2. CASE /\ ~\E t \in Tracks : AddTrack(t)
           /\ Controller \/ LaunchController \/ IntegrationEnds \/ Crash \/ ForeignMerge
  <2>1. UNCHANGED <<vars, track>> /\ repo'.merged = repo.merged
    BY <1>2 DEF Controller, ReportQa, ControllerCommits, RequestJoin, RequestTeardown,
       LaunchController, IntegrationEnds, Crash, ForeignMerge, CohortTypeOK
  <2>. QED  BY <2>1, OtherKept DEF vars
<1>. QED  BY <1>1, <1>2

LEMMA TracksKeep ==
  ASSUME CohortTypeOK, IInv, \A u \in Tracks : TrackInv(u), [CohortNextStep]_cohortVars
  PROVE  \A u \in Tracks : TrackInv(u)'
<1>0. WorldTypeOK
  BY DEF CohortTypeOK, WorldTypeOK, SupWorld
<1>1. CASE FinalDriver \/ Drained(EnterSerial)
  BY <1>1, FinalKeeps
<1>2. ASSUME NEW t \in Tracks, PrepareDriver(t) \/ JoinDriver(t) \/ TeardownDriver(t)
      PROVE  \A u \in Tracks : TrackInv(u)'
  BY <1>0, <1>2, PrepareKeeps, JoinKeeps, TeardownKeeps
<1>3. CASE Controller \/ LaunchController \/ IntegrationEnds \/ Crash \/ ForeignMerge
  BY <1>3, PlanSideKeeps
<1>4. ASSUME NEW t \in Tracks,
             \/ Wrapper(t) \/ WrapperCrashes(t) \/ Watch(t) \/ WatchTakesFreeze(t)
             \/ WatchRejectsFreeze(t) \/ WatchCrashes(t) \/ OperatorRestartsWatch(t) \/ Work(t)
      PROVE  \A u \in Tracks : TrackInv(u)'
  BY <1>0, <1>4, AsideKeeps
<1>5. CASE UNCHANGED cohortVars
  BY <1>5, OtherKept DEF cohortVars, world, vars
<1>6. ASSUME NEW t \in Tracks, InitTrackJournalFails(t) \/ ForeignIdentity(t)
      PROVE  \A u \in Tracks : TrackInv(u)'
  BY <1>0, <1>6, JournalFailsKeeps, ForeignIdentityKeeps
<1>. QED  BY <1>1, <1>2, <1>3, <1>4, <1>5, <1>6 DEF CohortNextStep, Driver
-----------------------------------------------------------------------------
(* The barrier (C1).  A track comes past it only when it is activated, and *)
(* a worktree is added only before.                                        *)

\* What a step does to a track that it does not activate and whose worktree it
\* does not add.
StaysBehind(t) ==
    /\ Runs(t)' => Ahead(t)
    /\ track'[t].worktree = "ours" =>
          /\ track[t].worktree = "ours"
          /\ track[t].sidecar = "ready" => track'[t].sidecar = "ready"

\* A step adds a worktree where no path is, and removes a clean one of our own.
KeepsPlace(t) ==
    \/ track'[t].worktree = track[t].worktree
    \/ track[t].worktree = "none" /\ track'[t].worktree = "ours" /\ ~track[t].dirty
    \/ track[t].worktree = "ours" /\ ~track[t].dirty

\* The reducer brings a track past the barrier by activating it and no other way.
LEMMA PhasesAhead ==
  ASSUME IInv, [Next]_vars
  PROVE  /\ cohortPhase' \in {"NONE", "PREPARING"} => cohortPhase \in {"NONE", "PREPARING"}
         /\ \A u \in Tracks : phase'[u] \in Working \ {"ARMED"} =>
               phase[u] \in Working \ {"ARMED"} \/ ActivateTrack(u)
<1>. DEFINE Kept == /\ cohortPhase' \in {"NONE", "PREPARING"} => cohortPhase \in {"NONE", "PREPARING"}
                    /\ \A u \in Tracks : phase'[u] \in Working \ {"ARMED"} =>
                          phase[u] \in Working \ {"ARMED"} \/ ActivateTrack(u)
<1>0. phase \in [Tracks -> TrackPhases]
  BY DEF IInv, TypeOK
<1>1. ASSUME NEW t \in Tracks, NEW p, SetPhase(t, p), p \notin Working \ {"ARMED"}
      PROVE  \A u \in Tracks : phase'[u] \in Working \ {"ARMED"} => phase[u] \in Working \ {"ARMED"}
  BY <1>0, <1>1 DEF SetPhase
<1>2. ASSUME NEW t \in Tracks, NEW head \in Shas, DeclareTrack(t, head)
      PROVE  Kept
  <2>1. cohortPhase' \in {"NONE", "PREPARING"} => cohortPhase \in {"NONE", "PREPARING"}
    BY <1>2 DEF DeclareTrack
  <2>. QED  BY <1>1, <1>2, <2>1 DEF DeclareTrack, Working, Frozen
<1>3. CASE FallBack
  <2>1. \A u \in Tracks : phase'[u] \notin Working
    BY <1>0, <1>3 DEF FallBack, MarkTeardown, TrackPhases, PreparingPhases, TeardownPhases, Working, Frozen
  <2>. QED  BY <1>3, <2>1 DEF FallBack
<1>4. ASSUME NEW t \in Tracks, PrepareNext(t)
      PROVE  Kept
  <2>1. CASE PrepareFailed(t)
    BY <1>3, <2>1 DEF PrepareFailed
  <2>2. CASE ~PrepareFailed(t)
    <3>1. PICK from, to : PrepareStep(t, from, to) /\ to \notin Working \ {"ARMED"}
      BY <1>4, <2>2 DEF PrepareNext, PersistPrepareIntent, WorktreeObserved, CreateTrackJournal,
         PersistSupervisorIntent, SupervisorObserved, Working, Frozen
    <3>. QED  BY <1>1, <3>1 DEF PrepareStep
  <2>. QED  BY <2>1, <2>2
<1>5. ASSUME NEW t \in Tracks, JoinNext(t)
      PROVE  Kept
  <2>1. CASE ActivateTrack(t)
    BY <1>0, <2>1 DEF ActivateTrack, SetPhase
  <2>2. CASE ~ActivateTrack(t)
    <3>1. /\ phase[t] \in Working \ {"ARMED"}
          /\ \E p : SetPhase(t, p)
          /\ cohortPhase' \in {cohortPhase, "JOINING", "BLOCKED"}
      BY <1>5, <2>2 DEF JoinNext, JoinRequested, FreezeObserved, FreezeDue, PersistJoinIntent,
         JoinIntentDue, JoinObserved, MergeDue, First, In, Working, Frozen
    <3>. QED  BY <1>0, <3>1 DEF SetPhase
  <2>. QED  BY <2>1, <2>2
<1>6. ASSUME NEW t \in Tracks, TeardownNext(t)
      PROVE  Kept
  <2>1. /\ \E p : SetPhase(t, p) /\ p \notin Working
        /\ cohortPhase' \in {cohortPhase, "BLOCKED"}
    <3>1. ASSUME NEW o \in TeardownObservation
          PROVE  phase[t] \in TeardownPhases => ProvenPhase(phase[t], o) \notin Working
      BY DEF ProvenPhase, TeardownPhases, Working, Frozen
    <3>2. "TEARDOWN_INTENT" \notin Working /\ "BLOCKED" \notin Working
      BY DEF Working, Frozen
    <3>. QED  BY <1>6, <3>1, <3>2 DEF TeardownNext, BeginTeardown, TeardownObserved, TeardownFailed
  <2>. QED  BY <1>1, <2>1
<1>7. CASE CohortNext
  <2>1. CASE InterlockPass
    <3>1. \A u \in Tracks : phase'[u] # "ABSENT" => phase[u] = "MERGED_UNVERIFIED"
      BY <2>1 DEF InterlockPass, FinalInterlockDue, IInv, PhasesAgree, AllIn, Declared, Finalizing
    <3>2. "ABSENT" \notin Working /\ "MERGED_UNVERIFIED" \in Working \ {"ARMED"}
      BY DEF Working, Frozen
    <3>. QED  BY <2>1, <3>1, <3>2 DEF InterlockPass
  <2>2. CASE TeardownRequested
    BY <1>3, <2>2 DEF TeardownRequested
  <2>3. CASE ActivateCohort \/ EnterSerial \/ \E head \in Shas : GlobalQaPass(head) \/ IntegrationPass(head)
    BY <2>3 DEF ActivateCohort, EnterSerial, GlobalQaPass, IntegrationPass
  <2>. QED  BY <1>7, <2>1, <2>2, <2>3 DEF CohortNext
<1>8. CASE UNCHANGED vars
  BY <1>8 DEF vars
<1>. QED  BY <1>2, <1>4, <1>5, <1>6, <1>7, <1>8 DEF Next

\* A process of a track makes it run only past the barrier, and its one claim
\* is written before it is ready.
LEMMA AsideStaysBehind ==
  ASSUME WorldTypeOK, NEW t \in Tracks, TrackInv(t),
         \/ Wrapper(t) \/ WrapperCrashes(t) \/ Watch(t) \/ WatchTakesFreeze(t)
         \/ WatchRejectsFreeze(t) \/ WatchCrashes(t) \/ OperatorRestartsWatch(t) \/ Work(t)
  PROVE  StaysBehind(t) /\ KeepsPlace(t)
<1>1. track \in [Tracks -> TrackWorld] /\ track[t] \in TrackWorld
  BY DEF WorldTypeOK
<1>2. \A r : SetTrack(t, r) => track'[t] = r
  BY <1>1 DEF SetTrack
<1>. USE <1>1, <1>2 DEF StaysBehind, KeepsPlace, Ahead, Runs, TrackWorld
<1>3. CASE WrapperPrepares(t)
  <2>1. track[t].wrapper = "started" /\ track[t].worktree = "ours" => track[t].sidecar # "ready"
    BY DEF TrackInv, ReadyStays
  <2>. QED  BY <1>3, <2>1, ZenonT(60) DEF WrapperPrepares
<1>4. CASE WrapperLaunches(t)
  BY <1>4, ZenonT(60) DEF WrapperLaunches, LaunchPhases, Working, Frozen
<1>5. CASE WrapperExits(t)
  BY <1>5 DEF WrapperExits
<1>6. CASE WrapperCrashes(t)
  BY <1>6 DEF WrapperCrashes
<1>7. CASE WatchStarts(t)
  <2>1. \/ SetTrack(t, [track[t] EXCEPT !.watch = "running", !.lock = "held"])
        \/ SetTrack(t, [track[t] EXCEPT !.watch = "off"])
    BY <1>7, Zenon DEF WatchStarts
  <2>2. \/ track'[t] = [track[t] EXCEPT !.watch = "running", !.lock = "held"]
        \/ track'[t] = [track[t] EXCEPT !.watch = "off"]
    BY <1>2, <2>1, Zenon
  <2>3. track[t].watch = "starting"
    BY <1>7 DEF WatchStarts
  <2>. QED  BY <2>2, <2>3
<1>8. CASE WatchExits(t)
  BY <1>8 DEF WatchExits
<1>9. CASE CheckFreeze(t) \/ FinishFreeze(t) \/ WatchTakesFreeze(t) \/ WatchRejectsFreeze(t)
  BY <1>9 DEF CheckFreeze, FinishFreeze, WatchTakesFreeze, WatchRejectsFreeze
<1>10. CASE WatchCrashes(t)
  <2>1. PICK k, f : SetTrack(t, [track[t] EXCEPT !.watch = "off", !.lock = k, !.freeze = f])
    BY <1>10 DEF WatchCrashes
  <2>2. track'[t] = [track[t] EXCEPT !.watch = "off", !.lock = k, !.freeze = f]
    BY <1>2, <2>1, Zenon
  <2>3. track[t].watch = "running"
    BY <1>10 DEF WatchCrashes
  <2>. QED  BY <2>2, <2>3
<1>11. CASE OperatorRestartsWatch(t)
  BY <1>11 DEF OperatorRestartsWatch
<1>12. CASE Work(t)
  <2>1. \/ SetTrack(t, [track[t] EXCEPT !.dirty = TRUE])
        \/ SetTrack(t, [track[t] EXCEPT !.dirty = FALSE, !.head = TrackTip(t)])
    BY <1>12, Zenon DEF Work
  <2>2. \/ track'[t] = [track[t] EXCEPT !.dirty = TRUE]
        \/ track'[t] = [track[t] EXCEPT !.dirty = FALSE, !.head = TrackTip(t)]
    BY <1>2, <2>1, Zenon
  <2>. QED  BY <2>2
<1>. QED  BY <1>3, <1>4, <1>5, <1>6, <1>7, <1>8, <1>9, <1>10, <1>11, <1>12, ZenonT(60) DEF Wrapper, Watch

\* The driver runs no track and takes no readiness away but with its worktree.
LEMMA DriverStaysBehind ==
  ASSUME WorldTypeOK, NEW t \in Tracks, TrackInv(t),
         PrepareDriver(t) \/ JoinDriver(t) \/ TeardownDriver(t)
  PROVE  KeepsPlace(t) /\ (StaysBehind(t) \/ AddWorktree(t))
<1>1. track \in [Tracks -> TrackWorld] /\ track[t] \in TrackWorld
  BY DEF WorldTypeOK
<1>2. \A r : SetTrack(t, r) => track'[t] = r
  BY <1>1 DEF SetTrack
<1>3. track' = track => StaysBehind(t) /\ KeepsPlace(t)
  BY DEF StaysBehind, KeepsPlace, Ahead, Runs
<1>14. ASSUME track'[t].worktree = track[t].worktree, track'[t].sidecar = track[t].sidecar,
              track'[t].watch = track[t].watch, track'[t].lock \in {track[t].lock, "free"}
       PROVE  StaysBehind(t) /\ KeepsPlace(t)
  BY <1>1, <1>14 DEF TrackWorld, StaysBehind, KeepsPlace, Ahead, Runs
<1>4. CASE AddWorktreeFails(t)
  <2>1. PICK b : SetTrack(t, [track[t] EXCEPT !.branch = b])
    BY <1>4 DEF AddWorktreeFails
  <2>2. track'[t] = [track[t] EXCEPT !.branch = b]
    BY <1>2, <2>1, Zenon
  <2>3. /\ track'[t].worktree = track[t].worktree /\ track'[t].sidecar = track[t].sidecar
         /\ track'[t].watch = track[t].watch /\ track'[t].lock = track[t].lock
    BY <1>1, <2>2 DEF TrackWorld
  <2>. QED  BY <1>14, <2>3
<1>5. CASE InitTrackJournal(t)
  <2>1. PICK j, d : SetTrack(t, [track[t] EXCEPT !.journal = j, !.descriptor = d])
    <3>. DEFINE kind == IF t \in Bindable THEN "bound" ELSE "unbound"
    <3>1. \/ SetTrack(t, [track[t] EXCEPT !.journal = kind, !.descriptor = TRUE])
          \/ SetTrack(t, [track[t] EXCEPT !.journal = kind])
      BY <1>5 DEF InitTrackJournal
    <3>. HIDE DEF kind
    <3>2. [track[t] EXCEPT !.journal = kind]
             = [track[t] EXCEPT !.journal = kind, !.descriptor = track[t].descriptor]
      OBVIOUS
    <3>3. \/ SetTrack(t, [track[t] EXCEPT !.journal = kind, !.descriptor = TRUE])
          \/ SetTrack(t, [track[t] EXCEPT !.journal = kind, !.descriptor = track[t].descriptor])
      BY <3>1, <3>2
    <3>. QED  BY <3>3, Zenon
  <2>2. track'[t] = [track[t] EXCEPT !.journal = j, !.descriptor = d]
    BY <1>2, <2>1, Zenon
  <2>3. /\ track'[t].worktree = track[t].worktree /\ track'[t].sidecar = track[t].sidecar
         /\ track'[t].watch = track[t].watch /\ track'[t].lock = track[t].lock
    BY <1>1, <2>2 DEF TrackWorld
  <2>. QED  BY <1>14, <2>3
<1>6. CASE SpawnSupervisor(t)
  <2>1. \/ \E r : SetTrack(t, [track[t] EXCEPT !.wrapper = "started", !.ref = r])
        \/ SetTrack(t, [track[t] EXCEPT !.wrapper = "started"])
    BY <1>6, Zenon DEF SpawnSupervisor
  <2>2. CASE \E r : SetTrack(t, [track[t] EXCEPT !.wrapper = "started", !.ref = r])
    <3>1. PICK r : SetTrack(t, [track[t] EXCEPT !.wrapper = "started", !.ref = r])
      BY <2>2, Zenon
    <3>2. track'[t] = [track[t] EXCEPT !.wrapper = "started", !.ref = r]
      BY <1>2, <3>1, Zenon
    <3>3. /\ track'[t].worktree = track[t].worktree /\ track'[t].sidecar = track[t].sidecar
           /\ track'[t].watch = track[t].watch /\ track'[t].lock = track[t].lock
      BY <1>1, <3>2 DEF TrackWorld
    <3>. QED  BY <1>14, <3>3
  <2>3. CASE SetTrack(t, [track[t] EXCEPT !.wrapper = "started"])
    <3>1. track'[t] = [track[t] EXCEPT !.wrapper = "started"]
      BY <1>2, <2>3, Zenon
    <3>2. /\ track'[t].worktree = track[t].worktree /\ track'[t].sidecar = track[t].sidecar
           /\ track'[t].watch = track[t].watch /\ track'[t].lock = track[t].lock
      BY <1>1, <3>1 DEF TrackWorld
    <3>. QED  BY <1>14, <3>2
  <2>. QED  BY <2>1, <2>2, <2>3, Zenon
<1>7. CASE EmitFreezeRequest(t)
  <2>1. SetTrack(t, [track[t] EXCEPT !.freeze = "pending"])
    BY <1>7 DEF EmitFreezeRequest
  <2>2. track'[t] = [track[t] EXCEPT !.freeze = "pending"]
    BY <1>2, <2>1, Zenon
  <2>3. /\ track'[t].worktree = track[t].worktree /\ track'[t].sidecar = track[t].sidecar
         /\ track'[t].watch = track[t].watch /\ track'[t].lock = track[t].lock
    BY <1>1, <2>2 DEF TrackWorld
  <2>. QED  BY <1>14, <2>3
<1>8. CASE StopOwnSupervisor(t)
  <2>1. \/ SetTrack(t, track[t])
        \/ SetTrack(t, [track[t] EXCEPT !.lock = "free", !.wrapper = "off"])
        \/ SetTrack(t, [track[t] EXCEPT !.lock = "free", !.wrapper = track[t].wrapper])
    BY <1>8, Zenon DEF StopOwnSupervisor
  <2>2. \/ track'[t] = track[t]
        \/ track'[t] = [track[t] EXCEPT !.lock = "free", !.wrapper = "off"]
        \/ track'[t] = [track[t] EXCEPT !.lock = "free", !.wrapper = track[t].wrapper]
    BY <1>2, <2>1, Zenon
  <2>3. /\ track'[t].worktree = track[t].worktree /\ track'[t].sidecar = track[t].sidecar
         /\ track'[t].watch = track[t].watch /\ track'[t].lock \in {track[t].lock, "free"}
    BY <1>1, <2>2 DEF TrackWorld
  <2>. QED  BY <1>14, <2>3
<1>9. CASE RemoveWorktree(t)
  <2>1. \/ track' = track
        \/ /\ SetTrack(t, WithoutWorktree(track[t]))
           /\ track[t].worktree = "ours" /\ ~track[t].dirty
    BY <1>9 DEF RemoveWorktree, Gathered
  <2>3. CASE track'[t] = WithoutWorktree(track[t]) /\ track[t].worktree = "ours" /\ ~track[t].dirty
    <3>1. /\ track'[t].worktree = "none" /\ track'[t].lock = "free"
          /\ track'[t].watch = track[t].watch
      BY <1>1, <2>3 DEF TrackWorld, WithoutWorktree
    <3>. QED  BY <2>3, <3>1 DEF StaysBehind, KeepsPlace, Ahead, Runs
  <2>. QED  BY <1>2, <1>3, <2>1, <2>3, Zenon
<1>10. CASE RemoveBranch(t)
  <2>1. track' = track \/ SetTrack(t, [track[t] EXCEPT !.branch = FALSE])
    BY <1>10 DEF RemoveBranch
  <2>2. track' = track \/ track'[t] = [track[t] EXCEPT !.branch = FALSE]
    BY <1>2, <2>1, Zenon
  <2>3. CASE track'[t] = [track[t] EXCEPT !.branch = FALSE]
    <3>1. /\ track'[t].worktree = track[t].worktree /\ track'[t].sidecar = track[t].sidecar
           /\ track'[t].watch = track[t].watch /\ track'[t].lock = track[t].lock
      BY <1>1, <2>3 DEF TrackWorld
    <3>. QED  BY <1>14, <3>1
  <2>. QED  BY <1>3, <2>2, <2>3
<1>11. CASE track' = track
  BY <1>3, <1>11
<1>12. \/ AddWorktree(t) \/ AddWorktreeFails(t) \/ InitTrackJournal(t) \/ SpawnSupervisor(t)
       \/ EmitFreezeRequest(t) \/ StopOwnSupervisor(t) \/ RemoveWorktree(t) \/ RemoveBranch(t)
       \/ track' = track
  BY DEF PrepareDriver, JoinDriver, TeardownDriver, Drained, ObserveWorktree, ObserveSupervisor,
     TakeJoin, AcceptFreeze, EnsureIntegrationLock, BeginMerge, MergeTrack, MergeConflicts,
     MergeRefused, GitMerge, ObserveMerge, AbortOwnMerge, SettleMerge, Merging, TakeTeardown,
     ObserveTeardown
<1>13. CASE AddWorktree(t)
  <2>1. track[t].worktree = "none" /\ track'[t] = OwnWorktree(track[t])
    BY <1>2, <1>13 DEF AddWorktree
  <2>. QED  BY <1>13, <2>1 DEF OwnWorktree, TrackInv, WorkIsOurs, KeepsPlace
<1>. QED  BY <1>4, <1>5, <1>6, <1>7, <1>8, <1>9, <1>10, <1>11, <1>12, <1>13

\* What no step reads of a track it does not write.
LEMMA OnlyOneWritten ==
  ASSUME WorldTypeOK, NEW t \in Tracks,
         \/ PrepareDriver(t) \/ JoinDriver(t) \/ TeardownDriver(t)
         \/ Wrapper(t) \/ WrapperCrashes(t) \/ Watch(t) \/ WatchTakesFreeze(t)
         \/ WatchRejectsFreeze(t) \/ WatchCrashes(t) \/ OperatorRestartsWatch(t) \/ Work(t)
  PROVE  \A u \in Tracks \ {t} : track'[u] = track[u]
<1>1. track' = track \/ \E r : SetTrack(t, r)
  BY DEF Wrapper, WrapperPrepares, WrapperLaunches, WrapperExits, WrapperCrashes, Watch, WatchStarts,
     CheckFreeze, FinishFreeze, WatchExits, WatchTakesFreeze, WatchRejectsFreeze, WatchCrashes,
     OperatorRestartsWatch, Work, PrepareDriver, AddWorktree, AddWorktreeFails, InitTrackJournal,
     SpawnSupervisor, JoinDriver, EmitFreezeRequest, TeardownDriver, StopOwnSupervisor, RemoveWorktree,
     RemoveBranch, Drained, ObserveWorktree, ObserveSupervisor, TakeJoin, AcceptFreeze,
     EnsureIntegrationLock, BeginMerge, MergeTrack, MergeConflicts, MergeRefused, GitMerge,
     ObserveMerge, AbortOwnMerge, SettleMerge, Merging, TakeTeardown, ObserveTeardown
<1>. QED  BY <1>1, SMTT(40) DEF SetTrack, WorldTypeOK

LEMMA UntouchedStaysBehind ==
  ASSUME NEW u \in Tracks, track'[u] = track[u]
  PROVE  StaysBehind(u) /\ KeepsPlace(u)
  BY DEF StaysBehind, KeepsPlace, Ahead, Runs

LEMMA WorldStaysBehind ==
  ASSUME CohortTypeOK, \A u \in Tracks : TrackInv(u), [CohortNextStep]_cohortVars, NEW u \in Tracks
  PROVE  KeepsPlace(u) /\ (StaysBehind(u) \/ AddWorktree(u) \/ ForeignIdentity(u))
<1>0. WorldTypeOK
  BY DEF CohortTypeOK, WorldTypeOK, SupWorld
<1>1. ASSUME NEW t \in Tracks, PrepareDriver(t) \/ JoinDriver(t) \/ TeardownDriver(t)
      PROVE  KeepsPlace(u) /\ (StaysBehind(u) \/ AddWorktree(u))
  BY <1>0, <1>1, DriverStaysBehind, OnlyOneWritten, UntouchedStaysBehind
<1>2. ASSUME NEW t \in Tracks,
             \/ Wrapper(t) \/ WrapperCrashes(t) \/ Watch(t) \/ WatchTakesFreeze(t)
             \/ WatchRejectsFreeze(t) \/ WatchCrashes(t) \/ OperatorRestartsWatch(t) \/ Work(t)
      PROVE  StaysBehind(u) /\ KeepsPlace(u)
  BY <1>0, <1>2, AsideStaysBehind, OnlyOneWritten, UntouchedStaysBehind
<1>5. ASSUME NEW t \in Tracks, InitTrackJournalFails(t)
      PROVE  StaysBehind(u) /\ KeepsPlace(u)
  <2>1. PICK j : track'[t] = [track[t] EXCEPT !.journal = j]
    BY <1>0, <1>5, JournalFailsType
  <2>2. track[t] \in TrackWorld /\ \A v \in Tracks \ {t} : track'[v] = track[v]
    BY <1>0, <1>5, JournalFailsType DEF WorldTypeOK
  <2>3. StaysBehind(t) /\ KeepsPlace(t)
    BY <2>1, <2>2 DEF StaysBehind, KeepsPlace, Ahead, Runs, TrackWorld
  <2>. QED  BY <2>2, <2>3, UntouchedStaysBehind
<1>6. ASSUME NEW t \in Tracks, ForeignIdentity(t)
      PROVE  KeepsPlace(u) /\ (StaysBehind(u) \/ ForeignIdentity(u))
  <2>1. /\ track'[t] = [track[t] EXCEPT !.sidecar = "foreign"] /\ track[t] \in TrackWorld
        /\ \A v \in Tracks \ {t} : track'[v] = track[v]
    BY <1>0, <1>6, ForeignIdentityType DEF WorldTypeOK
  <2>2. KeepsPlace(t)
    BY <2>1 DEF KeepsPlace, TrackWorld
  <2>. QED  BY <1>6, <2>1, <2>2, UntouchedStaysBehind
<1>3. CASE track' = track
  BY <1>3, UntouchedStaysBehind
<1>4. \/ \E t \in Tracks : PrepareDriver(t) \/ JoinDriver(t) \/ TeardownDriver(t)
      \/ \E t \in Tracks :
            \/ Wrapper(t) \/ WrapperCrashes(t) \/ Watch(t) \/ WatchTakesFreeze(t)
            \/ WatchRejectsFreeze(t) \/ WatchCrashes(t) \/ OperatorRestartsWatch(t) \/ Work(t)
      \/ \E t \in Tracks : InitTrackJournalFails(t) \/ ForeignIdentity(t)
      \/ track' = track
  BY DEF CohortNextStep, Driver, FinalDriver, Drained, RequestGlobalQa, AcceptGlobalQa,
     PauseForIntegration, RequestIntegration, AcceptIntegration, RunFinalInterlock, Controller,
     ReportQa, ControllerCommits, AddTrack, RequestJoin, RequestTeardown, LaunchController,
     IntegrationEnds, Crash, ForeignMerge, cohortVars, world
<1>. QED  BY <1>1, <1>2, <1>3, <1>4, <1>5, <1>6

LEMMA BarrierStep ==
  ASSUME CohortTypeOK, IInv, \A u \in Tracks : TrackInv(u), Barrier, Room,
         [CohortNextStep]_cohortVars
  PROVE  Barrier'
<1>1. [Next]_vars
  BY ProtocolStep
<1>2. \A u \in Tracks : StaysBehind(u) \/ AddWorktree(u) \/ ForeignIdentity(u)
  BY WorldStaysBehind
<1>3. cohortPhase \in {"NONE", "PREPARING"} =>
         \A u \in Tracks : ~Ahead(u)
  <2>1. cohortPhase \in {"NONE", "PREPARING"} => \A u \in Tracks : phase[u] \notin Working \ {"ARMED"}
    BY DEF IInv, PhasesAgree, AllIn, Declared, PreparingPhases, Working, Frozen
  <2>. QED  BY <2>1 DEF Barrier, Ahead
\* A worktree is added while nothing of the cohort runs.
<1>4. CASE \E t \in Tracks : AddWorktree(t)
  <2>1. PICK t \in Tracks : AddWorktree(t)
    BY <1>4
  <2>2. cohortPhase \in {"NONE", "PREPARING"} /\ phase[t] = "PREPARE_INTENT"
    BY <2>1 DEF AddWorktree, PreparingTrack
  <2>3. \A u \in Tracks : Runs(u)' => Runs(u)
    <3>1. track[t] \in TrackWorld /\ WorldTypeOK /\ SetTrack(t, OwnWorktree(track[t]))
      BY <2>1 DEF CohortTypeOK, WorldTypeOK, SupWorld, AddWorktree
    <3>2. track'[t] = OwnWorktree(track[t]) /\ \A u \in Tracks \ {t} : track'[u] = track[u]
      BY <3>1, DriverWrites, SetTrackFacts
    <3>3. track'[t].watch = track[t].watch /\ track'[t].lock = track[t].lock
      BY <3>1, <3>2 DEF OwnWorktree, TrackWorld
    <3>. QED  BY <3>2, <3>3 DEF Runs
  <2>4. \A u \in Tracks : phase'[u] \notin Working \ {"ARMED"}
    <3>1. ~\E u \in Tracks : ActivateTrack(u)
      BY <2>2 DEF ActivateTrack, ActivateTrackDue
    <3>. QED  BY <1>1, <1>3, <2>2, <3>1, PhasesAhead DEF Ahead
  <2>. QED  BY <1>3, <2>2, <2>3, <2>4 DEF Barrier, Started, Ahead
\* A track is activated when the whole cohort is armed, each track ready.
<1>5. CASE (\E t \in Tracks : ActivateTrack(t)) /\ ~\E t \in Tracks : AddWorktree(t) \/ ForeignIdentity(t)
  <2>1. cohortPhase' = "ACTIVE" /\ cohortPhase = "ACTIVE" /\ ProtocolInvariants
    BY <1>5 DEF ActivateTrack, ActivateTrackDue
  <2>2. \A u \in Tracks : phase[u] \in Working \/ phase[u] = "ABSENT"
    BY <2>1 DEF ProtocolInvariants, OnlyWorkingTracksRun, AllIn, Declared, Running
  <2>3. \A u \in Tracks : track[u].worktree = "ours" => track[u].sidecar = "ready"
    BY <2>2 DEF TrackInv, PlaceOfPhase, ReadyStays
  <2>. QED  BY <1>2, <1>5, <2>1, <2>3 DEF Barrier, StaysBehind
<1>6. CASE ~(\E t \in Tracks : ActivateTrack(t)) /\ ~\E t \in Tracks : AddWorktree(t) \/ ForeignIdentity(t)
  <2>1. \A u \in Tracks : Ahead(u)' => Ahead(u)
    BY <1>1, <1>2, <1>6, PhasesAhead DEF StaysBehind, Ahead
  <2>2. cohortPhase' \in {"NONE", "PREPARING"} => \A u \in Tracks : ~Runs(u)'
    BY <1>1, <1>2, <1>3, <1>6, PhasesAhead DEF StaysBehind
  <2>3. Started' => Started
    BY <2>1 DEF Started
  <2>. QED  BY <1>2, <1>6, <2>2, <2>3 DEF Barrier, StaysBehind
\* An identity is replaced while the cohort is being prepared.
<1>7. CASE \E t \in Tracks : ForeignIdentity(t)
  <2>1. PICK t \in Tracks : ForeignIdentity(t)
    BY <1>7
  <2>2. WorldTypeOK /\ track[t] \in TrackWorld
    BY DEF CohortTypeOK, WorldTypeOK, SupWorld
  <2>3. /\ track'[t] = [track[t] EXCEPT !.sidecar = "foreign"]
        /\ \A u \in Tracks \ {t} : track'[u] = track[u]
    BY <2>1, <2>2, ForeignIdentityType
  <2>4. \A u \in Tracks : track'[u].watch = track[u].watch /\ track'[u].lock = track[u].lock
    BY <2>2, <2>3 DEF TrackWorld
  <2>5. cohortPhase \in {"NONE", "PREPARING"} /\ phase' = phase
    BY <2>1 DEF ForeignIdentity, Aside, vars
  <2>. QED  BY <1>3, <2>4, <2>5 DEF Barrier, Started, Ahead, Runs
<1>. QED  BY <1>4, <1>5, <1>6, <1>7
-----------------------------------------------------------------------------
(* Room for the merges still to come *)

\* The steps that write the plan's repository.
LEMMA RepoWriters ==
  ASSUME [CohortNextStep]_cohortVars
  PROVE  \/ repo' = repo \/ ControllerCommits \/ ForeignMerge
         \/ \E t \in Tracks : MergeTrack(t) \/ MergeConflicts(t) \/ AbortOwnMerge(t)
<1>1. ASSUME NEW t \in Tracks,
             \/ PrepareDriver(t) \/ TeardownDriver(t)
             \/ JoinDriver(t) /\ ~(MergeTrack(t) \/ MergeConflicts(t) \/ AbortOwnMerge(t))
      PROVE  repo' = repo
  BY <1>1 DEF PrepareDriver, AddWorktree, AddWorktreeFails, InitTrackJournal,
   SpawnSupervisor, JoinDriver, EmitFreezeRequest, TeardownDriver, StopOwnSupervisor, RemoveWorktree,
   RemoveBranch, Drained, ObserveWorktree, ObserveSupervisor, TakeJoin, AcceptFreeze,
   EnsureIntegrationLock, BeginMerge, MergeRefused, GitMerge, ObserveMerge, SettleMerge, TakeTeardown,
   ObserveTeardown
<1>2. ASSUME NEW t \in Tracks,
             \/ Wrapper(t) \/ WrapperCrashes(t) \/ Watch(t) \/ WatchTakesFreeze(t)
             \/ WatchRejectsFreeze(t) \/ WatchCrashes(t) \/ OperatorRestartsWatch(t) \/ Work(t)
      PROVE  repo' = repo
  BY <1>2 DEF Wrapper, WrapperPrepares, WrapperLaunches, WrapperExits, WrapperCrashes, Watch,
     WatchStarts, CheckFreeze, FinishFreeze, WatchExits, WatchTakesFreeze, WatchRejectsFreeze,
     WatchCrashes, OperatorRestartsWatch, Work, Aside
<1>3. CASE FinalDriver \/ Drained(EnterSerial) \/ LaunchController \/ IntegrationEnds \/ Crash
  BY <1>3 DEF FinalDriver, Drained, RequestGlobalQa, AcceptGlobalQa, PauseForIntegration,
     RequestIntegration, AcceptIntegration, RunFinalInterlock, LaunchController, IntegrationEnds, Crash
<1>4. CASE Controller /\ ~ControllerCommits
  BY <1>4 DEF Controller, ReportQa, AddTrack, RequestJoin, RequestTeardown, world
<1>5. CASE UNCHANGED cohortVars
  BY <1>5 DEF cohortVars, world
<1>6. ASSUME NEW t \in Tracks, InitTrackJournalFails(t) \/ ForeignIdentity(t)
      PROVE  repo' = repo
  BY <1>6 DEF InitTrackJournalFails, ForeignIdentity, Aside
<1>. QED  BY <1>1, <1>2, <1>3, <1>4, <1>5, <1>6 DEF CohortNextStep, Driver, Controller

LEMMA OneMergeDue ==
  ASSUME NEW t \in Tracks, NEW u \in Tracks, MergeDue(t), MergeDue(u)
  PROVE  t = u
  BY TracksAssumption DEF MergeDue, First, In

\* HEAD moves by a commit of the controller, for which there is room, or by
\* the merge of a track that is not in it yet.
LEMMA HeadMoves ==
  ASSUME CohortTypeOK, Underway, [CohortNextStep]_cohortVars
  PROVE  \/ repo'.head = repo.head /\ repo'.merged = repo.merged
         \/ /\ repo'.head = NextCommit /\ repo'.merged = repo.merged
            /\ repo.head[2] + Cardinality(Tracks \ repo.merged) < MaxCommits
         \/ \E t \in Tracks \ repo.merged :
               repo'.head = NextCommit /\ repo'.merged = repo.merged \union {t}
<1>. DEFINE Moved == \/ repo'.head = repo.head /\ repo'.merged = repo.merged
                     \/ /\ repo'.head = NextCommit /\ repo'.merged = repo.merged
                        /\ repo.head[2] + Cardinality(Tracks \ repo.merged) < MaxCommits
                     \/ \E t \in Tracks \ repo.merged :
                           repo'.head = NextCommit /\ repo'.merged = repo.merged \union {t}
<1>0. repo \in [head : Shas, mergeHead : Shas \union {NoSha}, merged : SUBSET Tracks]
  BY DEF CohortTypeOK
<1>1. CASE repo' = repo
  BY <1>1
<1>2. CASE ControllerCommits
  <2>1. repo' = [repo EXCEPT !.head = NextCommit]
    BY <1>2 DEF ControllerCommits
  <2>2. repo'.head = NextCommit /\ repo'.merged = repo.merged
    BY <1>0, <2>1
  <2>. QED  BY <1>2, <2>2 DEF ControllerCommits
<1>3. ASSUME NEW t \in Tracks, MergeTrack(t)
      PROVE  Moved
  <2>1. t \notin repo.merged
    BY <1>3, OneMergeDue DEF MergeTrack, GitMerge, Underway
  <2>2. repo' = [repo EXCEPT !.head = NextCommit, !.merged = @ \union {t}]
    BY <1>3 DEF MergeTrack, GitMerge
  <2>3. repo'.head = NextCommit /\ repo'.merged = repo.merged \union {t}
    BY <1>0, <2>2
  <2>. QED  BY <2>1, <2>3
<1>4. CASE \/ \E t \in Tracks : MergeConflicts(t) \/ AbortOwnMerge(t)
           \/ ForeignMerge
  <2>1. \E m : repo' = [repo EXCEPT !.mergeHead = m]
    BY <1>4 DEF MergeConflicts, GitMerge, AbortOwnMerge, ForeignMerge
  <2>. QED  BY <1>0, <2>1
<1>. QED  BY <1>1, <1>2, <1>3, <1>4, RepoWriters

LEMMA RoomStep ==
  ASSUME CohortTypeOK, Room, Underway, [CohortNextStep]_cohortVars
  PROVE  Room'
<1>0. /\ NextCommit \in {0} \X Nat /\ NextCommit[2] = repo.head[2] + 1
      /\ repo.head[2] \in Nat /\ MaxCommits \in Nat
  BY NextIsCommit, CohortConstants DEF Room
<1>1. IsFiniteSet(Tracks \ repo.merged) /\ Cardinality(Tracks \ repo.merged) \in Nat
  BY TracksAssumption, FS_Difference, FS_CardinalityType
<1>2. CASE repo'.head = repo.head /\ repo'.merged = repo.merged
  BY <1>2 DEF Room
<1>3. CASE /\ repo'.head = NextCommit /\ repo'.merged = repo.merged
           /\ repo.head[2] + Cardinality(Tracks \ repo.merged) < MaxCommits
  BY <1>0, <1>1, <1>3 DEF Room
<1>4. ASSUME NEW t \in Tracks \ repo.merged, repo'.head = NextCommit,
             repo'.merged = repo.merged \union {t}
      PROVE  Room'
  <2>1. Tracks \ repo'.merged = (Tracks \ repo.merged) \ {t}
    BY <1>4
  <2>2. Cardinality(Tracks \ repo'.merged) = Cardinality(Tracks \ repo.merged) - 1
    BY <1>1, <2>1, FS_RemoveElement
  <2>. QED  BY <1>0, <1>1, <1>4, <2>2 DEF Room
<1>. QED  BY <1>2, <1>3, <1>4, HeadMoves

\* While a merge is under way the driver does nothing else, and nobody takes
\* its requests; only the controller may commit.
LEMMA NoOtherTurn ==
  ASSUME CohortTypeOK, sup.merge = "asserted", [CohortNextStep]_cohortVars,
         sup'.merge = "asserted"
  PROVE  /\ UNCHANGED vars /\ sup'.lockHeld = sup.lockHeld /\ repo'.merged = repo.merged
         /\ repo'.head = repo.head \/ ControllerCommits
<1>. DEFINE Kept == /\ UNCHANGED vars /\ sup'.lockHeld = sup.lockHeld /\ repo'.merged = repo.merged
                    /\ repo'.head = repo.head \/ ControllerCommits
<1>0. /\ repo \in [head : Shas, mergeHead : Shas \union {NoSha}, merged : SUBSET Tracks]
      /\ sup \in SupWorld /\ ~TickReady /\ ~EffectTurn /\ ~BetweenTurns
  BY DEF CohortTypeOK, SupWorld, TickReady, EffectTurn, BetweenTurns
<1>1. ~FinalDriver /\ ~Drained(EnterSerial)
  BY <1>0 DEF FinalDriver, Drained, RequestGlobalQa, AcceptGlobalQa, PauseForIntegration,
     RequestIntegration, AcceptIntegration, RunFinalInterlock
<1>2. \A t \in Tracks : ~PrepareDriver(t) /\ ~TeardownDriver(t) /\ ~InitTrackJournalFails(t)
  BY <1>0 DEF PrepareDriver, TeardownDriver, Drained, AddWorktree, ObserveWorktree, AddWorktreeFails,
     InitTrackJournal, SpawnSupervisor, ObserveSupervisor, InitTrackJournalFails, TakeTeardown,
     ObserveTeardown, StopOwnSupervisor, RemoveWorktree, RemoveBranch, TeardownAt
<1>3. \A t \in Tracks : ~JoinDriver(t)
  <2>. SUFFICES ASSUME NEW t \in Tracks, JoinDriver(t) PROVE FALSE
    OBVIOUS
  <2>1. CASE MergeTrack(t) \/ MergeConflicts(t) \/ MergeRefused(t)
    BY <1>0, <2>1 DEF MergeTrack, MergeConflicts, MergeRefused, GitMerge, SupWorld
  <2>2. CASE ObserveMerge(t)
    BY <2>2 DEF ObserveMerge
  <2>. QED  BY <1>0, <2>1, <2>2 DEF JoinDriver, Drained, TakeJoin, EmitFreezeRequest, AcceptFreeze,
       EnsureIntegrationLock, BeginMerge, AbortOwnMerge, SettleMerge, Merging
<1>4. CASE Controller \/ LaunchController
  BY <1>0, <1>4 DEF Controller, ReportQa, ControllerCommits, AddTrack, RequestJoin, RequestTeardown,
     Requests, LaunchController
<1>5. CASE IntegrationEnds \/ Crash \/ ForeignMerge
  BY <1>0, <1>5 DEF IntegrationEnds, Crash, ForeignMerge, SupWorld
<1>6. ASSUME NEW t \in Tracks,
             \/ Wrapper(t) \/ WrapperCrashes(t) \/ Watch(t) \/ WatchTakesFreeze(t)
             \/ WatchRejectsFreeze(t) \/ WatchCrashes(t) \/ OperatorRestartsWatch(t) \/ Work(t)
             \/ ForeignIdentity(t)
      PROVE  Kept
  BY <1>6 DEF Wrapper, WrapperPrepares, WrapperLaunches, WrapperExits, WrapperCrashes, Watch,
     WatchStarts, CheckFreeze, FinishFreeze, WatchExits, WatchTakesFreeze, WatchRejectsFreeze,
     WatchCrashes, OperatorRestartsWatch, Work, ForeignIdentity, Aside
<1>7. CASE UNCHANGED cohortVars
  BY <1>7 DEF cohortVars, world
<1>. QED  BY <1>1, <1>2, <1>3, <1>4, <1>5, <1>6, <1>7 DEF CohortNextStep, Driver

\* A merge is begun by the driver alone.
LEMMA BeginsMerge ==
  ASSUME CohortTypeOK, [CohortNextStep]_cohortVars, sup.merge # "asserted", sup'.merge = "asserted"
  PROVE  \E t \in Tracks : BeginMerge(t)
<1>0. sup \in SupWorld /\ sup' # sup /\ ~Lost
  BY DEF CohortTypeOK, SupWorld, Lost
<1>1. ~FinalDriver /\ ~Drained(EnterSerial)
  BY <1>0 DEF FinalDriver, Drained, Recorded, RequestGlobalQa, AcceptGlobalQa, PauseForIntegration,
     RequestIntegration, AcceptIntegration, RunFinalInterlock, SupWorld
<1>2. \A t \in Tracks : ~PrepareDriver(t) /\ ~TeardownDriver(t) /\ ~InitTrackJournalFails(t)
  <2>1. \A t \in Tracks : ~PrepareDriver(t) /\ ~InitTrackJournalFails(t)
    BY <1>0 DEF PrepareDriver, Drained, Recorded, AddWorktree, ObserveWorktree, AddWorktreeFails,
       InitTrackJournal, SpawnSupervisor, ObserveSupervisor, InitTrackJournalFails
  <2>2. \A t \in Tracks : ~TakeTeardown(t)
    BY <1>0 DEF TakeTeardown, SupWorld
  <2>. QED
    BY <1>0, <2>1, <2>2 DEF TeardownDriver, Drained, Recorded, ObserveTeardown, StopOwnSupervisor,
       RemoveWorktree, RemoveBranch
<1>3. ASSUME NEW t \in Tracks, JoinDriver(t)
      PROVE  BeginMerge(t)
  <2>1. ~(MergeTrack(t) \/ MergeConflicts(t) \/ MergeRefused(t) \/ ObserveMerge(t))
    BY <1>0 DEF MergeTrack, MergeConflicts, MergeRefused, GitMerge, ObserveMerge, SupWorld
  <2>2. ~EnsureIntegrationLock(t)
    BY <1>0 DEF EnsureIntegrationLock, SupWorld
  <2>. QED  BY <1>0, <1>3, <2>1, <2>2 DEF JoinDriver, Drained, Recorded, TakeJoin, EmitFreezeRequest,
       AcceptFreeze, AbortOwnMerge, SettleMerge
<1>4. ~Controller
  BY <1>0 DEF Controller, ReportQa, ControllerCommits, AddTrack, RequestJoin, RequestTeardown, world
<1>5. ~LaunchController /\ ~IntegrationEnds /\ ~Crash /\ ~ForeignMerge
  BY <1>0 DEF LaunchController, IntegrationEnds, Crash, ForeignMerge, SupWorld
<1>6. \A t \in Tracks :
         ~ (\/ Wrapper(t) \/ WrapperCrashes(t) \/ Watch(t) \/ WatchTakesFreeze(t)
            \/ WatchRejectsFreeze(t) \/ WatchCrashes(t) \/ OperatorRestartsWatch(t) \/ Work(t)
            \/ ForeignIdentity(t))
  BY <1>0 DEF Wrapper, WrapperPrepares, WrapperLaunches, WrapperExits, WrapperCrashes, Watch,
     WatchStarts, CheckFreeze, FinishFreeze, WatchExits, WatchTakesFreeze, WatchRejectsFreeze,
     WatchCrashes, OperatorRestartsWatch, Work, ForeignIdentity, Aside
<1>7. ~UNCHANGED cohortVars
  BY <1>0 DEF cohortVars, world
<1>. QED  BY <1>1, <1>2, <1>3, <1>4, <1>5, <1>6, <1>7 DEF CohortNextStep, Driver

LEMMA UnderwayStep ==
  ASSUME CohortTypeOK, IInv, Underway, [CohortNextStep]_cohortVars
  PROVE  Underway'
<1>. SUFFICES ASSUME sup'.merge = "asserted" PROVE Underway'
  BY DEF Underway
<1>0. /\ repo \in [head : Shas, mergeHead : Shas \union {NoSha}, merged : SUBSET Tracks]
      /\ sup \in SupWorld
  BY DEF CohortTypeOK, SupWorld
<1>1. CASE sup.merge # "asserted"
  <2>1. PICK t \in Tracks : BeginMerge(t)
    BY <1>1, BeginsMerge
  <2>2. TrackIsAncestor(t) \in BOOLEAN
    BY DEF TrackIsAncestor
  <2>3. /\ sup.lockHeld /\ MergeDue(t) /\ UNCHANGED <<vars, repo>>
        /\ repo.mergeHead = NoSha /\ repo.head = expectedPlanHeadSha[t] /\ ~TrackIsAncestor(t)
    BY <2>1, <2>2, DecisionFacts DEF BeginMerge, Merging, Decision
  <2>4. expectedPlanHeadSha[t] = planHeadSha
    BY <2>3 DEF MergeDue, First, IInv, JoinIntentIsFresh
  <2>5. t \notin repo.merged
    BY <2>3 DEF TrackIsAncestor, InPlan
  <2>6. sup'.lockHeld
    BY <1>0, <2>1, <2>3 DEF BeginMerge, SupWorld
  <2>7. MergeDue(t)'
    BY <2>3 DEF MergeDue, AllFrozen, First, In, AllIn, Declared, vars, ProtocolInvariants,
       CohortHasTwoTracks, OnlyWorkingTracksRun, ActiveWithinCap, OneJoinIntent, FrozenHasHead,
       SerialIsDismantled, IntegrationAfterMerges, CompleteIsJoined
  <2>. QED  BY <2>3, <2>4, <2>5, <2>6, <2>7 DEF Underway, vars
<1>2. CASE sup.merge = "asserted"
  <2>1. /\ UNCHANGED vars /\ sup'.lockHeld = sup.lockHeld /\ repo'.merged = repo.merged
        /\ repo'.head = repo.head \/ ControllerCommits
    BY <1>2, NoOtherTurn
  <2>2. PICK t \in Tracks : /\ MergeDue(t) /\ t \notin repo.merged
                            /\ "commits" \in Disciplined => repo.head = planHeadSha
    BY <1>2 DEF Underway
  <2>3. "commits" \in Disciplined => ~ControllerCommits
    <3>1. phase[t] = "JOIN_INTENT" /\ t \in Declared
      BY <2>2 DEF MergeDue, First, In, Declared
    <3>. QED  BY <3>1 DEF ControllerCommits, GlobalQaDue, AllIn
  <2>4. MergeDue(t)'
    BY <2>1, <2>2 DEF MergeDue, AllFrozen, First, In, AllIn, Declared, vars, ProtocolInvariants,
       CohortHasTwoTracks, OnlyWorkingTracksRun, ActiveWithinCap, OneJoinIntent, FrozenHasHead,
       SerialIsDismantled, IntegrationAfterMerges, CompleteIsJoined
  <2>. QED  BY <1>2, <2>1, <2>2, <2>3, <2>4 DEF Underway, vars
<1>. QED  BY <1>1, <1>2
-----------------------------------------------------------------------------
(* The final route: which steps lead along it, and what they leave alone   *)

Early == {"NONE", "PREPARING"} \union Running

\* What the reducer does off the final route never leads onto it.
OffRoute ==
    /\ cohortPhase' \in Finalizing \union {"COMPLETE"} => UNCHANGED <<cohortPhase, globalQaHeadSha>>
    /\ cohortPhase' \in Early => cohortPhase \in Early

LEMMA StepsOffRoute ==
  ASSUME \/ \E t \in Tracks, head \in Shas : DeclareTrack(t, head)
         \/ \E t \in Tracks : PrepareNext(t) \/ JoinNext(t) \/ TeardownNext(t)
         \/ ActivateCohort \/ TeardownRequested \/ EnterSerial \/ UNCHANGED vars
  PROVE  OffRoute
<1>. USE DEF OffRoute, Early, Finalizing, Running
<1>1. CASE \E t \in Tracks, head \in Shas : DeclareTrack(t, head)
  BY <1>1 DEF DeclareTrack, evidence
<1>2. CASE \E t \in Tracks : PrepareNext(t)
  BY <1>2 DEF PrepareNext, PersistPrepareIntent, WorktreeObserved, CreateTrackJournal,
     PersistSupervisorIntent, SupervisorObserved, PrepareStep, PrepareFailed, FallBack, evidence
<1>3. ASSUME NEW t \in Tracks, JoinNext(t)
      PROVE  OffRoute
  BY <1>3 DEF JoinNext, ActivateTrack, JoinRequested, FreezeObserved, FreezeDue, PersistJoinIntent,
     JoinObserved, evidence
<1>4. ASSUME NEW t \in Tracks, TeardownNext(t)
      PROVE  OffRoute
  BY <1>4 DEF TeardownNext, BeginTeardown, TeardownObserved, TeardownFailed, evidence
<1>5. CASE ActivateCohort \/ TeardownRequested \/ EnterSerial
  BY <1>5 DEF ActivateCohort, ActivateCohortDue, TeardownRequested, FallBack, EnterSerial
<1>6. CASE UNCHANGED vars
  BY <1>6 DEF vars
<1>. QED  BY <1>1, <1>2, <1>3, <1>4, <1>5, <1>6

LEMMA RouteSteps ==
  ASSUME CohortTypeOK, Room, [CohortNextStep]_cohortVars
  PROVE  AcceptGlobalQa \/ AcceptIntegration \/ RunFinalInterlock \/ OffRoute
<1>1. ASSUME NEW t \in Tracks,
             \/ PrepareDriver(t) \/ JoinDriver(t) \/ TeardownDriver(t) \/ InitTrackJournalFails(t)
      PROVE  OffRoute
  BY <1>1, PrepareDriverIsStep, JoinDriverIsStep, TeardownDriverIsStep, StepsOffRoute
<1>2. CASE /\ FinalDriver \/ Drained(EnterSerial)
           /\ ~(AcceptGlobalQa \/ AcceptIntegration \/ RunFinalInterlock)
  BY <1>2, StepsOffRoute DEF FinalDriver, RequestGlobalQa, PauseForIntegration, RequestIntegration,
     Drained, Recorded
<1>3. CASE \E t \in Tracks : AddTrack(t)
  <2>1. repo.head \in Shas
    BY DEF CohortTypeOK
  <2>. QED  BY <1>3, <2>1, StepsOffRoute DEF AddTrack
<1>4. CASE /\ Controller \/ LaunchController \/ IntegrationEnds \/ Crash \/ ForeignMerge
           /\ ~\E t \in Tracks : AddTrack(t)
  BY <1>4, StepsOffRoute DEF Controller, ReportQa, ControllerCommits, RequestJoin, RequestTeardown,
     LaunchController, IntegrationEnds, Crash, ForeignMerge
<1>5. ASSUME NEW t \in Tracks,
             \/ Wrapper(t) \/ WrapperCrashes(t) \/ Watch(t) \/ WatchTakesFreeze(t)
             \/ WatchRejectsFreeze(t) \/ WatchCrashes(t) \/ OperatorRestartsWatch(t) \/ Work(t)
             \/ ForeignIdentity(t)
      PROVE  OffRoute
  <2>1. Aside
    BY <1>5 DEF Wrapper, WrapperPrepares, WrapperLaunches, WrapperExits, WrapperCrashes, Watch,
       WatchStarts, CheckFreeze, FinishFreeze, WatchExits, WatchTakesFreeze, WatchRejectsFreeze,
       WatchCrashes, OperatorRestartsWatch, Work, ForeignIdentity
  <2>. QED  BY <2>1, StepsOffRoute DEF Aside
<1>6. CASE UNCHANGED cohortVars
  BY <1>6, StepsOffRoute DEF cohortVars
<1>. QED  BY <1>1, <1>2, <1>3, <1>4, <1>5, <1>6 DEF CohortNextStep, Driver

\* The integration job is requested and ends, and the controller is launched,
\* by the one action that does so.
LEMMA JobAndController ==
  ASSUME CohortTypeOK, [CohortNextStep]_cohortVars
  PROVE  /\ RequestIntegration \/ IntegrationEnds \/ journal'.integration = journal.integration
         /\ sup'.controller => sup.controller \/ LaunchController
<1>. DEFINE Same == journal'.integration = journal.integration
                      /\ (sup'.controller => sup.controller)
<1>0. /\ WorldTypeOK
      /\ journal \in [joins : SUBSET Tracks, teardowns : SUBSET Tracks, qaAsked : BOOLEAN,
                      qaReport : Shas \union {NoSha}, integration : {"none", "live", "pass", "fail"}]
      /\ sup \in SupWorld
  BY DEF CohortTypeOK, WorldTypeOK, SupWorld
<1>1. ASSUME Saved(journal)
      PROVE  journal'.integration = journal.integration
  BY <1>0, <1>1, SavedType
<1>2. ASSUME Lost
      PROVE  Same
  BY <1>0, <1>2 DEF Lost
<1>3. ASSUME NEW t \in Tracks, PrepareDriver(t) \/ InitTrackJournalFails(t)
      PROVE  Same
  BY <1>1, <1>2, <1>3 DEF PrepareDriver, InitTrackJournalFails, AddWorktree, AddWorktreeFails, InitTrackJournal,
     SpawnSupervisor, ObserveWorktree, ObserveSupervisor, Drained, Recorded
<1>4. ASSUME NEW t \in Tracks, JoinDriver(t)
      PROVE  Same
  <2>1. CASE TakeJoin(t)
    <3>. DEFINE j == [journal EXCEPT !.joins = @ \ {t}]
    <3>1. /\ j \in [joins : SUBSET Tracks, teardowns : SUBSET Tracks, qaAsked : BOOLEAN,
                    qaReport : Shas \union {NoSha}, integration : {"none", "live", "pass", "fail"}]
          /\ j.integration = journal.integration
      BY <1>0
    <3>2. Saved(j) /\ sup' = sup
      BY <2>1 DEF TakeJoin
    <3>. HIDE DEF j
    <3>. QED  BY <1>0, <3>1, <3>2, SavedType
  <2>2. CASE EnsureIntegrationLock(t)
    BY <1>0, <2>2 DEF EnsureIntegrationLock, SupWorld
  <2>3. CASE AbortOwnMerge(t) \/ SettleMerge(t)
    BY <1>1, <1>2, <2>3 DEF AbortOwnMerge, SettleMerge, Recorded
  <2>5. CASE \/ BeginMerge(t) \/ MergeTrack(t) \/ MergeConflicts(t) \/ MergeRefused(t)
             \/ ObserveMerge(t)
    BY <1>0, <1>1, <2>5 DEF BeginMerge, MergeTrack, MergeConflicts, MergeRefused, GitMerge,
       ObserveMerge, SupWorld
  <2>4. CASE \/ Drained(ActivateTrack(t)) \/ EmitFreezeRequest(t) \/ AcceptFreeze(t)
             \/ Drained(PersistJoinIntent(t))
    BY <1>1, <2>4 DEF EmitFreezeRequest, AcceptFreeze, Drained, Recorded
  <2>. QED  BY <1>4, <2>1, <2>2, <2>3, <2>4, <2>5 DEF JoinDriver
<1>5. ASSUME NEW t \in Tracks, TeardownDriver(t)
      PROVE  Same
  <2>1. CASE TakeTeardown(t)
    <3>. DEFINE j == [journal EXCEPT !.teardowns = @ \ {t}]
    <3>1. /\ j \in [joins : SUBSET Tracks, teardowns : SUBSET Tracks, qaAsked : BOOLEAN,
                    qaReport : Shas \union {NoSha}, integration : {"none", "live", "pass", "fail"}]
          /\ j.integration = journal.integration
      BY <1>0
    <3>2. /\ Saved(j)
          /\ sup' = IF cohortPhase = "FINAL_INTERLOCK" THEN [sup EXCEPT !.lockHeld = FALSE] ELSE sup
      BY <2>1 DEF TakeTeardown
    <3>3. sup'.controller = sup.controller
      BY <1>0, <3>2 DEF SupWorld
    <3>. HIDE DEF j
    <3>. QED  BY <1>0, <3>1, <3>2, <3>3, SavedType
  <2>2. CASE Drained(BeginTeardown(t)) \/ ObserveTeardown(t)
    BY <1>1, <2>2 DEF ObserveTeardown, Drained, Recorded
  <2>3. CASE StopOwnSupervisor(t) \/ RemoveWorktree(t) \/ RemoveBranch(t)
    BY <1>1, <1>2, <2>3 DEF StopOwnSupervisor, RemoveWorktree, RemoveBranch, Recorded
  <2>. QED  BY <1>5, <2>1, <2>2, <2>3 DEF TeardownDriver
<1>6. CASE FinalDriver \/ Drained(EnterSerial)
  <2>1. CASE Drained(ActivateCohort) \/ AcceptGlobalQa \/ AcceptIntegration \/ Drained(EnterSerial)
    BY <1>1, <2>1 DEF AcceptGlobalQa, AcceptIntegration, Drained, Recorded
  <2>2. CASE RequestGlobalQa \/ PauseForIntegration \/ RequestIntegration
    BY <1>0, <2>2 DEF RequestGlobalQa, PauseForIntegration, RequestIntegration, SupWorld
  <2>3. CASE RunFinalInterlock
    BY <1>0, <1>1, <2>3 DEF RunFinalInterlock, SupWorld
  <2>. QED  BY <1>6, <2>1, <2>2, <2>3 DEF FinalDriver
<1>7. CASE Controller \/ LaunchController \/ IntegrationEnds \/ Crash \/ ForeignMerge
  BY <1>0, <1>7 DEF Controller, ReportQa, ControllerCommits, AddTrack, RequestJoin, RequestTeardown,
     LaunchController, IntegrationEnds, Crash, ForeignMerge, world, SupWorld
<1>8. ASSUME NEW t \in Tracks,
             \/ Wrapper(t) \/ WrapperCrashes(t) \/ Watch(t) \/ WatchTakesFreeze(t)
             \/ WatchRejectsFreeze(t) \/ WatchCrashes(t) \/ OperatorRestartsWatch(t) \/ Work(t)
             \/ ForeignIdentity(t)
      PROVE  Same
  BY <1>8 DEF Wrapper, WrapperPrepares, WrapperLaunches, WrapperExits, WrapperCrashes, Watch,
     WatchStarts, CheckFreeze, FinishFreeze, WatchExits, WatchTakesFreeze, WatchRejectsFreeze,
     WatchCrashes, OperatorRestartsWatch, Work, ForeignIdentity, Aside
<1>9. CASE UNCHANGED cohortVars
  BY <1>9 DEF cohortVars, world
<1>. QED  BY <1>3, <1>4, <1>5, <1>6, <1>7, <1>8, <1>9 DEF CohortNextStep, Driver

\* From the request of the integration job until the cohort completes nobody
\* commits to the plan: its controller rests.
LEMMA HeadRests ==
  ASSUME CohortTypeOK, IInv, Certified,
         cohortPhase = "FINAL_INTERLOCK", [CohortNextStep]_cohortVars
  PROVE  repo'.head = repo.head
<1>0. repo \in [head : Shas, mergeHead : Shas \union {NoSha}, merged : SUBSET Tracks]
  BY DEF CohortTypeOK
<1>1. ~ControllerCommits
  <2>1. ~sup.controller
    BY DEF Certified, Finalizing
  <2>. QED  BY <2>1 DEF ControllerCommits
<1>2. \A t \in Tracks : ~MergeTrack(t)
  BY DEF MergeTrack, GitMerge, MergeDue, AllFrozen, Running, Finalizing
<1>3. CASE \/ \E t \in Tracks : MergeConflicts(t) \/ AbortOwnMerge(t)
           \/ ForeignMerge
  <2>1. \E m : repo' = [repo EXCEPT !.mergeHead = m]
    BY <1>3 DEF MergeConflicts, GitMerge, AbortOwnMerge, ForeignMerge
  <2>. QED  BY <1>0, <2>1
<1>. QED  BY <1>1, <1>2, <1>3, RepoWriters

\* With a generation begun on every tick the driver gets its turn under a live
\* controller or with a merge of its own to settle, and never asks for the job.
LEMMA NeverAsked ==
  ASSUME IInv, RequestIntegration
  PROVE  ~AutoBegin
<1>1. cohortPhase \in Finalizing /\ ~sup.controller /\ TickReady
  BY DEF RequestIntegration, FinalIntegrationDue, EffectTurn
<1>2. In({"JOIN_INTENT"}) = {}
  BY <1>1 DEF IInv, PhasesAgree, AllIn, Declared, In
<1>3. ~OwnMergeOpen
  BY <1>2 DEF OwnMergeOpen
<1>. QED  BY <1>1, <1>3 DEF TickReady

LEMMA CertifiedStep ==
  ASSUME CohortTypeOK, IInv, Room, Certified,
         [CohortNextStep]_cohortVars
  PROVE  Certified'
<1>0. /\ cohortPhase \in Early => journal.integration = "none"
      /\ AutoBegin => journal.integration = "none"
      /\ cohortPhase \in Finalizing /\ journal.integration # "none" => ~sup.controller
      /\ cohortPhase = "FINAL_INTERLOCK" =>
            journal.integration = "pass" /\ repo.head = globalQaHeadSha
  BY DEF Certified, Early
<1>a. journal \in [joins : SUBSET Tracks, teardowns : SUBSET Tracks, qaAsked : BOOLEAN,
                   qaReport : Shas \union {NoSha}, integration : {"none", "live", "pass", "fail"}]
  BY DEF CohortTypeOK
\* The job of the final route.
<1>1. RequestIntegration =>
         /\ UNCHANGED <<cohortPhase, sup>> /\ ~sup.controller
         /\ cohortPhase \in Finalizing /\ journal.integration = "none"
  BY DEF RequestIntegration, FinalIntegrationDue, vars
<1>2. IntegrationEnds => UNCHANGED <<cohortPhase, sup>> /\ journal.integration = "live"
  BY DEF IntegrationEnds, vars
<1>3. LaunchController => UNCHANGED <<cohortPhase, journal>> /\ (AutoBegin \/ cohortPhase \notin Finalizing)
  BY DEF LaunchController, Finalizes, vars
<1>4. \/ RequestIntegration \/ IntegrationEnds
      \/ journal'.integration = journal.integration
  BY JobAndController
<1>5. sup'.controller => sup.controller \/ LaunchController
  BY JobAndController
\* The way onto the final route and along it.
<1>6. AcceptGlobalQa =>
         /\ cohortPhase \in Early /\ cohortPhase' = "FINAL_INTEGRATION"
         /\ UNCHANGED sup
  <2>1. GlobalQaDue => cohortPhase \in Early
    BY DEF GlobalQaDue, IInv, TypeOK, EvidenceOnlyOnFinalRoute, CohortPhases, Early, Running,
       Finalizing, Terminal
  <2>. QED  BY <2>1 DEF AcceptGlobalQa, Drained, Recorded, GlobalQaPass
<1>7. AcceptIntegration =>
         /\ cohortPhase \in Finalizing /\ cohortPhase' = "FINAL_INTERLOCK"
         /\ journal.integration = "pass" /\ repo.head = globalQaHeadSha
         /\ UNCHANGED <<repo, globalQaHeadSha, sup>>
  BY DEF AcceptIntegration, Drained, Recorded, IntegrationPass, FinalIntegrationDue
<1>8. RunFinalInterlock => cohortPhase' = "COMPLETE"
  BY DEF RunFinalInterlock, InterlockPass
<1>9. AcceptGlobalQa \/ AcceptIntegration \/ RunFinalInterlock \/ OffRoute
  BY RouteSteps
<1>10. Early \intersect (Finalizing \union {"COMPLETE"}) = {} /\ "FINAL_INTERLOCK" \in Finalizing
       /\ "FINAL_INTEGRATION" \in Finalizing
  BY DEF Early, Running, Finalizing
<1>11. cohortPhase' \in Early => journal'.integration = "none"
  <2>1. cohortPhase' \in Early => cohortPhase \in Early
    BY <1>6, <1>7, <1>8, <1>9, <1>10 DEF OffRoute
  <2>. QED  BY <1>0, <1>1, <1>2, <1>4, <1>10, <2>1
<1>12. AutoBegin => journal'.integration = "none"
  <2>1. AutoBegin => ~RequestIntegration
    BY NeverAsked
  <2>. QED  BY <1>0, <1>2, <1>4, <2>1
<1>13. cohortPhase' \in Finalizing /\ journal'.integration # "none" => ~sup'.controller
  <2>. SUFFICES ASSUME cohortPhase' \in Finalizing, journal'.integration # "none"
                PROVE  ~sup'.controller
    OBVIOUS
  <2>1. cohortPhase \in Finalizing
    <3>1. ~AcceptGlobalQa
      BY <1>0, <1>1, <1>2, <1>4, <1>6, <1>10
    <3>. QED  BY <1>7, <1>8, <1>9, <1>10, <3>1 DEF OffRoute, Finalizing
  <2>2. ~LaunchController
    BY <1>3, <1>12, <2>1
  <2>3. ~sup.controller
    BY <1>0, <1>1, <1>2, <1>4, <2>1
  <2>. QED  BY <1>5, <2>2, <2>3
<1>14. cohortPhase' = "FINAL_INTERLOCK" =>
          journal'.integration = "pass" /\ repo'.head = globalQaHeadSha'
  <2>. SUFFICES ASSUME cohortPhase' = "FINAL_INTERLOCK"
                PROVE  journal'.integration = "pass" /\ repo'.head = globalQaHeadSha'
    OBVIOUS
  <2>1. CASE AcceptIntegration
    BY <1>1, <1>2, <1>4, <1>7, <2>1
  <2>2. CASE ~AcceptIntegration
    <3>1. cohortPhase = "FINAL_INTERLOCK" /\ globalQaHeadSha' = globalQaHeadSha
      BY <1>6, <1>8, <1>9, <1>10, <2>2 DEF OffRoute
    <3>2. repo'.head = repo.head
      BY <3>1, HeadRests
    <3>. QED  BY <1>0, <1>1, <1>2, <1>4, <3>1, <3>2
  <2>. QED  BY <2>1, <2>2
<1>. QED  BY <1>11, <1>13, <1>14, <1>12 DEF Certified, Early
-----------------------------------------------------------------------------
(* The invariant holds throughout.                                         *)

LEMMA CohortInitIInv == CohortInit => CohortIInv /\ Certified
<1>. SUFFICES ASSUME CohortInit PROVE CohortIInv /\ Certified
  OBVIOUS
<1>1. IInv /\ TypeOK
  BY InitIInv, InitTypeOK DEF CohortInit
<1>2. PICK path \in [Tracks -> Paths] : track = [t \in Tracks |-> NoTrack(path[t])]
  BY DEF CohortInit
<1>3. /\ repo = [head |-> Base, mergeHead |-> NoSha, merged |-> {}]
      /\ journal = [joins |-> {}, teardowns |-> {}, qaAsked |-> FALSE,
                    qaReport |-> NoSha, integration |-> "none"]
      /\ sup = [lockHeld |-> FALSE, controller |-> TRUE, merge |-> "no", crashes |-> 0]
      /\ cohortPhase = "NONE" /\ \A t \in Tracks : phase[t] = "ABSENT"
  BY DEF CohortInit, Init
<1>4. \A t \in Tracks : track[t] \in TrackWorld
  <2>. TAKE t \in Tracks
  <2>1. path[t] \in {"none", "foreign"}
    BY DEF Paths
  <2>2. NoTrack(path[t]) \in TrackWorld
    BY <2>1, BaseIsCommit DEF NoTrack, TrackWorld
  <2>. QED  BY <1>2, <2>2
<1>5. CohortTypeOK
  BY <1>1, <1>2, <1>3, <1>4, BaseIsCommit, CohortConstants DEF CohortTypeOK
<1>6. \A t \in Tracks : TrackInv(t) /\ ~Runs(t)
  <2>. TAKE t \in Tracks
  <2>1. path[t] \in {"none", "foreign"} /\ track[t] = NoTrack(path[t])
    BY <1>2 DEF Paths
  <2>. QED  BY <1>3, <2>1 DEF NoTrack, TrackInv, PlaceOfPhase, WorkIsOurs, ReadyStays, FrozenStays,
       Runs, NoDirectory, Working, Frozen
<1>7. Barrier
  <2>1. ~Started
    BY <1>3, <1>6 DEF Started, Ahead, Working, Frozen
  <2>. QED  BY <1>6, <2>1 DEF Barrier
<1>8. Room
  <2>1. Tracks \ {} = Tracks /\ Cardinality(Tracks) \in Nat
    BY TracksAssumption, FS_CardinalityType
  <2>. QED  BY <1>3, <2>1, CohortConstants DEF Room, Base
<1>9. Certified
  BY <1>3 DEF Certified, Finalizing
<1>10. Underway
  BY <1>3 DEF Underway
<1>. QED  BY <1>1, <1>5, <1>6, <1>7, <1>8, <1>9, <1>10 DEF CohortIInv

LEMMA CohortInductive ==
  ASSUME LateAdd = FALSE, CohortIInv, [CohortNextStep]_cohortVars
  PROVE  CohortIInv'
<1>1. /\ CohortTypeOK /\ IInv /\ Barrier /\ Room /\ Underway
      /\ \A u \in Tracks : TrackInv(u)
  BY DEF CohortIInv
<1>2. IInv'
  BY <1>1, ProtocolStep, Inductive
<1>3. CohortTypeOK'
  <2>1. WorldTypeOK'
    BY <1>1, WorldType
  <2>2. TypeOK'
    BY <1>2 DEF IInv
  <2>. QED  BY <2>1, <2>2 DEF CohortTypeOK, WorldTypeOK, SupWorld
<1>4. \A u \in Tracks : TrackInv(u)'
  BY <1>1, TracksKeep
<1>5. Barrier'
  BY <1>1, BarrierStep
<1>6. Room'
  BY <1>1, RoomStep
<1>7. Underway'
  BY <1>1, UnderwayStep
<1>. QED  BY <1>2, <1>3, <1>4, <1>5, <1>6, <1>7 DEF CohortIInv

LEMMA CohortIInvHolds ==
  ASSUME LateAdd = FALSE
  PROVE  CohortSpec => []CohortIInv
<1>1. CohortInit => CohortIInv
  BY CohortInitIInv
<1>2. CohortIInv /\ [CohortNextStep]_cohortVars => CohortIInv'
  BY CohortInductive
<1>. QED  BY <1>1, <1>2, PTL DEF CohortSpec

\* Every value of the cohort's variables is of its type: in particular the
\* merges of all the tracks find room on the plan's branch, whatever its own
\* controller commits in between.
THEOREM CohortTypeCorrect ==
  ASSUME LateAdd = FALSE
  PROVE  CohortSpec => []CohortTypeOK
<1>1. CohortIInv => CohortTypeOK
  BY DEF CohortIInv
<1>. QED  BY <1>1, CohortIInvHolds, PTL

\* The driver, its crashes and the processes of the tracks take the reducer
\* through steps of its own only: what is proved of the reducer holds of the
\* cohort as it runs.
THEOREM CohortRunsTheReducer ==
  ASSUME LateAdd = FALSE
  PROVE  CohortSpec => Spec
<1>1. CohortInit => Init
  BY DEF CohortInit
<1>2. CohortIInv /\ [CohortNextStep]_cohortVars => [Next]_vars
  BY ProtocolStep DEF CohortIInv
<1>. QED  BY <1>1, <1>2, CohortIInvHolds, PTL DEF CohortSpec, Spec

\* A cohort as it runs keeps what CohortContract promises of it.
THEOREM CohortKeepsContract ==
  ASSUME LateAdd = FALSE
  PROVE  CohortSpec => ImplementsContract
  BY CohortRunsTheReducer, Refinement

\* assertProtocolInvariants, which runs on every state the driver persists,
\* never throws, whatever crashes and faults there are.
THEOREM DriverNeverThrows ==
  ASSUME LateAdd = FALSE
  PROVE  CohortSpec => []ProtocolInvariants
  BY CohortRunsTheReducer, AssertionNeverThrows

\* A track the journal calls merged is in the plan, and a frozen track is
\* still at the commit recorded at its freeze.
THEOREM MergedStaysInPlan ==
  ASSUME LateAdd = FALSE
  PROVE  CohortSpec => []MergedIsInPlan
<1>1. CohortIInv => MergedIsInPlan
  BY DEF CohortIInv, TrackInv, FrozenStays, MergedIsInPlan, In
<1>. QED  BY <1>1, CohortIInvHolds, PTL

\* C1: nothing of a cohort runs before all of it is ready.
THEOREM BarrierHolds ==
  ASSUME LateAdd = FALSE
  PROVE  CohortSpec => []ArmedBarrier
<1>1. CohortIInv => ArmedBarrier
  BY DEF CohortIInv, Barrier, Started, Ahead, Runs, ArmedBarrier, Declared
<1>. QED  BY <1>1, CohortIInvHolds, PTL

\* R4.10: a commit of a track is on its branch until the plan contains it, and
\* a serial cohort left nothing of its own behind.
THEOREM NoWorkIsLost ==
  ASSUME LateAdd = FALSE
  PROVE  CohortSpec => []CommittedWorkSurvives
<1>1. CohortIInv => CommittedWorkSurvives
  <2>. SUFFICES ASSUME CohortIInv PROVE CommittedWorkSurvives
    OBVIOUS
  <2>1. \A t \in Tracks : TrackInv(t)
    BY DEF CohortIInv
  <2>2. cohortPhase = "SERIAL" => \A t \in Tracks : phase[t] \in {"ABSENT", "DECLARED", "REMOVED"}
    BY DEF CohortIInv, IInv, ProtocolInvariants, SerialIsDismantled, AllIn, Declared
  <2>. QED  BY <2>1, <2>2
       DEF TrackInv, WorkIsOurs, PlaceOfPhase, NoDirectory, CommittedWorkSurvives
<1>. QED  BY <1>1, CohortIInvHolds, PTL
-----------------------------------------------------------------------------
(* Action properties *)

\* The HEAD of a merge somebody else began is never taken for a track's.
LEMMA ForeignMergeStays ==
  ASSUME CohortIInv, [CohortNextStep]_cohortVars, repo.mergeHead = Foreign
  PROVE  repo'.mergeHead = Foreign
<1>0. /\ repo \in [head : Shas, mergeHead : Shas \union {NoSha}, merged : SUBSET Tracks]
      /\ repo.mergeHead # NoSha
  BY BaseIsCommit, NoShaAssumption DEF CohortIInv, CohortTypeOK
<1>1. \A t \in Tracks : ~AbortOwnMerge(t)
  <2>. SUFFICES ASSUME NEW t \in Tracks, AbortOwnMerge(t) PROVE FALSE
    OBVIOUS
  <2>1. phase[t] = "JOIN_INTENT" /\ Decision(t) = "abort-own-merge"
    BY DEF AbortOwnMerge, Merging, MergeDue, First, In
  <2>2. TrackIsAncestor(t) \in BOOLEAN
    BY DEF TrackIsAncestor
  <2>3. repo.mergeHead = frozenHeadSha[t]
    BY <2>1, <2>2, DecisionFacts DEF Decision
  <2>4. frozenHeadSha[t] \in {Base, TrackTip(t)}
    BY <2>1 DEF CohortIInv, TrackInv, WorkIsOurs, FrozenStays, Frozen
  <2>. QED  BY <2>3, <2>4, BaseIsCommit, TipIsForeignToNone
<1>2. \A t \in Tracks : ~MergeTrack(t) /\ ~MergeConflicts(t)
  BY <1>0 DEF MergeTrack, MergeConflicts
<1>. QED  BY <1>0, <1>1, <1>2, RepoWriters DEF ControllerCommits, ForeignMerge

\* R4.6, R6.8: a path or a merge that is not the cohort's is never touched, and
\* uncommitted work never thrown away.
THEOREM ForeignIsNeverTouched ==
  ASSUME LateAdd = FALSE
  PROVE  CohortSpec => ForeignNeverTouched
<1>1. CohortIInv /\ [CohortNextStep]_cohortVars =>
        [ /\ \A t \in Tracks :
                /\ track[t].worktree = "foreign" => track'[t].worktree = "foreign"
                /\ track[t].dirty /\ track'[t].worktree # "ours" => UNCHANGED track[t]
          /\ repo.mergeHead = Foreign => UNCHANGED repo.mergeHead ]_cohortVars
  <2>. SUFFICES ASSUME CohortIInv, [CohortNextStep]_cohortVars
                PROVE  /\ \A t \in Tracks :
                             /\ track[t].worktree = "foreign" => track'[t].worktree = "foreign"
                             /\ track[t].dirty /\ track'[t].worktree # "ours" => UNCHANGED track[t]
                       /\ repo.mergeHead = Foreign => UNCHANGED repo.mergeHead
    OBVIOUS
  <2>1. CohortTypeOK /\ \A u \in Tracks : TrackInv(u)
    BY DEF CohortIInv
  <2>2. \A t \in Tracks : KeepsPlace(t)
    BY <2>1, WorldStaysBehind
  <2>3. \A t \in Tracks : track[t].dirty => track[t].worktree = "ours"
    BY <2>1 DEF TrackInv, WorkIsOurs
  <2>. QED  BY <2>2, <2>3, ForeignMergeStays DEF KeepsPlace
<1>. QED  BY <1>1, CohortIInvHolds, PTL DEF CohortSpec, ForeignNeverTouched

\* C7: a track is merged under the integration lock only, into a cohort that is
\* frozen as a whole, after every track before it, and, where the controller
\* commits in the global QA only, onto the HEAD the last merge left.
THEOREM MergesHoldTheLease ==
  ASSUME LateAdd = FALSE
  PROVE  CohortSpec => MergesUnderLease
<1>1. ASSUME CohortIInv, [CohortNextStep]_cohortVars, NEW t \in repo'.merged \ repo.merged
      PROVE  /\ sup.lockHeld
             /\ AllIn(Frozen) /\ phase[t] = "JOIN_INTENT"
             /\ \A u \in Declared : u < t => InPlan(u)
             /\ "commits" \in Disciplined => repo.head = planHeadSha
  <2>1. /\ repo \in [head : Shas, mergeHead : Shas \union {NoSha}, merged : SUBSET Tracks]
        /\ IInv /\ Underway /\ \A u \in Tracks : TrackInv(u)
    BY <1>1 DEF CohortIInv, CohortTypeOK
  <2>2. PICK u \in Tracks : MergeTrack(u)
    BY <1>1, <2>1, RepoWriters
    DEF ControllerCommits, ForeignMerge, MergeConflicts, GitMerge, AbortOwnMerge
  <2>3. t = u
    <3>1. repo' = [repo EXCEPT !.head = NextCommit, !.merged = @ \union {u}]
      BY <2>2 DEF MergeTrack, GitMerge
    <3>. QED  BY <1>1, <2>1, <3>1
  <2>4. sup.merge = "asserted" /\ MergeDue(t)
    BY <2>2, <2>3 DEF MergeTrack, GitMerge
  <2>5. sup.lockHeld /\ ("commits" \in Disciplined => repo.head = planHeadSha)
    BY <2>1, <2>4 DEF Underway
  <2>6. /\ AllIn(Frozen) /\ phase[t] = "JOIN_INTENT" /\ t \in In({"JOIN_INTENT"})
        /\ cohortPhase \in Running
    BY <2>4 DEF MergeDue, AllFrozen, First, In
  <2>7. cohortPhase = "JOINING"
    <3>1. t \in Declared /\ t \in Tracks
      BY <2>6 DEF Declared, In
    <3>. QED  BY <2>1, <2>6, <3>1 DEF Running, IInv, PhasesAgree, AllIn
  <2>8. ASSUME NEW v \in Declared, v < t
        PROVE  InPlan(v)
    <3>1. phase[v] = "MERGED_UNVERIFIED"
      BY <2>1, <2>6, <2>7, <2>8 DEF IInv, MergesInOrder, In
    <3>. QED  BY <2>1, <3>1 DEF TrackInv, FrozenStays, Declared
  <2>. QED  BY <2>5, <2>6, <2>8
<1>2. CohortIInv /\ [CohortNextStep]_cohortVars =>
        [ \A t \in repo'.merged \ repo.merged :
            /\ sup.lockHeld
            /\ AllIn(Frozen) /\ phase[t] = "JOIN_INTENT"
            /\ \A u \in Declared : u < t => InPlan(u)
            /\ "commits" \in Disciplined => repo.head = planHeadSha ]_cohortVars
  BY <1>1
<1>. QED  BY <1>2, CohortIInvHolds, PTL DEF CohortSpec, MergesUnderLease

\* R7.2, R7.4: what completes is the HEAD that QA certified and the integration
\* job ran on, with every track in it, whatever the controller commits.
THEOREM CompletionIsCertified ==
  ASSUME LateAdd = FALSE
  PROVE  CohortSpec => CompleteIsCertified
<1>1. CohortInit => Certified
  BY CohortInitIInv
<1>2. CohortIInv /\ Certified /\ [CohortNextStep]_cohortVars => Certified'
  BY CertifiedStep DEF CohortIInv
<1>3. CohortIInv /\ Certified /\ [CohortNextStep]_cohortVars =>
        [ cohortPhase' = "COMPLETE" /\ cohortPhase # "COMPLETE" =>
            /\ repo.head = globalQaHeadSha
            /\ \A t \in Declared : InPlan(t) ]_cohortVars
  <2>. SUFFICES ASSUME CohortIInv, Certified, [CohortNextStep]_cohortVars,
                       cohortPhase' = "COMPLETE", cohortPhase # "COMPLETE"
                PROVE  repo.head = globalQaHeadSha /\ \A t \in Declared : InPlan(t)
    OBVIOUS
  <2>1. RunFinalInterlock
    BY RouteSteps DEF CohortIInv, OffRoute, AcceptGlobalQa, AcceptIntegration, Drained, Recorded,
       GlobalQaPass, IntegrationPass
  <2>2. cohortPhase = "FINAL_INTERLOCK"
    BY <2>1 DEF RunFinalInterlock, InterlockPass, FinalInterlockDue
  <2>3. \A t \in Declared : phase[t] = "MERGED_UNVERIFIED"
    BY <2>2 DEF CohortIInv, IInv, PhasesAgree, AllIn, Finalizing
  <2>. QED  BY <2>2, <2>3 DEF Certified, CohortIInv, TrackInv, FrozenStays, Declared
<1>. QED  BY <1>1, <1>2, <1>3, CohortIInvHolds, PTL DEF CohortSpec, CompleteIsCertified

\* Against R7.3 and the comment at supervisor.ts:606: where every tick begins a
\* generation, as in runSupervisorLoop, the driver pauses the controller of the
\* final route again and again and never asks for the integration job.
THEOREM RelaunchStarvesIntegration ==
  ASSUME LateAdd = FALSE, AutoBegin = TRUE
  PROVE  CohortSpec => [](journal.integration = "none" /\ cohortPhase # "COMPLETE")
<1>. DEFINE Unasked == journal.integration = "none" /\ cohortPhase # "COMPLETE"
<1>1. CohortInit => Certified /\ Unasked
  BY CohortInitIInv DEF CohortInit, Init, Certified
<1>2. CohortIInv /\ Certified /\ [CohortNextStep]_cohortVars => Certified'
  BY CertifiedStep DEF CohortIInv
<1>3. CohortIInv /\ Certified /\ Unasked /\ [CohortNextStep]_cohortVars => Unasked'
  <2>. SUFFICES ASSUME CohortIInv, Certified, Unasked, [CohortNextStep]_cohortVars
                PROVE  Unasked'
    OBVIOUS
  <2>1. journal'.integration = "none"
    BY <1>2 DEF Certified
  <2>2. cohortPhase # "FINAL_INTERLOCK"
    BY DEF Certified
  <2>3. cohortPhase' # "COMPLETE"
    BY <2>2, RouteSteps DEF CohortIInv, OffRoute, AcceptGlobalQa, AcceptIntegration, Drained, Recorded,
       GlobalQaPass, IntegrationPass, RunFinalInterlock, InterlockPass, FinalInterlockDue
  <2>. QED  BY <2>1, <2>3
<1>. QED  BY <1>1, <1>2, <1>3, CohortIInvHolds, PTL DEF CohortSpec
=============================================================================
