--------------------------- MODULE TrackProtocol ---------------------------
(***************************************************************************)
(* The pure reducer of a cohort of parallel tracks                         *)
(* (core/tracks/protocol.ts): nextProtocolEffect selects the one effect    *)
(* that is due, and reconcileProtocol or observeProtocolEffect applies     *)
(* what was observed of it.  One action is one observation of the effect   *)
(* that is due, or one request taken from the plan's journal.              *)
(*                                                                         *)
(* The reducer is fed with ANY observation its type allows; which of them  *)
(* the world can produce is the subject of module TrackCohort.             *)
(*                                                                         *)
(* A TrackRef is the index of its trackId in the order of localeCompare,   *)
(* so "<" on Tracks is the order nextProtocolEffect sorts by.              *)
(* expectedTrackHeadSha has no variable: it is frozenHeadSha, the only     *)
(* value persist-join-intent gives it.                                     *)
(***************************************************************************)
EXTENDS Naturals, FiniteSets

CONSTANTS
    Tracks,        \* the trackIds that may be declared
    MaxParallel,   \* --max-parallel: the cap on ACTIVE tracks
    Shas,          \* commits
    NoSha,         \* an undefined sha
    LateAdd        \* may `awm track add` come after the cohort was activated?

ASSUME TracksAssumption == Tracks \subseteq Nat /\ IsFiniteSet(Tracks)
ASSUME MaxParallelAssumption == MaxParallel \in Nat \ {0}
ASSUME NoShaAssumption == NoSha \notin Shas
ASSUME LateAddAssumption == LateAdd \in BOOLEAN

VARIABLES
    cohortPhase,            \* "NONE" is undefined: fewer than two tracks
    phase,                  \* "ABSENT": the trackId has no TrackRef
    frozenHeadSha,
    expectedPlanHeadSha,    \* of the track's joinIntent
    planHeadSha,            \* cohortPlanHeadSha ?? cohortBaseSha
    globalQaHeadSha,
    finalIntegrationPassed  \* finalIntegrationJobId is defined

vars == <<cohortPhase, phase, frozenHeadSha, expectedPlanHeadSha, planHeadSha,
          globalQaHeadSha, finalIntegrationPassed>>

evidence == <<globalQaHeadSha, finalIntegrationPassed>>
shas == <<frozenHeadSha, expectedPlanHeadSha, planHeadSha>>
-----------------------------------------------------------------------------
(* Phases *)

PreparingPhases == {"DECLARED", "PREPARE_INTENT", "WORKTREE_CREATED",
                    "JOURNAL_CREATED", "SUPERVISOR_STARTING"}

Frozen == {"FROZEN", "JOIN_INTENT", "MERGED_UNVERIFIED", "JOINED"}

Working == Frozen \union {"ARMED", "ACTIVE", "FREEZE_REQUESTED", "JOIN_REQUESTED"}

TeardownPhases == {"TEARDOWN_REQUESTED", "TEARDOWN_INTENT", "SUPERVISOR_STOPPED",
                   "WORKTREE_REMOVED", "BRANCH_REMOVED"}

TrackPhases == PreparingPhases \union Working \union TeardownPhases
                 \union {"ABSENT", "REMOVED", "BLOCKED"}

Running == {"ACTIVE", "JOINING"}
Finalizing == {"FINAL_INTEGRATION", "FINAL_INTERLOCK"}
Terminal == {"COMPLETE", "SERIAL", "BLOCKED"}

CohortPhases == {"NONE", "PREPARING", "FALLBACK_PENDING"}
                  \union Running \union Finalizing \union Terminal

TypeOK ==
    /\ cohortPhase \in CohortPhases
    /\ phase \in [Tracks -> TrackPhases]
    /\ frozenHeadSha \in [Tracks -> Shas \union {NoSha}]
    /\ expectedPlanHeadSha \in [Tracks -> Shas \union {NoSha}]
    /\ planHeadSha \in Shas \union {NoSha}
    /\ globalQaHeadSha \in Shas \union {NoSha}
    /\ finalIntegrationPassed \in BOOLEAN

Declared == {t \in Tracks : phase[t] # "ABSENT"}
In(P) == {t \in Tracks : phase[t] \in P}
AllIn(P) == \A t \in Declared : phase[t] \in P
First(t, S) == t \in S /\ \A u \in S : t <= u

-----------------------------------------------------------------------------
(* assertProtocolInvariants, one named part per throw.  The code runs it   *)
(* on the state before selecting an effect and on every state it produces. *)

CohortHasTwoTracks ==
    cohortPhase # "NONE" => \E t, u \in Declared : t # u

OnlyWorkingTracksRun ==
    cohortPhase \in Running => AllIn(Working)

ActiveWithinCap ==
    cohortPhase # "NONE" => Cardinality(In({"ACTIVE"})) <= MaxParallel

OneJoinIntent ==
    \A t, u \in In({"JOIN_INTENT"}) : t = u

FrozenHasHead ==
    \A t \in In(Frozen) : frozenHeadSha[t] # NoSha

SerialIsDismantled ==
    cohortPhase = "SERIAL" => AllIn({"REMOVED", "DECLARED"})

IntegrationAfterMerges ==
    finalIntegrationPassed => AllIn({"MERGED_UNVERIFIED", "JOINED"})

CompleteIsJoined ==
    cohortPhase = "COMPLETE" => AllIn({"JOINED"})

\* No step of the reducer, whatever it observes, reaches a state at which
\* assertProtocolInvariants throws: protocol.ts runs that assertion on every
\* state it returns, and a throw would make every later tick throw too.
ProtocolInvariants ==
    /\ CohortHasTwoTracks
    /\ OnlyWorkingTracksRun
    /\ ActiveWithinCap
    /\ OneJoinIntent
    /\ FrozenHasHead
    /\ SerialIsDismantled
    /\ IntegrationAfterMerges
    /\ CompleteIsJoined
-----------------------------------------------------------------------------
Init ==
    /\ cohortPhase = "NONE"
    /\ phase = [t \in Tracks |-> "ABSENT"]
    /\ frozenHeadSha = [t \in Tracks |-> NoSha]
    /\ expectedPlanHeadSha = [t \in Tracks |-> NoSha]
    /\ planHeadSha = NoSha
    /\ globalQaHeadSha = NoSha
    /\ finalIntegrationPassed = FALSE

SetPhase(t, p) == phase' = [phase EXCEPT ![t] = p]

\* track-prepare-request declares a TrackRef whatever the phase of the cohort;
\* the second one starts the cohort at the HEAD of the plan's branch.
DeclareTrack(t, head) ==
    /\ phase[t] = "ABSENT"
    /\ LateAdd \/ cohortPhase \notin Running \union Finalizing \union {"COMPLETE"}
    /\ SetPhase(t, "DECLARED")
    /\ IF cohortPhase = "NONE" /\ Declared # {}
       THEN cohortPhase' = "PREPARING" /\ planHeadSha' = head
       ELSE UNCHANGED <<cohortPhase, planHeadSha>>
    /\ UNCHANGED <<frozenHeadSha, expectedPlanHeadSha, evidence>>

-----------------------------------------------------------------------------
(* nextProtocolEffect: which effect is due, and for which track.  It       *)
(* throws instead of selecting one where the assertion does not hold.      *)

PreparingTrack(t) ==
    /\ ProtocolInvariants
    /\ cohortPhase = "PREPARING"
    /\ First(t, Declared \ In({"ARMED", "BLOCKED"}))

\* Mutant: a blocked track does not hold the cohort back.
ActivateAroundBlocked ==
    ProtocolInvariants /\ cohortPhase = "PREPARING" /\ AllIn({"ARMED", "BLOCKED"})

ActivateCohortDue ==
    ProtocolInvariants /\ cohortPhase = "PREPARING" /\ AllIn({"ARMED"})

ActivateTrackDue(t) ==
    /\ ProtocolInvariants
    /\ cohortPhase = "ACTIVE"
    /\ Cardinality(In({"ACTIVE"})) < MaxParallel
    /\ First(t, In({"ARMED"}))

SlotToFill == \E t \in Tracks : ActivateTrackDue(t)

\* Mutant: a track that is frozen may be frozen again.
FreezeAgainDue(t) ==
    /\ ProtocolInvariants
    /\ cohortPhase \in Running
    /\ ~SlotToFill
    /\ First(t, In({"JOIN_REQUESTED", "FROZEN"}))

FreezeDue(t) ==
    /\ ProtocolInvariants
    /\ cohortPhase \in Running
    /\ ~SlotToFill
    /\ First(t, In({"JOIN_REQUESTED"}))

\* Mutant: the barrier before the first merge is missing.
SomeFrozen == ProtocolInvariants /\ cohortPhase \in Running /\ In({"FROZEN"}) # {}

AllFrozen == ProtocolInvariants /\ cohortPhase \in Running /\ AllIn(Frozen)

MergeDue(t) == AllFrozen /\ First(t, In({"JOIN_INTENT"}))

\* Mutant: a second merge is begun before the first is settled.
JoinIntentDueTwice(t) == AllFrozen /\ First(t, In({"FROZEN"}))

JoinIntentDue(t) ==
    AllFrozen /\ In({"JOIN_INTENT"}) = {} /\ First(t, In({"FROZEN"}))

GlobalQaDue ==
    /\ ProtocolInvariants
    /\ cohortPhase \notin {"NONE", "FALLBACK_PENDING"} \union Terminal
    /\ AllIn({"MERGED_UNVERIFIED"})
    /\ globalQaHeadSha = NoSha

FinalIntegrationDue ==
    /\ ProtocolInvariants
    /\ cohortPhase \in Finalizing
    /\ globalQaHeadSha # NoSha
    /\ ~finalIntegrationPassed

FinalInterlockDue ==
    ProtocolInvariants /\ cohortPhase = "FINAL_INTERLOCK" /\ finalIntegrationPassed

TeardownDue(t) ==
    /\ ProtocolInvariants
    /\ cohortPhase = "FALLBACK_PENDING"
    /\ In({"BLOCKED"}) = {}
    /\ First(t, Declared \ In({"DECLARED", "REMOVED"}))

\* Mutant: the effect is selected without looking at the tracks.
EnterSerialEarly ==
    ProtocolInvariants /\ cohortPhase = "FALLBACK_PENDING" /\ In({"TEARDOWN_INTENT"}) = {}

EnterSerialDue ==
    ProtocolInvariants /\ cohortPhase = "FALLBACK_PENDING" /\ AllIn({"DECLARED", "REMOVED"})
-----------------------------------------------------------------------------
(* PREPARING *)

PrepareStep(t, from, to) ==
    /\ PreparingTrack(t)
    /\ phase[t] = from
    /\ SetPhase(t, to)
    /\ UNCHANGED <<cohortPhase, shas, evidence>>

PersistPrepareIntent(t) == PrepareStep(t, "DECLARED", "PREPARE_INTENT")

\* worktree-observed: a path that is not provably ours blocks the track.
WorktreeObserved(t, owned) ==
    PrepareStep(t, "PREPARE_INTENT", IF owned THEN "WORKTREE_CREATED" ELSE "BLOCKED")

CreateTrackJournal(t) == PrepareStep(t, "WORKTREE_CREATED", "JOURNAL_CREATED")

PersistSupervisorIntent(t) == PrepareStep(t, "JOURNAL_CREATED", "SUPERVISOR_STARTING")

\* supervisor-observed; an absent supervisor is tried again and changes nothing.
SupervisorObserved(t, mine) ==
    PrepareStep(t, "SUPERVISOR_STARTING", IF mine THEN "ARMED" ELSE "BLOCKED")

MarkTeardown(p) == IF p \in {"ABSENT", "DECLARED", "REMOVED", "BLOCKED"}
                   THEN p ELSE "TEARDOWN_REQUESTED"

FallBack ==
    /\ cohortPhase' = "FALLBACK_PENDING"
    /\ phase' = [t \in Tracks |-> MarkTeardown(phase[t])]

\* effect-failed of create-worktree or create-track-journal.
PrepareFailed(t) ==
    /\ PreparingTrack(t)
    /\ phase[t] \in {"PREPARE_INTENT", "WORKTREE_CREATED"}
    /\ FallBack
    /\ UNCHANGED <<shas, evidence>>

ActivateCohort ==
    /\ ActivateCohortDue
    /\ cohortPhase' = "ACTIVE"
    /\ UNCHANGED <<phase, shas, evidence>>
-----------------------------------------------------------------------------
(* ACTIVE and JOINING *)

ActivateTrack(t) ==
    /\ ActivateTrackDue(t)
    /\ SetPhase(t, "ACTIVE")
    /\ UNCHANGED <<cohortPhase, shas, evidence>>

JoinRequested(t) ==
    /\ phase[t] = "ACTIVE"
    /\ SetPhase(t, "JOIN_REQUESTED")
    /\ UNCHANGED <<cohortPhase, shas, evidence>>

FreezeObserved(t, head) ==
    /\ FreezeDue(t)
    /\ frozenHeadSha' = [frozenHeadSha EXCEPT ![t] = head]
    /\ SetPhase(t, "FROZEN")
    /\ cohortPhase' = "JOINING"
    /\ UNCHANGED <<expectedPlanHeadSha, planHeadSha, evidence>>

\* Mutant: the intent expects the HEAD the cohort started from.
PersistStaleIntent(t) ==
    /\ JoinIntentDue(t)
    /\ SetPhase(t, "JOIN_INTENT")
    /\ expectedPlanHeadSha' = [expectedPlanHeadSha EXCEPT ![t] = frozenHeadSha[t]]
    /\ UNCHANGED <<cohortPhase, frozenHeadSha, planHeadSha, evidence>>

PersistJoinIntent(t) ==
    /\ JoinIntentDue(t)
    /\ SetPhase(t, "JOIN_INTENT")
    /\ expectedPlanHeadSha' = [expectedPlanHeadSha EXCEPT ![t] = planHeadSha]
    /\ UNCHANGED <<cohortPhase, frozenHeadSha, planHeadSha, evidence>>

\* decideJoinReconciliation, first match first.
JoinDecision(t, mergeHead, planHead, trackIsAncestor) ==
    CASE mergeHead = NoSha /\ planHead = expectedPlanHeadSha[t] /\ ~trackIsAncestor
           -> "retry-merge"
      [] mergeHead = frozenHeadSha[t] /\ planHead = expectedPlanHeadSha[t]
           -> "abort-own-merge"
      [] mergeHead = NoSha /\ trackIsAncestor -> "accept-merge"
      [] OTHER -> "block"

\* join-observation, where it changes something: a merge to retry or to
\* abort leaves the intent as it is.
JoinObserved(t, mergeHead, planHead, trackIsAncestor) ==
    /\ MergeDue(t)
    /\ \/ /\ JoinDecision(t, mergeHead, planHead, trackIsAncestor) = "accept-merge"
          /\ SetPhase(t, "MERGED_UNVERIFIED")
          /\ planHeadSha' = planHead
          /\ UNCHANGED cohortPhase
       \/ /\ JoinDecision(t, mergeHead, planHead, trackIsAncestor) = "block"
          /\ SetPhase(t, "BLOCKED")
          /\ cohortPhase' = "BLOCKED"
          /\ UNCHANGED planHeadSha
    /\ UNCHANGED <<frozenHeadSha, expectedPlanHeadSha, evidence>>
-----------------------------------------------------------------------------
(* The final route *)

GlobalQaPass(head) ==
    /\ GlobalQaDue
    /\ globalQaHeadSha' = head
    /\ cohortPhase' = "FINAL_INTEGRATION"
    /\ UNCHANGED <<phase, shas, finalIntegrationPassed>>

\* An integration of another HEAD than that of QA makes the reducer throw.
IntegrationPass(head) ==
    /\ FinalIntegrationDue
    /\ head = globalQaHeadSha
    /\ finalIntegrationPassed' = TRUE
    /\ cohortPhase' = "FINAL_INTERLOCK"
    /\ UNCHANGED <<phase, shas, globalQaHeadSha>>

\* Mutant: COMPLETE is written to the tracks.
InterlockMarksComplete ==
    /\ FinalInterlockDue
    /\ phase' = [t \in Tracks |-> IF t \in Declared THEN "COMPLETE" ELSE "ABSENT"]
    /\ cohortPhase' = "COMPLETE"
    /\ UNCHANGED <<shas, evidence>>

InterlockPass ==
    /\ FinalInterlockDue
    /\ phase' = [t \in Tracks |-> IF t \in Declared THEN "JOINED" ELSE "ABSENT"]
    /\ cohortPhase' = "COMPLETE"
    /\ UNCHANGED <<shas, evidence>>
-----------------------------------------------------------------------------
(* Teardown and fallback *)

\* Mutant: the evidence of the final route stays.
TeardownKeepsEvidence ==
    /\ cohortPhase \notin {"NONE", "FALLBACK_PENDING"} \union Terminal
    /\ FallBack
    /\ UNCHANGED <<shas, evidence>>

\* teardown-requested does not run the assertion before: it is how a cohort
\* leaves the final route, whose evidence is dropped first.
TeardownRequested ==
    /\ cohortPhase \notin {"NONE", "FALLBACK_PENDING"} \union Terminal
    /\ FallBack
    /\ globalQaHeadSha' = NoSha
    /\ finalIntegrationPassed' = FALSE
    /\ UNCHANGED shas

BeginTeardown(t) ==
    /\ TeardownDue(t)
    /\ phase[t] = "TEARDOWN_REQUESTED"
    /\ SetPhase(t, "TEARDOWN_INTENT")
    /\ UNCHANGED <<cohortPhase, shas, evidence>>

TeardownObservation == [foreign : BOOLEAN, supervisorAlive : BOOLEAN,
                        worktreeExists : BOOLEAN, branchExists : BOOLEAN]

\* The phase decideTeardown lets an observation prove; the phase itself where
\* the effect is still to be done.
ProvenPhase(p, o) ==
    IF o.foreign THEN "BLOCKED"
    ELSE CASE p = "TEARDOWN_INTENT" /\ ~o.supervisorAlive -> "SUPERVISOR_STOPPED"
           [] p = "SUPERVISOR_STOPPED" /\ ~o.worktreeExists -> "WORKTREE_REMOVED"
           [] p = "WORKTREE_REMOVED" /\ ~o.branchExists -> "BRANCH_REMOVED"
           [] p = "BRANCH_REMOVED" -> "REMOVED"
           [] OTHER -> p

TeardownObserved(t, o) ==
    /\ TeardownDue(t)
    /\ phase[t] \in TeardownPhases
    /\ ProvenPhase(phase[t], o) # phase[t]
    /\ SetPhase(t, ProvenPhase(phase[t], o))
    /\ IF o.foreign THEN cohortPhase' = "BLOCKED" ELSE UNCHANGED cohortPhase
    /\ UNCHANGED <<shas, evidence>>

\* effect-failed of begin-teardown: a dirty worktree or an unmerged branch is
\* never forced away.
TeardownFailed(t) ==
    /\ TeardownDue(t)
    /\ phase[t] \in {"SUPERVISOR_STOPPED", "WORKTREE_REMOVED"}
    /\ SetPhase(t, "BLOCKED")
    /\ cohortPhase' = "BLOCKED"
    /\ UNCHANGED <<shas, evidence>>

EnterSerial ==
    /\ EnterSerialDue
    /\ cohortPhase' = "SERIAL"
    /\ UNCHANGED <<phase, shas, evidence>>
-----------------------------------------------------------------------------
PrepareNext(t) ==
    \/ PersistPrepareIntent(t)
    \/ \E owned \in BOOLEAN : WorktreeObserved(t, owned)
    \/ CreateTrackJournal(t)
    \/ PersistSupervisorIntent(t)
    \/ \E mine \in BOOLEAN : SupervisorObserved(t, mine)
    \/ PrepareFailed(t)

JoinNext(t) ==
    \/ ActivateTrack(t)
    \/ JoinRequested(t)
    \/ \E head \in Shas : FreezeObserved(t, head)
    \/ PersistJoinIntent(t)
    \/ \E mergeHead \in Shas \union {NoSha}, planHead \in Shas, anc \in BOOLEAN :
          JoinObserved(t, mergeHead, planHead, anc)

TeardownNext(t) ==
    \/ BeginTeardown(t)
    \/ \E o \in TeardownObservation : TeardownObserved(t, o)
    \/ TeardownFailed(t)

CohortNext ==
    \/ ActivateCohort
    \/ \E head \in Shas : GlobalQaPass(head) \/ IntegrationPass(head)
    \/ InterlockPass
    \/ TeardownRequested
    \/ EnterSerial

Next ==
    \/ CohortNext
    \/ \E t \in Tracks :
          \/ \E head \in Shas : DeclareTrack(t, head)
          \/ PrepareNext(t)
          \/ JoinNext(t)
          \/ TeardownNext(t)

Spec == Init /\ [][Next]_vars
-----------------------------------------------------------------------------
(* Safety *)

\* C7: the plan HEAD a live join intent expects is the HEAD the last accepted
\* merge left, never the base the cohort started from.
JoinIntentIsFresh ==
    \A t \in In({"JOIN_INTENT"}) : expectedPlanHeadSha[t] = planHeadSha

\* C3 and C7: tracks are merged in the order of their ids, one after the
\* other, and none before the whole cohort is frozen.
MergesInOrder ==
    cohortPhase = "JOINING" =>
        \A t \in In({"JOIN_INTENT", "MERGED_UNVERIFIED"}), u \in Declared :
            /\ phase[u] \in Frozen
            /\ u < t => phase[u] = "MERGED_UNVERIFIED"

\* Evidence of the final route (globalQaHeadSha, finalIntegrationJobId) exists
\* only on that route: an abandoned route leaves none behind.
EvidenceOnlyOnFinalRoute ==
    /\ globalQaHeadSha # NoSha <=> cohortPhase \in Finalizing \union {"COMPLETE"}
    /\ finalIntegrationPassed <=> cohortPhase \in {"FINAL_INTERLOCK", "COMPLETE"}

\* The phases of the tracks are those the phase of the cohort allows: it is
\* never ahead of a track (activated before all are armed, on the final route
\* before all are merged) nor behind one.
PhasesAgree ==
    /\ cohortPhase = "NONE" => AllIn({"DECLARED"})
    /\ cohortPhase = "PREPARING" => AllIn(PreparingPhases \union {"ARMED", "BLOCKED"})
    /\ cohortPhase = "ACTIVE" => AllIn({"ARMED", "ACTIVE", "JOIN_REQUESTED"})
    /\ cohortPhase = "JOINING" => AllIn(Working \ {"FREEZE_REQUESTED", "JOINED"})
    /\ cohortPhase \in Finalizing => AllIn({"MERGED_UNVERIFIED"})
    /\ cohortPhase = "FALLBACK_PENDING" =>
          AllIn(TeardownPhases \union {"DECLARED", "REMOVED", "BLOCKED"})

-----------------------------------------------------------------------------
(* Action properties *)

\* C2 and R4.6: COMPLETE, SERIAL and BLOCKED are never left; in particular a
\* blocked cohort never becomes serial, and a track is never unblocked.
TerminalIsAbsorbing ==
    [][ /\ cohortPhase \in Terminal => cohortPhase' = cohortPhase
        /\ \A t \in Tracks : phase[t] = "BLOCKED" => phase'[t] = "BLOCKED" ]_vars

\* R6.4: the commit a track was frozen at never changes, and the plan HEAD
\* that QA certified does not move again before the cohort completes or falls
\* back.
FrozenHeadsAreFinal ==
    [][ /\ \A t \in Tracks : frozenHeadSha[t] # NoSha => frozenHeadSha'[t] = frozenHeadSha[t]
        /\ globalQaHeadSha # NoSha =>
              /\ planHeadSha' = planHeadSha
              /\ globalQaHeadSha' \in {globalQaHeadSha, NoSha} ]_vars

-----------------------------------------------------------------------------
(* What the repository says and the reducer does not do: see README *)

\* concurrency.ts: a track with no slot waits in ARMED "hasta que un slot
\* libere": a free slot and an ARMED track make activate-track the next effect.
WaitingTrackGetsSlot ==
    /\ cohortPhase \in Running
    /\ In({"ARMED"}) # {}
    /\ Cardinality(In({"ACTIVE"})) < MaxParallel
    => SlotToFill
-----------------------------------------------------------------------------
(* Refinement *)

OutcomeOf(c) ==
    CASE c \in {"NONE", "PREPARING"} -> "preparing"
      [] c \in Running \union Finalizing -> "running"
      [] c = "FALLBACK_PENDING" -> "falling"
      [] c = "COMPLETE" -> "complete"
      [] c = "SERIAL" -> "serial"
      [] c = "BLOCKED" -> "blocked"

StatusOf(p) ==
    CASE p \in {"ABSENT", "DECLARED"} -> "none"
      [] p \in {"MERGED_UNVERIFIED", "JOINED"} -> "merged"
      [] p \in {"FROZEN", "JOIN_INTENT"} -> "frozen"
      [] p \in TeardownPhases -> "dismantling"
      [] p = "REMOVED" -> "gone"
      [] p = "BLOCKED" -> "stuck"
      [] OTHER -> "working"

Contract == INSTANCE CohortContract
              WITH outcome <- OutcomeOf(cohortPhase),
                   status <- [t \in Tracks |-> StatusOf(phase[t])]

\* The protocol keeps what a cohort promises: see CohortContract.
ImplementsContract == Contract!Spec
=============================================================================
