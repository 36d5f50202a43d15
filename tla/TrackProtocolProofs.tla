------------------------ MODULE TrackProtocolProofs ------------------------
(***************************************************************************)
(* Theorems of TrackProtocol for every set of tracks, every cap and every  *)
(* set of commits.                                                         *)
(***************************************************************************)
EXTENDS TrackProtocol, TLAPS, FiniteSetTheorems

-----------------------------------------------------------------------------
(* Type correctness *)

LEMMA InitTypeOK == Init => TypeOK
  BY DEF Init, TypeOK, CohortPhases, TrackPhases

\* A phase written to one track keeps the types of the phases.
LEMMA SetPhaseType ==
  ASSUME TypeOK, NEW t \in Tracks, NEW p \in TrackPhases, SetPhase(t, p)
  PROVE  phase' \in [Tracks -> TrackPhases]
  BY DEF TypeOK, SetPhase

LEMMA FallBackType ==
  ASSUME TypeOK, FallBack
  PROVE  cohortPhase' \in CohortPhases /\ phase' \in [Tracks -> TrackPhases]
<1>1. cohortPhase' \in CohortPhases
  BY DEF FallBack, CohortPhases
<1>2. \A t \in Tracks : MarkTeardown(phase[t]) \in TrackPhases
  BY DEF TypeOK, MarkTeardown, TrackPhases, TeardownPhases
<1>. QED  BY <1>1, <1>2 DEF FallBack

LEMMA PrepareType ==
  ASSUME TypeOK, NEW t \in Tracks, PrepareNext(t)
  PROVE  TypeOK'
<1>1. ASSUME NEW from, NEW to \in TrackPhases, PrepareStep(t, from, to)
      PROVE  TypeOK'
  <2>1. phase' \in [Tracks -> TrackPhases]
    BY <1>1, SetPhaseType DEF PrepareStep
  <2>. QED  BY <1>1, <2>1 DEF PrepareStep, TypeOK, shas, evidence
<1>2. CASE PersistPrepareIntent(t)
  BY <1>1, <1>2 DEF PersistPrepareIntent, TrackPhases, PreparingPhases
<1>3. ASSUME NEW owned \in BOOLEAN, WorktreeObserved(t, owned)
      PROVE  TypeOK'
  BY <1>1, <1>3 DEF WorktreeObserved, TrackPhases, PreparingPhases
<1>4. CASE CreateTrackJournal(t)
  BY <1>1, <1>4 DEF CreateTrackJournal, TrackPhases, PreparingPhases
<1>5. CASE PersistSupervisorIntent(t)
  BY <1>1, <1>5 DEF PersistSupervisorIntent, TrackPhases, PreparingPhases
<1>6. ASSUME NEW mine \in BOOLEAN, SupervisorObserved(t, mine)
      PROVE  TypeOK'
  BY <1>1, <1>6 DEF SupervisorObserved, TrackPhases, Working
<1>7. CASE PrepareFailed(t)
  BY <1>7, FallBackType DEF PrepareFailed, TypeOK, shas, evidence
<1>. QED  BY <1>2, <1>3, <1>4, <1>5, <1>6, <1>7 DEF PrepareNext

LEMMA JoinType ==
  ASSUME TypeOK, NEW t \in Tracks, JoinNext(t)
  PROVE  TypeOK'
<1>. USE DEF TypeOK, shas, evidence
<1>1. CASE ActivateTrack(t)
  BY <1>1, SetPhaseType DEF ActivateTrack, TrackPhases, Working
<1>2. CASE JoinRequested(t)
  BY <1>2, SetPhaseType DEF JoinRequested, TrackPhases, Working
<1>3. ASSUME NEW head \in Shas, FreezeObserved(t, head)
      PROVE  TypeOK'
  <2>1. phase' \in [Tracks -> TrackPhases]
    BY <1>3, SetPhaseType DEF FreezeObserved, TrackPhases, Working, Frozen
  <2>2. frozenHeadSha' \in [Tracks -> Shas \union {NoSha}]
    BY <1>3 DEF FreezeObserved
  <2>3. cohortPhase' \in CohortPhases
    BY <1>3 DEF FreezeObserved, CohortPhases, Running
  <2>. QED  BY <1>3, <2>1, <2>2, <2>3 DEF FreezeObserved
<1>4. CASE PersistJoinIntent(t)
  <2>1. phase' \in [Tracks -> TrackPhases]
    BY <1>4, SetPhaseType DEF PersistJoinIntent, TrackPhases, Working, Frozen
  <2>2. expectedPlanHeadSha' \in [Tracks -> Shas \union {NoSha}]
    BY <1>4 DEF PersistJoinIntent
  <2>. QED  BY <1>4, <2>1, <2>2 DEF PersistJoinIntent
<1>5. ASSUME NEW mergeHead, NEW planHead \in Shas, NEW anc,
             JoinObserved(t, mergeHead, planHead, anc)
      PROVE  TypeOK'
  <2>1. phase' \in [Tracks -> TrackPhases]
    BY <1>5, SetPhaseType DEF JoinObserved, TrackPhases, Working, Frozen
  <2>2. cohortPhase' \in CohortPhases
    BY <1>5 DEF JoinObserved, CohortPhases, Terminal
  <2>3. planHeadSha' \in Shas \union {NoSha}
    BY <1>5 DEF JoinObserved
  <2>. QED  BY <1>5, <2>1, <2>2, <2>3 DEF JoinObserved
<1>. QED  BY <1>1, <1>2, <1>3, <1>4, <1>5 DEF JoinNext

LEMMA TeardownType ==
  ASSUME TypeOK, NEW t \in Tracks, TeardownNext(t)
  PROVE  TypeOK'
<1>. USE DEF TypeOK, shas, evidence
<1>1. CASE BeginTeardown(t)
  BY <1>1, SetPhaseType DEF BeginTeardown, TrackPhases, TeardownPhases
<1>2. ASSUME NEW o \in TeardownObservation, TeardownObserved(t, o)
      PROVE  TypeOK'
  <2>1. ProvenPhase(phase[t], o) \in TrackPhases
    BY DEF ProvenPhase, TrackPhases, TeardownPhases
  <2>2. phase' \in [Tracks -> TrackPhases]
    BY <1>2, <2>1, SetPhaseType DEF TeardownObserved
  <2>3. cohortPhase' \in CohortPhases
    BY <1>2 DEF TeardownObserved, CohortPhases, Terminal
  <2>. QED  BY <1>2, <2>2, <2>3 DEF TeardownObserved
<1>3. CASE TeardownFailed(t)
  BY <1>3, SetPhaseType DEF TeardownFailed, TrackPhases, CohortPhases, Terminal
<1>. QED  BY <1>1, <1>2, <1>3 DEF TeardownNext

LEMMA DeclareType ==
  ASSUME TypeOK, NEW t \in Tracks, NEW head \in Shas, DeclareTrack(t, head)
  PROVE  TypeOK'
<1>1. phase' \in [Tracks -> TrackPhases]
  BY SetPhaseType DEF DeclareTrack, TrackPhases, PreparingPhases
<1>2. cohortPhase' \in CohortPhases /\ planHeadSha' \in Shas \union {NoSha}
  BY DEF DeclareTrack, CohortPhases, TypeOK
<1>. QED  BY <1>1, <1>2 DEF DeclareTrack, TypeOK, evidence

LEMMA CohortType ==
  ASSUME TypeOK, CohortNext
  PROVE  TypeOK'
<1>. USE DEF TypeOK, shas, evidence
<1>1. CASE ActivateCohort
  BY <1>1 DEF ActivateCohort, CohortPhases, Running
<1>2. ASSUME NEW head \in Shas, GlobalQaPass(head)
      PROVE  TypeOK'
  BY <1>2 DEF GlobalQaPass, CohortPhases, Finalizing
<1>3. ASSUME NEW head \in Shas, IntegrationPass(head)
      PROVE  TypeOK'
  BY <1>3 DEF IntegrationPass, CohortPhases, Finalizing
<1>4. CASE InterlockPass
  BY <1>4 DEF InterlockPass, CohortPhases, Terminal, TrackPhases, Working, Frozen
<1>5. CASE TeardownRequested
  BY <1>5, FallBackType DEF TeardownRequested
<1>6. CASE EnterSerial
  BY <1>6 DEF EnterSerial, CohortPhases, Terminal
<1>. QED  BY <1>1, <1>2, <1>3, <1>4, <1>5, <1>6 DEF CohortNext

LEMMA TypeStep ==
  ASSUME TypeOK, [Next]_vars
  PROVE  TypeOK'
<1>1. CASE CohortNext
  BY <1>1, CohortType
<1>2. ASSUME NEW t \in Tracks, NEW head \in Shas, DeclareTrack(t, head)
      PROVE  TypeOK'
  BY <1>2, DeclareType
<1>3. ASSUME NEW t \in Tracks, PrepareNext(t) \/ JoinNext(t) \/ TeardownNext(t)
      PROVE  TypeOK'
  BY <1>3, PrepareType, JoinType, TeardownType
<1>4. CASE UNCHANGED vars
  BY <1>4 DEF vars, TypeOK
<1>. QED  BY <1>1, <1>2, <1>3, <1>4 DEF Next

\* Every variable keeps its type, whatever the reducer observes.
THEOREM TypeCorrect == Spec => []TypeOK
<1>1. TypeOK /\ [Next]_vars => TypeOK'
  BY TypeStep
<1>. QED  BY <1>1, InitTypeOK, PTL DEF Spec
-----------------------------------------------------------------------------
(* The inductive invariant.  The assertions of the code are not inductive  *)
(* by themselves: a track that is merged, frozen or torn down is kept in   *)
(* its place by the phase of the cohort (PhasesAgree) and by the order of  *)
(* the merges, and evidence is kept on the final route.                    *)

IInv ==
    /\ TypeOK
    /\ ProtocolInvariants
    /\ JoinIntentIsFresh
    /\ MergesInOrder
    /\ EvidenceOnlyOnFinalRoute
    /\ PhasesAgree

LEMMA InitIInv == Init => IInv
<1>. SUFFICES ASSUME Init PROVE IInv
  OBVIOUS
<1>1. ActiveWithinCap
  BY DEF Init, ActiveWithinCap
<1>. QED
  BY <1>1, InitTypeOK
  DEF Init, IInv, ProtocolInvariants, CohortHasTwoTracks, OnlyWorkingTracksRun, OneJoinIntent,
      FrozenHasHead, SerialIsDismantled, IntegrationAfterMerges, CompleteIsJoined,
      JoinIntentIsFresh, MergesInOrder, EvidenceOnlyOnFinalRoute, PhasesAgree,
      Declared, In, AllIn, Running, Finalizing, Frozen

\* The cap is kept where no track becomes ACTIVE.
LEMMA CapKept ==
  ASSUME In({"ACTIVE"})' \subseteq In({"ACTIVE"}),
         Cardinality(In({"ACTIVE"})) <= MaxParallel
  PROVE  ActiveWithinCap'
<1>1. IsFiniteSet(In({"ACTIVE"}))
  BY TracksAssumption, FS_Subset DEF In
<1>2. /\ IsFiniteSet(In({"ACTIVE"})')
      /\ Cardinality(In({"ACTIVE"})') <= Cardinality(In({"ACTIVE"}))
  BY <1>1, FS_Subset
<1>3. Cardinality(In({"ACTIVE"})) \in Nat /\ Cardinality(In({"ACTIVE"})') \in Nat
  BY <1>1, <1>2, FS_CardinalityType
<1>4. Cardinality(In({"ACTIVE"})') <= MaxParallel
  BY <1>2, <1>3, MaxParallelAssumption
<1>. QED  BY <1>4 DEF ActiveWithinCap

\* A cohort with no ACTIVE track is within its cap.
LEMMA NoneActive ==
  ASSUME In({"ACTIVE"}) = {}
  PROVE  Cardinality(In({"ACTIVE"})) <= MaxParallel
  BY FS_EmptySet, MaxParallelAssumption

\* The cap after a track that was not ACTIVE becomes so.
LEMMA CapReached ==
  ASSUME TypeOK, NEW t \in Tracks, phase[t] # "ACTIVE", SetPhase(t, "ACTIVE"),
         Cardinality(In({"ACTIVE"})) < MaxParallel
  PROVE  ActiveWithinCap'
<1>1. IsFiniteSet(In({"ACTIVE"}))
  BY TracksAssumption, FS_Subset DEF In
<1>2. In({"ACTIVE"})' = In({"ACTIVE"}) \union {t} /\ t \notin In({"ACTIVE"})
  BY DEF In, SetPhase, TypeOK
<1>3. Cardinality(In({"ACTIVE"})') = Cardinality(In({"ACTIVE"})) + 1
  BY <1>1, <1>2, FS_AddElement
<1>4. Cardinality(In({"ACTIVE"})) \in Nat
  BY <1>1, FS_CardinalityType
<1>. QED  BY <1>3, <1>4, MaxParallelAssumption DEF ActiveWithinCap

LEMMA PrepareStepIInv ==
  ASSUME IInv, NEW t \in Tracks, NEW from \in PreparingPhases,
         NEW to \in PreparingPhases \union {"ARMED", "BLOCKED"}, PrepareStep(t, from, to)
  PROVE  ProtocolInvariants' /\ JoinIntentIsFresh' /\ MergesInOrder'
           /\ EvidenceOnlyOnFinalRoute' /\ PhasesAgree'
<1>. USE DEF IInv, TypeOK, PrepareStep, SetPhase, PreparingTrack, shas, evidence
<1>1. ActiveWithinCap'
  <2>1. In({"ACTIVE"})' \subseteq In({"ACTIVE"})
    BY DEF In, PreparingPhases
  <2>. QED  BY <2>1, CapKept DEF ProtocolInvariants, ActiveWithinCap
<1>2. CohortHasTwoTracks' /\ OnlyWorkingTracksRun' /\ SerialIsDismantled' /\ CompleteIsJoined'
  BY DEF ProtocolInvariants, CohortHasTwoTracks, OnlyWorkingTracksRun, SerialIsDismantled,
         CompleteIsJoined, Declared, Running, AllIn, PreparingPhases
<1>3. OneJoinIntent' /\ FrozenHasHead'
  BY DEF ProtocolInvariants, OneJoinIntent, FrozenHasHead, In, Frozen, PreparingPhases
<1>4. EvidenceOnlyOnFinalRoute' /\ IntegrationAfterMerges'
  BY DEF EvidenceOnlyOnFinalRoute, IntegrationAfterMerges, Finalizing
<1>5. JoinIntentIsFresh' /\ MergesInOrder'
  BY DEF JoinIntentIsFresh, MergesInOrder, In, PreparingPhases
<1>6. PhasesAgree'
  BY DEF PhasesAgree, AllIn, Declared, Running, Finalizing
<1>. QED  BY <1>1, <1>2, <1>3, <1>4, <1>5, <1>6 DEF ProtocolInvariants

\* The conjuncts of IInv beyond its type.
Safe ==
    /\ ProtocolInvariants
    /\ JoinIntentIsFresh
    /\ MergesInOrder
    /\ EvidenceOnlyOnFinalRoute
    /\ PhasesAgree

\* All of a cohort falls back: no track runs, is frozen or is merged any more.
LEMMA FallBackSafe ==
  ASSUME IInv, cohortPhase \notin {"NONE", "FALLBACK_PENDING"} \union Terminal, FallBack,
         UNCHANGED shas, globalQaHeadSha' = NoSha, finalIntegrationPassed' = FALSE
  PROVE  Safe'
<1>. USE DEF IInv, TypeOK, FallBack, shas
<1>1. \A t \in Tracks :
         /\ phase'[t] \in TeardownPhases \union {"ABSENT", "DECLARED", "REMOVED", "BLOCKED"}
         /\ phase[t] = "ABSENT" <=> phase'[t] = "ABSENT"
  BY DEF MarkTeardown, TeardownPhases
<1>2. ActiveWithinCap'
  <2>1. In({"ACTIVE"})' = {}
    BY <1>1 DEF In, TeardownPhases
  <2>2. Cardinality(In({"ACTIVE"})') <= MaxParallel
    BY <2>1, FS_EmptySet, MaxParallelAssumption
  <2>. QED  BY <2>2 DEF ActiveWithinCap
<1>3. CohortHasTwoTracks'
  BY <1>1 DEF ProtocolInvariants, CohortHasTwoTracks, Declared
<1>4. OneJoinIntent' /\ FrozenHasHead' /\ JoinIntentIsFresh'
  BY <1>1 DEF OneJoinIntent, FrozenHasHead, JoinIntentIsFresh, In, Frozen, TeardownPhases
<1>5. /\ OnlyWorkingTracksRun' /\ SerialIsDismantled' /\ CompleteIsJoined'
      /\ IntegrationAfterMerges' /\ EvidenceOnlyOnFinalRoute' /\ MergesInOrder'
  BY DEF OnlyWorkingTracksRun, SerialIsDismantled, CompleteIsJoined, IntegrationAfterMerges,
         EvidenceOnlyOnFinalRoute, MergesInOrder, Running, Finalizing
<1>6. PhasesAgree'
  BY <1>1 DEF PhasesAgree, AllIn, Declared, Running, Finalizing, TeardownPhases
<1>. QED  BY <1>2, <1>3, <1>4, <1>5, <1>6 DEF Safe, ProtocolInvariants

LEMMA PrepareSafe ==
  ASSUME IInv, NEW t \in Tracks, PrepareNext(t)
  PROVE  Safe'
<1>. USE PrepareStepIInv DEF Safe, PreparingPhases
<1>1. CASE PersistPrepareIntent(t)
  BY <1>1 DEF PersistPrepareIntent
<1>2. ASSUME NEW owned \in BOOLEAN, WorktreeObserved(t, owned)
      PROVE  Safe'
  BY <1>2 DEF WorktreeObserved
<1>3. CASE CreateTrackJournal(t)
  BY <1>3 DEF CreateTrackJournal
<1>4. CASE PersistSupervisorIntent(t)
  BY <1>4 DEF PersistSupervisorIntent
<1>5. ASSUME NEW mine \in BOOLEAN, SupervisorObserved(t, mine)
      PROVE  Safe'
  BY <1>5 DEF SupervisorObserved
<1>6. CASE PrepareFailed(t)
  <2>1. UNCHANGED <<globalQaHeadSha, finalIntegrationPassed>>
    BY <1>6 DEF PrepareFailed, evidence
  <2>2. globalQaHeadSha' = NoSha /\ finalIntegrationPassed' = FALSE
    BY <1>6, <2>1 DEF PrepareFailed, PreparingTrack, IInv, TypeOK, EvidenceOnlyOnFinalRoute,
                      Finalizing
  <2>. QED  BY <1>6, <2>2, FallBackSafe DEF PrepareFailed, PreparingTrack, Terminal
<1>. QED  BY <1>1, <1>2, <1>3, <1>4, <1>5, <1>6 DEF PrepareNext

\* A track may not be declared once the cohort runs.
LEMMA DeclareSafe ==
  ASSUME LateAdd = FALSE, IInv, NEW t \in Tracks, NEW head \in Shas, DeclareTrack(t, head)
  PROVE  Safe'
<1>. USE DEF IInv, TypeOK, DeclareTrack, SetPhase, evidence
<1>1. ActiveWithinCap'
  <2>1. In({"ACTIVE"})' \subseteq In({"ACTIVE"})
    BY DEF In
  <2>2. CASE cohortPhase = "NONE"
    <3>1. In({"ACTIVE"}) = {}
      BY <2>2 DEF PhasesAgree, AllIn, Declared, In
    <3>. QED  BY <2>1, <3>1, NoneActive, CapKept
  <2>3. CASE cohortPhase # "NONE"
    BY <2>1, <2>3, CapKept DEF ProtocolInvariants, ActiveWithinCap
  <2>. QED  BY <2>2, <2>3
<1>2. CohortHasTwoTracks'
  BY DEF ProtocolInvariants, CohortHasTwoTracks, Declared
<1>3. /\ OnlyWorkingTracksRun' /\ SerialIsDismantled' /\ CompleteIsJoined'
      /\ IntegrationAfterMerges' /\ EvidenceOnlyOnFinalRoute'
  BY DEF ProtocolInvariants, OnlyWorkingTracksRun, SerialIsDismantled, CompleteIsJoined,
         IntegrationAfterMerges, EvidenceOnlyOnFinalRoute, Declared, AllIn, Running, Finalizing
<1>4. OneJoinIntent' /\ FrozenHasHead' /\ MergesInOrder'
  BY DEF ProtocolInvariants, OneJoinIntent, FrozenHasHead, MergesInOrder, In, Frozen, Running
<1>5. JoinIntentIsFresh'
  BY DEF JoinIntentIsFresh, PhasesAgree, AllIn, Declared, In
<1>6. PhasesAgree'
  BY DEF PhasesAgree, AllIn, Declared, Running, Finalizing, PreparingPhases
<1>. QED  BY <1>1, <1>2, <1>3, <1>4, <1>5, <1>6 DEF Safe, ProtocolInvariants

LEMMA TeardownSafe ==
  ASSUME IInv, NEW t \in Tracks, TeardownNext(t)
  PROVE  Safe'
<1>1. ASSUME NEW p \in TeardownPhases \union {"REMOVED", "BLOCKED"}, TeardownDue(t),
             phase[t] # "ABSENT", SetPhase(t, p), UNCHANGED <<shas, evidence>>,
             cohortPhase' = cohortPhase \/ cohortPhase' = "BLOCKED"
      PROVE  Safe'
  <2>. USE <1>1 DEF IInv, TypeOK, TeardownDue, SetPhase, shas, evidence
  <2>1. ActiveWithinCap'
    <3>1. In({"ACTIVE"})' \subseteq In({"ACTIVE"})
      BY DEF In, TeardownPhases
    <3>. QED  BY <3>1, CapKept DEF ProtocolInvariants, ActiveWithinCap
  <2>2. CohortHasTwoTracks'
    BY DEF ProtocolInvariants, CohortHasTwoTracks, Declared, TeardownPhases
  <2>3. OneJoinIntent' /\ FrozenHasHead' /\ JoinIntentIsFresh'
    BY DEF ProtocolInvariants, OneJoinIntent, FrozenHasHead, JoinIntentIsFresh, In, Frozen,
           TeardownPhases
  <2>4. /\ OnlyWorkingTracksRun' /\ SerialIsDismantled' /\ CompleteIsJoined'
        /\ IntegrationAfterMerges' /\ EvidenceOnlyOnFinalRoute' /\ MergesInOrder'
    BY DEF OnlyWorkingTracksRun, SerialIsDismantled, CompleteIsJoined, IntegrationAfterMerges,
           EvidenceOnlyOnFinalRoute, MergesInOrder, Running, Finalizing
  <2>5. PhasesAgree'
    BY DEF PhasesAgree, AllIn, Declared, Running, Finalizing
  <2>. QED  BY <2>1, <2>2, <2>3, <2>4, <2>5 DEF Safe, ProtocolInvariants
<1>2. CASE BeginTeardown(t)
  BY <1>1, <1>2 DEF BeginTeardown, TeardownPhases
<1>3. ASSUME NEW o \in TeardownObservation, TeardownObserved(t, o)
      PROVE  Safe'
  <2>1. phase[t] \in TeardownPhases /\ phase[t] # "ABSENT"
    BY <1>3 DEF TeardownObserved, TeardownPhases
  <2>2. ProvenPhase(phase[t], o) \in TeardownPhases \union {"REMOVED", "BLOCKED"}
    BY <2>1 DEF ProvenPhase, TeardownPhases
  <2>. QED  BY <1>1, <1>3, <2>1, <2>2 DEF TeardownObserved
<1>4. CASE TeardownFailed(t)
  BY <1>1, <1>4 DEF TeardownFailed
<1>. QED  BY <1>2, <1>3, <1>4 DEF TeardownNext

LEMMA JoinSafe ==
  ASSUME IInv, NEW t \in Tracks, JoinNext(t)
  PROVE  Safe'
<1>. USE DEF IInv, TypeOK, SetPhase, shas, evidence
<1>1. CASE ActivateTrack(t)
  <2>. USE <1>1 DEF ActivateTrack, ActivateTrackDue, First
  <2>1. ActiveWithinCap'
    BY CapReached DEF In
  <2>2. CohortHasTwoTracks' /\ OnlyWorkingTracksRun'
    BY DEF ProtocolInvariants, CohortHasTwoTracks, OnlyWorkingTracksRun, Declared, AllIn, Working,
           Running, In
  <2>3. OneJoinIntent' /\ FrozenHasHead' /\ JoinIntentIsFresh'
    BY DEF ProtocolInvariants, OneJoinIntent, FrozenHasHead, JoinIntentIsFresh, In, Frozen
  <2>4. /\ SerialIsDismantled' /\ CompleteIsJoined' /\ MergesInOrder'
        /\ IntegrationAfterMerges' /\ EvidenceOnlyOnFinalRoute'
    BY DEF SerialIsDismantled, CompleteIsJoined, MergesInOrder, IntegrationAfterMerges,
           EvidenceOnlyOnFinalRoute, Finalizing
  <2>5. PhasesAgree'
    BY DEF PhasesAgree, AllIn, Declared, Finalizing
  <2>. QED  BY <2>1, <2>2, <2>3, <2>4, <2>5 DEF Safe, ProtocolInvariants
<1>2. CASE JoinRequested(t)
  <2>. USE <1>2 DEF JoinRequested
  <2>1. ActiveWithinCap'
    <3>1. In({"ACTIVE"})' \subseteq In({"ACTIVE"})
      BY DEF In
    <3>2. cohortPhase # "NONE"
      BY DEF PhasesAgree, AllIn, Declared
    <3>. QED  BY <3>1, <3>2, CapKept DEF ProtocolInvariants, ActiveWithinCap
  <2>2. CohortHasTwoTracks' /\ OnlyWorkingTracksRun'
    BY DEF ProtocolInvariants, CohortHasTwoTracks, OnlyWorkingTracksRun, Declared, AllIn, Working
  <2>3. OneJoinIntent' /\ FrozenHasHead' /\ JoinIntentIsFresh'
    BY DEF ProtocolInvariants, OneJoinIntent, FrozenHasHead, JoinIntentIsFresh, In, Frozen
  <2>4. /\ SerialIsDismantled' /\ CompleteIsJoined' /\ IntegrationAfterMerges'
        /\ EvidenceOnlyOnFinalRoute'
    BY DEF ProtocolInvariants, SerialIsDismantled, CompleteIsJoined, IntegrationAfterMerges,
           EvidenceOnlyOnFinalRoute, Declared, AllIn
  <2>5. MergesInOrder'
    BY DEF MergesInOrder, In, Frozen, Declared
  <2>6. PhasesAgree'
    BY DEF PhasesAgree, AllIn, Declared, Finalizing, Working, TeardownPhases, PreparingPhases
  <2>. QED  BY <2>1, <2>2, <2>3, <2>4, <2>5, <2>6 DEF Safe, ProtocolInvariants
<1>3. ASSUME NEW head \in Shas, FreezeObserved(t, head)
      PROVE  Safe'
  <2>. USE <1>3 DEF FreezeObserved, FreezeDue, First
  <2>1. ActiveWithinCap'
    <3>1. In({"ACTIVE"})' \subseteq In({"ACTIVE"})
      BY DEF In
    <3>. QED  BY <3>1, CapKept DEF ProtocolInvariants, ActiveWithinCap, Running
  <2>2. CohortHasTwoTracks' /\ OnlyWorkingTracksRun'
    BY DEF ProtocolInvariants, CohortHasTwoTracks, OnlyWorkingTracksRun, Declared, AllIn, Working,
           Frozen, Running
  <2>3. OneJoinIntent' /\ FrozenHasHead' /\ JoinIntentIsFresh'
    BY NoShaAssumption
    DEF ProtocolInvariants, OneJoinIntent, FrozenHasHead, JoinIntentIsFresh, In
  <2>4. SerialIsDismantled' /\ CompleteIsJoined' /\ IntegrationAfterMerges'
          /\ EvidenceOnlyOnFinalRoute'
    BY DEF SerialIsDismantled, CompleteIsJoined, IntegrationAfterMerges,
           EvidenceOnlyOnFinalRoute, Running, Finalizing
  <2>5. MergesInOrder'
    \* The track just frozen was not frozen before: nothing was merged yet.
    <3>1. In({"JOIN_INTENT", "MERGED_UNVERIFIED"}) = {}
      BY DEF MergesInOrder, PhasesAgree, AllIn, In, Declared, Frozen, Running
    <3>. QED  BY <3>1 DEF MergesInOrder, In
  <2>6. PhasesAgree'
    BY DEF PhasesAgree, AllIn, Declared, Running, Finalizing, Working, Frozen
  <2>. QED  BY <2>1, <2>2, <2>3, <2>4, <2>5, <2>6 DEF Safe, ProtocolInvariants
<1>4. CASE PersistJoinIntent(t)
  <2>. USE <1>4 DEF PersistJoinIntent, JoinIntentDue, AllFrozen, First
  <2>1. ActiveWithinCap'
    <3>1. In({"ACTIVE"})' \subseteq In({"ACTIVE"})
      BY DEF In
    <3>. QED  BY <3>1, CapKept DEF ProtocolInvariants, ActiveWithinCap, Running
  <2>2. CohortHasTwoTracks' /\ OnlyWorkingTracksRun'
    BY DEF ProtocolInvariants, CohortHasTwoTracks, OnlyWorkingTracksRun, Declared, AllIn, Working,
           Frozen, Running
  <2>3. OneJoinIntent' /\ FrozenHasHead' /\ JoinIntentIsFresh'
    BY DEF ProtocolInvariants, OneJoinIntent, FrozenHasHead, JoinIntentIsFresh, In, Frozen
  <2>4. SerialIsDismantled' /\ CompleteIsJoined' /\ IntegrationAfterMerges'
          /\ EvidenceOnlyOnFinalRoute'
    BY DEF SerialIsDismantled, CompleteIsJoined, IntegrationAfterMerges,
           EvidenceOnlyOnFinalRoute, Running, Finalizing
  <2>5. PhasesAgree'
    BY DEF PhasesAgree, AllIn, Declared, Running, Finalizing, Working, Frozen, In
  <2>6. MergesInOrder'
    \* The first FROZEN track comes after every merged one and before the rest.
    <3>1. SUFFICES ASSUME cohortPhase = "JOINING",
                          NEW m \in In({"JOIN_INTENT", "MERGED_UNVERIFIED"})',
                          NEW u \in Declared'
                   PROVE  phase'[u] \in Frozen /\ (u < m => phase'[u] = "MERGED_UNVERIFIED")
      BY DEF MergesInOrder
    <3>2. phase'[u] \in Frozen
      BY DEF AllIn, Declared, Frozen
    <3>3. CASE m = t
      BY <3>1, <3>3, TracksAssumption DEF AllIn, Declared, In, PhasesAgree, Frozen, Working
    <3>4. CASE m # t
      BY <3>1, <3>2, <3>4, TracksAssumption DEF MergesInOrder, Declared, In
    <3>. QED  BY <3>2, <3>3, <3>4
  <2>. QED  BY <2>1, <2>2, <2>3, <2>4, <2>5, <2>6 DEF Safe, ProtocolInvariants
<1>5. ASSUME NEW mergeHead, NEW planHead \in Shas, NEW anc,
             JoinObserved(t, mergeHead, planHead, anc)
      PROVE  Safe'
  <2>. USE DEF MergeDue, AllFrozen, First
  <2>1. /\ t \in In({"JOIN_INTENT"}) /\ AllIn(Frozen) /\ cohortPhase \in Running
        /\ \/ /\ SetPhase(t, "MERGED_UNVERIFIED")
              /\ UNCHANGED cohortPhase
           \/ /\ SetPhase(t, "BLOCKED")
              /\ cohortPhase' = "BLOCKED"
        /\ UNCHANGED <<frozenHeadSha, evidence>>
    BY <1>5 DEF JoinObserved
  <2>2. ActiveWithinCap'
    <3>1. In({"ACTIVE"})' \subseteq In({"ACTIVE"})
      BY <2>1 DEF In
    <3>. QED  BY <2>1, <3>1, CapKept DEF ProtocolInvariants, ActiveWithinCap, Running
  <2>3. CohortHasTwoTracks' /\ OnlyWorkingTracksRun'
    BY <2>1 DEF ProtocolInvariants, CohortHasTwoTracks, OnlyWorkingTracksRun, Declared, AllIn, In,
                Working, Frozen, Running
  <2>4. In({"JOIN_INTENT"})' = {}
    BY <2>1 DEF ProtocolInvariants, OneJoinIntent, In
  <2>5. OneJoinIntent' /\ FrozenHasHead' /\ JoinIntentIsFresh'
    BY <2>1, <2>4 DEF ProtocolInvariants, OneJoinIntent, FrozenHasHead, JoinIntentIsFresh, In,
                      Frozen
  <2>6. SerialIsDismantled' /\ CompleteIsJoined' /\ IntegrationAfterMerges'
          /\ EvidenceOnlyOnFinalRoute'
    BY <2>1 DEF SerialIsDismantled, CompleteIsJoined, IntegrationAfterMerges,
                EvidenceOnlyOnFinalRoute, Running, Finalizing
  <2>7. PhasesAgree'
    BY <2>1 DEF PhasesAgree, AllIn, Declared, Running, Finalizing, Working, Frozen, In
  <2>8. MergesInOrder'
    BY <2>1, TracksAssumption DEF MergesInOrder, In, Declared, Frozen
  <2>. QED  BY <2>2, <2>3, <2>5, <2>6, <2>7, <2>8 DEF Safe, ProtocolInvariants
<1>. QED  BY <1>1, <1>2, <1>3, <1>4, <1>5 DEF JoinNext

\* Only teardown-requested and the final route change the evidence.
LEMMA CohortSafe ==
  ASSUME IInv, CohortNext
  PROVE  Safe'
<1>. USE DEF IInv, TypeOK, shas, evidence
<1>1. CASE ActivateCohort
  <2>. USE <1>1 DEF ActivateCohort, ActivateCohortDue
  <2>1. ActiveWithinCap'
    <3>1. In({"ACTIVE"})' \subseteq In({"ACTIVE"})
      BY DEF In
    <3>. QED  BY <3>1, CapKept DEF ProtocolInvariants, ActiveWithinCap
  <2>2. /\ CohortHasTwoTracks' /\ OneJoinIntent' /\ FrozenHasHead' /\ JoinIntentIsFresh'
        /\ SerialIsDismantled' /\ CompleteIsJoined' /\ MergesInOrder'
        /\ IntegrationAfterMerges' /\ EvidenceOnlyOnFinalRoute'
    BY DEF ProtocolInvariants, CohortHasTwoTracks, OneJoinIntent, FrozenHasHead, JoinIntentIsFresh,
           SerialIsDismantled, CompleteIsJoined, MergesInOrder, IntegrationAfterMerges,
           EvidenceOnlyOnFinalRoute, Declared, AllIn, In, Finalizing
  <2>3. OnlyWorkingTracksRun' /\ PhasesAgree'
    BY DEF OnlyWorkingTracksRun, PhasesAgree, AllIn, Declared, Running, Finalizing, Working
  <2>. QED  BY <2>1, <2>2, <2>3 DEF Safe, ProtocolInvariants
<1>2. ASSUME NEW to \in Finalizing, cohortPhase \notin {"NONE"}, AllIn({"MERGED_UNVERIFIED"}),
             cohortPhase' = to, UNCHANGED <<phase, shas>>, globalQaHeadSha' # NoSha,
             finalIntegrationPassed' = (to = "FINAL_INTERLOCK")
      PROVE  Safe'
  <2>. USE <1>2
  <2>1. ActiveWithinCap'
    <3>1. In({"ACTIVE"})' \subseteq In({"ACTIVE"})
      BY DEF In
    <3>. QED  BY <3>1, CapKept DEF ProtocolInvariants, ActiveWithinCap
  <2>2. /\ CohortHasTwoTracks' /\ OneJoinIntent' /\ FrozenHasHead' /\ JoinIntentIsFresh'
    BY DEF ProtocolInvariants, CohortHasTwoTracks, OneJoinIntent, FrozenHasHead, JoinIntentIsFresh,
           Declared, In
  <2>3. /\ OnlyWorkingTracksRun' /\ SerialIsDismantled' /\ CompleteIsJoined' /\ MergesInOrder'
        /\ IntegrationAfterMerges' /\ EvidenceOnlyOnFinalRoute' /\ PhasesAgree'
    BY DEF OnlyWorkingTracksRun, SerialIsDismantled, CompleteIsJoined, MergesInOrder,
           IntegrationAfterMerges, EvidenceOnlyOnFinalRoute, PhasesAgree, AllIn, Declared,
           Running, Finalizing
  <2>. QED  BY <2>1, <2>2, <2>3 DEF Safe, ProtocolInvariants
<1>3. ASSUME NEW head \in Shas, GlobalQaPass(head)
      PROVE  Safe'
  <2>1. finalIntegrationPassed = FALSE
    BY <1>3 DEF GlobalQaPass, GlobalQaDue, EvidenceOnlyOnFinalRoute, Finalizing
  <2>. QED  BY <1>2, <1>3, <2>1, NoShaAssumption DEF GlobalQaPass, GlobalQaDue, Finalizing
<1>4. ASSUME NEW head \in Shas, IntegrationPass(head)
      PROVE  Safe'
  <2>1. AllIn({"MERGED_UNVERIFIED"})
    BY <1>4 DEF IntegrationPass, FinalIntegrationDue, PhasesAgree
  <2>. QED  BY <1>2, <1>4, <2>1 DEF IntegrationPass, FinalIntegrationDue, Finalizing
<1>5. CASE InterlockPass
  <2>. USE <1>5 DEF InterlockPass, FinalInterlockDue
  <2>1. \A t \in Tracks : /\ phase'[t] \in {"JOINED", "ABSENT"}
                          /\ phase'[t] = "JOINED" => phase[t] = "MERGED_UNVERIFIED"
                          /\ phase'[t] = "ABSENT" <=> phase[t] = "ABSENT"
    BY DEF PhasesAgree, AllIn, Declared, Finalizing
  <2>2. ActiveWithinCap'
    <3>1. In({"ACTIVE"})' \subseteq In({"ACTIVE"})
      BY <2>1 DEF In
    <3>. QED  BY <3>1, CapKept DEF ProtocolInvariants, ActiveWithinCap
  <2>3. /\ CohortHasTwoTracks' /\ OneJoinIntent' /\ FrozenHasHead' /\ JoinIntentIsFresh'
    BY <2>1 DEF ProtocolInvariants, CohortHasTwoTracks, OneJoinIntent, FrozenHasHead,
                JoinIntentIsFresh, Declared, In, Frozen
  <2>4. /\ OnlyWorkingTracksRun' /\ SerialIsDismantled' /\ CompleteIsJoined' /\ MergesInOrder'
        /\ IntegrationAfterMerges' /\ EvidenceOnlyOnFinalRoute' /\ PhasesAgree'
    BY <2>1 DEF OnlyWorkingTracksRun, SerialIsDismantled, CompleteIsJoined, MergesInOrder,
                IntegrationAfterMerges, EvidenceOnlyOnFinalRoute, PhasesAgree, AllIn, Declared,
                Running, Finalizing
  <2>. QED  BY <2>2, <2>3, <2>4 DEF Safe, ProtocolInvariants
<1>6. CASE TeardownRequested
  BY <1>6, FallBackSafe DEF TeardownRequested
<1>7. CASE EnterSerial
  <2>. USE <1>7 DEF EnterSerial, EnterSerialDue
  <2>1. ActiveWithinCap'
    <3>1. In({"ACTIVE"})' \subseteq In({"ACTIVE"})
      BY DEF In
    <3>. QED  BY <3>1, CapKept DEF ProtocolInvariants, ActiveWithinCap
  <2>2. /\ CohortHasTwoTracks' /\ OneJoinIntent' /\ FrozenHasHead' /\ JoinIntentIsFresh'
    BY DEF ProtocolInvariants, CohortHasTwoTracks, OneJoinIntent, FrozenHasHead, JoinIntentIsFresh,
           Declared, In
  <2>3. /\ OnlyWorkingTracksRun' /\ SerialIsDismantled' /\ CompleteIsJoined' /\ MergesInOrder'
        /\ IntegrationAfterMerges' /\ EvidenceOnlyOnFinalRoute' /\ PhasesAgree'
    BY DEF OnlyWorkingTracksRun, SerialIsDismantled, CompleteIsJoined, MergesInOrder,
           IntegrationAfterMerges, EvidenceOnlyOnFinalRoute, PhasesAgree, AllIn, Declared,
           Running, Finalizing
  <2>. QED  BY <2>1, <2>2, <2>3 DEF Safe, ProtocolInvariants
<1>. QED  BY <1>1, <1>3, <1>4, <1>5, <1>6, <1>7 DEF CohortNext

LEMMA Inductive ==
  ASSUME LateAdd = FALSE, IInv, [Next]_vars
  PROVE  IInv'
<1>1. TypeOK'
  BY TypeStep DEF IInv
<1>2. Safe'
  <2>1. CASE CohortNext
    BY <2>1, CohortSafe
  <2>2. ASSUME NEW t \in Tracks, NEW head \in Shas, DeclareTrack(t, head)
        PROVE  Safe'
    BY <2>2, DeclareSafe
  <2>3. ASSUME NEW t \in Tracks, PrepareNext(t) \/ JoinNext(t) \/ TeardownNext(t)
        PROVE  Safe'
    BY <2>3, PrepareSafe, JoinSafe, TeardownSafe
  <2>4. CASE UNCHANGED vars
    BY <2>4
    DEF vars, IInv, Safe, ProtocolInvariants, CohortHasTwoTracks, OnlyWorkingTracksRun,
        ActiveWithinCap, OneJoinIntent, FrozenHasHead, SerialIsDismantled,
        IntegrationAfterMerges, CompleteIsJoined, JoinIntentIsFresh, MergesInOrder,
        EvidenceOnlyOnFinalRoute, PhasesAgree, Declared, In, AllIn
  <2>. QED  BY <2>1, <2>2, <2>3, <2>4 DEF Next
<1>. QED  BY <1>1, <1>2 DEF IInv, Safe

\* Where no track is declared late, IInv holds throughout.
LEMMA IInvHolds ==
  ASSUME LateAdd = FALSE
  PROVE  Spec => []IInv
<1>1. IInv /\ [Next]_vars => IInv'
  BY Inductive
<1>. QED  BY <1>1, InitIInv, PTL DEF Spec

\* No step of the reducer reaches a state at which assertProtocolInvariants
\* throws, for every number of tracks and every cap.
THEOREM AssertionNeverThrows ==
  ASSUME LateAdd = FALSE
  PROVE  Spec => []ProtocolInvariants
<1>1. IInv => ProtocolInvariants
  BY DEF IInv
<1>. QED  BY <1>1, IInvHolds, PTL

\* A live join intent expects the plan HEAD the last merge left (C7).
THEOREM FreshJoinIntent ==
  ASSUME LateAdd = FALSE
  PROVE  Spec => []JoinIntentIsFresh
<1>1. IInv => JoinIntentIsFresh
  BY DEF IInv
<1>. QED  BY <1>1, IInvHolds, PTL

\* Tracks are merged one by one in the order of their ids, and only into a
\* plan whose whole cohort is frozen (C3, C7).
THEOREM OrderedMerges ==
  ASSUME LateAdd = FALSE
  PROVE  Spec => []MergesInOrder
<1>1. IInv => MergesInOrder
  BY DEF IInv
<1>. QED  BY <1>1, IInvHolds, PTL

\* The phase of the cohort is never ahead of a track's, nor behind it.
THEOREM PhasesAreOfTheCohort ==
  ASSUME LateAdd = FALSE
  PROVE  Spec => []PhasesAgree
<1>1. IInv => PhasesAgree
  BY DEF IInv
<1>. QED  BY <1>1, IInvHolds, PTL

\* Evidence of the final route exists on that route only: a fallback or a
\* HEAD that moved leaves no QA and no integration job behind.
THEOREM EvidenceIsOfTheRoute ==
  ASSUME LateAdd = FALSE
  PROVE  Spec => []EvidenceOnlyOnFinalRoute
<1>1. IInv => EvidenceOnlyOnFinalRoute
  BY DEF IInv
<1>. QED  BY <1>1, IInvHolds, PTL
-----------------------------------------------------------------------------
(* Action properties *)

\* A step that writes one track leaves a blocked one alone.
LEMMA TrackStepKeepsBlocked ==
  ASSUME TypeOK, NEW t \in Tracks, NEW p, phase[t] # "BLOCKED", SetPhase(t, p)
  PROVE  \A u \in Tracks : phase[u] = "BLOCKED" => phase'[u] = "BLOCKED"
  BY DEF TypeOK, SetPhase

LEMMA TerminalStep ==
  ASSUME IInv, [Next]_vars
  PROVE  /\ cohortPhase \in Terminal => cohortPhase' = cohortPhase
         /\ \A u \in Tracks : phase[u] = "BLOCKED" => phase'[u] = "BLOCKED"
<1>. USE DEF Terminal
<1>1. CASE CohortNext
  <2>1. CASE ActivateCohort \/ EnterSerial
    BY <2>1 DEF ActivateCohort, ActivateCohortDue, EnterSerial, EnterSerialDue
  <2>2. ASSUME NEW head \in Shas, GlobalQaPass(head) \/ IntegrationPass(head)
        PROVE  UNCHANGED phase /\ cohortPhase \notin Terminal
    BY <2>2 DEF GlobalQaPass, GlobalQaDue, IntegrationPass, FinalIntegrationDue, Finalizing
  <2>3. CASE InterlockPass
    \* On the final route every track is merged: none is blocked.
    BY <2>3 DEF InterlockPass, FinalInterlockDue, IInv, TypeOK, PhasesAgree, AllIn, Declared,
                Finalizing
  <2>4. CASE TeardownRequested
    BY <2>4 DEF TeardownRequested, FallBack, MarkTeardown
  <2>. QED  BY <1>1, <2>1, <2>2, <2>3, <2>4 DEF CohortNext
<1>2. ASSUME NEW t \in Tracks, NEW head \in Shas, DeclareTrack(t, head)
      PROVE  /\ cohortPhase \in Terminal => cohortPhase' = cohortPhase
             /\ \A u \in Tracks : phase[u] = "BLOCKED" => phase'[u] = "BLOCKED"
  BY <1>2, TrackStepKeepsBlocked DEF DeclareTrack, IInv
<1>3. ASSUME NEW t \in Tracks, PrepareNext(t)
      PROVE  /\ cohortPhase \notin Terminal
             /\ \A u \in Tracks : phase[u] = "BLOCKED" => phase'[u] = "BLOCKED"
  <2>1. ASSUME NEW from, NEW to, PrepareStep(t, from, to), from # "BLOCKED"
        PROVE  /\ cohortPhase \notin Terminal
               /\ \A u \in Tracks : phase[u] = "BLOCKED" => phase'[u] = "BLOCKED"
    BY <2>1, TrackStepKeepsBlocked DEF PrepareStep, PreparingTrack, IInv
  <2>2. CASE PrepareFailed(t)
    BY <2>2 DEF PrepareFailed, PreparingTrack, FallBack, MarkTeardown
  <2>. QED
    BY <1>3, <2>1, <2>2 DEF PrepareNext, PersistPrepareIntent, WorktreeObserved,
       CreateTrackJournal, PersistSupervisorIntent, SupervisorObserved
<1>4. ASSUME NEW t \in Tracks, JoinNext(t)
      PROVE  /\ cohortPhase \in Terminal => cohortPhase' = cohortPhase
             /\ \A u \in Tracks : phase[u] = "BLOCKED" => phase'[u] = "BLOCKED"
  <2>1. phase[t] # "BLOCKED" /\ \E p \in TrackPhases : SetPhase(t, p)
    BY <1>4 DEF JoinNext, ActivateTrack, ActivateTrackDue, JoinRequested, FreezeObserved,
       FreezeDue, PersistJoinIntent, JoinIntentDue, JoinObserved, MergeDue, First, In,
       TrackPhases, Working, Frozen
  <2>2. cohortPhase \in Terminal => cohortPhase' = cohortPhase
    BY <1>4 DEF JoinNext, ActivateTrack, JoinRequested, FreezeObserved, FreezeDue,
       PersistJoinIntent, JoinObserved, MergeDue, AllFrozen, Running
  <2>. QED  BY <2>1, <2>2, TrackStepKeepsBlocked DEF IInv
<1>5. ASSUME NEW t \in Tracks, TeardownNext(t)
      PROVE  /\ cohortPhase \notin Terminal
             /\ \A u \in Tracks : phase[u] = "BLOCKED" => phase'[u] = "BLOCKED"
  <2>1. /\ cohortPhase = "FALLBACK_PENDING" /\ phase[t] # "BLOCKED"
        /\ \E p : SetPhase(t, p)
    BY <1>5 DEF TeardownNext, BeginTeardown, TeardownObserved, TeardownFailed, TeardownDue,
       TeardownPhases
  <2>. QED  BY <2>1, TrackStepKeepsBlocked DEF IInv
<1>6. CASE UNCHANGED vars
  BY <1>6 DEF vars
<1>. QED  BY <1>1, <1>2, <1>3, <1>4, <1>5, <1>6 DEF Next

\* COMPLETE, SERIAL and BLOCKED are never left and no track is ever unblocked
\* (C2, R4.6).
THEOREM TerminalAbsorbs ==
  ASSUME LateAdd = FALSE
  PROVE  Spec => TerminalIsAbsorbing
<1>1. IInv /\ [Next]_vars =>
        [ /\ cohortPhase \in Terminal => cohortPhase' = cohortPhase
          /\ \A t \in Tracks : phase[t] = "BLOCKED" => phase'[t] = "BLOCKED" ]_vars
  BY TerminalStep
<1>. QED  BY <1>1, IInvHolds, PTL DEF Spec, TerminalIsAbsorbing

\* A track that was never frozen has no frozenHeadSha, so freezing it
\* overwrites none.
HeadOnlyWhenFrozen ==
    \A t \in In(PreparingPhases \union {"ABSENT", "ARMED", "ACTIVE", "JOIN_REQUESTED"}) :
        frozenHeadSha[t] = NoSha

LEMMA HeadStep ==
  ASSUME IInv, HeadOnlyWhenFrozen, [Next]_vars
  PROVE  HeadOnlyWhenFrozen'
<1>. USE DEF IInv, TypeOK, HeadOnlyWhenFrozen, In
<1>1. CASE CohortNext
  BY <1>1 DEF CohortNext, ActivateCohort, GlobalQaPass, IntegrationPass, InterlockPass,
     TeardownRequested, FallBack, MarkTeardown, EnterSerial, PreparingPhases, Declared, shas
<1>2. ASSUME NEW t \in Tracks, NEW head \in Shas, DeclareTrack(t, head)
      PROVE  HeadOnlyWhenFrozen'
  BY <1>2 DEF DeclareTrack, SetPhase
<1>3. ASSUME NEW t \in Tracks, PrepareNext(t)
      PROVE  HeadOnlyWhenFrozen'
  <2>1. ASSUME NEW from \in PreparingPhases, NEW to, PrepareStep(t, from, to)
        PROVE  HeadOnlyWhenFrozen'
    BY <2>1 DEF PrepareStep, SetPhase, shas
  <2>2. CASE PrepareFailed(t)
    BY <2>2 DEF PrepareFailed, FallBack, MarkTeardown, PreparingPhases, shas
  <2>. QED
    BY <1>3, <2>1, <2>2 DEF PrepareNext, PersistPrepareIntent, WorktreeObserved,
       CreateTrackJournal, PersistSupervisorIntent, SupervisorObserved, PreparingPhases
<1>4. ASSUME NEW t \in Tracks, JoinNext(t)
      PROVE  HeadOnlyWhenFrozen'
  BY <1>4 DEF JoinNext, ActivateTrack, ActivateTrackDue, JoinRequested, FreezeObserved,
     PersistJoinIntent, JoinObserved, SetPhase, First, PreparingPhases, shas
<1>5. ASSUME NEW t \in Tracks, TeardownNext(t)
      PROVE  HeadOnlyWhenFrozen'
  BY <1>5 DEF TeardownNext, BeginTeardown, TeardownObserved, TeardownFailed, ProvenPhase,
     TeardownPhases, SetPhase, PreparingPhases, shas
<1>6. CASE UNCHANGED vars
  BY <1>6 DEF vars
<1>. QED  BY <1>1, <1>2, <1>3, <1>4, <1>5, <1>6 DEF Next

LEMMA FrozenHeadStep ==
  ASSUME IInv, HeadOnlyWhenFrozen, [Next]_vars
  PROVE  /\ \A t \in Tracks : frozenHeadSha[t] # NoSha => frozenHeadSha'[t] = frozenHeadSha[t]
         /\ globalQaHeadSha # NoSha => /\ planHeadSha' = planHeadSha
                                       /\ globalQaHeadSha' \in {globalQaHeadSha, NoSha}
<1>1. \A t \in Tracks : frozenHeadSha[t] # NoSha => frozenHeadSha'[t] = frozenHeadSha[t]
  <2>1. ASSUME NEW t \in Tracks, NEW head \in Shas, FreezeObserved(t, head)
        PROVE  \A u \in Tracks : frozenHeadSha[u] # NoSha => frozenHeadSha'[u] = frozenHeadSha[u]
    BY <2>1 DEF FreezeObserved, FreezeDue, First, HeadOnlyWhenFrozen, In, IInv, TypeOK
  <2>2. CASE \A t \in Tracks, head \in Shas : ~FreezeObserved(t, head)
    BY <2>2 DEF Next, CohortNext, ActivateCohort, GlobalQaPass, IntegrationPass, InterlockPass,
       TeardownRequested, EnterSerial, DeclareTrack, PrepareNext, PersistPrepareIntent,
       WorktreeObserved, CreateTrackJournal, PersistSupervisorIntent, SupervisorObserved,
       PrepareStep, PrepareFailed, JoinNext, ActivateTrack, JoinRequested, PersistJoinIntent,
       JoinObserved, TeardownNext, BeginTeardown, TeardownObserved, TeardownFailed, shas, vars
  <2>. QED  BY <2>1, <2>2
<1>2. ASSUME globalQaHeadSha # NoSha
      PROVE  planHeadSha' = planHeadSha /\ globalQaHeadSha' \in {globalQaHeadSha, NoSha}
  <2>1. cohortPhase \in Finalizing \union {"COMPLETE"}
    BY <1>2 DEF IInv, EvidenceOnlyOnFinalRoute
  <2>. QED
    BY <1>2, <2>1 DEF Next, CohortNext, ActivateCohort, GlobalQaPass, GlobalQaDue,
       IntegrationPass, InterlockPass, TeardownRequested, EnterSerial, DeclareTrack, PrepareNext,
       PersistPrepareIntent, WorktreeObserved, CreateTrackJournal, PersistSupervisorIntent,
       SupervisorObserved, PrepareStep, PrepareFailed, JoinNext, ActivateTrack, JoinRequested,
       FreezeObserved, PersistJoinIntent, JoinObserved, MergeDue, AllFrozen, TeardownNext,
       BeginTeardown, TeardownObserved, TeardownFailed, Running, Finalizing, shas, evidence, vars
<1>. QED  BY <1>1, <1>2

\* The commit a track was frozen at never changes, and the plan HEAD that QA
\* certified stands until the cohort completes or falls back (R6.4).
THEOREM FrozenHeadsStay ==
  ASSUME LateAdd = FALSE
  PROVE  Spec => FrozenHeadsAreFinal
<1>1. Init => HeadOnlyWhenFrozen
  BY DEF Init, HeadOnlyWhenFrozen, In
<1>2. IInv /\ HeadOnlyWhenFrozen /\ [Next]_vars => HeadOnlyWhenFrozen'
  BY HeadStep
<1>3. IInv /\ HeadOnlyWhenFrozen /\ [Next]_vars =>
        [ /\ \A t \in Tracks : frozenHeadSha[t] # NoSha => frozenHeadSha'[t] = frozenHeadSha[t]
          /\ globalQaHeadSha # NoSha =>
                /\ planHeadSha' = planHeadSha
                /\ globalQaHeadSha' \in {globalQaHeadSha, NoSha} ]_vars
  BY FrozenHeadStep
<1>. QED  BY <1>1, <1>2, <1>3, IInvHolds, PTL DEF Spec, FrozenHeadsAreFinal
-----------------------------------------------------------------------------
(* Refinement: each step of the reducer is a step of CohortContract or      *)
(* leaves it as it is.                                                      *)

Status == [t \in Tracks |-> StatusOf(phase[t])]

Outcome == OutcomeOf(cohortPhase)

ContractStep == [Contract!Next]_(Contract!vars)

LEMMA StatusOfPhase ==
  /\ \A p \in {"ABSENT", "DECLARED"} : StatusOf(p) = "none"
  /\ \A p \in {"PREPARE_INTENT", "WORKTREE_CREATED", "JOURNAL_CREATED", "SUPERVISOR_STARTING",
               "ARMED", "ACTIVE", "FREEZE_REQUESTED", "JOIN_REQUESTED"} : StatusOf(p) = "working"
  /\ \A p \in {"FROZEN", "JOIN_INTENT"} : StatusOf(p) = "frozen"
  /\ \A p \in {"MERGED_UNVERIFIED", "JOINED"} : StatusOf(p) = "merged"
  /\ \A p \in TeardownPhases : StatusOf(p) = "dismantling"
  /\ StatusOf("REMOVED") = "gone"
  /\ StatusOf("BLOCKED") = "stuck"
<1>. USE DEF StatusOf, TeardownPhases
<1>1. \A p \in {"ABSENT", "DECLARED"} : StatusOf(p) = "none"
  BY Zenon
<1>2. ASSUME NEW p \in {"PREPARE_INTENT", "WORKTREE_CREATED", "JOURNAL_CREATED",
                        "SUPERVISOR_STARTING", "ARMED", "ACTIVE", "FREEZE_REQUESTED",
                        "JOIN_REQUESTED"}
      PROVE  StatusOf(p) = "working"
  BY Zenon
<1>3. \A p \in {"FROZEN", "JOIN_INTENT"} : StatusOf(p) = "frozen"
  BY Zenon
<1>4. \A p \in {"MERGED_UNVERIFIED", "JOINED"} : StatusOf(p) = "merged"
  BY Zenon
<1>5. \A p \in TeardownPhases : StatusOf(p) = "dismantling"
  BY Zenon
<1>6. StatusOf("REMOVED") = "gone"
  BY Zenon
<1>7. StatusOf("BLOCKED") = "stuck"
  BY Zenon
<1>. QED  BY <1>1, <1>2, <1>3, <1>4, <1>5, <1>6, <1>7

LEMMA OutcomeOfPhase ==
  /\ \A c \in {"NONE", "PREPARING"} : OutcomeOf(c) = "preparing"
  /\ \A c \in Running \union Finalizing : OutcomeOf(c) = "running"
  /\ OutcomeOf("FALLBACK_PENDING") = "falling"
  /\ OutcomeOf("COMPLETE") = "complete"
  /\ OutcomeOf("SERIAL") = "serial"
  /\ OutcomeOf("BLOCKED") = "blocked"
  BY Zenon DEF OutcomeOf, Running, Finalizing

USE StatusOfPhase, OutcomeOfPhase DEF Outcome

LEMMA InitRefines == Init => Contract!Init
  BY DEF Init, Contract!Init

\* A step that writes the phase of one track writes its status and no other.
LEMMA StatusOfStep ==
  ASSUME TypeOK, NEW t \in Tracks, NEW p, SetPhase(t, p)
  PROVE  Status' = [Status EXCEPT ![t] = StatusOf(p)]
  BY DEF TypeOK, SetPhase, Status

\* Such a step is a stutter of the contract where the status stays.
LEMMA Stutter ==
  ASSUME TypeOK, NEW t \in Tracks, NEW p, SetPhase(t, p), StatusOf(p) = StatusOf(phase[t]),
         Outcome' = Outcome
  PROVE  ContractStep
<1>1. \A u \in Tracks : phase'[u] = IF u = t THEN p ELSE phase[u]
  BY DEF SetPhase, TypeOK
<1>2. Status' = Status
  BY <1>1 DEF Status
<1>. QED  BY <1>2 DEF ContractStep, Contract!vars, Status

LEMMA StickStep ==
  ASSUME TypeOK, NEW t \in Tracks, SetPhase(t, "BLOCKED"),
         phase[t] \notin {"ABSENT", "DECLARED", "REMOVED", "MERGED_UNVERIFIED", "JOINED"},
         \/ cohortPhase = "PREPARING" /\ UNCHANGED cohortPhase
         \/ /\ cohortPhase \in Running \union {"FALLBACK_PENDING"}
            /\ cohortPhase' = "BLOCKED"
  PROVE  ContractStep
<1>1. StatusOf(phase[t]) \notin {"none", "gone", "merged"} /\ StatusOf("BLOCKED") = "stuck"
  BY DEF TypeOK, TrackPhases, PreparingPhases, Working, Frozen, TeardownPhases
<1>2. Status' = [Status EXCEPT ![t] = "stuck"]
  BY <1>1, StatusOfStep
<1>3. /\ Outcome \in {"preparing", "running", "falling"}
      /\ IF Outcome = "preparing" THEN Outcome' = Outcome ELSE Outcome' = "blocked"
  BY DEF Running, Finalizing
<1>4. Contract!Stick(t)
  BY <1>1, <1>2, <1>3
  DEF Contract!Stick, Contract!Become, Contract!Over, Contract!Nothing, Status
<1>. QED  BY <1>4 DEF ContractStep, Contract!Next

LEMMA FallBackRefines ==
  ASSUME IInv, FallBack, cohortPhase \notin {"NONE", "FALLBACK_PENDING"} \union Terminal
  PROVE  ContractStep
<1>1. Outcome \in {"preparing", "running"} /\ Outcome' = "falling"
  BY DEF FallBack, IInv, TypeOK, CohortPhases, Terminal
<1>2. ASSUME NEW t \in Tracks
      PROVE  StatusOf(phase'[t]) = IF StatusOf(phase[t]) \in {"none", "stuck"}
                                   THEN StatusOf(phase[t]) ELSE "dismantling"
  <2>1. phase[t] \in TrackPhases /\ phase[t] # "REMOVED"
    BY DEF IInv, TypeOK, PhasesAgree, AllIn, Declared, PreparingPhases, Working, Frozen,
           Running, Finalizing, Terminal, CohortPhases
  <2>2. phase'[t] = MarkTeardown(phase[t])
    BY DEF FallBack
  <2>. QED
    BY <2>1, <2>2 DEF MarkTeardown, TrackPhases, PreparingPhases, Working, Frozen,
       TeardownPhases
<1>3. Contract!FallBack
  BY <1>1, <1>2 DEF Contract!FallBack, Contract!Open
<1>. QED  BY <1>3 DEF ContractStep, Contract!Next

LEMMA PrepareRefines ==
  ASSUME IInv, NEW t \in Tracks, PrepareNext(t)
  PROVE  ContractStep
<1>. USE DEF IInv
<1>1. ASSUME NEW from, NEW to, PrepareStep(t, from, to)
      PROVE  /\ phase[t] = from /\ SetPhase(t, to) /\ UNCHANGED cohortPhase
             /\ cohortPhase = "PREPARING" /\ Outcome = "preparing" /\ Outcome' = Outcome
  BY <1>1 DEF PrepareStep, PreparingTrack
<1>2. CASE PersistPrepareIntent(t)
  <2>1. Status[t] = "none" /\ Status' = [Status EXCEPT ![t] = "working"]
    BY <1>1, <1>2, StatusOfStep
    DEF PersistPrepareIntent, Status, TeardownPhases
  <2>2. Contract!SetUp(t)
    BY <1>1, <1>2, <2>1 DEF PersistPrepareIntent, Contract!SetUp, Contract!Become, Status
  <2>. QED  BY <2>2 DEF ContractStep, Contract!Next
<1>3. ASSUME NEW owned \in BOOLEAN, WorktreeObserved(t, owned)
      PROVE  ContractStep
  <2>1. CASE owned
    BY <1>1, <1>3, <2>1, Stutter DEF WorktreeObserved, TeardownPhases
  <2>2. CASE ~owned
    BY <1>1, <1>3, <2>2, StickStep DEF WorktreeObserved
  <2>. QED  BY <2>1, <2>2
<1>4. CASE CreateTrackJournal(t)
  BY <1>1, <1>4, Stutter DEF CreateTrackJournal, TeardownPhases
<1>5. CASE PersistSupervisorIntent(t)
  BY <1>1, <1>5, Stutter DEF PersistSupervisorIntent, TeardownPhases
<1>6. ASSUME NEW mine \in BOOLEAN, SupervisorObserved(t, mine)
      PROVE  ContractStep
  <2>1. CASE mine
    BY <1>1, <1>6, <2>1, Stutter DEF SupervisorObserved, TeardownPhases
  <2>2. CASE ~mine
    BY <1>1, <1>6, <2>2, StickStep DEF SupervisorObserved
  <2>. QED  BY <2>1, <2>2
<1>7. CASE PrepareFailed(t)
  BY <1>7, FallBackRefines DEF PrepareFailed, PreparingTrack, Terminal
<1>. QED  BY <1>2, <1>3, <1>4, <1>5, <1>6, <1>7 DEF PrepareNext

LEMMA DeclareRefines ==
  ASSUME IInv, NEW t \in Tracks, NEW head \in Shas, DeclareTrack(t, head)
  PROVE  ContractStep
<1>1. Outcome' = Outcome
  BY DEF DeclareTrack
<1>. QED  BY <1>1, Stutter DEF IInv, DeclareTrack

LEMMA JoinRefines ==
  ASSUME IInv, NEW t \in Tracks, JoinNext(t)
  PROVE  ContractStep
<1>. USE DEF IInv
<1>1. CASE ActivateTrack(t)
  <2>1. Outcome' = Outcome
    BY <1>1 DEF ActivateTrack
  <2>. QED
    BY <1>1, <2>1, Stutter DEF ActivateTrack, ActivateTrackDue, First, In, TeardownPhases
<1>2. CASE JoinRequested(t)
  <2>1. Outcome' = Outcome
    BY <1>2 DEF JoinRequested
  <2>. QED  BY <1>2, <2>1, Stutter DEF JoinRequested, TeardownPhases
<1>3. ASSUME NEW head \in Shas, FreezeObserved(t, head)
      PROVE  ContractStep
  <2>1. Outcome = "running" /\ Outcome' = "running"
    BY <1>3 DEF FreezeObserved, FreezeDue, Running
  <2>2. Status[t] = "working" /\ Status' = [Status EXCEPT ![t] = "frozen"]
    BY <1>3, StatusOfStep
    DEF FreezeObserved, FreezeDue, First, In, Status, TeardownPhases
  <2>3. Contract!Freeze(t)
    BY <2>1, <2>2 DEF Contract!Freeze, Contract!Become, Status
  <2>. QED  BY <2>3 DEF ContractStep, Contract!Next
<1>4. CASE PersistJoinIntent(t)
  <2>1. Outcome' = Outcome
    BY <1>4 DEF PersistJoinIntent
  <2>. QED
    BY <1>4, <2>1, Stutter DEF PersistJoinIntent, JoinIntentDue, First, In
<1>5. ASSUME NEW mergeHead, NEW planHead \in Shas, NEW anc,
             JoinObserved(t, mergeHead, planHead, anc)
      PROVE  ContractStep
  <2>1. phase[t] = "JOIN_INTENT" /\ AllIn(Frozen) /\ cohortPhase \in Running
    BY <1>5 DEF JoinObserved, MergeDue, AllFrozen, First, In
  <2>2. CASE SetPhase(t, "BLOCKED") /\ cohortPhase' = "BLOCKED"
    BY <2>1, <2>2, StickStep
  <2>3. CASE SetPhase(t, "MERGED_UNVERIFIED") /\ UNCHANGED cohortPhase
    <3>1. Outcome = "running" /\ Outcome' = "running"
      BY <2>1, <2>3 DEF Running
    <3>2. Status[t] = "frozen" /\ Status' = [Status EXCEPT ![t] = "merged"]
      BY <2>1, <2>3, StatusOfStep DEF Status
    <3>3. ASSUME NEW u \in Tracks, Status[u] # "none"
          PROVE  Status[u] = IF u < t THEN "merged" ELSE "frozen"
      \* The cohort is JOINING: nothing is frozen while it is ACTIVE.
      <4>1. u \in Declared /\ t \in Declared
        BY <2>1, <3>3 DEF Declared, Status
      <4>2. cohortPhase = "JOINING"
        BY <2>1, <4>1 DEF PhasesAgree, AllIn, Frozen, Running
      <4>3. phase[u] \in {"FROZEN", "JOIN_INTENT", "MERGED_UNVERIFIED"}
        BY <2>1, <4>1, <4>2 DEF PhasesAgree, AllIn, Frozen
      <4>4. u < t => phase[u] = "MERGED_UNVERIFIED"
        BY <2>1, <4>1, <4>2 DEF MergesInOrder, In
      <4>5. ~(u < t) => phase[u] # "MERGED_UNVERIFIED"
        BY <2>1, <4>1, <4>2, TracksAssumption DEF MergesInOrder, In
      <4>. QED  BY <4>3, <4>4, <4>5 DEF Status
    <3>4. Contract!Merge(t)
      BY <3>1, <3>2, <3>3
      DEF Contract!Merge, Contract!Enrolled, Contract!Become, Status
    <3>. QED  BY <3>4 DEF ContractStep, Contract!Next
  <2>. QED  BY <1>5, <2>2, <2>3 DEF JoinObserved
<1>. QED  BY <1>1, <1>2, <1>3, <1>4, <1>5 DEF JoinNext

LEMMA TeardownRefines ==
  ASSUME IInv, NEW t \in Tracks, TeardownNext(t)
  PROVE  ContractStep
<1>. USE DEF IInv
<1>1. CASE BeginTeardown(t)
  <2>1. Outcome' = Outcome
    BY <1>1 DEF BeginTeardown
  <2>. QED  BY <1>1, <2>1, Stutter DEF BeginTeardown, TeardownPhases
<1>2. ASSUME NEW o \in TeardownObservation, TeardownObserved(t, o)
      PROVE  ContractStep
  <2>1. /\ cohortPhase = "FALLBACK_PENDING" /\ In({"BLOCKED"}) = {} /\ phase[t] \in TeardownPhases
        /\ SetPhase(t, ProvenPhase(phase[t], o))
    BY <1>2 DEF TeardownObserved, TeardownDue
  <2>2. CASE o.foreign
    BY <1>2, <2>1, <2>2, StickStep DEF TeardownObserved, ProvenPhase, TeardownPhases
  <2>3. CASE ~o.foreign
    <3>1. Outcome = "falling" /\ Outcome' = "falling"
      BY <1>2, <2>1, <2>3 DEF TeardownObserved, Running, Finalizing
    <3>2. CASE ProvenPhase(phase[t], o) \in TeardownPhases
      BY <2>1, <3>1, <3>2, Stutter DEF TeardownPhases
    <3>3. CASE ProvenPhase(phase[t], o) = "REMOVED"
      <4>1. Status[t] = "dismantling" /\ Status' = [Status EXCEPT ![t] = "gone"]
        BY <2>1, <3>3, StatusOfStep DEF Status, TeardownPhases
      <4>2. \A u \in Tracks : Status[u] # "stuck"
        BY <2>1 DEF Status, In, TypeOK, TrackPhases, PreparingPhases, Working, Frozen,
                    TeardownPhases
      <4>3. Contract!Dismantled(t)
        BY <3>1, <4>1, <4>2 DEF Contract!Dismantled, Contract!Some, Contract!Become, Status
      <4>. QED  BY <4>3 DEF ContractStep, Contract!Next
    <3>4. ProvenPhase(phase[t], o) \in TeardownPhases \union {"REMOVED"}
      BY <2>1, <2>3 DEF ProvenPhase, TeardownPhases
    <3>. QED  BY <3>2, <3>3, <3>4
  <2>. QED  BY <2>2, <2>3
<1>3. CASE TeardownFailed(t)
  BY <1>3, StickStep DEF TeardownFailed, TeardownDue
<1>. QED  BY <1>1, <1>2, <1>3 DEF TeardownNext

LEMMA CohortRefines ==
  ASSUME IInv, CohortNext
  PROVE  ContractStep
<1>. USE DEF IInv
<1>1. CASE ActivateCohort
  <2>1. /\ Outcome = "preparing" /\ Outcome' = "running" /\ Status' = Status
        /\ \A t \in Declared : Status[t] = "working"
        /\ \A t \in Tracks \ Declared : Status[t] = "none"
    BY <1>1 DEF ActivateCohort, ActivateCohortDue, AllIn, Declared, Running, Status,
                StatusOf, TeardownPhases
  <2>2. \E t, u \in Declared : t # u
    BY <1>1 DEF ActivateCohort, ActivateCohortDue, ProtocolInvariants, CohortHasTwoTracks
  <2>3. Contract!Start
    BY <2>1, <2>2 DEF Contract!Start, Contract!Some, Contract!Enrolled, Status, Declared
  <2>. QED  BY <2>3 DEF ContractStep, Contract!Next
<1>2. ASSUME NEW head \in Shas, GlobalQaPass(head) \/ IntegrationPass(head)
      PROVE  ContractStep
  <2>1. cohortPhase \in Running \union Finalizing
    BY <1>2 DEF GlobalQaPass, GlobalQaDue, IntegrationPass, FinalIntegrationDue, PhasesAgree,
       ProtocolInvariants, CohortHasTwoTracks, AllIn, Declared, PreparingPhases, TypeOK,
       CohortPhases
  <2>2. Outcome' = Outcome /\ Status' = Status
    BY <1>2, <2>1 DEF GlobalQaPass, IntegrationPass, Status, Running, Finalizing
  <2>. QED  BY <2>2 DEF ContractStep, Contract!vars, Status
<1>3. CASE InterlockPass
  <2>1. AllIn({"MERGED_UNVERIFIED"})
    BY <1>3 DEF InterlockPass, FinalInterlockDue, PhasesAgree, Finalizing
  <2>2. Outcome = "running" /\ Outcome' = "complete"
    BY <1>3 DEF InterlockPass, FinalInterlockDue, Running, Finalizing
  <2>3. Status' = Status /\ \A t \in Tracks : Status[t] \in {"none", "merged"}
    BY <1>3, <2>1 DEF InterlockPass, AllIn, Declared, Status
  <2>4. Contract!Complete
    BY <2>2, <2>3 DEF Contract!Complete, Contract!Enrolled, Status
  <2>. QED  BY <2>4 DEF ContractStep, Contract!Next
<1>4. CASE TeardownRequested
  BY <1>4, FallBackRefines DEF TeardownRequested
<1>5. CASE EnterSerial
  <2>1. /\ Outcome = "falling" /\ Outcome' = "serial" /\ Status' = Status
        /\ \A t \in Tracks : Status[t] \in {"none", "gone"}
    BY <1>5 DEF EnterSerial, EnterSerialDue, AllIn, Declared, Status, Running,
                Finalizing, TeardownPhases
  <2>2. Contract!Serialize
    BY <2>1 DEF Contract!Serialize, Contract!Nothing, Status
  <2>. QED  BY <2>2 DEF ContractStep, Contract!Next
<1>. QED  BY <1>1, <1>2, <1>3, <1>4, <1>5 DEF CohortNext

\* Whatever the reducer observes, the cohort keeps its contract: no merge
\* before the whole cohort is frozen, merges in order, COMPLETE only with every
\* track merged, SERIAL only with every track dismantled, BLOCKED final.
THEOREM Refinement ==
  ASSUME LateAdd = FALSE
  PROVE  Spec => ImplementsContract
<1>1. IInv /\ [Next]_vars => [Contract!Next]_(Contract!vars)
  <2>. SUFFICES ASSUME IInv, [Next]_vars
                PROVE  ContractStep
    BY DEF ContractStep
  <2>1. CASE CohortNext
    BY <2>1, CohortRefines
  <2>2. ASSUME NEW t \in Tracks, NEW head \in Shas, DeclareTrack(t, head)
        PROVE  ContractStep
    BY <2>2, DeclareRefines
  <2>3. ASSUME NEW t \in Tracks, PrepareNext(t) \/ JoinNext(t) \/ TeardownNext(t)
        PROVE  ContractStep
    BY <2>3, PrepareRefines, JoinRefines, TeardownRefines
  <2>4. CASE UNCHANGED vars
    BY <2>4 DEF vars, ContractStep, Contract!vars
  <2>. QED  BY <2>1, <2>2, <2>3, <2>4 DEF Next
<1>. QED  BY <1>1, InitRefines, IInvHolds, PTL DEF Spec, ImplementsContract, Contract!Spec

=============================================================================
