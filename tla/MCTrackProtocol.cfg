CONSTANTS
    s1 = s1
    s2 = s2
    Tracks = {1, 2, 3}
    MaxParallel = 2
    Shas = {s1, s2}
    NoSha = NoSha
    LateAdd = FALSE
SYMMETRY ShaSymmetry
SPECIFICATION Spec
INVARIANTS TypeOK ProtocolInvariants JoinIntentIsFresh MergesInOrder EvidenceOnlyOnFinalRoute PhasesAgree
PROPERTIES FrozenHeadsAreFinal ImplementsContract
CHECK_DEADLOCK FALSE
