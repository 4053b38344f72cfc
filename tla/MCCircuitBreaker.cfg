\* Three concurrent calls against five configurations.
SPECIFICATION FairSpec
CONSTANTS
    Callers = {c1, c2, c3}
    Configs <- MCConfigs
INVARIANTS
    TypeOK
    CountMatchesState
    SlotsAccounted
PROPERTIES
    ImplementsGate
    RecoversUnlessExhausted
