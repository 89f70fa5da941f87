SPECIFICATION Spec
CONSTANTS
    Session = {s1, s2}
    Challenge = {k1, k2}
    Handler = {h1, h2}
    Circuit = {c1}
    Draw = {d1}
    None = None
    Absent = Absent
    Torn = Torn
    TornWrites = TRUE
    MaxCrashes = 1
    MaxWriteFaults = 1
    MaxReadFaults = 0
    MaxPowerFailures = 1
CONSTRAINT FewFaults
SYMMETRY Symmetry
CHECK_DEADLOCK FALSE
INVARIANTS
    TypeOK
    OneCommit
    ChainSound
    OneEntryPerSession
    HeadNotBehind
    AcceptedArchived
PROPERTIES
    NoLateCommit
    LobbySpec
