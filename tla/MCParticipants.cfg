SPECIFICATION CeremonyFairSpec
CONSTANTS
    Session = {s1, s2}
    Challenge = {k1, k2}
    Handler = {h1}
    Circuit = {c1}
    Draw = {d1}
    None = None
    Absent = Absent
    Torn = Torn
    TornWrites = FALSE
    MaxCrashes = 1
    MaxWriteFaults = 0
    MaxReadFaults = 0
    MaxPowerFailures = 0
    ExpectCircuit = None
    MaxAttempts = 2
    MaxLosses = 1
    MaxDeaths = 1
CHECK_DEADLOCK FALSE
PROPERTIES
    JoinEnds
    EveryoneServed
