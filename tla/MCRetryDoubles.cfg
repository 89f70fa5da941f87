SPECIFICATION CeremonySpec
CONSTANTS
    Session = {s1, s2}
    Challenge = {k1, k2}
    Handler = {h1, h2}
    Circuit = {c1}
    Draw = {d1}
    None = None
    Absent = Absent
    Torn = Torn
    TornWrites = FALSE
    MaxCrashes = 0
    MaxWriteFaults = 0
    MaxReadFaults = 0
    MaxPowerFailures = 0
    ExpectCircuit = c1
    MaxAttempts = 2
    MaxLosses = 1
    MaxDeaths = 0
SYMMETRY Symmetry
CHECK_DEADLOCK FALSE
INVARIANTS
    FailureMeansNotRecorded
