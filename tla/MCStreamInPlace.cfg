SPECIFICATION FinalizationSpec
CONSTANTS
    Session = {s1, s2}
    Challenge = {k1, k2}
    Handler = {h1}
    Circuit = {c1}
    Draw = {d1}
    None = None
    Absent = Absent
    Torn = Torn
    TornWrites = TRUE
    MaxCrashes = 0
    MaxWriteFaults = 0
    MaxReadFaults = 0
    MaxPowerFailures = 0
    Tool = {"batch", "stream"}
    InPlace = TRUE
    Before = Absent
    MaxRuns = 1
SYMMETRY Symmetry
CHECK_DEADLOCK FALSE
INVARIANTS
    CompleteKeys
