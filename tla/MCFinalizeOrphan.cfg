SPECIFICATION FinalizationSpec
CONSTANTS
    Session = {s1, s2}
    Challenge = {k1, k2}
    Handler = {h1}
    Circuit = {c1}
    Draw = {d1}
    None = None
    Absent = Absent
    Torn = Torn
    TornWrites = TRUE
    MaxCrashes = 1
    MaxWriteFaults = 0
    MaxReadFaults = 0
    MaxPowerFailures = 0
    Tool = {"batch", "stream"}
    InPlace = FALSE
    Before = rehearsal
    MaxRuns = 1
SYMMETRY Symmetry
CHECK_DEADLOCK FALSE
INVARIANTS
    FoldsAccepted
