SPECIFICATION Spec
CONSTANTS
    Session = {s1, s2}
    Challenge = {k1, k2}
    Handler = {h1}
    Circuit = {c1}
    Draw = {d1}
    None = None
    Absent = Absent
    Torn = Torn
    TornWrites = FALSE
    MaxCrashes = 1
    MaxWriteFaults = 0
    MaxReadFaults = 0
    MaxPowerFailures = 0
SYMMETRY Symmetry
CHECK_DEADLOCK FALSE
INVARIANTS
    HeadIsTip
