SPECIFICATION CeremonySpec
CONSTANTS
    Session = {s1, s2}
    Challenge = {k1, k2}
    Handler = {h1, h2}
    Circuit = {c1, c2}
    Draw = {d1}
    None = None
    Absent = Absent
    Torn = Torn
    TornWrites = FALSE
    MaxCrashes = 2
    MaxWriteFaults = 1
    MaxReadFaults = 0
    MaxPowerFailures = 0
    ExpectCircuit = c1
    MaxAttempts = 2
    MaxLosses = 1
    MaxDeaths = 1
SYMMETRY Symmetry
CHECK_DEADLOCK FALSE
INVARIANTS
    CeremonyTypeOK
    RecordedOnce
    ReceiptTruthful
    RightCircuit
    ReceiptsDurable
PROPERTIES
    CircuitPinned
    Spec
    KeepsLedger
