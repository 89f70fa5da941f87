SPECIFICATION Spec
CONSTANTS
    Session = {s1, s2, s3}
    Challenge = {k1, k2, k3}
    Handler = {h1, h2}
    Circuit = {c1}
    Draw = {d1}
    None = None
    Absent = Absent
    Torn = Torn
    TornWrites = FALSE
    MaxCrashes = 0
    MaxWriteFaults = 0
    MaxReadFaults = 0
    MaxPowerFailures = 0
SYMMETRY Symmetry
CHECK_DEADLOCK FALSE
INVARIANTS
    HeadIsTip
    PublishedOnce
    ArchiveIsChain
    HeadStableWhileHeld
    OneSeat
    NoIdleSlot
    SingleUse
PROPERTIES
    LineIsFifo
    ClosedGrantsNothing
