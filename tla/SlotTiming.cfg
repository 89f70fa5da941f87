SPECIFICATION Spec
CONSTANTS
    SlotTimeout = 56
    TickPeriod = 1
    PollInterval = 2
    Beat = 20
    BeatTimeout = 30
    Delay = 1
    LossTime = 30
INVARIANTS
    TypeOK
    WorkerKeepsSlot
    DeadFreed
