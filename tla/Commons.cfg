SPECIFICATION CommonsSpec
CONSTANTS
    IntBits = 20
    HeaderFlag = {0, 64, 160, 256}
    SourceFlag = {1, 2, 3, 4, 5, 6, 13, 14, 15, 19, 20, 21}
    PowerFlag = {0, 1, 2, 4, 5, 18, 19, 20}
    FileHeader = 64
    FilePower = {1, 2, 4, 5}
    FlawIndex = {0, 1, 3, 31}
    Before = Before
    Torn = Torn
    Contributor = {a, b}
    P1File = {f0, f1}
    Power = {0, 1, 2, 64, 257}
    NoFile = NoFile
    CutShort = CutShort
    MaxFolded = 2
CHECK_DEADLOCK FALSE
INVARIANTS
    TruePrefix
    RightFlagsWork
    ConfirmedIngests
    SealFoldsAll
    SealedPower
