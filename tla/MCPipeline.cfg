\* Two frames through a queue of one.
CONSTANTS
    MaxSize = 1
    MaxFrames = 2

SPECIFICATION FairSpec

INVARIANTS
    TypeOK
    NumbersMatchFile
    ExitMeansDrained
    ExitCodeHonest
PROPERTIES
    CtrlCEndsProgram
    CaptureEndEndsProgram
