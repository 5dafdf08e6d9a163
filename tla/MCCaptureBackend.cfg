\* Two captures, one after the other, and another thread that stops them.
CONSTANTS
    OtherThreads = {main_thread}
    MaxRuns = 2
    MaxFrames = 2

SPECIFICATION FairSpec

INVARIANTS
    ReturnReleasesAll
    ActiveIsLive
    PromiscRestored
    HandlerRestored
    ResultHonest
    WriteBeforeCallback
PROPERTIES
    StopEndsRun
