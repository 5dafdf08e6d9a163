CONSTANTS
    OtherThreads = {main_thread}
    MaxRuns = 2
    MaxFrames = 1

SPECIFICATION Spec

INVARIANTS
    StatsAreOfLastRun
