\* Grammatical and other expressions, some too large, on whole and truncated frames.
CONSTANTS
    Inputs <- MCInputs
    Frames <- MCFrames
    MaxTokens = 22
    MaxNodes = 24
    MaxInsns = 30
    MaxJump = 24
SPECIFICATION Spec
INVARIANTS
    TypeOK
    ProgramMeansExpression
    AcceptsTheGrammar
    KernelTakesProgram
    AgreeOnUntaggedIPv4
