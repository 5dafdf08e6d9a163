\* Expressions with exactly as many tokens as the limit.
CONSTANTS
    Inputs <- LimitInputs
    Frames <- OneFrame
    MaxTokens = 7
    MaxNodes = 256
    MaxInsns = 1024
    MaxJump = 255
SPECIFICATION Spec
INVARIANT MaxTokensAreAccepted
