\* The filter "tcp" on frames of every kind, tagged and IPv6 ones included.
CONSTANTS
    Inputs <- TcpInput
    Frames <- MCFrames
    MaxTokens = 22
    MaxNodes = 24
    MaxInsns = 30
    MaxJump = 24
SPECIFICATION Spec
INVARIANT TcpInSync
