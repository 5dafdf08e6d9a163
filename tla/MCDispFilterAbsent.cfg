\* Comparisons with layers that the packet does not have.
CONSTANTS
    Inputs <- MeaningInputs
    Packets <- WholePackets
    MaxTokens = 256
    MaxNodes = 256
SPECIFICATION Spec
INVARIANT AbsentFieldIsFalse
