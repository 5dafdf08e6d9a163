\* Expressions of every kind on whole packets; packets of every kind, whole,
\* cut off and corrupted, without a filter.
CONSTANTS
    Inputs <- MCInputs
    Packets = {}
    Captures <- MCCaptures
    MaxTokens = 16
    MaxNodes = 6
SPECIFICATION PrinterSpec
INVARIANTS
    TypeOK
    ShownMeansExpression
    AcceptsTheGrammar
    DecodesWhatWasSent
    TruncationOnlyLoses
    
