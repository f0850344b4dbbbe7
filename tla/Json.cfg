SPECIFICATION Spec
CONSTANTS
    NoNode = NoNode
    MaxNodes = 5
    Dotted = Dotted
    Empty = Empty
    Cuts <- MCCuts
    Slips = {}
    Names = {"a", Dotted}
    Texts = {"7"}
    MaxCalls = 4
    Keys <- MCKeys
    Strings <- MCStrings
    Rests <- MCRests
    Words <- MCWords
    MaxText = 9
    MaxRare = 1
    MaxDepth = 1
INVARIANTS ParentsAgree PathsResolve RoundTrip ThrowsForReason
CHECK_DEADLOCK FALSE
