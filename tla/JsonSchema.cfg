SPECIFICATION Spec
CONSTANTS
    NoNode = NoNode
    MaxNodes = 10
    Cuts <- MCCuts
    Thrift <- MCThrift
    TopStruct = "Top"
    Starts <- MCStarts
    Values <- MCValues
    MapKeys = {"a.b"}
    Slips = {"required", "moves"}
    MaxCalls = 3
INVARIANTS FollowsSchema IdPathsAgree
CHECK_DEADLOCK FALSE
