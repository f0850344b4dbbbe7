SPECIFICATION Spec
CONSTANTS
    Docs = {"v", "j"}
    JsonColl = "A"
    Kind <- MCKind
    Schemas = {"A", "B", "E", "P", "?"}
    TypeOf <- MCTypeOf
    Vals = {"x", "y"}
    Shown <- MCShown
    Template <- MCTemplate
    Templated = {"A", "json"}
    Longer <- MCLonger
    FirstRecords <- MCFirst
    MaxSuffix = 1
    NoRecord = NoRecord
    Typed = TRUE
    Keyed = FALSE
    Careful = TRUE
    Fresh = TRUE
    MaxCalls = 4
INVARIANTS NoUndefKeys
CHECK_DEADLOCK FALSE
