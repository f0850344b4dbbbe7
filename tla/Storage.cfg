SPECIFICATION Spec
CONSTANTS
    FullDisk = FALSE
    Refusals = TRUE
    Objs = {"f1", "f2"}
    Records = {"r1", "r2"}
    MaxRecords = 2
    InSession = TRUE
    Legal = TRUE
    Modules = {"jsonio", "arango", "m"}
    BaseModules <- MCBaseModules
    Levels = {"info", "debug"}
    Dirs = {"", "~", "d1", "d2"}
    SchemaFiles <- MCSchemaFiles
    Content <- MCContent
    TypeOf <- MCTypeOf
    MaxSets = 4
    Slips = {"home", "bypass", "registered"}
INVARIANTS RecordsKept SettingsAgree
CHECK_DEADLOCK FALSE
