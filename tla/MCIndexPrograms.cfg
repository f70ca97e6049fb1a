SPECIFICATION Spec
CONSTANTS
    Main = Main
    Workers = {w1, w2}
    Objects = 2
    PromptLen = 2
    ObjectBytes = 3
    Options <- MCOptions
    Programs = {"stress", "store", "lookup", "load", "stats"}
    MaxPicks = 2
CHECK_DEADLOCK FALSE
INVARIANTS
    ReportAddsUp
    ErrorsHaveACause
    CliTellsTheTruth
PROPERTIES
    ProgramsEnd
