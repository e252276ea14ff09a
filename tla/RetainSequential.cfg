\* The timer alone: runs follow one another, commands may fail, rows may be
\* deleted at any moment, options that keep the table in use come and go.
CONSTANTS
    None = None
    Resources = {v1}
    Handled = {v1}
    Runs = {r1}
    MaxWorkers = 5
    Configs <- MCTableAlways
    OutsideCodes = {"running", "deallocated", "none"}
    Faults = {"load", "discover", "evaluate", "observe", "recall", "command", "poll"}
SPECIFICATION SpecH
INVARIANTS NeverOverclaims NeverUnderclaims LastStopRespected
