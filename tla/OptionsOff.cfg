\* The timer alone and no fault, but both retain options may be off for a while.
CONSTANTS
    None = None
    Resources = {v1}
    Handled = {v1}
    Runs = {r1}
    MaxWorkers = 5
    Configs <- MCTableSometimes
    OutsideCodes = {"running", "deallocated"}
    Faults = {}
SPECIFICATION SpecH
INVARIANT LastStopRespected
