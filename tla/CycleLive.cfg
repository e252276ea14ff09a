\* One run over a VM and a resource no handler knows, sharing a single worker
\* (MAX_WORKERS = 0 is raised to 1).
CONSTANTS
    None = None
    Resources = {v1, x1}
    Handled = {v1}
    Runs = {r1}
    MaxWorkers = 0
    Configs <- MCDryOrNot
    OutsideCodes = {"running", "deallocated"}
    Faults = {"load", "discover", "evaluate", "poll", "save", "crash"}
SPECIFICATION FairSpec
PROPERTIES CycleEnds ImplementsContract
