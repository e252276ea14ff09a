\* One VM, one run at a time, nothing fails.
CONSTANTS
    None = None
    Resources = {v1}
    Handled = {v1}
    Runs = {r1}
    MaxWorkers = 5
    Configs <- MCRetainBoth
    OutsideCodes = {"running", "deallocated"}
    Faults = {}
SPECIFICATION SpecH
INVARIANT ManualStartRetained
