\* One VM and two runs that overlap in every way, every fault, any power code.
CONSTANTS
    None = None
    Resources = {v1}
    Handled = {v1}
    Runs = {r1, r2}
    MaxWorkers = 5
    Configs <- MCToggled
    OutsideCodes = {"running", "deallocated", "none"}
    Faults = {"load", "discover", "observe", "recall", "command", "poll", "save", "crash"}
SYMMETRY MCRunSymmetry
SPECIFICATION Spec
INVARIANTS IInv FlagsExclusive NoForeignStop NoForeignStart
