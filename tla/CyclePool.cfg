\* One run over two VMs on two workers.
CONSTANTS
    None = None
    Resources = {v1, v2}
    Handled = {v1, v2}
    Runs = {r1}
    MaxWorkers = 2
    Configs <- MCDryOrNot
    OutsideCodes = {"running"}
    Faults = {"evaluate", "command", "save"}
SYMMETRY MCResourceSymmetry
SPECIFICATION Spec
INVARIANT CountersTally
PROPERTY ImplementsSafety
