\* A call and its repetition beside a function app that changes.
CONSTANTS
    NotGiven = NotGiven
    Calls = {c1, c2}
    Slots <- MCSlots
    Functions <- MCFunctions
    MaxRenewals = 1
SYMMETRY MCCallSymmetry
SPECIFICATION SpecTrigger
INVARIANTS TriggerTypeOK AcceptedStarted RefusedStartsNothing UnnamedRunsTimer
