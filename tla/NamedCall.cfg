\* One call, with a name or without one.
CONSTANTS
    NotGiven = NotGiven
    Calls = {c1}
    Slots <- MCSlots
    Functions <- MCFunctions
    MaxRenewals = 1
SPECIFICATION SpecTrigger
INVARIANT NameSuffices
