\* A machine that discovery finds under two spellings of its subscription.
CONSTANTS
    None = None
    claimed = claimed
    unclaimed = unclaimed
    Found <- MCFoundMixed
    Typed <- MCTyped
    Canonical <- MCCanonical
    SubscriptionIn <- MCSubscriptionIn
    Lower <- MCLower
    Filters <- MCFilters
    Limits <- MCLimits
    Workers = {w1, w2}
    Operators = {o1}
    Values = {claimed, unclaimed}
SYMMETRY MCSymmetry
SPECIFICATION Spec
INVARIANT OneRowEach
