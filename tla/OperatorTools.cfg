\* The state table by key, the choice of an account, the deployment script and
\* the call of the function, one at a time.
CONSTANTS
    None = None
    NoFile = NoFile
    NoGroup = NoGroup
    NotGiven = NotGiven
    claimed = claimed
    unclaimed = unclaimed
    Found <- MCFound
    Typed <- MCTyped
    Canonical <- MCCanonical
    SubscriptionIn <- MCSubscriptionIn
    Lower <- MCLower
    LowerId <- MCLowerIds
    Filters <- MCFilters
    Limits <- MCLimits
    Workers = {w1, w2}
    Operators = {o1}
    Values = {claimed, unclaimed}
    Accounts <- MCAccounts
    Parameters <- MCParameters
    Texts <- MCTexts
    Arguments <- MCArguments
    Explicit = {"s1"}
    Groups = {"g1", "g2"}
    Excluded = {"s3", "s9"}
    Members <- MCMembers
    PageSize = 100
    ResourceGroups = {rg1, rg2}
    MaxSyncs = 6
    MaxPolls = 24
    ResyncAt = {3, 9, 18, 27}
    Faults <- MCFaults
    Calls = {c1}
    Slots <- MCSlots
    Functions <- MCFunctions
    MaxRenewals = 1
SPECIFICATION SpecTools
INVARIANTS ToolsTypeOK OneRowEach ReachableByHand ListComplete SameTargetLocally DeployedReached ShellWinsByIdentity DoneMeansRegistered ScopeBounded AcceptedStarted RefusedStartsNothing UnnamedRunsTimer
PROPERTIES ImplementsRows DeploymentEnds
