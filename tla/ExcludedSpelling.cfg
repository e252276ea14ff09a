\* An exclusion in another spelling than the query answers with.
CONSTANTS
    NoGroup = NoGroup
    Explicit = {"s1"}
    Groups = {"g1", "g2"}
    Excluded = {"S3"}
    Members <- MCMembers
    PageSize = 100
    LowerId <- MCLowerIds
    ResourceGroups = {rg1, rg2}
    MaxSyncs = 6
    MaxPolls = 24
    ResyncAt = {3, 9, 18, 27}
    Faults = {}
SPECIFICATION SpecDeployment
INVARIANT ExcludedInAnySpelling
