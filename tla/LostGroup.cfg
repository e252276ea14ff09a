\* The query of a management group fails.
CONSTANTS
    NoGroup = NoGroup
    Explicit = {"s1"}
    Groups = {"g1", "g2"}
    Excluded = {"s3", "s9"}
    Members <- MCMembers
    PageSize = 100
    LowerId <- MCLowerIds
    ResourceGroups = {rg1, rg2}
    MaxSyncs = 6
    MaxPolls = 24
    ResyncAt = {3, 9, 18, 27}
    Faults = {"query"}
SPECIFICATION SpecDeployment
INVARIANT ScopeDeclared
