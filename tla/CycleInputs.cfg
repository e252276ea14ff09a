\* Two operators, the portal and a cycle over two entities of one name; and
\* queries whose answers fit a page, one of the two at a time.
CONSTANTS
    None = None
    day = day
    night = night
    Keys <- MCKeys
    Operators = {o1, o2}
    Windows <- MCWindows
    Payloads <- MCPayloads
    ConfigPayloads <- MCConfigPayloads
    Entities <- MCEntities
    ConfigEntities <- MCConfigEntities
    Day = 1
    Weekdays <- MCWeekdays
    Zones = {"utc"}
    OffsetAt <- MCOffsetAt
    Canonical <- MCCanonical
    Absent = Absent
    SubscriptionIds = {"sub-a", "sub-b"}
    TargetLocations = {"eastus"}
    Lower <- MCLower
    Home <- MCHome
    Chains <- MCChains
    Tags = {"office", Absent}
    Schedules <- MCSchedules
    PageSize = 2
SYMMETRY MCOperatorSymmetry
SPECIFICATION SpecInputs
INVARIANTS InputsTypeOK AppliedMeansIntended LoadedWasOffered FailFast FoundAll FoundWasThere ExclusionsHold
