\* More tagged machines than a page has rows.
CONSTANTS
    Day = 1
    Weekdays <- MCWeekdays
    Zones = {"utc"}
    OffsetAt <- MCOffsetAt
    Canonical <- MCCanonical
    Absent = Absent
    SubscriptionIds = {"sub-a", "sub-b"}
    TargetLocations = {"eastus"}
    Lower <- MCLower
    Home <- MCHome
    Chains <- MCChains
    Tags = {"office", Absent}
    Schedules <- MCSchedules
    PageSize = 1
SPECIFICATION SpecDiscovery
INVARIANT FoundAll
