\* As SchedulerDays, with a VM that no cycle sees before its window opens.
CONSTANTS
    None = None
    v1 = v1
    Resources = {v1}
    Handled = {v1}
    Runs = {r1}
    MaxWorkers = 5
    Configs <- MCRetainRunning
    OutsideCodes = {"running", "starting", "deallocated"}
    Faults = {}
    Day = 8
    Weekdays <- MCWeekdays
    Zones = {"east"}
    OffsetAt <- MCOffsetAt
    Canonical <- MCCanonical
    Absent = Absent
    Schedules <- MCSchedules
    Tags <- MCTags
    DefaultZone = "east"
    TimerPeriod = 2
SPECIFICATION SpecD
INVARIANT EveryOverrideEnds
