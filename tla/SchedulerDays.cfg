\* One VM over endless weeks under retain_running, retain_stopped coming and
\* going, and an operator who switches it on and off and deletes its row.
CONSTANTS
    None = None
    v1 = v1
    Resources = {v1}
    Handled = {v1}
    Runs = {r1}
    MaxWorkers = 5
    Configs <- MCRetainRunning
    OutsideCodes = {"running", "starting", "deallocated", "none"}
    Faults = {}
    Day = 8
    Weekdays <- MCWeekdays
    Zones = {"east"}
    OffsetAt <- MCOffsetAt
    Canonical <- MCCanonical
    Absent = Absent
    Schedules <- MCSchedules
    Tags <- MCTags
    DefaultZone = "east"
    TimerPeriod = 2
SPECIFICATION SpecD
INVARIANTS TypeOKD OverrideEnds
PROPERTIES KeptUntilCrossed ParkedStays CycleLeavesAsScheduled
