\* One resource over two weeks of three four-minute days, a cycle every two
\* minutes; small timetables in every kind of zone, small scopes.
CONSTANTS
    Day = 4
    Weekdays <- MCWeekdays
    Zones = {"east", "west", "dst"}
    OffsetAt <- MCOffsetAt
    Canonical <- MCCanonical
    Absent = Absent
    Setups <- MCSetups
    DefaultZone = "west"
    TimerPeriod = 2
    Horizon = 24
SPECIFICATION Spec
INVARIANTS TypeOK NeverAstrayForLong
PROPERTY CyclesLeaveAlone
CHECK_DEADLOCK FALSE
