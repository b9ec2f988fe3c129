SPECIFICATION MCSpec
CONSTANTS
    Amounts = {0, 2}
    Percents = {0, 50}
    Resets = {0, 2}
    MonthEnd = 3
    Poll = 1
    MinPercent = 1
    MinBalance = 1
    Shown <- MCShown
    Parallel = 2
    SpendLimits <- MCLimits
    Refresh = 2
    MaxTime = 4
    c1 = c1
    c2 = c2
    e1 = e1
    e2 = e2
    Clients = {c1, c2}
    Continuous = Continuous
    NoOne = NoOne
    Cases <- MCCases
    DefaultEnv = e1
    Interval = 1
    SampleTime = 1
    OldAge = 3
INVARIANTS
    DecisionIsSound
    ShownIsTrue
PROPERTIES
    ReportIsRight
    ClientsFinish
CHECK_DEADLOCK FALSE
