SPECIFICATION ClientSpec
CONSTANTS
    DaemonMain = 2
    StateInterval = 4
    ClientMain = 1
    RetryEvery = 1
    StartupWait = 3
    Late = 1
    JumpBy = 2
    MaxStop = 2
    MaxFailure = 1
    MaxJump = 2
    Snapshots <- SomeSnapshots
    Sizes <- SomeSizes
    MaxWarnings = 1
    ForceRows = 0
    ForceCols = 0
    EventCap = 1
    MaxTyped = 3
    Interval = 2
    RunMax = 2
    PublishMax = 1
    ReadMax = 1
    ClockBy = 2
    MaxSet = 1
    Never = Never
    Numbers = {0, 7, 70}
    Absent = Absent
    Empty = Empty
    Garbage = Garbage
    Damaged = Damaged
    NoEnvironment = NoEnvironment
    Down = Down
    Failed = Failed
    Panicked = Panicked
    Second = 2
    Bits = 8
    MaxArgument = 30
    MaxEdit = 1
INVARIANTS LivingNotStale OffsetOfFrame FrameFits PageOfSortedList ClickSorts
           EventsInOrder IssueOfLastRun SameConfiguration PanicsOutOfRange
PROPERTIES GivesUpWithoutFile IndicatorTrue ResizeShown AllHandled IssueComesTrue
