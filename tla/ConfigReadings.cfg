SPECIFICATION ConfigSpec
CONSTANTS
    Numbers = {0, 7, 70}
    Absent = Absent
    Empty = Empty
    Garbage = Garbage
    Damaged = Damaged
    NoEnvironment = NoEnvironment
    Down = Down
    Failed = Failed
    Panicked = Panicked
    Second = 2
    Bits = 8
    MaxArgument = 30
    MaxEdit = 2
INVARIANT OneConfiguration
