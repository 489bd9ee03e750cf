SPECIFICATION CollectorsSpec
CONSTANTS
    Disks = {a, b}
    Removable = {b}
    NoDisks = NoDisks
    Period = 1
    QuietWindow = 2
    MaxIO = 2
    MaxPlug = 2
    MaxMissed = 1
    PowerDisks = {a, b}
    Bridged = {b}
    NoDisk = NoDisk
    Timeout = 1
    PollEvery = 1
    Backoff = 4
    MaxChange = 2
    MaxError = 1
    Width = 12
    MaxTicks = 3
    MaxCount = 9
    MaxLost = 1
INVARIANTS CollectorTypes PolledWhileActive RateTrue
PROPERTIES TimesKept ReportsReturn CPUExact
