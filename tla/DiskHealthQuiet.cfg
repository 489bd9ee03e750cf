SPECIFICATION FairSpec
CONSTANTS
    Device = {1, 2}
    SmartCapable = {2}
    Rotational = {2}
    Pluggable = {2}
    QuietWindow = FALSE
    MaxAge = 4
    MaxChange = 1
    MaxFailure = 1
PROPERTIES EventuallyListed EventuallyRead
