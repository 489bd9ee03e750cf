SPECIFICATION Spec
CONSTANTS
    Device = {1, 2}
    SmartCapable = {2}
    Rotational = {}
    Pluggable = {}
    QuietWindow = FALSE
    MaxAge = 3
    MaxChange = 0
    MaxFailure = 0
PROPERTY IdentityStays
