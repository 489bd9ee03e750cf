SPECIFICATION Spec
CONSTANTS
    Device = {1, 2}
    SmartCapable = {1, 2}
    Rotational = {2}
    Pluggable = {1}
    QuietWindow = TRUE
    MaxAge = 4
    MaxChange = 1
    MaxFailure = 1
PROPERTIES ReadingsNeverGoBack LastKnownStays
