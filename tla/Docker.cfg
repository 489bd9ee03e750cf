SPECIFICATION FairSpec
CONSTANTS
    job = job
    setup = setup
    service = service
    Container = {job, setup, service}
    Labelled = {job}
    DependsOn <- Depends
    Restartable = {setup}
    Pool = 2
    ShowOneShot = FALSE
    MaxChange = 2
    MaxFailure = 1
INVARIANT BoundedWork
PROPERTIES HiddenSucceeded EventuallyRight
