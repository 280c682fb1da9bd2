SPECIFICATION FairSpec
CONSTANTS
    j1 = j1
    j2 = j2
    Jobs = {j1}
    NoJob = NoJob
    Root = Root
    OtherName = OtherName
    runner = runner
    container = container
    staged = staged
    Cgroups = {runner, container}
    Basenames = {}
    Moves <- MCMoves
    StartCgroups = {runner}
    HasScanner = TRUE
    Parent <- MCParent
    BaseOf <- MCBaseOf
    RingSize = 1
    Grace = 1
PROPERTIES StaleCgroupsPurged DrainedJobsEnd
