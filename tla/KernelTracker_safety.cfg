SPECIFICATION Spec
CONSTANTS
    j1 = j1
    j2 = j2
    Jobs = {j1, j2}
    NoJob = NoJob
    Root = Root
    OtherName = OtherName
    runner = runner
    container = container
    staged = staged
    Cgroups = {runner, container}
    Basenames = {staged}
    Moves <- MCMoves
    StartCgroups = {runner}
    HasScanner = TRUE
    Parent <- MCParent
    BaseOf <- MCBaseOf
    RingSize = 2
    Grace = 1
SYMMETRY Symmetry
INVARIANTS RemovedQueueExact RemovedCgroupsAreGone
PROPERTIES OwnershipKept
