SPECIFICATION Spec
CONSTANTS
    Files = {f1}
    Procs = {p1, p2}
    Cgroups = {c1}
    CgroupOf <- OneCgroup
    MaxVersion = 2
    Kind <- SymbolThenGo
    Symbols <- SSLSymbols
    RingSize = 1
    QueueSize = 1
    MaxTargets = 1
    MissingScanLimit = 2
SYMMETRY ProcSymmetry
CHECK_DEADLOCK FALSE
INVARIANTS CacheJustified ProbesOwned
  
