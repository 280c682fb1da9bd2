CONSTANTS
    i1 = i1  i2 = i2  h1 = h1  h2 = h2  a1 = a1  k1 = k1
    l1 = l1  g1 = g1  g2 = g2  p1 = p1  p2 = p2  s1 = s1
    n1 = n1  e1 = e1  d1 = d1  t1 = t1  z1 = z1
    None = None
    Identities = {i1}
    Requests = {h1, p1, p2, d1}
    Kind <- MCKind
    IdOf <- MCIdOf
    QueueSize = 1
    MaxFaults = 1
SPECIFICATION Spec
INVARIANTS
    StartsExclusive
    SummaryComplete
    ScopesFinalizedWithJob
PROPERTIES
    LeavesOnlyWhenTakenOrUnwound
