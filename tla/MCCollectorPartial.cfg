CONSTANTS
    r1 = r1
    r2 = r2
    l1 = l1
    l2 = l2
    c1 = c1
    c2 = c2
    p1 = p1
    p2 = p2
    NoLease = NoLease
    MaxLost = 1
    Rows = {r1, r2}
    Malformed = {r2}
    Leases = {l1, l2}
    Collectors = {c1}
    Pods = {p1}
    LeaseMax = 2
SPECIFICATION Spec
INVARIANTS AckedIsPersisted
