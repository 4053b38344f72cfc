\* Three loads, any table of two rows, and one write at any moment.
SPECIFICATION FairSpec
CONSTANTS
    l1 = l1
    l2 = l2
    l3 = l3
    r1 = r1
    r2 = r2
    t1 = t1
    t2 = t2
    k1 = k1
    None = None
    Empty = Empty
    Loads = {l1, l2, l3}
    Rows = {r1, r2}
    Fks = {k1, Empty}
    Tenants = {t1, t2}
    RowTypes <- MCRowTypes
    Assignments <- MCAssignments
    MaxWrites = 1
CHECK_DEADLOCK FALSE
INVARIANT TypeOK
PROPERTIES
    ImplementsPerRow
    EveryLoadEnds
