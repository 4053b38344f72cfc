\* What the comments in triggers.sql say of child tables.
SPECIFICATION Spec
CONSTANTS
    m1 = m1
    m2 = m2
    f1 = f1
    f2 = f2
    s1 = s1
    a1 = a1
    None = None
    Mats = {m1, m2}
    Children = {f1, f2, s1}
    Features = {f1, f2}
    Attrs = {a1}
    MaxWrites = 2
PROPERTY ChildWriteReindexesParent
