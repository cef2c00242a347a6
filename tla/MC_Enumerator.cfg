CONSTANTS
    Threads = {t1, t2}
    Classes = {c1, c2}
    Items = {i1, i2}
    Null = Null
    c1 = c1
    c2 = c2
    i1 = i1
    i2 = i2
    Meta <- MCMeta
SPECIFICATION Spec
INVARIANTS
    TypeOK
    EnumComplete
PROPERTIES
    Termination
