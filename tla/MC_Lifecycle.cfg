CONSTANTS
    Domains = {d1, d2, d3}
    Assemblies = {a1, a2}
    Paths = {good, missing}
    GoodPaths = {good}
    Null = Null
    Rules <- RulesNone
SPECIFICATION Spec
CHECK_DEADLOCK FALSE
INVARIANTS
    TypeOK
