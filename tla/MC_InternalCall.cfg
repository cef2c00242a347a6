\* The test as written; Main may call any registered signature and return at any time.
CONSTANTS
    None = None
    MainSigs <- Sigs
SPECIFICATION Spec
CHECK_DEADLOCK FALSE
INVARIANTS
    TypeOK
    ArgvValid
