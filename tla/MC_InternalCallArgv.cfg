\* The test as written; Main may call every registered signature.
CONSTANTS
    None = None
    MainSigs <- Sigs
SPECIFICATION Spec
CHECK_DEADLOCK FALSE
INVARIANT ArgCountSeen
