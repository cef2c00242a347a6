\* Every wrapper on a UTF-8 image: field lookups after ClassField::get_name.
CONSTANTS
    Classes = {c1, c2, c3, c4}
    Fields = {f1, f2, f3}
    Texts = {Abc, abc, Ns, Nul}
    NulTexts = {Nul}
    BadBytes = BadBytes
    Null = Null
    c1 = c1
    c2 = c2
    c3 = c3
    c4 = c4
    f1 = f1
    f2 = f2
    f3 = f3
    Abc = Abc
    abc = abc
    Ns = Ns
    Nul = Nul
    Interfaces = {c3}
    CName <- MCName
    CNs <- MCNs
    FName <- MCFName
    Parent <- MCParent
    Super <- MCSuper
    Ifaces <- MCIfaces
    Nest <- MCNest
    Elem <- MCElem
    Fold <- MCFold
    PanicStrategy = "unwind"
    Calls <- Wrappers
SPECIFICATION Spec
INVARIANT FieldLookupSound
