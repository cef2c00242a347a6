------------------------------- MODULE Marshal -------------------------------
(***************************************************************************)
(* String marshaling between the runtime's C strings and Rust strings in   *)
(* src/src/class.rs.  Native -> runtime: Class::from_name, from_name_case  *)
(* and get_field_from_name build CStrings from the caller's &str and pass  *)
(* them to a runtime lookup.  Runtime -> native: Class::get_name,          *)
(* get_namespace and ClassField::get_name receive a pointer to a name the  *)
(* runtime owns (spec 4.3: borrowed, copy only), wrap it with              *)
(* CString::from_raw, copy it with to_str().expect(..).to_owned(), and     *)
(* then either hand the pointer back with into_raw or drop the CString.    *)
(*                                                                         *)
(* Strings are abstract values.  A runtime name buffer is "live" until     *)
(* Rust's allocator frees it; reading a freed buffer yields any bytes.     *)
(* A panic ends the client: with panic=unwind the CStrings in scope are    *)
(* dropped on the way out, with panic=abort nothing is.                    *)
(*                                                                         *)
(* The reflection queries on the handles these lookups produce are here   *)
(* too: get_parent, get_nesting_type, get_element_class, implements_       *)
(* interface and is_assignable_from, the last two answered by the          *)
(* runtime's type system (spec 4.4), a subtype relation over the image.    *)
(***************************************************************************)
EXTENDS Naturals, Relation

CONSTANTS
    Classes,        \* MonoClass pointers of the loaded image
    Fields,         \* MonoClassField pointers
    Texts,          \* valid UTF-8 strings
    NulTexts,       \* those with an interior NUL byte (only a &str can hold one)
    BadBytes,       \* a byte string that is not UTF-8
    Null,           \* the null pointer
    CName,          \* CName[c]: the bytes of class c's name
    CNs,            \* CNs[c]: the bytes of class c's namespace
    FName,          \* FName[f]: the bytes of field f's name
    Parent,         \* Parent[f]: the class field f belongs to
    Super,          \* Super[c]: the class c derives from, or Null
    Interfaces,     \* the classes of the image that are interfaces
    Ifaces,         \* Ifaces[c]: the interfaces c declares
    Nest,           \* Nest[c]: the type c is nested in, or Null
    Elem,           \* Elem[c]: the element class of c (c itself if not an array)
    Fold,           \* Fold[s]: s with its case folded, for from_name_case
    PanicStrategy,  \* the build's panic strategy: "unwind" or "abort"
    Calls           \* the wrappers the client program calls

\* The bytes a runtime name may hold: C strings have no interior NUL.
RtBytes == (Texts \ NulTexts) \cup {BadBytes}

\* The wrappers of this module.
Wrappers == {"from_name", "from_name_case", "get_field_from_name",
             "class_get_name", "class_get_namespace", "field_get_name",
             "field_get_parent", "class_get_parent", "get_nesting_type",
             "get_element_class", "implements_interface", "is_assignable_from"}

ASSUME StringsAssumption ==
    /\ NulTexts \subseteq Texts
    /\ BadBytes \notin Texts
    /\ Null \notin Classes \cup Fields
ASSUME MetadataAssumption ==
    /\ CName \in [Classes -> RtBytes]
    /\ CNs \in [Classes -> RtBytes]
    /\ FName \in [Fields -> RtBytes]
    /\ Parent \in [Fields -> Classes]
    /\ Super \in [Classes -> Classes \cup {Null}]
    /\ Interfaces \subseteq Classes
    /\ Ifaces \in [Classes -> SUBSET Interfaces]
    /\ Nest \in [Classes -> Classes \cup {Null}]
    /\ Elem \in [Classes -> Classes]
    /\ Fold \in [Texts -> Texts]
ASSUME BuildAssumption ==
    /\ PanicStrategy \in {"unwind", "abort"}
    /\ Calls \subseteq Wrappers

\* The runtime-owned name buffers.
RtStrs == ({"class_name", "class_namespace"} \X Classes) \cup ({"field_name"} \X Fields)

\* The bytes the runtime stored in buffer s when the image was loaded.
Stored(s) ==
    CASE s[1] = "class_name"      -> CName[s[2]]
      [] s[1] = "class_namespace" -> CNs[s[2]]
      [] s[1] = "field_name"      -> FName[s[2]]

(***************************************************************************)
(* The runtime's type system: o is assignable to c when c is o, or is     *)
(* reached from o through parents and declared interfaces.                *)
(***************************************************************************)
Derives == [x, y \in Classes |-> Super[x] = y \/ y \in Ifaces[x]]

Subtype == ReflexiveTransitiveClosure(Derives, Classes)

\* mono_class_is_assignable_from(c, o): can an o be assigned to a c.
AssignableAnswer(c, o) == Subtype[o, c]

\* mono_class_implements_interface(c, i): c implements interface i, which
\* excludes c itself (spec 8).
ImplementsAnswer(c, i) == i \in Interfaces /\ i # c /\ Subtype[c, i]

VARIABLES
    rt,     \* rt[s]: "live", or "freed" once Rust's allocator released it
    proc,   \* "running", "panicked" (unwound) or "aborted"
    out,    \* the last wrapper call: its name, argument and returned value
    held    \* the Class and ClassField handles the client program holds

vars == <<rt, proc, out, held>>

\* What a read of buffer s may see: its bytes, or anything once freed.
Readable(s) == IF rt[s] = "live" THEN {Stored(s)} ELSE RtBytes

Init ==
    /\ rt = [s \in RtStrs |-> "live"]
    /\ proc = "running"
    /\ out = [op |-> "none", arg |-> Null, val |-> Null]
    /\ held = {}

(***************************************************************************)
(* A panic in a wrapper whose CStrings in scope own the buffers `owned`:   *)
(* unwinding runs their destructors, which free the buffers.               *)
(***************************************************************************)
Panic(op, arg, owned) ==
    /\ proc' = IF PanicStrategy = "unwind" THEN "panicked" ELSE "aborted"
    /\ rt' = IF PanicStrategy = "unwind"
                THEN [s \in RtStrs |-> IF s \in owned THEN "freed" ELSE rt[s]]
                ELSE rt
    /\ out' = [op |-> op, arg |-> arg, val |-> "panic"]
    /\ UNCHANGED held

(***************************************************************************)
(* Class::get_name (and get_namespace): CString::from_raw on the runtime's *)
(* pointer, to_str().expect(..).to_owned(), then into_raw so the CString's *)
(* destructor does not run.  The expect panics on bytes that are not UTF-8 *)
(* while the CString still owns the runtime's buffer.                      *)
(***************************************************************************)
BorrowName(op, c, s) ==
    \E v \in Readable(s) :
        IF v # BadBytes
        THEN /\ out' = [op |-> op, arg |-> c, val |-> v]
             /\ UNCHANGED <<rt, proc, held>>
        ELSE Panic(op, c, {s})

\* Variant: Class::get_name drops the CString, as ClassField::get_name does.
ClassGetNameDrop(c) ==
    LET s == <<"class_name", c>>
    IN  \E v \in Readable(s) :
            IF v # BadBytes
            THEN /\ out' = [op |-> "class_get_name", arg |-> c, val |-> v]
                 /\ rt' = [rt EXCEPT ![s] = "freed"]
                 /\ UNCHANGED <<proc, held>>
            ELSE Panic("class_get_name", c, {s})

ClassGetName(c) == BorrowName("class_get_name", c, <<"class_name", c>>)

\* Variant: get_namespace calls mono_class_get_name.
ClassGetNamespaceWrongCall(c) ==
    BorrowName("class_get_namespace", c, <<"class_name", c>>)

ClassGetNamespace(c) == BorrowName("class_get_namespace", c, <<"class_namespace", c>>)

(***************************************************************************)
(* ClassField::get_name: CString::from_raw on the runtime's pointer,       *)
(* to_str().expect(..).to_owned(), then drop(cstr), which frees the        *)
(* buffer with Rust's allocator.                                           *)
(***************************************************************************)
FieldGetName(f) ==
    LET s == <<"field_name", f>>
    IN  \E v \in Readable(s) :
            IF v # BadBytes
            THEN /\ out' = [op |-> "field_get_name", arg |-> f, val |-> v]
                 /\ rt' = [rt EXCEPT ![s] = "freed"]
                 /\ UNCHANGED <<proc, held>>
            ELSE Panic("field_get_name", f, {s})

(***************************************************************************)
(* The runtime's name lookups compare the query with the stored names; a   *)
(* stored name Rust has freed compares with whatever the memory now holds. *)
(***************************************************************************)
Matches(s, q, eq(_, _)) == \E v \in Readable(s) : v \in Texts /\ eq(v, q)

Exact(a, b) == a = b

Caseless(a, b) == Fold[a] = Fold[b]

(***************************************************************************)
(* Class::from_name / from_name_case: CString::new(..).expect(..) on the   *)
(* namespace and the name (panics on an interior NUL, before anything is   *)
(* owned), then mono_class_from_name[_case], then Class::from_ptr.         *)
(***************************************************************************)
Lookup(op, ns, n, cns, cn, eq(_, _)) ==
    IF ns \in NulTexts \/ n \in NulTexts
    THEN Panic(op, <<ns, n>>, {})
    ELSE \E r \in {c \in Classes : /\ Matches(<<"class_namespace", c>>, cns, eq)
                                  /\ Matches(<<"class_name", c>>, cn, eq)}
                  \cup {Null} :
             /\ r = Null => \A c \in Classes :
                               ~ (/\ Matches(<<"class_namespace", c>>, cns, eq)
                                  /\ Matches(<<"class_name", c>>, cn, eq))
             /\ out' = [op |-> op, arg |-> <<ns, n>>, val |-> r]
             /\ held' = IF r = Null THEN held ELSE held \cup {r}
             /\ UNCHANGED <<rt, proc>>

\* Variant: the name's CString is passed for the namespace too.
FromNameDupArg(ns, n) == Lookup("from_name", ns, n, n, n, Exact)

FromName(ns, n) == Lookup("from_name", ns, n, ns, n, Exact)

FromNameCase(ns, n) == Lookup("from_name_case", ns, n, ns, n, Caseless)

(***************************************************************************)
(* Class::get_field_from_name: CString::new(name).expect(..), then         *)
(* mono_class_get_field_from_name(self, name), then ClassField::from_ptr.  *)
(***************************************************************************)
\* Variant: the lookup is not restricted to the fields of `self`.
GetFieldFromNameAnyClass(c, n) ==
    IF n \in NulTexts
    THEN Panic("get_field_from_name", <<c, n>>, {})
    ELSE LET found == {f \in Fields : Matches(<<"field_name", f>>, n, Exact)}
         IN  \E r \in IF found = {} THEN {Null} ELSE found :
                 /\ out' = [op |-> "get_field_from_name", arg |-> <<c, n>>, val |-> r]
                 /\ held' = IF r = Null THEN held ELSE held \cup {r}
                 /\ UNCHANGED <<rt, proc>>

GetFieldFromName(c, n) ==
    IF n \in NulTexts
    THEN Panic("get_field_from_name", <<c, n>>, {})
    ELSE LET found == {f \in Fields : Parent[f] = c /\ Matches(<<"field_name", f>>, n, Exact)}
         IN  \E r \in IF found = {} THEN {Null} ELSE found :
                 /\ out' = [op |-> "get_field_from_name", arg |-> <<c, n>>, val |-> r]
                 /\ held' = IF r = Null THEN held ELSE held \cup {r}
                 /\ UNCHANGED <<rt, proc>>

(***************************************************************************)
(* ClassField::get_parent: Class::from_ptr(mono_field_get_parent(self))    *)
(* .expect(..); the runtime always knows a field's class.                  *)
(***************************************************************************)
FieldGetParent(f) ==
    /\ out' = [op |-> "field_get_parent", arg |-> f, val |-> Parent[f]]
    /\ held' = held \cup {Parent[f]}
    /\ UNCHANGED <<rt, proc>>

(***************************************************************************)
(* Class::get_parent: Class::from_ptr(mono_class_get_parent(self)), None   *)
(* for a class that derives from nothing.                                  *)
(***************************************************************************)
\* Variant: the null pointer is wrapped without from_ptr's check.
ClassGetParentUnchecked(c) ==
    /\ out' = [op |-> "class_get_parent", arg |-> c, val |-> Super[c]]
    /\ held' = held \cup {Super[c]}
    /\ UNCHANGED <<rt, proc>>

ClassGetParent(c) ==
    /\ out' = [op |-> "class_get_parent", arg |-> c, val |-> Super[c]]
    /\ held' = IF Super[c] = Null THEN held ELSE held \cup {Super[c]}
    /\ UNCHANGED <<rt, proc>>

(***************************************************************************)
(* Class::get_nesting_type: Class::from_ptr(mono_class_get_nesting_type),  *)
(* None for a top-level type.                                              *)
(***************************************************************************)
GetNestingType(c) ==
    /\ out' = [op |-> "get_nesting_type", arg |-> c, val |-> Nest[c]]
    /\ held' = IF Nest[c] = Null THEN held ELSE held \cup {Nest[c]}
    /\ UNCHANGED <<rt, proc>>

(***************************************************************************)
(* Class::get_element_class: from_ptr(mono_class_get_element_class(self))  *)
(* .expect(..).  The runtime answers a class that is not an array with the *)
(* class itself, so the expect panics only if the answer were null.        *)
(***************************************************************************)
GetElementClass(c) ==
    IF Elem[c] = Null
    THEN Panic("get_element_class", c, {})
    ELSE /\ out' = [op |-> "get_element_class", arg |-> c, val |-> Elem[c]]
         /\ held' = held \cup {Elem[c]}
         /\ UNCHANGED <<rt, proc>>

(***************************************************************************)
(* Class::implements_interface(&self, iface): mono_class_implements_       *)
(* interface(self, iface) != 0.                                            *)
(***************************************************************************)
ImplementsInterface(c, i) ==
    /\ out' = [op |-> "implements_interface", arg |-> <<c, i>>, val |-> ImplementsAnswer(c, i)]
    /\ UNCHANGED <<rt, proc, held>>

(***************************************************************************)
(* Class::is_assignable_from(&self, other): mono_class_is_assignable_from  *)
(* (self.class_ptr, self.class_ptr) != 0 -- `other` is never passed.       *)
(***************************************************************************)
IsAssignableFrom(c, o) ==
    /\ out' = [op |-> "is_assignable_from", arg |-> <<c, o>>, val |-> AssignableAnswer(c, c)]
    /\ UNCHANGED <<rt, proc, held>>

\* After a panic or an abort the client program has ended.
Halted == proc # "running" /\ UNCHANGED vars

Next ==
    \/ /\ proc = "running"
       /\ \/ \E ns, n \in Texts :
                \/ "from_name" \in Calls /\ FromName(ns, n)
                \/ "from_name_case" \in Calls /\ FromNameCase(ns, n)
          \/ \E c \in Classes \cap held :
                \/ "class_get_name" \in Calls /\ ClassGetName(c)
                \/ "class_get_namespace" \in Calls /\ ClassGetNamespace(c)
                \/ "class_get_parent" \in Calls /\ ClassGetParent(c)
                \/ "get_nesting_type" \in Calls /\ GetNestingType(c)
                \/ "get_element_class" \in Calls /\ GetElementClass(c)
                \/ \E o \in Classes \cap held :
                      \/ "implements_interface" \in Calls /\ ImplementsInterface(c, o)
                      \/ "is_assignable_from" \in Calls /\ IsAssignableFrom(c, o)
                \/ \E n \in Texts : "get_field_from_name" \in Calls /\ GetFieldFromName(c, n)
          \/ \E f \in Fields \cap held :
                \/ "field_get_name" \in Calls /\ FieldGetName(f)
                \/ "field_get_parent" \in Calls /\ FieldGetParent(f)
    \/ Halted

Spec == Init /\ [][Next]_vars

-----------------------------------------------------------------------------
TypeOK ==
    /\ rt \in [RtStrs -> {"live", "freed"}]
    /\ proc \in {"running", "panicked", "aborted"}
    /\ out.op \in Wrappers \cup {"none"}
    /\ held \subseteq Classes \cup Fields

\* The runtime buffer a name getter reads.
NameBuf(op, x) ==
    CASE op = "class_get_name"      -> <<"class_name", x>>
      [] op = "class_get_namespace" -> <<"class_namespace", x>>
      [] op = "field_get_name"      -> <<"field_name", x>>

(***************************************************************************)
(* The wrappers never free memory the runtime owns: the names they read    *)
(* are borrowed (spec 4.3), so every runtime name buffer stays allocated   *)
(* whatever the sequence of calls, panics included.                        *)
(***************************************************************************)
NoRuntimeFree == \A s \in RtStrs : rt[s] = "live"

(***************************************************************************)
(* Every name Class::get_name or get_namespace returns is the name the     *)
(* image stores, on the first call and on every later one, whatever other  *)
(* wrappers ran in between (spec 8: lookup then get_name round-trips).     *)
(***************************************************************************)
ClassNameFaithful ==
    out.op \in {"class_get_name", "class_get_namespace"} /\ out.val # "panic"
        => out.val = Stored(NameBuf(out.op, out.arg))

(***************************************************************************)
(* Class::from_name returns a class exactly when the image holds one with  *)
(* that namespace and name, None otherwise (spec 4.4), after any calls.    *)
(* from_name_case is left out: its doc comment (line 37) calls it the case *)
(* sensitive version, while the runtime call it wraps matches up to case.  *)
(***************************************************************************)
ClassLookupSound ==
    LET q == out.arg
        Named(c) == /\ CNs[c] \in Texts /\ CName[c] \in Texts
                    /\ CNs[c] = q[1] /\ CName[c] = q[2]
    IN  out.op = "from_name" /\ out.val # "panic" =>
            IF out.val = Null THEN \A c \in Classes : ~Named(c)
                              ELSE Named(out.val)

(***************************************************************************)
(* Class::get_field_from_name returns a field of that class with that      *)
(* name exactly when the image holds one, None otherwise (spec 4.4, 8).    *)
(***************************************************************************)
FieldLookupSound ==
    LET q == out.arg
        FieldNamed(f) == Parent[f] = q[1] /\ FName[f] = q[2]
    IN  out.op = "get_field_from_name" /\ out.val # "panic" =>
            IF out.val = Null THEN \A f \in Fields : ~FieldNamed(f)
                              ELSE FieldNamed(out.val)

(***************************************************************************)
(* Whatever the client calls, the only runtime memory the wrappers free is *)
(* field names (through ClassField::get_name): class names and namespaces  *)
(* stay intact, so class lookups stay sound.                               *)
(***************************************************************************)
FreedOnlyFieldNames == \A s \in RtStrs : rt[s] = "freed" => s[1] = "field_name"

(***************************************************************************)
(* is_assignable_from answers the question its doc comment (line 139)      *)
(* states: whether an `other` can be assigned to `self`, as the runtime's  *)
(* type system says of the two classes given (spec 4.4, 8).               *)
(***************************************************************************)
AssignableSound ==
    out.op = "is_assignable_from" => out.val = AssignableAnswer(out.arg[1], out.arg[2])

(***************************************************************************)
(* No name marshaling crashes the program: bytes that are not UTF-8 and   *)
(* a &str with an interior NUL are reported to the caller (spec 4.3, 7).   *)
(***************************************************************************)
NoPanic == proc = "running"

=============================================================================
