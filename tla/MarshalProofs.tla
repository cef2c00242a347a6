---------------------------- MODULE MarshalProofs ----------------------------
(***************************************************************************)
(* Proofs about Marshal, for every image (any classes, fields, names and   *)
(* hierarchy), every panic strategy and every set of wrappers called,      *)
(* on images whose class names and namespaces are UTF-8.                  *)
(***************************************************************************)
EXTENDS Marshal, TLAPS

\* The image's class names and namespaces are UTF-8 (field names need not be).
ClassNamesUTF8 == \A c \in Classes : CName[c] # BadBytes /\ CNs[c] # BadBytes

(***************************************************************************)
(* The inductive invariant.  ClassLookupSound alone is not inductive: a    *)
(* lookup compares the query with what the class buffers read, which is   *)
(* the image's names only while they are not freed.  FreedOnlyFieldNames *)
(* keeps them allocated: with UTF-8 class names Class::get_name never      *)
(* panics inside its from_raw/into_raw window.                            *)
(***************************************************************************)
IInv == TypeOK /\ FreedOnlyFieldNames /\ ClassLookupSound

USE StringsAssumption, MetadataAssumption, BuildAssumption

\* A class's name buffers, while FreedOnlyFieldNames holds, read as stored.
LEMMA ClassBufsRead ==
    ASSUME TypeOK, FreedOnlyFieldNames, NEW c \in Classes
    PROVE  /\ Readable(<<"class_name", c>>) = {CName[c]}
           /\ Readable(<<"class_namespace", c>>) = {CNs[c]}
<1>1. /\ <<"class_name", c>> \in RtStrs
      /\ <<"class_namespace", c>> \in RtStrs
      BY DEF RtStrs
<1>2. /\ rt[<<"class_name", c>>] = "live"
      /\ rt[<<"class_namespace", c>>] = "live"
      BY <1>1 DEF TypeOK, FreedOnlyFieldNames
<1>3. /\ Stored(<<"class_name", c>>) = CName[c]
      /\ Stored(<<"class_namespace", c>>) = CNs[c]
      BY DEF Stored
<1>. QED  BY <1>2, <1>3 DEF Readable

\* With live class buffers, the runtime's lookups compare the stored names.
LEMMA MatchesStored ==
    ASSUME TypeOK, FreedOnlyFieldNames, NEW c \in Classes, NEW q
    PROVE  /\ Matches(<<"class_name", c>>, q, Exact) <=> CName[c] \in Texts /\ CName[c] = q
           /\ Matches(<<"class_namespace", c>>, q, Exact) <=> CNs[c] \in Texts /\ CNs[c] = q
BY ClassBufsRead DEF Matches, Exact

\* At start no buffer is freed and no lookup has returned.
LEMMA InitIInv == Init => IInv
BY DEF Init, IInv, TypeOK, FreedOnlyFieldNames, ClassLookupSound, Wrappers

\* A panic whose unwinding frees at most field names keeps the invariant.
LEMMA PanicStep ==
    ASSUME IInv, NEW op \in Wrappers, NEW arg,
           NEW owned \in SUBSET {s \in RtStrs : s[1] = "field_name"},
           Panic(op, arg, owned)
    PROVE  IInv'
BY DEF Panic, IInv, TypeOK, FreedOnlyFieldNames, ClassLookupSound

\* A step that leaves the buffers alone and reports a non-lookup call.
LEMMA QueryStep ==
    ASSUME IInv, NEW op \in Wrappers \ {"from_name"}, NEW arg, NEW v,
           out' = [op |-> op, arg |-> arg, val |-> v],
           held' \subseteq Classes \cup Fields,
           UNCHANGED <<rt, proc>>
    PROVE  IInv'
BY DEF IInv, TypeOK, FreedOnlyFieldNames, ClassLookupSound

\* Class::from_name answers from the stored names.
LEMMA FromNameStep ==
    ASSUME IInv, NEW ns \in Texts, NEW n \in Texts, FromName(ns, n)
    PROVE  IInv'
<1>1. CASE ns \in NulTexts \/ n \in NulTexts
      BY <1>1, PanicStep DEF FromName, Lookup, Wrappers
<1>2. CASE ~(ns \in NulTexts \/ n \in NulTexts)
      <2>. DEFINE Hit(c) == /\ Matches(<<"class_namespace", c>>, ns, Exact)
                            /\ Matches(<<"class_name", c>>, n, Exact)
                  Named(c) == /\ CNs[c] \in Texts /\ CName[c] \in Texts
                              /\ CNs[c] = ns /\ CName[c] = n
      <2>1. \A c \in Classes : Hit(c) <=> Named(c)
            BY MatchesStored DEF IInv
      <2>2. PICK r \in {c \in Classes : Hit(c)} \cup {Null} :
               /\ r = Null => \A c \in Classes : ~Hit(c)
               /\ out' = [op |-> "from_name", arg |-> <<ns, n>>, val |-> r]
               /\ held' = IF r = Null THEN held ELSE held \cup {r}
               /\ UNCHANGED <<rt, proc>>
            BY <1>2 DEF FromName, Lookup
      <2>3. ClassLookupSound'
            BY <2>1, <2>2 DEF ClassLookupSound
      <2>. QED  BY <2>2, <2>3 DEF IInv, TypeOK, FreedOnlyFieldNames, Wrappers
<1>. QED  BY <1>1, <1>2

\* Class::from_name_case reports under its own name: ClassLookupSound is
\* not about it.
LEMMA FromNameCaseStep ==
    ASSUME IInv, NEW ns \in Texts, NEW n \in Texts, FromNameCase(ns, n)
    PROVE  IInv'
<1>1. CASE ns \in NulTexts \/ n \in NulTexts
      BY <1>1, PanicStep DEF FromNameCase, Lookup, Wrappers
<1>2. CASE ~(ns \in NulTexts \/ n \in NulTexts)
      <2>1. PICK r \in Classes \cup {Null} :
               /\ out' = [op |-> "from_name_case", arg |-> <<ns, n>>, val |-> r]
               /\ held' = IF r = Null THEN held ELSE held \cup {r}
               /\ UNCHANGED <<rt, proc>>
            BY <1>2 DEF FromNameCase, Lookup
      <2>2. held' \subseteq Classes \cup Fields
            BY <2>1 DEF IInv, TypeOK
      <2>. QED  BY <2>1, <2>2, QueryStep DEF Wrappers
<1>. QED  BY <1>1, <1>2

\* Class::get_name and get_namespace read a live UTF-8 buffer: no panic,
\* nothing freed.
LEMMA BorrowNameStep ==
    ASSUME IInv, ClassNamesUTF8, NEW c \in Classes,
           NEW op \in {"class_get_name", "class_get_namespace"},
           NEW s \in {<<"class_name", c>>, <<"class_namespace", c>>},
           BorrowName(op, c, s)
    PROVE  IInv'
<1>1. Readable(s) = {CName[c]} \/ Readable(s) = {CNs[c]}
      BY ClassBufsRead DEF IInv
<1>2. BadBytes \notin Readable(s)
      BY <1>1 DEF ClassNamesUTF8
<1>3. PICK v \in Readable(s) :
         /\ out' = [op |-> op, arg |-> c, val |-> v]
         /\ UNCHANGED <<rt, proc, held>>
      BY <1>2 DEF BorrowName
<1>4. held' \subseteq Classes \cup Fields
      BY <1>3 DEF IInv, TypeOK
<1>. QED  BY <1>3, <1>4, QueryStep DEF Wrappers

\* ClassField::get_name frees a field name at most, whether or not it panics.
LEMMA FieldGetNameStep ==
    ASSUME IInv, NEW f \in Fields, FieldGetName(f)
    PROVE  IInv'
<1>. DEFINE s == <<"field_name", f>>
<1>1. s \in {x \in RtStrs : x[1] = "field_name"}
      BY DEF RtStrs
<1>2. PICK v \in Readable(s) :
         IF v # BadBytes
         THEN /\ out' = [op |-> "field_get_name", arg |-> f, val |-> v]
              /\ rt' = [rt EXCEPT ![s] = "freed"]
              /\ UNCHANGED <<proc, held>>
         ELSE Panic("field_get_name", f, {s})
      BY DEF FieldGetName
<1>3. CASE v # BadBytes
      BY <1>1, <1>2, <1>3 DEF IInv, TypeOK, FreedOnlyFieldNames, ClassLookupSound, Wrappers
<1>4. CASE v = BadBytes
      BY <1>1, <1>2, <1>4, PanicStep DEF Wrappers
<1>. QED  BY <1>3, <1>4

(***************************************************************************)
(* Every step keeps IInv: one step per wrapper of Next, each either a      *)
(* lookup (answered from live class buffers), a name getter (frees at most *)
(* a field name), or a query that touches no buffer.                       *)
(***************************************************************************)
LEMMA StepIInv ==
    ASSUME ClassNamesUTF8
    PROVE  IInv /\ [Next]_vars => IInv'
<1> SUFFICES ASSUME IInv, [Next]_vars PROVE IInv'
    OBVIOUS
<1>1. ASSUME NEW ns \in Texts, NEW n \in Texts, FromName(ns, n) PROVE IInv'
      BY <1>1, FromNameStep
<1>2. ASSUME NEW ns \in Texts, NEW n \in Texts, FromNameCase(ns, n) PROVE IInv'
      BY <1>2, FromNameCaseStep
<1>3. ASSUME NEW c \in Classes, ClassGetName(c) PROVE IInv'
      BY <1>3, BorrowNameStep DEF ClassGetName
<1>4. ASSUME NEW c \in Classes, ClassGetNamespace(c) PROVE IInv'
      BY <1>4, BorrowNameStep DEF ClassGetNamespace
<1>5. ASSUME NEW c \in Classes, ClassGetParent(c) PROVE IInv'
      BY <1>5, QueryStep DEF ClassGetParent, IInv, TypeOK, Wrappers
<1>6. ASSUME NEW c \in Classes, GetNestingType(c) PROVE IInv'
      BY <1>6, QueryStep DEF GetNestingType, IInv, TypeOK, Wrappers
<1>7. ASSUME NEW c \in Classes, GetElementClass(c) PROVE IInv'
      <2>1. CASE Elem[c] = Null
            BY <1>7, <2>1, PanicStep DEF GetElementClass, Wrappers
      <2>2. CASE Elem[c] # Null
            BY <1>7, <2>2, QueryStep DEF GetElementClass, IInv, TypeOK, Wrappers
      <2>. QED  BY <2>1, <2>2
<1>8. ASSUME NEW c \in Classes, NEW o \in Classes,
             ImplementsInterface(c, o) \/ IsAssignableFrom(c, o)
      PROVE  IInv'
      BY <1>8, QueryStep DEF ImplementsInterface, IsAssignableFrom, IInv, TypeOK, Wrappers
<1>9. ASSUME NEW c \in Classes, NEW n \in Texts, GetFieldFromName(c, n) PROVE IInv'
      <2>1. CASE n \in NulTexts
            BY <1>9, <2>1, PanicStep DEF GetFieldFromName, Wrappers
      <2>2. CASE n \notin NulTexts
            BY <1>9, <2>2, QueryStep DEF GetFieldFromName, IInv, TypeOK, Wrappers
      <2>. QED  BY <2>1, <2>2
<1>10. ASSUME NEW f \in Fields, FieldGetName(f) PROVE IInv'
       BY <1>10, FieldGetNameStep
<1>11. ASSUME NEW f \in Fields, FieldGetParent(f) PROVE IInv'
       BY <1>11, QueryStep DEF FieldGetParent, IInv, TypeOK, Wrappers
<1>12. CASE Halted \/ UNCHANGED vars
       BY <1>12 DEF Halted, vars, IInv, TypeOK, FreedOnlyFieldNames, ClassLookupSound
<1>. QED  BY <1>1, <1>2, <1>3, <1>4, <1>5, <1>6, <1>7, <1>8, <1>9, <1>10, <1>11, <1>12
          DEF Next

(***************************************************************************)
(* On an image whose class names are UTF-8, whatever wrappers the client  *)
(* calls and whatever the panic strategy, the only runtime memory the     *)
(* wrappers free is field names (FreedOnlyFieldNames, checked by          *)
(* marshal_class): Class::get_name and get_namespace never free a class   *)
(* buffer.                                                                *)
(***************************************************************************)
THEOREM ClassBuffersKept ==
    ASSUME ClassNamesUTF8
    PROVE  Spec => []FreedOnlyFieldNames
<1>1. Init => IInv
      BY InitIInv
<1>2. IInv /\ [Next]_vars => IInv'
      BY StepIInv
<1>3. IInv => FreedOnlyFieldNames
      BY DEF IInv
<1>. QED  BY <1>1, <1>2, <1>3, PTL DEF Spec

(***************************************************************************)
(* On such an image Class::from_name returns a class exactly when the     *)
(* image holds one with that namespace and name, compared byte for byte,  *)
(* and None otherwise, after any calls, ClassField::get_name's frees      *)
(* included (ClassLookupSound, checked by marshal_class).                 *)
(***************************************************************************)
THEOREM LookupSound ==
    ASSUME ClassNamesUTF8
    PROVE  Spec => []ClassLookupSound
<1>1. Init => IInv
      BY InitIInv
<1>2. IInv /\ [Next]_vars => IInv'
      BY StepIInv
<1>3. IInv => ClassLookupSound
      BY DEF IInv
<1>. QED  BY <1>1, <1>2, <1>3, PTL DEF Spec

-----------------------------------------------------------------------------
(***************************************************************************)
(* Types, on every image: no assumption on the names.  A panic marks       *)
(* buffers freed and the process ended; every handle a wrapper gives the   *)
(* client is a class or a field pointer, never Null (from_ptr's check).    *)
(***************************************************************************)
LEMMA PanicType ==
    ASSUME TypeOK, NEW op \in Wrappers, NEW arg, NEW owned, Panic(op, arg, owned)
    PROVE  TypeOK'
BY DEF Panic, TypeOK

\* A wrapper that reports itself, leaves the buffers alone and hands out
\* class or field pointers.
LEMMA ReportType ==
    ASSUME TypeOK, NEW op \in Wrappers, NEW arg, NEW v,
           out' = [op |-> op, arg |-> arg, val |-> v],
           held' \subseteq held \cup Classes \cup Fields,
           UNCHANGED <<rt, proc>>
    PROVE  TypeOK'
BY DEF TypeOK

LEMMA TypeStep == TypeOK /\ [Next]_vars => TypeOK'
<1> SUFFICES ASSUME TypeOK, [Next]_vars PROVE TypeOK'
    OBVIOUS
<1>1. ASSUME NEW ns \in Texts, NEW n \in Texts,
             NEW op \in {"from_name", "from_name_case"},
             NEW eq(_, _),
             Lookup(op, ns, n, ns, n, eq)
      PROVE  TypeOK'
      <2>1. CASE ns \in NulTexts \/ n \in NulTexts
            BY <1>1, <2>1, PanicType DEF Lookup, Wrappers
      <2>2. CASE ~(ns \in NulTexts \/ n \in NulTexts)
            <3>1. PICK r \in Classes \cup {Null} :
                     /\ out' = [op |-> op, arg |-> <<ns, n>>, val |-> r]
                     /\ held' = IF r = Null THEN held ELSE held \cup {r}
                     /\ UNCHANGED <<rt, proc>>
                  BY <1>1, <2>2 DEF Lookup
            <3>2. held' \subseteq held \cup Classes \cup Fields
                  BY <3>1
            <3>. QED  BY <3>1, <3>2, ReportType DEF Wrappers
      <2>. QED  BY <2>1, <2>2
<1>2. ASSUME NEW c \in Classes,
             NEW op \in {"class_get_name", "class_get_namespace"},
             NEW b \in RtStrs, BorrowName(op, c, b)
      PROVE  TypeOK'
      <2>1. PICK v \in Readable(b) :
               IF v # BadBytes
               THEN /\ out' = [op |-> op, arg |-> c, val |-> v]
                    /\ UNCHANGED <<rt, proc, held>>
               ELSE Panic(op, c, {b})
            BY <1>2 DEF BorrowName
      <2>2. CASE v # BadBytes
            BY <2>1, <2>2, ReportType DEF Wrappers
      <2>3. CASE v = BadBytes
            BY <2>1, <2>3, PanicType DEF Wrappers
      <2>. QED  BY <2>2, <2>3
<1>3. ASSUME NEW f \in Fields, FieldGetName(f) PROVE TypeOK'
      <2>. DEFINE b == <<"field_name", f>>
      <2>1. b \in RtStrs
            BY DEF RtStrs
      <2>2. PICK v \in Readable(b) :
               IF v # BadBytes
               THEN /\ out' = [op |-> "field_get_name", arg |-> f, val |-> v]
                    /\ rt' = [rt EXCEPT ![b] = "freed"]
                    /\ UNCHANGED <<proc, held>>
               ELSE Panic("field_get_name", f, {b})
            BY <1>3 DEF FieldGetName
      <2>. QED  BY <2>1, <2>2, PanicType DEF TypeOK, Wrappers
<1>4. ASSUME NEW c \in Classes, NEW n \in Texts, GetFieldFromName(c, n) PROVE TypeOK'
      <2>1. CASE n \in NulTexts
            BY <1>4, <2>1, PanicType DEF GetFieldFromName, Wrappers
      <2>2. CASE n \notin NulTexts
            <3>1. PICK r \in Fields \cup {Null} :
                     /\ out' = [op |-> "get_field_from_name", arg |-> <<c, n>>, val |-> r]
                     /\ held' = IF r = Null THEN held ELSE held \cup {r}
                     /\ UNCHANGED <<rt, proc>>
                  BY <1>4, <2>2 DEF GetFieldFromName
            <3>2. held' \subseteq held \cup Classes \cup Fields
                  BY <3>1
            <3>. QED  BY <3>1, <3>2, ReportType DEF Wrappers
      <2>. QED  BY <2>1, <2>2
<1>5. ASSUME NEW c \in Classes,
             \/ ClassGetParent(c) \/ GetNestingType(c) \/ GetElementClass(c)
             \/ \E o \in Classes : ImplementsInterface(c, o) \/ IsAssignableFrom(c, o)
      PROVE  TypeOK'
      <2>1. CASE ClassGetParent(c) \/ GetNestingType(c)
            <3>1. held' \subseteq held \cup Classes \cup Fields
                  BY <2>1 DEF ClassGetParent, GetNestingType
            <3>. QED  BY <2>1, <3>1, ReportType DEF ClassGetParent, GetNestingType, Wrappers
      <2>2. CASE GetElementClass(c) /\ Elem[c] = Null
            BY <2>2, PanicType DEF GetElementClass, Wrappers
      <2>3. CASE GetElementClass(c) /\ Elem[c] # Null
            BY <2>3, ReportType DEF GetElementClass, Wrappers
      <2>4. CASE \E o \in Classes : ImplementsInterface(c, o) \/ IsAssignableFrom(c, o)
            BY <2>4, ReportType DEF ImplementsInterface, IsAssignableFrom, Wrappers
      <2>. QED  BY <1>5, <2>1, <2>2, <2>3, <2>4
<1>6. ASSUME NEW f \in Fields, FieldGetParent(f) PROVE TypeOK'
      BY <1>6, ReportType DEF FieldGetParent, Wrappers
<1>7. CASE Halted \/ UNCHANGED vars
      BY <1>7 DEF Halted, vars, TypeOK
<1>. QED  BY <1>1, <1>2, <1>3, <1>4, <1>5, <1>6, <1>7
          DEF Next, FromName, FromNameCase, ClassGetName, ClassGetNamespace, RtStrs

(***************************************************************************)
(* Every state the wrappers reach is well typed, on any image, whatever    *)
(* names it holds: the client only ever holds class and field pointers.   *)
(***************************************************************************)
THEOREM TypeCorrect == Spec => []TypeOK
<1>1. Init => TypeOK
      BY DEF Init, TypeOK, RtStrs
<1>. QED  BY <1>1, TypeStep, PTL DEF Spec

-----------------------------------------------------------------------------
(***************************************************************************)
(* Names round-trip.  ClassNameFaithful alone is inductive only together   *)
(* with IInv: Class::get_name reads its buffer as stored because no class  *)
(* buffer is ever freed (FreedOnlyFieldNames), which needs UTF-8 class     *)
(* names.                                                                  *)
(***************************************************************************)

\* A step that reports another wrapper says nothing about class names.
LEMMA OtherOpFaithful ==
    ASSUME NEW op, op \notin {"class_get_name", "class_get_namespace"}, out'.op = op
    PROVE  ClassNameFaithful'
BY DEF ClassNameFaithful

\* Every wrapper but the two class-name getters reports itself, panic or not.
LEMMA ReportsItself ==
    ASSUME NEW op, NEW arg, NEW owned, NEW v,
           \/ Panic(op, arg, owned)
           \/ out' = [op |-> op, arg |-> arg, val |-> v]
    PROVE  out'.op = op
BY DEF Panic

LEMMA NameStep ==
    ASSUME ClassNamesUTF8, IInv, ClassNameFaithful, [Next]_vars
    PROVE  ClassNameFaithful'
<1>1. ASSUME NEW ns \in Texts, NEW n \in Texts,
             NEW op \in {"from_name", "from_name_case"},
             NEW eq(_, _),
             Lookup(op, ns, n, ns, n, eq)
      PROVE  ClassNameFaithful'
      <2>1. out'.op = op
            BY <1>1, ReportsItself DEF Lookup
      <2>. QED  BY <2>1, OtherOpFaithful
<1>2. ASSUME NEW c \in Classes, NEW op \in {"class_get_name", "class_get_namespace"},
             BorrowName(op, c, NameBuf(op, c))
      PROVE  ClassNameFaithful'
      <2>. DEFINE b == NameBuf(op, c)
      <2>1. b \in {<<"class_name", c>>, <<"class_namespace", c>>}
            BY DEF NameBuf
      <2>2. Readable(b) = {Stored(b)} /\ Stored(b) # BadBytes
            <3>1. CASE b = <<"class_name", c>>
                  <4>1. Stored(b) = CName[c]
                        BY <3>1 DEF Stored
                  <4>. QED  BY <3>1, <4>1, ClassBufsRead DEF IInv, ClassNamesUTF8
            <3>2. CASE b = <<"class_namespace", c>>
                  <4>1. Stored(b) = CNs[c]
                        BY <3>2 DEF Stored
                  <4>. QED  BY <3>2, <4>1, ClassBufsRead DEF IInv, ClassNamesUTF8
            <3>. QED  BY <2>1, <3>1, <3>2
      <2>3. out' = [op |-> op, arg |-> c, val |-> Stored(b)]
            BY <1>2, <2>2 DEF BorrowName
      <2>. QED  BY <2>2, <2>3 DEF ClassNameFaithful
<1>3. ASSUME NEW f \in Fields, FieldGetName(f) PROVE ClassNameFaithful'
      <2>1. out'.op = "field_get_name"
            BY <1>3, ReportsItself DEF FieldGetName
      <2>. QED  BY <2>1, OtherOpFaithful
<1>4. ASSUME NEW c \in Classes, NEW n \in Texts, GetFieldFromName(c, n)
      PROVE  ClassNameFaithful'
      <2>1. out'.op = "get_field_from_name"
            BY <1>4, ReportsItself DEF GetFieldFromName
      <2>. QED  BY <2>1, OtherOpFaithful
<1>5. ASSUME NEW c \in Classes,
             \/ ClassGetParent(c) \/ GetNestingType(c) \/ GetElementClass(c)
             \/ \E o \in Classes : ImplementsInterface(c, o) \/ IsAssignableFrom(c, o)
      PROVE  ClassNameFaithful'
      <2>1. out'.op \in {"class_get_parent", "get_nesting_type", "get_element_class",
                         "implements_interface", "is_assignable_from"}
            BY <1>5, ReportsItself
            DEF ClassGetParent, GetNestingType, GetElementClass, ImplementsInterface,
                IsAssignableFrom
      <2>. QED  BY <2>1, OtherOpFaithful
<1>6. ASSUME NEW f \in Fields, FieldGetParent(f) PROVE ClassNameFaithful'
      BY <1>6, OtherOpFaithful DEF FieldGetParent
<1>7. CASE Halted \/ UNCHANGED vars
      BY <1>7 DEF Halted, vars, ClassNameFaithful
<1>8. ASSUME NEW c \in Classes, ClassGetName(c) \/ ClassGetNamespace(c)
      PROVE  ClassNameFaithful'
      BY <1>8, <1>2 DEF ClassGetName, ClassGetNamespace, NameBuf
<1>. QED  BY <1>1, <1>3, <1>4, <1>5, <1>6, <1>7, <1>8
          DEF Next, FromName, FromNameCase

(***************************************************************************)
(* On an image whose class names are UTF-8, every name Class::get_name or  *)
(* get_namespace returns is the one the image stores, on every call after  *)
(* any others (ClassNameFaithful, checked by marshal_class): the into_raw  *)
(* after the copy keeps the buffer for the next call.                     *)
(***************************************************************************)
THEOREM NamesRoundTrip ==
    ASSUME ClassNamesUTF8
    PROVE  Spec => []ClassNameFaithful
<1>1. Init => IInv /\ ClassNameFaithful
      BY InitIInv DEF Init, ClassNameFaithful
<1>2. IInv /\ ClassNameFaithful /\ [Next]_vars => IInv' /\ ClassNameFaithful'
      BY StepIInv, NameStep
<1>. QED  BY <1>1, <1>2, PTL DEF Spec
=============================================================================
