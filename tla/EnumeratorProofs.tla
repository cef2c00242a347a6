-------------------------- MODULE EnumeratorProofs --------------------------
(***************************************************************************)
(* Proofs about the enumerator bridge (Enumerator.tla): the wrappers keep  *)
(* their types, and a returned Vec is the runtime's whole collection, for  *)
(* every number of threads, classes and every metadata table.             *)
(***************************************************************************)
EXTENDS Enumerator, SequenceTheorems, TLAPS

(***************************************************************************)
(* Appending the item after a prefix extends the prefix by one.           *)
(***************************************************************************)
LEMMA AppendPrefix ==
    ASSUME NEW S, NEW s \in Seq(S), NEW n \in 0 .. Len(s) - 1
    PROVE  Append(SubSeq(s, 1, n), s[n + 1]) = SubSeq(s, 1, n + 1)
<1>1. SubSeq(s, 1, n + 1) = SubSeq(s, 1, n) \o << s[n + 1] >>
    BY SubSeqRecursiveSecond
<1>2. SubSeq(s, 1, n) \in Seq(S)
    BY SubSeqProperties
<1>3. Append(SubSeq(s, 1, n), s[n + 1]) = SubSeq(s, 1, n) \o << s[n + 1] >>
    BY <1>2, AppendIsConcat
<1>4. QED
    BY <1>1, <1>3

\* The table a thread walks is a sequence of non-null pointers.
LEMMA TableType ==
    ASSUME TypeOK, NEW t \in Threads
    PROVE  Table(t) \in Seq(Items)
BY MetaAssumption DEF TypeOK, Table

\* A non-null answer of the runtime is an item that lies before the end.
LEMMA NextPtrSome ==
    ASSUME NEW tbl \in Seq(Items), NEW cur \in Nat, IsSome(NextPtr(tbl, cur))
    PROVE  /\ cur < Len(tbl)
           /\ NextPtr(tbl, cur) = tbl[cur + 1]
           /\ NextPtr(tbl, cur) \in Items
           /\ NextCursor(tbl, cur) = cur + 1
BY NullAssumption DEF IsSome, NextPtr, NextCursor

\* A null answer means the cursor is at or past the end, and stays there.
LEMMA NextPtrNone ==
    ASSUME NEW tbl \in Seq(Items), NEW cur \in Nat, ~IsSome(NextPtr(tbl, cur))
    PROVE  /\ cur >= Len(tbl)
           /\ NextCursor(tbl, cur) = cur
BY NullAssumption DEF IsSome, NextPtr, NextCursor

(***************************************************************************)
(* The wrappers keep every variable in its type.                          *)
(***************************************************************************)
LEMMA TypeInit == Init => TypeOK
BY DEF Init, TypeOK

LEMMA TypeStep == TypeOK /\ [Next]_vars => TypeOK'
<1> SUFFICES ASSUME TypeOK, [Next]_vars PROVE TypeOK'
    OBVIOUS
<1>1. ASSUME NEW t \in Threads, NEW c \in Classes, NEW k \in Kinds,
             Start(t, c, k)
      PROVE  TypeOK'
    BY <1>1 DEF Start, TypeOK
<1>2. ASSUME NEW t \in Threads, IterateItem(t) PROVE TypeOK'
    <2>1. /\ gptr[t] \in Nat
          /\ Table(t) \in Seq(Items)
        BY TableType DEF TypeOK
    <2>2. /\ NextPtr(Table(t), gptr[t]) \in Items
          /\ NextCursor(Table(t), gptr[t]) \in Nat
        BY <1>2, <2>1, NextPtrSome DEF IterateItem
    <2>3. QED
        BY <1>2, <2>2 DEF IterateItem, TypeOK
<1>3. ASSUME NEW t \in Threads, IterateEnd(t) PROVE TypeOK'
    <2>1. NextCursor(Table(t), gptr[t]) = gptr[t]
        BY <1>3, TableType, NextPtrNone DEF IterateEnd, TypeOK
    <2>2. QED
        BY <1>3, <2>1 DEF IterateEnd, TypeOK
<1>4. CASE UNCHANGED vars
    BY <1>4 DEF vars, TypeOK
<1>5. QED
    BY <1>1, <1>2, <1>3, <1>4
    DEF Next, Iterate, GetFields, GetMethods, GetNestedTypes, GetInterfaces, Kinds

\* Every state of the wrappers is well typed.
THEOREM TypeCorrect == Spec => []TypeOK
BY TypeInit, TypeStep, PTL DEF Spec

(***************************************************************************)
(* The inductive invariant: the types, and each thread's Vec is the prefix *)
(* of its table up to the cursor, the whole table once the loop has ended. *)
(***************************************************************************)
IInv == TypeOK /\ EnumPrefix

LEMMA InitIInv == Init => IInv
<1> SUFFICES ASSUME Init PROVE IInv
    OBVIOUS
<1>1. TypeOK
    BY TypeInit
<1>2. EnumPrefix
    BY DEF Init, EnumPrefix
<1>3. QED
    BY <1>1, <1>2 DEF IInv

LEMMA NextIInv == IInv /\ [Next]_vars => IInv'
<1> SUFFICES ASSUME IInv, [Next]_vars PROVE IInv'
    OBVIOUS
<1>0. TypeOK'
    BY TypeStep DEF IInv
<1> DEFINE Inv1(u) ==
        /\ pc[u] \in {"loop", "done"} => /\ gptr[u] <= Len(Table(u))
                                         /\ res[u] = SubSeq(Table(u), 1, gptr[u])
        /\ pc[u] = "done" => gptr[u] = Len(Table(u))
<1>a. \A u \in Threads : Inv1(u)
    BY DEF IInv, EnumPrefix
<1> SUFFICES \A u \in Threads : Inv1(u)'
    BY <1>0 DEF IInv, EnumPrefix
<1>1. ASSUME NEW t \in Threads, NEW c \in Classes, NEW k \in Kinds,
             Start(t, c, k)
      PROVE  \A u \in Threads : Inv1(u)'
    <2>1. Table(t)' = Meta[c][k] /\ Meta[c][k] \in Seq(Items)
        BY <1>1, MetaAssumption DEF Start, Table, IInv, TypeOK
    <2>2. SubSeq(Meta[c][k], 1, 0) = << >>
        BY SubSeqEmpty
    <2>3. Inv1(t)'
        BY <1>1, <2>1, <2>2 DEF Start, IInv, TypeOK
    <2>4. ASSUME NEW u \in Threads, u # t PROVE Inv1(u)'
        BY <1>1, <1>a, <2>4 DEF Start, Table, IInv, TypeOK
    <2>5. QED
        BY <2>3, <2>4
<1>2. ASSUME NEW t \in Threads, IterateItem(t)
      PROVE  \A u \in Threads : Inv1(u)'
    <2> DEFINE tbl == Table(t)
               g == gptr[t]
    <2>1. tbl \in Seq(Items) /\ g \in Nat
        BY TableType DEF IInv, TypeOK
    <2>2. /\ g < Len(tbl)
          /\ NextPtr(tbl, g) = tbl[g + 1]
          /\ NextCursor(tbl, g) = g + 1
        BY <1>2, <2>1, NextPtrSome DEF IterateItem
    <2>3. Table(t)' = tbl
        BY <1>2 DEF IterateItem, Table
    <2>4. res[t] = SubSeq(tbl, 1, g)
        BY <1>2, <1>a DEF IterateItem
    <2>5. Append(SubSeq(tbl, 1, g), tbl[g + 1]) = SubSeq(tbl, 1, g + 1)
        BY <2>1, <2>2, AppendPrefix
    <2>6. Inv1(t)'
        BY <1>2, <2>2, <2>3, <2>4, <2>5 DEF IterateItem, IInv, TypeOK
    <2>7. ASSUME NEW u \in Threads, u # t PROVE Inv1(u)'
        BY <1>2, <1>a, <2>7 DEF IterateItem, Table, IInv, TypeOK
    <2>8. QED
        BY <2>6, <2>7
<1>3. ASSUME NEW t \in Threads, IterateEnd(t)
      PROVE  \A u \in Threads : Inv1(u)'
    <2> DEFINE tbl == Table(t)
               g == gptr[t]
    <2>1. tbl \in Seq(Items) /\ g \in Nat
        BY TableType DEF IInv, TypeOK
    <2>2. g >= Len(tbl) /\ NextCursor(tbl, g) = g
        BY <1>3, <2>1, NextPtrNone DEF IterateEnd
    <2>3. g <= Len(tbl) /\ res[t] = SubSeq(tbl, 1, g)
        BY <1>3, <1>a DEF IterateEnd
    <2>4. Table(t)' = tbl /\ gptr'[t] = g /\ res'[t] = res[t] /\ pc'[t] = "done"
        BY <1>3, <2>2 DEF IterateEnd, Table, IInv, TypeOK
    <2>5. Inv1(t)'
        BY <2>1, <2>2, <2>3, <2>4
    <2>6. ASSUME NEW u \in Threads, u # t PROVE Inv1(u)'
        BY <1>3, <1>a, <2>6 DEF IterateEnd, Table, IInv, TypeOK
    <2>7. QED
        BY <2>5, <2>6
<1>4. CASE UNCHANGED vars
    BY <1>4, <1>a DEF vars, Table
<1>5. QED
    BY <1>1, <1>2, <1>3, <1>4
    DEF Next, Iterate, GetFields, GetMethods, GetNestedTypes, GetInterfaces, Kinds

(***************************************************************************)
(* Every Vec a collection wrapper returns is the runtime's whole           *)
(* collection in order (so its length is num_fields()/num_methods()), for  *)
(* any number of threads enumerating at once: each call has its own       *)
(* cursor.                                                                 *)
(***************************************************************************)
THEOREM Completeness == Spec => []EnumComplete
<1>1. IInv => EnumComplete
    <2> SUFFICES ASSUME IInv, NEW t \in Threads, pc[t] = "done"
                 PROVE  res[t] = Table(t)
        BY DEF EnumComplete
    <2>1. res[t] = SubSeq(Table(t), 1, Len(Table(t)))
        BY DEF IInv, EnumPrefix
    <2>2. QED
        BY <2>1, TableType, SubSeqFull DEF IInv
<1>2. QED
    BY <1>1, InitIInv, NextIInv, PTL DEF Spec

-----------------------------------------------------------------------------
(***************************************************************************)
(* Refinement of the abstract enumerator (EnumeratorAbs.tla).  A thread   *)
(* inside the while-let loop is seen as "busy" with nothing returned yet;  *)
(* the cursor is hidden.  A wrapper's entry is the abstract Call, a turn   *)
(* of the loop that gets an item is a stutter, and the turn that meets    *)
(* null is the abstract Return.                                           *)
(***************************************************************************)
pcBar == [t \in Threads |-> IF pc[t] = "loop" THEN "busy" ELSE pc[t]]

resBar == [t \in Threads |-> IF pc[t] = "loop" THEN << >> ELSE res[t]]

A == INSTANCE EnumeratorAbs WITH pc <- pcBar, res <- resBar

\* The initial states of the wrappers are initial states of the abstraction.
LEMMA RefineInit == Init => A!Init
BY DEF Init, A!Init, Kinds, A!Kinds, pcBar, resBar

\* Every step of the wrappers is a step of the abstraction or a stutter.
LEMMA RefineStep == IInv /\ [Next]_vars => [A!Next]_A!vars
<1> SUFFICES ASSUME IInv, [Next]_vars PROVE [A!Next]_A!vars
    OBVIOUS
<1> USE DEF IInv, TypeOK
<1>1. ASSUME NEW t \in Threads, NEW c \in Classes, NEW k \in Kinds,
             Start(t, c, k)
      PROVE  A!Call(t, c, k)
    <2>1. pcBar[t] \in {"idle", "done"}
        BY <1>1 DEF Start, pcBar
    <2>2. pcBar' = [pcBar EXCEPT ![t] = "busy"]
        BY <1>1 DEF Start, pcBar
    <2>3. resBar' = [resBar EXCEPT ![t] = << >>]
        BY <1>1 DEF Start, resBar
    <2>4. QED
        BY <1>1, <2>1, <2>2, <2>3 DEF Start, A!Call
<1>2. ASSUME NEW t \in Threads, IterateItem(t)
      PROVE  UNCHANGED A!vars
    <2>1. pcBar' = pcBar /\ resBar' = resBar
        BY <1>2 DEF IterateItem, pcBar, resBar
    <2>2. QED
        BY <1>2, <2>1 DEF IterateItem, A!vars
<1>3. ASSUME NEW t \in Threads, IterateEnd(t)
      PROVE  A!Return(t)
    <2>1. Table(t) \in Seq(Items) /\ gptr[t] \in Nat
        BY TableType
    <2>2. gptr[t] >= Len(Table(t))
        BY <1>3, <2>1, NextPtrNone DEF IterateEnd
    <2>3. res[t] = Table(t)
        <3>1. gptr[t] <= Len(Table(t)) /\ res[t] = SubSeq(Table(t), 1, gptr[t])
            BY <1>3 DEF IterateEnd, EnumPrefix
        <3>2. QED
            BY <2>1, <2>2, <3>1, SubSeqFull
    <2>4. pcBar[t] = "busy" /\ pcBar' = [pcBar EXCEPT ![t] = "done"]
        BY <1>3 DEF IterateEnd, pcBar
    <2>5. resBar' = [resBar EXCEPT ![t] = Meta[cls[t]][kind[t]]]
        BY <1>3, <2>3 DEF IterateEnd, resBar, Table
    <2>6. QED
        BY <1>3, <2>4, <2>5 DEF IterateEnd, A!Return
<1>4. CASE UNCHANGED vars
    BY <1>4 DEF vars, A!vars, pcBar, resBar
<1>5. QED
    BY <1>1, <1>2, <1>3, <1>4
    DEF Next, Iterate, GetFields, GetMethods, GetNestedTypes, GetInterfaces,
        Kinds, A!Next, A!Kinds

(***************************************************************************)
(* The safety part of the refinement: every behaviour of the wrappers,    *)
(* with the cursor hidden, is a behaviour of the abstract enumerator in   *)
(* which each call returns the whole collection in one step.  (That every *)
(* call returns, the fairness of AbsSpec, is checked by TLC.)             *)
(***************************************************************************)
THEOREM Refinement == Spec => A!Init /\ [][A!Next]_A!vars
<1>1. Spec => []IInv
    BY InitIInv, NextIInv, PTL DEF Spec
<1>2. QED
    BY <1>1, RefineInit, RefineStep, PTL DEF Spec

=============================================================================
