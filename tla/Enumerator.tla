----------------------------- MODULE Enumerator -----------------------------
(***************************************************************************)
(* The enumerator bridge of src/src/class.rs: Class::get_fields,           *)
(* get_methods, get_nested_types and get_interfaces.  Each wrapper seeds a *)
(* local cursor `gptr` with null, then calls the runtime's                  *)
(* mono_class_get_<kind>(class, &gptr) until it returns null, wrapping     *)
(* every non-null pointer with from_ptr and pushing it onto a Vec.        *)
(*                                                                         *)
(* Several native threads may call the wrappers at once (spec, section 5); *)
(* the runtime's metadata tables are fixed once the class is loaded, so    *)
(* they are a constant.  The runtime's get-next call is not code of this   *)
(* repository: it is modelled by the contract the spec gives it (4.2).     *)
(***************************************************************************)
EXTENDS Naturals, Sequences

CONSTANTS
    Threads,    \* native threads calling the wrappers
    Classes,    \* MonoClass pointers held by the callers
    Items,      \* the non-null pointers the runtime hands out
    Null,       \* the null pointer
    Meta        \* Meta[c][k]: the runtime's table of kind k of class c

\* The four collections a class exposes through a cursor.
Kinds == {"fields", "methods", "nested", "interfaces"}

ASSUME NullAssumption == Null \notin Items
ASSUME MetaAssumption == Meta \in [Classes -> [Kinds -> Seq(Items)]]

VARIABLES
    pc,     \* pc[t]: "idle", "loop" (inside the while-let) or "done" (returned)
    cls,    \* cls[t]: the class `self` of t's current call
    kind,   \* kind[t]: which of the four wrappers t is running
    gptr,   \* gptr[t]: t's local cursor; 0 is the null seed
    res     \* res[t]: the Vec t is building, and returns

vars == <<pc, cls, kind, gptr, res>>

(***************************************************************************)
(* The runtime's mono_class_get_<kind>(class, &iter): from a null cursor   *)
(* it yields the first item; otherwise the item after the cursor; past the *)
(* end it yields null and leaves the cursor alone.                        *)
(***************************************************************************)
NextPtr(tbl, cur) == IF cur < Len(tbl) THEN tbl[cur + 1] ELSE Null

NextCursor(tbl, cur) == IF cur < Len(tbl) THEN cur + 1 ELSE cur

\* Class::from_ptr / ClassField::from_ptr / Method::from_ptr: Some iff non-null.
IsSome(p) == p # Null

Init ==
    /\ pc = [t \in Threads |-> "idle"]
    /\ cls \in [Threads -> Classes]
    /\ kind \in [Threads -> Kinds]
    /\ gptr = [t \in Threads |-> 0]
    /\ res = [t \in Threads |-> <<>>]

\* Variant: the cursor is not reseeded with null on entry.
StartKeepCursor(t, c, k) ==
    /\ pc[t] \in {"idle", "done"}
    /\ pc' = [pc EXCEPT ![t] = "loop"]
    /\ cls' = [cls EXCEPT ![t] = c]
    /\ kind' = [kind EXCEPT ![t] = k]
    /\ res' = [res EXCEPT ![t] = <<>>]
    /\ UNCHANGED gptr

(***************************************************************************)
(* Entry of a wrapper: `let mut gptr = 0 as *mut _; let mut res =          *)
(* Vec::new();`.  A thread calls one wrapper at a time.                    *)
(***************************************************************************)
Start(t, c, k) ==
    /\ pc[t] \in {"idle", "done"}
    /\ pc' = [pc EXCEPT ![t] = "loop"]
    /\ cls' = [cls EXCEPT ![t] = c]
    /\ kind' = [kind EXCEPT ![t] = k]
    /\ gptr' = [gptr EXCEPT ![t] = 0]
    /\ res' = [res EXCEPT ![t] = <<>>]

GetFields(t, c) == Start(t, c, "fields")

GetMethods(t, c) == Start(t, c, "methods")

GetNestedTypes(t, c) == Start(t, c, "nested")

GetInterfaces(t, c) == Start(t, c, "interfaces")

\* The table t's current call walks.
Table(t) == Meta[cls[t]][kind[t]]

\* Variant: the raw pointer is pushed before it is checked for null.
IterateItemPushRaw(t) ==
    /\ pc[t] = "loop"
    /\ gptr' = [gptr EXCEPT ![t] = NextCursor(Meta[cls[t]][kind[t]], gptr[t])]
    /\ res' = [res EXCEPT ![t] = Append(@, NextPtr(Meta[cls[t]][kind[t]], gptr[t]))]
    /\ UNCHANGED <<pc, cls, kind>>

(***************************************************************************)
(* One turn of `while let Some(x) = from_ptr(mono_class_get_<kind>(self,   *)
(* &mut gptr)) { res.push(x); }` that gets an item.                        *)
(***************************************************************************)
IterateItem(t) ==
    /\ pc[t] = "loop"
    /\ IsSome(NextPtr(Table(t), gptr[t]))
    /\ gptr' = [gptr EXCEPT ![t] = NextCursor(Table(t), gptr[t])]
    /\ res' = [res EXCEPT ![t] = Append(@, NextPtr(Table(t), gptr[t]))]
    /\ UNCHANGED <<pc, cls, kind>>

\* Variant: a None from from_ptr does not leave the loop.
IterateEndNoExit(t) ==
    /\ pc[t] = "loop"
    /\ ~IsSome(NextPtr(Table(t), gptr[t]))
    /\ gptr' = [gptr EXCEPT ![t] = NextCursor(Table(t), gptr[t])]
    /\ UNCHANGED <<pc, cls, kind, res>>

\* The last turn: from_ptr gives None, the loop ends and `res` is returned.
IterateEnd(t) ==
    /\ pc[t] = "loop"
    /\ ~IsSome(NextPtr(Table(t), gptr[t]))
    /\ pc' = [pc EXCEPT ![t] = "done"]
    /\ gptr' = [gptr EXCEPT ![t] = NextCursor(Table(t), gptr[t])]
    /\ UNCHANGED <<cls, kind, res>>

Iterate(t) == IterateItem(t) \/ IterateEnd(t)

Next ==
    \E t \in Threads :
        \/ \E c \in Classes :
              \/ GetFields(t, c)
              \/ GetMethods(t, c)
              \/ GetNestedTypes(t, c)
              \/ GetInterfaces(t, c)
        \/ Iterate(t)

(***************************************************************************)
(* The loop runs to completion in the calling thread: nothing in it waits  *)
(* on another thread, so each thread's loop is weakly fair.               *)
(***************************************************************************)
Spec == Init /\ [][Next]_vars /\ \A t \in Threads : WF_vars(Iterate(t))

-----------------------------------------------------------------------------
TypeOK ==
    /\ pc \in [Threads -> {"idle", "loop", "done"}]
    /\ cls \in [Threads -> Classes]
    /\ kind \in [Threads -> Kinds]
    /\ gptr \in [Threads -> Nat]
    /\ res \in [Threads -> Seq(Items)]

(***************************************************************************)
(* get_fields/get_methods/get_nested_types/get_interfaces return exactly   *)
(* the runtime's collection, in the runtime's order, with no item skipped  *)
(* or repeated; in particular get_fields().len() == num_fields() and       *)
(* get_methods().len() == num_methods() (spec, section 8), also while      *)
(* other threads enumerate the same class.                                 *)
(***************************************************************************)
EnumComplete ==
    \A t \in Threads : pc[t] = "done" => res[t] = Table(t)

(***************************************************************************)
(* The inductive strengthening of EnumComplete: inside the loop the Vec is *)
(* the prefix of the table the cursor has passed.                          *)
(***************************************************************************)
EnumPrefix ==
    \A t \in Threads :
        /\ pc[t] \in {"loop", "done"} => /\ gptr[t] <= Len(Table(t))
                                         /\ res[t] = SubSeq(Table(t), 1, gptr[t])
        /\ pc[t] = "done" => gptr[t] = Len(Table(t))

(***************************************************************************)
(* Every call of a wrapper returns: the while-let loop meets the null that *)
(* ends the runtime's collection.                                         *)
(***************************************************************************)
Termination == \A t \in Threads : pc[t] = "loop" ~> pc[t] = "done"

=============================================================================
