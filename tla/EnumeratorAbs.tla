---------------------------- MODULE EnumeratorAbs ----------------------------
(***************************************************************************)
(* What the enumerator bridge promises (spec, section 4.2): a call of one  *)
(* of the collection wrappers is one step that returns the runtime's whole *)
(* collection, in order, and every call returns.  The cursor is hidden.    *)
(***************************************************************************)
EXTENDS Naturals, Sequences

CONSTANTS Threads, Classes, Items, Null, Meta

Kinds == {"fields", "methods", "nested", "interfaces"}

VARIABLES
    pc,     \* pc[t]: "idle", "busy" (inside a call) or "done" (returned)
    cls,    \* cls[t]: the class of t's call
    kind,   \* kind[t]: the collection t asked for
    res     \* res[t]: what t's last call returned

vars == <<pc, cls, kind, res>>

Init ==
    /\ pc = [t \in Threads |-> "idle"]
    /\ cls \in [Threads -> Classes]
    /\ kind \in [Threads -> Kinds]
    /\ res = [t \in Threads |-> <<>>]

Call(t, c, k) ==
    /\ pc[t] \in {"idle", "done"}
    /\ pc' = [pc EXCEPT ![t] = "busy"]
    /\ cls' = [cls EXCEPT ![t] = c]
    /\ kind' = [kind EXCEPT ![t] = k]
    /\ res' = [res EXCEPT ![t] = <<>>]

Return(t) ==
    /\ pc[t] = "busy"
    /\ pc' = [pc EXCEPT ![t] = "done"]
    /\ res' = [res EXCEPT ![t] = Meta[cls[t]][kind[t]]]
    /\ UNCHANGED <<cls, kind>>

Next ==
    \E t \in Threads :
        \/ \E c \in Classes, k \in Kinds : Call(t, c, k)
        \/ Return(t)

Spec == Init /\ [][Next]_vars /\ \A t \in Threads : WF_vars(Return(t))

=============================================================================
