---------------------------- MODULE MC_Enumerator ----------------------------
(***************************************************************************)
(* Model-checking instance of Enumerator: two threads, two classes whose   *)
(* tables are empty, of one item and of two items, so that the first call *)
(* hitting null, a full walk and a restart after a walk all happen.       *)
(***************************************************************************)
EXTENDS Enumerator, TLC

CONSTANTS c1, c2, i1, i2

MCMeta ==
    (c1 :> [fields |-> <<i1, i2>>, methods |-> <<>>,
            nested |-> <<i2>>, interfaces |-> <<i2, i1>>])
    @@
    (c2 :> [fields |-> <<>>, methods |-> <<i1, i2>>,
            nested |-> <<>>, interfaces |-> <<i1>>])

=============================================================================
