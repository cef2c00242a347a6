---------------------------- MODULE MC_Lifecycle ----------------------------
(***************************************************************************)
(* Model-checking instance of Lifecycle: three domain pointers (the root   *)
(* and two created domains), two assembly pointers and a loadable and a    *)
(* missing assembly path, so that every handle can be freed, reused,       *)
(* moved into exec or outlive the runtime.                                 *)
(***************************************************************************)
EXTENDS Lifecycle, TLC

\* Every documented rule but one.
AllBut(r) == AllRules \ {r}

\* The client that skips one documented rule.
RulesNoNoneAfter == AllBut("none_after")

RulesNoNoFreed == AllBut("no_freed")

\* The client that obeys no documented rule: any sequence of calls safe
\* Rust accepts, up to the first breach of the runtime's contract.
RulesNone == {}

=============================================================================
