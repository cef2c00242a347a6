------------------------- MODULE InternalCallProofs -------------------------
(***************************************************************************)
(* Proofs about InternalCall, for any set of signatures the managed Main   *)
(* may call: every state is well typed, and while Main runs every argv    *)
(* pointer is backed by a live CString.                                   *)
(***************************************************************************)
EXTENDS InternalCall, TLAPS

(***************************************************************************)
(* The inductive invariant.  ArgvValid alone is not inductive: it needs    *)
(* the stronger fact that exec's two vectors are equal from its entry on,  *)
(* while its loop builds them, and that the loop stops at Len(args).       *)
(***************************************************************************)
IInv ==
    /\ TypeOK
    /\ phase = "test" <=> pc <= Len(TestBody)
    /\ phase \in {"build", "main"} => cstr_args = argv
    /\ phase = "build" => Len(argv) <= Len(args)

USE InternalCallAssumption

-----------------------------------------------------------------------------
\* The signatures and functions of the six registrations.
LEMMA RegistrationsFacts ==
    /\ Sigs = {"Test::SendTestString", "Test::PassArgCount", "Test::PassDataArray",
               "Test::GetObject", "Test::PassTestChar", "Test::SomeFN"}
    /\ Fns = {"string_test", "pass_arg_count", "pass_data_array",
              "get_object", "pass_test_char", "some_fn"}
<1>1. Len(Registrations) = 6
      BY DEF Registrations
<1>2. 1 .. 6 = {1, 2, 3, 4, 5, 6}
      OBVIOUS
<1>. QED  BY <1>1, <1>2 DEF Sigs, Fns, Registrations

\* The test's statements, one per source line: what each one is.
LEMMA TestBodyFacts ==
    /\ Len(TestBody) = 11
    /\ \A i \in 1 .. 11 :
          /\ TestBody[i].op \in {"push", "reg", "exec"}
          /\ TestBody[i].op = "push" => TestBody[i].w \in WordSet
          /\ TestBody[i].op = "reg" => TestBody[i].sig \in Sigs /\ TestBody[i].fn \in Fns
          /\ TestBody[i].op = "exec" <=> i = 11
<1>1. Len(TestBody) = 11
      BY DEF TestBody
<1>2. ASSUME NEW i \in 1 .. 11
      PROVE  /\ TestBody[i].op \in {"push", "reg", "exec"}
             /\ TestBody[i].op = "push" => TestBody[i].w \in WordSet
             /\ TestBody[i].op = "reg" => TestBody[i].sig \in Sigs /\ TestBody[i].fn \in Fns
             /\ TestBody[i].op = "exec" <=> i = 11
      <2>0. i \in {1, 2, 3, 4, 5, 6, 7, 8, 9, 10, 11}
            OBVIOUS
      <2>1. CASE i = 1
            BY <2>1 DEF TestBody, PushStmt, Words, WordSet
      <2>2. CASE i = 2
            BY <2>2 DEF TestBody, PushStmt, Words, WordSet
      <2>3. CASE i = 3
            BY <2>3 DEF TestBody, PushStmt, Words, WordSet
      <2>4. CASE i = 4
            BY <2>4 DEF TestBody, PushStmt, Words, WordSet
      <2>5. CASE i = 5
            BY <2>5, RegistrationsFacts DEF TestBody, RegStmt, Registrations
      <2>6. CASE i = 6
            BY <2>6, RegistrationsFacts DEF TestBody, RegStmt, Registrations
      <2>7. CASE i = 7
            BY <2>7, RegistrationsFacts DEF TestBody, RegStmt, Registrations
      <2>8. CASE i = 8
            BY <2>8, RegistrationsFacts DEF TestBody, RegStmt, Registrations
      <2>9. CASE i = 9
            BY <2>9, RegistrationsFacts DEF TestBody, RegStmt, Registrations
      <2>10. CASE i = 10
            BY <2>10, RegistrationsFacts DEF TestBody, RegStmt, Registrations
      <2>11. CASE i = 11
            BY <2>11 DEF TestBody
      <2>. QED  BY <2>0, <2>1, <2>2, <2>3, <2>4, <2>5, <2>6, <2>7, <2>8, <2>9, <2>10, <2>11
<1>. QED  BY <1>1, <1>2

\* One statement of the test is a push, a registration or jit::exec.
LEMMA StepCases ==
    ASSUME TypeOK, Step
    PROVE  /\ pc \in 1 .. 11 /\ pc' = pc + 1 /\ phase = "test"
           /\ \/ TestBody[pc].op = "push" /\ Push(TestBody[pc].w)
              \/ TestBody[pc].op = "reg" /\ AddInternalCall(TestBody[pc].sig, TestBody[pc].fn)
              \/ TestBody[pc].op = "exec" /\ ExecStart
<1>1. pc \in 1 .. 11 /\ pc' = pc + 1 /\ phase = "test"
      BY TestBodyFacts DEF Step, TypeOK
<1>2. TestBody[pc].op \in {"push", "reg", "exec"}
      BY <1>1, TestBodyFacts
<1>. QED  BY <1>1, <1>2, Zenon DEF Step

-----------------------------------------------------------------------------
LEMMA InitIInv == Init => IInv
BY TestBodyFacts DEF Init, IInv, TypeOK, TestBody

LEMMA StepIInv == IInv /\ [Next]_vars => IInv'
<1> SUFFICES ASSUME IInv, [Next]_vars PROVE IInv'
    OBVIOUS
<1>. USE DEF IInv
<1>0. pc \in 1 .. 12
      BY TestBodyFacts DEF TypeOK
<1>1. CASE Step
      <2>. DEFINE st == TestBody[pc]
      <2>1. /\ pc \in 1 .. 11 /\ pc' = pc + 1 /\ phase = "test"
            /\ \/ st.op = "push" /\ Push(st.w)
               \/ st.op = "reg" /\ AddInternalCall(st.sig, st.fn)
               \/ st.op = "exec" /\ ExecStart
            BY <1>1, StepCases
      <2>2. /\ st.op = "push" => st.w \in WordSet
            /\ st.op = "reg" => st.sig \in Sigs /\ st.fn \in Fns
            /\ st.op = "exec" <=> pc = 11
            BY <2>1, TestBodyFacts
      <2>3. CASE st.op = "push" /\ Push(st.w)
            <3>1. TypeOK'
                  BY <2>1, <2>2, <2>3, TestBodyFacts DEF Push, TypeOK
            <3>. QED  BY <2>1, <2>2, <2>3, <3>1, TestBodyFacts DEF Push
      <2>4. CASE st.op = "reg" /\ AddInternalCall(st.sig, st.fn)
            <3>1. TypeOK'
                  BY <2>1, <2>2, <2>4, TestBodyFacts DEF AddInternalCall, TypeOK
            <3>. QED  BY <2>1, <2>2, <2>4, <3>1, TestBodyFacts DEF AddInternalCall
      <2>5. CASE st.op = "exec" /\ ExecStart
            <3>1. pc = 11
                  BY <2>2, <2>5
            <3>2. TypeOK'
                  BY <2>1, <2>5, <3>1, TestBodyFacts DEF ExecStart, TypeOK
            <3>. QED  BY <2>1, <2>5, <3>1, <3>2, TestBodyFacts DEF ExecStart
      <2>. QED  BY <2>1, <2>3, <2>4, <2>5
<1>2. CASE ExecArg
      <2>1. args[Len(argv) + 1] \in WordSet
            BY <1>2 DEF ExecArg, TypeOK
      <2>. QED  BY <1>2, <2>1 DEF ExecArg, TypeOK
<1>3. CASE ExecCall
      <2>1. (IF argv = << >> THEN << >> ELSE Tail(argv)) \in Seq(WordSet)
            BY DEF TypeOK
      <2>. QED  BY <1>3, <2>1 DEF ExecCall, TypeOK
<1>4. ASSUME NEW s \in Sigs, MainCall(s) PROVE IInv'
      <2>1. CASE table[s] = None
            BY <1>4, <2>1 DEF MainCall, TypeOK
      <2>2. CASE table[s] # None
            <3>1. table[s] \in Fns
                  BY <2>2 DEF TypeOK
            <3>. DEFINE fn == table[s]
            <3>2. /\ seen' = Append(seen, [fn |-> fn, val |-> Input(fn)])
                  /\ fault' = IF Asserts(fn, Input(fn)) THEN "none" ELSE "panic"
                  /\ UNCHANGED <<pc, args, table, phase, argv, cstr_args, margs>>
                  /\ todo' = todo \ {s}
                  BY <1>4, <2>2 DEF MainCall
            <3>3. /\ fn = "string_test" => Input(fn) \in Seq(WordSet)
                  /\ fn = "pass_arg_count" => Input(fn) \in Nat
                  BY DEF Input, TypeOK
            <3>4. TypeOK'
                  BY <3>1, <3>2, <3>3 DEF TypeOK
            <3>. QED  BY <3>2, <3>4
      <2>. QED  BY <2>1, <2>2
<1>5. CASE MainReturn
      BY <1>5 DEF MainReturn, TypeOK
<1>6. CASE UNCHANGED vars
      BY <1>6 DEF vars, TypeOK
<1>. QED  BY <1>1, <1>2, <1>3, <1>4, <1>5, <1>6 DEF Next

-----------------------------------------------------------------------------
(***************************************************************************)
(* Every state of the test and of jit::exec is well typed, whichever       *)
(* signatures Main calls: in particular every value a callback records is  *)
(* of the type its Rust parameter has.                                    *)
(***************************************************************************)
THEOREM TypeCorrect == Spec => []TypeOK
<1>1. IInv => TypeOK
      BY DEF IInv
<1>. QED  BY <1>1, InitIInv, StepIInv, PTL DEF Spec

(***************************************************************************)
(* While Main runs, every pointer jit::exec passed in argv still points    *)
(* into a live CString holding the same word (ArgvValid, checked by        *)
(* icall_test): exec moves each CString into cstr_args in the iteration   *)
(* that takes its pointer, and drops cstr_args only after mono_jit_exec.   *)
(***************************************************************************)
THEOREM ArgvBacked == Spec => []ArgvValid
<1>1. IInv => ArgvValid
      BY DEF IInv, ArgvValid, ArgvLive
<1>. QED  BY <1>1, InitIInv, StepIInv, PTL DEF Spec

=============================================================================
