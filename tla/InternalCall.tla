---------------------------- MODULE InternalCall ----------------------------
(***************************************************************************)
(* The callback bridge as the test src/src/testing/internal_call.rs uses   *)
(* it, composed with jit::exec (src/src/jit.rs 56-68).  The test builds    *)
(* the argument vector, registers six native functions under managed      *)
(* signatures with add_internal_call! (a macro of another crate: modelled *)
(* from spec 4.6 as mono_add_internal_call, one entry of the runtime's     *)
(* signature table), then runs the assembly's Main with jit::exec.         *)
(*                                                                         *)
(* The managed Main lives in test/dlls/Pinvoke.dll, which is not in the   *)
(* repository: it may call any of the signatures, each at most once, in    *)
(* any order, and return at any time.  When it calls PassArgCount it       *)
(* passes the length of its args array, and when it calls SendTestString   *)
(* the joined args (spec 8, scenario 2; the assertion at line 22).  What  *)
(* Main's args are is the runtime's: mono_jit_exec hands argv on to       *)
(* mono_runtime_run_main, which takes argv[0] as the program's name and    *)
(* gives Main argv[1..argc-1].                                            *)
(***************************************************************************)
EXTENDS Naturals, Sequences

CONSTANTS
    None,           \* no native function registered
    MainSigs        \* the signatures Pinvoke.dll's Main may call

\* The six add_internal_call! statements of the test, lines 58-63.
Registrations ==
    << [sig |-> "Test::SendTestString", fn |-> "string_test"],
       [sig |-> "Test::PassArgCount",   fn |-> "pass_arg_count"],
       [sig |-> "Test::PassDataArray",  fn |-> "pass_data_array"],
       [sig |-> "Test::GetObject",      fn |-> "get_object"],
       [sig |-> "Test::PassTestChar",   fn |-> "pass_test_char"],
       [sig |-> "Test::SomeFN",         fn |-> "some_fn"] >>

Sigs == {Registrations[i].sig : i \in 1..Len(Registrations)}
Fns == {Registrations[i].fn : i \in 1..Len(Registrations)}

\* The arguments the test pushes, lines 54-57.
Words == <<"one", "two", "three", "four">>

WordSet == {Words[i] : i \in 1..Len(Words)}

ASSUME InternalCallAssumption ==
    /\ None \notin Fns
    /\ MainSigs \subseteq Sigs

\* The statement args.push(w), and the statement add_internal_call!(r.sig, r.fn).
PushStmt(w) == [op |-> "push", w |-> w]
RegStmt(r) == [op |-> "reg", sig |-> r.sig, fn |-> r.fn]

(***************************************************************************)
(* The test's body after jit::init and assembly_open (lines 52-65), one    *)
(* statement per line: the pushes, the registrations, then jit::exec.      *)
(***************************************************************************)
TestBody ==
    << PushStmt(Words[1]), PushStmt(Words[2]), PushStmt(Words[3]), PushStmt(Words[4]),
       RegStmt(Registrations[1]), RegStmt(Registrations[2]), RegStmt(Registrations[3]),
       RegStmt(Registrations[4]), RegStmt(Registrations[5]), RegStmt(Registrations[6]),
       [op |-> "exec"] >>

VARIABLES
    pc,         \* the next statement of TestBody the test runs
    args,       \* the test's Vec<&str>
    table,      \* table[s]: the native function registered for signature s
    phase,      \* "test", "build" (exec's loop), "main" (Main runs), "done"
    argv,       \* exec's Vec<*mut i8>: the words whose pointers it holds
    cstr_args,  \* exec's Vec<CString>: the words it keeps alive
    margs,      \* the args array Main received
    todo,       \* signatures Main has not called yet
    seen,       \* what each native callback was passed, in call order
    fault       \* "none", "missing_method" or "panic"

vars == <<pc, args, table, phase, argv, cstr_args, margs, todo, seen, fault>>

\* A pointer of argv is valid while the CString it came from is alive.
ArgvLive == \A i \in 1..Len(argv) : i <= Len(cstr_args) /\ cstr_args[i] = argv[i]

\* The value callback fn is passed by Main.
Input(fn) ==
    CASE fn = "string_test"    -> margs
      [] fn = "pass_arg_count" -> Len(margs)
      [] OTHER                 -> None

\* The callback's own assertion on its input (lines 22 and 27); the other
\* callbacks check data Main makes up itself.
Asserts(fn, v) ==
    CASE fn = "string_test"    -> v = Words
      [] fn = "pass_arg_count" -> v = 4
      [] OTHER                 -> TRUE

Init ==
    /\ pc = 1
    /\ args = << >>
    /\ table = [s \in Sigs |-> None]
    /\ phase = "test"
    /\ argv = << >>
    /\ cstr_args = << >>
    /\ margs = << >>
    /\ todo = {}
    /\ seen = << >>
    /\ fault = "none"

\* args.push(w): lines 54-57.
Push(w) ==
    /\ args' = Append(args, w)
    /\ UNCHANGED <<table, phase, argv, cstr_args, margs, todo, seen, fault>>

\* Variant: the signature string is registered in place of the function.
AddInternalCallRaw(sig, fn) ==
    /\ table' = [table EXCEPT ![sig] = sig]
    /\ UNCHANGED <<args, phase, argv, cstr_args, margs, todo, seen, fault>>

\* add_internal_call!(sig, fn): mono_add_internal_call; a later
\* registration of the same signature overwrites an earlier one.
AddInternalCall(sig, fn) ==
    /\ table' = [table EXCEPT ![sig] = fn]
    /\ UNCHANGED <<args, phase, argv, cstr_args, margs, todo, seen, fault>>

\* jit::exec(..., args): argc and the two empty vectors, lines 57-59.
ExecStart ==
    /\ phase' = "build"
    /\ argv' = << >>
    /\ cstr_args' = << >>
    /\ UNCHANGED <<args, table, margs, todo, seen, fault>>

\* The test runs its next statement.
Step ==
    /\ phase = "test"
    /\ pc <= Len(TestBody)
    /\ pc' = pc + 1
    /\ LET st == TestBody[pc] IN
         CASE st.op = "push" -> Push(st.w)
           [] st.op = "reg"  -> AddInternalCall(st.sig, st.fn)
           [] st.op = "exec" -> ExecStart

\* Variant: the CString is a temporary dropped at the end of the iteration
\* (argv.push(CString::new(arg).unwrap().as_ptr())).
ExecArgTemp ==
    /\ phase = "build"
    /\ Len(argv) < Len(args)
    /\ argv' = Append(argv, args[Len(argv) + 1])
    /\ UNCHANGED <<pc, args, table, phase, cstr_args, margs, todo, seen, fault>>

\* One iteration of exec's loop, lines 60-64: the CString, its pointer in
\* argv, the CString moved into cstr_args.  The test's words hold no NUL.
ExecArg ==
    /\ phase = "build"
    /\ Len(argv) < Len(args)
    /\ argv' = Append(argv, args[Len(argv) + 1])
    /\ cstr_args' = Append(cstr_args, args[Len(argv) + 1])
    /\ UNCHANGED <<pc, args, table, phase, margs, todo, seen, fault>>

(***************************************************************************)
(* mono_jit_exec(domain, assembly, argc, argv), line 65: the runtime reads *)
(* argv, takes argv[0] as the program's name and enters Main with the     *)
(* rest.                                                                   *)
(***************************************************************************)
ExecCall ==
    /\ phase = "build"
    /\ Len(argv) = Len(args)
    /\ phase' = "main"
    /\ margs' = IF argv = << >> THEN << >> ELSE Tail(argv)
    /\ todo' = MainSigs
    /\ UNCHANGED <<pc, args, table, argv, cstr_args, seen, fault>>

(***************************************************************************)
(* Main calls signature s.  The runtime binds it at this first call: with  *)
(* nothing registered it throws MissingMethodException, which ends Main   *)
(* and the test.  Otherwise the native function runs with Main's value,   *)
(* and a failed assertion panics inside the callback.                    *)
(***************************************************************************)
MainCall(s) ==
    /\ phase = "main"
    /\ s \in todo
    /\ todo' = todo \ {s}
    /\ IF table[s] = None
       THEN /\ fault' = "missing_method"
            /\ UNCHANGED seen
       ELSE LET fn == table[s] IN
            /\ seen' = Append(seen, [fn |-> fn, val |-> Input(fn)])
            /\ fault' = IF Asserts(fn, Input(fn)) THEN "none" ELSE "panic"
    /\ UNCHANGED <<pc, args, table, phase, argv, cstr_args, margs>>

\* Main returns; exec drops cstr_args (line 66) and returns its result.
MainReturn ==
    /\ phase = "main"
    /\ phase' = "done"
    /\ cstr_args' = << >>
    /\ UNCHANGED <<pc, args, table, argv, margs, todo, seen, fault>>

\* A missing method or a panic ends the test; so does exec returning.
Next ==
    /\ fault = "none"
    /\ \/ Step
       \/ ExecArg
       \/ ExecCall
       \/ \E s \in Sigs : MainCall(s)
       \/ MainReturn

Spec == Init /\ [][Next]_vars

-----------------------------------------------------------------------------
TypeOK ==
    /\ pc \in 1..Len(TestBody) + 1
    /\ args \in Seq(WordSet)
    /\ table \in [Sigs -> Fns \cup {None}]
    /\ phase \in {"test", "build", "main", "done"}
    /\ argv \in Seq(WordSet)
    /\ cstr_args \in Seq(WordSet)
    /\ margs \in Seq(WordSet)
    /\ todo \subseteq Sigs
    /\ \A i \in 1..Len(seen) :
          /\ seen[i].fn \in Fns
          /\ seen[i].fn = "string_test" => seen[i].val \in Seq(WordSet)
          /\ seen[i].fn = "pass_arg_count" => seen[i].val \in Nat
    /\ fault \in {"none", "missing_method", "panic"}

(***************************************************************************)
(* While Main runs, every pointer exec passed in argv still points into a *)
(* live CString of cstr_args holding the same word: the runtime never     *)
(* reads freed memory through argv.                                       *)
(***************************************************************************)
ArgvValid == phase = "main" => ArgvLive

(***************************************************************************)
(* pass_arg_count is passed the number of arguments the test gave         *)
(* jit::exec (spec 8, scenario 2: it "must observe the value 4"; the       *)
(* assertion at line 27).                                                 *)
(***************************************************************************)
ArgCountSeen ==
    \A i \in 1..Len(seen) :
        seen[i].fn = "pass_arg_count" => seen[i].val = Len(args)

=============================================================================
