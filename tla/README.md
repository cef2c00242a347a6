# Formal model of wrapped_mono

TLA+ specifications, TLC models and TLAPS proofs for the Rust crate
`wrapped_mono` (`src/src/class.rs`, `domain.rs`, `jit.rs`,
`testing/internal_call.rs`). The crate is a thin, safe-looking layer over the
Mono runtime's C API. It has almost no state of its own. What can go wrong is
in **how it hands pointers, ownership and call order to the runtime**, and that
is what the models capture.

## 1. Inventory

| Component | Source | State it touches | Operations | Hard behaviours |
|---|---|---|---|---|
| Handle | class.rs 14-25, 333-337, 348-357; domain.rs 46-52, 62-66 | the raw pointer | `from_ptr` (null → None), `get_ptr`, pointer `==` | none of its own; it is the null test every wrapper relies on |
| Enumerator bridge | class.rs 79-88, 298-330 | a local cursor `gptr` and a local `Vec` per call; the runtime's metadata tables | `get_fields`, `get_methods`, `get_nested_types`, `get_interfaces` | several native threads enumerating at once; loop termination; cursor reseeding |
| String marshal | class.rs 31-69, 90-96, 366-371 | the runtime's name buffers, which it owns; the process (panic) | `from_name`, `from_name_case`, `get_field_from_name`, `Class::get_name`, `get_namespace`, `ClassField::get_name` | `CString::from_raw` takes ownership of a runtime buffer; `expect` panics between `from_raw` and `into_raw`; unwind vs. abort; NUL inputs |
| Reflection navigation | class.rs 98-169, 383-427 | none in the crate | `get_parent`, `ClassField::get_parent`, `get_nesting_type`, `get_element_class`, `implements_interface`, `is_assignable_from`, predicates, counts, field values | `is_assignable_from` passes `self` twice (line 141); `expect` on a null element class |
| Built-in classes | class.rs 177-296 | the runtime's well-known class table | `get_object` … `get_char` | they take no argument, so nothing ties them to a running runtime |
| Lifecycle | jit.rs 13-68; domain.rs 12-60 | runtime Uninit/Running/ShutDown; domains; assemblies; the client's owned `Domain`/`Assembly` values | `jit::init`, `cleanup`, `exec`, `Domain::create`, `free`, `assembly_open`, `set_config` | move vs. borrow of handles; use after `free`; calls after `cleanup`; a second `init`; `exec` consuming the root |
| Callback bridge | testing/internal_call.rs 16-66 (macros outside `src/`); jit.rs 56-68 | the runtime's signature → native function table; exec's `argv`/`cstr_args` | `add_internal_call!`, managed calls into `#[invokable]` functions, `exec` with arguments | registration before first call (lazy binding); raw `argv` pointers into CStrings; the `argv[0]` convention |

How they interact: a native program calls `jit::init`, which gives it the root
`Domain`. It opens assemblies, looks classes up by name (String marshal),
walks them (Enumerator, Reflection), registers internal calls and runs managed
code with `jit::exec` (Callback bridge), which may call back into native code.
It ends with `jit::cleanup`. Every handle is only valid while its domain and
the runtime are alive (Lifecycle).

## 2. Modules

| Module | Models | State (VARIABLES) | Actions |
|---|---|---|---|
| `Enumerator` | the four cursor wrappers | `pc`, `cls`, `kind`, `gptr` (cursor), `res` (the Vec) per thread | `GetFields/GetMethods/GetNestedTypes/GetInterfaces` (= `Start`: cursor := null, Vec := empty), `IterateItem` (non-null → push), `IterateEnd` (null → return) |
| `EnumeratorAbs` | what a wrapper promises (spec 4.2) | `pc`, `cls`, `kind`, `res` | `Call`, `Return` (the whole collection in one step) |
| `EnumeratorProofs` | TLAPS proofs about `Enumerator` | | |
| `Marshal` | name lookups, name getters, reflection queries | `rt` (each runtime string live or freed), `proc` (running or panicked), `out` (last result), `held` (handles obtained) | `FromName`, `FromNameCase`, `GetFieldFromName`, `ClassGetName`, `ClassGetNamespace`, `FieldGetName`, `ClassGetParent`, `FieldGetParent`, `GetNestingType`, `GetElementClass`, `ImplementsInterface`, `IsAssignableFrom`; `Panic` models `expect` with the build's panic strategy |
| `Lifecycle` | runtime, domains, assemblies, built-in getters | `rt`, `dom`, `root`, `asmDom`, `hd`/`ha` (the `Domain`/`Assembly` values the client owns), `fault` | `JitInit`, `JitCleanup`, `DomainCreate`, `DomainFree`, `AssemblyOpen`, `SetConfig`, `Exec`, `BuiltinClass` |
| `LifecycleProofs` | TLAPS proofs about `Lifecycle` | | |
| `MarshalProofs` | TLAPS proofs about `Marshal` | | |
| `InternalCall` | the `internal_call` test composed with `jit::exec` | `pc` (next statement of the test), `args`, `table` (signature → native fn), `phase`, `argv`, `cstr_args`, `margs` (Main's args), `todo`, `seen` (what callbacks were passed), `fault` | `Step` (the test's straight-line body: `Push`, `AddInternalCall`, `ExecStart`), `ExecArg` (one loop iteration), `ExecCall` (`mono_jit_exec`), `MainCall(s)` (lazy binding, callback, assertion), `MainReturn` (drop of `cstr_args`) |
| `MC_*` | TLC instances | | |

Modelling choices:

- **The runtime.** The Mono runtime is not code of this repository. Each model
  contains only the contract a wrapper relies on:
  - `NextPtr`/`NextCursor` are the cursor get-next call.
  - `Stored`/`Readable`/`Matches` are the name tables, and what a freed buffer
    may read back as.
  - `Contract` is which runtime states a call is valid in.
  - `Derives`/`Subtype` are the class hierarchy (parent and declared
    interfaces) and its reflexive-transitive closure (community module
    `Relation`); `mono_class_is_assignable_from(k, o)` and
    `mono_class_implements_interface(k, i)` answer from it.
  - `ExecCall` takes argv[0] as the program's name, as
    `mono_runtime_run_main` does, and gives Main the rest.
- **Code outside the repository.** `add_internal_call!` is a macro of
  `wrapped_mono_macros`; `AddInternalCall` is modelled from spec 4.6 (one
  entry of the signature table, the last registration wins). Pinvoke.dll's
  `Main` is not in the repository: it may call any registered signature at
  most once, in any order, and return at any time (`Input` is what it
  passes: its args array to SendTestString, its length to PassArgCount).
- **Ownership.**
  - `CString::from_raw` makes a runtime buffer Rust-owned until `into_raw`.
    Dropping it, directly or by unwinding, frees the buffer (`rt[s] = "freed"`).
  - A by-value `Domain`/`Assembly` parameter removes the value from `hd`/`ha`.
    A `&self` leaves it in place.
- **Undefined behaviour.**
  - A read of a freed buffer returns any byte string (`Readable`).
  - A call that breaks the runtime's contract is recorded in `fault`, and the
    model stops there.
- **The client.** Lifecycle's client is any safe Rust program, restricted by
  the documented preconditions in the constant `Rules`. Dropping one rule shows
  whether the types alone enforce it. The passing run obeys no rule at all:
  `MayUse` reads the true runtime state, so a client that obeys every rule
  never breaks the contract by construction, and nothing is checked of it.

## 3. Runs

| Run | cfg | Expect | Checks | Shows |
|---|---|---|---|---|
| enum_safety | MC_Enumerator.cfg | pass | TypeOK, EnumComplete, Termination | two threads interleaving walks of two classes × four kinds each get exactly the runtime's collection; every call returns |
| marshal_class | MC_Marshal.cfg | pass | TypeOK, FreedOnlyFieldNames, ClassLookupSound, ClassNameFaithful | with every wrapper enabled, only field names are ever freed, `from_name` returns exactly the class with the queried namespace and name, and class names read back as stored, also across panics |
| marshal_field_name | MC_MarshalFieldName.cfg | violation | FieldLookupSound | after `ClassField::get_name` frees a name, `get_field_from_name` can return the wrong field |
| marshal_unwind | MC_MarshalUnwind.cfg | violation | NoRuntimeFree | under unwind, a non-UTF-8 class name makes `get_name` free the runtime's buffer |
| marshal_panic | MC_MarshalPanic.cfg | violation | NoPanic | a NUL in the namespace passed to `from_name` panics instead of returning an error |
| marshal_assignable | MC_MarshalAssignable.cfg | violation | AssignableSound | `is_assignable_from` ignores `other` (class.rs 141) and answers TRUE for unrelated classes |
| life_any_client | MC_Lifecycle.cfg | pass | TypeOK | a client obeying no documented rule keeps handles, domain states and the recorded breach in range; its breaches are the ones the violation runs show |
| life_after_cleanup | MC_LifecycleAfterCleanup.cfg | violation | NoUB | no-argument functions reach the shut-down runtime |
| life_use_after_free | MC_LifecycleUseAfterFree.cfg | violation | NoUB | `Domain::free(&self)` leaves the domain usable |
| life_exec | MC_LifecycleExec.cfg | violation | CleanupAvailable | `jit::exec` consumes the root, so `cleanup` becomes unreachable |
| icall_test | MC_InternalCall.cfg | pass | TypeOK, ArgvValid | every `argv` pointer points into a live CString while Main runs, whatever Main calls |
| icall_argv | MC_InternalCallArgv.cfg | violation | ArgCountSeen | `exec` puts the first user argument in argv[0], which the runtime takes as the program's name: `pass_arg_count` sees 3, not 4 |

**Bounds, and why they are enough.**

- **Enumerator: two threads, two classes, two items.** The tables are empty,
  hold one item and hold two items (MCMeta). This covers:
  - a walk that ends at once, a walk of several steps, and a restart after a
    walk;
  - two threads interleaving on the same and on different tables.

  A third thread adds no new kind of interleaving, because threads share only
  the constant tables.
- **Marshal: four classes and three fields.**
  - Two class names differ only in case, so `from_name` must tell them apart
    byte for byte.
  - Two classes share a name in different namespaces.
  - One class has a nested parent chain, so `get_parent` reaches every class.
  - One field name equals a class name.
  - There are a NUL input and a non-UTF-8 name.
  - c1 derives from c2, which declares interface c3: c1 implements c3 only
    through its parent, and c3 is unrelated to c1 as a superclass. c1 is
    nested in c3; c4 is an array of c1, and the runtime gives each of the
    others as its own element class.
- **Lifecycle: three domain pointers and two assemblies.**
  - The domain pointers are the root and two created domains.
  - The two assemblies allow one per domain, or two in the same domain.
  - A good and a missing path exercise both outcomes of `assembly_open`.

- **InternalCall: the test itself.** The six registrations and four
  words are the test's. Main may call any subset of the six signatures in
  any order, which covers every order the unknown Main could use.

**Deadlock.** The InternalCall cfgs set `CHECK_DEADLOCK FALSE`: the test
ends when `exec` returns or a callback panics. The Lifecycle cfgs set `CHECK_DEADLOCK FALSE`: the model stops at the
first breach of the runtime's contract, after which behaviour is undefined,
and after `jit::cleanup` a client obeying the rules makes no further call.

**Fairness.** Only the Enumerator uses fairness: `WF` on each thread's loop.
The loop is synchronous code in the calling thread, and it waits on no other
thread. Start-up and lifecycle calls are client choices, so no fairness is
assumed for them.

## 4. Proofs

`EnumeratorProofs` (TLAPS, every obligation checked) proves the following, for
all values of `Threads`, `Classes`, `Items` and `Meta`:

- `TypeCorrect`: `Spec => []TypeOK`.
- `Completeness`: `Spec => []EnumComplete`.

`EnumComplete` is not inductive on its own: a thread in the loop has a partial
`Vec`. So `Completeness` is proved from the inductive invariant
`IInv == TypeOK /\ EnumPrefix`, which says two things:

- in the loop, `gptr <= Len(Table)` and `res = SubSeq(Table, 1, gptr)`;
- once done, `gptr = Len(Table)`.

The step proof has one case per action. Under each case, the invariant is
split into the acting thread and the other threads. The lemmas used are
`AppendPrefix`, `NextPtrSome`/`NextPtrNone` and `SubSeq` facts from
`SequenceTheorems`.

`MarshalProofs` proves two theorems under `ClassNamesUTF8` (no class name or
namespace of the image is `BadBytes`; field names may be), for every image,
panic strategy and set of wrappers called:

- `ClassBuffersKept`: `Spec => []FreedOnlyFieldNames`;
- `LookupSound`: `Spec => []ClassLookupSound`.

Both use the inductive invariant
`IInv == TypeOK /\ FreedOnlyFieldNames /\ ClassLookupSound`.
`ClassLookupSound` is not inductive alone: a lookup answers from what the
class buffers read, which is the image's names only while the buffers are
allocated. `FreedOnlyFieldNames` keeps them allocated, and it needs UTF-8 class
names: otherwise `Class::get_name` panics inside its `from_raw`/`into_raw`
window, and under unwind it frees the class buffer (the `marshal_unwind` run).
The lemmas are:

- `ClassBufsRead`/`MatchesStored`: a live class buffer reads as stored, so
  the runtime's comparison is a comparison with the stored name;
- `PanicStep`: a panic that frees only field names keeps `IInv`;
- `QueryStep`: a call that frees nothing keeps `IInv`;
- `FromNameStep`, `BorrowNameStep`, `FieldGetNameStep`,
  and `StepIInv`, which has one step per wrapper of `Next`.

`EnumeratorProofs` also proves `Refinement`, that the wrappers implement the
abstract enumerator `EnumeratorAbs` (its safety part):
`Spec => A!Init /\ [][A!Next]_A!vars`, where
`A` is `EnumeratorAbs` under the mapping `pcBar`/`resBar` (a thread in the loop
is "busy" and shows an empty result; the cursor is hidden). The proof has two
lemmas. `RefineInit` maps the initial states. `RefineStep` takes each step
from `IInv`:

- `Start` is `A!Call`;
- `IterateItem` changes neither `pcBar` nor `resBar`, so it is a stutter;
- `IterateEnd` is `A!Return`. `EnumPrefix` and `NextPtrNone` give
  `gptr = Len(Table)`, so the returned `Vec` is the whole table.

`LifecycleProofs` also proves `TypeCorrect`, `Spec => []TypeOK`, for any
`Rules`. `TypeOK` is inductive on its own. `ContractType` shows that a breach
records one of the named contracts, and `TypeStep` has one case for each
branch of each action.

`MarshalProofs` proves two more theorems.

- `TypeCorrect`: `Spec => []TypeOK`, on every image and with no assumption
  on names. `TypeOK` is inductive on its own. `PanicType` and `ReportType`
  cover the panic branch and the normal return.
- `NamesRoundTrip`: `Spec => []ClassNameFaithful` under `ClassNamesUTF8`. It
  is proved from `IInv /\ ClassNameFaithful`. Every wrapper reports its own
  name, panic or not (`ReportsItself`). So only the two getters touch the
  property, and they read a live buffer, as `IInv` guarantees.

`InternalCallProofs` proves `TypeCorrect` and `ArgvBacked`
(`Spec => []ArgvValid`) for every set `MainSigs` of signatures that Main may
call. TLC checks only `MainSigs = Sigs`. `ArgvValid` is not inductive: the
inductive invariant `IInv` adds that `phase = "test"` exactly while
`pc <= Len(TestBody)`, and that from `exec`'s entry until Main returns
`cstr_args = argv` and `Len(argv) <= Len(args)`.
`TestBodyFacts` evaluates the test body statement by statement. For this,
`TestBody` is written as the literal tuple of its eleven statements. The
words are typed by `WordSet` rather than `STRING`, because TLAPS cannot show
that a string literal is in `STRING`.

**Only model-checked.**

- `Termination` (every call returns). It needs ENABLED and liveness reasoning, which TLAPS cannot do here.
- That `ImplementsAnswer`/`AssignableAnswer` compute the reflexive-transitive
  closure of the image's hierarchy for every image. This would need
  induction over data.
- The violation runs. They are counterexamples found by TLC.
- `CleanupAvailable` is only a counterexample (`life_exec`).

## 5. Not modelled, and why

- **The Mono runtime and the generated bindings.** They are not repository
  code; only their contract is modelled.
- **The `#[invokable]` argument marshalling.** It is generated by the macro
  crate. The values `pass_test_char`, `pass_data_array` and `get_object` see
  are Main's own data, which is not in the repository.
- **Pure reflection queries.** `get_rank`, the counts, the predicates,
  `get_image`, `data_size`, `get_data`, `get_value_object` and
  `set_value_unsafe` are one foreign call each. They have no state in the
  crate, and nothing a property tells apart.
- **A soundness property for `from_name_case`.** Its doc comment (class.rs
  37) calls it the case-sensitive version, while the model, following the
  runtime's `mono_class_from_name_case`, matches up to case; the action is
  modelled, and `ClassLookupSound` is stated of `from_name` only.
- **`argc` truncation** (jit.rs 57) needs more than 2^31 arguments.
- **A NUL in an `exec` argument** (jit.rs 61). It panics after the move of
  the `Domain`. The models do not tell this apart from a normal `exec`,
  because the handles are consumed on both paths (see `CleanupAvailable`).
- **The test's call `jit::exec(&dom, &asm, args)`** (internal_call.rs 65)
  does not match `exec`'s by-value signature. This is a type error, so the
  model runs the test as if it passed the values.

## 6. Plan for the next sittings

1. `Object` handles whose domain is freed (`get_value_object`) in Lifecycle.
2. A Lifecycle client whose rules read what it has itself observed (the
   handles it freed, whether it called `cleanup`) instead of the runtime's
   true state, so that "the documented rules suffice" is no longer true by
   construction and can be checked and proved.
3. `Class::get_namespace`'s `from_raw`/`into_raw` window (class.rs 92): the
   `marshal_unwind` image has a non-UTF-8 class name only, so its
   counterexample always goes through `get_name`; an image with a non-UTF-8
   namespace would exercise the same window in `get_namespace`.
