--------------------------- MODULE LifecycleProofs ---------------------------
(***************************************************************************)
(* Proofs about Lifecycle, for any sets of domain and assembly pointers   *)
(* and paths and any client.                                             *)
(***************************************************************************)
EXTENDS Lifecycle, TLAPS

(***************************************************************************)
(* Types, for any client: whichever rules it obeys, every call keeps the   *)
(* runtime's state, the owned values and the recorded breach in range.    *)
(***************************************************************************)
Faults == {"none", "reinit", "call_before_init", "call_after_cleanup",
           "use_after_free", "cleanup_non_root", "no_assembly"}

\* What the contract check of a call yields is one of the recorded breaches.
LEMMA ContractType ==
    ASSUME NEW d
    PROVE  Contract(d) \in Faults
BY DEF Contract, Faults

\* A breach changes nothing but the recorded fault.
LEMMA BreachType ==
    ASSUME TypeOK, NEW why \in Faults, Breach(why)
    PROVE  TypeOK'
BY DEF Breach, TypeOK, Faults

LEMMA TypeStep == TypeOK /\ [Next]_vars => TypeOK'
<1> SUFFICES ASSUME TypeOK, [Next]_vars PROVE TypeOK'
    OBVIOUS
<1>. USE LifecycleAssumption
<1>. DEFINE BreachOf(d) == Breach(Contract(d))
<1>0. ASSUME NEW d, BreachOf(d) PROVE TypeOK'
      BY <1>0, ContractType, BreachType
<1>1. CASE JitInit
      <2>1. CASE rt # "uninit"
            BY <1>1, <2>1, BreachType DEF JitInit, Faults
      <2>2. CASE rt = "uninit"
            BY <1>1, <2>2 DEF JitInit, TypeOK
      <2>. QED  BY <2>1, <2>2
<1>2. CASE DomainCreate
      <2>1. CASE rt # "running"
            BY <1>2, <2>1, BreachType DEF DomainCreate, Faults
      <2>2. CASE rt = "running"
            BY <1>2, <2>2 DEF DomainCreate, TypeOK
      <2>. QED  BY <2>1, <2>2
<1>3. CASE BuiltinClass
      <2>1. CASE rt # "running"
            BY <1>3, <2>1, BreachType DEF BuiltinClass, Faults
      <2>2. CASE rt = "running"
            BY <1>3, <2>2 DEF BuiltinClass, vars, TypeOK
      <2>. QED  BY <2>1, <2>2
<1>4. ASSUME NEW d \in Domains, JitCleanup(d) PROVE TypeOK'
      <2>1. CASE Contract(d) # "none"
            BY <1>4, <2>1, <1>0 DEF JitCleanup
      <2>2. CASE Contract(d) = "none" /\ d # root
            BY <1>4, <2>2, BreachType DEF JitCleanup, Faults
      <2>3. CASE Contract(d) = "none" /\ d = root
            BY <1>4, <2>3 DEF JitCleanup, TypeOK
      <2>. QED  BY <2>1, <2>2, <2>3
<1>5. ASSUME NEW d \in Domains, NEW force \in BOOLEAN, DomainFree(d, force)
      PROVE  TypeOK'
      <2>1. CASE Contract(d) # "none"
            BY <1>5, <2>1, <1>0 DEF DomainFree
      <2>2. CASE Contract(d) = "none"
            BY <1>5, <2>2 DEF DomainFree, TypeOK
      <2>. QED  BY <2>1, <2>2
<1>6. ASSUME NEW d \in Domains, NEW p \in Paths, AssemblyOpen(d, p) PROVE TypeOK'
      <2>1. CASE Contract(d) # "none"
            BY <1>6, <2>1, <1>0 DEF AssemblyOpen
      <2>2. CASE Contract(d) = "none"
            BY <1>6, <2>2 DEF AssemblyOpen, vars, TypeOK
      <2>. QED  BY <2>1, <2>2
<1>7. ASSUME NEW d \in Domains, SetConfig(d) PROVE TypeOK'
      <2>1. CASE Contract(d) # "none"
            BY <1>7, <2>1, <1>0 DEF SetConfig
      <2>2. CASE Contract(d) = "none"
            BY <1>7, <2>2 DEF SetConfig, vars, TypeOK
      <2>. QED  BY <2>1, <2>2
<1>8. ASSUME NEW d \in Domains, NEW a \in Assemblies \cup {Null}, Exec(d, a)
      PROVE  TypeOK'
      <2>1. CASE Contract(d) # "none"
            BY <1>8, <2>1, <1>0 DEF Exec
      <2>2. CASE Contract(d) = "none" /\ AsmDomain(a) = Null
            BY <1>8, <2>2, BreachType DEF Exec, Faults
      <2>3. CASE Contract(d) = "none" /\ AsmDomain(a) # Null
                 /\ Contract(AsmDomain(a)) # "none"
            BY <1>8, <2>3, <1>0 DEF Exec
      <2>4. CASE Contract(d) = "none" /\ AsmDomain(a) # Null
                 /\ Contract(AsmDomain(a)) = "none"
            BY <1>8, <2>4 DEF Exec, TypeOK
      <2>. QED  BY <2>1, <2>2, <2>3, <2>4
<1>9. CASE UNCHANGED vars
      BY <1>9 DEF vars, TypeOK
<1>. QED  BY <1>1, <1>2, <1>3, <1>4, <1>5, <1>6, <1>7, <1>8, <1>9 DEF Next

(***************************************************************************)
(* Every state the client and the runtime reach is well typed, whichever  *)
(* documented rules the client obeys: in particular a breach recorded by  *)
(* jit::cleanup, Domain::free, assembly_open or exec is one of the named   *)
(* contracts, and asmDom only ever names a domain pointer.               *)
(***************************************************************************)
THEOREM TypeCorrect == Spec => []TypeOK
<1>1. Init => TypeOK
      BY LifecycleAssumption DEF Init, TypeOK
<1>. QED  BY <1>1, TypeStep, PTL DEF Spec

=============================================================================
