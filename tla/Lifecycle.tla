------------------------------ MODULE Lifecycle ------------------------------
(***************************************************************************)
(* Runtime, domain and assembly lifecycle: jit::init, jit::cleanup and     *)
(* jit::exec (src/src/jit.rs), Domain::create, free, assembly_open and     *)
(* set_config (src/src/domain.rs), and the built-in class getters          *)
(* Class::get_object .. get_char (src/src/class.rs), which read the        *)
(* runtime's global table of well-known classes.                           *)
(*                                                                         *)
(* The client program holds Rust values: Domain and Assembly values it     *)
(* owns (neither type is Clone), which a by-value parameter moves away.    *)
(* Which calls it makes is limited by the Rust types, and by those of the  *)
(* documented preconditions listed in Rules that it obeys.  Each foreign   *)
(* call is checked against the runtime's contract (spec 4.5, 5, 7); the    *)
(* first call that breaks it is recorded in `fault` and ends the run.      *)
(***************************************************************************)
EXTENDS Naturals, FiniteSets

CONSTANTS
    Domains,        \* MonoDomain pointers the runtime may hand out
    Assemblies,     \* MonoAssembly pointers the runtime may hand out
    Paths,          \* assembly paths the client may open
    GoodPaths,      \* those naming a loadable assembly
    Null,           \* the null pointer
    Rules           \* the documented preconditions the client obeys

\* The documented preconditions a client may obey:
\*   init_once       jit::init "can be only called once per process" (jit.rs 5)
\*   init_first      jit::init "should be called before any other mono function"
\*   none_after      after jit::cleanup the runtime "will not be able to be used again"
\*   no_freed        after Domain::free "all references to objects inside it will
\*                   become invalid" (domain.rs 55)
\*   cleanup_root    jit::cleanup is given the root domain (spec 4.5)
AllRules == {"init_once", "init_first", "none_after", "no_freed", "cleanup_root"}

ASSUME LifecycleAssumption ==
    /\ GoodPaths \subseteq Paths
    /\ Null \notin Domains \cup Assemblies
    /\ Rules \subseteq AllRules

VARIABLES
    rt,         \* the process-wide runtime: "uninit", "running" or "shutdown"
    dom,        \* dom[d]: "unused", "live" or "freed"
    root,       \* the root domain jit::init returned, or Null
    asmDom,     \* asmDom[a]: the domain assembly a was loaded into, or Null
    hd,         \* the Domain values the client owns
    ha,         \* the Assembly values the client owns
    fault       \* "none", or the runtime contract the first bad call broke

vars == <<rt, dom, root, asmDom, hd, ha, fault>>

\* The client obeys rule r.
Obeys(r) == r \in Rules

\* The client's own view before calling into domain d: the documented rules.
MayUse(d) ==
    /\ Obeys("init_first") => rt # "uninit"
    /\ Obeys("none_after") => rt # "shutdown"
    /\ Obeys("no_freed") /\ d \in Domains => dom[d] # "freed"

\* A foreign call that breaks the runtime's contract: the run ends there.
Breach(why) ==
    /\ fault' = why
    /\ UNCHANGED <<rt, dom, root, asmDom, hd, ha>>

\* Why a call into domain d breaks the contract, or "none".
Contract(d) ==
    CASE rt = "uninit"   -> "call_before_init"
      [] rt = "shutdown" -> "call_after_cleanup"
      [] dom[d] # "live" -> "use_after_free"
      [] OTHER           -> "none"

Init ==
    /\ rt = "uninit"
    /\ dom = [d \in Domains |-> "unused"]
    /\ root = Null
    /\ asmDom = [a \in Assemblies |-> Null]
    /\ hd = {}
    /\ ha = {}
    /\ fault = "none"

(***************************************************************************)
(* jit::init(name, version): mono_jit_init[_version] then                  *)
(* mono_config_parse(NULL); the root domain is returned.  Nothing stops a  *)
(* second call; the runtime cannot be initialised twice.                   *)
(***************************************************************************)
JitInit ==
    /\ Obeys("init_once") => rt = "uninit"
    /\ Obeys("none_after") => rt # "shutdown"
    /\ IF rt # "uninit"
       THEN Breach("reinit")
       ELSE \E d \in Domains :
              /\ dom[d] = "unused"
              /\ rt' = "running"
              /\ dom' = [dom EXCEPT ![d] = "live"]
              /\ root' = d
              /\ hd' = hd \cup {d}
              /\ UNCHANGED <<asmDom, ha, fault>>

(***************************************************************************)
(* jit::cleanup(domain): takes the Domain by value, mono_jit_cleanup.      *)
(* The runtime frees every domain; it cannot be started again.            *)
(***************************************************************************)
JitCleanup(d) ==
    /\ d \in hd
    /\ MayUse(d)
    /\ Obeys("cleanup_root") => d = root
    /\ IF Contract(d) # "none" THEN Breach(Contract(d))
       ELSE IF d # root THEN Breach("cleanup_non_root")
       ELSE /\ rt' = "shutdown"
            /\ dom' = [x \in Domains |-> IF dom[x] = "live" THEN "freed" ELSE dom[x]]
            /\ hd' = hd \ {d}
            /\ UNCHANGED <<root, asmDom, ha, fault>>

(***************************************************************************)
(* Domain::create(): mono_domain_create().  A safe function with no        *)
(* argument: nothing in the types says the runtime must be running.       *)
(***************************************************************************)
DomainCreate ==
    /\ MayUse(Null)
    /\ IF rt # "running" THEN Breach(IF rt = "uninit" THEN "call_before_init"
                                                      ELSE "call_after_cleanup")
       ELSE \E d \in Domains :
              /\ dom[d] = "unused"
              /\ dom' = [dom EXCEPT ![d] = "live"]
              /\ hd' = hd \cup {d}
              /\ UNCHANGED <<rt, root, asmDom, ha, fault>>

(***************************************************************************)
(* Domain::free(&self, force): mono_domain_free(ptr, force as i32).  It    *)
(* borrows the Domain, so the client keeps a value for the freed domain.  *)
(* The runtime refuses to unload the root domain unless force is set.     *)
(***************************************************************************)
DomainFree(d, force) ==
    /\ d \in hd
    /\ MayUse(d)
    /\ IF Contract(d) # "none" THEN Breach(Contract(d))
       ELSE /\ dom' = IF d = root /\ ~force THEN dom ELSE [dom EXCEPT ![d] = "freed"]
            /\ UNCHANGED <<rt, root, asmDom, hd, ha, fault>>

\* Variant: the null check on the loaded assembly is missing.
AssemblyOpenUnchecked(d, p) ==
    /\ d \in hd
    /\ MayUse(d)
    /\ IF Contract(d) # "none" THEN Breach(Contract(d))
       ELSE IF p \notin GoodPaths
            THEN /\ ha' = ha \cup {Null}
                 /\ UNCHANGED <<rt, dom, root, asmDom, hd, fault>>
            ELSE \E a \in Assemblies :
                   /\ asmDom[a] = Null
                   /\ asmDom' = [asmDom EXCEPT ![a] = d]
                   /\ ha' = ha \cup {a}
                   /\ UNCHANGED <<rt, dom, root, hd, fault>>

(***************************************************************************)
(* Domain::assembly_open(&self, path): mono_domain_assembly_open; None     *)
(* when the runtime returns null (missing or broken assembly).            *)
(***************************************************************************)
AssemblyOpen(d, p) ==
    /\ d \in hd
    /\ MayUse(d)
    /\ IF Contract(d) # "none" THEN Breach(Contract(d))
       ELSE IF p \notin GoodPaths
            THEN UNCHANGED vars
            ELSE \E a \in Assemblies :
                   /\ asmDom[a] = Null
                   /\ asmDom' = [asmDom EXCEPT ![a] = d]
                   /\ ha' = ha \cup {a}
                   /\ UNCHANGED <<rt, dom, root, hd, fault>>

(***************************************************************************)
(* Domain::set_config(&self, dir, file): mono_domain_set_config.  The      *)
(* configuration itself is not modelled.                                   *)
(***************************************************************************)
SetConfig(d) ==
    /\ d \in hd
    /\ MayUse(d)
    /\ IF Contract(d) # "none" THEN Breach(Contract(d))
       ELSE UNCHANGED vars

\* The domain assembly a lives in, or Null for a handle of no assembly.
AsmDomain(a) == IF a \in Assemblies THEN asmDom[a] ELSE Null

(***************************************************************************)
(* jit::exec(domain, assembly, args): takes both by value and runs the     *)
(* assembly's entry point with mono_jit_exec.  What the managed code does  *)
(* is not modelled here.                                                   *)
(***************************************************************************)
Exec(d, a) ==
    /\ d \in hd
    /\ a \in ha
    /\ MayUse(d)
    /\ MayUse(AsmDomain(a))
    /\ IF Contract(d) # "none" THEN Breach(Contract(d))
       ELSE IF AsmDomain(a) = Null THEN Breach("no_assembly")
       ELSE IF Contract(AsmDomain(a)) # "none" THEN Breach(Contract(AsmDomain(a)))
       ELSE /\ hd' = hd \ {d}
            /\ ha' = ha \ {a}
            /\ UNCHANGED <<rt, dom, root, asmDom, fault>>

(***************************************************************************)
(* Class::get_object(), get_int_32(), ... get_char(): from_ptr of the      *)
(* runtime's well-known class, then expect(..).  Safe functions with no    *)
(* argument: before jit::init the table is empty and after jit::cleanup it *)
(* points at freed classes.                                                *)
(***************************************************************************)
BuiltinClass ==
    /\ MayUse(Null)
    /\ IF rt # "running" THEN Breach(IF rt = "uninit" THEN "call_before_init"
                                                      ELSE "call_after_cleanup")
       ELSE UNCHANGED vars

\* After a contract breach the behaviour of the program is undefined: the
\* model stops there.
Next ==
    /\ fault = "none"
    /\ \/ JitInit
       \/ DomainCreate
       \/ BuiltinClass
       \/ \E d \in Domains :
             \/ JitCleanup(d)
             \/ \E force \in BOOLEAN : DomainFree(d, force)
             \/ \E p \in Paths : AssemblyOpen(d, p)
             \/ SetConfig(d)
             \/ \E a \in Assemblies \cup {Null} : Exec(d, a)

Spec == Init /\ [][Next]_vars

-----------------------------------------------------------------------------
TypeOK ==
    /\ rt \in {"uninit", "running", "shutdown"}
    /\ dom \in [Domains -> {"unused", "live", "freed"}]
    /\ root \in Domains \cup {Null}
    /\ asmDom \in [Assemblies -> Domains \cup {Null}]
    /\ hd \subseteq Domains
    /\ ha \subseteq Assemblies
    /\ fault \in {"none", "reinit", "call_before_init", "call_after_cleanup",
                  "use_after_free", "cleanup_non_root", "no_assembly"}

(***************************************************************************)
(* A client that obeys the documented preconditions never makes a foreign *)
(* call the runtime's contract forbids: no call before jit::init or after  *)
(* jit::cleanup, no use of a freed domain or of an assembly loaded into    *)
(* one, no second jit::init, jit::cleanup only of the root domain.         *)
(***************************************************************************)
NoUB == fault = "none"

(***************************************************************************)
(* While the runtime runs and its root domain is live, the client still   *)
(* owns the root Domain, so it can still shut the runtime down with        *)
(* jit::cleanup (spec 4.5: Running -> ShutDown).                           *)
(***************************************************************************)
CleanupAvailable == rt = "running" /\ dom[root] = "live" => root \in hd

=============================================================================
