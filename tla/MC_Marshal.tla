----------------------------- MODULE MC_Marshal -----------------------------
(***************************************************************************)
(* Model-checking instance of Marshal.  Four classes in two namespaces,    *)
(* three fields, names that differ only in case (so from_name and         *)
(* from_name_case disagree), a &str with an interior NUL, and a variant    *)
(* image whose class name is not UTF-8.  c1 derives from c2, which         *)
(* declares interface c3, so c1 implements c3 only through its parent; c1  *)
(* is nested in c3, c4 is an array of c1, and the runtime gives every     *)
(* class that is not an array as its own element class.                   *)
(***************************************************************************)
EXTENDS Marshal, TLC

CONSTANTS c1, c2, c3, c4, f1, f2, f3, Abc, abc, Ns, Nul

\* The image of the passing runs: every name is UTF-8.
MCName == (c1 :> Abc) @@ (c2 :> abc) @@ (c3 :> Abc) @@ (c4 :> Ns)
MCNs == (c1 :> Ns) @@ (c2 :> Ns) @@ (c3 :> abc) @@ (c4 :> Ns)
MCFName == (f1 :> abc) @@ (f2 :> Ns) @@ (f3 :> abc)
MCParent == (f1 :> c1) @@ (f2 :> c1) @@ (f3 :> c2)
MCSuper == (c1 :> c2) @@ (c2 :> Null) @@ (c3 :> Null) @@ (c4 :> Null)
MCIfaces == (c1 :> {}) @@ (c2 :> {c3}) @@ (c3 :> {}) @@ (c4 :> {})
MCNest == (c1 :> c3) @@ (c2 :> Null) @@ (c3 :> Null) @@ (c4 :> Null)
MCElem == (c1 :> c1) @@ (c2 :> c2) @@ (c3 :> c3) @@ (c4 :> c1)
MCFold == (Abc :> abc) @@ (abc :> abc) @@ (Ns :> Ns) @@ (Nul :> Nul)

\* A variant image where class c2's name is not UTF-8.
MCBadName == (c1 :> Abc) @@ (c2 :> BadBytes) @@ (c3 :> Abc) @@ (c4 :> Ns)

\* The client calls every wrapper but ClassField::get_name.
MCClassCalls == Wrappers \ {"field_get_name"}

=============================================================================
