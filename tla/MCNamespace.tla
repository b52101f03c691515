---------------------------- MODULE MCNamespace -----------------------------
(***************************************************************************)
(* Instances of Namespace for TLC: names as model values, interchangeable. *)
(***************************************************************************)
EXTENDS Namespace, TLC

CONSTANTS a, b

MCNames == {a, b}
NameSymmetry == Permutations(MCNames)
=============================================================================
