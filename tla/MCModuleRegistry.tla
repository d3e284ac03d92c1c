-------------------------- MODULE MCModuleRegistry --------------------------
(* Calls, paths and selectors are interchangeable.                         *)
EXTENDS ModuleRegistry, TLC

Symmetric == Permutations(Lookups) \cup Permutations(Paths) \cup Permutations(Selectors)
=============================================================================
