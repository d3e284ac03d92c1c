---------------------------- MODULE MCWasmRuntime ----------------------------
(***************************************************************************)
(* The safety instance of WasmRuntime.  The identities of instances are    *)
(* interchangeable, and it checks no liveness property.                    *)
(***************************************************************************)
EXTENDS WasmRuntime, TLC

InstanceSymmetry == Permutations(Instances)
=============================================================================
