---------------------------- MODULE MCMemoryPool ----------------------------
(* Instances of MemoryPool for TLC. *)
EXTENDS MemoryPool, TLC

(* OS threads are interchangeable. *)
CallerSymmetry == Permutations(Callers)
=============================================================================
