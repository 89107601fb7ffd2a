----------------------------- MODULE MCScheduler -----------------------------
(* Instances of Scheduler for TLC. *)
EXTENDS Scheduler, TLC

(* Host OS threads are interchangeable. *)
HostSymmetry == Permutations(Hosts)
=============================================================================
