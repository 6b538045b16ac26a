-------------------------- MODULE MCOrderLifecycle --------------------------
(* OrderLifecycle on a small instance: couriers and markets are interchangeable. *)
EXTENDS OrderLifecycle, TLC

MCSymmetry == Permutations(Couriers) \cup Permutations(Markets)
=============================================================================
