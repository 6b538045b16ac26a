----------------------------- MODULE MCDispatch -----------------------------
(***************************************************************************)
(* Dispatch on a small instance: two customers with a device each, an      *)
(* offer, an area, and two products of a market yet to be announced.       *)
(***************************************************************************)
EXTENDS Dispatch, TLC
CONSTANTS c1, c2, d1, d2, p1, p2, m1

MCOwner == (d1 :> c1) @@ (d2 :> c2)
MCHome == (p1 :> m1) @@ (p2 :> m1)
MCSymmetry == Permutations(Handlers) \cup Permutations(Workers) \cup Permutations(Products)
=============================================================================
