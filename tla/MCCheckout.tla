----------------------------- MODULE MCCheckout -----------------------------
(***************************************************************************)
(* Checkout on a small instance: two markets of the city and one that      *)
(* ships, two customers, and requests that share keys, offers, products    *)
(* and addresses.                                                          *)
(***************************************************************************)
EXTENDS Checkout, TLC
CONSTANTS m1, m2, m3, v1, v2, v3, f1, f2, f3, c1, c2, s1, s2

MCHome == (v1 :> m1) @@ (v2 :> m2) @@ (v3 :> m3)
MCCut == (v1 :> 15) @@ (v2 :> 0) @@ (v3 :> 0)
MCRows == (f1 :> << [variant |-> v1, quantity |-> 1, applies |-> FALSE],
                    [variant |-> v2, quantity |-> 2, applies |-> TRUE] >>)
          @@ (f2 :> << [variant |-> v2, quantity |-> 1, applies |-> TRUE] >>)
          @@ (f3 :> << [variant |-> v3, quantity |-> 1, applies |-> TRUE] >>)
MCPercent == (f1 :> 75) @@ (f2 :> 50) @@ (f3 :> 10)
MCOfferMarket == (f1 :> m1) @@ (f2 :> m2) @@ (f3 :> m3)
MCUseLimit == (f1 :> 1) @@ (f2 :> 2) @@ (f3 :> 1)
MCUserLimit == (f1 :> 1) @@ (f2 :> 1) @@ (f3 :> 1)
MCFirstPrice == (v1 :> 3333) @@ (v2 :> 20999) @@ (v3 :> 3333)
MCFirstRegion == (c1 :> "city") @@ (c2 :> "city")
MCFirstBook == (c1 :> (s1 :> "area" @@ s2 :> None)) @@ (c2 :> (s1 :> "area" @@ s2 :> "manual"))

Line(v, n) == [variant |-> v, quantity |-> n]
Both == [lines |-> <<Line(v1, 3), Line(v2, 1)>>, offers |-> <<f1, f2>>, route |-> <<m2>>]
Mixed == [lines |-> <<Line(v2, 1)>>, offers |-> <<f1, f2>>, route |-> << >>]
Shared == [lines |-> <<Line(v1, 1)>>, offers |-> <<f1>>, route |-> << >>]
Shipped == [lines |-> <<Line(v3, 1)>>, offers |-> <<f3>>, route |-> << >>]

Ask(c, by, key, s, cart) ==
    [client |-> c, by |-> by, key |-> key, slot |-> s, cart |-> cart]
MCAsks == {Ask(c1, "client", "k1", s1, Both),
           Ask(c1, "admin", "k1", s1, Mixed), Ask(c2, "client", "none", s1, Shared),
           Ask(c2, "client", "none", s2, Shipped)}

MCSymmetry == Permutations(Attempts)
=============================================================================
