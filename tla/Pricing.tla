------------------------------ MODULE Pricing ------------------------------
(***************************************************************************)
(* What a cart costs (orders/serializers.py, orders/pricing.py), in        *)
(* piastres.  A cart is a sequence of product lines and a sequence of      *)
(* offers; an offer is a percentage of the products it names, market by    *)
(* market.  A product that is in the cart counts with the cart's lines; one *)
(* that is not is added to the order, a line of the offer's own.           *)
(*                                                                         *)
(* The source prices a cart three times: for the preview                   *)
(* (_append_offer_market_groups), for the client's order (_order_groups)   *)
(* and for the dashboard's (_server_priced_lines).  The first two agree on *)
(* what an offer adds; the third remembers the lines it adds, so that the  *)
(* next offer finds them in the cart.  `kept' tells the third one apart.   *)
(* Paid additions are part of a line's price and are left out.             *)
(***************************************************************************)
EXTENDS Integers, SequencesExt

CONSTANTS
    Markets, Variants, Offers,
    Home,           \* Home[v]: the market that sells v
    Cut,            \* Cut[v]: its product's discount, in percent
    Rows,           \* Rows[o]: what the offer is made of, each variant once
    Percent,        \* Percent[o]: the offer's discount
    FreeDelivery,   \* offers of type "delivery"
    FeeRate         \* MULTI_MARKET_FEE_RATE, in percent

\* A row of an offer: so many of a variant, with or without its product's own discount.
Row == [variant: Variants, quantity: Nat \ {0}, applies: BOOLEAN]

ASSUME PricingConstants ==
    /\ Home \in [Variants -> Markets]
    /\ Cut \in [Variants -> 0..100] /\ Percent \in [Offers -> 0..100] /\ FeeRate \in 0..100
    /\ FreeDelivery \subseteq Offers
    /\ DOMAIN Rows = Offers
    /\ \A o \in Offers :
          /\ Rows[o] \in Seq(Row) /\ Len(Rows[o]) > 0
          /\ \A i, j \in DOMAIN Rows[o] : Rows[o][i].variant = Rows[o][j].variant => i = j

Largest(a, b) == IF a >= b THEN a ELSE b

\* _percentage_amount: to the piastre, half up
PercentageAmount(amount, percentage) == (amount * percentage + 50) \div 100

UnitPrice(price, v, applies) ==
    IF applies THEN Largest(price - PercentageAmount(price, Cut[v]), 0) ELSE price
-----------------------------------------------------------------------------
Selected(cart, v) == {i \in DOMAIN cart.lines : cart.lines[i].variant = v}

LineTotal(price, line) == UnitPrice(price[line.variant], line.variant, TRUE) * line.quantity

\* Rows of the cart's offers, as <<offer's place in the cart, row's place in the offer>>
Places(cart) == UNION {{i} \X DOMAIN Rows[cart.offers[i]] : i \in DOMAIN cart.offers}
RowAt(cart, p) == Rows[cart.offers[p[1]]][p[2]]

\* The place whose line the row at p counts with: its own, or that of the first offer to
\* have added the variant when added lines are kept.
Adder(cart, p, kept) ==
    LET same == {q \in Places(cart) :
                    q[1] <= p[1] /\ RowAt(cart, q).variant = RowAt(cart, p).variant}
    IN  IF kept THEN CHOOSE q \in same : \A r \in same : q[1] <= r[1] ELSE p

\* The line an offer adds is priced from `own', the cart's lines from `price': the two
\* may have been read at different moments.
AddedTotal(own, row) == UnitPrice(own[row.variant], row.variant, row.applies) * row.quantity

RowTotal(cart, p, price, own, kept) ==
    LET chosen == Selected(cart, RowAt(cart, p).variant)
    IN  IF chosen # {} THEN SumFunction([i \in chosen |-> LineTotal(price, cart.lines[i])])
        ELSE AddedTotal(own, RowAt(cart, Adder(cart, p, kept)))

\* Places whose row becomes a line of the order
Adding(cart, kept) ==
    {p \in Places(cart) : Selected(cart, RowAt(cart, p).variant) = {}
                          /\ Adder(cart, p, kept) = p}

Subtotal(cart, m, price, own, kept) ==
    LET lines == {i \in DOMAIN cart.lines : Home[cart.lines[i].variant] = m}
        added == {p \in Adding(cart, kept) : Home[RowAt(cart, p).variant] = m}
    IN  SumFunction([i \in lines |-> LineTotal(price, cart.lines[i])])
        + SumFunction([p \in added |-> AddedTotal(own, RowAt(cart, p))])

\* Each offer's discount on a market is rounded by itself.
OfferDiscount(cart, i, m, price, own, kept) ==
    LET part == {p \in Places(cart) : p[1] = i /\ Home[RowAt(cart, p).variant] = m}
    IN  PercentageAmount(SumFunction([p \in part |-> RowTotal(cart, p, price, own, kept)]),
                         Percent[cart.offers[i]])

Discount(cart, m, price, own, kept) ==
    SumFunction([i \in DOMAIN cart.offers |-> OfferDiscount(cart, i, m, price, own, kept)])
-----------------------------------------------------------------------------
\* The markets a cart buys from
Met(cart) == {Home[cart.lines[i].variant] : i \in DOMAIN cart.lines}
             \cup {Home[RowAt(cart, p).variant] : p \in Places(cart)}

\* ordered_market_ids: the markets the client put first, each once, then the others as
\* they are met, those of the lines before those of the offers.  Which is first matters.
Routable(cart) == ToSet(cart.route) \subseteq Met(cart) /\ IsInjective(cart.route)
FirstMarket(cart) ==
    IF cart.route # <<>> THEN cart.route[1]
    ELSE IF cart.lines # <<>> THEN Home[cart.lines[1].variant]
    ELSE Home[Rows[cart.offers[1]][1].variant]

\* calculate_multi_market_fee: nothing on the first market, a percentage of the others'
\* sum, rounded once, to the pound, half up
Fee(nets) ==
    LET due == SumFunction([m \in DOMAIN nets |-> Largest(nets[m], 0)])
    IN  ((due * FeeRate + 5000) \div 10000) * 100

Amounts(cart, price, own, kept) ==
    LET subtotal == [m \in Met(cart) |-> Subtotal(cart, m, price, own, kept)]
        discount == [m \in Met(cart) |-> Discount(cart, m, price, own, kept)]
    IN  [subtotal |-> SumFunction(subtotal), discount |-> SumFunction(discount),
         fee |-> Fee([m \in Met(cart) \ {FirstMarket(cart)} |-> subtotal[m] - discount[m]])]

HasFreeDelivery(cart) == ToSet(cart.offers) \cap FreeDelivery # {}

\* No product outside the cart is in two of its offers: where all three prices agree.
NoSharedAddition(cart) ==
    \A p, q \in Places(cart) :
       p[1] # q[1] /\ RowAt(cart, p).variant = RowAt(cart, q).variant =>
          Selected(cart, RowAt(cart, p).variant) # {}
=============================================================================
