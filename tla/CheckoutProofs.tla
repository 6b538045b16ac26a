--------------------------- MODULE CheckoutProofs ---------------------------
(***************************************************************************)
(* Theorems about Checkout, for any customers, carts, offers, limits and   *)
(* number of checkouts at once.  Keys, limits and erasure do not depend on *)
(* prices (Inv); what is quoted and charged comes after them (BillInv).    *)
(***************************************************************************)
EXTENDS Checkout, FiniteSetTheorems, SequenceTheorems, WellFoundedInduction, TLAPS

OrderRow(r) ==
    /\ r = [ask |-> r.ask, status |-> r.status, revived |-> r.revived,
            address |-> r.address, quoted |-> r.quoted, charged |-> r.charged]
    /\ r.ask \in Asks /\ r.status \in {"active", "done", "cancelled"}
    /\ r.revived \in BOOLEAN /\ r.address \in {"kept", "blank", "empty"}

AttemptRow(q) ==
    /\ q = [ask |-> q.ask, at |-> q.at, quoted |-> q.quoted,
            shop |-> q.shop, address |-> q.address]
    /\ q.ask \in Asks /\ q.at \in {"begun", "checked"} /\ q.address \in Address

\* A write under way; one of an order is about an order of the customer.
WriteRow(c, w) ==
    /\ w.kind \in Kinds
    /\ w.kind = "region" => w.to \in Regions
    /\ w.kind = "address" => w.slot \in Slots /\ w.to \in AddressKinds
    /\ w.kind = "order" =>
          /\ w.id \in DOMAIN orders /\ OrderRow(w.row) /\ w.text \in {"kept", "blank"}
          /\ w.row.ask = orders[w.id].ask /\ w.row.ask.client = c

RowInv ==
    /\ client \in [Clients -> [deleted: BOOLEAN, region: Regions, held: SUBSET Personal]]
    /\ book \in [Clients -> [Slots -> Address \cup {None}]]
    /\ attempt = [a \in Attempts |-> attempt[a]]
    /\ \A a \in Running : AttemptRow(attempt[a])
    /\ \E S : orders \in Seq(S)
    /\ \A i \in DOMAIN orders : OrderRow(orders[i])
    /\ write = [c \in Clients |-> write[c]]
    /\ \A c \in Clients : write[c] # None => WriteRow(c, write[c])
    /\ excuse \in [Clients -> SUBSET Kinds]

\* Checkouts of one customer take turns, so the key of one that runs is in no order yet.
TurnInv ==
    /\ \A a, b \in Running : a # b => attempt[a].ask.client # attempt[b].ask.client
    /\ \A a \in Running : SameKey(attempt[a].ask) = {}
    /\ \A i, j \in DOMAIN orders : j \in SameKey(orders[i].ask) => i = j
    /\ clash = FALSE

Used(o) == {i \in Uses(o) : ~orders[i].revived}
UsedBy(o, c) == {i \in Used(o) : orders[i].ask.client = c}

\* So do checkouts of one offer, from the count of its uses to the order: what they found
\* free is free.
OfferInv ==
    /\ \A a, b \in Running :
          a # b /\ attempt[a].at = "checked" /\ attempt[b].at = "checked" =>
             ToSet(attempt[a].ask.cart.offers) \cap ToSet(attempt[b].ask.cart.offers) = {}
    /\ \A a \in Running :
          attempt[a].at = "checked" =>
             \A o \in ToSet(attempt[a].ask.cart.offers) :
                /\ Cardinality(Used(o)) < UseLimit[o]
                /\ Cardinality(UsedBy(o, attempt[a].ask.client)) < UserLimit[o]
    /\ \A o \in Offers :
          /\ Cardinality(Used(o)) <= UseLimit[o]
          /\ \A c \in Clients : Cardinality(UsedBy(o, c)) <= UserLimit[o]

\* Nobody checks out for a deleted account; what a late write may bring back was excused.
EraseInv ==
    /\ \A a \in Running : ~client[attempt[a].ask.client].deleted
    /\ \A i \in DOMAIN orders : book[orders[i].ask.client][orders[i].ask.slot] # None
    /\ \A c \in Clients : client[c].deleted /\ write[c] # None =>
          /\ write[c].kind # "order" => write[c].kind \in excuse[c]
          /\ write[c].kind = "order" /\ "kept" \in {write[c].row.address, write[c].text}
             => excuse[c] \cap {"address", "order"} # {}
    /\ DeletedStaysErased

Inv == RowInv /\ TurnInv /\ OfferInv /\ EraseInv
-----------------------------------------------------------------------------
(* Sequences and counts.                                                   *)

LEMMA Appended ==
    ASSUME NEW S, NEW s \in Seq(S), NEW e
    PROVE  /\ Append(s, e) \in Seq(S \cup {e})
           /\ Len(s) \in Nat /\ DOMAIN s = 1..Len(s)
           /\ DOMAIN Append(s, e) = 1..(Len(s) + 1)
           /\ Append(s, e)[Len(s) + 1] = e
           /\ \A i \in DOMAIN s : Append(s, e)[i] = s[i]
<1>1. s \in Seq(S \cup {e})
    OBVIOUS
<1>. QED
    BY <1>1

LEMMA Updated ==
    ASSUME NEW S, NEW s \in Seq(S), NEW t, DOMAIN t = DOMAIN s, t = [i \in DOMAIN t |-> t[i]]
    PROVE  \E T : t \in Seq(T)
<1>1. Len(s) \in Nat /\ DOMAIN s = 1..Len(s)
    OBVIOUS
<1>. DEFINE T == {t[i] : i \in DOMAIN t}
<1>2. t \in [1..Len(s) -> T]
    BY <1>1
<1>. HIDE DEF T
<1>. QED
    BY <1>1, <1>2, SeqDef

\* What a request names.
LEMMA AskNames ==
    ASSUME CheckoutConstants, NEW ask \in Asks
    PROVE  /\ ask.client \in Clients /\ ask.slot \in Slots
           /\ ToSet(ask.cart.offers) \subseteq Offers
           /\ \A o \in ToSet(ask.cart.offers) : UseLimit[o] \in Nat /\ UserLimit[o] \in Nat
<1>1. ask.client \in Clients /\ ask.slot \in Slots /\ ask.cart \in Cart
    BY DEF CheckoutConstants
<1>2. ask.cart.offers \in Seq(Offers)
    BY <1>1 DEF Cart
<1>3. ToSet(ask.cart.offers) \subseteq Offers
    BY <1>2 DEF ToSet
<1>. QED
    BY <1>1, <1>3 DEF CheckoutConstants

\* The orders a limit counts are finitely many.
LEMMA Counts ==
    ASSUME Inv, NEW o, NEW c
    PROVE  /\ IsFiniteSet(DOMAIN orders)
           /\ IsFiniteSet(Uses(o)) /\ Cardinality(Uses(o)) \in Nat
           /\ IsFiniteSet(Used(o)) /\ Cardinality(Used(o)) \in Nat
           /\ IsFiniteSet(UsedBy(o, c)) /\ Cardinality(UsedBy(o, c)) \in Nat
<1>1. PICK S : orders \in Seq(S)
    BY DEF Inv, RowInv
<1>2. Len(orders) \in Nat /\ DOMAIN orders = 1..Len(orders)
    BY <1>1
<1>3. IsFiniteSet(DOMAIN orders)
    BY <1>2, FS_Interval
<1>4. Uses(o) \subseteq DOMAIN orders /\ Used(o) \subseteq DOMAIN orders
      /\ UsedBy(o, c) \subseteq DOMAIN orders
    BY DEF Uses, Used, UsedBy
<1>. QED
    BY <1>3, <1>4, FS_Subset, FS_CardinalityType
-----------------------------------------------------------------------------
(* The initial states.                                                     *)

LEMMA InitInv == CheckoutConstants /\ Init => Inv
<1>. SUFFICES ASSUME CheckoutConstants, Init PROVE Inv
    OBVIOUS
<1>1. /\ client = [c \in Clients |-> [deleted |-> FALSE, region |-> FirstRegion[c],
                                       held |-> Personal]]
      /\ book = [c \in Clients |-> [s \in Slots |->
                   IF FirstBook[c][s] = None THEN None ELSE NewAddress(FirstBook[c][s])]]
      /\ attempt = [a \in Attempts |-> None] /\ orders = <<>>
      /\ write = [c \in Clients |-> None]
      /\ clash = FALSE /\ excuse = [c \in Clients |-> {}]
    BY DEF Init
<1>2. Running = {} /\ DOMAIN orders = {}
    BY <1>1 DEF Running
<1>3. RowInv
    <2>1. client \in [Clients -> [deleted: BOOLEAN, region: Regions, held: SUBSET Personal]]
        BY <1>1 DEF CheckoutConstants
    <2>2. book \in [Clients -> [Slots -> Address \cup {None}]]
        BY <1>1 DEF CheckoutConstants, NewAddress, Address
    <2>3. orders \in Seq({})
        BY <1>1
    <2>. QED
        BY <1>1, <1>2, <2>1, <2>2, <2>3 DEF RowInv
<1>4. TurnInv
    BY <1>1, <1>2 DEF TurnInv
<1>5. OfferInv
    <2>1. (\A o : Used(o) = {}) /\ (\A o, c : UsedBy(o, c) = {})
        BY <1>2 DEF Uses, Used, UsedBy
    <2>2. \A o \in Offers : UseLimit[o] \in Nat /\ UserLimit[o] \in Nat
        BY DEF CheckoutConstants
    <2>3. \A o \in Offers : /\ Cardinality(Used(o)) <= UseLimit[o]
                            /\ \A c \in Clients : Cardinality(UsedBy(o, c)) <= UserLimit[o]
        <3>1. ASSUME NEW o, NEW c
              PROVE  Cardinality(Used(o)) = 0 /\ Cardinality(UsedBy(o, c)) = 0
            BY <2>1, FS_EmptySet
        <3>. QED
            BY <2>2, <3>1
    <2>. QED
        BY <1>2, <2>3 DEF OfferInv
<1>6. EraseInv
    BY <1>1, <1>2 DEF EraseInv, DeletedStaysErased
<1>. QED
    BY <1>3, <1>4, <1>5, <1>6 DEF Inv
-----------------------------------------------------------------------------
(* What a step must respect, if it is not one of a checkout.               *)

\* Checkouts go on as they were, or end.
AttemptsKept ==
    /\ attempt' = [a \in Attempts |-> attempt'[a]]
    /\ \A a \in Running' :
          /\ a \in Running /\ AttemptRow(attempt'[a])
          /\ attempt'[a].ask = attempt[a].ask /\ attempt'[a].at = attempt[a].at

\* Orders are edited; one that did not count towards a limit does not begin to.
OrdersKept ==
    /\ DOMAIN orders' = DOMAIN orders /\ orders' = [i \in DOMAIN orders' |-> orders'[i]]
    /\ \A i \in DOMAIN orders :
          /\ OrderRow(orders'[i]) /\ orders'[i].ask = orders[i].ask
          /\ orders'[i].status # "cancelled" /\ ~orders'[i].revived =>
                orders[i].status # "cancelled" /\ ~orders[i].revived

LEMMA SameAttempts ==
    ASSUME Inv, UNCHANGED attempt
    PROVE  AttemptsKept
BY DEF AttemptsKept, Running, Inv, RowInv

LEMMA SameOrders ==
    ASSUME Inv, UNCHANGED orders
    PROVE  OrdersKept
<1>1. PICK S : orders \in Seq(S)
    BY DEF Inv, RowInv
<1>2. orders = [i \in DOMAIN orders |-> orders[i]]
    BY <1>1
<1>. QED
    BY <1>2 DEF OrdersKept, Inv, RowInv

LEMMA UnquotedAttempts ==
    ASSUME Inv, attempt' = Unquoted
    PROVE  AttemptsKept
<1>1. attempt' = [a \in Attempts |-> Void(attempt[a])]
    BY DEF Unquoted
<1>2. ASSUME NEW a \in Running'
      PROVE  /\ a \in Running /\ AttemptRow(attempt'[a])
             /\ attempt'[a].ask = attempt[a].ask /\ attempt'[a].at = attempt[a].at
    <2>1. a \in Attempts /\ attempt'[a] = Void(attempt[a]) /\ attempt'[a] # None
        BY <1>1, <1>2 DEF Running
    <2>2. attempt[a] # None /\ attempt'[a] = [attempt[a] EXCEPT !.quoted = None]
        BY <2>1 DEF Void
    <2>3. a \in Running /\ AttemptRow(attempt[a])
        BY <2>1, <2>2 DEF Running, Inv, RowInv
    <2>. PICK q : q = attempt[a]
        OBVIOUS
    <2>. PICK r : r = [q EXCEPT !.quoted = None]
        OBVIOUS
    <2>4. r = [ask |-> q.ask, at |-> q.at, quoted |-> None, shop |-> q.shop,
               address |-> q.address]
        BY <2>3 DEF AttemptRow
    <2>5. AttemptRow(r) /\ r.ask = q.ask /\ r.at = q.at
        BY <2>3, <2>4 DEF AttemptRow
    <2>. QED
        BY <2>2, <2>3, <2>5
<1>. QED
    BY <1>1, <1>2 DEF AttemptsKept

LEMMA TurnKept ==
    ASSUME Inv, AttemptsKept, OrdersKept, UNCHANGED clash
    PROVE  TurnInv'
<1>1. \A a \in Running' : a \in Running /\ attempt'[a].ask = attempt[a].ask
    BY DEF AttemptsKept
<1>2. \A ask : SameKey(ask)' = SameKey(ask)
    BY DEF OrdersKept, SameKey
<1>. QED
    BY <1>1, <1>2 DEF OrdersKept, Inv, TurnInv

LEMMA OfferKept ==
    ASSUME CheckoutConstants, Inv, AttemptsKept, OrdersKept
    PROVE  OfferInv'
<1>1. \A a \in Running' : /\ a \in Running /\ attempt'[a].ask = attempt[a].ask
                          /\ attempt'[a].at = attempt[a].at
    BY DEF AttemptsKept
<1>2. \A o, c : Used(o)' \subseteq Used(o) /\ UsedBy(o, c)' \subseteq UsedBy(o, c)
    BY DEF OrdersKept, Used, UsedBy, Uses
<1>3. ASSUME NEW o, NEW c
      PROVE  /\ Cardinality(Used(o)') <= Cardinality(Used(o))
             /\ Cardinality(UsedBy(o, c)') <= Cardinality(UsedBy(o, c))
             /\ Cardinality(Used(o)) \in Nat /\ Cardinality(UsedBy(o, c)) \in Nat
             /\ Cardinality(Used(o)') \in Nat /\ Cardinality(UsedBy(o, c)') \in Nat
    BY <1>2, Counts, FS_Subset, FS_CardinalityType
<1>4. \A o \in Offers : UseLimit[o] \in Nat /\ UserLimit[o] \in Nat
    BY DEF CheckoutConstants
<1>5. \A a \in Running : ToSet(attempt[a].ask.cart.offers) \subseteq Offers
    BY AskNames DEF Inv, RowInv, AttemptRow
<1>6. ASSUME NEW a \in Running', attempt'[a].at = "checked",
             NEW o \in ToSet(attempt'[a].ask.cart.offers)
      PROVE  /\ Cardinality(Used(o)') < UseLimit[o]
             /\ (Cardinality(UsedBy(o, attempt[a].ask.client)) < UserLimit[o])'
    <2>1. /\ Cardinality(Used(o)) < UseLimit[o]
          /\ Cardinality(UsedBy(o, attempt[a].ask.client)) < UserLimit[o]
        BY <1>1, <1>6 DEF Inv, OfferInv
    <2>2. o \in Offers
        BY <1>1, <1>5, <1>6
    <2>. PICK c : c = attempt[a].ask.client
        OBVIOUS
    <2>3. attempt'[a].ask.client = c
        BY <1>1, <1>6
    <2>. QED
        BY <1>3, <1>4, <2>1, <2>2, <2>3
<1>7. ASSUME NEW o \in Offers
      PROVE  /\ Cardinality(Used(o)') <= UseLimit[o]
             /\ \A c \in Clients : Cardinality(UsedBy(o, c)') <= UserLimit[o]
    <2>1. /\ Cardinality(Used(o)) <= UseLimit[o]
          /\ \A c \in Clients : Cardinality(UsedBy(o, c)) <= UserLimit[o]
        BY DEF Inv, OfferInv
    <2>. QED
        BY <1>3, <1>4, <2>1
<1>8. \A a, b \in Running' :
         a # b /\ attempt'[a].at = "checked" /\ attempt'[b].at = "checked" =>
            ToSet(attempt'[a].ask.cart.offers) \cap ToSet(attempt'[b].ask.cart.offers) = {}
    BY <1>1 DEF Inv, OfferInv
<1>. QED
    BY <1>6, <1>7, <1>8 DEF OfferInv

LEMMA WritesStay ==
    ASSUME DOMAIN orders \subseteq DOMAIN orders',
           \A i \in DOMAIN orders : orders'[i].ask = orders[i].ask,
           NEW c, NEW w, WriteRow(c, w)
    PROVE  WriteRow(c, w)'
BY DEF WriteRow

LEMMA RowsKept ==
    ASSUME Inv, AttemptsKept, OrdersKept,
           client' \in [Clients -> [deleted: BOOLEAN, region: Regions, held: SUBSET Personal]],
           book' \in [Clients -> [Slots -> Address \cup {None}]],
           write' = [c \in Clients |-> write'[c]],
           \A c \in Clients : write'[c] # None => WriteRow(c, write'[c]),
           excuse' \in [Clients -> SUBSET Kinds]
    PROVE  RowInv'
<1>1. PICK S : orders \in Seq(S)
    BY DEF Inv, RowInv
<1>2. \E T : orders' \in Seq(T)
    BY <1>1, Updated DEF OrdersKept
<1>3. ASSUME NEW c \in Clients, write'[c] # None PROVE WriteRow(c, write[c])'
    <2>. PICK w : w = write'[c]
        OBVIOUS
    <2>1. WriteRow(c, w)'
        BY <1>3, WritesStay DEF OrdersKept
    <2>. QED
        BY <2>1
<1>4. \A a \in Running' : AttemptRow(attempt'[a])
    BY DEF AttemptsKept
<1>5. \A i \in DOMAIN orders' : OrderRow(orders'[i])
    BY DEF OrdersKept
<1>6. attempt' = [a \in Attempts |-> attempt'[a]]
    BY DEF AttemptsKept
<1>. QED
    BY <1>2, <1>3, <1>4, <1>5, <1>6 DEF RowInv, AttemptRow, OrderRow

\* Whether an order may still say where its deleted customer lives.
LEMMA EraseKept ==
    ASSUME Inv, AttemptsKept, UNCHANGED <<client, book, excuse>>,
           DOMAIN orders' = DOMAIN orders,
           \A i \in DOMAIN orders :
              /\ orders'[i].ask = orders[i].ask
              /\ client[orders[i].ask.client].deleted =>
                    /\ orders'[i].address = "kept"
                       => excuse[orders[i].ask.client] \cap {"address", "order"} # {}
                    /\ orders'[i].status = "active" => orders'[i].revived,
           \A c \in Clients : client[c].deleted /\ write'[c] # None => write'[c] = write[c]
    PROVE  EraseInv'
<1>1. \A a \in Running' : ~client'[attempt'[a].ask.client].deleted
    BY DEF AttemptsKept, Inv, EraseInv
<1>2. \A i \in DOMAIN orders' : book'[orders'[i].ask.client][orders'[i].ask.slot] # None
    BY DEF Inv, EraseInv
<1>3. DeletedStaysErased'
    BY DEF DeletedStaysErased, Inv, EraseInv
<1>4. \A c \in Clients : client'[c].deleted /\ write'[c] # None =>
          /\ write'[c].kind # "order" => write'[c].kind \in excuse'[c]
          /\ write'[c].kind = "order" /\ "kept" \in {write'[c].row.address, write'[c].text}
             => excuse'[c] \cap {"address", "order"} # {}
    BY DEF Inv, EraseInv
<1>. QED
    BY <1>1, <1>2, <1>3, <1>4 DEF EraseInv

\* An order of a deleted customer is as erased as the invariant says.
LEMMA KnownErased ==
    ASSUME CheckoutConstants, Inv, NEW i \in DOMAIN orders
    PROVE  /\ orders[i].ask.client \in Clients /\ orders[i].ask.slot \in Slots
           /\ client[orders[i].ask.client].deleted =>
                /\ orders[i].address = "kept"
                   => excuse[orders[i].ask.client] \cap {"address", "order"} # {}
                /\ orders[i].status = "active" => orders[i].revived
<1>1. orders[i].ask \in Asks
    BY DEF Inv, RowInv, OrderRow
<1>. QED
    BY <1>1, AskNames DEF Inv, EraseInv, DeletedStaysErased
-----------------------------------------------------------------------------
(* The steps of checkouts.                                                 *)

LEMMA OnlyAttempts ==
    ASSUME CheckoutConstants, Inv, AttemptsKept,
           UNCHANGED <<client, book, orders, write, clash, excuse>>
    PROVE  Inv'
<1>1. OrdersKept
    BY SameOrders
<1>2. RowInv'
    BY <1>1, RowsKept DEF Inv, RowInv
<1>3. EraseInv'
    BY EraseKept, KnownErased
<1>. QED
    BY <1>1, <1>2, <1>3, TurnKept, OfferKept DEF Inv

LEMMA LeaveStep ==
    ASSUME CheckoutConstants, Inv, NEW a \in Attempts, Leave(a)
    PROVE  Inv'
<1>1. attempt' = [attempt EXCEPT ![a] = None]
      /\ UNCHANGED <<client, book, orders, write, clash, excuse>>
    BY DEF Leave
<1>2. AttemptsKept
    BY <1>1 DEF AttemptsKept, Running, Inv, RowInv
<1>. QED
    BY <1>1, <1>2, OnlyAttempts

\* A checkout begins, or goes on to q.
LEMMA AttemptChange ==
    ASSUME CheckoutConstants, Inv, NEW a \in Attempts, NEW q, attempt' = [attempt EXCEPT ![a] = q],
           UNCHANGED <<client, book, orders, write, clash, excuse>>,
           AttemptRow(q), SameKey(q.ask) = {}, ~client[q.ask.client].deleted,
           \A b \in Running \ {a} :
              /\ attempt[b].ask.client # q.ask.client
              /\ q.at = "checked" /\ attempt[b].at = "checked" =>
                    ToSet(attempt[b].ask.cart.offers) \cap ToSet(q.ask.cart.offers) = {},
           q.at = "checked" =>
              \A o \in ToSet(q.ask.cart.offers) :
                 /\ Cardinality(Used(o)) < UseLimit[o]
                 /\ Cardinality(UsedBy(o, q.ask.client)) < UserLimit[o]
    PROVE  Inv'
<1>1. /\ attempt' = [b \in Attempts |-> attempt'[b]] /\ attempt'[a] = q
      /\ \A b \in Attempts \ {a} : attempt'[b] = attempt[b]
    BY DEF Inv, RowInv
<1>2. \A b \in Running' : b \in Attempts /\ (b # a => b \in Running /\ attempt'[b] = attempt[b])
    BY <1>1 DEF Running
<1>3. RowInv'
    <2>1. \A b \in Running' : AttemptRow(attempt'[b])
        BY <1>1, <1>2 DEF Inv, RowInv
    <2>2. ASSUME NEW c \in Clients, write'[c] # None PROVE WriteRow(c, write[c])'
        BY <2>2 DEF Inv, RowInv, WriteRow
    <2>3. RowInv
        BY DEF Inv
    <2>. QED
        BY <1>1, <2>1, <2>2, <2>3 DEF RowInv
<1>4. TurnInv'
    <2>1. \A b \in Running' : SameKey(attempt'[b].ask) = {}
        BY <1>1, <1>2 DEF Inv, TurnInv
    <2>2. \A b, d \in Running' : b # d => attempt'[b].ask.client # attempt'[d].ask.client
        BY <1>1, <1>2 DEF Inv, TurnInv
    <2>. QED
        BY <2>1, <2>2 DEF Inv, TurnInv, SameKey
<1>5. OfferInv'
    <2>1. \A b, d \in Running' :
             b # d /\ attempt'[b].at = "checked" /\ attempt'[d].at = "checked" =>
                ToSet(attempt'[b].ask.cart.offers) \cap ToSet(attempt'[d].ask.cart.offers) = {}
        BY <1>1, <1>2 DEF Inv, OfferInv
    <2>2. \A b \in Running' :
             attempt'[b].at = "checked" =>
                \A o \in ToSet(attempt'[b].ask.cart.offers) :
                   /\ Cardinality(Used(o)) < UseLimit[o]
                   /\ Cardinality(UsedBy(o, attempt'[b].ask.client)) < UserLimit[o]
        BY <1>1, <1>2 DEF Inv, OfferInv
    <2>3. \A o, c : Used(o)' = Used(o) /\ UsedBy(o, c)' = UsedBy(o, c)
        BY DEF Used, UsedBy, Uses
    <2>4. ASSUME NEW b \in Running', attempt'[b].at = "checked",
                 NEW o \in ToSet(attempt'[b].ask.cart.offers)
          PROVE  /\ Cardinality(Used(o)') < UseLimit[o]
                 /\ (Cardinality(UsedBy(o, attempt[b].ask.client)) < UserLimit[o])'
        <3>. PICK c : c = attempt'[b].ask.client
            OBVIOUS
        <3>1. Cardinality(Used(o)) < UseLimit[o] /\ Cardinality(UsedBy(o, c)) < UserLimit[o]
            BY <2>2, <2>4
        <3>2. /\ UsedBy(o, c)' = UsedBy(o, c)
              /\ Cardinality(Used(o)') = Cardinality(Used(o))
            BY <2>3
        <3>. QED
            BY <3>1, <3>2
    <2>5. \A o \in Offers :
             /\ Cardinality(Used(o)') <= UseLimit[o]
             /\ \A c \in Clients : Cardinality(UsedBy(o, c)') <= UserLimit[o]
        BY <2>3 DEF Inv, OfferInv
    <2>. QED
        BY <2>1, <2>4, <2>5 DEF OfferInv
<1>6. EraseInv'
    <2>1. \A b \in Running' : ~client[attempt'[b].ask.client].deleted
        BY <1>1, <1>2 DEF Inv, EraseInv
    <2>. QED
        BY <2>1 DEF Inv, EraseInv, DeletedStaysErased
<1>. QED
    BY <1>3, <1>4, <1>5, <1>6 DEF Inv

LEMMA BeginStep ==
    ASSUME CheckoutConstants, Inv, NEW a \in Attempts, NEW ask \in Asks, Begin(a, ask)
    PROVE  Inv'
<1>. PICK q : q = [ask |-> ask, at |-> "begun", quoted |-> Preview(ask),
                   shop |-> shop, address |-> book[ask.client][ask.slot]]
    OBVIOUS
<1>1. /\ attempt' = [attempt EXCEPT ![a] = q]
      /\ UserFree(ask.client) /\ ~client[ask.client].deleted /\ SameKey(ask) = {}
      /\ book[ask.client][ask.slot] # None
      /\ UNCHANGED <<client, book, orders, write, clash, excuse>>
    BY DEF Begin
<1>2. q.address \in Address
    <2>1. ask.client \in Clients /\ ask.slot \in Slots
        BY AskNames
    <2>2. book[ask.client][ask.slot] \in Address
        BY <1>1, <2>1 DEF Inv, RowInv
    <2>. QED
        BY <2>2
<1>3. AttemptRow(q) /\ q.ask = ask /\ q.at = "begun"
    BY <1>2 DEF AttemptRow
<1>. QED
    BY <1>1, <1>3, AttemptChange DEF UserFree

LEMMA CheckStep ==
    ASSUME CheckoutConstants, Inv, NEW a \in Attempts, Check(a)
    PROVE  Inv'
<1>. PICK old : old = attempt[a]
    OBVIOUS
<1>. PICK q : q = [old EXCEPT !.at = "checked"]
    OBVIOUS
<1>1. /\ a \in Running /\ attempt' = [attempt EXCEPT ![a] = q]
      /\ OffersFree(old.ask.cart)
      /\ UNCHANGED <<client, book, orders, write, clash, excuse>>
    BY DEF Check, Running
<1>2. AttemptRow(old)
    BY <1>1 DEF Inv, RowInv
<1>3. AttemptRow(q) /\ q.ask = old.ask
    BY <1>2 DEF AttemptRow
<1>4. \A o \in ToSet(old.ask.cart.offers) : \E region : Eligible(o, old.ask.client, region)
    BY DEF Check, ClientChecks, ClientMay, AdminChecks
<1>5. ASSUME NEW o \in ToSet(q.ask.cart.offers)
      PROVE  /\ Cardinality(Used(o)) < UseLimit[o]
             /\ Cardinality(UsedBy(o, q.ask.client)) < UserLimit[o]
    <2>. PICK c : c = old.ask.client
        OBVIOUS
    <2>1. /\ Cardinality(Uses(o)) < UseLimit[o]
          /\ Cardinality({i \in Uses(o) : orders[i].ask.client = c}) < UserLimit[o]
        BY <1>3, <1>4 DEF Eligible
    <2>2. /\ Used(o) \subseteq Uses(o)
          /\ UsedBy(o, c) \subseteq {i \in Uses(o) : orders[i].ask.client = c}
          /\ {i \in Uses(o) : orders[i].ask.client = c} \subseteq Uses(o)
        BY DEF Used, UsedBy
    <2>3. UseLimit[o] \in Nat /\ UserLimit[o] \in Nat
        BY <1>2, <1>3, AskNames DEF AttemptRow
    <2>. PICK S : S = {i \in Uses(o) : orders[i].ask.client = c}
        OBVIOUS
    <2>4. /\ Cardinality(Used(o)) <= Cardinality(Uses(o))
          /\ Cardinality(UsedBy(o, c)) <= Cardinality(S)
          /\ Cardinality(S) \in Nat /\ Cardinality(Uses(o)) \in Nat
          /\ Cardinality(Used(o)) \in Nat /\ Cardinality(UsedBy(o, c)) \in Nat
        BY <2>2, Counts, FS_Subset, FS_CardinalityType
    <2>. QED
        BY <1>3, <2>1, <2>3, <2>4
<1>6. ASSUME NEW b \in Running \ {a}
      PROVE  /\ attempt[b].ask.client # q.ask.client
             /\ attempt[b].at = "checked" =>
                   ToSet(attempt[b].ask.cart.offers) \cap ToSet(q.ask.cart.offers) = {}
    BY <1>1, <1>3 DEF OffersFree, Inv, TurnInv
<1>7. SameKey(q.ask) = {} /\ ~client[q.ask.client].deleted
    BY <1>1, <1>3 DEF Inv, TurnInv, EraseInv
<1>. QED
    BY <1>1, <1>3, <1>5, <1>6, <1>7, AttemptChange

LEMMA PlaceStep ==
    ASSUME CheckoutConstants, Inv, NEW a \in Attempts, Place(a)
    PROVE  Inv'
<1>. PICK q : q = attempt[a]
    OBVIOUS
<1>. PICK r : r = [ask |-> q.ask, status |-> "active", revived |-> FALSE,
                   address |-> q.address.text, quoted |-> q.quoted, charged |-> ChargeOf(a)]
    OBVIOUS
<1>1. /\ a \in Running /\ q.at = "checked" /\ AttemptRow(q)
      /\ SameKey(q.ask) = {} /\ ~client[q.ask.client].deleted
    BY DEF Place, Running, Inv, RowInv, TurnInv, EraseInv
<1>2. /\ orders' = Append(orders, r) /\ attempt' = [attempt EXCEPT ![a] = None]
      /\ book[q.ask.client][q.ask.slot] # None
      /\ UNCHANGED <<client, book, write, clash, excuse>>
    BY <1>1 DEF Place
<1>3. q.ask \in Asks /\ q.address \in Address
    BY <1>1 DEF AttemptRow
<1>4. OrderRow(r) /\ r.ask = q.ask /\ r.status = "active" /\ r.revived = FALSE
    BY <1>3 DEF OrderRow, Address
<1>. PICK n : n = Len(orders) + 1
    OBVIOUS
<1>5. /\ \E S : orders' \in Seq(S)
      /\ DOMAIN orders' = DOMAIN orders \cup {n} /\ n \notin DOMAIN orders
      /\ orders'[n] = r /\ \A i \in DOMAIN orders : orders'[i] = orders[i]
    <2>1. PICK S : orders \in Seq(S)
        BY DEF Inv, RowInv
    <2>2. /\ Append(orders, r) \in Seq(S \cup {r})
          /\ Len(orders) \in Nat /\ DOMAIN orders = 1..Len(orders)
          /\ DOMAIN Append(orders, r) = 1..(Len(orders) + 1)
          /\ Append(orders, r)[Len(orders) + 1] = r
          /\ \A i \in DOMAIN orders : Append(orders, r)[i] = orders[i]
        BY <2>1, Appended
    <2>3. 1..n = 1..Len(orders) \cup {n} /\ n \notin 1..Len(orders)
        BY <2>2
    <2>. QED
        BY <1>2, <2>2, <2>3
<1>6. /\ attempt' = [b \in Attempts |-> attempt'[b]]
      /\ \A b \in Running' : b \in Running /\ b # a /\ attempt'[b] = attempt[b]
    BY <1>2 DEF Running, Inv, RowInv
<1>7. RowInv'
    <2>1. ASSUME NEW c \in Clients, write'[c] # None PROVE WriteRow(c, write[c])'
        <3>. PICK w : w = write'[c]
            OBVIOUS
        <3>1. WriteRow(c, w)
            BY <1>2, <2>1 DEF Inv, RowInv
        <3>2. WriteRow(c, w)'
            BY <1>5, <3>1, WritesStay
        <3>. QED
            BY <3>2
    <2>2. \A b \in Running' : AttemptRow(attempt'[b])
        BY <1>6 DEF Inv, RowInv
    <2>3. \A i \in DOMAIN orders' : OrderRow(orders'[i])
        BY <1>4, <1>5 DEF Inv, RowInv
    <2>4. RowInv
        BY DEF Inv
    <2>. QED
        BY <1>2, <1>5, <1>6, <2>1, <2>2, <2>3, <2>4 DEF RowInv
<1>8. TurnInv'
    <2>1. \A b, d \in Running' : b # d => attempt'[b].ask.client # attempt'[d].ask.client
        BY <1>6 DEF Inv, TurnInv
    <2>2. \A ask : SameKey(ask)' \subseteq SameKey(ask) \cup {n}
        BY <1>5 DEF SameKey
    <2>3. \A ask : n \in SameKey(ask)' =>
             /\ ask.key # Keyless /\ ask.key = q.ask.key
             /\ ask.client = q.ask.client /\ ask.by = q.ask.by
        BY <1>4, <1>5 DEF SameKey
    <2>4. ASSUME NEW b \in Running' PROVE (SameKey(attempt[b].ask))' = {}
        <3>. PICK ask : ask = attempt'[b].ask
            OBVIOUS
        <3>1. SameKey(ask) = {} /\ ask.client # q.ask.client
            BY <1>1, <1>6 DEF Inv, TurnInv
        <3>2. SameKey(ask)' = {}
            BY <2>2, <2>3, <3>1
        <3>. QED
            BY <3>2
    <2>5. ASSUME NEW i \in DOMAIN orders', NEW j \in DOMAIN orders',
                 j \in (SameKey(orders[i].ask))'
          PROVE  i = j
        <3>1. /\ orders'[i].ask.key # Keyless /\ orders'[j].ask.key = orders'[i].ask.key
              /\ orders'[j].ask.client = orders'[i].ask.client
              /\ orders'[j].ask.by = orders'[i].ask.by
            BY <2>5 DEF SameKey
        <3>2. CASE i \in DOMAIN orders /\ j \in DOMAIN orders
            BY <1>5, <3>1, <3>2 DEF SameKey, Inv, TurnInv
        <3>3. CASE i = n /\ j \in DOMAIN orders
            <4>1. j \in SameKey(q.ask)
                BY <1>4, <1>5, <3>1, <3>3 DEF SameKey
            <4>. QED
                BY <1>1, <4>1
        <3>4. CASE i \in DOMAIN orders /\ j = n
            <4>1. i \in SameKey(q.ask)
                BY <1>4, <1>5, <3>1, <3>4 DEF SameKey
            <4>. QED
                BY <1>1, <4>1
        <3>. QED
            BY <1>5, <3>2, <3>3, <3>4
    <2>6. clash' = FALSE
        BY <1>2 DEF Inv, TurnInv
    <2>. QED
        BY <2>1, <2>4, <2>5, <2>6 DEF TurnInv
<1>9. OfferInv'
    <2>. DEFINE mine == ToSet(q.ask.cart.offers)
    <2>1. \A o : Used(o)' = IF o \in mine THEN Used(o) \cup {n} ELSE Used(o)
        BY <1>4, <1>5 DEF Used, Uses
    <2>2. \A o, c : UsedBy(o, c)' = IF o \in mine /\ c = q.ask.client
                                    THEN UsedBy(o, c) \cup {n} ELSE UsedBy(o, c)
        BY <1>4, <1>5 DEF UsedBy, Used, Uses
    <2>3. \A o, c : n \notin Used(o) /\ n \notin UsedBy(o, c)
        BY <1>5 DEF Used, UsedBy, Uses
    <2>. HIDE DEF mine
    <2>4. ASSUME NEW o, NEW c
          PROVE  /\ Cardinality(Used(o)) \in Nat /\ Cardinality(UsedBy(o, c)) \in Nat
                 /\ Cardinality(Used(o)') = Cardinality(Used(o)) + (IF o \in mine THEN 1 ELSE 0)
                 /\ Cardinality(UsedBy(o, c)') = Cardinality(UsedBy(o, c))
                        + (IF o \in mine /\ c = q.ask.client THEN 1 ELSE 0)
        <3>1. /\ IsFiniteSet(Used(o)) /\ Cardinality(Used(o)) \in Nat
              /\ IsFiniteSet(UsedBy(o, c)) /\ Cardinality(UsedBy(o, c)) \in Nat
            BY Counts
        <3>2. /\ Cardinality(Used(o) \cup {n}) = Cardinality(Used(o)) + 1
              /\ Cardinality(UsedBy(o, c) \cup {n}) = Cardinality(UsedBy(o, c)) + 1
            BY <2>3, <3>1, FS_AddElement
        <3>3. Cardinality(Used(o)') = Cardinality(Used(o)) + (IF o \in mine THEN 1 ELSE 0)
            <4>1. CASE o \in mine
                BY <2>1, <3>1, <3>2, <4>1
            <4>2. CASE o \notin mine
                BY <2>1, <3>1, <4>2
            <4>. QED
                BY <4>1, <4>2
        <3>4. CASE o \in mine /\ c = q.ask.client
            BY <2>2, <3>1, <3>2, <3>3, <3>4
        <3>5. CASE ~(o \in mine /\ c = q.ask.client)
            BY <2>2, <3>1, <3>3, <3>5
        <3>. QED
            BY <3>4, <3>5
    <2>5. \A o \in mine : Cardinality(Used(o)) < UseLimit[o]
                          /\ Cardinality(UsedBy(o, q.ask.client)) < UserLimit[o]
        BY <1>1 DEF Inv, OfferInv, mine
    <2>6. \A b, d \in Running' :
             b # d /\ attempt'[b].at = "checked" /\ attempt'[d].at = "checked" =>
                ToSet(attempt'[b].ask.cart.offers) \cap ToSet(attempt'[d].ask.cart.offers) = {}
        BY <1>6 DEF Inv, OfferInv
    <2>7. ASSUME NEW b \in Running', attempt'[b].at = "checked",
                 NEW o \in ToSet(attempt'[b].ask.cart.offers)
          PROVE  /\ Cardinality(Used(o)') < UseLimit[o]
                 /\ (Cardinality(UsedBy(o, attempt[b].ask.client)) < UserLimit[o])'
        <3>. PICK c : c = attempt'[b].ask.client
            OBVIOUS
        <3>1. Cardinality(Used(o)) < UseLimit[o] /\ Cardinality(UsedBy(o, c)) < UserLimit[o]
            BY <1>6, <2>7 DEF Inv, OfferInv
        <3>2. o \notin mine
            BY <1>1, <1>6, <2>7 DEF Inv, OfferInv, mine
        <3>3. /\ Cardinality(Used(o)') < UseLimit[o]
              /\ Cardinality(UsedBy(o, c)') < UserLimit[o]
            BY <2>4, <3>1, <3>2
        <3>. QED
            BY <3>3
    <2>8. ASSUME NEW o \in Offers
          PROVE  /\ Cardinality(Used(o)') <= UseLimit[o]
                 /\ \A c \in Clients : Cardinality(UsedBy(o, c)') <= UserLimit[o]
        <3>1. /\ Cardinality(Used(o)) <= UseLimit[o]
              /\ \A c \in Clients : Cardinality(UsedBy(o, c)) <= UserLimit[o]
            BY DEF Inv, OfferInv
        <3>2. UseLimit[o] \in Nat /\ UserLimit[o] \in Nat
            BY DEF CheckoutConstants
        <3>3. Cardinality(Used(o)') <= UseLimit[o]
            <4>1. /\ Cardinality(Used(o)) \in Nat
                  /\ Cardinality(Used(o)') = Cardinality(Used(o)) + (IF o \in mine THEN 1 ELSE 0)
                BY <2>4
            <4>. QED
                BY <2>5, <3>1, <3>2, <4>1
        <3>4. ASSUME NEW c \in Clients
              PROVE  Cardinality(UsedBy(o, c)') <= UserLimit[o]
            <4>1. CASE o \in mine /\ c = q.ask.client
                <5>1. Cardinality(UsedBy(o, c)) < UserLimit[o]
                    BY <2>5, <4>1
                <5>. QED
                    BY <2>4, <3>2, <4>1, <5>1
            <4>2. CASE ~(o \in mine /\ c = q.ask.client)
                BY <2>4, <3>1, <3>2, <4>2
            <4>. QED
                BY <4>1, <4>2
        <3>. QED
            BY <3>3, <3>4
    <2>. QED
        BY <2>6, <2>7, <2>8 DEF OfferInv
<1>10. EraseInv'
    <2>1. \A b \in Running' : ~client[attempt'[b].ask.client].deleted
        BY <1>6 DEF Inv, EraseInv
    <2>2. \A i \in DOMAIN orders' : book[orders'[i].ask.client][orders'[i].ask.slot] # None
        BY <1>2, <1>4, <1>5 DEF Inv, EraseInv
    <2>3. DeletedStaysErased'
        BY <1>1, <1>2, <1>4, <1>5 DEF Inv, EraseInv, DeletedStaysErased
    <2>. QED
        BY <1>2, <2>1, <2>2, <2>3 DEF Inv, EraseInv
<1>. QED
    BY <1>7, <1>8, <1>9, <1>10 DEF Inv
-----------------------------------------------------------------------------
(* What goes on meanwhile.                                                 *)

LEMMA ChangeShopStep ==
    ASSUME CheckoutConstants, Inv, ChangeShop
    PROVE  Inv'
BY UnquotedAttempts, OnlyAttempts DEF ChangeShop

LEMMA FinishStep ==
    ASSUME CheckoutConstants, Inv, NEW i \in DOMAIN orders, NEW status \in {"done", "cancelled"},
           Finish(i, status)
    PROVE  Inv'
<1>. PICK r : r = [orders[i] EXCEPT !.status = status]
    OBVIOUS
<1>1. /\ orders[i].status = "active" /\ orders' = [orders EXCEPT ![i] = r]
      /\ UNCHANGED <<client, book, attempt, write, clash, excuse>>
    BY DEF Finish
<1>2. OrderRow(orders[i])
    BY DEF Inv, RowInv
<1>3. /\ OrderRow(r) /\ r.ask = orders[i].ask /\ r.status = status
      /\ r.revived = orders[i].revived /\ r.address = orders[i].address
    BY <1>2 DEF OrderRow
<1>4. OrdersKept
    <2>1. DOMAIN orders' = DOMAIN orders /\ orders' = [j \in DOMAIN orders' |-> orders'[j]]
        BY <1>1
    <2>2. orders'[i] = r /\ \A j \in DOMAIN orders \ {i} : orders'[j] = orders[j]
        BY <1>1
    <2>. QED
        BY <1>1, <1>3, <2>1, <2>2 DEF OrdersKept, Inv, RowInv
<1>5. AttemptsKept
    BY <1>1, SameAttempts
<1>6. RowInv'
    BY <1>1, <1>4, <1>5, RowsKept DEF Inv, RowInv
<1>7. EraseInv'
    <2>1. orders'[i] = r /\ \A j \in DOMAIN orders \ {i} : orders'[j] = orders[j]
        BY <1>1
    <2>2. ASSUME NEW j \in DOMAIN orders, client[orders[j].ask.client].deleted
          PROVE  /\ orders'[j].address = "kept"
                    => excuse[orders[j].ask.client] \cap {"address", "order"} # {}
                 /\ orders'[j].status = "active" => orders'[j].revived
        <3>1. /\ orders[j].address = "kept"
                 => excuse[orders[j].ask.client] \cap {"address", "order"} # {}
              /\ orders[j].status = "active" => orders[j].revived
            BY <2>2, KnownErased
        <3>2. CASE j = i
            BY <1>3, <2>1, <3>1, <3>2
        <3>3. CASE j # i
            BY <2>1, <3>1, <3>3
        <3>. QED
            BY <3>2, <3>3
    <2>. QED
        BY <1>1, <1>4, <1>5, <2>2, EraseKept DEF OrdersKept
<1>. QED
    BY <1>1, <1>4, <1>5, <1>6, <1>7, TurnKept, OfferKept DEF Inv

LEMMA StartWriteStep ==
    ASSUME CheckoutConstants, Inv, NEW c \in Clients, StartWrite(c)
    PROVE  Inv'
<1>1. /\ UNCHANGED <<client, book, attempt, orders, clash, excuse>> /\ write[c] = None
    BY DEF StartWrite
<1>2. PICK w : /\ write' = [write EXCEPT ![c] = w] /\ WriteRow(c, w)
               /\ client[c].deleted =>
                     /\ w.kind = "order"
                     /\ "kept" \in {w.row.address, w.text}
                        => excuse[c] \cap {"address", "order"} # {}
    <2>1. CASE /\ ~client[c].deleted /\ write' = [write EXCEPT ![c] = [kind |-> "profile"]]
        <3>1. WriteRow(c, [kind |-> "profile"])
            BY DEF WriteRow, Kinds, Personal
        <3>. QED
            BY <2>1, <3>1
    <2>2. CASE \E r \in {"city", "general"} :
                  ~client[c].deleted
                  /\ write' = [write EXCEPT ![c] = [kind |-> "region", to |-> r]]
        <3>1. PICK r \in {"city", "general"} :
                  ~client[c].deleted
                  /\ write' = [write EXCEPT ![c] = [kind |-> "region", to |-> r]]
            BY <2>2
        <3>2. WriteRow(c, [kind |-> "region", to |-> r])
            BY DEF WriteRow, Kinds, Personal, Regions
        <3>. QED
            BY <3>1, <3>2
    <2>3. CASE \E s \in Slots, k \in AddressKinds :
                  ~client[c].deleted
                  /\ write' = [write EXCEPT ![c] =
                        [kind |-> "address", slot |-> s, new |-> book[c][s] = None, to |-> k]]
        <3>1. PICK s \in Slots, k \in AddressKinds :
                  ~client[c].deleted
                  /\ write' = [write EXCEPT ![c] =
                        [kind |-> "address", slot |-> s, new |-> book[c][s] = None, to |-> k]]
            BY <2>3
        <3>. PICK w : w = [kind |-> "address", slot |-> s, new |-> book[c][s] = None, to |-> k]
            OBVIOUS
        <3>2. w.kind = "address" /\ w.slot = s /\ w.to = k
            OBVIOUS
        <3>3. WriteRow(c, w)
            BY <3>2 DEF WriteRow, Kinds
        <3>. QED
            BY <3>1, <3>3
    <2>4. CASE \E i \in DOMAIN orders :
                  /\ orders[i].ask.client = c
                  /\ write' = [write EXCEPT ![c] =
                        [kind |-> "order", id |-> i, row |-> orders[i],
                         text |-> book[c][orders[i].ask.slot].text]]
        <3>1. PICK i \in DOMAIN orders :
                  /\ orders[i].ask.client = c
                  /\ write' = [write EXCEPT ![c] =
                        [kind |-> "order", id |-> i, row |-> orders[i],
                         text |-> book[c][orders[i].ask.slot].text]]
            BY <2>4
        <3>. PICK s : s = orders[i].ask.slot
            OBVIOUS
        <3>2. s \in Slots /\ OrderRow(orders[i]) /\ book[c][s] # None
            BY <3>1, KnownErased DEF Inv, RowInv, EraseInv
        <3>3. book[c][s] \in Address
            BY <3>2 DEF Inv, RowInv
        <3>. PICK w : w = [kind |-> "order", id |-> i, row |-> orders[i], text |-> book[c][s].text]
            OBVIOUS
        <3>4. /\ w.kind = "order" /\ w.id = i /\ w.row = orders[i]
              /\ w.text = book[c][s].text /\ w.text \in {"kept", "blank"}
            BY <3>3 DEF Address
        <3>5. WriteRow(c, w)
            BY <3>1, <3>2, <3>4 DEF WriteRow, Kinds
        <3>6. client[c].deleted /\ "kept" \in {w.row.address, w.text}
              => excuse[c] \cap {"address", "order"} # {}
            <4>1. client[c].deleted /\ orders[i].address = "kept"
                  => excuse[c] \cap {"address", "order"} # {}
                BY <3>1, KnownErased
            <4>2. client[c].deleted /\ book[c][s].text = "kept" => "address" \in excuse[c]
                BY <3>2 DEF Inv, EraseInv, DeletedStaysErased
            <4>. QED
                BY <3>4, <4>1, <4>2
        <3>. QED
            BY <3>1, <3>4, <3>5, <3>6
    <2>. QED
        BY <2>1, <2>2, <2>3, <2>4 DEF StartWrite
<1>3. /\ write' = [d \in Clients |-> write'[d]] /\ write'[c] = w
      /\ \A d \in Clients \ {c} : write'[d] = write[d]
    BY <1>2 DEF Inv, RowInv
<1>4. AttemptsKept /\ OrdersKept
    BY <1>1, SameAttempts, SameOrders
<1>5. RowInv'
    BY <1>1, <1>2, <1>3, <1>4, RowsKept DEF Inv, RowInv
<1>6. EraseInv'
    <2>1. \A a \in Running' : ~client[attempt'[a].ask.client].deleted
        BY <1>4 DEF AttemptsKept, Inv, EraseInv
    <2>2. \A d \in Clients : client[d].deleted /\ write'[d] # None =>
             /\ write'[d].kind # "order" => write'[d].kind \in excuse[d]
             /\ write'[d].kind = "order" /\ "kept" \in {write'[d].row.address, write'[d].text}
                => excuse[d] \cap {"address", "order"} # {}
        BY <1>2, <1>3 DEF Inv, EraseInv
    <2>3. DeletedStaysErased'
        BY <1>1 DEF Inv, EraseInv, DeletedStaysErased
    <2>. QED
        BY <1>1, <2>1, <2>2, <2>3 DEF Inv, EraseInv
<1>. QED
    BY <1>1, <1>4, <1>5, <1>6, TurnKept, OfferKept DEF Inv

\* A write is over.
LEMMA WriteEnds ==
    ASSUME Inv, NEW c \in Clients, write' = [write EXCEPT ![c] = None]
    PROVE  /\ write' = [d \in Clients |-> write'[d]]
           /\ \A d \in Clients : write'[d] # None => write'[d] = write[d] /\ d # c
BY DEF Inv, RowInv

LEMMA SavePersonalStep ==
    ASSUME CheckoutConstants, Inv, NEW c \in Clients, FinishWrite(c), SavePersonal(c)
    PROVE  Inv'
<1>. PICK old : old = client[c]
    OBVIOUS
<1>. PICK w : w = write[c]
    OBVIOUS
<1>. PICK row : row = [old EXCEPT !.held = @ \cup {w.kind},
                                  !.region = IF w.kind = "region" THEN w.to ELSE @]
    OBVIOUS
<1>1. /\ w # None /\ w.kind \in Personal /\ client' = [client EXCEPT ![c] = row]
      /\ attempt' = Unquoted \/ attempt' = attempt
      /\ write' = [write EXCEPT ![c] = None]
      /\ UNCHANGED <<book, orders, clash, excuse>>
    BY DEF SavePersonal, FinishWrite
<1>2. WriteRow(c, w)
    BY <1>1 DEF Inv, RowInv
<1>3. /\ row \in [deleted: BOOLEAN, region: Regions, held: SUBSET Personal]
      /\ row.deleted = old.deleted /\ row.held = old.held \cup {w.kind}
    <2>1. old \in [deleted: BOOLEAN, region: Regions, held: SUBSET Personal]
        BY DEF Inv, RowInv
    <2>. PICK region : region = IF w.kind = "region" THEN w.to ELSE old.region
        OBVIOUS
    <2>2. region \in Regions
        BY <1>2, <2>1 DEF WriteRow
    <2>. PICK held : held = old.held \cup {w.kind}
        OBVIOUS
    <2>3. held \subseteq Personal /\ old.deleted \in BOOLEAN
        BY <1>1, <2>1
    <2>4. row = [deleted |-> old.deleted, region |-> region, held |-> held]
        BY <2>1
    <2>. QED
        BY <2>2, <2>3, <2>4
<1>4. AttemptsKept /\ OrdersKept
    BY <1>1, UnquotedAttempts, SameAttempts, SameOrders
<1>5. RowInv'
    BY <1>1, <1>3, <1>4, WriteEnds, RowsKept DEF Inv, RowInv
<1>6. /\ client'[c] = row /\ \A d \in Clients \ {c} : client'[d] = client[d]
      /\ \A d \in Clients : client'[d].deleted = client[d].deleted
    BY <1>1, <1>3 DEF Inv, RowInv
<1>7. EraseInv'
    <2>1. \A a \in Running' : ~client'[attempt'[a].ask.client].deleted
        <3>1. \A a \in Running : attempt[a].ask.client \in Clients
            BY AskNames DEF Inv, RowInv, AttemptRow
        <3>. QED
            BY <1>4, <1>6, <3>1 DEF AttemptsKept, Inv, EraseInv
    <2>2. \A d \in Clients : client'[d].deleted /\ write'[d] # None =>
             /\ write'[d].kind # "order" => write'[d].kind \in excuse[d]
             /\ write'[d].kind = "order" /\ "kept" \in {write'[d].row.address, write'[d].text}
                => excuse[d] \cap {"address", "order"} # {}
        BY <1>1, <1>6, WriteEnds DEF Inv, EraseInv
    <2>3. old.deleted => w.kind \in excuse[c]
        BY <1>1 DEF Inv, EraseInv, Personal
    <2>4. \A d \in Clients : client'[d].deleted => client'[d].held \subseteq excuse[d]
        <3>1. \A d \in Clients : client[d].deleted => client[d].held \subseteq excuse[d]
            BY DEF Inv, EraseInv, DeletedStaysErased
        <3>2. client'[c].deleted => client'[c].held \subseteq excuse[c]
            BY <1>3, <1>6, <2>3, <3>1
        <3>. QED
            BY <1>6, <3>1, <3>2
    <2>5. DeletedStaysErased'
        BY <1>1, <1>6, <2>4 DEF Inv, EraseInv, DeletedStaysErased
    <2>. QED
        BY <1>1, <2>1, <2>2, <2>5 DEF Inv, EraseInv
<1>. QED
    BY <1>1, <1>4, <1>5, <1>7, TurnKept, OfferKept DEF Inv

LEMMA SaveOrderStep ==
    ASSUME CheckoutConstants, Inv, NEW c \in Clients, FinishWrite(c), SaveOrder(c)
    PROVE  Inv'
<1>. PICK w : w = write[c]
    OBVIOUS
<1>. PICK i : i = w.id
    OBVIOUS
<1>. PICK old : old = w.row
    OBVIOUS
<1>. PICK revived : revived = (old.revived \/ orders[i].revived \/ orders[i].status # old.status)
    OBVIOUS
<1>. PICK address : address = IF old.address = "empty" THEN w.text ELSE old.address
    OBVIOUS
<1>. PICK row : row = [old EXCEPT !.address = address, !.revived = revived]
    OBVIOUS
<1>1. /\ w # None /\ w.kind = "order"
      /\ write' = [write EXCEPT ![c] = None]
      /\ UNCHANGED <<client, book, attempt, clash, excuse>>
    BY DEF SaveOrder, FinishWrite
<1>2. orders' = [orders EXCEPT ![i] = row]
    BY DEF SaveOrder
<1>3. /\ i \in DOMAIN orders /\ OrderRow(old) /\ OrderRow(orders[i])
      /\ w.text \in {"kept", "blank"}
      /\ old.ask = orders[i].ask /\ old.ask.client = c
    BY <1>1 DEF Inv, RowInv, WriteRow
<1>4. /\ row.ask = orders[i].ask /\ row.status = old.status
      /\ row.address = address /\ row.revived = revived /\ OrderRow(row)
    BY <1>3 DEF OrderRow
<1>5. orders'[i] = row /\ \A j \in DOMAIN orders \ {i} : orders'[j] = orders[j]
    BY <1>2, <1>3
<1>6. OrdersKept
    <2>1. DOMAIN orders' = DOMAIN orders /\ orders' = [j \in DOMAIN orders' |-> orders'[j]]
        BY <1>2
    <2>2. row.status # "cancelled" /\ ~row.revived =>
             orders[i].status # "cancelled" /\ ~orders[i].revived
        BY <1>4
    <2>3. ASSUME NEW j \in DOMAIN orders
          PROVE  /\ OrderRow(orders'[j]) /\ orders'[j].ask = orders[j].ask
                 /\ orders'[j].status # "cancelled" /\ ~orders'[j].revived =>
                       orders[j].status # "cancelled" /\ ~orders[j].revived
        <3>1. CASE j = i
            <4>1. orders'[j] = row
                BY <1>5, <3>1
            <4>. QED
                BY <1>4, <2>2, <3>1, <4>1
        <3>2. CASE j # i
            BY <1>5, <3>2 DEF Inv, RowInv
        <3>. QED
            BY <3>1, <3>2
    <2>. QED
        BY <2>1, <2>3 DEF OrdersKept
<1>7. AttemptsKept
    BY <1>1, SameAttempts
<1>8. RowInv'
    BY <1>1, <1>6, <1>7, WriteEnds, RowsKept DEF Inv, RowInv
<1>9. EraseInv'
    <2>1. client[c].deleted =>
             /\ row.address = "kept" => excuse[c] \cap {"address", "order"} # {}
             /\ row.status = "active" => row.revived
        <3>1. client[c].deleted /\ "kept" \in {old.address, w.text}
              => excuse[c] \cap {"address", "order"} # {}
            BY <1>1 DEF Inv, EraseInv
        <3>2. client[c].deleted /\ orders[i].status = "active" => orders[i].revived
            BY <1>3, KnownErased
        <3>. QED
            BY <1>4, <3>1, <3>2
    <2>2. ASSUME NEW j \in DOMAIN orders, client[orders[j].ask.client].deleted
          PROVE  /\ orders'[j].address = "kept"
                    => excuse[orders[j].ask.client] \cap {"address", "order"} # {}
                 /\ orders'[j].status = "active" => orders'[j].revived
        <3>1. CASE j = i
            <4>1. orders[j].ask.client = c /\ orders'[j] = row
                BY <1>3, <1>5, <3>1
            <4>2. /\ row.address = "kept" => excuse[c] \cap {"address", "order"} # {}
                  /\ row.status = "active" => row.revived
                BY <2>1, <2>2, <4>1
            <4>. QED
                BY <4>1, <4>2
        <3>2. CASE j # i
            BY <1>5, <2>2, <3>2, KnownErased
        <3>. QED
            BY <3>1, <3>2
    <2>. QED
        BY <1>1, <1>6, <1>7, <2>2, WriteEnds, EraseKept DEF OrdersKept
<1>. QED
    BY <1>1, <1>6, <1>7, <1>8, <1>9, TurnKept, OfferKept DEF Inv

\* A row of c's address book becomes x: kept if an order names it, and not with anything
\* personal again once c is deleted, but for a write that was excused.
LEMMA BookChange ==
    ASSUME CheckoutConstants, Inv, NEW c \in Clients, NEW s \in Slots,
           NEW x \in Address \cup {None}, book' = [book EXCEPT ![c][s] = x], AttemptsKept,
           write' = write \/ write' = [write EXCEPT ![c] = None],
           UNCHANGED <<client, orders, clash, excuse>>,
           Linked(c, s) => x # None,
           client[c].deleted /\ x # None /\ x.text = "kept" => "address" \in excuse[c]
    PROVE  Inv'
<1>1. /\ book' \in [Clients -> [Slots -> Address \cup {None}]] /\ book'[c][s] = x
      /\ \A d \in Clients, t \in Slots : d # c \/ t # s => book'[d][t] = book[d][t]
    BY DEF Inv, RowInv
<1>2. /\ write' = [d \in Clients |-> write'[d]]
      /\ \A d \in Clients : write'[d] # None => write'[d] = write[d]
    BY WriteEnds DEF Inv, RowInv
<1>3. OrdersKept
    BY SameOrders
<1>4. RowInv'
    BY <1>1, <1>2, <1>3, RowsKept DEF Inv, RowInv
<1>5. EraseInv'
    <2>1. \A a \in Running' : ~client[attempt'[a].ask.client].deleted
        BY DEF AttemptsKept, Inv, EraseInv
    <2>2. ASSUME NEW i \in DOMAIN orders
          PROVE  book'[orders[i].ask.client][orders[i].ask.slot] # None
        <3>1. orders[i].ask.client \in Clients /\ orders[i].ask.slot \in Slots
            BY KnownErased
        <3>2. CASE orders[i].ask.client = c /\ orders[i].ask.slot = s
            BY <1>1, <3>2 DEF Linked
        <3>3. CASE ~(orders[i].ask.client = c /\ orders[i].ask.slot = s)
            BY <1>1, <3>1, <3>3 DEF Inv, EraseInv
        <3>. QED
            BY <3>2, <3>3
    <2>3. ASSUME NEW d \in Clients, client[d].deleted, NEW t \in Slots, book'[d][t] # None,
                 book'[d][t].text = "kept"
          PROVE  "address" \in excuse[d]
        <3>1. CASE d = c /\ t = s
            BY <1>1, <2>3, <3>1
        <3>2. CASE ~(d = c /\ t = s)
            BY <1>1, <2>3, <3>2 DEF Inv, EraseInv, DeletedStaysErased
        <3>. QED
            BY <3>1, <3>2
    <2>4. DeletedStaysErased'
        BY <2>3 DEF Inv, EraseInv, DeletedStaysErased
    <2>5. \A d \in Clients : client[d].deleted /\ write'[d] # None =>
             /\ write'[d].kind # "order" => write'[d].kind \in excuse[d]
             /\ write'[d].kind = "order" /\ "kept" \in {write'[d].row.address, write'[d].text}
                => excuse[d] \cap {"address", "order"} # {}
        BY <1>2 DEF Inv, EraseInv
    <2>. QED
        BY <2>1, <2>2, <2>4, <2>5 DEF EraseInv
<1>. QED
    BY <1>3, <1>4, <1>5, TurnKept, OfferKept DEF Inv

LEMMA SaveAddressStep ==
    ASSUME CheckoutConstants, Inv, NEW c \in Clients, FinishWrite(c), SaveAddress(c)
    PROVE  Inv'
<1>. PICK w : w = write[c]
    OBVIOUS
<1>. PICK s : s = w.slot
    OBVIOUS
<1>. PICK old : old = book[c][s]
    OBVIOUS
<1>1. /\ w # None /\ w.kind = "address" /\ attempt' = Unquoted
      /\ write' = [write EXCEPT ![c] = None]
      /\ UNCHANGED <<client, orders, clash, excuse>>
    BY DEF SaveAddress, FinishWrite
<1>2. s \in Slots /\ w.to \in AddressKinds
    BY <1>1 DEF Inv, RowInv, WriteRow
<1>3. old \in Address \cup {None} /\ book = [book EXCEPT ![c][s] = old]
    BY <1>2 DEF Inv, RowInv
<1>4. PICK x \in Address \cup {None} :
         book' = [book EXCEPT ![c][s] = x] /\ (old # None => x # None)
    <2>1. CASE w.new
        <3>1. book' = [book EXCEPT ![c][s] = NewAddress(w.to)] /\ old = None
            BY <2>1 DEF SaveAddress
        <3>2. NewAddress(w.to) \in Address
            BY <1>2 DEF NewAddress, Address
        <3>. QED
            BY <3>1, <3>2
    <2>2. CASE ~w.new /\ old = None
        <3>1. book' = book
            BY <2>2 DEF SaveAddress
        <3>. QED
            BY <1>3, <2>2, <3>1
    <2>3. CASE ~w.new /\ old # None
        <3>. PICK x : x = [old EXCEPT !.kind = w.to, !.text = "kept"]
            OBVIOUS
        <3>1. book' = [book EXCEPT ![c][s] = x]
            BY <2>3 DEF SaveAddress
        <3>2. x \in Address
            BY <1>2, <1>3, <2>3 DEF Address
        <3>3. x # None
            BY <3>2 DEF CheckoutConstants
        <3>. QED
            BY <3>1, <3>2, <3>3
    <2>. QED
        BY <2>1, <2>2, <2>3
<1>5. Linked(c, s) => old # None
    BY DEF Linked, Inv, EraseInv
<1>6. client[c].deleted => "address" \in excuse[c]
    BY <1>1 DEF Inv, EraseInv
<1>. QED
    BY <1>1, <1>2, <1>4, <1>5, <1>6, UnquotedAttempts, BookChange

LEMMA DeleteAddressStep ==
    ASSUME CheckoutConstants, Inv, NEW c \in Clients, NEW s \in Slots, DeleteAddress(c, s)
    PROVE  Inv'
<1>. PICK old : old = book[c][s]
    OBVIOUS
<1>1. /\ ~client[c].deleted /\ old # None /\ attempt' = Unquoted
      /\ UNCHANGED <<client, orders, write, clash, excuse>>
    BY DEF DeleteAddress
<1>2. old \in Address
    BY <1>1 DEF Inv, RowInv
<1>3. PICK x \in Address \cup {None} :
         book' = [book EXCEPT ![c][s] = x] /\ (Linked(c, s) => x # None)
    <2>1. CASE Linked(c, s)
        <3>. PICK x : x = [old EXCEPT !.live = FALSE]
            OBVIOUS
        <3>1. book' = [book EXCEPT ![c][s] = x]
            BY <2>1 DEF DeleteAddress
        <3>2. x \in Address
            BY <1>2 DEF Address
        <3>. QED
            BY <3>1, <3>2 DEF CheckoutConstants
    <2>2. CASE ~Linked(c, s)
        BY <2>2 DEF DeleteAddress
    <2>. QED
        BY <2>1, <2>2
<1>. QED
    BY <1>1, <1>3, UnquotedAttempts, BookChange

LEMMA DeleteAccountStep ==
    ASSUME CheckoutConstants, Inv, NEW c \in Clients, DeleteAccount(c)
    PROVE  Inv'
<1>. PICK row : row = [deleted |-> TRUE, region |-> "none", held |-> {}]
    OBVIOUS
<1>1. /\ UserFree(c) /\ attempt' = Unquoted
      /\ \A i \in DOMAIN orders : orders[i].ask.client = c => orders[i].status # "active"
      /\ client' = [client EXCEPT ![c] = row]
      /\ book' = [book EXCEPT ![c] = [s \in Slots |-> Erased(c, s)]]
      /\ orders' = [i \in DOMAIN orders |-> Detached(i, c)]
      /\ excuse' = [excuse EXCEPT ![c] = IF write[c] = None THEN {} ELSE {write[c].kind}]
      /\ UNCHANGED <<write, clash>>
    BY DEF DeleteAccount
<1>2. /\ client' \in [Clients -> [deleted: BOOLEAN, region: Regions, held: SUBSET Personal]]
      /\ client'[c].held = {} /\ \A d \in Clients \ {c} : client'[d] = client[d]
    BY <1>1 DEF Inv, RowInv, Regions
<1>3. \A i \in DOMAIN orders : OrderRow(orders[i])
    BY DEF Inv, RowInv
<1>4. ASSUME NEW i \in DOMAIN orders
      PROVE  /\ OrderRow(orders'[i]) /\ orders'[i].ask = orders[i].ask
             /\ orders'[i].status = orders[i].status /\ orders'[i].revived = orders[i].revived
             /\ orders[i].ask.client = c => orders'[i].address = "empty"
             /\ orders[i].ask.client # c => orders'[i] = orders[i]
    <2>. PICK r : r = orders[i]
        OBVIOUS
    <2>. PICK x : x = [r EXCEPT !.address = "empty"]
        OBVIOUS
    <2>1. OrderRow(r) /\ orders'[i] = IF r.ask.client = c THEN x ELSE r
        BY <1>1, <1>3 DEF Detached
    <2>2. /\ OrderRow(x) /\ x.ask = r.ask /\ x.status = r.status /\ x.revived = r.revived
          /\ x.address = "empty"
        BY <2>1 DEF OrderRow
    <2>. QED
        BY <2>1, <2>2
<1>5. OrdersKept
    BY <1>1, <1>4 DEF OrdersKept
<1>6. AttemptsKept
    BY <1>1, UnquotedAttempts
<1>7. \A s \in Slots :
         /\ Linked(c, s) => book[c][s] # None
         /\ Erased(c, s) \in Address \cup {None}
         /\ Linked(c, s) => Erased(c, s) # None
         /\ Erased(c, s) # None => Erased(c, s).text = "blank"
    <2>. TAKE s \in Slots
    <2>1. Linked(c, s) => book[c][s] # None
        BY DEF Linked, Inv, EraseInv
    <2>2. CASE Linked(c, s)
        <3>. PICK x : x = [book[c][s] EXCEPT !.text = "blank"]
            OBVIOUS
        <3>1. book[c][s] \in Address
            BY <2>1, <2>2 DEF Inv, RowInv
        <3>2. x \in Address /\ x.text = "blank"
            BY <3>1 DEF Address
        <3>3. Erased(c, s) = x
            BY <2>2 DEF Erased
        <3>. QED
            BY <2>1, <3>2, <3>3 DEF CheckoutConstants
    <2>3. CASE ~Linked(c, s)
        <3>1. Erased(c, s) = None
            BY <2>3 DEF Erased
        <3>. QED
            BY <2>3, <3>1
    <2>. QED
        BY <2>2, <2>3
<1>8. /\ book' \in [Clients -> [Slots -> Address \cup {None}]]
      /\ \A s \in Slots : book'[c][s] = Erased(c, s)
      /\ \A d \in Clients \ {c} : book'[d] = book[d]
    BY <1>1, <1>7 DEF Inv, RowInv
<1>9. /\ excuse' \in [Clients -> SUBSET Kinds]
      /\ write[c] # None => excuse'[c] = {write[c].kind}
      /\ \A d \in Clients \ {c} : excuse'[d] = excuse[d]
    <2>1. write[c] # None => write[c].kind \in Kinds
        BY DEF Inv, RowInv, WriteRow
    <2>. QED
        BY <1>1, <2>1 DEF Inv, RowInv
<1>10. RowInv'
    BY <1>1, <1>2, <1>5, <1>6, <1>8, <1>9, RowsKept DEF Inv, RowInv
<1>11. EraseInv'
    <2>1. \A a \in Running' : ~client'[attempt'[a].ask.client].deleted
        <3>1. \A a \in Running : attempt[a].ask.client \in Clients \ {c}
            BY <1>1, AskNames DEF UserFree, Inv, RowInv, AttemptRow
        <3>2. \A a \in Running' : a \in Running /\ attempt'[a].ask = attempt[a].ask
            BY <1>6 DEF AttemptsKept
        <3>3. \A a \in Running : ~client'[attempt[a].ask.client].deleted
            <4>. TAKE a \in Running
            <4>. PICK d \in Clients \ {c} : d = attempt[a].ask.client
                BY <3>1
            <4>1. ~client[d].deleted
                BY DEF Inv, EraseInv
            <4>. QED
                BY <1>2, <4>1
        <3>. QED
            BY <3>2, <3>3
    <2>2. ASSUME NEW i \in DOMAIN orders'
          PROVE  book'[orders'[i].ask.client][orders'[i].ask.slot] # None
        <3>1. /\ i \in DOMAIN orders /\ orders'[i].ask = orders[i].ask
              /\ orders[i].ask.client \in Clients /\ orders[i].ask.slot \in Slots
            BY <1>4, <1>5, KnownErased DEF OrdersKept
        <3>2. CASE orders[i].ask.client = c
            BY <1>7, <1>8, <3>1, <3>2 DEF Linked
        <3>3. CASE orders[i].ask.client # c
            BY <1>8, <3>1, <3>3 DEF Inv, EraseInv
        <3>. QED
            BY <3>2, <3>3
    <2>3. ASSUME NEW d \in Clients, client'[d].deleted, write'[d] # None
          PROVE  /\ write'[d].kind # "order" => write'[d].kind \in excuse'[d]
                 /\ write'[d].kind = "order" /\ "kept" \in {write'[d].row.address, write'[d].text}
                    => excuse'[d] \cap {"address", "order"} # {}
        <3>1. CASE d = c
            BY <1>1, <1>9, <2>3, <3>1
        <3>2. CASE d # c
            BY <1>1, <1>2, <1>9, <2>3, <3>2 DEF Inv, EraseInv
        <3>. QED
            BY <3>1, <3>2
    <2>4. ASSUME NEW d \in Clients, client'[d].deleted
          PROVE  /\ client'[d].held \subseteq excuse'[d]
                 /\ \A s \in {t \in Slots : book'[d][t] # None} :
                       book'[d][s].text = "kept" => "address" \in excuse'[d]
                 /\ \A i \in DOMAIN orders' : orders'[i].ask.client = d =>
                       /\ (orders'[i].address = "kept")
                          => excuse'[d] \cap {"address", "order"} # {}
                       /\ orders'[i].status = "active" => orders'[i].revived
        <3>. DOMAIN orders' = DOMAIN orders
            BY <1>5 DEF OrdersKept
        <3>1. CASE d = c
            <4>1. client'[d].held \subseteq excuse'[d]
                BY <1>2, <3>1
            <4>2. \A s \in Slots : book'[d][s] # None => book'[d][s].text = "blank"
                BY <1>7, <1>8, <3>1
            <4>3. ASSUME NEW i \in DOMAIN orders', orders'[i].ask.client = d
                  PROVE  orders'[i].address = "empty" /\ orders'[i].status # "active"
                <5>1. /\ i \in DOMAIN orders /\ orders[i].ask.client = c
                      /\ orders'[i].status = orders[i].status /\ orders'[i].address = "empty"
                    BY <1>4, <3>1, <4>3
                <5>. QED
                    BY <1>1, <5>1
            <4>. QED
                BY <4>1, <4>2, <4>3
        <3>2. CASE d # c
            <4>1. /\ client'[d] = client[d] /\ book'[d] = book[d] /\ excuse'[d] = excuse[d]
                  /\ client[d].deleted
                BY <1>2, <1>8, <1>9, <2>4, <3>2
            <4>2. client'[d].held \subseteq excuse'[d]
                BY <4>1 DEF Inv, EraseInv, DeletedStaysErased
            <4>3. \A s \in {t \in Slots : book'[d][t] # None} :
                     book'[d][s].text = "kept" => "address" \in excuse'[d]
                BY <4>1 DEF Inv, EraseInv, DeletedStaysErased
            <4>4. ASSUME NEW i \in DOMAIN orders', orders'[i].ask.client = d
                  PROVE  /\ (orders'[i].address = "kept")
                            => excuse'[d] \cap {"address", "order"} # {}
                         /\ orders'[i].status = "active" => orders'[i].revived
                <5>1. orders'[i] = orders[i] /\ orders[i].ask.client = d
                    BY <1>4, <3>2, <4>4
                <5>. QED
                    BY <4>1, <5>1 DEF Inv, EraseInv, DeletedStaysErased
            <4>. QED
                BY <4>2, <4>3, <4>4
        <3>. QED
            BY <3>1, <3>2
    <2>. QED
        BY <2>1, <2>2, <2>3, <2>4 DEF EraseInv, DeletedStaysErased
<1>. QED
    BY <1>1, <1>5, <1>6, <1>10, <1>11, TurnKept, OfferKept DEF Inv
-----------------------------------------------------------------------------
(* The theorems.                                                           *)

LEMMA StepInv ==
    ASSUME CheckoutConstants, Inv, [Next]_vars
    PROVE  Inv'
<1>1. CASE UNCHANGED vars
    BY <1>1, SameAttempts, OnlyAttempts DEF vars
<1>2. ASSUME NEW a \in Attempts, NEW ask \in Asks, Begin(a, ask) PROVE Inv'
    BY <1>2, BeginStep
<1>3. ASSUME NEW a \in Attempts, Check(a) \/ Place(a) \/ Leave(a) PROVE Inv'
    BY <1>3, CheckStep, PlaceStep, LeaveStep
<1>4. ASSUME NEW c \in Clients, StartWrite(c) PROVE Inv'
    BY <1>4, StartWriteStep
<1>5. ASSUME NEW c \in Clients, FinishWrite(c) PROVE Inv'
    BY <1>5, SavePersonalStep, SaveAddressStep, SaveOrderStep DEF FinishWrite
<1>6. ASSUME NEW c \in Clients, DeleteAccount(c) PROVE Inv'
    BY <1>6, DeleteAccountStep
<1>7. ASSUME NEW c \in Clients, NEW s \in Slots, DeleteAddress(c, s) PROVE Inv'
    BY <1>7, DeleteAddressStep
<1>8. ASSUME NEW i \in DOMAIN orders, NEW status \in {"done", "cancelled"}, Finish(i, status)
      PROVE  Inv'
    BY <1>8, FinishStep
<1>9. ASSUME ChangeShop PROVE Inv'
    BY <1>9, ChangeShopStep
<1>. QED
    BY <1>1, <1>2, <1>3, <1>4, <1>5, <1>6, <1>7, <1>8, <1>9 DEF Next

LEMMA Invariance == Spec => []Inv
BY InitInv, StepInv, CheckoutConstants, PTL DEF Spec

\* However many requests carry a key at once, one order answers it, and none of them ends
\* on the database's constraint: a checkout holds the customer's row from the moment it
\* looks the key up (resolve_order_target_user, existing_order_for_request).
THEOREM OneOrderPerKey == Spec => []KeyRaceAnswered
<1>1. Inv => KeyRaceAnswered
    <2>. SUFFICES ASSUME Inv, NEW i \in DOMAIN orders
                  PROVE  Cardinality(SameKey(orders[i].ask)) <= 1
        BY DEF KeyRaceAnswered, Inv, TurnInv
    <2>1. SameKey(orders[i].ask) \subseteq {i}
        BY DEF SameKey, Inv, TurnInv
    <2>2. IsFiniteSet({i}) /\ Cardinality({i}) = 1
        BY FS_Singleton
    <2>3. Cardinality(SameKey(orders[i].ask)) <= Cardinality({i})
        BY <2>1, <2>2, FS_Subset
    <2>. QED
        BY <2>1, <2>2, <2>3
<1>. QED
    BY <1>1, Invariance, PTL

\* Whatever the customers, offers and limits, checkouts at once never take more of an offer
\* than it has, in all or for one customer (validate_checkout_content, which counts the
\* uses under the offers' row locks).
THEOREM OffersAreNotOversold == Spec => []OfferLimits
<1>1. Inv => OfferLimits
    <2>. SUFFICES ASSUME Inv PROVE OfferLimits
        OBVIOUS
    <2>1. \A o, c : UsedBy(o, c) = {i \in {j \in Uses(o) : ~orders[j].revived} :
                                       orders[i].ask.client = c}
        BY DEF UsedBy, Used
    <2>2. \A o \in Offers : /\ Cardinality(Used(o)) <= UseLimit[o]
                            /\ \A c \in Clients : Cardinality(UsedBy(o, c)) <= UserLimit[o]
        BY DEF Inv, OfferInv
    <2>. QED
        BY <2>1, <2>2 DEF OfferLimits, Used
<1>. QED
    BY <1>1, Invariance, PTL

\* A deleted account keeps nothing personal and no order under way, but for what a request
\* that was past authentication at that moment writes after, however the orders of the
\* account are edited (permanently_delete_client_account, OrderSerializer.update).
THEOREM DeletionErases == Spec => []DeletedStaysErased
<1>1. Inv => DeletedStaysErased
    BY DEF Inv, EraseInv
<1>. QED
    BY <1>1, Invariance, PTL
-----------------------------------------------------------------------------
(* Bills: which row adds, which market counts, whatever the cart.          *)
\* A place is an offer of the cart and a row of it.
LEMMA PlaceIsRow ==
    ASSUME NEW cart, NEW p \in Places(cart)
    PROVE  /\ p = <<p[1], p[2]>> /\ p[1] \in DOMAIN cart.offers
           /\ p[2] \in DOMAIN Rows[cart.offers[p[1]]]
<1>1. PICK i \in DOMAIN cart.offers : p \in {i} \X DOMAIN Rows[cart.offers[i]]
    BY DEF Places
<1>. QED
    BY <1>1

\* Unless two offers add one product, keeping the lines that offers add changes nothing.
LEMMA OwnAdder ==
    ASSUME NEW cart \in Cart, NoSharedAddition(cart), NEW p \in Places(cart),
           Selected(cart, RowAt(cart, p).variant) = {}, NEW kept \in BOOLEAN
    PROVE  Adder(cart, p, kept) = p
<1>. DEFINE same == {q \in Places(cart) :
                       q[1] <= p[1] /\ RowAt(cart, q).variant = RowAt(cart, p).variant}
<1>1. ASSUME NEW q \in same PROVE q = p
    <2>1. q[1] = p[1]
        BY DEF NoSharedAddition
    <2>. PICK o \in Offers : o = cart.offers[p[1]]
        BY PlaceIsRow DEF Cart
    <2>2. q[2] \in DOMAIN Rows[o] /\ p[2] \in DOMAIN Rows[o]
        BY <2>1, PlaceIsRow
    <2>3. Rows[o][q[2]].variant = Rows[o][p[2]].variant
        BY <2>1 DEF RowAt
    <2>4. q[2] = p[2]
        BY <2>2, <2>3, PricingConstants
    <2>. QED
        BY <2>1, <2>4, PlaceIsRow
<1>2. p[1] \in Int
    BY PlaceIsRow DEF Cart
<1>3. p \in same
    BY <1>2
<1>. HIDE DEF same
<1>4. (CHOOSE q \in same : \A r \in same : q[1] <= r[1]) = p
    BY <1>1, <1>2, <1>3
<1>. QED
    BY <1>4 DEF Adder, same

\* So the dashboard and the preview price such a cart alike.
LEMMA SameAmounts ==
    ASSUME NEW cart \in Cart, NoSharedAddition(cart), NEW price, NEW own
    PROVE  Amounts(cart, price, own, TRUE) = Amounts(cart, price, own, FALSE)
<1>1. Adding(cart, TRUE) = Adding(cart, FALSE)
    BY OwnAdder DEF Adding
<1>2. \A m : Subtotal(cart, m, price, own, TRUE) = Subtotal(cart, m, price, own, FALSE)
    BY <1>1 DEF Subtotal
<1>3. \A p \in Places(cart) : RowTotal(cart, p, price, own, TRUE)
                              = RowTotal(cart, p, price, own, FALSE)
    BY OwnAdder DEF RowTotal
<1>4. ASSUME NEW i, NEW m
      PROVE  OfferDiscount(cart, i, m, price, own, TRUE)
             = OfferDiscount(cart, i, m, price, own, FALSE)
    <2>. DEFINE part == {p \in Places(cart) : p[1] = i /\ Home[RowAt(cart, p).variant] = m}
    <2>1. [p \in part |-> RowTotal(cart, p, price, own, TRUE)]
          = [p \in part |-> RowTotal(cart, p, price, own, FALSE)]
        BY <1>3
    <2>. QED
        BY <2>1 DEF OfferDiscount
<1>5. ASSUME NEW m PROVE Discount(cart, m, price, own, TRUE)
                         = Discount(cart, m, price, own, FALSE)
    <2>1. [i \in DOMAIN cart.offers |-> OfferDiscount(cart, i, m, price, own, TRUE)]
          = [i \in DOMAIN cart.offers |-> OfferDiscount(cart, i, m, price, own, FALSE)]
        BY <1>4
    <2>. QED
        BY <2>1 DEF Discount
<1>6. [m \in Met(cart) |-> Subtotal(cart, m, price, own, TRUE)]
      = [m \in Met(cart) |-> Subtotal(cart, m, price, own, FALSE)]
    BY <1>2
<1>7. [m \in Met(cart) |-> Discount(cart, m, price, own, TRUE)]
      = [m \in Met(cart) |-> Discount(cart, m, price, own, FALSE)]
    BY <1>5
<1>. QED
    BY <1>6, <1>7 DEF Amounts
-----------------------------------------------------------------------------
\* A cart that is not empty buys from some market.
LEMMA MetSome ==
    ASSUME NEW cart \in Cart, Len(cart.lines) + Len(cart.offers) > 0
    PROVE  Met(cart) # {}
<1>1. CASE cart.lines # <<>>
    <2>1. 1 \in DOMAIN cart.lines
        BY <1>1 DEF Cart
    <2>2. Home[cart.lines[1].variant] \in Met(cart)
        BY <2>1 DEF Met
    <2>. QED
        BY <2>2
<1>2. CASE cart.lines = <<>>
    <2>1. 1 \in DOMAIN cart.offers
        BY <1>2 DEF Cart
    <2>. PICK o \in Offers : o = cart.offers[1]
        BY <2>1 DEF Cart
    <2>2. 1 \in DOMAIN Rows[o]
        BY PricingConstants
    <2>3. <<1, 1>> \in Places(cart)
        BY <2>1, <2>2 DEF Places
    <2>4. Home[RowAt(cart, <<1, 1>>).variant] \in Met(cart)
        BY <2>3 DEF Met
    <2>. QED
        BY <2>4
<1>. QED
    BY <1>1, <1>2

\* An order is never charged less than nothing.
Capped(bill) == [bill EXCEPT !.total = Largest(@, 0)]

\* The first market decides an administrator's scope: where it is a city's, a market of
\* the city delivers.
LEMMA ScopeDelivers ==
    ASSUME NEW cart \in Cart,
           Len(cart.lines) + Len(cart.offers) > 0, NEW open, NEW cityOn,
           CartInRegion(cart, "city", open, cityOn), AdminScope(cart) # "general"
    PROVE  \E m \in Met(cart) : MarketDelivers(m, "city", cityOn)
<1>1. ASSUME NEW m \in Met(cart), m \notin GeneralMarkets, m \in CityMarkets, cityOn
      PROVE  MarketDelivers(m, "city", cityOn)
    BY <1>1 DEF MarketDelivers
<1>2. CASE cart.lines # <<>>
    <2>. DEFINE v == cart.lines[1].variant
    <2>1. 1 \in DOMAIN cart.lines
        BY <1>2 DEF Cart
    <2>2. Home[v] \in Met(cart) /\ v \in Bought(cart)
        BY <2>1 DEF Met, Bought
    <2>3. Home[v] \notin GeneralMarkets
        BY <1>2 DEF AdminScope
    <2>. HIDE DEF v
    <2>4. Home[v] \in CityMarkets /\ cityOn
        BY <2>2 DEF CartInRegion
    <2>. QED
        BY <1>1, <2>2, <2>3, <2>4
<1>3. CASE cart.lines = <<>>
    <2>1. 1 \in DOMAIN cart.offers
        BY <1>3 DEF Cart
    <2>. PICK o \in Offers : o = cart.offers[1]
        BY <2>1 DEF Cart
    <2>2. OfferMarket[o] \notin GeneralMarkets
        BY <1>3 DEF AdminScope
    <2>3. PICK j \in DOMAIN Rows[o] : OfferMarket[o] = Home[Rows[o][j].variant]
        BY OfferAtHome
    <2>. PICK v : v = Rows[o][j].variant
        OBVIOUS
    <2>4. <<1, j>> \in Places(cart)
        BY <2>1 DEF Places
    <2>5. RowAt(cart, <<1, j>>) = Rows[o][j]
        BY DEF RowAt
    <2>6. Home[v] \in Met(cart)
        BY <2>4, <2>5 DEF Met
    <2>7. v \in Offered(o) /\ o \in ToSet(cart.offers)
        BY <2>1 DEF Offered, ToSet
    <2>8. Home[v] \in CityMarkets /\ cityOn
        BY <2>7 DEF CartInRegion
    <2>. QED
        BY <1>1, <2>2, <2>3, <2>6, <2>8
<1>. QED
    BY <1>2, <1>3
-----------------------------------------------------------------------------
(* Sums.  Induction over the numbers that are in a set; the sum of a       *)
(* function over a finite set is the fold the library defines it by.       *)

LEMMA SetInduction ==
    ASSUME NEW T, 0 \in T, \A n \in T \cap Nat : n + 1 \in T
    PROVE  Nat \subseteq T
<1>. DEFINE R == OpToRel(<, Nat)
            Rest == Nat \ T
<1>1. IsWellFoundedOn(R, Nat)
    BY NatLessThanWellFounded
<1>2. SUFFICES ASSUME Rest # {} PROVE FALSE
    OBVIOUS
<1>3. PICK x \in Rest : \A y \in Rest : <<y, x>> \notin R
    <2>. HIDE DEF R
    <2>1. Rest \subseteq Nat
        OBVIOUS
    <2>. HIDE DEF Rest
    <2>. QED
        BY <1>1, <1>2, <2>1, WFMin
<1>4. x \in Nat /\ x # 0
    OBVIOUS
<1>5. <<x - 1, x>> \in R
    BY <1>4 DEF OpToRel
<1>. HIDE DEF R
<1>6. x - 1 \in T
    BY <1>3, <1>4, <1>5
<1>. QED
    BY <1>4, <1>6

\* A set of naturals has a least one.
LEMMA LeastOf ==
    ASSUME NEW S \in SUBSET Nat, S # {}
    PROVE  /\ \E x \in S : \A y \in S : x <= y
           /\ Min(S) \in S
<1>. DEFINE R == OpToRel(<, Nat)
<1>1. IsWellFoundedOn(R, Nat)
    BY NatLessThanWellFounded
<1>. HIDE DEF R
<1>2. PICK x \in S : \A y \in S : <<y, x>> \notin R
    BY <1>1, WFMin
<1>3. ASSUME NEW y \in S PROVE x <= y
    <2>1. <<y, x>> \in Nat \X Nat
        OBVIOUS
    <2>2. y < x => <<y, x>> \in R
        BY <2>1 DEF R, OpToRel
    <2>. QED
        BY <1>2, <2>2
<1>. QED
    BY <1>2, <1>3 DEF Min

Least(s) == CHOOSE x \in s : TRUE
Partial(f, s, g) == IF s = {} THEN 0 ELSE f[Least(s)] + g[s \ {Least(s)}]

\* A sum takes one element away and adds it to the sum of the rest.
LEMMA SumIsPartial ==
    ASSUME NEW f
    PROVE  SumFunction(f)
           = (CHOOSE g : g = [s \in SUBSET DOMAIN f |-> Partial(f, s, g)])[DOMAIN f]
BY DEF SumFunction, SumFunctionOnSet, FoldFunctionOnSet, MapThenFoldSet, Partial, Least

LEMMA Smaller ==
    ASSUME NEW D, IsFiniteSet(D), NEW s \in SUBSET D, s # {}
    PROVE  /\ Least(s) \in D /\ s \ {Least(s)} \in SUBSET D
           /\ Cardinality(s) \in Nat /\ Cardinality(s \ {Least(s)}) = Cardinality(s) - 1
           /\ Cardinality(s) # 0
<1>1. Least(s) \in s
    BY DEF Least
<1>2. IsFiniteSet(s)
    BY FS_Subset
<1>. QED
    BY <1>1, <1>2, FS_RemoveElement, FS_CardinalityType, FS_EmptySet

LEMMA OnlyEmpty ==
    ASSUME NEW D, IsFiniteSet(D), NEW s \in SUBSET D, Cardinality(s) <= 0
    PROVE  s = {}
<1>1. IsFiniteSet(s) /\ Cardinality(s) \in Nat
    BY FS_Subset, FS_CardinalityType
<1>. QED
    BY <1>1, FS_EmptySet

\* The fold exists on sets of each size, so it sums naturals to a natural.
LEMMA SumIsNat ==
    ASSUME NEW f, IsFiniteSet(DOMAIN f), \A x \in DOMAIN f : f[x] \in Nat
    PROVE  SumFunction(f) \in Nat
<1>. DEFINE D == DOMAIN f
            Upto(n) == {s \in SUBSET D : Cardinality(s) <= n}
            T == {n \in Nat : \E g : g = [s \in Upto(n) |-> Partial(f, s, g)]}
<1>1. \A s \in SUBSET D : Cardinality(s) \in Nat
    BY FS_Subset, FS_CardinalityType
<1>2. 0 \in T
    <2>1. \A s \in Upto(0) : s = {}
        BY <1>1, OnlyEmpty
    <2>. DEFINE g == [s \in Upto(0) |-> 0]
    <2>2. \A s \in Upto(0) : Partial(f, s, g) = 0
        BY <2>1 DEF Partial
    <2>3. g = [s \in Upto(0) |-> Partial(f, s, g)]
        BY <2>2
    <2>. QED
        BY <2>3
<1>3. ASSUME NEW n \in T PROVE n + 1 \in T
    <2>1. PICK g : g = [s \in Upto(n) |-> Partial(f, s, g)]
        OBVIOUS
    <2>. DEFINE h == [s \in Upto(n + 1) |-> Partial(f, s, g)]
    <2>2. ASSUME NEW s \in Upto(n + 1) PROVE Partial(f, s, g) = Partial(f, s, h)
        <3>1. CASE s = {}
            BY <3>1 DEF Partial
        <3>2. CASE s # {}
            <4>. PICK r : r = s \ {Least(s)}
                OBVIOUS
            <4>1. r \in Upto(n) /\ r \in Upto(n + 1)
                BY <3>2, Smaller
            <4>2. g[r] = h[r]
                BY <2>1, <4>1
            <4>. QED
                BY <4>2 DEF Partial
        <3>. QED
            BY <3>1, <3>2
    <2>3. h = [s \in Upto(n + 1) |-> Partial(f, s, h)]
        BY <2>2
    <2>4. n + 1 \in Nat
        OBVIOUS
    <2>. HIDE DEF h
    <2>. QED
        BY <2>3, <2>4
<1>4. Nat \subseteq T
    <2>. HIDE DEF T
    <2>. QED
        BY <1>2, <1>3, SetInduction
<1>5. PICK g : g = [s \in SUBSET D |-> Partial(f, s, g)]
    <2>1. Cardinality(D) \in T
        BY <1>1, <1>4
    <2>2. Upto(Cardinality(D)) = SUBSET D
        BY <1>1, FS_Subset
    <2>. QED
        BY <2>1, <2>2
<1>. DEFINE sum == CHOOSE h : h = [s \in SUBSET D |-> Partial(f, s, h)]
<1>6. sum = [s \in SUBSET D |-> Partial(f, s, sum)]
    BY <1>5
<1>7. SumFunction(f) = sum[D]
    BY SumIsPartial
<1>. HIDE DEF sum
<1>. DEFINE N == {n \in Nat : \A s \in Upto(n) : sum[s] \in Nat}
<1>8. 0 \in N
    <2>1. \A s \in Upto(0) : s = {}
        BY <1>1, OnlyEmpty
    <2>. QED
        BY <1>6, <2>1 DEF Partial
<1>9. ASSUME NEW n \in N PROVE n + 1 \in N
    <2>1. ASSUME NEW s \in Upto(n + 1) PROVE sum[s] \in Nat
        <3>1. CASE s = {}
            BY <1>6, <3>1 DEF Partial
        <3>2. CASE s # {}
            <4>. PICK r : r = s \ {Least(s)}
                OBVIOUS
            <4>1. r \in Upto(n) /\ f[Least(s)] \in Nat
                BY <3>2, Smaller
            <4>2. sum[r] \in Nat
                BY <4>1
            <4>3. s \in SUBSET D /\ sum[s] = Partial(f, s, sum)
                BY <1>6
            <4>. QED
                BY <3>2, <4>1, <4>2, <4>3 DEF Partial
        <3>. QED
            BY <3>1, <3>2
    <2>. QED
        BY <2>1
<1>10. Nat \subseteq N
    <2>. HIDE DEF N
    <2>. QED
        BY <1>8, <1>9, SetInduction
<1>. QED
    BY <1>1, <1>7, <1>10
-----------------------------------------------------------------------------
LEMMA FiniteImage ==
    ASSUME NEW f, IsFiniteSet(DOMAIN f)
    PROVE  IsFiniteSet({f[x] : x \in DOMAIN f})
<1>. DEFINE T == {f[x] : x \in DOMAIN f}
            g == [x \in DOMAIN f |-> f[x]]
<1>1. g \in Surjection(DOMAIN f, T)
    BY DEF Surjection
<1>. QED
    BY <1>1, FS_Surjection

LEMMA FiniteDomain ==
    ASSUME NEW S, NEW s \in Seq(S)
    PROVE  IsFiniteSet(DOMAIN s)
<1>1. Len(s) \in Nat /\ DOMAIN s = 1..Len(s)
    OBVIOUS
<1>. QED
    BY <1>1, FS_Interval

LEMMA FiniteCart ==
    ASSUME NEW cart \in Cart
    PROVE  /\ IsFiniteSet(DOMAIN cart.lines) /\ IsFiniteSet(DOMAIN cart.offers)
           /\ IsFiniteSet(Places(cart)) /\ IsFiniteSet(Met(cart))
<1>1. IsFiniteSet(DOMAIN cart.lines) /\ IsFiniteSet(DOMAIN cart.offers)
    <2>1. cart.lines \in Seq([variant: Variants, quantity: Nat \ {0}])
          /\ cart.offers \in Seq(Offers)
        BY DEF Cart
    <2>. QED
        BY <2>1, FiniteDomain
<1>2. IsFiniteSet(Places(cart))
    <2>. DEFINE f == [i \in DOMAIN cart.offers |-> {i} \X DOMAIN Rows[cart.offers[i]]]
    <2>1. ASSUME NEW i \in DOMAIN cart.offers PROVE IsFiniteSet(f[i])
        <3>. PICK o \in Offers : o = cart.offers[i]
            BY DEF Cart
        <3>1. Rows[o] \in Seq(Row)
            BY PricingConstants
        <3>2. IsFiniteSet(DOMAIN Rows[o])
            BY <3>1, FiniteDomain
        <3>. QED
            BY <3>2, FS_Singleton, FS_Product
    <2>2. DOMAIN f = DOMAIN cart.offers /\ Places(cart) = UNION {f[i] : i \in DOMAIN f}
        BY DEF Places
    <2>. HIDE DEF f
    <2>3. IsFiniteSet({f[i] : i \in DOMAIN f})
        BY <1>1, <2>2, FiniteImage
    <2>4. \A T \in {f[i] : i \in DOMAIN f} : IsFiniteSet(T)
        BY <2>1, <2>2
    <2>5. IsFiniteSet(UNION {f[i] : i \in DOMAIN f})
        BY <2>3, <2>4, FS_UNION
    <2>. QED
        BY <2>2, <2>5
<1>3. IsFiniteSet({Home[cart.lines[i].variant] : i \in DOMAIN cart.lines})
    <2>. DEFINE f == [i \in DOMAIN cart.lines |-> Home[cart.lines[i].variant]]
    <2>1. DOMAIN f = DOMAIN cart.lines
          /\ {Home[cart.lines[i].variant] : i \in DOMAIN cart.lines} = {f[i] : i \in DOMAIN f}
        OBVIOUS
    <2>. HIDE DEF f
    <2>2. IsFiniteSet({f[i] : i \in DOMAIN f})
        BY <1>1, <2>1, FiniteImage
    <2>. QED
        BY <2>1, <2>2
<1>4. IsFiniteSet({Home[RowAt(cart, p).variant] : p \in Places(cart)})
    <2>. DEFINE f == [p \in Places(cart) |-> Home[RowAt(cart, p).variant]]
    <2>1. DOMAIN f = Places(cart)
          /\ {Home[RowAt(cart, p).variant] : p \in Places(cart)} = {f[i] : i \in DOMAIN f}
        OBVIOUS
    <2>. HIDE DEF f
    <2>2. IsFiniteSet({f[i] : i \in DOMAIN f})
        BY <1>2, <2>1, FiniteImage
    <2>. QED
        BY <2>1, <2>2
<1>. QED
    BY <1>1, <1>2, <1>3, <1>4, FS_Union DEF Met

LEMMA ProductIsNat ==
    ASSUME NEW a \in Nat, NEW b \in Nat
    PROVE  a * b \in Nat
OBVIOUS

\* No part of a price is negative, from one product to a whole market.
LEMMA PercentageIsNat ==
    ASSUME NEW amount \in Nat, NEW percentage \in Nat
    PROVE  PercentageAmount(amount, percentage) \in Nat
<1>1. amount * percentage \in Nat
    BY ProductIsNat
<1>. QED
    BY <1>1 DEF PercentageAmount

Purse == [Variants -> Nat]

LEMMA UnitIsNat ==
    ASSUME NEW price \in Nat, NEW v \in Variants, NEW applies
    PROVE  UnitPrice(price, v, applies) \in Nat
<1>1. Cut[v] \in Nat
    <2>1. Cut \in [Variants -> 0..100]
        BY PricingConstants
    <2>2. \A n \in 0..100 : n \in Nat
        OBVIOUS
    <2>. QED
        BY <2>1, <2>2
<1>2. PercentageAmount(price, Cut[v]) \in Nat
    BY <1>1, PercentageIsNat
<1>. QED
    BY <1>2 DEF UnitPrice, Largest

LEMMA LineIsNat ==
    ASSUME NEW cart \in Cart, NEW price \in Purse,
           NEW i \in DOMAIN cart.lines
    PROVE  LineTotal(price, cart.lines[i]) \in Nat
<1>. PICK line : line = cart.lines[i]
    OBVIOUS
<1>1. line \in [variant: Variants, quantity: Nat \ {0}]
    <2>1. PICK S : S = [variant: Variants, quantity: Nat \ {0}]
        OBVIOUS
    <2>2. cart.lines \in Seq(S)
        BY <2>1 DEF Cart
    <2>3. line \in S
        BY <2>2
    <2>. QED
        BY <2>1, <2>3
<1>2. price[line.variant] \in Nat
    BY <1>1 DEF Purse
<1>3. UnitPrice(price[line.variant], line.variant, TRUE) \in Nat
    BY <1>1, <1>2, UnitIsNat
<1>. PICK u : u = UnitPrice(price[line.variant], line.variant, TRUE)
    OBVIOUS
<1>4. line.quantity \in Nat
    BY <1>1
<1>. PICK n : n = line.quantity
    OBVIOUS
<1>5. u * n \in Nat
    BY <1>3, <1>4, ProductIsNat
<1>. QED
    BY <1>5 DEF LineTotal

LEMMA AddedIsNat ==
    ASSUME NEW cart \in Cart, NEW own \in Purse, NEW p \in Places(cart)
    PROVE  AddedTotal(own, RowAt(cart, p)) \in Nat
<1>. PICK row : row = RowAt(cart, p)
    OBVIOUS
<1>1. row \in Row
    <2>. PICK o \in Offers : o = cart.offers[p[1]]
        BY PlaceIsRow DEF Cart
    <2>1. p[2] \in DOMAIN Rows[o] /\ row = Rows[o][p[2]]
        BY PlaceIsRow DEF RowAt
    <2>2. Rows[o] \in Seq(Row)
        BY PricingConstants
    <2>. QED
        BY <2>1, <2>2
<1>2. row.variant \in Variants /\ row.quantity \in Nat
    BY <1>1 DEF Row
<1>3. own[row.variant] \in Nat
    BY <1>2 DEF Purse
<1>4. UnitPrice(own[row.variant], row.variant, row.applies) \in Nat
    BY <1>2, <1>3, UnitIsNat
<1>. PICK u \in Nat, n \in Nat :
           u = UnitPrice(own[row.variant], row.variant, row.applies) /\ n = row.quantity
    BY <1>2, <1>4
<1>5. u * n \in Nat
    OBVIOUS
<1>. QED
    BY <1>5 DEF AddedTotal

\* Of the offers that name a product, one comes first.
LEMMA AdderIsPlace ==
    ASSUME NEW cart \in Cart, NEW p \in Places(cart), NEW kept
    PROVE  Adder(cart, p, kept) \in Places(cart)
<1>. DEFINE same == {q \in Places(cart) :
                       q[1] <= p[1] /\ RowAt(cart, q).variant = RowAt(cart, p).variant}
            firsts == {q[1] : q \in same}
<1>1. \A q \in Places(cart) : q[1] \in Nat
    BY PlaceIsRow DEF Cart
<1>2. p \in same
    BY <1>1
<1>3. firsts \in SUBSET Nat /\ p[1] \in firsts
    BY <1>1, <1>2
<1>. HIDE DEF firsts
<1>4. PICK n \in firsts : \A m \in firsts : n <= m
    BY <1>3, LeastOf
<1>5. PICK q \in same : q[1] = n
    BY <1>4 DEF firsts
<1>6. \A r \in same : q[1] <= r[1]
    BY <1>4, <1>5 DEF firsts
<1>. DEFINE first == CHOOSE x \in same : \A r \in same : x[1] <= r[1]
<1>7. first \in same
    BY <1>5, <1>6
<1>. QED
    BY <1>2, <1>7 DEF Adder

LEMMA RowIsNat ==
    ASSUME NEW cart \in Cart, NEW price \in Purse, NEW own \in Purse,
           NEW kept, NEW p \in Places(cart)
    PROVE  RowTotal(cart, p, price, own, kept) \in Nat
<1>. DEFINE chosen == Selected(cart, RowAt(cart, p).variant)
            f == [i \in chosen |-> LineTotal(price, cart.lines[i])]
<1>1. chosen \subseteq DOMAIN cart.lines
    BY DEF Selected
<1>2. IsFiniteSet(chosen)
    BY <1>1, FiniteCart, FS_Subset
<1>3. DOMAIN f = chosen /\ \A i \in DOMAIN f : f[i] \in Nat
    BY <1>1, LineIsNat
<1>. HIDE DEF f
<1>4. SumFunction(f) \in Nat
    BY <1>2, <1>3, SumIsNat
<1>5. AddedTotal(own, RowAt(cart, Adder(cart, p, kept))) \in Nat
    BY AdderIsPlace, AddedIsNat
<1>. QED
    BY <1>4, <1>5 DEF RowTotal, f

LEMMA SubtotalIsNat ==
    ASSUME NEW cart \in Cart, NEW price \in Purse, NEW own \in Purse,
           NEW kept, NEW m
    PROVE  Subtotal(cart, m, price, own, kept) \in Nat
<1>. DEFINE lines == {i \in DOMAIN cart.lines : Home[cart.lines[i].variant] = m}
            added == {p \in Adding(cart, kept) : Home[RowAt(cart, p).variant] = m}
            f == [i \in lines |-> LineTotal(price, cart.lines[i])]
            g == [p \in added |-> AddedTotal(own, RowAt(cart, p))]
<1>1. lines \subseteq DOMAIN cart.lines /\ added \subseteq Places(cart)
    BY DEF Adding
<1>2. IsFiniteSet(lines) /\ IsFiniteSet(added)
    BY <1>1, FiniteCart, FS_Subset
<1>3. DOMAIN f = lines /\ \A i \in DOMAIN f : f[i] \in Nat
    BY <1>1, LineIsNat
<1>4. DOMAIN g = added /\ \A p \in DOMAIN g : g[p] \in Nat
    BY <1>1, AddedIsNat
<1>5. Subtotal(cart, m, price, own, kept) = SumFunction(f) + SumFunction(g)
    BY DEF Subtotal
<1>. HIDE DEF f, g, lines, added
<1>. QED
    BY <1>2, <1>3, <1>4, <1>5, SumIsNat

LEMMA OfferDiscountIsNat ==
    ASSUME NEW cart \in Cart, NEW price \in Purse, NEW own \in Purse,
           NEW kept, NEW i \in DOMAIN cart.offers, NEW m
    PROVE  OfferDiscount(cart, i, m, price, own, kept) \in Nat
<1>. DEFINE part == {p \in Places(cart) : p[1] = i /\ Home[RowAt(cart, p).variant] = m}
            f == [p \in part |-> RowTotal(cart, p, price, own, kept)]
<1>1. IsFiniteSet(part)
    BY FiniteCart, FS_Subset
<1>2. DOMAIN f = part /\ \A p \in DOMAIN f : f[p] \in Nat
    BY RowIsNat
<1>3. OfferDiscount(cart, i, m, price, own, kept)
      = PercentageAmount(SumFunction(f), Percent[cart.offers[i]])
    BY DEF OfferDiscount
<1>. HIDE DEF f, part
<1>4. SumFunction(f) \in Nat
    BY <1>1, <1>2, SumIsNat
<1>5. Percent[cart.offers[i]] \in Nat
    <2>. PICK o \in Offers : o = cart.offers[i]
        BY DEF Cart
    <2>1. Percent \in [Offers -> 0..100]
        BY PricingConstants
    <2>2. \A n \in 0..100 : n \in Nat
        OBVIOUS
    <2>. QED
        BY <2>1, <2>2
<1>. PICK sum, percentage : sum = SumFunction(f) /\ percentage = Percent[cart.offers[i]]
    OBVIOUS
<1>6. PercentageAmount(sum, percentage) \in Nat
    BY <1>4, <1>5, PercentageIsNat
<1>. QED
    BY <1>3, <1>6

LEMMA DiscountIsNat ==
    ASSUME NEW cart \in Cart, NEW price \in Purse, NEW own \in Purse,
           NEW kept, NEW m
    PROVE  Discount(cart, m, price, own, kept) \in Nat
<1>. DEFINE f == [i \in DOMAIN cart.offers |-> OfferDiscount(cart, i, m, price, own, kept)]
<1>1. DOMAIN f = DOMAIN cart.offers /\ \A i \in DOMAIN f : f[i] \in Nat
    BY OfferDiscountIsNat
<1>2. Discount(cart, m, price, own, kept) = SumFunction(f)
    BY DEF Discount
<1>. HIDE DEF f
<1>. QED
    BY <1>1, <1>2, FiniteCart, SumIsNat

LEMMA FeeIsNat ==
    ASSUME NEW nets, IsFiniteSet(DOMAIN nets),
           \A m \in DOMAIN nets : nets[m] \in Int
    PROVE  Fee(nets) \in Nat
<1>. DEFINE f == [m \in DOMAIN nets |-> Largest(nets[m], 0)]
<1>1. DOMAIN f = DOMAIN nets /\ \A m \in DOMAIN f : f[m] \in Nat
    BY DEF Largest
<1>2. Fee(nets) = ((SumFunction(f) * FeeRate + 5000) \div 10000) * 100
    BY DEF Fee
<1>. HIDE DEF f
<1>3. SumFunction(f) \in Nat
    BY <1>1, SumIsNat
<1>4. FeeRate \in Nat
    BY PricingConstants
<1>5. SumFunction(f) * FeeRate \in Nat
    BY <1>3, <1>4, ProductIsNat
<1>6. \A d \in Nat : ((d + 5000) \div 10000) * 100 \in Nat
    OBVIOUS
<1>. QED
    BY <1>2, <1>5, <1>6

\* What a cart comes to is no negative amount.
LEMMA AmountsAreNats ==
    ASSUME NEW cart \in Cart, NEW price \in Purse, NEW own \in Purse,
           NEW kept
    PROVE  /\ Amounts(cart, price, own, kept).subtotal \in Nat
           /\ Amounts(cart, price, own, kept).discount \in Nat
           /\ Amounts(cart, price, own, kept).fee \in Nat
<1>. DEFINE subtotal == [m \in Met(cart) |-> Subtotal(cart, m, price, own, kept)]
            discount == [m \in Met(cart) |-> Discount(cart, m, price, own, kept)]
            others == Met(cart) \ {FirstMarket(cart)}
            nets == [m \in others |-> subtotal[m] - discount[m]]
<1>1. DOMAIN subtotal = Met(cart) /\ \A m \in Met(cart) : subtotal[m] \in Nat
    BY SubtotalIsNat
<1>2. DOMAIN discount = Met(cart) /\ \A m \in Met(cart) : discount[m] \in Nat
    BY DiscountIsNat
<1>3. Amounts(cart, price, own, kept)
      = [subtotal |-> SumFunction(subtotal), discount |-> SumFunction(discount),
         fee |-> Fee(nets)]
    BY DEF Amounts
<1>. HIDE DEF subtotal, discount
<1>4. DOMAIN nets = others /\ \A m \in DOMAIN nets : nets[m] \in Int
    BY <1>1, <1>2
<1>5. IsFiniteSet(others)
    BY FiniteCart, FS_Difference
<1>. HIDE DEF nets
<1>6. Fee(nets) \in Nat
    BY <1>4, <1>5, FeeIsNat
<1>7. SumFunction(subtotal) \in Nat /\ SumFunction(discount) \in Nat
    BY <1>1, <1>2, FiniteCart, SumIsNat
<1>. QED
    BY <1>3, <1>6, <1>7
-----------------------------------------------------------------------------
(* Bills.                                                                  *)

LEMMA PricedIsBill ==
    ASSUME NEW cart \in Cart, NEW price \in Purse, NEW own \in Purse,
           NEW kept, NEW delivery \in Nat \cup {None}
    PROVE  Priced(cart, Amounts(cart, price, own, kept), delivery) \in Bill
<1>. PICK a : a = Amounts(cart, price, own, kept)
    OBVIOUS
<1>1. a.subtotal \in Nat /\ a.discount \in Nat /\ a.fee \in Nat
    BY AmountsAreNats
<1>. PICK asked : asked = IF HasFreeDelivery(cart) \/ delivery = None THEN 0 ELSE delivery
    OBVIOUS
<1>2. asked \in Nat
    OBVIOUS
<1>3. Priced(cart, a, delivery)
      = [subtotal |-> a.subtotal, discount |-> a.discount, fee |-> a.fee, delivery |-> asked,
         total |-> a.subtotal - a.discount + a.fee + asked]
    BY DEF Priced
<1>. QED
    BY <1>1, <1>2, <1>3 DEF Bill

LEMMA ShopIsPurse ==
    ASSUME NEW s \in Shop, NEW kind, NEW region
    PROVE  /\ s.price \in Purse
           /\ AreaPrice(kind, region, s) \in Nat \cup {None}
<1>1. Prices \subseteq Nat /\ AreaPrices \subseteq Nat
    BY CheckoutConstants
<1>2. s.price \in [Variants -> Prices] /\ s.areaPrice \in AreaPrices
    BY DEF Shop
<1>3. s.price \in Purse
    BY <1>1, <1>2 DEF Purse
<1>. QED
    BY <1>1, <1>2, <1>3 DEF AreaPrice

LEMMA QuoteIsBill ==
    ASSUME NEW cart \in Cart, NEW s \in Shop,
           NEW region, NEW kind
    PROVE  Quote(cart, region, kind, s) \in Bill
<1>. PICK price : price = s.price
    OBVIOUS
<1>1. price \in Purse
    BY ShopIsPurse
<1>. DEFINE delivering == {m \in Met(cart) : MarketDelivers(m, region, s.cityOn)}
            d == IF delivering = {} THEN None ELSE AreaPrice(kind, region, s)
<1>2. Quote(cart, region, kind, s) = Priced(cart, Amounts(cart, s.price, s.price, FALSE), d)
    BY Zenon DEF Quote
<1>3. d \in Nat \cup {None}
    <2>1. AreaPrice(kind, region, s) \in Nat \cup {None}
        BY ShopIsPurse
    <2>. QED
        BY <2>1
<1>. HIDE DEF d
<1>4. Priced(cart, Amounts(cart, price, price, FALSE), d) \in Bill
    BY <1>1, <1>3, PricedIsBill
<1>. QED
    BY <1>2, <1>4

LEMMA ChargeIsBill ==
    ASSUME NEW cart \in Cart, NEW s \in Shop,
           NEW region, NEW kind, NEW own \in Purse, NEW kept
    PROVE  /\ Charge(cart, region, kind, s, own, kept) \in Bill
           /\ Charge(cart, region, kind, s, own, kept).total >= 0
<1>. PICK bill : bill = Priced(cart, Amounts(cart, s.price, own, kept),
                               AreaPrice(kind, region, s))
    OBVIOUS
<1>1. bill \in Bill
    <2>. PICK price, d : price = s.price /\ d = AreaPrice(kind, region, s)
        OBVIOUS
    <2>1. price \in Purse /\ d \in Nat \cup {None}
        BY ShopIsPurse
    <2>2. Priced(cart, Amounts(cart, price, own, kept), d) \in Bill
        BY <2>1, PricedIsBill
    <2>. QED
        BY <2>2
<1>2. Charge(cart, region, kind, s, own, kept) = [bill EXCEPT !.total = Largest(@, 0)]
    BY DEF Charge
<1>3. Largest(bill.total, 0) \in Int /\ Largest(bill.total, 0) >= 0
    BY <1>1 DEF Bill, Largest
<1>. QED
    BY <1>1, <1>2, <1>3 DEF Bill
-----------------------------------------------------------------------------
(* What is quoted is charged.                                              *)

Binding(r) == r.ask.by = "client" \/ NoSharedAddition(r.ask.cart)

PaidRow(r) ==
    /\ r.quoted \in Bill \cup {None} /\ r.charged \in Bill /\ r.charged.total >= 0
    /\ r.quoted # None /\ Binding(r) => r.charged = Capped(r.quoted)

\* What an attempt whose quote holds will be charged
Cost(by, cart, region, kind, s) ==
    IF by = "client" THEN Charge(cart, region, kind, s, s.price, FALSE)
    ELSE Charge(cart, AdminScope(cart), kind, s, s.price, TRUE)

Due(q) == Cost(q.ask.by, q.ask.cart, client[q.ask.client].region, q.address.kind, shop)

\* A quote that holds is of the shop as it is; before the check, of a cart the customer's
\* region and address allow, and after it, of what the order will cost.
QuotedRow(q) ==
    /\ q.shop \in Shop /\ q.quoted \in Bill \cup {None}
    /\ q.quoted # None =>
          /\ q.shop = shop
          /\ q.at = "begun" =>
                LET region == client[q.ask.client].region
                IN  /\ q.quoted = Quote(q.ask.cart, region, q.address.kind, shop)
                    /\ CartInRegion(q.ask.cart, region, shop.open, shop.cityOn)
                    /\ InRegion(q.address.kind, region)
          /\ q.at = "checked" /\ Binding(q) =>
                Due(q) = Capped(q.quoted)

BillInv ==
    /\ shop \in Shop /\ changes \in 0..MaxChanges /\ Len(orders) <= MaxOrders
    /\ \A a \in Running : QuotedRow(attempt[a])
    /\ \A i \in DOMAIN orders : PaidRow(orders[i])
    /\ \A c \in Clients : write[c] # None /\ write[c].kind = "order" => PaidRow(write[c].row)

LEMMA InitBills == Init => BillInv
<1>. SUFFICES ASSUME Init PROVE BillInv
    OBVIOUS
<1>1. /\ attempt = [a \in Attempts |-> None] /\ orders = <<>>
      /\ write = [c \in Clients |-> None] /\ changes = 0
      /\ shop = [price |-> FirstPrice, sold |-> Variants, open |-> Markets,
                 running |-> Offers, areaOn |-> TRUE, areaPrice |-> Min(AreaPrices),
                 cityOn |-> TRUE]
    BY DEF Init
<1>2. Min(AreaPrices) \in AreaPrices
    BY LeastOf, CheckoutConstants
<1>3. FirstPrice \in [Variants -> Prices]
    BY CheckoutConstants
<1>4. shop \in Shop
    BY <1>1, <1>2, <1>3 DEF Shop
<1>5. Running = {} /\ DOMAIN orders = {} /\ Len(orders) = 0
    BY <1>1 DEF Running
<1>. QED
    BY <1>1, <1>4, <1>5, CheckoutConstants DEF BillInv

\* What changes under an attempt takes its quote away; nothing else touches it.
LEMMA QuotesVoid ==
    ASSUME Inv, BillInv, attempt' = Unquoted
    PROVE  \A a \in Running' : QuotedRow(attempt[a])'
<1>. SUFFICES ASSUME NEW a \in Running' PROVE QuotedRow(attempt[a])'
    OBVIOUS
<1>1. a \in Attempts /\ attempt'[a] = Void(attempt[a]) /\ attempt'[a] # None
    BY DEF Running, Unquoted
<1>. PICK q : q = attempt[a]
    OBVIOUS
<1>. PICK r : r = attempt'[a]
    OBVIOUS
<1>2. q # None /\ r = [q EXCEPT !.quoted = None]
    BY <1>1 DEF Void
<1>3. a \in Running
    BY <1>1, <1>2 DEF Running
<1>4. AttemptRow(q) /\ QuotedRow(q)
    BY <1>3 DEF Inv, RowInv, BillInv
<1>5. r = [ask |-> q.ask, at |-> q.at, quoted |-> None, shop |-> q.shop,
           address |-> q.address]
    BY <1>2, <1>4 DEF AttemptRow
<1>6. r.quoted = None /\ r.shop \in Shop
    BY <1>4, <1>5 DEF QuotedRow
<1>7. QuotedRow(r)'
    BY <1>6 DEF QuotedRow
<1>. QED
    BY <1>7

LEMMA QuotesStay ==
    ASSUME NEW q, QuotedRow(q), shop' = shop, q.ask.client \in Clients,
           \A c \in Clients : client'[c].region = client[c].region
    PROVE  QuotedRow(q)'
<1>. PICK region : region = client[q.ask.client].region
    OBVIOUS
<1>1. client'[q.ask.client].region = region
    OBVIOUS
<1>2. Due(q)' = Due(q)
    BY <1>1 DEF Due
<1>. QED
    BY <1>1, <1>2 DEF QuotedRow

\* What a customer is charged is what the preview says, but for the cut at zero.
LEMMA ClientCharged ==
    ASSUME NEW cart \in Cart, Len(cart.lines) + Len(cart.offers) > 0,
           NEW region, NEW kind, NEW s,
           \A m \in Met(cart) : MarketDelivers(m, region, s.cityOn)
    PROVE  Cost("client", cart, region, kind, s) = Capped(Quote(cart, region, kind, s))
<1>1. \E m \in Met(cart) : MarketDelivers(m, region, s.cityOn)
    BY MetSome
<1>. QED
    BY <1>1 DEF Quote, Cost, Charge, Capped

\* An administrator's scope is not the customer's region, but delivery costs the same: an
\* address of one kind is in no city, and where the scope is the city, so is the region.
LEMMA AdminCharged ==
    ASSUME NEW cart \in Cart,
           Len(cart.lines) + Len(cart.offers) > 0, NoSharedAddition(cart),
           NEW region \in Regions, NEW kind, NEW s,
           CartInRegion(cart, region, s.open, s.cityOn), InRegion(kind, region),
           InRegion(kind, AdminScope(cart))
    PROVE  Cost("admin", cart, region, kind, s) = Capped(Quote(cart, region, kind, s))
<1>0. PICK scope : scope = AdminScope(cart)
    OBVIOUS
<1>1. scope \in {"general", "city"}
    BY <1>0 DEF AdminScope
<1>2. region \in {"general", "city"}
    BY DEF CartInRegion, Regions
<1>3. Amounts(cart, s.price, s.price, TRUE) = Amounts(cart, s.price, s.price, FALSE)
    BY SameAmounts
<1>4. /\ AreaPrice(kind, region, s) = AreaPrice(kind, scope, s)
      /\ \/ AreaPrice(kind, scope, s) = None
         \/ \E m \in Met(cart) : MarketDelivers(m, region, s.cityOn)
    <2>1. CASE region = "general"
        BY <2>1 DEF InRegion, AreaPrice
    <2>2. CASE region = "city"
        <3>1. scope = "city"
            BY <1>0, <1>1, <2>2 DEF InRegion
        <3>2. \E m \in Met(cart) : MarketDelivers(m, "city", s.cityOn)
            BY <1>0, <2>2, <3>1, ScopeDelivers
        <3>. QED
            BY <2>2, <3>1, <3>2
    <2>. QED
        BY <1>2, <2>1, <2>2
<1>5. Quote(cart, region, kind, s)
      = Priced(cart, Amounts(cart, s.price, s.price, FALSE), AreaPrice(kind, scope, s))
    BY <1>4 DEF Quote
<1>. QED
    BY <1>0, <1>3, <1>5 DEF Cost, Charge, Capped

LEMMA SamePaid ==
    ASSUME NEW r, PaidRow(r), NEW t, t.ask = r.ask, t.quoted = r.quoted, t.charged = r.charged
    PROVE  PaidRow(t)
BY DEF PaidRow, Binding

LEMMA SameQuotes ==
    ASSUME Inv, BillInv, UNCHANGED <<shop, attempt>>,
           \A c \in Clients : client'[c].region = client[c].region
    PROVE  \A a \in Running' : QuotedRow(attempt[a])'
<1>. SUFFICES ASSUME NEW a \in Running' PROVE QuotedRow(attempt[a])'
    OBVIOUS
<1>. PICK q : q = attempt[a]
    OBVIOUS
<1>1. a \in Running
    BY DEF Running
<1>2. QuotedRow(q) /\ q.ask.client \in Clients
    BY <1>1, AskNames, CheckoutConstants DEF Inv, RowInv, AttemptRow, BillInv
<1>3. QuotedRow(q)'
    BY <1>2, QuotesStay
<1>. QED
    BY <1>3

\* Orders are edited, but not in what was quoted and charged, and writes of orders with them.
OrdersPaid ==
    /\ Len(orders') <= MaxOrders
    /\ \A i \in DOMAIN orders' : PaidRow(orders'[i])
    /\ \A c \in Clients : write'[c] # None /\ write'[c].kind = "order" => PaidRow(write'[c].row)

LEMMA SamePayments ==
    ASSUME BillInv, UNCHANGED <<orders, write>>
    PROVE  OrdersPaid
BY DEF BillInv, OrdersPaid

LEMMA BillsKept ==
    ASSUME BillInv, shop' \in Shop, changes' \in 0..MaxChanges, OrdersPaid,
           \A a \in Running' : QuotedRow(attempt[a])'
    PROVE  BillInv'
BY DEF BillInv, OrdersPaid

LEMMA OneAttempt ==
    ASSUME Inv, BillInv, NEW a \in Attempts, NEW q,
           attempt' = [attempt EXCEPT ![a] = q], QuotedRow(q)',
           UNCHANGED <<shop, client, orders, write, changes>>
    PROVE  BillInv'
<1>1. ASSUME NEW b \in Running' PROVE QuotedRow(attempt[b])'
    <2>1. attempt'[a] = q /\ (b # a => b \in Running /\ attempt'[b] = attempt[b])
        BY DEF Running, Inv, RowInv
    <2>2. CASE b = a
        BY <2>1, <2>2
    <2>3. CASE b # a
        <3>. PICK r : r = attempt[b]
            OBVIOUS
        <3>1. QuotedRow(r) /\ r.ask.client \in Clients
            BY <2>1, <2>3, AskNames, CheckoutConstants DEF Inv, RowInv, AttemptRow, BillInv
        <3>2. QuotedRow(r)'
            BY <3>1, QuotesStay
        <3>. QED
            BY <2>1, <2>3, <3>2
    <2>. QED
        BY <2>2, <2>3
<1>. QED
    BY <1>1, SamePayments, BillsKept DEF BillInv

LEMMA BeginBills ==
    ASSUME Inv, BillInv,
           NEW a \in Attempts, NEW ask \in Asks, Begin(a, ask)
    PROVE  BillInv'
<1>. PICK region, address, quoted :
           /\ region = client[ask.client].region /\ address = book[ask.client][ask.slot]
           /\ quoted = Preview(ask)
    OBVIOUS
<1>. PICK q : q = [ask |-> ask, at |-> "begun", quoted |-> quoted,
                   shop |-> shop, address |-> address]
    OBVIOUS
<1>1. /\ attempt' = [attempt EXCEPT ![a] = q]
      /\ UNCHANGED <<shop, client, orders, write, changes>>
    BY DEF Begin
<1>2. shop \in Shop /\ ask.cart \in Cart
    BY CheckoutConstants DEF BillInv
<1>3. quoted \in Bill \cup {None}
    BY <1>2, QuoteIsBill DEF Preview
<1>4. quoted # None =>
         /\ quoted = Quote(ask.cart, region, address.kind, shop)
         /\ CartInRegion(ask.cart, region, shop.open, shop.cityOn)
         /\ InRegion(address.kind, region)
    BY DEF Preview, ClientMay
<1>5. QuotedRow(q)
    BY <1>2, <1>3, <1>4 DEF QuotedRow
<1>6. QuotedRow(q)'
    <2>1. ask.client \in Clients
        BY AskNames, CheckoutConstants
    <2>. QED
        BY <1>1, <1>5, <2>1, QuotesStay
<1>. QED
    BY <1>1, <1>6, OneAttempt

LEMMA CheckBills ==
    ASSUME Inv, BillInv, NEW a \in Attempts, Check(a)
    PROVE  BillInv'
<1>0. PICK old, q, ask, cart, kind, region :
         /\ old = attempt[a] /\ q = [old EXCEPT !.at = "checked"]
         /\ ask = old.ask /\ cart = ask.cart /\ kind = old.address.kind
         /\ region = client[ask.client].region
    OBVIOUS
<1>1. /\ a \in Running /\ attempt' = [attempt EXCEPT ![a] = q] /\ old.at = "begun"
      /\ UNCHANGED <<shop, client, orders, write, changes>>
    BY <1>0 DEF Check, Running
<1>2. AttemptRow(old) /\ QuotedRow(old)
    BY <1>0, <1>1 DEF Inv, RowInv, BillInv
<1>3. /\ q.ask = ask /\ q.at = "checked" /\ q.quoted = old.quoted /\ q.shop = old.shop
      /\ q.address = old.address
    BY <1>0, <1>2 DEF AttemptRow
<1>4. /\ ask \in Asks /\ ask.client \in Clients /\ cart \in Cart
      /\ Len(cart.lines) + Len(cart.offers) > 0 /\ ask.by \in {"client", "admin"}
    BY <1>0, <1>2, CheckoutConstants DEF AttemptRow
<1>5. region \in Regions
    BY <1>0, <1>4 DEF Inv, RowInv
<1>6. ASSUME old.quoted # None, Binding(q)
      PROVE  Due(q) = Capped(q.quoted)
    <2>1. /\ old.quoted = Quote(cart, region, kind, shop)
          /\ CartInRegion(cart, region, shop.open, shop.cityOn) /\ InRegion(kind, region)
        BY <1>0, <1>1, <1>2, <1>6 DEF QuotedRow
    <2>0. PICK s : s = shop
        OBVIOUS
    <2>4. Due(q) = Cost(ask.by, cart, region, kind, s)
        BY <1>0, <1>3, <2>0 DEF Due
    <2>5. q.quoted = Quote(cart, region, kind, s) /\ CartInRegion(cart, region, s.open, s.cityOn)
        BY <1>3, <2>0, <2>1
    <2>2. CASE ask.by = "client"
        <3>1. \A m \in Met(cart) : MarketDelivers(m, region, s.cityOn)
            BY <1>0, <2>0, <2>2 DEF Check, ClientChecks
        <3>2. Cost("client", cart, region, kind, s) = Capped(Quote(cart, region, kind, s))
            BY <1>4, <3>1, ClientCharged
        <3>. QED
            BY <2>2, <2>4, <2>5, <3>2
    <2>3. CASE ask.by = "admin"
        <3>1. InRegion(kind, AdminScope(cart))
            BY <1>0, <2>3 DEF Check, AdminChecks
        <3>2. NoSharedAddition(cart)
            BY <1>0, <1>3, <1>6, <2>3 DEF Binding
        <3>3. Cost("admin", cart, region, kind, s) = Capped(Quote(cart, region, kind, s))
            BY <1>4, <1>5, <2>1, <2>5, <3>1, <3>2, AdminCharged
        <3>. QED
            BY <2>3, <2>4, <2>5, <3>3
    <2>. QED
        BY <1>4, <2>2, <2>3
<1>7. QuotedRow(q)
    BY <1>2, <1>3, <1>6 DEF QuotedRow
<1>8. QuotedRow(q)'
    BY <1>1, <1>3, <1>4, <1>7, QuotesStay
<1>. QED
    BY <1>1, <1>8, OneAttempt

LEMMA OthersQuoted ==
    ASSUME Inv, BillInv, NEW a, attempt' = [attempt EXCEPT ![a] = None], UNCHANGED <<shop, client>>
    PROVE  \A b \in Running' : QuotedRow(attempt[b])'
<1>. SUFFICES ASSUME NEW b \in Running' PROVE QuotedRow(attempt[b])'
    OBVIOUS
<1>. PICK q : q = attempt[b]
    OBVIOUS
<1>1. b \in Running /\ attempt'[b] = q
    BY DEF Running, Inv, RowInv
<1>2. QuotedRow(q) /\ q.ask \in Asks
    BY <1>1 DEF Inv, RowInv, AttemptRow, BillInv
<1>3. QuotedRow(q)'
    BY <1>2, AskNames, QuotesStay, CheckoutConstants
<1>. QED
    BY <1>1, <1>3

LEMMA PlaceBills ==
    ASSUME Inv, BillInv, NEW a \in Attempts, Place(a)
    PROVE  BillInv'
<1>0. PICK q : q = attempt[a]
    OBVIOUS
<1>1. /\ a \in Running /\ q.at = "checked" /\ Len(orders) < MaxOrders
      /\ attempt' = [attempt EXCEPT ![a] = None]
      /\ UNCHANGED <<shop, client, write, changes>>
    BY <1>0 DEF Place, Running
<1>2. AttemptRow(q) /\ QuotedRow(q)
    BY <1>0, <1>1 DEF Inv, RowInv, BillInv
<1>. PICK r : r = [ask |-> q.ask, status |-> "active", revived |-> FALSE,
                   address |-> q.address.text, quoted |-> q.quoted, charged |-> ChargeOf(a)]
    OBVIOUS
<1>3. q.ask.cart \in Cart /\ q.shop \in Shop /\ shop \in Shop
    BY <1>2, CheckoutConstants DEF AttemptRow, QuotedRow, BillInv
<1>4. ChargeOf(a) \in Bill /\ ChargeOf(a).total >= 0
    <2>. PICK cart, s, own, now, kind :
             /\ cart = q.ask.cart /\ s = q.shop /\ own = s.price /\ now = shop.price
             /\ kind = q.address.kind
        OBVIOUS
    <2>1. cart \in Cart /\ s \in Shop /\ own \in Purse /\ now \in Purse
        BY <1>3, ShopIsPurse, CheckoutConstants
    <2>2. ASSUME NEW region, NEW price \in Purse, NEW kept
          PROVE  /\ Charge(cart, region, kind, s, price, kept) \in Bill
                 /\ Charge(cart, region, kind, s, price, kept).total >= 0
        BY <2>1, ChargeIsBill
    <2>3. \/ \E region : ChargeOf(a) = Charge(cart, region, kind, s, own, FALSE)
          \/ \E region : ChargeOf(a) = Charge(cart, region, kind, s, now, TRUE)
        BY <1>0 DEF ChargeOf
    <2>. QED
        BY <2>1, <2>2, <2>3
<1>5. ASSUME q.quoted # None, Binding(q)
      PROVE  ChargeOf(a) = Capped(q.quoted)
    <2>1. q.shop = shop /\ Due(q) = Capped(q.quoted)
        BY <1>1, <1>2, <1>5 DEF QuotedRow
    <2>2. ChargeOf(a) = Due(q)
        BY <1>0, <2>1 DEF ChargeOf, Due, Cost
    <2>. QED
        BY <2>1, <2>2
<1>6. PaidRow(r)
    <2>1. Binding(r) => Binding(q)
        BY DEF Binding
    <2>2. q.quoted \in Bill \cup {None}
        BY <1>2 DEF QuotedRow
    <2>. QED
        BY <1>4, <1>5, <2>1, <2>2 DEF PaidRow
<1>7. OrdersPaid
    <2>1. orders' = orders \/ orders' = Append(orders, r)
        BY <1>0 DEF Place
    <2>2. CASE orders' = orders
        BY <1>1, <2>2, SamePayments
    <2>3. CASE orders' = Append(orders, r)
        <3>. PICK S : orders \in Seq(S)
            BY DEF Inv, RowInv
        <3>1. /\ Len(orders) \in Nat /\ DOMAIN orders = 1..Len(orders)
              /\ orders' \in Seq(S \cup {r}) /\ DOMAIN orders' = 1..(Len(orders) + 1)
              /\ orders'[Len(orders) + 1] = r /\ \A i \in DOMAIN orders : orders'[i] = orders[i]
            BY <2>3, Appended
        <3>2. Len(orders') <= MaxOrders
            BY <1>1, <2>3, <3>1, CheckoutConstants
        <3>3. ASSUME NEW i \in DOMAIN orders' PROVE PaidRow(orders'[i])
            <4>1. i \in DOMAIN orders \/ i = Len(orders) + 1
                BY <3>1
            <4>. QED
                BY <1>6, <3>1, <4>1 DEF BillInv
        <3>. QED
            BY <1>1, <3>2, <3>3 DEF OrdersPaid, BillInv
    <2>. QED
        BY <2>1, <2>2, <2>3
<1>. QED
    BY <1>1, <1>7, OthersQuoted, BillsKept DEF BillInv

LEMMA LeaveBills ==
    ASSUME Inv, BillInv, NEW a \in Attempts, Leave(a)
    PROVE  BillInv'
BY OthersQuoted, SamePayments, BillsKept DEF Leave, BillInv

LEMMA ChangeShopBills ==
    ASSUME Inv, BillInv, ChangeShop
    PROVE  BillInv'
<1>1. /\ changes' = changes + ShopCost /\ changes + ShopCost <= MaxChanges
      /\ attempt' = Unquoted /\ UNCHANGED <<orders, write>>
    BY DEF ChangeShop
<1>2. changes' \in 0..MaxChanges
    BY <1>1, CheckoutConstants DEF BillInv
<1>3. shop' \in Shop
    <2>. PICK s : s = shop
        OBVIOUS
    <2>1. s \in Shop
        BY DEF BillInv
    <2>2. CASE \E v \in Variants, p \in Prices : shop' = [s EXCEPT !.price[v] = p]
        BY <2>1, <2>2 DEF Shop
    <2>3. CASE \E v \in Variants : shop' = [s EXCEPT !.sold = Toggle(@, v)]
        BY <2>1, <2>3 DEF Shop, Toggle
    <2>4. CASE \E m \in Markets : shop' = [s EXCEPT !.open = Toggle(@, m)]
        BY <2>1, <2>4 DEF Shop, Toggle
    <2>5. CASE \E o \in Offers : shop' = [s EXCEPT !.running = Toggle(@, o)]
        BY <2>1, <2>5 DEF Shop, Toggle
    <2>6. CASE \E d \in AreaPrices : shop' = [s EXCEPT !.areaPrice = d]
        BY <2>1, <2>6 DEF Shop
    <2>7. CASE shop' = [s EXCEPT !.areaOn = ~@] \/ shop' = [s EXCEPT !.cityOn = ~@]
        BY <2>1, <2>7 DEF Shop
    <2>. QED
        BY <2>2, <2>3, <2>4, <2>5, <2>6, <2>7 DEF ChangeShop
<1>. QED
    BY <1>1, <1>2, <1>3, QuotesVoid, SamePayments, BillsKept

LEMMA FinishBills ==
    ASSUME Inv, BillInv, NEW i \in DOMAIN orders, NEW status, Finish(i, status)
    PROVE  BillInv'
<1>. PICK S : orders \in Seq(S)
    BY DEF Inv, RowInv
<1>1. /\ orders' = [orders EXCEPT ![i].status = status]
      /\ UNCHANGED <<shop, client, attempt, write, changes>>
    BY DEF Finish
<1>2. Len(orders') = Len(orders) /\ DOMAIN orders' = DOMAIN orders
    BY <1>1
<1>3. ASSUME NEW j \in DOMAIN orders PROVE PaidRow(orders'[j])
    <2>. PICK old, new : old = orders[j] /\ new = orders'[j]
        OBVIOUS
    <2>1. PaidRow(old) /\ OrderRow(old)
        BY DEF BillInv, Inv, RowInv
    <2>2. new = old \/ new = [old EXCEPT !.status = status]
        BY <1>1
    <2>3. new.ask = old.ask /\ new.quoted = old.quoted /\ new.charged = old.charged
        BY <2>1, <2>2 DEF OrderRow
    <2>4. PaidRow(new)
        BY <2>1, <2>3, SamePaid
    <2>. QED
        BY <2>4
<1>4. OrdersPaid
    BY <1>1, <1>2, <1>3 DEF OrdersPaid, BillInv
<1>. QED
    BY <1>1, <1>4, SameQuotes, BillsKept DEF BillInv

\* Orders keep what was quoted and charged, and no new write of one starts.
LEMMA PaymentsKept ==
    ASSUME Inv, BillInv, DOMAIN orders' = DOMAIN orders,
           orders' = [i \in DOMAIN orders' |-> orders'[i]],
           \A i \in DOMAIN orders : PaidRow(orders'[i]),
           \A c \in Clients : write'[c] = None \/ write'[c] = write[c]
    PROVE  OrdersPaid
<1>. PICK S : orders \in Seq(S)
    BY DEF Inv, RowInv
<1>1. PICK T : orders' \in Seq(T)
    BY Updated
<1>2. /\ Len(orders) \in Nat /\ DOMAIN orders = 1..Len(orders)
      /\ Len(orders') \in Nat /\ DOMAIN orders' = 1..Len(orders')
    BY <1>1
<1>3. Len(orders') = Len(orders)
    BY <1>2
<1>. QED
    BY <1>3 DEF OrdersPaid, BillInv

LEMMA StartWriteBills ==
    ASSUME Inv, BillInv, NEW c \in Clients, StartWrite(c)
    PROVE  BillInv'
<1>1. /\ changes' = changes + 1 /\ changes < MaxChanges
      /\ UNCHANGED <<shop, client, attempt, orders>>
    BY DEF StartWrite
<1>2. changes' \in 0..MaxChanges
    BY <1>1, CheckoutConstants DEF BillInv
<1>3. PICK w : /\ write' = [write EXCEPT ![c] = w]
               /\ w.kind = "order" => \E i \in DOMAIN orders : w.row = orders[i]
    <2>1. CASE write' = [write EXCEPT ![c] = [kind |-> "profile"]]
        <3>. DEFINE w == [kind |-> "profile"]
        <3>1. w.kind # "order" /\ write' = [write EXCEPT ![c] = w]
            BY <2>1
        <3>. QED
            BY <3>1
    <2>2. CASE \E r \in {"city", "general"} :
                  write' = [write EXCEPT ![c] = [kind |-> "region", to |-> r]]
        <3>. PICK r : write' = [write EXCEPT ![c] = [kind |-> "region", to |-> r]]
            BY <2>2
        <3>. DEFINE w == [kind |-> "region", to |-> r]
        <3>1. w.kind # "order" /\ write' = [write EXCEPT ![c] = w]
            OBVIOUS
        <3>. QED
            BY <3>1
    <2>3. CASE \E s \in Slots, k \in AddressKinds :
                  write' = [write EXCEPT ![c] =
                     [kind |-> "address", slot |-> s, new |-> book[c][s] = None, to |-> k]]
        <3>. PICK s, k : write' = [write EXCEPT ![c] =
                     [kind |-> "address", slot |-> s, new |-> book[c][s] = None, to |-> k]]
            BY <2>3
        <3>. DEFINE w == [kind |-> "address", slot |-> s, new |-> book[c][s] = None, to |-> k]
        <3>1. w.kind # "order" /\ write' = [write EXCEPT ![c] = w]
            OBVIOUS
        <3>. QED
            BY <3>1
    <2>4. CASE \E i \in DOMAIN orders :
                  write' = [write EXCEPT ![c] =
                     [kind |-> "order", id |-> i, row |-> orders[i],
                      text |-> book[c][orders[i].ask.slot].text]]
        <3>. PICK i \in DOMAIN orders :
                  write' = [write EXCEPT ![c] =
                     [kind |-> "order", id |-> i, row |-> orders[i],
                      text |-> book[c][orders[i].ask.slot].text]]
            BY <2>4
        <3>. DEFINE w == [kind |-> "order", id |-> i, row |-> orders[i],
                          text |-> book[c][orders[i].ask.slot].text]
        <3>1. w.row = orders[i] /\ write' = [write EXCEPT ![c] = w]
            OBVIOUS
        <3>. QED
            BY <3>1
    <2>. QED
        BY <2>1, <2>2, <2>3, <2>4 DEF StartWrite
<1>4. OrdersPaid
    <2>1. \A d \in Clients : write'[d] = IF d = c THEN w ELSE write[d]
        BY <1>3 DEF Inv, RowInv
    <2>2. w.kind = "order" => PaidRow(w.row)
        BY <1>3 DEF BillInv
    <2>. QED
        BY <1>1, <2>1, <2>2 DEF OrdersPaid, BillInv
<1>. QED
    BY <1>1, <1>2, <1>4, SameQuotes, BillsKept, CheckoutConstants DEF BillInv

LEMMA SavePersonalBills ==
    ASSUME Inv, BillInv, NEW c \in Clients, FinishWrite(c), SavePersonal(c)
    PROVE  BillInv'
<1>. PICK old, w : old = client[c] /\ w = write[c]
    OBVIOUS
<1>. PICK row : row = [old EXCEPT !.held = @ \cup {w.kind},
                                  !.region = IF w.kind = "region" THEN w.to ELSE @]
    OBVIOUS
<1>1. /\ client' = [client EXCEPT ![c] = row]
      /\ attempt' = IF w.kind = "region" THEN Unquoted ELSE attempt
      /\ write' = [write EXCEPT ![c] = None]
      /\ UNCHANGED <<orders, shop, changes>>
    BY DEF SavePersonal, FinishWrite
<1>2. OrdersPaid
    <2>1. orders = [i \in DOMAIN orders |-> orders[i]]
        BY DEF Inv, RowInv
    <2>. QED
        BY <1>1, <2>1, PaymentsKept DEF Inv, RowInv, BillInv
<1>3. \A a \in Running' : QuotedRow(attempt[a])'
    <2>1. CASE w.kind = "region"
        BY <1>1, <2>1, QuotesVoid
    <2>2. CASE w.kind # "region"
        <3>1. old \in [deleted: BOOLEAN, region: Regions, held: SUBSET Personal]
            BY DEF Inv, RowInv
        <3>2. row.region = old.region
            BY <2>2, <3>1
        <3>3. \A d \in Clients : client'[d].region = client[d].region
            BY <1>1, <3>2 DEF Inv, RowInv
        <3>. QED
            BY <1>1, <2>2, <3>3, SameQuotes, CheckoutConstants
    <2>. QED
        BY <2>1, <2>2
<1>. QED
    BY <1>1, <1>2, <1>3, BillsKept DEF BillInv

LEMMA SaveAddressBills ==
    ASSUME Inv, BillInv, NEW c \in Clients, FinishWrite(c), SaveAddress(c)
    PROVE  BillInv'
<1>1. /\ attempt' = Unquoted /\ write' = [write EXCEPT ![c] = None]
      /\ UNCHANGED <<orders, shop, changes>>
    BY DEF SaveAddress, FinishWrite
<1>2. orders = [i \in DOMAIN orders |-> orders[i]]
    BY DEF Inv, RowInv
<1>3. OrdersPaid
    BY <1>1, <1>2, PaymentsKept DEF Inv, RowInv, BillInv
<1>. QED
    BY <1>1, <1>3, QuotesVoid, BillsKept DEF BillInv

LEMMA SaveOrderBills ==
    ASSUME Inv, BillInv, NEW c \in Clients, FinishWrite(c), SaveOrder(c)
    PROVE  BillInv'
<1>. PICK w : w = write[c]
    OBVIOUS
<1>. PICK i, old : i = w.id /\ old = w.row
    OBVIOUS
<1>. PICK address, revived :
           /\ address = IF old.address = "empty" THEN w.text ELSE old.address
           /\ revived = (old.revived \/ orders[i].revived \/ orders[i].status # old.status)
    OBVIOUS
<1>. PICK row : row = [old EXCEPT !.address = address, !.revived = revived]
    OBVIOUS
<1>1. /\ w # None /\ w.kind = "order" /\ write' = [write EXCEPT ![c] = None]
      /\ UNCHANGED <<client, attempt, shop, changes>>
    BY DEF SaveOrder, FinishWrite
<1>2. orders' = [orders EXCEPT ![i] = row]
    BY DEF SaveOrder
<1>3. OrderRow(old) /\ PaidRow(old)
    BY <1>1 DEF Inv, RowInv, WriteRow, BillInv
<1>4. row.ask = old.ask /\ row.quoted = old.quoted /\ row.charged = old.charged
    BY <1>3 DEF OrderRow
<1>5. PaidRow(row)
    BY <1>3, <1>4, SamePaid
<1>6. \A j \in DOMAIN orders : orders'[j] = row \/ orders'[j] = orders[j]
    BY <1>2
<1>7. \A j \in DOMAIN orders : PaidRow(orders'[j])
    BY <1>5, <1>6 DEF BillInv
<1>8. DOMAIN orders' = DOMAIN orders /\ orders' = [j \in DOMAIN orders' |-> orders'[j]]
    BY <1>2
<1>9. \A d \in Clients : write'[d] = None \/ write'[d] = write[d]
    BY <1>1 DEF Inv, RowInv
<1>10. OrdersPaid
    BY <1>7, <1>8, <1>9, PaymentsKept
<1>. QED
    BY <1>1, <1>10, SameQuotes, BillsKept, CheckoutConstants DEF BillInv

LEMMA DeleteAddressBills ==
    ASSUME Inv, BillInv, NEW c \in Clients, NEW s \in Slots, DeleteAddress(c, s)
    PROVE  BillInv'
<1>1. /\ changes' = changes + 1 /\ changes < MaxChanges /\ attempt' = Unquoted
      /\ UNCHANGED <<shop, orders, write>>
    BY DEF DeleteAddress
<1>2. changes' \in 0..MaxChanges
    BY <1>1, CheckoutConstants DEF BillInv
<1>. QED
    BY <1>1, <1>2, QuotesVoid, SamePayments, BillsKept DEF BillInv

LEMMA DeleteAccountBills ==
    ASSUME Inv, BillInv, NEW c \in Clients, DeleteAccount(c)
    PROVE  BillInv'
<1>1. /\ changes' = changes + 1 /\ changes < MaxChanges /\ attempt' = Unquoted
      /\ orders' = [i \in DOMAIN orders |-> Detached(i, c)]
      /\ UNCHANGED <<shop, write>>
    BY DEF DeleteAccount
<1>2. changes' \in 0..MaxChanges
    BY <1>1, CheckoutConstants DEF BillInv
<1>3. ASSUME NEW i \in DOMAIN orders PROVE PaidRow(orders'[i])
    <2>. PICK old, new : old = orders[i] /\ new = orders'[i]
        OBVIOUS
    <2>1. OrderRow(old) /\ PaidRow(old)
        BY DEF Inv, RowInv, BillInv
    <2>2. new = old \/ new = [old EXCEPT !.address = "empty"]
        BY <1>1 DEF Detached
    <2>3. new.ask = old.ask /\ new.quoted = old.quoted /\ new.charged = old.charged
        BY <2>1, <2>2 DEF OrderRow
    <2>4. PaidRow(new)
        BY <2>1, <2>3, SamePaid
    <2>. QED
        BY <2>4
<1>4. DOMAIN orders' = DOMAIN orders /\ orders' = [i \in DOMAIN orders' |-> orders'[i]]
    BY <1>1
<1>5. OrdersPaid
    BY <1>1, <1>3, <1>4, PaymentsKept
<1>. QED
    BY <1>1, <1>2, <1>5, QuotesVoid, BillsKept DEF BillInv

LEMMA StepBills ==
    ASSUME Inv, BillInv, [Next]_vars
    PROVE  BillInv'
<1>1. CASE UNCHANGED vars
    BY <1>1, SamePayments, SameQuotes, BillsKept, CheckoutConstants DEF vars, BillInv
<1>2. ASSUME NEW a \in Attempts, NEW ask \in Asks, Begin(a, ask) PROVE BillInv'
    BY <1>2, BeginBills
<1>3. ASSUME NEW a \in Attempts, Check(a) \/ Place(a) \/ Leave(a) PROVE BillInv'
    BY <1>3, CheckBills, PlaceBills, LeaveBills
<1>4. ASSUME NEW c \in Clients, StartWrite(c) PROVE BillInv'
    BY <1>4, StartWriteBills
<1>5. ASSUME NEW c \in Clients, FinishWrite(c) PROVE BillInv'
    BY <1>5, SavePersonalBills, SaveAddressBills, SaveOrderBills DEF FinishWrite
<1>6. ASSUME NEW c \in Clients, DeleteAccount(c) PROVE BillInv'
    BY <1>6, DeleteAccountBills
<1>7. ASSUME NEW c \in Clients, NEW s \in Slots, DeleteAddress(c, s) PROVE BillInv'
    BY <1>7, DeleteAddressBills
<1>8. ASSUME NEW i \in DOMAIN orders, NEW status \in {"done", "cancelled"}, Finish(i, status)
      PROVE  BillInv'
    BY <1>8, FinishBills
<1>9. ASSUME ChangeShop PROVE BillInv'
    BY <1>9, ChangeShopBills
<1>. QED
    BY <1>1, <1>2, <1>3, <1>4, <1>5, <1>6, <1>7, <1>8, <1>9 DEF Next

LEMMA BillInvariance == Spec => []BillInv
<1>. USE CheckoutConstants
<1>. QED
    BY Invariance, InitBills, StepBills, PTL DEF Spec

\* Whatever the shop sells, the offers, the percentages and the cart, whoever orders and
\* whatever changes meanwhile, an order of which the preview still holds costs what it
\* said: three pieces of code come to one price (preview_data, create_orders,
\* AdminOrderCreateSerializer.create).
THEOREM QuotesAreKept == Spec => []QuoteIsCharge
<1>1. BillInv => QuoteIsCharge
    BY DEF BillInv, PaidRow, Binding, Capped, QuoteIsCharge
<1>. QED
    BY <1>1, BillInvariance, PTL

\* Every variable of a checkout has its type; of an order's bill, each item is a number of
\* piastres that is not negative, and so is what is charged in all.
THEOREM CheckoutTypes == Spec => []TypeOK
<1>1. Inv /\ BillInv => TypeOK
    <2>. SUFFICES ASSUME Inv, BillInv PROVE TypeOK
        OBVIOUS
    <2>1. attempt \in [Attempts -> Attempt \cup {None}]
        <3>1. ASSUME NEW a \in Attempts, attempt[a] # None PROVE attempt[a] \in Attempt
            <4>. PICK q : q = attempt[a]
                OBVIOUS
            <4>1. AttemptRow(q) /\ QuotedRow(q)
                BY <3>1 DEF Running, Inv, RowInv, BillInv
            <4>. QED
                BY <4>1 DEF AttemptRow, QuotedRow, Attempt
        <3>. QED
            BY <3>1 DEF Inv, RowInv
    <2>2. ASSUME NEW i \in DOMAIN orders
          PROVE  orders[i] \in Order /\ orders[i].charged.total >= 0
        <3>. PICK r : r = orders[i]
            OBVIOUS
        <3>1. OrderRow(r) /\ PaidRow(r)
            BY DEF Inv, RowInv, BillInv
        <3>. QED
            BY <3>1 DEF OrderRow, PaidRow, Order
    <2>3. \A c \in Clients : write[c] # None => write[c].kind \in Kinds
        BY DEF Inv, RowInv, WriteRow
    <2>4. clash \in BOOLEAN
        BY DEF Inv, TurnInv
    <2>. QED
        BY <2>1, <2>2, <2>3, <2>4 DEF Inv, RowInv, BillInv, TypeOK
<1>. QED
    BY <1>1, Invariance, BillInvariance, PTL
=============================================================================
