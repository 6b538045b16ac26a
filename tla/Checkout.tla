------------------------------ MODULE Checkout ------------------------------
(***************************************************************************)
(* Placing an order (orders/views.py, serializers.py, checkout_content.py, *)
(* idempotency.py, write_validation.py), while the shop changes, customers *)
(* move between regions and addresses, and accounts are deleted            *)
(* (accounts/deletion.py).                                                 *)
(*                                                                         *)
(* A checkout is one READ COMMITTED transaction of three steps.  Begin     *)
(* locks the customer's row, looks the request's key up and reads the      *)
(* cart's products, the address and its delivery area.  Check locks the    *)
(* cart's offers and counts their uses; it reads offers and coverage anew, *)
(* but not what Begin read.  Place writes the order.  Either the customer  *)
(* or an administrator for them ("admin") places it; the two are separate  *)
(* code.  Other writes are authenticated in one step and saved in a later  *)
(* one, without the customer's lock.                                       *)
(*                                                                         *)
(* One service city is modelled: a region is that city, or "general"       *)
(* (shipping), or "none" (not chosen yet).                                 *)
(***************************************************************************)
EXTENDS Pricing, FiniteSets

CONSTANTS
    Clients, Slots,     \* customers; rows of each one's address book
    Attempts,           \* checkouts that may be in progress at once
    Asks,               \* what may be asked for, see Ask
    None,
    GeneralMarkets,     \* markets of scope "general", the others are of scope "service_city"
    CityMarkets,        \* markets whose service_cities hold the city
    GeneralOffers,      \* offers shown in general
    CityOffers,         \* offers whose service_cities hold the city
    OfferMarket,
    UseLimit, UserLimit,    \* use_limits and user_limit of an offer
    Prices, AreaPrices,
    FirstPrice, FirstRegion, FirstBook,     \* of each variant and customer, to begin with
    MaxOrders, MaxChanges,
    ShopCost                    \* how many of the changes one of the shop counts for

AddressKinds == {"area", "street", "manual"}
Regions == {"city", "general", "none"}
\* personal data beside addresses and orders: the profile, and likewise each device and
\* notification, which point to the customer's row; the region chosen
Personal == {"profile", "region"}
Keyless == "none"

\* live: is_active; text: whether the row still says where somebody lives
Address == [kind: AddressKinds, live: BOOLEAN, text: {"kept", "blank"}]
NewAddress(kind) == [kind |-> kind, live |-> TRUE, text |-> "kept"]

\* A request body: cart, address, key, and who sends it.
Cart == [lines: Seq([variant: Variants, quantity: Nat \ {0}]), offers: Seq(Offers),
         route: Seq(Markets)]

ASSUME CheckoutConstants ==
    /\ GeneralMarkets \subseteq Markets /\ CityMarkets \subseteq Markets
    /\ GeneralOffers \subseteq Offers /\ CityOffers \subseteq Offers
    /\ OfferMarket \in [Offers -> Markets]
    /\ UseLimit \in [Offers -> Nat] /\ UserLimit \in [Offers -> Nat]
    /\ Prices \subseteq Nat /\ AreaPrices \subseteq Nat /\ AreaPrices # {}
    /\ FirstPrice \in [Variants -> Prices] /\ FirstRegion \in [Clients -> Regions]
    /\ FirstBook \in [Clients -> [Slots -> AddressKinds \cup {None}]]
    /\ None \notin Address
    /\ MaxOrders \in Nat /\ MaxChanges \in Nat /\ ShopCost \in Nat \ {0}
    /\ \A ask \in Asks :
          /\ DOMAIN ask = {"client", "by", "key", "slot", "cart"}
          /\ ask.client \in Clients /\ ask.by \in {"client", "admin"} /\ ask.slot \in Slots
          /\ ask.cart \in Cart /\ Len(ask.cart.lines) + Len(ask.cart.offers) > 0
          /\ \A o \in ToSet(ask.cart.offers) :     \* duplicate offers are refused
                Cardinality({i \in DOMAIN ask.cart.offers : ask.cart.offers[i] = o}) = 1

\* AdminOfferSerializer.validate: the market of an offer sells one of its products.
ASSUME OfferAtHome ==
    \A o \in Offers : \E j \in DOMAIN Rows[o] : OfferMarket[o] = Home[Rows[o][j].variant]

VARIABLES
    shop,       \* what administrators set: prices, what is sold, offers, the area, the city
    client,     \* client[c]: deleted, region, personal data held beside addresses and orders
    book,       \* book[c][s]: address, or None
    attempt,    \* attempt[a]: checkout in progress, or None
    orders,     \* orders placed, by id
    write,      \* write[c]: a write that is authenticated but not saved, or None
    clash,      \* ghost: a checkout ended on the unique constraint of client and key
    excuse,     \* excuse[c]: ghost, kinds of writes in flight when c was deleted
    changes

vars == <<shop, client, book, attempt, orders, write, clash, excuse, changes>>

Shop == [price: [Variants -> Prices], sold: SUBSET Variants, open: SUBSET Markets,
         running: SUBSET Offers, areaOn: BOOLEAN, areaPrice: AreaPrices, cityOn: BOOLEAN]

Bill == [subtotal: Nat, discount: Nat, fee: Nat, delivery: Nat, total: Int]

\* address: the copy kept with the order (delivery_address_snapshot); quoted: ghost, as in
\* an attempt; revived: ghost, an edit of an older row wrote its status back.
Order == [ask: Asks, status: {"active", "done", "cancelled"}, revived: BOOLEAN,
          address: {"kept", "blank", "empty"}, quoted: Bill \cup {None}, charged: Bill]

Kinds == Personal \cup {"address", "order"}

\* shop, address: what Begin read; quoted: ghost, what a preview at that moment said, while
\* nothing it depends on has changed since
Attempt == [ask: Asks, at: {"begun", "checked"}, quoted: Bill \cup {None},
            shop: Shop, address: Address]

TypeOK ==
    /\ shop \in Shop
    /\ client \in [Clients -> [deleted: BOOLEAN, region: Regions, held: SUBSET Personal]]
    /\ book \in [Clients -> [Slots -> Address \cup {None}]]
    /\ attempt \in [Attempts -> Attempt \cup {None}]
    /\ Len(orders) <= MaxOrders
    /\ \A i \in DOMAIN orders : orders[i] \in Order /\ orders[i].charged.total >= 0
    /\ \A c \in Clients : write[c] # None => write[c].kind \in Kinds
    /\ clash \in BOOLEAN /\ excuse \in [Clients -> SUBSET Kinds] /\ changes \in 0..MaxChanges

Init ==
    /\ shop = [price |-> FirstPrice, sold |-> Variants, open |-> Markets, running |-> Offers,
               areaOn |-> TRUE, areaPrice |-> Min(AreaPrices), cityOn |-> TRUE]
    /\ client = [c \in Clients |-> [deleted |-> FALSE, region |-> FirstRegion[c],
                                    held |-> Personal]]
    /\ book = [c \in Clients |-> [s \in Slots |->
                 IF FirstBook[c][s] = None THEN None ELSE NewAddress(FirstBook[c][s])]]
    /\ attempt = [a \in Attempts |-> None] /\ orders = <<>>
    /\ write = [c \in Clients |-> None]
    /\ clash = FALSE /\ excuse = [c \in Clients |-> {}] /\ changes = 0
-----------------------------------------------------------------------------
(* What may be ordered where.                                              *)

Bought(cart) == {cart.lines[i].variant : i \in DOMAIN cart.lines}
Offered(o) == {Rows[o][j].variant : j \in DOMAIN Rows[o]}

\* address_matches_market_region: a general address has no service city, another has one.
InRegion(kind, region) == IF region = "general" THEN kind = "manual" ELSE kind # "manual"

\* order_region_validation_error, of a customer in `region'; whether a market is open is
\* what the checkout had read.
CartInRegion(cart, region, open, cityOn) ==
    LET fits(v) == IF region = "general" THEN Home[v] \in GeneralMarkets
                   ELSE Home[v] \in open \cap CityMarkets /\ cityOn
    IN  /\ region # "none"
        /\ \A v \in Bought(cart) : fits(v)
        /\ \A o \in ToSet(cart.offers) :
              /\ IF region = "general" THEN o \in GeneralOffers /\ OfferMarket[o] \in GeneralMarkets
                 ELSE o \in CityOffers /\ cityOn
              /\ \A v \in Offered(o) : fits(v)

\* _market_serves_city: stricter than the above, a market that ships does not deliver here
MarketDelivers(m, region, cityOn) ==
    IF region = "general" THEN m \in GeneralMarkets
    ELSE m \in CityMarkets \ GeneralMarkets /\ cityOn

\* _market_matches_order_scope and _offer_matches_order_scope, of the dashboard's orders
MarketInScope(m, scope, cityOn) ==
    IF scope = "general" THEN m \in GeneralMarkets ELSE m \in CityMarkets /\ cityOn
CartInScope(cart, scope, cityOn) ==
    /\ \A v \in Bought(cart) : MarketInScope(Home[v], scope, cityOn)
    /\ \A o \in ToSet(cart.offers) :
          /\ IF scope = "general" THEN o \in GeneralOffers ELSE o \in CityOffers /\ cityOn
          /\ MarketInScope(OfferMarket[o], scope, cityOn)
          /\ \A v \in Offered(o) : MarketInScope(Home[v], scope, cityOn)

\* _resolve_order_region: the first market decides, not the customer's region.
AdminScope(cart) ==
    LET first == IF cart.lines # <<>> THEN Home[cart.lines[1].variant]
                 ELSE OfferMarket[cart.offers[1]]
    IN  IF first \in GeneralMarkets THEN "general" ELSE "city"

\* validate_checkout_content, but for the offers' eligibility: the cart's products as
\* they stood in `lines', the offers' in `rows'
ContentOpen(cart, lines, rows) ==
    /\ \A v \in Bought(cart) : v \in lines.sold /\ Home[v] \in lines.open
    /\ \A o \in ToSet(cart.offers) :
          /\ OfferMarket[o] \in rows.open
          /\ \A v \in Offered(o) : v \in rows.sold /\ Home[v] \in rows.open

\* visible_offer_queryset counts the orders that are not cancelled.
Uses(o) == {i \in DOMAIN orders :
              o \in ToSet(orders[i].ask.cart.offers) /\ orders[i].status # "cancelled"}
Eligible(o, c, region) ==
    /\ o \in shop.running
    /\ region = "general" => o \in GeneralOffers
    /\ region = "city" => o \in CityOffers /\ shop.cityOn
    /\ Cardinality(Uses(o)) < UseLimit[o]
    /\ Cardinality({i \in Uses(o) : orders[i].ask.client = c}) < UserLimit[o]
-----------------------------------------------------------------------------
(* What delivery costs, from an address and the area read with it.         *)

\* _delivery_context and _normalize_delivery_fields: the area's price, or None, to be
\* settled later
AreaPrice(kind, region, s) ==
    IF region = "city" /\ kind = "area" /\ s.areaOn THEN s.areaPrice ELSE None

\* A customer's order needs an area that is on; the dashboard's loses its fixed price.
AreaUsable(kind, region, s) == region = "city" /\ kind = "area" => s.areaOn

Priced(cart, amounts, delivery) ==
    LET asked == IF HasFreeDelivery(cart) \/ delivery = None THEN 0 ELSE delivery
    IN  [subtotal |-> amounts.subtotal, discount |-> amounts.discount, fee |-> amounts.fee,
         delivery |-> asked,
         total |-> amounts.subtotal - amounts.discount + amounts.fee + asked]

\* _preview_market_groups: the first market that delivers carries the delivery.
Quote(cart, region, kind, s) ==
    LET delivering == {m \in Met(cart) : MarketDelivers(m, region, s.cityOn)}
    IN  Priced(cart, Amounts(cart, s.price, s.price, FALSE),
               IF delivering = {} THEN None ELSE AreaPrice(kind, region, s))

\* Mutant: each market of the order brings its delivery.
ChargeEach(cart, region, kind, s, own, kept) ==
    LET bill == Priced(cart, Amounts(cart, s.price, own, kept), AreaPrice(kind, region, s))
    IN  [bill EXCEPT !.delivery = @ * Cardinality(Met(cart)),
                     !.total = Largest(@ + bill.delivery * (Cardinality(Met(cart)) - 1), 0)]

\* Mutant: the discounts may take the total below zero.
ChargeUncapped(cart, region, kind, s, own, kept) ==
    Priced(cart, Amounts(cart, s.price, own, kept), AreaPrice(kind, region, s))

\* create_orders and AdminOrderCreateSerializer.create: the total is never below zero.
Charge(cart, region, kind, s, own, kept) ==
    LET bill == Priced(cart, Amounts(cart, s.price, own, kept), AreaPrice(kind, region, s))
    IN  [bill EXCEPT !.total = Largest(@, 0)]
-----------------------------------------------------------------------------
(* Checkouts.                                                              *)

Running == {a \in Attempts : attempt[a] # None}

\* Mutants: the rows are read without select_for_update.
UserUnlocked(c) == TRUE
OffersUnlocked(cart) == TRUE

UserFree(c) == \A a \in Running : attempt[a].ask.client # c
OffersFree(cart) ==
    \A a \in Running : attempt[a].at = "checked" =>
        ToSet(attempt[a].ask.cart.offers) \cap ToSet(cart.offers) = {}

Void(q) == IF q = None THEN None ELSE [q EXCEPT !.quoted = None]
Unquoted == [a \in Attempts |-> Void(attempt[a])]

\* The unique constraint is on the customer and the key; an administrator's key is hashed
\* apart from the customer's.
SameKey(ask) == {i \in DOMAIN orders :
                   /\ ask.key # Keyless /\ orders[i].ask.key = ask.key
                   /\ orders[i].ask.client = ask.client /\ orders[i].ask.by = ask.by}

\* What a customer's cart must satisfy in both the preview and the order; `seen' is the
\* shop as it was read.
ClientMay(ask, address, seen) ==
    LET c == ask.client
        region == client[c].region
    IN  /\ CartInRegion(ask.cart, region, seen.open, shop.cityOn)
        /\ ContentOpen(ask.cart, seen, seen)
        /\ \A o \in ToSet(ask.cart.offers) : Eligible(o, c, region)
        /\ address.live /\ InRegion(address.kind, region)
        /\ AreaUsable(address.kind, region, seen)
        /\ Routable(ask.cart)

\* OrderPreviewView, of the customer or of an administrator for them: it only reads.
Preview(ask) ==
    LET address == book[ask.client][ask.slot]
    IN  IF ClientMay(ask, address, shop)
        THEN Quote(ask.cart, client[ask.client].region, address.kind, shop)
        ELSE None

\* resolve_order_target_user, existing_order_for_request, and the rows the body names.  A
\* key that is known already is answered with its order, or refused: no step.
Begin(a, ask) ==
    LET c == ask.client
    IN  /\ attempt[a] = None
        /\ UserFree(c) /\ ~client[c].deleted /\ SameKey(ask) = {}
        /\ book[c][ask.slot] # None
        /\ attempt' = [attempt EXCEPT ![a] =
              [ask |-> ask, at |-> "begun", quoted |-> Preview(ask),
               shop |-> shop, address |-> book[c][ask.slot]]]
        /\ UNCHANGED <<shop, client, book, orders, write, clash, excuse, changes>>

\* OrderPreviewSerializer.validate and ClientOrderCreateSerializer.validate
ClientChecks(a) ==
    LET q == attempt[a]
    IN  /\ ClientMay(q.ask, q.address, q.shop)
        /\ \A m \in Met(q.ask.cart) :
              MarketDelivers(m, client[q.ask.client].region, shop.cityOn)

\* AdminOrderCreateSerializer.validate: neither the customer's region nor whether the
\* address was put away matters; offers and markets are read here.
AdminChecks(a) ==
    LET q == attempt[a]
        cart == q.ask.cart
    IN  /\ InRegion(q.address.kind, AdminScope(cart))
        /\ AdminScope(cart) = "city" => shop.cityOn
        /\ CartInScope(cart, AdminScope(cart), shop.cityOn)
        /\ ContentOpen(cart, [q.shop EXCEPT !.open = shop.open], shop)
        /\ \A o \in ToSet(cart.offers) : Eligible(o, q.ask.client, "any")
        /\ Routable(cart)

Check(a) ==
    /\ attempt[a] # None /\ attempt[a].at = "begun"
    /\ OffersFree(attempt[a].ask.cart)
    /\ IF attempt[a].ask.by = "client" THEN ClientChecks(a) ELSE AdminChecks(a)
    /\ attempt' = [attempt EXCEPT ![a].at = "checked"]
    /\ UNCHANGED <<shop, client, book, orders, write, clash, excuse, changes>>

\* create_orders and AdminOrderCreateSerializer.create, and the key saved after; the
\* dashboard prices the offers' rows from what it reads now.
ChargeOf(a) ==
    LET q == attempt[a]
        kind == q.address.kind
    IN  IF q.ask.by = "client"
        THEN Charge(q.ask.cart, client[q.ask.client].region, kind, q.shop, q.shop.price, FALSE)
        ELSE Charge(q.ask.cart, AdminScope(q.ask.cart), kind, q.shop, shop.price, TRUE)

Place(a) ==
    LET q == attempt[a]
    IN  /\ q # None /\ q.at = "checked" /\ Len(orders) < MaxOrders
        /\ book[q.ask.client][q.ask.slot] # None    \* foreign key
        /\ IF SameKey(q.ask) # {} THEN clash' = TRUE /\ UNCHANGED orders
           ELSE /\ orders' = Append(orders,
                      [ask |-> q.ask, status |-> "active", revived |-> FALSE,
                       address |-> q.address.text, quoted |-> q.quoted,
                       charged |-> ChargeOf(a)])
                /\ UNCHANGED clash
        /\ attempt' = [attempt EXCEPT ![a] = None]
        /\ UNCHANGED <<shop, client, book, write, excuse, changes>>

\* A checkout is refused or rolled back.
Leave(a) ==
    /\ attempt[a] # None
    /\ attempt' = [attempt EXCEPT ![a] = None]
    /\ UNCHANGED <<shop, client, book, orders, write, clash, excuse, changes>>
-----------------------------------------------------------------------------
(* What goes on meanwhile.                                                 *)

Toggle(S, x) == IF x \in S THEN S \ {x} ELSE S \cup {x}

\* Administrators save a product, a market, an offer, the delivery area or the city.
ChangeShop ==
    /\ changes + ShopCost <= MaxChanges
    /\ \/ \E v \in Variants, p \in Prices : shop' = [shop EXCEPT !.price[v] = p]
       \/ \E v \in Variants : shop' = [shop EXCEPT !.sold = Toggle(@, v)]
       \/ \E m \in Markets : shop' = [shop EXCEPT !.open = Toggle(@, m)]
       \/ \E o \in Offers : shop' = [shop EXCEPT !.running = Toggle(@, o)]
       \/ \E d \in AreaPrices : shop' = [shop EXCEPT !.areaPrice = d]
       \/ shop' = [shop EXCEPT !.areaOn = ~@]
       \/ shop' = [shop EXCEPT !.cityOn = ~@]
    /\ shop' # shop
    /\ attempt' = Unquoted /\ changes' = changes + ShopCost
    /\ UNCHANGED <<client, book, orders, write, clash, excuse>>

\* An order is delivered, fails or is cancelled.
Finish(i, status) ==
    /\ orders[i].status = "active"
    /\ orders' = [orders EXCEPT ![i].status = status]
    /\ UNCHANGED <<shop, client, book, attempt, write, clash, excuse, changes>>

\* AddressWriteSerializer.validate: the selected region decides where a new or moved
\* address may be; an edit within its own region is free of it.
MayWrite(c, old, kind) ==
    /\ (kind = "manual") = IF old = None THEN client[c].region = "general"
                           ELSE IF (kind = "manual") = (old.kind = "manual")
                           THEN kind = "manual" ELSE client[c].region = "general"
    /\ kind # "manual" => shop.cityOn
    /\ kind = "area" => shop.areaOn

\* A request is authenticated, reads what it will save, and validates it.  An
\* administrator may edit any order, whoever placed it.
StartWrite(c) ==
    /\ write[c] = None /\ changes < MaxChanges
    /\ \/ /\ ~client[c].deleted
          /\ \/ write' = [write EXCEPT ![c] = [kind |-> "profile"]]
             \/ \E r \in {"city", "general"} :
                   /\ r = "city" => shop.cityOn
                   /\ write' = [write EXCEPT ![c] = [kind |-> "region", to |-> r]]
             \/ \E s \in Slots, k \in AddressKinds :
                   /\ book[c][s] # None => book[c][s].live
                   /\ MayWrite(c, book[c][s], k)
                   /\ write' = [write EXCEPT ![c] =
                         [kind |-> "address", slot |-> s, new |-> book[c][s] = None, to |-> k]]
       \/ \E i \in DOMAIN orders :
             /\ orders[i].ask.client = c
             /\ write' = [write EXCEPT ![c] =
                   [kind |-> "order", id |-> i, row |-> orders[i],
                    text |-> book[c][orders[i].ask.slot].text]]
    /\ changes' = changes + 1
    /\ UNCHANGED <<shop, client, book, attempt, orders, clash, excuse>>

\* Rows that point to the customer, and the customer's own, wait for the row's lock.
SavePersonal(c) ==
    /\ write[c].kind \in Personal /\ UserFree(c)
    /\ LET row == client[c] IN
       client' = [client EXCEPT ![c] =
          [row EXCEPT !.held = @ \cup {write[c].kind},
                      !.region = IF write[c].kind = "region" THEN write[c].to ELSE @]]
    /\ attempt' = IF write[c].kind = "region" THEN Unquoted ELSE attempt
    /\ UNCHANGED <<book, orders>>

\* A new row; an edit of a row that is gone fails (save with update_fields).
SaveAddress(c) ==
    LET w == write[c]
        old == book[c][w.slot]
        named == \E a \in Running :
                    attempt[a].ask.client = c /\ attempt[a].ask.slot = w.slot
    IN  /\ w.kind = "address"
        /\ IF w.new THEN old = None /\ UserFree(c) /\ ~named ELSE TRUE
        /\ book' = IF w.new THEN [book EXCEPT ![c][w.slot] = NewAddress(w.to)]
                   ELSE IF old = None THEN book
                   ELSE [book EXCEPT ![c][w.slot] =
                           [@ EXCEPT !.kind = w.to, !.text = "kept"]]
        /\ attempt' = Unquoted
        /\ UNCHANGED <<client, orders>>

\* OrderSerializer.update saves the whole row as it was read, and Order.save fills an
\* address copy that is empty from the address.
SaveOrder(c) ==
    LET w == write[c]
        now == orders[w.id]
    IN  /\ w.kind = "order"
        /\ orders' = [orders EXCEPT ![w.id] =
              [w.row EXCEPT !.address = IF @ = "empty" THEN w.text ELSE @,
                            !.revived = @ \/ now.revived \/ now.status # w.row.status]]
        /\ UNCHANGED <<client, book, attempt>>

FinishWrite(c) ==
    /\ write[c] # None
    /\ SavePersonal(c) \/ SaveAddress(c) \/ SaveOrder(c)
    /\ write' = [write EXCEPT ![c] = None]
    /\ UNCHANGED <<shop, clash, excuse, changes>>

Linked(c, s) == \E i \in DOMAIN orders :
                   orders[i].ask.client = c /\ orders[i].ask.slot = s

\* AddressDetailView.delete: put away when an order names it
DeleteAddress(c, s) ==
    /\ changes < MaxChanges /\ ~client[c].deleted
    /\ book[c][s] # None /\ book[c][s].live
    /\ book' = IF Linked(c, s) THEN [book EXCEPT ![c][s] = [@ EXCEPT !.live = FALSE]]
               ELSE [book EXCEPT ![c][s] = None]
    /\ attempt' = Unquoted /\ changes' = changes + 1
    /\ UNCHANGED <<shop, client, orders, write, clash, excuse>>

\* What permanently_delete_client_account leaves of an address
Erased(c, s) == IF Linked(c, s) THEN [book[c][s] EXCEPT !.text = "blank"] ELSE None

\* Mutant: the copies of addresses kept with orders are forgotten.
DetachedNot(i, c) == orders[i]

\* What it leaves of an order: the copy of the address goes.
Detached(i, c) == IF orders[i].ask.client = c THEN [orders[i] EXCEPT !.address = "empty"]
                  ELSE orders[i]

DeleteAccount(c) ==
    /\ changes < MaxChanges /\ ~client[c].deleted /\ UserFree(c)
    /\ \A i \in DOMAIN orders : orders[i].ask.client = c => orders[i].status # "active"
    /\ client' = [client EXCEPT ![c] = [deleted |-> TRUE, region |-> "none", held |-> {}]]
    /\ book' = [book EXCEPT ![c] = [s \in Slots |-> Erased(c, s)]]
    /\ orders' = [i \in DOMAIN orders |-> Detached(i, c)]
    /\ excuse' = [excuse EXCEPT ![c] = IF write[c] = None THEN {} ELSE {write[c].kind}]
    /\ attempt' = Unquoted /\ changes' = changes + 1
    /\ UNCHANGED <<shop, write, clash>>

Next ==
    \/ \E a \in Attempts :
          \/ \E ask \in Asks : Begin(a, ask)
          \/ Check(a) \/ Place(a) \/ Leave(a)
    \/ \E c \in Clients :
          \/ StartWrite(c) \/ FinishWrite(c) \/ DeleteAccount(c)
          \/ \E s \in Slots : DeleteAddress(c, s)
    \/ \E i \in DOMAIN orders, status \in {"done", "cancelled"} : Finish(i, status)
    \/ ChangeShop

Spec == Init /\ [][Next]_vars
-----------------------------------------------------------------------------
(* Properties.                                                             *)

\* A key is worth one order, whatever is sent with it and however many requests carry it
\* at once, and no request learns of the other from the database's constraint: they take
\* turns on the customer's row (resolve_order_target_user, existing_order_for_request).
KeyRaceAnswered ==
    /\ ~clash
    /\ \A i \in DOMAIN orders : Cardinality(SameKey(orders[i].ask)) <= 1

\* Checkouts of several customers never take more of an offer than it has, in all or for
\* one of them; an order counts unless it was cancelled, and one that a stale edit
\* brought back is not counted here (validate_checkout_content).
OfferLimits ==
    \A o \in Offers :
        LET used == {i \in Uses(o) : ~orders[i].revived}
        IN  /\ Cardinality(used) <= UseLimit[o]
            /\ \A c \in Clients :
                  Cardinality({i \in used : orders[i].ask.client = c}) <= UserLimit[o]

\* A deleted account has no order under way and nothing personal: no profile, device,
\* notification, region, address or copy of an address, except what a request that was
\* already past authentication when the account was deleted wrote after
\* (permanently_delete_client_account).
DeletedStaysErased ==
    \A c \in Clients : client[c].deleted =>
        /\ client[c].held \subseteq excuse[c]
        /\ \A s \in {t \in Slots : book[c][t] # None} :
              book[c][s].text = "kept" => "address" \in excuse[c]
        /\ \A i \in DOMAIN orders : orders[i].ask.client = c =>
              /\ (orders[i].address = "kept") => excuse[c] \cap {"address", "order"} # {}
              /\ orders[i].status = "active" => orders[i].revived

\* A customer is charged what the preview said, item by item, when nothing it depends on
\* has changed since; a total below zero is nothing.  An administrator's order too, unless
\* two of its offers add the same product (preview_data, create_orders,
\* AdminOrderCreateSerializer.create).
QuoteIsCharge ==
    \A i \in DOMAIN orders :
        LET order == orders[i]
        IN  /\ order.quoted # None
            /\ order.ask.by = "client" \/ NoSharedAddition(order.ask.cart)
            => order.charged = [order.quoted EXCEPT !.total = Largest(@, 0)]
=============================================================================
