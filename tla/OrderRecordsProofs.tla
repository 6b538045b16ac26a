------------------------- MODULE OrderRecordsProofs -------------------------
(***************************************************************************)
(* Theorems about the records that go with an order in OrderLifecycle: its *)
(* audit log, the review notification, the couriers' inboxes, the pickups  *)
(* and its delivery price, for any orders, couriers, markets, prices,      *)
(* number of PATCH requests and bound on the events.                       *)
(*                                                                         *)
(* Every property is about one order, and every handler about one order,   *)
(* so the invariant is stated for an order and the proof has two lemmas:   *)
(* what a handler that saves the order must respect (SaveRecords), what a  *)
(* PATCH must (EditWriteRecords).  One lemma for each handler shows that   *)
(* it does.                                                                *)
(***************************************************************************)
EXTENDS OrderLifecycleProofs

Ongoing == {"confirmed"} \cup Carried
Brought == {"picked_up", "delivered", "failed_delivery"}
AwaitsReview(row) == row.status = "pending" /\ row.review = "pending_review"
Quoted(o) == edited[o] \cap {"stale", "delivery"} = {}

\* An order has events from its checkout on.
LogBegins(o) == order[o].status = "unplaced" => history[o] = << >>

Audited(o) ==
    order[o].status # "unplaced" /\ ~Stale(o) =>
        /\ history[o] # << >>
        /\ history[o][1].type = "order_created" /\ history[o][1].from = "unplaced"
        /\ history[o][Len(history[o])].to = order[o].status
        /\ \A i \in 2..Len(history[o]) : history[o][i].from = history[o][i - 1].to

\* What a row of order o claims is in the log of o.  PATCH restores rows, so this is
\* asked of the rows it has read too.
OnRecord(o, row) ==
    /\ row.status \in Ongoing => Logged(o, "review_approved", "confirmed")
    /\ row.status \in Carried => Logged(o, "assigned", "assigned")
    /\ row.status \in {"delivered", "failed_delivery"} => Logged(o, "status_changed", row.status)

PickupOnRecord(o) == pickedUp[o] # {} => Logged(o, "assigned", "assigned")

ReviewShown(o) == ~Stale(o) => (blocking[o] <=> AwaitsReview(order[o]))

Told(o) ==
    ~Stale(o) => \A c \in Couriers : inbox[o][c] = "assigned" <=> order[o].rep = c

Complete(o) ==
    order[o].status \in Brought /\ edited[o] \cap {"stale", "content"} = {}
        => pickedUp[o] = sections[o]

\* The last price event before the n-th event of o sent price for approval.
LastSent(o, n, price) ==
    \E j \in 1..(n - 1) :
        /\ history[o][j].type = "delivery_quote_sent" /\ history[o][j].price = price
        /\ \A k \in (j + 1)..(n - 1) : history[o][k].type \notin PriceEvents

QuotesAudited(o) ==
    Quoted(o) =>
        \A i \in 1..Len(history[o]) : history[o][i].type = "delivery_quote_accepted" =>
            LastSent(o, i, history[o][i].price)

\* A price that waits for the customer is the price last sent.
OfferStands(o) ==
    Quoted(o) /\ order[o].shipping = "awaiting_customer_approval" =>
        LastSent(o, Len(history[o]) + 1, order[o].price)

Priced(o) ==
    order[o].status # "unplaced" /\ Quoted(o) =>
        (order[o].price = NoPrice <=> order[o].shipping = "pending_quote")

Records(o) ==
    /\ LogBegins(o) /\ Audited(o)
    /\ OnRecord(o, order[o]) /\ PickupOnRecord(o)
    /\ ReviewShown(o) /\ Told(o) /\ Complete(o)
    /\ QuotesAudited(o) /\ OfferStands(o) /\ Priced(o)

OpenEdit(e) == edit[e] \notin {Unread, Answered}

RecordInv ==
    /\ \A o \in Orders : Records(o)
    /\ \A e \in Editors : OpenEdit(e) => OnRecord(edit[e].order, edit[e].row)

\* The invariant says more than the properties that are checked.
LEMMA RecordsImply ==
    RecordInv => /\ AuditTrail /\ DispatchOnRecord /\ ReviewBlocking /\ CourierInbox
                 /\ PickupComplete /\ QuoteAudit /\ PriceKnownUnlessPending
<1>. SUFFICES ASSUME RecordInv
              PROVE  /\ AuditTrail /\ DispatchOnRecord /\ ReviewBlocking /\ CourierInbox
                     /\ PickupComplete /\ QuoteAudit /\ PriceKnownUnlessPending
    OBVIOUS
<1>. USE DEF RecordInv, Records
<1>1. AuditTrail
    BY DEF Audited, AuditTrail
<1>2. DispatchOnRecord
    BY DEF OnRecord, PickupOnRecord, Ongoing, Carried, DispatchOnRecord
<1>3. ReviewBlocking
    BY DEF ReviewShown, AwaitsReview, ReviewBlocking
<1>4. CourierInbox
    BY DEF Told, CourierInbox
<1>5. PickupComplete
    BY DEF Complete, Brought, PickupComplete
<1>6. QuoteAudit
    BY DEF QuotesAudited, Quoted, LastSent, QuoteAudit
<1>7. PriceKnownUnlessPending
    BY DEF Priced, Quoted, PriceKnownUnlessPending
<1>. QED
    BY <1>1, <1>2, <1>3, <1>4, <1>5, <1>6, <1>7

LEMMA RecordInit == Init => RecordInv
<1>. SUFFICES ASSUME Init, NEW o \in Orders PROVE Records(o)
    BY DEF Init, OpenEdit, RecordInv
<1>1. /\ order[o] = Unplaced /\ pickedUp[o] = {} /\ history[o] = << >> /\ ~blocking[o]
      /\ \A c \in Couriers : inbox[o][c] = "none"
    BY DEF Init
<1>2. /\ Unplaced.status = "unplaced" /\ Unplaced.rep = NoCourier
      /\ Unplaced.shipping = "pending_quote"
    BY DEF Unplaced
<1>3. \A c \in Couriers : c # NoCourier
    BY OrderConstants DEF OrderConstants
<1>4. LogBegins(o) /\ Audited(o) /\ OnRecord(o, order[o]) /\ PickupOnRecord(o)
    BY <1>1, <1>2 DEF LogBegins, Audited, OnRecord, PickupOnRecord, Ongoing, Carried
<1>5. ReviewShown(o) /\ Told(o) /\ Complete(o)
    BY <1>1, <1>2, <1>3 DEF ReviewShown, AwaitsReview, Told, Complete, Brought
<1>6. QuotesAudited(o) /\ OfferStands(o) /\ Priced(o)
    BY <1>1, <1>2 DEF QuotesAudited, OfferStands, Priced
<1>. QED
    BY <1>4, <1>5, <1>6 DEF Records
-----------------------------------------------------------------------------
(* The log.                                                                *)

\* Appending an event leaves the earlier ones where they are.
LEMMA LogAppended ==
    ASSUME NEW log \in Seq(Event), NEW event \in Event
    PROVE  /\ Len(log) \in Nat
           /\ Len(Append(log, event)) = Len(log) + 1
           /\ \A i \in 1..Len(log) : Append(log, event)[i] = log[i]
           /\ Append(log, event)[Len(log) + 1] = event
           /\ Append(log, event) # << >>
OBVIOUS

\* What is logged stays logged.
LEMMA LoggedStays ==
    ASSUME NEW o \in Orders, history[o] \in Seq(Event), NEW event \in Event,
           history'[o] = Append(history[o], event)
    PROVE  /\ \A type, to : Logged(o, type, to) => Logged(o, type, to)'
           /\ Logged(o, event.type, event.to)'
<1>1. /\ Len(history[o]) \in Nat /\ Len(history'[o]) = Len(history[o]) + 1
      /\ \A i \in 1..Len(history[o]) : history'[o][i] = history[o][i]
      /\ history'[o][Len(history[o]) + 1] = event
    BY LogAppended
<1>2. ASSUME NEW type, NEW to, Logged(o, type, to) PROVE Logged(o, type, to)'
    BY <1>1, <1>2 DEF Logged
<1>3. Logged(o, event.type, event.to)'
    BY <1>1 DEF Logged
<1>. QED
    BY <1>2, <1>3

\* A new event moves no earlier one; one that is not about the price leaves the last
\* price sent in place.
LEMMA LastSentStays ==
    ASSUME NEW o \in Orders, history[o] \in Seq(Event), NEW event \in Event,
           history'[o] = Append(history[o], event)
    PROVE  /\ \A price : \A n \in 1..(Len(history[o]) + 1) :
                LastSent(o, n, price) => LastSent(o, n, price)'
           /\ \A price : event.type \notin PriceEvents
                /\ LastSent(o, Len(history[o]) + 1, price)
                => LastSent(o, Len(history[o]) + 1, price)'
           /\ event.type = "delivery_quote_sent"
                => LastSent(o, Len(history[o]) + 1, event.price)'
<1>1. PICK N \in Nat : N = Len(history[o])
    BY LogAppended
<1>2. /\ \A i \in 1..N : history'[o][i] = history[o][i]
      /\ history'[o][N + 1] = event
      /\ Len(history'[o]) = N + 1
    BY <1>1, LogAppended
<1>3. ASSUME NEW price, NEW n \in 1..(N + 1), LastSent(o, n, price)
      PROVE  LastSent(o, n, price)'
    <2>1. PICK j \in 1..(n - 1) :
            /\ history[o][j].type = "delivery_quote_sent" /\ history[o][j].price = price
            /\ \A k \in (j + 1)..(n - 1) : history[o][k].type \notin PriceEvents
        BY <1>3 DEF LastSent
    <2>2. j \in 1..N /\ \A k \in (j + 1)..(n - 1) : k \in 1..N
        OBVIOUS
    <2>3. /\ history'[o][j].type = "delivery_quote_sent" /\ history'[o][j].price = price
          /\ \A k \in (j + 1)..(n - 1) : history'[o][k].type \notin PriceEvents
        BY <1>2, <2>1, <2>2
    <2>. QED
        BY <2>3 DEF LastSent
<1>4. ASSUME NEW price, event.type \notin PriceEvents, LastSent(o, N + 1, price)
      PROVE  LastSent(o, Len(history[o]) + 1, price)'
    <2>1. PICK j \in 1..N :
            /\ history[o][j].type = "delivery_quote_sent" /\ history[o][j].price = price
            /\ \A k \in (j + 1)..N : history[o][k].type \notin PriceEvents
        BY <1>4 DEF LastSent
    <2>2. /\ history'[o][j].type = "delivery_quote_sent" /\ history'[o][j].price = price
          /\ \A k \in (j + 1)..(N + 1) : history'[o][k].type \notin PriceEvents
        BY <1>2, <1>4, <2>1
    <2>3. j \in 1..(Len(history'[o]) + 1 - 1) /\ Len(history'[o]) + 1 - 1 = N + 1
        BY <1>2
    <2>. QED
        BY <2>2, <2>3 DEF LastSent
<1>5. ASSUME event.type = "delivery_quote_sent"
      PROVE  LastSent(o, Len(history[o]) + 1, event.price)'
    <2>1. /\ N + 1 \in 1..(Len(history'[o]) + 1 - 1)
          /\ \A k \in (N + 1 + 1)..(Len(history'[o]) + 1 - 1) : FALSE
        BY <1>2
    <2>. QED
        BY <1>2, <1>5, <2>1 DEF LastSent
<1>. QED
    BY <1>1, <1>3, <1>4, <1>5
-----------------------------------------------------------------------------
(* What a handler must respect.                                            *)

\* The rows of every other order stay as they are.
OnlyAbout(o) ==
    \A p \in Orders \ {o} :
        /\ order'[p] = order[p] /\ history'[p] = history[p] /\ edited'[p] = edited[p]
        /\ sections'[p] = sections[p] /\ pickedUp'[p] = pickedUp[p]
        /\ blocking'[p] = blocking[p] /\ inbox'[p] = inbox[p]

LEMMA OthersKeepRecords ==
    ASSUME RecordInv, NEW o \in Orders, OnlyAbout(o), NEW p \in Orders \ {o}
    PROVE  Records(p)' /\ \A row : OnRecord(p, row) => OnRecord(p, row)'
<1>1. Records(p)
    BY DEF RecordInv
<1>2. /\ order'[p] = order[p] /\ history'[p] = history[p] /\ edited'[p] = edited[p]
      /\ sections'[p] = sections[p] /\ pickedUp'[p] = pickedUp[p]
      /\ blocking'[p] = blocking[p] /\ inbox'[p] = inbox[p]
    BY DEF OnlyAbout
<1>3. (LogBegins(p) /\ Audited(p))'
    BY <1>1, <1>2 DEF Records, LogBegins, Audited, Stale
<1>4. /\ (OnRecord(p, order[p]) /\ PickupOnRecord(p))'
      /\ \A row : OnRecord(p, row) => OnRecord(p, row)'
    BY <1>1, <1>2 DEF Records, OnRecord, PickupOnRecord, Logged
<1>5. (ReviewShown(p) /\ Told(p) /\ Complete(p))'
    BY <1>1, <1>2 DEF Records, ReviewShown, AwaitsReview, Told, Complete, Stale
<1>6. (QuotesAudited(p) /\ OfferStands(p) /\ Priced(p))'
    BY <1>1, <1>2 DEF Records, QuotesAudited, OfferStands, Priced, LastSent, Quoted
<1>. QED
    BY <1>3, <1>4, <1>5, <1>6 DEF Records

\* A handler that saves an order and records the event.  The hypotheses are, in
\* order: it saves a placed order; the first event is the checkout's; a status is
\* reached with its event or from one that needs the same; nothing is collected
\* before the assignment; the notifications follow the row; a brought order is
\* collected; the customer accepts what was offered, which is what was last sent;
\* and the price fits the state of its quote.
LEMMA SaveRecords ==
    ASSUME RowInv, RecordInv, NEW o \in Orders, NEW row \in Row, NEW type \in EventTypes,
           NEW price \in Prices \cup {NoPrice}, Save(o, row, type, price),
           edited' = edited, edit' = edit, OnlyAbout(o),
           row.status # "unplaced",
           order[o].status = "unplaced" => type = "order_created",
           row.status \in Ongoing => \/ order[o].status \in Ongoing
                                     \/ type = "review_approved" /\ row.status = "confirmed",
           row.status \in Carried => \/ order[o].status \in Carried
                                     \/ type = "assigned" /\ row.status = "assigned",
           row.status \in {"delivered", "failed_delivery"} => type = "status_changed",
           pickedUp'[o] # {} => pickedUp[o] # {} \/ order[o].status \in Carried,
           blocking[o] = AwaitsReview(order[o]) => blocking'[o] = AwaitsReview(row),
           (\A c \in Couriers : inbox[o][c] = "assigned" <=> order[o].rep = c)
             => \A c \in Couriers : inbox'[o][c] = "assigned" <=> row.rep = c,
           row.status \in Brought =>
                \/ pickedUp'[o] = sections'[o]
                \/ /\ order[o].status \in Brought
                   /\ pickedUp'[o] = pickedUp[o] /\ sections'[o] = sections[o],
           type = "delivery_quote_accepted" =>
                order[o].shipping = "awaiting_customer_approval" /\ price = order[o].price,
           row.shipping = "awaiting_customer_approval" =>
                \/ type = "delivery_quote_sent" /\ price = row.price
                \/ /\ type \notin PriceEvents /\ row.price = order[o].price
                   /\ order[o].shipping = "awaiting_customer_approval",
           \/ row.price = NoPrice <=> row.shipping = "pending_quote"
           \/ /\ order[o].status # "unplaced"
              /\ row.price = order[o].price /\ row.shipping = order[o].shipping
    PROVE  RecordInv'
<1>1. PICK event \in Event :
            /\ event.type = type /\ event.from = order[o].status /\ event.to = row.status
            /\ event.price = price /\ history'[o] = Append(history[o], event)
    <2>. DEFINE ev == [type |-> type, from |-> order[o].status, to |-> row.status,
                       price |-> price]
    <2>1. ev \in Event
        BY DEF RowInv, TypeOK, Row, Event
    <2>2. history'[o] = Append(history[o], ev)
        BY DEF Save, RowInv, TypeOK
    <2>. QED
        BY <2>1, <2>2
<1>2. order'[o] = row
    BY DEF Save, RowInv, TypeOK
<1>3. history[o] \in Seq(Event) /\ Records(o) /\ CoherentRow(order[o])
    BY DEF RowInv, TypeOK, RowCoherent, RecordInv
<1>4. PICK N \in Nat : N = Len(history[o])
    BY <1>3, LogAppended
<1>5. /\ Len(history'[o]) = N + 1 /\ history'[o] # << >>
      /\ \A i \in 1..N : history'[o][i] = history[o][i]
      /\ history'[o][N + 1] = event
    BY <1>1, <1>3, <1>4, LogAppended
<1>6. /\ Stale(o)' <=> Stale(o)
      /\ Quoted(o)' <=> Quoted(o)
    BY DEF Stale, Quoted
<1>7. (LogBegins(o) /\ Audited(o))'
    <2>1. LogBegins(o)'
        BY <1>2 DEF LogBegins
    <2>2. CASE order[o].status = "unplaced"
        <3>1. N = 0
            BY <1>3, <1>4, <2>2 DEF Records, LogBegins
        <3>2. history'[o][1] = event /\ Len(history'[o]) = 1 /\ event.from = "unplaced"
                /\ event.type = "order_created" /\ \A i \in 2..1 : FALSE
            BY <1>1, <1>5, <2>2, <3>1
        <3>. QED
            BY <1>1, <1>2, <1>5, <2>1, <3>2 DEF Audited
    <2>3. CASE order[o].status # "unplaced"
        <3>1. ASSUME ~Stale(o)
              PROVE  /\ history[o] # << >>
                     /\ history[o][1].type = "order_created" /\ history[o][1].from = "unplaced"
                     /\ history[o][N].to = order[o].status
                     /\ \A i \in 2..N : history[o][i].from = history[o][i - 1].to
            BY <1>3, <1>4, <2>3, <3>1 DEF Records, Audited
        <3>2. ASSUME ~Stale(o) PROVE N # 0
            BY <1>3, <1>4, <3>1, <3>2
        <3>3. ASSUME ~Stale(o)
              PROVE  /\ history'[o][1] = history[o][1]
                     /\ history'[o][N + 1].to = row.status
                     /\ \A i \in 2..(N + 1) : history'[o][i].from = history'[o][i - 1].to
            BY <1>1, <1>4, <1>5, <3>1, <3>2, <3>3
        <3>. QED
            BY <1>2, <1>5, <1>6, <2>1, <3>1, <3>3 DEF Audited
    <2>. QED
        BY <2>2, <2>3
<1>8. /\ \A t, to : Logged(o, t, to) => Logged(o, t, to)'
      /\ Logged(o, type, row.status)'
    BY <1>1, <1>3, LoggedStays
<1>9. (OnRecord(o, order[o]) /\ PickupOnRecord(o))'
    <2>1. OnRecord(o, order[o]) /\ PickupOnRecord(o)
        BY <1>3 DEF Records
    <2>2. (OnRecord(o, order[o]))'
        BY <1>2, <1>8, <2>1 DEF OnRecord, Ongoing, Carried
    <2>3. (PickupOnRecord(o))'
        BY <1>8, <2>1 DEF OnRecord, PickupOnRecord
    <2>. QED
        BY <2>2, <2>3
<1>10. ReviewShown(o)'
    <2>1. ~Stale(o) => blocking[o] = AwaitsReview(order[o])
        BY <1>3 DEF Records, ReviewShown, RowInv, TypeOK, AwaitsReview
    <2>. QED
        BY <1>2, <1>6, <2>1 DEF ReviewShown, AwaitsReview
<1>11. Told(o)'
    BY <1>2, <1>3, <1>6 DEF Records, Told
<1>12. Complete(o)'
    BY <1>2, <1>3 DEF Records, Complete
<1>13. QuotesAudited(o)'
    <2>. SUFFICES ASSUME Quoted(o)', NEW i \in 1..(N + 1),
                         history'[o][i].type = "delivery_quote_accepted"
                  PROVE  LastSent(o, i, history[o][i].price)'
        BY <1>5 DEF QuotesAudited
    <2>1. Quoted(o)
        BY <1>6
    <2>2. \A p : LastSent(o, i, p) => LastSent(o, i, p)'
        BY <1>1, <1>3, <1>4, LastSentStays
    <2>3. LastSent(o, i, history'[o][i].price)
        <3>1. CASE i = N + 1
            <4>1. type = "delivery_quote_accepted" /\ history'[o][i].price = order[o].price
                    /\ order[o].shipping = "awaiting_customer_approval"
                BY <1>1, <1>5, <3>1
            <4>. QED
                BY <1>3, <1>4, <2>1, <3>1, <4>1 DEF Records, OfferStands
        <3>2. CASE i \in 1..N
            BY <1>3, <1>4, <1>5, <2>1, <3>2 DEF Records, QuotesAudited
        <3>. QED
            BY <3>1, <3>2
    <2>. PICK p : p = history'[o][i].price
        OBVIOUS
    <2>4. LastSent(o, i, p)'
        BY <2>2, <2>3
    <2>. QED
        BY <2>4
<1>14. OfferStands(o)'
    <2>. SUFFICES ASSUME Quoted(o)', row.shipping = "awaiting_customer_approval"
                  PROVE  LastSent(o, Len(history[o]) + 1, order[o].price)'
        BY <1>2 DEF OfferStands
    <2>1. CASE type = "delivery_quote_sent" /\ price = row.price
        <3>1. LastSent(o, Len(history[o]) + 1, event.price)'
            BY <1>1, <1>3, <2>1, LastSentStays
        <3>. QED
            BY <1>1, <1>2, <2>1, <3>1
    <2>2. CASE /\ type \notin PriceEvents /\ row.price = order[o].price
               /\ order[o].shipping = "awaiting_customer_approval"
        <3>1. LastSent(o, Len(history[o]) + 1, order[o].price)
            BY <1>3, <1>6, <2>2 DEF Records, OfferStands
        <3>2. LastSent(o, Len(history[o]) + 1, row.price)
            BY <2>2, <3>1
        <3>3. LastSent(o, Len(history[o]) + 1, row.price)'
            BY <1>1, <1>3, <2>2, <3>2, LastSentStays
        <3>. QED
            BY <1>2, <3>3
    <2>. QED
        BY <2>1, <2>2
<1>15. Priced(o)'
    BY <1>2, <1>3, <1>6 DEF Records, Priced
<1>16. Records(o)'
    BY <1>7, <1>9, <1>10, <1>11, <1>12, <1>13, <1>14, <1>15 DEF Records
<1>17. \A p \in Orders : Records(p)'
    BY <1>16, OthersKeepRecords
<1>18. ASSUME NEW e \in Editors, OpenEdit(e) PROVE (OnRecord(edit[e].order, edit[e].row))'
    <2>1. PICK p \in Orders, read \in Row : edit[e].order = p /\ edit[e].row = read
        BY <1>18 DEF OpenEdit, RowInv, TypeOK
    <2>2. OnRecord(p, read)
        BY <1>18, <2>1 DEF RecordInv
    <2>3. OnRecord(p, read)'
        BY <1>8, <2>2, OthersKeepRecords DEF OnRecord
    <2>. QED
        BY <2>1, <2>3
<1>. QED
    BY <1>17, <1>18 DEF RecordInv, OpenEdit

\* A handler that leaves the orders and their records alone may read or drop a PATCH.
LEMMA NoSaveRecords ==
    ASSUME RowInv, RecordInv,
           UNCHANGED <<order, sections, history, blocking, inbox, edited>>,
           \A o \in Orders : Records(o)
             => pickedUp'[o] = pickedUp[o] \/ order[o].status = "assigned",
           \A e \in Editors : OpenEdit(e)' =>
                \/ edit'[e] = edit[e]
                \/ \E o \in Orders : edit'[e] = [order |-> o, row |-> order[o]]
    PROVE  RecordInv'
<1>1. \A o, type, to : Logged(o, type, to)' <=> Logged(o, type, to)
    BY DEF Logged
<1>2. \A o, row : OnRecord(o, row)' <=> OnRecord(o, row)
    BY <1>1 DEF OnRecord
<1>3. ASSUME NEW o \in Orders PROVE Records(o)'
    <2>1. Records(o)
        BY DEF RecordInv
    <2>2. (LogBegins(o) /\ Audited(o) /\ ReviewShown(o) /\ Told(o))'
        BY <2>1 DEF Records, LogBegins, Audited, ReviewShown, AwaitsReview, Told, Stale
    <2>3. (QuotesAudited(o) /\ OfferStands(o) /\ Priced(o))'
        BY <2>1 DEF Records, QuotesAudited, OfferStands, Priced, LastSent, Quoted
    <2>4. (OnRecord(o, order[o]))'
        BY <2>1 DEF Records, OnRecord, Logged
    <2>5. (PickupOnRecord(o) /\ Complete(o))'
        <3>1. CASE pickedUp'[o] = pickedUp[o]
            BY <2>1, <3>1 DEF Records, PickupOnRecord, Complete, Logged
        <3>2. CASE order[o].status = "assigned"
            <4>1. Logged(o, "assigned", "assigned")
                BY <2>1, <3>2 DEF Records, OnRecord, Carried
            <4>. QED
                BY <1>1, <3>2, <4>1 DEF PickupOnRecord, Complete, Brought
        <3>. QED
            BY <2>1, <3>1, <3>2
    <2>. QED
        BY <2>2, <2>3, <2>4, <2>5 DEF Records
<1>4. ASSUME NEW e \in Editors, OpenEdit(e)' PROVE (OnRecord(edit[e].order, edit[e].row))'
    <2>1. OnRecord(edit'[e].order, edit'[e].row)
        <3>1. CASE edit'[e] = edit[e]
            BY <1>4, <3>1 DEF RecordInv, OpenEdit
        <3>2. CASE \E o \in Orders : edit'[e] = [order |-> o, row |-> order[o]]
            BY <3>2 DEF RecordInv, Records
        <3>. QED
            BY <1>4, <3>1, <3>2
    <2>. QED
        BY <1>2, <2>1 DEF OnRecord, Logged
<1>. QED
    BY <1>3, <1>4 DEF RecordInv

\* A PATCH restores what it read, up to the columns it was asked to change.  Unless
\* that makes the order stale, only those columns change at all.
LEMMA EditWriteRecords ==
    ASSUME RowInv, RecordInv, NEW e \in Editors, OpenEdit(e),
           NEW row \in Row, NEW kinds \in SUBSET {"delivery", "content"},
           EditWrite(e, row, kinds),
           NEW o \in Orders, o = edit[e].order, NEW read \in Row, read = edit[e].row,
           row.status = read.status, row.review = read.review, row.rep = read.rep,
           row.shipping = read.shipping,
           "delivery" \notin kinds => row = read,
           pickedUp' \in {pickedUp, [pickedUp EXCEPT ![o] = {}]},
           sections' \in {sections, [sections EXCEPT ![o] = sections'[o]]},
           "content" \notin kinds => pickedUp' = pickedUp /\ sections' = sections
    PROVE  RecordInv'
<1>. DEFINE lost == IF order[o] = read THEN {} ELSE {"stale"}
<1>1. /\ order' = [order EXCEPT ![o] = row]
      /\ edited' = [edited EXCEPT ![o] = @ \cup kinds \cup lost]
      /\ edit' = [edit EXCEPT ![e] = Answered]
      /\ UNCHANGED <<history, blocking, inbox>>
    BY DEF EditWrite
<1>2. OnlyAbout(o)
    BY <1>1 DEF OnlyAbout, RowInv, TypeOK
<1>3. order'[o] = row /\ edited'[o] = edited[o] \cup kinds \cup lost
    BY <1>1 DEF RowInv, TypeOK
<1>4. ~Stale(o)' => ~Stale(o) /\ order[o] = read
    BY <1>3 DEF Stale
<1>5. Quoted(o)' => Quoted(o) /\ order[o] = read /\ row = read
    BY <1>3 DEF Quoted
<1>. HIDE DEF lost
<1>6. Records(o) /\ OnRecord(o, read) /\ read.status # "unplaced"
    BY DEF RecordInv, RowInv, EditsCoherent, OpenEdit
<1>7. \A type, to : Logged(o, type, to)' <=> Logged(o, type, to)
    BY <1>1 DEF Logged
<1>8. (LogBegins(o) /\ Audited(o))'
    <2>1. LogBegins(o)'
        BY <1>3, <1>6 DEF LogBegins
    <2>2. Audited(o)'
        BY <1>1, <1>3, <1>4, <1>6 DEF Records, Audited
    <2>. QED
        BY <2>1, <2>2
<1>9. (OnRecord(o, order[o]) /\ PickupOnRecord(o))'
    <2>1. (OnRecord(o, order[o]))'
        BY <1>3, <1>6, <1>7 DEF OnRecord
    <2>2. pickedUp'[o] # {} => pickedUp[o] # {}
        BY DEF RowInv, TypeOK
    <2>3. PickupOnRecord(o)'
        BY <1>6, <1>7, <2>2 DEF Records, PickupOnRecord
    <2>. QED
        BY <2>1, <2>3
<1>10. (ReviewShown(o) /\ Told(o))'
    BY <1>1, <1>3, <1>4, <1>6 DEF Records, ReviewShown, AwaitsReview, Told
<1>11. Complete(o)'
    <2>. SUFFICES ASSUME edited'[o] \cap {"stale", "content"} = {}, row.status \in Brought
                  PROVE  pickedUp'[o] = sections'[o]
        BY <1>3 DEF Complete
    <2>1. "content" \notin kinds /\ order[o] = read /\ edited[o] \cap {"stale", "content"} = {}
        BY <1>3, <1>4 DEF Stale
    <2>. QED
        BY <1>6, <2>1 DEF Records, Complete
<1>12. (QuotesAudited(o) /\ OfferStands(o) /\ Priced(o))'
    <2>1. \A n, price : LastSent(o, n, price)' <=> LastSent(o, n, price)
        BY <1>1 DEF LastSent
    <2>2. QuotesAudited(o)'
        BY <1>1, <1>5, <1>6 DEF Records, QuotesAudited, LastSent
    <2>3. OfferStands(o)'
        BY <1>1, <1>3, <1>5, <1>6 DEF Records, OfferStands, LastSent
    <2>4. Priced(o)'
        BY <1>3, <1>5, <1>6 DEF Records, Priced
    <2>. QED
        BY <2>2, <2>3, <2>4
<1>13. \A p \in Orders : Records(p)'
    <2>1. Records(o)'
        BY <1>8, <1>9, <1>10, <1>11, <1>12 DEF Records
    <2>. QED
        BY <1>2, <2>1, OthersKeepRecords
<1>14. ASSUME NEW f \in Editors, OpenEdit(f)' PROVE (OnRecord(edit[f].order, edit[f].row))'
    <2>1. edit'[f] = edit[f] /\ OpenEdit(f)
        BY <1>1, <1>14 DEF OpenEdit, RowInv, TypeOK
    <2>2. OnRecord(edit[f].order, edit[f].row)
        BY <2>1 DEF RecordInv
    <2>. QED
        BY <1>1, <2>1, <2>2 DEF OnRecord, Logged
<1>. QED
    BY <1>13, <1>14 DEF RecordInv
-----------------------------------------------------------------------------
(* Every handler respects it.                                              *)

LEMMA PlaceRecords ==
    ASSUME OrderConstants, RowInv, RecordInv, NEW o \in Orders,
           NEW delivery \in {"fixed_area", "delivery"}, NEW areaPrice \in Prices,
           NEW free \in BOOLEAN, NEW markets \in SUBSET Markets,
           Place(o, delivery, areaPrice, free, markets)
    PROVE  RecordInv'
<1>. DEFINE price == IF free THEN 0 ELSE IF delivery = "fixed_area" THEN areaPrice
                     ELSE NoPrice
            saved == [Unplaced EXCEPT !.status = "pending", !.delivery = delivery,
                         !.price = price, !.shipping = PlacedShipping(price, delivery)]
<1>1. /\ saved \in Row /\ saved.status = "pending" /\ saved.review = "pending_review"
      /\ saved.rep = NoCourier
      /\ saved.shipping # "awaiting_customer_approval"
      /\ saved.price = NoPrice <=> saved.shipping = "pending_quote"
    BY DEF OrderConstants, Unplaced, PlacedShipping, Row, Statuses, Reviews, Shippings
<1>2. Save(o, saved, "order_created", NoPrice) /\ order[o].status = "unplaced"
    BY DEF Place
<1>. HIDE DEF saved
<1>3. PICK row \in Row : row = saved
    BY <1>1
<1>4. OnlyAbout(o) /\ edited' = edited /\ edit' = edit
    BY <1>2 DEF Place, Save, OnlyAbout, RowInv, TypeOK
<1>5. pickedUp' = pickedUp /\ inbox' = inbox /\ blocking'[o] = TRUE
    BY DEF Place, RowInv, TypeOK
<1>6. order[o].rep = NoCourier
    BY <1>2 DEF RowInv, RowCoherent, CoherentRow, Carried
<1>7. "order_created" \in EventTypes /\ NoPrice \in Prices \cup {NoPrice}
    BY DEF EventTypes
<1>8. AwaitsReview(row)
    BY <1>1, <1>3 DEF AwaitsReview
<1>. QED
    BY <1>1, <1>2, <1>3, <1>4, <1>5, <1>6, <1>7, <1>8, SaveRecords
       DEF Ongoing, Carried, Brought, AwaitsReview

LEMMA ReviewRecords ==
    ASSUME OrderConstants, RowInv, RecordInv, NEW o \in Orders, Approve(o) \/ Reject(o)
    PROVE  RecordInv'
<1>. DEFINE approved == [order[o] EXCEPT !.review = "approved", !.status = "confirmed"]
            rejected == [order[o] EXCEPT !.review = "rejected", !.status = "cancelled"]
<1>1. order[o] \in Row /\ CoherentRow(order[o])
    BY DEF RowInv, TypeOK, RowCoherent
<1>2. /\ "approved" \in Reviews /\ "rejected" \in Reviews /\ "confirmed" \in Statuses
      /\ "cancelled" \in Statuses
    BY DEF Reviews, Statuses, Finished
<1>3. /\ approved \in Row /\ approved.status = "confirmed" /\ approved.rep = order[o].rep
      /\ approved.price = order[o].price /\ approved.shipping = order[o].shipping
    BY <1>1, <1>2 DEF Row
<1>4. /\ rejected \in Row /\ rejected.status = "cancelled" /\ rejected.rep = order[o].rep
      /\ rejected.price = order[o].price /\ rejected.shipping = order[o].shipping
    BY <1>1, <1>2 DEF Row
<1>5. /\ OnlyAbout(o) /\ edited' = edited /\ edit' = edit /\ pickedUp' = pickedUp
      /\ inbox' = inbox /\ sections' = sections /\ blocking'[o] = FALSE
      /\ order[o].status # "unplaced"
    BY DEF Approve, Reject, Locks, Resolved, Save, OnlyAbout, RowInv, TypeOK
<1>6. /\ {"review_approved", "review_rejected"} \subseteq EventTypes
      /\ {"review_approved", "review_rejected"} \cap PriceEvents = {}
      /\ NoPrice \in Prices \cup {NoPrice}
    BY DEF EventTypes, PriceEvents
<1>7. CASE Approve(o)
    <2>1. Save(o, approved, "review_approved", NoPrice)
        BY <1>7 DEF Approve
    <2>. HIDE DEF approved
    <2>2. PICK row \in Row : row = approved
        BY <1>3
    <2>. QED
        BY <1>3, <1>5, <1>6, <2>1, <2>2, SaveRecords
           DEF Ongoing, Carried, Brought, AwaitsReview, PriceEvents
<1>8. CASE Reject(o)
    <2>1. Save(o, rejected, "review_rejected", NoPrice)
        BY <1>8 DEF Reject
    <2>. HIDE DEF rejected
    <2>2. PICK row \in Row : row = rejected
        BY <1>4
    <2>. QED
        BY <1>4, <1>5, <1>6, <2>1, <2>2, SaveRecords
           DEF Ongoing, Carried, Brought, AwaitsReview, PriceEvents
<1>. QED
    BY <1>7, <1>8

LEMMA CancelRecords ==
    ASSUME OrderConstants, RowInv, RecordInv, NEW o \in Orders, Cancel(o)
    PROVE  RecordInv'
<1>. DEFINE saved == CancelledRow(order[o])
<1>1. order[o] \in Row
    BY DEF RowInv, TypeOK
<1>2. /\ saved \in Row /\ saved.status = "cancelled" /\ saved.rep = NoCourier
      /\ saved.price = order[o].price /\ saved.shipping = order[o].shipping
    BY <1>1, RowTypes DEF CancelledRow, Row
<1>3. /\ Save(o, saved, "cancelled", NoPrice) /\ order[o].status # "unplaced"
      /\ edited' = edited /\ edit' = edit /\ pickedUp' = pickedUp /\ sections' = sections
      /\ inbox'[o] = Notified(inbox[o], order[o].rep, "cancelled", NoCourier)
    BY DEF RowInv, TypeOK, Cancel, Locks
<1>4. OnlyAbout(o) /\ blocking'[o] = FALSE
    BY DEF Cancel, Resolved, Save, OnlyAbout, RowInv, TypeOK
<1>. HIDE DEF saved
<1>5. PICK row \in Row : row = saved
    BY <1>2
<1>7. (\A c \in Couriers : inbox[o][c] = "assigned" <=> order[o].rep = c)
        => \A c \in Couriers : inbox'[o][c] = "assigned" <=> row.rep = c
    <2>. SUFFICES ASSUME \A c \in Couriers : inbox[o][c] = "assigned" <=> order[o].rep = c
                  PROVE  \A c \in Couriers : inbox'[o][c] = "assigned" <=> NoCourier = c
        BY <1>2, <1>5
    <2>1. \A c \in Couriers :
            Notified(inbox[o], order[o].rep, "cancelled", NoCourier)[c] = "assigned"
                <=> NoCourier = c
        BY <1>1, OrderConstants DEF Notified, OrderConstants
    <2>. QED
        BY <1>3, <2>1
<1>8. "cancelled" \in EventTypes \ PriceEvents /\ NoPrice \in Prices \cup {NoPrice}
    BY DEF EventTypes, PriceEvents
<1>. QED
    BY <1>2, <1>3, <1>4, <1>5, <1>7, <1>8, SaveRecords
       DEF Ongoing, Carried, Brought, AwaitsReview

\* A saved price is no longer open, or is the one the customer is asked about.
LEMMA SetDeliveryPriceRecords ==
    ASSUME OrderConstants, RowInv, RecordInv, NEW o \in Orders, NEW price \in Prices,
           NEW request \in BOOLEAN, SetDeliveryPrice(o, price, request)
    PROVE  RecordInv'
<1>. DEFINE saved == [order[o] EXCEPT !.price = price,
                                      !.shipping = QuotedShipping(order[o], request)]
<1>1. order[o] \in Row /\ price # NoPrice
    BY DEF OrderConstants, RowInv, TypeOK
<1>2. /\ saved \in Row /\ saved.price = price
      /\ saved.status = order[o].status /\ saved.review = order[o].review
      /\ saved.rep = order[o].rep /\ saved.shipping = QuotedShipping(order[o], request)
    BY <1>1, RowTypes DEF Row
<1>3. /\ saved.shipping # "pending_quote"
      /\ saved.shipping = "awaiting_customer_approval" => request
    BY <1>2 DEF QuotedShipping
<1>4. PICK type \in EventTypes :
            /\ type = IF request THEN "delivery_quote_sent" ELSE "delivery_price_changed"
    BY DEF EventTypes, PriceEvents
<1>5. /\ Save(o, saved, type, price) /\ order[o].status # "unplaced"
      /\ order[o].status \notin {"delivered", "failed_delivery"}
      /\ edited' = edited /\ edit' = edit /\ pickedUp' = pickedUp /\ sections' = sections
      /\ inbox' = inbox /\ blocking' = blocking
    BY <1>4 DEF SetDeliveryPrice, Locks, Finished
<1>6. OnlyAbout(o)
    BY <1>5 DEF Save, OnlyAbout, RowInv, TypeOK
<1>. HIDE DEF saved
<1>7. PICK row \in Row : row = saved
    BY <1>2
<1>. QED
    BY <1>1, <1>2, <1>3, <1>4, <1>5, <1>6, <1>7, SaveRecords DEF AwaitsReview

LEMMA AcceptQuoteRecords ==
    ASSUME OrderConstants, RowInv, RecordInv, NEW o \in Orders, AcceptQuote(o)
    PROVE  RecordInv'
<1>. DEFINE saved == AcceptedRow(order[o])
<1>1. order[o] \in Row
    BY DEF RowInv, TypeOK
<1>2. /\ saved \in Row /\ saved.price = order[o].price
      /\ saved.status = order[o].status /\ saved.review = order[o].review
      /\ saved.rep = order[o].rep /\ saved.shipping = "quoted"
    BY <1>1, RowTypes DEF AcceptedRow, Row
<1>3. /\ Save(o, saved, "delivery_quote_accepted", order[o].price)
      /\ order[o].shipping = "awaiting_customer_approval" /\ order[o].price # NoPrice
      /\ order[o].status # "unplaced"
      /\ order[o].status \notin {"delivered", "failed_delivery"}
      /\ edited' = edited /\ edit' = edit /\ pickedUp' = pickedUp /\ sections' = sections
      /\ inbox' = inbox /\ blocking' = blocking
    BY DEF AcceptQuote, Locks, Finished
<1>4. OnlyAbout(o)
    BY <1>3 DEF Save, OnlyAbout, RowInv, TypeOK
<1>. HIDE DEF saved
<1>5. PICK row \in Row, price \in Prices \cup {NoPrice} : row = saved /\ price = order[o].price
    BY <1>1, <1>2 DEF Row
<1>6. "delivery_quote_accepted" \in EventTypes
    BY DEF EventTypes, PriceEvents
<1>. QED
    BY <1>2, <1>3, <1>4, <1>5, <1>6, SaveRecords DEF AwaitsReview

LEMMA AssignWriteRecords ==
    ASSUME OrderConstants, RowInv, RecordInv, NEW o \in Orders, AssignWrite(o)
    PROVE  RecordInv'
<1>. DEFINE saved == [order[o] EXCEPT !.status = "assigned", !.rep = assigning[o]]
<1>1. /\ order[o] \in Row /\ assigning[o] \in Couriers
      /\ order[o].status \in {"confirmed", "assigned"}
    BY DEF AssignWrite, RowInv, TypeOK, AssigningValid, Assignable
<1>2. /\ saved \in Row /\ saved.status = "assigned" /\ saved.rep = assigning[o]
      /\ saved.price = order[o].price /\ saved.shipping = order[o].shipping
    BY <1>1 DEF Row, Statuses, Carried
<1>3. /\ Save(o, saved, "assigned", NoPrice)
      /\ edited' = edited /\ edit' = edit /\ pickedUp' = pickedUp /\ sections' = sections
      /\ blocking' = blocking
      /\ inbox'[o] = Notified(inbox[o], order[o].rep, "unassigned", assigning[o])
    BY DEF RowInv, TypeOK, AssignWrite
<1>4. OnlyAbout(o)
    BY <1>3 DEF AssignWrite, Save, OnlyAbout, RowInv, TypeOK
<1>. HIDE DEF saved
<1>5. PICK row \in Row : row = saved
    BY <1>2
<1>6. (\A d \in Couriers : inbox[o][d] = "assigned" <=> order[o].rep = d)
        => \A d \in Couriers : inbox'[o][d] = "assigned" <=> row.rep = d
    <2>. SUFFICES ASSUME \A d \in Couriers : inbox[o][d] = "assigned" <=> order[o].rep = d
                  PROVE  \A d \in Couriers : inbox'[o][d] = "assigned" <=> assigning[o] = d
        BY <1>2, <1>5
    <2>1. \A d \in Couriers :
            Notified(inbox[o], order[o].rep, "unassigned", assigning[o])[d] = "assigned"
                <=> assigning[o] = d
        BY <1>1, OrderConstants DEF Notified, OrderConstants
    <2>. QED
        BY <1>3, <2>1
<1>7. "assigned" \in EventTypes \ PriceEvents /\ NoPrice \in Prices \cup {NoPrice}
    BY DEF EventTypes, PriceEvents
<1>. QED
    BY <1>1, <1>2, <1>3, <1>4, <1>5, <1>6, <1>7, SaveRecords
       DEF Ongoing, Carried, Brought, AwaitsReview

LEMMA UnassignRecords ==
    ASSUME OrderConstants, RowInv, RecordInv, NEW o \in Orders, Unassign(o)
    PROVE  RecordInv'
<1>. DEFINE saved == UnassignedRow(order[o])
<1>1. order[o] \in Row /\ order[o].status = "assigned"
    BY DEF Unassign, RowInv, TypeOK, RowCoherent, CoherentRow, Finished, Carried
<1>2. /\ saved \in Row /\ saved.status = "confirmed" /\ saved.rep = NoCourier
      /\ saved.price = order[o].price /\ saved.shipping = order[o].shipping
    BY <1>1, RowTypes DEF UnassignedRow, Row
<1>3. /\ Save(o, saved, "unassigned", NoPrice)
      /\ edited' = edited /\ edit' = edit /\ pickedUp' = pickedUp /\ sections' = sections
      /\ blocking' = blocking
      /\ inbox'[o] = Notified(inbox[o], order[o].rep, "unassigned", NoCourier)
    BY DEF RowInv, TypeOK, Unassign
<1>4. OnlyAbout(o)
    BY <1>3 DEF Unassign, Save, OnlyAbout, RowInv, TypeOK
<1>. HIDE DEF saved
<1>5. PICK row \in Row : row = saved
    BY <1>2
<1>6. (\A c \in Couriers : inbox[o][c] = "assigned" <=> order[o].rep = c)
        => \A c \in Couriers : inbox'[o][c] = "assigned" <=> row.rep = c
    <2>. SUFFICES ASSUME \A c \in Couriers : inbox[o][c] = "assigned" <=> order[o].rep = c
                  PROVE  \A c \in Couriers : inbox'[o][c] = "assigned" <=> NoCourier = c
        BY <1>2, <1>5
    <2>1. \A c \in Couriers :
            Notified(inbox[o], order[o].rep, "unassigned", NoCourier)[c] = "assigned"
                <=> NoCourier = c
        BY <1>1, OrderConstants DEF Notified, OrderConstants
    <2>. QED
        BY <1>3, <2>1
<1>7. "unassigned" \in EventTypes \ PriceEvents /\ NoPrice \in Prices \cup {NoPrice}
    BY DEF EventTypes, PriceEvents
<1>. QED
    BY <1>1, <1>2, <1>3, <1>4, <1>5, <1>6, <1>7, SaveRecords
       DEF Ongoing, Carried, Brought, AwaitsReview

LEMMA CourierStatusRecords ==
    ASSUME OrderConstants, RowInv, RecordInv, NEW o \in Orders, NEW status \in Statuses,
           CourierStatus(o, status)
    PROVE  RecordInv'
<1>. DEFINE saved == [order[o] EXCEPT !.status = status]
<1>1. order[o] \in Row
    BY DEF RowInv, TypeOK
<1>2. /\ saved \in Row /\ saved.status = status /\ saved.rep = order[o].rep
      /\ saved.price = order[o].price /\ saved.shipping = order[o].shipping
    BY <1>1 DEF Row
<1>3. /\ Save(o, saved, "status_changed", NoPrice)
      /\ edited' = edited /\ edit' = edit /\ inbox' = inbox /\ sections' = sections
      /\ blocking' = blocking /\ pickedUp' = [pickedUp EXCEPT ![o] = Collected(o, status)]
    BY DEF CourierStatus
<1>4. OnlyAbout(o)
    BY <1>3 DEF Save, OnlyAbout, RowInv, TypeOK
<1>5. \/ order[o].status = "assigned" /\ status = "picked_up"
      \/ order[o].status = "picked_up" /\ status \in {"delivered", "failed_delivery"}
    BY DEF CourierStatus, CourierNext
<1>6. pickedUp'[o] = IF status = "picked_up" THEN sections[o] ELSE pickedUp[o]
    BY <1>3 DEF RowInv, TypeOK, Collected
<1>. HIDE DEF saved
<1>7. PICK row \in Row : row = saved
    BY <1>2
<1>8. "status_changed" \in EventTypes \ PriceEvents /\ NoPrice \in Prices \cup {NoPrice}
    BY DEF EventTypes, PriceEvents
<1>. QED
    BY <1>1, <1>2, <1>3, <1>4, <1>5, <1>6, <1>7, <1>8, SaveRecords
       DEF Ongoing, Carried, Brought, AwaitsReview

LEMMA RecordStep == OrderConstants /\ RowInv /\ RecordInv /\ [Next]_vars => RecordInv'
<1>. SUFFICES ASSUME OrderConstants, RowInv, RecordInv, [Next]_vars PROVE RecordInv'
    OBVIOUS
<1>1. ASSUME NEW o \in Orders, NEW c \in Couriers, AssignCheck(o, c) PROVE RecordInv'
    BY <1>1, NoSaveRecords DEF AssignCheck, OpenEdit
<1>2. ASSUME NEW o \in Orders, AssignRollback(o) PROVE RecordInv'
    BY <1>2, NoSaveRecords DEF AssignRollback, OpenEdit
<1>3. ASSUME NEW o \in Orders, NEW market \in Markets, CourierMarketPickup(o, market)
      PROVE RecordInv'
    BY <1>3, NoSaveRecords DEF CourierMarketPickup, OpenEdit, RowInv, TypeOK
<1>4. ASSUME NEW c \in Couriers, DeactivateCourier(c) \/ ReactivateCourier(c)
      PROVE RecordInv'
    BY <1>4, NoSaveRecords DEF DeactivateCourier, ReactivateCourier, OpenEdit
<1>5. ASSUME NEW e \in Editors, NEW o \in Orders, EditRead(e, o) PROVE RecordInv'
    BY <1>5, NoSaveRecords DEF EditRead, OpenEdit, RowInv, TypeOK
<1>6. ASSUME NEW e \in Editors, EditRefused(e) PROVE RecordInv'
    BY <1>6, NoSaveRecords DEF EditRefused, OpenEdit, RowInv, TypeOK
<1>7. ASSUME NEW e \in Editors, EditDetails(e) PROVE RecordInv'
    <2>1. PICK o \in Orders, read \in Row : o = edit[e].order /\ read = edit[e].row
        BY <1>7 DEF EditDetails, RowInv, TypeOK
    <2>2. /\ EditWrite(e, read, {}) /\ OpenEdit(e)
          /\ pickedUp' = pickedUp /\ sections' = sections
        BY <1>7, <2>1 DEF EditDetails, OpenEdit
    <2>. QED
        BY <2>1, <2>2, EditWriteRecords
<1>8. ASSUME NEW e \in Editors, NEW price \in Prices \cup {NoPrice},
             NEW delivery \in {"fixed_area", "delivery"}, EditDelivery(e, delivery, price)
      PROVE RecordInv'
    <2>1. PICK o \in Orders, read \in Row : o = edit[e].order /\ read = edit[e].row
        BY <1>8 DEF EditDelivery, RowInv, TypeOK
    <2>. DEFINE row == [read EXCEPT !.delivery = delivery, !.price = price]
    <2>2. /\ row \in Row /\ row.status = read.status /\ row.review = read.review
          /\ row.rep = read.rep /\ row.shipping = read.shipping
        BY DEF Row
    <2>3. /\ EditWrite(e, row, {"delivery"}) /\ OpenEdit(e)
          /\ pickedUp' = pickedUp /\ sections' = sections
        BY <1>8, <2>1 DEF EditDelivery, OpenEdit
    <2>. HIDE DEF row
    <2>. QED
        BY <2>1, <2>2, <2>3, EditWriteRecords
<1>9. ASSUME NEW e \in Editors, NEW markets \in SUBSET Markets, NEW free \in BOOLEAN,
             EditContent(e, markets, free)
      PROVE RecordInv'
    <2>1. PICK o \in Orders, read \in Row : o = edit[e].order /\ read = edit[e].row
        BY <1>9 DEF EditContent, RowInv, TypeOK
    <2>2. /\ EditWrite(e, read, {"content"}) /\ OpenEdit(e)
          /\ pickedUp' = [pickedUp EXCEPT ![o] = {}]
          /\ sections' = [sections EXCEPT ![o] = markets]
        BY <1>9, <2>1 DEF EditContent, OpenEdit
    <2>3. sections' = [sections EXCEPT ![o] = sections'[o]]
        BY <2>2 DEF RowInv, TypeOK
    <2>. QED
        BY <2>1, <2>2, <2>3, EditWriteRecords
<1>10. CASE UNCHANGED vars
    BY <1>10, NoSaveRecords DEF vars, OpenEdit
<1>. QED
    BY <1>1, <1>2, <1>3, <1>4, <1>5, <1>6, <1>7, <1>8, <1>9, <1>10, PlaceRecords,
       ReviewRecords, CancelRecords, SetDeliveryPriceRecords, AcceptQuoteRecords,
       AssignWriteRecords, UnassignRecords, CourierStatusRecords
       DEF Next, CheckoutNext, AdminNext, CourierAppNext, AccountNext, EditNext

LEMMA RecordsInvariant == Spec => []RecordInv
<1>1. Init => RecordInv
    BY RecordInit
<1>2. RecordInv /\ RowInv /\ [Next]_vars => RecordInv'
    BY RecordStep, OrderConstants
<1>. QED
    BY <1>1, <1>2, RowInvariant, PTL DEF Spec
-----------------------------------------------------------------------------
(* The properties the runs check.                                          *)

\* The events of an order form an unbroken chain from its checkout to the status it
\* has now, unless a PATCH has lost a newer row.
THEOREM LogIsAChain == Spec => []AuditTrail
<1>1. RecordInv => AuditTrail
    BY RecordsImply
<1>. QED
    BY <1>1, RecordsInvariant, PTL

\* No order is dispatched or collected without its review and its assignment in the
\* log, also after a PATCH has restored an older row.
THEOREM DispatchIsLogged == Spec => []DispatchOnRecord
<1>1. RecordInv => DispatchOnRecord
    BY RecordsImply
<1>. QED
    BY <1>1, RecordsInvariant, PTL

\* The blocking notification is open exactly while the order waits for its review.
THEOREM ReviewIsShown == Spec => []ReviewBlocking
<1>1. RecordInv => ReviewBlocking
    BY RecordsImply
<1>. QED
    BY <1>1, RecordsInvariant, PTL

\* "assigned" is the last thing told to the courier who holds an order, and to no other.
THEOREM CouriersAreTold == Spec => []CourierInbox
<1>1. RecordInv => CourierInbox
    BY RecordsImply
<1>. QED
    BY <1>1, RecordsInvariant, PTL

\* What the courier carries or has brought was collected from every market.
THEOREM PickupsAreComplete == Spec => []PickupComplete
<1>1. RecordInv => PickupComplete
    BY RecordsImply
<1>. QED
    BY <1>1, RecordsInvariant, PTL

\* The price the customer accepted is the price last sent for approval.
THEOREM QuotesAreAudited == Spec => []QuoteAudit
<1>1. RecordInv => QuoteAudit
    BY RecordsImply
<1>. QED
    BY <1>1, RecordsInvariant, PTL

\* Only an order whose quote is pending lacks a delivery price.
THEOREM PricesAreKnown == Spec => []PriceKnownUnlessPending
<1>1. RecordInv => PriceKnownUnlessPending
    BY RecordsImply
<1>. QED
    BY <1>1, RecordsInvariant, PTL
=============================================================================
