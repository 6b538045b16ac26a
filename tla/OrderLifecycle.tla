--------------------------- MODULE OrderLifecycle ---------------------------
(***************************************************************************)
(* An order from checkout to its last status: the admin's review, price    *)
(* and assignment endpoints, the customer's quote acceptance, the courier  *)
(* endpoints and the admin's PATCH (orders/views.py, courier_views.py,     *)
(* admin_review_views.py), over the rows they share.                       *)
(*                                                                         *)
(* Every endpoint but PATCH locks the order row (select_for_update) and    *)
(* writes what follows in the same transaction, so each is one action      *)
(* guarded by the lock being free.  Two handlers are split in two steps:   *)
(*  - assignment validates the courier's account, which it does not lock,  *)
(*    and writes the order later; the order row stays locked in between;   *)
(*  - PATCH reads the order before its transaction and saves every column  *)
(*    of what it read.                                                     *)
(* Columns written only together with one modelled here (assigned_at with  *)
(* rep, delivered_at with "delivered", fulfillment_type with shipping,     *)
(* approved_by and rejected_by with review) are left out, and so is the    *)
(* arithmetic of the totals.  Requests answered with an error, and retries *)
(* answered from the row as it is, change nothing and are no actions.      *)
(***************************************************************************)
EXTENDS Integers, Sequences

CONSTANTS
    Orders, Couriers, Markets,
    Prices,         \* delivery prices, whole pounds
    Editors,        \* PATCH requests, as many as the model lets run
    NoCourier, NoPrice,
    Unread, Answered,   \* a PATCH not yet begun, and one that is over
    MaxEvents       \* bound of the model: OrderEvent rows an order may collect

ASSUME OrderConstants ==
    /\ NoCourier \notin Couriers
    /\ Prices \subseteq Nat /\ 0 \in Prices /\ NoPrice \notin Prices
    /\ MaxEvents \in Nat

Finished == {"delivered", "failed_delivery", "cancelled"}
Carried  == {"assigned", "picked_up"}
Statuses == {"unplaced", "pending", "confirmed"} \cup Carried \cup Finished
Reviews  == {"pending_review", "approved", "rejected"}
Shippings == {"not_required", "pending_quote", "awaiting_customer_approval", "quoted"}
PriceEvents ==
    {"delivery_price_changed", "delivery_quote_sent", "delivery_quote_accepted"}
EventTypes ==
    {"order_created", "review_approved", "review_rejected", "status_changed",
     "assigned", "unassigned", "cancelled"} \cup PriceEvents

Row == [status: Statuses, review: Reviews, rep: Couriers \cup {NoCourier},
        delivery: {"fixed_area", "delivery"}, shipping: Shippings,
        price: Prices \cup {NoPrice}]

Event == [type: EventTypes, from: Statuses, to: Statuses, price: Prices \cup {NoPrice}]

Unplaced ==
    [status |-> "unplaced", review |-> "pending_review", rep |-> NoCourier,
     delivery |-> "delivery", shipping |-> "pending_quote", price |-> NoPrice]

VARIABLES
    order,      \* order[o]: the row of orders_order
    sections,   \* sections[o]: the markets that have an OrderMarketSection
    pickedUp,   \* pickedUp[o]: those of them the courier has collected from
    freeOffer,  \* freeOffer[o]: an OrderOffer of type "delivery" is attached
    history,    \* history[o]: the OrderEvent rows, oldest first
    blocking,   \* blocking[o]: an unresolved NEW_ORDER_REVIEW notification
    inbox,      \* inbox[o][c]: the newest notification courier c has about o
    active,     \* active[c]: User.is_active of the courier's account
    assigning,  \* assigning[o]: the courier an assignment holding o's lock has
                \* validated and not yet written; NoCourier when o is not locked
    edit,       \* edit[e]: what PATCH e has read and is about to save
    edited      \* ghost, edited[o]: what PATCH has done to o: "delivery" and
                \* "content" rewritten, "stale" when a newer row was lost

vars == <<order, sections, pickedUp, freeOffer, history, blocking, inbox, active,
          assigning, edit, edited>>

TypeOK ==
    /\ order \in [Orders -> Row]
    /\ sections \in [Orders -> SUBSET Markets]
    /\ pickedUp \in [Orders -> SUBSET Markets]
    /\ freeOffer \in [Orders -> BOOLEAN]
    /\ history \in [Orders -> Seq(Event)]
    /\ blocking \in [Orders -> BOOLEAN]
    /\ inbox \in [Orders -> [Couriers -> {"none", "assigned", "unassigned", "cancelled"}]]
    /\ active \in [Couriers -> BOOLEAN]
    /\ assigning \in [Orders -> Couriers \cup {NoCourier}]
    /\ edit \in [Editors -> [order: Orders, row: Row] \cup {Unread, Answered}]
    /\ edited \in [Orders -> SUBSET {"delivery", "content", "stale"}]

Init ==
    /\ order = [o \in Orders |-> Unplaced]
    /\ sections = [o \in Orders |-> {}]
    /\ pickedUp = [o \in Orders |-> {}]
    /\ freeOffer = [o \in Orders |-> FALSE]
    /\ history = [o \in Orders |-> << >>]
    /\ blocking = [o \in Orders |-> FALSE]
    /\ inbox = [o \in Orders |-> [c \in Couriers |-> "none"]]
    /\ active = [c \in Couriers |-> TRUE]
    /\ assigning = [o \in Orders |-> NoCourier]
    /\ edit = [e \in Editors |-> Unread]
    /\ edited = [o \in Orders |-> {}]
-----------------------------------------------------------------------------
(* What the handlers share, and the rows they save.                        *)

\* A handler that takes the row lock finds the row and waits for the lock.
Locks(o) == order[o].status # "unplaced" /\ assigning[o] = NoCourier

SaveForgettingOldStatus(o, row, type, price) ==  \* mutant: order.status read after the change
    /\ Len(history[o]) < MaxEvents
    /\ order' = [order EXCEPT ![o] = row]
    /\ history' = [history EXCEPT ![o] =
           Append(@, [type |-> type, from |-> row.status, to |-> row.status,
                      price |-> price])]

\* Saves o's row and records the event of the change (record_order_event); price
\* is the event's to_delivery_price.
Save(o, row, type, price) ==
    /\ Len(history[o]) < MaxEvents
    /\ order' = [order EXCEPT ![o] = row]
    /\ history' = [history EXCEPT ![o] =
           Append(@, [type |-> type, from |-> order[o].status, to |-> row.status,
                      price |-> price])]

\* The statuses an administrator may set; an unreviewed order can only be cancelled.
AllowedStatuses(row) ==
    {s \in {"cancelled"} :
        /\ row.status \notin Finished
        /\ row.review = "approved" => row.status \in {"confirmed"} \cup Carried}

CourierNextSkippingPickup(status) ==     \* mutant: an assigned order may be delivered
    IF status \in Carried THEN {"picked_up", "delivered", "failed_delivery"} \ {status}
    ELSE {}

\* COURIER_TRANSITIONS
CourierNext(status) ==
    {s \in Statuses :
        \/ status = "assigned" /\ s = "picked_up"
        \/ status = "picked_up" /\ s \in {"delivered", "failed_delivery"}}

NotifiedWinnerOnly(box, loser, why, winner) ==   \* mutant: the old courier is not told
    [c \in Couriers |-> IF c = winner THEN "assigned" ELSE box[c]]

\* Courier notifications of one change: the new holder is told of the assignment,
\* the one who loses the order is told why.
Notified(box, loser, why, winner) ==
    [c \in Couriers |-> IF c = winner THEN "assigned"
                        ELSE IF c = loser THEN why ELSE box[c]]

\* Cancelling ends the assignment and closes an open review as rejected.
CancelledRow(row) ==
    [row EXCEPT !.status = "cancelled", !.rep = NoCourier,
                !.review = IF @ = "pending_review" THEN "rejected" ELSE @]

UnassignedStillAssigned(row) ==          \* mutant: the status is left behind
    [row EXCEPT !.rep = NoCourier]

UnassignedRow(row) ==
    [row EXCEPT !.rep = NoCourier,
                !.status = IF @ = "assigned" THEN "confirmed" ELSE @]

AssignableUnreviewed(row) ==             \* mutant: the review guard is dropped
    row.status \in {"pending", "confirmed", "assigned"}

Assignable(row) ==
    row.review = "approved" /\ row.status \in {"confirmed", "assigned"}

PlacedShippingByType(price, delivery) == \* mutant: a free order waits for a quote
    IF delivery = "fixed_area" THEN "not_required" ELSE "pending_quote"

\* A price known at checkout means direct delivery: nothing to quote.
PlacedShipping(price, delivery) ==
    IF price # NoPrice THEN "not_required" ELSE "pending_quote"

QuotedShippingSticky(row, request) ==    \* mutant: saving a price leaves the approval open
    IF row.delivery = "fixed_area" THEN "not_required"
    ELSE IF request \/ row.shipping = "awaiting_customer_approval"
         THEN "awaiting_customer_approval" ELSE "quoted"

QuotedShipping(row, request) ==
    IF row.delivery = "fixed_area" THEN "not_required"
    ELSE IF request THEN "awaiting_customer_approval" ELSE "quoted"

AcceptedAsApproved(row) ==               \* mutant: a status the model does not know
    [row EXCEPT !.shipping = "approved"]

AcceptedRow(row) == [row EXCEPT !.shipping = "quoted"]

CollectedNothing(o, status) == pickedUp[o]   \* mutant: the sections are not updated

\* Picking the order up picks up every market section that is left.
Collected(o, status) ==
    IF status = "picked_up" THEN sections[o] ELSE pickedUp[o]

ResolvedOnlyByReview(o, type) ==         \* mutant: cancelling leaves the notification open
    [blocking EXCEPT ![o] = @ /\ type = "cancelled"]

\* resolve_order_review_notifications
Resolved(o, type) == [blocking EXCEPT ![o] = FALSE]
-----------------------------------------------------------------------------
(* Checkout.                                                               *)

\* A client's or an administrator's checkout inserts the order, its sections and
\* offers, the ORDER_CREATED event and the review notification.  A fixed area has
\* its price; a free-delivery offer makes any delivery free.
Place(o, delivery, areaPrice, free, markets) ==
    LET price == IF free THEN 0 ELSE IF delivery = "fixed_area" THEN areaPrice ELSE NoPrice
    IN  /\ order[o].status = "unplaced"
        /\ markets # {}
        /\ Save(o, [Unplaced EXCEPT !.status = "pending", !.delivery = delivery,
                        !.price = price, !.shipping = PlacedShipping(price, delivery)],
                "order_created", NoPrice)
        /\ sections' = [sections EXCEPT ![o] = markets]
        /\ freeOffer' = [freeOffer EXCEPT ![o] = free]
        /\ blocking' = [blocking EXCEPT ![o] = TRUE]
        /\ UNCHANGED <<pickedUp, inbox, active, assigning, edit, edited>>
-----------------------------------------------------------------------------
(* The administrator's review, price and status endpoints.                 *)

Approve(o) ==
    /\ Locks(o)
    /\ order[o].review = "pending_review" /\ order[o].status = "pending"
    /\ Save(o, [order[o] EXCEPT !.review = "approved", !.status = "confirmed"],
            "review_approved", NoPrice)
    /\ blocking' = Resolved(o, "review_approved")
    /\ UNCHANGED <<sections, pickedUp, freeOffer, inbox, active, assigning, edit, edited>>

Reject(o) ==
    /\ Locks(o)
    /\ order[o].review = "pending_review"
    /\ order[o].rep = NoCourier /\ order[o].status # "delivered"
    /\ Save(o, [order[o] EXCEPT !.review = "rejected", !.status = "cancelled"],
            "review_rejected", NoPrice)
    /\ blocking' = Resolved(o, "review_rejected")
    /\ UNCHANGED <<sections, pickedUp, freeOffer, inbox, active, assigning, edit, edited>>

\* DELETE /orders/<id>/ cancels; so does PATCH /orders/<id>/status/, for which
\* "cancelled" is the only status AllowedStatuses ever offers.
Cancel(o) ==
    /\ Locks(o)
    /\ "cancelled" \in AllowedStatuses(order[o])
    /\ Save(o, CancelledRow(order[o]), "cancelled", NoPrice)
    /\ blocking' = Resolved(o, "cancelled")
    /\ inbox' = [inbox EXCEPT ![o] = Notified(@, order[o].rep, "cancelled", NoCourier)]
    /\ UNCHANGED <<sections, pickedUp, freeOffer, active, assigning, edit, edited>>

\* request: the price is sent to the customer for approval (action request_approval)
\* instead of only being saved.
SetDeliveryPrice(o, price, request) ==
    /\ Locks(o)
    /\ order[o].status \notin Finished
    /\ request => order[o].delivery = "delivery"
    /\ freeOffer[o] => price = 0
    /\ Save(o, [order[o] EXCEPT !.price = price,
                                !.shipping = QuotedShipping(order[o], request)],
            IF request THEN "delivery_quote_sent" ELSE "delivery_price_changed", price)
    /\ UNCHANGED <<sections, pickedUp, freeOffer, blocking, inbox, active, assigning,
                   edit, edited>>

\* The customer's request names the order and no price.
AcceptQuote(o) ==
    /\ Locks(o)
    /\ order[o].shipping = "awaiting_customer_approval" /\ order[o].price # NoPrice
    /\ order[o].status \notin Finished
    /\ Save(o, AcceptedRow(order[o]), "delivery_quote_accepted", order[o].price)
    /\ UNCHANGED <<sections, pickedUp, freeOffer, blocking, inbox, active, assigning,
                   edit, edited>>
-----------------------------------------------------------------------------
(* Assignment and the courier.                                             *)

\* PATCH /orders/<id>/assignment/ validates the request under the order's lock:
\* the courier's account must be active at this moment, but is not locked.
\* Naming the courier who already holds the order changes nothing.
AssignCheck(o, c) ==
    /\ Locks(o)
    /\ active[c]
    /\ Assignable(order[o])
    /\ order[o].rep # c
    /\ assigning' = [assigning EXCEPT ![o] = c]
    /\ UNCHANGED <<order, sections, pickedUp, freeOffer, history, blocking, inbox,
                   active, edit, edited>>

AssignWrite(o) ==
    /\ assigning[o] # NoCourier
    /\ Save(o, [order[o] EXCEPT !.status = "assigned", !.rep = assigning[o]],
            "assigned", NoPrice)
    /\ inbox' = [inbox EXCEPT ![o] =
                    Notified(@, order[o].rep, "unassigned", assigning[o])]
    /\ assigning' = [assigning EXCEPT ![o] = NoCourier]
    /\ UNCHANGED <<sections, pickedUp, freeOffer, blocking, active, edit, edited>>

\* The courier's profile does not fit the order's city, or the worker dies: the
\* transaction is rolled back and the lock released.
AssignRollback(o) ==
    /\ assigning[o] # NoCourier
    /\ assigning' = [assigning EXCEPT ![o] = NoCourier]
    /\ UNCHANGED <<order, sections, pickedUp, freeOffer, history, blocking, inbox,
                   active, edit, edited>>

Unassign(o) ==
    /\ Locks(o)
    /\ order[o].status \notin Finished \cup {"picked_up"}
    /\ order[o].rep # NoCourier
    /\ Save(o, UnassignedRow(order[o]), "unassigned", NoPrice)
    /\ inbox' = [inbox EXCEPT ![o] = Notified(@, order[o].rep, "unassigned", NoCourier)]
    /\ UNCHANGED <<sections, pickedUp, freeOffer, blocking, active, assigning, edit,
                   edited>>

\* The courier holding the order reports one market's goods collected.  The request
\* was authenticated before it waited for the lock, so active is not read here.
CourierMarketPickup(o, market) ==
    /\ Locks(o)
    /\ order[o].rep # NoCourier /\ order[o].status = "assigned"
    /\ market \in sections[o] \ pickedUp[o]
    /\ pickedUp' = [pickedUp EXCEPT ![o] = @ \cup {market}]
    /\ UNCHANGED <<order, sections, freeOffer, history, blocking, inbox, active,
                   assigning, edit, edited>>

CourierStatus(o, status) ==
    /\ Locks(o)
    /\ order[o].rep # NoCourier
    /\ status \in CourierNext(order[o].status)
    /\ Save(o, [order[o] EXCEPT !.status = status], "status_changed", NoPrice)
    /\ pickedUp' = [pickedUp EXCEPT ![o] = Collected(o, status)]
    /\ UNCHANGED <<sections, freeOffer, blocking, inbox, active, assigning, edit, edited>>

\* An administrator disables a courier, under the lock of the user row: refused
\* while an order the courier carries is visible.
DeactivateCourier(c) ==
    /\ active[c]
    /\ \A o \in Orders : order[o].rep = c => order[o].status \notin Carried
    /\ active' = [active EXCEPT ![c] = FALSE]
    /\ UNCHANGED <<order, sections, pickedUp, freeOffer, history, blocking, inbox,
                   assigning, edit, edited>>

ReactivateCourier(c) ==
    /\ ~active[c]
    /\ active' = [active EXCEPT ![c] = TRUE]
    /\ UNCHANGED <<order, sections, pickedUp, freeOffer, history, blocking, inbox,
                   assigning, edit, edited>>
-----------------------------------------------------------------------------
(* PATCH /orders/<id>/.                                                    *)

\* The order is read for validation, without a lock and outside the transaction.
EditRead(e, o) ==
    /\ edit[e] = Unread
    /\ order[o].status # "unplaced"
    /\ edit' = [edit EXCEPT ![e] = [order |-> o, row |-> order[o]]]
    /\ UNCHANGED <<order, sections, pickedUp, freeOffer, history, blocking, inbox,
                   active, assigning, edited>>

\* serializer.save() writes every column of the row as it was read, with the
\* request's changes, once the row's lock is free.  row differs from what was read
\* in the delivery columns only; kinds says which changes the request made.
EditWrite(e, row, kinds) ==
    LET o == edit[e].order
        lost == IF order[o] = edit[e].row THEN {} ELSE {"stale"}
    IN  /\ Locks(o)
        /\ order' = [order EXCEPT ![o] = row]
        /\ edited' = [edited EXCEPT ![o] = @ \cup kinds \cup lost]
        /\ edit' = [edit EXCEPT ![e] = Answered]
        /\ UNCHANGED <<history, blocking, inbox, active, assigning>>

\* Only columns without a part in the lifecycle change (note, totals, payment).
EditDetails(e) ==
    /\ edit[e] \notin {Unread, Answered}
    /\ EditWrite(e, edit[e].row, {})
    /\ UNCHANGED <<sections, pickedUp, freeOffer>>

\* A delivery field is named: type and price are derived again from the address, a
\* fixed area with its price or a manual delivery with none
\* (_normalize_delivery_fields); shipping and the offers are not looked at.
EditDelivery(e, delivery, price) ==
    /\ edit[e] \notin {Unread, Answered}
    /\ (delivery = "delivery") <=> (price = NoPrice)
    /\ EditWrite(e, [edit[e].row EXCEPT !.delivery = delivery, !.price = price],
                 {"delivery"})
    /\ UNCHANGED <<sections, pickedUp, freeOffer>>

\* Items or offers are named: the sections are deleted and built anew, with no
\* pickup (_replace_sections); an offer has a section to be in.
EditContent(e, markets, free) ==
    /\ edit[e] \notin {Unread, Answered}
    /\ free => markets # {}
    /\ EditWrite(e, edit[e].row, {"content"})
    /\ sections' = [sections EXCEPT ![edit[e].order] = markets]
    /\ pickedUp' = [pickedUp EXCEPT ![edit[e].order] = {}]
    /\ freeOffer' = [freeOffer EXCEPT ![edit[e].order] = free]

EditRefused(e) ==
    /\ edit[e] \notin {Unread, Answered}
    /\ edit' = [edit EXCEPT ![e] = Answered]
    /\ UNCHANGED <<order, sections, pickedUp, freeOffer, history, blocking, inbox,
                   active, assigning, edited>>
-----------------------------------------------------------------------------
CheckoutNext ==
    \E o \in Orders, delivery \in {"fixed_area", "delivery"}, areaPrice \in Prices,
       free \in BOOLEAN, markets \in SUBSET Markets :
        Place(o, delivery, areaPrice, free, markets)

AdminNext ==
    \E o \in Orders :
        \/ Approve(o) \/ Reject(o) \/ Cancel(o) \/ Unassign(o)
        \/ AssignWrite(o) \/ AssignRollback(o)
        \/ \E c \in Couriers : AssignCheck(o, c)
        \/ \E price \in Prices, request \in BOOLEAN : SetDeliveryPrice(o, price, request)

CourierAppNext ==
    \E o \in Orders :
        \/ \E market \in Markets : CourierMarketPickup(o, market)
        \/ \E status \in Statuses : CourierStatus(o, status)

AccountNext == \E c \in Couriers : DeactivateCourier(c) \/ ReactivateCourier(c)

EditNext ==
    \E e \in Editors :
        \/ \E o \in Orders : EditRead(e, o)
        \/ EditDetails(e) \/ EditRefused(e)
        \/ \E price \in Prices \cup {NoPrice}, delivery \in {"fixed_area", "delivery"} :
              EditDelivery(e, delivery, price)
        \/ \E markets \in SUBSET Markets, free \in BOOLEAN : EditContent(e, markets, free)

Next ==
    \/ CheckoutNext \/ AdminNext \/ CourierAppNext \/ AccountNext \/ EditNext
    \/ \E o \in Orders : AcceptQuote(o)

Spec == Init /\ [][Next]_vars
-----------------------------------------------------------------------------
Stale(o) == "stale" \in edited[o]
Logged(o, type, to) ==
    \E i \in 1..Len(history[o]) : history[o][i].type = type /\ history[o][i].to = to

CoherentRow(row) ==
    /\ row.status \in {"unplaced", "pending"} => row.review = "pending_review"
    /\ row.status \in {"confirmed", "delivered", "failed_delivery"} \cup Carried
         => row.review = "approved"
    /\ row.status = "cancelled" => row.review # "pending_review"
    /\ row.rep # NoCourier <=> row.status \in {"delivered", "failed_delivery"} \cup Carried

\* Every row is coherent in itself: past its review it was approved, a courier stands
\* in it exactly from assignment on, a cancelled order keeps neither a courier nor an
\* open review.  Lost updates do not break this: what PATCH restores was once a row.
RowCoherent == \A o \in Orders : CoherentRow(order[o])

\* "Audited status changes" (README): the events of an order form an unbroken chain
\* from its creation to the status it has now, unless a newer row was lost.
AuditTrail ==
    \A o \in Orders : LET log == history[o] IN
        order[o].status # "unplaced" /\ ~Stale(o) =>
            /\ log # << >> /\ log[1].type = "order_created" /\ log[1].from = "unplaced"
            /\ log[Len(log)].to = order[o].status
            /\ \A i \in 2..Len(log) : log[i].from = log[i - 1].to

\* No order is dispatched, and no market hands goods over, without the review and
\* the assignment standing in the audit log - stale edits included.
DispatchOnRecord ==
    \A o \in Orders :
        /\ order[o].status \in {"confirmed"} \cup Carried
             => Logged(o, "review_approved", "confirmed")
        /\ order[o].status \in Carried \/ pickedUp[o] # {} => Logged(o, "assigned", "assigned")
        /\ order[o].status \in {"delivered", "failed_delivery"}
             => Logged(o, "status_changed", order[o].status)

\* The dashboard's blocking notification is open exactly while the order waits for
\* its review, whichever of four endpoints ends the wait.
ReviewBlocking ==
    \A o \in Orders : ~Stale(o) =>
        (blocking[o] <=> order[o].status = "pending" /\ order[o].review = "pending_review")

\* What a courier was last told about an order is true: "assigned" stands on top of
\* the inbox of the courier who holds it and of nobody else, over any sequence of
\* assignments, reassignments and cancellations.
CourierInbox ==
    \A o \in Orders, c \in Couriers : ~Stale(o) =>
        (inbox[o][c] = "assigned" <=> order[o].rep = c)

\* An order on its way or brought to its end by the courier has been collected from
\* every market it is split over, unless an edit rebuilt its sections.
PickupComplete ==
    \A o \in Orders :
        order[o].status \in {"picked_up", "delivered", "failed_delivery"}
            /\ edited[o] \cap {"stale", "content"} = {}
        => pickedUp[o] = sections[o]

\* A price the log says the customer accepted is the price last sent for approval:
\* no saved price and no earlier acceptance lies between.
QuoteAudit ==
    \A o \in Orders : LET log == history[o] IN
        edited[o] \cap {"stale", "delivery"} = {} =>
            \A i \in 1..Len(log) : log[i].type = "delivery_quote_accepted" =>
                \E j \in 1..(i - 1) :
                    /\ log[j].type = "delivery_quote_sent" /\ log[j].price = log[i].price
                    /\ \A k \in (j + 1)..(i - 1) : log[k].type \notin PriceEvents

\* An order lacks a delivery price exactly while its quote is pending: what awaits
\* approval, is quoted or needs no quote has a price to charge.
PriceKnownUnlessPending ==
    \A o \in Orders :
        order[o].status # "unplaced" /\ edited[o] \cap {"stale", "delivery"} = {} =>
            (order[o].price = NoPrice <=> order[o].shipping = "pending_quote")

\* Order progress is as OrderFlow promises: no skipped stage, no step back but the
\* recall of an assignment, nothing after the end - until a newer row is lost.
Flow == INSTANCE OrderFlow WITH
    stage <- [o \in Orders |-> IF Stale(o) THEN "overwritten" ELSE order[o].status],
    holder <- [o \in Orders |-> IF Stale(o) THEN NoCourier ELSE order[o].rep]
ImplementsFlow == Flow!FlowSpec

\* README: "audited status changes" - the status shown is the one the last event led to.
StatusIsAudited ==
    \A o \in Orders : history[o] # << >> =>
        order[o].status = history[o][Len(history[o])].to

\* "Reassign active orders before disabling this courier." (admin_user_serializers.py):
\* a disabled courier carries no order.
DisabledCourierIdle ==
    \A o \in Orders, c \in Couriers :
        order[o].rep = c /\ order[o].status \in Carried => active[c]

\* "Delivery price must remain zero while a free-delivery offer is applied to the
\* order." (orders/views.py)
FreeDeliveryStaysFree ==
    \A o \in Orders : freeOffer[o] => order[o].price \in {0, NoPrice}
=============================================================================
