------------------------ MODULE OrderLifecycleProofs ------------------------
(***************************************************************************)
(* Theorems about OrderLifecycle, for any orders, couriers, markets,       *)
(* prices, number of PATCH requests and bound on the events.               *)
(***************************************************************************)
EXTENDS OrderLifecycle, TLAPS

\* Saving a well-typed row with a known event keeps the two tables well typed.
LEMMA SaveTypes ==
    ASSUME TypeOK, NEW o \in Orders, NEW row \in Row, NEW type \in EventTypes,
           NEW price \in Prices \cup {NoPrice}, Save(o, row, type, price)
    PROVE  order' \in [Orders -> Row] /\ history' \in [Orders -> Seq(Event)]
<1>1. order' \in [Orders -> Row]
    BY DEF TypeOK, Save
<1>2. order[o].status \in Statuses /\ row.status \in Statuses
    BY DEF TypeOK, Row
<1>3. [type |-> type, from |-> order[o].status, to |-> row.status, price |-> price] \in Event
    BY <1>2 DEF Event
<1>4. history' \in [Orders -> Seq(Event)]
    BY <1>3 DEF TypeOK, Save
<1>. QED
    BY <1>1, <1>4

\* The rows the handlers save are well typed.
LEMMA RowTypes ==
    ASSUME OrderConstants, NEW row \in Row
    PROVE  /\ Unplaced \in Row
           /\ CancelledRow(row) \in Row
           /\ UnassignedRow(row) \in Row
           /\ AcceptedRow(row) \in Row
           /\ \A price \in Prices, request \in BOOLEAN :
                [row EXCEPT !.price = price, !.shipping = QuotedShipping(row, request)] \in Row
           /\ \A status \in Statuses : [row EXCEPT !.status = status] \in Row
           /\ \A status \in Statuses, review \in Reviews :
                [row EXCEPT !.review = review, !.status = status] \in Row
           /\ \A status \in Statuses, rep \in Couriers :
                [row EXCEPT !.status = status, !.rep = rep] \in Row
<1>1. Unplaced \in Row
    BY DEF Unplaced, Row, Statuses, Reviews, Shippings
<1>2. CancelledRow(row) \in Row
    BY DEF CancelledRow, Row, Statuses, Finished, Reviews
<1>3. UnassignedRow(row) \in Row
    BY DEF UnassignedRow, Row, Statuses
<1>4. AcceptedRow(row) \in Row
    BY DEF AcceptedRow, Row, Shippings
<1>5. \A price \in Prices, request \in BOOLEAN :
        [row EXCEPT !.price = price, !.shipping = QuotedShipping(row, request)] \in Row
    <2>1. \A request \in BOOLEAN : QuotedShipping(row, request) \in Shippings
        BY DEF QuotedShipping, Shippings
    <2>. QED
        BY <2>1 DEF Row
<1>6. \A status \in Statuses : [row EXCEPT !.status = status] \in Row
    BY DEF Row
<1>7. \A status \in Statuses, review \in Reviews :
        [row EXCEPT !.review = review, !.status = status] \in Row
    BY DEF Row
<1>8. \A status \in Statuses, rep \in Couriers :
        [row EXCEPT !.status = status, !.rep = rep] \in Row
    BY DEF Row
<1>. QED
    BY <1>1, <1>2, <1>3, <1>4, <1>5, <1>6, <1>7, <1>8

\* A courier notification changes one order's inbox and keeps its type.
LEMMA NotifiedTypes ==
    ASSUME TypeOK, NEW o \in Orders, NEW loser, NEW winner,
           NEW why \in {"unassigned", "cancelled"},
           inbox' = [inbox EXCEPT ![o] = Notified(@, loser, why, winner)]
    PROVE  inbox' \in [Orders -> [Couriers -> {"none", "assigned", "unassigned", "cancelled"}]]
BY DEF TypeOK, Notified

\* Saving the row of a PATCH request.
LEMMA EditWriteTypes ==
    ASSUME TypeOK, NEW e \in Editors, edit[e] \notin {Unread, Answered},
           NEW row \in Row, NEW kinds \in SUBSET {"delivery", "content", "stale"},
           EditWrite(e, row, kinds)
    PROVE  /\ edit[e].order \in Orders
           /\ order' \in [Orders -> Row]
           /\ edited' \in [Orders -> SUBSET {"delivery", "content", "stale"}]
           /\ edit' \in [Editors -> [order: Orders, row: Row] \cup {Unread, Answered}]
BY DEF TypeOK, EditWrite

LEMMA TypeStep == OrderConstants /\ TypeOK /\ [Next]_vars => TypeOK'
<1>. SUFFICES ASSUME OrderConstants, TypeOK, [Next]_vars PROVE TypeOK'
    OBVIOUS
<1>1. ASSUME NEW o \in Orders, NEW delivery \in {"fixed_area", "delivery"},
             NEW areaPrice \in Prices, NEW free \in BOOLEAN, NEW markets \in SUBSET Markets,
             Place(o, delivery, areaPrice, free, markets)
      PROVE TypeOK'
    <2>. DEFINE price == IF free THEN 0 ELSE IF delivery = "fixed_area" THEN areaPrice
                         ELSE NoPrice
                row == [Unplaced EXCEPT !.status = "pending", !.delivery = delivery,
                           !.price = price, !.shipping = PlacedShipping(price, delivery)]
    <2>1. row \in Row
        BY DEF OrderConstants, Unplaced, PlacedShipping, Row, Statuses, Reviews, Shippings
    <2>2. Save(o, row, "order_created", NoPrice)
        BY <1>1 DEF Place
    <2>3. order' \in [Orders -> Row] /\ history' \in [Orders -> Seq(Event)]
        BY <2>1, <2>2, SaveTypes DEF EventTypes
    <2>. QED
        BY <1>1, <2>3 DEF Place, TypeOK
<1>2. ASSUME NEW o \in Orders, Approve(o) PROVE TypeOK'
    <2>1. [order[o] EXCEPT !.review = "approved", !.status = "confirmed"] \in Row
        <3>1. order[o] \in Row /\ "approved" \in Reviews /\ "confirmed" \in Statuses
            BY DEF TypeOK, Statuses, Reviews
        <3>. QED
            BY <3>1, RowTypes
    <2>2. order' \in [Orders -> Row] /\ history' \in [Orders -> Seq(Event)]
        BY <1>2, <2>1, SaveTypes DEF Approve, EventTypes
    <2>. QED
        BY <1>2, <2>2 DEF Approve, Resolved, TypeOK
<1>3. ASSUME NEW o \in Orders, Reject(o) PROVE TypeOK'
    <2>1. [order[o] EXCEPT !.review = "rejected", !.status = "cancelled"] \in Row
        <3>1. order[o] \in Row /\ "rejected" \in Reviews /\ "cancelled" \in Statuses
            BY DEF TypeOK, Statuses, Reviews, Finished
        <3>. QED
            BY <3>1, RowTypes
    <2>2. order' \in [Orders -> Row] /\ history' \in [Orders -> Seq(Event)]
        BY <1>3, <2>1, SaveTypes DEF Reject, EventTypes
    <2>. QED
        BY <1>3, <2>2 DEF Reject, Resolved, TypeOK
<1>4. ASSUME NEW o \in Orders, Cancel(o) PROVE TypeOK'
    <2>1. CancelledRow(order[o]) \in Row
        BY RowTypes DEF TypeOK
    <2>2. order' \in [Orders -> Row] /\ history' \in [Orders -> Seq(Event)]
        BY <1>4, <2>1, SaveTypes DEF Cancel, EventTypes
    <2>3. inbox' \in [Orders -> [Couriers -> {"none", "assigned", "unassigned", "cancelled"}]]
        BY <1>4, NotifiedTypes DEF Cancel
    <2>. QED
        BY <1>4, <2>2, <2>3 DEF Cancel, Resolved, TypeOK
<1>5. ASSUME NEW o \in Orders, NEW price \in Prices, NEW request \in BOOLEAN,
             SetDeliveryPrice(o, price, request)
      PROVE TypeOK'
    <2>1. [order[o] EXCEPT !.price = price,
                           !.shipping = QuotedShipping(order[o], request)] \in Row
        BY RowTypes DEF TypeOK
    <2>2. order' \in [Orders -> Row] /\ history' \in [Orders -> Seq(Event)]
        BY <1>5, <2>1, SaveTypes DEF SetDeliveryPrice, EventTypes, PriceEvents
    <2>. QED
        BY <1>5, <2>2 DEF SetDeliveryPrice, TypeOK
<1>6. ASSUME NEW o \in Orders, AcceptQuote(o) PROVE TypeOK'
    <2>1. AcceptedRow(order[o]) \in Row /\ order[o].price \in Prices \cup {NoPrice}
        BY RowTypes DEF TypeOK, Row
    <2>2. order' \in [Orders -> Row] /\ history' \in [Orders -> Seq(Event)]
        BY <1>6, <2>1, SaveTypes DEF AcceptQuote, EventTypes, PriceEvents
    <2>. QED
        BY <1>6, <2>2 DEF AcceptQuote, TypeOK
<1>7. ASSUME NEW o \in Orders, NEW c \in Couriers, AssignCheck(o, c) PROVE TypeOK'
    BY <1>7 DEF AssignCheck, TypeOK
<1>8. ASSUME NEW o \in Orders, AssignWrite(o) PROVE TypeOK'
    <2>1. [order[o] EXCEPT !.status = "assigned", !.rep = assigning[o]] \in Row
        <3>1. order[o] \in Row /\ "assigned" \in Statuses /\ assigning[o] \in Couriers
            BY <1>8 DEF AssignWrite, TypeOK, Statuses, Carried
        <3>. QED
            BY <3>1, RowTypes
    <2>2. order' \in [Orders -> Row] /\ history' \in [Orders -> Seq(Event)]
        BY <1>8, <2>1, SaveTypes DEF AssignWrite, EventTypes
    <2>3. inbox' \in [Orders -> [Couriers -> {"none", "assigned", "unassigned", "cancelled"}]]
        BY <1>8, NotifiedTypes DEF AssignWrite
    <2>. QED
        BY <1>8, <2>2, <2>3 DEF AssignWrite, TypeOK
<1>9. ASSUME NEW o \in Orders, AssignRollback(o) PROVE TypeOK'
    BY <1>9 DEF AssignRollback, TypeOK
<1>10. ASSUME NEW o \in Orders, Unassign(o) PROVE TypeOK'
    <2>1. UnassignedRow(order[o]) \in Row
        BY RowTypes DEF TypeOK
    <2>2. order' \in [Orders -> Row] /\ history' \in [Orders -> Seq(Event)]
        BY <1>10, <2>1, SaveTypes DEF Unassign, EventTypes
    <2>3. inbox' \in [Orders -> [Couriers -> {"none", "assigned", "unassigned", "cancelled"}]]
        BY <1>10, NotifiedTypes DEF Unassign
    <2>. QED
        BY <1>10, <2>2, <2>3 DEF Unassign, TypeOK
<1>11. ASSUME NEW o \in Orders, NEW market \in Markets, CourierMarketPickup(o, market)
       PROVE TypeOK'
    BY <1>11 DEF CourierMarketPickup, TypeOK
<1>12. ASSUME NEW o \in Orders, NEW status \in Statuses, CourierStatus(o, status)
       PROVE TypeOK'
    <2>1. [order[o] EXCEPT !.status = status] \in Row
        BY RowTypes DEF TypeOK
    <2>2. order' \in [Orders -> Row] /\ history' \in [Orders -> Seq(Event)]
        BY <1>12, <2>1, SaveTypes DEF CourierStatus, EventTypes
    <2>. QED
        BY <1>12, <2>2 DEF CourierStatus, Collected, TypeOK
<1>13. ASSUME NEW c \in Couriers, DeactivateCourier(c) \/ ReactivateCourier(c) PROVE TypeOK'
    BY <1>13 DEF DeactivateCourier, ReactivateCourier, TypeOK
<1>14. ASSUME NEW e \in Editors, NEW o \in Orders, EditRead(e, o) PROVE TypeOK'
    BY <1>14 DEF EditRead, TypeOK
<1>15. ASSUME NEW e \in Editors, EditDetails(e) PROVE TypeOK'
    <2>1. edit[e].row \in Row
        BY <1>15 DEF EditDetails, TypeOK
    <2>. QED
        BY <1>15, <2>1, EditWriteTypes DEF EditDetails, EditWrite, TypeOK
<1>16. ASSUME NEW e \in Editors, NEW price \in Prices \cup {NoPrice},
              NEW delivery \in {"fixed_area", "delivery"}, EditDelivery(e, delivery, price)
       PROVE TypeOK'
    <2>1. [edit[e].row EXCEPT !.delivery = delivery, !.price = price] \in Row
        BY <1>16 DEF EditDelivery, TypeOK, Row
    <2>. QED
        BY <1>16, <2>1, EditWriteTypes DEF EditDelivery, EditWrite, TypeOK
<1>17. ASSUME NEW e \in Editors, NEW markets \in SUBSET Markets, NEW free \in BOOLEAN,
              EditContent(e, markets, free)
       PROVE TypeOK'
    <2>1. edit[e].row \in Row
        BY <1>17 DEF EditContent, TypeOK
    <2>2. /\ edit[e].order \in Orders
          /\ order' \in [Orders -> Row]
          /\ edited' \in [Orders -> SUBSET {"delivery", "content", "stale"}]
          /\ edit' \in [Editors -> [order: Orders, row: Row] \cup {Unread, Answered}]
        BY <1>17, <2>1, EditWriteTypes DEF EditContent
    <2>. QED
        BY <1>17, <2>2 DEF EditContent, EditWrite, TypeOK
<1>18. ASSUME NEW e \in Editors, EditRefused(e) PROVE TypeOK'
    BY <1>18 DEF EditRefused, TypeOK
<1>19. CASE UNCHANGED vars
    BY <1>19 DEF vars, TypeOK
<1>. QED
    BY <1>1, <1>2, <1>3, <1>4, <1>5, <1>6, <1>7, <1>8, <1>9, <1>10, <1>11, <1>12, <1>13,
       <1>14, <1>15, <1>16, <1>17, <1>18, <1>19
       DEF Next, CheckoutNext, AdminNext, CourierAppNext, AccountNext, EditNext

\* Every reachable state is well typed.
THEOREM TypeCorrect == Spec => []TypeOK
<1>1. Init => TypeOK
    <2>1. OrderConstants => Unplaced \in Row
        BY DEF Unplaced, Row, OrderConstants, Statuses, Reviews, Shippings
    <2>. QED
        BY <2>1, OrderConstants DEF Init, TypeOK
<1>2. TypeOK /\ [Next]_vars => TypeOK'
    BY TypeStep, OrderConstants
<1>. QED
    BY <1>1, <1>2, PTL DEF Spec
-----------------------------------------------------------------------------
(* Coherent rows.  A row PATCH restores and a courier an assignment is     *)
(* about to write are decided on in an earlier step than they are used in: *)
(* RowCoherent is inductive once they are in the invariant.                *)

EditsCoherent ==
    \A e \in Editors : edit[e] \notin {Unread, Answered} =>
        /\ CoherentRow(edit[e].row)
        /\ edit[e].row.status # "unplaced"

AssigningValid ==
    \A o \in Orders : assigning[o] # NoCourier =>
        Assignable(order[o]) /\ order[o].rep # assigning[o]

RowInv == TypeOK /\ RowCoherent /\ EditsCoherent /\ AssigningValid

\* The endpoints save coherent rows.
LEMMA SavedRowsCoherent ==
    ASSUME OrderConstants, NEW row \in Row, CoherentRow(row)
    PROVE  /\ row.status = "pending" =>
                CoherentRow([row EXCEPT !.review = "approved", !.status = "confirmed"])
           /\ row.rep = NoCourier =>
                CoherentRow([row EXCEPT !.review = "rejected", !.status = "cancelled"])
           /\ CoherentRow(CancelledRow(row))
           /\ row.status \notin Finished \cup {"picked_up"} => CoherentRow(UnassignedRow(row))
           /\ CoherentRow(AcceptedRow(row))
           /\ Assignable(row) => \A c \in Couriers :
                CoherentRow([row EXCEPT !.status = "assigned", !.rep = c])
           /\ \A status \in CourierNext(row.status) :
                CoherentRow([row EXCEPT !.status = status])
           /\ \A price, shipping :
                CoherentRow([row EXCEPT !.price = price, !.shipping = shipping])
           /\ \A price, delivery :
                CoherentRow([row EXCEPT !.delivery = delivery, !.price = price])
<1>. USE DEF CoherentRow, Row, Carried, OrderConstants
<1>1. row.status = "pending" =>
        CoherentRow([row EXCEPT !.review = "approved", !.status = "confirmed"])
    OBVIOUS
<1>2. row.rep = NoCourier =>
        CoherentRow([row EXCEPT !.review = "rejected", !.status = "cancelled"])
    OBVIOUS
<1>3. CoherentRow(CancelledRow(row))
    BY DEF CancelledRow, Reviews
<1>4. row.status \notin Finished \cup {"picked_up"} => CoherentRow(UnassignedRow(row))
    BY DEF UnassignedRow, Finished
<1>5. CoherentRow(AcceptedRow(row))
    BY DEF AcceptedRow
<1>6. Assignable(row) => \A c \in Couriers :
        CoherentRow([row EXCEPT !.status = "assigned", !.rep = c])
    BY DEF Assignable
<1>7. \A status \in CourierNext(row.status) : CoherentRow([row EXCEPT !.status = status])
    BY DEF CourierNext
<1>8. \A price, shipping : CoherentRow([row EXCEPT !.price = price, !.shipping = shipping])
    OBVIOUS
<1>9. \A price, delivery : CoherentRow([row EXCEPT !.delivery = delivery, !.price = price])
    OBVIOUS
<1>. QED
    BY <1>1, <1>2, <1>3, <1>4, <1>5, <1>6, <1>7, <1>8, <1>9

\* A handler that holds the lock leaves the in-flight requests as they are.
LEMMA SaveCoherent ==
    ASSUME RowInv, NEW o \in Orders, NEW row, NEW type, NEW price,
           Save(o, row, type, price), CoherentRow(row),
           assigning[o] = NoCourier \/ assigning' = [assigning EXCEPT ![o] = NoCourier],
           assigning' \in {assigning, [assigning EXCEPT ![o] = NoCourier]},
           edit' = edit
    PROVE  RowCoherent' /\ EditsCoherent' /\ AssigningValid'
<1>1. RowCoherent'
    BY DEF RowInv, TypeOK, RowCoherent, Save
<1>2. EditsCoherent'
    BY DEF RowInv, EditsCoherent
<1>3. AssigningValid'
    BY DEF RowInv, TypeOK, AssigningValid, Save
<1>. QED
    BY <1>1, <1>2, <1>3

\* Saving an edit restores a coherent row; the lock it waits for was free.
LEMMA EditWriteCoherent ==
    ASSUME RowInv, NEW e \in Editors, NEW row, NEW kinds, EditWrite(e, row, kinds),
           edit[e] \notin {Unread, Answered}, CoherentRow(row)
    PROVE  RowCoherent' /\ EditsCoherent' /\ AssigningValid'
<1>1. edit[e].order \in Orders
    BY DEF RowInv, TypeOK
<1>2. RowCoherent'
    BY <1>1 DEF RowInv, TypeOK, RowCoherent, EditWrite
<1>3. EditsCoherent'
    BY DEF RowInv, TypeOK, EditsCoherent, EditWrite
<1>4. AssigningValid'
    BY <1>1 DEF RowInv, TypeOK, AssigningValid, EditWrite, Locks
<1>. QED
    BY <1>2, <1>3, <1>4

LEMMA RowStep == OrderConstants /\ RowInv /\ [Next]_vars => RowInv'
<1>. SUFFICES ASSUME OrderConstants, RowInv, [Next]_vars
              PROVE  RowCoherent' /\ EditsCoherent' /\ AssigningValid'
    BY TypeStep DEF RowInv
<1>0. ASSUME NEW o \in Orders PROVE order[o] \in Row /\ CoherentRow(order[o])
    BY DEF RowInv, TypeOK, RowCoherent
<1>1. ASSUME NEW o \in Orders, NEW delivery \in {"fixed_area", "delivery"},
             NEW areaPrice \in Prices, NEW free \in BOOLEAN, NEW markets \in SUBSET Markets,
             Place(o, delivery, areaPrice, free, markets)
      PROVE RowCoherent' /\ EditsCoherent' /\ AssigningValid'
    <2>1. PICK price, shipping :
            Save(o, [Unplaced EXCEPT !.status = "pending", !.delivery = delivery,
                        !.price = price, !.shipping = shipping], "order_created", NoPrice)
        BY <1>1 DEF Place
    <2>2. CoherentRow([Unplaced EXCEPT !.status = "pending", !.delivery = delivery,
                        !.price = price, !.shipping = shipping])
        BY DEF CoherentRow, Unplaced, Carried
    <2>3. assigning[o] = NoCourier
        BY <1>1 DEF Place, RowInv, AssigningValid, Assignable
    <2>. QED
        BY <1>1, <2>1, <2>2, <2>3, SaveCoherent DEF Place
<1>2. ASSUME NEW o \in Orders, Approve(o)
      PROVE RowCoherent' /\ EditsCoherent' /\ AssigningValid'
    BY <1>0, <1>2, SavedRowsCoherent, SaveCoherent DEF Approve, Locks
<1>3. ASSUME NEW o \in Orders, Reject(o)
      PROVE RowCoherent' /\ EditsCoherent' /\ AssigningValid'
    BY <1>0, <1>3, SavedRowsCoherent, SaveCoherent DEF Reject, Locks
<1>4. ASSUME NEW o \in Orders, Cancel(o)
      PROVE RowCoherent' /\ EditsCoherent' /\ AssigningValid'
    BY <1>0, <1>4, SavedRowsCoherent, SaveCoherent DEF Cancel, Locks
<1>5. ASSUME NEW o \in Orders, NEW price \in Prices, NEW request \in BOOLEAN,
             SetDeliveryPrice(o, price, request)
      PROVE RowCoherent' /\ EditsCoherent' /\ AssigningValid'
    <2>1. CoherentRow([order[o] EXCEPT !.price = price,
                           !.shipping = QuotedShipping(order[o], request)])
        BY <1>0, SavedRowsCoherent
    <2>. QED
        BY <1>5, <2>1, SaveCoherent DEF SetDeliveryPrice, Locks
<1>6. ASSUME NEW o \in Orders, AcceptQuote(o)
      PROVE RowCoherent' /\ EditsCoherent' /\ AssigningValid'
    BY <1>0, <1>6, SavedRowsCoherent, SaveCoherent DEF AcceptQuote, Locks
<1>7. ASSUME NEW o \in Orders, NEW c \in Couriers, AssignCheck(o, c)
      PROVE RowCoherent' /\ EditsCoherent' /\ AssigningValid'
    BY <1>7 DEF AssignCheck, RowInv, RowCoherent, EditsCoherent, AssigningValid, TypeOK
<1>8. ASSUME NEW o \in Orders, AssignWrite(o)
      PROVE RowCoherent' /\ EditsCoherent' /\ AssigningValid'
    <2>1. Assignable(order[o]) /\ assigning[o] \in Couriers
        BY <1>8 DEF AssignWrite, RowInv, TypeOK, AssigningValid
    <2>2. CoherentRow([order[o] EXCEPT !.status = "assigned", !.rep = assigning[o]])
        BY <1>0, <2>1, SavedRowsCoherent
    <2>. QED
        BY <1>8, <2>2, SaveCoherent DEF AssignWrite
<1>9. ASSUME NEW o \in Orders, AssignRollback(o)
      PROVE RowCoherent' /\ EditsCoherent' /\ AssigningValid'
    BY <1>9 DEF AssignRollback, RowInv, RowCoherent, EditsCoherent, AssigningValid, TypeOK
<1>10. ASSUME NEW o \in Orders, Unassign(o)
       PROVE RowCoherent' /\ EditsCoherent' /\ AssigningValid'
    BY <1>0, <1>10, SavedRowsCoherent, SaveCoherent DEF Unassign, Locks
<1>11. ASSUME NEW o \in Orders, NEW market \in Markets, CourierMarketPickup(o, market)
       PROVE RowCoherent' /\ EditsCoherent' /\ AssigningValid'
    BY <1>11 DEF CourierMarketPickup, RowInv, RowCoherent, EditsCoherent, AssigningValid
<1>12. ASSUME NEW o \in Orders, NEW status \in Statuses, CourierStatus(o, status)
       PROVE RowCoherent' /\ EditsCoherent' /\ AssigningValid'
    <2>1. CoherentRow([order[o] EXCEPT !.status = status])
        BY <1>0, <1>12, SavedRowsCoherent DEF CourierStatus
    <2>. QED
        BY <1>12, <2>1, SaveCoherent DEF CourierStatus, Locks
<1>13. ASSUME NEW c \in Couriers, DeactivateCourier(c) \/ ReactivateCourier(c)
       PROVE RowCoherent' /\ EditsCoherent' /\ AssigningValid'
    BY <1>13 DEF DeactivateCourier, ReactivateCourier, RowInv, RowCoherent, EditsCoherent,
                 AssigningValid
<1>14. ASSUME NEW e \in Editors, NEW o \in Orders, EditRead(e, o)
       PROVE RowCoherent' /\ EditsCoherent' /\ AssigningValid'
    BY <1>0, <1>14 DEF EditRead, RowInv, RowCoherent, EditsCoherent, AssigningValid, TypeOK
<1>15. ASSUME NEW e \in Editors, EditDetails(e)
       PROVE RowCoherent' /\ EditsCoherent' /\ AssigningValid'
    BY <1>15, EditWriteCoherent DEF EditDetails, RowInv, EditsCoherent
<1>16. ASSUME NEW e \in Editors, NEW price \in Prices \cup {NoPrice},
              NEW delivery \in {"fixed_area", "delivery"}, EditDelivery(e, delivery, price)
       PROVE RowCoherent' /\ EditsCoherent' /\ AssigningValid'
    <2>1. edit[e].row \in Row /\ CoherentRow(edit[e].row)
        BY <1>16 DEF EditDelivery, RowInv, TypeOK, EditsCoherent
    <2>2. CoherentRow([edit[e].row EXCEPT !.delivery = delivery, !.price = price])
        BY <2>1, SavedRowsCoherent
    <2>. QED
        BY <1>16, <2>2, EditWriteCoherent DEF EditDelivery
<1>17. ASSUME NEW e \in Editors, NEW markets \in SUBSET Markets, NEW free \in BOOLEAN,
              EditContent(e, markets, free)
       PROVE RowCoherent' /\ EditsCoherent' /\ AssigningValid'
    BY <1>17, EditWriteCoherent DEF EditContent, RowInv, EditsCoherent
<1>18. ASSUME NEW e \in Editors, EditRefused(e)
       PROVE RowCoherent' /\ EditsCoherent' /\ AssigningValid'
    BY <1>18 DEF EditRefused, RowInv, RowCoherent, EditsCoherent, AssigningValid, TypeOK
<1>19. CASE UNCHANGED vars
    BY <1>19 DEF vars, RowInv, RowCoherent, EditsCoherent, AssigningValid
<1>. QED
    BY <1>1, <1>2, <1>3, <1>4, <1>5, <1>6, <1>7, <1>8, <1>9, <1>10, <1>11, <1>12, <1>13,
       <1>14, <1>15, <1>16, <1>17, <1>18, <1>19
       DEF Next, CheckoutNext, AdminNext, CourierAppNext, AccountNext, EditNext

LEMMA RowInvariant == Spec => []RowInv
<1>1. Init => RowInv
    <2>1. Unplaced \in Row /\ CoherentRow(Unplaced)
        BY OrderConstants DEF Unplaced, Row, OrderConstants, Statuses, Reviews, Shippings,
                              CoherentRow, Carried
    <2>. QED
        BY <2>1 DEF Init, RowInv, TypeOK, RowCoherent, EditsCoherent, AssigningValid
<1>2. RowInv /\ [Next]_vars => RowInv'
    BY RowStep, OrderConstants
<1>. QED
    BY <1>1, <1>2, PTL DEF Spec

\* Every row is coherent in itself, through lost updates too.
THEOREM RowsStayCoherent == Spec => []RowCoherent
<1>1. RowInv => RowCoherent
    BY DEF RowInv
<1>. QED
    BY <1>1, RowInvariant, PTL
-----------------------------------------------------------------------------
(* OrderLifecycle implements OrderFlow.                                    *)

\* A saved row moves the abstract order along, or, when a lost update has taken it
\* out of the promise, leaves it where it is.
LEMMA SaveMoves ==
    ASSUME TypeOK, NEW o \in Orders, NEW row \in Row, NEW type, NEW price,
           Save(o, row, type, price), edited' = edited,
           NEW from, order[o].status \in from,
           NEW to, row.status = to, NEW courier, row.rep = courier
    PROVE  UNCHANGED Flow!flowVars \/ Flow!Move(o, from, to, courier)
<1>1. order' = [order EXCEPT ![o] = row]
    BY DEF Save
<1>2. CASE Stale(o)
    BY <1>1, <1>2 DEF TypeOK, Flow!flowVars, Stale
<1>3. CASE ~Stale(o)
    BY <1>1, <1>3 DEF TypeOK, Flow!Move, Stale
<1>. QED
    BY <1>2, <1>3

\* A change of the row that touches neither status nor courier is no progress.
LEMMA SaveStutters ==
    ASSUME TypeOK, NEW o \in Orders, NEW row \in Row, NEW type, NEW price,
           Save(o, row, type, price), edited' = edited,
           row.status = order[o].status, row.rep = order[o].rep
    PROVE  UNCHANGED Flow!flowVars
BY DEF Save, TypeOK, Flow!flowVars, Stale

\* An edit either saves the row as it is, is made on an order already out of the
\* promise, or takes it out now.
LEMMA EditWriteFlows ==
    ASSUME TypeOK, NEW e \in Editors, edit[e] \notin {Unread, Answered},
           NEW o \in Orders, edit[e].order = o,
           NEW row, NEW kinds \in SUBSET {"delivery", "content"}, EditWrite(e, row, kinds),
           row.status = edit[e].row.status, row.rep = edit[e].row.rep
    PROVE  UNCHANGED Flow!flowVars \/ Flow!Overwrite(o)
<1>1. /\ order' = [order EXCEPT ![o] = row]
      /\ order[o].status # "unplaced"
      /\ edited' = [edited EXCEPT ![o] = edited'[o]]
    BY DEF EditWrite, Locks, TypeOK
<1>2. Stale(o)' <=> Stale(o) \/ order[o] # edit[e].row
    BY DEF EditWrite, Stale, TypeOK
<1>3. \A p \in Orders \ {o} : order'[p] = order[p] /\ (Stale(p)' <=> Stale(p))
    BY <1>1 DEF TypeOK, Stale
<1>4. CASE Stale(o) \/ order[o] = edit[e].row
    <2>1. order'[o] = row /\ (Stale(o)' <=> Stale(o))
        BY <1>1, <1>2, <1>4 DEF TypeOK
    <2>2. \A p \in Orders : /\ Stale(p)' <=> Stale(p)
                            /\ ~Stale(p) => /\ order'[p].status = order[p].status
                                            /\ order'[p].rep = order[p].rep
        BY <1>3, <1>4, <2>1
    <2>. QED
        BY <2>2 DEF Flow!flowVars
<1>5. CASE ~Stale(o) /\ order[o] # edit[e].row
    <2>1. \A p \in Orders : p # o => /\ Stale(p)' <=> Stale(p)
                                     /\ order'[p] = order[p]
        BY <1>3
    <2>2. Stale(o)' /\ ~Stale(o) /\ order[o].status # "unplaced"
        BY <1>1, <1>2, <1>5
    <2>. QED
        BY <2>1, <2>2 DEF Flow!Overwrite
<1>. QED
    BY <1>4, <1>5

LEMMA FlowStep == OrderConstants /\ RowInv /\ [Next]_vars => [Flow!FlowNext]_(Flow!flowVars)
<1>. SUFFICES ASSUME OrderConstants, RowInv, [Next]_vars
              PROVE  Flow!FlowNext \/ UNCHANGED Flow!flowVars
    OBVIOUS
<1>0. TypeOK /\ \A o \in Orders : order[o] \in Row /\ CoherentRow(order[o])
    BY DEF RowInv, TypeOK, RowCoherent
<1>1. ASSUME NEW o \in Orders, NEW delivery \in {"fixed_area", "delivery"},
             NEW areaPrice \in Prices, NEW free \in BOOLEAN, NEW markets \in SUBSET Markets,
             Place(o, delivery, areaPrice, free, markets)
      PROVE Flow!FlowNext \/ UNCHANGED Flow!flowVars
    <2>. DEFINE price == IF free THEN 0 ELSE IF delivery = "fixed_area" THEN areaPrice
                         ELSE NoPrice
                row == [Unplaced EXCEPT !.status = "pending", !.delivery = delivery,
                           !.price = price, !.shipping = PlacedShipping(price, delivery)]
    <2>1. row \in Row /\ row.status = "pending" /\ row.rep = NoCourier
        BY DEF OrderConstants, Unplaced, PlacedShipping, Row, Statuses, Reviews, Shippings
    <2>2. Save(o, row, "order_created", NoPrice) /\ edited' = edited
            /\ order[o].status \in {"unplaced"}
        BY <1>1 DEF Place
    <2>. HIDE DEF row
    <2>3. UNCHANGED Flow!flowVars \/ Flow!Place(o)
        BY <1>0, <2>1, <2>2, SaveMoves DEF Flow!Place
    <2>. QED
        BY <2>3 DEF Flow!FlowNext
<1>2. ASSUME NEW o \in Orders, Approve(o) PROVE Flow!FlowNext \/ UNCHANGED Flow!flowVars
    <2>. DEFINE row == [order[o] EXCEPT !.review = "approved", !.status = "confirmed"]
    <2>1. row \in Row /\ row.status = "confirmed" /\ row.rep = NoCourier
        <3>1. "approved" \in Reviews /\ "confirmed" \in Statuses
            BY DEF Reviews, Statuses
        <3>2. order[o].rep = NoCourier
            BY <1>0, <1>2 DEF Approve, CoherentRow, Carried
        <3>3. row \in Row
            BY <1>0, <3>1, RowTypes
        <3>4. row.status = "confirmed" /\ row.rep = order[o].rep
            BY <1>0 DEF Row
        <3>. QED
            BY <3>2, <3>3, <3>4
    <2>2. Save(o, row, "review_approved", NoPrice) /\ edited' = edited
            /\ order[o].status \in {"pending"}
        BY <1>2 DEF Approve
    <2>. HIDE DEF row
    <2>3. UNCHANGED Flow!flowVars \/ Flow!Accept(o)
        BY <1>0, <2>1, <2>2, SaveMoves DEF Flow!Accept
    <2>. QED
        BY <2>3 DEF Flow!FlowNext
<1>3. ASSUME NEW o \in Orders, Reject(o) PROVE Flow!FlowNext \/ UNCHANGED Flow!flowVars
    <2>. DEFINE row == [order[o] EXCEPT !.review = "rejected", !.status = "cancelled"]
    <2>1. row \in Row /\ row.status = "cancelled" /\ row.rep = NoCourier
        <3>1. "rejected" \in Reviews /\ "cancelled" \in Statuses
            BY DEF Reviews, Statuses, Finished
        <3>2. order[o].rep = NoCourier
            BY <1>3 DEF Reject
        <3>3. row \in Row
            BY <1>0, <3>1, RowTypes
        <3>4. row.status = "cancelled" /\ row.rep = order[o].rep
            BY <1>0 DEF Row
        <3>. QED
            BY <3>2, <3>3, <3>4
    <2>2. Save(o, row, "review_rejected", NoPrice) /\ edited' = edited
        BY <1>3 DEF Reject
    <2>3. order[o].status \in {"pending", "confirmed", "assigned", "picked_up"}
        BY <1>0, <1>3 DEF Reject, Locks, CoherentRow, Row, Statuses, Carried, Finished
    <2>. HIDE DEF row
    <2>4. UNCHANGED Flow!flowVars \/ Flow!Cancel(o)
        BY <1>0, <2>1, <2>2, <2>3, SaveMoves DEF Flow!Cancel
    <2>. QED
        BY <2>4 DEF Flow!FlowNext
<1>4. ASSUME NEW o \in Orders, Cancel(o) PROVE Flow!FlowNext \/ UNCHANGED Flow!flowVars
    <2>. DEFINE row == CancelledRow(order[o])
    <2>1. row \in Row /\ row.status = "cancelled" /\ row.rep = NoCourier
        BY <1>0, RowTypes DEF CancelledRow, Row
    <2>2. Save(o, row, "cancelled", NoPrice) /\ edited' = edited
        BY <1>4 DEF Cancel
    <2>3. order[o].status \in {"pending", "confirmed", "assigned", "picked_up"}
        BY <1>0, <1>4 DEF Cancel, AllowedStatuses, Locks, Row, Statuses, Carried, Finished
    <2>. HIDE DEF row
    <2>4. UNCHANGED Flow!flowVars \/ Flow!Cancel(o)
        BY <1>0, <2>1, <2>2, <2>3, SaveMoves DEF Flow!Cancel
    <2>. QED
        BY <2>4 DEF Flow!FlowNext
<1>5. ASSUME NEW o \in Orders, NEW price \in Prices, NEW request \in BOOLEAN,
             SetDeliveryPrice(o, price, request)
      PROVE Flow!FlowNext \/ UNCHANGED Flow!flowVars
    <2>. DEFINE row == [order[o] EXCEPT !.price = price,
                                        !.shipping = QuotedShipping(order[o], request)]
    <2>1. row \in Row /\ row.status = order[o].status /\ row.rep = order[o].rep
        BY <1>0, RowTypes DEF Row
    <2>2. edited' = edited /\ \E type : Save(o, row, type, price)
        BY <1>5 DEF SetDeliveryPrice
    <2>. HIDE DEF row
    <2>. QED
        BY <1>0, <2>1, <2>2, SaveStutters
<1>6. ASSUME NEW o \in Orders, AcceptQuote(o) PROVE Flow!FlowNext \/ UNCHANGED Flow!flowVars
    <2>. DEFINE row == AcceptedRow(order[o])
    <2>1. row \in Row /\ row.status = order[o].status /\ row.rep = order[o].rep
        BY <1>0, RowTypes DEF Row, AcceptedRow
    <2>2. edited' = edited /\ \E price : Save(o, row, "delivery_quote_accepted", price)
        BY <1>6 DEF AcceptQuote
    <2>. HIDE DEF row
    <2>. QED
        BY <1>0, <2>1, <2>2, SaveStutters
<1>7. ASSUME NEW o \in Orders, NEW c \in Couriers, AssignCheck(o, c)
      PROVE Flow!FlowNext \/ UNCHANGED Flow!flowVars
    BY <1>7 DEF AssignCheck, Flow!flowVars, Stale
<1>8. ASSUME NEW o \in Orders, AssignWrite(o) PROVE Flow!FlowNext \/ UNCHANGED Flow!flowVars
    <2>. DEFINE row == [order[o] EXCEPT !.status = "assigned", !.rep = assigning[o]]
    <2>1. assigning[o] \in Couriers /\ Assignable(order[o])
        BY <1>8 DEF AssignWrite, RowInv, TypeOK, AssigningValid
    <2>2. row \in Row /\ row.status = "assigned" /\ row.rep = assigning[o]
        BY <1>0, <2>1, RowTypes DEF Row, Statuses, Carried
    <2>3. Save(o, row, "assigned", NoPrice) /\ edited' = edited
            /\ order[o].status \in {"confirmed", "assigned"}
        BY <1>8, <2>1 DEF AssignWrite, Assignable
    <2>. HIDE DEF row
    <2>4. PICK c \in Couriers : c = assigning[o]
        BY <2>1
    <2>5. UNCHANGED Flow!flowVars \/ Flow!Dispatch(o, c)
        BY <1>0, <2>2, <2>3, <2>4, SaveMoves DEF Flow!Dispatch
    <2>. QED
        BY <2>5 DEF Flow!FlowNext
<1>9. ASSUME NEW o \in Orders, AssignRollback(o) PROVE Flow!FlowNext \/ UNCHANGED Flow!flowVars
    BY <1>9 DEF AssignRollback, Flow!flowVars, Stale
<1>10. ASSUME NEW o \in Orders, Unassign(o) PROVE Flow!FlowNext \/ UNCHANGED Flow!flowVars
    <2>. DEFINE row == UnassignedRow(order[o])
    <2>1. order[o].status = "assigned"
        BY <1>0, <1>10 DEF Unassign, CoherentRow, Finished, Carried
    <2>2. row \in Row /\ row.status = "confirmed" /\ row.rep = NoCourier
        BY <1>0, <2>1, RowTypes DEF Row, UnassignedRow
    <2>3. Save(o, row, "unassigned", NoPrice) /\ edited' = edited
            /\ order[o].status \in {"assigned"}
        BY <1>10, <2>1 DEF Unassign
    <2>. HIDE DEF row
    <2>4. UNCHANGED Flow!flowVars \/ Flow!Recall(o)
        BY <1>0, <2>2, <2>3, SaveMoves DEF Flow!Recall
    <2>. QED
        BY <2>4 DEF Flow!FlowNext
<1>11. ASSUME NEW o \in Orders, NEW market \in Markets, CourierMarketPickup(o, market)
       PROVE Flow!FlowNext \/ UNCHANGED Flow!flowVars
    BY <1>11 DEF CourierMarketPickup, Flow!flowVars, Stale
<1>12. ASSUME NEW o \in Orders, NEW status \in Statuses, CourierStatus(o, status)
       PROVE Flow!FlowNext \/ UNCHANGED Flow!flowVars
    <2>. DEFINE row == [order[o] EXCEPT !.status = status]
    <2>1. row \in Row /\ row.status = status /\ row.rep = order[o].rep
        BY <1>0, RowTypes DEF Row
    <2>2. Save(o, row, "status_changed", NoPrice) /\ edited' = edited
        BY <1>12 DEF CourierStatus
    <2>. HIDE DEF row
    <2>. PICK c : c = order[o].rep
        OBVIOUS
    <2>3. CASE order[o].status = "assigned" /\ status = "picked_up"
        <3>1. UNCHANGED Flow!flowVars \/ Flow!Move(o, {"assigned"}, "picked_up", c)
            BY <1>0, <2>1, <2>2, <2>3, SaveMoves
        <3>2. UNCHANGED Flow!flowVars \/ Flow!Collect(o)
            BY <3>1 DEF Flow!Collect, Flow!Move, Flow!flowVars
        <3>. QED
            BY <3>2 DEF Flow!FlowNext
    <2>4. CASE order[o].status = "picked_up" /\ status \in {"delivered", "failed_delivery"}
        <3>1. UNCHANGED Flow!flowVars \/ Flow!Move(o, {"picked_up"}, status, c)
            BY <1>0, <2>1, <2>2, <2>4, SaveMoves
        <3>2. UNCHANGED Flow!flowVars \/ Flow!Finish(o)
            BY <2>4, <3>1 DEF Flow!Finish, Flow!Move
        <3>. QED
            BY <3>2 DEF Flow!FlowNext
    <2>. QED
        BY <1>12, <2>3, <2>4 DEF CourierStatus, CourierNext
<1>13. ASSUME NEW c \in Couriers, DeactivateCourier(c) \/ ReactivateCourier(c)
       PROVE Flow!FlowNext \/ UNCHANGED Flow!flowVars
    BY <1>13 DEF DeactivateCourier, ReactivateCourier, Flow!flowVars, Stale
<1>14. ASSUME NEW e \in Editors, NEW o \in Orders, EditRead(e, o)
       PROVE Flow!FlowNext \/ UNCHANGED Flow!flowVars
    BY <1>14 DEF EditRead, Flow!flowVars, Stale
<1>15. ASSUME NEW e \in Editors, EditDetails(e)
       PROVE Flow!FlowNext \/ UNCHANGED Flow!flowVars
    <2>1. PICK o \in Orders : edit[e].order = o
        BY <1>0, <1>15 DEF EditDetails, TypeOK
    <2>2. UNCHANGED Flow!flowVars \/ Flow!Overwrite(o)
        BY <1>0, <1>15, <2>1, EditWriteFlows DEF EditDetails
    <2>. QED
        BY <2>1, <2>2 DEF Flow!FlowNext
<1>16. ASSUME NEW e \in Editors, NEW price \in Prices \cup {NoPrice},
              NEW delivery \in {"fixed_area", "delivery"}, EditDelivery(e, delivery, price)
       PROVE Flow!FlowNext \/ UNCHANGED Flow!flowVars
    <2>. DEFINE row == [edit[e].row EXCEPT !.delivery = delivery, !.price = price]
    <2>1. edit[e].row \in Row /\ \E o \in Orders : edit[e].order = o
        BY <1>0, <1>16 DEF EditDelivery, TypeOK
    <2>2. row.status = edit[e].row.status /\ row.rep = edit[e].row.rep
        BY <2>1 DEF Row
    <2>3. EditWrite(e, row, {"delivery"}) /\ edit[e] \notin {Unread, Answered}
        BY <1>16 DEF EditDelivery
    <2>. HIDE DEF row
    <2>4. PICK o \in Orders : edit[e].order = o
        BY <2>1
    <2>5. UNCHANGED Flow!flowVars \/ Flow!Overwrite(o)
        BY <1>0, <2>2, <2>3, <2>4, EditWriteFlows
    <2>. QED
        BY <2>5 DEF Flow!FlowNext
<1>17. ASSUME NEW e \in Editors, NEW markets \in SUBSET Markets, NEW free \in BOOLEAN,
              EditContent(e, markets, free)
       PROVE Flow!FlowNext \/ UNCHANGED Flow!flowVars
    <2>1. PICK o \in Orders : edit[e].order = o
        BY <1>0, <1>17 DEF EditContent, TypeOK
    <2>2. UNCHANGED Flow!flowVars \/ Flow!Overwrite(o)
        BY <1>0, <1>17, <2>1, EditWriteFlows DEF EditContent
    <2>. QED
        BY <2>1, <2>2 DEF Flow!FlowNext
<1>18. ASSUME NEW e \in Editors, EditRefused(e) PROVE Flow!FlowNext \/ UNCHANGED Flow!flowVars
    BY <1>18 DEF EditRefused, Flow!flowVars, Stale
<1>19. CASE UNCHANGED vars
    BY <1>19 DEF vars, Flow!flowVars, Stale
<1>. QED
    BY <1>1, <1>2, <1>3, <1>4, <1>5, <1>6, <1>7, <1>8, <1>9, <1>10, <1>11, <1>12, <1>13,
       <1>14, <1>15, <1>16, <1>17, <1>18, <1>19
       DEF Next, CheckoutNext, AdminNext, CourierAppNext, AccountNext, EditNext

\* The endpoints, PATCH included, implement the abstract progress of an order.
THEOREM LifecycleImplementsFlow == Spec => ImplementsFlow
<1>1. Init => Flow!FlowInit
    BY DEF Init, Unplaced, Flow!FlowInit, Stale
<1>2. RowInv /\ [Next]_vars => [Flow!FlowNext]_(Flow!flowVars)
    BY FlowStep, OrderConstants
<1>. QED
    BY <1>1, <1>2, RowInvariant, PTL DEF Spec, ImplementsFlow, Flow!FlowSpec
=============================================================================
