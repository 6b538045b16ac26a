------------------------------ MODULE OrderFlow ------------------------------
(***************************************************************************)
(* What the orders application promises about the progress of an order,    *)
(* with everything that is not progress left out: where an order stands,   *)
(* which courier answers for it, and the moves the status endpoints offer. *)
(* OrderLifecycle implements this specification.                           *)
(*                                                                         *)
(* "overwritten" is the one place where the promise stops: PATCH           *)
(* /orders/<id>/ saves a row it read earlier without a lock, and an order  *)
(* whose newer row was lost that way is followed no further.               *)
(***************************************************************************)
CONSTANTS Orders, Couriers, NoCourier

VARIABLES
    stage,      \* stage[o]: Order.status, "unplaced" before the INSERT
    holder      \* holder[o]: Order.assigned_representative

flowVars == <<stage, holder>>

FlowInit ==
    /\ stage = [o \in Orders |-> "unplaced"]
    /\ holder = [o \in Orders |-> NoCourier]

Move(o, from, to, courier) ==
    /\ stage[o] \in from
    /\ stage' = [stage EXCEPT ![o] = to]
    /\ holder' = [holder EXCEPT ![o] = courier]

Place(o) == Move(o, {"unplaced"}, "pending", NoCourier)

Accept(o) == Move(o, {"pending"}, "confirmed", NoCourier)

\* A courier may be replaced while the goods are still with the markets.
Dispatch(o, c) == Move(o, {"confirmed", "assigned"}, "assigned", c)

Recall(o) == Move(o, {"assigned"}, "confirmed", NoCourier)

Collect(o) == Move(o, {"assigned"}, "picked_up", holder[o])

Finish(o) ==
    \E result \in {"delivered", "failed_delivery"} :
        Move(o, {"picked_up"}, result, holder[o])

Cancel(o) ==
    Move(o, {"pending", "confirmed", "assigned", "picked_up"}, "cancelled", NoCourier)

Overwrite(o) ==
    /\ stage[o] # "unplaced"
    /\ stage' = [stage EXCEPT ![o] = "overwritten"]
    /\ holder' = [holder EXCEPT ![o] = NoCourier]

FlowNext ==
    \E o \in Orders :
        \/ Place(o) \/ Accept(o) \/ Recall(o) \/ Collect(o) \/ Finish(o)
        \/ Cancel(o) \/ Overwrite(o)
        \/ \E c \in Couriers : Dispatch(o, c)

FlowSpec == FlowInit /\ [][FlowNext]_flowVars
=============================================================================
