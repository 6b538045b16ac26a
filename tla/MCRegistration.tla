--------------------------- MODULE MCRegistration ---------------------------
(* Registration on a small instance: two cooldown durations, the second longer. *)
EXTENDS Registration

TwoDurations == <<1, 2>>
=============================================================================
