--------------------------- MODULE BookingPromise ---------------------------
(***************************************************************************)
(* What the calendar assistant promises a caller, with the idempotency     *)
(* table, the recovery queue, the worker and the broker left out: a        *)
(* booking is announced as made only when the company's Google calendar    *)
(* has already taken the event, and neither fact is ever withdrawn from    *)
(* the history.                                                            *)
(***************************************************************************)
CONSTANT Keys          \* the logical bookings, one idempotency key each

VARIABLES made,        \* bookings whose event the calendar has accepted
          announced    \* bookings some caller was told are confirmed

vars == <<made, announced>>

Init == made = {} /\ announced = {}

Make(k) == /\ k \notin made
           /\ made' = made \cup {k}
           /\ UNCHANGED announced

Announce(k) == /\ k \in made
               /\ announced' = announced \cup {k}
               /\ UNCHANGED made

Next == \E k \in Keys : Make(k) \/ Announce(k)

Spec == Init /\ [][Next]_vars
=============================================================================
