------------------------------ MODULE MCBooking ------------------------------
(***************************************************************************)
(* Small instances of CalendarBooking for TLC.  There is one interval, so  *)
(* the bookings of an instance with two of them compete for it.            *)
(***************************************************************************)
EXTENDS CalendarBooking, TLC

MCSlotOf == [k \in Keys |-> CHOOSE s \in Slots : TRUE]

Symmetry == Permutations(Execs) \cup Permutations(Workers) \cup Permutations(Keys)

OrderlyFaults == FaultKinds \ {"stall", "dberror"}
StaleFaults   == {"outage", "timeout", "dberror", "stall"}
=============================================================================
