------------------------- MODULE MCInterviewBooking -------------------------
(* InterviewBooking on small instances.  The requests of the panel are      *)
(* interchangeable; ids are taken in order, so bookings are not.            *)
EXTENDS InterviewBooking, TLC

RequestSymmetry == Permutations(Requests)
=============================================================================
