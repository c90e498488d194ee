------------------------------ MODULE MCBookings ------------------------------
(* Bookings with a few calls on one or two connectors. *)
EXTENDS Bookings, TLC

JobSymmetry == Permutations(Job)
===============================================================================
