---- MODULE MCBookingDeposits ----
(* Instances of BookingDeposits for TLC. *)
EXTENDS BookingDeposits
====
