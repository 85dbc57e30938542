--------------------------- MODULE MCHoursOutbox ----------------------------
(* Model values for the working week: tabs on one device or on two.          *)
EXTENDS HoursOutbox

CONSTANTS phone, desk, t1, t2, o1, o2, o3, mon, tue

\* One tab on each device.
Apart == (t1 :> phone) @@ (t2 :> desk)
\* Both tabs in the browser at the desk, sharing its outbox.
Together == (t1 :> desk) @@ (t2 :> desk)

\* The two devices, each with its tab, are interchangeable.
Swap == (t1 :> t2) @@ (t2 :> t1) @@ (phone :> desk) @@ (desk :> phone)

\* So are the operations, and the days.
Same == Permutations({o1, o2, o3}) \cup Permutations({mon, tue}) \cup {Swap}
=============================================================================
