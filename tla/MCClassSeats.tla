---- MODULE MCClassSeats ----
(* Instances of ClassSeats for TLC. *)
EXTENDS ClassSeats, SequencesExt

CONSTANTS b1, b2, b3, b4, m1, m2, c1, c2

BookingOrder == <<b1, b2, b3, b4>>
SomeBookings == ToSet(BookingOrder)
Members == {m1, m2}
Commands == {c1, c2}

Seated(b) == came[b] = 0 /\ status[b] # "none"
Unused(b) == came[b] = 0 /\ status[b] = "none"

\* Bookings, members and commands have no identity of their own: those seated at first come
\* first, the others sign up in order, the first member leads and an idle first command is
\* taken before the second.  The session moves once, and after a command has held the lock of
\* its former member no more commands begin: those under way are followed to their end.
BookingsInOrder ==
    \A i, j \in DOMAIN BookingOrder :
        LET a == BookingOrder[i] b == BookingOrder[j]
        IN  i < j =>
              /\ Seated(b) => Seated(a)
              /\ Unused(a) => Unused(b)
              /\ came[a] # 0 /\ came[b] # 0 => came[a] < came[b]

InOrder ==
    /\ job[c2] = Idle /\ job'[c2] # Idle => job[c1] # Idle
    /\ staff' # staff => staff = m1
    /\ strays # {} => \A c \in Command : job[c] = Idle => job'[c] = Idle

MCInit == Init /\ staff = m1 /\ Taken(status) # {}

MCSpec == MCInit /\ [][Next]_vars /\ Fairness
====
