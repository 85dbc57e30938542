------------------------------- MODULE Roster -------------------------------
(***************************************************************************)
(* What the roster of a class session promises, as if every command on it  *)
(* were one step: seats up to the capacity, a line of people waiting in    *)
(* the order they signed up, and no seat left free before the session      *)
(* starts while someone waits for it.                                      *)
(***************************************************************************)
EXTENDS Naturals, FiniteSets

CONSTANTS
    Booking,   \* sign-ups for the session
    Capacity   \* its seats

VARIABLES
    status,    \* status[b]: "none" before the sign-up and when it was refused
    came,      \* came[b]: when b signed up, 0: not yet
    open,      \* the session is not canceled
    ahead      \* it has not started

vars == <<status, came, open, ahead>>

Status == {"none", "waitlisted", "confirmed", "canceled"}

Taken(st) == {b \in Booking : st[b] = "confirmed"}
Waiting(st) == {b \in Booking : st[b] = "waitlisted"}
Live(st) == Taken(st) \cup Waiting(st)

Full(st) == Cardinality(Taken(st)) >= Capacity

\* Not open to a new sign-up: full, or someone waits for the next seat.
Closed(st) == Full(st) \/ Waiting(st) # {}

Give(st, S, s) == [b \in Booking |-> IF b \in S THEN s ELSE st[b]]

\* S are the first people waiting.
First(st, S) ==
    /\ S \subseteq Waiting(st)
    /\ \A b \in S, c \in Waiting(st) \ S : came[b] < came[c]

Fits(st, S) == Cardinality(Taken(st)) + Cardinality(S) <= Capacity

\* Nobody, or no seat, is left over once S are seated.
Enough(st, S) == Waiting(st) \subseteq S \/ Full(Give(st, S, "confirmed"))

Init ==
    /\ status \in [Booking -> {"none", "confirmed"}]
    /\ Cardinality(Taken(status)) <= Capacity
    /\ came = [b \in Booking |-> 0]
    /\ open = TRUE
    /\ ahead = TRUE

Ask(b) ==
    /\ status[b] = "none" /\ came[b] = 0
    /\ came' = [came EXCEPT ![b] = Cardinality({c \in Booking : came[c] # 0}) + 1]
    /\ UNCHANGED <<status, open, ahead>>

Enter(b) ==
    /\ status[b] = "none" /\ came[b] # 0
    /\ \/ /\ ~Closed(status)
          /\ status' = Give(status, {b}, "confirmed")
       \/ /\ Closed(status) \/ ~ahead
          /\ status' = Give(status, {b}, "waitlisted")
    /\ UNCHANGED <<came, open, ahead>>

\* A seat that is given up goes to the first person waiting; once the session has started or is
\* canceled it may stay empty.  With its last booking the session may go.
Leave(b, S) ==
    /\ b \in Live(status)
    /\ LET left == Give(status, {b}, "canceled")
       IN  /\ First(left, S)
           /\ S # {} => b \in Taken(status) /\ Fits(left, S)
           /\ open /\ ahead /\ b \in Taken(status) => Enough(left, S)
           /\ status' = Give(left, S, "confirmed")
    /\ \/ open' = open
       \/ open' = FALSE /\ Live(status') = {}
    /\ UNCHANGED <<came, ahead>>

\* Staff give a free seat to anyone who waits.
Seat(b) ==
    /\ b \in Waiting(status)
    /\ ~Full(status)
    /\ status' = Give(status, {b}, "confirmed")
    /\ UNCHANGED <<came, open, ahead>>

CallOff ==
    /\ status' = Give(status, Live(status), "canceled")
    /\ open' = FALSE
    /\ UNCHANGED <<came, ahead>>

Start ==
    /\ ahead
    /\ ahead' = FALSE
    /\ UNCHANGED <<status, came, open>>

CloseLine(b) ==
    /\ ~ahead
    /\ b \in Waiting(status)
    /\ status' = Give(status, {b}, "canceled")
    /\ UNCHANGED <<came, open, ahead>>

Next ==
    \/ \E b \in Booking :
          \/ Ask(b) \/ Enter(b) \/ Seat(b) \/ CloseLine(b)
          \/ \E S \in SUBSET Waiting(status) : Leave(b, S)
    \/ CallOff
    \/ Start

Spec == Init /\ [][Next]_vars
=============================================================================
