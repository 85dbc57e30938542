----------------------------- MODULE ClassSeats -----------------------------
(***************************************************************************)
(* The commands on one class session (services/bookings.py, public.py,     *)
(* staff.py, programs.py).                                                 *)
(*                                                                         *)
(* A command loads the session, takes the advisory lock of the member it   *)
(* saw leading it, reads the seats and the line, and commits what it       *)
(* decided, all in one transaction.  The lock serialises the commands of   *)
(* one member.  What was loaded before the lock may be stale behind it:    *)
(* removing a member moves the session to another one or calls it off, and *)
(* a command that goes on with the old member holds the wrong lock.        *)
(*                                                                         *)
(* "confirmed" stands for every status that takes a seat (pending,         *)
(* confirmed, completed, no_show).                                         *)
(***************************************************************************)
EXTENDS Naturals, FiniteSets

CONSTANTS
    Booking,   \* sign-ups for the session
    Member,    \* who may lead it
    Command,   \* the transactions that may be under way
    Capacity,  \* the seats of the session
    None

ASSUME SeatsAssumption ==
    /\ IsFiniteSet(Booking)
    /\ Capacity \in Nat \ {0, 1}
    /\ None \notin Member

VARIABLES
    status,    \* status[b]: "none" before the sign-up and when it was refused
    came,      \* came[b]: created_at of b, which is when its transaction began
    open,      \* slot.status is not "canceled"
    staff,     \* slot.staff_id
    laid,      \* the session was laid out by a class schedule
    hour,      \* the session is ahead, has started, or its day is over
    job,       \* job[c]: what command c is to do, and for which member it was loaded
    plan,      \* plan[c]: what it decided behind its lock and has not committed
    strays,    \* bookings changed by a command that held the lock of a former member
    late       \* bookings that staff or the waitlist page added to the session when it
               \* was canceled

session == <<open, staff, laid>>
vars == <<status, came, session, hour, job, plan, strays, late>>

Kind == {"add", "join", "book", "cancel", "withdraw", "seat"}

Idle == [kind |-> "idle", of |-> None, member |-> None]
Job == [kind : Kind, of : Booking, member : Member]

NoPlan == [seat |-> {}, wait |-> {}, drop |-> {}, shut |-> FALSE]
Seating(b) == [seat |-> {b}, wait |-> {}, drop |-> {}, shut |-> FALSE]
Queueing(b) == [seat |-> {}, wait |-> {b}, drop |-> {}, shut |-> FALSE]
Plan == [seat : SUBSET Booking, wait : SUBSET Booking, drop : SUBSET Booking, shut : BOOLEAN]

Status == {"none", "waitlisted", "confirmed", "canceled"}

TypeOK ==
    /\ status \in [Booking -> Status]
    /\ came \in [Booking -> 0 .. Cardinality(Booking)]
    /\ open \in BOOLEAN /\ laid \in BOOLEAN
    /\ staff \in Member
    /\ hour \in {"ahead", "started", "over"}
    /\ job \in [Command -> Job \cup {Idle}]
    /\ plan \in [Command -> Plan]
    /\ strays \subseteq Booking
    /\ late \subseteq Booking

------------------------------------------------------------------------------
(* The roster. *)

Taken(st) == {b \in Booking : st[b] = "confirmed"}
Waiting(st) == {b \in Booking : st[b] = "waitlisted"}
Live(st) == Taken(st) \cup Waiting(st)

Full(st) == Cardinality(Taken(st)) >= Capacity

\* seats_closed
Closed(st) == Full(st) \/ Waiting(st) # {}

\* release_slot finds no booking left.
Empty(st) == Live(st) = {}

Give(st, S, s) == [b \in Booking |-> IF b \in S THEN s ELSE st[b]]

\* Fault: whoever waits, in any order.
Filling_unordered(st, S) ==
    /\ S \subseteq Waiting(st)
    /\ S # {} => Cardinality(Taken(st)) + Cardinality(S) <= Capacity
    /\ Waiting(st) \subseteq S \/ Full(Give(st, S, "confirmed"))

\* The loop of fill_freed_seats seats S: the first ones waiting, until nobody waits or no seat is
\* left.
Filling(st, S) ==
    /\ S \subseteq Waiting(st)
    /\ \A b \in S, c \in Waiting(st) \ S : came[b] < came[c]
    /\ S # {} => Cardinality(Taken(st)) + Cardinality(S) <= Capacity
    /\ Waiting(st) \subseteq S \/ Full(Give(st, S, "confirmed"))

Rows(p) == p.seat \cup p.wait \cup p.drop

After(st, p) == Give(Give(Give(st, p.drop, "canceled"), p.wait, "waitlisted"), p.seat, "confirmed")

------------------------------------------------------------------------------
(* A command's transaction. *)

Loaded(c) == job[c] # Idle /\ plan[c] = NoPlan
Locked(c) == plan[c] # NoPlan

Start(c, k, b) ==
    /\ job[c] = Idle
    /\ job' = [job EXCEPT ![c] = [kind |-> k, of |-> b, member |-> staff]]
    /\ UNCHANGED <<status, session, hour, plan, strays, late>>

\* A sign-up: staff add someone (until twelve hours after the start, which may be the next day),
\* a client books or joins the waitlist.
SignUp(c, k, b) ==
    /\ status[b] = "none" /\ came[b] = 0
    /\ \/ k = "add" /\ open
       \/ k = "join" /\ open /\ hour = "ahead"
       \/ k = "book" /\ hour = "ahead"
    /\ came' = [came EXCEPT ![b] = Cardinality({d \in Booking : came[d] # 0}) + 1]
    /\ Start(c, k, b)

\* A client may leave the line at any time, and give up a seat until the class starts.
MayWithdraw(b) == b \in Waiting(status) \/ (b \in Taken(status) /\ hour = "ahead")

\* A change to a booking: staff cancel it or give it a seat, or the client cancels it.  The reaper
\* of unpaid bookings and the end of a series cancel as staff do.
Change(c, k, b) ==
    /\ \/ k = "cancel" /\ b \in Live(status)
       \/ k = "withdraw" /\ MayWithdraw(b)
       \/ k = "seat" /\ b \in Waiting(status) /\ open
    /\ UNCHANGED came
    /\ Start(c, k, b)

Free(m) == \A c \in Command : Locked(c) => job[c].member # m

\* Rows that are locked by a transaction of another member's lock have to be waited for too.
Unheld(S) == \A c \in Command : S \cap Rows(plan[c]) = {}

\* Fault: no lock is taken.
Lock_none(c) == Loaded(c)

Lock(c) == Loaded(c) /\ Free(job[c].member)

\* The session was moved while the command waited, and it goes on behind the old lock.
Stray(c) == job[c].member # staff

Decide(c, p) ==
    /\ plan' = [plan EXCEPT ![c] = p]
    /\ strays' = IF Stray(c) THEN strays \cup Rows(p) ELSE strays
    /\ late' = IF open THEN late ELSE late \cup {b \in Rows(p) : job[c].kind \in {"add", "join"}}
    /\ UNCHANGED <<status, came, session, hour, job>>

\* Fault: create_booking_core takes the session it finds, canceled or not.
SeatNow_canceled(c) ==
    \/ job[c].kind = "add" /\ ~Closed(status)
    \/ job[c].kind = "book" /\ ~Closed(status) /\ staff = job[c].member

\* ClassService.add, join_waitlist and create_booking_core, which looks the session up behind
\* the lock and lays out another one when this one is gone.
SeatNow(c) ==
    \/ job[c].kind = "add" /\ ~Closed(status)
    \/ job[c].kind = "book" /\ ~Closed(status) /\ open /\ staff = job[c].member

WaitNow(c) == job[c].kind \in {"add", "join"} /\ Closed(status)

Enter(c) ==
    /\ Lock(c)
    /\ \/ SeatNow(c) /\ Decide(c, Seating(job[c].of))
       \/ WaitNow(c) /\ Decide(c, Queueing(job[c].of))

Leaves(c) ==
    \/ job[c].kind = "cancel" /\ job[c].of \in Live(status)
    \/ job[c].kind = "withdraw" /\ MayWithdraw(job[c].of) /\ staff = job[c].member

\* Fault: a canceled booking's seat is not given on.
Leave_unfilled(c, S) ==
    LET b == job[c].of
        left == Give(status, {b}, "canceled")
    IN  /\ Lock(c) /\ Unheld({b})
        /\ Leaves(c)
        /\ S = {}
        /\ Decide(c, [seat |-> {}, wait |-> {}, drop |-> {b}, shut |-> ~laid /\ Empty(left)])

\* The booking is canceled, release_slot cancels a session that nobody holds or waits for, unless
\* a schedule laid it out, and fill_freed_seats gives the seat on until the session starts.
Leave(c, S) ==
    LET b == job[c].of
        left == Give(status, {b}, "canceled")
    IN  /\ Lock(c) /\ Unheld(S \cup {b})
        /\ Leaves(c)
        /\ IF b \in Taken(status) /\ open /\ hour = "ahead" THEN Filling(left, S) ELSE S = {}
        /\ Decide(c, [seat |-> S, wait |-> {}, drop |-> {b}, shut |-> ~laid /\ Empty(left)])

Promotes(c) == job[c].kind = "seat" /\ job[c].of \in Waiting(status) /\ ~Full(status)

Promote(c) ==
    /\ Lock(c) /\ Unheld({job[c].of})
    /\ Promotes(c)
    /\ Decide(c, Seating(job[c].of))

\* What was true when the session was loaded is no longer so: the command is refused.
Refuse(c) ==
    /\ Lock(c)
    /\ ~SeatNow(c) /\ ~WaitNow(c) /\ ~Leaves(c) /\ ~Promotes(c)
    /\ job' = [job EXCEPT ![c] = Idle]
    /\ UNCHANGED <<status, came, session, hour, plan, strays, late>>

Commit(c) ==
    /\ Locked(c)
    /\ status' = After(status, plan[c])
    /\ open' = (open /\ ~plan[c].shut)
    /\ job' = [job EXCEPT ![c] = Idle]
    /\ plan' = [plan EXCEPT ![c] = NoPlan]
    /\ UNCHANGED <<came, staff, laid, hour, strays, late>>

------------------------------------------------------------------------------
(* Others. *)

\* StaffService.remove with "reassign": member m takes the session under both members' locks.
Reassign(m) ==
    /\ hour = "ahead" /\ open /\ m # staff
    /\ laid \/ Live(status) # {}
    /\ Free(staff) /\ Free(m) /\ Unheld(Live(status))
    /\ staff' = m
    /\ UNCHANGED <<status, came, open, laid, hour, job, plan, strays, late>>

\* StaffService.remove with "cancel" cancels everyone's booking and the session; calling a
\* schedule off needs that there is none (ProgramService.cancel).
CallOff ==
    /\ hour = "ahead" /\ open
    /\ laid \/ Live(status) # {}
    /\ Free(staff) /\ Unheld(Live(status))
    /\ status' = Give(status, Live(status), "canceled")
    /\ open' = FALSE
    /\ UNCHANGED <<came, staff, laid, hour, job, plan, strays, late>>

Pass ==
    /\ \/ hour = "ahead" /\ hour' = "started"
       \/ hour = "started" /\ hour' = "over"
    /\ UNCHANGED <<status, came, session, job, plan, strays, late>>

\* Fault: the job looks at the sessions of the day only.
CloseWaitlist_same_day(b) ==
    /\ hour = "started"
    /\ b \in Waiting(status) /\ Unheld({b})
    /\ status' = Give(status, {b}, "canceled")
    /\ UNCHANGED <<came, session, hour, job, plan, strays, late>>

\* _close_past_waitlists takes rows that are not locked, without the member's lock.
CloseWaitlist(b) ==
    /\ hour = "over"
    /\ b \in Waiting(status) /\ Unheld({b})
    /\ status' = Give(status, {b}, "canceled")
    /\ UNCHANGED <<came, session, hour, job, plan, strays, late>>

------------------------------------------------------------------------------
Init ==
    /\ status \in [Booking -> {"none", "confirmed"}]
    /\ Cardinality(Taken(status)) <= Capacity
    /\ laid \in BOOLEAN
    /\ laid \/ Taken(status) # {}
    /\ came = [b \in Booking |-> 0]
    /\ open = TRUE
    /\ staff \in Member
    /\ hour = "ahead"
    /\ job = [c \in Command |-> Idle]
    /\ plan = [c \in Command |-> NoPlan]
    /\ strays = {}
    /\ late = {}

Serve(c) ==
    \/ Enter(c)
    \/ \E S \in SUBSET Waiting(status) : Leave(c, S)
    \/ Promote(c)
    \/ Refuse(c)
    \/ Commit(c)

Next ==
    \/ \E c \in Command, k \in Kind, b \in Booking : SignUp(c, k, b) \/ Change(c, k, b)
    \/ \E c \in Command : Serve(c)
    \/ \E m \in Member : Reassign(m)
    \/ CallOff
    \/ Pass
    \/ \E b \in Booking : CloseWaitlist(b)

Spec == Init /\ [][Next]_vars

\* Time passes, a transaction ends and the completion job runs.
Fairness ==
    /\ WF_vars(Pass)
    /\ \A c \in Command : WF_vars(Commit(c))
    /\ \A b \in Booking : WF_vars(CloseWaitlist(b))

FairSpec == Spec /\ Fairness

------------------------------------------------------------------------------
(* Properties. *)

R == INSTANCE Roster WITH ahead <- hour = "ahead"

\* Behind the member's lock each command acts on the roster as if it were one step, so that the
\* seat that someone frees, someone else books and a third one waits for goes to the third.  That
\* holds until a command goes on behind the lock of a member who no longer leads the session.
ImplementsRoster == R!Init /\ [][strays' = {} => R!Next]_(R!vars)

\* No order of commands seats more people than the class has room for, whatever is done meanwhile
\* behind the lock of a former member: only what is done there may come on top.
NeverOverbooked == Cardinality(Taken(status) \ strays) <= Capacity

\* Until the session starts no seat stays free while someone waits for one, unless a command has
\* held the lock of a former member.
NoSeatIdle ==
    strays = {} /\ open /\ hour = "ahead" /\ Waiting(status) # {} => Full(status)

\* Nobody is left on a canceled session, or books it later, but those who staff or the waitlist
\* page put there without a second look at the session behind the lock.
NobodyLeftBehind == strays = {} /\ ~open => Live(status) \subseteq late

\* A session is canceled once its last live or waiting booking is gone (release_slot): none is
\* left on it, or added to it later.
LiveOnOpen == open \/ Empty(status)

\* Nobody waits forever: a seat comes, or the completion job of the next day closes the line.
WaitingEnds ==
    \A b \in Booking : status[b] = "waitlisted" ~> status[b] # "waitlisted"
=============================================================================
