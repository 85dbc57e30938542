-------------------------- MODULE ClassSeatsProofs --------------------------
(***************************************************************************)
(* Proofs about ClassSeats, for any set of sign-ups, members and commands  *)
(* and any capacity.                                                       *)
(*                                                                         *)
(* The argument: until a command goes on behind a former member's lock,    *)
(* those that have decided hold the lock of the member who leads the       *)
(* session (MemberInv), so one of them at a time has decided and not       *)
(* committed (LockInv), and what it decided is still what the roster       *)
(* allows when it commits (PlanInv), since the others that may write then  *)
(* only shorten the line of a class that is over.  What is decided behind  *)
(* the lock of the session's own member keeps within its seats even after  *)
(* others have strayed (RoomInv).                                          *)
(***************************************************************************)
EXTENDS ClassSeats, FiniteSetTheorems, TLAPS

Enters(c) == job[c].kind \in {"add", "join", "book"}

MemberInv == \A c \in Command : Locked(c) => job[c].member = staff

LockInv ==
    /\ \A c \in Command : Locked(c) => job[c] # Idle
    /\ \A c, d \in Command : Locked(c) /\ Locked(d) => c = d

\* A sign-up has no booking before it commits, and no other command makes it one.
EnterInv ==
    /\ \A c \in Command : Enters(c) => status[job[c].of] = "none" /\ came[job[c].of] # 0
    /\ \A c, d \in Command : Enters(c) /\ Enters(d) /\ job[c].of = job[d].of => c = d

\* What a command may have decided, as of now.
EntersNow(c) ==
    /\ Enters(c) /\ (open \/ job[c].of \in late)
    /\ \/ ~Closed(status) /\ plan[c] = Seating(job[c].of)
       \/ /\ Closed(status) \/ hour # "ahead"
          /\ plan[c] = Queueing(job[c].of)

LeavesNow(c) ==
    LET b == job[c].of
        left == Give(status, {b}, "canceled")
        S == plan[c].seat
    IN  /\ ~Enters(c)
        /\ b \in Live(status)
        /\ plan[c].drop = {b} /\ plan[c].wait = {}
        /\ S \subseteq Waiting(left)
        /\ \A x \in S, y \in Waiting(left) \ S : came[x] < came[y]
        /\ S # {} => b \in Taken(status) /\ Cardinality(Taken(left)) + Cardinality(S) <= Capacity
        /\ open /\ hour = "ahead" /\ b \in Taken(status) =>
              Waiting(left) \subseteq S \/ Full(Give(left, S, "confirmed"))
        /\ plan[c].shut => Empty(left)

PromotesNow(c) ==
    /\ ~Enters(c)
    /\ job[c].of \in Waiting(status) /\ ~Full(status)
    /\ plan[c] = Seating(job[c].of)

PlanInv ==
    \A c \in Command : Locked(c) => EntersNow(c) \/ LeavesNow(c) \/ PromotesNow(c)

Seats == Cardinality(Taken(status)) <= Capacity
Served == open /\ hour = "ahead" /\ Waiting(status) # {} => Full(status)
Left == ~open => Live(status) \subseteq late

SeatInv == Seats /\ Served /\ Left

Inv == TypeOK /\ MemberInv /\ LockInv /\ EnterInv /\ PlanInv /\ SeatInv

------------------------------------------------------------------------------
(* What giving bookings a status does to the seats and the line. *)

LEMMA GiveType ==
    ASSUME NEW st \in [Booking -> Status], NEW S, NEW s \in Status
    PROVE  Give(st, S, s) \in [Booking -> Status]
  BY DEF Give

LEMMA GiveSets ==
    ASSUME NEW st \in [Booking -> Status], NEW S \in SUBSET Booking
    PROVE  /\ Taken(Give(st, S, "confirmed")) = Taken(st) \cup S
           /\ Waiting(Give(st, S, "confirmed")) = Waiting(st) \ S
           /\ Taken(Give(st, S, "canceled")) = Taken(st) \ S
           /\ Waiting(Give(st, S, "canceled")) = Waiting(st) \ S
           /\ Taken(Give(st, S, "waitlisted")) = Taken(st) \ S
           /\ Waiting(Give(st, S, "waitlisted")) = Waiting(st) \cup S
  BY DEF Give, Taken, Waiting

LEMMA GiveNobody ==
    ASSUME NEW st \in [Booking -> Status], NEW s
    PROVE  Give(st, {}, s) = st
  BY DEF Give

LEMMA SeatsFinite ==
    ASSUME NEW st
    PROVE  IsFiniteSet(Taken(st)) /\ Cardinality(Taken(st)) \in Nat
<1>1. Taken(st) \in SUBSET Booking
      BY DEF Taken
<1>2. IsFiniteSet(Taken(st))
      BY <1>1, SeatsAssumption, FS_Subset
<1> QED  BY <1>2, FS_CardinalityType

\* A seat that is free can be given to one more.
LEMMA OneMore ==
    ASSUME NEW st, NEW b, ~Full(st)
    PROVE  Cardinality(Taken(st) \cup {b}) <= Capacity
<1>1. Cardinality(Taken(st)) < Capacity
      BY SeatsFinite, SeatsAssumption DEF Full
<1>2. Cardinality(Taken(st) \cup {b})
         = IF b \in Taken(st) THEN Cardinality(Taken(st)) ELSE Cardinality(Taken(st)) + 1
      BY SeatsFinite, FS_AddElement
<1>3. Cardinality(Taken(st) \cup {b}) \in Nat
      BY SeatsFinite, FS_AddElement, FS_CardinalityType
<1> QED  BY <1>1, <1>2, <1>3, SeatsFinite, SeatsAssumption

\* So can several at once, to people who wait.
LEMMA RoomForBoth ==
    ASSUME NEW st, NEW S \in SUBSET Booking, S \subseteq Waiting(st),
           Cardinality(Taken(st)) + Cardinality(S) <= Capacity
    PROVE  Cardinality(Taken(st) \cup S) <= Capacity
<1>1. IsFiniteSet(S) /\ Cardinality(S) \in Nat
      BY SeatsAssumption, FS_Subset, FS_CardinalityType
<1>2. Taken(st) \cap S = {}
      BY DEF Taken, Waiting
<1>3. Cardinality(Taken(st) \cup S)
        = Cardinality(Taken(st)) + Cardinality(S) - Cardinality(Taken(st) \cap S)
      BY <1>1, SeatsFinite, FS_Union
<1>4. Cardinality(Taken(st) \cap S) = 0
      BY <1>2, FS_EmptySet
<1> QED  BY <1>1, <1>3, <1>4, SeatsFinite

\* The next place in the order of sign-ups is a number.
LEMMA NextPlace ==
    ASSUME TypeOK, NEW b \in Booking, came[b] = 0
    PROVE  Cardinality({d \in Booking : came[d] # 0}) + 1 \in 1 .. Cardinality(Booking)
<1> DEFINE D == {d \in Booking : came[d] # 0}
<1>1. D \in SUBSET Booking /\ D # Booking
      OBVIOUS
<1>2. /\ IsFiniteSet(D)
      /\ Cardinality(D) <= Cardinality(Booking)
      /\ Cardinality(D) # Cardinality(Booking)
      BY <1>1, SeatsAssumption, FS_Subset
<1>3. Cardinality(D) \in Nat /\ Cardinality(Booking) \in Nat
      BY <1>2, SeatsAssumption, FS_CardinalityType
<1> HIDE DEF D
<1>4. Cardinality(D) + 1 \in 1 .. Cardinality(Booking)
      BY <1>2, <1>3
<1> QED  BY <1>4 DEF D

------------------------------------------------------------------------------
(* The lock. *)

\* Behind the lock of the session's member no other command has decided and not committed.
LEMMA NobodyElse ==
    ASSUME Inv, NEW c \in Command, Lock(c), ~Stray(c)
    PROVE  \A d \in Command : plan[d] = NoPlan
  BY DEF Inv, MemberInv, Lock, Locked, Free, Stray

\* Nothing is decided where the session can be moved or called off.
LEMMA NothingDecided ==
    ASSUME Inv, Free(staff)
    PROVE  \A c \in Command : ~Locked(c)
  BY DEF Inv, MemberInv, Free

LEMMA IdleEntersNothing ==
    ASSUME NEW c, job[c] = Idle
    PROVE  ~Enters(c)
  BY DEF Enters, Idle

LEMMA JobType ==
    ASSUME TypeOK, NEW c \in Command, job[c] # Idle
    PROVE  job[c] \in Job /\ job[c].of \in Booking /\ job[c].kind \in Kind /\ job[c].member \in Member
  BY DEF TypeOK, Job

------------------------------------------------------------------------------
LEMMA TypeInit == Init => TypeOK
<1> SUFFICES ASSUME Init PROVE TypeOK
    OBVIOUS
<1>1. status \in [Booking -> Status]
      BY DEF Init, Status
<1>2. Cardinality(Booking) \in Nat
      BY SeatsAssumption, FS_CardinalityType
<1>3. came \in [Booking -> 0 .. Cardinality(Booking)]
      BY <1>2 DEF Init
<1>4. plan \in [Command -> Plan]
      BY DEF Init, NoPlan, Plan
<1> QED  BY <1>1, <1>3, <1>4 DEF Init, TypeOK

LEMMA TypeStep == TypeOK /\ [Next]_vars => TypeOK'
<1> SUFFICES ASSUME TypeOK, [Next]_vars PROVE TypeOK'
    OBVIOUS
<1>1. ASSUME NEW c \in Command, NEW k \in Kind, NEW b \in Booking, Start(c, k, b),
             came' \in [Booking -> 0 .. Cardinality(Booking)]
      PROVE  TypeOK'
  <2>1. [kind |-> k, of |-> b, member |-> staff] \in Job
        BY DEF TypeOK, Job
  <2> QED  BY <1>1, <2>1 DEF TypeOK, Start, session
<1>2. ASSUME NEW c \in Command, NEW p \in Plan, Decide(c, p)
      PROVE  TypeOK'
  BY <1>2 DEF TypeOK, Decide, session, Rows, Plan
<1>3. ASSUME NEW c \in Command, NEW k \in Kind, NEW b \in Booking, SignUp(c, k, b)
      PROVE  TypeOK'
  <2> DEFINE n == Cardinality({d \in Booking : came[d] # 0}) + 1
  <2>1. n \in 1 .. Cardinality(Booking)
        BY <1>3, NextPlace DEF SignUp
  <2> HIDE DEF n
  <2>2. n \in 0 .. Cardinality(Booking)
        BY <2>1
  <2> USE DEF n
  <2>3. came' \in [Booking -> 0 .. Cardinality(Booking)]
        BY <1>3, <2>2 DEF SignUp, TypeOK
  <2> QED  BY <1>3, <2>3, <1>1 DEF SignUp
<1>4. ASSUME NEW c \in Command, NEW k \in Kind, NEW b \in Booking, Change(c, k, b)
      PROVE  TypeOK'
  BY <1>4, <1>1 DEF Change, TypeOK
<1>5. ASSUME NEW c \in Command, Enter(c)
      PROVE  TypeOK'
  <2>1. job[c].of \in Booking
        BY <1>5, JobType DEF Enter, Lock, Loaded
  <2>2. Seating(job[c].of) \in Plan /\ Queueing(job[c].of) \in Plan
        BY <2>1 DEF Seating, Queueing, Plan
  <2> QED  BY <1>5, <2>2, <1>2 DEF Enter
<1>6. ASSUME NEW c \in Command, NEW S \in SUBSET Waiting(status), Leave(c, S)
      PROVE  TypeOK'
  <2> DEFINE b == job[c].of
             p == [seat |-> S, wait |-> {}, drop |-> {b},
                   shut |-> ~laid /\ Empty(Give(status, {b}, "canceled"))]
  <2>1. b \in Booking
        BY <1>6, JobType DEF Leave, Lock, Loaded
  <2>2. S \subseteq Booking
        BY DEF Waiting
  <2>3. p \in Plan
        BY <2>1, <2>2 DEF Plan
  <2>4. Decide(c, p)
        BY <1>6 DEF Leave
  <2> QED  BY <2>3, <2>4, <1>2
<1>7. ASSUME NEW c \in Command, Promote(c)
      PROVE  TypeOK'
  <2>1. job[c].of \in Booking
        BY <1>7, JobType DEF Promote, Lock, Loaded
  <2>2. Seating(job[c].of) \in Plan
        BY <2>1 DEF Seating, Plan
  <2> QED  BY <1>7, <2>2, <1>2 DEF Promote
<1>8. ASSUME NEW c \in Command, Refuse(c)
      PROVE  TypeOK'
  BY <1>8 DEF TypeOK, Refuse, session
<1>9. ASSUME NEW c \in Command, Commit(c)
      PROVE  TypeOK'
  <2>1. After(status, plan[c]) \in [Booking -> Status]
        BY GiveType DEF TypeOK, After, Status
  <2>2. NoPlan \in Plan
        BY DEF NoPlan, Plan
  <2>3. open' \in BOOLEAN
        BY <1>9 DEF Commit
  <2>4. plan' \in [Command -> Plan]
        BY <1>9, <2>2 DEF TypeOK, Commit
  <2>5. job' \in [Command -> Job \cup {Idle}]
        BY <1>9 DEF TypeOK, Commit
  <2> QED  BY <1>9, <2>1, <2>3, <2>4, <2>5 DEF TypeOK, Commit
<1>10. ASSUME NEW m \in Member, Reassign(m)
       PROVE  TypeOK'
  BY <1>10 DEF TypeOK, Reassign
<1>11. CASE CallOff
  <2>1. status' \in [Booking -> Status]
        BY <1>11, GiveType DEF CallOff, TypeOK, Status
  <2> QED  BY <1>11, <2>1 DEF TypeOK, CallOff
<1>12. CASE Pass
  BY <1>12 DEF TypeOK, Pass, session
<1>13. ASSUME NEW b \in Booking, CloseWaitlist(b)
       PROVE  TypeOK'
  <2>1. status' \in [Booking -> Status]
        BY <1>13, GiveType DEF CloseWaitlist, TypeOK, Status
  <2> QED  BY <1>13, <2>1 DEF TypeOK, CloseWaitlist, session
<1>14. CASE UNCHANGED vars
  BY <1>14 DEF TypeOK, vars, session
<1> QED
  BY <1>3, <1>4, <1>5, <1>6, <1>7, <1>8, <1>9, <1>10, <1>11, <1>12, <1>13, <1>14 DEF Next, Serve

------------------------------------------------------------------------------
LEMMA InvInit == Init => Inv
<1> SUFFICES ASSUME Init PROVE Inv
    OBVIOUS
<1>1. \A c \in Command : ~Locked(c) /\ ~Loaded(c) /\ ~Enters(c) /\ job[c] = Idle
      BY IdleEntersNothing DEF Init, Locked, Loaded
<1>2. Waiting(status) = {}
      BY DEF Init, Waiting
<1>3. SeatInv
      BY <1>2 DEF Init, SeatInv, Seats, Served, Left
<1> QED  BY <1>1, <1>3, TypeInit DEF Inv, MemberInv, LockInv, EnterInv, PlanInv

------------------------------------------------------------------------------
(* Commands begin, decide and are refused. *)

LEMMA SameSeats ==
    ASSUME SeatInv, status' = status, open' = open, hour' = hour \/ hour' # "ahead",
           late \subseteq late'
    PROVE  SeatInv'
  BY DEF SeatInv, Seats, Served, Left, Taken, Waiting, Live, Full, Empty

\* A decision stands while the roster, and the places of those who wait, stay as they are.
LEMMA PlanStays ==
    ASSUME NEW c \in Command, TypeOK, Locked(c) => EntersNow(c) \/ LeavesNow(c) \/ PromotesNow(c),
           job[c] # Idle,
           status' = status, open' = open, hour' = hour \/ hour' # "ahead", late \subseteq late',
           job'[c] = job[c], plan'[c] = plan[c],
           \A x \in Waiting(status) : came'[x] = came[x]
    PROVE  Locked(c)' => EntersNow(c)' \/ LeavesNow(c)' \/ PromotesNow(c)'
<1> SUFFICES ASSUME Locked(c)' PROVE EntersNow(c)' \/ LeavesNow(c)' \/ PromotesNow(c)'
    OBVIOUS
<1>1. Locked(c)
      BY DEF Locked
<1>2. CASE EntersNow(c)
  <2>1. EntersNow(c)'
        BY <1>2 DEF EntersNow, Enters, Closed, Full, Taken, Waiting
  <2> QED  BY <2>1
<1>3. CASE LeavesNow(c)
  <2> DEFINE left == Give(status, {job[c].of}, "canceled")
  <2>1. left' = left
        BY DEF Give
  <2>2. Waiting(left)' = Waiting(left) /\ Taken(left)' = Taken(left)
        BY <2>1 DEF Waiting, Taken
  <2>3. Waiting(left) \subseteq Waiting(status)
        BY JobType, GiveSets DEF TypeOK
  <2>4. Full(Give(left, plan[c].seat, "confirmed")) => Full(Give(left, plan[c].seat, "confirmed"))'
        BY <2>1 DEF Full, Taken, Give
  <2>5. (job[c].of \in Live(status))' /\ (job[c].of \in Taken(status) <=> (job[c].of \in Taken(status))')
        BY <1>3 DEF LeavesNow, Live, Taken, Waiting
  <2>6. ~Enters(c)'
        BY <1>3 DEF LeavesNow, Enters
  <2>7. Empty(left) => Empty(left)'
        BY <2>1 DEF Empty, Live, Taken, Waiting
  <2>8. \A x \in plan[c].seat, y \in Waiting(left) \ plan[c].seat : came'[x] < came'[y]
        BY <1>3, <2>3 DEF LeavesNow
  <2>9. LeavesNow(c)'
        BY <1>3, <2>1, <2>2, <2>4, <2>5, <2>6, <2>7, <2>8 DEF LeavesNow
  <2> QED  BY <2>9
<1>4. CASE PromotesNow(c)
  <2>1. PromotesNow(c)'
        BY <1>4 DEF PromotesNow, Enters, Full, Taken, Waiting
  <2> QED  BY <2>1
<1> QED  BY <1>1, <1>2, <1>3, <1>4

\* A command begins: for a sign-up that has its place now, or for a booking that is there.
LEMMA Begins ==
    ASSUME Inv, NEW c \in Command, NEW k \in Kind, NEW b \in Booking,
           SignUp(c, k, b) \/ Change(c, k, b)
    PROVE  Inv'
<1> USE DEF Inv
<1>1. /\ Start(c, k, b)
      /\ k \in {"add", "join", "book"} =>
            /\ status[b] = "none" /\ came[b] = 0
            /\ came' = [came EXCEPT ![b] = Cardinality({d \in Booking : came[d] # 0}) + 1]
      /\ k \notin {"add", "join", "book"} => came' = came
      BY DEF SignUp, Change
<1>2. /\ status' = status /\ open' = open /\ hour' = hour /\ plan' = plan
      /\ staff' = staff /\ late' = late
      /\ job[c] = Idle
      /\ job'[c] = [kind |-> k, of |-> b, member |-> staff]
      /\ \A d \in Command \ {c} : job'[d] = job[d]
      BY <1>1 DEF Start, session, TypeOK
<1>3. ~Locked(c)
      BY <1>2 DEF LockInv
<1>4. MemberInv'
      BY <1>2, <1>3 DEF MemberInv, Locked
<1>5. LockInv'
      BY <1>2, <1>3 DEF LockInv, Locked
<1>6. \A x \in Booking : came[x] # 0 \/ status[x] # "none" => came'[x] = came[x]
      BY <1>1 DEF TypeOK
<1>7. k \in {"add", "join", "book"} => came'[b] # 0
  <2>1. SUFFICES ASSUME k \in {"add", "join", "book"} PROVE came'[b] # 0
        OBVIOUS
  <2>2. came'[b] = Cardinality({d \in Booking : came[d] # 0}) + 1
        BY <1>1, <2>1 DEF TypeOK
  <2>3. came'[b] \in 1 .. Cardinality(Booking)
        BY <1>1, <2>1, <2>2, NextPlace
  <2>4. Cardinality(Booking) \in Nat
        BY SeatsAssumption, FS_CardinalityType
  <2> QED  BY <2>3, <2>4
<1>8. EnterInv'
  <2>1. \A d \in Command \ {c} : Enters(d)' => Enters(d) /\ job'[d].of = job[d].of
        BY <1>2 DEF Enters
  <2>2. \A d \in Command : Enters(d) => job[d].of \in Booking
        BY JobType, IdleEntersNothing
  <2>3. Enters(c)' => k \in {"add", "join", "book"} /\ job'[c].of = b
        BY <1>2 DEF Enters
  <2>4. \A d \in Command : Enters(d)' => status'[job'[d].of] = "none" /\ came'[job'[d].of] # 0
        BY <1>1, <1>2, <1>6, <1>7, <2>1, <2>2, <2>3 DEF EnterInv
  <2>5. Enters(c)' => \A d \in Command \ {c} : Enters(d)' => job'[d].of # b
        BY <1>1, <2>1, <2>3 DEF EnterInv
  <2>6. \A d, e \in Command : Enters(d)' /\ Enters(e)' /\ job'[d].of = job'[e].of => d = e
        BY <2>1, <2>3, <2>5 DEF EnterInv
  <2> QED  BY <2>4, <2>6 DEF EnterInv
<1>10. PlanInv'
  <2>1. \A x \in Waiting(status) : came'[x] = came[x]
        BY <1>6 DEF Waiting
  <2>2. ASSUME NEW d \in Command, Locked(d)'
        PROVE  EntersNow(d)' \/ LeavesNow(d)' \/ PromotesNow(d)'
    <3>1. Locked(d) /\ d # c
          BY <1>2, <1>3, <2>2 DEF Locked
    <3>2. job[d] # Idle /\ (EntersNow(d) \/ LeavesNow(d) \/ PromotesNow(d))
          BY <3>1 DEF LockInv, PlanInv
    <3> QED  BY <1>2, <2>1, <2>2, <3>1, <3>2, PlanStays
  <2> QED  BY <2>2 DEF PlanInv
<1>11. SeatInv'
       BY <1>2, SameSeats
<1>12. TypeOK'
       BY TypeStep DEF Next
<1> QED  BY <1>4, <1>5, <1>8, <1>10, <1>11, <1>12

\* A command decides behind the lock of the session's member.
LEMMA Decides ==
    ASSUME Inv, NEW c \in Command, Lock(c), NEW p \in Plan, p # NoPlan, Decide(c, p), ~Stray(c),
           EntersNow(c)' \/ LeavesNow(c)' \/ PromotesNow(c)',
           TypeOK'
    PROVE  Inv'
<1> USE DEF Inv
<1>1. /\ status' = status /\ came' = came /\ open' = open /\ staff' = staff /\ hour' = hour
      /\ job' = job /\ late \subseteq late'
      /\ plan'[c] = p
      /\ \A d \in Command \ {c} : plan'[d] = NoPlan
      BY NobodyElse DEF Decide, session, TypeOK
<1>2. job[c] # Idle /\ job[c].member = staff
      BY DEF Lock, Loaded, Stray
<1>3. MemberInv' /\ LockInv'
      BY <1>1, <1>2 DEF MemberInv, LockInv, Locked
<1>4. EnterInv'
      BY <1>1 DEF EnterInv, Enters
<1>5. PlanInv'
      BY <1>1 DEF PlanInv, Locked
<1>6. SeatInv'
      BY <1>1, SameSeats
<1> QED  BY <1>3, <1>4, <1>5, <1>6

\* A command that strays leaves a mark.
LEMMA NoStray ==
    ASSUME NEW c \in Command, NEW p, Decide(c, p), Rows(p) # {}, strays' = {}
    PROVE  ~Stray(c)
  BY DEF Decide

LEMMA EnterKeepsInv ==
    ASSUME Inv, strays' = {}, NEW c \in Command, Enter(c)
    PROVE  Inv'
<1> USE DEF Inv
<1> DEFINE b == job[c].of
<1>1. Lock(c) /\ Loaded(c) /\ job[c] # Idle /\ b \in Booking
      BY JobType DEF Enter, Lock, Loaded
<1>2. /\ Seating(b) \in Plan /\ Seating(b) # NoPlan /\ Rows(Seating(b)) = {b}
      /\ Queueing(b) \in Plan /\ Queueing(b) # NoPlan /\ Rows(Queueing(b)) = {b}
      BY <1>1 DEF Seating, Queueing, Plan, NoPlan, Rows
<1>3. TypeOK'
      BY TypeStep DEF Next, Serve
<1>4. CASE SeatNow(c) /\ Decide(c, Seating(b))
  <2>1. Enters(c) /\ (open \/ job[c].kind = "add")
        BY <1>4 DEF SeatNow, Enters
  <2>2. /\ status' = status /\ open' = open /\ job' = job
        /\ plan'[c] = Seating(b) /\ (open \/ b \in late')
        BY <1>2, <1>4, <2>1 DEF Decide, session, TypeOK
  <2>3. EntersNow(c)'
        BY <1>4, <2>1, <2>2 DEF EntersNow, Enters, SeatNow, Closed, Full, Taken, Waiting
  <2> QED  BY <1>1, <1>2, <1>3, <1>4, <2>3, Decides, NoStray
<1>5. CASE WaitNow(c) /\ Decide(c, Queueing(b))
  <2>1. Enters(c) /\ job[c].kind \in {"add", "join"} /\ Closed(status)
        BY <1>5 DEF WaitNow, Enters
  <2>2. /\ status' = status /\ open' = open /\ job' = job
        /\ plan'[c] = Queueing(b) /\ (open \/ b \in late')
        BY <1>2, <1>5, <2>1 DEF Decide, session, TypeOK
  <2>3. EntersNow(c)'
        BY <2>1, <2>2 DEF EntersNow, Enters, Closed, Full, Taken, Waiting
  <2> QED  BY <1>1, <1>2, <1>3, <1>5, <2>3, Decides, NoStray
<1> QED  BY <1>4, <1>5 DEF Enter

LEMMA LeaveKeepsInv ==
    ASSUME Inv, strays' = {}, NEW c \in Command, NEW S \in SUBSET Waiting(status), Leave(c, S)
    PROVE  Inv'
<1> USE DEF Inv
<1> DEFINE b == job[c].of
           left == Give(status, {b}, "canceled")
           p == [seat |-> S, wait |-> {}, drop |-> {b}, shut |-> ~laid /\ Empty(left)]
<1>1. Lock(c) /\ Loaded(c) /\ job[c] # Idle /\ b \in Booking
      BY JobType DEF Leave, Lock, Loaded
<1>2. /\ Decide(c, p)
      /\ b \in Live(status)
      /\ ~Enters(c)
      BY DEF Leave, Leaves, MayWithdraw, Live, Enters
<1>3. p \in Plan /\ p # NoPlan /\ Rows(p) # {}
      BY <1>1 DEF Plan, NoPlan, Waiting, Rows
<1>4. TypeOK'
      BY TypeStep DEF Next, Serve
<1>6. b \in Taken(status) /\ open /\ hour = "ahead" => Filling(left, S)
      BY DEF Leave
<1>7. ~(b \in Taken(status) /\ open /\ hour = "ahead") => S = {}
      BY DEF Leave
<1>8. /\ S \subseteq Waiting(left)
      /\ \A x \in S, y \in Waiting(left) \ S : came[x] < came[y]
      /\ S # {} => b \in Taken(status) /\ Cardinality(Taken(left)) + Cardinality(S) <= Capacity
      /\ open /\ hour = "ahead" /\ b \in Taken(status) =>
              Waiting(left) \subseteq S \/ Full(Give(left, S, "confirmed"))
      BY <1>6, <1>7 DEF Filling
<1>9. /\ status' = status /\ came' = came /\ open' = open /\ hour' = hour /\ job' = job
      /\ plan'[c] = p
      BY <1>2 DEF Decide, session, TypeOK
<1>10. LeavesNow(c)'
  <2>1. left' = left
        BY <1>9 DEF Give
  <2>2. /\ Waiting(left)' = Waiting(left) /\ Taken(left)' = Taken(left)
        /\ Taken(status)' = Taken(status) /\ Live(status)' = Live(status)
        BY <1>9, <2>1 DEF Waiting, Taken, Live
  <2>3. /\ Full(Give(left, S, "confirmed"))' = Full(Give(left, S, "confirmed"))
        /\ Empty(left)' = Empty(left)
    <3>1. Full(Give(left, S, "confirmed"))' = Full(Give(left, S, "confirmed"))
          BY <2>1 DEF Full, Taken, Give
    <3>2. Empty(left)' = Empty(left)
          BY <2>1 DEF Empty, Live
    <3> QED  BY <3>1, <3>2
  <2>4. /\ plan'[c].seat = S /\ plan'[c].drop = {b} /\ plan'[c].wait = {}
        BY <1>9
  <2>6. plan'[c].shut => Empty(left)
    <3>1. p.shut = (~laid /\ Empty(left))
          OBVIOUS
    <3> HIDE DEF p
    <3> QED  BY <1>9, <3>1
  <2>5. ~Enters(c)'
        BY <1>2, <1>9 DEF Enters
  <2> QED  BY <1>2, <1>8, <1>9, <2>1, <2>2, <2>3, <2>4, <2>5, <2>6 DEF LeavesNow
<1> QED  BY <1>1, <1>2, <1>3, <1>4, <1>10, Decides, NoStray

LEMMA PromoteKeepsInv ==
    ASSUME Inv, strays' = {}, NEW c \in Command, Promote(c)
    PROVE  Inv'
<1> USE DEF Inv
<1> DEFINE b == job[c].of
<1>1. Lock(c) /\ job[c] # Idle /\ b \in Booking
      BY JobType DEF Promote, Lock, Loaded
<1>2. Seating(b) \in Plan /\ Seating(b) # NoPlan /\ Rows(Seating(b)) # {}
      BY <1>1 DEF Seating, Plan, NoPlan, Rows
<1>3. TypeOK'
      BY TypeStep DEF Next, Serve
<1>4. status' = status /\ job' = job /\ plan'[c] = Seating(b)
      BY DEF Promote, Decide, session, TypeOK
<1>5. PromotesNow(c)'
      BY <1>4 DEF PromotesNow, Promote, Promotes, Enters, Full, Taken, Waiting
<1> QED  BY <1>1, <1>2, <1>3, <1>5, Decides, NoStray DEF Promote

LEMMA RefuseKeepsInv ==
    ASSUME Inv, NEW c \in Command, Refuse(c)
    PROVE  Inv'
<1> USE DEF Inv
<1>1. ~Locked(c)
      BY DEF Refuse, Lock, Loaded, Locked
<1>2. /\ status' = status /\ came' = came /\ open' = open /\ staff' = staff /\ hour' = hour
      /\ plan' = plan /\ late' = late
      /\ job'[c] = Idle
      /\ \A d \in Command \ {c} : job'[d] = job[d]
      BY DEF Refuse, session, TypeOK
<1>3. MemberInv' /\ LockInv'
      BY <1>1, <1>2 DEF MemberInv, LockInv, Locked
<1>4. ~Enters(c)' /\ \A d \in Command \ {c} : Enters(d)' => Enters(d)
      BY <1>2 DEF Enters, Idle
<1>5. EnterInv'
      BY <1>2, <1>4 DEF EnterInv
<1>6. ASSUME NEW d \in Command, Locked(d)'
      PROVE  EntersNow(d)' \/ LeavesNow(d)' \/ PromotesNow(d)'
  <2>1. Locked(d) /\ d # c
        BY <1>1, <1>2, <1>6 DEF Locked
  <2>2. job[d] # Idle /\ (EntersNow(d) \/ LeavesNow(d) \/ PromotesNow(d))
        BY <2>1 DEF LockInv, PlanInv
  <2> QED  BY <1>2, <1>6, <2>1, <2>2, PlanStays
<1>7. SeatInv' /\ TypeOK'
      BY <1>2, SameSeats, TypeStep DEF Next, Serve
<1> QED  BY <1>3, <1>5, <1>6, <1>7 DEF PlanInv

------------------------------------------------------------------------------
(* A command commits. *)

\* What it writes: a seat, a place in the line, a cancellation with the seats it gives on.
LEMMA CommitEffect ==
    ASSUME Inv, NEW c \in Command, Commit(c)
    PROVE  LET b == job[c].of
               left == Give(status, {b}, "canceled")
           IN  \/ /\ EntersNow(c) /\ ~Closed(status)
                  /\ status' = Give(status, {b}, "confirmed") /\ open' = open
               \/ /\ EntersNow(c) /\ (Closed(status) \/ hour # "ahead")
                  /\ status' = Give(status, {b}, "waitlisted") /\ open' = open
               \/ /\ LeavesNow(c)
                  /\ status' = Give(left, plan[c].seat, "confirmed")
                  /\ open' = (open /\ ~plan[c].shut)
               \/ /\ PromotesNow(c)
                  /\ status' = Give(status, {b}, "confirmed") /\ open' = open
<1> USE DEF Inv
<1> DEFINE b == job[c].of
           left == Give(status, {b}, "canceled")
<1>1. /\ EntersNow(c) \/ LeavesNow(c) \/ PromotesNow(c)
      /\ status' = After(status, plan[c])
      /\ open' = (open /\ ~plan[c].shut)
      /\ status \in [Booking -> Status]
      /\ open \in BOOLEAN
      BY DEF Commit, PlanInv, TypeOK
<1>2. ASSUME plan[c] = Seating(b)
      PROVE  status' = Give(status, {b}, "confirmed") /\ open' = open
  <2>1. /\ plan[c].drop = {} /\ plan[c].wait = {} /\ plan[c].seat = {b}
        /\ plan[c].shut = FALSE
        BY <1>2 DEF Seating
  <2>2. After(status, plan[c]) = Give(status, {b}, "confirmed")
        BY <1>1, <2>1, GiveNobody DEF After
  <2> QED  BY <1>1, <2>1, <2>2
<1>3. ASSUME plan[c] = Queueing(b)
      PROVE  status' = Give(status, {b}, "waitlisted") /\ open' = open
  <2>1. /\ plan[c].drop = {} /\ plan[c].wait = {b} /\ plan[c].seat = {}
        /\ plan[c].shut = FALSE
        BY <1>3 DEF Queueing
  <2>2. Give(status, {b}, "waitlisted") \in [Booking -> Status]
        BY <1>1, GiveType DEF Status
  <2>3. After(status, plan[c]) = Give(status, {b}, "waitlisted")
        BY <1>1, <2>1, <2>2, GiveNobody DEF After
  <2> QED  BY <1>1, <2>1, <2>3
<1>4. ASSUME LeavesNow(c)
      PROVE  status' = Give(left, plan[c].seat, "confirmed")
  <2>1. plan[c].drop = {b} /\ plan[c].wait = {}
        BY <1>4 DEF LeavesNow
  <2>2. left \in [Booking -> Status]
        BY <1>1, GiveType DEF Status
  <2>3. After(status, plan[c]) = Give(left, plan[c].seat, "confirmed")
        BY <2>1, <2>2, GiveNobody DEF After
  <2> QED  BY <1>1, <2>3
<1>5. CASE EntersNow(c)
  BY <1>2, <1>3, <1>5 DEF EntersNow
<1>6. CASE LeavesNow(c)
  BY <1>1, <1>4, <1>6
<1>7. CASE PromotesNow(c)
  BY <1>2, <1>7 DEF PromotesNow
<1> QED  BY <1>1, <1>5, <1>6, <1>7

LEMMA CommitKeepsSeats ==
    ASSUME Inv, NEW c \in Command, Commit(c)
    PROVE  SeatInv'
<1> USE DEF Inv
<1> DEFINE b == job[c].of
           left == Give(status, {b}, "canceled")
           S == plan[c].seat
<1>1. b \in Booking /\ {b} \in SUBSET Booking
      BY JobType DEF Commit, LockInv
<1>2. status \in [Booking -> Status] /\ hour' = hour /\ late' = late
      BY DEF TypeOK, Commit
<1>3. CASE /\ EntersNow(c) /\ ~Closed(status)
           /\ status' = Give(status, {b}, "confirmed") /\ open' = open
  <2>1. Taken(status') = Taken(status) \cup {b} /\ Waiting(status') = {} /\ Waiting(status) = {}
        BY <1>1, <1>2, <1>3, GiveSets DEF Closed
  <2>2. Cardinality(Taken(status')) <= Capacity
        BY <1>3, <2>1, OneMore DEF Closed
  <2>3. Left'
        BY <1>2, <1>3, <2>1 DEF EntersNow, SeatInv, Left, Live
  <2> QED  BY <2>1, <2>2, <2>3 DEF SeatInv, Seats, Served
<1>4. CASE /\ EntersNow(c) /\ (Closed(status) \/ hour # "ahead")
           /\ status' = Give(status, {b}, "waitlisted") /\ open' = open
  <2>1. status[b] = "none"
        BY <1>4 DEF EntersNow, EnterInv
  <2>2. Taken(status') = Taken(status)
        BY <1>1, <1>2, <1>4, <2>1, GiveSets DEF Taken
  <2>3. Full(status) => Full(status')
        BY <2>2 DEF Full
  <2>4. open /\ hour = "ahead" => Full(status)
        BY <1>4 DEF Closed, SeatInv, Served
  <2>5. Left'
    <3>1. Waiting(status') = Waiting(status) \cup {b}
          BY <1>1, <1>2, <1>4, GiveSets
    <3> QED  BY <1>2, <1>4, <2>2, <3>1 DEF EntersNow, SeatInv, Left, Live
  <2> QED  BY <1>2, <1>4, <2>2, <2>3, <2>4, <2>5 DEF SeatInv, Seats, Served
<1>5. CASE /\ LeavesNow(c)
           /\ status' = Give(left, S, "confirmed")
           /\ open' = (open /\ ~plan[c].shut)
  <2>1. left \in [Booking -> Status]
        BY <1>2, GiveType DEF Status
  <2>2. S \subseteq Waiting(left) /\ S \in SUBSET Booking
        BY <1>5 DEF LeavesNow, Waiting
  <2>3. Taken(left) = Taken(status) \ {b} /\ Waiting(left) = Waiting(status) \ {b}
        BY <1>1, <1>2, GiveSets
  <2>4. Taken(status') = Taken(left) \cup S /\ Waiting(status') = Waiting(left) \ S
        BY <1>5, <2>1, <2>2, GiveSets
  <2>5. Seats'
    <3>1. CASE S = {}
      <4>1. Taken(status') \in SUBSET Taken(status)
            BY <2>3, <2>4, <3>1
      <4>2. /\ Cardinality(Taken(status')) <= Cardinality(Taken(status))
            /\ Cardinality(Taken(status')) \in Nat /\ Cardinality(Taken(status)) \in Nat
            BY <4>1, SeatsFinite, FS_Subset
      <4>3. Cardinality(Taken(status)) <= Capacity
            BY DEF SeatInv, Seats
      <4> QED  BY <4>2, <4>3, SeatsAssumption DEF Seats
    <3>2. CASE S # {}
      <4>1. Cardinality(Taken(left)) + Cardinality(S) <= Capacity
            BY <1>5, <3>2 DEF LeavesNow
      <4>2. Cardinality(Taken(left) \cup S) <= Capacity
            BY <2>2, <4>1, RoomForBoth
      <4> QED  BY <2>4, <4>2 DEF Seats
    <3> QED  BY <3>1, <3>2
  <2>6. Served'
    <3>1. SUFFICES ASSUME open, hour = "ahead", Waiting(status') # {} PROVE Full(status')
          BY <1>2, <1>5 DEF Served
    <3>2. CASE b \in Taken(status)
      BY <1>5, <2>4, <3>1, <3>2 DEF LeavesNow
    <3>3. CASE b \notin Taken(status)
      <4>1. S = {}
            BY <1>5, <3>3 DEF LeavesNow
      <4>2. Taken(status') = Taken(status) /\ Waiting(status) # {}
            BY <2>3, <2>4, <3>1, <3>3, <4>1
      <4>3. Full(status)
            BY <3>1, <4>2 DEF SeatInv, Served
      <4> QED  BY <4>2, <4>3 DEF Full
    <3> QED  BY <3>2, <3>3
  <2>7. Left'
    <3>1. Live(status') \subseteq Live(status)
          BY <2>2, <2>3, <2>4 DEF Live
    <3>2. plan[c].shut => Empty(left)
          BY <1>5 DEF LeavesNow
    <3>3. Empty(left) => Live(status') = {}
          BY <2>2, <2>4 DEF Empty, Live
    <3> QED  BY <1>2, <1>5, <3>1, <3>2, <3>3 DEF SeatInv, Left
  <2> QED  BY <2>5, <2>6, <2>7 DEF SeatInv
<1>6. CASE /\ PromotesNow(c)
           /\ status' = Give(status, {b}, "confirmed") /\ open' = open
  <2>1. Taken(status') = Taken(status) \cup {b} /\ b \in Waiting(status) /\ ~Full(status)
        BY <1>1, <1>2, <1>6, GiveSets DEF PromotesNow
  <2>2. Cardinality(Taken(status')) <= Capacity
        BY <2>1, OneMore
  <2>3. hour # "ahead" \/ ~open
        BY <2>1 DEF SeatInv, Served
  <2>4. Left'
    <3>1. Waiting(status') = Waiting(status) \ {b}
          BY <1>1, <1>2, <1>6, GiveSets
    <3> QED  BY <1>2, <1>6, <2>1, <3>1 DEF SeatInv, Left, Live
  <2> QED  BY <1>2, <1>6, <2>2, <2>3, <2>4 DEF SeatInv, Seats, Served
<1> QED  BY <1>3, <1>4, <1>5, <1>6, CommitEffect

LEMMA CommitKeepsInv ==
    ASSUME Inv, NEW c \in Command, Commit(c)
    PROVE  Inv'
<1> USE DEF Inv
<1> DEFINE b == job[c].of
           left == Give(status, {b}, "canceled")
           S == plan[c].seat
<1>1. /\ came' = came /\ staff' = staff /\ hour' = hour
      /\ open' = (open /\ ~plan[c].shut)
      /\ job'[c] = Idle /\ \A d \in Command \ {c} : job'[d] = job[d]
      /\ \A d \in Command : plan'[d] = NoPlan
      /\ \A d \in Command \ {c} : plan[d] = NoPlan
  <2>1. \A d \in Command \ {c} : plan[d] = NoPlan
        BY DEF Commit, LockInv, Locked
  <2> QED  BY <2>1 DEF Commit, TypeOK
<1>2. MemberInv' /\ LockInv' /\ PlanInv'
      BY <1>1 DEF MemberInv, LockInv, PlanInv, Locked
<1>3. ~Enters(c)' /\ \A d \in Command \ {c} : Enters(d)' => Enters(d)
      BY <1>1 DEF Enters, Idle
<1>4. b \in Booking /\ \A d \in Command : Enters(d) => job[d].of \in Booking
      BY JobType, IdleEntersNothing DEF Commit, LockInv
<1>5. status \in [Booking -> Status] /\ left \in [Booking -> Status]
      BY GiveType DEF TypeOK, Status
<1>6. \A x \in Booking : x # b /\ status[x] = "none" => status'[x] = "none"
  <2>1. CASE status' = Give(status, {b}, "confirmed") \/ status' = Give(status, {b}, "waitlisted")
        BY <2>1 DEF Give
  <2>2. CASE LeavesNow(c) /\ status' = Give(left, S, "confirmed")
    <3>1. S \subseteq Waiting(left)
          BY <2>2 DEF LeavesNow
    <3> QED  BY <2>2, <3>1 DEF Give, Waiting
  <2> QED  BY <2>1, <2>2, CommitEffect
<1>7. \A d \in Command \ {c} : Enters(d) => job[d].of # b
  <2>1. ASSUME NEW d \in Command \ {c}, Enters(d), job[d].of = b
        PROVE  FALSE
    <3>1. CASE Enters(c)
          BY <2>1, <3>1 DEF EnterInv
    <3>2. CASE ~Enters(c)
      <4>1. LeavesNow(c) \/ PromotesNow(c)
            BY <3>2 DEF PlanInv, Commit, EntersNow
      <4>2. b \in Live(status)
            BY <4>1 DEF LeavesNow, PromotesNow, Live
      <4> QED  BY <2>1, <4>2 DEF EnterInv, Live, Taken, Waiting
    <3> QED  BY <3>1, <3>2
  <2> QED  BY <2>1
<1>8. EnterInv'
      BY <1>1, <1>3, <1>4, <1>6, <1>7 DEF EnterInv
<1>10. SeatInv' /\ TypeOK'
       BY CommitKeepsSeats, TypeStep DEF Next, Serve
<1> QED  BY <1>2, <1>8, <1>10

------------------------------------------------------------------------------
(* Others. *)

\* With nothing decided only the roster and those who wait to sign up are left to look at.
LEMMA NothingBegun ==
    ASSUME Inv, TypeOK', Free(staff), job' = job, plan' = plan, came' = came, SeatInv',
           \A x \in Booking : status[x] = "none" => status'[x] = "none"
    PROVE  Inv'
<1>1. \A c \in Command : ~Locked(c)'
      BY NothingDecided DEF Locked
<1>2. \A c \in Command : Enters(c)' => Enters(c) /\ job[c].of \in Booking
      BY JobType, IdleEntersNothing DEF Inv, Enters
<1>3. EnterInv'
      BY <1>2 DEF Inv, EnterInv
<1> QED  BY <1>1, <1>3 DEF Inv, MemberInv, LockInv, PlanInv

LEMMA CallOffKeepsSeats ==
    ASSUME Inv, CallOff
    PROVE  SeatInv'
<1>1. status \in [Booking -> Status] /\ Live(status) \in SUBSET Booking
      BY DEF Inv, TypeOK, Live, Taken, Waiting
<1>2. Taken(status') = {} /\ Waiting(status') = {}
      BY <1>1, GiveSets DEF CallOff, Live
<1>3. Cardinality(Taken(status')) <= Capacity
      BY <1>2, FS_EmptySet, SeatsAssumption
<1> QED  BY <1>2, <1>3 DEF SeatInv, Seats, Served, Left, Live

LEMMA PassKeepsInv ==
    ASSUME Inv, Pass
    PROVE  Inv'
<1> USE DEF Inv
<1>1. /\ status' = status /\ came' = came /\ open' = open /\ staff' = staff
      /\ job' = job /\ plan' = plan /\ late' = late /\ hour' # "ahead"
      BY DEF Pass, session
<1>2. MemberInv' /\ LockInv' /\ EnterInv'
      BY <1>1 DEF MemberInv, LockInv, EnterInv, Locked, Enters
<1>4. ASSUME NEW c \in Command, Locked(c)'
      PROVE  EntersNow(c)' \/ LeavesNow(c)' \/ PromotesNow(c)'
  <2>1. Locked(c)
        BY <1>1, <1>4 DEF Locked
  <2>2. job[c] # Idle /\ (EntersNow(c) \/ LeavesNow(c) \/ PromotesNow(c))
        BY <2>1 DEF LockInv, PlanInv
  <2> QED  BY <1>1, <1>4, <2>2, PlanStays
<1>5. SeatInv' /\ TypeOK'
      BY <1>1, SameSeats, TypeStep DEF Next
<1> QED  BY <1>2, <1>4, <1>5 DEF PlanInv

\* The completion job takes people off the line of a class that is over, but none whose row is held.
LEMMA CloseWaitlistKeepsInv ==
    ASSUME Inv, NEW x \in Booking, CloseWaitlist(x)
    PROVE  Inv'
<1> USE DEF Inv
<1>1. /\ came' = came /\ open' = open /\ staff' = staff /\ hour' = hour /\ hour = "over"
      /\ job' = job /\ plan' = plan /\ late' = late
      /\ status' = Give(status, {x}, "canceled")
      /\ status[x] = "waitlisted"
      /\ \A c \in Command : x \notin Rows(plan[c])
      BY DEF CloseWaitlist, session, Waiting, Unheld
<1>2. status \in [Booking -> Status] /\ status' \in [Booking -> Status]
      BY <1>1, GiveType DEF TypeOK, Status
<1>3. /\ status'[x] = "canceled"
      /\ \A y \in Booking \ {x} : status'[y] = status[y]
      BY <1>1 DEF Give
<1>4. Taken(status') = Taken(status) /\ Waiting(status') = Waiting(status) \ {x}
      BY <1>1, <1>3 DEF Taken, Waiting
<1>5. MemberInv' /\ LockInv'
      BY <1>1 DEF MemberInv, LockInv, Locked
<1>7. EnterInv'
  <2>1. \A c \in Command : Enters(c) => job[c].of \in Booking
        BY JobType, IdleEntersNothing
  <2>2. \A c \in Command : Enters(c)' <=> Enters(c)
        BY <1>1 DEF Enters
  <2> QED  BY <1>1, <1>3, <2>1, <2>2 DEF EnterInv
<1>8. SeatInv'
      BY <1>1, <1>4 DEF SeatInv, Seats, Served, Left, Live
<1>9. ASSUME NEW c \in Command, Locked(c)'
      PROVE  EntersNow(c)' \/ LeavesNow(c)' \/ PromotesNow(c)'
  <2> DEFINE b == job[c].of
             left == Give(status, {b}, "canceled")
             S == plan[c].seat
  <2>1. Locked(c) /\ b \in Booking
        BY <1>1, <1>9, JobType DEF Locked, LockInv
  <2>2. CASE EntersNow(c)
    <3>1. Closed(status') => Closed(status)
          BY <1>4 DEF Closed, Full
    <3>2. EntersNow(c)'
          BY <1>1, <2>2, <3>1 DEF EntersNow, Enters
    <3> QED  BY <3>2
  <2>3. CASE LeavesNow(c)
    <3>1. x # b /\ x \notin S
          BY <1>1, <2>3 DEF LeavesNow, Rows
    <3>2. b \in Live(status')
          BY <1>4, <2>3, <3>1 DEF LeavesNow, Live
    <3>3. /\ Taken(left') = Taken(left)
          /\ Waiting(left') = Waiting(left) \ {x}
      <4>1. left' = Give(status', {b}, "canceled")
            BY <1>1
      <4>2. /\ Taken(Give(status', {b}, "canceled")) = Taken(status') \ {b}
            /\ Waiting(Give(status', {b}, "canceled")) = Waiting(status') \ {b}
            BY <1>2, <2>1, GiveSets
      <4>3. Taken(left) = Taken(status) \ {b} /\ Waiting(left) = Waiting(status) \ {b}
            BY <1>2, <2>1, GiveSets
      <4> QED  BY <1>4, <4>1, <4>2, <4>3
    <3>4. Empty(left) => Empty(left')
          BY <3>3 DEF Empty, Live
    <3>5. LeavesNow(c)'
          BY <1>1, <1>4, <2>3, <3>1, <3>2, <3>3, <3>4 DEF LeavesNow, Enters
    <3> QED  BY <3>5
  <2>4. CASE PromotesNow(c)
    <3>1. x # b
          BY <1>1, <2>4 DEF PromotesNow, Seating, Rows
    <3>2. b \in Waiting(status') /\ ~Full(status')
          BY <1>4, <2>4, <3>1 DEF PromotesNow, Full
    <3>3. PromotesNow(c)'
          BY <1>1, <2>4, <3>2 DEF PromotesNow, Enters
    <3> QED  BY <3>3
  <2> QED  BY <2>1, <2>2, <2>3, <2>4 DEF PlanInv
<1>10. TypeOK'
       BY TypeStep DEF Next
<1> QED  BY <1>5, <1>7, <1>8, <1>9, <1>10 DEF PlanInv

LEMMA InvStep == Inv /\ [Next]_vars /\ strays' = {} => Inv'
<1> SUFFICES ASSUME Inv, [Next]_vars, strays' = {} PROVE Inv'
    OBVIOUS
<1>1. ASSUME NEW c \in Command, NEW k \in Kind, NEW b \in Booking, SignUp(c, k, b) \/ Change(c, k, b)
      PROVE  Inv'
  BY <1>1, Begins
<1>2. ASSUME NEW c \in Command, Enter(c) \/ Promote(c) \/ Refuse(c) \/ Commit(c)
      PROVE  Inv'
  BY <1>2, EnterKeepsInv, PromoteKeepsInv, RefuseKeepsInv, CommitKeepsInv
<1>3. ASSUME NEW c \in Command, NEW S \in SUBSET Waiting(status), Leave(c, S)
      PROVE  Inv'
  BY <1>3, LeaveKeepsInv
<1>4. ASSUME NEW m \in Member, Reassign(m)
      PROVE  Inv'
  <2>1. SeatInv'
        BY <1>4, SameSeats DEF Reassign, Inv
  <2> QED  BY <1>4, <2>1, TypeStep, NothingBegun DEF Reassign, Inv
<1>5. CASE CallOff
  <2>1. \A x \in Booking : status[x] = "none" => status'[x] = "none"
        BY <1>5 DEF CallOff, Give, Live, Taken, Waiting
  <2> QED  BY <1>5, <2>1, TypeStep, CallOffKeepsSeats, NothingBegun DEF CallOff, Inv, Next
<1>6. CASE Pass
  BY <1>6, PassKeepsInv
<1>7. ASSUME NEW b \in Booking, CloseWaitlist(b)
      PROVE  Inv'
  BY <1>7, CloseWaitlistKeepsInv
<1>8. CASE UNCHANGED vars
  <2>1. /\ status' = status /\ came' = came /\ open' = open /\ staff' = staff /\ hour' = hour
        /\ job' = job /\ plan' = plan /\ late' = late
        BY <1>8 DEF vars, session
  <2>2. ASSUME NEW c \in Command, Locked(c)'
        PROVE  EntersNow(c)' \/ LeavesNow(c)' \/ PromotesNow(c)'
    <3>1. Locked(c)
          BY <2>1, <2>2 DEF Locked
    <3>2. job[c] # Idle /\ TypeOK /\ (EntersNow(c) \/ LeavesNow(c) \/ PromotesNow(c))
          BY <3>1 DEF LockInv, PlanInv, Inv
    <3> QED  BY <2>1, <2>2, <3>2, PlanStays
  <2>3. MemberInv' /\ LockInv' /\ EnterInv'
        BY <2>1 DEF Inv, MemberInv, LockInv, EnterInv, Locked, Enters
  <2>4. SeatInv' /\ TypeOK'
        BY <2>1, SameSeats, TypeStep DEF Inv
  <2> QED  BY <2>2, <2>3, <2>4 DEF Inv, PlanInv
<1> QED
  BY <1>1, <1>2, <1>3, <1>4, <1>5, <1>6, <1>7, <1>8 DEF Next, Serve

\* What has strayed stays on record.
LEMMA StraysStay == [Next]_vars => strays \subseteq strays'
  BY DEF Next, Serve, SignUp, Change, Start, Enter, Leave, Promote, Decide, Refuse, Commit,
         Reassign, CallOff, Pass, CloseWaitlist, vars

\* Until a command strays the commands are one at a time.
THEOREM Invariance == Spec => [](strays = {} => Inv)
<1>1. Init => (strays = {} => Inv)
      BY InvInit
<1>2. (strays = {} => Inv) /\ [Next]_vars => (strays = {} => Inv)'
      BY InvStep, StraysStay
<1> QED  BY <1>1, <1>2, PTL DEF Spec

\* Every booking, command and decision has its type.
THEOREM TypeCorrect == Spec => []TypeOK
<1> QED  BY TypeInit, TypeStep, PTL DEF Spec

\* fill_freed_seats leaves no seat free before the session while someone waits, until a command
\* goes on behind a former member's lock.
THEOREM SeatsAreGivenOn == Spec => []NoSeatIdle
<1>1. (strays = {} => Inv) => NoSeatIdle
      BY DEF Inv, SeatInv, Served, NoSeatIdle
<1> QED  BY <1>1, Invariance, PTL

\* Nobody is left on a session that is canceled, or books it later, but those whom staff or the
\* waitlist page put there without reading it again behind the lock.
THEOREM CanceledAlwaysEmpties == Spec => []NobodyLeftBehind
<1>1. (strays = {} => Inv) => NobodyLeftBehind
      BY DEF Inv, SeatInv, Left, NobodyLeftBehind
<1> QED  BY <1>1, Invariance, PTL

------------------------------------------------------------------------------
(***************************************************************************)
(* Room, whatever has strayed: a command that holds the lock of the        *)
(* session's member is alone with it, and counts every seat that is taken, *)
(* those given by strays too; the session is not moved while it has        *)
(* decided.                                                                *)
(***************************************************************************)
Fixed(st) == Taken(st) \ strays

\* What a command that has decided will make of the seats that no stray has given.
Fits(c) ==
    /\ job[c].member = staff
    /\ Cardinality((Fixed(status) \ plan[c].drop) \cup plan[c].seat) <= Capacity

RoomInv ==
    /\ NeverOverbooked
    /\ \A c \in Command : Locked(c) => job[c] # Idle /\ (Rows(plan[c]) \subseteq strays \/ Fits(c))
    /\ \A c, d \in Command :
          Locked(c) /\ Locked(d) /\ job[c].member = job[d].member => c = d

Rooms == TypeOK /\ RoomInv

LEMMA Fewer ==
    ASSUME NEW A, NEW B \in SUBSET Booking, A \subseteq B, Cardinality(B) <= Capacity
    PROVE  Cardinality(A) <= Capacity
<1>1. IsFiniteSet(B)
      BY SeatsAssumption, FS_Subset
<1>2. IsFiniteSet(A) /\ Cardinality(A) <= Cardinality(B)
      BY <1>1, FS_Subset
<1> QED  BY <1>1, <1>2, SeatsAssumption, FS_CardinalityType

LEMMA FixedType == Fixed(status) \in SUBSET Booking
  BY DEF Fixed, Taken

LEMMA RoomInit == Init => RoomInv
<1> SUFFICES ASSUME Init PROVE RoomInv
    OBVIOUS
<1>1. Taken(status) \ strays = Taken(status)
      BY DEF Init
<1>2. NeverOverbooked
      BY <1>1 DEF Init, NeverOverbooked
<1> QED  BY <1>2 DEF Init, RoomInv, Locked

\* Room for what another command has decided stays while seats only get fewer.
LEMMA FitsStays ==
    ASSUME TypeOK, NEW c \in Command, Fits(c), Fixed(status)' \subseteq Fixed(status),
           staff' = staff, job'[c] = job[c], plan'[c] = plan[c]
    PROVE  Fits(c)'
<1> DEFINE A == (Fixed(status) \ plan[c].drop) \cup plan[c].seat
<1>1. A \in SUBSET Booking
      BY FixedType DEF TypeOK, Plan
<1>2. A' \subseteq A
      OBVIOUS
<1>3. Cardinality(A) <= Capacity
      BY DEF Fits
<1>4. Cardinality(A') <= Capacity
      BY <1>1, <1>2, <1>3, Fewer
<1> QED  BY <1>4 DEF Fits

LEMMA RoomKept ==
    ASSUME TypeOK, RoomInv, plan' = plan, staff' = staff, strays' = strays,
           \A d \in Command : Locked(d) => job'[d] = job[d],
           Taken(status') \subseteq Taken(status)
    PROVE  RoomInv'
<1>1. Fixed(status)' \subseteq Fixed(status)
      BY DEF Fixed, Taken
<1>2. NeverOverbooked'
      BY <1>1, Fewer, FixedType DEF RoomInv, NeverOverbooked, Fixed
<1>3. \A d \in Command : Locked(d)' => Locked(d)
      BY DEF Locked
<1>4. ASSUME NEW d \in Command, Locked(d)'
      PROVE  job'[d] # Idle /\ ((Rows(plan[d]) \subseteq strays)' \/ Fits(d)')
  <2>1. job'[d] = job[d] /\ job[d] # Idle /\ (Rows(plan[d]) \subseteq strays \/ Fits(d))
        BY <1>3, <1>4 DEF RoomInv
  <2>2. CASE Rows(plan[d]) \subseteq strays
        BY <2>1, <2>2 DEF Rows
  <2>3. CASE Fits(d)
        BY <1>1, <2>1, <2>3, FitsStays
  <2> QED  BY <2>1, <2>2, <2>3
<1> QED  BY <1>2, <1>3, <1>4 DEF RoomInv

LEMMA DecideKeepsRoom ==
    ASSUME TypeOK, RoomInv, NEW c \in Command, Lock(c), NEW p \in Plan, Decide(c, p),
           Cardinality((Taken(status) \ p.drop) \cup p.seat) <= Capacity
                \/ Cardinality((Fixed(status) \ p.drop) \cup p.seat) <= Capacity
    PROVE  RoomInv'
<1>1. /\ status' = status /\ staff' = staff /\ job' = job /\ plan'[c] = p
      /\ \A d \in Command \ {c} : plan'[d] = plan[d]
      /\ strays' = IF Stray(c) THEN strays \cup Rows(p) ELSE strays
      BY DEF Decide, session, TypeOK
<1>2. strays \subseteq strays' /\ Fixed(status)' \subseteq Fixed(status)
      BY <1>1 DEF Fixed, Taken
<1>3. NeverOverbooked'
      BY <1>2, Fewer, FixedType DEF RoomInv, NeverOverbooked, Fixed
<1>4. Cardinality((Fixed(status) \ p.drop) \cup p.seat) <= Capacity
  <2>1. (Taken(status) \ p.drop) \cup p.seat \in SUBSET Booking
        BY DEF Plan, Taken
  <2>2. (Fixed(status) \ p.drop) \cup p.seat \subseteq (Taken(status) \ p.drop) \cup p.seat
        BY DEF Fixed
  <2> QED  BY <2>1, <2>2, Fewer
<1>5. (Rows(plan[c]) \subseteq strays)' \/ Fits(c)'
  <2>1. CASE Stray(c)
        BY <1>1, <2>1 DEF Rows
  <2>2. CASE ~Stray(c)
    <3>1. Fixed(status)' = Fixed(status)
          BY <1>1, <2>2 DEF Fixed, Taken
    <3> QED  BY <1>1, <1>4, <2>2, <3>1 DEF Fits, Stray
  <2> QED  BY <2>1, <2>2
<1>6. \A d \in Command \ {c} : Locked(d)' => Locked(d) /\ job[d].member # job[c].member
      BY <1>1 DEF Locked, Lock, Free
<1>7. ASSUME NEW d \in Command \ {c}, Locked(d)'
      PROVE  job'[d] # Idle /\ ((Rows(plan[d]) \subseteq strays)' \/ Fits(d)')
  <2>1. plan'[d] = plan[d] /\ job'[d] = job[d]
        BY <1>1
  <2>2. job[d] # Idle /\ (Rows(plan[d]) \subseteq strays \/ Fits(d))
        BY <1>6, <1>7 DEF RoomInv
  <2>3. CASE Rows(plan[d]) \subseteq strays
        BY <1>2, <2>1, <2>2, <2>3 DEF Rows
  <2>4. CASE Fits(d)
    <3>1. staff' = staff /\ Fixed(status)' \subseteq Fixed(status)
          BY <1>1, <1>2
    <3>2. Fits(d)'
          BY <2>1, <2>4, <3>1, FitsStays
    <3> QED  BY <2>1, <2>2, <3>2
  <2> QED  BY <2>1, <2>2, <2>3, <2>4
<1>8. job'[c] # Idle
      BY <1>1 DEF Lock, Loaded
<1>9. \A d, e \in Command : Locked(d)' /\ Locked(e)' /\ job'[d].member = job'[e].member => d = e
      BY <1>1, <1>6 DEF RoomInv
<1> QED  BY <1>3, <1>5, <1>7, <1>8, <1>9 DEF RoomInv

LEMMA OneSeat ==
    ASSUME TypeOK, RoomInv, NEW c \in Command, Lock(c), NEW b \in Booking, ~Full(status),
           Decide(c, Seating(b))
    PROVE  RoomInv'
<1>1. PICK p \in Plan : p = Seating(b)
      BY DEF Seating, Plan
<1>2. p.drop = {} /\ p.seat = {b}
      BY <1>1 DEF Seating
<1>3. (Taken(status) \ p.drop) \cup p.seat = Taken(status) \cup {b}
      BY <1>2
<1>4. Cardinality((Taken(status) \ p.drop) \cup p.seat) <= Capacity
      BY <1>3, OneMore
<1> QED  BY <1>1, <1>4, DecideKeepsRoom

LEMMA EnterKeepsRoom ==
    ASSUME TypeOK, RoomInv, NEW c \in Command, Enter(c)
    PROVE  RoomInv'
<1>1. PICK b \in Booking : b = job[c].of
      BY JobType DEF Enter, Lock, Loaded
<1>2. CASE SeatNow(c) /\ Decide(c, Seating(b))
      BY <1>1, <1>2, OneSeat DEF Enter, SeatNow, Closed
<1>3. CASE WaitNow(c) /\ Decide(c, Queueing(b))
  <2>1. PICK p \in Plan : p = Queueing(b)
        BY DEF Queueing, Plan
  <2>2. p.drop = {} /\ p.seat = {}
        BY <2>1 DEF Queueing
  <2>3. (Fixed(status) \ p.drop) \cup p.seat = Fixed(status)
        BY <2>2
  <2>4. Cardinality((Fixed(status) \ p.drop) \cup p.seat) <= Capacity
        BY <2>3 DEF RoomInv, NeverOverbooked, Fixed
  <2> QED  BY <1>3, <2>1, <2>4, DecideKeepsRoom DEF Enter
<1> QED  BY <1>1, <1>2, <1>3 DEF Enter

LEMMA LeaveKeepsRoom ==
    ASSUME TypeOK, RoomInv, NEW c \in Command, NEW S \in SUBSET Waiting(status), Leave(c, S)
    PROVE  RoomInv'
<1>1. PICK b \in Booking : b = job[c].of
      BY JobType DEF Leave, Lock, Loaded
<1>2. PICK left : left = Give(status, {b}, "canceled")
      OBVIOUS
<1>3. S \in SUBSET Booking
      BY DEF Waiting
<1>4. PICK p \in Plan : p = [seat |-> S, wait |-> {}, drop |-> {b}, shut |-> ~laid /\ Empty(left)]
  <2>1. PICK shut \in BOOLEAN : shut = (~laid /\ Empty(left))
        OBVIOUS
  <2>2. [seat |-> S, wait |-> {}, drop |-> {b}, shut |-> shut] \in Plan
        BY <1>3 DEF Plan
  <2> QED  BY <2>1, <2>2
<1>5. Decide(c, p) /\ Lock(c)
      BY <1>1, <1>2, <1>4 DEF Leave
<1>6. p.drop = {b} /\ p.seat = S
      BY <1>4
<1>7. CASE S = {}
  <2>1. (Fixed(status) \ p.drop) \cup p.seat \subseteq Fixed(status)
        BY <1>6, <1>7
  <2>2. Cardinality((Fixed(status) \ p.drop) \cup p.seat) <= Capacity
        BY <2>1, Fewer, FixedType DEF RoomInv, NeverOverbooked, Fixed
  <2> QED  BY <1>5, <2>2, DecideKeepsRoom
<1>8. CASE S # {}
  <2>1. S \subseteq Waiting(left) /\ Cardinality(Taken(left)) + Cardinality(S) <= Capacity
        BY <1>1, <1>2, <1>8 DEF Leave, Filling
  <2>2. Taken(left) = Taken(status) \ {b}
        BY <1>1, <1>2, GiveSets DEF TypeOK
  <2>3. Cardinality(Taken(left) \cup S) <= Capacity
        BY <1>3, <2>1, RoomForBoth
  <2>4. (Taken(status) \ p.drop) \cup p.seat = Taken(left) \cup S
        BY <1>6, <2>2
  <2>5. Cardinality((Taken(status) \ p.drop) \cup p.seat) <= Capacity
        BY <2>3, <2>4
  <2> QED  BY <1>5, <2>5, DecideKeepsRoom
<1> QED  BY <1>7, <1>8

LEMMA PromoteKeepsRoom ==
    ASSUME TypeOK, RoomInv, NEW c \in Command, Promote(c)
    PROVE  RoomInv'
<1>1. PICK b \in Booking : b = job[c].of
      BY JobType DEF Promote, Lock, Loaded
<1> QED  BY <1>1, OneSeat DEF Promote, Promotes

\* A commit writes what fits, or what is a stray's.
LEMMA CommitKeepsRoom ==
    ASSUME TypeOK, RoomInv, NEW c \in Command, Commit(c)
    PROVE  RoomInv'
<1>1. /\ status' = After(status, plan[c]) /\ staff' = staff /\ strays' = strays
      /\ plan'[c] = NoPlan
      /\ \A d \in Command \ {c} : plan'[d] = plan[d] /\ job'[d] = job[d]
      BY DEF Commit, TypeOK
<1>2. PICK p \in Plan : p = plan[c]
      BY DEF TypeOK
<1>3. Taken(status') \subseteq (Taken(status) \ p.drop) \cup p.seat
      BY <1>1, <1>2 DEF Taken, After, Give
<1>4. ~Locked(c)' /\ \A d \in Command \ {c} : Locked(d)' => Locked(d)
      BY <1>1 DEF Locked
<1>5. \A d, e \in Command : Locked(d)' /\ Locked(e)' /\ job'[d].member = job'[e].member => d = e
      BY <1>1, <1>4 DEF RoomInv
<1>6. CASE Rows(p) \subseteq strays
  <2>1. Fixed(status)' \subseteq Fixed(status)
        BY <1>1, <1>3, <1>6 DEF Fixed, Rows
  <2>2. NeverOverbooked'
        BY <2>1, Fewer, FixedType DEF RoomInv, NeverOverbooked, Fixed
  <2>3. ASSUME NEW d \in Command, Locked(d)'
        PROVE  job'[d] # Idle /\ ((Rows(plan[d]) \subseteq strays)' \/ Fits(d)')
    <3>1. /\ d # c /\ job'[d] = job[d] /\ plan'[d] = plan[d]
          /\ job[d] # Idle /\ (Rows(plan[d]) \subseteq strays \/ Fits(d))
          BY <1>1, <1>4, <2>3 DEF RoomInv
    <3>2. CASE Rows(plan[d]) \subseteq strays
          BY <1>1, <3>1, <3>2 DEF Rows
    <3>3. CASE Fits(d)
          BY <1>1, <2>1, <3>1, <3>3, FitsStays
    <3> QED  BY <3>1, <3>2, <3>3
  <2> QED  BY <1>5, <2>2, <2>3 DEF RoomInv
<1>7. CASE Fits(c)
  <2>1. (Fixed(status) \ p.drop) \cup p.seat \in SUBSET Booking
        BY FixedType DEF Plan
  <2>2. Fixed(status)' \subseteq (Fixed(status) \ p.drop) \cup p.seat
        BY <1>1, <1>3 DEF Fixed
  <2>3. NeverOverbooked'
        BY <1>2, <1>7, <2>1, <2>2, Fewer DEF Fits, NeverOverbooked, Fixed
  <2>4. ASSUME NEW d \in Command, Locked(d)'
        PROVE  job'[d] # Idle /\ (Rows(plan[d]) \subseteq strays)'
    <3>1. d # c /\ Locked(d) /\ job'[d] = job[d] /\ plan'[d] = plan[d] /\ job[d] # Idle
          BY <1>1, <1>4, <2>4 DEF RoomInv
    <3>2. ~Fits(d)
          BY <1>7, <3>1 DEF RoomInv, Fits, Commit
    <3>3. Rows(plan[d]) \subseteq strays
          BY <3>1, <3>2 DEF RoomInv
    <3> QED  BY <1>1, <3>1, <3>3 DEF Rows
  <2> QED  BY <1>5, <2>3, <2>4 DEF RoomInv
<1> QED  BY <1>2, <1>6, <1>7 DEF RoomInv, Commit

\* The session is moved or called off when no command behind its member's lock has decided.
LEMMA MoveKeepsRoom ==
    ASSUME TypeOK, RoomInv, Free(staff), job' = job, plan' = plan, strays' = strays,
           Taken(status') \subseteq Taken(status)
    PROVE  RoomInv'
<1>1. Fixed(status)' \subseteq Fixed(status)
      BY DEF Fixed, Taken
<1>2. NeverOverbooked'
      BY <1>1, Fewer, FixedType DEF RoomInv, NeverOverbooked, Fixed
<1>3. \A c \in Command : Locked(c) => Rows(plan[c]) \subseteq strays
      BY DEF RoomInv, Fits, Free
<1>4. \A c \in Command : Locked(c)' => (Rows(plan[c]) \subseteq strays)'
      BY <1>3 DEF Locked, Rows
<1> QED  BY <1>2, <1>4 DEF RoomInv, Locked

LEMMA RoomStep == Rooms /\ [Next]_vars => Rooms'
<1> SUFFICES ASSUME TypeOK, RoomInv, [Next]_vars PROVE RoomInv'
    BY TypeStep DEF Rooms
<1>1. ASSUME NEW c \in Command, NEW k \in Kind, NEW b \in Booking, SignUp(c, k, b) \/ Change(c, k, b)
      PROVE  RoomInv'
  <2>1. Start(c, k, b)
        BY <1>1 DEF SignUp, Change
  <2>2. /\ status' = status /\ staff' = staff /\ plan' = plan /\ strays' = strays
        /\ job[c] = Idle /\ \A d \in Command \ {c} : job'[d] = job[d]
        BY <2>1 DEF Start, session, TypeOK
  <2>3. \A d \in Command : Locked(d) => job'[d] = job[d]
        BY <2>2 DEF RoomInv
  <2> QED  BY <2>2, <2>3, RoomKept
<1>2. ASSUME NEW c \in Command, Refuse(c)
      PROVE  RoomInv'
  <2>1. /\ status' = status /\ staff' = staff /\ plan' = plan /\ strays' = strays
        /\ ~Locked(c) /\ \A d \in Command \ {c} : job'[d] = job[d]
        BY <1>2 DEF Refuse, session, TypeOK, Lock, Loaded, Locked
  <2>2. \A d \in Command : Locked(d) => job'[d] = job[d]
        BY <2>1
  <2> QED  BY <2>1, <2>2, RoomKept
<1>3. ASSUME NEW c \in Command, Enter(c) \/ Promote(c) \/ Commit(c)
      PROVE  RoomInv'
      BY <1>3, EnterKeepsRoom, PromoteKeepsRoom, CommitKeepsRoom
<1>4. ASSUME NEW c \in Command, NEW S \in SUBSET Waiting(status), Leave(c, S)
      PROVE  RoomInv'
      BY <1>4, LeaveKeepsRoom
<1>5. ASSUME NEW m \in Member, Reassign(m)
      PROVE  RoomInv'
      BY <1>5, MoveKeepsRoom DEF Reassign
<1>6. CASE CallOff
  <2>1. Taken(status') \subseteq Taken(status)
        BY <1>6 DEF CallOff, Taken, Give
  <2> QED  BY <1>6, <2>1, MoveKeepsRoom DEF CallOff
<1>7. CASE Pass
      BY <1>7, RoomKept DEF Pass, session
<1>8. ASSUME NEW b \in Booking, CloseWaitlist(b)
      PROVE  RoomInv'
  <2>1. Taken(status') \subseteq Taken(status)
        BY <1>8 DEF CloseWaitlist, Taken, Give
  <2> QED  BY <1>8, <2>1, RoomKept DEF CloseWaitlist, session
<1>9. CASE UNCHANGED vars
      BY <1>9, RoomKept DEF vars, session
<1> QED  BY <1>1, <1>2, <1>3, <1>4, <1>5, <1>6, <1>7, <1>8, <1>9 DEF Next, Serve

\* However many people sign up, cancel and are seated at once, and whatever commands do behind the
\* lock of a former member, the class has room for everyone who was seated behind the right one.
THEOREM RoomForAll == Spec => []NeverOverbooked
<1>1. Init => Rooms
      BY TypeInit, RoomInit DEF Rooms
<1>2. Rooms => NeverOverbooked
      BY DEF Rooms, RoomInv
<1> QED  BY <1>1, <1>2, RoomStep, PTL DEF Spec

------------------------------------------------------------------------------
(* The commands implement the roster. *)

LEMMA SameCount ==
    ASSUME NEW T
    PROVE  R!Cardinality(T) = Cardinality(T)
  BY DEF R!Cardinality, Cardinality

LEMMA SameOperators ==
    ASSUME NEW st, NEW S, NEW s
    PROVE  /\ R!Taken(st) = Taken(st) /\ R!Waiting(st) = Waiting(st) /\ R!Live(st) = Live(st)
           /\ R!Full(st) <=> Full(st)
           /\ R!Closed(st) <=> Closed(st)
           /\ R!Give(st, S, s) = Give(st, S, s)
<1>1. R!Taken(st) = Taken(st) /\ R!Waiting(st) = Waiting(st)
      BY DEF R!Taken, R!Waiting, Taken, Waiting
<1>2. R!Live(st) = Live(st)
      BY <1>1 DEF R!Live, Live
<1>3. (R!Full(st) <=> Full(st)) /\ (R!Closed(st) <=> Closed(st))
      BY <1>1, SameCount DEF R!Full, R!Closed, Full, Closed
<1>4. R!Give(st, S, s) = Give(st, S, s)
      BY DEF R!Give, Give
<1> QED  BY <1>1, <1>2, <1>3, <1>4

LEMMA CommitImplements ==
    ASSUME Inv, NEW c \in Command, Commit(c)
    PROVE  R!Next
<1> USE DEF Inv
<1>1. PICK b \in Booking : b = job[c].of
      BY JobType DEF Commit, LockInv
<1>2. PICK S \in SUBSET Booking : S = plan[c].seat
      BY DEF TypeOK, Plan
<1> DEFINE left == Give(status, {b}, "canceled")
<1>3. /\ came' = came /\ hour' = hour
      /\ status \in [Booking -> Status] /\ left \in [Booking -> Status]
      BY GiveType DEF Commit, TypeOK, Status
<1>4. ASSUME EntersNow(c), open' = open,
             \/ ~Closed(status) /\ status' = Give(status, {b}, "confirmed")
             \/ (Closed(status) \/ hour # "ahead") /\ status' = Give(status, {b}, "waitlisted")
      PROVE  R!Enter(b)
  <2>1. status[b] = "none" /\ came[b] # 0
        BY <1>1, <1>4 DEF EntersNow, EnterInv
  <2> QED  BY <1>3, <1>4, <2>1, SameOperators DEF R!Enter
<1>5. ASSUME LeavesNow(c), status' = Give(left, S, "confirmed"),
             open' = (open /\ ~plan[c].shut)
      PROVE  S \in SUBSET R!Waiting(status) /\ R!Leave(b, S)
  <2>1. /\ b \in Live(status)
        /\ S \subseteq Waiting(left)
        /\ \A x \in S, y \in Waiting(left) \ S : came[x] < came[y]
        /\ S # {} => b \in Taken(status) /\ Cardinality(Taken(left)) + Cardinality(S) <= Capacity
        /\ open /\ hour = "ahead" /\ b \in Taken(status) =>
              Waiting(left) \subseteq S \/ Full(Give(left, S, "confirmed"))
        /\ plan[c].shut => Empty(left)
        BY <1>1, <1>2, <1>5 DEF LeavesNow
  <2>2. Waiting(left) \subseteq Waiting(status)
        BY <1>3, GiveSets
  <2>3. R!First(left, S)
        BY <2>1, SameOperators DEF R!First
  <2>4. S # {} => b \in R!Taken(status) /\ R!Fits(left, S)
    <3>1. R!Taken(left) = Taken(left) /\ R!Taken(status) = Taken(status)
          BY SameOperators
    <3> QED  BY <2>1, <3>1, SameCount DEF R!Fits
  <2>5. open /\ hour = "ahead" /\ b \in R!Taken(status) => R!Enough(left, S)
        BY <2>1, SameOperators DEF R!Enough
  <2>6. open' = open \/ (open' = FALSE /\ R!Live(status') = {})
    <3>1. CASE plan[c].shut
      <4>1. Waiting(left) = {} /\ Taken(left) = {}
            BY <2>1, <3>1 DEF Empty, Live
      <4>2. S = {}
            BY <2>1, <4>1
      <4>3. status' = left
            BY <1>3, <1>5, <4>2, GiveNobody
      <4> QED  BY <1>5, <3>1, <4>1, <4>3, SameOperators DEF Live
    <3>2. CASE ~plan[c].shut
      BY <1>5, <3>2 DEF TypeOK
    <3> QED  BY <3>1, <3>2
  <2>7. R!Give(status, {b}, "canceled") = left /\ R!Give(left, S, "confirmed") = status'
        BY <1>5, SameOperators
  <2>8. b \in R!Live(status) /\ S \in SUBSET R!Waiting(status)
        BY <2>1, <2>2, SameOperators
  <2> HIDE DEF left
  <2> QED  BY <1>3, <2>3, <2>4, <2>5, <2>6, <2>7, <2>8 DEF R!Leave
<1>6. ASSUME PromotesNow(c), status' = Give(status, {b}, "confirmed"), open' = open
      PROVE  R!Seat(b)
  BY <1>1, <1>3, <1>6, SameOperators DEF R!Seat, PromotesNow
<1> QED
  BY <1>1, <1>2, <1>4, <1>5, <1>6, CommitEffect DEF R!Next

LEMMA Implements ==
    ASSUME Inv, [Next]_vars
    PROVE  [R!Next]_(R!vars)
<1> USE DEF Inv
<1>1. ASSUME UNCHANGED <<status, came, open, hour>>
      PROVE  UNCHANGED R!vars
  BY <1>1 DEF R!vars
<1>2. ASSUME NEW c \in Command, NEW k \in Kind, NEW b \in Booking, SignUp(c, k, b)
      PROVE  R!Next
  <2>1. /\ status[b] = "none" /\ came[b] = 0
        /\ came' = [came EXCEPT ![b] = Cardinality({d \in Booking : came[d] # 0}) + 1]
        /\ UNCHANGED <<status, open, hour>>
        BY <1>2 DEF SignUp, Start, session
  <2>2. R!Ask(b)
        BY <2>1, SameCount DEF R!Ask
  <2> QED  BY <2>2 DEF R!Next
<1>3. ASSUME NEW c \in Command, NEW k \in Kind, NEW b \in Booking, Change(c, k, b)
      PROVE  UNCHANGED R!vars
  BY <1>1, <1>3 DEF Change, Start, session
<1>4. ASSUME NEW c \in Command, Enter(c) \/ Promote(c) \/ Refuse(c)
      PROVE  UNCHANGED R!vars
  BY <1>1, <1>4 DEF Enter, Promote, Refuse, Decide, session
<1>5. ASSUME NEW c \in Command, NEW S \in SUBSET Waiting(status), Leave(c, S)
      PROVE  UNCHANGED R!vars
  <2>1. PICK p : Decide(c, p)
        BY <1>5 DEF Leave
  <2> QED  BY <1>1, <2>1 DEF Decide, session
<1>6. ASSUME NEW c \in Command, Commit(c)
      PROVE  R!Next
  BY <1>6, CommitImplements
<1>7. ASSUME NEW m \in Member, Reassign(m)
      PROVE  UNCHANGED R!vars
  BY <1>1, <1>7 DEF Reassign
<1>8. CASE CallOff
  <2>1. R!CallOff
        BY <1>8, SameOperators DEF CallOff, R!CallOff
  <2> QED  BY <2>1 DEF R!Next
<1>9. CASE Pass
  <2>1. R!Start \/ UNCHANGED R!vars
        BY <1>9 DEF Pass, session, R!Start, R!vars
  <2> QED  BY <2>1 DEF R!Next
<1>10. ASSUME NEW b \in Booking, CloseWaitlist(b)
       PROVE  R!Next
  <2>1. R!CloseLine(b)
        BY <1>10, SameOperators DEF CloseWaitlist, R!CloseLine, session
  <2> QED  BY <2>1 DEF R!Next
<1>11. CASE UNCHANGED vars
  BY <1>1, <1>11 DEF vars, session
<1> QED
  BY <1>2, <1>3, <1>4, <1>5, <1>6, <1>7, <1>8, <1>9, <1>10, <1>11 DEF Next, Serve

\* Whatever is under way on a class session at once, it comes out as if the commands had been
\* done one after the other, with the line served in its order, until one goes on behind the lock
\* of a former member.
THEOREM CommandsImplementRoster == Spec => ImplementsRoster
<1>1. Init => R!Init
  <2>1. R!Taken(status) = Taken(status)
        BY SameOperators
  <2> QED  BY <2>1, SameCount DEF Init, R!Init
<1>2. (strays = {} => Inv) /\ [Next]_vars => [strays' = {} => R!Next]_(R!vars)
      BY Implements, StraysStay
<1> QED  BY <1>1, <1>2, Invariance, PTL DEF Spec, ImplementsRoster
=============================================================================
