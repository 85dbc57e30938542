--------------------------- MODULE DeliveriesProofs ---------------------------
(***************************************************************************)
(* Proofs about the delivery queue, for any number of deliveries and       *)
(* dispatchers and any lease, retry delay and retry window.                *)
(***************************************************************************)
EXTENDS Deliveries, TLAPS

USE ChannelAssumption, TimeAssumption

\* What is on a dispatcher's mind about the delivery it works on.
Busy(w) == job[w].at \in {"calling", "answered"}

\* A delivery that may be claimed was never taken and no one is working on it.
FreeInv ==
    \A d \in Delivery : state[d] \in {"none", "queued"} =>
        /\ accepts[d] = 0
        /\ \A w \in Worker : Busy(w) => job[w].of # d

\* At most one dispatcher works on a delivery.
ExclusiveInv ==
    \A v, w \in Worker : (Busy(v) /\ Busy(w) /\ job[v].of = job[w].of) => v = w

\* While the call is open the provider has not taken the message, and the row
\* can only have been given up as ambiguous; an answer that proves the message
\* never went, or that it did, is right about the provider.
CallInv ==
    \A w \in Worker :
        /\ job[w].at = "calling" =>
              /\ accepts[job[w].of] = 0
              /\ state[job[w].of] \in {"sending", "ambiguous"}
        /\ job[w].at = "answered" =>
              /\ job[w].outcome \in {"queued", "failed"} => accepts[job[w].of] = 0
              /\ job[w].outcome = "accepted" => accepts[job[w].of] = 1

IInv == TypeOK /\ FreeInv /\ ExclusiveInv /\ CallInv /\ AtMostOnce /\ Honest

\* The type invariant holds of every behaviour of the delivery queue.
THEOREM TypeCorrect == Spec => []TypeOK
<1>1. Init => TypeOK
  BY DEF Init, TypeOK, States, Idle, Jobs, NoClaim, None
<1>2. TypeOK /\ [Next]_vars => TypeOK'
  <2> SUFFICES ASSUME TypeOK, [Next]_vars PROVE TypeOK'
    OBVIOUS
  <2> USE DEF TypeOK, States, None, NoClaim
  <2>1. ASSUME NEW d \in Delivery, Enqueue(d) PROVE TypeOK'
    BY <2>1 DEF Enqueue
  <2>2. ASSUME NEW d \in Delivery, NEW s \in States, NEW x \in Nat \cup {None}, Leave(d, s, x)
        PROVE  /\ state' \in [Delivery -> States]
               /\ wait' \in [Delivery -> Nat \cup {None}]
               /\ claim' \in [Delivery -> Nat]
               /\ age' \in [Delivery -> 0..Window]
               /\ inbox' \in [Inbox -> {"queued", "sent", "failed"}]
    BY <2>2 DEF Leave, Follow, MessageStatus
  <2>3. ASSUME NEW d \in Delivery, Dispatch(d) PROVE TypeOK'
    <3>1. CASE ExpireLease(d)
      BY <3>1, <2>2 DEF ExpireLease
    <3>2. CASE Refuse(d)
      BY <3>2, <2>2 DEF Refuse
    <3>3. CASE Simulate(d)
      BY <3>3, <2>2 DEF Simulate
    <3>4. ASSUME NEW w \in Worker, Claim(w, d) PROVE TypeOK'
      BY <3>4 DEF Claim, Calling, Jobs, Outcomes
    <3> QED BY <2>3, <3>1, <3>2, <3>3, <3>4 DEF Dispatch
  <2>4. ASSUME NEW w \in Worker, Call(w) PROVE TypeOK'
    BY <2>4 DEF Call, Answered, Jobs, Outcomes, Took, row
  <2>5. ASSUME NEW w \in Worker, Settle(w) PROVE TypeOK'
    <3>1. job' \in [Worker -> Jobs]
      BY <2>5 DEF Settle, Idle, Jobs
    <3>2. job[w].of \in Delivery /\ job[w].outcome \in Outcomes
      BY <2>5 DEF Settle, Jobs
    <3> QED BY <2>5, <3>1, <3>2, <2>2 DEF Settle, Outcomes, row
  <2>6. ASSUME NEW w \in Worker, Crash(w) PROVE TypeOK'
    BY <2>6 DEF Crash, Idle, Jobs, row
  <2>7. ASSUME NEW d \in Email, NEW k \in EventKinds, EmailEvent(d, k) PROVE TypeOK'
    BY <2>7 DEF EmailEvent, EventState
  <2>8. ASSUME NEW d \in Text, TextReply(d) PROVE TypeOK'
    BY <2>8 DEF TextReply, row
  <2>9. CASE Tick
    BY <2>9 DEF Tick
  <2>10. CASE UNCHANGED vars
    BY <2>10 DEF vars, row
  <2> QED BY <2>1, <2>3, <2>4, <2>5, <2>6, <2>7, <2>8, <2>9, <2>10 DEF Next
<1>3. QED BY <1>1, <1>2, PTL DEF Spec

\* A dispatcher at work is on a delivery of the queue.
LEMMA JobType ==
    ASSUME TypeOK, NEW w \in Worker, Busy(w)
    PROVE  /\ job[w].of \in Delivery
           /\ job[w].at = "answered" => job[w].outcome \in Outcomes
BY DEF TypeOK, Jobs, Busy

\* The invariant holds of every behaviour of the delivery queue.
LEMMA Invariance == Spec => []IInv
<1>1. Init => IInv
  <2> SUFFICES ASSUME Init PROVE IInv
    OBVIOUS
  <2>1. TypeOK
    BY DEF Init, TypeOK, States, Idle, Jobs, NoClaim, None
  <2>2. \A w \in Worker : ~Busy(w) /\ job[w].at = "idle"
    BY DEF Init, Busy, Idle
  <2> QED BY <2>1, <2>2 DEF IInv, Init, FreeInv, ExclusiveInv, CallInv, AtMostOnce, Honest, Busy
<1>2. IInv /\ TypeOK' /\ [Next]_vars => IInv'
  <2> SUFFICES ASSUME IInv, TypeOK', [Next]_vars PROVE IInv'
    OBVIOUS
  <2> USE DEF IInv, FreeInv, ExclusiveInv, CallInv, AtMostOnce, Honest, Busy
  <2>0. TypeOK /\ TypeOK'
    OBVIOUS
  <2>1. ASSUME NEW d \in Delivery, Enqueue(d) PROVE IInv'
    BY <2>0, <2>1 DEF Enqueue, TypeOK
  <2>3. ASSUME NEW d \in Delivery, Dispatch(d) PROVE IInv'
    <3>1. CASE ExpireLease(d)
      BY <2>0, <3>1 DEF ExpireLease, Leave, TypeOK
    <3>2. CASE Refuse(d)
      BY <2>0, <3>2 DEF Refuse, Leave, TypeOK
    <3>3. CASE Simulate(d)
      BY <2>0, <3>3 DEF Simulate, Leave, TypeOK
    <3>4. ASSUME NEW w \in Worker, Claim(w, d) PROVE IInv'
      BY <2>0, <3>4, JobType DEF Claim, Calling, Idle, TypeOK
    <3> QED BY <2>3, <3>1, <3>2, <3>3, <3>4 DEF Dispatch
  <2>4. ASSUME NEW w \in Worker, Call(w) PROVE IInv'
    BY <2>0, <2>4, JobType DEF Call, Answered, Took, Outcomes, row, TypeOK
  <2>5. ASSUME NEW w \in Worker, Settle(w) PROVE IInv'
    BY <2>0, <2>5, JobType DEF Settle, Idle, Leave, Fenced, Outcomes, row, TypeOK
  <2>6. ASSUME NEW w \in Worker, Crash(w) PROVE IInv'
    BY <2>0, <2>6, JobType DEF Crash, Idle, row, TypeOK
  <2>7. ASSUME NEW d \in Email, NEW k \in EventKinds, EmailEvent(d, k) PROVE IInv'
    BY <2>0, <2>7, JobType DEF EmailEvent, EventState, TypeOK
  <2>8. ASSUME NEW d \in Text, TextReply(d) PROVE IInv'
    BY <2>0, <2>8 DEF TextReply, row
  <2>9. CASE Tick
    BY <2>0, <2>9 DEF Tick
  <2>10. CASE UNCHANGED vars
    BY <2>0, <2>10 DEF vars, row
  <2> QED BY <2>1, <2>3, <2>4, <2>5, <2>6, <2>7, <2>8, <2>9, <2>10 DEF Next
<1>3. QED BY <1>1, <1>2, TypeCorrect, PTL DEF Spec, IInv

\* The provider takes each message at most once, however dispatchers race, overrun their
\* lease or crash.
THEOREM SentAtMostOnce == Spec => []AtMostOnce
BY Invariance, PTL DEF IInv

\* The state a delivery shows is the truth about the provider.
THEOREM HonestAlways == Spec => []Honest
BY Invariance, PTL DEF IInv

-----------------------------------------------------------------------------
(* The inbox. *)

\* A dispatch that leaves a queued or sending row takes the inbox message along.
LEMMA LeaveAgrees ==
    ASSUME TypeOK, InboxAgrees, NEW d \in Delivery, NEW s \in Outcomes, NEW x, Leave(d, s, x),
           state[d] \in {"queued", "sending"}
    PROVE  InboxAgrees'
<1> SUFFICES ASSUME NEW e \in Inbox
             PROVE  inbox'[e] = CASE state'[e] \in {"none", "queued", "sending"} -> "queued"
                                  [] state'[e] = "accepted" -> "sent"
                                  [] OTHER -> "failed"
    BY DEF InboxAgrees
<1>1. e \in Delivery
    OBVIOUS
<1>2. CASE e # d
    BY <1>1, <1>2 DEF Leave, Follow, TypeOK, InboxAgrees
<1>3. CASE e = d
  <2>1. inbox[d] = "queued" /\ state'[d] = s
    BY <1>1, <1>3 DEF Leave, TypeOK, InboxAgrees
  <2>2. inbox'[d] = IF s = "queued" THEN "queued" ELSE MessageStatus(s)
    BY <1>3, <2>1 DEF Leave, Follow, TypeOK, Outcomes
  <2> QED BY <1>3, <2>1, <2>2 DEF MessageStatus, Outcomes
<1> QED BY <1>2, <1>3

\* The inbox message of a text shows the outcome of its delivery: every branch of
\* dispatch that ends a delivery takes the message along, and only emails change otherwise.
THEOREM InboxAlwaysAgrees == Spec => []InboxAgrees
<1>1. Init => InboxAgrees
  BY DEF Init, InboxAgrees
<1>2. InboxAgrees /\ TypeOK /\ [Next]_vars => InboxAgrees'
  <2> SUFFICES ASSUME InboxAgrees, TypeOK, [Next]_vars PROVE InboxAgrees'
    OBVIOUS
  <2>1. ASSUME UNCHANGED <<state, inbox>> PROVE InboxAgrees'
    BY <2>1 DEF InboxAgrees
  <2>2. ASSUME NEW d \in Delivery, Enqueue(d) PROVE InboxAgrees'
    BY <2>2 DEF Enqueue, InboxAgrees, TypeOK
  <2>3. ASSUME NEW d \in Delivery, Dispatch(d) PROVE InboxAgrees'
    <3>1. CASE ExpireLease(d)
      BY <3>1, LeaveAgrees DEF ExpireLease, Outcomes
    <3>2. CASE Refuse(d)
      BY <3>2, LeaveAgrees DEF Refuse, Outcomes
    <3>3. CASE Simulate(d)
      BY <3>3, LeaveAgrees DEF Simulate, Outcomes
    <3>4. ASSUME NEW w \in Worker, Claim(w, d) PROVE InboxAgrees'
      BY <3>4 DEF Claim, InboxAgrees, TypeOK
    <3> QED BY <2>3, <3>1, <3>2, <3>3, <3>4 DEF Dispatch
  <2>4. ASSUME NEW w \in Worker, Settle(w) PROVE InboxAgrees'
    <3>1. job[w].of \in Delivery /\ job[w].outcome \in Outcomes
      BY <2>4, JobType DEF Settle, Busy
    <3> QED BY <2>1, <2>4, <3>1, LeaveAgrees DEF Settle, Fenced, row
  <2>5. ASSUME NEW d \in Email, NEW k \in EventKinds, EmailEvent(d, k) PROVE InboxAgrees'
    BY <2>5 DEF EmailEvent, InboxAgrees, TypeOK
  <2>6. CASE Tick \/ UNCHANGED vars \/ (\E w \in Worker : Call(w) \/ Crash(w))
             \/ (\E d \in Text : TextReply(d))
    BY <2>1, <2>6 DEF Tick, Call, Crash, TextReply, vars, row
  <2> QED BY <2>2, <2>3, <2>4, <2>5, <2>6 DEF Next
<1>3. QED BY <1>1, <1>2, TypeCorrect, PTL DEF Spec

-----------------------------------------------------------------------------
(* What has left the queue. *)

Later(s) == CASE s = "failed" -> {}
              [] s = "delivered" -> {"failed"}
              [] s = "accepted" -> {"delivered", "failed"}
              [] s = "ambiguous" -> {"accepted", "delivered", "failed"}

Out(d) == state[d] \in {"accepted", "delivered", "failed", "ambiguous"}

Stands(d) ==
    Out(d) => \/ state'[d] = state[d]
              \/ state'[d] \in Later(state[d]) /\ d \in Email /\ reports' # reports

OutcomesStand == [][\A d \in Delivery : Stands(d)]_vars

\* Once a delivery left the queue no dispatcher moves it again, however late its answer;
\* Resend's reports only take it to a later stage.
THEOREM OutcomesAlwaysStand == Spec => OutcomesStand
<1>1. TypeOK /\ [Next]_vars => \A d \in Delivery : Stands(d)
  <2> SUFFICES ASSUME TypeOK, [Next]_vars, NEW d \in Delivery PROVE Stands(d)
    OBVIOUS
  <2> USE DEF Out, Stands
  <2>1. ASSUME UNCHANGED state PROVE Stands(d)
    BY <2>1
  <2>2. ASSUME NEW e \in Delivery, NEW s, NEW x, Leave(e, s, x),
               state[e] \in {"queued", "sending"}
        PROVE  Stands(d)
    BY <2>2 DEF Leave, TypeOK
  <2>3. ASSUME NEW e \in Delivery, Enqueue(e) PROVE Stands(d)
    BY <2>3 DEF Enqueue, TypeOK
  <2>4. ASSUME NEW e \in Delivery, Dispatch(e) PROVE Stands(d)
    <3>1. ASSUME NEW w \in Worker, Claim(w, e) PROVE Stands(d)
      BY <3>1 DEF Claim, TypeOK
    <3>2. CASE ExpireLease(e) \/ Refuse(e) \/ Simulate(e)
      BY <2>2, <3>2 DEF ExpireLease, Refuse, Simulate
    <3> QED BY <2>4, <3>1, <3>2 DEF Dispatch
  <2>5. ASSUME NEW w \in Worker, Settle(w) PROVE Stands(d)
    <3>1. job[w].of \in Delivery
      BY <2>5, JobType DEF Settle, Busy
    <3> QED BY <2>1, <2>2, <2>5, <3>1 DEF Settle, Fenced, row
  <2>6. ASSUME NEW e \in Email, NEW k \in EventKinds, EmailEvent(e, k) PROVE Stands(d)
    <3>1. reports' # reports
      BY <2>6 DEF EmailEvent, TypeOK
    <3> QED BY <2>6, <3>1 DEF EmailEvent, EventState, EventKinds, Later, TypeOK
  <2>7. CASE Tick \/ UNCHANGED vars \/ (\E w \in Worker : Call(w) \/ Crash(w))
             \/ (\E e \in Text : TextReply(e))
    BY <2>1, <2>7 DEF Tick, Call, Crash, TextReply, vars, row
  <2> QED BY <2>3, <2>4, <2>5, <2>6, <2>7 DEF Next
<1>2. QED BY <1>1, TypeCorrect, PTL DEF Spec, OutcomesStand

-----------------------------------------------------------------------------
(* What is under way. *)

\* A delivery is in the queue exactly while it has a time to be looked at again, no further off
\* than the lease or the retry delay, and it carries a claim exactly while it is being sent.
Scheduled ==
    \A d \in Delivery :
        /\ state[d] \in {"queued", "sending"} <=> wait[d] # None
        /\ wait[d] <= Lease \/ wait[d] <= Retry
        /\ state[d] = "sending" <=> claim[d] # NoClaim

LEMMA LeaveSchedules ==
    ASSUME TypeOK, Scheduled, NEW d \in Delivery, NEW s \in Outcomes, NEW x \in {None, 0, Retry},
           Leave(d, s, x), s = "queued" <=> x # None
    PROVE  Scheduled'
<1>1. \A c \in Delivery : /\ state'[c] = (IF c = d THEN s ELSE state[c])
                          /\ wait'[c] = (IF c = d THEN x ELSE wait[c])
                          /\ claim'[c] = (IF c = d THEN NoClaim ELSE claim[c])
      BY DEF Leave, TypeOK
<1>2. x <= Retry /\ s # "sending" /\ (s \in {"queued", "sending"} <=> x # None)
      BY DEF None, Outcomes
<1> QED  BY <1>1, <1>2 DEF Scheduled

\* No delivery is forgotten in the queue, whatever crashes, answers and reports come together: the
\* sweep finds it after a lease or a retry delay at most.
THEOREM ScheduledAlways == Spec => []Scheduled
<1>1. Init => Scheduled
      BY DEF Init, Scheduled, None, NoClaim
<1>2. Scheduled /\ TypeOK /\ [Next]_vars => Scheduled'
  <2> SUFFICES ASSUME Scheduled, TypeOK, [Next]_vars PROVE Scheduled'
      OBVIOUS
  <2>1. ASSUME UNCHANGED <<state, wait, claim>> PROVE Scheduled'
        BY <2>1 DEF Scheduled
  <2>2. ASSUME NEW d \in Delivery, Enqueue(d) PROVE Scheduled'
        BY <2>2 DEF Enqueue, Scheduled, TypeOK, None
  <2>3. ASSUME NEW d \in Delivery, Dispatch(d) PROVE Scheduled'
    <3>1. CASE ExpireLease(d) \/ Refuse(d) \/ Simulate(d)
          BY <3>1, LeaveSchedules DEF ExpireLease, Refuse, Simulate, Outcomes
    <3>2. ASSUME NEW w \in Worker, Claim(w, d) PROVE Scheduled'
          BY <3>2 DEF Claim, Scheduled, TypeOK, None, NoClaim
    <3> QED  BY <2>3, <3>1, <3>2 DEF Dispatch
  <2>4. ASSUME NEW w \in Worker, Settle(w) PROVE Scheduled'
    <3>1. job[w].of \in Delivery /\ job[w].outcome \in Outcomes
          BY <2>4, JobType DEF Settle, Busy
    <3>2. Retry # None
          BY DEF None
    <3> QED  BY <2>1, <2>4, <3>1, <3>2, LeaveSchedules DEF Settle, row
  <2>5. ASSUME NEW d \in Email, NEW k \in EventKinds, EmailEvent(d, k) PROVE Scheduled'
    <3>1. CASE EventState(state[d], k) = "unchanged"
          BY <2>1, <2>5, <3>1 DEF EmailEvent
    <3>2. CASE EventState(state[d], k) # "unchanged"
          BY <2>5, <3>2 DEF EmailEvent, EventState, Scheduled, TypeOK, None, NoClaim
    <3> QED  BY <3>1, <3>2
  <2>6. CASE Tick
    <3>1. \A d \in Delivery : /\ wait'[d] # None <=> wait[d] # None
                              /\ wait'[d] <= wait[d]
          BY <2>6 DEF Tick, TypeOK, None
    <3> QED  BY <2>6, <3>1 DEF Tick, Scheduled, TypeOK, None
  <2>7. CASE UNCHANGED vars \/ (\E w \in Worker : Call(w) \/ Crash(w)) \/ (\E d \in Text : TextReply(d))
        BY <2>1, <2>7 DEF Call, Crash, TextReply, vars, row
  <2> QED  BY <2>2, <2>3, <2>4, <2>5, <2>6, <2>7 DEF Next
<1>3. QED  BY <1>1, <1>2, TypeCorrect, PTL DEF Spec

-----------------------------------------------------------------------------
(* The refinement of Sender. *)

\* The row of d changes, and what is told of it is s; the provider has no part in it.
Moves(d, s) ==
    /\ UNCHANGED <<accepts, reports>>
    /\ state' \in [Delivery -> States]
    /\ \A c \in Delivery : c # d => state'[c] = state[c]
    /\ Told(state'[d]) = s

LEMMA MovesSender ==
    ASSUME TypeOK, NEW d \in Delivery, NEW s, Moves(d, s)
    PROVE  /\ [c \in Delivery |-> Told(state[c])]' = [[c \in Delivery |-> Told(state[c])] EXCEPT ![d] = s]
           /\ UNCHANGED {c \in Delivery : accepts[c] > 0}
           /\ UNCHANGED [c \in Email |-> {Heard(k) : k \in reports[c]}]
BY DEF Moves, TypeOK

\* A row in the queue stays there: Sender sees nothing of it.
LEMMA MovesInside ==
    ASSUME TypeOK, NEW d \in Delivery, Moves(d, Told(state[d]))
    PROVE  UNCHANGED S!vars
<1>1. \A c \in Delivery : Told(state'[c]) = Told(state[c])
      BY DEF Moves
<1> QED  BY <1>1 DEF Moves, S!vars

\* A row in the queue leaves it with the truth, or with none.
LEMMA MovesOut ==
    ASSUME TypeOK, NEW d \in Delivery, NEW s \in {"sent", "failed", "unknown"}, Moves(d, s),
           state[d] \in {"queued", "sending"},
           s = "sent" => accepts[d] > 0 \/ d \in Reserved,
           s = "failed" => ~(accepts[d] > 0)
    PROVE  S!Next
<1>1. S!Tell(d, s)
      BY MovesSender DEF S!Tell, Told
<1> QED  BY <1>1 DEF S!Next

\* The row of a dispatch.
LEMMA LeaveMoves ==
    ASSUME TypeOK, TypeOK', NEW d \in Delivery, NEW s, NEW x, Leave(d, s, x),
           UNCHANGED <<accepts, reports>>
    PROVE  Moves(d, Told(s))
<1>1. state' = [state EXCEPT ![d] = s] /\ state' \in [Delivery -> States]
      BY DEF Leave, TypeOK
<1>2. state'[d] = s /\ \A c \in Delivery : c # d => state'[c] = state[c]
      BY <1>1 DEF TypeOK
<1> QED  BY <1>1, <1>2 DEF Moves

\* The provider takes the message of d, or the call changed nothing for it.
LEMMA CallSends ==
    ASSUME TypeOK, NEW d \in Delivery, NEW n \in {0, 1}, accepts' = [accepts EXCEPT ![d] = @ + n],
           n = 1 => accepts[d] = 0 /\ state[d] \in {"sending", "ambiguous"},
           UNCHANGED <<state, reports>>
    PROVE  S!Next \/ UNCHANGED S!vars
<1> DEFINE taken == {c \in Delivery : accepts[c] > 0}
<1>1. CASE n = 0
  <2>1. UNCHANGED accepts
        BY <1>1 DEF TypeOK
  <2> QED  BY <2>1 DEF S!vars
<1>2. CASE n = 1
  <2>1. accepts'[d] = 1 /\ \A c \in Delivery : c # d => accepts'[c] = accepts[c]
        BY <1>2 DEF TypeOK
  <2>2. d \notin taken /\ taken' = taken \cup {d}
        BY <1>2, <2>1
  <2>3. Told(state[d]) \in {"open", "unknown"}
        BY <1>2 DEF Told
  <2>4. S!Reach(d)
        BY <2>2, <2>3 DEF S!Reach
  <2> QED  BY <2>4 DEF S!Next
<1> QED  BY <1>1, <1>2

\* What a report makes of a row is what it makes of what was told.
LEMMA EventTold ==
    ASSUME NEW s \in States \ {"none", "queued"}, NEW k \in EventKinds
    PROVE  Told(IF EventState(s, k) = "unchanged" THEN s ELSE EventState(s, k))
              = S!Furthest(Told(s), Heard(k))
BY DEF States, EventKinds, EventState, Told, Heard, S!Furthest, S!Stage

LEMMA EventReports ==
    ASSUME TypeOK, Honest, NEW d \in Email, NEW k \in EventKinds, EmailEvent(d, k)
    PROVE  S!Next
<1> DEFINE told == [c \in Delivery |-> Told(state[c])]
           heard == [c \in Email |-> {Heard(j) : j \in reports[c]}]
<1>1. d \in Delivery /\ state[d] \in States \ {"none", "queued"}
      BY DEF EmailEvent, Honest, TypeOK, States
<1>2. d \in {c \in Delivery : accepts[c] > 0} /\ UNCHANGED {c \in Delivery : accepts[c] > 0}
      BY <1>1 DEF EmailEvent
<1>3. \A j \in EventKinds : Heard(j) = Heard(k) => j = k
      BY DEF Heard, EventKinds
<1>4. Heard(k) \notin heard[d] /\ Heard(k) \in {"sent", "delivered", "failed"}
  <2>1. Heard(k) \notin {Heard(j) : j \in reports[d]}
        BY <1>3 DEF EmailEvent, TypeOK
  <2> QED  BY <2>1 DEF Heard, EventKinds
<1>5. heard' = [heard EXCEPT ![d] = @ \cup {Heard(k)}]
  <2>1. \A c \in Email : reports'[c] = IF c = d THEN reports[c] \cup {k} ELSE reports[c]
        BY DEF EmailEvent, TypeOK
  <2>2. \A c \in Email : {Heard(j) : j \in reports'[c]} = IF c = d THEN {Heard(j) : j \in reports[c]} \cup {Heard(k)}
                                                          ELSE {Heard(j) : j \in reports[c]}
        BY <2>1
  <2> QED  BY <2>2
<1>6. told' = [told EXCEPT ![d] = S!Furthest(@, Heard(k))]
  <2>1. \A c \in Delivery : state'[c] = IF c # d \/ EventState(state[d], k) = "unchanged" THEN state[c]
                                        ELSE EventState(state[d], k)
        BY <1>1 DEF EmailEvent, TypeOK
  <2>2. Told(state'[d]) = S!Furthest(Told(state[d]), Heard(k))
        BY <1>1, <2>1, EventTold
  <2> QED  BY <1>1, <2>1, <2>2
<1>7. S!Report(d, Heard(k))
      BY <1>2, <1>4, <1>5, <1>6 DEF S!Report
<1> QED  BY <1>4, <1>7 DEF S!Next

\* Every step of the queue is one of Sender, or one it does not see.
LEMMA StepSends == IInv /\ TypeOK' /\ [Next]_vars => [S!Next]_(S!vars)
<1> SUFFICES ASSUME IInv, TypeOK', [Next]_vars PROVE S!Next \/ UNCHANGED S!vars
    OBVIOUS
<1> USE DEF IInv
<1>1. ASSUME UNCHANGED <<state, accepts, reports>> PROVE UNCHANGED S!vars
      BY <1>1 DEF S!vars
<1>2. ASSUME NEW d \in Delivery, Enqueue(d) PROVE S!Next
  <2>1. Moves(d, "open")
        BY <1>2 DEF Enqueue, Moves, Told, TypeOK
  <2>2. S!Post(d)
        BY <1>2, <2>1, MovesSender DEF Enqueue, S!Post, Told
  <2> QED  BY <2>2 DEF S!Next
<1>3. ASSUME NEW d \in Delivery, Dispatch(d) PROVE S!Next \/ UNCHANGED S!vars
  <2>1. CASE ExpireLease(d)
    <3>1. Moves(d, "unknown")
          BY <2>1, LeaveMoves DEF ExpireLease, Told
    <3> QED  BY <2>1, <3>1, MovesOut DEF ExpireLease
  <2>2. CASE Refuse(d)
    <3>1. Moves(d, "failed")
          BY <2>2, LeaveMoves DEF Refuse, Told
    <3>2. ~(accepts[d] > 0)
          BY <2>2 DEF Refuse, FreeInv
    <3> QED  BY <2>2, <3>1, <3>2, MovesOut DEF Refuse
  <2>3. CASE Simulate(d)
    <3>1. Moves(d, "sent")
          BY <2>3, LeaveMoves DEF Simulate, Told
    <3> QED  BY <2>3, <3>1, MovesOut DEF Simulate
  <2>4. ASSUME NEW w \in Worker, Claim(w, d) PROVE UNCHANGED S!vars
    <3>1. Moves(d, Told(state[d]))
          BY <2>4 DEF Claim, Moves, Told, TypeOK
    <3> QED  BY <3>1, MovesInside
  <2> QED  BY <1>3, <2>1, <2>2, <2>3, <2>4 DEF Dispatch
<1>4. ASSUME NEW w \in Worker, Call(w) PROVE S!Next \/ UNCHANGED S!vars
  <2>1. PICK n \in {0, 1} : accepts' = [accepts EXCEPT ![job[w].of] = @ + n]
        BY <1>4 DEF Call, Took
  <2>2. /\ job[w].of \in Delivery /\ accepts[job[w].of] = 0
        /\ state[job[w].of] \in {"sending", "ambiguous"}
        BY <1>4, JobType DEF Call, Busy, CallInv
  <2>3. UNCHANGED <<state, reports>>
        BY <1>4 DEF Call, row
  <2> QED  BY <2>1, <2>2, <2>3, CallSends
<1>5. ASSUME NEW w \in Worker, Settle(w) PROVE S!Next \/ UNCHANGED S!vars
  <2> DEFINE d == job[w].of
  <2>1. d \in Delivery /\ job[w].outcome \in Outcomes
        BY <1>5, JobType DEF Settle, Busy
  <2>2. UNCHANGED <<accepts, reports>>
        BY <1>5 DEF Settle
  <2>3. CASE Fenced(d, job[w].token)
    <3>1. Moves(d, Told(job[w].outcome)) /\ state[d] = "sending"
          BY <1>5, <2>1, <2>2, <2>3, LeaveMoves DEF Settle, Fenced
    <3>2. CASE job[w].outcome = "queued"
      <4>1. Told(job[w].outcome) = Told(state[d])
            BY <3>1, <3>2 DEF Told
      <4> QED  BY <2>1, <3>1, <4>1, MovesInside
    <3>3. CASE job[w].outcome = "accepted"
      <4>1. Moves(d, "sent") /\ accepts[d] > 0
            BY <1>5, <3>1, <3>3 DEF Told, Settle, CallInv
      <4> QED  BY <2>1, <3>1, <4>1, MovesOut
    <3>4. CASE job[w].outcome = "failed"
      <4>1. Moves(d, "failed") /\ ~(accepts[d] > 0)
            BY <1>5, <3>1, <3>4 DEF Told, Settle, CallInv
      <4> QED  BY <2>1, <3>1, <4>1, MovesOut
    <3>5. CASE job[w].outcome = "ambiguous"
      <4>1. Moves(d, "unknown")
            BY <3>1, <3>5 DEF Told
      <4> QED  BY <2>1, <3>1, <4>1, MovesOut
    <3> QED  BY <2>1, <3>2, <3>3, <3>4, <3>5 DEF Outcomes
  <2>4. CASE ~Fenced(d, job[w].token)
        BY <1>1, <1>5, <2>2, <2>4 DEF Settle, row
  <2> QED  BY <2>3, <2>4
<1>6. ASSUME NEW w \in Worker, Crash(w) PROVE S!Next \/ UNCHANGED S!vars
  <2>1. job[w].at \in {"calling", "answered"} /\ job[w].of \in Delivery
        BY <1>6, JobType DEF Crash, Busy, TypeOK, Jobs, Idle
  <2>2. PICK n \in {0, 1} : /\ accepts' = [accepts EXCEPT ![job[w].of] = @ + n]
                            /\ n = 1 => job[w].at = "calling"
    <3>1. PICK n \in (IF job[w].at = "calling" THEN {0, 1} ELSE {0}) :
              accepts' = [accepts EXCEPT ![job[w].of] = @ + n]
          BY <1>6 DEF Crash
    <3>2. n \in {0, 1} /\ (n = 1 => job[w].at = "calling")
          OBVIOUS
    <3> QED  BY <3>1, <3>2
  <2>3. n = 1 => accepts[job[w].of] = 0 /\ state[job[w].of] \in {"sending", "ambiguous"}
        BY <2>2 DEF CallInv
  <2>4. UNCHANGED <<state, reports>>
        BY <1>6 DEF Crash, row
  <2> QED  BY <2>1, <2>2, <2>3, <2>4, CallSends
<1>7. ASSUME NEW d \in Email, NEW k \in EventKinds, EmailEvent(d, k) PROVE S!Next
      BY <1>7, EventReports
<1>8. CASE Tick \/ UNCHANGED vars \/ \E d \in Text : TextReply(d)
      BY <1>1, <1>8 DEF Tick, TextReply, vars, row
<1> QED  BY <1>2, <1>3, <1>4, <1>5, <1>6, <1>7, <1>8 DEF Next

\* The queue implements Sender: leases, claims, retries and crashes are not seen from outside; a
\* message is taken at most once, and not once it was given up; what is told of it is true, and
\* only what Resend reports changes it.
THEOREM QueueImplementsSender == Spec => ImplementsSender
<1>1. Init => S!Init
  <2> SUFFICES ASSUME Init PROVE S!Init
      OBVIOUS
  <2>1. [d \in Delivery |-> Told(state[d])] = [d \in Delivery |-> "none"]
        BY DEF Init, Told
  <2>2. {d \in Delivery : accepts[d] > 0} = {}
        BY DEF Init
  <2>3. [d \in Email |-> {Heard(k) : k \in reports[d]}] = [d \in Email |-> {}]
        BY DEF Init
  <2> QED  BY <2>1, <2>2, <2>3 DEF S!Init
<1>2. QED  BY <1>1, StepSends, Invariance, TypeCorrect, PTL DEF Spec, ImplementsSender, S!Spec
=============================================================================
