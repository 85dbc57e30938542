------------------------------ MODULE Deliveries ------------------------------
(***************************************************************************)
(* The outbound delivery queue of services/deliveries.py: emails, texts    *)
(* and pushes that commands leave as rows of `deliveries`, sent afterwards *)
(* by several dispatchers (the arq sweep run_deliveries and the requests   *)
(* that call send_queued) in two transactions with the provider's call     *)
(* between them, while Resend reports on its sends through webhooks.       *)
(*                                                                         *)
(* Timestamps are kept as the distances the code compares: `wait` is       *)
(* next_at - now (0 once due) and `age` is now - created_at (it stops at   *)
(* Window, the only threshold the code tests).                             *)
(***************************************************************************)
EXTENDS Integers, FiniteSets

CONSTANTS Delivery,     \* ids of the deliveries that may be queued
          Worker,       \* dispatchers: arq jobs and requests
          Email, Text,  \* the deliveries by channel; the rest are pushes
          Inbox,        \* texts that carry an inbox message
          Reserved,     \* addressed to a reserved (demo) email or phone
          Prod,         \* settings.env = "prod"
          LocalSink,    \* the transports reach no one (Mailpit, console)
          Lease,        \* _LEASE, in ticks of the clock
          Retry,        \* _RETRY
          Window        \* _RETRY_WINDOW

ASSUME ChannelAssumption ==
    /\ Email \subseteq Delivery
    /\ Text \subseteq Delivery \ Email
    /\ Inbox \subseteq Text
    /\ Reserved \subseteq Email \cup Text
    /\ Prod \in BOOLEAN
    /\ LocalSink \in BOOLEAN

ASSUME TimeAssumption ==
    /\ Lease \in Nat \ {0}
    /\ Retry \in Nat \ {0}
    /\ Window \in Nat \ {0}

VARIABLES
    state,    \* deliveries.state; "none" before the row is inserted
    wait,     \* deliveries.next_at as ticks left; None for NULL
    claim,    \* deliveries.claim; NoClaim for NULL
    age,      \* now - deliveries.created_at, up to Window
    inbox,    \* messages.status of the inbox message the text carries
    stopped,  \* texts whose number last replied STOP
    job,      \* what each dispatcher is doing
    issued,   \* claim tokens drawn so far
    accepts,  \* times the provider really took the message (external)
    reports   \* Resend events recorded for the email, by kind

row == <<state, wait, claim, age, inbox>>
vars == <<row, stopped, job, issued, accepts, reports>>

None == -1
NoClaim == 0
States == {"none", "queued", "sending", "accepted", "delivered", "failed", "ambiguous"}
EventKinds == {"sent", "delivered", "failure"}

\* What dispatch makes of the provider's answer (lines 176-207).
Outcomes == {"accepted", "queued", "failed", "ambiguous"}
Idle == [at |-> "idle"]
Calling(d, t) == [at |-> "calling", of |-> d, token |-> t]
Answered(d, t, o) == [at |-> "answered", of |-> d, token |-> t, outcome |-> o]
Jobs == [at : {"idle"}]
        \cup [at : {"calling"}, of : Delivery, token : Nat]
        \cup [at : {"answered"}, of : Delivery, token : Nat, outcome : Outcomes]

\* Fault: the sweep forgets the rows a dead dispatcher left sending.
Due_sending_forgotten(d) == state[d] = "queued" /\ wait[d] = 0

Due(d) == state[d] \in {"queued", "sending"} /\ wait[d] = 0

-----------------------------------------------------------------------------
(***************************************************************************)
(* _follow: the inbox message takes the delivery's outcome.                *)
(***************************************************************************)
MessageStatus(s) == IF s = "accepted" THEN "sent" ELSE "failed"

\* Fault: an unconfirmed send is not followed.
Follow_ambiguous_forgotten(d, s) ==
    inbox' = IF d \in Inbox /\ s \in {"accepted", "failed"}
             THEN [inbox EXCEPT ![d] = MessageStatus(s)]
             ELSE inbox

Follow(d, s) ==
    inbox' = IF /\ d \in Inbox
                /\ s \in {"accepted", "failed", "ambiguous"}
                /\ inbox[d] \in (IF s = "accepted" THEN {"queued"} ELSE {"queued", "sent"})
             THEN [inbox EXCEPT ![d] = MessageStatus(s)]
             ELSE inbox

\* The row's columns after dispatch leaves it in state s with next_at = w.
Leave(d, s, w) ==
    /\ state' = [state EXCEPT ![d] = s]
    /\ wait' = [wait EXCEPT ![d] = w]
    /\ claim' = [claim EXCEPT ![d] = NoClaim]
    /\ Follow(d, s)
    /\ UNCHANGED age

-----------------------------------------------------------------------------
Init ==
    /\ state = [d \in Delivery |-> "none"]
    /\ wait = [d \in Delivery |-> None]
    /\ claim = [d \in Delivery |-> NoClaim]
    /\ age = [d \in Delivery |-> 0]
    /\ inbox = [d \in Inbox |-> "queued"]
    /\ stopped = {}
    /\ job = [w \in Worker |-> Idle]
    /\ issued = 0
    /\ accepts = [d \in Delivery |-> 0]
    /\ reports = [d \in Email |-> {}]

(***************************************************************************)
(* enqueue: ON CONFLICT (key) DO NOTHING, so a second enqueue of the same  *)
(* key and content changes nothing.  The row and the inbox message commit  *)
(* together with the caller's command.                                     *)
(***************************************************************************)
Enqueue(d) ==
    /\ state[d] = "none"
    /\ state' = [state EXCEPT ![d] = "queued"]
    /\ wait' = [wait EXCEPT ![d] = 0]
    /\ UNCHANGED <<claim, age, inbox, stopped, job, issued, accepts, reports>>

(***************************************************************************)
(* First transaction of dispatch, under the row's lock.  The branches are  *)
(* the early returns of the function, in its order.                        *)
(***************************************************************************)
\* Fault: an expired lease puts the delivery back in the queue.
ExpireLease_requeues(d) ==
    /\ Due(d)
    /\ state[d] = "sending"
    /\ Leave(d, "queued", 0)
    /\ UNCHANGED <<stopped, job, issued, accepts, reports>>

\* Fault: an expired lease is taken for a failure.
ExpireLease_fails(d) ==
    /\ Due(d)
    /\ state[d] = "sending"
    /\ Leave(d, "failed", None)
    /\ UNCHANGED <<stopped, job, issued, accepts, reports>>

ExpireLease(d) ==
    /\ Due(d)
    /\ state[d] = "sending"
    /\ Leave(d, "ambiguous", None)
    /\ UNCHANGED <<stopped, job, issued, accepts, reports>>

Refused(d) ==
    \/ age[d] >= Window
    \/ d \in Reserved /\ Prod
    \/ d \in Text /\ d \in stopped

Refuse(d) ==
    /\ Due(d)
    /\ state[d] = "queued"
    /\ Refused(d)
    /\ Leave(d, "failed", None)
    /\ UNCHANGED <<stopped, job, issued, accepts, reports>>

Simulate(d) ==
    /\ Due(d)
    /\ state[d] = "queued"
    /\ ~Refused(d)
    /\ d \in Reserved /\ ~LocalSink
    /\ Leave(d, "accepted", None)
    /\ UNCHANGED <<stopped, job, issued, accepts, reports>>

Claim(w, d) ==
    /\ job[w] = Idle
    /\ Due(d)
    /\ state[d] = "queued"
    /\ ~Refused(d)
    /\ d \notin Reserved \/ LocalSink
    /\ issued' = issued + 1
    /\ state' = [state EXCEPT ![d] = "sending"]
    /\ claim' = [claim EXCEPT ![d] = issued + 1]
    /\ wait' = [wait EXCEPT ![d] = Lease]
    /\ job' = [job EXCEPT ![w] = Calling(d, issued + 1)]
    /\ UNCHANGED <<age, inbox, stopped, accepts, reports>>

(***************************************************************************)
(* The provider's call.  Only an error that proves nothing was taken ends  *)
(* as queued or failed; a 5xx, a timeout or a crash leaves it open whether *)
(* the provider took the message.                                          *)
(***************************************************************************)
Took(o) == {n \in {0, 1} : /\ o = "accepted" => n = 1
                           /\ o \in {"queued", "failed"} => n = 0}

Call(w) ==
    /\ job[w].at = "calling"
    /\ \E o \in Outcomes : \E n \in Took(o) :
          /\ job' = [job EXCEPT ![w] = Answered(job[w].of, job[w].token, o)]
          /\ accepts' = [accepts EXCEPT ![job[w].of] = @ + n]
    /\ UNCHANGED <<row, stopped, issued, reports>>

(***************************************************************************)
(* Second transaction of dispatch: the outcome is written only while the   *)
(* row still carries this dispatcher's claim.                              *)
(***************************************************************************)
\* Fault: the outcome is written without comparing the claim.
Fenced_unchecked(d, t) == TRUE

Fenced(d, t) == claim[d] = t /\ state[d] = "sending"

Settle(w) ==
    /\ job[w].at = "answered"
    /\ job' = [job EXCEPT ![w] = Idle]
    /\ LET d == job[w].of IN
       IF Fenced(d, job[w].token)
       THEN Leave(d, job[w].outcome, IF job[w].outcome = "queued" THEN Retry ELSE None)
       ELSE UNCHANGED row
    /\ UNCHANGED <<stopped, issued, accepts, reports>>

\* The process dies; a call in flight may still reach the provider.
Crash(w) ==
    /\ job[w] # Idle
    /\ job' = [job EXCEPT ![w] = Idle]
    /\ \E n \in (IF job[w].at = "calling" THEN {0, 1} ELSE {0}) :
          accepts' = [accepts EXCEPT ![job[w].of] = @ + n]
    /\ UNCHANGED <<row, stopped, issued, reports>>

(***************************************************************************)
(* process_email_event: Resend reports on an email it took.  Each event is *)
(* recorded once (its svix id is the webhook row's key); they arrive in    *)
(* any order.                                                              *)
(***************************************************************************)
EventState(s, k) ==
    IF k = "delivered" /\ s # "failed" THEN "delivered"
    ELSE IF k = "failure" THEN "failed"
    ELSE IF k = "sent" /\ s \in {"queued", "sending", "ambiguous"} THEN "accepted"
    ELSE "unchanged"

EmailEvent(d, k) ==
    /\ accepts[d] > 0
    /\ k \notin reports[d]
    /\ reports' = [reports EXCEPT ![d] = @ \cup {k}]
    /\ LET s == EventState(state[d], k) IN
       IF s = "unchanged"
       THEN UNCHANGED <<state, wait, claim>>
       ELSE /\ state' = [state EXCEPT ![d] = s]
            /\ wait' = [wait EXCEPT ![d] = None]
            /\ claim' = [claim EXCEPT ![d] = NoClaim]
    /\ UNCHANGED <<age, inbox, stopped, job, issued, accepts>>

\* record_text_reply: a STOP or a START from the text's number.
TextReply(d) ==
    /\ stopped' = IF d \in stopped THEN stopped \ {d} ELSE stopped \cup {d}
    /\ UNCHANGED <<row, job, issued, accepts, reports>>

Tick ==
    /\ wait' = [d \in Delivery |-> IF wait[d] > 0 THEN wait[d] - 1 ELSE wait[d]]
    /\ age' = [d \in Delivery |->
                  IF state[d] # "none" /\ age[d] < Window THEN age[d] + 1 ELSE age[d]]
    /\ UNCHANGED <<state, claim, inbox, stopped, job, issued, accepts, reports>>

\* run_deliveries and send_queued reach dispatch for any due delivery.
Dispatch(d) ==
    \/ ExpireLease(d)
    \/ Refuse(d)
    \/ Simulate(d)
    \/ \E w \in Worker : Claim(w, d)

Next ==
    \/ \E d \in Delivery : Enqueue(d) \/ Dispatch(d)
    \/ \E w \in Worker : Call(w) \/ Settle(w) \/ Crash(w)
    \/ \E d \in Email, k \in EventKinds : EmailEvent(d, k)
    \/ \E d \in Text : TextReply(d)
    \/ Tick

Spec == Init /\ [][Next]_vars

(***************************************************************************)
(* Fairness: the worker's cron runs run_deliveries every minute, whatever  *)
(* became of earlier dispatchers, and time passes.  No dispatcher is       *)
(* assumed to get an answer or to survive.                                 *)
(***************************************************************************)
Fairness == WF_vars(Tick) /\ \A d \in Delivery : WF_vars(Dispatch(d))

FairSpec == Spec /\ Fairness

-----------------------------------------------------------------------------
TypeOK ==
    /\ state \in [Delivery -> States]
    /\ wait \in [Delivery -> Nat \cup {None}]
    /\ claim \in [Delivery -> Nat]
    /\ age \in [Delivery -> 0..Window]
    /\ inbox \in [Inbox -> {"queued", "sent", "failed"}]
    /\ stopped \subseteq Text
    /\ job \in [Worker -> Jobs]
    /\ issued \in Nat
    /\ accepts \in [Delivery -> Nat]
    /\ reports \in [Email -> SUBSET EventKinds]

\* However dispatchers crash, overrun their lease or race each other, and
\* whatever the provider answers, it takes each message at most once: dispatch
\* requeues only what provably never went, and never what it is unsure of.
AtMostOnce == \A d \in Delivery : accepts[d] <= 1

\* The state a delivery shows is the truth about the provider: queued and an
\* undisputed failed mean it never took the message, accepted and delivered
\* mean it did (unless the send was simulated for a reserved address).
Honest ==
    \A d \in Delivery :
        /\ state[d] \in {"none", "queued"} => accepts[d] = 0
        /\ (state[d] = "failed" /\ (d \in Email => "failure" \notin reports[d]))
              => accepts[d] = 0
        /\ (state[d] \in {"accepted", "delivered"} /\ d \notin Reserved)
              => accepts[d] = 1

\* The inbox shows a text's own delivery: queued while it may still go, sent
\* once the provider took it, failed when it was refused or is unconfirmed.
InboxAgrees ==
    \A d \in Inbox :
        inbox[d] = CASE state[d] \in {"none", "queued", "sending"} -> "queued"
                     [] state[d] = "accepted" -> "sent"
                     [] OTHER -> "failed"

\* The queue as its users see it: a lease, a claim or a retry does not show, an unconfirmed
\* send is unknown.
Told(s) ==
    CASE s \in {"queued", "sending"} -> "open"
      [] s = "accepted" -> "sent"
      [] s = "ambiguous" -> "unknown"
      [] OTHER -> s

Heard(k) == IF k = "failure" THEN "failed" ELSE k

S == INSTANCE Sender WITH
         Message <- Delivery,
         Pretended <- Reserved,
         Reported <- Email,
         status <- [d \in Delivery |-> Told(state[d])],
         taken <- {d \in Delivery : accepts[d] > 0},
         heard <- [d \in Email |-> {Heard(k) : k \in reports[d]}]

\* The queue implements Sender: once it told what became of a message no dispatcher moves it,
\* however late its answer, only Resend's reports do, in whatever order they come, and a message
\* it gave up as failed is never taken afterwards.
ImplementsSender == S!Spec

\* Every queued delivery is eventually out of the queue, even if every
\* dispatcher dies and the provider only ever asks for a retry.
Settles ==
    \A d \in Delivery :
        state[d] = "queued" ~> state[d] \notin {"queued", "sending"}
=============================================================================
