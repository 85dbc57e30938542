---------------------------- MODULE GoogleReplies ----------------------------
(***************************************************************************)
(* The replies a business writes to one of its Google reviews              *)
(* (services/reviews.py): GoogleReviewService and run_google_operations.   *)
(*                                                                         *)
(* A reply is queued as an operation and written to Google by a job.       *)
(* Google takes no condition with a write and does not know a second one   *)
(* from the first, so a write whose answer was lost is only ever read      *)
(* back.  Writers take one advisory lock for the business, but commit      *)
(* (and lose it) twice in the middle, and the cancellation of week-old     *)
(* operations and of those whose author is no manager take no lock at all. *)
(***************************************************************************)
EXTENDS Naturals

CONSTANTS
    Operation,
    Job,       \* overlapping runs of the cron, each at one of its due operations
    Text,      \* what a reply may say
    MaxGen,    \* bounds the generations of the connection
    MaxEdits,  \* bounds the edits made on Google
    None

ASSUME RepliesAssumption ==
    /\ None \notin Text
    /\ None \notin Job
    /\ MaxGen \in Nat /\ MaxEdits \in Nat

VARIABLES
    conn,     \* GoogleBusinessConnection.state
    gen,      \* its generation
    lock,     \* who holds google_lock
    state,    \* state[o]: "none" before the operation is queued
    made,     \* made[o]: its generation, what it asks for, and the revision its author saw
    erased,   \* the operations whose request was erased from the row
    leased,   \* lease_until is ahead
    old,      \* created seven days ago
    job,
    reply,    \* the reply at Google and its revision
    edits,    \* how often the reply has changed
    wire,     \* wire[o]: the write request of o
    shown     \* the operations whose wish Google has fulfilled since they were queued

row == <<state, erased>>
google == <<reply, edits, shown>>
vars == <<conn, gen, lock, row, made, leased, old, job, google, wire>>

Pending == {"queued", "running", "unknown"}
Ended == {"confirmed", "failed", "canceled"}

Wish == Text \cup {None}   \* None: the reply is to be deleted
NoReply == [text |-> None, rev |-> 0]
Idle == [at |-> "idle", of |-> None, saw |-> "none", blank |-> FALSE]

TypeOK ==
    /\ conn \in {"selecting", "active", "reconnect_required", "disconnected"}
    /\ gen \in Nat \ {0}
    /\ lock \in Job \cup {None}
    /\ state \in [Operation -> Pending \cup Ended \cup {"none"}]
    /\ made \in [Operation -> [gen : Nat, wish : Wish, seen : Nat]]
    /\ erased \subseteq Operation /\ leased \subseteq Operation
    /\ old \subseteq Operation /\ shown \subseteq Operation
    /\ job \in [Job -> {Idle} \cup
                  [at : {"found", "reading", "revoked", "armed", "sent"}, of : Operation,
                   saw : Pending, blank : BOOLEAN]]
    /\ reply \in [text : Wish, rev : Nat]
    /\ edits \in Nat
    /\ wire \in [Operation -> {"none", "flying", "landed", "lost", "refused"}]

\* The write may have changed the reply, or may yet.
MayCount(o) == wire[o] \in {"flying", "landed", "lost"}

Waits(o) == state[o] \in Pending

------------------------------------------------------------------------------
(* Writing rows. *)

\* The rows of O reach s; what has ended keeps no request.
Set(O, s) ==
    /\ state' = [o \in Operation |-> IF o \in O THEN s ELSE state[o]]
    /\ erased' = IF s \in Ended THEN erased \cup O ELSE erased

\* A session writes only what it changed: a state it has read and set again is not saved.
Save(o, saw, s) == IF s = saw THEN UNCHANGED row ELSE Set({o}, s)

------------------------------------------------------------------------------
(* The connection.  Each of these is one transaction behind google_lock. *)

cancelOperations == Set({o \in Operation : Waits(o)}, "canceled")

Renew(s) ==
    /\ lock = None
    /\ gen < MaxGen
    /\ conn' = s
    /\ gen' = gen + 1
    /\ cancelOperations
    /\ UNCHANGED <<lock, made, leased, old, job, google, wire>>

\* complete
Authorize == Renew("selecting")

\* select: any account and location of those Google lists, the same ones again too.
Select == conn # "disconnected" /\ Renew("active")

Disconnect == conn # "disconnected" /\ Renew("disconnected")

\* token, for a status, a list or an invitation: Google no longer takes the refresh token.
TokenRefused ==
    /\ lock = None
    /\ conn # "disconnected"
    /\ conn' = "reconnect_required"
    /\ UNCHANGED <<gen, lock, row, made, leased, old, job, google, wire>>

\* queue_reply: what the author saw may have changed since.
Queue(o, wish, seen) ==
    /\ lock = None
    /\ conn = "active"
    /\ state[o] = "none"
    /\ \A p \in Operation : ~Waits(p)
    /\ made' = [made EXCEPT ![o] = [gen |-> gen, wish |-> wish, seen |-> seen]]
    /\ Set({o}, "queued")
    /\ shown' = IF reply.text = wish THEN shown \cup {o} ELSE shown
    /\ UNCHANGED <<conn, gen, lock, leased, old, job, reply, edits, wire>>

------------------------------------------------------------------------------
(* run_google_operations and execute_operation. *)

At(j, at, o) == job[j].at = at /\ job[j].of = o

Leave(j) ==
    /\ job' = [job EXCEPT ![j] = Idle]
    /\ lock' = IF lock = j THEN None ELSE lock

Find(j, o) ==
    /\ job[j] = Idle
    /\ Waits(o) /\ o \notin leased
    /\ job' = [job EXCEPT ![j] = [at |-> "found", of |-> o, saw |-> state[o], blank |-> FALSE]]
    /\ UNCHANGED <<conn, gen, lock, row, made, leased, old, google, wire>>

\* Its author is no longer an active manager.  The row is not read again.
NotManager(j, o) ==
    /\ At(j, "found", o)
    /\ Set({o}, "canceled")
    /\ Leave(j)
    /\ UNCHANGED <<conn, gen, made, leased, old, google, wire>>

Current(o) == conn = "active" /\ made[o].gen = gen /\ o \notin old

\* The row is read again behind the lock.
TurnAway(j, o) ==
    /\ At(j, "found", o) /\ lock = None
    /\ \/ ~Waits(o) /\ UNCHANGED row
       \/ Waits(o) /\ ~Current(o) /\ Set({o}, "canceled")
    /\ Leave(j)
    /\ UNCHANGED <<conn, gen, made, leased, old, google, wire>>

Enter(j, o) ==
    /\ At(j, "found", o) /\ lock = None
    /\ Waits(o) /\ Current(o)
    /\ lock' = j
    /\ job' = [job EXCEPT ![j] = [at |-> "reading", of |-> o, saw |-> state[o],
                                  blank |-> o \in erased]]
    /\ UNCHANGED <<conn, gen, row, made, leased, old, google, wire>>

\* A write of the operation may be on its way or done.
Reconciling(j) == job[j].saw \in {"running", "unknown"}

\* Fault: a failed readback queues the operation again.
AfterError_requeued(j) == {"failed", "queued"}

\* An error before the write.
AfterError(j) == IF Reconciling(j) THEN {"unknown"} ELSE {"failed", "queued"}

\* The request cannot be opened, the review not be read.
CannotRead(j, o) ==
    /\ At(j, "reading", o)
    /\ \E s \in AfterError(j) : Save(o, job[j].saw, s)
    /\ Leave(j)
    /\ UNCHANGED <<conn, gen, made, leased, old, google, wire>>

\* token commits and lets go of the lock before it raises.
Revoked(j, o) ==
    /\ At(j, "reading", o)
    /\ conn' = "reconnect_required"
    /\ lock' = None
    /\ job' = [job EXCEPT ![j].at = "revoked"]
    /\ UNCHANGED <<gen, row, made, leased, old, google, wire>>

AfterRevoked(j, o) ==
    /\ At(j, "revoked", o)
    /\ Save(o, job[j].saw, IF Reconciling(j) THEN "unknown" ELSE "failed")
    /\ Leave(j)
    /\ UNCHANGED <<conn, gen, made, leased, old, google, wire>>

\* The review and the request of o can be read.  An erased one asks for a deletion or for nothing.
CanRead(j, o) == At(j, "reading", o) /\ (job[j].blank => made[o].wish = None)

Expected(j, o) == IF job[j].blank THEN 0 ELSE made[o].seen

Matches(j, o) ==
    /\ CanRead(j, o)
    /\ reply.text = made[o].wish
    /\ Save(o, job[j].saw, "confirmed")
    /\ Leave(j)
    /\ UNCHANGED <<conn, gen, made, leased, old, google, wire>>

Differs(j, o) ==
    /\ CanRead(j, o)
    /\ reply.text # made[o].wish
    /\ \/ Reconciling(j) /\ Save(o, job[j].saw, "unknown")
       \/ ~Reconciling(j) /\ reply.rev # Expected(j, o) /\ Save(o, job[j].saw, "failed")
    /\ Leave(j)
    /\ UNCHANGED <<conn, gen, made, leased, old, google, wire>>

\* The attempt is saved before the write, which gives up the lock.
Arm(j, o) ==
    /\ CanRead(j, o)
    /\ reply.text # made[o].wish
    /\ ~Reconciling(j) /\ reply.rev = Expected(j, o)
    /\ Save(o, job[j].saw, "running")
    /\ leased' = leased \cup {o}
    /\ lock' = None
    /\ job' = [job EXCEPT ![j].at = "armed"]
    /\ UNCHANGED <<conn, gen, made, old, google, wire>>

\* Fault: what was read before the commit is taken to hold behind the lock.
StillGood_assumed(o) == TRUE

\* Both rows are read again behind the lock.
StillGood(o) == made[o].gen = gen /\ state[o] = "running"

Desist(j, o) ==
    /\ At(j, "armed", o) /\ lock = None
    /\ ~StillGood(o)
    /\ Leave(j)
    /\ UNCHANGED <<conn, gen, row, made, leased, old, google, wire>>

Send(j, o) ==
    /\ At(j, "armed", o) /\ lock = None
    /\ StillGood(o)
    /\ lock' = j
    /\ job' = [job EXCEPT ![j].at = "sent"]
    /\ wire' = [wire EXCEPT ![o] = "flying"]
    /\ UNCHANGED <<conn, gen, row, made, leased, old, google>>

Answer(j, o) ==
    /\ At(j, "sent", o)
    /\ wire[o] = "landed"
    /\ Set({o}, "confirmed")
    /\ Leave(j)
    /\ UNCHANGED <<conn, gen, made, leased, old, google, wire>>

\* Google rejects the write for good or for now.
Refuse(j, o) ==
    /\ At(j, "sent", o)
    /\ wire[o] = "flying"
    /\ wire' = [wire EXCEPT ![o] = "refused"]
    /\ \E s \in {"failed", "queued"} : Set({o}, s)
    /\ Leave(j)
    /\ UNCHANGED <<conn, gen, made, leased, old, google>>

\* Fault: a write without an answer counts as failed.
Unanswered_failed == "failed"

Unanswered == "unknown"

\* The answer is lost, late or unreadable.
GiveUp(j, o) ==
    /\ At(j, "sent", o)
    /\ Set({o}, Unanswered)
    /\ Leave(j)
    /\ UNCHANGED <<conn, gen, made, leased, old, google, wire>>

\* The worker dies: its transaction is rolled back, its lock is free.
Crash(j) ==
    /\ job[j] # Idle
    /\ Leave(j)
    /\ UNCHANGED <<conn, gen, row, made, leased, old, google, wire>>

------------------------------------------------------------------------------
(* Time and Google. *)

LeaseEnds(o) ==
    /\ o \in leased
    /\ leased' = leased \ {o}
    /\ UNCHANGED <<conn, gen, lock, row, made, old, job, google, wire>>

Age(o) ==
    /\ state[o] # "none" /\ o \notin old
    /\ old' = old \cup {o}
    /\ UNCHANGED <<conn, gen, lock, row, made, leased, job, google, wire>>

\* Fault: an operation of unknown outcome is left for the readback to settle.
Overdue_untried(o) == o \in old /\ state[o] \in {"queued", "running"}

Overdue(o) == o \in old /\ Waits(o)

\* The job's first statement.  It takes no lock.
Expire ==
    /\ \E o \in Operation : Overdue(o)
    /\ Set({o \in Operation : Overdue(o)}, "canceled")
    /\ UNCHANGED <<conn, gen, lock, made, leased, old, job, google, wire>>

\* The reply changes to text.
Change(text) ==
    /\ edits' = edits + 1
    /\ reply' = IF text = None THEN NoReply ELSE [text |-> text, rev |-> edits + 1]
    /\ shown' = shown \cup {o \in Operation : state[o] # "none" /\ made[o].wish = text}

\* The write takes effect at Google, however late.
Land(o) ==
    /\ wire[o] = "flying"
    /\ wire' = [wire EXCEPT ![o] = "landed"]
    /\ Change(made[o].wish)
    /\ UNCHANGED <<conn, gen, lock, row, made, leased, old, job>>

Lose(o) ==
    /\ wire[o] = "flying"
    /\ wire' = [wire EXCEPT ![o] = "lost"]
    /\ UNCHANGED <<conn, gen, lock, row, made, leased, old, job, google>>

\* Someone edits the reply on Google itself.
Edit(text) ==
    /\ edits < MaxEdits
    /\ text # reply.text
    /\ Change(text)
    /\ UNCHANGED <<conn, gen, lock, row, made, leased, old, job, wire>>

------------------------------------------------------------------------------
Init ==
    /\ conn = "disconnected" /\ gen = 1 /\ lock = None
    /\ state = [o \in Operation |-> "none"]
    /\ made = [o \in Operation |-> [gen |-> 0, wish |-> None, seen |-> 0]]
    /\ erased = {} /\ leased = {} /\ old = {}
    /\ job = [j \in Job |-> Idle]
    /\ reply = NoReply /\ edits = 0
    /\ wire = [o \in Operation |-> "none"]
    /\ shown = {}

Execute(j, o) ==
    \/ Find(j, o) \/ NotManager(j, o) \/ TurnAway(j, o) \/ Enter(j, o)
    \/ CannotRead(j, o) \/ Revoked(j, o) \/ AfterRevoked(j, o)
    \/ Matches(j, o) \/ Differs(j, o) \/ Arm(j, o)
    \/ Desist(j, o) \/ Send(j, o) \/ Answer(j, o) \/ Refuse(j, o) \/ GiveUp(j, o)

Next ==
    \/ Authorize \/ Select \/ Disconnect \/ TokenRefused
    \/ \E o \in Operation, wish \in Wish, seen \in 0 .. edits : Queue(o, wish, seen)
    \/ \E j \in Job, o \in Operation : Execute(j, o)
    \/ \E j \in Job : Crash(j)
    \/ \E o \in Operation : LeaseEnds(o) \/ Age(o) \/ Land(o) \/ Lose(o)
    \/ \E text \in Wish : Edit(text)
    \/ Expire

\* Weeks pass and the cron goes on; nothing is asked of Google, or of a job that has begun.
Fairness == WF_vars(\E o \in Operation : Age(o)) /\ WF_vars(Expire)

Spec == Init /\ [][Next]_vars /\ Fairness

------------------------------------------------------------------------------
(* Properties. *)

\* A write is sent only while no earlier one of its operation may count and while the connection
\* it was asked for stands: an uncertain write is read back and never becomes a second one, and a
\* job that waited for the lock does not write for a connection cut meanwhile.
OnlySafeWrites ==
    [][\A o \in Operation :
          wire'[o] = "flying" /\ wire[o] # "flying"
              => ~MayCount(o) /\ conn # "disconnected" /\ made[o].gen = gen]_vars

\* A reply said to be published has been at Google since it was asked for, and one said to have
\* failed never gets there.
HonestReply ==
    \A o \in Operation :
        /\ state[o] = "confirmed" => o \in shown
        /\ state[o] = "failed" => ~MayCount(o)

\* Every reply comes to an end for good, whatever Google answers and however often a job dies.
Ends ==
    \A o \in Operation : Waits(o) ~> [](state[o] \in Ended)
=============================================================================
