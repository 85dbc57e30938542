--------------------------- MODULE BookingDeposits ---------------------------
(***************************************************************************)
(* The deposit of one visit (services/bookings.py, public.py, payments.py, *)
(* and the same steps in staff.py and programs.py).                        *)
(*                                                                         *)
(* The deposit is asked for through Stripe intents.  The visit's link      *)
(* opens one behind the lock of the visit's row, under a key that counts   *)
(* the attempts closed before it; staff may open one at the desk without   *)
(* that lock; a no-show charges the client's default card.  A command that *)
(* replaces the attempts or ends the visit takes the locks of their rows   *)
(* and cancels each at Stripe, where it may have been paid by then.  The   *)
(* settlement of a paid intent takes the two locks in the other order: the *)
(* payment's row, then the visit's, which it has read before.              *)
(* Handlers of Stripe's events decide by a row they read without a lock    *)
(* and write when they get it: any number of them may have read it as      *)
(* pending once it was, and write over what it has become since.           *)
(*                                                                         *)
(* A transaction's writes are seen when it commits; what it does at Stripe *)
(* is done at once, and stays done if it is rolled back.  Amounts, the     *)
(* application to an invoice and disputes are left out.                    *)
(***************************************************************************)
EXTENDS Naturals, FiniteSets

CONSTANTS
    MaxClosed,   \* bound: the closed attempts the link's key counts
    Attempts,    \* bound: the transactions begun on the visit, the settlements lost and the
                 \* news written over rows that are no longer open
    Form,        \* the intent of the form opened at the desk while none was closed
    Chosen,      \* the intent that charges a saved card chosen at the desk
    Card,        \* the intent that charges the default card for a no-show
    None

Link == 0 .. MaxClosed
Intent == Link \cup {Form, Chosen, Card}

ASSUME DepositsAssumption ==
    /\ MaxClosed \in Nat /\ Attempts \in Nat
    /\ Form # Card /\ Chosen \notin {Form, Card} /\ {Form, Chosen, Card} \cap Nat = {}
    /\ None \notin Intent

VARIABLES
    visit,    \* the booking row: its status and deposit_status
    online,   \* its source is "online"
    begun,    \* its start has passed
    stripe,   \* stripe[i]: what Stripe holds of intent i
    row,      \* row[i]: the status of the payment row of intent i
    back,     \* back[i]: the refund of the deposit paid with i
    opened,   \* the intents whose row a request committed, for anybody to read as pending
    atDesk,   \* those whose row the desk committed
    posted,   \* the intents whose money the ledger has booked
    txn,      \* the transaction that holds the visit's row, and the one at the desk
    settle,   \* settle[i]: how far the settlement of i is, and the visit as it read it
    left      \* what is left of Attempts

desk == <<opened, atDesk>>
money == <<stripe, row, back, desk, posted>>
vars == <<visit, online, begun, money, txn, settle, left>>

Visit == [status : {"pending", "confirmed", "canceled", "completed", "no_show"},
          deposit : {"none", "pending", "collected", "forfeited", "refunded"}]

Closer == {"cancel", "complete"}
Jobs == {"reap", "expire"}
Kind == {"link", "form", "saved", "noshow"} \cup Closer \cup Jobs

Txn == {"visit", "desk"}
Idle == [kind |-> "idle", at |-> "idle", key |-> None, rows |-> {}, todo |-> {}]
Work == [kind : Kind, at : {"opened", "waiting", "holding", "checked", "charged"},
         key : Intent \cup {None}, rows : SUBSET Intent, todo : SUBSET Intent]

NotSettling == [at |-> "idle", saw |-> None]

TypeOK ==
    /\ visit \in Visit
    /\ online \in BOOLEAN /\ begun \in BOOLEAN
    /\ stripe \in [Intent -> {"absent", "open", "paid", "canceled"}]
    /\ row \in [Intent -> {"none", "pending", "failed", "canceled", "succeeded"}]
    /\ back \in [Intent -> {"none", "pending", "done", "failed"}]
    /\ opened \subseteq Intent /\ atDesk \subseteq Intent /\ posted \subseteq Intent
    /\ txn \in [Txn -> Work \cup {Idle}]
    /\ settle \in [Intent -> [at : {"idle", "paid", "saw"}, saw : Visit \cup {None}]]
    /\ left \in 0 .. Attempts

-----------------------------------------------------------------------------
\* Rows and locks.

Open == {i \in Intent : row[i] \in {"pending", "failed"}}
Settled == {i \in Intent : row[i] = "succeeded"}
Closed == Cardinality({i \in Intent : row[i] \in {"failed", "canceled"}})
HeldOf(p, b) == {i \in p : b[i] # "done"}

Due == visit.status \in {"pending", "confirmed"} /\ visit.deposit = "pending"
Live == visit.status \in {"pending", "confirmed"}

Settling(i) == settle[i].at # "idle"

\* A row waits for whoever has written or selected it FOR UPDATE and not committed.
Busy(i) == Settling(i) \/ \E t \in Txn : txn[t].at = "holding" /\ i \in txn[t].rows

\* The visit's row is free for a reader.  A settlement that inserts its payment row
\* keeps the row it refers to from being locked.
Writable == txn["visit"] = Idle
Unlocked == Writable /\ \A i \in Intent : ~(Settling(i) /\ row[i] = "none")

Begin(t, kind, at, key) ==
    /\ txn[t] = Idle /\ left > 0
    /\ left' = left - 1
    /\ txn' = [txn EXCEPT ![t] =
                 [kind |-> kind, at |-> at, key |-> key, rows |-> {}, todo |-> {}]]

GoOn(t, at, rows, todo) ==
    txn' = [txn EXCEPT ![t] = [kind |-> txn[t].kind, at |-> at, key |-> txn[t].key,
                               rows |-> rows, todo |-> todo]]

End(t) == txn' = [txn EXCEPT ![t] = Idle]

\* refund_deposit: everything that is paid and not asked back, unless a refund is pending.
Returned(r, b, how) ==
    IF \E i \in Intent : b[i] = "pending" THEN b
    ELSE [i \in Intent |-> IF r[i] = "succeeded" /\ b[i] # "done" THEN how ELSE b[i]]

\* Fault: a refund is taken for the end of the deposit without looking at what is held.
DepositAfter_refunded(p, b) == "refunded"

DepositAfter(p, b) == IF HeldOf(p, b) = {} THEN "refunded" ELSE "collected"

-----------------------------------------------------------------------------
\* Opening an attempt.

Create(t, kind, key) ==
    /\ key \in Intent /\ row[key] = "none"
    /\ Begin(t, kind, "opened", key)
    /\ stripe' = [stripe EXCEPT ![key] = IF @ = "absent" THEN "open" ELSE @]
    /\ UNCHANGED <<visit, online, begun, row, back, desk, posted, settle>>

OpenLink == Unlocked /\ Due /\ Create("visit", "link", Closed)

FormKey == IF Closed = 0 THEN Form ELSE Closed
OpenForm == Settled = {} /\ Create("desk", "form", FormKey)

\* Ending a visit whose deposit is due.
Ends(kind) ==
    \/ kind = "cancel"
    \/ kind = "complete" /\ begun
    \/ kind = "reap" /\ online /\ ~begun /\ Settled = {} /\ \E i \in Intent : row[i] # "none"
    \/ kind = "expire" /\ begun /\ visit.status = "pending"

Enter(kind) ==
    /\ Unlocked /\ Due /\ Ends(kind)
    /\ Begin("visit", kind, "opened", None)
    /\ UNCHANGED <<visit, online, begun, money, settle>>

\* cancel_open_deposits: the rows as the query finds them, then behind their locks.
Look(t) ==
    /\ txn[t].at = "opened"
    /\ GoOn(t, "waiting", Open, {})
    /\ UNCHANGED <<visit, online, begun, money, settle, left>>

\* Fault: a command passes over rows a settlement holds instead of waiting.
Take_some(t) ==
    /\ txn[t].at = "waiting" /\ txn[t].kind \notin Jobs
    /\ LET free == {i \in txn[t].rows \cap Open : ~Busy(i)} IN GoOn(t, "holding", free, free)
    /\ UNCHANGED <<visit, online, begun, money, settle, left>>

Take(t) ==
    /\ txn[t].at = "waiting" /\ txn[t].kind \notin Jobs
    /\ \A i \in txn[t].rows : ~Busy(i)
    /\ GoOn(t, "holding", txn[t].rows \cap Open, txn[t].rows \cap Open)
    /\ UNCHANGED <<visit, online, begun, money, settle, left>>

\* Fault: the job only asks for rows that are free, and not whether it got all of them.
TakeFree_some(t) ==
    /\ txn[t].at = "waiting" /\ txn[t].kind \in Jobs
    /\ LET free == {i \in Open : ~Busy(i)} IN GoOn(t, "holding", free, free)
    /\ UNCHANGED <<visit, online, begun, money, settle, left>>

\* A job passes over a visit one of whose deposits is locked or paid.
TakeFree(t) ==
    /\ txn[t].at = "waiting" /\ txn[t].kind \in Jobs
    /\ IF \E i \in Intent : row[i] # "none" /\ (Busy(i) \/ row[i] = "succeeded")
         THEN End(t)
         ELSE GoOn(t, "holding", Open, Open)
    /\ UNCHANGED <<visit, online, begun, money, settle, left>>

Void(t, i) ==
    /\ i \in txn[t].todo
    /\ GoOn(t, txn[t].at, txn[t].rows, txn[t].todo \ {i})
    /\ stripe' = [stripe EXCEPT ![i] = IF @ = "open" THEN "canceled" ELSE @]
    /\ UNCHANGED <<visit, online, begun, row, back, desk, posted, settle, left>>

\* Fault: every attempt is marked canceled, the one Stripe refused to cancel too.
Voided_all(t) == txn[t].rows \ txn[t].todo

Voided(t) == {i \in txn[t].rows \ txn[t].todo : stripe[i] = "canceled"}

\* Fault: a new attempt opens although an earlier one could not be canceled.
Cleared_anyway(t) == txn[t].todo = {}

Cleared(t) == Voided(t) = txn[t].rows
RowsAfter(t) == [i \in Intent |-> IF i \in Voided(t) THEN "canceled" ELSE row[i]]

Holding(t, kinds) == txn[t].at = "holding" /\ txn[t].kind \in kinds

\* A request's new row is committed.
Note(t) ==
    /\ opened' = opened \cup {txn[t].key}
    /\ atDesk' = IF t = "desk" THEN atDesk \cup {txn[t].key} ELSE atDesk

\* The new row refers to the visit's, so the desk waits for that one here.
Opened(t) ==
    /\ Holding(t, {"link", "form"}) /\ Cleared(t)
    /\ t = "desk" => Writable
    /\ IF row[txn[t].key] = "none"
         THEN row' = [RowsAfter(t) EXCEPT ![txn[t].key] = "pending"] /\ Note(t)
         ELSE UNCHANGED <<row, desk>>
    /\ End(t)
    /\ UNCHANGED <<visit, online, begun, stripe, back, posted, settle, left>>

InProgress(t) ==
    /\ Holding(t, {"link", "form"}) /\ txn[t].todo = {} /\ ~Cleared(t)
    /\ stripe' = [stripe EXCEPT ![txn[t].key] = IF @ = "open" THEN "canceled" ELSE @]
    /\ End(t)
    /\ UNCHANGED <<visit, online, begun, row, back, desk, posted, settle, left>>

Finish ==
    /\ Holding("visit", Closer) /\ txn["visit"].todo = {}
    /\ row' = RowsAfter("visit")
    /\ visit' = [status |-> IF txn["visit"].kind = "cancel" THEN "canceled" ELSE "completed",
                 deposit |-> "none"]
    /\ End("visit")
    /\ UNCHANGED <<online, begun, stripe, back, desk, posted, settle, left>>

\* Stripe may fail halfway: the rows closed by then stay closed and the visit waits.
FinishJob ==
    /\ Holding("visit", Jobs)
    /\ row' = RowsAfter("visit")
    /\ visit' = IF Cleared("visit") THEN [status |-> "canceled", deposit |-> "none"] ELSE visit
    /\ End("visit")
    /\ UNCHANGED <<online, begun, stripe, back, desk, posted, settle, left>>

\* The process dies, Stripe fails, or a deadlock is resolved against the transaction.
Quit(t) ==
    /\ txn[t] # Idle
    /\ End(t)
    /\ UNCHANGED <<visit, online, begun, money, settle, left>>

-----------------------------------------------------------------------------
\* Changes that leave the open attempts alone.

Change(status, deposit) ==
    /\ Unlocked /\ Live
    /\ visit' = [status |-> status, deposit |-> deposit]
    /\ UNCHANGED <<online, begun, stripe, row, desk, posted, txn, settle, left>>

\* deposit_status after refund_deposit, which looks at the deposit again if it returned any.
DepositLeft(p, b) == IF b = back THEN "collected" ELSE DepositAfter(p, b)

CancelPaid ==
    /\ visit.deposit # "pending"
    /\ \/ \E how \in {"pending", "done"} :
            /\ visit.deposit = "collected" /\ \A i \in Settled : ~Busy(i)
            /\ back' = Returned(row, back, how)
            /\ Change("canceled", DepositLeft(posted, back'))
       \/ back' = back /\ Change("canceled", visit.deposit)

CompletePaid == visit.deposit # "pending" /\ begun /\ back' = back /\ Change("completed", visit.deposit)

\* The nightly job, or the payment of the visit's bill, completes a confirmed visit.
AutoComplete ==
    /\ begun /\ visit.status = "confirmed" /\ back' = back
    /\ Change("completed", IF visit.deposit = "pending" THEN "none" ELSE visit.deposit)

\* A no-show keeps a collected deposit; one under way, or no card that works, leaves it due.
NoShow ==
    /\ begun /\ back' = back
    /\ Change("no_show", IF visit.deposit = "collected" THEN "forfeited" ELSE visit.deposit)

Undo ==
    /\ Unlocked /\ visit.status = "no_show" /\ visit.deposit # "forfeited"
    /\ visit' = [status |-> "confirmed", deposit |-> visit.deposit]
    /\ UNCHANGED <<online, begun, money, txn, settle, left>>

\* A saved card is charged as its intent is created, after a look that finds no attempt under
\* way or paid: the default card for a no-show, or the one chosen at the desk.
Saved(t, kind, key) ==
    /\ \A i \in Intent : row[i] \in {"none", "failed", "canceled"}
    /\ Begin(t, kind, "checked", key)
    /\ UNCHANGED <<visit, online, begun, money, settle>>

Charge == Unlocked /\ Due /\ begun /\ Saved("visit", "noshow", Card)
ChargeSaved == Saved("desk", "saved", Chosen)

Swipe(t) ==
    /\ txn[t].at = "checked"
    /\ GoOn(t, "charged", {}, {})
    /\ stripe' = [stripe EXCEPT ![txn[t].key] = "paid"]
    /\ UNCHANGED <<visit, online, begun, row, back, desk, posted, settle, left>>

Charged(t) ==
    /\ txn[t].at = "charged"
    /\ t = "desk" => Writable
    /\ IF row[txn[t].key] = "none"
         THEN row' = [row EXCEPT ![txn[t].key] = "pending"] /\ Note(t)
         ELSE UNCHANGED <<row, desk>>
    /\ visit' = IF t = "visit" THEN [visit EXCEPT !.status = "no_show"] ELSE visit
    /\ End(t)
    /\ UNCHANGED <<online, begun, stripe, back, posted, settle, left>>

-----------------------------------------------------------------------------
\* Settlement of a paid intent: its payment row, a look at the visit, the visit's row.

\* A handler of an event about intent i writes its row with what it decided when it read it.
\* There is no bound on how many may have read it while it was open, so that one that finds it
\* closed by now is counted.
Written(i, old) ==
    /\ ~Busy(i)
    /\ IF row[i] \in old THEN left' = left ELSE i \in opened /\ left > 0 /\ left' = left - 1

\* Fault: an attempt once declined is taken for closed.
Claim_pending(i) ==
    /\ stripe[i] = "paid" /\ row[i] \in {"none", "pending"} /\ Written(i, {"none", "pending"})
    /\ row[i] = "none" => Writable
    /\ settle' = [settle EXCEPT ![i] = [at |-> "paid", saw |-> None]]
    /\ UNCHANGED <<visit, online, begun, money, txn>>

Claim(i) ==
    /\ stripe[i] = "paid" /\ Written(i, {"none", "pending", "failed"})
    /\ row[i] = "none" => Writable
    /\ settle' = [settle EXCEPT ![i] = [at |-> "paid", saw |-> None]]
    /\ UNCHANGED <<visit, online, begun, money, txn>>

See(i) ==
    /\ settle[i].at = "paid"
    /\ settle' = [settle EXCEPT ![i] = [at |-> "saw", saw |-> visit]]
    /\ UNCHANGED <<visit, online, begun, money, txn, left>>

Late(v) == v.status = "canceled" \/ (v.status = "completed" /\ v.deposit = "none")

Settle(i) ==
    /\ settle[i].at = "saw"
    /\ row' = [row EXCEPT ![i] = "succeeded"]
    /\ posted' = posted \cup {i}
    /\ LET saw == settle[i].saw
           write(d) == IF d = saw.deposit THEN visit' = visit
                       ELSE Writable /\ visit' = [visit EXCEPT !.deposit = d]
       IN  \/ /\ Late(saw) /\ \A j \in Settled \ {i} : ~Busy(j)
              /\ \E how \in {"pending", "done"} : back' = Returned(row', back, how)
              /\ Writable /\ visit' = [visit EXCEPT !.deposit = DepositLeft(posted', back')]
           \/ saw.status = "no_show" /\ back' = back /\ write("forfeited")
           \/ ~Late(saw) /\ saw.status # "no_show" /\ back' = back /\ write("collected")
    /\ settle' = [settle EXCEPT ![i] = NotSettling]
    /\ UNCHANGED <<online, begun, stripe, desk, txn, left>>

\* Rolled back; Stripe sends the event again and the hourly reconciliation looks for it.
Drop(i) ==
    /\ Settling(i) /\ left > 0
    /\ left' = left - 1
    /\ settle' = [settle EXCEPT ![i] = NotSettling]
    /\ UNCHANGED <<visit, online, begun, money, txn>>

\* Stripe completes a refund it had left pending, or fails one.
Refunded(i) ==
    /\ row[i] = "succeeded" /\ ~Busy(i)
    /\ \/ /\ back[i] = "pending" /\ back' = [back EXCEPT ![i] = "failed"]
          /\ visit' = visit
       \/ /\ \/ back[i] = "pending" /\ back' = [back EXCEPT ![i] = "done"]
             \/ back[i] = "done" /\ back' = [back EXCEPT ![i] = "failed"]
          /\ Writable /\ visit' = [visit EXCEPT !.deposit = DepositAfter(posted, back')]
    /\ UNCHANGED <<online, begun, stripe, row, desk, posted, txn, settle, left>>

-----------------------------------------------------------------------------
\* The client, Stripe's events about an intent, and time.

Pay(i) ==
    /\ i \notin {Chosen, Card} /\ row[i] # "none" /\ stripe[i] = "open"
    /\ stripe' = [stripe EXCEPT ![i] = "paid"]
    /\ UNCHANGED <<visit, online, begun, row, back, desk, posted, txn, settle, left>>

\* _fail_payment marks the row it read as pending: payment_failed of an attempt that may go on,
\* payment_intent.canceled.
News(i) ==
    /\ i \in opened \ {Card} /\ Written(i, {"pending"})
    /\ \E s \in {"failed", "canceled"} :
         /\ s = "canceled" => stripe[i] = "canceled"
         /\ s # row[i]
         /\ row' = [row EXCEPT ![i] = s]
    /\ UNCHANGED <<visit, online, begun, stripe, back, desk, posted, txn, settle>>

Pass ==
    /\ ~begun /\ begun' = TRUE
    /\ UNCHANGED <<visit, online, money, txn, settle, left>>

-----------------------------------------------------------------------------
Init ==
    /\ online \in BOOLEAN /\ begun = FALSE
    /\ visit \in [status : {"pending", "confirmed"}, deposit : {"pending"}]
    /\ stripe = [i \in Intent |-> IF online /\ i = 0 THEN "open" ELSE "absent"]
    /\ row = [i \in Intent |-> IF online /\ i = 0 THEN "pending" ELSE "none"]
    /\ back = [i \in Intent |-> "none"]
    /\ opened = {i \in Intent : row[i] # "none"} /\ atDesk = {} /\ posted = {}
    /\ txn = [t \in Txn |-> Idle]
    /\ settle = [i \in Intent |-> NotSettling]
    /\ left = Attempts

Step(t) == Look(t) \/ Take(t) \/ TakeFree(t) \/ Opened(t) \/ InProgress(t) \/ Swipe(t) \/ Charged(t)
             \/ \E i \in Intent : Void(t, i)

Next ==
    \/ OpenLink \/ OpenForm \/ \E kind \in Closer \cup Jobs : Enter(kind)
    \/ \E t \in Txn : Step(t) \/ Quit(t)
    \/ Finish \/ FinishJob \/ Charge \/ ChargeSaved
    \/ CancelPaid \/ CompletePaid \/ AutoComplete \/ NoShow \/ Undo
    \/ \E i \in Intent : \/ Claim(i) \/ See(i) \/ Settle(i) \/ Drop(i)
                         \/ Refunded(i) \/ Pay(i) \/ News(i)
    \/ Pass

Spec == Init /\ [][Next]_vars

\* A settlement that can go on goes on: Stripe sends an event again for days and the hourly
\* reconciliation finds what it missed.  A transaction ends: it commits, fails, or is the one
\* Postgres gives up when it and a settlement wait for each other.
Fairness ==
    /\ WF_vars(\E i \in Intent : Claim(i) \/ See(i) \/ Settle(i))
    /\ WF_vars(Finish \/ FinishJob \/ \E t \in Txn : Step(t) \/ Quit(t))

FairSpec == Spec /\ Fairness

-----------------------------------------------------------------------------
Charges == {i \in Intent : stripe[i] = "paid"}
Single == Cardinality(Charges) <= 1

\* pay_deposit supersedes any earlier attempt: whatever is declined, replayed, rolled back or
\* paid meanwhile, two attempts that both came from the visit's link are never both paid.
\* The desk takes no lock on the visit, so an attempt of its own is not superseded.
LinkPaysOnce ==
    \A i, j \in Link : {i, j} \subseteq Charges /\ i # j => i \in atDesk \/ j \in atDesk

\* cancel_open_deposits closes a row only when Stripe has canceled its intent, so that no
\* money arrives on a row _settle_payment would pass over.
CanceledIsClosed == \A i \in Intent : row[i] = "canceled" => stripe[i] = "canceled"

\* What the ledger holds of the visit's deposit shows in its deposit_status through settlements
\* told twice, declines told late over a row that is settled, cancellations, forfeits that race
\* and refunds that fail, as long as the client was charged once; and none shows before any
\* was paid.
MoneyIsSeen ==
    Single => /\ HeldOf(posted, back) # {} => visit.deposit \in {"collected", "forfeited"}
              /\ visit.deposit \in {"collected", "forfeited"} => posted # {}

\* The reaper and the nightly job never cancel a visit one of whose deposits has been paid at
\* Stripe, not even if Stripe has not told yet.
ReleasedUnpaid ==
    [][visit.status # "canceled" /\ visit'.status = "canceled" /\ txn["visit"].kind \in Jobs
         => \A i \in Intent : row[i] # "none" => stripe[i] # "paid"]_vars

\* settle_deposit reads the visit without its lock.  The locks of the payment rows make up
\* for it when the visit is canceled: a deposit first settled after that is asked back.
LateIsReturned ==
    [][\A i \in posted' \ posted :
         visit.status = "canceled" /\ Single => back'[i] # "none"]_vars

\* What Stripe has charged is settled in the end, although settlements and commands take the
\* payment's and the visit's locks in opposite orders and may wait for each other.
TakenIsSettled == Charges # Settled ~> Charges = Settled

\* forfeit_deposit "never charges twice": no default card is charged for a no-show one of
\* whose recorded attempts has been paid.
NeverChargesTwice ==
    [][stripe'[Card] # stripe[Card] => \A i \in Intent : row[i] # "none" => stripe[i] # "paid"]_vars
=============================================================================
