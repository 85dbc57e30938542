--------------------------- MODULE InvoicePayments ---------------------------
(***************************************************************************)
(* The money of one invoice: card payments opened at Stripe by the pay     *)
(* link or charged to a saved card, cash recorded by hand, refunds, and    *)
(* the webhooks, replays and reconciliation that bring Stripe's news back  *)
(* (services/payments.py, with the parts of services/ledger.py that give   *)
(* an invoice its balance and status).                                     *)
(*                                                                         *)
(* Stripe is external: an intent is open until its client confirms it, it  *)
(* may be declined first, and each state it reaches is told by an event    *)
(* that arrives any number of times, in any order.  Amounts are whole      *)
(* units; tips, taxes and fees are left out.                               *)
(***************************************************************************)
EXTENDS Integers, FiniteSets, FiniteSetsExt

CONSTANTS Intent,    \* PaymentIntents that may be created at Stripe
          Cash,      \* payments that may be recorded by hand
          StaffKey,  \* idempotency keys of staff's refund requests
          Total,     \* what the invoice bills
          Handlers   \* how many handlers of news may be at work at a time

ASSUME PaymentAssumption ==
    /\ Intent \cap Cash = {}
    /\ IsFiniteSet(Intent \cup Cash)
    /\ IsFiniteSet(StaffKey)
    /\ Total \in Nat \ {0}
    /\ Handlers \in Nat \ {0}

Payment == Intent \cup Cash
Late(i) == <<"late", i>>   \* the refund keyed unapplied:{payment.id}
Refund == {Late(i) : i \in Intent} \cup (StaffKey \X Payment)
Of(r) == r[2]              \* payments.parent_payment_id

\* A key of staff's and the key of a late refund are never the same one, nor are the ids Stripe
\* gives intents and refunds.
ASSUME KeyAssumption ==
    /\ "late" \notin StaffKey
    /\ Intent \cap Refund = {}

VARIABLES
    invoice,       \* invoices.status: "sent" or "void" (its journal reversed)
    amount,        \* payments.amount_cents, 0 while the payment is unknown
    row,           \* payments.status, "none" before the row exists
    refundRow,     \* payments.status of the refund's row
    refundAmount,  \* what the refund returns
    unapplied,     \* refund rows with the reason unapplied_payment
    journal,       \* refs of the journals booked in the ledger
    processed,     \* webhooks whose row says processed
    command,       \* the open command holding the invoice's row lock
    tx,            \* handlers between reading the payment and committing
    stripe,        \* the intent at Stripe (external)
    openedBy,      \* the idempotency key it was created under (external)
    stripeRefund,  \* the refund at Stripe (external)
    emitted        \* events Stripe has sent at least once (external)

db == <<invoice, amount, row, refundRow, refundAmount, unapplied, journal, processed>>
work == <<command, tx>>
external == <<stripe, openedBy, stripeRefund, emitted>>
vars == <<db, work, external>>

RowStatus == {"none", "pending", "failed", "canceled", "succeeded"}
RefundStatus == {"none", "pending", "succeeded", "failed"}
Event == (Intent \X {"succeeded", "failed", "canceled"})
         \cup (Refund \X {"pending", "succeeded", "failed"})
\* What may settle or fail an intent's payment: its events, and the hourly
\* reconciliation, which has no webhook row.
Recon(i) == <<i, "recon">>
Job == (Intent \X {"succeeded", "failed", "canceled"}) \cup {Recon(i) : i \in Intent}
NoCommand == [at |-> "free"]
NoTx == [at |-> "idle", saw |-> "idle"]

-----------------------------------------------------------------------------
(***************************************************************************)
(* The ledger's view of the invoice.                                       *)
(***************************************************************************)
SumOf(F, S) == MapThenSumSet(LAMBDA x : F[x], S)
Sum(S) == SumOf(amount, S)
SumRefunds(S) == SumOf(refundAmount, S)

Booked == {p \in Payment : <<"payment", p>> \in journal}
\* refund:{id} booked and not reversed by refund:{id}:failed
Returned == {r \in Refund : <<"refund", r>> \in journal /\ <<"refund_failed", r>> \notin journal}

\* An unapplied refund gives back the receivable; any other one is a credit
\* note against the sale and leaves the receivable alone.
Receivable ==
    (IF invoice = "void" THEN 0 ELSE Total)
    - Sum(Booked)
    + SumRefunds(Returned \cap unapplied)

Collected == Sum(Booked) - SumRefunds(Returned)

Status ==
    IF invoice = "void" THEN "void"
    ELSE IF /\ Collected <= 0
            /\ \E r \in Refund : <<"refund", r>> \in journal
            /\ Receivable <= 0 THEN "refunded"
    ELSE IF Receivable <= 0 THEN "paid"
    ELSE IF Collected > 0 THEN "partial"
    ELSE "sent"

Payable == Status \notin {"paid", "void", "refunded"} /\ Receivable > 0
Pending == Sum({p \in Payment : row[p] = "pending"})

HasRoom(a) == Payable /\ a <= Receivable - Pending

-----------------------------------------------------------------------------
Init ==
    /\ invoice = "sent"
    /\ amount = [p \in Payment |-> 0]
    /\ row = [p \in Payment |-> "none"]
    /\ refundRow = [r \in Refund |-> "none"]
    /\ refundAmount = [r \in Refund |-> 0]
    /\ unapplied = {}
    /\ journal = {}
    /\ processed = {}
    /\ command = NoCommand
    /\ tx = [e \in Job |-> NoTx]
    /\ stripe = [i \in Intent |-> "none"]
    /\ openedBy = [i \in Intent |-> <<"none">>]
    /\ stripeRefund = [r \in Refund |-> "none"]
    /\ emitted = {}

(***************************************************************************)
(* open_card_payment.  Both callers hold the invoice's lock from before    *)
(* the call to Stripe to the end; the request may die in between, leaving  *)
(* an intent that no row knows.                                            *)
(***************************************************************************)
ClosedAttempts(a) ==
    Cardinality({i \in Intent : amount[i] = a /\ row[i] \in {"failed", "canceled"}})

\* The pay link: a live attempt for the same balance is replayed by its key.
PayCard(i) ==
    LET key == <<"link", Receivable, ClosedAttempts(Receivable)>> IN
    /\ command = NoCommand
    /\ Payable
    /\ IF \E j \in Intent : openedBy[j] = key
       THEN openedBy[i] = key /\ UNCHANGED <<stripe, openedBy, amount>>
       ELSE /\ stripe[i] = "none"
            /\ stripe' = [stripe EXCEPT ![i] = "open"]
            /\ openedBy' = [openedBy EXCEPT ![i] = key]
            /\ amount' = [amount EXCEPT ![i] = Receivable]
    /\ command' = [at |-> "link", of |-> i]
    /\ UNCHANGED <<invoice, row, refundRow, refundAmount, unapplied, journal, processed, tx,
                   stripeRefund, emitted>>

\* Staff charge a saved card, off session: it is charged at once or declined.
\* A retry of the same request finds the intent its key made.
ChargeSavedCard(i, a) ==
    /\ command = NoCommand
    /\ \/ stripe[i] = "none"
       \/ openedBy[i] = <<"saved">> /\ stripe[i] = "succeeded" /\ amount[i] = a
    /\ HasRoom(a)
    /\ \/ /\ stripe[i] = "none"
          /\ openedBy' = [openedBy EXCEPT ![i] = <<"saved">>]
          /\ amount' = [amount EXCEPT ![i] = a]
          /\ \/ /\ stripe' = [stripe EXCEPT ![i] = "succeeded"]
                /\ emitted' = emitted \cup {<<i, "succeeded">>}
                /\ command' = [at |-> "saved", of |-> i]
             \/ /\ stripe' = [stripe EXCEPT ![i] = "declined"]
                /\ emitted' = emitted \cup {<<i, "failed">>}
                /\ UNCHANGED command
       \/ /\ stripe[i] # "none"
          /\ command' = [at |-> "saved", of |-> i]
          /\ UNCHANGED <<stripe, openedBy, amount, emitted>>
    /\ UNCHANGED <<invoice, row, refundRow, refundAmount, unapplied, journal, processed, tx, stripeRefund>>

\* The invoice's other open attempts, which the pay link supersedes.
OpenAttempts(i) == {j \in Intent \ {i} : row[j] \in {"pending", "failed"}}

\* Stripe cancels an intent unless it was charged already.
CancelAtStripe(S) ==
    LET now == {j \in S : stripe[j] \in {"open", "declined"}} IN
    /\ stripe' = [j \in Intent |-> IF j \in now THEN "canceled" ELSE stripe[j]]
    /\ emitted' = emitted \cup {<<j, "canceled">> : j \in now}

\* Fault: an attempt Stripe charged already is dropped like the others.
RecordAttempt_drops_charged ==
    /\ command.at = "link"
    /\ LET i == command.of IN
       /\ row[i] = "none"
       /\ CancelAtStripe(OpenAttempts(i))
       /\ row' = [j \in Payment |-> IF j = i THEN "pending"
                                   ELSE IF j \in OpenAttempts(i) THEN "canceled" ELSE row[j]]
    /\ command' = NoCommand
    /\ UNCHANGED <<invoice, amount, refundRow, refundAmount, unapplied, journal, processed, tx,
                   openedBy, stripeRefund>>

\* The rest of the command: supersede, insert the pending row, commit.  A
\* webhook that is rebuilding the same row holds its unique provider_ref.
RecordAttempt ==
    /\ command # NoCommand
    /\ LET i == command.of
           others == IF command.at = "link" THEN OpenAttempts(i) ELSE {} IN
       /\ row[i] = "none" => \A e \in Job : e[1] = i => tx[e].saw # "none"
       /\ IF row[i] # "none"
          THEN UNCHANGED <<row, stripe, emitted>>
          ELSE /\ \A j \in others : row[j] = "pending" => stripe[j] # "succeeded"
               \* _assert_room again, with no other card payment left pending
               /\ command.at = "link" => Payable /\ amount[i] <= Receivable
               /\ CancelAtStripe(others)
               /\ row' = [j \in Payment |->
                             IF j = i THEN "pending"
                             ELSE IF j \in others /\ stripe[j] # "succeeded" THEN "canceled"
                             ELSE row[j]]
    /\ command' = NoCommand
    /\ UNCHANGED <<invoice, amount, refundRow, refundAmount, unapplied, journal, processed, tx,
                   openedBy, stripeRefund>>

\* The command raises or dies and rolls back; what it canceled at Stripe
\* before that stays canceled.
AbortCommand ==
    /\ command # NoCommand
    /\ command' = NoCommand
    /\ \E S \in SUBSET (IF command.at = "link" THEN OpenAttempts(command.of) ELSE {}) :
          CancelAtStripe(S)
    /\ UNCHANGED <<db, tx, openedBy, stripeRefund>>

\* record_invoice_payment for cash, a cheque or an e-Transfer.
RecordCash(c, a) ==
    /\ command = NoCommand
    /\ row[c] = "none"
    /\ HasRoom(a)
    /\ amount' = [amount EXCEPT ![c] = a]
    /\ row' = [row EXCEPT ![c] = "succeeded"]
    /\ journal' = journal \cup {<<"payment", c>>}
    /\ UNCHANGED <<invoice, refundRow, refundAmount, unapplied, processed, work, external>>

VoidInvoice ==
    /\ command = NoCommand
    /\ \A p \in Payment : row[p] # "pending"
    /\ \A r \in Refund : refundRow[r] # "pending"
    /\ Collected = 0
    /\ Status \notin {"paid", "refunded", "void"}
    /\ invoice' = "void"
    /\ UNCHANGED <<amount, row, refundRow, refundAmount, unapplied, journal, processed, work,
                   external>>

\* run_cancel_stale_intents; its commit may be lost after Stripe canceled.
CancelStale(i) ==
    /\ row[i] = "pending"
    /\ stripe[i] # "succeeded"
    /\ CancelAtStripe({i})
    /\ \/ row' = [row EXCEPT ![i] = "canceled"]
       \/ UNCHANGED row
    /\ UNCHANGED <<invoice, amount, refundRow, refundAmount, unapplied, journal, processed, work,
                   openedBy, stripeRefund>>

\* The client confirms the intent whose secret a committed command returned.
Confirm(i) ==
    /\ row[i] # "none"
    /\ stripe[i] \in {"open", "declined"}
    /\ \E s \in {"succeeded", "declined"} :
          /\ stripe' = [stripe EXCEPT ![i] = s]
          /\ emitted' = emitted \cup {<<i, IF s = "declined" THEN "failed" ELSE s>>}
    /\ UNCHANGED <<db, work, openedBy, stripeRefund>>

-----------------------------------------------------------------------------
(***************************************************************************)
(* Refunds.  gateway.refund is idempotent by key: a retry gets the refund  *)
(* the first call made, with the status it had then.                       *)
(***************************************************************************)
RefundedAtStripe(p) ==
    SumRefunds({r \in Refund : Of(r) = p /\ stripeRefund[r] \in {"pending", "succeeded"}})

FirstAnswer(r) == IF <<r, "pending">> \in emitted THEN "pending" ELSE "succeeded"

\* Stripe answers a refund of a with status s.
AskStripe(r, a, s) ==
    IF stripeRefund[r] # "none"
    THEN refundAmount[r] = a /\ s = FirstAnswer(r) /\ UNCHANGED <<stripeRefund, emitted>>
    ELSE /\ s \in {"pending", "succeeded"}
         /\ a <= amount[Of(r)] - RefundedAtStripe(Of(r))
         /\ stripeRefund' = [stripeRefund EXCEPT ![r] = s]
         /\ emitted' = emitted \cup {<<r, s>>}

\* create_refund's row, booked at once when the refund succeeded.  A row the
\* webhook recorded first is left as it is.
WriteRefund(r, a, s, booked) ==
    /\ refundAmount' = [refundAmount EXCEPT ![r] = a]
    /\ IF refundRow[r] # "none"
       THEN UNCHANGED <<refundRow, unapplied>> /\ journal' = booked
       ELSE /\ refundRow' = [refundRow EXCEPT ![r] = s]
            /\ unapplied' = unapplied \cup ({r} \cap {Late(i) : i \in Intent})
            /\ journal' = booked \cup (IF s = "succeeded" THEN {<<"refund", r>>} ELSE {})

RefundedRows(p) == {r \in Refund : Of(r) = p /\ refundRow[r] = "succeeded"}

\* PaymentService.refund, under the payment's lock; it may die after Stripe
\* took the refund.
StaffRefund(k, p, a) ==
    LET r == <<k, p>> IN
    /\ row[p] = "succeeded"
    /\ refundRow[r] = "none"
    /\ \A q \in Refund : Of(q) = p => refundRow[q] # "pending"
    /\ a <= amount[p] - SumRefunds(RefundedRows(p))
    /\ IF p \in Cash
       THEN WriteRefund(r, a, "succeeded", journal) /\ UNCHANGED <<stripeRefund, emitted>>
       ELSE \E s \in {"pending", "succeeded"} :
               /\ AskStripe(r, a, s)
               /\ \/ WriteRefund(r, a, s, journal)
                  \/ /\ refundAmount' = [refundAmount EXCEPT ![r] = a]
                     /\ UNCHANGED <<refundRow, unapplied, journal>>
    /\ UNCHANGED <<invoice, amount, row, processed, work, stripe, openedBy>>

\* Stripe settles or fails a refund, even one it called succeeded.
StripeRefundMoves(r) ==
    /\ \E s \in {"succeeded", "failed"} :
          /\ \/ stripeRefund[r] = "pending"
             \/ stripeRefund[r] = "succeeded" /\ s = "failed"
          /\ stripeRefund' = [stripeRefund EXCEPT ![r] = s]
          /\ emitted' = emitted \cup {<<r, s>>}
    /\ UNCHANGED <<db, work, stripe, openedBy>>

\* Fault: a refund that succeeded is taken for final.
ReconcileRefund_no_reversal(r, s) ==
    /\ row[Of(r)] # "pending"
    /\ IF row[Of(r)] # "succeeded" \/ refundRow[r] \in {"failed", "succeeded"}
       THEN UNCHANGED <<refundRow, journal>>
       ELSE /\ refundRow' = [refundRow EXCEPT ![r] = s]
            /\ journal' = journal \cup (IF s = "succeeded" THEN {<<"refund", r>>} ELSE {})
    /\ UNCHANGED <<invoice, amount, row, refundAmount, unapplied, work, external>>

\* Fault: the row of a refund that failed after all is changed and its journal left.
ReconcileRefund_unreversed(r, s) ==
    /\ row[Of(r)] # "pending"
    /\ IF row[Of(r)] # "succeeded" \/ refundRow[r] = "failed"
       THEN UNCHANGED <<refundRow, journal>>
       ELSE /\ refundRow' = [refundRow EXCEPT ![r] = IF @ = "succeeded" /\ s = "pending" THEN @ ELSE s]
            /\ journal' = journal \cup (IF s = "succeeded" THEN {<<"refund", r>>} ELSE {})
    /\ UNCHANGED <<invoice, amount, row, refundAmount, unapplied, work, external>>

(***************************************************************************)
(* _reconcile_refund with the status s a webhook, a replay or the          *)
(* reconciliation brings, in one transaction under the payment's lock.     *)
(***************************************************************************)
ReconcileRefund(r, s) ==
    /\ row[Of(r)] # "pending"   \* else retry_later
    /\ IF row[Of(r)] # "succeeded" \/ refundRow[r] = "failed"
       THEN UNCHANGED <<refundRow, journal>>
       ELSE IF refundRow[r] = "succeeded"
       THEN IF s = "failed"
            THEN /\ refundRow' = [refundRow EXCEPT ![r] = s]
                 /\ journal' = journal \cup {<<"refund_failed", r>>}
            ELSE UNCHANGED <<refundRow, journal>>
       ELSE /\ refundRow' = [refundRow EXCEPT ![r] = s]
            /\ journal' = journal \cup (IF s = "succeeded" THEN {<<"refund", r>>} ELSE {})
    /\ UNCHANGED <<invoice, amount, row, refundAmount, unapplied, work, external>>

\* A refund event as sent, or replayed with the refund's present state.
RefundEvent(r, k) ==
    /\ <<r, k>> \in emitted \ processed
    /\ \E s \in {k, stripeRefund[r]} : ReconcileRefund(r, s)
    /\ processed' = processed \cup {<<r, k>>}

\* The reconciliation reads each of Stripe's recent and each pending refund.
ReconcileRefundJob(r) ==
    /\ stripeRefund[r] # "none"
    /\ ReconcileRefund(r, stripeRefund[r])
    /\ UNCHANGED processed

-----------------------------------------------------------------------------
(***************************************************************************)
(* Handlers of an intent's news.  _settle_payment and _fail_payment read   *)
(* the payment without a lock (Begin); _settle_payment then waits for the  *)
(* invoice's lock and acts on the status it read (Settle).                 *)
(***************************************************************************)
\* _type_for_state: what a replay makes of the intent's present state.
TypeForState(i) ==
    IF stripe[i] = "declined" THEN {"failed"} ELSE {stripe[i]} \ {"open"}

\* The news a handler of e may act on: the event as sent, its replay, or
\* what the reconciliation reads at Stripe.
News(e) ==
    IF e = Recon(e[1]) THEN {stripe[e[1]]} \cap {"succeeded"}
    ELSE IF e \in emitted \ processed THEN {e[2]} \cup TypeForState(e[1])
    ELSE {}

\* Fault: an intent whose request died is not rebuilt.
Open_known(as) == IF as = "succeeded" THEN {"pending", "failed"} ELSE {"pending"}

\* The rows that news may change; _payment_from_intent rebuilds a missing one.
Open(as) == IF as = "succeeded" THEN {"none", "pending", "failed"} ELSE {"pending"}

Begin(e) ==
    LET i == e[1] IN
    /\ tx[e] = NoTx
    /\ Cardinality({f \in Job : tx[f] # NoTx}) < Handlers
    /\ \E as \in News(e) :
          /\ row[i] \in Open(as)
          /\ tx' = [tx EXCEPT ![e] = [at |-> as, saw |-> row[i]]]
    /\ UNCHANGED <<db, command, external>>

Done(e) == processed' = IF e = Recon(e[1]) THEN processed ELSE processed \cup {e}

\* An event that finds nothing to change is processed all the same.
Skip(e) ==
    /\ tx[e] = NoTx
    /\ e # Recon(e[1])
    /\ \E as \in News(e) : row[e[1]] \notin Open(as)
    /\ Done(e)
    /\ UNCHANGED <<invoice, amount, row, refundRow, refundAmount, unapplied, journal, work, external>>

\* _fail_payment writes over whatever the row became since it was read.
FailPayment(e) ==
    /\ tx[e].at \in {"failed", "canceled"}
    /\ row' = [row EXCEPT ![e[1]] = tx[e].at]
    /\ tx' = [tx EXCEPT ![e] = NoTx]
    /\ Done(e)
    /\ UNCHANGED <<invoice, amount, refundRow, refundAmount, unapplied, journal, command, external>>

\* Fault: a payment is kept whatever the invoice still owes.
Unapplied_only_void(i) == Status \in {"void", "refunded"}

Unapplied(i) == Status \in {"void", "refunded"} \/ amount[i] > Receivable

\* Two handlers rebuilt the same missing row: the second insert is refused.
LostRebuild(e) == tx[e].saw = "none" /\ row[e[1]] # "none"

\* _settle_payment from the invoice's lock to the commit, with the full
\* refund of a payment that found nothing left to pay.
SettlePayment(e) ==
    LET i == e[1]
        booked == journal \cup {<<"payment", i>>} IN
    /\ tx[e].at = "succeeded"
    /\ command = NoCommand
    /\ ~LostRebuild(e)
    /\ row' = [row EXCEPT ![i] = "succeeded"]
    /\ IF Unapplied(i)
       THEN \E s \in {"pending", "succeeded"} :
               /\ AskStripe(Late(i), amount[i], s)
               /\ WriteRefund(Late(i), amount[i], s, booked)
       ELSE /\ journal' = booked
            /\ UNCHANGED <<refundRow, refundAmount, unapplied, stripeRefund, emitted>>
    /\ tx' = [tx EXCEPT ![e] = NoTx]
    /\ Done(e)
    /\ UNCHANGED <<invoice, amount, command, stripe, openedBy>>

\* Fault: the row is committed before the journal is posted.
HandlerFails_halfway(e) ==
    /\ tx[e].at = "succeeded"
    /\ command = NoCommand
    /\ ~LostRebuild(e)
    /\ row' = [row EXCEPT ![e[1]] = "succeeded"]
    /\ tx' = [tx EXCEPT ![e] = NoTx]
    /\ UNCHANGED <<invoice, amount, refundRow, refundAmount, unapplied, journal, processed,
                   command, external>>

\* The handler raises (fees not visible yet, a lost insert, an error at
\* Stripe) or dies: it rolls back, and a refund it asked for stays asked for.
HandlerFails(e) ==
    LET i == e[1] IN
    /\ tx[e] # NoTx
    /\ tx[e].at = "succeeded" => command = NoCommand   \* else it waits for the lock
    /\ tx' = [tx EXCEPT ![e] = NoTx]
    /\ \/ UNCHANGED <<refundAmount, stripeRefund, emitted>>
       \/ /\ tx[e].at = "succeeded" /\ ~LostRebuild(e)
          /\ Unapplied(i)
          /\ \E s \in {"pending", "succeeded"} : AskStripe(Late(i), amount[i], s)
          /\ refundAmount' = [refundAmount EXCEPT ![Late(i)] = amount[i]]
    /\ UNCHANGED <<invoice, amount, row, refundRow, unapplied, journal, processed, command,
                   stripe, openedBy>>

Finish(e) == FailPayment(e) \/ SettlePayment(e)

Next ==
    \/ \E i \in Intent : PayCard(i) \/ CancelStale(i) \/ Confirm(i)
    \/ \E i \in Intent, a \in 1..Total : ChargeSavedCard(i, a)
    \/ RecordAttempt \/ AbortCommand \/ VoidInvoice
    \/ \E c \in Cash, a \in 1..Total : RecordCash(c, a)
    \/ \E k \in StaffKey, p \in Payment, a \in 1..Total : StaffRefund(k, p, a)
    \/ \E r \in Refund : StripeRefundMoves(r) \/ ReconcileRefundJob(r)
    \/ \E r \in Refund, k \in {"pending", "succeeded", "failed"} : RefundEvent(r, k)
    \/ \E e \in Job : Begin(e) \/ Skip(e) \/ Finish(e) \/ HandlerFails(e)

Spec == Init /\ [][Next]_vars

(***************************************************************************)
(* Fairness: the worker reruns the replay and the reconciliation every     *)
(* hour, and a rerun does not fail for ever; a request ends one way or     *)
(* another, and Postgres queues who waits for a row's lock, so a handler   *)
(* gets it in turn.  Nothing is assumed of clients, staff or Stripe.       *)
(***************************************************************************)
Fairness ==
    /\ WF_vars(RecordAttempt \/ AbortCommand)
    /\ \A i \in Intent :
          /\ SF_vars(Begin(Recon(i)))
          /\ SF_vars(SettlePayment(Recon(i)))
    /\ \A e \in Job : SF_vars(Finish(e) \/ HandlerFails(e))
    /\ \A r \in Refund : WF_vars(ReconcileRefundJob(r))

FairSpec == Spec /\ Fairness

-----------------------------------------------------------------------------
TypeOK ==
    /\ invoice \in {"sent", "void"}
    /\ amount \in [Payment -> 0..Total]
    /\ row \in [Payment -> RowStatus]
    /\ refundRow \in [Refund -> RefundStatus]
    /\ refundAmount \in [Refund -> 0..Total]
    /\ unapplied \subseteq {Late(i) : i \in Intent}
    /\ journal \subseteq ({"payment"} \X Payment) \cup ({"refund", "refund_failed"} \X Refund)
    /\ command \in {NoCommand} \cup [at : {"link", "saved"}, of : Intent]
    /\ tx \in [Job -> {NoTx} \cup [at : {"succeeded", "failed", "canceled"}, saw : RowStatus]]
    /\ processed \subseteq emitted
    /\ emitted \subseteq Event
    /\ stripe \in [Intent -> {"none", "open", "declined", "canceled", "succeeded"}]
    /\ openedBy \in [Intent -> {<<"none">>, <<"saved">>} \cup ({"link"} \X (0..Total) \X Nat)]
    /\ stripeRefund \in [Refund -> RefundStatus]

\* A canceled row is never charged: its intent is closed at Stripe, so
\* dropping the attempt from the invoice's room cannot lose a payment.
CanceledIsClosed == \A i \in Intent : row[i] = "canceled" => stripe[i] = "canceled"

\* Payments the business keeps: booked, and not sent back as unapplied.
Kept == {p \in Booked : p \in Intent => stripeRefund[Late(p)] = "none"}

\* However card attempts, saved cards and cash race, and however late Stripe's
\* news is, what is kept never exceeds what was billed.
NeverOverkept == Sum(Kept) <= Total

\* A payment Stripe took is on the books, or its row is one that news of it still settles:
\* however attempts are superseded, declined, canceled or lost, and though two handlers of one
\* intent may overlap and write over each other's row, none shuts the charge out of the books.
TakenCanBeBooked ==
    /\ \A i \in Intent : stripe[i] = "succeeded" => i \in Booked \/ row[i] \in Open("succeeded")
    /\ \A p \in Payment : row[p] = "succeeded" => p \in Booked

\* The states a refund that Stripe shows in state s may have been told to be in.
Sofar(s) ==
    CASE s = "none" -> {"none"}
      [] s = "pending" -> {"none", "pending"}
      [] s = "succeeded" -> {"none", "pending", "succeeded"}
      [] s = "failed" -> RefundStatus

\* The books show a refund as returned exactly when its row says so, and the row is never ahead
\* of Stripe, whatever order its answers and its events come in, a request that dies after Stripe
\* took the refund and a refund that fails after it succeeded included.
RefundsAreBehind ==
    \A r \in Refund :
        /\ r \in Returned <=> refundRow[r] = "succeeded"
        /\ <<"refund_failed", r>> \in journal => refundRow[r] = "failed"
        /\ Of(r) \in Intent => refundRow[r] \in Sofar(stripeRefund[r])

\* Every card payment Stripe took reaches the books, even when the request
\* died, every webhook was lost, or the row had been given up as failed.
TakenIsBooked == \A i \in Intent : stripe[i] = "succeeded" ~> i \in Booked

\* The books end up agreeing with Stripe about every refund of a settled payment.
RefundsAgree ==
    \A r \in Refund :
        Of(r) \in Intent =>
            <>[](row[Of(r)] = "succeeded" =>
                    (r \in Returned <=> stripeRefund[r] = "succeeded"))
=============================================================================
