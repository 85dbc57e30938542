---------------------------- MODULE StripeBalance ----------------------------
(***************************************************************************)
(* Money that moves at Stripe by itself: chargebacks of card payments and  *)
(* payouts to the bank, and how the webhooks, their replay and the hourly  *)
(* reconciliation bring both into the books (services/payments.py with     *)
(* services/ledger.py).                                                    *)
(*                                                                         *)
(* Each dispute is on a payment of its own.  An event carries the object   *)
(* as it was when Stripe sent it, and arrives late, twice, out of order or *)
(* never; a replay applies the object as it is now.  Handlers of a dispute *)
(* run under the payment's row lock, one at a time.  Handlers of a payout  *)
(* meet only at the lock of the accounts they post to.                     *)
(***************************************************************************)
EXTENDS Integers, FiniteSets

CONSTANTS Dispute,  \* disputes, each on its own payment
          Payout,   \* payouts of the connected account
          Amount,   \* what a dispute pulls
          MaxFee    \* bound on the fees Stripe adds to one dispute

ASSUME BalanceAssumption ==
    /\ Amount \in Nat \ {0}
    /\ MaxFee \in Nat

VARIABLES
    case,        \* the dispute at Stripe (external)
    payout,      \* the payout at Stripe (external)
    sent,        \* events of disputes Stripe has sent (external)
    told,        \* events of payouts Stripe has sent (external)
    listed,      \* disputes and payouts with a balance transaction inside the
                 \* reconciliation's window, or with an open drift finding
    processed,   \* dispute webhooks whose row says processed
    done,        \* payout webhooks whose row says processed
    tracked,     \* payments.dispute_status of the disputed payment
    refund,      \* staff's refund of the payment: none, asked for, or made
    pulled,      \* journal dispute:{id}
    feeBooked,   \* journals dispute_fee:{id} and dispute_fee:{id}:{fee}, summed
    won,         \* journal dispute:{id}:won
    feeReturned, \* journals dispute_fee:{id}:won..., summed
    lost,        \* journal dispute:{id}:lost
    reinstated,  \* journals dispute:{id}:reinstated..., their amount and net
    moved,       \* payout journals: created, paid and the reversal of each
    arriving     \* a handler of payout.paid that found no failure and waits

stripe == <<case, payout, sent, told>>
disputeBooks == <<processed, tracked, pulled, feeBooked, won, feeReturned, lost, reinstated>>
payoutBooks == <<done, moved, arriving>>
vars == <<stripe, listed, disputeBooks, payoutBooks, refund>>

\* A dispute as Stripe shows it: its status, the fees charged, and what was
\* handed back, with the fee returned on it.
NoFunds == {"none", "warning", "prevented"}
Pulling == {"needs_response", "under_review", "won", "lost"}
Case == [status : NoFunds \cup Pulling, fee : 0..MaxFee, back : 0..Amount, backFee : 0..MaxFee]
NoCase == [status |-> "none", fee |-> 0, back |-> 0, backFee |-> 0]
PayoutStatus == {"none", "pending", "paid", "failed"}
\* charge.dispute.created, .updated or .funds_withdrawn, .closed or .funds_reinstated
DisputeEvent == [of : Dispute, type : {"created", "updated", "closed"}, data : Case]
PayoutEvent == [of : Payout, type : {"pending", "paid", "failed"}]
Journals == {"created", "paid", "created_failed", "paid_failed"}
NotArriving == [waits |-> FALSE, news |-> {}]

Init ==
    /\ case = [d \in Dispute |-> NoCase]
    /\ payout = [p \in Payout |-> "none"]
    /\ sent = {}
    /\ told = {}
    /\ listed = {}
    /\ processed = {}
    /\ done = {}
    /\ tracked = [d \in Dispute |-> "none"]
    /\ refund = [d \in Dispute |-> "none"]
    /\ pulled = [d \in Dispute |-> FALSE]
    /\ feeBooked = [d \in Dispute |-> 0]
    /\ won = [d \in Dispute |-> FALSE]
    /\ feeReturned = [d \in Dispute |-> 0]
    /\ lost = [d \in Dispute |-> FALSE]
    /\ reinstated = [d \in Dispute |-> [amount |-> 0, net |-> 0]]
    /\ moved = [p \in Payout |-> {}]
    /\ arriving = [p \in Payout |-> NotArriving]

-----------------------------------------------------------------------------
Cents(b, n) == IF b THEN n ELSE 0

\* What a dispute's journals put in the business's stripe account.
Booked(d) ==
    Cents(won[d], Amount) - Cents(pulled[d], Amount)
    - feeBooked[d] + feeReturned[d] + reinstated[d].net

\* What Stripe itself took and gave back: the balance transactions of case x.
NetOf(x) == IF x.status \in Pulling THEN x.back + x.backFee - Amount - x.fee ELSE 0
Net(d) == NetOf(case[d])

-----------------------------------------------------------------------------
(***************************************************************************)
(* Stripe.                                                                 *)
(***************************************************************************)
\* An event is sent of every change.  A balance transaction is listed only
\* when money moves: not when a dispute is lost, nor when a payout arrives.
Becomes(d, x, types) ==
    /\ case' = [case EXCEPT ![d] = x]
    /\ listed' = listed \cup (IF NetOf(x) = Net(d) THEN {} ELSE {d})
    /\ sent' = sent \cup [of : {d}, type : types, data : {x}]
    /\ UNCHANGED <<payout, told, disputeBooks, payoutBooks, refund>>

\* The bank only asks.  Stripe pulls no funds.
Inquire(d) ==
    /\ case[d].status = "none"
    /\ Becomes(d, [case[d] EXCEPT !.status = "warning"], {"created"})

\* The inquiry ends, or the card network prevented the dispute.
EndInquiry(d) ==
    /\ case[d].status = "warning"
    /\ \E s \in {"warning", "prevented"} : Becomes(d, [case[d] EXCEPT !.status = s], {"closed"})

\* A chargeback, opened as one or escalated from an inquiry: funds are pulled.
Chargeback(d) ==
    /\ case[d].status \in {"none", "warning"}
    /\ \E f \in 0..MaxFee :
          Becomes(d, [case[d] EXCEPT !.status = "needs_response", !.fee = f],
                  {"updated"} \cup (IF case[d].status = "none" THEN {"created"} ELSE {}))

\* The business answers, and may be charged for it.
Respond(d) ==
    /\ case[d].status = "needs_response"
    /\ \E f \in case[d].fee..MaxFee :
          Becomes(d, [case[d] EXCEPT !.status = "under_review", !.fee = f], {"updated"})

Decide(d) ==
    /\ case[d].status \in {"needs_response", "under_review"}
    /\ \E s \in {"won", "lost"} : Becomes(d, [case[d] EXCEPT !.status = s], {"closed"})

\* Stripe hands back all of a won dispute, or of a lost one a part that had
\* been refunded first, with some of its fee.
Reinstate(d) ==
    /\ case[d].status \in {"won", "lost"}
    /\ \E a \in (case[d].back + 1)..Amount, f \in case[d].backFee..case[d].fee :
          /\ case[d].status = "won" => a = Amount
          /\ Becomes(d, [case[d] EXCEPT !.back = a, !.backFee = f], {"closed"})

PayoutMoves(p) ==
    /\ \E s \in {"pending", "paid", "failed"} :
          /\ <<payout[p], s>> \in {<<"none", "pending">>, <<"pending", "paid">>,
                                   <<"pending", "failed">>, <<"paid", "failed">>}
          /\ payout' = [payout EXCEPT ![p] = s]
          /\ told' = told \cup {[of |-> p, type |-> s]}
          /\ listed' = listed \cup (IF s = "paid" THEN {} ELSE {p})
    /\ UNCHANGED <<case, sent, disputeBooks, payoutBooks, refund>>

-----------------------------------------------------------------------------
(***************************************************************************)
(* Disputes.  Each handler is one transaction under the payment's lock.    *)
(***************************************************************************)
Larger(a, b) == IF a < b THEN b ELSE a

\* ledger.post_dispute: the amount once, and what the fee has grown by.
PostDispute(d, x) ==
    /\ pulled' = [pulled EXCEPT ![d] = TRUE]
    /\ feeBooked' = [feeBooked EXCEPT ![d] = Larger(@, x.fee)]

\* Fault: a dispute under review is not mirrored.
TrackDispute_needs_response(d, x) ==
    tracked' = [tracked EXCEPT ![d] = IF x.status = "under_review" \/ @ \in {"won", "lost"}
                                      THEN @ ELSE x.status]

\* _track_dispute: a decision stands.
TrackDispute(d, x) ==
    tracked' = [tracked EXCEPT ![d] = IF @ \in {"won", "lost"} THEN @ ELSE x.status]

\* Fault: an inquiry's funds are booked as pulled.
RecordDispute_inquiry(d, x) ==
    /\ PostDispute(d, x)
    /\ IF x.status \in Pulling THEN TrackDispute(d, x) ELSE UNCHANGED tracked

\* _record_dispute.
RecordDispute(d, x) ==
    IF x.status \in Pulling
    THEN PostDispute(d, x) /\ TrackDispute(d, x)
    ELSE UNCHANGED <<tracked, pulled, feeBooked>>

\* Fault: the win is booked only if the dispute was on the books before.
CloseWon_booked_only(d, x) ==
    /\ won' = [won EXCEPT ![d] = @ \/ pulled[d]]
    /\ feeReturned' = [feeReturned EXCEPT ![d] = Larger(@, x.backFee)]

\* ledger.close_dispute, after _record_dispute: the amount comes back once,
\* and what the returned fee has grown by.
CloseWon(d, x) ==
    /\ won' = [won EXCEPT ![d] = TRUE]
    /\ feeReturned' = [feeReturned EXCEPT ![d] = Larger(@, x.backFee)]

\* ledger.lose_dispute and ledger.reinstate_dispute.
CloseLost(d, x) ==
    /\ lost' = [lost EXCEPT ![d] = TRUE]
    /\ reinstated' = [reinstated EXCEPT ![d] =
          IF x.back <= @.amount THEN @ ELSE [amount |-> x.back, net |-> x.back + x.backFee]]

\* _dispatch of a dispute's news: created, updated, or closed.
HandleDispute(d, type, x) ==
    /\ RecordDispute(d, x)
    /\ IF type = "closed" /\ x.status = "won"
       THEN CloseWon(d, x) /\ UNCHANGED <<lost, reinstated>>
       ELSE IF type = "closed" /\ x.status = "lost"
       THEN CloseLost(d, x) /\ UNCHANGED <<won, feeReturned>>
       ELSE UNCHANGED <<won, feeReturned, lost, reinstated>>
    /\ UNCHANGED <<stripe, payoutBooks, refund>>

\* A delivery, with the dispute as sent, or a replay, with the dispute as it
\* is now under the event's own type.
DisputeWebhook(e) ==
    /\ e \in sent \ processed
    /\ \E x \in {e.data, case[e.of]} : HandleDispute(e.of, e.type, x)
    /\ processed' = processed \cup {e}
    /\ UNCHANGED listed

\* _source_drift: d leaves the window only with its books in agreement; else a
\* finding keeps it open.
Audited(d) ==
    \/ UNCHANGED listed
    \/ Booked(d)' = Net(d) /\ listed' = listed \ {d}

\* Fault: a closed dispute is read like an open one.
ReconcileDispute_open(d) ==
    /\ d \in listed
    /\ HandleDispute(d, "updated", case[d])
    /\ UNCHANGED processed
    /\ Audited(d)

\* _reconcile_source with recover_stripe_source: the dispute as Stripe has it.
ReconcileDispute(d) ==
    /\ d \in listed
    /\ HandleDispute(d, IF case[d].status \in {"won", "lost"} THEN "closed" ELSE "updated", case[d])
    /\ UNCHANGED processed
    /\ Audited(d)

\* _disputed.
Disputed(d) == tracked[d] \in {"needs_response", "under_review", "lost"}

\* refund_payment reads the payment and checks it before it takes the lock.
AskRefund(d) ==
    /\ refund[d] = "none"
    /\ ~Disputed(d)
    /\ refund' = [refund EXCEPT ![d] = "asked"]
    /\ UNCHANGED <<stripe, listed, disputeBooks, payoutBooks>>

\* Fault: what was checked before the lock is not checked again.
Refund_unchecked(d) ==
    /\ refund[d] = "asked"
    /\ refund' \in {[refund EXCEPT ![d] = s] : s \in {"none", "made"}}
    /\ UNCHANGED <<stripe, listed, disputeBooks, payoutBooks>>

\* The rest of it under the payment's lock: refused, or made unless Stripe refuses.
Refund(d) ==
    /\ refund[d] = "asked"
    /\ refund' \in {[refund EXCEPT ![d] = s] : s \in {"none"} \cup (IF Disputed(d) THEN {} ELSE {"made"})}
    /\ UNCHANGED <<stripe, listed, disputeBooks, payoutBooks>>

-----------------------------------------------------------------------------
(***************************************************************************)
(* Payouts.                                                                *)
(***************************************************************************)
\* Events a handler of p may bring as type s: as sent, or replayed as the
\* payout's present status.  A handler holds its webhook's row.
NewsOf(p, s) ==
    {e \in told \ done : e.of = p /\ s \in {e.type, payout[p]} /\ e \notin arriving[p].news}

\* What a handler of type s marks processed: an event, or nothing when it is
\* the reconciliation that read the payout.
Source(p, s) ==
    {{e} : e \in NewsOf(p, s)} \cup (IF payout[p] = s /\ p \in listed THEN {{}} ELSE {})

\* Fault: the reconciliation takes what it read for what is so.
Commits_stale(p, s, E) ==
    /\ done' = done \cup E
    /\ IF E = {} THEN listed' \in {listed, listed \ {p}} ELSE UNCHANGED listed

\* The commit of a handler of news s.  The reconciliation's leaves nothing to
\* find, and p leaves its window, unless the payout moved on meanwhile.
Commits(p, s, E) ==
    /\ done' = done \cup E
    /\ IF E = {} /\ payout[p] = s THEN listed' \in {listed, listed \ {p}} ELSE UNCHANGED listed

\* payout.created, or a payout found pending.
PayoutCreated(p, E) ==
    /\ E \in Source(p, "pending")
    /\ Commits(p, "pending", E)
    /\ moved' = [moved EXCEPT ![p] = @ \cup {"created"}]
    /\ UNCHANGED <<stripe, disputeBooks, arriving, refund>>

\* Fault: a payout met for the first time when it is paid is only posted.
PayoutPaid_posted_only(p, E) ==
    /\ arriving[p] = NotArriving
    /\ E \in Source(p, "paid")
    /\ IF {"created", "created_failed"} \cap moved[p] = {"created"}
       THEN /\ arriving' = [arriving EXCEPT ![p] = [waits |-> TRUE, news |-> E]]
            /\ UNCHANGED <<listed, done, moved>>
       ELSE /\ moved' = [moved EXCEPT ![p] = @ \cup {"created"}]
            /\ Commits(p, "paid", E)
            /\ UNCHANGED arriving
    /\ UNCHANGED <<stripe, disputeBooks, refund>>

\* payout.paid: a payout not on the books is posted, which takes the accounts'
\* locks; one that is there is only read, and so is its failure.
PayoutPaid(p, E) ==
    /\ arriving[p] = NotArriving
    /\ E \in Source(p, "paid")
    /\ IF "created" \notin moved[p]
       THEN /\ moved' = [moved EXCEPT ![p] = @ \cup {"created", "paid"}]
            /\ Commits(p, "paid", E)
            /\ UNCHANGED arriving
       ELSE IF "created_failed" \in moved[p]
       THEN Commits(p, "paid", E) /\ UNCHANGED <<moved, arriving>>
       ELSE /\ arriving' = [arriving EXCEPT ![p] = [waits |-> TRUE, news |-> E]]
            /\ UNCHANGED <<listed, done, moved>>
    /\ UNCHANGED <<stripe, disputeBooks, refund>>

\* ledger.arrive_payout once the accounts are locked, and the commit.
ArrivePayout(p) ==
    /\ arriving[p] # NotArriving
    /\ moved' = [moved EXCEPT ![p] = @ \cup {"paid"}]
    /\ Commits(p, "paid", arriving[p].news)
    /\ arriving' = [arriving EXCEPT ![p] = NotArriving]
    /\ UNCHANGED <<stripe, disputeBooks, refund>>

\* The handler dies or raises before the commit.
ArriveFails(p) ==
    /\ arriving[p] # NotArriving
    /\ arriving' = [arriving EXCEPT ![p] = NotArriving]
    /\ UNCHANGED <<stripe, listed, disputeBooks, done, moved, refund>>

\* Fault: a failed payout that is not on the books is left alone.
FailPayout_unposted(p, E) ==
    /\ E \in Source(p, "failed")
    /\ Commits(p, "failed", E)
    /\ moved' = [moved EXCEPT ![p] = @ \cup {j \in {"created_failed", "paid_failed"} :
          (j = "created_failed" /\ "created" \in @) \/ (j = "paid_failed" /\ "paid" \in @)}]
    /\ UNCHANGED <<stripe, disputeBooks, arriving, refund>>

\* payout.failed or .canceled: a payout not on the books is posted first, then
\* whichever journals are there are reversed.
FailPayout(p, E) ==
    /\ E \in Source(p, "failed")
    /\ Commits(p, "failed", E)
    /\ moved' = [moved EXCEPT ![p] =
          @ \cup {"created", "created_failed"} \cup (IF "paid" \in @ THEN {"paid_failed"} ELSE {})]
    /\ UNCHANGED <<stripe, disputeBooks, arriving, refund>>

HandlePayout(p, E) == PayoutCreated(p, E) \/ PayoutPaid(p, E) \/ FailPayout(p, E)
PayoutWebhook(p) == \E e \in told : HandlePayout(p, {e})
ReconcilePayout(p) == HandlePayout(p, {})

Next ==
    \/ \E d \in Dispute :
          \/ Inquire(d) \/ EndInquiry(d) \/ Chargeback(d) \/ Respond(d) \/ Decide(d) \/ Reinstate(d)
          \/ ReconcileDispute(d) \/ AskRefund(d) \/ Refund(d)
    \/ \E e \in sent : DisputeWebhook(e)
    \/ \E p \in Payout :
          \/ PayoutMoves(p) \/ PayoutWebhook(p) \/ ReconcilePayout(p)
          \/ ArrivePayout(p) \/ ArriveFails(p)

Spec == Init /\ [][Next]_vars

(***************************************************************************)
(* Fairness: the hourly reconciliation reads every dispute and payout that *)
(* is listed, and a handler waiting for the accounts' locks gets them or   *)
(* dies, and not every time dies.  Nothing is assumed of the webhooks.     *)
(***************************************************************************)
Fairness ==
    /\ \A d \in Dispute : WF_vars(ReconcileDispute(d))
    /\ \A p \in Payout : SF_vars(ReconcilePayout(p)) /\ SF_vars(ArrivePayout(p))

FairSpec == Spec /\ Fairness

-----------------------------------------------------------------------------
TypeOK ==
    /\ case \in [Dispute -> Case]
    /\ payout \in [Payout -> PayoutStatus]
    /\ listed \subseteq Dispute \cup Payout
    /\ sent \subseteq DisputeEvent
    /\ processed \subseteq sent
    /\ told \subseteq PayoutEvent
    /\ done \subseteq told
    /\ tracked \in [Dispute -> {"none"} \cup Pulling]
    /\ refund \in [Dispute -> {"none", "asked", "made"}]
    /\ pulled \in [Dispute -> BOOLEAN]
    /\ feeBooked \in [Dispute -> 0..MaxFee]
    /\ won \in [Dispute -> BOOLEAN]
    /\ feeReturned \in [Dispute -> 0..MaxFee]
    /\ lost \in [Dispute -> BOOLEAN]
    /\ reinstated \in [Dispute -> [amount : 0..Amount, net : Nat]]
    /\ moved \in [Payout -> SUBSET Journals]
    /\ arriving \in [Payout -> [waits : BOOLEAN, news : SUBSET PayoutEvent]]

\* What the payer owes because of the dispute.
Owed(d) == Cents(pulled[d], Amount) - Cents(won[d], Amount) - Cents(lost[d], Amount)

\* Stripe has nothing more to do: a won dispute's money is back, or it is lost.
Settled(d) ==
    \/ case[d].status = "lost"
    \/ case[d].status = "won" /\ case[d].back = Amount

\* Nothing is on the books that Stripe did not do: no event order makes the
\* handlers pull, charge, return or reinstate more than Stripe did.
NothingInvented ==
    /\ \A d \in Dispute :
          /\ pulled[d] => case[d].status \in Pulling
          /\ won[d] => pulled[d] /\ case[d].status = "won"
          /\ lost[d] => pulled[d] /\ case[d].status = "lost"
          /\ feeBooked[d] <= case[d].fee
          /\ feeReturned[d] <= case[d].backFee
          /\ reinstated[d].amount <= case[d].back
    /\ \A p \in Payout :
          /\ "paid" \in moved[p] => payout[p] \in {"paid", "failed"}
          /\ "created_failed" \in moved[p] => payout[p] = "failed"

\* No payment is refunded while a dispute has its funds off the books, unless Stripe decided for
\* the business: not in whatever order the dispute's events came, and not when the dispute came
\* between the request's first look at the payment and its lock.
RefundsWait ==
    [][\A d \in Dispute :
          refund'[d] = "made" /\ refund[d] # "made" => ~pulled[d] \/ case[d].status = "won"]_vars

\* One delivery of the last event is enough.  A dispute's: the stripe account
\* then agrees with Stripe to the cent and the payer owes nothing.  A payout's:
\* its arrival or failure is on the books.  Whichever other events came before,
\* come after or never come.
LastNewsSuffices ==
    /\ \A d \in Dispute :
          Settled(d) /\ [of |-> d, type |-> "closed", data |-> case[d]] \in processed
              => Booked(d) = Net(d) /\ Owed(d) = 0
    /\ \A p \in Payout :
          /\ payout[p] = "paid" /\ [of |-> p, type |-> "paid"] \in done
                => moved[p] = {"created", "paid"}
          /\ [of |-> p, type |-> "failed"] \in done => "created_failed" \in moved[p]

\* What the hourly reconciliation would still change is in its sight: the books of a dispute or a
\* payout that is not listed agree with Stripe, but for a win whose money is still to come,
\* whatever news was lost and wherever a handler or a reconciliation was overtaken.
MissingIsListed ==
    /\ \A d \in Dispute \ listed :
          ~(case[d].status = "won" /\ case[d].back < Amount) => Booked(d) = Net(d)
    /\ \A p \in Payout \ listed :
          /\ payout[p] # "none" => "created" \in moved[p]
          /\ payout[p] = "failed" => "created_failed" \in moved[p]

\* The hourly reconciliation alone brings the stripe account to what Stripe
\* did, except for a win whose money is not back yet, and books every payout
\* and its failure.  That a dispute was lost or a payout arrived moves no money
\* at Stripe: only an event or its replay is sure to tell.
BooksCatchUp ==
    /\ \A d \in Dispute :
          <>[](~(case[d].status = "won" /\ case[d].back < Amount) => Booked(d) = Net(d))
    /\ \A p \in Payout :
          <>[](/\ payout[p] # "none" => "created" \in moved[p]
               /\ payout[p] = "failed" => "created_failed" \in moved[p])
=============================================================================
