# Verification of ClientBridge

ClientBridge is a business system for appointment-based shops: clients, bookings, invoices,
sales, card payments, a double-entry ledger, messaging and reviews. The server is the Python
package `src/backend/src/clientbridge`; the apps under `src/frontend` keep a local replica of a
business's rows, read from it, and send commands. This directory holds TLA+ modules of the parts
where the order of steps, retries and crashes decide whether money, messages and offline edits
come out right, the TLC runs that check them on small instances, and TLAPS proofs for instances
of any size.

`PROJECT.json` maps every definition to the lines it models, and lists components, hazards,
runs, mutants, findings and theorems.

## Inventory

Five surfaces write one Postgres database: online commands (`api/`, each route calling one
operation of `services/`), commands queued offline (`packages/sync`), public pages, webhooks
(`api/webhooks.py`), and cron jobs (`tasks/worker.py`). A command is one transaction with its
audit rows and its idempotency record (`core/command.py`). Calls to Stripe, Twilio, Resend, Expo
and Google happen inside transactions or between two of them. That is where most hard behaviour is:
a transaction can be rolled back and a call cannot.

| Part | State | Operations | What must hold | Module |
| --- | --- | --- | --- | --- |
| Delivery queue, `services/deliveries.py` | rows of `deliveries` with claim, lease and state; the inbox copy in `messages` | enqueue, dispatch (claim, call, settle), sweep, Resend's events, STOP | a message goes at most once, rows tell the truth, the queue empties | `Deliveries`, `Sender` |
| Invoice payments and refunds, `services/payments.py` | `payments`, `webhooks`, the journals of `entries` | pay link, saved card, cash, void, refund, settle, fail, reconcile | nothing kept beyond the bill, nothing taken is lost, refunds as Stripe has them | `InvoicePayments` |
| Disputes and payouts, `services/payments.py`, `services/ledger.py` | `payments.dispute_status`, journals `dispute:*`, `payout:*` | created, updated, closed, reinstated; refund while disputed; payout created, paid, failed; reconcile | books show what Stripe did, in any order of events; no refund of money that is pulled | `StripeBalance` |
| Offline working week, `sync/src/hours.ts`, `domain/hours.ts`, `services/hours.py` | the device's outbox, the replica, the editor, the week's revision, receipts | edit, queue, upload, retry, discard, repair, apply, sync | one application per proposal, outcomes told truly, nobody's days overwritten unseen | `HoursOutbox` |
| Command idempotency, `core/command.py`, `app-core/src/api.ts` | a form's attempt and its key; receipts per key, advisory locks | run, replay, refuse, retry under a fresh key | one effect per submission, nothing done is told as refused | `Commands` |
| Class seats, `services/bookings.py`, `public.py`, `staff.py` | a session's bookings, status and member; advisory locks of members | add, book, join the waitlist, cancel, seat, reassign, call off, close the line | no overbooked session, first waiting first seated, no seat idle, nobody left on a canceled session | `ClassSeats` |
| Booking deposits, `services/bookings.py`, `public.py`, `payments.py` | a visit's status and `deposit_status`, its payment rows and refunds, intents at Stripe, row locks | open from the link or the desk, cancel, complete, no-show, reap, settle, fail, refund | nothing paid is lost, paid twice or kept on a canceled visit; no paid hold is released | `BookingDeposits` |
| One-to-one visits, `services/bookings.py` | bookings, slots, crews, resources | book, move, cancel | no double booking | planned |
| Broadcasts, `services/messaging.py` | broadcasts, messages | send, cancel, resume | one message per consenting client | planned |
| Google replies, `services/reviews.py` | the connection's state and generation, operations with their leases, an advisory lock | authorize, select, disconnect, queue, run, read back, expire | an uncertain write is never written again, outcomes are told truly, every reply ends | `GoogleReplies` |
| Entitlements, orders, stock, earnings, remittances | balances under row locks | redeem, consume, reap, pay, file | no balance below zero, no double payout | planned |
| Replica lifecycle, `sync/src/lifecycle.ts` | open database, signed-in account, tabs | open, switch, sign out, hand off | no account sees another's rows | planned |

`PROJECT.json` lists the remaining components. They edit rows in one transaction each, read, or
draw screens. They leave nothing between two steps that another actor could meet.

The parts interact through the database and through calls. Commands and webhook handlers leave rows in
the delivery queue in their own transaction, and the queue sends them. Payment handlers post
journals, and the ledger gives an invoice its balance and status, which the next payment is
measured against. A dispute blocks refunds through `dispute_status`. The week editor writes the
outbox, the uploader sends it, and the sync stream brings the accepted week back to the replica.

## Modules

Each module has its MC module with model values. A definition named `Thing_fault` directly before
`Thing` is that definition with a plausible bug, marked `Fault:`. It is used only to show that a
property can fail.

### Sender and Deliveries

`Sender` says what a queue of messages promises, with no queue in it: a message reaches the provider at most once
(`Reach`) and never after it was given up as failed, what is told of it is true or `unknown` (`Tell`), and the provider's reports, in whatever
order they come, only take it further (`Report`). `Deliveries` is how the code does it, and `ImplementsSender` relates them: a
row that is queued or sending is an open message, its lease, claim, age and retries are not seen from outside, and
a simulated send is one `Sender` knows to be pretended.

A row's state, lease (`wait`), fencing token (`claim`) and age; the inbox copy; numbers that said
STOP; the dispatchers and what each is doing; and, at the provider, how often it took each message.
`Enqueue` is `enqueue`. `ExpireLease`, `Refuse`, `Simulate` and `Claim` are the branches of
`dispatch`'s first transaction in their order, `Call` the provider's answer, `Settle` the second
transaction with its fence, `Crash` a dispatcher dying at any point between. `EmailEvent` is Resend's
webhook and `TextReply` STOP from a phone. Addresses, bodies and job ids are left out. Time counts in
ticks long enough for a lease to run out under an open call.

### InvoicePayments

One invoice with card intents, cash and refunds. `PayCard` and `ChargeSavedCard` create an intent at
Stripe under the invoice's lock; `RecordAttempt` commits the row and `AbortCommand` is the request
dying in between. A handler of an intent's news runs in two steps, `Begin`, which reads the payment
without a lock, and `SettlePayment`, `FailPayment` or `Skip`, after the invoice's lock. `HandlerFails`
stops it halfway, with what it did at Stripe done. `StaffRefund`, `ReconcileRefund` and their events
follow refunds. `CancelStale`, `VoidInvoice` and `RecordCash` complete the operations on the invoice.
Up to `Handlers` handlers of news are at work at a time, of different intents or of one: each event may have its own, and
the hourly reconciliation one more, so what a handler read may be changed by another before it writes.
Tips, taxes and fees are left out.

### StripeBalance

Disputes and payouts move at Stripe by themselves, and each move is told by an event with a snapshot.
`DisputeWebhook` applies an event as sent or as replayed (with the dispute as it is now),
`ReconcileDispute` is the hourly job. It reads only what is in `listed`: sources with a balance
transaction since the last run (and a day before it) or with an open drift finding. A lost decision and
a payout's arrival move no money and list nothing. Both go through `HandleDispute`, whose parts are
`_record_dispute`, `_track_dispute` and the ledger's `post_dispute`, `close_dispute`, `lose_dispute`
and `reinstate_dispute`. A handler of `payout.paid` that finds its payout on the books reads whether it
failed and then waits for the accounts' locks, so it takes two steps, `PayoutPaid` and `ArrivePayout`.
A handler of another event may book the failure in between.
`AskRefund` and `Refund` are `refund_payment`, which looks at `dispute_status` before it waits for the payment's lock and again
behind it (`Disputed`). The tips, packages and memberships a lost dispute takes back, and notices, are left out.

### HoursOutbox

Editors, uploaders and outboxes of several devices over one server. A week gives each day the
operation that last set it, so an overwritten edit shows. `Submit`, `Rebase`, `Discard` are the editor's, and so is "Apply
changes" on a rejected week, in three steps: the click (`ApplyChanges`), the request for the server's revision (`ReadRevision`)
and the transaction that puts one new proposal in the place of every row of the outbox (`Repair`). That transaction looks for a row that is
being sent and at nothing else, so it also takes rows another tab queued or got accepted since the click; a `Rebase` in between changes what the
editor shows. `RepairFails` is the end without it. `Take`, `Receive`, `GiveUp`, `Forget` are the uploader's, with `Die` for a closed tab;
`Replace` is the server's handler with its receipt; `Sync` the stream. Requests and answers may be
lost, duplicated and late. `Without` is the DELETE that drops rows and keeps the others' order. An editor is not closed while its
"Apply changes" is under way (the promise of a screen that is gone would go on; `Die` ends it with the tab).

### Attempts and Commands

`Attempts` says what an idempotency key promises: of all copies of an attempt at most one takes effect, and
a copy that is answered with success is told of that effect. `Commands` is how the code keeps it. On the
form's side `Press` and `PressBusy` are `attemptKey` with the key it keeps or makes, `Succeed`, `Resend`, `Fail` and
`FailForGood` what `sendAttempt`, the checkout and the public booking page do with an answer, `Edit` and `Reset`
what drops the attempt, `Lose` a connection that fails while its copy goes on. On the server's side
`Acquire`, `Replay`, `Run`, `Commit` and `Refuse` are `run_command` under the advisory lock of the key, and
`Die` a process that ends anywhere. `Release` changes how requests are hashed, which makes a stored key look
reused; it happens with nothing in service. The race that `uq_idempotency_scope_key` guards against needs two
transactions past the lock, which the lock rules out (`LockInv` in the proofs), so it has no action. Commands
without a key promise nothing of the kind and are left out.

### Roster and ClassSeats

`Roster` says what the seats and the waitlist of a class session promise, with every command as one step: seats
up to the capacity, a line in order of arrival, and a seat that is given up goes to the first in line. `ClassSeats`
is how the code gets there. A command is a transaction of three steps. `SignUp` and `Change` load the session (an
`add`, `join`, `book`, `cancel`, `withdraw` or `seat`). `Enter`, `Leave` and `Promote` are what it reads and decides
once it has the advisory lock of the member it saw (`lock_staff`), where `Leave` includes `release_slot` and
`fill_freed_seats`; `Refuse` is every rejection there. `Commit` is the end of the transaction. `Reassign` and `CallOff` are
the removal of the member and the end of a schedule, `CloseWaitlist` the completion job, which takes no member's lock but
skips rows that are locked, and `Pass` the hour of the class.

`created_at` is when a transaction began (`came`), so whoever waited longer for the lock still goes before people who
were already told their place; the order of the line is that of `came`. A session may be moved or called off while commands that have loaded it wait
for its member's lock. They go on with what they loaded, as the code does: behind the lock of a former member (`Stray`), or on a session that is
canceled. Two variables remember where that happened, so that the properties can say what is left: `strays` are the bookings changed by a
command behind a former member's lock, `late` the bookings that staff or the waitlist page added to the session when it was canceled.
`fill_freed_seats` goes by the slot's status as loaded where the model takes `open`; the two differ only once there are strays.
Pending, completed and missed visits take a seat as confirmed ones do and are one status here. What a sign-up checks about the person (`has_seat`,
hours, subjects), resources, crews, programs and deposits are left out; the reaper and the end of a series cancel as staff do.

### BookingDeposits

The deposit of one visit. A transaction on the visit (`txn["visit"]`) holds the booking's row from `OpenLink` (`pay_deposit`
through `_locked`), `Enter` (the visit is canceled, completed, reaped or expires while its deposit is due) or `Charge` (a no-show
with `forfeit_deposit`) to its end. `txn["desk"]` is `collect_deposit`, which takes no lock on the visit: `OpenForm`, or `ChargeSaved`
with a saved card. A saved card is charged in steps: `Saved` finds no attempt that is under way or paid, `Swipe` charges at Stripe, `Charged`
writes the row. Attempts are replaced through `cancel_open_deposits`: `Look` is the query, `Take` its `FOR UPDATE` with the check repeated on what
changed meanwhile, `TakeFree` the jobs' `SKIP LOCKED`, `Void` one call to Stripe, which keeps what it did
if the transaction is rolled back (`Quit`). `Opened`, `InProgress`, `Finish` and `FinishJob` are the ends.

A settlement is three steps, since the lock it needs first is not the one it needs last: `Claim` writes the payment's
row, `See` reads the booking without a lock (`settle_deposit`), `Settle` decides by that and writes the booking, for
which it may have to wait. `Drop` is a rollback; Stripe sends again. `News` is `_fail_payment`, `Refunded` what Stripe
says later of a refund. A handler decides by a row it read without a lock, and its UPDATE waits for whoever holds the
row. Any number of them may have read a row that was ever pending (`opened`), so `Claim` and `News` may come on a row
that is closed by now (`Written`): a decline is then written over a row that was settled, or a settlement told twice.
`posted` are the intents whose money the ledger has booked, whatever becomes of their rows. `Busy`, `Writable` and
`Unlocked` are the row locks; an inserted payment row also keeps the booking it refers to from being locked
(`payments.py:68` of the models). `CancelPaid`, `CompletePaid`, `AutoComplete`, `NoShow` and `Undo` are the changes
that leave attempts alone.

The intents of the link carry the number of closed attempts before them in their key (`Link`, up to `MaxClosed`); the desk has one form while none was
closed (`Form`) and one saved card (`Chosen`). `Attempts` bounds the transactions begun, the settlements rolled back and the writes over rows that are
no longer open. Left out: amounts, the application to an invoice, disputes, refunds by staff, refunds Stripe refuses at once, the days of an
enrolment that end together, and intents that are `processing`.

Some limits are in the properties because the code has them. `MoneyIsSeen` and `LateIsReturned` speak of a client who was charged once:
a refund that is pending keeps `refund_deposit` from asking for a second one, and a settlement that saw another deposit collected does not
write. That a visit whose deposit shows as collected still holds one is not stated: a settlement told again on a visit that was canceled and
refunded writes `collected` once more, and an amount whose row a late decline marked failed is not found by `refund_deposit` until the
payment is settled again. `LinkPaysOnce` leaves out attempts of the desk, which takes no lock on the visit, and whose `FOR UPDATE` cannot find rows
inserted since. A settlement that read a confirmed visit and waits while it becomes completed or a no-show still writes `collected`,
so that a late deposit of a completed visit is kept and a no-show is not forfeited; the money is seen, as `MoneyIsSeen` says.

### GoogleReplies

A business's connection to Google (`conn`, `gen`), the replies it has queued and what became of them (`state`, `made`), the reply at
Google and each operation's write request (`wire`). `Authorize`, `Select` and `Disconnect` give the connection a new generation and cancel
what was queued (`Renew`); `TokenRefused` is a refresh token that Google no longer takes. `Queue` is `queue_reply`, whose author may have
seen a reply that changed since. The rest is one run of `run_google_operations` at one operation: `Find` its query, `NotManager` the
cancellation when the author has left, `TurnAway` and `Enter` the first reading behind `google_lock`, then the readback: `CannotRead`,
`Revoked`, `Matches`, `Differs` or `Arm`. `Arm` commits `running` with a lease and so gives up the lock. `Desist` and `Send` are the second
reading behind it, `Answer`, `Refuse` and `GiveUp` what comes of the write. `Crash` may come at any point. A write may take effect at Google
after the job gave it up (`Land`), or never (`Lose`), and `Edit` is anyone who changes the reply on Google. `Expire` and `NotManager` take no lock,
so they may write under a job that holds it: the request they erase may be gone when a job that found the row opens it (`blank`), and a job that arms
an operation after it expired makes it `running` again, until the next `Expire`.

A reply is its text and a revision, `None` no reply. `Save` leaves the row alone when the state is the one that was read, as the session
does. A job that turns away without a commit keeps the lock until its next one, which changes nothing here. Left out: the
authorization flow in Redis, reading reviews, and review requests.

## Runs

| Run | Instance | Shows |
| --- | --- | --- |
| `deliveries` | an email and an inbox text, two dispatchers, lease 2, retry 1, window 3 | at most one send, honest rows, an inbox that agrees, the queue implements `Sender`, and every queued delivery leaves the queue |
| `payments` | two intents, one cash payment, total 2, two handlers at a time, six different events of Stripe's | canceled rows are closed at Stripe, never more kept than billed, what Stripe took can still be booked, refunds in the books are never ahead of Stripe |
| `payments_live` | one intent, cash, one refund key, total 1, two handlers at a time | what Stripe took is booked, refunds come to agree |
| `disputes_payouts` | one dispute with amount 2 and fees up to 2, or two payouts, handlers of one thing overlapping | the books hold only what happened; the last event or the reconciliation brings the stripe account level; what is missing stays listed; no refund of money that is pulled |
| `hours_devices` | two devices, three proposals, two days | each week applied once, outcomes true, only own days changed, an accepted week shown until it is synced |
| `hours_tabs` | two tabs on one outbox, two proposals | no proposal under way is ever left without a pass that may send it, and proposals drain |
| `commands` | two requests, three keys, three copies on the way, one release | the server and the forms implement `Attempts`; one effect per submission; nothing done is told as refused; what the server has begun it ends |
| `class_seats` | four sign-ups, two members, two commands at a time, two seats, one move of the session | the commands implement `Roster`, no seat is idle and nobody is left on a canceled session until a command strays; strays alone overbook; nobody waits forever |
| `deposits` | one closed attempt; three transactions begun, settlements lost or late writes; either source | one deposit paid from the link, canceled rows closed at Stripe, `deposit_status` follows the money, no paid hold released, late money goes back, and what Stripe charged is settled |
| `google_replies` | one reply, three overlapping jobs, four generations, two edits on Google | no second write while the first may count, none after a cut, outcomes told truly, and every reply ends |
| two runs that expect a violation | see Findings | |

The bounds are the smallest at which the cases meet. Two dispatchers and a lease shorter than the window let one
answer late while the other decides. Two intents and cash let a late payment find the bill paid, and two handlers are
the fewest that overlap, on one intent or on two. `FewEvents` follows that run up to six different events of Stripe's,
enough for both intents to be declined and charged and one of them sent back by a refund that is told twice; the live
run has no such bound. A total of 2 allows a partial payment, an amount of 2 a partial reinstatement, fees up to 2 a
fee that grows twice. Disputes and payouts share no journal, so the run looks at one kind at a time (the action
constraint `OneKind`). Two requests of a form are the fewest that can meet under one key, three keys let a reused key
be replaced twice, and `InOrder` uses keys and copies in a fixed order, which only renames them. Three proposals let
one device chain two while the other one interferes. Two seats and four sign-ups fill a class and leave two in line,
so the order of the line matters; two commands at once are the fewest that race. The session is moved once, after
which the second member stands where the first one did; commands that loaded it before may wait across the move, and
once one has strayed those under way are followed to their end and no others begin. Three of `Attempts` are an
attempt, one that replaces it and one that ends the visit, or an attempt, its end and a decline written over it late;
with one closed attempt counted, the link has two keys, which it and the desk may share. `BookingsInOrder` and, but
for the bounds just named, `InOrder` only rename sign-ups and commands. Operations on one Google review are queued one
after another and meet only at the reply on Google, where `Edit` stands for the others, so one operation is enough.
Three jobs let one write, one read back and one cancel at a time, and four generations let the connection be made, cut
and made again. Symmetry is used only in runs without liveness: intents, operations, days and the two devices with
their tabs are interchangeable there.

A run checks the properties that are about behaviour. Type invariants are proved by TLAPS (`TypeCorrect` of seven modules) and not checked again;
`TypeOK` of `HoursOutbox` is there for the reader (its proofs use `Types`, which does not bound revisions). `ReusedByReleaseOnly` is proved only.

Runs whose system may rightly stop (an invoice that is paid, an outbox that is empty, a dispute that
is over) do not check for deadlock.

## Fairness

Only what the worker's schedule repeats is fair. `Deliveries`: the clock and the minutely sweep. A dispatcher's own
steps are not, since it may die. `InvoicePayments`: the hourly reconciliation, and that a handler which has begun ends
or fails; it is not assumed to succeed every time, only not to fail every time (strong fairness). `StripeBalance`: the
hourly reconciliation of each dispute and payout that is listed, and the same for a handler that waits for a lock.
This is why `BooksCatchUp` speaks of the stripe account alone: that a dispute was lost or a payout arrived is known
only from an event or from its replay, which the worker asks for within a week, and `LastNewsSuffices` says that one
of them is enough. `HoursOutbox`: uploaders run again and again on open tabs, not every answer is lost, the server
answers a request it has, the stream is synced. `Commands`: the server goes on with a request it has; nothing is
assumed of the network or of the person. `ClassSeats`: time passes, a transaction that has its locks ends (it calls
nobody whose answer it needs), and the job of past bookings runs every quarter of an hour; nobody has to cancel, so a
seat need not come. `BookingDeposits`: a settlement that can go on does, as Stripe sends an event for days and the
hourly reconciliation finds what it missed, and a transaction ends. It commits, fails, or is the one Postgres gives up
when it waits for the payment's row and a settlement that holds that row waits for the visit's
(`core/command.py:205`). Nothing is assumed of confirmations, providers or people. `GoogleReplies`: weeks pass and the
cron goes on, which cancels operations a week old. Nothing is assumed of Google or of a job that has begun.

## Proofs

Every module of the system has a module of proofs (`DeliveriesProofs`, `InvoicePaymentsProofs` and so on), which TLAPS checks for all values
of the constants that meet the named assumptions of the module. All safety properties of the passing runs are proved.

Deliveries. `TypeCorrect` is inductive by itself. `SentAtMostOnce` and `HonestAlways` need three more
facts: a row that may be claimed was never taken and has no dispatcher on it (`FreeInv`), at most one
dispatcher works on a row (`ExclusiveInv`), and an open call has not been taken yet while an answer
tells the truth (`CallInv`). Without them a state could have two open calls on one row, each of
which would be taken. `LeaveAgrees` says that whatever writes a row writes the inbox copy with it, from which `InboxAlwaysAgrees`;
`OutcomesAlwaysStand` (an action property stated with the proofs) is that an
answer is written only while the fence shows the row is still the dispatcher's. `QueueImplementsSender` puts this together: a
step of the queue writes one row (`Moves`), which `Sender` sees only if the row leaves the queue (`MovesInside`,
`MovesOut`); the facts above say that it then leaves it with the truth. A call reaches a message that is open or unknown
(`CallSends`), and what a report makes of a row is what it makes of what was told (`EventTold`).

InvoicePayments. The money is a sum over a finite set, which TLA+ defines by recursion, and no step of a proof can use
induction with an operator as its parameter. `SetInduction` says the same with a set `C` of subsets in its place, and
gives what a sum does when an element joins, leaves or changes (`SumRecursion` to `SumParts`). `NeverOverkeptAlways`
is then that a payment is measured, under the invoice's lock, against what is billed less what is kept (`Owed`), and
that steps add to what is kept only there (`KeptGrows`, `KeptShrinks`, `KeptQuiet`). The invariant around it says what
an event, an open handler, a booked journal and a refund tell of the intent at Stripe (`Facts`), and gives
`ClosedAlways` as well. All of it holds for any number of handlers, overlapping in any way, of one intent too.
`TakenAlwaysCanBeBooked` is what remains true when they write over each other: supersession, cancellation and a late
decline could each close the row of a charge, and `CanceledIsClosed` is why they do not; a decline that is written
over a settled row leaves it booked. `RefundsAlwaysBehind` says that no row of a refund is ahead of Stripe (`Sofar`)
and its journals are those of the row. `KeyAssumption` says that staff's refund keys and payments' ids are no names of
other things.

HoursOutbox. The invariant follows an operation from the editor to the receipt: it makes one request, whoever sends it
and however often (`NetInv`), a row that was tried stands for that request (`RowOK`), a receipt is of that request and
of a revision that is past (`ReceiptInv`), and a refused request named a revision the server had passed by then
(`ReplyOK`), so that no late copy of it can be applied. `OutboxKeeps` is the one lemma for every step that writes an
outbox; `CleanedOK` says that rows whose predecessor is forgotten still name a past revision; `RepairsInv` says what
an "Apply changes" under way carries, whatever the outbox becomes between its click and its transaction.
`HonestAlways`, `OnceAlways` and `ShownAlways` follow, for any number of tabs on an outbox. What the transaction of
"Apply changes" deletes is no exception from a guard: `ShownUntilSynced` names it as one of the ways in which an
accepted row may go. The last link has an exception, found when the invariant was not inductive: an editor that
outlived its row names a revision that may be still to come. It is refused now and shown as rejected, and a copy of
the request that is still on its way is applied when the server has come to that revision. This takes five operations,
more than the runs have; `HonestOutcome` leaves `resumed` out by name.

`OnlyOwnDaysAlways` needs a second invariant, `OwnInv`: outside the days changed by hand, a waiting row and an editor agree with the
week they will replace. Which week that is depends on the row: the server's if the row names no predecessor and the newest
revision, its predecessor's if it names one, and none once the server has passed the revision it would name (`Stale`), as it will be
refused. `Ordered` says that only the last row of an outbox waits and that the rows before it, accepted, name lower revisions, so that a
predecessor that is forgotten is either stale or the server's week; that is `StaleOrLast` and `ChildOwn`, the step from a row to its
child's. An editor agrees with the row it shows (`OwnEditor`) or with the replica it opened on (`NewEditor`). The attempt to prove it
found a way out of what `OnlyOwnDays` excluded at first, beyond the bounds of the runs: another tab that shows a rejected week over the
synced one, while the queue is discarded from the sync screen, submits that week as if it were new. `repairs` now counts it: it is
a rejected week sent again, like "Apply changes".

`NeverStrandedAlways` is the part of `Drains` that is no matter of fairness: rows that wait for each other must leave one that
waits for nothing. A row nobody tried names a predecessor that is still in the outbox (`LinkInv`), through every way in which rows
leave it: when accepted rows are forgotten their children follow nobody (`CleanedLinks`), and the discards leave only accepted rows,
all of them tried. Only the last row of an outbox can be untried (`Ordered`), so the predecessor was tried: it is accepted, or
may be sent again itself (`GoesOn`).

StripeBalance. The argument is that a dispute only moves forward. Every snapshot is `Behind` the case
as it is now (`Forward`; `MovesForward` shows each move of Stripe keeps this). Handlers book the larger
of what they read and what is booked, so the books stay behind Stripe (`DisputesInv`), and once the
latest snapshot of a decided case was handled they are level with it and stay so (`Reflected`), as no later
handler can read more. A new move at Stripe cannot have been processed before it was made, which is why
`Reflected` survives it. `HandlerKeepsInv` is the one lemma for webhook, replay and reconciliation.
From the invariant follow `TypeCorrect`, `BooksInventNothing` and
`LastEventSettles`; for payouts this needs that an event is handled either as what it says or as what is so
now (`HandledInv`), however its handlers overlap. `RefundsAlwaysWait` rests on `BlockedWhilePulled`: while the funds are off the books
and the dispute is not won, `dispute_status` says so, in any order of events, so the look behind the lock refuses.
`MissingAlwaysListed` says more than
that sums agree: the books of what is not listed are level with Stripe journal by journal (`Level`), as sums alone could agree by chance and
differ after the next move. A move that leaves the net as it was leaves level books level (`QuietMove`), handlers only go
forward (`HandlerKeepsLevel`), and a reconciliation leaves nothing to find (`ReconcileLevels`). It assumes that no dispute has a payout's id.

Commands. That `Commands` implements `Attempts` rests on three facts: one copy at a time is past a key's lock
(`LockInv`), a receipt is there exactly for the keys with an effect and names it with its request
(`ReceiptInv`), and a form is given only responses of its own attempt (`AnswerInv`, `HeardInv`). The lemma `Implements` maps
every step to one of `Attempts` or a stutter, and `EffectIsNeverRefused` follows from the same facts.
`OneEffectPerSubmission` counts: a submission may use several keys, but the form takes a new one for it only after
the server refused the last one as reused, which needs a release since (`LastInv`). So its effects were
stored in different releases (`ApartInv`), and mapping each to its release is an injection
into `0 .. release`. `ReusedNeedsRelease` is that a key is never sent with two requests.

ClassSeats. Until a command goes on behind the lock of a former member (`strays = {}`), every command that has decided
and not committed holds the lock of the member who leads the session (`MemberInv`), so there is at most one
(`LockInv`). Those that wait may have loaded the session before it was moved or called off. The heart is `PlanInv`:
what one decided is still what the roster allows, whatever happens until it commits. Time may pass, which only loosens
what a cancellation owes; the completion job may shorten the line of a class that is over, but not by a row the
command holds; a move or an end of the session needs the lock the command has. `CommandsImplementRoster` maps a commit
to one step of `Roster`, everything before it to a stutter, and `CommitKeepsSeats` counts the seats for each kind of
commit. `SeatsAreGivenOn` and `CanceledAlwaysEmpties` follow. After a command has strayed its roster is not the one it
counted, but `RoomInv` goes on: the commands that hold the lock of the session's own member count every seat, also
those of strays, so what they give never passes the capacity (`RoomForAll`).

BookingDeposits. Every safety property of the run and `TypeOK` are proved, for any number of attempts and
transactions. While a transaction holds the visit's row its deposit is due and nothing of it is booked
(`HolderFindsDue`), so no settlement can end: it would have to write the row, or has seen a `deposit_status` that is
not `pending`, which never returns to that (`SawBehind`). New payment rows wait for the visit as well. The open rows
the transaction has looked up are therefore all that can still be paid (`OpenInHand`), and when it has locked them
nothing is being settled (`NothingSettles`). From the first follow `ReleaseIsSafe` and, through the attempts that can
still be paid (`OneAlive`), `LinkPaysOnceAlways`; from the second that no visit is canceled between a first
settlement's look and its end (`CanceledUnseen`), which is `LateGoesBack`. `MoneyFollows` goes by the money that is
booked and not by rows, since a decline told late may be written over a settled one: what is `posted` stays posted,
whatever its row says, and a visit with something posted is no longer `pending` (`PostedIsSeen`); `deposit_status` is
borne out by it (`Told`), and only booked money is refunded (`RowsArePaid`).

GoogleReplies. The invariant says what a job may rely on while it holds no lock. An operation that is found `queued`
behind the lock is untried (`QueuedInv`): no write of it was sent that may count, since a write is told only by the
job that sent it, and there is one such job per operation (`OneWriter`). A job that has read it so keeps that
knowledge while it holds the lock (`ReadingInv`), and over the commit in the middle, because `running` is never taken
for `queued` again (`ArmedInv`). A job whose token was refused has lost the lock but its operation cannot be written
by another before the connection has a new generation, which is what `RevokedInv` and `StandsInv` say. `WritesAreSafe`
follows at `Send`, and `HonestAlways` needs that Google fulfilled the wish when the readback matched or the write was
answered (`ShownInv`).

Five liveness properties have a part that is no matter of fairness, that what they wait for is never lost. `TakenAlwaysCanBeBooked` is that of
`TakenIsBooked`, `RefundsAlwaysBehind` of `RefundsAgree`, `MissingAlwaysListed` of `BooksCatchUp`; the runs check all three. The other two are stated in
the modules of proofs:
* `ScheduledAlways`, for `Settles`: a delivery is in the queue exactly while it has a time at which it is taken, no further off than a lease or
  the retry delay.
* `NoLockIsLeft`, for `ServedToTheEnd`: a key is locked only by a copy that is being served, whichever way its server ends.

`AnswersAlwaysStand` adds to `HonestAlways` what the server says itself: a refused operation is never applied by a
later copy, unless it is in `resumed`, and one it accepted made the revision the answer names.

Model-checked only: liveness itself, since TLAPS proves nothing about fairness and ENABLED here. No module with theorems reaches a RECURSIVE operator.

## Findings

Two runs show where the code departs from what it says of itself.

* `no_show_charge`: `_has_open_deposit` passes over attempts that were declined, although their form can still be paid, or has been
  when the decline is told late. `forfeit_deposit` then charges the default card as well, and leaves that intent open.
* `class_called_off`: `ClassService.add` checks a session before it waits for the member's lock and not behind it, and
  confirms someone on a session that was canceled meanwhile. After a move to another member two such commands
  hold different locks and can both take the last seat. `class_seats` has the same steps; its properties name what they leave out, the
  bookings of such commands (`strays`) and those added to the session when it was canceled (`late`).

Others are known from the models without a run of their own. `_settle_payment` reads the payment without a lock, and
of two overlapping settlers of one intent the second measures the payment against the balance the first one paid with
it and sends it back (`services/payments.py:2663`). `_fail_payment` does as well, and its decline can be written over
a row that was settled meanwhile (`services/payments.py:3192`): the books keep the payment, its row says failed, and
refunds pass over it until it is settled again. `_unapplied` counts a payment whose refund is still pending, and sends
back a payment that the invoice owes. `arrive_payout` looks for a failure before the accounts are locked and may book
an arrival after one (`services/ledger.py:1299`), which its docstring says it never does. Repairing a rejected week
takes the server's revision with an older replica's days (`domain/hours.ts:588`), and another device's edit is lost,
though `.docs/launch-readiness.md:772` says otherwise; `OnlyOwnDays` leaves out `repairs`, which also counts a
rejected week that another tab still shows and submits after the queue was discarded (`sync/src/hours.ts:420`). A week
that is shown as rejected may still be applied if it comes from an editor that outlived its outbox row (see Proofs).
`run_google_operations` cancels the operations of a former manager without the lock and without reading the row again
(`services/reviews.py:775`), and so may write `canceled` over an outcome that was told.

## Plan

1. One-to-one visits: booking and moving under the locks of members, with crews and resources; the application of a deposit to
   an invoice, composed with `BookingDeposits`.
2. `Broadcasts`, composed with `Sender`, which `Deliveries` is shown to implement.
3. Entitlements, online orders and stock, earnings and remittances, the replica lifecycle.
4. Proofs: the invariants of the modules of 1 to 3.

## Not modelled

Most of the repository is not of a kind a model says anything about. Two thirds of its lines are screens, strings, generated
clients, tests and queries that select and format rows; a definition that named them would stand for nothing in
them. The modules cover the code whose steps meet other steps, which is a small part of the lines.

User interface, formatting and wording, reports and tax arithmetic, identity (kept by Kratos), storage and
provider adapters (pure I/O), generated clients, and infrastructure. `PROJECT.json` gives the reason for
each component, and a note for each hazard that no property covers yet.
