----------------------------- MODULE HoursOutbox -----------------------------
(***************************************************************************)
(* The working week of one team member, edited offline: the editor of      *)
(* app-core/src/domain/hours.ts, the outbox and uploader of                *)
(* sync/src/hours.ts on each device, and services/hours.py with            *)
(* services/receipts.py on the server.                                     *)
(*                                                                         *)
(* A week gives each day the operation that last set it, so two weeks are  *)
(* equal on a day exactly when nobody changed it in between.  Retry times  *)
(* are left out: any row whose retry_at may have passed can be taken.  The *)
(* member stays active on a paid plan and has no split days, and uploads   *)
(* arrive within the 90-day horizon, so a conflict is the only refusal.    *)
(***************************************************************************)
EXTENDS Integers, Sequences, SequencesExt, FiniteSets

CONSTANTS Device,  \* replicas of the business
          Tab,     \* open apps, each with an editor and an uploader
          Home,    \* the device each tab runs on
          Op,      \* operation ids
          Day      \* weekdays

ASSUME HoursAssumption == Home \in [Tab -> Device] /\ IsFiniteSet(Op) /\ IsFiniteSet(Day)

None == "none"
ASSUME NoneAssumption == None \notin Op

Week == [Day -> Op \cup {None}]
Empty == [d \in Day |-> None]
Revision == 0..Cardinality(Op)
NoReceipt == [expected |-> -1, days |-> Empty]
Request == [op : Op, expected : Revision, days : Week]
OutboxRow == [op : Op, expected : Revision, days : Week, base : Week,
              state : {"queued", "sending", "accepted", "rejected"},
              predecessor : Op \cup {None}, result : Revision \cup {-1}, tried : BOOLEAN]
\* The editor's days and its basis ref: the outbox row it opened on (its id
\* and payload), the revision and the week it starts from.
Editor == [open : {TRUE}, days : Week, revision : Revision, id : Op \cup {None},
           payload : {<<>>} \cup (Revision \X Week), base : Week,
           rebased : Op \cup {None}, mine : SUBSET Day]
Closed == [open |-> FALSE]

\* "Apply changes" under way: the editor as it was clicked, the days edited in it, and the
\* server's revision once it is read.
Unread == -1
NoRepair == [editor |-> Closed, edits |-> {}, revision |-> Unread]

VARIABLES
    revision,  \* staff.hours_revision on the server
    week,      \* the member's recurring hours on the server
    receipt,   \* sync_receipts: the payload accepted for each operation
    outbox,    \* hours_outbox of each device, by sequence
    replica,   \* staff.hours_revision and hours as last synced
    editor,    \* the week editor of each tab
    repair,    \* the "Apply changes" each tab has under way
    waiting,   \* the operation whose answer each uploader awaits
    net,       \* requests sent to the server
    reply,     \* answers it gave
    meant,     \* days the person changed by hand in each operation
    repairs,   \* operations that send a rejected week again: by "Apply changes", or
               \* from an editor that still shows it after the queue was discarded, and
               \* those that follow one from an editor rebased while it was prepared
    resumed    \* operations of an editor whose own proposal had left the outbox

server == <<revision, week, receipt>>
vars == <<server, outbox, replica, editor, repair, waiting, net, reply, meant, repairs, resumed>>

Fresh == {o \in Op : meant[o] = {}}
Applied(o) == receipt[o] # NoReceipt
Rows(d) == ToSet(outbox[d])
InState(d, s) == {r \in Rows(d) : r.state = s}
Latest(d) == outbox[d][Len(outbox[d])]

\* DELETE: the rows of s but those in gone, in their order.
Without(s, gone) ==
    LET upTo[n \in 0..Len(s)] ==
            IF n = 0 THEN <<>>
            ELSE IF s[n] \in gone THEN upTo[n - 1]
            ELSE Append(upTo[n - 1], s[n])
    IN upTo[Len(s)]

Init ==
    /\ revision = 0
    /\ week = Empty
    /\ receipt = [o \in Op |-> NoReceipt]
    /\ outbox = [d \in Device |-> <<>>]
    /\ replica = [d \in Device |-> [revision |-> 0, week |-> Empty]]
    /\ editor = [t \in Tab |-> Closed]
    /\ repair = [t \in Tab |-> NoRepair]
    /\ waiting = [t \in Tab |-> None]
    /\ net = {}
    /\ reply = {}
    /\ meant = [o \in Op |-> {}]
    /\ repairs = {}
    /\ resumed = {}

-----------------------------------------------------------------------------
(***************************************************************************)
(* The editor.                                                             *)
(***************************************************************************)
AwaitsServer(d) ==
    /\ outbox[d] # <<>>
    /\ Latest(d).state = "accepted" => replica[d].revision < Latest(d).result

\* openingWeek: the last proposal while it is under way, else the replica.
OpenEditor(t) ==
    LET d == Home[t]
        empty == outbox[d] = <<>> IN
    /\ editor[t] = Closed
    /\ editor' = [editor EXCEPT ![t] =
          IF AwaitsServer(d)
          THEN [open |-> TRUE, days |-> Latest(d).days, revision |-> Latest(d).expected + 1,
                id |-> Latest(d).op, payload |-> <<Latest(d).expected, Latest(d).days>>,
                base |-> Latest(d).base, rebased |-> None, mine |-> meant[Latest(d).op]]
          ELSE [open |-> TRUE, days |-> replica[d].week, revision |-> replica[d].revision,
                id |-> IF empty THEN None ELSE Latest(d).op,
                payload |-> IF empty THEN <<>> ELSE <<Latest(d).expected, Latest(d).days>>,
                base |-> replica[d].week, rebased |-> None, mine |-> {}]]
    /\ UNCHANGED <<server, outbox, replica, repair, waiting, net, reply, meant, repairs, resumed>>

CloseEditor(t) ==
    /\ editor[t].open
    /\ repair[t] = NoRepair
    /\ editor' = [editor EXCEPT ![t] = Closed]
    /\ UNCHANGED <<server, outbox, replica, repair, waiting, net, reply, meant, repairs, resumed>>

\* rebaseWeek: current, with the days the proposal changed laid over it.
RebaseWeek(base, proposal, current) ==
    [d \in Day |-> IF proposal[d] = base[d] THEN current[d] ELSE proposal[d]]

\* The effect that shows a rejected proposal over the week as synced.
Rebase(t) ==
    LET d == Home[t] IN
    /\ editor[t].open
    /\ outbox[d] # <<>>
    /\ Latest(d).state = "rejected"
    /\ editor[t].rebased # Latest(d).op
    /\ replica[d].revision > Latest(d).expected
    /\ editor' = [editor EXCEPT
          ![t].rebased = Latest(d).op,
          ![t].base = replica[d].week,
          ![t].days = RebaseWeek(Latest(d).base, Latest(d).days, replica[d].week),
          ![t].mine = @ \cup meant[Latest(d).op]]
    /\ UNCHANGED <<server, outbox, replica, repair, waiting, net, reply, meant, repairs, resumed>>

NewRow(o, expected, days, base, predecessor) ==
    [op |-> o, expected |-> expected, days |-> days, base |-> base, state |-> "queued",
     predecessor |-> predecessor, result |-> -1, tried |-> FALSE]

\* What the editor keeps after enqueueHours returned the proposal.
Enqueued(t, o, expected, days, mine) ==
    /\ editor' = [editor EXCEPT ![t].id = o, ![t].revision = expected + 1,
                                ![t].payload = <<expected, days>>, ![t].days = days,
                                ![t].mine = mine]
    /\ meant' = [meant EXCEPT ![o] = mine]
    /\ UNCHANGED <<server, replica, repair, waiting, net, reply>>

\* Days edited by hand get the operation that carries them.
Edited(e, E, o) == [d \in Day |-> IF d \in E THEN o ELSE e.days[d]]

\* Fault: the proposal names the revision synced by now, not the one edited.
Expected_synced(t) == replica[Home[t]].revision

\* The revision a new proposal replaces: the last proposal's, known or to come.
Expected(t) ==
    LET d == Home[t] IN
    IF outbox[d] = <<>> THEN editor[t].revision
    ELSE IF Latest(d).result # -1 THEN Latest(d).result
    ELSE Latest(d).expected + 1

\* The editor shows another week than the one it last sent.
Strayed(t) == editor[t].days # editor[t].payload[2]

\* submit with nothing rejected: change the waiting proposal, or add one.
Submit(t, E) ==
    LET d == Home[t]
        empty == outbox[d] = <<>>
        mine == editor[t].mine \cup E IN
    /\ editor[t].open
    /\ repair[t] = NoRepair
    /\ InState(d, "rejected") = {}
    /\ ~empty => /\ editor[t].id = Latest(d).op
                 /\ editor[t].payload = <<Latest(d).expected, Latest(d).days>>
    /\ IF ~empty /\ Latest(d).state = "queued" /\ ~Latest(d).tried
       THEN LET o == Latest(d).op
                days == Edited(editor[t], E, o) IN
            /\ outbox' = [outbox EXCEPT ![d][Len(outbox[d])].days = days]
            /\ Enqueued(t, o, Latest(d).expected, days, mine)
            /\ UNCHANGED <<repairs, resumed>>
       ELSE \E o \in Fresh :
            LET days == Edited(editor[t], E, o)
                expected == Expected(t)
                from == IF empty THEN editor[t].base ELSE Latest(d).days
                parent == IF empty THEN None ELSE Latest(d).op IN
            /\ outbox' = [outbox EXCEPT ![d] = Append(@, NewRow(o, expected, days, from, parent))]
            /\ Enqueued(t, o, expected, days, mine)
            /\ resumed' = resumed \cup {r \in {o} : empty /\ editor[t].id # None}
            /\ repairs' = repairs \cup {r \in {o} : IF empty THEN editor[t].id = None /\ editor[t].mine # {}
                                                         ELSE parent \in repairs /\ Strayed(t)}

(***************************************************************************)
(* submit on a rejection ("Apply changes"): the revision the server has    *)
(* now is read, then one transaction replaces every row of the outbox by   *)
(* one new proposal, whatever they have become since the click.  A Rebase  *)
(* in between changes what the editor shows, not what is sent.             *)
(***************************************************************************)
ApplyChanges(t, E) ==
    /\ editor[t].open
    /\ repair[t] = NoRepair
    /\ InState(Home[t], "rejected") # {}
    /\ editor[t].mine \cup E # {}
    /\ repair' = [repair EXCEPT ![t] = [editor |-> editor[t], edits |-> E, revision |-> Unread]]
    /\ UNCHANGED <<server, outbox, replica, editor, waiting, net, reply, meant, repairs, resumed>>

ReadRevision(t) ==
    /\ repair[t] # NoRepair
    /\ repair[t].revision = Unread
    /\ repair' = [repair EXCEPT ![t].revision = revision]
    /\ UNCHANGED <<server, outbox, replica, editor, waiting, net, reply, meant, repairs, resumed>>

Repair(t) ==
    LET d == Home[t]
        clicked == repair[t].editor
        expected == repair[t].revision
        mine == clicked.mine \cup repair[t].edits IN
    /\ expected # Unread
    /\ InState(d, "sending") = {}
    /\ \E o \in Fresh :
          LET days == Edited(clicked, repair[t].edits, o)
              shown == IF editor[t] = clicked THEN [clicked EXCEPT !.days = days, !.mine = mine]
                       ELSE editor[t] IN
          /\ outbox' = [outbox EXCEPT ![d] = <<NewRow(o, expected, days, editor[t].base, None)>>]
          /\ editor' = [editor EXCEPT ![t] = [shown EXCEPT !.id = o, !.revision = expected + 1,
                                                           !.payload = <<expected, days>>]]
          /\ meant' = [meant EXCEPT ![o] = mine]
          /\ repairs' = repairs \cup {o}
    /\ repair' = [repair EXCEPT ![t] = NoRepair]
    /\ UNCHANGED <<server, replica, waiting, net, reply, resumed>>

\* The read fails, a week is uploading, or the app is closed.
RepairFails(t) ==
    /\ repair[t] # NoRepair
    /\ repair' = [repair EXCEPT ![t] = NoRepair]
    /\ UNCHANGED <<server, outbox, replica, editor, waiting, net, reply, meant, repairs, resumed>>

\* discardRejectedHours, from the editor, which falls back to the replica.
Discard(t) ==
    LET d == Home[t] IN
    /\ editor[t].open
    /\ repair[t] = NoRepair
    /\ InState(d, "rejected") # {}
    /\ InState(d, "sending") = {}
    /\ outbox' = [outbox EXCEPT ![d] = <<>>]
    /\ editor' = [editor EXCEPT ![t] =
          [@ EXCEPT !.days = replica[d].week, !.revision = replica[d].revision, !.id = None,
                    !.payload = <<>>, !.base = replica[d].week, !.mine = {}]]
    /\ UNCHANGED <<server, replica, repair, waiting, net, reply, meant, repairs, resumed>>

\* discardRejectedQueue, from the sync screen.
DiscardQueue(d) ==
    /\ InState(d, "rejected") # {}
    /\ InState(d, "sending") = {}
    /\ outbox' = [outbox EXCEPT ![d] = Without(@, Rows(d) \ InState(d, "accepted"))]
    /\ UNCHANGED <<server, replica, editor, repair, waiting, net, reply, meant, repairs, resumed>>

-----------------------------------------------------------------------------
(***************************************************************************)
(* uploadHoursOnce: one transaction forgets the accepted weeks the replica *)
(* shows and takes the next proposal; then the request; then its outcome.  *)
(***************************************************************************)
\* Fault: an accepted week is forgotten before the replica shows it.
Observed_at_once(d) == InState(d, "accepted")

Observed(d) == {r \in InState(d, "accepted") : replica[d].revision >= r.result}

\* Fault: the children of the forgotten rows still wait for them.
Cleaned_unlinked(d) == Without(outbox[d], Observed(d))

\* The outbox after the observed rows are gone and their children follow on.
Cleaned(d) ==
    LET gone == Observed(d)
        follow(r) ==
            IF \E p \in gone : p.op = r.predecessor
            THEN LET p == CHOOSE p \in gone : p.op = r.predecessor IN
                 [r EXCEPT !.predecessor = None,
                           !.expected = IF r.tried THEN @ ELSE p.result]
            ELSE r
        kept == Without(outbox[d], gone) IN
    [i \in DOMAIN kept |-> follow(kept[i])]

Parents(rows, r) == {p \in ToSet(rows) : p.op = r.predecessor}

\* Fault: a row whose tab died is never taken again.
Eligible_queued(rows, r) ==
    /\ r.state = "queued"
    /\ r.predecessor = None \/ r.tried \/ \E p \in Parents(rows, r) : p.state = "accepted"

Eligible(rows, r) ==
    /\ r.state \in {"queued", "sending"}
    /\ \/ r.predecessor = None
       \/ \E p \in Parents(rows, r) : p.state = "accepted"
       \/ r.tried

Take(t) ==
    LET d == Home[t]
        rows == Cleaned(d) IN
    /\ waiting[t] = None
    /\ \E i \in DOMAIN rows :
          /\ Eligible(rows, rows[i])
          /\ LET r == rows[i]
                 expected == IF ~r.tried /\ r.predecessor # None
                             THEN (CHOOSE p \in Parents(rows, r) : TRUE).result
                             ELSE r.expected IN
             /\ outbox' = [outbox EXCEPT ![d] =
                   [rows EXCEPT ![i] = [r EXCEPT !.state = "sending", !.tried = TRUE,
                                                 !.expected = expected]]]
             /\ net' = net \cup {[op |-> r.op, expected |-> expected, days |-> r.days]}
             /\ waiting' = [waiting EXCEPT ![t] = r.op]
    /\ UNCHANGED <<server, replica, editor, repair, reply, meant, repairs, resumed>>

\* The pass finds nothing due.
Forget(t) ==
    LET d == Home[t] IN
    /\ waiting[t] = None
    /\ Observed(d) # {}
    /\ outbox' = [outbox EXCEPT ![d] = Cleaned(d)]
    /\ UNCHANGED <<server, replica, editor, repair, waiting, net, reply, meant, repairs, resumed>>

\* The outcome, written to the row if it is still there.
Mark(d, o, allowed, state, result) ==
    outbox' = [outbox EXCEPT ![d] =
        [i \in DOMAIN @ |-> IF @[i].op = o /\ @[i].state \in allowed
                            THEN [@[i] EXCEPT !.state = state, !.result = result]
                            ELSE @[i]]]

Accepted(t, a) ==
    /\ waiting[t] = a.op
    /\ a \in reply
    /\ a.ok
    /\ Mark(Home[t], a.op, {"queued", "sending", "accepted", "rejected"}, "accepted", a.revision)
    /\ waiting' = [waiting EXCEPT ![t] = None]
    /\ UNCHANGED <<server, replica, editor, repair, net, reply, meant, repairs, resumed>>

Rejected(t, a) ==
    /\ waiting[t] = a.op
    /\ a \in reply
    /\ ~a.ok
    /\ Mark(Home[t], a.op, {"queued", "sending", "rejected"}, "rejected", -1)
    /\ waiting' = [waiting EXCEPT ![t] = None]
    /\ UNCHANGED <<server, replica, editor, repair, net, reply, meant, repairs, resumed>>

\* A timeout, a lost connection or a 5xx: the request may still be handled.
GiveUp(t) ==
    /\ waiting[t] # None
    /\ Mark(Home[t], waiting[t], {"sending"}, "queued", -1)
    /\ waiting' = [waiting EXCEPT ![t] = None]
    /\ UNCHANGED <<server, replica, editor, repair, net, reply, meant, repairs, resumed>>

\* The tab is closed or killed; its row stays sending until the lease ends.
Die(t) ==
    /\ waiting[t] # None
    /\ waiting' = [waiting EXCEPT ![t] = None]
    /\ editor' = [editor EXCEPT ![t] = Closed]
    /\ repair' = [repair EXCEPT ![t] = NoRepair]
    /\ UNCHANGED <<server, outbox, replica, net, reply, meant, repairs, resumed>>

-----------------------------------------------------------------------------
\* The week is applied and its receipt kept.
Apply(q) ==
    /\ receipt' = [receipt EXCEPT ![q.op] = [expected |-> q.expected, days |-> q.days]]
    /\ week' = q.days
    /\ revision' = revision + 1

Answer(q, good, r) == reply' = reply \cup {[op |-> q.op, ok |-> good, revision |-> r]}

\* Fault: the revision is checked before the receipt.
Replace_no_replay(q) ==
    /\ q \in net
    /\ IF revision # q.expected
       THEN Answer(q, FALSE, 0) /\ UNCHANGED server
       ELSE Apply(q) /\ Answer(q, TRUE, revision + 1)
    /\ UNCHANGED <<outbox, replica, editor, repair, waiting, net, meant, repairs, resumed>>

\* Fault: the last writer wins.
Replace_unconditional(q) ==
    /\ q \in net
    /\ IF Applied(q.op) \/ revision = Cardinality(Op)
       THEN Answer(q, TRUE, receipt[q.op].expected + 1) /\ UNCHANGED server
       ELSE Apply(q) /\ Answer(q, TRUE, q.expected + 1)
    /\ UNCHANGED <<outbox, replica, editor, repair, waiting, net, meant, repairs, resumed>>

(***************************************************************************)
(* HoursService.replace with reserve_receipt, one transaction under the    *)
(* business's hours lock.  A conflict rolls its receipt back.              *)
(***************************************************************************)
Replace(q) ==
    /\ q \in net
    /\ IF Applied(q.op)
       THEN /\ Answer(q, receipt[q.op] = [expected |-> q.expected, days |-> q.days],
                      receipt[q.op].expected + 1)
            /\ UNCHANGED server
       ELSE IF revision # q.expected
       THEN Answer(q, FALSE, 0) /\ UNCHANGED server
       ELSE Apply(q) /\ Answer(q, TRUE, revision + 1)
    /\ UNCHANGED <<outbox, replica, editor, repair, waiting, net, meant, repairs, resumed>>

\* The sync stream brings the server's rows to a device in one checkpoint.
Sync(d) ==
    /\ replica' = [replica EXCEPT ![d] = [revision |-> revision, week |-> week]]
    /\ UNCHANGED <<server, outbox, editor, repair, waiting, net, reply, meant, repairs, resumed>>

Receive(t) == \E a \in reply : Accepted(t, a) \/ Rejected(t, a)

Next ==
    \/ \E t \in Tab :
          \/ OpenEditor(t) \/ CloseEditor(t) \/ Rebase(t) \/ Discard(t)
          \/ \E E \in SUBSET Day : (E # {} /\ Submit(t, E)) \/ ApplyChanges(t, E)
          \/ ReadRevision(t) \/ Repair(t) \/ RepairFails(t)
          \/ Take(t) \/ Forget(t) \/ Receive(t) \/ GiveUp(t) \/ Die(t)
    \/ \E q \in net : Replace(q)
    \/ \E d \in Device : Sync(d) \/ DiscardQueue(d)

Spec == Init /\ [][Next]_vars

(***************************************************************************)
(* Fairness: the uploader runs every second in some open tab, the server   *)
(* answers what reaches it and not every attempt times out, and the sync   *)
(* stream goes on.  Nothing is assumed of the person at the editor.        *)
(***************************************************************************)
Fairness ==
    /\ \A t \in Tab : SF_vars(Take(t)) /\ WF_vars(Forget(t)) /\ SF_vars(Receive(t))
    /\ \A q \in Request : WF_vars(Replace(q))
    /\ \A d \in Device : WF_vars(Sync(d))

FairSpec == Spec /\ Fairness

-----------------------------------------------------------------------------
TypeOK ==
    /\ revision \in Revision
    /\ week \in Week
    /\ \A o \in Op : Applied(o) => receipt[o] \in [expected : Revision, days : Week]
    /\ \A d \in Device : \A r \in Rows(d) : r \in OutboxRow
    /\ \A d \in Device : replica[d] \in [revision : Revision, week : Week]
    /\ \A t \in Tab : editor[t] = Closed \/ editor[t] \in Editor
    /\ repair \in [Tab -> [editor : {Closed} \cup Editor, edits : SUBSET Day,
                           revision : Revision \cup {Unread}]]
    /\ waiting \in [Tab -> Op \cup {None}]
    /\ net \subseteq Request
    /\ reply \subseteq [op : Op, ok : BOOLEAN, revision : Revision]

\* What a device says of a proposal is what the server did with it, after any
\* number of timeouts, retries and reloads: accepted with the revision it made,
\* rejected only if it was never applied.  An editor that outlived its outbox row
\* may name a revision still to come: refused now, its week may be applied later.
HonestOutcome ==
    \A d \in Device : \A r \in Rows(d) :
        /\ r.state = "accepted" => Applied(r.op) /\ r.result = receipt[r.op].expected + 1
        /\ r.state = "rejected" => ~Applied(r.op) \/ r.op \in resumed

\* No outbox is ever stuck: while a proposal is under way and none waits for the person as
\* rejected, a pass of the uploader finds one it may send, whatever was forgotten, discarded,
\* given up or left by a dead tab before.
NeverStranded ==
    \A d \in Device :
        InState(d, "queued") \cup InState(d, "sending") # {} /\ InState(d, "rejected") = {} =>
            \E r \in ToSet(Cleaned(d)) : Eligible(Cleaned(d), r)

\* Each week is sent exactly once: every revision of the week is one receipt's.
OncePerWeek ==
    /\ revision = Cardinality({o \in Op : Applied(o)})
    /\ \A o, p \in Op : Applied(o) /\ Applied(p) /\ receipt[o].expected = receipt[p].expected => o = p

NowApplied(o) == ~Applied(o) /\ receipt'[o] # NoReceipt
Changed == {d \in Day : week'[d] # week[d]}

KeepsOthers(o) == NowApplied(o) => Changed \subseteq meant[o]

\* A week built on the replica or on the device's own last proposal changes no
\* day but those the person changed: nobody's edit is overwritten unseen.
OnlyOwnDays == [][\A o \in Op \ (repairs \cup resumed) : KeepsOthers(o)]_vars

\* An accepted week stays in the outbox, and so on screen, until the replica
\* shows it, the person gave up a rejected one, or "Apply changes" of some tab
\* put its own proposal in the place of the whole outbox.
ShownUntilSynced ==
    [][\A d \in Device : \A r \in InState(d, "accepted") :
          (\A s \in ToSet(outbox'[d]) : s.op # r.op) =>
              \/ replica[d].revision >= r.result
              \/ InState(d, "rejected") # {}
              \/ \E s \in ToSet(outbox'[d]) : s.op \in repairs' \ repairs]_vars

\* Every proposal is eventually applied or put before the person as rejected.
Drains ==
    \A d \in Device, o \in Op :
        (\E r \in Rows(d) : r.op = o /\ r.state \in {"queued", "sending"})
            ~> \/ Applied(o)
               \/ InState(d, "rejected") # {}
               \/ \A r \in Rows(d) : r.op # o
=============================================================================
