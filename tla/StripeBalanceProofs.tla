------------------------- MODULE StripeBalanceProofs -------------------------
(***************************************************************************)
(* Proofs about StripeBalance, for any set of disputes and payouts and any *)
(* amount and fees.                                                        *)
(*                                                                         *)
(* The argument: a dispute only moves forward at Stripe, so every snapshot *)
(* an event carries is behind the dispute as it is now (Forward).  Each    *)
(* handler books the larger of what it reads and what is booked, so the    *)
(* books are behind Stripe too (NothingInvented), and equal to it once the *)
(* latest snapshot was handled (Reflected), whatever came in between.      *)
(***************************************************************************)
EXTENDS StripeBalance, TLAPS

Decided == {"won", "lost"}

\* Snapshot x is the case y at an earlier time.
Behind(x, y) ==
    /\ x.status \in Pulling => y.status \in Pulling
    /\ x.status \in Decided => y.status = x.status /\ x.fee = y.fee
    /\ x.fee <= y.fee
    /\ x.back <= y.back
    /\ x.backFee <= y.backFee
    /\ x.back = y.back => x.backFee = y.backFee

\* Every event is behind its dispute, and money comes back only when decided.
Forward ==
    /\ \A e \in sent : Behind(e.data, case[e.of])
    /\ \A d \in Dispute :
          /\ case[d].status \notin Decided => case[d].back = 0
          /\ case[d].back = 0 => case[d].backFee = 0
          /\ case[d].status \notin Pulling => case[d].fee = 0

\* The journals that hang together, and the status that mirrors the case.
Consistent ==
    \A d \in Dispute :
        /\ pulled[d] => tracked[d] \in Pulling
        /\ tracked[d] = "won" => case[d].status = "won"
        /\ ~won[d] => feeReturned[d] = 0
        /\ ~lost[d] => reinstated[d] = [amount |-> 0, net |-> 0]
        /\ reinstated[d].amount = case[d].back /\ case[d].status = "lost"
              => reinstated[d].net = case[d].back + case[d].backFee

LastEvent(d) == [of |-> d, type |-> "closed", data |-> case[d]]

\* Once the decided case as it is was handled, every journal says the same.
Reflected ==
    \A d \in Dispute :
        LastEvent(d) \in processed /\ case[d].status \in Decided =>
            /\ pulled[d]
            /\ feeBooked[d] = case[d].fee
            /\ case[d].status = "won" => won[d] /\ feeReturned[d] = case[d].backFee
            /\ case[d].status = "lost" => lost[d] /\ reinstated[d].amount = case[d].back

DisputesInv ==
    \A d \in Dispute :
        /\ pulled[d] => case[d].status \in Pulling
        /\ won[d] => pulled[d] /\ case[d].status = "won"
        /\ lost[d] => pulled[d] /\ case[d].status = "lost"
        /\ feeBooked[d] <= case[d].fee
        /\ feeReturned[d] <= case[d].backFee
        /\ reinstated[d].amount <= case[d].back

\* What was told of a payout, or is being handled, has happened.
PayoutsInv ==
    \A p \in Payout :
        /\ [of |-> p, type |-> "paid"] \in told => payout[p] \in {"paid", "failed"}
        /\ [of |-> p, type |-> "failed"] \in told => payout[p] = "failed"
        /\ arriving[p].news \subseteq told
        /\ ~arriving[p].waits => arriving[p] = NotArriving
        /\ arriving[p].waits => payout[p] \in {"paid", "failed"} /\ "created" \in moved[p]
        /\ "paid" \in moved[p] => payout[p] \in {"paid", "failed"}
        /\ "created_failed" \in moved[p] => payout[p] = "failed"

\* A payout's event that says what is so now was handled as that, and nothing
\* that waits to book an arrival brings news of a failure.
HandledAt(p) ==
    /\ [of |-> p, type |-> "paid"] \in done /\ payout[p] = "paid"
          => "created" \in moved[p] /\ "paid" \in moved[p]
    /\ [of |-> p, type |-> "failed"] \in done => "created_failed" \in moved[p]
    /\ "paid_failed" \in moved[p] => "created_failed" \in moved[p]
    /\ \A e \in arriving[p].news : e.of = p /\ e.type # "failed"

HandledInv == \A p \in Payout : HandledAt(p)

Inv == TypeOK /\ Forward /\ Consistent /\ Reflected /\ DisputesInv /\ PayoutsInv
       /\ HandledInv

StripeMoves(d) ==
    Inquire(d) \/ EndInquiry(d) \/ Chargeback(d) \/ Respond(d) \/ Decide(d) \/ Reinstate(d)

-----------------------------------------------------------------------------
\* The initial state satisfies the invariant.
LEMMA InitInv == Init => Inv
  BY BalanceAssumption DEF Init, Inv, TypeOK, Forward, Consistent, Reflected, DisputesInv,
       PayoutsInv, HandledInv, HandledAt, Case, NoCase, NoFunds, Pulling, Decided, PayoutStatus, NotArriving, LastEvent

\* What a move of d to x at Stripe may be.
Onward(d, x) ==
    /\ x \in Case
    /\ Behind(case[d], x)
    /\ x.status \notin Decided => x.back = 0
    /\ x.back = 0 => x.backFee = 0
    /\ x.status \notin Pulling => x.fee = 0
    /\ x.status \in Decided /\ case[d].status \in Decided => case[d].back < x.back

\* Every move of a dispute at Stripe puts a later case in its place.
LEMMA MovesForward ==
  ASSUME TypeOK, Forward, NEW d \in Dispute, StripeMoves(d)
  PROVE  \E x \in Case, types \in SUBSET {"created", "updated", "closed"} :
            Becomes(d, x, types) /\ Onward(d, x)
<1> DEFINE Types == SUBSET {"created", "updated", "closed"}
<1>1. case[d] \in Case
  BY DEF TypeOK
<1>2. /\ case[d].status \notin Decided => case[d].back = 0
      /\ case[d].back = 0 => case[d].backFee = 0
      /\ case[d].status \notin Pulling => case[d].fee = 0
  BY DEF Forward
<1>3. CASE Inquire(d)
  <2> DEFINE x == [case[d] EXCEPT !.status = "warning"]
  <2>1. Onward(d, x)
    BY <1>1, <1>2, <1>3 DEF Inquire, Onward, Behind, Case, NoFunds, Pulling, Decided
  <2>2. Becomes(d, x, {"created"})
    BY <1>3 DEF Inquire
  <2>3. x \in Case /\ {"created"} \in Types
    BY <2>1 DEF Onward
  <2>4. QED
    BY <2>1, <2>2, <2>3
<1>4. CASE EndInquiry(d)
  <2>1. PICK s \in {"warning", "prevented"} :
           Becomes(d, [case[d] EXCEPT !.status = s], {"closed"})
    BY <1>4 DEF EndInquiry
  <2> DEFINE x == [case[d] EXCEPT !.status = s]
  <2>2. Onward(d, x)
    BY <1>1, <1>2, <1>4 DEF EndInquiry, Onward, Behind, Case, NoFunds, Pulling, Decided
  <2>3. x \in Case /\ {"closed"} \in Types
    BY <2>2 DEF Onward
  <2>4. QED
    BY <2>1, <2>2, <2>3
<1>5. CASE Chargeback(d)
  <2> DEFINE types == {"updated"} \cup (IF case[d].status = "none" THEN {"created"} ELSE {})
  <2>1. PICK f \in 0..MaxFee :
           Becomes(d, [case[d] EXCEPT !.status = "needs_response", !.fee = f], types)
    BY <1>5 DEF Chargeback
  <2> DEFINE x == [case[d] EXCEPT !.status = "needs_response", !.fee = f]
  <2>2. case[d].status \in {"none", "warning"}
    BY <1>5 DEF Chargeback
  <2>3. /\ x.status = "needs_response" /\ x.fee = f
        /\ x.back = case[d].back /\ x.backFee = case[d].backFee
        /\ x \in Case
    BY <1>1 DEF Case, NoFunds, Pulling
  <2>4. types \in Types /\ Becomes(d, x, types)
    BY <2>1
  <2> HIDE DEF x
  <2>5. Onward(d, x)
    BY <1>1, <1>2, <2>2, <2>3, BalanceAssumption
       DEF Onward, Behind, Case, NoFunds, Pulling, Decided
  <2>6. QED
    BY <2>3, <2>4, <2>5
<1>6. CASE Respond(d)
  <2>1. PICK f \in case[d].fee..MaxFee :
           Becomes(d, [case[d] EXCEPT !.status = "under_review", !.fee = f], {"updated"})
    BY <1>6 DEF Respond
  <2> DEFINE x == [case[d] EXCEPT !.status = "under_review", !.fee = f]
  <2>2. case[d].status = "needs_response" /\ f \in 0..MaxFee /\ case[d].fee <= f
    BY <1>1, <1>6, BalanceAssumption DEF Respond, Case
  <2>3. /\ x.status = "under_review" /\ x.fee = f
        /\ x.back = case[d].back /\ x.backFee = case[d].backFee
        /\ x \in Case
    BY <1>1, <2>2 DEF Case, NoFunds, Pulling
  <2>4. {"updated"} \in Types /\ Becomes(d, x, {"updated"})
    BY <2>1
  <2> HIDE DEF x
  <2>5. Onward(d, x)
    BY <1>1, <1>2, <2>2, <2>3, BalanceAssumption
       DEF Onward, Behind, Case, NoFunds, Pulling, Decided
  <2>6. QED
    BY <2>3, <2>4, <2>5
<1>7. CASE Decide(d)
  <2>1. PICK s \in {"won", "lost"} : Becomes(d, [case[d] EXCEPT !.status = s], {"closed"})
    BY <1>7 DEF Decide
  <2> DEFINE x == [case[d] EXCEPT !.status = s]
  <2>2. Onward(d, x)
    BY <1>1, <1>2, <1>7 DEF Decide, Onward, Behind, Case, NoFunds, Pulling, Decided
  <2>3. x \in Case /\ {"closed"} \in Types
    BY <2>2 DEF Onward
  <2>4. QED
    BY <2>1, <2>2, <2>3
<1>8. CASE Reinstate(d)
  <2>1. PICK a \in (case[d].back + 1)..Amount, f \in case[d].backFee..case[d].fee :
           Becomes(d, [case[d] EXCEPT !.back = a, !.backFee = f], {"closed"})
    BY <1>8 DEF Reinstate
  <2> DEFINE x == [case[d] EXCEPT !.back = a, !.backFee = f]
  <2>2. /\ case[d].status \in Decided
        /\ a \in 0..Amount /\ case[d].back < a
        /\ f \in 0..MaxFee /\ case[d].backFee <= f
    BY <1>1, <1>8, BalanceAssumption DEF Reinstate, Case, Decided
  <2>3. /\ x.status = case[d].status /\ x.fee = case[d].fee
        /\ x.back = a /\ x.backFee = f
        /\ x \in Case
    BY <1>1, <2>2 DEF Case
  <2>4. {"closed"} \in Types /\ Becomes(d, x, {"closed"})
    BY <2>1
  <2> HIDE DEF x
  <2>5. Onward(d, x)
    BY <1>1, <1>2, <2>2, <2>3, BalanceAssumption
       DEF Onward, Behind, Case, NoFunds, Pulling, Decided
  <2>6. QED
    BY <2>3, <2>4, <2>5
<1>9. QED
  BY <1>3, <1>4, <1>5, <1>6, <1>7, <1>8 DEF StripeMoves

\* A move at Stripe leaves the books behind it, and no event processed so far
\* is its last one.
LEMMA MoveKeepsInv ==
  ASSUME Inv, NEW d \in Dispute, NEW x \in Case,
         NEW types \in SUBSET {"created", "updated", "closed"},
         Becomes(d, x, types), Onward(d, x)
  PROVE  Inv'
<1> USE BalanceAssumption DEF Inv
<1>1. /\ case' = [case EXCEPT ![d] = x]
      /\ sent' = sent \cup [of : {d}, type : types, data : {x}]
      /\ listed' \subseteq listed \cup {d}
      /\ UNCHANGED <<payout, told, disputeBooks, payoutBooks, refund>>
  BY DEF Becomes
<1>2. /\ case \in [Dispute -> Case]
      /\ case'[d] = x
      /\ \A c \in Dispute \ {d} : case'[c] = case[c]
  BY <1>1 DEF TypeOK
<1>3. Behind(case[d], x)
  BY DEF Onward
<1>4. TypeOK'
  BY <1>1 DEF TypeOK, DisputeEvent, disputeBooks, payoutBooks
<1>5. Forward'
  <2>1. ASSUME NEW e \in sent' PROVE Behind(e.data, case'[e.of])
    <3>1. CASE e \in sent
      <4>1. e.of \in Dispute /\ e.data \in Case /\ Behind(e.data, case[e.of])
        BY <3>1 DEF TypeOK, Forward, DisputeEvent
      <4>2. CASE e.of = d
        BY <1>2, <1>3, <4>1, <4>2 DEF Behind, Case
      <4>3. CASE e.of # d
        BY <1>2, <4>1, <4>3
      <4>4. QED
        BY <4>2, <4>3
    <3>2. CASE e \notin sent
      <4>1. e.of = d /\ e.data = x
        BY <1>1, <3>2
      <4>2. QED
        BY <1>2, <4>1 DEF Behind, Case
    <3>3. QED
      BY <3>1, <3>2
  <2>2. \A c \in Dispute :
           /\ case'[c].status \notin Decided => case'[c].back = 0
           /\ case'[c].back = 0 => case'[c].backFee = 0
           /\ case'[c].status \notin Pulling => case'[c].fee = 0
    BY <1>2 DEF Onward, Forward
  <2>3. QED
    BY <2>1, <2>2 DEF Forward
<1>6. Consistent'
  <2>1. ASSUME x.status = "lost", reinstated[d].amount = x.back
        PROVE  reinstated[d].net = x.back + x.backFee
    <3>1. reinstated[d].amount <= case[d].back
      BY DEF DisputesInv
    <3>2. reinstated[d].amount \in Nat /\ case[d].back \in Nat /\ x.back \in Nat
      BY <1>2 DEF TypeOK, Case
    <3>3. case[d].status \notin Decided
      BY <2>1, <3>1, <3>2 DEF Onward, Decided
    <3>4. case[d].back = 0 /\ ~lost[d]
      BY <3>3 DEF Forward, DisputesInv, Decided
    <3>5. reinstated[d] = [amount |-> 0, net |-> 0]
      BY <3>4 DEF Consistent
    <3>6. QED
      BY <2>1, <3>5 DEF Onward
  <2>2. UNCHANGED <<tracked, pulled, won, feeReturned, lost, reinstated>>
    BY <1>1 DEF disputeBooks
  <2>3. tracked[d] = "won" => x.status = "won"
    BY <1>3 DEF Consistent, Behind, Decided
  <2>4. QED
    BY <1>2, <2>1, <2>2, <2>3 DEF Consistent
<1>7. Reflected'
  <2>1. ASSUME [of |-> d, type |-> "closed", data |-> x] \in processed, x.status \in Decided
        PROVE  FALSE
    <3>1. Behind(x, case[d])
      BY <2>1 DEF TypeOK, Forward
    <3>2. case[d].status = x.status /\ x.back <= case[d].back
      BY <2>1, <3>1 DEF Behind
    <3>3. QED
      BY <1>2, <2>1, <3>2 DEF Onward, Case
  <2>2. UNCHANGED <<processed, pulled, feeBooked, won, feeReturned, lost, reinstated>>
    BY <1>1 DEF disputeBooks
  <2>3. QED
    BY <1>2, <2>1, <2>2 DEF Reflected, LastEvent
<1>8. DisputesInv'
  <2>1. UNCHANGED <<pulled, feeBooked, won, feeReturned, lost, reinstated>>
    BY <1>1 DEF disputeBooks
  <2>2. /\ feeBooked[d] \in Nat /\ feeReturned[d] \in Nat /\ reinstated[d].amount \in Nat
        /\ case[d].fee \in Nat /\ case[d].back \in Nat /\ case[d].backFee \in Nat
        /\ x.fee \in Nat /\ x.back \in Nat /\ x.backFee \in Nat
    BY <1>2 DEF TypeOK, Case
  <2>3. QED
    BY <1>2, <1>3, <2>1, <2>2 DEF DisputesInv, Behind, Decided
<1>9. PayoutsInv' /\ HandledInv'
  BY <1>1 DEF PayoutsInv, HandledInv, HandledAt, payoutBooks
<1>10. QED
  BY <1>4, <1>5, <1>6, <1>7, <1>8, <1>9

\* A handler that reads a snapshot not ahead of the case keeps the books behind
\* it, and level with it when it reads the case itself as closed.
LEMMA HandlerKeepsInv ==
  ASSUME Inv, NEW d \in Dispute, NEW x \in Case, NEW type,
         Behind(x, case[d]), HandleDispute(d, type, x),
         processed' \subseteq sent, listed' \subseteq listed,
         \A c \in Dispute : LastEvent(c) \in processed' =>
             LastEvent(c) \in processed \/ (c = d /\ type = "closed" /\ x = case[d])
  PROVE  Inv'
<1> USE BalanceAssumption DEF Inv
<1>1. RecordDispute(d, x) /\ UNCHANGED <<stripe, payoutBooks, refund>>
  BY DEF HandleDispute
<1>2. UNCHANGED <<case, payout, sent, told, done, moved, arriving, refund>>
  BY <1>1 DEF stripe, payoutBooks
<1>3. \/ /\ type = "closed" /\ x.status = "won"
         /\ CloseWon(d, x) /\ UNCHANGED <<lost, reinstated>>
      \/ /\ type = "closed" /\ x.status = "lost"
         /\ CloseLost(d, x) /\ UNCHANGED <<won, feeReturned>>
      \/ /\ ~(type = "closed" /\ x.status \in Decided)
         /\ UNCHANGED <<won, feeReturned, lost, reinstated>>
  BY DEF HandleDispute, Decided
<1>4. \/ /\ x.status \in Pulling
         /\ pulled' = [pulled EXCEPT ![d] = TRUE]
         /\ feeBooked' = [feeBooked EXCEPT ![d] = Larger(@, x.fee)]
         /\ tracked' = [tracked EXCEPT ![d] = IF @ \in {"won", "lost"} THEN @ ELSE x.status]
      \/ x.status \notin Pulling /\ UNCHANGED <<tracked, pulled, feeBooked>>
  BY <1>1 DEF RecordDispute, PostDispute, TrackDispute
<1>5. /\ case[d] \in Case
      /\ x.fee \in 0..MaxFee /\ x.back \in 0..Amount /\ x.backFee \in 0..MaxFee
      /\ case[d].fee \in 0..MaxFee /\ case[d].back \in 0..Amount /\ case[d].backFee \in 0..MaxFee
      /\ feeBooked[d] \in 0..MaxFee /\ feeReturned[d] \in 0..MaxFee
      /\ reinstated[d].amount \in 0..Amount
  BY DEF TypeOK, Case
<1>6. TypeOK'
  <2>1. /\ tracked' \in [Dispute -> {"none"} \cup Pulling]
        /\ pulled' \in [Dispute -> BOOLEAN]
        /\ feeBooked' \in [Dispute -> 0..MaxFee]
    BY <1>4, <1>5 DEF TypeOK, Larger
  <2>2. /\ won' \in [Dispute -> BOOLEAN]
        /\ feeReturned' \in [Dispute -> 0..MaxFee]
        /\ lost' \in [Dispute -> BOOLEAN]
    BY <1>3, <1>5 DEF TypeOK, CloseWon, CloseLost, Larger
  <2>3. reinstated' \in [Dispute -> [amount : 0..Amount, net : Nat]]
    BY <1>3, <1>5 DEF TypeOK, CloseWon, CloseLost
  <2>4. QED
    BY <1>2, <2>1, <2>2, <2>3 DEF TypeOK
<1>7. Forward'
  BY <1>2 DEF Forward
<1>8. /\ \A c \in Dispute \ {d} :
            /\ pulled'[c] = pulled[c] /\ feeBooked'[c] = feeBooked[c] /\ tracked'[c] = tracked[c]
            /\ won'[c] = won[c] /\ feeReturned'[c] = feeReturned[c]
            /\ lost'[c] = lost[c] /\ reinstated'[c] = reinstated[c]
  BY <1>3, <1>4 DEF TypeOK, CloseWon, CloseLost
<1>9. /\ pulled'[d] = (pulled[d] \/ x.status \in Pulling)
      /\ feeBooked'[d] = IF x.status \in Pulling THEN Larger(feeBooked[d], x.fee) ELSE feeBooked[d]
      /\ tracked'[d] = IF x.status \in Pulling /\ tracked[d] \notin {"won", "lost"}
                       THEN x.status ELSE tracked[d]
  BY <1>4 DEF TypeOK
<1> DEFINE winning == type = "closed" /\ x.status = "won"
           losing == type = "closed" /\ x.status = "lost"
<1>10. /\ won'[d] = (won[d] \/ winning)
       /\ feeReturned'[d] = IF winning THEN Larger(feeReturned[d], x.backFee) ELSE feeReturned[d]
       /\ lost'[d] = (lost[d] \/ losing)
       /\ reinstated'[d] = IF losing /\ ~(x.back <= reinstated[d].amount)
                           THEN [amount |-> x.back, net |-> x.back + x.backFee] ELSE reinstated[d]
  BY <1>3 DEF TypeOK, CloseWon, CloseLost, Decided
<1>11. /\ pulled[d] \/ x.status \in Pulling => pulled'[d]
       /\ won[d] \/ winning => won'[d]
       /\ lost[d] \/ losing => lost'[d]
  BY <1>9, <1>10
<1>12. DisputesInv'
  <2>1. ASSUME NEW c \in Dispute, c # d
        PROVE /\ pulled'[c] => case'[c].status \in Pulling
              /\ won'[c] => pulled'[c] /\ case'[c].status = "won"
              /\ lost'[c] => pulled'[c] /\ case'[c].status = "lost"
              /\ feeBooked'[c] <= case'[c].fee
              /\ feeReturned'[c] <= case'[c].backFee
              /\ reinstated'[c].amount <= case'[c].back
    BY <1>2, <1>8, <2>1 DEF DisputesInv
  <2>2. pulled'[d] => case'[d].status \in Pulling
    BY <1>2, <1>9 DEF DisputesInv, Behind
  <2>3. won'[d] => pulled'[d] /\ case'[d].status = "won"
    BY <1>2, <1>9, <1>10 DEF DisputesInv, Behind, Decided, Pulling
  <2>4. lost'[d] => pulled'[d] /\ case'[d].status = "lost"
    BY <1>2, <1>9, <1>10 DEF DisputesInv, Behind, Decided, Pulling
  <2>5. feeBooked'[d] <= case'[d].fee /\ feeReturned'[d] <= case'[d].backFee
    BY <1>2, <1>5, <1>9, <1>10 DEF DisputesInv, Behind, Larger
  <2>6. reinstated'[d].amount <= case'[d].back
    BY <1>2, <1>5, <1>10 DEF DisputesInv, Behind
  <2>7. QED
    BY <2>1, <2>2, <2>3, <2>4, <2>5, <2>6 DEF DisputesInv
<1>13. Consistent'
  <2>1. /\ pulled'[d] => tracked'[d] \in Pulling
        /\ tracked'[d] = "won" => case'[d].status = "won"
    BY <1>2, <1>9 DEF Consistent, Behind, Decided, Pulling
  <2>2. ~won'[d] => feeReturned'[d] = 0
    BY <1>10 DEF Consistent
  <2>3. ~lost'[d] => reinstated'[d] = [amount |-> 0, net |-> 0]
    BY <1>10 DEF Consistent
  <2>4. ASSUME reinstated'[d].amount = case[d].back, case[d].status = "lost"
        PROVE  reinstated'[d].net = case[d].back + case[d].backFee
    BY <1>5, <1>10, <2>4 DEF Consistent, Behind
  <2>5. QED
    BY <1>2, <1>8, <2>1, <2>2, <2>3, <2>4 DEF Consistent
<1>14. Reflected'
  <2>1. ASSUME LastEvent(d) \in processed', case[d].status \in Decided
        PROVE  /\ pulled'[d]
               /\ feeBooked'[d] = case[d].fee
               /\ case[d].status = "won" => won'[d] /\ feeReturned'[d] = case[d].backFee
               /\ case[d].status = "lost" => lost'[d] /\ reinstated'[d].amount = case[d].back
    <3>1. CASE LastEvent(d) \in processed
      <4>1. /\ pulled[d]
            /\ feeBooked[d] = case[d].fee
            /\ case[d].status = "won" => won[d] /\ feeReturned[d] = case[d].backFee
            /\ case[d].status = "lost" => lost[d] /\ reinstated[d].amount = case[d].back
        BY <2>1, <3>1 DEF Reflected
      <4>2. feeBooked'[d] = case[d].fee
        BY <1>5, <1>9, <4>1 DEF Behind, Larger
      <4>3. case[d].status = "won" => feeReturned'[d] = case[d].backFee
        BY <1>5, <1>10, <4>1 DEF Behind, Larger
      <4>4. case[d].status = "lost" => reinstated'[d].amount = case[d].back
        BY <1>5, <1>10, <4>1 DEF Behind
      <4>5. QED
        BY <1>11, <4>1, <4>2, <4>3, <4>4
    <3>2. CASE type = "closed" /\ x = case[d]
      <4>1. /\ feeBooked[d] <= case[d].fee
            /\ feeReturned[d] <= case[d].backFee
            /\ reinstated[d].amount <= case[d].back
        BY DEF DisputesInv
      <4>2. x.status \in Pulling /\ feeBooked'[d] = case[d].fee
        BY <1>5, <1>9, <2>1, <3>2, <4>1 DEF Larger, Decided, Pulling
      <4>3. case[d].status = "won" => feeReturned'[d] = case[d].backFee
        BY <1>5, <1>10, <3>2, <4>1 DEF Larger
      <4>4. case[d].status = "lost" => reinstated'[d].amount = case[d].back
        BY <1>5, <1>10, <3>2, <4>1
      <4>5. QED
        BY <1>11, <3>2, <4>2, <4>3, <4>4
    <3>3. QED
      BY <2>1, <3>1, <3>2
  <2>2. LastEvent(d)' = LastEvent(d) /\ \A c \in Dispute \ {d} : LastEvent(c)' = LastEvent(c)
    BY <1>2 DEF LastEvent
  <2>3. ASSUME NEW c \in Dispute, c # d, LastEvent(c) \in processed', case[c].status \in Decided
        PROVE  /\ pulled'[c]
               /\ feeBooked'[c] = case[c].fee
               /\ case[c].status = "won" => won'[c] /\ feeReturned'[c] = case[c].backFee
               /\ case[c].status = "lost" => lost'[c] /\ reinstated'[c].amount = case[c].back
    BY <1>8, <2>3 DEF Reflected
  <2>4. QED
    BY <1>2, <2>1, <2>2, <2>3 DEF Reflected
<1>15. PayoutsInv' /\ HandledInv'
  BY <1>2 DEF PayoutsInv, HandledInv, HandledAt
<1>16. QED
  BY <1>6, <1>7, <1>12, <1>13, <1>14, <1>15

PayoutStep(p) ==
    PayoutMoves(p) \/ PayoutWebhook(p) \/ ReconcilePayout(p) \/ ArrivePayout(p) \/ ArriveFails(p)

\* A handler of news s of a payout learnt it from Stripe, so it has happened,
\* and an event that says something else is out of date.
LEMMA NewsHappened ==
  ASSUME TypeOK, PayoutsInv, NEW p \in Payout, NEW s \in {"pending", "paid", "failed"},
         NEW E \in Source(p, s)
  PROVE  /\ E \subseteq told
         /\ \A e \in E : e.of = p
         /\ s = "paid" => payout[p] \in {"paid", "failed"}
         /\ s = "failed" => payout[p] = "failed"
         /\ s # "failed" => \A e \in E : e.type # "failed"
         /\ s # "paid" /\ payout[p] = "paid" => \A e \in E : e.type # "paid"
<1>1. CASE E = {} /\ payout[p] = s
  BY <1>1
<1>2. CASE \E e \in NewsOf(p, s) : E = {e}
  <2>1. PICK e \in NewsOf(p, s) : E = {e}
    BY <1>2
  <2>2. e \in told /\ e.of = p /\ (e.type = s \/ payout[p] = s)
    BY <2>1 DEF NewsOf
  <2>3. e = [of |-> p, type |-> e.type]
    BY <2>2 DEF TypeOK, PayoutEvent
  <2>4. /\ e.type = "paid" => payout[p] \in {"paid", "failed"}
        /\ e.type = "failed" => payout[p] = "failed"
    BY <2>2, <2>3 DEF PayoutsInv
  <2>5. QED
    BY <2>1, <2>2, <2>4
<1>3. QED
  BY <1>1, <1>2 DEF Source

\* What a handler's commit does to the tables that all handlers share.
LEMMA CommitKeeps ==
  ASSUME TypeOK, NEW p \in Payout, NEW s, NEW E \in SUBSET told, Commits(p, s, E)
  PROVE  done' = done \cup E /\ done' \subseteq told /\ listed' \subseteq Dispute \cup Payout
  BY DEF Commits, TypeOK

\* A step of one payout leaves what was handled of the others alone.
LEMMA OthersHandled ==
  ASSUME HandledInv, NEW p \in Payout, HandledAt(p)',
         \A q \in Payout \ {p} : /\ payout'[q] = payout[q] /\ moved'[q] = moved[q]
                                 /\ arriving'[q] = arriving[q],
         \A q \in Payout \ {p}, t \in {"paid", "failed"} :
            [of |-> q, type |-> t] \in done' => [of |-> q, type |-> t] \in done
  PROVE  HandledInv'
<1> SUFFICES ASSUME NEW q \in Payout \ {p} PROVE HandledAt(q)'
  BY DEF HandledInv
<1>1. /\ HandledAt(q)
      /\ payout'[q] = payout[q] /\ moved'[q] = moved[q] /\ arriving'[q] = arriving[q]
  BY DEF HandledInv
<1>2. /\ [of |-> q, type |-> "paid"] \in done' => [of |-> q, type |-> "paid"] \in done
      /\ [of |-> q, type |-> "failed"] \in done' => [of |-> q, type |-> "failed"] \in done
  OBVIOUS
<1>3. QED
  BY <1>1, <1>2 DEF HandledAt

\* The events a handler records are of its payout.
LEMMA RecordsOwn ==
  ASSUME NEW p \in Payout, NEW E, done' = done \cup E, \A e \in E : e.of = p
  PROVE  \A q \in Payout \ {p}, t \in {"paid", "failed"} :
            [of |-> q, type |-> t] \in done' => [of |-> q, type |-> t] \in done
<1> SUFFICES ASSUME NEW q \in Payout \ {p}, NEW t \in {"paid", "failed"},
                    [of |-> q, type |-> t] \in E
             PROVE  FALSE
  OBVIOUS
<1>1. [of |-> q, type |-> t].of = q
  OBVIOUS
<1>2. QED
  BY <1>1

\* A step of a payout, at Stripe or in a handler, keeps the invariant.
LEMMA PayoutKeepsInv ==
  ASSUME Inv, NEW p \in Payout, PayoutStep(p)
  PROVE  Inv'
<1> USE DEF Inv
<1>1. UNCHANGED <<case, sent, disputeBooks, refund>>
  BY DEF PayoutStep, PayoutMoves, PayoutWebhook, ReconcilePayout, HandlePayout, PayoutCreated,
         PayoutPaid, FailPayout, ArrivePayout, ArriveFails, stripe
<1>2. Forward' /\ Consistent' /\ Reflected' /\ DisputesInv'
  BY <1>1 DEF Forward, Consistent, Reflected, DisputesInv, LastEvent, disputeBooks
<1> DEFINE Goal == /\ payout' \in [Payout -> PayoutStatus]
                   /\ told' \subseteq PayoutEvent
                   /\ done' \subseteq told'
                   /\ listed' \subseteq Dispute \cup Payout
                   /\ moved' \in [Payout -> SUBSET Journals]
                   /\ arriving' \in [Payout -> [waits : BOOLEAN, news : SUBSET PayoutEvent]]
                   /\ PayoutsInv'
                   /\ HandledInv'
<1>3. SUFFICES Goal
  BY <1>1, <1>2 DEF TypeOK, disputeBooks
<1>4. CASE PayoutMoves(p)
  <2>1. PICK s \in {"pending", "paid", "failed"} :
           /\ <<payout[p], s>> \in {<<"none", "pending">>, <<"pending", "paid">>,
                                    <<"pending", "failed">>, <<"paid", "failed">>}
           /\ payout' = [payout EXCEPT ![p] = s]
           /\ told' = told \cup {[of |-> p, type |-> s]}
           /\ listed' \subseteq listed \cup {p}
           /\ UNCHANGED <<done, moved, arriving>>
    BY <1>4 DEF PayoutMoves, payoutBooks
  <2>2. payout' \in [Payout -> PayoutStatus] /\ told' \subseteq PayoutEvent
    BY <2>1 DEF TypeOK, PayoutStatus, PayoutEvent
  <2>3. /\ payout[p] # "failed"
        /\ payout[p] = "paid" => s = "failed"
    BY <2>1
  <2>4. PayoutsInv'
    BY <2>1, <2>3 DEF PayoutsInv, TypeOK
  <2>5. [of |-> p, type |-> "paid"] \in done => payout'[p] # "paid"
    BY <2>1, <2>3 DEF PayoutsInv, TypeOK
  <2>6. HandledInv'
    <3>1. /\ payout'[p] = s /\ moved'[p] = moved[p] /\ arriving'[p] = arriving[p]
          /\ \A q \in Payout \ {p} : /\ payout'[q] = payout[q] /\ moved'[q] = moved[q]
                                     /\ arriving'[q] = arriving[q]
      BY <2>1 DEF TypeOK
    <3>2. HandledAt(p)
      BY DEF HandledInv
    <3>3. HandledAt(p)'
      BY <2>1, <2>5, <3>1, <3>2 DEF HandledAt
    <3>4. QED
      BY <2>1, <3>1, <3>3, OthersHandled
  <2>7. QED
    BY <2>1, <2>2, <2>4, <2>6 DEF TypeOK
<1>5. ASSUME NEW E, PayoutCreated(p, E) PROVE Goal
  <2>1. /\ E \in Source(p, "pending")
        /\ Commits(p, "pending", E)
        /\ moved' = [moved EXCEPT ![p] = @ \cup {"created"}]
        /\ UNCHANGED <<payout, told, arriving>>
    BY <1>5 DEF PayoutCreated, stripe
  <2>2. /\ E \subseteq told
        /\ \A e \in E : e.of = p /\ e.type # "failed" /\ (payout[p] = "paid" => e.type # "paid")
    BY <2>1, NewsHappened
  <2>3. done' = done \cup E /\ done' \subseteq told /\ listed' \subseteq Dispute \cup Payout
    BY <2>1, <2>2, CommitKeeps
  <2>4. moved' \in [Payout -> SUBSET Journals] /\ PayoutsInv'
    BY <2>1 DEF TypeOK, PayoutsInv, Journals
  <2>5. HandledInv'
    <3>1. /\ payout'[p] = payout[p] /\ arriving'[p] = arriving[p]
          /\ moved'[p] = moved[p] \cup {"created"}
          /\ \A q \in Payout \ {p} : /\ payout'[q] = payout[q] /\ moved'[q] = moved[q]
                                     /\ arriving'[q] = arriving[q]
      BY <2>1 DEF TypeOK
    <3>2. HandledAt(p)
      BY DEF HandledInv
    <3>3. /\ [of |-> p, type |-> "paid"] \in E => payout[p] # "paid"
          /\ [of |-> p, type |-> "failed"] \notin E
      BY <2>2
    <3>4. HandledAt(p)'
      BY <2>3, <3>1, <3>2, <3>3 DEF HandledAt
    <3>5. QED
      BY <2>2, <2>3, <3>1, <3>4, OthersHandled, RecordsOwn
  <2>6. QED
    BY <2>1, <2>3, <2>4, <2>5 DEF TypeOK
<1>6. ASSUME NEW E, PayoutPaid(p, E) PROVE Goal
  <2>1. /\ E \in Source(p, "paid")
        /\ UNCHANGED <<payout, told>>
    BY <1>6 DEF PayoutPaid, stripe
  <2>2. /\ E \subseteq told /\ payout[p] \in {"paid", "failed"}
        /\ \A e \in E : e.of = p /\ e.type # "failed"
    BY <2>1, NewsHappened
  <2>3. CASE "created" \notin moved[p]
    <3>1. /\ moved' = [moved EXCEPT ![p] = @ \cup {"created", "paid"}]
          /\ Commits(p, "paid", E)
          /\ UNCHANGED arriving
      BY <1>6, <2>3 DEF PayoutPaid
    <3>2. done' = done \cup E /\ done' \subseteq told /\ listed' \subseteq Dispute \cup Payout
      BY <2>2, <3>1, CommitKeeps
    <3>3. moved' \in [Payout -> SUBSET Journals] /\ PayoutsInv'
      BY <2>1, <2>2, <3>1 DEF TypeOK, Journals, PayoutsInv
    <3>4. HandledInv'
      <4>1. /\ payout'[p] = payout[p] /\ arriving'[p] = arriving[p]
            /\ moved'[p] = moved[p] \cup {"created", "paid"}
            /\ \A q \in Payout \ {p} : /\ payout'[q] = payout[q] /\ moved'[q] = moved[q]
                                       /\ arriving'[q] = arriving[q]
        BY <2>1, <3>1 DEF TypeOK
      <4>2. HandledAt(p) /\ [of |-> p, type |-> "failed"] \notin E
        BY <2>2 DEF HandledInv
      <4>3. HandledAt(p)'
        BY <3>2, <4>1, <4>2 DEF HandledAt
      <4>4. QED
        BY <2>2, <3>2, <4>1, <4>3, OthersHandled, RecordsOwn
    <3>5. QED
      BY <2>1, <3>1, <3>2, <3>3, <3>4 DEF TypeOK
  <2>4. CASE "created" \in moved[p] /\ "created_failed" \in moved[p]
    <3>1. Commits(p, "paid", E) /\ UNCHANGED <<moved, arriving>>
      BY <1>6, <2>4 DEF PayoutPaid
    <3>2. done' = done \cup E /\ done' \subseteq told /\ listed' \subseteq Dispute \cup Payout
      BY <2>2, <3>1, CommitKeeps
    <3>3. PayoutsInv' /\ payout[p] = "failed"
      BY <2>1, <2>4, <3>1 DEF PayoutsInv
    <3>4. HandledInv'
      <4>1. HandledAt(p) /\ [of |-> p, type |-> "failed"] \notin E
        BY <2>2 DEF HandledInv
      <4>2. payout'[p] = "failed" /\ moved'[p] = moved[p] /\ arriving'[p] = arriving[p]
        BY <2>1, <3>1, <3>3
      <4>3. HandledAt(p)'
        BY <3>2, <4>1, <4>2 DEF HandledAt
      <4>4. QED
        BY <2>1, <2>2, <3>1, <3>2, <4>3, OthersHandled, RecordsOwn
    <3>5. QED
      BY <2>1, <3>1, <3>2, <3>3, <3>4 DEF TypeOK
  <2>5. CASE "created" \in moved[p] /\ "created_failed" \notin moved[p]
    <3>1. /\ arriving' = [arriving EXCEPT ![p] = [waits |-> TRUE, news |-> E]]
          /\ UNCHANGED <<listed, done, moved>>
      BY <1>6, <2>5 DEF PayoutPaid
    <3>2. arriving' \in [Payout -> [waits : BOOLEAN, news : SUBSET PayoutEvent]]
      BY <2>2, <3>1 DEF TypeOK
    <3>3. /\ arriving'[p].waits = TRUE /\ arriving'[p].news = E
          /\ \A q \in Payout \ {p} : arriving'[q] = arriving[q]
      BY <3>1 DEF TypeOK
    <3>4. PayoutsInv'
      BY <2>1, <2>2, <2>5, <3>1, <3>3 DEF PayoutsInv
    <3>5. HandledInv'
      <4>1. HandledAt(p)
        BY DEF HandledInv
      <4>2. HandledAt(p)'
        BY <2>1, <2>2, <3>1, <3>3, <4>1 DEF HandledAt
      <4>3. QED
        BY <2>1, <3>1, <3>3, <4>2, OthersHandled
    <3>6. QED
      BY <2>1, <3>1, <3>2, <3>4, <3>5 DEF TypeOK
  <2>6. QED
    BY <2>3, <2>4, <2>5
<1>7. ASSUME NEW E, FailPayout(p, E) PROVE Goal
  <2>1. /\ E \in Source(p, "failed")
        /\ Commits(p, "failed", E)
        /\ moved' = [moved EXCEPT ![p] = @ \cup {"created", "created_failed"}
                        \cup (IF "paid" \in @ THEN {"paid_failed"} ELSE {})]
        /\ UNCHANGED <<payout, told, arriving>>
    BY <1>7 DEF FailPayout, stripe
  <2>2. E \subseteq told /\ payout[p] = "failed" /\ \A e \in E : e.of = p
    BY <2>1, NewsHappened
  <2>3. done' = done \cup E /\ done' \subseteq told /\ listed' \subseteq Dispute \cup Payout
    BY <2>1, <2>2, CommitKeeps
  <2>4. moved' \in [Payout -> SUBSET Journals] /\ PayoutsInv'
    BY <2>1, <2>2 DEF TypeOK, PayoutsInv, Journals
  <2>5. HandledInv'
    <3>1. /\ payout'[p] = "failed" /\ arriving'[p] = arriving[p]
          /\ "created_failed" \in moved'[p]
          /\ \A q \in Payout \ {p} : /\ payout'[q] = payout[q] /\ moved'[q] = moved[q]
                                     /\ arriving'[q] = arriving[q]
      BY <2>1, <2>2 DEF TypeOK
    <3>2. HandledAt(p)
      BY DEF HandledInv
    <3>3. HandledAt(p)'
      BY <3>1, <3>2 DEF HandledAt
    <3>4. QED
      BY <2>2, <2>3, <3>1, <3>3, OthersHandled, RecordsOwn
  <2>6. QED
    BY <2>1, <2>3, <2>4, <2>5 DEF TypeOK
<1>8. CASE ArrivePayout(p)
  <2>1. /\ arriving[p] # NotArriving
        /\ moved' = [moved EXCEPT ![p] = @ \cup {"paid"}]
        /\ Commits(p, "paid", arriving[p].news)
        /\ arriving' = [arriving EXCEPT ![p] = NotArriving]
        /\ UNCHANGED <<payout, told>>
    BY <1>8 DEF ArrivePayout, stripe
  <2>2. /\ arriving[p].news \subseteq told
        /\ payout[p] \in {"paid", "failed"} /\ "created" \in moved[p]
    BY <2>1 DEF PayoutsInv, NotArriving
  <2>3. /\ done' = done \cup arriving[p].news /\ done' \subseteq told
        /\ listed' \subseteq Dispute \cup Payout
    BY <2>1, <2>2, CommitKeeps
  <2>4. /\ moved' \in [Payout -> SUBSET Journals]
        /\ arriving' \in [Payout -> [waits : BOOLEAN, news : SUBSET PayoutEvent]]
        /\ PayoutsInv'
    BY <2>1, <2>2 DEF TypeOK, PayoutsInv, Journals, NotArriving
  <2>5. HandledInv'
    <3>1. /\ payout'[p] = payout[p] /\ arriving'[p].news = {}
          /\ moved'[p] = moved[p] \cup {"paid"}
          /\ \A q \in Payout \ {p} : /\ payout'[q] = payout[q] /\ moved'[q] = moved[q]
                                     /\ arriving'[q] = arriving[q]
      BY <2>1 DEF TypeOK, NotArriving
    <3>2. HandledAt(p) /\ \A e \in arriving[p].news : e.of = p /\ e.type # "failed"
      BY DEF HandledInv, HandledAt
    <3>3. [of |-> p, type |-> "failed"] \notin arriving[p].news
      BY <3>2
    <3>4. HandledAt(p)'
      BY <2>2, <2>3, <3>1, <3>2, <3>3 DEF HandledAt
    <3>5. QED
      BY <2>3, <3>1, <3>2, <3>4, OthersHandled, RecordsOwn
  <2>6. QED
    BY <2>1, <2>3, <2>4, <2>5 DEF TypeOK
<1>9. CASE ArriveFails(p)
  <2>1. /\ arriving' = [arriving EXCEPT ![p] = NotArriving]
        /\ UNCHANGED <<payout, told, listed, done, moved>>
    BY <1>9 DEF ArriveFails, stripe
  <2>2. /\ arriving'[p] = NotArriving
        /\ \A q \in Payout \ {p} : arriving'[q] = arriving[q]
    BY <2>1 DEF TypeOK
  <2>a. ~NotArriving.waits /\ NotArriving.news = {}
    BY DEF NotArriving
  <2>3. PayoutsInv'
    BY <2>1, <2>2, <2>a DEF PayoutsInv
  <2>4. HandledInv'
    <3>1. HandledAt(p)
      BY DEF HandledInv
    <3>2. HandledAt(p)'
      BY <2>1, <2>2, <2>a, <3>1 DEF HandledAt
    <3>3. QED
      BY <2>1, <2>2, <3>2, OthersHandled
  <2>5. QED
    BY <2>1, <2>3, <2>4 DEF TypeOK, NotArriving
<1>10. QED
  BY <1>4, <1>5, <1>6, <1>7, <1>8, <1>9
     DEF PayoutStep, PayoutWebhook, ReconcilePayout, HandlePayout

\* Every step keeps the invariant.
LEMMA StepInv == Inv /\ [Next]_vars => Inv'
<1> SUFFICES ASSUME Inv, [Next]_vars PROVE Inv'
  OBVIOUS
<1>1. ASSUME NEW d \in Dispute, StripeMoves(d) PROVE Inv'
  BY <1>1, MovesForward, MoveKeepsInv DEF Inv
<1>2. ASSUME NEW d \in Dispute, ReconcileDispute(d) PROVE Inv'
  <2> DEFINE type == IF case[d].status \in {"won", "lost"} THEN "closed" ELSE "updated"
  <2>1. HandleDispute(d, type, case[d]) /\ processed' = processed
    BY <1>2 DEF ReconcileDispute
  <2>2. case[d] \in Case /\ Behind(case[d], case[d]) /\ processed' \subseteq sent
    BY <2>1, BalanceAssumption DEF Inv, TypeOK, Case, Behind
  <2>3. listed' \subseteq listed
    BY <1>2 DEF ReconcileDispute, Audited
  <2> HIDE DEF type
  <2>4. QED
    BY <2>1, <2>2, <2>3, HandlerKeepsInv
<1>3. ASSUME NEW e \in sent, DisputeWebhook(e) PROVE Inv'
  <2>1. PICK x \in {e.data, case[e.of]} :
           HandleDispute(e.of, e.type, x) /\ processed' = processed \cup {e} /\ UNCHANGED listed
    BY <1>3 DEF DisputeWebhook
  <2>2. e.of \in Dispute /\ e.data \in Case /\ case[e.of] \in Case
    BY DEF Inv, TypeOK, DisputeEvent
  <2>3. Behind(x, case[e.of])
    BY <2>2, BalanceAssumption DEF Inv, Forward, Behind, Case
  <2>4. ASSUME NEW c \in Dispute, LastEvent(c) \in processed', LastEvent(c) \notin processed
        PROVE  c = e.of /\ e.type = "closed" /\ x = case[e.of]
    <3>1. e = LastEvent(c)
      BY <2>1, <2>4
    <3>2. QED
      BY <3>1 DEF LastEvent
  <2>5. processed' \subseteq sent /\ x \in Case
    BY <2>1, <2>2 DEF Inv, TypeOK
  <2>6. QED
    BY <2>1, <2>2, <2>3, <2>4, <2>5, HandlerKeepsInv
<1>4. ASSUME NEW p \in Payout, PayoutStep(p) PROVE Inv'
  BY <1>4, PayoutKeepsInv
<1>7. ASSUME NEW d \in Dispute, AskRefund(d) \/ Refund(d) PROVE Inv'
  <2>1. refund' \in [Dispute -> {"none", "asked", "made"}]
    BY <1>7 DEF AskRefund, Refund, Inv, TypeOK
  <2>2. UNCHANGED <<stripe, listed, disputeBooks, payoutBooks>>
    BY <1>7 DEF AskRefund, Refund
  <2>3. QED
    BY <2>1, <2>2 DEF stripe, disputeBooks, payoutBooks, Inv, TypeOK, Forward, Consistent, Reflected,
       DisputesInv, PayoutsInv, HandledInv, HandledAt, LastEvent
<1>5. CASE UNCHANGED vars
  BY <1>5 DEF vars, stripe, disputeBooks, payoutBooks, Inv, TypeOK, Forward, Consistent, Reflected,
       DisputesInv, PayoutsInv, HandledInv, HandledAt, LastEvent
<1>6. QED
  BY <1>1, <1>2, <1>3, <1>4, <1>5, <1>7 DEF Next, StripeMoves, PayoutStep

\* The invariant holds throughout.
LEMMA Invariance == Spec => []Inv
  BY InitInv, StepInv, PTL DEF Spec

-----------------------------------------------------------------------------
\* The tables and columns always hold values of their types; in particular
\* the fees booked for a dispute never pass the fees Stripe may charge.
THEOREM TypeCorrect == Spec => []TypeOK
<1>1. Inv => TypeOK
  BY DEF Inv
<1>2. QED
  BY <1>1, Invariance, PTL

\* In any order of events, replays and reconciliations the handlers book
\* nothing that Stripe did not do.
THEOREM BooksInventNothing == Spec => []NothingInvented
<1>1. Inv => NothingInvented
  BY DEF Inv, DisputesInv, PayoutsInv, NothingInvented
<1>2. QED
  BY <1>1, Invariance, PTL

\* dispute_status blocks a refund for as long as the funds are off the books
\* and Stripe has not decided for the business.
BlockedWhilePulled ==
    \A d \in Dispute : pulled[d] => Disputed(d) \/ case[d].status = "won"

\* So no refund is made meanwhile, even if the dispute came between the look at
\* the payment and its lock.
THEOREM RefundsAlwaysWait == Spec => RefundsWait
<1>1. Inv => BlockedWhilePulled
  BY DEF Inv, Consistent, BlockedWhilePulled, Disputed, Pulling
<1>2. ASSUME Inv, [Next]_vars, NEW d \in Dispute, refund'[d] = "made", refund[d] # "made"
      PROVE  pulled[d] => case[d].status = "won"
  <2>1. PICK c \in Dispute : AskRefund(c) \/ Refund(c)
    <3>1. CASE UNCHANGED refund
      BY <1>2, <3>1
    <3> QED
      BY <1>2, <3>1 DEF Next, vars, Inquire, EndInquiry, Chargeback, Respond, Decide, Reinstate, Becomes,
         ReconcileDispute, DisputeWebhook, HandleDispute, PayoutMoves, PayoutWebhook, ReconcilePayout,
         HandlePayout, PayoutCreated, PayoutPaid, FailPayout, ArrivePayout, ArriveFails
  <2>2. refund \in [Dispute -> {"none", "asked", "made"}]
    BY <1>2 DEF Inv, TypeOK
  <2>3. c = d /\ ~Disputed(c)
    BY <1>2, <2>1, <2>2 DEF AskRefund, Refund
  <2> QED
    BY <1>1, <1>2, <2>3 DEF BlockedWhilePulled
<1>3. Inv /\ [Next]_vars =>
        [\A d \in Dispute : refund'[d] = "made" /\ refund[d] # "made" => ~pulled[d] \/ case[d].status = "won"]_vars
  BY <1>2
<1>4. QED
  BY <1>3, Invariance, PTL DEF Spec, RefundsWait

\* Once the last event of a settled dispute was processed, the stripe account
\* agrees with Stripe and the payer owes nothing, and once that of a payout was,
\* its arrival or failure is booked, whatever else arrived.
THEOREM LastEventSettles == Spec => []LastNewsSuffices
<1>1. Inv => LastNewsSuffices
  <2> SUFFICES ASSUME Inv, NEW d \in Dispute, Settled(d), LastEvent(d) \in processed
               PROVE  Booked(d) = Net(d) /\ Owed(d) = 0
    <3>1. ASSUME Inv, NEW p \in Payout
          PROVE  /\ payout[p] = "paid" /\ [of |-> p, type |-> "paid"] \in done
                       => moved[p] = {"created", "paid"}
                 /\ [of |-> p, type |-> "failed"] \in done => "created_failed" \in moved[p]
      <4>1. HandledAt(p) /\ moved[p] \subseteq {"created", "paid", "created_failed", "paid_failed"}
        BY <3>1 DEF Inv, TypeOK, HandledInv, Journals
      <4>2. "created_failed" \in moved[p] => payout[p] = "failed"
        BY <3>1 DEF Inv, PayoutsInv
      <4>3. QED
        BY <4>1, <4>2 DEF HandledAt
    <3>2. QED
      BY <3>1 DEF LastNewsSuffices, LastEvent
  <2>1. /\ case[d].fee \in Nat /\ case[d].back \in Nat /\ case[d].backFee \in Nat
        /\ feeReturned[d] \in Nat /\ reinstated[d].net \in Nat /\ Amount \in Nat
    BY BalanceAssumption DEF Inv, TypeOK, Case
  <2>2. pulled[d] /\ feeBooked[d] = case[d].fee
    BY DEF Inv, Reflected, Settled, Decided
  <2>3. CASE case[d].status = "lost"
    <3>1. lost[d] /\ reinstated[d].net = case[d].back + case[d].backFee
      BY <2>3 DEF Inv, Reflected, Consistent, Decided
    <3>2. ~won[d] /\ feeReturned[d] = 0
      BY <2>3 DEF Inv, DisputesInv, Consistent
    <3>3. QED
      BY <2>1, <2>2, <2>3, <3>1, <3>2 DEF Booked, Net, NetOf, Owed, Cents, Pulling
  <2>4. CASE case[d].status = "won" /\ case[d].back = Amount
    <3>1. won[d] /\ feeReturned[d] = case[d].backFee
      BY <2>4 DEF Inv, Reflected, Decided
    <3>2. ~lost[d] /\ reinstated[d] = [amount |-> 0, net |-> 0]
      BY <2>4 DEF Inv, DisputesInv, Consistent
    <3>3. QED
      BY <2>1, <2>2, <2>4, <3>1, <3>2 DEF Booked, Net, NetOf, Owed, Cents, Pulling
  <2>5. QED
    BY <2>3, <2>4 DEF Settled
<1>2. QED
  BY <1>1, Invariance, PTL

-----------------------------------------------------------------------------
\* The books of d are level with its case, journal by journal.
Level(d) ==
    /\ case[d].status \in Pulling => pulled[d] /\ feeBooked[d] = case[d].fee
    /\ case[d].status = "won" /\ case[d].back = Amount => won[d] /\ feeReturned[d] = case[d].backFee
    /\ case[d].status = "lost" => reinstated[d].amount = case[d].back

PayoutLevel(p) ==
    /\ payout[p] # "none" => "created" \in moved[p]
    /\ payout[p] = "failed" => "created_failed" \in moved[p]

ListedInv ==
    /\ \A d \in Dispute \ listed : Level(d)
    /\ \A p \in Payout \ listed : PayoutLevel(p)

\* Books that are level, journal by journal, agree to the cent.
LEMMA LevelAgrees ==
  ASSUME Inv, NEW d \in Dispute, Level(d), ~(case[d].status = "won" /\ case[d].back < Amount)
  PROVE  Booked(d) = Net(d)
<1>1. /\ case[d].fee \in Nat /\ case[d].back \in Nat /\ case[d].backFee \in Nat
      /\ case[d].back <= Amount /\ feeBooked[d] \in Nat
      /\ feeReturned[d] \in Nat /\ reinstated[d].net \in Nat /\ Amount \in Nat
  BY BalanceAssumption DEF Inv, TypeOK, Case
<1>2. /\ pulled[d] => case[d].status \in Pulling
      /\ won[d] => pulled[d] /\ case[d].status = "won"
      /\ lost[d] => pulled[d] /\ case[d].status = "lost"
      /\ feeBooked[d] <= case[d].fee
  BY DEF Inv, DisputesInv
<1>3. /\ ~won[d] => feeReturned[d] = 0
      /\ ~lost[d] => reinstated[d].net = 0
      /\ reinstated[d].amount = case[d].back /\ case[d].status = "lost"
            => reinstated[d].net = case[d].back + case[d].backFee
  BY DEF Inv, Consistent
<1>4. /\ case[d].status \notin Decided => case[d].back = 0
      /\ case[d].back = 0 => case[d].backFee = 0
      /\ case[d].status \notin Pulling => case[d].fee = 0
  BY DEF Inv, Forward
<1>5. CASE case[d].status \notin Pulling
  <2>1. ~pulled[d] /\ ~won[d] /\ ~lost[d]
    BY <1>2, <1>5
  <2>2. feeBooked[d] = 0 /\ feeReturned[d] = 0 /\ reinstated[d].net = 0
    BY <1>1, <1>2, <1>3, <1>4, <1>5, <2>1
  <2> QED
    BY <1>1, <1>5, <2>1, <2>2 DEF Booked, Net, NetOf, Cents
<1>6. CASE case[d].status \in Pulling \ Decided
  <2>1. pulled[d] /\ feeBooked[d] = case[d].fee /\ ~won[d] /\ ~lost[d]
    BY <1>2, <1>6 DEF Level, Decided
  <2>2. /\ feeReturned[d] = 0 /\ reinstated[d].net = 0
        /\ case[d].back = 0 /\ case[d].backFee = 0
    BY <1>3, <1>4, <1>6, <2>1
  <2> QED
    BY <1>1, <1>6, <2>1, <2>2 DEF Booked, Net, NetOf, Cents
<1>7. CASE case[d].status = "won"
  <2>1. case[d].back = Amount /\ case[d].status \in Pulling
    BY <1>1, <1>7 DEF Pulling
  <2>2. /\ pulled[d] /\ feeBooked[d] = case[d].fee /\ won[d] /\ ~lost[d]
        /\ feeReturned[d] = case[d].backFee /\ reinstated[d].net = 0
    BY <1>2, <1>3, <1>7, <2>1 DEF Level
  <2> QED
    BY <1>1, <2>1, <2>2 DEF Booked, Net, NetOf, Cents
<1>8. CASE case[d].status = "lost"
  <2>1. case[d].status \in Pulling
    BY <1>8 DEF Pulling
  <2>2. /\ pulled[d] /\ feeBooked[d] = case[d].fee /\ ~won[d] /\ feeReturned[d] = 0
        /\ reinstated[d].net = case[d].back + case[d].backFee
    BY <1>2, <1>3, <1>8, <2>1 DEF Level
  <2> QED
    BY <1>1, <2>1, <2>2 DEF Booked, Net, NetOf, Cents
<1> QED
  BY <1>5, <1>6, <1>7, <1>8 DEF Decided

\* What Becomes does, as its disjuncts are used below.
LEMMA BecomesIs ==
  ASSUME TypeOK, NEW d \in Dispute, NEW x \in Case, NEW types, Becomes(d, x, types)
  PROVE  /\ case'[d] = x /\ \A c \in Dispute \ {d} : case'[c] = case[c]
         /\ listed \subseteq listed'
         /\ NetOf(x) = Net(d) \/ d \in listed'
         /\ UNCHANGED <<payout, pulled, feeBooked, won, feeReturned, reinstated, moved>>
BY DEF Becomes, TypeOK, disputeBooks, payoutBooks

\* A move at Stripe that moves no money leaves level books level; every other
\* one is listed.
LEMMA QuietMove ==
  ASSUME Inv, NEW d \in Dispute, StripeMoves(d), Level(d)
  PROVE  Level(d)' \/ d \in listed'
<1>1. /\ case[d] \in Case /\ TypeOK /\ Amount \in Nat /\ MaxFee \in Nat /\ Amount > 0
      /\ case[d].fee \in 0..MaxFee /\ case[d].back \in 0..Amount /\ case[d].backFee \in 0..MaxFee
  BY BalanceAssumption DEF Inv, TypeOK, Case
<1>2. /\ case[d].status \notin Decided => case[d].back = 0
      /\ case[d].back = 0 => case[d].backFee = 0
      /\ reinstated[d].amount <= case[d].back /\ reinstated[d].amount \in Nat
  BY DEF Inv, Forward, DisputesInv, TypeOK
<1>3. ASSUME NEW s \in {"warning", "prevented"}, NEW types,
             Becomes(d, [case[d] EXCEPT !.status = s], types)
      PROVE  Level(d)'
  <2>1. /\ [case[d] EXCEPT !.status = s] \in Case
        /\ [case[d] EXCEPT !.status = s].status = s
    BY <1>1 DEF Case, NoFunds
  <2>2. case'[d].status = s
    BY <1>1, <1>3, <2>1, BecomesIs
  <2> QED
    BY <2>2 DEF Level, Pulling
<1>4. CASE Inquire(d) \/ EndInquiry(d)
  BY <1>3, <1>4 DEF Inquire, EndInquiry
<1>5. CASE Chargeback(d)
  <2>1. PICK f \in 0..MaxFee, types \in SUBSET {"created", "updated"} :
           Becomes(d, [case[d] EXCEPT !.status = "needs_response", !.fee = f], types)
    BY <1>5 DEF Chargeback
  <2>2. PICK x : x = [case[d] EXCEPT !.status = "needs_response", !.fee = f]
    OBVIOUS
  <2>3. x \in Case /\ x.status = "needs_response" /\ x.fee = f /\ x.back = 0 /\ x.backFee = 0
    BY <1>1, <1>2, <1>5, <2>2 DEF Case, Pulling, NoFunds, Chargeback, Decided
  <2>4. NetOf(x) < 0 /\ Net(d) = 0
    BY <1>1, <1>5, <2>3 DEF NetOf, Net, Pulling, Chargeback
  <2> QED
    BY <1>1, <2>1, <2>2, <2>3, <2>4, BecomesIs
<1>6. CASE Respond(d)
  <2>1. PICK f \in case[d].fee..MaxFee :
           Becomes(d, [case[d] EXCEPT !.status = "under_review", !.fee = f], {"updated"})
    BY <1>6 DEF Respond
  <2>2. PICK x : x = [case[d] EXCEPT !.status = "under_review", !.fee = f]
    OBVIOUS
  <2>3. f \in 0..MaxFee /\ case[d].status = "needs_response"
    BY <1>1, <1>6, <2>1 DEF Respond
  <2>4. /\ x \in Case /\ x.status = "under_review" /\ x.fee = f
        /\ x.back = case[d].back /\ x.backFee = case[d].backFee
    BY <1>1, <2>2, <2>3 DEF Case, Pulling, NoFunds
  <2>5. CASE f = case[d].fee
    BY <1>1, <2>1, <2>2, <2>3, <2>4, <2>5, BecomesIs DEF Level, Pulling
  <2>6. CASE f # case[d].fee
    <3>1. NetOf(x) # Net(d)
      BY <1>1, <2>3, <2>4, <2>6 DEF NetOf, Net, Pulling
    <3> QED
      BY <1>1, <2>1, <2>2, <2>4, <3>1, BecomesIs
  <2> QED
    BY <2>5, <2>6
<1>7. CASE Decide(d)
  <2>1. PICK s \in {"won", "lost"} : Becomes(d, [case[d] EXCEPT !.status = s], {"closed"})
    BY <1>7 DEF Decide
  <2>2. PICK x : x = [case[d] EXCEPT !.status = s]
    OBVIOUS
  <2>3. case[d].status \in Pulling \ Decided /\ case[d].back = 0
    BY <1>2, <1>7 DEF Decide, Pulling, Decided
  <2>4. x \in Case /\ x.status = s /\ x.fee = case[d].fee /\ x.back = 0
    BY <1>1, <2>2, <2>3 DEF Case, Pulling, NoFunds
  <2>5. reinstated[d].amount = 0 /\ Amount # 0
    BY <1>1, <1>2, <2>3
  <2> QED
    BY <1>1, <2>1, <2>2, <2>3, <2>4, <2>5, BecomesIs DEF Level
<1>8. CASE Reinstate(d)
  <2>1. PICK a \in (case[d].back + 1)..Amount, f \in case[d].backFee..case[d].fee :
           Becomes(d, [case[d] EXCEPT !.back = a, !.backFee = f], {"closed"})
    BY <1>8 DEF Reinstate
  <2>2. PICK x : x = [case[d] EXCEPT !.back = a, !.backFee = f]
    OBVIOUS
  <2>3. /\ a \in 0..Amount /\ case[d].back < a /\ f \in 0..MaxFee /\ case[d].backFee <= f
        /\ case[d].status \in Pulling
    BY <1>1, <1>8, <2>1 DEF Reinstate, Pulling
  <2>4. /\ x \in Case /\ x.status = case[d].status /\ x.fee = case[d].fee
        /\ x.back = a /\ x.backFee = f
    BY <1>1, <2>2, <2>3 DEF Case
  <2>5. NetOf(x) # Net(d)
    BY <1>1, <2>3, <2>4 DEF NetOf, Net
  <2> QED
    BY <1>1, <2>1, <2>2, <2>4, <2>5, BecomesIs
<1> QED
  BY <1>4, <1>5, <1>6, <1>7, <1>8 DEF StripeMoves

\* A handler never takes level books back behind the case.
LEMMA HandlerKeepsLevel ==
  ASSUME Inv, Inv', NEW d \in Dispute, NEW x \in Case, NEW type, HandleDispute(d, type, x),
         NEW c \in Dispute, Level(c)
  PROVE  Level(c)'
<1>1. UNCHANGED case /\ case[c] \in Case
  BY DEF HandleDispute, stripe, Inv, TypeOK
<1>2. /\ pulled[c] => pulled'[c]
      /\ feeBooked[c] <= feeBooked'[c]
      /\ won[c] => won'[c]
      /\ feeReturned[c] <= feeReturned'[c]
      /\ reinstated[c].amount <= reinstated'[c].amount
  <2>1. /\ feeBooked[c] \in Nat /\ feeReturned[c] \in Nat /\ reinstated[c].amount \in Nat
        /\ x.fee \in Nat /\ x.back \in Nat /\ x.backFee \in Nat
    BY BalanceAssumption DEF Inv, TypeOK, Case
  <2>2. (pulled[c] => pulled'[c]) /\ feeBooked[c] <= feeBooked'[c]
    BY <2>1 DEF HandleDispute, RecordDispute, PostDispute, Larger, Inv, TypeOK
  <2>3. (won[c] => won'[c]) /\ feeReturned[c] <= feeReturned'[c]
    BY <2>1 DEF HandleDispute, CloseWon, CloseLost, Larger, Inv, TypeOK
  <2>4. reinstated[c].amount <= reinstated'[c].amount
    BY <2>1 DEF HandleDispute, CloseWon, CloseLost, Inv, TypeOK
  <2> QED
    BY <2>2, <2>3, <2>4
<1>3. /\ feeBooked'[c] <= case[c].fee /\ feeReturned'[c] <= case[c].backFee
      /\ reinstated'[c].amount <= case[c].back
  BY <1>1 DEF Inv, DisputesInv
<1>4. /\ feeBooked[c] \in Nat /\ feeReturned[c] \in Nat /\ reinstated[c].amount \in Nat
      /\ feeBooked'[c] \in Nat /\ feeReturned'[c] \in Nat /\ reinstated'[c].amount \in Nat
      /\ case[c].fee \in Nat /\ case[c].back \in Nat /\ case[c].backFee \in Nat
  BY BalanceAssumption DEF Inv, TypeOK, Case
<1> QED
  BY <1>1, <1>2, <1>3, <1>4 DEF Level

\* The reconciliation of a dispute, which reads the case itself, levels it.
LEMMA ReconcileLevels ==
  ASSUME Inv, Inv', NEW d \in Dispute, ReconcileDispute(d)
  PROVE  Level(d)'
<1> DEFINE type == IF case[d].status \in {"won", "lost"} THEN "closed" ELSE "updated"
<1>1. HandleDispute(d, type, case[d])
  BY DEF ReconcileDispute
<1>2. UNCHANGED case /\ case[d] \in Case
  BY <1>1 DEF HandleDispute, stripe, Inv, TypeOK
<1>3. /\ feeBooked[d] \in Nat /\ feeReturned[d] \in Nat /\ reinstated[d].amount \in Nat
      /\ case[d].fee \in Nat /\ case[d].back \in Nat /\ case[d].backFee \in Nat
      /\ feeBooked[d] <= case[d].fee /\ feeReturned[d] <= case[d].backFee
      /\ reinstated[d].amount <= case[d].back
  BY BalanceAssumption DEF Inv, TypeOK, Case, DisputesInv
<1>a. \A a, b \in Nat : a <= b => Larger(a, b) = b
  BY DEF Larger
<1>4. case[d].status \in Pulling => pulled'[d] /\ feeBooked'[d] = case[d].fee
  <2> SUFFICES ASSUME case[d].status \in Pulling PROVE pulled'[d] /\ feeBooked'[d] = case[d].fee
    OBVIOUS
  <2>1. /\ pulled' = [pulled EXCEPT ![d] = TRUE]
        /\ feeBooked' = [feeBooked EXCEPT ![d] = Larger(@, case[d].fee)]
    BY <1>1 DEF HandleDispute, RecordDispute, PostDispute
  <2>2. pulled'[d] /\ feeBooked'[d] = Larger(feeBooked[d], case[d].fee)
    BY <2>1 DEF Inv, TypeOK
  <2> QED
    BY <1>3, <1>a, <2>2
<1>5. case[d].status = "won" => won'[d] /\ feeReturned'[d] = case[d].backFee
  <2> SUFFICES ASSUME case[d].status = "won" PROVE won'[d] /\ feeReturned'[d] = case[d].backFee
    OBVIOUS
  <2>1. /\ won' = [won EXCEPT ![d] = TRUE]
        /\ feeReturned' = [feeReturned EXCEPT ![d] = Larger(@, case[d].backFee)]
    BY <1>1 DEF HandleDispute, CloseWon
  <2>2. won'[d] /\ feeReturned'[d] = Larger(feeReturned[d], case[d].backFee)
    BY <2>1 DEF Inv, TypeOK
  <2> QED
    BY <1>3, <1>a, <2>2
<1>6. case[d].status = "lost" => reinstated'[d].amount = case[d].back
  <2> SUFFICES ASSUME case[d].status = "lost" PROVE reinstated'[d].amount = case[d].back
    OBVIOUS
  <2>1. reinstated' = [reinstated EXCEPT ![d] =
           IF case[d].back <= @.amount THEN @
           ELSE [amount |-> case[d].back, net |-> case[d].back + case[d].backFee]]
    BY <1>1 DEF HandleDispute, CloseLost
  <2>2. reinstated'[d] = IF case[d].back <= reinstated[d].amount THEN reinstated[d]
           ELSE [amount |-> case[d].back, net |-> case[d].back + case[d].backFee]
    BY <2>1 DEF Inv, TypeOK
  <2>3. CASE case[d].back <= reinstated[d].amount
    BY <1>3, <2>2, <2>3
  <2>4. CASE ~(case[d].back <= reinstated[d].amount)
    BY <2>2, <2>4
  <2> QED
    BY <2>3, <2>4
<1> QED
  BY <1>2, <1>4, <1>5, <1>6 DEF Level

\* A step of a payout takes nothing off its journals, and leaves it level
\* wherever it leaves the list.
LEMMA PayoutStaysLevel ==
  ASSUME Inv, ListedInv, NEW p \in Payout, PayoutStep(p)
  PROVE  /\ UNCHANGED <<case, disputeBooks>>
         /\ listed \ {p} \subseteq listed'
         /\ \A q \in Payout \ {p} : PayoutLevel(q)' <=> PayoutLevel(q)
         /\ PayoutLevel(p)' \/ p \in listed'
<1> DEFINE Goal == /\ UNCHANGED <<case, disputeBooks>>
                   /\ listed \ {p} \subseteq listed'
                   /\ \A q \in Payout \ {p} : PayoutLevel(q)' <=> PayoutLevel(q)
                   /\ PayoutLevel(p)' \/ p \in listed'
<1>1. PayoutLevel(p) \/ p \in listed
  BY DEF ListedInv
<1>2. ASSUME NEW s, NEW E, Commits(p, s, E)
      PROVE  /\ listed \ {p} \subseteq listed'
             /\ p \notin listed' /\ p \in listed => payout[p] = s
  BY <1>2 DEF Commits
<1>3. CASE PayoutMoves(p)
  <2>1. PICK s \in {"pending", "paid", "failed"} :
           /\ <<payout[p], s>> \in {<<"none", "pending">>, <<"pending", "paid">>,
                                    <<"pending", "failed">>, <<"paid", "failed">>}
           /\ payout' = [payout EXCEPT ![p] = s]
           /\ listed' = listed \cup (IF s = "paid" THEN {} ELSE {p})
    BY <1>3 DEF PayoutMoves
  <2>2. UNCHANGED <<case, disputeBooks, moved>>
    BY <1>3 DEF PayoutMoves, payoutBooks
  <2>3. payout'[p] = s /\ \A q \in Payout \ {p} : payout'[q] = payout[q]
    BY <2>1 DEF Inv, TypeOK
  <2>4. CASE s = "paid"
    <3>1. payout[p] = "pending" /\ listed' = listed
      BY <2>1, <2>4
    <3> QED
      BY <1>1, <2>2, <2>3, <2>4, <3>1 DEF PayoutLevel
  <2>5. CASE s # "paid"
    BY <2>1, <2>2, <2>3, <2>5 DEF PayoutLevel
  <2> QED
    BY <2>4, <2>5
<1>4. ASSUME NEW E, PayoutCreated(p, E) PROVE Goal
  <2>1. /\ Commits(p, "pending", E)
        /\ moved' = [moved EXCEPT ![p] = @ \cup {"created"}]
        /\ UNCHANGED <<case, payout, disputeBooks>>
    BY <1>4 DEF PayoutCreated, stripe
  <2>2. /\ moved'[p] = moved[p] \cup {"created"}
        /\ \A q \in Payout \ {p} : moved'[q] = moved[q]
    BY <2>1 DEF Inv, TypeOK
  <2> QED
    BY <1>1, <1>2, <2>1, <2>2 DEF PayoutLevel
<1>5. ASSUME NEW E, PayoutPaid(p, E) PROVE Goal
  <2>1. UNCHANGED <<case, payout, disputeBooks>>
    BY <1>5 DEF PayoutPaid, stripe
  <2>2. CASE "created" \in moved[p] /\ "created_failed" \notin moved[p]
    BY <1>1, <1>5, <2>1, <2>2 DEF PayoutPaid, PayoutLevel
  <2>3. CASE ~("created" \in moved[p] /\ "created_failed" \notin moved[p])
    <3>1. /\ Commits(p, "paid", E)
          /\ \/ moved' = [moved EXCEPT ![p] = @ \cup {"created", "paid"}]
             \/ moved' = moved /\ "created" \in moved[p]
      <4>1. CASE "created" \notin moved[p]
        BY <1>5, <4>1 DEF PayoutPaid
      <4>2. CASE "created" \in moved[p] /\ "created_failed" \in moved[p]
        BY <1>5, <4>2 DEF PayoutPaid
      <4> QED
        BY <2>3, <4>1, <4>2
    <3>2. /\ "created" \in moved'[p] /\ moved[p] \subseteq moved'[p]
          /\ \A q \in Payout \ {p} : moved'[q] = moved[q]
      BY <3>1 DEF Inv, TypeOK
    <3> QED
      BY <1>1, <1>2, <2>1, <3>1, <3>2 DEF PayoutLevel
  <2> QED
    BY <2>2, <2>3
<1>6. ASSUME NEW E, FailPayout(p, E) PROVE Goal
  <2>1. /\ Commits(p, "failed", E)
        /\ moved' = [moved EXCEPT ![p] =
              @ \cup {"created", "created_failed"} \cup (IF "paid" \in @ THEN {"paid_failed"} ELSE {})]
        /\ UNCHANGED <<case, payout, disputeBooks>>
    BY <1>6 DEF FailPayout, stripe
  <2>2. /\ {"created", "created_failed"} \subseteq moved'[p]
        /\ \A q \in Payout \ {p} : moved'[q] = moved[q]
    BY <2>1 DEF Inv, TypeOK
  <2> QED
    BY <1>2, <2>1, <2>2 DEF PayoutLevel
<1>7. CASE ArrivePayout(p)
  <2>1. /\ Commits(p, "paid", arriving[p].news)
        /\ moved' = [moved EXCEPT ![p] = @ \cup {"paid"}]
        /\ UNCHANGED <<case, payout, disputeBooks>>
    BY <1>7 DEF ArrivePayout, stripe
  <2>2. "created" \in moved[p]
    BY <1>7 DEF ArrivePayout, Inv, PayoutsInv
  <2>3. /\ moved'[p] = moved[p] \cup {"paid"}
        /\ \A q \in Payout \ {p} : moved'[q] = moved[q]
    BY <2>1 DEF Inv, TypeOK
  <2> QED
    BY <1>1, <1>2, <2>1, <2>2, <2>3 DEF PayoutLevel
<1>8. CASE ArriveFails(p)
  BY <1>1, <1>8 DEF ArriveFails, stripe, PayoutLevel
<1> QED
  BY <1>3, <1>4, <1>5, <1>6, <1>7, <1>8
     DEF PayoutStep, PayoutWebhook, ReconcilePayout, HandlePayout

\* Money that moves at Stripe is listed, and nothing leaves the list before
\* it is booked.
LEMMA ListedStep ==
  ASSUME Dispute \cap Payout = {}
  PROVE  Inv /\ Inv' /\ ListedInv /\ [Next]_vars => ListedInv'
<1> SUFFICES ASSUME Inv, Inv', ListedInv, [Next]_vars PROVE ListedInv'
  OBVIOUS
<1>1. ASSUME NEW d \in Dispute, StripeMoves(d) PROVE ListedInv'
  <2>1. PICK x \in Case, types \in SUBSET {"created", "updated", "closed"} : Becomes(d, x, types)
    BY <1>1, MovesForward DEF Inv
  <2>2. /\ \A c \in Dispute \ {d} : case'[c] = case[c]
        /\ listed \subseteq listed'
        /\ UNCHANGED <<payout, pulled, feeBooked, won, feeReturned, reinstated, moved>>
    BY <2>1, BecomesIs DEF Inv
  <2>3. \A c \in Dispute \ {d} : Level(c)' <=> Level(c)
    BY <2>2 DEF Level
  <2>4. Level(d) => Level(d)' \/ d \in listed'
    BY <1>1, QuietMove
  <2>5. \A p \in Payout : PayoutLevel(p)' <=> PayoutLevel(p)
    BY <2>2 DEF PayoutLevel
  <2> QED
    BY <2>2, <2>3, <2>4, <2>5 DEF ListedInv
<1>2. ASSUME NEW d \in Dispute, ReconcileDispute(d) PROVE ListedInv'
  <2>1. PICK type : HandleDispute(d, type, case[d])
    BY <1>2 DEF ReconcileDispute
  <2>2. listed \ {d} \subseteq listed' /\ UNCHANGED <<payout, moved>>
    BY <1>2, <2>1 DEF ReconcileDispute, Audited, HandleDispute, stripe, payoutBooks
  <2>3. case[d] \in Case
    BY DEF Inv, TypeOK
  <2>4. \A c \in Dispute : Level(c) => Level(c)'
    BY <2>1, <2>3, HandlerKeepsLevel
  <2>5. Level(d)'
    BY <1>2, ReconcileLevels
  <2>6. \A p \in Payout : (PayoutLevel(p)' <=> PayoutLevel(p)) /\ p # d
    BY <2>2 DEF PayoutLevel
  <2> QED
    BY <2>2, <2>4, <2>5, <2>6 DEF ListedInv
<1>3. ASSUME NEW e \in sent, DisputeWebhook(e) PROVE ListedInv'
  <2>1. PICK x \in {e.data, case[e.of]} : HandleDispute(e.of, e.type, x)
    BY <1>3 DEF DisputeWebhook
  <2>2. UNCHANGED <<listed, payout, moved>>
    BY <1>3, <2>1 DEF DisputeWebhook, HandleDispute, stripe, payoutBooks
  <2>3. e.of \in Dispute /\ x \in Case
    BY <2>1 DEF Inv, TypeOK, DisputeEvent
  <2>4. \A c \in Dispute : Level(c) => Level(c)'
    BY <2>1, <2>3, HandlerKeepsLevel
  <2>5. \A p \in Payout : PayoutLevel(p)' <=> PayoutLevel(p)
    BY <2>2 DEF PayoutLevel
  <2> QED
    BY <2>2, <2>4, <2>5 DEF ListedInv
<1>4. ASSUME NEW p \in Payout, PayoutStep(p) PROVE ListedInv'
  <2>1. /\ UNCHANGED <<case, disputeBooks>>
        /\ listed \ {p} \subseteq listed'
        /\ \A q \in Payout \ {p} : PayoutLevel(q)' <=> PayoutLevel(q)
        /\ PayoutLevel(p)' \/ p \in listed'
    BY <1>4, PayoutStaysLevel
  <2>2. \A d \in Dispute : (Level(d)' <=> Level(d)) /\ d # p
    BY <2>1 DEF Level, disputeBooks
  <2> QED
    BY <2>1, <2>2 DEF ListedInv
<1>5. CASE UNCHANGED vars \/ \E d \in Dispute : AskRefund(d) \/ Refund(d)
  <2>1. UNCHANGED <<case, payout, listed, pulled, feeBooked, won, feeReturned, reinstated, moved>>
    BY <1>5 DEF vars, stripe, disputeBooks, payoutBooks, AskRefund, Refund
  <2>2. (\A d \in Dispute : Level(d)' <=> Level(d)) /\ (\A p \in Payout : PayoutLevel(p)' <=> PayoutLevel(p))
    BY <2>1 DEF Level, PayoutLevel
  <2> QED
    BY <2>1, <2>2 DEF ListedInv
<1> QED
  BY <1>1, <1>2, <1>3, <1>4, <1>5 DEF Next, StripeMoves, PayoutStep

\* As Stripe's ids tell disputes from payouts, the reconciliation never loses
\* sight of money that is missing from the books, whatever news is lost.
THEOREM MissingAlwaysListed ==
  ASSUME Dispute \cap Payout = {}
  PROVE  Spec => []MissingIsListed
<1>1. Init => ListedInv
  BY DEF Init, ListedInv, Level, PayoutLevel, NoCase, Pulling
<1>2. Inv /\ ListedInv => MissingIsListed
  BY LevelAgrees DEF ListedInv, MissingIsListed, PayoutLevel
<1>3. Inv /\ Inv' /\ ListedInv /\ [Next]_vars => ListedInv'
  BY ListedStep
<1>4. QED
  BY <1>1, <1>2, <1>3, Invariance, PTL DEF Spec
=============================================================================
