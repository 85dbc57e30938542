----------------------- MODULE BookingDepositsProofs ------------------------
(***************************************************************************)
(* Proofs about BookingDeposits, for any number of attempts.               *)
(*                                                                         *)
(* The argument: while a transaction holds the visit's row the deposit is  *)
(* due (HolderFindsDue) and no settlement can end (SettleFindsFree), so    *)
(* nothing is posted, and new rows, which refer to the visit's, wait.  The *)
(* open rows it has looked up are therefore all that can still be paid     *)
(* (OpenInHand), and once it has locked them nothing is being settled      *)
(* (NothingSettles): what Stripe has canceled then stays unpaid            *)
(* (OneAlive), and no visit is canceled between a first settlement's look  *)
(* at it and its end (CanceledUnseen).  What is posted stays so, whatever  *)
(* late news make of its row.                                              *)
(***************************************************************************)
EXTENDS BookingDeposits, FiniteSetTheorems, TLAPS

\* The transactions are what their lock lets them be: only the desk's go without the visit's.
KindsOk ==
    /\ txn["desk"].kind \in {"idle", "form", "saved"}
    /\ txn["visit"].kind \notin {"form", "saved"}
    /\ \A t \in Txn :
          /\ txn[t].kind \in {"link", "form"} => txn[t].key \in Intent
          /\ txn[t].at \in {"checked", "charged"} => txn[t].key \in {Chosen, Card}

\* Whoever holds the visit's row does so for a deposit that is due, and nothing is posted.
HolderFindsDue == txn["visit"] # Idle => Due
PostedIsSeen == posted # {} => visit.deposit # "pending"

\* A settlement is of a paid intent, and one that another transaction has to wait for unless it
\* has no row yet.
SettlesPaid ==
    \A i \in Intent : Settling(i) =>
       /\ stripe[i] = "paid"
       /\ txn["visit"] # Idle => i \in Open

\* deposit_status does not return to pending, tells of a payment that is posted, and is none
\* only when the visit has ended without one.
Told(v) ==
    /\ v \in Visit
    /\ v.deposit \in {"collected", "forfeited", "refunded"} => posted # {}
    /\ v.deposit = "none" => v.status \in {"canceled", "completed"}

SawBehind ==
    \A i \in Intent : settle[i].at = "saw" =>
       /\ Told(settle[i].saw)
       /\ settle[i].saw.deposit # "pending" => visit.deposit # "pending"

\* What is settled is posted, what is posted was paid, and only that is refunded; who has read
\* an open row has read one that is there.
RowsArePaid ==
    \A i \in Intent :
       /\ row[i] = "succeeded" => i \in posted
       /\ i \in posted => stripe[i] = "paid"
       /\ back[i] # "none" => i \in posted
       /\ i \in opened => row[i] # "none"

\* The client pays what has a row, and a saved card is charged as its intent is created.
PaidHasRow ==
    /\ \A i \in Link : stripe[i] = "paid" => row[i] # "none"
    /\ \A i \in {Chosen, Card} : stripe[i] \in {"absent", "paid"}

\* The attempts the link opened that can still be paid, or are.
Alive == {i \in Link \ atDesk : row[i] # "none" /\ stripe[i] # "canceled"}
OneAlive == \A i, j \in Alive : i = j

\* Once it has looked, the transaction has every open attempt in hand that Stripe has not
\* canceled.
OpenInHand ==
    txn["visit"].at \in {"waiting", "holding"} =>
       \A i \in Open : stripe[i] # "canceled" => i \in txn["visit"].rows

\* With them locked, nothing is being settled.
NothingSettles == txn["visit"].at = "holding" => \A i \in Intent : ~Settling(i)

\* A settlement that takes a canceled visit for one to be kept is not the first.
CanceledUnseen ==
    \A i \in Intent : settle[i].at = "saw" /\ visit.status = "canceled" =>
       Late(settle[i].saw) \/ posted # {}

Once == \A i, j \in Charges : i = j
Seen == Once /\ HeldOf(posted, back) # {} => visit.deposit \in {"collected", "forfeited"}

IInv ==
    /\ TypeOK /\ CanceledIsClosed /\ KindsOk /\ HolderFindsDue /\ PostedIsSeen
    /\ SettlesPaid /\ Told(visit) /\ SawBehind /\ RowsArePaid /\ PaidHasRow /\ OneAlive
    /\ OpenInHand /\ NothingSettles /\ CanceledUnseen /\ Seen

\* Types, and what kind of transaction goes with which key.
LEMMA TypeStep == TypeOK /\ KindsOk /\ [Next]_vars => TypeOK' /\ KindsOk'
<1> SUFFICES ASSUME TypeOK, KindsOk, [Next]_vars PROVE TypeOK' /\ KindsOk'
  OBVIOUS
<1> USE DepositsAssumption DEF TypeOK, KindsOk, Txn, money, desk, Link
<1>1. ASSUME OpenLink PROVE TypeOK' /\ KindsOk'
  BY <1>1 DEF OpenLink, Create, Begin, Idle, Work, Visit, Kind, Closer, Jobs, Intent
<1>2. ASSUME OpenForm PROVE TypeOK' /\ KindsOk'
  BY <1>2 DEF OpenForm, FormKey, Create, Begin, Idle, Work, Visit, Kind, Closer, Jobs, Intent
<1>3. ASSUME NEW kind \in Closer \cup Jobs, Enter(kind) PROVE TypeOK' /\ KindsOk'
  BY <1>3 DEF Enter, Begin, Closer, Jobs, Idle, Work, Visit, Kind, Closer, Jobs, Intent
<1>4. ASSUME NEW t \in Txn, Look(t) PROVE TypeOK' /\ KindsOk'
  <2>1. Open \subseteq Intent /\ txn[t] \in Work
    BY <1>4 DEF Look, Open, Idle
  <2> QED
    BY <1>4, <2>1 DEF Look, GoOn, Work, Idle
<1>5. ASSUME NEW t \in Txn, Take(t) PROVE TypeOK' /\ KindsOk'
  BY <1>5 DEF Take, GoOn, Idle, Work, Visit, Kind, Closer, Jobs, Intent
<1>6. ASSUME NEW t \in Txn, TakeFree(t) PROVE TypeOK' /\ KindsOk'
  <2>1. Open \subseteq Intent /\ txn[t] \in Work
    BY <1>6 DEF TakeFree, Open, Idle
  <2>2. CASE End(t)
    BY <1>6, <2>1, <2>2 DEF TakeFree, End, Work, Idle
  <2>3. CASE GoOn(t, "holding", Open, Open)
    BY <1>6, <2>1, <2>3 DEF TakeFree, GoOn, Work, Idle
  <2> QED
    BY <1>6, <2>2, <2>3 DEF TakeFree
<1>7. ASSUME NEW t \in Txn, Opened(t) PROVE TypeOK' /\ KindsOk'
  <2>1. row' \in [Intent -> {"none", "pending", "failed", "canceled", "succeeded"}]
    BY <1>7 DEF Opened, RowsAfter
  <2>2. atDesk' \subseteq Intent /\ opened' \subseteq Intent
    BY <1>7 DEF Opened, Holding, Note
  <2>3. txn' \in [Txn -> Work \cup {Idle}] /\ KindsOk'
    BY <1>7 DEF Opened, End, Idle
  <2> QED
    BY <1>7, <2>1, <2>2, <2>3 DEF Opened
<1>8. ASSUME NEW t \in Txn, InProgress(t) PROVE TypeOK' /\ KindsOk'
  BY <1>8 DEF InProgress, Holding, End, Idle, Work, Visit, Kind, Closer, Jobs, Intent
<1>9. ASSUME NEW t \in Txn, Charged(t) PROVE TypeOK' /\ KindsOk'
  <2>1. row' \in [Intent -> {"none", "pending", "failed", "canceled", "succeeded"}]
    BY <1>9 DEF Charged
  <2>2. atDesk' \subseteq Intent /\ opened' \subseteq Intent
    <3>1. txn[t].key \in Intent
      BY <1>9 DEF Charged, Intent
    <3> QED
      BY <1>9, <3>1 DEF Charged, Note
  <2>3. txn' \in [Txn -> Work \cup {Idle}] /\ KindsOk'
    BY <1>9 DEF Charged, End, Idle
  <2>4. visit' \in Visit
    BY <1>9 DEF Charged, Visit
  <2> QED
    BY <1>9, <2>1, <2>2, <2>3, <2>4 DEF Charged
<1>10. ASSUME NEW t \in Txn, NEW i \in Intent, Void(t, i) PROVE TypeOK' /\ KindsOk'
  BY <1>10 DEF Void, GoOn, Idle, Work, Visit, Kind, Closer, Jobs, Intent
<1>11. ASSUME NEW t \in Txn, Quit(t) PROVE TypeOK' /\ KindsOk'
  BY <1>11 DEF Quit, End, Idle, Work, Visit, Kind, Closer, Jobs, Intent
<1>12. ASSUME Finish PROVE TypeOK' /\ KindsOk'
  BY <1>12 DEF Finish, Holding, RowsAfter, Voided, End, Idle, Work, Visit, Kind, Closer, Jobs,
     Intent
<1>13. ASSUME FinishJob PROVE TypeOK' /\ KindsOk'
  BY <1>13 DEF FinishJob, Holding, RowsAfter, Voided, End, Idle, Work, Visit, Kind, Closer, Jobs,
     Intent
<1>14. ASSUME Charge PROVE TypeOK' /\ KindsOk'
  BY <1>14 DEF Charge, Saved, Begin, Idle, Work, Visit, Kind, Closer, Jobs, Intent
<1>15. ASSUME ChargeSaved PROVE TypeOK' /\ KindsOk'
  BY <1>15 DEF ChargeSaved, Saved, Begin, Idle, Work, Visit, Kind, Closer, Jobs, Intent
<1>16. ASSUME CancelPaid PROVE TypeOK' /\ KindsOk'
  <2>1. back' \in [Intent -> {"none", "pending", "done", "failed"}]
    BY <1>16 DEF CancelPaid, Returned
  <2>2. visit' \in Visit
    BY <1>16 DEF CancelPaid, Change, DepositLeft, DepositAfter, Visit
  <2> QED
    BY <1>16, <2>1, <2>2 DEF CancelPaid, Change
<1>17. ASSUME CompletePaid PROVE TypeOK' /\ KindsOk'
  BY <1>17 DEF CompletePaid, Change, Live, Idle, Work, Visit, Kind, Closer, Jobs, Intent
<1>18. ASSUME AutoComplete PROVE TypeOK' /\ KindsOk'
  BY <1>18 DEF AutoComplete, Change, Live, Idle, Work, Visit, Kind, Closer, Jobs, Intent
<1>19. ASSUME NoShow PROVE TypeOK' /\ KindsOk'
  BY <1>19 DEF NoShow, Change, Live, Idle, Work, Visit, Kind, Closer, Jobs, Intent
<1>20. ASSUME Undo PROVE TypeOK' /\ KindsOk'
  BY <1>20 DEF Undo, Idle, Work, Visit, Kind, Closer, Jobs, Intent
<1>21. ASSUME NEW i \in Intent, Claim(i) PROVE TypeOK' /\ KindsOk'
  BY <1>21 DEF Claim, Written, Idle, Work, Visit, Kind, Closer, Jobs, Intent
<1>22. ASSUME NEW i \in Intent, See(i) PROVE TypeOK' /\ KindsOk'
  BY <1>22 DEF See, Idle, Work, Visit, Kind, Closer, Jobs, Intent
<1>23. ASSUME NEW i \in Intent, Settle(i) PROVE TypeOK' /\ KindsOk'
  <2>1. back' \in [Intent -> {"none", "pending", "done", "failed"}]
    BY <1>23 DEF Settle, Returned
  <2>2. visit' \in Visit
    BY <1>23 DEF Settle, DepositLeft, DepositAfter, Visit
  <2> QED
    BY <1>23, <2>1, <2>2 DEF Settle, NotSettling
<1>24. ASSUME NEW i \in Intent, Drop(i) PROVE TypeOK' /\ KindsOk'
  BY <1>24 DEF Drop, NotSettling, Idle, Work, Visit, Kind, Closer, Jobs, Intent
<1>25. ASSUME NEW i \in Intent, Refunded(i) PROVE TypeOK' /\ KindsOk'
  <2>1. back' \in [Intent -> {"none", "pending", "done", "failed"}]
    BY <1>25 DEF Refunded
  <2>2. visit' \in Visit
    BY <1>25 DEF Refunded, DepositAfter, Visit
  <2> QED
    BY <1>25, <2>1, <2>2 DEF Refunded
<1>26. ASSUME NEW i \in Intent, Pay(i) PROVE TypeOK' /\ KindsOk'
  BY <1>26 DEF Pay, Idle, Work, Visit, Kind, Closer, Jobs, Intent
<1>27. ASSUME NEW i \in Intent, News(i) PROVE TypeOK' /\ KindsOk'
  <2>1. row' \in [Intent -> {"none", "pending", "failed", "canceled", "succeeded"}]
    BY <1>27 DEF News, Written
  <2> QED
    BY <1>27, <2>1 DEF News, Written
<1>28. ASSUME Pass PROVE TypeOK' /\ KindsOk'
  BY <1>28 DEF Pass, Idle, Work, Visit, Kind, Closer, Jobs, Intent
<1>29. ASSUME NEW t \in Txn, Swipe(t) PROVE TypeOK' /\ KindsOk'
  <2>1. txn[t] \in Work
    BY <1>29 DEF Swipe, Idle
  <2> QED
    BY <1>29, <2>1 DEF Swipe, GoOn, Work, Idle
<1>50. CASE UNCHANGED vars
  BY <1>50 DEF vars
<1> HIDE DEF TypeOK, KindsOk, Txn, money, desk, Link
<1> QED
  BY <1>1, <1>2, <1>3, <1>4, <1>5, <1>6, <1>7, <1>8, <1>9, <1>10, <1>11, <1>12, <1>13, <1>14,
     <1>15, <1>16, <1>17, <1>18, <1>19, <1>20, <1>21, <1>22, <1>23, <1>24, <1>25, <1>26, <1>27,
     <1>28, <1>29, <1>50 DEF Next, Step

\* The row of one attempt when a new attempt is opened.
LEMMA OpenedRows ==
  ASSUME TypeOK, NEW t \in Txn, Opened(t), NEW j \in Intent
  PROVE  \/ row'[j] = row[j]
         \/ row'[j] = "canceled" /\ stripe[j] = "canceled"
         \/ row'[j] = "pending" /\ row[j] = "none" /\ j = txn[t].key
            /\ j \in opened' /\ (t = "desk" => j \in atDesk')
<1> DEFINE after == RowsAfter(t)
<1>1. after \in [Intent -> {"none", "pending", "failed", "canceled", "succeeded"}]
  BY DEF RowsAfter, TypeOK
<1>2. after[j] = row[j] \/ (after[j] = "canceled" /\ stripe[j] = "canceled")
  <2>1. after[j] = IF j \in Voided(t) THEN "canceled" ELSE row[j]
    BY DEF RowsAfter
  <2>2. j \in Voided(t) => stripe[j] = "canceled"
    BY DEF Voided
  <2> QED
    BY <2>1, <2>2
<1>3. CASE row[txn[t].key] # "none"
  BY <1>3 DEF Opened
<1>4. CASE row[txn[t].key] = "none"
  <2>1. row' = [after EXCEPT ![txn[t].key] = "pending"]
    BY <1>4 DEF Opened
  <2>2. CASE j = txn[t].key
    <3>1. row'[j] = "pending" /\ row[j] = "none"
      BY <1>1, <1>4, <2>1, <2>2
    <3>2. j \in opened' /\ (t = "desk" => j \in atDesk')
      BY <1>4, <2>2 DEF Opened, Note
    <3> QED
      BY <2>2, <3>1, <3>2
  <2>3. CASE j # txn[t].key
    <3>1. row'[j] = after[j]
      BY <1>1, <2>1, <2>3
    <3> QED
      BY <1>2, <3>1
  <2> QED
    BY <2>2, <2>3
<1> QED
  BY <1>3, <1>4

\* There are finitely many intents, so the link's key is a number.
LEMMA IntentIsFinite == IsFiniteSet(Intent) /\ Closed \in Nat
<1>1. IsFiniteSet(Link)
  BY DepositsAssumption, FS_Interval DEF Link
<1>2. IsFiniteSet(Intent)
  <2>1. IsFiniteSet((Link \cup {Form}) \cup {Chosen})
    BY <1>1, FS_AddElement
  <2>2. IsFiniteSet(((Link \cup {Form}) \cup {Chosen}) \cup {Card})
    BY <2>1, FS_AddElement
  <2>3. Intent = ((Link \cup {Form}) \cup {Chosen}) \cup {Card}
    BY DEF Intent
  <2> QED
    BY <2>2, <2>3
<1>3. IsFiniteSet({i \in Intent : row[i] \in {"failed", "canceled"}})
  BY <1>2, FS_Subset
<1> QED
  BY <1>2, <1>3, FS_CardinalityType DEF Closed

\* A row is closed only after its intent.
LEMMA ClosedStep == TypeOK /\ KindsOk /\ PaidHasRow /\ CanceledIsClosed /\ [Next]_vars
   => CanceledIsClosed'
<1> SUFFICES ASSUME TypeOK, KindsOk, PaidHasRow, CanceledIsClosed, [Next]_vars
             PROVE  CanceledIsClosed'
  OBVIOUS
<1> USE DepositsAssumption DEF TypeOK, CanceledIsClosed, money, desk, Txn, Intent
<1>1. ASSUME OpenLink PROVE CanceledIsClosed'
  BY <1>1 DEF OpenLink, Create, Begin
<1>2. ASSUME OpenForm PROVE CanceledIsClosed'
  BY <1>2 DEF OpenForm, FormKey, Create, Begin
<1>3. ASSUME NEW kind \in Closer \cup Jobs, Enter(kind) PROVE CanceledIsClosed'
  BY <1>3 DEF Enter, Begin, Closer, Jobs
<1>4. ASSUME NEW t \in Txn, Look(t) PROVE CanceledIsClosed'
  BY <1>4 DEF Look, GoOn
<1>5. ASSUME NEW t \in Txn, Take(t) PROVE CanceledIsClosed'
  BY <1>5 DEF Take, GoOn
<1>6. ASSUME NEW t \in Txn, TakeFree(t) PROVE CanceledIsClosed'
  BY <1>6 DEF TakeFree, GoOn, End
<1>7. ASSUME NEW t \in Txn, Opened(t) PROVE CanceledIsClosed'
  <2>1. stripe' = stripe
    BY <1>7 DEF Opened
  <2> QED
    BY <1>7, <2>1, OpenedRows
<1>8. ASSUME NEW t \in Txn, InProgress(t) PROVE CanceledIsClosed'
  BY <1>8 DEF InProgress, Holding, End
<1>9. ASSUME NEW t \in Txn, Charged(t) PROVE CanceledIsClosed'
  BY <1>9 DEF Charged, End
<1>10. ASSUME NEW t \in Txn, NEW i \in Intent, Void(t, i) PROVE CanceledIsClosed'
  BY <1>10 DEF Void, GoOn
<1>11. ASSUME NEW t \in Txn, Quit(t) PROVE CanceledIsClosed'
  BY <1>11 DEF Quit, End
<1>12. ASSUME Finish PROVE CanceledIsClosed'
  BY <1>12 DEF Finish, Holding, RowsAfter, Voided, End
<1>13. ASSUME FinishJob PROVE CanceledIsClosed'
  BY <1>13 DEF FinishJob, Holding, RowsAfter, Voided, End
<1>14. ASSUME Charge PROVE CanceledIsClosed'
  BY <1>14 DEF Charge, Saved, Begin
<1>15. ASSUME ChargeSaved PROVE CanceledIsClosed'
  BY <1>15 DEF ChargeSaved, Saved, Begin
<1>16. ASSUME CancelPaid PROVE CanceledIsClosed'
  BY <1>16 DEF CancelPaid, Change, Live, Returned, DepositLeft, DepositAfter
<1>17. ASSUME CompletePaid PROVE CanceledIsClosed'
  BY <1>17 DEF CompletePaid, Change, Live
<1>18. ASSUME AutoComplete PROVE CanceledIsClosed'
  BY <1>18 DEF AutoComplete, Change, Live
<1>19. ASSUME NoShow PROVE CanceledIsClosed'
  BY <1>19 DEF NoShow, Change, Live
<1>20. ASSUME Undo PROVE CanceledIsClosed'
  BY <1>20 DEF Undo
<1>21. ASSUME NEW i \in Intent, Claim(i) PROVE CanceledIsClosed'
  BY <1>21 DEF Claim, Written
<1>22. ASSUME NEW i \in Intent, See(i) PROVE CanceledIsClosed'
  BY <1>22 DEF See
<1>23. ASSUME NEW i \in Intent, Settle(i) PROVE CanceledIsClosed'
  BY <1>23 DEF Settle, Late, Returned, DepositLeft, DepositAfter, NotSettling
<1>24. ASSUME NEW i \in Intent, Drop(i) PROVE CanceledIsClosed'
  BY <1>24 DEF Drop, NotSettling
<1>25. ASSUME NEW i \in Intent, Refunded(i) PROVE CanceledIsClosed'
  BY <1>25 DEF Refunded, DepositAfter
<1>26. ASSUME NEW i \in Intent, Pay(i) PROVE CanceledIsClosed'
  BY <1>26 DEF Pay
<1>27. ASSUME NEW i \in Intent, News(i) PROVE CanceledIsClosed'
  BY <1>27 DEF News, Written
<1>28. ASSUME Pass PROVE CanceledIsClosed'
  BY <1>28 DEF Pass
<1>29. ASSUME NEW t \in Txn, Swipe(t) PROVE CanceledIsClosed'
  <2>1. txn[t].key \in {Chosen, Card}
    BY <1>29 DEF Swipe, KindsOk
  <2>2. row[txn[t].key] # "canceled"
    BY <2>1 DEF PaidHasRow
  <2> QED
    BY <1>29, <2>2 DEF Swipe
<1>50. CASE UNCHANGED vars
  BY <1>50 DEF vars
<1> HIDE DEF TypeOK, CanceledIsClosed, money, desk, Txn, Intent
<1> QED
  BY <1>1, <1>2, <1>3, <1>4, <1>5, <1>6, <1>7, <1>8, <1>9, <1>10, <1>11, <1>12, <1>13, <1>14,
     <1>15, <1>16, <1>17, <1>18, <1>19, <1>20, <1>21, <1>22, <1>23, <1>24, <1>25, <1>26, <1>27,
     <1>28, <1>29, <1>50 DEF Next, Step

\* What is posted stays posted.
LEMMA RowsStep == TypeOK /\ RowsArePaid /\ SettlesPaid /\ [Next]_vars => RowsArePaid'
   /\ posted \subseteq posted'
<1> SUFFICES ASSUME TypeOK, RowsArePaid, SettlesPaid, [Next]_vars
             PROVE  RowsArePaid' /\ posted \subseteq posted'
  OBVIOUS
<1> USE DepositsAssumption DEF TypeOK, RowsArePaid, SettlesPaid, Settled, Settling, money, desk,
   Txn,
   Intent
<1>1. ASSUME OpenLink PROVE RowsArePaid' /\ posted \subseteq posted'
  BY <1>1 DEF OpenLink, Create, Begin
<1>2. ASSUME OpenForm PROVE RowsArePaid' /\ posted \subseteq posted'
  BY <1>2 DEF OpenForm, FormKey, Create, Begin
<1>3. ASSUME NEW kind \in Closer \cup Jobs, Enter(kind) PROVE RowsArePaid'
   /\ posted \subseteq posted'
  BY <1>3 DEF Enter, Begin, Closer, Jobs
<1>4. ASSUME NEW t \in Txn, Look(t) PROVE RowsArePaid' /\ posted \subseteq posted'
  BY <1>4 DEF Look, GoOn
<1>5. ASSUME NEW t \in Txn, Take(t) PROVE RowsArePaid' /\ posted \subseteq posted'
  BY <1>5 DEF Take, GoOn
<1>6. ASSUME NEW t \in Txn, TakeFree(t) PROVE RowsArePaid' /\ posted \subseteq posted'
  BY <1>6 DEF TakeFree, GoOn, End
<1>7. ASSUME NEW t \in Txn, Opened(t) PROVE RowsArePaid' /\ posted \subseteq posted'
  <2>1. UNCHANGED <<stripe, back, posted>>
    BY <1>7 DEF Opened
  <2>2. ASSUME NEW j \in Intent
        PROVE  /\ row'[j] = "succeeded" => row[j] = "succeeded"
               /\ row[j] # "none" => row'[j] # "none"
    BY <1>7, OpenedRows
  <2>3. ASSUME NEW j \in Intent, j \in opened' PROVE row'[j] # "none"
    <3>1. CASE j \in opened
      BY <2>2, <3>1
    <3>2. CASE j \notin opened
      <4>1. j = txn[t].key /\ row' = [RowsAfter(t) EXCEPT ![j] = "pending"]
        BY <1>7, <2>3, <3>2 DEF Opened, Note
      <4> QED
        BY <4>1 DEF RowsAfter
    <3> QED
      BY <3>1, <3>2
  <2> QED
    BY <2>1, <2>2, <2>3
<1>8. ASSUME NEW t \in Txn, InProgress(t) PROVE RowsArePaid' /\ posted \subseteq posted'
  BY <1>8 DEF InProgress, Holding, End
<1>9. ASSUME NEW t \in Txn, Charged(t) PROVE RowsArePaid' /\ posted \subseteq posted'
  BY <1>9 DEF Charged, End, Note
<1>10. ASSUME NEW t \in Txn, NEW i \in Intent, Void(t, i) PROVE RowsArePaid'
   /\ posted \subseteq posted'
  BY <1>10 DEF Void, GoOn
<1>11. ASSUME NEW t \in Txn, Quit(t) PROVE RowsArePaid' /\ posted \subseteq posted'
  BY <1>11 DEF Quit, End
<1>12. ASSUME Finish PROVE RowsArePaid' /\ posted \subseteq posted'
  BY <1>12 DEF Finish, Holding, RowsAfter, Voided, End
<1>13. ASSUME FinishJob PROVE RowsArePaid' /\ posted \subseteq posted'
  BY <1>13 DEF FinishJob, Holding, RowsAfter, Voided, End
<1>14. ASSUME Charge PROVE RowsArePaid' /\ posted \subseteq posted'
  BY <1>14 DEF Charge, Saved, Begin
<1>15. ASSUME ChargeSaved PROVE RowsArePaid' /\ posted \subseteq posted'
  BY <1>15 DEF ChargeSaved, Saved, Begin
<1>16. ASSUME CancelPaid PROVE RowsArePaid' /\ posted \subseteq posted'
  BY <1>16 DEF CancelPaid, Change, Live, Returned, DepositLeft, DepositAfter
<1>17. ASSUME CompletePaid PROVE RowsArePaid' /\ posted \subseteq posted'
  BY <1>17 DEF CompletePaid, Change, Live
<1>18. ASSUME AutoComplete PROVE RowsArePaid' /\ posted \subseteq posted'
  BY <1>18 DEF AutoComplete, Change, Live
<1>19. ASSUME NoShow PROVE RowsArePaid' /\ posted \subseteq posted'
  BY <1>19 DEF NoShow, Change, Live
<1>20. ASSUME Undo PROVE RowsArePaid' /\ posted \subseteq posted'
  BY <1>20 DEF Undo
<1>21. ASSUME NEW i \in Intent, Claim(i) PROVE RowsArePaid' /\ posted \subseteq posted'
  BY <1>21 DEF Claim, Written
<1>22. ASSUME NEW i \in Intent, See(i) PROVE RowsArePaid' /\ posted \subseteq posted'
  BY <1>22 DEF See
<1>23. ASSUME NEW i \in Intent, Settle(i) PROVE RowsArePaid' /\ posted \subseteq posted'
  BY <1>23 DEF Settle, Late, Returned, DepositLeft, DepositAfter, NotSettling
<1>24. ASSUME NEW i \in Intent, Drop(i) PROVE RowsArePaid' /\ posted \subseteq posted'
  BY <1>24 DEF Drop, NotSettling
<1>25. ASSUME NEW i \in Intent, Refunded(i) PROVE RowsArePaid' /\ posted \subseteq posted'
  BY <1>25 DEF Refunded, DepositAfter
<1>26. ASSUME NEW i \in Intent, Pay(i) PROVE RowsArePaid' /\ posted \subseteq posted'
  BY <1>26 DEF Pay
<1>27. ASSUME NEW i \in Intent, News(i) PROVE RowsArePaid' /\ posted \subseteq posted'
  BY <1>27 DEF News, Written
<1>28. ASSUME Pass PROVE RowsArePaid' /\ posted \subseteq posted'
  BY <1>28 DEF Pass
<1>29. ASSUME NEW t \in Txn, Swipe(t) PROVE RowsArePaid' /\ posted \subseteq posted'
  BY <1>29 DEF Swipe, GoOn
<1>50. CASE UNCHANGED vars
  BY <1>50 DEF vars
<1> HIDE DEF TypeOK, RowsArePaid, SettlesPaid, Settled, Settling, money, desk, Txn, Intent
<1> QED
  BY <1>1, <1>2, <1>3, <1>4, <1>5, <1>6, <1>7, <1>8, <1>9, <1>10, <1>11, <1>12, <1>13, <1>14,
     <1>15, <1>16, <1>17, <1>18, <1>19, <1>20, <1>21, <1>22, <1>23, <1>24, <1>25, <1>26, <1>27,
     <1>28, <1>29, <1>50 DEF Next, Step

\* A settlement does not end while a transaction holds the visit: it would write, or has seen
\* a deposit that is not due.
LEMMA SettleFindsFree ==
  ASSUME TypeOK, HolderFindsDue, SawBehind, NEW i \in Intent, Settle(i)
  PROVE  txn["visit"] = Idle
BY DEF TypeOK, HolderFindsDue, SawBehind, Settle, Writable, Due, Visit

\* The visit of a transaction that holds it does not change.
LEMMA DueStep == TypeOK /\ HolderFindsDue /\ [Next]_vars => HolderFindsDue'
<1> SUFFICES ASSUME TypeOK, HolderFindsDue, [Next]_vars
             PROVE  HolderFindsDue'
  OBVIOUS
<1> USE DepositsAssumption DEF TypeOK, HolderFindsDue, Due, Txn, money, desk, Writable, Unlocked
<1>1. ASSUME OpenLink PROVE HolderFindsDue'
  BY <1>1 DEF OpenLink, Create, Begin
<1>2. ASSUME OpenForm PROVE HolderFindsDue'
  BY <1>2 DEF OpenForm, FormKey, Create, Begin
<1>3. ASSUME NEW kind \in Closer \cup Jobs, Enter(kind) PROVE HolderFindsDue'
  BY <1>3 DEF Enter, Begin, Closer, Jobs
<1>4. ASSUME NEW t \in Txn, Look(t) PROVE HolderFindsDue'
  <2>1. txn[t] # Idle
    BY <1>4 DEF Look, Idle
  <2>2. visit' = visit /\ \A u \in Txn : u # t => txn'[u] = txn[u]
    BY <1>4 DEF Look, GoOn
  <2> QED
    BY <2>1, <2>2
<1>5. ASSUME NEW t \in Txn, Take(t) PROVE HolderFindsDue'
  <2>1. txn[t] # Idle
    BY <1>5 DEF Take, Idle
  <2>2. visit' = visit /\ \A u \in Txn : u # t => txn'[u] = txn[u]
    BY <1>5 DEF Take, GoOn
  <2> QED
    BY <2>1, <2>2
<1>6. ASSUME NEW t \in Txn, TakeFree(t) PROVE HolderFindsDue'
  <2>1. txn[t] # Idle
    BY <1>6 DEF TakeFree, Idle
  <2>2. visit' = visit /\ \A u \in Txn : u # t => txn'[u] = txn[u]
    BY <1>6 DEF TakeFree, GoOn, End
  <2> QED
    BY <2>1, <2>2
<1>7. ASSUME NEW t \in Txn, Opened(t) PROVE HolderFindsDue'
  BY <1>7 DEF Opened, Holding, RowsAfter, Voided, End
<1>8. ASSUME NEW t \in Txn, InProgress(t) PROVE HolderFindsDue'
  BY <1>8 DEF InProgress, Holding, End
<1>9. ASSUME NEW t \in Txn, Charged(t) PROVE HolderFindsDue'
  BY <1>9 DEF Charged, End
<1>10. ASSUME NEW t \in Txn, NEW i \in Intent, Void(t, i) PROVE HolderFindsDue'
  <2>1. txn[t] # Idle
    BY <1>10 DEF Void, Idle
  <2>2. visit' = visit /\ \A u \in Txn : u # t => txn'[u] = txn[u]
    BY <1>10 DEF Void, GoOn
  <2> QED
    BY <2>1, <2>2
<1>11. ASSUME NEW t \in Txn, Quit(t) PROVE HolderFindsDue'
  BY <1>11 DEF Quit, End
<1>12. ASSUME Finish PROVE HolderFindsDue'
  BY <1>12 DEF Finish, Holding, RowsAfter, Voided, End
<1>13. ASSUME FinishJob PROVE HolderFindsDue'
  BY <1>13 DEF FinishJob, Holding, RowsAfter, Voided, End
<1>14. ASSUME Charge PROVE HolderFindsDue'
  BY <1>14 DEF Charge, Saved, Begin
<1>15. ASSUME ChargeSaved PROVE HolderFindsDue'
  BY <1>15 DEF ChargeSaved, Saved, Begin
<1>16. ASSUME CancelPaid PROVE HolderFindsDue'
  BY <1>16 DEF CancelPaid, Change, Live, Returned, DepositLeft, DepositAfter
<1>17. ASSUME CompletePaid PROVE HolderFindsDue'
  BY <1>17 DEF CompletePaid, Change, Live
<1>18. ASSUME AutoComplete PROVE HolderFindsDue'
  BY <1>18 DEF AutoComplete, Change, Live
<1>19. ASSUME NoShow PROVE HolderFindsDue'
  BY <1>19 DEF NoShow, Change, Live
<1>20. ASSUME Undo PROVE HolderFindsDue'
  BY <1>20 DEF Undo
<1>21. ASSUME NEW i \in Intent, Claim(i) PROVE HolderFindsDue'
  BY <1>21 DEF Claim, Written
<1>22. ASSUME NEW i \in Intent, See(i) PROVE HolderFindsDue'
  BY <1>22 DEF See
<1>23. ASSUME NEW i \in Intent, Settle(i) PROVE HolderFindsDue'
  BY <1>23 DEF Settle, Late, Returned, DepositLeft, DepositAfter, NotSettling
<1>24. ASSUME NEW i \in Intent, Drop(i) PROVE HolderFindsDue'
  BY <1>24 DEF Drop, NotSettling
<1>25. ASSUME NEW i \in Intent, Refunded(i) PROVE HolderFindsDue'
  BY <1>25 DEF Refunded, DepositAfter
<1>26. ASSUME NEW i \in Intent, Pay(i) PROVE HolderFindsDue'
  BY <1>26 DEF Pay
<1>27. ASSUME NEW i \in Intent, News(i) PROVE HolderFindsDue'
  BY <1>27 DEF News, Written
<1>28. ASSUME Pass PROVE HolderFindsDue'
  BY <1>28 DEF Pass
<1>29. ASSUME NEW t \in Txn, Swipe(t) PROVE HolderFindsDue'
  <2>1. txn[t] # Idle
    BY <1>29 DEF Swipe, Idle
  <2>2. visit' = visit /\ \A u \in Txn : u # t => txn'[u] = txn[u]
    BY <1>29 DEF Swipe, GoOn
  <2> QED
    BY <2>1, <2>2
<1>50. CASE UNCHANGED vars
  BY <1>50 DEF vars
<1> HIDE DEF TypeOK, HolderFindsDue, Due, Txn, money, desk, Writable, Unlocked
<1> QED
  BY <1>1, <1>2, <1>3, <1>4, <1>5, <1>6, <1>7, <1>8, <1>9, <1>10, <1>11, <1>12, <1>13, <1>14,
     <1>15, <1>16, <1>17, <1>18, <1>19, <1>20, <1>21, <1>22, <1>23, <1>24, <1>25, <1>26, <1>27,
     <1>28, <1>29, <1>50 DEF Next, Step

\* What is posted has been told to the visit.
LEMMA SeenStep == TypeOK /\ PostedIsSeen /\ SawBehind /\ [Next]_vars => PostedIsSeen'
<1> SUFFICES ASSUME TypeOK, PostedIsSeen, SawBehind, [Next]_vars
             PROVE  PostedIsSeen'
  OBVIOUS
<1> USE DepositsAssumption DEF TypeOK, PostedIsSeen, SawBehind, Settling, Txn, money, desk, Visit
<1>1. ASSUME OpenLink PROVE PostedIsSeen'
  BY <1>1 DEF OpenLink, Create, Begin
<1>2. ASSUME OpenForm PROVE PostedIsSeen'
  BY <1>2 DEF OpenForm, FormKey, Create, Begin
<1>3. ASSUME NEW kind \in Closer \cup Jobs, Enter(kind) PROVE PostedIsSeen'
  BY <1>3 DEF Enter, Begin, Closer, Jobs
<1>4. ASSUME NEW t \in Txn, Look(t) PROVE PostedIsSeen'
  BY <1>4 DEF Look, GoOn
<1>5. ASSUME NEW t \in Txn, Take(t) PROVE PostedIsSeen'
  BY <1>5 DEF Take, GoOn
<1>6. ASSUME NEW t \in Txn, TakeFree(t) PROVE PostedIsSeen'
  BY <1>6 DEF TakeFree, GoOn, End
<1>7. ASSUME NEW t \in Txn, Opened(t) PROVE PostedIsSeen'
  BY <1>7 DEF Opened
<1>8. ASSUME NEW t \in Txn, InProgress(t) PROVE PostedIsSeen'
  BY <1>8 DEF InProgress, Holding, End
<1>9. ASSUME NEW t \in Txn, Charged(t) PROVE PostedIsSeen'
  BY <1>9 DEF Charged, End
<1>10. ASSUME NEW t \in Txn, NEW i \in Intent, Void(t, i) PROVE PostedIsSeen'
  BY <1>10 DEF Void, GoOn
<1>11. ASSUME NEW t \in Txn, Quit(t) PROVE PostedIsSeen'
  BY <1>11 DEF Quit, End
<1>12. ASSUME Finish PROVE PostedIsSeen'
  BY <1>12 DEF Finish, Holding, RowsAfter, Voided, End
<1>13. ASSUME FinishJob PROVE PostedIsSeen'
  BY <1>13 DEF FinishJob, Holding, RowsAfter, Voided, End
<1>14. ASSUME Charge PROVE PostedIsSeen'
  BY <1>14 DEF Charge, Saved, Begin
<1>15. ASSUME ChargeSaved PROVE PostedIsSeen'
  BY <1>15 DEF ChargeSaved, Saved, Begin
<1>16. ASSUME CancelPaid PROVE PostedIsSeen'
  BY <1>16 DEF CancelPaid, Change, Live, Returned, DepositLeft, DepositAfter
<1>17. ASSUME CompletePaid PROVE PostedIsSeen'
  BY <1>17 DEF CompletePaid, Change, Live
<1>18. ASSUME AutoComplete PROVE PostedIsSeen'
  BY <1>18 DEF AutoComplete, Change, Live
<1>19. ASSUME NoShow PROVE PostedIsSeen'
  BY <1>19 DEF NoShow, Change, Live
<1>20. ASSUME Undo PROVE PostedIsSeen'
  BY <1>20 DEF Undo
<1>21. ASSUME NEW i \in Intent, Claim(i) PROVE PostedIsSeen'
  BY <1>21 DEF Claim, Written
<1>22. ASSUME NEW i \in Intent, See(i) PROVE PostedIsSeen'
  BY <1>22 DEF See
<1>23. ASSUME NEW i \in Intent, Settle(i) PROVE PostedIsSeen'
  BY <1>23 DEF Settle, Late, Returned, DepositLeft, DepositAfter, NotSettling
<1>24. ASSUME NEW i \in Intent, Drop(i) PROVE PostedIsSeen'
  BY <1>24 DEF Drop, NotSettling
<1>25. ASSUME NEW i \in Intent, Refunded(i) PROVE PostedIsSeen'
  BY <1>25 DEF Refunded, DepositAfter
<1>26. ASSUME NEW i \in Intent, Pay(i) PROVE PostedIsSeen'
  BY <1>26 DEF Pay
<1>27. ASSUME NEW i \in Intent, News(i) PROVE PostedIsSeen'
  BY <1>27 DEF News, Written
<1>28. ASSUME Pass PROVE PostedIsSeen'
  BY <1>28 DEF Pass
<1>29. ASSUME NEW t \in Txn, Swipe(t) PROVE PostedIsSeen'
  BY <1>29 DEF Swipe, GoOn
<1>50. CASE UNCHANGED vars
  BY <1>50 DEF vars
<1> HIDE DEF TypeOK, PostedIsSeen, SawBehind, Settling, Txn, money, desk, Visit
<1> QED
  BY <1>1, <1>2, <1>3, <1>4, <1>5, <1>6, <1>7, <1>8, <1>9, <1>10, <1>11, <1>12, <1>13, <1>14,
     <1>15, <1>16, <1>17, <1>18, <1>19, <1>20, <1>21, <1>22, <1>23, <1>24, <1>25, <1>26, <1>27,
     <1>28, <1>29, <1>50 DEF Next, Step

\* What is being settled is paid, and open if somebody holds the visit.
LEMMA SettlesStep == TypeOK /\ CanceledIsClosed /\ HolderFindsDue /\ PostedIsSeen /\ RowsArePaid
   /\ SawBehind /\ SettlesPaid /\ [Next]_vars => SettlesPaid'
<1> SUFFICES ASSUME TypeOK, CanceledIsClosed, HolderFindsDue, PostedIsSeen, RowsArePaid, SawBehind,
                    SettlesPaid, [Next]_vars
             PROVE  SettlesPaid'
  OBVIOUS
<1> USE DepositsAssumption DEF TypeOK, CanceledIsClosed, SettlesPaid, Settling, Open, Txn, money,
   desk,
   Writable, Unlocked, Idle
<1>1. ASSUME OpenLink PROVE SettlesPaid'
  <2>1. \A j \in Intent : Settling(j) => j \in Open
    BY <1>1 DEF OpenLink, Due, PostedIsSeen, RowsArePaid
  <2>2. UNCHANGED <<row, settle>> /\ \A j \in Intent : stripe[j] = "paid" => stripe'[j] = "paid"
    BY <1>1 DEF OpenLink, Create, Begin
  <2> QED
    BY <2>1, <2>2
<1>2. ASSUME OpenForm PROVE SettlesPaid'
  BY <1>2 DEF OpenForm, FormKey, Create, Begin
<1>3. ASSUME NEW kind \in Closer \cup Jobs, Enter(kind) PROVE SettlesPaid'
  <2>1. \A j \in Intent : Settling(j) => j \in Open
    BY <1>3 DEF Enter, Due, PostedIsSeen, RowsArePaid
  <2>2. UNCHANGED <<row, settle>> /\ \A j \in Intent : stripe[j] = "paid" => stripe'[j] = "paid"
    BY <1>3 DEF Enter, Begin
  <2> QED
    BY <2>1, <2>2
<1>4. ASSUME NEW t \in Txn, Look(t) PROVE SettlesPaid'
  <2>1. txn[t] # Idle
    BY <1>4 DEF Look, Idle
  <2>2. UNCHANGED <<stripe, row, settle>> /\ \A u \in Txn : u # t => txn'[u] = txn[u]
    BY <1>4 DEF Look, GoOn
  <2> QED
    BY <2>1, <2>2 DEF SettlesPaid, Open, Settling
<1>5. ASSUME NEW t \in Txn, Take(t) PROVE SettlesPaid'
  <2>1. txn[t] # Idle
    BY <1>5 DEF Take, Idle
  <2>2. UNCHANGED <<stripe, row, settle>> /\ \A u \in Txn : u # t => txn'[u] = txn[u]
    BY <1>5 DEF Take, GoOn
  <2> QED
    BY <2>1, <2>2 DEF SettlesPaid, Open, Settling
<1>6. ASSUME NEW t \in Txn, TakeFree(t) PROVE SettlesPaid'
  <2>1. txn[t] # Idle
    BY <1>6 DEF TakeFree, Idle
  <2>2. UNCHANGED <<stripe, row, settle>> /\ \A u \in Txn : u # t => txn'[u] = txn[u]
    BY <1>6 DEF TakeFree, GoOn, End
  <2> QED
    BY <2>1, <2>2 DEF SettlesPaid, Open, Settling
<1>7. ASSUME NEW t \in Txn, Opened(t) PROVE SettlesPaid'
  <2>1. txn'["visit"] = Idle
    BY <1>7 DEF Opened, End, Writable
  <2>2. UNCHANGED <<stripe, settle>>
    BY <1>7 DEF Opened
  <2>3. ASSUME NEW j \in Intent PROVE row'[j] = "succeeded" => row[j] = "succeeded"
    BY <1>7, OpenedRows
  <2> QED
    BY <2>1, <2>2, <2>3 DEF SettlesPaid, Settling
<1>8. ASSUME NEW t \in Txn, InProgress(t) PROVE SettlesPaid'
  BY <1>8 DEF InProgress, Holding, End
<1>9. ASSUME NEW t \in Txn, Charged(t) PROVE SettlesPaid'
  BY <1>9 DEF Charged, End
<1>10. ASSUME NEW t \in Txn, NEW i \in Intent, Void(t, i) PROVE SettlesPaid'
  <2>1. txn[t] # Idle
    BY <1>10 DEF Void, Idle
  <2>2. UNCHANGED <<row, settle>> /\ \A u \in Txn : u # t => txn'[u] = txn[u]
    BY <1>10 DEF Void, GoOn
  <2>3. \A j \in Intent : stripe[j] = "paid" => stripe'[j] = "paid"
    BY <1>10 DEF Void
  <2> QED
    BY <2>1, <2>2, <2>3 DEF SettlesPaid, Open, Settling
<1>11. ASSUME NEW t \in Txn, Quit(t) PROVE SettlesPaid'
  BY <1>11 DEF Quit, End
<1>12. ASSUME Finish PROVE SettlesPaid'
  BY <1>12 DEF Finish, Holding, RowsAfter, Voided, End
<1>13. ASSUME FinishJob PROVE SettlesPaid'
  BY <1>13 DEF FinishJob, Holding, RowsAfter, Voided, End
<1>14. ASSUME Charge PROVE SettlesPaid'
  BY <1>14 DEF Charge, Saved, Begin
<1>15. ASSUME ChargeSaved PROVE SettlesPaid'
  BY <1>15 DEF ChargeSaved, Saved, Begin
<1>16. ASSUME CancelPaid PROVE SettlesPaid'
  BY <1>16 DEF CancelPaid, Change, Live, Returned, DepositLeft, DepositAfter
<1>17. ASSUME CompletePaid PROVE SettlesPaid'
  BY <1>17 DEF CompletePaid, Change, Live
<1>18. ASSUME AutoComplete PROVE SettlesPaid'
  BY <1>18 DEF AutoComplete, Change, Live
<1>19. ASSUME NoShow PROVE SettlesPaid'
  BY <1>19 DEF NoShow, Change, Live
<1>20. ASSUME Undo PROVE SettlesPaid'
  BY <1>20 DEF Undo
<1>21. ASSUME NEW i \in Intent, Claim(i) PROVE SettlesPaid'
  <2>1. txn["visit"] # Idle => i \in Open
    <3> SUFFICES ASSUME txn["visit"] # Idle PROVE i \in Open
      OBVIOUS
    <3>1. row[i] # "none" /\ row[i] # "canceled"
      BY <1>21 DEF Claim
    <3>2. row[i] # "succeeded"
      BY DEF HolderFindsDue, Due, PostedIsSeen, RowsArePaid
    <3> QED
      BY <3>1, <3>2
  <2> QED
    BY <1>21, <2>1 DEF Claim
<1>22. ASSUME NEW i \in Intent, See(i) PROVE SettlesPaid'
  BY <1>22 DEF See
<1>23. ASSUME NEW i \in Intent, Settle(i) PROVE SettlesPaid'
  BY <1>23 DEF Settle, Late, Returned, DepositLeft, DepositAfter, NotSettling
<1>24. ASSUME NEW i \in Intent, Drop(i) PROVE SettlesPaid'
  BY <1>24 DEF Drop, NotSettling
<1>25. ASSUME NEW i \in Intent, Refunded(i) PROVE SettlesPaid'
  BY <1>25 DEF Refunded, DepositAfter
<1>26. ASSUME NEW i \in Intent, Pay(i) PROVE SettlesPaid'
  BY <1>26 DEF Pay
<1>27. ASSUME NEW i \in Intent, News(i) PROVE SettlesPaid'
  <2>1. UNCHANGED <<stripe, settle, txn>> /\ ~Settling(i)
    BY <1>27 DEF News, Written, Busy
  <2>2. \A j \in Intent : j # i => row'[j] = row[j]
    BY <1>27 DEF News
  <2> QED
    BY <2>1, <2>2
<1>28. ASSUME Pass PROVE SettlesPaid'
  BY <1>28 DEF Pass
<1>29. ASSUME NEW t \in Txn, Swipe(t) PROVE SettlesPaid'
  <2>1. txn[t] # Idle
    BY <1>29 DEF Swipe
  <2>2. UNCHANGED <<row, settle>> /\ \A u \in Txn : u # t => txn'[u] = txn[u]
    BY <1>29 DEF Swipe, GoOn
  <2>3. \A j \in Intent : stripe[j] = "paid" => stripe'[j] = "paid"
    BY <1>29 DEF Swipe
  <2> QED
    BY <2>1, <2>2, <2>3
<1>50. CASE UNCHANGED vars
  BY <1>50 DEF vars
<1> HIDE DEF TypeOK, CanceledIsClosed, SettlesPaid, Settling, Open, Txn, money, desk, Writable,
   Unlocked, Idle
<1> QED
  BY <1>1, <1>2, <1>3, <1>4, <1>5, <1>6, <1>7, <1>8, <1>9, <1>10, <1>11, <1>12, <1>13, <1>14,
     <1>15, <1>16, <1>17, <1>18, <1>19, <1>20, <1>21, <1>22, <1>23, <1>24, <1>25, <1>26, <1>27,
     <1>28, <1>29, <1>50 DEF Next, Step

\* deposit_status, as the rows bear it out.
LEMMA ToldStep == TypeOK /\ HolderFindsDue /\ RowsArePaid /\ Told(visit) /\ SawBehind
   /\ posted \subseteq posted' /\ [Next]_vars => Told(visit)'
<1> SUFFICES ASSUME TypeOK, HolderFindsDue, RowsArePaid, Told(visit), SawBehind,
   posted \subseteq posted', [Next]_vars
             PROVE  Told(visit)'
  OBVIOUS
<1> USE DepositsAssumption DEF TypeOK, Told, Visit, Txn, money, desk
<1>1. ASSUME OpenLink PROVE Told(visit)'
  BY <1>1 DEF OpenLink, Create, Begin
<1>2. ASSUME OpenForm PROVE Told(visit)'
  BY <1>2 DEF OpenForm, FormKey, Create, Begin
<1>3. ASSUME NEW kind \in Closer \cup Jobs, Enter(kind) PROVE Told(visit)'
  BY <1>3 DEF Enter, Begin, Closer, Jobs
<1>4. ASSUME NEW t \in Txn, Look(t) PROVE Told(visit)'
  BY <1>4 DEF Look, GoOn
<1>5. ASSUME NEW t \in Txn, Take(t) PROVE Told(visit)'
  BY <1>5 DEF Take, GoOn
<1>6. ASSUME NEW t \in Txn, TakeFree(t) PROVE Told(visit)'
  BY <1>6 DEF TakeFree, GoOn, End
<1>7. ASSUME NEW t \in Txn, Opened(t) PROVE Told(visit)'
  BY <1>7 DEF Opened, Holding, RowsAfter, Voided, End
<1>8. ASSUME NEW t \in Txn, InProgress(t) PROVE Told(visit)'
  BY <1>8 DEF InProgress, Holding, End
<1>9. ASSUME NEW t \in Txn, Charged(t) PROVE Told(visit)'
  <2>1. visit' = visit \/ (t = "visit" /\ visit' = [visit EXCEPT !.status = "no_show"])
    BY <1>9 DEF Charged
  <2>2. t = "visit" => visit.deposit = "pending"
    BY <1>9 DEF Charged, HolderFindsDue, Due, Idle
  <2> QED
    BY <2>1, <2>2
<1>10. ASSUME NEW t \in Txn, NEW i \in Intent, Void(t, i) PROVE Told(visit)'
  BY <1>10 DEF Void, GoOn
<1>11. ASSUME NEW t \in Txn, Quit(t) PROVE Told(visit)'
  BY <1>11 DEF Quit, End
<1>12. ASSUME Finish PROVE Told(visit)'
  BY <1>12 DEF Finish, Holding, RowsAfter, Voided, End
<1>13. ASSUME FinishJob PROVE Told(visit)'
  BY <1>13 DEF FinishJob, Holding, RowsAfter, Voided, End
<1>14. ASSUME Charge PROVE Told(visit)'
  BY <1>14 DEF Charge, Saved, Begin
<1>15. ASSUME ChargeSaved PROVE Told(visit)'
  BY <1>15 DEF ChargeSaved, Saved, Begin
<1>16. ASSUME CancelPaid PROVE Told(visit)'
  BY <1>16 DEF CancelPaid, Change, Live, Returned, DepositLeft, DepositAfter
<1>17. ASSUME CompletePaid PROVE Told(visit)'
  BY <1>17 DEF CompletePaid, Change, Live
<1>18. ASSUME AutoComplete PROVE Told(visit)'
  BY <1>18 DEF AutoComplete, Change, Live
<1>19. ASSUME NoShow PROVE Told(visit)'
  BY <1>19 DEF NoShow, Change, Live
<1>20. ASSUME Undo PROVE Told(visit)'
  BY <1>20 DEF Undo
<1>21. ASSUME NEW i \in Intent, Claim(i) PROVE Told(visit)'
  BY <1>21 DEF Claim, Written
<1>22. ASSUME NEW i \in Intent, See(i) PROVE Told(visit)'
  BY <1>22 DEF See
<1>23. ASSUME NEW i \in Intent, Settle(i) PROVE Told(visit)'
  <2>1. i \in posted'
    BY <1>23 DEF Settle
  <2>2. visit'.status = visit.status /\ visit' \in Visit
    BY <1>23 DEF Settle, DepositLeft, DepositAfter
  <2>3. visit'.deposit \in {"collected", "refunded", "forfeited"} \/ visit' = visit
    BY <1>23 DEF Settle, DepositLeft, DepositAfter
  <2> QED
    BY <2>1, <2>2, <2>3
<1>24. ASSUME NEW i \in Intent, Drop(i) PROVE Told(visit)'
  BY <1>24 DEF Drop, NotSettling
<1>25. ASSUME NEW i \in Intent, Refunded(i) PROVE Told(visit)'
  <2>1. i \in posted /\ posted' = posted
    BY <1>25 DEF Refunded, RowsArePaid
  <2>2. visit' = visit \/ visit' = [visit EXCEPT !.deposit = DepositAfter(posted, back')]
    BY <1>25 DEF Refunded
  <2>3. DepositAfter(posted, back') \in {"collected", "refunded"}
    BY DEF DepositAfter
  <2> QED
    BY <2>1, <2>2, <2>3
<1>26. ASSUME NEW i \in Intent, Pay(i) PROVE Told(visit)'
  BY <1>26 DEF Pay
<1>27. ASSUME NEW i \in Intent, News(i) PROVE Told(visit)'
  BY <1>27 DEF News, Written
<1>28. ASSUME Pass PROVE Told(visit)'
  BY <1>28 DEF Pass
<1>29. ASSUME NEW t \in Txn, Swipe(t) PROVE Told(visit)'
  BY <1>29 DEF Swipe, GoOn
<1>50. CASE UNCHANGED vars
  BY <1>50 DEF vars
<1> HIDE DEF TypeOK, Told, Visit, Txn, money, desk
<1> QED
  BY <1>1, <1>2, <1>3, <1>4, <1>5, <1>6, <1>7, <1>8, <1>9, <1>10, <1>11, <1>12, <1>13, <1>14,
     <1>15, <1>16, <1>17, <1>18, <1>19, <1>20, <1>21, <1>22, <1>23, <1>24, <1>25, <1>26, <1>27,
     <1>28, <1>29, <1>50 DEF Next, Step

\* What a settlement has seen of the visit was told.
LEMMA SawStep == TypeOK /\ Told(visit) /\ SawBehind /\ posted \subseteq posted'
   /\ [Next]_vars => SawBehind'
<1> SUFFICES ASSUME TypeOK, Told(visit), SawBehind, posted \subseteq posted', [Next]_vars
             PROVE  SawBehind'
  OBVIOUS
<1> USE DepositsAssumption DEF TypeOK, Told, SawBehind, Visit, Txn, money, desk
<1>1. ASSUME OpenLink PROVE SawBehind'
  BY <1>1 DEF OpenLink, Create, Begin
<1>2. ASSUME OpenForm PROVE SawBehind'
  BY <1>2 DEF OpenForm, FormKey, Create, Begin
<1>3. ASSUME NEW kind \in Closer \cup Jobs, Enter(kind) PROVE SawBehind'
  BY <1>3 DEF Enter, Begin, Closer, Jobs
<1>4. ASSUME NEW t \in Txn, Look(t) PROVE SawBehind'
  BY <1>4 DEF Look, GoOn
<1>5. ASSUME NEW t \in Txn, Take(t) PROVE SawBehind'
  BY <1>5 DEF Take, GoOn
<1>6. ASSUME NEW t \in Txn, TakeFree(t) PROVE SawBehind'
  BY <1>6 DEF TakeFree, GoOn, End
<1>7. ASSUME NEW t \in Txn, Opened(t) PROVE SawBehind'
  BY <1>7 DEF Opened, Holding, RowsAfter, Voided, End
<1>8. ASSUME NEW t \in Txn, InProgress(t) PROVE SawBehind'
  BY <1>8 DEF InProgress, Holding, End
<1>9. ASSUME NEW t \in Txn, Charged(t) PROVE SawBehind'
  BY <1>9 DEF Charged, End
<1>10. ASSUME NEW t \in Txn, NEW i \in Intent, Void(t, i) PROVE SawBehind'
  BY <1>10 DEF Void, GoOn
<1>11. ASSUME NEW t \in Txn, Quit(t) PROVE SawBehind'
  BY <1>11 DEF Quit, End
<1>12. ASSUME Finish PROVE SawBehind'
  BY <1>12 DEF Finish, Holding, RowsAfter, Voided, End
<1>13. ASSUME FinishJob PROVE SawBehind'
  BY <1>13 DEF FinishJob, Holding, RowsAfter, Voided, End
<1>14. ASSUME Charge PROVE SawBehind'
  BY <1>14 DEF Charge, Saved, Begin
<1>15. ASSUME ChargeSaved PROVE SawBehind'
  BY <1>15 DEF ChargeSaved, Saved, Begin
<1>16. ASSUME CancelPaid PROVE SawBehind'
  BY <1>16 DEF CancelPaid, Change, Live, Returned, DepositLeft, DepositAfter
<1>17. ASSUME CompletePaid PROVE SawBehind'
  BY <1>17 DEF CompletePaid, Change, Live
<1>18. ASSUME AutoComplete PROVE SawBehind'
  BY <1>18 DEF AutoComplete, Change, Live
<1>19. ASSUME NoShow PROVE SawBehind'
  BY <1>19 DEF NoShow, Change, Live
<1>20. ASSUME Undo PROVE SawBehind'
  BY <1>20 DEF Undo
<1>21. ASSUME NEW i \in Intent, Claim(i) PROVE SawBehind'
  BY <1>21 DEF Claim, Written
<1>22. ASSUME NEW i \in Intent, See(i) PROVE SawBehind'
  BY <1>22 DEF See
<1>23. ASSUME NEW i \in Intent, Settle(i) PROVE SawBehind'
  BY <1>23 DEF Settle, Late, Returned, DepositLeft, DepositAfter, NotSettling
<1>24. ASSUME NEW i \in Intent, Drop(i) PROVE SawBehind'
  BY <1>24 DEF Drop, NotSettling
<1>25. ASSUME NEW i \in Intent, Refunded(i) PROVE SawBehind'
  BY <1>25 DEF Refunded, DepositAfter
<1>26. ASSUME NEW i \in Intent, Pay(i) PROVE SawBehind'
  BY <1>26 DEF Pay
<1>27. ASSUME NEW i \in Intent, News(i) PROVE SawBehind'
  BY <1>27 DEF News, Written
<1>28. ASSUME Pass PROVE SawBehind'
  BY <1>28 DEF Pass
<1>29. ASSUME NEW t \in Txn, Swipe(t) PROVE SawBehind'
  BY <1>29 DEF Swipe, GoOn
<1>50. CASE UNCHANGED vars
  BY <1>50 DEF vars
<1> HIDE DEF TypeOK, Told, SawBehind, Visit, Txn, money, desk
<1> QED
  BY <1>1, <1>2, <1>3, <1>4, <1>5, <1>6, <1>7, <1>8, <1>9, <1>10, <1>11, <1>12, <1>13, <1>14,
     <1>15, <1>16, <1>17, <1>18, <1>19, <1>20, <1>21, <1>22, <1>23, <1>24, <1>25, <1>26, <1>27,
     <1>28, <1>29, <1>50 DEF Next, Step

\* The client pays attempts with a row.
LEMMA HasRowStep == TypeOK /\ KindsOk /\ PaidHasRow /\ [Next]_vars => PaidHasRow'
<1> SUFFICES ASSUME TypeOK, KindsOk, PaidHasRow, [Next]_vars
             PROVE  PaidHasRow'
  OBVIOUS
<1> USE DepositsAssumption DEF TypeOK, KindsOk, PaidHasRow, Txn, money, desk, Link, Intent
<1>1. ASSUME OpenLink PROVE PaidHasRow'
  BY <1>1, IntentIsFinite DEF OpenLink, Create, Begin
<1>2. ASSUME OpenForm PROVE PaidHasRow'
  BY <1>2, IntentIsFinite DEF OpenForm, FormKey, Create, Begin
<1>3. ASSUME NEW kind \in Closer \cup Jobs, Enter(kind) PROVE PaidHasRow'
  BY <1>3 DEF Enter, Begin, Closer, Jobs
<1>4. ASSUME NEW t \in Txn, Look(t) PROVE PaidHasRow'
  BY <1>4 DEF Look, GoOn
<1>5. ASSUME NEW t \in Txn, Take(t) PROVE PaidHasRow'
  BY <1>5 DEF Take, GoOn
<1>6. ASSUME NEW t \in Txn, TakeFree(t) PROVE PaidHasRow'
  BY <1>6 DEF TakeFree, GoOn, End
<1>7. ASSUME NEW t \in Txn, Opened(t) PROVE PaidHasRow'
  <2>1. stripe' = stripe
    BY <1>7 DEF Opened
  <2>2. ASSUME NEW j \in Intent, row[j] # "none" PROVE row'[j] # "none"
    BY <1>7, <2>2, OpenedRows
  <2> QED
    BY <2>1, <2>2
<1>8. ASSUME NEW t \in Txn, InProgress(t) PROVE PaidHasRow'
  BY <1>8 DEF InProgress, Holding, End
<1>9. ASSUME NEW t \in Txn, Charged(t) PROVE PaidHasRow'
  BY <1>9 DEF Charged, End, Note
<1>10. ASSUME NEW t \in Txn, NEW i \in Intent, Void(t, i) PROVE PaidHasRow'
  BY <1>10 DEF Void, GoOn
<1>11. ASSUME NEW t \in Txn, Quit(t) PROVE PaidHasRow'
  BY <1>11 DEF Quit, End
<1>12. ASSUME Finish PROVE PaidHasRow'
  BY <1>12 DEF Finish, Holding, RowsAfter, Voided, End
<1>13. ASSUME FinishJob PROVE PaidHasRow'
  BY <1>13 DEF FinishJob, Holding, RowsAfter, Voided, End
<1>14. ASSUME Charge PROVE PaidHasRow'
  BY <1>14 DEF Charge, Saved
<1>15. ASSUME ChargeSaved PROVE PaidHasRow'
  BY <1>15 DEF ChargeSaved, Saved
<1>16. ASSUME CancelPaid PROVE PaidHasRow'
  BY <1>16 DEF CancelPaid, Change, Live, Returned, DepositLeft, DepositAfter
<1>17. ASSUME CompletePaid PROVE PaidHasRow'
  BY <1>17 DEF CompletePaid, Change, Live
<1>18. ASSUME AutoComplete PROVE PaidHasRow'
  BY <1>18 DEF AutoComplete, Change, Live
<1>19. ASSUME NoShow PROVE PaidHasRow'
  BY <1>19 DEF NoShow, Change, Live
<1>20. ASSUME Undo PROVE PaidHasRow'
  BY <1>20 DEF Undo
<1>21. ASSUME NEW i \in Intent, Claim(i) PROVE PaidHasRow'
  BY <1>21 DEF Claim, Written
<1>22. ASSUME NEW i \in Intent, See(i) PROVE PaidHasRow'
  BY <1>22 DEF See
<1>23. ASSUME NEW i \in Intent, Settle(i) PROVE PaidHasRow'
  BY <1>23 DEF Settle, Late, Returned, DepositLeft, DepositAfter, NotSettling
<1>24. ASSUME NEW i \in Intent, Drop(i) PROVE PaidHasRow'
  BY <1>24 DEF Drop, NotSettling
<1>25. ASSUME NEW i \in Intent, Refunded(i) PROVE PaidHasRow'
  BY <1>25 DEF Refunded, DepositAfter
<1>26. ASSUME NEW i \in Intent, Pay(i) PROVE PaidHasRow'
  BY <1>26 DEF Pay
<1>27. ASSUME NEW i \in Intent, News(i) PROVE PaidHasRow'
  BY <1>27 DEF News, Written
<1>28. ASSUME Pass PROVE PaidHasRow'
  BY <1>28 DEF Pass
<1>29. ASSUME NEW t \in Txn, Swipe(t) PROVE PaidHasRow'
  BY <1>29 DEF Swipe, GoOn
<1>50. CASE UNCHANGED vars
  BY <1>50 DEF vars
<1> HIDE DEF TypeOK, KindsOk, PaidHasRow, Txn, money, desk, Link, Intent
<1> QED
  BY <1>1, <1>2, <1>3, <1>4, <1>5, <1>6, <1>7, <1>8, <1>9, <1>10, <1>11, <1>12, <1>13, <1>14,
     <1>15, <1>16, <1>17, <1>18, <1>19, <1>20, <1>21, <1>22, <1>23, <1>24, <1>25, <1>26, <1>27,
     <1>28, <1>29, <1>50 DEF Next, Step

\* Only the link makes an attempt that can be paid.
LEMMA AliveStep == TypeOK /\ KindsOk /\ RowsArePaid /\ PaidHasRow /\ SettlesPaid
   /\ [Next]_vars => Alive' \subseteq Alive \/ Opened("visit")
<1> SUFFICES ASSUME TypeOK, KindsOk, RowsArePaid, PaidHasRow, SettlesPaid, [Next]_vars
             PROVE  Alive' \subseteq Alive \/ Opened("visit")
  OBVIOUS
<1> USE DepositsAssumption DEF TypeOK, KindsOk, PaidHasRow, SettlesPaid, Settling, Alive, Txn,
   money, desk, Link, Intent
<1>1. ASSUME OpenLink PROVE Alive' \subseteq Alive \/ Opened("visit")
  BY <1>1 DEF OpenLink, Create, Begin
<1>2. ASSUME OpenForm PROVE Alive' \subseteq Alive \/ Opened("visit")
  BY <1>2 DEF OpenForm, FormKey, Create, Begin
<1>3. ASSUME NEW kind \in Closer \cup Jobs, Enter(kind)
      PROVE Alive' \subseteq Alive \/ Opened("visit")
  BY <1>3 DEF Enter, Begin, Closer, Jobs
<1>4. ASSUME NEW t \in Txn, Look(t) PROVE Alive' \subseteq Alive \/ Opened("visit")
  BY <1>4 DEF Look, GoOn
<1>5. ASSUME NEW t \in Txn, Take(t) PROVE Alive' \subseteq Alive \/ Opened("visit")
  BY <1>5 DEF Take, GoOn
<1>6. ASSUME NEW t \in Txn, TakeFree(t) PROVE Alive' \subseteq Alive \/ Opened("visit")
  BY <1>6 DEF TakeFree, GoOn, End
<1>7. ASSUME NEW t \in Txn, Opened(t) PROVE Alive' \subseteq Alive \/ Opened("visit")
  <2>1. CASE t = "visit"
    BY <1>7, <2>1
  <2>2. CASE t = "desk"
    <3>1. ASSUME NEW j \in Alive' PROVE j \in Alive
      BY <1>7, <2>2, <3>1, OpenedRows DEF Opened, Note
    <3> QED
      BY <3>1
  <2> QED
    BY <2>1, <2>2
<1>8. ASSUME NEW t \in Txn, InProgress(t) PROVE Alive' \subseteq Alive \/ Opened("visit")
  BY <1>8 DEF InProgress, Holding, End
<1>9. ASSUME NEW t \in Txn, Charged(t) PROVE Alive' \subseteq Alive \/ Opened("visit")
  BY <1>9 DEF Charged, End, Note
<1>10. ASSUME NEW t \in Txn, NEW i \in Intent, Void(t, i)
      PROVE Alive' \subseteq Alive \/ Opened("visit")
  BY <1>10 DEF Void, GoOn
<1>11. ASSUME NEW t \in Txn, Quit(t) PROVE Alive' \subseteq Alive \/ Opened("visit")
  BY <1>11 DEF Quit, End
<1>12. ASSUME Finish PROVE Alive' \subseteq Alive \/ Opened("visit")
  BY <1>12 DEF Finish, Holding, RowsAfter, Voided, End
<1>13. ASSUME FinishJob PROVE Alive' \subseteq Alive \/ Opened("visit")
  BY <1>13 DEF FinishJob, Holding, RowsAfter, Voided, End
<1>14. ASSUME Charge PROVE Alive' \subseteq Alive \/ Opened("visit")
  BY <1>14 DEF Charge, Saved, Begin
<1>15. ASSUME ChargeSaved PROVE Alive' \subseteq Alive \/ Opened("visit")
  BY <1>15 DEF ChargeSaved, Saved, Begin
<1>16. ASSUME CancelPaid PROVE Alive' \subseteq Alive \/ Opened("visit")
  BY <1>16 DEF CancelPaid, Change, Live, Returned, DepositLeft, DepositAfter
<1>17. ASSUME CompletePaid PROVE Alive' \subseteq Alive \/ Opened("visit")
  BY <1>17 DEF CompletePaid, Change, Live
<1>18. ASSUME AutoComplete PROVE Alive' \subseteq Alive \/ Opened("visit")
  BY <1>18 DEF AutoComplete, Change, Live
<1>19. ASSUME NoShow PROVE Alive' \subseteq Alive \/ Opened("visit")
  BY <1>19 DEF NoShow, Change, Live
<1>20. ASSUME Undo PROVE Alive' \subseteq Alive \/ Opened("visit")
  BY <1>20 DEF Undo
<1>21. ASSUME NEW i \in Intent, Claim(i) PROVE Alive' \subseteq Alive \/ Opened("visit")
  BY <1>21 DEF Claim, Written
<1>22. ASSUME NEW i \in Intent, See(i) PROVE Alive' \subseteq Alive \/ Opened("visit")
  BY <1>22 DEF See
<1>23. ASSUME NEW i \in Intent, Settle(i) PROVE Alive' \subseteq Alive \/ Opened("visit")
  BY <1>23 DEF Settle, Late, Returned, DepositLeft, DepositAfter, NotSettling
<1>24. ASSUME NEW i \in Intent, Drop(i) PROVE Alive' \subseteq Alive \/ Opened("visit")
  BY <1>24 DEF Drop, NotSettling
<1>25. ASSUME NEW i \in Intent, Refunded(i) PROVE Alive' \subseteq Alive \/ Opened("visit")
  BY <1>25 DEF Refunded, DepositAfter
<1>26. ASSUME NEW i \in Intent, Pay(i) PROVE Alive' \subseteq Alive \/ Opened("visit")
  BY <1>26 DEF Pay
<1>27. ASSUME NEW i \in Intent, News(i) PROVE Alive' \subseteq Alive \/ Opened("visit")
  BY <1>27 DEF News, Written, RowsArePaid
<1>28. ASSUME Pass PROVE Alive' \subseteq Alive \/ Opened("visit")
  BY <1>28 DEF Pass
<1>29. ASSUME NEW t \in Txn, Swipe(t) PROVE Alive' \subseteq Alive \/ Opened("visit")
  BY <1>29 DEF Swipe, GoOn
<1>50. CASE UNCHANGED vars
  BY <1>50 DEF vars
<1> HIDE DEF TypeOK, KindsOk, PaidHasRow, SettlesPaid, Settling, Alive, Txn, money, desk, Link,
   Intent
<1> QED
  BY <1>1, <1>2, <1>3, <1>4, <1>5, <1>6, <1>7, <1>8, <1>9, <1>10, <1>11, <1>12, <1>13, <1>14,
     <1>15, <1>16, <1>17, <1>18, <1>19, <1>20, <1>21, <1>22, <1>23, <1>24, <1>25, <1>26, <1>27,
     <1>28, <1>29, <1>50 DEF Next, Step

\* The attempt the link makes is then the only one that can be paid.
LEMMA OpenedAlive ==
  ASSUME TypeOK, KindsOk, CanceledIsClosed, HolderFindsDue, PostedIsSeen, RowsArePaid,
         OpenInHand, Opened("visit")
  PROVE  Alive' \subseteq {txn["visit"].key}
<1>1. /\ \A i \in Open : stripe[i] # "canceled" => i \in txn["visit"].rows
      /\ visit.deposit = "pending"
  BY DEF Opened, Holding, OpenInHand, HolderFindsDue, Due, Idle
<1>2. \A i \in txn["visit"].rows : stripe[i] = "canceled"
  BY DEF Opened, Cleared, Voided
<1>3. Alive = {}
  BY <1>1, <1>2 DEF Alive, Open, Intent, TypeOK, PostedIsSeen, RowsArePaid, CanceledIsClosed
<1> SUFFICES ASSUME NEW j \in Alive' PROVE j = txn["visit"].key
  OBVIOUS
<1>4. /\ j \in Intent /\ j \in Link /\ j \notin atDesk'
      /\ row'[j] # "none" /\ stripe'[j] # "canceled"
  BY DEF Alive, Intent
<1>5. stripe' = stripe /\ atDesk \subseteq atDesk'
  BY DEF Opened, Note, desk
<1>6. row[j] = "none"
  BY <1>3, <1>4, <1>5 DEF Alive, TypeOK
<1> QED
  BY <1>4, <1>5, <1>6, OpenedRows DEF Txn

\* A transaction that has looked has every open attempt in hand.
LEMMA HandStep == TypeOK /\ CanceledIsClosed /\ KindsOk /\ HolderFindsDue /\ PostedIsSeen
   /\ RowsArePaid /\ PaidHasRow /\ SawBehind /\ OpenInHand /\ [Next]_vars => OpenInHand'
<1> SUFFICES ASSUME TypeOK, CanceledIsClosed, KindsOk, HolderFindsDue, PostedIsSeen, RowsArePaid,
                    PaidHasRow, SawBehind, OpenInHand, [Next]_vars
             PROVE  OpenInHand'
  OBVIOUS
<1> USE DepositsAssumption DEF TypeOK, OpenInHand, Open, Txn, money, desk, Idle
<1>1. ASSUME OpenLink PROVE OpenInHand'
  BY <1>1 DEF OpenLink, Create, Begin
<1>2. ASSUME OpenForm PROVE OpenInHand'
  BY <1>2 DEF OpenForm, FormKey, Create, Begin
<1>3. ASSUME NEW kind \in Closer \cup Jobs, Enter(kind) PROVE OpenInHand'
  BY <1>3 DEF Enter, Begin, Closer, Jobs
<1>4. ASSUME NEW t \in Txn, Look(t) PROVE OpenInHand'
  BY <1>4 DEF Look, GoOn, Open
<1>5. ASSUME NEW t \in Txn, Take(t) PROVE OpenInHand'
  BY <1>5 DEF Take, GoOn
<1>6. ASSUME NEW t \in Txn, TakeFree(t) PROVE OpenInHand'
  BY <1>6 DEF TakeFree, GoOn, End
<1>7. ASSUME NEW t \in Txn, Opened(t) PROVE OpenInHand'
  <2>1. txn'["visit"] = Idle
    BY <1>7 DEF Opened, End, Writable
  <2> QED
    BY <2>1
<1>8. ASSUME NEW t \in Txn, InProgress(t) PROVE OpenInHand'
  BY <1>8 DEF InProgress, Holding, End
<1>9. ASSUME NEW t \in Txn, Charged(t) PROVE OpenInHand'
  <2>1. txn'["visit"] = Idle
    BY <1>9 DEF Charged, End, Writable
  <2> QED
    BY <2>1
<1>10. ASSUME NEW t \in Txn, NEW i \in Intent, Void(t, i) PROVE OpenInHand'
  BY <1>10 DEF Void, GoOn
<1>11. ASSUME NEW t \in Txn, Quit(t) PROVE OpenInHand'
  BY <1>11 DEF Quit, End
<1>12. ASSUME Finish PROVE OpenInHand'
  BY <1>12 DEF Finish, Holding, RowsAfter, Voided, End
<1>13. ASSUME FinishJob PROVE OpenInHand'
  BY <1>13 DEF FinishJob, Holding, RowsAfter, Voided, End
<1>14. ASSUME Charge PROVE OpenInHand'
  BY <1>14 DEF Charge, Saved, Begin
<1>15. ASSUME ChargeSaved PROVE OpenInHand'
  BY <1>15 DEF ChargeSaved, Saved, Begin
<1>16. ASSUME CancelPaid PROVE OpenInHand'
  BY <1>16 DEF CancelPaid, Change, Live, Returned, DepositLeft, DepositAfter
<1>17. ASSUME CompletePaid PROVE OpenInHand'
  BY <1>17 DEF CompletePaid, Change, Live
<1>18. ASSUME AutoComplete PROVE OpenInHand'
  BY <1>18 DEF AutoComplete, Change, Live
<1>19. ASSUME NoShow PROVE OpenInHand'
  BY <1>19 DEF NoShow, Change, Live
<1>20. ASSUME Undo PROVE OpenInHand'
  BY <1>20 DEF Undo
<1>21. ASSUME NEW i \in Intent, Claim(i) PROVE OpenInHand'
  BY <1>21 DEF Claim, Written
<1>22. ASSUME NEW i \in Intent, See(i) PROVE OpenInHand'
  BY <1>22 DEF See
<1>23. ASSUME NEW i \in Intent, Settle(i) PROVE OpenInHand'
  <2>1. txn'["visit"] = Idle
    BY <1>23, SettleFindsFree DEF Settle
  <2> QED
    BY <2>1
<1>24. ASSUME NEW i \in Intent, Drop(i) PROVE OpenInHand'
  BY <1>24 DEF Drop, NotSettling
<1>25. ASSUME NEW i \in Intent, Refunded(i) PROVE OpenInHand'
  BY <1>25 DEF Refunded, DepositAfter
<1>26. ASSUME NEW i \in Intent, Pay(i) PROVE OpenInHand'
  BY <1>26 DEF Pay
<1>27. ASSUME NEW i \in Intent, News(i) PROVE OpenInHand'
  <2>1. UNCHANGED <<stripe, txn>> /\ \A j \in Intent : j # i => row'[j] = row[j]
    BY <1>27 DEF News
  <2>2. ASSUME txn["visit"].at \in {"waiting", "holding"}, stripe[i] # "canceled"
        PROVE  i \in Open
    <3>1. row[i] # "succeeded"
      BY <2>2 DEF HolderFindsDue, Due, PostedIsSeen, RowsArePaid
    <3>2. row[i] # "none" /\ row[i] # "canceled"
      BY <1>27, <2>2 DEF News, Written, RowsArePaid, CanceledIsClosed
    <3> QED
      BY <3>1, <3>2
  <2> QED
    BY <2>1, <2>2
<1>28. ASSUME Pass PROVE OpenInHand'
  BY <1>28 DEF Pass
<1>29. ASSUME NEW t \in Txn, Swipe(t) PROVE OpenInHand'
  <2>1. txn[t].key \in {Chosen, Card} /\ stripe[txn[t].key] # "canceled"
    BY <1>29 DEF Swipe, KindsOk, PaidHasRow
  <2>2. UNCHANGED row /\ \A j \in Intent : stripe'[j] # "canceled" => stripe[j] # "canceled"
    BY <1>29, <2>1 DEF Swipe
  <2>3. txn'["visit"].at \in {"waiting", "holding"} => txn'["visit"] = txn["visit"]
    BY <1>29 DEF Swipe, GoOn
  <2> QED
    BY <2>2, <2>3
<1>50. CASE UNCHANGED vars
  BY <1>50 DEF vars
<1> HIDE DEF TypeOK, OpenInHand, Open, Txn, money, desk, Idle
<1> QED
  BY <1>1, <1>2, <1>3, <1>4, <1>5, <1>6, <1>7, <1>8, <1>9, <1>10, <1>11, <1>12, <1>13, <1>14,
     <1>15, <1>16, <1>17, <1>18, <1>19, <1>20, <1>21, <1>22, <1>23, <1>24, <1>25, <1>26, <1>27,
     <1>28, <1>29, <1>50 DEF Next, Step

\* While it holds them nothing is settled.
LEMMA NothingStep == TypeOK /\ CanceledIsClosed /\ HolderFindsDue /\ PostedIsSeen /\ RowsArePaid
   /\ SettlesPaid /\ OpenInHand /\ NothingSettles /\ [Next]_vars => NothingSettles'
<1> SUFFICES ASSUME TypeOK, CanceledIsClosed, HolderFindsDue, PostedIsSeen, RowsArePaid,
                    SettlesPaid, OpenInHand, NothingSettles, [Next]_vars
             PROVE  NothingSettles'
  OBVIOUS
<1> USE DepositsAssumption DEF TypeOK, SettlesPaid, OpenInHand, NothingSettles, Settling, Busy,
   Txn, money, desk, Idle
<1>1. ASSUME OpenLink PROVE NothingSettles'
  BY <1>1 DEF OpenLink, Create, Begin
<1>2. ASSUME OpenForm PROVE NothingSettles'
  BY <1>2 DEF OpenForm, FormKey, Create, Begin
<1>3. ASSUME NEW kind \in Closer \cup Jobs, Enter(kind) PROVE NothingSettles'
  BY <1>3 DEF Enter, Begin, Closer, Jobs
<1>4. ASSUME NEW t \in Txn, Look(t) PROVE NothingSettles'
  BY <1>4 DEF Look, GoOn
<1>5. ASSUME NEW t \in Txn, Take(t) PROVE NothingSettles'
  <2>1. UNCHANGED settle /\ \A j \in txn[t].rows : ~Settling(j)
    BY <1>5 DEF Take
  <2>2. CASE t = "visit"
    <3>1. \A j \in Intent : Settling(j) => j \in Open /\ stripe[j] # "canceled"
      BY <1>5, <2>2 DEF Take
    <3>2. \A j \in Intent : ~Settling(j)
      BY <1>5, <2>1, <2>2, <3>1 DEF Take
    <3> QED
      BY <2>1, <3>2
  <2>3. CASE t = "desk"
    BY <1>5, <2>1, <2>3 DEF Take, GoOn
  <2> QED
    BY <2>2, <2>3
<1>6. ASSUME NEW t \in Txn, TakeFree(t) PROVE NothingSettles'
  <2>1. UNCHANGED settle
    BY <1>6 DEF TakeFree
  <2>2. CASE txn'["visit"].at = "holding" /\ t = "visit"
    <3>1. \A i \in Intent : row[i] # "none" => ~Settling(i)
      BY <1>6, <2>2 DEF TakeFree, End
    <3>2. \A i \in Intent : Settling(i) => i \in Open
      BY <1>6, <2>2 DEF TakeFree
    <3> QED
      BY <2>1, <3>1, <3>2 DEF Open
  <2>3. CASE txn'["visit"].at # "holding"
    BY <2>3
  <2>4. CASE t = "desk"
    BY <1>6, <2>1, <2>4 DEF TakeFree, GoOn, End
  <2> QED
    BY <2>2, <2>3, <2>4
<1>7. ASSUME NEW t \in Txn, Opened(t) PROVE NothingSettles'
  BY <1>7 DEF Opened, Holding, RowsAfter, Voided, End
<1>8. ASSUME NEW t \in Txn, InProgress(t) PROVE NothingSettles'
  BY <1>8 DEF InProgress, Holding, End
<1>9. ASSUME NEW t \in Txn, Charged(t) PROVE NothingSettles'
  BY <1>9 DEF Charged, End
<1>10. ASSUME NEW t \in Txn, NEW i \in Intent, Void(t, i) PROVE NothingSettles'
  BY <1>10 DEF Void, GoOn
<1>11. ASSUME NEW t \in Txn, Quit(t) PROVE NothingSettles'
  BY <1>11 DEF Quit, End
<1>12. ASSUME Finish PROVE NothingSettles'
  BY <1>12 DEF Finish, Holding, RowsAfter, Voided, End
<1>13. ASSUME FinishJob PROVE NothingSettles'
  BY <1>13 DEF FinishJob, Holding, RowsAfter, Voided, End
<1>14. ASSUME Charge PROVE NothingSettles'
  BY <1>14 DEF Charge, Saved, Begin
<1>15. ASSUME ChargeSaved PROVE NothingSettles'
  BY <1>15 DEF ChargeSaved, Saved, Begin
<1>16. ASSUME CancelPaid PROVE NothingSettles'
  BY <1>16 DEF CancelPaid, Change, Live, Returned, DepositLeft, DepositAfter
<1>17. ASSUME CompletePaid PROVE NothingSettles'
  BY <1>17 DEF CompletePaid, Change, Live
<1>18. ASSUME AutoComplete PROVE NothingSettles'
  BY <1>18 DEF AutoComplete, Change, Live
<1>19. ASSUME NoShow PROVE NothingSettles'
  BY <1>19 DEF NoShow, Change, Live
<1>20. ASSUME Undo PROVE NothingSettles'
  BY <1>20 DEF Undo
<1>21. ASSUME NEW i \in Intent, Claim(i) PROVE NothingSettles'
  <2>1. CASE txn["visit"].at = "holding"
    <3>1. row[i] # "none" /\ row[i] # "canceled" /\ stripe[i] = "paid"
      BY <1>21, <2>1 DEF Claim, Writable, CanceledIsClosed
    <3>2. row[i] # "succeeded"
      BY <2>1 DEF HolderFindsDue, Due, PostedIsSeen, RowsArePaid
    <3>3. i \in txn["visit"].rows
      BY <2>1, <3>1, <3>2 DEF Open
    <3> QED
      BY <1>21, <2>1, <3>3 DEF Claim, Written
  <2>2. CASE txn["visit"].at # "holding"
    BY <1>21, <2>2 DEF Claim, Written
  <2> QED
    BY <2>1, <2>2
<1>22. ASSUME NEW i \in Intent, See(i) PROVE NothingSettles'
  BY <1>22 DEF See
<1>23. ASSUME NEW i \in Intent, Settle(i) PROVE NothingSettles'
  BY <1>23 DEF Settle, Late, Returned, DepositLeft, DepositAfter, NotSettling
<1>24. ASSUME NEW i \in Intent, Drop(i) PROVE NothingSettles'
  BY <1>24 DEF Drop, NotSettling
<1>25. ASSUME NEW i \in Intent, Refunded(i) PROVE NothingSettles'
  BY <1>25 DEF Refunded, DepositAfter
<1>26. ASSUME NEW i \in Intent, Pay(i) PROVE NothingSettles'
  BY <1>26 DEF Pay
<1>27. ASSUME NEW i \in Intent, News(i) PROVE NothingSettles'
  BY <1>27 DEF News, Written
<1>28. ASSUME Pass PROVE NothingSettles'
  BY <1>28 DEF Pass
<1>29. ASSUME NEW t \in Txn, Swipe(t) PROVE NothingSettles'
  BY <1>29 DEF Swipe, GoOn
<1>50. CASE UNCHANGED vars
  BY <1>50 DEF vars
<1> HIDE DEF TypeOK, SettlesPaid, OpenInHand, NothingSettles, Settling, Busy, Txn, money, desk, Idle
<1> QED
  BY <1>1, <1>2, <1>3, <1>4, <1>5, <1>6, <1>7, <1>8, <1>9, <1>10, <1>11, <1>12, <1>13, <1>14,
     <1>15, <1>16, <1>17, <1>18, <1>19, <1>20, <1>21, <1>22, <1>23, <1>24, <1>25, <1>26, <1>27,
     <1>28, <1>29, <1>50 DEF Next, Step

\* So a visit is not canceled behind the back of the first settlement.
LEMMA UnseenStep == TypeOK /\ HolderFindsDue /\ Told(visit) /\ NothingSettles /\ CanceledUnseen
   /\ posted \subseteq posted' /\ [Next]_vars => CanceledUnseen'
<1> SUFFICES ASSUME TypeOK, HolderFindsDue, Told(visit), NothingSettles, CanceledUnseen,
   posted \subseteq posted', [Next]_vars
             PROVE  CanceledUnseen'
  OBVIOUS
<1> USE DepositsAssumption DEF TypeOK, Told, NothingSettles, CanceledUnseen, Settling, Visit,
   Late, Txn, money, desk
<1>1. ASSUME OpenLink PROVE CanceledUnseen'
  BY <1>1 DEF OpenLink, Create, Begin
<1>2. ASSUME OpenForm PROVE CanceledUnseen'
  BY <1>2 DEF OpenForm, FormKey, Create, Begin
<1>3. ASSUME NEW kind \in Closer \cup Jobs, Enter(kind) PROVE CanceledUnseen'
  BY <1>3 DEF Enter, Begin, Closer, Jobs
<1>4. ASSUME NEW t \in Txn, Look(t) PROVE CanceledUnseen'
  BY <1>4 DEF Look, GoOn
<1>5. ASSUME NEW t \in Txn, Take(t) PROVE CanceledUnseen'
  BY <1>5 DEF Take, GoOn
<1>6. ASSUME NEW t \in Txn, TakeFree(t) PROVE CanceledUnseen'
  BY <1>6 DEF TakeFree, GoOn, End
<1>7. ASSUME NEW t \in Txn, Opened(t) PROVE CanceledUnseen'
  BY <1>7 DEF Opened, Holding, RowsAfter, Voided, End
<1>8. ASSUME NEW t \in Txn, InProgress(t) PROVE CanceledUnseen'
  BY <1>8 DEF InProgress, Holding, End
<1>9. ASSUME NEW t \in Txn, Charged(t) PROVE CanceledUnseen'
  BY <1>9 DEF Charged, End
<1>10. ASSUME NEW t \in Txn, NEW i \in Intent, Void(t, i) PROVE CanceledUnseen'
  BY <1>10 DEF Void, GoOn
<1>11. ASSUME NEW t \in Txn, Quit(t) PROVE CanceledUnseen'
  BY <1>11 DEF Quit, End
<1>12. ASSUME Finish PROVE CanceledUnseen'
  BY <1>12 DEF Finish, Holding, RowsAfter, Voided, End
<1>13. ASSUME FinishJob PROVE CanceledUnseen'
  BY <1>13 DEF FinishJob, Holding, RowsAfter, Voided, End
<1>14. ASSUME Charge PROVE CanceledUnseen'
  BY <1>14 DEF Charge, Saved, Begin
<1>15. ASSUME ChargeSaved PROVE CanceledUnseen'
  BY <1>15 DEF ChargeSaved, Saved, Begin
<1>16. ASSUME CancelPaid PROVE CanceledUnseen'
  BY <1>16 DEF CancelPaid, Change, Live, Returned, DepositLeft, DepositAfter
<1>17. ASSUME CompletePaid PROVE CanceledUnseen'
  BY <1>17 DEF CompletePaid, Change, Live
<1>18. ASSUME AutoComplete PROVE CanceledUnseen'
  BY <1>18 DEF AutoComplete, Change, Live
<1>19. ASSUME NoShow PROVE CanceledUnseen'
  BY <1>19 DEF NoShow, Change, Live
<1>20. ASSUME Undo PROVE CanceledUnseen'
  BY <1>20 DEF Undo
<1>21. ASSUME NEW i \in Intent, Claim(i) PROVE CanceledUnseen'
  BY <1>21 DEF Claim, Written
<1>22. ASSUME NEW i \in Intent, See(i) PROVE CanceledUnseen'
  BY <1>22 DEF See
<1>23. ASSUME NEW i \in Intent, Settle(i) PROVE CanceledUnseen'
  BY <1>23 DEF Settle, Late, Returned, DepositLeft, DepositAfter, NotSettling
<1>24. ASSUME NEW i \in Intent, Drop(i) PROVE CanceledUnseen'
  BY <1>24 DEF Drop, NotSettling
<1>25. ASSUME NEW i \in Intent, Refunded(i) PROVE CanceledUnseen'
  BY <1>25 DEF Refunded, DepositAfter
<1>26. ASSUME NEW i \in Intent, Pay(i) PROVE CanceledUnseen'
  BY <1>26 DEF Pay
<1>27. ASSUME NEW i \in Intent, News(i) PROVE CanceledUnseen'
  BY <1>27 DEF News, Written
<1>28. ASSUME Pass PROVE CanceledUnseen'
  BY <1>28 DEF Pass
<1>29. ASSUME NEW t \in Txn, Swipe(t) PROVE CanceledUnseen'
  BY <1>29 DEF Swipe, GoOn
<1>50. CASE UNCHANGED vars
  BY <1>50 DEF vars
<1> HIDE DEF TypeOK, Told, NothingSettles, CanceledUnseen, Settling, Visit, Late, Txn, money, desk
<1> QED
  BY <1>1, <1>2, <1>3, <1>4, <1>5, <1>6, <1>7, <1>8, <1>9, <1>10, <1>11, <1>12, <1>13, <1>14,
     <1>15, <1>16, <1>17, <1>18, <1>19, <1>20, <1>21, <1>22, <1>23, <1>24, <1>25, <1>26, <1>27,
     <1>28, <1>29, <1>50 DEF Next, Step

\* deposit_status and the money held, when the client was charged once.
LEMMA MoneyStep == TypeOK /\ HolderFindsDue /\ PostedIsSeen /\ Told(visit) /\ SawBehind
   /\ RowsArePaid /\ SettlesPaid /\ Seen /\ [Next]_vars => Seen'
<1> SUFFICES ASSUME TypeOK, HolderFindsDue, PostedIsSeen, Told(visit), SawBehind, RowsArePaid,
   SettlesPaid, Seen, [Next]_vars
             PROVE  Seen'
  OBVIOUS
<1> USE DepositsAssumption DEF TypeOK, Seen, Once, Charges, HeldOf, RowsArePaid, Visit, Txn,
   money, desk
<1>1. ASSUME OpenLink PROVE Seen'
  <2>1. UNCHANGED <<visit, posted, back>>
    BY <1>1 DEF OpenLink, Create
  <2>2. \A j \in Intent : stripe[j] = "paid" => stripe'[j] = "paid"
    BY <1>1 DEF OpenLink, Create
  <2> QED
    BY <2>1, <2>2
<1>2. ASSUME OpenForm PROVE Seen'
  <2>1. UNCHANGED <<visit, posted, back>>
    BY <1>2 DEF OpenForm, Create
  <2>2. \A j \in Intent : stripe[j] = "paid" => stripe'[j] = "paid"
    BY <1>2 DEF OpenForm, Create
  <2> QED
    BY <2>1, <2>2
<1>3. ASSUME NEW kind \in Closer \cup Jobs, Enter(kind) PROVE Seen'
  BY <1>3 DEF Enter, Begin, Closer, Jobs
<1>4. ASSUME NEW t \in Txn, Look(t) PROVE Seen'
  BY <1>4 DEF Look, GoOn
<1>5. ASSUME NEW t \in Txn, Take(t) PROVE Seen'
  BY <1>5 DEF Take, GoOn
<1>6. ASSUME NEW t \in Txn, TakeFree(t) PROVE Seen'
  BY <1>6 DEF TakeFree, GoOn, End
<1>7. ASSUME NEW t \in Txn, Opened(t) PROVE Seen'
  BY <1>7 DEF Opened
<1>8. ASSUME NEW t \in Txn, InProgress(t) PROVE Seen'
  BY <1>8 DEF InProgress, Holding, End
<1>9. ASSUME NEW t \in Txn, Charged(t) PROVE Seen'
  BY <1>9 DEF Charged, End
<1>10. ASSUME NEW t \in Txn, NEW i \in Intent, Void(t, i) PROVE Seen'
  BY <1>10 DEF Void, GoOn
<1>11. ASSUME NEW t \in Txn, Quit(t) PROVE Seen'
  BY <1>11 DEF Quit, End
<1>12. ASSUME Finish PROVE Seen'
  <2>1. posted = {}
    BY <1>12 DEF Finish, Holding, HolderFindsDue, Due, Idle, PostedIsSeen
  <2>2. posted' = {}
    BY <1>12, <2>1 DEF Finish
  <2> QED
    BY <2>2
<1>13. ASSUME FinishJob PROVE Seen'
  <2>1. posted = {}
    BY <1>13 DEF FinishJob, Holding, HolderFindsDue, Due, Idle, PostedIsSeen
  <2>2. posted' = {}
    BY <1>13, <2>1 DEF FinishJob
  <2> QED
    BY <2>2
<1>14. ASSUME Charge PROVE Seen'
  BY <1>14 DEF Charge, Saved, Begin
<1>15. ASSUME ChargeSaved PROVE Seen'
  BY <1>15 DEF ChargeSaved, Saved, Begin
<1>16. ASSUME CancelPaid PROVE Seen'
  BY <1>16 DEF CancelPaid, Change, Live, Returned, DepositLeft, DepositAfter
<1>17. ASSUME CompletePaid PROVE Seen'
  BY <1>17 DEF CompletePaid, Change, Live
<1>18. ASSUME AutoComplete PROVE Seen'
  BY <1>18 DEF AutoComplete, Change, PostedIsSeen
<1>19. ASSUME NoShow PROVE Seen'
  BY <1>19 DEF NoShow, Change, Live
<1>20. ASSUME Undo PROVE Seen'
  BY <1>20 DEF Undo
<1>21. ASSUME NEW i \in Intent, Claim(i) PROVE Seen'
  BY <1>21 DEF Claim, Written
<1>22. ASSUME NEW i \in Intent, See(i) PROVE Seen'
  BY <1>22 DEF See
<1>23. ASSUME NEW i \in Intent, Settle(i) PROVE Seen'
  <2>1. SUFFICES ASSUME Once, HeldOf(posted', back') # {}
                 PROVE  visit'.deposit \in {"collected", "forfeited"}
    BY <1>23 DEF Settle
  <2> DEFINE saw == settle[i].saw
  <2>2. stripe[i] = "paid" /\ posted \subseteq {i}
    BY <1>23, <2>1 DEF SettlesPaid, Settling, Settle
  <2>3. CASE Late(saw)
    <3>1. visit'.deposit = DepositLeft(posted', back')
      BY <1>23, <2>3 DEF Settle, Late
    <3> QED
      BY <2>1, <3>1 DEF DepositLeft, DepositAfter
  <2>4. CASE ~Late(saw) /\ i \in posted
    <3>1. posted' = posted /\ back' = back
      BY <1>23, <2>4 DEF Settle
    <3>2. visit' = visit \/ visit'.deposit \in {"collected", "forfeited"}
      BY <1>23, <2>4 DEF Settle
    <3>3. visit.deposit \in {"collected", "forfeited"}
      BY <2>1, <3>1
    <3> QED
      BY <3>2, <3>3
  <2>5. CASE ~Late(saw) /\ i \notin posted
    <3>1. saw.deposit = "pending"
      BY <1>23, <2>2, <2>5 DEF Settle, SawBehind, Told, Late
    <3> QED
      BY <1>23, <2>5, <3>1 DEF Settle
  <2> QED
    BY <2>3, <2>4, <2>5
<1>24. ASSUME NEW i \in Intent, Drop(i) PROVE Seen'
  BY <1>24 DEF Drop, NotSettling
<1>25. ASSUME NEW i \in Intent, Refunded(i) PROVE Seen'
  <2>1. UNCHANGED <<stripe, posted>>
    BY <1>25 DEF Refunded
  <2>2. CASE visit' = visit /\ back[i] = "pending" /\ back' = [back EXCEPT ![i] = "failed"]
    BY <2>1, <2>2
  <2>3. CASE visit' = [visit EXCEPT !.deposit = DepositAfter(posted, back')]
    BY <2>1, <2>3 DEF DepositAfter
  <2> QED
    BY <1>25, <2>2, <2>3 DEF Refunded
<1>26. ASSUME NEW i \in Intent, Pay(i) PROVE Seen'
  BY <1>26 DEF Pay
<1>27. ASSUME NEW i \in Intent, News(i) PROVE Seen'
  BY <1>27 DEF News, Written
<1>28. ASSUME Pass PROVE Seen'
  BY <1>28 DEF Pass
<1>29. ASSUME NEW t \in Txn, Swipe(t) PROVE Seen'
  BY <1>29 DEF Swipe, GoOn
<1>50. CASE UNCHANGED vars
  BY <1>50 DEF vars
<1> HIDE DEF TypeOK, Seen, Once, Charges, HeldOf, RowsArePaid, Visit, Txn, money, desk
<1> QED
  BY <1>1, <1>2, <1>3, <1>4, <1>5, <1>6, <1>7, <1>8, <1>9, <1>10, <1>11, <1>12, <1>13, <1>14,
     <1>15, <1>16, <1>17, <1>18, <1>19, <1>20, <1>21, <1>22, <1>23, <1>24, <1>25, <1>26, <1>27,
     <1>28, <1>29, <1>50 DEF Next, Step

\* Who cancels a visit.
LEMMA ReleasedBy == TypeOK /\ [Next]_vars => (visit.status # "canceled"
   /\ visit'.status = "canceled"
         => Finish \/ FinishJob \/ txn["visit"] = Idle)
<1> SUFFICES ASSUME TypeOK, visit.status # "canceled", visit'.status = "canceled", [Next]_vars
             PROVE  Finish \/ FinishJob \/ txn["visit"] = Idle
  OBVIOUS
<1> USE DepositsAssumption DEF TypeOK, Visit, Txn, money, desk, Writable, Unlocked
<1>1. ASSUME OpenLink PROVE Finish \/ FinishJob \/ txn["visit"] = Idle
  BY <1>1 DEF OpenLink, Create, Begin
<1>2. ASSUME OpenForm PROVE Finish \/ FinishJob \/ txn["visit"] = Idle
  BY <1>2 DEF OpenForm, FormKey, Create, Begin
<1>3. ASSUME NEW kind \in Closer \cup Jobs, Enter(kind)
      PROVE Finish \/ FinishJob \/ txn["visit"] = Idle
  BY <1>3 DEF Enter, Begin, Closer, Jobs
<1>4. ASSUME NEW t \in Txn, Look(t) PROVE Finish \/ FinishJob \/ txn["visit"] = Idle
  BY <1>4 DEF Look, GoOn
<1>5. ASSUME NEW t \in Txn, Take(t) PROVE Finish \/ FinishJob \/ txn["visit"] = Idle
  BY <1>5 DEF Take, GoOn
<1>6. ASSUME NEW t \in Txn, TakeFree(t) PROVE Finish \/ FinishJob \/ txn["visit"] = Idle
  BY <1>6 DEF TakeFree, GoOn, End
<1>7. ASSUME NEW t \in Txn, Opened(t) PROVE Finish \/ FinishJob \/ txn["visit"] = Idle
  BY <1>7 DEF Opened, Holding, RowsAfter, Voided, End
<1>8. ASSUME NEW t \in Txn, InProgress(t) PROVE Finish \/ FinishJob \/ txn["visit"] = Idle
  BY <1>8 DEF InProgress, Holding, End
<1>9. ASSUME NEW t \in Txn, Charged(t) PROVE Finish \/ FinishJob \/ txn["visit"] = Idle
  BY <1>9 DEF Charged, End
<1>10. ASSUME NEW t \in Txn, NEW i \in Intent, Void(t, i)
      PROVE Finish \/ FinishJob \/ txn["visit"] = Idle
  BY <1>10 DEF Void, GoOn
<1>11. ASSUME NEW t \in Txn, Quit(t) PROVE Finish \/ FinishJob \/ txn["visit"] = Idle
  BY <1>11 DEF Quit, End
<1>12. ASSUME Finish PROVE Finish \/ FinishJob \/ txn["visit"] = Idle
  BY <1>12 DEF Finish, Holding, RowsAfter, Voided, End
<1>13. ASSUME FinishJob PROVE Finish \/ FinishJob \/ txn["visit"] = Idle
  BY <1>13 DEF FinishJob, Holding, RowsAfter, Voided, End
<1>14. ASSUME Charge PROVE Finish \/ FinishJob \/ txn["visit"] = Idle
  BY <1>14 DEF Charge, Saved, Begin
<1>15. ASSUME ChargeSaved PROVE Finish \/ FinishJob \/ txn["visit"] = Idle
  BY <1>15 DEF ChargeSaved, Saved, Begin
<1>16. ASSUME CancelPaid PROVE Finish \/ FinishJob \/ txn["visit"] = Idle
  BY <1>16 DEF CancelPaid, Change, Live, Returned, DepositLeft, DepositAfter
<1>17. ASSUME CompletePaid PROVE Finish \/ FinishJob \/ txn["visit"] = Idle
  BY <1>17 DEF CompletePaid, Change, Live
<1>18. ASSUME AutoComplete PROVE Finish \/ FinishJob \/ txn["visit"] = Idle
  BY <1>18 DEF AutoComplete, Change, Live
<1>19. ASSUME NoShow PROVE Finish \/ FinishJob \/ txn["visit"] = Idle
  BY <1>19 DEF NoShow, Change, Live
<1>20. ASSUME Undo PROVE Finish \/ FinishJob \/ txn["visit"] = Idle
  BY <1>20 DEF Undo
<1>21. ASSUME NEW i \in Intent, Claim(i) PROVE Finish \/ FinishJob \/ txn["visit"] = Idle
  BY <1>21 DEF Claim, Written
<1>22. ASSUME NEW i \in Intent, See(i) PROVE Finish \/ FinishJob \/ txn["visit"] = Idle
  BY <1>22 DEF See
<1>23. ASSUME NEW i \in Intent, Settle(i) PROVE Finish \/ FinishJob \/ txn["visit"] = Idle
  BY <1>23 DEF Settle, Late, Returned, DepositLeft, DepositAfter, NotSettling
<1>24. ASSUME NEW i \in Intent, Drop(i) PROVE Finish \/ FinishJob \/ txn["visit"] = Idle
  BY <1>24 DEF Drop, NotSettling
<1>25. ASSUME NEW i \in Intent, Refunded(i) PROVE Finish \/ FinishJob \/ txn["visit"] = Idle
  BY <1>25 DEF Refunded, DepositAfter
<1>26. ASSUME NEW i \in Intent, Pay(i) PROVE Finish \/ FinishJob \/ txn["visit"] = Idle
  BY <1>26 DEF Pay
<1>27. ASSUME NEW i \in Intent, News(i) PROVE Finish \/ FinishJob \/ txn["visit"] = Idle
  BY <1>27 DEF News, Written
<1>28. ASSUME Pass PROVE Finish \/ FinishJob \/ txn["visit"] = Idle
  BY <1>28 DEF Pass
<1>29. ASSUME NEW t \in Txn, Swipe(t) PROVE Finish \/ FinishJob \/ txn["visit"] = Idle
  BY <1>29 DEF Swipe, GoOn
<1>50. CASE UNCHANGED vars
  BY <1>50 DEF vars
<1> HIDE DEF TypeOK, Visit, Txn, money, desk, Writable, Unlocked
<1> QED
  BY <1>1, <1>2, <1>3, <1>4, <1>5, <1>6, <1>7, <1>8, <1>9, <1>10, <1>11, <1>12, <1>13, <1>14,
     <1>15, <1>16, <1>17, <1>18, <1>19, <1>20, <1>21, <1>22, <1>23, <1>24, <1>25, <1>26, <1>27,
     <1>28, <1>29, <1>50 DEF Next, Step

\* Who posts a payment.
LEMMA PostedBy == TypeOK /\ [Next]_vars => (\A j \in posted' \ posted : Settle(j))
<1> SUFFICES ASSUME TypeOK, NEW j \in posted' \ posted, [Next]_vars
             PROVE  Settle(j)
  OBVIOUS
<1> USE DepositsAssumption DEF TypeOK, money, desk, Txn
<1>1. ASSUME OpenLink PROVE Settle(j)
  BY <1>1 DEF OpenLink, Create, Begin
<1>2. ASSUME OpenForm PROVE Settle(j)
  BY <1>2 DEF OpenForm, FormKey, Create, Begin
<1>3. ASSUME NEW kind \in Closer \cup Jobs, Enter(kind) PROVE Settle(j)
  BY <1>3 DEF Enter, Begin, Closer, Jobs
<1>4. ASSUME NEW t \in Txn, Look(t) PROVE Settle(j)
  BY <1>4 DEF Look, GoOn
<1>5. ASSUME NEW t \in Txn, Take(t) PROVE Settle(j)
  BY <1>5 DEF Take, GoOn
<1>6. ASSUME NEW t \in Txn, TakeFree(t) PROVE Settle(j)
  BY <1>6 DEF TakeFree, GoOn, End
<1>7. ASSUME NEW t \in Txn, Opened(t) PROVE Settle(j)
  BY <1>7 DEF Opened
<1>8. ASSUME NEW t \in Txn, InProgress(t) PROVE Settle(j)
  BY <1>8 DEF InProgress, Holding, End
<1>9. ASSUME NEW t \in Txn, Charged(t) PROVE Settle(j)
  BY <1>9 DEF Charged, End
<1>10. ASSUME NEW t \in Txn, NEW i \in Intent, Void(t, i) PROVE Settle(j)
  BY <1>10 DEF Void, GoOn
<1>11. ASSUME NEW t \in Txn, Quit(t) PROVE Settle(j)
  BY <1>11 DEF Quit, End
<1>12. ASSUME Finish PROVE Settle(j)
  BY <1>12 DEF Finish, Holding, RowsAfter, Voided, End
<1>13. ASSUME FinishJob PROVE Settle(j)
  BY <1>13 DEF FinishJob, Holding, RowsAfter, Voided, End
<1>14. ASSUME Charge PROVE Settle(j)
  BY <1>14 DEF Charge, Saved, Begin
<1>15. ASSUME ChargeSaved PROVE Settle(j)
  BY <1>15 DEF ChargeSaved, Saved, Begin
<1>16. ASSUME CancelPaid PROVE Settle(j)
  BY <1>16 DEF CancelPaid, Change, Live, Returned, DepositLeft, DepositAfter
<1>17. ASSUME CompletePaid PROVE Settle(j)
  BY <1>17 DEF CompletePaid, Change, Live
<1>18. ASSUME AutoComplete PROVE Settle(j)
  BY <1>18 DEF AutoComplete, Change, Live
<1>19. ASSUME NoShow PROVE Settle(j)
  BY <1>19 DEF NoShow, Change, Live
<1>20. ASSUME Undo PROVE Settle(j)
  BY <1>20 DEF Undo
<1>21. ASSUME NEW i \in Intent, Claim(i) PROVE Settle(j)
  BY <1>21 DEF Claim, Written
<1>22. ASSUME NEW i \in Intent, See(i) PROVE Settle(j)
  BY <1>22 DEF See
<1>23. ASSUME NEW i \in Intent, Settle(i) PROVE Settle(j)
  BY <1>23 DEF Settle, Late, Returned, DepositLeft, DepositAfter, NotSettling
<1>24. ASSUME NEW i \in Intent, Drop(i) PROVE Settle(j)
  BY <1>24 DEF Drop, NotSettling
<1>25. ASSUME NEW i \in Intent, Refunded(i) PROVE Settle(j)
  BY <1>25 DEF Refunded, DepositAfter
<1>26. ASSUME NEW i \in Intent, Pay(i) PROVE Settle(j)
  BY <1>26 DEF Pay
<1>27. ASSUME NEW i \in Intent, News(i) PROVE Settle(j)
  BY <1>27 DEF News, Written
<1>28. ASSUME Pass PROVE Settle(j)
  BY <1>28 DEF Pass
<1>29. ASSUME NEW t \in Txn, Swipe(t) PROVE Settle(j)
  BY <1>29 DEF Swipe, GoOn
<1>50. CASE UNCHANGED vars
  BY <1>50 DEF vars
<1> HIDE DEF TypeOK, money, desk, Txn
<1> QED
  BY <1>1, <1>2, <1>3, <1>4, <1>5, <1>6, <1>7, <1>8, <1>9, <1>10, <1>11, <1>12, <1>13, <1>14,
     <1>15, <1>16, <1>17, <1>18, <1>19, <1>20, <1>21, <1>22, <1>23, <1>24, <1>25, <1>26, <1>27,
     <1>28, <1>29, <1>50 DEF Next, Step

-----------------------------------------------------------------------------
\* The start.
LEMMA InitInv == Init => IInv
<1> SUFFICES ASSUME Init PROVE IInv
  OBVIOUS
<1> USE DepositsAssumption DEF Init
<1>1. TypeOK
  <2>1. visit \in Visit
    BY DEF Visit
  <2>2. stripe \in [Intent -> {"absent", "open", "paid", "canceled"}]
    OBVIOUS
  <2>3. row \in [Intent -> {"none", "pending", "failed", "canceled", "succeeded"}]
    OBVIOUS
  <2>4. txn \in [Txn -> Work \cup {Idle}] /\ left \in 0 .. Attempts
    OBVIOUS
  <2>5. settle \in [Intent -> [at : {"idle", "paid", "saw"}, saw : Visit \cup {None}]]
    BY DEF NotSettling
  <2> QED
    BY <2>1, <2>2, <2>3, <2>4, <2>5 DEF TypeOK
<1>2. KindsOk /\ HolderFindsDue /\ OpenInHand /\ NothingSettles
  BY DEF KindsOk, HolderFindsDue, OpenInHand, NothingSettles, Txn, Idle
<1>3. CanceledIsClosed /\ PostedIsSeen /\ SettlesPaid /\ SawBehind /\ RowsArePaid /\ CanceledUnseen
  BY DEF CanceledIsClosed, Intent, PostedIsSeen, SettlesPaid, SawBehind, RowsArePaid,
         CanceledUnseen,
         Settling, NotSettling
<1>4. Told(visit)
  BY DEF Told, Visit
<1>5. PaidHasRow /\ OneAlive
  BY DEF PaidHasRow, OneAlive, Alive, Intent
<1>6. Seen
  BY DEF Seen, HeldOf
<1> QED
  BY <1>1, <1>2, <1>3, <1>4, <1>5, <1>6 DEF IInv

\* Every step keeps the invariant.
LEMMA InvStep == IInv /\ [Next]_vars => IInv'
<1> SUFFICES ASSUME IInv, [Next]_vars PROVE IInv'
  OBVIOUS
<1>1. /\ TypeOK /\ CanceledIsClosed /\ KindsOk /\ HolderFindsDue /\ PostedIsSeen
      /\ SettlesPaid /\ Told(visit) /\ SawBehind /\ RowsArePaid /\ PaidHasRow /\ OneAlive
      /\ OpenInHand /\ NothingSettles /\ CanceledUnseen /\ Seen
  BY DEF IInv
<1>2. TypeOK' /\ KindsOk' /\ CanceledIsClosed' /\ HolderFindsDue' /\ PostedIsSeen'
  BY <1>1, TypeStep, ClosedStep, DueStep, SeenStep
<1>3. RowsArePaid' /\ posted \subseteq posted'
  BY <1>1, RowsStep
<1>4. SettlesPaid' /\ Told(visit)' /\ SawBehind'
  BY <1>1, <1>3, SettlesStep, ToldStep, SawStep
<1>5. PaidHasRow' /\ OpenInHand' /\ NothingSettles'
  BY <1>1, HasRowStep, HandStep, NothingStep
<1>6. CanceledUnseen' /\ Seen'
  BY <1>1, <1>3, UnseenStep, MoneyStep
<1>7. OneAlive'
  <2>1. CASE Opened("visit")
    BY <1>1, <2>1, OpenedAlive DEF OneAlive
  <2>2. CASE Alive' \subseteq Alive
    BY <1>1, <2>2 DEF OneAlive
  <2> QED
    BY <1>1, <2>1, <2>2, AliveStep
<1> QED
  BY <1>2, <1>3, <1>4, <1>5, <1>6, <1>7 DEF IInv

LEMMA Inductive == Spec => []IInv
BY InitInv, InvStep, PTL DEF Spec

\* One charge at most, said without counting.
LEMMA SingleIsOnce == Single => Once
<1> SUFFICES ASSUME Single, NEW i \in Charges, NEW j \in Charges, i # j PROVE FALSE
  BY DEF Once
<1>1. IsFiniteSet(Charges)
  BY IntentIsFinite, FS_Subset DEF Charges
<1>2. Cardinality({i, j}) = 2
  <2>1. IsFiniteSet({i}) /\ Cardinality({i}) = 1
    BY FS_Singleton
  <2>2. Cardinality({i} \cup {j}) = 2
    BY <2>1, FS_AddElement
  <2>3. {i} \cup {j} = {i, j}
    OBVIOUS
  <2> QED
    BY <2>2, <2>3
<1>3. Cardinality({i, j}) <= Cardinality(Charges)
  BY <1>1, FS_Subset
<1>4. Cardinality(Charges) \in Nat
  BY <1>1, FS_CardinalityType
<1> QED
  BY <1>2, <1>3, <1>4 DEF Single

-----------------------------------------------------------------------------
\* Every variable of the model keeps to its type.
THEOREM TypeCorrect == Spec => []TypeOK
<1>1. IInv => TypeOK
  BY DEF IInv
<1> QED
  BY <1>1, Inductive, PTL

\* cancel_open_deposits: no row is canceled whose intent can still be paid.
THEOREM ClosedAtStripe == Spec => []CanceledIsClosed
<1>1. IInv => CanceledIsClosed
  BY DEF IInv
<1> QED
  BY <1>1, Inductive, PTL

\* pay_deposit: of the attempts that came from the visit's link one is paid at most.
THEOREM LinkPaysOnceAlways == Spec => []LinkPaysOnce
<1>1. IInv => LinkPaysOnce
  <2> SUFFICES ASSUME IInv, NEW i \in Link, NEW j \in Link, {i, j} \subseteq Charges, i # j
               PROVE  i \in atDesk \/ j \in atDesk
    BY DEF LinkPaysOnce
  <2>1. stripe[i] = "paid" /\ stripe[j] = "paid"
    BY DEF Charges
  <2>2. row[i] # "none" /\ row[j] # "none"
    BY <2>1 DEF IInv, PaidHasRow
  <2>3. ~(i \in Alive /\ j \in Alive)
    BY DEF IInv, OneAlive
  <2> QED
    BY <2>1, <2>2, <2>3 DEF Alive
<1> QED
  BY <1>1, Inductive, PTL

\* settle_deposit, _fail_payment: what the ledger holds shows in deposit_status, whatever settles,
\* is told twice, is declined late over a settled row, refunded, canceled, forfeited or undone, as
\* long as the client was charged once.
THEOREM MoneyFollows == Spec => []MoneyIsSeen
<1>1. IInv => MoneyIsSeen
  BY SingleIsOnce DEF IInv, Seen, Told, MoneyIsSeen
<1> QED
  BY <1>1, Inductive, PTL

\* run_reap_unpaid_bookings and the nightly job: a visit is released only when no attempt that
\* has a row has been paid, although Stripe may not have told yet.
THEOREM ReleaseIsSafe == Spec => ReleasedUnpaid
<1>1. IInv /\ [Next]_vars =>
        [visit.status # "canceled" /\ visit'.status = "canceled" /\ txn["visit"].kind \in Jobs
           => \A i \in Intent : row[i] # "none" => stripe[i] # "paid"]_vars
  <2> SUFFICES ASSUME IInv, [Next]_vars, visit.status # "canceled", visit'.status = "canceled",
                      txn["visit"].kind \in Jobs, NEW i \in Intent, row[i] # "none"
               PROVE  stripe[i] # "paid"
    OBVIOUS
  <2>1. FinishJob
    BY ReleasedBy DEF IInv, Finish, Holding, Closer, Jobs, Idle
  <2>2. Voided("visit") = txn["visit"].rows
    BY <2>1 DEF FinishJob, Cleared
  <2>3. row[i] # "succeeded"
    BY <2>1 DEF FinishJob, Holding, IInv, PostedIsSeen, RowsArePaid, HolderFindsDue, Due, Idle
  <2>4. i \in txn["visit"].rows \/ stripe[i] = "canceled"
    <3>1. i \in Open \/ row[i] = "canceled"
      BY <2>3 DEF Open, IInv, TypeOK
    <3> QED
      BY <2>1, <3>1 DEF IInv, OpenInHand, CanceledIsClosed, FinishJob, Holding
  <2> QED
    BY <2>2, <2>4 DEF Voided
<1> QED
  BY <1>1, Inductive, PTL DEF Spec, ReleasedUnpaid

\* settle_deposit: the only charge, first settled on a visit canceled meanwhile, is asked back.
THEOREM LateGoesBack == Spec => LateIsReturned
<1>1. IInv /\ [Next]_vars =>
        [\A i \in posted' \ posted :
           visit.status = "canceled" /\ Single => back'[i] # "none"]_vars
  <2> SUFFICES ASSUME IInv, [Next]_vars, NEW i \in posted' \ posted, visit.status = "canceled",
                      Single
               PROVE  back'[i] # "none"
    OBVIOUS
  <2>1. Settle(i) /\ i \in Intent
    <3>1. Settle(i)
      BY PostedBy DEF IInv
    <3>2. IInv'
      BY InvStep
    <3> QED
      BY <3>1, <3>2 DEF IInv, TypeOK
  <2>2. Once /\ stripe[i] = "paid"
    BY <2>1, SingleIsOnce DEF Settle, IInv, SettlesPaid, Settling
  <2>3. posted = {}
    BY <2>1, <2>2 DEF IInv, TypeOK, RowsArePaid, Once, Charges
  <2>4. \A j \in Intent : back[j] = "none"
    BY <2>3 DEF IInv, RowsArePaid
  <2>5. Late(settle[i].saw)
    BY <2>1, <2>3 DEF Settle, IInv, CanceledUnseen
  <2>6. row'[i] = "succeeded" /\ \E how \in {"pending", "done"} : back' = Returned(row', back, how)
    BY <2>1, <2>5 DEF Settle, Late, IInv, TypeOK
  <2> QED
    BY <2>1, <2>4, <2>6 DEF Returned
<1> QED
  BY <1>1, Inductive, PTL DEF Spec, LateIsReturned
=============================================================================
