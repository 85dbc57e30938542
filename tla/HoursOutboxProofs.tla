--------------------------- MODULE HoursOutboxProofs ---------------------------
(***************************************************************************)
(* Proofs about the offline working week, for any devices, tabs, days and  *)
(* operations: first what deleting rows leaves (counting up a finite       *)
(* interval), then an invariant every step keeps, one lemma per action,    *)
(* then what it says of outcomes, revisions and what stays on screen; and  *)
(* a second one, of whose days each week carries, kept the same way.       *)
(***************************************************************************)
EXTENDS HoursOutbox, FiniteSetTheorems, SequenceTheorems, WellFoundedInduction, TLAPS

USE HoursAssumption, NoneAssumption

------------------------------------------------------------------------------
(***************************************************************************)
(* Deleting rows.                                                          *)
(***************************************************************************)
\* A set that holds 0, and n + 1 with each n below N, holds every number up to N.
LEMMA CountUp ==
    ASSUME NEW N \in Nat, NEW C, 0 \in C, \A n \in 0..(N - 1) : n \in C => n + 1 \in C
    PROVE  \A n \in 0..N : n \in C
<1> DEFINE Bad == (0..N) \ C
           Sets == {1..n : n \in Bad}
           R == StrictSubsetOrdering(1..N)
<1> SUFFICES ASSUME Bad # {} PROVE FALSE
    OBVIOUS
<1>1. IsWellFoundedOn(R, SUBSET (1..N))
  <2>1. IsFiniteSet(1..N)
        BY FS_Interval
  <2>2. FiniteSubsetsOf(1..N) = SUBSET (1..N)
        BY <2>1, FS_FiniteSubsetsOfFinite
  <2>3. IsWellFoundedOn(StrictSubsetOrdering(1..N), FiniteSubsetsOf(1..N))
        BY FS_StrictSubsetOrderingWellFounded
  <2> QED  BY <2>2, <2>3
<1>2. Sets \subseteq SUBSET (1..N) /\ Sets # {}
      OBVIOUS
<1>3. \E T \in Sets : \A U \in Sets : <<U, T>> \notin R
  <2> HIDE DEF Sets, R
  <2> QED  BY <1>1, <1>2, WFMin
<1>4. PICK n \in Bad : \A m \in Bad : <<1..m, 1..n>> \notin R
      BY <1>3
<1>5. n # 0 /\ n - 1 \in Bad
      OBVIOUS
<1>6. <<1..(n - 1), 1..n>> \in R
      BY <1>5 DEF StrictSubsetOrdering
<1> QED  BY <1>4, <1>5, <1>6

\* What is left of the first n rows of s.
Left(s, gone, f, n) ==
    IF n = 0 THEN <<>>
    ELSE IF s[n] \in gone THEN f[n - 1]
    ELSE Append(f[n - 1], s[n])
IsLeft(s, gone, N, f) == f = [n \in 0..N |-> Left(s, gone, f, n)]

LEMMA LeftExists ==
    ASSUME NEW s, NEW gone, NEW N \in Nat
    PROVE  \E f : IsLeft(s, gone, N, f)
<1> DEFINE C == {n \in 0..N : \E f : IsLeft(s, gone, n, f)}
<1>1. 0 \in C
  <2>1. IsLeft(s, gone, 0, [n \in 0..0 |-> <<>>])
        BY DEF IsLeft, Left
  <2> QED  BY <2>1
<1>2. ASSUME NEW n \in 0..(N - 1), n \in C PROVE n + 1 \in C
  <2>1. PICK f : IsLeft(s, gone, n, f)
        BY <1>2
  <2> DEFINE g == [m \in 0..(n + 1) |-> Left(s, gone, f, m)]
  <2>2. \A m \in 0..n : g[m] = f[m]
        BY <2>1 DEF IsLeft
  <2>3. \A m \in 0..(n + 1) : m # 0 => f[m - 1] = g[m - 1]
        BY <2>2
  <2> HIDE DEF g
  <2>4. \A m \in 0..(n + 1) : Left(s, gone, f, m) = Left(s, gone, g, m)
        BY <2>3 DEF Left
  <2>5. IsLeft(s, gone, n + 1, g)
        BY <2>4 DEF IsLeft, g
  <2> QED  BY <2>5
<1>3. N \in C
  <2> HIDE DEF C
  <2>1. \A n \in 0..N : n \in C
        BY <1>1, <1>2, CountUp
  <2> QED  BY <2>1
<1> QED  BY <1>3

\* No operation is twice in an outbox.
Distinct(s) == \A i, j \in DOMAIN s : s[i].op = s[j].op => i = j

\* Rows of u that follow each other do so among the first n of s.
InOrder(u, s, n) ==
    \A i, j \in DOMAIN u : i < j => \E k, l \in 1..n : k < l /\ u[i] = s[k] /\ u[j] = s[l]

LEMMA WithoutKeeps ==
    ASSUME NEW S, NEW s \in Seq(S), NEW gone
    PROVE  /\ Without(s, gone) \in Seq(S)
           /\ ToSet(Without(s, gone)) = ToSet(s) \ gone
           /\ Distinct(s) => Distinct(Without(s, gone))
           /\ InOrder(Without(s, gone), s, Len(s))
<1> DEFINE f == CHOOSE g : IsLeft(s, gone, Len(s), g)
           Good(n) == /\ f[n] \in Seq(S)
                      /\ ToSet(f[n]) = {s[i] : i \in 1..n} \ gone
                      /\ Distinct(s) => Distinct(f[n])
                      /\ InOrder(f[n], s, n)
           C == {n \in 0..Len(s) : Good(n)}
<1>1. IsLeft(s, gone, Len(s), f) /\ Len(s) \in Nat
      BY LeftExists, LenProperties
<1>2. Without(s, gone) = f[Len(s)]
      BY DEF Without, IsLeft, Left
<1> HIDE DEF f
<1>3. 0 \in C
  <2>1. f[0] = <<>>
        BY <1>1 DEF IsLeft, Left
  <2>2. <<>> \in Seq(S) /\ ToSet(<<>>) = {} /\ Distinct(<<>>) /\ InOrder(<<>>, s, 0)
        BY DEF ToSet, Distinct, InOrder
  <2>3. {s[i] : i \in 1..0} = {}
        OBVIOUS
  <2>4. f[0] \in Seq(S) /\ ToSet(f[0]) = {} /\ Distinct(f[0]) /\ InOrder(f[0], s, 0)
        BY <2>1, <2>2
  <2>5. 0 \in 0..Len(s)
        BY <1>1
  <2> QED  BY <2>3, <2>4, <2>5
<1>4. ASSUME NEW n \in 0..(Len(s) - 1), n \in C PROVE n + 1 \in C
  <2>1. n + 1 \in 1..Len(s) /\ s[n + 1] \in S /\ n \in Nat
        BY <1>1, ElementOfSeq
  <2>2. f[n + 1] = IF s[n + 1] \in gone THEN f[n] ELSE Append(f[n], s[n + 1])
    <3>1. f[n + 1] = Left(s, gone, f, n + 1)
          BY <1>1, <2>1 DEF IsLeft
    <3>2. n + 1 # 0 /\ (n + 1) - 1 = n
          BY <2>1
    <3> QED  BY <3>1, <3>2 DEF Left
  <2>3. 1..(n + 1) = (1..n) \cup {n + 1}
        BY <2>1
  <2>4. CASE s[n + 1] \in gone
    <3>1. InOrder(f[n], s, n + 1)
          BY <1>4, <2>3 DEF InOrder
    <3> QED  BY <1>4, <2>1, <2>2, <2>3, <2>4, <3>1
  <2>5. CASE s[n + 1] \notin gone
    <3> DEFINE x == s[n + 1]
               k == Len(f[n])
    <3>1. f[n] \in Seq(S) /\ k \in Nat /\ DOMAIN f[n] = 1..k
          BY <1>4, LenProperties
    <3>2. /\ f[n + 1] \in Seq(S)
          /\ Len(f[n + 1]) = k + 1 /\ DOMAIN f[n + 1] = 1..(k + 1)
          /\ \A i \in 1..k : f[n + 1][i] = f[n][i]
          /\ f[n + 1][k + 1] = x
          BY <2>1, <2>2, <2>5, <3>1, AppendProperties, LenProperties
    <3>3. ToSet(f[n + 1]) = ToSet(f[n]) \cup {x}
      <4>1. 1..(k + 1) = (1..k) \cup {k + 1}
            BY <3>1
      <4>2. ToSet(f[n + 1]) = {f[n + 1][i] : i \in 1..k} \cup {x}
        <5>1. ToSet(f[n + 1]) = {f[n + 1][i] : i \in (1..k) \cup {k + 1}}
              BY <3>2, <4>1 DEF ToSet
        <5> QED  BY <3>2, <5>1
      <4>3. {f[n + 1][i] : i \in 1..k} = {f[n][i] : i \in 1..k}
            BY <3>2
      <4>4. ToSet(f[n]) = {f[n][i] : i \in 1..k}
            BY <3>1 DEF ToSet
      <4> QED  BY <4>2, <4>3, <4>4
    <3>4. ToSet(f[n + 1]) = {s[i] : i \in 1..(n + 1)} \ gone
          BY <1>4, <2>3, <2>5, <3>3
    <3>5. ASSUME Distinct(s) PROVE Distinct(f[n + 1])
      <4>1. \A i \in 1..k : f[n][i].op # x.op
        <5>1. \A i \in 1..k : f[n][i] \in {s[j] : j \in 1..n}
              BY <1>4, <3>1 DEF ToSet
        <5>2. \A j \in 1..n : s[j].op # x.op
              BY <1>1, <2>1, <3>5, LenProperties DEF Distinct
        <5> QED  BY <5>1, <5>2
      <4>2. \A i, j \in 1..k : f[n][i].op = f[n][j].op => i = j
            BY <1>4, <3>1, <3>5 DEF Distinct
      <4>3. \A i \in 1..(k + 1) : i \in 1..k \/ i = k + 1
            BY <3>1
      <4>4. \A i, j \in 1..(k + 1) : f[n + 1][i].op = f[n + 1][j].op => i = j
            BY <3>2, <4>1, <4>2, <4>3
      <4> QED  BY <3>2, <4>4 DEF Distinct
    <3>6. InOrder(f[n + 1], s, n + 1)
      <4> SUFFICES ASSUME NEW i \in DOMAIN f[n + 1], NEW j \in DOMAIN f[n + 1], i < j
                   PROVE  \E h, l \in 1..(n + 1) : h < l /\ f[n + 1][i] = s[h] /\ f[n + 1][j] = s[l]
          BY DEF InOrder
      <4>1. i \in 1..k /\ (j \in 1..k \/ j = k + 1) /\ f[n + 1][i] = f[n][i]
            BY <3>1, <3>2
      <4>2. CASE j \in 1..k
        <5>1. InOrder(f[n], s, n) /\ i \in DOMAIN f[n] /\ j \in DOMAIN f[n]
              BY <1>4, <3>1, <4>1, <4>2
        <5>2. PICK h, l \in 1..n : h < l /\ f[n][i] = s[h] /\ f[n][j] = s[l]
              BY <5>1 DEF InOrder
        <5>3. f[n + 1][j] = f[n][j] /\ h \in 1..(n + 1) /\ l \in 1..(n + 1)
              BY <2>3, <3>2, <4>2
        <5> QED  BY <4>1, <5>2, <5>3
      <4>3. CASE j = k + 1
        <5>1. f[n][i] \in {s[h] : h \in 1..n}
              BY <1>4, <3>1, <4>1 DEF ToSet
        <5>2. PICK h \in 1..n : f[n + 1][i] = s[h]
              BY <4>1, <5>1
        <5>3. f[n + 1][j] = s[n + 1] /\ h < n + 1 /\ h \in 1..(n + 1)
              BY <2>1, <3>2, <4>3
        <5> QED  BY <2>1, <5>2, <5>3
      <4> QED  BY <4>1, <4>2, <4>3
    <3> QED  BY <2>1, <3>2, <3>4, <3>5, <3>6
  <2> QED  BY <2>4, <2>5
<1>5. Len(s) \in C
  <2> HIDE DEF C
  <2>1. \A n \in 0..Len(s) : n \in C
        BY <1>1, <1>3, <1>4, CountUp
  <2> QED  BY <1>1, <2>1
<1>6. ToSet(s) = {s[i] : i \in 1..Len(s)}
      BY LenProperties DEF ToSet
<1> QED  BY <1>2, <1>5, <1>6

------------------------------------------------------------------------------
(***************************************************************************)
(* The invariant.                                                          *)
(***************************************************************************)
State == {"queued", "sending", "accepted", "rejected"}

\* Revisions are numbers here: what bounds them is not needed.
Row == [op : Op, expected : Int, days : Week, base : Week, state : State,
        predecessor : Op \cup {None}, result : Int, tried : BOOLEAN]
OpenWeek == [open : {TRUE}, days : Week, revision : Int, id : Op \cup {None},
             payload : {<<>>} \cup (Int \X Week), base : Week,
             rebased : Op \cup {None}, mine : SUBSET Day]

Types ==
    /\ revision \in Nat
    /\ week \in Week
    /\ DOMAIN receipt = Op /\ receipt = [o \in Op |-> receipt[o]]
    /\ outbox \in [Device -> Seq(Row)]
    /\ replica \in [Device -> [revision : Nat, week : Week]]
    /\ editor \in [Tab -> {Closed} \cup OpenWeek]
    /\ waiting \in [Tab -> Op \cup {None}]
    /\ net \subseteq [op : Op, expected : Int, days : Week]
    /\ reply \subseteq [op : Op, ok : BOOLEAN, revision : Int]
    /\ meant \in [Op -> SUBSET Day]

Sent(r) == [op |-> r.op, expected |-> r.expected, days |-> r.days]

\* A row that was tried stands for the one request its operation ever makes, and what it says
\* became of it is true.  One that names a revision rather than a predecessor names an old one.
RowOK(r) ==
    /\ meant[r.op] # {}
    /\ r.tried => Sent(r) \in net
    /\ ~r.tried => r.state = "queued" /\ \A q \in net : q.op # r.op
    /\ r.state = "accepted" => Applied(r.op) /\ r.result = receipt[r.op].expected + 1
    /\ r.state = "rejected" /\ r.op \notin resumed => ~Applied(r.op) /\ r.expected < revision
    /\ r.op \notin resumed /\ ~r.tried /\ r.predecessor = None => r.expected <= revision

RowsInv == \A d \in Device : \A r \in Rows(d) : RowOK(r)

ApartInv ==
    /\ \A d \in Device : Distinct(outbox[d])
    /\ \A d, e \in Device : d # e => \A r \in Rows(d), s \in Rows(e) : r.op # s.op

\* Each operation makes one request, of a revision the server has or had.
NetInv ==
    /\ \A q \in net : meant[q.op] # {} /\ (q.op \notin resumed => q.expected <= revision)
    /\ \A p, q \in net : p.op = q.op => p = q

\* A receipt is of that request, and of a revision that is past.
ReceiptInv ==
    \A o \in Op : Applied(o) =>
        /\ receipt[o].expected \in Nat /\ receipt[o].expected < revision
        /\ \E q \in net : q.op = o /\ receipt[o] = [expected |-> q.expected, days |-> q.days]

\* A refused request can never be applied later, for the server has passed its revision.
ReplyOK(a) ==
    /\ a.ok => Applied(a.op) /\ a.revision = receipt[a.op].expected + 1
    /\ \E q \in net : q.op = a.op
    /\ ~a.ok /\ a.op \notin resumed =>
          ~Applied(a.op) /\ \A q \in net : q.op = a.op => q.expected < revision

ReplyInv == \A a \in reply : ReplyOK(a)

\* What is synced, and what an editor that opened on it names, is not ahead of the server.
SyncedInv ==
    /\ \A d \in Device : replica[d].revision <= revision
    /\ \A t \in Tab : editor[t].open /\ editor[t].id = None => editor[t].revision <= revision

Inv == Types /\ RowsInv /\ ApartInv /\ NetInv /\ ReceiptInv /\ ReplyInv /\ SyncedInv /\ OncePerWeek

LEMMA RowsType ==
    ASSUME Types, NEW d \in Device
    PROVE  /\ outbox[d] \in Seq(Row) /\ Len(outbox[d]) \in Nat /\ DOMAIN outbox[d] = 1..Len(outbox[d])
           /\ \A i \in DOMAIN outbox[d] : outbox[d][i] \in Row /\ outbox[d][i] \in Rows(d)
           /\ \A r \in Rows(d) : r \in Row /\ \E i \in DOMAIN outbox[d] : outbox[d][i] = r
           /\ outbox[d] # <<>> => Latest(d) \in Row /\ Latest(d) \in Rows(d)
                                  /\ Len(outbox[d]) \in DOMAIN outbox[d]
<1>1. outbox[d] \in Seq(Row)
      BY DEF Types
<1>2. Len(outbox[d]) \in Nat /\ DOMAIN outbox[d] = 1..Len(outbox[d])
      BY <1>1, LenProperties
<1>3. \A i \in DOMAIN outbox[d] : outbox[d][i] \in Row /\ outbox[d][i] \in Rows(d)
      BY <1>1, <1>2, ElementOfSeq DEF Rows, ToSet
<1>4. \A r \in Rows(d) : r \in Row /\ \E i \in DOMAIN outbox[d] : outbox[d][i] = r
      BY <1>3 DEF Rows, ToSet
<1>5. outbox[d] # <<>> => Len(outbox[d]) \in DOMAIN outbox[d]
      BY <1>1, <1>2, EmptySeq
<1> QED  BY <1>1, <1>2, <1>3, <1>4, <1>5 DEF Latest

LEMMA EditorType ==
    ASSUME Types, NEW t \in Tab, editor[t].open
    PROVE  editor[t] \in OpenWeek
<1>1. editor[t] = Closed \/ editor[t] \in OpenWeek
      BY DEF Types
<1>2. Closed.open = FALSE
      BY DEF Closed
<1> QED  BY <1>1, <1>2

\* "Apply changes" under way: its editor is open and something is sent, and the revision it read
\* is one the server has or had.
ApplyOK(p, e) ==
    /\ p.editor.open /\ e.open
    /\ p.editor.mine \cup p.edits # {}
    /\ p.revision <= revision
RepairsInv ==
    /\ repair \in [Tab -> [editor : {Closed} \cup OpenWeek, edits : SUBSET Day, revision : Int]]
    /\ \A t \in Tab : repair[t] # NoRepair => ApplyOK(repair[t], editor[t])

LEMMA RepairOpen ==
    ASSUME Types, RepairsInv, NEW t \in Tab, repair[t] # NoRepair
    PROVE  /\ editor[t].open /\ editor[t] \in OpenWeek /\ repair[t].editor \in OpenWeek
           /\ repair[t].edits \in SUBSET Day /\ repair[t].editor.mine \cup repair[t].edits # {}
           /\ repair[t].revision \in Int /\ repair[t].revision <= revision
<1>1. ApplyOK(repair[t], editor[t])
      BY DEF RepairsInv
<1>2. repair[t].editor = Closed \/ repair[t].editor \in OpenWeek
      BY DEF RepairsInv
<1>3. Closed.open = FALSE
      BY DEF Closed
<1>4. repair[t].edits \in SUBSET Day /\ repair[t].revision \in Int
      BY DEF RepairsInv
<1> QED  BY <1>1, <1>2, <1>3, <1>4, EditorType DEF ApplyOK

LEMMA RepairRead ==
    ASSUME NEW t \in Tab, Repair(t)
    PROVE  repair[t] # NoRepair
<1>1. NoRepair.revision = Unread
      BY DEF NoRepair
<1> QED  BY <1>1 DEF Repair

LEMMA SameOpSameRow ==
    ASSUME Inv, NEW d \in Device, NEW r \in Rows(d), NEW s \in Rows(d), r.op = s.op
    PROVE  r = s
BY RowsType DEF Inv, ApartInv, Distinct

LEMMA InitInv == Init => Inv
<1> SUFFICES ASSUME Init PROVE Inv
    OBVIOUS
<1>1. \A d \in Device : outbox[d] = <<>> /\ Rows(d) = {} /\ Distinct(outbox[d])
      BY DEF Init, Rows, ToSet, Distinct
<1>2. Empty \in Week
      BY DEF Empty, Week
<1>3. Types
      BY <1>2 DEF Init, Types
<1>4. \A o \in Op : ~Applied(o)
      BY DEF Init, Applied
<1>5. OncePerWeek
  <2>1. {o \in Op : Applied(o)} = {}
        BY <1>4
  <2>2. Cardinality({}) = 0
        BY FS_EmptySet
  <2>3. revision = 0
        BY DEF Init
  <2> QED  BY <1>4, <2>1, <2>2, <2>3 DEF OncePerWeek
<1>6. RowsInv /\ ApartInv /\ NetInv /\ ReceiptInv /\ ReplyInv
      BY <1>1, <1>4 DEF Init, RowsInv, ApartInv, NetInv, ReceiptInv, ReplyInv
<1>7. SyncedInv
      BY DEF Init, SyncedInv, Closed
<1> QED  BY <1>3, <1>5, <1>6, <1>7 DEF Inv

------------------------------------------------------------------------------
(***************************************************************************)
(* The server.                                                             *)
(***************************************************************************)
LEMMA ReplaceKeeps ==
    ASSUME Inv, NEW q \in net, Replace(q)
    PROVE  Inv'
<1> USE DEF Inv
<1>1. UNCHANGED <<outbox, replica, editor, waiting, net, meant, repairs, resumed>>
      BY DEF Replace
<1>2. q \in [op : Op, expected : Int, days : Week] /\ q.op \in Op /\ revision \in Nat
      BY DEF Types
<1>3. \A p \in net : p.op = q.op => p = q
      BY DEF NetInv
\* An answer that changes nothing on the server.
<1>4. ASSUME UNCHANGED server, NEW good \in BOOLEAN, NEW r \in Int, Answer(q, good, r),
             ReplyOK([op |-> q.op, ok |-> good, revision |-> r])
      PROVE  Inv'
  <2>1. UNCHANGED <<revision, week, receipt>>
        BY <1>4 DEF server
  <2>2. reply' = reply \cup {[op |-> q.op, ok |-> good, revision |-> r]}
        BY <1>4 DEF Answer
  <2>3. Types'
        BY <1>1, <1>2, <1>4, <2>1, <2>2 DEF Types
  <2>4. RowsInv' /\ ApartInv' /\ NetInv' /\ ReceiptInv' /\ SyncedInv' /\ OncePerWeek'
        BY <1>1, <2>1 DEF RowsInv, RowOK, ApartInv, NetInv, ReceiptInv, SyncedInv, OncePerWeek, Applied, Rows
  <2>5. \A a : ReplyOK(a) => ReplyOK(a)'
        BY <1>1, <2>1 DEF ReplyOK, Applied
  <2>6. ReplyInv'
        BY <1>4, <2>2, <2>5 DEF ReplyInv
  <2> QED  BY <2>3, <2>4, <2>6
<1>5. CASE Applied(q.op)
  <2>1. receipt[q.op] = [expected |-> q.expected, days |-> q.days] /\ receipt[q.op].expected \in Nat
        BY <1>2, <1>3, <1>5 DEF ReceiptInv
  <2>2. PICK r \in Int : r = receipt[q.op].expected + 1
        BY <2>1
  <2>3. Answer(q, TRUE, r) /\ UNCHANGED server
        BY <1>5, <2>1, <2>2 DEF Replace
  <2>4. ReplyOK([op |-> q.op, ok |-> TRUE, revision |-> r])
        BY <1>5, <2>2 DEF ReplyOK
  <2> QED  BY <1>4, <2>3, <2>4
<1>6. CASE ~Applied(q.op) /\ revision # q.expected
  <2>1. Answer(q, FALSE, 0) /\ UNCHANGED server
        BY <1>6 DEF Replace
  <2>2. q.op \notin resumed => q.expected < revision
        BY <1>2, <1>6 DEF NetInv
  <2>3. ReplyOK([op |-> q.op, ok |-> FALSE, revision |-> 0])
        BY <1>3, <1>6, <2>2 DEF ReplyOK
  <2>4. FALSE \in BOOLEAN /\ 0 \in Int
        OBVIOUS
  <2> QED  BY <1>4, <2>1, <2>3, <2>4
<1>7. CASE ~Applied(q.op) /\ revision = q.expected
  <2>1. /\ receipt' = [receipt EXCEPT ![q.op] = [expected |-> q.expected, days |-> q.days]]
        /\ week' = q.days /\ revision' = revision + 1
        /\ reply' = reply \cup {[op |-> q.op, ok |-> TRUE, revision |-> revision + 1]}
        BY <1>7 DEF Replace, Apply, Answer
  <2>2. /\ receipt'[q.op] = [expected |-> q.expected, days |-> q.days]
        /\ \A o \in Op : o # q.op => receipt'[o] = receipt[o]
        BY <1>2, <2>1 DEF Types
  <2>3. /\ Applied(q.op)'
        /\ \A o \in Op : o # q.op => (Applied(o)' <=> Applied(o))
    <3>1. [expected |-> q.expected, days |-> q.days] # NoReceipt
      <4>1. q.expected # -1
            BY <1>2, <1>7
      <4>2. NoReceipt.expected = -1 /\ [expected |-> q.expected, days |-> q.days].expected = q.expected
            BY DEF NoReceipt
      <4> QED  BY <4>1, <4>2
    <3> QED  BY <2>2, <3>1 DEF Applied, NoReceipt, Empty
  <2>4. Types'
    <3>1. revision' \in Nat /\ week' \in Week
          BY <1>2, <2>1
    <3>2. DOMAIN receipt' = Op /\ receipt' = [o \in Op |-> receipt'[o]]
          BY <1>2, <2>1 DEF Types
    <3>3. reply' \subseteq [op : Op, ok : BOOLEAN, revision : Int]
      <4>1. [op |-> q.op, ok |-> TRUE, revision |-> revision + 1] \in [op : Op, ok : BOOLEAN, revision : Int]
            BY <1>2
      <4>2. reply' = reply \cup {[op |-> q.op, ok |-> TRUE, revision |-> revision + 1]}
            BY <2>1
      <4> QED  BY <4>1, <4>2 DEF Types
    <3> QED  BY <1>1, <3>1, <3>2, <3>3 DEF Types
  <2>5. OncePerWeek'
    <3> DEFINE A == {o \in Op : Applied(o)}
    <3>1. {o \in Op : Applied(o)}' = A \cup {q.op} /\ q.op \notin A
          BY <1>2, <1>7, <2>3
    <3>2. IsFiniteSet(A)
          BY FS_Subset
    <3>3. Cardinality(A \cup {q.op}) = Cardinality(A) + 1
          BY <3>1, <3>2, FS_AddElement
    <3>4. revision' = Cardinality({o \in Op : Applied(o)})'
          BY <2>1, <3>1, <3>3 DEF OncePerWeek
    <3>5. \A o \in Op : Applied(o) => receipt[o].expected # q.expected
          BY <1>2, <1>7 DEF ReceiptInv
    <3>6. \A o, p \in Op : Applied(o)' /\ Applied(p)' /\ receipt'[o].expected = receipt'[p].expected => o = p
      <4> SUFFICES ASSUME NEW o \in Op, NEW p \in Op, Applied(o)', Applied(p)',
                          receipt'[o].expected = receipt'[p].expected
                   PROVE  o = p
          OBVIOUS
      <4>1. receipt'[q.op].expected = q.expected
            BY <2>2
      <4>2. CASE o # q.op /\ p # q.op
            BY <4>2, <2>2, <2>3 DEF OncePerWeek
      <4>3. CASE o = q.op /\ p # q.op
            BY <4>1, <4>3, <2>2, <2>3, <3>5
      <4>4. CASE o # q.op /\ p = q.op
            BY <4>1, <4>4, <2>2, <2>3, <3>5
      <4> QED  BY <4>2, <4>3, <4>4
    <3> QED  BY <3>4, <3>6 DEF OncePerWeek
  <2>6. RowsInv'
    <3> SUFFICES ASSUME NEW d \in Device, NEW r \in Rows(d) PROVE RowOK(r)'
        BY <1>1 DEF RowsInv, Rows
    <3>1. RowOK(r) /\ r \in Row /\ r.op \in Op
          BY RowsType DEF RowsInv, Row
    <3>2. r.state = "accepted" => r.op # q.op
          BY <1>7, <3>1 DEF RowOK
    <3>3. r.state = "rejected" /\ r.op \notin resumed => r.op # q.op
      <4>1. CASE r.tried
        <5>1. r.op = q.op => Sent(r) = q
              BY <1>3, <3>1, <4>1 DEF RowOK, Sent
        <5>2. r.state = "rejected" /\ r.op \notin resumed => r.expected < revision
              BY <3>1 DEF RowOK
        <5> QED  BY <1>2, <1>7, <3>1, <5>1, <5>2 DEF Sent, Row
      <4>2. CASE ~r.tried
            BY <3>1, <4>2 DEF RowOK
      <4> QED  BY <4>1, <4>2
    <3>4. r.expected \in Int
          BY <3>1 DEF Row
    <3> QED  BY <1>1, <1>2, <2>1, <2>2, <2>3, <3>1, <3>2, <3>3, <3>4 DEF RowOK
  <2>7. ApartInv'
        BY <1>1 DEF ApartInv, Rows
  <2>8. NetInv'
    <3>1. \A p \in net : p.expected \in Int
          BY DEF Types
    <3> QED  BY <1>1, <1>2, <2>1, <3>1 DEF NetInv
  <2>9. ReceiptInv'
        BY <1>1, <1>2, <1>7, <2>1, <2>2, <2>3 DEF ReceiptInv
  <2>10. ReplyInv'
    <3>1. ASSUME NEW a \in reply PROVE ReplyOK(a)'
      <4>1. ReplyOK(a) /\ a.op \in Op /\ \A p \in net : p.expected \in Int
            BY <3>1 DEF ReplyInv, Types
      <4>2. a.ok => a.op # q.op
            BY <1>7, <4>1 DEF ReplyOK
      <4>3. ~a.ok /\ a.op \notin resumed => a.op # q.op
            BY <1>2, <1>7, <4>1 DEF ReplyOK
      <4> QED  BY <1>1, <1>2, <2>1, <2>2, <2>3, <4>1, <4>2, <4>3 DEF ReplyOK
    <3>2. PICK r \in Int : r = revision + 1
          BY <1>2
    <3>3. ReplyOK([op |-> q.op, ok |-> TRUE, revision |-> r])'
          BY <1>1, <1>2, <1>7, <2>2, <2>3, <3>2 DEF ReplyOK
    <3> QED  BY <2>1, <3>1, <3>2, <3>3 DEF ReplyInv
  <2>11. SyncedInv'
    <3>1. \A d \in Device : replica[d].revision \in Nat
          BY DEF Types
    <3>2. \A t \in Tab : editor[t].open => editor[t].revision \in Int
          BY EditorType DEF OpenWeek
    <3> QED  BY <1>1, <1>2, <2>1, <3>1, <3>2 DEF SyncedInv
  <2> QED  BY <2>4, <2>5, <2>6, <2>7, <2>8, <2>9, <2>10, <2>11
<1> QED  BY <1>5, <1>6, <1>7

------------------------------------------------------------------------------
(***************************************************************************)
(* The editor, and what a step of a tab may do to an outbox.               *)
(***************************************************************************)
\* No step takes back that a tab awaits an operation or that its editor knows its revision.
Tabs ==
    /\ editor' \in [Tab -> {Closed} \cup OpenWeek]
    /\ waiting' \in [Tab -> Op \cup {None}]
    /\ \A t \in Tab : editor'[t].open /\ editor'[t].id = None => editor'[t].revision <= revision

LEMMA EditorKeeps ==
    ASSUME Inv, UNCHANGED <<revision, week, receipt, outbox, net, reply, meant, resumed>>, Tabs,
           replica' \in [Device -> [revision : Nat, week : Week]],
           \A d \in Device : replica'[d].revision <= revision
    PROVE  Inv'
<1> USE DEF Inv
<1>1. Types' /\ SyncedInv'
      BY DEF Types, SyncedInv, Tabs
<1>2. \A d \in Device : Rows(d)' = Rows(d)
      BY DEF Rows
<1>3. \A r : RowOK(r)' <=> RowOK(r)
      BY DEF RowOK, Applied
<1>4. \A a : ReplyOK(a)' <=> ReplyOK(a)
      BY DEF ReplyOK, Applied
<1>5. RowsInv' /\ ReplyInv'
      BY <1>2, <1>3, <1>4 DEF RowsInv, ReplyInv
<1>6. ApartInv' /\ NetInv'
      BY <1>2 DEF ApartInv, NetInv
<1>7. ReceiptInv'
      BY DEF ReceiptInv, Applied
<1>8. OncePerWeek'
      BY DEF OncePerWeek, Applied
<1> QED  BY <1>1, <1>5, <1>6, <1>7, <1>8

\* A step that leaves the editors leaves what they know.
LEMMA TabsStay ==
    ASSUME Inv, editor' = editor, waiting' \in [Tab -> Op \cup {None}]
    PROVE  Tabs
BY DEF Inv, Types, SyncedInv, Tabs

\* Nor does one that sets the editor of one tab.
LEMMA TabsSet ==
    ASSUME Inv, NEW t \in Tab, NEW w \in {Closed} \cup OpenWeek,
           w.open /\ w.id = None => w.revision <= revision,
           editor' = [editor EXCEPT ![t] = w], waiting' \in [Tab -> Op \cup {None}]
    PROVE  Tabs
<1>1. editor \in [Tab -> {Closed} \cup OpenWeek]
      BY DEF Inv, Types
<1>2. editor' \in [Tab -> {Closed} \cup OpenWeek]
      BY <1>1
<1>3. editor'[t] = w /\ \A u \in Tab : u # t => editor'[u] = editor[u]
      BY <1>1
<1>4. \A u \in Tab : editor[u].open /\ editor[u].id = None => editor[u].revision <= revision
      BY DEF Inv, SyncedInv
<1>5. ASSUME NEW u \in Tab, editor'[u].open, editor'[u].id = None PROVE editor'[u].revision <= revision
  <2>1. CASE u = t
        BY <1>3, <1>5, <2>1
  <2>2. CASE u # t
        BY <1>3, <1>4, <1>5, <2>2
  <2> QED  BY <2>1, <2>2
<1> QED  BY <1>2, <1>5 DEF Tabs

LEMMA OpenEditorKeeps ==
    ASSUME Inv, NEW t \in Tab, OpenEditor(t)
    PROVE  Inv'
<1> USE DEF Inv
<1> DEFINE d == Home[t]
<1>1. d \in Device /\ outbox[d] # <<>> => Latest(d) \in Row
      BY RowsType
<1>2. replica[d] \in [revision : Nat, week : Week] /\ replica[d].revision <= revision
      BY DEF Types, SyncedInv
<1>3. CASE AwaitsServer(d)
  <2> DEFINE w == [open |-> TRUE, days |-> Latest(d).days, revision |-> Latest(d).expected + 1,
                   id |-> Latest(d).op, payload |-> <<Latest(d).expected, Latest(d).days>>,
                   base |-> Latest(d).base, rebased |-> None, mine |-> meant[Latest(d).op]]
  <2>1. Latest(d) \in Row
        BY <1>1, <1>3 DEF AwaitsServer
  <2>2. /\ Latest(d).op \in Op /\ Latest(d).days \in Week /\ Latest(d).base \in Week
        /\ Latest(d).expected \in Int /\ Latest(d).expected + 1 \in Int
        /\ meant[Latest(d).op] \in SUBSET Day
        BY <2>1 DEF Row, Types
  <2>3. w \in OpenWeek /\ w.id # None
        BY <2>2 DEF OpenWeek
  <2>4. editor' = [editor EXCEPT ![t] = w]
        BY <1>3 DEF OpenEditor
  <2> HIDE DEF w
  <2>5. Tabs
        BY <2>3, <2>4, TabsSet DEF OpenEditor, Types
  <2> QED  BY <2>5, EditorKeeps DEF OpenEditor, server, Types, SyncedInv
<1>4. CASE ~AwaitsServer(d)
  <2> DEFINE empty == outbox[d] = <<>>
             w == [open |-> TRUE, days |-> replica[d].week, revision |-> replica[d].revision,
                   id |-> IF empty THEN None ELSE Latest(d).op,
                   payload |-> IF empty THEN <<>> ELSE <<Latest(d).expected, Latest(d).days>>,
                   base |-> replica[d].week, rebased |-> None, mine |-> {}]
  <2>1. ~empty => /\ Latest(d).op \in Op /\ Latest(d).days \in Week /\ Latest(d).expected \in Int
        BY <1>1 DEF Row
  <2>2. w \in OpenWeek /\ w.revision <= revision
        BY <1>2, <2>1 DEF OpenWeek
  <2>3. editor' = [editor EXCEPT ![t] = w]
        BY <1>4 DEF OpenEditor
  <2> HIDE DEF w
  <2>4. Tabs
        BY <2>2, <2>3, TabsSet DEF OpenEditor, Types
  <2> QED  BY <2>4, EditorKeeps DEF OpenEditor, server, Types, SyncedInv
<1> QED  BY <1>3, <1>4

LEMMA EditedType ==
    ASSUME NEW e \in OpenWeek, NEW E \in SUBSET Day, NEW o \in Op
    PROVE  Edited(e, E, o) \in Week
<1>1. e.days \in Week
      BY DEF OpenWeek
<1> QED  BY <1>1 DEF Edited, Week

\* The other steps that touch no outbox: closing an editor, showing a rejected proposal over the
\* week as synced, a sync and the death of a tab.
LEMMA AsideKeeps ==
    ASSUME Inv,
           \/ \E t \in Tab : CloseEditor(t) \/ Rebase(t) \/ Die(t)
           \/ \E d \in Device : Sync(d)
    PROVE  Inv'
<1> USE DEF Inv
<1>0. Closed.open = FALSE
      BY DEF Closed
<1>1. ASSUME NEW t \in Tab, CloseEditor(t) \/ Die(t) PROVE Inv'
  <2>1. editor' = [editor EXCEPT ![t] = Closed] /\ waiting' \in [Tab -> Op \cup {None}]
        BY <1>1 DEF CloseEditor, Die, Types
  <2>2. Tabs
        BY <1>0, <2>1 DEF Tabs, Types, SyncedInv
  <2> QED  BY <1>1, <2>2, EditorKeeps DEF CloseEditor, Die, server, Types, SyncedInv
<1>2. ASSUME NEW t \in Tab, Rebase(t) PROVE Inv'
  <2> DEFINE d == Home[t]
             days == RebaseWeek(Latest(d).base, Latest(d).days, replica[d].week)
             mine == editor[t].mine \cup meant[Latest(d).op]
             w == [editor[t] EXCEPT !.rebased = Latest(d).op, !.base = replica[d].week,
                                    !.days = days, !.mine = mine]
  <2>1. editor[t] \in OpenWeek /\ Latest(d) \in Row /\ d \in Device
        BY <1>2, EditorType, RowsType DEF Rebase
  <2>2. Latest(d).op \in Op /\ Latest(d).days \in Week /\ Latest(d).base \in Week /\ replica[d].week \in Week
        BY <2>1 DEF Row, Types
  <2>3. days \in Week /\ mine \in SUBSET Day
        BY <2>1, <2>2 DEF RebaseWeek, Week, OpenWeek, Types
  <2>4. editor' = [editor EXCEPT ![t] = w]
        BY <1>2 DEF Rebase, Types
  <2> HIDE DEF days, mine
  <2>5. w \in OpenWeek /\ w.id = editor[t].id /\ w.revision = editor[t].revision
        BY <2>1, <2>2, <2>3 DEF OpenWeek
  <2>6. editor[t].id = None => editor[t].revision <= revision
        BY <1>2 DEF Rebase, SyncedInv
  <2> HIDE DEF w
  <2>7. w \in {Closed} \cup OpenWeek /\ (w.open /\ w.id = None => w.revision <= revision)
        BY <2>5, <2>6
  <2>8. waiting' \in [Tab -> Op \cup {None}]
        BY <1>2 DEF Rebase, Types
  <2>9. Tabs
        BY <2>4, <2>7, <2>8, TabsSet
  <2> QED  BY <1>2, <2>9, EditorKeeps DEF Rebase, server, Types, SyncedInv
<1>3. ASSUME NEW d \in Device, Sync(d) PROVE Inv'
  <2>1. replica' = [replica EXCEPT ![d] = [revision |-> revision, week |-> week]]
        /\ UNCHANGED <<editor, waiting>>
        BY <1>3 DEF Sync
  <2>2. /\ replica' \in [Device -> [revision : Nat, week : Week]]
        /\ \A e \in Device : replica'[e].revision <= revision
        BY <2>1 DEF Types, SyncedInv
  <2>3. Tabs
        BY <2>1, TabsStay DEF Types
  <2> QED  BY <1>3, <2>2, <2>3, EditorKeeps DEF Sync, server
<1> QED  BY <1>1, <1>2, <1>3

\* The outbox of d becomes rows, each of which is right and stands for an operation of d's or a
\* new one; at most one request is sent, of an operation of d's never tried before.
LEMMA OutboxKeeps ==
    ASSUME Inv, NEW d \in Device, NEW rows \in Seq(Row), Distinct(rows),
           outbox' = [outbox EXCEPT ![d] = rows],
           UNCHANGED <<revision, week, receipt, replica, reply>>,
           Tabs, meant' \in [Op -> SUBSET Day], \A o \in Op : meant[o] # {} => meant'[o] # {},
           resumed \subseteq resumed',
           net \subseteq net', net' \subseteq [op : Op, expected : Int, days : Week],
           \A p, q \in net' \ net : p = q,
           \A q \in net' \ net :
               /\ \E s \in Rows(d) : s.op = q.op /\ ~s.tried
               /\ q.op \notin resumed => q.expected <= revision,
           \A r \in ToSet(rows) :
               /\ RowOK(r)'
               /\ meant[r.op] = {} \/ \E s \in Rows(d) : s.op = r.op
    PROVE  Inv'
<1> USE DEF Inv
<1>1. Types'
      BY DEF Types, Tabs
<1>2. Rows(d)' = ToSet(rows) /\ \A e \in Device \ {d} : Rows(e)' = Rows(e) /\ outbox'[e] = outbox[e]
      BY DEF Rows, Types
<1>3. \A e \in Device : \A r \in Rows(e) : RowOK(r) /\ r \in Row /\ r.op \in Op
      BY RowsType DEF RowsInv, Row
<1>4. \A q \in net' \ net : \A p \in net : p.op # q.op
      BY <1>3 DEF RowOK
<1>5. \A o \in Op : Applied(o)' <=> Applied(o)
      BY DEF Applied
<1>6. RowsInv'
  <2>1. ASSUME NEW e \in Device \ {d}, NEW r \in Rows(e) PROVE RowOK(r)'
    <3>1. \A q \in net' \ net : q.op # r.op
          BY DEF ApartInv
    <3>2. RowOK(r) /\ r.op \in Op
          BY <1>3
    <3> QED  BY <1>5, <3>1, <3>2 DEF RowOK
  <2> QED  BY <1>2, <2>1 DEF RowsInv
<1>7. ApartInv'
  <2>1. \A e \in Device : Distinct(outbox[e])'
        BY <1>2 DEF ApartInv, Types, Distinct
  <2>2. ASSUME NEW e \in Device \ {d}, NEW r \in ToSet(rows), NEW s \in Rows(e) PROVE r.op # s.op
    <3>1. CASE meant[r.op] = {}
      <4>1. meant[s.op] # {}
            BY <1>3 DEF RowOK
      <4> QED  BY <3>1, <4>1
    <3>2. CASE \E u \in Rows(d) : u.op = r.op
          BY <3>2 DEF ApartInv
    <3> QED  BY <3>1, <3>2
  <2>3. \A e, f \in Device : e # f => \A r \in Rows(e)', s \in Rows(f)' : r.op # s.op
        BY <1>2, <2>2 DEF ApartInv
  <2> QED  BY <2>1, <2>3 DEF ApartInv
<1>8. NetInv'
  <2>1. \A q \in net : q.op \in Op
        BY DEF Types
  <2>2. \A q \in net' \ net : q.op \in Op /\ meant[q.op] # {}
        BY <1>3 DEF RowOK
  <2>3. \A q \in net' : meant'[q.op] # {} /\ (q.op \notin resumed' => q.expected <= revision')
        BY <2>1, <2>2 DEF NetInv
  <2>4. \A p, q \in net' : p.op = q.op => p = q
        BY <1>4 DEF NetInv
  <2> QED  BY <2>3, <2>4 DEF NetInv
<1>9. ReceiptInv'
      BY <1>5 DEF ReceiptInv
<1>10. ReplyInv'
  <2>1. ASSUME NEW a \in reply PROVE ReplyOK(a)'
    <3>1. ReplyOK(a) /\ a.op \in Op
          BY DEF ReplyInv, Types
    <3>2. \A q \in net' : q.op = a.op => q \in net
          BY <1>4, <3>1 DEF ReplyOK
    <3> QED  BY <1>5, <3>1, <3>2 DEF ReplyOK
  <2> QED  BY <2>1 DEF ReplyInv
<1>11. SyncedInv'
      BY DEF SyncedInv, Tabs
<1>12. OncePerWeek'
  <2>1. {o \in Op : Applied(o)}' = {o \in Op : Applied(o)}
        BY <1>5
  <2> QED  BY <1>5, <2>1 DEF OncePerWeek
<1> QED  BY <1>1, <1>6, <1>7, <1>8, <1>9, <1>10, <1>11, <1>12

\* A row stays right while the server stays and no request of its operation is new.
LEMMA RowStays ==
    ASSUME UNCHANGED <<revision, receipt>>, resumed \subseteq resumed', net \subseteq net',
           NEW r, RowOK(r), meant'[r.op] # {}, \A q \in net' \ net : q.op # r.op
    PROVE  RowOK(r)'
BY DEF RowOK, Applied

\* A step that sends nothing.
LEMMA QuietKeeps ==
    ASSUME Inv, NEW d \in Device, NEW rows \in Seq(Row), Distinct(rows),
           outbox' = [outbox EXCEPT ![d] = rows],
           UNCHANGED <<revision, week, receipt, replica, net, reply>>,
           Tabs, meant' \in [Op -> SUBSET Day], \A o \in Op : meant[o] # {} => meant'[o] # {},
           resumed \subseteq resumed',
           \A r \in ToSet(rows) :
               /\ RowOK(r)'
               /\ meant[r.op] = {} \/ \E s \in Rows(d) : s.op = r.op
    PROVE  Inv'
<1>1. net \subseteq net' /\ net' \subseteq [op : Op, expected : Int, days : Week] /\ net' \ net = {}
      BY DEF Inv, Types
<1>2. /\ \A p, q \in net' \ net : p = q
      /\ \A q \in net' \ net :
             /\ \E s \in Rows(d) : s.op = q.op /\ ~s.tried
             /\ q.op \notin resumed => q.expected <= revision
      BY <1>1
<1> QED  BY <1>1, <1>2, OutboxKeeps

------------------------------------------------------------------------------
(***************************************************************************)
(* Proposals.                                                              *)
(***************************************************************************)
LEMMA FreshOp ==
    ASSUME Inv, NEW o \in Fresh
    PROVE  /\ o \in Op /\ meant[o] = {} /\ \A q \in net : q.op # o
           /\ \A d \in Device : \A r \in Rows(d) : r.op # o
BY DEF Inv, Fresh, NetInv, RowsInv, RowOK

LEMMA EnqueuedKeeps ==
    ASSUME Inv, NEW t \in Tab, editor[t].open, NEW o \in Op, NEW expected \in Int,
           NEW days \in Week, NEW mine \in SUBSET Day, mine # {},
           Enqueued(t, o, expected, days, mine)
    PROVE  /\ Tabs
           /\ meant' \in [Op -> SUBSET Day] /\ meant'[o] = mine
           /\ \A p \in Op : meant[p] # {} => meant'[p] # {}
<1> DEFINE w == [editor[t] EXCEPT !.id = o, !.revision = expected + 1,
                                  !.payload = <<expected, days>>, !.days = days, !.mine = mine]
<1>1. editor[t] \in OpenWeek
      BY EditorType DEF Inv
<1>2. editor' = [editor EXCEPT ![t] = w]
      BY DEF Enqueued, Inv, Types
<1>3. w \in OpenWeek /\ w.id # None
  <2>1. PICK payload \in {<<>>} \cup (Int \X Week) : payload = <<expected, days>>
        OBVIOUS
  <2>2. PICK next \in Int : next = expected + 1
        OBVIOUS
  <2>3. PICK e \in OpenWeek : e = editor[t]
        BY <1>1
  <2>4. w = [e EXCEPT !.id = o, !.revision = next, !.payload = payload, !.days = days, !.mine = mine]
        BY <2>1, <2>2, <2>3
  <2> HIDE DEF w
  <2> QED  BY <2>4 DEF OpenWeek
<1> HIDE DEF w
<1>4. Tabs
      BY <1>2, <1>3, TabsSet DEF Enqueued, Inv, Types
<1>5. meant' = [meant EXCEPT ![o] = mine] /\ meant \in [Op -> SUBSET Day]
      BY DEF Enqueued, Inv, Types
<1> QED  BY <1>4, <1>5

LEMMA SubmitKeeps ==
    ASSUME Inv, NEW t \in Tab, NEW E \in SUBSET Day, E # {}, Submit(t, E)
    PROVE  Inv'
<1> USE DEF Inv
<1> DEFINE d == Home[t]
           empty == outbox[d] = <<>>
           mine == editor[t].mine \cup E
<1>1. d \in Device /\ editor[t].open /\ editor[t] \in OpenWeek
      BY EditorType DEF Submit
<1>2. mine \in SUBSET Day /\ mine # {}
      BY <1>1 DEF OpenWeek
<1>3. outbox[d] \in Seq(Row) /\ Distinct(outbox[d]) /\ Len(outbox[d]) \in Nat
      BY <1>1, RowsType DEF ApartInv
<1>4. ~empty => Latest(d) \in Row /\ Latest(d) \in Rows(d) /\ RowOK(Latest(d))
      BY <1>1, RowsType DEF RowsInv
\* The waiting proposal is changed.
<1>5. CASE ~empty /\ Latest(d).state = "queued" /\ ~Latest(d).tried
  <2> DEFINE o == Latest(d).op
             n == Len(outbox[d])
             old == Latest(d)
  <2>1. PICK days \in Week : days = Edited(editor[t], E, o)
        BY <1>1, <1>4, <1>5, EditedType DEF Row
  <2>2. PICK expected \in Int : expected = Latest(d).expected
        BY <1>4, <1>5 DEF Row
  <2>3. /\ outbox' = [outbox EXCEPT ![d][n].days = days]
        /\ Enqueued(t, o, expected, days, mine)
        /\ resumed' = resumed
        BY <1>5, <2>1, <2>2 DEF Submit
  <2>4. PICK p \in Op : p = o
        BY <1>4, <1>5 DEF Row
  <2>5. PICK m \in SUBSET Day : m = mine
        BY <1>2
  <2>6. /\ Tabs
        /\ meant' \in [Op -> SUBSET Day] /\ meant'[o] = mine
        /\ \A q \in Op : meant[q] # {} => meant'[q] # {}
    <3>1. Enqueued(t, p, expected, days, m)
          BY <2>3, <2>4, <2>5
    <3>2. m # {}
          BY <1>2, <2>5
    <3> QED  BY <1>1, <2>4, <2>5, <3>1, <3>2, EnqueuedKeeps
  <2>7. PICK new \in Row : new = [old EXCEPT !.days = days]
        BY <1>4, <1>5 DEF Row
  <2> DEFINE changed == [outbox[d] EXCEPT ![n] = new]
  <2>8. n \in DOMAIN outbox[d]
        BY <1>1, <1>5, RowsType
  <2>9. changed \in Seq(Row) /\ DOMAIN changed = DOMAIN outbox[d]
        /\ \A i \in DOMAIN outbox[d] : changed[i] = IF i = n THEN new ELSE outbox[d][i]
    <3>1. changed \in Seq(Row)
          BY <1>3, <2>7, <2>8, ExceptSeq
    <3> QED  BY <2>8, <3>1
  <2>10. outbox' = [outbox EXCEPT ![d] = changed]
        BY <1>3, <2>3, <2>7, <2>8 DEF Latest, Types
  <2>11. new.op = o /\ old = outbox[d][n]
        BY <1>4, <1>5, <2>7 DEF Row, Latest
  <2> HIDE DEF changed
  <2>12. Distinct(changed)
    <3>1. \A i \in DOMAIN outbox[d] : changed[i].op = outbox[d][i].op
          BY <2>9, <2>11
    <3> QED  BY <1>3, <2>9, <3>1 DEF Distinct
  <2>13. RowOK(new)'
    <3>1. /\ new.op = old.op /\ new.tried = old.tried /\ new.state = "queued" /\ ~new.tried
          /\ new.predecessor = old.predecessor /\ new.expected = old.expected
          BY <1>4, <1>5, <2>7 DEF Row
    <3>2. RowOK(old) /\ UNCHANGED <<revision, receipt, net, resumed>>
          BY <1>4, <1>5, <2>3 DEF Enqueued, server
    <3> QED  BY <1>2, <2>6, <3>1, <3>2 DEF RowOK
  <2>14. PICK rows \in Seq(Row) : rows = changed
        BY <2>9
  <2>15. \A r \in ToSet(rows) : RowOK(r)' /\ \E s \in Rows(d) : s.op = r.op
    <3> SUFFICES ASSUME NEW i \in DOMAIN outbox[d]
                 PROVE  RowOK(rows[i])' /\ \E s \in Rows(d) : s.op = rows[i].op
        BY <2>9, <2>14 DEF ToSet
    <3>1. CASE i = n
      <4>1. rows[i] = new
            BY <2>9, <2>14, <3>1
      <4> QED  BY <1>4, <1>5, <2>11, <2>13, <4>1
    <3>2. CASE i # n
      <4>1. PICK r \in Rows(d) : r = outbox[d][i]
            BY <1>1, RowsType
      <4>2. rows[i] = r
            BY <2>9, <2>14, <3>2, <4>1
      <4>3. RowOK(r) /\ r.op \in Op /\ meant[r.op] # {}
        <5>1. RowOK(r)
              BY <1>1 DEF RowsInv
        <5>2. r \in Row
              BY <1>1, RowsType
        <5> QED  BY <5>1, <5>2 DEF RowOK, Row
      <4>4. RowOK(r)'
            BY <2>3, <2>6, <4>3, RowStays DEF Enqueued, server
      <4> QED  BY <4>2, <4>4
    <3> QED  BY <3>1, <3>2
  <2>16. Distinct(rows) /\ outbox' = [outbox EXCEPT ![d] = rows]
        BY <2>10, <2>12, <2>14
  <2>17. UNCHANGED <<revision, week, receipt, replica, net, reply, resumed>>
        BY <2>3 DEF Enqueued, server
  <2> QED  BY <1>1, <2>6, <2>15, <2>16, <2>17, QuietKeeps
\* A proposal is added.
<1>6. CASE ~(~empty /\ Latest(d).state = "queued" /\ ~Latest(d).tried)
  <2>1. PICK o \in Fresh :
            LET days == Edited(editor[t], E, o)
                expected == Expected(t)
                from == IF empty THEN editor[t].base ELSE Latest(d).days
                parent == IF empty THEN None ELSE Latest(d).op IN
            /\ outbox' = [outbox EXCEPT ![d] = Append(@, NewRow(o, expected, days, from, parent))]
            /\ Enqueued(t, o, expected, days, mine)
            /\ resumed' = resumed \cup {r \in {o} : empty /\ editor[t].id # None}
        BY <1>6 DEF Submit
  <2>2. o \in Op /\ (\A q \in net : q.op # o) /\ \A r \in Rows(d) : r.op # o
        BY <1>1, FreshOp
  <2>3. PICK days \in Week : days = Edited(editor[t], E, o)
        BY <1>1, <2>2, EditedType
  <2>4. PICK expected \in Int : expected = Expected(t)
    <3>1. empty => editor[t].revision \in Int
          BY <1>1 DEF OpenWeek
    <3>2. ~empty => Latest(d).result \in Int /\ Latest(d).expected + 1 \in Int
          BY <1>4 DEF Row
    <3> QED  BY <3>1, <3>2 DEF Expected
  <2>5. PICK from \in Week : from = IF empty THEN editor[t].base ELSE Latest(d).days
        BY <1>1, <1>4 DEF Row, OpenWeek
  <2>6. PICK parent \in Op \cup {None} : parent = IF empty THEN None ELSE Latest(d).op
        BY <1>4 DEF Row
  <2>7. PICK m \in SUBSET Day : m = mine
        BY <1>2
  <2> DEFINE new == NewRow(o, expected, days, from, parent)
  <2>8. /\ outbox' = [outbox EXCEPT ![d] = Append(outbox[d], new)]
        /\ Enqueued(t, o, expected, days, m)
        /\ resumed' = resumed \cup {r \in {o} : empty /\ editor[t].id # None}
        BY <2>1, <2>3, <2>4, <2>5, <2>6, <2>7 DEF Types
  <2>9. /\ Tabs
        /\ meant' \in [Op -> SUBSET Day] /\ meant'[o] = m
        /\ \A q \in Op : meant[q] # {} => meant'[q] # {}
        BY <1>1, <1>2, <2>2, <2>7, <2>8, EnqueuedKeeps
  <2>10. new \in Row /\ new.op = o /\ new.state = "queued" /\ ~new.tried
         /\ new.expected = expected /\ new.predecessor = parent
        BY <2>2 DEF NewRow, Row, State
  <2>11. o \notin resumed' /\ parent = None => expected <= revision
    <3>1. parent = None => empty
          BY <1>4, <2>6 DEF Row
    <3>2. empty /\ o \notin resumed' => editor[t].id = None
          BY <2>8
    <3>3. empty => expected = editor[t].revision
          BY <2>4 DEF Expected
    <3>4. editor[t].id = None => editor[t].revision <= revision
          BY <1>1 DEF SyncedInv
    <3> QED  BY <3>1, <3>2, <3>3, <3>4
  <2>12. RowOK(new)'
        BY <1>2, <2>2, <2>7, <2>8, <2>9, <2>10, <2>11 DEF RowOK, Enqueued, server
  <2> HIDE DEF new
  <2>13. PICK rows \in Seq(Row) : rows = Append(outbox[d], new)
        BY <1>3, <2>10, AppendProperties
  <2>14. /\ DOMAIN rows = 1..(Len(outbox[d]) + 1) /\ rows[Len(outbox[d]) + 1] = new
         /\ \A i \in DOMAIN outbox[d] : rows[i] = outbox[d][i] 
         /\ \A i \in DOMAIN rows : i \in DOMAIN outbox[d] \/ i = Len(outbox[d]) + 1
        BY <1>3, <2>10, <2>13, AppendProperties, LenProperties
  <2>15. Distinct(rows)
    <3>1. \A i \in DOMAIN outbox[d] : outbox[d][i].op # o
          BY <1>1, <2>2, RowsType
    <3> QED  BY <1>3, <2>10, <2>14, <3>1 DEF Distinct
  <2>16. \A r \in ToSet(rows) : r = new \/ r \in Rows(d)
        BY <2>14 DEF ToSet, Rows
  <2>17. \A r \in Rows(d) : RowOK(r)'
    <3> SUFFICES ASSUME NEW r \in Rows(d) PROVE RowOK(r)'
        OBVIOUS
    <3>1. RowOK(r) /\ r.op \in Op /\ meant[r.op] # {}
          BY <1>1, RowsType DEF RowsInv, RowOK, Row
    <3> QED  BY <2>8, <2>9, <3>1, RowStays DEF Enqueued, server
  <2>18. \A r \in ToSet(rows) :
            /\ RowOK(r)'
            /\ meant[r.op] = {} \/ \E s \in Rows(d) : s.op = r.op
    <3> SUFFICES ASSUME NEW r \in ToSet(rows)
                 PROVE  RowOK(r)' /\ (meant[r.op] = {} \/ \E s \in Rows(d) : s.op = r.op)
        OBVIOUS
    <3>1. CASE r = new
      <4>1. meant[o] = {}
            BY FreshOp
      <4> QED  BY <2>10, <2>12, <3>1, <4>1
    <3>2. CASE r \in Rows(d)
          BY <2>17, <3>2
    <3> QED  BY <2>16, <3>1, <3>2
  <2>19. outbox' = [outbox EXCEPT ![d] = rows]
        BY <2>8, <2>13
  <2>20. UNCHANGED <<revision, week, receipt, replica, net, reply>> /\ resumed \subseteq resumed'
        BY <2>8 DEF Enqueued, server
  <2> QED  BY <1>1, <2>9, <2>15, <2>18, <2>19, <2>20, QuietKeeps
<1> QED  BY <1>5, <1>6

LEMMA RepairKeeps ==
    ASSUME Inv, RepairsInv, NEW t \in Tab, Repair(t)
    PROVE  Inv'
<1> USE DEF Inv
<1> DEFINE d == Home[t]
           clicked == repair[t].editor
<1>1. /\ d \in Device /\ editor[t].open /\ editor[t] \in OpenWeek /\ clicked \in OpenWeek
      /\ repair[t].edits \in SUBSET Day /\ clicked.mine \cup repair[t].edits # {}
      BY RepairOpen, RepairRead
<1>2. PICK m \in SUBSET Day : m = clicked.mine \cup repair[t].edits /\ m # {}
  <2>1. PICK e \in OpenWeek : e = clicked
        BY <1>1
  <2>2. PICK edits \in SUBSET Day : edits = repair[t].edits
        BY <1>1
  <2>3. e.mine \cup edits \in SUBSET Day
        BY DEF OpenWeek
  <2>4. e.mine \cup edits = clicked.mine \cup repair[t].edits
        BY <2>1, <2>2
  <2> HIDE DEF clicked
  <2> QED  BY <1>1, <2>3, <2>4
<1>3. PICK expected \in Int : expected = repair[t].revision /\ expected <= revision
      BY RepairOpen, RepairRead
<1>4. PICK o \in Fresh :
          LET days == Edited(clicked, repair[t].edits, o)
              shown == IF editor[t] = clicked THEN [clicked EXCEPT !.days = days, !.mine = m]
                       ELSE editor[t] IN
          /\ outbox' = [outbox EXCEPT ![d] = <<NewRow(o, expected, days, editor[t].base, None)>>]
          /\ editor' = [editor EXCEPT ![t] = [shown EXCEPT !.id = o, !.revision = expected + 1,
                                                           !.payload = <<expected, days>>]]
          /\ meant' = [meant EXCEPT ![o] = m]
      BY <1>2, <1>3 DEF Repair
<1>5. o \in Op /\ meant[o] = {} /\ \A q \in net : q.op # o
      BY FreshOp
<1>6. PICK days \in Week : days = Edited(clicked, repair[t].edits, o)
      BY <1>1, <1>5, EditedType
<1>7. PICK base \in Week : base = editor[t].base
      BY <1>1 DEF OpenWeek
<1> DEFINE new == NewRow(o, expected, days, base, None)
<1>9. outbox' = [outbox EXCEPT ![d] = <<new>>]
      BY <1>4, <1>6, <1>7
<1>10. /\ Tabs
       /\ meant' \in [Op -> SUBSET Day] /\ meant'[o] = m
       /\ \A q \in Op : meant[q] # {} => meant'[q] # {}
  <2>1. PICK shown \in OpenWeek :
            shown = IF editor[t] = clicked THEN [clicked EXCEPT !.days = days, !.mine = m] ELSE editor[t]
    <3>1. PICK e \in OpenWeek : e = clicked
          BY <1>1
    <3>2. [e EXCEPT !.days = days, !.mine = m] \in OpenWeek
          BY DEF OpenWeek
    <3> QED  BY <1>1, <3>1, <3>2
  <2>2. PICK payload \in {<<>>} \cup (Int \X Week) : payload = <<expected, days>>
        OBVIOUS
  <2>3. PICK next \in Int : next = expected + 1
        OBVIOUS
  <2>4. PICK w : w = [shown EXCEPT !.id = o, !.revision = next, !.payload = payload]
        OBVIOUS
  <2>5. w \in OpenWeek /\ w.id # None
        BY <1>5, <2>4 DEF OpenWeek
  <2>6. editor' = [editor EXCEPT ![t] = w]
        BY <1>4, <1>6, <2>1, <2>2, <2>3, <2>4
  <2>7. waiting' \in [Tab -> Op \cup {None}]
        BY DEF Repair, Types
  <2>8. Tabs
        BY <2>5, <2>6, <2>7, TabsSet
  <2>9. meant \in [Op -> SUBSET Day] /\ meant' = [meant EXCEPT ![o] = m]
        BY <1>4 DEF Types
  <2> QED  BY <1>2, <1>5, <2>8, <2>9
<1>11. new \in Row /\ new.op = o /\ new.state = "queued" /\ ~new.tried /\ new.expected = expected
      BY <1>5 DEF NewRow, Row, State
<1>17. UNCHANGED <<revision, week, receipt, replica, net, reply, resumed>>
      BY DEF Repair, server
<1>12. RowOK(new)'
      BY <1>2, <1>3, <1>5, <1>10, <1>11, <1>17 DEF RowOK, Types
<1> HIDE DEF new
<1>13. PICK rows \in Seq(Row) : rows = <<new>>
  <2>1. <<new>> = Append(<<>>, new)
        OBVIOUS
  <2>2. Append(<<>>, new) \in Seq(Row)
        BY <1>11, EmptySeq, AppendProperties
  <2> QED  BY <2>1, <2>2
<1>14. Distinct(rows) /\ ToSet(rows) = {new}
      BY <1>13 DEF Distinct, ToSet
<1>15. \A r \in ToSet(rows) : RowOK(r)' /\ meant[r.op] = {}
      BY <1>5, <1>11, <1>12, <1>14
<1>16. outbox' = [outbox EXCEPT ![d] = rows]
      BY <1>9, <1>13
<1> QED  BY <1>1, <1>10, <1>14, <1>15, <1>16, <1>17, QuietKeeps

\* Rows that go leave the others as they were.
LEMMA FewerKeeps ==
    ASSUME Inv, NEW d \in Device, NEW rows \in Seq(Row), Distinct(rows), ToSet(rows) \subseteq Rows(d),
           outbox' = [outbox EXCEPT ![d] = rows], Tabs,
           UNCHANGED <<revision, week, receipt, replica, net, reply, meant, resumed>>
    PROVE  Inv'
<1>1. ASSUME NEW r \in ToSet(rows) PROVE RowOK(r)' /\ \E s \in Rows(d) : s.op = r.op
  <2>1. RowOK(r) /\ r \in Rows(d)
        BY DEF Inv, RowsInv
  <2>2. RowOK(r)'
        BY <2>1, RowStays DEF RowOK
  <2> QED  BY <2>1, <2>2
<1>2. meant' \in [Op -> SUBSET Day] /\ \A o \in Op : meant[o] # {} => meant'[o] # {}
      BY DEF Inv, Types
<1> QED  BY <1>1, <1>2, QuietKeeps

LEMMA DiscardKeeps ==
    ASSUME Inv,
           \/ \E t \in Tab : Discard(t)
           \/ \E d \in Device : DiscardQueue(d)
    PROVE  Inv'
<1> USE DEF Inv
<1>1. ASSUME NEW t \in Tab, Discard(t) PROVE Inv'
  <2> DEFINE d == Home[t]
  <2>1. editor[t].open /\ d \in Device
        BY <1>1 DEF Discard
  <2>2. PICK e \in OpenWeek : e = editor[t]
        BY <2>1, EditorType
  <2>3. PICK r \in Nat : r = replica[d].revision
        BY <2>1 DEF Types
  <2>4. PICK days \in Week : days = replica[d].week
        BY <2>1 DEF Types
  <2>5. PICK payload \in {<<>>} \cup (Int \X Week) : payload = <<>>
        OBVIOUS
  <2>6. PICK mine \in SUBSET Day : mine = {}
        OBVIOUS
  <2> DEFINE w == [e EXCEPT !.days = days, !.revision = r, !.id = None,
                            !.payload = payload, !.base = days, !.mine = mine]
  <2>7. editor' = [editor EXCEPT ![t] = w]
        BY <1>1, <2>2, <2>3, <2>4, <2>5, <2>6 DEF Discard, Types
  <2>8. w \in OpenWeek /\ w.revision = r
    <3>1. r \in Int /\ None \in Op \cup {None}
          OBVIOUS
    <3>2. w \in OpenWeek
          BY <3>1 DEF OpenWeek
    <3>3. w.revision = r
          BY DEF OpenWeek
    <3> QED  BY <3>2, <3>3
  <2>9. r <= revision
        BY <2>1, <2>3 DEF SyncedInv
  <2> HIDE DEF w
  <2>10. waiting' \in [Tab -> Op \cup {None}]
        BY <1>1 DEF Discard, Types
  <2>11. Tabs
        BY <2>7, <2>8, <2>9, <2>10, TabsSet
  <2>12. PICK rows \in Seq(Row) : rows = <<>>
        BY EmptySeq
  <2>13. Distinct(rows) /\ ToSet(rows) \subseteq Rows(d)
        BY <2>12 DEF Distinct, ToSet
  <2> QED  BY <1>1, <2>1, <2>11, <2>12, <2>13, FewerKeeps DEF Discard, server
<1>2. ASSUME NEW d \in Device, DiscardQueue(d) PROVE Inv'
  <2>1. PICK gone : gone = Rows(d) \ InState(d, "accepted")
        OBVIOUS
  <2>2. outbox[d] \in Seq(Row) /\ Distinct(outbox[d])
        BY RowsType DEF ApartInv
  <2>3. PICK s \in Seq(Row) : s = outbox[d]
        BY <2>2
  <2>4. PICK rows \in Seq(Row) : rows = Without(s, gone)
        BY WithoutKeeps
  <2>5. Distinct(rows) /\ ToSet(rows) \subseteq Rows(d)
        BY <2>2, <2>3, <2>4, WithoutKeeps DEF Rows
  <2>6. outbox' = [outbox EXCEPT ![d] = rows]
        BY <1>2, <2>1, <2>3, <2>4 DEF DiscardQueue, Types
  <2>7. Tabs
        BY <1>2, TabsStay DEF DiscardQueue, Types
  <2> QED  BY <1>2, <2>5, <2>6, <2>7, FewerKeeps DEF DiscardQueue, server
<1> QED  BY <1>1, <1>2

------------------------------------------------------------------------------
(***************************************************************************)
(* The uploader.                                                           *)
(***************************************************************************)
\* What an accepted row's result says is a revision the server has had.
LEMMA ResultIsPast ==
    ASSUME Inv, NEW d \in Device, NEW p \in Rows(d), p.state = "accepted"
    PROVE  p.result <= revision
<1>1. p.op \in Op /\ Applied(p.op) /\ p.result = receipt[p.op].expected + 1
      BY RowsType DEF Inv, RowsInv, RowOK, Row
<1> QED  BY <1>1 DEF Inv, ReceiptInv, Types

\* A row as it is once its observed predecessor is forgotten.
Follow(d, r) ==
    IF \E p \in Observed(d) : p.op = r.predecessor
    THEN LET p == CHOOSE p \in Observed(d) : p.op = r.predecessor IN
         [r EXCEPT !.predecessor = None,
                   !.expected = IF r.tried THEN @ ELSE p.result]
    ELSE r

LEMMA FollowOK ==
    ASSUME Inv, NEW d \in Device, NEW r \in Rows(d)
    PROVE  /\ Follow(d, r) \in Row /\ RowOK(Follow(d, r))
           /\ Follow(d, r).op = r.op /\ Follow(d, r).tried = r.tried
           /\ Follow(d, r).state = r.state /\ Follow(d, r).result = r.result
<1>1. r \in Row /\ RowOK(r)
      BY RowsType DEF Inv, RowsInv
<1>2. CASE \E p \in Observed(d) : p.op = r.predecessor
  <2>1. PICK p \in Observed(d) : p = CHOOSE q \in Observed(d) : q.op = r.predecessor
        BY <1>2
  <2>2. p \in Rows(d) /\ p.state = "accepted"
        BY DEF Observed, InState
  <2>3. PICK result \in Int : result = p.result
        BY <2>2, RowsType DEF Inv, Row
  <2>4. result <= revision
        BY <2>2, <2>3, ResultIsPast
  <2>5. PICK expected \in Int : expected = IF r.tried THEN r.expected ELSE result
        BY <1>1 DEF Row
  <2>6. PICK c \in Row : c = [r EXCEPT !.predecessor = None, !.expected = expected]
        BY <1>1 DEF Row
  <2>7. Follow(d, r) = c
        BY <1>1, <1>2, <2>1, <2>3, <2>5, <2>6 DEF Follow, Row
  <2>8. /\ c.op = r.op /\ c.tried = r.tried /\ c.state = r.state /\ c.result = r.result
        /\ c.days = r.days /\ c.expected = expected
        BY <1>1, <2>6 DEF Row
  <2>9. RowOK(c)
    <3>1. CASE r.tried
      <4>1. Sent(c) = Sent(r) /\ c.expected = r.expected
            BY <2>5, <2>8, <3>1 DEF Sent
      <4> QED  BY <1>1, <2>8, <3>1, <4>1 DEF RowOK
    <3>2. CASE ~r.tried
          BY <1>1, <2>4, <2>5, <2>8, <3>2 DEF RowOK
    <3> QED  BY <1>1, <3>1, <3>2 DEF Row
  <2> QED  BY <2>7, <2>8, <2>9
<1>3. CASE ~\E p \in Observed(d) : p.op = r.predecessor
      BY <1>1, <1>3 DEF Follow
<1> QED  BY <1>2, <1>3

LEMMA CleanedOK ==
    ASSUME Inv, NEW d \in Device
    PROVE  /\ Cleaned(d) \in Seq(Row) /\ Distinct(Cleaned(d))
           /\ \A c \in ToSet(Cleaned(d)) :
                 /\ RowOK(c)
                 /\ \E r \in Rows(d) : r.op = c.op /\ r.tried = c.tried
                                       /\ r.state = c.state /\ r.result = c.result
           /\ \A r \in Rows(d) : r \in Observed(d) \/ \E c \in ToSet(Cleaned(d)) : c.op = r.op
<1>1. PICK gone : gone = Observed(d)
      OBVIOUS
<1>2. outbox[d] \in Seq(Row) /\ Distinct(outbox[d])
      BY RowsType DEF Inv, ApartInv
<1>3. PICK s \in Seq(Row) : s = outbox[d]
      BY <1>2
<1>4. PICK kept \in Seq(Row) : kept = Without(s, gone)
      BY WithoutKeeps
<1>5. ToSet(kept) = Rows(d) \ Observed(d) /\ Distinct(kept)
      BY <1>1, <1>2, <1>3, <1>4, WithoutKeeps DEF Rows
<1>6. Cleaned(d) = [i \in DOMAIN kept |-> Follow(d, kept[i])]
      BY <1>1, <1>3, <1>4 DEF Cleaned, Follow
<1>7. \A i \in DOMAIN kept : kept[i] \in Rows(d)
      BY <1>5 DEF ToSet
<1>8. DOMAIN kept = 1..Len(kept) /\ Len(kept) \in Nat
      BY LenProperties
<1>9. \A i \in DOMAIN kept : Cleaned(d)[i] \in Row
      BY <1>6, <1>7, FollowOK
<1>10. Cleaned(d) \in Seq(Row)
      BY <1>6, <1>8, <1>9, SeqDef
<1>11. Distinct(Cleaned(d))
  <2>1. \A i \in DOMAIN kept : Cleaned(d)[i].op = kept[i].op
        BY <1>6, <1>7, FollowOK
  <2>2. DOMAIN Cleaned(d) = DOMAIN kept
        BY <1>6
  <2> QED  BY <1>5, <2>1, <2>2 DEF Distinct
<1>12. ASSUME NEW c \in ToSet(Cleaned(d))
       PROVE  RowOK(c) /\ \E r \in Rows(d) : r.op = c.op /\ r.tried = c.tried
                                             /\ r.state = c.state /\ r.result = c.result
  <2>1. PICK i \in DOMAIN kept : c = Follow(d, kept[i])
        BY <1>6 DEF ToSet
  <2>2. PICK r \in Rows(d) : r = kept[i]
        BY <1>7
  <2> QED  BY <2>1, <2>2, FollowOK
<1>13. ASSUME NEW r \in Rows(d), r \notin Observed(d) PROVE \E c \in ToSet(Cleaned(d)) : c.op = r.op
  <2>1. PICK i \in DOMAIN kept : kept[i] = r
        BY <1>5, <1>13 DEF ToSet
  <2>2. Cleaned(d)[i] = Follow(d, r) /\ Cleaned(d)[i] \in ToSet(Cleaned(d))
        BY <1>6, <2>1 DEF ToSet
  <2> QED  BY <2>2, FollowOK
<1> QED  BY <1>10, <1>11, <1>12, <1>13

LEMMA ForgetKeeps ==
    ASSUME Inv, NEW t \in Tab, Forget(t)
    PROVE  Inv'
<1> USE DEF Inv
<1> DEFINE d == Home[t]
<1>1. PICK rows \in Seq(Row) : rows = Cleaned(d)
      BY CleanedOK
<1>2. Distinct(rows) /\ outbox' = [outbox EXCEPT ![d] = rows]
      BY <1>1, CleanedOK DEF Forget
<1>3. UNCHANGED <<revision, week, receipt, replica, net, reply, meant, resumed>> /\ Tabs
      BY TabsStay DEF Forget, server, Types
<1>4. ASSUME NEW r \in ToSet(rows) PROVE RowOK(r)' /\ \E s \in Rows(d) : s.op = r.op
  <2>1. RowOK(r) /\ \E s \in Rows(d) : s.op = r.op
        BY <1>1, CleanedOK
  <2>2. RowOK(r)'
        BY <1>3, <2>1, RowStays DEF RowOK
  <2> QED  BY <2>1, <2>2
<1>5. meant' \in [Op -> SUBSET Day] /\ \A o \in Op : meant[o] # {} => meant'[o] # {}
      BY <1>3 DEF Types
<1>6. d \in Device
      OBVIOUS
<1> QED  BY <1>2, <1>3, <1>4, <1>5, <1>6, QuietKeeps

\* What Take does with the row it finds at i.
TakesRow(t, rows, i) ==
    LET d == Home[t]
        r == rows[i]
        expected == IF ~r.tried /\ r.predecessor # None
                    THEN (CHOOSE p \in Parents(rows, r) : TRUE).result
                    ELSE r.expected IN
    /\ Eligible(rows, r)
    /\ outbox' = [outbox EXCEPT ![d] =
          [rows EXCEPT ![i] = [r EXCEPT !.state = "sending", !.tried = TRUE,
                                        !.expected = expected]]]
    /\ net' = net \cup {[op |-> r.op, expected |-> expected, days |-> r.days]}
    /\ waiting' = [waiting EXCEPT ![t] = r.op]

LEMMA TakeFinds ==
    ASSUME NEW t \in Tab, Take(t)
    PROVE  \E i \in DOMAIN Cleaned(Home[t]) : TakesRow(t, Cleaned(Home[t]), i)
BY DEF Take, TakesRow

LEMMA TakeKeeps ==
    ASSUME Inv, NEW t \in Tab, Take(t)
    PROVE  Inv'
<1> USE DEF Inv
<1> DEFINE d == Home[t]
<1>0. d \in Device
      OBVIOUS
<1>1. PICK rows \in Seq(Row) : rows = Cleaned(d)
      BY CleanedOK
<1>2. Distinct(rows) /\ Len(rows) \in Nat /\ DOMAIN rows = 1..Len(rows)
      BY <1>1, CleanedOK, LenProperties
<1>3. \A c \in ToSet(rows) :
          /\ RowOK(c)
          /\ \E r \in Rows(d) : r.op = c.op /\ r.tried = c.tried
                                /\ r.state = c.state /\ r.result = c.result
      BY <1>1, CleanedOK
<1>4. PICK i \in DOMAIN rows : TakesRow(t, rows, i)
      BY <1>1, TakeFinds
<1>5. PICK r \in Row : r = rows[i] /\ r \in ToSet(rows)
      BY <1>2, ElementOfSeq DEF ToSet
<1>6. RowOK(r) /\ r.op \in Op /\ r.days \in Week /\ r.expected \in Int /\ r.tried \in BOOLEAN
      BY <1>3, <1>5 DEF Row
<1>7. PICK before \in Rows(d) : before.op = r.op /\ before.tried = r.tried
      BY <1>3, <1>5
<1> DEFINE names == IF ~r.tried /\ r.predecessor # None
                    THEN (CHOOSE p \in Parents(rows, r) : TRUE).result
                    ELSE r.expected
\* The predecessor, when one is named, is accepted: it is the only row of its operation.
<1>8. ~r.tried /\ r.predecessor # None =>
          /\ (CHOOSE p \in Parents(rows, r) : TRUE).result \in Int
          /\ (CHOOSE p \in Parents(rows, r) : TRUE).result <= revision
  <2> SUFFICES ASSUME ~r.tried, r.predecessor # None
               PROVE  /\ (CHOOSE p \in Parents(rows, r) : TRUE).result \in Int
                      /\ (CHOOSE p \in Parents(rows, r) : TRUE).result <= revision
      OBVIOUS
  <2>1. PICK p \in Parents(rows, r) : p.state = "accepted"
        BY <1>4, <1>5 DEF TakesRow, Eligible
  <2>2. \A q \in Parents(rows, r) : q = p
        BY <1>2, <2>1 DEF Parents, ToSet, Distinct
  <2>3. (CHOOSE q \in Parents(rows, r) : TRUE) = p
        BY <2>1, <2>2
  <2>4. p \in ToSet(rows)
        BY DEF Parents
  <2>5. PICK o \in Rows(d) : o.state = p.state /\ o.result = p.result
        BY <1>3, <2>4
  <2>6. o.result <= revision /\ o.result \in Int
        BY <2>1, <2>5, ResultIsPast, RowsType DEF Row
  <2> QED  BY <2>3, <2>5, <2>6
<1>9. PICK expected \in Int : expected = names
  <2>1. CASE ~r.tried /\ r.predecessor # None
    <3>1. names = (CHOOSE p \in Parents(rows, r) : TRUE).result
          BY <2>1
    <3> HIDE DEF names
    <3> QED  BY <1>8, <2>1, <3>1
  <2>2. CASE ~(~r.tried /\ r.predecessor # None)
    <3>1. names = r.expected
          BY <2>2
    <3> HIDE DEF names
    <3> QED  BY <1>6, <3>1
  <2> QED  BY <2>1, <2>2
<1>10. r.tried => expected = r.expected
      BY <1>9
<1>11. ~r.tried /\ r.op \notin resumed => expected <= revision
      BY <1>6, <1>8, <1>9 DEF RowOK
<1> HIDE DEF names
<1>12. PICK q \in [op : Op, expected : Int, days : Week] :
           q = [op |-> r.op, expected |-> expected, days |-> r.days]
      BY <1>6
<1>13. PICK new \in Row : new = [r EXCEPT !.state = "sending", !.tried = TRUE, !.expected = expected]
  <2>1. "sending" \in State
        BY DEF State
  <2> QED  BY <2>1 DEF Row
<1>14. new.op = r.op /\ new.tried /\ new.state = "sending" /\ Sent(new) = q
      BY <1>12, <1>13 DEF Row, Sent
<1>15. PICK sent \in Seq(Row) : sent = [rows EXCEPT ![i] = new]
      BY <1>2, ExceptSeq
<1>16. outbox' = [outbox EXCEPT ![d] = sent] /\ net' = net \cup {q}
       /\ waiting' = [waiting EXCEPT ![t] = r.op]
      BY <1>4, <1>5, <1>9, <1>12, <1>13, <1>15 DEF TakesRow, names
<1>17. DOMAIN sent = DOMAIN rows /\ \A j \in DOMAIN rows : sent[j] = IF j = i THEN new ELSE rows[j]
      BY <1>15
<1>18. Distinct(sent)
  <2>1. \A j \in DOMAIN rows : sent[j].op = rows[j].op
        BY <1>5, <1>14, <1>17
  <2> QED  BY <1>2, <1>17, <2>1 DEF Distinct
<1>19. r.tried => q \in net
  <2>1. r.tried => q = Sent(r)
        BY <1>10, <1>12 DEF Sent
  <2> QED  BY <1>6, <2>1 DEF RowOK
<1>20. UNCHANGED <<revision, week, receipt, replica, reply, meant, resumed>>
      BY DEF Take, server
<1>21. Tabs
  <2>1. waiting' \in [Tab -> Op \cup {None}]
        BY <1>6, <1>16 DEF Types
  <2> QED  BY <2>1, TabsStay DEF Take
<1>22. ASSUME NEW c \in ToSet(sent) PROVE RowOK(c)' /\ \E s \in Rows(d) : s.op = c.op
  <2>1. PICK j \in DOMAIN rows : c = sent[j]
        BY <1>17 DEF ToSet
  <2>2. CASE j = i
    <3>1. c = new
          BY <1>17, <2>1, <2>2
    <3>2. meant'[new.op] # {}
          BY <1>6, <1>14, <1>20 DEF RowOK
    <3>3. RowOK(new)'
          BY <1>14, <1>16, <3>2 DEF RowOK
    <3> QED  BY <1>7, <1>14, <3>1, <3>3
  <2>3. CASE j # i
    <3>1. c = rows[j] /\ c \in ToSet(rows)
          BY <1>17, <2>1, <2>3 DEF ToSet
    <3>2. c.op # r.op
          BY <1>2, <1>5, <2>3, <3>1 DEF Distinct
    <3>3. RowOK(c) /\ meant[c.op] # {} /\ \E s \in Rows(d) : s.op = c.op
          BY <1>3, <3>1 DEF RowOK
    <3>4. \A p \in net' \ net : p.op # c.op
          BY <1>12, <1>16, <3>2
    <3>5. RowOK(c)'
          BY <1>16, <1>20, <3>3, <3>4, RowStays
    <3> QED  BY <3>3, <3>5
  <2> QED  BY <2>2, <2>3
<1>23. \A p \in net' \ net :
           /\ \E s \in Rows(d) : s.op = p.op /\ ~s.tried
           /\ p.op \notin resumed => p.expected <= revision
  <2> SUFFICES ASSUME NEW p \in net' \ net
               PROVE  /\ \E s \in Rows(d) : s.op = p.op /\ ~s.tried
                      /\ p.op \notin resumed => p.expected <= revision
      OBVIOUS
  <2>1. p = q /\ ~r.tried
        BY <1>16, <1>19
  <2> QED  BY <1>7, <1>11, <1>12, <2>1
<1>24. net \subseteq net' /\ net' \subseteq [op : Op, expected : Int, days : Week]
       /\ \A p, s \in net' \ net : p = s
      BY <1>16 DEF Types
<1>25. meant' \in [Op -> SUBSET Day] /\ (\A o \in Op : meant[o] # {} => meant'[o] # {})
       /\ resumed \subseteq resumed'
      BY <1>20 DEF Types
<1> QED  BY <1>0, <1>16, <1>18, <1>20, <1>21, <1>22, <1>23, <1>24, <1>25, OutboxKeeps

\* An outcome written to the row of o, if it is true of it.
LEMMA MarkKeeps ==
    ASSUME Inv, NEW d \in Device, NEW o, NEW allowed, NEW state \in State, NEW result \in Int,
           Mark(d, o, allowed, state, result), Tabs,
           UNCHANGED <<revision, week, receipt, replica, net, reply, meant, resumed>>,
           \A r \in Rows(d) : r.op = o /\ r.state \in allowed =>
               RowOK([r EXCEPT !.state = state, !.result = result])
    PROVE  Inv'
<1> USE DEF Inv
<1> DEFINE told(r) == IF r.op = o /\ r.state \in allowed
                      THEN [r EXCEPT !.state = state, !.result = result] ELSE r
           marked == [i \in DOMAIN outbox[d] |-> told(outbox[d][i])]
<1>1. outbox' = [outbox EXCEPT ![d] = marked]
      BY DEF Mark, Types
<1>2. ASSUME NEW r \in Rows(d) PROVE told(r) \in Row /\ told(r).op = r.op /\ RowOK(told(r))
  <2>1. r \in Row /\ RowOK(r)
        BY RowsType DEF RowsInv
  <2>2. CASE r.op = o /\ r.state \in allowed
    <3>1. told(r) = [r EXCEPT !.state = state, !.result = result]
          BY <2>2
    <3>2. [r EXCEPT !.state = state, !.result = result] \in Row
          BY <2>1 DEF Row
    <3>3. [r EXCEPT !.state = state, !.result = result].op = r.op
          BY <2>1 DEF Row
    <3> QED  BY <2>2, <3>1, <3>2, <3>3
  <2>3. CASE ~(r.op = o /\ r.state \in allowed)
        BY <2>1, <2>3
  <2> QED  BY <2>2, <2>3
<1>3. DOMAIN outbox[d] = 1..Len(outbox[d]) /\ Len(outbox[d]) \in Nat /\ Distinct(outbox[d])
      /\ \A i \in DOMAIN outbox[d] : outbox[d][i] \in Rows(d)
      BY RowsType DEF ApartInv
<1> HIDE DEF told
<1>4. marked \in Seq(Row)
  <2>1. \A i \in DOMAIN outbox[d] : told(outbox[d][i]) \in Row
        BY <1>2, <1>3
  <2>2. marked \in [1..Len(outbox[d]) -> Row]
        BY <1>3, <2>1
  <2>3. marked \in UNION {[1..n -> Row] : n \in Nat}
        BY <1>3, <2>2
  <2> QED  BY <2>3, SeqDef
<1>5. Distinct(marked)
  <2>1. \A i \in DOMAIN outbox[d] : marked[i].op = outbox[d][i].op
        BY <1>2, <1>3
  <2> QED  BY <1>3, <2>1 DEF Distinct
<1>6. \A c \in ToSet(marked) : \E r \in Rows(d) : c = told(r)
      BY <1>3 DEF ToSet
<1> HIDE DEF marked
<1>7. PICK rows \in Seq(Row) : rows = marked
      BY <1>4
<1>8. ASSUME NEW c \in ToSet(rows) PROVE RowOK(c)' /\ \E s \in Rows(d) : s.op = c.op
  <2>1. RowOK(c) /\ \E s \in Rows(d) : s.op = c.op
        BY <1>2, <1>6, <1>7
  <2>2. RowOK(c)'
        BY <2>1, RowStays DEF RowOK
  <2> QED  BY <2>1, <2>2
<1>9. Distinct(rows) /\ outbox' = [outbox EXCEPT ![d] = rows]
      BY <1>1, <1>5, <1>7
<1>10. meant' \in [Op -> SUBSET Day] /\ \A p \in Op : meant[p] # {} => meant'[p] # {}
      BY DEF Types
<1> QED  BY <1>8, <1>9, <1>10, QuietKeeps

\* The only outcomes there are to write are true of the request the row stands for.
LEMMA OutcomeKeeps ==
    ASSUME Inv, NEW t \in Tab, Receive(t) \/ GiveUp(t)
    PROVE  Inv'
<1> USE DEF Inv
<1> DEFINE d == Home[t]
<1>1. d \in Device /\ \A r \in Rows(d) : r \in Row /\ RowOK(r) /\ r.op \in Op
      BY RowsType DEF RowsInv, Row
\* The row an answer is for was tried.
<1>2. ASSUME NEW a \in reply, NEW r \in Rows(d), r.op = a.op PROVE r.tried /\ Sent(r) \in net
      BY <1>1, <1>2 DEF ReplyInv, ReplyOK, RowOK
<1>3. ASSUME NEW a \in reply, Accepted(t, a) PROVE Inv'
  <2>1. Applied(a.op) /\ a.revision = receipt[a.op].expected + 1 /\ a.revision \in Int
        BY <1>3 DEF Accepted, ReplyInv, ReplyOK, Types
  <2>2. ASSUME NEW r \in Rows(d), r.op = a.op
        PROVE  RowOK([r EXCEPT !.state = "accepted", !.result = a.revision])
    <3>1. PICK v \in Int : v = a.revision
          BY <2>1
    <3>2. PICK c : c = [r EXCEPT !.state = "accepted", !.result = v]
          OBVIOUS
    <3>3. /\ c.op = r.op /\ c.tried = r.tried /\ c.state = "accepted" /\ c.result = v
          /\ Sent(c) = Sent(r) /\ c.expected = r.expected
          BY <1>1, <3>2 DEF Row, Sent
    <3>4. RowOK(c)
          BY <1>1, <1>2, <2>1, <2>2, <3>1, <3>3 DEF RowOK
    <3> QED  BY <3>1, <3>2, <3>4
  <2>3. PICK v \in Int : v = a.revision
        BY <2>1
  <2>4. Mark(d, a.op, {"queued", "sending", "accepted", "rejected"}, "accepted", v)
        BY <1>3, <2>3 DEF Accepted
  <2>5. waiting' \in [Tab -> Op \cup {None}]
        BY <1>3 DEF Accepted, Types
  <2>6. Tabs
        BY <1>3, <2>5, TabsStay DEF Accepted
  <2>7. "accepted" \in State
        BY DEF State
  <2>8. UNCHANGED <<revision, week, receipt, replica, net, reply, meant, resumed>>
        BY <1>3 DEF Accepted, server
  <2> QED  BY <1>1, <2>2, <2>3, <2>4, <2>6, <2>7, <2>8, MarkKeeps
<1>4. ASSUME NEW a \in reply, Rejected(t, a) PROVE Inv'
  <2>1. a.op \notin resumed => ~Applied(a.op) /\ \A q \in net : q.op = a.op => q.expected < revision
        BY <1>4 DEF Rejected, ReplyInv, ReplyOK
  <2>2. ASSUME NEW r \in Rows(d), r.op = a.op
        PROVE  RowOK([r EXCEPT !.state = "rejected", !.result = -1])
    <3>1. PICK v \in Int : v = -1
          OBVIOUS
    <3>2. PICK c : c = [r EXCEPT !.state = "rejected", !.result = v]
          OBVIOUS
    <3>3. /\ c.op = r.op /\ c.tried = r.tried /\ c.state = "rejected"
          /\ Sent(c) = Sent(r) /\ c.expected = r.expected
          BY <1>1, <3>2 DEF Row, Sent
    <3>4. Sent(r).op = a.op /\ Sent(r).expected = r.expected
          BY <2>2 DEF Sent
    <3>5. RowOK(c)
          BY <1>1, <1>2, <2>1, <2>2, <3>3, <3>4 DEF RowOK
    <3> QED  BY <3>1, <3>2, <3>5
  <2>3. waiting' \in [Tab -> Op \cup {None}]
        BY <1>4 DEF Rejected, Types
  <2>4. Tabs
        BY <1>4, <2>3, TabsStay DEF Rejected
  <2>5. "rejected" \in State /\ -1 \in Int
        BY DEF State
  <2>6. UNCHANGED <<revision, week, receipt, replica, net, reply, meant, resumed>>
        BY <1>4 DEF Rejected, server
  <2>7. Mark(d, a.op, {"queued", "sending", "rejected"}, "rejected", -1)
        BY <1>4 DEF Rejected
  <2> QED  BY <1>1, <2>2, <2>4, <2>5, <2>6, <2>7, MarkKeeps
<1>5. ASSUME GiveUp(t) PROVE Inv'
  <2>1. ASSUME NEW r \in Rows(d), r.state = "sending"
        PROVE  RowOK([r EXCEPT !.state = "queued", !.result = -1])
    <3>1. PICK v \in Int : v = -1
          OBVIOUS
    <3>2. PICK c : c = [r EXCEPT !.state = "queued", !.result = v]
          OBVIOUS
    <3>3. /\ c.op = r.op /\ c.tried = r.tried /\ c.state = "queued"
          /\ Sent(c) = Sent(r) /\ c.expected = r.expected
          BY <1>1, <3>2 DEF Row, Sent
    <3>4. RowOK(c)
          BY <1>1, <2>1, <3>3 DEF RowOK
    <3> QED  BY <3>1, <3>2, <3>4
  <2>2. waiting' \in [Tab -> Op \cup {None}]
        BY <1>5 DEF GiveUp, Types
  <2>3. Tabs
        BY <1>5, <2>2, TabsStay DEF GiveUp
  <2>4. "queued" \in State /\ -1 \in Int
        BY DEF State
  <2>5. UNCHANGED <<revision, week, receipt, replica, net, reply, meant, resumed>>
        BY <1>5 DEF GiveUp, server
  <2>6. PICK o : o = waiting[t]
        OBVIOUS
  <2>7. Mark(d, o, {"sending"}, "queued", -1)
        BY <1>5, <2>6 DEF GiveUp
  <2>8. \A r \in Rows(d) : r.op = o /\ r.state \in {"sending"} =>
            RowOK([r EXCEPT !.state = "queued", !.result = -1])
        BY <2>1
  <2> QED  BY <1>1, <2>3, <2>4, <2>5, <2>7, <2>8, MarkKeeps
<1> QED  BY <1>3, <1>4, <1>5 DEF Receive

------------------------------------------------------------------------------
(***************************************************************************)
(* The theorems.                                                           *)
(***************************************************************************)
\* A step that leaves what "Apply changes" has under way.
LEMMA RepairsStay ==
    ASSUME RepairsInv, UNCHANGED repair, revision \in Int, revision' \in Int, revision <= revision',
           \A t \in Tab : repair[t] # NoRepair /\ editor[t].open => editor'[t].open
    PROVE  RepairsInv'
<1>1. ASSUME NEW t \in Tab, repair'[t] # NoRepair PROVE ApplyOK(repair[t], editor[t])'
  <2>1. ApplyOK(repair[t], editor[t]) /\ repair'[t] = repair[t] /\ repair[t].revision \in Int
        BY <1>1 DEF RepairsInv
  <2> QED  BY <1>1, <2>1 DEF ApplyOK
<1> QED  BY <1>1 DEF RepairsInv

\* One that sets it for one tab.
LEMMA RepairsSet ==
    ASSUME RepairsInv, NEW t \in Tab, NEW p, repair' = [repair EXCEPT ![t] = p],
           p \in [editor : {Closed} \cup OpenWeek, edits : SUBSET Day, revision : Int],
           UNCHANGED revision, p # NoRepair => ApplyOK(p, editor'[t]),
           \A u \in Tab : u # t => editor'[u] = editor[u]
    PROVE  RepairsInv'
<1>1. /\ repair' \in [Tab -> [editor : {Closed} \cup OpenWeek, edits : SUBSET Day, revision : Int]]
      /\ repair'[t] = p /\ \A u \in Tab : u # t => repair'[u] = repair[u]
      BY DEF RepairsInv
<1>2. ASSUME NEW u \in Tab, repair'[u] # NoRepair PROVE ApplyOK(repair[u], editor[u])'
  <2>1. CASE u = t
        BY <1>1, <1>2, <2>1 DEF ApplyOK
  <2>2. CASE u # t
    <3>1. ApplyOK(repair[u], editor[u]) /\ repair'[u] = repair[u] /\ editor'[u] = editor[u]
          BY <1>1, <1>2, <2>2 DEF RepairsInv
    <3> QED  BY <3>1 DEF ApplyOK
  <2> QED  BY <2>1, <2>2
<1> QED  BY <1>1, <1>2 DEF RepairsInv

LEMMA NoRepairType ==
    NoRepair \in [editor : {Closed} \cup OpenWeek, edits : SUBSET Day, revision : Int]
<1>1. Unread \in Int
      BY DEF Unread
<1> QED  BY <1>1 DEF NoRepair

LEMMA NextRepairs == Inv /\ RepairsInv /\ [Next]_vars => RepairsInv'
<1> SUFFICES ASSUME Inv, RepairsInv, [Next]_vars PROVE RepairsInv'
    OBVIOUS
<1>1. revision \in Nat
      BY DEF Inv, Types
<1>2. ASSUME UNCHANGED <<repair, revision, editor>> PROVE RepairsInv'
      BY <1>1, <1>2, RepairsStay
<1>3. ASSUME NEW t \in Tab, UNCHANGED <<repair, revision>>, NEW w, editor' = [editor EXCEPT ![t] = w],
             repair[t] # NoRepair => w.open
      PROVE  RepairsInv'
  <2>1. editor'[t] = w /\ \A u \in Tab : u # t => editor'[u] = editor[u]
        BY <1>3 DEF Inv, Types
  <2> QED  BY <1>1, <1>3, <2>1, RepairsStay
<1>4. ASSUME NEW t \in Tab, OpenEditor(t) \/ CloseEditor(t) \/ Rebase(t) \/ Discard(t) PROVE RepairsInv'
  <2>1. CASE OpenEditor(t)
    <3>1. editor[t] = Closed /\ Closed.open = FALSE
          BY <2>1 DEF OpenEditor, Closed
    <3>2. repair[t] = NoRepair
          BY <3>1 DEF RepairsInv, ApplyOK
    <3>3. PICK w : editor' = [editor EXCEPT ![t] = w]
          BY <2>1 DEF OpenEditor
    <3> QED  BY <1>3, <2>1, <3>2, <3>3 DEF OpenEditor, server
  <2>2. CASE CloseEditor(t)
        BY <1>3, <2>2 DEF CloseEditor, server
  <2>3. CASE Rebase(t)
    <3>1. PICK old \in OpenWeek : old = editor[t]
          BY <2>3, EditorType DEF Rebase, Inv
    <3>2. PICK w : /\ editor' = [editor EXCEPT ![t] = w]
                   /\ w = [old EXCEPT !.rebased = Latest(Home[t]).op, !.base = replica[Home[t]].week,
                             !.days = RebaseWeek(Latest(Home[t]).base, Latest(Home[t]).days, replica[Home[t]].week),
                             !.mine = editor[t].mine \cup meant[Latest(Home[t]).op]]
          BY <2>3, <3>1 DEF Rebase, Inv, Types
    <3>3. w.open
          BY <3>2 DEF OpenWeek
    <3> QED  BY <1>3, <2>3, <3>2, <3>3 DEF Rebase, server
  <2>4. CASE Discard(t)
    <3>1. PICK w : editor' = [editor EXCEPT ![t] = w]
          BY <2>4 DEF Discard
    <3> QED  BY <1>3, <2>4, <3>1 DEF Discard, server
  <2> QED  BY <1>4, <2>1, <2>2, <2>3, <2>4
<1>5. ASSUME NEW t \in Tab, NEW E \in SUBSET Day, Submit(t, E) PROVE RepairsInv'
  <2>1. repair[t] = NoRepair
        BY <1>5 DEF Submit
  <2>2. PICK o, x, days, m : Enqueued(t, o, x, days, m)
        BY <1>5 DEF Submit
  <2>3. PICK w : editor' = [editor EXCEPT ![t] = w]
        BY <2>2 DEF Enqueued, Inv, Types
  <2> QED  BY <1>3, <2>1, <2>2, <2>3 DEF Enqueued, server
<1>6. ASSUME NEW t \in Tab, NEW E \in SUBSET Day, ApplyChanges(t, E) PROVE RepairsInv'
  <2>1. PICK p : p = [editor |-> editor[t], edits |-> E, revision |-> Unread]
        OBVIOUS
  <2>2. editor[t] \in OpenWeek /\ Unread = -1
        BY <1>6, EditorType DEF ApplyChanges, Inv, Unread
  <2>3. p \in [editor : {Closed} \cup OpenWeek, edits : SUBSET Day, revision : Int]
        BY <2>1, <2>2
  <2>4. UNCHANGED <<editor, revision>> /\ repair' = [repair EXCEPT ![t] = p]
        BY <1>6, <2>1 DEF ApplyChanges, server
  <2>5. ApplyOK(p, editor'[t])
        BY <1>1, <1>6, <2>1, <2>2, <2>4 DEF ApplyOK, ApplyChanges
  <2> QED  BY <2>3, <2>4, <2>5, RepairsSet
<1>7. ASSUME NEW t \in Tab, ReadRevision(t) PROVE RepairsInv'
  <2>1. PICK old : old = repair[t] /\ ApplyOK(old, editor[t])
                   /\ old \in [editor : {Closed} \cup OpenWeek, edits : SUBSET Day, revision : Int]
        BY <1>7 DEF ReadRevision, RepairsInv
  <2>2. PICK p : p = [old EXCEPT !.revision = revision]
        OBVIOUS
  <2>3. /\ p \in [editor : {Closed} \cup OpenWeek, edits : SUBSET Day, revision : Int]
        /\ p.editor = old.editor /\ p.edits = old.edits /\ p.revision = revision
        BY <1>1, <2>1, <2>2
  <2>4. UNCHANGED <<editor, revision>> /\ repair' = [repair EXCEPT ![t] = p]
        BY <1>7, <2>1, <2>2 DEF ReadRevision, RepairsInv, server
  <2>5. ApplyOK(p, editor'[t])
        BY <1>1, <2>1, <2>3, <2>4 DEF ApplyOK
  <2> QED  BY <2>3, <2>4, <2>5, RepairsSet
<1>8. ASSUME NEW t \in Tab, Repair(t) \/ RepairFails(t) \/ Die(t) PROVE RepairsInv'
  <2>1. repair' = [repair EXCEPT ![t] = NoRepair] /\ UNCHANGED revision
        BY <1>8 DEF Repair, RepairFails, Die, server
  <2>2. \A u \in Tab : u # t => editor'[u] = editor[u]
        BY <1>8 DEF Repair, RepairFails, Die, Inv, Types
  <2> QED  BY <2>1, <2>2, RepairsSet, NoRepairType
<1>9. ASSUME NEW t \in Tab, Take(t) \/ Forget(t) \/ Receive(t) \/ GiveUp(t) PROVE RepairsInv'
      BY <1>2, <1>9 DEF Take, Forget, Receive, Accepted, Rejected, GiveUp, server
<1>10. ASSUME NEW q \in net, Replace(q) PROVE RepairsInv'
  <2>1. UNCHANGED <<repair, editor>> /\ (revision' = revision \/ revision' = revision + 1)
        BY <1>10 DEF Replace, Apply, server
  <2> QED  BY <1>1, <2>1, RepairsStay
<1>11. ASSUME NEW d \in Device, Sync(d) \/ DiscardQueue(d) PROVE RepairsInv'
       BY <1>2, <1>11 DEF Sync, DiscardQueue, server
<1>12. CASE UNCHANGED vars
       BY <1>2, <1>12 DEF vars, server
<1>13. ASSUME NEW t \in Tab,
             \/ OpenEditor(t) \/ CloseEditor(t) \/ Rebase(t) \/ Discard(t)
             \/ \E E \in SUBSET Day : (E # {} /\ Submit(t, E)) \/ ApplyChanges(t, E)
             \/ ReadRevision(t) \/ Repair(t) \/ RepairFails(t)
             \/ Take(t) \/ Forget(t) \/ Receive(t) \/ GiveUp(t) \/ Die(t)
       PROVE  RepairsInv'
       BY <1>4, <1>5, <1>6, <1>7, <1>8, <1>9, <1>13
<1> QED  BY <1>10, <1>11, <1>12, <1>13 DEF Next

\* An operation that sends a rejected week again was named.
Named == \A o \in repairs : o \in Op /\ meant[o] # {}

LEMMA NextNamed == Inv /\ RepairsInv /\ Named /\ [Next]_vars => Named'
<1> SUFFICES ASSUME Inv, RepairsInv, Named, [Next]_vars PROVE Named'
    OBVIOUS
<1>1. ASSUME UNCHANGED <<meant, repairs>> PROVE Named'
      BY <1>1 DEF Named
<1>2. ASSUME NEW o \in Op, NEW m, m # {}, meant' = [meant EXCEPT ![o] = m], repairs' \subseteq repairs \cup {o}
      PROVE  Named'
      BY <1>2 DEF Named, Inv, Types
<1>3. ASSUME NEW t \in Tab, NEW E \in SUBSET Day, E # {}, Submit(t, E) PROVE Named'
  <2>1. PICK m : m = editor[t].mine \cup E /\ m # {}
        BY <1>3
  <2>2. CASE outbox[Home[t]] # <<>> /\ Latest(Home[t]).state = "queued" /\ ~Latest(Home[t]).tried
    <3>1. PICK o, x, days : Enqueued(t, o, x, days, m) /\ UNCHANGED repairs /\ o = Latest(Home[t]).op
          BY <1>3, <2>1, <2>2 DEF Submit
    <3>2. o \in Op
          BY <2>2, <3>1, RowsType DEF Inv, Row
    <3> QED  BY <1>2, <2>1, <3>1, <3>2 DEF Enqueued
  <2>3. CASE ~(outbox[Home[t]] # <<>> /\ Latest(Home[t]).state = "queued" /\ ~Latest(Home[t]).tried)
    <3>1. PICK o \in Fresh : /\ \E x, days : Enqueued(t, o, x, days, m)
                             /\ repairs' \subseteq repairs \cup {o}
          BY <1>3, <2>1, <2>3 DEF Submit
    <3>2. o \in Op
          BY DEF Fresh
    <3> QED  BY <1>2, <2>1, <3>1, <3>2 DEF Enqueued
  <2> QED  BY <2>2, <2>3
<1>4. ASSUME NEW t \in Tab, Repair(t) PROVE Named'
  <2>1. PICK m : m = repair[t].editor.mine \cup repair[t].edits /\ m # {}
        BY <1>4, RepairOpen, RepairRead DEF Inv
  <2>2. PICK o \in Fresh : meant' = [meant EXCEPT ![o] = m] /\ repairs' = repairs \cup {o}
        BY <1>4, <2>1 DEF Repair
  <2>3. o \in Op
        BY DEF Fresh
  <2> QED  BY <1>2, <2>1, <2>2, <2>3
<1>5. ASSUME NEW t \in Tab,
             \/ OpenEditor(t) \/ CloseEditor(t) \/ Rebase(t) \/ Discard(t) \/ (\E E \in SUBSET Day : ApplyChanges(t, E))
             \/ ReadRevision(t) \/ RepairFails(t)
      PROVE  Named'
      BY <1>1, <1>5 DEF OpenEditor, CloseEditor, Rebase, Discard, ApplyChanges, ReadRevision, RepairFails
<1>6. ASSUME NEW t \in Tab, Take(t) \/ Forget(t) \/ Receive(t) \/ GiveUp(t) \/ Die(t) PROVE Named'
      BY <1>1, <1>6 DEF Take, Forget, Receive, Accepted, Rejected, GiveUp, Die
<1>7. CASE UNCHANGED vars \/ (\E q \in net : Replace(q)) \/ (\E d \in Device : Sync(d) \/ DiscardQueue(d))
      BY <1>1, <1>7 DEF vars, Replace, Sync, DiscardQueue
<1>8. ASSUME NEW t \in Tab,
             \/ OpenEditor(t) \/ CloseEditor(t) \/ Rebase(t) \/ Discard(t)
             \/ \E E \in SUBSET Day : (E # {} /\ Submit(t, E)) \/ ApplyChanges(t, E)
             \/ ReadRevision(t) \/ Repair(t) \/ RepairFails(t)
             \/ Take(t) \/ Forget(t) \/ Receive(t) \/ GiveUp(t) \/ Die(t)
      PROVE  Named'
      BY <1>3, <1>4, <1>5, <1>6, <1>8
<1> QED  BY <1>7, <1>8 DEF Next

LEMMA NextKeeps == Inv /\ RepairsInv /\ [Next]_vars => Inv'
<1> SUFFICES ASSUME Inv, RepairsInv, [Next]_vars PROVE Inv'
    OBVIOUS
<1>1. ASSUME UNCHANGED <<revision, week, receipt, outbox, replica, editor, waiting, net, reply, meant, resumed>>
      PROVE  Inv'
  <2>1. Tabs
        BY <1>1, TabsStay DEF Inv, Types
  <2> QED  BY <1>1, <2>1, EditorKeeps DEF Inv, Types, SyncedInv
<1>2. ASSUME NEW t \in Tab,
             \/ OpenEditor(t) \/ CloseEditor(t) \/ Rebase(t) \/ Discard(t)
             \/ \E E \in SUBSET Day : (E # {} /\ Submit(t, E)) \/ ApplyChanges(t, E)
             \/ ReadRevision(t) \/ Repair(t) \/ RepairFails(t)
             \/ Take(t) \/ Forget(t) \/ Receive(t) \/ GiveUp(t) \/ Die(t)
      PROVE  Inv'
  <2>1. CASE (\E E \in SUBSET Day : ApplyChanges(t, E)) \/ ReadRevision(t) \/ RepairFails(t)
        BY <1>1, <2>1 DEF ApplyChanges, ReadRevision, RepairFails, server
  <2> QED  BY <1>2, <2>1, OpenEditorKeeps, AsideKeeps, DiscardKeeps, SubmitKeeps, RepairKeeps, TakeKeeps,
              ForgetKeeps, OutcomeKeeps
<1>3. ASSUME NEW q \in net, Replace(q) PROVE Inv'
      BY <1>3, ReplaceKeeps
<1>4. ASSUME NEW d \in Device, Sync(d) \/ DiscardQueue(d) PROVE Inv'
      BY <1>4, AsideKeeps, DiscardKeeps
<1>5. CASE UNCHANGED vars
      BY <1>1, <1>5 DEF vars, server
<1> QED  BY <1>2, <1>3, <1>4, <1>5 DEF Next

\* The inductive invariant holds for any devices, tabs and operations.
THEOREM Invariance == Spec => [](Inv /\ RepairsInv /\ Named)
<1>1. Init => RepairsInv /\ Named
      BY NoRepairType DEF Init, RepairsInv, Named
<1> QED  BY <1>1, InitInv, NextKeeps, NextRepairs, NextNamed, PTL DEF Spec

\* What an outbox says of a proposal is what the server did with it, however often uploads time
\* out, answers are lost and tabs die: accepted with the revision it made, and rejected only if it
\* was never applied or comes from an editor that outlived its row.
THEOREM HonestAlways == Spec => []HonestOutcome
<1>1. Inv => HonestOutcome
  <2> SUFFICES ASSUME Inv, NEW d \in Device, NEW r \in Rows(d)
               PROVE  /\ r.state = "accepted" => Applied(r.op) /\ r.result = receipt[r.op].expected + 1
                      /\ r.state = "rejected" => ~Applied(r.op) \/ r.op \in resumed
      BY DEF HonestOutcome
  <2> QED  BY DEF Inv, RowsInv, RowOK
<1> QED  BY <1>1, Invariance, PTL

\* Whatever is sent again, each revision of the week is made by one operation, once.
THEOREM OnceAlways == Spec => []OncePerWeek
<1>1. Inv => OncePerWeek
      BY DEF Inv
<1> QED  BY <1>1, Invariance, PTL

\* "Apply changes" puts its own proposal in the place of the outbox of d.
Replaced(d) == \E s \in ToSet(outbox'[d]) : s.op \in repairs' \ repairs

\* Every row of every outbox stays, by operation, or is observed, or something there is rejected,
\* or the outbox is replaced.
Shown ==
    \A d \in Device : \A r \in Rows(d) :
        \/ \E s \in ToSet(outbox'[d]) : s.op = r.op
        \/ r \in Observed(d)
        \/ InState(d, "rejected") # {}
        \/ Replaced(d)

LEMMA ShownBy ==
    ASSUME Inv, NEW d \in Device, NEW rows, outbox' = [outbox EXCEPT ![d] = rows],
           InState(d, "rejected") = {} =>
               \A r \in Rows(d) : r \in Observed(d) \/ \E s \in ToSet(rows) : s.op = r.op
    PROVE  Shown
<1>1. outbox'[d] = rows /\ \A e \in Device : e # d => outbox'[e] = outbox[e]
      BY DEF Inv, Types
<1> SUFFICES ASSUME NEW e \in Device, NEW r \in Rows(e)
             PROVE  \/ \E s \in ToSet(outbox'[e]) : s.op = r.op
                    \/ r \in Observed(e)
                    \/ InState(e, "rejected") # {}
    BY DEF Shown
<1>2. CASE e = d
      BY <1>1, <1>2
<1>3. CASE e # d
      BY <1>1, <1>3 DEF Rows
<1> QED  BY <1>2, <1>3

\* A step that keeps the row at each place keeps the operations.
SameOps(s, u) == \A i \in DOMAIN s : i \in DOMAIN u /\ u[i].op = s[i].op

LEMMA InPlace ==
    ASSUME NEW s, NEW u, SameOps(s, u)
    PROVE  \A r \in ToSet(s) : \E c \in ToSet(u) : c.op = r.op
BY DEF SameOps, ToSet

LEMMA InPlaceShows ==
    ASSUME Inv, NEW d \in Device, NEW rows, outbox' = [outbox EXCEPT ![d] = rows],
           SameOps(outbox[d], rows)
    PROVE  Shown
<1>1. PICK old : old = outbox[d]
      OBVIOUS
<1>2. \A r \in ToSet(old) : \E s \in ToSet(rows) : s.op = r.op
      BY <1>1, InPlace
<1>3. Rows(d) = ToSet(old)
      BY <1>1 DEF Rows
<1>4. \A r \in Rows(d) : \E s \in ToSet(rows) : s.op = r.op
      BY <1>2, <1>3
<1> QED  BY <1>4, ShownBy

LEMMA SubmitShows ==
    ASSUME Inv, NEW t \in Tab, NEW E \in SUBSET Day, Submit(t, E)
    PROVE  Shown
<1> DEFINE d == Home[t]
           n == Len(outbox[d])
<1>1. /\ d \in Device /\ n \in Nat /\ DOMAIN outbox[d] = 1..n /\ outbox[d] \in Seq(Row)
      /\ \A i \in DOMAIN outbox[d] : outbox[d][i] \in Row
      /\ outbox[d] # <<>> => n \in 1..n
      BY RowsType DEF Inv
<1>2. ASSUME NEW days, outbox' = [outbox EXCEPT ![d][n].days = days], outbox[d] # <<>> PROVE Shown
  <2> DEFINE rows == [outbox[d] EXCEPT ![n] = [outbox[d][n] EXCEPT !.days = days]]
  <2>1. outbox' = [outbox EXCEPT ![d] = rows]
        BY <1>1, <1>2 DEF Inv, Types
  <2>2. \A i \in 1..n : rows[i].op = outbox[d][i].op
        BY <1>1 DEF Row
  <2>3. DOMAIN rows = DOMAIN outbox[d]
        OBVIOUS
  <2> HIDE DEF rows
  <2>4. PICK u : u = rows
        OBVIOUS
  <2>5. outbox' = [outbox EXCEPT ![d] = u] /\ SameOps(outbox[d], u)
        BY <1>1, <2>1, <2>2, <2>3, <2>4 DEF SameOps
  <2> QED  BY <1>1, <2>5, InPlaceShows
<1>3. ASSUME NEW row, outbox' = [outbox EXCEPT ![d] = Append(@, row)] PROVE Shown
  <2>1. PICK rows : rows = Append(outbox[d], row)
        OBVIOUS
  <2>2. 1..n \subseteq DOMAIN rows /\ \A i \in 1..n : rows[i] = outbox[d][i]
        BY <1>1, <2>1
  <2>3. outbox' = [outbox EXCEPT ![d] = rows]
        BY <1>1, <1>3, <2>1 DEF Inv, Types
  <2>4. SameOps(outbox[d], rows)
        BY <1>1, <2>2 DEF SameOps
  <2> QED  BY <1>1, <2>3, <2>4, InPlaceShows
<1>4. \/ outbox[d] # <<>> /\ outbox' = [outbox EXCEPT ![d][n].days = Edited(editor[t], E, Latest(d).op)]
      \/ \E o \in Fresh : outbox' = [outbox EXCEPT ![d] =
            Append(@, NewRow(o, Expected(t), Edited(editor[t], E, o),
                             IF outbox[d] = <<>> THEN editor[t].base ELSE Latest(d).days,
                             IF outbox[d] = <<>> THEN None ELSE Latest(d).op))]
      BY DEF Submit
<1>5. CASE outbox[d] # <<>> /\ outbox' = [outbox EXCEPT ![d][n].days = Edited(editor[t], E, Latest(d).op)]
  <2>1. PICK days : days = Edited(editor[t], E, Latest(d).op)
        OBVIOUS
  <2> QED  BY <1>2, <1>5, <2>1
<1>6. ASSUME NEW o \in Fresh, outbox' = [outbox EXCEPT ![d] =
            Append(@, NewRow(o, Expected(t), Edited(editor[t], E, o),
                             IF outbox[d] = <<>> THEN editor[t].base ELSE Latest(d).days,
                             IF outbox[d] = <<>> THEN None ELSE Latest(d).op))]
      PROVE  Shown
  <2>1. PICK row : row = NewRow(o, Expected(t), Edited(editor[t], E, o),
                             IF outbox[d] = <<>> THEN editor[t].base ELSE Latest(d).days,
                             IF outbox[d] = <<>> THEN None ELSE Latest(d).op)
        OBVIOUS
  <2> QED  BY <1>3, <1>6, <2>1
<1> QED  BY <1>4, <1>5, <1>6

LEMMA MarkShows ==
    ASSUME Inv, NEW d \in Device, NEW o, NEW allowed, NEW state, NEW result,
           Mark(d, o, allowed, state, result)
    PROVE  Shown
<1> DEFINE marked == [i \in DOMAIN outbox[d] |->
                         IF outbox[d][i].op = o /\ outbox[d][i].state \in allowed
                         THEN [outbox[d][i] EXCEPT !.state = state, !.result = result]
                         ELSE outbox[d][i]]
<1>1. outbox' = [outbox EXCEPT ![d] = marked]
      BY DEF Mark, Inv, Types
<1>2. \A i \in DOMAIN outbox[d] : outbox[d][i] \in Row
      BY RowsType DEF Inv
<1>3. \A i \in DOMAIN outbox[d] : marked[i].op = outbox[d][i].op
      BY <1>2 DEF Row
<1>4. DOMAIN marked = DOMAIN outbox[d]
      OBVIOUS
<1> HIDE DEF marked
<1>5. PICK rows : rows = marked
      OBVIOUS
<1>6. outbox' = [outbox EXCEPT ![d] = rows] /\ SameOps(outbox[d], rows)
      BY <1>1, <1>3, <1>4, <1>5 DEF SameOps
<1> QED  BY <1>6, InPlaceShows

LEMMA UploadShows ==
    ASSUME Inv, NEW t \in Tab, Take(t) \/ Forget(t)
    PROVE  Shown
<1> DEFINE d == Home[t]
<1>0. d \in Device
      OBVIOUS
<1>1. PICK rows : rows = Cleaned(d)
      OBVIOUS
<1>2. \A r \in Rows(d) : r \in Observed(d) \/ \E c \in ToSet(rows) : c.op = r.op
      BY <1>1, CleanedOK
<1>3. rows \in Seq(Row)
      BY <1>1, CleanedOK
<1>4. CASE Forget(t)
  <2>1. outbox' = [outbox EXCEPT ![d] = rows]
        BY <1>1, <1>4 DEF Forget
  <2> QED  BY <1>0, <1>2, <2>1, ShownBy
<1>5. CASE Take(t)
  <2>0. PICK i \in DOMAIN rows : TakesRow(t, rows, i)
        BY <1>1, <1>5, TakeFinds
  <2>1. PICK expected :
            outbox' = [outbox EXCEPT ![d] =
               [rows EXCEPT ![i] = [rows[i] EXCEPT !.state = "sending", !.tried = TRUE,
                                                   !.expected = expected]]]
        BY <2>0 DEF TakesRow
  <2>2. rows[i] \in Row
        BY <1>3, ElementOfSeq, LenProperties
  <2>3. PICK new : new = [rows[i] EXCEPT !.state = "sending", !.tried = TRUE, !.expected = expected]
        OBVIOUS
  <2>4. new.op = rows[i].op
        BY <2>2, <2>3 DEF Row
  <2>5. PICK sent : sent = [rows EXCEPT ![i] = new]
        OBVIOUS
  <2>6. SameOps(rows, sent)
        BY <2>4, <2>5 DEF SameOps
  <2>7. \A c \in ToSet(rows) : \E s \in ToSet(sent) : s.op = c.op
        BY <2>6, InPlace
  <2>8. \A r \in Rows(d) : r \in Observed(d) \/ \E s \in ToSet(sent) : s.op = r.op
        BY <1>2, <2>7
  <2>9. outbox' = [outbox EXCEPT ![d] = sent]
        BY <2>1, <2>3, <2>5
  <2> QED  BY <1>0, <2>8, <2>9, ShownBy
<1> QED  BY <1>4, <1>5

LEMMA RepairShows ==
    ASSUME Inv, Named, NEW t \in Tab, Repair(t)
    PROVE  Shown
<1>1. \E o \in Fresh : \E row :
          /\ outbox' = [outbox EXCEPT ![Home[t]] = <<row>>] /\ row.op = o /\ repairs' = repairs \cup {o}
  <2>1. PICK o \in Fresh : \E expected, days, base :
            /\ outbox' = [outbox EXCEPT ![Home[t]] = <<NewRow(o, expected, days, base, None)>>]
            /\ repairs' = repairs \cup {o}
        BY DEF Repair
  <2>2. PICK expected, days, base :
            /\ outbox' = [outbox EXCEPT ![Home[t]] = <<NewRow(o, expected, days, base, None)>>]
            /\ repairs' = repairs \cup {o}
        BY <2>1
  <2>3. NewRow(o, expected, days, base, None).op = o
        BY DEF NewRow
  <2> QED  BY <2>2, <2>3
<1>2. PICK o \in Fresh : \E row :
          /\ outbox' = [outbox EXCEPT ![Home[t]] = <<row>>] /\ row.op = o /\ repairs' = repairs \cup {o}
      BY <1>1
<1>3. PICK row :
          /\ outbox' = [outbox EXCEPT ![Home[t]] = <<row>>] /\ row.op = o /\ repairs' = repairs \cup {o}
      BY <1>2
<1>4. outbox'[Home[t]] = <<row>> /\ \A e \in Device : e # Home[t] => outbox'[e] = outbox[e]
      BY <1>3 DEF Inv, Types
<1>5. o \notin repairs
      BY DEF Named, Fresh
<1>6. Replaced(Home[t])
      BY <1>3, <1>4, <1>5 DEF Replaced, ToSet
<1> QED  BY <1>3, <1>4, <1>6 DEF Shown, Rows

LEMMA NextShows == Inv /\ Named /\ [Next]_vars => Shown
<1> SUFFICES ASSUME Inv, Named, [Next]_vars PROVE Shown
    OBVIOUS
<1>1. ASSUME outbox' = outbox PROVE Shown
      BY <1>1 DEF Shown, Rows
<1>2. ASSUME NEW t \in Tab, Repair(t) PROVE Shown
      BY <1>2, RepairShows
<1>3. ASSUME NEW t \in Tab, Discard(t) PROVE Shown
  <2>1. PICK rows : outbox' = [outbox EXCEPT ![Home[t]] = rows]
        BY <1>3 DEF Discard
  <2> QED  BY <1>3, <2>1, ShownBy DEF Discard
<1>4. ASSUME NEW d \in Device, DiscardQueue(d) PROVE Shown
  <2>1. PICK rows : outbox' = [outbox EXCEPT ![d] = rows]
        BY <1>4 DEF DiscardQueue
  <2> QED  BY <1>4, <2>1, ShownBy DEF DiscardQueue
<1>5. ASSUME NEW t \in Tab, Receive(t) \/ GiveUp(t) PROVE Shown
  <2>1. PICK o, allowed, state, result : Mark(Home[t], o, allowed, state, result)
        BY <1>5 DEF Receive, Accepted, Rejected, GiveUp
  <2> QED  BY <2>1, MarkShows
<1>6. ASSUME NEW t \in Tab,
             \/ OpenEditor(t) \/ CloseEditor(t) \/ Rebase(t) \/ Die(t)
             \/ (\E E \in SUBSET Day : ApplyChanges(t, E)) \/ ReadRevision(t) \/ RepairFails(t)
      PROVE  Shown
      BY <1>1, <1>6 DEF OpenEditor, CloseEditor, Rebase, Die, ApplyChanges, ReadRevision, RepairFails
<1>7. CASE \E t \in Tab :
              \/ OpenEditor(t) \/ CloseEditor(t) \/ Rebase(t) \/ Discard(t)
              \/ \E E \in SUBSET Day : (E # {} /\ Submit(t, E)) \/ ApplyChanges(t, E)
              \/ ReadRevision(t) \/ Repair(t) \/ RepairFails(t)
              \/ Take(t) \/ Forget(t) \/ Receive(t) \/ GiveUp(t) \/ Die(t)
      BY <1>2, <1>3, <1>5, <1>6, <1>7, SubmitShows, UploadShows
<1>8. CASE \E q \in net : Replace(q)
      BY <1>1, <1>8 DEF Replace
<1>9. CASE \E d \in Device : Sync(d) \/ DiscardQueue(d)
      BY <1>1, <1>4, <1>9 DEF Sync
<1>10. CASE UNCHANGED vars
      BY <1>1, <1>10 DEF vars
<1> QED  BY <1>7, <1>8, <1>9, <1>10 DEF Next

\* An accepted week leaves the outbox only when the replica shows it, a rejected one is given up or
\* "Apply changes" of some tab replaces the outbox: what the person saved does not vanish from the
\* screen in between.
THEOREM ShownAlways == Spec => ShownUntilSynced
<1>1. Inv /\ Named /\ [Next]_vars =>
        [\A d \in Device : \A r \in InState(d, "accepted") :
            (\A s \in ToSet(outbox'[d]) : s.op # r.op) =>
                \/ replica[d].revision >= r.result
                \/ InState(d, "rejected") # {}
                \/ \E s \in ToSet(outbox'[d]) : s.op \in repairs' \ repairs]_vars
      BY NextShows DEF Shown, Replaced, Observed, InState
<1> QED  BY <1>1, Invariance, PTL DEF Spec, ShownUntilSynced

------------------------------------------------------------------------------
(***************************************************************************)
(* Whose days a week carries.  A proposal is right, outside the days the   *)
(* person changed, about the week it replaces: the server's as long as its *)
(* revision is the newest, or its predecessor's; once the server is past   *)
(* that revision it is refused, and what it says of other days is of no    *)
(* account.                                                                *)
(***************************************************************************)
Free(o) == o \notin repairs \cup resumed
Agrees(v, w, m) == \A x \in Day : v[x] # w[x] => x \in m

\* A tried row that nothing can follow: its week was replaced, or it was refused for good.
Stale(p) == p.tried /\ (p.expected + 1 < revision \/ (p.expected < revision /\ ~Applied(p.op)))

\* What an earlier row p of an outbox is to a later row r.
Before(rows, p, r) ==
    /\ p.tried
    /\ IF r.tried
       THEN p.state = "accepted" /\ p.expected < r.expected
       ELSE p.op # r.predecessor =>
                /\ r.predecessor # None /\ p.state = "accepted"
                /\ \A c \in ToSet(rows) : c.op = r.predecessor => p.expected < c.expected

Ordered(rows) == \A i, j \in DOMAIN rows : i < j => Before(rows, rows[i], rows[j])

\* The untried row r would be right with these days, were the days in m changed by hand.
Own(rows, r, days, m) ==
    /\ r.predecessor # r.op
    /\ Free(r.op) /\ r.predecessor = None /\ r.expected = revision => Agrees(week, days, m)
    /\ Free(r.op) => \A c \in Parents(rows, r) : Stale(c) \/ Agrees(c.days, days, m)

OwnRows(rows) == \A r \in ToSet(rows) : ~r.tried => Own(rows, r, r.days, meant[r.op])

\* An editor that may change a waiting row, or follow a sent one, unless it was rebased while its
\* rejected week was sent again.
Shows(e, days) == \E x \in Int : e.payload = <<x, days>>
Astray(e) == e.id \in repairs /\ ~Shows(e, e.days)
OwnEditor(rows, e) ==
    e.open /\ ~Astray(e) => \A r \in ToSet(rows) : r.op = e.id =>
        IF r.tried THEN Shows(e, r.days) => Stale(r) \/ Agrees(r.days, e.days, e.mine)
        ELSE Shows(e, e.days) /\ Own(rows, r, e.days, e.mine)

\* The editor of a new proposal starts from what was synced; any other has an operation.
NewEditor(e) ==
    e.open => IF e.id = None
              THEN e.mine = {} /\ e.revision = revision => e.days = week
              ELSE meant[e.id] # {}

LastInv == \A o \in Op : Applied(o) /\ receipt[o].expected + 1 = revision => week = receipt[o].days
ReplicaInv == \A d \in Device : replica[d].revision = revision => replica[d].week = week
NetOwn == \A q \in net : Free(q.op) /\ q.expected = revision => Agrees(week, q.days, meant[q.op])
RowsOwn == \A d \in Device : Ordered(outbox[d]) /\ OwnRows(outbox[d])
EditorsOwn == \A t \in Tab : NewEditor(editor[t]) /\ OwnEditor(outbox[Home[t]], editor[t])

OwnInv == LastInv /\ ReplicaInv /\ NetOwn /\ RowsOwn /\ EditorsOwn

LEMMA OwnInit == Init => OwnInv
<1> SUFFICES ASSUME Init PROVE OwnInv
    OBVIOUS
<1>1. Closed.open = FALSE
      BY DEF Closed
<1>2. \A d \in Device : outbox[d] = <<>>
      BY DEF Init
<1>3. Ordered(<<>>) /\ OwnRows(<<>>)
      BY DEF Ordered, OwnRows, ToSet
<1> QED  BY <1>1, <1>2, <1>3 DEF Init, OwnInv, LastInv, ReplicaInv, NetOwn, RowsOwn, EditorsOwn,
            NewEditor, OwnEditor, Applied

\* The receipt of a tried row is of the request it sent.
LEMMA TriedApplied ==
    ASSUME Inv, NEW r \in Row, RowOK(r), r.tried, Applied(r.op)
    PROVE  receipt[r.op].expected = r.expected /\ receipt[r.op].days = r.days
<1>1. Sent(r) \in net /\ r.op \in Op
      BY DEF RowOK, Row
<1>2. PICK q \in net : q.op = r.op /\ receipt[r.op] = [expected |-> q.expected, days |-> q.days]
      BY <1>1 DEF Inv, ReceiptInv
<1>3. q = Sent(r)
      BY <1>1, <1>2 DEF Inv, NetInv, Sent
<1> QED  BY <1>2, <1>3 DEF Sent

LEMMA AcceptedRow ==
    ASSUME Inv, NEW r \in Row, RowOK(r), r.state = "accepted"
    PROVE  r.tried /\ Applied(r.op) /\ r.result = r.expected + 1 /\ r.expected < revision
<1>1. r.tried /\ Applied(r.op) /\ r.op \in Op
      BY DEF RowOK, Row
<1> QED  BY <1>1, TriedApplied DEF RowOK, Inv, ReceiptInv

\* An applied row is the last one, or replaced.
LEMMA StaleOrLast ==
    ASSUME Inv, OwnInv, NEW r \in Row, RowOK(r), r.tried, Applied(r.op)
    PROVE  Stale(r) \/ (r.expected + 1 = revision /\ week = r.days)
<1>1. r.op \in Op /\ receipt[r.op].expected = r.expected /\ receipt[r.op].days = r.days
      BY TriedApplied DEF Row
<1>2. r.expected \in Int /\ r.expected < revision /\ revision \in Nat
      BY <1>1 DEF Inv, ReceiptInv, Types, Row
<1> QED  BY <1>1, <1>2 DEF Stale, OwnInv, LastInv

\* Not both.
LEMMA LastNotStale ==
    ASSUME Inv, NEW r \in Row, RowOK(r), r.state = "accepted", r.result = revision
    PROVE  ~Stale(r)
<1>1. Applied(r.op) /\ r.result = r.expected + 1 /\ r.expected \in Int /\ revision \in Nat
      BY AcceptedRow DEF Row, Inv, Types
<1> QED  BY <1>1 DEF Stale

\* What is right of a week stays right while the server stays and operations are named.
Kept == UNCHANGED <<revision, week, receipt>> /\ repairs \subseteq repairs' /\ resumed \subseteq resumed'

LEMMA OwnStays ==
    ASSUME Kept, NEW rows, NEW r, NEW days, NEW m, Own(rows, r, days, m)
    PROVE  Own(rows, r, days, m)'
<1>1. \A c : Stale(c) => Stale(c)'
      BY DEF Kept, Stale, Applied
<1>2. Free(r.op)' => Free(r.op)
      BY DEF Kept, Free
<1> QED  BY <1>1, <1>2 DEF Kept, Own, Agrees, Parents

LEMMA EditorStays ==
    ASSUME Kept, NEW rows, NEW e, OwnEditor(rows, e)
    PROVE  OwnEditor(rows, e)'
<1>1. \A c : Stale(c)' <=> Stale(c)
      BY DEF Kept, Stale, Applied
<1>2. \A r : Own(rows, r, e.days, e.mine) => Own(rows, r, e.days, e.mine)'
      BY OwnStays
<1>3. Astray(e) => Astray(e)'
      BY DEF Kept, Astray, Shows
<1> QED  BY <1>1, <1>2, <1>3 DEF OwnEditor, Agrees, Shows

\* Changing more days by hand.
LEMMA AgreesEdited ==
    ASSUME NEW t \in Tab, NEW E \in SUBSET Day, NEW o, NEW v, Agrees(v, editor[t].days, editor[t].mine)
    PROVE  Agrees(v, Edited(editor[t], E, o), editor[t].mine \cup E)
BY DEF Agrees, Edited

LEMMA OwnEdited ==
    ASSUME NEW t \in Tab, NEW E \in SUBSET Day, NEW o, NEW rows, NEW r,
           Own(rows, r, editor[t].days, editor[t].mine)
    PROVE  Own(rows, r, Edited(editor[t], E, o), editor[t].mine \cup E)
BY AgreesEdited DEF Own

------------------------------------------------------------------------------
(***************************************************************************)
(* Steps that leave every outbox.                                          *)
(***************************************************************************)
LEMMA ReplaceOwn ==
    ASSUME Inv, OwnInv, NEW q \in net, Replace(q)
    PROVE  OwnInv'
<1> USE DEF Inv
<1>1. UNCHANGED <<outbox, replica, editor, waiting, net, meant, repairs, resumed>>
      BY DEF Replace
<1>2. CASE UNCHANGED server
  <2>1. Kept /\ UNCHANGED <<revision, week, receipt>>
        BY <1>1, <1>2 DEF server, Kept
  <2>2. \A c : Stale(c)' <=> Stale(c)
        BY <2>1 DEF Stale, Applied
  <2>3. \A o : Free(o)' <=> Free(o)
        BY <1>1 DEF Free
  <2>4. LastInv' /\ ReplicaInv' /\ NetOwn'
        BY <1>1, <2>1, <2>3 DEF OwnInv, LastInv, ReplicaInv, NetOwn, Applied, Agrees
  <2>5. \A rows, r, days, m : Own(rows, r, days, m)' <=> Own(rows, r, days, m)
        BY <2>1, <2>2, <2>3 DEF Own, Agrees, Parents
  <2>6. \A rows : OwnRows(rows)' <=> OwnRows(rows)
        BY <1>1, <2>5 DEF OwnRows
  <2>7. \A rows, e : OwnEditor(rows, e)' <=> OwnEditor(rows, e)
        BY <1>1, <2>2, <2>5 DEF OwnEditor, Agrees, Shows, Astray
  <2>8. \A e : NewEditor(e)' <=> NewEditor(e)
        BY <1>1, <2>1 DEF NewEditor
  <2>9. RowsOwn' /\ EditorsOwn'
        BY <1>1, <2>6, <2>7, <2>8 DEF OwnInv, RowsOwn, EditorsOwn, Ordered, Before
  <2> QED  BY <2>4, <2>9 DEF OwnInv
<1>3. CASE ~Applied(q.op) /\ revision = q.expected /\ Apply(q)
  <2>1. q.op \in Op /\ revision \in Nat /\ q.expected \in Int /\ DOMAIN receipt = Op
        BY DEF Types
  <2>2. /\ revision' = revision + 1 /\ week' = q.days
        /\ receipt'[q.op] = [expected |-> q.expected, days |-> q.days]
        /\ \A o \in Op \ {q.op} : receipt'[o] = receipt[o]
        BY <1>3, <2>1 DEF Apply, Types
  <2>3. LastInv'
    <3> SUFFICES ASSUME NEW o \in Op, Applied(o)', receipt'[o].expected + 1 = revision'
                 PROVE  week' = receipt'[o].days
        BY DEF LastInv
    <3>1. CASE o = q.op
          BY <2>2, <3>1
    <3>2. CASE o # q.op
      <4>1. Applied(o) /\ receipt'[o] = receipt[o]
            BY <2>2, <3>2 DEF Applied
      <4>2. receipt[o].expected \in Nat /\ receipt[o].expected < revision
            BY <4>1 DEF ReceiptInv
      <4> QED  BY <2>1, <2>2, <4>1, <4>2
    <3> QED  BY <3>1, <3>2
  <2>4. ReplicaInv'
    <3>1. \A d \in Device : replica[d].revision <= revision /\ replica[d].revision \in Nat
          BY DEF SyncedInv, Types
    <3> QED  BY <1>1, <2>1, <2>2, <3>1 DEF ReplicaInv
  <2>5. \A o : Free(o)' <=> Free(o)
        BY <1>1 DEF Free
  <2>6. NetOwn'
    <3>1. \A p \in net : Free(p.op) => p.expected <= revision /\ p.expected \in Int
          BY DEF NetInv, Types, Free
    <3> QED  BY <1>1, <2>1, <2>2, <2>5, <3>1 DEF NetOwn
  <2>7. ASSUME NEW r \in Row, RowOK(r), Stale(r) PROVE Stale(r)'
    <3>1. r.tried /\ Sent(r) \in net /\ r.expected \in Int
          BY <2>7 DEF Stale, RowOK, Row
    <3>2. CASE r.expected + 1 < revision
          BY <2>1, <2>2, <3>1, <3>2 DEF Stale
    <3>3. CASE r.expected < revision /\ ~Applied(r.op)
      <4>1. r.op # q.op
        <5>1. r.op = q.op => Sent(r) = q
              BY <3>1 DEF NetInv, Sent
        <5> QED  BY <1>3, <2>1, <3>1, <3>3, <5>1 DEF Sent
      <4>2. ~Applied(r.op)'
            BY <2>2, <2>7, <3>3, <4>1 DEF Applied, Row
      <4> QED  BY <2>1, <2>2, <3>1, <3>3, <4>2 DEF Stale
    <3> QED  BY <2>7, <3>2, <3>3 DEF Stale
  <2>8. \A d \in Device : \A r \in Rows(d) : r \in Row /\ RowOK(r) /\ r.op \in Op /\ r.expected \in Int
        BY RowsType DEF RowsInv, Row
  <2>9. ASSUME NEW d \in Device, NEW r \in Rows(d), ~r.tried, NEW days, NEW m, Own(outbox[d], r, days, m)
        PROVE  Own(outbox[d], r, days, m)'
    <3>1. Free(r.op) /\ r.predecessor = None => r.expected <= revision
          BY <2>8, <2>9 DEF RowOK, Free
    <3>2. Free(r.op)' /\ r.predecessor = None => r.expected # revision'
          BY <2>1, <2>2, <2>5, <2>8, <3>1
    <3>3. \A c \in Parents(outbox[d], r) : c \in Rows(d)
          BY DEF Parents, Rows
    <3>4. Free(r.op) => \A c \in Parents(outbox[d], r) : Stale(c)' \/ Agrees(c.days, days, m)
          BY <2>7, <2>8, <2>9, <3>3 DEF Own
    <3> QED  BY <1>1, <2>5, <2>9, <3>2, <3>4 DEF Own, Parents, Agrees
  <2>10. RowsOwn'
    <3>1. \A d \in Device : Ordered(outbox[d]) /\ OwnRows(outbox[d])
          BY DEF OwnInv, RowsOwn
    <3>2. ASSUME NEW d \in Device PROVE Ordered(outbox[d])' /\ OwnRows(outbox[d])'
      <4>1. Ordered(outbox[d])'
            BY <1>1, <3>1 DEF Ordered, Before
      <4>2. ASSUME NEW r \in Rows(d), ~r.tried PROVE Own(outbox[d], r, r.days, meant[r.op])'
        <5>1. PICK days, m : days = r.days /\ m = meant[r.op]
              OBVIOUS
        <5>2. Own(outbox[d], r, days, m)
              BY <3>1, <4>2, <5>1 DEF OwnRows, Rows
        <5>3. Own(outbox[d], r, days, m)'
              BY <2>9, <4>2, <5>2
        <5>4. (r.days)' = days /\ (meant[r.op])' = m
              BY <1>1, <5>1
        <5> QED  BY <5>3, <5>4 DEF Own
      <4> QED  BY <1>1, <4>1, <4>2 DEF OwnRows, Rows
    <3> QED  BY <3>2 DEF RowsOwn
  <2>11. EditorsOwn'
    <3> SUFFICES ASSUME NEW t \in Tab, editor[t].open
                 PROVE  NewEditor(editor[t])' /\ OwnEditor(outbox[Home[t]], editor[t])'
        BY <1>1 DEF EditorsOwn, OwnEditor, NewEditor
    <3> DEFINE e == editor[t]
               d == Home[t]
    <3>1. NewEditor(e) /\ OwnEditor(outbox[d], e) /\ d \in Device
          BY DEF OwnInv, EditorsOwn
    <3>2. e.id = None => e.revision # revision'
      <4>1. e.id = None => e.revision <= revision /\ e.revision \in Int
            BY EditorType DEF SyncedInv, OpenWeek
      <4> QED  BY <2>1, <2>2, <4>1
    <3>3. NewEditor(e)'
          BY <1>1, <3>1, <3>2 DEF NewEditor
    <3>4. ASSUME ~Astray(e), NEW r \in Rows(d), r.op = e.id
          PROVE  IF r.tried THEN Shows(e, r.days) => Stale(r)' \/ Agrees(r.days, e.days, e.mine)
                 ELSE Shows(e, e.days) /\ Own(outbox[d], r, e.days, e.mine)'
      <4>1. IF r.tried THEN Shows(e, r.days) => Stale(r) \/ Agrees(r.days, e.days, e.mine)
            ELSE Shows(e, e.days) /\ Own(outbox[d], r, e.days, e.mine)
            BY <3>1, <3>4 DEF OwnEditor, Rows
      <4>2. CASE r.tried
            BY <2>7, <2>8, <3>1, <4>1, <4>2
      <4>3. CASE ~r.tried
        <5>1. PICK days, m : days = e.days /\ m = e.mine
              OBVIOUS
        <5>2. Own(outbox[d], r, days, m)'
              BY <2>9, <3>1, <4>1, <4>3, <5>1
        <5>3. e.days' = days /\ e.mine' = m
              BY <1>1, <5>1
        <5> QED  BY <1>1, <4>1, <4>3, <5>2, <5>3 DEF Own
      <4> QED  BY <4>2, <4>3
    <3> QED  BY <1>1, <3>3, <3>4 DEF OwnEditor, Rows, Shows, Agrees, Astray
  <2> QED  BY <2>3, <2>4, <2>6, <2>10, <2>11 DEF OwnInv
<1> QED  BY <1>2, <1>3 DEF Replace

\* A step that sets at most the editor of one tab, to a right one.
LEMMA TabOwn ==
    ASSUME Inv, OwnInv, UNCHANGED <<revision, week, receipt, outbox, replica, net, meant, repairs, resumed>>,
           NEW t \in Tab, NEW w, editor' = [editor EXCEPT ![t] = w],
           NewEditor(w), OwnEditor(outbox[Home[t]], w)
    PROVE  OwnInv'
<1>1. Kept
      BY DEF Kept
<1>2. \A o : Free(o)' <=> Free(o)
      BY DEF Free
<1>3. LastInv' /\ ReplicaInv' /\ NetOwn'
      BY <1>2 DEF OwnInv, LastInv, ReplicaInv, NetOwn, Applied, Agrees
<1>4. RowsOwn'
  <2>1. \A rows, r, days, m : Own(rows, r, days, m) => Own(rows, r, days, m)'
        BY <1>1, OwnStays
  <2>2. \A rows : OwnRows(rows) => OwnRows(rows)'
        BY <2>1 DEF OwnRows
  <2> QED  BY <2>2 DEF OwnInv, RowsOwn, Ordered, Before
<1>5. \A u \in Tab : u # t => editor'[u] = editor[u]
      BY DEF Inv, Types
<1>6. editor'[t] = w
      BY DEF Inv, Types
<1>7. \A e : NewEditor(e)' <=> NewEditor(e)
      BY DEF NewEditor
<1>8. \A u \in Tab : NewEditor(editor'[u]) /\ OwnEditor(outbox[Home[u]], editor'[u])
      BY <1>5, <1>6 DEF OwnInv, EditorsOwn
<1>9. \A rows, e : OwnEditor(rows, e) => OwnEditor(rows, e)'
      BY <1>1, EditorStays
<1>10. EditorsOwn'
      BY <1>7, <1>8, <1>9 DEF EditorsOwn
<1> QED  BY <1>3, <1>4, <1>10 DEF OwnInv

LEMMA OpenEditorOwn ==
    ASSUME Inv, OwnInv, NEW t \in Tab, OpenEditor(t)
    PROVE  OwnInv'
<1> USE DEF Inv
<1>1. PICK d \in Device : d = Home[t]
      OBVIOUS
<1>2. UNCHANGED <<revision, week, receipt, outbox, replica, net, meant, repairs, resumed>>
      BY DEF OpenEditor, server
<1>3. outbox[d] # <<>> => /\ Latest(d) \in Row /\ Latest(d) \in Rows(d) /\ RowOK(Latest(d))
                          /\ \A r \in Rows(d) : r.op = Latest(d).op => r = Latest(d)
      BY RowsType, SameOpSameRow DEF RowsInv
<1>4. CASE AwaitsServer(d)
  <2>1. PICK last \in Row : last = Latest(d) /\ last \in Rows(d) /\ RowOK(last)
                            /\ \A r \in Rows(d) : r.op = last.op => r = last
        BY <1>3, <1>4 DEF AwaitsServer
  <2>2. PICK w : w = [open |-> TRUE, days |-> last.days, revision |-> last.expected + 1,
                      id |-> last.op, payload |-> <<last.expected, last.days>>,
                      base |-> last.base, rebased |-> None, mine |-> meant[last.op]]
        OBVIOUS
  <2>3. editor' = [editor EXCEPT ![t] = w]
        BY <1>1, <1>4, <2>1, <2>2 DEF OpenEditor
  <2>4. last.op \in Op /\ last.op # None /\ meant[last.op] # {} /\ last.expected \in Int
        BY <2>1 DEF RowOK, Row
  <2>5. w.open /\ w.id = last.op /\ w.days = last.days /\ w.mine = meant[last.op]
        /\ w.payload = <<last.expected, w.days>>
        BY <2>2
  <2>6. NewEditor(w)
        BY <2>4, <2>5 DEF NewEditor
  <2>7. ~last.tried => Own(outbox[d], last, w.days, w.mine)
        BY <2>1, <2>5 DEF OwnInv, RowsOwn, OwnRows, Rows
  <2>8. OwnEditor(outbox[d], w)
        BY <2>1, <2>4, <2>5, <2>7 DEF OwnEditor, Shows, Agrees, Rows
  <2> QED  BY <1>1, <1>2, <2>3, <2>6, <2>8, TabOwn
<1>5. CASE ~AwaitsServer(d)
  <2> DEFINE empty == outbox[d] = <<>>
  <2>1. PICK w : w = [open |-> TRUE, days |-> replica[d].week, revision |-> replica[d].revision,
                      id |-> IF empty THEN None ELSE Latest(d).op,
                      payload |-> IF empty THEN <<>> ELSE <<Latest(d).expected, Latest(d).days>>,
                      base |-> replica[d].week, rebased |-> None, mine |-> {}]
        OBVIOUS
  <2>2. editor' = [editor EXCEPT ![t] = w]
        BY <1>1, <1>5, <2>1 DEF OpenEditor
  <2>3. w.open /\ w.days = replica[d].week /\ w.revision = replica[d].revision /\ w.mine = {}
        /\ w.id = IF empty THEN None ELSE Latest(d).op
        BY <2>1
  <2>4. replica[d].revision = revision => replica[d].week = week
        BY DEF OwnInv, ReplicaInv
  <2>5. CASE empty
    <3>1. NewEditor(w)
          BY <2>3, <2>4, <2>5 DEF NewEditor
    <3>2. OwnEditor(outbox[d], w)
          BY <2>5 DEF OwnEditor, ToSet
    <3> QED  BY <1>1, <1>2, <2>2, <3>1, <3>2, TabOwn
  <2>6. CASE ~empty
    <3>1. PICK last \in Row : last = Latest(d) /\ last \in Rows(d) /\ RowOK(last)
                              /\ \A r \in Rows(d) : r.op = last.op => r = last
          BY <1>3, <2>6
    <3>2. last.state = "accepted" /\ ~(replica[d].revision < last.result)
          BY <1>5, <2>6, <3>1 DEF AwaitsServer
    <3>3. last.tried /\ Applied(last.op) /\ last.result = last.expected + 1
          /\ last.op \in Op /\ meant[last.op] # {} /\ last.expected \in Int
          BY <3>1, <3>2, AcceptedRow DEF RowOK, Row
    <3>4. Stale(last) \/ (last.result = revision /\ week = last.days)
          BY <3>1, <3>3, StaleOrLast
    <3>5. replica[d].revision <= revision /\ replica[d].revision \in Nat /\ revision \in Nat
          BY DEF SyncedInv, Types
    <3>6. last.result = revision => w.days = week
          BY <2>3, <2>4, <3>2, <3>5
    <3>7. Stale(last) \/ Agrees(last.days, w.days, w.mine)
          BY <3>4, <3>6 DEF Agrees
    <3>8. NewEditor(w)
          BY <2>3, <2>6, <3>1, <3>3 DEF NewEditor
    <3>9. OwnEditor(outbox[d], w)
          BY <2>3, <2>6, <3>1, <3>3, <3>7 DEF OwnEditor, Rows
    <3> QED  BY <1>1, <1>2, <2>2, <3>8, <3>9, TabOwn
  <2> QED  BY <2>5, <2>6
<1> QED  BY <1>4, <1>5

\* Showing a rejected proposal over the week as synced: whatever its editor follows is past, unless
\* the rejected week was applied after all and is the week synced.
LEMMA RebaseOwn ==
    ASSUME Inv, OwnInv, NEW t \in Tab, Rebase(t)
    PROVE  OwnInv'
<1> USE DEF Inv
<1>1. PICK d \in Device : d = Home[t]
      OBVIOUS
<1>2. UNCHANGED <<revision, week, receipt, outbox, replica, net, meant, repairs, resumed>>
      BY DEF Rebase, server
<1>3. PICK last \in Row : last = Latest(d) /\ last \in Rows(d) /\ RowOK(last)
      BY <1>1, RowsType DEF RowsInv, Rebase
<1>4. /\ editor[t].open /\ last.state = "rejected" /\ replica[d].revision > last.expected
      /\ outbox[d] # <<>>
      BY <1>1, <1>3 DEF Rebase
<1>5. PICK old \in OpenWeek : old = editor[t]
      BY <1>4, EditorType
<1>6. PICK days \in Week : days = RebaseWeek(last.base, last.days, replica[d].week)
  <2>1. last.days \in Week /\ last.base \in Week /\ replica[d].week \in Week
        BY <1>3 DEF Row, Types
  <2>2. RebaseWeek(last.base, last.days, replica[d].week) \in Week
        BY <2>1 DEF RebaseWeek, Week
  <2> QED  BY <2>2
<1>7. PICK m \in SUBSET Day : m = old.mine \cup meant[last.op]
      BY <1>3 DEF OpenWeek, Row, Types
<1>8. PICK id \in Op, base \in Week : id = last.op /\ base = replica[d].week
      BY <1>3 DEF Row, Types
<1>9. PICK w : w = [old EXCEPT !.rebased = id, !.base = base, !.days = days, !.mine = m]
      OBVIOUS
<1>10. w.open /\ w.id = old.id /\ w.payload = old.payload /\ w.days = days /\ w.mine = m
      BY <1>9 DEF OpenWeek
<1>11. editor' = [editor EXCEPT ![t] = w]
      BY <1>1, <1>3, <1>5, <1>6, <1>7, <1>8, <1>9 DEF Rebase, Types
<1>12. m # {} /\ last.tried /\ last.expected \in Int /\ last.op \in Op
      BY <1>3, <1>4, <1>7 DEF RowOK, Row
<1>13. NewEditor(w)
      BY <1>4, <1>5, <1>10, <1>12 DEF NewEditor, OwnInv, EditorsOwn
<1>14. replica[d].revision \in Nat /\ replica[d].revision <= revision /\ revision \in Nat
      BY DEF Types, SyncedInv
<1>15. Stale(last) \/ Agrees(last.days, days, m)
  <2>1. CASE ~Applied(last.op)
        BY <1>4, <1>12, <1>14, <2>1 DEF Stale
  <2>2. CASE Applied(last.op)
    <3>1. Stale(last) \/ (last.expected + 1 = revision /\ week = last.days)
          BY <1>3, <1>12, <2>2, StaleOrLast
    <3>2. last.expected + 1 = revision => replica[d].revision = revision
          BY <1>4, <1>12, <1>14
    <3>3. replica[d].revision = revision => replica[d].week = week
          BY DEF OwnInv, ReplicaInv
    <3>4. replica[d].week = last.days => Agrees(last.days, days, m)
          BY <1>6 DEF RebaseWeek, Agrees
    <3> QED  BY <3>1, <3>2, <3>3, <3>4
  <2> QED  BY <2>1, <2>2
<1>16. ASSUME NEW r \in Rows(d) PROVE r.tried /\ (Stale(r) \/ Agrees(r.days, days, m))
  <2>1. PICK i \in DOMAIN outbox[d] : r = outbox[d][i]
        BY RowsType
  <2>2. DOMAIN outbox[d] = 1..Len(outbox[d]) /\ Len(outbox[d]) \in Nat /\ Len(outbox[d]) \in DOMAIN outbox[d]
        /\ last = outbox[d][Len(outbox[d])]
        BY <1>3, <1>4, RowsType DEF Latest
  <2>3. CASE i = Len(outbox[d])
        BY <1>12, <1>15, <2>1, <2>2, <2>3
  <2>4. CASE i < Len(outbox[d])
    <3>1. Before(outbox[d], r, last)
          BY <2>1, <2>2, <2>4 DEF OwnInv, RowsOwn, Ordered
    <3>2. r.tried /\ r.expected < last.expected /\ r.expected \in Int
          BY <1>12, <3>1, RowsType DEF Before, Row
    <3> QED  BY <1>4, <1>12, <1>14, <3>2 DEF Stale
  <2> QED  BY <2>1, <2>2, <2>3, <2>4
<1>17. OwnEditor(outbox[d], w)
      BY <1>10, <1>16 DEF OwnEditor, Rows
<1> QED  BY <1>1, <1>2, <1>11, <1>13, <1>17, TabOwn

\* A step that leaves the editors too.
LEMMA SameOwn ==
    ASSUME OwnInv, UNCHANGED <<revision, week, receipt, outbox, editor, net, meant, repairs, resumed>>, ReplicaInv'
    PROVE  OwnInv'
<1>1. Kept
      BY DEF Kept
<1>2. \A o : Free(o)' <=> Free(o)
      BY DEF Free
<1>3. LastInv' /\ NetOwn'
      BY <1>2 DEF OwnInv, LastInv, NetOwn, Applied, Agrees
<1>4. \A rows, r, days, m : Own(rows, r, days, m) => Own(rows, r, days, m)'
      BY <1>1, OwnStays
<1>5. \A rows : OwnRows(rows) => OwnRows(rows)'
      BY <1>4 DEF OwnRows
<1>6. \A rows, e : OwnEditor(rows, e) => OwnEditor(rows, e)'
      BY <1>1, EditorStays
<1>7. \A e : NewEditor(e)' <=> NewEditor(e)
      BY DEF NewEditor
<1>8. RowsOwn' /\ EditorsOwn'
      BY <1>5, <1>6, <1>7 DEF OwnInv, RowsOwn, EditorsOwn, Ordered, Before
<1> QED  BY <1>3, <1>8 DEF OwnInv

LEMMA AsideOwn ==
    ASSUME Inv, OwnInv,
           \/ \E t \in Tab : CloseEditor(t) \/ Die(t)
           \/ \E d \in Device : Sync(d)
           \/ UNCHANGED vars
    PROVE  OwnInv'
<1> USE DEF Inv
<1>1. Closed.open = FALSE
      BY DEF Closed
<1>2. ASSUME NEW t \in Tab, CloseEditor(t) \/ Die(t) PROVE OwnInv'
  <2>1. UNCHANGED <<revision, week, receipt, outbox, replica, net, meant, repairs, resumed>>
        BY <1>2 DEF CloseEditor, Die, server
  <2>2. PICK w : w = Closed
        OBVIOUS
  <2>3. editor' = [editor EXCEPT ![t] = w]
        BY <1>2, <2>2 DEF CloseEditor, Die
  <2>4. NewEditor(w) /\ OwnEditor(outbox[Home[t]], w)
        BY <1>1, <2>2 DEF NewEditor, OwnEditor
  <2> QED  BY <2>1, <2>3, <2>4, TabOwn
<1>3. ASSUME UNCHANGED <<revision, week, receipt, outbox, editor, net, meant, repairs, resumed>>, ReplicaInv'
      PROVE  OwnInv'
      BY <1>3, SameOwn
<1>4. ASSUME NEW d \in Device, Sync(d) PROVE OwnInv'
  <2>1. replica' = [replica EXCEPT ![d] = [revision |-> revision, week |-> week]]
        /\ UNCHANGED <<revision, week, receipt, outbox, editor, net, meant, repairs, resumed>>
        BY <1>4 DEF Sync, server
  <2>2. ReplicaInv'
        BY <2>1 DEF OwnInv, ReplicaInv, Types
  <2> QED  BY <1>3, <2>1, <2>2
<1>5. CASE UNCHANGED vars
  <2>1. UNCHANGED <<revision, week, receipt, outbox, replica, editor, net, meant, repairs, resumed>>
        BY <1>5 DEF vars, server
  <2>2. ReplicaInv'
        BY <2>1 DEF OwnInv, ReplicaInv
  <2> QED  BY <1>3, <2>1, <2>2
<1> QED  BY <1>2, <1>4, <1>5

\* "Apply changes" being clicked, the revision being read, or giving up.
LEMMA PreparedOwn ==
    ASSUME OwnInv, NEW t \in Tab,
           (\E E \in SUBSET Day : ApplyChanges(t, E)) \/ ReadRevision(t) \/ RepairFails(t)
    PROVE  OwnInv'
<1>1. UNCHANGED <<revision, week, receipt, outbox, replica, editor, net, meant, repairs, resumed>>
      BY DEF ApplyChanges, ReadRevision, RepairFails, server
<1>2. ReplicaInv'
      BY <1>1 DEF OwnInv, ReplicaInv
<1> QED  BY <1>1, <1>2, SameOwn

------------------------------------------------------------------------------
(***************************************************************************)
(* Steps that change one outbox.                                           *)
(***************************************************************************)
LEMMA OutboxOwn ==
    ASSUME Inv, OwnInv, Kept, NEW d \in Device, NEW rows, outbox' = [outbox EXCEPT ![d] = rows],
           UNCHANGED replica, NetOwn', Ordered(rows), OwnRows(rows)',
           \A e \in Device \ {d} : \A r \in Rows(e) : meant'[r.op] = meant[r.op],
           \A t \in Tab : NewEditor(editor[t])',
           \A t \in Tab : Home[t] = d => OwnEditor(rows, editor[t])',
           \A t \in Tab : Home[t] # d => editor'[t] = editor[t]
    PROVE  OwnInv'
<1>1. LastInv' /\ ReplicaInv'
      BY DEF Kept, OwnInv, LastInv, ReplicaInv, Applied
<1>2. outbox'[d] = rows /\ \A e \in Device : e # d => outbox'[e] = outbox[e]
      BY DEF Inv, Types
<1>3. RowsOwn'
  <2> SUFFICES ASSUME NEW e \in Device PROVE Ordered(outbox'[e]) /\ OwnRows(outbox[e])'
      BY DEF RowsOwn, Ordered, Before
  <2>1. CASE e = d
    <3>1. OwnRows(outbox[d])'
          BY <1>2 DEF OwnRows, Own, Parents
    <3> QED  BY <1>2, <2>1, <3>1
  <2>2. CASE e # d
    <3>1. Ordered(outbox[e]) /\ OwnRows(outbox[e])
          BY DEF OwnInv, RowsOwn
    <3>2. PICK s : s = outbox[e]
          OBVIOUS
    <3>3. ASSUME NEW r \in ToSet(s), ~r.tried PROVE Own(s, r, r.days, meant[r.op])'
      <4>1. PICK m : m = meant[r.op]
            OBVIOUS
      <4>2. Own(s, r, r.days, m)
            BY <3>1, <3>2, <3>3, <4>1 DEF OwnRows
      <4>3. Own(s, r, r.days, m)'
            BY <4>2, OwnStays
      <4>4. (meant[r.op])' = m
            BY <2>2, <3>2, <3>3, <4>1 DEF Rows
      <4> QED  BY <4>3, <4>4 DEF Own
    <3>4. OwnRows(s)'
          BY <3>3 DEF OwnRows
    <3>5. (outbox[e])' = s
          BY <1>2, <2>2, <3>2
    <3>6. OwnRows(outbox[e])'
          BY <3>4, <3>5 DEF OwnRows, Own, Parents
    <3> QED  BY <1>2, <2>2, <3>1, <3>6
  <2> QED  BY <2>1, <2>2
<1>4. EditorsOwn'
  <2> SUFFICES ASSUME NEW t \in Tab PROVE OwnEditor(outbox[Home[t]], editor[t])'
      BY DEF EditorsOwn
  <2>1. CASE Home[t] = d
        BY <1>2, <2>1 DEF OwnEditor, Own, Parents
  <2>2. CASE Home[t] # d
    <3>1. PICK s, e : s = outbox[Home[t]] /\ e = editor[t]
          OBVIOUS
    <3>2. OwnEditor(s, e)'
          BY <3>1, EditorStays DEF OwnInv, EditorsOwn
    <3>3. (outbox[Home[t]])' = s /\ (editor[t])' = e
          BY <1>2, <2>2, <3>1
    <3> QED  BY <3>2, <3>3 DEF OwnEditor, Own, Parents, Shows, Agrees, Astray
  <2> QED  BY <2>1, <2>2
<1> QED  BY <1>1, <1>3, <1>4 DEF OwnInv

\* What the rows of an outbox of d must satisfy, as the editors of d stand.
OwnIn(d, rows) ==
    /\ Ordered(rows) /\ OwnRows(rows)
    /\ \A t \in Tab : Home[t] = d => OwnEditor(rows, editor[t])

LEMMA OwnInNow ==
    ASSUME OwnInv, NEW d \in Device
    PROVE  OwnIn(d, outbox[d])
BY DEF OwnInv, RowsOwn, EditorsOwn, OwnIn

\* A step of the uploader, or one that only deletes rows.
LEMMA QuietOwn ==
    ASSUME Inv, OwnInv, NEW d \in Device, NEW rows, outbox' = [outbox EXCEPT ![d] = rows],
           UNCHANGED <<revision, week, receipt, replica, editor, meant, repairs, resumed>>,
           NetOwn', OwnIn(d, rows)
    PROVE  OwnInv'
<1>1. Kept
      BY DEF Kept
<1>2. OwnRows(rows)'
  <2>1. \A r, days, m : Own(rows, r, days, m) => Own(rows, r, days, m)'
        BY <1>1, OwnStays
  <2> QED  BY <2>1 DEF OwnIn, OwnRows
<1>3. \A t \in Tab : NewEditor(editor[t])'
      BY DEF OwnInv, EditorsOwn, NewEditor
<1>4. ASSUME NEW t \in Tab, Home[t] = d PROVE OwnEditor(rows, editor[t])'
  <2>1. PICK e : e = editor[t]
        OBVIOUS
  <2>2. OwnEditor(rows, e)'
        BY <1>1, <1>4, <2>1, EditorStays DEF OwnIn
  <2>3. (editor[t])' = e
        BY <2>1
  <2> QED  BY <2>2, <2>3 DEF OwnEditor, Own, Shows, Agrees, Astray
<1> QED  BY <1>1, <1>2, <1>3, <1>4, OutboxOwn DEF OwnIn

\* A step that sends nothing.
LEMMA NetStays ==
    ASSUME OwnInv, Kept, UNCHANGED net, \A q \in net : meant'[q.op] = meant[q.op]
    PROVE  NetOwn'
BY DEF OwnInv, NetOwn, Kept, Free, Agrees

LEMMA FewerOwn ==
    ASSUME NEW d \in Device, NEW s \in Seq(Row), NEW rows \in Seq(Row), OwnIn(d, s),
           ToSet(rows) \subseteq ToSet(s), InOrder(rows, s, Len(s))
    PROVE  OwnIn(d, rows)
<1>1. Ordered(rows)
  <2> SUFFICES ASSUME NEW i \in DOMAIN rows, NEW j \in DOMAIN rows, i < j
               PROVE  Before(rows, rows[i], rows[j])
      BY DEF Ordered
  <2>1. PICK k, l \in 1..Len(s) : k < l /\ rows[i] = s[k] /\ rows[j] = s[l]
        BY DEF InOrder
  <2>2. Before(s, s[k], s[l])
        BY <2>1, LenProperties DEF OwnIn, Ordered
  <2> QED  BY <2>1, <2>2 DEF Before
<1>2. \A r, days, m : Own(s, r, days, m) => Own(rows, r, days, m)
      BY DEF Own, Parents
<1>3. OwnRows(rows) /\ \A e : OwnEditor(s, e) => OwnEditor(rows, e)
      BY <1>2 DEF OwnIn, OwnRows, OwnEditor
<1> QED  BY <1>1, <1>3 DEF OwnIn

\* Rows whose outcome is written stay what they are to each other.
Like(r, c) ==
    /\ c.op = r.op /\ c.days = r.days /\ c.expected = r.expected /\ c.tried = r.tried
    /\ c.predecessor = r.predecessor
    /\ r.state = "accepted" => c.state = "accepted"
Alike(s, u) == DOMAIN u = DOMAIN s /\ \A i \in DOMAIN s : Like(s[i], u[i])

LEMMA AlikeOwn ==
    ASSUME NEW d \in Device, NEW s, NEW u, OwnIn(d, s), Alike(s, u)
    PROVE  OwnIn(d, u)
<1>1. \A c \in ToSet(u) : \E r \in ToSet(s) : Like(r, c)
      BY DEF Alike, ToSet
<1>2. Ordered(u)
  <2> SUFFICES ASSUME NEW i \in DOMAIN u, NEW j \in DOMAIN u, i < j PROVE Before(u, u[i], u[j])
      BY DEF Ordered
  <2>1. Before(s, s[i], s[j]) /\ Like(s[i], u[i]) /\ Like(s[j], u[j])
        BY DEF OwnIn, Ordered, Alike
  <2> QED  BY <1>1, <2>1 DEF Before, Like
<1>3. \A r, c : Like(r, c) => (Stale(c) <=> Stale(r))
      BY DEF Like, Stale
<1>4. ASSUME NEW r, NEW c, Like(r, c), NEW days, NEW m, Own(s, r, days, m) PROVE Own(u, c, days, m)
  <2>1. ASSUME Free(r.op), NEW p \in Parents(u, c) PROVE Stale(p) \/ Agrees(p.days, days, m)
    <3>1. PICK o \in ToSet(s) : Like(o, p)
          BY <1>1 DEF Parents
    <3>2. o \in Parents(s, r)
          BY <1>4, <3>1 DEF Parents, Like
    <3> QED  BY <1>3, <1>4, <2>1, <3>1, <3>2 DEF Own, Like
  <2> QED  BY <1>4, <2>1 DEF Own, Like
<1>5. OwnRows(u)
  <2> SUFFICES ASSUME NEW c \in ToSet(u), ~c.tried PROVE Own(u, c, c.days, meant[c.op])
      BY DEF OwnRows
  <2>1. PICK r \in ToSet(s) : Like(r, c)
        BY <1>1
  <2>2. Own(s, r, c.days, meant[c.op])
        BY <2>1 DEF OwnIn, OwnRows, Like
  <2> QED  BY <1>4, <2>1, <2>2
<1>6. ASSUME NEW e, OwnEditor(s, e) PROVE OwnEditor(u, e)
  <2> SUFFICES ASSUME e.open, ~Astray(e), NEW c \in ToSet(u), c.op = e.id
               PROVE  IF c.tried THEN Shows(e, c.days) => Stale(c) \/ Agrees(c.days, e.days, e.mine)
                      ELSE Shows(e, e.days) /\ Own(u, c, e.days, e.mine)
      BY DEF OwnEditor
  <2>1. PICK r \in ToSet(s) : Like(r, c)
        BY <1>1
  <2>2. IF r.tried THEN Shows(e, r.days) => Stale(r) \/ Agrees(r.days, e.days, e.mine)
        ELSE Shows(e, e.days) /\ Own(s, r, e.days, e.mine)
        BY <1>6, <2>1 DEF OwnEditor, Like
  <2>3. CASE r.tried
        BY <1>3, <2>1, <2>2, <2>3 DEF Like
  <2>4. CASE ~r.tried
        BY <1>4, <2>1, <2>2, <2>4 DEF Like
  <2> QED  BY <2>3, <2>4
<1> QED  BY <1>2, <1>5, <1>6 DEF OwnIn

LEMMA DiscardQueueOwn ==
    ASSUME Inv, OwnInv, NEW d \in Device, DiscardQueue(d)
    PROVE  OwnInv'
<1>1. PICK gone : gone = Rows(d) \ InState(d, "accepted")
      OBVIOUS
<1>2. PICK s \in Seq(Row) : s = outbox[d]
      BY RowsType DEF Inv
<1>3. PICK rows \in Seq(Row) : rows = Without(s, gone)
      BY WithoutKeeps
<1>4. ToSet(rows) \subseteq ToSet(s) /\ InOrder(rows, s, Len(s))
      BY <1>3, WithoutKeeps
<1>5. outbox' = [outbox EXCEPT ![d] = rows]
      BY <1>1, <1>2, <1>3 DEF DiscardQueue, Inv, Types
<1>6. OwnIn(d, s)
      BY <1>2, OwnInNow
<1>7. OwnIn(d, rows)
      BY <1>4, <1>6, FewerOwn
<1>8. UNCHANGED <<revision, week, receipt, replica, editor, net, meant, repairs, resumed>>
      BY DEF DiscardQueue, server
<1>9. NetOwn'
      BY <1>8, NetStays DEF Kept
<1> QED  BY <1>5, <1>7, <1>8, <1>9, QuietOwn

LEMMA MarkOwn ==
    ASSUME Inv, OwnInv, NEW d \in Device, NEW o, NEW allowed, NEW state, NEW result,
           Mark(d, o, allowed, state, result), state = "accepted" \/ "accepted" \notin allowed,
           UNCHANGED <<revision, week, receipt, replica, editor, net, meant, repairs, resumed>>
    PROVE  OwnInv'
<1> DEFINE told(r) == IF r.op = o /\ r.state \in allowed
                      THEN [r EXCEPT !.state = state, !.result = result] ELSE r
           marked == [i \in DOMAIN outbox[d] |-> told(outbox[d][i])]
<1>1. outbox' = [outbox EXCEPT ![d] = marked]
      BY DEF Mark, Inv, Types
<1>2. ASSUME NEW r \in Row PROVE Like(r, told(r))
      BY DEF Row, Like
<1>3. \A i \in DOMAIN outbox[d] : outbox[d][i] \in Row
      BY RowsType DEF Inv
<1> HIDE DEF told
<1>4. Alike(outbox[d], marked)
      BY <1>2, <1>3 DEF Alike
<1> HIDE DEF marked
<1>5. PICK s, rows : s = outbox[d] /\ rows = marked
      OBVIOUS
<1>6. OwnIn(d, s) /\ Alike(s, rows)
      BY <1>4, <1>5, OwnInNow
<1>7. OwnIn(d, rows)
      BY <1>6, AlikeOwn
<1>8. NetOwn'
      BY NetStays DEF Kept
<1> QED  BY <1>1, <1>5, <1>7, <1>8, QuietOwn

LEMMA OutcomeOwn ==
    ASSUME Inv, OwnInv, NEW t \in Tab, Receive(t) \/ GiveUp(t)
    PROVE  OwnInv'
<1>1. UNCHANGED <<revision, week, receipt, replica, editor, net, meant, repairs, resumed>>
      BY DEF Receive, Accepted, Rejected, GiveUp, server
<1>2. PICK o, allowed, state, result :
          Mark(Home[t], o, allowed, state, result) /\ (state = "accepted" \/ "accepted" \notin allowed)
  <2>1. ASSUME NEW a \in reply, Accepted(t, a)
        PROVE  \E o, allowed, state, result :
                   Mark(Home[t], o, allowed, state, result) /\ (state = "accepted" \/ "accepted" \notin allowed)
        BY <2>1 DEF Accepted
  <2>2. ASSUME NEW a \in reply, Rejected(t, a)
        PROVE  \E o, allowed, state, result :
                   Mark(Home[t], o, allowed, state, result) /\ (state = "accepted" \/ "accepted" \notin allowed)
    <3>1. Mark(Home[t], a.op, {"queued", "sending", "rejected"}, "rejected", -1)
          BY <2>2 DEF Rejected
    <3>2. "accepted" \notin {"queued", "sending", "rejected"}
          OBVIOUS
    <3> QED  BY <3>1, <3>2
  <2>3. ASSUME GiveUp(t)
        PROVE  \E o, allowed, state, result :
                   Mark(Home[t], o, allowed, state, result) /\ (state = "accepted" \/ "accepted" \notin allowed)
    <3>1. Mark(Home[t], waiting[t], {"sending"}, "queued", -1)
          BY <2>3 DEF GiveUp
    <3>2. "accepted" \notin {"sending"}
          OBVIOUS
    <3> QED  BY <3>1, <3>2
  <2> QED  BY <2>1, <2>2, <2>3 DEF Receive
<1>3. Home[t] \in Device
      OBVIOUS
<1> QED  BY <1>1, <1>2, <1>3, MarkOwn

\* A row as it is once its observed predecessor is forgotten, in full.
Moved(d, r, f) ==
    \/ f = r /\ \A c \in Observed(d) : c.op # r.predecessor
    \/ \E c \in Observed(d) : c.op = r.predecessor /\ f.predecessor = None
                              /\ (~r.tried => f.expected = c.result)

Follows(d, r, f) ==
    /\ f \in Row /\ RowOK(f)
    /\ f.op = r.op /\ f.days = r.days /\ f.tried = r.tried /\ f.state = r.state
    /\ r.tried => f.expected = r.expected
    /\ Moved(d, r, f)

LEMMA FollowIs ==
    ASSUME Inv, NEW d \in Device, NEW r \in Rows(d), NEW f, f = Follow(d, r)
    PROVE  Follows(d, r, f)
<1>1. r \in Row
      BY RowsType DEF Inv
<1>2. f \in Row /\ RowOK(f) /\ f.op = r.op /\ f.tried = r.tried /\ f.state = r.state
      BY FollowOK
<1>3. CASE \E c \in Observed(d) : c.op = r.predecessor
  <2>1. PICK c \in Observed(d) : c.op = r.predecessor /\ c = CHOOSE p \in Observed(d) : p.op = r.predecessor
        BY <1>3
  <2>2. PICK x : x = IF r.tried THEN r.expected ELSE c.result
        OBVIOUS
  <2>3. f = [r EXCEPT !.predecessor = None, !.expected = x]
        BY <1>1, <1>3, <2>1, <2>2 DEF Follow, Row
  <2>4. f.predecessor = None /\ f.expected = x /\ f.days = r.days
        BY <1>1, <2>3 DEF Row
  <2>5. Moved(d, r, f)
        BY <2>1, <2>2, <2>4 DEF Moved
  <2> QED  BY <1>2, <2>2, <2>4, <2>5 DEF Follows
<1>4. CASE ~\E c \in Observed(d) : c.op = r.predecessor
  <2>1. f = r
        BY <1>4 DEF Follow
  <2> QED  BY <1>2, <1>4, <2>1 DEF Follows, Moved
<1> QED  BY <1>3, <1>4

\* Of a row whose accepted predecessor c is the newest week, or of a refused one.
LEMMA ChildOwn ==
    ASSUME Inv, OwnInv, NEW c \in Row, RowOK(c), c.state = "accepted", c.result = revision,
           NEW days, NEW m, Stale(c) \/ Agrees(c.days, days, m)
    PROVE  Agrees(week, days, m)
<1>1. ~Stale(c)
      BY LastNotStale
<1>2. week = c.days
      BY <1>1, AcceptedRow, StaleOrLast
<1> QED  BY <1>1, <1>2

LEMMA CleanedIs ==
    ASSUME Inv, NEW d \in Device
    PROVE  \E kept \in Seq(Row) :
               /\ ToSet(kept) = Rows(d) \ Observed(d) /\ InOrder(kept, outbox[d], Len(outbox[d]))
               /\ Cleaned(d) = [i \in DOMAIN kept |-> Follow(d, kept[i])]
<1>1. PICK gone : gone = Observed(d)
      OBVIOUS
<1>2. PICK s \in Seq(Row) : s = outbox[d]
      BY RowsType DEF Inv
<1>3. PICK kept \in Seq(Row) : kept = Without(s, gone)
      BY WithoutKeeps
<1>4. ToSet(kept) = Rows(d) \ Observed(d) /\ InOrder(kept, outbox[d], Len(outbox[d]))
      BY <1>1, <1>2, <1>3, WithoutKeeps DEF Rows
<1>5. Cleaned(d) = [i \in DOMAIN kept |-> Follow(d, kept[i])]
      BY <1>1, <1>2, <1>3 DEF Cleaned, Follow
<1> QED  BY <1>4, <1>5

LEMMA CleanedOwn ==
    ASSUME Inv, OwnInv, NEW d \in Device, NEW rows, rows = Cleaned(d)
    PROVE  OwnIn(d, rows)
<1> USE DEF Inv
<1>1. PICK kept \in Seq(Row) :
          /\ ToSet(kept) = Rows(d) \ Observed(d) /\ InOrder(kept, outbox[d], Len(outbox[d]))
          /\ Cleaned(d) = [i \in DOMAIN kept |-> Follow(d, kept[i])]
      BY CleanedIs
<1>2. DOMAIN rows = DOMAIN kept /\ \A i \in DOMAIN rows : rows[i] = Follow(d, kept[i])
      BY <1>1
<1>3. \A i \in DOMAIN rows : kept[i] \in Rows(d) /\ kept[i] \notin Observed(d)
      BY <1>1, <1>2 DEF ToSet
<1>4. \A f \in ToSet(rows) : \E r \in Rows(d) \ Observed(d) : f = Follow(d, r)
      BY <1>2, <1>3 DEF ToSet
<1>5. DOMAIN outbox[d] = 1..Len(outbox[d]) /\ Ordered(outbox[d])
      BY RowsType DEF OwnInv, RowsOwn
\* An untried row is the last, so a row named by it was tried or is itself.
<1>6. ASSUME NEW r \in Rows(d), NEW c \in Rows(d), ~r.tried, ~c.tried PROVE c = r
  <2>1. PICK i, j \in DOMAIN outbox[d] : r = outbox[d][i] /\ c = outbox[d][j]
        BY RowsType
  <2>2. ~(i < j) /\ ~(j < i)
        BY <1>5, <1>6, <2>1 DEF Ordered, Before
  <2>3. i \in Int /\ j \in Int
        BY <1>5
  <2> QED  BY <2>1, <2>2, <2>3
<1>7. \A c \in Observed(d) : c \in Rows(d) /\ c.state = "accepted" /\ replica[d].revision >= c.result
      BY DEF Observed, InState
<1>8. Ordered(rows)
  <2> SUFFICES ASSUME NEW i \in DOMAIN rows, NEW j \in DOMAIN rows, i < j PROVE Before(rows, rows[i], rows[j])
      BY DEF Ordered
  <2>1. PICK p \in Rows(d), r \in Rows(d) : p = kept[i] /\ r = kept[j]
        BY <1>3
  <2>2. PICK k, l \in 1..Len(outbox[d]) : k < l /\ p = outbox[d][k] /\ r = outbox[d][l]
        BY <1>1, <1>2, <2>1 DEF InOrder
  <2>3. Before(outbox[d], p, r)
        BY <1>5, <2>2 DEF Ordered
  <2>4. PICK fp, fr : fp = Follow(d, p) /\ fr = Follow(d, r) /\ fp = rows[i] /\ fr = rows[j]
        BY <1>2, <2>1
  <2>4a. Follows(d, p, fp) /\ Follows(d, r, fr)
         BY <2>4, FollowIs
  <2>5. /\ fp.op = p.op /\ fp.tried = p.tried /\ fp.state = p.state
        /\ p.tried => fp.expected = p.expected
        BY <2>4a DEF Follows
  <2>6. /\ fr.tried = r.tried
        /\ r.tried => fr.expected = r.expected
        /\ \/ fr = r
           \/ \E c \in Observed(d) : c.op = r.predecessor
    <3>1. Moved(d, r, fr)
          BY <2>4a DEF Follows
    <3>2. fr.tried = r.tried /\ (r.tried => fr.expected = r.expected)
          BY <2>4a DEF Follows
    <3> QED  BY <3>1, <3>2 DEF Moved
  <2>7. p.tried /\ p \notin Observed(d)
        BY <1>3, <2>1, <2>3 DEF Before
  <2>8. CASE r.tried
        BY <2>3, <2>4, <2>5, <2>6, <2>7, <2>8 DEF Before
  <2>9. CASE ~r.tried /\ \E c \in Observed(d) : c.op = r.predecessor
    <3>1. PICK c \in Observed(d) : c.op = r.predecessor
          BY <2>9
    <3>2. c \in Rows(d) /\ c.state = "accepted" /\ replica[d].revision >= c.result /\ c \in Row /\ RowOK(c)
          BY <1>7, RowsType DEF RowsInv
    <3>3. p.op # r.predecessor
          BY <2>7, <3>1, <3>2, SameOpSameRow
    <3>4. p.state = "accepted" /\ p.expected < c.expected /\ p \in Row /\ RowOK(p)
          BY <2>3, <2>9, <3>1, <3>2, <3>3, RowsType DEF Before, Rows, RowsInv
    <3>5. p.result = p.expected + 1 /\ c.result = c.expected + 1
          BY <3>2, <3>4, AcceptedRow
    <3>6. p.expected \in Int /\ c.expected \in Int /\ replica[d].revision \in Nat
          BY <3>2, <3>4 DEF Row, Types
    <3>7. replica[d].revision >= p.result
          BY <3>2, <3>4, <3>5, <3>6
    <3>8. p \in Observed(d)
          BY <3>4, <3>7 DEF Observed, InState
    <3> QED  BY <2>7, <3>8
  <2>10. CASE ~r.tried /\ fr = r
    <3> SUFFICES ASSUME fp.op # r.predecessor
                 PROVE  /\ r.predecessor # None /\ fp.state = "accepted"
                        /\ \A c \in ToSet(rows) : c.op = r.predecessor => fp.expected < c.expected
        BY <2>4, <2>5, <2>7, <2>10 DEF Before
    <3>1. r.predecessor # None /\ p.state = "accepted"
          /\ \A c \in Rows(d) : c.op = r.predecessor => p.expected < c.expected
          BY <2>3, <2>5, <2>10 DEF Before, Rows
    <3>2. ASSUME NEW c \in ToSet(rows), c.op = r.predecessor PROVE p.expected < c.expected
      <4>1. PICK o \in Rows(d) : c = Follow(d, o)
            BY <1>4
      <4>2. c.op = o.op /\ (o.tried => c.expected = o.expected)
            BY <4>1, FollowIs DEF Follows
      <4>3. p.expected < o.expected
            BY <3>1, <3>2, <4>2
      <4>4. o.tried \/ o = r
            BY <1>6, <2>10
      <4> QED  BY <2>4, <2>10, <4>1, <4>2, <4>3, <4>4
    <3> QED  BY <2>5, <2>7, <3>1, <3>2
  <2> QED  BY <2>6, <2>8, <2>9, <2>10
<1>9. ASSUME NEW r \in Rows(d), ~r.tried, NEW days, NEW m, Own(outbox[d], r, days, m)
      PROVE  Own(rows, Follow(d, r), days, m)
  <2>1. PICK f : f = Follow(d, r)
        OBVIOUS
  <2>2. CASE f = r
    <3>1. ASSUME Free(r.op), NEW c \in Parents(rows, r) PROVE Stale(c) \/ Agrees(c.days, days, m)
      <4>1. PICK o \in Rows(d) : c = Follow(d, o)
            BY <1>4 DEF Parents
      <4>2. c.op = o.op /\ c.days = o.days /\ c.tried = o.tried /\ (o.tried => c.expected = o.expected)
            BY <4>1, FollowIs DEF Follows
      <4>3. o \in Parents(outbox[d], r)
            BY <3>1, <4>2 DEF Parents, Rows
      <4>4. Stale(o) \/ Agrees(o.days, days, m)
            BY <1>9, <3>1, <4>3 DEF Own
      <4> QED  BY <4>2, <4>4 DEF Stale
    <3> QED  BY <1>9, <2>1, <2>2, <3>1 DEF Own
  <2>3. CASE \E c \in Observed(d) : c.op = r.predecessor /\ f.predecessor = None /\ f.expected = c.result
    <3>1. PICK c \in Observed(d) : c.op = r.predecessor /\ f.predecessor = None /\ f.expected = c.result
          BY <2>3
    <3>2. c \in Rows(d) /\ c.state = "accepted" /\ c \in Row /\ RowOK(c)
          BY <1>7, RowsType DEF RowsInv
    <3>3. Free(r.op) => Stale(c) \/ Agrees(c.days, days, m)
          BY <1>9, <3>1, <3>2 DEF Own, Parents, Rows
    <3>4. Free(r.op) /\ f.expected = revision => Agrees(week, days, m)
          BY <3>1, <3>2, <3>3, ChildOwn
    <3>5. \A o \in ToSet(rows) : o.op \in Op
          BY <1>4, FollowIs DEF Follows, Row
    <3>6. Parents(rows, f) = {}
          BY <3>1, <3>5 DEF Parents
    <3>7. f.predecessor # f.op /\ f.op = r.op
          BY <2>1, <3>1, FollowIs DEF Follows, Row
    <3> QED  BY <2>1, <3>4, <3>6, <3>7 DEF Own
  <2>4. Moved(d, r, f)
        BY <2>1, FollowIs DEF Follows
  <2> QED  BY <1>9, <2>2, <2>3, <2>4 DEF Moved
<1>10. OwnRows(rows)
  <2> SUFFICES ASSUME NEW f \in ToSet(rows), ~f.tried PROVE Own(rows, f, f.days, meant[f.op])
      BY DEF OwnRows
  <2>1. PICK r \in Rows(d) : f = Follow(d, r)
        BY <1>4
  <2>2. f.op = r.op /\ f.days = r.days /\ f.tried = r.tried
        BY <2>1, FollowIs DEF Follows
  <2>3. Own(outbox[d], r, f.days, meant[f.op])
        BY <2>2 DEF OwnInv, RowsOwn, OwnRows, Rows
  <2> QED  BY <1>9, <2>1, <2>2, <2>3
<1>11. ASSUME NEW t \in Tab, Home[t] = d PROVE OwnEditor(rows, editor[t])
  <2> SUFFICES ASSUME editor[t].open, ~Astray(editor[t]), NEW f \in ToSet(rows), f.op = editor[t].id
               PROVE  IF f.tried
                      THEN Shows(editor[t], f.days) => Stale(f) \/ Agrees(f.days, editor[t].days, editor[t].mine)
                      ELSE Shows(editor[t], editor[t].days) /\ Own(rows, f, editor[t].days, editor[t].mine)
      BY DEF OwnEditor
  <2>1. PICK r \in Rows(d) : f = Follow(d, r)
        BY <1>4
  <2>2. f.op = r.op /\ f.days = r.days /\ f.tried = r.tried /\ (r.tried => f.expected = r.expected)
        BY <2>1, FollowIs DEF Follows
  <2>3. IF r.tried
        THEN Shows(editor[t], r.days) => Stale(r) \/ Agrees(r.days, editor[t].days, editor[t].mine)
        ELSE Shows(editor[t], editor[t].days) /\ Own(outbox[d], r, editor[t].days, editor[t].mine)
        BY <1>11, <2>2 DEF OwnInv, EditorsOwn, OwnEditor, Rows
  <2>4. CASE r.tried
        BY <2>2, <2>3, <2>4 DEF Stale
  <2>5. CASE ~r.tried
        BY <1>9, <2>1, <2>2, <2>3, <2>5
  <2> QED  BY <2>4, <2>5
<1> QED  BY <1>8, <1>10, <1>11 DEF OwnIn

LEMMA ForgetOwn ==
    ASSUME Inv, OwnInv, NEW t \in Tab, Forget(t)
    PROVE  OwnInv'
<1>1. PICK d \in Device : d = Home[t]
      OBVIOUS
<1>2. PICK rows : rows = Cleaned(d)
      OBVIOUS
<1>3. UNCHANGED <<revision, week, receipt, replica, editor, net, meant, repairs, resumed>>
      BY DEF Forget, server
<1>4. outbox' = [outbox EXCEPT ![d] = rows]
      BY <1>1, <1>2 DEF Forget
<1>5. NetOwn'
      BY <1>3, NetStays DEF Kept
<1> QED  BY <1>2, <1>3, <1>4, <1>5, CleanedOwn, QuietOwn

LEMMA TakeOwn ==
    ASSUME Inv, OwnInv, NEW t \in Tab, Take(t)
    PROVE  OwnInv'
<1> USE DEF Inv
<1>1. PICK d \in Device : d = Home[t]
      OBVIOUS
<1>2. PICK rows \in Seq(Row) : rows = Cleaned(d)
      BY CleanedOK
<1>3. OwnIn(d, rows)
      BY <1>2, CleanedOwn
<1>4. /\ Distinct(rows) /\ Len(rows) \in Nat /\ DOMAIN rows = 1..Len(rows)
      /\ \A c \in ToSet(rows) : RowOK(c) /\ c \in Row
      /\ \A k \in DOMAIN rows : rows[k] \in ToSet(rows)
  <2>1. Distinct(rows) /\ \A c \in ToSet(rows) : RowOK(c)
        BY <1>2, CleanedOK
  <2>2. Len(rows) \in Nat /\ DOMAIN rows = 1..Len(rows)
        BY LenProperties
  <2>3. \A k \in DOMAIN rows : rows[k] \in Row
        BY <2>2, ElementOfSeq
  <2> QED  BY <2>1, <2>2, <2>3 DEF ToSet
<1>5. PICK i \in DOMAIN rows : TakesRow(t, rows, i)
      BY <1>1, <1>2, TakeFinds
<1>6. PICK r \in Row : r = rows[i] /\ r \in ToSet(rows) /\ RowOK(r)
      BY <1>4
<1> DEFINE parent == CHOOSE p \in Parents(rows, r) : TRUE
           names == IF ~r.tried /\ r.predecessor # None THEN parent.result ELSE r.expected
<1> HIDE DEF parent, names
<1>7. PICK x : x = names
      OBVIOUS
<1>8. Eligible(rows, r)
      BY <1>5, <1>6 DEF TakesRow
<1>9. PICK new : new = [r EXCEPT !.state = "sending", !.tried = TRUE, !.expected = x]
      OBVIOUS
<1>10. PICK q : q = [op |-> r.op, expected |-> x, days |-> r.days]
      OBVIOUS
<1>11. PICK sent : sent = [rows EXCEPT ![i] = new]
      OBVIOUS
<1>12. outbox' = [outbox EXCEPT ![d] = sent] /\ net' = net \cup {q}
      BY <1>1, <1>5, <1>6, <1>7, <1>9, <1>10, <1>11 DEF TakesRow, parent, names
<1>13. UNCHANGED <<revision, week, receipt, replica, editor, meant, repairs, resumed>>
      BY DEF Take, server
<1>14. /\ new.op = r.op /\ new.days = r.days /\ new.expected = x /\ new.tried
       /\ new.predecessor = r.predecessor
      BY <1>9 DEF Row
<1>15. DOMAIN sent = DOMAIN rows /\ \A j \in DOMAIN rows : sent[j] = IF j = i THEN new ELSE rows[j]
      BY <1>11
\* It was tried before: the same request once more.
<1>16. CASE r.tried
  <2>1. x = r.expected /\ r.state # "accepted"
        BY <1>7, <1>8, <1>16 DEF Eligible, names
  <2>2. \A j \in DOMAIN rows : Like(rows[j], sent[j])
    <3>1. Like(r, new)
          BY <1>14, <1>16, <2>1 DEF Like
    <3>2. \A c : Like(c, c)
          BY DEF Like
    <3> QED  BY <1>6, <1>15, <3>1, <3>2
  <2>3. OwnIn(d, sent)
        BY <1>3, <1>15, <2>2, AlikeOwn DEF Alike
  <2>4. q \in net
    <3>1. Sent(r) \in net
          BY <1>6, <1>16 DEF RowOK
    <3> QED  BY <1>10, <2>1, <3>1 DEF Sent
  <2>5. NetOwn'
    <3>1. UNCHANGED net
          BY <1>12, <2>4
    <3> QED  BY <1>13, <3>1, NetStays DEF Kept
  <2> QED  BY <1>12, <1>13, <2>3, <2>5, QuietOwn
\* It is sent for the first time.
<1>17. CASE ~r.tried
  <2>1. ASSUME r.predecessor # None
        PROVE  \E c \in ToSet(rows) : /\ c.op = r.predecessor /\ c.state = "accepted"
                                      /\ x = c.result /\ c \in Parents(rows, r)
    <3>1. PICK c \in Parents(rows, r) : c.state = "accepted"
          BY <1>8, <1>17, <2>1 DEF Eligible
    <3>2. \A p \in Parents(rows, r) : p = c
          BY <1>4 DEF Parents, ToSet, Distinct
    <3>3. parent = c
          BY <3>1, <3>2 DEF parent
    <3> QED  BY <1>7, <1>17, <2>1, <3>1, <3>3 DEF Parents, names
  <2>2. Own(rows, r, r.days, meant[r.op])
        BY <1>3, <1>6, <1>17 DEF OwnIn, OwnRows
  <2>3. ASSUME Free(r.op), x = revision PROVE Agrees(week, r.days, meant[r.op])
    <3>1. CASE r.predecessor = None
          BY <1>7, <2>2, <2>3, <3>1 DEF Own, names
    <3>2. CASE r.predecessor # None
      <4>1. PICK c \in ToSet(rows) : c.op = r.predecessor /\ c.state = "accepted"
                                     /\ x = c.result /\ c \in Parents(rows, r)
            BY <2>1, <3>2
      <4>2. c \in Row /\ RowOK(c) /\ (Stale(c) \/ Agrees(c.days, r.days, meant[r.op]))
            BY <1>4, <2>2, <2>3, <4>1 DEF Own
      <4> QED  BY <2>3, <4>1, <4>2, ChildOwn
    <3> QED  BY <3>1, <3>2
  <2>4. NetOwn'
    <3>1. \A p \in net : Free(p.op) /\ p.expected = revision => Agrees(week, p.days, meant[p.op])
          BY DEF OwnInv, NetOwn
    <3>2. q.op = r.op /\ q.expected = x /\ q.days = r.days
          BY <1>10
    <3>3. \A p \in net' : Free(p.op) /\ p.expected = revision => Agrees(week, p.days, meant[p.op])
          BY <1>12, <2>3, <3>1, <3>2
    <3> QED  BY <1>13, <3>3 DEF NetOwn, Free, Agrees
\* It is the last row: those before it were tried.
  <2>5. ASSUME NEW j \in DOMAIN rows, j # i PROVE j < i /\ rows[j].tried
    <3>1. ~(i < j)
          BY <1>3, <1>6, <1>17 DEF OwnIn, Ordered, Before
    <3>2. j < i
          BY <1>4, <2>5, <3>1
    <3> QED  BY <1>3, <3>2 DEF OwnIn, Ordered, Before
  <2>6. Ordered(sent)
    <3> SUFFICES ASSUME NEW j \in DOMAIN rows, NEW k \in DOMAIN rows, j < k
                 PROVE  Before(sent, sent[j], sent[k])
        BY <1>15 DEF Ordered
    <3>1. j # i /\ sent[j] = rows[j] /\ Before(rows, rows[j], rows[k])
          BY <1>3, <1>4, <1>15, <2>5 DEF OwnIn, Ordered
    <3>2. CASE k # i
          BY <1>15, <2>5, <3>1, <3>2 DEF Before
    <3>3. CASE k = i
      <4>1. PICK p \in ToSet(rows) : p = rows[j]
            BY <1>4
      <4>2. Before(rows, p, r) /\ p.op \in Op /\ p.expected \in Int /\ p.tried
            BY <1>4, <1>6, <2>5, <3>1, <3>3, <4>1 DEF Row
      <4>3. r.predecessor # None
            BY <1>17, <4>2 DEF Before
      <4>4. PICK c \in ToSet(rows) : c.op = r.predecessor /\ c.state = "accepted" /\ x = c.result
            BY <2>1, <4>3
      <4>5. x = c.expected + 1 /\ c.expected \in Int
            BY <1>4, <4>4, AcceptedRow DEF Row
      <4>6. p.state = "accepted" /\ p.expected < x
        <5>1. CASE p.op = r.predecessor
          <6>1. p = c
                BY <1>4, <4>4, <5>1 DEF ToSet, Distinct
          <6> QED  BY <4>2, <4>4, <4>5, <6>1
        <5>2. CASE p.op # r.predecessor
              BY <1>17, <4>2, <4>4, <4>5, <5>2 DEF Before
        <5> QED  BY <5>1, <5>2
      <4> QED  BY <1>14, <1>15, <3>1, <3>3, <4>1, <4>2, <4>6 DEF Before
    <3> QED  BY <3>2, <3>3
  <2>7. \A c \in ToSet(sent) : c = new \/ (c \in ToSet(rows) /\ c.tried)
    <3> SUFFICES ASSUME NEW j \in DOMAIN rows PROVE sent[j] = new \/ (sent[j] \in ToSet(rows) /\ sent[j].tried)
        BY <1>15 DEF ToSet
    <3> QED  BY <1>4, <1>15, <2>5
  <2>8. OwnRows(sent)
        BY <1>14, <2>7 DEF OwnRows
  <2>9. ASSUME NEW u \in Tab, Home[u] = d PROVE OwnEditor(sent, editor[u])
    <3> SUFFICES ASSUME editor[u].open, ~Astray(editor[u]), NEW c \in ToSet(sent), c.op = editor[u].id
                 PROVE  c.tried /\ (Shows(editor[u], c.days) =>
                                       Stale(c) \/ Agrees(c.days, editor[u].days, editor[u].mine))
        BY DEF OwnEditor
    <3>1. OwnEditor(rows, editor[u])
          BY <1>3, <2>9 DEF OwnIn
    <3>2. CASE c \in ToSet(rows) /\ c.tried
          BY <3>1, <3>2 DEF OwnEditor
    <3>3. CASE c = new
      <4>1. Shows(editor[u], editor[u].days)
            BY <1>6, <1>14, <1>17, <3>1, <3>3 DEF OwnEditor
      <4>2. Shows(editor[u], c.days) => c.days = editor[u].days
            BY <4>1 DEF Shows
      <4> QED  BY <1>14, <3>3, <4>2 DEF Agrees
    <3> QED  BY <2>7, <3>2, <3>3
  <2>10. OwnIn(d, sent)
        BY <2>6, <2>8, <2>9 DEF OwnIn
  <2> QED  BY <1>12, <1>13, <2>4, <2>10, QuietOwn
<1> QED  BY <1>16, <1>17

------------------------------------------------------------------------------
(***************************************************************************)
(* Proposals.                                                              *)
(***************************************************************************)
\* What enqueueing o does to the editors and to what operations mean.
Proposed(t, o, expected, days, m) ==
    /\ editor'[t].id = o /\ editor'[t].days = days /\ editor'[t].mine = m
    /\ editor'[t].payload = <<expected, days>>
    /\ \A u \in Tab : u # t => editor'[u] = editor[u]
    /\ meant'[o] = m /\ \A p \in Op : p # o => meant'[p] = meant[p]
    /\ UNCHANGED <<revision, week, receipt, replica, net>>
    /\ \A u \in Tab : NewEditor(editor[u])'

LEMMA EnqueuedOwn ==
    ASSUME Inv, OwnInv, NEW t \in Tab, editor[t].open, NEW o \in Op, NEW expected, NEW days, NEW m, m # {},
           Enqueued(t, o, expected, days, m)
    PROVE  Proposed(t, o, expected, days, m)
<1>1. PICK old \in OpenWeek : old = editor[t]
      BY EditorType DEF Inv
<1>2. PICK w : w = [old EXCEPT !.id = o, !.revision = expected + 1, !.payload = <<expected, days>>,
                               !.days = days, !.mine = m]
      OBVIOUS
<1>3. editor' = [editor EXCEPT ![t] = w]
      BY <1>1, <1>2 DEF Enqueued, Inv, Types
<1>4. w.id = o /\ w.days = days /\ w.mine = m /\ w.payload = <<expected, days>>
      BY <1>2 DEF OpenWeek
<1>5. editor'[t] = w /\ \A u \in Tab : u # t => editor'[u] = editor[u]
      BY <1>3 DEF Inv, Types
<1>6. meant'[o] = m /\ \A p \in Op : p # o => meant'[p] = meant[p]
      BY DEF Enqueued, Inv, Types
<1>7. UNCHANGED <<revision, week, receipt, replica, net>>
      BY DEF Enqueued, server
<1>8. ASSUME NEW u \in Tab PROVE NewEditor(editor[u])'
  <2>1. CASE u = t
        BY <1>4, <1>5, <1>6, <2>1 DEF NewEditor
  <2>2. CASE u # t
    <3>1. NewEditor(editor[u]) /\ editor'[u] = editor[u]
          BY <1>5, <2>2 DEF OwnInv, EditorsOwn
    <3>2. editor[u].open /\ editor[u].id # None => editor[u].id \in Op
          BY EditorType DEF Inv, OpenWeek
    <3>3. editor[u].open /\ editor[u].id # None => meant'[editor[u].id] # {}
          BY <1>6, <3>1, <3>2 DEF NewEditor
    <3> QED  BY <1>7, <3>1, <3>3 DEF NewEditor
  <2> QED  BY <2>1, <2>2
<1> QED  BY <1>4, <1>5, <1>6, <1>7, <1>8 DEF Proposed

\* A step that names o, in no request, and leaves the rows of other devices.
Proposes(d, rows, o) ==
    /\ outbox' = [outbox EXCEPT ![d] = rows]
    /\ UNCHANGED <<replica, net>>
    /\ \A p \in Op : p # o => meant'[p] = meant[p]
    /\ \A q \in net : q.op # o
    /\ \A e \in Device \ {d} : \A r \in Rows(e) : r.op # o
    /\ Ordered(rows) /\ OwnRows(rows)'
    /\ \A t \in Tab : NewEditor(editor[t])'
    /\ \A t \in Tab : Home[t] = d => OwnEditor(rows, editor[t])'
    /\ \A t \in Tab : Home[t] # d => editor'[t] = editor[t]

LEMMA ProposalOwn ==
    ASSUME Inv, OwnInv, Kept, NEW d \in Device, NEW rows, NEW o \in Op, Proposes(d, rows, o)
    PROVE  OwnInv'
<1> USE DEF Proposes
<1>1. \A q \in net : q.op \in Op
      BY DEF Inv, Types
<1>2. NetOwn'
      BY <1>1, NetStays
<1>3. \A e \in Device : \A r \in Rows(e) : r.op \in Op
      BY RowsType DEF Inv, Row
<1>4. \A e \in Device \ {d} : \A r \in Rows(e) : meant'[r.op] = meant[r.op]
      BY <1>3
<1> QED  BY <1>2, <1>4, OutboxOwn

\* The proposals that can be made are tried, but for a waiting one.
LEMMA LastRow ==
    ASSUME Inv, OwnInv, NEW d \in Device, outbox[d] # <<>>
    PROVE  \E last \in Row :
              /\ last = Latest(d) /\ last \in Rows(d) /\ RowOK(last) /\ last.op \in Op
              /\ Len(outbox[d]) \in Nat /\ Len(outbox[d]) \in DOMAIN outbox[d]
              /\ DOMAIN outbox[d] = 1..Len(outbox[d]) /\ last = outbox[d][Len(outbox[d])]
              /\ \A r \in Rows(d) : r = last \/ (r.tried /\ r.op # last.op)
<1> USE DEF Inv
<1>1. PICK last \in Row : last = Latest(d) /\ last \in Rows(d) /\ RowOK(last)
      BY RowsType DEF RowsInv
<1>2. /\ Len(outbox[d]) \in Nat /\ Len(outbox[d]) \in DOMAIN outbox[d]
      /\ DOMAIN outbox[d] = 1..Len(outbox[d]) /\ last = outbox[d][Len(outbox[d])]
      BY <1>1, RowsType DEF Latest
<1>3. ASSUME NEW r \in Rows(d), r # last PROVE r.tried /\ r.op # last.op
  <2>1. PICK i \in DOMAIN outbox[d] : r = outbox[d][i]
        BY RowsType
  <2>2. i < Len(outbox[d])
        BY <1>2, <1>3, <2>1
  <2>3. Before(outbox[d], r, last)
        BY <1>2, <2>1, <2>2 DEF OwnInv, RowsOwn, Ordered
  <2> QED  BY <1>1, <1>3, <2>3, SameOpSameRow DEF Before
<1> QED  BY <1>1, <1>2, <1>3 DEF Row

\* The waiting proposal is changed.
LEMMA ChangeOwn ==
    ASSUME Inv, OwnInv, NEW t \in Tab, NEW E \in SUBSET Day, E # {}, editor[t].open, NEW d \in Device, d = Home[t],
           NEW last \in Row, last = Latest(d), ~last.tried, outbox[d] # <<>>, editor[t].id = last.op,
           NEW o \in Op, o = last.op,
           NEW days, days = Edited(editor[t], E, o), NEW m, m = editor[t].mine \cup E,
           outbox' = [outbox EXCEPT ![d][Len(outbox[d])].days = days],
           NEW expected, expected = last.expected,
           Proposed(t, o, expected, days, m), UNCHANGED <<repairs, resumed>>
    PROVE  OwnInv'
<1> DEFINE n == Len(outbox[d])
<1>1. /\ last \in Rows(d) /\ RowOK(last) /\ o \in Op
      /\ n \in Nat /\ n \in DOMAIN outbox[d] /\ DOMAIN outbox[d] = 1..n /\ last = outbox[d][n]
      /\ \A r \in Rows(d) : r = last \/ (r.tried /\ r.op # o)
      BY LastRow
<1>2. /\ editor'[t].id = o /\ editor'[t].days = days /\ editor'[t].mine = m
      /\ editor'[t].payload = <<expected, days>>
      /\ \A u \in Tab : u # t => editor'[u] = editor[u]
      /\ meant'[o] = m /\ \A p \in Op : p # o => meant'[p] = meant[p]
      /\ UNCHANGED <<revision, week, receipt, replica, net>>
      /\ \A u \in Tab : NewEditor(editor[u])'
      BY DEF Proposed
<1>3. Kept
      BY <1>2 DEF Kept
<1>4. PICK new : new = [last EXCEPT !.days = days]
      OBVIOUS
<1>5. /\ new.op = o /\ new.days = days /\ new.expected = last.expected /\ ~new.tried
      /\ new.tried = last.tried
      /\ new.predecessor = last.predecessor /\ new.state = last.state
      BY <1>4 DEF Row
<1>6. PICK s : s = outbox[d]
      OBVIOUS
<1>7. PICK rows : rows = [s EXCEPT ![n] = new]
      OBVIOUS
<1>8. outbox' = [outbox EXCEPT ![d] = rows]
      BY <1>1, <1>4, <1>6, <1>7 DEF Inv, Types
<1>9. DOMAIN rows = 1..n /\ \A i \in 1..n : rows[i] = IF i = n THEN new ELSE s[i]
      BY <1>1, <1>6, <1>7
<1>10. \A i \in 1..n : s[i] \in Rows(d)
       BY <1>1, <1>6, RowsType DEF Inv
<1>11. \A c \in ToSet(rows) : c = new \/ (c \in Rows(d) /\ c # last)
  <2>1. \A i \in 1..n : i # n => s[i] # last
    <3>1. Distinct(s)
          BY <1>6 DEF Inv, ApartInv
    <3> QED  BY <1>1, <1>6, <3>1 DEF Distinct
  <2> QED  BY <1>9, <1>10, <2>1 DEF ToSet
<1>12. Ordered(rows)
  <2>1. Ordered(s)
        BY <1>6 DEF OwnInv, RowsOwn
  <2>2. \A c \in ToSet(rows) : \E r \in ToSet(s) : r.op = c.op /\ r.expected = c.expected
        BY <1>1, <1>5, <1>6, <1>11 DEF Rows
  <2> SUFFICES ASSUME NEW i \in DOMAIN rows, NEW j \in DOMAIN rows, i < j PROVE Before(rows, rows[i], rows[j])
      BY DEF Ordered
  <2>3. Before(s, s[i], s[j]) /\ i # n /\ rows[i] = s[i]
        BY <1>1, <1>6, <1>9, <2>1 DEF Ordered
  <2>4. rows[j] = s[j] \/ (rows[j] = new /\ s[j] = last)
        BY <1>1, <1>6, <1>9
  <2>5. /\ rows[j].tried = s[j].tried /\ rows[j].expected = s[j].expected
        /\ rows[j].predecessor = s[j].predecessor
    <3>1. CASE rows[j] = s[j]
          BY <3>1
    <3>2. CASE rows[j] = new /\ s[j] = last
          BY <1>5, <3>2
    <3> QED  BY <2>4, <3>1, <3>2
  <2> QED  BY <1>5, <2>2, <2>3, <2>4, <2>5 DEF Before
\* What was right of the row, in the eyes of an editor, is right of it as changed.
<1>13. ASSUME NEW v, NEW mine, Own(s, last, v, mine) PROVE Own(rows, new, v, mine)'
  <2>1. Own(s, last, v, mine)'
        BY <1>3, <1>13, OwnStays
  <2>2. ASSUME Free(last.op)', NEW c \in Parents(rows, new) PROVE Stale(c)' \/ Agrees(c.days, v, mine)
    <3>1. c \in ToSet(rows) /\ c.op = last.predecessor
          BY <1>5 DEF Parents
    <3>2. CASE c = new
          BY <1>5, <1>13, <3>1, <3>2 DEF Own
    <3>3. CASE c \in Rows(d)
      <4>1. c \in Parents(s, last)
            BY <1>6, <3>1, <3>3 DEF Parents, Rows
      <4> QED  BY <2>1, <2>2, <4>1 DEF Own, Parents, Agrees, Free
    <3> QED  BY <1>11, <3>1, <3>2, <3>3
  <2> QED  BY <1>5, <2>1, <2>2 DEF Own, Free, Agrees, Parents
<1>14. Own(s, last, editor[t].days, editor[t].mine) /\ Own(s, last, last.days, meant[o])
  <2>1. Own(s, last, last.days, meant[o])
        BY <1>1, <1>6 DEF OwnInv, RowsOwn, OwnRows, Rows
  <2>2. CASE Astray(editor[t])
        BY <2>1, <2>2 DEF Own, Free, Astray
  <2>3. CASE ~Astray(editor[t])
        BY <1>1, <1>6, <2>1, <2>3 DEF OwnInv, EditorsOwn, OwnEditor, Rows
  <2> QED  BY <2>1, <2>2, <2>3
<1>15. Own(rows, new, days, m)'
       BY <1>13, <1>14, OwnEdited
<1>16. OwnRows(rows)'
  <2> SUFFICES ASSUME NEW c \in ToSet(rows), ~c.tried PROVE Own(rows, c, c.days, meant[c.op])'
      BY DEF OwnRows
  <2>1. c = new
        BY <1>1, <1>11
  <2>2. c.days = days /\ (meant[c.op])' = m
        BY <1>2, <1>5, <2>1
  <2> QED  BY <1>15, <2>1, <2>2 DEF Own
<1>17. ASSUME NEW u \in Tab, Home[u] = d PROVE OwnEditor(rows, editor[u])'
  <2>1. CASE u = t
    <3>1. PICK e : e = editor'[t]
          OBVIOUS
    <3>2. e.id = o /\ e.days = days /\ e.mine = m /\ e.payload = <<expected, days>> /\ expected \in Int
          BY <1>2, <3>1 DEF Row
    <3>3. \A c \in ToSet(rows) : c.op = o => c = new
          BY <1>1, <1>11
    <3>4. OwnEditor(rows, e)'
          BY <1>5, <1>15, <3>2, <3>3 DEF OwnEditor, Shows
    <3> QED  BY <2>1, <3>1, <3>4 DEF OwnEditor, Own, Shows, Agrees, Astray
  <2>2. CASE u # t
    <3>1. PICK e : e = editor[u]
          OBVIOUS
    <3>2. OwnEditor(s, e) /\ OwnEditor(s, e)'
          BY <1>3, <1>6, <1>17, <3>1, EditorStays DEF OwnInv, EditorsOwn
    <3>3. ASSUME e.open, ~Astray(e)', NEW c \in ToSet(rows), c.op = e.id
          PROVE  IF c.tried THEN Shows(e, c.days) => Stale(c)' \/ Agrees(c.days, e.days, e.mine)
                 ELSE Shows(e, e.days) /\ Own(rows, c, e.days, e.mine)'
      <4>0. ~Astray(e)
            BY <1>3, <3>3 DEF Kept, Astray, Shows
      <4>1. CASE c = new
        <5>1. Shows(e, e.days) /\ Own(s, last, e.days, e.mine)
              BY <1>1, <1>5, <1>6, <3>2, <3>3, <4>0, <4>1 DEF OwnEditor, Rows
        <5> QED  BY <1>5, <1>13, <4>1, <5>1
      <4>2. CASE c \in Rows(d) /\ c # last
            BY <1>1, <1>6, <3>2, <3>3, <4>2 DEF OwnEditor, Rows, Shows, Agrees, Astray
      <4> QED  BY <1>11, <4>1, <4>2
    <3>4. OwnEditor(rows, e)'
          BY <3>3 DEF OwnEditor, Shows, Agrees, Astray
    <3>5. (editor[u])' = e
          BY <1>2, <2>2, <3>1
    <3> QED  BY <3>4, <3>5 DEF OwnEditor, Own, Shows, Agrees, Astray
  <2> QED  BY <2>1, <2>2
<1>18. \A q \in net : q.op # o
       BY <1>1 DEF RowOK
<1>19. \A e \in Device \ {d} : \A r \in Rows(e) : r.op # o
       BY <1>1 DEF Inv, ApartInv
<1>20. \A u \in Tab : Home[u] # d => editor'[u] = editor[u]
       BY <1>2
<1>21. UNCHANGED <<replica, net>>
       BY <1>2
<1>22. \A p \in Op : p # o => meant'[p] = meant[p]
       BY <1>2
<1>23. \A u \in Tab : NewEditor(editor[u])'
       BY <1>2
<1>24. \A u \in Tab : Home[u] = d => OwnEditor(rows, editor[u])'
       BY <1>17
<1>25. o \in Op
       BY <1>1
<1>26. Proposes(d, rows, o)
       BY <1>8, <1>12, <1>16, <1>18, <1>19, <1>20, <1>21, <1>22, <1>23, <1>24 DEF Proposes
<1> HIDE DEF n
<1> QED  BY <1>3, <1>25, <1>26, ProposalOwn

\* A new proposal is enqueued, after rows that were all tried.
Adds(d, o, days, m, new, rows) ==
    /\ new.op = o /\ new.days = days /\ ~new.tried
    /\ outbox' = [outbox EXCEPT ![d] = rows] /\ Ordered(rows)
    /\ \A c \in ToSet(rows) : c = new \/ (c \in Rows(d) /\ c.tried)
    /\ Own(rows, new, days, m)'

LEMMA AddedOwn ==
    ASSUME Inv, OwnInv, Kept, NEW t \in Tab, editor[t].open, NEW d \in Device, Home[t] = d,
           NEW o \in Fresh, NEW expected \in Int, NEW days, NEW m, Proposed(t, o, expected, days, m),
           NEW new, NEW rows, Adds(d, o, days, m, new, rows)
    PROVE  OwnInv'
<1> USE DEF Adds
<1>1. o \in Op /\ meant[o] = {}
      BY DEF Fresh
<1>2. OwnRows(rows)'
  <2> SUFFICES ASSUME NEW c \in ToSet(rows), ~c.tried PROVE Own(rows, c, c.days, meant[c.op])'
      BY DEF OwnRows
  <2>1. c = new /\ meant'[o] = m
        BY DEF Proposed
  <2> QED  BY <2>1 DEF Own
<1>3. ASSUME NEW u \in Tab, Home[u] = d PROVE OwnEditor(rows, editor[u])'
  <2>1. CASE u = t
    <3>1. PICK e : e = editor'[t]
          OBVIOUS
    <3>2. e.id = o /\ e.days = days /\ e.mine = m /\ e.payload = <<expected, days>>
          BY <3>1 DEF Proposed
    <3>3. \A c \in ToSet(rows) : c.op = o => c = new
      <4>1. \A c \in Rows(d) : RowOK(c)
            BY DEF Inv, RowsInv
      <4> QED  BY <1>1, <4>1 DEF RowOK
    <3>4. OwnEditor(rows, e)'
          BY <3>2, <3>3 DEF OwnEditor, Shows
    <3> QED  BY <2>1, <3>1, <3>4 DEF OwnEditor, Own, Shows, Agrees, Astray
  <2>2. CASE u # t
    <3>1. PICK e : e = editor[u]
          OBVIOUS
    <3>2. PICK s : s = outbox[d]
          OBVIOUS
    <3>3. OwnEditor(s, e)' /\ NewEditor(e)
          BY <1>3, <3>1, <3>2, EditorStays DEF OwnInv, EditorsOwn
    <3>4. ASSUME e.open, ~Astray(e)', NEW c \in ToSet(rows), c.op = e.id
          PROVE  c.tried /\ (Shows(e, c.days) => Stale(c)' \/ Agrees(c.days, e.days, e.mine))
      <4>1. e.id # None /\ e.id # o
        <5>1. o # None
              BY <1>1, NoneAssumption
        <5>2. c \in Rows(d) => c.op # None
              BY RowsType, NoneAssumption DEF Inv, Row
        <5> QED  BY <1>1, <3>3, <3>4, <5>1, <5>2 DEF NewEditor
      <4>2. c \in Rows(d) /\ c.tried
            BY <3>4, <4>1
      <4> QED  BY <3>2, <3>3, <3>4, <4>2 DEF OwnEditor, Rows, Shows, Agrees, Astray
    <3>5. OwnEditor(rows, e)'
          BY <3>4 DEF OwnEditor, Shows, Agrees, Astray
    <3>6. (editor[u])' = e
          BY <2>2, <3>1 DEF Proposed
    <3> QED  BY <3>5, <3>6 DEF OwnEditor, Own, Shows, Agrees, Astray
  <2> QED  BY <2>1, <2>2
<1>4. \A q \in net : q.op # o
      BY <1>1 DEF Inv, NetInv
<1>5. \A e \in Device \ {d} : \A r \in Rows(e) : r.op # o
      BY <1>1 DEF Inv, RowsInv, RowOK
<1>6. /\ \A u \in Tab : Home[u] # d => editor'[u] = editor[u]
      /\ UNCHANGED <<replica, net>>
      /\ \A p \in Op : p # o => meant'[p] = meant[p]
      /\ \A u \in Tab : NewEditor(editor[u])'
      BY DEF Proposed
<1>7. Proposes(d, rows, o)
      BY <1>2, <1>3, <1>4, <1>5, <1>6 DEF Proposes
<1> QED  BY <1>1, <1>7, ProposalOwn

\* The first proposal of an outbox: right of the week it was synced with.
LEMMA FirstOwn ==
    ASSUME Inv, OwnInv, Kept, NEW t \in Tab, NEW E \in SUBSET Day, editor[t].open, NEW d \in Device, Home[t] = d,
           outbox[d] = <<>>, NEW o \in Fresh, NEW days, days = Edited(editor[t], E, o),
           NEW m, m = editor[t].mine \cup E,
           Proposed(t, o, editor[t].revision, days, m),
           outbox' = [outbox EXCEPT ![d] = Append(@, NewRow(o, editor[t].revision, days, editor[t].base, None))],
           Free(o)' => editor[t].id = None /\ editor[t].mine = {}
    PROVE  OwnInv'
<1>1. PICK expected \in Int : expected = editor[t].revision
      BY EditorType DEF Inv, OpenWeek
<1>2. PICK new : new = NewRow(o, expected, days, editor[t].base, None)
      OBVIOUS
<1>3. new.op = o /\ new.days = days /\ ~new.tried /\ new.predecessor = None /\ new.expected = expected
      BY <1>2 DEF NewRow
<1>4. PICK rows : rows = <<new>>
      OBVIOUS
<1>5. ToSet(rows) = {new} /\ Ordered(rows)
      BY <1>4 DEF ToSet, Ordered
<1>6. outbox' = [outbox EXCEPT ![d] = rows]
  <2>1. Append(<<>>, new) = rows
        BY <1>4
  <2> QED  BY <1>1, <1>2, <2>1 DEF Inv, Types
<1>7. o \in Op /\ o # None
      BY NoneAssumption DEF Fresh
<1>8. Own(rows, new, days, m)'
  <2>1. Parents(rows, new) = {}
        BY <1>3, <1>5, <1>7 DEF Parents
  <2>2. ASSUME Free(o)', expected = revision PROVE Agrees(week, days, m)
    <3>1. editor[t].days = week
          BY <1>1, <2>2 DEF OwnInv, EditorsOwn, NewEditor
    <3>2. Agrees(week, editor[t].days, editor[t].mine)
          BY <3>1 DEF Agrees
    <3> QED  BY <3>2, AgreesEdited
  <2>3. UNCHANGED <<revision, week>>
        BY DEF Kept
  <2> QED  BY <1>3, <1>7, <2>1, <2>2, <2>3 DEF Own, Agrees, Free, Parents
<1>9. Proposed(t, o, expected, days, m)
      BY <1>1
<1>10. Adds(d, o, days, m, new, rows)
       BY <1>3, <1>5, <1>6, <1>8 DEF Adds
<1> QED  BY <1>9, <1>10, AddedOwn

\* One that follows the device's last proposal, as its editor shows it.
LEMMA NextRowOwn ==
    ASSUME Inv, OwnInv, Kept, NEW t \in Tab, NEW E \in SUBSET Day, editor[t].open, NEW d \in Device, Home[t] = d,
           outbox[d] # <<>>, NEW last \in Row, Latest(d) = last, last.tried,
           editor[t].id = last.op, editor[t].payload = <<last.expected, last.days>>,
           NEW o \in Fresh, NEW days, days = Edited(editor[t], E, o), NEW m, m = editor[t].mine \cup E,
           NEW expected \in Int, Proposed(t, o, expected, days, m),
           outbox' = [outbox EXCEPT ![d] = Append(@, NewRow(o, expected, days, last.days, last.op))],
           Free(o)' => ~Astray(editor[t])
    PROVE  OwnInv'
<1>1. PICK s \in Seq(Row) : s = outbox[d]
      BY RowsType DEF Inv
<1>2. PICK n \in Nat : n = Len(s) /\ n \in 1..n /\ DOMAIN s = 1..n /\ last = s[n]
  <2>1. /\ Latest(d) \in Rows(d) /\ Len(outbox[d]) \in Nat /\ Len(outbox[d]) \in DOMAIN outbox[d]
        /\ DOMAIN outbox[d] = 1..Len(outbox[d]) /\ Latest(d) = outbox[d][Len(outbox[d])]
        BY LastRow
  <2> QED  BY <1>1, <2>1
<1>3. \A r \in ToSet(s) : r \in Row /\ r \in Rows(d) /\ RowOK(r) /\ r.tried
  <2>1. \A r \in Rows(d) : r = Latest(d) \/ r.tried
        BY LastRow
  <2> QED  BY <1>1, <2>1, RowsType DEF Inv, RowsInv, Rows
<1>4. o \in Op /\ meant[o] = {} /\ \A r \in ToSet(s) : r.op # o
      BY <1>3 DEF Fresh, RowOK
<1>5. \A i \in 1..n : s[i] \in ToSet(s)
      BY <1>2 DEF ToSet
<1>6. PICK new : new = NewRow(o, expected, days, last.days, last.op)
      OBVIOUS
<1>7. new.op = o /\ new.days = days /\ ~new.tried /\ new.predecessor = last.op
      BY <1>6 DEF NewRow
<1>8. PICK rows : rows = Append(s, new)
      OBVIOUS
<1>9. outbox' = [outbox EXCEPT ![d] = rows]
      BY <1>1, <1>6, <1>8 DEF Inv, Types
<1>10. DOMAIN rows = 1..(n + 1) /\ rows[n + 1] = new /\ \A i \in 1..n : rows[i] = s[i]
       BY <1>1, <1>2, <1>8
<1>11. ToSet(rows) = ToSet(s) \cup {new}
  <2>1. \A i \in 1..(n + 1) : i \in 1..n \/ i = n + 1
        OBVIOUS
  <2>2. \A i \in 1..n : i \in 1..(n + 1)
        OBVIOUS
  <2>3. n + 1 \in 1..(n + 1)
        OBVIOUS
  <2> QED  BY <1>2, <1>10, <2>1, <2>2, <2>3 DEF ToSet
<1>12. \A c \in ToSet(rows) : c.op = last.op => c = last
  <2>1. last \in Rows(d)
        BY <1>2, <1>3, <1>5
  <2> QED  BY <1>2, <1>3, <1>4, <1>5, <1>7, <1>11, <2>1, SameOpSameRow
<1>13. Ordered(rows)
  <2> SUFFICES ASSUME NEW i \in DOMAIN rows, NEW j \in DOMAIN rows, i < j PROVE Before(rows, rows[i], rows[j])
      BY DEF Ordered
  <2>1. Ordered(s)
        BY <1>1 DEF OwnInv, RowsOwn
  <2>2. i \in 1..n /\ rows[i] = s[i] /\ s[i].tried
        BY <1>3, <1>5, <1>10
  <2>3. CASE j = n + 1
    <3>1. rows[j] = new
          BY <1>10, <2>3
    <3>2. ASSUME s[i].op # last.op PROVE s[i].state = "accepted" /\ s[i].expected < last.expected
      <4>1. i < n
            BY <1>2, <2>2, <3>2
      <4>2. Before(s, s[i], last)
            BY <1>2, <2>1, <2>2, <4>1 DEF Ordered
      <4> QED  BY <4>2 DEF Before
    <3>3. last.op # None
          BY NoneAssumption DEF Row
    <3> QED  BY <1>7, <1>12, <2>2, <3>1, <3>2, <3>3 DEF Before
  <2>4. CASE j \in 1..n
    <3>1. Before(s, s[i], s[j]) /\ rows[j] = s[j] /\ s[j].tried
          BY <1>2, <1>3, <1>5, <1>10, <2>1, <2>2, <2>4 DEF Ordered
    <3> QED  BY <2>2, <3>1 DEF Before
  <2> QED  BY <1>10, <2>3, <2>4
<1>14. Own(rows, new, days, m)'
  <2>1. Free(o)' => Stale(last) \/ Agrees(last.days, days, m)
    <3>1. OwnEditor(s, editor[t]) /\ last \in ToSet(s)
          BY <1>1, <1>2, <1>5 DEF OwnInv, EditorsOwn
    <3>2. last.expected \in Int /\ Shows(editor[t], last.days)
          BY DEF Row, Shows
    <3>3. Free(o)' => Stale(last) \/ Agrees(last.days, editor[t].days, editor[t].mine)
          BY <3>1, <3>2 DEF OwnEditor
    <3> QED  BY <3>3, AgreesEdited
  <2>2. Stale(last)' <=> Stale(last)
        BY DEF Kept, Stale, Applied
  <2>3. last.op # None /\ last.op # o
        BY <1>2, <1>4, <1>5, NoneAssumption DEF Row
  <2> QED  BY <1>7, <1>12, <2>1, <2>2, <2>3 DEF Own, Parents, Agrees
<1>15. \A c \in ToSet(rows) : c = new \/ (c \in Rows(d) /\ c.tried)
       BY <1>3, <1>11
<1>16. Adds(d, o, days, m, new, rows)
       BY <1>7, <1>9, <1>13, <1>14, <1>15 DEF Adds
<1> QED  BY <1>16, AddedOwn

LEMMA SubmitOwn ==
    ASSUME Inv, OwnInv, NEW t \in Tab, NEW E \in SUBSET Day, E # {}, Submit(t, E)
    PROVE  OwnInv'
<1>1. PICK d \in Device : d = Home[t]
      OBVIOUS
<1>2. PICK m : m = editor[t].mine \cup E
      OBVIOUS
<1>3. editor[t].open /\ m # {}
      BY <1>2 DEF Submit
<1>4. /\ outbox[d] # <<>> => /\ editor[t].id = Latest(d).op
                             /\ editor[t].payload = <<Latest(d).expected, Latest(d).days>>
      BY <1>1 DEF Submit
<1>5. CASE outbox[d] # <<>> /\ Latest(d).state = "queued" /\ ~Latest(d).tried
  <2>1. PICK last \in Row : last = Latest(d) /\ last.op \in Op
        BY <1>5, LastRow
  <2>2. PICK o \in Op : o = last.op
        BY <2>1
  <2>3. PICK days : days = Edited(editor[t], E, o)
        OBVIOUS
  <2>4. PICK expected : expected = last.expected
        OBVIOUS
  <2>5. /\ outbox' = [outbox EXCEPT ![d][Len(outbox[d])].days = days]
        /\ Enqueued(t, o, expected, days, m)
        /\ UNCHANGED <<repairs, resumed>>
        BY <1>1, <1>2, <1>5, <2>1, <2>2, <2>3, <2>4 DEF Submit
  <2>6. Proposed(t, o, expected, days, m)
        BY <1>3, <2>5, EnqueuedOwn
  <2> QED  BY <1>1, <1>2, <1>3, <1>4, <1>5, <2>1, <2>2, <2>3, <2>4, <2>5, <2>6, ChangeOwn
<1>6. CASE outbox[d] = <<>>
  <2>0. Expected(t) = editor[t].revision
        BY <1>1, <1>6 DEF Expected
  <2>1. PICK o \in Fresh :
          /\ outbox' = [outbox EXCEPT ![d] =
                Append(@, NewRow(o, editor[t].revision, Edited(editor[t], E, o), editor[t].base, None))]
          /\ Enqueued(t, o, editor[t].revision, Edited(editor[t], E, o), m)
          /\ resumed' = resumed \cup {r \in {o} : editor[t].id # None}
          /\ repairs' = repairs \cup {r \in {o} : editor[t].id = None /\ editor[t].mine # {}}
    <3>1. \E o \in Fresh :
            /\ outbox' = [outbox EXCEPT ![d] =
                  Append(@, NewRow(o, Expected(t), Edited(editor[t], E, o), editor[t].base, None))]
            /\ Enqueued(t, o, Expected(t), Edited(editor[t], E, o), m)
            /\ resumed' = resumed \cup {r \in {o} : editor[t].id # None}
            /\ repairs' = repairs \cup {r \in {o} : editor[t].id = None /\ editor[t].mine # {}}
          BY <1>1, <1>2, <1>6 DEF Submit
    <3> QED  BY <2>0, <3>1
  <2>2. PICK days : days = Edited(editor[t], E, o)
        OBVIOUS
  <2>3. o \in Op
        BY DEF Fresh
  <2>4. Proposed(t, o, editor[t].revision, days, m)
        BY <1>3, <2>1, <2>2, <2>3, EnqueuedOwn
  <2>5. Kept
        BY <2>1, <2>4 DEF Kept, Proposed
  <2>6. Free(o)' => editor[t].id = None /\ editor[t].mine = {}
        BY <2>1 DEF Free
  <2> QED  BY <1>1, <1>2, <1>3, <1>6, <2>1, <2>2, <2>4, <2>5, <2>6, FirstOwn
<1>7. CASE outbox[d] # <<>> /\ ~(Latest(d).state = "queued" /\ ~Latest(d).tried)
  <2>1. PICK last \in Row : last = Latest(d) /\ RowOK(last)
        BY <1>7, LastRow
  <2>2. PICK o \in Fresh :
          /\ outbox' = [outbox EXCEPT ![d] = Append(@, NewRow(o, Expected(t), Edited(editor[t], E, o), last.days, last.op))]
          /\ Enqueued(t, o, Expected(t), Edited(editor[t], E, o), m)
          /\ resumed' = resumed \cup {r \in {o} : FALSE}
          /\ repairs' = repairs \cup {r \in {o} : last.op \in repairs /\ Strayed(t)}
        BY <1>1, <1>2, <1>7, <2>1 DEF Submit
  <2>3. PICK days : days = Edited(editor[t], E, o)
        OBVIOUS
  <2>4. PICK expected \in Int : expected = Expected(t)
        BY <1>1, <1>7, <2>1 DEF Expected, Row
  <2>5. o \in Op
        BY DEF Fresh
  <2>6. Proposed(t, o, expected, days, m)
        BY <1>3, <2>2, <2>3, <2>4, <2>5, EnqueuedOwn
  <2>7. Kept
        BY <2>2, <2>6 DEF Kept, Proposed
  <2>8. last.tried
        BY <1>7, <2>1 DEF RowOK
  <2>9. outbox' = [outbox EXCEPT ![d] = Append(@, NewRow(o, expected, days, last.days, last.op))]
        BY <2>2, <2>3, <2>4
  <2>10. Free(o)' => ~Astray(editor[t])
    <3>1. editor[t].id = last.op /\ editor[t].payload = <<last.expected, last.days>> /\ last.expected \in Int
          BY <1>4, <1>7, <2>1 DEF Row
    <3>2. ~Strayed(t) => Shows(editor[t], editor[t].days)
          BY <3>1 DEF Strayed, Shows
    <3> QED  BY <2>2, <3>1, <3>2 DEF Free, Astray
  <2> QED  BY <1>1, <1>2, <1>3, <1>4, <1>7, <2>1, <2>3, <2>4, <2>6, <2>7, <2>8, <2>9, <2>10, NextRowOwn
<1> QED  BY <1>5, <1>6, <1>7

\* A rejected week sent again is nobody's to be right of.
LEMMA RepairOwn ==
    ASSUME Inv, RepairsInv, OwnInv, NEW t \in Tab, Repair(t)
    PROVE  OwnInv'
<1>1. PICK d \in Device : Home[t] = d
      OBVIOUS
<1>2. PICK m : m = repair[t].editor.mine \cup repair[t].edits /\ m # {}
      BY RepairOpen, RepairRead DEF Inv
<1>3. PICK old \in OpenWeek : old = editor[t]
      BY RepairOpen, RepairRead DEF Inv
<1>4. PICK clicked \in OpenWeek : clicked = repair[t].editor
      BY RepairOpen, RepairRead DEF Inv
<1>5. UNCHANGED <<revision, week, receipt, replica, net, resumed>>
      BY DEF Repair, server
<1> DEFINE Sends(o, new, shown, expected, days) ==
               /\ outbox' = [outbox EXCEPT ![d] = <<new>>]
               /\ new = NewRow(o, expected, days, old.base, None)
               /\ shown = IF old = clicked THEN [clicked EXCEPT !.days = days, !.mine = m] ELSE old
               /\ editor' = [editor EXCEPT ![t] = [shown EXCEPT !.id = o, !.revision = expected + 1,
                                                                !.payload = <<expected, days>>]]
               /\ meant' = [meant EXCEPT ![o] = m] /\ repairs' = repairs \cup {o}
<1>6a. PICK o \in Fresh : \E new, shown, expected, days : Sends(o, new, shown, expected, days)
  <2>1. PICK expected : expected = repair[t].revision
        OBVIOUS
  <2>2. PICK o \in Fresh :
            LET days == Edited(clicked, repair[t].edits, o)
                new == NewRow(o, expected, days, old.base, None)
                shown == IF old = clicked THEN [clicked EXCEPT !.days = days, !.mine = m] ELSE old IN
            Sends(o, new, shown, expected, days)
        BY <1>1, <1>2, <1>3, <1>4, <2>1 DEF Repair
  <2> QED  BY <2>2
<1>6. PICK new, shown, expected, days : Sends(o, new, shown, expected, days)
      BY <1>6a
<1>7. o \in Op /\ o # None /\ meant[o] = {}
      BY NoneAssumption DEF Fresh
<1>8. new.op = o /\ ~new.tried /\ new.predecessor = None
      BY <1>6 DEF NewRow
<1>9. PICK rows : rows = <<new>>
      OBVIOUS
<1>10. ToSet(rows) = {new} /\ Ordered(rows)
       BY <1>9 DEF ToSet, Ordered
<1>11. \A x, y : Own(rows, new, x, y)'
       BY <1>6, <1>7, <1>8 DEF Own, Free
<1>12. PICK w : w = [shown EXCEPT !.id = o, !.revision = expected + 1, !.payload = <<expected, days>>]
       OBVIOUS
<1>13. w.id = o
  <2>1. PICK e \in OpenWeek : shown = e \/ shown = [e EXCEPT !.days = days, !.mine = m]
        BY <1>6
  <2> QED  BY <1>12, <2>1 DEF OpenWeek
<1>14. editor'[t] = w /\ \A u \in Tab : u # t => editor'[u] = editor[u]
       BY <1>6, <1>12 DEF Inv, Types
<1>15. meant'[o] = m /\ \A p \in Op : p # o => meant'[p] = meant[p]
       BY <1>6, <1>7 DEF Inv, Types
<1>16. Kept
       BY <1>5, <1>6 DEF Kept
<1>17. OwnRows(rows)'
       BY <1>10, <1>11 DEF OwnRows
\* No editor but the one that sent it knows the operation.
<1>18. ASSUME NEW u \in Tab, u # t
       PROVE  NewEditor(editor[u])' /\ (editor[u].open => editor[u].id # o)
  <2>1. NewEditor(editor[u]) /\ editor'[u] = editor[u]
        BY <1>14, <1>18 DEF OwnInv, EditorsOwn
  <2>2. editor[u].open /\ editor[u].id # None => editor[u].id \in Op /\ editor[u].id # o
        BY <1>7, <2>1, EditorType DEF Inv, OpenWeek, NewEditor
  <2> QED  BY <1>5, <1>7, <1>15, <2>1, <2>2 DEF NewEditor
<1>19. NewEditor(w)'
       BY <1>2, <1>7, <1>13, <1>15 DEF NewEditor
<1>20. \A u \in Tab : NewEditor(editor[u])'
       BY <1>14, <1>18, <1>19 DEF NewEditor
<1>21. OwnEditor(rows, w)'
       BY <1>6, <1>8, <1>10, <1>11, <1>13 DEF OwnEditor, Astray
<1>22. ASSUME NEW u \in Tab PROVE OwnEditor(rows, editor[u])'
  <2>1. CASE u = t
        BY <1>14, <1>21, <2>1 DEF OwnEditor, Own, Shows, Agrees, Astray
  <2>2. CASE u # t
        BY <1>8, <1>10, <1>14, <1>18, <2>2 DEF OwnEditor
  <2> QED  BY <2>1, <2>2
<1>23. \A q \in net : q.op # o
       BY <1>7 DEF Inv, NetInv
<1>24. \A e \in Device \ {d} : \A r \in Rows(e) : r.op # o
       BY <1>7 DEF Inv, RowsInv, RowOK
<1>25. \A u \in Tab : Home[u] # d => editor'[u] = editor[u]
       BY <1>1, <1>14
<1>26. outbox' = [outbox EXCEPT ![d] = rows]
       BY <1>6, <1>9
<1>27. Proposes(d, rows, o)
       BY <1>5, <1>10, <1>15, <1>17, <1>20, <1>22, <1>23, <1>24, <1>25, <1>26 DEF Proposes
<1> QED  BY <1>7, <1>16, <1>27, ProposalOwn

LEMMA DiscardOwn ==
    ASSUME Inv, OwnInv, NEW t \in Tab, Discard(t)
    PROVE  OwnInv'
<1>1. PICK d \in Device : Home[t] = d
      OBVIOUS
<1>2. PICK old \in OpenWeek : old = editor[t]
      BY EditorType DEF Discard, Inv
<1>3. PICK rep : rep = replica[d]
      OBVIOUS
<1>4. PICK w : w = [old EXCEPT !.days = rep.week, !.revision = rep.revision, !.id = None,
                               !.payload = <<>>, !.base = rep.week, !.mine = {}]
      OBVIOUS
<1>5. editor' = [editor EXCEPT ![t] = w]
      BY <1>1, <1>2, <1>3, <1>4 DEF Discard, Inv, Types
<1>6. w.id = None /\ w.mine = {} /\ w.days = rep.week /\ w.revision = rep.revision
      BY <1>4 DEF OpenWeek
<1>7. editor'[t] = w /\ \A u \in Tab : u # t => editor'[u] = editor[u]
      BY <1>5 DEF Inv, Types
<1>8. PICK rows : rows = <<>>
      OBVIOUS
<1>9. /\ outbox' = [outbox EXCEPT ![d] = rows]
      /\ UNCHANGED <<revision, week, receipt, replica, net, meant, repairs, resumed>>
      BY <1>1, <1>8 DEF Discard, server
<1>10. Kept
       BY <1>9 DEF Kept
<1>11. ToSet(rows) = {} /\ Ordered(rows) /\ OwnRows(rows)'
       BY <1>8 DEF ToSet, Ordered, OwnRows
<1>12. ASSUME NEW u \in Tab PROVE NewEditor(editor[u])'
  <2>1. CASE u = t
        BY <1>3, <1>6, <1>7, <1>9, <2>1 DEF OwnInv, ReplicaInv, NewEditor
  <2>2. CASE u # t
    <3>1. NewEditor(editor[u]) /\ editor'[u] = editor[u]
          BY <1>7, <2>2 DEF OwnInv, EditorsOwn
    <3> QED  BY <1>9, <3>1 DEF NewEditor
  <2> QED  BY <2>1, <2>2
<1>13. \A u \in Tab : OwnEditor(rows, editor[u])'
       BY <1>11 DEF OwnEditor
<1>14. NetOwn'
       BY <1>9, <1>10, NetStays
<1> QED  BY <1>1, <1>7, <1>9, <1>10, <1>11, <1>12, <1>13, <1>14, OutboxOwn

------------------------------------------------------------------------------
LEMMA NextOwn == Inv /\ RepairsInv /\ OwnInv /\ [Next]_vars => OwnInv'
<1> SUFFICES ASSUME Inv, RepairsInv, OwnInv, [Next]_vars PROVE OwnInv'
    OBVIOUS
<1>1. CASE UNCHANGED vars
      BY <1>1, AsideOwn
<1>2. ASSUME NEW t \in Tab,
             \/ OpenEditor(t) \/ CloseEditor(t) \/ Rebase(t) \/ Discard(t)
             \/ \E E \in SUBSET Day : (E # {} /\ Submit(t, E)) \/ ApplyChanges(t, E)
             \/ ReadRevision(t) \/ Repair(t) \/ RepairFails(t)
             \/ Take(t) \/ Forget(t) \/ Receive(t) \/ GiveUp(t) \/ Die(t)
      PROVE  OwnInv'
      BY <1>2, OpenEditorOwn, AsideOwn, PreparedOwn, RebaseOwn, DiscardOwn, SubmitOwn, RepairOwn, TakeOwn,
         ForgetOwn, OutcomeOwn
<1>3. CASE \E q \in net : Replace(q)
      BY <1>3, ReplaceOwn
<1>4. CASE \E d \in Device : Sync(d) \/ DiscardQueue(d)
      BY <1>4, AsideOwn, DiscardQueueOwn
<1> QED  BY <1>1, <1>2, <1>3, <1>4 DEF Next

\* Whose days each proposal, request and editor carries: OwnInv always holds.
THEOREM OwnAlways == Spec => []OwnInv
<1>1. Inv /\ RepairsInv /\ OwnInv /\ [Next]_vars => OwnInv'
      BY NextOwn
<1> QED  BY <1>1, OwnInit, Invariance, PTL DEF Spec

\* Only the server handling a request applies a week, and its days then differ from the
\* server's only where the person changed them.
LEMMA NextKeepsOthers == Inv /\ OwnInv /\ [Next]_vars => \A o \in Op \ (repairs \cup resumed) : KeepsOthers(o)
<1> SUFFICES ASSUME Inv, OwnInv, [Next]_vars, NEW o \in Op, o \notin repairs \cup resumed, NowApplied(o)
             PROVE  Changed \subseteq meant[o]
    BY DEF KeepsOthers
<1>1. receipt' # receipt
      BY DEF NowApplied, Applied
<1>2. PICK q \in net : Replace(q)
  <2>1. UNCHANGED vars => UNCHANGED receipt
        BY DEF vars, server
  <2>2. ASSUME NEW t \in Tab, OpenEditor(t) \/ CloseEditor(t) \/ Rebase(t) \/ Discard(t)
        PROVE  UNCHANGED receipt
        BY <2>2 DEF OpenEditor, CloseEditor, Rebase, Discard, server
  <2>2a. ASSUME NEW t \in Tab, NEW E \in SUBSET Day, Submit(t, E) PROVE UNCHANGED receipt
    <3>1. \A o2, x, days, m : Enqueued(t, o2, x, days, m) => UNCHANGED receipt
          BY DEF Enqueued, server
    <3> QED  BY <2>2a, <3>1 DEF Submit
  <2>2c. ASSUME NEW t \in Tab,
                (\E E \in SUBSET Day : ApplyChanges(t, E)) \/ ReadRevision(t) \/ Repair(t) \/ RepairFails(t)
         PROVE  UNCHANGED receipt
         BY <2>2c DEF ApplyChanges, ReadRevision, Repair, RepairFails, server
  <2>2b. ASSUME NEW t \in Tab, Take(t) \/ Forget(t) \/ Receive(t) \/ GiveUp(t) \/ Die(t)
         PROVE  UNCHANGED receipt
         BY <2>2b DEF Take, Forget, Receive, Accepted, Rejected, GiveUp, Die, server
  <2>3. ASSUME NEW d \in Device, Sync(d) \/ DiscardQueue(d) PROVE UNCHANGED receipt
        BY <2>3 DEF Sync, DiscardQueue, server
  <2> QED  BY <1>1, <2>1, <2>2, <2>2a, <2>2b, <2>2c, <2>3 DEF Next
<1>3. ~Applied(q.op) /\ revision = q.expected /\ Apply(q)
      BY <1>1, <1>2 DEF Replace, server
<1>4. q.op = o
  <2>1. \A p \in Op : p # q.op => receipt'[p] = receipt[p]
        BY <1>3 DEF Apply, Inv, Types
  <2> QED  BY <2>1 DEF NowApplied, Applied
<1>5. Agrees(week, q.days, meant[o])
      BY <1>3, <1>4 DEF OwnInv, NetOwn, Free
<1>6. week' = q.days
      BY <1>3 DEF Apply
<1> QED  BY <1>5, <1>6 DEF Changed, Agrees

\* A week built on the replica or on the device's own last proposal changes no day but those
\* the person changed: nobody's edit is overwritten unseen.
THEOREM OnlyOwnDaysAlways == Spec => OnlyOwnDays
<1>1. Inv /\ OwnInv /\ [Next]_vars => [\A o \in Op \ (repairs \cup resumed) : KeepsOthers(o)]_vars
      BY NextKeepsOthers
<1> QED  BY <1>1, OwnAlways, Invariance, PTL DEF Spec, OnlyOwnDays

------------------------------------------------------------------------------
(***************************************************************************)
(* No outbox is stuck.  The row an untried proposal waits for is there:    *)
(* by OwnInv it is an earlier one that was tried, so it is itself still    *)
(* under way, or accepted.                                                 *)
(***************************************************************************)
Linked(rows) == \A r \in ToSet(rows) : ~r.tried /\ r.predecessor # None => Parents(rows, r) # {}

LinkInv == \A d \in Device : Linked(outbox[d])

LEMMA SameLinks ==
    ASSUME NEW s, NEW u, DOMAIN u = DOMAIN s, Linked(s),
           \A i \in DOMAIN s : /\ u[i].op = s[i].op /\ u[i].predecessor = s[i].predecessor
                               /\ s[i].tried => u[i].tried
    PROVE  Linked(u)
<1> SUFFICES ASSUME NEW i \in DOMAIN u, ~u[i].tried, u[i].predecessor # None
             PROVE  Parents(u, u[i]) # {}
    BY DEF Linked, ToSet
<1>1. PICK j \in DOMAIN s : s[j].op = s[i].predecessor
      BY DEF Linked, Parents, ToSet
<1>2. u[j] \in ToSet(u) /\ u[j].op = u[i].predecessor
      BY <1>1 DEF ToSet
<1> QED  BY <1>2 DEF Parents

\* Who followed a forgotten row follows nobody, who follows another row still finds it.
LEMMA CleanedLinks ==
    ASSUME Inv, NEW d \in Device, Linked(outbox[d])
    PROVE  Linked(Cleaned(d))
<1>1. PICK rows : rows = Cleaned(d)
      OBVIOUS
<1>2. PICK kept \in Seq(Row) : /\ ToSet(kept) = Rows(d) \ Observed(d)
                               /\ rows = [i \in DOMAIN kept |-> Follow(d, kept[i])]
      BY <1>1, CleanedIs
<1>3. \A i \in DOMAIN kept : kept[i] \in Rows(d) \ Observed(d) /\ rows[i] = Follow(d, kept[i])
      BY <1>2 DEF ToSet
<1>10. DOMAIN rows = DOMAIN kept
      BY <1>2
<1> SUFFICES ASSUME NEW i \in DOMAIN kept, ~rows[i].tried, rows[i].predecessor # None
             PROVE  Parents(rows, rows[i]) # {}
  <2>1. \A r \in ToSet(rows) : \E i \in DOMAIN kept : r = rows[i]
        BY <1>10 DEF ToSet
  <2> QED  BY <1>1, <2>1 DEF Linked
<1>4. PICK r \in Rows(d) : r = kept[i]
      BY <1>3
<1>5. PICK f : f = rows[i]
      OBVIOUS
<1>6. Follows(d, r, f)
      BY <1>3, <1>4, <1>5, FollowIs
<1>7. f = r /\ \A c \in Observed(d) : c.op # r.predecessor
      BY <1>5, <1>6 DEF Follows, Moved
<1>8. PICK p \in Rows(d) : p.op = r.predecessor
      BY <1>5, <1>7 DEF Linked, Parents, Rows
<1>9. \E c \in ToSet(rows) : c.op = p.op
      BY <1>1, <1>7, <1>8, CleanedOK
<1> QED  BY <1>5, <1>7, <1>8, <1>9 DEF Parents

LEMMA AddedLinks ==
    ASSUME NEW s \in Seq(Row), NEW r, Linked(s),
           r.predecessor # None => \E p \in ToSet(s) : p.op = r.predecessor
    PROVE  Linked(Append(s, r))
<1>1. PICK u : u = Append(s, r)
      OBVIOUS
<1>2. ToSet(u) = ToSet(s) \cup {r}
  <2>1. /\ DOMAIN s = 1..Len(s) /\ Len(s) \in Nat /\ DOMAIN u = 1..(Len(s) + 1)
        /\ u[Len(s) + 1] = r /\ \A i \in 1..Len(s) : u[i] = s[i]
    <3>1. s \in Seq(Row \cup {r}) /\ DOMAIN s = 1..Len(s) /\ Len(s) \in Nat
          BY LenProperties, SeqDef
    <3> QED  BY <1>1, <3>1, LenProperties, AppendProperties
  <2> QED  BY <2>1 DEF ToSet
<1> QED  BY <1>1, <1>2 DEF Linked, Parents

LEMMA MarkLinks ==
    ASSUME Inv, LinkInv, NEW d \in Device, NEW o, NEW allowed, NEW state, NEW result,
           Mark(d, o, allowed, state, result)
    PROVE  LinkInv'
<1> DEFINE told(r) == IF r.op = o /\ r.state \in allowed
                      THEN [r EXCEPT !.state = state, !.result = result] ELSE r
           marked == [i \in DOMAIN outbox[d] |-> told(outbox[d][i])]
<1>1. outbox' = [outbox EXCEPT ![d] = marked]
      BY DEF Mark, Inv, Types
<1>2. ASSUME NEW r \in Row
      PROVE  told(r).op = r.op /\ told(r).predecessor = r.predecessor /\ told(r).tried = r.tried
      BY DEF Row
<1>3. \A i \in DOMAIN outbox[d] : outbox[d][i] \in Row
      BY RowsType DEF Inv
<1> HIDE DEF told
<1>4. Linked(marked)
      BY <1>2, <1>3, SameLinks DEF LinkInv
<1> HIDE DEF marked
<1> QED  BY <1>1, <1>4 DEF LinkInv, Inv, Types

LEMMA TakeLinks ==
    ASSUME Inv, LinkInv, NEW t \in Tab, Take(t)
    PROVE  LinkInv'
<1>1. PICK d \in Device : d = Home[t]
      OBVIOUS
<1>2. PICK rows \in Seq(Row) : rows = Cleaned(d)
      BY CleanedOK
<1>3. Linked(rows)
      BY <1>2, CleanedLinks DEF LinkInv
<1>4. PICK i \in DOMAIN rows : TakesRow(t, rows, i)
      BY <1>1, <1>2, TakeFinds
<1>5. PICK r \in Row : r = rows[i]
      BY ElementOfSeq, LenProperties
<1>6. PICK x : outbox' = [outbox EXCEPT ![d] =
                  [rows EXCEPT ![i] = [r EXCEPT !.state = "sending", !.tried = TRUE, !.expected = x]]]
      BY <1>1, <1>4, <1>5 DEF TakesRow
<1>7. PICK new : new = [r EXCEPT !.state = "sending", !.tried = TRUE, !.expected = x]
      OBVIOUS
<1>8. new.op = r.op /\ new.predecessor = r.predecessor /\ new.tried
      BY <1>7 DEF Row
<1>9. PICK u : u = [rows EXCEPT ![i] = new]
      OBVIOUS
<1>10. DOMAIN u = DOMAIN rows /\ \A j \in DOMAIN rows : u[j] = IF j = i THEN new ELSE rows[j]
       BY <1>9
<1>11. Linked(u)
       BY <1>3, <1>5, <1>8, <1>10, SameLinks
<1> QED  BY <1>6, <1>7, <1>9, <1>11 DEF LinkInv, Inv, Types

LEMMA SubmitLinks ==
    ASSUME Inv, LinkInv, NEW t \in Tab, NEW E \in SUBSET Day, E # {}, Submit(t, E)
    PROVE  LinkInv'
<1>1. PICK d \in Device : d = Home[t]
      OBVIOUS
<1>2. PICK s \in Seq(Row) : s = outbox[d] /\ Linked(s)
      BY RowsType DEF Inv, LinkInv
<1>3. CASE outbox[d] # <<>> /\ Latest(d).state = "queued" /\ ~Latest(d).tried
  <2>1. PICK n, days : n = Len(s) /\ outbox' = [outbox EXCEPT ![d][n].days = days]
        BY <1>1, <1>2, <1>3 DEF Submit
  <2>2. n \in DOMAIN s
        BY <1>2, <1>3, <2>1, RowsType DEF Inv
  <2>3. PICK old \in Row : old = s[n]
        BY <2>2, ElementOfSeq, LenProperties
  <2>4. PICK new : new = [old EXCEPT !.days = days]
        OBVIOUS
  <2>5. new.op = old.op /\ new.predecessor = old.predecessor /\ new.tried = old.tried
        BY <2>4 DEF Row
  <2>6. PICK u : u = [s EXCEPT ![n] = new]
        OBVIOUS
  <2>7. outbox' = [outbox EXCEPT ![d] = u]
        BY <1>2, <2>1, <2>3, <2>4, <2>6 DEF Inv, Types
  <2>8. DOMAIN u = DOMAIN s /\ \A j \in DOMAIN s : u[j] = IF j = n THEN new ELSE s[j]
        BY <2>6
  <2>9. Linked(u)
        BY <1>2, <2>3, <2>5, <2>8, SameLinks
  <2> QED  BY <2>7, <2>9 DEF LinkInv, Inv, Types
<1>4. CASE ~(outbox[d] # <<>> /\ Latest(d).state = "queued" /\ ~Latest(d).tried)
  <2>1. PICK o \in Fresh :
            outbox' = [outbox EXCEPT ![d] = Append(@, NewRow(o, Expected(t), Edited(editor[t], E, o),
                          IF outbox[d] = <<>> THEN editor[t].base ELSE Latest(d).days,
                          IF outbox[d] = <<>> THEN None ELSE Latest(d).op))]
        BY <1>1, <1>4 DEF Submit
  <2>2. PICK r : r = NewRow(o, Expected(t), Edited(editor[t], E, o),
                            IF outbox[d] = <<>> THEN editor[t].base ELSE Latest(d).days,
                            IF outbox[d] = <<>> THEN None ELSE Latest(d).op)
        OBVIOUS
  <2>3. outbox' = [outbox EXCEPT ![d] = Append(s, r)]
        BY <1>2, <2>1, <2>2
  <2>4. r.predecessor # None => \E p \in ToSet(s) : p.op = r.predecessor
    <3>1. outbox[d] # <<>> => Latest(d) \in ToSet(s)
          BY <1>2, RowsType DEF Inv, Rows
    <3> QED  BY <2>2, <3>1 DEF NewRow
  <2>5. Linked(Append(s, r))
        BY <1>2, <2>4, AddedLinks
  <2> QED  BY <2>3, <2>5 DEF LinkInv, Inv, Types
<1> QED  BY <1>3, <1>4

LEMMA NextLinks == Inv /\ LinkInv /\ [Next]_vars => LinkInv'
<1> SUFFICES ASSUME Inv, LinkInv, [Next]_vars PROVE LinkInv'
    OBVIOUS
<1>1. ASSUME NEW d \in Device, NEW rows, outbox' = [outbox EXCEPT ![d] = rows], Linked(rows)
      PROVE  LinkInv'
      BY <1>1 DEF LinkInv, Inv, Types
<1>2. ASSUME UNCHANGED outbox PROVE LinkInv'
      BY <1>2 DEF LinkInv
<1>3. Linked(<<>>)
      BY DEF Linked, ToSet
<1>4. ASSUME NEW t \in Tab,
             \/ OpenEditor(t) \/ CloseEditor(t) \/ Rebase(t) \/ Die(t)
             \/ (\E E \in SUBSET Day : ApplyChanges(t, E)) \/ ReadRevision(t) \/ RepairFails(t)
      PROVE  LinkInv'
      BY <1>2, <1>4 DEF OpenEditor, CloseEditor, Rebase, Die, ApplyChanges, ReadRevision, RepairFails
<1>5. ASSUME NEW t \in Tab, Discard(t) PROVE LinkInv'
      BY <1>1, <1>3, <1>5 DEF Discard
<1>6. ASSUME NEW t \in Tab, Repair(t) PROVE LinkInv'
  <2>1. PICK r : /\ r.predecessor = None
                 /\ outbox' = [outbox EXCEPT ![Home[t]] = <<r>>]
        BY <1>6 DEF Repair, NewRow
  <2>2. Linked(<<r>>)
        BY <2>1 DEF Linked, ToSet
  <2> QED  BY <1>1, <2>1, <2>2
<1>7. ASSUME NEW t \in Tab, Forget(t) PROVE LinkInv'
  <2>1. Linked(Cleaned(Home[t]))
        BY CleanedLinks DEF LinkInv
  <2> QED  BY <1>1, <1>7, <2>1 DEF Forget
<1>8. ASSUME NEW t \in Tab, Receive(t) \/ GiveUp(t) PROVE LinkInv'
      BY <1>8, MarkLinks DEF Receive, Accepted, Rejected, GiveUp
<1>9. ASSUME NEW d \in Device, DiscardQueue(d) PROVE LinkInv'
  <2>1. PICK rows : rows = Without(outbox[d], Rows(d) \ InState(d, "accepted"))
        OBVIOUS
  <2>2. ToSet(rows) = Rows(d) \ (Rows(d) \ InState(d, "accepted"))
        BY <2>1, RowsType, WithoutKeeps DEF Inv, Rows
  <2>3. \A r \in ToSet(rows) : r.tried
        BY <2>2 DEF Inv, RowsInv, RowOK, InState
  <2>4. Linked(rows)
        BY <2>3 DEF Linked
  <2> QED  BY <1>1, <1>9, <2>1, <2>4 DEF DiscardQueue
<1>10. CASE UNCHANGED vars \/ (\E q \in net : Replace(q)) \/ (\E d \in Device : Sync(d))
       BY <1>2, <1>10 DEF vars, Replace, Sync
<1>11. ASSUME NEW t \in Tab,
              \/ OpenEditor(t) \/ CloseEditor(t) \/ Rebase(t) \/ Discard(t)
              \/ \E E \in SUBSET Day : (E # {} /\ Submit(t, E)) \/ ApplyChanges(t, E)
              \/ ReadRevision(t) \/ Repair(t) \/ RepairFails(t)
              \/ Take(t) \/ Forget(t) \/ Receive(t) \/ GiveUp(t) \/ Die(t)
       PROVE  LinkInv'
       BY <1>4, <1>5, <1>6, <1>7, <1>8, <1>11, SubmitLinks, TakeLinks
<1> QED  BY <1>9, <1>10, <1>11 DEF Next

\* Of an outbox in order whose links hold, some row that is under way can be sent.
LEMMA GoesOn ==
    ASSUME NEW rows \in Seq(Row), Ordered(rows), OwnRows(rows), Linked(rows),
           \A c \in ToSet(rows) : c.state # "rejected" /\ (~c.tried => c.state = "queued"),
           NEW r \in ToSet(rows), r.state \in {"queued", "sending"}
    PROVE  \E c \in ToSet(rows) : Eligible(rows, c)
<1>1. CASE r.tried \/ r.predecessor = None
      BY <1>1 DEF Eligible
<1>2. CASE ~r.tried /\ r.predecessor # None
  <2>1. PICK p \in Parents(rows, r) : TRUE
        BY <1>2 DEF Linked
  <2>2. p \in ToSet(rows) /\ p.op = r.predecessor /\ r.predecessor # r.op
        BY <1>2, <2>1 DEF Parents, OwnRows, Own
  <2>3. PICK i, j \in DOMAIN rows : p = rows[i] /\ r = rows[j]
        BY <2>2 DEF ToSet
  <2>4. i < j
    <3>1. ~(j < i)
          BY <1>2, <2>3 DEF Ordered, Before
    <3>2. i # j
          BY <2>2, <2>3
    <3>3. i \in Int /\ j \in Int
          BY LenProperties
    <3> QED  BY <3>1, <3>2, <3>3
  <2>5. p.tried
        BY <2>3, <2>4 DEF Ordered, Before
  <2>6. p \in Row
        BY <2>3, ElementOfSeq, LenProperties
  <2>7. CASE p.state = "accepted"
        BY <2>1, <2>7 DEF Eligible
  <2>8. CASE p.state # "accepted"
    <3>1. p.state \in {"queued", "sending"}
          BY <2>2, <2>6, <2>8 DEF Row, State
    <3> QED  BY <2>2, <2>5, <3>1 DEF Eligible
  <2> QED  BY <2>7, <2>8
<1> QED  BY <1>1, <1>2

LEMMA FindsOne == Inv /\ OwnInv /\ LinkInv => NeverStranded
<1> SUFFICES ASSUME Inv, OwnInv, LinkInv, NEW d \in Device,
                    InState(d, "queued") \cup InState(d, "sending") # {}, InState(d, "rejected") = {}
             PROVE  \E r \in ToSet(Cleaned(d)) : Eligible(Cleaned(d), r)
    BY DEF NeverStranded
<1>1. PICK rows \in Seq(Row) : rows = Cleaned(d)
      BY CleanedOK
<1>2. Ordered(rows) /\ OwnRows(rows)
      BY <1>1, CleanedOwn DEF OwnIn
<1>3. Linked(rows)
      BY <1>1, CleanedLinks DEF LinkInv
<1>4. \A c \in ToSet(rows) : RowOK(c) /\ \E r \in Rows(d) : r.op = c.op /\ r.state = c.state
      BY <1>1, CleanedOK
<1>5. \A c \in ToSet(rows) : c.state # "rejected" /\ (~c.tried => c.state = "queued")
      BY <1>4 DEF InState, RowOK
<1>6. PICK s \in Rows(d) : s.state \in {"queued", "sending"}
      BY DEF InState
<1>7. PICK c \in ToSet(rows) : c.op = s.op
      BY <1>1, <1>6, CleanedOK DEF Observed, InState
<1>8. c.state = s.state
      BY <1>4, <1>7, SameOpSameRow
<1> QED  BY <1>1, <1>2, <1>3, <1>5, <1>6, <1>7, <1>8, GoesOn

\* Whatever was forgotten, discarded or given up and whichever tab died, an outbox with a
\* proposal under way and none rejected holds one that the uploader's next pass may send.
THEOREM NeverStrandedAlways == Spec => []NeverStranded
<1>1. Init => LinkInv
      BY DEF Init, LinkInv, Linked, ToSet
<1> QED  BY <1>1, NextLinks, FindsOne, OwnAlways, Invariance, PTL DEF Spec

\* What the server answered to an operation, which a device may read much later and after other
\* copies of it were served: the revision it made, or that it made none.
AnswersStand ==
    \A a \in reply :
        /\ a.ok => Applied(a.op) /\ a.revision = receipt[a.op].expected + 1
        /\ ~a.ok /\ a.op \notin resumed => ~Applied(a.op)

\* An answer is true whenever it is read: copies of a request that was refused are never applied
\* later (unless its editor outlived its row), and those of one that was applied change nothing.
THEOREM AnswersAlwaysStand == Spec => []AnswersStand
<1>1. Inv => AnswersStand
      BY DEF Inv, ReplyInv, ReplyOK, AnswersStand
<1> QED  BY <1>1, Invariance, PTL
================================================================================
