------------------------ MODULE InvoicePaymentsProofs ------------------------
(***************************************************************************)
(* Proofs about the money of one invoice, for any sets of intents, cash    *)
(* payments and staff requests and any amount billed: first the sums of    *)
(* the ledger (induction over finite sets), then an invariant every step   *)
(* keeps, then what holds when no two handlers of one intent overlap.      *)
(***************************************************************************)
EXTENDS InvoicePayments, FiniteSetTheorems, TLAPS

\* A set of subsets of S that holds a set when it holds all that lack one of its elements
\* holds every subset of S.
LEMMA SetInduction ==
    ASSUME NEW S, IsFiniteSet(S), NEW C,
           \A T \in SUBSET S : (\A x \in T : T \ {x} \in C) => T \in C
    PROVE  \A T \in SUBSET S : T \in C
<1> DEFINE Bad == (SUBSET S) \ C
           R == StrictSubsetOrdering(S)
<1> SUFFICES ASSUME Bad # {} PROVE FALSE
      OBVIOUS
<1>1. IsWellFoundedOn(R, SUBSET S)
  <2>1. FiniteSubsetsOf(S) = SUBSET S
        BY FS_FiniteSubsetsOfFinite
  <2>2. IsWellFoundedOn(StrictSubsetOrdering(S), FiniteSubsetsOf(S))
        BY FS_StrictSubsetOrderingWellFounded
  <2> QED  BY <2>1, <2>2
<1>2. \E T \in Bad : \A U \in Bad : <<U, T>> \notin R
      <2> HIDE DEF Bad, R
      <2> Bad \subseteq SUBSET S
          BY DEF Bad
      <2> QED BY <1>1, WFMin
<1>3. PICK T \in Bad : \A U \in Bad : <<U, T>> \notin R
      BY <1>2
<1>4. \A x \in T : <<T \ {x}, T>> \in R
      BY DEF StrictSubsetOrdering
<1> QED  BY <1>3, <1>4

\* SumOf(F, S) as the value at S of the function g on the subsets of S that adds up F.
Pick(S) == CHOOSE x \in S : TRUE
IsSum(F, D, g) ==
    g = [s \in D |-> IF s = {} THEN 0 ELSE F[Pick(s)] + g[s \ {Pick(s)}]]

LEMMA SumIsChosen ==
    ASSUME NEW F, NEW S
    PROVE  SumOf(F, S) = (CHOOSE g : IsSum(F, SUBSET S, g))[S]
BY DEF SumOf, MapThenSumSet, MapThenFoldSet, IsSum, Pick

LEMMA PickIn == ASSUME NEW S, S # {} PROVE Pick(S) \in S
BY DEF Pick

\* There is such a function.
LEMMA SumExists ==
    ASSUME NEW F, NEW S, IsFiniteSet(S)
    PROVE  \E g : IsSum(F, SUBSET S, g)
<1> DEFINE Small(n) == {s \in SUBSET S : Cardinality(s) <= n}
           C == {T \in SUBSET S : \E g : IsSum(F, Small(Cardinality(T)), g)}
<1>1. \A T \in SUBSET S : IsFiniteSet(T) /\ Cardinality(T) \in Nat
      BY FS_Subset, FS_CardinalityType
<1>2. \A T \in SUBSET S : (\A x \in T : T \ {x} \in C) => T \in C
  <2> SUFFICES ASSUME NEW T \in SUBSET S, \A x \in T : T \ {x} \in C PROVE T \in C
      OBVIOUS
  <2>1. CASE T = {}
    <3>1. Small(Cardinality(T)) = {{}}
          BY <1>1, <2>1, FS_EmptySet
    <3>2. IsSum(F, {{}}, [s \in {{}} |-> 0])
          BY DEF IsSum
    <3> QED  BY <3>1, <3>2
  <2>2. CASE T # {}
    <3> DEFINE n == Cardinality(T)
    <3>1. PICK x \in T : TRUE
          BY <2>2
    <3>2. n \in Nat /\ Cardinality(T \ {x}) = n - 1
          BY <1>1, FS_RemoveElement
    <3>3. PICK g : IsSum(F, Small(n - 1), g)
          BY <3>2
    <3> DEFINE h == [s \in Small(n) |-> IF s = {} THEN 0 ELSE F[Pick(s)] + g[s \ {Pick(s)}]]
    <3>4. \A s \in Small(n) : s # {} => /\ Pick(s) \in s
                                        /\ s \ {Pick(s)} \in Small(n - 1)
                                        /\ s \ {Pick(s)} \in Small(n)
      <4> SUFFICES ASSUME NEW s \in Small(n), s # {} PROVE /\ Pick(s) \in s
                                        /\ s \ {Pick(s)} \in Small(n - 1)
                                        /\ s \ {Pick(s)} \in Small(n)
          OBVIOUS
      <4>1. Pick(s) \in s
          BY PickIn
      <4>2. Cardinality(s \ {Pick(s)}) = Cardinality(s) - 1 /\ Cardinality(s) \in Nat
          BY <1>1, <4>1, FS_RemoveElement
      <4> QED BY <4>1, <4>2, <3>2
    <3>5. \A s \in Small(n - 1) : h[s] = g[s]
      <4> \A s \in Small(n - 1) : s \in Small(n)
          BY <1>1, <3>2
      <4> QED BY <3>3 DEF IsSum
    <3>6. \A s \in Small(n) : s # {} => g[s \ {Pick(s)}] = h[s \ {Pick(s)}]
          BY <3>4, <3>5
    <3>7. IsSum(F, Small(n), h)
          BY <3>6 DEF IsSum
    <3> QED  BY <3>7
  <2> QED  BY <2>1, <2>2
<1>3. S \in C
  <2> HIDE DEF C
  <2>1. \A T \in SUBSET S : T \in C
        BY <1>2, SetInduction
  <2> QED  BY <2>1
<1>4. Small(Cardinality(S)) = SUBSET S
      BY <1>1, FS_Subset
<1> QED  BY <1>3, <1>4

\* So a sum is the value at the element picked plus the sum of the rest ...
LEMMA SumRecursion ==
    ASSUME NEW F, NEW S, IsFiniteSet(S)
    PROVE  /\ SumOf(F, {}) = 0
           /\ S # {} => SumOf(F, S) = F[Pick(S)] + SumOf(F, S \ {Pick(S)})
<1> DEFINE G(T) == CHOOSE g : IsSum(F, SUBSET T, g)
<1>1. \A T : IsFiniteSet(T) => IsSum(F, SUBSET T, G(T))
      BY SumExists
<1>2. SumOf(F, {}) = 0
  <2>1. {} \in SUBSET {} /\ IsSum(F, SUBSET {}, G({}))
        BY <1>1, FS_EmptySet
  <2>2. G({})[{}] = 0
        BY <2>1 DEF IsSum
  <2> QED  BY <2>2, SumIsChosen
<1>3. ASSUME S # {}
      PROVE  SumOf(F, S) = F[Pick(S)] + SumOf(F, S \ {Pick(S)})
  <2> DEFINE R == S \ {Pick(S)}
             C == {T \in SUBSET R : G(S)[T] = G(R)[T]}
  <2>1. Pick(S) \in S /\ IsFiniteSet(R)
        BY <1>3, PickIn, FS_RemoveElement
  <2>2. IsSum(F, SUBSET S, G(S)) /\ IsSum(F, SUBSET R, G(R))
        BY <1>1, <2>1
  <2> HIDE DEF G
  <2>3. \A T \in SUBSET R : (\A x \in T : T \ {x} \in C) => T \in C
    <3> SUFFICES ASSUME NEW T \in SUBSET R, \A x \in T : T \ {x} \in C
                 PROVE  G(S)[T] = G(R)[T]
        OBVIOUS
    <3>1. T \in SUBSET S
        OBVIOUS
    <3>2. CASE T = {}
        BY <2>2, <3>1, <3>2 DEF IsSum
    <3>3. CASE T # {}
      <4>1. G(S)[T \ {Pick(T)}] = G(R)[T \ {Pick(T)}]
            BY <3>3, PickIn
      <4> QED BY <2>2, <3>1, <3>3, <4>1 DEF IsSum
    <3> QED  BY <3>2, <3>3
  <2>4. R \in C
    <3> HIDE DEF C, R
    <3>1. \A T \in SUBSET R : T \in C
          BY <2>1, <2>3, SetInduction
    <3> QED  BY <3>1
  <2>5. G(S)[S] = F[Pick(S)] + G(S)[R]
        BY <1>3, <2>2 DEF IsSum
  <2>6. SumOf(F, S) = G(S)[S] /\ SumOf(F, R) = G(R)[R]
        BY SumIsChosen DEF G
  <2> QED  BY <2>4, <2>5, <2>6
<1> QED  BY <1>2, <1>3

\* ... it is a number ...
LEMMA SumNat ==
    ASSUME NEW F, NEW S, IsFiniteSet(S), \A x \in S : F[x] \in Nat
    PROVE  \A T \in SUBSET S : SumOf(F, T) \in Nat
<1> DEFINE C == {T \in SUBSET S : SumOf(F, T) \in Nat}
<1>1. \A T \in SUBSET S : (\A x \in T : T \ {x} \in C) => T \in C
  <2> SUFFICES ASSUME NEW T \in SUBSET S, \A x \in T : T \ {x} \in C PROVE SumOf(F, T) \in Nat
      OBVIOUS
  <2>1. CASE T = {}
    <3>1. SumOf(F, T) = 0
          BY <2>1, SumRecursion, FS_EmptySet
    <3> QED  BY <3>1
  <2>2. CASE T # {}
    <3>1. IsFiniteSet(T)
          BY FS_Subset
    <3>2. Pick(T) \in T /\ SumOf(F, T) = F[Pick(T)] + SumOf(F, T \ {Pick(T)})
          BY <2>2, <3>1, PickIn, SumRecursion
    <3>3. SumOf(F, T \ {Pick(T)}) \in Nat
          BY <3>2
    <3> QED  BY <3>2, <3>3
  <2> QED  BY <2>1, <2>2
<1>2. \A T \in SUBSET S : T \in C
  <2> HIDE DEF C
  <2> QED  BY <1>1, SetInduction
<1> QED  BY <1>2

\* ... and it does not matter which element is taken out.
LEMMA SumElement ==
    ASSUME NEW F, NEW S, IsFiniteSet(S), \A x \in S : F[x] \in Nat
    PROVE  /\ SumOf(F, S) \in Nat
           /\ \A x \in S : SumOf(F, S) = F[x] + SumOf(F, S \ {x})
<1> DEFINE C == {T \in SUBSET S : /\ SumOf(F, T) \in Nat
                                  /\ \A x \in T : SumOf(F, T) = F[x] + SumOf(F, T \ {x})}
<1>0. \A T \in SUBSET S : SumOf(F, T) \in Nat
      BY SumNat
<1>1. \A T \in SUBSET S : (\A x \in T : T \ {x} \in C) => T \in C
  <2> SUFFICES ASSUME NEW T \in SUBSET S, \A x \in T : T \ {x} \in C PROVE T \in C
      OBVIOUS
  <2>1. CASE T = {}
    <3>1. SumOf(F, T) = 0
          BY <2>1, SumRecursion, FS_EmptySet
    <3> QED  BY <2>1, <3>1
  <2>2. CASE T # {}
    <3> DEFINE p == Pick(T)
    <3>1. IsFiniteSet(T)
          BY FS_Subset
    <3>2. p \in T /\ SumOf(F, T) = F[p] + SumOf(F, T \ {p})
          BY <2>2, <3>1, PickIn, SumRecursion
    <3>3. ASSUME NEW x \in T, x # p
          PROVE  SumOf(F, T) = F[x] + SumOf(F, T \ {x})
      <4> DEFINE U == (T \ {x}) \ {p}
      <4>1. U = (T \ {p}) \ {x}
            OBVIOUS
      <4>2. SumOf(F, T \ {p}) = F[x] + SumOf(F, U)
            BY <3>2, <3>3, <4>1
      <4>3. SumOf(F, T \ {x}) = F[p] + SumOf(F, U)
            BY <3>2, <3>3
      <4>4. SumOf(F, U) \in Nat
            BY <1>0
      <4> QED  BY <3>2, <4>2, <4>3, <4>4
    <3>4. SumOf(F, T \ {p}) \in Nat /\ F[p] \in Nat
          BY <3>2
    <3>5. SumOf(F, T) \in Nat
          BY <3>2, <3>4
    <3>6. \A x \in T : SumOf(F, T) = F[x] + SumOf(F, T \ {x})
          BY <3>2, <3>3
    <3> QED  BY <3>5, <3>6
  <2> QED  BY <2>1, <2>2
<1>2. S \in C
  <2> HIDE DEF C
  <2>1. \A T \in SUBSET S : T \in C
        BY <1>1, SetInduction
  <2> QED  BY <2>1
<1> QED  BY <1>2

\* A sum depends only on the values at the elements it is over.
LEMMA SumCongruent ==
    ASSUME NEW F, NEW G, NEW S, IsFiniteSet(S),
           \A x \in S : F[x] \in Nat /\ G[x] = F[x]
    PROVE  SumOf(G, S) = SumOf(F, S)
<1> DEFINE C == {T \in SUBSET S : SumOf(G, T) = SumOf(F, T)}
<1>1. \A T \in SUBSET S : (\A x \in T : T \ {x} \in C) => T \in C
  <2> SUFFICES ASSUME NEW T \in SUBSET S, \A x \in T : T \ {x} \in C PROVE T \in C
      OBVIOUS
  <2>1. IsFiniteSet(T)
        BY FS_Subset
  <2>2. CASE T = {}
        BY <2>2, SumRecursion, FS_EmptySet
  <2>3. CASE T # {}
    <3>1. PICK x \in T : TRUE
          BY <2>3
    <3>2. \A y \in T : F[y] \in Nat /\ G[y] \in Nat
          OBVIOUS
    <3>3. SumOf(F, T) = F[x] + SumOf(F, T \ {x})
          BY <2>1, <3>1, <3>2, SumElement
    <3>4. SumOf(G, T) = G[x] + SumOf(G, T \ {x})
          BY <2>1, <3>1, <3>2, SumElement
    <3>5. SumOf(G, T \ {x}) = SumOf(F, T \ {x}) /\ F[x] = G[x]
          BY <3>1
    <3> QED  BY <3>3, <3>4, <3>5
  <2> QED  BY <2>2, <2>3
<1>2. \A T \in SUBSET S : T \in C
  <2> HIDE DEF C
  <2> QED  BY <1>1, SetInduction
<1> QED  BY <1>2

\* Elements matched with different ones that bring at least as much sum to no more.
LEMMA SumInjective ==
    ASSUME NEW F, NEW G, NEW S, NEW T, IsFiniteSet(S), IsFiniteSet(T),
           NEW h \in [S -> T],
           \A x, y \in S : h[x] = h[y] => x = y,
           \A x \in S : G[x] \in Nat /\ G[x] <= F[h[x]],
           \A y \in T : F[y] \in Nat
    PROVE  SumOf(G, S) <= SumOf(F, T)
<1> DEFINE C == {U \in SUBSET S : \A V \in SUBSET T : (\A x \in U : h[x] \in V)
                                      => SumOf(G, U) <= SumOf(F, V)}
<1>1. \A U \in SUBSET S : (\A x \in U : U \ {x} \in C) => U \in C
  <2> SUFFICES ASSUME NEW U \in SUBSET S, \A x \in U : U \ {x} \in C,
                      NEW V \in SUBSET T, \A x \in U : h[x] \in V
               PROVE  SumOf(G, U) <= SumOf(F, V)
      OBVIOUS
  <2>1. IsFiniteSet(U) /\ IsFiniteSet(V)
        BY FS_Subset
  <2>2. SumOf(G, U) \in Nat /\ SumOf(F, V) \in Nat
        BY <2>1, SumElement
  <2>3. CASE U = {}
    <3>1. SumOf(G, U) = 0
          BY <2>3, SumRecursion, FS_EmptySet
    <3> QED  BY <2>2, <3>1
  <2>4. CASE U # {}
    <3>1. PICK x \in U : TRUE
          BY <2>4
    <3>2. SumOf(G, U) = G[x] + SumOf(G, U \ {x})
          BY <2>1, <3>1, SumElement
    <3>3. h[x] \in V /\ SumOf(F, V) = F[h[x]] + SumOf(F, V \ {h[x]})
          BY <2>1, <3>1, SumElement
    <3>4. SumOf(G, U \ {x}) <= SumOf(F, V \ {h[x]})
          BY <3>1
    <3>5. IsFiniteSet(U \ {x}) /\ IsFiniteSet(V \ {h[x]})
          BY <2>1, FS_RemoveElement
    <3>6. SumOf(G, U \ {x}) \in Nat /\ SumOf(F, V \ {h[x]}) \in Nat
          BY <3>5, SumElement
    <3>7. G[x] \in Nat /\ F[h[x]] \in Nat /\ G[x] <= F[h[x]]
          OBVIOUS
    <3> QED  BY <3>2, <3>3, <3>4, <3>6, <3>7
  <2> QED  BY <2>3, <2>4
<1>2. \A U \in SUBSET S : U \in C
  <2> HIDE DEF C
  <2> QED  BY <1>1, SetInduction
<1> QED  BY <1>2

\* A sum is the sum of its parts.
LEMMA SumParts ==
    ASSUME NEW F, NEW S, IsFiniteSet(S), \A x \in S : F[x] \in Nat, NEW T \in SUBSET S
    PROVE  SumOf(F, S) = SumOf(F, T) + SumOf(F, S \ T)
<1> DEFINE C == {U \in SUBSET S : SumOf(F, U) = SumOf(F, U \cap T) + SumOf(F, U \ T)}
<1>1. \A U \in SUBSET S : (\A x \in U : U \ {x} \in C) => U \in C
  <2> SUFFICES ASSUME NEW U \in SUBSET S, \A x \in U : U \ {x} \in C
               PROVE  SumOf(F, U) = SumOf(F, U \cap T) + SumOf(F, U \ T)
      OBVIOUS
  <2>1. IsFiniteSet(U) /\ IsFiniteSet(U \cap T) /\ IsFiniteSet(U \ T)
        BY FS_Subset
  <2>2. CASE U = {}
    <3>1. U \cap T = {} /\ U \ T = {}
          BY <2>2
    <3>2. SumOf(F, {}) = 0
          BY SumRecursion, FS_EmptySet
    <3> QED  BY <2>2, <3>1, <3>2
  <2>3. CASE U # {}
    <3>1. PICK x \in U : TRUE
          BY <2>3
    <3> DEFINE R == U \ {x}
    <3>2. SumOf(F, R) = SumOf(F, R \cap T) + SumOf(F, R \ T)
          BY <3>1
    <3>3. SumOf(F, U) = F[x] + SumOf(F, R)
          BY <2>1, <3>1, SumElement
    <3>4. IsFiniteSet(R \cap T) /\ IsFiniteSet(R \ T)
          BY FS_Subset
    <3>5. SumOf(F, R \cap T) \in Nat /\ SumOf(F, R \ T) \in Nat /\ F[x] \in Nat
          BY <3>1, <3>4, SumElement
    <3>6. CASE x \in T
      <4>1. x \in U \cap T /\ (U \cap T) \ {x} = R \cap T /\ U \ T = R \ T
            BY <3>1, <3>6
      <4>2. SumOf(F, U \cap T) = F[x] + SumOf(F, R \cap T)
            BY <2>1, <4>1, SumElement
      <4>3. SumOf(F, U \ T) = SumOf(F, R \ T)
            BY <4>1, Zenon
      <4> QED  BY <3>2, <3>3, <3>5, <4>2, <4>3
    <3>7. CASE x \notin T
      <4>1. x \in U \ T /\ (U \ T) \ {x} = R \ T /\ U \cap T = R \cap T
            BY <3>1, <3>7
      <4>2. SumOf(F, U \ T) = F[x] + SumOf(F, R \ T)
            BY <2>1, <4>1, SumElement
      <4>3. SumOf(F, U \cap T) = SumOf(F, R \cap T)
            BY <4>1, Zenon
      <4> QED  BY <3>2, <3>3, <3>5, <4>2, <4>3
    <3> QED  BY <3>6, <3>7
  <2> QED  BY <2>2, <2>3
<1>2. \A U \in SUBSET S : U \in C
  <2> HIDE DEF C
  <2> QED  BY <1>1, SetInduction
<1>3. S \cap T = T
      OBVIOUS
<1> QED  BY <1>2, <1>3
------------------------------------------------------------------------------
(***************************************************************************)
(* The invariant.                                                          *)
(***************************************************************************)

USE PaymentAssumption, KeyAssumption

\* What Stripe was asked to create exists there.
OpenedInv ==
    \A i \in Intent :
        /\ openedBy[i] # <<"none">> => stripe[i] # "none"
        /\ command # NoCommand /\ command.of = i => stripe[i] # "none"
        /\ row[i] # "none" => stripe[i] # "none"

\* Charged and canceled are final at Stripe, so what its events say of them stays true.
NewsInv ==
    \A i \in Intent :
        /\ \A s \in {"succeeded", "canceled"} : <<i, s>> \in emitted => stripe[i] = s
        /\ <<i, "failed">> \in emitted => stripe[i] # "none"

\* So does what a handler is about to write.
TxInv ==
    \A e \in Job : tx[e] # NoTx =>
        /\ e # Recon(e[1]) => e \in emitted
        /\ stripe[e[1]] # "none"
        /\ tx[e].at \in {"succeeded", "canceled"} => stripe[e[1]] = tx[e].at

SettledInv == \A i \in Intent : row[i] = "succeeded" => stripe[i] = "succeeded"

BookedInv ==
    /\ \A i \in Intent : i \in Booked => stripe[i] = "succeeded"
    /\ \A c \in Cash : /\ row[c] \in {"none", "succeeded"}
                       /\ c \in Booked <=> row[c] = "succeeded"

\* A late refund returns the whole of a payment that was charged.
AskedInv ==
    \A i \in Intent : stripeRefund[Late(i)] # "none" =>
        stripe[i] = "succeeded" /\ refundAmount[Late(i)] = amount[i]

\* The refunds that give back the receivable are of payments that took from it.
LateInv ==
    \A i \in Intent : Late(i) \in unapplied =>
        i \in Booked /\ stripeRefund[Late(i)] # "none"

Facts == OpenedInv /\ NewsInv /\ TxInv /\ SettledInv /\ BookedInv /\ AskedInv /\ LateInv

Inv == TypeOK /\ Facts /\ CanceledIsClosed /\ NeverOverkept

------------------------------------------------------------------------------
(***************************************************************************)
(* The ledger.                                                             *)
(***************************************************************************)

\* What the sums range over is finite.
LEMMA FiniteSets ==
    IsFiniteSet(Payment) /\ IsFiniteSet(Intent) /\ IsFiniteSet(Refund)
<1>1. IsFiniteSet(Payment) /\ IsFiniteSet(Intent)
      BY FS_Subset DEF Payment
<1>2. IsFiniteSet({Late(i) : i \in Intent})
  <2> DEFINE f == [i \in Intent |-> Late(i)]
  <2>1. f \in Surjection(Intent, {Late(i) : i \in Intent})
        BY DEF Surjection
  <2> QED  BY <1>1, <2>1, FS_Surjection
<1>3. IsFiniteSet(StaffKey \X Payment)
      BY <1>1, FS_Product
<1> QED  BY <1>1, <1>2, <1>3, FS_Union DEF Refund

\* Every payment has one late refund, which no request of staff's shares.
LEMMA RefundType ==
    /\ \A i \in Intent : Late(i) \in Refund /\ Of(Late(i)) = i
    /\ \A i, j \in Intent : Late(i) = Late(j) => i = j
    /\ \A k \in StaffKey, p \in Payment : /\ <<k, p>> \in Refund /\ Of(<<k, p>>) = p
                                          /\ \A i \in Intent : <<k, p>> # Late(i)
    /\ \A r \in Refund : Of(r) \in Payment
BY DEF Refund, Late, Of, Payment

\* A job is news of an intent.
LEMMA JobType ==
    ASSUME NEW e \in Job
    PROVE  /\ e[1] \in Intent /\ e = <<e[1], e[2]>>
           /\ e # Recon(e[1]) => e[2] \in {"succeeded", "failed", "canceled"}
BY DEF Job, Recon

\* What the invoice is still owed is at most what is not kept yet.
LEMMA Owed ==
    ASSUME TypeOK, LateInv, AskedInv, BookedInv
    PROVE  /\ Sum(Kept) \in Nat /\ Pending \in Nat
           /\ Receivable \in Int
           /\ Receivable <= Total - Sum(Kept)
<1> DEFINE L == Returned \cap unapplied
<1>1. IsFiniteSet(Booked) /\ IsFiniteSet(Kept) /\ IsFiniteSet(Booked \ Kept) /\ IsFiniteSet(L)
  <2>1. Booked \in SUBSET Payment /\ Kept \in SUBSET Payment /\ Booked \ Kept \in SUBSET Payment
        /\ L \in SUBSET Refund
        BY DEF Booked, Kept, Returned
  <2> HIDE DEF L
  <2> QED  BY <2>1, FiniteSets, FS_Subset
<1>2. \A p \in Payment : amount[p] \in Nat
      BY DEF TypeOK
<1>3. Sum(Booked) = Sum(Kept) + Sum(Booked \ Kept)
  <2>1. Kept \in SUBSET Booked /\ \A p \in Booked : amount[p] \in Nat
        BY <1>2 DEF Kept, Booked
  <2> QED  BY <1>1, <2>1, SumParts DEF Sum
<1>4. Sum(Kept) \in Nat /\ Sum(Booked \ Kept) \in Nat
  <2>1. \A p \in Booked : amount[p] \in Nat
        BY <1>2 DEF Booked
  <2>2. Kept \subseteq Booked
        BY DEF Kept
  <2> QED  BY <1>1, <2>1, <2>2, SumElement DEF Sum
<1>5. Pending \in Nat
  <2> DEFINE P == {p \in Payment : row[p] = "pending"}
  <2>1. IsFiniteSet(P)
        BY FiniteSets, FS_Subset
  <2>2. SumOf(amount, P) \in Nat
        BY <1>2, <2>1, SumElement
  <2> QED  BY <2>2 DEF Pending, Sum
<1>6. SumRefunds(L) \in Nat /\ SumRefunds(L) <= Sum(Booked \ Kept)
  <2>1. \A r \in L : /\ Of(r) \in Booked \ Kept
                     /\ refundAmount[r] \in Nat
                     /\ refundAmount[r] = amount[Of(r)]
    <3> SUFFICES ASSUME NEW r \in L
                 PROVE  /\ Of(r) \in Booked \ Kept
                        /\ refundAmount[r] \in Nat
                        /\ refundAmount[r] = amount[Of(r)]
        OBVIOUS
    <3>1. PICK i \in Intent : r = Late(i)
          BY DEF TypeOK
    <3>2. Of(r) = i
          BY <3>1, RefundType
    <3>3. i \in Booked /\ stripeRefund[r] # "none" /\ refundAmount[r] = amount[i]
          BY <3>1 DEF LateInv, AskedInv
    <3> QED  BY <1>2, <3>1, <3>2, <3>3 DEF Kept, Payment
  <2>2. \A r, q \in L : Of(r) = Of(q) => r = q
        BY RefundType DEF TypeOK
  <2> DEFINE h == [r \in L |-> Of(r)]
  <2>3. h \in [L -> Booked \ Kept] /\ \A r, q \in L : h[r] = h[q] => r = q
        BY <2>1, <2>2
  <2>4. \A r \in L : refundAmount[r] \in Nat /\ refundAmount[r] <= amount[h[r]]
    <3>1. \A r \in L : h[r] = Of(r) /\ Of(r) \in Payment
          BY RefundType DEF Returned
    <3> QED  BY <1>2, <2>1, <3>1
  <2>5. \A p \in Booked \ Kept : amount[p] \in Nat
        BY <1>2 DEF Booked
  <2>6. SumOf(refundAmount, L) <= SumOf(amount, Booked \ Kept)
    <3> HIDE DEF h, L
    <3> QED  BY <1>1, <2>3, <2>4, <2>5, SumInjective
  <2>7. SumOf(refundAmount, L) \in Nat
        BY <1>1, <2>4, SumElement
  <2> QED  BY <2>6, <2>7 DEF Sum, SumRefunds
<1> QED  BY <1>3, <1>4, <1>5, <1>6 DEF Receivable

\* What is kept does not grow unless a payment is booked.
LEMMA KeptShrinks ==
    ASSUME TypeOK, NeverOverkept,
           Kept' \subseteq Kept, \A p \in Kept : amount'[p] = amount[p]
    PROVE  NeverOverkept'
<1>1. \A p \in Kept : amount[p] \in Nat
      BY DEF TypeOK, Kept, Booked
<1>2. IsFiniteSet(Kept) /\ IsFiniteSet(Kept')
  <2>1. Kept \in SUBSET Payment
        BY DEF Kept, Booked
  <2> QED  BY <2>1, FiniteSets, FS_Subset
<1>3. SumOf(amount', Kept') = SumOf(amount, Kept')
      BY <1>1, <1>2, SumCongruent
<1>4. SumOf(amount, Kept) = SumOf(amount, Kept') + SumOf(amount, Kept \ Kept')
      BY <1>1, <1>2, SumParts
<1>5. SumOf(amount, Kept') \in Nat /\ SumOf(amount, Kept \ Kept') \in Nat
  <2>1. IsFiniteSet(Kept \ Kept')
        BY <1>2, FS_Subset
  <2> QED  BY <1>1, <1>2, <2>1, SumElement
<1>6. Sum(Kept) = SumOf(amount, Kept) /\ Sum(Kept)' = SumOf(amount', Kept')
      BY DEF Sum
<1> QED  BY <1>3, <1>4, <1>5, <1>6 DEF NeverOverkept

\* Booking p keeps at most as much more as p brings.
LEMMA KeptGrows ==
    ASSUME TypeOK, NeverOverkept, NEW p \in Payment, p \notin Kept,
           Kept' \subseteq Kept \cup {p}, \A q \in Kept : amount'[q] = amount[q],
           amount'[p] \in Nat, amount'[p] <= Total - Sum(Kept)
    PROVE  NeverOverkept'
<1> DEFINE S == Kept \cup {p}
<1>1. \A q \in Kept : amount[q] \in Nat
      BY DEF TypeOK, Kept, Booked
<1>2. IsFiniteSet(Kept) /\ IsFiniteSet(S) /\ IsFiniteSet(Kept') /\ IsFiniteSet(S \ Kept')
  <2>1. Kept \in SUBSET Payment
        BY DEF Kept, Booked
  <2>2. IsFiniteSet(Kept) /\ IsFiniteSet(S)
        BY <2>1, FiniteSets, FS_Subset, FS_AddElement
  <2> QED  BY <2>2, FS_Subset
<1>3. \A q \in S : amount'[q] \in Nat
      BY <1>1
<1>4. SumOf(amount', S) = amount'[p] + SumOf(amount', Kept)
  <2>1. S \ {p} = Kept
        OBVIOUS
  <2>2. SumOf(amount', S) = amount'[p] + SumOf(amount', S \ {p})
        BY <1>2, <1>3, SumElement
  <2>3. SumOf(amount', S \ {p}) = SumOf(amount', Kept)
        BY <2>1, Zenon
  <2> QED  BY <2>2, <2>3
<1>5. SumOf(amount', Kept) = SumOf(amount, Kept) /\ SumOf(amount, Kept) \in Nat
      BY <1>1, <1>2, SumCongruent, SumElement
<1>6. SumOf(amount', S) = SumOf(amount', Kept') + SumOf(amount', S \ Kept')
      BY <1>2, <1>3, SumParts
<1>7. SumOf(amount', Kept') \in Nat /\ SumOf(amount', S \ Kept') \in Nat
      BY <1>2, <1>3, SumElement
<1>8. Sum(Kept) = SumOf(amount, Kept) /\ Sum(Kept)' = SumOf(amount', Kept')
      BY DEF Sum
<1> QED  BY <1>4, <1>5, <1>6, <1>7, <1>8 DEF NeverOverkept

\* A step that books no payment, takes back no late refund and changes no booked amount.
LEMMA KeptQuiet ==
    ASSUME TypeOK, NeverOverkept, Booked' \subseteq Booked,
           \A p \in Booked : amount'[p] = amount[p],
           \A i \in Intent : stripeRefund[Late(i)] # "none" => stripeRefund'[Late(i)] # "none"
    PROVE  NeverOverkept'
<1>1. Kept' \subseteq Kept
      BY DEF Kept, Booked
<1>2. \A p \in Kept : amount'[p] = amount[p]
      BY DEF Kept
<1> QED  BY <1>1, <1>2, KeptShrinks

\* It holds of an invoice just sent, ...
LEMMA InitInv == Init => Inv
<1> SUFFICES ASSUME Init PROVE Inv
    OBVIOUS
<1>1. TypeOK
      BY DEF Init, TypeOK, RowStatus, RefundStatus, NoCommand, NoTx
<1>2. Facts /\ CanceledIsClosed
      BY RefundType DEF Init, Facts, OpenedInv, NewsInv, TxInv, SettledInv, BookedInv, AskedInv, LateInv,
         Booked, Payment, CanceledIsClosed, NoTx, NoCommand
<1>3. NeverOverkept
  <2>1. Kept = {}
        BY DEF Init, Kept, Booked
  <2>2. SumOf(amount, {}) = 0
        BY SumRecursion, FS_EmptySet
  <2> QED  BY <2>1, <2>2 DEF NeverOverkept, Sum
<1> QED  BY <1>1, <1>2, <1>3 DEF Inv

\* ... and each command, webhook, replay and job keeps it.
LEMMA PayCardKeeps ==
    ASSUME Inv, NEW i \in Intent, PayCard(i)
    PROVE  Inv'
<1> USE DEF Inv, Facts
<1>1. Receivable \in 0..Total /\ ClosedAttempts(Receivable) \in Nat
  <2>1. {j \in Intent : amount[j] = Receivable /\ row[j] \in {"failed", "canceled"}} \in SUBSET Intent
        OBVIOUS
  <2>2. ClosedAttempts(Receivable) \in Nat
        BY <2>1, FiniteSets, FS_Subset, FS_CardinalityType DEF ClosedAttempts
  <2> QED  BY <2>2, Owed DEF PayCard, Payable
<1> DEFINE key == <<"link", Receivable, ClosedAttempts(Receivable)>>
<1>2. \/ openedBy[i] = key /\ UNCHANGED <<stripe, openedBy, amount>>
      \/ /\ stripe[i] = "none"
         /\ stripe' = [stripe EXCEPT ![i] = "open"]
         /\ openedBy' = [openedBy EXCEPT ![i] = key]
         /\ amount' = [amount EXCEPT ![i] = Receivable]
      BY DEF PayCard
<1>3. key \in {"link"} \X (0..Total) \X Nat /\ key # <<"none">>
      BY <1>1
<1>4. /\ command = NoCommand /\ command' = [at |-> "link", of |-> i]
      /\ UNCHANGED <<invoice, row, refundRow, refundAmount, unapplied, journal, processed, tx,
                     stripeRefund, emitted>>
      BY DEF PayCard
<1> HIDE DEF key
<1>5. TypeOK'
      BY <1>1, <1>2, <1>3, <1>4 DEF TypeOK, Payment
<1>6. OpenedInv'
      BY <1>2, <1>3, <1>4 DEF TypeOK, OpenedInv
<1>7. NewsInv' /\ TxInv' /\ SettledInv' /\ BookedInv' /\ CanceledIsClosed'
      BY <1>2, <1>4, JobType DEF TypeOK, NewsInv, TxInv, SettledInv, BookedInv, Booked, CanceledIsClosed
<1>8. AskedInv' /\ LateInv'
      BY <1>2, <1>4, RefundType DEF TypeOK, AskedInv, LateInv, Booked, Payment
<1>9. NeverOverkept'
  <2>1. \A p \in Booked : p # i \/ stripe[i] # "none"
        BY DEF BookedInv
  <2>2. \A p \in Booked : amount'[p] = amount[p]
        BY <2>1, <1>2 DEF TypeOK, Booked
  <2> QED  BY <1>4, <2>2, KeptQuiet DEF Booked
<1> QED  BY <1>5, <1>6, <1>7, <1>8, <1>9

LEMMA ChargeSavedCardKeeps ==
    ASSUME Inv, NEW i \in Intent, NEW a \in 1..Total, ChargeSavedCard(i, a)
    PROVE  Inv'
<1> USE DEF Inv, Facts
<1>1. \/ /\ stripe[i] = "none"
         /\ openedBy' = [openedBy EXCEPT ![i] = <<"saved">>]
         /\ amount' = [amount EXCEPT ![i] = a]
         /\ \/ /\ stripe' = [stripe EXCEPT ![i] = "succeeded"]
               /\ emitted' = emitted \cup {<<i, "succeeded">>}
               /\ command' = [at |-> "saved", of |-> i]
            \/ /\ stripe' = [stripe EXCEPT ![i] = "declined"]
               /\ emitted' = emitted \cup {<<i, "failed">>}
               /\ UNCHANGED command
      \/ /\ openedBy[i] = <<"saved">>
         /\ command' = [at |-> "saved", of |-> i]
         /\ UNCHANGED <<stripe, openedBy, amount, emitted>>
      BY DEF ChargeSavedCard
<1>2. /\ command = NoCommand
      /\ UNCHANGED <<invoice, row, refundRow, refundAmount, unapplied, journal, processed, tx,
                     stripeRefund>>
      BY DEF ChargeSavedCard
<1>3. TypeOK'
      BY <1>1, <1>2 DEF TypeOK, Payment, Event
<1>4. OpenedInv'
      BY <1>1, <1>2 DEF TypeOK, OpenedInv
<1>5. NewsInv'
  <2>1. CASE UNCHANGED <<stripe, emitted>>
        BY <2>1 DEF NewsInv
  <2>2. CASE stripe[i] = "none" /\ ~UNCHANGED <<stripe, emitted>>
    <3>1. \A s : <<i, s>> \in emitted => s \notin {"succeeded", "canceled", "failed"}
          BY <2>2 DEF NewsInv
    <3>2. \A j \in Intent \ {i} : /\ stripe'[j] = stripe[j]
                                   /\ \A s : <<j, s>> \in emitted' => <<j, s>> \in emitted
          BY <1>1, <2>2 DEF TypeOK
    <3>3. \/ stripe'[i] = "succeeded" /\ emitted' = emitted \cup {<<i, "succeeded">>}
          \/ stripe'[i] = "declined" /\ emitted' = emitted \cup {<<i, "failed">>}
          BY <1>1, <2>2 DEF TypeOK
    <3>4. /\ \A s \in {"succeeded", "canceled"} : <<i, s>> \in emitted' => stripe'[i] = s
          /\ stripe'[i] # "none"
          BY <3>1, <3>3
    <3> QED  BY <3>2, <3>4 DEF NewsInv
  <2> QED  BY <1>1, <2>1, <2>2
<1>6. TxInv' /\ SettledInv' /\ BookedInv' /\ CanceledIsClosed'
      BY <1>1, <1>2, JobType DEF TypeOK, TxInv, SettledInv, BookedInv, Booked, CanceledIsClosed
<1>7. AskedInv' /\ LateInv'
      BY <1>1, <1>2, RefundType DEF TypeOK, AskedInv, LateInv, Booked, Payment
<1>8. NeverOverkept'
  <2>1. \A p \in Booked : p # i \/ stripe[i] # "none"
        BY DEF BookedInv
  <2>2. \A p \in Booked : amount'[p] = amount[p]
        BY <2>1, <1>1 DEF TypeOK, Booked
  <2> QED  BY <1>2, <2>2, KeptQuiet DEF Booked
<1> QED  BY <1>3, <1>4, <1>5, <1>6, <1>7, <1>8

\* Stripe cancels only what was neither charged nor canceled before.
LEMMA CancelKeeps ==
    ASSUME Inv, NEW S \in SUBSET Intent, CancelAtStripe(S)
    PROVE  /\ stripe' \in [Intent -> {"none", "open", "declined", "canceled", "succeeded"}]
           /\ emitted \subseteq emitted' /\ emitted' \subseteq Event
           /\ \A i \in Intent : /\ stripe[i] # "none" => stripe'[i] # "none"
                                /\ stripe[i] \in {"canceled", "succeeded"} => stripe'[i] = stripe[i]
                                /\ i \in S /\ stripe[i] \notin {"none", "succeeded"} =>
                                      stripe'[i] = "canceled"
           /\ NewsInv'
BY DEF Inv, Facts, TypeOK, NewsInv, CancelAtStripe, Event

LEMMA RecordAttemptKeeps ==
    ASSUME Inv, RecordAttempt
    PROVE  Inv'
<1> USE DEF Inv, Facts
<1> DEFINE i == command.of
           others == IF command.at = "link" THEN OpenAttempts(i) ELSE {}
<1>1. i \in Intent /\ others \in SUBSET (Intent \ {i})
      BY DEF RecordAttempt, TypeOK, OpenAttempts
<1>2. /\ command # NoCommand /\ command' = NoCommand
      /\ UNCHANGED <<invoice, amount, refundRow, refundAmount, unapplied, journal, processed, tx,
                     openedBy, stripeRefund>>
      BY DEF RecordAttempt
<1>3. CASE row[i] # "none"
  <2>1. UNCHANGED <<row, stripe, emitted>>
        BY <1>3 DEF RecordAttempt
  <2>2. TypeOK' /\ OpenedInv' /\ NewsInv' /\ TxInv' /\ SettledInv' /\ BookedInv' /\ AskedInv' /\ LateInv'
        /\ CanceledIsClosed'
        BY <1>2, <2>1 DEF TypeOK, OpenedInv, NewsInv, TxInv, SettledInv, BookedInv, AskedInv, LateInv,
           Booked, CanceledIsClosed
  <2>3. NeverOverkept'
        BY <1>2, KeptQuiet DEF Booked
  <2> QED  BY <2>2, <2>3
<1>4. CASE row[i] = "none"
  <2>1. /\ CancelAtStripe(others)
        /\ row' = [j \in Payment |-> IF j = i THEN "pending"
                                     ELSE IF j \in others /\ stripe[j] # "succeeded" THEN "canceled"
                                     ELSE row[j]]
        BY <1>4 DEF RecordAttempt
  <2>2. \A j \in others : row[j] \in {"pending", "failed"} /\ stripe[j] # "none"
        BY DEF OpenAttempts, OpenedInv
  <2>3. stripe[i] # "none"
        BY <1>1, <1>2 DEF OpenedInv
  <2> HIDE DEF i, others
  <2>4. /\ stripe' \in [Intent -> {"none", "open", "declined", "canceled", "succeeded"}]
        /\ emitted \subseteq emitted' /\ emitted' \subseteq Event
        /\ \A j \in Intent : /\ stripe[j] # "none" => stripe'[j] # "none"
                             /\ stripe[j] \in {"canceled", "succeeded"} => stripe'[j] = stripe[j]
                             /\ j \in others /\ stripe[j] \notin {"none", "succeeded"} =>
                                   stripe'[j] = "canceled"
        /\ NewsInv'
        BY <1>1, <2>1, CancelKeeps
  <2>5. TypeOK'
        BY <1>2, <2>1, <2>4 DEF TypeOK, RowStatus
  <2>6. OpenedInv' /\ TxInv'
        BY <1>2, <1>1, <2>1, <2>2, <2>3, <2>4, JobType DEF TypeOK, OpenedInv, TxInv, Payment
  <2>7. SettledInv' /\ BookedInv' /\ CanceledIsClosed'
        BY <1>2, <1>1, <2>1, <2>2, <2>4 DEF TypeOK, SettledInv, BookedInv, Booked, CanceledIsClosed, Payment
  <2>8. AskedInv' /\ LateInv'
        BY <1>2, <2>4 DEF AskedInv, LateInv, Booked
  <2>9. NeverOverkept'
        BY <1>2, KeptQuiet DEF Booked
  <2> QED  BY <2>4, <2>5, <2>6, <2>7, <2>8, <2>9
<1> QED  BY <1>3, <1>4

LEMMA AbortCommandKeeps ==
    ASSUME Inv, AbortCommand
    PROVE  Inv'
<1> USE DEF Inv, Facts
<1>1. /\ command' = NoCommand
      /\ UNCHANGED <<invoice, amount, row, refundRow, refundAmount, unapplied, journal, processed, tx,
                     openedBy, stripeRefund>>
      BY DEF AbortCommand, db
<1>2. PICK S \in SUBSET Intent : CancelAtStripe(S)
      BY DEF AbortCommand, OpenAttempts
<1>3. /\ stripe' \in [Intent -> {"none", "open", "declined", "canceled", "succeeded"}]
      /\ emitted \subseteq emitted' /\ emitted' \subseteq Event
      /\ \A j \in Intent : /\ stripe[j] # "none" => stripe'[j] # "none"
                           /\ stripe[j] \in {"canceled", "succeeded"} => stripe'[j] = stripe[j]
      /\ NewsInv'
      BY <1>2, CancelKeeps
<1>4. TypeOK'
      BY <1>1, <1>3 DEF TypeOK
<1>5. OpenedInv' /\ TxInv'
      BY <1>1, <1>3, JobType DEF OpenedInv, TxInv
<1>6. SettledInv' /\ BookedInv' /\ CanceledIsClosed' /\ AskedInv' /\ LateInv'
      BY <1>1, <1>3 DEF SettledInv, BookedInv, Booked, CanceledIsClosed, AskedInv, LateInv
<1>7. NeverOverkept'
      BY <1>1, KeptQuiet DEF Booked
<1> QED  BY <1>3, <1>4, <1>5, <1>6, <1>7

LEMMA CancelStaleKeeps ==
    ASSUME Inv, NEW i \in Intent, CancelStale(i)
    PROVE  Inv'
<1> USE DEF Inv, Facts
<1>1. /\ row[i] = "pending" /\ stripe[i] \notin {"none", "succeeded"}
      /\ row' = [row EXCEPT ![i] = "canceled"] \/ row' = row
      /\ UNCHANGED <<invoice, amount, refundRow, refundAmount, unapplied, journal, processed, command, tx,
                     openedBy, stripeRefund>>
      BY DEF CancelStale, OpenedInv, work
<1>2. /\ stripe' \in [Intent -> {"none", "open", "declined", "canceled", "succeeded"}]
      /\ emitted \subseteq emitted' /\ emitted' \subseteq Event
      /\ \A j \in Intent : /\ stripe[j] # "none" => stripe'[j] # "none"
                           /\ stripe[j] \in {"canceled", "succeeded"} => stripe'[j] = stripe[j]
      /\ stripe'[i] = "canceled"
      /\ NewsInv'
  <2>1. {i} \in SUBSET Intent /\ CancelAtStripe({i})
        BY DEF CancelStale
  <2> QED  BY <1>1, <2>1, CancelKeeps
<1>3. TypeOK'
      BY <1>1, <1>2 DEF TypeOK, RowStatus, Payment
<1>4. OpenedInv' /\ TxInv'
      BY <1>1, <1>2, JobType DEF TypeOK, OpenedInv, TxInv, Payment
<1>5. SettledInv' /\ BookedInv' /\ CanceledIsClosed' /\ AskedInv' /\ LateInv'
      BY <1>1, <1>2 DEF TypeOK, SettledInv, BookedInv, Booked, CanceledIsClosed, AskedInv, LateInv, Payment
<1>6. NeverOverkept'
      BY <1>1, KeptQuiet DEF Booked
<1> QED  BY <1>2, <1>3, <1>4, <1>5, <1>6

LEMMA ConfirmKeeps ==
    ASSUME Inv, NEW i \in Intent, Confirm(i)
    PROVE  Inv'
<1> USE DEF Inv, Facts
<1>1. /\ stripe[i] \in {"open", "declined"}
      /\ \/ stripe' = [stripe EXCEPT ![i] = "succeeded"] /\ emitted' = emitted \cup {<<i, "succeeded">>}
         \/ stripe' = [stripe EXCEPT ![i] = "declined"] /\ emitted' = emitted \cup {<<i, "failed">>}
      /\ UNCHANGED <<invoice, amount, row, refundRow, refundAmount, unapplied, journal, processed, command, tx,
                     openedBy, stripeRefund>>
      BY DEF Confirm, db, work
<1>2. TypeOK'
      BY <1>1 DEF TypeOK, Event
<1>3. OpenedInv' /\ NewsInv' /\ TxInv'
      BY <1>1, JobType DEF TypeOK, OpenedInv, NewsInv, TxInv
<1>4. SettledInv' /\ BookedInv' /\ CanceledIsClosed' /\ AskedInv' /\ LateInv'
      BY <1>1 DEF TypeOK, SettledInv, BookedInv, Booked, CanceledIsClosed, AskedInv, LateInv
<1>5. NeverOverkept'
      BY <1>1, KeptQuiet DEF Booked
<1> QED  BY <1>2, <1>3, <1>4, <1>5

LEMMA RecordCashKeeps ==
    ASSUME Inv, NEW c \in Cash, NEW a \in 1..Total, RecordCash(c, a)
    PROVE  Inv'
<1> USE DEF Inv, Facts
<1>1. /\ row[c] = "none"
      /\ amount' = [amount EXCEPT ![c] = a]
      /\ row' = [row EXCEPT ![c] = "succeeded"]
      /\ journal' = journal \cup {<<"payment", c>>}
      /\ UNCHANGED <<invoice, refundRow, refundAmount, unapplied, processed, command, tx,
                     stripe, openedBy, stripeRefund, emitted>>
      BY DEF RecordCash, work, external
<1>2. c \in Payment /\ c \notin Intent
      BY DEF Payment
<1>3. TypeOK'
      BY <1>1, <1>2 DEF TypeOK, RowStatus
<1>4. OpenedInv' /\ NewsInv' /\ TxInv' /\ SettledInv' /\ CanceledIsClosed'
      BY <1>1, <1>2 DEF TypeOK, OpenedInv, NewsInv, TxInv, SettledInv, CanceledIsClosed
<1>5. BookedInv'
      BY <1>1, <1>2 DEF TypeOK, BookedInv, Booked, Payment
<1>6. AskedInv' /\ LateInv'
      BY <1>1, <1>2 DEF TypeOK, AskedInv, LateInv, Booked, Payment
<1>7. NeverOverkept'
  <2>1. c \notin Booked
        BY <1>1 DEF BookedInv
  <2>2. Kept' \subseteq Kept \cup {c} /\ c \notin Kept
        BY <1>1, <2>1 DEF Kept, Booked
  <2>3. \A q \in Kept : amount'[q] = amount[q]
        BY <1>1, <2>2 DEF TypeOK, Kept, Booked
  <2>4. amount'[c] = a
        BY <1>1, <1>2 DEF TypeOK
  <2>5. a <= Total - Sum(Kept)
        BY Owed DEF RecordCash, HasRoom
  <2> QED  BY <1>2, <2>2, <2>3, <2>4, <2>5, KeptGrows
<1> QED  BY <1>3, <1>4, <1>5, <1>6, <1>7

LEMMA VoidInvoiceKeeps ==
    ASSUME Inv, VoidInvoice
    PROVE  Inv'
<1> USE DEF Inv, Facts
<1>1. /\ invoice' = "void"
      /\ UNCHANGED <<amount, row, refundRow, refundAmount, unapplied, journal, processed, command, tx,
                     stripe, openedBy, stripeRefund, emitted>>
      BY DEF VoidInvoice, work, external
<1>2. TypeOK'
      BY <1>1 DEF TypeOK
<1>3. Facts' /\ CanceledIsClosed'
      BY <1>1 DEF OpenedInv, NewsInv, TxInv, SettledInv, BookedInv, AskedInv, LateInv,
         Booked, CanceledIsClosed
<1>4. NeverOverkept'
      BY <1>1, KeptQuiet DEF Booked
<1> QED  BY <1>2, <1>3, <1>4

\* A step that only concerns refunds, and asks for no late one, keeps everything.
LEMMA RefundsKeep ==
    ASSUME Inv, TypeOK',
           UNCHANGED <<invoice, amount, row, unapplied, command, tx, stripe, openedBy>>,
           Booked' = Booked, emitted \subseteq emitted',
           \A i \in Intent : \A s : <<i, s>> \in emitted' => <<i, s>> \in emitted,
           \A i \in Intent : /\ stripeRefund'[Late(i)] # "none" <=> stripeRefund[Late(i)] # "none"
                             /\ refundAmount'[Late(i)] = refundAmount[Late(i)]
    PROVE  Inv'
<1> USE DEF Inv, Facts
<1>1. OpenedInv' /\ NewsInv' /\ TxInv' /\ SettledInv' /\ CanceledIsClosed'
      BY JobType DEF OpenedInv, NewsInv, TxInv, SettledInv, CanceledIsClosed
<1>2. BookedInv' /\ AskedInv' /\ LateInv'
      BY DEF BookedInv, AskedInv, LateInv
<1>3. NeverOverkept'
      BY KeptQuiet
<1> QED  BY <1>1, <1>2, <1>3

LEMMA StaffRefundKeeps ==
    ASSUME Inv, NEW k \in StaffKey, NEW p \in Payment, NEW a \in 1..Total, StaffRefund(k, p, a)
    PROVE  Inv'
<1> DEFINE r == <<k, p>>
<1>1. r \in Refund /\ \A i \in Intent : r # Late(i)
      BY RefundType
<1> HIDE DEF r
<1>2. UNCHANGED <<invoice, amount, row, processed, command, tx, stripe, openedBy>>
      BY DEF StaffRefund, work
<1>3. /\ refundAmount' = [refundAmount EXCEPT ![r] = a]
      /\ \/ UNCHANGED <<refundRow, unapplied, journal>>
         \/ \E s \in {"pending", "succeeded"} : WriteRefund(r, a, s, journal)
      BY DEF StaffRefund, WriteRefund, r
<1>4. /\ refundRow' \in [Refund -> RefundStatus]
      /\ unapplied' = unapplied
      /\ journal' = journal \/ journal' = journal \cup {<<"refund", r>>}
  <2>1. CASE UNCHANGED <<refundRow, unapplied, journal>>
        BY <2>1 DEF Inv, TypeOK
  <2>2. CASE \E s \in {"pending", "succeeded"} : WriteRefund(r, a, s, journal)
    <3>1. PICK s \in {"pending", "succeeded"} : WriteRefund(r, a, s, journal)
          BY <2>2
    <3>2. refundRow' = refundRow \/ refundRow' = [refundRow EXCEPT ![r] = s]
          BY <3>1 DEF WriteRefund
    <3>3. unapplied' = unapplied
          BY <1>1, <3>1 DEF WriteRefund
    <3>4. journal' = journal \/ journal' = journal \cup {<<"refund", r>>}
          BY <3>1 DEF WriteRefund
    <3> QED  BY <3>2, <3>3, <3>4 DEF Inv, TypeOK, RefundStatus
  <2> QED  BY <1>3, <2>1, <2>2
<1>5. \/ UNCHANGED <<stripeRefund, emitted>>
      \/ \E s \in {"pending", "succeeded"} :
            /\ stripeRefund' = [stripeRefund EXCEPT ![r] = s]
            /\ emitted' = emitted \cup {<<r, s>>}
      BY DEF StaffRefund, AskStripe, r
<1>6. TypeOK'
  <2>1. journal' \subseteq ({"payment"} \X Payment) \cup ({"refund", "refund_failed"} \X Refund)
        BY <1>1, <1>4 DEF Inv, TypeOK
  <2>2. stripeRefund' \in [Refund -> RefundStatus] /\ emitted' \subseteq Event /\ emitted \subseteq emitted'
        BY <1>1, <1>5 DEF Inv, TypeOK, RefundStatus, Event
  <2>3. refundAmount' \in [Refund -> 0..Total]
        BY <1>1, <1>3 DEF Inv, TypeOK
  <2> QED  BY <1>2, <1>4, <2>1, <2>2, <2>3 DEF Inv, TypeOK
<1>7. Booked' = Booked
      BY <1>4 DEF Booked
<1>8. emitted \subseteq emitted' /\ \A i \in Intent : \A s : <<i, s>> \in emitted' => <<i, s>> \in emitted
      BY <1>1, <1>5
<1>9. \A i \in Intent : /\ stripeRefund'[Late(i)] # "none" <=> stripeRefund[Late(i)] # "none"
                        /\ refundAmount'[Late(i)] = refundAmount[Late(i)]
      BY <1>1, <1>3, <1>5, RefundType DEF Inv, TypeOK
<1> QED  BY <1>2, <1>4, <1>6, <1>7, <1>8, <1>9, RefundsKeep

LEMMA StripeRefundMovesKeeps ==
    ASSUME Inv, NEW r \in Refund, StripeRefundMoves(r)
    PROVE  Inv'
<1>1. UNCHANGED <<invoice, amount, row, refundRow, refundAmount, unapplied, journal, processed, command, tx,
                  stripe, openedBy>>
      BY DEF StripeRefundMoves, db, work
<1>2. stripeRefund[r] # "none"
      BY DEF StripeRefundMoves
<1>3. PICK s \in {"succeeded", "failed"} : /\ stripeRefund' = [stripeRefund EXCEPT ![r] = s]
                                           /\ emitted' = emitted \cup {<<r, s>>}
      BY DEF StripeRefundMoves
<1>4. TypeOK'
      BY <1>1, <1>3 DEF Inv, TypeOK, RefundStatus, Event
<1>5. Booked' = Booked
      BY <1>1 DEF Booked
<1>6. emitted \subseteq emitted' /\ \A i \in Intent : \A t : <<i, t>> \in emitted' => <<i, t>> \in emitted
      BY <1>3
<1>7. \A i \in Intent : /\ stripeRefund'[Late(i)] # "none" <=> stripeRefund[Late(i)] # "none"
                        /\ refundAmount'[Late(i)] = refundAmount[Late(i)]
      BY <1>1, <1>2, <1>3, RefundType DEF Inv, TypeOK
<1> QED  BY <1>1, <1>4, <1>5, <1>6, <1>7, RefundsKeep

LEMMA ReconcileRefundKeeps ==
    ASSUME Inv, NEW r \in Refund, NEW s \in RefundStatus, ReconcileRefund(r, s),
           processed' \subseteq emitted
    PROVE  Inv'
<1>1. UNCHANGED <<invoice, amount, row, refundAmount, unapplied, command, tx,
                  stripe, openedBy, stripeRefund, emitted>>
      BY DEF ReconcileRefund, work, external
<1>2. /\ refundRow' \in [Refund -> RefundStatus]
      /\ \/ journal' = journal
         \/ journal' = journal \cup {<<"refund", r>>}
         \/ journal' = journal \cup {<<"refund_failed", r>>}
  <2>1. refundRow' = refundRow \/ refundRow' = [refundRow EXCEPT ![r] = s]
        BY DEF ReconcileRefund
  <2>2. refundRow \in [Refund -> RefundStatus]
        BY DEF Inv, TypeOK
  <2>3. \/ journal' = journal
        \/ journal' = journal \cup {<<"refund", r>>}
        \/ journal' = journal \cup {<<"refund_failed", r>>}
        BY DEF ReconcileRefund
  <2> QED  BY <2>1, <2>2, <2>3
<1>3. TypeOK'
      BY <1>1, <1>2 DEF Inv, TypeOK
<1>4. Booked' = Booked
      BY <1>2 DEF Booked
<1> QED  BY <1>1, <1>3, <1>4, RefundsKeep

LEMMA RefundNewsKeeps ==
    ASSUME Inv, NEW r \in Refund,
           \/ ReconcileRefundJob(r)
           \/ \E k \in {"pending", "succeeded", "failed"} : RefundEvent(r, k)
    PROVE  Inv'
<1>1. CASE ReconcileRefundJob(r)
  <2>1. stripeRefund[r] \in RefundStatus /\ ReconcileRefund(r, stripeRefund[r])
        /\ processed' \subseteq emitted
        BY <1>1 DEF ReconcileRefundJob, Inv, TypeOK
  <2> QED  BY <2>1, ReconcileRefundKeeps
<1>2. CASE \E k \in {"pending", "succeeded", "failed"} : RefundEvent(r, k)
  <2>1. PICK k \in {"pending", "succeeded", "failed"} : RefundEvent(r, k)
        BY <1>2
  <2>2. PICK s \in {k, stripeRefund[r]} : ReconcileRefund(r, s)
        BY <2>1 DEF RefundEvent
  <2>3. s \in RefundStatus /\ processed' \subseteq emitted
        BY <2>1 DEF RefundEvent, RefundStatus, Inv, TypeOK
  <2> QED  BY <2>2, <2>3, ReconcileRefundKeeps
<1> QED  BY <1>1, <1>2

\* What a handler may act on is true of the intent, and stays true when it is final.
LEMMA NewsHolds ==
    ASSUME Inv, NEW e \in Job, NEW as \in News(e)
    PROVE  /\ e # Recon(e[1]) => e \in emitted
           /\ stripe[e[1]] # "none"
           /\ as \in {"succeeded", "failed", "canceled"}
           /\ as \in {"succeeded", "canceled"} => stripe[e[1]] = as
<1>1. e[1] \in Intent /\ stripe[e[1]] \in {"none", "open", "declined", "canceled", "succeeded"}
      BY JobType DEF Inv, TypeOK
<1>2. CASE e = Recon(e[1])
      BY <1>1, <1>2 DEF News
<1>3. CASE e # Recon(e[1])
  <2>1. e \in emitted /\ e = <<e[1], e[2]>> /\ e[2] \in {"succeeded", "failed", "canceled"}
        BY <1>3, JobType DEF News
  <2>2. /\ stripe[e[1]] # "none"
        /\ e[2] \in {"succeeded", "canceled"} => stripe[e[1]] = e[2]
        BY <1>1, <2>1 DEF Inv, Facts, NewsInv
  <2>3. as = e[2] \/ as \in TypeForState(e[1])
        BY <1>3 DEF News
  <2> QED  BY <1>1, <2>1, <2>2, <2>3 DEF TypeForState
<1> QED  BY <1>2, <1>3

LEMMA BeginKeeps ==
    ASSUME Inv, NEW e \in Job, Begin(e)
    PROVE  Inv'
<1> USE DEF Inv, Facts
<1>1. UNCHANGED <<invoice, amount, row, refundRow, refundAmount, unapplied, journal, processed, command,
                  stripe, openedBy, stripeRefund, emitted>>
      BY DEF Begin, db, external
<1>2. PICK as \in News(e) : tx' = [tx EXCEPT ![e] = [at |-> as, saw |-> row[e[1]]]]
      BY DEF Begin
<1>3. /\ e # Recon(e[1]) => e \in emitted
      /\ stripe[e[1]] # "none"
      /\ as \in {"succeeded", "failed", "canceled"}
      /\ as \in {"succeeded", "canceled"} => stripe[e[1]] = as
      BY NewsHolds
<1>4. row[e[1]] \in RowStatus
      BY JobType DEF TypeOK, Payment
<1>5. TypeOK'
      BY <1>1, <1>2, <1>3, <1>4 DEF TypeOK
<1>6. TxInv'
      BY <1>1, <1>2, <1>3, <1>4 DEF TypeOK, TxInv
<1>7. OpenedInv' /\ NewsInv' /\ SettledInv' /\ BookedInv' /\ AskedInv' /\ LateInv' /\ CanceledIsClosed'
      BY <1>1 DEF OpenedInv, NewsInv, SettledInv, BookedInv, AskedInv, LateInv, Booked, CanceledIsClosed
<1>8. NeverOverkept'
      BY <1>1, KeptQuiet DEF Booked
<1> QED  BY <1>5, <1>6, <1>7, <1>8

LEMMA SkipKeeps ==
    ASSUME Inv, NEW e \in Job, Skip(e)
    PROVE  Inv'
<1> USE DEF Inv, Facts
<1>1. UNCHANGED <<invoice, amount, row, refundRow, refundAmount, unapplied, journal, command, tx,
                  stripe, openedBy, stripeRefund, emitted>>
      BY DEF Skip, work, external
<1>2. PICK as \in News(e) : TRUE
      BY DEF Skip
<1>3. processed' \subseteq emitted
      BY NewsHolds DEF Skip, Done, TypeOK
<1>4. TypeOK'
      BY <1>1, <1>3 DEF TypeOK
<1>5. Facts' /\ CanceledIsClosed'
      BY <1>1 DEF OpenedInv, NewsInv, TxInv, SettledInv, BookedInv, AskedInv, LateInv, Booked,
         CanceledIsClosed
<1>6. NeverOverkept'
      BY <1>1, KeptQuiet DEF Booked
<1> QED  BY <1>4, <1>5, <1>6

LEMMA FailPaymentKeeps ==
    ASSUME Inv, NEW e \in Job, FailPayment(e)
    PROVE  Inv'
<1> USE DEF Inv, Facts
<1>1. /\ tx[e].at \in {"failed", "canceled"}
      /\ row' = [row EXCEPT ![e[1]] = tx[e].at]
      /\ tx' = [tx EXCEPT ![e] = NoTx]
      /\ UNCHANGED <<invoice, amount, refundRow, refundAmount, unapplied, journal, command,
                     stripe, openedBy, stripeRefund, emitted>>
      BY DEF FailPayment, external
<1>2. e[1] \in Intent /\ e[1] \in Payment /\ e[1] \notin Cash
      BY JobType DEF Payment
<1>3. tx[e] # NoTx
      BY <1>1 DEF NoTx
<1>4. /\ e # Recon(e[1]) => e \in emitted
      /\ stripe[e[1]] # "none"
      /\ tx[e].at = "canceled" => stripe[e[1]] = "canceled"
      BY <1>3 DEF TxInv
<1>5. processed' \subseteq emitted
      BY <1>4 DEF FailPayment, Done, TypeOK
<1>6. TypeOK'
      BY <1>1, <1>2, <1>5 DEF TypeOK, RowStatus
<1>7. OpenedInv' /\ NewsInv' /\ TxInv' /\ SettledInv' /\ CanceledIsClosed'
      BY <1>1, <1>2, <1>4 DEF TypeOK, OpenedInv, NewsInv, TxInv, SettledInv, CanceledIsClosed, Payment
<1>8. BookedInv' /\ AskedInv' /\ LateInv'
      BY <1>1, <1>2 DEF TypeOK, BookedInv, AskedInv, LateInv, Booked, Payment
<1>9. NeverOverkept'
      BY <1>1, KeptQuiet DEF Booked
<1> QED  BY <1>6, <1>7, <1>8, <1>9

\* Asking Stripe for a late refund, or for the one it already made.
LEMMA AskLate ==
    ASSUME TypeOK, NEW i \in Intent, NEW a, NEW s \in {"pending", "succeeded"}, AskStripe(Late(i), a, s)
    PROVE  /\ stripeRefund' \in [Refund -> RefundStatus]
           /\ stripeRefund'[Late(i)] # "none"
           /\ \A r \in Refund \ {Late(i)} : stripeRefund'[r] = stripeRefund[r]
           /\ emitted \subseteq emitted' /\ emitted' \subseteq Event
           /\ \A j \in Intent : \A t : <<j, t>> \in emitted' => <<j, t>> \in emitted
BY RefundType DEF TypeOK, AskStripe, RefundStatus, Event

LEMMA SettlePaymentKeeps ==
    ASSUME Inv, NEW e \in Job, SettlePayment(e)
    PROVE  Inv'
<1> USE DEF Inv, Facts
<1> DEFINE i == e[1]
           booked == journal \cup {<<"payment", i>>}
<1>1. /\ tx[e].at = "succeeded"
      /\ row' = [row EXCEPT ![i] = "succeeded"]
      /\ tx' = [tx EXCEPT ![e] = NoTx]
      /\ UNCHANGED <<invoice, amount, command, stripe, openedBy>>
      BY DEF SettlePayment
<1>2. i \in Intent /\ i \in Payment /\ i \notin Cash
      BY JobType DEF Payment
<1>3. /\ e # Recon(i) => e \in emitted
      /\ stripe[i] = "succeeded"
      BY <1>1 DEF TxInv, NoTx
<1>4. processed' \subseteq emitted
      BY <1>3 DEF SettlePayment, Done, TypeOK
<1>5. \/ /\ journal' = booked /\ ~Unapplied(i)
         /\ UNCHANGED <<refundRow, refundAmount, unapplied, stripeRefund, emitted>>
      \/ \E s \in {"pending", "succeeded"} :
            AskStripe(Late(i), amount[i], s) /\ WriteRefund(Late(i), amount[i], s, booked)
      BY DEF SettlePayment
<1> HIDE DEF i
<1>6. CASE \E s \in {"pending", "succeeded"} :
              AskStripe(Late(i), amount[i], s) /\ WriteRefund(Late(i), amount[i], s, booked)
  <2>1. PICK s \in {"pending", "succeeded"} :
              AskStripe(Late(i), amount[i], s) /\ WriteRefund(Late(i), amount[i], s, booked)
        BY <1>6
  <2>2. Late(i) \in Refund /\ amount[i] \in 0..Total
        BY <1>2, RefundType DEF TypeOK
  <2>3. /\ stripeRefund' \in [Refund -> RefundStatus]
        /\ stripeRefund'[Late(i)] # "none"
        /\ \A r \in Refund \ {Late(i)} : stripeRefund'[r] = stripeRefund[r]
        /\ emitted \subseteq emitted' /\ emitted' \subseteq Event
        /\ \A j \in Intent : \A t : <<j, t>> \in emitted' => <<j, t>> \in emitted
        BY <1>2, <2>1, AskLate
  <2>4. /\ refundAmount' = [refundAmount EXCEPT ![Late(i)] = amount[i]]
        /\ refundRow' \in [Refund -> RefundStatus]
        /\ unapplied \subseteq unapplied' /\ unapplied' \subseteq unapplied \cup {Late(i)}
        /\ journal' = booked \/ journal' = booked \cup {<<"refund", Late(i)>>}
        BY <2>1, <2>2 DEF WriteRefund, TypeOK, RefundStatus
  <2>5. Booked' = Booked \cup {i}
        BY <1>2, <2>4 DEF Booked
  <2> HIDE DEF booked
  <2>6. journal' \subseteq ({"payment"} \X Payment) \cup ({"refund", "refund_failed"} \X Refund)
        BY <1>2, <2>2, <2>4 DEF TypeOK, booked
  <2>7. TypeOK'
        BY <1>1, <1>2, <1>4, <2>2, <2>3, <2>4, <2>6 DEF TypeOK, RowStatus
  <2>8. OpenedInv' /\ NewsInv' /\ SettledInv' /\ CanceledIsClosed'
        BY <1>1, <1>2, <1>3, <2>3 DEF TypeOK, OpenedInv, NewsInv, SettledInv, CanceledIsClosed, Payment
  <2>9. TxInv'
        BY <1>1, <2>3 DEF TypeOK, TxInv
  <2>10. BookedInv' /\ AskedInv' /\ LateInv'
    <3>1. BookedInv'
          BY <1>1, <1>2, <1>3, <2>5 DEF TypeOK, BookedInv, Payment
    <3>2. AskedInv'
          BY <1>1, <1>2, <1>3, <2>2, <2>3, <2>4, RefundType DEF TypeOK, AskedInv
    <3>3. LateInv'
          BY <1>2, <2>3, <2>4, <2>5, RefundType DEF LateInv
    <3> QED  BY <3>1, <3>2, <3>3
  <2>11. NeverOverkept'
    <3>1. Kept' \subseteq Kept
          BY <1>2, <2>3, <2>5, RefundType DEF Kept, Booked, Payment
    <3> QED  BY <1>1, <3>1, KeptShrinks
  <2> QED  BY <2>7, <2>8, <2>9, <2>10, <2>11
<1>7. CASE /\ journal' = booked /\ ~Unapplied(i)
           /\ UNCHANGED <<refundRow, refundAmount, unapplied, stripeRefund, emitted>>
  <2>1. Booked' = Booked \cup {i}
        BY <1>2, <1>7 DEF Booked
  <2>2. TypeOK'
        BY <1>1, <1>2, <1>4, <1>7 DEF TypeOK, RowStatus
  <2>3. OpenedInv' /\ NewsInv' /\ TxInv' /\ SettledInv' /\ CanceledIsClosed'
        BY <1>1, <1>2, <1>3, <1>7 DEF TypeOK, OpenedInv, NewsInv, TxInv, SettledInv, CanceledIsClosed, Payment
  <2>4. BookedInv' /\ AskedInv' /\ LateInv'
        BY <1>1, <1>2, <1>3, <1>7, <2>1 DEF TypeOK, BookedInv, AskedInv, LateInv, Payment
  <2>5. Kept' \subseteq Kept \cup {i}
        BY <1>7, <2>1 DEF Kept
  <2>6. ASSUME i \in Kept PROVE NeverOverkept'
    <3>1. Kept' \subseteq Kept
          BY <2>5, <2>6
    <3> QED  BY <1>1, <3>1, KeptShrinks
  <2>7. ASSUME i \notin Kept PROVE NeverOverkept'
    <3>1. amount'[i] \in Nat /\ amount'[i] <= Total - Sum(Kept)
          BY <1>1, <1>2, <1>7, Owed DEF Unapplied, TypeOK
    <3> QED  BY <1>1, <1>2, <2>5, <2>7, <3>1, KeptGrows
  <2> QED  BY <2>2, <2>3, <2>4, <2>6, <2>7
<1> QED  BY <1>5, <1>6, <1>7

LEMMA HandlerFailsKeeps ==
    ASSUME Inv, NEW e \in Job, HandlerFails(e)
    PROVE  Inv'
<1> USE DEF Inv, Facts
<1> DEFINE i == e[1]
<1>1. /\ tx' = [tx EXCEPT ![e] = NoTx]
      /\ UNCHANGED <<invoice, amount, row, refundRow, unapplied, journal, processed, command,
                     stripe, openedBy>>
      BY DEF HandlerFails
<1>2. i \in Intent /\ i \in Payment
      BY JobType DEF Payment
<1>3. Booked' = Booked
      BY <1>1 DEF Booked
<1>4. CASE UNCHANGED <<refundAmount, stripeRefund, emitted>>
  <2>1. TypeOK'
        BY <1>1, <1>4 DEF TypeOK
  <2>2. Facts' /\ CanceledIsClosed'
        BY <1>1, <1>3, <1>4 DEF TypeOK, OpenedInv, NewsInv, TxInv, SettledInv, BookedInv, AskedInv, LateInv,
           CanceledIsClosed
  <2>3. NeverOverkept'
        BY <1>1, <1>3, <1>4, KeptQuiet
  <2> QED  BY <2>1, <2>2, <2>3
<1>5. CASE /\ tx[e].at = "succeeded"
           /\ \E s \in {"pending", "succeeded"} : AskStripe(Late(i), amount[i], s)
           /\ refundAmount' = [refundAmount EXCEPT ![Late(i)] = amount[i]]
  <2>1. stripe[i] = "succeeded"
        BY <1>5 DEF TxInv, NoTx
  <2>2. Late(i) \in Refund /\ amount[i] \in 0..Total
        BY <1>2, RefundType DEF TypeOK
  <2> HIDE DEF i
  <2>3. /\ stripeRefund' \in [Refund -> RefundStatus]
        /\ stripeRefund'[Late(i)] # "none"
        /\ \A r \in Refund \ {Late(i)} : stripeRefund'[r] = stripeRefund[r]
        /\ emitted \subseteq emitted' /\ emitted' \subseteq Event
        /\ \A j \in Intent : \A t : <<j, t>> \in emitted' => <<j, t>> \in emitted
        BY <1>2, <1>5, AskLate
  <2>4. TypeOK'
        BY <1>1, <1>5, <2>2, <2>3 DEF TypeOK
  <2>5. OpenedInv' /\ NewsInv' /\ SettledInv' /\ CanceledIsClosed'
        BY <1>1, <2>3 DEF OpenedInv, NewsInv, SettledInv, CanceledIsClosed
  <2>6. TxInv'
        BY <1>1, <2>3 DEF TypeOK, TxInv
  <2>7. BookedInv' /\ LateInv'
        BY <1>1, <1>3, <2>3, RefundType DEF BookedInv, LateInv
  <2>8. AskedInv'
        BY <1>1, <1>2, <1>5, <2>1, <2>2, <2>3, RefundType DEF TypeOK, AskedInv
  <2>9. NeverOverkept'
    <3>1. \A j \in Intent : stripeRefund[Late(j)] # "none" => stripeRefund'[Late(j)] # "none"
          BY <2>3, RefundType
    <3> QED  BY <1>1, <1>3, <3>1, KeptQuiet
  <2> QED  BY <2>4, <2>5, <2>6, <2>7, <2>8, <2>9
<1> QED  BY <1>4, <1>5 DEF HandlerFails

\* So every step does.
LEMMA NextKeeps == Inv /\ [Next]_vars => Inv'
<1> SUFFICES ASSUME Inv, [Next]_vars PROVE Inv'
    OBVIOUS
<1>1. ASSUME NEW i \in Intent, PayCard(i) \/ CancelStale(i) \/ Confirm(i) PROVE Inv'
      BY <1>1, PayCardKeeps, CancelStaleKeeps, ConfirmKeeps
<1>2. ASSUME NEW i \in Intent, NEW a \in 1..Total, ChargeSavedCard(i, a) PROVE Inv'
      BY <1>2, ChargeSavedCardKeeps
<1>3. CASE RecordAttempt \/ AbortCommand \/ VoidInvoice
      BY <1>3, RecordAttemptKeeps, AbortCommandKeeps, VoidInvoiceKeeps
<1>4. ASSUME NEW c \in Cash, NEW a \in 1..Total, RecordCash(c, a) PROVE Inv'
      BY <1>4, RecordCashKeeps
<1>5. ASSUME NEW k \in StaffKey, NEW p \in Payment, NEW a \in 1..Total, StaffRefund(k, p, a) PROVE Inv'
      BY <1>5, StaffRefundKeeps
<1>6. ASSUME NEW r \in Refund, StripeRefundMoves(r) PROVE Inv'
      BY <1>6, StripeRefundMovesKeeps
<1>7. ASSUME NEW r \in Refund, \/ ReconcileRefundJob(r)
                               \/ \E k \in {"pending", "succeeded", "failed"} : RefundEvent(r, k)
      PROVE Inv'
      BY <1>7, RefundNewsKeeps
<1>8. ASSUME NEW e \in Job, Begin(e) \/ Skip(e) \/ Finish(e) \/ HandlerFails(e) PROVE Inv'
      BY <1>8, BeginKeeps, SkipKeeps, FailPaymentKeeps, SettlePaymentKeeps, HandlerFailsKeeps DEF Finish
<1>9. CASE UNCHANGED vars
  <2>1. UNCHANGED <<invoice, amount, row, refundRow, refundAmount, unapplied, journal, processed, command, tx,
                    stripe, openedBy, stripeRefund, emitted>>
        BY <1>9 DEF vars, db, work, external
  <2> QED  BY <2>1, RefundsKeep DEF Inv, TypeOK, Booked
<1> QED  BY <1>1, <1>2, <1>3, <1>4, <1>5, <1>6, <1>7, <1>8, <1>9 DEF Next

\* The inductive invariant of the module.
LEMMA Invariance == Spec => []Inv
<1>1. Init => Inv
      BY InitInv
<1>2. Inv /\ [Next]_vars => Inv'
      BY NextKeeps
<1> QED  BY <1>1, <1>2, PTL DEF Spec

\* Every variable keeps its type, whatever the order of commands, news and crashes.
THEOREM TypeCorrect == Spec => []TypeOK
<1>1. Inv => TypeOK
      BY DEF Inv
<1> QED  BY <1>1, Invariance, PTL

\* A row is only given up as canceled once its intent is canceled at Stripe, where nothing can
\* charge it again: no payment is dropped by superseding it, by the stale job or by late news.
THEOREM ClosedAlways == Spec => []CanceledIsClosed
<1>1. Inv => CanceledIsClosed
      BY DEF Inv
<1> QED  BY <1>1, Invariance, PTL

\* The payments kept on an invoice never exceed what it billed, for any number of card attempts,
\* saved cards and payments in cash and for any amounts: _settle_payment and _assert_room measure
\* each of them against the receivable under the invoice's lock.
THEOREM NeverOverkeptAlways == Spec => []NeverOverkept
<1>1. Inv => NeverOverkept
      BY DEF Inv
<1> QED  BY <1>1, Invariance, PTL

------------------------------------------------------------------------------
(***************************************************************************)
(* What is still to come: the books may miss news of Stripe's, but nothing *)
(* they say or leave out keeps that news from being booked.                *)
(***************************************************************************)
\* What Stripe said of a refund is not ahead of it.
RefundNewsInv ==
    \A r \in Refund :
        /\ stripeRefund[r] = "pending" => <<r, "pending">> \in emitted
        /\ \A k \in RefundStatus : <<r, k>> \in emitted => k \in Sofar(stripeRefund[r])

LaterInv == RefundNewsInv /\ RefundsAreBehind /\ TakenCanBeBooked

\* Steps that do nothing about refunds.
LEMMA NoRefundSteps ==
    ASSUME TypeOK, RefundNewsInv, RefundsAreBehind,
           UNCHANGED <<refundRow, stripeRefund>>,
           \A r \in Refund : \A t : <<r, t>> \in emitted' <=> <<r, t>> \in emitted,
           \A r \in Refund : \A t \in {"refund", "refund_failed"} : <<t, r>> \in journal' <=> <<t, r>> \in journal
    PROVE  RefundNewsInv' /\ RefundsAreBehind'
BY DEF RefundNewsInv, RefundsAreBehind, Returned

\* A refund Stripe is asked for is not ahead of what it answers, nor does it fall behind a row.
LEMMA AskStays ==
    ASSUME TypeOK, RefundNewsInv, NEW r \in Refund, NEW a, NEW s \in {"pending", "succeeded"}, AskStripe(r, a, s)
    PROVE  /\ RefundNewsInv'
           /\ s \in Sofar(stripeRefund'[r])
           /\ \A q \in Refund : Sofar(stripeRefund[q]) \subseteq Sofar(stripeRefund'[q])
<1>1. CASE stripeRefund[r] # "none"
  <2>1. s = FirstAnswer(r) /\ UNCHANGED <<stripeRefund, emitted>>
        BY <1>1 DEF AskStripe
  <2>2. stripeRefund[r] \in RefundStatus
        BY DEF TypeOK
  <2>3. s \in Sofar(stripeRefund[r])
        BY <1>1, <2>1, <2>2 DEF FirstAnswer, RefundNewsInv, Sofar, RefundStatus
  <2> QED  BY <2>1, <2>3 DEF RefundNewsInv
<1>2. CASE stripeRefund[r] = "none"
  <2>1. /\ stripeRefund' = [stripeRefund EXCEPT ![r] = s]
        /\ emitted' = emitted \cup {<<r, s>>}
        BY <1>2 DEF AskStripe
  <2>2. \A q \in Refund : stripeRefund'[q] = IF q = r THEN s ELSE stripeRefund[q]
        BY <2>1 DEF TypeOK
  <2>3. \A k \in RefundStatus : <<r, k>> \in emitted => k = "none"
        BY <1>2 DEF RefundNewsInv, Sofar
  <2>4. \A q \in Refund : Sofar(stripeRefund[q]) \subseteq Sofar(stripeRefund'[q])
        BY <1>2, <2>2 DEF Sofar
  <2>5. s \in Sofar(s) /\ "none" \in Sofar(s)
        BY DEF Sofar
  <2>6. RefundNewsInv'
        BY <2>1, <2>2, <2>3, <2>5 DEF RefundNewsInv
  <2> QED  BY <2>2, <2>4, <2>5, <2>6
<1> QED  BY <1>1, <1>2

\* A new row of a refund says what Stripe answered.
LEMMA WriteFollows ==
    ASSUME TypeOK, RefundsAreBehind, NEW r \in Refund, NEW a, NEW s \in {"pending", "succeeded"}, NEW booked,
           WriteRefund(r, a, s, booked),
           \A q \in Refund : \A t \in {"refund", "refund_failed"} : <<t, q>> \in booked <=> <<t, q>> \in journal,
           Of(r) \in Intent => s \in Sofar(stripeRefund'[r]),
           \A q \in Refund : Sofar(stripeRefund[q]) \subseteq Sofar(stripeRefund'[q])
    PROVE  RefundsAreBehind'
<1>1. CASE refundRow[r] # "none"
  <2>1. UNCHANGED refundRow /\ journal' = booked
        BY <1>1 DEF WriteRefund
  <2> QED  BY <2>1 DEF RefundsAreBehind, Returned
<1>2. CASE refundRow[r] = "none"
  <2>1. /\ refundRow' = [refundRow EXCEPT ![r] = s]
        /\ journal' = booked \cup (IF s = "succeeded" THEN {<<"refund", r>>} ELSE {})
        BY <1>2 DEF WriteRefund
  <2>2. \A q \in Refund : refundRow'[q] = IF q = r THEN s ELSE refundRow[q]
        BY <2>1 DEF TypeOK
  <2>3. \A q \in Refund : /\ <<"refund_failed", q>> \in journal' <=> <<"refund_failed", q>> \in journal
                          /\ <<"refund", q>> \in journal' <=>
                                <<"refund", q>> \in journal \/ (q = r /\ s = "succeeded")
        BY <2>1
  <2>4. <<"refund_failed", r>> \notin journal /\ <<"refund", r>> \notin journal
        BY <1>2 DEF RefundsAreBehind, Returned
  <2> QED  BY <2>2, <2>3, <2>4 DEF RefundsAreBehind, Returned
<1> QED  BY <1>1, <1>2

\* News of a refund, which is not ahead of Stripe, does not bring the row ahead of it either.
LEMMA ReconcileFollows ==
    ASSUME TypeOK, RefundsAreBehind, NEW r \in Refund, NEW s \in RefundStatus, ReconcileRefund(r, s),
           s # "none", s \in Sofar(stripeRefund[r])
    PROVE  RefundsAreBehind'
<1>1. UNCHANGED stripeRefund
      BY DEF ReconcileRefund, external
<1>2. CASE UNCHANGED <<refundRow, journal>>
      BY <1>1, <1>2 DEF RefundsAreBehind, Returned
<1>3. CASE /\ refundRow[r] = "succeeded" /\ s = "failed"
           /\ refundRow' = [refundRow EXCEPT ![r] = s]
           /\ journal' = journal \cup {<<"refund_failed", r>>}
  <2>1. \A q \in Refund : refundRow'[q] = IF q = r THEN s ELSE refundRow[q]
        BY <1>3 DEF TypeOK
  <2>2. \A q \in Refund : /\ <<"refund", q>> \in journal' <=> <<"refund", q>> \in journal
                          /\ <<"refund_failed", q>> \in journal' <=>
                                <<"refund_failed", q>> \in journal \/ q = r
        BY <1>3
  <2>3. r \notin Returned' /\ refundRow'[r] = "failed"
        BY <1>3, <2>1, <2>2 DEF Returned
  <2>4. \A q \in Refund \ {r} : /\ q \in Returned' <=> refundRow'[q] = "succeeded"
                                /\ <<"refund_failed", q>> \in journal' => refundRow'[q] = "failed"
        BY <2>1, <2>2 DEF RefundsAreBehind, Returned
  <2>5. \A q \in Refund : Of(q) \in Intent => refundRow'[q] \in Sofar(stripeRefund'[q])
        BY <1>1, <1>3, <2>1 DEF RefundsAreBehind
  <2> QED  BY <2>3, <2>4, <2>5 DEF RefundsAreBehind
<1>4. CASE /\ refundRow[r] \notin {"failed", "succeeded"}
           /\ refundRow' = [refundRow EXCEPT ![r] = s]
           /\ journal' = journal \cup (IF s = "succeeded" THEN {<<"refund", r>>} ELSE {})
  <2>1. \A q \in Refund : refundRow'[q] = IF q = r THEN s ELSE refundRow[q]
        BY <1>4 DEF TypeOK
  <2>2. \A q \in Refund : /\ <<"refund_failed", q>> \in journal' <=> <<"refund_failed", q>> \in journal
                          /\ <<"refund", q>> \in journal' <=>
                                <<"refund", q>> \in journal \/ (q = r /\ s = "succeeded")
        BY <1>4
  <2>3. <<"refund_failed", r>> \notin journal /\ <<"refund", r>> \notin journal
        BY <1>4 DEF RefundsAreBehind, Returned
  <2> QED  BY <1>1, <2>1, <2>2, <2>3 DEF RefundsAreBehind, Returned
<1> QED  BY <1>2, <1>3, <1>4 DEF ReconcileRefund

\* Steps of intents and of payments by hand.
LEMMA PaymentStepsFollow ==
    ASSUME Inv, LaterInv,
           \/ \E i \in Intent : PayCard(i) \/ CancelStale(i) \/ Confirm(i)
           \/ \E i \in Intent, a \in 1..Total : ChargeSavedCard(i, a)
           \/ RecordAttempt \/ AbortCommand \/ VoidInvoice
           \/ \E c \in Cash, a \in 1..Total : RecordCash(c, a)
           \/ \E e \in Job : Begin(e) \/ Skip(e) \/ FailPayment(e)
    PROVE  RefundNewsInv' /\ RefundsAreBehind'
<1>1. UNCHANGED <<refundRow, stripeRefund>>
      BY DEF PayCard, CancelStale, Confirm, ChargeSavedCard, RecordAttempt, AbortCommand, VoidInvoice, RecordCash,
         Begin, Skip, FailPayment, db, work, external
<1>2. ASSUME NEW S \in SUBSET Intent, CancelAtStripe(S)
      PROVE  \A r \in Refund : \A t : <<r, t>> \in emitted' <=> <<r, t>> \in emitted
      BY <1>2 DEF CancelAtStripe
<1>3. \A r \in Refund : \A t : <<r, t>> \in emitted' <=> <<r, t>> \in emitted
  <2>1. CASE \E i \in Intent : PayCard(i) \/ Confirm(i)
        BY <2>1 DEF PayCard, Confirm
  <2>2. CASE \E i \in Intent : CancelStale(i)
        BY <1>2, <2>2 DEF CancelStale
  <2>3. CASE \E i \in Intent, a \in 1..Total : ChargeSavedCard(i, a)
        BY <2>3 DEF ChargeSavedCard
  <2>4. CASE RecordAttempt
    <3>1. CASE UNCHANGED emitted
          BY <3>1
    <3>2. CASE CancelAtStripe(OpenAttempts(command.of))
          BY <1>2, <3>2 DEF OpenAttempts
    <3>3. CASE CancelAtStripe({})
          BY <1>2, <3>3
    <3> QED  BY <2>4, <3>1, <3>2, <3>3 DEF RecordAttempt
  <2>5. CASE AbortCommand
    <3>1. PICK S \in SUBSET Intent : CancelAtStripe(S)
          BY <2>5 DEF AbortCommand, OpenAttempts
    <3> QED  BY <1>2, <3>1
  <2>6. CASE \/ VoidInvoice \/ \E c \in Cash, a \in 1..Total : RecordCash(c, a)
             \/ \E e \in Job : Begin(e) \/ Skip(e) \/ FailPayment(e)
        BY <2>6 DEF VoidInvoice, RecordCash, Begin, Skip, FailPayment, external
  <2> QED  BY <2>1, <2>2, <2>3, <2>4, <2>5, <2>6
<1>4. journal' = journal \/ \E c \in Cash : journal' = journal \cup {<<"payment", c>>}
      BY DEF PayCard, CancelStale, Confirm, ChargeSavedCard, RecordAttempt, AbortCommand, VoidInvoice, RecordCash,
         Begin, Skip, FailPayment, db, work, external
<1>5. \A r \in Refund : \A t \in {"refund", "refund_failed"} : <<t, r>> \in journal' <=> <<t, r>> \in journal
      BY <1>4
<1> QED  BY <1>1, <1>3, <1>5, NoRefundSteps DEF Inv, LaterInv

\* Steps that ask for refunds.
LEMMA RefundStepsFollow ==
    ASSUME Inv, LaterInv,
           \/ \E k \in StaffKey, p \in Payment, a \in 1..Total : StaffRefund(k, p, a)
           \/ \E e \in Job : SettlePayment(e) \/ HandlerFails(e)
    PROVE  RefundNewsInv' /\ RefundsAreBehind'
<1> USE DEF Inv, LaterInv
<1>1. ASSUME NEW r \in Refund, NEW a, NEW s \in {"pending", "succeeded"}, AskStripe(r, a, s),
             UNCHANGED <<refundRow, journal>>
      PROVE  RefundNewsInv' /\ RefundsAreBehind'
  <2>1. RefundNewsInv' /\ \A q \in Refund : Sofar(stripeRefund[q]) \subseteq Sofar(stripeRefund'[q])
        BY <1>1, AskStays
  <2> QED  BY <1>1, <2>1 DEF RefundsAreBehind, Returned
<1>2. ASSUME NEW r \in Refund, NEW a, NEW s \in {"pending", "succeeded"}, NEW booked,
             booked = journal \/ \E p \in Payment : booked = journal \cup {<<"payment", p>>},
             AskStripe(r, a, s), WriteRefund(r, a, s, booked)
      PROVE  RefundNewsInv' /\ RefundsAreBehind'
  <2>1. /\ RefundNewsInv' /\ s \in Sofar(stripeRefund'[r])
        /\ \A q \in Refund : Sofar(stripeRefund[q]) \subseteq Sofar(stripeRefund'[q])
        BY <1>2, AskStays
  <2>2. \A q \in Refund : \A t \in {"refund", "refund_failed"} : <<t, q>> \in booked <=> <<t, q>> \in journal
        BY <1>2
  <2> QED  BY <1>2, <2>1, <2>2, WriteFollows
<1>3. ASSUME NEW k \in StaffKey, NEW p \in Payment, NEW a \in 1..Total, StaffRefund(k, p, a)
      PROVE  RefundNewsInv' /\ RefundsAreBehind'
  <2>1. PICK r \in Refund : r = <<k, p>> /\ Of(r) = p
        BY RefundType
  <2>2. CASE p \in Cash
    <3>1. WriteRefund(r, a, "succeeded", journal) /\ UNCHANGED <<stripeRefund, emitted>>
          BY <1>3, <2>1, <2>2 DEF StaffRefund
    <3>2. Of(r) \notin Intent
          BY <2>1, <2>2
    <3>3. RefundsAreBehind'
          BY <3>1, <3>2, WriteFollows
    <3> QED  BY <3>1, <3>3 DEF RefundNewsInv
  <2>3. CASE p \notin Cash
    <3>1. PICK s \in {"pending", "succeeded"} :
              AskStripe(r, a, s) /\ (WriteRefund(r, a, s, journal) \/ UNCHANGED <<refundRow, journal>>)
          BY <1>3, <2>1, <2>3 DEF StaffRefund
    <3> QED  BY <1>1, <1>2, <3>1
  <2> QED  BY <2>2, <2>3
<1>4. ASSUME NEW e \in Job, SettlePayment(e) PROVE RefundNewsInv' /\ RefundsAreBehind'
  <2>1. PICK i \in Intent : i = e[1] /\ i \in Payment
        BY JobType DEF Payment
  <2>2. PICK booked : booked = journal \cup {<<"payment", i>>}
        OBVIOUS
  <2>3. CASE \E s \in {"pending", "succeeded"} :
                AskStripe(Late(i), amount[i], s) /\ WriteRefund(Late(i), amount[i], s, booked)
        BY <1>2, <2>1, <2>2, <2>3, RefundType
  <2>4. CASE journal' = booked /\ UNCHANGED <<refundRow, stripeRefund, emitted>>
        BY <2>2, <2>4, NoRefundSteps
  <2> QED  BY <1>4, <2>1, <2>2, <2>3, <2>4 DEF SettlePayment
<1>5. ASSUME NEW e \in Job, HandlerFails(e) PROVE RefundNewsInv' /\ RefundsAreBehind'
  <2>1. PICK i \in Intent : i = e[1]
        BY JobType
  <2>2. UNCHANGED <<refundRow, journal>>
        BY <1>5 DEF HandlerFails
  <2>3. CASE UNCHANGED <<stripeRefund, emitted>>
        BY <2>2, <2>3, NoRefundSteps
  <2>4. CASE \E s \in {"pending", "succeeded"} : AskStripe(Late(i), amount[i], s)
        BY <1>1, <2>2, <2>4, RefundType
  <2> QED  BY <1>5, <2>1, <2>3, <2>4 DEF HandlerFails
<1> QED  BY <1>3, <1>4, <1>5

\* Moves of refunds at Stripe, and news of them.
LEMMA NewsStepsFollow ==
    ASSUME Inv, LaterInv, NEW r \in Refund,
           \/ StripeRefundMoves(r) \/ ReconcileRefundJob(r)
           \/ \E k \in {"pending", "succeeded", "failed"} : RefundEvent(r, k)
    PROVE  RefundNewsInv' /\ RefundsAreBehind'
<1> USE DEF Inv, LaterInv
<1>1. CASE StripeRefundMoves(r)
  <2>1. UNCHANGED <<refundRow, journal>>
        BY <1>1 DEF StripeRefundMoves, db
  <2>2. PICK s \in {"succeeded", "failed"} :
            /\ \/ stripeRefund[r] = "pending"
               \/ stripeRefund[r] = "succeeded" /\ s = "failed"
            /\ stripeRefund' = [stripeRefund EXCEPT ![r] = s]
            /\ emitted' = emitted \cup {<<r, s>>}
        BY <1>1 DEF StripeRefundMoves
  <2>3. \A q \in Refund : stripeRefund'[q] = IF q = r THEN s ELSE stripeRefund[q]
        BY <2>2 DEF TypeOK
  <2>4. \A q \in Refund : Sofar(stripeRefund[q]) \subseteq Sofar(stripeRefund'[q])
        BY <2>2, <2>3 DEF Sofar, RefundStatus
  <2>5. s \in Sofar(s) /\ s # "pending"
        BY DEF Sofar, RefundStatus
  <2>6. RefundNewsInv'
    <3>1. ASSUME NEW q \in Refund, stripeRefund'[q] = "pending" PROVE <<q, "pending">> \in emitted'
          BY <2>2, <2>3, <2>5, <3>1 DEF RefundNewsInv
    <3>2. ASSUME NEW q \in Refund, NEW k \in RefundStatus, <<q, k>> \in emitted' PROVE k \in Sofar(stripeRefund'[q])
          BY <2>2, <2>3, <2>4, <2>5, <3>2 DEF RefundNewsInv
    <3> QED  BY <3>1, <3>2 DEF RefundNewsInv
  <2> QED  BY <2>1, <2>4, <2>6 DEF RefundsAreBehind, Returned
<1>2. ASSUME NEW s \in RefundStatus, ReconcileRefund(r, s), s # "none", s \in Sofar(stripeRefund[r])
      PROVE  RefundNewsInv' /\ RefundsAreBehind'
  <2>1. UNCHANGED <<stripeRefund, emitted>>
        BY <1>2 DEF ReconcileRefund, external
  <2>2. RefundsAreBehind'
        BY <1>2, ReconcileFollows
  <2> QED  BY <2>1, <2>2 DEF RefundNewsInv
<1>3. stripeRefund[r] \in RefundStatus /\ stripeRefund[r] \in Sofar(stripeRefund[r])
      BY DEF TypeOK, Sofar, RefundStatus
<1>4. CASE ReconcileRefundJob(r)
      BY <1>2, <1>3, <1>4 DEF ReconcileRefundJob
<1>5. ASSUME NEW k \in {"pending", "succeeded", "failed"}, RefundEvent(r, k)
      PROVE  RefundNewsInv' /\ RefundsAreBehind'
  <2>1. k \in RefundStatus /\ k # "none" /\ k \in Sofar(stripeRefund[r])
        BY <1>5 DEF RefundEvent, RefundNewsInv, RefundStatus
  <2>2. stripeRefund[r] # "none"
        BY <2>1 DEF Sofar
  <2> QED  BY <1>2, <1>3, <1>5, <2>1, <2>2 DEF RefundEvent
<1> QED  BY <1>1, <1>4, <1>5

\* A row that says succeeded came with its journal.
LEMMA NextBooks == Inv /\ Inv' /\ TakenCanBeBooked /\ [Next]_vars => TakenCanBeBooked'
<1> SUFFICES ASSUME Inv, Inv', TakenCanBeBooked, [Next]_vars PROVE TakenCanBeBooked'
    OBVIOUS
<1> USE DEF Inv, TypeOK
<1>1. ASSUME journal \subseteq journal', \A p \in Payment : row'[p] = "succeeded" => row[p] = "succeeded" \/ p \in Booked'
      PROVE  TakenCanBeBooked'
  <2>1. \A p \in Payment : row'[p] = "succeeded" => p \in Booked'
        BY <1>1 DEF TakenCanBeBooked, Booked
  <2>2. \A i \in Intent : i \in Payment /\ row'[i] \in RowStatus
        BY DEF Payment
  <2>3. \A i \in Intent : stripe'[i] = "succeeded" => i \in Booked' \/ row'[i] \in Open("succeeded")
        BY <2>1, <2>2 DEF CanceledIsClosed, Open, RowStatus
  <2> QED  BY <2>1, <2>3 DEF TakenCanBeBooked
<1>2. journal \subseteq journal'
  <2>1. ASSUME NEW r, NEW a, NEW s, NEW booked, WriteRefund(r, a, s, booked) PROVE booked \subseteq journal'
        BY <2>1 DEF WriteRefund
  <2>2. ASSUME NEW r, NEW s, ReconcileRefund(r, s) PROVE journal \subseteq journal'
        BY <2>2 DEF ReconcileRefund
  <2>3. ASSUME NEW k \in StaffKey, NEW p \in Payment, NEW a \in 1..Total, StaffRefund(k, p, a)
        PROVE  journal \subseteq journal'
        BY <2>1, <2>3 DEF StaffRefund
  <2>4. ASSUME NEW e \in Job, SettlePayment(e) PROVE journal \subseteq journal'
    <3>1. PICK booked : booked = journal \cup {<<"payment", e[1]>>}
          OBVIOUS
    <3>2. journal' = booked \/ \E a, s : WriteRefund(Late(e[1]), a, s, booked)
          BY <2>4, <3>1 DEF SettlePayment
    <3> QED  BY <2>1, <3>1, <3>2
  <2>5. CASE \/ \E i \in Intent : PayCard(i) \/ CancelStale(i) \/ Confirm(i)
             \/ \E i \in Intent, a \in 1..Total : ChargeSavedCard(i, a)
             \/ RecordAttempt \/ AbortCommand \/ VoidInvoice
             \/ \E c \in Cash, a \in 1..Total : RecordCash(c, a)
             \/ \E r \in Refund : StripeRefundMoves(r)
             \/ \E e \in Job : Begin(e) \/ Skip(e) \/ FailPayment(e) \/ HandlerFails(e)
             \/ UNCHANGED vars
        BY <2>5 DEF PayCard, CancelStale, Confirm, ChargeSavedCard, RecordAttempt, AbortCommand, VoidInvoice,
           RecordCash, StripeRefundMoves, Begin, Skip, FailPayment, HandlerFails, vars, db
  <2>6. CASE \/ \E r \in Refund : ReconcileRefundJob(r)
             \/ \E r \in Refund, k \in {"pending", "succeeded", "failed"} : RefundEvent(r, k)
        BY <2>2, <2>6 DEF ReconcileRefundJob, RefundEvent
  <2> QED  BY <2>3, <2>4, <2>5, <2>6 DEF Next, Finish
<1>3. ASSUME UNCHANGED row PROVE TakenCanBeBooked'
      BY <1>1, <1>2, <1>3
<1>4. ASSUME NEW i \in Intent, CancelStale(i) PROVE TakenCanBeBooked'
      BY <1>1, <1>2, <1>4 DEF CancelStale
<1>5. CASE RecordAttempt
      BY <1>1, <1>2, <1>5 DEF RecordAttempt
<1>6. ASSUME NEW c \in Cash, NEW a \in 1..Total, RecordCash(c, a) PROVE TakenCanBeBooked'
  <2>1. row' = [row EXCEPT ![c] = "succeeded"] /\ journal' = journal \cup {<<"payment", c>>}
        BY <1>6 DEF RecordCash
  <2>2. \A p \in Payment : p # c => row'[p] = row[p]
        BY <2>1
  <2> QED  BY <1>1, <1>2, <2>1, <2>2 DEF Booked, Payment
<1>7. ASSUME NEW e \in Job, FailPayment(e) PROVE TakenCanBeBooked'
  <2>1. \A p \in Payment : row'[p] = "succeeded" => row[p] = "succeeded"
        BY <1>7, JobType DEF FailPayment
  <2> QED  BY <1>1, <1>2, <2>1
<1>8. ASSUME NEW e \in Job, SettlePayment(e) PROVE TakenCanBeBooked'
  <2>1. row' = [row EXCEPT ![e[1]] = "succeeded"] /\ <<"payment", e[1]>> \in journal'
        BY <1>8 DEF SettlePayment, WriteRefund
  <2>2. \A p \in Payment : p # e[1] => row'[p] = row[p]
        BY <2>1
  <2> QED  BY <1>1, <1>2, <2>1, <2>2 DEF Booked
<1>9. CASE \/ \E i \in Intent : PayCard(i) \/ Confirm(i)
           \/ \E i \in Intent, a \in 1..Total : ChargeSavedCard(i, a)
           \/ AbortCommand \/ VoidInvoice
           \/ \E k \in StaffKey, p \in Payment, a \in 1..Total : StaffRefund(k, p, a)
           \/ \E r \in Refund : StripeRefundMoves(r) \/ ReconcileRefundJob(r)
           \/ \E r \in Refund, k \in {"pending", "succeeded", "failed"} : RefundEvent(r, k)
           \/ \E e \in Job : Begin(e) \/ Skip(e) \/ HandlerFails(e)
           \/ UNCHANGED vars
      BY <1>3, <1>9 DEF PayCard, Confirm, ChargeSavedCard, AbortCommand, VoidInvoice, StaffRefund, StripeRefundMoves,
         ReconcileRefundJob, RefundEvent, ReconcileRefund, Begin, Skip, HandlerFails, vars, db
<1> QED  BY <1>4, <1>5, <1>6, <1>7, <1>8, <1>9 DEF Next, Finish

LEMMA LaterInvariance == Spec => []LaterInv
<1>1. Init => LaterInv
  <2> SUFFICES ASSUME Init PROVE LaterInv
      OBVIOUS
  <2>1. RefundNewsInv
        BY DEF Init, RefundNewsInv
  <2>2. RefundsAreBehind
        BY DEF Init, RefundsAreBehind, Returned, Sofar
  <2>3. TakenCanBeBooked
        BY DEF Init, TakenCanBeBooked, Open, Payment
  <2> QED  BY <2>1, <2>2, <2>3 DEF LaterInv
<1>2. Inv /\ LaterInv /\ [Next]_vars => LaterInv'
  <2> SUFFICES ASSUME Inv, LaterInv, [Next]_vars PROVE LaterInv'
      OBVIOUS
  <2>1. TakenCanBeBooked'
        BY NextKeeps, NextBooks DEF LaterInv
  <2>2. CASE UNCHANGED vars
    <3>1. UNCHANGED <<refundRow, stripeRefund, emitted, journal>>
          BY <2>2 DEF vars, db, external
    <3> QED  BY <2>1, <3>1, NoRefundSteps DEF LaterInv, Inv
  <2>3. CASE Next
    <3>1. RefundNewsInv' /\ RefundsAreBehind'
          BY <2>3, PaymentStepsFollow, RefundStepsFollow, NewsStepsFollow DEF Next, Finish
    <3> QED  BY <2>1, <3>1 DEF LaterInv
  <2> QED  BY <2>2, <2>3
<1> QED  BY <1>1, <1>2, Invariance, PTL DEF Spec

\* A card payment that Stripe took is never shut out of the books: it is there, or its row is one
\* that _settle_payment takes up, however attempts were superseded, declined, canceled or lost and
\* even when two handlers of one intent overlap.
THEOREM TakenAlwaysCanBeBooked == Spec => []TakenCanBeBooked
<1>1. LaterInv => TakenCanBeBooked
      BY DEF LaterInv
<1> QED  BY <1>1, LaterInvariance, PTL

\* The ledger shows a refund as returned exactly while its row says succeeded, and neither is ever
\* ahead of Stripe, so that news still to come only takes them further.
THEOREM RefundsAlwaysBehind == Spec => []RefundsAreBehind
<1>1. LaterInv => RefundsAreBehind
      BY DEF LaterInv
<1> QED  BY <1>1, LaterInvariance, PTL
==============================================================================
