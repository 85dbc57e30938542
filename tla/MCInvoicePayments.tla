------------------------- MODULE MCInvoicePayments --------------------------
(* Model values for an invoice with two card payments, a payment by hand and *)
(* refund requests by staff.                                                 *)
EXTENDS InvoicePayments, TLC

CONSTANTS i1, i2, c1, k1, k2

\* The two intents are interchangeable.
Intents == Permutations({i1, i2})

\* The run of both intents looks no further than so many different events of Stripe's.
MaxEvents == 6
FewEvents == Cardinality(emitted) <= MaxEvents
=============================================================================
