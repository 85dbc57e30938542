--------------------------- MODULE MCStripeBalance --------------------------
(* Model values for a disputed payment and two payouts.                      *)
EXTENDS StripeBalance

CONSTANTS d1, p1, p2

\* Either the dispute or the payouts move at Stripe: they share no journal.
OneKind ==
    \/ \A d \in Dispute : case'[d].status = "none"
    \/ \A p \in Payout : payout'[p] = "none"
=============================================================================
