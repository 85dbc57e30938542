---------------------------- MODULE MCDeliveries ----------------------------
(* Model values for the delivery queue: an email, an inbox text and a text   *)
(* to a reserved number, with two dispatchers.                               *)
EXTENDS Deliveries

CONSTANTS e, t, r, w1, w2

\* One of the two texts at most is ever queued, and a number replies only
\* while it has a text: each text races the email, not the other text.
OneText ==
    /\ state'[t] = "none" \/ state'[r] = "none"
    /\ \A d \in Text : d \in stopped' => state'[d] # "none"
=============================================================================
