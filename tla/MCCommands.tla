----------------------------- MODULE MCCommands -----------------------------
(* Instances of Commands for TLC. *)
EXTENDS Commands

CONSTANTS a, b, k1, k2, k3, c1, c2, c3

MCRequest == {a, b}
MCKey == {k1, k2, k3}
MCCopy == {c1, c2, c3}

\* Keys and copies are interchangeable, and so are the requests until the first is sent: they are
\* used in a fixed order.
InOrder ==
    /\ at[c1] = "unsent" /\ at'[c1] = "sent" => form = a
    /\ at'[c2] # "unsent" => at'[c1] # "unsent"
    /\ at'[c3] # "unsent" => at'[c2] # "unsent"
    /\ started'[k2] # None => started'[k1] # None
    /\ started'[k3] # None => started'[k2] # None

=============================================================================
