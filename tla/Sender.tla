------------------------------- MODULE Sender -------------------------------
(***************************************************************************)
(* What a queue of outgoing messages promises, with no queue in it: each   *)
(* message reaches the provider at most once, and never after it was given *)
(* up; what is told of a message is true of the provider, or admits that   *)
(* it is not known; and what the provider reports is never taken back.     *)
(***************************************************************************)
EXTENDS Naturals

CONSTANTS
    Message,
    Pretended,   \* messages told to be sent though the provider never sees them
    Reported     \* messages the provider reports on

VARIABLES
    status,    \* what is told of each message
    taken,     \* the messages the provider took
    heard      \* heard[m]: the kinds of report the provider gave on m

vars == <<status, taken, heard>>

\* "open" until it is known what became of the message; "unknown" once nobody will find out but
\* from the provider.
Status == {"none", "open", "sent", "delivered", "failed", "unknown"}

Init ==
    /\ status = [m \in Message |-> "none"]
    /\ taken = {}
    /\ heard = [m \in Reported |-> {}]

Post(m) ==
    /\ status[m] = "none"
    /\ status' = [status EXCEPT ![m] = "open"]
    /\ UNCHANGED <<taken, heard>>

\* A call whose caller was given up on may still get through.
Reach(m) ==
    /\ status[m] \in {"open", "unknown"}
    /\ m \notin taken
    /\ taken' = taken \cup {m}
    /\ UNCHANGED <<status, heard>>

Tell(m, s) ==
    /\ status[m] = "open"
    /\ s = "sent" => m \in taken \cup Pretended
    /\ s = "failed" => m \notin taken
    /\ status' = [status EXCEPT ![m] = s]
    /\ UNCHANGED <<taken, heard>>

\* How far the provider's reports have brought a message; they come in any order.
Stage(s) ==
    CASE s = "sent" -> 1
      [] s = "delivered" -> 2
      [] s = "failed" -> 3
      [] OTHER -> 0

Furthest(s, r) == IF Stage(s) < Stage(r) THEN r ELSE s

Report(m, k) ==
    /\ m \in taken
    /\ k \notin heard[m]
    /\ heard' = [heard EXCEPT ![m] = @ \cup {k}]
    /\ status' = [status EXCEPT ![m] = Furthest(@, k)]
    /\ UNCHANGED taken

Next ==
    \/ \E m \in Message :
          \/ Post(m) \/ Reach(m)
          \/ \E s \in {"sent", "failed", "unknown"} : Tell(m, s)
    \/ \E m \in Reported, k \in {"sent", "delivered", "failed"} : Report(m, k)

Spec == Init /\ [][Next]_vars
=============================================================================
