------------------------------ MODULE Attempts ------------------------------
(***************************************************************************)
(* What an idempotency key promises, with no server in it: of all the      *)
(* copies of an attempt that are ever sent, at most one takes effect, and  *)
(* a copy answered with success is told of that effect, which is what it   *)
(* asked for itself.                                                       *)
(***************************************************************************)
CONSTANTS
    Key,      \* one per write attempt
    Request,
    Copy,     \* the requests sent
    None

Attempt == [key : Key, request : Request]

VARIABLES
    attempt,  \* attempt[c]: what copy c asks for and under which key
    effects,  \* effects[k]: the copies with key k that took effect
    told      \* told[c]: the effect whose response the caller of c was given

vars == <<attempt, effects, told>>

Init ==
    /\ attempt = [c \in Copy |-> None]
    /\ effects = [k \in Key |-> {}]
    /\ told = [c \in Copy |-> None]

Ask(c, a) ==
    /\ attempt[c] = None
    /\ attempt' = [attempt EXCEPT ![c] = a]
    /\ UNCHANGED <<effects, told>>

Perform(c, a) ==
    /\ attempt[c] = a
    /\ effects[a.key] = {}
    /\ effects' = [effects EXCEPT ![a.key] = {c}]
    /\ UNCHANGED <<attempt, told>>

Tell(c, a, d) ==
    /\ attempt[c] = a /\ attempt[d] = a
    /\ d \in effects[a.key]
    /\ told[c] = None
    /\ told' = [told EXCEPT ![c] = d]
    /\ UNCHANGED <<attempt, effects>>

Next ==
    \E c \in Copy, a \in Attempt :
        \/ Ask(c, a)
        \/ Perform(c, a)
        \/ \E d \in Copy : Tell(c, a, d)

Spec == Init /\ [][Next]_vars
=============================================================================
