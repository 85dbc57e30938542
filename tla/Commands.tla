------------------------------ MODULE Commands ------------------------------
(***************************************************************************)
(* One form of the application and the command surface of the server.      *)
(*                                                                         *)
(* The form (app-core/src/api.ts, hooks.ts, domain/checkout.ts) keeps the  *)
(* attempt it last sent and sends its key again as long as the request is  *)
(* unchanged.  The server (core/command.py) runs a command once per key:   *)
(* it takes an advisory lock on the key, looks for a stored response, runs *)
(* the command and stores the response in the same transaction.            *)
(*                                                                         *)
(* A request may be lost, may be late, so that a copy the form gave up     *)
(* runs beside the next one, and may die in service; an answer may be      *)
(* lost.  A release may change the models a request is hashed by.  It      *)
(* replaces the release before it when nothing is in service.              *)
(***************************************************************************)
EXTENDS Naturals, FiniteSets

CONSTANTS
    Request,   \* what a form can ask for
    Key,       \* the keys newIdempotencyKey makes
    Copy,      \* the requests sent over the network
    Releases,  \* bound: how many releases change the request models
    None

Attempt == [key : Key, request : Request]

Receipt == [by : Copy, request : Request, release : 0 .. Releases]

ASSUME CommandsAssumption ==
    /\ Releases \in Nat
    /\ None \notin Key \cup Request \cup Copy \cup Attempt \cup Receipt
    /\ Request # {}

VARIABLES
    form,     \* the request as the form shows it
    ref,      \* the attempt the form keeps
    call,     \* the copy it waits for
    resent,   \* whether that copy is the second one of sendAttempt
    open,     \* the submission not yet settled, named by its first key: pressed, and neither
              \* answered for good nor changed since
    started,  \* started[k]: the submission key k belongs to, None: no such key yet
    sent,     \* sent[c]: the key and request of copy c
    at,       \* where copy c is
    answer,   \* what the server answered it
    heard,    \* heard[c]: the effect whose response the form was given for c
    lock,     \* lock[k]: who holds the advisory lock of key k
    receipt,  \* receipt[k]: the stored response of key k
    done,     \* the copies whose transaction committed
    release

client == <<form, ref, call, resent, open, started, sent, heard>>
server == <<lock, receipt, done>>
vars == <<client, server, at, answer, release>>

Stage == {"unsent", "sent", "locked", "running", "ended"}

\* The outcomes a form tells apart, where only "ok" comes with a response.
Code == {"none", "ok", "reused", "declined", "conflict", "failed"}
Refusal == {"declined", "conflict", "failed"}

TypeOK ==
    /\ form \in Request
    /\ ref \in Attempt \cup {None}
    /\ call \in Copy \cup {None}
    /\ resent \in BOOLEAN
    /\ open \in Key \cup {None}
    /\ started \in [Key -> Key \cup {None}]
    /\ sent \in [Copy -> Attempt \cup {None}]
    /\ at \in [Copy -> Stage]
    /\ answer \in [Copy -> Code]
    /\ heard \in [Copy -> Copy \cup {None}]
    /\ lock \in [Key -> Copy \cup {None}]
    /\ receipt \in [Key -> Receipt \cup {None}]
    /\ done \subseteq Copy
    /\ release \in 0 .. Releases

Init ==
    /\ form \in Request
    /\ ref = None
    /\ call = None
    /\ resent = FALSE
    /\ open = None
    /\ started = [k \in Key |-> None]
    /\ sent = [c \in Copy |-> None]
    /\ at = [c \in Copy |-> "unsent"]
    /\ answer = [c \in Copy |-> "none"]
    /\ heard = [c \in Copy |-> None]
    /\ lock = [k \in Key |-> None]
    /\ receipt = [k \in Key |-> None]
    /\ done = {}
    /\ release = 0

------------------------------------------------------------------------------
(* The form. *)

\* The fields are edited at any time, also while a copy is in flight.
Edit(r) ==
    /\ r # form
    /\ form' = r
    /\ open' = None
    /\ UNCHANGED <<ref, call, resent, started, sent, heard, server, at, answer, release>>

\* Another payment method, or the sheet closed: the attempt is forgotten.
Reset ==
    /\ ref # None
    /\ ref' = None
    /\ open' = None
    /\ UNCHANGED <<form, call, resent, started, sent, heard, server, at, answer, release>>

\* Whether the attempt that is kept fits request r.
Fits(r) == ref # None /\ ref.request = r

\* attemptKey(ref, r) gives a: the attempt that is kept, or one with a new key.
AttemptKey(r, a) ==
    /\ a.request = r
    /\ IF Fits(r)
         THEN a = ref /\ UNCHANGED started
         ELSE /\ started[a.key] = None
              /\ started' = [started EXCEPT ![a.key] = IF open = None THEN a.key ELSE open]
    /\ ref' = a

Send(c, a, again) ==
    /\ at[c] = "unsent"
    /\ at' = [at EXCEPT ![c] = "sent"]
    /\ sent' = [sent EXCEPT ![c] = a]
    /\ call' = c
    /\ resent' = again

Press(c, a) ==
    /\ call = None
    /\ AttemptKey(form, a)
    /\ Send(c, a, FALSE)
    /\ open' = started'[a.key]
    /\ UNCHANGED <<form, heard, server, answer, release>>

\* Pressed while a copy is in flight: checkout takes a key before run returns early.
PressBusy(a) ==
    /\ call # None
    /\ ~Fits(form)
    /\ AttemptKey(form, a)
    /\ UNCHANGED <<form, call, resent, open, sent, heard, server, at, answer, release>>

\* A response: checkout finishes and forgets the attempt, other forms keep it.
Succeed(c) ==
    /\ call = c /\ answer[c] = "ok"
    /\ heard' = [heard EXCEPT ![c] = receipt[sent[c].key].by]
    /\ call' = None
    /\ open' = None
    /\ ref' \in {ref, None}
    /\ UNCHANGED <<form, resent, started, sent, server, at, answer, release>>

\* sendAttempt: the key was saved for other details, so the request goes out once more under a
\* fresh key.  The form may show something else by now.
Resend(c, d, a) ==
    /\ call = c /\ answer[c] = "reused" /\ ~resent
    /\ a.request = sent[c].request
    /\ started[a.key] = None
    /\ started' = [started EXCEPT ![a.key] = started[sent[c].key]]
    /\ ref' = a
    /\ Send(d, a, TRUE)
    /\ UNCHANGED <<form, open, heard, server, answer, release>>

\* Any other failure keeps the attempt.  A form without sendAttempt shows a reused key as one.
Fail(c) ==
    /\ call = c /\ answer[c] \in Refusal \cup {"reused"}
    /\ call' = None
    /\ UNCHANGED <<form, ref, resent, open, started, sent, heard, server, at, answer, release>>

\* Final answers: a declined card for checkout, a conflict for the public booking, where the time
\* is picked anew.
FailForGood(c) ==
    /\ call = c /\ answer[c] \in {"declined", "conflict"}
    /\ call' = None
    /\ ref' = None
    /\ open' = None
    /\ UNCHANGED <<form, resent, started, sent, heard, server, at, answer, release>>

\* Fault: an answer that was lost ends the attempt.
Lose_forgets ==
    /\ call # None
    /\ call' = None
    /\ ref' = None
    /\ UNCHANGED <<form, resent, open, started, sent, heard, server, at, answer, release>>

\* The connection fails, at any time; the copy may still be served.
Lose ==
    /\ call # None
    /\ call' = None
    /\ UNCHANGED <<form, ref, resent, open, started, sent, heard, server, at, answer, release>>

------------------------------------------------------------------------------
(* The server, serving copy c. *)

Holds(c) == lock[sent[c].key] = c

Unlock(c) == lock' = [lock EXCEPT ![sent[c].key] = None]

End(c, code) ==
    /\ at' = [at EXCEPT ![c] = "ended"]
    /\ answer' = [answer EXCEPT ![c] = code]

\* Fault: the stored response is looked for without a lock.
Acquire_unlocked(c) ==
    /\ at[c] = "sent"
    /\ lock' = [lock EXCEPT ![sent[c].key] = c]
    /\ at' = [at EXCEPT ![c] = "locked"]
    /\ UNCHANGED <<client, receipt, done, answer, release>>

\* pg_advisory_xact_lock returns: this transaction alone holds the lock of the key.
Acquire(c) ==
    /\ at[c] = "sent"
    /\ lock[sent[c].key] = None
    /\ lock' = [lock EXCEPT ![sent[c].key] = c]
    /\ at' = [at EXCEPT ![c] = "locked"]
    /\ UNCHANGED <<client, receipt, done, answer, release>>

SameHash(c) ==
    LET prior == receipt[sent[c].key]
    IN  prior.request = sent[c].request /\ prior.release = release

\* prior() finds the response stored for the key, or refuses the key.
Replay(c) ==
    /\ at[c] = "locked"
    /\ receipt[sent[c].key] # None
    /\ End(c, IF SameHash(c) THEN "ok" ELSE "reused")
    /\ Unlock(c)
    /\ UNCHANGED <<client, receipt, done, release>>

\* Fault: the command does not look whether the key was used.
Run_unguarded(c) ==
    /\ at[c] = "locked"
    /\ at' = [at EXCEPT ![c] = "running"]
    /\ UNCHANGED <<client, server, answer, release>>

\* prior() finds nothing, and the command begins.
Run(c) ==
    /\ at[c] = "locked"
    /\ receipt[sent[c].key] = None
    /\ at' = [at EXCEPT ![c] = "running"]
    /\ UNCHANGED <<client, server, answer, release>>

\* The mutation, its audits and the response commit together, which ends the lock too.
Commit(c) ==
    /\ at[c] = "running"
    /\ done' = done \cup {c}
    /\ receipt' = [receipt EXCEPT ![sent[c].key] =
                     [by |-> c, request |-> sent[c].request, release |-> release]]
    /\ End(c, "ok")
    /\ Unlock(c)
    /\ UNCHANGED <<client, release>>

\* Fault: a lock of the session, which a rollback does not end.
Refuse_locked(c, code) ==
    /\ at[c] = "running"
    /\ End(c, code)
    /\ UNCHANGED <<client, server, release>>

\* The command refuses, is a deadlock's victim or fails: all is rolled back, nothing remembered.
Refuse(c, code) ==
    /\ at[c] = "running"
    /\ End(c, code)
    /\ Unlock(c)
    /\ UNCHANGED <<client, receipt, done, release>>

\* The copy is lost on its way, or its connection or process dies: no answer.
Die(c) ==
    /\ at[c] \in {"sent", "locked", "running"}
    /\ End(c, "none")
    /\ IF Holds(c) THEN Unlock(c) ELSE UNCHANGED lock
    /\ UNCHANGED <<client, receipt, done, release>>

Release ==
    /\ release < Releases
    /\ \A c \in Copy : at[c] \notin {"locked", "running"}
    /\ release' = release + 1
    /\ UNCHANGED <<client, server, at, answer>>

------------------------------------------------------------------------------
Hear(c) ==
    \/ Succeed(c)
    \/ \E d \in Copy, a \in Attempt : Resend(c, d, a)
    \/ Fail(c)
    \/ FailForGood(c)

Serve(c) ==
    \/ Acquire(c)
    \/ Replay(c)
    \/ Run(c)
    \/ Commit(c)
    \/ \E code \in Refusal : Refuse(c, code)

Next ==
    \/ \E r \in Request : Edit(r)
    \/ Reset
    \/ \E c \in Copy, a \in Attempt : Press(c, a)
    \/ \E a \in Attempt : PressBusy(a)
    \/ Lose
    \/ \E c \in Copy : Hear(c) \/ Serve(c) \/ Die(c)
    \/ Release

Spec == Init /\ [][Next]_vars

\* The server goes on with what it has: a transaction ends, and a lock that is free is given to
\* one that waits.  Nothing is assumed of the network or of the person at the form.
FairSpec == Spec /\ \A c \in Copy : WF_vars(Serve(c))

------------------------------------------------------------------------------
(* Properties. *)

A == INSTANCE Attempts WITH
         attempt <- sent,
         effects <- [k \in Key |-> {c \in done : sent[c].key = k}],
         told <- heard

\* The commands implement Attempts: run_command takes effect once per key, and each response the
\* form is given is that of the effect of its own attempt.
ImplementsAttempts == A!Spec

\* However often a person presses again because no answer came, and whatever copies were still
\* on their way or being served meanwhile, a submission takes effect once.  Each release that
\* changes how requests are hashed may add one, since sendAttempt then gives up the key.
OncePerSubmission ==
    \A k \in Key :
        Cardinality({c \in done : started[sent[c].key] = k}) <= 1 + release

\* The form never sends one key with two requests, so that a key is refused only when a
\* release came between, and without one sendAttempt never sends twice.
ReusedByReleaseOnly ==
    \A c \in Copy : answer[c] = "reused" => release > 0

\* Once an attempt has taken effect, a copy of it that comes later is told so: it never hears
\* that its own booking took the time, or that its own charge left nothing to pay.
NeverRefusedAfterEffect ==
    [][\A c \in Copy :
          answer'[c] # answer[c] /\ answer'[c] \in Refusal
            => \A d \in done : sent[d].key # sent[c].key]_vars

\* A copy that reached the server is served to its end: no death, refusal or replay leaves a
\* key locked.
ServedToTheEnd ==
    \A c \in Copy : at[c] = "sent" ~> at[c] = "ended"
=============================================================================
