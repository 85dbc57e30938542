--------------------------- MODULE CommandsProofs ---------------------------
(***************************************************************************)
(* Proofs about Commands, for any set of requests, keys and copies and any *)
(* number of releases.                                                     *)
(*                                                                         *)
(* The argument: the lock of a key makes looking for its response and      *)
(* storing it one step for all who hold the key (LockInv), so a response   *)
(* stands for the one effect of its key (ReceiptInv).  At the form, a      *)
(* submission takes another key only once the last one was refused after a *)
(* release (LastInv), so its keys store their responses under different    *)
(* releases (ApartInv), and there are no more effects than releases.       *)
(***************************************************************************)
EXTENDS Commands, FiniteSetTheorems, FunctionTheorems, TLAPS

\* A copy has a key as soon as it is sent.
SentInv == \A c \in Copy : at[c] = "unsent" <=> sent[c] = None

\* A copy in service holds the lock of its key, and one that runs found no response, which stays
\* so since no other copy of the key is in service.
LockInv ==
    \A c \in Copy :
        /\ at[c] \in {"locked", "running"} => lock[sent[c].key] = c
        /\ at[c] = "running" => receipt[sent[c].key] = None

\* The stored response of a key is that of the one copy that took effect, and of its request.
ReceiptInv ==
    /\ \A k \in Key :
          receipt[k] # None =>
             /\ receipt[k].by \in done
             /\ receipt[k].release <= release
             /\ sent[receipt[k].by] = [key |-> k, request |-> receipt[k].request]
    /\ \A c \in done :
          /\ at[c] = "ended"
          /\ receipt[sent[c].key] # None
          /\ receipt[sent[c].key].by = c

\* An answer is given at the end, success and a refused key only where there is a response.
AnswerInv ==
    \A c \in Copy :
        /\ answer[c] # "none" => at[c] = "ended"
        /\ answer[c] = "ok" =>
              /\ receipt[sent[c].key] # None
              /\ receipt[sent[c].key].request = sent[c].request

\* The form waits for a copy that was sent, and has not heard of it.
HeardInv ==
    /\ call # None => sent[call] # None /\ heard[call] = None
    /\ \A c \in Copy : heard[c] # None => sent[c] # None

Inv == TypeOK /\ SentInv /\ LockInv /\ ReceiptInv /\ AnswerInv /\ HeardInv

------------------------------------------------------------------------------
LEMMA TypeInit == Init => TypeOK
<1> SUFFICES ASSUME Init PROVE TypeOK
    OBVIOUS
<1>1. resent \in BOOLEAN
      BY DEF Init
<1>2. at \in [Copy -> Stage] /\ answer \in [Copy -> Code]
      BY DEF Init, Stage, Code
<1>3. release \in 0 .. Releases
      BY CommandsAssumption DEF Init
<1>4. /\ form \in Request
      /\ ref \in Attempt \cup {None} /\ call \in Copy \cup {None} /\ open \in Key \cup {None}
      /\ started \in [Key -> Key \cup {None}]
      /\ sent \in [Copy -> Attempt \cup {None}] /\ heard \in [Copy -> Copy \cup {None}]
      /\ lock \in [Key -> Copy \cup {None}] /\ receipt \in [Key -> Receipt \cup {None}]
      /\ done \subseteq Copy
      BY DEF Init
<1> QED  BY <1>1, <1>2, <1>3, <1>4 DEF TypeOK

LEMMA AttemptKeyType ==
    ASSUME TypeOK, NEW r \in Request, NEW a \in Attempt, AttemptKey(r, a)
    PROVE  /\ ref' \in Attempt \cup {None}
           /\ started' \in [Key -> Key \cup {None}]
           /\ started'[a.key] \in Key \cup {None}
  BY DEF TypeOK, AttemptKey, Attempt

LEMMA TypeStep == TypeOK /\ SentInv /\ AnswerInv /\ [Next]_vars => TypeOK'
<1> SUFFICES ASSUME TypeOK, SentInv, AnswerInv, [Next]_vars PROVE TypeOK'
    OBVIOUS
<1> USE CommandsAssumption
<1>1. ASSUME NEW r \in Request, Edit(r) PROVE TypeOK'
      BY <1>1 DEF Edit, TypeOK, server
<1>2. CASE Reset
      BY <1>2 DEF Reset, TypeOK, server
<1>3. ASSUME NEW c \in Copy, NEW a \in Attempt, Press(c, a) PROVE TypeOK'
      <2>1. /\ ref' \in Attempt \cup {None}
            /\ started' \in [Key -> Key \cup {None}]
            /\ started'[a.key] \in Key \cup {None}
            BY <1>3, AttemptKeyType DEF Press, TypeOK
      <2>2. /\ call' \in Copy \cup {None}
            /\ resent' \in BOOLEAN
            /\ sent' \in [Copy -> Attempt \cup {None}]
            /\ at' \in [Copy -> Stage]
            /\ open' \in Key \cup {None}
            BY <1>3, <2>1 DEF Press, Send, TypeOK, Stage
      <2> QED  BY <1>3, <2>1, <2>2 DEF Press, TypeOK, server
<1>4. ASSUME NEW a \in Attempt, PressBusy(a) PROVE TypeOK'
      <2>1. /\ ref' \in Attempt \cup {None}
            /\ started' \in [Key -> Key \cup {None}]
            BY <1>4, AttemptKeyType DEF PressBusy, TypeOK
      <2> QED  BY <1>4, <2>1 DEF PressBusy, TypeOK, server
<1>5. CASE Lose
      BY <1>5 DEF Lose, TypeOK, server
<1>6. ASSUME NEW c \in Copy, Hear(c) PROVE TypeOK'
      <2>1. CASE Succeed(c)
            <3>1. heard' \in [Copy -> Copy \cup {None}]
                  <4>1. sent[c].key \in Key
                        BY <2>1 DEF Succeed, TypeOK, SentInv, AnswerInv, Attempt
                  <4>2. receipt[sent[c].key].by \in Copy
                        BY <2>1, <4>1 DEF Succeed, TypeOK, AnswerInv, Receipt
                  <4> QED  BY <2>1, <4>2 DEF Succeed, TypeOK
            <3> QED  BY <2>1, <3>1 DEF Succeed, TypeOK, server
      <2>2. ASSUME NEW d \in Copy, NEW a \in Attempt, Resend(c, d, a) PROVE TypeOK'
            <3>1. sent[c].key \in Key
                  BY <2>2 DEF Resend, TypeOK, SentInv, AnswerInv, Attempt
            <3>2. started' \in [Key -> Key \cup {None}]
                  BY <2>2, <3>1 DEF Resend, TypeOK, Attempt
            <3>3. /\ at' \in [Copy -> Stage]
                  /\ sent' \in [Copy -> Attempt \cup {None}]
                  /\ call' \in Copy /\ resent' = TRUE
                  BY <2>2 DEF Resend, Send, TypeOK, Stage
            <3> QED  BY <2>2, <3>2, <3>3 DEF Resend, TypeOK, server
      <2>3. CASE Fail(c)
            BY <2>3 DEF Fail, TypeOK, server
      <2>4. CASE FailForGood(c)
            BY <2>4 DEF FailForGood, TypeOK, server
      <2> QED  BY <1>6, <2>1, <2>2, <2>3, <2>4 DEF Hear
<1>7. ASSUME NEW c \in Copy, Serve(c) PROVE TypeOK'
      <2>1. CASE Acquire(c)
            BY <2>1 DEF Acquire, TypeOK, client, Stage
      <2>2. CASE Replay(c)
            <3>1. answer' \in [Copy -> Code] /\ at' \in [Copy -> Stage]
                  BY <2>2 DEF Replay, End, TypeOK, Stage, Code
            <3> QED  BY <2>2, <3>1 DEF Replay, Unlock, TypeOK, client
      <2>3. CASE Run(c)
            BY <2>3 DEF Run, TypeOK, client, server, Stage
      <2>4. CASE Commit(c)
            <3>1. receipt' \in [Key -> Receipt \cup {None}]
                  <4>1. sent[c] \in Attempt
                        BY <2>4 DEF Commit, TypeOK, SentInv
                  <4> QED  BY <2>4, <4>1 DEF Commit, TypeOK, Receipt, Attempt
            <3>2. answer' \in [Copy -> Code] /\ at' \in [Copy -> Stage]
                  BY <2>4 DEF Commit, End, TypeOK, Stage, Code
            <3> QED  BY <2>4, <3>1, <3>2 DEF Commit, Unlock, TypeOK, client
      <2>5. ASSUME NEW code \in Refusal, Refuse(c, code) PROVE TypeOK'
            <3>1. answer' \in [Copy -> Code] /\ at' \in [Copy -> Stage]
                  BY <2>5 DEF Refuse, End, TypeOK, Stage, Code, Refusal
            <3> QED  BY <2>5, <3>1 DEF Refuse, Unlock, TypeOK, client
      <2> QED  BY <1>7, <2>1, <2>2, <2>3, <2>4, <2>5 DEF Serve
<1>8. ASSUME NEW c \in Copy, Die(c) PROVE TypeOK'
      <2>1. answer' \in [Copy -> Code] /\ at' \in [Copy -> Stage]
            BY <1>8 DEF Die, End, TypeOK, Stage, Code
      <2> QED  BY <1>8, <2>1 DEF Die, Unlock, TypeOK, client
<1>9. CASE Release
      <2>1. release' \in 0 .. Releases
            BY <1>9 DEF Release, TypeOK
      <2> QED  BY <1>9, <2>1 DEF Release, TypeOK, client, server
<1>10. CASE UNCHANGED vars
      BY <1>10 DEF vars, client, server, TypeOK
<1> QED  BY <1>1, <1>2, <1>3, <1>4, <1>5, <1>6, <1>7, <1>8, <1>9, <1>10 DEF Next

------------------------------------------------------------------------------
ServerInv == SentInv /\ LockInv /\ ReceiptInv /\ AnswerInv

\* A new copy disturbs nothing at the server.
LEMMA SendKeeps ==
    ASSUME TypeOK, ServerInv, NEW c \in Copy, NEW a \in Attempt, NEW again, Send(c, a, again),
           UNCHANGED <<server, answer, release>>
    PROVE  ServerInv'
<1> USE DEF ServerInv, Send, server
<1>1. /\ at' = [at EXCEPT ![c] = "sent"] /\ at[c] = "unsent"
      /\ sent' = [sent EXCEPT ![c] = a] /\ a # None
      BY CommandsAssumption
<1>2. SentInv'
      BY <1>1 DEF SentInv, TypeOK
<1>3. \A d \in Copy : d # c => at'[d] = at[d] /\ sent'[d] = sent[d]
      BY <1>1 DEF TypeOK
<1>4. LockInv'
      BY <1>1, <1>3 DEF LockInv, TypeOK
<1>5. c \notin done /\ answer[c] = "none" /\ sent[c] = None
      BY <1>1 DEF ReceiptInv, AnswerInv, SentInv, TypeOK
<1>6. ReceiptInv'
      <2>1. \A k \in Key : receipt[k] # None => receipt[k].by \in done /\ receipt[k].by # c
            BY <1>5 DEF ReceiptInv
      <2>2. \A k \in Key : receipt[k] # None => sent'[receipt[k].by] = sent[receipt[k].by]
            BY <1>3, <2>1 DEF TypeOK
      <2>3. \A d \in done : at'[d] = at[d] /\ sent'[d] = sent[d]
            BY <1>3, <1>5 DEF TypeOK
      <2> QED  BY <2>1, <2>2, <2>3 DEF ReceiptInv
<1>7. AnswerInv'
      BY <1>3, <1>5 DEF AnswerInv
<1> QED  BY <1>2, <1>4, <1>6, <1>7

LEMMA StillKeeps ==
    ASSUME ServerInv, UNCHANGED <<sent, at, server, answer, release>>
    PROVE  ServerInv'
  BY DEF ServerInv, SentInv, LockInv, ReceiptInv, AnswerInv, server

\* What ends a copy without an effect keeps the rest, since no other copy holds its lock.
LEMMA EndKeeps ==
    ASSUME TypeOK, ServerInv, NEW c \in Copy, NEW code \in Code, End(c, code),
           at[c] \in {"sent", "locked", "running"},
           Unlock(c) \/ (UNCHANGED lock /\ at[c] = "sent"),
           code = "ok" => /\ receipt[sent[c].key] # None
                          /\ receipt[sent[c].key].request = sent[c].request,
           UNCHANGED <<sent, receipt, done, release>>,
           lock[sent[c].key] = c \/ UNCHANGED lock
    PROVE  ServerInv'
<1> USE DEF ServerInv, End
<1>1. /\ at' = [at EXCEPT ![c] = "ended"] /\ at'[c] = "ended"
      /\ \A d \in Copy : d # c => at'[d] = at[d]
      BY DEF TypeOK
<1>2. /\ answer'[c] = code
      /\ \A d \in Copy : d # c => answer'[d] = answer[d]
      BY DEF TypeOK
<1>3. SentInv'
      BY <1>1 DEF SentInv
<1>4. LockInv'
      <2> SUFFICES ASSUME NEW d \in Copy, at'[d] \in {"locked", "running"}
                   PROVE  /\ lock'[sent[d].key] = d
                          /\ at'[d] = "running" => receipt[sent[d].key] = None
          BY DEF LockInv
      <2>1. d # c /\ at[d] = at'[d]
            BY <1>1
      <2>2. lock[sent[d].key] = d /\ (at[d] = "running" => receipt[sent[d].key] = None)
            BY <2>1 DEF LockInv
      <2>3. sent[d].key \in Key
            BY <2>1 DEF SentInv, TypeOK, Attempt
      <2>4. lock[sent[c].key] = c => sent[d].key # sent[c].key
            BY <2>1, <2>2
      <2>5. lock'[sent[d].key] = d
            BY <2>2, <2>3, <2>4 DEF Unlock, TypeOK
      <2> QED  BY <2>1, <2>2, <2>5
<1>5. ReceiptInv'
      BY <1>1 DEF ReceiptInv, TypeOK
<1>6. AnswerInv'
      BY <1>1, <1>2 DEF AnswerInv
<1> QED  BY <1>3, <1>4, <1>5, <1>6

LEMMA CommitKeeps ==
    ASSUME TypeOK, ServerInv, NEW c \in Copy, Commit(c)
    PROVE  ServerInv'
<1> DEFINE k == sent[c].key
<1> USE DEF ServerInv
<1>1. /\ at[c] = "running" /\ k \in Key /\ sent[c] \in Attempt
      /\ lock[k] = c /\ receipt[k] = None
      BY DEF Commit, SentInv, LockInv, TypeOK, Attempt
<1>2. /\ at' = [at EXCEPT ![c] = "ended"] /\ at'[c] = "ended"
      /\ \A d \in Copy : d # c => at'[d] = at[d]
      /\ sent' = sent /\ release' = release
      BY DEF Commit, End, TypeOK, client
<1>3. /\ answer'[c] = "ok"
      /\ \A d \in Copy : d # c => answer'[d] = answer[d]
      BY DEF Commit, End, TypeOK
<1>4. /\ receipt'[k] = [by |-> c, request |-> sent[c].request, release |-> release]
      /\ \A j \in Key : j # k => receipt'[j] = receipt[j]
      /\ receipt'[k] # None
      <2>1. [by |-> c, request |-> sent[c].request, release |-> release] \in Receipt
            BY <1>1 DEF Receipt, TypeOK, Attempt
      <2>2. /\ receipt'[k] = [by |-> c, request |-> sent[c].request, release |-> release]
            /\ \A j \in Key : j # k => receipt'[j] = receipt[j]
            BY <1>1 DEF Commit, TypeOK
      <2> QED  BY <2>1, <2>2, CommandsAssumption
<1>5. SentInv'
      BY <1>1, <1>2 DEF SentInv
<1>6. \A d \in Copy : d # c /\ at[d] \in {"locked", "running"} => sent[d].key # k
      BY <1>1 DEF LockInv
<1>7. LockInv'
      <2> SUFFICES ASSUME NEW d \in Copy, at'[d] \in {"locked", "running"}
                   PROVE  /\ lock'[sent'[d].key] = d
                          /\ at'[d] = "running" => receipt'[sent'[d].key] = None
          BY DEF LockInv
      <2>1. d # c /\ at[d] = at'[d] /\ sent[d].key # k
            BY <1>2, <1>6
      <2>2. sent[d].key \in Key
            BY <2>1 DEF SentInv, TypeOK, Attempt
      <2>3. lock'[sent[d].key] = lock[sent[d].key]
            BY <2>1, <2>2 DEF Commit, Unlock, TypeOK
      <2>4. receipt'[sent[d].key] = receipt[sent[d].key]
            BY <2>1, <2>2, <1>4
      <2> QED  BY <2>1, <2>3, <2>4, <1>2 DEF LockInv
<1>8. \A d \in done : d # c /\ sent[d].key # k
      BY <1>1 DEF ReceiptInv
<1>9. ReceiptInv'
      <2>1. done' = done \cup {c}
            BY DEF Commit
      <2>2. \A j \in Key : receipt'[j] # None =>
               /\ receipt'[j].by \in done'
               /\ receipt'[j].release <= release'
               /\ sent'[receipt'[j].by] = [key |-> j, request |-> receipt'[j].request]
            <3> TAKE j \in Key
            <3>1. CASE j = k
                  BY <3>1, <2>1, <1>1, <1>2, <1>4 DEF Attempt, TypeOK
            <3>2. CASE j # k
                  BY <3>2, <2>1, <1>2, <1>4 DEF ReceiptInv
            <3> QED  BY <3>1, <3>2
      <2>3. \A d \in done' : /\ at'[d] = "ended"
                             /\ receipt'[sent'[d].key] # None
                             /\ receipt'[sent'[d].key].by = d
            <3> TAKE d \in done'
            <3>1. CASE d = c
                  BY <3>1, <1>1, <1>2, <1>4
            <3>2. CASE d # c
                  <4>1. d \in done /\ d \in Copy
                        BY <3>2, <2>1 DEF TypeOK
                  <4>2. sent[d].key \in Key
                        BY <4>1 DEF ReceiptInv, SentInv, TypeOK, Attempt
                  <4> QED  BY <4>1, <4>2, <1>2, <1>4, <1>8 DEF ReceiptInv
            <3> QED  BY <3>1, <3>2
      <2> QED  BY <2>2, <2>3 DEF ReceiptInv
<1>10. AnswerInv'
      <2> SUFFICES ASSUME NEW d \in Copy
                   PROVE  /\ answer'[d] # "none" => at'[d] = "ended"
                          /\ answer'[d] = "ok" =>
                                /\ receipt'[sent'[d].key] # None
                                /\ receipt'[sent'[d].key].request = sent'[d].request
          BY DEF AnswerInv
      <2>1. CASE d = c
            BY <2>1, <1>1, <1>2, <1>4
      <2>2. CASE d # c
            <3>1. answer[d] = "ok" => sent[d].key # k /\ sent[d].key \in Key
                  BY <1>1 DEF AnswerInv, SentInv, TypeOK, Attempt
            <3> QED  BY <2>2, <3>1, <1>2, <1>3, <1>4 DEF AnswerInv
      <2> QED  BY <2>1, <2>2
<1> QED  BY <1>5, <1>7, <1>9, <1>10

LEMMA ServerStep == TypeOK /\ ServerInv /\ [Next]_vars => ServerInv'
<1> SUFFICES ASSUME TypeOK, ServerInv, [Next]_vars PROVE ServerInv'
    OBVIOUS
<1>1. ASSUME NEW r \in Request, Edit(r) PROVE ServerInv'
      BY <1>1, StillKeeps DEF Edit
<1>2. CASE Reset
      BY <1>2, StillKeeps DEF Reset
<1>3. ASSUME NEW c \in Copy, NEW a \in Attempt, Press(c, a) PROVE ServerInv'
      BY <1>3, SendKeeps DEF Press
<1>4. ASSUME NEW a \in Attempt, PressBusy(a) PROVE ServerInv'
      BY <1>4, StillKeeps DEF PressBusy
<1>5. CASE Lose
      BY <1>5, StillKeeps DEF Lose
<1>6. ASSUME NEW c \in Copy, Hear(c) PROVE ServerInv'
      <2>1. CASE Succeed(c)
            BY <2>1, StillKeeps DEF Succeed
      <2>2. ASSUME NEW d \in Copy, NEW a \in Attempt, Resend(c, d, a) PROVE ServerInv'
            BY <2>2, SendKeeps DEF Resend
      <2>3. CASE Fail(c)
            BY <2>3, StillKeeps DEF Fail
      <2>4. CASE FailForGood(c)
            BY <2>4, StillKeeps DEF FailForGood
      <2> QED  BY <1>6, <2>1, <2>2, <2>3, <2>4 DEF Hear
<1>7. ASSUME NEW c \in Copy, Serve(c) PROVE ServerInv'
      <2>1. CASE Acquire(c)
            <3>1. /\ at[c] = "sent" /\ at' = [at EXCEPT ![c] = "locked"]
                  /\ lock[sent[c].key] = None /\ sent[c] \in Attempt /\ sent[c].key \in Key
                  /\ lock' = [lock EXCEPT ![sent[c].key] = c]
                  BY <2>1 DEF Acquire, ServerInv, SentInv, TypeOK, Attempt
            <3>2. sent' = sent /\ receipt' = receipt /\ done' = done /\ answer' = answer
                  /\ release' = release
                  BY <2>1 DEF Acquire, client
            <3>3. SentInv' /\ ReceiptInv' /\ AnswerInv'
                  BY <3>1, <3>2 DEF ServerInv, SentInv, ReceiptInv, AnswerInv, TypeOK
            <3>4. LockInv'
                  <4> SUFFICES ASSUME NEW d \in Copy, at'[d] \in {"locked", "running"}
                               PROVE  /\ lock'[sent[d].key] = d
                                      /\ at'[d] = "running" => receipt[sent[d].key] = None
                      BY <3>2 DEF LockInv
                  <4>1. CASE d = c
                        BY <4>1, <3>1 DEF TypeOK
                  <4>2. CASE d # c
                        <5>1. at[d] = at'[d] /\ lock[sent[d].key] = d
                              /\ (at[d] = "running" => receipt[sent[d].key] = None)
                              BY <4>2, <3>1 DEF ServerInv, LockInv, TypeOK
                        <5>2. sent[d].key # sent[c].key
                              BY <5>1, <3>1, CommandsAssumption
                        <5> QED  BY <5>1, <5>2, <3>1 DEF TypeOK
                  <4> QED  BY <4>1, <4>2
            <3> QED  BY <3>3, <3>4 DEF ServerInv
      <2>2. CASE Replay(c)
            <3>1. lock[sent[c].key] = c
                  BY <2>2 DEF Replay, ServerInv, LockInv
            <3>2. SameHash(c) => receipt[sent[c].key].request = sent[c].request
                  BY DEF SameHash
            <3>3. CASE SameHash(c)
                  <4>1. End(c, "ok") /\ "ok" \in Code
                        BY <2>2, <3>3 DEF Replay, Code
                  <4> QED  BY <2>2, <3>1, <3>2, <3>3, <4>1, EndKeeps DEF Replay, client
            <3>4. CASE ~SameHash(c)
                  <4>1. End(c, "reused") /\ "reused" \in Code
                        BY <2>2, <3>4 DEF Replay, Code
                  <4> QED  BY <2>2, <3>1, <4>1, EndKeeps DEF Replay, client
            <3> QED  BY <3>3, <3>4
      <2>3. CASE Run(c)
            <3>1. /\ at[c] = "locked" /\ at' = [at EXCEPT ![c] = "running"]
                  /\ receipt[sent[c].key] = None
                  /\ sent' = sent /\ lock' = lock /\ receipt' = receipt /\ done' = done
                  /\ answer' = answer /\ release' = release
                  BY <2>3 DEF Run, client, server
            <3> QED  BY <3>1 DEF ServerInv, SentInv, LockInv, ReceiptInv, AnswerInv, TypeOK
      <2>4. CASE Commit(c)
            BY <2>4, CommitKeeps
      <2>5. ASSUME NEW code \in Refusal, Refuse(c, code) PROVE ServerInv'
            <3>1. lock[sent[c].key] = c
                  BY <2>5 DEF Refuse, ServerInv, LockInv
            <3>2. code \in Code /\ code # "ok"
                  BY DEF Refusal, Code
            <3> QED  BY <2>5, <3>1, <3>2, EndKeeps DEF Refuse, client
      <2> QED  BY <1>7, <2>1, <2>2, <2>3, <2>4, <2>5 DEF Serve
<1>8. ASSUME NEW c \in Copy, Die(c) PROVE ServerInv'
      <2>1. "none" \in Code
            BY DEF Code
      <2>2. at[c] # "sent" => Holds(c)
            BY <1>8 DEF Die, ServerInv, LockInv, Holds
      <2> QED  BY <1>8, <2>1, <2>2, EndKeeps DEF Die, Holds, client
<1>9. CASE Release
      <2>1. /\ release' = release + 1 /\ release \in Nat
            /\ sent' = sent /\ at' = at /\ lock' = lock /\ receipt' = receipt /\ done' = done
            /\ answer' = answer
            BY <1>9 DEF Release, client, server, TypeOK
      <2>2. \A k \in Key : receipt[k] # None => receipt[k].release \in Nat
            BY DEF TypeOK, Receipt
      <2>3. ReceiptInv'
            BY <2>1, <2>2 DEF ServerInv, ReceiptInv
      <2> QED  BY <2>1, <2>3 DEF ServerInv, SentInv, LockInv, AnswerInv
<1>10. CASE UNCHANGED vars
      BY <1>10, StillKeeps DEF vars, client
<1> QED  BY <1>1, <1>2, <1>3, <1>4, <1>5, <1>6, <1>7, <1>8, <1>9, <1>10 DEF Next

LEMMA HeardStep == TypeOK /\ ServerInv /\ HeardInv /\ [Next]_vars => HeardInv'
<1> SUFFICES ASSUME TypeOK, ServerInv, HeardInv, [Next]_vars PROVE HeardInv'
    OBVIOUS
<1>1. ASSUME NEW c \in Copy, NEW a \in Attempt, NEW again, Send(c, a, again), heard' = heard
      PROVE  HeardInv'
      <2>1. sent[c] = None /\ heard[c] = None /\ a # None
            BY <1>1, CommandsAssumption DEF Send, ServerInv, SentInv, HeardInv
      <2> QED  BY <1>1, <2>1 DEF Send, HeardInv, TypeOK
<1>2. ASSUME UNCHANGED <<sent, heard>>, call' \in {call, None} PROVE HeardInv'
      BY <1>2 DEF HeardInv
<1>3. ASSUME NEW c \in Copy, Succeed(c) PROVE HeardInv'
      <2>1. /\ call = c /\ call' = None /\ sent' = sent
            /\ \A d \in Copy : d # c => heard'[d] = heard[d]
            BY <1>3 DEF Succeed, TypeOK
      <2> QED  BY <2>1, CommandsAssumption DEF HeardInv
<1>4. ASSUME NEW c \in Copy, Hear(c) PROVE HeardInv'
      BY <1>4, <1>1, <1>2, <1>3 DEF Hear, Resend, Fail, FailForGood
<1>5. ASSUME NEW c \in Copy, Serve(c) \/ Die(c) PROVE HeardInv'
      BY <1>5, <1>2 DEF Serve, Acquire, Replay, Run, Commit, Refuse, Die, client
<1>6. ASSUME NEW c \in Copy, NEW a \in Attempt, Press(c, a) PROVE HeardInv'
      BY <1>6, <1>1 DEF Press
<1>7. ASSUME NEW r \in Request, Edit(r) PROVE HeardInv'
      BY <1>7, <1>2 DEF Edit
<1>8. ASSUME NEW a \in Attempt, PressBusy(a) PROVE HeardInv'
      BY <1>8, <1>2 DEF PressBusy
<1>9. CASE Reset \/ Lose \/ Release \/ UNCHANGED vars
      BY <1>9, <1>2 DEF Reset, Lose, Release, vars, client
<1> QED  BY <1>4, <1>5, <1>6, <1>7, <1>8, <1>9 DEF Next

LEMMA InvInit == Init => TypeOK /\ ServerInv /\ HeardInv
<1>1. Init => ServerInv
      BY DEF Init, ServerInv, SentInv, LockInv, ReceiptInv, AnswerInv
<1>2. Init => HeardInv
      BY DEF Init, HeardInv
<1> QED  BY <1>1, <1>2, TypeInit

LEMMA InvHolds == Spec => [](TypeOK /\ ServerInv /\ HeardInv)
<1>1. TypeOK /\ ServerInv /\ HeardInv /\ [Next]_vars => (TypeOK /\ ServerInv /\ HeardInv)'
      BY TypeStep, ServerStep, HeardStep DEF ServerInv
<1> QED  BY <1>1, InvInit, PTL DEF Spec

\* Whatever the network does, each table and each answer holds a value of its type; above all, a
\* response that the form is given is one that is stored.
THEOREM TypeCorrect == Spec => []TypeOK
  BY InvHolds, PTL

------------------------------------------------------------------------------
\* Each step of the commands is one of Attempts or changes nothing there.
LEMMA Implements ==
    ASSUME TypeOK, ServerInv, HeardInv, [Next]_vars
    PROVE  [A!Next]_(A!vars)
<1> DEFINE effects == [k \in Key |-> {c \in done : sent[c].key = k}]
<1>1. ASSUME UNCHANGED <<sent, done, heard>> PROVE UNCHANGED A!vars
      BY <1>1 DEF A!vars
<1>2. ASSUME NEW c \in Copy, NEW a \in Attempt, NEW again, Send(c, a, again),
             UNCHANGED <<done, heard>>
      PROVE  A!Ask(c, a)
      <2>1. sent[c] = None /\ sent' = [sent EXCEPT ![c] = a]
            BY <1>2 DEF Send, ServerInv, SentInv
      <2>2. \A d \in done : sent'[d] = sent[d]
            BY <1>2, <2>1 DEF Send, ServerInv, ReceiptInv, TypeOK
      <2>3. effects' = effects
            BY <1>2, <2>2
      <2> QED  BY <1>2, <2>1, <2>3 DEF A!Ask
<1>3. ASSUME NEW c \in Copy, Succeed(c)
      PROVE  A!Next
      <2>1. /\ sent[c] \in Attempt /\ sent[c].key \in Key
            /\ heard[c] = None
            BY <1>3, CommandsAssumption DEF Succeed, HeardInv, TypeOK, Attempt
      <2>2. /\ receipt[sent[c].key] # None
            /\ receipt[sent[c].key].request = sent[c].request
            BY <1>3 DEF Succeed, ServerInv, AnswerInv
      <2>3. PICK a \in Attempt, d \in Copy : a = sent[c] /\ d = receipt[a.key].by /\ d \in done
            BY <2>1, <2>2 DEF ServerInv, ReceiptInv, TypeOK
      <2>4. sent[d] = a
            BY <2>1, <2>2, <2>3 DEF ServerInv, ReceiptInv, Attempt
      <2>5. d \in effects[a.key]
            BY <2>1, <2>3, <2>4
      <2>6. heard' = [heard EXCEPT ![c] = d] /\ sent' = sent /\ done' = done
            BY <1>3, <2>3 DEF Succeed, server
      <2>7. effects' = effects
            BY <2>6
      <2>8. A!Tell(c, a, d)
            BY <2>1, <2>3, <2>4, <2>5, <2>6, <2>7 DEF A!Tell
      <2> QED  BY <2>8 DEF A!Next, A!Attempt, Attempt
<1>4. ASSUME NEW c \in Copy, Commit(c)
      PROVE  A!Next
      <2>1. /\ sent[c] \in Attempt /\ sent[c].key \in Key
            /\ receipt[sent[c].key] = None
            BY <1>4 DEF Commit, ServerInv, SentInv, LockInv, TypeOK, Attempt
      <2>2. PICK a \in Attempt : a = sent[c]
            BY <2>1
      <2>3. \A d \in done : sent[d].key # a.key
            BY <2>1, <2>2 DEF ServerInv, ReceiptInv
      <2>4. done' = done \cup {c} /\ sent' = sent /\ heard' = heard
            BY <1>4 DEF Commit, client
      <2>5. effects[a.key] = {} /\ a.key \in Key
            BY <2>1, <2>2, <2>3
      <2>6. effects' = [effects EXCEPT ![a.key] = {c}]
            <3>1. \A k \in Key : effects'[k] = IF k = a.key THEN {c} ELSE effects[k]
                  BY <2>2, <2>3, <2>4
            <3> QED  BY <3>1
      <2>7. A!Perform(c, a)
            BY <2>2, <2>4, <2>5, <2>6 DEF A!Perform
      <2> QED  BY <2>7 DEF A!Next, A!Attempt, Attempt
<1>5. ASSUME NEW c \in Copy, Hear(c) PROVE [A!Next]_(A!vars)
      <2>1. CASE Succeed(c)
            BY <1>3, <2>1
      <2>2. ASSUME NEW d \in Copy, NEW a \in Attempt, Resend(c, d, a) PROVE A!Next
            <3>1. A!Ask(d, a)
                  BY <1>2, <2>2 DEF Resend, server
            <3> QED  BY <3>1 DEF A!Next, A!Attempt, Attempt
      <2>3. CASE Fail(c) \/ FailForGood(c)
            BY <1>1, <2>3 DEF Fail, FailForGood, server
      <2> QED  BY <1>5, <2>1, <2>2, <2>3 DEF Hear
<1>6. ASSUME NEW c \in Copy, Serve(c) \/ Die(c) PROVE [A!Next]_(A!vars)
      <2>1. CASE Commit(c)
            BY <1>4, <2>1
      <2>2. CASE Acquire(c) \/ Replay(c) \/ Run(c) \/ Die(c)
            BY <1>1, <2>2 DEF Acquire, Replay, Run, Die, client, server
      <2>3. ASSUME NEW code \in Refusal, Refuse(c, code) PROVE UNCHANGED A!vars
            BY <1>1, <2>3 DEF Refuse, client
      <2> QED  BY <1>6, <2>1, <2>2, <2>3 DEF Serve
<1>7. ASSUME NEW c \in Copy, NEW a \in Attempt, Press(c, a) PROVE A!Next
      <2>1. A!Ask(c, a)
            BY <1>2, <1>7 DEF Press, server
      <2> QED  BY <2>1 DEF A!Next, A!Attempt, Attempt
<1>8. ASSUME NEW r \in Request, Edit(r) PROVE UNCHANGED A!vars
      BY <1>1, <1>8 DEF Edit, server
<1>9. ASSUME NEW a \in Attempt, PressBusy(a) PROVE UNCHANGED A!vars
      BY <1>1, <1>9 DEF PressBusy, server
<1>10. CASE Reset \/ Lose \/ Release \/ UNCHANGED vars
      BY <1>1, <1>10 DEF Reset, Lose, Release, vars, client, server
<1> QED  BY <1>5, <1>6, <1>7, <1>8, <1>9, <1>10 DEF Next

\* run_command keeps what a key promises: a retry, a late copy and a copy that runs at the same
\* time never take effect again, and every response is that of the one effect.
THEOREM CommandsImplementAttempts == Spec => ImplementsAttempts
<1>1. Init => A!Init
      BY DEF Init, A!Init
<1>2. TypeOK /\ ServerInv /\ HeardInv /\ [Next]_vars => [A!Next]_(A!vars)
      BY Implements
<1> QED  BY <1>1, <1>2, InvHolds, PTL DEF Spec, ImplementsAttempts, A!Spec

\* Once an attempt took effect, no copy of it is refused.
THEOREM EffectIsNeverRefused == Spec => NeverRefusedAfterEffect
<1> DEFINE Told == \A c \in Copy : answer'[c] # answer[c] /\ answer'[c] \in Refusal
                                     => \A d \in done : sent[d].key # sent[c].key
<1>1. ASSUME TypeOK, ServerInv, Next PROVE Told
      <2> SUFFICES ASSUME NEW c \in Copy, answer'[c] # answer[c], answer'[c] \in Refusal,
                          NEW d \in done
                   PROVE  sent[d].key # sent[c].key
          OBVIOUS
      <2>1. PICK b \in Copy : Serve(b) \/ Die(b)
            BY <1>1 DEF Next, Edit, Reset, Press, PressBusy, Lose, Hear, Succeed, Resend, Fail,
                        FailForGood, Release
      <2>2. PICK code \in Refusal : Refuse(b, code) /\ b = c
            <3>1. ASSUME Acquire(b) \/ Run(b) PROVE FALSE
                  BY <3>1 DEF Acquire, Run
            <3>2. ASSUME NEW code \in Code, End(b, code) PROVE b = c /\ code \in Refusal
                  BY <1>1, <3>2 DEF End, TypeOK
            <3>3. ASSUME Replay(b) \/ Commit(b) \/ Die(b) PROVE FALSE
                  <4>1. PICK code \in {"ok", "reused", "none"} : End(b, code)
                        BY <3>3 DEF Replay, Commit, Die
                  <4> QED  BY <3>2, <4>1 DEF Code, Refusal
            <3>4. ASSUME NEW code \in Refusal, Refuse(b, code) PROVE b = c
                  BY <3>2, <3>4 DEF Refuse, Refusal, Code
            <3> QED  BY <2>1, <3>1, <3>3, <3>4 DEF Serve
      <2>3. receipt[sent[c].key] = None
            BY <1>1, <2>2 DEF Refuse, ServerInv, LockInv
      <2> QED  BY <1>1, <2>3 DEF ServerInv, ReceiptInv
<1>2. TypeOK /\ ServerInv /\ [Next]_vars => [Told]_vars
      BY <1>1
<1> QED  BY <1>2, InvHolds, PTL DEF Spec, NeverRefusedAfterEffect

------------------------------------------------------------------------------
(* One effect for each submission.  Of the keys of a submission all but the *)
(* last one were refused after a release, so each stored its response under *)
(* a release of its own.                                                    *)

\* A key stands for one request, at the form and in all its copies.
KeyInv ==
    /\ \A c \in Copy : sent[c] # None => started[sent[c].key] # None
    /\ ref # None => started[ref.key] # None
    /\ \A c, d \in Copy : sent[c] # None /\ sent[d] # None /\ sent[c].key = sent[d].key
                            => sent[c] = sent[d]
    /\ \A c \in Copy : ref # None /\ sent[c] # None /\ sent[c].key = ref.key => sent[c] = ref

\* Key k stored its response under a release that is over.
Outdated(k) == receipt[k] # None /\ receipt[k].release < release

RefusedInv ==
    \A c \in Copy : answer[c] = "reused" => sent[c].key \in Key /\ Outdated(sent[c].key)

\* While a submission is open, the attempt that is kept and the copy in flight are its own.
OpenInv ==
    open # None =>
       /\ ref # None /\ ref.request = form /\ started[ref.key] = open
       /\ call # None => sent[call].request = form /\ started[sent[call].key] = open

StartInv == \A k \in Key : started[k] # None => started[started[k]] # None

\* Key k is the last one of its submission.
Last(k) == \A j \in Key : j # k /\ started[j] = started[k] => Outdated(j)

LastInv ==
    /\ ref # None => Last(ref.key)
    /\ call # None => Last(sent[call].key)

\* Two keys of a submission never stored their responses under one release.
Apart(j, k) ==
    /\ receipt[j] = None => Outdated(k)
    /\ receipt[k] = None => Outdated(j)
    /\ receipt[j] # None /\ receipt[k] # None => receipt[j].release # receipt[k].release

ApartInv ==
    \A j, k \in Key : j # k /\ started[j] # None /\ started[j] = started[k] => Apart(j, k)

SubmissionInv == KeyInv /\ RefusedInv /\ OpenInv /\ StartInv /\ LastInv /\ ApartInv

LEMMA SubmissionInit == Init => SubmissionInv
  BY DEF Init, SubmissionInv, KeyInv, RefusedInv, OpenInv, StartInv, LastInv, ApartInv

\* Responses are stored once, under the release of that time, and releases only go up.
Stores ==
    \A k \in Key :
       /\ receipt[k] # None => receipt'[k] = receipt[k]
       /\ receipt[k] = None /\ receipt'[k] # None =>
             receipt'[k].release = release /\ release' = release

LEMMA OutdatedStays ==
    ASSUME TypeOK, Stores, release' >= release, release' \in Nat, NEW k \in Key, Outdated(k)
    PROVE  Outdated(k)'
  BY DEF Stores, Outdated, TypeOK, Receipt

LEMMA StoresKeep ==
    ASSUME TypeOK, ServerInv, SubmissionInv, Stores, release' >= release, release' \in Nat,
           UNCHANGED client,
           \A c \in Copy : answer'[c] = "reused" => sent[c].key \in Key /\ Outdated(sent[c].key)
    PROVE  SubmissionInv'
<1> USE DEF client
<1>1. KeyInv' /\ OpenInv' /\ StartInv'
      BY DEF SubmissionInv, KeyInv, OpenInv, StartInv
<1>2. \A c \in Copy : sent[c] # None => sent[c].key \in Key
      BY DEF TypeOK, Attempt
<1>3. \A k \in Key : Outdated(k) => Outdated(k)'
      BY OutdatedStays
<1>4. RefusedInv'
      <2>1. ASSUME NEW c \in Copy, answer'[c] = "reused" PROVE sent[c].key \in Key /\ Outdated(sent[c].key)'
            BY <2>1, <1>3 DEF Outdated
      <2> QED  BY <2>1 DEF RefusedInv
<1>5. LastInv'
      BY <1>3 DEF SubmissionInv, LastInv, Last
<1>6. ASSUME NEW j \in Key, NEW k \in Key, Apart(j, k)
      PROVE  Apart(j, k)'
      <2>1. receipt'[j] = None => receipt[j] = None
            BY DEF Stores
      <2>2. receipt'[k] = None => receipt[k] = None
            BY DEF Stores
      <2>3. receipt'[j] # None /\ receipt'[k] # None => receipt'[j].release # receipt'[k].release
            BY <1>6 DEF Stores, Apart, Outdated, TypeOK, Receipt
      <2> QED  BY <1>3, <1>6, <2>1, <2>2, <2>3 DEF Apart
<1>7. ApartInv'
      BY <1>6 DEF SubmissionInv, ApartInv
<1> QED  BY <1>1, <1>4, <1>5, <1>7 DEF SubmissionInv

LEMMA ReleaseKeeps ==
    ASSUME TypeOK, ServerInv, SubmissionInv, Release
    PROVE  SubmissionInv'
<1>1. Stores /\ UNCHANGED client
      BY DEF Release, Stores, server
<1>2. release' >= release /\ release' \in Nat
      BY DEF Release, TypeOK
<1>3. \A d \in Copy : answer'[d] = "reused" => sent[d].key \in Key /\ Outdated(sent[d].key)
      BY DEF Release, SubmissionInv, RefusedInv
<1> QED  BY <1>1, <1>2, <1>3, StoresKeep

LEMMA ServerKeepsSubmission ==
    ASSUME TypeOK, ServerInv, SubmissionInv, NEW c \in Copy, Serve(c) \/ Die(c)
    PROVE  SubmissionInv'
<1>1. UNCHANGED client
      BY DEF Serve, Acquire, Replay, Run, Commit, Refuse, Die
<1>2. release' = release /\ release \in Nat
      BY DEF Serve, Acquire, Replay, Run, Commit, Refuse, Die, TypeOK
<1>3. CASE Commit(c)
      <2>1. /\ sent[c].key \in Key /\ receipt[sent[c].key] = None
            BY <1>3 DEF Commit, ServerInv, SentInv, LockInv, TypeOK, Attempt
      <2>2. Stores
            BY <1>2, <1>3, <2>1 DEF Commit, Stores, TypeOK
      <2>3. \A d \in Copy : answer'[d] = "reused" => answer[d] = "reused"
            BY <1>3 DEF Commit, End, TypeOK
      <2> QED  BY <1>1, <1>2, <2>2, <2>3, StoresKeep DEF SubmissionInv, RefusedInv
<1>4. CASE Replay(c)
      <2>1. Stores
            BY <1>4 DEF Replay, Stores
      <2>2. sent[c] \in Attempt /\ receipt[sent[c].key] # None /\ sent[c].key \in Key
            BY <1>4 DEF Replay, ServerInv, SentInv, TypeOK, Attempt
      <2> DEFINE r == receipt[sent[c].key]
      <2>3. r \in Receipt /\ r.by \in done /\ r.release <= release
            /\ sent[r.by] = [key |-> sent[c].key, request |-> r.request]
            BY <2>2 DEF ServerInv, ReceiptInv, TypeOK
      <2>4. r.request = sent[c].request
            <3>1. r.by \in Copy /\ sent[r.by].key = sent[c].key
                  BY <2>3 DEF TypeOK
            <3>2. sent[r.by] # None /\ sent[c] # None
                  BY <2>2, <2>3, <3>1, CommandsAssumption DEF ServerInv, ReceiptInv, SentInv
            <3>3. sent[r.by] = sent[c]
                  BY <3>1, <3>2 DEF SubmissionInv, KeyInv
            <3> QED  BY <2>3, <3>3
      <2>5. ~SameHash(c) => Outdated(sent[c].key)
            BY <1>2, <2>2, <2>3, <2>4 DEF SameHash, Outdated, Receipt
      <2>6. \A d \in Copy : answer'[d] = "reused" => answer[d] = "reused" \/ (d = c /\ ~SameHash(c))
            BY <1>4 DEF Replay, End, TypeOK
      <2> QED  BY <1>1, <1>2, <2>1, <2>2, <2>5, <2>6, StoresKeep DEF SubmissionInv, RefusedInv
<1>5. CASE Acquire(c) \/ Run(c) \/ Die(c) \/ \E code \in Refusal : Refuse(c, code)
      <2>1. Stores
            BY <1>5 DEF Acquire, Run, Die, Refuse, Stores, server
      <2>2. \A d \in Copy : answer'[d] = "reused" => answer[d] = "reused"
            BY <1>5 DEF Acquire, Run, Die, Refuse, End, Refusal, TypeOK
      <2> QED  BY <1>1, <1>2, <2>1, <2>2, StoresKeep DEF SubmissionInv, RefusedInv
<1> QED  BY <1>3, <1>4, <1>5 DEF Serve

\* The form drops what it keeps or waits for: nothing is added.
LEMMA DropKeeps ==
    ASSUME SubmissionInv, UNCHANGED <<started, sent, answer, receipt, release>>,
           ref' \in {ref, None}, call' \in {call, None},
           open' = None \/ (open' = open /\ ref' = ref /\ form' = form)
    PROVE  SubmissionInv'
<1>1. KeyInv' /\ StartInv'
      BY DEF SubmissionInv, KeyInv, StartInv
<1>2. RefusedInv' /\ ApartInv'
      BY DEF SubmissionInv, RefusedInv, ApartInv, Apart, Outdated
<1>3. OpenInv'
      BY DEF SubmissionInv, OpenInv
<1>4. LastInv'
      BY DEF SubmissionInv, LastInv, Last, Outdated
<1> QED  BY <1>1, <1>2, <1>3, <1>4 DEF SubmissionInv

\* A new key begins a submission: an open one would fit the form and be kept.
LEMMA NewKeyStarts ==
    ASSUME TypeOK, SubmissionInv, NEW a \in Attempt, AttemptKey(form, a)
    PROVE  \/ a = ref /\ started' = started /\ ref # None
           \/ /\ open = None /\ started[a.key] = None
              /\ started' = [started EXCEPT ![a.key] = a.key]
<1>1. open # None => Fits(form)
      BY DEF SubmissionInv, OpenInv, Fits
<1>2. CASE Fits(form)
      BY <1>2 DEF AttemptKey, Fits
<1>3. CASE ~Fits(form)
      BY <1>1, <1>3 DEF AttemptKey
<1> QED  BY <1>2, <1>3

LEMMA FreshKey ==
    ASSUME TypeOK, ServerInv, SubmissionInv, NEW k \in Key, started[k] = None
    PROVE  /\ receipt[k] = None
           /\ \A c \in Copy : sent[c] # None => sent[c].key # k
           /\ \A j \in Key : started[j] # k
           /\ ref # None => ref.key # k
<1>1. ASSUME receipt[k] # None PROVE FALSE
      <2>1. PICK c \in done : c = receipt[k].by /\ sent[c] = [key |-> k, request |-> receipt[k].request]
            BY <1>1 DEF ServerInv, ReceiptInv
      <2>2. c \in Copy /\ sent[c].key = k
            BY <2>1 DEF TypeOK
      <2>3. sent[c] # None
            BY <2>2 DEF ServerInv, ReceiptInv, SentInv
      <2> QED  BY <2>2, <2>3 DEF SubmissionInv, KeyInv
<1>2. \A c \in Copy : sent[c] # None => sent[c].key # k
      BY DEF SubmissionInv, KeyInv
<1>3. \A j \in Key : started[j] # k
      BY CommandsAssumption DEF SubmissionInv, StartInv
<1>4. ref # None => ref.key # k
      BY DEF SubmissionInv, KeyInv
<1> QED  BY <1>1, <1>2, <1>3, <1>4

\* A key k taken for a submission o, of which it becomes the last one.
LEMMA FreshKeeps ==
    ASSUME TypeOK, SubmissionInv, NEW k \in Key, NEW o \in Key, started[k] = None,
           receipt[k] = None,
           started' = [started EXCEPT ![k] = o],
           o = k \/ started[o] # None,
           \A j \in Key : j # k /\ started[j] = o => Outdated(j),
           UNCHANGED <<receipt, release>>
    PROVE  /\ StartInv' /\ ApartInv' /\ Last(k)'
           /\ \A j \in Key : started[j] # None /\ started[j] # o /\ Last(j) => Last(j)'
<1>1. /\ started'[k] = o /\ o # None
      /\ \A j \in Key : j # k => started'[j] = started[j]
      BY CommandsAssumption DEF TypeOK
<1>2. \A j \in Key : started[j] # None => started'[j] = started[j] /\ j # k
      BY <1>1
<1>3. \A j \in Key : Outdated(j)' = Outdated(j)
      BY DEF Outdated
<1>4. StartInv'
      BY <1>1, <1>2 DEF SubmissionInv, StartInv, TypeOK
<1>5. Last(k)'
      BY <1>1, <1>3 DEF Last
<1>6. ApartInv'
      <2>1. ASSUME NEW j \in Key, NEW l \in Key, j # l, started'[j] # None, started'[j] = started'[l]
            PROVE  Apart(j, l)
            <3>1. CASE j # k /\ l # k
                  BY <2>1, <3>1, <1>1 DEF SubmissionInv, ApartInv
            <3>2. CASE l = k
                  BY <2>1, <3>2, <1>1 DEF Apart, Outdated
            <3>3. CASE j = k
                  BY <2>1, <3>3, <1>1 DEF Apart, Outdated
            <3> QED  BY <3>1, <3>2, <3>3
      <2> QED  BY <2>1 DEF ApartInv, Apart, Outdated
<1>7. \A j \in Key : started[j] # None /\ started[j] # o /\ Last(j) => Last(j)'
      BY <1>1, <1>2, <1>3 DEF Last
<1> QED  BY <1>4, <1>5, <1>6, <1>7

LEMMA PressKeeps ==
    ASSUME TypeOK, ServerInv, SubmissionInv, NEW c \in Copy, NEW a \in Attempt, Press(c, a)
    PROVE  SubmissionInv'
<1> USE DEF Press
<1>1. /\ ref' = a /\ a # None /\ a.key \in Key /\ a.request = form /\ form' = form
      /\ call' = c /\ c # None /\ open' = started'[a.key]
      /\ UNCHANGED <<answer, receipt, release>>
      BY CommandsAssumption DEF AttemptKey, Send, server, Attempt
<1>2. /\ sent[c] = None /\ sent'[c] = a
      /\ \A d \in Copy : d # c => sent'[d] = sent[d]
      BY DEF Send, ServerInv, SentInv, TypeOK
<1>3. /\ StartInv' /\ ApartInv' /\ Last(a.key)'
      /\ started'[a.key] # None
      /\ \A k \in Key : started[k] # None => started'[k] = started[k]
      /\ \A d \in Copy : sent[d] # None /\ sent[d].key = a.key => sent[d] = a
      <2>1. CASE a = ref /\ started' = started /\ ref # None
            BY <1>1, <2>1 DEF SubmissionInv, StartInv, ApartInv, Apart, LastInv, Last, Outdated, KeyInv
      <2>2. CASE /\ started[a.key] = None
                 /\ started' = [started EXCEPT ![a.key] = a.key]
            <3>1. /\ receipt[a.key] = None
                  /\ \A d \in Copy : sent[d] # None => sent[d].key # a.key
                  /\ \A j \in Key : started[j] # a.key
                  BY <1>1, <2>2, FreshKey
            <3>2. /\ StartInv' /\ ApartInv' /\ Last(a.key)'
                  BY <1>1, <2>2, <3>1, FreshKeeps
            <3>3. /\ started'[a.key] = a.key /\ a.key # None
                  /\ \A k \in Key : started[k] # None => started'[k] = started[k]
                  BY <1>1, <2>2, CommandsAssumption DEF TypeOK
            <3> QED  BY <3>1, <3>2, <3>3
      <2> QED  BY <2>1, <2>2, NewKeyStarts
<1>4. KeyInv'
      <2>1. \A d \in Copy : sent[d] # None => sent[d].key \in Key
            BY DEF TypeOK, Attempt
      <2>2. \A d \in Copy : sent'[d] # None => started'[sent'[d].key] # None
            BY <1>2, <1>3, <2>1 DEF SubmissionInv, KeyInv
      <2>3. \A d, e \in Copy : sent'[d] # None /\ sent'[e] # None /\ sent'[d].key = sent'[e].key
                                 => sent'[d] = sent'[e]
            BY <1>2, <1>3 DEF SubmissionInv, KeyInv
      <2> QED  BY <1>1, <1>2, <1>3, <2>2, <2>3 DEF KeyInv
<1>5. RefusedInv'
      <2>1. \A d \in Copy : answer[d] = "reused" => d # c
            BY DEF Send, ServerInv, AnswerInv
      <2> QED  BY <1>1, <1>2, <2>1 DEF SubmissionInv, RefusedInv, Outdated
<1>6. OpenInv'
      BY <1>1, <1>2 DEF OpenInv
<1>7. LastInv'
      BY <1>1, <1>2, <1>3 DEF LastInv
<1> QED  BY <1>3, <1>4, <1>5, <1>6, <1>7 DEF SubmissionInv

LEMMA PressBusyKeeps ==
    ASSUME TypeOK, ServerInv, HeardInv, SubmissionInv, NEW a \in Attempt, PressBusy(a)
    PROVE  SubmissionInv'
<1> USE DEF PressBusy
<1>1. /\ ref' = a /\ a # None /\ a.key \in Key
      /\ UNCHANGED <<sent, call, open, form, answer, receipt, release>>
      BY CommandsAssumption DEF AttemptKey, server, Attempt
<1>2. /\ open = None /\ started[a.key] = None
      /\ started' = [started EXCEPT ![a.key] = a.key]
      BY NewKeyStarts DEF AttemptKey, Fits
<1>3. /\ receipt[a.key] = None
      /\ \A d \in Copy : sent[d] # None => sent[d].key # a.key
      /\ \A j \in Key : started[j] # a.key
      BY <1>1, <1>2, FreshKey
<1>4. /\ StartInv' /\ ApartInv' /\ Last(a.key)'
      /\ \A j \in Key : started[j] # None /\ Last(j) => Last(j)'
      BY <1>1, <1>2, <1>3, FreshKeeps
<1>5. /\ started'[a.key] = a.key /\ a.key # None
      /\ \A k \in Key : started[k] # None => started'[k] = started[k]
      BY <1>1, <1>2, CommandsAssumption DEF TypeOK
<1>6. \A d \in Copy : sent[d] # None => sent[d].key \in Key /\ started[sent[d].key] # None
      BY DEF TypeOK, Attempt, SubmissionInv, KeyInv
<1>7. KeyInv'
      BY <1>1, <1>3, <1>5, <1>6 DEF SubmissionInv, KeyInv
<1>8. RefusedInv' /\ OpenInv'
      BY <1>1, <1>2 DEF SubmissionInv, RefusedInv, OpenInv, Outdated
<1>9. LastInv'
      <2>1. call # None => call \in Copy /\ sent[call] # None
            BY DEF TypeOK, HeardInv
      <2> QED  BY <1>1, <1>4, <1>6, <2>1 DEF SubmissionInv, LastInv
<1> QED  BY <1>4, <1>7, <1>8, <1>9 DEF SubmissionInv

LEMMA ResendKeeps ==
    ASSUME TypeOK, ServerInv, HeardInv, SubmissionInv,
           NEW c \in Copy, NEW d \in Copy, NEW a \in Attempt, Resend(c, d, a)
    PROVE  SubmissionInv'
<1> DEFINE k == sent[c].key
           o == started[k]
<1> USE DEF Resend
<1>1. /\ ref' = a /\ a # None /\ a.key \in Key /\ a.request = sent[c].request
      /\ call = c /\ call' = d /\ d # None /\ form' = form /\ open' = open
      /\ UNCHANGED <<answer, receipt, release>>
      BY CommandsAssumption DEF Send, server, Attempt
<1>2. /\ sent[d] = None /\ sent'[d] = a
      /\ \A e \in Copy : e # d => sent'[e] = sent[e]
      BY DEF Send, ServerInv, SentInv, TypeOK
<1>3. /\ k \in Key /\ Outdated(k) /\ sent[c] # None
      /\ o # None /\ o \in Key /\ started[o] # None
      <2>1. k \in Key /\ Outdated(k)
            BY DEF SubmissionInv, RefusedInv
      <2>2. sent[c] # None
            BY <1>1, CommandsAssumption DEF HeardInv
      <2>3. o # None /\ o \in Key
            BY <2>1, <2>2 DEF SubmissionInv, KeyInv, TypeOK
      <2> QED  BY <2>1, <2>2, <2>3 DEF SubmissionInv, StartInv
<1>4. /\ started[a.key] = None
      /\ started' = [started EXCEPT ![a.key] = o]
      OBVIOUS
<1>5. /\ receipt[a.key] = None
      /\ \A e \in Copy : sent[e] # None => sent[e].key # a.key
      BY <1>1, <1>4, FreshKey
<1>6. \A j \in Key : started[j] = o => Outdated(j)
      <2>1. Last(k)
            BY <1>1, <1>3, CommandsAssumption DEF SubmissionInv, LastInv
      <2> QED  BY <1>3, <2>1 DEF Last
<1>7. /\ StartInv' /\ ApartInv' /\ Last(a.key)'
      <2>1. /\ o = a.key \/ started[o] # None
            /\ \A j \in Key : j # a.key /\ started[j] = o => Outdated(j)
            BY <1>3, <1>6
      <2> HIDE DEF k, o, Resend
      <2>2. a.key \in Key /\ UNCHANGED <<receipt, release>>
            BY <1>1
      <2>3. o \in Key /\ receipt[a.key] = None
            BY <1>3, <1>5
      <2> QED  BY <1>4, <2>1, <2>2, <2>3, FreshKeeps
<1>8. /\ started'[a.key] = o
      /\ \A j \in Key : started[j] # None => started'[j] = started[j]
      BY <1>1, <1>4 DEF TypeOK
<1>9. KeyInv'
      <2>1. \A e \in Copy : sent[e] # None => sent[e].key \in Key
            BY DEF TypeOK, Attempt
      <2>2. \A e \in Copy : sent'[e] # None => started'[sent'[e].key] # None
            BY <1>2, <1>3, <1>8, <2>1 DEF SubmissionInv, KeyInv
      <2>3. \A e, f \in Copy : sent'[e] # None /\ sent'[f] # None /\ sent'[e].key = sent'[f].key
                                 => sent'[e] = sent'[f]
            BY <1>2, <1>5 DEF SubmissionInv, KeyInv
      <2>4. \A e \in Copy : sent'[e] # None /\ sent'[e].key = a.key => sent'[e] = a
            BY <1>2, <1>5
      <2> QED  BY <1>1, <1>3, <1>8, <2>2, <2>3, <2>4 DEF KeyInv
<1>10. RefusedInv'
      <2>1. \A e \in Copy : answer[e] = "reused" => e # d
            BY DEF Send, ServerInv, AnswerInv
      <2> QED  BY <1>1, <1>2, <2>1 DEF SubmissionInv, RefusedInv, Outdated
<1>11. OpenInv'
      <2>1. open # None => sent[c].request = form /\ o = open
            BY <1>1, CommandsAssumption DEF SubmissionInv, OpenInv
      <2> QED  BY <1>1, <1>2, <1>8, <2>1 DEF OpenInv
<1>12. LastInv'
      BY <1>1, <1>2, <1>7 DEF LastInv
<1> QED  BY <1>7, <1>9, <1>10, <1>11, <1>12 DEF SubmissionInv

LEMMA SubmissionStep ==
    TypeOK /\ ServerInv /\ HeardInv /\ SubmissionInv /\ [Next]_vars => SubmissionInv'
<1> SUFFICES ASSUME TypeOK, ServerInv, HeardInv, SubmissionInv, [Next]_vars
             PROVE  SubmissionInv'
    OBVIOUS
<1>1. ASSUME NEW r \in Request, Edit(r) PROVE SubmissionInv'
      BY <1>1, DropKeeps DEF Edit, server
<1>2. CASE Reset
      BY <1>2, DropKeeps DEF Reset, server
<1>3. ASSUME NEW c \in Copy, NEW a \in Attempt, Press(c, a) PROVE SubmissionInv'
      BY <1>3, PressKeeps
<1>4. ASSUME NEW a \in Attempt, PressBusy(a) PROVE SubmissionInv'
      BY <1>4, PressBusyKeeps
<1>5. CASE Lose
      BY <1>5, DropKeeps DEF Lose, server
<1>6. ASSUME NEW c \in Copy, Hear(c) PROVE SubmissionInv'
      <2>1. CASE Succeed(c)
            BY <2>1, DropKeeps DEF Succeed, server
      <2>2. ASSUME NEW d \in Copy, NEW a \in Attempt, Resend(c, d, a) PROVE SubmissionInv'
            BY <2>2, ResendKeeps
      <2>3. CASE Fail(c)
            BY <2>3, DropKeeps DEF Fail, server
      <2>4. CASE FailForGood(c)
            BY <2>4, DropKeeps DEF FailForGood, server
      <2> QED  BY <1>6, <2>1, <2>2, <2>3, <2>4 DEF Hear
<1>7. ASSUME NEW c \in Copy, Serve(c) \/ Die(c) PROVE SubmissionInv'
      BY <1>7, ServerKeepsSubmission
<1>8. CASE Release
      BY <1>8, ReleaseKeeps
<1>9. CASE UNCHANGED vars
      BY <1>9, DropKeeps DEF vars, client, server
<1> QED  BY <1>1, <1>2, <1>3, <1>4, <1>5, <1>6, <1>7, <1>8, <1>9 DEF Next

LEMMA SubmissionHolds == Spec => [](TypeOK /\ ServerInv /\ SubmissionInv)
<1>1. TypeOK /\ ServerInv /\ HeardInv /\ SubmissionInv /\ [Next]_vars
        => (TypeOK /\ ServerInv /\ HeardInv /\ SubmissionInv)'
      BY TypeStep, ServerStep, HeardStep, SubmissionStep DEF ServerInv
<1>2. Init => TypeOK /\ ServerInv /\ HeardInv /\ SubmissionInv
      BY InvInit, SubmissionInit
<1> QED  BY <1>1, <1>2, PTL DEF Spec

\* Effects of a submission have keys of their own, hence responses of releases of their own.
LEMMA CountEffects == TypeOK /\ ServerInv /\ SubmissionInv => OncePerSubmission
<1> SUFFICES ASSUME TypeOK, ServerInv, SubmissionInv, NEW k \in Key
             PROVE  Cardinality({c \in done : started[sent[c].key] = k}) <= 1 + release
    BY DEF OncePerSubmission
<1> DEFINE D == {c \in done : started[sent[c].key] = k}
           f == [c \in D |-> receipt[sent[c].key].release]
<1>1. \A c \in D : /\ sent[c].key \in Key
                   /\ receipt[sent[c].key] # None
                   /\ receipt[sent[c].key].by = c
      BY DEF ServerInv, ReceiptInv, SentInv, TypeOK, Attempt
<1>2. f \in [D -> 0 .. release]
      <2>1. \A c \in D : receipt[sent[c].key] \in Receipt
            BY <1>1 DEF TypeOK
      <2>2. \A c \in D : receipt[sent[c].key].release <= release
            BY <1>1 DEF ServerInv, ReceiptInv
      <2>3. \A c \in D : receipt[sent[c].key].release \in 0 .. release
            BY <2>1, <2>2, CommandsAssumption DEF Receipt, TypeOK
      <2> QED  BY <2>3
<1>3. \A c, d \in D : f[c] = f[d] => c = d
      <2> SUFFICES ASSUME NEW c \in D, NEW d \in D, c # d PROVE f[c] # f[d]
          OBVIOUS
      <2>1. sent[c].key # sent[d].key
            BY <1>1
      <2>2. Apart(sent[c].key, sent[d].key)
            BY <1>1, <2>1, CommandsAssumption DEF SubmissionInv, ApartInv
      <2> QED  BY <1>1, <2>2 DEF Apart
<1>4. f \in Injection(D, 0 .. release)
      BY <1>2, <1>3, Fun_IsInj
<1>5. release \in Nat
      BY DEF TypeOK
<1>6. IsFiniteSet(0 .. release) /\ Cardinality(0 .. release) = 1 + release
      BY <1>5, FS_Interval
<1> HIDE DEF D, f
<1>7. Cardinality(D) <= 1 + release
      BY <1>4, <1>6, FS_Injection
<1> QED  BY <1>7 DEF D

\* However often a person presses again because no answer came, what was asked for takes effect
\* once, plus at most once for each release that changed the hashes.
THEOREM OneEffectPerSubmission == Spec => []OncePerSubmission
<1>1. TypeOK /\ ServerInv /\ SubmissionInv => OncePerSubmission
      BY CountEffects
<1> QED  BY <1>1, SubmissionHolds, PTL

\* sendAttempt goes out a second time only where a release came between.
THEOREM ReusedNeedsRelease == Spec => []ReusedByReleaseOnly
<1>1. TypeOK /\ ServerInv /\ SubmissionInv => ReusedByReleaseOnly
      <2> SUFFICES ASSUME TypeOK, SubmissionInv, NEW c \in Copy, answer[c] = "reused"
                   PROVE  release > 0
          BY DEF ReusedByReleaseOnly
      <2>1. sent[c].key \in Key /\ receipt[sent[c].key] # None
            /\ receipt[sent[c].key].release < release
            BY DEF SubmissionInv, RefusedInv, Outdated
      <2>2. receipt[sent[c].key].release \in Nat
            BY <2>1 DEF TypeOK, Receipt
      <2> QED  BY <2>1, <2>2 DEF TypeOK
<1> QED  BY <1>1, SubmissionHolds, PTL
------------------------------------------------------------------------------
\* A key is locked only by a copy of it that is being served.
NoLockLeft ==
    \A k \in Key : lock[k] # None =>
        at[lock[k]] \in {"locked", "running"} /\ sent[lock[k]].key = k

\* A copy that ends gives up the lock of its key, if it has it.
LEMMA EndUnlocks ==
    ASSUME TypeOK, TypeOK', LockInv, NoLockLeft, NEW c \in Copy, at[c] # "unsent", sent[c].key \in Key,
           at' = [at EXCEPT ![c] = "ended"], UNCHANGED sent,
           \/ Unlock(c)
           \/ lock[sent[c].key] # c /\ UNCHANGED lock
    PROVE  NoLockLeft'
<1> SUFFICES ASSUME NEW k \in Key, lock'[k] # None
             PROVE  at'[lock'[k]] \in {"locked", "running"} /\ sent'[lock'[k]].key = k
    BY DEF NoLockLeft
<1>1. lock'[k] = lock[k] /\ lock[k] \in Copy
      BY DEF Unlock, TypeOK
<1>2. at[lock[k]] \in {"locked", "running"} /\ sent[lock[k]].key = k
      BY <1>1 DEF NoLockLeft
<1>3. lock[k] # c
  <2> SUFFICES ASSUME lock[k] = c PROVE FALSE
      OBVIOUS
  <2>1. sent[c].key = k
        BY <1>2
  <2> QED  BY <1>1, <2>1 DEF Unlock, TypeOK
<1> QED  BY <1>1, <1>2, <1>3 DEF TypeOK

LEMMA LockStep == TypeOK /\ TypeOK' /\ SentInv /\ LockInv /\ NoLockLeft /\ [Next]_vars => NoLockLeft'
<1> SUFFICES ASSUME TypeOK, TypeOK', SentInv, LockInv, NoLockLeft, [Next]_vars PROVE NoLockLeft'
    OBVIOUS
<1> USE CommandsAssumption
<1>1. ASSUME UNCHANGED <<lock, at, sent>> PROVE NoLockLeft'
      BY <1>1 DEF NoLockLeft
<1>2. ASSUME NEW d \in Copy, NEW a, NEW again, Send(d, a, again), UNCHANGED lock PROVE NoLockLeft'
  <2>1. \A c \in Copy : at[c] \in {"locked", "running"} => at'[c] = at[c] /\ sent'[c] = sent[c]
        BY <1>2 DEF Send, TypeOK
  <2> QED  BY <1>2, <2>1 DEF NoLockLeft, TypeOK
<1>3. ASSUME NEW c \in Copy, at[c] # "unsent" PROVE sent[c].key \in Key
      BY <1>3 DEF SentInv, TypeOK, Attempt
<1>4. ASSUME NEW c \in Copy, Acquire(c) PROVE NoLockLeft'
  <2>1. /\ sent[c].key \in Key /\ lock[sent[c].key] = None /\ UNCHANGED sent
        /\ lock' = [lock EXCEPT ![sent[c].key] = c]
        /\ at[c] = "sent" /\ at' = [at EXCEPT ![c] = "locked"]
        BY <1>3, <1>4 DEF Acquire, client
  <2> QED  BY <2>1 DEF NoLockLeft, TypeOK
<1>5. ASSUME NEW c \in Copy, Replay(c) PROVE NoLockLeft'
      BY <1>3, <1>5, EndUnlocks DEF Replay, End, client
<1>6. ASSUME NEW c \in Copy, Run(c) PROVE NoLockLeft'
      BY <1>6 DEF Run, client, server, NoLockLeft, TypeOK
<1>7. ASSUME NEW c \in Copy, Commit(c) PROVE NoLockLeft'
      BY <1>3, <1>7, EndUnlocks DEF Commit, End, client
<1>8. ASSUME NEW c \in Copy, NEW code \in Refusal, Refuse(c, code) PROVE NoLockLeft'
      BY <1>3, <1>8, EndUnlocks DEF Refuse, End, client
<1>9. ASSUME NEW c \in Copy, Die(c) PROVE NoLockLeft'
  <2>1. /\ at[c] # "unsent" /\ at' = [at EXCEPT ![c] = "ended"] /\ UNCHANGED sent
        /\ IF lock[sent[c].key] = c THEN Unlock(c) ELSE UNCHANGED lock
        BY <1>9 DEF Die, End, Holds, client
  <2> QED  BY <1>3, <2>1, EndUnlocks
<1>10. ASSUME NEW c \in Copy, Hear(c) PROVE NoLockLeft'
  <2>1. ASSUME NEW d \in Copy, NEW a \in Attempt, Resend(c, d, a) PROVE NoLockLeft'
        BY <1>2, <2>1 DEF Resend, server
  <2>2. CASE Succeed(c) \/ Fail(c) \/ FailForGood(c)
        BY <1>1, <2>2 DEF Succeed, Fail, FailForGood, server
  <2> QED  BY <1>10, <2>1, <2>2 DEF Hear
<1>11. ASSUME NEW c \in Copy, NEW a \in Attempt, Press(c, a) PROVE NoLockLeft'
       BY <1>2, <1>11 DEF Press, server
<1>12. CASE \/ \E r \in Request : Edit(r)
            \/ Reset \/ Lose \/ Release \/ UNCHANGED vars
            \/ \E a \in Attempt : PressBusy(a)
       BY <1>1, <1>12 DEF Edit, Reset, Lose, Release, PressBusy, vars, client, server
<1> QED  BY <1>4, <1>5, <1>6, <1>7, <1>8, <1>9, <1>10, <1>11, <1>12 DEF Next, Serve

\* No death, refusal, replay or commit leaves a key locked: who waits for a key waits for a copy
\* that the server is still serving.
THEOREM NoLockIsLeft == Spec => []NoLockLeft
<1>1. Init => NoLockLeft
      BY DEF Init, NoLockLeft
<1>2. TypeOK /\ TypeOK' /\ ServerInv /\ NoLockLeft /\ [Next]_vars => NoLockLeft'
      BY LockStep DEF ServerInv
<1> QED  BY <1>1, <1>2, InvHolds, PTL DEF Spec
=============================================================================
