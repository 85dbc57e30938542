-------------------------- MODULE GoogleRepliesProofs --------------------------
(***************************************************************************)
(* Proofs about GoogleReplies, for any number of replies, overlapping runs *)
(* and generations.                                                        *)
(***************************************************************************)
EXTENDS GoogleReplies, TLAPS

Writing(j, o) == job[j].of = o /\ job[j].at \in {"armed", "sent"}

\* No write of o counts or is about to.
Untried(o) == ~MayCount(o) /\ \A j \in Job : ~Writing(j, o)

\* The connection is the one o was queued for.
Stands(o) == conn = "active" /\ made[o].gen = gen

ReadsQueued(j) == job[j].at = "reading" /\ job[j].saw = "queued"
RevokedQueued(j) == job[j].at = "revoked" /\ job[j].saw = "queued"

\* Who reads or writes at Google holds the lock.
LockInv == \A j \in Job : job[j].at \in {"reading", "sent"} => lock = j

\* Behind the lock the connection stays what it was.
StandsInv == \A j \in Job : job[j].at = "reading" => Stands(job[j].of)

QueuedInv == \A o \in Operation : state[o] \in {"none", "queued"} => Untried(o)

\* A queued row that was read behind the lock may have been canceled since, but not tried.
ReadingInv == \A j \in Job : ReadsQueued(j) => Untried(job[j].of)

\* The same holds for a job whose token was refused, which has lost the lock: nobody can
\* read the row before the connection is renewed, and then it is of another generation.
RevokedInv ==
    \A j \in Job : RevokedQueued(j) => Untried(job[j].of) /\ ~Stands(job[j].of)

OneWriter ==
    \A j, k \in Job : \A o \in Operation : Writing(j, o) /\ Writing(k, o) => j = k

ArmedInv == \A j \in Job : job[j].at = "armed" => ~MayCount(job[j].of)

KnownInv ==
    /\ \A j \in Job : job[j].at # "idle" => state[job[j].of] # "none"
    /\ \A o \in Operation : wire[o] # "none" => state[o] # "none"

\* A connection that is cut or made anew is of a later generation than every operation.
GenInv ==
    \A o \in Operation :
        /\ made[o].gen <= gen
        /\ state[o] # "none" /\ made[o].gen = gen => conn \in {"active", "reconnect_required"}

ShownInv ==
    \A o \in Operation :
        /\ wire[o] = "landed" => o \in shown
        /\ state[o] # "none" /\ reply.text = made[o].wish => o \in shown

\* What the row of o may say when a job has ended its work on it.
Fine(o) ==
    /\ state[o] # "none"
    /\ state[o] = "queued" => Untried(o)
    /\ state[o] = "confirmed" => o \in shown
    /\ state[o] = "failed" => ~MayCount(o)

Inv ==
    /\ TypeOK
    /\ LockInv /\ StandsInv /\ QueuedInv /\ ReadingInv /\ RevokedInv /\ OneWriter /\ ArmedInv
    /\ KnownInv /\ GenInv /\ ShownInv /\ HonestReply

------------------------------------------------------------------------------
(* A job ends its work on o. *)

LEMMA EndKeeps ==
    ASSUME Inv, NEW j \in Job, Leave(j),
           state' \in [Operation -> Pending \cup Ended \cup {"none"}], erased' \subseteq Operation,
           wire' \in [Operation -> {"none", "flying", "landed", "lost", "refused"}],
           UNCHANGED <<conn, gen, made, leased, old, google>>,
           \A o \in Operation : wire'[o] = wire[o] \/ (wire[o] # "none" /\ wire'[o] = "refused"),
           \A o \in Operation : state'[o] = state[o] \/ (state[o] # "none" /\ Fine(o)')
    PROVE  Inv'
<1>1. \A k \in Job : job'[k] = job[k] \/ job'[k] = Idle
      BY DEF Inv, TypeOK, Leave
<1>2. \A k \in Job : job'[k] # Idle => k # j /\ job'[k] = job[k]
      BY DEF Inv, TypeOK, Leave
<1>3. Idle.at = "idle"
      BY DEF Idle
<1>4. /\ \A o \in Operation : MayCount(o)' => MayCount(o)
      /\ \A o \in Operation : \A k \in Job : Writing(k, o)' => Writing(k, o)
      BY <1>1, <1>3 DEF MayCount, Writing
<1>5. \A o \in Operation : Untried(o) => Untried(o)'
      BY <1>4 DEF Untried
<1>6. \A o \in Operation : Stands(o)' = Stands(o)
      BY DEF Stands
<1>7. TypeOK'
      BY <1>1 DEF Inv, TypeOK, Leave, google
<1>8. LockInv'
      BY <1>2, <1>3 DEF Inv, LockInv, Leave
<1>9. StandsInv' /\ OneWriter' /\ ArmedInv'
      BY <1>1, <1>3, <1>4, <1>6 DEF Inv, TypeOK, StandsInv, OneWriter, ArmedInv
<1>10. ReadingInv' /\ RevokedInv'
      BY <1>1, <1>3, <1>5, <1>6 DEF Inv, TypeOK, ReadingInv, RevokedInv, ReadsQueued, RevokedQueued, Idle
<1>11. QueuedInv'
      BY <1>5 DEF Inv, QueuedInv, Fine
<1>12. KnownInv' /\ GenInv' /\ ShownInv'
      <2>1. \A o \in Operation : state'[o] = "none" <=> state[o] = "none"
            BY DEF Fine
      <2>2. KnownInv'
            <3>1. \A k \in Job : job'[k].at # "idle" => job'[k] = job[k] /\ job[k].at # "idle"
                  BY <1>1, <1>3
            <3>2. \A k \in Job : job[k].at # "idle" => job[k].of \in Operation
                  BY DEF Inv, TypeOK, Idle
            <3> QED  BY <2>1, <3>1, <3>2 DEF Inv, KnownInv
      <2>3. GenInv' /\ ShownInv'
            BY <2>1 DEF Inv, GenInv, ShownInv, google
      <2> QED  BY <2>2, <2>3
<1>13. HonestReply'
      BY <1>4 DEF Inv, HonestReply, Fine, google
<1> QED  BY <1>7, <1>8, <1>9, <1>10, <1>11, <1>12, <1>13 DEF Inv

\* Ending the work on o with s saved or set.
LEMMA SetKeeps ==
    ASSUME Inv, NEW j \in Job, NEW o \in Operation, Leave(j), job[j].of = o, job[j] # Idle,
           NEW s \in Pending \cup Ended, Set({o}, s),
           s = "queued" => Untried(o)',
           s = "confirmed" => o \in shown,
           s = "failed" => ~MayCount(o)',
           wire' \in [Operation -> {"none", "flying", "landed", "lost", "refused"}],
           \A p \in Operation : wire'[p] = wire[p] \/ (wire[p] # "none" /\ wire'[p] = "refused"),
           UNCHANGED <<conn, gen, made, leased, old, google>>
    PROVE  Inv'
<1>1. state[o] # "none" /\ s # "none"
      BY DEF Inv, TypeOK, KnownInv, Idle, Pending, Ended
<1>2. /\ state'[o] = s
      /\ \A p \in Operation : p # o => state'[p] = state[p]
      /\ state' \in [Operation -> Pending \cup Ended \cup {"none"}]
      /\ erased' \subseteq Operation
      BY DEF Inv, TypeOK, Set
<1>3. Fine(o)'
      BY <1>1, <1>2 DEF Fine, google
<1> QED  BY <1>1, <1>2, <1>3, EndKeeps

\* Ending it with the row as it is.
LEMMA LeaveKeeps ==
    ASSUME Inv, NEW j \in Job, Leave(j), UNCHANGED row,
           UNCHANGED <<conn, gen, made, leased, old, google, wire>>
    PROVE  Inv'
<1>1. /\ state' \in [Operation -> Pending \cup Ended \cup {"none"}]
      /\ erased' \subseteq Operation
      /\ wire' \in [Operation -> {"none", "flying", "landed", "lost", "refused"}]
      BY DEF Inv, TypeOK, row
<1> QED  BY <1>1, EndKeeps DEF row

LEMMA SaveKeeps ==
    ASSUME Inv, NEW j \in Job, NEW o \in Operation, Leave(j), job[j].of = o, job[j] # Idle,
           NEW s \in {"unknown", "confirmed", "failed"}, Save(o, job[j].saw, s),
           s = "confirmed" => o \in shown,
           s = "failed" => ~MayCount(o),
           UNCHANGED <<conn, gen, made, leased, old, google, wire>>
    PROVE  Inv'
<1>1. CASE UNCHANGED row
      BY <1>1, LeaveKeeps
<1>2. CASE Set({o}, s)
      <2>1. wire' \in [Operation -> {"none", "flying", "landed", "lost", "refused"}]
            BY DEF Inv, TypeOK
      <2>2. s \in Pending \cup Ended /\ s # "queued" /\ (MayCount(o)' <=> MayCount(o))
            BY DEF Pending, Ended, MayCount
      <2> QED  BY <1>2, <2>1, <2>2, SetKeeps
<1> QED  BY <1>1, <1>2 DEF Save

\* What is read behind the lock as queued has not been tried.
LEMMA FirstReading ==
    ASSUME Inv, NEW j \in Job, NEW o \in Operation, At(j, "reading", o) \/ At(j, "revoked", o)
    PROVE  /\ job[j] # Idle /\ job[j].saw \in Pending /\ job[j].of = o
           /\ ~Reconciling(j) => job[j].saw = "queued" /\ Untried(o)
<1>1. job[j] # Idle /\ job[j].saw \in Pending /\ job[j].of = o
      BY DEF Inv, TypeOK, At, Idle
<1>2. ~Reconciling(j) => job[j].saw = "queued"
      BY <1>1 DEF Reconciling, Pending
<1> QED  BY <1>1, <1>2 DEF Inv, ReadingInv, RevokedInv, ReadsQueued, RevokedQueued, At

LEMMA NotManagerKeeps ==
    ASSUME Inv, NEW j \in Job, NEW o \in Operation, NotManager(j, o)
    PROVE  Inv'
<1>1. job[j] # Idle /\ job[j].of = o /\ Set({o}, "canceled")
      BY DEF NotManager, At, Idle
<1>2. wire' \in [Operation -> {"none", "flying", "landed", "lost", "refused"}]
      BY DEF Inv, TypeOK, NotManager
<1>3. "canceled" \in Pending \cup Ended
      BY DEF Ended
<1> QED  BY <1>1, <1>2, <1>3, SetKeeps DEF NotManager

LEMMA TurnAwayKeeps ==
    ASSUME Inv, NEW j \in Job, NEW o \in Operation, TurnAway(j, o)
    PROVE  Inv'
<1>1. CASE UNCHANGED row
      BY <1>1, LeaveKeeps DEF TurnAway
<1>2. CASE Set({o}, "canceled")
      <2>1. job[j] # Idle /\ job[j].of = o
            BY DEF TurnAway, At, Idle
      <2>2. wire' \in [Operation -> {"none", "flying", "landed", "lost", "refused"}]
            BY DEF Inv, TypeOK, TurnAway
      <2>3. "canceled" \in Pending \cup Ended
            BY DEF Ended
      <2> QED  BY <1>2, <2>1, <2>2, <2>3, SetKeeps DEF TurnAway
<1> QED  BY <1>1, <1>2 DEF TurnAway

LEMMA CannotReadKeeps ==
    ASSUME Inv, NEW j \in Job, NEW o \in Operation, CannotRead(j, o)
    PROVE  Inv'
<1>1. /\ job[j] # Idle /\ job[j].of = o
      /\ ~Reconciling(j) => job[j].saw = "queued" /\ Untried(o)
      BY FirstReading DEF CannotRead
<1>2. PICK s \in AfterError(j) : Save(o, job[j].saw, s)
      BY DEF CannotRead
<1>3. CASE s = "queued"
      <2>1. job[j].saw = "queued"
            BY <1>1, <1>3 DEF AfterError
      <2>2. UNCHANGED row
            BY <1>2, <1>3, <2>1 DEF Save
      <2> QED  BY <2>2, LeaveKeeps DEF CannotRead
<1>4. CASE s # "queued"
      <2>1. s \in {"unknown", "confirmed", "failed"} /\ s # "confirmed"
            BY <1>4 DEF AfterError
      <2>2. s = "failed" => ~MayCount(o)
            BY <1>1 DEF AfterError, Untried
      <2> QED  BY <1>1, <1>2, <2>1, <2>2, SaveKeeps DEF CannotRead
<1> QED  BY <1>3, <1>4

LEMMA AfterRevokedKeeps ==
    ASSUME Inv, NEW j \in Job, NEW o \in Operation, AfterRevoked(j, o)
    PROVE  Inv'
<1> DEFINE s == IF Reconciling(j) THEN "unknown" ELSE "failed"
<1>1. /\ job[j] # Idle /\ job[j].of = o
      /\ ~Reconciling(j) => Untried(o)
      BY FirstReading DEF AfterRevoked
<1>2. s \in {"unknown", "confirmed", "failed"} /\ s # "confirmed" /\ (s = "failed" => ~MayCount(o))
      BY <1>1 DEF Untried
<1>3. Save(o, job[j].saw, s) /\ Leave(j) /\ UNCHANGED <<conn, gen, made, leased, old, google, wire>>
      BY DEF AfterRevoked
<1> QED  BY <1>1, <1>2, <1>3, SaveKeeps

LEMMA MatchesKeeps ==
    ASSUME Inv, NEW j \in Job, NEW o \in Operation, Matches(j, o)
    PROVE  Inv'
<1>1. job[j] # Idle /\ job[j].of = o
      BY FirstReading DEF Matches, CanRead
<1>2. o \in shown
      BY <1>1 DEF Inv, TypeOK, KnownInv, ShownInv, Matches, Idle
<1> QED  BY <1>1, <1>2, SaveKeeps DEF Matches

LEMMA DiffersKeeps ==
    ASSUME Inv, NEW j \in Job, NEW o \in Operation, Differs(j, o)
    PROVE  Inv'
<1>1. /\ job[j] # Idle /\ job[j].of = o
      /\ ~Reconciling(j) => Untried(o)
      BY FirstReading DEF Differs, CanRead
<1>2. CASE Save(o, job[j].saw, "unknown")
      BY <1>1, <1>2, SaveKeeps DEF Differs
<1>3. CASE ~Reconciling(j) /\ Save(o, job[j].saw, "failed")
      <2>1. ~MayCount(o)
            BY <1>1, <1>3 DEF Untried
      <2> QED  BY <1>1, <1>3, <2>1, SaveKeeps DEF Differs
<1> QED  BY <1>2, <1>3 DEF Differs

LEMMA DesistKeeps ==
    ASSUME Inv, NEW j \in Job, NEW o \in Operation, Desist(j, o)
    PROVE  Inv'
BY LeaveKeeps DEF Desist

LEMMA CrashKeeps ==
    ASSUME Inv, NEW j \in Job, Crash(j)
    PROVE  Inv'
BY LeaveKeeps DEF Crash

LEMMA AnswerKeeps ==
    ASSUME Inv, NEW j \in Job, NEW o \in Operation, Answer(j, o)
    PROVE  Inv'
<1>1. job[j] # Idle /\ job[j].of = o /\ o \in shown
      BY DEF Inv, ShownInv, Answer, At, Idle
<1>2. wire' \in [Operation -> {"none", "flying", "landed", "lost", "refused"}]
      BY DEF Inv, TypeOK, Answer
<1>3. "confirmed" \in Pending \cup Ended
      BY DEF Ended
<1> QED  BY <1>1, <1>2, <1>3, SetKeeps DEF Answer

LEMMA GiveUpKeeps ==
    ASSUME Inv, NEW j \in Job, NEW o \in Operation, GiveUp(j, o)
    PROVE  Inv'
<1>1. job[j] # Idle /\ job[j].of = o /\ Set({o}, "unknown")
      BY DEF GiveUp, At, Idle, Unanswered
<1>2. wire' \in [Operation -> {"none", "flying", "landed", "lost", "refused"}]
      BY DEF Inv, TypeOK, GiveUp
<1>3. "unknown" \in Pending \cup Ended
      BY DEF Pending
<1> QED  BY <1>1, <1>2, <1>3, SetKeeps DEF GiveUp

\* The refused write was the only one, and j the only one to write for o.
LEMMA RefuseKeeps ==
    ASSUME Inv, NEW j \in Job, NEW o \in Operation, Refuse(j, o)
    PROVE  Inv'
<1>1. /\ job[j] # Idle /\ job[j].of = o /\ wire[o] # "none" /\ Writing(j, o)
      BY DEF Refuse, At, Idle, Writing
<1>2. /\ wire' \in [Operation -> {"none", "flying", "landed", "lost", "refused"}]
      /\ wire'[o] = "refused"
      /\ \A p \in Operation : p # o => wire'[p] = wire[p]
      BY DEF Inv, TypeOK, Refuse
<1>3. Untried(o)'
      <2>1. \A k \in Job : k # j => ~Writing(k, o) /\ job'[k] = job[k]
            BY <1>1 DEF Inv, TypeOK, OneWriter, Refuse, Leave
      <2>2. ~Writing(j, o)'
            BY DEF Inv, TypeOK, Refuse, Leave, Writing, Idle
      <2>3. \A k \in Job : ~Writing(k, o)'
            BY <2>1, <2>2 DEF Writing
      <2> QED  BY <1>2, <2>3 DEF Untried, MayCount
<1>4. PICK s \in {"failed", "queued"} : Set({o}, s)
      BY DEF Refuse
<1>5. s \in Pending \cup Ended /\ s # "confirmed" /\ ~MayCount(o)'
      BY <1>3 DEF Pending, Ended, Untried
<1> QED  BY <1>1, <1>2, <1>3, <1>4, <1>5, SetKeeps DEF Refuse

------------------------------------------------------------------------------
(* The connection and the queue. *)

LEMMA RenewKeeps ==
    ASSUME Inv, NEW s \in {"selecting", "active", "disconnected"}, Renew(s)
    PROVE  Inv'
<1> USE DEF google, Waits, Set, cancelOperations, Renew
<1>1. TypeOK'
      BY DEF Inv, Ended, TypeOK
<1>2. LockInv' /\ ReadingInv' /\ OneWriter' /\ ArmedInv'
      BY DEF Inv, MayCount, Writing, Untried, ReadsQueued, LockInv, ReadingInv, OneWriter,
          ArmedInv
<1>3. StandsInv'
      BY RepliesAssumption DEF Inv, LockInv, StandsInv
<1>4. QueuedInv'
      BY DEF Inv, MayCount, Writing, Untried, QueuedInv
<1>5. RevokedInv'
      BY DEF Inv, Idle, TypeOK, MayCount, Writing, Untried, Stands, RevokedQueued, RevokedInv,
          GenInv
<1>6. KnownInv'
      BY DEF Inv, Idle, TypeOK, KnownInv
<1>7. GenInv'
      BY DEF Inv, TypeOK, GenInv
<1>8. ShownInv'
      BY DEF Inv, Pending, ShownInv
<1>9. HonestReply'
      BY DEF Inv, MayCount, HonestReply
<1> QED  BY <1>1, <1>2, <1>3, <1>4, <1>5, <1>6, <1>7, <1>8, <1>9 DEF Inv

LEMMA TokenRefusedKeeps ==
    ASSUME Inv, TokenRefused
    PROVE  Inv'
<1> USE DEF row, google, TokenRefused
<1>1. TypeOK'
      BY DEF Inv, TypeOK
<1>2. /\ LockInv' /\ QueuedInv' /\ ReadingInv' /\ OneWriter' /\ ArmedInv' /\ KnownInv'
      /\ ShownInv' /\ HonestReply'
      BY DEF Inv, MayCount, HonestReply, Writing, Untried, ReadsQueued, LockInv, QueuedInv,
          ReadingInv, OneWriter, ArmedInv, KnownInv, ShownInv
<1>3. StandsInv'
      BY RepliesAssumption DEF Inv, LockInv, StandsInv
<1>4. RevokedInv'
      BY DEF Inv, MayCount, Writing, Untried, Stands, RevokedQueued, RevokedInv
<1>5. GenInv'
      BY DEF Inv, GenInv
<1> QED  BY <1>1, <1>2, <1>3, <1>4, <1>5 DEF Inv

LEMMA QueueKeeps ==
    ASSUME Inv, NEW o \in Operation, NEW wish \in Wish, NEW seen \in 0 .. edits, Queue(o, wish, seen)
    PROVE  Inv'
<1> USE DEF Waits, Set, Queue
<1>1. TypeOK'
      BY DEF Inv, Pending, TypeOK
<1>2. LockInv' /\ ReadingInv' /\ OneWriter' /\ ArmedInv'
      BY DEF Inv, MayCount, Writing, Untried, ReadsQueued, LockInv, ReadingInv, OneWriter,
          ArmedInv
<1>3. StandsInv'
      BY DEF Inv, Stands, StandsInv
<1>4. QueuedInv'
      BY DEF Inv, MayCount, Writing, Untried, QueuedInv
<1>5. RevokedInv'
      BY DEF Inv, MayCount, Writing, Untried, Stands, RevokedQueued, RevokedInv, KnownInv
<1>6. KnownInv'
      BY DEF Inv, Idle, TypeOK, KnownInv
<1>7. GenInv'
      BY DEF Inv, TypeOK, GenInv
<1>8. ShownInv'
      BY DEF Inv, TypeOK, ShownInv
<1>9. HonestReply'
      BY DEF Inv, MayCount, HonestReply
<1> QED  BY <1>1, <1>2, <1>3, <1>4, <1>5, <1>6, <1>7, <1>8, <1>9 DEF Inv

------------------------------------------------------------------------------
(* A job at work. *)

LEMMA FindKeeps ==
    ASSUME Inv, NEW j \in Job, NEW o \in Operation, Find(j, o)
    PROVE  Inv'
<1> USE DEF row, google, Waits, Find
<1>1. TypeOK'
      BY DEF Inv, TypeOK
<1>2. GenInv' /\ ShownInv' /\ HonestReply'
      BY DEF Inv, MayCount, HonestReply, GenInv, ShownInv
<1>3. LockInv'
      BY DEF Inv, LockInv
<1>4. StandsInv'
      BY DEF Inv, Stands, StandsInv
<1>5. QueuedInv'
      BY DEF Inv, MayCount, Writing, Untried, QueuedInv
<1>6. ReadingInv'
      BY DEF Inv, MayCount, Writing, Untried, ReadsQueued, ReadingInv
<1>7. RevokedInv'
      BY DEF Inv, MayCount, Writing, Untried, Stands, RevokedQueued, RevokedInv
<1>8. OneWriter'
      BY DEF Inv, Writing, OneWriter
<1>9. ArmedInv'
      BY DEF Inv, MayCount, ArmedInv
<1>10. KnownInv'
      BY DEF Inv, Pending, KnownInv
<1> QED  BY <1>1, <1>2, <1>3, <1>4, <1>5, <1>6, <1>7, <1>8, <1>9, <1>10 DEF Inv

LEMMA EnterKeeps ==
    ASSUME Inv, NEW j \in Job, NEW o \in Operation, Enter(j, o)
    PROVE  Inv'
<1> USE DEF row, google, Waits, At, Current, Enter
<1>1. TypeOK'
      BY RepliesAssumption DEF Inv, TypeOK
<1>2. GenInv' /\ ShownInv' /\ HonestReply'
      BY DEF Inv, MayCount, HonestReply, GenInv, ShownInv
<1>3. LockInv'
      BY RepliesAssumption DEF Inv, LockInv
<1>4. StandsInv'
      BY DEF Inv, Stands, StandsInv
<1>5. QueuedInv'
      BY DEF Inv, MayCount, Writing, Untried, QueuedInv
<1>6. ReadingInv'
      BY DEF Inv, MayCount, Writing, Untried, ReadsQueued, QueuedInv, ReadingInv
<1>7. RevokedInv'
      BY DEF Inv, MayCount, Writing, Untried, Stands, RevokedQueued, RevokedInv
<1>8. OneWriter'
      BY DEF Inv, Writing, OneWriter
<1>9. ArmedInv'
      BY DEF Inv, MayCount, ArmedInv
<1>10. KnownInv'
      BY DEF Inv, KnownInv
<1> QED  BY <1>1, <1>2, <1>3, <1>4, <1>5, <1>6, <1>7, <1>8, <1>9, <1>10 DEF Inv

LEMMA RevokedKeeps ==
    ASSUME Inv, NEW j \in Job, NEW o \in Operation, Revoked(j, o)
    PROVE  Inv'
<1> USE DEF row, google, At, Revoked
<1>1. TypeOK'
      BY DEF Inv, Pending, Ended, Wish, Idle, TypeOK
<1>2. ShownInv' /\ HonestReply'
      BY DEF Inv, MayCount, HonestReply, ShownInv
<1>3. LockInv'
      BY DEF Inv, TypeOK, LockInv
<1>4. StandsInv'
      BY DEF Inv, TypeOK, LockInv, StandsInv
<1>5. QueuedInv'
      BY DEF Inv, MayCount, Writing, Untried, QueuedInv
<1>6. ReadingInv'
      BY DEF Inv, MayCount, Writing, Untried, ReadsQueued, ReadingInv
<1>7. RevokedInv'
      BY DEF Inv, MayCount, Writing, Untried, Stands, ReadsQueued, RevokedQueued, ReadingInv,
          RevokedInv
<1>8. OneWriter'
      BY DEF Inv, Writing, OneWriter
<1>9. ArmedInv'
      BY DEF Inv, MayCount, ArmedInv
<1>10. KnownInv'
      BY DEF Inv, KnownInv
<1>11. GenInv'
      BY DEF Inv, GenInv
<1> QED  BY <1>1, <1>2, <1>3, <1>4, <1>5, <1>6, <1>7, <1>8, <1>9, <1>10, <1>11 DEF Inv

LEMMA ArmKeeps ==
    ASSUME Inv, NEW j \in Job, NEW o \in Operation, Arm(j, o)
    PROVE  Inv'
<1> USE DEF row, google, Set, Save, At, Reconciling, CanRead, Expected, Arm
<1>1. TypeOK'
      BY DEF Inv, Pending, Idle, TypeOK
<1>2. LockInv'
      BY DEF Inv, TypeOK, LockInv
<1>3. StandsInv'
      BY DEF Inv, Stands, StandsInv
<1>4. QueuedInv'
      BY DEF Inv, MayCount, Writing, Untried, QueuedInv
<1>5. ReadingInv'
      BY DEF Inv, MayCount, Writing, Untried, ReadsQueued, LockInv, ReadingInv
<1>6. RevokedInv'
      BY DEF Inv, MayCount, Writing, Untried, Stands, RevokedQueued, StandsInv, RevokedInv
<1>7. OneWriter'
      BY DEF Inv, Pending, Idle, TypeOK, Writing, Untried, ReadsQueued, ReadingInv, OneWriter
<1>8. ArmedInv'
      BY DEF Inv, Pending, Idle, TypeOK, MayCount, Untried, ReadsQueued, ReadingInv, ArmedInv
<1>9. KnownInv'
      BY DEF Inv, Idle, TypeOK, KnownInv
<1>10. GenInv'
      BY DEF Inv, Stands, StandsInv, GenInv
<1>11. ShownInv'
      BY DEF Inv, ShownInv
<1>12. HonestReply'
      BY DEF Inv, MayCount, HonestReply
<1> QED  BY <1>1, <1>2, <1>3, <1>4, <1>5, <1>6, <1>7, <1>8, <1>9, <1>10, <1>11, <1>12 DEF Inv

LEMMA SendKeeps ==
    ASSUME Inv, NEW j \in Job, NEW o \in Operation, Send(j, o)
    PROVE  Inv'
<1> USE DEF row, google, At, StillGood, Send
<1>1. TypeOK'
      BY RepliesAssumption DEF Inv, Pending, Ended, Wish, Idle, TypeOK
<1>2. GenInv'
      BY DEF Inv, GenInv
<1>3. LockInv'
      BY RepliesAssumption DEF Inv, LockInv
<1>4. StandsInv'
      BY DEF Inv, Stands, StandsInv
<1>5. QueuedInv'
      BY DEF Inv, MayCount, Writing, Untried, QueuedInv
<1>6. ReadingInv'
      BY DEF Inv, MayCount, Writing, Untried, ReadsQueued, ReadingInv
<1>7. RevokedInv'
      BY DEF Inv, MayCount, Writing, Untried, Stands, RevokedQueued, RevokedInv
<1>8. OneWriter'
      BY DEF Inv, Writing, OneWriter
<1>9. ArmedInv'
      BY DEF Inv, TypeOK, MayCount, Writing, OneWriter, ArmedInv
<1>10. KnownInv'
      BY DEF Inv, KnownInv
<1>11. ShownInv'
      BY DEF Inv, ShownInv
<1>12. HonestReply'
      BY DEF Inv, MayCount, HonestReply
<1> QED  BY <1>1, <1>2, <1>3, <1>4, <1>5, <1>6, <1>7, <1>8, <1>9, <1>10, <1>11, <1>12 DEF Inv

------------------------------------------------------------------------------
(* Time and Google. *)

LEMMA LeaseEndsKeeps ==
    ASSUME Inv, NEW o \in Operation, LeaseEnds(o)
    PROVE  Inv'
<1> USE DEF row, google, LeaseEnds
<1>1. TypeOK'
      BY DEF Inv, TypeOK
<1>2. /\ LockInv' /\ StandsInv' /\ QueuedInv' /\ ReadingInv' /\ RevokedInv' /\ OneWriter'
      /\ ArmedInv' /\ KnownInv' /\ GenInv' /\ ShownInv' /\ HonestReply'
      BY DEF Inv, MayCount, HonestReply, Writing, Untried, Stands, ReadsQueued, RevokedQueued,
          LockInv, StandsInv, QueuedInv, ReadingInv, RevokedInv, OneWriter, ArmedInv, KnownInv,
          GenInv, ShownInv
<1> QED  BY <1>1, <1>2 DEF Inv

LEMMA AgeKeeps ==
    ASSUME Inv, NEW o \in Operation, Age(o)
    PROVE  Inv'
<1> USE DEF row, google, Age
<1>1. TypeOK'
      BY DEF Inv, TypeOK
<1>2. /\ LockInv' /\ StandsInv' /\ QueuedInv' /\ ReadingInv' /\ RevokedInv' /\ OneWriter'
      /\ ArmedInv' /\ KnownInv' /\ GenInv' /\ ShownInv' /\ HonestReply'
      BY DEF Inv, MayCount, HonestReply, Writing, Untried, Stands, ReadsQueued, RevokedQueued,
          LockInv, StandsInv, QueuedInv, ReadingInv, RevokedInv, OneWriter, ArmedInv, KnownInv,
          GenInv, ShownInv
<1> QED  BY <1>1, <1>2 DEF Inv

LEMMA ExpireKeeps ==
    ASSUME Inv, Expire
    PROVE  Inv'
<1> USE DEF google, Waits, Set, Overdue, Expire
<1>1. TypeOK'
      BY DEF Inv, Ended, TypeOK
<1>2. LockInv' /\ StandsInv' /\ ReadingInv' /\ RevokedInv' /\ OneWriter' /\ ArmedInv'
      BY DEF Inv, MayCount, Writing, Untried, Stands, ReadsQueued, RevokedQueued, LockInv,
          StandsInv, ReadingInv, RevokedInv, OneWriter, ArmedInv
<1>3. QueuedInv'
      BY DEF Inv, MayCount, Writing, Untried, QueuedInv
<1>4. KnownInv'
      BY DEF Inv, Idle, TypeOK, KnownInv
<1>5. GenInv'
      BY DEF Inv, Pending, GenInv
<1>6. ShownInv'
      BY DEF Inv, Pending, ShownInv
<1>7. HonestReply'
      BY DEF Inv, MayCount, HonestReply
<1> QED  BY <1>1, <1>2, <1>3, <1>4, <1>5, <1>6, <1>7 DEF Inv

LEMMA LandKeeps ==
    ASSUME Inv, NEW o \in Operation, Land(o)
    PROVE  Inv'
<1> USE DEF row, Change, Land
<1>1. TypeOK'
      BY DEF Inv, NoReply, TypeOK
<1>2. LockInv' /\ StandsInv' /\ OneWriter' /\ GenInv'
      BY DEF Inv, Writing, Stands, LockInv, StandsInv, OneWriter, GenInv
<1>3. QueuedInv'
      BY DEF Inv, MayCount, Writing, Untried, QueuedInv
<1>4. ReadingInv'
      BY DEF Inv, MayCount, Writing, Untried, ReadsQueued, ReadingInv
<1>5. RevokedInv'
      BY DEF Inv, MayCount, Writing, Untried, Stands, RevokedQueued, RevokedInv
<1>6. ArmedInv'
      BY DEF Inv, MayCount, ArmedInv
<1>7. KnownInv'
      BY DEF Inv, KnownInv
<1>8. ShownInv'
      BY DEF Inv, NoReply, MayCount, Untried, QueuedInv, ShownInv
<1>9. HonestReply'
      BY DEF Inv, MayCount, HonestReply
<1> QED  BY <1>1, <1>2, <1>3, <1>4, <1>5, <1>6, <1>7, <1>8, <1>9 DEF Inv

LEMMA LoseKeeps ==
    ASSUME Inv, NEW o \in Operation, Lose(o)
    PROVE  Inv'
<1> USE DEF row, google, Lose
<1>1. TypeOK'
      BY DEF Inv, TypeOK
<1>2. LockInv' /\ StandsInv' /\ OneWriter' /\ GenInv'
      BY DEF Inv, Writing, Stands, LockInv, StandsInv, OneWriter, GenInv
<1>3. QueuedInv'
      BY DEF Inv, MayCount, Writing, Untried, QueuedInv
<1>4. ReadingInv'
      BY DEF Inv, MayCount, Writing, Untried, ReadsQueued, ReadingInv
<1>5. RevokedInv'
      BY DEF Inv, MayCount, Writing, Untried, Stands, RevokedQueued, RevokedInv
<1>6. ArmedInv'
      BY DEF Inv, MayCount, ArmedInv
<1>7. KnownInv'
      BY DEF Inv, KnownInv
<1>8. ShownInv'
      BY DEF Inv, ShownInv
<1>9. HonestReply'
      BY DEF Inv, MayCount, HonestReply
<1> QED  BY <1>1, <1>2, <1>3, <1>4, <1>5, <1>6, <1>7, <1>8, <1>9 DEF Inv

LEMMA EditKeeps ==
    ASSUME Inv, NEW text \in Wish, Edit(text)
    PROVE  Inv'
<1> USE DEF row, Change, Edit
<1>1. TypeOK'
      BY DEF Inv, NoReply, TypeOK
<1>2. /\ LockInv' /\ StandsInv' /\ QueuedInv' /\ ReadingInv' /\ RevokedInv' /\ OneWriter'
      /\ ArmedInv' /\ KnownInv' /\ GenInv'
      BY DEF Inv, MayCount, Writing, Untried, Stands, ReadsQueued, RevokedQueued, LockInv,
          StandsInv, QueuedInv, ReadingInv, RevokedInv, OneWriter, ArmedInv, KnownInv, GenInv
<1>3. ShownInv'
      BY DEF Inv, NoReply, ShownInv
<1>4. HonestReply'
      BY DEF Inv, MayCount, HonestReply
<1> QED  BY <1>1, <1>2, <1>3, <1>4 DEF Inv

------------------------------------------------------------------------------
LEMMA InitInv == Init => Inv
BY RepliesAssumption DEF Init, Inv, TypeOK, LockInv, StandsInv, QueuedInv, ReadingInv, RevokedInv, OneWriter,
   ArmedInv, KnownInv, GenInv, ShownInv, HonestReply, Untried, MayCount, Writing, ReadsQueued,
   RevokedQueued, Stands, Idle, NoReply, Wish

LEMMA StepInv == Inv /\ [Next]_vars => Inv'
<1> SUFFICES ASSUME Inv, [Next]_vars PROVE Inv'
    OBVIOUS
<1>1. CASE Authorize \/ Select \/ Disconnect
      BY <1>1, RenewKeeps DEF Authorize, Select, Disconnect
<1>2. CASE TokenRefused
      BY <1>2, TokenRefusedKeeps
<1>3. CASE \E o \in Operation, wish \in Wish, seen \in 0 .. edits : Queue(o, wish, seen)
      BY <1>3, QueueKeeps
<1>4. ASSUME NEW j \in Job, NEW o \in Operation, Execute(j, o) PROVE Inv'
      <2>1. CASE Find(j, o) \/ NotManager(j, o) \/ TurnAway(j, o) \/ Enter(j, o)
            BY <2>1, FindKeeps, NotManagerKeeps, TurnAwayKeeps, EnterKeeps
      <2>2. CASE CannotRead(j, o) \/ Revoked(j, o) \/ AfterRevoked(j, o)
            BY <2>2, CannotReadKeeps, RevokedKeeps, AfterRevokedKeeps
      <2>3. CASE Matches(j, o) \/ Differs(j, o) \/ Arm(j, o)
            BY <2>3, MatchesKeeps, DiffersKeeps, ArmKeeps
      <2>4. CASE Desist(j, o) \/ Send(j, o)
            BY <2>4, DesistKeeps, SendKeeps
      <2>5. CASE Answer(j, o) \/ Refuse(j, o) \/ GiveUp(j, o)
            BY <2>5, AnswerKeeps, RefuseKeeps, GiveUpKeeps
      <2> QED  BY <1>4, <2>1, <2>2, <2>3, <2>4, <2>5 DEF Execute
<1>5. CASE \E j \in Job : Crash(j)
      BY <1>5, CrashKeeps
<1>6. CASE \E o \in Operation : LeaseEnds(o) \/ Age(o) \/ Land(o) \/ Lose(o)
      BY <1>6, LeaseEndsKeeps, AgeKeeps, LandKeeps, LoseKeeps
<1>7. CASE \E text \in Wish : Edit(text)
      BY <1>7, EditKeeps
<1>8. CASE Expire
      BY <1>8, ExpireKeeps
<1>9. CASE UNCHANGED vars
      <2> USE <1>9 DEF vars, row, google
      <2>1. TypeOK' /\ KnownInv' /\ GenInv' /\ ShownInv' /\ HonestReply'
            BY DEF Inv, TypeOK, KnownInv, GenInv, ShownInv, HonestReply, MayCount
      <2>2. LockInv' /\ StandsInv' /\ QueuedInv' /\ ReadingInv' /\ RevokedInv' /\ OneWriter' /\ ArmedInv'
            BY DEF Inv, LockInv, StandsInv, QueuedInv, ReadingInv, RevokedInv, OneWriter, ArmedInv,
                   Stands, Untried, MayCount, Writing, ReadsQueued, RevokedQueued
      <2> QED  BY <2>1, <2>2 DEF Inv
<1> QED  BY <1>1, <1>2, <1>3, <1>4, <1>5, <1>6, <1>7, <1>8, <1>9 DEF Next

LEMMA Always == Spec => []Inv
BY InitInv, StepInv, PTL DEF Spec

\* Every variable holds a value of its type, for any number of operations, jobs, generations and
\* edits.
THEOREM TypeCorrect == Spec => []TypeOK
<1>1. Inv => TypeOK
      BY DEF Inv
<1> QED  BY <1>1, Always, PTL

\* What an operation says of the reply at Google is true (HonestReply).
THEOREM HonestAlways == Spec => []HonestReply
<1>1. Inv => HonestReply
      BY DEF Inv
<1> QED  BY <1>1, Always, PTL

\* execute_operation sends no second write while the first may count, and none for a connection
\* that was cut or made anew (OnlySafeWrites).
THEOREM WritesAreSafe == Spec => OnlySafeWrites
<1> DEFINE Safe(o) == ~MayCount(o) /\ conn # "disconnected" /\ made[o].gen = gen
<1>1. ASSUME Inv, [Next]_vars, NEW o \in Operation, wire'[o] = "flying", wire[o] # "flying"
      PROVE  Safe(o)
      <2>1. \E j \in Job : Send(j, o)
            <3>1. UNCHANGED wire => FALSE
                  BY <1>1
            <3>2. ASSUME NEW p \in Operation, NEW s \in {"landed", "lost", "refused"},
                         wire' = [wire EXCEPT ![p] = s]
                  PROVE  FALSE
                  BY <1>1, <3>2 DEF Inv, TypeOK
            <3>3. ASSUME NEW p \in Operation, Land(p) \/ Lose(p) \/ \E j \in Job : Refuse(j, p)
                  PROVE  FALSE
                  BY <3>2, <3>3 DEF Land, Lose, Refuse
            <3>4. ASSUME NEW j \in Job, NEW p \in Operation, Send(j, p) PROVE p = o
                  BY <1>1, <3>4 DEF Inv, TypeOK, Send
            <3>5. ASSUME NEW j \in Job, NEW p \in Operation, Execute(j, p) PROVE Send(j, p) \/ Refuse(j, p)
                  BY <3>1, <3>5 DEF Execute, Find, NotManager, TurnAway, Enter, CannotRead, Revoked,
                     AfterRevoked, Matches, Differs, Arm, Desist, Answer, GiveUp
            <3>6. ~Authorize /\ ~Select /\ ~Disconnect /\ ~TokenRefused /\ ~Expire /\ ~UNCHANGED vars
                  BY <3>1 DEF Authorize, Select, Disconnect, Renew, TokenRefused, Expire, vars
            <3>7. \A p \in Operation : ~LeaseEnds(p) /\ ~Age(p) /\ ~Land(p) /\ ~Lose(p)
                  BY <3>1, <3>3 DEF LeaseEnds, Age
            <3>8. ~(\E j \in Job : Crash(j)) /\ ~(\E text \in Wish : Edit(text))
                  BY <3>1 DEF Crash, Edit
            <3>9. ~(\E p \in Operation, wish \in Wish, seen \in 0 .. edits : Queue(p, wish, seen))
                  BY <3>1 DEF Queue
            <3>10. \E j \in Job, p \in Operation : Execute(j, p)
                  BY <1>1, <3>6, <3>7, <3>8, <3>9 DEF Next
            <3> QED  BY <3>3, <3>4, <3>5, <3>10
      <2>2. PICK j \in Job : Send(j, o)
            BY <2>1
      <2>3. ~MayCount(o)
            BY <1>1, <2>2 DEF Inv, ArmedInv, Send, At, MayCount
      <2>4. made[o].gen = gen /\ state[o] = "running"
            BY <2>2 DEF Send, StillGood
      <2>5. conn # "disconnected"
            BY <1>1, <2>4 DEF Inv, GenInv
      <2> QED  BY <2>3, <2>4, <2>5
<1>2. Inv /\ [Next]_vars => [\A o \in Operation :
          wire'[o] = "flying" /\ wire[o] # "flying"
              => ~MayCount(o) /\ conn # "disconnected" /\ made[o].gen = gen]_vars
      BY <1>1
<1> QED  BY <1>2, Always, PTL DEF Spec, OnlySafeWrites
=============================================================================
