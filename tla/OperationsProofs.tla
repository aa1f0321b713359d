---------------------------- MODULE OperationsProofs ----------------------------
(***************************************************************************)
(* Theorems about parts of the operations run: the lease and the consumer  *)
(* groups, for any number of replicas and messages, the desk and the       *)
(* floor, for any number of contestants, messages, runners and tasks, and  *)
(* the pages of the staff, for any number of administrators, users, teams, *)
(* tasks, datasets, contests and files.                                    *)
(***************************************************************************)
EXTENDS MCOperations, ProblemsProofs

\* The types hold initially.
LEMMA TypeInit == Init => TypeOK
BY LeaseAssumption DEF Init, TypeOK, Working

\* Every step keeps the types.
LEMMA TypeStep == TypeOK /\ [Next]_vars => TypeOK'
<1> SUFFICES ASSUME TypeOK, [Next]_vars PROVE TypeOK'
  OBVIOUS
<1> USE DEF TypeOK, Working
<1>1. CASE UNCHANGED vars
  BY <1>1 DEF vars
<1>2. ASSUME NEW r \in Replicas, TryAcquire(r) PROVE TypeOK'
  BY <1>2 DEF TryAcquire
<1>3. ASSUME NEW r \in Replicas, Renew(r) PROVE TypeOK'
  BY <1>3 DEF Renew
<1>4. ASSUME NEW r \in Replicas, Stop(r) PROVE TypeOK'
  BY <1>4 DEF Stop, Release
<1>5. ASSUME NEW r \in Replicas, Terminate(r) PROVE TypeOK'
  BY <1>5 DEF Terminate
<1>6. ASSUME NEW r \in Replicas, Crash(r) PROVE TypeOK'
  BY <1>6 DEF Crash
<1>7. ASSUME NEW r \in Replicas, Restart(r) PROVE TypeOK'
  BY <1>7 DEF Restart
<1>8. ASSUME NEW r \in Replicas, AdoptPending(r) PROVE TypeOK'
  BY <1>8 DEF AdoptPending
<1>9. ASSUME NEW r \in Replicas, readGroup(r) PROVE TypeOK'
  <2>1. CASE {m \in Messages : pending[m] = r} # {}
    BY <1>9, <2>1 DEF readGroup
  <2>2. CASE {m \in Messages : pending[m] = r} = {}
    <3>1. PICK m \in unread : /\ unread' = unread \ {m}
                              /\ pending' = [pending EXCEPT ![m] = r]
                              /\ batch' = [batch EXCEPT ![r] = {m}]
      BY <1>9, <2>2 DEF readGroup
    <3>2. UNCHANGED <<key, state, handled, pauses, crashes>>
      BY <1>9 DEF readGroup
    <3> QED
      BY <3>1, <3>2
  <2> QED
    BY <2>1, <2>2
<1>10. ASSUME NEW r \in Replicas, handle(r) PROVE TypeOK'
  BY <1>10 DEF handle
<1>11. ASSUME NEW r \in Replicas, Ack(r) PROVE TypeOK'
  BY <1>11 DEF Ack
<1>12. CASE ExpireDead
  BY <1>12 DEF ExpireDead
<1>13. CASE ExpirePaused
  BY <1>13 DEF ExpirePaused
<1> QED
  BY <1>1, <1>2, <1>3, <1>4, <1>5, <1>6, <1>7, <1>8, <1>9, <1>10, <1>11, <1>12, <1>13
     DEF Next

(***************************************************************************)
(* Who works holds the lease, if no lease expires under a live holder.     *)
(***************************************************************************)
HolderWorks == \A r \in Replicas : state[r] \in Working => key = r

\* A step that takes no lease from a live holder keeps it.
LEMMA HolderStep ==
    ASSUME TypeOK, HolderWorks, [Next]_vars, ~ExpirePaused
    PROVE  HolderWorks'
<1> USE DEF TypeOK, HolderWorks, Working
<1>1. CASE UNCHANGED vars
  BY <1>1 DEF vars
<1>2. ASSUME NEW r \in Replicas, TryAcquire(r) PROVE HolderWorks'
  BY <1>2, LeaseAssumption DEF TryAcquire
<1>3. ASSUME NEW r \in Replicas, Renew(r) PROVE HolderWorks'
  BY <1>3 DEF Renew
<1>4. ASSUME NEW r \in Replicas, Stop(r) PROVE HolderWorks'
  BY <1>4 DEF Stop, Release
<1>5. ASSUME NEW r \in Replicas, Terminate(r) \/ Crash(r) \/ Restart(r) PROVE HolderWorks'
  BY <1>5 DEF Terminate, Crash, Restart
<1>6. ASSUME NEW r \in Replicas, AdoptPending(r) PROVE HolderWorks'
  BY <1>6 DEF AdoptPending
<1>7. ASSUME NEW r \in Replicas, readGroup(r) \/ handle(r) \/ Ack(r) PROVE HolderWorks'
  BY <1>7 DEF readGroup, handle, Ack
<1>8. CASE ExpireDead
  BY <1>8, LeaseAssumption DEF ExpireDead
<1> QED
  BY <1>1, <1>2, <1>3, <1>4, <1>5, <1>6, <1>7, <1>8 DEF Next

\* Until a holder is paused beyond the lease's time to live, at most one
\* replica of a service is at work, however many crash, stop and start
\* again.
THEOREM OneActiveUntilPaused == Spec => []OneActive
<1> DEFINE Inv == TypeOK /\ (pauses = 0 => HolderWorks)
<1>1. Init => Inv
  BY TypeInit DEF Init, HolderWorks, Working
<1>2. Inv /\ [Next]_vars => Inv'
  <2> SUFFICES ASSUME Inv, [Next]_vars, pauses' = 0 PROVE HolderWorks'
    BY TypeStep
  <2>1. pauses = 0 /\ ~ExpirePaused
    <3>1. pauses' = pauses \/ pauses' = pauses + 1
      BY DEF Next, vars, TryAcquire, Renew, Stop, Terminate, Crash, Restart, AdoptPending,
             readGroup, handle, Ack, ExpireDead, ExpirePaused
    <3>2. ExpirePaused => pauses' = pauses + 1
      BY DEF ExpirePaused
    <3> QED
      BY <3>1, <3>2 DEF TypeOK
  <2> QED
    BY <2>1, HolderStep
<1>3. Inv => OneActive
  BY DEF HolderWorks, OneActive
<1> QED
  BY <1>1, <1>2, <1>3, PTL DEF Spec

\* No message is lost: an acknowledged message was handled, even when
\* several replicas are at work at once.
THEOREM MessagesKept == Spec => []NoneLost
<1> DEFINE Inv == TypeOK /\ NoneLost
<1>1. Init => Inv
  BY TypeInit DEF Init, NoneLost
<1>2. Inv /\ [Next]_vars => Inv'
  <2> SUFFICES ASSUME Inv, [Next]_vars PROVE NoneLost'
    BY TypeStep
  <2> USE DEF NoneLost, TypeOK
  <2>1. CASE UNCHANGED <<unread, pending, handled>>
    BY <2>1
  <2>2. ASSUME NEW r \in Replicas, AdoptPending(r) PROVE NoneLost'
    BY <2>2, LeaseAssumption DEF AdoptPending
  <2>3. ASSUME NEW r \in Replicas, readGroup(r) PROVE NoneLost'
    <3>1. CASE UNCHANGED <<unread, pending>>
      BY <2>3, <3>1 DEF readGroup
    <3>2. CASE \E m \in unread : /\ unread' = unread \ {m}
                                 /\ pending' = [pending EXCEPT ![m] = r]
      BY <2>3, <3>2, LeaseAssumption DEF readGroup
    <3> QED
      BY <2>3, <3>1, <3>2 DEF readGroup
  <2>4. ASSUME NEW r \in Replicas, handle(r) PROVE NoneLost'
    BY <2>4 DEF handle
  <2>5. ASSUME NEW r \in Replicas, Ack(r) PROVE NoneLost'
    BY <2>5 DEF Ack
  <2>6. ASSUME NEW r \in Replicas,
               \/ TryAcquire(r) \/ Renew(r) \/ Stop(r)
               \/ Terminate(r) \/ Crash(r) \/ Restart(r)
        PROVE  UNCHANGED <<unread, pending, handled>>
    BY <2>6 DEF TryAcquire, Renew, Stop, Terminate, Crash, Restart
  <2>7. CASE ExpireDead \/ ExpirePaused
    BY <2>7, <2>1 DEF ExpireDead, ExpirePaused
  <2> QED
    BY <2>1, <2>2, <2>3, <2>4, <2>5, <2>6, <2>7 DEF Next, vars
<1> QED
  BY <1>1, <1>2, PTL DEF Spec

(***************************************************************************)
(* The desk.  What a page read is compared with the tables through the     *)
(* keys of the notices: no two notices have the same time, and a notice    *)
(* that changes for its readers gets a time of its own.                    *)
(***************************************************************************)
Key(n) == <<n.at, noticeTime(n)>>
Notice ==
    [kind : {"question", "announcement", "message"}, who : Contestants \cup {Everyone}, at : Nat,
     reply : Nat, public : BOOLEAN, ignored : BOOLEAN, taken : SUBSET Answerers]

\* The tables and the pages.
DeskShape ==
    /\ board \in [notices : SUBSET Notice, seen : [Contestants -> Nat]]
    /\ IsFiniteSet(board.notices) /\ deskClock \in Nat
    /\ page \in [Contestants -> [step : 0 .. 4, got : SUBSET (Nat \X Nat)]]
    /\ shown \in [Contestants -> SUBSET (Nat \X Nat)]
    /\ passed \in [Contestants -> SUBSET (Nat \X Nat)]

\* Nothing is later than the clock, and no two notices were written at once.
DeskTimes ==
    /\ \A n \in board.notices : n.at <= deskClock /\ n.reply <= deskClock
    /\ \A n, m \in board.notices : n.at = m.at => n = m
    /\ \A c \in Contestants : board.seen[c] <= deskClock
    /\ \A c \in Contestants : \A k \in shown[c] \cup page[c].got : k[1] <= deskClock /\ k[2] <= deskClock

\* A page holds what its queries find now, but for what was written since.
PagesRead ==
    \A c \in Contestants : \A i \in 1 .. 4 :
        i <= page[c].step => \A n \in commQuery(c, i) : Key(n) \in page[c].got \cup passed[c]

\* What was not shown is later than the last visit.
UnshownLater ==
    \A c \in Contestants : \A n \in VisibleTo(board, c) :
        Key(n) \notin shown[c] \cup passed[c] => noticeTime(n) > board.seen[c]

\* An announcement is for everyone.
Addressed == \A n \in board.notices : n.kind = "announcement" => n.who = Everyone

\* The inductive invariant of the desk.
DeskInv == DeskShape /\ DeskTimes /\ Addressed /\ PagesRead /\ UnshownLater /\ PrivateKept

\* A write of the staff or of a contestant: d are the tables after it.  What
\* it leaves is as it was for the readers, or is later than the clock.
Kept(n, m) == n.kind = m.kind /\ n.who = m.who /\ n.at = m.at /\ n.reply = m.reply /\ n.public = m.public
Fresh(n) ==
    \/ noticeTime(n) > deskClock
    \/ n.kind = "question" /\ n.reply = 0 /\ n.at > deskClock
DeskWrite(d, n) ==
    /\ n \in Nat
    /\ d.seen = board.seen /\ d.notices \in SUBSET Notice /\ IsFiniteSet(d.notices)
    /\ d = [notices |-> d.notices, seen |-> d.seen]
    /\ \A x \in d.notices : x.at <= deskClock + n /\ x.reply <= deskClock + n
    /\ \A x, y \in d.notices : x.at = y.at => x = y
    /\ \A x \in d.notices : (\E m \in board.notices : Kept(x, m)) \/ Fresh(x)
    /\ \A x \in d.notices : x.kind = "announcement" => x.who = Everyone

\* A question or an announcement is a row at the time of the write.
LEMMA NewNotice ==
    ASSUME DeskInv, NEW d, NEW n, n = notice(n.kind, n.who, now), n \in Notice,
           n.kind = "question" \/ (n.kind = "announcement" /\ n.who = Everyone),
           d = [board EXCEPT !.notices = @ \cup {n}]
    PROVE  DeskWrite(d, 1)
<1>1. d.notices = board.notices \cup {n} /\ d.seen = board.seen
  BY DEF DeskInv, DeskShape
<1>2. n.at = deskClock + 1 /\ n.reply = 0 /\ noticeTime(n) = IF n.kind = "question" THEN 0 ELSE n.at
  BY DEF notice, now, noticeTime
<1>3. IsFiniteSet(d.notices)
  BY <1>1, FS_AddElement DEF DeskInv, DeskShape
<1>4. d = [notices |-> d.notices, seen |-> d.seen]
  BY DEF DeskInv, DeskShape
<1>5. d.notices \in SUBSET Notice
  BY <1>1 DEF DeskInv, DeskShape
<1>6. Fresh(n)
  BY <1>2 DEF Fresh, DeskInv, DeskShape
<1>7. \A x \in d.notices : x.at <= deskClock + 1 /\ x.reply <= deskClock + 1
  BY <1>1, <1>2 DEF DeskInv, DeskShape, DeskTimes, Notice
<1>8. \A x, y \in d.notices : x.at = y.at => x = y
  BY <1>1, <1>2 DEF DeskInv, DeskShape, DeskTimes, Notice
<1>9. \A x \in d.notices : (\E m \in board.notices : Kept(x, m)) \/ Fresh(x)
  BY <1>1, <1>6 DEF Kept
<1>10. \A x \in d.notices : x.kind = "announcement" => x.who = Everyone
  BY <1>1 DEF DeskInv, Addressed
<1> QED
  BY <1>1, <1>3, <1>4, <1>5, <1>7, <1>8, <1>9, <1>10 DEF DeskWrite

\* A row may be rewritten: for its readers it stays, or is answered now.
LEMMA RewordedNotice ==
    ASSUME DeskInv, NEW q \in board.notices, NEW r \in Notice, q.kind = "question",
           r.at = q.at, r.kind = q.kind, r.who = q.who, NEW d, d = Reword(q, r),
           (r.reply = q.reply /\ r.public = q.public) \/ r.reply = now
    PROVE  DeskWrite(d, 1)
<1>1. d.notices = (board.notices \ {q}) \cup {r} /\ d.seen = board.seen
  BY DEF DeskInv, DeskShape, Reword
<1>2. IsFiniteSet(d.notices)
  <2>1. IsFiniteSet(board.notices \ {q})
    BY FS_RemoveElement DEF DeskInv, DeskShape
  <2> QED BY <1>1, <2>1, FS_AddElement
<1>3. d = [notices |-> d.notices, seen |-> d.seen]
  BY DEF DeskInv, DeskShape, Reword
<1>4. d.notices \in SUBSET Notice
  BY <1>1 DEF DeskInv, DeskShape
<1>5. \A x \in d.notices : x.at <= deskClock + 1 /\ x.reply <= deskClock + 1
  BY <1>1 DEF DeskInv, DeskShape, DeskTimes, Notice, now
<1>6. \A x, y \in d.notices : x.at = y.at => x = y
  BY <1>1 DEF DeskInv, DeskShape, DeskTimes, Notice
<1>7. Kept(r, q) \/ Fresh(r)
  BY DEF DeskInv, DeskShape, Kept, Fresh, noticeTime, now
<1>8. \A x \in d.notices : (\E m \in board.notices : Kept(x, m)) \/ Fresh(x)
  BY <1>1, <1>7 DEF Kept
<1>9. \A x \in d.notices : x.kind = "announcement" => x.who = Everyone
  BY <1>1 DEF DeskInv, Addressed
<1> QED
  BY <1>1, <1>2, <1>3, <1>4, <1>5, <1>6, <1>8, <1>9 DEF DeskWrite

\* The elements of a finite set in some order.
LEMMA OrderOf ==
    ASSUME NEW S, IsFiniteSet(S)
    PROVE  Cardinality(S) \in Nat /\ SetToSeq(S) \in [1 .. Cardinality(S) -> S]
<1>1. PICK n \in Nat : ExistsBijection(1 .. n, S)
  BY FS_NatBijection
<1>2. Cardinality(S) = n
  BY <1>1, FS_CountingElements
<1>3. PICK f \in [1 .. n -> S] : \A a, b \in 1 .. n : f[a] = f[b] => a = b
  BY <1>1 DEF ExistsBijection, Bijection, Injection, IsInjective
<1>4. IsInjective(f)
  BY <1>3 DEF IsInjective
<1> QED
  BY <1>2, <1>3, <1>4, Zenon DEF SetToSeq

\* The messages to some contestants, one after the other.
LEMMA NewMessages ==
    ASSUME DeskInv, NEW S \in SUBSET Contestants, NEW order, order = SetToSeq(S),
           NEW d, d = CreateMessage(order)
    PROVE  DeskWrite(d, Len(order))
<1>1. IsFiniteSet(S)
  BY DeskAssumption, FS_Subset
<1>2. PICK k : k = Cardinality(S)
  OBVIOUS
<1>3. k \in Nat /\ order \in [1 .. k -> S]
  BY <1>1, <1>2, OrderOf
<1>4. Len(order) = k /\ DOMAIN order = 1 .. k
  BY <1>3
<1> DEFINE N == {notice("message", order[i], deskClock + i) : i \in 1 .. k}
<1>5. d = [board EXCEPT !.notices = @ \cup N]
  BY <1>4 DEF CreateMessage
<1>6. \A x \in N : /\ x \in Notice /\ x.kind = "message" /\ x.reply = 0
                   /\ x.at \in deskClock + 1 .. deskClock + k
  <2> SUFFICES ASSUME NEW i \in 1 .. k, NEW x, x = notice("message", order[i], deskClock + i)
               PROVE  /\ x \in Notice /\ x.kind = "message" /\ x.reply = 0
                      /\ x.at \in deskClock + 1 .. deskClock + k
    OBVIOUS
  <2>1. order[i] \in Contestants /\ deskClock + i \in Nat /\ deskClock + i \in deskClock + 1 .. deskClock + k
    BY <1>3 DEF DeskInv, DeskShape
  <2> QED BY <2>1 DEF notice, Notice
<1>7. \A x, y \in N : x.at = y.at => x = y
  <2> SUFFICES ASSUME NEW i \in 1 .. k, NEW j \in 1 .. k,
                      notice("message", order[i], deskClock + i).at = notice("message", order[j], deskClock + j).at
               PROVE  notice("message", order[i], deskClock + i) = notice("message", order[j], deskClock + j)
    OBVIOUS
  <2>1. i = j
    BY <1>3 DEF notice, DeskInv, DeskShape
  <2> QED BY <2>1
<1>8. IsFiniteSet(N)
  <2>1. IsFiniteSet(1 .. k)
    BY <1>3, FS_Interval
  <2> DEFINE f == [i \in 1 .. k |-> notice("message", order[i], deskClock + i)]
  <2>2. N = {f[i] : i \in 1 .. k}
    OBVIOUS
  <2> HIDE DEF f, N
  <2> QED BY <2>1, <2>2, ImageFinite, Zenon
<1> HIDE DEF N
<1>9. d.notices = board.notices \cup N /\ d.seen = board.seen
  BY <1>5 DEF DeskInv, DeskShape
<1>10. IsFiniteSet(d.notices)
  <2>1. IsFiniteSet(board.notices)
    BY DEF DeskInv, DeskShape
  <2> QED BY <1>8, <1>9, <2>1, FS_Union, Zenon
<1>11. d = [notices |-> d.notices, seen |-> d.seen]
  BY <1>5 DEF DeskInv, DeskShape
<1>12. d.notices \in SUBSET Notice
  BY <1>6, <1>9 DEF DeskInv, DeskShape
<1>13. \A x \in d.notices : x.at <= deskClock + k /\ x.reply <= deskClock + k
  BY <1>3, <1>6, <1>9 DEF DeskInv, DeskShape, DeskTimes, Notice
<1>14. \A x, y \in d.notices : x.at = y.at => x = y
  BY <1>3, <1>6, <1>7, <1>9 DEF DeskInv, DeskShape, DeskTimes, Notice
<1>15. \A x \in N : Fresh(x)
  BY <1>3, <1>6 DEF Fresh, noticeTime, DeskInv, DeskShape
<1>16. \A x \in d.notices : (\E m \in board.notices : Kept(x, m)) \/ Fresh(x)
  BY <1>9, <1>15 DEF Kept
<1>17. \A x \in d.notices : x.kind = "announcement" => x.who = Everyone
  BY <1>6, <1>9 DEF DeskInv, Addressed
<1> QED
  BY <1>3, <1>4, <1>9, <1>10, <1>11, <1>12, <1>13, <1>14, <1>16, <1>17 DEF DeskWrite

\* What is kept is read as before, by the same query.
LEMMA KeptRead ==
    ASSUME NEW d, NEW e, NEW n \in d.notices, NEW m \in e.notices, Kept(n, m), NEW c
    PROVE  /\ Key(n) = Key(m) /\ noticeTime(n) = noticeTime(m)
           /\ n \in ListAnnouncements(d) <=> m \in ListAnnouncements(e)
           /\ n \in ListMessagesByParticipation(d, c) <=> m \in ListMessagesByParticipation(e, c)
           /\ n \in ListQuestionsByParticipation(d, c) <=> m \in ListQuestionsByParticipation(e, c)
           /\ n \in ListPublicAnswers(d) <=> m \in ListPublicAnswers(e)
           /\ n \in VisibleTo(d, c) <=> m \in VisibleTo(e, c)
BY DEF Kept, Key, noticeTime, VisibleTo, ListAnnouncements, ListMessagesByParticipation,
       ListQuestionsByParticipation, ListPublicAnswers, QuestionsOf

\* What the four queries find is what a contestant may read.
QueriesSound ==
    \A c : /\ \A i \in 1 .. 4 : commQuery(c, i) \subseteq VisibleTo(board, c)
           /\ \A n \in VisibleTo(board, c) : \E i \in 1 .. 4 : n \in commQuery(c, i)
           /\ VisibleTo(board, c) \subseteq board.notices

\* The queries list what is visible, and no more.
LEMMA QueriesVisible == QueriesSound
BY DEF QueriesSound, commQuery, VisibleTo, ListAnnouncements, ListMessagesByParticipation,
       ListQuestionsByParticipation, ListPublicAnswers, QuestionsOf

\* A write keeps the invariant.
LEMMA WriteStep ==
    ASSUME DeskInv, NEW d, NEW n, DeskWrite(d, n), Written(d, n), UNCHANGED <<phase, page, shown>>
    PROVE  DeskInv'
<1>1. board' = d /\ deskClock' = deskClock + n /\ page' = page /\ shown' = shown
  BY DEF Written
<1>2. \A c \in Contestants : passed'[c] =
         IF page[c].step = 0 THEN passed[c] ELSE passed[c] \cup (read(VisibleTo(board', c)) \ read(VisibleTo(board, c)))
  BY DEF Written
<1>3. passed' \in [Contestants -> SUBSET (Nat \X Nat)]
  <2>1. \A c \in Contestants : read(VisibleTo(board', c)) \subseteq Nat \X Nat
    BY <1>1 DEF DeskWrite, Notice, read, noticeTime, VisibleTo, ListAnnouncements, ListMessagesByParticipation,
                ListQuestionsByParticipation, ListPublicAnswers, QuestionsOf
  <2> QED
    BY <2>1 DEF Written, DeskInv, DeskShape
<1>4. DeskShape'
  <2>1. board' \in [notices : SUBSET Notice, seen : [Contestants -> Nat]]
    BY <1>1 DEF DeskWrite, DeskInv, DeskShape
  <2>2. IsFiniteSet(board'.notices) /\ deskClock' \in Nat
    BY <1>1 DEF DeskWrite, DeskInv, DeskShape
  <2> QED
    BY <1>1, <1>3, <2>1, <2>2 DEF DeskInv, DeskShape
<1>5. DeskTimes'
  <2>1. /\ \A x \in board'.notices : x.at <= deskClock' /\ x.reply <= deskClock'
        /\ \A x, y \in board'.notices : x.at = y.at => x = y
    BY <1>1 DEF DeskWrite
  <2>2. \A c \in Contestants : board'.seen[c] <= deskClock'
    BY <1>1 DEF DeskWrite, DeskInv, DeskShape, DeskTimes
  <2>3. ASSUME NEW c \in Contestants, NEW k \in shown'[c] \cup page'[c].got
        PROVE  k[1] <= deskClock' /\ k[2] <= deskClock'
    <3>1. k \in shown[c] \cup page[c].got /\ k \in Nat \X Nat
      BY <1>1 DEF DeskInv, DeskShape
    <3> QED
      BY <1>1, <3>1 DEF DeskWrite, DeskInv, DeskShape, DeskTimes
  <2> QED BY <2>1, <2>2, <2>3 DEF DeskTimes
\* What is fresh has a key no row had, and no page.
<1>6. ASSUME NEW c \in Contestants, NEW x \in board'.notices, Fresh(x)
      PROVE  /\ Key(x) \notin read(VisibleTo(board, c)) /\ Key(x) \notin shown[c] \cup page[c].got
             /\ x \in VisibleTo(board', c) => noticeTime(x) > deskClock
  <2>1. x.at > deskClock \/ noticeTime(x) > deskClock
    BY <1>6 DEF Fresh
  <2>2. \A m \in board.notices : m.at <= deskClock /\ noticeTime(m) <= deskClock
    BY DEF DeskInv, DeskTimes, noticeTime
  <2>3. x.at \in Nat /\ noticeTime(x) \in Nat
    BY <1>1 DEF DeskWrite, Notice, noticeTime
  <2>4. \A m \in board.notices : m.at \in Nat /\ noticeTime(m) \in Nat
    BY DEF DeskInv, DeskShape, Notice, noticeTime
  <2>5. Key(x) \notin read(VisibleTo(board, c))
    <3> SUFFICES ASSUME NEW m \in VisibleTo(board, c), Key(x) = <<m.at, noticeTime(m)>> PROVE FALSE
      BY DEF read
    <3>1. m \in board.notices /\ x.at = m.at /\ noticeTime(x) = noticeTime(m)
      BY QueriesVisible DEF Key, QueriesSound
    <3> QED BY <2>1, <2>2, <2>3, <2>4, <3>1 DEF DeskInv, DeskShape
  <2>6. Key(x) \notin shown[c] \cup page[c].got
    BY <2>1, <2>3 DEF Key, DeskInv, DeskTimes, DeskShape
  <2>7. x \in VisibleTo(board', c) => noticeTime(x) > deskClock
    BY <1>6 DEF Fresh, VisibleTo, ListAnnouncements, ListMessagesByParticipation,
           ListQuestionsByParticipation, ListPublicAnswers, QuestionsOf
  <2> QED BY <2>5, <2>6, <2>7
<1>7. \A x \in board'.notices : (\E m \in board.notices : Kept(x, m)) \/ Fresh(x)
  BY <1>1 DEF DeskWrite
<1>8. \A c \in Contestants : passed[c] \subseteq passed'[c]
  BY <1>2
<1>9. PagesRead'
  <2> SUFFICES ASSUME NEW c \in Contestants, NEW i \in 1 .. 4, i <= page'[c].step, NEW x \in commQuery(c, i)'
               PROVE  Key(x) \in page'[c].got \cup passed'[c]
    BY DEF PagesRead
  <2>1. x \in VisibleTo(board', c) /\ x \in board'.notices
    <3>1. QueriesSound'
      BY QueriesVisible, PTL
    <3> QED BY <3>1 DEF QueriesSound
  <2>2. CASE \E m \in board.notices : Kept(x, m)
    <3>1. PICK m \in board.notices : Kept(x, m)
      BY <2>2
    <3>2. m \in commQuery(c, i) /\ Key(x) = Key(m)
      BY <2>1, <3>1, KeptRead DEF commQuery, Kept
    <3> QED
      BY <1>1, <1>8, <3>2 DEF DeskInv, PagesRead
  <2>3. CASE Fresh(x)
    <3>1. Key(x) \in read(VisibleTo(board', c))
      BY <2>1 DEF read, Key
    <3>2. page[c].step # 0
      BY <1>1
    <3> QED BY <1>2, <1>6, <2>1, <2>3, <3>1, <3>2
  <2> QED BY <1>7, <2>1, <2>2, <2>3
<1>10. UnshownLater'
  <2> SUFFICES ASSUME NEW c \in Contestants, NEW x \in VisibleTo(board', c), Key(x) \notin shown'[c] \cup passed'[c]
               PROVE  noticeTime(x) > board'.seen[c]
    BY DEF UnshownLater, Key, noticeTime
  <2>1. x \in board'.notices
    BY DEF VisibleTo, ListAnnouncements, ListMessagesByParticipation,
           ListQuestionsByParticipation, ListPublicAnswers, QuestionsOf
  <2>2. CASE \E m \in board.notices : Kept(x, m)
    <3>1. PICK m \in board.notices : Kept(x, m)
      BY <2>2
    <3>2. m \in VisibleTo(board, c) /\ Key(x) = Key(m) /\ noticeTime(x) = noticeTime(m)
      BY <2>1, <3>1 DEF Kept, Key, noticeTime, VisibleTo, ListAnnouncements, ListMessagesByParticipation,
         ListQuestionsByParticipation, ListPublicAnswers, QuestionsOf
    <3>3. Key(m) \notin shown[c] \cup passed[c]
      BY <1>1, <1>8, <3>2
    <3>4. noticeTime(m) > board.seen[c]
      BY <3>2, <3>3 DEF DeskInv, UnshownLater
    <3>5. board'.seen = board.seen
      BY <1>1 DEF DeskWrite
    <3> QED BY <3>2, <3>4, <3>5
  <2>3. CASE Fresh(x)
    <3>1. noticeTime(x) > deskClock
      BY <1>6, <2>1, <2>3
    <3>2. board'.seen[c] <= deskClock /\ board'.seen[c] \in Nat
      BY <1>1 DEF DeskWrite, DeskInv, DeskShape, DeskTimes
    <3>3. noticeTime(x) \in Nat
      BY <1>1, <2>1 DEF DeskWrite, Notice, noticeTime
    <3> QED BY <3>1, <3>2, <3>3 DEF DeskInv, DeskShape
  <2> QED BY <1>7, <2>1, <2>2, <2>3
<1>11. PrivateKept'
  <2> SUFFICES ASSUME NEW c \in Contestants, NEW x \in board'.notices,
                      x.who \notin {c, Everyone}, ~(x.kind = "question" /\ x.public)
               PROVE  Key(x) \notin shown'[c] \cup page'[c].got
    BY DEF PrivateKept, Key, noticeTime
  <2>1. CASE \E m \in board.notices : Kept(x, m)
    <3>1. PICK m \in board.notices : Kept(x, m)
      BY <2>1
    <3>2. Key(m) \notin shown[c] \cup page[c].got
      BY <3>1 DEF Kept, Key, DeskInv, PrivateKept
    <3>3. Key(x) = Key(m)
      BY <3>1 DEF Kept, Key, noticeTime
    <3> QED BY <1>1, <3>2, <3>3
  <2>2. CASE Fresh(x)
    BY <1>1, <1>6, <2>2
  <2> QED BY <1>7, <2>1, <2>2
<1>12. Addressed'
  BY <1>1 DEF DeskWrite, Addressed
<1> QED
  BY <1>4, <1>5, <1>9, <1>10, <1>11, <1>12 DEF DeskInv

\* A query puts into the page what its contestant may read.
LEMMA PageStep ==
    ASSUME DeskInv, NEW c \in Contestants, commData(c)
    PROVE  DeskInv'
<1>1. PICK i \in 1 .. 4 : i = page[c].step + 1
  BY DEF commData, DeskInv, DeskShape
<1>2. PICK found : found = read(commQuery(c, i))
  OBVIOUS
<1>3. /\ page' = [page EXCEPT ![c] = [step |-> i, got |-> page[c].got \cup found]]
      /\ board' = board /\ deskClock' = deskClock /\ shown' = shown /\ passed' = passed
  BY <1>1, <1>2 DEF commData
<1>4. \A n \in commQuery(c, i) : n \in VisibleTo(board, c) /\ n \in board.notices
  BY QueriesVisible DEF QueriesSound
<1>5. \A n \in board.notices : Key(n) \in Nat \X Nat /\ Key(n)[1] <= deskClock /\ Key(n)[2] <= deskClock
  BY DEF Key, noticeTime, DeskInv, DeskShape, DeskTimes, Notice
<1>6. found = {Key(n) : n \in commQuery(c, i)}
  BY <1>2 DEF read, Key
<1>7. found \subseteq Nat \X Nat /\ \A k \in found : k[1] <= deskClock /\ k[2] <= deskClock
  BY <1>4, <1>5, <1>6
<1>8. DeskShape'
  <2>1. page' \in [Contestants -> [step : 0 .. 4, got : SUBSET (Nat \X Nat)]]
    BY <1>3, <1>7 DEF DeskInv, DeskShape
  <2> QED BY <1>3, <2>1 DEF DeskInv, DeskShape
<1>9. \A e \in Contestants : page'[e] = IF e = c THEN [step |-> i, got |-> page[c].got \cup found] ELSE page[e]
  BY <1>3 DEF DeskInv, DeskShape
<1>10. DeskTimes'
  BY <1>3, <1>7, <1>9 DEF DeskInv, DeskTimes
<1>11. PagesRead'
  <2> SUFFICES ASSUME NEW e \in Contestants, NEW j \in 1 .. 4, j <= page'[e].step, NEW n \in commQuery(e, j)
               PROVE  Key(n) \in page'[e].got \cup passed[e]
    BY <1>3 DEF PagesRead, commQuery, Key, noticeTime
  <2>1. CASE e = c /\ j = i
    <3>1. n \in commQuery(c, i)
      BY <2>1
    <3>2. Key(n) \in found
      BY <1>6, <3>1
    <3>3. page'[c] = [step |-> i, got |-> page[c].got \cup found]
      BY <1>9
    <3> QED BY <2>1, <3>2, <3>3
  <2>2. CASE e = c /\ j # i
    <3>1. j <= page[c].step
      BY <1>1, <1>9, <2>2 DEF DeskInv, DeskShape
    <3> QED BY <1>9, <2>2, <3>1 DEF DeskInv, PagesRead
  <2>3. CASE e # c
    BY <1>9, <2>3 DEF DeskInv, PagesRead
  <2> QED BY <2>1, <2>2, <2>3
<1>12. UnshownLater'
  BY <1>3 DEF DeskInv, UnshownLater, Key, noticeTime
<1>13. PrivateKept'
  <2> SUFFICES ASSUME NEW e \in Contestants, NEW n \in board.notices,
                      n.who \notin {e, Everyone}, ~(n.kind = "question" /\ n.public)
               PROVE  Key(n) \notin shown[e] \cup page'[e].got
    BY <1>3 DEF PrivateKept, Key, noticeTime
  <2>1. Key(n) \notin shown[e] \cup page[e].got
    BY DEF DeskInv, PrivateKept, Key
  <2>2. ASSUME e = c PROVE Key(n) \notin found
    <3> SUFFICES ASSUME NEW m \in commQuery(c, i), Key(m) = Key(n) PROVE FALSE
      BY <1>6
    <3>1. m = n
      BY <1>4 DEF Key, DeskInv, DeskTimes
    <3>2. n \in VisibleTo(board, c)
      BY <1>4, <3>1
    <3>3. n.kind = "announcement" => n.who = Everyone
      BY DEF DeskInv, Addressed
    <3> QED BY <2>2, <3>2, <3>3 DEF VisibleTo, ListAnnouncements, ListMessagesByParticipation,
         ListQuestionsByParticipation, ListPublicAnswers, QuestionsOf
  <2> QED BY <1>9, <2>1, <2>2
<1>14. Addressed'
  BY <1>3 DEF DeskInv, Addressed
<1> QED
  BY <1>8, <1>10, <1>11, <1>12, <1>13, <1>14 DEF DeskInv

\* The mark comes when the page has everything.
LEMMA SeenStep ==
    ASSUME DeskInv, NEW c \in Contestants, SetCommunicationSeen(c)
    PROVE  DeskInv'
<1>1. PICK seen : seen = [board.seen EXCEPT ![c] = now]
  OBVIOUS
<1>2. /\ board' = [notices |-> board.notices, seen |-> seen] /\ deskClock' = deskClock + 1
      /\ shown' = [shown EXCEPT ![c] = shown[c] \cup page[c].got]
      /\ page' = [page EXCEPT ![c] = NoPage] /\ passed' = passed /\ page[c].step = 4
  BY <1>1 DEF SetCommunicationSeen, DeskInv, DeskShape, now
<1>3. board'.notices = board.notices /\ board'.seen = seen
  BY <1>2
<1>4. \A e \in Contestants : /\ page'[e] = IF e = c THEN NoPage ELSE page[e]
                             /\ shown'[e] = IF e = c THEN shown[c] \cup page[c].got ELSE shown[e]
                             /\ seen[e] = IF e = c THEN deskClock + 1 ELSE board.seen[e]
  BY <1>1, <1>2 DEF DeskInv, DeskShape, now
<1>5. DeskShape'
  <2>1. page' \in [Contestants -> [step : 0 .. 4, got : SUBSET (Nat \X Nat)]]
    BY <1>2 DEF NoPage, DeskInv, DeskShape
  <2>2. seen \in [Contestants -> Nat]
    BY <1>1 DEF now, DeskInv, DeskShape
  <2>3. shown' \in [Contestants -> SUBSET (Nat \X Nat)]
    BY <1>2 DEF DeskInv, DeskShape
  <2> QED BY <1>2, <2>1, <2>2, <2>3 DEF DeskInv, DeskShape
<1>6. DeskTimes'
  <2>1. ASSUME NEW e \in Contestants, NEW k \in shown'[e] \cup page'[e].got
        PROVE  k[1] <= deskClock + 1 /\ k[2] <= deskClock + 1
    <3>1. k \in shown[e] \cup page[e].got /\ k \in Nat \X Nat
      BY <1>4, <2>1 DEF NoPage, DeskInv, DeskShape
    <3> QED BY <3>1 DEF DeskInv, DeskShape, DeskTimes
  <2>2. \A n \in board.notices : n.at <= deskClock + 1 /\ n.reply <= deskClock + 1
    BY DEF DeskInv, DeskShape, DeskTimes, Notice
  <2>3. \A e \in Contestants : seen[e] <= deskClock + 1
    BY <1>4 DEF DeskInv, DeskShape, DeskTimes
  <2> QED BY <1>2, <1>3, <2>1, <2>2, <2>3 DEF DeskInv, DeskTimes
<1>7. PagesRead'
  <2> SUFFICES ASSUME NEW e \in Contestants, NEW j \in 1 .. 4, j <= page'[e].step, NEW n \in commQuery(e, j)
               PROVE  Key(n) \in page'[e].got \cup passed[e]
    BY <1>2, <1>3 DEF PagesRead, commQuery, Key, noticeTime, ListAnnouncements, ListMessagesByParticipation,
         ListQuestionsByParticipation, ListPublicAnswers, QuestionsOf
  <2>1. e # c
    BY <1>4 DEF NoPage
  <2> QED BY <1>4, <2>1 DEF DeskInv, PagesRead
<1>8. UnshownLater'
  <2> SUFFICES ASSUME NEW e \in Contestants, NEW n \in VisibleTo(board, e), Key(n) \notin shown'[e] \cup passed[e]
               PROVE  noticeTime(n) > seen[e]
    BY <1>2, <1>3 DEF UnshownLater, Key, noticeTime, VisibleTo, ListAnnouncements, ListMessagesByParticipation,
         ListQuestionsByParticipation, ListPublicAnswers, QuestionsOf
  <2>1. CASE e = c
    <3>1. PICK i \in 1 .. 4 : n \in commQuery(c, i)
      BY <2>1, QueriesVisible DEF QueriesSound
    <3>2. Key(n) \in page[c].got \cup passed[c]
      BY <1>2, <3>1 DEF DeskInv, PagesRead
    <3> QED BY <1>4, <2>1, <3>2
  <2>2. CASE e # c
    BY <1>4, <2>2 DEF DeskInv, UnshownLater
  <2> QED BY <2>1, <2>2
<1>9. PrivateKept'
  <2> SUFFICES ASSUME NEW e \in Contestants, NEW n \in board.notices,
                      n.who \notin {e, Everyone}, ~(n.kind = "question" /\ n.public)
               PROVE  Key(n) \notin shown'[e] \cup page'[e].got
    BY <1>3 DEF PrivateKept, Key, noticeTime
  <2>1. Key(n) \notin shown[e] \cup page[e].got
    BY DEF DeskInv, PrivateKept, Key
  <2> QED BY <1>4, <2>1 DEF NoPage
<1>10. Addressed'
  BY <1>3 DEF DeskInv, Addressed
<1> QED
  BY <1>5, <1>6, <1>7, <1>8, <1>9, <1>10 DEF DeskInv

\* The tables are empty at first.
LEMMA DeskInitial == DeskInit => DeskInv
<1> SUFFICES ASSUME DeskInit PROVE DeskInv
  OBVIOUS
<1>1. IsFiniteSet({})
  BY FS_EmptySet
<1>2. DeskShape
  BY <1>1 DEF DeskInit, DeskShape, NoPage
<1>3. VisibleTo(board, 0) = {} /\ board.notices = {}
  BY DEF DeskInit, VisibleTo, ListAnnouncements, ListMessagesByParticipation,
         ListQuestionsByParticipation, ListPublicAnswers, QuestionsOf
<1>4. DeskTimes /\ Addressed /\ PrivateKept
  BY DEF DeskInit, DeskTimes, Addressed, PrivateKept, NoPage
<1>5. PagesRead
  BY DEF DeskInit, PagesRead, NoPage
<1>6. UnshownLater
  BY DEF DeskInit, UnshownLater, VisibleTo, ListAnnouncements, ListMessagesByParticipation,
         ListQuestionsByParticipation, ListPublicAnswers, QuestionsOf
<1> QED
  BY <1>2, <1>4, <1>5, <1>6 DEF DeskInv

\* Every step of the desk keeps the invariant.
LEMMA DeskStep == DeskInv /\ [DeskNext]_deskVars => DeskInv'
<1> SUFFICES ASSUME DeskInv, [DeskNext]_deskVars PROVE DeskInv'
  OBVIOUS
<1>0. deskClock \in Nat
  BY DEF DeskInv, DeskShape
<1>1. CASE UNCHANGED deskVars
  BY <1>1 DEF deskVars, DeskInv, DeskShape, DeskTimes, Addressed, PagesRead, UnshownLater, PrivateKept, Key, noticeTime,
     commQuery, VisibleTo, ListAnnouncements, ListMessagesByParticipation, ListQuestionsByParticipation,
     ListPublicAnswers, QuestionsOf
<1>2. ASSUME NEW c \in Contestants, handleAsk(c) PROVE DeskInv'
  <2>1. PICK d : d = CreateQuestion(c)
    OBVIOUS
  <2>2. PICK n : n = notice("question", c, now)
    OBVIOUS
  <2>3. n \in Notice /\ n.kind = "question" /\ n = notice(n.kind, n.who, now)
    BY <1>0, <2>2 DEF notice, Notice, now
  <2>4. d = [board EXCEPT !.notices = @ \cup {n}]
    BY <2>1, <2>2 DEF CreateQuestion
  <2>5. DeskWrite(d, 1)
    BY <2>3, <2>4, NewNotice
  <2> QED BY <1>2, <2>1, <2>5, WriteStep DEF handleAsk
<1>3. ASSUME NEW c \in Contestants, commData(c) PROVE DeskInv'
  BY <1>3, PageStep
<1>4. ASSUME NEW c \in Contestants, SetCommunicationSeen(c) PROVE DeskInv'
  BY <1>4, SeenStep
<1>5. ASSUME NEW to \in SUBSET Contestants, handleMessageCreate(to) PROVE DeskInv'
  <2>1. PICK S \in SUBSET to : Written(CreateMessage(SetToSeq(S)), Len(SetToSeq(S)))
    BY <1>5 DEF handleMessageCreate
  <2>2. PICK order : order = SetToSeq(S)
    OBVIOUS
  <2>3. PICK d : d = CreateMessage(order)
    OBVIOUS
  <2>4. DeskWrite(d, Len(order))
    BY <2>2, <2>3, NewMessages
  <2> QED BY <1>5, <2>1, <2>2, <2>3, <2>4, WriteStep DEF handleMessageCreate
<1>6. ASSUME NEW q \in QuestionsOf(board), NEW b \in BOOLEAN,
             handleQuestionReply(q, b) \/ handleQuestionIgnore(q, b)
      PROVE  DeskInv'
  <2>1. q \in board.notices /\ q.kind = "question" /\ q \in Notice
    BY DEF QuestionsOf, DeskInv, DeskShape
  <2>2. CASE handleQuestionReply(q, b)
    <3>1. PICK r : r = [q EXCEPT !.reply = now, !.public = b, !.ignored = FALSE]
      OBVIOUS
    <3>2. PICK t \in Nat : t = now
      BY <1>0 DEF now
    <3>3. PICK r1 : r1 = [q EXCEPT !.reply = t]
      OBVIOUS
    <3>4. PICK r2 : r2 = [r1 EXCEPT !.public = b]
      OBVIOUS
    <3>5. r1 \in Notice /\ r1.at = q.at /\ r1.kind = q.kind /\ r1.who = q.who /\ r1.reply = t
      BY <2>1, <3>3 DEF Notice
    <3>6. r2 \in Notice /\ r2.at = q.at /\ r2.kind = q.kind /\ r2.who = q.who /\ r2.reply = t
      BY <1>6, <3>4, <3>5 DEF Notice
    <3>7. r = [r2 EXCEPT !.ignored = FALSE]
      BY <2>1, <3>1, <3>2, <3>3, <3>4 DEF Notice
    <3>8. r \in Notice /\ r.at = q.at /\ r.kind = q.kind /\ r.who = q.who /\ r.reply = now
      BY <3>2, <3>6, <3>7 DEF Notice
    <3>9. PICK d : d = Reword(q, r)
      OBVIOUS
    <3>10. DeskWrite(d, 1)
      BY <2>1, <3>8, <3>9, RewordedNotice
    <3> QED BY <2>2, <3>1, <3>9, <3>10, WriteStep DEF handleQuestionReply, ReplyQuestion
  <2>3. CASE handleQuestionIgnore(q, b)
    <3>1. PICK r : r = [q EXCEPT !.ignored = b]
      OBVIOUS
    <3>2. r \in Notice /\ r.at = q.at /\ r.kind = q.kind /\ r.who = q.who /\ r.reply = q.reply /\ r.public = q.public
      BY <2>1, <3>1 DEF Notice
    <3>3. PICK d : d = Reword(q, r)
      OBVIOUS
    <3>4. DeskWrite(d, 1)
      BY <2>1, <3>2, <3>3, RewordedNotice
    <3> QED BY <2>3, <3>1, <3>3, <3>4, WriteStep DEF handleQuestionIgnore, SetQuestionIgnored
  <2> QED BY <1>6, <2>2, <2>3
<1>7. ASSUME NEW q \in QuestionsOf(board), NEW who \in {{}} \cup {{a} : a \in Answerers},
             handleQuestionAssign(q, who)
      PROVE  DeskInv'
  <2>1. q \in board.notices /\ q.kind = "question" /\ q \in Notice
    BY DEF QuestionsOf, DeskInv, DeskShape
  <2>2. PICK r : r = [q EXCEPT !.taken = who]
    OBVIOUS
  <2>3. r \in Notice /\ r.at = q.at /\ r.kind = q.kind /\ r.who = q.who /\ r.reply = q.reply /\ r.public = q.public
    <3>1. who \in SUBSET Answerers
      BY <1>7
    <3> QED BY <2>1, <2>2, <3>1 DEF Notice
  <2>4. PICK d : d = Reword(q, r)
    OBVIOUS
  <2>5. DeskWrite(d, 1)
    BY <2>1, <2>3, <2>4, RewordedNotice
  <2> QED BY <1>7, <2>2, <2>4, <2>5, WriteStep DEF handleQuestionAssign, AssignQuestion
<1>8. ASSUME handleAnnouncementCreate PROVE DeskInv'
  <2>1. PICK d : d = CreateAnnouncement
    OBVIOUS
  <2>2. PICK n : n = notice("announcement", Everyone, now)
    OBVIOUS
  <2>3. n \in Notice /\ n.kind = "announcement" /\ n.who = Everyone /\ n = notice(n.kind, n.who, now)
    BY <1>0, <2>2 DEF notice, Notice, now
  <2>4. d = [board EXCEPT !.notices = @ \cup {n}]
    BY <2>1, <2>2 DEF CreateAnnouncement
  <2>5. DeskWrite(d, 1)
    BY <2>3, <2>4, NewNotice
  <2> QED BY <1>8, <2>1, <2>5, WriteStep DEF handleAnnouncementCreate
<1>9. ASSUME NEW a \in ListAnnouncements(board), handleAnnouncementDelete(a) PROVE DeskInv'
  <2>1. PICK d : d = DeleteAnnouncement(a)
    OBVIOUS
  <2>2. d.notices = board.notices \ {a} /\ d.seen = board.seen /\ d = [notices |-> d.notices, seen |-> d.seen]
    BY <2>1 DEF DeleteAnnouncement, DeskInv, DeskShape
  <2>3. IsFiniteSet(d.notices)
    <3>1. IsFiniteSet(board.notices)
      BY DEF DeskInv, DeskShape
    <3> QED BY <2>2, <3>1, FS_RemoveElement, Zenon
  <2>4. \A x \in d.notices : x.at <= deskClock + 1 /\ x.reply <= deskClock + 1
    BY <2>2 DEF DeskInv, DeskShape, DeskTimes, Notice
  <2>5. DeskWrite(d, 1)
    BY <2>2, <2>3, <2>4 DEF DeskWrite, Kept, DeskInv, DeskShape, DeskTimes, Addressed
  <2> QED BY <1>9, <2>1, <2>5, WriteStep DEF handleAnnouncementDelete
<1>10. CASE PhaseEnds
  BY <1>10 DEF PhaseEnds, DeskInv, DeskShape, DeskTimes, Addressed, PagesRead, UnshownLater, PrivateKept, Key, noticeTime,
     commQuery, VisibleTo, ListAnnouncements, ListMessagesByParticipation, ListQuestionsByParticipation,
     ListPublicAnswers, QuestionsOf
<1> QED
  BY <1>1, <1>2, <1>3, <1>4, <1>5, <1>6, <1>7, <1>8, <1>9, <1>10, DeskAssumption DEF DeskNext

\* The notices a contestant may read are finitely many, so those that were
\* not shown are no more than those counted.
LEMMA DeskInvSound == DeskInv => DeskSound
<1> SUFFICES ASSUME DeskInv PROVE DeskSound
  OBVIOUS
<1>1. ASSUME NEW c \in Contestants,
             NEW missing, missing = {n \in VisibleTo(board, c) : <<n.at, noticeTime(n)>> \notin shown[c] \cup passed[c]}
      PROVE  /\ \A n \in missing : noticeTime(n) > board.seen[c]
             /\ CountUnreadCommunication(board, c) >= Cardinality(missing)
  <2>1. \A n \in missing : noticeTime(n) > board.seen[c]
    BY <1>1 DEF DeskInv, UnshownLater, Key
  <2>2. PICK unread1 : unread1 = {n \in VisibleTo(board, c) : noticeTime(n) > board.seen[c]}
    OBVIOUS
  <2>3. unread1 \subseteq board.notices /\ missing \subseteq unread1
    BY <1>1, <2>1, <2>2, QueriesVisible DEF QueriesSound
  <2>4. IsFiniteSet(unread1)
    BY <2>3, FS_Subset DEF DeskInv, DeskShape
  <2>5. Cardinality(missing) <= Cardinality(unread1) /\ IsFiniteSet(missing)
    BY <2>3, <2>4, FS_Subset
  <2>6. Cardinality(missing) \in Nat /\ Cardinality(unread1) \in Nat
    BY <2>4, <2>5, FS_CardinalityType
  <2>7. CountUnreadCommunication(board, c) = Cardinality(unread1)
    BY <2>2 DEF CountUnreadCommunication
  <2> QED BY <2>1, <2>5, <2>6, <2>7
<1>2. UnreadCounted
  BY <1>1, Zenon DEF UnreadCounted
<1> QED
  BY <1>2 DEF DeskInv, DeskSound

(***************************************************************************)
(* The floor.  No two solves have the same time, so the first of some      *)
(* solves is one of them; and a balloon counts as delivered exactly while  *)
(* someone is known to have carried it.                                    *)
(***************************************************************************)
Balloon == Colors \X SUBSET Solvers
Appeal == [who : Appellants, n : Nat, status : {"open", "accepted", "rejected"}]

\* The tables of the balloons and the pages of the runners.
BalloonShape ==
    /\ solves \in SUBSET [who : Solvers, task : Colors, at : Nat] /\ IsFiniteSet(solves)
    /\ inTeam \in SUBSET Solvers /\ deliveries \in SUBSET Balloon
    /\ lists \in [Runners -> SUBSET Balloon] /\ handed \in SUBSET (Runners \X Balloon)
    /\ floorClock \in Nat

\* The solves come one after the other.
SolvesApart ==
    /\ \A s \in solves : s.at <= floorClock
    /\ \A s, o \in solves : s.at = o.at => s = o

\* What is delivered was carried.
Carried ==
    /\ \A r \in Runners, b \in Balloon : <<r, b>> \in handed => b \in deliveries
    /\ \A b \in deliveries : \E r \in Runners : <<r, b>> \in handed

\* The appeals.
AppealShape ==
    /\ appeals \in SUBSET Appeal /\ IsFiniteSet(appeals)
    /\ appealing \in [Appellants -> Nat] /\ floorPhase \in {"running", "over", "closed"}

\* The inductive invariant of the floor.
FloorInv == BalloonShape /\ SolvesApart /\ Carried /\ AppealShape /\ AppealsBounded

\* Some solves have a first one.
LEMMA FirstSolve ==
    ASSUME FloorInv, NEW S \in SUBSET solves, S # {}
    PROVE  \E s \in S : \A o \in S : s.at <= o.at
<1> DEFINE B == {s.at : s \in S}
<1>1. B \in SUBSET Nat /\ B # {}
  BY DEF FloorInv, BalloonShape
<1>2. PICK n \in B : \A m \in B : n <= m
  <2> HIDE DEF B
  <2> QED BY <1>1, Least, Zenon
<1>3. PICK s \in S : s.at = n
  BY <1>2
<1> QED
  BY <1>2, <1>3

\* The balloon of a solve that comes first for its recipient.
BalloonOf(s) ==
    [task |-> s.task, to |-> recipient(s.who), solver |-> s.who,
     first |-> \A o \in solves : o.task = s.task => s.at <= o.at,
     done |-> <<s.task, recipient(s.who)>> \in deliveries]

\* The balloons are right, as the tables are.
LEMMA BalloonsAre ==
    ASSUME FloorInv
    PROVE  /\ \A b \in balloons : \E s \in ListContestSolves : b = BalloonOf(s)
           /\ \A s \in ListContestSolves : BalloonOf(s) \in balloons /\ s \in solves
BY Zenon DEF balloons, BalloonOf, ListContestSolves

\* The invariant implies what is checked of balloons.
LEMMA BalloonsSound ==
    ASSUME FloorInv
    PROVE  BalloonsRight
<1>1. ASSUME NEW s \in solves
      PROVE  \E o \in ListContestSolves : SameBalloon(s, o)
  <2> DEFINE S == {o \in solves : SameBalloon(s, o)}
  <2>1. S \in SUBSET solves /\ S # {}
    BY DEF SameBalloon
  <2>2. PICK f \in S : \A o \in S : f.at <= o.at
    <3> HIDE DEF S
    <3> QED BY <2>1, FirstSolve
  <2>3. f \in ListContestSolves /\ SameBalloon(s, f)
    BY <2>2 DEF ListContestSolves, SameBalloon
  <2> QED BY <2>3
<1>2. ASSUME NEW s \in ListContestSolves, NEW o \in ListContestSolves, SameBalloon(s, o)
      PROVE  s = o
  <2>1. s \in solves /\ o \in solves /\ SameBalloon(o, s)
    BY <1>2 DEF ListContestSolves, SameBalloon
  <2>2. s.at <= o.at /\ o.at <= s.at /\ s.at \in Nat /\ o.at \in Nat
    BY <1>2, <2>1 DEF ListContestSolves, FloorInv, BalloonShape
  <2>3. s.at = o.at
    BY <2>2
  <2> QED BY <2>1, <2>3 DEF FloorInv, SolvesApart
<1>3. ASSUME NEW s \in solves
      PROVE  Cardinality({b \in balloons : b.task = s.task /\ b.to = recipient(s.who)}) = 1
  <2>1. PICK o \in ListContestSolves : SameBalloon(s, o)
    BY <1>1
  <2>2. PICK b : b = BalloonOf(o)
    OBVIOUS
  <2>3. b \in balloons /\ b.task = s.task /\ b.to = recipient(s.who)
    BY <2>1, <2>2, BalloonsAre DEF BalloonOf, SameBalloon
  <2>4. ASSUME NEW c \in balloons, c.task = s.task, c.to = recipient(s.who)
        PROVE  c = b
    <3>1. PICK p \in ListContestSolves : c = BalloonOf(p)
      BY BalloonsAre
    <3>2. p.task = s.task /\ recipient(p.who) = recipient(s.who)
      BY <2>4, <3>1 DEF BalloonOf
    <3>3. SameBalloon(o, p)
      BY <2>1, <3>2 DEF SameBalloon
    <3> QED BY <1>2, <2>2, <3>1, <3>3
  <2>5. {c \in balloons : c.task = s.task /\ c.to = recipient(s.who)} = {b}
    BY <2>3, <2>4
  <2> QED BY <2>5, FS_Singleton
<1>4. ASSUME NEW t \in Colors, NEW s \in solves, s.task = t
      PROVE  \E b \in balloons : b.task = t /\ b.first
  <2> DEFINE S == {o \in solves : o.task = t}
  <2>1. S \in SUBSET solves /\ S # {}
    BY <1>4
  <2>2. PICK f \in S : \A o \in S : f.at <= o.at
    <3> HIDE DEF S
    <3> QED BY <2>1, FirstSolve
  <2>3. f \in ListContestSolves
    BY <2>2 DEF ListContestSolves, SameBalloon
  <2>4. \A o \in solves : o.task = f.task => f.at <= o.at
    BY <2>2
  <2>5. BalloonOf(f) \in balloons
    BY <2>3, BalloonsAre
  <2>6. BalloonOf(f).task = t /\ BalloonOf(f).first
    BY <2>2, <2>4 DEF BalloonOf
  <2> QED BY <2>5, <2>6
<1>5. ASSUME NEW b \in balloons, NEW c \in balloons, b.first, c.first, b.task = c.task
      PROVE  b = c
  <2>1. PICK s \in ListContestSolves : b = BalloonOf(s)
    BY BalloonsAre
  <2>2. PICK o \in ListContestSolves : c = BalloonOf(o)
    BY BalloonsAre
  <2>3. s \in solves /\ o \in solves
    BY BalloonsAre
  <2>4. s.task = o.task
    BY <1>5, <2>1, <2>2 DEF BalloonOf
  <2>5. s.at <= o.at
    BY <1>5, <2>1, <2>3, <2>4 DEF BalloonOf
  <2>6. o.at <= s.at
    BY <1>5, <2>2, <2>3, <2>4 DEF BalloonOf
  <2>7. s = o
    BY <2>3, <2>5, <2>6 DEF FloorInv, BalloonShape, SolvesApart
  <2> QED BY <2>1, <2>2, <2>7
<1>6. ASSUME NEW b \in balloons
      PROVE  b.done = (\E r \in Runners : <<r, <<b.task, b.to>>>> \in handed)
  <2>1. PICK s \in ListContestSolves : b = BalloonOf(s)
    BY BalloonsAre
  <2>2. s \in solves
    BY BalloonsAre
  <2>3. PICK k \in Balloon : k = <<s.task, recipient(s.who)>>
    <3>1. s.task \in Colors /\ s.who \in Solvers
      BY <2>2 DEF FloorInv, BalloonShape
    <3>2. recipient(s.who) \in SUBSET Solvers
      BY <3>1 DEF recipient
    <3> QED BY <3>1, <3>2 DEF Balloon
  <2>4. b.done = (k \in deliveries) /\ <<b.task, b.to>> = k
    BY <2>1, <2>3 DEF BalloonOf
  <2>5. k \in deliveries <=> \E r \in Runners : <<r, k>> \in handed
    BY DEF FloorInv, Carried
  <2>6. b.done \in BOOLEAN
    BY <2>4
  <2>7. b.done <=> \E r \in Runners : <<r, <<b.task, b.to>>>> \in handed
    BY <2>4, <2>5
  <2> QED BY <2>6, <2>7
<1>7. ASSUME NEW r \in Runners, NEW b \in handed, b[1] = r
      PROVE  b[2] \in deliveries
  <2>1. b \in Runners \X Balloon
    BY DEF FloorInv, BalloonShape
  <2> QED BY <2>1 DEF FloorInv, Carried
<1> QED
  BY <1>3, <1>4, <1>5, <1>6, <1>7, Zenon DEF BalloonsRight

\* The appeals of one contestant, counted.
LEMMA AppealsCounted ==
    ASSUME AppealShape, NEW p
    PROVE  IsFiniteSet({a \in appeals : a.who = p}) /\ CountAppealsByParticipation(p) \in Nat
<1>1. IsFiniteSet({a \in appeals : a.who = p})
  BY FS_Subset DEF AppealShape
<1> QED
  BY <1>1, FS_CardinalityType DEF CountAppealsByParticipation

\* The balloons are not touched by the appeals, nor the appeals by the
\* balloons.
LEMMA BalloonsAlone ==
    ASSUME FloorInv, UNCHANGED balloonVars, AppealShape', AppealsBounded'
    PROVE  FloorInv'
BY DEF balloonVars, FloorInv, BalloonShape, SolvesApart, Carried

\* A step of the balloons leaves the appeals.
LEMMA AppealsAlone ==
    ASSUME FloorInv, UNCHANGED appealVars, BalloonShape', SolvesApart', Carried'
    PROVE  FloorInv'
BY DEF appealVars, FloorInv, AppealShape, AppealsBounded, CountAppealsByParticipation

\* The list is made of balloons.
LEMMA ListedBalloons == ASSUME FloorInv PROVE undelivered \in SUBSET Balloon
<1> SUFFICES ASSUME NEW b \in balloons PROVE <<b.task, b.to>> \in Balloon
  BY DEF undelivered
<1>1. PICK s \in ListContestSolves : b = BalloonOf(s)
  BY BalloonsAre
<1>2. s \in solves
  BY BalloonsAre
<1> QED
  BY <1>1, <1>2 DEF BalloonOf, Balloon, recipient, FloorInv, BalloonShape

\* A contestant's appeal, past its check.
LEMMA AppealChecked ==
    ASSUME FloorInv, NEW p \in Appellants, handleAppeal(p)
    PROVE  FloorInv'
<1>1. /\ appealing' = [appealing EXCEPT ![p] = @ + 1] /\ appeals' = appeals /\ floorPhase' = floorPhase
      /\ UNCHANGED balloonVars /\ floorPhase = "over"
      /\ appealing[p] < MaxTabs /\ CountAppealsByParticipation(p) < MaxAppeals
  BY DEF handleAppeal, appealsOpen
<1>2. AppealShape'
  BY <1>1 DEF FloorInv, AppealShape
<1>3. ASSUME NEW q \in Appellants
      PROVE  /\ CountAppealsByParticipation(q)' + appealing'[q] <= MaxAppeals + MaxTabs - 1
             /\ floorPhase' = "running" => CountAppealsByParticipation(q)' + appealing'[q] = 0
  <2>1. CountAppealsByParticipation(q)' = CountAppealsByParticipation(q)
    BY <1>1 DEF CountAppealsByParticipation
  <2>2. CountAppealsByParticipation(q) \in Nat
    BY AppealsCounted DEF FloorInv
  <2>3. appealing'[q] = IF q = p THEN appealing[p] + 1 ELSE appealing[q]
    BY <1>1 DEF FloorInv, AppealShape
  <2>4. appealing[q] \in Nat /\ appealing[p] \in Nat
    BY DEF FloorInv, AppealShape
  <2>5. CountAppealsByParticipation(q) + appealing[q] <= MaxAppeals + MaxTabs - 1
    BY DEF FloorInv, AppealsBounded
  <2> QED BY <1>1, <2>1, <2>2, <2>3, <2>4, <2>5, FloorAssumption
<1>4. AppealsBounded'
  BY <1>3 DEF AppealsBounded
<1> QED
  BY <1>1, <1>2, <1>4, BalloonsAlone

\* The row of an appeal, written.
LEMMA AppealCreated ==
    ASSUME FloorInv, NEW p \in Appellants, CreateAppeal(p)
    PROVE  FloorInv'
<1>1. PICK a : a = [who |-> p, n |-> CountAppealsByParticipation(p), status |-> "open"]
  OBVIOUS
<1>2. /\ appealing' = [appealing EXCEPT ![p] = @ - 1] /\ appeals' = appeals \cup {a} /\ floorPhase' = floorPhase
      /\ UNCHANGED balloonVars /\ appealing[p] > 0
  BY <1>1 DEF CreateAppeal
<1>3. \A q \in Appellants : CountAppealsByParticipation(q) \in Nat
  BY AppealsCounted DEF FloorInv
<1>4. a \in Appeal /\ a.who = p
  BY <1>1, <1>3 DEF Appeal
<1>5. IsFiniteSet(appeals')
  BY <1>2, FS_AddElement DEF FloorInv, AppealShape
<1>6. AppealShape'
  BY <1>2, <1>4, <1>5 DEF FloorInv, AppealShape
<1>7. ASSUME NEW q \in Appellants
      PROVE  /\ CountAppealsByParticipation(q)' + appealing'[q] <= MaxAppeals + MaxTabs - 1
             /\ floorPhase' = "running" => CountAppealsByParticipation(q)' + appealing'[q] = 0
  <2> DEFINE mine == {x \in appeals : x.who = q}
  <2>1. IsFiniteSet(mine)
    BY AppealsCounted DEF FloorInv
  <2>2. CountAppealsByParticipation(q) = Cardinality(mine)
    BY DEF CountAppealsByParticipation
  <2>3. CountAppealsByParticipation(q)' = Cardinality({x \in appeals' : x.who = q})
    BY DEF CountAppealsByParticipation
  <2>4. {x \in appeals' : x.who = q} = IF q = p THEN mine \cup {a} ELSE mine
    BY <1>2, <1>4
  <2> HIDE DEF mine
  <2>5. /\ IsFiniteSet(mine \cup {a})
        /\ Cardinality(mine \cup {a}) = IF a \in mine THEN Cardinality(mine) ELSE Cardinality(mine) + 1
    BY <2>1, FS_AddElement, Zenon
  <2>6. Cardinality(mine) \in Nat /\ Cardinality(mine \cup {a}) \in Nat
    BY <2>1, <2>5, FS_CardinalityType, Zenon
  <2>7. CountAppealsByParticipation(q)' \in Nat
    BY <2>3, <2>4, <2>6, Zenon
  <2>8. CountAppealsByParticipation(q)' <= CountAppealsByParticipation(q) + (IF q = p THEN 1 ELSE 0)
    <3>1. CASE q = p
      <4>1. CountAppealsByParticipation(q)' = Cardinality(mine \cup {a})
        BY <2>3, <2>4, <3>1, Zenon
      <4>2. Cardinality(mine \cup {a}) <= Cardinality(mine) + 1
        BY <2>5, <2>6
      <4> QED BY <2>2, <3>1, <4>1, <4>2
    <3>2. CASE q # p
      BY <2>2, <2>3, <2>4, <2>6, <3>2
    <3> QED BY <3>1, <3>2
  <2>9. appealing'[q] = IF q = p THEN appealing[p] - 1 ELSE appealing[q]
    BY <1>2 DEF FloorInv, AppealShape
  <2>10. appealing[q] \in Nat /\ appealing[p] \in Nat
    BY DEF FloorInv, AppealShape
  <2>11. CountAppealsByParticipation(q) + appealing[q] <= MaxAppeals + MaxTabs - 1
    BY DEF FloorInv, AppealsBounded
  <2>12. floorPhase # "running"
    <3>1. CountAppealsByParticipation(p) + appealing[p] # 0
      BY <1>2, <1>3, <2>10
    <3> QED BY <3>1 DEF FloorInv, AppealsBounded
  <2> QED BY <1>2, <1>3, <2>7, <2>8, <2>9, <2>10, <2>11, <2>12, FloorAssumption
<1>8. AppealsBounded'
  BY <1>7 DEF AppealsBounded
<1> QED
  BY <1>2, <1>6, <1>8, BalloonsAlone

\* An answer changes the row, not how many there are.
LEMMA AppealAnswered ==
    ASSUME FloorInv, NEW a \in appeals, NEW status \in {"open", "accepted", "rejected"},
           handleAppealAnswer(a, status)
    PROVE  FloorInv'
<1>1. PICK b : b = [a EXCEPT !.status = status]
  OBVIOUS
<1>2. /\ appeals' = (appeals \ {a}) \cup {b} /\ appealing' = appealing /\ floorPhase' = floorPhase
      /\ UNCHANGED balloonVars
  BY <1>1 DEF handleAppealAnswer, AnswerAppeal
<1>3. a \in Appeal /\ b \in Appeal /\ b.who = a.who
  BY <1>1 DEF FloorInv, AppealShape, Appeal
<1>4. IsFiniteSet(appeals \ {a})
  BY FS_RemoveElement DEF FloorInv, AppealShape
<1>5. IsFiniteSet(appeals')
  BY <1>2, <1>4, FS_AddElement
<1>6. AppealShape'
  BY <1>2, <1>3, <1>5 DEF FloorInv, AppealShape
<1>7. ASSUME NEW q \in Appellants
      PROVE  /\ CountAppealsByParticipation(q)' <= CountAppealsByParticipation(q)
             /\ CountAppealsByParticipation(q)' \in Nat
             /\ CountAppealsByParticipation(q) \in Nat
  <2> DEFINE mine == {x \in appeals : x.who = q}
  <2>1. IsFiniteSet(mine) /\ Cardinality(mine) \in Nat
    BY AppealsCounted, FS_CardinalityType DEF FloorInv
  <2>2. CountAppealsByParticipation(q) = Cardinality(mine)
    BY DEF CountAppealsByParticipation
  <2>3. CountAppealsByParticipation(q)' = Cardinality({x \in appeals' : x.who = q})
    BY DEF CountAppealsByParticipation
  <2>4. {x \in appeals' : x.who = q} = IF q = a.who THEN (mine \ {a}) \cup {b} ELSE mine
    BY <1>2, <1>3
  <2>5. q = a.who => a \in mine
    OBVIOUS
  <2> HIDE DEF mine
  <2>6. IsFiniteSet(mine \ {a}) /\ (q = a.who => Cardinality(mine \ {a}) = Cardinality(mine) - 1)
    BY <2>1, <2>5, FS_RemoveElement
  <2>7. /\ Cardinality((mine \ {a}) \cup {b}) \in Nat
        /\ Cardinality((mine \ {a}) \cup {b}) <= Cardinality(mine \ {a}) + 1
    <3>1. Cardinality(mine \ {a}) \in Nat
      BY <2>6, FS_CardinalityType
    <3> QED BY <2>6, <3>1, FS_AddElement, FS_CardinalityType
  <2>8. CASE q = a.who
    <3>1. CountAppealsByParticipation(q)' = Cardinality((mine \ {a}) \cup {b})
      BY <2>3, <2>4, <2>8, Zenon
    <3>2. Cardinality(mine \ {a}) = Cardinality(mine) - 1
      BY <2>6, <2>8, Zenon
    <3> QED BY <2>1, <2>2, <2>7, <3>1, <3>2
  <2>9. CASE q # a.who
    BY <2>1, <2>2, <2>3, <2>4, <2>9
  <2> QED BY <2>8, <2>9
<1>8. ASSUME NEW q \in Appellants
      PROVE  /\ CountAppealsByParticipation(q)' + appealing'[q] <= MaxAppeals + MaxTabs - 1
             /\ floorPhase' = "running" => CountAppealsByParticipation(q)' + appealing'[q] = 0
  <2>1. appealing[q] \in Nat
    BY DEF FloorInv, AppealShape
  <2>2. /\ CountAppealsByParticipation(q) + appealing[q] <= MaxAppeals + MaxTabs - 1
        /\ floorPhase = "running" => CountAppealsByParticipation(q) + appealing[q] = 0
    BY DEF FloorInv, AppealsBounded
  <2> QED BY <1>2, <1>7, <2>1, <2>2, FloorAssumption
<1>9. AppealsBounded'
  BY <1>8 DEF AppealsBounded
<1> QED
  BY <1>2, <1>6, <1>9, BalloonsAlone

\* A delivery, and a delivery taken back.
LEMMA BalloonCarried ==
    ASSUME FloorInv, NEW r \in Runners, NEW b \in lists[r] \cup deliveries,
           handleBalloonDeliver(r, b) \/ UndeliverBalloon(r, b)
    PROVE  FloorInv'
<1>1. b \in Balloon
  BY DEF FloorInv, BalloonShape
<1>2. CASE handleBalloonDeliver(r, b)
  <2>1. PICK list \in SUBSET Balloon : list = undelivered \ {b}
    BY ListedBalloons
  <2>2. /\ deliveries' = deliveries \cup {b} /\ handed' = handed \cup {<<r, b>>}
        /\ lists' = [lists EXCEPT ![r] = list] /\ solves' = solves /\ inTeam' = inTeam
        /\ floorClock' = floorClock /\ UNCHANGED appealVars
    BY <1>2, <2>1 DEF handleBalloonDeliver, DeliverBalloon
  <2>3. BalloonShape'
    BY <1>1, <2>2 DEF FloorInv, BalloonShape
  <2>4. SolvesApart'
    BY <2>2 DEF FloorInv, SolvesApart
  <2>5. Carried'
    BY <1>1, <2>2 DEF FloorInv, Carried
  <2> QED BY <2>2, <2>3, <2>4, <2>5, AppealsAlone
<1>3. CASE UndeliverBalloon(r, b)
  <2>1. /\ deliveries' = deliveries \ {b} /\ handed' = {h \in handed : h[2] # b}
        /\ lists' = lists /\ solves' = solves /\ inTeam' = inTeam
        /\ floorClock' = floorClock /\ UNCHANGED appealVars
    BY <1>3 DEF UndeliverBalloon
  <2>2. BalloonShape'
    BY <2>1 DEF FloorInv, BalloonShape
  <2>3. SolvesApart'
    BY <2>1 DEF FloorInv, SolvesApart
  <2>4. Carried'
    BY <2>1 DEF FloorInv, Carried, BalloonShape
  <2> QED BY <2>1, <2>2, <2>3, <2>4, AppealsAlone
<1> QED
  BY <1>2, <1>3

\* Nothing is solved at first.
LEMMA FloorInitial == FloorInit => FloorInv
<1> SUFFICES ASSUME FloorInit PROVE FloorInv
  OBVIOUS
<1>1. BalloonShape /\ SolvesApart /\ Carried
  BY FS_EmptySet DEF FloorInit, BalloonShape, SolvesApart, Carried
<1>2. AppealShape
  BY FS_EmptySet DEF FloorInit, AppealShape
<1>3. ASSUME NEW p \in Appellants
      PROVE  /\ CountAppealsByParticipation(p) + appealing[p] <= MaxAppeals + MaxTabs - 1
             /\ floorPhase = "running" => CountAppealsByParticipation(p) + appealing[p] = 0
  <2>1. {a \in appeals : a.who = p} = {}
    BY DEF FloorInit
  <2>2. CountAppealsByParticipation(p) = 0 /\ appealing[p] = 0
    BY <2>1, FS_EmptySet DEF FloorInit, CountAppealsByParticipation
  <2> QED BY <2>2, FloorAssumption
<1>4. AppealsBounded
  BY <1>3 DEF AppealsBounded
<1> QED
  BY <1>1, <1>2, <1>4 DEF FloorInv

\* Every step of the floor keeps the invariant.
LEMMA FloorStep == FloorInv /\ [FloorNext]_floorVars => FloorInv'
<1> SUFFICES ASSUME FloorInv, [FloorNext]_floorVars PROVE FloorInv'
  OBVIOUS
<1>1. CASE UNCHANGED floorVars
  BY <1>1 DEF floorVars, FloorInv, BalloonShape, SolvesApart, Carried, AppealShape, AppealsBounded,
              CountAppealsByParticipation
<1>2. ASSUME NEW p \in Solvers, JoinTeam(p) PROVE FloorInv'
  <2>1. BalloonShape' /\ SolvesApart' /\ Carried' /\ UNCHANGED appealVars
    BY <1>2 DEF JoinTeam, FloorInv, BalloonShape, SolvesApart, Carried
  <2> QED BY <2>1, AppealsAlone
<1>3. ASSUME NEW p \in Solvers, NEW t \in Colors, Solve(p, t) PROVE FloorInv'
  <2>1. PICK s : s = [who |-> p, task |-> t, at |-> floorClock + 1]
    OBVIOUS
  <2>2. /\ solves' = solves \cup {s} /\ floorClock' = floorClock + 1 /\ inTeam' = inTeam
        /\ deliveries' = deliveries /\ lists' = lists /\ handed' = handed /\ UNCHANGED appealVars
    BY <1>3, <2>1 DEF Solve
  <2>3. s \in [who : Solvers, task : Colors, at : Nat] /\ s.at = floorClock + 1
    BY <2>1 DEF FloorInv, BalloonShape
  <2>4. IsFiniteSet(solves')
    BY <2>2, FS_AddElement DEF FloorInv, BalloonShape
  <2>5. BalloonShape'
    BY <2>2, <2>3, <2>4 DEF FloorInv, BalloonShape
  <2>6. SolvesApart'
    BY <2>2, <2>3 DEF FloorInv, BalloonShape, SolvesApart
  <2>7. Carried'
    BY <2>2 DEF FloorInv, Carried
  <2> QED BY <2>2, <2>5, <2>6, <2>7, AppealsAlone
<1>4. ASSUME NEW p \in Appellants, handleAppeal(p) \/ CreateAppeal(p) PROVE FloorInv'
  BY <1>4, AppealChecked, AppealCreated
<1>5. ASSUME NEW s \in solves, Unsolve(s) PROVE FloorInv'
  <2>1. /\ solves' = solves \ {s} /\ floorClock' = floorClock /\ inTeam' = inTeam
        /\ deliveries' = deliveries /\ lists' = lists /\ handed' = handed /\ UNCHANGED appealVars
    BY <1>5 DEF Unsolve
  <2>2. IsFiniteSet(solves')
    BY <2>1, FS_RemoveElement DEF FloorInv, BalloonShape
  <2>3. BalloonShape' /\ SolvesApart' /\ Carried'
    BY <2>1, <2>2 DEF FloorInv, BalloonShape, SolvesApart, Carried
  <2> QED BY <2>1, <2>3, AppealsAlone
<1>6. ASSUME NEW r \in Runners, handleBalloons(r) PROVE FloorInv'
  <2>1. PICK list \in SUBSET Balloon : list = undelivered
    BY ListedBalloons
  <2>2. /\ lists' = [lists EXCEPT ![r] = list] /\ solves' = solves /\ inTeam' = inTeam
        /\ deliveries' = deliveries /\ handed' = handed /\ floorClock' = floorClock /\ UNCHANGED appealVars
    BY <1>6, <2>1 DEF handleBalloons
  <2>3. BalloonShape' /\ SolvesApart' /\ Carried'
    BY <2>2 DEF FloorInv, BalloonShape, SolvesApart, Carried
  <2> QED BY <2>2, <2>3, AppealsAlone
<1>7. ASSUME NEW r \in Runners, NEW b \in lists[r] \cup deliveries,
             handleBalloonDeliver(r, b) \/ UndeliverBalloon(r, b)
      PROVE  FloorInv'
  BY <1>7, BalloonCarried
<1>8. ASSUME NEW a \in appeals, NEW status \in {"open", "accepted", "rejected"}, handleAppealAnswer(a, status)
      PROVE  FloorInv'
  BY <1>8, AppealAnswered
<1>9. CASE FloorPhaseEnds
  <2>1. UNCHANGED balloonVars
    BY <1>9 DEF FloorPhaseEnds
  <2>2. appeals' = appeals /\ appealing' = appealing /\ floorPhase' \in {"over", "closed"}
    BY <1>9 DEF FloorPhaseEnds
  <2>3. AppealShape'
    BY <2>2 DEF FloorInv, AppealShape
  <2>4. AppealsBounded'
    BY <2>2 DEF FloorInv, AppealsBounded, CountAppealsByParticipation
  <2> QED BY <2>1, <2>3, <2>4, BalloonsAlone
<1> QED
  BY <1>1, <1>2, <1>3, <1>4, <1>5, <1>6, <1>7, <1>8, <1>9 DEF FloorNext

(***************************************************************************)
(* The tables of the registrar and what the queries do to them.            *)
(***************************************************************************)
UserRow == [name : Names \cup {""}, pw : BOOLEAN]
PartRow == [in : BOOLEAN, approved : BOOLEAN, self : BOOLEAN, team : BOOLEAN]
Tables == [users : [Ids -> UserRow], parts : [Ids -> PartRow], last : Nat, team : BOOLEAN]

\* Ids are numbers from 1 on.
LEMMA IdsAre == IsFiniteSet(Ids) /\ \A i : i \in Ids <=> i \in Nat /\ 1 <= i /\ i <= Cardinality(Ids)
<1>1. IsFiniteSet(Ids) /\ Ids = 1 .. Cardinality(Ids)
  BY RegistrarAssumption
<1>2. Cardinality(Ids) \in Nat
  BY <1>1, FS_CardinalityType
<1> QED
  BY <1>1, <1>2

\* The tables d with these users, participations, last id and team.
MadeOf(d, users, parts, last, team) ==
    d \in Tables /\ d.users = users /\ d.parts = parts /\ d.last = last /\ d.team = team

\* New users leave the participations.
LEMMA NewUsers ==
    ASSUME NEW d \in Tables, NEW U \in [Ids -> UserRow], NEW e, e = [d EXCEPT !.users = U]
    PROVE  MadeOf(e, U, d.parts, d.last, d.team)
BY DEF MadeOf, Tables

\* New participations leave the users.
LEMMA NewParts ==
    ASSUME NEW d \in Tables, NEW P \in [Ids -> PartRow], NEW e, e = [d EXCEPT !.parts = P]
    PROVE  MadeOf(e, d.users, P, d.last, d.team)
BY DEF MadeOf, Tables

\* New users may take ids.
LEMMA NewIds ==
    ASSUME NEW d \in Tables, NEW U \in [Ids -> UserRow], NEW l \in Nat, NEW e, e = [d EXCEPT !.last = l, !.users = U]
    PROVE  MadeOf(e, U, d.parts, l, d.team)
BY DEF MadeOf, Tables

\* Users and participations may change together.
LEMMA NewBoth ==
    ASSUME NEW d \in Tables, NEW U \in [Ids -> UserRow], NEW P \in [Ids -> PartRow], NEW e,
           e = [d EXCEPT !.users = U, !.parts = P]
    PROVE  MadeOf(e, U, P, d.last, d.team)
BY DEF MadeOf, Tables

\* The team is made or unmade, with its participations or without.
LEMMA NewTeam ==
    ASSUME NEW d \in Tables, NEW P \in [Ids -> PartRow], NEW t \in BOOLEAN, NEW e,
           \/ e = [d EXCEPT !.team = t] /\ P = d.parts
           \/ e = [d EXCEPT !.team = t, !.parts = P]
    PROVE  MadeOf(e, d.users, P, d.last, t)
BY DEF MadeOf, Tables

\* An update of one row is an update of the table.
LEMMA RowUpdates ==
    ASSUME NEW A, NEW B, NEW C, NEW D, NEW d \in [users : A, parts : B, last : C, team : D], NEW i, NEW r, NEW p, NEW v
    PROVE  /\ [d EXCEPT !.users[i] = r] = [d EXCEPT !.users = [d.users EXCEPT ![i] = r]]
           /\ [d EXCEPT !.parts[i] = p] = [d EXCEPT !.parts = [d.parts EXCEPT ![i] = p]]
           /\ [d EXCEPT !.last = v, !.users[i] = r] = [d EXCEPT !.last = v, !.users = [d.users EXCEPT ![i] = r]]
           /\ [d EXCEPT !.users[i] = r, !.parts[i] = p] =
                 [d EXCEPT !.users = [d.users EXCEPT ![i] = r], !.parts = [d.parts EXCEPT ![i] = p]]
           /\ [d EXCEPT !.users[i].name = v] = [d EXCEPT !.users[i] = [d.users[i] EXCEPT !.name = v]]
           /\ [d EXCEPT !.parts[i].approved = v] = [d EXCEPT !.parts[i] = [d.parts[i] EXCEPT !.approved = v]]
           /\ [d EXCEPT !.parts[i].self = v] = [d EXCEPT !.parts[i] = [d.parts[i] EXCEPT !.self = v]]
OBVIOUS

\* A row of users with a name and perhaps a password.
LEMMA NewUserRow ==
    ASSUME NEW n \in Names, NEW b \in BOOLEAN, NEW u, u = [name |-> n, pw |-> b]
    PROVE  u \in UserRow /\ u.name = n /\ (b => u.pw)
BY DEF UserRow

\* A user renamed keeps the password.
LEMMA Renamed ==
    ASSUME NEW u \in UserRow, NEW n \in Names, NEW v, v = [u EXCEPT !.name = n]
    PROVE  v \in UserRow /\ v.name = n /\ v.pw = u.pw
BY DEF UserRow

\* A user given a password keeps the name.
LEMMA GivenPassword ==
    ASSUME NEW u \in UserRow, NEW v, v = [u EXCEPT !.pw = TRUE]
    PROVE  v \in UserRow /\ v.name = u.name /\ v.pw
BY DEF UserRow

\* A participation put in the team, or out of it, changes nothing else.
LEMMA PutInTeam ==
    ASSUME NEW p \in PartRow, NEW t \in BOOLEAN, NEW q, q = [p EXCEPT !.team = t]
    PROVE  q \in PartRow /\ q.team = t /\ q.in = p.in /\ q.self = p.self /\ q.approved = p.approved
BY DEF PartRow

\* A participation approved, or not, changes nothing else.
LEMMA Approved ==
    ASSUME NEW p \in PartRow, NEW t \in BOOLEAN, NEW q, q = [p EXCEPT !.approved = t]
    PROVE  q \in PartRow /\ q.approved = t /\ q.in = p.in /\ q.self = p.self /\ q.team = p.team
BY DEF PartRow

\* A participation made by its user, or not, changes nothing else.
LEMMA SelfMade ==
    ASSUME NEW p \in PartRow, NEW t \in BOOLEAN, NEW q, q = [p EXCEPT !.self = t]
    PROVE  q \in PartRow /\ q.self = t /\ q.in = p.in /\ q.approved = p.approved /\ q.team = p.team
BY DEF PartRow

\* A row that is not there is a row without name, password or place.
LEMMA NoRows == /\ NoUser \in UserRow /\ NoUser.name = "" /\ ~NoUser.pw
                /\ NoPart \in PartRow /\ ~NoPart.in /\ ~NoPart.self /\ ~NoPart.team
BY DEF UserRow, PartRow, NoUser, NoPart

\* CreateUser: the next id gets the row.
LEMMA CreateUserIs ==
    ASSUME NEW d \in Tables, NEW n \in Names, NEW pw \in BOOLEAN, IdsLeft(d, 1)
    PROVE  /\ d.last + 1 \in Ids /\ d.last \in Nat
           /\ MadeOf(CreateUser(d, n, pw), [d.users EXCEPT ![d.last + 1] = [name |-> n, pw |-> pw]],
                     d.parts, d.last + 1, d.team)
<1>0. d.last \in Nat
  BY DEF Tables
<1>1. d.last + 1 \in Ids
  <2>2. IsFiniteSet(Ids) /\ Cardinality(Ids) \in Nat
    BY IdsAre, FS_CardinalityType
  <2> QED
    BY <1>0, <2>2, IdsAre DEF IdsLeft
<1>2. PICK U : U = [d.users EXCEPT ![d.last + 1] = [name |-> n, pw |-> pw]]
  OBVIOUS
<1>3. U \in [Ids -> UserRow]
  BY <1>2 DEF Tables, UserRow
<1>4. CreateUser(d, n, pw) = [d EXCEPT !.last = d.last + 1, !.users = [d.users EXCEPT ![d.last + 1] = [name |-> n, pw |-> pw]]]
  BY RowUpdates DEF CreateUser, Tables
<1>5. CreateUser(d, n, pw) = [d EXCEPT !.last = d.last + 1, !.users = U]
  BY <1>2, <1>4
<1>6. MadeOf(CreateUser(d, n, pw), U, d.parts, d.last + 1, d.team)
  <2>1. d.parts \in [Ids -> PartRow] /\ d.team \in BOOLEAN /\ d.last + 1 \in Nat
    BY <1>0 DEF Tables
  <2> QED BY <2>1, <1>3, <1>5, NewIds
<1> QED
  BY <1>0, <1>1, <1>2, <1>6

\* UpdateUser: the name of one row.
LEMMA UpdateUserIs ==
    ASSUME NEW d \in Tables, NEW i \in Ids, NEW n \in Names
    PROVE  \E U : /\ MadeOf(UpdateUser(d, i, n), U, d.parts, d.last, d.team)
                  /\ U[i].name = n /\ U[i].pw = d.users[i].pw /\ \A j \in Ids \ {i} : U[j] = d.users[j]
<1>1. PICK r : r = [d.users[i] EXCEPT !.name = n]
  OBVIOUS
<1>2. d.users[i] \in UserRow /\ d.users \in [Ids -> UserRow] /\ d.parts \in [Ids -> PartRow]
      /\ d.team \in BOOLEAN /\ d.last \in Nat
  BY DEF Tables
<1>3. r \in UserRow /\ r.name = n /\ r.pw = d.users[i].pw
  BY <1>1, <1>2, Renamed
<1>4. PICK U : U = [d.users EXCEPT ![i] = r]
  OBVIOUS
<1>5. U \in [Ids -> UserRow] /\ U[i] = r /\ \A j \in Ids \ {i} : U[j] = d.users[j]
  BY <1>2, <1>3, <1>4
<1>6. UpdateUser(d, i, n) = [d EXCEPT !.users = U]
  BY <1>1, <1>4, RowUpdates DEF UpdateUser, Tables
<1>7. MadeOf(UpdateUser(d, i, n), U, d.parts, d.last, d.team)
  BY <1>5, <1>6, NewUsers
<1> QED
  BY <1>3, <1>5, <1>7, Zenon

\* Who has a row gets a password, and nothing else changes.
LEMMA SetUserPasswordIs ==
    ASSUME NEW d \in Tables, NEW is
    PROVE  \E U : /\ MadeOf(SetUserPassword(d, is), U, d.parts, d.last, d.team)
                  /\ \A i \in Ids : /\ U[i] \in UserRow /\ U[i].name = d.users[i].name /\ (d.users[i].pw => U[i].pw)
                                    /\ d.users[i] = NoUser => U[i] = NoUser
                                    /\ i \in is /\ d.users[i] # NoUser => U[i].pw
<1>1. PICK U : U = [i \in Ids |-> IF i \in is /\ d.users[i] # NoUser THEN [d.users[i] EXCEPT !.pw = TRUE]
                                  ELSE d.users[i]]
  OBVIOUS
<1>2. d.users \in [Ids -> UserRow] /\ d.parts \in [Ids -> PartRow] /\ d.team \in BOOLEAN /\ d.last \in Nat
  BY DEF Tables
<1>3. ASSUME NEW i \in Ids
      PROVE  /\ U[i] \in UserRow /\ U[i].name = d.users[i].name /\ (d.users[i].pw => U[i].pw)
             /\ d.users[i] = NoUser => U[i] = NoUser
             /\ i \in is /\ d.users[i] # NoUser => U[i].pw
  <2>0. d.users[i] \in UserRow
    BY <1>2
  <2>1. CASE i \in is /\ d.users[i] # NoUser
    <3>1. U[i] = [d.users[i] EXCEPT !.pw = TRUE]
      BY <1>1, <2>1
    <3> QED BY <3>1, <2>0, <2>1, GivenPassword, Zenon
  <2>2. CASE ~(i \in is /\ d.users[i] # NoUser)
    <3>1. U[i] = d.users[i]
      BY <1>1, <2>2
    <3> QED BY <3>1, <2>0, <2>2, Zenon
  <2> QED BY <2>1, <2>2
<1>4. U \in [Ids -> UserRow]
  BY <1>1, <1>3
<1>5. SetUserPassword(d, is) = [d EXCEPT !.users = U]
  BY <1>1 DEF SetUserPassword
<1>6. MadeOf(SetUserPassword(d, is), U, d.parts, d.last, d.team)
  BY <1>4, <1>5, NewUsers
<1> QED
  BY <1>3, <1>6, Zenon

\* DeleteUser: the row goes, and its participation with it.
LEMMA DeleteUserIs ==
    ASSUME NEW d \in Tables, NEW i \in Ids
    PROVE  MadeOf(DeleteUser(d, i), [d.users EXCEPT ![i] = NoUser], [d.parts EXCEPT ![i] = NoPart], d.last, d.team)
<1>1. PICK U, P : U = [d.users EXCEPT ![i] = NoUser] /\ P = [d.parts EXCEPT ![i] = NoPart]
  OBVIOUS
<1>2. U \in [Ids -> UserRow] /\ P \in [Ids -> PartRow]
  BY <1>1, NoRows DEF Tables
<1>3. DeleteUser(d, i) = [d EXCEPT !.users = U, !.parts = P]
  BY <1>1, RowUpdates DEF DeleteUser, Tables
<1>4. d.team \in BOOLEAN /\ d.last \in Nat
  BY DEF Tables
<1> QED
  BY <1>1, <1>2, <1>3, NewBoth

\* CreateParticipation: the staff's rows are approved and not self made.
LEMMA CreateParticipationIs ==
    ASSUME NEW d \in Tables, NEW is, NEW t \in BOOLEAN
    PROVE  \E P : /\ MadeOf(CreateParticipation(d, is, t), d.users, P, d.last, d.team)
                  /\ \A i \in Ids : /\ P[i] \in PartRow
                                    /\ i \in is => P[i].in /\ ~P[i].self /\ P[i].approved /\ P[i].team = t
                                    /\ i \notin is => P[i] = d.parts[i]
<1>1. PICK P : P = [i \in Ids |-> IF i \in is THEN [in |-> TRUE, approved |-> TRUE, self |-> FALSE, team |-> t]
                                  ELSE d.parts[i]]
  OBVIOUS
<1>2. d.users \in [Ids -> UserRow] /\ d.parts \in [Ids -> PartRow] /\ d.team \in BOOLEAN /\ d.last \in Nat
  BY DEF Tables
<1>3. \A i \in Ids : /\ P[i] \in PartRow
                     /\ i \in is => P[i].in /\ ~P[i].self /\ P[i].approved /\ P[i].team = t
                     /\ i \notin is => P[i] = d.parts[i]
  BY <1>1, <1>2 DEF PartRow
<1>4. P \in [Ids -> PartRow]
  BY <1>1, <1>3
<1>5. CreateParticipation(d, is, t) = [d EXCEPT !.parts = P]
  BY <1>1 DEF CreateParticipation
<1>6. MadeOf(CreateParticipation(d, is, t), d.users, P, d.last, d.team)
  BY <1>4, <1>5, NewParts
<1> QED
  BY <1>3, <1>6, Zenon

\* UpdateParticipation: the team only.
LEMMA UpdateParticipationIs ==
    ASSUME NEW d \in Tables, NEW is, NEW t \in BOOLEAN
    PROVE  \E P : /\ MadeOf(UpdateParticipation(d, is, t), d.users, P, d.last, d.team)
                  /\ \A i \in Ids : /\ P[i] \in PartRow /\ P[i].self = d.parts[i].self
                                    /\ P[i].approved = d.parts[i].approved
                                    /\ i \in is => P[i].team = t
                                    /\ i \notin is => P[i] = d.parts[i]
<1>1. PICK P : P = [i \in Ids |-> IF i \in is THEN [d.parts[i] EXCEPT !.team = t] ELSE d.parts[i]]
  OBVIOUS
<1>2. d.users \in [Ids -> UserRow] /\ d.parts \in [Ids -> PartRow] /\ d.team \in BOOLEAN /\ d.last \in Nat
  BY DEF Tables
<1>3. ASSUME NEW i \in Ids
      PROVE  /\ P[i] \in PartRow /\ P[i].self = d.parts[i].self /\ P[i].approved = d.parts[i].approved
             /\ i \in is => P[i].team = t
             /\ i \notin is => P[i] = d.parts[i]
  <2>0. d.parts[i] \in PartRow
    BY <1>2
  <2>1. CASE i \in is
    <3>1. P[i] = [d.parts[i] EXCEPT !.team = t]
      BY <1>1, <2>1
    <3> QED BY <3>1, <2>0, <2>1, PutInTeam
  <2>2. CASE i \notin is
    <3>1. P[i] = d.parts[i]
      BY <1>1, <2>2
    <3> QED BY <3>1, <2>0, <2>2, Zenon
  <2> QED BY <2>1, <2>2
<1>4. P \in [Ids -> PartRow]
  BY <1>1, <1>3
<1>5. UpdateParticipation(d, is, t) = [d EXCEPT !.parts = P]
  BY <1>1 DEF UpdateParticipation
<1>6. MadeOf(UpdateParticipation(d, is, t), d.users, P, d.last, d.team)
  BY <1>4, <1>5, NewParts
<1> QED
  BY <1>3, <1>6

\* SetParticipationApproved: the approval only.
LEMMA SetParticipationApprovedIs ==
    ASSUME NEW d \in Tables, NEW i \in Ids, NEW v \in BOOLEAN
    PROVE  \E P : /\ MadeOf(SetParticipationApproved(d, i, v), d.users, P, d.last, d.team)
                  /\ P[i].self = d.parts[i].self /\ P[i].team = d.parts[i].team /\ P[i].approved = v
                  /\ \A j \in Ids \ {i} : P[j] = d.parts[j]
<1>1. PICK p : p = [d.parts[i] EXCEPT !.approved = v]
  OBVIOUS
<1>2. d.parts[i] \in PartRow /\ d.parts \in [Ids -> PartRow]
  BY DEF Tables
<1>3. p \in PartRow /\ p.self = d.parts[i].self /\ p.team = d.parts[i].team /\ p.approved = v
  BY <1>1, <1>2, Approved
<1>4. PICK P : P = [d.parts EXCEPT ![i] = p]
  OBVIOUS
<1>5. P \in [Ids -> PartRow] /\ P[i] = p /\ \A j \in Ids \ {i} : P[j] = d.parts[j]
  BY <1>2, <1>3, <1>4
<1>6. SetParticipationApproved(d, i, v) = [d EXCEPT !.parts = P]
  BY <1>1, <1>4, RowUpdates DEF SetParticipationApproved, Tables
<1>7. MadeOf(SetParticipationApproved(d, i, v), d.users, P, d.last, d.team)
  BY <1>5, <1>6, NewParts
<1> QED
  BY <1>3, <1>5, <1>7, Zenon

\* DeleteParticipation: the row goes.
LEMMA DeleteParticipationIs ==
    ASSUME NEW d \in Tables, NEW i \in Ids
    PROVE  MadeOf(DeleteParticipation(d, i), d.users, [d.parts EXCEPT ![i] = NoPart], d.last, d.team)
<1>1. PICK P : P = [d.parts EXCEPT ![i] = NoPart]
  OBVIOUS
<1>2. P \in [Ids -> PartRow]
  BY <1>1, NoRows DEF Tables
<1>3. DeleteParticipation(d, i) = [d EXCEPT !.parts = P]
  BY <1>1, RowUpdates DEF DeleteParticipation, Tables
<1> QED
  BY <1>1, <1>2, <1>3, NewParts

\* DeleteTeam: nobody is in it any more.
LEMMA DeleteTeamIs ==
    ASSUME NEW d \in Tables
    PROVE  \E P : /\ MadeOf(DeleteTeam(d), d.users, P, d.last, FALSE)
                  /\ \A i \in Ids : ~P[i].team /\ P[i].self = d.parts[i].self /\ P[i].approved = d.parts[i].approved
<1>1. PICK P : P = [i \in Ids |-> [d.parts[i] EXCEPT !.team = FALSE]]
  OBVIOUS
<1>2. ASSUME NEW i \in Ids
      PROVE  P[i] \in PartRow /\ ~P[i].team /\ P[i].self = d.parts[i].self /\ P[i].approved = d.parts[i].approved
  <2>1. d.parts[i] \in PartRow
    BY DEF Tables
  <2>2. P[i] = [d.parts[i] EXCEPT !.team = FALSE]
    BY <1>1
  <2> QED BY <2>1, <2>2, PutInTeam
<1>3. P \in [Ids -> PartRow]
  BY <1>1, <1>2
<1>4. DeleteTeam(d) = [d EXCEPT !.team = FALSE, !.parts = P]
  BY <1>1 DEF DeleteTeam
<1>5. MadeOf(DeleteTeam(d), d.users, P, d.last, FALSE)
  BY <1>3, <1>4, NewTeam
<1> QED
  BY <1>2, <1>5

\* CreateTeam: nobody is in it yet.
LEMMA CreateTeamIs ==
    ASSUME NEW d \in Tables
    PROVE  MadeOf(CreateTeam(d), d.users, d.parts, d.last, TRUE)
<1>1. d.parts \in [Ids -> PartRow]
  BY DEF Tables
<1> QED
  BY <1>1, NewTeam DEF CreateTeam

\* Whatever rows are written, nobody is approved by it who registered alone,
\* and only who is written joins the team.
LEMMA WriteRowsIs ==
    ASSUME NEW d \in Tables, NEW ids, NEW fresh \in SUBSET ids, NEW t \in BOOLEAN
    PROVE  \E P : /\ MadeOf(WriteRows(d, ids, fresh, t), d.users, P, d.last, d.team)
                  /\ \A i \in Ids : /\ P[i].self /\ P[i].approved => d.parts[i].self /\ d.parts[i].approved
                                    /\ i \in ids => P[i].team = t
                                    /\ i \notin ids => P[i] = d.parts[i]
<1>1. PICK e : e = CreateParticipation(d, fresh, t)
  OBVIOUS
<1>2. PICK P : /\ MadeOf(e, d.users, P, d.last, d.team)
               /\ \A i \in Ids : /\ P[i] \in PartRow
                                 /\ i \in fresh => P[i].in /\ ~P[i].self /\ P[i].approved /\ P[i].team = t
                                 /\ i \notin fresh => P[i] = d.parts[i]
  BY <1>1, CreateParticipationIs
<1>3. e \in Tables /\ e.users = d.users /\ e.parts = P /\ e.last = d.last /\ e.team = d.team
  BY <1>2 DEF MadeOf
<1>4. PICK Q : /\ MadeOf(UpdateParticipation(e, ids \ fresh, t), e.users, Q, e.last, e.team)
               /\ \A i \in Ids : /\ Q[i] \in PartRow /\ Q[i].self = P[i].self
                                 /\ Q[i].approved = P[i].approved
                                 /\ i \in ids \ fresh => Q[i].team = t
                                 /\ i \notin ids \ fresh => Q[i] = P[i]
  BY <1>3, UpdateParticipationIs
<1>5. MadeOf(WriteRows(d, ids, fresh, t), d.users, Q, d.last, d.team)
  BY <1>1, <1>3, <1>4 DEF WriteRows
<1>6. ASSUME NEW i \in Ids
      PROVE  /\ Q[i].self /\ Q[i].approved => d.parts[i].self /\ d.parts[i].approved
             /\ i \in ids => Q[i].team = t
             /\ i \notin ids => Q[i] = d.parts[i]
  BY <1>2, <1>4
<1> QED
  BY <1>5, <1>6

(***************************************************************************)
(* The import of users.                                                    *)
(***************************************************************************)
ImportFile == [rows : Seq(Names), pw : BOOLEAN, team : BOOLEAN, update : BOOLEAN, generate : BOOLEAN]

\* A user of the tables has the name.
Present(d, n) == \E i \in Ids : d.users[i].name = n

\* The rows of new names get ids that nobody had, and all the others keep
\* theirs.
LEMMA ImportRowIs ==
    ASSUME NEW d \in Tables, NEW f \in ImportFile, NEW hashed,
           \A i \in Ids : i > d.last => d.users[i] = NoUser
    PROVE  \E U, P, l :
              /\ MadeOf(importRow(d, f, hashed), U, P, l, d.team)
              /\ l >= d.last /\ \A i \in Ids : i > l => U[i] = NoUser
              /\ \A i \in Ids : ~(i > d.last) => U[i].name = d.users[i].name /\ (d.users[i].pw => U[i].pw)
              /\ \A i \in Ids : i > d.last /\ U[i] # NoUser =>
                    /\ U[i].name \in Range(f.rows) /\ ~Present(d, U[i].name)
                    /\ U[i].name \in hashed => U[i].pw
              /\ \A i \in Ids : P[i].self /\ P[i].approved => d.parts[i].self /\ d.parts[i].approved
              /\ \A i \in Ids : P[i].team => d.parts[i].team \/ (f.team /\ U[i].name \in Range(f.rows))
<1> DEFINE names == f.rows
           new == {k \in DOMAIN names : GetUserByUsername(d, names[k]) = {}}
           IdOf(k) == d.last + Cardinality({j \in new : j <= k})
           U1 == [i \in Ids |-> IF \E k \in new : i = IdOf(k)
                                THEN LET n == names[CHOOSE k \in new : i = IdOf(k)]
                                     IN  [name |-> n, pw |-> n \in hashed]
                                ELSE d.users[i]]
           l == d.last + Cardinality(new)
           u == [d EXCEPT !.last = l, !.users = U1]
           ids == {i \in Ids : u.users[i].name \in Range(names)}
           is == {i \in ids : u.users[i].name \in hashed}
           w == SetUserPassword(u, is)
           fresh == {i \in ids : ~u.parts[i].in}
<1>23. importRow(d, f, hashed) = WriteRows(w, ids, fresh, f.team)
  BY DEF importRow
<1>1. names = f.rows
  OBVIOUS
<1>3. new = {k \in DOMAIN names : GetUserByUsername(d, names[k]) = {}}
  OBVIOUS
<1>9. U1 = [i \in Ids |-> IF \E k \in new : i = IdOf(k)
                          THEN LET n == names[CHOOSE k \in new : i = IdOf(k)]
                               IN  [name |-> n, pw |-> n \in hashed]
                          ELSE d.users[i]]
  OBVIOUS
<1>10. l = d.last + Cardinality(new)
  OBVIOUS
<1>14. u = [d EXCEPT !.last = l, !.users = U1]
  OBVIOUS
<1>17. ids = {i \in Ids : u.users[i].name \in Range(names)}
  OBVIOUS
<1>a. is = {i \in ids : u.users[i].name \in hashed}
  OBVIOUS
<1>18. w = SetUserPassword(u, is)
  OBVIOUS
<1>21. fresh = {i \in ids : ~u.parts[i].in}
  OBVIOUS
<1> HIDE DEF names, new, U1, l, u, ids, is, w, fresh
<1>2. names \in Seq(Names) /\ f.team \in BOOLEAN
  BY <1>1 DEF ImportFile
<1>4. new \in SUBSET (1 .. Len(names)) /\ Len(names) \in Nat /\ DOMAIN names = 1 .. Len(names)
  BY <1>2, <1>3
<1>5. IsFiniteSet(new) /\ Cardinality(new) \in Nat
  <2>1. IsFiniteSet(1 .. Len(names))
    BY <1>4, FS_Interval
  <2>2. IsFiniteSet(new)
    BY <1>4, <2>1, FS_Subset
  <2> QED BY <2>2, FS_CardinalityType
<1>6. \A k \in new : names[k] \in Names /\ names[k] \in Range(names) /\ ~Present(d, names[k])
  BY <1>2, <1>3, <1>4 DEF GetUserByUsername, Present, Range
<1>7. d.last \in Nat /\ d.users \in [Ids -> UserRow] /\ d.parts \in [Ids -> PartRow] /\ d.team \in BOOLEAN
  BY DEF Tables
<1>8. ASSUME NEW k \in new
      PROVE  IdOf(k) \in Nat /\ IdOf(k) > d.last /\ IdOf(k) <= d.last + Cardinality(new)
  <2>1. PICK S : S = {j \in new : j <= k}
    OBVIOUS
  <2>2. S \subseteq new /\ k \in S
    BY <2>1, <1>4
  <2>3. IsFiniteSet(S) /\ Cardinality(S) \in Nat /\ Cardinality(S) <= Cardinality(new)
    BY <2>2, <1>5, FS_Subset, FS_CardinalityType
  <2>4. Cardinality(S) # 0
    BY <2>2, <2>3, FS_EmptySet
  <2> QED
    BY <2>1, <2>3, <2>4, <1>5, <1>7
<1>11. l \in Nat /\ l >= d.last
  BY <1>5, <1>7, <1>10
<1> HIDE DEF IdOf
<1>12. ASSUME NEW i \in Ids
       PROVE  /\ U1[i] \in UserRow
              /\ ~(i > d.last) => U1[i] = d.users[i]
              /\ i > l => U1[i] = NoUser
              /\ i > d.last /\ U1[i] # NoUser => /\ U1[i].name \in Range(names) /\ ~Present(d, U1[i].name)
                                                 /\ U1[i].name \in hashed => U1[i].pw
  <2>0. i \in Nat
    BY IdsAre
  <2>1. CASE \E k \in new : i = IdOf(k)
    <3>1. PICK k : k = (CHOOSE m \in new : i = IdOf(m))
      OBVIOUS
    <3>2. k \in new /\ i = IdOf(k)
      BY <2>1, <3>1, Zenon
    <3>3. U1[i] = [name |-> names[k], pw |-> names[k] \in hashed]
      BY <1>9, <2>1, <3>1, Zenon
    <3>4. i > d.last /\ ~(i > l)
      BY <2>0, <3>2, <1>8, <1>10, <1>11, <1>7
    <3>5. U1[i] \in UserRow /\ U1[i].name = names[k] /\ (names[k] \in hashed => U1[i].pw)
      <4>1. (names[k] \in hashed) \in BOOLEAN
        OBVIOUS
      <4>2. names[k] \in Names
        BY <3>2, <1>6
      <4> QED BY <4>1, <4>2, <3>3, NewUserRow, Zenon
    <3> QED
      BY <3>2, <3>4, <3>5, <1>6
  <2>2. CASE ~\E k \in new : i = IdOf(k)
    <3>1. U1[i] = d.users[i]
      BY <1>9, <2>2, Zenon
    <3>2. i > l => i > d.last
      BY <2>0, <1>7, <1>11
    <3> QED
      BY <3>1, <3>2, <1>7
  <2> QED BY <2>1, <2>2
<1>13. U1 \in [Ids -> UserRow]
  BY <1>9, <1>12
<1>15. MadeOf(u, U1, d.parts, l, d.team)
  BY <1>11, <1>13, <1>14, NewIds
<1>16. u \in Tables /\ u.users = U1 /\ u.parts = d.parts /\ u.last = l /\ u.team = d.team
  BY <1>15 DEF MadeOf
<1>19. PICK U : /\ MadeOf(w, U, u.parts, u.last, u.team)
                /\ \A i \in Ids : /\ U[i] \in UserRow /\ U[i].name = u.users[i].name /\ (u.users[i].pw => U[i].pw)
                                  /\ u.users[i] = NoUser => U[i] = NoUser
                                  /\ i \in is /\ u.users[i] # NoUser => U[i].pw
  BY <1>16, <1>18, SetUserPasswordIs
<1>20. w \in Tables /\ w.users = U /\ w.parts = d.parts /\ w.last = l /\ w.team = d.team
  BY <1>16, <1>19 DEF MadeOf
<1>22. PICK P : /\ MadeOf(WriteRows(w, ids, fresh, f.team), w.users, P, w.last, w.team)
                /\ \A i \in Ids : /\ P[i].self /\ P[i].approved => w.parts[i].self /\ w.parts[i].approved
                                  /\ i \in ids => P[i].team = f.team
                                  /\ i \notin ids => P[i] = w.parts[i]
  <2>1. fresh \in SUBSET ids
    BY <1>21
  <2> QED BY <2>1, <1>2, <1>20, WriteRowsIs
<1>24. MadeOf(importRow(d, f, hashed), U, P, l, d.team)
  BY <1>20, <1>22, <1>23
<1>25. \A i \in Ids : i > l => U[i] = NoUser
  BY <1>12, <1>16, <1>19
<1>26. \A i \in Ids : ~(i > d.last) => U[i].name = d.users[i].name /\ (d.users[i].pw => U[i].pw)
  BY <1>12, <1>16, <1>19
<1>27. ASSUME NEW i \in Ids, i > d.last, U[i] # NoUser
       PROVE  /\ U[i].name \in Range(names) /\ ~Present(d, U[i].name)
              /\ U[i].name \in hashed => U[i].pw
  <2>1. U1[i] # NoUser /\ U[i].name = U1[i].name /\ (U1[i].pw => U[i].pw)
    BY <1>16, <1>19, <1>27
  <2> QED BY <2>1, <1>12, <1>27
<1>28. \A i \in Ids : P[i].self /\ P[i].approved => d.parts[i].self /\ d.parts[i].approved
  BY <1>20, <1>22
<1>29. ASSUME NEW i \in Ids, P[i].team PROVE d.parts[i].team \/ (f.team /\ U[i].name \in Range(names))
  <2>1. CASE i \in ids
    BY <2>1, <1>17, <1>16, <1>19, <1>22, <1>29
  <2>2. CASE i \notin ids
    BY <2>2, <1>20, <1>22, <1>29
  <2> QED BY <2>1, <2>2
<1> QED
  BY <1>1, <1>11, <1>24, <1>25, <1>26, <1>27, <1>28, <1>29

(***************************************************************************)
(* The inductive invariant of the roster.                                  *)
(***************************************************************************)
Importer(r) == r.at \in {"import", "hashed"}

\* What an administrator holds is of the tables' rows, and a file that is
\* being imported gives a password to whoever the import did not find.
DeskFits(r) ==
    /\ r.at = "loaded" => r.id \in Ids /\ r.part \in PartRow
    /\ r.at = "commit" => r.ids \in SUBSET Ids /\ r.fresh \in SUBSET r.ids /\ r.team \in BOOLEAN
    /\ Importer(r) => r.file \in ImportFile /\ r.existing \subseteq Names
    /\ r.at = "import" /\ ~r.file.pw /\ ~r.file.generate => Range(r.file.rows) \subseteq r.existing
    /\ r.at = "hashed" => Range(r.file.rows) \subseteq r.existing \cup r.hashed

\* The tables have their types, and so has what each administrator holds.
RosterShape == roster \in Tables /\ DOMAIN desk = Staff /\ \A s \in Staff : DeskFits(desk[s])

\* An id that was not given yet has no row.
IdsGiven == \A i \in Ids : i > roster.last => roster.users[i] = NoUser

\* Who an import found is there, or went away since.
FoundKept ==
    \A s \in Staff : Importer(desk[s]) => \A n \in desk[s].existing : n \in vanished \/ Present(roster, n)

\* The users, and the imports that found them.
UsersInv == IdsGiven /\ FoundKept /\ EveryoneHasPassword

\* Without a team nobody is in it.
TeamOnly == ~roster.team => \A i \in Ids : ~roster.parts[i].team

\* The ids an administrator will put in the team without asking again.
Joins(r) ==
    IF r.at = "commit" /\ r.team THEN r.ids
    ELSE IF r.at = "loaded" /\ r.part.team THEN {r.id} ELSE {}

\* Who is in the team, and who is in it or will be.
InTeam == {i \in Ids : roster.parts[i].team}
Held == InTeam \cup UNION {Joins(desk[s]) : s \in Staff}

\* Each administrator asked for a team that fits, with who is in it already.
TeamLimits ==
    /\ \A s \in Staff : Cardinality(Joins(desk[s])) <= MaxTeamSize
    /\ Cardinality(Held \ unchecked) <= MaxTeamSize * Cardinality(Staff)

\* The participations and the team.
PartsInv == OnlyTheAdmitted /\ TeamOnly /\ TeamLimits

\* The inductive invariant.
RosterInv == RosterShape /\ UsersInv /\ PartsInv

(***************************************************************************)
(* What a step has to respect for each part of the invariant.              *)
(***************************************************************************)
LEMMA ShapeStep ==
    ASSUME RosterShape, NEW s \in Staff, NEW r, desk' = [desk EXCEPT ![s] = r], DeskFits(r), roster' \in Tables
    PROVE  /\ RosterShape' /\ desk'[s] = r /\ \A t \in Staff : t # s => desk'[t] = desk[t]
<1>1. DOMAIN desk' = Staff /\ desk'[s] = r /\ \A t \in Staff : t # s => desk'[t] = desk[t]
  BY DEF RosterShape
<1>2. \A t \in Staff : DeskFits(desk'[t])
  BY <1>1, Zenon DEF RosterShape
<1> QED
  BY <1>1, <1>2 DEF RosterShape

\* An administrator who is done holds nothing.
LEMMA IdleFits == DeskFits(DeskIdle) /\ ~Importer(DeskIdle) /\ Joins(DeskIdle) = {}
BY DEF DeskFits, DeskIdle, Importer, Joins

\* Passwords stay, ids are not reused, and names vanish only on record.
LEMMA UsersStep ==
    ASSUME RosterInv, excused \subseteq excused', vanished \subseteq vanished',
           \A i \in Ids : i > roster'.last => roster'.users[i] = NoUser,
           \A i \in Ids : roster'.users[i] # NoUser /\ ~roster'.users[i].pw
                             => (roster.users[i] # NoUser /\ ~roster.users[i].pw) \/ i \in excused',
           \A i \in Ids : \/ roster'.users[i].name = roster.users[i].name
                          \/ roster.users[i].name \notin Names \/ VanishName(roster.users[i].name),
           \A t \in Staff : Importer(desk'[t]) => \A n \in desk'[t].existing :
                             (Importer(desk[t]) /\ n \in desk[t].existing) \/ Present(roster', n)
    PROVE  UsersInv'
<1>1. IdsGiven'
  BY DEF IdsGiven
<1>2. EveryoneHasPassword'
  BY DEF RosterInv, UsersInv, EveryoneHasPassword
<1>3. ASSUME NEW t \in Staff, Importer(desk[t]), NEW n \in desk[t].existing
      PROVE  n \in vanished' \/ Present(roster', n)
  <2>1. n \in vanished \/ Present(roster, n)
    BY <1>3 DEF RosterInv, UsersInv, FoundKept
  <2>2. n \in Names
    BY <1>3 DEF RosterInv, RosterShape, DeskFits
  <2>3. ASSUME NEW i \in Ids, roster.users[i].name = n, VanishName(n)
        PROVE  n \in vanished'
    BY <1>3, <2>3 DEF VanishName, Importing, Importer
  <2>4. ASSUME NEW i \in Ids, roster.users[i].name = n
        PROVE  n \in vanished' \/ Present(roster', n)
    BY <2>2, <2>3, <2>4 DEF Present
  <2> QED BY <2>1, <2>4 DEF Present
<1>4. FoundKept'
  BY <1>3 DEF FoundKept
<1> QED
  BY <1>1, <1>2, <1>4 DEF UsersInv

\* The users stay, and so do the imports.
LEMMA UsersStay ==
    ASSUME RosterInv, excused' = excused, vanished' = vanished, roster'.users = roster.users, roster'.last = roster.last,
           \A t \in Staff : Importer(desk'[t]) => desk'[t] = desk[t]
    PROVE  UsersInv'
<1>1. \A i \in Ids : i > roster'.last => roster'.users[i] = NoUser
  BY DEF RosterInv, UsersInv, IdsGiven
<1> QED
  BY <1>1, UsersStep

\* Who made a participation alone is approved by the staff, or was.
LEMMA AdmittedStep ==
    ASSUME RosterInv, registration' = registration,
           registration = "approval" =>
              \A i \in Ids : roster'.parts[i].self /\ roster'.parts[i].approved =>
                 i \in admitted' \/ (roster.parts[i].self /\ roster.parts[i].approved /\ (i \in admitted => i \in admitted'))
    PROVE  OnlyTheAdmitted'
BY DEF RosterInv, PartsInv, OnlyTheAdmitted

\* Administrators join rows of the table.
LEMMA JoinsAre ==
    ASSUME NEW r, DeskFits(r)
    PROVE  Joins(r) \subseteq Ids
BY DEF Joins, DeskFits

\* The numbers of the limit of the team.
LEMMA NatProduct == MaxTeamSize \in Nat /\ MaxTeamSize >= 1 /\ IsFiniteSet(Staff) /\ Cardinality(Staff) \in Nat
                    /\ MaxTeamSize * Cardinality(Staff) \in Nat
<1>0. MaxTeamSize \in Nat \ {0} /\ IsFiniteSet(Staff)
  BY RegistrarAssumption, Zenon
<1>1. MaxTeamSize \in Nat /\ MaxTeamSize >= 1 /\ IsFiniteSet(Staff)
  BY <1>0
<1>2. Cardinality(Staff) \in Nat
  BY <1>1, FS_CardinalityType
<1> QED
  BY <1>1, <1>2

\* Nobody joins the team, or plans to, but who was held in it or is not
\* asked for.
LEMMA TeamStep ==
    ASSUME RosterInv, RosterShape', unchecked \subseteq unchecked',
           \A i \in Ids : roster'.parts[i].team => i \in Held \/ i \in unchecked',
           \A t \in Staff : \/ Joins(desk'[t]) = Joins(desk[t]) \/ Joins(desk'[t]) = {}
                            \/ \E i \in Held : Joins(desk'[t]) = {i}
    PROVE  TeamLimits'
<1>1. Held \subseteq Ids
  BY JoinsAre DEF RosterInv, RosterShape, Held, InTeam
<1>2. Held' \ unchecked' \subseteq Held \ unchecked
  <2>1. \A t \in Staff : Joins(desk'[t]) \subseteq Held
    BY DEF Held
  <2>2. InTeam' \subseteq Held \cup unchecked'
    BY DEF InTeam
  <2>3. Held' = InTeam' \cup UNION {Joins(desk'[t]) : t \in Staff}
    BY DEF Held
  <2> QED BY <2>1, <2>2, <2>3
<1>3. IsFiniteSet(Held \ unchecked)
  BY <1>1, IdsAre, FS_Subset
<1>4. /\ Cardinality(Held' \ unchecked') <= Cardinality(Held \ unchecked)
      /\ Cardinality(Held' \ unchecked') \in Nat /\ Cardinality(Held \ unchecked) \in Nat
  <2>1. IsFiniteSet(Held' \ unchecked')
    BY <1>2, <1>3, FS_Subset
  <2> QED BY <1>2, <1>3, <2>1, FS_Subset, FS_CardinalityType
<1>5. Cardinality(Held' \ unchecked') <= MaxTeamSize * Cardinality(Staff)
  <2>1. Cardinality(Held \ unchecked) <= MaxTeamSize * Cardinality(Staff)
    BY DEF RosterInv, PartsInv, TeamLimits
  <2> QED BY <1>4, <2>1, NatProduct
<1>6. ASSUME NEW t \in Staff
      PROVE  Cardinality(Joins(desk'[t])) <= MaxTeamSize
  <2>1. CASE Joins(desk'[t]) = Joins(desk[t])
    BY <2>1 DEF RosterInv, PartsInv, TeamLimits
  <2>2. CASE Joins(desk'[t]) = {}
    BY <2>2, FS_EmptySet, NatProduct
  <2>3. CASE \E i \in Held : Joins(desk'[t]) = {i}
    BY <2>3, FS_Singleton, NatProduct
  <2> QED BY <2>1, <2>2, <2>3
<1> QED
  BY <1>5, <1>6 DEF TeamLimits

\* Plans of the administrators that fit, one by one, fit together.
LEMMA PlansFit ==
    ASSUME NEW Q, \A t \in Staff : Q[t] \subseteq Ids /\ Cardinality(Q[t]) <= MaxTeamSize,
           NEW H, H \subseteq UNION {Q[t] : t \in Staff}
    PROVE  Cardinality(H) <= MaxTeamSize * Cardinality(Staff)
<1>1. PICK A : A = UNION {Q[t] : t \in Staff}
  OBVIOUS
<1>2. A \subseteq Ids /\ H \subseteq A
  BY <1>1
<1>3. IsFiniteSet(A) /\ IsFiniteSet(H) /\ Cardinality(H) <= Cardinality(A)
  BY <1>2, IdsAre, FS_Subset
<1>4. Cardinality(A) \in Nat /\ Cardinality(H) \in Nat
  BY <1>3, FS_CardinalityType
<1>5. Cardinality(A) <= MaxTeamSize * Cardinality(Staff)
  <2>1. IsFiniteSet(Staff) /\ IsFiniteSet(Ids) /\ MaxTeamSize \in Nat
    BY NatProduct, IdsAre
  <2>2. Cardinality(UNION {Q[t] : t \in Staff}) <= MaxTeamSize * Cardinality(Staff)
    BY <2>1, UnionSize, Zenon
  <2> QED BY <1>1, <2>2
<1> QED
  BY <1>3, <1>4, <1>5, NatProduct

\* The size of the team was asked, with the rows of the administrator.
LEMMA TeamAsked ==
    ASSUME RosterInv, NEW s \in Staff, NEW r, DeskFits(r), Joins(r) = r.ids, r.ids \subseteq Ids,
           desk' = [desk EXCEPT ![s] = r], roster' = roster, unchecked' = unchecked,
           Cardinality(InTeam \cup r.ids) <= MaxTeamSize
    PROVE  TeamLimits'
<1>1. desk'[s] = r /\ \A t \in Staff : t # s => desk'[t] = desk[t]
  BY DEF RosterInv, RosterShape
<1>2. InTeam' = InTeam /\ InTeam \subseteq Ids
  BY DEF InTeam
<1>3. PICK Q : Q = [t \in Staff |-> IF t = s THEN InTeam \cup r.ids ELSE Joins(desk[t])]
  OBVIOUS
<1>4. \A t \in Staff : Q[t] \subseteq Ids /\ Cardinality(Q[t]) <= MaxTeamSize
  <2>1. \A t \in Staff : Joins(desk[t]) \subseteq Ids /\ Cardinality(Joins(desk[t])) <= MaxTeamSize
    BY JoinsAre DEF RosterInv, RosterShape, PartsInv, TeamLimits
  <2> QED BY <1>2, <1>3, <2>1
<1>5. \A t \in Staff : Joins(desk'[t]) \subseteq Q[t] /\ (t # s => Joins(desk'[t]) = Joins(desk[t]))
  <2>1. ASSUME NEW t \in Staff, t = s PROVE Joins(desk'[t]) \subseteq Q[t]
    BY <1>1, <1>3, <2>1
  <2>2. ASSUME NEW t \in Staff, t # s PROVE Joins(desk'[t]) = Joins(desk[t]) /\ Q[t] = Joins(desk[t])
    BY <1>1, <1>3, <2>2
  <2> QED BY <2>1, <2>2
<1>6. InTeam' \subseteq Q[s]
  BY <1>2, <1>3
<1>7. Held' \subseteq UNION {Q[t] : t \in Staff}
  <2>1. Held' = InTeam' \cup UNION {Joins(desk'[t]) : t \in Staff}
    BY DEF Held
  <2> QED BY <2>1, <1>5, <1>6
<1>8. PICK H : H = Held' \ unchecked'
  OBVIOUS
<1>9. Cardinality(H) <= MaxTeamSize * Cardinality(Staff)
  <2>1. H \subseteq UNION {Q[t] : t \in Staff}
    BY <1>7, <1>8
  <2> QED BY <2>1, <1>4, PlansFit
<1>10. ASSUME NEW t \in Staff PROVE Cardinality(Joins(desk'[t])) <= MaxTeamSize
  <2>1. CASE t # s
    BY <2>1, <1>5 DEF RosterInv, PartsInv, TeamLimits
  <2>2. CASE t = s
    <3>1. Joins(desk'[t]) = r.ids
      BY <2>2, <1>1
    <3>2. PICK A : A = InTeam \cup r.ids
      OBVIOUS
    <3>3. A \subseteq Ids /\ r.ids \subseteq A
      BY <1>2, <3>2
    <3>4. IsFiniteSet(A) /\ IsFiniteSet(r.ids) /\ Cardinality(r.ids) <= Cardinality(A)
      BY <3>3, IdsAre, FS_Subset
    <3>5. Cardinality(A) \in Nat /\ Cardinality(r.ids) \in Nat
      BY <3>4, FS_CardinalityType
    <3> QED BY <3>1, <3>2, <3>4, <3>5, NatProduct
  <2> QED BY <2>1, <2>2
<1> QED
  BY <1>8, <1>9, <1>10 DEF TeamLimits

\* A team that is new has nobody in it.
LEMMA TeamNew ==
    ASSUME RosterInv, desk' = desk, \A i \in Ids : ~roster'.parts[i].team
    PROVE  TeamLimits'
<1>1. PICK Q : Q = [t \in Staff |-> Joins(desk[t])]
  OBVIOUS
<1>2. \A t \in Staff : Q[t] = Joins(desk[t]) /\ Q[t] \subseteq Ids /\ Cardinality(Q[t]) <= MaxTeamSize
  BY <1>1, JoinsAre DEF RosterInv, RosterShape, PartsInv, TeamLimits
<1>3. PICK H : H = Held' \ unchecked'
  OBVIOUS
<1>4. H \subseteq UNION {Q[t] : t \in Staff}
  <2>1. Held' = InTeam' \cup UNION {Joins(desk'[t]) : t \in Staff} /\ InTeam' = {}
    BY DEF Held, InTeam
  <2>2. \A t \in Staff : Joins(desk'[t]) = Q[t]
    BY <1>2
  <2> QED BY <2>1, <2>2, <1>3
<1>5. Cardinality(H) <= MaxTeamSize * Cardinality(Staff)
  BY <1>2, <1>4, PlansFit
<1>6. \A t \in Staff : Cardinality(Joins(desk'[t])) <= MaxTeamSize
  BY DEF RosterInv, PartsInv, TeamLimits
<1> QED
  BY <1>3, <1>5, <1>6 DEF TeamLimits

\* The administrator is done, or did not begin.
LEMMA DeskRests ==
    ASSUME RosterInv, roster' \in Tables, NEW s \in Staff, StaffDone(s) \/ desk' = desk
    PROVE  /\ RosterShape'
           /\ \A t \in Staff : Importer(desk'[t]) => desk'[t] = desk[t]
           /\ \A t \in Staff : Joins(desk'[t]) = Joins(desk[t]) \/ Joins(desk'[t]) = {}
<1>1. CASE StaffDone(s)
  <2>1. RosterShape' /\ desk'[s] = DeskIdle /\ \A t \in Staff : t # s => desk'[t] = desk[t]
    BY <1>1, IdleFits, ShapeStep DEF StaffDone, RosterInv
  <2>2. ASSUME NEW t \in Staff
        PROVE  /\ Importer(desk'[t]) => desk'[t] = desk[t]
               /\ Joins(desk'[t]) = Joins(desk[t]) \/ Joins(desk'[t]) = {}
    <3>1. CASE t = s
      <4>1. desk'[t] = DeskIdle
        BY <3>1, <2>1
      <4> QED BY <4>1, IdleFits, Zenon
    <3>2. CASE t # s
      <4>1. desk'[t] = desk[t]
        BY <3>2, <2>1
      <4> QED BY <4>1, Zenon
    <3> QED BY <3>1, <3>2
  <2> QED BY <2>1, <2>2
<1>2. CASE desk' = desk
  BY <1>2, Zenon DEF RosterInv, RosterShape
<1> QED
  BY <1>1, <1>2

(***************************************************************************)
(* Each handler keeps the invariant.                                       *)
(***************************************************************************)
\* The rows of the table written so are rows of it.
LEMMA RosterIs ==
    ASSUME RosterInv
    PROVE  /\ roster \in Tables /\ roster.users \in [Ids -> UserRow] /\ roster.parts \in [Ids -> PartRow]
           /\ roster.last \in Nat /\ roster.team \in BOOLEAN
BY DEF RosterInv, RosterShape, Tables

\* Rows of users change, and nothing else does.
LEMMA OnlyUsers ==
    ASSUME RosterInv, NEW s \in Staff, StaffDone(s) \/ desk' = desk, roster' \in Tables,
           roster'.parts = roster.parts, roster'.team = roster.team,
           UNCHANGED <<registration, admitted, unchecked>>, UsersInv'
    PROVE  RosterInv'
<1>1. /\ RosterShape'
      /\ \A t \in Staff : Joins(desk'[t]) = Joins(desk[t]) \/ Joins(desk'[t]) = {}
  BY DeskRests
<1>2. OnlyTheAdmitted'
  BY AdmittedStep
<1>3. TeamOnly'
  BY DEF RosterInv, PartsInv, TeamOnly
<1>4. \A i \in Ids : roster'.parts[i].team => i \in Held
  BY DEF Held, InTeam
<1>5. TeamLimits'
  BY <1>1, <1>4, TeamStep
<1> QED
  BY <1>1, <1>2, <1>3, <1>5 DEF RosterInv, PartsInv

\* Rows of participations change, and nothing else does.
LEMMA OnlyParts ==
    ASSUME RosterInv, NEW s \in Staff, StaffDone(s) \/ desk' = desk, roster' \in Tables,
           roster'.users = roster.users, roster'.last = roster.last,
           UNCHANGED <<vanished, excused>>, PartsInv'
    PROVE  RosterInv'
<1>1. /\ RosterShape'
      /\ \A t \in Staff : Importer(desk'[t]) => desk'[t] = desk[t]
  BY DeskRests
<1>2. UsersInv'
  BY <1>1, UsersStay
<1> QED
  BY <1>1, <1>2 DEF RosterInv

\* A row is loaded.
LEMMA LoadRowStep ==
    ASSUME RosterInv, NEW s \in Staff, LoadRow(s)
    PROVE  RosterInv'
<1>1. PICK i \in Ids : desk' = [desk EXCEPT ![s] = [at |-> "loaded", id |-> i, user |-> roster.users[i],
                                                    part |-> roster.parts[i]]]
  BY DEF LoadRow, GetUser, GetParticipationByContestUser
<1>2. UNCHANGED <<roster, registration, admitted, vanished, excused, unchecked>>
  BY DEF LoadRow
<1>3. PICK p : p = roster.parts[i]
  OBVIOUS
<1>4. p \in PartRow
  BY <1>3, RosterIs
<1>5. PICK r : r = [at |-> "loaded", id |-> i, user |-> roster.users[i], part |-> p]
  OBVIOUS
<1>6. r.at = "loaded" /\ r.id = i /\ r.part = p
  BY <1>5
<1>7. DeskFits(r) /\ ~Importer(r)
  BY <1>4, <1>6 DEF DeskFits, Importer
<1>8. RosterShape' /\ desk'[s] = r /\ \A t \in Staff : t # s => desk'[t] = desk[t]
  <2>1. desk' = [desk EXCEPT ![s] = r] /\ roster' \in Tables /\ RosterShape
    BY <1>1, <1>2, <1>3, <1>5, RosterIs DEF RosterInv
  <2> QED BY <2>1, <1>7, ShapeStep
<1>9. UsersInv'
  <2>1. \A t \in Staff : Importer(desk'[t]) => desk'[t] = desk[t]
    BY <1>7, <1>8
  <2> QED BY <1>2, <2>1, UsersStay
<1>10. OnlyTheAdmitted' /\ TeamOnly'
  BY <1>2 DEF RosterInv, PartsInv, OnlyTheAdmitted, TeamOnly
<1>11. \A j \in Ids : roster'.parts[j].team => j \in Held
  BY <1>2 DEF Held, InTeam
<1>12. ASSUME NEW t \in Staff
       PROVE  Joins(desk'[t]) = Joins(desk[t]) \/ Joins(desk'[t]) = {} \/ \E j \in Held : Joins(desk'[t]) = {j}
  <2>1. CASE t # s
    BY <2>1, <1>8
  <2>2. CASE t = s /\ p.team
    <3>1. i \in Held
      BY <1>3, <2>2 DEF Held, InTeam
    <3>2. Joins(r) = {i}
      BY <1>6, <2>2 DEF Joins
    <3> QED BY <3>1, <3>2, <2>2, <1>8
  <2>3. CASE t = s /\ ~p.team
    <3>1. Joins(r) = {}
      BY <1>6, <2>3 DEF Joins
    <3> QED BY <3>1, <2>3, <1>8
  <2> QED BY <2>1, <2>2, <2>3
<1>13. TeamLimits'
  BY <1>2, <1>8, <1>11, <1>12, TeamStep
<1> QED
  BY <1>8, <1>9, <1>10, <1>13 DEF RosterInv, PartsInv

\* A new user with a password takes the next id.
LEMMA UserAdded ==
    ASSUME RosterInv, NEW n \in Names, roster.last + 1 \in Ids, roster'.last = roster.last + 1,
           roster'.users = [roster.users EXCEPT ![roster.last + 1] = [name |-> n, pw |-> TRUE]],
           UNCHANGED <<desk, vanished, excused>>
    PROVE  UsersInv'
<1>1. PICK k : k = roster.last + 1
  OBVIOUS
<1>2. k \in Ids /\ roster.last \in Nat /\ k > roster.last /\ roster.users \in [Ids -> UserRow]
  BY <1>1, RosterIs
<1>3. PICK r : r = [name |-> n, pw |-> TRUE]
  OBVIOUS
<1>4. r.name = n /\ r.pw
  BY <1>3
<1>5. roster'.users[k] = r /\ \A i \in Ids : i # k => roster'.users[i] = roster.users[i]
  BY <1>1, <1>2, <1>3
<1>6. roster.users[k].name \notin Names
  <2>1. roster.users[k] = NoUser
    BY <1>2 DEF RosterInv, UsersInv, IdsGiven
  <2> QED BY <2>1, NoRows, RegistrarAssumption, Zenon
<1>7. \A i \in Ids : i > roster'.last => roster'.users[i] = NoUser
  <2>1. ASSUME NEW i \in Ids, i > roster.last + 1 PROVE i # k /\ i > roster.last
    BY <2>1, <1>1, <1>2, IdsAre
  <2> QED BY <2>1, <1>5 DEF RosterInv, UsersInv, IdsGiven
<1>8. \A i \in Ids : roster'.users[i] # NoUser /\ ~roster'.users[i].pw
                        => (roster.users[i] # NoUser /\ ~roster.users[i].pw) \/ i \in excused'
  BY <1>4, <1>5
<1>9. \A i \in Ids : \/ roster'.users[i].name = roster.users[i].name
                     \/ roster.users[i].name \notin Names \/ VanishName(roster.users[i].name)
  BY <1>5, <1>6
<1> QED
  BY <1>7, <1>8, <1>9, UsersStep

\* handleUserCreate, with or without a participation.
LEMMA UserCreated ==
    ASSUME RosterInv, NEW s \in Staff, handleUserCreate(s)
    PROVE  RosterInv'
<1>1. PICK n \in Names, enrol \in BOOLEAN :
         /\ IdsLeft(roster, 1)
         /\ roster' = LET d == CreateUser(roster, n, TRUE)
                      IN  IF enrol THEN CreateParticipation(d, {d.last}, FALSE) ELSE d
  BY DEF handleUserCreate
<1>2. UNCHANGED <<registration, desk, admitted, vanished, excused, unchecked>>
  BY DEF handleUserCreate
<1>3. PICK d : d = CreateUser(roster, n, TRUE)
  OBVIOUS
<1>4. /\ roster.last + 1 \in Ids
      /\ MadeOf(d, [roster.users EXCEPT ![roster.last + 1] = [name |-> n, pw |-> TRUE]],
                roster.parts, roster.last + 1, roster.team)
  BY <1>1, <1>3, RosterIs, CreateUserIs
<1>5. /\ d \in Tables /\ d.users = [roster.users EXCEPT ![roster.last + 1] = [name |-> n, pw |-> TRUE]]
      /\ d.parts = roster.parts /\ d.last = roster.last + 1 /\ d.team = roster.team
  BY <1>4 DEF MadeOf
<1>6. /\ roster' \in Tables /\ roster'.users = d.users /\ roster'.last = d.last /\ roster'.team = d.team
      /\ \A i \in Ids : roster'.parts[i] = roster.parts[i] \/ (~roster'.parts[i].self /\ ~roster'.parts[i].team)
  <2>1. CASE enrol
    <3>a. PICK no \in BOOLEAN : no = FALSE
      OBVIOUS
    <3>b. PICK is : is = {d.last}
      OBVIOUS
    <3>0. is = {d.last} /\ no = FALSE
      BY <3>a, <3>b
    <3>1. PICK P : /\ MadeOf(CreateParticipation(d, is, no), d.users, P, d.last, d.team)
                   /\ \A i \in Ids : /\ P[i] \in PartRow
                                     /\ i \in is => P[i].in /\ ~P[i].self /\ P[i].approved /\ P[i].team = no
                                     /\ i \notin is => P[i] = d.parts[i]
      BY <1>5, CreateParticipationIs
    <3>2. roster' = CreateParticipation(d, {d.last}, FALSE)
      BY <1>1, <1>3, <2>1
    <3>3. roster' \in Tables /\ roster'.users = d.users /\ roster'.last = d.last /\ roster'.team = d.team /\ roster'.parts = P
      BY <3>0, <3>1, <3>2 DEF MadeOf
    <3> QED BY <1>5, <3>0, <3>1, <3>3
  <2>2. CASE ~enrol
    <3>1. roster' = d
      BY <1>1, <1>3, <2>2
    <3> QED BY <3>1, <1>5
  <2> QED BY <2>1, <2>2
<1>7. UsersInv'
  BY <1>2, <1>4, <1>5, <1>6, UserAdded
<1>8. RosterShape'
  BY <1>2, <1>6, DeskRests
<1>9. OnlyTheAdmitted'
  BY <1>2, <1>6, AdmittedStep
<1>10. TeamOnly'
  BY <1>5, <1>6 DEF RosterInv, PartsInv, TeamOnly
<1>11. TeamLimits'
  <2>1. \A i \in Ids : roster'.parts[i].team => i \in Held
    BY <1>6 DEF Held, InTeam
  <2> QED BY <1>2, <1>8, <2>1, TeamStep
<1> QED
  BY <1>7, <1>8, <1>9, <1>10, <1>11 DEF RosterInv, PartsInv

\* handleUserUpdate: the name is free, and the password stays or is new.
LEMMA UserUpdated ==
    ASSUME RosterInv, NEW s \in Staff, handleUserUpdate(s)
    PROVE  RosterInv'
<1>1. PICK i : i = desk[s].id
  OBVIOUS
<1>2. PICK n \in Names, pw \in BOOLEAN :
         /\ roster' = IF roster.users[i] = NoUser THEN roster
                      ELSE LET d == UpdateUser(roster, i, n)
                           IN  IF pw THEN SetUserPassword(d, {i}) ELSE d
         /\ IF n # roster.users[i].name THEN VanishName(roster.users[i].name) ELSE UNCHANGED vanished
  BY <1>1 DEF handleUserUpdate
<1>3. UNCHANGED <<registration, admitted, excused, unchecked>> /\ StaffDone(s) /\ i \in Ids
  BY <1>1 DEF handleUserUpdate, RosterInv, RosterShape, DeskFits
<1>4. vanished \subseteq vanished'
  BY <1>2 DEF VanishName
<1>5. /\ roster' \in Tables /\ roster'.last = roster.last /\ roster'.team = roster.team /\ roster'.parts = roster.parts
      /\ \A j \in Ids : \/ roster'.users[j] = roster.users[j]
                        \/ /\ roster.users[j] # NoUser
                           /\ roster.users[j].pw => roster'.users[j].pw
                           /\ roster'.users[j].name = IF j = i THEN n ELSE roster.users[j].name
  <2>1. CASE roster.users[i] = NoUser
    <3>1. roster' = roster
      BY <1>2, <2>1
    <3> QED BY <3>1, RosterIs
  <2>2. CASE roster.users[i] # NoUser
    <3>1. PICK d : d = UpdateUser(roster, i, n)
      OBVIOUS
    <3>2. PICK U : /\ MadeOf(d, U, roster.parts, roster.last, roster.team)
                   /\ U[i].name = n /\ U[i].pw = roster.users[i].pw /\ \A j \in Ids \ {i} : U[j] = roster.users[j]
      BY <1>3, <3>1, RosterIs, UpdateUserIs
    <3>3. d \in Tables /\ d.users = U /\ d.parts = roster.parts /\ d.last = roster.last /\ d.team = roster.team
      BY <3>2 DEF MadeOf
    <3>4. CASE ~pw
      <4>1. roster' = d
        BY <1>2, <2>2, <3>1, <3>4
      <4> QED BY <4>1, <3>2, <3>3, <2>2
    <3>5. CASE pw
      <4>1. roster' = SetUserPassword(d, {i})
        BY <1>2, <2>2, <3>1, <3>5
      <4>2. PICK V : /\ MadeOf(roster', V, d.parts, d.last, d.team)
                     /\ \A j \in Ids : /\ V[j] \in UserRow /\ V[j].name = d.users[j].name /\ (d.users[j].pw => V[j].pw)
                                       /\ d.users[j] = NoUser => V[j] = NoUser
                                       /\ j \in {i} /\ d.users[j] # NoUser => V[j].pw
        BY <4>1, <3>3, SetUserPasswordIs
      <4>3. /\ roster' \in Tables /\ roster'.users = V /\ roster'.parts = d.parts /\ roster'.last = d.last
            /\ roster'.team = d.team
        BY <4>2 DEF MadeOf
      <4>4. ASSUME NEW j \in Ids
            PROVE  \/ V[j] = roster.users[j]
                   \/ /\ roster.users[j] # NoUser
                      /\ roster.users[j].pw => V[j].pw
                      /\ V[j].name = IF j = i THEN n ELSE roster.users[j].name
        <5>1. CASE j = i
          BY <5>1, <4>2, <3>2, <3>3, <2>2
        <5>2. CASE j # i /\ roster.users[j] # NoUser
          BY <5>2, <4>2, <3>2, <3>3
        <5>3. CASE j # i /\ roster.users[j] = NoUser
          BY <5>3, <4>2, <3>2, <3>3
        <5> QED BY <5>1, <5>2, <5>3
      <4> QED BY <4>3, <4>4, <3>3
    <3> QED BY <3>4, <3>5
  <2> QED BY <2>1, <2>2
<1>6. \A j \in Ids : j > roster'.last => roster'.users[j] = NoUser
  BY <1>5 DEF RosterInv, UsersInv, IdsGiven
<1>7. \A j \in Ids : roster'.users[j] # NoUser /\ ~roster'.users[j].pw
                        => (roster.users[j] # NoUser /\ ~roster.users[j].pw) \/ j \in excused'
  BY <1>5
<1>8. ASSUME NEW j \in Ids
      PROVE  \/ roster'.users[j].name = roster.users[j].name
             \/ roster.users[j].name \notin Names \/ VanishName(roster.users[j].name)
  <2>1. CASE j # i
    BY <2>1, <1>5
  <2>2. CASE j = i /\ n = roster.users[i].name
    BY <2>2, <1>5
  <2>3. CASE j = i /\ n # roster.users[i].name
    BY <2>3, <1>2
  <2> QED BY <2>1, <2>2, <2>3
<1>9. \A t \in Staff : Importer(desk'[t]) => desk'[t] = desk[t]
  BY <1>3, <1>5, DeskRests
<1>10. UsersInv'
  BY <1>3, <1>4, <1>6, <1>7, <1>8, <1>9, UsersStep
<1> QED
  BY <1>3, <1>5, <1>10, OnlyUsers

\* handleUserDelete: the name vanishes.
LEMMA UserDeleted ==
    ASSUME RosterInv, NEW s \in Staff, handleUserDelete(s)
    PROVE  RosterInv'
<1>1. PICK i : i = desk[s].id
  OBVIOUS
<1>2. /\ roster' = DeleteUser(roster, i) /\ VanishName(roster.users[i].name) /\ StaffDone(s)
      /\ UNCHANGED <<registration, admitted, excused, unchecked>> /\ i \in Ids
  BY <1>1 DEF handleUserDelete, RosterInv, RosterShape, DeskFits
<1>3. MadeOf(roster', [roster.users EXCEPT ![i] = NoUser], [roster.parts EXCEPT ![i] = NoPart], roster.last, roster.team)
  BY <1>2, RosterIs, DeleteUserIs
<1>4. /\ roster' \in Tables /\ roster'.last = roster.last /\ roster'.team = roster.team
      /\ \A j \in Ids : roster'.users[j] = IF j = i THEN NoUser ELSE roster.users[j]
      /\ \A j \in Ids : roster'.parts[j] = IF j = i THEN NoPart ELSE roster.parts[j]
  BY <1>3, RosterIs DEF MadeOf
<1>5. /\ RosterShape'
      /\ \A t \in Staff : Importer(desk'[t]) => desk'[t] = desk[t]
      /\ \A t \in Staff : Joins(desk'[t]) = Joins(desk[t]) \/ Joins(desk'[t]) = {}
  BY <1>2, <1>4, DeskRests
<1>6. UsersInv'
  <2>1. vanished \subseteq vanished'
    BY <1>2 DEF VanishName
  <2>2. \A j \in Ids : j > roster'.last => roster'.users[j] = NoUser
    BY <1>4 DEF RosterInv, UsersInv, IdsGiven
  <2>3. \A j \in Ids : roster'.users[j] # NoUser /\ ~roster'.users[j].pw
                          => (roster.users[j] # NoUser /\ ~roster.users[j].pw) \/ j \in excused'
    BY <1>4
  <2>4. \A j \in Ids : \/ roster'.users[j].name = roster.users[j].name
                       \/ roster.users[j].name \notin Names \/ VanishName(roster.users[j].name)
    BY <1>2, <1>4
  <2> QED BY <1>2, <1>5, <2>1, <2>2, <2>3, <2>4, UsersStep
<1>7. OnlyTheAdmitted'
  BY <1>2, <1>4, NoRows, AdmittedStep
<1>8. TeamOnly'
  BY <1>4, NoRows DEF RosterInv, PartsInv, TeamOnly
<1>9. TeamLimits'
  <2>1. \A j \in Ids : roster'.parts[j].team => j \in Held
    BY <1>4, NoRows DEF Held, InTeam
  <2> QED BY <1>2, <1>5, <2>1, TeamStep
<1> QED
  BY <1>5, <1>6, <1>7, <1>8, <1>9 DEF RosterInv, PartsInv

\* Passwords are set, by whoever sets them.
LEMMA PasswordsSet ==
    ASSUME RosterInv, NEW s \in Staff, NEW is, roster' = SetUserPassword(roster, is),
           StaffDone(s) \/ desk' = desk, UNCHANGED <<registration, admitted, vanished, excused, unchecked>>
    PROVE  RosterInv'
<1>1. PICK U : /\ MadeOf(roster', U, roster.parts, roster.last, roster.team)
               /\ \A i \in Ids : /\ U[i] \in UserRow /\ U[i].name = roster.users[i].name
                                 /\ (roster.users[i].pw => U[i].pw)
                                 /\ roster.users[i] = NoUser => U[i] = NoUser
                                 /\ i \in is /\ roster.users[i] # NoUser => U[i].pw
  BY RosterIs, SetUserPasswordIs
<1>2. /\ roster' \in Tables /\ roster'.users = U /\ roster'.parts = roster.parts
      /\ roster'.last = roster.last /\ roster'.team = roster.team
  BY <1>1 DEF MadeOf
<1>3. \A t \in Staff : Importer(desk'[t]) => desk'[t] = desk[t]
  BY <1>2, DeskRests
<1>4. UsersInv'
  <2>1. \A i \in Ids : i > roster'.last => roster'.users[i] = NoUser
    BY <1>1, <1>2 DEF RosterInv, UsersInv, IdsGiven
  <2>2. \A i \in Ids : roster'.users[i] # NoUser /\ ~roster'.users[i].pw
                          => (roster.users[i] # NoUser /\ ~roster.users[i].pw) \/ i \in excused'
    BY <1>1, <1>2
  <2>3. \A i \in Ids : roster'.users[i].name = roster.users[i].name
    BY <1>1, <1>2
  <2> QED BY <1>3, <2>1, <2>2, <2>3, UsersStep
<1> QED
  BY <1>2, <1>4, OnlyUsers

\* handleParticipationCreate asks for the size of the team first.
LEMMA ParticipationsCreated ==
    ASSUME RosterInv, NEW s \in Staff, handleParticipationCreate(s)
    PROVE  RosterInv'
<1>0. PICK ns \in SUBSET Names \ {{}}, t \in BOOLEAN :
         LET ids == {i \in Ids : roster.users[i].name \in ns}
             created == {i \in ids : ~roster.parts[i].in}
         IN  /\ t => roster.team
             /\ roster' = CreateParticipation(roster, created, t)
             /\ unchecked' = IF t THEN unchecked \cup created ELSE unchecked
  BY Zenon DEF handleParticipationCreate
<1>1. PICK new :
         /\ t => roster.team
         /\ roster' = CreateParticipation(roster, new, t)
         /\ unchecked' = IF t THEN unchecked \cup new ELSE unchecked
  BY <1>0
<1>2. UNCHANGED <<registration, desk, admitted, vanished, excused>>
  BY DEF handleParticipationCreate
<1>3. PICK P : /\ MadeOf(roster', roster.users, P, roster.last, roster.team)
               /\ \A i \in Ids : /\ P[i] \in PartRow
                                 /\ i \in new => P[i].in /\ ~P[i].self /\ P[i].approved /\ P[i].team = t
                                 /\ i \notin new => P[i] = roster.parts[i]
  BY <1>1, RosterIs, CreateParticipationIs
<1>4. /\ roster' \in Tables /\ roster'.users = roster.users /\ roster'.parts = P
      /\ roster'.last = roster.last /\ roster'.team = roster.team
  BY <1>3 DEF MadeOf
<1>5. OnlyTheAdmitted'
  <2>1. \A i \in Ids : roster'.parts[i].self => roster'.parts[i] = roster.parts[i]
    BY <1>3, <1>4
  <2> QED BY <1>2, <2>1, AdmittedStep
<1>6. TeamOnly'
  <2>1. ~roster.team => \A i \in Ids : ~roster.parts[i].team
    BY DEF RosterInv, PartsInv, TeamOnly
  <2> QED BY <1>1, <1>3, <1>4, <2>1 DEF TeamOnly
<1>7. TeamLimits'
  <2>1. ASSUME NEW i \in Ids, roster'.parts[i].team PROVE i \in Held \/ i \in unchecked'
    <3>1. CASE i \in new
      BY <3>1, <2>1, <1>1, <1>3, <1>4
    <3>2. CASE i \notin new
      BY <3>2, <2>1, <1>3, <1>4 DEF Held, InTeam
    <3> QED BY <3>1, <3>2
  <2>2. unchecked \subseteq unchecked'
    BY <1>1
  <2>3. RosterShape'
    BY <1>2, <1>4, DeskRests
  <2> QED BY <1>2, <2>1, <2>2, <2>3, TeamStep
<1> QED
  BY <1>2, <1>4, <1>5, <1>6, <1>7, OnlyParts DEF PartsInv

\* Rows of participations go, or are approved; the team only loses.
LEMMA ParticipationsFewer ==
    ASSUME RosterInv, NEW s \in Staff, StaffDone(s), NEW P,
           MadeOf(roster', roster.users, P, roster.last, roster.team),
           \A i \in Ids : /\ P[i].team => roster.parts[i].team
                          /\ P[i].self /\ P[i].approved =>
                                i \in admitted' \/ (roster.parts[i].self /\ roster.parts[i].approved
                                                    /\ (i \in admitted => i \in admitted')),
           UNCHANGED <<registration, vanished, excused, unchecked>>
    PROVE  RosterInv'
<1>1. /\ roster' \in Tables /\ roster'.users = roster.users /\ roster'.parts = P
      /\ roster'.last = roster.last /\ roster'.team = roster.team
  BY DEF MadeOf
<1>2. OnlyTheAdmitted'
  BY <1>1, AdmittedStep
<1>3. TeamOnly'
  BY <1>1 DEF RosterInv, PartsInv, TeamOnly
<1>4. /\ RosterShape'
      /\ \A t \in Staff : Joins(desk'[t]) = Joins(desk[t]) \/ Joins(desk'[t]) = {}
  BY <1>1, DeskRests
<1>5. TeamLimits'
  <2>1. \A i \in Ids : roster'.parts[i].team => i \in Held
    BY <1>1 DEF Held, InTeam
  <2> QED BY <1>4, <2>1, TeamStep
<1> QED
  BY <1>1, <1>2, <1>3, <1>5, OnlyParts DEF PartsInv

\* The participation is deleted, by the staff or by a rejection.
LEMMA ParticipationDeleted ==
    ASSUME RosterInv, NEW s \in Staff, handleParticipationDelete(s) \/ handleParticipationReject(s)
    PROVE  RosterInv'
<1>1. PICK i : i = desk[s].id
  OBVIOUS
<1>2. /\ roster' = DeleteParticipation(roster, i) /\ admitted' = admitted \ {i} /\ StaffDone(s)
      /\ UNCHANGED <<registration, vanished, excused, unchecked>> /\ i \in Ids
  BY <1>1 DEF handleParticipationDelete, handleParticipationReject, RosterInv, RosterShape, DeskFits
<1>3. PICK P : P = [roster.parts EXCEPT ![i] = NoPart]
  OBVIOUS
<1>4. MadeOf(roster', roster.users, P, roster.last, roster.team)
  BY <1>2, <1>3, RosterIs, DeleteParticipationIs
<1>5. \A j \in Ids : P[j] = IF j = i THEN NoPart ELSE roster.parts[j]
  BY <1>3, RosterIs
<1>6. \A j \in Ids : /\ P[j].team => roster.parts[j].team
                     /\ P[j].self /\ P[j].approved => roster.parts[j].self /\ roster.parts[j].approved
                                                      /\ (j \in admitted => j \in admitted')
  BY <1>2, <1>5, NoRows
<1> QED
  BY <1>2, <1>4, <1>6, ParticipationsFewer

\* handleParticipationApprove admits.
LEMMA ParticipationApproved ==
    ASSUME RosterInv, NEW s \in Staff, handleParticipationApprove(s)
    PROVE  RosterInv'
<1>1. PICK i : i = desk[s].id
  OBVIOUS
<1>2. /\ StaffDone(s) /\ UNCHANGED <<registration, vanished, excused, unchecked>> /\ i \in Ids
      /\ \/ roster' = SetParticipationApproved(roster, i, TRUE) /\ admitted' = admitted \cup {i}
         \/ UNCHANGED <<roster, admitted>>
  BY <1>1 DEF handleParticipationApprove, RosterInv, RosterShape, DeskFits
<1>3. CASE roster' = SetParticipationApproved(roster, i, TRUE) /\ admitted' = admitted \cup {i}
  <2>0. PICK yes \in BOOLEAN : yes = TRUE
    OBVIOUS
  <2>a. roster \in Tables /\ i \in Ids /\ roster' = SetParticipationApproved(roster, i, yes)
    BY <1>2, <1>3, <2>0, RosterIs
  <2>1. PICK P : /\ MadeOf(roster', roster.users, P, roster.last, roster.team)
                 /\ P[i].self = roster.parts[i].self /\ P[i].team = roster.parts[i].team /\ P[i].approved = yes
                 /\ \A j \in Ids \ {i} : P[j] = roster.parts[j]
    BY <2>a, SetParticipationApprovedIs
  <2>2. \A j \in Ids : /\ P[j].team => roster.parts[j].team
                       /\ P[j].self /\ P[j].approved =>
                             j \in admitted' \/ (roster.parts[j].self /\ roster.parts[j].approved
                                                 /\ (j \in admitted => j \in admitted'))
    BY <1>3, <2>0, <2>1
  <2> QED BY <1>2, <2>1, <2>2, ParticipationsFewer
<1>4. CASE UNCHANGED <<roster, admitted>>
  <2>1. MadeOf(roster', roster.users, roster.parts, roster.last, roster.team)
    BY <1>4, RosterIs DEF MadeOf
  <2>2. \A j \in Ids : /\ roster.parts[j].team => roster.parts[j].team
                       /\ roster.parts[j].self /\ roster.parts[j].approved =>
                             j \in admitted' \/ (roster.parts[j].self /\ roster.parts[j].approved
                                                 /\ (j \in admitted => j \in admitted'))
    BY <1>4
  <2> QED BY <1>2, <2>1, <2>2, ParticipationsFewer
<1> QED
  BY <1>2, <1>3, <1>4

\* An administrator begins something, and nothing is written yet.
LEMMA DeskChanges ==
    ASSUME RosterInv, NEW s \in Staff, NEW r, desk' = [desk EXCEPT ![s] = r], DeskFits(r), ~Importer(r),
           UNCHANGED <<roster, registration, admitted, vanished, excused, unchecked>>, TeamLimits'
    PROVE  RosterInv'
<1>1. RosterShape /\ roster' \in Tables
  BY RosterIs DEF RosterInv
<1>2. RosterShape' /\ desk'[s] = r /\ \A t \in Staff : t # s => desk'[t] = desk[t]
  BY <1>1, ShapeStep
<1>3. \A t \in Staff : Importer(desk'[t]) => desk'[t] = desk[t]
  BY <1>2
<1>4. UsersInv'
  BY <1>3, UsersStay
<1>5. OnlyTheAdmitted' /\ TeamOnly'
  BY DEF RosterInv, PartsInv, OnlyTheAdmitted, TeamOnly
<1> QED
  BY <1>2, <1>4, <1>5 DEF RosterInv, PartsInv

\* Nobody plans to put more in the team than it holds already.
LEMMA PlansHeld ==
    ASSUME RosterInv, NEW s \in Staff, NEW r, desk' = [desk EXCEPT ![s] = r], DeskFits(r),
           UNCHANGED <<roster, unchecked>>, Joins(r) = {} \/ Joins(r) = Joins(desk[s])
    PROVE  TeamLimits'
<1>1. RosterShape /\ roster' \in Tables
  BY RosterIs DEF RosterInv
<1>2. RosterShape' /\ desk'[s] = r /\ \A t \in Staff : t # s => desk'[t] = desk[t]
  BY <1>1, ShapeStep
<1>3. \A i \in Ids : roster'.parts[i].team => i \in Held
  BY DEF Held, InTeam
<1>4. ASSUME NEW t \in Staff PROVE Joins(desk'[t]) = Joins(desk[t]) \/ Joins(desk'[t]) = {}
  <2>1. CASE t = s
    <3>1. desk'[t] = r /\ desk[t] = desk[s]
      BY <2>1, <1>2
    <3> QED BY <3>1
  <2>2. CASE t # s
    <3>1. desk'[t] = desk[t]
      BY <2>2, <1>2
    <3> QED BY <3>1
  <2> QED BY <2>1, <2>2
<1> QED
  BY <1>2, <1>3, <1>4, TeamStep

\* What the size of the team counts before rows are written.
LEMMA SizeAsked ==
    ASSUME RosterInv, NEW e, NEW P, NEW ids, ids \subseteq Ids, MadeOf(e, roster.users, P, roster.last, roster.team),
           \A i \in Ids : (i \in ids => P[i].team) /\ (i \notin ids => P[i] = roster.parts[i]), checkTeamSize(e)
    PROVE  Cardinality(InTeam \cup ids) <= MaxTeamSize
<1>1. {i \in Ids : e.parts[i].team} = InTeam \cup ids
  BY DEF MadeOf, InTeam
<1> QED
  BY <1>1 DEF checkTeamSize, CountTeamMembers

\* The members asked for fit in the team.
LEMMA MembersAsked ==
    ASSUME RosterInv, NEW s \in Staff, handleTeamMembers(s)
    PROVE  RosterInv'
<1>0. PICK ns \in SUBSET Names \ {{}} :
         LET is == {i \in Ids : roster.users[i].name \in ns}
             new == {i \in is : ~roster.parts[i].in}
         IN  desk' = [desk EXCEPT ![s] = IF checkTeamSize(WriteRows(roster, is, new, TRUE))
                                         THEN [at |-> "commit", ids |-> is, team |-> TRUE, fresh |-> new]
                                         ELSE DeskIdle]
  BY Zenon DEF handleTeamMembers
<1>1. PICK ids \in SUBSET Ids, fresh \in SUBSET Ids :
         fresh \subseteq ids /\
         desk' = [desk EXCEPT ![s] = IF checkTeamSize(WriteRows(roster, ids, fresh, TRUE))
                                     THEN [at |-> "commit", ids |-> ids, team |-> TRUE, fresh |-> fresh]
                                     ELSE DeskIdle]
  <2> DEFINE is == {i \in Ids : roster.users[i].name \in ns}
             new == {i \in is : ~roster.parts[i].in}
  <2>1. is \in SUBSET Ids /\ new \in SUBSET Ids /\ new \subseteq is
    OBVIOUS
  <2>2. desk' = [desk EXCEPT ![s] = IF checkTeamSize(WriteRows(roster, is, new, TRUE))
                                    THEN [at |-> "commit", ids |-> is, team |-> TRUE, fresh |-> new]
                                    ELSE DeskIdle]
    BY <1>0
  <2> HIDE DEF is, new
  <2> QED BY <2>1, <2>2
<1>2. UNCHANGED <<roster, registration, admitted, vanished, excused, unchecked>>
  BY DEF handleTeamMembers
<1>3. CASE ~checkTeamSize(WriteRows(roster, ids, fresh, TRUE))
  <2>1. desk' = [desk EXCEPT ![s] = DeskIdle]
    BY <1>1, <1>3
  <2>2. TeamLimits'
    BY <1>2, <2>1, IdleFits, PlansHeld
  <2> QED BY <1>2, <2>1, <2>2, IdleFits, DeskChanges
<1>4. CASE checkTeamSize(WriteRows(roster, ids, fresh, TRUE))
  <2>1. PICK r : r = [at |-> "commit", ids |-> ids, team |-> TRUE, fresh |-> fresh]
    OBVIOUS
  <2>2. r.at = "commit" /\ r.ids = ids /\ r.fresh = fresh /\ r.team /\ r.team \in BOOLEAN
    BY <2>1
  <2>3. DeskFits(r) /\ ~Importer(r) /\ Joins(r) = r.ids /\ r.ids \subseteq Ids
    BY <1>1, <2>2 DEF DeskFits, Importer, Joins
  <2>4. desk' = [desk EXCEPT ![s] = r]
    BY <1>1, <1>4, <2>1
  <2>5. PICK yes \in BOOLEAN : yes = TRUE
    OBVIOUS
  <2>6. PICK P : /\ MadeOf(WriteRows(roster, ids, fresh, yes), roster.users, P, roster.last, roster.team)
                 /\ \A i \in Ids : /\ P[i].self /\ P[i].approved => roster.parts[i].self /\ roster.parts[i].approved
                                   /\ i \in ids => P[i].team = yes
                                   /\ i \notin ids => P[i] = roster.parts[i]
    <3>1. roster \in Tables /\ fresh \in SUBSET ids
      BY <1>1, RosterIs
    <3> QED BY <3>1, WriteRowsIs
  <2>7. Cardinality(InTeam \cup ids) <= MaxTeamSize
    <3>1. checkTeamSize(WriteRows(roster, ids, fresh, yes))
      BY <1>4, <2>5
    <3>2. \A i \in Ids : (i \in ids => P[i].team) /\ (i \notin ids => P[i] = roster.parts[i])
      BY <2>5, <2>6
    <3> QED BY <2>6, <3>1, <3>2, SizeAsked
  <2>8. TeamLimits'
    BY <1>2, <2>2, <2>3, <2>4, <2>7, TeamAsked
  <2> QED BY <1>2, <2>3, <2>4, <2>8, DeskChanges
<1> QED
  BY <1>3, <1>4

\* handleParticipationUpdate: who is put in the team was counted with it.
LEMMA ParticipationAsked ==
    ASSUME RosterInv, NEW s \in Staff, handleParticipationUpdate(s)
    PROVE  RosterInv'
<1>1. PICK i : i = desk[s].id
  OBVIOUS
<1>2. PICK is : is = {i}
  OBVIOUS
<1>3. PICK t \in BOOLEAN :
         /\ desk[s].at = "loaded"
         /\ desk' = [desk EXCEPT ![s] =
               IF roster.parts[i].in /\ (t /\ ~desk[s].part.team => checkTeamSize(UpdateParticipation(roster, is, t)))
               THEN [at |-> "commit", ids |-> is, team |-> t, fresh |-> {}]
               ELSE DeskIdle]
  BY <1>1, <1>2 DEF handleParticipationUpdate
<1>4. UNCHANGED <<roster, registration, admitted, vanished, excused, unchecked>>
  BY DEF handleParticipationUpdate
<1>5. i \in Ids /\ is \subseteq Ids
  BY <1>1, <1>2, <1>3 DEF RosterInv, RosterShape, DeskFits
<1>6. CASE desk' = [desk EXCEPT ![s] = DeskIdle]
  <2>1. TeamLimits'
    BY <1>4, <1>6, IdleFits, PlansHeld
  <2> QED BY <1>4, <1>6, <2>1, IdleFits, DeskChanges
<1>7. PICK r : r = [at |-> "commit", ids |-> is, team |-> t, fresh |-> {}]
  OBVIOUS
<1>8. r.at = "commit" /\ r.ids = is /\ r.fresh = {} /\ r.team = t
  BY <1>7
<1>9. DeskFits(r) /\ ~Importer(r) /\ r.ids \subseteq Ids
  BY <1>5, <1>8 DEF DeskFits, Importer
<1>10. CASE desk' = [desk EXCEPT ![s] = r] /\ ~t
  <2>1. Joins(r) = {}
    BY <1>8, <1>10 DEF Joins
  <2>2. TeamLimits'
    BY <1>4, <1>9, <1>10, <2>1, PlansHeld
  <2> QED BY <1>4, <1>9, <1>10, <2>2, DeskChanges
<1>11. CASE desk' = [desk EXCEPT ![s] = r] /\ t /\ desk[s].part.team
  <2>1. Joins(r) = Joins(desk[s])
    BY <1>1, <1>2, <1>3, <1>8, <1>11 DEF Joins
  <2>2. TeamLimits'
    BY <1>4, <1>9, <1>11, <2>1, PlansHeld
  <2> QED BY <1>4, <1>9, <1>11, <2>2, DeskChanges
<1>12. CASE desk' = [desk EXCEPT ![s] = r] /\ t /\ checkTeamSize(UpdateParticipation(roster, is, t))
  <2>1. Joins(r) = r.ids
    BY <1>8, <1>12 DEF Joins
  <2>2. PICK P : /\ MadeOf(UpdateParticipation(roster, is, t), roster.users, P, roster.last, roster.team)
                 /\ \A j \in Ids : /\ P[j] \in PartRow /\ P[j].self = roster.parts[j].self
                                   /\ P[j].approved = roster.parts[j].approved
                                   /\ j \in is => P[j].team = t
                                   /\ j \notin is => P[j] = roster.parts[j]
    BY RosterIs, UpdateParticipationIs
  <2>3. Cardinality(InTeam \cup is) <= MaxTeamSize
    <3>1. \A j \in Ids : (j \in is => P[j].team) /\ (j \notin is => P[j] = roster.parts[j])
      BY <1>12, <2>2
    <3> QED BY <1>5, <1>12, <2>2, <3>1, SizeAsked
  <2>4. TeamLimits'
    BY <1>4, <1>8, <1>9, <1>12, <2>1, <2>3, TeamAsked
  <2> QED BY <1>4, <1>9, <1>12, <2>4, DeskChanges
<1> QED
  BY <1>3, <1>6, <1>7, <1>10, <1>11, <1>12

\* The rows that were asked for are written.
LEMMA RowsCommitted ==
    ASSUME RosterInv, NEW s \in Staff, CommitRows(s)
    PROVE  RosterInv'
<1>1. PICK r : r = desk[s]
  OBVIOUS
<1>2. /\ r.at = "commit" /\ StaffDone(s) /\ UNCHANGED <<registration, admitted, vanished, excused, unchecked>>
      /\ roster' = roster \/ (roster' = WriteRows(roster, r.ids, r.fresh, r.team) /\ (r.team => roster.team))
  BY <1>1 DEF CommitRows
<1>3. r.ids \in SUBSET Ids /\ r.fresh \in SUBSET r.ids /\ r.team \in BOOLEAN
  BY <1>1, <1>2 DEF RosterInv, RosterShape, DeskFits
<1>4. PICK P : /\ MadeOf(roster', roster.users, P, roster.last, roster.team)
               /\ \A i \in Ids : /\ P[i].self /\ P[i].approved => roster.parts[i].self /\ roster.parts[i].approved
                                 /\ P[i].team => roster.parts[i].team \/ (r.team /\ roster.team /\ i \in r.ids)
  <2>1. CASE roster' = roster
    <3>1. MadeOf(roster', roster.users, roster.parts, roster.last, roster.team)
      BY <2>1, RosterIs DEF MadeOf
    <3> QED BY <3>1
  <2>2. CASE roster' = WriteRows(roster, r.ids, r.fresh, r.team) /\ (r.team => roster.team)
    <3>1. PICK P : /\ MadeOf(roster', roster.users, P, roster.last, roster.team)
                   /\ \A i \in Ids : /\ P[i].self /\ P[i].approved => roster.parts[i].self /\ roster.parts[i].approved
                                     /\ i \in r.ids => P[i].team = r.team
                                     /\ i \notin r.ids => P[i] = roster.parts[i]
      <4>1. PICK t \in BOOLEAN : t = r.team
        BY <1>3
      <4>2. PICK ids \in SUBSET Ids, fresh \in SUBSET Ids : fresh \in SUBSET ids /\ ids = r.ids /\ fresh = r.fresh
        BY <1>3
      <4>3. roster \in Tables /\ roster' = WriteRows(roster, ids, fresh, t)
        BY <2>2, <4>1, <4>2, RosterIs
      <4>4. PICK P : /\ MadeOf(roster', roster.users, P, roster.last, roster.team)
                     /\ \A i \in Ids : /\ P[i].self /\ P[i].approved => roster.parts[i].self /\ roster.parts[i].approved
                                       /\ i \in ids => P[i].team = t
                                       /\ i \notin ids => P[i] = roster.parts[i]
        BY <4>2, <4>3, WriteRowsIs
      <4> QED BY <4>1, <4>2, <4>4
    <3>2. \A i \in Ids : P[i].team => roster.parts[i].team \/ (r.team /\ roster.team /\ i \in r.ids)
      BY <2>2, <3>1
    <3> QED BY <3>1, <3>2
  <2> QED BY <1>2, <2>1, <2>2
<1>5. /\ roster' \in Tables /\ roster'.users = roster.users /\ roster'.parts = P
      /\ roster'.last = roster.last /\ roster'.team = roster.team
  BY <1>4 DEF MadeOf
<1>6. OnlyTheAdmitted'
  <2>1. \A i \in Ids : roster'.parts[i].self /\ roster'.parts[i].approved => roster.parts[i].self /\ roster.parts[i].approved
    BY <1>4, <1>5
  <2> QED BY <1>2, <2>1, AdmittedStep
<1>7. TeamOnly'
  BY <1>4, <1>5 DEF RosterInv, PartsInv, TeamOnly
<1>8. /\ RosterShape'
      /\ \A t \in Staff : Joins(desk'[t]) = Joins(desk[t]) \/ Joins(desk'[t]) = {}
  BY <1>2, <1>5, DeskRests
<1>9. TeamLimits'
  <2>1. ASSUME NEW i \in Ids, roster'.parts[i].team PROVE i \in Held
    <3>1. CASE roster.parts[i].team
      BY <3>1 DEF Held, InTeam
    <3>2. CASE r.team /\ i \in r.ids
      <4>1. i \in Joins(desk[s])
        BY <1>1, <1>2, <3>2 DEF Joins
      <4> QED BY <4>1 DEF Held
    <3> QED BY <2>1, <3>1, <3>2, <1>4, <1>5
  <2> QED BY <1>2, <1>8, <2>1, TeamStep
<1> QED
  BY <1>2, <1>5, <1>6, <1>7, <1>9, OnlyParts DEF PartsInv

\* handleTeamDelete empties it.
LEMMA TeamDeleted ==
    ASSUME RosterInv, NEW s \in Staff, handleTeamDelete(s)
    PROVE  RosterInv'
<1>1. roster' = DeleteTeam(roster) /\ UNCHANGED <<registration, desk, admitted, vanished, excused, unchecked>>
  BY DEF handleTeamDelete
<1>2. PICK no \in BOOLEAN : no = FALSE
  OBVIOUS
<1>3. PICK P : /\ MadeOf(roster', roster.users, P, roster.last, no)
               /\ \A i \in Ids : ~P[i].team /\ P[i].self = roster.parts[i].self /\ P[i].approved = roster.parts[i].approved
  <2>1. roster \in Tables
    BY RosterIs
  <2>2. \E P : /\ MadeOf(DeleteTeam(roster), roster.users, P, roster.last, FALSE)
               /\ \A i \in Ids : ~P[i].team /\ P[i].self = roster.parts[i].self /\ P[i].approved = roster.parts[i].approved
    BY <2>1, DeleteTeamIs, Zenon
  <2> QED BY <1>1, <1>2, <2>2
<1>4. /\ roster' \in Tables /\ roster'.users = roster.users /\ roster'.parts = P /\ roster'.last = roster.last
  BY <1>3 DEF MadeOf
<1>5. OnlyTheAdmitted'
  <2>1. \A i \in Ids : roster'.parts[i].self /\ roster'.parts[i].approved => roster.parts[i].self /\ roster.parts[i].approved
    BY <1>3, <1>4
  <2> QED BY <1>1, <2>1, AdmittedStep
<1>6. \A i \in Ids : ~roster'.parts[i].team
  BY <1>3, <1>4
<1>7. TeamLimits'
  BY <1>1, <1>6, TeamNew
<1> QED
  BY <1>1, <1>4, <1>5, <1>6, <1>7, OnlyParts DEF PartsInv, TeamOnly

\* handleTeamCreate makes an empty one.
LEMMA TeamCreated ==
    ASSUME RosterInv, NEW s \in Staff, handleTeamCreate(s)
    PROVE  RosterInv'
<1>1. /\ roster' = CreateTeam(roster) /\ ~roster.team
      /\ UNCHANGED <<registration, desk, admitted, vanished, excused>>
  BY DEF handleTeamCreate, GetTeamByCode
<1>2. PICK yes \in BOOLEAN : yes = TRUE
  OBVIOUS
<1>3. MadeOf(roster', roster.users, roster.parts, roster.last, yes)
  <2>1. roster \in Tables
    BY RosterIs
  <2> QED BY <1>1, <1>2, <2>1, CreateTeamIs, Zenon
<1>4. /\ roster' \in Tables /\ roster'.users = roster.users /\ roster'.parts = roster.parts
      /\ roster'.last = roster.last /\ roster'.team
  BY <1>2, <1>3 DEF MadeOf
<1>5. OnlyTheAdmitted'
  BY <1>1, <1>4, AdmittedStep
<1>6. \A i \in Ids : ~roster'.parts[i].team
  BY <1>1, <1>4 DEF RosterInv, PartsInv, TeamOnly
<1>7. TeamLimits'
  BY <1>1, <1>6, TeamNew
<1> QED
  BY <1>1, <1>4, <1>5, <1>6, <1>7, OnlyParts DEF PartsInv, TeamOnly

(***************************************************************************)
(* The steps of an import.                                                 *)
(***************************************************************************)
\* An import begins or goes on: what it found is there.
LEMMA ImportGoes ==
    ASSUME RosterInv, NEW s \in Staff, NEW r, desk' = [desk EXCEPT ![s] = r], DeskFits(r), Importer(r),
           \A n \in r.existing : (Importer(desk[s]) /\ n \in desk[s].existing) \/ Present(roster, n),
           UNCHANGED <<roster, registration, admitted, vanished, excused, unchecked>>
    PROVE  RosterInv'
<1>1. RosterShape /\ roster' \in Tables /\ Joins(r) = {}
  BY RosterIs DEF RosterInv, Importer, Joins
<1>2. RosterShape' /\ desk'[s] = r /\ \A t \in Staff : t # s => desk'[t] = desk[t]
  BY <1>1, ShapeStep
<1>3. UsersInv'
  <2>1. ASSUME NEW t \in Staff, Importer(desk'[t]), NEW n \in desk'[t].existing
        PROVE  (Importer(desk[t]) /\ n \in desk[t].existing) \/ Present(roster', n)
    <3>1. CASE t = s
      <4>1. n \in r.existing /\ desk[t] = desk[s]
        BY <2>1, <3>1, <1>2
      <4> QED BY <4>1, Zenon
    <3>2. CASE t # s
      <4>1. desk'[t] = desk[t]
        BY <3>2, <1>2
      <4> QED BY <4>1, <2>1
    <3> QED BY <3>1, <3>2
  <2>2. \A i \in Ids : i > roster'.last => roster'.users[i] = NoUser
    BY DEF RosterInv, UsersInv, IdsGiven
  <2> QED BY <2>1, <2>2, UsersStep
<1>4. OnlyTheAdmitted' /\ TeamOnly'
  BY DEF RosterInv, PartsInv, OnlyTheAdmitted, TeamOnly
<1>5. TeamLimits'
  BY <1>1, PlansHeld
<1> QED
  BY <1>2, <1>3, <1>4, <1>5 DEF RosterInv, PartsInv

\* The names an import finds are names of the tables.
LEMMA ExistingPresent ==
    ASSUME NEW ns, NEW n
    PROVE  n \in ListExistingUsernames(roster, ns) <=> n \in ns /\ Present(roster, n)
BY DEF ListExistingUsernames, Present

\* The files have rows of names.
LEMMA FilesAre ==
    ASSUME NEW f \in Files, parseUsersCSV(f)
    PROVE  f \in ImportFile /\ Range(f.rows) \subseteq Names /\ \A n \in Range(f.rows) : \E k \in DOMAIN f.rows : n = f.rows[k]
<1>1. f \in [rows : Seq(Range(f.rows)), pw : BOOLEAN, team : BOOLEAN, update : BOOLEAN, generate : BOOLEAN]
  BY RegistrarAssumption, Zenon
<1>2. PICK S : S = Range(f.rows)
  OBVIOUS
<1>3. f \in [rows : Seq(S), pw : BOOLEAN, team : BOOLEAN, update : BOOLEAN, generate : BOOLEAN]
  BY <1>1, <1>2
<1>4. f.rows \in Seq(S)
  BY <1>3
<1>5. \A n \in S : \E k \in DOMAIN f.rows : n = f.rows[k]
  BY <1>2 DEF Range
<1>6. \A k \in DOMAIN f.rows : f.rows[k] \in Names
  BY DEF parseUsersCSV
<1>7. S \subseteq Names
  BY <1>5, <1>6
<1>8. f.rows \in Seq(Names)
  BY <1>4, <1>6
<1> QED
  BY <1>2, <1>3, <1>5, <1>7, <1>8 DEF ImportFile

\* The import reads the file and who is there.
LEMMA ImportBegun ==
    ASSUME RosterInv, NEW s \in Staff, handleUserImport(s)
    PROVE  RosterInv'
<1>1. PICK f \in Files :
         /\ validateImport(roster, f)
         /\ desk' = [desk EXCEPT ![s] = [at |-> "import", file |-> f,
                                         existing |-> ListExistingUsernames(roster, Range(f.rows))]]
  BY Zenon DEF handleUserImport
<1>2. UNCHANGED <<roster, registration, admitted, vanished, excused, unchecked>>
  BY DEF handleUserImport
<1>3. PICK found : found = ListExistingUsernames(roster, Range(f.rows))
  OBVIOUS
<1>4. PICK r : r = [at |-> "import", file |-> f, existing |-> found]
  OBVIOUS
<1>5. r.at = "import" /\ r.file = f /\ r.existing = found
  BY <1>4
<1>6. \A n : n \in found <=> n \in Range(f.rows) /\ Present(roster, n)
  BY <1>3, ExistingPresent
<1>7. /\ f \in ImportFile /\ Range(f.rows) \subseteq Names
      /\ \A n \in Range(f.rows) : \E k \in DOMAIN f.rows : n = f.rows[k]
  BY <1>1, FilesAre DEF validateImport
<1>8. ASSUME ~f.pw, ~f.generate PROVE Range(f.rows) \subseteq found
  <2>1. ASSUME NEW n \in Range(f.rows) PROVE Present(roster, n)
    <3>1. PICK k \in DOMAIN f.rows : n = f.rows[k]
      BY <1>7
    <3>2. ListExistingUsernames(roster, {f.rows[k]}) # {}
      BY <1>1, <1>8 DEF validateImport
    <3>3. PICK m : m \in ListExistingUsernames(roster, {f.rows[k]})
      BY <3>2
    <3>4. m \in {f.rows[k]} /\ Present(roster, m)
      BY <3>3, ExistingPresent
    <3> QED BY <3>1, <3>4
  <2> QED BY <2>1, <1>6
<1>9. DeskFits(r) /\ Importer(r)
  BY <1>5, <1>6, <1>7, <1>8 DEF DeskFits, Importer
<1>10. desk' = [desk EXCEPT ![s] = r]
  BY <1>1, <1>3, <1>4
<1>11. \A n \in r.existing : Present(roster, n)
  BY <1>5, <1>6
<1> QED
  BY <1>2, <1>9, <1>10, <1>11, ImportGoes

\* The passwords are hashed for who was not there.
LEMMA ImportHashed ==
    ASSUME RosterInv, NEW s \in Staff, hashAll(s)
    PROVE  RosterInv'
<1>1. PICK q : q = desk[s]
  OBVIOUS
<1>2. PICK there : there = ListExistingUsernames(roster, Range(q.file.rows))
  OBVIOUS
<1>3. PICK hashed : hashed = IF q.file.pw THEN Range(q.file.rows)
                             ELSE IF q.file.generate THEN Range(q.file.rows) \ there ELSE {}
  OBVIOUS
<1>4. PICK file : file = [q.file EXCEPT !.team = q.file.team /\ roster.team]
  OBVIOUS
<1>5. PICK r : r = [at |-> "hashed", file |-> file, existing |-> q.existing \cup there, hashed |-> hashed]
  OBVIOUS
<1>6. /\ q.at = "import" /\ desk' = [desk EXCEPT ![s] = r]
      /\ UNCHANGED <<roster, registration, admitted, vanished, excused, unchecked>>
  BY <1>1, <1>2, <1>3, <1>4, <1>5 DEF hashAll
<1>7. /\ q.file \in ImportFile /\ q.existing \subseteq Names
      /\ ~q.file.pw /\ ~q.file.generate => Range(q.file.rows) \subseteq q.existing
  BY <1>1, <1>6 DEF RosterInv, RosterShape, DeskFits, Importer
<1>8. file \in ImportFile /\ file.rows = q.file.rows
  <2>1. (q.file.team /\ roster.team) \in BOOLEAN
    OBVIOUS
  <2>2. PICK t \in BOOLEAN : t = (q.file.team /\ roster.team)
    BY <2>1
  <2>3. file = [q.file EXCEPT !.team = t]
    BY <1>4, <2>2
  <2> QED BY <1>7, <2>3 DEF ImportFile
<1>9. r.at = "hashed" /\ r.file = file /\ r.existing = q.existing \cup there /\ r.hashed = hashed
  BY <1>5
<1>10. \A n : n \in there <=> n \in Range(q.file.rows) /\ Present(roster, n)
  BY <1>2, ExistingPresent
<1>11. Range(q.file.rows) \subseteq Names
  <2>1. q.file.rows \in Seq(Names)
    BY <1>7 DEF ImportFile
  <2> QED BY <2>1 DEF Range
<1>12. Range(q.file.rows) \subseteq (q.existing \cup there) \cup hashed
  BY <1>3, <1>7
<1>13. DeskFits(r) /\ Importer(r)
  <2>1. r.existing \subseteq Names
    BY <1>7, <1>9, <1>10, <1>11
  <2>2. Range(r.file.rows) \subseteq r.existing \cup r.hashed
    BY <1>8, <1>9, <1>12
  <2> QED BY <1>8, <1>9, <2>1, <2>2 DEF DeskFits, Importer
<1>14. ASSUME NEW n \in r.existing
       PROVE  (Importer(desk[s]) /\ n \in desk[s].existing) \/ Present(roster, n)
  BY <1>1, <1>6, <1>9, <1>10 DEF Importer
<1> QED
  BY <1>6, <1>13, <1>14, ImportGoes

\* An import that fails writes nothing.
LEMMA ImportFailed ==
    ASSUME RosterInv, NEW s \in Staff, importFails(s)
    PROVE  RosterInv'
<1>1. desk' = [desk EXCEPT ![s] = DeskIdle]
      /\ UNCHANGED <<roster, registration, admitted, vanished, excused, unchecked>>
  BY DEF importFails, StaffDone
<1>2. TeamLimits'
  BY <1>1, IdleFits, PlansHeld
<1> QED
  BY <1>1, <1>2, IdleFits, DeskChanges

\* The import is written: who is new has a password unless somebody vanished meanwhile.
LEMMA ImportRun ==
    ASSUME RosterInv, NEW s \in Staff, runImport(s)
    PROVE  RosterInv'
<1>1. PICK q : q = desk[s]
  OBVIOUS
<1>2. /\ q.at = "hashed" /\ roster' = importRow(roster, q.file, q.hashed) /\ (q.file.team => roster.team)
      /\ excused' = excused \cup {i \in Ids : i > roster.last /\ roster'.users[i].name \in vanished}
      /\ unchecked' = IF q.file.team
                      THEN unchecked \cup {i \in Ids : roster'.users[i].name \in Range(q.file.rows)} ELSE unchecked
      /\ StaffDone(s) /\ UNCHANGED <<registration, admitted, vanished>>
  BY <1>1 DEF runImport
<1>3. q.file \in ImportFile /\ Range(q.file.rows) \subseteq q.existing \cup q.hashed
  BY <1>1, <1>2 DEF RosterInv, RosterShape, DeskFits, Importer
<1>4. \A n \in q.existing : n \in vanished \/ Present(roster, n)
  BY <1>1, <1>2 DEF RosterInv, UsersInv, FoundKept, Importer
<1>5. PICK U, P, l :
         /\ MadeOf(importRow(roster, q.file, q.hashed), U, P, l, roster.team)
         /\ l >= roster.last /\ \A i \in Ids : i > l => U[i] = NoUser
         /\ \A i \in Ids : ~(i > roster.last) => U[i].name = roster.users[i].name /\ (roster.users[i].pw => U[i].pw)
         /\ \A i \in Ids : i > roster.last /\ U[i] # NoUser =>
               /\ U[i].name \in Range(q.file.rows) /\ ~Present(roster, U[i].name)
               /\ U[i].name \in q.hashed => U[i].pw
         /\ \A i \in Ids : P[i].self /\ P[i].approved => roster.parts[i].self /\ roster.parts[i].approved
         /\ \A i \in Ids : P[i].team => roster.parts[i].team \/ (q.file.team /\ U[i].name \in Range(q.file.rows))
  <2>1. \A i \in Ids : i > roster.last => roster.users[i] = NoUser
    BY DEF RosterInv, UsersInv, IdsGiven
  <2>2. roster \in Tables
    BY RosterIs
  <2>3. q.file \in ImportFile
    BY <1>3
  <2> QED BY <2>1, <2>2, <2>3, ImportRowIs, Zenon
<1>6. roster' \in Tables /\ roster'.users = U /\ roster'.parts = P /\ roster'.last = l /\ roster'.team = roster.team
  BY <1>2, <1>5 DEF MadeOf
<1>7. /\ RosterShape'
      /\ \A t \in Staff : Importer(desk'[t]) => desk'[t] = desk[t]
      /\ \A t \in Staff : Joins(desk'[t]) = Joins(desk[t]) \/ Joins(desk'[t]) = {}
  BY <1>2, <1>6, DeskRests
<1>8. UsersInv'
  <2>1. excused \subseteq excused' /\ vanished' = vanished
    BY <1>2
  <2>2. \A i \in Ids : i > roster'.last => roster'.users[i] = NoUser
    BY <1>5, <1>6
  <2>3. ASSUME NEW i \in Ids, roster'.users[i] # NoUser, ~roster'.users[i].pw
        PROVE  (roster.users[i] # NoUser /\ ~roster.users[i].pw) \/ i \in excused'
    <3>1. CASE i > roster.last
      <4>1. /\ U[i].name \in Range(q.file.rows) /\ ~Present(roster, U[i].name) /\ U[i].name \notin q.hashed
        BY <2>3, <3>1, <1>5, <1>6
      <4>2. U[i].name \in vanished
        BY <4>1, <1>3, <1>4
      <4> QED BY <3>1, <4>2, <1>2, <1>6
    <3>2. CASE ~(i > roster.last)
      <4>1. U[i].name = roster.users[i].name /\ (roster.users[i].pw => U[i].pw)
        BY <3>2, <1>5
      <4>2. roster.users[i] # NoUser
        <5>1. CASE roster.users[i] = NoUser
          <6>1. U[i].name = "" /\ U[i].pw = FALSE
            <7>1. U[i].name = ""
              BY <4>1, <5>1, NoRows, Zenon
            <7>2. U[i] \in UserRow /\ ~U[i].pw
              BY <2>3, <1>6 DEF Tables
            <7> QED BY <7>1, <7>2 DEF UserRow
          <6>2. U[i] \in UserRow
            BY <1>6 DEF Tables
          <6>3. U[i] = NoUser
            BY <6>1, <6>2 DEF UserRow, NoUser
          <6> QED BY <6>3, <2>3, <1>6
        <5> QED BY <5>1
      <4> QED BY <4>1, <4>2, <2>3, <1>6
    <3> QED BY <3>1, <3>2
  <2>4. ASSUME NEW i \in Ids
        PROVE  roster'.users[i].name = roster.users[i].name \/ roster.users[i].name \notin Names
    <3>1. CASE i > roster.last
      <4>1. roster.users[i] = NoUser
        BY <3>1 DEF RosterInv, UsersInv, IdsGiven
      <4> QED BY <4>1, NoRows, RegistrarAssumption, Zenon
    <3>2. CASE ~(i > roster.last)
      BY <3>2, <1>5, <1>6
    <3> QED BY <3>1, <3>2
  <2> QED BY <2>1, <2>2, <2>3, <2>4, <1>7, UsersStep
<1>9. OnlyTheAdmitted'
  BY <1>2, <1>5, <1>6, AdmittedStep
<1>10. TeamOnly'
  BY <1>2, <1>5, <1>6 DEF RosterInv, PartsInv, TeamOnly
<1>11. TeamLimits'
  <2>1. ASSUME NEW i \in Ids, roster'.parts[i].team PROVE i \in Held \/ i \in unchecked'
    <3>1. CASE roster.parts[i].team
      BY <3>1 DEF Held, InTeam
    <3>2. CASE q.file.team /\ U[i].name \in Range(q.file.rows)
      BY <3>2, <1>2, <1>6
    <3> QED BY <2>1, <3>1, <3>2, <1>5, <1>6
  <2>2. unchecked \subseteq unchecked'
    BY <1>2
  <2> QED BY <1>7, <2>1, <2>2, TeamStep
<1> QED
  BY <1>7, <1>8, <1>9, <1>10, <1>11 DEF RosterInv, PartsInv

(***************************************************************************)
(* The registration page, and all of it together.                          *)
(***************************************************************************)
LEMMA Registered ==
    ASSUME RosterInv, handleRegister
    PROVE  RosterInv'
<1>1. PICK n \in Names :
         /\ IdsLeft(roster, 1)
         /\ roster' = LET u == CreateUser(roster, n, TRUE)
                          p == CreateParticipation(u, {u.last}, FALSE)
                          d == [p EXCEPT !.parts[u.last].self = TRUE]
                      IN  IF registration = "code" THEN d ELSE SetParticipationApproved(d, u.last, FALSE)
  BY Zenon DEF handleRegister
<1>2. UNCHANGED <<registration, desk, admitted, vanished, excused, unchecked>>
  BY DEF handleRegister
<1>3. PICK u : u = CreateUser(roster, n, TRUE)
  OBVIOUS
<1>4. /\ roster.last + 1 \in Ids
      /\ MadeOf(u, [roster.users EXCEPT ![roster.last + 1] = [name |-> n, pw |-> TRUE]],
                roster.parts, roster.last + 1, roster.team)
  BY <1>1, <1>3, RosterIs, CreateUserIs
<1>5. /\ u \in Tables /\ u.users = [roster.users EXCEPT ![roster.last + 1] = [name |-> n, pw |-> TRUE]]
      /\ u.parts = roster.parts /\ u.last = roster.last + 1 /\ u.team = roster.team
  BY <1>4 DEF MadeOf
<1>6. PICK k : k = u.last
  OBVIOUS
<1>7. PICK no \in BOOLEAN : no = FALSE
  OBVIOUS
<1>8. PICK yes \in BOOLEAN : yes = TRUE
  OBVIOUS
<1>9. PICK is : is = {k}
  OBVIOUS
<1>10. PICK p : p = CreateParticipation(u, is, no)
  OBVIOUS
<1>11. PICK P : /\ MadeOf(p, u.users, P, u.last, u.team)
                /\ \A i \in Ids : /\ P[i] \in PartRow
                                  /\ i \in is => P[i].in /\ ~P[i].self /\ P[i].approved /\ P[i].team = no
                                  /\ i \notin is => P[i] = u.parts[i]
  BY <1>5, <1>10, CreateParticipationIs
<1>12. /\ p \in Tables /\ p.users = u.users /\ p.parts = P /\ p.last = u.last /\ p.team = roster.team
       /\ k \in Ids /\ ~P[k].team /\ \A i \in Ids : i # k => P[i] = roster.parts[i]
       /\ P \in [Ids -> PartRow]
  <2>1. k \in Ids
    BY <1>4, <1>5, <1>6
  <2>2. p \in Tables /\ p.users = u.users /\ p.parts = P /\ p.last = u.last /\ p.team = roster.team
    BY <1>5, <1>11 DEF MadeOf
  <2>3. P \in [Ids -> PartRow]
    BY <2>2 DEF Tables
  <2> QED BY <2>1, <2>2, <2>3, <1>5, <1>7, <1>9, <1>11
<1>13. PICK r : r = [P[k] EXCEPT !.self = TRUE]
  OBVIOUS
<1>14. r \in PartRow /\ ~r.team
  <2>1. P[k] \in PartRow /\ r = [P[k] EXCEPT !.self = yes]
    BY <1>8, <1>12, <1>13
  <2> QED BY <2>1, <1>12, SelfMade
<1>15. PICK Q : Q = [P EXCEPT ![k] = r]
  OBVIOUS
<1>16. Q \in [Ids -> PartRow] /\ Q[k] = r /\ \A i \in Ids : i # k => Q[i] = roster.parts[i]
  BY <1>12, <1>14, <1>15
<1>17. PICK d : d = [p EXCEPT !.parts[k].self = TRUE]
  OBVIOUS
<1>18. d = [p EXCEPT !.parts = Q]
  BY <1>12, <1>13, <1>15, <1>17, RowUpdates DEF Tables
<1>19. MadeOf(d, u.users, Q, u.last, roster.team)
  <2>1. MadeOf(d, p.users, Q, p.last, p.team)
    BY <1>12, <1>16, <1>18, NewParts
  <2> QED BY <2>1, <1>12
<1>20. d \in Tables /\ d.users = u.users /\ d.parts = Q /\ d.last = u.last /\ d.team = roster.team
  BY <1>19 DEF MadeOf
<1>21. roster' = IF registration = "code" THEN d ELSE SetParticipationApproved(d, k, no)
  BY <1>1, <1>3, <1>6, <1>7, <1>9, <1>10, <1>17
<1>22. PICK R : /\ MadeOf(roster', u.users, R, u.last, roster.team)
                /\ ~R[k].team /\ (registration # "code" => ~R[k].approved)
                /\ \A i \in Ids : i # k => R[i] = roster.parts[i]
  <2>1. CASE registration = "code"
    <3>1. roster' = d
      BY <1>21, <2>1
    <3> QED BY <3>1, <2>1, <1>14, <1>16, <1>19
  <2>2. CASE registration # "code"
    <3>1. roster' = SetParticipationApproved(d, k, no)
      BY <1>21, <2>2
    <3>2. PICK R : /\ MadeOf(roster', d.users, R, d.last, d.team)
                   /\ R[k].self = d.parts[k].self /\ R[k].team = d.parts[k].team /\ R[k].approved = no
                   /\ \A j \in Ids \ {k} : R[j] = d.parts[j]
      BY <3>1, <1>12, <1>20, SetParticipationApprovedIs
    <3> QED BY <3>2, <1>7, <1>14, <1>16, <1>20
  <2> QED BY <2>1, <2>2
<1>23. /\ roster' \in Tables /\ roster'.users = u.users /\ roster'.parts = R /\ roster'.last = u.last
       /\ roster'.team = roster.team
  BY <1>22 DEF MadeOf
<1>24. UsersInv'
  BY <1>2, <1>4, <1>5, <1>23, UserAdded
<1>25. RosterShape'
  BY <1>2, <1>23, Zenon DEF RosterInv, RosterShape
<1>26. OnlyTheAdmitted'
  <2>1. registration = "approval" => \A i \in Ids : roster'.parts[i].self /\ roster'.parts[i].approved =>
                                        roster.parts[i].self /\ roster.parts[i].approved
    BY <1>22, <1>23
  <2> QED BY <1>2, <2>1, AdmittedStep
<1>27. TeamOnly'
  BY <1>22, <1>23 DEF RosterInv, PartsInv, TeamOnly
<1>28. TeamLimits'
  <2>1. \A i \in Ids : roster'.parts[i].team => i \in Held
    BY <1>22, <1>23 DEF Held, InTeam
  <2> QED BY <1>2, <1>25, <2>1, TeamStep
<1> QED
  BY <1>24, <1>25, <1>26, <1>27, <1>28 DEF RosterInv, PartsInv

\* The first users have passwords.
LEMMA RosterInitial == RegistrarInit => RosterInv
<1> SUFFICES ASSUME RegistrarInit PROVE RosterInv
  OBVIOUS
<1>1. PICK n \in Names : roster = [users |-> [i \in Ids |-> IF i = 1 THEN [name |-> n, pw |-> TRUE] ELSE NoUser],
                                   parts |-> [i \in Ids |-> NoPart], last |-> 1, team |-> TRUE]
  <2>1. Names # {}
    BY RegistrarAssumption, Zenon
  <2>2. PICK n : n = CHOOSE m \in Names : TRUE
    OBVIOUS
  <2>3. n \in Names
    BY <2>1, <2>2
  <2> QED BY <2>2, <2>3 DEF RegistrarInit
<1>2. PICK U : U = [i \in Ids |-> IF i = 1 THEN [name |-> n, pw |-> TRUE] ELSE NoUser]
  OBVIOUS
<1>3. \A i \in Ids : U[i] \in UserRow /\ (i # 1 => U[i] = NoUser) /\ (i = 1 => U[i].pw)
  <2>1. PICK r : r = [name |-> n, pw |-> TRUE]
    OBVIOUS
  <2>2. r \in UserRow /\ r.pw
    BY <2>1 DEF UserRow
  <2>3. \A i \in Ids : U[i] = IF i = 1 THEN r ELSE NoUser
    BY <1>2, <2>1
  <2> QED BY <2>2, <2>3, NoRows
<1>4. PICK P : P = [i \in Ids |-> NoPart]
  OBVIOUS
<1>5. P \in [Ids -> PartRow] /\ \A i \in Ids : P[i] = NoPart
  BY <1>4, NoRows
<1>6. roster = [users |-> U, parts |-> P, last |-> 1, team |-> TRUE] /\ U \in [Ids -> UserRow]
  BY <1>1, <1>2, <1>3, <1>4
<1>7. roster \in Tables /\ roster.users = U /\ roster.parts = P /\ roster.last = 1 /\ roster.team
  BY <1>5, <1>6 DEF Tables
<1>8. DOMAIN desk = Staff /\ \A s \in Staff : desk[s] = DeskIdle
  BY DEF RegistrarInit
<1>9. RosterShape
  BY <1>7, <1>8, IdleFits, Zenon DEF RosterShape
<1>10. UsersInv
  <2>1. IdsGiven
    BY <1>3, <1>7, IdsAre DEF IdsGiven
  <2>2. FoundKept
    BY <1>8, IdleFits, Zenon DEF FoundKept
  <2>3. EveryoneHasPassword
    BY <1>3, <1>7 DEF EveryoneHasPassword
  <2> QED BY <2>1, <2>2, <2>3 DEF UsersInv
<1>11. OnlyTheAdmitted /\ TeamOnly
  BY <1>5, <1>7, NoRows DEF OnlyTheAdmitted, TeamOnly
<1>12. TeamLimits
  <2>1. \A s \in Staff : Joins(desk[s]) = {}
    BY <1>8, IdleFits, Zenon
  <2>2. Held = {}
    BY <2>1, <1>5, <1>7, NoRows DEF Held, InTeam
  <2>3. Cardinality({}) = 0
    BY FS_EmptySet
  <2>4. Held \ unchecked = {}
    BY <2>2
  <2>5. \A s \in Staff : Cardinality(Joins(desk[s])) <= MaxTeamSize
    <3>1. 0 <= MaxTeamSize
      BY NatProduct
    <3> QED BY <2>1, <2>3, <3>1, Zenon
  <2>6. Cardinality(Held \ unchecked) <= MaxTeamSize * Cardinality(Staff)
    <3>1. \A m \in Nat : 0 <= m
      OBVIOUS
    <3>2. 0 <= MaxTeamSize * Cardinality(Staff)
      BY <3>1, NatProduct, Zenon
    <3> QED BY <2>3, <2>4, <3>2, Zenon
  <2> QED BY <2>5, <2>6 DEF TeamLimits
<1> QED
  BY <1>9, <1>10, <1>11, <1>12 DEF RosterInv, PartsInv

\* The invariant is of these variables.
LEMMA RosterStutters == RosterInv /\ UNCHANGED registrarVars => RosterInv'
BY DEF registrarVars, RosterInv, RosterShape, UsersInv, IdsGiven, FoundKept, Present, EveryoneHasPassword,
       PartsInv, OnlyTheAdmitted, TeamOnly, TeamLimits, Held, InTeam

\* Every step of the registrar keeps the invariant.
LEMMA RosterStep == RosterInv /\ [RegistrarNext]_registrarVars => RosterInv'
<1> SUFFICES ASSUME RosterInv, [RegistrarNext]_registrarVars PROVE RosterInv'
  OBVIOUS
<1>1. ASSUME NEW s \in Staff, LoadRow(s) PROVE RosterInv'
  BY <1>1, LoadRowStep
<1>2. ASSUME NEW s \in Staff, handleUserCreate(s) PROVE RosterInv'
  BY <1>2, UserCreated
<1>3. ASSUME NEW s \in Staff, handleUserUpdate(s) PROVE RosterInv'
  BY <1>3, UserUpdated
<1>4. ASSUME NEW s \in Staff, handleUserDelete(s) PROVE RosterInv'
  BY <1>4, UserDeleted
<1>5. ASSUME NEW s \in Staff, handleUserResetPassword(s) PROVE RosterInv'
  BY <1>5, PasswordsSet DEF handleUserResetPassword
<1>6. ASSUME NEW s \in Staff, handleContestResetPasswords(s) PROVE RosterInv'
  BY <1>6, PasswordsSet DEF handleContestResetPasswords
<1>7. ASSUME NEW s \in Staff, handleParticipationCreate(s) PROVE RosterInv'
  BY <1>7, ParticipationsCreated
<1>8. ASSUME NEW s \in Staff, handleParticipationUpdate(s) PROVE RosterInv'
  BY <1>8, ParticipationAsked
<1>9. ASSUME NEW s \in Staff, handleTeamMembers(s) PROVE RosterInv'
  BY <1>9, MembersAsked
<1>10. ASSUME NEW s \in Staff, CommitRows(s) PROVE RosterInv'
  BY <1>10, RowsCommitted
<1>11. ASSUME NEW s \in Staff, handleParticipationDelete(s) \/ handleParticipationReject(s) PROVE RosterInv'
  BY <1>11, ParticipationDeleted
<1>12. ASSUME NEW s \in Staff, handleParticipationApprove(s) PROVE RosterInv'
  BY <1>12, ParticipationApproved
<1>13. ASSUME NEW s \in Staff, handleTeamDelete(s) PROVE RosterInv'
  BY <1>13, TeamDeleted
<1>14. ASSUME NEW s \in Staff, handleTeamCreate(s) PROVE RosterInv'
  BY <1>14, TeamCreated
<1>15. ASSUME NEW s \in Staff, handleUserImport(s) PROVE RosterInv'
  BY <1>15, ImportBegun
<1>16. ASSUME NEW s \in Staff, hashAll(s) PROVE RosterInv'
  BY <1>16, ImportHashed
<1>17. ASSUME NEW s \in Staff, runImport(s) PROVE RosterInv'
  BY <1>17, ImportRun
<1>18. ASSUME NEW s \in Staff, importFails(s) PROVE RosterInv'
  BY <1>18, ImportFailed
<1>19. CASE handleRegister
  BY <1>19, Registered
<1>20. CASE UNCHANGED registrarVars
  BY <1>20, RosterStutters
<1> QED
  BY <1>1, <1>2, <1>3, <1>4, <1>5, <1>6, <1>7, <1>8, <1>9, <1>10, <1>11, <1>12, <1>13, <1>14, <1>15, <1>16,
     <1>17, <1>18, <1>19, <1>20, Zenon DEF RegistrarNext

\* The invariant implies what the run checks.
LEMMA RosterInvSound == RosterInv => RosterSound
<1> SUFFICES ASSUME RosterInv PROVE TeamsBounded
  BY DEF RosterInv, UsersInv, PartsInv, RosterSound
<1>1. PICK T, H : T = {i \in Ids \ unchecked : roster.parts[i].team} /\ H = Held \ unchecked
  OBVIOUS
<1>2. T \subseteq H
  BY <1>1 DEF Held, InTeam
<1>3. H \subseteq Ids
  BY <1>1, JoinsAre DEF RosterInv, RosterShape, Held, InTeam
<1>4. IsFiniteSet(H) /\ IsFiniteSet(T) /\ Cardinality(T) <= Cardinality(H)
  BY <1>2, <1>3, IdsAre, FS_Subset
<1>5. Cardinality(T) \in Nat /\ Cardinality(H) \in Nat
  BY <1>4, FS_CardinalityType
<1>6. Cardinality(H) <= MaxTeamSize * Cardinality(Staff)
  BY <1>1 DEF RosterInv, PartsInv, TeamLimits
<1>7. Cardinality(T) <= MaxTeamSize * Cardinality(Staff)
  BY <1>4, <1>5, <1>6, NatProduct
<1> QED
  BY <1>1, <1>7 DEF TeamsBounded

\* Whatever pages administrators have open at once (internal/adminweb), and
\* whatever they import and contestants register (internal/contestweb): only
\* an import whose user vanished leaves an account without a password, the
\* self registered take part by approval only, and the checks of overlapping
\* transactions let the team outgrow its limit by so much and no more.
THEOREM RosterKept == RegistrarSpec => []RosterSound
<1>1. RegistrarInit => RosterInv
  BY RosterInitial
<1>2. RosterInv /\ [RegistrarNext]_registrarVars => RosterInv'
  BY RosterStep
<1>3. RosterInv => RosterSound
  BY RosterInvSound
<1> QED
  BY <1>1, <1>2, <1>3, PTL DEF RegistrarSpec

(***************************************************************************)
(* The parts of the operations run.                                        *)
(***************************************************************************)
\* Who moves one part leaves the others as they are.
LEMMA PartsMove ==
    [OperationsNext]_operationsVars => /\ [DeskNext]_deskVars /\ [FloorNext]_floorVars
                                       /\ [RegistrarNext]_registrarVars /\ [ProblemsNext]_problemsVars
BY Zenon DEF OperationsNext, operationsVars

\* Contestants miss no notice and read no private one, every solve is one
\* balloon of its team, and appeals stay within their limit.
THEOREM DeskAndFloorSound == OperationsSpec => []ContestFloorSound
<1>1. OperationsInit => DeskInv /\ FloorInv
  BY DeskInitial, FloorInitial DEF OperationsInit
<1>2. DeskInv /\ FloorInv /\ [OperationsNext]_operationsVars => (DeskInv /\ FloorInv)'
  BY PartsMove, DeskStep, FloorStep
<1>3. DeskInv /\ FloorInv => ContestFloorSound
  BY DeskInvSound, BalloonsSound DEF ContestFloorSound, FloorSound, FloorInv
<1> QED
  BY <1>1, <1>2, <1>3, PTL DEF OperationsSpec

\* Whatever pages of users, teams, tasks and datasets are open at once:
\* nobody has an account without a password, or takes part unapproved, teams
\* stay bounded, live datasets are of their task, score parameters fit and
\* tasks are where they were put, with the exceptions the histories name
\* (RosterSound and ProblemsSound).
THEOREM StaffKept == OperationsSpec => []StaffSound
<1>1. OperationsInit => RosterInv /\ ProblemsInv
  BY RosterInitial, ProblemsInitial DEF OperationsInit
<1>2. RosterInv /\ ProblemsInv /\ [OperationsNext]_operationsVars => (RosterInv /\ ProblemsInv)'
  BY PartsMove, RosterStep, ProblemsStep
<1>3. RosterInv /\ ProblemsInv => StaffSound
  BY RosterInvSound DEF StaffSound, ProblemsSound, ProblemsInv
<1> QED
  BY <1>1, <1>2, <1>3, PTL DEF OperationsSpec
=============================================================================
