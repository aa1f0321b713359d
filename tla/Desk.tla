-------------------------------- MODULE Desk --------------------------------
(***************************************************************************)
(* The desk of a contest (communication in internal/adminweb and           *)
(* internal/contestweb): questions and their answers, announcements and    *)
(* private messages.                                                       *)
(*                                                                         *)
(* A contestant's page is several queries and then a mark that everything  *)
(* was seen, so the staff may write between them.  The clock moves with    *)
(* every write: no two rows have the same time.                            *)
(***************************************************************************)
EXTENDS Integers, FiniteSets, SequencesExt

CONSTANTS
    Contestants,    \* participations
    Members,        \* those of the one team
    Answerers,      \* staff at the desk
    MaxDeskWrites   \* bound: rows written

ASSUME DeskAssumption ==
    IsFiniteSet(Contestants) /\ Members \subseteq Contestants /\ MaxDeskWrites \in Nat

VARIABLES
    board,          \* the tables: notices, and when each contestant last looked
    deskClock,      \* time of the last write
    phase,          \* "running" or "over" for the contestants
    page,           \* what each contestant's page has read so far
    shown,          \* history: what the pages of each contestant showed
    passed          \* history: what was written while a page was read

deskVars == <<board, deskClock, phase, page, shown, passed>>

NoPage == [step |-> 0, got |-> {}]
Everyone == "everyone"

DeskInit ==
    /\ board = [notices |-> {}, seen |-> [c \in Contestants |-> 0]]
    /\ deskClock = 0 /\ phase = "running"
    /\ page = [c \in Contestants |-> NoPage]
    /\ shown = [c \in Contestants |-> {}] /\ passed = [c \in Contestants |-> {}]

now == deskClock + 1
WritesLeft(n) == deskClock + n <= MaxDeskWrites

(***************************************************************************)
(* Queries.  A notice is an announcement, a message or a question; what a  *)
(* contestant reads of it is its id with the time of its answer.           *)
(***************************************************************************)
QuestionsOf(d) == {n \in d.notices : n.kind = "question"}
ListAnnouncements(d) == {n \in d.notices : n.kind = "announcement"}
ListMessagesByParticipation(d, c) == {n \in d.notices : n.kind = "message" /\ n.who = c}
ListQuestionsByParticipation(d, c) == {n \in QuestionsOf(d) : n.who = c}

\* A mutant: every answer is taken for a public one.
ListAllAnswers(d) == {n \in QuestionsOf(d) : n.reply # 0}
ListPublicAnswers(d) == {n \in QuestionsOf(d) : n.public /\ n.reply # 0}

\* The inbox of the staff.
AdminListQuestions(d) == {n \in QuestionsOf(d) : n.reply = 0 /\ ~n.ignored}

\* Notices that c may read, and those newer than the last visit.
VisibleTo(d, c) ==
    ListAnnouncements(d) \cup ListMessagesByParticipation(d, c)
        \cup {n \in ListQuestionsByParticipation(d, c) : n.reply # 0}
        \cup {n \in ListPublicAnswers(d) : n.who # c}
noticeTime(n) == IF n.kind = "question" THEN n.reply ELSE n.at
CountUnreadCommunication(d, c) == Cardinality({n \in VisibleTo(d, c) : noticeTime(n) > d.seen[c]})
read(ns) == {<<n.at, noticeTime(n)>> : n \in ns}

(***************************************************************************)
(* Writes.                                                                 *)
(***************************************************************************)
\* The rows of d are the tables now, and ns what is new to contestants.
Written(d, n) ==
    /\ WritesLeft(n) /\ board' = d /\ deskClock' = deskClock + n
    /\ passed' = [c \in Contestants |->
           IF page[c].step = 0 THEN passed[c] ELSE passed[c] \cup (read(VisibleTo(d, c)) \ read(VisibleTo(board, c)))]

notice(kind, who, at) == [kind |-> kind, who |-> who, at |-> at, reply |-> 0, public |-> FALSE, ignored |-> FALSE, taken |-> {}]
Reword(q, r) == [board EXCEPT !.notices = (@ \ {q}) \cup {r}]
CreateQuestion(c) == [board EXCEPT !.notices = @ \cup {notice("question", c, now)}]
ReplyQuestion(q, public) == Reword(q, [q EXCEPT !.reply = now, !.public = public, !.ignored = FALSE])
SetQuestionIgnored(q, ignore) == Reword(q, [q EXCEPT !.ignored = ignore])
AssignQuestion(q, who) == Reword(q, [q EXCEPT !.taken = who])
CreateAnnouncement == [board EXCEPT !.notices = @ \cup {notice("announcement", Everyone, now)}]
DeleteAnnouncement(a) == [board EXCEPT !.notices = @ \ {a}]
\* One after the other, to each of order.
CreateMessage(order) ==
    [board EXCEPT !.notices = @ \cup {notice("message", order[i], deskClock + i) : i \in DOMAIN order}]

canAsk == phase = "running"
handleAsk(c) ==
    /\ canAsk
    /\ Written(CreateQuestion(c), 1)
    /\ UNCHANGED <<phase, page, shown>>

\* A question is answered whatever its state was, again too.
handleQuestionReply(q, public) ==
    /\ Written(ReplyQuestion(q, public), 1)
    /\ UNCHANGED <<phase, page, shown>>

handleQuestionIgnore(q, ignore) ==
    /\ q.ignored # ignore
    /\ Written(SetQuestionIgnored(q, ignore), 1)
    /\ UNCHANGED <<phase, page, shown>>

handleQuestionAssign(q, who) ==
    /\ q.taken # who
    /\ Written(AssignQuestion(q, who), 1)
    /\ UNCHANGED <<phase, page, shown>>

handleAnnouncementCreate ==
    /\ Written(CreateAnnouncement, 1)
    /\ UNCHANGED <<phase, page, shown>>

handleAnnouncementDelete(a) ==
    /\ Written(DeleteAnnouncement(a), 1)
    /\ UNCHANGED <<phase, page, shown>>

\* To one contestant, or to the members of the team one after the other: an
\* error in between leaves the others without.
handleMessageCreate(to) ==
    /\ \E reached \in SUBSET to \ {{}} :
         LET order == SetToSeq(reached)
         IN  Written(CreateMessage(order), Len(order))
    /\ UNCHANGED <<phase, page, shown>>

(***************************************************************************)
(* The page of a contestant: four queries, then the mark.                  *)
(***************************************************************************)
commQuery(c, step) ==
    CASE step = 1 -> ListAnnouncements(board)
      [] step = 2 -> ListMessagesByParticipation(board, c)
      [] step = 3 -> {n \in ListQuestionsByParticipation(board, c) : n.reply # 0}
      [] step = 4 -> {n \in ListPublicAnswers(board) : n.who # c}

commData(c) ==
    /\ page[c].step < 4
    /\ page' = [page EXCEPT ![c] = [step |-> @.step + 1, got |-> @.got \cup read(commQuery(c, @.step + 1))]]
    /\ UNCHANGED <<board, deskClock, phase, shown, passed>>

\* A mutant: the page of an administrator who looks marks it as well.
SeenUnshown(c) ==
    /\ page[c].step > 0 /\ WritesLeft(1)
    /\ board' = [board EXCEPT !.seen[c] = now] /\ deskClock' = now
    /\ page' = [page EXCEPT ![c] = NoPage]
    /\ UNCHANGED <<phase, shown, passed>>

SetCommunicationSeen(c) ==
    /\ page[c].step = 4 /\ WritesLeft(1)
    /\ board' = [board EXCEPT !.seen[c] = now] /\ deskClock' = now
    /\ shown' = [shown EXCEPT ![c] = @ \cup page[c].got]
    /\ page' = [page EXCEPT ![c] = NoPage]
    /\ UNCHANGED <<phase, passed>>

\* The contest ends for the contestants: no more questions.
PhaseEnds ==
    /\ phase = "running" /\ phase' = "over"
    /\ UNCHANGED <<board, deskClock, page, shown, passed>>

DeskNext ==
    \/ \E c \in Contestants :
         \/ handleAsk(c) \/ commData(c) \/ SetCommunicationSeen(c)
         \/ handleMessageCreate({c})
    \/ \E q \in QuestionsOf(board) :
         \/ \E b \in BOOLEAN : handleQuestionReply(q, b) \/ handleQuestionIgnore(q, b)
         \/ \E who \in {{}} \cup {{a} : a \in Answerers} : handleQuestionAssign(q, who)
    \/ handleAnnouncementCreate
    \/ \E a \in ListAnnouncements(board) : handleAnnouncementDelete(a)
    \/ handleMessageCreate(Members)
    \/ PhaseEnds

DeskSpec == DeskInit /\ [][DeskNext]_deskVars

(***************************************************************************)
(* Properties.                                                             *)
(***************************************************************************)
\* The tables of the desk have their type, and nothing is later than the
\* clock.
DeskTypeOK ==
    /\ deskClock \in 0 .. MaxDeskWrites /\ phase \in {"running", "over"}
    /\ \A n \in board.notices : n.at <= deskClock /\ n.reply <= deskClock
    /\ \A c \in Contestants : board.seen[c] <= deskClock /\ page[c].step \in 0 .. 4

\* What a contestant may read and was not shown counts as unread, unless it
\* was written while a page was being read.
UnreadCounted ==
    \A c \in Contestants :
        LET missing == {n \in VisibleTo(board, c) : <<n.at, noticeTime(n)>> \notin shown[c] \cup passed[c]}
        IN  /\ \A n \in missing : noticeTime(n) > board.seen[c]
            /\ CountUnreadCommunication(board, c) >= Cardinality(missing)

\* Pages show a contestant their own and the public answers only: nobody
\* else's message, and no answer that was private from the start.
PrivateKept ==
    \A c \in Contestants : \A n \in board.notices :
        (n.who \notin {c, Everyone} /\ ~(n.kind = "question" /\ n.public))
            => <<n.at, noticeTime(n)>> \notin shown[c] \cup page[c].got

\* The desk loses no notice and shows no private one.
DeskSound == UnreadCounted /\ PrivateKept
=============================================================================
