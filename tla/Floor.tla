------------------------------- MODULE Floor -------------------------------
(***************************************************************************)
(* The floor of a contest: balloons (internal/adminweb/balloons.go) and    *)
(* appeals (appeals.go of internal/adminweb and internal/contestweb).      *)
(*                                                                         *)
(* The balloons are computed from the solved tasks that the dispatcher     *)
(* keeps; only deliveries are stored, by task and recipient.  Runners act  *)
(* on the list their page showed.  The clock moves with every solve.       *)
(***************************************************************************)
EXTENDS Integers, FiniteSets

CONSTANTS
    Solvers,        \* participations
    Appellants,     \* those who may appeal
    Colors,         \* tasks, one color of balloon each
    Runners,        \* staff with the page of the balloons
    MaxAppeals,     \* maxAppeals
    MaxTabs,        \* bound: appeals one contestant sends at the same time
    MaxSolves,      \* bound: solves
    MaxHandled      \* bound: deliveries and answers of the staff

ASSUME FloorAssumption ==
    /\ Appellants \subseteq Solvers
    /\ MaxAppeals \in Nat \ {0} /\ {MaxTabs, MaxSolves, MaxHandled} \subseteq Nat

VARIABLES
    solves,         \* solved tasks, with their time
    inTeam,         \* participations of the one team
    deliveries,     \* balloons: <<task, recipient>>
    lists,          \* undelivered balloons on the page of each runner
    appeals,        \* appeals: whose, their number and status
    appealing,      \* appeals of each contestant past their checks
    floorPhase,     \* "running", "over" (appeals are open), "closed"
    floorClock,     \* time of the last solve
    tended,         \* deliveries and answers so far
    handed          \* history: who carried which balloon to whom

floorVars == <<solves, inTeam, deliveries, lists, appeals, appealing, floorPhase, floorClock, tended, handed>>
balloonVars == <<solves, inTeam, deliveries, lists, floorClock, handed>>
appealVars == <<appeals, appealing, floorPhase>>

FloorInit ==
    /\ solves = {} /\ inTeam = {} /\ deliveries = {} /\ lists = [r \in Runners |-> {}]
    /\ appeals = {} /\ appealing = [p \in Appellants |-> 0]
    /\ floorPhase = "running" /\ floorClock = 0 /\ tended = 0 /\ handed = {}

(***************************************************************************)
(* Balloons.                                                               *)
(***************************************************************************)
recipient(p) == IF p \in inTeam THEN {} ELSE {p}
SameBalloon(s, o) == o.task = s.task /\ recipient(o.who) = recipient(s.who)

\* A mutant: the balloon of each solver, of one team too.
AnySolve == solves
\* Solves come first-solved first: the first of a recipient is its balloon.
ListContestSolves == {s \in solves : \A o \in solves : SameBalloon(s, o) => s.at <= o.at}

\* The first of a task is the first solve.
balloons ==
    {[task |-> s.task, to |-> recipient(s.who), solver |-> s.who,
      first |-> \A o \in solves : o.task = s.task => s.at <= o.at,
      done |-> <<s.task, recipient(s.who)>> \in deliveries] : s \in ListContestSolves}
undelivered == {<<b.task, b.to>> : b \in {c \in balloons : ~c.done}}

handleBalloons(r) ==
    /\ lists[r] # undelivered
    /\ lists' = [lists EXCEPT ![r] = undelivered]
    /\ UNCHANGED <<solves, inTeam, deliveries, floorClock, tended, handed, appealVars>>

DeliverBalloon(b) == deliveries' = deliveries \cup {b}

\* One press of the list marks the balloon, which may be gone or carried by
\* someone else meanwhile; the list comes back with the answer.
handleBalloonDeliver(r, b) ==
    /\ b \in lists[r] /\ tended < MaxHandled
    /\ DeliverBalloon(b)
    /\ handed' = handed \cup {<<r, b>>} /\ tended' = tended + 1
    /\ lists' = [lists EXCEPT ![r] = undelivered \ {b}]
    /\ UNCHANGED <<solves, inTeam, floorClock, appealVars>>

\* The delivery is undone: the balloon was not carried after all.
UndeliverBalloon(r, b) ==
    /\ b \in deliveries /\ tended < MaxHandled
    /\ deliveries' = deliveries \ {b} /\ tended' = tended + 1
    /\ handed' = {h \in handed : h[2] # b}
    /\ UNCHANGED <<solves, inTeam, lists, floorClock, appealVars>>

\* The dispatcher's scores: a task is solved, or a rejudge takes it back.
Solve(p, t) ==
    /\ floorClock < MaxSolves /\ \A s \in solves : s.who # p \/ s.task # t
    /\ floorClock' = floorClock + 1
    /\ solves' = solves \cup {[who |-> p, task |-> t, at |-> floorClock + 1]}
    /\ UNCHANGED <<inTeam, deliveries, lists, tended, handed, appealVars>>

Unsolve(s) ==
    /\ solves' = solves \ {s}
    /\ UNCHANGED <<inTeam, deliveries, lists, floorClock, tended, handed, appealVars>>

\* The staff put a participation in the team.
JoinTeam(p) ==
    /\ p \notin inTeam /\ inTeam' = inTeam \cup {p}
    /\ UNCHANGED <<solves, deliveries, lists, floorClock, tended, handed, appealVars>>

(***************************************************************************)
(* Appeals.                                                                *)
(***************************************************************************)
CountAppealsByParticipation(p) == Cardinality({a \in appeals : a.who = p})
CountOpenAppeals == Cardinality({a \in appeals : a.status = "open"})
appealsShown == floorPhase # "running"

appealsOpen == floorPhase = "over"

\* handleAppeal up to the count, and what it inserts then.
handleAppeal(p) ==
    /\ appealsOpen /\ appealing[p] < MaxTabs
    /\ CountAppealsByParticipation(p) < MaxAppeals
    /\ appealing' = [appealing EXCEPT ![p] = @ + 1]
    /\ UNCHANGED <<balloonVars, appeals, floorPhase, tended>>

CreateAppeal(p) ==
    /\ appealing[p] > 0
    /\ appeals' = appeals \cup {[who |-> p, n |-> CountAppealsByParticipation(p), status |-> "open"]}
    /\ appealing' = [appealing EXCEPT ![p] = @ - 1]
    /\ UNCHANGED <<balloonVars, floorPhase, tended>>

AnswerAppeal(a, status) == appeals' = (appeals \ {a}) \cup {[a EXCEPT !.status = status]}

\* An answer may be changed, and the appeal opened again.
handleAppealAnswer(a, status) ==
    /\ a.status # status /\ tended < MaxHandled
    /\ AnswerAppeal(a, status)
    /\ tended' = tended + 1
    /\ UNCHANGED <<balloonVars, appealing, floorPhase>>

\* The contest ends for the contestants, and the deadline of appeals passes.
FloorPhaseEnds ==
    /\ floorPhase # "closed"
    /\ floorPhase' = IF floorPhase = "running" THEN "over" ELSE "closed"
    /\ UNCHANGED <<balloonVars, appeals, appealing, tended>>

FloorNext ==
    \/ \E p \in Solvers : JoinTeam(p) \/ \E t \in Colors : Solve(p, t)
    \/ \E p \in Appellants : handleAppeal(p) \/ CreateAppeal(p)
    \/ \E s \in solves : Unsolve(s)
    \/ \E r \in Runners : handleBalloons(r) \/ \E b \in lists[r] \cup deliveries : handleBalloonDeliver(r, b) \/ UndeliverBalloon(r, b)
    \/ \E a \in appeals, status \in {"open", "accepted", "rejected"} : handleAppealAnswer(a, status)
    \/ FloorPhaseEnds

FloorSpec == FloorInit /\ [][FloorNext]_floorVars

(***************************************************************************)
(* Properties.                                                             *)
(***************************************************************************)
\* The tables of the floor have their type.
FloorTypeOK ==
    /\ inTeam \subseteq Solvers /\ floorClock \in 0 .. MaxSolves /\ tended \in 0 .. MaxHandled
    /\ \A s \in solves : s.who \in Solvers /\ s.task \in Colors /\ s.at \in 1 .. floorClock
    /\ \A r \in Runners : \A b \in lists[r] : b[1] \in Colors
    /\ floorPhase \in {"running", "over", "closed"} /\ appealing \in [Appellants -> 0 .. MaxTabs]

\* Every solved task is one balloon of its recipient and each task has one
\* first solve, whoever joined the team and whatever was taken back; no
\* balloon counts as delivered unless a runner carried it, and none that
\* was carried is on the list again.
BalloonsRight ==
    /\ \A s \in solves : Cardinality({b \in balloons : b.task = s.task /\ b.to = recipient(s.who)}) = 1
    /\ \A t \in Colors : (\E s \in solves : s.task = t) => \E b \in balloons : b.task = t /\ b.first
    /\ \A b \in balloons, c \in balloons : b.first /\ c.first /\ b.task = c.task => b = c
    /\ \A b \in balloons : b.done = (\E r \in Runners : <<r, <<b.task, b.to>>>> \in handed)
    /\ \A r \in Runners : \A b \in handed : b[1] = r => b[2] \in deliveries

\* No contestant has more appeals than the limit and what was in flight
\* beside it, and none before the contest ends.
AppealsBounded ==
    \A p \in Appellants :
        /\ CountAppealsByParticipation(p) + appealing[p] <= MaxAppeals + MaxTabs - 1
        /\ floorPhase = "running" => CountAppealsByParticipation(p) + appealing[p] = 0

\* The balloons and the appeals are right.
FloorSound == BalloonsRight /\ AppealsBounded
=============================================================================
