---------------------------- MODULE RankingPush ----------------------------
(***************************************************************************)
(* The ranking pusher (internal/rankingpush/pusher.go), which runs in the  *)
(* dispatcher, feeding the ranking web servers of RankingWeb with the      *)
(* board of one contest.                                                   *)
(*                                                                         *)
(* Events (a score changed, the contest changed) and the periodic          *)
(* resynchronisation mark the contest dirty; a flush takes the marks,      *)
(* reads the contest, computes its board and sends every server the rows   *)
(* that changed, or the whole board when the server did not acknowledge    *)
(* the previous number.  Events, requests and answers may be lost, a       *)
(* request given up may still arrive, and pusher and servers may restart.  *)
(* The numbers live in the pusher's memory and start over with it.         *)
(***************************************************************************)
EXTENDS RankingWeb

CONSTANTS
    Visibilities,  \* the values of ranking_visibility the model uses
    \* Bounds of the model
    MaxChanges,    \* changes of the contest, its rows or the clock
    MaxFaults,     \* lost events, requests and answers, broken streams
    MaxCrashes,    \* restarts of a ranking web server
    MaxRestarts,   \* restarts of the pusher
    MaxTroubles,   \* all of them together
    MaxSeq         \* numbers used by needless resynchronisations

VARIABLES
    db,        \* the contest and its live rows
    contestClock, \* "running", "frozen" (the freeze began) or "ended"
    atFreeze,  \* the rows when the freeze began
    st,        \* the pusher's contestState, None when it knows no contest
    acked,     \* for each server and name, the number it acknowledged
    job,       \* the push under way
    inbox,     \* events on their way to the pusher
    late,      \* requests given up that may still arrive
    everRows,  \* the rows the contest has had
    count      \* the bounds used up

dbVars == <<db, contestClock, atFreeze, everRows>>
pushVars == <<st, acked, job>>
rankingVars == <<webVars, dbVars, pushVars, inbox, late, count>>

NewState == [name |-> None, unfrozen |-> FALSE, after |-> FALSE, board |-> None, seq |-> 0,
             dirty |-> TRUE, full |-> TRUE, listed |-> FALSE]
NoPush == [phase |-> "idle"]

\* What the pusher knows of a contest, a board about to be computed, and a
\* board being deleted, with what comes then.
PusherState ==
    [name : Names \cup {None}, unfrozen : BOOLEAN, after : BOOLEAN, board : Content \cup {None}, seq : Nat,
     dirty : BOOLEAN, full : BOOLEAN, listed : BOOLEAN]
ComputeJob == [phase : {"compute"}, full : BOOLEAN, name : Names, frozen : BOOLEAN, key : BOOLEAN]
DeleteJob(then) == [phase : {"delete"}, name : Names, todo : SUBSET RankingServers, then : then]
Then == {None, NoPush} \cup ComputeJob \cup DeleteJob({NoPush})

ASSUME RankingPushAssumption ==
    /\ Visibilities \subseteq {"public", "admins", "hidden"}
    /\ Names # {} /\ RankingServers # {}
    /\ None \notin PusherState \cup ComputeJob \cup DeleteJob({NoPush}) \cup {NoPush}
    /\ \A b \in {MaxChanges, MaxFaults, MaxCrashes, MaxRestarts, MaxTroubles, MaxSeq} : b \in Nat

FirstName == CHOOSE n \in Names : TRUE

RankingInit ==
    /\ WebInit
    /\ db \in [exists : {TRUE}, name : {FirstName}, vis : Visibilities \ {"hidden"}, after : BOOLEAN,
               unfrozen : {FALSE}, hdr : Hdrs, rows : {NoRows}]
    /\ contestClock \in {"running", "frozen"} /\ atFreeze = NoRows
    /\ db.after => contestClock = "frozen"   \* a bound: the contest is met before its end
    /\ st = None /\ acked = [s \in RankingServers |-> [n \in Names |-> 0]] /\ job = NoPush
    /\ inbox = {} /\ late = {}
    /\ everRows = {db.rows}
    /\ count = [changes |-> 0, faults |-> 0, crashes |-> 0, restarts |-> 0]

Troubles == count.faults + count.crashes + count.restarts
MayFail == count.faults < MaxFaults /\ Troubles < MaxTroubles
Fault == MayFail /\ count' = [count EXCEPT !.faults = @ + 1]

(***************************************************************************)
(* The database and the clock.                                             *)
(***************************************************************************)
Frozen(unfrozen) == contestClock # "running" /\ ~unfrozen

published ==
    db.vis \in {"public", "admins"} /\ (db.after => contestClock = "ended")

\* A committed change, with the event that follows it, or that is lost with
\* the process that should send it.
Change(new, event) ==
    /\ count.changes < MaxChanges
    /\ db' = new /\ db' # db
    /\ everRows' = everRows \cup {new.rows}
    /\ \/ inbox' = inbox \cup {event} /\ count' = [count EXCEPT !.changes = @ + 1]
       \/ /\ MayFail
          /\ count' = [count EXCEPT !.changes = @ + 1, !.faults = @ + 1]
          /\ UNCHANGED inbox
    /\ UNCHANGED <<webVars, contestClock, atFreeze, pushVars, late>>

ScoreChanges == \E k \in Keys, v \in Vals \cup {None} :
    db.exists /\ Change([db EXCEPT !.rows[k] = v], "score")

\* Renamed, shown or hidden, other tasks or settings, the freeze lifted.
ContestChanges ==
    db.exists /\ \E new \in
        {[db EXCEPT !.hdr = h] : h \in Hdrs} \cup {[db EXCEPT !.name = n] : n \in Names}
        \cup {[db EXCEPT !.vis = v] : v \in Visibilities}
        \cup {[db EXCEPT !.unfrozen = contestClock # "running"], [db EXCEPT !.exists = FALSE]} :
            Change(new, "contest")

ClockTick ==
    /\ count.changes < MaxChanges /\ contestClock # "ended"
    /\ count' = [count EXCEPT !.changes = @ + 1]
    /\ IF contestClock = "running" THEN contestClock' = "frozen" /\ atFreeze' = db.rows
                            ELSE contestClock' = "ended" /\ UNCHANGED atFreeze
    /\ UNCHANGED <<webVars, db, everRows, pushVars, inbox, late>>

(***************************************************************************)
(* Marking the contest.                                                    *)
(***************************************************************************)
state == IF st = None THEN NewState ELSE st

\* watchScores and watchContests.
Watch ==
    \E e \in inbox :
        /\ inbox' = inbox \ {e}
        /\ st' = [state EXCEPT !.dirty = TRUE, !.full = @ \/ e = "contest"]
        /\ UNCHANGED <<webVars, dbVars, acked, job, late, count>>

\* What a server shows for the contest's name is the board the contest has.
BoardNow ==
    [name |-> db.name, hdr |-> db.hdr, frozen |-> Frozen(db.unfrozen),
     rows |-> IF Frozen(db.unfrozen) THEN atFreeze ELSE db.rows]

UpToDate(s) ==
    LET bd == boards[s][db.name]
    IN  db.exists => IF published
                     THEN bd # None /\ bd.b = BoardNow /\ bd.key = (db.vis = "admins")
                     ELSE bd = None

\* Mutant: the loop only looks for new contests.
discoverNew ==
    /\ job.phase = "idle" /\ db.exists /\ st = None
    /\ st' = [state EXCEPT !.dirty = TRUE, !.full = TRUE]
    /\ UNCHANGED <<webVars, dbVars, acked, job, inbox, late, count>>

\* The loop finds new contests, and marks all of them for a full push once
\* in FullInterval.  Bound: once MaxSeq is reached, only when it matters.
discover ==
    /\ job.phase = "idle" /\ db.exists
    /\ st # None => ~(st.dirty /\ st.full) /\ (st.seq < MaxSeq \/ \E s \in RankingServers : ~UpToDate(s))
    /\ st' = [state EXCEPT !.dirty = TRUE, !.full = TRUE]
    /\ UNCHANGED <<webVars, dbVars, acked, job, inbox, late, count>>

\* "The freeze and 'after the contest' begin with the clock."
clockMarks ==
    st.board # None /\ ( \/ Frozen(st.unfrozen) # st.board.frozen
                         \/ st.after /\ ~st.listed /\ contestClock = "ended" )

(***************************************************************************)
(* One push.                                                               *)
(***************************************************************************)
requeued(s) == [s EXCEPT !.dirty = TRUE, !.full = TRUE]

\* The contest is due: marked, or by the clock.
Due == job.phase = "idle" /\ st # None /\ (st.dirty \/ clockMarks)

Full == st.full \/ clockMarks

\* flush and the beginning of pushContest: the marks are taken and the
\* contest is read.  The database fails ...
readFails ==
    /\ Due /\ Fault
    /\ st' = requeued(st) /\ job' = NoPush
    /\ UNCHANGED <<webVars, dbVars, acked, inbox, late>>

\* deleteBoard: each server takes the deletion or not; its number is
\* forgotten in any case.
deleteBoard(n, then) == [phase |-> "delete", name |-> n, todo |-> RankingServers, then |-> then]

\* The contest is gone: so is its board, if it was listed, and then its state.
remove ==
    IF st.listed THEN job' = deleteBoard(st.name, None) /\ UNCHANGED st
                 ELSE job' = NoPush /\ st' = None

\* ... or the contest is gone, renamed (the board under the old name goes
\* first), not published, or to be computed.
readContest ==
    LET renamed == st.listed /\ st.name # db.name
        listed == st.listed /\ ~renamed
        unlist == ~published /\ (listed \/ Full)
        rest == IF published
                THEN [phase |-> "compute", full |-> Full, name |-> db.name,
                      frozen |-> Frozen(db.unfrozen), key |-> db.vis = "admins"]
                ELSE IF unlist THEN deleteBoard(db.name, NoPush) ELSE NoPush
    IN  /\ Due
        /\ \/ ~db.exists /\ remove
           \/ /\ db.exists
              /\ st' = [st EXCEPT !.dirty = FALSE, !.full = FALSE, !.name = db.name,
                                  !.unfrozen = db.unfrozen, !.after = db.after,
                                  !.listed = listed /\ ~unlist,
                                  !.board = IF unlist THEN None ELSE @]
              /\ job' = IF renamed THEN deleteBoard(st.name, rest) ELSE rest
        /\ UNCHANGED <<webVars, dbVars, acked, inbox, late, count>>

\* The next board, from the aggregates or replayed up to the freeze.  A push
\* that would change nothing ends here.
compute ==
    /\ job.phase = "compute"
    /\ LET next == [name |-> job.name, hdr |-> db.hdr, frozen |-> job.frozen,
                    rows |-> IF job.frozen THEN atFreeze ELSE db.rows]
           d == Diff(st.board, next)
           headerChanged == st.board = None \/ Header(st.board) # Header(next)
       IN  IF ~job.full /\ ~headerChanged /\ d.changed = {} /\ d.removed = {}
           THEN job' = NoPush /\ UNCHANGED st
           ELSE /\ st' = [st EXCEPT !.seq = @ + 1]
                /\ job' = [phase |-> "send", full |-> job.full \/ headerChanged, name |-> job.name,
                           key |-> job.key, next |-> next, d |-> d, todo |-> RankingServers, failed |-> FALSE]
    /\ UNCHANGED <<webVars, dbVars, acked, inbox, late, count>>

computeFails ==
    /\ job.phase = "compute" /\ Fault
    /\ st' = requeued(st) /\ job' = NoPush
    /\ UNCHANGED <<webVars, dbVars, acked, inbox, late>>

\* The message for a server: the rows that changed if it acknowledged the
\* previous number.
Message(s) ==
    IF job.phase = "delete" THEN [kind |-> "delete", name |-> job.name]
    ELSE IF job.full \/ acked[s][job.name] # st.seq - 1
    THEN [kind |-> "full", name |-> job.name, seq |-> st.seq, board |-> job.next, key |-> job.key]
    ELSE [kind |-> "delta", name |-> job.name, seq |-> st.seq, base |-> st.seq - 1,
          changed |-> job.d.changed, board |-> job.next, removed |-> job.d.removed]

\* The end of pushContest, once every server was tried.
pushEnd(failed) ==
    LET s == [st EXCEPT !.board = job.next, !.listed = TRUE]
    IN  job' = NoPush /\ st' = IF failed THEN requeued(s) ELSE s

\* Server s answered 200, or it answered 409 or nothing.
Answered(s, ok) ==
    /\ acked' = [acked EXCEPT ![s][job.name] = IF ok THEN st.seq ELSE -1]
    /\ IF job.todo = {s} THEN pushEnd(job.failed \/ ~ok)
       ELSE job' = [job EXCEPT !.todo = @ \ {s}, !.failed = @ \/ ~ok] /\ UNCHANGED st

\* Mutant: the number of a deleted board is kept.
DeletedRemembered(s) ==
    /\ UNCHANGED acked
    /\ IF job.todo # {s} THEN job' = [job EXCEPT !.todo = @ \ {s}] /\ UNCHANGED st
       ELSE IF job.then = None THEN job' = NoPush /\ st' = None
       ELSE job' = job.then /\ UNCHANGED st

\* The deletion was sent to s; the push goes on after the last server.
Deleted(s) ==
    /\ acked' = [acked EXCEPT ![s][job.name] = 0]
    /\ IF job.todo # {s} THEN job' = [job EXCEPT !.todo = @ \ {s}] /\ UNCHANGED st
       ELSE IF job.then = None THEN job' = NoPush /\ st' = None
       ELSE job' = job.then /\ UNCHANGED st

\* The request arrives and so does its answer.
send(s) ==
    /\ job.phase \in {"send", "delete"} /\ s \in job.todo
    /\ handlePush(s, Message(s))
    /\ IF job.phase = "delete" THEN Deleted(s) ELSE Answered(s, ~Conflict(s, Message(s)))
    /\ UNCHANGED <<dbVars, inbox, late, count>>

\* No answer: the request did not leave (or the server is waited for), its
\* answer is lost, or it arrives after the pusher gave it up.
sendFails(s) ==
    /\ job.phase \in {"send", "delete"} /\ s \in job.todo /\ Fault
    /\ IF job.phase = "delete" THEN Deleted(s) ELSE Answered(s, FALSE)
    /\ \/ UNCHANGED <<webVars, late>>
       \/ handlePush(s, Message(s)) /\ UNCHANGED late
       \/ late' = late \cup {[to |-> s, m |-> Message(s)]} /\ UNCHANGED webVars
    /\ UNCHANGED <<dbVars, inbox>>

lateArrives ==
    \E r \in late :
        /\ late' = late \ {r}
        /\ handlePush(r.to, r.m)
        /\ UNCHANGED <<dbVars, pushVars, inbox, count>>

(***************************************************************************)
(* Restarts, and the whole system.                                         *)
(***************************************************************************)
\* The pusher dies, and another process takes the lease: it knows nothing.
PusherRestart ==
    /\ count.restarts < MaxRestarts /\ Troubles < MaxTroubles
    /\ count' = [count EXCEPT !.restarts = @ + 1]
    /\ st' = None /\ acked' = [s \in RankingServers |-> [n \in Names |-> 0]]
    /\ late' = IF job.phase = "send"
               THEN late \cup {[to |-> s, m |-> Message(s)] : s \in job.todo} ELSE late
    /\ job' = NoPush /\ inbox' = {}
    /\ UNCHANGED <<webVars, dbVars>>

ServerSide(s) ==
    \/ \E n \in Names : SaveBegin(s, n)
    \/ SaveWrite(s)

\* Faults of a server: a failed write, a restart.
ServerFault(s) ==
    /\ UNCHANGED <<dbVars, pushVars, inbox, late>>
    /\ \/ Fault /\ SaveFails(s)
       \/ /\ count.crashes < MaxCrashes /\ Troubles < MaxTroubles
          /\ count' = [count EXCEPT !.crashes = @ + 1]
          /\ ServerRestart(s)

\* Bound: they open the page of the contest's first name.
Browser ==
    \E g \in Pages :
        /\ UNCHANGED <<dbVars, pushVars, inbox, late>>
        /\ \/ \E s \in RankingServers : handleBoard(g, s, FirstName) /\ UNCHANGED count
           \/ (handleEvents(g) \/ Receive(g) \/ RevealRow(g)) /\ UNCHANGED count
           \/ Disconnect(g) /\ Fault

\* Bound: what is written matters only if the server restarts once more.
Saves(s) ==
    /\ count.crashes < MaxCrashes /\ Troubles < MaxTroubles
    /\ ServerSide(s) /\ UNCHANGED <<dbVars, pushVars, inbox, late, count>>

RankingNext ==
    \/ ScoreChanges \/ ContestChanges \/ ClockTick
    \/ Watch \/ discover
    \/ readContest \/ readFails \/ compute \/ computeFails
    \/ \E s \in RankingServers : send(s) \/ sendFails(s) \/ Saves(s) \/ ServerFault(s)
    \/ lateArrives \/ PusherRestart
    \/ Browser

RankingSpec == RankingInit /\ [][RankingNext]_rankingVars

\* The pusher's goroutines keep running and a request that is not lost is
\* answered; the periodic resynchronisation comes again and again.
Fairness ==
    /\ WF_rankingVars(discover) /\ WF_rankingVars(readContest) /\ WF_rankingVars(compute)
    /\ \A s \in RankingServers : WF_rankingVars(send(s))
    /\ WF_rankingVars(lateArrives)

FairSpec == RankingSpec /\ Fairness

(***************************************************************************)
(* Properties.                                                             *)
(***************************************************************************)
\* Every variable has its type; the pusher never acknowledges a number it
\* has not reached.
RankingTypeOK ==
    /\ WebTypeOK
    /\ db.rows \in Rows /\ db.name \in Names /\ db.vis \in Visibilities
    /\ contestClock \in {"running", "frozen", "ended"} /\ atFreeze \in Rows
    /\ st # None => st.seq \in Nat /\ (st.board = None \/ st.board \in Content)
    /\ \A s \in RankingServers, n \in Names :
         st # None => acked[s][n] \in -1 .. st.seq
    /\ job.phase \in {"idle", "compute", "send", "delete"}
    /\ inbox \subseteq {"score", "contest"}

\* The rows of a server's board are rows the contest had at one moment, and
\* under the mark of the freeze those of its beginning: whatever is lost,
\* late or restarted from an old file, a delta is merged into the board it
\* was computed from.  (As long as the numbers have not started over.)
RowsGenuine ==
    count.restarts = 0 =>
        \A s \in RankingServers, n \in Names :
            boards[s][n] # None =>
                LET b == boards[s][n].b
                IN  b.rows \in everRows /\ (b.frozen => b.rows = atFreeze)

\* A page applies no changes meant for another state, whatever frames it
\* missed and whichever file its server restarted from.  (As long as the
\* numbers have not started over, and no update overtook an unfreezing.)
PagesFollow ==
    count.restarts = 0 => \A g \in Pages : pages[g].overtaken \/ Agrees(g)

\* Once the contest stops changing, every server comes to show its board,
\* and keeps it: a lost event, request or answer, a crash of a server or of
\* the pusher costs at most a resynchronisation.
Converges == \A s \in RankingServers : <>[]UpToDate(s)

\* No server shows, and no page of a spectator applies, rows that were never
\* computed together.
PagesFaithful == RowsGenuine /\ PagesFollow

=============================================================================
