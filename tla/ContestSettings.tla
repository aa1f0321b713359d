--------------------------- MODULE ContestSettings ---------------------------
(***************************************************************************)
(* The settings of contests: the organizers' pages that change them        *)
(* (adminweb/contests.go, adminweb/ranking.go), and the contest web        *)
(* servers, which serve them from a cache (contestweb/cache.go).           *)
(*                                                                         *)
(* A page reads a row, a later request writes it, and the servers hear of  *)
(* it by an event that may be lost.                                        *)
(***************************************************************************)
EXTENDS Integers, FiniteSets

CONSTANTS
    NumContests,   \* keys of contests; the first exists at the start
    ContestNames,
    Organizers,
    Values,        \* what the other settings may be
    Extensions,    \* minutes an organizer moves the end by
    WebFronts,     \* replicas of the contest web server
    ViewTTL,       \* how long a cached contest is served, in ticks
    \* Bounds of the model
    MaxEdits, MaxViewTicks, MaxLostEvents

ASSUME ContestSettingsAssumption ==
    /\ NumContests \in Nat \ {0}
    /\ Extensions \subseteq Int \ {0}
    /\ ViewTTL \in Nat \ {0}
    /\ MaxEdits \in Nat /\ MaxViewTicks \in Nat /\ MaxLostEvents \in Nat

VARIABLES
    contest,       \* the contests table
    lastContest,   \* the sequence of its keys
    formOf,        \* per organizer: the settings form open in the browser
    editing,       \* per organizer: the request under way
    views,         \* per server: the contests by name
    viewLoad,      \* per server: the load under way
    contestEvents, \* per server: the events it was sent and did not handle
    served,        \* per server: what the last request was served
    edits, viewTicks, lostEvents,
    \* History
    saved,         \* the row as it was last written whole
    granted,       \* minutes the end was moved by since then
    switched,      \* the operational state the organizers last chose
    unchangedFor,  \* ticks since the row last changed
    told           \* the servers that dropped the contest after that, with no load of an older row under way

settingsVars ==
    <<contest, lastContest, formOf, editing, views, viewLoad, contestEvents, served, edits, viewTicks, lostEvents,
      saved, granted, switched, unchangedFor, told>>

ContestKeys == 1 .. NumContests
NoName == "none"
Operational == [paused |-> FALSE, unfrozen |-> FALSE]
NoContest == [name |-> NoName, start |-> 0, stop |-> 0, perUser |-> 0, other |-> 0, ops |-> Operational]
NoEdit == [at |-> "none", op |-> "none", id |-> 0, old |-> NoContest, new |-> NoContest, minutes |-> 0]
NoPage == [id |-> 0, row |-> NoContest]
NoView == [known |-> FALSE, id |-> 0, row |-> NoContest, age |-> 0, late |-> FALSE]
NoLoad == [at |-> "none", name |-> NoName, view |-> NoView]
NotServed == [lag |-> 0, waited |-> 0]

ContestExists(id) == contest[id] # NoContest

\* The constraints of the table.
ValidContest(row) == row.start <= row.stop /\ row.perUser >= 0

\* NewContestParams, with the times of the form.
CreateContest(name, start, stop) == [NoContest EXCEPT !.name = name, !.start = start, !.stop = stop]
GetContest(id) == contest[id]
GetContestByName(name) == {id \in ContestKeys : ContestExists(id) /\ contest[id].name = name}

\* A save of the whole row, the operational state included.
UpdateContestWhole(row, c) == c

\* Every column of the form; the operational state has its own statements.
UpdateContest(row, c) == [c EXCEPT !.ops = row.ops]

\* The end as it was loaded, moved.
ExtendContestLoaded(row, old, m) ==
    [row EXCEPT !.stop = old.stop + m, !.perUser = IF old.perUser = 0 THEN 0 ELSE old.perUser + m]

\* The end, and the time of each contestant where there is one.
ExtendContest(row, old, m) ==
    [row EXCEPT !.stop = @ + m, !.perUser = IF @ = 0 THEN 0 ELSE @ + m]

SetContestPaused(row, on) == [row EXCEPT !.ops.paused = on]
SetContestRankingUnfrozen(row, on) == [row EXCEPT !.ops.unfrozen = on]

SettingsInit ==
    /\ \E perUser \in {0, 2} :
         contest = [id \in ContestKeys |->
             IF id = 1 THEN [CreateContest(CHOOSE n \in ContestNames : TRUE, 0, 2) EXCEPT !.perUser = perUser]
             ELSE NoContest]
    /\ lastContest = 1
    /\ formOf = [s \in Organizers |-> NoPage] /\ editing = [s \in Organizers |-> NoEdit]
    /\ views = [w \in WebFronts |-> [n \in ContestNames |-> NoView]]
    /\ viewLoad = [w \in WebFronts |-> NoLoad] /\ contestEvents = [w \in WebFronts |-> {}]
    /\ served = [w \in WebFronts |-> NotServed]
    /\ edits = 0 /\ viewTicks = 0 /\ lostEvents = 0
    /\ saved = contest /\ granted = [id \in ContestKeys |-> 0]
    /\ switched = [id \in ContestKeys |-> Operational]
    /\ unchangedFor = [id \in ContestKeys |-> 0] /\ told = [id \in ContestKeys |-> {}]

-----------------------------------------------------------------------------
(* The organizers' pages.                                                  *)

pagesUnchanged == UNCHANGED <<views, viewLoad, contestEvents, served, viewTicks, lostEvents>>

\* The row of a contest changes.
WriteContest(id, row) ==
    /\ contest' = [contest EXCEPT ![id] = row]
    /\ unchangedFor' = [unchangedFor EXCEPT ![id] = 0]
    /\ told' = [told EXCEPT ![id] = {}]

\* The form of handleContestSettings, as the browser shows it.
handleContestSettings(s, id) ==
    /\ editing[s] = NoEdit /\ ContestExists(id) /\ formOf[s].id # id
    /\ formOf' = [formOf EXCEPT ![s] = [id |-> id, row |-> GetContest(id)]]
    /\ UNCHANGED <<contest, lastContest, editing, edits, saved, granted, switched, unchangedFor, told>> /\ pagesUnchanged

\* The checks of parseContest on what the form says.
parseContest(c) == c.start <= c.stop

\* A request reads the row, and checks what it is to write.
BeginEdit(s, r) ==
    /\ editing[s] = NoEdit /\ edits < MaxEdits
    /\ edits' = edits + 1
    /\ editing' = [editing EXCEPT ![s] = r]
    /\ UNCHANGED <<contest, lastContest, formOf, saved, granted, switched, unchangedFor, told>> /\ pagesUnchanged

EditOf(op, id) == [NoEdit EXCEPT !.at = "write", !.op = op, !.id = id, !.old = GetContest(id)]

\* handleContestUpdate, up to UpdateContest: the organizer changed one field
\* of the form, which may be older than the row.
SaveForm(s) ==
    \E c \in {[formOf[s].row EXCEPT !.other = v] : v \in Values} \cup {[formOf[s].row EXCEPT !.name = n] : n \in ContestNames} :
        /\ formOf[s].id > 0 /\ ContestExists(formOf[s].id)
        /\ parseContest(c)
        /\ c.name # contest[formOf[s].id].name => GetContestByName(c.name) = {}
        /\ BeginEdit(s, [EditOf("save", formOf[s].id) EXCEPT !.new = c])

\* handleContestCreate, up to its transaction.
NewForm(s, n) ==
    /\ GetContestByName(n) = {}
    /\ BeginEdit(s, [NoEdit EXCEPT !.at = "write", !.op = "create", !.new = CreateContest(n, 1, 2)])

handleContestExtend(s, id, m) ==
    LET old == GetContest(id) IN
    /\ ContestExists(id)
    /\ old.stop + m >= old.start
    /\ old.perUser # 0 => old.perUser + m > 0
    /\ BeginEdit(s, [EditOf("extend", id) EXCEPT !.minutes = m])

handleContestPause(s, id) == ContestExists(id) /\ \E on \in {0, 1} : BeginEdit(s, [EditOf("pause", id) EXCEPT !.minutes = on])
handleRankingFreeze(s, id) == ContestExists(id) /\ \E on \in {0, 1} : BeginEdit(s, [EditOf("freeze", id) EXCEPT !.minutes = on])
handleContestDelete(s, id) == ContestExists(id) /\ BeginEdit(s, EditOf("delete", id))

\* The statement of the request.  It changes nothing if the contest is gone
\* by now; the constraints of the table end the request with an error.
Perform(s) ==
    LET r == editing[s]
        id == IF r.op = "create" THEN lastContest + 1 ELSE r.id
        row == contest[id]
        on == r.minutes = 1
        new == CASE r.op \in {"save", "create"} -> UpdateContest(row, r.new)
                 [] r.op = "extend" -> ExtendContest(row, r.old, r.minutes)
                 [] r.op = "pause" -> SetContestPaused(row, on)
                 [] r.op = "freeze" -> SetContestRankingUnfrozen(row, on)
                 [] r.op = "delete" -> NoContest
        refused == \/ r.op # "create" /\ ~ContestExists(id)
                   \/ ~ValidContest(new) \/ (row.perUser > 0 /\ r.op = "extend" /\ new.perUser = 0)
                   \/ r.op \in {"save", "create"} /\ GetContestByName(new.name) \ {id} # {}
    IN /\ r.at = "write" /\ id \in ContestKeys
       /\ lastContest' = IF r.op = "create" THEN id ELSE lastContest
       /\ IF refused
          THEN /\ editing' = [editing EXCEPT ![s] = NoEdit]
               /\ UNCHANGED <<contest, saved, granted, switched, unchangedFor, told>>
          ELSE /\ WriteContest(id, new)
               /\ editing' = [editing EXCEPT ![s] = IF r.op = "create" THEN NoEdit ELSE [r EXCEPT !.at = "publish"]]
               /\ saved' = IF r.op \in {"save", "create"} THEN [saved EXCEPT ![id] = new] ELSE saved
               /\ granted' = [granted EXCEPT ![id] =
                                 IF r.op = "extend" THEN @ + r.minutes ELSE IF r.op \in {"save", "create"} THEN 0 ELSE @]
               /\ switched' = [switched EXCEPT ![id] =
                                 CASE r.op = "pause" -> [@ EXCEPT !.paused = on]
                                   [] r.op = "freeze" -> [@ EXCEPT !.unfrozen = on]
                                   [] r.op = "create" -> Operational
                                   [] OTHER -> @]
       /\ formOf' = IF r.op = "save" THEN [formOf EXCEPT ![s] = NoPage] ELSE formOf
       /\ UNCHANGED edits /\ pagesUnchanged

\* contestChanged, of which a new contest has no need: every server that is
\* subscribed gets the event.  An event that cannot be published, or meets a
\* broken subscription, is lost.
contestChanged(s) ==
    /\ editing[s].at = "publish"
    /\ editing' = [editing EXCEPT ![s] = NoEdit]
    /\ \E lost \in SUBSET WebFronts :
         /\ lostEvents + Cardinality(lost) <= MaxLostEvents
         /\ lostEvents' = lostEvents + Cardinality(lost)
         /\ contestEvents' = [w \in WebFronts |-> IF w \in lost THEN contestEvents[w] ELSE contestEvents[w] \cup {editing[s].id}]
    /\ UNCHANGED <<contest, lastContest, formOf, views, viewLoad, served, edits, viewTicks, saved, granted, switched, unchangedFor, told>>

-----------------------------------------------------------------------------
(* The servers.                                                            *)

frontsUnchanged == UNCHANGED <<contest, lastContest, formOf, editing, edits, saved, granted, switched, lostEvents>>

ViewFreshForever(v) == v.known

\* An entry younger than the time to live.  The time it was loaded at is
\* taken after the row was read.
ViewFresh(v) == v.known /\ v.age < ViewTTL

\* The handler goes on with the row it was given.
serveView(w, v, waited) ==
    served' = [served EXCEPT ![w] =
        [lag |-> IF v.row = contest[v.id] THEN 0 ELSE unchangedFor[v.id] + 1, waited |-> waited]]

withContest(w, n) ==
    /\ viewLoad[w] = NoLoad
    /\ IF ViewFresh(views[w][n])
       THEN serveView(w, views[w][n], 0) /\ UNCHANGED viewLoad
       ELSE /\ GetContestByName(n) # {}
            /\ \E id \in GetContestByName(n) :
                 viewLoad' = [viewLoad EXCEPT ![w] =
                     [at |-> "read", name |-> n, view |-> [NoView EXCEPT !.known = TRUE, !.id = id, !.row = contest[id]]]]
            /\ UNCHANGED served
    /\ UNCHANGED <<views, contestEvents, viewTicks, unchangedFor, told>> /\ frontsUnchanged

\* The queries of load that follow, and the view goes into the cache.
keepView(w) ==
    LET l == viewLoad[w] IN
    /\ l.at = "read"
    /\ views' = [views EXCEPT ![w][l.name] = l.view]
    /\ viewLoad' = [viewLoad EXCEPT ![w] = NoLoad]
    /\ serveView(w, l.view, l.view.age)
    /\ UNCHANGED <<contestEvents, viewTicks, unchangedFor, told>> /\ frontsUnchanged

\* By the name the contest has now.
invalidateContestByName(w, id) ==
    views' = [views EXCEPT ![w] = [n \in ContestNames |-> IF contest[id].name = n THEN NoView ELSE @[n]]]

invalidateContest(w, id) ==
    views' = [views EXCEPT ![w] = [n \in ContestNames |-> IF @[n].id = id THEN NoView ELSE @[n]]]

onEvent(w, id) ==
    /\ id \in contestEvents[w]
    /\ contestEvents' = [contestEvents EXCEPT ![w] = @ \ {id}]
    /\ invalidateContest(w, id)
    /\ told' = [told EXCEPT ![id] = IF viewLoad[w].at = "read" /\ viewLoad[w].view.row # contest[id] THEN @ ELSE @ \cup {w}]
    /\ UNCHANGED <<viewLoad, served, viewTicks, unchangedFor>> /\ frontsUnchanged

\* Time passes.  A row that was being read may have its time taken now.
ViewTick ==
    /\ viewTicks < MaxViewTicks
    /\ viewTicks' = viewTicks + 1
    /\ unchangedFor' = [id \in ContestKeys |-> unchangedFor[id] + 1]
    /\ views' = [w \in WebFronts |-> [n \in ContestNames |->
                    IF views[w][n].known THEN [views[w][n] EXCEPT !.age = @ + 1] ELSE NoView]]
    /\ \E late \in SUBSET {w \in WebFronts : viewLoad[w].at = "read" /\ viewLoad[w].view.age = 0 /\ ~viewLoad[w].view.late} :
         viewLoad' = [w \in WebFronts |->
             CASE viewLoad[w].at = "none" -> NoLoad
               [] w \in late -> [viewLoad[w] EXCEPT !.view.late = TRUE]
               [] OTHER -> [viewLoad[w] EXCEPT !.view.age = @ + 1]]
    /\ served' = [w \in WebFronts |-> NotServed]
    /\ UNCHANGED <<contestEvents, told>> /\ frontsUnchanged

SettingsNext ==
    \/ \E s \in Organizers :
         \/ \E id \in ContestKeys :
              \/ handleContestSettings(s, id)
              \/ \E m \in Extensions : handleContestExtend(s, id, m)
              \/ handleContestPause(s, id) \/ handleRankingFreeze(s, id) \/ handleContestDelete(s, id)
         \/ \E n \in ContestNames : NewForm(s, n)
         \/ SaveForm(s) \/ Perform(s) \/ contestChanged(s)
    \/ \E w \in WebFronts :
         \/ \E n \in ContestNames : withContest(w, n)
         \/ keepView(w)
         \/ \E id \in ContestKeys : onEvent(w, id)
    \/ ViewTick

SettingsSpec == SettingsInit /\ [][SettingsNext]_settingsVars

-----------------------------------------------------------------------------

ContestRow ==
    [name : ContestNames \cup {NoName}, start : Int, stop : Int, perUser : Nat, other : Values \cup {0},
     ops : [paused : BOOLEAN, unfrozen : BOOLEAN]]

SettingsTypeOK ==
    /\ contest \in [ContestKeys -> ContestRow]
    /\ \A s \in Organizers : formOf[s].row \in ContestRow /\ editing[s].at \in {"none", "write", "publish"}
    /\ \A w \in WebFronts : contestEvents[w] \subseteq ContestKeys /\ \A n \in ContestNames : views[w][n].row \in ContestRow

\* The end of a contest is where its settings were saved plus every
\* extension granted since, and the time of each contestant with it,
\* however many organizers extend it at once.
ExtensionsAdd ==
    \A id \in ContestKeys : ContestExists(id) =>
        /\ contest[id].stop = saved[id].stop + granted[id]
        /\ contest[id].perUser = IF saved[id].perUser = 0 THEN 0 ELSE saved[id].perUser + granted[id]

\* A pause, and the unfrozen ranking, last until an organizer ends them:
\* no form saved meanwhile, and no form older than them, does.
OperationalKept == \A id \in ContestKeys : ContestExists(id) => contest[id].ops = switched[id]

\* No server serves settings that changed longer ago than the time to live
\* (or than the load the request waited for, and the time of one query),
\* whatever events are lost; so a pause stops submissions everywhere then.
ServedFresh ==
    \A w \in WebFronts :
        served[w].lag <= ViewTTL + 1 \/ served[w].lag <= served[w].waited + 2

\* A server that handled the event of the last change has no older settings
\* to serve, under the name the contest had either, unless it was reading
\* them just then.
ToldIsFresh ==
    \A id \in ContestKeys : \A w \in told[id] : \A n \in ContestNames :
        views[w][n].id = id => views[w][n].row = contest[id]

SettingsSound == ExtensionsAdd /\ OperationalKept /\ ServedFresh /\ ToldIsFresh
=============================================================================
