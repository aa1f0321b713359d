---------------------------- MODULE ContestWeb ----------------------------
(***************************************************************************)
(* The contest web servers and one participation: logins and sessions      *)
(* (contestweb/auth.go), the cached participation (contestweb/cache.go),   *)
(* the check of every request (withAuth of contestweb/server.go), and the  *)
(* requests that change state: the start button, submissions               *)
(* (contestweb/handlers.go) and tokens (contestweb/tokens.go).  Beside     *)
(* them the organizers edit the participation, close its sessions and      *)
(* disable its user (adminweb/participations.go, adminweb/accounts.go).    *)
(* Several servers answer the same contestant, each with a cache of its    *)
(* own; the event that empties the caches may be late or lost.             *)
(***************************************************************************)
EXTENDS ContestWindow, FiniteSets

CONSTANTS Servers,      \* contest web servers
          Clients,      \* browsers of the contestant, one request at a time each
          Tasks,        \* tasks of the contest
          Scenarios,    \* the settings of a contest and the bounds on what happens in it
          CacheTTL,     \* how long a cached participation is used
          MaxLoad       \* how long reading a participation takes at most

\* The times of a contest's settings, and the bounds on what happens.
Window(r) ==
    /\ r.start \in Nat /\ r.stop \in Nat /\ r.start < r.stop /\ r.perUser \in Nat
    /\ r.analysis \in BOOLEAN /\ r.analysisStart \in Int /\ r.analysisStop \in Int
    /\ r.practice \in BOOLEAN

Bounds == [kinds : SUBSET {"page", "start", "submit", "token"},
           asks : SUBSET {"more", "reset", "logout", "disable"},
           logins : Nat, edits : Nat, errors : Nat, failed : Nat, rows : Nat, time : Nat]

\* Nobody has a session of a single-login contest before its first login.
ASSUME WebAssumption ==
    /\ CacheTTL \in Nat \ {0} /\ MaxLoad \in Nat
    /\ \A x \in Scenarios : /\ Window(x.rules) /\ x.bounds \in Bounds
                            /\ x.rules.single => ~x.loggedIn

VARIABLES clock,       \* the wall clock, read by servers and database
          rules,       \* the contest's settings
          row,         \* the participation in the database
          superseded,  \* superseded[n]: when login nonce n-1 stopped being current
          restarted,   \* the participation lost its starting time
          cache,       \* cache[s]: the participation as server s remembers it
          event,       \* event[s]: an invalidation is on its way to s
          cookie,      \* cookie[c]: the login nonce in c's session, or Unset
          req,         \* req[c]: the request c is waiting for
          editor,      \* the organizers' request that is being handled
          rows,        \* submissions in the database, in order of insertion
          plays,       \* tokens in the database, in order of insertion
          bounds       \* bounds on what happens, and the failures so far

vars == <<clock, rules, row, superseded, restarted, cache, event, cookie, req, editor,
          rows, plays, bounds>>

Nothing == [row |-> [starting |-> Unset, extra |-> 0, nonce |-> Unset, disabled |-> Unset],
            loaded |-> Unset]

Idle == [pc |-> "idle"]

\* What contest.Compute is told of the participation (participantOf).
participantOf(r) == [site |-> Unset, delay |-> 0, extra |-> r.extra, starting |-> r.starting,
                     unrestricted |-> FALSE]

\* Both browsers may have logged in before, with the nonce a row starts with.
Init ==
    \E x \in Scenarios :
        /\ clock = 0
        /\ rules = x.rules /\ bounds = x.bounds
        /\ row = [starting |-> Unset, extra |-> 0, nonce |-> 0, disabled |-> Unset]
        /\ superseded = <<>> /\ restarted = FALSE
        /\ cache = [s \in Servers |-> Nothing]
        /\ event = [s \in Servers |-> FALSE]
        /\ cookie = [c \in Clients |-> IF x.loggedIn THEN 0 ELSE Unset]
        /\ req = [c \in Clients |-> Idle]
        /\ editor = Idle
        /\ rows = <<>> /\ plays = <<>>

(***************************************************************************)
(* The cache of a server, and the events that empty it.                    *)
(***************************************************************************)
\* Mutant: an entry is used however old it is.
FreshForever(s) == cache[s] # Nothing

Fresh(s) == cache[s] # Nothing /\ clock - cache[s].loaded < CacheTTL

\* A change is announced: the server that made it empties its own cache, the
\* others hear of it by an event.
Announce(here) ==
    /\ cache' = [s \in Servers |-> IF s \in here THEN Nothing ELSE cache[s]]
    /\ event' = [s \in Servers |-> TRUE]

\* onEvent: TypeContest drops the participation.  An event that is lost (the
\* subscription was down) is one that never comes.
onEvent(s) ==
    /\ event[s]
    /\ event' = [event EXCEPT ![s] = FALSE]
    /\ cache' = [cache EXCEPT ![s] = Nothing]
    /\ UNCHANGED <<clock, rules, row, superseded, restarted, cookie, req, editor, rows, plays, bounds>>

(***************************************************************************)
(* handleLogin and startSession.                                           *)
(***************************************************************************)
GetLoginCandidate == [nonce |-> row.nonce, disabled |-> row.disabled]

\* A disabled user goes no further.
handleLogin(c, s) ==
    /\ req[c] = Idle /\ cookie[c] = Unset /\ bounds.logins > 0
    /\ GetLoginCandidate.disabled = Unset
    /\ req' = [req EXCEPT ![c] = [pc |-> "login", server |-> s, nonce |-> GetLoginCandidate.nonce]]
    /\ bounds' = [bounds EXCEPT !.logins = @ - 1]
    /\ UNCHANGED <<clock, rules, row, superseded, restarted, cache, event, cookie, editor, rows, plays>>

\* Mutant: the next nonce is computed and not stored.
BumpLoginNonceUnsaved ==
    UNCHANGED <<row, superseded>>

BumpLoginNonce ==
    /\ row' = [row EXCEPT !.nonce = @ + 1]
    /\ superseded' = Append(superseded, clock)

\* Mutant: a login leaves the nonce as it is.
startSessionKept(c) ==
    /\ req[c].pc = "login" /\ rules.single
    /\ cookie' = [cookie EXCEPT ![c] = row.nonce]
    /\ req' = [req EXCEPT ![c] = Idle]
    /\ UNCHANGED <<clock, rules, row, superseded, restarted, cache, event, editor, rows, plays, bounds>>

\* A new login makes every other session invalid.
startSession(c) ==
    /\ req[c].pc = "login" /\ rules.single
    /\ BumpLoginNonce
    /\ Announce({req[c].server})
    /\ cookie' = [cookie EXCEPT ![c] = row.nonce + 1]
    /\ req' = [req EXCEPT ![c] = Idle]
    /\ UNCHANGED <<clock, rules, restarted, editor, rows, plays, bounds>>

\* The statement failed: the session has the nonce the candidate had.
startSessionUnbumped(c) ==
    /\ req[c].pc = "login" /\ rules.single /\ bounds.errors > 0
    /\ Announce({req[c].server})
    /\ cookie' = [cookie EXCEPT ![c] = req[c].nonce]
    /\ req' = [req EXCEPT ![c] = Idle]
    /\ bounds' = [bounds EXCEPT !.errors = @ - 1, !.failed = @ + 1]
    /\ UNCHANGED <<clock, rules, row, superseded, restarted, editor, rows, plays>>

\* Contests that allow several logins do not touch the nonce.
startSessionShared(c) ==
    /\ req[c].pc = "login" /\ ~rules.single
    /\ cookie' = [cookie EXCEPT ![c] = req[c].nonce]
    /\ req' = [req EXCEPT ![c] = Idle]
    /\ UNCHANGED <<clock, rules, row, superseded, restarted, cache, event, editor, rows, plays, bounds>>

(***************************************************************************)
(* withAuth: a session is accepted when its nonce is the participation's   *)
(* and the user is not disabled, by the participation as cached.  The      *)
(* status of the whole request is computed here, from it.                  *)
(***************************************************************************)
\* A token is played on a submission that is there.
Requests ==
    UNION {CASE kind = "page" -> {<<"page">>}
             [] kind = "start" -> {<<"start">>}
             [] kind = "submit" -> {<<"submit", t>> : t \in Tasks}
             [] kind = "token" -> {<<"token", i>> : i \in DOMAIN rows} : kind \in bounds.kinds}

\* The first check of each handler, made with what withAuth found.
Open(what, part, at) ==
    LET p == participantOf(part)
    IN  CASE what[1] = "start" -> CanStart(rules, p, at)
          [] what[1] = "submit" -> CanSubmit(rules, p, at)
          [] what[1] = "token" -> Phase(rules, p, at) = "running"
          [] OTHER -> TRUE

withAuth(c, s, what, part) ==
    LET valid == cookie[c] = part.nonce /\ part.disabled = Unset
    IN  /\ req' = [req EXCEPT ![c] = IF valid /\ Open(what, part, clock)
                                     THEN [pc |-> "accepted", server |-> s, what |-> what,
                                           part |-> part, at |-> clock]
                                     ELSE Idle]
        /\ cookie' = [cookie EXCEPT ![c] = IF valid THEN @ ELSE Unset]

\* A request whose participation is in the cache.
Request(c, s, what) ==
    /\ req[c] = Idle /\ cookie[c] # Unset /\ Fresh(s)
    /\ withAuth(c, s, what, cache[s].row)
    /\ UNCHANGED <<clock, rules, row, superseded, restarted, cache, event, editor, rows, plays, bounds>>

\* participation: one that is not is read without the lock ...
Load(c, s) ==
    /\ req[c] = Idle /\ cookie[c] # Unset /\ ~Fresh(s)
    /\ req' = [req EXCEPT ![c] = [pc |-> "loading", server |-> s, part |-> row, at |-> clock]]
    /\ UNCHANGED <<clock, rules, row, superseded, restarted, cache, event, cookie, editor, rows, plays, bounds>>

\* ... and stored when it came, whatever happened meanwhile.
Loaded(c, what) ==
    /\ req[c].pc = "loading"
    /\ cache' = [cache EXCEPT ![req[c].server] = [row |-> req[c].part, loaded |-> clock]]
    /\ withAuth(c, req[c].server, what, req[c].part)
    /\ UNCHANGED <<clock, rules, row, superseded, restarted, event, editor, rows, plays, bounds>>

\* Pages and fragments only read.
Answer(c) ==
    /\ req[c].pc = "accepted" /\ req[c].what[1] = "page"
    /\ req' = [req EXCEPT ![c] = Idle]
    /\ UNCHANGED <<clock, rules, row, superseded, restarted, cache, event, cookie, editor, rows, plays, bounds>>

(***************************************************************************)
(* handleStart.                                                            *)
(***************************************************************************)
Accepted(c, kind) == req[c].pc = "accepted" /\ req[c].what[1] = kind

Status(c, Of(_, _, _)) == Of(rules, participantOf(req[c].part), req[c].at)

\* Mutant: the second of two starts moves the starting time.
StartParticipationAgain(at) == row' = [row EXCEPT !.starting = at]

\* COALESCE(starting_time, at)
StartParticipation(at) == row' = [row EXCEPT !.starting = IF @ = Unset THEN at ELSE @]

handleStart(c) ==
    /\ Accepted(c, "start")
    /\ StartParticipation(req[c].at) /\ Announce({req[c].server})
    /\ req' = [req EXCEPT ![c] = Idle]
    /\ UNCHANGED <<clock, rules, superseded, restarted, cookie, editor, rows, plays, bounds>>

(***************************************************************************)
(* handleSubmit: the limits are checked against the rows there are, then   *)
(* the files are stored and the row is inserted in a transaction.  Paused  *)
(* submissions, closed tasks and the limiter only refuse more, and are     *)
(* left out.                                                               *)
(***************************************************************************)
\* SubmissionStats: the official submissions, of the contest or of a task.
SubmissionStats(ofTasks) ==
    LET counted == SelectSeq(rows, LAMBDA s : s.official /\ s.task \in ofTasks)
    IN  [i \in DOMAIN counted |-> counted[i].at]

Check(t, at) ==
    /\ UnderLimits(rules.max, rules.interval, SubmissionStats(Tasks), at)
    /\ UnderLimits(rules.taskMax, rules.taskInterval, SubmissionStats({t}), at)

handleSubmit(c) ==
    /\ Accepted(c, "submit")
    /\ LET allowed == Status(c, Official) => Check(req[c].what[2], req[c].at)
       IN  req' = [req EXCEPT ![c] = IF allowed THEN [@ EXCEPT !.pc = "storing"] ELSE Idle]
    /\ UNCHANGED <<clock, rules, row, superseded, restarted, cache, event, cookie, editor, rows, plays, bounds>>

storeSubmission(c) ==
    /\ req[c].pc = "storing" /\ Len(rows) < bounds.rows
    /\ rows' = Append(rows, [task |-> req[c].what[2], at |-> req[c].at, official |-> Status(c, Official)])
    /\ req' = [req EXCEPT ![c] = Idle]
    /\ UNCHANGED <<clock, rules, row, superseded, restarted, cache, event, cookie, editor, plays, bounds>>

(***************************************************************************)
(* handleToken: the row of the participation is locked, so that the plays  *)
(* read are all there are; a submission takes one token.  An invalidated   *)
(* submission, and a task whose scores are shown anyway, are left out:     *)
(* there the code refuses a play that the model allows.                    *)
(***************************************************************************)
PlayedOn(ofTasks) ==
    LET counted == SelectSeq(plays, LAMBDA p : rows[p.sub].task \in ofTasks)
    IN  SortSeq([i \in DOMAIN counted |-> counted[i].at], <)

\* tokens: the contest's pool and the task's must both allow a play.
tokens(c, t) ==
    LET begin == Begin(rules, participantOf(req[c].part))
    IN  /\ CanPlay(rules.tokens, begin, PlayedOn(Tasks), req[c].at)
        /\ CanPlay(rules.taskTokens, begin, PlayedOn({t}), req[c].at)

handleToken(c) ==
    /\ Accepted(c, "token")
    /\ LET i == req[c].what[2]
           played == /\ i \in DOMAIN rows
                     /\ rows[i].official
                     /\ tokens(c, rows[i].task)
                     /\ \A k \in DOMAIN plays : plays[k].sub # i
       IN  plays' = IF played THEN Append(plays, [sub |-> i, at |-> req[c].at]) ELSE plays
    /\ req' = [req EXCEPT ![c] = Idle]
    /\ UNCHANGED <<clock, rules, row, superseded, restarted, cache, event, cookie, editor, rows, bounds>>

(***************************************************************************)
(* The organizers.                                                         *)
(***************************************************************************)
\* handleParticipationUpdate reads the participation ...
Edit(ask) ==
    /\ editor = Idle /\ bounds.edits > 0
    /\ editor' = [pc |-> "read", ask |-> ask, starting |-> row.starting]
    /\ bounds' = [bounds EXCEPT !.edits = @ - 1]
    /\ UNCHANGED <<clock, rules, row, superseded, restarted, cache, event, cookie, req, rows, plays>>

\* ... and writes it whole, the starting time it read included, then closes
\* the sessions when that was asked for.
handleParticipationUpdate ==
    /\ editor.pc = "read"
    /\ LET starting == IF editor.ask = "reset" THEN Unset ELSE editor.starting
           logout == editor.ask = "logout"
       IN  /\ row' = [row EXCEPT !.starting = starting,
                                 !.extra = IF editor.ask = "more" THEN @ + 1 ELSE @,
                                 !.nonce = IF logout THEN @ + 1 ELSE @]
           /\ superseded' = IF logout THEN Append(superseded, clock) ELSE superseded
           /\ restarted' = (restarted \/ (row.starting # Unset /\ starting # row.starting))
    /\ Announce({})
    /\ editor' = Idle
    /\ UNCHANGED <<clock, rules, cookie, req, rows, plays, bounds>>

\* The model keeps the time at which it happened.
SetUserDisabled(disabled) == row' = [row EXCEPT !.disabled = IF disabled THEN clock ELSE Unset]

setUserDisabled(disabled) ==
    /\ editor = Idle /\ bounds.edits > 0 /\ "disable" \in bounds.asks
    /\ (row.disabled = Unset) = disabled
    /\ SetUserDisabled(disabled)
    /\ Announce({})
    /\ bounds' = [bounds EXCEPT !.edits = @ - 1]
    /\ UNCHANGED <<clock, rules, superseded, restarted, cookie, req, editor, rows, plays>>

\* Time passes; reading a participation does not take longer than MaxLoad.
Tick ==
    /\ clock < bounds.time
    /\ \A c \in Clients : req[c].pc = "loading" => clock - req[c].at < MaxLoad
    /\ clock' = clock + 1
    /\ UNCHANGED <<rules, row, superseded, restarted, cache, event, cookie, req, editor, rows, plays, bounds>>

Next ==
    \/ Tick
    \/ \E s \in Servers : onEvent(s)
    \/ \E c \in Clients, s \in Servers : handleLogin(c, s)
    \/ \E c \in Clients : \/ startSession(c) \/ startSessionUnbumped(c) \/ startSessionShared(c)
                          \/ Answer(c) \/ handleStart(c) \/ handleSubmit(c) \/ storeSubmission(c) \/ handleToken(c)
    \/ \E c \in Clients, s \in Servers : Load(c, s)
    \/ \E c \in Clients, s \in Servers, what \in Requests : Request(c, s, what)
    \/ \E c \in Clients, what \in Requests : Loaded(c, what)
    \/ \E ask \in bounds.asks \ {"disable"} : Edit(ask)
    \/ handleParticipationUpdate
    \/ \E disabled \in BOOLEAN : setUserDisabled(disabled)

Spec == Init /\ [][Next]_vars

-----------------------------------------------------------------------------
\* The state has the shape the code gives it; the row's nonce counts the
\* changes of it, no cookie, cache or request holds a nonce the database has
\* not reached, and a cached row was read before it was stored.
TypeOK ==
    /\ clock \in 0..bounds.time
    /\ row.nonce = Len(superseded)
    /\ row.starting \in -1..clock /\ row.extra \in Nat /\ row.disabled \in -1..clock
    /\ \A s \in Servers : cache[s].row.nonce <= row.nonce /\ cache[s].loaded <= clock
    /\ \A c \in Clients : /\ cookie[c] \in -1..row.nonce
                          /\ req[c].pc \in {"accepted", "loading", "storing"} =>
                                /\ req[c].part.nonce <= row.nonce
                                /\ req[c].at \in 0..clock /\ req[c].server \in Servers
    /\ \A i \in DOMAIN rows : rows[i].at <= clock /\ rows[i].task \in Tasks
    /\ \A k \in DOMAIN plays : plays[k].at <= clock /\ plays[k].sub \in DOMAIN rows

\* A session that was closed, by the organizers or by a newer login, and one
\* of a disabled user, is accepted no longer than the cache lives and a row
\* takes to read, even when the event of the change is lost and when the row
\* was read before the change and stored after it (cache.participation,
\* withAuth).
SessionsEnd ==
    \A c \in Clients : req[c].pc \in {"accepted", "storing"} =>
        LET n == req[c].part.nonce
        IN  /\ n < row.nonce => req[c].at < superseded[n + 1] + CacheTTL + MaxLoad
            /\ row.disabled # Unset => req[c].at < row.disabled + CacheTTL + MaxLoad

\* In a single-login contest two browsers never hold the session that is
\* current, unless the login of one could not change the nonce (startSession,
\* BumpLoginNonce).
OneSession ==
    rules.single /\ bounds.failed = 0 =>
        \A c, d \in Clients : cookie[c] = row.nonce /\ cookie[d] = row.nonce => c = d

OfficialTimes == {rows[i].at : i \in {k \in DOMAIN rows : rows[k].official}}

\* Official submissions lie inside the contest and, when every contestant has
\* a time of their own, inside that time counted from the first press of the
\* start button, whichever servers were pressed and whatever each had cached
\* (Compute, StartParticipation), unless the starting time was taken away.
OwnTime ==
    ~restarted => \A at \in OfficialTimes :
        /\ rules.start <= at /\ at < rules.stop + row.extra
        /\ rules.perUser > 0 => /\ row.starting # Unset /\ row.starting <= at
                                /\ at < row.starting + rules.perUser + row.extra

\* The limits on submissions hold but for the requests that are handled at
\* the same time: each of them may add one (handleSubmit checks and inserts
\* separately).
SubmissionsBounded ==
    LET others == Cardinality(Clients) - 1
    IN  /\ rules.max > 0 => Len(SubmissionStats(Tasks)) <= rules.max + others
        /\ \A t \in Tasks : rules.taskMax > 0 =>
              Len(SubmissionStats({t})) <= rules.taskMax + others

\* Tokens are never spent twice nor before they exist: all the plays together
\* do not exceed what was generated by now, those of an interval do not exceed
\* what a full pool holds and what came in that interval, the cap and the
\* least distance are kept, and a submission takes one, although requests
\* reach the lock in another order than they arrived (handleToken, Tokens).
TokensEarned ==
    LET t == rules.tokens
        begin == Begin(rules, participantOf(row))
        at == PlayedOn(Tasks)
        Generated(k) == t.genNumber * Generations(t, begin, k)
    IN  ~restarted /\ plays # <<>> =>
          /\ t.mode = "finite" =>
                /\ Len(plays) <= t.genInitial + Generated(clock)
                /\ \A i, j \in DOMAIN at : i <= j /\ t.genMax > 0 =>
                      j - i + 1 <= t.genMax + Generated(at[j]) - Generated(at[i])
          /\ t.max > 0 => Len(plays) <= t.max
          /\ \A i, j \in DOMAIN at : i < j => at[j] - at[i] >= t.minInterval
          /\ \A k, l \in DOMAIN plays : plays[k].sub = plays[l].sub => k = l

Stage(phase) ==
    CASE phase = "not_started" -> 0 [] phase = "waiting_start" -> 1 [] phase = "running" -> 2
      [] phase = "finished" -> 3 [] phase = "analysis" -> 4 [] phase = "practice" -> 5

\* Time alone never opens what it has closed: a contest that finished does
\* not run again, and practice never comes before the analysis (Compute).
PhaseOrder ==
    [][LET before == Phase(rules, participantOf(row), clock)
           after == Phase(rules, participantOf(row), clock')
       IN  row' = row => Stage(before) <= Stage(after) \/ (before = "analysis" /\ after = "finished")]_vars

\* A session that must end ends within the life of a cached row, and a contest
\* with one login at a time has one.
SessionsSound == SessionsEnd /\ OneSession

\* Submissions and tokens keep to the contestant's own time and to the limits
\* of the contest, whichever server takes them.
LimitsKept == OwnTime /\ SubmissionsBounded /\ TokensEarned

=============================================================================
