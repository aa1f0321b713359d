------------------------------ MODULE Accounts ------------------------------
(***************************************************************************)
(* The administrators of the administration web servers: logging in (with  *)
(* a second factor), the sessions each server accepts from its cache of    *)
(* accounts, the pages where accounts are changed, and the audit of every  *)
(* change (adminweb/server.go, auth.go, totp.go, system.go).               *)
(*                                                                         *)
(* A request is several statements: what it read may have changed before   *)
(* it writes.  A session names the password and the role it was made for.  *)
(***************************************************************************)
EXTENDS Naturals, Sequences, SequencesExt, FiniteSets

(***************************************************************************)
(* The audit log and its verification (auditlog/verify.go).  The trigger   *)
(* of migration 0021 chains the entries one at a time; the verification    *)
(* walks them page by page while others go on inserting.  The log may have *)
(* been altered before, in the database itself: inside, with what follows  *)
(* left as it was, or rewritten as another chain, of which a tail removed  *)
(* is one case.  Before that somebody may have written its head down.      *)
(***************************************************************************)
CONSTANTS
    Contents,      \* what an entry says: actor, action, target, details
    AuditPage,     \* entries read by one query
    OldEntries,    \* the log has up to this many entries at the start
    OldContents,   \* what these say
    MaxEntries     \* bound on the entries

ASSUME AuditAssumption ==
    /\ AuditPage \in Nat \ {0} /\ OldEntries \in Nat /\ MaxEntries \in Nat
    /\ OldContents \subseteq Contents

VARIABLES
    auditLog,      \* the entries, by their sequence number
    altered,       \* how the log was altered in the database itself
    noted,         \* the head of the log as written, which somebody wrote down
    verification   \* how far Verify is

auditVars == <<auditLog, altered, noted, verification>>

NoReport == [at |-> "idle", last |-> 0, prev |-> << >>, problems |-> {}, entries |-> 0, head |-> 0]

\* A hash stands for everything hashed so far: hashes do not collide.
audit_hash(prev, seq, content) == Append(prev, <<seq, content>>)

\* The trigger: an entry joins the chain after the last one.
audit_log_chain(log, content) ==
    LET last == IF log = << >> THEN [seq |-> 0, hash |-> << >>] ELSE Last(log)
    IN [seq |-> last.seq + 1, prev |-> last.hash, content |-> content,
        hash |-> audit_hash(last.hash, last.seq + 1, content)]

\* The hash of the contents c, and their chain.
HashOf(c) == [j \in DOMAIN c |-> <<j, c[j]>>]

Chain(c) ==
    [i \in DOMAIN c |->
        [seq |-> i, prev |-> HashOf(SubSeq(c, 1, i - 1)), content |-> c[i], hash |-> HashOf(SubSeq(c, 1, i))]]

OldLogs == UNION {[1 .. n -> OldContents] : n \in 0 .. OldEntries}

\* An entry says something else, or one that others follow is gone.
AlteredInside(c) ==
    \/ \E i \in DOMAIN c : \E d \in OldContents \ {c[i]} : auditLog = [Chain(c) EXCEPT ![i].content = d]
    \/ \E i \in DOMAIN c \ {Len(c)} : auditLog = RemoveAt(Chain(c), i)

\* A chain of other contents, or of the first ones only.
Rewrites(c) == \E d \in OldLogs \ {c} : Len(d) <= Len(c) /\ auditLog = Chain(d)

AuditInit ==
    /\ \E c \in OldLogs :
         /\ \E k \in 0 .. Len(c) : noted = [seq |-> k, hash |-> HashOf(SubSeq(c, 1, k))]
         /\ \/ altered = "no" /\ auditLog = Chain(c)
            \/ altered = "inside" /\ AlteredInside(c)
            \/ altered = "rewritten" /\ Rewrites(c)
    /\ verification = NoReport

\* Logged(content) is also what other modules do as part of their actions.
Logged(content) == auditLog' = Append(auditLog, audit_log_chain(auditLog, content))

InsertAuditLog ==
    /\ Len(auditLog) < MaxEntries
    /\ \E content \in Contents : Logged(content)
    /\ UNCHANGED <<altered, noted, verification>>

\* Every entry is chained: CountUnchainedAudit finds none.
Verify ==
    /\ verification.at = "idle"
    /\ verification' = [verification EXCEPT !.at = "walking"]
    /\ UNCHANGED <<auditLog, altered, noted>>

\* A page that begins with the last entry of the one before.
AuditChainAgain(after) ==
    LET rows == SelectSeq(auditLog, LAMBDA e : e.seq >= after)
    IN SubSeq(rows, 1, IF Len(rows) > AuditPage THEN AuditPage ELSE Len(rows))

\* The entries after a sequence number, in order, a page at most.
AuditChain(after) ==
    LET rows == SelectSeq(auditLog, LAMBDA e : e.seq > after)
    IN SubSeq(rows, 1, IF Len(rows) > AuditPage THEN AuditPage ELSE Len(rows))

\* What is wrong with an entry that was read after `before'.
problems(before, e) ==
    {p \in {"missing", "unlinked", "modified"} :
        \/ p = "missing" /\ e.seq # before.seq + 1
        \/ p = "unlinked" /\ e.prev # before.hash
        \/ p = "modified" /\ e.hash # audit_hash(e.prev, e.seq, e.content)}

\* One query of the walk; a page that is not full is the last one.
VerifyPage ==
    LET rows == AuditChain(verification.last)
        before(i) == IF i = 1 THEN [seq |-> verification.last, hash |-> verification.prev] ELSE rows[i - 1]
    IN /\ verification.at = "walking"
       /\ verification' = [verification EXCEPT
              !.at = IF Len(rows) < AuditPage THEN "walked" ELSE @,
              !.last = IF rows = << >> THEN @ ELSE Last(rows).seq,
              !.prev = IF rows = << >> THEN @ ELSE Last(rows).hash,
              !.problems = @ \cup UNION {problems(before(i), rows[i]) : i \in DOMAIN rows},
              !.entries = @ + Len(rows)]
       /\ UNCHANGED <<auditLog, altered, noted>>

\* The head of the chain, which may have grown since.
AuditHead ==
    /\ verification.at = "walked"
    /\ verification' = [verification EXCEPT !.at = "done", !.head = IF auditLog = << >> THEN 0 ELSE Last(auditLog).seq]
    /\ UNCHANGED <<auditLog, altered, noted>>

AuditNext == InsertAuditLog \/ Verify \/ VerifyPage \/ AuditHead

AuditSpec == AuditInit /\ [][AuditNext]_auditVars

AuditTypeOK ==
    /\ altered \in {"no", "inside", "rewritten"}
    /\ noted.seq \in 0 .. OldEntries /\ DOMAIN noted.hash = 1 .. noted.seq
    /\ verification.at \in {"idle", "walking", "walked", "done"}
    /\ verification.problems \subseteq {"missing", "unlinked", "modified"}
    /\ verification.last \in Nat /\ verification.entries \in Nat /\ verification.head \in Nat
    /\ \A i \in DOMAIN auditLog : auditLog[i].content \in Contents /\ auditLog[i].seq \in Nat

\* The log still has the head that was written down.
Reaches(head) == head.seq = 0 \/ \E i \in DOMAIN auditLog : auditLog[i].seq = head.seq /\ auditLog[i].hash = head.hash

\* Verify finds a problem exactly when the log was altered inside, whatever
\* is inserted while it walks, and the head it reports is not before the
\* entries it walked.  It does not notice a tail removed or a chain computed
\* anew; but when it finds no problem, and the log still has the head that
\* was written down, nothing up to that head was altered.
VerifyRight ==
    verification.at = "done" =>
        /\ verification.problems # {} <=> altered = "inside"
        /\ verification.last <= verification.head
        /\ altered # "inside" => verification.entries = verification.last
        /\ verification.problems = {} /\ Reaches(noted) =>
             \A i \in 1 .. noted.seq : auditLog[i].seq = i /\ auditLog[i].content = noted.hash[i][2]

-----------------------------------------------------------------------------
(***************************************************************************)
(* The accounts.                                                           *)
(***************************************************************************)

CONSTANTS
    Admins,        \* accounts, some of which do not exist yet
    FirstAccounts, \* tables of accounts to start with
    Browsers,
    FirstLogin,    \* the account each browser is logged in with at the start, unless it has a default password
    WebServers,    \* replicas of the administration web server
    Roles,         \* the roles a form gives
    Forms,         \* the forms that change an account
    TTL,           \* how long a cached account is used, in ticks
    FailureLimit,  \* failed logins per account and minute
    \* Bounds of the model
    MaxRequests, MaxTicks, MaxFaults

Nobody == "nobody"
DefaultPassword == 0
Founder(pw, totp) == [exists |-> TRUE, enabled |-> TRUE, role |-> "all", pw |-> pw, totp |-> totp, must |-> FALSE]
NoAccount == [exists |-> FALSE, enabled |-> FALSE, role |-> "none", pw |-> 0, totp |-> FALSE, must |-> FALSE]
NoEntry == [known |-> FALSE, row |-> NoAccount, age |-> 0, late |-> FALSE]
NoSession == [admin |-> Nobody, pw |-> 0, role |-> "none"]
NoForm == [enabled |-> FALSE, role |-> "none", password |-> FALSE, reset |-> FALSE]
NoRequest == [at |-> "none", id |-> 0, server |-> "none", route |-> "none", admin |-> Nobody, row |-> NoAccount,
              stale |-> FALSE, early |-> FALSE, lag |-> 0, target |-> Nobody, old |-> NoAccount, form |-> NoForm]
NoCommand == [admin |-> Nobody, role |-> "none"]
NoFailures == [login |-> 0, code |-> 0]

OwnRoutes == {"logout", "password", "2fa_start", "2fa_enable", "2fa_disable"}
AdminRoutes == {"create", "update", "delete"}
Routes == {"read", "tasks"} \cup OwnRoutes \cup AdminRoutes
passwordChangeRoutes == {"logout", "password"}

ASSUME AccountsAssumption ==
    /\ Nobody \notin Admins
    /\ FirstAccounts \in SUBSET [Admins -> {NoAccount} \cup {Founder(pw, totp) : pw \in {0, 1}, totp \in BOOLEAN}]
    /\ \A table \in FirstAccounts : \E a \in Admins : table[a].exists
    /\ FirstLogin \in [Browsers -> Admins]
    /\ Roles \in SUBSET {"all", "messaging", "task_setter", "read_only", "leader"} /\ "all" \in Roles
    /\ Forms \in SUBSET [enabled : BOOLEAN, role : Roles, password : BOOLEAN, reset : BOOLEAN]
    /\ TTL \in Nat \ {0} /\ FailureLimit \in Nat \ {0}
    /\ MaxRequests \in Nat /\ MaxTicks \in Nat /\ MaxFaults \in Nat

VARIABLES
    account,       \* the admins table
    cached,        \* per server: adminCache
    cookie,        \* per browser: the session it holds
    pending,       \* per browser: the account whose second factor is asked for
    enrolling,     \* per browser: the account whose new second factor awaits confirmation
    request,       \* per browser: the request under way
    cli,           \* the admin-password command under way
    failed,        \* per account: wrong passwords and wrong codes of this minute
    ticks, requests, faults,
    \* History
    since,         \* per account: ticks since it last changed
    dropped,       \* per account: the servers that dropped it after it last changed
    wrote,         \* the requests that changed an account
    excused,       \* those that met an error, or whose author was deleted meanwhile
    overlapped,    \* rights were written while another request had checked them
    unmarked       \* accounts whose default password the last login could not mark

accountsVars ==
    <<account, cached, cookie, pending, enrolling, request, cli, failed, ticks, requests, faults,
      since, dropped, wrote, excused, overlapped, unmarked>>

\* What a route asks for.
perm(route) ==
    CASE route \in OwnRoutes -> "self"
      [] route \in AdminRoutes -> "all"
      [] route = "tasks" -> "tasks"
      [] route = "read" -> "read"

roleAllows(role, p) ==
    \/ p = "self" \/ role = "all"
    \/ role = "messaging" /\ p \in {"read", "messaging", "leader"}
    \/ role = "task_setter" /\ p \in {"read", "tasks", "leader"}
    \/ role = "read_only" /\ p \in {"read", "leader"}
    \/ role = "leader" /\ p = "leader"

\* A session is bound to the password and the role it was made for.
adminNonce(a, row) == [admin |-> a, pw |-> row.pw, role |-> row.role]

\* The queries.
GetAdmin(a) == account[a]
CreateAdmin(role, pw) == [Founder(pw, FALSE) EXCEPT !.role = role]
UpdateAdmin(row, enabled, role) == [row EXCEPT !.enabled = enabled, !.role = role]
SetAdminPassword(row, pw) == [row EXCEPT !.pw = pw, !.must = FALSE]
SetAdminTOTP(row, on) == [row EXCEPT !.totp = on]
RequireAdminPasswordChange(row) == [row EXCEPT !.must = TRUE]
ListAdmins == {a \in Admins : account[a].exists}

Full(row) == row.exists /\ row.enabled /\ row.role = "all"

\* The administrator itself is counted among the others.
fullAdmins(a) == {c \in ListAdmins : Full(account[c])}

otherFullAdmins(a) == {c \in ListAdmins \ {a} : Full(account[c])}

AccountsInit ==
    /\ account \in FirstAccounts
    /\ cached = [s \in WebServers |-> [a \in Admins |-> NoEntry]]
    /\ cookie = [b \in Browsers |-> LET a == FirstLogin[b] IN
                    IF account[a].exists /\ account[a].pw # DefaultPassword THEN adminNonce(a, account[a]) ELSE NoSession]
    /\ pending = [b \in Browsers |-> Nobody] /\ enrolling = [b \in Browsers |-> Nobody]
    /\ request = [b \in Browsers |-> NoRequest] /\ cli = NoCommand
    /\ failed = [a \in Admins |-> NoFailures]
    /\ ticks = 0 /\ requests = 0 /\ faults = 0
    /\ since = [a \in Admins |-> 0] /\ dropped = [a \in Admins |-> {}]
    /\ wrote = {} /\ excused = {} /\ overlapped = FALSE /\ unmarked = {}

-----------------------------------------------------------------------------
\* The parts of a request.

At(b, place) == request[b].at = place
Goto(b, place) == request' = [request EXCEPT ![b].at = place]
End(b) == request' = [request EXCEPT ![b] = NoRequest]
Own(b) == request[b].admin
NewRequest(s, a, place) ==
    [NoRequest EXCEPT !.at = place, !.id = requests + 1, !.server = s, !.admin = a, !.row = GetAdmin(a)]
\* A password nobody had before.
NewPassword(b) == request[b].id + 1

\* A row of a changes.
Store(a, row) ==
    /\ account' = [account EXCEPT ![a] = IF @.exists \/ row.exists THEN row ELSE @]
    /\ since' = [since EXCEPT ![a] = 0]

\* A handler changes the row of a.
Change(b, a, row) ==
    /\ Store(a, row)
    /\ dropped' = [dropped EXCEPT ![a] = {}]
    /\ wrote' = wrote \cup {request[b].id}

\* Whether other requests have checked the rights that b is about to write.
Checked(b) == cli # NoCommand \/ \E c \in Browsers \ {b} : At(c, "checked")

Entry(b) == auditLog' = IF account[Own(b)].exists
                        THEN Append(auditLog, audit_log_chain(auditLog, request[b].id)) ELSE auditLog

\* withAdmin, once the account is known: r is the request with its row.
\* The route was in the request all along; it matters only now.
admit(b, r) ==
    IF ~r.row.exists \/ ~r.row.enabled \/ cookie[b] # adminNonce(r.admin, r.row)
    THEN /\ cookie' = [cookie EXCEPT ![b] = NoSession]
         /\ End(b)
    ELSE /\ UNCHANGED cookie
         /\ \/ End(b)
            \/ \E route \in Routes :
                 /\ r.row.must => route \in passwordChangeRoutes
                 /\ roleAllows(r.row.role, perm(route))
                 /\ request' = [request EXCEPT ![b] = [r EXCEPT !.at = "open", !.route = route,
                                                                 !.stale = r.row # account[r.admin], !.early = r.admin \in unmarked]]

\* A fresh entry is used for as long as it is there.
FreshAlways(e) == e.known

Fresh(e) == e.known /\ e.age < TTL

\* A request arrives with a session: adminCache.get finds the account or
\* reads it from the database.
withAdmin(b, s) ==
    LET a == cookie[b].admin
        e == cached[s][a]
        r == NewRequest(s, a, "load")
    IN /\ At(b, "none") /\ cookie[b] # NoSession /\ requests < MaxRequests
       /\ requests' = requests + 1
       /\ IF Fresh(e)
          THEN admit(b, [r EXCEPT !.row = e.row, !.lag = IF e.late \/ e.row = account[a] THEN 0 ELSE since[a]])
          ELSE request' = [request EXCEPT ![b] = r] /\ UNCHANGED cookie
       /\ UNCHANGED <<account, cached, pending, enrolling, cli, failed, ticks, faults, since, dropped, wrote,
                      excused, overlapped, unmarked, auditVars>>

\* What was read is cached, as of now.
cacheLoaded(b) ==
    LET r == request[b] IN
    /\ At(b, "load")
    /\ cached' = IF r.row.exists
                 THEN [cached EXCEPT ![r.server][r.admin] =
                         [known |-> TRUE, row |-> r.row, age |-> 0, late |-> r.row # account[r.admin]]]
                 ELSE cached
    /\ admit(b, r)
    /\ UNCHANGED <<account, pending, enrolling, cli, failed, ticks, requests, faults, since, dropped, wrote,
                   excused, overlapped, unmarked, auditVars>>

\* Pages that change no account.
Serve(b) ==
    /\ At(b, "open") /\ request[b].route \in {"read", "tasks"}
    /\ End(b)
    /\ UNCHANGED <<account, cached, cookie, pending, enrolling, cli, failed, ticks, requests, faults, since, dropped,
                   wrote, excused, overlapped, unmarked, auditVars>>

handleLogout(b) ==
    /\ At(b, "open") /\ request[b].route = "logout"
    /\ cookie' = [cookie EXCEPT ![b] = NoSession]
    /\ Entry(b) /\ End(b)
    /\ UNCHANGED <<account, cached, pending, enrolling, cli, failed, ticks, requests, faults, since, dropped, wrote,
                   excused, overlapped, unmarked, altered, noted, verification>>

handle2FAStart(b) ==
    /\ At(b, "open") /\ request[b].route = "2fa_start"
    /\ enrolling' = [enrolling EXCEPT ![b] = Own(b)]
    /\ End(b)
    /\ UNCHANGED <<account, cached, cookie, pending, cli, failed, ticks, requests, faults, since, dropped, wrote,
                   excused, overlapped, unmarked, auditVars>>

\* The change of a handler that writes one thing about its own account.
OwnChange(b, route, row) ==
    /\ At(b, "open") /\ request[b].route = route
    /\ Change(b, Own(b), row)
    /\ request' = [request EXCEPT ![b].at = "written", ![b].target = Own(b)]
    /\ UNCHANGED <<cached, cookie, pending, enrolling, cli, failed, ticks, requests, faults, excused, overlapped, unmarked, auditVars>>

\* The current password is the one of the row the request was admitted with.
handleAccountPassword(b) == OwnChange(b, "password", SetAdminPassword(account[Own(b)], NewPassword(b)))

handle2FAEnable(b) ==
    enrolling[b] = Own(b) /\ OwnChange(b, "2fa_enable", SetAdminTOTP(account[Own(b)], TRUE))

handle2FADisable(b) ==
    request[b].row.totp /\ OwnChange(b, "2fa_disable", SetAdminTOTP(account[Own(b)], FALSE))

\* The wrong password, the wrong code, or no enrolment under way.
formRefused(b) ==
    /\ At(b, "open") /\ request[b].route \in {"password", "2fa_enable", "2fa_disable"}
    /\ End(b)
    /\ UNCHANGED <<account, cached, cookie, pending, enrolling, cli, failed, ticks, requests, faults, since, dropped,
                   wrote, excused, overlapped, unmarked, auditVars>>

\* The checks of a handler on the accounts of others; `allowed' is what they
\* found, and a refused form ends the request.
CheckThen(b, route, a, form, allowed) ==
    /\ At(b, "open") /\ request[b].route = route
    /\ IF allowed
       THEN request' = [request EXCEPT ![b].at = "checked", ![b].target = a, ![b].old = GetAdmin(a), ![b].form = form]
       ELSE End(b)
    /\ UNCHANGED <<account, cached, cookie, pending, enrolling, cli, failed, ticks, requests, faults, since, dropped,
                   wrote, excused, overlapped, unmarked, auditVars>>

\* The username is free.
handleAdminCreate(b, a, role) ==
    CheckThen(b, "create", a, [NoForm EXCEPT !.role = role], ~account[a].exists)

handleAdminUpdate(b, a, form) ==
    CheckThen(b, "update", a, form,
              /\ account[a].exists
              /\ (~form.enabled \/ form.role # "all") /\ Full(account[a]) => otherFullAdmins(a) # {})

handleAdminDelete(b, a) ==
    CheckThen(b, "delete", a, NoForm,
              account[a].exists /\ a # Own(b) /\ (Full(account[a]) => otherFullAdmins(a) # {}))

\* The statements that follow the checks.
Statement(b, place, row, next) ==
    /\ At(b, place)
    /\ Change(b, request[b].target, row)
    /\ Goto(b, next)
    /\ UNCHANGED <<cached, cookie, pending, enrolling, cli, failed, ticks, requests, faults, excused, unmarked, auditVars>>

RightsWritten(b) == overlapped' = (overlapped \/ Checked(b))

\* The username was taken meanwhile, or the row is gone.
writeRefused(b) ==
    /\ At(b, "checked")
    /\ \/ request[b].route = "create" /\ account[request[b].target].exists
       \/ request[b].route = "update" /\ ~account[request[b].target].exists
    /\ End(b)
    /\ UNCHANGED <<account, cached, cookie, pending, enrolling, cli, failed, ticks, requests, faults, since, dropped,
                   wrote, excused, overlapped, unmarked, auditVars>>

create(b) ==
    /\ At(b, "checked") /\ request[b].route = "create" /\ ~account[request[b].target].exists
    /\ Statement(b, "checked", CreateAdmin(request[b].form.role, NewPassword(b)), "audit")
    /\ RightsWritten(b)

\* After the row, the password and the second factor, when the form says so.
AfterRow(r) == IF r.form.password THEN "password" ELSE IF r.form.reset /\ r.old.totp THEN "reset" ELSE "written"
AfterPassword(r) == IF r.form.reset /\ r.old.totp THEN "reset" ELSE "written"

update(b) ==
    LET r == request[b] IN
    /\ r.at = "checked" /\ r.route = "update" /\ account[r.target].exists
    /\ Statement(b, "checked", UpdateAdmin(account[r.target], r.form.enabled, r.form.role), AfterRow(r))
    /\ RightsWritten(b)

updatePassword(b) ==
    /\ Statement(b, "password", SetAdminPassword(account[request[b].target], NewPassword(b)), AfterPassword(request[b]))
    /\ UNCHANGED overlapped

updateReset(b) ==
    /\ Statement(b, "reset", SetAdminTOTP(account[request[b].target], FALSE), "written")
    /\ UNCHANGED overlapped

DeleteAdmin(b) ==
    /\ At(b, "checked") /\ request[b].route = "delete"
    /\ Statement(b, "checked", NoAccount, "written")
    /\ RightsWritten(b)

\* The handler returns without dropping what is cached.
dropNothing(b) ==
    /\ At(b, "written")
    /\ dropped' = [dropped EXCEPT ![request[b].target] = @ \cup {request[b].server}]
    /\ cookie' = IF request[b].route = "password"
                 THEN [cookie EXCEPT ![b] = adminNonce(Own(b), SetAdminPassword(request[b].row, NewPassword(b)))]
                 ELSE cookie
    /\ Goto(b, "audit")
    /\ UNCHANGED <<account, cached, pending, enrolling, cli, failed, ticks, requests, faults, since, wrote, excused,
                   overlapped, unmarked, auditVars>>

\* The server forgets the account; a new password is followed by a session
\* for the row the request was admitted with.
drop(b) ==
    /\ At(b, "written")
    /\ cached' = [cached EXCEPT ![request[b].server][request[b].target] = NoEntry]
    /\ dropped' = [dropped EXCEPT ![request[b].target] = @ \cup {request[b].server}]
    /\ cookie' = IF request[b].route = "password"
                 THEN [cookie EXCEPT ![b] = adminNonce(Own(b), SetAdminPassword(request[b].row, NewPassword(b)))]
                 ELSE cookie
    /\ Goto(b, "audit")
    /\ UNCHANGED <<account, pending, enrolling, cli, failed, ticks, requests, faults, since, wrote, excused,
                   overlapped, unmarked, auditVars>>

\* The entry refers to its author: it is refused once the author is deleted.
writeAudit(b) ==
    /\ At(b, "audit")
    /\ Entry(b) /\ End(b)
    /\ excused' = IF account[Own(b)].exists THEN excused ELSE excused \cup {request[b].id}
    /\ UNCHANGED <<account, cached, cookie, pending, enrolling, cli, failed, ticks, requests, faults, since, dropped,
                   wrote, overlapped, unmarked, altered, noted, verification>>

\* A statement of a request fails: an error page, and no entry.
Fail(b) ==
    /\ request[b].at \in {"load", "open", "checked", "password", "reset", "audit"} /\ faults < MaxFaults
    /\ faults' = faults + 1
    /\ excused' = excused \cup {request[b].id}
    /\ cookie' = IF At(b, "load") THEN [cookie EXCEPT ![b] = NoSession] ELSE cookie
    /\ End(b)
    /\ UNCHANGED <<account, cached, pending, enrolling, cli, failed, ticks, requests, since, dropped, wrote,
                   overlapped, unmarked, auditVars>>

-----------------------------------------------------------------------------
\* Logging in.

Over(a, what) == failed[a][what] >= FailureLimit
Hit(a, what) == failed' = [failed EXCEPT ![a][what] = @ + 1]

\* The account is read before the password is verified.
handleLogin(b, s, a) ==
    /\ At(b, "none") /\ requests < MaxRequests /\ ~Over(a, "login")
    /\ requests' = requests + 1
    /\ request' = [request EXCEPT ![b] = NewRequest(s, a, "login")]
    /\ UNCHANGED <<account, cached, cookie, pending, enrolling, cli, failed, ticks, faults, since, dropped, wrote,
                   excused, overlapped, unmarked, auditVars>>

\* The wrong password, or an account that may not log in.
loginFailed(b) ==
    /\ At(b, "login")
    /\ Hit(Own(b), "login")
    /\ (IF request[b].row.exists THEN Entry(b) ELSE Logged(request[b].id)) /\ End(b)
    /\ UNCHANGED <<account, cached, cookie, pending, enrolling, cli, ticks, requests, faults, since, dropped, wrote,
                   excused, overlapped, unmarked, altered, noted, verification>>

\* A default password is marked as one to replace.  The statement may fail,
\* which is logged: the login goes on all the same.
MarkDefault(r) ==
    \E error \in BOOLEAN :
        /\ cached' = [cached EXCEPT ![r.server][r.admin] = NoEntry]
        /\ IF error
           THEN /\ faults < MaxFaults /\ faults' = faults + 1
                /\ unmarked' = unmarked \cup {r.admin}
                /\ UNCHANGED <<account, since, dropped>>
           ELSE /\ Store(r.admin, RequireAdminPasswordChange(account[r.admin]))
                /\ dropped' = [dropped EXCEPT ![r.admin] = {r.server}]
                /\ unmarked' = unmarked \ {r.admin}
                /\ UNCHANGED faults

\* The right password: a second factor is asked for, or the session begins.
loggedIn(b) ==
    LET r == request[b]
        default == ~r.row.must /\ r.row.pw = DefaultPassword
    IN /\ At(b, "login") /\ r.row.exists /\ r.row.enabled
       /\ IF default THEN MarkDefault(r) ELSE UNCHANGED <<account, since, cached, dropped, faults, unmarked>>
       /\ IF r.row.totp
          THEN pending' = [pending EXCEPT ![b] = r.admin] /\ UNCHANGED <<cookie, auditLog>>
          ELSE /\ cookie' = [cookie EXCEPT ![b] = adminNonce(r.admin, r.row)]
               /\ Entry(b) /\ UNCHANGED pending
       /\ End(b)
       /\ UNCHANGED <<enrolling, cli, failed, ticks, requests, wrote, excused, overlapped, altered, noted, verification>>

\* The second step: the account as it is now.
handleLogin2FA(b, s) ==
    LET a == pending[b] IN
    /\ At(b, "none") /\ a # Nobody /\ requests < MaxRequests /\ ~Over(a, "code")
    /\ requests' = requests + 1
    /\ IF account[a].enabled /\ account[a].totp
       THEN request' = [request EXCEPT ![b] = NewRequest(s, a, "code")] ELSE End(b)
    /\ UNCHANGED <<account, cached, cookie, pending, enrolling, cli, failed, ticks, faults, since, dropped, wrote,
                   excused, overlapped, unmarked, auditVars>>

codeWrong(b) ==
    /\ At(b, "code")
    /\ Hit(Own(b), "code")
    /\ Entry(b) /\ End(b)
    /\ UNCHANGED <<account, cached, cookie, pending, enrolling, cli, ticks, requests, faults, since, dropped, wrote,
                   excused, overlapped, unmarked, altered, noted, verification>>

codeRight(b) ==
    /\ At(b, "code")
    /\ cookie' = [cookie EXCEPT ![b] = adminNonce(Own(b), request[b].row)]
    /\ pending' = [pending EXCEPT ![b] = Nobody]
    /\ Entry(b) /\ End(b)
    /\ UNCHANGED <<account, cached, enrolling, cli, failed, ticks, requests, faults, since, dropped, wrote, excused,
                   overlapped, unmarked, altered, noted, verification>>

\* The admin-password command: a new password, then the account is enabled
\* with the role it had when it was read.
cmdAdminPassword(a) ==
    /\ cli = NoCommand /\ account[a].exists /\ requests < MaxRequests
    /\ requests' = requests + 1
    /\ cli' = [admin |-> a, role |-> account[a].role]
    /\ Store(a, SetAdminPassword(account[a], requests + 2))
    /\ dropped' = [dropped EXCEPT ![a] = {}]
    /\ UNCHANGED <<cached, cookie, pending, enrolling, request, failed, ticks, faults, wrote, excused, overlapped, unmarked, auditVars>>

enableAgain ==
    /\ cli # NoCommand
    /\ IF account[cli.admin].exists
       THEN /\ Store(cli.admin, UpdateAdmin(account[cli.admin], TRUE, cli.role))
            /\ dropped' = [dropped EXCEPT ![cli.admin] = {}]
            /\ overlapped' = (overlapped \/ \E b \in Browsers : At(b, "checked"))
            /\ Logged(0)
       ELSE UNCHANGED <<account, since, dropped, overlapped, auditLog>>
    /\ cli' = NoCommand
    /\ UNCHANGED <<cached, cookie, pending, enrolling, request, failed, ticks, requests, faults, wrote, excused,
                   unmarked, altered, noted, verification>>

Tick ==
    /\ ticks < MaxTicks
    /\ ticks' = ticks + 1
    /\ cached' = [s \in WebServers |-> [a \in Admins |->
                    [cached[s][a] EXCEPT !.age = IF cached[s][a].known /\ @ < TTL THEN @ + 1 ELSE @]]]
    /\ since' = [a \in Admins |-> IF since[a] < TTL THEN since[a] + 1 ELSE since[a]]
    /\ UNCHANGED <<account, cookie, pending, enrolling, request, cli, failed, requests, faults, dropped, wrote, excused,
                   overlapped, unmarked, auditVars>>

NewMinute ==
    /\ failed # [a \in Admins |-> NoFailures]
    /\ failed' = [a \in Admins |-> NoFailures]
    /\ UNCHANGED <<account, cached, cookie, pending, enrolling, request, cli, ticks, requests, faults, since, dropped,
                   wrote, excused, overlapped, unmarked, auditVars>>

RequestStep(b) ==
    \/ \E s \in WebServers : \/ withAdmin(b, s)
                             \/ \E a \in Admins : handleLogin(b, s, a)
                             \/ handleLogin2FA(b, s)
    \/ cacheLoaded(b) \/ Serve(b) \/ handleLogout(b) \/ handle2FAStart(b) \/ handleAccountPassword(b)
    \/ handle2FAEnable(b) \/ handle2FADisable(b) \/ formRefused(b)
    \/ \E a \in Admins : \/ \E role \in Roles : handleAdminCreate(b, a, role)
                         \/ \E form \in Forms : handleAdminUpdate(b, a, form)
                         \/ handleAdminDelete(b, a)
    \/ create(b) \/ update(b) \/ updatePassword(b) \/ updateReset(b) \/ DeleteAdmin(b) \/ writeRefused(b)
    \/ drop(b) \/ writeAudit(b) \/ Fail(b) \/ loginFailed(b) \/ loggedIn(b) \/ codeWrong(b) \/ codeRight(b)

AccountsNext ==
    \/ \E b \in Browsers : RequestStep(b)
    \/ \E a \in Admins : cmdAdminPassword(a)
    \/ enableAgain \/ Tick \/ NewMinute

AccountsSpec == AccountsInit /\ AuditInit /\ [][AccountsNext]_<<accountsVars, auditVars>>

-----------------------------------------------------------------------------

AccountRow == [exists : BOOLEAN, enabled : BOOLEAN, role : Roles \cup {"all", "none"}, pw : Nat, totp : BOOLEAN, must : BOOLEAN]

AccountsTypeOK ==
    /\ account \in [Admins -> AccountRow]
    /\ cached \in [WebServers -> [Admins -> [known : BOOLEAN, row : AccountRow, age : 0 .. TTL, late : BOOLEAN]]]
    /\ cookie \in [Browsers -> [admin : Admins \cup {Nobody}, pw : Nat, role : Roles \cup {"all", "none"}]]
    /\ pending \in [Browsers -> Admins \cup {Nobody}] /\ enrolling \in [Browsers -> Admins \cup {Nobody}]
    /\ \A b \in Browsers :
         request[b].at \in {"none", "load", "open", "login", "code", "checked", "password", "reset", "written", "audit"}
    /\ failed \in [Admins -> [login : Nat, code : Nat]]
    /\ since \in [Admins -> 0 .. TTL] /\ dropped \in [Admins -> SUBSET WebServers]
    /\ wrote \in SUBSET (0 .. MaxRequests) /\ excused \in SUBSET (0 .. MaxRequests) /\ overlapped \in BOOLEAN
    /\ unmarked \in SUBSET Admins

\* A change of an account is applied within the time an entry of the cache
\* is used, and at once by the server it was made on; only an account that
\* was being read while it changed may be used for longer.
SessionsCurrent ==
    /\ \A b \in Browsers : request[b].lag < TTL
    /\ \A a \in Admins : \A s \in dropped[a] :
         cached[s][a].known => cached[s][a].late \/ cached[s][a].row = account[a]

\* A default password opens nothing but the page that replaces it, once the
\* account has been read again, unless the statement that marks the account
\* failed at its last login: that session opens every page of its role.
DefaultReplaced ==
    \A b \in Browsers :
        At(b, "open") /\ request[b].row.pw = DefaultPassword /\ ~request[b].stale
            /\ ~request[b].early => request[b].route \in passwordChangeRoutes

\* An administrator with every right remains, unless two requests that
\* change rights overlapped.
FullAdminRemains == overlapped \/ \E a \in Admins : Full(account[a])

\* Every change of an account is in the audit log once its request ended,
\* unless a statement failed or its author was deleted meanwhile.
ChangesAudited ==
    \A id \in wrote \ excused :
        \/ \E b \in Browsers : request[b].id = id
        \/ \E i \in DOMAIN auditLog : auditLog[i].content = id

\* Failed logins stay within the limit, except those already under way.
LoginsBounded ==
    \A a \in Admins : \A what \in {"login", "code"} : failed[a][what] < FailureLimit + Cardinality(Browsers)

AccountsSound == SessionsCurrent /\ DefaultReplaced /\ FullAdminRemains /\ ChangesAudited /\ LoginsBounded
=============================================================================
