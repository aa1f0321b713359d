----------------------------- MODULE Registrar -----------------------------
(***************************************************************************)
(* Accounts and participations of a contest: what the staff does in the    *)
(* administration pages (internal/adminweb: users, participations, team    *)
(* members, the import of users) and what contestants do in the            *)
(* registration page (internal/contestweb/register.go).                    *)
(*                                                                         *)
(* There is one contest and one team.  A user has an id and the name of    *)
(* the moment.  Handlers load a row, decide and write in separate          *)
(* statements; a transaction that reads after it wrote is a step of its    *)
(* own before its commit.                                                  *)
(***************************************************************************)
EXTENDS Naturals, FiniteSets, SequencesExt

CONSTANTS
    Names,          \* usernames
    Ids,            \* 1 .. n: the ids users get, in order
    Staff,          \* administrators at work at the same time
    Files,          \* the CSV files that may be imported
    Registrations,  \* ways to register the contest may have
    MaxTeamSize,    \* max_team_size of the contest
    MaxStaffRequests      \* bound: requests of the staff

ASSUME RegistrarAssumption ==
    /\ "" \notin Names /\ Names # {} /\ IsFiniteSet(Staff)
    /\ IsFiniteSet(Ids) /\ Ids = 1 .. Cardinality(Ids)
    /\ MaxTeamSize \in Nat \ {0} /\ MaxStaffRequests \in Nat
    /\ \A f \in Files : f \in [rows : Seq(Range(f.rows)), pw : BOOLEAN, team : BOOLEAN,
                              update : BOOLEAN, generate : BOOLEAN]
    /\ Registrations \subseteq {"admin", "approval", "code"}

VARIABLES
    roster,         \* the tables: users, their participations, the last id given, the team
    registration,   \* contests.registration
    desk,           \* the request each administrator is waiting for
    requests,        \* number of requests of the staff
    admitted,       \* ids an administrator approved
    vanished,       \* names that went away under an import that had seen them
    excused,        \* ids an import created under such a name
    unchecked       \* ids that joined the team where no limit is asked

registrarVars == <<roster, registration, desk, requests, admitted, vanished, excused, unchecked>>

NoUser == [name |-> "", pw |-> FALSE]
NoPart == [in |-> FALSE, approved |-> FALSE, self |-> FALSE, team |-> FALSE]
DeskIdle == [at |-> "idle"]

RegistrarInit ==
    /\ roster = [users |-> [i \in Ids |-> IF i = 1 THEN [name |-> CHOOSE n \in Names : TRUE, pw |-> TRUE]
                                          ELSE NoUser],
                 parts |-> [i \in Ids |-> NoPart], last |-> 1, team |-> TRUE]
    /\ registration \in Registrations
    /\ desk = [s \in Staff |-> DeskIdle] /\ requests = 0
    /\ admitted = {} /\ vanished = {} /\ excused = {} /\ unchecked = {}

(***************************************************************************)
(* Queries: what each does to, or reads from, the tables d.                *)
(***************************************************************************)
GetUserByUsername(d, n) == {i \in Ids : d.users[i].name = n}
GetUser(d, i) == d.users[i]
GetParticipationByContestUser(d, i) == d.parts[i]
GetTeamByCode(d) == d.team
ListExistingUsernames(d, ns) == {d.users[i].name : i \in Ids} \cap ns

CreateUser(d, n, pw) ==
    [d EXCEPT !.last = @ + 1, !.users[d.last + 1] = [name |-> n, pw |-> pw]]
UpdateUser(d, i, n) == [d EXCEPT !.users[i].name = n]
\* Of each of the users is.
SetUserPassword(d, is) ==
    [d EXCEPT !.users = [i \in Ids |-> IF i \in is /\ d.users[i] # NoUser THEN [d.users[i] EXCEPT !.pw = TRUE]
                                       ELSE d.users[i]]]
DeleteUser(d, i) == [d EXCEPT !.users[i] = NoUser, !.parts[i] = NoPart]

\* Of each of the users is, one statement each.
CreateParticipation(d, is, t) ==
    [d EXCEPT !.parts = [i \in Ids |-> IF i \in is THEN [in |-> TRUE, approved |-> TRUE, self |-> FALSE, team |-> t]
                                       ELSE d.parts[i]]]
UpdateParticipation(d, is, t) ==
    [d EXCEPT !.parts = [i \in Ids |-> IF i \in is THEN [d.parts[i] EXCEPT !.team = t] ELSE d.parts[i]]]
SetParticipationApproved(d, i, v) == [d EXCEPT !.parts[i].approved = v]
DeleteParticipation(d, i) == [d EXCEPT !.parts[i] = NoPart]
CountTeamMembers(d) == Cardinality({i \in Ids : d.parts[i].team})
CreateTeam(d) == [d EXCEPT !.team = TRUE]
DeleteTeam(d) == [d EXCEPT !.team = FALSE, !.parts = [i \in Ids |-> [d.parts[i] EXCEPT !.team = FALSE]]]

IdsLeft(d, n) == d.last + n <= Cardinality(Ids)      \* bound: ids left

(***************************************************************************)
(* The staff's handlers.  LoadRow loads the row a form is about.              *)
(***************************************************************************)
Importing == {t \in Staff : desk[t].at \in {"import", "hashed"}}

StaffRequest(s) ==
    /\ desk[s] = DeskIdle /\ requests < MaxStaffRequests /\ requests' = requests + 1

StaffDone(s) == desk' = [desk EXCEPT ![s] = DeskIdle]

\* Names an import in progress found in the table.
VanishName(n) == vanished' = vanished \cup {m \in {n} : \E t \in Importing : m \in desk[t].existing}

\* loadUser and loadParticipation.
LoadRow(s) ==
    \E i \in Ids :
        /\ StaffRequest(s) /\ roster.users[i] # NoUser
        /\ desk' = [desk EXCEPT ![s] = [at |-> "loaded", id |-> i, user |-> GetUser(roster, i),
                                        part |-> GetParticipationByContestUser(roster, i)]]
        /\ UNCHANGED <<roster, registration, admitted, vanished, excused, unchecked>>

\* A taken name is refused by the check or by the table.
handleUserCreate(s) ==
    \E n \in Names, enrol \in BOOLEAN :
        /\ StaffRequest(s) /\ GetUserByUsername(roster, n) = {} /\ IdsLeft(roster, 1)
        /\ roster' = LET d == CreateUser(roster, n, TRUE)
                     IN  IF enrol THEN CreateParticipation(d, {d.last}, FALSE) ELSE d
        /\ UNCHANGED <<registration, desk, admitted, vanished, excused, unchecked>>

handleUserUpdate(s) ==
    \E n \in Names, pw \in BOOLEAN :
        LET i == desk[s].id
        IN  /\ desk[s].at = "loaded" /\ GetUserByUsername(roster, n) \subseteq {i}
            /\ roster' = IF roster.users[i] = NoUser THEN roster
                         ELSE LET d == UpdateUser(roster, i, n)
                              IN  IF pw THEN SetUserPassword(d, {i}) ELSE d
            /\ IF n # roster.users[i].name THEN VanishName(roster.users[i].name) ELSE UNCHANGED vanished
            /\ StaffDone(s)
            /\ UNCHANGED <<registration, requests, admitted, excused, unchecked>>

handleUserDelete(s) ==
    /\ desk[s].at = "loaded"
    /\ roster' = DeleteUser(roster, desk[s].id)
    /\ VanishName(roster.users[desk[s].id].name) /\ StaffDone(s)
    /\ UNCHANGED <<registration, requests, admitted, excused, unchecked>>

handleUserResetPassword(s) ==
    /\ desk[s].at = "loaded"
    /\ roster' = SetUserPassword(roster, {desk[s].id})
    /\ StaffDone(s) /\ UNCHANGED <<registration, requests, admitted, vanished, excused, unchecked>>

\* Everyone of the contest, or everyone not hidden, gets a new password in
\* one transaction.
handleContestResetPasswords(s) ==
    \E shown \in SUBSET {i \in Ids : roster.parts[i].in} :
        /\ StaffRequest(s)
        /\ roster' = SetUserPassword(roster, shown)
        /\ UNCHANGED <<registration, desk, admitted, vanished, excused, unchecked>>

\* Users already in the contest are passed over; nothing limits the team.
handleParticipationCreate(s) ==
    \E ns \in SUBSET Names \ {{}}, t \in BOOLEAN :
        LET ids == {i \in Ids : roster.users[i].name \in ns}
            new == {i \in ids : ~roster.parts[i].in}
        IN  /\ StaffRequest(s) /\ Cardinality(ids) = Cardinality(ns) /\ (t => roster.team)
            /\ roster' = CreateParticipation(roster, new, t)
            /\ unchecked' = IF t THEN unchecked \cup new ELSE unchecked
            /\ UNCHANGED <<registration, desk, admitted, vanished, excused>>

WriteRows(d, ids, fresh, t) == UpdateParticipation(CreateParticipation(d, fresh, t), ids \ fresh, t)

checkTeamSize(d) == CountTeamMembers(d) <= MaxTeamSize

\* The transaction has written its rows and counts, with the rows of others
\* that are committed; then it commits or rolls back.
handleTeamMembers(s) ==
    \E ns \in SUBSET Names \ {{}} :
        LET ids == {i \in Ids : roster.users[i].name \in ns}
            fresh == {i \in ids : ~roster.parts[i].in}
        IN  /\ StaffRequest(s) /\ roster.team /\ Cardinality(ids) = Cardinality(ns)
            /\ desk' = [desk EXCEPT ![s] =
                   IF checkTeamSize(WriteRows(roster, ids, fresh, TRUE))
                   THEN [at |-> "commit", ids |-> ids, team |-> TRUE, fresh |-> fresh]
                   ELSE DeskIdle]
            /\ UNCHANGED <<roster, registration, admitted, vanished, excused, unchecked>>

\* The size is asked only when the form changes the team it loaded.
handleParticipationUpdate(s) ==
    \E t \in BOOLEAN :
        LET i == desk[s].id
        IN  /\ desk[s].at = "loaded" /\ desk[s].part.in /\ (t => roster.team)
            /\ desk' = [desk EXCEPT ![s] =
                   IF roster.parts[i].in /\ (t /\ ~desk[s].part.team => checkTeamSize(UpdateParticipation(roster, {i}, t)))
                   THEN [at |-> "commit", ids |-> {i}, team |-> t, fresh |-> {}]
                   ELSE DeskIdle]
            /\ UNCHANGED <<roster, registration, requests, admitted, vanished, excused, unchecked>>

\* Rows deleted meanwhile, and rows someone else created, undo it.
CommitRows(s) ==
    LET r == desk[s]
    IN  /\ r.at = "commit"
        /\ roster' = IF /\ \A i \in r.ids : roster.users[i] # NoUser /\ (roster.parts[i].in <=> i \notin r.fresh)
                        /\ r.team => roster.team
                     THEN WriteRows(roster, r.ids, r.fresh, r.team) ELSE roster
        /\ StaffDone(s) /\ UNCHANGED <<registration, requests, admitted, vanished, excused, unchecked>>

handleParticipationDelete(s) ==
    /\ desk[s].at = "loaded" /\ desk[s].part.in
    /\ roster' = DeleteParticipation(roster, desk[s].id)
    /\ admitted' = admitted \ {desk[s].id}
    /\ StaffDone(s) /\ UNCHANGED <<registration, requests, vanished, excused, unchecked>>

handleParticipationApprove(s) ==
    LET i == desk[s].id
    IN  /\ desk[s].at = "loaded" /\ desk[s].part.in
        /\ IF roster.parts[i].in
           THEN roster' = SetParticipationApproved(roster, i, TRUE) /\ admitted' = admitted \cup {i}
           ELSE UNCHANGED <<roster, admitted>>
        /\ StaffDone(s) /\ UNCHANGED <<registration, requests, vanished, excused, unchecked>>

\* What was loaded decides; the row may have been approved since.
handleParticipationReject(s) ==
    /\ desk[s].at = "loaded" /\ desk[s].part.in /\ ~desk[s].part.approved
    /\ roster' = DeleteParticipation(roster, desk[s].id)
    /\ admitted' = admitted \ {desk[s].id}
    /\ StaffDone(s) /\ UNCHANGED <<registration, requests, vanished, excused, unchecked>>

handleTeamDelete(s) ==
    /\ StaffRequest(s) /\ roster.team
    /\ roster' = DeleteTeam(roster)
    /\ UNCHANGED <<registration, desk, admitted, vanished, excused, unchecked>>

handleTeamCreate(s) ==
    /\ StaffRequest(s) /\ ~GetTeamByCode(roster)
    /\ roster' = CreateTeam(roster)
    /\ unchecked' = {} /\ UNCHANGED <<registration, desk, admitted, vanished, excused>>

(***************************************************************************)
(* The import of users: the confirmed file is validated, its passwords     *)
(* are made and hashed, and one transaction writes it.  A file has rows    *)
(* (names, in order), and says whether it gives passwords and a team;      *)
(* update and generate are boxes of the form.                              *)
(***************************************************************************)
\* A name that is not one, or that an earlier row has, makes the row invalid.
parseUsersCSV(f) ==
    \A k \in DOMAIN f.rows : f.rows[k] \in Names /\ \A l \in 1 .. k - 1 : f.rows[l] # f.rows[k]

\* A mutant: nobody asks for the passwords of new users.
validateImportUnasked(d, f) ==
    /\ parseUsersCSV(f)
    /\ f.team => d.team
    /\ \A k \in DOMAIN f.rows : ListExistingUsernames(d, {f.rows[k]}) # {} => f.update

validateImport(d, f) ==
    /\ parseUsersCSV(f)
    /\ f.team => d.team
    /\ \A k \in DOMAIN f.rows :
           IF ListExistingUsernames(d, {f.rows[k]}) # {} THEN f.update ELSE f.pw \/ f.generate

handleUserImport(s) ==
    \E f \in Files :
        /\ StaffRequest(s) /\ validateImport(roster, f)
        /\ desk' = [desk EXCEPT ![s] = [at |-> "import", file |-> f,
                                        existing |-> ListExistingUsernames(roster, Range(f.rows))]]
        /\ UNCHANGED <<roster, registration, admitted, vanished, excused, unchecked>>

\* Missing passwords are generated for the names that have no user now; a
\* team that is gone by now is left out.
hashAll(s) ==
    LET r == desk[s]
        now == ListExistingUsernames(roster, Range(r.file.rows))
    IN  /\ r.at = "import"
        /\ desk' = [desk EXCEPT ![s] =
               [at |-> "hashed", file |-> [r.file EXCEPT !.team = @ /\ roster.team], existing |-> r.existing \cup now,
                hashed |-> IF r.file.pw THEN Range(r.file.rows)
                           ELSE IF r.file.generate THEN Range(r.file.rows) \ now ELSE {}]]
        /\ UNCHANGED <<roster, registration, requests, admitted, vanished, excused, unchecked>>

\* Users are updated or created row by row, then their participations: the
\* rows of new names get the next ids, in order.
importRow(d, f, hashed) ==
    LET new == {k \in DOMAIN f.rows : GetUserByUsername(d, f.rows[k]) = {}}
        IdOf(k) == d.last + Cardinality({l \in new : l <= k})
        u == [d EXCEPT !.last = @ + Cardinality(new),
                       !.users = [i \in Ids |->
                           IF \E k \in new : i = IdOf(k)
                           THEN LET n == f.rows[CHOOSE k \in new : i = IdOf(k)] IN [name |-> n, pw |-> n \in hashed]
                           ELSE d.users[i]]]
        ids == {i \in Ids : u.users[i].name \in Range(f.rows)}
    IN  WriteRows(SetUserPassword(u, {i \in ids : u.users[i].name \in hashed}),
                  ids, {i \in ids : ~u.parts[i].in}, f.team)

runImport(s) ==
    LET r == desk[s]
        rows == r.file.rows
        after == importRow(roster, r.file, r.hashed)
    IN  /\ r.at = "hashed" /\ IdsLeft(roster, Len(rows)) /\ (r.file.team => roster.team)
        /\ roster' = after
        /\ excused' = excused \cup {i \in Ids : i > roster.last /\ after.users[i].name \in vanished}
        /\ unchecked' = IF r.file.team
                        THEN unchecked \cup {i \in Ids : after.users[i].name \in Range(rows)} ELSE unchecked
        /\ StaffDone(s) /\ UNCHANGED <<registration, requests, admitted, vanished>>

\* The team was deleted, or the database refused a row: nothing is written.
importFails(s) ==
    /\ desk[s].at = "hashed"
    /\ StaffDone(s) /\ UNCHANGED <<roster, registration, requests, admitted, vanished, excused, unchecked>>

(***************************************************************************)
(* The contestants' registration page.                                     *)
(***************************************************************************)
registrationOpen == registration # "admin"

\* User and participation are created, and kept waiting, in one transaction.
handleRegister ==
    \E n \in Names :
        /\ registrationOpen /\ GetUserByUsername(roster, n) = {} /\ IdsLeft(roster, 1)
        /\ roster' = LET u == CreateUser(roster, n, TRUE)
                         p == CreateParticipation(u, {u.last}, FALSE)
                         d == [p EXCEPT !.parts[u.last].self = TRUE]
                     IN  IF registration = "code" THEN d ELSE SetParticipationApproved(d, u.last, FALSE)
        /\ UNCHANGED <<registration, desk, requests, admitted, vanished, excused, unchecked>>

RegistrarNext ==
    \/ \E s \in Staff :
          \/ LoadRow(s) \/ handleUserCreate(s) \/ handleUserUpdate(s) \/ handleUserDelete(s)
          \/ handleUserResetPassword(s) \/ handleContestResetPasswords(s)
          \/ handleParticipationCreate(s) \/ handleParticipationUpdate(s)
          \/ handleTeamMembers(s) \/ CommitRows(s)
          \/ handleParticipationDelete(s) \/ handleParticipationApprove(s) \/ handleParticipationReject(s)
          \/ handleTeamDelete(s) \/ handleTeamCreate(s)
          \/ handleUserImport(s) \/ hashAll(s) \/ runImport(s) \/ importFails(s)
    \/ handleRegister

RegistrarSpec == RegistrarInit /\ [][RegistrarNext]_registrarVars

(***************************************************************************)
(* Properties.                                                             *)
(***************************************************************************)
\* Every variable of the registrar has its type; names are unique.
RegistrarTypeOK ==
    /\ \A i \in Ids : roster.users[i] = NoUser \/ (roster.users[i].name \in Names /\ roster.users[i].pw \in BOOLEAN)
    /\ \A i, j \in Ids : roster.users[i] # NoUser /\ roster.users[i].name = roster.users[j].name => i = j
    /\ \A i \in Ids : roster.parts[i].in => roster.users[i] # NoUser
    /\ roster.last \in Ids /\ requests \in 0 .. MaxStaffRequests

\* Nobody gets an account without a password (CreateUser takes whatever hash
\* it is given), except where the user an import meant to update vanished
\* between its validation and its transaction.
EveryoneHasPassword ==
    \A i \in Ids : roster.users[i] # NoUser /\ ~roster.users[i].pw => i \in excused

\* Who registered alone takes part only after an administrator approved this
\* very registration, whatever else the staff did to the row meanwhile.
OnlyTheAdmitted ==
    registration = "approval" =>
        \A i \in Ids : roster.parts[i].self /\ roster.parts[i].approved => i \in admitted

\* The team outgrows the limit only by those the import and the list of new
\* participations put there without asking, and by one for each of the
\* other administrators whose transactions overlapped.
TeamsBounded ==
    Cardinality({i \in Ids \ unchecked : roster.parts[i].team})
        <= MaxTeamSize * Cardinality(Staff)

\* Administrators at work on the same rows, imports and registrations leave
\* a roster that is sound.
RosterSound == EveryoneHasPassword /\ OnlyTheAdmitted /\ TeamsBounded
=============================================================================
