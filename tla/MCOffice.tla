------------------------------ MODULE MCOffice ------------------------------
(***************************************************************************)
(* What the organizers do away from the contest floor: the accounts of     *)
(* the administrators with their audit log, a backup of the database and   *)
(* its restore, the settings of contests, by hand and from a directory,    *)
(* their archives, the similarity reports, what contestants and leaders    *)
(* read of the results, and the submissions taken in.  These share no      *)
(* variable: a behaviour moves one of them, and the others stay as they    *)
(* start.                                                                  *)
(***************************************************************************)
EXTENDS Accounts, BackupFile, ContestConfig, ContestArchive, Plagiarism, Feedback, Intake

VARIABLE moving

officeVars == <<moving, accountsVars, auditVars, backupFileVars, configVars, archiveVars,
                plagiarismVars, feedbackVars, intakeVars>>

MCForm(e, r, p, x) == [enabled |-> e, role |-> r, password |-> p, reset |-> x]
MCForms == {MCForm(TRUE, "read_only", FALSE, FALSE), MCForm(FALSE, "all", TRUE, TRUE)}
MCFirst ==
    {[a \in Admins |-> IF a = "z" THEN NoAccount ELSE Founder(IF a = "x" THEN pw ELSE 1, a = "y")] : pw \in {0, 1}}
MCLogin == [b \in Browsers |-> IF b = "b1" THEN "x" ELSE "y"]

\* The accounts are taken in three parts: sessions on two servers with
\* their caches, the pages that change rights, and logging in.
InRoutes(R, S) == \A b \in Browsers : request'[b].route \in R \cup {"none"} /\ request'[b].server \in S \cup {"none"}
NoLogin == \A b \in Browsers : request'[b].at \notin {"login", "code"}
AccountsPart ==
    CASE moving = "sessions" -> /\ InRoutes({"read", "update"}, WebServers) /\ NoLogin
                                /\ faults' = 0 /\ cli' = NoCommand
                                /\ \A b \in Browsers : ~request'[b].form.password
      [] moving = "rights" -> InRoutes(AdminRoutes, {"s1"}) /\ NoLogin /\ ticks' = 0 /\ requests' <= 2
      [] moving = "logins" -> InRoutes(OwnRoutes \cup {"tasks"}, {"s1"}) /\ ticks' = 0

\* The log alone: two contents tell an altered entry from the one written.
AuditPart == \A i \in DOMAIN auditLog' : auditLog'[i].content \in OldContents

\* A backup is made of a database with rows, and rows go, rot and are judged
\* only when the backup or the restore could tell; the contents are alike,
\* and 1 comes first.
BackupPart ==
    /\ (file' = << >> => services')
    /\ (made' = 1 => store'[2] = "absent")
    /\ (jobs \ jobs' # {} => restores' = 1)
    /\ (db'.rows # db.rows /\ services /\ made' = made => dump.at # "idle" \/ restores = 1)
    /\ (\E d \in Digests : store'[d] = "bad") => file' = << >> \/ restores' = 1 \/ ~services'

MCExtensions == {-1, 1}
MCDir(other, ts, c1, c2) ==
    [name |-> "b", settings |-> [start |-> 1, stop |-> 2, other |-> other], tasks |-> ts,
     content |-> [n \in ConfigTasks |-> IF n = "t1" THEN c1 ELSE c2]]
MCDirs == {MCDir(0, <<"t1", "t2">>, "A", "A"), MCDir(1, <<"t2", "t1">>, "B", "A"), MCDir(0, <<"t2">>, "A", "B")}
MCTasks ==
    [n \in ConfigTasks |->
        IF n = "t1" THEN NoConfigTask
        ELSE [NoConfigTask EXCEPT !.exists = TRUE, !.words = "A", !.live = 1,
                !.datasets = <<[tag |-> "none", content |-> "A"]>>]]

\* The settings are taken in two parts: two organizers on their pages, and
\* one organizer with a server that keeps what it read.  A directory is
\* applied while one organizer edits.
ViewsIdle == <<views, viewLoad, contestEvents, viewTicks>>' = <<views, viewLoad, contestEvents, viewTicks>>
Edits(ops) == \A s \in Organizers : editing'[s].op \in ops \cup {"none"}
OneOrganizer == formOf'["o2"] = NoPage /\ editing'["o2"] = NoEdit
SettingsPart ==
    CASE moving = "pages" -> ViewsIdle /\ Edits({"save", "extend", "pause", "delete"})
      [] moving = "views" -> /\ OneOrganizer /\ Edits({"save", "freeze", "delete", "create"})
                             /\ edits' <= 2 /\ lostEvents' <= 1 /\ edits' + lostEvents' + viewTicks' <= 3
ConfigPart ==
    /\ ViewsIdle /\ OneOrganizer /\ Edits({"pause", "extend"}) /\ editing'["o1"].minutes >= 0
    /\ (edits' # edits => apply.at \in {"read", "planned"})
    /\ edits' + touches' + applyFailures' + applies' <= 3

\* One contest with a participant who has a photo, a submission and a question.
MCRows ==
    [contests |-> {ArchiveRow(1, <<"a">>, NoFile, << >>)},
     users |-> {ArchiveRow(1, <<"u">>, NoFile, << >>), ArchiveRow(2, <<"v">>, "photo", << >>)},
     tasks |-> {ArchiveRow(1, <<"t">>, NoFile, [contest_id |-> 1, active_dataset_id |-> 2])},
     datasets |-> {ArchiveRow(1, <<"d">>, NoFile, [task_id |-> 1]), ArchiveRow(2, <<"e">>, NoFile, [task_id |-> 1])},
     participations |-> {ArchiveRow(1, << >>, NoFile, [contest_id |-> 1, user_id |-> 2])},
     questions |-> {ArchiveRow(1, <<"q">>, NoFile, [contest_id |-> 1, task_id |-> 1, reply_admin_id |-> 7])},
     submissions |-> {ArchiveRow(1, <<1>>, "source", [participation_id |-> 1, task_id |-> 1])}]
MCImportNames == {<<"a">>, <<"b">>}
MCSuffixes == {<< >>, <<"x">>}

\* Every two programs of four or five tokens, with code handed out; three of
\* several files, in teams or not; and one handed in again and again.
MCSyntax(ls) == [known |-> TRUE, readable |-> TRUE, lines |-> ls]
MCText(s) == MCSyntax(<<SubSeq(s, 1, Len(s) \div 2), SubSeq(s, (Len(s) \div 2) + 1, Len(s))>>)
MCTexts(n) == {<<MCText(s)>> : s \in [1 .. n -> TokenKinds]}
MCGiven(role, s) == [role |-> role] @@ MCText(s)
MCMix(a) == [g \in [1 .. K -> TokenKinds] |-> (a * (2 * g[1] + g[2])) % 5]
MCTable == [MCSyntax(<< <<1>>, <<1, 0>> >>) EXCEPT !.known = FALSE]
MCBinary == [MCSyntax(<< <<1, 0>>, <<0, 1>> >>) EXCEPT !.readable = FALSE]
MCLong == MCText(<<0, 1, 1, 0, 0, 1, 0>>)
MCSources == {<<MCLong>>, <<MCTable, MCLong>>, <<MCText(<<1, 1, 0, 0>>), MCBinary>>}
MCReport(a, handed, programs, max, scores, teams) ==
    [mix |-> MCMix(a), handed |-> handed, programs |-> programs, max |-> max, scores |-> scores,
     teams |-> teams, official |-> scores = {}, remark |-> <<0, 1, 1>>]
MCReports ==
    {MCReport(a, {MCGiven("grader", <<0, 0>>), MCGiven("checker", <<1, 1>>)}, MCTexts(4) \cup MCTexts(5), 2, {}, FALSE) :
        a \in {1, 3}}
    \cup {MCReport(2, {}, MCSources, 3, {}, teams) : teams \in BOOLEAN}
    \cup {MCReport(2, {}, {<<MCLong>>}, 3, {0, 1}, FALSE)}
MCCoderTeam == [c \in Coders |-> IF c = 3 THEN 0 ELSE 1]
ReportPart ==
    /\ report.max = 2 => \A i \in DOMAIN handIns' : handIns'[i].coder = i
    /\ report.scores # {} => \A i \in DOMAIN handIns' : handIns'[i].coder = 1 + (i \div 3)

\* Contests that show scores always, never, or afterwards; with tokens, and
\* as in ICPC.
MCShows(v, tokens, icpc) ==
    [visibility |-> v, tokens |-> IF tokens THEN "infinite" ELSE "disabled", taskTokens |-> "infinite",
     icpc |-> icpc, output |-> TRUE, download |-> ~icpc]
MCContestForms ==
    {MCShows("always", FALSE, FALSE), MCShows("always", TRUE, FALSE), MCShows("after", FALSE, FALSE),
     MCShows("always", FALSE, TRUE), MCShows("never", TRUE, FALSE)}
MCOther ==
    [Unjudged EXCEPT !.compilation = "ok", !.scored = TRUE, !.score = FullScore, !.pub = FullScore, !.verdict = "AC",
                     !.cases = [c \in TestCases |-> 1]]

\* Two outputs, sent in the fields or in an archive, and one program.
MCFormats == [sources |-> {"sum"}, outputs |-> {"o1", "o2"}]
MCFile(d, size) == [d |-> d, size |-> size, mark |-> d = 2]
MCOutputs(a, b, archive) ==
    [task |-> "outputs", language |-> "none", fields |-> [o1 |-> a, o2 |-> b], editor |-> Absent,
     archive |-> archive, broken |-> FALSE]
MCProgram(language, source, text) ==
    [task |-> "sources", language |-> language, fields |-> [sum |-> source], editor |-> text, archive |-> << >>, broken |-> FALSE]
MCZipped(n, d, size) == [name |-> n, file |-> MCFile(d, size)]
MCIntakeForms ==
    {MCOutputs(MCFile(1, 1), Absent, << >>), MCOutputs(MCFile(1, 3), Absent, << >>),
     MCOutputs(Absent, MCFile(2, 1), <<MCZipped("o2", 1, 3), MCZipped("o1", 2, 1)>>),
     MCOutputs(Absent, Absent, <<MCZipped("o2", 1, 1), MCZipped("o2", 2, 3)>>),
     MCOutputs(Absent, Absent, <<MCZipped("o1", 1, 1), MCZipped("o3", 1, 1)>>),
     MCOutputs(Absent, Absent, << >>), [MCOutputs(Absent, MCFile(1, 1), << >>) EXCEPT !.broken = TRUE],
     MCProgram("allowed", MCFile(2, 1), Absent), MCProgram("allowed", Absent, MCFile(1, 2)),
     MCProgram("other", MCFile(1, 1), Absent), MCProgram("allowed", Absent, Absent)}
MCDeserves == [o1 |-> <<0, 1>>, o2 |-> <<1, 0>>]

\* A program comes first, the second request while the first is handled, and
\* what is done to a submission is done while a request may still ask for it.
IntakePart ==
    /\ \A r \in Submitting : taking'[r].at # "idle" /\ taking'[r].task = "sources" => taking'[r].now = 1
    /\ taking["q1"] = NotTaking => taking'["q2"] \in {NotTaking, taking["q2"]}
    /\ (inbox' # inbox /\ receipts' = receipts => \E r \in Submitting : taking[r].at = "merge")

OfficeInit ==
    /\ moving \in {"sessions", "rights", "logins", "audit", "backup", "pages", "views", "config", "archive", "report", "feedback", "intake"}
    /\ AccountsInit
    /\ account["x"].pw = IF moving = "logins" THEN 0 ELSE 1
    /\ AuditInit
    /\ moving # "audit" => auditLog = << >> /\ altered = "no"
    /\ BackupFileInit /\ ConfigInit
    /\ moving # "pages" => contest[1].perUser = 0
    /\ ArchiveInit /\ PlagiarismInit
    /\ moving # "report" => report = CHOOSE x \in MCReports : TRUE
    /\ FeedbackInit
    /\ moving # "feedback" => form = CHOOSE f \in MCContestForms : TRUE
    /\ IntakeInit

OfficeNext ==
    \/ /\ moving \in {"sessions", "rights", "logins"} /\ AccountsNext /\ AccountsPart
       /\ UNCHANGED <<moving, backupFileVars, configVars, archiveVars, plagiarismVars, feedbackVars, intakeVars>>
    \/ /\ moving = "audit" /\ AuditNext /\ AuditPart
       /\ UNCHANGED <<moving, accountsVars, backupFileVars, configVars, archiveVars, plagiarismVars, feedbackVars, intakeVars>>
    \/ /\ moving = "backup" /\ BackupFileNext /\ BackupPart
       /\ UNCHANGED <<moving, accountsVars, auditVars, configVars, archiveVars, plagiarismVars, feedbackVars, intakeVars>>
    \/ /\ moving \in {"pages", "views"} /\ settingsPages /\ SettingsPart
       /\ UNCHANGED <<moving, accountsVars, auditVars, backupFileVars, archiveVars, plagiarismVars, feedbackVars, intakeVars>>
    \/ /\ moving = "config" /\ ConfigNext /\ ConfigPart
       /\ UNCHANGED <<moving, accountsVars, auditVars, backupFileVars, archiveVars, plagiarismVars, feedbackVars, intakeVars>>
    \/ /\ moving = "archive" /\ ArchiveNext
       /\ UNCHANGED <<moving, accountsVars, auditVars, backupFileVars, configVars, plagiarismVars, feedbackVars, intakeVars>>
    \/ /\ moving = "report" /\ PlagiarismNext /\ ReportPart
       /\ UNCHANGED <<moving, accountsVars, auditVars, backupFileVars, configVars, archiveVars, feedbackVars, intakeVars>>
    \/ /\ moving = "feedback" /\ FeedbackNext
       /\ UNCHANGED <<moving, accountsVars, auditVars, backupFileVars, configVars, archiveVars, plagiarismVars, intakeVars>>
    \/ /\ moving = "intake" /\ IntakeNext /\ IntakePart
       /\ UNCHANGED <<moving, accountsVars, auditVars, backupFileVars, configVars, archiveVars, plagiarismVars, feedbackVars>>

OfficeSpec == OfficeInit /\ [][OfficeNext]_officeVars

\* Every variable has its type.
OfficeTypeOK ==
    CASE moving \in {"sessions", "rights", "logins"} -> AccountsTypeOK /\ AuditTypeOK
      [] moving = "audit" -> AuditTypeOK
      [] moving = "backup" -> BackupFileTypeOK
      [] moving \in {"pages", "views"} -> SettingsTypeOK
      [] moving = "config" -> SettingsTypeOK /\ ConfigTypeOK
      [] moving = "archive" -> ArchiveTypeOK
      [] moving = "report" -> PlagiarismTypeOK
      [] moving = "feedback" -> FeedbackTypeOK
      [] moving = "intake" -> IntakeTypeOK

\* Who may enter and what they change is right by the account in the
\* database, whatever the servers remember of it.
OfficeAccountsSound == moving \in {"sessions", "rights", "logins"} => AccountsSound

\* What is kept of a contest survives, and what is shown of it is true to
\* it: an audit log altered up to a head written down is told from the one
\* written, a backup restored is the database it was made of, an archive imported the contest it was
\* made of, a similarity report misses no copy, contestants and leaders
\* read what the contest shows them, and a submission is taken in whole.
RecordsSound ==
    /\ moving \in {"sessions", "rights", "logins", "audit"} => VerifyRight
    /\ moving = "backup" => RestoresSound
    /\ moving = "archive" => ArchivesSound
    /\ moving = "report" => PlagiarismSound
    /\ moving = "feedback" => FeedbackSound
    /\ moving = "intake" => IntakeSound

\* The settings an organizer saves, and the contest a directory is applied
\* to, are what was asked for.
ConfigurationSound ==
    /\ moving \in {"pages", "views", "config"} => SettingsSound
    /\ moving = "config" => ConfigSound
=============================================================================
