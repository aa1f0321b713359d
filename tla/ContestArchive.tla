--------------------------- MODULE ContestArchive ---------------------------
(***************************************************************************)
(* The archive of one contest (contestarchive/archive.go): its rows from   *)
(* one snapshot of the database, then the files they name; and the import  *)
(* of an archive as a new contest (contestarchive/import.go): the names    *)
(* are checked, the files stored, and every row written in one transaction *)
(* with a new id, users that exist being reused.  Contests, users and      *)
(* tasks change meanwhile, imports run side by side, and each may fail.    *)
(*                                                                         *)
(* An archive is imported into the installation it comes from, or one of   *)
(* its schema.                                                             *)
(***************************************************************************)
EXTENDS Integers, FiniteSets, Sequences, FiniteSetsExt, SequencesExt

CONSTANTS
    Importers,
    ImportNames,   \* names an imported contest may be given
    TaskSuffixes,  \* sequences that may be put after the names of its tasks
    FirstRows,     \* the database at the start
    \* Bounds of the model
    MaxExports, MaxMoves, MaxImportFailures

VARIABLES
    rows,          \* per table: its committed rows
    nextId,        \* per table: the sequence of its ids
    kept,          \* the files in the store
    damaged,       \* those with another content than their digest
    zip,           \* the archive
    exporting,     \* the export under way
    importing,     \* per importer: the import under way
    exports, moves, importFailures,
    \* History
    taken,         \* what the contest was when the archive was made
    landed         \* of each import that was committed: what it made, and what was asked for

archiveVars ==
    <<rows, nextId, kept, damaged, zip, exporting, importing, exports, moves, importFailures, taken, landed>>

-----------------------------------------------------------------------------
(* The tables, referenced ones first, and their columns.                   *)

tables == <<"contests", "users", "tasks", "datasets", "participations", "questions", "submissions">>
ArchiveTables == ToSet(tables)
ofSubmissions == {"submissions"}
refColumns ==
    [contests |-> {}, users |-> {}, tasks |-> {"contest_id", "active_dataset_id"}, datasets |-> {"task_id"},
     participations |-> {"contest_id", "user_id"}, questions |-> {"contest_id", "task_id", "reply_admin_id"},
     submissions |-> {"participation_id", "task_id"}]
refs ==
    [contest_id |-> "contests", user_id |-> "users", task_id |-> "tasks", active_dataset_id |-> "datasets",
     participation_id |-> "participations"]
adminRefs == {"reply_admin_id"}
mayBeNull(t) == IF t = "tasks" THEN refColumns[t] ELSE IF t = "questions" THEN {"task_id", "reply_admin_id"} ELSE {}
Null == 0
NoFile == "none"

ArchiveRow(id, key, file, at) == [id |-> id, key |-> key, file |-> file, at |-> at]

ASSUME ContestArchiveAssumption ==
    /\ DOMAIN FirstRows = ArchiveTables
    /\ \A t \in ArchiveTables : \A r \in FirstRows[t] : r.id \in Nat \ {0} /\ DOMAIN r.at = refColumns[t]
    /\ MaxExports \in Nat /\ MaxMoves \in Nat /\ MaxImportFailures \in Nat

\* The keys of a table that are unique in an installation.
Unique(t) == t \in {"contests", "users", "tasks"}

RowOf(R, t, id) == CHOOSE r \in R[t] : r.id = id

\* The files rows name.
FilesOf(R) == UNION {{r.file : r \in R[t]} : t \in ArchiveTables} \ {NoFile}

\* The rows of a contest, as the conditions of the tables select them.
where(R, t, c) ==
    LET inTasks == {r.id : r \in {x \in R["tasks"] : x.at["contest_id"] = c}}
        inContest == {r \in R["participations"] : r.at["contest_id"] = c}
        inParticipations == {r.id : r \in inContest}
    IN CASE t = "contests" -> {r \in R[t] : r.id = c}
         [] t = "users" -> {r \in R[t] : \E p \in inContest : p.at["user_id"] = r.id}
         [] t \in {"tasks", "participations", "questions"} -> {r \in R[t] : r.at["contest_id"] = c}
         [] t = "datasets" -> {r \in R[t] : r.at["task_id"] \in inTasks}
         [] t = "submissions" -> {r \in R[t] : r.at["participation_id"] \in inParticipations /\ r.at["task_id"] \in inTasks}

\* Of an anonymous archive: the people are their numbers.
anonymous(t, r) == IF t = "users" THEN [r EXCEPT !.key = <<"user", r.id>>, !.file = NoFile] ELSE r

\* What a contest is, whatever the ids are.
Meaning(R, c, o) ==
    LET Person(id) == (IF o.anonymize THEN anonymous("users", RowOf(R, "users", id)) ELSE RowOf(R, "users", id)).key
        Name(t, id) == IF id \in {r.id : r \in where(R, t, c)} THEN RowOf(R, t, id).key ELSE << >>
    IN [tasks |-> {<<r.key, Name("datasets", r.at["active_dataset_id"]),
                     {d.key : d \in {x \in R["datasets"] : x.at["task_id"] = r.id}}>> : r \in where(R, "tasks", c)},
        people |-> {Person(p.at["user_id"]) : p \in where(R, "participations", c)},
        questions |-> {<<q.key, Name("tasks", q.at["task_id"])>> : q \in where(R, "questions", c)},
        submissions |->
            IF ~o.submissions THEN {}
            ELSE {<<s.key, s.file, Person(RowOf(R, "participations", s.at["participation_id"]).at["user_id"]),
                    Name("tasks", s.at["task_id"])>> : s \in where(R, "submissions", c)}]

-----------------------------------------------------------------------------

NoMeaning == [tasks |-> {}, people |-> {}, questions |-> {}, submissions |-> {}]
NoZip == [made |-> FALSE, contest |-> << >>, submissions |-> FALSE, anonymize |-> FALSE,
          rows |-> [t \in ArchiveTables |-> {}], blobs |-> {}, missing |-> {}]
NoExport == [at |-> "idle", contest |-> 0, pos |-> 1, snapshot |-> NoZip.rows, digests |-> {}, header |-> NoZip, meaning |-> NoMeaning]
NoImport == [at |-> "idle", name |-> << >>, suffix |-> << >>, pos |-> 1, left |-> {}, put |-> {}, maps |-> [t \in ArchiveTables |-> << >>],
             tx |-> NoZip.rows, deferred |-> {}, id |-> 0]

ArchiveInit ==
    /\ rows = FirstRows
    /\ nextId = [t \in ArchiveTables |-> Max({r.id : r \in rows[t]} \cup {0}) + 1]
    /\ kept = FilesOf(rows) /\ damaged = {}
    /\ zip = NoZip /\ exporting = NoExport /\ importing = [i \in Importers |-> NoImport]
    /\ exports = 0 /\ moves = 0 /\ importFailures = 0
    /\ taken = NoMeaning /\ landed = {}

-----------------------------------------------------------------------------
(* The export.                                                             *)

exportUnchanged == UNCHANGED <<rows, nextId, kept, damaged, importing, moves, importFailures, landed>>

\* exportRows begins: the snapshot of a REPEATABLE READ transaction, and
\* the header.
Export(c, submissions, anonymize) ==
    LET o == [submissions |-> submissions, anonymize |-> anonymize] IN
    /\ exporting.at = "idle" /\ exports < MaxExports
    /\ exports' = exports + 1
    /\ exporting' = [NoExport EXCEPT !.at = "rows", !.contest = c.id, !.snapshot = rows, !.meaning = Meaning(rows, c.id, o),
                       !.header = [NoZip EXCEPT !.contest = c.key, !.submissions = submissions, !.anonymize = anonymize]]
    /\ UNCHANGED <<zip, taken>> /\ exportUnchanged

\* The next table, with the digests its rows name.
exportTable ==
    LET e == exporting
        t == tables[e.pos]
        out == IF t \in ofSubmissions /\ ~e.header.submissions THEN {}
               ELSE {IF e.header.anonymize THEN anonymous(t, r) ELSE r : r \in where(e.snapshot, t, e.contest)}
    IN /\ e.at = "rows" /\ e.pos <= Len(tables)
       /\ exporting' = [e EXCEPT !.pos = @ + 1, !.header.rows[t] = out,
                          !.digests = @ \cup ({r.file : r \in out} \ {NoFile}),
                          !.at = IF e.pos = Len(tables) THEN "blobs" ELSE "rows"]
       /\ UNCHANGED <<zip, exports, taken>> /\ exportUnchanged

\* The next file, from the store as it is now: one that is not there is
\* listed, one that is damaged ends the export.
copyBlob ==
    LET e == exporting IN
    /\ e.at = "blobs"
    /\ \E d \in e.digests :
         exporting' = CASE d \notin kept -> [e EXCEPT !.digests = @ \ {d}, !.header.missing = @ \cup {d}]
                        [] d \in kept \cap damaged -> NoExport
                        [] OTHER -> [e EXCEPT !.digests = @ \ {d}, !.header.blobs = @ \cup {d}]
    /\ UNCHANGED <<zip, exports, taken>> /\ exportUnchanged

\* The header comes last: the archive is complete.
writeHeader ==
    /\ exporting.at = "blobs" /\ exporting.digests = {}
    /\ \A i \in Importers : importing[i] = NoImport
    /\ zip' = [exporting.header EXCEPT !.made = TRUE] /\ taken' = exporting.meaning
    /\ exporting' = NoExport
    /\ UNCHANGED exports /\ exportUnchanged

-----------------------------------------------------------------------------
(* The import.                                                             *)

importUnchanged == UNCHANGED <<damaged, zip, exporting, exports, moves, taken>>
ImportAt(i, r) == importing' = [importing EXCEPT ![i] = r]
NotImported(i) == importing' = [importing EXCEPT ![i] = NoImport]

Suffixed(key, s) == key \o s

\* The names that are taken end it: nothing is written.
checkNames(i, name, suffix) ==
    LET names == {Suffixed(r.key, suffix) : r \in zip.rows["tasks"]} IN
    /\ importing[i] = NoImport /\ zip.made
    /\ \A r \in rows["contests"] : r.key # name
    /\ \A r \in rows["tasks"] : r.key \notin names
    /\ ImportAt(i, [NoImport EXCEPT !.at = "blobs", !.name = name, !.suffix = suffix, !.left = zip.blobs])
    /\ UNCHANGED <<rows, nextId, kept, importFailures, landed>> /\ importUnchanged

\* The next file, unless the store has one of this name and size: that one
\* stays as it is, and its record as old as it is.
putBlob(i) ==
    LET r == importing[i] IN
    /\ r.at = "blobs"
    /\ \/ \E d \in r.left :
            /\ kept' = kept \cup {d}
            /\ ImportAt(i, [r EXCEPT !.left = @ \ {d}, !.put = @ \cup ({d} \ kept)])
       \/ r.left = {} /\ ImportAt(i, [r EXCEPT !.at = "tables"]) /\ UNCHANGED kept
    /\ UNCHANGED <<rows, nextId, importFailures, landed>> /\ importUnchanged

\* Users that exist by now are reused, as they are.
reuse(t, batch) == {r \in batch : t = "users" /\ \E x \in rows[t] : x.key = r.key}

Later(r) == {tables[k] : k \in r.pos + 1 .. Len(tables)}

\* The columns of a row with the new ids: references to administrators and
\* to rows outside the archive are emptied, those to later tables wait.
Rewritten(r, t, maps, x) ==
    [c \in refColumns[t] |->
        IF c \in adminRefs \/ x.at[c] = Null THEN Null
        ELSE IF refs[c] \in Later(r) THEN Null
        ELSE IF x.at[c] \in DOMAIN maps[refs[c]] THEN maps[refs[c]][x.at[c]] ELSE Null]

WaitingRefs(r, t, map, batch) ==
    UNION {{[table |-> t, column |-> c, id |-> map[x.id], old |-> x.at[c]] :
              c \in {d \in refColumns[t] \ adminRefs : x.at[d] # Null /\ refs[d] \in Later(r)}} : x \in batch}

\* What an import writes over what the archive says.
Named(r, t, key) == CASE t = "contests" -> r.name [] t = "tasks" -> Suffixed(key, r.suffix) [] OTHER -> key

\* Keys other transactions have written and not committed: an INSERT of one
\* of them waits for their end.
Pending(i, t) == UNION {{x.key : x \in importing[j].tx[t]} : j \in Importers \ {i}}

\* The next table.  Ids are taken from the sequence for good; a key that
\* exists by now, or a column that must not be empty, ends the import.
insert(i) ==
    LET r == importing[i]
        t == tables[r.pos]
        file == zip.rows[t]
        again == reuse(t, file)
        batch == SetToSortSeq(file \ again, LAMBDA x, y : x.id < y.id)
        ids == [k \in DOMAIN batch |-> nextId[t] + k - 1]
        map == [old \in {x.id : x \in file} |->
                   IF \E x \in again : x.id = old
                   THEN (CHOOSE y \in rows[t] : \E x \in again : x.id = old /\ x.key = y.key).id
                   ELSE ids[CHOOSE k \in DOMAIN batch : batch[k].id = old]]
        maps == [r.maps EXCEPT ![t] = map]
        new == {ArchiveRow(ids[k], Named(r, t, batch[k].key), batch[k].file, Rewritten(r, t, maps, batch[k])) : k \in DOMAIN batch}
        refused == \/ Unique(t) /\ \E x \in new, y \in rows[t] : x.key = y.key
                   \/ \E x \in new, c \in refColumns[t] \ mayBeNull(t) : x.at[c] = Null
    IN /\ r.at = "tables" /\ r.pos <= Len(tables)
       /\ Unique(t) => {x.key : x \in new} \cap Pending(i, t) = {}
       /\ nextId' = [nextId EXCEPT ![t] = @ + Len(batch)]
       /\ IF refused THEN NotImported(i)
          ELSE ImportAt(i, [r EXCEPT !.pos = @ + 1, !.tx[t] = new, !.maps = maps,
                          !.deferred = @ \cup WaitingRefs(r, t, map, file \ again),
                          !.id = IF t = "contests" THEN ids[1] ELSE @,
                          !.at = IF r.pos = Len(tables) THEN "deferred" ELSE "tables"])
       /\ UNCHANGED <<rows, kept, importFailures, landed>> /\ importUnchanged

\* The references that waited.
Resolved(r, t, x, deferred) ==
    [x EXCEPT !.at = [c \in refColumns[t] |->
        IF \E d \in deferred : d.table = t /\ d.column = c /\ d.id = x.id
        THEN LET old == (CHOOSE d \in deferred : d.table = t /\ d.column = c /\ d.id = x.id).old
             IN IF old \in DOMAIN r.maps[refs[c]] THEN r.maps[refs[c]][old] ELSE Null
        ELSE x.at[c]]]

fixDeferred(i) ==
    LET r == importing[i] IN
    /\ r.at = "deferred"
    /\ ImportAt(i, [r EXCEPT !.at = "commit", !.tx = [t \in ArchiveTables |-> {Resolved(r, t, x, r.deferred) : x \in r.tx[t]}]])
    /\ UNCHANGED <<rows, nextId, kept, importFailures, landed>> /\ importUnchanged

\* What was asked for: the contest of the archive, its tasks renamed.
Wanted(r) ==
    LET Rename(n) == IF n = << >> THEN n ELSE Suffixed(n, r.suffix) IN
    [taken EXCEPT !.tasks = {<<Rename(x[1]), x[2], x[3]>> : x \in @},
                  !.questions = {<<q[1], Rename(q[2])>> : q \in @},
                  !.submissions = {<<s[1], s[2], s[3], Rename(s[4])>> : s \in @}]

CommitImport(i) ==
    LET r == importing[i]
        new == [t \in ArchiveTables |-> rows[t] \cup r.tx[t]]
        files == FilesOf(r.tx)
    IN /\ r.at = "commit"
       /\ rows' = new
       /\ landed' = landed \cup {[made |-> Meaning(new, r.id, [submissions |-> zip.submissions, anonymize |-> FALSE]),
                                 wanted |-> Wanted(r), absent |-> files \ (kept \cup zip.missing),
                                 found |-> zip.blobs \ r.put]}
       /\ NotImported(i)
       /\ UNCHANGED <<nextId, kept, importFailures>> /\ importUnchanged

\* The process dies or a statement fails: the transaction is rolled back,
\* the files stay for the garbage collector.
importFails(i) ==
    /\ importing[i] # NoImport /\ importFailures < MaxImportFailures
    /\ importFailures' = importFailures + 1
    /\ NotImported(i)
    /\ UNCHANGED <<rows, nextId, kept, landed>> /\ importUnchanged

-----------------------------------------------------------------------------
(* Meanwhile.                                                              *)

movesOn ==
    /\ moves < MaxMoves /\ moves' = moves + 1
    /\ UNCHANGED <<zip, exporting, importing, exports, importFailures, taken, landed>>

NewRow(t, key, file, at) ==
    /\ rows' = [rows EXCEPT ![t] = @ \cup {ArchiveRow(nextId[t], key, file, at)}]
    /\ nextId' = [nextId EXCEPT ![t] = @ + 1]

\* A participant submits.
NewSubmission ==
    /\ \E p \in rows["participations"], x \in rows["tasks"] :
         /\ x.at["contest_id"] = p.at["contest_id"]
         /\ NewRow("submissions", <<nextId["submissions"]>>, "new", [participation_id |-> p.id, task_id |-> x.id])
    /\ kept' = kept \cup {"new"}
    /\ UNCHANGED damaged /\ movesOn

\* A task leaves its contest; its questions and submissions stay.
RemoveTask ==
    /\ \E x \in rows["tasks"] :
         /\ x.at["contest_id"] # Null
         /\ rows' = [rows EXCEPT !["tasks"] = (@ \ {x}) \cup {[x EXCEPT !.at["contest_id"] = Null]}]
    /\ UNCHANGED <<nextId, kept, damaged>> /\ movesOn

\* An account is made with a name the archive has too.
NewUser ==
    /\ \E x \in zip.rows["users"] :
         /\ x.key \notin {y.key : y \in rows["users"]}
         /\ \A i \in Importers : x.key \notin {y.key : y \in importing[i].tx["users"]}
         /\ NewRow("users", x.key, NoFile, << >>)
    /\ UNCHANGED <<kept, damaged>> /\ movesOn

\* A participant is removed, with all submissions.
DeleteParticipation ==
    /\ \E p \in rows["participations"] :
         rows' = [rows EXCEPT !["participations"] = @ \ {p},
                              !["submissions"] = {s \in @ : s.at["participation_id"] # p.id}]
    /\ UNCHANGED <<nextId, kept, damaged>> /\ movesOn

\* The garbage collector takes a file no row names; what an import under way
\* has stored and registered itself is too new for it.
CollectFile ==
    /\ \E d \in kept \ FilesOf(rows) :
         /\ \A i \in Importers : d \notin importing[i].put
         /\ kept' = kept \ {d} /\ damaged' = damaged \ {d}
    /\ UNCHANGED <<rows, nextId, zip, exporting, importing, exports, moves, importFailures, taken, landed>>

\* A file of the store is lost, or its content goes bad, while an export may
\* still read it; an import does not look at what the store has.
LoseFile ==
    /\ exporting.at # "idle"
    /\ \E d \in kept : \/ kept' = kept \ {d} /\ damaged' = damaged \ {d}
                       \/ d \notin damaged /\ damaged' = damaged \cup {d} /\ UNCHANGED kept
    /\ UNCHANGED <<rows, nextId>> /\ movesOn

ArchiveNext ==
    \/ \E c \in rows["contests"], s, a \in BOOLEAN : Export(c, s, a)
    \/ exportTable \/ copyBlob \/ writeHeader
    \/ \E i \in Importers :
         \/ \E n \in ImportNames, s \in TaskSuffixes : checkNames(i, n, s)
         \/ putBlob(i) \/ insert(i) \/ fixDeferred(i) \/ CommitImport(i) \/ importFails(i)
    \/ NewSubmission \/ RemoveTask \/ NewUser \/ DeleteParticipation \/ CollectFile \/ LoseFile

ArchiveSpec == ArchiveInit /\ [][ArchiveNext]_archiveVars

-----------------------------------------------------------------------------

ArchiveTypeOK ==
    /\ \A t \in ArchiveTables : \A r \in rows[t] : r.id \in 1 .. nextId[t] - 1 /\ DOMAIN r.at = refColumns[t]
    /\ exporting.at \in {"idle", "rows", "blobs"} /\ damaged \subseteq kept
    /\ \A i \in Importers : importing[i].at \in {"idle", "blobs", "tables", "deferred", "commit"}

\* A contest imported is the contest as it was at one moment of its export:
\* the same tasks with their datasets and the live one, the same people,
\* and each question and submission with its task and its author, whatever
\* was written meanwhile and whatever ids the rows were given.
ImportFaithful == \A l \in landed : l.made = l.wanted

\* Every file its rows name is in the store when it is committed, whatever
\* the collector does meanwhile, unless the archive says it was missing, or
\* the import found it in the store and left it as it was: a file no row
\* named then may be collected before the commit.
FilesTravel == \A l \in landed : l.absent \subseteq l.found

\* No two rows share an id, and every reference leads to a row, however
\* imports overlap and end.
ReferencesHold ==
    \A t \in ArchiveTables :
        /\ \A r, s \in rows[t] : r.id = s.id => r = s
        /\ \A r \in rows[t], c \in refColumns[t] \ adminRefs : r.at[c] # Null => \E x \in rows[refs[c]] : x.id = r.at[c]

\* An anonymous archive names nobody and holds nobody's photo.
NobodyNamed ==
    zip.anonymize => \A r \in zip.rows["users"] : r.key = <<"user", r.id>> /\ r.file = NoFile

ArchivesSound == ImportFaithful /\ FilesTravel /\ ReferencesHold /\ NobodyNamed
=============================================================================
