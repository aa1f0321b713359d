----------------------------- MODULE BackupFile -----------------------------
(***************************************************************************)
(* Writing a backup of the database and its blobs into one file, and       *)
(* restoring it (backup/archive.go, backup/restore.go, cli/ctl_backup.go). *)
(*                                                                         *)
(* The dump reads the tables from one snapshot and the blobs after it,     *)
(* while the services go on.  The restore runs with the services stopped,  *)
(* reads the file member by member into a transaction and commits at the   *)
(* end; what it drops to make room, and the blobs it stores, it does not   *)
(* take back.  In between the file may be damaged.                         *)
(***************************************************************************)
EXTENDS Integers, FiniteSets, SequencesExt, FiniteSetsExt

CONSTANTS
    Digests,       \* contents of blobs, as numbers
    ChunkRows,     \* rows in one member of a table
    Releases,      \* the last release: release n has the migrations 1 .. n
    \* Bounds of the model
    MaxRows, MaxRestores, MaxMishaps

ASSUME BackupFileAssumption ==
    /\ Digests \in SUBSET Nat /\ IsFiniteSet(Digests)
    /\ ChunkRows \in Nat \ {0} /\ Releases \in Nat \ {0}
    /\ MaxRows \in Nat /\ MaxRestores \in Nat /\ MaxMishaps \in Nat

VARIABLES
    db,            \* the schema, the rows that count, the blobs table, the sequence
    store,         \* the file of each blob: "absent", "good" or "bad"
    jobs,          \* the queued jobs
    services,      \* the services run
    release,       \* the release installed
    dump,          \* the dump under way
    file,          \* the members of the backup, or nothing
    restore,       \* the restore under way
    undrained,     \* the queues are older than the database
    made, restores, mishaps,
    \* History
    snapshot,      \* the database the backup is of
    found          \* the database when the restore began

backupFileVars ==
    <<db, store, jobs, services, release, dump, file, restore, undrained, made, restores, mishaps, snapshot, found>>

Tables == <<"blobs", "submissions">>

EmptySchema(n) == [schema |-> n, rows |-> {}, blobs |-> {}, next |-> 1]
NoDump == [at |-> "idle", schema |-> 0, blobs |-> << >>, members |-> << >>, missing |-> {}]
NoRestore == [at |-> "idle", force |-> FALSE, pos |-> 1, cur |-> "none", done |-> {}, rows |-> {}, blobs |-> {},
              next |-> 0, sums |-> {}, stored |-> 0, manifest |-> << >>]

BackupFileInit ==
    /\ db = EmptySchema(1) /\ store = [d \in Digests |-> "absent"] /\ jobs = {}
    /\ services = TRUE /\ release = 1
    /\ dump = NoDump /\ file = << >> /\ restore = NoRestore /\ undrained = FALSE
    /\ made = 0 /\ restores = 0 /\ mishaps = 0
    /\ snapshot = EmptySchema(1) /\ found = EmptySchema(1)

-----------------------------------------------------------------------------
(* The services, while they run.                                           *)

\* A file that is there already is kept, whatever it holds.
Put(d) == store' = [store EXCEPT ![d] = IF @ = "absent" THEN "good" ELSE @]

Submit(d) ==
    /\ services /\ made < MaxRows
    /\ made' = made + 1
    /\ Put(d)
    /\ db' = [db EXCEPT !.rows = @ \cup {[id |-> db.next, who |-> made + 1, blob |-> d]},
                        !.blobs = @ \cup {d}, !.next = @ + 1]
    /\ jobs' = jobs \cup {[id |-> db.next, who |-> made + 1]}
    /\ UNCHANGED <<services, release, dump, file, restore, undrained, restores, mishaps, snapshot, found>>

\* A submission goes with its contest, and its blob when nothing uses it.
Delete(r) ==
    LET unused == {r.blob} \ {s.blob : s \in db.rows \ {r}} IN
    /\ services
    /\ db' = [db EXCEPT !.rows = @ \ {r}, !.blobs = @ \ unused]
    /\ store' = [d \in Digests |-> IF d \in unused THEN "absent" ELSE store[d]]
    /\ UNCHANGED <<jobs, services, release, dump, file, restore, undrained, made, restores, mishaps, snapshot, found>>

Judge(j) ==
    /\ services /\ jobs' = jobs \ {j}
    /\ UNCHANGED <<db, store, services, release, dump, file, restore, undrained, made, restores, mishaps, snapshot, found>>

StopServices ==
    /\ services /\ services' = FALSE
    /\ UNCHANGED <<db, store, jobs, release, dump, file, restore, undrained, made, restores, mishaps, snapshot, found>>

Install ==
    /\ ~services /\ restore.at = "idle" /\ release < Releases
    /\ release' = release + 1
    /\ UNCHANGED <<db, store, jobs, services, dump, file, restore, undrained, made, restores, mishaps, snapshot, found>>

\* They apply the migrations that are missing.
StartServices ==
    /\ ~services /\ restore.at = "idle"
    /\ services' = TRUE
    /\ db' = [db EXCEPT !.schema = release]
    /\ UNCHANGED <<store, jobs, release, dump, file, restore, undrained, made, restores, mishaps, snapshot, found>>

Mishap == mishaps < MaxMishaps /\ mishaps' = mishaps + 1

\* A file of the blob store goes bad.
Rot(d) ==
    /\ store[d] = "good" /\ Mishap
    /\ store' = [store EXCEPT ![d] = "bad"]
    /\ UNCHANGED <<db, jobs, services, release, dump, file, restore, undrained, made, restores, snapshot, found>>

-----------------------------------------------------------------------------
(* The dump.                                                               *)

Member(name, content) == [name |-> name, content |-> content, intact |-> TRUE]

\* The members of one table: its rows in order, in chunks.
chunks(table, rows) ==
    [i \in 1 .. (Len(rows) + ChunkRows - 1) \div ChunkRows |->
        Member(<<"db", table, i>>, SubSeq(rows, (i - 1) * ChunkRows + 1, Min({i * ChunkRows, Len(rows)})))]

copyTo(table, data) ==
    IF table = "blobs" THEN SetToSortSeq(data.blobs, <) ELSE SetToSortSeq(data.rows, LAMBDA r, s : r.id < s.id)

\* The snapshot; listSequences reads the value the sequence has now.
dumpSnapshot ==
    /\ dump.at = "idle" /\ file = << >> /\ db.schema > 0 /\ services
    /\ snapshot' = db
    /\ dump' = [NoDump EXCEPT !.at = "tables", !.schema = db.schema]
    /\ UNCHANGED <<db, store, jobs, services, release, file, restore, undrained, made, restores, mishaps, found>>

listSequences ==
    /\ dump.at = "tables"
    /\ dump' = [dump EXCEPT !.at = "blobs", !.blobs = copyTo("blobs", snapshot),
            !.members = <<Member(<<"header">>, [schema |-> dump.schema, tables |-> {Tables[i] : i \in DOMAIN Tables}])>>
                          \o FlattenSeq([i \in DOMAIN Tables |-> chunks(Tables[i], copyTo(Tables[i], snapshot))])
                          \o <<Member(<<"sequences">>, db.next)>>]
    /\ UNCHANGED <<db, store, jobs, services, release, file, restore, undrained, made, restores, mishaps, snapshot, found>>

\* A blob that is gone is listed; one that is bad ends the dump.
writeBlob ==
    LET d == Head(dump.blobs) IN
    /\ dump.at = "blobs" /\ dump.blobs # << >>
    /\ dump' = CASE store[d] = "absent" -> [dump EXCEPT !.blobs = Tail(@), !.missing = @ \cup {d}]
                 [] store[d] = "bad" -> NoDump
                 [] OTHER -> [dump EXCEPT !.blobs = Tail(@), !.members = Append(@, Member(<<"blobs", d>>, d))]
    /\ UNCHANGED <<db, store, jobs, services, release, file, restore, undrained, made, restores, mishaps, snapshot, found>>

IsBlob(m) == m.name[1] = "blobs"

\* What the reader adds up as it goes: a name and a hash for every member
\* but the blobs, which are their own hash.
sum(m) == IF IsBlob(m) THEN {} ELSE {<<m.name, m.content, m.intact>>}

manifest(members, rows, missing) ==
    [files |-> UNION {sum(members[i]) : i \in DOMAIN members}, rows |-> rows,
     blobs |-> Cardinality({i \in DOMAIN members : IsBlob(members[i])}), missing |-> missing]

\* The file gets its name once it is complete.
writeManifest ==
    LET rows == [t \in {"blobs", "submissions"} |-> Len(copyTo(t, snapshot))] IN
    /\ dump.at = "blobs" /\ dump.blobs = << >>
    /\ file' = Append(dump.members, Member(<<"manifest">>, manifest(dump.members, rows, dump.missing)))
    /\ dump' = NoDump
    /\ UNCHANGED <<db, store, jobs, services, release, restore, undrained, made, restores, mishaps, snapshot, found>>

\* A dump that fails leaves nothing.
dumpFails ==
    /\ dump.at # "idle" /\ Mishap
    /\ dump' = NoDump
    /\ UNCHANGED <<db, store, jobs, services, release, file, restore, undrained, made, restores, snapshot, found>>

\* The file is cut, loses a member, or a member changes.
Damaged ==
    /\ file # << >> /\ restore.at = "idle" /\ Mishap
    /\ \E i \in DOMAIN file :
         \/ file' = SubSeq(file, 1, i - 1) /\ i > 1
         \/ file' = RemoveAt(file, i)
         \/ file' = [file EXCEPT ![i].intact = FALSE]
    /\ UNCHANGED <<db, store, jobs, services, release, dump, restore, undrained, made, restores, snapshot, found>>

-----------------------------------------------------------------------------
(* The restore.                                                            *)

\* The transaction rolls back; nothing else is undone.
abort == restore' = NoRestore

\* read, up to the header, and inspect.  The release must know the
\* migrations of the backup.
cmdRestore(force) ==
    LET h == Head(file)
        older == h.content.schema < db.schema
        used == db.rows # {} \/ db.blobs # {}
    IN /\ ~services /\ dump.at = "idle" /\ restore.at = "idle" /\ file # << >> /\ restores < MaxRestores
       /\ restores' = restores + 1
       /\ found' = db
       /\ IF h.name # <<"header">> \/ ~h.intact \/ h.content.schema > release \/ ((older \/ used) /\ ~force)
          THEN abort
          ELSE restore' = [NoRestore EXCEPT !.force = force, !.pos = 2,
                             !.at = IF older \/ used THEN "drop" ELSE "prepare"]
       /\ UNCHANGED <<db, store, jobs, services, release, dump, file, undrained, made, mishaps, snapshot>>

\* Every object is dropped, outside of any transaction.
dropSchema ==
    /\ restore.at = "drop"
    /\ db' = EmptySchema(0) /\ undrained' = TRUE
    /\ restore' = [restore EXCEPT !.at = "prepare"]
    /\ UNCHANGED <<store, jobs, services, release, dump, file, made, restores, mishaps, snapshot, found>>

\* MigrateTo the schema of the backup, and the transaction begins.
prepare ==
    /\ restore.at = "prepare"
    /\ db' = [db EXCEPT !.schema = file[1].content.schema]
    /\ restore' = [restore EXCEPT !.at = "members"]
    /\ UNCHANGED <<store, jobs, services, release, dump, file, undrained, made, restores, mishaps, snapshot, found>>

\* A member of a table continues it or begins the next one.  Damaged rows
\* may not load at all.
startTable(m) ==
    LET table == m.name[2] IN
    IF table \notin file[1].content.tables \/ table \in restore.done
    THEN abort
    ELSE LET rows == IF m.intact THEN ToSet(m.content) ELSE {}
         IN \/ restore' = [restore EXCEPT !.pos = @ + 1, !.cur = table, !.sums = @ \cup sum(m),
                 !.done = IF table = restore.cur THEN @ ELSE @ \cup ({restore.cur} \ {"none"}),
                 !.rows = IF table = "submissions" THEN @ \cup rows ELSE @,
                 !.blobs = IF table = "blobs" THEN @ \cup rows ELSE @]
            \/ ~m.intact /\ abort

endTable == restore.done \cup ({restore.cur} \ {"none"})

\* Put stores what it is given under its own digest.
restoreBlob(m) ==
    /\ IF m.intact THEN Put(m.content) ELSE UNCHANGED store
    /\ IF m.intact
       THEN restore' = [restore EXCEPT !.pos = @ + 1, !.stored = @ + 1, !.done = endTable, !.cur = "none"]
       ELSE abort

readMember ==
    LET m == file[restore.pos]
        kind == m.name[1]
    IN /\ restore.at = "members" /\ restore.pos \in DOMAIN file
       /\ CASE restore.manifest # << >> -> abort /\ UNCHANGED store
            [] restore.manifest = << >> /\ kind = "db" -> startTable(m) /\ UNCHANGED store
            [] restore.manifest = << >> /\ kind = "blobs" -> restoreBlob(m)
            [] restore.manifest = << >> /\ kind \in {"sequences", "manifest"} ->
                 /\ IF ~m.intact THEN abort
                    ELSE restore' = [restore EXCEPT !.pos = @ + 1, !.done = endTable, !.cur = "none",
                            !.next = IF kind = "sequences" THEN m.content ELSE @,
                            !.sums = IF kind = "sequences" THEN @ \cup sum(m) ELSE @,
                            !.manifest = IF kind = "manifest" THEN <<m.content>> ELSE @]
                 /\ UNCHANGED store
            [] OTHER -> abort /\ UNCHANGED store
       /\ UNCHANGED <<db, jobs, services, release, dump, file, undrained, made, restores, mishaps, snapshot, found>>

\* The members that were read are not compared with the manifest.
checkManifestCounts(man, sums, stored) == stored = man.blobs

\* The header was added up too.
checkManifest(man, sums, stored) == sums = man.files /\ stored = man.blobs

rowCounts(man) == Cardinality(restore.rows) = man.rows["submissions"] /\ Cardinality(restore.blobs) = man.rows["blobs"]

\* The foreign keys are added back: they must hold.
references == \A r \in restore.rows : r.blob \in restore.blobs

\* The end of the file: everything must match, and the transaction commits.
commit ==
    LET man == restore.manifest[1] IN
    /\ restore.at = "members" /\ restore.pos > Len(file)
    /\ IF /\ restore.manifest # << >>
          /\ checkManifest(man, restore.sums \cup sum(file[1]), restore.stored)
          /\ rowCounts(man) /\ references
       THEN /\ db' = [schema |-> db.schema, rows |-> restore.rows, blobs |-> restore.blobs, next |-> restore.next]
            /\ restore' = [restore EXCEPT !.at = "committed"]
            /\ undrained' = TRUE
       ELSE abort /\ UNCHANGED <<db, undrained>>
    /\ UNCHANGED <<store, jobs, services, release, dump, file, made, restores, mishaps, snapshot, found>>

\* Migrations newer than the backup.
migrateNewer ==
    /\ restore.at = "committed"
    /\ db' = [db EXCEPT !.schema = release]
    /\ restore' = [restore EXCEPT !.at = "migrated"]
    /\ UNCHANGED <<store, jobs, services, release, dump, file, undrained, made, restores, mishaps, snapshot, found>>

drainAfterRestore ==
    /\ restore.at = "migrated"
    /\ jobs' = {} /\ undrained' = FALSE
    /\ restore' = NoRestore
    /\ UNCHANGED <<db, store, services, release, dump, file, made, restores, mishaps, snapshot, found>>

\* A step of the restore fails, or the process dies.
restoreFails ==
    /\ restore.at # "idle" /\ Mishap
    /\ abort
    /\ UNCHANGED <<db, store, jobs, services, release, dump, file, undrained, made, restores, snapshot, found>>

BackupFileNext ==
    \/ \E d \in Digests : Submit(d) \/ Rot(d)
    \/ \E r \in db.rows : Delete(r)
    \/ \E j \in jobs : Judge(j)
    \/ StopServices \/ Install \/ StartServices
    \/ dumpSnapshot \/ listSequences \/ writeBlob \/ writeManifest \/ dumpFails \/ Damaged
    \/ \E force \in BOOLEAN : cmdRestore(force)
    \/ dropSchema \/ prepare \/ readMember \/ commit \/ migrateNewer \/ drainAfterRestore \/ restoreFails

BackupFileSpec == BackupFileInit /\ [][BackupFileNext]_backupFileVars

-----------------------------------------------------------------------------

BackupRow == [id : Nat, who : Nat, blob : Digests]

BackupFileTypeOK ==
    /\ db.schema \in 0 .. Releases /\ db.blobs \subseteq Digests /\ \A r \in db.rows : r \in BackupRow
    /\ store \in [Digests -> {"absent", "good", "bad"}]
    /\ dump.at \in {"idle", "tables", "blobs"}
    /\ restore.at \in {"idle", "drop", "prepare", "members", "committed", "migrated"}
    /\ release \in 1 .. Releases

\* "A restore only commits when all hashes match": what is committed is the
\* database the backup is of, whatever happened to the file since; and each
\* of its blobs is in the store, unless it was gone when it was backed up.
RestoredExactly ==
    restore.at \in {"committed", "migrated"} =>
        /\ db.rows = snapshot.rows /\ db.blobs = snapshot.blobs
        /\ \A d \in db.blobs : store[d] # "absent" \/ d \in restore.manifest[1].missing

\* Before it commits, a restore leaves the data as it was or, when it was
\* forced to replace it, nothing: never a part of the backup.
AllOrNothing ==
    restore.at \in {"drop", "prepare", "members"} =>
        \/ db.rows = found.rows /\ db.blobs = found.blobs /\ db.next = found.next
        \/ restore.force /\ db.rows = {} /\ db.blobs = {}

\* An identifier is not handed out twice, restored or not.
IdsFresh == \A r \in db.rows : r.id < db.next

\* A job is never run for a submission made after a restore in place of the
\* one it was queued for, once the queues were emptied.
JobsBelong ==
    services /\ ~undrained => \A j \in jobs, r \in db.rows : j.id = r.id => j.who = r.who

RestoresSound == RestoredExactly /\ AllOrNothing /\ IdsFresh /\ JobsBelong
=============================================================================
