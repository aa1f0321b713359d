--------------------------- MODULE StorageProofs ---------------------------
(***************************************************************************)
(* Theorems about what the system keeps outside its database, for any      *)
(* number of blobs, requests, threads, servers, backups and segments.      *)
(***************************************************************************)
EXTENDS MCStorage, FiniteSetTheorems, TLAPS

(***************************************************************************)
(* The archive of the database's log.                                      *)
(***************************************************************************)
\* A segment about to be reported is off site.
WalInv ==
    /\ WalTypeOK
    /\ ArchivedSafe
    /\ command.at = "report" => command.segment \in offsite

\* No segment is archived at first.
LEMMA WalStarts == WalInit => WalInv
BY WalAssumption DEF WalInit, WalInv, WalTypeOK, ArchivedSafe, NoCommand

\* Every step of the archive keeps it.
LEMMA WalStep == WalInv /\ [WalNext]_walVars => WalInv'
<1> SUFFICES ASSUME WalInv, [WalNext]_walVars PROVE WalInv'
  OBVIOUS
<1> USE WalAssumption DEF WalInv, WalTypeOK, ArchivedSafe, NoCommand, CommandStep, CommandFails
<1>1. CASE UNCHANGED walVars
  BY <1>1 DEF walVars
<1>2. ASSUME NEW s \in Segments, ArchiveCommand(s) PROVE WalInv'
  BY <1>2 DEF ArchiveCommand
<1>3. CASE ArchiveWAL
  BY <1>3 DEF ArchiveWAL
<1>4. CASE copyDurably
  BY <1>4 DEF copyDurably
<1>5. CASE UploadWAL
  BY <1>5 DEF UploadWAL
<1>6. CASE ReportWAL
  BY <1>6 DEF ReportWAL
<1>7. CASE CommandDies
  BY <1>7 DEF CommandDies
<1>8. CASE LoseLocal
  BY <1>8 DEF LoseLocal
<1>9. ASSUME NEW s \in Segments, RestoreWAL(s) PROVE WalInv'
  BY <1>9 DEF RestoreWAL
<1> QED
  BY <1>1, <1>2, <1>3, <1>4, <1>5, <1>6, <1>7, <1>8, <1>9 DEF WalNext, Archive

\* However commands fail, die and are tried again, the database is told only
\* of segments that are stored off site, and no partial copy has a segment's
\* name (backup/wal.go).
THEOREM SegmentsSafe == WalSpec => [](WalTypeOK /\ ArchivedSafe)
<1>1. WalInv => WalTypeOK /\ ArchivedSafe
  BY DEF WalInv
<1> QED
  BY <1>1, WalStarts, WalStep, PTL DEF WalSpec

(***************************************************************************)
(* The blob store.                                                         *)
(***************************************************************************)
\* The request counts on its blob: the row is there, or the blob was found
\* referenced and stayed so.
CountsOn(u) ==
    /\ request[u].safe # "no"
    /\ u \in rows \/ (request[u].safe = "shared" /\ request[u].stage # "ended")

\* The request brings in a blob that the database did not know.
BringsIn(u) == request[u].safe = "new" /\ request[u].stage # "ended"

\* What a request counts on is referenced, stored and not on the list of the
\* collector; what it brings in has a record no run can list, and stays.
RequestsInv ==
    /\ \A u \in rows : request[u].stage = "ended"
    /\ \A u \in Requests :
          /\ request[u].stage = "idle" => request[u].safe = "no"
          /\ request[u].stage = "hit" => request[u].safe # "new"
    /\ \A u \in Requests : CountsOn(u) => Kept(request[u].digest)
    /\ \A u \in Requests : BringsIn(u) =>
          /\ record[request[u].digest] # "old"
          /\ request[u].stage # "storing" => request[u].digest \in stored

\* What the collector has listed is past the grace period until its record
\* goes, and the object it deleted is on the list.
CollectorInv ==
    /\ \A d \in gc.listed : record[d] = "old"
    /\ gc.stage = "record" => gc.digest \in gc.listed

StoreInv == StoreTypeOK /\ RequestsInv /\ CollectorInv

\* The store is empty at first.
LEMMA StoreStarts == StoreInit => StoreInv
BY BlobStoreAssumption
   DEF StoreInit, StoreInv, StoreTypeOK, RequestsInv, CollectorInv, CountsOn, BringsIn, Stages

\* A request that moves on keeps its type.
LEMMA RequestMoves ==
    ASSUME StoreTypeOK, NEW u \in Requests, NEW st \in Stages, NEW sf \in {"no", "new", "shared"}
    PROVE  [request EXCEPT ![u].stage = st, ![u].safe = sf]
             \in [Requests -> [stage : Stages, kind : Kinds, digest : Digests,
                               safe : {"no", "new", "shared"}]]
<1>1. [request[u] EXCEPT !.stage = st, !.safe = sf]
        \in [stage : Stages, kind : Kinds, digest : Digests, safe : {"no", "new", "shared"}]
  BY DEF StoreTypeOK
<1> QED
  BY <1>1 DEF StoreTypeOK

\* Every step of a request and of the collector keeps the types.
LEMMA StoreTypeStep == StoreTypeOK /\ [StoreNext]_storeVars => StoreTypeOK'
<1> SUFFICES ASSUME StoreTypeOK, [StoreNext]_storeVars PROVE StoreTypeOK'
  OBVIOUS
<1> USE BlobStoreAssumption DEF StoreTypeOK, Stages, Kinds, Is, Becomes, Registered
<1>1. CASE UNCHANGED storeVars
  BY <1>1 DEF storeVars
<1>2. ASSUME NEW u \in Requests, LookUp(u) PROVE StoreTypeOK'
  <2> DEFINE d == request[u].digest
             st == IF d \in stored THEN "stored" ELSE "storing"
             sf == CASE record[d] = "none" -> "new"
                     [] record[d] # "none" /\ Kept(d) -> "shared"
                     [] OTHER -> "no"
  <2>1. sf \in {"no", "new", "shared"} /\ st \in Stages
    BY DEF Kept, Referenced, ReferencedBy
  <2>2. request' = [request EXCEPT ![u].stage = st, ![u].safe = sf]
    BY <1>2 DEF LookUp
  <2> HIDE DEF st, sf
  <2>3. UNCHANGED <<stored, record, rows, remembered, gc, sweeps>>
    BY <1>2 DEF LookUp
  <2>4. request' \in [Requests -> [stage : Stages, kind : Kinds, digest : Digests,
                                   safe : {"no", "new", "shared"}]]
    BY <2>1, <2>2, RequestMoves, Zenon
  <2> QED
    BY <2>3, <2>4
<1>3. ASSUME NEW u \in Requests, publish(u) PROVE StoreTypeOK'
  BY <1>3 DEF publish
<1>4. ASSUME NEW u \in Requests, register(u) PROVE StoreTypeOK'
  BY <1>4 DEF register
<1>c. ASSUME NEW u \in Requests, Commits(u)
      PROVE  /\ rows' \in SUBSET Requests
             /\ request' \in [Requests -> [stage : Stages, kind : Kinds, digest : Digests,
                                           safe : {"no", "new", "shared"}]]
  <2> DEFINE sf == IF request[u].digest \in stored \ gc.listed THEN "shared" ELSE request[u].safe
  <2>1. sf \in {"no", "new", "shared"} /\ "ended" \in Stages
    OBVIOUS
  <2>2. request' = [request EXCEPT ![u].stage = "ended", ![u].safe = sf]
    BY <1>c DEF Commits
  <2> HIDE DEF sf
  <2>3. request' \in [Requests -> [stage : Stages, kind : Kinds, digest : Digests,
                                   safe : {"no", "new", "shared"}]]
    BY <2>1, <2>2, RequestMoves, Zenon
  <2> QED
    BY <1>c, <2>3 DEF Commits
<1>5. ASSUME NEW u \in Requests, CommitFile(u) PROVE StoreTypeOK'
  BY <1>5, <1>c DEF CommitFile
<1>6. ASSUME NEW u \in Requests, CommitExecutable(u) PROVE StoreTypeOK'
  BY <1>6, <1>c DEF CommitExecutable
<1>7. ASSUME NEW u \in Requests, cachedCompilation(u) PROVE StoreTypeOK'
  <2> DEFINE sf == IF Kept(request[u].digest) THEN "shared" ELSE "no"
  <2>1. sf \in {"no", "new", "shared"} /\ "hit" \in Stages
    BY DEF Kept, Referenced, ReferencedBy
  <2>2. request' = [request EXCEPT ![u].stage = "hit", ![u].safe = sf]
    BY <1>7 DEF cachedCompilation
  <2> HIDE DEF sf
  <2>3. UNCHANGED <<stored, record, rows, remembered, gc, sweeps>>
    BY <1>7 DEF cachedCompilation
  <2>4. request' \in [Requests -> [stage : Stages, kind : Kinds, digest : Digests,
                                   safe : {"no", "new", "shared"}]]
    BY <2>1, <2>2, RequestMoves, Zenon
  <2> QED
    BY <2>3, <2>4
<1>8. ASSUME NEW u \in Requests, CommitCached(u) PROVE StoreTypeOK'
  BY <1>8, <1>c DEF CommitCached
<1>9. ASSUME NEW u \in Requests, Abort(u) PROVE StoreTypeOK'
  BY <1>9 DEF Abort
<1>10. ASSUME NEW u \in Requests, DeleteRow(u) PROVE StoreTypeOK'
  BY <1>10 DEF DeleteRow, Unshared
<1>11. CASE ClearCompilationCache
  BY <1>11 DEF ClearCompilationCache, Unshared
<1>12. ASSUME NEW d \in Digests, Age(d) PROVE StoreTypeOK'
  BY <1>12 DEF Age
<1>13. ASSUME NEW d \in Digests, Unused(d) PROVE StoreTypeOK'
  BY <1>13 DEF Unused
<1>14. CASE PruneCompilationCache
  BY <1>14 DEF PruneCompilationCache, Unshared
<1>15. CASE ListUnreferencedBlobs
  BY <1>15 DEF ListUnreferencedBlobs, Candidates
<1>16. CASE DeleteObject
  BY <1>16 DEF DeleteObject
<1>17. CASE DeleteBlobRecord
  BY <1>17 DEF DeleteBlobRecord
<1>18. CASE StopGC
  BY <1>18 DEF StopGC
<1> QED
  BY <1>1, <1>2, <1>3, <1>4, <1>5, <1>6, <1>7, <1>8, <1>9, <1>10, <1>11, <1>12, <1>13,
     <1>14, <1>15, <1>16, <1>17, <1>18 DEF StoreNext

\* Every step keeps what the collector relies on: a run takes its threshold
\* when it starts, so no record passes the grace period during it.
LEMMA CollectorStep == StoreInv /\ [StoreNext]_storeVars => CollectorInv'
<1> SUFFICES ASSUME StoreInv, [StoreNext]_storeVars PROVE CollectorInv'
  OBVIOUS
<1> USE DEF StoreInv, StoreTypeOK, CollectorInv, Registered
<1>1. CASE UNCHANGED storeVars
  BY <1>1 DEF storeVars
<1>2. ASSUME NEW u \in Requests, LookUp(u) \/ publish(u) \/ CommitFile(u) \/ cachedCompilation(u)
                                   \/ Abort(u) \/ DeleteRow(u)
      PROVE  CollectorInv'
  BY <1>2 DEF LookUp, publish, CommitFile, cachedCompilation, Abort, DeleteRow
<1>3. ASSUME NEW u \in Requests, register(u) \/ CommitExecutable(u) \/ CommitCached(u)
      PROVE  CollectorInv'
  BY <1>3 DEF register, CommitExecutable, CommitCached
<1>4. CASE ClearCompilationCache
  BY <1>4 DEF ClearCompilationCache
<1>5. ASSUME NEW d \in Digests, Age(d) \/ Unused(d) PROVE CollectorInv'
  BY <1>5 DEF Age, Unused
<1>6. CASE PruneCompilationCache \/ StopGC
  BY <1>6 DEF PruneCompilationCache, StopGC
<1>7. CASE ListUnreferencedBlobs
  BY <1>7 DEF ListUnreferencedBlobs, Candidates
<1>8. CASE DeleteObject
  BY <1>8 DEF DeleteObject
<1>9. CASE DeleteBlobRecord
  BY <1>9 DEF DeleteBlobRecord
<1> QED
  BY <1>1, <1>2, <1>3, <1>4, <1>5, <1>6, <1>7, <1>8, <1>9 DEF StoreNext

\* Every step keeps what the requests rely on.
LEMMA RequestsStep == StoreInv /\ [StoreNext]_storeVars => RequestsInv'
<1> SUFFICES ASSUME StoreInv, [StoreNext]_storeVars PROVE RequestsInv'
  OBVIOUS
<1> USE DEF StoreInv, StoreTypeOK, CollectorInv, RequestsInv, CountsOn, BringsIn, Kept,
            Referenced, ReferencedBy, Registered, Is, Becomes, Commits
<1>1. CASE UNCHANGED storeVars
  BY <1>1 DEF storeVars
<1>2. ASSUME NEW u \in Requests, LookUp(u) PROVE RequestsInv'
  BY <1>2 DEF LookUp
<1>3. ASSUME NEW u \in Requests, publish(u) PROVE RequestsInv'
  BY <1>3 DEF publish
<1>4. ASSUME NEW u \in Requests, register(u) PROVE RequestsInv'
  BY <1>4 DEF register
<1>5. ASSUME NEW u \in Requests, CommitFile(u) PROVE RequestsInv'
  <2>1. /\ request[u].stage = "registered" /\ rows' = rows \cup {u}
        /\ UNCHANGED <<stored, record, remembered, gc>>
    BY <1>5 DEF CommitFile
  <2>2. /\ \A v \in Requests : request'[v].digest = request[v].digest
        /\ \A v \in Requests \ {u} : request'[v] = request[v]
        /\ request'[u].stage = "ended"
        /\ request'[u].safe = IF request[u].digest \in stored \ gc.listed THEN "shared" ELSE request[u].safe
    BY <1>5 DEF CommitFile
  <2>3. request'[u].safe # "no" => request[u].digest \in stored \ gc.listed
    BY <2>1, <2>2
  <2>4. \A v \in Requests : CountsOn(v)' => v = u \/ CountsOn(v)
    BY <2>1, <2>2
  <2>5. \A v \in Requests : Kept(request[v].digest) => Kept(request[v].digest)'
    BY <2>1, <2>2
  <2>6. \A v \in Requests : CountsOn(v)' => Kept(request[v].digest)'
    <3> SUFFICES ASSUME NEW v \in Requests, CountsOn(v)' PROVE Kept(request[v].digest)'
      OBVIOUS
    <3>1. CASE v = u
      BY <2>1, <2>2, <2>3, <3>1
    <3>2. CASE CountsOn(v)
      BY <2>5, <3>2
    <3> QED
      BY <2>4, <3>1, <3>2
  <2>7. \A v \in Requests : BringsIn(v)' => v # u /\ BringsIn(v)
    BY <2>2
  <2> QED
    BY <2>1, <2>2, <2>6, <2>7
<1>6. ASSUME NEW u \in Requests, CommitExecutable(u) PROVE RequestsInv'
  BY <1>6 DEF CommitExecutable
<1>7. ASSUME NEW u \in Requests, cachedCompilation(u) PROVE RequestsInv'
  BY <1>7 DEF cachedCompilation
<1>8. ASSUME NEW u \in Requests, CommitCached(u) PROVE RequestsInv'
  BY <1>8 DEF CommitCached
<1>9. ASSUME NEW u \in Requests, Abort(u) PROVE RequestsInv'
  BY <1>9 DEF Abort
<1>10. ASSUME NEW u \in Requests, DeleteRow(u) PROVE RequestsInv'
  BY <1>10 DEF DeleteRow, Unshared
<1>11. CASE ClearCompilationCache
  BY <1>11 DEF ClearCompilationCache, Unshared
<1>12. ASSUME NEW d \in Digests, Age(d) PROVE RequestsInv'
  BY <1>12 DEF Age
<1>13. ASSUME NEW d \in Digests, Unused(d) PROVE RequestsInv'
  BY <1>13 DEF Unused
<1>14. CASE PruneCompilationCache
  BY <1>14 DEF PruneCompilationCache, Unshared
<1>15. CASE ListUnreferencedBlobs
  BY <1>15 DEF ListUnreferencedBlobs, Candidates
<1>16. CASE DeleteObject
  BY <1>16 DEF DeleteObject
<1>17. CASE DeleteBlobRecord
  BY <1>17 DEF DeleteBlobRecord
<1>18. CASE StopGC
  BY <1>18 DEF StopGC
<1> QED
  BY <1>1, <1>2, <1>3, <1>4, <1>5, <1>6, <1>7, <1>8, <1>9, <1>10, <1>11, <1>12, <1>13,
     <1>14, <1>15, <1>16, <1>17, <1>18 DEF StoreNext

\* Garbage collection never takes a blob a row refers to, unless it had taken
\* or listed it by the time the row was committed, and that never befalls a
\* request that brought the blob in, or found it referenced all along:
\* however its steps and those of the requests interleave and wherever a run
\* stops (blob/tracked.go).
THEOREM ReferencedBlobsKept == StoreSpec => [](StoreTypeOK /\ BlobsKept)
<1>1. StoreInv => StoreTypeOK /\ BlobsKept
  BY DEF StoreInv, StoreTypeOK, RequestsInv, CountsOn, Kept, BlobsKept
<1>2. StoreInv /\ [StoreNext]_storeVars => StoreInv'
  BY StoreTypeStep, CollectorStep, RequestsStep DEF StoreInv
<1> QED
  BY <1>1, <1>2, StoreStarts, PTL DEF StoreSpec

(***************************************************************************)
(* Backups.                                                                *)
(***************************************************************************)
\* Enough later scheduled backups were begun for n to go.
Outlived(n) ==
    /\ dir[n].kind = "scheduled"
    /\ Cardinality({k \in Numbers : k > n /\ dir[k].kind = "scheduled"}) >= Keep

\* Names are taken in order, and nothing is there under a name not taken.
NamesInv ==
    /\ \A n \in Numbers : n > begun => dir[n] = NoEntry
    /\ \A a \in Admins : admin[a].n <= begun

\* What the directory holds of the backup of a server: it has no metadata
\* before they are written, and afterwards its archive is whole unless
\* somebody deleted it.
WriterInv ==
    \A a \in Admins :
        LET n == admin[a].n
        IN  /\ admin[a].at \in {"begun", "dump", "meta"} =>
                  /\ dir[n].meta = "none"
                  /\ \A b \in Admins : n \notin admin[b].victims
            /\ admin[a].at \in {"meta", "upload"} =>
                  dir[n].archive = "whole" \/ n \in removed \cup rotated

\* The rotations under way delete what is outlived only.
VictimsInv == \A a \in Admins : \A n \in admin[a].victims : Outlived(n)

BackupInv == BackupTypeOK /\ BackupsSound /\ NamesInv /\ WriterInv /\ VictimsInv

\* No backup is there at first.
LEMMA BackupStarts == BackupInit => BackupInv
<1> SUFFICES ASSUME BackupInit PROVE BackupInv
  OBVIOUS
<1> USE BackupAssumption DEF BackupInit, AdminIdle, NoEntry
<1>1. BackupTypeOK
  BY DEF BackupTypeOK, Numbers
<1>2. BackupsSound
  BY DEF BackupsSound, OneBackup, MetaTruthful, NewestKept, Busy
<1> QED
  BY <1>1, <1>2 DEF BackupInv, NamesInv, WriterInv, VictimsInv

\* The types of the directory, of the servers and of the rest.
DirOK ==
    dir \in [Numbers -> [kind : {"none", "scheduled", "manual"},
                         archive : {"none", "partial", "whole"}, meta : {"none", "done", "failed"}]]

ServersOK ==
    admin \in [Admins -> [at : {"idle", "begun", "dump", "meta", "upload", "rotate",
                                "delete", "release"},
                          n : 0 .. MaxBackups, cancelled : BOOLEAN, victims : SUBSET Numbers]]

CountersOK ==
    /\ lease \in Admins \cup {NoAdmin}
    /\ begun \in 0 .. MaxBackups /\ lapses \in Nat /\ faults \in Nat
    /\ removed \in SUBSET Numbers /\ rotated \in SUBSET Numbers

\* A server at work has a name, and no other server has it.
OwnNames ==
    \A a \in Admins : admin[a].at # "idle" =>
        admin[a].n > 0 /\ \A b \in Admins \ {a} : admin[b].n # admin[a].n

\* Every step keeps the type of the directory.
LEMMA DirTypeStep == BackupTypeOK /\ [BackupNext]_backupVars => DirOK'
<1> SUFFICES ASSUME BackupTypeOK, [BackupNext]_backupVars PROVE DirOK'
  OBVIOUS
<1>0. \A a \in Admins : admin[a].at # "idle" => admin[a].n \in Numbers
  BY BackupAssumption DEF BackupTypeOK, Numbers
<1> USE <1>0 DEF BackupTypeOK, DirOK
<1>1. CASE UNCHANGED backupVars
  BY <1>1 DEF backupVars
<1>2. ASSUME NEW a \in Admins, NEW kind \in {"scheduled", "manual"}, begin(a, kind)
      PROVE  DirOK'
  BY <1>2, BackupAssumption DEF begin, Numbers
<1>3. ASSUME NEW a \in Admins, acquire(a) PROVE DirOK'
  BY <1>3 DEF acquire, openPartial
<1>4. ASSUME NEW a \in Admins, renew(a) PROVE DirOK'
  BY <1>4 DEF renew
<1>5. ASSUME NEW a \in Admins, dump(a) PROVE DirOK'
  BY <1>5 DEF dump
<1>6. ASSUME NEW a \in Admins, fail(a) PROVE DirOK'
  BY <1>6 DEF fail
<1>7. ASSUME NEW a \in Admins, writeMeta(a) PROVE DirOK'
  BY <1>7 DEF writeMeta
<1>8. ASSUME NEW a \in Admins, upload(a) PROVE DirOK'
  BY <1>8 DEF upload
<1>9. ASSUME NEW a \in Admins, rotate(a) PROVE DirOK'
  BY <1>9 DEF rotate, Expendable, Scheduled
<1>10. ASSUME NEW a \in Admins, Delete(a) PROVE DirOK'
  BY <1>10 DEF Delete
<1>11. ASSUME NEW a \in Admins, rotateEnds(a) PROVE DirOK'
  BY <1>11 DEF rotateEnds
<1>12. ASSUME NEW a \in Admins, release(a) PROVE DirOK'
  BY <1>12 DEF release
<1>13. ASSUME NEW a \in Admins, DeleteInterrupted(a) PROVE DirOK'
  BY <1>13 DEF DeleteInterrupted
<1>14. ASSUME NEW a \in Admins, BackupCrash(a) PROVE DirOK'
  BY <1>14 DEF BackupCrash
<1>15. CASE expire
  BY <1>15 DEF expire
<1>16. ASSUME NEW n \in Numbers, handleBackupDelete(n) PROVE DirOK'
  <2>1. dir' = [dir EXCEPT ![n] = [dir[n] EXCEPT !.archive = "none", !.meta = "none"]]
    BY <1>16 DEF handleBackupDelete
  <2> QED
    BY <2>1
<1> QED
  BY <1>1, <1>2, <1>3, <1>4, <1>5, <1>6, <1>7, <1>8, <1>9, <1>10, <1>11, <1>12, <1>13,
     <1>14, <1>15, <1>16 DEF BackupNext, BackupStep

\* Every step keeps the type of the servers.
LEMMA ServersTypeStep == BackupTypeOK /\ [BackupNext]_backupVars => ServersOK'
<1> SUFFICES ASSUME BackupTypeOK, [BackupNext]_backupVars PROVE ServersOK'
  OBVIOUS
<1> DEFINE Server == [at : {"idle", "begun", "dump", "meta", "upload", "rotate", "delete", "release"},
                      n : 0 .. MaxBackups, cancelled : BOOLEAN, victims : SUBSET Numbers]
<1>0. AdminIdle \in Server
  BY BackupAssumption DEF AdminIdle
<1> USE <1>0 DEF BackupTypeOK, ServersOK, Go
<1>1. CASE UNCHANGED backupVars
  BY <1>1 DEF backupVars
<1>2. ASSUME NEW a \in Admins, NEW kind \in {"scheduled", "manual"}, begin(a, kind)
      PROVE  ServersOK'
  <2>0. begun + 1 \in 0 .. MaxBackups
    BY <1>2, BackupAssumption DEF begin
  <2>1. [AdminIdle EXCEPT !.at = "begun", !.n = begun + 1] \in Server
    BY <2>0 DEF AdminIdle
  <2> QED
    BY <1>2, <2>1 DEF begin
<1>3. ASSUME NEW a \in Admins, acquire(a) PROVE ServersOK'
  BY <1>3 DEF acquire, openPartial
<1>4. ASSUME NEW a \in Admins, renew(a) PROVE ServersOK'
  BY <1>4 DEF renew
<1>5. ASSUME NEW a \in Admins, dump(a) PROVE ServersOK'
  BY <1>5 DEF dump
<1>6. ASSUME NEW a \in Admins, fail(a) PROVE ServersOK'
  BY <1>6 DEF fail
<1>7. ASSUME NEW a \in Admins, writeMeta(a) PROVE ServersOK'
  BY <1>7 DEF writeMeta
<1>8. ASSUME NEW a \in Admins, upload(a) PROVE ServersOK'
  BY <1>8 DEF upload
<1>9. ASSUME NEW a \in Admins, rotate(a) PROVE ServersOK'
  <2>1. PICK v \in SUBSET Numbers : admin' = [admin EXCEPT ![a].victims = v, ![a].at = "delete"]
    <3> DEFINE v == IF dir[admin[a].n].kind = "scheduled" THEN Expendable ELSE {}
    <3>1. v \in SUBSET Numbers
      BY DEF Expendable, Scheduled
    <3>2. admin' = [admin EXCEPT ![a].victims = v, ![a].at = "delete"]
      BY <1>9 DEF rotate
    <3> QED
      BY <3>1, <3>2, Zenon
  <2>2. [admin[a] EXCEPT !.victims = v, !.at = "delete"] \in Server
    OBVIOUS
  <2> QED
    BY <2>1, <2>2
<1>10. ASSUME NEW a \in Admins, Delete(a) PROVE ServersOK'
  BY <1>10 DEF Delete
<1>11. ASSUME NEW a \in Admins, rotateEnds(a) PROVE ServersOK'
  BY <1>11 DEF rotateEnds
<1>12. ASSUME NEW a \in Admins, release(a) PROVE ServersOK'
  BY <1>12 DEF release
<1>13. ASSUME NEW a \in Admins, DeleteInterrupted(a) PROVE ServersOK'
  BY <1>13 DEF DeleteInterrupted
<1>14. ASSUME NEW a \in Admins, BackupCrash(a) PROVE ServersOK'
  BY <1>14 DEF BackupCrash
<1>15. CASE expire
  BY <1>15 DEF expire
<1>16. ASSUME NEW n \in Numbers, handleBackupDelete(n) PROVE ServersOK'
  BY <1>16 DEF handleBackupDelete
<1> QED
  BY <1>1, <1>2, <1>3, <1>4, <1>5, <1>6, <1>7, <1>8, <1>9, <1>10, <1>11, <1>12, <1>13,
     <1>14, <1>15, <1>16 DEF BackupNext, BackupStep

\* Every step keeps the names apart.
LEMMA OwnNamesStep == BackupTypeOK /\ NamesInv /\ [BackupNext]_backupVars => OwnNames'
<1> SUFFICES ASSUME BackupTypeOK, NamesInv, [BackupNext]_backupVars PROVE OwnNames'
  OBVIOUS
<1> USE DEF BackupTypeOK, OwnNames, AdminIdle, Go
<1>1. CASE UNCHANGED backupVars
  BY <1>1 DEF backupVars
<1>2. ASSUME NEW a \in Admins, NEW kind \in {"scheduled", "manual"}, begin(a, kind)
      PROVE  OwnNames'
  BY <1>2, BackupAssumption DEF begin, NamesInv
<1>3. ASSUME NEW a \in Admins, acquire(a) PROVE OwnNames'
  BY <1>3 DEF acquire, openPartial
<1>4. ASSUME NEW a \in Admins, renew(a) PROVE OwnNames'
  BY <1>4 DEF renew
<1>5. ASSUME NEW a \in Admins, dump(a) PROVE OwnNames'
  BY <1>5 DEF dump
<1>6. ASSUME NEW a \in Admins, fail(a) PROVE OwnNames'
  BY <1>6 DEF fail
<1>7. ASSUME NEW a \in Admins, writeMeta(a) PROVE OwnNames'
  BY <1>7 DEF writeMeta
<1>8. ASSUME NEW a \in Admins, upload(a) PROVE OwnNames'
  BY <1>8 DEF upload
<1>9. ASSUME NEW a \in Admins, rotate(a) PROVE OwnNames'
  BY <1>9 DEF rotate, Expendable, Scheduled
<1>10. ASSUME NEW a \in Admins, Delete(a) PROVE OwnNames'
  BY <1>10 DEF Delete
<1>11. ASSUME NEW a \in Admins, rotateEnds(a) PROVE OwnNames'
  BY <1>11 DEF rotateEnds
<1>12. ASSUME NEW a \in Admins, release(a) PROVE OwnNames'
  BY <1>12 DEF release
<1>13. ASSUME NEW a \in Admins, DeleteInterrupted(a) PROVE OwnNames'
  BY <1>13 DEF DeleteInterrupted
<1>14. ASSUME NEW a \in Admins, BackupCrash(a) PROVE OwnNames'
  BY <1>14 DEF BackupCrash
<1>15. CASE expire
  BY <1>15 DEF expire
<1>16. ASSUME NEW n \in Numbers, handleBackupDelete(n) PROVE OwnNames'
  BY <1>16 DEF handleBackupDelete
<1> QED
  BY <1>1, <1>2, <1>3, <1>4, <1>5, <1>6, <1>7, <1>8, <1>9, <1>10, <1>11, <1>12, <1>13,
     <1>14, <1>15, <1>16 DEF BackupNext, BackupStep

\* Every step keeps the other types.
LEMMA CountersStep == BackupTypeOK /\ [BackupNext]_backupVars => CountersOK'
<1> SUFFICES ASSUME BackupTypeOK, [BackupNext]_backupVars PROVE CountersOK'
  OBVIOUS
<1> USE DEF BackupTypeOK, CountersOK, Fault
<1>1. CASE UNCHANGED backupVars
  BY <1>1 DEF backupVars
<1>2. ASSUME NEW a \in Admins, NEW kind \in {"scheduled", "manual"}, begin(a, kind)
      PROVE  CountersOK'
  BY <1>2, BackupAssumption DEF begin
<1>3. ASSUME NEW a \in Admins, acquire(a) PROVE CountersOK'
  BY <1>3 DEF acquire, openPartial
<1>4. ASSUME NEW a \in Admins, renew(a) PROVE CountersOK'
  BY <1>4 DEF renew
<1>5. ASSUME NEW a \in Admins, dump(a) PROVE CountersOK'
  BY <1>5 DEF dump
<1>6. ASSUME NEW a \in Admins, fail(a) PROVE CountersOK'
  BY <1>6 DEF fail
<1>7. ASSUME NEW a \in Admins, writeMeta(a) PROVE CountersOK'
  BY <1>7 DEF writeMeta
<1>8. ASSUME NEW a \in Admins, upload(a) PROVE CountersOK'
  BY <1>8 DEF upload
<1>9. ASSUME NEW a \in Admins, rotate(a) PROVE CountersOK'
  BY <1>9 DEF rotate, Expendable, Scheduled
<1>10. ASSUME NEW a \in Admins, Delete(a) PROVE CountersOK'
  BY <1>10 DEF Delete
<1>11. ASSUME NEW a \in Admins, rotateEnds(a) PROVE CountersOK'
  BY <1>11 DEF rotateEnds
<1>12. ASSUME NEW a \in Admins, release(a) PROVE CountersOK'
  BY <1>12 DEF release
<1>13. ASSUME NEW a \in Admins, DeleteInterrupted(a) PROVE CountersOK'
  BY <1>13 DEF DeleteInterrupted
<1>14. ASSUME NEW a \in Admins, BackupCrash(a) PROVE CountersOK'
  BY <1>14 DEF BackupCrash
<1>15. CASE expire
  BY <1>15 DEF expire
<1>16. ASSUME NEW n \in Numbers, handleBackupDelete(n) PROVE CountersOK'
  BY <1>16 DEF handleBackupDelete
<1> QED
  BY <1>1, <1>2, <1>3, <1>4, <1>5, <1>6, <1>7, <1>8, <1>9, <1>10, <1>11, <1>12, <1>13,
     <1>14, <1>15, <1>16 DEF BackupNext, BackupStep

\* Every step keeps the types, and each server at work its own name.
LEMMA BackupTypeStep == BackupTypeOK /\ NamesInv /\ [BackupNext]_backupVars => BackupTypeOK'
BY DirTypeStep, ServersTypeStep, OwnNamesStep, CountersStep
   DEF BackupTypeOK, DirOK, ServersOK, OwnNames, CountersOK

\* Every step keeps the names in order.
LEMMA NamesStep == BackupTypeOK /\ NamesInv /\ [BackupNext]_backupVars => NamesInv'
<1> SUFFICES ASSUME BackupTypeOK, NamesInv, [BackupNext]_backupVars PROVE NamesInv'
  OBVIOUS
<1>0. \A a \in Admins : admin[a].at # "idle" => admin[a].n \in Numbers
  BY BackupAssumption DEF BackupTypeOK, Numbers
<1> USE <1>0 DEF BackupTypeOK, NamesInv, NoEntry, AdminIdle, Go, Fault
<1>1. CASE UNCHANGED backupVars
  BY <1>1 DEF backupVars
<1>2. ASSUME NEW a \in Admins, NEW kind \in {"scheduled", "manual"}, begin(a, kind)
      PROVE  NamesInv'
  <2>1. \A n \in Numbers : n > begun' => n > begun /\ n # begun + 1
    BY <1>2 DEF begin, Numbers
  <2>2. \A n \in Numbers : n > begun' => dir'[n] = NoEntry
    BY <1>2, <2>1 DEF begin
  <2>3. \A b \in Admins : admin'[b].n <= begun'
    BY <1>2 DEF begin
  <2> QED
    BY <2>2, <2>3
<1>3. ASSUME NEW a \in Admins, acquire(a) PROVE NamesInv'
  BY <1>3 DEF acquire, openPartial
<1>4. ASSUME NEW a \in Admins, renew(a) PROVE NamesInv'
  BY <1>4 DEF renew
<1>5. ASSUME NEW a \in Admins, dump(a) PROVE NamesInv'
  BY <1>5 DEF dump
<1>6. ASSUME NEW a \in Admins, fail(a) PROVE NamesInv'
  BY <1>6 DEF fail
<1>7. ASSUME NEW a \in Admins, writeMeta(a) PROVE NamesInv'
  BY <1>7 DEF writeMeta
<1>8. ASSUME NEW a \in Admins, upload(a) PROVE NamesInv'
  BY <1>8 DEF upload
<1>9. ASSUME NEW a \in Admins, rotate(a) PROVE NamesInv'
  BY <1>9 DEF rotate, Expendable, Scheduled
<1>10. ASSUME NEW a \in Admins, Delete(a) PROVE NamesInv'
  BY <1>10 DEF Delete
<1>11. ASSUME NEW a \in Admins, rotateEnds(a) PROVE NamesInv'
  BY <1>11 DEF rotateEnds
<1>12. ASSUME NEW a \in Admins, release(a) PROVE NamesInv'
  BY <1>12 DEF release
<1>13. ASSUME NEW a \in Admins, DeleteInterrupted(a) PROVE NamesInv'
  BY <1>13 DEF DeleteInterrupted
<1>14. ASSUME NEW a \in Admins, BackupCrash(a) PROVE NamesInv'
  BY <1>14 DEF BackupCrash
<1>15. CASE expire
  BY <1>15 DEF expire
<1>16. ASSUME NEW n \in Numbers, handleBackupDelete(n) PROVE NamesInv'
  BY <1>16 DEF handleBackupDelete
<1> QED
  BY <1>1, <1>2, <1>3, <1>4, <1>5, <1>6, <1>7, <1>8, <1>9, <1>10, <1>11, <1>12, <1>13,
     <1>14, <1>15, <1>16 DEF BackupNext, BackupStep

\* Every step keeps the lease with the server at work.
LEMMA OneBackupStep == BackupTypeOK /\ OneBackup /\ [BackupNext]_backupVars => OneBackup'
<1> SUFFICES ASSUME BackupTypeOK, OneBackup, [BackupNext]_backupVars PROVE OneBackup'
  OBVIOUS
<1> USE BackupAssumption DEF BackupTypeOK, OneBackup, Busy, AdminIdle, Go, Fault
<1>1. CASE UNCHANGED backupVars
  BY <1>1 DEF backupVars
<1>2. ASSUME NEW a \in Admins, NEW kind \in {"scheduled", "manual"}, begin(a, kind)
      PROVE  OneBackup'
  BY <1>2 DEF begin
<1>3. ASSUME NEW a \in Admins, acquire(a) PROVE OneBackup'
  BY <1>3 DEF acquire, openPartial
<1>4. ASSUME NEW a \in Admins, renew(a) PROVE OneBackup'
  BY <1>4 DEF renew
<1>5. ASSUME NEW a \in Admins, dump(a) PROVE OneBackup'
  BY <1>5 DEF dump
<1>6. ASSUME NEW a \in Admins, fail(a) PROVE OneBackup'
  BY <1>6 DEF fail
<1>7. ASSUME NEW a \in Admins, writeMeta(a) PROVE OneBackup'
  BY <1>7 DEF writeMeta
<1>8. ASSUME NEW a \in Admins, upload(a) PROVE OneBackup'
  BY <1>8 DEF upload
<1>9. ASSUME NEW a \in Admins, rotate(a) PROVE OneBackup'
  BY <1>9 DEF rotate, Expendable, Scheduled
<1>10. ASSUME NEW a \in Admins, Delete(a) PROVE OneBackup'
  BY <1>10 DEF Delete
<1>11. ASSUME NEW a \in Admins, rotateEnds(a) PROVE OneBackup'
  BY <1>11 DEF rotateEnds
<1>12. ASSUME NEW a \in Admins, release(a) PROVE OneBackup'
  BY <1>12 DEF release
<1>13. ASSUME NEW a \in Admins, DeleteInterrupted(a) PROVE OneBackup'
  BY <1>13 DEF DeleteInterrupted
<1>14. ASSUME NEW a \in Admins, BackupCrash(a) PROVE OneBackup'
  BY <1>14 DEF BackupCrash
<1>15. CASE expire
  BY <1>15 DEF expire
<1>16. ASSUME NEW n \in Numbers, handleBackupDelete(n) PROVE OneBackup'
  BY <1>16 DEF handleBackupDelete
<1> QED
  BY <1>1, <1>2, <1>3, <1>4, <1>5, <1>6, <1>7, <1>8, <1>9, <1>10, <1>11, <1>12, <1>13,
     <1>14, <1>15, <1>16 DEF BackupNext, BackupStep

\* The directory is in accord with what the servers do.
DirInv == NamesInv /\ WriterInv /\ MetaTruthful

\* A server at work finds its backup as it left it, or deleted.
LEMMA WriterStep == BackupTypeOK /\ DirInv /\ VictimsInv /\ [BackupNext]_backupVars => WriterInv'
<1> SUFFICES ASSUME BackupTypeOK, DirInv, VictimsInv, [BackupNext]_backupVars PROVE WriterInv'
  OBVIOUS
<1>0. \A a \in Admins : admin[a].at # "idle" => admin[a].n \in Numbers
  BY BackupAssumption DEF BackupTypeOK, Numbers
<1> USE <1>0 DEF BackupTypeOK, DirInv, WriterInv, AdminIdle, Go
<1>1. CASE UNCHANGED backupVars
  BY <1>1 DEF backupVars
<1>2. ASSUME NEW a \in Admins, NEW kind \in {"scheduled", "manual"}, begin(a, kind)
      PROVE  WriterInv'
  <2>1. begun + 1 \in Numbers /\ begun + 1 > begun
    BY <1>2, BackupAssumption DEF begin, Numbers
  <2>2. dir[begun + 1].meta = "none" /\ dir[begun + 1].kind = "none"
    BY <2>1 DEF NamesInv, NoEntry
  <2>3. \A b \in Admins : begun + 1 \notin admin[b].victims
    BY <2>2 DEF VictimsInv, Outlived
  <2>4. \A b \in Admins : admin[b].n # begun + 1
    BY <2>1 DEF NamesInv
  <2>5. /\ admin' = [admin EXCEPT ![a] = [AdminIdle EXCEPT !.at = "begun", !.n = begun + 1]]
        /\ dir' = [dir EXCEPT ![begun + 1].kind = kind]
        /\ UNCHANGED <<removed, rotated>>
    BY <1>2 DEF begin
  <2> QED
    BY <2>1, <2>2, <2>3, <2>4, <2>5
<1>3. ASSUME NEW a \in Admins, acquire(a) PROVE WriterInv'
  <2>1. CASE lease = NoAdmin
    <3>1. /\ admin[a].at = "begun" /\ UNCHANGED <<removed, rotated>>
          /\ dir' = [dir EXCEPT ![admin[a].n].archive = "partial"]
          /\ admin' = [admin EXCEPT ![a].at = "dump"]
      BY <1>3, <2>1 DEF acquire, openPartial
    <3> QED
      BY <3>1
  <2>2. CASE lease # NoAdmin
    <3>1. UNCHANGED <<dir, removed, rotated>> /\ admin' = [admin EXCEPT ![a] = AdminIdle]
      BY <1>3, <2>2 DEF acquire
    <3> QED
      BY <3>1
  <2> QED
    BY <2>1, <2>2
<1>4. ASSUME NEW a \in Admins, renew(a) PROVE WriterInv'
  BY <1>4 DEF renew
<1>5. ASSUME NEW a \in Admins, dump(a) PROVE WriterInv'
  BY <1>5 DEF dump
<1>6. ASSUME NEW a \in Admins, fail(a) PROVE WriterInv'
  BY <1>6 DEF fail
<1>7. ASSUME NEW a \in Admins, writeMeta(a) PROVE WriterInv'
  BY <1>7 DEF writeMeta
<1>8. ASSUME NEW a \in Admins, upload(a) PROVE WriterInv'
  BY <1>8 DEF upload
<1>9. ASSUME NEW a \in Admins, rotate(a) PROVE WriterInv'
  <2>1. PICK v \in SUBSET {n \in Numbers : dir[n].meta # "none"} :
            admin' = [admin EXCEPT ![a].victims = v, ![a].at = "delete"]
    <3> DEFINE v == IF dir[admin[a].n].kind = "scheduled" THEN Expendable ELSE {}
    <3>1. v \in SUBSET {n \in Numbers : dir[n].meta # "none"}
      BY DEF Expendable, Scheduled
    <3>2. admin' = [admin EXCEPT ![a].victims = v, ![a].at = "delete"]
      BY <1>9 DEF rotate
    <3> QED
      BY <3>1, <3>2, Zenon
  <2>2. UNCHANGED <<dir, removed, rotated>>
    BY <1>9 DEF rotate
  <2> QED
    BY <2>1, <2>2
<1>10. ASSUME NEW a \in Admins, Delete(a) PROVE WriterInv'
  BY <1>10 DEF Delete
<1>11. ASSUME NEW a \in Admins, rotateEnds(a) PROVE WriterInv'
  BY <1>11 DEF rotateEnds
<1>12. ASSUME NEW a \in Admins, release(a) PROVE WriterInv'
  BY <1>12 DEF release
<1>13. ASSUME NEW a \in Admins, DeleteInterrupted(a) PROVE WriterInv'
  BY <1>13 DEF DeleteInterrupted
<1>14. ASSUME NEW a \in Admins, BackupCrash(a) PROVE WriterInv'
  BY <1>14 DEF BackupCrash
<1>15. CASE expire
  BY <1>15 DEF expire
<1>16. ASSUME NEW n \in Numbers, handleBackupDelete(n) PROVE WriterInv'
  BY <1>16 DEF handleBackupDelete
<1> QED
  BY <1>1, <1>2, <1>3, <1>4, <1>5, <1>6, <1>7, <1>8, <1>9, <1>10, <1>11, <1>12, <1>13,
     <1>14, <1>15, <1>16 DEF BackupNext, BackupStep

\* The metadata stay true.
LEMMA MetaStep == BackupTypeOK /\ DirInv /\ [BackupNext]_backupVars => MetaTruthful'
<1> SUFFICES ASSUME BackupTypeOK, DirInv, [BackupNext]_backupVars PROVE MetaTruthful'
  OBVIOUS
<1>0. \A a \in Admins : admin[a].at # "idle" => admin[a].n \in Numbers
  BY BackupAssumption DEF BackupTypeOK, Numbers
<1> USE <1>0 DEF BackupTypeOK, DirInv, WriterInv, MetaTruthful, Go
<1>1. CASE UNCHANGED backupVars
  BY <1>1 DEF backupVars
<1>2. ASSUME NEW a \in Admins, NEW kind \in {"scheduled", "manual"}, begin(a, kind)
      PROVE  MetaTruthful'
  BY <1>2, BackupAssumption DEF begin
<1>3. ASSUME NEW a \in Admins, acquire(a) PROVE MetaTruthful'
  BY <1>3 DEF acquire, openPartial
<1>4. ASSUME NEW a \in Admins, renew(a) PROVE MetaTruthful'
  BY <1>4 DEF renew
<1>5. ASSUME NEW a \in Admins, dump(a) PROVE MetaTruthful'
  BY <1>5 DEF dump
<1>6. ASSUME NEW a \in Admins, fail(a) PROVE MetaTruthful'
  BY <1>6 DEF fail
<1>7. ASSUME NEW a \in Admins, writeMeta(a) PROVE MetaTruthful'
  <2>1. CASE UNCHANGED dir
    BY <1>7, <2>1 DEF writeMeta
  <2>2. CASE dir' = [dir EXCEPT ![admin[a].n].meta = "done"]
    <3>1. admin[a].at = "meta" /\ UNCHANGED <<removed, rotated>>
      BY <1>7 DEF writeMeta
    <3> QED
      BY <2>2, <3>1
  <2> QED
    BY <1>7, <2>1, <2>2 DEF writeMeta
<1>8. ASSUME NEW a \in Admins, upload(a) PROVE MetaTruthful'
  BY <1>8 DEF upload
<1>9. ASSUME NEW a \in Admins, rotate(a) PROVE MetaTruthful'
  BY <1>9 DEF rotate, Expendable, Scheduled
<1>10. ASSUME NEW a \in Admins, Delete(a) PROVE MetaTruthful'
  BY <1>10 DEF Delete
<1>11. ASSUME NEW a \in Admins, rotateEnds(a) PROVE MetaTruthful'
  BY <1>11 DEF rotateEnds
<1>12. ASSUME NEW a \in Admins, release(a) PROVE MetaTruthful'
  BY <1>12 DEF release
<1>13. ASSUME NEW a \in Admins, DeleteInterrupted(a) PROVE MetaTruthful'
  BY <1>13 DEF DeleteInterrupted
<1>14. ASSUME NEW a \in Admins, BackupCrash(a) PROVE MetaTruthful'
  BY <1>14 DEF BackupCrash
<1>15. CASE expire
  BY <1>15 DEF expire
<1>16. ASSUME NEW n \in Numbers, handleBackupDelete(n) PROVE MetaTruthful'
  BY <1>16 DEF handleBackupDelete
<1> QED
  BY <1>1, <1>2, <1>3, <1>4, <1>5, <1>6, <1>7, <1>8, <1>9, <1>10, <1>11, <1>12, <1>13,
     <1>14, <1>15, <1>16 DEF BackupNext, BackupStep

\* More scheduled backups outlive what was outlived before.
LEMMA OutlivedStays ==
    ASSUME BackupTypeOK, NEW n \in Numbers, Outlived(n),
           \A k \in Numbers : dir[k].kind = "scheduled" => dir'[k].kind = "scheduled"
    PROVE  Outlived(n)'
<1> DEFINE Later == {k \in Numbers : k > n /\ dir[k].kind = "scheduled"}
           Next2 == {k \in Numbers : k > n /\ dir'[k].kind = "scheduled"}
<1>1. IsFiniteSet(Next2)
  <2>1. IsFiniteSet(Numbers)
    BY FS_Interval, BackupAssumption DEF Numbers
  <2> QED
    BY <2>1, FS_Subset
<1>2. Later \subseteq Next2
  OBVIOUS
<1>3. Cardinality(Later) <= Cardinality(Next2) /\ IsFiniteSet(Later)
  BY <1>1, <1>2, FS_Subset
<1>4. Cardinality(Later) \in Nat /\ Cardinality(Next2) \in Nat
  BY <1>1, <1>3, FS_CardinalityType
<1>5. Cardinality(Later) >= Keep
  BY DEF Outlived
<1>6. Cardinality(Next2) >= Keep
  BY <1>3, <1>4, <1>5, BackupAssumption
<1> QED
  BY <1>6 DEF Outlived, Numbers

\* What a rotation picks is outlived: the entries it counts are scheduled
\* backups that were begun later.
LEMMA ExpendableOutlived ==
    ASSUME BackupTypeOK, NEW n \in Expendable
    PROVE  n \in Numbers /\ Outlived(n)
<1> DEFINE Listed == {k \in Scheduled : k > n}
           Later == {k \in Numbers : k > n /\ dir[k].kind = "scheduled"}
<1>1. n \in Scheduled /\ Cardinality(Listed) >= Keep
  BY DEF Expendable
<1>2. IsFiniteSet(Later)
  <2>1. IsFiniteSet(Numbers)
    BY FS_Interval, BackupAssumption DEF Numbers
  <2> QED
    BY <2>1, FS_Subset
<1>3. Listed \subseteq Later
  BY DEF Scheduled
<1>4. Cardinality(Listed) <= Cardinality(Later) /\ IsFiniteSet(Listed)
  BY <1>2, <1>3, FS_Subset
<1>5. Cardinality(Listed) \in Nat /\ Cardinality(Later) \in Nat
  BY <1>2, <1>4, FS_CardinalityType
<1>6. Cardinality(Later) >= Keep
  BY <1>1, <1>4, <1>5, BackupAssumption
<1> QED
  BY <1>1, <1>6 DEF Outlived, Scheduled

\* No step changes the kind of a backup that has one.
LEMMA KindsStay ==
    ASSUME BackupTypeOK, NamesInv, [BackupNext]_backupVars
    PROVE  \A k \in Numbers : dir[k].kind # "none" => dir'[k].kind = dir[k].kind
<1>0. \A a \in Admins : admin[a].at # "idle" => admin[a].n \in Numbers
  BY BackupAssumption DEF BackupTypeOK, Numbers
<1> USE <1>0 DEF BackupTypeOK
<1>1. CASE UNCHANGED backupVars
  BY <1>1 DEF backupVars
<1>2. ASSUME NEW a \in Admins, NEW kind \in {"scheduled", "manual"}, begin(a, kind)
      PROVE  \A k \in Numbers : dir[k].kind # "none" => dir'[k].kind = dir[k].kind
  <2>1. begun + 1 \in Numbers /\ begun + 1 > begun
    BY <1>2, BackupAssumption DEF begin, Numbers
  <2>2. dir[begun + 1].kind = "none"
    BY <2>1 DEF NamesInv, NoEntry
  <2> QED
    BY <1>2, <2>1, <2>2 DEF begin
<1>3. ASSUME NEW a \in Admins, acquire(a) \/ dump(a) \/ fail(a) \/ writeMeta(a) \/ upload(a)
      PROVE  \A k \in Numbers : dir'[k].kind = dir[k].kind
  BY <1>3 DEF acquire, openPartial, dump, fail, writeMeta, upload
<1>4. ASSUME NEW a \in Admins, Delete(a) \/ DeleteInterrupted(a)
      PROVE  \A k \in Numbers : dir'[k].kind = dir[k].kind
  <2>1. PICK n \in admin[a].victims : \/ dir' = [dir EXCEPT ![n].archive = "none", ![n].meta = "none"]
                                      \/ dir' = [dir EXCEPT ![n].archive = "none"]
    BY <1>4 DEF Delete, DeleteInterrupted
  <2>2. n \in Numbers
    OBVIOUS
  <2>3. CASE dir' = [dir EXCEPT ![n].archive = "none", ![n].meta = "none"]
    BY <2>2, <2>3
  <2>4. CASE dir' = [dir EXCEPT ![n].archive = "none"]
    BY <2>2, <2>4
  <2> QED
    BY <2>1, <2>3, <2>4
<1>5. ASSUME NEW a \in Admins, renew(a) \/ rotate(a) \/ rotateEnds(a) \/ release(a) \/ BackupCrash(a)
      PROVE  UNCHANGED dir
  BY <1>5 DEF renew, rotate, rotateEnds, release, BackupCrash
<1>6. CASE expire
  BY <1>6 DEF expire
<1>7. ASSUME NEW n \in Numbers, handleBackupDelete(n)
      PROVE  \A k \in Numbers : dir'[k].kind = dir[k].kind
  BY <1>7 DEF handleBackupDelete
<1> QED
  BY <1>1, <1>2, <1>3, <1>4, <1>5, <1>6, <1>7 DEF BackupNext, BackupStep

\* The victims of a rotation were picked by it, or before.
LEMMA VictimsStay ==
    ASSUME BackupTypeOK, [BackupNext]_backupVars,
           NEW a \in Admins, NEW n \in admin'[a].victims, n \notin admin[a].victims
    PROVE  n \in Expendable
<1> USE DEF BackupTypeOK, AdminIdle, Go
<1>1. CASE UNCHANGED backupVars
  BY <1>1 DEF backupVars
<1>2. ASSUME NEW b \in Admins, NEW kind \in {"scheduled", "manual"}, begin(b, kind) PROVE FALSE
  BY <1>2 DEF begin
<1>3. ASSUME NEW b \in Admins, acquire(b) PROVE FALSE
  BY <1>3 DEF acquire, openPartial
<1>4. ASSUME NEW b \in Admins, renew(b) \/ dump(b) \/ fail(b) \/ upload(b) \/ rotateEnds(b)
      PROVE  FALSE
  BY <1>4 DEF renew, dump, fail, upload, rotateEnds
<1>5. ASSUME NEW b \in Admins, writeMeta(b) PROVE FALSE
  BY <1>5 DEF writeMeta
<1>6. ASSUME NEW b \in Admins, rotate(b) PROVE n \in Expendable
  BY <1>6 DEF rotate
<1>7. ASSUME NEW b \in Admins, Delete(b) PROVE FALSE
  BY <1>7 DEF Delete
<1>8. ASSUME NEW b \in Admins, release(b) \/ DeleteInterrupted(b) \/ BackupCrash(b) PROVE FALSE
  BY <1>8 DEF release, DeleteInterrupted, BackupCrash
<1>9. CASE expire
  BY <1>9 DEF expire
<1>10. ASSUME NEW k \in Numbers, handleBackupDelete(k) PROVE FALSE
  BY <1>10 DEF handleBackupDelete
<1> QED
  BY <1>1, <1>2, <1>3, <1>4, <1>5, <1>6, <1>7, <1>8, <1>9, <1>10 DEF BackupNext, BackupStep

\* A rotation deletes its victims only.
LEMMA RotatedVictims ==
    ASSUME BackupTypeOK, [BackupNext]_backupVars, NEW n \in rotated', n \notin rotated
    PROVE  \E a \in Admins : n \in admin[a].victims
<1>1. CASE UNCHANGED backupVars
  BY <1>1 DEF backupVars
<1>2. ASSUME NEW a \in Admins, Delete(a) \/ DeleteInterrupted(a)
      PROVE  n \in admin[a].victims
  BY <1>2 DEF Delete, DeleteInterrupted
<1>3. ASSUME NEW a \in Admins, BackupStep(a) \/ BackupCrash(a), ~Delete(a) PROVE FALSE
  BY <1>3 DEF BackupStep, acquire, renew, dump, fail, writeMeta, upload, rotate, rotateEnds,
              release, BackupCrash
<1>4. ASSUME NEW a \in Admins, NEW kind \in {"scheduled", "manual"}, begin(a, kind) PROVE FALSE
  BY <1>4 DEF begin
<1>5. CASE expire
  BY <1>5 DEF expire
<1>6. ASSUME NEW k \in Numbers, handleBackupDelete(k) PROVE FALSE
  BY <1>6 DEF handleBackupDelete
<1> QED
  BY <1>1, <1>2, <1>3, <1>4, <1>5, <1>6 DEF BackupNext

\* Every step keeps the rotations to what is outlived.
LEMMA RotationStep ==
    BackupInv /\ [BackupNext]_backupVars => VictimsInv' /\ NewestKept'
<1> SUFFICES ASSUME BackupInv, [BackupNext]_backupVars PROVE VictimsInv' /\ NewestKept'
  OBVIOUS
<1> USE DEF BackupInv
<1>1. ASSUME NEW n \in Numbers, Outlived(n) PROVE Outlived(n)'
  BY <1>1, KindsStay, OutlivedStays
<1>2. BackupTypeOK'
  BY BackupTypeStep
<1>3. ASSUME NEW a \in Admins, NEW n \in admin'[a].victims PROVE Outlived(n)'
  <2>1. CASE n \in admin[a].victims
    BY <1>1, <2>1 DEF VictimsInv, BackupTypeOK
  <2>2. CASE n \notin admin[a].victims
    BY <1>1, <2>2, VictimsStay, ExpendableOutlived
  <2> QED
    BY <2>1, <2>2
<1>4. ASSUME NEW n \in rotated' PROVE Outlived(n)'
  <2>1. CASE n \in rotated
    BY <1>1, <2>1 DEF NewestKept, Outlived, BackupsSound, BackupTypeOK
  <2>2. CASE n \notin rotated
    <3>1. PICK a \in Admins : n \in admin[a].victims
      BY <2>2, RotatedVictims
    <3> QED
      BY <1>1, <3>1 DEF VictimsInv, BackupTypeOK
  <2> QED
    BY <2>1, <2>2
<1>5. VictimsInv'
  BY <1>3 DEF VictimsInv
<1>6. NewestKept'
  BY <1>4 DEF NewestKept, Outlived
<1> QED
  BY <1>5, <1>6

\* Servers that lose their lease, fail or die in any number leave one backup
\* at a time, a list that tells the truth, and the newest Keep scheduled
\* backups in place (backup/runner.go).
THEOREM BackupsKept == BackupSpec => [](BackupTypeOK /\ BackupsSound)
<1>1. BackupInv => BackupTypeOK /\ BackupsSound
  BY DEF BackupInv
<1>2. BackupInv /\ [BackupNext]_backupVars => BackupInv'
  BY BackupTypeStep, NamesStep, OneBackupStep, WriterStep, MetaStep, RotationStep
     DEF BackupInv, BackupsSound, DirInv
<1> QED
  BY <1>1, <1>2, BackupStarts, PTL DEF BackupSpec

(***************************************************************************)
(* The blob cache.  Sequences first.                                       *)
(***************************************************************************)
\* A list without its i-th element.
LEMMA Removal ==
    ASSUME NEW S, NEW s \in Seq(S), NEW i \in 1 .. Len(s)
    PROVE  /\ RemoveAt(s, i) \in Seq(S)
           /\ Len(RemoveAt(s, i)) = Len(s) - 1
           /\ \A k \in 1 .. Len(s) - 1 : RemoveAt(s, i)[k] = IF k < i THEN s[k] ELSE s[k + 1]
<1> DEFINE a == SubSeq(s, 1, i - 1)
           b == SubSeq(s, i + 1, Len(s))
<1>1. a \in Seq(S) /\ Len(a) = i - 1 /\ \A k \in 1 .. i - 1 : a[k] = s[k]
  OBVIOUS
<1>2. b \in Seq(S) /\ Len(b) = Len(s) - i /\ \A k \in 1 .. Len(s) - i : b[k] = s[k + i]
  OBVIOUS
<1>3. RemoveAt(s, i) = a \o b
  BY DEF RemoveAt
<1> HIDE DEF a, b
<1>0. Len(s) \in Nat /\ i \in Nat
  OBVIOUS
<1>4. a \o b \in Seq(S) /\ Len(a \o b) = Len(s) - 1
  <2>0. a \in Seq(S) /\ b \in Seq(S)
    BY <1>1, <1>2
  <2>1. a \o b \in Seq(S) /\ Len(a \o b) = Len(a) + Len(b)
    BY ONLY <2>0
  <2>2. Len(a) + Len(b) = Len(s) - 1
    BY <1>0, <1>1, <1>2
  <2> QED
    BY <2>1, <2>2
<1>5. ASSUME NEW k \in 1 .. Len(s) - 1 PROVE (a \o b)[k] = IF k < i THEN s[k] ELSE s[k + 1]
  <2>1. CASE k < i
    BY <1>1, <1>2, <2>1
  <2>2. CASE k >= i
    <3>0. ~(k < i)
      BY <1>0, <2>2
    <3>1. (a \o b)[k] = b[k - (i - 1)]
      BY <1>1, <1>2, <2>2
    <3>2. k - (i - 1) \in 1 .. Len(s) - i /\ (k - (i - 1)) + i = k + 1
      BY <2>2
    <3>3. (a \o b)[k] = s[k + 1]
      BY <1>2, <3>1, <3>2
    <3> QED
      BY <3>0, <3>3
  <2>3. k < i \/ k >= i
    BY <1>0
  <2> QED
    BY <2>1, <2>2, <2>3
<1> QED
  BY <1>3, <1>4, <1>5

\* No blob is in a list twice.
OnceEach(s) == \A i, j \in 1 .. Len(s) : s[i] = s[j] => i = j

\* Taking a blob out of the index leaves the others, in their order.
LEMMA WithoutFacts ==
    ASSUME lru \in Seq(Blobs), OnceEach(lru), NEW d \in Blobs
    PROVE  /\ Without(d) \in Seq(Blobs)
           /\ Len(Without(d)) <= Len(lru)
           /\ d \in Indexed => Len(Without(d)) = Len(lru) - 1
           /\ OnceEach(Without(d))
           /\ \A i \in 1 .. Len(Without(d)) : Without(d)[i] \in Indexed \ {d}
           /\ ToSet(Without(d)) \subseteq Indexed \ {d}
<1>1. CASE d \notin Indexed
  BY <1>1 DEF Without, Indexed, ToSet
<1>2. CASE d \in Indexed
  <2>1. PICK i \in 1 .. Len(lru) : lru[i] = d /\ Without(d) = RemoveAt(lru, i)
    <3>1. \E i \in DOMAIN lru : lru[i] = d
      BY <1>2 DEF Indexed, ToSet
    <3>2. DOMAIN lru = 1 .. Len(lru)
      OBVIOUS
    <3> QED
      BY <1>2, <3>1, <3>2 DEF Without
  <2> DEFINE w == RemoveAt(lru, i)
  <2>2. /\ w \in Seq(Blobs) /\ Len(w) = Len(lru) - 1
        /\ \A k \in 1 .. Len(lru) - 1 : w[k] = IF k < i THEN lru[k] ELSE lru[k + 1]
    BY Removal
  <2> HIDE DEF w
  <2>3. OnceEach(w)
    BY <2>1, <2>2 DEF OnceEach
  <2>4. \A k \in 1 .. Len(w) : w[k] \in Indexed \ {d}
    <3>1. SUFFICES ASSUME NEW k \in 1 .. Len(w) PROVE w[k] \in Indexed \ {d}
      OBVIOUS
    <3>2. PICK m \in 1 .. Len(lru) : w[k] = lru[m] /\ m # i
      BY <2>2
    <3> QED
      BY <2>1, <3>2 DEF OnceEach, Indexed, ToSet
  <2>5. ToSet(w) \subseteq Indexed \ {d}
    BY <2>2, <2>4 DEF ToSet
  <2>6. Without(d) = w
    BY <2>1 DEF w
  <2> QED
    BY <2>2, <2>3, <2>4, <2>5, <2>6
<1> QED
  BY <1>1, <1>2

\* The list with a blob in front, and what eviction leaves of a list.
LEMMA FrontFacts ==
    ASSUME lru \in Seq(Blobs), OnceEach(lru), NEW d \in Blobs
    PROVE  /\ MoveToFront(d) \in Seq(Blobs)
           /\ OnceEach(MoveToFront(d))
           /\ Len(MoveToFront(d)) <= Len(lru) + 1
           /\ d \in Indexed => Len(MoveToFront(d)) = Len(lru)
           /\ ToSet(MoveToFront(d)) \subseteq Indexed \cup {d}
<1> DEFINE w == Without(d)
<1>1. /\ w \in Seq(Blobs) /\ Len(w) <= Len(lru) /\ OnceEach(w)
      /\ d \in Indexed => Len(w) = Len(lru) - 1
      /\ \A i \in 1 .. Len(w) : w[i] \in Indexed \ {d}
  BY WithoutFacts
<1>2. MoveToFront(d) = <<d>> \o w
  BY DEF MoveToFront
<1> HIDE DEF w
<1> DEFINE m == <<d>> \o w
<1>3. m \in Seq(Blobs) /\ Len(m) = Len(w) + 1
  BY <1>1
<1>4. m[1] = d /\ \A i \in 2 .. Len(w) + 1 : m[i] = w[i - 1]
  BY <1>1
<1> HIDE DEF m
<1>5. OnceEach(m)
  <2> SUFFICES ASSUME NEW i \in 1 .. Len(m), NEW j \in 1 .. Len(m), m[i] = m[j] PROVE i = j
    BY DEF OnceEach
  <2>1. CASE i = 1 /\ j # 1
    <3>1. j - 1 \in 1 .. Len(w) /\ m[j] = w[j - 1]
      BY <1>1, <1>3, <1>4, <2>1
    <3> QED
      BY <1>1, <1>4, <2>1, <3>1
  <2>2. CASE j = 1 /\ i # 1
    <3>1. i - 1 \in 1 .. Len(w) /\ m[i] = w[i - 1]
      BY <1>1, <1>3, <1>4, <2>2
    <3> QED
      BY <1>1, <1>4, <2>2, <3>1
  <2>3. CASE i # 1 /\ j # 1
    <3>1. i - 1 \in 1 .. Len(w) /\ m[i] = w[i - 1] /\ j - 1 \in 1 .. Len(w) /\ m[j] = w[j - 1]
      BY <1>1, <1>3, <1>4, <2>3
    <3>2. w[i - 1] = w[j - 1] => i - 1 = j - 1
      BY <1>1, <3>1 DEF OnceEach
    <3>3. i - 1 = j - 1 => i = j
      BY <1>3
    <3> QED
      BY <3>1, <3>2, <3>3
  <2> QED
    BY <2>1, <2>2, <2>3
<1>6. ToSet(m) \subseteq Indexed \cup {d}
  <2> SUFFICES ASSUME NEW i \in 1 .. Len(m) PROVE m[i] \in Indexed \cup {d}
    BY <1>3 DEF ToSet
  <2>1. CASE i = 1
    BY <1>4, <2>1
  <2>2. CASE i # 1
    <3>1. i - 1 \in 1 .. Len(w) /\ m[i] = w[i - 1]
      BY <1>1, <1>3, <1>4, <2>2
    <3> QED
      BY <1>1, <3>1
  <2> QED
    BY <2>1, <2>2
<1>7. Len(lru) \in Nat /\ Len(w) \in Nat
  BY <1>1
<1>8. MoveToFront(d) = m
  BY <1>2 DEF m
<1> QED
  BY <1>1, <1>3, <1>5, <1>6, <1>7, <1>8

\* What eviction leaves fits, and is there once.
LEMMA EvictionFacts ==
    ASSUME NEW s \in Seq(Blobs), OnceEach(s)
    PROVE  /\ evictLocked(s) \in Seq(Blobs)
           /\ OnceEach(evictLocked(s))
           /\ Len(evictLocked(s)) <= MaxBytes \/ Len(evictLocked(s)) <= 1
           /\ ToSet(evictLocked(s)) \subseteq ToSet(s)
<1> DEFINE n == IF MaxBytes < 1 THEN 1 ELSE MaxBytes
<1>1. n \in Nat /\ n >= 1 /\ (n = MaxBytes \/ n = 1)
  BY BlobCacheAssumption
<1>2. evictLocked(s) = IF Len(s) <= n THEN s ELSE SubSeq(s, 1, n)
  BY DEF evictLocked
<1> HIDE DEF n
<1>3. CASE Len(s) <= n
  BY <1>1, <1>2, <1>3
<1>4. CASE ~(Len(s) <= n)
  <2> DEFINE e == SubSeq(s, 1, n)
  <2>1. Len(s) \in Nat /\ n < Len(s)
    BY <1>1, <1>4
  <2>2. e \in Seq(Blobs) /\ Len(e) = n /\ \A i \in 1 .. n : e[i] = s[i]
    BY <1>1, <2>1
  <2> HIDE DEF e
  <2>3. OnceEach(e)
    BY <1>1, <2>1, <2>2 DEF OnceEach
  <2>4. ToSet(e) \subseteq ToSet(s)
    BY <1>1, <2>1, <2>2 DEF ToSet
  <2>5. evictLocked(s) = e
    BY <1>2, <1>4 DEF e
  <2> QED
    BY <1>1, <2>2, <2>3, <2>4, <2>5
<1> QED
  BY <1>3, <1>4

\* The threads of the cache.
ThreadStates == {Idle(e) : e \in Ends} \cup Active

\* What a step does to the threads keeps their type: a thread goes on, it
\* returns, a call ends for those that share it, and a loss is recorded.
LEMMA Goes ==
    ASSUME CacheTypeOK, NEW t \in Threads, thread[t].at # "idle", NEW step \in Steps, Goto(t, step)
    PROVE  thread' \in [Threads -> ThreadStates]
<1>1. thread[t] \in Active
  BY DEF CacheTypeOK, Idle
<1>2. [thread[t] EXCEPT !.at = step] \in Active
  BY <1>1 DEF Active
<1>3. thread' = [thread EXCEPT ![t] = [thread[t] EXCEPT !.at = step]]
  BY DEF Goto
<1> QED
  BY <1>2, <1>3 DEF CacheTypeOK, ThreadStates

\* A thread that ends keeps the types.
LEMMA Returns ==
    ASSUME CacheTypeOK, NEW t \in Threads, NEW e \in Ends, End(t, e)
    PROVE  thread' \in [Threads -> ThreadStates]
<1>1. Idle(e) \in ThreadStates
  BY DEF ThreadStates
<1> QED
  BY <1>1 DEF End, CacheTypeOK, ThreadStates

\* A download that closes keeps the types.
LEMMA Closes ==
    ASSUME CacheTypeOK, NEW t \in Threads, thread[t].at # "idle", NEW ok \in BOOLEAN, Close(t, ok)
    PROVE  thread' \in [Threads -> ThreadStates] /\ call' \in [Blobs -> BOOLEAN]
<1>1. Idle("failed") \in ThreadStates
  BY DEF ThreadStates, Ends
<1>2. ASSUME NEW u \in Threads, thread[u].at # "idle"
      PROVE  [thread[u] EXCEPT !.at = "fetch"] \in ThreadStates
  <2>1. thread[u] \in Active
    BY <1>2 DEF CacheTypeOK, Idle
  <2> QED
    BY <2>1 DEF Active, Steps, ThreadStates
<1>3. ASSUME NEW u \in Threads PROVE thread'[u] \in ThreadStates
  BY <1>1, <1>2, <1>3 DEF Close, At, CacheTypeOK, ThreadStates
<1>4. thread' = [u \in Threads |-> thread'[u]]
  BY DEF Close
<1>5. call' \in [Blobs -> BOOLEAN]
  BY DEF Close, CacheTypeOK
<1> QED
  BY <1>3, <1>4, <1>5

\* Recording a loss changes the history of the threads only.
LEMMA Records ==
    ASSUME CacheTypeOK, NEW gone
    PROVE  /\ Counted(gone) \in [Threads -> ThreadStates]
           /\ \A u \in Threads :
                 /\ Counted(gone)[u].at = thread[u].at
                 /\ thread[u].at # "idle" =>
                       /\ Counted(gone)[u] \in Active
                       /\ Counted(gone)[u].op = thread[u].op
                       /\ Counted(gone)[u].blob = thread[u].blob
                       /\ Counted(gone)[u].tries = thread[u].tries
                       /\ Counted(gone)[u].removed >= thread[u].removed
                       /\ thread[u].op = "open" /\ thread[u].blob \in gone =>
                             Counted(gone)[u].removed > thread[u].removed
                               \/ Counted(gone)[u].removed = OpenTries
<1> SUFFICES ASSUME NEW u \in Threads
    PROVE  /\ Counted(gone)[u] \in ThreadStates
           /\ Counted(gone)[u].at = thread[u].at
           /\ thread[u].at # "idle" =>
                       /\ Counted(gone)[u] \in Active
                       /\ Counted(gone)[u].op = thread[u].op
                       /\ Counted(gone)[u].blob = thread[u].blob
                       /\ Counted(gone)[u].tries = thread[u].tries
                       /\ Counted(gone)[u].removed >= thread[u].removed
                       /\ thread[u].op = "open" /\ thread[u].blob \in gone =>
                             Counted(gone)[u].removed > thread[u].removed
                               \/ Counted(gone)[u].removed = OpenTries
  BY DEF Counted
<1>1. CASE thread[u].at = "idle"
  BY <1>1 DEF Counted, CacheTypeOK, ThreadStates
<1>2. CASE thread[u].at # "idle"
  <2>1. thread[u] \in Active
    BY <1>2 DEF CacheTypeOK, Idle
  <2>2. CASE thread[u].op = "open" /\ thread[u].blob \in gone /\ thread[u].removed < OpenTries
    <3>1. Counted(gone)[u] = [thread[u] EXCEPT !.removed = thread[u].removed + 1]
      BY <1>2, <2>2 DEF Counted
    <3>2. thread[u].removed \in Nat /\ thread[u].removed + 1 \in 0 .. OpenTries
      BY <2>1, <2>2, BlobCacheAssumption DEF Active
    <3>3. Counted(gone)[u] \in Active
      BY <2>1, <3>1, <3>2 DEF Active
    <3> QED
      BY <2>1, <3>1, <3>2, <3>3 DEF Active, ThreadStates
  <2>3. CASE ~(thread[u].op = "open" /\ thread[u].blob \in gone /\ thread[u].removed < OpenTries)
    <3>1. Counted(gone)[u] = thread[u]
      BY <2>3 DEF Counted
    <3>2. thread[u].removed \in 0 .. OpenTries
      BY <2>1 DEF Active
    <3>3. thread[u].removed < OpenTries \/ thread[u].removed = OpenTries
      BY <3>2, BlobCacheAssumption
    <3> QED
      BY <2>1, <2>3, <3>1, <3>2, <3>3, BlobCacheAssumption DEF ThreadStates
  <2> QED
    BY <2>2, <2>3
<1> QED
  BY <1>1, <1>2

\* The cache holds finitely many files.
FilesFinite == IsFiniteSet(files)

\* Which operation a thread is in follows from where it is.
OpsMatch ==
    \A t \in Threads :
        /\ thread[t].at \in {"fetch", "download", "return", "wait", "open", "forget"} =>
              thread[t].op = "open"
        /\ thread[t].at \in {"store", "contains"} => thread[t].op = "put"

\* An attempt that is about to be lost has a cause in the history.
RetriesOwed ==
    \A t \in Threads :
        LET d == thread[t].blob
        IN  /\ thread[t].at # "idle" /\ thread[t].op = "open"
            /\ \/ thread[t].at = "forget"
               \/ d \notin files /\ (thread[t].at = "open" \/ d \in Indexed)
            => thread[t].tries <= thread[t].removed

CacheInv ==
    /\ CacheTypeOK /\ FilesFinite /\ CacheBounded
    /\ OpsMatch /\ OneDownload
    /\ RetriesEarned /\ RetriesOwed

\* The cache is empty at first.
LEMMA CacheStarts == CacheInit => CacheInv
<1> SUFFICES ASSUME CacheInit PROVE CacheInv
  OBVIOUS
<1> USE BlobCacheAssumption DEF CacheInit
<1>1. CacheTypeOK
  BY DEF CacheTypeOK, Idle, Ends
<1>2. FilesFinite
  BY FS_EmptySet DEF FilesFinite
<1>3. CacheBounded
  BY DEF CacheBounded, IsInjective
<1>4. \A t \in Threads : thread[t].at = "idle"
  BY DEF Idle
<1>5. OpsMatch /\ RetriesEarned /\ RetriesOwed
  BY <1>4 DEF OpsMatch, RetriesEarned, RetriesOwed
<1>6. OneDownload
  BY <1>4 DEF OneDownload, At
<1> QED
  BY <1>1, <1>2, <1>3, <1>5, <1>6 DEF CacheInv

\* The blob of a thread at work.
LEMMA BlobTyped ==
    ASSUME CacheTypeOK, NEW t \in Threads, thread[t].at # "idle"
    PROVE  thread[t] \in Active /\ thread[t].blob \in Blobs
<1>1. thread[t] \in Active
  BY DEF CacheTypeOK, Idle
<1> QED
  BY <1>1 DEF Active

\* Every step keeps the index within the size of the cache, and each blob in
\* it once.
LEMMA IndexStep ==
    ASSUME CacheInv, [CacheNext]_cacheVars
    PROVE  lru' \in Seq(Blobs) /\ CacheBounded'
<1> DEFINE Fits(s) == /\ s \in Seq(Blobs) /\ OnceEach(s)
                      /\ Len(s) <= MaxBytes \/ Len(s) <= 1
<1>1. ASSUME NEW s, Fits(s) PROVE IsInjective(s)
  BY <1>1 DEF IsInjective, OnceEach
<1>2. SUFFICES Fits(lru')
  BY <1>1 DEF CacheBounded
<1>3. Fits(lru)
  BY DEF CacheInv, CacheBounded, IsInjective, OnceEach, CacheTypeOK
<1>4. Len(lru) \in Nat
  BY <1>3
<1>5. CacheTypeOK
  BY DEF CacheInv
<1>6. ASSUME NEW d \in Blobs PROVE Fits(Without(d))
  <2>1. Without(d) \in Seq(Blobs) /\ Len(Without(d)) <= Len(lru) /\ OnceEach(Without(d))
    BY <1>3, WithoutFacts
  <2> QED
    BY <1>3, <1>4, <2>1, BlobCacheAssumption
<1>7. ASSUME NEW d \in Indexed, d \in Blobs PROVE Fits(MoveToFront(d))
  BY <1>3, <1>7, FrontFacts
<1>8. ASSUME NEW d \in Blobs PROVE Fits(evictLocked(MoveToFront(d)))
  BY <1>3, FrontFacts, EvictionFacts
<1> HIDE DEF Fits
<1>9. CASE UNCHANGED lru
  BY <1>3, <1>9
<1>10. ASSUME NEW t \in Threads, Fetch(t) PROVE Fits(lru')
  BY <1>3, <1>5, <1>7, <1>10, BlobTyped DEF Fetch, At
<1>11. ASSUME NEW t \in Threads, insert(t) PROVE Fits(lru')
  BY <1>5, <1>7, <1>8, <1>11, BlobTyped DEF insert, At
<1>12. ASSUME NEW t \in Threads, forget(t) \/ DeleteEntry(t) PROVE Fits(lru')
  BY <1>5, <1>6, <1>12, BlobTyped DEF forget, DeleteEntry, At
<1>13. ASSUME NEW t \in Threads, NEW op \in Ops, NEW d \in Blobs, Call(t, op, d) PROVE UNCHANGED lru
  BY <1>13 DEF Call
<1>14. ASSUME NEW t \in Threads,
              \/ download(t) \/ Rename(t) \/ Return(t) \/ OpenFile(t) \/ Put(t)
              \/ KeepLocally(t) \/ DeleteFile(t) \/ DeleteBlob(t) \/ Cancel(t)
       PROVE  UNCHANGED lru
  BY <1>14 DEF download, Rename, Return, OpenFile, Put, KeepLocally, DeleteFile, DeleteBlob, Cancel
<1>15. CASE NewCache
  <2>1. PICK seq \in SetToSeqs(files) : lru' = evictLocked(seq)
    BY <1>15 DEF NewCache
  <2>2. Cardinality(files) \in Nat /\ files \subseteq Blobs
    BY FS_CardinalityType DEF CacheInv, FilesFinite, CacheTypeOK
  <2>3. seq \in Seq(Blobs) /\ OnceEach(seq)
    BY <2>2 DEF SetToSeqs, OnceEach
  <2> QED
    BY <2>1, <2>3, EvictionFacts DEF Fits
<1>16. CASE UNCHANGED cacheVars
  BY <1>9, <1>16 DEF cacheVars
<1> QED
  BY <1>9, <1>10, <1>11, <1>12, <1>13, <1>14, <1>15, <1>16 DEF CacheNext, Step

\* Every step keeps the types.
LEMMA CacheTypeStep ==
    ASSUME CacheInv, [CacheNext]_cacheVars
    PROVE  CacheTypeOK' /\ FilesFinite'
<1> DEFINE Typed == /\ files' \in SUBSET Blobs /\ backend' \in SUBSET Blobs
                    /\ call' \in [Blobs -> BOOLEAN]
                    /\ thread' \in [Threads -> ThreadStates]
                    /\ started' \in 0 .. MaxCalls
                    /\ FilesFinite'
<1>0. SUFFICES Typed
  BY IndexStep DEF CacheTypeOK, ThreadStates
<1>1. CacheTypeOK /\ FilesFinite
  BY DEF CacheInv
<1>2. /\ files \in SUBSET Blobs /\ backend \in SUBSET Blobs /\ call \in [Blobs -> BOOLEAN]
      /\ thread \in [Threads -> ThreadStates] /\ started \in 0 .. MaxCalls
  BY <1>1 DEF CacheTypeOK, ThreadStates
<1>3. ASSUME NEW x, files' = files \ x PROVE FilesFinite'
  BY <1>1, <1>3, FS_Subset DEF FilesFinite
<1>4. ASSUME UNCHANGED files PROVE FilesFinite'
  BY <1>1, <1>4 DEF FilesFinite
<1>5. CASE UNCHANGED cacheVars
  BY <1>2, <1>4, <1>5 DEF cacheVars
<1>6. ASSUME NEW t \in Threads, NEW op \in Ops, NEW d \in Blobs, Call(t, op, d) PROVE Typed
  <2> DEFINE r == [at |-> CASE op = "open" -> "fetch" [] op = "put" -> "store"
                            [] op = "delete" -> "drop",
                   op |-> op, blob |-> d, tries |-> 0, removed |-> 0]
  <2>1. r \in Active
    BY BlobCacheAssumption DEF Active, Ops, Steps
  <2>2. thread' = [thread EXCEPT ![t] = r]
    BY <1>6 DEF Call
  <2> HIDE DEF r
  <2>3. thread' \in [Threads -> ThreadStates]
    BY <1>2, <2>1, <2>2 DEF ThreadStates
  <2>4. started' \in 0 .. MaxCalls
    BY <1>2, <1>6, BlobCacheAssumption DEF Call
  <2>5. UNCHANGED <<files, backend, call>>
    BY <1>6 DEF Call
  <2> QED
    BY <1>2, <1>4, <2>3, <2>4, <2>5
<1>7. ASSUME NEW t \in Threads, Fetch(t) PROVE Typed
  <2>1. thread[t].at # "idle" /\ UNCHANGED <<files, backend, started>>
    BY <1>7 DEF Fetch, At
  <2>2. \E step \in Steps : Goto(t, step)
    BY <1>7 DEF Fetch, Steps
  <2>3. thread' \in [Threads -> ThreadStates]
    BY <1>1, <2>1, <2>2, Goes
  <2>4. call' \in [Blobs -> BOOLEAN]
    BY <1>2, <1>7 DEF Fetch
  <2> QED
    BY <1>2, <1>4, <2>1, <2>3, <2>4
<1>8. ASSUME NEW t \in Threads, download(t) \/ Return(t) PROVE Typed
  <2>1. thread[t].at # "idle" /\ UNCHANGED <<files, backend, started>>
    BY <1>8 DEF download, Return, At
  <2>2. (Goto(t, "rename") /\ UNCHANGED call) \/ Close(t, FALSE) \/ Close(t, TRUE)
    BY <1>8 DEF download, Return
  <2>3. "rename" \in Steps
    BY DEF Steps
  <2>4. thread' \in [Threads -> ThreadStates] /\ call' \in [Blobs -> BOOLEAN]
    BY <1>1, <1>2, <2>1, <2>2, <2>3, Goes, Closes
  <2> QED
    BY <1>2, <1>4, <2>1, <2>4
<1>9. ASSUME NEW t \in Threads, Rename(t) PROVE Typed
  <2>1. /\ thread[t].at # "idle" /\ UNCHANGED <<backend, call, started>>
        /\ files' = files \cup {thread[t].blob} /\ Goto(t, "enter")
    BY <1>9 DEF Rename, At, Others
  <2>2. "enter" \in Steps
    BY DEF Steps
  <2>3. thread' \in [Threads -> ThreadStates]
    BY <1>1, <2>1, <2>2, Goes
  <2>4. FilesFinite'
    BY <1>1, <2>1, FS_AddElement DEF FilesFinite
  <2> QED
    BY <1>1, <1>2, <2>1, <2>3, <2>4, BlobTyped
<1>10. ASSUME NEW t \in Threads, insert(t) PROVE Typed
  <2>1. PICK gone, evicted :
          /\ thread[t].at # "idle" /\ UNCHANGED <<backend, call, started>>
          /\ files' = files \ evicted
          /\ thread' = [Counted(gone) EXCEPT ![t] =
                IF thread[t].op = "open" THEN [Counted(gone)[t] EXCEPT !.at = "return"] ELSE Idle("done")]
    BY <1>10, Zenon DEF insert, At
  <2>2. Counted(gone) \in [Threads -> ThreadStates] /\ Counted(gone)[t] \in Active
    BY <1>1, <2>1, Records
  <2>3. [Counted(gone)[t] EXCEPT !.at = "return"] \in Active
    BY <2>2 DEF Active, Steps
  <2>4. Idle("done") \in ThreadStates
    BY DEF ThreadStates, Ends
  <2>5. thread' \in [Threads -> ThreadStates]
    BY <2>1, <2>2, <2>3, <2>4 DEF ThreadStates
  <2> QED
    BY <1>2, <1>3, <2>1, <2>5
<1>11. ASSUME NEW t \in Threads, OpenFile(t) \/ KeepLocally(t) PROVE Typed
  <2>1. thread[t].at # "idle" /\ UNCHANGED <<files, backend, call, started>>
    BY <1>11 DEF OpenFile, KeepLocally, At, Others
  <2>2. \/ End(t, "done") \/ Goto(t, "forget") \/ Goto(t, "rename")
    BY <1>11 DEF OpenFile, KeepLocally
  <2>3. "done" \in Ends /\ "forget" \in Steps /\ "rename" \in Steps
    BY DEF Ends, Steps
  <2>4. thread' \in [Threads -> ThreadStates]
    BY <1>1, <2>1, <2>2, <2>3, Goes, Returns
  <2> QED
    BY <1>2, <1>4, <2>1, <2>4
<1>12. ASSUME NEW t \in Threads, forget(t) PROVE Typed
  <2>1. thread[t].at # "idle" /\ UNCHANGED <<files, backend, call, started>>
    BY <1>12 DEF forget, At, Others
  <2>2. thread[t] \in Active
    BY <1>1, <2>1, BlobTyped
  <2>3. CASE End(t, "evicted")
    BY <1>1, <1>2, <1>4, <2>1, <2>3, Returns DEF Ends
  <2>4. CASE ~End(t, "evicted")
    <3>1. /\ thread[t].tries + 1 # OpenTries
          /\ thread' = [thread EXCEPT ![t].at = "fetch", ![t].tries = thread[t].tries + 1]
      BY <1>12, <2>4 DEF forget
    <3>2. thread[t].tries + 1 \in 0 .. OpenTries - 1
      BY <2>2, <3>1, BlobCacheAssumption DEF Active
    <3>3. [thread[t] EXCEPT !.at = "fetch", !.tries = thread[t].tries + 1] \in Active
      BY <2>2, <3>2 DEF Active, Steps
    <3>4. thread' = [thread EXCEPT ![t] = [thread[t] EXCEPT !.at = "fetch", !.tries = thread[t].tries + 1]]
      BY <1>2, <3>1
    <3>5. thread' \in [Threads -> ThreadStates]
      BY <1>2, <3>3, <3>4 DEF ThreadStates
    <3> QED
      BY <1>2, <1>4, <2>1, <3>5
  <2> QED
    BY <2>3, <2>4
<1>13. ASSUME NEW t \in Threads, Put(t) \/ DeleteEntry(t) PROVE Typed
  <2>1. /\ thread[t].at # "idle" /\ UNCHANGED <<files, call, started>>
        /\ Goto(t, "contains") \/ Goto(t, "unlink")
    BY <1>13 DEF Put, DeleteEntry, At, Others
  <2>2. "contains" \in Steps /\ "unlink" \in Steps
    BY DEF Steps
  <2>3. thread' \in [Threads -> ThreadStates]
    BY <1>1, <2>1, <2>2, Goes
  <2>4. backend' \in SUBSET Blobs
    BY <1>1, <1>2, <1>13, <2>1, BlobTyped DEF Put, DeleteEntry, Others
  <2> QED
    BY <1>2, <1>4, <2>1, <2>3, <2>4
<1>14. ASSUME NEW t \in Threads, DeleteFile(t) PROVE Typed
  <2> DEFINE gone == {thread[t].blob}
  <2>1. /\ thread[t].at # "idle" /\ UNCHANGED <<backend, call, started>>
        /\ files' = files \ gone
        /\ thread' = [Counted(gone) EXCEPT ![t].at = "erase"]
    BY <1>14 DEF DeleteFile, At, Others
  <2>2. Counted(gone) \in [Threads -> ThreadStates] /\ Counted(gone)[t] \in Active
    BY <1>1, <2>1, Records
  <2>3. [Counted(gone)[t] EXCEPT !.at = "erase"] \in Active
    BY <2>2 DEF Active, Steps
  <2>4. thread' \in [Threads -> ThreadStates]
    BY <2>1, <2>2, <2>3 DEF ThreadStates
  <2> QED
    BY <1>2, <1>3, <2>1, <2>4
<1>15. ASSUME NEW t \in Threads, DeleteBlob(t) PROVE Typed
  <2>1. backend' \in SUBSET Blobs /\ End(t, "done") /\ UNCHANGED <<files, call, started>>
    BY <1>2, <1>15 DEF DeleteBlob
  <2>2. thread' \in [Threads -> ThreadStates]
    BY <1>1, <2>1, Returns DEF Ends
  <2> QED
    BY <1>2, <1>4, <2>1, <2>2
<1>16. ASSUME NEW t \in Threads, Cancel(t) PROVE Typed
  <2>1. thread[t].at # "idle" /\ UNCHANGED <<files, backend, started>>
    BY <1>16 DEF Cancel, At, Others
  <2>2. (End(t, "failed") /\ UNCHANGED call) \/ Close(t, FALSE)
    BY <1>16 DEF Cancel, Others
  <2>3. thread' \in [Threads -> ThreadStates] /\ call' \in [Blobs -> BOOLEAN]
    BY <1>1, <1>2, <2>1, <2>2, Returns, Closes DEF Ends
  <2> QED
    BY <1>2, <1>4, <2>1, <2>3
<1>17. CASE NewCache
  <2>1. PICK seq \in SetToSeqs(files) : files' = ToSet(evictLocked(seq))
    BY <1>17 DEF NewCache
  <2>2. Cardinality(files) \in Nat
    BY <1>1, FS_CardinalityType DEF FilesFinite
  <2>3. seq \in Seq(Blobs) /\ OnceEach(seq) /\ ToSet(seq) \subseteq files
    BY <1>2, <2>2 DEF SetToSeqs, OnceEach, ToSet
  <2>4. files' \subseteq files
    BY <2>1, <2>3, EvictionFacts
  <2>5. FilesFinite'
    BY <1>1, <2>4, FS_Subset DEF FilesFinite
  <2>6. thread' \in [Threads -> ThreadStates] /\ call' \in [Blobs -> BOOLEAN]
    BY <1>17 DEF NewCache, ThreadStates, Ends
  <2>7. started' \in 0 .. MaxCalls /\ UNCHANGED backend
    BY <1>2, <1>17, BlobCacheAssumption DEF NewCache
  <2> QED
    BY <1>2, <2>4, <2>5, <2>6, <2>7
<1> QED
  BY <1>5, <1>6, <1>7, <1>8, <1>9, <1>10, <1>11, <1>12, <1>13, <1>14, <1>15, <1>16, <1>17
     DEF CacheNext, Step

\* What a step does to each thread.
Same(t) ==
    /\ thread'[t].op = thread[t].op /\ thread'[t].blob = thread[t].blob
    /\ thread'[t].tries = thread[t].tries /\ thread'[t].removed = thread[t].removed

\* A thread that moves on leaves the others.
LEMMA GoesTo ==
    ASSUME CacheTypeOK, NEW t \in Threads, thread[t].at # "idle", NEW step, Goto(t, step)
    PROVE  /\ \A u \in Threads \ {t} : thread'[u] = thread[u]
           /\ thread'[t].at = step /\ Same(t)
<1>1. thread[t] \in Active
  BY BlobTyped
<1>2. thread' = [thread EXCEPT ![t] = [thread[t] EXCEPT !.at = step]]
  BY DEF Goto
<1>3. thread'[t] = [thread[t] EXCEPT !.at = step]
  BY <1>2 DEF CacheTypeOK
<1>4. \A u \in Threads \ {t} : thread'[u] = thread[u]
  BY <1>2 DEF CacheTypeOK
<1>5. thread'[t].at = step /\ Same(t)
  BY <1>1, <1>3 DEF Active, Same
<1> QED
  BY <1>4, <1>5

\* A thread that ends leaves the others.
LEMMA EndsIdle ==
    ASSUME CacheTypeOK, NEW t \in Threads, NEW e, End(t, e)
    PROVE  (\A u \in Threads \ {t} : thread'[u] = thread[u]) /\ thread'[t].at = "idle"
BY DEF End, Idle, CacheTypeOK

\* A download that closes moves only who waited for it.
LEMMA ClosesFor ==
    ASSUME CacheTypeOK, NEW t \in Threads, thread[t].at # "idle", NEW ok \in BOOLEAN, Close(t, ok)
    PROVE  /\ call' = [call EXCEPT ![thread[t].blob] = FALSE]
           /\ \A u \in Threads :
                 \/ u # t /\ thread'[u] = thread[u]
                          /\ ~(thread[u].at = "wait" /\ thread[u].blob = thread[t].blob)
                 \/ /\ u = t \/ thread[u].at = "wait"
                    /\ \/ thread'[u].at = "idle"
                       \/ thread'[u].at = "fetch" /\ Same(u)
<1>1. call' = [call EXCEPT ![thread[t].blob] = FALSE]
  BY DEF Close
<1>2. SUFFICES ASSUME NEW u \in Threads
      PROVE  \/ u # t /\ thread'[u] = thread[u]
                      /\ ~(thread[u].at = "wait" /\ thread[u].blob = thread[t].blob)
             \/ /\ u = t \/ thread[u].at = "wait"
                /\ \/ thread'[u].at = "idle"
                   \/ thread'[u].at = "fetch" /\ Same(u)
  BY <1>1
<1>3. CASE u # t /\ ~(thread[u].at = "wait" /\ thread[u].blob = thread[t].blob)
  BY <1>3 DEF Close, At
<1>4. CASE u = t \/ (thread[u].at = "wait" /\ thread[u].blob = thread[t].blob)
  <2>1. thread[u] \in Active
    BY <1>4, BlobTyped
  <2>2. thread'[u] = IF ok THEN [thread[u] EXCEPT !.at = "fetch"] ELSE Idle("failed")
    BY <1>4 DEF Close, At
  <2>3. CASE ok
    <3>1. thread'[u] = [thread[u] EXCEPT !.at = "fetch"]
      BY <2>2, <2>3
    <3> QED
      BY <1>4, <2>1, <3>1 DEF Active, Same
  <2>4. CASE ~ok
    BY <1>4, <2>2, <2>4 DEF Idle
  <2> QED
    BY <2>3, <2>4
<1> QED
  BY <1>3, <1>4

\* A thread that downloads blob d, and one that waits for it.
Loads(t, d) ==
    /\ thread[t].at \in {"download", "rename", "enter", "return"}
    /\ thread[t].op = "open" /\ thread[t].blob = d

Waits(t, d) == thread[t].at = "wait" /\ thread[t].blob = d

\* OneDownload, said of the threads.
Shared(d) ==
    /\ call[d] <=> \E t \in Threads : Loads(t, d)
    /\ \A t, u \in Threads : Loads(t, d) /\ Loads(u, d) => t = u
    /\ \A t \in Threads : Waits(t, d) => call[d]

AllShared == \A d \in Blobs : Shared(d)

\* The invariant, thread by thread.
LEMMA SharedDownload == OneDownload <=> AllShared
<1>1. ASSUME NEW d \in Blobs
      PROVE  LET loading == {t \in Threads : thread[t].at \in {"download", "rename", "enter", "return"}
                                          /\ thread[t].op = "open" /\ thread[t].blob = d}
             IN  (/\ call[d] <=> loading # {}
                  /\ \A t, u \in loading : t = u
                  /\ (\E t \in Threads : At(t, "wait") /\ thread[t].blob = d) => call[d])
                 <=> Shared(d)
  <2> DEFINE loading == {t \in Threads : thread[t].at \in {"download", "rename", "enter", "return"}
                                          /\ thread[t].op = "open" /\ thread[t].blob = d}
  <2>1. loading = {t \in Threads : Loads(t, d)}
    BY DEF Loads
  <2> HIDE DEF loading
  <2>2. ((/\ call[d] <=> loading # {}
          /\ \A t, u \in loading : t = u
          /\ (\E t \in Threads : At(t, "wait") /\ thread[t].blob = d) => call[d])
         <=> Shared(d))
    BY <2>1 DEF Shared, Waits, At
  <2> QED
    BY <2>2 DEF loading
<1> QED
  BY <1>1, Zenon DEF OneDownload, AllShared

\* A step that leaves the calls, and who downloads and waits, as they are.
LEMMA Undisturbed ==
    ASSUME OneDownload, UNCHANGED call,
           \A d \in Blobs : \A u \in Threads :
               (Loads(u, d)' <=> Loads(u, d)) /\ (Waits(u, d)' => Waits(u, d))
    PROVE  OneDownload'
<1>1. ASSUME NEW d \in Blobs PROVE Shared(d)'
  <2>1. Shared(d)
    BY SharedDownload DEF AllShared
  <2> QED
    BY <2>1 DEF Shared
<1>2. AllShared' => OneDownload'
  BY SharedDownload, PTL
<1> QED
  BY <1>1, <1>2 DEF AllShared

\* Threads that stay where they are but for t.
LEMMA OneMoves ==
    ASSUME CacheInv, UNCHANGED call, NEW t \in Threads,
           \A u \in Threads \ {t} : /\ thread'[u].at = thread[u].at
                                    /\ thread[u].at # "idle" =>
                                          /\ thread'[u].op = thread[u].op
                                          /\ thread'[u].blob = thread[u].blob,
           \A d \in Blobs : (Loads(t, d)' <=> Loads(t, d)) /\ ~Waits(t, d)',
           thread'[t].at \in {"fetch", "download", "return", "wait", "open", "forget"}
               => thread'[t].op = "open",
           thread'[t].at \in {"store", "contains"} => thread'[t].op = "put"
    PROVE  OpsMatch' /\ OneDownload'
<1>1. OpsMatch'
  BY DEF CacheInv, OpsMatch
<1>2. ASSUME NEW u \in Threads \ {t}, NEW d \in Blobs
      PROVE  (Loads(u, d)' <=> Loads(u, d)) /\ (Waits(u, d)' => Waits(u, d))
  BY DEF Loads, Waits
<1>3. OneDownload'
  BY <1>2, Undisturbed DEF CacheInv
<1> QED
  BY <1>1, <1>3

\* A call that ends frees its blob and all that wait for it.
LEMMA CloseStep ==
    ASSUME CacheInv, NEW t \in Threads, thread[t].at \in {"download", "return"},
           NEW ok \in BOOLEAN, Close(t, ok)
    PROVE  OpsMatch' /\ OneDownload'
<1>1. CacheTypeOK /\ OpsMatch /\ OneDownload
  BY DEF CacheInv
<1> DEFINE b == thread[t].blob
<1>2. /\ call' = [call EXCEPT ![b] = FALSE]
      /\ \A u \in Threads :
            \/ u # t /\ thread'[u] = thread[u] /\ ~(thread[u].at = "wait" /\ thread[u].blob = b)
            \/ /\ u = t \/ thread[u].at = "wait"
               /\ \/ thread'[u].at = "idle"
                  \/ thread'[u].at = "fetch" /\ Same(u)
  BY <1>1, ClosesFor
<1>3. \A u \in Threads : u = t \/ thread[u].at = "wait" => thread[u].op = "open"
  BY <1>1 DEF OpsMatch
<1>4. OpsMatch'
  <2> SUFFICES ASSUME NEW u \in Threads
      PROVE  /\ thread'[u].at \in {"fetch", "download", "return", "wait", "open", "forget"} =>
                    thread'[u].op = "open"
             /\ thread'[u].at \in {"store", "contains"} => thread'[u].op = "put"
    BY DEF OpsMatch
  <2>1. CASE thread'[u] = thread[u]
    BY <1>1, <2>1 DEF OpsMatch
  <2>2. CASE thread'[u] # thread[u]
    BY <1>2, <1>3, <2>2 DEF Same
  <2> QED
    BY <2>1, <2>2
<1>5. b \in Blobs /\ Loads(t, b)
  BY <1>1, <1>3, BlobTyped DEF Loads
<1>6. ASSUME NEW u \in Threads, NEW d \in Blobs
      PROVE  /\ Loads(u, d)' <=> u # t /\ Loads(u, d)
             /\ Waits(u, d)' => Waits(u, d) /\ d # b
  BY <1>2 DEF Loads, Waits
<1>7. ASSUME NEW d \in Blobs PROVE Shared(d)'
  <2>1. Shared(d) /\ Shared(b)
    BY <1>1, <1>5, SharedDownload DEF AllShared
  <2>2. CASE d = b
    <3>1. call'[d] = FALSE
      BY <1>1, <1>2, <2>2 DEF CacheTypeOK
    <3>2. \A u \in Threads : ~Loads(u, d)' /\ ~Waits(u, d)'
      BY <1>5, <1>6, <2>1, <2>2 DEF Shared
    <3> QED
      BY <3>1, <3>2 DEF Shared
  <2>3. CASE d # b
    <3>1. call'[d] = call[d]
      BY <1>1, <1>2, <2>3 DEF CacheTypeOK
    <3>2. ~Loads(t, d)
      BY <2>3 DEF Loads
    <3>3. \A u \in Threads : (Loads(u, d)' <=> Loads(u, d)) /\ (Waits(u, d)' => Waits(u, d))
      BY <1>6, <3>2
    <3> QED
      BY <2>1, <3>1, <3>3 DEF Shared
  <2> QED
    BY <2>2, <2>3
<1>8. AllShared' => OneDownload'
  BY SharedDownload, PTL
<1> QED
  BY <1>4, <1>7, <1>8 DEF AllShared

\* Fetch joins the download of its blob, or begins the only one.
LEMMA FetchStep ==
    ASSUME CacheInv, NEW t \in Threads, Fetch(t)
    PROVE  OpsMatch' /\ OneDownload'
<1> DEFINE b == thread[t].blob
<1>1. CacheTypeOK /\ OpsMatch /\ OneDownload /\ thread[t].at = "fetch" /\ thread[t].op = "open"
  BY DEF CacheInv, OpsMatch, Fetch, At
<1>2. b \in Blobs
  BY <1>1, BlobTyped
<1>3. PICK step \in {"open", "wait", "download"} :
        /\ Goto(t, step)
        /\ step = "open" => UNCHANGED call
        /\ step = "wait" => call[b] /\ UNCHANGED call
        /\ step = "download" => ~call[b] /\ call' = [call EXCEPT ![b] = TRUE]
  BY DEF Fetch
<1>4. /\ \A u \in Threads \ {t} : thread'[u] = thread[u]
      /\ thread'[t].at = step /\ thread'[t].op = "open" /\ thread'[t].blob = b
  BY <1>1, <1>3, GoesTo DEF Same
<1>5. OpsMatch'
  BY <1>1, <1>4 DEF OpsMatch
<1>6. ASSUME NEW u \in Threads \ {t}, NEW d \in Blobs
      PROVE  (Loads(u, d)' <=> Loads(u, d)) /\ (Waits(u, d)' <=> Waits(u, d))
  BY <1>4 DEF Loads, Waits
<1>7. ASSUME NEW d \in Blobs
      PROVE  /\ ~Loads(t, d) /\ ~Waits(t, d)
             /\ Loads(t, d)' <=> step = "download" /\ d = b
             /\ Waits(t, d)' <=> step = "wait" /\ d = b
  BY <1>1, <1>4 DEF Loads, Waits
<1>8. ASSUME NEW d \in Blobs PROVE Shared(d)'
  <2>1. Shared(d)
    BY <1>1, SharedDownload DEF AllShared
  <2>2. CASE step = "download" /\ d = b
    <3>1. ~call[d] /\ call'[d] = TRUE
      BY <1>1, <1>3, <2>2 DEF CacheTypeOK
    <3>2. \A u \in Threads : Loads(u, d)' <=> u = t
      BY <1>6, <1>7, <2>1, <2>2, <3>1 DEF Shared
    <3> QED
      BY <3>1, <3>2 DEF Shared
  <2>3. CASE ~(step = "download" /\ d = b)
    <3>1. call'[d] = call[d]
      BY <1>1, <1>2, <1>3, <2>3 DEF CacheTypeOK
    <3>2. \A u \in Threads : Loads(u, d)' <=> Loads(u, d)
      BY <1>6, <1>7, <2>3
    <3>3. \A u \in Threads : Waits(u, d)' => call[d]
      BY <1>3, <1>6, <1>7, <2>1 DEF Shared
    <3> QED
      BY <2>1, <3>1, <3>2, <3>3 DEF Shared
  <2> QED
    BY <2>2, <2>3
<1>9. AllShared' => OneDownload'
  BY SharedDownload, PTL
<1> QED
  BY <1>5, <1>8, <1>9 DEF AllShared

\* Every step keeps the downloads shared.
LEMMA DownloadStep ==
    ASSUME CacheInv, [CacheNext]_cacheVars
    PROVE  OpsMatch' /\ OneDownload'
<1>0. CacheTypeOK /\ OpsMatch
  BY DEF CacheInv
<1>1. CASE UNCHANGED cacheVars
  <2>1. UNCHANGED <<call, thread>>
    BY <1>1 DEF cacheVars
  <2>2. OpsMatch'
    BY <1>0, <2>1 DEF OpsMatch
  <2>3. OneDownload'
    BY <2>1, Undisturbed DEF CacheInv, Loads, Waits
  <2> QED
    BY <2>2, <2>3
<1>2. ASSUME NEW t \in Threads, NEW op \in Ops, NEW d \in Blobs, Call(t, op, d)
      PROVE  OpsMatch' /\ OneDownload'
  <2>1. /\ thread[t].at = "idle" /\ UNCHANGED call
        /\ \A u \in Threads \ {t} : thread'[u] = thread[u]
        /\ thread'[t].op = op
        /\ thread'[t].at = CASE op = "open" -> "fetch" [] op = "put" -> "store" [] op = "delete" -> "drop"
    BY <1>0, <1>2 DEF Call, At, CacheTypeOK
  <2>2. \/ op = "open" /\ thread'[t].at = "fetch"
        \/ op = "put" /\ thread'[t].at = "store"
        \/ op = "delete" /\ thread'[t].at = "drop"
    BY <2>1 DEF Ops
  <2>3. \A e \in Blobs : (Loads(t, e)' <=> Loads(t, e)) /\ ~Waits(t, e)'
    BY <2>1, <2>2 DEF Loads, Waits
  <2> QED
    BY <2>1, <2>2, <2>3, OneMoves
<1>3. ASSUME NEW t \in Threads, Fetch(t) PROVE OpsMatch' /\ OneDownload'
  BY <1>3, FetchStep
<1>4. ASSUME NEW t \in Threads, thread[t].at # "idle", UNCHANGED call, NEW step, Goto(t, step),
             \/ thread[t].at = "download" /\ step = "rename"
             \/ thread[t].at = "rename" /\ step = "enter"
             \/ thread[t].at = "open" /\ step = "forget"
             \/ thread[t].at = "store" /\ step = "contains"
             \/ thread[t].at = "contains" /\ step = "rename"
             \/ thread[t].at = "drop" /\ step = "unlink"
      PROVE  OpsMatch' /\ OneDownload'
  <2>1. /\ \A u \in Threads \ {t} : thread'[u] = thread[u]
        /\ thread'[t].at = step /\ thread'[t].op = thread[t].op /\ thread'[t].blob = thread[t].blob
    BY <1>0, <1>4, GoesTo DEF Same
  <2>2. /\ thread[t].at \in {"download", "open"} => thread[t].op = "open"
        /\ thread[t].at \in {"store", "contains"} => thread[t].op = "put"
    BY <1>0 DEF OpsMatch
  <2>3. \A e \in Blobs : (Loads(t, e)' <=> Loads(t, e)) /\ ~Waits(t, e)'
    BY <1>4, <2>1, <2>2 DEF Loads, Waits
  <2> QED
    BY <1>4, <2>1, <2>2, <2>3, OneMoves
<1>5. ASSUME NEW t \in Threads, thread[t].at \in {"wait", "open", "forget", "contains", "erase"},
             UNCHANGED call, NEW e, End(t, e)
      PROVE  OpsMatch' /\ OneDownload'
  <2>1. (\A u \in Threads \ {t} : thread'[u] = thread[u]) /\ thread'[t].at = "idle"
    BY <1>0, <1>5, EndsIdle
  <2>2. \A d \in Blobs : (Loads(t, d)' <=> Loads(t, d)) /\ ~Waits(t, d)'
    BY <1>5, <2>1 DEF Loads, Waits
  <2> QED
    BY <1>5, <2>1, <2>2, OneMoves
<1>6. ASSUME NEW t \in Threads, download(t) PROVE OpsMatch' /\ OneDownload'
  BY <1>4, <1>6, CloseStep DEF download, At
<1>7. ASSUME NEW t \in Threads, Return(t) PROVE OpsMatch' /\ OneDownload'
  BY <1>7, CloseStep DEF Return, At
<1>8. ASSUME NEW t \in Threads, Rename(t) \/ Put(t) \/ DeleteEntry(t) PROVE OpsMatch' /\ OneDownload'
  BY <1>4, <1>8 DEF Rename, Put, DeleteEntry, At, Others
<1>9. ASSUME NEW t \in Threads, OpenFile(t) \/ KeepLocally(t) PROVE OpsMatch' /\ OneDownload'
  BY <1>4, <1>5, <1>9 DEF OpenFile, KeepLocally, At, Others
<1>10. ASSUME NEW t \in Threads, DeleteBlob(t) PROVE OpsMatch' /\ OneDownload'
  BY <1>5, <1>10 DEF DeleteBlob, At
<1>11. ASSUME NEW t \in Threads, Cancel(t) PROVE OpsMatch' /\ OneDownload'
  BY <1>5, <1>11, CloseStep DEF Cancel, At, Others
<1>12. ASSUME NEW t \in Threads, forget(t) PROVE OpsMatch' /\ OneDownload'
  <2>1. thread[t].at = "forget" /\ UNCHANGED call /\ thread[t].op = "open"
    BY <1>0, <1>12 DEF forget, At, Others, OpsMatch
  <2>2. CASE End(t, "evicted")
    BY <1>5, <2>1, <2>2
  <2>3. CASE ~End(t, "evicted")
    <3>1. thread' = [thread EXCEPT ![t].at = "fetch", ![t].tries = thread[t].tries + 1]
      BY <1>12, <2>3 DEF forget
    <3>2. thread[t] \in Active
      BY <1>0, <2>1, BlobTyped
    <3>3. /\ \A u \in Threads \ {t} : thread'[u] = thread[u]
          /\ thread'[t].at = "fetch" /\ thread'[t].op = thread[t].op
      BY <1>0, <3>1, <3>2 DEF CacheTypeOK, Active
    <3>4. \A d \in Blobs : (Loads(t, d)' <=> Loads(t, d)) /\ ~Waits(t, d)'
      BY <2>1, <3>3 DEF Loads, Waits
    <3> QED
      BY <2>1, <3>3, <3>4, OneMoves
  <2> QED
    BY <2>2, <2>3
<1>13. ASSUME NEW t \in Threads, insert(t) PROVE OpsMatch' /\ OneDownload'
  <2>1. PICK gone :
          /\ thread[t].at = "enter" /\ UNCHANGED call
          /\ thread' = [Counted(gone) EXCEPT ![t] =
                IF thread[t].op = "open" THEN [Counted(gone)[t] EXCEPT !.at = "return"] ELSE Idle("done")]
    BY <1>13, Zenon DEF insert, At
  <2>2. /\ Counted(gone) \in [Threads -> ThreadStates] /\ Counted(gone)[t] \in Active
        /\ Counted(gone)[t].op = thread[t].op /\ Counted(gone)[t].blob = thread[t].blob
        /\ \A u \in Threads : /\ Counted(gone)[u].at = thread[u].at
                              /\ thread[u].at # "idle" => /\ Counted(gone)[u].op = thread[u].op
                                                          /\ Counted(gone)[u].blob = thread[u].blob
    BY <1>0, <2>1, Records
  <2>3. \A u \in Threads \ {t} : thread'[u] = Counted(gone)[u]
    BY <2>1, <2>2
  <2>4. CASE thread[t].op = "open"
    <3>1. thread'[t] = [Counted(gone)[t] EXCEPT !.at = "return"]
      BY <2>1, <2>2, <2>4
    <3>2. thread'[t].at = "return" /\ thread'[t].op = thread[t].op /\ thread'[t].blob = thread[t].blob
      BY <2>2, <3>1 DEF Active
    <3>3. \A d \in Blobs : (Loads(t, d)' <=> Loads(t, d)) /\ ~Waits(t, d)'
      BY <2>1, <2>4, <3>2 DEF Loads, Waits
    <3> QED
      BY <2>1, <2>2, <2>3, <2>4, <3>2, <3>3, OneMoves
  <2>5. CASE thread[t].op # "open"
    <3>1. thread'[t].at = "idle"
      BY <2>1, <2>2, <2>5 DEF Idle
    <3>2. \A d \in Blobs : (Loads(t, d)' <=> Loads(t, d)) /\ ~Waits(t, d)'
      BY <2>1, <2>5, <3>1 DEF Loads, Waits
    <3> QED
      BY <2>1, <2>2, <2>3, <3>1, <3>2, OneMoves
  <2> QED
    BY <2>4, <2>5
<1>14. ASSUME NEW t \in Threads, DeleteFile(t) PROVE OpsMatch' /\ OneDownload'
  <2> DEFINE gone == {thread[t].blob}
  <2>1. /\ thread[t].at = "unlink" /\ UNCHANGED call
        /\ thread' = [Counted(gone) EXCEPT ![t].at = "erase"]
    BY <1>14 DEF DeleteFile, At, Others
  <2>2. /\ Counted(gone) \in [Threads -> ThreadStates] /\ Counted(gone)[t] \in Active
        /\ \A u \in Threads : /\ Counted(gone)[u].at = thread[u].at
                              /\ thread[u].at # "idle" => /\ Counted(gone)[u].op = thread[u].op
                                                          /\ Counted(gone)[u].blob = thread[u].blob
    BY <1>0, <2>1, Records
  <2>3. (\A u \in Threads \ {t} : thread'[u] = Counted(gone)[u]) /\ thread'[t].at = "erase"
    BY <2>1, <2>2 DEF Active
  <2>4. \A d \in Blobs : (Loads(t, d)' <=> Loads(t, d)) /\ ~Waits(t, d)'
    BY <2>1, <2>3 DEF Loads, Waits
  <2> QED
    BY <2>1, <2>2, <2>3, <2>4, OneMoves
<1>15. CASE NewCache
  <2>1. /\ \A u \in Threads : thread'[u].at = "idle"
        /\ \A d \in Blobs : call'[d] = FALSE
    BY <1>15 DEF NewCache, Idle
  <2>2. AllShared'
    BY <2>1 DEF AllShared, Shared, Loads, Waits
  <2>3. AllShared' => OneDownload'
    BY SharedDownload, PTL
  <2>4. OpsMatch'
    BY <2>1 DEF OpsMatch
  <2> QED
    BY <2>2, <2>3, <2>4
<1> QED
  BY <1>1, <1>2, <1>3, <1>6, <1>7, <1>8, <1>9, <1>10, <1>11, <1>12, <1>13, <1>14, <1>15
     DEF CacheNext, Step

\* The attempts of one thread are earned, and the one about to be lost too.
Earned(t) ==
    thread[t].at # "idle" /\ thread[t].op = "open" => thread[t].tries <= thread[t].removed + 1

Stale(t) ==
    \/ thread[t].at = "forget"
    \/ thread[t].blob \notin files /\ (thread[t].at = "open" \/ thread[t].blob \in Indexed)

Owed(t) ==
    thread[t].at # "idle" /\ thread[t].op = "open" /\ Stale(t) => thread[t].tries <= thread[t].removed

\* The same of the attempts lost.
LEMMA RetriesEach ==
    RetriesEarned /\ RetriesOwed <=> \A t \in Threads : Earned(t) /\ Owed(t)
BY DEF RetriesEarned, RetriesOwed, Earned, Owed, Stale

\* A thread that goes on without a new attempt: when its entry becomes stale,
\* the loss of the file is on record.
LEMMA EarnedStays ==
    ASSUME CacheInv, NEW u \in Threads, thread[u].at # "idle", thread'[u].at # "idle", NEW lost,
           /\ thread'[u].op = thread[u].op /\ thread'[u].blob = thread[u].blob
           /\ thread'[u].tries = thread[u].tries,
           thread'[u].removed \in Nat, thread'[u].removed >= thread[u].removed,
           thread[u].op = "open" /\ thread[u].blob \in lost =>
               thread'[u].removed > thread[u].removed \/ thread'[u].removed = OpenTries,
           thread'[u].at = "forget" =>
               thread[u].at = "forget" \/ (thread[u].at = "open" /\ thread[u].blob \notin files),
           thread'[u].at = "open" => thread[u].at = "open" \/ thread[u].blob \in Indexed,
           files \subseteq files' \cup lost, Indexed' \subseteq Indexed \cup lost \cup files'
    PROVE  Earned(u)' /\ Owed(u)'
<1>1. thread[u] \in Active /\ Earned(u) /\ Owed(u)
  BY BlobTyped, RetriesEach DEF CacheInv
<1>2. thread[u].tries \in 0 .. OpenTries - 1 /\ thread[u].removed \in 0 .. OpenTries
  BY <1>1 DEF Active
<1>3. CASE thread[u].op # "open"
  BY <1>3 DEF Earned, Owed
<1>4. CASE thread[u].op = "open"
  <2>1. thread[u].tries <= thread[u].removed + 1
    BY <1>1, <1>4 DEF Earned
  <2>2. Earned(u)'
    BY <1>2, <2>1 DEF Earned
  <2>3. ASSUME Stale(u)' PROVE Stale(u) \/ thread[u].blob \in lost
    BY <2>3 DEF Stale
  <2>4. ASSUME Stale(u) PROVE thread[u].tries <= thread'[u].removed
    <3>1. thread[u].tries <= thread[u].removed
      BY <1>1, <1>4, <2>4 DEF Owed
    <3> QED
      BY <1>2, <3>1
  <2>5. ASSUME thread[u].blob \in lost PROVE thread[u].tries <= thread'[u].removed
    BY <1>2, <1>4, <2>1, <2>5, BlobCacheAssumption
  <2>6. Owed(u)'
    BY <2>3, <2>4, <2>5 DEF Owed
  <2> QED
    BY <2>2, <2>6
<1> QED
  BY <1>3, <1>4

\* A thread that returned has nothing to earn.
LEMMA IdleEarned ==
    ASSUME NEW u \in Threads, thread'[u].at = "idle"
    PROVE  Earned(u)' /\ Owed(u)'
BY DEF Earned, Owed

\* A step that records no loss, moves one thread at most and gives no entry.
LEMMA NothingLost ==
    ASSUME CacheInv, files \subseteq files', Indexed' \subseteq Indexed, NEW u \in Threads,
           \/ thread'[u] = thread[u]
           \/ thread[u].at # "idle" /\ Same(u) /\ thread'[u].at \notin {"forget", "open"}
           \/ thread[u].at = "open" /\ thread[u].blob \notin files
                /\ Same(u) /\ thread'[u].at = "forget"
           \/ thread[u].at # "idle" /\ thread[u].blob \in Indexed
                /\ Same(u) /\ thread'[u].at = "open"
           \/ thread'[u].at = "idle"
    PROVE  Earned(u)' /\ Owed(u)'
<1>1. CASE thread'[u].at = "idle"
  BY <1>1, IdleEarned
<1>2. CASE thread'[u].at # "idle"
  <2>1. thread[u].at # "idle"
    BY <1>2
  <2>2. thread[u] \in Active
    BY <2>1, BlobTyped DEF CacheInv
  <2>3. thread[u].removed \in Nat
    BY <2>2, BlobCacheAssumption DEF Active
  <2>4. Same(u)
    BY <1>2 DEF Same
  <2>5. PICK none : none = {}
    OBVIOUS
  <2>6. thread'[u].removed \in Nat /\ thread'[u].removed >= thread[u].removed
    BY <2>3, <2>4 DEF Same
  <2>7. /\ files \subseteq files' \cup none /\ Indexed' \subseteq Indexed \cup none \cup files'
        /\ thread[u].blob \notin none
    BY <2>5
  <2>8. /\ thread'[u].at = "forget" =>
               thread[u].at = "forget" \/ (thread[u].at = "open" /\ thread[u].blob \notin files)
        /\ thread'[u].at = "open" => thread[u].at = "open" \/ thread[u].blob \in Indexed
    BY <1>2
  <2>9. /\ thread'[u].op = thread[u].op /\ thread'[u].blob = thread[u].blob
        /\ thread'[u].tries = thread[u].tries
    BY <2>4 DEF Same
  <2> QED
    BY <1>2, <2>1, <2>6, <2>7, <2>8, <2>9, EarnedStays
<1> QED
  BY <1>1, <1>2

\* A step that records the losses of gone.
LEMMA LossRecorded ==
    ASSUME CacheInv, NEW gone, NEW u \in Threads,
           files \subseteq files' \cup gone, Indexed' \subseteq Indexed \cup gone \cup files',
           \/ thread'[u] = Counted(gone)[u]
           \/ /\ thread[u].at # "idle"
              /\ \E step \in {"return", "erase"} : thread'[u] = [Counted(gone)[u] EXCEPT !.at = step]
           \/ thread'[u].at = "idle"
    PROVE  Earned(u)' /\ Owed(u)'
<1>0. /\ Counted(gone)[u].at = thread[u].at
      /\ thread[u].at # "idle" =>
           /\ Counted(gone)[u] \in Active
           /\ Counted(gone)[u].op = thread[u].op
           /\ Counted(gone)[u].blob = thread[u].blob
           /\ Counted(gone)[u].tries = thread[u].tries
           /\ Counted(gone)[u].removed >= thread[u].removed
           /\ thread[u].op = "open" /\ thread[u].blob \in gone =>
                 Counted(gone)[u].removed > thread[u].removed
                   \/ Counted(gone)[u].removed = OpenTries
  BY Records DEF CacheInv
<1>1. CASE thread'[u].at = "idle"
  BY <1>1, IdleEarned
<1>2. CASE thread'[u].at # "idle"
  <2>1. thread[u].at # "idle"
    BY <1>0, <1>2
  <2>2. Counted(gone)[u].removed \in Nat
    BY <1>0, <2>1, BlobCacheAssumption DEF Active
  <2>3. /\ thread'[u].op = Counted(gone)[u].op /\ thread'[u].blob = Counted(gone)[u].blob
        /\ thread'[u].tries = Counted(gone)[u].tries /\ thread'[u].removed = Counted(gone)[u].removed
        /\ thread'[u].at = thread[u].at \/ thread'[u].at \in {"return", "erase"}
    BY <1>0, <1>2, <2>1 DEF Active
  <2> QED
    BY <1>0, <1>2, <2>1, <2>2, <2>3, EarnedStays
<1> QED
  BY <1>1, <1>2

\* Every step keeps the attempts earned.
LEMMA RetriesStep ==
    ASSUME CacheInv, [CacheNext]_cacheVars
    PROVE  RetriesEarned' /\ RetriesOwed'
<1>0. CacheTypeOK /\ OpsMatch
  BY DEF CacheInv
<1>1. (\A u \in Threads : Earned(u)' /\ Owed(u)') => RetriesEarned' /\ RetriesOwed'
  BY DEF RetriesEarned, RetriesOwed, Earned, Owed, Stale
<1>2. SUFFICES ASSUME NEW u \in Threads PROVE Earned(u)' /\ Owed(u)'
  BY <1>1
<1>3. CASE UNCHANGED cacheVars
  BY <1>3, NothingLost DEF cacheVars, Indexed
<1>4. ASSUME NEW t \in Threads, NEW op \in Ops, NEW d \in Blobs, Call(t, op, d)
      PROVE  Earned(u)' /\ Owed(u)'
  <2>1. UNCHANGED <<lru, files>>
    BY <1>4 DEF Call
  <2>2. CASE u = t
    <3>1. thread'[u].tries = 0 /\ thread'[u].removed = 0
      BY <1>0, <1>4, <2>2 DEF Call, CacheTypeOK
    <3> QED
      BY <3>1 DEF Earned, Owed
  <2>3. CASE u # t
    <3>1. thread'[u] = thread[u]
      BY <1>0, <1>4, <2>3 DEF Call, CacheTypeOK
    <3> QED
      BY <2>1, <3>1, NothingLost DEF Indexed
  <2> QED
    BY <2>2, <2>3
<1>5. lru \in Seq(Blobs) /\ OnceEach(lru)
  BY <1>0 DEF CacheInv, CacheBounded, IsInjective, OnceEach, CacheTypeOK
<1>6. ASSUME NEW t \in Threads, Fetch(t) PROVE Earned(u)' /\ Owed(u)'
  <2>1. /\ thread[t].at # "idle" /\ UNCHANGED files
        /\ \/ thread[t].blob \in Indexed /\ lru' = MoveToFront(thread[t].blob) /\ Goto(t, "open")
           \/ UNCHANGED lru /\ (Goto(t, "wait") \/ Goto(t, "download"))
    BY <1>6 DEF Fetch, At
  <2>2. Indexed' \subseteq Indexed
    BY <1>0, <1>5, <2>1, BlobTyped, FrontFacts DEF Indexed
  <2>3. \/ thread'[u] = thread[u]
        \/ u = t /\ Same(u) /\ thread'[u].at \notin {"forget", "open"}
        \/ u = t /\ thread[u].blob \in Indexed /\ Same(u) /\ thread'[u].at = "open"
    BY <1>0, <2>1, GoesTo
  <2> QED
    BY <2>1, <2>2, <2>3, NothingLost
<1>7. ASSUME NEW t \in Threads, thread[t].at # "idle", NEW step, Goto(t, step), files \subseteq files',
             Indexed' \subseteq Indexed, step \notin {"forget", "open"}
      PROVE  Earned(u)' /\ Owed(u)'
  <2>1. \/ thread'[u] = thread[u]
        \/ u = t /\ Same(u) /\ thread'[u].at \notin {"forget", "open"}
    BY <1>0, <1>7, GoesTo
  <2> QED
    BY <1>7, <2>1, NothingLost
<1>8. ASSUME NEW t \in Threads, NEW e, End(t, e), files \subseteq files', Indexed' \subseteq Indexed
      PROVE  Earned(u)' /\ Owed(u)'
  <2>1. thread'[u] = thread[u] \/ thread'[u].at = "idle"
    BY <1>0, <1>8, EndsIdle
  <2> QED
    BY <1>8, <2>1, NothingLost
<1>9. ASSUME NEW t \in Threads, thread[t].at # "idle", NEW ok \in BOOLEAN, Close(t, ok),
             UNCHANGED <<lru, files>>
      PROVE  Earned(u)' /\ Owed(u)'
  <2>1. \/ thread'[u] = thread[u]
        \/ thread'[u].at = "idle"
        \/ thread[u].at # "idle" /\ thread'[u].at = "fetch" /\ Same(u)
    BY <1>0, <1>9, ClosesFor
  <2> QED
    BY <1>9, <2>1, NothingLost DEF Indexed
<1>10. ASSUME NEW d \in Blobs, lru' = Without(d) PROVE Indexed' \subseteq Indexed \ {d}
  BY <1>5, <1>10, WithoutFacts DEF Indexed
<1>11. ASSUME UNCHANGED lru PROVE Indexed' \subseteq Indexed
  BY <1>11 DEF Indexed
<1>12. ASSUME NEW t \in Threads, download(t) PROVE Earned(u)' /\ Owed(u)'
  BY <1>7, <1>9, <1>11, <1>12 DEF download, At
<1>13. ASSUME NEW t \in Threads, Return(t) PROVE Earned(u)' /\ Owed(u)'
  BY <1>9, <1>13 DEF Return, At
<1>14. ASSUME NEW t \in Threads, Rename(t) \/ Put(t) PROVE Earned(u)' /\ Owed(u)'
  BY <1>7, <1>11, <1>14 DEF Rename, Put, At
<1>15. ASSUME NEW t \in Threads, OpenFile(t) PROVE Earned(u)' /\ Owed(u)'
  <2>1. thread[t].at = "open" /\ UNCHANGED <<lru, files>>
    BY <1>15 DEF OpenFile, At
  <2>2. CASE End(t, "done")
    BY <1>8, <1>11, <2>1, <2>2
  <2>3. CASE thread[t].blob \notin files /\ Goto(t, "forget")
    <3>1. \/ thread'[u] = thread[u]
          \/ u = t /\ Same(u) /\ thread'[u].at = "forget"
      BY <1>0, <2>1, <2>3, GoesTo
    <3> QED
      BY <1>11, <2>1, <2>3, <3>1, NothingLost
  <2> QED
    BY <1>15, <2>2, <2>3 DEF OpenFile
<1>16. ASSUME NEW t \in Threads, KeepLocally(t) PROVE Earned(u)' /\ Owed(u)'
  BY <1>7, <1>8, <1>11, <1>16 DEF KeepLocally, At
<1>17. ASSUME NEW t \in Threads, DeleteEntry(t) PROVE Earned(u)' /\ Owed(u)'
  BY <1>0, <1>7, <1>10, <1>17, BlobTyped DEF DeleteEntry, At
<1>18. ASSUME NEW t \in Threads, DeleteBlob(t) PROVE Earned(u)' /\ Owed(u)'
  BY <1>8, <1>11, <1>18 DEF DeleteBlob
<1>19. ASSUME NEW t \in Threads, Cancel(t) PROVE Earned(u)' /\ Owed(u)'
  BY <1>8, <1>9, <1>11, <1>19 DEF Cancel, At
<1>20. ASSUME NEW t \in Threads, forget(t) PROVE Earned(u)' /\ Owed(u)'
  <2>1. /\ thread[t].at = "forget" /\ thread[t].op = "open"
        /\ UNCHANGED files /\ lru' = Without(thread[t].blob)
    BY <1>0, <1>20 DEF forget, At, OpsMatch
  <2>2. thread[t] \in Active /\ Indexed' \subseteq Indexed \ {thread[t].blob}
    BY <1>0, <1>10, <2>1, BlobTyped
  <2>3. CASE End(t, "evicted")
    BY <1>8, <2>1, <2>2, <2>3
  <2>4. CASE ~End(t, "evicted")
    <3>1. thread' = [thread EXCEPT ![t].at = "fetch", ![t].tries = thread[t].tries + 1]
      BY <1>20, <2>4 DEF forget
    <3>2. CASE u # t
      <4>1. thread'[u] = thread[u]
        BY <1>0, <3>1, <3>2 DEF CacheTypeOK
      <4> QED
        BY <2>1, <2>2, <4>1, NothingLost
    <3>3. CASE u = t
      <4>1. /\ thread'[u].at = "fetch" /\ thread'[u].blob = thread[u].blob
            /\ thread'[u].tries = thread[u].tries + 1 /\ thread'[u].removed = thread[u].removed
        BY <1>0, <2>2, <3>1, <3>3 DEF CacheTypeOK, Active
      <4>2. Owed(u) /\ Stale(u)
        BY <2>1, <3>3, RetriesEach DEF CacheInv, Stale
      <4>3. thread[u].tries <= thread[u].removed
        BY <2>1, <3>3, <4>2 DEF Owed
      <4>4. thread[u].tries \in Nat /\ thread[u].removed \in Nat
        BY <2>2, <3>3, BlobCacheAssumption DEF Active
      <4>5. Earned(u)'
        BY <4>1, <4>3, <4>4 DEF Earned
      <4>6. ~Stale(u)'
        BY <2>2, <3>3, <4>1 DEF Stale
      <4> QED
        BY <4>5, <4>6 DEF Owed
    <3> QED
      BY <3>2, <3>3
  <2> QED
    BY <2>3, <2>4
<1>21. ASSUME NEW t \in Threads, DeleteFile(t) PROVE Earned(u)' /\ Owed(u)'
  <2>1. PICK gone : gone = {thread[t].blob}
    OBVIOUS
  <2>2. /\ thread[t].at # "idle" /\ UNCHANGED lru /\ files' = files \ gone
        /\ thread' = [Counted(gone) EXCEPT ![t] = [Counted(gone)[t] EXCEPT !.at = "erase"]]
    BY <1>21, <2>1 DEF DeleteFile, At
  <2>3. Counted(gone) \in [Threads -> ThreadStates]
    BY <1>0, Records
  <2>4. \/ thread'[u] = Counted(gone)[u]
        \/ thread[u].at # "idle" /\ thread'[u] = [Counted(gone)[u] EXCEPT !.at = "erase"]
    BY <2>2, <2>3
  <2>5. files \subseteq files' \cup gone /\ Indexed' \subseteq Indexed \cup gone \cup files'
    BY <1>11, <2>2
  <2> QED
    BY <2>4, <2>5, LossRecorded
<1>22. ASSUME NEW t \in Threads, insert(t) PROVE Earned(u)' /\ Owed(u)'
  <2> DEFINE d == thread[t].blob
             kept == evictLocked(MoveToFront(d))
             evicted == IF d \in Indexed THEN {} ELSE Indexed \ ToSet(kept)
  <2>1. PICK gone : gone = evicted \cup ({d} \ files)
    OBVIOUS
  <2>2. /\ thread[t].at = "enter"
        /\ lru' = IF d \in Indexed THEN MoveToFront(d) ELSE kept
        /\ files' = files \ evicted
        /\ thread' = [Counted(gone) EXCEPT ![t] =
              IF thread[t].op = "open" THEN [Counted(gone)[t] EXCEPT !.at = "return"] ELSE Idle("done")]
    BY <1>22, <2>1 DEF insert, At
  <2>3. d \in Blobs
    BY <1>0, <2>2, BlobTyped
  <2>4. ToSet(MoveToFront(d)) \subseteq Indexed \cup {d} /\ ToSet(kept) \subseteq ToSet(MoveToFront(d))
    BY <1>5, <2>3, FrontFacts, EvictionFacts
  <2>5. Indexed' \subseteq Indexed \cup {d}
    BY <2>2, <2>4 DEF Indexed
  <2>6. d \notin evicted
    OBVIOUS
  <2> HIDE DEF kept, evicted
  <2>7. files \subseteq files' \cup gone /\ Indexed' \subseteq Indexed \cup gone \cup files'
    BY <2>1, <2>2, <2>5, <2>6
  <2>8. Counted(gone) \in [Threads -> ThreadStates]
    BY <1>0, Records
  <2>9. \/ thread'[u] = Counted(gone)[u]
        \/ thread[u].at # "idle" /\ thread'[u] = [Counted(gone)[u] EXCEPT !.at = "return"]
        \/ thread'[u].at = "idle"
    BY <2>2, <2>8 DEF Idle
  <2> QED
    BY <2>7, <2>9, LossRecorded
<1>23. CASE NewCache
  BY <1>23, IdleEarned DEF NewCache, Idle
<1> QED
  BY <1>3, <1>4, <1>6, <1>12, <1>13, <1>14, <1>15, <1>16, <1>17, <1>18, <1>19, <1>20, <1>21, <1>22,
     <1>23 DEF CacheNext, Step

\* Any number of threads that open, store, evict and delete blobs at once keep
\* the cache within its size, share downloads, and start over only for cause
\* (blob/cache.go).
THEOREM CacheKept == CacheSpec => [](CacheTypeOK /\ CacheSound)
<1>1. CacheInv => CacheTypeOK /\ CacheSound
  BY DEF CacheInv, CacheSound
<1>2. CacheInv /\ [CacheNext]_cacheVars => CacheInv'
  BY IndexStep, CacheTypeStep, DownloadStep, RetriesStep DEF CacheInv
<1> QED
  BY <1>1, <1>2, CacheStarts, PTL DEF CacheSpec

(***************************************************************************)
(* All of them together.                                                   *)
(***************************************************************************)
\* The types and the safety of everything that is stored, side by side.
THEOREM StorageSafe ==
    Spec => [](TypeOK /\ BlobsKept /\ CacheSound /\ BackupsSound /\ ArchivedSafe)
<1> DEFINE Inv == StoreInv /\ CacheInv /\ BackupInv /\ WalInv
<1>1. Init => Inv
  BY StoreStarts, CacheStarts, BackupStarts, WalStarts DEF Init
<1>2. Inv /\ [Next]_vars => Inv'
  <2> SUFFICES ASSUME Inv, [Next]_vars PROVE Inv'
    OBVIOUS
  <2>1. /\ [StoreNext]_storeVars /\ [CacheNext]_cacheVars
        /\ [BackupNext]_backupVars /\ [WalNext]_walVars
    BY DEF Next, vars
  <2>2. StoreInv'
    BY <2>1, StoreTypeStep, CollectorStep, RequestsStep DEF StoreInv
  <2>3. CacheInv'
    BY <2>1, IndexStep, CacheTypeStep, DownloadStep, RetriesStep DEF CacheInv
  <2>4. BackupInv'
    BY <2>1, BackupTypeStep, NamesStep, OneBackupStep, WriterStep, MetaStep, RotationStep
       DEF BackupInv, BackupsSound, DirInv
  <2>5. WalInv'
    BY <2>1, WalStep
  <2> QED
    BY <2>2, <2>3, <2>4, <2>5
<1>3. Inv => TypeOK /\ BlobsKept /\ CacheSound /\ BackupsSound /\ ArchivedSafe
  BY DEF StoreInv, StoreTypeOK, RequestsInv, CountsOn, Kept, BlobsKept, CacheInv, CacheSound,
         BackupInv, WalInv, TypeOK
<1> QED
  BY <1>1, <1>2, <1>3, PTL DEF Spec

=============================================================================
