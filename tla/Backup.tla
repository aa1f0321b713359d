------------------------------- MODULE Backup -------------------------------
(***************************************************************************)
(* The backups the administration web servers take into one directory and  *)
(* copy off site (backup/runner.go).  A server runs one backup at a time,  *)
(* and a Redis lease keeps the others out; a scheduled backup ends with    *)
(* the rotation of the older ones.  Backups are numbered by the time they  *)
(* were begun, which is in their names.                                  *)
(***************************************************************************)
EXTENDS Integers, FiniteSets

CONSTANTS
    Admins,       \* administration web servers
    NoAdmin,
    Keep,         \* scheduled backups kept
    \* Bounds of the model
    MaxBackups,   \* backups begun
    MaxFaults     \* crashes, expired leases and failed steps

ASSUME BackupAssumption ==
    /\ NoAdmin \notin Admins
    /\ Keep \in Nat \ {0} /\ MaxBackups \in Nat /\ MaxFaults \in Nat

VARIABLES
    dir,       \* for each backup its kind, archive and metadata
    admin,     \* what each server does
    lease,     \* who the lease's key names
    begun,   \* backups begun so far
    lapses,    \* leases that expired under a live holder
    removed,   \* backups an administrator deleted
    rotated,   \* backups the rotation deleted
    faults

backupVars == <<dir, admin, lease, begun, lapses, removed, rotated, faults>>

Numbers == 1 .. MaxBackups
NoEntry == [kind |-> "none", archive |-> "none", meta |-> "none"]

AdminIdle == [at |-> "idle", n |-> 0, cancelled |-> FALSE, victims |-> {}]
Busy(a) == admin[a].at \in {"dump", "meta", "upload", "rotate", "delete", "release"}

BackupInit ==
    /\ dir = [n \in Numbers |-> NoEntry]
    /\ admin = [a \in Admins |-> AdminIdle]
    /\ lease = NoAdmin
    /\ begun = 0 /\ lapses = 0
    /\ removed = {} /\ rotated = {}
    /\ faults = 0

Go(a, at) == admin' = [admin EXCEPT ![a].at = at]
Fault == faults < MaxFaults /\ faults' = faults + 1

(***************************************************************************)
(* The lease.                                                              *)
(***************************************************************************)
\* Mutant: the name of the backup before is taken.
beginAgain(a, kind) ==
    /\ admin[a].at = "idle" /\ begun < MaxBackups
    /\ begun' = begun + 1
    /\ admin' = [admin EXCEPT ![a] = [AdminIdle EXCEPT !.at = "begun", !.n = begun]]
    /\ dir' = [dir EXCEPT ![begun + 1].kind = kind]
    /\ UNCHANGED <<lease, lapses, removed, rotated, faults>>

\* Tick and the button: a backup of this process begins, and its name is
\* taken.
begin(a, kind) ==
    /\ admin[a].at = "idle" /\ begun < MaxBackups
    /\ begun' = begun + 1
    /\ admin' = [admin EXCEPT ![a] = [AdminIdle EXCEPT !.at = "begun", !.n = begun + 1]]
    /\ dir' = [dir EXCEPT ![begun + 1].kind = kind]
    /\ UNCHANGED <<lease, lapses, removed, rotated, faults>>

openPartial(a) ==
    /\ dir' = [dir EXCEPT ![admin[a].n].archive = "partial"]
    /\ Go(a, "dump")

\* Mutant: the answer is not looked at.
acquireAnyway(a) ==
    /\ admin[a].at = "begun"
    /\ lease' = IF lease = NoAdmin THEN a ELSE lease
    /\ openPartial(a)
    /\ UNCHANGED <<begun, lapses, removed, rotated, faults>>

\* TryAcquire: ErrBusy when another server holds the lease.
acquire(a) ==
    /\ admin[a].at = "begun"
    /\ IF lease = NoAdmin
       THEN lease' = a /\ openPartial(a)
       ELSE UNCHANGED <<lease, dir>> /\ admin' = [admin EXCEPT ![a] = AdminIdle]
    /\ UNCHANGED <<begun, lapses, removed, rotated, faults>>

\* Renew: a lost lease cancels the work.  (An error of Renew is ignored.)
renew(a) ==
    /\ Busy(a) /\ lease # a /\ ~admin[a].cancelled
    /\ admin' = [admin EXCEPT ![a].cancelled = TRUE]
    /\ UNCHANGED <<dir, lease, begun, lapses, removed, rotated, faults>>

\* The key expires when its holder died or could not renew it in time.
expire ==
    /\ lease # NoAdmin
    /\ lease' = NoAdmin
    /\ IF Busy(lease) THEN Fault /\ lapses' = lapses + 1 ELSE UNCHANGED <<faults, lapses>>
    /\ UNCHANGED <<dir, admin, begun, removed, rotated>>

(***************************************************************************)
(* write.                                                                  *)
(***************************************************************************)
\* Dump, and the rename to the final name.
dump(a) ==
    /\ admin[a].at = "dump" /\ ~admin[a].cancelled
    /\ dir' = [dir EXCEPT ![admin[a].n].archive = "whole"]
    /\ Go(a, "meta")
    /\ UNCHANGED <<lease, begun, lapses, removed, rotated, faults>>

\* Mutant: what there is of the archive is kept under its name.
failKept(a) ==
    /\ admin[a].at = "dump"
    /\ admin[a].cancelled \/ faults < MaxFaults
    /\ faults' = IF admin[a].cancelled THEN faults ELSE faults + 1
    /\ dir' = [dir EXCEPT ![admin[a].n].archive = "whole", ![admin[a].n].meta = "failed"]
    /\ Go(a, "rotate")
    /\ UNCHANGED <<lease, begun, lapses, removed, rotated>>

\* fail: the partial file goes, and the failure is recorded.
fail(a) ==
    /\ admin[a].at = "dump"
    /\ admin[a].cancelled \/ faults < MaxFaults
    /\ faults' = IF admin[a].cancelled THEN faults ELSE faults + 1
    /\ dir' = [dir EXCEPT ![admin[a].n].archive = "none", ![admin[a].n].meta = "failed"]
    /\ Go(a, "rotate")
    /\ UNCHANGED <<lease, begun, lapses, removed, rotated>>

\* The metadata may not be written: the archive stays without.
writeMeta(a) ==
    /\ admin[a].at = "meta"
    /\ \/ /\ dir' = [dir EXCEPT ![admin[a].n].meta = "done"]
          /\ Go(a, "upload")
          /\ UNCHANGED faults
       \/ Fault /\ Go(a, "rotate") /\ UNCHANGED dir
    /\ UNCHANGED <<lease, begun, lapses, removed, rotated>>

\* The off-site copy, stored or not, and the metadata that tells of it.
upload(a) ==
    /\ admin[a].at = "upload"
    /\ dir' = [dir EXCEPT ![admin[a].n].meta = "done"]
    /\ Go(a, "rotate")
    /\ UNCHANGED <<lease, begun, lapses, removed, rotated, faults>>

(***************************************************************************)
(* Rotation and deletion.                                                  *)
(***************************************************************************)
\* List: the entries with metadata; an archive without is "external".
Scheduled == {n \in Numbers : dir[n].meta # "none" /\ dir[n].kind = "scheduled"}

\* Mutant: backups of every kind are counted and deleted.
ExpendableOfAnyKind ==
    LET listed == {n \in Numbers : dir[n].meta # "none"}
    IN  {n \in listed : Cardinality({k \in listed : k > n}) >= Keep}

\* rotate: all but the newest Keep entries.
Expendable == {n \in Scheduled : Cardinality({k \in Scheduled : k > n}) >= Keep}

rotate(a) ==
    /\ admin[a].at = "rotate"
    /\ admin' = [admin EXCEPT
          ![a].victims = IF dir[admin[a].n].kind = "scheduled" THEN Expendable ELSE {},
          ![a].at = "delete"]
    /\ UNCHANGED <<dir, lease, begun, lapses, removed, rotated, faults>>

\* Delete: the archive and its metadata (and the off-site copy).
Delete(a) ==
    /\ admin[a].at = "delete"
    /\ \E n \in admin[a].victims :
         /\ dir' = [dir EXCEPT ![n].archive = "none", ![n].meta = "none"]
         /\ admin' = [admin EXCEPT ![a].victims = @ \ {n}]
         /\ rotated' = rotated \cup {n}
    /\ UNCHANGED <<lease, begun, lapses, removed, faults>>

rotateEnds(a) ==
    /\ admin[a].at = "delete" /\ admin[a].victims = {}
    /\ Go(a, "release")
    /\ UNCHANGED <<dir, lease, begun, lapses, removed, rotated, faults>>

\* Mutant: a backup that lost its lease never ends for this process.
releaseHeld(a) ==
    /\ admin[a].at = "release" /\ lease = a
    /\ lease' = NoAdmin
    /\ admin' = [admin EXCEPT ![a] = AdminIdle]
    /\ UNCHANGED <<dir, begun, lapses, removed, rotated, faults>>

\* The deferred calls of run.
release(a) ==
    /\ admin[a].at = "release"
    /\ lease' = IF lease = a THEN NoAdmin ELSE lease
    /\ admin' = [admin EXCEPT ![a] = AdminIdle]
    /\ UNCHANGED <<dir, begun, lapses, removed, rotated, faults>>

\* handleBackupDelete: a finished archive, whatever its writer still does.
handleBackupDelete(n) ==
    /\ dir[n].archive = "whole"
    /\ dir' = [dir EXCEPT ![n].archive = "none", ![n].meta = "none"]
    /\ removed' = removed \cup {n}
    /\ UNCHANGED <<admin, lease, begun, lapses, rotated, faults>>

\* Delete dies after the archive, before the metadata.
DeleteInterrupted(a) ==
    /\ admin[a].at = "delete" /\ Fault
    /\ \E n \in admin[a].victims :
         /\ dir' = [dir EXCEPT ![n].archive = "none"]
         /\ rotated' = rotated \cup {n}
    /\ admin' = [admin EXCEPT ![a] = AdminIdle]
    /\ UNCHANGED <<lease, begun, lapses, removed>>

\* The process dies and is begun again: it takes up nothing.
BackupCrash(a) ==
    /\ admin[a].at # "idle" /\ Fault
    /\ admin' = [admin EXCEPT ![a] = AdminIdle]
    /\ UNCHANGED <<dir, lease, begun, lapses, removed, rotated>>

BackupStep(a) ==
    \/ acquire(a) \/ renew(a) \/ dump(a) \/ fail(a) \/ writeMeta(a)
    \/ upload(a) \/ rotate(a) \/ Delete(a) \/ rotateEnds(a) \/ release(a)

BackupNext ==
    \/ \E a \in Admins, kind \in {"scheduled", "manual"} : begin(a, kind)
    \/ \E a \in Admins : BackupStep(a) \/ DeleteInterrupted(a) \/ BackupCrash(a)
    \/ expire
    \/ \E n \in Numbers : handleBackupDelete(n)

\* A server goes on with its backup, and the key of one that does not renew
\* it expires.
BackupFairness ==
    /\ \A a \in Admins : WF_backupVars(BackupStep(a))
    /\ WF_backupVars(lease # NoAdmin /\ ~Busy(lease) /\ expire)

BackupSpec == BackupInit /\ [][BackupNext]_backupVars /\ BackupFairness

(***************************************************************************)
(* Properties.                                                             *)
(***************************************************************************)
\* Every variable of the backups has its type, and a server at work has a
\* backup of its own.
BackupTypeOK ==
    /\ dir \in [Numbers -> [kind : {"none", "scheduled", "manual"},
                            archive : {"none", "partial", "whole"}, meta : {"none", "done", "failed"}]]
    /\ admin \in [Admins -> [at : {"idle", "begun", "dump", "meta", "upload", "rotate",
                                   "delete", "release"},
                             n : 0 .. MaxBackups, cancelled : BOOLEAN, victims : SUBSET Numbers]]
    /\ lease \in Admins \cup {NoAdmin}
    /\ begun \in 0 .. MaxBackups /\ lapses \in Nat /\ faults \in Nat
    /\ removed \in SUBSET Numbers /\ rotated \in SUBSET Numbers
    /\ \A a \in Admins : admin[a].at # "idle" =>
          admin[a].n > 0 /\ \A b \in Admins \ {a} : admin[b].n # admin[a].n

\* "One at a time across processes": a server at work on a backup, its
\* rotation included, holds the lease (so that there is one of them), unless
\* a lease expired under its holder.
OneBackup == lapses = 0 => \A a \in Admins : Busy(a) => lease = a

\* The list tells the truth, whatever crashes, fails and is deleted meanwhile:
\* a backup listed as done has its whole archive unless somebody deleted it,
\* and of a failed one nothing is left.
MetaTruthful ==
    \A n \in Numbers :
        /\ dir[n].meta = "done" => dir[n].archive = "whole" \/ n \in removed \cup rotated
        /\ dir[n].meta = "failed" => dir[n].archive = "none"

\* The rotation of any server deletes scheduled backups only, and none of the
\* newest Keep that were ever begun.
NewestKept ==
    \A n \in rotated :
        /\ dir[n].kind = "scheduled"
        /\ Cardinality({k \in Numbers : k > n /\ dir[k].kind = "scheduled"}) >= Keep

\* A backup that begins ends, and the lease is free again for the others.
BackupsEnd ==
    /\ \A a \in Admins : admin[a].at # "idle" ~> admin[a].at = "idle"
    /\ lease # NoAdmin ~> lease = NoAdmin

\* Servers that lose their lease, fail or die leave one backup at a time, a
\* list that tells the truth, and the newest backups in place.
BackupsSound == OneBackup /\ MetaTruthful /\ NewestKept

-----------------------------------------------------------------------------
(***************************************************************************)
(* Continuous archiving of the database's log (backup/wal.go): PostgreSQL  *)
(* runs the archive command for a finished segment until it succeeds, and  *)
(* only then may recycle the segment; the command stores a local copy and  *)
(* an off-site one, and may fail or die at any of its steps.  A recovery   *)
(* asks for the segment back, perhaps on a machine without the local       *)
(* archive.                                                                *)
(***************************************************************************)
CONSTANTS
    Segments,
    MaxWalFaults   \* bound of the model: failed and killed commands

ASSUME WalAssumption == MaxWalFaults \in Nat

VARIABLES
    local,      \* the local copy of each segment
    offsite,    \* segments with an off-site copy
    reported,   \* segments the command succeeded for
    command,    \* the archive command that runs
    restored,   \* segments given back to a recovery
    walFaults

walVars == <<local, offsite, reported, command, restored, walFaults>>

NoCommand == [at |-> "none"]

WalInit ==
    /\ local = [s \in Segments |-> "none"]
    /\ offsite = {} /\ reported = {}
    /\ command = NoCommand
    /\ restored = {}
    /\ walFaults = 0

\* PostgreSQL archives one segment at a time.
ArchiveCommand(s) ==
    /\ command = NoCommand /\ s \notin reported
    /\ command' = [at |-> "compare", segment |-> s]
    /\ UNCHANGED <<local, offsite, reported, restored, walFaults>>

CommandStep(at) == command' = [command EXCEPT !.at = at]
CommandFails == command' = NoCommand

\* Mutant: a segment that is there already counts as archived.
ArchiveWALOnce ==
    /\ command.at = "compare"
    /\ IF local[command.segment] = "whole"
       THEN reported' = reported \cup {command.segment} /\ CommandFails
       ELSE CommandStep("copy") /\ UNCHANGED reported
    /\ UNCHANGED <<local, offsite, restored, walFaults>>

\* sameContent: an equal copy is taken as it is, a different one is refused.
ArchiveWAL ==
    /\ command.at = "compare"
    /\ CASE local[command.segment] = "whole" -> CommandStep("upload")
         [] local[command.segment] = "none" -> CommandStep("copy")
         [] OTHER -> CommandFails
    /\ UNCHANGED <<local, offsite, reported, restored, walFaults>>

\* Mutant: the copy grows under its final name.
copyInPlace ==
    /\ command.at = "copy"
    /\ LET s == command.segment
       IN  IF local[s] = "none"
           THEN local' = [local EXCEPT ![s] = "partial"] /\ UNCHANGED command
           ELSE local' = [local EXCEPT ![s] = "whole"] /\ CommandStep("upload")
    /\ UNCHANGED <<offsite, reported, restored, walFaults>>

\* Through a temporary file, synced before the rename.
copyDurably ==
    /\ command.at = "copy"
    /\ local' = [local EXCEPT ![command.segment] = "whole"]
    /\ CommandStep("upload")
    /\ UNCHANGED <<offsite, reported, restored, walFaults>>

UploadWAL ==
    /\ command.at = "upload"
    /\ offsite' = offsite \cup {command.segment}
    /\ CommandStep("report")
    /\ UNCHANGED <<local, reported, restored, walFaults>>

ReportWAL ==
    /\ command.at = "report"
    /\ reported' = reported \cup {command.segment}
    /\ CommandFails
    /\ UNCHANGED <<local, offsite, restored, walFaults>>

\* A step fails, or the command or the machine dies.
CommandDies ==
    /\ command # NoCommand /\ walFaults < MaxWalFaults
    /\ walFaults' = walFaults + 1
    /\ CommandFails
    /\ UNCHANGED <<local, offsite, reported, restored>>

\* The machine with the local archive is lost, or another one recovers.
LoseLocal ==
    /\ command = NoCommand /\ walFaults < MaxWalFaults
    /\ walFaults' = walFaults + 1
    /\ local' = [s \in Segments |-> "none"]
    /\ UNCHANGED <<offsite, reported, command, restored>>

\* Mutant: the off-site archive is not asked.
RestoreWALLocally(s) ==
    /\ local[s] # "none"
    /\ restored' = restored \cup {s}
    /\ UNCHANGED <<local, offsite, reported, command, walFaults>>

RestoreWAL(s) ==
    /\ local[s] # "none" \/ s \in offsite
    /\ restored' = restored \cup {s}
    /\ UNCHANGED <<local, offsite, reported, command, walFaults>>

Archive == ArchiveWAL \/ copyDurably \/ UploadWAL \/ ReportWAL

WalNext ==
    \/ \E s \in Segments : ArchiveCommand(s)
    \/ Archive
    \/ CommandDies \/ LoseLocal
    \/ \E s \in Segments : RestoreWAL(s)

\* PostgreSQL tries every segment again, a command goes on, and a recovery
\* is tried.
WalFairness ==
    /\ \A s \in Segments : SF_walVars(ArchiveCommand(s)) /\ WF_walVars(RestoreWAL(s))
    /\ WF_walVars(Archive)

WalSpec == WalInit /\ [][WalNext]_walVars /\ WalFairness

(***************************************************************************)
(* Properties.                                                             *)
(***************************************************************************)
\* Every variable has its type; no copy under a segment's name is partial.
WalTypeOK ==
    /\ local \in [Segments -> {"none", "whole"}]
    /\ offsite \in SUBSET Segments /\ reported \in SUBSET Segments
    /\ command \in {NoCommand}
                   \cup [at : {"compare", "copy", "upload", "report"}, segment : Segments]
    /\ restored \in SUBSET Segments
    /\ walFaults \in Nat

\* The database recycles a segment only when it is stored off site too, even
\* when the command that stored it died before it could say so, and tries
\* again.
ArchivedSafe == reported \subseteq offsite

\* However often the command fails or dies, a segment it was called for is
\* archived in the end, and then a recovery gets it, from either copy.
WalEnds ==
    \A s \in Segments :
        /\ command # NoCommand /\ command.segment = s ~> s \in reported
        /\ s \in reported ~> s \in restored

=============================================================================
