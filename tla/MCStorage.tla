----------------------------- MODULE MCStorage -----------------------------
(***************************************************************************)
(* What the system keeps outside its database: the blob store with its     *)
(* collector, the blob cache, the backups and the archive of the database  *)
(* log.  They share no variable: a behaviour moves one of them, and the    *)
(* others stay as they start.                                              *)
(***************************************************************************)
EXTENDS BlobStore, BlobCache, Backup

VARIABLE moving

vars == <<moving, storeVars, cacheVars, backupVars, walVars>>

Init ==
    /\ moving \in {"store", "cache", "backup", "wal"}
    /\ StoreInit /\ CacheInit /\ BackupInit /\ WalInit
    /\ moving # "cache" => backend = {}
    /\ moving # "store" => \A u, v \in Requests : request[u] = request[v]
                              /\ request[u].kind = "file"

Next ==
    \/ /\ moving = "store" /\ StoreNext
       /\ UNCHANGED <<moving, cacheVars, backupVars, walVars>>
    \/ /\ moving = "cache" /\ CacheNext
       /\ UNCHANGED <<moving, storeVars, backupVars, walVars>>
    \/ /\ moving = "backup" /\ BackupNext
       /\ UNCHANGED <<moving, storeVars, cacheVars, walVars>>
    \/ /\ moving = "wal" /\ WalNext
       /\ UNCHANGED <<moving, storeVars, cacheVars, backupVars>>

\* WalFairness asks for steps of the archive in its first state: it is
\* restated for the behaviours that move it.
Fairness ==
    /\ CacheFairness /\ BackupFairness
    /\ \A s \in Segments : /\ SF_walVars(moving = "wal" /\ ArchiveCommand(s))
                           /\ WF_walVars(moving = "wal" /\ RestoreWAL(s))
    /\ WF_walVars(moving = "wal" /\ Archive)

Spec == Init /\ [][Next]_vars /\ Fairness

\* Every variable of the storage has its type.
TypeOK == StoreTypeOK /\ CacheTypeOK /\ BackupTypeOK /\ WalTypeOK

\* Every call of the cache returns, every backup ends and gives its lease
\* back, and every segment of the log is archived and can be restored.
StorageSettles == CallsEnd /\ BackupsEnd /\ WalEnds

=============================================================================
