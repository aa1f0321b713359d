----------------------------- MODULE BlobStore -----------------------------
(***************************************************************************)
(* The content-addressed store with its blobs table and its garbage        *)
(* collector (internal/blob), and the remembered compilations              *)
(* (internal/dispatcher/compilecache.go), which keep executables alive.    *)
(*                                                                         *)
(* A request stores a blob and later commits the row that refers to it:    *)
(* the web servers register the blob first (Tracked.Put); the workers do   *)
(* not, and the dispatcher registers their executables in the transaction  *)
(* that refers to them; a compilation taken from the cache stores nothing. *)
(* Meanwhile the garbage collector lists unreferenced blobs and deletes    *)
(* them one by one.                                                        *)
(*                                                                         *)
(* The field safe is history: the blob of the request was unknown to the   *)
(* database when the request looked for it ("new"), or was there, referred *)
(* to and not listed for deletion, and has been since, or was there and    *)
(* not listed when the request committed its row ("shared").               *)
(***************************************************************************)
EXTENDS Naturals

CONSTANTS
    Digests,     \* the contents
    Requests,    \* uploads, compilations and cache hits
    MaxSweeps    \* bound: the runs of the garbage collector

ASSUME BlobStoreAssumption == MaxSweeps \in Nat

VARIABLES
    stored,      \* the objects of the store
    record,      \* the blobs table, by the age of the registration
    request,     \* how far each request is
    rows,        \* the requests whose row is in the database
    remembered,  \* compilation_cache_files, by their last use
    gc,          \* the garbage collector
    sweeps       \* its runs so far

storeVars == <<stored, record, request, rows, remembered, gc, sweeps>>

Stages == {"idle", "storing", "stored", "registered", "hit", "ended"}
Kinds == {"file", "executable", "cached"}

\* d is referenced by the row of a request in rs or remembered in mem.
ReferencedBy(d, rs, mem) ==
    \/ \E u \in rs : request[u].digest = d
    \/ mem[d] # "none"

Referenced(d) == ReferencedBy(d, rows, remembered)

Kept(d) == Referenced(d) /\ d \in stored \ gc.listed

StoreInit ==
    /\ stored = {}
    /\ record = [d \in Digests |-> "none"]
    /\ request \in [Requests -> [stage : {"idle"}, kind : Kinds, digest : Digests,
                                 safe : {"no"}]]
    /\ rows = {}
    /\ remembered = [d \in Digests |-> "none"]
    /\ gc = [stage |-> "idle", listed |-> {}]
    /\ sweeps = 0

Is(u, stage) == request[u].stage = stage

Becomes(u, stage) == request' = [request EXCEPT ![u].stage = stage]

(***************************************************************************)
(* Requests.                                                               *)
(***************************************************************************)
\* Put and PutBytes look for the object first.
LookUp(u) ==
    LET d == request[u].digest
    IN  /\ Is(u, "idle") /\ request[u].kind # "cached"
        /\ request' = [request EXCEPT
              ![u].stage = IF d \in stored THEN "stored" ELSE "storing",
              ![u].safe = CASE record[d] = "none" -> "new"
                            [] record[d] # "none" /\ Kept(d) -> "shared"
                            [] OTHER -> "no"]
        /\ UNCHANGED <<stored, record, rows, remembered, gc, sweeps>>

publish(u) ==
    /\ Is(u, "storing")
    /\ stored' = stored \cup {request[u].digest}
    /\ Becomes(u, "stored")
    /\ UNCHANGED <<record, rows, remembered, gc, sweeps>>

\* RegisterBlob: ON CONFLICT DO NOTHING.
Registered(d) == [record EXCEPT ![d] = IF @ = "none" THEN "fresh" ELSE @]

register(u) ==
    /\ Is(u, "stored") /\ request[u].kind = "file"
    /\ record' = Registered(request[u].digest)
    /\ Becomes(u, "registered")
    /\ UNCHANGED <<stored, rows, remembered, gc, sweeps>>

\* The row is committed, whether the blob is still there or not.
Commits(u) ==
    /\ rows' = rows \cup {u}
    /\ request' = [request EXCEPT
          ![u].stage = "ended",
          ![u].safe = IF request[u].digest \in stored \ gc.listed THEN "shared" ELSE @]

\* The transaction that stores the row of an upload.
CommitFile(u) ==
    /\ Is(u, "registered")
    /\ Commits(u)
    /\ UNCHANGED <<stored, record, remembered, gc, sweeps>>

\* applyCompilation: registers the executables, refers to them, and
\* remembers the compilation (the first one stays).
CommitExecutable(u) ==
    LET d == request[u].digest
    IN  /\ Is(u, "stored") /\ request[u].kind = "executable"
        /\ record' = Registered(d)
        /\ remembered' = [remembered EXCEPT ![d] = IF @ = "none" THEN "recent" ELSE @]
        /\ Commits(u)
        /\ UNCHANGED <<stored, gc, sweeps>>

\* cachedCompilation reads the entry and marks it used.
cachedCompilation(u) ==
    LET d == request[u].digest
    IN  /\ Is(u, "idle") /\ request[u].kind = "cached"
        /\ remembered[d] # "none"
        /\ request' = [request EXCEPT ![u].stage = "hit", ![u].safe = IF Kept(d) THEN "shared" ELSE "no"]
        /\ UNCHANGED <<stored, record, rows, remembered, gc, sweeps>>

\* UseCompilationCache updates nothing if the entry is gone by now.
CommitCached(u) ==
    LET d == request[u].digest
    IN  /\ Is(u, "hit")
        /\ remembered' = [remembered EXCEPT ![d] = IF @ = "none" THEN @ ELSE "recent"]
        /\ record' = Registered(d)
        /\ Commits(u)
        /\ UNCHANGED <<stored, gc, sweeps>>

\* The request fails, or its process dies.
Abort(u) ==
    /\ request[u].stage \notin {"idle", "ended"}
    /\ Becomes(u, "ended")
    /\ UNCHANGED <<stored, record, rows, remembered, gc, sweeps>>

\* History: what is not referenced any more is not shared.
Unshared ==
    request' = [u \in Requests |->
        IF request[u].safe = "shared" /\ request[u].stage # "ended"
             /\ ~ReferencedBy(request[u].digest, rows', remembered')
        THEN [request[u] EXCEPT !.safe = "no"] ELSE request[u]]

\* The row is deleted (a submission, a contest, a replaced file).
DeleteRow(u) ==
    /\ u \in rows
    /\ rows' = rows \ {u}
    /\ UNCHANGED <<stored, record, remembered, gc, sweeps>>
    /\ Unshared

\* A recompilation clears the cache (ClearCompilationCache).
ClearCompilationCache ==
    /\ \E d \in Digests : remembered[d] # "none"
    /\ remembered' = [d \in Digests |-> "none"]
    /\ UNCHANGED <<stored, record, rows, gc, sweeps>>
    /\ Unshared

(***************************************************************************)
(* Time.  The grace period is longer than any request: a record does not   *)
(* leave it while a request is under way that began before it was made.    *)
(* The collector takes its threshold when it starts.                       *)
(***************************************************************************)
Age(d) ==
    /\ record[d] = "fresh" /\ gc.stage = "idle"
    /\ \A u \in Requests : request[u].digest = d /\ request[u].safe = "new" => Is(u, "ended")
    /\ record' = [record EXCEPT ![d] = "old"]
    /\ UNCHANGED <<stored, request, rows, remembered, gc, sweeps>>

Unused(d) ==
    /\ remembered[d] = "recent" /\ gc.stage = "idle"
    /\ remembered' = [remembered EXCEPT ![d] = "stale"]
    /\ UNCHANGED <<stored, record, request, rows, gc, sweeps>>

(***************************************************************************)
(* GC.                                                                     *)
(***************************************************************************)
PruneCompilationCache ==
    /\ gc.stage = "idle" /\ sweeps < MaxSweeps
    /\ sweeps' = sweeps + 1
    /\ gc' = [stage |-> "list", listed |-> {}]
    /\ remembered' = [d \in Digests |-> IF remembered[d] = "stale" THEN "none" ELSE remembered[d]]
    /\ UNCHANGED <<stored, record, rows>>
    /\ Unshared

\* Mutant: the grace period is forgotten.
CandidatesOfAnyAge == {d \in Digests : record[d] # "none" /\ ~Referenced(d)}

\* ListUnreferencedBlobs.
Candidates == {d \in Digests : record[d] = "old" /\ ~Referenced(d)}

ListUnreferencedBlobs ==
    /\ gc.stage = "list"
    /\ gc' = [stage |-> IF Candidates = {} THEN "idle" ELSE "file", listed |-> Candidates]
    /\ UNCHANGED <<stored, record, request, rows, remembered, sweeps>>

DeleteObject ==
    /\ gc.stage = "file"
    /\ \E d \in gc.listed :
         /\ stored' = stored \ {d}
         /\ gc' = [stage |-> "record", listed |-> gc.listed, digest |-> d]
    /\ UNCHANGED <<record, request, rows, remembered, sweeps>>

\* Mutant: the record is marked instead of deleted.
DeleteBlobRecordKept ==
    /\ gc.stage = "record"
    /\ record' = [record EXCEPT ![gc.digest] = "deleted"]
    /\ gc' = [stage |-> "list", listed |-> {}]
    /\ UNCHANGED <<stored, request, rows, remembered, sweeps>>

DeleteBlobRecord ==
    LET left == gc.listed \ {gc.digest}
    IN  /\ gc.stage = "record"
        /\ record' = [record EXCEPT ![gc.digest] = "none"]
        /\ gc' = [stage |-> IF left = {} THEN "idle" ELSE "file", listed |-> left]
        /\ UNCHANGED <<stored, request, rows, remembered, sweeps>>

\* An error or a crash ends the run where it is.
StopGC ==
    /\ gc.stage # "idle"
    /\ gc' = [stage |-> "idle", listed |-> {}]
    /\ UNCHANGED <<stored, record, request, rows, remembered, sweeps>>

StoreNext ==
    \/ \E u \in Requests : LookUp(u)
    \/ \E u \in Requests : publish(u)
    \/ \E u \in Requests : register(u)
    \/ \E u \in Requests : CommitFile(u)
    \/ \E u \in Requests : CommitExecutable(u)
    \/ \E u \in Requests : cachedCompilation(u)
    \/ \E u \in Requests : CommitCached(u)
    \/ \E u \in Requests : Abort(u)
    \/ \E u \in Requests : DeleteRow(u)
    \/ ClearCompilationCache
    \/ \E d \in Digests : Age(d)
    \/ \E d \in Digests : Unused(d)
    \/ PruneCompilationCache
    \/ ListUnreferencedBlobs
    \/ DeleteObject
    \/ DeleteBlobRecord
    \/ StopGC

StoreSpec == StoreInit /\ [][StoreNext]_storeVars

(***************************************************************************)
(* Properties.                                                             *)
(***************************************************************************)
\* Every variable of the store, its table and its collector has its type.
StoreTypeOK ==
    /\ stored \in SUBSET Digests
    /\ record \in [Digests -> {"none", "fresh", "old"}]
    /\ request \in [Requests -> [stage : Stages, kind : Kinds, digest : Digests,
                                 safe : {"no", "new", "shared"}]]
    /\ rows \in SUBSET Requests
    /\ remembered \in [Digests -> {"none", "recent", "stale"}]
    /\ gc \in [stage : {"idle", "list", "file"}, listed : SUBSET Digests]
              \cup [stage : {"record"}, listed : SUBSET Digests, digest : Digests]
    /\ sweeps \in Nat

\* Garbage collection never takes a blob a row refers to, however listing,
\* deleting, registering, pruning and committing are interleaved, and
\* wherever a run of the collector stops: but for a row whose blob was
\* already taken or listed when it was committed, and that cannot befall a
\* request that brought the blob in, or found it referenced and it stayed
\* so.  It does befall one that found an old unreferenced blob: the record
\* is not renewed (tracked.go).
BlobsKept ==
    \A u \in rows : request[u].safe # "no" => request[u].digest \in stored

=============================================================================
