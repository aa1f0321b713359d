----------------------------- MODULE BlobCache -----------------------------
(***************************************************************************)
(* The local blob cache of a worker or a server (internal/blob/cache.go):  *)
(* an LRU index kept under a mutex, and files renamed into place and       *)
(* removed partly outside it.  Threads open, put and delete blobs at the   *)
(* same time; every blob has the size of one unit.                         *)
(*                                                                         *)
(* An action is what a thread does between two points where another one    *)
(* can run: a section under the mutex, or one file or backend operation.   *)
(* The field removed is history: how often, during a call, the blob's file *)
(* was removed or its entry was made for a file already gone, counted up   *)
(* to OpenTries.                                                           *)
(***************************************************************************)
EXTENDS Naturals, Sequences, SequencesExt

CONSTANTS
    Blobs,        \* the digests
    Threads,      \* the goroutines that use the cache
    MaxBytes,     \* the size of the cache
    OpenTries,    \* the attempts of OpenFile
    MaxCalls      \* bound: the calls all the threads make

ASSUME BlobCacheAssumption ==
    /\ MaxBytes \in Nat /\ OpenTries \in Nat \ {0} /\ MaxCalls \in Nat

VARIABLES
    lru,       \* the index, most recently used first
    files,     \* the files in objects/
    backend,   \* the blobs of the store behind the cache
    call,      \* the download each blob has under way, if any
    thread,    \* what each thread is doing
    started    \* calls so far

cacheVars == <<lru, files, backend, call, thread, started>>

Steps == {"fetch", "download", "rename", "enter", "return", "wait", "open",
          "forget", "contains", "store", "drop", "unlink", "erase"}
Ends == {"none", "done", "failed", "evicted"}
Ops == {"open", "put", "delete"}

Idle(end) == [at |-> "idle", end |-> end]

Active == [at : Steps, op : Ops, blob : Blobs, tries : 0 .. OpenTries - 1,
           removed : 0 .. OpenTries]

Indexed == ToSet(lru)

CacheInit ==
    /\ lru = <<>> /\ files = {}
    /\ backend \in SUBSET Blobs
    /\ call = [d \in Blobs |-> FALSE]
    /\ thread = [t \in Threads |-> Idle("none")]
    /\ started = 0

At(t, step) == thread[t].at = step
Goto(t, step) == thread' = [thread EXCEPT ![t].at = step]
End(t, end) == thread' = [thread EXCEPT ![t] = Idle(end)]

Others == <<backend, call, started>>

\* The threads, with the loss of the files of gone on record.
Counted(gone) ==
    [t \in Threads |->
        IF thread[t].at # "idle" /\ thread[t].op = "open" /\ thread[t].blob \in gone
             /\ thread[t].removed < OpenTries
        THEN [thread[t] EXCEPT !.removed = @ + 1] ELSE thread[t]]

\* lru.Remove takes the element of d out of the list.
Without(d) ==
    IF d \in Indexed THEN RemoveAt(lru, CHOOSE i \in DOMAIN lru : lru[i] = d) ELSE lru

MoveToFront(d) == <<d>> \o Without(d)

(***************************************************************************)
(* Calls.                                                                  *)
(***************************************************************************)
Call(t, op, d) ==
    /\ At(t, "idle") /\ started < MaxCalls
    /\ started' = started + 1
    /\ thread' = [thread EXCEPT ![t] =
          [at |-> CASE op = "open" -> "fetch" [] op = "put" -> "store" [] op = "delete" -> "drop",
           op |-> op, blob |-> d, tries |-> 0, removed |-> 0]]
    /\ UNCHANGED <<lru, files, backend, call>>

\* Fetch, under the mutex: a hit, a download to wait for, or a new one.
Fetch(t) ==
    LET d == thread[t].blob
    IN  /\ At(t, "fetch")
        /\ \/ /\ d \in Indexed
              /\ lru' = MoveToFront(d)
              /\ Goto(t, "open")
              /\ UNCHANGED call
           \/ /\ d \notin Indexed /\ call[d]
              /\ Goto(t, "wait")
              /\ UNCHANGED <<lru, call>>
           \/ /\ d \notin Indexed /\ ~call[d]
              /\ call' = [call EXCEPT ![d] = TRUE]
              /\ Goto(t, "download")
              /\ UNCHANGED lru
        /\ UNCHANGED <<files, backend, started>>

\* The call ends: those that wait for it take its error or fetch again.
Close(t, ok) ==
    LET d == thread[t].blob
        waiting == {u \in Threads : At(u, "wait") /\ thread[u].blob = d}
    IN  /\ call' = [call EXCEPT ![d] = FALSE]
        /\ thread' = [u \in Threads |->
              IF u # t /\ u \notin waiting THEN thread[u]
              ELSE IF ok THEN [thread[u] EXCEPT !.at = "fetch"] ELSE Idle("failed")]

\* Mutant: a failed download leaves its call in the map.
downloadForgotten(t) ==
    /\ At(t, "download")
    /\ IF thread[t].blob \in backend
       THEN Goto(t, "rename") /\ UNCHANGED call
       ELSE End(t, "failed") /\ UNCHANGED call
    /\ UNCHANGED <<lru, files, backend, started>>

download(t) ==
    /\ At(t, "download")
    /\ IF thread[t].blob \in backend
       THEN Goto(t, "rename") /\ UNCHANGED call
       ELSE Close(t, FALSE)
    /\ UNCHANGED <<lru, files, backend, started>>

Rename(t) ==
    /\ At(t, "rename")
    /\ files' = files \cup {thread[t].blob}
    /\ Goto(t, "enter")
    /\ UNCHANGED <<lru, Others>>

\* Mutant: one entry too many stays.
evictLockedLate(seq) ==
    LET n == IF MaxBytes + 1 < 1 THEN 1 ELSE MaxBytes + 1
    IN  IF Len(seq) <= n THEN seq ELSE SubSeq(seq, 1, n)

\* evictLocked: the least recently used go, but never the last one left.
evictLocked(seq) ==
    LET n == IF MaxBytes < 1 THEN 1 ELSE MaxBytes
    IN  IF Len(seq) <= n THEN seq ELSE SubSeq(seq, 1, n)

\* insert, under the mutex.
insert(t) ==
    LET d == thread[t].blob
        kept == evictLocked(MoveToFront(d))
        evicted == IF d \in Indexed THEN {} ELSE Indexed \ ToSet(kept)
    IN  /\ At(t, "enter")
        /\ lru' = IF d \in Indexed THEN MoveToFront(d) ELSE kept
        /\ files' = files \ evicted
        /\ thread' = [Counted(evicted \cup ({d} \ files)) EXCEPT ![t] =
              IF thread[t].op = "open" THEN [@ EXCEPT !.at = "return"] ELSE Idle("done")]
        /\ UNCHANGED <<backend, call, started>>

Return(t) ==
    /\ At(t, "return")
    /\ Close(t, TRUE)
    /\ UNCHANGED <<lru, files, backend, started>>

OpenFile(t) ==
    /\ At(t, "open")
    /\ IF thread[t].blob \in files THEN End(t, "done") ELSE Goto(t, "forget")
    /\ UNCHANGED <<lru, files, Others>>

\* Mutant: one attempt too many.
forgetOnceMore(t) ==
    /\ At(t, "forget")
    /\ lru' = Without(thread[t].blob)
    /\ IF thread[t].tries = OpenTries
       THEN End(t, "evicted")
       ELSE thread' = [thread EXCEPT ![t].at = "fetch", ![t].tries = @ + 1]
    /\ UNCHANGED <<files, Others>>

\* Mutant: the attempts are not counted, and the entry stays.
forgetForever(t) ==
    /\ At(t, "forget")
    /\ Goto(t, "fetch")
    /\ UNCHANGED <<lru, files, Others>>

\* Mutant: the entry stays in the index.
forgetNothing(t) ==
    /\ At(t, "forget")
    /\ IF thread[t].tries + 1 = OpenTries
       THEN End(t, "evicted")
       ELSE thread' = [thread EXCEPT ![t].at = "fetch", ![t].tries = @ + 1]
    /\ UNCHANGED <<lru, files, Others>>

forget(t) ==
    /\ At(t, "forget")
    /\ lru' = Without(thread[t].blob)
    /\ IF thread[t].tries + 1 = OpenTries
       THEN End(t, "evicted")
       ELSE thread' = [thread EXCEPT ![t].at = "fetch", ![t].tries = @ + 1]
    /\ UNCHANGED <<files, Others>>

\* Put: the backend first, then the local copy unless there is one.
Put(t) ==
    /\ At(t, "store")
    /\ backend' = backend \cup {thread[t].blob}
    /\ Goto(t, "contains")
    /\ UNCHANGED <<lru, files, call, started>>

KeepLocally(t) ==
    /\ At(t, "contains")
    /\ IF thread[t].blob \in Indexed THEN End(t, "done") ELSE Goto(t, "rename")
    /\ UNCHANGED <<lru, files, Others>>

\* Delete: the index, the file and the backend, one after the other.
DeleteEntry(t) ==
    /\ At(t, "drop")
    /\ lru' = Without(thread[t].blob)
    /\ Goto(t, "unlink")
    /\ UNCHANGED <<files, Others>>

DeleteFile(t) ==
    /\ At(t, "unlink")
    /\ files' = files \ {thread[t].blob}
    /\ thread' = [Counted({thread[t].blob}) EXCEPT ![t].at = "erase"]
    /\ UNCHANGED <<lru, Others>>

DeleteBlob(t) ==
    /\ At(t, "erase")
    /\ backend' = backend \ {thread[t].blob}
    /\ End(t, "done")
    /\ UNCHANGED <<lru, files, call, started>>

\* The context of a call ends while it waits, or while it downloads: then
\* those that share the download fail with it.
Cancel(t) ==
    \/ /\ At(t, "wait")
       /\ End(t, "failed")
       /\ UNCHANGED <<lru, files, Others>>
    \/ /\ At(t, "download")
       /\ Close(t, FALSE)
       /\ UNCHANGED <<lru, files, backend, started>>

\* The process restarts: NewCache indexes the files it finds, in some order.
NewCache ==
    /\ \E t \in Threads : thread[t].at # "idle"
    /\ started < MaxCalls /\ started' = started + 1
    /\ thread' = [t \in Threads |-> Idle("none")]
    /\ call' = [d \in Blobs |-> FALSE]
    /\ \E seq \in SetToSeqs(files) :
         /\ lru' = evictLocked(seq)
         /\ files' = ToSet(evictLocked(seq))
    /\ UNCHANGED backend

Step(t) ==
    \/ Fetch(t) \/ download(t) \/ Rename(t) \/ insert(t) \/ Return(t)
    \/ OpenFile(t) \/ forget(t) \/ Put(t) \/ KeepLocally(t)
    \/ DeleteEntry(t) \/ DeleteFile(t) \/ DeleteBlob(t)

CacheNext ==
    \/ \E t \in Threads, op \in Ops, d \in Blobs : Call(t, op, d)
    \/ \E t \in Threads : Step(t)
    \/ \E t \in Threads : Cancel(t)
    \/ NewCache

CacheSpec == CacheInit /\ [][CacheNext]_cacheVars

\* A thread that can go on goes on.
CacheFairness == \A t \in Threads : WF_cacheVars(Step(t))

(***************************************************************************)
(* Properties.                                                             *)
(***************************************************************************)
\* Every variable of the cache has its type.
CacheTypeOK ==
    /\ lru \in Seq(Blobs) /\ files \in SUBSET Blobs /\ backend \in SUBSET Blobs
    /\ call \in [Blobs -> BOOLEAN]
    /\ thread \in [Threads -> {Idle(e) : e \in Ends} \cup Active]
    /\ started \in 0 .. MaxCalls

\* The index never exceeds the size of the cache (one blob may), and no
\* blob is in it twice, whichever threads insert, evict and forget at once.
CacheBounded ==
    /\ Len(lru) <= MaxBytes \/ Len(lru) <= 1
    /\ IsInjective(lru)

\* A blob has at most one download under way, and a call that waits for one
\* always has it: nobody waits for a download that ended.
OneDownload ==
    \A d \in Blobs :
        LET loading == {t \in Threads : thread[t].at \in {"download", "rename", "enter", "return"}
                                          /\ thread[t].op = "open" /\ thread[t].blob = d}
        IN  /\ call[d] <=> loading # {}
            /\ \A t, u \in loading : t = u
            /\ (\E t \in Threads : At(t, "wait") /\ thread[t].blob = d) => call[d]

\* OpenFile starts over only because the file is gone: it meets an entry
\* that was already stale at most once, and for each other attempt the file
\* was removed, or an entry made too late, during the call.
RetriesEarned ==
    \A t \in Threads :
        thread[t].at # "idle" /\ thread[t].op = "open" =>
            thread[t].tries <= thread[t].removed + 1

\* Every call ends, unless files are removed for ever: a cache smaller than
\* what its readers open at the same time may keep them downloading.
CallsEnd ==
    <>[][files \subseteq files']_cacheVars => \A t \in Threads : []<>At(t, "idle")

\* Concurrent readers, downloads, evictions and deletions keep the cache
\* within its size, download a blob once at a time and fail only for cause.
CacheSound == CacheBounded /\ OneDownload /\ RetriesEarned

=============================================================================
