SPECIFICATION Spec
CONSTANTS
    Digests = {d1}
    Requests = {u1, u2}
    MaxSweeps = 2
    Blobs = {d1, d2}
    Threads = {t1, t2}
    MaxBytes = 1
    OpenTries = 3
    MaxCalls = 4
    Admins = {a1, a2}
    NoAdmin = nobody
    Keep = 1
    MaxBackups = 2
    MaxFaults = 1
    Segments = {g1, g2}
    MaxWalFaults = 2
INVARIANTS TypeOK BlobsKept CacheSound BackupsSound ArchivedSafe
PROPERTIES StorageSettles
CHECK_DEADLOCK FALSE
