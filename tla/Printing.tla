------------------------------ MODULE Printing ------------------------------
(***************************************************************************)
(* Printing: the contest web server queues documents within a contestant's *)
(* limits (contestweb/printing.go), one printing service hands them to lp  *)
(* (printing/service.go), and the staff delivers, reprints and cancels     *)
(* (adminweb/printing.go).  The jobs are those of one contestant; the mark  *)
(* that a printed one was delivered is left out, as nothing depends on it. *)
(*                                                                         *)
(* A service without a printer marks the jobs done without printing them:  *)
(* what a job says of itself (status_text) tells them apart.               *)
(*                                                                         *)
(* copies, lost and unasked are history: the copies lp made of a job since *)
(* a person last queued it, those of them whose outcome was not recorded,  *)
(* and the jobs that were queued without asking for the limits.  Paper     *)
(* that came out of a run of lp that ended in an error is not counted: the *)
(* service runs lp again all the same.                                     *)
(***************************************************************************)
EXTENDS Integers, FiniteSets, FiniteSetsExt

CONSTANTS
    PrintJobs,      \* the job ids, 1 to some number
    Pages,          \* the page counts of documents
    MaxPrintJobs,   \* the contest's limits
    MaxTotalPages,  \* NoLimit or a number
    NoLimit,
    LpAttempts,     \* attempts at running lp
    \* Bounds of the model
    MaxStops,       \* stops of the service and lost records
    MaxReprints

ASSUME PrintingAssumption ==
    /\ PrintJobs \in SUBSET (Nat \ {0}) /\ IsFiniteSet(PrintJobs)
    /\ Pages \in SUBSET Nat
    /\ MaxPrintJobs \in Nat /\ MaxTotalPages \in Nat \cup {NoLimit} /\ NoLimit \notin Nat
    /\ LpAttempts \in Nat \ {0}
    /\ MaxStops \in Nat /\ MaxReprints \in Nat

VARIABLES
    print,       \* the print_jobs rows
    service,     \* the printing service
    printer,     \* its configuration names a printer
    copies,      \* history
    lost,        \* history
    unasked,     \* history
    unrecorded,  \* jobs whose outcome was lost since the service started
    stops, reprints

printVars == <<print, service, printer, copies, lost, unasked, unrecorded, stops, reprints>>

Statuses == {"absent", "queued", "printing", "done", "failed"}

\* What status_text says: that there is no printer, or anything else (what lp
\* answered, why printing failed, that the staff cancelled the job).
StatusTexts == {"other", "no printer"}

ServiceIdle == [at |-> "idle"]
ServiceDown == [at |-> "down"]

PrintInit ==
    /\ print = [j \in PrintJobs |-> [status |-> "absent", pages |-> 0, text |-> "other"]]
    /\ service = ServiceDown /\ printer = TRUE /\ unasked = {}
    /\ unrecorded = {}
    /\ copies = [j \in PrintJobs |-> 0] /\ lost = [j \in PrintJobs |-> 0]
    /\ stops = 0 /\ reprints = 0

With(status) == {j \in PrintJobs : print[j].status = status}

(***************************************************************************)
(* The contestant.                                                         *)
(***************************************************************************)
\* Mutant: printed jobs no longer count.
UsedQueued == With("queued") \cup With("printing")

\* PrintUsage: failed jobs do not count.
Used == With("queued") \cup With("printing") \cup With("done")

PagesOf(jobs) == MapThenSumSet(LAMBDA j : print[j].pages, jobs)

UsedPages == PagesOf(Used)

WithinLimits(pages) ==
    /\ MaxPrintJobs > 0 => Cardinality(Used) < MaxPrintJobs
    /\ MaxTotalPages # NoLimit => UsedPages + pages <= MaxTotalPages

\* Usage and insertion are one transaction that locks the participation.  An
\* unrestricted participation has no limits; the staff may set and clear that
\* between two requests.
handlePrint(pages, unrestricted) ==
    /\ With("absent") # {}
    /\ unrestricted \/ WithinLimits(pages)
    /\ LET j == Min(With("absent"))
       IN  /\ print' = [print EXCEPT ![j].status = "queued", ![j].pages = pages]
           /\ unasked' = IF unrestricted THEN unasked \cup {j} ELSE unasked
    /\ UNCHANGED <<service, printer, copies, lost, unrecorded, stops, reprints>>

(***************************************************************************)
(* The service.                                                            *)
(***************************************************************************)
\* Mutant: the jobs a stopped service left behind stay where they are.
RunOnly ==
    /\ service = ServiceDown
    /\ service' = ServiceIdle /\ printer' \in BOOLEAN
    /\ unrecorded' = {}
    /\ UNCHANGED <<print, copies, lost, unasked, stops, reprints>>

\* The configuration is read and RequeueInterruptedPrintJobs runs once at the
\* start.
Run ==
    /\ service = ServiceDown
    /\ service' = ServiceIdle /\ printer' \in BOOLEAN
    /\ unrecorded' = {}
    /\ print' = [j \in PrintJobs |->
          IF print[j].status = "printing" THEN [print[j] EXCEPT !.status = "queued"] ELSE print[j]]
    /\ UNCHANGED <<copies, lost, unasked, stops, reprints>>

\* Mutant: the job is read, not claimed.
ClaimPrintJobUnmarked ==
    /\ service = ServiceIdle /\ With("queued") # {}
    /\ service' = [at |-> "lp", job |-> Min(With("queued")), attempt |-> 1]
    /\ UNCHANGED <<print, printer, copies, lost, unasked, unrecorded, stops, reprints>>

ClaimPrintJob ==
    /\ service = ServiceIdle /\ With("queued") # {}
    /\ LET j == Min(With("queued"))
       IN  /\ print' = [print EXCEPT ![j].status = "printing"]
           /\ service' = [at |-> "lp", job |-> j, attempt |-> 1]
    /\ UNCHANGED <<printer, copies, lost, unasked, unrecorded, stops, reprints>>

ToFinish(j, status, text) ==
    service' = [at |-> "finish", job |-> j, status |-> status, text |-> text]

\* The document cannot be read or is too long for the printer.
printRefused ==
    /\ service.at = "lp" /\ service.attempt = 1
    /\ ToFinish(service.job, "failed", "other")
    /\ UNCHANGED <<print, printer, copies, lost, unasked, unrecorded, stops, reprints>>

\* No printer is configured: the job is done and says so.
printSkipped ==
    /\ service.at = "lp" /\ ~printer
    /\ ToFinish(service.job, "done", "no printer")
    /\ UNCHANGED <<print, printer, copies, lost, unasked, unrecorded, stops, reprints>>

\* Mutant: one attempt too many.
lpOnceMore ==
    /\ service.at = "lp" /\ printer
    /\ LET j == service.job
       IN  \E error \in BOOLEAN :
             /\ copies' = IF error THEN copies ELSE [copies EXCEPT ![j] = @ + 1]
             /\ IF error /\ service.attempt <= LpAttempts
                THEN service' = [service EXCEPT !.attempt = @ + 1]
                ELSE IF error THEN ToFinish(j, "failed", "other") ELSE ToFinish(j, "done", "other")
    /\ UNCHANGED <<print, printer, lost, unasked, unrecorded, stops, reprints>>

\* lp is tried again after any error and a minute's silence.
lp ==
    /\ service.at = "lp" /\ printer
    /\ LET j == service.job
       IN  \E error \in BOOLEAN :
             /\ copies' = IF error THEN copies ELSE [copies EXCEPT ![j] = @ + 1]
             /\ IF error /\ service.attempt < LpAttempts
                THEN service' = [service EXCEPT !.attempt = @ + 1]
                ELSE IF error THEN ToFinish(j, "failed", "other") ELSE ToFinish(j, "done", "other")
    /\ UNCHANGED <<print, printer, lost, unasked, unrecorded, stops, reprints>>

\* FinishPrintJob: only a job still being printed.
FinishPrintJob ==
    /\ service.at = "finish"
    /\ service' = ServiceIdle
    /\ LET j == service.job
       IN  print' = IF print[j].status = "printing"
                    THEN [print EXCEPT ![j].status = service.status, ![j].text = service.text]
                    ELSE print
    /\ UNCHANGED <<printer, copies, lost, unasked, unrecorded, stops, reprints>>

\* A copy that lp took without an error goes unrecorded.
CopyLost ==
    lost' = IF service.at = "finish" /\ service.status = "done" /\ service.text # "no printer"
            THEN [lost EXCEPT ![service.job] = @ + 1] ELSE lost

\* The outcome could not be recorded: the service goes on with the next job.
FinishError ==
    /\ service.at = "finish" /\ stops < MaxStops
    /\ stops' = stops + 1
    /\ service' = ServiceIdle /\ CopyLost
    /\ unrecorded' = unrecorded \cup {service.job}
    /\ UNCHANGED <<print, printer, copies, unasked, reprints>>

\* The service stops or dies.
StopService ==
    /\ service # ServiceDown /\ stops < MaxStops
    /\ stops' = stops + 1
    /\ service' = ServiceDown /\ CopyLost
    /\ UNCHANGED <<print, printer, copies, unasked, unrecorded, reprints>>

(***************************************************************************)
(* The staff.                                                              *)
(***************************************************************************)
RequeuePrintJob(j) ==
    /\ print[j].status \in {"done", "failed"} /\ reprints < MaxReprints
    /\ reprints' = reprints + 1
    /\ print' = [print EXCEPT ![j].status = "queued", ![j].text = "other"]
    /\ copies' = [copies EXCEPT ![j] = 0] /\ lost' = [lost EXCEPT ![j] = 0]
    /\ unasked' = IF print[j].status = "failed" THEN unasked \cup {j} ELSE unasked
    /\ UNCHANGED <<service, printer, unrecorded, stops>>

CancelPrintJob(j) ==
    /\ print[j].status = "queued"
    /\ print' = [print EXCEPT ![j].status = "failed", ![j].text = "other"]
    /\ UNCHANGED <<service, printer, copies, lost, unasked, unrecorded, stops, reprints>>

Serve == Run \/ ClaimPrintJob \/ printRefused \/ printSkipped \/ lp \/ FinishPrintJob

PrintNext ==
    \/ \E n \in Pages, unrestricted \in BOOLEAN : handlePrint(n, unrestricted)
    \/ Serve \/ FinishError \/ StopService
    \/ \E j \in PrintJobs : RequeuePrintJob(j)
    \/ \E j \in PrintJobs : CancelPrintJob(j)

\* The service is started again when it stopped, and does its work.
PrintFairness == WF_printVars(Serve)

PrintSpec == PrintInit /\ [][PrintNext]_printVars /\ PrintFairness

(***************************************************************************)
(* Properties.                                                             *)
(***************************************************************************)
\* Every variable of the printing service has its type.
PrintTypeOK ==
    /\ print \in [PrintJobs -> [status : Statuses, pages : Nat, text : StatusTexts]]
    /\ service \in {ServiceIdle, ServiceDown}
                   \cup [at : {"lp"}, job : PrintJobs, attempt : 1 .. LpAttempts]
                   \cup [at : {"finish"}, job : PrintJobs, status : {"done", "failed"},
                         text : StatusTexts]
    /\ printer \in BOOLEAN
    /\ unrecorded \in SUBSET PrintJobs /\ unasked \in SUBSET PrintJobs
    /\ copies \in [PrintJobs -> Nat] /\ lost \in [PrintJobs -> Nat]
    /\ stops \in Nat /\ reprints \in Nat

\* Every copy is accounted for.  A job that is done and does not say that there
\* is no printer was printed, and once; a job that waits, failed, was
\* cancelled or had no printer has no copy; both but for one copy for each
\* outcome that an interruption or a failing statement kept from being
\* recorded.  Claiming, requeueing at a restart, trying again, cancelling and
\* reprinting never give a job to the printer a second time by themselves.
Recorded(j) == print[j].status = "done" /\ print[j].text # "no printer"
PrintedOnce ==
    \A j \in PrintJobs :
        /\ Recorded(j) => copies[j] = lost[j] + 1
        /\ print[j].status # "printing" /\ ~Recorded(j) => copies[j] = lost[j]

\* The limits hold whatever fails, is cancelled and queued again, for all but
\* the jobs that were queued without asking for them: those of a time when the
\* participation was unrestricted, and those that had failed and that the
\* staff queued again.
Counted == {j \in PrintJobs : print[j].status \notin {"absent", "failed"}}
Due == Counted \ unasked
JobLimit == MaxPrintJobs > 0 => Cardinality(Due) <= MaxPrintJobs
PageLimit == MaxTotalPages # NoLimit => PagesOf(Due) <= MaxTotalPages

\* Every queued job is printed or fails, unless its outcome could not be
\* recorded and the service has not been restarted since.
PrintJobsEnd ==
    \A j \in PrintJobs :
        print[j].status = "queued" ~>
            print[j].status \in {"done", "failed"} \/ j \in unrecorded

\* Crashes, retries of lp, cancellations and reprints neither print what is
\* not accounted for nor account for what is not printed.
PrintsSound == PrintedOnce /\ JobLimit /\ PageLimit

=============================================================================
