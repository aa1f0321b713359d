------------------------------- MODULE Intake -------------------------------
(***************************************************************************)
(* How the contest web server takes a submission in (handleSubmit and what *)
(* it calls in contestweb/handlers.go): the form is read and checked, an   *)
(* archive of outputs is opened, the outputs that an output-only           *)
(* submission lacks are completed with the best ones of the contestant's   *)
(* group, and the row is stored with its files and its receipt.            *)
(*                                                                         *)
(* Reading the form, asking for the outputs and storing are steps apart:   *)
(* meanwhile other members of the group submit, the dispatcher judges and  *)
(* judges again, and the organizers invalidate.                            *)
(***************************************************************************)
EXTENDS Integers, FiniteSets, SequencesExt

CONSTANTS
    Formats,         \* the files of the format of each task, "sources" and "outputs"
    IntakeForms,     \* the forms that may be sent
    SourceLimit,     \* the task's limit on a file, 0 for none
    ContestLimit,    \* the contest's, 0 for none
    RequestLimit,    \* the server's, on the whole request
    Deserves,        \* Deserves[n][d]: the outcome of the output n with content d
    Submitting,      \* requests handled at the same time
    \* Bounds of the model
    MaxTaken, MaxReviews

ASSUME IntakeAssumption ==
    /\ {SourceLimit, ContestLimit, MaxTaken, MaxReviews} \subseteq Nat
    /\ RequestLimit \in Nat \ {0}

VARIABLES
    inbox,       \* submissions of the group, in order of insertion
    receipts,    \* receipts in the audit log, one for each
    taking,      \* what each request has done so far
    intakeClock, \* the wall clock
    reviews      \* judgings again and invalidations so far

intakeVars == <<inbox, receipts, taking, intakeClock, reviews>>

Absent == [d |-> 0, size |-> 0, mark |-> FALSE]
NotJudged == -1
NotTaking == [at |-> "idle"]

IntakeInit ==
    /\ inbox = << >> /\ receipts = << >>
    /\ taking = [r \in Submitting |-> NotTaking]
    /\ intakeClock = 0 /\ reviews = 0

(***************************************************************************)
(* Reading the form.  A form says what the task is ("sources" or           *)
(* "outputs"), the language chosen, the files of the fields, the text of   *)
(* the editor, the archive's entries in order, and whether it is one.      *)
(***************************************************************************)
submissionLimit == RequestLimit

fileLimit ==
    LET own == IF SourceLimit = 0 THEN submissionLimit ELSE SourceLimit
    IN  IF ContestLimit # 0 /\ ContestLimit < own THEN ContestLimit ELSE own

\* The editor stands for a field without a file.
submittedFile(f, n) ==
    IF f.fields[n] = Absent /\ f.task = "sources" /\ Cardinality(Formats[f.task]) = 1 THEN f.editor ELSE f.fields[n]

\* Programs need a language of the contest and every file; outputs may be
\* some of them.
readSourcesRefuses(f) ==
    \/ MapThenSumSet(LAMBDA n : submittedFile(f, n).size, Formats[f.task]) > submissionLimit
    \/ f.task = "sources" /\ (f.language # "allowed" \/ \E n \in Formats[f.task] : submittedFile(f, n) = Absent)
    \/ \E n \in Formats[f.task] : submittedFile(f, n).size > fileLimit

readSources(f) ==
    [n \in {m \in Formats[f.task] : submittedFile(f, m) # Absent} |-> submittedFile(f, n)]

\* Entries of the archive that count: the first of each name that has no
\* file yet.
EntriesUsed(f, files) ==
    {k \in DOMAIN f.archive : /\ f.archive[k].name \in Formats[f.task] \ DOMAIN files
                              /\ \A l \in 1 .. k - 1 : f.archive[l].name # f.archive[k].name}

readOutputArchiveRefuses(f, files) ==
    \/ f.broken
    \/ \E k \in DOMAIN f.archive : f.archive[k].name \notin Formats[f.task]
    \/ \E k \in EntriesUsed(f, files) : f.archive[k].file.size > fileLimit

readOutputArchive(f, files) ==
    LET used == EntriesUsed(f, files)
    IN  [n \in DOMAIN files \cup {f.archive[k].name : k \in used} |->
            IF n \in DOMAIN files THEN files[n]
            ELSE f.archive[CHOOSE k \in used : f.archive[k].name = n].file]

readSubmission(f) ==
    IF f.task = "outputs" THEN readOutputArchive(f, readSources(f)) ELSE readSources(f)

readSubmissionRefuses(f) ==
    \/ readSourcesRefuses(f)
    \/ f.task = "outputs" /\ readOutputArchiveRefuses(f, readSources(f))
    \/ DOMAIN readSubmission(f) = {}

\* The time of the request is taken when it arrives; the limits on numbers
\* of submissions are those of ContestWeb.  Also refused, and left out: a
\* file whose extension is of another language than the one chosen (the
\* forms have none), and every form while the contest is paused, the task
\* closed or the client over its rate.
handleSubmit(r, f) ==
    /\ taking[r] = NotTaking /\ ~readSubmissionRefuses(f) /\ intakeClock < MaxTaken
    /\ intakeClock' = intakeClock + 1
    /\ taking' = [taking EXCEPT ![r] = [at |-> IF f.task = "outputs" THEN "merge" ELSE "store", task |-> f.task,
                                        files |-> readSubmission(f), now |-> intakeClock + 1,
                                        own |-> DOMAIN readSubmission(f), asked |-> {}]]
    /\ UNCHANGED <<inbox, receipts, reviews>>

(***************************************************************************)
(* The outputs of before.                                                  *)
(***************************************************************************)
\* Submissions of the group that count for the output n.
Reusable(n) == {i \in DOMAIN inbox : inbox[i].task = "outputs" /\ ~inbox[i].void /\ n \in DOMAIN inbox[i].files}

\* ORDER BY outcome DESC NULLS LAST, submitted_at DESC, id DESC
Ahead(i, j, n) ==
    LET a == inbox[i]
        b == inbox[j]
    IN  \/ a.outcome[n] > b.outcome[n]
        \/ a.outcome[n] = b.outcome[n] /\ (a.at > b.at \/ (a.at = b.at /\ i >= j))

BestPreviousOutputs ==
    [n \in {m \in Formats["outputs"] : Reusable(m) # {}} |->
        inbox[CHOOSE i \in Reusable(n) : \A j \in Reusable(n) : Ahead(i, j, n)].files[n]]

\* The dataset of the outputs is live and asks for the merge; without, a
\* submission of outputs is stored as its form has it.
mergePreviousOutputs(r) ==
    LET files == taking[r].files
        before == BestPreviousOutputs
    IN  /\ taking[r].at = "merge"
        /\ taking' = [taking EXCEPT ![r].at = "store",
               ![r].files = [n \in DOMAIN files \cup DOMAIN before |-> IF n \in DOMAIN files THEN files[n] ELSE before[n]],
               ![r].asked = {<<i, n>> \in (DOMAIN inbox) \X Formats["outputs"] : i \in Reusable(n) /\ inbox[i].outcome[n] # NotJudged}]
        /\ UNCHANGED <<inbox, receipts, intakeClock, reviews>>

(***************************************************************************)
(* Storing: the row, its files, the flags of its sources and its receipt   *)
(* in one transaction, or nothing.                                         *)
(***************************************************************************)
\* suspicious.Scan looks at sources only.
InsertSubmissionFlag(task, files) ==
    IF task = "sources" THEN {n \in DOMAIN files : files[n].mark} ELSE {}

receipt(i, files) == [sub |-> i, digests |-> [n \in DOMAIN files |-> files[n].d]]

InsertSubmissionReceipt(i, files) == receipts' = Append(receipts, receipt(i, files))

storeSubmission(r) ==
    LET q == taking[r]
    IN  /\ q.at = "store"
        /\ inbox' = Append(inbox, [task |-> q.task, at |-> q.now, files |-> q.files,
                                   flags |-> InsertSubmissionFlag(q.task, q.files),
                                   outcome |-> [n \in Formats[q.task] |-> NotJudged], void |-> FALSE,
                                   own |-> q.own, asked |-> q.asked])
        /\ InsertSubmissionReceipt(Len(inbox) + 1, q.files)
        /\ taking' = [taking EXCEPT ![r] = NotTaking]
        /\ UNCHANGED <<intakeClock, reviews>>

\* A blob or a statement fails.
storeFails(r) ==
    /\ taking[r].at = "store"
    /\ taking' = [taking EXCEPT ![r] = NotTaking]
    /\ UNCHANGED <<inbox, receipts, intakeClock, reviews>>

(***************************************************************************)
(* The dispatcher and the organizers.                                      *)
(***************************************************************************)
UpsertEvaluation(i, n) ==
    /\ inbox[i].task = "outputs" /\ inbox[i].outcome[n] = NotJudged
    /\ inbox' = [inbox EXCEPT ![i].outcome[n] = Deserves[n][inbox[i].files[n].d]]
    /\ UNCHANGED <<receipts, taking, intakeClock, reviews>>

Review == reviews < MaxReviews /\ reviews' = reviews + 1

DeleteEvaluations(i) ==
    /\ Review
    /\ inbox' = [inbox EXCEPT ![i].outcome = [n \in DOMAIN @ |-> NotJudged]]
    /\ UNCHANGED <<receipts, taking, intakeClock>>

InvalidateSubmission(i) ==
    /\ Review
    /\ inbox' = [inbox EXCEPT ![i].void = ~@]
    /\ UNCHANGED <<receipts, taking, intakeClock>>

IntakeNext ==
    \/ \E r \in Submitting : \/ \E f \in IntakeForms : handleSubmit(r, f)
                             \/ mergePreviousOutputs(r) \/ storeSubmission(r) \/ storeFails(r)
    \/ \E i \in DOMAIN inbox : \/ \E n \in DOMAIN inbox[i].files : UpsertEvaluation(i, n)
                               \/ DeleteEvaluations(i) \/ InvalidateSubmission(i)

-----------------------------------------------------------------------------
\* Every variable of the intake has its type.
IntakeTypeOK ==
    /\ intakeClock \in 0 .. MaxTaken /\ reviews \in 0 .. MaxReviews
    /\ \A i \in DOMAIN inbox : inbox[i].at \in 1 .. intakeClock /\ inbox[i].own \subseteq DOMAIN inbox[i].files
    /\ \A r \in Submitting : taking[r].at \in {"idle", "merge", "store"}

\* What is stored can be judged and keeps to the limits, whichever way each
\* file came: no submission is empty, a program has every file, no file has
\* a name the task does not know or is larger than its limit, and the
\* receipt names the files that were stored (readSources,
\* readOutputArchive, storeSubmission).
TakenWhole ==
    /\ Len(receipts) = Len(inbox)
    /\ \A i \in DOMAIN inbox :
          /\ DOMAIN inbox[i].files # {} /\ DOMAIN inbox[i].files \subseteq Formats[inbox[i].task]
          /\ inbox[i].task = "sources" => DOMAIN inbox[i].files = Formats["sources"]
          /\ \A n \in DOMAIN inbox[i].files : inbox[i].files[n].size <= fileLimit
          /\ receipts[i] = receipt(i, inbox[i].files)

\* Completing a submission never costs the contestant points: an output that
\* was not sent is worth at least what every output of the group is that was
\* judged and not invalidated when the request asked, and it comes from a
\* submission before this one; an output that was sent is never replaced
\* (mergePreviousOutputs).
CompletedBest ==
    \A i \in DOMAIN inbox : \A n \in Formats[inbox[i].task] \ inbox[i].own :
        /\ \A k \in DOMAIN inbox : <<k, n>> \in inbox[i].asked =>
              /\ n \in DOMAIN inbox[i].files
              /\ Deserves[n][inbox[i].files[n].d] >= Deserves[n][inbox[k].files[n].d]
        /\ n \in DOMAIN inbox[i].files => \E k \in 1 .. i - 1 : n \in DOMAIN inbox[k].files /\ inbox[k].files[n] = inbox[i].files[n]

\* Submissions are taken in whole and completed for the better.
IntakeSound == TakenWhole /\ CompletedBest
=============================================================================
