------------------------------ MODULE Feedback ------------------------------
(***************************************************************************)
(* What contestants and delegation leaders read of a judged submission:    *)
(* the list of a task, the row that is refreshed, the page of a submission *)
(* and its files, and the latest ones of the overview (contestweb/views.go,*)
(* handlers.go, dashboard.go), and the leaders' two pages                  *)
(* (adminweb/delegation.go).                                               *)
(*                                                                         *)
(* There is one submission.  It is judged on two datasets, one of which is *)
(* live; contestants are answered with the contest as a web server last    *)
(* loaded it, leaders with the database.                                   *)
(***************************************************************************)
EXTENDS Integers, FiniteSets, Sequences

CONSTANTS
    Readers,        \* contestants who ask for pages
    Author,         \* who submitted
    Group,          \* the author's team, or the author alone
    Delegations,    \* teams with a leader
    Delegation,     \* the author's
    ContestForms,   \* settings a contest may have: visibility, tokens, scoring, output, download
    TestCases,      \* of both datasets
    PublicCases,    \* those whose results are public
    FullScore,      \* maximum score of the task
    OtherResult,    \* the result on the dataset that is not live at first
    MaxFormEdits    \* bound: changes of the settings

ASSUME FeedbackAssumption ==
    /\ Author \in Group /\ Group \subseteq Readers /\ Delegation \in Delegations
    /\ PublicCases \subseteq TestCases /\ FullScore \in Nat \ {0}

VARIABLES
    form,           \* settings of the contest in the database
    loaded,         \* the contest as the web server has it
    ended,          \* the contest is over / the author's own time is over
    live,           \* dataset that is live
    result,         \* result of the submission on each dataset
    tokened,        \* a token was played on it
    voided,         \* it was invalidated
    formEdits

feedbackVars == <<form, loaded, ended, live, result, tokened, voided, formEdits>>

Datasets == {"first", "second"}
Outcomes == {0, 1}
NoVerdict == ""

\* A result nothing is known of.
Unjudged == [compilation |-> "none", scored |-> FALSE, error |-> FALSE, score |-> 0, pub |-> 0,
             verdict |-> NoVerdict, cases |-> [c \in TestCases |-> 0]]

\* The results of a full judging; older ones have no verdict stored.
JudgedResults ==
    {[Unjudged EXCEPT !.compilation = "ok", !.scored = TRUE, !.cases = f, !.score = s, !.pub = p, !.verdict = v] :
        f \in [TestCases -> Outcomes], s \in 0 .. FullScore, p \in 0 .. FullScore, v \in {NoVerdict, "AC", "WA"}}
\* Scores and verdicts are those of the testcases.
Possible(r) ==
    /\ r.score = FullScore <=> \A c \in TestCases : r.cases[c] = 1
    /\ r.pub = FullScore <=> \A c \in PublicCases : r.cases[c] = 1
    /\ r.verdict # NoVerdict => (r.verdict = "AC" <=> r.score = FullScore)
Judgings == {r \in JudgedResults : Possible(r)}

FeedbackInit ==
    /\ form \in ContestForms /\ loaded = [form |-> form, live |-> "first"]
    /\ ended = [contest |-> FALSE, own |-> FALSE]
    /\ live = "first" /\ result = [d \in Datasets |-> IF d = "first" THEN Unjudged ELSE OtherResult]
    /\ tokened = FALSE /\ voided = FALSE /\ formEdits = 0

(***************************************************************************)
(* The contestants' pages, with settings f.                                *)
(***************************************************************************)
\* A mutant: the end of the contest is not the end for those with extra time.
scoresVisibleEarly(f) ==
    \/ f.visibility = "always"
    \/ f.visibility = "after" /\ ended.contest

\* After the contest, and not while the contestant still has time.
scoresVisible(f) ==
    \/ f.visibility = "always"
    \/ f.visibility = "after" /\ ended.contest /\ ended.own

fullScores(f) == f.tokens = "disabled" \/ f.taskTokens = "disabled"

\* The verdict of a score where points are shown.
VerdictOf(stored, score) ==
    IF score >= FullScore THEN "AC"
    ELSE IF score > 0 THEN "PA"
    ELSE IF stored \in {NoVerdict, "AC"} THEN "WA" ELSE stored

Says(text) == [text |-> text, verdict |-> NoVerdict, points |-> {}, public |-> FALSE]

\* What is said of result r, with points where there are any.
fillStatus(f, r) ==
    IF r.error THEN Says("failed")
    ELSE IF r.compilation = "none" THEN Says("compiling")
    ELSE IF r.compilation = "fail" THEN [Says("compilation failed") EXCEPT !.verdict = "CE"]
    ELSE IF ~r.scored THEN Says("evaluating")
    ELSE IF ~scoresVisible(f) THEN Says("evaluated")
    ELSE IF f.icpc
    THEN [Says("verdict") EXCEPT !.verdict = IF r.verdict # NoVerdict THEN r.verdict
                                             ELSE IF r.score >= FullScore THEN "AC" ELSE "WA"]
    ELSE IF fullScores(f) \/ tokened
    THEN [Says("score") EXCEPT !.points = {r.score}, !.verdict = VerdictOf(r.verdict, r.score)]
    ELSE [Says("evaluated") EXCEPT !.points = {r.pub}, !.public = TRUE]

\* A token may be played now: tokens are on, the contestant's time runs and
\* scores show.  How many there are is ContestWindow's.
tokensOpen(f) == ~fullScores(f) /\ ~ended.own /\ scoresVisible(f)

canToken(f, reader) == tokensOpen(f) /\ ~tokened /\ ~voided /\ reader = Author

\* Waiting for a worker.
queued(f, r) == fillStatus(f, r).text = "compiling" /\ ~voided

subView(f, r, reader) ==
    [status |-> fillStatus(f, r), canToken |-> canToken(f, reader), queued |-> queued(f, r), voided |-> voided,
     author |-> IF Cardinality(Group) > 1 THEN {Author} ELSE {}]

\* Rows of the submission with its result on a dataset: the one the server
\* knows to be live, or the one that is.
ListSubmissionsWithResults(group) == {r \in {result[loaded.live]} : Author \in group}
GetSubmissionWithResult == result[loaded.live]
ListRecentSubmissions(group) == {r \in {result[live]} : Author \in group}

\* The participations a reader asks for: a team's, or their own.
GroupOf(reader) == IF reader \in Group THEN Group ELSE {reader}

\* Of the contestant or the team, else not found.
ownSubmission(reader) == Author \in GroupOf(reader)

listSubs(reader) == {subView(loaded.form, r, reader) : r \in ListSubmissionsWithResults(GroupOf(reader))}
handleSubmissionRow(reader) ==
    {subView(loaded.form, r, reader) : r \in {x \in {GetSubmissionWithResult} : ownSubmission(reader)}}

\* The latest submissions of the overview.
recentSubs(reader) == {fillStatus(loaded.form, r) : r \in ListRecentSubmissions(GroupOf(reader))}

\* The subtasks together, from the details of the score that shows.
detailBlocks(f, r) == IF fullScores(f) \/ tokened THEN {r.score} ELSE {r.pub}

\* A mutant: every testcase shows.
detailRowsAll(r) == r.cases

\* The testcases that show: the public ones, or all with a token.
detailRows(r) == [c \in {x \in TestCases : x \in PublicCases \/ tokened} |-> r.cases[c]]

detailData(reader) ==
    LET f == loaded.form
        r == GetSubmissionWithResult
        \* A submission that did not compile has no details.
        scored == r.scored /\ scoresVisible(f) /\ ~f.icpc /\ r.compilation = "ok"
    IN  [sub |-> subView(f, r, reader),
         compilation |-> IF r.compilation = "none" THEN {} ELSE {<<r.compilation, f.output>>},
         blocks |-> IF scored THEN detailBlocks(f, r) ELSE {},
         rows |-> IF scored THEN detailRows(r) ELSE << >>]

handleSubmission(reader) == IF ownSubmission(reader) THEN {detailData(reader)} ELSE {}

handleSubmissionFile(reader) == ownSubmission(reader) /\ loaded.form.download

(***************************************************************************)
(* The leaders' pages.                                                     *)
(***************************************************************************)
leaderScoresVisible(f) == f.visibility = "always" \/ (f.visibility = "after" /\ ended.contest)

\* The list says what was invalidated, the page of a submission does not.
leaderResult(f, r, isVoided) ==
    IF isVoided THEN Says("invalidated")
    ELSE IF r.compilation = "fail" THEN Says("compilation failed")
    ELSE IF ~r.scored THEN Says("being judged")
    ELSE IF ~leaderScoresVisible(f) THEN Says("scored")
    ELSE IF f.icpc /\ r.verdict # NoVerdict THEN [Says("verdict") EXCEPT !.verdict = r.verdict]
    ELSE [Says("score") EXCEPT !.points = {r.pub}]

LeaderParticipations(team) == {p \in {Author} : team = Delegation}
LeaderSubmissions(parts) == {r \in {result[live]} : Author \in parts}
LeaderSubmission(team) == {r \in {result[live]} : team = Delegation}

handleDelegation(team) == {leaderResult(form, r, voided) : r \in LeaderSubmissions(LeaderParticipations(team))}
handleDelegationSubmission(team) == {leaderResult(form, r, FALSE) : r \in LeaderSubmission(team)}

(***************************************************************************)
(* What happens meanwhile.                                                 *)
(***************************************************************************)
\* The dispatcher compiles, scores, gives up, and starts again.
Compiled(outcome) ==
    /\ result[live].compilation = "none" /\ ~result[live].error
    /\ result' = [result EXCEPT ![live].compilation = outcome, ![live].scored = (outcome = "fail"),
                                ![live].verdict = IF outcome = "fail" THEN "CE" ELSE NoVerdict]
    /\ UNCHANGED <<form, loaded, ended, live, tokened, voided, formEdits>>

Scored(r) ==
    /\ result[live].compilation = "ok" /\ ~result[live].scored /\ ~result[live].error
    /\ result' = [result EXCEPT ![live] = r]
    /\ UNCHANGED <<form, loaded, ended, live, tokened, voided, formEdits>>

SystemError ==
    /\ ~result[live].scored /\ ~result[live].error
    /\ result' = [result EXCEPT ![live].error = TRUE]
    /\ UNCHANGED <<form, loaded, ended, live, tokened, voided, formEdits>>

Rejudge ==
    /\ result[live].scored \/ result[live].error
    /\ result' = [result EXCEPT ![live] = Unjudged]
    /\ UNCHANGED <<form, loaded, ended, live, tokened, voided, formEdits>>

\* handleToken, of the submission's author.
playToken(reader) ==
    /\ reader = Author /\ ~voided /\ ~tokened /\ tokensOpen(loaded.form)
    /\ tokened' = TRUE
    /\ UNCHANGED <<form, loaded, ended, live, result, voided, formEdits>>

setVoided ==
    /\ voided' = ~voided
    /\ UNCHANGED <<form, loaded, ended, live, result, tokened, formEdits>>

\* The settings change in the database; servers hear of it later.
ChangeForm(f) ==
    /\ formEdits < MaxFormEdits /\ f # form
    /\ form' = f /\ formEdits' = formEdits + 1
    /\ UNCHANGED <<loaded, ended, live, result, tokened, voided>>

ActivateOther ==
    /\ formEdits < MaxFormEdits
    /\ live' = (IF live = "first" THEN "second" ELSE "first") /\ formEdits' = formEdits + 1
    /\ UNCHANGED <<form, loaded, ended, result, tokened, voided>>

Reload ==
    /\ loaded # [form |-> form, live |-> live]
    /\ loaded' = [form |-> form, live |-> live]
    /\ UNCHANGED <<form, ended, live, result, tokened, voided, formEdits>>

\* The contest ends for everybody, and for the author, who may have had
\* less time or more.
TimeEnds(what) ==
    /\ ~ended[what]
    /\ ended' = [ended EXCEPT ![what] = TRUE]
    /\ UNCHANGED <<form, loaded, live, result, tokened, voided, formEdits>>

FeedbackNext ==
    \/ \E outcome \in {"ok", "fail"} : Compiled(outcome)
    \/ \E r \in Judgings : Scored(r)
    \/ SystemError \/ Rejudge \/ setVoided \/ ActivateOther \/ Reload
    \/ \E reader \in Readers : playToken(reader)
    \/ \E f \in ContestForms : ChangeForm(f)
    \/ \E what \in {"contest", "own"} : TimeEnds(what)

-----------------------------------------------------------------------------
FeedbackTypeOK ==
    /\ form \in ContestForms /\ loaded.form \in ContestForms /\ {live, loaded.live} \subseteq Datasets
    /\ \A d \in Datasets : result[d].compilation \in {"none", "ok", "fail"} /\ (result[d].scored => ~result[d].error)
    /\ {tokened, voided} \subseteq BOOLEAN /\ formEdits \in 0 .. MaxFormEdits

\* Two results that a contestant with settings f must not tell apart: of
\* what was judged, nothing differs while scores are hidden but that they
\* were; with an ICPC contest only whether it was accepted; with tokens the
\* public part; without, the testcases that are not public.
MustLookAlike(f, r, q) ==
    /\ r.scored /\ q.scored /\ r.compilation = q.compilation
    /\ \/ f.visibility = "never"
       \/ f.visibility = "after" /\ ~(ended.contest /\ ended.own)
       \/ f.icpc /\ r.verdict = q.verdict /\ (r.score = FullScore <=> q.score = FullScore)
       \/ /\ ~f.icpc /\ f.tokens # "disabled" /\ f.taskTokens # "disabled" /\ ~tokened
          /\ r.pub = q.pub /\ \A c \in PublicCases : r.cases[c] = q.cases[c]
       \/ /\ ~f.icpc /\ ~tokened /\ r.score = q.score /\ r.pub = q.pub /\ r.verdict = q.verdict
          /\ \A c \in PublicCases : r.cases[c] = q.cases[c]

\* No page of a contestant tells apart two results that must look alike: had
\* the submission been judged otherwise in what is not shown, every page
\* would be the same (fillStatus, detailData, subViewFromDetail, recentSubs).
NothingLeaks ==
    \A q \in Judgings :
        LET r == result[loaded.live]
            f == loaded.form
        IN  MustLookAlike(f, r, q) =>
                /\ subView(f, r, Author) = subView(f, q, Author)
                /\ scoresVisible(f) /\ ~f.icpc =>
                      detailBlocks(f, r) = detailBlocks(f, q) /\ detailRows(r) = detailRows(q)

\* The pages agree: the points of the subtasks on the page of a submission
\* are those its status shows, which is chosen apart from them, and the
\* overview says what the list says once the server has the live dataset
\* (fillStatus, detailData, ListRecentSubmissions).
PagesConsistent ==
    \A reader \in Readers :
        /\ \A d \in handleSubmission(reader) : d.blocks # {} => d.blocks = d.sub.status.points
        /\ loaded.live = live => recentSubs(reader) = {v.status : v \in listSubs(reader)}

\* Nobody outside the contestant's team reads the submission, no leader but
\* the delegation's, and only its author is offered a token, one that is
\* accepted when played (ownSubmission, leaderTeam, LeaderSubmission).
OnlyTheirs ==
    /\ \A reader \in Readers \ Group :
          /\ listSubs(reader) = {} /\ handleSubmissionRow(reader) = {} /\ handleSubmission(reader) = {}
          /\ ~handleSubmissionFile(reader)
    /\ \A team \in Delegations \ {Delegation} : handleDelegation(team) \cup handleDelegationSubmission(team) = {}
    /\ \A reader \in Readers : \A v \in listSubs(reader) : v.canToken => ENABLED playToken(reader)

\* A leader reads no more of a result than its contestant: neither points nor
\* a verdict where the contestant's page shows none, when the web server has
\* the settings as they are and the contestant has no time left after the
\* contest (leaderResult, leaderScoresVisible).
LeadersReadNoMore ==
    loaded = [form |-> form, live |-> live] /\ (ended.contest => ended.own) =>
        \A view \in handleDelegation(Delegation) \cup handleDelegationSubmission(Delegation) :
            LET own == fillStatus(loaded.form, result[loaded.live])
            IN  /\ view.points # {} => own.points # {} \/ own.verdict # NoVerdict
                /\ view.verdict # NoVerdict => own.verdict = view.verdict

\* Contestants and leaders read what the contest shows them, and the pages agree.
FeedbackSound == NothingLeaks /\ PagesConsistent /\ OnlyTheirs /\ LeadersReadNoMore
=============================================================================
