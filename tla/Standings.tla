----------------------------- MODULE Standings -----------------------------
(***************************************************************************)
(* The standings of a contest (internal/ranking, internal/scoring/         *)
(* modes.go): the score of a task, the replay of the submissions up to a   *)
(* cutoff (the frozen scoreboard and the score histories), ranks, places   *)
(* and medals, and the rows of teams.                                      *)
(*                                                                         *)
(* The state is the contest's history: submissions arrive, are scored,     *)
(* tokens are played, and points are adjusted by hand.  Everything else is *)
(* computed from it, for every cutoff and tie-break.  Two participations   *)
(* with the same result are listed by name; names are in the order of the  *)
(* ids.                                                                    *)
(***************************************************************************)
EXTENDS Integers, FiniteSets, SequencesExt

CONSTANTS
    Entrants,       \* 1 .. n: participations, in the order of their names
    Submitters,     \* those who submit
    TokenHolders,   \* those with tokens to play
    Adjusted,       \* those whose points are adjusted by hand
    Problemset,     \* 1 .. n: tasks, in order
    Results,        \* for each mode, the scores of the subtasks a submission may get
    FullMarks,      \* maximum score of a task
    AdjustPoints,   \* points of an adjustment
    PartTeam,       \* team of each participation, 0: none
    PartStart,      \* start of each participation
    Concealed,      \* hidden participations
    Guests,         \* unofficial participations
    Modes,          \* score modes, and "icpc"
    PenaltyMinutes, \* of a rejected attempt
    MedalShares,    \* 12, 4 and 2 in the program: one in so many gets gold, a medal of the first two, any
    LastMinute,     \* bound: the clock
    MaxEvents       \* bound: submissions and adjustments

ASSUME StandingsAssumption ==
    /\ Entrants = 1 .. Cardinality(Entrants) /\ Submitters \cup Adjusted \subseteq Entrants
    /\ Problemset = 1 .. Cardinality(Problemset)
    /\ PartTeam \in [Entrants -> Nat] /\ PartStart \in [Entrants -> Nat]
    /\ Len(MedalShares) = 3 /\ \A i \in 1 .. 3 : MedalShares[i] \in Nat \ {0}
    /\ Concealed \cup Guests \subseteq Entrants
    /\ {FullMarks, PenaltyMinutes, LastMinute, MaxEvents} \subseteq Nat

VARIABLES
    mode,           \* scoring mode of the contest
    minute,         \* time of the contest
    subs,           \* official submissions, in time order
    adjustments     \* manual adjustments, in time order

standingsVars == <<mode, minute, subs, adjustments>>

Unknown == -1
Never == LastMinute + 1         \* no cutoff
ICPCContest == mode = "icpc"
Total(v) ==
    LET sum[i \in 0 .. Len(v)] == IF i = 0 THEN 0 ELSE sum[i - 1] + v[i]
    IN  sum[Len(v)]
Points(as) == Total([i \in DOMAIN as |-> as[i].points])
\* f of each task, in their order.
PerTask(f(_)) == <<>> \o [t \in Problemset |-> f(t)]
Mine(p, t, ss) == SelectSeq(ss, LAMBDA s : s.part = p /\ s.task = t)
Before(cutoff, ss) == SelectSeq(ss, LAMBDA s : s.time < cutoff)

(***************************************************************************)
(* The score of a task from its submissions ss, in time order.             *)
(***************************************************************************)
\* The first with the best score, 0: none.
firstBest(ss, js) ==
    IF js = {} THEN 0
    ELSE CHOOSE j \in js : \A k \in js : Total(ss[k].subtasks) < Total(ss[j].subtasks)
                                         \/ (Total(ss[k].subtasks) = Total(ss[j].subtasks) /\ j <= k)

scoredOf(ss) == {j \in DOMAIN ss : ss[j].scored}

\* The best of the last one and the tokened ones; the last one among equals.
bestTokenedLast(ss) ==
    LET n == Len(ss)
        best == firstBest(ss, {j \in scoredOf(ss) : ss[j].played # Never})
    IN  IF n = 0 THEN 0
        ELSE IF ~ss[n].scored THEN best
        ELSE IF best # 0 /\ Total(ss[best].subtasks) > Total(ss[n].subtasks) THEN best ELSE n

\* The submission that counts where the score can go down: a compilation
\* error does not replace a working program.
counting(md, ss) ==
    IF md = "last"
    THEN LET ok == {j \in scoredOf(ss) : ~ss[j].ce} IN IF ok = {} THEN 0 ELSE Max(ok)
    ELSE bestTokenedLast(ss)

bestSubtasks(ss) ==
    LET widths == {Len(ss[j].subtasks) : j \in scoredOf(ss)}
    IN  [i \in 1 .. Max({0} \cup widths) |-> Max({ss[j].subtasks[i] : j \in {k \in scoredOf(ss) : i <= Len(ss[k].subtasks)}})]

countedSubtasks(md, ss) ==
    LET j == IF md \in {"last", "max_tokened_last"} THEN counting(md, ss) ELSE firstBest(ss, scoredOf(ss))
    IN  IF md = "max_subtask" THEN bestSubtasks(ss) ELSE IF j = 0 THEN <<>> ELSE ss[j].subtasks

\* A mutant: the last submission that has the value a subtask ends with.
reachedLate(md, ss) ==
    LET final == countedSubtasks(md, ss)
    IN  IF Total(final) = 0 THEN Unknown
        ELSE ss[Max({j \in scoredOf(ss) : Total(ss[j].subtasks) > 0})].time

\* When the score last changed to its final value.
reached(md, ss) ==
    LET final == countedSubtasks(md, ss)
        value(k) == LET j == counting(md, SubSeq(ss, 1, k)) IN IF k = 0 \/ j = 0 THEN 0 ELSE Total(ss[j].subtasks)
        firstWith(i) == Min({j \in scoredOf(ss) : i <= Len(ss[j].subtasks) /\ ss[j].subtasks[i] = final[i]})
    IN  IF Total(final) = 0 THEN Unknown
        ELSE CASE md = "max_subtask" -> Max({ss[firstWith(i)].time : i \in {h \in DOMAIN final : final[h] > 0}})
               [] md \in {"last", "max_tokened_last"} -> ss[Max({k \in DOMAIN ss : value(k) # value(k - 1)})].time
               [] OTHER -> ss[firstBest(ss, scoredOf(ss))].time

Aggregate(md, ss) ==
    [score |-> Total(countedSubtasks(md, ss)), subtasks |-> countedSubtasks(md, ss),
     pending |-> Cardinality(DOMAIN ss \ scoredOf(ss)), reached |-> reached(md, ss)]

\* Attempts before the first accepted submission; one that is not scored
\* yet is neither.
ICPC(ss) ==
    LET accepted == {j \in scoredOf(ss) : ~ss[j].ce /\ Total(ss[j].subtasks) >= FullMarks /\ FullMarks > 0}
        first == IF accepted = {} THEN Len(ss) + 1 ELSE Min(accepted)
    IN  [solved |-> accepted # {}, attempts |-> Cardinality({j \in scoredOf(ss) : j < first /\ ~ss[j].ce}),
         at |-> IF accepted = {} THEN Unknown ELSE ss[first].time]

(***************************************************************************)
(* Rows.                                                                   *)
(***************************************************************************)
sinceStart(p, at) == IF at = Unknown THEN Unknown ELSE Max({0, at - PartStart[p]})

\* The cell of p on t, counting what was made before the cutoff: what came
\* later shows as pending.
Cell(p, t, cutoff, ss, as) ==
    LET prefix == Before(cutoff, Mine(p, t, ss))
        after == Len(Mine(p, t, ss)) - Len(prefix)
        adjusted == IF ICPCContest THEN 0
                    ELSE Points(Before(cutoff, Mine(p, t, as)))
        ts == Aggregate(mode, prefix)
        icpc == ICPC(prefix)
    IN  [score |-> ts.score + adjusted, subtasks |-> ts.subtasks, adjustment |-> adjusted,
         submitted |-> Len(prefix) + after > 0 \/ adjusted # 0, pending |-> ts.pending + after,
         solved |-> icpc.solved, attempts |-> icpc.attempts, minute |-> Max({0, sinceStart(p, icpc.at)}),
         elapsed |-> sinceStart(p, IF ICPCContest THEN icpc.at ELSE ts.reached)]

\* The latest time among the cells that count.
reachedTime(cells) ==
    Max({Unknown} \cup {cells[t].elapsed : t \in {u \in DOMAIN cells : IF ICPCContest THEN cells[u].solved ELSE cells[u].score > 0}})

\* Totals of a row, of a participation or a team.
withTotals(row) ==
    LET sum(f(_)) == Total([t \in DOMAIN row.cells |-> f(row.cells[t])])
        solvedOnly(c) == ICPCContest /\ c.solved
    IN  row @@ [total |-> sum(LAMBDA c : c.score),
                solved |-> sum(LAMBDA c : IF solvedOnly(c) THEN 1 ELSE 0),
                penalty |-> sum(LAMBDA c : IF solvedOnly(c) THEN c.minute + PenaltyMinutes * c.attempts ELSE 0),
                reached |-> reachedTime(row.cells)]

finishRow(p, cutoff, ss, as) ==
    withTotals([key |-> p, cells |-> PerTask(LAMBDA t : Cell(p, t, cutoff, ss, as))])

\* a is listed before b; equal rows share a rank.
cmpReached(a, b) == a # b /\ a # Unknown /\ (b = Unknown \/ a < b)
better(tie, a, b) ==
    LET tied == IF ICPCContest THEN a.solved = b.solved /\ a.penalty = b.penalty ELSE a.total = b.total
    IN  IF ~tied
        THEN IF ICPCContest THEN a.solved > b.solved \/ (a.solved = b.solved /\ a.penalty < b.penalty)
             ELSE a.total > b.total
        ELSE tie = "time" /\ cmpReached(a.reached, b.reached)
equal(tie, a, b) == ~better(tie, a, b) /\ ~better(tie, b, a)

\* Sorted, with their ranks.
sorted(tie, rows) ==
    SortSeq(rows, LAMBDA a, b : better(tie, a, b) \/ (equal(tie, a, b) /\ a.key < b.key))
ranks(tie, s) ==
    LET rank[i \in DOMAIN s] == IF i > 1 /\ equal(tie, s[i - 1], s[i]) THEN rank[i - 1] ELSE i
    IN  rank

\* The rows of a board, which are then sorted.
newBuild(showHidden) == SelectSeq([p \in Entrants |-> p], LAMBDA p : showHidden \/ p \notin Concealed)
Replay(showHidden, cutoff, ss, as) ==
    LET ps == newBuild(showHidden)
    IN  [i \in DOMAIN ps |-> finishRow(ps[i], cutoff, ss, as)]

\* Places of the official rows, 0 for the others.
places(tie, s) ==
    LET ranked == {i \in DOMAIN s : s[i].key \notin Concealed \cup Guests}
        n(i) == Cardinality({j \in ranked : j <= i})
        prev(i) == Max({j \in ranked : j < i})
        place[i \in DOMAIN s] ==
            IF i \notin ranked THEN 0
            ELSE IF n(i) > 1 /\ equal(tie, s[prev(i)], s[i]) THEN place[prev(i)] ELSE n(i)
    IN  place

\* Medals of the official rows: of each kind the most that stay within the
\* share without splitting a tie, and only with points.  finish gives none
\* in an ICPC contest.
medals(tie, s) ==
    LET off == SelectSeq(s, LAMBDA r : r.key \notin Concealed \cup Guests)
        group(e) == Max({g \in e + 1 .. Len(off) : \A h \in e + 1 .. g : equal(tie, off[e + 1], off[h])})
        until(limit) ==
            LET grow[e \in 0 .. Len(off)] ==
                    IF e = Len(off) \/ off[e + 1].total <= 0 \/ group(e) > limit THEN e ELSE grow[group(e)]
            IN  grow
        gold == until(Len(off) \div MedalShares[1])[0]
        silver == until(Len(off) \div MedalShares[2])[gold]
        bronze == until(Len(off) \div MedalShares[3])[silver]
    IN  [i \in DOMAIN off |-> IF i <= gold THEN "gold" ELSE IF i <= silver THEN "silver" ELSE IF i <= bronze THEN "bronze" ELSE "none"]

\* The total of p after each change, in time order: scores by the time of
\* their submission, adjustments by their own.
History(p, cutoff, ss, as) ==
    LET value(t, u) ==      \* of task t with what was made until u
            LET done == Before(Min({u + 1, cutoff}), Mine(p, t, ss))
                seen == SubSeq(done, 1, Max({0} \cup scoredOf(done)))
            IN  IF ICPCContest THEN (IF ICPC(seen).solved THEN 1 ELSE 0)
                ELSE Aggregate(mode, seen).score
                     + Points(Before(Min({u + 1, cutoff}), Mine(p, t, as)))
    IN  [u \in 0 .. LastMinute |-> Total([t \in Problemset |-> value(t, u)])]

(***************************************************************************)
(* Rows of teams.                                                          *)
(***************************************************************************)
earlier(a, b) == a >= 0 /\ (b < 0 \/ a < b)

\* Member cell mc joins the team cell tc, whose subAt holds the time of each
\* subtask's best score.
mergeCell(tc, mc) ==
    LET at == [k \in DOMAIN tc.subtasks |-> IF k \in DOMAIN tc.subAt THEN tc.subAt[k] ELSE tc.elapsed]
        width == Max({Len(tc.subtasks), Len(mc.subtasks)})
        mine(k) == k <= Len(mc.subtasks)
        takes(k) ==
            \/ k > Len(tc.subtasks)
            \/ mine(k) /\ mc.subtasks[k] > tc.subtasks[k]
            \/ mine(k) /\ mc.subtasks[k] = tc.subtasks[k] /\ earlier(mc.elapsed, at[k])
        subtasks == [k \in 1 .. width |-> IF k > Len(tc.subtasks) THEN mc.subtasks[k]
                                          ELSE IF mine(k) THEN Max({tc.subtasks[k], mc.subtasks[k]}) ELSE tc.subtasks[k]]
        subAt == [k \in 1 .. width |-> IF takes(k) THEN mc.elapsed ELSE at[k]]
        adjustment == tc.adjustment + mc.adjustment
        both == [tc EXCEPT !.submitted = @ \/ mc.submitted, !.pending = @ + mc.pending]
        wins == mc.score > tc.score \/ (mc.score = tc.score /\ earlier(mc.elapsed, tc.elapsed))
    IN  IF ICPCContest
        THEN IF mc.solved /\ (~tc.solved \/ mc.minute < tc.minute)
             THEN [both EXCEPT !.solved = TRUE, !.minute = mc.minute, !.attempts = mc.attempts, !.elapsed = mc.elapsed]
             ELSE IF tc.solved THEN both ELSE [both EXCEPT !.attempts = @ + mc.attempts]
        ELSE IF mode = "max_subtask" /\ width > 0
        THEN [both EXCEPT !.subtasks = subtasks, !.subAt = subAt, !.adjustment = adjustment,
                          !.score = adjustment + Total(subtasks),
                          !.elapsed = Max({Unknown} \cup {subAt[k] : k \in {h \in 1 .. width : subtasks[h] > 0}})]
        ELSE [both EXCEPT !.subtasks = subtasks, !.subAt = subAt, !.adjustment = adjustment,
                          !.score = Max({tc.score, mc.score}), !.elapsed = IF wins THEN mc.elapsed ELSE @]

\* The members join in the order they are listed.
mergeTeam(members) ==
    LET cell(t) == FoldLeft(LAMBDA tc, r : mergeCell(tc, r.cells[t]),
                            members[1].cells[t] @@ [subAt |-> <<>>], Tail(members))
    IN  PerTask(cell)

TeamKey(k) == Cardinality(Entrants) + k

\* A row for each team, listed by name after the participations, and one for each participation without a team.
BuildBoard(tie, s) ==
    LET lead(i) == \A j \in 1 .. i - 1 : PartTeam[s[j].key] # PartTeam[s[i].key]
        row(i) == IF PartTeam[s[i].key] = 0 THEN s[i]
                  ELSE withTotals([key |-> TeamKey(PartTeam[s[i].key]),
                                   cells |-> mergeTeam(SelectSeq(s, LAMBDA r : PartTeam[r.key] = PartTeam[s[i].key]))])
        listed == SelectSeq([i \in DOMAIN s |-> i], LAMBDA i : PartTeam[s[i].key] = 0 \/ lead(i))
    IN  sorted(tie, [k \in DOMAIN listed |-> row(listed[k])])

(***************************************************************************)
(* The overview of a contestant, or of a team together.                    *)
(***************************************************************************)
\* The score stored for p on t (ListScoresByParticipations).
storedScore(p, t) ==
    LET ss == Mine(p, t, subs)
        ts == Aggregate(mode, ss)
        adjusted == Points(Mine(p, t, adjustments))
        icpc == ICPC(ss)
    IN  [score |-> ts.score + adjusted, subtasks |-> ts.subtasks, adjustment |-> adjusted, pending |-> ts.pending,
         solved |-> icpc.solved, attempts |-> icpc.attempts, at |-> icpc.at]

\* A mutant: the attempts of everybody count once a task is solved.
mergeRowAll(acc, r) ==
    LET first == r.solved /\ (~acc.solved \/ r.at < acc.at)
    IN  [pending |-> acc.pending + r.pending, best |-> Max({acc.best, r.score}),
         adjustment |-> acc.adjustment + r.adjustment,
         solved |-> acc.solved \/ r.solved, at |-> IF first THEN r.at ELSE acc.at,
         attempts |-> acc.attempts + r.attempts,
         subtasks |-> bestSubtasks(<<[scored |-> TRUE, subtasks |-> acc.subtasks], [scored |-> TRUE, subtasks |-> r.subtasks]>>)]

\* The row of a member joins those before it.
mergeRow(acc, r) ==
    LET first == r.solved /\ (~acc.solved \/ r.at < acc.at)
    IN  [pending |-> acc.pending + r.pending, best |-> Max({acc.best, r.score}),
         adjustment |-> acc.adjustment + r.adjustment,
         solved |-> acc.solved \/ r.solved, at |-> IF first THEN r.at ELSE acc.at,
         attempts |-> IF first THEN r.attempts
                      ELSE IF ~acc.solved /\ ~r.solved THEN acc.attempts + r.attempts ELSE acc.attempts,
         subtasks |-> bestSubtasks(<<[scored |-> TRUE, subtasks |-> acc.subtasks], [scored |-> TRUE, subtasks |-> r.subtasks]>>)]

\* The best score of the rows, or the sum of the best of every subtask.
mergeScores(rows) ==
    LET all == FoldLeft(mergeRow, [pending |-> 0, best |-> 0, adjustment |-> 0, solved |-> FALSE, at |-> Unknown,
                                   attempts |-> 0, subtasks |-> <<>>], rows)
    IN  all @@ [score |-> IF mode = "max_subtask" /\ all.subtasks # <<>>
                          THEN all.adjustment + Total(all.subtasks) ELSE all.best]

(***************************************************************************)
(* The history of the contest.                                             *)
(***************************************************************************)
StandingsInit == mode \in Modes /\ minute = 0 /\ subs = <<>> /\ adjustments = <<>>

EventsLeft == Len(subs) + Len(adjustments) < MaxEvents

Submit(p, t) ==
    /\ EventsLeft
    /\ subs' = Append(subs, [part |-> p, task |-> t, time |-> minute, played |-> Never,
                             scored |-> FALSE, ce |-> FALSE, subtasks |-> <<>>])
    /\ UNCHANGED <<mode, minute, adjustments>>

\* A token is played once, at any time after; tokens matter to one mode only.
handleToken(i) ==
    /\ mode = "max_tokened_last" /\ subs[i].part \in TokenHolders /\ subs[i].played = Never
    /\ subs' = [subs EXCEPT ![i].played = minute]
    /\ UNCHANGED <<mode, minute, adjustments>>

setScore(i, v) ==
    /\ ~subs[i].scored
    /\ subs' = [subs EXCEPT ![i].scored = TRUE, ![i].subtasks = v]
    /\ UNCHANGED <<mode, minute, adjustments>>

SetCompilationFailedScore(i) ==
    /\ ~subs[i].scored
    /\ subs' = [subs EXCEPT ![i].scored = TRUE, ![i].ce = TRUE]
    /\ UNCHANGED <<mode, minute, adjustments>>

Adjust(p, t, n) ==
    /\ EventsLeft
    /\ adjustments' = Append(adjustments, [part |-> p, task |-> t, time |-> minute, points |-> n])
    /\ UNCHANGED <<mode, minute, subs>>

MinutePasses == minute < LastMinute /\ minute' = minute + 1 /\ UNCHANGED <<mode, subs, adjustments>>

StandingsNext ==
    \/ \E p \in Submitters : Submit(p, 1)
    \/ \E i \in DOMAIN subs : handleToken(i) \/ (\E v \in Results[mode] : setScore(i, v)) \/ SetCompilationFailedScore(i)
    \/ \E p \in Adjusted, n \in AdjustPoints : Adjust(p, Cardinality(Problemset), n)
    \/ MinutePasses

StandingsSpec == StandingsInit /\ [][StandingsNext]_standingsVars

(***************************************************************************)
(* Properties.                                                             *)
(***************************************************************************)
Ties == {"shared", "time"}
Cutoffs == 0 .. LastMinute

\* The history of the contest has its type and is in time order.
StandingsTypeOK ==
    /\ mode \in Modes /\ minute \in 0 .. LastMinute
    /\ \A h \in {subs, adjustments} : \A i \in DOMAIN h : h[i].time <= minute /\ (i > 1 => h[i - 1].time <= h[i].time)

\* The submissions at time c, with the tokens played by then.
AsOf(c, ss) ==
    LET before == Before(c, ss)
    IN  [i \in DOMAIN before |-> IF before[i].played < c THEN before[i] ELSE [before[i] EXCEPT !.played = Never]]

\* The frozen scoreboard shows what a board of the time of the freeze would:
\* what came after changes no total, time or penalty, only the pending
\* counts of the cells.  But a token played since on a submission of before
\* counts at once, and can only add points.
FrozenHides ==
    \A p \in Submitters, c \in Cutoffs :
      \A frozen \in {finishRow(p, c, subs, adjustments)},
         then \in {finishRow(p, Never, AsOf(c, subs), Before(c, adjustments))} :
        LET shown(row) == <<row.total, row.solved, row.penalty, row.reached>>
            later == {i \in DOMAIN subs : subs[i].part = p /\ subs[i].time < c /\ subs[i].played \in c .. LastMinute}
        IN  /\ frozen.total >= then.total
            /\ later = {} => shown(frozen) = shown(then)

\* The tie-break time is when a replay of the growing history first shows
\* the final score for good.
ReachedRight ==
    \A p \in Submitters :
        LET ss == Mine(p, 1, subs)
            score(k) == Aggregate(mode, SubSeq(ss, 1, k)).score
            stays == {k \in DOMAIN ss : \A j \in k .. Len(ss) : score(j) = score(Len(ss))}
        IN  ss # <<>> /\ (\A i \in DOMAIN ss : ss[i].scored) /\ score(Len(ss)) > 0
                => Aggregate(mode, ss).reached = ss[Min(stays)].time

\* A score history ends at the total, once nothing is being judged.
HistoryEnds ==
    \A p \in Submitters :
        (\A i \in DOMAIN subs : subs[i].scored) =>
            LET row == finishRow(p, Never, subs, adjustments)
            IN  History(p, Never, subs, adjustments)[LastMinute] = IF ICPCContest THEN row.solved ELSE row.total

\* A place is one more than the number of better official rows, whether or
\* not the hidden rows are listed.
PlacesRight(tie, s) ==
    LET off == {i \in DOMAIN s : s[i].key \notin Concealed \cup Guests}
    IN  \A place \in {places(tie, s)} :
            \A i \in off : place[i] = 1 + Cardinality({j \in off : better(tie, s[j], s[i])})

\* Medals follow the order, split no tie, are for points only, and are
\* within the shares.
MedalsRight(tie, s) ==
    \A off \in {SelectSeq(s, LAMBDA r : r.key \notin Concealed \cup Guests)}, md \in {medals(tie, s)} :
        LET with(ms) == Cardinality({i \in DOMAIN md : md[i] \in ms})
            worth(x) == CASE x = "gold" -> 3 [] x = "silver" -> 2 [] x = "bronze" -> 1 [] OTHER -> 0
        IN  /\ MedalShares[1] * with({"gold"}) <= Len(off)
            /\ MedalShares[2] * with({"gold", "silver"}) <= Len(off)
            /\ MedalShares[3] * with({"gold", "silver", "bronze"}) <= Len(off)
            /\ \A i, j \in DOMAIN off : /\ worth(md[i]) > worth(md[j]) => better(tie, off[i], off[j])
                                        /\ md[i] # "none" => off[i].total > 0

\* Rows of a board share a rank with their equals only, and a team has at
\* least the points of each member where nothing was adjusted.
RanksRight(tie, s, b) ==
    \A rank \in {ranks(tie, b)} : \A i \in DOMAIN b :
        /\ rank[i] = 1 + Cardinality({j \in DOMAIN b : better(tie, b[j], b[i])})
        /\ \A j \in DOMAIN s :
              b[i].key = TeamKey(PartTeam[s[j].key]) /\ adjustments = <<>> /\ ~ICPCContest => b[i].total >= s[j].total

\* Ranks, places and medals of every list are right.
ListsRight ==
    \A showHidden \in BOOLEAN :
      \A rows \in {Replay(showHidden, Never, subs, adjustments)} :
        \A tie \in Ties : \A s \in {sorted(tie, rows)} :
            /\ PlacesRight(tie, s)
            /\ showHidden /\ ~ICPCContest => MedalsRight(tie, s)
            /\ showHidden => \A b \in {BuildBoard(tie, s)} : RanksRight(tie, s, b)

\* The row of a team does not depend on the order of its members, except
\* in the attempts of two who solved a task in the same minute.
TeamsFair ==
    \A a, b \in {finishRow(p, Never, subs, adjustments) : p \in Submitters} :
        LET counted == {"elapsed", "pending"} \cup (IF ICPCContest THEN {"solved", "minute", "attempts"} ELSE {"score", "subtasks"})
            open(cells) == [t \in Problemset |-> [f \in counted |-> cells[t][f]]]
        IN  (a.key # b.key /\ PartTeam[a.key] # 0 /\ PartTeam[a.key] = PartTeam[b.key]
             /\ \A t \in Problemset : ~(ICPCContest /\ a.cells[t].solved /\ b.cells[t].solved /\ a.cells[t].minute = b.cells[t].minute))
                => open(mergeTeam(<<a, b>>)) = open(mergeTeam(<<b, a>>))

\* The overview of two contestants as a team, in whichever order their rows
\* come, shows the score, the attempts and what is being judged as the board
\* does, where no score is below zero (the overview starts from zero) and,
\* for the attempts, the first of the two to solve the task by the clock is
\* the first by their own time (mergeScores, mergeCell).
OverviewAgrees ==
    \A p, q \in Submitters, t \in Problemset : p < q =>
        \A a \in {Cell(p, t, Never, subs, adjustments)}, b \in {Cell(q, t, Never, subs, adjustments)},
           one \in {storedScore(p, t)}, two \in {storedScore(q, t)} :
            \A board \in {mergeCell(a @@ [subAt |-> <<>>], b)}, shown \in {mergeScores(<<two, one>>)} :
                LET sameFirst == one.solved /\ two.solved =>
                                    /\ one.at # two.at /\ a.minute # b.minute
                                    /\ one.at < two.at <=> a.minute < b.minute
                IN  /\ shown.pending = board.pending
                    /\ ~ICPCContest /\ one.score >= 0 /\ two.score >= 0 => shown.score = board.score
                    /\ ICPCContest => shown.solved = board.solved /\ (sameFirst => shown.attempts = board.attempts)

\* The standings are those of the history.
StandingsSound ==
    FrozenHides /\ ReachedRight /\ HistoryEnds /\ ListsRight /\ TeamsFair /\ OverviewAgrees
=============================================================================
