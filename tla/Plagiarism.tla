----------------------------- MODULE Plagiarism -----------------------------
(***************************************************************************)
(* The similarity report of a task (internal/plagiarism, the pages of      *)
(* adminweb/plagiarism.go): one submission of each contestant is reduced   *)
(* to tokens, the tokens to fingerprints, and the pairs that share enough  *)
(* of them are listed, the most similar first.                             *)
(*                                                                         *)
(* A source file is the sequence of its lines, a line the sequence of its  *)
(* normalised tokens: comments, layout and names are gone (tokens of       *)
(* highlight.Tokens, external).  The hash of a run of tokens is a value    *)
(* of an arbitrary order, different for different runs.                    *)
(***************************************************************************)
EXTENDS Integers, FiniteSets, SequencesExt

CONSTANTS
    TokenKinds,     \* normalised tokens
    K,              \* tokens hashed together, 12 in the program
    W,              \* hashes of a window, 8 in the program
    MinShared,      \* least number of fingerprints a pair shares, 4 in the program
    CommonLeast,    \* a fingerprint of more documents is ignored, 5 in the program
    ReportLimit,    \* pairs of a report, 200 in the program
    Coders,         \* 1 .. n: participations
    CoderTeam,      \* team of each, 0: none
    Reports,        \* what the report is made of: order of the hashes, code handed out, programs, bounds
    Thresholds      \* percentages

ASSUME PlagiarismAssumption ==
    /\ {K, W} \subseteq Nat \ {0} /\ {MinShared, CommonLeast, ReportLimit} \subseteq Nat
    /\ CoderTeam \in [Coders -> Nat] /\ Thresholds \subseteq 1 .. 100
    /\ \A x \in Reports : \A g, h \in DOMAIN x.mix : x.mix[g] = x.mix[h] => g = h

VARIABLES
    report,         \* the task and how its hashes are ordered
    handIns         \* submissions, in time order

plagiarismVars == <<report, handIns>>

PlagiarismInit == report \in Reports /\ handIns = << >>

(***************************************************************************)
(* Documents.                                                              *)
(***************************************************************************)
\* The line where each file starts; a file always has a line.
Offsets(files) ==
    LET start[i \in DOMAIN files] == IF i = 1 THEN 0 ELSE start[i - 1] + Len(files[i - 1].lines)
    IN  start

\* A mutant: a file without a known syntax has no lines.
normaliseSkipping(files) ==
    LET of(i) == FlattenSeq([l \in DOMAIN files[i].lines |->
                     [k \in DOMAIN files[i].lines[l] |->
                         [hash |-> files[i].lines[l][k],
                          line |-> Offsets(SelectSeq(files, LAMBDA f : f.known))[Cardinality({j \in 1 .. i : files[j].known})] + l - 1]]])
    IN  FlattenSeq([i \in DOMAIN files |-> IF files[i].known THEN of(i) ELSE << >>])

\* The tokens of the files with a known syntax; the lines of all count.
normalise(files) ==
    LET of(i) == FlattenSeq([l \in DOMAIN files[i].lines |->
                     [k \in DOMAIN files[i].lines[l] |->
                         [hash |-> files[i].lines[l][k], line |-> Offsets(files)[i] + l - 1]]])
    IN  FlattenSeq([i \in DOMAIN files |-> IF files[i].known THEN of(i) ELSE << >>])

Run(toks, i) == [j \in 1 .. K |-> toks[i + j - 1].hash]
kgrams(toks) == [i \in 1 .. Len(toks) - K + 1 |-> report.mix[Run(toks, i)]]

\* What contestants were given: attachments, graders and stubs, but not
\* what they never see.
taskBase == {f \in report.handed : f.role # "checker" /\ f.known}
NewBase == UNION {Range(kgrams(normalise(<<f>>))) : f \in taskBase}

\* The positions of the hashes that include no token of a run handed out.
free(hashes) ==
    LET base == NewBase
        covered == UNION {i .. i + K - 1 : i \in {j \in DOMAIN hashes : hashes[j] \in base}}
    IN  {i \in DOMAIN hashes : (i .. i + K - 1) \cap covered = {}}

\* The rightmost smallest hash of the positions S, 0: none.
least(hashes, S) == Max({0} \cup {i \in S : \A j \in S : hashes[i] <= hashes[j]})

\* A mutant: the smallest hash is kept when its window has passed.
winnowKeeping(hashes, own) ==
    LET n == Len(hashes)
        pick[s \in 0 .. Max({1, n - W + 1})] ==
            IF s = 0 THEN 0
            ELSE LET end == Min({s + W - 1, n})
                 IN  IF pick[s - 1] = 0 THEN least(hashes, own \cap (s .. end))
                     ELSE IF end \in own /\ hashes[end] <= hashes[pick[s - 1]] THEN end ELSE pick[s - 1]
    IN  Range(pick) \ {0}

\* The positions kept: the smallest hash of every window, searched again
\* only when the last one has left it.
winnow(hashes, own) ==
    LET n == Len(hashes)
        pick[s \in 0 .. Max({1, n - W + 1})] ==
            IF s = 0 THEN 0
            ELSE LET end == Min({s + W - 1, n})
                 IN  IF pick[s - 1] < s THEN least(hashes, own \cap (s .. end))
                     ELSE IF end \in own /\ hashes[end] <= hashes[pick[s - 1]] THEN end ELSE pick[s - 1]
    IN  Range(pick) \ {0}

Fingerprint(id, group, files) ==
    LET toks == normalise(files)
        hashes == kgrams(toks)
    IN  [id |-> id, group |-> group, tokens |-> Len(toks),
         fps |-> IF hashes = << >> THEN {}
                 ELSE {[hash |-> hashes[i], line |-> toks[i].line, end |-> toks[i + K - 1].line] :
                          i \in winnow(hashes, free(hashes))}]

HashesOf(doc) == {f.hash : f \in doc.fps}

(***************************************************************************)
(* The comparison of documents and of two of them side by side.            *)
(***************************************************************************)
Compare(docs, common, threshold) ==
    LET holders(h) == {i \in DOMAIN docs : h \in HashesOf(docs[i])}
        counted(i) == {h \in HashesOf(docs[i]) : Cardinality(holders(h)) <= common}
        shared(p) == Cardinality(counted(p[1]) \cap counted(p[2]))
        smaller(p) == Min({Cardinality(counted(p[1])), Cardinality(counted(p[2]))})
        listed(p) == /\ p[1] < p[2]
                     /\ docs[p[1]].group = 0 \/ docs[p[1]].group # docs[p[2]].group
                     /\ shared(p) > 0 /\ shared(p) >= MinShared
                     /\ 100 * shared(p) >= threshold * smaller(p)
        before(p, q) == LET a == shared(p) * smaller(q)
                            b == shared(q) * smaller(p)
                        IN  \/ a > b
                            \/ a = b /\ shared(p) > shared(q)
                            \/ a = b /\ shared(p) = shared(q)
                               /\ (docs[p[1]].id < docs[q[1]].id \/ (p[1] = q[1] /\ docs[p[2]].id < docs[q[2]].id))
        sorted == SetToSortSeq({p \in (DOMAIN docs) \X (DOMAIN docs) : listed(p)}, before)
    IN  [i \in 1 .. Min({Len(sorted), ReportLimit}) |->
            [a |-> docs[sorted[i][1]].id, b |-> docs[sorted[i][2]].id, shared |-> shared(sorted[i]),
             similarity |-> (100 * shared(sorted[i])) \div smaller(sorted[i])]]

\* The lines of a covered by the fingerprints it shares with b.
Matches(a, b) == UNION {f.line .. f.end : f \in {g \in a.fps : g.hash \in HashesOf(b)}}

\* The marked lines of file j, counted from its start.
markedIn(files, j, lines) ==
    {l - Offsets(files)[j] : l \in {x \in lines : Offsets(files)[j] <= x /\ (j = Len(files) \/ x < Offsets(files)[j + 1])}}

(***************************************************************************)
(* The submissions and the report.                                         *)
(***************************************************************************)
\* A mutant: what was invalidated is compared too.
mayCompareAll(s) == s.official

mayCompare(s) == s.official /\ ~s.invalid

\* One submission of each participation: the latest, or the best scored
\* (-1: not scored) and the latest of those.
PlagiarismCandidates(best) ==
    LET rank(i) == IF best THEN handIns[i].score ELSE 0
        first(c) == LET mine == {i \in DOMAIN handIns : handIns[i].coder = c /\ mayCompare(handIns[i])}
                        top == {i \in mine : \A j \in mine : rank(j) <= rank(i)}
                    IN  IF mine = {} THEN {} ELSE {Max(top)}
    IN  SetToSortSeq(UNION {first(c) : c \in Coders}, LAMBDA i, j : handIns[i].coder < handIns[j].coder)

\* The files of submission i in a known language that can be read.
SourcesOf(i) == SelectSeq(handIns[i].files, LAMBDA f : f.known /\ f.readable)

fingerprints(cands) ==
    [k \in DOMAIN cands |->
        Fingerprint(cands[k], IF report.teams THEN CoderTeam[handIns[cands[k]].coder] ELSE 0, SourcesOf(cands[k]))]

\* The page; documents too short to compare are counted apart.
handlePlagiarism(best, threshold) ==
    LET usable == SelectSeq(fingerprints(PlagiarismCandidates(best)), LAMBDA d : d.tokens >= K)
    IN  Compare(usable, Max({CommonLeast, Len(usable) \div 10}), threshold)

\* Two submissions side by side; what cannot be read shows as a remark.
handlePlagiarismCompare(i, j) ==
    LET shownAs(f) == IF f.readable THEN f ELSE [f EXCEPT !.lines = <<report.remark>>]
        sources(k) == [n \in DOMAIN handIns[k].files |-> shownAs(handIns[k].files[n])]
        doc(k) == Fingerprint(k, 0, sources(k))
        side(k, other) == [n \in DOMAIN sources(k) |-> markedIn(sources(k), n, Matches(doc(k), doc(other)))]
    IN  [a |-> side(i, j), b |-> side(j, i), pairs |-> Compare(<<doc(i), doc(j)>>, 2, 0)]

HandIn(c, files, official) ==
    /\ Len(handIns) < report.max
    /\ handIns' = Append(handIns, [coder |-> c, files |-> files, official |-> official, invalid |-> FALSE, score |-> -1])
    /\ UNCHANGED report

GetScore(i, score) ==
    /\ handIns[i].score = -1 /\ score \in report.scores
    /\ handIns' = [handIns EXCEPT ![i].score = score]
    /\ UNCHANGED report

SetInvalidated(i) ==
    /\ handIns[i].score >= 0
    /\ handIns' = [handIns EXCEPT ![i].invalid = ~@]
    /\ UNCHANGED report

PlagiarismNext ==
    \/ \E c \in Coders, files \in report.programs, official \in {TRUE, report.official} : HandIn(c, files, official)
    \/ \E i \in DOMAIN handIns, score \in report.scores : GetScore(i, score)
    \/ \E i \in DOMAIN handIns : SetInvalidated(i)

-----------------------------------------------------------------------------
PlagiarismTypeOK ==
    /\ report \in Reports
    /\ \A i \in DOMAIN handIns : handIns[i].coder \in Coders /\ handIns[i].score \in -1 .. 100
    /\ \A best \in BOOLEAN : Len(PlagiarismCandidates(best)) <= Cardinality(Coders)

TokensOf(k) == normalise(SourcesOf(k))
ReadHashes(k) == HashesOf(Fingerprint(k, 0, SourcesOf(k)))

\* Token p of toks is part of a run of K tokens of the code handed out.
Handed(toks, p) ==
    \E i \in 1 .. Len(toks) - K + 1 :
        /\ p \in i .. i + K - 1
        /\ \E f \in taskBase : LET given == normalise(<<f>>)
                               IN  \E g \in 1 .. Len(given) - K + 1 : Run(given, g) = Run(toks, i)

\* Any run of K + W - 1 tokens that two submissions have in common, none of
\* them handed out to contestants, leaves a fingerprint they share, whatever
\* surrounds it and wherever it starts (Fingerprint).
CopiesFound ==
    \A x, y \in DOMAIN handIns : x < y =>
        LET a == TokensOf(x)
            b == TokensOf(y)
            n == K + W - 1
            whole(toks, i) == \A p \in i .. i + n - 1 : ~Handed(toks, p)
        IN  (\E i \in 1 .. Len(a) - n + 1, j \in 1 .. Len(b) - n + 1 :
                /\ \A k \in 0 .. n - 1 : a[i + k].hash = b[j + k].hash
                /\ whole(a, i) /\ whole(b, j))
            => ReadHashes(x) \cap ReadHashes(y) # {}

\* Code handed out never counts: a fingerprint starts and ends in the
\* contestant's own tokens and includes none that was given (Fingerprint).
HandedOutIgnored ==
    \A x \in DOMAIN handIns :
        LET toks == TokensOf(x)
            hashes == kgrams(toks)
        IN  \A i \in winnow(hashes, free(hashes)) : \A p \in i .. i + K - 1 : ~Handed(toks, p)

\* The lines marked side by side are lines of the file they are shown in, a
\* file whose syntax is known, and a marked line has a token of a run that the other submission has too
\* (Offsets, Matches, handlePlagiarismCompare).
MarksRight ==
    \A x, y \in DOMAIN handIns : x < y =>
        LET page == handlePlagiarismCompare(x, y)
            readable(k) == \A n \in DOMAIN handIns[k].files : handIns[k].files[n].readable
            common(n, l) == LET a == normalise(handIns[x].files)
                                b == normalise(handIns[y].files)
                            IN  \E i \in 1 .. Len(a) - K + 1, j \in 1 .. Len(b) - K + 1 :
                                   /\ Run(a, i) = Run(b, j)
                                   /\ Offsets(handIns[x].files)[n] + l \in a[i].line .. a[i + K - 1].line
        IN  \A n \in DOMAIN page.a : \A l \in page.a[n] :
                /\ handIns[x].files[n].known /\ l \in 0 .. Len(handIns[x].files[n].lines) - 1
                /\ readable(x) /\ readable(y) => common(n, l)

\* The report pairs valid official submissions of different contestants,
\* never two of a team, each pair once and in order; and two submissions
\* with the same program are in it, or it is full of pairs as similar
\* (PlagiarismCandidates, Compare, handlePlagiarism).
ReportRight ==
    \A best \in BOOLEAN, threshold \in Thresholds :
        LET pairs == handlePlagiarism(best, threshold)
            cands == PlagiarismCandidates(best)
            partners(i, j) == report.teams => CoderTeam[handIns[i].coder] = 0 \/ CoderTeam[handIns[i].coder] # CoderTeam[handIns[j].coder]
            rare(i) == {h \in ReadHashes(i) : Cardinality({j \in Range(cands) : h \in ReadHashes(j)}) <= CommonLeast}
        IN  /\ \A k \in DOMAIN pairs :
                  LET a == handIns[pairs[k].a]
                      b == handIns[pairs[k].b]
                  IN  /\ a.coder # b.coder /\ partners(pairs[k].a, pairs[k].b)
                      /\ a.official /\ b.official /\ ~a.invalid /\ ~b.invalid
                      /\ pairs[k].similarity \in threshold .. 100
                      /\ k > 1 => pairs[k].similarity <= pairs[k - 1].similarity
                      /\ \A m \in DOMAIN pairs : {pairs[m].a, pairs[m].b} = {pairs[k].a, pairs[k].b} => m = k
            /\ \A i, j \in Range(cands) :
                  /\ i < j /\ handIns[i].files = handIns[j].files /\ partners(i, j)
                  /\ Cardinality(rare(i)) >= Max({1, MinShared})
                  => \/ \E k \in DOMAIN pairs : {pairs[k].a, pairs[k].b} = {i, j} /\ pairs[k].similarity = 100
                     \/ Len(pairs) = ReportLimit /\ \A k \in DOMAIN pairs : pairs[k].similarity = 100

\* The report misses no copy, counts nothing that was handed out, and shows
\* what it found where it is.
PlagiarismSound == CopiesFound /\ HandedOutIgnored /\ MarksRight /\ ReportRight
=============================================================================
