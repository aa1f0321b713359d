------------------------------ MODULE Checkers ------------------------------
(***************************************************************************)
(* The built-in comparators and the protocols of custom checkers           *)
(* (internal/checkers).  Texts are sequences of characters: a letter, two  *)
(* digits, a space and a line end.  Scores are in hundredths.              *)
(***************************************************************************)
EXTENDS Integers, SequencesExt

CONSTANTS
    Characters,     \* characters of the texts
    MaxText,        \* bound: length of a text
    bufSize,        \* bytes read at once
    absTol,         \* tolerances of the float comparison,
    relTol          \* the relative one in halves

VARIABLES expected, actual
checkVars == <<expected, actual>>

Texts == UNION {[1 .. n -> Characters] : n \in 0 .. MaxText}

CheckInit == expected \in Texts /\ actual = <<>>

\* The other text grows by a character.
CheckNext ==
    /\ Len(actual) < MaxText
    /\ \E c \in Characters : actual' = Append(actual, c)
    /\ UNCHANGED expected

CheckSpec == CheckInit /\ [][CheckNext]_checkVars

(***************************************************************************)
(* Readers.                                                                *)
(***************************************************************************)
isSpace(c) == c \in {" ", "\n"}
digit(c) == IF c = "1" THEN 1 ELSE IF c = "3" THEN 3 ELSE 0

\* lineReader.next: every line, the last one also without its end.
lines(t) ==
    LET step(acc, c) == IF c = "\n" THEN [done |-> Append(acc.done, acc.cur), cur |-> <<>>]
                                    ELSE [acc EXCEPT !.cur = Append(@, c)]
        all == FoldLeft(step, [done |-> <<>>, cur |-> <<>>], t)
    IN  IF all.cur = <<>> THEN all.done ELSE Append(all.done, all.cur)

\* tokenReader.next, and the fields of a line.
fields(t) ==
    LET step(acc, c) == IF ~isSpace(c) THEN [acc EXCEPT !.cur = Append(@, c)]
                        ELSE IF acc.cur = <<>> THEN acc
                        ELSE [done |-> Append(acc.done, acc.cur), cur |-> <<>>]
        all == FoldLeft(step, [done |-> <<>>, cur |-> <<>>], t)
    IN  IF all.cur = <<>> THEN all.done ELSE Append(all.done, all.cur)

blank(t) == \A i \in DOMAIN t : isSpace(t[i])

(***************************************************************************)
(* Comparators.                                                            *)
(***************************************************************************)
\* io.ReadFull of the i-th block of a text: short or empty at its end.
Block(t, i) == SubSeq(t, (i - 1) * bufSize + 1, IF i * bufSize < Len(t) THEN i * bufSize ELSE Len(t))
ends(t, i) == Len(Block(t, i)) < bufSize

CompareExact(e, a) ==
    LET last == CHOOSE i \in 1 .. MaxText + 1 :
                    /\ Block(e, i) # Block(a, i) \/ ends(e, i) \/ ends(a, i)
                    /\ \A j \in 1 .. i - 1 : Block(e, j) = Block(a, j) /\ ~ends(e, j) /\ ~ends(a, j)
    IN  Block(e, last) = Block(a, last) /\ ends(e, last) /\ ends(a, last)

\* A mutant: lines that only one side has are ignored.
CompareShorter(e, a) ==
    \A i \in DOMAIN lines(e) \cap DOMAIN lines(a) : fields(lines(e)[i]) = fields(lines(a)[i])

CompareWhite(e, a) ==
    LET le == lines(e)
        la == lines(a)
    IN  \A i \in DOMAIN le \cup DOMAIN la :
            IF i \notin DOMAIN le THEN blank(la[i])
            ELSE IF i \notin DOMAIN la THEN blank(le[i])
            ELSE fields(le[i]) = fields(la[i])

IsNumber(token) == \A i \in DOMAIN token : digit(token[i]) # 0
ParseFloat(token) == FoldLeft(LAMBDA n, c : 10 * n + digit(c), 0, token)
Distance(x, y) == IF x < y THEN y - x ELSE x - y
closeTo(x, y) ==
    \/ x = y
    \/ /\ IsNumber(x) /\ IsNumber(y)
       /\ LET d == Distance(ParseFloat(x), ParseFloat(y)) IN d <= absTol \/ 2 * d <= relTol * ParseFloat(x)

CompareFloat(e, a) ==
    LET fe == fields(e)
        fa == fields(a)
    IN  Len(fe) = Len(fa) /\ \A i \in DOMAIN fe : closeTo(fe[i], fa[i])

Compare(kind, e, a) ==
    LET ok == CASE kind = "exact" -> CompareExact(e, a)
                [] kind \in {"white_diff", ""} -> CompareWhite(e, a)
                [] kind = "float" -> CompareFloat(e, a)
    IN  IF ok THEN 100 ELSE 0

(***************************************************************************)
(* Custom checkers: a score or JudgeFailure, an error of the checker.      *)
(***************************************************************************)
JudgeFailure == -1
clampScore(v) == IF v > 100 THEN 100 ELSE IF v < 0 THEN 0 ELSE v

\* The first line of the output, a number or not.
ParseCMSChecker(score) == IF score \in 0 .. 100 THEN score ELSE JudgeFailure

\* The exit code, with the points of the message.
ParseTestlib(code, points) ==
    CASE code = 0 -> 100
      [] code \in {1, 2, 4} -> 0
      [] code = 7 /\ points # JudgeFailure -> clampScore(IF points > 100 THEN points \div 100 ELSE points)
      [] code \in 16 .. 116 -> clampScore(code - 16)
      [] OTHER -> JudgeFailure

(***************************************************************************)
(* Properties.                                                             *)
(***************************************************************************)
\* The texts are texts.
CheckTypeOK == expected \in Texts /\ Len(actual) <= MaxText

\* The lines of a text without what surrounds its words and without the
\* blank lines at its end.
Meaning(t) ==
    LET words == [i \in DOMAIN lines(t) |-> fields(lines(t)[i])]
        used == {i \in DOMAIN words : words[i] # <<>>}
    IN  [i \in {j \in DOMAIN words : \E k \in used : j <= k} |-> words[i]]

\* Reading in blocks compares whole texts, wherever their ends fall in a
\* block; blanks are told apart from words; and each comparator accepts
\* what a stricter one accepts.
CheckersSound ==
    /\ CompareExact(expected, actual) = (expected = actual)
    /\ CompareWhite(expected, actual) = (Meaning(expected) = Meaning(actual))
    /\ Compare("exact", expected, actual) <= Compare("", expected, actual)
    /\ Compare("white_diff", expected, actual) <= Compare("float", expected, actual)
=============================================================================
