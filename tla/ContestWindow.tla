--------------------------- MODULE ContestWindow ---------------------------
(***************************************************************************)
(* When a contestant may do what: the window of a contest as seen by one   *)
(* participant (contest/timing.go), the submission limits                  *)
(* (contest/limits.go) and the generation of tokens (contest/tokens.go).   *)
(* Times are integers; Unset stands for a time that is not there.          *)
(***************************************************************************)
EXTENDS Integers, Sequences, SequencesExt, FiniteSetsExt

Unset == -1

Smaller(a, b) == IF a < b THEN a ELSE b

(***************************************************************************)
(* Compute.                                                                *)
(***************************************************************************)
\* Same duration, shifted to the site's start and by the participant's delay.
FirstInstant(r, p) == (IF p.site = Unset THEN r.start ELSE p.site) + p.delay

LastInstant(r, p) ==
    (IF p.site = Unset THEN r.stop ELSE p.site + (r.stop - r.start)) + p.delay

End(r, p) ==
    IF r.perUser > 0 /\ p.starting # Unset
    THEN Smaller(p.starting + r.perUser + p.extra, LastInstant(r, p) + p.extra)
    ELSE LastInstant(r, p) + p.extra

Begin(r, p) ==
    IF r.perUser > 0 /\ p.starting # Unset THEN p.starting ELSE FirstInstant(r, p)

\* The phase before analysis and practice are looked at.
ContestPhase(r, p, now) ==
    IF r.perUser > 0 /\ p.starting = Unset
    THEN CASE now < FirstInstant(r, p) -> "not_started"
           [] now >= FirstInstant(r, p) /\ now < LastInstant(r, p) -> "waiting_start"
           [] OTHER -> "finished"
    ELSE CASE now < Begin(r, p) -> "not_started"
           [] now >= Begin(r, p) /\ now < End(r, p) -> "running"
           [] OTHER -> "finished"

\* Mutant: practice does not wait for the analysis.
PhaseAtOnce(r, p, now) ==
    LET phase == ContestPhase(r, p, now)
    IN  CASE phase = "finished" /\ r.analysis /\ r.analysisStart <= now /\ now < r.analysisStop -> "analysis"
          [] phase = "finished" /\ r.practice
               /\ ~(r.analysis /\ r.analysisStart <= now /\ now < r.analysisStop) -> "practice"
          [] OTHER -> phase

Phase(r, p, now) ==
    LET phase == ContestPhase(r, p, now)
        analysis == r.analysis /\ r.analysisStart # Unset /\ r.analysisStop # Unset
    IN  CASE phase = "finished" /\ analysis
               /\ r.analysisStart <= now /\ now < r.analysisStop -> "analysis"
          [] phase = "finished" /\ r.practice
               /\ (r.analysisStop = Unset \/ ~r.analysis \/ now >= r.analysisStop)
               /\ ~(analysis /\ r.analysisStart <= now /\ now < r.analysisStop) -> "practice"
          [] OTHER -> phase

CanStart(r, p, now) == Phase(r, p, now) = "waiting_start"

CanSubmit(r, p, now) == p.unrestricted \/ Phase(r, p, now) \in {"running", "analysis", "practice"}

Official(r, p, now) ==
    IF p.unrestricted THEN Phase(r, p, now) \notin {"analysis", "practice"}
    ELSE Phase(r, p, now) = "running"

(***************************************************************************)
(* Check: the limits on a contestant's submissions so far, a sequence of   *)
(* times; 0 stands for a limit that is not set.                            *)
(***************************************************************************)
\* Mutant: one more than the limit.
UnderLimitsOff(max, interval, times, now) ==
    /\ max > 0 => Len(times) <= max
    /\ interval > 0 /\ times # <<>> => now >= Max(ToSet(times)) + interval

UnderLimits(max, interval, times, now) ==
    /\ max > 0 => Len(times) < max
    /\ interval > 0 /\ times # <<>> => now >= Max(ToSet(times)) + interval

(***************************************************************************)
(* Tokens: the generations and the plays of a pool replayed in order.      *)
(***************************************************************************)
Capped(t, n) == IF t.genMax > 0 /\ n > t.genMax THEN t.genMax ELSE n

\* Generations up to now, of a pool that began at begin.
Generations(t, begin, now) ==
    IF t.genInterval > 0 /\ t.genNumber > 0 /\ now >= begin
    THEN (now - begin) \div t.genInterval ELSE 0

\* The generations that come due by an instant, each capped; none when the
\* pool is past it.
CatchUp(t, begin, pool, now) ==
    LET passed == Generations(t, begin, now)
        due == IF passed > pool.generated THEN passed - pool.generated ELSE 0
    IN  [generated |-> pool.generated + due,
         tokens |-> IF due = 0 THEN pool.tokens
                    ELSE Capped(t, pool.tokens + due * t.genNumber)]

\* Mutant: a play takes place before the generation of the same instant.
AvailableEarly(t, begin, played, now) ==
    LET spent == FoldLeft(LAMBDA pool, at :
                            LET caught == CatchUp(t, begin, pool, at - 1)
                            IN  [caught EXCEPT !.tokens = @ - 1],
                          [generated |-> 0, tokens |-> Capped(t, t.genInitial)], played)
    IN  CatchUp(t, begin, spent, now).tokens

Available(t, begin, played, now) ==
    LET spent == FoldLeft(LAMBDA pool, at :
                            LET caught == CatchUp(t, begin, pool, at)
                            IN  [caught EXCEPT !.tokens = @ - 1],
                          [generated |-> 0, tokens |-> Capped(t, t.genInitial)], played)
        left == CatchUp(t, begin, spent, now).tokens
    IN  IF left < 0 THEN 0 ELSE left

CanPlay(t, begin, played, now) ==
    /\ t.mode # "disabled"
    /\ t.max > 0 => Len(played) < t.max
    /\ t.minInterval > 0 /\ played # <<>> => now >= Max(ToSet(played)) + t.minInterval
    /\ t.mode = "infinite" \/ Available(t, begin, played, now) > 0

=============================================================================
