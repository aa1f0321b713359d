------------------------- MODULE MCContestWeb -------------------------
(* Instances of ContestWeb for TLC. *)
EXTENDS ContestWeb

NoTokens == [mode |-> "infinite", max |-> 0, minInterval |-> 0,
             genInitial |-> 0, genNumber |-> 0, genInterval |-> 0, genMax |-> 0]

Plain == [start |-> 1, stop |-> 3, perUser |-> 0, analysis |-> FALSE, analysisStart |-> Unset,
          analysisStop |-> Unset, practice |-> FALSE, single |-> FALSE,
          max |-> 0, interval |-> 0, taskMax |-> 0, taskInterval |-> 0,
          tokens |-> [NoTokens EXCEPT !.mode = "disabled"], taskTokens |-> NoTokens]

Nobody == [kinds |-> {"page"}, asks |-> {}, logins |-> 0, edits |-> 0, errors |-> 0, failed |-> 0,
           rows |-> 0, time |-> 4]

\* One login at a time: two browsers log in by turns, the organizers act.
SingleLogin ==
    [rules |-> [Plain EXCEPT !.single = TRUE], loggedIn |-> FALSE,
     bounds |-> [Nobody EXCEPT !.logins = 2, !.edits = 1, !.asks = {"logout", "disable"}, !.errors = 1, !.time = 3]]

\* Everyone has one unit of their own, inside a window of two.
OwnTimes ==
    [rules |-> [Plain EXCEPT !.start = 0, !.stop = 2, !.perUser = 1, !.max = 1], loggedIn |-> TRUE,
     bounds |-> [Nobody EXCEPT !.kinds = {"start", "submit"}, !.edits = 1, !.asks = {"more"}, !.rows = 2,
                               !.time = 2]]

\* The same, the own time being cut by the end of the contest; a client logs in first.
CutTimes ==
    [rules |-> [Plain EXCEPT !.start = 0, !.stop = 2, !.perUser = 2], loggedIn |-> FALSE,
     bounds |-> [Nobody EXCEPT !.kinds = {"start", "submit"}, !.logins = 1, !.rows = 1, !.time = 3]]

\* A window for everyone, tokens that come one by one, analysis and practice.
Tokens ==
    [rules |-> [Plain EXCEPT !.start = 0, !.stop = 2, !.taskMax = 1, !.analysis = TRUE,
                             !.analysisStart = 3, !.analysisStop = 4, !.practice = TRUE,
                             !.tokens = [NoTokens EXCEPT !.mode = "finite", !.genInitial = 1,
                                             !.genNumber = 1, !.genInterval = 1, !.genMax = 1]],
     loggedIn |-> TRUE,
     bounds |-> [Nobody EXCEPT !.kinds = {"submit", "token"}, !.rows = 3]]

\* Two tokens in all, one at an instant.
SpacedTokens ==
    [rules |-> [Plain EXCEPT !.start = 0, !.tokens = [NoTokens EXCEPT !.max = 2, !.minInterval = 1]],
     loggedIn |-> TRUE,
     bounds |-> [Nobody EXCEPT !.kinds = {"submit", "token"}, !.rows = 3, !.time = 2]]

MCScenarios == {SingleLogin, OwnTimes, CutTimes, Tokens, SpacedTokens}

Swaps == Permutations(Servers) \cup Permutations(Clients)
=======================================================================
