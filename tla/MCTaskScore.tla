---------------------------- MODULE MCTaskScore ----------------------------
(***************************************************************************)
(* Instances of TaskScore for TLC.  The configurations choose the number   *)
(* of points each subtask may give.                                        *)
(*                                                                         *)
(* PartsSpec splits the behaviours in parts, each with its own limits:     *)
(*                                                                         *)
(*   counting   both submissions, a token, an invalidation, an adjustment  *)
(*              or a reevaluation, on the first live dataset; the other    *)
(*              one fails to judge every submission at once, and nothing   *)
(*              else goes wrong;                                           *)
(*   datasets   one submission judged on both datasets, either of them     *)
(*              live, with a restart, a failure or a lost event;           *)
(*   races      no limit but the bounds.                                   *)
(***************************************************************************)
EXTENDS TaskScore

CONSTANTS MaxPoints, Parts

MCOutcomes == [Subtasks -> 0 .. MaxPoints]

VARIABLE part

\* The datasets are in the cache when the first submission is made, and
\* the others give it a system error before anything else happens to it.
OthersFail ==
    /\ stored # {} => loading = {} /\ \A d \in Datasets : cache[d] # NoDataset
    /\ \A d \in Datasets \ {FirstLive}, s \in Submissions :
         /\ result[d][s].state \in {"absent", "error"} /\ result[d][s].comp = "none"
         /\ result[FirstLive][s].state # "absent" => result[d][s].state = "error"

WithinPart ==
    /\ part = "counting" =>
         active = FirstLive /\ restarts + failures + losses = 0 /\ OthersFail
    /\ part = "datasets" =>
         /\ stored \in SUBSET {1} /\ tokened = {} /\ invalid = {} /\ given = 0
         /\ restarts + failures + losses <= 1

PartsInit == Init /\ part \in Parts

PartsNext == Next /\ UNCHANGED part /\ WithinPart'

PartsSpec == PartsInit /\ [][PartsNext]_<<vars, part>>
=============================================================================
