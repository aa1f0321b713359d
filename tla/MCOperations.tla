---------------------------- MODULE MCOperations ----------------------------
(***************************************************************************)
(* The replicas of a service with their lease, the work of the staff in    *)
(* the administration pages and at the contest (the desk and the floor),   *)
(* and the scores of submissions.  They share no variable: a behaviour     *)
(* moves one of them, and the others stay as they start.                   *)
(***************************************************************************)
EXTENDS Lease, Registrar, Problems, Scoring, Standings, Desk, Floor

VARIABLE moving

operationsVars ==
    <<moving, vars, registrarVars, problemsVars, scoringVars, standingsVars, deskVars, floorVars>>

MCNames == {"a", "b"}
MCFile(file, pw, t, u, g) == [rows |-> file, pw |-> pw, team |-> t, update |-> u, generate |-> g]
MCFiles == {MCFile(<<"a", "b">>, FALSE, FALSE, TRUE, TRUE), MCFile(<<"a">>, FALSE, TRUE, TRUE, FALSE),
            MCFile(<<"b", "b">>, TRUE, FALSE, TRUE, FALSE), MCFile(<<"b">>, TRUE, TRUE, FALSE, FALSE)}
MCPackages == {[name |-> "n3", tests |-> {"x"}, groups |-> {"x"}, managers |-> {"checker"}]}
MCSubtask(max, count, list, t) == [max |-> max, count |-> count, list |-> list, threshold |-> t]
MCSubtaskings ==
    {<<MCSubtask(1, 2, {}, 2), MCSubtask(3, 2, {}, 1)>>,
     <<MCSubtask(2, 0, {1, 2}, 1), MCSubtask(3, 0, {2, 3}, 2), MCSubtask(0, 1, {}, 2)>>,
     <<MCSubtask(5, 0, {1, 3}, 1), MCSubtask(4, 5, {}, 1)>>, <<MCSubtask(3, 3, {}, 3)>>}

MCTeam == [p \in Entrants |-> IF p <= 2 THEN 1 ELSE 0]
MCStart == [p \in Entrants |-> IF p = 2 THEN 1 ELSE 0]
MCResults == [m \in Modes |-> {<<1, 0>>, IF m = "max_subtask" THEN <<0, 1>> ELSE <<1, 1>>}]
MCShares == <<2, 2, 1>>

\* Balloons and appeals share no table: a behaviour has one or the other.
FloorPart == floorClock' = 0 \/ floorPhase' = "running"

OperationsInit ==
    /\ moving \in {"lease", "registrar", "problems", "scoring", "standings", "desk", "floor"}
    /\ Init /\ RegistrarInit /\ ProblemsInit /\ ScoringInit /\ StandingsInit /\ DeskInit /\ FloorInit
    /\ moving # "registrar" => registration = "code"
    /\ moving # "scoring" => kind = "Sum" /\ truth = [t \in Tests |-> 0]
    /\ moving # "standings" => mode = "max"

OperationsNext ==
    \/ /\ moving = "lease" /\ Next
       /\ UNCHANGED <<moving, registrarVars, problemsVars, scoringVars, standingsVars, deskVars, floorVars>>
    \/ /\ moving = "registrar" /\ RegistrarNext
       /\ UNCHANGED <<moving, vars, problemsVars, scoringVars, standingsVars, deskVars, floorVars>>
    \/ /\ moving = "problems" /\ ProblemsNext
       /\ UNCHANGED <<moving, vars, registrarVars, scoringVars, standingsVars, deskVars, floorVars>>
    \/ /\ moving = "scoring" /\ ScoringNext
       /\ UNCHANGED <<moving, vars, registrarVars, problemsVars, standingsVars, deskVars, floorVars>>
    \/ /\ moving = "standings" /\ StandingsNext
       /\ UNCHANGED <<moving, vars, registrarVars, problemsVars, scoringVars, deskVars, floorVars>>
    \/ /\ moving = "desk" /\ DeskNext
       /\ UNCHANGED <<moving, vars, registrarVars, problemsVars, scoringVars, standingsVars, floorVars>>
    \/ /\ moving = "floor" /\ FloorNext /\ FloorPart
       /\ UNCHANGED <<moving, vars, registrarVars, problemsVars, scoringVars, standingsVars, deskVars>>

\* The fairness of Lease, for the behaviours that move it.
OperationsFairness ==
    /\ \A r \in Replicas :
         /\ WF_vars(moving = "lease" /\ TryAcquire(r)) /\ WF_vars(moving = "lease" /\ Renew(r))
         /\ WF_vars(moving = "lease" /\ Stop(r))
         /\ WF_vars(moving = "lease" /\ AdoptPending(r)) /\ WF_vars(moving = "lease" /\ readGroup(r))
         /\ WF_vars(moving = "lease" /\ handle(r)) /\ WF_vars(moving = "lease" /\ Ack(r))
    /\ WF_vars(moving = "lease" /\ ExpireDead)

OperationsSpec == OperationsInit /\ [][OperationsNext]_operationsVars /\ OperationsFairness

\* Every variable has its type.
OperationsTypeOK ==
    CASE moving = "lease" -> TypeOK
      [] moving = "registrar" -> RegistrarTypeOK
      [] moving = "problems" -> ProblemsTypeOK
      [] moving = "scoring" -> ScoringTypeOK
      [] moving = "standings" -> StandingsTypeOK
      [] moving = "desk" -> DeskTypeOK
      [] moving = "floor" -> FloorTypeOK

\* What the staff enter stays consistent whatever pages are open at once:
\* users, participations and teams, and tasks, datasets and packages.
StaffSound ==
    /\ moving = "registrar" => RosterSound
    /\ moving = "problems" => ProblemsSound

\* Scores and verdicts are those of a full judging, and the standings those
\* of the history of the contest.
ScoresSound ==
    /\ moving = "scoring" => ScoringSound
    /\ moving = "standings" => StandingsSound

\* Contestants miss no notice and read no private one, every solve is one
\* balloon of its team, and appeals stay within their limit, whoever else is
\* served meanwhile.
ContestFloorSound ==
    /\ moving = "desk" => DeskSound
    /\ moving = "floor" => FloorSound

\* Where the replicas run, every takeover ends.
LeaseSettles == moving = "lease" => TakeoverEnds
=============================================================================
