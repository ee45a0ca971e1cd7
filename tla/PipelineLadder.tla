--------------------------- MODULE PipelineLadder ---------------------------
(***************************************************************************)
(* What the pipeline promises of one client, whoever moves it: the stage   *)
(* starts where the client was created or migrated, and every change is    *)
(* either a system step to a higher stage or the agent's next manual step. *)
(* It never goes back.                                                     *)
(***************************************************************************)
EXTENDS PipelineStatus

VARIABLE stage

LadderInit == stage \in {"pending-invite", "not-started", "chased"}

SystemStep == \E s \in {"not-started", "submitted"} :
                 /\ Rank(s) > Rank(stage)
                 /\ stage' = s

AgentStep == /\ NextManual(stage) # NoStage
             /\ stage' = NextManual(stage)

Ladder == LadderInit /\ [][SystemStep \/ AgentStep]_stage
=============================================================================
