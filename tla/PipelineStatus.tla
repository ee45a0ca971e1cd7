--------------------------- MODULE PipelineStatus ---------------------------
(***************************************************************************)
(* The pipeline status of a client: the ladder of stages, the order on it, *)
(* the steps an agent may take by hand, and the status the dashboard shows *)
(* (dashboard/pipeline-status.ts).  Pure operators, no state.              *)
(***************************************************************************)
EXTENDS Naturals

\* What is kept in clients.pipeline_status.
Stages == {"pending-invite", "not-started", "chased", "records-received",
           "ready-for-review", "submitted"}

\* The stages an agent sets by hand.
ManualStages == {"records-received", "ready-for-review"}

\* No stage: the agent has no manual step to take from here.
NoStage == "none"

\* The position of a stage on the ladder.
Rank(s) == CASE s = "pending-invite"   -> 0
             [] s = "not-started"      -> 1
             [] s = "chased"           -> 2
             [] s = "records-received" -> 3
             [] s = "ready-for-review" -> 4
             [] s = "submitted"        -> 5

\* The one manual stage that may follow s.
NextManual(s) == CASE s = "chased"           -> "records-received"
                   [] s = "records-received" -> "ready-for-review"
                   [] OTHER                  -> NoStage

\* The status the signals of the current quarter amount to.
Derive(authorised, submitted, chasedThisQuarter) ==
  CASE ~authorised                                   -> "pending-invite"
    [] authorised /\ submitted                       -> "submitted"
    [] authorised /\ ~submitted /\ chasedThisQuarter -> "chased"
    [] OTHER                                         -> "not-started"

\* The persisted status wins unless the derived one ranks above it.
Resolve(persisted, derived) ==
  IF Rank(persisted) >= Rank(derived) THEN persisted ELSE derived
=============================================================================
