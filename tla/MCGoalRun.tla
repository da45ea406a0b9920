----------------------------- MODULE MCGoalRun ------------------------------
(* Values for TLC of the constants of GoalRun.                             *)
EXTENDS GoalRun

MCAnswers == {"text", "tool", "complete", "waitTimed", "retryable", "overflow"}
MCMessages == Kinds
=============================================================================
