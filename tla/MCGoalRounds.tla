---- MODULE MCGoalRounds ----
\* Instantiation of GoalRounds for TLC.
EXTENDS GoalRounds
====
