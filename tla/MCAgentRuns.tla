---------------------------- MODULE MCAgentRuns ----------------------------
(* Small instances of AgentRuns for TLC.                                   *)
EXTENDS AgentRuns, TLC

CONSTANTS w1, w2, r1, r2, r3, t1, p1

\* The call sites: a mention of an agent in a task, a move of the task into a
\* trigger column, and a schedule of the project.
MCCalls ==
    {[loop |-> "trigger", task |-> t1, project |-> p1, initiator |-> "user"],
     [loop |-> "trigger", task |-> t1, project |-> p1, initiator |-> "none"],
     [loop |-> "schedule", task |-> NoTask, project |-> p1, initiator |-> "other"]}

MCScheduleCalls == {c \in MCCalls : c.loop = "schedule"}

MCLoops == {"trigger", "schedule"}

MCPolicy == [a \in Actions |-> IF a = "task.update" THEN "auto" ELSE "require"]

Symmetry == Permutations(Workers) \cup Permutations(Runs)
=============================================================================
