-------------------------- MODULE MCTaskProcessing --------------------------
(* A task of a user and a system task, and two worker processes.           *)
EXTENDS TaskProcessing

CONSTANTS userTask, systemTask, w1, w2

MCTasks == {userTask, systemTask}
MCUserTasks == {userTask}
MCWorkers == {w1, w2}
=============================================================================
