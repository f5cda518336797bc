---------------------------- MODULE MCLogCapture ----------------------------
(* Instances of LogCapture for TLC: overlapping child executions, each in a *)
(* task of its own as asyncio.gather starts them, and a mix with two that   *)
(* nest in one task and one in the task of the main interceptor.            *)
EXTENDS LogCapture, TLC

CONSTANTS k1, k2, k3, k4, task, main_task

MCKids == {k1, k2, k3}
MCTasks == {k1, k2, k3, main_task}
MCTaskOf == [e \in MCKids |-> e]

MCNestedKids == {k1, k2, k3, k4}
MCNestedTasks == {task, k3, main_task}
MCNestedTaskOf == (k1 :> task) @@ (k2 :> task) @@ (k3 :> k3) @@ (k4 :> main_task)
MCNestedStreamed == {k1, k2, k4}
=============================================================================
