---------------------------- MODULE MCResumable -----------------------------
(* Instances of Resumable for TLC.                                          *)
EXTENDS Resumable

\* One interrupt that only a resume can answer, one with a pollable trigger
\* and a sibling that cannot be polled (an action center task with an API
\* callback), one with a single pollable trigger.
MCInterrupts == {"ask", "task", "job"}
MCTriggerTypes == {"Api", "Job", "Task"}
MCTypesOf == [i \in MCInterrupts |->
  CASE i = "ask" -> {"Api"} [] i = "task" -> {"Api", "Task"} [] i = "job" -> {"Job"}]

MCTwoInterrupts == {"task", "job"}
MCTwoTypesOf == [i \in MCTwoInterrupts |-> MCTypesOf[i]]
=============================================================================
