----------------------------- MODULE MCSession ------------------------------
(* Instance of Session for TLC: an interrupt the chat user answers, one that *)
(* waits for a command of the debugger's user (a timer), one that is polled. *)
EXTENDS Session

MCInterrupts == {"ask", "timer", "job"}
MCApi == {"ask"}
MCWaited == {"ask", "timer"}
=============================================================================
