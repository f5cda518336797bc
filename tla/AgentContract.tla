---------------------------- MODULE AgentContract ----------------------------
(***************************************************************************)
(* What the wrappers around a resumable agent (the debug and chat runtimes *)
(* and the host behind them) and the agent itself, with its resume         *)
(* triggers, promise each other, whatever either is made of.               *)
(*                                                                         *)
(* The callers: one call at a time; a finished agent is not called again;  *)
(* an input only answers a suspension, and only interrupts the agent waits *)
(* on; a suspended agent is not woken for nothing.  The agent: it waits on *)
(* an interrupt until it gets its answer, from the call or from a fired    *)
(* trigger, once; it drops no answer it has picked up, finishes with       *)
(* nothing open and suspends on something.  A fault releases the callers   *)
(* from their promises and may cut a call short, not the agent from the    *)
(* rest of its own.                                                        *)
(***************************************************************************)
CONSTANTS Interrupts   \* the interrupts the agent may wait on

VARIABLES
  call,      \* "running" while a call of the agent is under way, else "idle"
  given,     \* interrupts whose answer the next pass gets
  open,      \* interrupts the agent waits on
  answered,  \* interrupts whose answer it has received
  fired,     \* interrupts one of whose triggers has fired
  outcome,   \* how the last call ended; "none" while one is under way
  faulty     \* whether there has been a fault

vars == <<call, given, open, answered, fired, outcome, faulty>>

Final == {"successful", "faulted"}

Init ==
  /\ call = "idle" /\ given = {} /\ outcome = "none"
  /\ open = {} /\ answered = {} /\ fired = {}
  /\ faulty = FALSE

-----------------------------------------------------------------------------
(* The callers                                                             *)

Proper(S) ==
  /\ S \subseteq open
  /\ S # {} => outcome = "suspended"
  /\ outcome = "suspended" => S # {} \/ open \cap fired # {}

Call ==
  /\ call = "idle" /\ outcome \notin Final
  /\ call' = "running" /\ outcome' = "none"
  /\ given' \subseteq Interrupts
  /\ (faulty => faulty') /\ (faulty' \/ Proper(given'))
  /\ UNCHANGED <<open, answered, fired>>

-----------------------------------------------------------------------------
(* The agent                                                               *)

\* Answers of fired triggers are taken for the next pass.
PickUp ==
  /\ call = "running"
  /\ given \subseteq given' /\ given' \subseteq given \cup (open \cap fired)
  /\ UNCHANGED <<call, open, answered, fired, outcome, faulty>>

\* One pass, with the answers given and those picked up on the way in: it waits
\* on what was not answered and on interrupts it has not used before.
Pass(P) ==
  LET A == open \cap (given \cup P) IN
  /\ call = "running"
  /\ P \subseteq open \cap fired
  /\ answered' = answered \cup A
  /\ open \ open' = A /\ open' \subseteq Interrupts \ answered'
  /\ given' = {}
  /\ UNCHANGED <<call, fired, outcome, faulty>>

Return ==
  /\ call = "running" /\ given = {}
  /\ outcome' \in Final \cup {"suspended", "breakpoint"}
  /\ outcome' = "suspended" => open # {}
  /\ outcome' = "successful" => open = {}
  /\ call' = "idle"
  /\ UNCHANGED <<given, open, answered, fired, faulty>>

-----------------------------------------------------------------------------
(* Around them                                                             *)

Fire ==
  /\ fired \subseteq fired' /\ fired' \subseteq fired \cup open
  /\ UNCHANGED <<call, given, open, answered, outcome, faulty>>

\* A fault: what was not yet received of the answers is lost.
BreakOff ==
  /\ faulty'
  /\ call' = "idle" /\ given' = {}
  /\ outcome' = IF outcome \in Final THEN outcome ELSE "aborted"
  /\ UNCHANGED <<open, answered, fired>>

Next == Call \/ PickUp \/ (\E P \in SUBSET Interrupts : Pass(P)) \/ Return \/ Fire \/ BreakOff

Spec == Init /\ [][Next]_vars
=============================================================================
