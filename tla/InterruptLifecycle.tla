------------------------- MODULE InterruptLifecycle -------------------------
(***************************************************************************)
(* What resume-trigger management promises for each interrupt of a job,    *)
(* without storage, triggers or call stack.  An interrupt is raised by the *)
(* agent, becomes registered (something durable can wake the job for it),  *)
(* its answer is taken once, and the agent receives that answer.           *)
(* A fault may only send an interrupt backwards: the answer or the         *)
(* registration is lost, and the interrupt has to be registered again.     *)
(* It can never be answered twice, nor without having been registered.     *)
(***************************************************************************)
CONSTANTS Interrupts   \* the interrupts the agent may raise

Statuses == {"unraised", "raised", "registered", "taken", "answered"}

VARIABLES
  status,
  faulty        \* whether there has been a fault

With(x) == {i \in Interrupts : status[i] = x}

Move(S, x) == [i \in Interrupts |-> IF i \in S THEN x ELSE status[i]]

Init == status = [i \in Interrupts |-> "unraised"] /\ faulty = FALSE

\* The agent runs: it consumes every answer taken so far and raises more.
Run(New) ==
  /\ New \subseteq With("unraised")
  /\ status' = [i \in Interrupts |->
                  CASE i \in With("taken") -> "answered"
                    [] i \in New -> "raised"
                    [] OTHER -> status[i]]
  /\ UNCHANGED faulty

\* Every raised interrupt becomes durable in one write.
Register ==
  /\ status' = Move(With("raised"), "registered")
  /\ UNCHANGED faulty

\* The answer of some registered interrupts is taken.
Take(S) ==
  /\ S \subseteq With("registered")
  /\ status' = Move(S, "taken")
  /\ UNCHANGED faulty

\* A fault, or what one that happened before leads to: each answer taken but
\* not yet received either stays registered or has to be asked for again; some
\* registrations may be lost as well.
Lose ==
  /\ faulty'
  /\ \E Back \in SUBSET With("taken"), Gone \in SUBSET With("registered") :
       status' = [i \in Interrupts |->
                    CASE i \in Back -> "registered"
                      [] i \in (With("taken") \ Back) \cup Gone -> "raised"
                      [] OTHER -> status[i]]

Next ==
  \/ \E New \in SUBSET Interrupts : Run(New)
  \/ Register
  \/ \E S \in SUBSET Interrupts : Take(S)
  \/ Lose

vars == <<status, faulty>>

Spec == Init /\ [][Next]_vars
=============================================================================
