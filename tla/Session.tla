------------------------------- MODULE Session ------------------------------
(***************************************************************************)
(* An agent run by the host through the debug runtime, the chat runtime or *)
(* both.  The two nestings are those the repository shows: the debugger    *)
(* inside the chat (INTEGRATION_GENOME.md, the wrapper stack) and outside  *)
(* it (tests/test_chat.py, "Same nesting as `uipath debug`").              *)
(***************************************************************************)
EXTENDS DebugRuntime, ChatRuntime

VARIABLES
  host,   \* the consumer of the outermost stream: "idle", "draining", "done"
  seen,   \* the last result it got, what execute() returns
  failed  \* an exception reached it

hostVars == <<host, seen, failed>>
vars == <<streamVars, debugVars, chatVars, hostVars>>

ChatOutside == <<"chat", "debug", "agent">>
ChatInside == <<"debug", "chat", "agent">>
Stacks == {<<"debug", "agent">>, <<"chat", "agent">>, ChatOutside, ChatInside}

Top == stack[1]

Init ==
  /\ stack \in Stacks
  /\ StreamsInit /\ DebugInit /\ ChatInit
  /\ host = "idle" /\ seen = "none" /\ failed = FALSE

-----------------------------------------------------------------------------
(* The host drains the outermost stream.                                   *)

HostCalls ==
  /\ host = "idle" /\ host' = "draining"
  /\ pc' = [pc EXCEPT ![Top] = Start(Top)]
  /\ UNCHANGED <<stack, yields, args, agentVars, fired, debugVars, chatVars,
                 seen, failed>>

HostTakes ==
  /\ host = "draining" /\ yields[Top] # "none"
  /\ seen' = yields[Top]
  /\ yields' = [yields EXCEPT ![Top] = "none"]
  /\ UNCHANGED <<stack, pc, args, agentVars, fired, debugVars, chatVars, host,
                 failed>>

HostDone ==
  /\ host = "draining" /\ pc[Top] = "ended"
  /\ host' = "done"
  /\ UNCHANGED <<streamVars, debugVars, chatVars, seen, failed>>

-----------------------------------------------------------------------------
(* Exceptions: each layer they pass tries to tell its bridge and re-raises. *)

AgentAtWork == {"running", "handling"}

\* The layers that await something of their own: a bridge, a trigger.
Awaiting ==
  {l \in Layers :
     \/ l = "debug" /\ pc[l] \in {"connecting", "waiting", "paused", "replying",
                                  "polling", "closing"}
     \/ l = "chat" /\ pc[l] \in {"calling", "asking"}
     \/ l = "chat" /\ pc[l] = "yielding" /\ yields[l] = "none"
     \/ l = "agent" /\ pc[l] \in AgentAtWork}

Raise(l) ==
  /\ told' \in IF HasLayer("debug") /\ Depth("debug") <= Depth(l)
               THEN {told, "error"} ELSE {told}
  /\ exchange' \in IF HasLayer("chat") /\ Depth("chat") <= Depth(l)
                   THEN {exchange, "error"} ELSE {exchange}
  /\ host' = "done" /\ failed' = TRUE
  /\ pc' = [m \in Layers |-> "off"] /\ yields' = [m \in Layers |-> "none"]
  /\ UNCHANGED <<stack, args, agentVars, fired, streams, mode, completed, quit,
                 toAsk, replies, over, seen>>

Fail == \E l \in Awaiting : Raise(l)

\* An agent without stream() that is not directly inside the debug runtime.
Unsupported ==
  /\ pc["agent"] = "running" /\ ~streams /\ ~DebugsTheAgent
  /\ Raise("agent")

AgentStep ==
  \/ /\ streams \/ mode = "fallback"
     /\ \E New, A \in SUBSET Interrupts : Pass(New, A)
  \/ \E F \in SUBSET Interrupts : PicksUp(F)
  \/ \E kind \in Results : HandsOn(kind)
  \/ AgentEnds

-----------------------------------------------------------------------------
Step ==
  \/ DebugStep /\ UNCHANGED <<chatVars, hostVars>>
  \/ ChatStep /\ UNCHANGED <<debugVars, hostVars>>
  \/ AgentStep /\ UNCHANGED <<debugVars, chatVars, hostVars>>
  \/ Unsupported
  \/ HostCalls \/ HostTakes \/ HostDone

TriggerFires ==
  (\E i \in open : Fire(i)) /\ UNCHANGED <<debugVars, chatVars, hostVars>>

Over == host = "done" /\ UNCHANGED vars

UserQuits == Quit /\ UNCHANGED <<chatVars, hostVars>>

Next == Step \/ UserQuits \/ Fail \/ TriggerFires \/ Over

Spec == Init /\ [][Next]_vars

\* The event loop runs what can run; both users answer in the end (or the
\* first wait times out), but nobody need quit; an open trigger fires in the
\* end.
FairSpec == Spec /\ WF_vars(Step) /\ WF_vars(TriggerFires)
-----------------------------------------------------------------------------
(* Properties                                                              *)

TypeOK ==
  /\ stack \in Stacks /\ StreamsTypeOK /\ DebugTypeOK /\ ChatTypeOK
  /\ host \in {"idle", "draining", "done"} /\ failed \in BOOLEAN
  /\ seen \in Results \cup {"none"}

\* An answer given to the agent is for an interrupt it is waiting on: over
\* breakpoints, several suspensions and restarted streams no answer is sent a
\* second time ("Resume with no new input (very important)").
AnswersAreFresh ==
  pc["agent"] = "running" => args["agent"].input \subseteq open

\* Once it has run, the agent is only ever resumed: no wrapper starts it
\* afresh and loses the interrupts it waits on (options.resume through both
\* wrappers, their breaks, restarts and fallbacks).
NeverStartedAfresh ==
  pc["agent"] = "running" /\ result # "none" => args["agent"].resume

\* After the debugger's user quit, at whichever wait, the agent does nothing.
QuitIsFinal == [][quit => UNCHANGED agentVars]_vars

\* What the host gets is how the agent ended, or SUCCESSFUL after a quit, and
\* a run is not left at a breakpoint, attended or not: the loops of the
\* wrappers end exactly with the agent.
OutcomeIsTold ==
  host = "done" /\ ~failed /\ stack # ChatOutside =>
    IF quit THEN seen = "successful" ELSE seen = result /\ result # "breakpoint"

\* Every reply the chat user was asked for has been given to the agent when
\* the stream ends.
RepliesReachTheAgent ==
  host = "done" /\ ~failed /\ stack # ChatOutside => replies \subseteq answered

\* The conversation's turn ends when the agent has finished (or the debugger's
\* user quit), not while it is paused or suspended ("Ending the exchange here
\* would close the turn in CAS before the agent has finished replying"), and
\* a finished agent does not leave it open.
ExchangeEndsWithTheAgent ==
  /\ exchange = "ended" => result = "successful" \/ quit
  /\ host = "done" /\ ~failed /\ HasLayer("chat") /\ result = "successful"
       => exchange = "ended"

\* The wrappers keep their side of the contract with the agent.
Contract == INSTANCE AgentContract
  WITH call <- IF pc["agent"] \in AgentAtWork THEN "running" ELSE "idle",
       given <- IF pc["agent"] = "running" THEN args["agent"].input ELSE {},
       outcome <- CASE pc["agent"] \in AgentAtWork -> "none"
                    [] failed /\ result \notin {"successful", "faulted"} -> "aborted"
                    [] OTHER -> result,
       faulty <- failed

HonoursContract == Contract!Spec

\* Users that answer and triggers that fire bring every run to its end: no
\* wrapper waits for something that was already given, or runs in circles.
RunsEnd == <>(host = "done")

\* "A breakpoint only pauses the run" (chat/runtime.py): a reply of the chat
\* user is given to the agent, in every nesting.  With the debug runtime
\* inside, the chat's loop counts the breakpoint as the end and leaves after
\* the next round of questions without resuming the agent.
NoReplyIsLost == host = "done" /\ ~failed /\ ~quit => replies \subseteq answered
=============================================================================
