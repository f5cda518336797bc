----------------------------- MODULE ChatRuntime ----------------------------
(***************************************************************************)
(* UiPathChatRuntime (chat/runtime.py): asks the chat user for every API   *)
(* interrupt of a suspension and runs the inner runtime again with the     *)
(* replies; every other result is handed out and ends the stream.          *)
(***************************************************************************)
EXTENDS Streams

VARIABLES
  toAsk,    \* API triggers whose reply is still to be awaited
  replies,  \* resume_map, of the current or the last round of questions
  over,     \* execution_completed
  exchange  \* what the conversation service heard: "open", "ended", "error"

chatVars == <<toAsk, replies, over, exchange>>

ChatInit == toAsk = {} /\ replies = {} /\ over = FALSE /\ exchange = "open"

ChatGoes(to) == pc' = [pc EXCEPT !["chat"] = to]
Offered == yields[Inner("chat")]

\* connect(), in a new stream, then the next turn of the while loop.
ChatCall ==
  /\ CallInner("chat", "calling", "consuming", args["chat"])
  /\ over' = FALSE
  /\ UNCHANGED <<stack, yields, agentVars, fired, toAsk, replies, exchange>>

\* Deviation: every trigger is put to the chat user.
ApiTriggersAll == open

ApiTriggers == open \cap Api
Asks == Offered = "suspended" /\ ApiTriggers # {}

AskFor ==
  /\ pc["chat"] = "consuming" /\ Asks
  /\ toAsk' = ApiTriggers /\ replies' = {}
  /\ ChatGoes("asking")
  /\ UNCHANGED <<stack, yields, args, agentVars, fired, over, exchange>>

\* emit_interrupt_event, wait_for_resume, and for an approved tool call
\* emit_executing_tool_call_event.
Reply(i) ==
  /\ pc["chat"] = "asking" /\ i \in toAsk
  /\ replies' = replies \cup {i} /\ toAsk' = toAsk \ {i}
  /\ UNCHANGED <<stack, pc, yields, args, agentVars, fired, over, exchange>>

\* Deviation: the second pass starts the agent afresh.
ResumeArgsFresh == [args["chat"] EXCEPT !.input = replies]

ResumeArgs == [args["chat"] EXCEPT !.input = replies, !.resume = TRUE]

\* Deviation: the stream ends after a round of questions.
LoopEndsAfterReplies == TRUE

LoopEnds == over

\* break: the inner streams are dropped and the while condition is tested.
AllReplied ==
  /\ pc["chat"] = "asking" /\ toAsk = {}
  /\ args' = [args EXCEPT !["chat"] = ResumeArgs]
  /\ yields' = Dropped("chat", yields, "none")
  /\ pc' = [Dropped("chat", pc, "off") EXCEPT
              !["chat"] = IF LoopEnds THEN "ended" ELSE "calling"]
  /\ UNCHANGED <<stack, agentVars, fired, chatVars>>

\* FAULTED is reported before it is yielded.
HandOut ==
  /\ pc["chat"] = "consuming" /\ Offered # "none" /\ ~Asks
  /\ yields' = [yields EXCEPT !["chat"] = Offered]
  /\ exchange' = IF Offered = "faulted" THEN "error" ELSE exchange
  /\ ChatGoes("yielding")
  /\ UNCHANGED <<stack, args, agentVars, fired, toAsk, replies, over>>

\* Deviation: the turn is closed at a breakpoint too.
EndsExchangePaused(e) == e \in {"successful", "breakpoint"}

\* Neither a breakpoint nor a suspension ends the exchange.
EndsExchange(e) == e = "successful"

HandedOut ==
  /\ pc["chat"] = "yielding" /\ yields["chat"] = "none"
  /\ over' = TRUE
  /\ exchange' = IF EndsExchange(Offered) THEN "ended" ELSE exchange
  /\ yields' = [yields EXCEPT ![Inner("chat")] = "none"]
  /\ ChatGoes("consuming")
  /\ UNCHANGED <<stack, args, agentVars, fired, toAsk, replies>>

\* Every inner stream that ends has yielded a result.
ChatEnds ==
  /\ pc["chat"] = "consuming" /\ pc[Inner("chat")] = "ended"
  /\ ChatGoes("ended")
  /\ UNCHANGED <<stack, yields, args, agentVars, fired, chatVars>>

ChatStep ==
  \/ ChatCall \/ AskFor \/ (\E i \in toAsk : Reply(i)) \/ AllReplied
  \/ HandOut \/ HandedOut \/ ChatEnds
-----------------------------------------------------------------------------
\* The types of the chat loop's own state.
ChatTypeOK ==
  /\ toAsk \subseteq Api /\ replies \subseteq Api /\ over \in BOOLEAN
  /\ exchange \in {"open", "ended", "error"}
=============================================================================
