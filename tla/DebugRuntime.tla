---------------------------- MODULE DebugRuntime ----------------------------
(***************************************************************************)
(* UiPathDebugRuntime (debug/runtime.py): waits for the debugger's user to *)
(* start the run, runs the inner runtime until it really completes, and    *)
(* between two passes waits at breakpoints and for the answer of the       *)
(* trigger a suspension names.  The user may quit at any wait; a first     *)
(* wait that times out turns the run into an unattended pass-through.      *)
(*                                                                         *)
(* One action is the stretch up to the next await whose outcome matters.   *)
(***************************************************************************)
EXTENDS Streams

CONSTANTS
  Waited, \* interrupts whose trigger type is API, INBOX or TIMER
  Polling \* a resumable runtime is inside and trigger_poll_interval > 0

ASSUME WaitedAssumption == Waited \subseteq Interrupts
ASSUME PollingAssumption == Polling \in BOOLEAN

VARIABLES
  streams,   \* whether the agent supports stream()
  mode,      \* "attended", "unattended" or "fallback" to execute()
  completed, \* execution_completed
  told,      \* the last the debugger heard of the run as a whole
  quit       \* history: the user quit

debugVars == <<streams, mode, completed, told, quit>>
debugOnly == <<stack, yields, args, agentVars, fired>>

DebugInit ==
  /\ streams \in BOOLEAN
  /\ mode = "attended" /\ completed = FALSE /\ told = "nothing" /\ quit = FALSE

Goes(to) == pc' = [pc EXCEPT !["debug"] = to]

\* connect() and emit_execution_started(), then the locals of a new stream.
Connect ==
  /\ pc["debug"] = "connecting"
  /\ Goes("waiting")
  /\ mode' = "attended" /\ completed' = FALSE /\ told' = "started"
  /\ UNCHANGED <<debugOnly, streams, quit>>

InitialResume ==
  /\ pc["debug"] = "waiting"
  /\ Goes("calling")
  /\ UNCHANGED <<debugOnly, debugVars>>

\* The bridge is disconnected; what it says from now on is not heard.
InitialTimeout ==
  /\ pc["debug"] = "waiting"
  /\ Goes("calling")
  /\ mode' = "unattended" /\ completed' = TRUE
  /\ UNCHANGED <<debugOnly, streams, told, quit>>

\* Deviation: the run goes on unattended with the bridge's breakpoints.
InnerArgsKeepStops == [args["debug"] EXCEPT !.stops = TRUE]

\* The bridge's breakpoints replace those of the options; unattended: none.
InnerArgs == [args["debug"] EXCEPT !.stops = (mode = "attended")]

CallDelegate ==
  /\ CallInner("debug", "calling", "consuming", InnerArgs)
  /\ UNCHANGED <<stack, yields, agentVars, fired, debugVars>>

DebugsTheAgent == stack \in {<<"debug", "agent">>, <<"chat", "debug", "agent">>}

\* UiPathStreamNotSupportedError from a runtime directly inside: execute()
\* with the caller's own input and options, and no debugging of the result.
Fallback ==
  /\ pc["agent"] = "running" /\ ~streams
  /\ DebugsTheAgent /\ mode # "fallback"
  /\ mode' = "fallback" /\ completed' = TRUE
  /\ args' = [args EXCEPT !["agent"] = args["debug"]]
  /\ UNCHANGED <<stack, pc, yields, agentVars, fired, streams, told, quit>>

\* Every event is yielded before it is handled.
Forward ==
  /\ pc["debug"] = "consuming" /\ yields[Inner("debug")] # "none"
  /\ yields' = [yields EXCEPT !["debug"] = yields[Inner("debug")]]
  /\ Goes("yielding")
  /\ UNCHANGED <<stack, args, agentVars, fired, debugVars>>

Taken == pc["debug"] = "yielding" /\ yields["debug"] = "none"
Event == yields[Inner("debug")]

AwaitsTrigger == mode = "attended" /\ Event = "suspended" /\ Polling

AtBreakpoint ==
  /\ Taken /\ mode = "attended" /\ Event = "breakpoint"
  /\ Goes("paused")
  /\ UNCHANGED <<debugOnly, debugVars>>

\* API, INBOX and TIMER triggers wait for the user's command, others are read.
AtSuspension ==
  /\ Taken /\ AwaitsTrigger
  /\ Goes(IF first \in Waited THEN "replying" ELSE "polling")
  /\ UNCHANGED <<debugOnly, debugVars>>

\* Any other result is final, and so is every result without the debugger.
AtEnd ==
  /\ Taken /\ ~AwaitsTrigger /\ ~(mode = "attended" /\ Event = "breakpoint")
  /\ completed' = TRUE
  /\ yields' = [yields EXCEPT ![Inner("debug")] = "none"]
  /\ Goes("consuming")
  /\ UNCHANGED <<stack, args, agentVars, fired, streams, mode, told, quit>>

\* The next pass is to take `input`; the inner stream is asked to go on.
ResumeWith(input) ==
  /\ args' = [args EXCEPT !["debug"].input = input, !["debug"].resume = TRUE]
  /\ yields' = [yields EXCEPT ![Inner("debug")] = "none"]
  /\ Goes("consuming")
  /\ UNCHANGED <<stack, agentVars, fired, debugVars>>

\* Deviation: the previous input is sent again after a breakpoint.
InputAfterBreakpointKept == args["debug"].input

\* "Resume with no new input (very important)"
InputAfterBreakpoint == {}

BreakpointResume == pc["debug"] = "paused" /\ ResumeWith(InputAfterBreakpoint)

\* Deviation: the answer is not passed on.
ResumeDataEmpty(i) == {}

ResumeData(i) == {i}

ReplyResume == pc["debug"] = "replying" /\ ResumeWith(ResumeData(first))

\* _poll_trigger: the read that returns data; one that finds the trigger
\* pending reports the attempt and sleeps.
PollResume == pc["debug"] = "polling" /\ first \in fired /\ ResumeWith(ResumeData(first))

\* Deviation: the loop is not told that the execution is over.
QuitUnnoticed == completed

CompletedByQuit == TRUE

\* UiPathDebugQuitError at any wait: a SUCCESSFUL result is yielded.
Quit ==
  /\ pc["debug"] \in {"waiting", "paused", "replying", "polling"}
  /\ yields' = [yields EXCEPT !["debug"] = "successful"]
  /\ Goes(IF pc["debug"] = "waiting" THEN "leaving" ELSE "quitting")
  /\ completed' = CompletedByQuit /\ quit' = TRUE
  /\ UNCHANGED <<stack, args, agentVars, fired, streams, mode, told>>

QuitTaken ==
  /\ yields["debug"] = "none"
  /\ \/ pc["debug"] = "leaving" /\ Goes("closing") /\ UNCHANGED yields
     \/ pc["debug"] = "quitting" /\ Goes("consuming")
        /\ yields' = [yields EXCEPT ![Inner("debug")] = "none"]
  /\ UNCHANGED <<stack, args, agentVars, fired, debugVars>>

InnerEnded ==
  /\ pc["debug"] = "consuming" /\ pc[Inner("debug")] = "ended"
  /\ Goes(IF completed THEN "closing" ELSE "calling")
  /\ UNCHANGED <<debugOnly, debugVars>>

\* emit_execution_completed, also on a bridge that was disconnected.
Complete ==
  /\ pc["debug"] = "closing"
  /\ told' = "completed"
  /\ Goes("ended")
  /\ UNCHANGED <<debugOnly, streams, mode, completed, quit>>

DebugStep ==
  \/ Connect \/ InitialResume \/ InitialTimeout \/ CallDelegate \/ Fallback
  \/ Forward \/ AtBreakpoint \/ AtSuspension \/ AtEnd
  \/ BreakpointResume \/ ReplyResume \/ PollResume
  \/ QuitTaken \/ InnerEnded \/ Complete
-----------------------------------------------------------------------------
\* The types of the debug loop's own state.
DebugTypeOK ==
  /\ streams \in BOOLEAN /\ mode \in {"attended", "unattended", "fallback"}
  /\ completed \in BOOLEAN /\ quit \in BOOLEAN
  /\ told \in {"nothing", "started", "completed", "error"}
=============================================================================
