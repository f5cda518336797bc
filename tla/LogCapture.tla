----------------------------- MODULE LogCapture -----------------------------
(***************************************************************************)
(* UiPathRuntimeLogsInterceptor with its filters and writers (logging/),   *)
(* as UiPathExecutionRuntime (one per child execution) and                 *)
(* UiPathRuntimeContext (the main one) use it.  They share the process:    *)
(* sys.stdout, the root logger, the "stdout" logger, every other logger,   *)
(* and one context variable per asyncio task.                              *)
(*                                                                         *)
(* Setup and teardown contain no await: each is one action.  Executions    *)
(* overlap freely between them, nest in one task, and a stream() may be    *)
(* left by its consumer and finalised by the event loop later.  A handler  *)
(* is named by the interceptor that owns it, and so is the writer it puts  *)
(* in sys.stdout; sys.stderr is treated by the same lines and left out.    *)
(* What a record printed or logged NOW would reach is the operator         *)
(* Reaches, so the properties cover every record without an action for     *)
(* writing one.                                                            *)
(***************************************************************************)
EXTENDS SequencesExt

CONSTANTS
  Kids,       \* child executions
  Tasks,      \* asyncio tasks
  TaskOf,     \* child execution -> task it runs in
  Streamed,   \* child executions run with stream(), the others with execute()
  MainTask,   \* the task of the main interceptor
  Main,       \* the main interceptor (no execution id)
  HasMain,    \* whether a UiPathRuntimeContext surrounds the executions
  Console,    \* the process's own stdout
  Host,       \* a handler the host had put on the root logger
  None        \* current_execution_id when no child execution is active

ASSUME TasksAssumption ==
  /\ TaskOf \in [Kids -> Tasks] /\ Streamed \subseteq Kids
  /\ MainTask \in Tasks /\ HasMain \in BOOLEAN
  /\ {Main, Console, Host, None} \cap Kids = {}
  /\ Main \notin {Console, Host, None}

Interceptors == Kids \cup {Main}

VARIABLES
  running,    \* task -> interceptors it is inside of, innermost last
  done,       \* interceptors that were torn down
  stdout,     \* sys.stdout: Console or the interceptor whose writer it is
  original,   \* interceptor -> original_stdout, saved by its constructor
  onRoot,     \* handlers of the root logger
  onStdout,   \* handlers of the "stdout" logger (never propagates)
  onEarly,    \* handlers of a logger that existed when the process started
  propagates, \* that logger's propagate flag
  context,    \* task -> current_execution_id
  left,       \* streams left by their consumers and not finalised yet
  astray,     \* history: tasks whose context variable a nested execution
              \*   cleared, or an abandoned one left behind
  stranded    \* history: streams not finalised when the main one ended

loggers == <<onRoot, onStdout, onEarly, propagates>>
vars == <<running, done, stdout, original, loggers, context, left, astray,
          stranded>>

Inside(e) == \E t \in Tasks : Contains(running[t], e)
MainReady == ~HasMain \/ Inside(Main)

Init ==
  /\ running = [t \in Tasks |-> <<>>] /\ done = {}
  /\ stdout = Console /\ original = [e \in Interceptors |-> Console]
  /\ onRoot = {Host} /\ onStdout = {} /\ onEarly = {} /\ propagates = TRUE
  /\ context = [t \in Tasks |-> None]
  /\ left = {} /\ astray = {} /\ stranded = {}

-----------------------------------------------------------------------------
(* __init__ and setup()                                                    *)

Enter(e, t) ==
  /\ ~Inside(e) /\ e \notin done \cup left
  /\ running' = [running EXCEPT ![t] = Append(@, e)]
  /\ original' = [original EXCEPT ![e] = stdout]
  /\ stdout' = e
  /\ UNCHANGED <<done, left, stranded>>

\* Child execution: its handler joins the others, loggers are left alone.
SetupChild(e) ==
  /\ MainReady
  /\ Enter(e, TaskOf[e])
  /\ context' = [context EXCEPT ![TaskOf[e]] = e]
  /\ onRoot' = onRoot \cup {e}
  /\ onStdout' = onStdout \cup {e}
  /\ astray' = astray \ {TaskOf[e]}
  /\ UNCHANGED <<onEarly, propagates>>

\* Main: its handler replaces all others, existing loggers stop propagating.
SetupMain ==
  /\ HasMain
  /\ Enter(Main, MainTask)
  /\ onRoot' = {Main} /\ onStdout' = {Main} /\ onEarly' = {Main}
  /\ propagates' = FALSE
  /\ UNCHANGED <<context, astray>>

-----------------------------------------------------------------------------
(* teardown()                                                              *)

\* Deviations: the stream put back is always the console; none is put back.
RestoredConsole(e) == Console
RestoredNever(e) == stdout

Restored(e) == original[e]

\* Deviation: the handler stays on the logger.
WithoutKept(handlers, e) == handlers

Without(handlers, e) == handlers \ {e}

\* What every teardown() does: the streams its constructor saw come back.
Release(e) ==
  /\ done' = done \cup {e}
  /\ stdout' = Restored(e)
  /\ onStdout' = Without(onStdout, e)
  /\ UNCHANGED original

\* Deviation: teardown of an execution that goes on.
LeaveStillInside(e, t) ==
  /\ Contains(running[t], e) /\ Last(running[t]) = e
  /\ Release(e)
  /\ UNCHANGED <<running, left>>

Leave(e, t) ==
  /\ Contains(running[t], e) /\ Last(running[t]) = e
  /\ running' = [running EXCEPT ![t] = Front(@)]
  /\ Release(e)
  /\ UNCHANGED left

\* The context variable is cleared, whatever it was before setup().
TeardownChild(e) ==
  LET t == TaskOf[e]
      around == Range(running[t]) \ {e, Main}
  IN
  /\ Leave(e, t)
  /\ context' = [context EXCEPT ![t] = None]
  /\ onRoot' = Without(onRoot, e)
  /\ astray' = IF around = {} THEN astray \ {t} ELSE astray \cup {t}
  /\ UNCHANGED <<onEarly, propagates, stranded>>

\* The host's root handlers come back; the propagate flags do not.
TeardownMain ==
  /\ \A t \in Tasks \ {MainTask} : running[t] = <<>>
  /\ Leave(Main, MainTask)
  /\ onRoot' = Without(onRoot, Main) \cup {Host}
  /\ onEarly' = Without(onEarly, Main)
  /\ stranded' = left
  /\ UNCHANGED <<context, propagates, astray>>

-----------------------------------------------------------------------------
(* A stream that its consumer leaves (break, an exception) while it is     *)
(* suspended in a yield, with the streams nested in it                     *)

Abandon(e) ==
  LET t == TaskOf[e]
      stack == running[t]
  IN
  /\ Contains(stack, e)
  /\ \E n \in DOMAIN stack :
       LET dropped == {stack[i] : i \in n..Len(stack)} IN
       /\ stack[n] = e /\ dropped \subseteq Streamed
       /\ running' = [running EXCEPT ![t] = SubSeq(@, 1, n - 1)]
       /\ left' = left \cup dropped
  /\ astray' = astray \cup {t}
  /\ UNCHANGED <<done, stdout, original, loggers, context, stranded>>

\* The event loop closes it in a task of its own, whose context is a copy: the
\* cleared variable is the copy's.
Finalise(e) ==
  /\ e \in left /\ left' = left \ {e}
  /\ Release(e)
  /\ onRoot' = Without(onRoot, e)
  /\ UNCHANGED <<running, onEarly, propagates, context, astray, stranded>>

\* Once the main interceptor is gone no execution starts.
AllOver ==
  /\ \A t \in Tasks : running[t] = <<>>
  /\ left = {} /\ IF HasMain THEN Main \in done ELSE done = Kids
  /\ UNCHANGED vars

Next ==
  \/ \E e \in Kids :
       SetupChild(e) \/ TeardownChild(e) \/ Abandon(e) \/ Finalise(e)
  \/ SetupMain \/ TeardownMain
  \/ AllOver

Spec == Init /\ [][Next]_vars
-----------------------------------------------------------------------------
(* Where a record goes                                                     *)

\* Deviation: the main handler takes the records of child executions too.
AcceptsAll(h, t) == h \in Kids => context[t] = h

\* The filters: a child's handler wants its own context, the main one none.
Accepts(h, t) ==
  CASE h \in Kids -> context[t] = h
    [] h = Main -> context[t] = None
    [] OTHER -> TRUE

\* Interceptors that capture a record task t writes now: with print(), with a
\* logger created since the start, or with one that existed then.
Reaches(t, source) ==
  LET handlers ==
        CASE source = "print" -> IF stdout = Console THEN {} ELSE onStdout
          [] source = "late" -> onRoot
          [] source = "early" -> onEarly \cup (IF propagates THEN onRoot ELSE {})
  IN  {h \in handlers \ {Host} : Accepts(h, t)}

\* The execution whose code task t is running.
Current(t) == IF running[t] = <<>> THEN Main ELSE Last(running[t])

\* Some execution or the main program runs in task t.
Busy(t) == running[t] # <<>> \/ (HasMain /\ Inside(Main))

CapturedByItsOwn(source) ==
  \A t \in Tasks : Busy(t) => Reaches(t, source) = {Current(t)}
-----------------------------------------------------------------------------
(* Properties                                                              *)

TypeOK ==
  /\ running \in [Tasks -> Seq(Interceptors)]
  /\ done \subseteq Interceptors /\ \A e \in done : ~Inside(e)
  /\ stdout \in Interceptors \cup {Console}
  /\ original \in [Interceptors -> Interceptors \cup {Console}]
  /\ onRoot \subseteq Interceptors \cup {Host}
  /\ onStdout \subseteq Interceptors /\ onEarly \subseteq Interceptors
  /\ propagates \in BOOLEAN
  /\ context \in [Tasks -> Kids \cup {None}]
  /\ left \subseteq Streamed \ done /\ \A e \in left : ~Inside(e)
  /\ astray \subseteq Tasks /\ stranded \subseteq Streamed

\* However executions overlap, nest and are abandoned, what each prints or
\* logs through a new logger is captured by its own handler and by no other,
\* and what the main program writes meanwhile by the main handler only: nothing
\* is lost, duplicated or shown under another execution.  Where a nested
\* execution ended or a stream was abandoned, the rest of the same task may lose
\* records or hand them to the main handler or an execution of that task, but
\* never to an execution of another task, and the other tasks notice nothing.
ExecutionsAreIsolated ==
  \A t \in Tasks, source \in {"print", "late"} : Busy(t) =>
    IF t \notin astray
    THEN Reaches(t, source) = {Current(t)}
    ELSE /\ Reaches(t, source) \subseteq {Main} \cup {e \in Kids : TaskOf[e] = t}
         /\ \A g, h \in Reaches(t, source) : g = h

\* Whatever the order of setups and teardowns, the end of the main
\* interceptor leaves sys.stdout and the root handlers as the host had them;
\* a stream finalised only after that puts the main writer back in sys.stdout,
\* but leaves no handler of its own either.
HostStreamsComeBack ==
  Main \in done /\ left = {} =>
    onRoot = {Host} /\ (stranded = {} => stdout = Console)

\* No logger keeps the handler of an interceptor that was torn down.
NoHandlerOutlivesItsInterceptor == done \cap (onRoot \cup onStdout \cup onEarly) = {}

\* "Keep propagation enabled so logs flow through filters" (the comment in
\* setup): a child execution's records reach its handler through loggers that
\* existed before the main interceptor was set up.
ExistingLoggersReachTheChild == CapturedByItsOwn("early")

\* "When running multiple runtimes in the same process, this wrapper ensures
\* each execution's spans and logs are properly isolated and captured"
\* (README.md), for prints, whether or not a main interceptor surrounds them.
PrintsAreCaptured == CapturedByItsOwn("print")
=============================================================================
