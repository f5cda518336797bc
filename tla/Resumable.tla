----------------------------- MODULE Resumable ------------------------------
(***************************************************************************)
(* UiPathResumableRuntime (resumable/runtime.py): the wrapper that turns   *)
(* the interrupts of a suspended agent into durable resume triggers, and   *)
(* fired triggers back into answers for the agent.                         *)
(*                                                                         *)
(* execute() and stream() run the same loop; one action below is one       *)
(* stretch of it between two awaits.  The environment of the wrapper is    *)
(* modelled from how the code uses it: the delegate (the agent), the       *)
(* trigger storage (save replaces, delete removes), the trigger manager    *)
(* (create, read) and the orchestrator, which fires triggers and calls the *)
(* runtime again.  A call may be cut short at any await: an awaited call   *)
(* raises, the consumer closes the stream, or the process dies.            *)
(*                                                                         *)
(* Lists are sets here: the order in which triggers are read and created   *)
(* is chosen freely, which includes the order of the stored list.          *)
(***************************************************************************)
EXTENDS Integers

CONSTANTS
  Interrupts,   \* interrupt ids the agent may use
  TriggerTypes, \* trigger types of UiPathResumeTriggerType in use
  TypesOf,      \* interrupt id -> types create_triggers returns for it
  Misaddressed, \* whether callers may pass input naming no open interrupt
  MaxFaults,    \* bound: cut-short calls plus misaddressed inputs
  MaxBreaks     \* bound: breakpoint hits of the agent

ASSUME TypesAssumption == TypesOf \in [Interrupts -> (SUBSET TriggerTypes) \ {{}}]
ASSUME BoundsAssumption ==
  /\ MaxFaults \in Nat
  /\ MaxBreaks \in Nat
  /\ Misaddressed \in BOOLEAN

\* Triggers whose payload cannot be polled when the job suspends.
NotPollable == {"Api", "Inbox", "Timer"}

VARIABLES
  pc,        \* where the current call of execute()/stream() is
  result,    \* the delegate's last result, then what the caller was given
  open,      \* interrupts the agent is waiting on
  answered,  \* interrupts whose answer the agent has received
  storage,   \* triggers in the storage of this runtime_id
  created,   \* interrupt -> number of create_triggers calls made for it
  fired,     \* triggers whose payload is available to read_trigger
  answers,   \* ids of the resume map being built, then passed as input
  explicit,  \* the input came from the caller and not from triggers
  toRead,    \* triggers _build_resume_map has still to look at
  deleting,  \* id just read whose siblings are about to be deleted
  pending,   \* suspended_result.triggers while it is being assembled
  toCreate,  \* new_ids create_triggers has still to be called for
  faults,    \* faults so far
  breaks     \* breakpoints so far

agentVars == <<open, answered, breaks>>
callVars  == <<answers, explicit, toRead, deleting, pending, toCreate>>
vars == <<pc, result, agentVars, storage, created, fired, callVars, faults>>

Ids(S) == {t.id : t \in S}
Of(S, i) == {t \in S : t.id = i}

\* The sibling triggers one create_triggers call returns: records of an
\* interrupt id, a type and the number of the call they came from.
Batch(i, g) == [id : {i}, type : TypesOf[i], gen : {g}]

Live == \* triggers that exist on the orchestrator's side
  UNION {[id : {i}, type : TypesOf[i], gen : 1..created[i]] : i \in Interrupts}

Init ==
  /\ pc = "idle" /\ result = "none"
  /\ open = {} /\ answered = {} /\ breaks = 0
  /\ storage = {} /\ fired = {}
  /\ created = [i \in Interrupts |-> 0]
  /\ answers = {} /\ explicit = FALSE
  /\ toRead = {} /\ deleting = {} /\ pending = {} /\ toCreate = {}
  /\ faults = 0

-----------------------------------------------------------------------------
(* Calls.  A finished job is not called again.                             *)

Finished == result \in {"successful", "faulted"}

CallFresh ==
  /\ pc = "idle" /\ result = "none"
  /\ pc' = "delegate"
  /\ UNCHANGED <<result, agentVars, storage, created, fired, callVars, faults>>

\* resume=True with no input: by the orchestrator when a trigger fired, by
\* the debugger after a breakpoint, by a retry after a call was cut short.
MayResume ==
  \/ result \in {"breakpoint", "aborted"}
  \/ result = "suspended" /\ storage \cap fired # {}

CallResume ==
  /\ pc = "idle" /\ MayResume
  /\ pc' = "restoring"
  /\ toRead' = storage
  /\ UNCHANGED <<result, agentVars, storage, created, fired, answers, explicit,
                 deleting, pending, toCreate, faults>>

\* resume=True with an input that answers some of the listed interrupts.
MayAnswer(S) == result = "suspended" /\ S # {} /\ S \subseteq Ids(storage)

CallAnswer(S) ==
  /\ pc = "idle" /\ MayAnswer(S)
  /\ pc' = "explicit"
  /\ answers' = S /\ explicit' = TRUE
  /\ UNCHANGED <<result, agentVars, storage, created, fired, toRead, deleting,
                 pending, toCreate, faults>>

\* The same, with an input that names no open interrupt.
CallMisaddressed(S) ==
  /\ Misaddressed /\ faults < MaxFaults
  /\ pc = "idle" /\ result = "suspended"
  /\ S \cap open = {}
  /\ pc' = "explicit"
  /\ answers' = S /\ explicit' = TRUE
  /\ faults' = faults + 1
  /\ UNCHANGED <<result, agentVars, storage, created, fired, toRead, deleting,
                 pending, toCreate>>

-----------------------------------------------------------------------------
(* _restore_resume_input                                                   *)

\* Deviations: the input's triggers are left in place; all of them are deleted.
ConsumedNone(S) == {}
ConsumedAll(S) == storage

\* One stored trigger is deleted whatever the input names; of several, those
\* the input names.
ConsumedBy(S) ==
  IF \E t \in storage : storage = {t} THEN storage
  ELSE {t \in storage : t.id \in S}

RestoreExplicit ==
  /\ pc = "explicit"
  /\ storage' = storage \ ConsumedBy(answers)
  /\ pc' = "delegate"
  /\ UNCHANGED <<result, agentVars, created, fired, callVars, faults>>

(* _build_resume_map: the loop shared by restoring and polling             *)

Reading == pc \in {"restoring", "polling"} /\ deleting = {}

\* read_trigger returned data; siblings of the same interrupt are skipped.
ReadFired(t) ==
  /\ Reading /\ t \in toRead /\ t \in fired
  /\ answers' = answers \cup {t.id}
  /\ deleting' = {t.id}
  /\ toRead' = toRead \ Of(toRead, t.id)
  /\ UNCHANGED <<pc, result, agentVars, storage, created, fired, explicit,
                 pending, toCreate, faults>>

\* read_trigger raised UiPathPendingTriggerError.
ReadPending(t) ==
  /\ Reading /\ t \in toRead /\ t \notin fired
  /\ toRead' = toRead \ {t}
  /\ UNCHANGED <<pc, result, agentVars, storage, created, fired, answers,
                 explicit, deleting, pending, toCreate, faults>>

\* Deviations from the code that the properties must notice: siblings looked
\* up among the pollable triggers only, or not matched by interrupt at all.
SiblingsPollableOnly(i) == {t \in Of(storage, i) : t.type \notin NotPollable}
SiblingsUnmatched(i) == storage

\* All triggers of the interrupt go, the ones that cannot be polled too.
Siblings(i) == Of(storage, i)

DeleteSiblings ==
  /\ pc \in {"restoring", "polling"} /\ deleting # {}
  /\ storage' = storage \ UNION {Siblings(i) : i \in deleting}
  /\ deleting' = {}
  /\ UNCHANGED <<pc, result, agentVars, created, fired, answers, explicit,
                 toRead, pending, toCreate, faults>>

RestoreDone ==
  /\ pc = "restoring" /\ Reading /\ toRead = {}
  /\ pc' = "delegate"
  /\ UNCHANGED <<result, agentVars, storage, created, fired, callVars, faults>>

-----------------------------------------------------------------------------
(* The delegate: one pass of the agent, up to its final result.  It applies *)
(* the answers to interrupts it is waiting on and reports, when it          *)
(* suspends, every interrupt it is then waiting on.                         *)

Delegate(kind, New) ==
  LET left == open \ answers IN
  /\ pc = "delegate"
  /\ New \subseteq Interrupts \ (open \cup answered)
  /\ open' = left \cup New
  /\ answered' = answered \cup (open \cap answers)
  /\ \/ kind = "suspended"  /\ open' # {} /\ UNCHANGED breaks
     \/ kind = "breakpoint" /\ breaks < MaxBreaks /\ breaks' = breaks + 1
     \/ kind = "successful" /\ open' = {} /\ UNCHANGED breaks
     \/ kind = "faulted" /\ UNCHANGED breaks
  /\ result' = kind
  /\ pc' = "handling"
  /\ answers' = {} /\ explicit' = FALSE
  /\ UNCHANGED <<storage, created, fired, toRead, deleting, pending, toCreate,
                 faults>>

-----------------------------------------------------------------------------
(* _handle_suspension                                                      *)

\* Anything but SUSPENDED is handed to the caller at once.
ReturnFinal ==
  /\ pc = "handling" /\ result \in {"successful", "faulted"}
  /\ pc' = "idle"
  /\ UNCHANGED <<result, agentVars, storage, created, fired, callVars, faults>>

\* A breakpoint result is left as it is, but its status is SUSPENDED, so
\* the loop goes on to poll the stored triggers.
HandleBreakpoint ==
  /\ pc = "handling" /\ result = "breakpoint"
  /\ pc' = "polled"
  /\ UNCHANGED <<result, agentVars, storage, created, fired, callVars, faults>>

\* Deviations: triggers created again at each suspension, only at the first
\* one, for a single interrupt, or only if none was ever created.
NewIdsNoDiff(stored) == open
NewIdsFirstSuspension(stored) == IF stored = {} THEN open ELSE {}
NewIdsSingle(stored) ==
  {i \in open \ Ids(stored) : i = CHOOSE j \in open \ Ids(stored) : TRUE}
NewIdsByMemory(stored) == {i \in open : created[i] = 0}

\* Interrupts of the suspended output that have no stored trigger.
NewIds(stored) == open \ Ids(stored)

HandleSuspension ==
  /\ pc = "handling" /\ result = "suspended"
  /\ pending' = storage
  /\ toCreate' = NewIds(storage)
  /\ pc' = "creating"
  /\ UNCHANGED <<result, agentVars, storage, created, fired, answers, explicit,
                 toRead, deleting, faults>>

CreateTriggers(i) ==
  /\ pc = "creating" /\ i \in toCreate
  /\ created' = [created EXCEPT ![i] = @ + 1]
  /\ pending' = pending \cup Batch(i, created[i] + 1)
  /\ toCreate' = toCreate \ {i}
  /\ UNCHANGED <<pc, result, agentVars, storage, fired, answers, explicit,
                 toRead, deleting, faults>>

\* Deviation: only the triggers just created are written.
SavedNewOnly(list) == list \ storage

\* save_triggers writes the whole list and replaces what was stored.
Saved(list) == list

SaveTriggers ==
  /\ pc = "creating" /\ toCreate = {}
  /\ storage' = Saved(pending)
  /\ pending' = {}
  /\ pc' = "polled"
  /\ UNCHANGED <<result, agentVars, created, fired, answers, explicit, toRead,
                 deleting, toCreate, faults>>

-----------------------------------------------------------------------------
(* _get_fired_triggers and the end of a pass                               *)

Pollable(S) == {t \in S : t.type \notin NotPollable}

GetFiredTriggers ==
  /\ pc = "polled"
  /\ pc' = "polling"
  /\ toRead' = Pollable(storage)
  /\ UNCHANGED <<result, agentVars, storage, created, fired, answers, explicit,
                 deleting, pending, toCreate, faults>>

PollDone == pc = "polling" /\ Reading /\ toRead = {}

\* Nothing fired: the caller gets the suspension (or the breakpoint).
ReturnSuspended ==
  /\ PollDone /\ answers = {}
  /\ pc' = "idle"
  /\ UNCHANGED <<result, agentVars, storage, created, fired, callVars, faults>>

\* Something fired: the agent is resumed at once, the result is dropped.
AutoResume ==
  /\ PollDone /\ answers # {}
  /\ pc' = "delegate"
  /\ UNCHANGED <<result, agentVars, storage, created, fired, callVars, faults>>

-----------------------------------------------------------------------------
(* Environment                                                             *)

Fire(t) ==
  /\ t \in Live \ fired /\ t.id \in open
  /\ fired' = fired \cup {t}
  /\ UNCHANGED <<pc, result, agentVars, storage, created, callVars, faults>>

\* The call is cut short where it is; storage keeps what was written so far.
Abort ==
  /\ pc # "idle" /\ faults < MaxFaults
  /\ pc' = "idle" /\ result' = "aborted"
  /\ answers' = {} /\ explicit' = FALSE /\ toRead' = {} /\ deleting' = {}
  /\ pending' = {} /\ toCreate' = {}
  /\ faults' = faults + 1
  /\ UNCHANGED <<agentVars, storage, created, fired>>

\* A finished job stays finished.
JobOver == pc = "idle" /\ Finished /\ UNCHANGED vars

Kinds == {"suspended", "breakpoint", "successful", "faulted"}

Step ==
  \/ RestoreExplicit
  \/ \E t \in toRead : ReadFired(t) \/ ReadPending(t)
  \/ DeleteSiblings \/ RestoreDone
  \/ \E k \in Kinds, New \in SUBSET Interrupts : Delegate(k, New)
  \/ ReturnFinal \/ HandleBreakpoint \/ HandleSuspension
  \/ \E i \in toCreate : CreateTriggers(i)
  \/ SaveTriggers \/ GetFiredTriggers \/ ReturnSuspended \/ AutoResume

Next ==
  \/ CallFresh \/ CallResume
  \/ \E S \in SUBSET Interrupts : CallAnswer(S) \/ CallMisaddressed(S)
  \/ Step
  \/ \E t \in Live : Fire(t)
  \/ Abort
  \/ JobOver

Spec == Init /\ [][Next]_vars

\* A running call proceeds, the orchestrator calls again a job whose trigger
\* fired or whose call was cut short, and every trigger still stored fires.
Fairness ==
  /\ WF_vars(Step)
  /\ WF_vars(CallFresh \/ CallResume)
  /\ WF_vars(\E t \in storage : Fire(t))

FairSpec == Spec /\ Fairness
-----------------------------------------------------------------------------
(* Properties                                                              *)

TypeOK ==
  /\ pc \in {"idle", "explicit", "restoring", "delegate", "handling",
             "creating", "polled", "polling"}
  /\ result \in Kinds \cup {"none", "aborted"}
  /\ open \subseteq Interrupts /\ answered \subseteq Interrupts
  /\ breaks \in 0..MaxBreaks /\ faults \in 0..MaxFaults
  /\ created \in [Interrupts -> Nat]
  /\ storage \subseteq Live /\ fired \subseteq Live
  /\ pending \subseteq Live /\ toRead \subseteq storage
  /\ answers \subseteq Interrupts /\ explicit \in BOOLEAN
  /\ deleting \subseteq answers
  /\ toCreate \subseteq open

\* When the caller is told the job is suspended, every interrupt the agent
\* waits on is stored with all the triggers of one create_triggers call: the
\* job can be woken for each of them, through any of its siblings
\* (_handle_suspension's diff and save, then the poll that deletes).
SuspendedIsResumable ==
  pc = "idle" /\ result = "suspended" =>
    \A i \in open : \E g \in 1..created[i] :
      Of(storage, i) = Batch(i, g)

\* Once the agent has an interrupt's answer, none of its triggers is stored
\* any more: a sibling that fires later can neither wake the job nor be
\* handed to the agent (delete_triggers(sibling_triggers)).
AnsweredLeaveNothingStored == Ids(storage) \cap answered = {}

\* An answer taken from a trigger reaches an agent that waits for it; it is
\* never delivered a second time or to an interrupt that is gone.
AnswersOnlyOpen == pc = "delegate" /\ ~explicit => answers \subseteq open

\* A fired trigger whose interrupt is still open is either still stored, or
\* about to be saved, or its answer is on its way to the agent: before the
\* first fault no answer the environment gave is dropped between the awaits.
NoAnswerLost ==
  faults = 0 => \A t \in fired :
    t.id \in open => t \in storage \cup pending \/ t.id \in answers

\* Before the first fault an interrupt is registered with the orchestrator
\* once, however often the agent suspends on it ("create triggers only for new
\* interrupts").
RegisteredOnce == faults = 0 => \A i \in Interrupts : created[i] <= 1

\* A trigger leaves the storage only when an answer for its own interrupt
\* was taken in the same call: neither the replacing save nor the delete of
\* another interrupt's triggers removes it.  The one exception is the code's
\* own: the only stored trigger goes whatever the caller's input names.
OnlyAnsweredAreDeleted ==
  [][\A t \in storage \ storage' :
       t.id \in answers \/ (explicit /\ storage = {t})]_storage

\* Every interrupt the agent waits on is eventually answered (or the job
\* ends), although calls are cut short, answers get lost with them and the
\* debugger stops at breakpoints: as it uses no interrupt twice, it comes to
\* wait on none.
AnsweredEventually == open # {} ~> open = {} \/ Finished

\* A breakpoint result is handed to the caller: the agent never runs on
\* before the debugger had the chance to wait for the user
\* (INTEGRATION_GENOME.md: "After yielding breakpoint, the
\* UiPathDebugRuntime wrapper will wait for resume").
BreakpointReachesCaller ==
  [][result = "breakpoint" /\ pc = "polling" => pc' # "delegate"]_pc

\* The promise per interrupt, and where each interrupt is in this model.
StatusOf(i) ==
  CASE i \in answered -> "answered"
    [] i \in open \cap answers -> "taken"
    [] i \in (open \ answers) \cap Ids(storage) -> "registered"
    [] i \in open \ (answers \cup Ids(storage)) -> "raised"
    [] OTHER -> "unraised"

Lifecycle == INSTANCE InterruptLifecycle
  WITH status <- [i \in Interrupts |-> StatusOf(i)], faulty <- faults > 0

\* resumable/runtime.py implements the interrupt lifecycle.
ImplementsLifecycle == Lifecycle!Spec

\* A resumable agent and its callers as they see each other.
Contract == INSTANCE AgentContract
  WITH call <- IF pc = "idle" THEN "idle" ELSE "running",
       given <- answers, fired <- Ids(fired),
       outcome <- IF pc = "idle" THEN result ELSE "none",
       faulty <- faults > 0

HonoursContract == Contract!Spec
=============================================================================
