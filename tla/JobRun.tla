------------------------------- MODULE JobRun --------------------------------
(***************************************************************************)
(* A job: runs of a process one after the other, each a runtime context    *)
(* around a stack of wrappers around an agent, as a host may nest them:    *)
(* the resumable runtime, alone or with the governed and the hydration     *)
(* runtime, in any order.  The wrappers are reduced to what their own      *)
(* modules (Resumable, Governance, Workspace) say they do between the call *)
(* and the result; this module is about the order of their effects, the    *)
(* failures in between and what is reported.                               *)
(*                                                                         *)
(* The agent's passes are numbered.  A pass that suspends waits for one    *)
(* interrupt, known by the number of the pass that raised it; files are    *)
(* known by the pass that wrote them.                                      *)
(***************************************************************************)
EXTENDS Naturals, Sequences, SequencesExt, RuntimeContext

CONSTANTS
  MaxRuns,  \* bound: processes started for the job
  MaxPasses \* bound: passes of the agent

ASSUME RunsAssumption == MaxRuns \in Nat \ {0} /\ MaxPasses \in Nat \ {0}

VARIABLES
  stack,     \* the wrappers, innermost first
  policy,    \* of the hydration runtime
  at,        \* which layer runs: 0 is the agent
  flow,      \* "call" on the way in, the outcome on the way out
  triggers,  \* the interrupt whose triggers are stored, or 0
  registry,  \* the pass whose files the saved registry holds, or 0
  workspace, \* the pass that wrote the files in the directory, or 0
  waits,     \* the interrupt the agent waits on, or 0
  answered,  \* whether its answer is on its way to the agent
  passes, runs

hostVars == <<stack, policy, runs>>
agentVars == <<waits, answered, passes, workspace>>
bodyVars == <<at, flow, triggers, registry, agentVars>>
vars == <<contextVars, hostVars, bodyVars>>

Wrappers == {"resumable", "governed", "hydration"}
Has(w) == w \in ToSet(stack)
Layer == stack[at]
Stacks == {s \in SeqOf(Wrappers, 3) : /\ "resumable" \in ToSet(s)
                                      /\ \A i, j \in DOMAIN s : s[i] = s[j] => i = j}
Policies == {"suspend_only", "suspend_or_success", "always"}

Init ==
  /\ ContextInit
  /\ stack \in Stacks
  /\ policy \in IF Has("hydration") THEN Policies ELSE {"suspend_only"}
  /\ at = 0 /\ flow = "call" /\ triggers = 0 /\ registry = 0 /\ workspace = 0
  /\ waits = 0 /\ answered = FALSE /\ passes = 0 /\ runs = 0

-----------------------------------------------------------------------------
(* The host                                                                *)

\* A suspended job, or one whose process died, is run again in a new process,
\* which finds the files of the old one or an empty directory.
Start ==
  /\ \/ runs = 0
     \/ pc = "dead"
     \/ pc = "ended" /\ leaves = "none" /\ status = "suspended"
  /\ runs < MaxRuns /\ runs' = runs + 1
  /\ Enter
  /\ workspace' \in {workspace, 0}
  /\ UNCHANGED <<stack, policy, at, flow, triggers, registry, waits, answered, passes>>

ContextFails == EnterFails /\ UNCHANGED <<hostVars, bodyVars>>

\* ctx.get_input() raises for what is not there or is not JSON.
InputRaises ==
  /\ pc = "entered" /\ BodyRaises("contract")
  /\ UNCHANGED <<hostVars, bodyVars>>

RunBody ==
  /\ pc = "entered" /\ pc' = "body"
  /\ at' = Len(stack) /\ flow' = "call"
  /\ UNCHANGED <<config, result, files, told, leaves, hostVars, triggers, registry,
                 agentVars>>

\* What the body had in memory is gone.
BodyGone ==
  /\ at' = 0 /\ flow' = "call" /\ answered' = FALSE
  /\ UNCHANGED <<triggers, registry, waits, passes, workspace>>

BodyEnds ==
  /\ pc = "body" /\ at > Len(stack)
  /\ \/ flow = "raised" /\ \E e \in Errors : BodyRaises(e)
     \/ flow # "raised" /\ BodyReturns(flow)
  /\ BodyGone
  /\ UNCHANGED hostVars

-----------------------------------------------------------------------------
(* The wrappers and the agent                                              *)

Calling == pc = "body" /\ at > 0 /\ flow = "call"
Returning == pc = "body" /\ at \in 1..Len(stack) /\ flow # "call"
InBody == UNCHANGED <<contextVars, hostVars>>

Descend == at' = at - 1 /\ UNCHANGED flow
Ascend(f) == at' = at + 1 /\ flow' = f

\* BEFORE_AGENT blocks, or not; what else it raises is swallowed.
CallGoverned ==
  /\ Calling /\ Layer = "governed" /\ InBody
  /\ Descend \/ Ascend("raised")
  /\ UNCHANGED <<triggers, registry, agentVars>>

\* The registered files are brought back, or not all of them.
CallHydration ==
  /\ Calling /\ Layer = "hydration" /\ InBody
  /\ \/ Descend /\ workspace' = IF registry = 0 THEN workspace ELSE registry
     \/ Ascend("raised") /\ workspace' \in {workspace, 0}
  /\ UNCHANGED <<triggers, registry, waits, answered, passes>>

\* Deviation: a trigger that was read stays stored.
AfterReading == triggers

\* A trigger that was read is deleted, with its siblings.
Consumed == 0

\* A stored trigger has fired, or not; reading may fail before or after it is
\* deleted.
CallResumable ==
  /\ Calling /\ Layer = "resumable" /\ InBody
  /\ \/ Descend /\ UNCHANGED <<triggers, answered>>
     \/ Descend /\ triggers # 0 /\ triggers' = Consumed /\ answered' = TRUE
     \/ Ascend("raised") /\ triggers' \in {triggers, 0} /\ UNCHANGED answered
  /\ UNCHANGED <<registry, waits, passes, workspace>>

\* A pass of the agent: it takes the answer, writes its files, and ends; it
\* is not done while it waits.
AgentPass(kind) ==
  LET waiting == IF answered THEN 0 ELSE waits IN
  /\ pc = "body" /\ at = 0 /\ flow = "call" /\ InBody
  /\ passes < MaxPasses /\ passes' = passes + 1
  /\ workspace' = passes + 1
  /\ answered' = FALSE
  /\ waits' = IF kind = "suspended" /\ waiting = 0 THEN passes + 1 ELSE waiting
  /\ kind = "successful" => waiting = 0
  /\ Ascend(kind)
  /\ UNCHANGED <<triggers, registry>>

\* AFTER_AGENT sees results only, suspensions among them.
ReturnGoverned ==
  /\ Returning /\ Layer = "governed" /\ InBody
  /\ Ascend(flow) \/ Ascend("raised")
  /\ UNCHANGED <<triggers, registry, agentVars>>

Persists(f) ==
  \/ policy = "always"
  \/ f = "suspended"
  \/ policy = "suspend_or_success" /\ f = "successful"

\* Deviation: a failure to persist is swallowed, as the one of an audit is.
Swallowed(f) == f

\* A failure to persist becomes the outcome of the run.
NotPersisted(f) == "raised"

ReturnHydration ==
  /\ Returning /\ Layer = "hydration" /\ InBody
  /\ \/ Persists(flow) /\ registry' = workspace /\ Ascend(flow)
     \/ Persists(flow) /\ UNCHANGED registry /\ Ascend(NotPersisted(flow))
     \/ ~Persists(flow) /\ UNCHANGED registry /\ Ascend(flow)
  /\ UNCHANGED <<triggers, agentVars>>

\* A suspension is handed out once its triggers are stored, unless one of them
\* has already fired: then the inner layers are called again.
ReturnResumable ==
  /\ Returning /\ Layer = "resumable" /\ InBody
  /\ \/ /\ flow # "suspended"
        /\ Ascend(flow) /\ UNCHANGED <<triggers, answered>>
     \/ /\ flow = "suspended"
        /\ \/ Ascend("suspended") /\ triggers' = waits /\ UNCHANGED answered
           \/ Ascend("raised") /\ triggers' \in {triggers, waits} /\ UNCHANGED answered
           \/ at' = at - 1 /\ flow' = "call" /\ triggers' = Consumed /\ answered' = TRUE
  /\ UNCHANGED <<registry, waits, passes, workspace>>

-----------------------------------------------------------------------------
LeaveContext == Exit /\ UNCHANGED <<hostVars, bodyVars>>

ProcessDies == Dies /\ BodyGone /\ UNCHANGED hostVars

\* The host does not run the job again; or the agent has no pass left.
Over ==
  /\ \/ pc \in {"ended", "dead"}
     \/ pc = "body" /\ at = 0 /\ passes = MaxPasses
  /\ UNCHANGED vars

Kinds == {"suspended", "successful", "faulted", "raised"}

Next ==
  \/ Start \/ ContextFails \/ InputRaises \/ RunBody \/ BodyEnds
  \/ CallGoverned \/ CallHydration \/ CallResumable
  \/ \E kind \in Kinds : AgentPass(kind)
  \/ ReturnGoverned \/ ReturnHydration \/ ReturnResumable
  \/ LeaveContext \/ ProcessDies \/ Over

Spec == Init /\ [][Next]_vars
-----------------------------------------------------------------------------
(* Properties                                                              *)

TypeOK ==
  /\ job \in BOOLEAN /\ split \in BOOLEAN /\ out \in BOOLEAN
  /\ sink \in {"none", "hears", "raises"}
  /\ pc \in {"off", "entered", "body", "building", "arguments", "result", "output",
             "sink", "rescue", "teardown", "ended", "dead"}
  /\ status \in Statuses /\ error \in Errors \cup {"none"}
  /\ resultFile \in {Stale, Half} \cup
       [status : Statuses, error : Errors \cup {"none", "shutdown"}, points : BOOLEAN]
  /\ {argsFile, outputFile} \subseteq {"stale", "half", "whole"}
  /\ told \in Statuses \cup {"nothing"}
  /\ leaves \in Errors \cup {"none", "enter", "shutdown", "write"}
  /\ stack \in Stacks /\ policy \in Policies
  /\ at \in 0..Len(stack) + 1 /\ flow \in Kinds \cup {"call"}
  /\ {registry, workspace} \subseteq 0..passes /\ waits \in 0..passes
  /\ triggers \in {0, waits} /\ answered \in BOOLEAN
  /\ passes \in 0..MaxPasses /\ runs \in 0..MaxRuns

\* What the host learns of a run is one story.  When the context was left, the
\* result file of a job is of this run and says what the caller saw: the result's
\* status, or FAULTED with the error of the exception that came out, whichever
\* write failed on the way; only a failed last-ditch write is excused, and it
\* raises.  The sink, if it was told, was told what the file says.
VerdictAgrees ==
  /\ pc = "ended" /\ job /\ leaves \notin {"enter", "write"} =>
       IF leaves = "none"
       THEN resultFile.status = status /\ resultFile.error = error
       ELSE resultFile.status = "faulted" /\ resultFile.error = leaves
  /\ told # "nothing" /\ job => resultFile.status = told

\* Whoever is sent to the arguments finds them whole and of this run: the reader
\* of the result file by its pointer, the sink by its path, the caller who asked
\* for an output file; a crash or a failed write in between does not matter.
ArgumentsAreThere ==
  /\ resultFile.points \/ told # "nothing" => argsFile = "whole"
  /\ pc = "ended" /\ out /\ leaves \in Errors \cup {"none"} => outputFile = "whole"

\* A run that reports SUSPENDED left everything the next one needs, whatever the
\* nesting and whatever failed before: the triggers of the interrupt the agent
\* waits on are stored, and the files of its last pass are in the registry.
SuspensionReportedIsDurable ==
  resultFile.status = "suspended" =>
    /\ waits # 0 /\ triggers = waits
    /\ Has("hydration") => registry = passes
=============================================================================
