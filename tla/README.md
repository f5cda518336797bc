# TLA+ models of uipath-runtime

TLA+ specifications of the `uipath-runtime` library (`src/uipath/runtime`), the
TLC configurations that check them on small instances, and TLAPS proofs about
them for every value of the constants. `PROJECT.json` lists the runs, the
mutants that each property catches, the source lines behind every definition,
the hazards of the code and the theorems.

## The system

The library wraps an agent runtime (the *delegate*, written with some agent
framework) in layers, each offering `execute()` and `stream()`:

    Execution -> Chat -> Debug -> Resumable -> framework runtime
                      (Governed and Hydration wrap where the host wants them)

| component | state it keeps | operations | hard behaviour |
|---|---|---|---|
| Resumable runtime (`resumable/`) | stored resume triggers per runtime id; input and options of the call | restore input, run delegate, diff interrupts, create / save / read / delete triggers, auto-resume | triggers fire at any time; sibling triggers of one interrupt; calls cut short at any await; several suspensions in a row |
| Debug runtime (`debug/`) | input and options of the next pass | wait for the bridge, breakpoints, poll a trigger, quit | time-out against a late resume, quit during polling, several triggers |
| Chat runtime (`chat/`) | input and options of the next pass | forward messages, ask for each API interrupt, end or fail the exchange | stream left while suspended, order of events and errors |
| Governed runtime, evaluator (`governance/`) | policy index, mode; per hook: evaluations, aggregated action | fire BEFORE/AFTER_AGENT, evaluate, emit, compensate, block | two layers of aggregation; three consumers of a verdict that must agree; errors swallowed |
| Audit manager (`governance/_audit/base.py`) | sinks, failure counters, tripped names, one lock | register, unregister, emit, close | threads; sink calls outside the lock; books keyed by name |
| Log capture (`logging/`, `base.py`) | process-wide streams and loggers, a context variable per task | setup, teardown, filter | overlapping and nested executions, streams left and finalised late, non-nested restore order |
| Workspace (`workspace/`) | registry, attachments, local files, the conversation's snapshot | hydrate, dehydrate, link | partial failure, crash between upload and save, directories found again |
| Runtime context (`context.py`, `output_sinks.py`) | result; result, arguments and output file; the installed sink | enter, exit | failure while reporting a failure, a crash between two writes, three readers that must hear one story |
| Factory registry (`registry.py`) | factories, order, default | register, get, set_default | small, sequential |

Interaction: the resumable runtime calls the delegate, the storage and the
trigger manager; the debug and chat runtimes call it again with answers; the
context surrounds everything with the main log interceptor and
`UiPathExecutionRuntime` adds one per child execution; the evaluator hands
events to the audit manager, which calls the sinks on the agent's thread.

What makes each part correct: no answer lost or given twice and no job that
cannot be woken (resumable); the user's quit, breakpoint and answers are
honoured once each, through every wrapper (debug, chat); blocked exactly when policy says so and
reported consistently (governance); a failing sink, and no other, is silenced
(audit manager); every record under its own execution and the host's streams
back at the end (logging); what was persisted is whole, linked to the
job and back before the agent runs again (workspace); one story told by file, exception and
sink whatever failed, and no SUSPENDED reported that is only half saved (context).

## Modules

| module | models | checked by |
|---|---|---|
| `InterruptLifecycle` | abstract: unraised, raised, registered, taken, answered, per interrupt | `ImplementsLifecycle` |
| `AgentContract` | abstract: what the wrappers around a resumable agent and the agent promise each other | `HonoursContract`, of both sides |
| `Resumable` | `resumable/runtime.py` with its environment | `MCResumable` |
| `ResumableProofs` | proofs about `Resumable` | TLAPS |
| `LifecycleProofs` | `Resumable` implements `InterruptLifecycle` and its side of `AgentContract` | TLAPS |
| `AuditManager` | `governance/_audit/base.py` | `MCAuditManager` |
| `AuditProofs` | proofs about `AuditManager` | TLAPS |
| `LogCapture` | `logging/`, the log part of `base.py` | `MCLogCapture` |
| `LogProofs` | proofs about `LogCapture` | TLAPS |
| `Governance` | `governance/runtime.py`, `native/`, verdicts of both sinks | `MCGovernance` |
| `GovernanceProofs` | proofs about `Governance` | TLAPS |
| `Streams` | runtimes as nested async generators, the agent as the innermost | through `Session` |
| `DebugRuntime` | `debug/runtime.py`, on `Streams` | through `Session` |
| `ChatRuntime` | `chat/runtime.py`, on `Streams` | through `Session` |
| `Session` | host, debug runtime, chat runtime and agent composed, in four stacks | `MCSession` |
| `SessionProofs` | proofs about `Session` and the modules it is built from | TLAPS |
| `Workspace` | `workspace/`: both wrappers, the hydrator, the registry store | `MCWorkspace` |
| `WorkspaceProofs` | proofs about `Workspace` | TLAPS |
| `RuntimeContext` | `context.py`: `__enter__`, `__exit__`, the sink | through `JobRun` |
| `JobRun` | the processes of a job: the context around the resumable, governed and hydration runtimes in any nesting | itself |
| `JobProofs` | proofs about `JobRun` and `RuntimeContext` | TLAPS |

### Resumable

One action per stretch between two awaits of the loop that `execute()` and
`stream()` share. `pc` says where the call is: `explicit` / `restoring`
(`_restore_resume_input`), `delegate` (inside the agent), `handling` and
`creating` (`_handle_suspension`), `polled` and `polling`
(`_get_fired_triggers` with `_build_resume_map`). `storage` is what
`get_triggers` returns, `pending` is `suspended_result.triggers` before it is
saved, `answers` the ids of the resume map (or of the caller's input,
`explicit`), `toRead` and `deleting` the loop of `_build_resume_map`. A trigger is
a record of interrupt id, type and the number of the `create_triggers` call
it came from, so that a second registration is told from the first.

The environment: `Delegate` is one pass of the agent (it consumes the answers to
interrupts it is waiting on, raises new ones, and ends suspended, at a breakpoint,
successful or faulted; a suspension lists every interrupt it waits on, as the
diff in `_handle_suspension` presumes). `Fire` makes a trigger's payload readable.
`Abort` ends a call at any await: an exception, a closed stream or the end of the
process; only `storage` and the orchestrator's side survive. `CallAnswer` is an
explicit input that names listed interrupts, `CallMisaddressed` one that does
not; `CallResume` is a resume without input, by the orchestrator, the debugger or
a retry. Sets replace lists; reading and creating in any order includes theirs.

Not in the model: the metadata added to an answer of a sibling, the payloads, an
input that is not keyed by interrupt id while siblings are stored, the mutation
of the caller's options, a delegate that yields no result.

### AuditManager

One action per critical section under `_sinks_lock`, or per sink call outside it.
`failures` and `tripped` are keyed by name, the sinks are instances: `MCAuditManager`
has two instances of the name `traces` that replace one another. The variables
`run`, `earned` and `clean` are history: an instance's own failures since its last
success, whether they reached the threshold, and whether it was registered while no
emit() held an earlier instance of its name. An instance is registered once.
The threshold is 2 instead of 10: it enters the code in one comparison.

### LogCapture

`setup()` and `teardown()` contain no await and are one action each. `stdout`,
`onRoot`, `onStdout`, `onEarly` and `propagates` are the process's stream, the
handlers of the root logger, of the "stdout" logger and of a logger that existed at
the start, and its propagate flag; `context` is `current_execution_id` per task.
`Reaches(t, source)` is where a record written now would go (LoggerWriter, handlers,
propagation, filters), so that the properties cover every record. The main
interceptor ends after the child executions, as `UiPathRuntimeContext` is left
after the runtimes it surrounds.

`running` is a stack per task, so that an execution may run inside another. A
`stream()` that its consumer leaves is an `Abandon`: it and the streams nested in
it leave the stack, but their `finally` has not run. `Finalise` is the event loop's
`aclose()`, in a task of its own whose context is a copy, so that the variable
it clears is the copy's; it may come after the main interceptor's end
(`stranded`). `astray` are the tasks whose context variable no longer names the
execution they run: a nested execution cleared it, or an abandoned one left it set.

### Governance

A run fires `before_agent`, runs the delegate, fires `after_agent`; in between the
framework's adapters fire the hooks around model and tool calls, in any order
(`FrameworkFires`). `evaluations`,
`skipped` and `raw` are the local variables of `evaluate()`, and one action is one
turn of its loop; `Conclude` is the rest of the function: audit, compensation,
block. A condition carries the outcome its operator has on the content, so a policy is
checked with every outcome; a fallback condition also says whether it names a validator.
`injected` holds the optional dependencies of the evaluator's constructor: without the
audit manager nothing is emitted, without the compensator nothing is dispatched.
`RuleRaises` is an operator that raises: the wrapper
swallows it and the run goes on without a record.

### Streams, DebugRuntime, ChatRuntime and Session

Each layer is an async generator. `pc` per layer says where its stream is,
`yields` holds a result that it yielded and its consumer has not taken, `args` the
input and options it was called with. A layer that yielded waits for its consumer;
a consumer that leaves its loop drops the streams inside (`Dropped`), which is how a
`break` out of `async for` and a new call of `stream()` restart the inner layers.
`DebugRuntime` and `ChatRuntime` have one action per stretch up to an await whose
outcome matters; `Session` gives them the host, the exceptions (each layer on the
way up tries to tell its bridge) and the four stacks: debug alone, chat alone, the
debugger inside the chat (the wrapper stack of `INTEGRATION_GENOME.md`) and outside
it (the nesting of `uipath debug` in `tests/test_chat.py`).

The agent stands for the framework runtime inside `UiPathResumableRuntime`. It
relies on what `Resumable` shows and keeps only that: a suspension lists every
interrupt the agent waits on, a resume may pick up any fired trigger, an answer to an
interrupt it waits on is taken. A call is one or more passes (`Pass`): before the
result of a pass is handed on (`HandsOn`) triggers may be found fired, and the agent
runs on with them (`PicksUp`), as the loop in `resumable/runtime.py` does. A call
that does not resume starts the agent afresh,
so that a lost `resume` option shows. State events, message events and payloads
are left out; of `breakpoints` only whether there are any.

`AgentContract` is the seam between this model and `Resumable`, which each know the
other only as an environment. The callers promise one call at a time, none of a
finished agent, an input exactly after a suspension and only for open interrupts (or,
without one, that a trigger has fired); the agent promises to take each answer
once and drop none it picked up, to suspend on something and to finish with nothing
open; a fault releases the callers. Both models map into it: in `Session` the callers
are the two wrappers in their nestings and the agent is `Streams`' own, in
`Resumable` the agent is the code and the callers are its environment. So what
`Resumable` assumes of its callers is what `Session` shows of the wrappers, and the
reverse. It is one closed specification
implemented from both sides, not a composition theorem; what is left between the two
is that neither model's environment is narrower than the contract. For `Resumable`
that is a theorem up to the first fault (`AnyProperCallIsTaken`: every call the
contract allows is one of `CallFresh`, `CallResume`, `CallAnswer`), for `Session` it is
read off `Pass`, `PicksUp` and `HandsOn`.

Two properties leave out the stack with the debugger inside the chat: there the
chat's loop counts a breakpoint as the end of the run and a later reply is lost
(`session_reply`), and the outcome handed to the host is then the breakpoint's.

### Workspace

One action per stretch between two awaited calls to the storage, the attachment
service or the jobs service, for `HydrationRuntime` (`loading`, `hydrating`,
`running`, `persisting`, `uploading`, `linking`, `returning`) and, when `conv` holds,
`ConversationalWorkspaceRuntime` around it (`arriving`, `fetching`, and a second
`persisting` with `saver = "conversation"`). `store` and `saved` are the registry in
the storage, `disk` the directory. A registry entry is the content it was uploaded
with: the digest stands for the content and an attachment key for the pair of file
and content. `Fail` ends a call at any await, by an exception or with the process,
and may leave a download cut short (`Partial`). A new process finds the same
directory, an empty one, or one an earlier job left. A conversation goes on with new jobs,
whose meta events hold the published snapshot or nothing readable.

Two limits follow from that. As an attachment is known by file and content, an unchanged
file uploaded once more under a fresh key would not be told from the entry that is
kept: `RegistryIsLinked` shows that a registered content is linked, not that it
is uploaded once. And the next job of a conversation (`NextJob`) follows one that
ended SUCCESSFUL only: `ConversationContinues` says nothing of a conversation whose
last job failed.

Not in the model: the context variable behind `get_workspace_path()`, files written
while they are being persisted, `dispose()`, runtimes without a job key (nothing is
linked) or, in a conversation, without a registry store, a stream without a result.

### RuntimeContext and JobRun

`RuntimeContext` is what surrounds a run: `pc` walks through `entered`, `body` and
the steps of `__exit__` (`building`, `arguments`, `result`, `output`, `sink`,
`teardown`, and `rescue` for the `except` branch). A file is `stale` until this run opens it,
`half` when a write was cut short, else it holds a whole document; of the result file
only the status, the origin of the error and the pointer to the arguments matter. Every write may fail
(`ExitFails`, `RescueFails`) and the process may end anywhere (`Dies`). `leaves` is the
exception the caller sees, `told` what the sink was given.

`JobRun` fills the body: the resumable runtime, alone or with the governed and the
hydration runtime, in each of the eleven nestings, around an agent. `at` is the layer that
runs, `flow` is `call` on the way in and the outcome on the way out. The
wrappers keep what their own modules show of them (triggers stored before a
suspension is handed out, files restored on the way in and persisted on the way
out, a block before or after the agent), so that the order of their effects and the
failures between them remain. Passes of the agent are numbered; an interrupt and the files
are known by the pass they came from. `Start` runs the job again after SUSPENDED
or a crash, in a new process, with the old directory or an empty one.

Not in the model: parsing of configuration and environment, path resolution, the
input beyond whether it can be read, several contexts in one process, several
interrupts at a time and breakpoints (both are in `Resumable`), the conversation (that is
`Workspace`). A breakpoint is reported SUSPENDED without a trigger, so
`SuspensionReportedIsDurable` says nothing of it: every suspension of `JobRun` waits
for an interrupt.

## Runs

| run | bounds | shows |
|---|---|---|
| `resumable` | 3 interrupts (API only; task with an API sibling; pollable job), 1 fault (abort at any await, or misaddressed input), 1 breakpoint, fairness | created once, siblings go together, saves keep, nothing dropped, still resumable after the fault, implements the lifecycle and the contract with its callers, every interrupt answered in the end |
| `resumable_breakpoint` | 2 interrupts, no faults | **violated**: a fired trigger swallows a breakpoint |
| `audit` | 3 sinks, 2 names, 2 threads, threshold 2, 4 emits | closed once; the breaker trips for the failing sink and for no other |
| `audit_replaced` | same | **violated**: a fresh sink inherits failures in flight |
| `log` | 4 child executions (two nested in one task, one in the main task; three are streams that may be abandoned) and the main interceptor | isolation, restored streams, no handler left |
| `log_existing` | 3 overlapping executions and the main interceptor | **violated**: loggers older than the main interceptor do not reach a child's handler |
| `log_overlap` | 3 executions, no main interceptor | **violated**: prints of the execution that ends later are lost |
| `governance` | lists of up to 2 of 37 rules, 3 modes, six hooks, with and without audit manager and compensator | blocked exactly when denied; sinks, summary and compensator agree |
| `session` | 3 interrupts (chat, timer, polled), 2 breakpoints, 4 stacks, quits, time-out, fallback, exceptions, fairness | options, outcomes and the end of the exchange go through both wrappers, answers as the contract with the agent has it; every run ends |
| `session_reply` | same | **violated**: with the debugger inside the chat, a reply after a breakpoint is lost |
| `job` | 3 processes, 2 passes of the agent, 11 nestings, 3 policies; every write may fail or be torn, a crash anywhere | file, exception and sink agree, arguments are where they are said to be, a reported suspension is saved |
| `workspace` | 2 files, 2 contents, 3 policies, with and without a conversation; calls, failures and jobs unbounded | registries are whole and linked, suspensions durable, files restored, conversations continued |

Why the bounds are enough: two interrupts are needed for the diff, the sibling
match and the single-trigger case to differ, a third adds a type that no poll reads;
a fault may hit each await, and faults in the
recovery from a fault are covered by the proofs, which bound neither. Two threads and two
instances of one name give every race on a book; four emits let a name trip, be
replaced and trip again. Rules act on one another only through the aggregated
action and the counts, for which two are enough, and the proofs cover any number.
Three interrupts are one for each way the wrappers treat them; two breakpoints
let one come before and one after a reply. Files do not act on each other: one that
changes beside one that does not gives every partly done hydration or dehydration, and
two contents tell new from old. Three processes and two
passes let a job suspend, crash while it reports, and resume. Two executions
nested in a task, one beside them and one in the main task give each way the context variable
can be wrong. Files and contents are symmetric, and only
safety is checked there, so TLC may identify them.

Some disagreements and sharp edges are known and not asserted:

- A hook all of whose rules are disabled emits no summary (`evaluator.py:549` returns
  first), although the comment at `evaluator.py:368` has disabled rules surfaced in it.
- Without a job id no result file is written (`context.py` gates it), although the example of
  `README.md:197` has none and says it is written automatically. `VerdictAgrees`
  speaks of jobs.
- If writing a result fails after the body raised, the exception that leaves is the
  shutdown's (with the body's as its context), and the file says so: `VerdictAgrees` lets the
  `shutdown` error stand in both.
- A resumed process that dies before it writes leaves the SUSPENDED result file of
  the earlier process in the directory: `Stale` in the model, a whole file for a reader.
  The arguments it points to may be torn by the later process before that;
  `ArgumentsAreThere` speaks of the files of the process itself.
- A matched fallback rule is left out of the events and counted as dispatched in the
  summary by its operator alone (`evaluator.py:533`), but dispatched only if its condition
  names a validator (`guardrail_compensation.py:77`), its guardrail is off (a negated
  condition matches one that is on) and there is a compensator (`evaluator.py:455`).
  Otherwise neither side writes the match, although `evaluator.py:545` has it "already
  traced by the compensation path". `TracedOnce` claims the dispatch, and the count, for
  rules as the packs write them (`PlainFallback`) and an evaluator with a compensator.
- A suspension that AFTER_AGENT blocks outside the resumable runtime ends FAULTED
  with its triggers stored.
- After a nested execution the outer one's records go to the main handler; after an
  abandoned stream those of its task go to its handler until the finaliser runs, then
  nowhere. A stream finalised after the main interceptor's end puts the main
  writer back into `sys.stdout`. `ExecutionsAreIsolated` and `HostStreamsComeBack` bound
  what may go wrong there (nothing reaches another task, handlers leave).

Fairness of `resumable` (`FairSpec`): a running call proceeds (asyncio runs ready tasks); the
orchestrator calls again a job with a fired trigger or a cut-short call (its
contract with suspended jobs); a stored trigger fires in the end (the condition
under which waiting makes sense). Without faults bounded, no progress could be
promised, and the bound is `MaxFaults`.
Fairness of `session`: `Step` (the event loop runs what can run, both users answer a
question or a breakpoint in the end; the first wait may time out instead) and
`TriggerFires`; nobody need quit, and no exception need happen. Users and
triggers are the only things a run waits for.

Each mutant in `PROJECT.json` replaces a definition by a plausible error (a dropped
diff, siblings looked up in the wrong list, a breaker without reset, a stream not
restored, the last verdict winning) and is caught by the property it is listed with.

## Proofs

`ResumableProofs` proves, for any interrupts, trigger types and bounds, the safety
properties of `Resumable`. The inductive invariant is

    IInv == TypeOK /\ CallShape /\ StoredAreOpen /\ Assembling /\ Covered

`SuspendedIsResumable` alone is not inductive: the list assembled in `creating`
must be known to extend the stored one and to hold whole batches for every interrupt
not left to create (`Assembling`), the storage to hold whole batches of open
interrupts only (`StoredAreOpen`), the variables of the call to be empty outside
their stretch (`CallShape`), and from `polled` on every open interrupt to be
stored unless its answer was taken (`Covered`). One lemma per group of actions, each
proved from the part of `IInv` it needs. `CreatedOnce` and `AnswersAreKept` speak of states before the first
fault, as the properties do: after one both are false of the code.
Assumptions: each interrupt has at least one trigger type, the bounds are numbers.

`LifecycleProofs` proves `Spec => ImplementsLifecycle`: the initial states map to the
initial state and every step maps to a step of `InterruptLifecycle` or a stutter. The
statuses of an interrupt exclude each other (`StatusIs`), so each step is read as the set of
interrupts it moves; there is one lemma per action the lifecycle sees, and all others
keep every interrupt where it is. The mapping needs one fact `IInv` lacks, `Addressed`: an
input of the caller names stored interrupts, or none the agent waits on, and then
there was a fault, which `Lose` asks for. The same module proves `Spec =>
HonoursContract`: reading a fired trigger is a `PickUp`, the delegate's pass takes the
whole resume map, and `Reported` (until the call returns, the result is what the
last pass reported) makes the end of a call a `Return`. `AnyProperCallIsTaken` is the
other direction of its callers: by `Covered` and `NoAnswerLost` an open interrupt is
stored, and so is the trigger of it that fired, which is what the guards ask for.

`GovernanceProofs` proves for every set of rules that the aggregated action is DENY
exactly when an evaluated rule denies (through the check loop and the rule loop),
that a run is blocked exactly then in ENFORCE mode, that both sinks agree on every
event, and who writes a verdict (`EveryVerdictIsTracedOnce`: never both sides, each its
own matches, and as many dispatched as the summary counts). The invariant adds that what was
emitted is the function `Audit` of the evaluations and that nothing is emitted
while a hook is evaluated. `AggregationIsStrictest` says more of the fold: whatever the
order and kind of the rules, its result is the strictest of all matches. Three lemmas
on counting (finite sets, a bijection between evaluations and the events
built from them) then give `SummaryAddsUp`: the counts of the summary are those of the
events, which the code computes in another loop, and its final action the strictest
of them. Assumption: rules have the fields and actions of the code.

`AuditProofs` proves all properties of `AuditManager` for any sinks, names, threads,
threshold and number of emits. The heart of the invariant is `OwnBooks`: no emit() holds
another sink of the name of a clean one, so the counter of the name is that
sink's own run of failures, and the name is tripped exactly when the run once
reached the threshold. It rests on `VisitedAreKnown` (only sinks that were
registered are visited) and `UnknownIsBlank` (the others have no history).

`LogProofs` proves all properties of `LogCapture` for any executions, tasks, nesting
and abandoned streams, whatever order they end in. `Stacked` says who is on whose stack,
`Handled` that the shared loggers have the handlers of the live interceptors and no
other, `Aware` that a task not astray has its innermost execution in its context.
`Phases` is the argument about streams: while the main interceptor is inside, no
writer of a live execution restores the console, so prints stay captured in any
order of ends; its own teardown brings the console back, and only a stream
finalised later can undo that. `Isolated` assumes a main interceptor (`HasMain`): without one it is
false, which `log_overlap` shows.

`WorkspaceProofs` proves all properties of `Workspace` for any files and contents and
any number of calls, failures and jobs. `Staged` says what each stretch presumes, `Restoring`
that a partly downloaded file is due to be fetched again before the delegate runs,
`Persisting` that the registry under construction is the directory as the delegate left it
and that its attachments are linked or about to be, `Continuing` that a
published snapshot is what the previous job's agent left until the new agent runs.
Assumption: "no content" and "a part" are not contents.

`JobProofs` proves all properties of `JobRun` for any number of processes and passes.
`Exiting` says for every step of `__exit__` which files are written and that the result and the
exception are one outcome, `Pointers` and `Told` what a reader of the file and the sink
may rely on. `Ascending` is why a suspension is durable in every nesting: each layer
that a suspension has passed has stored its part of it, and no layer above undoes
that; `Reporting` carries it through `__exit__`, and a file that says SUSPENDED
is only ever written from there.

`SessionProofs` proves the safety properties of `Session` in all four nestings, for any
interrupts, API and waited triggers, polling setting and number of breakpoints. `Nested`
says that a stream is only under way inside one that consumes it, `Offering` that what a
wrapper handles is what the agent's stream offers. A stream whose last event was taken is
spent (`AgentSpent`, `ChatSpent`); `Turns` says that the flag of each loop (`over`,
`completed`) tells that apart from a stream that may go on. On these rest `Fresh` (the
input of the next pass names open interrupts from the answer to the pass, is there
exactly when the agent was suspended, and has `resume`), `Starting` (an agent not yet
started waits on nothing), `Quitting` (after a quit streams only unwind), `Answering` (a reply is with the
agent or on its way through the wrappers inside), `Stopping` (breakpoints are only set
while somebody can resume from them), and `Telling` and `Finishing` (the agent's end is what
the host has seen or will see, and ends the exchange). `Wiring` derives the neighbours in
each nesting; every step then has one lemma, which first names what it changes at
the three layers. Assumptions: API and waited interrupts are interrupts, the bound is a
number.

`CallersHonourContract` then proves `Spec => HonoursContract` in all nestings: a call
of the agent by either wrapper carries `Fitting` arguments, and the rest of the
two loops, restarts and fallbacks included, is not seen. It adds `Apart` to the
invariant: no interrupt is both open and answered, and nothing runs after a fault.

Only model-checked: liveness and fairness (`AnsweredEventually`, `RunsEnd`). Every
other property of a passing run is a theorem.

## Not modelled, and the plan

1. Abandoned streams in `Session`: the inner generators that a `break` leaves are dropped
   at once there, while the event loop finalises them later.
2. The factory registry (`registry.py`): a dictionary with a registration order, small and
   sequential, where a unit test reaches everything.

Out of scope: text operators of the evaluator, schemas, error contracts, span
attributes and payload formats (data without control), command line and
configuration parsing.
