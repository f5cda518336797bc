----------------------------- MODULE Governance -----------------------------
(***************************************************************************)
(* UiPathGovernedRuntime (governance/runtime.py) around one run of an      *)
(* agent, the GovernanceEvaluator (governance/native/evaluator.py) that it *)
(* fires before and after the agent and that the agent's framework fires   *)
(* around model and tool calls, and the three places a verdict goes: the   *)
(* traces sink, the telemetry sink and the guardrail compensator.          *)
(*                                                                         *)
(* An operator applied to the hook's content is its outcome: a condition   *)
(* carries the result its operator gives on this run.  A                   *)
(* guardrail_fallback condition gives TRUE when its guardrail is mapped    *)
(* but disabled; it names the validator that compensates, or none.  The    *)
(* list of rules of a hook is met one rule at a time, so every list of at  *)
(* most MaxRules rules is explored.  Sinks and the compensation provider   *)
(* may fail without being noticed here (their errors are contained).       *)
(***************************************************************************)
EXTENDS Integers, Sequences, FiniteSets

CONSTANTS
  Rules,     \* the rules a policy pack may hold for a hook
  Nothing,   \* absent record
  MaxRules   \* bound: rules per hook

Actions == {"allow", "audit", "escalate", "deny"}
Modes == {"disabled", "audit", "enforce"}
Dependencies == {"audit_manager", "compensator"}
InnerHooks == {"before_model", "after_model", "tool_call", "after_tool"}
Hooks == {"before_agent", "after_agent"} \cup InnerHooks

ASSUME RulesAssumption ==
  /\ MaxRules \in Nat
  /\ \A r \in Rules :
       /\ r.enabled \in BOOLEAN /\ r.action \in Actions
       /\ \A k \in r.checks :
            /\ k.action \in Actions /\ k.logic \in {"any", "all"}
            /\ \A c \in k.conditions :
                 /\ c.fallback \in BOOLEAN /\ c.result \in BOOLEAN
                 /\ c.negate \in BOOLEAN /\ c.validator \in BOOLEAN

VARIABLES
  mode,         \* enforcement mode of the evaluator
  injected,     \* the optional dependencies it was constructed with
  phase,        \* hook being evaluated, or where the run is
  evaluations,  \* RuleEvaluations of the current hook, in order
  skipped,      \* number of disabled rules met in this hook
  raw,          \* raw_action
  audit         \* what the last evaluated hook emitted, or Nothing

config == <<mode, injected>>
vars == <<mode, injected, phase, evaluations, skipped, raw, audit>>

-----------------------------------------------------------------------------
(* One rule                                                                *)

Holds(c) == c.result # c.negate

CheckMatches(k) ==
  \/ k.conditions = {}
  \/ k.logic = "any" /\ \E c \in k.conditions : Holds(c)
  \/ k.logic = "all" /\ \A c \in k.conditions : Holds(c)

\* DENY > ESCALATE > AUDIT > ALLOW
MostRestrictive(S) ==
  CASE "deny" \in S -> "deny"
    [] "deny" \notin S /\ "escalate" \in S -> "escalate"
    [] S \cap {"deny", "escalate"} = {} /\ "audit" \in S -> "audit"
    [] OTHER -> "allow"

\* _evaluate_rule: a rule without checks always matches; otherwise one
\* matching check is enough, and only matching checks have a say in the action.
Evaluation(r) ==
  LET matching == {k \in r.checks : CheckMatches(k)} IN
  [rule    |-> r,
   matched |-> r.checks = {} \/ matching # {},
   action  |-> IF r.checks = {} THEN r.action
               ELSE MostRestrictive({k.action : k \in matching})]

\* Deviation: the last matching rule decides.
RaisedByLast(current, action) == action

\* The aggregation step of evaluate()'s loop over the rules.
Raised(current, action) ==
  CASE action = "deny" -> "deny"
    [] action = "escalate" /\ current # "deny" -> "escalate"
    [] action = "audit" /\ current = "allow" -> "audit"
    [] OTHER -> current

\* AUDIT mode neither blocks nor escalates.
ApplyMode(m, action) ==
  IF m = "audit" /\ action \in {"deny", "escalate"} THEN "audit" ELSE action

-----------------------------------------------------------------------------
(* Where the verdicts go                                                   *)

Conditions(r) == UNION {k.conditions : k \in r.checks}

IsFallback(r) == \E c \in Conditions(r) : c.fallback

\* Deviation: every evaluation is emitted, the compensated ones too.
EmittableAll(evs) == DOMAIN evs

\* Evaluations the evaluator emits itself: those of guardrail_fallback rules
\* are left to the compensating path.
Emittable(evs) == {i \in DOMAIN evs : ~IsFallback(evs[i].rule)}

RuleEvent(evs, i) ==
  [of |-> i, matched |-> evs[i].matched,
   action |-> IF evs[i].matched THEN evs[i].action ELSE "allow"]

\* Deviation: the verdict of the whole hook, compensated rules included.
SummaryActionOfAll(evs) ==
  MostRestrictive({evs[i].action : i \in {j \in DOMAIN evs : evs[j].matched}})

SummaryAction(evs) ==
  MostRestrictive({evs[i].action : i \in {j \in Emittable(evs) : evs[j].matched}})

\* Deviation: the counts are taken over every evaluation of the hook.
SummaryOverAll(m, evs, skips) ==
  LET denied == Cardinality({i \in DOMAIN evs :
                               evs[i].matched /\ evs[i].action # "allow"})
  IN  [passed |-> Len(evs) - denied, denied |-> denied, skipped |-> skips,
       final |-> ApplyMode(m, SummaryAction(evs)),
       guardrails |-> Cardinality({i \in DOMAIN evs :
                                     evs[i].matched /\ IsFallback(evs[i].rule)})]

\* emit_hook_summary, with the counts _emit_audit hands to it.
Summary(m, evs, skips) ==
  LET total  == Cardinality(Emittable(evs))
      denied == Cardinality({i \in Emittable(evs) :
                               evs[i].matched /\ evs[i].action # "allow"})
  IN  [passed |-> IF total > denied THEN total - denied ELSE 0,
       denied |-> denied,
       skipped |-> skips,
       final |-> ApplyMode(m, SummaryAction(evs)),
       guardrails |-> Cardinality({i \in DOMAIN evs :
                                     evs[i].matched /\ IsFallback(evs[i].rule)})]

\* disabled_guardrails: one FiredRule per condition of a matched rule whose
\* guardrail is disabled, if it names a validator.
FiredRules(evs) ==
  UNION {{[of |-> i, condition |-> c] :
            c \in {x \in Conditions(evs[i].rule) : x.fallback /\ x.result /\ x.validator}} :
         i \in {j \in DOMAIN evs : evs[j].matched}}

\* Deviation: a hook without an emittable evaluation is not dispatched, either.
AuditOrNothing(m, deps, evs, skips) ==
  LET emitted == IF "audit_manager" \in deps THEN Emittable(evs) ELSE {}
  IN  [events     |-> {RuleEvent(evs, i) : i \in emitted},
       summary    |-> IF emitted = {} THEN Nothing ELSE Summary(m, evs, skips),
       dispatched |-> IF emitted # {} /\ "compensator" \in deps THEN FiredRules(evs) ELSE {}]

\* _emit_audit and _dispatch_compensation, each nothing without its dependency.
\* Without an emittable evaluation not even the summary is emitted.
Audit(m, deps, evs, skips) ==
  LET emitted == IF "audit_manager" \in deps THEN Emittable(evs) ELSE {}
  IN  [events     |-> {RuleEvent(evs, i) : i \in emitted},
       summary    |-> IF emitted = {} THEN Nothing ELSE Summary(m, evs, skips),
       dispatched |-> IF "compensator" \in deps THEN FiredRules(evs) ELSE {}]

\* TracesAuditSink: _derive_results
TracesResult(e) ==
  CASE ~e.matched \/ e.action = "allow" -> "ALLOW"
    [] e.matched /\ e.action = "escalate" -> "HITL"
    [] OTHER -> "DENY"

TracesApplied(e, m) ==
  CASE TracesResult(e) = "ALLOW" -> "NONE"
    [] TracesResult(e) # "ALLOW" /\ (e.action = "audit" \/ m # "enforce") -> "AUDIT"
    [] OTHER -> TracesResult(e)

\* TrackEventAuditSink: accepts, _evaluator_result and _action_applied.  Modes
\* are upper case there and DISABLED ones were dropped before.
TelemetryAccepts(e, m) == m # "disabled" /\ e.matched /\ e.action # "allow"

TelemetryResult(e) ==
  CASE e.action \in {"deny", "audit"} -> "DENY"
    [] e.action = "escalate" -> "HITL"
    [] OTHER -> "ALLOW"

\* Deviation: in ENFORCE mode the audit-only rules are forgotten.
TelemetryAppliedByModeOnly(e, m) ==
  CASE TelemetryResult(e) = "ALLOW" -> "NONE"
    [] TelemetryResult(e) # "ALLOW" /\ m = "audit" -> "AUDIT"
    [] OTHER -> TelemetryResult(e)

TelemetryApplied(e, m) ==
  CASE TelemetryResult(e) = "ALLOW" -> "NONE"
    [] TelemetryResult(e) # "ALLOW" /\ (m = "audit" \/ e.action = "audit") -> "AUDIT"
    [] OTHER -> TelemetryResult(e)

-----------------------------------------------------------------------------
(* A governed run                                                          *)

Init ==
  /\ mode \in Modes /\ injected \in SUBSET Dependencies
  /\ phase = "start"
  /\ evaluations = <<>> /\ skipped = 0 /\ raw = "allow" /\ audit = Nothing

Fire(hook) ==
  /\ phase' = hook
  /\ evaluations' = <<>> /\ skipped' = 0 /\ raw' = "allow" /\ audit' = Nothing
  /\ UNCHANGED config

\* execute() or stream(): BEFORE_AGENT comes first.
Start == phase = "start" /\ Fire("before_agent")

\* The framework calls evaluate_before_model(), evaluate_tool_call(), ... from
\* inside the delegate, in any order; a block leaves the delegate as any
\* exception does.
FrameworkFires(hook) == phase = "running" /\ hook \in InnerHooks /\ Fire(hook)

\* Where the run goes when a hook does not block it.
After(hook) == IF hook = "after_agent" THEN "returned" ELSE "running"

Evaluating == phase \in Hooks /\ mode # "disabled"

\* evaluate() in DISABLED mode: no rule, no audit.
Disabled ==
  /\ phase \in Hooks /\ mode = "disabled"
  /\ phase' = After(phase)
  /\ UNCHANGED <<config, evaluations, skipped, raw, audit>>

SkipRule(r) ==
  /\ Evaluating /\ Len(evaluations) + skipped < MaxRules
  /\ ~r.enabled
  /\ skipped' = skipped + 1
  /\ UNCHANGED <<config, phase, evaluations, raw, audit>>

EvaluateRule(r) ==
  LET ev == Evaluation(r) IN
  /\ Evaluating /\ Len(evaluations) + skipped < MaxRules
  /\ r.enabled
  /\ evaluations' = Append(evaluations, ev)
  /\ raw' = IF ev.matched THEN Raised(raw, ev.action) ELSE raw
  /\ UNCHANGED <<config, phase, skipped, audit>>

\* An operator raises (a threshold that is not a number): evaluate() ends
\* without a record.  _fire_before_agent and _fire_after_agent swallow it; what
\* the framework does not swallow is an exception of the delegate.
RuleRaises ==
  /\ Evaluating /\ Len(evaluations) + skipped < MaxRules
  /\ phase' = After(phase)
  /\ evaluations' = <<>> /\ skipped' = 0 /\ raw' = "allow"
  /\ UNCHANGED <<config, audit>>

\* The end of evaluate(): emit, dispatch, then block or let pass.
Conclude ==
  LET final == ApplyMode(mode, raw) IN
  /\ Evaluating
  /\ audit' = Audit(mode, injected, evaluations, skipped)
  /\ phase' = IF final = "deny" THEN "blocked" ELSE After(phase)
  /\ UNCHANGED <<config, evaluations, skipped, raw>>

\* The delegate gives its result: AFTER_AGENT is fired on it.
DelegateReturns == phase = "running" /\ Fire("after_agent")

\* The delegate raises: there is no output to evaluate.
DelegateRaises ==
  /\ phase = "running" /\ phase' = "failed"
  /\ UNCHANGED <<config, evaluations, skipped, raw, audit>>

Over == phase \in {"returned", "blocked", "failed"} /\ UNCHANGED vars

Next ==
  \/ Start \/ Disabled
  \/ \E hook \in InnerHooks : FrameworkFires(hook)
  \/ \E r \in Rules : SkipRule(r) \/ EvaluateRule(r)
  \/ RuleRaises \/ Conclude
  \/ DelegateReturns \/ DelegateRaises
  \/ Over

Spec == Init /\ [][Next]_vars
-----------------------------------------------------------------------------
(* Properties                                                              *)

TypeOK ==
  /\ mode \in Modes /\ injected \subseteq Dependencies
  /\ phase \in Hooks \cup {"start", "running", "returned", "blocked", "failed"}
  /\ evaluations \in Seq({Evaluation(r) : r \in Rules})
  /\ skipped \in 0..MaxRules /\ Len(evaluations) + skipped <= MaxRules
  /\ raw \in Actions
  /\ audit # Nothing =>
       /\ {e.of : e \in audit.events} \subseteq DOMAIN evaluations
       /\ {f.of : f \in audit.dispatched} \subseteq DOMAIN evaluations
       /\ audit.summary # Nothing =>
            LET s == audit.summary IN
            /\ {s.passed, s.denied, s.guardrails, s.skipped} \subseteq 0..MaxRules
            /\ s.passed + s.denied + s.guardrails <= Len(evaluations)

\* A rule denies when it always matches and denies, or a matching check does.
Denies(r) ==
  \/ r.checks = {} /\ r.action = "deny"
  \/ \E k \in r.checks : CheckMatches(k) /\ k.action = "deny"

Denied == \E i \in DOMAIN evaluations : Denies(evaluations[i].rule)

\* The run is blocked exactly when, in ENFORCE mode, some evaluated rule
\* denies: no order of rules and checks and no milder match hides a denial,
\* and neither AUDIT mode nor an unmatched check blocks.
BlockedExactlyWhenDenied ==
  /\ phase = "blocked" => mode = "enforce" /\ Denied
  /\ phase \in {"running", "returned"} /\ mode = "enforce" => ~Denied

\* For every event of a rule both sinks report the same verdict and the same
\* applied action; what the telemetry drops the traces show as allowed
\* ("so both sinks agree on the (matched, action) -> verdict mapping").
SinksAgree ==
  audit # Nothing => \A e \in audit.events :
    IF TelemetryAccepts(e, mode)
    THEN /\ TracesResult(e) = TelemetryResult(e)
         /\ TracesApplied(e, mode) = TelemetryApplied(e, mode)
    ELSE TracesResult(e) = "ALLOW" /\ TracesApplied(e, mode) = "NONE"

\* The hook summary adds up with the rule events of the same hook: each is
\* counted once, and it says DENY (or ALLOW) exactly when the telemetry shows
\* some rule applied (or none reported).
SummaryAgreesWithEvents ==
  audit # Nothing /\ audit.summary # Nothing =>
    LET s == audit.summary
        reported == {e \in audit.events : TelemetryAccepts(e, mode)}
    IN  /\ s.denied = Cardinality(reported)
        /\ s.passed = Cardinality(audit.events \ reported)
        /\ s.final = "deny" <=> \E e \in reported : TelemetryApplied(e, mode) = "DENY"
        /\ s.final = "allow" <=> reported = {}

\* A fallback rule as the packs write it: one condition, not negated, with a
\* validator.
PlainFallback(r) ==
  /\ \E c \in Conditions(r) :
       Conditions(r) = {c} /\ c.fallback /\ ~c.negate /\ c.validator
  /\ \A k \in r.checks : k.conditions # {}

\* No verdict is written twice, by the evaluator and by the compensating path;
\* each of them writes every match that is its own, of plain fallback rules
\* the latter; and if there are no others, the hook summary has counted as
\* dispatched exactly what was ("guardrail_dispatched_count").
TracedOnce ==
  audit # Nothing =>
    LET traced     == {e.of : e \in audit.events}
        dispatched == {f.of : f \in audit.dispatched}
        matched    == {i \in DOMAIN evaluations : evaluations[i].matched}
        fallback   == {i \in matched : IsFallback(evaluations[i].rule)}
        plain      == {i \in fallback : PlainFallback(evaluations[i].rule)}
    IN  /\ traced \cap dispatched = {}
        /\ "audit_manager" \in injected => matched \ fallback \subseteq traced
        /\ "compensator" \in injected =>
             /\ plain \subseteq dispatched
             /\ audit.summary # Nothing /\ fallback = plain =>
                  audit.summary.guardrails = Cardinality(dispatched)
=============================================================================
