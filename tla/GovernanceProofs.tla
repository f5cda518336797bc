-------------------------- MODULE GovernanceProofs --------------------------
(***************************************************************************)
(* Proofs about Governance, for every set of rules and every number of     *)
(* rules per hook.                                                         *)
(***************************************************************************)
EXTENDS Governance, FiniteSetTheorems, TLAPS

Verdicts == {Evaluation(r) : r \in Rules}

Matched(evs) == {i \in DOMAIN evs : evs[i].matched}

\* The loop of evaluate() comes to the strictest action of all matches,
\* whatever their order.
RawIsStrictest ==
  raw = MostRestrictive({evaluations[i].action : i \in Matched(evaluations)})

\* What a run has evaluated so far decides its raw action, and what the hook
\* emitted is a function of it.
IInv ==
  /\ mode \in Modes /\ injected \subseteq Dependencies
  /\ phase \in Hooks \cup {"start", "running", "returned", "blocked", "failed"}
  /\ evaluations \in Seq(Verdicts)
  /\ skipped \in Nat /\ Len(evaluations) + skipped <= MaxRules
  /\ RawIsStrictest
  /\ audit # Nothing =>
       mode # "disabled" /\ audit = Audit(mode, injected, evaluations, skipped)
  /\ phase \in Hooks \cup {"start"} => audit = Nothing
  /\ BlockedExactlyWhenDenied

USE DEF config

-----------------------------------------------------------------------------
(* One rule                                                                *)

\* MostRestrictive returns an action, and DENY exactly when DENY is present.
LEMMA MostRestrictiveDeny ==
  ASSUME NEW S
  PROVE  /\ MostRestrictive(S) \in Actions
         /\ MostRestrictive(S) = "deny" <=> "deny" \in S
BY DEF MostRestrictive, Actions

\* A rule's evaluation (_evaluate_rule) carries the rule, a known action and
\* denies exactly when the rule always matches and denies or a matching check
\* denies.
LEMMA EvaluationDenies ==
  ASSUME NEW r \in Rules
  PROVE  /\ Evaluation(r).rule = r
         /\ Evaluation(r).matched \in BOOLEAN
         /\ Evaluation(r).action \in Actions
         /\ Denies(r) <=> Evaluation(r).matched /\ Evaluation(r).action = "deny"
<1> DEFINE M == {k \in r.checks : CheckMatches(k)}
           A == {k.action : k \in M}
<1>1. /\ Evaluation(r).rule = r
      /\ Evaluation(r).matched = (r.checks = {} \/ M # {})
      /\ Evaluation(r).action = IF r.checks = {} THEN r.action ELSE MostRestrictive(A)
  BY DEF Evaluation
<1>2. r.action \in Actions
  BY RulesAssumption
<1>3. MostRestrictive(A) \in Actions /\ (MostRestrictive(A) = "deny" <=> "deny" \in A)
  BY MostRestrictiveDeny
<1>4. "deny" \in A <=> \E k \in r.checks : CheckMatches(k) /\ k.action = "deny"
  OBVIOUS
<1>5. "deny" \in A => M # {}
  OBVIOUS
<1> HIDE DEF M, A
<1>6. CASE r.checks = {}
  BY <1>1, <1>2, <1>6 DEF Denies
<1>7. CASE r.checks # {}
  BY <1>1, <1>3, <1>4, <1>5, <1>7 DEF Denies
<1> QED
  BY <1>6, <1>7

\* One step of the aggregation loop adds one action to those compared.
LEMMA RaisedIsStrictest ==
  ASSUME NEW S \in SUBSET Actions, NEW b \in Actions
  PROVE  Raised(MostRestrictive(S), b) = MostRestrictive(S \cup {b})
BY DEF Raised, MostRestrictive, Actions

\* The strictest action is DENY exactly when some evaluated rule denies.
LEMMA StrictestDenies ==
  ASSUME evaluations \in Seq(Verdicts), RawIsStrictest
  PROVE  raw \in Actions /\ (raw = "deny" <=> Denied)
<1> DEFINE A == {evaluations[i].action : i \in Matched(evaluations)}
<1>1. raw \in Actions /\ (raw = "deny" <=> "deny" \in A)
  BY MostRestrictiveDeny DEF RawIsStrictest
<1>2. ASSUME NEW i \in DOMAIN evaluations
      PROVE  Denies(evaluations[i].rule) <=>
               evaluations[i].matched /\ evaluations[i].action = "deny"
  <2>1. PICK r \in Rules : evaluations[i] = Evaluation(r)
    BY DEF Verdicts
  <2> QED
    BY <2>1, EvaluationDenies
<1>3. "deny" \in A <=> Denied
  BY <1>2 DEF Denied, Matched
<1> QED
  BY <1>1, <1>3

-----------------------------------------------------------------------------
(* The invariant                                                           *)

LEMMA InitIInv == Init => IInv
<1> SUFFICES ASSUME Init PROVE IInv
  OBVIOUS
<1>1. evaluations = <<>> /\ DOMAIN evaluations = {} /\ Len(evaluations) = 0
  BY DEF Init
<1>2. RawIsStrictest
  BY <1>1 DEF Init, RawIsStrictest, MostRestrictive, Matched
<1>3. ~Denied
  BY <1>1 DEF Denied
<1> QED
  BY <1>1, <1>2, <1>3, RulesAssumption DEF Init, IInv, BlockedExactlyWhenDenied

\* Actions that begin a hook or drop its evaluations.
LEMMA ForgetStep ==
  ASSUME IInv, evaluations' = <<>>, skipped' = 0, raw' = "allow", UNCHANGED config,
         phase' \in Hooks \cup {"running", "returned"}, audit' = Nothing
  PROVE  IInv'
<1>1. /\ DOMAIN evaluations' = {} /\ evaluations' \in Seq(Verdicts)
      /\ Len(evaluations') = 0
  OBVIOUS
<1>2. RawIsStrictest'
  BY <1>1 DEF RawIsStrictest, MostRestrictive, Matched
<1>3. ~Denied'
  BY <1>1 DEF Denied
<1>4. BlockedExactlyWhenDenied'
  BY <1>3 DEF BlockedExactlyWhenDenied, Hooks, InnerHooks
<1> QED
  BY <1>1, <1>2, <1>4, RulesAssumption DEF IInv, Hooks, InnerHooks

LEMMA EvaluateStep ==
  ASSUME IInv, NEW r \in Rules, EvaluateRule(r)
  PROVE  IInv'
<1> DEFINE ev == Evaluation(r)
           A == {evaluations[i].action : i \in Matched(evaluations)}
<1>1. /\ evaluations' = Append(evaluations, ev)
      /\ raw' = IF ev.matched THEN Raised(raw, ev.action) ELSE raw
      /\ phase \in Hooks /\ Len(evaluations) + skipped < MaxRules
      /\ UNCHANGED <<config, phase, skipped, audit>>
  BY DEF EvaluateRule, Evaluating
<1>2. ev \in Verdicts /\ evaluations \in Seq(Verdicts)
  BY DEF Verdicts, IInv
<1>3. ev.matched \in BOOLEAN /\ ev.action \in Actions
  BY EvaluationDenies
<1>4. A \subseteq Actions
  BY <1>2, EvaluationDenies DEF Verdicts, Matched
<1> HIDE DEF ev
<1>5. /\ evaluations' \in Seq(Verdicts) /\ Len(evaluations') = Len(evaluations) + 1
      /\ DOMAIN evaluations' = DOMAIN evaluations \cup {Len(evaluations) + 1}
      /\ \A i \in DOMAIN evaluations : evaluations'[i] = evaluations[i]
      /\ evaluations'[Len(evaluations) + 1] = ev
  BY <1>1, <1>2
<1>6. {evaluations'[i].action : i \in Matched(evaluations')} =
        IF ev.matched THEN A \cup {ev.action} ELSE A
  BY <1>3, <1>5 DEF Matched
<1>7. RawIsStrictest'
  <2>1. raw = MostRestrictive(A)
    BY DEF IInv, RawIsStrictest
  <2> HIDE DEF A
  <2>2. Raised(raw, ev.action) = MostRestrictive(A \cup {ev.action})
    BY <1>3, <1>4, <2>1, RaisedIsStrictest
  <2> QED
    BY <1>1, <1>6, <2>1, <2>2 DEF RawIsStrictest
<1>8. BlockedExactlyWhenDenied'
  BY <1>1 DEF BlockedExactlyWhenDenied, Hooks, InnerHooks
<1>9. audit' = Nothing
  BY <1>1 DEF IInv
<1>10. skipped' \in Nat /\ Len(evaluations') + skipped' <= MaxRules
  BY <1>1, <1>2, <1>5, RulesAssumption DEF IInv
<1> QED
  BY <1>1, <1>5, <1>7, <1>8, <1>9, <1>10 DEF IInv

LEMMA ConcludeStep ==
  ASSUME IInv, Conclude
  PROVE  IInv'
<1>1. /\ UNCHANGED <<config, evaluations, skipped, raw>>
      /\ phase \in Hooks /\ mode # "disabled" /\ mode \in Modes
      /\ audit' = Audit(mode, injected, evaluations, skipped)
      /\ phase' = IF ApplyMode(mode, raw) = "deny" THEN "blocked" ELSE After(phase)
  BY DEF Conclude, Evaluating, IInv
<1>2. ApplyMode(mode, raw) = "deny" <=> mode = "enforce" /\ raw = "deny"
  BY <1>1 DEF ApplyMode, Modes
<1>3. Denied' <=> raw = "deny"
  BY <1>1, StrictestDenies DEF IInv, Denied
<1>4. After(phase) \in {"running", "returned"}
  BY DEF After
<1>5. BlockedExactlyWhenDenied'
  BY <1>1, <1>2, <1>3, <1>4 DEF BlockedExactlyWhenDenied
<1>6. audit' = Audit(mode, injected, evaluations, skipped)'
  BY <1>1
<1>7. /\ phase' \notin Hooks \cup {"start"}
      /\ phase' \in {"running", "returned", "blocked"}
  BY <1>1, <1>4 DEF Hooks, InnerHooks
<1>8. RawIsStrictest'
  BY <1>1 DEF IInv, RawIsStrictest
<1> QED
  BY <1>1, <1>5, <1>6, <1>7, <1>8 DEF IInv

\* Steps that change neither the evaluations nor what was emitted.
LEMMA PlainStep ==
  ASSUME IInv, UNCHANGED <<config, evaluations, raw, audit>>,
         skipped' \in Nat, Len(evaluations) + skipped' <= MaxRules,
         \/ phase' = phase /\ (audit # Nothing => skipped' = skipped)
         \/ phase' = "failed" /\ skipped' = skipped
         \/ phase' \in {"running", "returned"} /\ mode = "disabled" /\ skipped' = skipped
  PROVE  IInv'
<1>1. Denied' <=> Denied
  BY DEF Denied
<1>2. BlockedExactlyWhenDenied'
  BY <1>1 DEF IInv, BlockedExactlyWhenDenied
<1>3. phase' \in Hooks \cup {"start"} => phase = phase'
  BY DEF Hooks, InnerHooks
<1>4. audit # Nothing => audit = Audit(mode, injected, evaluations, skipped)'
  BY DEF IInv
<1>5. phase' \in Hooks \cup {"start", "running", "returned", "blocked", "failed"}
  BY DEF IInv
<1>6. RawIsStrictest'
  BY DEF IInv, RawIsStrictest
<1> QED
  BY <1>2, <1>3, <1>4, <1>5, <1>6 DEF IInv

LEMMA NextIInv == IInv /\ [Next]_vars => IInv'
<1> SUFFICES ASSUME IInv, [Next]_vars PROVE IInv'
  OBVIOUS
<1>1. CASE Start \/ DelegateReturns
  BY <1>1, ForgetStep DEF Start, DelegateReturns, Fire, Hooks, InnerHooks
<1>2. CASE Disabled
  BY <1>2, PlainStep DEF Disabled, After, IInv
<1>3. ASSUME NEW r \in Rules, SkipRule(r) PROVE IInv'
  <2>1. audit = Nothing
    BY <1>3 DEF SkipRule, Evaluating, IInv
  <2>2. Len(evaluations) \in Nat
    BY DEF IInv
  <2>3. skipped' \in Nat /\ Len(evaluations) + skipped' <= MaxRules
    BY <1>3, <2>2, RulesAssumption DEF SkipRule, IInv
  <2> QED
    BY <1>3, <2>1, <2>3, PlainStep DEF SkipRule
<1>4. ASSUME NEW r \in Rules, EvaluateRule(r) PROVE IInv'
  BY <1>4, EvaluateStep
<1>5. CASE RuleRaises
  <2>1. audit' = Nothing
    BY <1>5 DEF RuleRaises, Evaluating, IInv
  <2> QED
    BY <1>5, <2>1, ForgetStep DEF RuleRaises, After
<1>6. CASE Conclude
  BY <1>6, ConcludeStep
<1>7. CASE DelegateRaises
  BY <1>7, PlainStep DEF DelegateRaises, IInv
<1>8. CASE Over \/ UNCHANGED vars
  BY <1>8, PlainStep DEF Over, vars, IInv
<1>9. ASSUME NEW hook \in InnerHooks, FrameworkFires(hook) PROVE IInv'
  BY <1>9, ForgetStep DEF FrameworkFires, Fire, Hooks, InnerHooks
<1> QED
  BY <1>1, <1>2, <1>3, <1>4, <1>5, <1>6, <1>7, <1>8, <1>9 DEF Next

\* The invariant holds in every reachable state.
THEOREM Invariance == Spec => []IInv
BY InitIInv, NextIInv, PTL DEF Spec

\* Whatever their order and number, the action that evaluate() aggregates is
\* the strictest of all matched evaluations (the loop over the rules).
THEOREM AggregationIsStrictest == Spec => []RawIsStrictest
<1>1. IInv => RawIsStrictest
  BY DEF IInv
<1> QED
  BY <1>1, Invariance, PTL

\* Whatever the rules, their order and their number: a run is blocked exactly
\* when ENFORCE mode meets a rule that denies (GovernanceEvaluator.evaluate).
THEOREM DenialsBlock == Spec => []BlockedExactlyWhenDenied
<1>1. IInv => BlockedExactlyWhenDenied
  BY DEF IInv
<1> QED
  BY <1>1, Invariance, PTL

-----------------------------------------------------------------------------
(* What is emitted                                                         *)

\* The events of a hook carry known actions and come from evaluations whose
\* rule has no fallback condition.
LEMMA EventsOf ==
  ASSUME IInv, audit # Nothing, NEW e \in audit.events
  PROVE  /\ e.matched \in BOOLEAN /\ e.action \in Actions
         /\ e.of \in DOMAIN evaluations /\ ~IsFallback(evaluations[e.of].rule)
<1>1. PICK i \in Emittable(evaluations) : e = RuleEvent(evaluations, i)
  BY DEF IInv, Audit
<1>2. i \in DOMAIN evaluations /\ ~IsFallback(evaluations[i].rule) /\ e.of = i
  BY <1>1 DEF Emittable, RuleEvent
<1>3. PICK r \in Rules : evaluations[i] = Evaluation(r)
  BY <1>2 DEF IInv, Verdicts
<1>4. e.matched \in BOOLEAN /\ e.action \in Actions
  BY <1>1, <1>3, EvaluationDenies DEF RuleEvent, Actions
<1> QED
  BY <1>2, <1>4

\* The traces sink and the telemetry sink agree on every rule event, in every
\* mode and for every configured action.
THEOREM SinksNeverDisagree == Spec => []SinksAgree
<1>1. IInv => SinksAgree
  <2> SUFFICES ASSUME IInv, audit # Nothing, NEW e \in audit.events
               PROVE  IF TelemetryAccepts(e, mode)
                      THEN /\ TracesResult(e) = TelemetryResult(e)
                           /\ TracesApplied(e, mode) = TelemetryApplied(e, mode)
                      ELSE TracesResult(e) = "ALLOW" /\ TracesApplied(e, mode) = "NONE"
    BY DEF SinksAgree
  <2>1. e.matched \in BOOLEAN /\ e.action \in Actions /\ mode \in {"audit", "enforce"}
    BY EventsOf DEF IInv, Modes
  <2>2. CASE TelemetryAccepts(e, mode)
    <3>1. TracesResult(e) = TelemetryResult(e) /\ TracesResult(e) \in {"HITL", "DENY"}
      BY <2>1, <2>2 DEF TelemetryAccepts, TracesResult, TelemetryResult, Actions
    <3>2. TracesApplied(e, mode) = TelemetryApplied(e, mode)
      BY <2>1, <3>1 DEF TracesApplied, TelemetryApplied
    <3> QED
      BY <2>2, <3>1, <3>2
  <2>3. CASE ~TelemetryAccepts(e, mode)
    <3>1. TracesResult(e) = "ALLOW"
      BY <2>1, <2>3 DEF TelemetryAccepts, TracesResult
    <3>2. TracesApplied(e, mode) = "NONE"
      BY <3>1 DEF TracesApplied
    <3> QED
      BY <2>3, <3>1, <3>2
  <2> QED
    BY <2>2, <2>3
<1> QED
  BY <1>1, Invariance, PTL

-----------------------------------------------------------------------------
(* What is counted                                                         *)

\* The evaluations behind the three counts of a summary.
Reported(evs) == {i \in Emittable(evs) : evs[i].matched /\ evs[i].action # "allow"}
Compensated(evs) == {i \in DOMAIN evs : evs[i].matched /\ IsFallback(evs[i].rule)}

\* There are as many rule events as evaluations they are for.
LEMMA OneEventEach ==
  ASSUME NEW evs, NEW S, IsFiniteSet(S)
  PROVE  LET T == {RuleEvent(evs, i) : i \in S}
         IN  IsFiniteSet(T) /\ Cardinality(T) = Cardinality(S)
<1> DEFINE T == {RuleEvent(evs, i) : i \in S}
           f == [i \in S |-> RuleEvent(evs, i)]
<1>1. \A i, j \in S : f[i] = f[j] => i = j
  BY DEF RuleEvent
<1>2. f \in Bijection(S, T)
  <2>1. f \in [S -> T] /\ \A t \in T : \E i \in S : f[i] = t
    OBVIOUS
  <2> HIDE DEF f, T
  <2>2. f \in Injection(S, T)
    BY <1>1, <2>1 DEF Injection, IsInjective
  <2>3. f \in Surjection(S, T)
    BY <2>1 DEF Surjection
  <2> QED
    BY <2>2, <2>3 DEF Bijection
<1> QED
  BY <1>2, FS_Bijection DEF ExistsBijection

\* The counts are numbers, and no evaluation is counted twice.
LEMMA Counts ==
  ASSUME NEW evs \in Seq(Verdicts)
  PROVE  /\ IsFiniteSet(Emittable(evs)) /\ IsFiniteSet(Reported(evs))
         /\ Cardinality(Emittable(evs)) \in Nat
         /\ Cardinality(Reported(evs)) \in 0..Cardinality(Emittable(evs))
         /\ Cardinality(Compensated(evs)) \in Nat
         /\ Cardinality(Emittable(evs)) + Cardinality(Compensated(evs)) <= Len(evs)
<1> DEFINE E == Emittable(evs)
           C == Compensated(evs)
<1>1. Len(evs) \in Nat /\ DOMAIN evs = 1..Len(evs)
  OBVIOUS
<1>2. IsFiniteSet(DOMAIN evs) /\ Cardinality(DOMAIN evs) = Len(evs)
  BY <1>1, FS_Interval
<1>3. /\ E \in SUBSET DOMAIN evs /\ C \in SUBSET DOMAIN evs
      /\ Reported(evs) \in SUBSET E /\ E \cap C = {}
  BY DEF Emittable, Compensated, Reported
<1> HIDE DEF E, C
<1>4. IsFiniteSet(E) /\ IsFiniteSet(C) /\ IsFiniteSet(Reported(evs))
      /\ Cardinality(Reported(evs)) <= Cardinality(E)
  BY <1>2, <1>3, FS_Subset
<1>5. /\ Cardinality(E) \in Nat /\ Cardinality(C) \in Nat
      /\ Cardinality(Reported(evs)) \in Nat
  BY <1>4, FS_CardinalityType
<1>6. Cardinality(E \cup C) = Cardinality(E) + Cardinality(C)
  <2>1. Cardinality(E \cup C) = Cardinality(E) + Cardinality(C) - Cardinality(E \cap C)
    BY <1>4, FS_Union
  <2>2. Cardinality(E \cap C) = 0
    BY <1>3, FS_EmptySet
  <2> QED
    BY <1>5, <2>1, <2>2
<1>7. Cardinality(E \cup C) <= Len(evs)
  <2>1. E \cup C \in SUBSET DOMAIN evs
    BY <1>3
  <2> QED
    BY <1>2, <2>1, FS_Subset
<1> QED
  BY <1>4, <1>5, <1>6, <1>7 DEF E, C

\* The summary of a hook, with the code's guard on the subtraction resolved.
LEMMA SummaryCounts ==
  ASSUME IInv, audit # Nothing, audit.summary # Nothing
  PROVE  /\ audit.events = {RuleEvent(evaluations, i) : i \in Emittable(evaluations)}
         /\ audit.summary.denied = Cardinality(Reported(evaluations))
         /\ audit.summary.passed =
              Cardinality(Emittable(evaluations)) - Cardinality(Reported(evaluations))
         /\ audit.summary.guardrails = Cardinality(Compensated(evaluations))
         /\ audit.summary.skipped = skipped
         /\ audit.summary.final = ApplyMode(mode, SummaryAction(evaluations))
<1>1. audit = Audit(mode, injected, evaluations, skipped) /\ evaluations \in Seq(Verdicts)
  BY DEF IInv
<1>2. audit.summary = Summary(mode, evaluations, skipped)
  BY <1>1 DEF Audit
<1>3. audit.events = {RuleEvent(evaluations, i) : i \in Emittable(evaluations)}
  BY <1>1 DEF Audit
<1>4. audit.summary.passed =
        IF Cardinality(Emittable(evaluations)) > Cardinality(Reported(evaluations))
        THEN Cardinality(Emittable(evaluations)) - Cardinality(Reported(evaluations))
        ELSE 0
  BY <1>2 DEF Summary, Reported
<1>5. /\ audit.summary.denied = Cardinality(Reported(evaluations))
      /\ audit.summary.guardrails = Cardinality(Compensated(evaluations))
      /\ audit.summary.skipped = skipped
      /\ audit.summary.final = ApplyMode(mode, SummaryAction(evaluations))
  BY <1>2 DEF Summary, Reported, Compensated
<1>6. audit.summary.passed =
        Cardinality(Emittable(evaluations)) - Cardinality(Reported(evaluations))
  BY <1>1, <1>4, Counts
<1> QED
  BY <1>3, <1>5, <1>6

\* The type invariant: no count exceeds the evaluations of the hook.
THEOREM TypeCorrect == Spec => []TypeOK
<1>1. ASSUME IInv PROVE TypeOK
  <2>1. raw \in Actions
    BY <1>1, StrictestDenies DEF IInv
  <2>2. Len(evaluations) \in Nat /\ skipped \in 0..MaxRules
        /\ Len(evaluations) + skipped <= MaxRules
    BY <1>1, RulesAssumption DEF IInv
  <2>3. ASSUME audit # Nothing
        PROVE  /\ {e.of : e \in audit.events} \subseteq DOMAIN evaluations
               /\ {f.of : f \in audit.dispatched} \subseteq DOMAIN evaluations
    BY <1>1, <2>3, EventsOf DEF IInv, Audit, FiredRules
  <2>4. ASSUME audit # Nothing, audit.summary # Nothing
        PROVE  LET s == audit.summary IN
               /\ {s.passed, s.denied, s.guardrails, s.skipped} \subseteq 0..MaxRules
               /\ s.passed + s.denied + s.guardrails <= Len(evaluations)
    BY <1>1, <2>2, <2>4, SummaryCounts, Counts, RulesAssumption DEF IInv
  <2> QED
    BY <1>1, <2>1, <2>2, <2>3, <2>4 DEF TypeOK, IInv, Verdicts
<1> QED
  BY <1>1, Invariance, PTL

\* The summary action of a set of evaluations, told by the events it reports.
LEMMA SummaryActionIs ==
  ASSUME NEW evs \in Seq(Verdicts)
  PROVE  /\ SummaryAction(evs) \in Actions
         /\ SummaryAction(evs) = "deny" <=>
              \E i \in Reported(evs) : evs[i].action = "deny"
         /\ SummaryAction(evs) = "allow" <=> Reported(evs) = {}
<1> DEFINE A == {evs[i].action : i \in {j \in Emittable(evs) : evs[j].matched}}
<1>1. \A i \in Emittable(evs) : evs[i].action \in Actions
  BY EvaluationDenies DEF Emittable, Verdicts
<1>2. A \subseteq Actions
  BY <1>1
<1>3. "deny" \in A <=> \E i \in Reported(evs) : evs[i].action = "deny"
  BY DEF Reported
<1>4. A \subseteq {"allow"} <=> Reported(evs) = {}
  BY DEF Reported
<1>5. SummaryAction(evs) = MostRestrictive(A)
  BY DEF SummaryAction
<1> HIDE DEF A
<1>6. MostRestrictive(A) = "allow" <=> A \subseteq {"allow"}
  BY <1>2 DEF MostRestrictive, Actions
<1> QED
  BY <1>3, <1>4, <1>5, <1>6, MostRestrictiveDeny

\* The counts and the final action of the hook summary agree with the rule
\* events that the sinks show for the same hook.
THEOREM SummaryAddsUp == Spec => []SummaryAgreesWithEvents
<1>1. ASSUME IInv, audit # Nothing, audit.summary # Nothing
      PROVE  LET s == audit.summary
                 reported == {e \in audit.events : TelemetryAccepts(e, mode)}
             IN  /\ s.denied = Cardinality(reported)
                 /\ s.passed = Cardinality(audit.events \ reported)
                 /\ s.final = "deny" <=> \E e \in reported : TelemetryApplied(e, mode) = "DENY"
                 /\ s.final = "allow" <=> reported = {}
  <2> DEFINE s == audit.summary
             events == audit.events
             reported == {e \in events : TelemetryAccepts(e, mode)}
             E == Emittable(evaluations)
             R == Reported(evaluations)
             Ev(i) == RuleEvent(evaluations, i)
  <2>1. /\ evaluations \in Seq(Verdicts) /\ mode \in {"audit", "enforce"}
    BY <1>1 DEF IInv, Modes
  <2>2. /\ events = {Ev(i) : i \in E} /\ R \subseteq E
        /\ s.denied = Cardinality(R) /\ s.passed = Cardinality(E) - Cardinality(R)
        /\ s.final = ApplyMode(mode, SummaryAction(evaluations))
    BY <1>1, SummaryCounts DEF Reported
  <2>3. IsFiniteSet(E) /\ IsFiniteSet(R)
    BY <2>1, Counts
  <2>4. ASSUME NEW i \in E PROVE TelemetryAccepts(Ev(i), mode) <=> i \in R
    <3>1. evaluations[i].matched \in BOOLEAN
      BY <2>1, EvaluationDenies DEF Emittable, Verdicts
    <3> QED
      BY <2>1, <3>1 DEF TelemetryAccepts, RuleEvent, Reported
  <2>5. reported = {Ev(i) : i \in R}
    BY <2>2, <2>4
  <2>6. s.denied = Cardinality(reported)
    BY <2>2, <2>3, <2>5, OneEventEach
  <2>7. s.passed = Cardinality(events \ reported)
    <3>1. events \ reported = {Ev(i) : i \in E \ R}
      BY <2>2, <2>4
    <3>2. /\ IsFiniteSet(E \ R) /\ E \cap R = R
          /\ Cardinality(E \ R) = Cardinality(E) - Cardinality(E \cap R)
      BY <2>2, <2>3, FS_Difference
    <3> QED
      BY <2>2, <3>1, <3>2, OneEventEach
  <2>8. s.final = "deny" <=> \E e \in reported : TelemetryApplied(e, mode) = "DENY"
    <3>1. s.final = "deny" <=>
            mode = "enforce" /\ \E i \in R : evaluations[i].action = "deny"
      BY <2>1, <2>2, SummaryActionIs DEF ApplyMode
    <3>2. ASSUME NEW i \in R
          PROVE  TelemetryApplied(Ev(i), mode) = "DENY" <=>
                   mode = "enforce" /\ evaluations[i].action = "deny"
      <4>1. evaluations[i].matched /\ evaluations[i].action \in Actions
        BY <2>1, EvaluationDenies DEF Reported, Emittable, Verdicts
      <4> QED
        BY <2>1, <4>1 DEF TelemetryApplied, TelemetryResult, RuleEvent, Actions
    <3> QED
      BY <2>5, <3>1, <3>2
  <2>9. s.final = "allow" <=> reported = {}
    <3>1. s.final = "allow" <=> SummaryAction(evaluations) = "allow"
      BY <2>1, <2>2, SummaryActionIs DEF ApplyMode
    <3> QED
      BY <2>1, <2>5, <3>1, SummaryActionIs
  <2> QED
    BY <2>6, <2>7, <2>8, <2>9
<1>2. IInv => SummaryAgreesWithEvents
  BY <1>1 DEF SummaryAgreesWithEvents
<1> QED
  BY <1>2, Invariance, PTL

\* Unless a match was left to the compensating path, the summary ends on the
\* action that evaluate() enforces: both aggregate the same matches, in two
\* places of the code.
SummaryIsTheVerdict ==
  audit # Nothing /\ audit.summary # Nothing /\ Compensated(evaluations) = {} =>
    audit.summary.final = ApplyMode(mode, raw)

THEOREM SummaryTellsTheVerdict == Spec => []SummaryIsTheVerdict
<1>1. ASSUME IInv, audit # Nothing, audit.summary # Nothing, Compensated(evaluations) = {}
      PROVE  audit.summary.final = ApplyMode(mode, raw)
  <2>1. Matched(evaluations) = {i \in Emittable(evaluations) : evaluations[i].matched}
    BY <1>1 DEF Matched, Emittable, Compensated
  <2>2. raw = SummaryAction(evaluations)
    BY <1>1, <2>1 DEF IInv, RawIsStrictest, SummaryAction
  <2> QED
    BY <1>1, <2>2, SummaryCounts
<1>2. IInv => SummaryIsTheVerdict
  BY <1>1 DEF SummaryIsTheVerdict
<1> QED
  BY <1>2, Invariance, PTL

-----------------------------------------------------------------------------
(* Who writes a verdict                                                    *)

\* What TracedOnce compares, told by the code's own test for fallback rules.
LEMMA WrittenBy ==
  ASSUME IInv, audit # Nothing
  PROVE  /\ {e.of : e \in audit.events} =
              IF "audit_manager" \in injected THEN Emittable(evaluations) ELSE {}
         /\ {f.of : f \in audit.dispatched} \subseteq Compensated(evaluations)
<1>1. audit = Audit(mode, injected, evaluations, skipped)
  BY DEF IInv
<1>2. {e.of : e \in audit.events} =
        IF "audit_manager" \in injected THEN Emittable(evaluations) ELSE {}
  <2> DEFINE E == IF "audit_manager" \in injected THEN Emittable(evaluations) ELSE {}
  <2>1. audit.events = {RuleEvent(evaluations, i) : i \in E}
    BY <1>1 DEF Audit
  <2>2. \A i \in E : RuleEvent(evaluations, i).of = i
    BY DEF RuleEvent
  <2> HIDE DEF E
  <2>3. {e.of : e \in audit.events} = E
    BY <2>1, <2>2
  <2> QED
    BY <2>3 DEF E
<1>3. ASSUME NEW f \in audit.dispatched PROVE f.of \in Compensated(evaluations)
  <2>1. f \in FiredRules(evaluations)
    BY <1>1 DEF Audit
  <2> QED
    BY <2>1 DEF FiredRules, Compensated, IsFallback
<1> QED
  BY <1>2, <1>3

\* A plain fallback rule that matched has its guardrail dispatched: the check
\* that matched has the one condition of the rule, which holds.
LEMMA PlainFallbackFires ==
  ASSUME NEW r \in Rules, Evaluation(r).matched, PlainFallback(r)
  PROVE  \E c \in Conditions(r) : c.fallback /\ c.result /\ c.validator
<1>1. PICK c \in Conditions(r) :
        Conditions(r) = {c} /\ c.fallback /\ ~c.negate /\ c.validator
  BY DEF PlainFallback
<1>2. r.checks # {}
  BY <1>1 DEF Conditions
<1>3. PICK k \in r.checks : CheckMatches(k)
  BY <1>2 DEF Evaluation
<1>4. k.conditions = {c}
  BY <1>1, <1>3 DEF Conditions, PlainFallback
<1>5. Holds(c)
  BY <1>3, <1>4 DEF CheckMatches
<1>6. c.result \in BOOLEAN /\ c.negate \in BOOLEAN
  BY <1>3, <1>4, RulesAssumption
<1>7. c.result
  BY <1>1, <1>5, <1>6 DEF Holds
<1> QED
  BY <1>1, <1>7

\* With a compensator the guardrail of every plain fallback rule that matched
\* is dispatched.
LEMMA PlainAreDispatched ==
  ASSUME IInv, audit # Nothing, "compensator" \in injected,
         NEW i \in Compensated(evaluations), PlainFallback(evaluations[i].rule)
  PROVE  \E f \in audit.dispatched : f.of = i
<1>1. i \in DOMAIN evaluations /\ evaluations[i].matched
  BY DEF Compensated
<1>2. PICK q \in Rules : evaluations[i] = Evaluation(q)
  BY <1>1 DEF IInv, Verdicts
<1>3. evaluations[i].rule = q
  BY <1>2, EvaluationDenies
<1>4. PICK c \in Conditions(q) : c.fallback /\ c.result /\ c.validator
  BY <1>1, <1>2, <1>3, PlainFallbackFires
<1>5. [of |-> i, condition |-> c] \in FiredRules(evaluations)
  BY <1>1, <1>3, <1>4 DEF FiredRules
<1>6. audit.dispatched = FiredRules(evaluations)
  BY DEF IInv, Audit
<1> QED
  BY <1>5, <1>6

\* For every policy: no verdict is written twice; the evaluator writes every
\* match of a rule without a guardrail, the compensating path every match of a
\* plain fallback rule, as many as the hook summary says it does.
THEOREM EveryVerdictIsTracedOnce == Spec => []TracedOnce
<1>1. ASSUME IInv, audit # Nothing
      PROVE  LET traced     == {e.of : e \in audit.events}
                 dispatched == {f.of : f \in audit.dispatched}
                 matched    == {i \in DOMAIN evaluations : evaluations[i].matched}
                 fallback   == {i \in matched : IsFallback(evaluations[i].rule)}
                 plain      == {i \in fallback : PlainFallback(evaluations[i].rule)}
             IN  /\ traced \cap dispatched = {}
                 /\ "audit_manager" \in injected => matched \ fallback \subseteq traced
                 /\ "compensator" \in injected =>
                      /\ plain \subseteq dispatched
                      /\ audit.summary # Nothing /\ fallback = plain =>
                           audit.summary.guardrails = Cardinality(dispatched)
  <2> DEFINE traced     == {e.of : e \in audit.events}
             dispatched == {f.of : f \in audit.dispatched}
             matched    == {i \in DOMAIN evaluations : evaluations[i].matched}
             fallback   == {i \in matched : IsFallback(evaluations[i].rule)}
             plain      == {i \in fallback : PlainFallback(evaluations[i].rule)}
  <2>1. fallback = Compensated(evaluations)
    BY DEF Compensated
  <2>2. /\ traced = IF "audit_manager" \in injected THEN Emittable(evaluations) ELSE {}
        /\ dispatched \subseteq fallback
    BY <1>1, <2>1, WrittenBy
  <2>3. fallback \cap Emittable(evaluations) = {}
        /\ matched \ fallback \subseteq Emittable(evaluations)
    BY DEF Emittable
  <2>4. ASSUME "compensator" \in injected PROVE plain \subseteq dispatched
    BY <1>1, <2>1, <2>4, PlainAreDispatched
  <2>5. ASSUME "compensator" \in injected, audit.summary # Nothing, fallback = plain
        PROVE  audit.summary.guardrails = Cardinality(dispatched)
    <3>1. audit.summary.guardrails = Cardinality(Compensated(evaluations))
      BY <1>1, <2>5, SummaryCounts
    <3>2. dispatched = Compensated(evaluations)
      BY <2>1, <2>2, <2>4, <2>5
    <3> QED
      BY <3>1, <3>2
  <2> HIDE DEF traced, dispatched, matched, fallback, plain
  <2>6. traced \cap dispatched = {}
    BY <2>2, <2>3
  <2>7. "audit_manager" \in injected => matched \ fallback \subseteq traced
    BY <2>2, <2>3
  <2> QED
    BY <2>4, <2>5, <2>6, <2>7 DEF traced, dispatched, matched, fallback, plain
<1>2. IInv => TracedOnce
  BY <1>1 DEF TracedOnce
<1> QED
  BY <1>2, Invariance, PTL
=============================================================================
