---------------------------- MODULE MCGovernance ----------------------------
(* Instances of Governance for TLC: rules without checks, with one check,   *)
(* with two checks of different actions, fallback rules as packs write them *)
(* or without a validator, and fallback rules with a sibling condition.     *)
EXTENDS Governance

Text(result) ==
  [fallback |-> FALSE, result |-> result, negate |-> FALSE, validator |-> FALSE]
Guardrail(result, negate, validator) ==
  [fallback |-> TRUE, result |-> result, negate |-> negate, validator |-> validator]
Check(action, logic, conditions) ==
  [action |-> action, logic |-> logic, conditions |-> conditions]
Rule(action, checks) == [enabled |-> TRUE, action |-> action, checks |-> checks]

MCRules ==
  {[enabled |-> FALSE, action |-> "deny", checks |-> {}]}
  \cup {Rule(a, {}) : a \in Actions}
  \cup {Rule("deny", {Check("deny", logic, S)}) :
          logic \in {"any", "all"}, S \in {{}, {Text(FALSE)}, {Text(TRUE), Text(FALSE)}}}
  \cup {Rule("deny", {Check("deny", "all", {Text(b)}), Check(a, "any", {Text(TRUE)})}) :
          b \in BOOLEAN, a \in Actions \ {"deny"}}
  \cup {Rule(a, {Check(a, "all", {Guardrail(b, n, v)})}) :
          a \in {"deny", "audit"}, b \in BOOLEAN, n \in BOOLEAN, v \in BOOLEAN}
  \cup {Rule("deny", {Check("deny", logic, {Guardrail(b, FALSE, TRUE), Text(TRUE)})}) :
          logic \in {"any", "all"}, b \in BOOLEAN}
=============================================================================
