------------------------------ MODULE Streams -------------------------------
(***************************************************************************)
(* Runtimes wrapped around an agent, each an async generator that consumes *)
(* the stream of the one inside it and yields results to the one outside.  *)
(* One layer runs at a time: a layer that yielded waits until its consumer *)
(* asks for the next event, and a consumer that leaves its loop drops the  *)
(* streams inside.  Events other than results change no state and are left *)
(* out.                                                                    *)
(*                                                                         *)
(* The innermost layer is the agent with its UiPathResumableRuntime, whose *)
(* promises (module Resumable) are used here: a suspension lists every     *)
(* interrupt the agent waits on, and a resume may pick up fired triggers.  *)
(***************************************************************************)
EXTENDS Naturals, Sequences

CONSTANTS
  Interrupts, \* interrupt ids the agent may use
  Api,        \* those with an API trigger: a chat user can answer them
  MaxBreaks   \* bound: breakpoint hits of the agent

ASSUME ApiAssumption == Api \subseteq Interrupts
ASSUME MaxBreaksAssumption == MaxBreaks \in Nat

VARIABLES
  stack,    \* the layers, outermost first; "agent" is the last
  pc,       \* layer -> where its stream is
  yields,   \* layer -> result it has yielded and its consumer has not taken
  args,     \* layer -> its current input and options
  open,     \* interrupts the agent is waiting on
  answered, \* interrupts whose answer it has received
  fired,    \* interrupts whose trigger fired
  first,    \* interrupt of result.trigger, in the last suspension
  result,   \* the agent's last result
  breaks    \* breakpoints so far

agentVars == <<open, answered, first, result, breaks>>
streamVars == <<stack, pc, yields, args, agentVars, fired>>

Layers == {"debug", "chat", "agent"}
Results == {"suspended", "breakpoint", "successful", "faulted"}
HasLayer(l) == \E k \in DOMAIN stack : stack[k] = l
Depth(l) == CHOOSE k \in DOMAIN stack : stack[k] = l
Inner(l) == stack[Depth(l) + 1]

\* What a call of stream() passes on: the interrupts the input answers, the
\* resume option and whether breakpoints are set.
NoArgs == [input |-> {}, resume |-> FALSE, stops |-> FALSE]

StreamsInit ==
  /\ pc = [l \in Layers |-> "off"]
  /\ yields = [l \in Layers |-> "none"]
  /\ args = [l \in Layers |-> NoArgs]
  /\ open = {} /\ answered = {} /\ fired = {}
  /\ first \in Interrupts
  /\ result = "none" /\ breaks = 0

Start(l) == CASE l = "debug" -> "connecting" [] l = "chat" -> "calling"
              [] l = "agent" -> "running"

\* Layer l goes from `from` to `to` and calls the stream of the layer inside.
CallInner(l, from, to, a) ==
  /\ pc[l] = from
  /\ pc' = [pc EXCEPT ![l] = to, ![Inner(l)] = Start(Inner(l))]
  /\ args' = [args EXCEPT ![Inner(l)] = a]

\* The layers inside l after l has left its loop over their stream.
Dropped(l, f, value) ==
  [m \in Layers |-> IF HasLayer(m) /\ Depth(m) > Depth(l) THEN value ELSE f[m]]

-----------------------------------------------------------------------------
(* The agent                                                               *)

\* One pass of the agent, which takes the answers A: those of the input, or
\* without one those of fired triggers.  A call that does not resume starts it
\* afresh, whatever it was waiting on.
Pass(New, A) ==
  LET a == args["agent"]
      left == IF a.resume THEN open \ A ELSE {} IN
  /\ pc["agent"] = "running"
  /\ IF a.input # {} THEN A = a.input \cap open ELSE A \subseteq open \cap fired
  /\ New \subseteq Interrupts \ (open \cup answered)
  /\ open' = left \cup New
  /\ answered' = IF a.resume THEN answered \cup A ELSE {}
  /\ args' = [args EXCEPT !["agent"] = [@ EXCEPT !.input = {}, !.resume = TRUE]]
  /\ pc' = [pc EXCEPT !["agent"] = "handling"]
  /\ UNCHANGED <<stack, yields, first, result, breaks, fired>>

\* Triggers of what it waits on have fired meanwhile: it runs on with them.
PicksUp(F) ==
  /\ pc["agent"] = "handling"
  /\ F # {} /\ F \subseteq open \cap fired
  /\ args' = [args EXCEPT !["agent"].input = F]
  /\ pc' = [pc EXCEPT !["agent"] = "running"]
  /\ UNCHANGED <<stack, yields, agentVars, fired>>

\* Otherwise the result of the pass, whose kind matters only now, is handed on.
HandsOn(kind) ==
  /\ pc["agent"] = "handling"
  /\ \/ kind = "suspended" /\ open # {} /\ first' \in open /\ UNCHANGED breaks
     \/ kind = "breakpoint" /\ args["agent"].stops /\ breaks < MaxBreaks
        /\ breaks' = breaks + 1 /\ UNCHANGED first
     \/ kind = "successful" /\ open = {} /\ UNCHANGED <<first, breaks>>
     \/ kind = "faulted" /\ UNCHANGED <<first, breaks>>
  /\ result' = kind
  /\ yields' = [yields EXCEPT !["agent"] = kind]
  /\ pc' = [pc EXCEPT !["agent"] = "yielding"]
  /\ UNCHANGED <<stack, args, open, answered, fired>>

\* Asked for the next event, the agent has none.
AgentEnds ==
  /\ pc["agent"] = "yielding" /\ yields["agent"] = "none"
  /\ pc' = [pc EXCEPT !["agent"] = "ended"]
  /\ UNCHANGED <<stack, yields, args, agentVars, fired>>

Fire(i) ==
  /\ i \in open \ fired
  /\ fired' = fired \cup {i}
  /\ UNCHANGED <<stack, pc, yields, args, agentVars>>
-----------------------------------------------------------------------------
\* The places of the three kinds of stream, and the types of what they share.
Places == {"off", "connecting", "waiting", "calling", "consuming", "yielding", "paused",
           "replying", "polling", "quitting", "leaving", "closing", "asking",
           "running", "handling", "ended"}

StreamsTypeOK ==
  /\ pc \in [Layers -> Places]
  /\ yields \in [Layers -> Results \cup {"none"}]
  /\ args \in [Layers -> [input : SUBSET Interrupts, resume : BOOLEAN, stops : BOOLEAN]]
  /\ open \subseteq Interrupts /\ answered \subseteq Interrupts
  /\ fired \subseteq Interrupts /\ first \in Interrupts
  /\ result \in Results \cup {"none"} /\ breaks \in 0..MaxBreaks
=============================================================================
