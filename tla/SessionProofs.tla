---------------------------- MODULE SessionProofs ----------------------------
(***************************************************************************)
(* Proofs about Session, for any interrupts, API triggers, waited types,   *)
(* polling setting and number of breakpoints, in the four nestings.        *)
(***************************************************************************)
EXTENDS Session, TLAPS

DebugAlone == <<"debug", "agent">>
ChatAlone == <<"chat", "agent">>
Outermost == IF stack \in {DebugAlone, ChatInside} THEN "debug" ELSE "chat"

\* Whether the stream of a layer is under way.
Live(l) == pc[l] \notin {"off", "ended"}

\* The stream each wrapper consumes is under way, and what it offers.
DebugConsumes == IF stack = ChatInside THEN Live("chat") ELSE Live("agent")
ChatConsumes == IF stack = ChatOutside THEN Live("debug") ELSE Live("agent")
ToDebug == IF stack = ChatInside THEN yields["chat"] ELSE yields["agent"]
ToChat == IF stack = ChatOutside THEN yields["debug"] ELSE yields["agent"]

\* A stream is only under way inside one that consumes it.
Nested ==
  /\ stack = DebugAlone => pc["chat"] = "off"
  /\ stack = ChatAlone => pc["debug"] = "off"
  /\ stack # ChatAlone /\ DebugConsumes =>
       pc["debug"] \in {"consuming", "yielding", "paused", "replying", "polling",
                       "quitting"}
  /\ stack # DebugAlone /\ ChatConsumes =>
       pc["chat"] \in {"consuming", "asking", "yielding"}
  /\ Live(Outermost) => host = "draining"
  /\ host = "done" /\ ~failed => pc[Outermost] = "ended"
  /\ pc["agent"] \in {"off", "running", "handling", "yielding", "ended"}
  /\ pc["chat"] \in {"off", "calling", "consuming", "asking", "yielding", "ended"}
  /\ pc["debug"] \notin {"running", "handling", "asking"}

\* What a wrapper handles is what the stream inside has offered, up to the agent.
Offering ==
  /\ yields["agent"] # "none" => pc["agent"] = "yielding" /\ yields["agent"] = result
  /\ yields["chat"] # "none" => pc["chat"] = "yielding" /\ yields["chat"] = ToChat
  /\ yields["debug"] # "none" =>
       \/ pc["debug"] = "yielding" /\ yields["debug"] = ToDebug
       \/ pc["debug"] \in {"quitting", "leaving"} /\ yields["debug"] = "successful"
  /\ pc["debug"] \in {"yielding", "paused", "replying", "polling", "quitting"} =>
       ToDebug # "none"
  /\ pc["chat"] \in {"asking", "yielding"} => ToChat # "none"
  /\ pc["debug"] = "paused" => ToDebug = "breakpoint"
  /\ pc["debug"] \in {"replying", "polling"} => ToDebug = "suspended"
  /\ pc["chat"] = "asking" => ToChat = "suspended"
  /\ yields["agent"] = "suspended" => first \in open

\* The last event of the stream inside has been taken: it will only end.
AgentSpent == pc["agent"] \notin AgentAtWork /\ yields["agent"] = "none"
ChatSpent ==
  \/ pc["chat"] \in {"off", "ended"}
  \/ pc["chat"] = "yielding" /\ yields["chat"] = "none"
  \/ pc["chat"] = "consuming" /\ over
DebugSees == IF stack = ChatInside THEN ChatSpent ELSE AgentSpent

\* The loops of the wrappers know whether the stream inside is spent.
Turns ==
  /\ stack # ChatOutside =>
       /\ pc["chat"] = "consuming" => (over <=> AgentSpent)
       /\ pc["chat"] = "asking" => ~over
  /\ mode = "attended" =>
       /\ pc["debug"] \in {"waiting", "calling", "yielding"} => ~completed
       /\ pc["debug"] = "consuming" /\ completed => DebugSees
  /\ pc["debug"] \in {"paused", "replying", "polling"} => mode = "attended" /\ ~completed

\* Arguments a pass of the agent can be started with, and those a wrapper hands
\* on: with answers exactly when the agent was suspended.
Good(l) == args[l].input \subseteq open /\ (result # "none" => args[l].resume)
Fitting(l) == Good(l) /\ (args[l].input # {} <=> result = "suspended")

\* They stay so from the answer to the pass it is for.
Fresh ==
  /\ pc["agent"] = "running" => Good("agent")
  /\ pc["agent"] = "handling" => args["agent"].resume /\ (streams \/ mode = "fallback")
  /\ pc["chat"] = "calling" => Fitting("chat")
  /\ pc["debug"] \in {"connecting", "waiting", "calling"} => Fitting("debug")
  /\ stack \in {DebugAlone, ChatOutside} /\ pc["agent"] = "running" /\ ~streams
         /\ mode # "fallback" =>
       /\ Good("debug")
       /\ args["agent"].input = args["debug"].input /\ args["agent"].resume = args["debug"].resume
  /\ pc["debug"] = "consuming" /\ ~completed /\ DebugSees => Fitting("debug")
  /\ pc["chat"] = "asking" => replies \cup toAsk # {} /\ replies \cup toAsk \subseteq open
  /\ host = "idle" => /\ result = "none" /\ ~quit
                      /\ \A l \in Layers : args[l] = NoArgs

\* An agent that has not been started yet waits on nothing.
Starting ==
  result = "none" /\ ~failed
      /\ (pc["agent"] \in AgentAtWork => pc["agent"] = "running" /\ ~args["agent"].resume) =>
    open = {} /\ answered = {}

\* After a quit the streams only unwind.
Quitting ==
  /\ pc["debug"] \in {"quitting", "leaving"} => quit
  /\ quit =>
       /\ completed /\ stack # ChatAlone
       /\ pc["debug"] \in {"quitting", "leaving", "consuming", "closing",
                            "ended", "off"}
       /\ pc["debug"] = "consuming" => DebugSees
       /\ stack = ChatOutside => /\ pc["chat"] \notin {"calling", "asking"}
                                 /\ yields["debug"] \in {"none", "successful"}

\* A reply is with the agent or on its way to it.
Answering ==
  /\ stack = DebugAlone => replies = {}
  /\ result = "none" => replies = {}
  /\ stack # ChatOutside /\ ~failed =>
       \/ replies \subseteq answered
       \/ pc["chat"] = "asking"
       \/ pc["chat"] = "calling" /\ replies \subseteq args["chat"].input
       \/ pc["agent"] = "running" /\ replies \subseteq args["agent"].input

\* Breakpoints are only set while there is somebody to resume from them.
Stopping ==
  /\ ~args["debug"].stops
  /\ stack # ChatInside => ~args["chat"].stops
  /\ stack = ChatAlone => ~args["agent"].stops /\ result # "breakpoint"
  /\ pc["debug"] = "quitting" => mode = "attended"
  /\ mode # "attended" /\ pc["debug"] \in {"consuming", "yielding"} =>
       /\ pc["agent"] \in AgentAtWork => ~args["agent"].stops
       /\ stack = ChatInside
              /\ pc["chat"] \in {"calling", "consuming", "asking", "yielding"} =>
            ~args["chat"].stops
       /\ yields["agent"] # "breakpoint"

\* What the host has seen when the outermost loop is over.
Heard == IF quit THEN seen = "successful" ELSE seen = result /\ result # "breakpoint"

Telling ==
  /\ stack \in {DebugAlone, ChatInside} =>
       /\ pc["debug"] = "yielding" /\ yields["debug"] = "none" => seen = ToDebug
       /\ quit /\ yields["debug"] = "none" /\ pc["debug"] # "off" => seen = "successful"
       /\ pc["debug"] = "consuming" /\ completed /\ DebugSees => Heard
       /\ pc["debug"] \in {"closing", "ended"} => Heard
  /\ stack = ChatAlone =>
       /\ pc["chat"] = "yielding" /\ yields["chat"] = "none" => seen = result
       /\ pc["chat"] = "consuming" /\ over => seen = result
       /\ pc["chat"] = "ended" => seen = result

\* A finished agent is not run again, and its end is on the way to the chat.
Finishing ==
  /\ result \in {"successful", "faulted"} =>
       /\ ~quit /\ pc["agent"] \notin AgentAtWork
       /\ pc["chat"] \notin {"calling", "asking"}
       /\ pc["debug"] \notin {"connecting", "waiting", "calling", "paused", "replying",
                             "polling"}
       /\ pc["debug"] = "consuming" /\ DebugSees => completed
  /\ result = "successful" /\ stack # DebugAlone /\ ~failed /\ exchange # "ended" =>
       \/ pc["chat"] = "yielding"
       \/ /\ pc["chat"] = "consuming"
          /\ \/ ToChat # "none"
             \/ stack = ChatOutside /\ pc["debug"] = "consuming" /\ ToDebug # "none"
  /\ exchange = "ended" => result = "successful" \/ quit

IInv ==
  /\ TypeOK /\ Nested /\ Offering /\ Turns /\ Fresh /\ Starting
  /\ Quitting /\ Answering /\ Stopping /\ Telling /\ Finishing
-----------------------------------------------------------------------------
USE ApiAssumption, MaxBreaksAssumption, WaitedAssumption, PollingAssumption DEF AgentAtWork

\* The stacks differ, and the wrappers' neighbours are those the invariant names.
LEMMA Distinct ==
  /\ DebugAlone # ChatAlone /\ DebugAlone # ChatOutside /\ DebugAlone # ChatInside
  /\ ChatAlone # ChatOutside /\ ChatAlone # ChatInside /\ ChatOutside # ChatInside
BY DEF DebugAlone, ChatAlone, ChatOutside, ChatInside

\* Of the four nestings, which stream each wrapper consumes.
LEMMA Wiring ==
  ASSUME stack \in Stacks
  PROVE  /\ stack \in {DebugAlone, ChatAlone, ChatOutside, ChatInside}
         /\ HasLayer("debug") <=> stack # ChatAlone
         /\ HasLayer("chat") <=> stack # DebugAlone
         /\ stack # ChatAlone =>
              Inner("debug") = IF stack = ChatInside THEN "chat" ELSE "agent"
         /\ stack # DebugAlone =>
              Inner("chat") = IF stack = ChatOutside THEN "debug" ELSE "agent"
         /\ Top = Outermost
         /\ DebugsTheAgent <=> stack \in {DebugAlone, ChatOutside}
         /\ stack # DebugAlone =>
              \A m \in Layers : HasLayer(m) /\ Depth(m) > Depth("chat")
                 <=> m = "agent" \/ (m = "debug" /\ stack = ChatOutside)
<1>0. stack \in {DebugAlone, ChatAlone, ChatOutside, ChatInside}
  BY DEF Stacks, DebugAlone, ChatAlone
<1>1. CASE stack = DebugAlone
  <2>1. DOMAIN stack = {1, 2} /\ stack[1] = "debug" /\ stack[2] = "agent"
    BY <1>1 DEF DebugAlone
  <2>2. Depth("debug") = 1
    BY <2>1 DEF Depth
  <2>3. Inner("debug") = "agent" /\ ~HasLayer("chat") /\ HasLayer("debug")
    BY <2>1, <2>2 DEF HasLayer, Inner
  <2>4. Top = Outermost /\ DebugsTheAgent
    BY <1>1, <2>1 DEF Top, Outermost, DebugsTheAgent, DebugAlone
  <2> QED
    BY <1>0, <1>1, <2>3, <2>4, Distinct
<1>2. CASE stack = ChatAlone
  <2>1. DOMAIN stack = {1, 2} /\ stack[1] = "chat" /\ stack[2] = "agent"
    BY <1>2 DEF ChatAlone
  <2>2. Depth("chat") = 1 /\ Depth("agent") = 2
    BY <2>1 DEF Depth
  <2>3. Inner("chat") = "agent" /\ ~HasLayer("debug") /\ HasLayer("chat")
            /\ HasLayer("agent")
    BY <2>1, <2>2 DEF HasLayer, Inner
  <2>4. Top = Outermost
    BY <1>2, <2>1, Distinct DEF Top, Outermost
  <2>5. ~DebugsTheAgent
    BY <1>2, Distinct DEF DebugsTheAgent, DebugAlone, ChatOutside
  <2> QED
    BY <1>0, <1>2, <2>2, <2>3, <2>4, <2>5, Distinct DEF Layers
<1>3. CASE stack = ChatOutside
  <2>1. /\ DOMAIN stack = {1, 2, 3}
        /\ stack[1] = "chat" /\ stack[2] = "debug" /\ stack[3] = "agent"
    BY <1>3 DEF ChatOutside
  <2>2. Depth("chat") = 1 /\ Depth("debug") = 2 /\ Depth("agent") = 3
    BY <2>1 DEF Depth
  <2>3. Inner("chat") = "debug" /\ Inner("debug") = "agent"
    BY <2>1, <2>2 DEF Inner
  <2>4. HasLayer("debug") /\ HasLayer("chat") /\ HasLayer("agent")
    BY <2>1 DEF HasLayer
  <2>5. Top = Outermost
    BY <1>3, <2>1, Distinct DEF Top, Outermost
  <2>6. DebugsTheAgent
    BY <1>3 DEF DebugsTheAgent, ChatOutside
  <2> QED
    BY <1>0, <1>3, <2>2, <2>3, <2>4, <2>5, <2>6, Distinct DEF Layers
<1>4. CASE stack = ChatInside
  <2>1. /\ DOMAIN stack = {1, 2, 3}
        /\ stack[1] = "debug" /\ stack[2] = "chat" /\ stack[3] = "agent"
    BY <1>4 DEF ChatInside
  <2>2. Depth("debug") = 1 /\ Depth("chat") = 2 /\ Depth("agent") = 3
    BY <2>1 DEF Depth
  <2>3. Inner("chat") = "agent" /\ Inner("debug") = "chat"
    BY <2>1, <2>2 DEF Inner
  <2>4. HasLayer("debug") /\ HasLayer("chat") /\ HasLayer("agent")
    BY <2>1 DEF HasLayer
  <2>5. Top = Outermost
    BY <1>4, <2>1 DEF Top, Outermost
  <2>6. ~DebugsTheAgent
    BY <1>4, Distinct DEF DebugsTheAgent, DebugAlone, ChatOutside
  <2> QED
    BY <1>0, <1>4, <2>2, <2>3, <2>4, <2>5, <2>6, Distinct DEF Layers
<1> QED
  BY <1>0, <1>1, <1>2, <1>3, <1>4

\* The values of f at the three layers.
At(f, d, c, a) == f["debug"] = d /\ f["chat"] = c /\ f["agent"] = a

-----------------------------------------------------------------------------
(* One lemma per step: first what the step changes at the layers, with its   *)
(* definition open, then the parts of the invariant from that alone.         *)

\* The host starts the outermost stream with the fresh arguments.
LEMMA HostCallsKeeps ==
  ASSUME IInv, HostCalls
  PROVE  IInv'
<1> USE DEF HostCalls, Start, agentVars, debugVars, chatVars, hostVars, debugOnly
<1>1. TypeOK'
  <2>1. StreamsTypeOK'
    BY DEF IInv, TypeOK, StreamsTypeOK, Places, Layers
  <2> QED
    BY <2>1 DEF IInv, TypeOK, DebugTypeOK, ChatTypeOK
<1>2. /\ host = "idle" /\ host' = "draining"
      /\ stack \in {DebugAlone, ChatInside} => At(pc', "connecting", pc["chat"], pc["agent"])
      /\ stack \in {ChatAlone, ChatOutside} => At(pc', pc["debug"], "calling", pc["agent"])
      /\ UNCHANGED <<stack, streams, yields, args, open, answered, first, result,
                     mode, completed, quit, toAsk, replies, over, exchange,
                     seen, failed>>
  BY Wiring, Distinct DEF IInv, TypeOK, StreamsTypeOK, Nested, Layers, At,
       Outermost, ToDebug, ToChat
<1> HIDE DEF HostCalls, Start, agentVars, debugVars, chatVars, hostVars, debugOnly
<1>3. Nested'
  BY <1>2, Wiring DEF IInv, TypeOK, Nested, At, ChatConsumes, DebugConsumes, Live,
       Outermost
<1>4. Offering'
  BY <1>2, Wiring DEF IInv, TypeOK, Nested, Offering, At, ChatConsumes,
       DebugConsumes, Live, Outermost
<1>5. Turns'
  BY <1>2, Wiring DEF IInv, TypeOK, Turns, AgentSpent, At, DebugSees
<1>6. Fresh'
  BY <1>2, Wiring DEF IInv, TypeOK, Fresh, At, Fitting, Good, Layers, NoArgs
<1>7. Starting' /\ Answering'
  BY <1>2 DEF IInv, Nested, Starting, Answering, At, ChatConsumes, Live, Outermost
<1>8. Quitting'
  BY <1>2, Wiring DEF IInv, TypeOK, Fresh, Quitting, At
<1>9. Stopping'
  BY <1>2, Wiring DEF IInv, TypeOK, Stopping, At
<1>10. Telling'
  BY <1>2 DEF IInv, Fresh, Telling, At
<1>11. Finishing'
  BY <1>2 DEF IInv, Fresh, Finishing
<1> QED
  BY <1>1, <1>3, <1>4, <1>5, <1>6, <1>7, <1>8, <1>9, <1>10, <1>11 DEF IInv

\* The host takes what the outermost stream offers.
LEMMA HostTakesKeeps ==
  ASSUME IInv, HostTakes
  PROVE  IInv'
<1> USE DEF HostTakes, agentVars, debugVars, chatVars, hostVars, debugOnly
<1>1. TypeOK'
  <2>1. seen' \in Results \cup {"none"}
    BY Wiring DEF IInv, TypeOK, StreamsTypeOK, Layers, Outermost
  <2>2. StreamsTypeOK'
    BY DEF IInv, TypeOK, StreamsTypeOK
  <2> QED
    BY <2>1, <2>2 DEF IInv, TypeOK, DebugTypeOK, ChatTypeOK
<1>2. /\ stack \in {DebugAlone, ChatInside} => yields["debug"] # "none"
             /\ seen' = yields["debug"] /\ At(yields', "none", yields["chat"], yields["agent"])
      /\ stack \in {ChatAlone, ChatOutside} =>
           /\ yields["chat"] # "none" /\ seen' = yields["chat"]
           /\ At(yields', yields["debug"], "none", yields["agent"])
      /\ UNCHANGED <<stack, streams, pc, args, open, answered, first, result, mode,
                     completed, quit, toAsk, replies, over, exchange, host,
                     failed>>
  BY Wiring, Distinct DEF IInv, TypeOK, StreamsTypeOK, Nested, Layers, At,
       Outermost, ToDebug, ToChat
<1> HIDE DEF HostTakes, agentVars, debugVars, chatVars, hostVars, debugOnly
<1>3. Starting' /\ Answering'
  BY <1>2 DEF IInv, Starting, Answering
<1>4. Nested'
  BY <1>2 DEF IInv, Nested, ChatConsumes, DebugConsumes, Live, Outermost
<1>5. Offering'
  BY <1>2, Wiring DEF IInv, TypeOK, Offering, At, ToChat, ToDebug
<1>6. Turns' /\ Quitting'
  BY <1>2, Wiring DEF IInv, TypeOK, Turns, Quitting, AgentSpent, At, ChatSpent,
       DebugSees
<1>7. Fresh'
  BY <1>2, Wiring DEF IInv, TypeOK, Fresh, AgentSpent, At, ChatSpent, DebugSees,
       Fitting, Good
<1>8. Stopping'
  BY <1>2, Wiring DEF IInv, TypeOK, Stopping, At
<1>9. Telling'
  BY <1>2 DEF IInv, Offering, Quitting, Telling, At, ToChat, ToDebug
<1>10. Finishing'
  BY <1>2, Wiring DEF IInv, TypeOK, Finishing, AgentSpent, At, ChatSpent, DebugSees,
       ToChat, ToDebug
<1> QED
  BY <1>1, <1>3, <1>4, <1>5, <1>6, <1>7, <1>8, <1>9, <1>10 DEF IInv

\* The outermost stream has ended.
LEMMA HostDoneKeeps ==
  ASSUME IInv, HostDone
  PROVE  IInv'
<1> USE DEF HostDone, agentVars, debugVars, chatVars, hostVars, debugOnly,
     streamVars
<1>1. TypeOK'
  <2>1. StreamsTypeOK'
    BY DEF IInv, TypeOK, StreamsTypeOK
  <2> QED
    BY <2>1 DEF IInv, TypeOK, DebugTypeOK, ChatTypeOK
<1>2. /\ pc[Outermost] = "ended" /\ host' = "done"
      /\ UNCHANGED <<stack, streams, pc, yields, args, open, answered, first, result,
                     mode, completed, quit, toAsk, replies, over, exchange,
                     seen, failed>>
  BY Wiring DEF IInv, TypeOK
<1> HIDE DEF HostDone, agentVars, debugVars, chatVars, hostVars, debugOnly,
     streamVars
<1>3. Starting' /\ Answering' /\ Stopping'
  BY <1>2 DEF IInv, Starting, Answering, Stopping
<1>4. Nested'
  BY <1>2 DEF IInv, Nested, ChatConsumes, DebugConsumes, Live, Outermost
<1>5. Offering'
  BY <1>2 DEF IInv, Offering, ToChat, ToDebug
<1>6. Turns' /\ Quitting'
  BY <1>2 DEF IInv, Turns, Quitting, AgentSpent, ChatSpent, DebugSees
<1>7. Fresh'
  BY <1>2 DEF IInv, Fresh, AgentSpent, ChatSpent, DebugSees, Fitting, Good
<1>8. Telling'
  BY <1>2 DEF IInv, Telling, AgentSpent, ChatSpent, DebugSees, Heard, ToDebug
<1>9. Finishing'
  BY <1>2 DEF IInv, Finishing, AgentSpent, ChatSpent, DebugSees, ToChat, ToDebug
<1> QED
  BY <1>1, <1>3, <1>4, <1>5, <1>6, <1>7, <1>8, <1>9 DEF IInv

\* The debugger connects, attended or not.
LEMMA ConnectKeeps ==
  ASSUME IInv, Connect /\ UNCHANGED <<chatVars, hostVars>>
  PROVE  IInv'
<1> USE DEF Connect, Goes, agentVars, debugVars, chatVars, hostVars, debugOnly
<1>1. TypeOK'
  <2>1. StreamsTypeOK'
    BY DEF IInv, TypeOK, StreamsTypeOK, Places, Layers
  <2> QED
    BY <2>1 DEF IInv, TypeOK, DebugTypeOK, ChatTypeOK
<1>2. /\ pc["debug"] = "connecting" /\ At(pc', "waiting", pc["chat"], pc["agent"])
      /\ mode' = "attended" /\ ~completed'
      /\ UNCHANGED <<stack, streams, yields, args, open, answered, first, result,
                     quit, toAsk, replies, over, exchange, host, seen,
                     failed>>
  BY Wiring DEF IInv, TypeOK, StreamsTypeOK, Layers, At, Outermost
<1> HIDE DEF Connect, Goes, agentVars, debugVars, chatVars, hostVars, debugOnly
<1>3. Starting' /\ Quitting' /\ Answering' /\ Stopping' /\ Telling' /\ Finishing'
  BY <1>2 DEF IInv, Starting, Quitting, Answering, Stopping, Telling, Finishing, At
<1>4. Nested'
  BY <1>2 DEF IInv, Nested, At, ChatConsumes, DebugConsumes, Live, Outermost
<1>5. Offering'
  BY <1>2 DEF IInv, Offering, At, ToChat
<1>6. Turns'
  BY <1>2 DEF IInv, Turns, AgentSpent, At
<1>7. Fresh'
  BY <1>2, Distinct DEF IInv, Nested, Fresh, At, ChatConsumes, DebugConsumes,
       Fitting, Good, Live
<1> QED
  BY <1>1, <1>3, <1>4, <1>5, <1>6, <1>7 DEF IInv

\* The first resume command: a pass may begin.
LEMMA InitialResumeKeeps ==
  ASSUME IInv, InitialResume /\ UNCHANGED <<chatVars, hostVars>>
  PROVE  IInv'
<1> USE DEF InitialResume, Goes, agentVars, debugVars, chatVars, hostVars,
     debugOnly
<1>1. TypeOK'
  <2>1. StreamsTypeOK'
    BY DEF IInv, TypeOK, StreamsTypeOK, Places, Layers
  <2> QED
    BY <2>1 DEF IInv, TypeOK, DebugTypeOK, ChatTypeOK
<1>2. /\ pc["debug"] = "waiting" /\ At(pc', "calling", pc["chat"], pc["agent"])
      /\ UNCHANGED <<stack, streams, yields, args, open, answered, first, result,
                     mode, completed, quit, toAsk, replies, over, exchange,
                     host, seen, failed>>
  BY Wiring DEF IInv, TypeOK, StreamsTypeOK, Layers, At, Outermost
<1> HIDE DEF InitialResume, Goes, agentVars, debugVars, chatVars, hostVars,
     debugOnly
<1>3. Starting' /\ Quitting' /\ Answering' /\ Stopping' /\ Telling' /\ Finishing'
  BY <1>2 DEF IInv, Starting, Quitting, Answering, Stopping, Telling, Finishing, At
<1>4. Nested'
  BY <1>2 DEF IInv, Nested, At, ChatConsumes, DebugConsumes, Live, Outermost
<1>5. Offering'
  BY <1>2 DEF IInv, Offering, At, ToChat
<1>6. Turns'
  BY <1>2 DEF IInv, Turns, AgentSpent, At
<1>7. Fresh'
  BY <1>2 DEF IInv, Fresh, At, Fitting, Good
<1> QED
  BY <1>1, <1>3, <1>4, <1>5, <1>6, <1>7 DEF IInv

\* Nobody resumed in time: breakpoints are off from here.
LEMMA InitialTimeoutKeeps ==
  ASSUME IInv, InitialTimeout /\ UNCHANGED <<chatVars, hostVars>>
  PROVE  IInv'
<1> USE DEF InitialTimeout, Goes, agentVars, debugVars, chatVars, hostVars,
     debugOnly
<1>1. TypeOK'
  <2>1. StreamsTypeOK'
    BY DEF IInv, TypeOK, StreamsTypeOK, Places, Layers
  <2> QED
    BY <2>1 DEF IInv, TypeOK, DebugTypeOK, ChatTypeOK
<1>2. /\ pc["debug"] = "waiting" /\ At(pc', "calling", pc["chat"], pc["agent"])
      /\ mode' = "unattended" /\ completed'
      /\ UNCHANGED <<stack, streams, yields, args, open, answered, first, result,
                     quit, toAsk, replies, over, exchange, host, seen,
                     failed>>
  BY Wiring DEF IInv, TypeOK, StreamsTypeOK, Layers, At, Outermost
<1> HIDE DEF InitialTimeout, Goes, agentVars, debugVars, chatVars, hostVars,
     debugOnly
<1>3. Starting' /\ Quitting' /\ Answering' /\ Stopping' /\ Telling' /\ Finishing'
  BY <1>2 DEF IInv, Starting, Quitting, Answering, Stopping, Telling, Finishing, At
<1>4. Nested'
  BY <1>2 DEF IInv, Nested, At, ChatConsumes, DebugConsumes, Live, Outermost
<1>5. Offering'
  BY <1>2 DEF IInv, Offering, At, ToChat
<1>6. Turns'
  BY <1>2 DEF IInv, Turns, AgentSpent, At
<1>7. Fresh'
  BY <1>2, Distinct DEF IInv, Nested, Fresh, At, ChatConsumes, DebugConsumes,
       Fitting, Good, Live
<1> QED
  BY <1>1, <1>3, <1>4, <1>5, <1>6, <1>7 DEF IInv

\* The debug loop starts the stream inside with its own arguments.
LEMMA CallDelegateKeeps ==
  ASSUME IInv, CallDelegate /\ UNCHANGED <<chatVars, hostVars>>
  PROVE  IInv'
<1> USE DEF CallDelegate, CallInner, InnerArgs, Start, agentVars, debugVars,
     chatVars, hostVars, debugOnly
<1>1. TypeOK'
  <2>1. args["debug"] \in [input : SUBSET Interrupts, resume : BOOLEAN, stops : BOOLEAN]
    BY DEF IInv, TypeOK, StreamsTypeOK, Layers
  <2>2. StreamsTypeOK'
    BY <2>1 DEF IInv, TypeOK, StreamsTypeOK, Places, Layers
  <2> QED
    BY <2>2 DEF IInv, TypeOK, DebugTypeOK, ChatTypeOK
<1>2. /\ pc["debug"] = "calling" /\ stack # ChatAlone
      /\ stack = ChatInside => /\ At(pc', "consuming", "calling", pc["agent"])
                              /\ At(args', args["debug"], args["chat"]', args["agent"])
                              /\ args["chat"].input' = args["debug"].input
                              /\ args["chat"].resume' = args["debug"].resume
                              /\ args["chat"].stops' = (mode = "attended")
      /\ stack # ChatInside => /\ At(pc', "consuming", pc["chat"], "running")
                              /\ At(args', args["debug"], args["chat"], args["agent"]')
                              /\ args["agent"].input' = args["debug"].input
                              /\ args["agent"].resume' = args["debug"].resume
                              /\ args["agent"].stops' = (mode = "attended")
      /\ UNCHANGED <<stack, streams, yields, open, answered, first, result, mode,
                     completed, quit, toAsk, replies, over, exchange, host,
                     seen, failed>>
  BY Wiring, Distinct DEF IInv, TypeOK, StreamsTypeOK, Nested, Layers, At,
       Outermost, ToDebug, ToChat
<1> HIDE DEF CallDelegate, CallInner, InnerArgs, Start, agentVars, debugVars,
     chatVars, hostVars, debugOnly
<1>3. Quitting' /\ Finishing'
  BY <1>2 DEF IInv, Quitting, Finishing, At
<1>4. Nested'
  BY <1>2, Wiring, Distinct DEF IInv, TypeOK, Nested, At, ChatConsumes,
       DebugConsumes, Live, Outermost
<1>5. Offering'
  BY <1>2 DEF IInv, Nested, Offering, At, DebugConsumes, Live, ToChat
<1>6. Turns'
  BY <1>2, Wiring DEF IInv, TypeOK, Nested, Turns, At
<1>7. Fresh'
  BY <1>2, Wiring DEF IInv, TypeOK, Nested, Fresh, At, ChatConsumes, Fitting, Good,
       Live, Outermost
<1>8. Starting' /\ Answering'
  BY <1>2 DEF IInv, Nested, Starting, Answering, At, DebugConsumes, Live
<1>9. Stopping'
  BY <1>2, Distinct DEF IInv, Nested, Offering, Stopping, At, ChatConsumes,
       DebugConsumes, Live
<1>10. Telling'
  BY <1>2 DEF IInv, Telling, AgentSpent, At, ChatSpent, DebugSees
<1> QED
  BY <1>1, <1>3, <1>4, <1>5, <1>6, <1>7, <1>8, <1>9, <1>10 DEF IInv

\* A delegate without streams is executed at once.
LEMMA FallbackKeeps ==
  ASSUME IInv, Fallback /\ UNCHANGED <<chatVars, hostVars>>
  PROVE  IInv'
<1> USE DEF Fallback, agentVars, debugVars, chatVars, hostVars, debugOnly
<1>1. TypeOK'
  <2>1. StreamsTypeOK'
    BY DEF IInv, TypeOK, StreamsTypeOK, Places, Layers
  <2> QED
    BY <2>1 DEF IInv, TypeOK, DebugTypeOK, ChatTypeOK
<1>2. /\ pc["agent"] = "running" /\ ~streams /\ mode # "fallback" /\ stack \in {DebugAlone, ChatOutside}
      /\ mode' = "fallback" /\ completed'
      /\ At(args', args["debug"], args["chat"], args["debug"])
      /\ UNCHANGED <<stack, streams, pc, yields, open, answered, first, result, quit,
                     toAsk, replies, over, exchange, host, seen, failed>>
  BY Wiring DEF IInv, TypeOK, StreamsTypeOK, Layers, At, Outermost
<1> HIDE DEF Fallback, agentVars, debugVars, chatVars, hostVars, debugOnly
<1>3. Answering' /\ Finishing'
  BY <1>2 DEF IInv, Answering, Finishing
<1>4. Nested'
  BY <1>2 DEF IInv, Nested, ChatConsumes, DebugConsumes, Live, Outermost
<1>5. Offering'
  BY <1>2 DEF IInv, Offering, ToChat, ToDebug
<1>6. Turns'
  BY <1>2, Distinct DEF IInv, Offering, Turns, AgentSpent, ToDebug
<1>7. Fresh'
  BY <1>2, Distinct DEF IInv, Nested, Fresh, At, ChatConsumes, DebugConsumes, Good,
       Live, Outermost
<1>8. Starting'
  BY <1>2 DEF IInv, Fresh, Starting, At
<1>9. Quitting'
  BY <1>2, Distinct DEF IInv, Quitting, AgentSpent, DebugSees
<1>10. Stopping'
  BY <1>2, Distinct DEF IInv, Offering, Stopping, At, ToDebug
<1>11. Telling'
  BY <1>2, Distinct DEF IInv, Telling, AgentSpent, DebugSees, Heard, ToDebug
<1> QED
  BY <1>1, <1>3, <1>4, <1>5, <1>6, <1>7, <1>8, <1>9, <1>10, <1>11 DEF IInv

\* An event goes through the debug loop.
LEMMA ForwardKeeps ==
  ASSUME IInv, Forward /\ UNCHANGED <<chatVars, hostVars>>
  PROVE  IInv'
<1> USE DEF Forward, Goes, agentVars, debugVars, chatVars, hostVars, debugOnly
<1>1. TypeOK'
  <2>1. Inner("debug") \in Layers
    BY Wiring DEF IInv, TypeOK, Nested, Layers
  <2>2. StreamsTypeOK'
    BY <2>1 DEF IInv, TypeOK, StreamsTypeOK, Places, Layers
  <2> QED
    BY <2>2 DEF IInv, TypeOK, DebugTypeOK, ChatTypeOK
<1>2. /\ pc["debug"] = "consuming" /\ ToDebug # "none" /\ stack # ChatAlone
      /\ At(pc', "yielding", pc["chat"], pc["agent"])
      /\ At(yields', ToDebug, yields["chat"], yields["agent"])
      /\ UNCHANGED <<stack, streams, args, open, answered, first, result, mode,
                     completed, quit, toAsk, replies, over, exchange, host,
                     seen, failed>>
  BY Wiring, Distinct DEF IInv, TypeOK, StreamsTypeOK, Nested, Layers, At,
       Outermost, ToDebug, ToChat
<1> HIDE DEF Forward, Goes, agentVars, debugVars, chatVars, hostVars, debugOnly
<1>3. Starting' /\ Answering' /\ Stopping' /\ Telling'
  BY <1>2 DEF IInv, Starting, Answering, Stopping, Telling, At
<1>4. Nested'
  BY <1>2 DEF IInv, Nested, At, ChatConsumes, Live, Outermost
<1>5. Offering'
  BY <1>2 DEF IInv, Offering, At, ToChat, ToDebug
<1>6. Turns' /\ Quitting'
  BY <1>2 DEF IInv, Offering, Turns, Quitting, AgentSpent, At, ChatSpent, DebugSees,
       ToDebug
<1>7. Fresh'
  BY <1>2 DEF IInv, Fresh, At, Fitting, Good
<1>8. Finishing'
  BY <1>2 DEF IInv, Finishing, At, ToChat
<1> QED
  BY <1>1, <1>3, <1>4, <1>5, <1>6, <1>7, <1>8 DEF IInv

\* The debug loop stops at a breakpoint.
LEMMA AtBreakpointKeeps ==
  ASSUME IInv, AtBreakpoint /\ UNCHANGED <<chatVars, hostVars>>
  PROVE  IInv'
<1> USE DEF AtBreakpoint, Goes, Taken, Event, agentVars, debugVars, chatVars,
     hostVars, debugOnly
<1>1. TypeOK'
  <2>1. StreamsTypeOK'
    BY DEF IInv, TypeOK, StreamsTypeOK, Places, Layers
  <2> QED
    BY <2>1 DEF IInv, TypeOK, DebugTypeOK, ChatTypeOK
<1>2. /\ pc["debug"] = "yielding" /\ yields["debug"] = "none" /\ mode = "attended"
      /\ At(pc', "paused", pc["chat"], pc["agent"])
      /\ ToDebug = "breakpoint"
      /\ UNCHANGED <<stack, streams, yields, args, open, answered, first, result,
                     mode, completed, quit, toAsk, replies, over, exchange,
                     host, seen, failed>>
  BY Wiring, Distinct DEF IInv, TypeOK, StreamsTypeOK, Nested, Layers, At,
       Outermost, ToDebug, ToChat
<1> HIDE DEF AtBreakpoint, Goes, Taken, Event, agentVars, debugVars, chatVars,
     hostVars, debugOnly
<1>3. Starting' /\ Quitting' /\ Answering' /\ Stopping' /\ Telling'
  BY <1>2 DEF IInv, Starting, Quitting, Answering, Stopping, Telling, At
<1>4. Nested'
  BY <1>2 DEF IInv, Nested, At, ChatConsumes, Live, Outermost
<1>5. Offering'
  BY <1>2 DEF IInv, Offering, At, ToChat, ToDebug
<1>6. Turns'
  BY <1>2 DEF IInv, Turns, AgentSpent, At
<1>7. Fresh'
  BY <1>2 DEF IInv, Fresh, At, Fitting, Good
<1>8. Finishing'
  BY <1>2 DEF IInv, Offering, Finishing, ToChat, ToDebug
<1> QED
  BY <1>1, <1>3, <1>4, <1>5, <1>6, <1>7, <1>8 DEF IInv

\* The debug loop has a suspension to answer or to wait for.
LEMMA AtSuspensionKeeps ==
  ASSUME IInv, AtSuspension /\ UNCHANGED <<chatVars, hostVars>>
  PROVE  IInv'
<1> USE DEF AtSuspension, Goes, Taken, Event, AwaitsTrigger, agentVars, debugVars,
     chatVars, hostVars, debugOnly
<1>1. TypeOK'
  <2>1. StreamsTypeOK'
    BY DEF IInv, TypeOK, StreamsTypeOK, Places, Layers
  <2> QED
    BY <2>1 DEF IInv, TypeOK, DebugTypeOK, ChatTypeOK
<1>2. /\ pc["debug"] = "yielding" /\ yields["debug"] = "none" /\ mode = "attended"
      /\ pc["debug"]' \in {"replying", "polling"}
      /\ At(pc', pc["debug"]', pc["chat"], pc["agent"])
      /\ ToDebug = "suspended"
      /\ UNCHANGED <<stack, streams, yields, args, open, answered, first, result,
                     mode, completed, quit, toAsk, replies, over, exchange,
                     host, seen, failed>>
  BY Wiring, Distinct DEF IInv, TypeOK, StreamsTypeOK, Nested, Layers, At,
       Outermost, ToDebug, ToChat
<1> HIDE DEF AtSuspension, Goes, Taken, Event, AwaitsTrigger, agentVars, debugVars,
     chatVars, hostVars, debugOnly
<1>3. Starting' /\ Quitting' /\ Answering' /\ Stopping' /\ Telling'
  BY <1>2 DEF IInv, Starting, Quitting, Answering, Stopping, Telling, At
<1>4. Nested'
  BY <1>2 DEF IInv, Nested, At, ChatConsumes, Live, Outermost
<1>5. Offering'
  BY <1>2 DEF IInv, Offering, At, ToChat, ToDebug
<1>6. Turns'
  BY <1>2 DEF IInv, Turns, AgentSpent, At
<1>7. Fresh'
  BY <1>2 DEF IInv, Fresh, At, Fitting, Good
<1>8. Finishing'
  BY <1>2 DEF IInv, Offering, Finishing, ToChat, ToDebug
<1> QED
  BY <1>1, <1>3, <1>4, <1>5, <1>6, <1>7, <1>8 DEF IInv

\* The debug loop passes on the last result.
LEMMA AtEndKeeps ==
  ASSUME IInv, AtEnd /\ UNCHANGED <<chatVars, hostVars>>
  PROVE  IInv'
<1> USE DEF AtEnd, Goes, Taken, Event, AwaitsTrigger, agentVars, debugVars,
     chatVars, hostVars, debugOnly
<1>1. TypeOK'
  <2>1. StreamsTypeOK'
    BY DEF IInv, TypeOK, StreamsTypeOK, Places, Layers
  <2> QED
    BY <2>1 DEF IInv, TypeOK, DebugTypeOK, ChatTypeOK
<1>2. /\ pc["debug"] = "yielding" /\ yields["debug"] = "none" /\ stack # ChatAlone
      /\ At(pc', "consuming", pc["chat"], pc["agent"])
      /\ mode = "attended" => ToDebug # "breakpoint"
      /\ completed'
      /\ stack = ChatInside => At(yields', yields["debug"], "none", yields["agent"])
      /\ stack # ChatInside => At(yields', yields["debug"], yields["chat"], "none")
      /\ UNCHANGED <<stack, streams, args, open, answered, first, result, mode, quit,
                     toAsk, replies, over, exchange, host, seen, failed>>
  BY Wiring, Distinct DEF IInv, TypeOK, StreamsTypeOK, Nested, Layers, At,
       Outermost, ToDebug, ToChat
<1> HIDE DEF AtEnd, Goes, Taken, Event, AwaitsTrigger, agentVars, debugVars,
     chatVars, hostVars, debugOnly
<1>3. Starting' /\ Quitting' /\ Answering' /\ Stopping'
  BY <1>2 DEF IInv, Starting, Quitting, Answering, Stopping, At
<1>4. Nested'
  BY <1>2 DEF IInv, Nested, At, ChatConsumes, Live, Outermost
<1>5. Offering'
  BY <1>2, Wiring DEF IInv, TypeOK, Nested, Offering, At, ToChat
<1>6. Turns'
  BY <1>2, Wiring DEF IInv, TypeOK, Nested, Offering, Turns, AgentSpent, At,
       ChatSpent, DebugSees, ToDebug
<1>7. Fresh'
  BY <1>2 DEF IInv, Fresh, At, Fitting, Good
<1>8. Telling'
  BY <1>2 DEF IInv, Offering, Stopping, Telling, At, Heard, ToChat, ToDebug
<1>9. Finishing'
  BY <1>2, Wiring DEF IInv, TypeOK, Finishing, At, ToChat
<1> QED
  BY <1>1, <1>3, <1>4, <1>5, <1>6, <1>7, <1>8, <1>9 DEF IInv

\* The three ways the debug loop gets the next pass's input.
LEMMA ResumedKeeps ==
  ASSUME IInv, (BreakpointResume \/ ReplyResume \/ PollResume)
               /\ UNCHANGED <<chatVars, hostVars>>
  PROVE  IInv'
<1> USE DEF BreakpointResume, ReplyResume, PollResume, ResumeWith, ResumeData,
     InputAfterBreakpoint, Goes, agentVars, debugVars, chatVars, hostVars,
     debugOnly
<1>1. TypeOK'
  <2>1. \E input \in SUBSET Interrupts : ResumeWith(input)
    <3> HIDE DEF ResumeWith
    <3>1. first \in Interrupts
      BY DEF IInv, TypeOK, StreamsTypeOK
    <3>2. CASE BreakpointResume
      BY <3>2
    <3>3. CASE ReplyResume \/ PollResume
      <4>1. ResumeWith({first}) /\ {first} \in SUBSET Interrupts
        BY <3>1, <3>3
      <4> QED
        BY <4>1
    <3> QED
      BY <3>2, <3>3
  <2>2. PICK input \in SUBSET Interrupts : ResumeWith(input)
    BY <2>1
  <2>3. args["debug"] \in [input : SUBSET Interrupts, resume : BOOLEAN, stops : BOOLEAN]
    BY DEF IInv, TypeOK, StreamsTypeOK, Layers
  <2>4. /\ args' = [args EXCEPT !["debug"] = [args["debug"] EXCEPT !.input = input, !.resume = TRUE]]
        /\ pc' \in [Layers -> Places] /\ yields' \in [Layers -> Results \cup {"none"}]
        /\ UNCHANGED <<stack, agentVars, fired, debugVars, chatVars, hostVars>>
    BY <2>2 DEF IInv, TypeOK, StreamsTypeOK, Places, Layers
  <2>5. [args["debug"] EXCEPT !.input = input, !.resume = TRUE]
          \in [input : SUBSET Interrupts, resume : BOOLEAN, stops : BOOLEAN]
    BY <2>3
  <2> HIDE DEF BreakpointResume, ReplyResume, PollResume, ResumeWith
  <2>6. StreamsTypeOK'
    BY <2>4, <2>5 DEF IInv, TypeOK, StreamsTypeOK
  <2> QED
    BY <2>4, <2>6 DEF IInv, TypeOK, DebugTypeOK, ChatTypeOK
<1>2. /\ pc["debug"] \in {"paused", "replying", "polling"} /\ stack # ChatAlone
      /\ At(pc', "consuming", pc["chat"], pc["agent"])
      /\ args["debug"].input' \subseteq open /\ args["debug"].resume'
             /\ args["debug"].stops' = args["debug"].stops
      /\ args["debug"].input' # {} <=> result = "suspended"
      /\ At(args', args["debug"]', args["chat"], args["agent"])
      /\ stack = ChatInside => At(yields', yields["debug"], "none", yields["agent"])
      /\ stack # ChatInside => At(yields', yields["debug"], yields["chat"], "none")
      /\ UNCHANGED <<stack, streams, open, answered, first, result, mode, completed,
                     quit, toAsk, replies, over, exchange, host, seen,
                     failed>>
  <2>1. stack # ChatAlone
    BY Wiring DEF IInv, TypeOK, Nested
  <2>2. ToDebug # "none" => ToDebug = result /\ (result = "suspended" => first \in open)
    BY <2>1 DEF IInv, Offering, ToChat, ToDebug
  <2>3. /\ pc["debug"] \in {"replying", "polling"} => first \in open /\ result = "suspended"
        /\ pc["debug"] = "paused" => result = "breakpoint"
    BY <2>2 DEF IInv, Offering
  <2>4. PICK input \in SUBSET open : ResumeWith(input) /\ (input # {} <=> result = "suspended")
    <3> HIDE DEF ResumeWith
    <3>1. CASE BreakpointResume
      BY <2>3, <3>1
    <3>2. CASE ReplyResume \/ PollResume
      <4>1. ResumeWith({first}) /\ {first} \in SUBSET open /\ result = "suspended"
        BY <2>3, <3>2
      <4> QED
        BY <4>1
    <3> QED
      BY <3>1, <3>2
  <2>5. pc["debug"] \in {"paused", "replying", "polling"}
    OBVIOUS
  <2> QED
    BY <2>1, <2>4, <2>5, Wiring, Distinct DEF IInv, TypeOK, StreamsTypeOK, Layers, At
<1> HIDE DEF BreakpointResume, ReplyResume, PollResume, ResumeWith, ResumeData,
     InputAfterBreakpoint, Goes, agentVars, debugVars, chatVars, hostVars,
     debugOnly
<1>3. Starting' /\ Quitting' /\ Answering' /\ Finishing'
  BY <1>2 DEF IInv, Starting, Quitting, Answering, Finishing, At
<1>4. Nested'
  BY <1>2 DEF IInv, Nested, At, ChatConsumes, Live, Outermost
<1>5. Offering'
  BY <1>2, Wiring DEF IInv, TypeOK, Nested, Offering, At, ToChat
<1>6. Turns'
  BY <1>2, Wiring DEF IInv, TypeOK, Nested, Turns, AgentSpent, At
<1>7. Fresh'
  BY <1>2, Distinct DEF IInv, Offering, Fresh, Quitting, Answering, AgentSpent, At,
       DebugSees, Fitting, Good, ToChat, ToDebug
<1>8. Stopping' /\ Telling'
  BY <1>2 DEF IInv, Turns, Stopping, Telling, At
<1> QED
  BY <1>1, <1>3, <1>4, <1>5, <1>6, <1>7, <1>8 DEF IInv

\* The loop hands out SUCCESSFUL after a quit, and unwinds.
LEMMA QuitTakenKeeps ==
  ASSUME IInv, QuitTaken /\ UNCHANGED <<chatVars, hostVars>>
  PROVE  IInv'
<1> USE DEF QuitTaken, Goes, agentVars, debugVars, chatVars, hostVars, debugOnly
<1>1. TypeOK'
  <2>1. pc' \in [Layers -> Places]
    BY DEF IInv, TypeOK, StreamsTypeOK, Places
  <2>2. yields' \in [Layers -> Results \cup {"none"}]
    BY DEF IInv, TypeOK, StreamsTypeOK
  <2>3. UNCHANGED <<stack, args, agentVars, fired, debugVars, chatVars, hostVars>>
    OBVIOUS
  <2> HIDE DEF QuitTaken
  <2>4. StreamsTypeOK'
    BY <2>1, <2>2, <2>3 DEF IInv, TypeOK, StreamsTypeOK
  <2> QED
    BY <2>3, <2>4 DEF IInv, TypeOK, DebugTypeOK, ChatTypeOK
<1>2. /\ yields["debug"] = "none" /\ stack # ChatAlone
      /\ \/ pc["debug"] = "leaving" /\ At(pc', "closing", pc["chat"], pc["agent"])
             /\ UNCHANGED yields
         \/ /\ pc["debug"] = "quitting" /\ At(pc', "consuming", pc["chat"], pc["agent"])
            /\ stack = ChatInside => At(yields', yields["debug"], "none", yields["agent"])
            /\ stack # ChatInside => At(yields', yields["debug"], yields["chat"], "none")
      /\ UNCHANGED <<stack, streams, args, open, answered, first, result, mode,
                     completed, quit, toAsk, replies, over, exchange, host,
                     seen, failed>>
  BY Wiring, Distinct DEF IInv, TypeOK, StreamsTypeOK, Nested, Layers, At,
       Outermost, ToDebug, ToChat
<1> HIDE DEF QuitTaken, Goes, agentVars, debugVars, chatVars, hostVars, debugOnly
<1>3. Starting' /\ Answering' /\ Stopping'
  BY <1>2 DEF IInv, Starting, Answering, Stopping, At
<1>4. Nested'
  BY <1>2 DEF IInv, Nested, At, ChatConsumes, DebugConsumes, Live, Outermost
<1>5. Offering'
  BY <1>2, Wiring DEF IInv, TypeOK, Nested, Offering, At, ToChat
<1>6. Turns'
  BY <1>2, Wiring DEF IInv, TypeOK, Nested, Offering, Turns, AgentSpent, At,
       ChatSpent, DebugSees, ToDebug
<1>7. Fresh'
  BY <1>2 DEF IInv, Fresh, Quitting, At, Fitting, Good
<1>8. Quitting'
  BY <1>2 DEF IInv, Offering, Quitting, AgentSpent, At, ChatSpent, DebugSees, ToDebug
<1>9. Telling'
  BY <1>2 DEF IInv, Quitting, Telling, At, Heard
<1>10. Finishing'
  BY <1>2 DEF IInv, Quitting, Finishing
<1> QED
  BY <1>1, <1>3, <1>4, <1>5, <1>6, <1>7, <1>8, <1>9, <1>10 DEF IInv

\* The stream inside has ended: next pass or completion.
LEMMA InnerEndedKeeps ==
  ASSUME IInv, InnerEnded /\ UNCHANGED <<chatVars, hostVars>>
  PROVE  IInv'
<1> USE DEF InnerEnded, Goes, agentVars, debugVars, chatVars, hostVars, debugOnly
<1>1. TypeOK'
  <2>1. StreamsTypeOK'
    BY DEF IInv, TypeOK, StreamsTypeOK, Places, Layers
  <2> QED
    BY <2>1 DEF IInv, TypeOK, DebugTypeOK, ChatTypeOK
<1>2. /\ pc["debug"] = "consuming" /\ stack # ChatAlone
      /\ IF stack = ChatInside THEN pc["chat"] = "ended" ELSE pc["agent"] = "ended"
      /\ At(pc', IF completed THEN "closing" ELSE "calling", pc["chat"], pc["agent"])
      /\ UNCHANGED <<stack, streams, yields, args, open, answered, first, result,
                     mode, completed, quit, toAsk, replies, over, exchange,
                     host, seen, failed>>
  BY Wiring, Distinct DEF IInv, TypeOK, StreamsTypeOK, Nested, Layers, At,
       Outermost, ToDebug, ToChat
<1> HIDE DEF InnerEnded, Goes, agentVars, debugVars, chatVars, hostVars, debugOnly
<1>3. Starting' /\ Quitting' /\ Answering' /\ Stopping'
  BY <1>2 DEF IInv, Starting, Quitting, Answering, Stopping, At
<1>4. Nested'
  BY <1>2 DEF IInv, Nested, At, ChatConsumes, DebugConsumes, Live, Outermost
<1>5. Offering'
  BY <1>2 DEF IInv, Offering, At, ToChat
<1>6. Turns'
  BY <1>2 DEF IInv, Turns, AgentSpent, At
<1>7. Fresh'
  BY <1>2 DEF IInv, Offering, Fresh, AgentSpent, At, ChatSpent, DebugSees, Fitting,
       Good
<1>8. Telling'
  BY <1>2 DEF IInv, Offering, Telling, AgentSpent, At, ChatSpent, DebugSees, Heard
<1>9. Finishing'
  BY <1>2 DEF IInv, Offering, Finishing, AgentSpent, At, ChatSpent, DebugSees,
       ToChat, ToDebug
<1> QED
  BY <1>1, <1>3, <1>4, <1>5, <1>6, <1>7, <1>8, <1>9 DEF IInv

\* The debug loop ends.
LEMMA CompleteKeeps ==
  ASSUME IInv, Complete /\ UNCHANGED <<chatVars, hostVars>>
  PROVE  IInv'
<1> USE DEF Complete, Goes, agentVars, debugVars, chatVars, hostVars, debugOnly
<1>1. TypeOK'
  <2>1. StreamsTypeOK'
    BY DEF IInv, TypeOK, StreamsTypeOK, Places, Layers
  <2> QED
    BY <2>1 DEF IInv, TypeOK, DebugTypeOK, ChatTypeOK
<1>2. /\ pc["debug"] = "closing" /\ At(pc', "ended", pc["chat"], pc["agent"])
      /\ UNCHANGED <<stack, streams, yields, args, open, answered, first, result,
                     mode, completed, quit, toAsk, replies, over, exchange,
                     host, seen, failed>>
  BY Wiring DEF IInv, TypeOK, StreamsTypeOK, Layers, At, Outermost
<1> HIDE DEF Complete, Goes, agentVars, debugVars, chatVars, hostVars, debugOnly
<1>3. Starting' /\ Quitting' /\ Answering' /\ Stopping'
  BY <1>2 DEF IInv, Starting, Quitting, Answering, Stopping, At
<1>4. Nested'
  BY <1>2 DEF IInv, Nested, At, ChatConsumes, DebugConsumes, Live, Outermost
<1>5. Offering' /\ Finishing'
  BY <1>2 DEF IInv, Offering, Finishing, At, ToChat
<1>6. Turns'
  BY <1>2 DEF IInv, Turns, AgentSpent, At
<1>7. Fresh'
  BY <1>2 DEF IInv, Fresh, At, Fitting, Good
<1>8. Telling'
  BY <1>2 DEF IInv, Telling, At, Heard
<1> QED
  BY <1>1, <1>3, <1>4, <1>5, <1>6, <1>7, <1>8 DEF IInv

\* The user quits, at a pause or while the debugger waits.
LEMMA QuitKeeps ==
  ASSUME IInv, UserQuits
  PROVE  IInv'
<1> USE DEF UserQuits, Quit, CompletedByQuit, Goes, agentVars, debugVars, chatVars,
     hostVars, debugOnly
<1>1. TypeOK'
  <2>1. StreamsTypeOK'
    BY DEF IInv, TypeOK, StreamsTypeOK, Results, Places, Layers
  <2> QED
    BY <2>1 DEF IInv, TypeOK, DebugTypeOK, ChatTypeOK
<1>2. /\ pc["debug"] \in {"waiting", "paused", "replying", "polling"}
      /\ At(pc', IF pc["debug"] = "waiting" THEN "leaving" ELSE "quitting", pc["chat"], pc["agent"])
      /\ At(yields', "successful", yields["chat"], yields["agent"])
      /\ completed' /\ quit'
      /\ UNCHANGED <<stack, streams, args, open, answered, first, result, mode,
                     toAsk, replies, over, exchange, host, seen, failed>>
  BY Wiring DEF IInv, TypeOK, StreamsTypeOK, Layers, At, Outermost
<1> HIDE DEF UserQuits, Quit, CompletedByQuit, Goes, agentVars, debugVars,
     chatVars, hostVars, debugOnly
<1>3. Starting' /\ Answering' /\ Telling' /\ Finishing'
  BY <1>2 DEF IInv, Starting, Answering, Telling, Finishing, At
<1>4. Nested'
  BY <1>2 DEF IInv, Nested, At, ChatConsumes, DebugConsumes, Live, Outermost
<1>5. Offering'
  BY <1>2 DEF IInv, Offering, At, ToChat, ToDebug
<1>6. Turns'
  BY <1>2 DEF IInv, Turns, AgentSpent, At
<1>7. Fresh'
  BY <1>2, Wiring DEF IInv, TypeOK, Nested, Fresh, At, ChatConsumes, Fitting, Good,
       Live, Outermost
<1>8. Quitting'
  BY <1>2 DEF IInv, Nested, Offering, Quitting, At, ChatConsumes, Live, ToChat
<1>9. Stopping'
  BY <1>2 DEF IInv, Turns, Stopping, At
<1> QED
  BY <1>1, <1>3, <1>4, <1>5, <1>6, <1>7, <1>8, <1>9 DEF IInv

\* The chat loop starts the stream inside.
LEMMA ChatCallKeeps ==
  ASSUME IInv, ChatCall /\ UNCHANGED <<debugVars, hostVars>>
  PROVE  IInv'
<1> USE DEF ChatCall, CallInner, Start, agentVars, debugVars, chatVars, hostVars,
     debugOnly
<1>1. TypeOK'
  <2>1. StreamsTypeOK'
    BY DEF IInv, TypeOK, StreamsTypeOK, Places, Layers
  <2>2. DebugTypeOK' /\ ChatTypeOK'
    BY DEF IInv, TypeOK, DebugTypeOK, ChatTypeOK
  <2> QED
    BY <2>1, <2>2 DEF IInv, TypeOK
<1>2. /\ pc["chat"] = "calling" /\ stack # DebugAlone /\ ~over'
      /\ stack = ChatOutside => At(pc', "connecting", "consuming", pc["agent"])
             /\ At(args', args["chat"], args["chat"], args["agent"])
      /\ stack # ChatOutside => At(pc', pc["debug"], "consuming", "running")
             /\ At(args', args["debug"], args["chat"], args["chat"])
      /\ UNCHANGED <<stack, streams, yields, open, answered, first, result, mode,
                     completed, quit, toAsk, replies, exchange, host, seen,
                     failed>>
  BY Wiring, Distinct DEF IInv, TypeOK, StreamsTypeOK, Nested, Layers, At,
       Outermost, ToDebug, ToChat
<1> HIDE DEF ChatCall, CallInner, Start, agentVars, debugVars, chatVars, hostVars,
     debugOnly
<1>3. Finishing'
  BY <1>2 DEF IInv, Finishing
<1>4. Nested'
  BY <1>2, Wiring, Distinct DEF IInv, TypeOK, Nested, At, ChatConsumes,
       DebugConsumes, Live, Outermost
<1>5. Offering'
  BY <1>2 DEF IInv, Nested, Offering, At, ChatConsumes, Live, ToDebug
<1>6. Turns'
  BY <1>2, Wiring DEF IInv, TypeOK, Nested, Turns, AgentSpent, At, ChatSpent,
       DebugSees
<1>7. Fresh'
  BY <1>2, Distinct DEF IInv, Nested, Fresh, AgentSpent, At, ChatConsumes, ChatSpent,
       DebugConsumes, DebugSees, Fitting, Good, Live, Outermost
<1>8. Starting' /\ Answering'
  BY <1>2 DEF IInv, Nested, Starting, Answering, At, ChatConsumes, Live
<1>9. Quitting'
  BY <1>2, Wiring DEF IInv, TypeOK, Quitting, At, ChatSpent, DebugSees
<1>10. Stopping'
  BY <1>2, Distinct DEF IInv, Stopping, At
<1>11. Telling'
  BY <1>2, Distinct DEF IInv, Telling, At, ChatSpent, DebugSees, Heard, ToDebug
<1> QED
  BY <1>1, <1>3, <1>4, <1>5, <1>6, <1>7, <1>8, <1>9, <1>10, <1>11 DEF IInv

\* The chat loop has a suspension with API triggers.
LEMMA AskForKeeps ==
  ASSUME IInv, AskFor /\ UNCHANGED <<debugVars, hostVars>>
  PROVE  IInv'
<1> USE DEF AskFor, Asks, ApiTriggers, ChatGoes, Offered, agentVars, debugVars,
     chatVars, hostVars, debugOnly
<1>1. TypeOK'
  <2>1. StreamsTypeOK'
    BY DEF IInv, TypeOK, StreamsTypeOK, Places, Layers
  <2> QED
    BY <2>1 DEF IInv, TypeOK, DebugTypeOK, ChatTypeOK
<1>2. /\ pc["chat"] = "consuming" /\ stack # DebugAlone /\ ToChat = "suspended"
      /\ At(pc', pc["debug"], "asking", pc["agent"])
      /\ toAsk' # {} /\ toAsk' \subseteq open /\ replies' = {}
      /\ UNCHANGED <<stack, streams, yields, args, open, answered, first, result,
                     mode, completed, quit, over, exchange, host, seen,
                     failed>>
  BY Wiring, Distinct DEF IInv, TypeOK, StreamsTypeOK, Nested, Layers, At,
       Outermost, ToDebug, ToChat
<1> HIDE DEF AskFor, Asks, ApiTriggers, ChatGoes, Offered, agentVars, debugVars,
     chatVars, hostVars, debugOnly
<1>3. Starting' /\ Answering' /\ Stopping'
  BY <1>2 DEF IInv, Starting, Answering, Stopping, At
<1>4. Nested'
  BY <1>2 DEF IInv, Nested, At, DebugConsumes, Live, Outermost
<1>5. Offering'
  BY <1>2 DEF IInv, Offering, At, ToChat, ToDebug
<1>6. Turns'
  BY <1>2, Distinct DEF IInv, Turns, AgentSpent, At, ChatSpent, DebugSees, ToChat
<1>7. Fresh'
  BY <1>2 DEF IInv, Fresh, AgentSpent, At, ChatSpent, DebugSees, Fitting, Good
<1>8. Quitting'
  BY <1>2 DEF IInv, Turns, Quitting, AgentSpent, At, ChatSpent, DebugSees, ToChat
<1>9. Telling'
  BY <1>2 DEF IInv, Telling, At, ChatSpent, DebugSees, Heard, ToDebug
<1>10. Finishing'
  BY <1>2 DEF IInv, Offering, Finishing, ToChat, ToDebug
<1> QED
  BY <1>1, <1>3, <1>4, <1>5, <1>6, <1>7, <1>8, <1>9, <1>10 DEF IInv

\* The chat user answers one of them.
LEMMA ReplyKeeps ==
  ASSUME IInv, (\E i \in toAsk : Reply(i)) /\ UNCHANGED <<debugVars, hostVars>>
  PROVE  IInv'
<1> USE DEF Reply, agentVars, debugVars, chatVars, hostVars, debugOnly
<1>1. TypeOK'
  BY DEF IInv, TypeOK, StreamsTypeOK, DebugTypeOK, ChatTypeOK
<1>2. /\ pc["chat"] = "asking"
      /\ replies' \cup toAsk' = replies \cup toAsk
      /\ UNCHANGED <<stack, streams, pc, yields, args, open, answered, first, result,
                     mode, completed, quit, over, exchange, host, seen,
                     failed>>
  BY DEF IInv, At
<1> HIDE DEF Reply, agentVars, debugVars, chatVars, hostVars, debugOnly
<1>3. Starting' /\ Stopping' /\ Finishing'
  BY <1>2 DEF IInv, Starting, Stopping, Finishing
<1>4. Nested'
  BY <1>2 DEF IInv, Nested, DebugConsumes, Live, Outermost
<1>5. Offering'
  BY <1>2 DEF IInv, Offering, ToChat, ToDebug
<1>6. Turns' /\ Quitting'
  BY <1>2 DEF IInv, Turns, Quitting, AgentSpent, ChatSpent, DebugSees
<1>7. Fresh'
  BY <1>2 DEF IInv, Fresh, AgentSpent, ChatSpent, DebugSees, Fitting, Good
<1>8. Answering'
  BY <1>2 DEF IInv, Nested, Offering, Answering, ToChat, ToDebug
<1>9. Telling'
  BY <1>2 DEF IInv, Telling, AgentSpent, ChatSpent, DebugSees, Heard, ToDebug
<1> QED
  BY <1>1, <1>3, <1>4, <1>5, <1>6, <1>7, <1>8, <1>9 DEF IInv

\* All are answered: the next pass resumes with the replies.
LEMMA AllRepliedKeeps ==
  ASSUME IInv, AllReplied /\ UNCHANGED <<debugVars, hostVars>>
  PROVE  IInv'
<1> USE DEF AllReplied, Dropped, ResumeArgs, LoopEnds, agentVars, debugVars,
     chatVars, hostVars, debugOnly
<1>1. TypeOK'
  <2>1. args["chat"] \in [input : SUBSET Interrupts, resume : BOOLEAN, stops : BOOLEAN]
    BY DEF IInv, TypeOK, StreamsTypeOK, Layers
  <2>2. ResumeArgs \in [input : SUBSET Interrupts, resume : BOOLEAN, stops : BOOLEAN]
    BY <2>1 DEF IInv, TypeOK, ChatTypeOK
  <2>3. args' \in [Layers -> [input : SUBSET Interrupts, resume : BOOLEAN, stops : BOOLEAN]]
    BY <2>2 DEF IInv, TypeOK, StreamsTypeOK
  <2>4. pc' \in [Layers -> Places]
    BY DEF IInv, TypeOK, StreamsTypeOK, Places, Layers
  <2>5. StreamsTypeOK'
    BY <2>3, <2>4 DEF IInv, TypeOK, StreamsTypeOK
  <2> QED
    BY <2>5 DEF IInv, TypeOK, DebugTypeOK, ChatTypeOK
<1>2. /\ pc["chat"] = "asking" /\ toAsk = {} /\ stack # DebugAlone
      /\ stack = ChatOutside => At(pc', "off", IF over THEN "ended" ELSE "calling", "off")
           /\ At(yields', "none", yields["chat"], "none")
      /\ stack # ChatOutside => At(pc', pc["debug"], IF over THEN "ended" ELSE "calling", "off")
           /\ At(yields', yields["debug"], yields["chat"], "none")
      /\ args["chat"].input' = replies /\ args["chat"].resume'
             /\ args["chat"].stops' = args["chat"].stops
      /\ At(args', args["debug"], args["chat"]', args["agent"])
      /\ UNCHANGED <<stack, streams, open, answered, first, result, mode, completed,
                     quit, toAsk, replies, over, exchange, host, seen,
                     failed>>
  BY Wiring, Distinct DEF IInv, TypeOK, StreamsTypeOK, Nested, Layers, At,
       Outermost, ToDebug, ToChat
<1> HIDE DEF AllReplied, Dropped, ResumeArgs, LoopEnds, agentVars, debugVars,
     chatVars, hostVars, debugOnly
<1>3. Stopping' /\ Finishing'
  BY <1>2 DEF IInv, Stopping, Finishing, At
<1>4. Nested'
  BY <1>2, Distinct DEF IInv, Nested, At, ChatConsumes, DebugConsumes, Live,
       Outermost
<1>5. Offering'
  BY <1>2, Wiring DEF IInv, TypeOK, Nested, Offering, At, ToDebug
<1>6. Turns' /\ Quitting'
  BY <1>2 DEF IInv, Turns, Quitting, AgentSpent, At, ChatSpent, DebugSees
<1>7. Fresh'
  BY <1>2, Wiring DEF IInv, TypeOK, Nested, Offering, Turns, Fresh, At, ChatSpent,
       DebugSees, Fitting, Good, ToChat, ToDebug
<1>8. Starting'
  BY <1>2 DEF IInv, Offering, Starting, ToChat, ToDebug
<1>9. Answering'
  BY <1>2 DEF IInv, Turns, Answering, At
<1>10. Telling'
  BY <1>2, Distinct DEF IInv, Turns, Telling, At, ChatSpent, DebugSees, Heard,
       ToDebug
<1> QED
  BY <1>1, <1>3, <1>4, <1>5, <1>6, <1>7, <1>8, <1>9, <1>10 DEF IInv

\* The chat loop passes an event on.
LEMMA HandOutKeeps ==
  ASSUME IInv, HandOut /\ UNCHANGED <<debugVars, hostVars>>
  PROVE  IInv'
<1> USE DEF HandOut, ChatGoes, Offered, agentVars, debugVars, chatVars, hostVars,
     debugOnly
<1>1. TypeOK'
  <2>1. Inner("chat") \in Layers
    BY Wiring DEF IInv, TypeOK, Nested, Layers
  <2>2. StreamsTypeOK'
    BY <2>1 DEF IInv, TypeOK, StreamsTypeOK, Places, Layers
  <2> QED
    BY <2>2 DEF IInv, TypeOK, DebugTypeOK, ChatTypeOK
<1>2. /\ pc["chat"] = "consuming" /\ ToChat # "none" /\ stack # DebugAlone
      /\ At(pc', pc["debug"], "yielding", pc["agent"])
      /\ At(yields', yields["debug"], ToChat, yields["agent"])
      /\ IF ToChat = "faulted" THEN exchange' = "error" ELSE exchange' = exchange
      /\ UNCHANGED <<stack, streams, args, open, answered, first, result, mode,
                     completed, quit, toAsk, replies, over, host, seen,
                     failed>>
  BY Wiring, Distinct DEF IInv, TypeOK, StreamsTypeOK, Nested, Layers, At,
       Outermost, ToDebug, ToChat
<1> HIDE DEF HandOut, ChatGoes, Offered, agentVars, debugVars, chatVars, hostVars,
     debugOnly
<1>3. Starting' /\ Answering' /\ Stopping'
  BY <1>2 DEF IInv, Starting, Answering, Stopping, At
<1>4. Nested'
  BY <1>2 DEF IInv, Nested, At, DebugConsumes, Live, Outermost
<1>5. Offering'
  BY <1>2 DEF IInv, Offering, At, ToChat, ToDebug
<1>6. Turns'
  BY <1>2, Distinct DEF IInv, Turns, AgentSpent, At, ChatSpent, DebugSees, ToChat
<1>7. Fresh'
  BY <1>2 DEF IInv, Fresh, AgentSpent, At, ChatSpent, DebugSees, Fitting, Good
<1>8. Quitting'
  BY <1>2, Distinct DEF IInv, Turns, Quitting, AgentSpent, At, ChatSpent, DebugSees,
       ToChat
<1>9. Telling'
  BY <1>2 DEF IInv, Offering, Telling, At, ChatSpent, DebugSees, Heard, ToDebug
<1>10. Finishing'
  BY <1>2 DEF IInv, Finishing, AgentSpent, At, ChatSpent, DebugSees
<1> QED
  BY <1>1, <1>3, <1>4, <1>5, <1>6, <1>7, <1>8, <1>9, <1>10 DEF IInv

\* It has been taken: the loop goes on, or breaks.
LEMMA HandedOutKeeps ==
  ASSUME IInv, HandedOut /\ UNCHANGED <<debugVars, hostVars>>
  PROVE  IInv'
<1> USE DEF HandedOut, EndsExchange, ChatGoes, Offered, agentVars, debugVars,
     chatVars, hostVars, debugOnly
<1>1. TypeOK'
  <2>1. StreamsTypeOK'
    BY DEF IInv, TypeOK, StreamsTypeOK, Places, Layers
  <2> QED
    BY <2>1 DEF IInv, TypeOK, DebugTypeOK, ChatTypeOK
<1>2. /\ pc["chat"] = "yielding" /\ yields["chat"] = "none" /\ stack # DebugAlone
      /\ At(pc', pc["debug"], "consuming", pc["agent"])
      /\ over'
      /\ IF ToChat = "successful" THEN exchange' = "ended" ELSE exchange' = exchange
      /\ stack = ChatOutside => At(yields', "none", yields["chat"], yields["agent"])
      /\ stack # ChatOutside => At(yields', yields["debug"], yields["chat"], "none")
      /\ UNCHANGED <<stack, streams, args, open, answered, first, result, mode,
                     completed, quit, toAsk, replies, host, seen, failed>>
  BY Wiring, Distinct DEF IInv, TypeOK, StreamsTypeOK, Nested, Layers, At,
       Outermost, ToDebug, ToChat
<1> HIDE DEF HandedOut, EndsExchange, ChatGoes, Offered, agentVars, debugVars,
     chatVars, hostVars, debugOnly
<1>3. Starting' /\ Answering' /\ Stopping'
  BY <1>2 DEF IInv, Starting, Answering, Stopping, At
<1>4. Nested'
  BY <1>2 DEF IInv, Nested, At, DebugConsumes, Live, Outermost
<1>5. Offering'
  BY <1>2, Wiring DEF IInv, TypeOK, Nested, Offering, At, ToDebug
<1>6. Turns'
  BY <1>2 DEF IInv, Offering, Turns, AgentSpent, At, ChatSpent, DebugSees, ToChat
<1>7. Fresh'
  BY <1>2, Wiring DEF IInv, TypeOK, Nested, Fresh, AgentSpent, At, ChatSpent,
       DebugSees, Fitting, Good
<1>8. Quitting'
  BY <1>2 DEF IInv, Quitting, AgentSpent, At, ChatSpent, DebugSees
<1>9. Telling'
  BY <1>2, Distinct DEF IInv, Telling, At, ChatSpent, DebugSees, Heard, ToDebug
<1>10. Finishing'
  <2>1. ToChat = "successful" => result = "successful" \/ quit
    BY <1>2 DEF IInv, Nested, Offering, Quitting, ToChat, ToDebug
  <2>2. result = "successful" => ToChat = "successful" \/ exchange = "ended"
    BY <1>2, Distinct DEF IInv, Nested, Offering, Finishing, ToChat, ToDebug
  <2>3. pc["debug"]' = "consuming" /\ DebugSees' => pc["debug"] = "consuming" /\ DebugSees
    <3>1. CASE stack = ChatInside
      BY <1>2, <3>1 DEF ChatSpent, DebugSees, At
    <3>2. CASE stack = ChatOutside
      BY <1>2, <3>2, Distinct DEF AgentSpent, DebugSees, At
    <3>3. CASE stack = ChatAlone
      BY <1>2, <3>3 DEF IInv, Nested, At
    <3> QED
      BY <1>2, <3>1, <3>2, <3>3, Wiring DEF IInv, TypeOK
  <2>4. /\ pc["debug"]' = pc["debug"] /\ pc["chat"]' = "consuming"
               /\ pc["agent"]' = pc["agent"]
        /\ exchange' = IF ToChat = "successful" THEN "ended" ELSE exchange
        /\ UNCHANGED <<stack, result, quit, completed, failed>>
    BY <1>2 DEF At
  <2> QED
    BY <2>1, <2>2, <2>3, <2>4 DEF IInv, Finishing
<1> QED
  BY <1>1, <1>3, <1>4, <1>5, <1>6, <1>7, <1>8, <1>9, <1>10 DEF IInv

\* The chat loop ends with the exchange.
LEMMA ChatEndsKeeps ==
  ASSUME IInv, ChatEnds /\ UNCHANGED <<debugVars, hostVars>>
  PROVE  IInv'
<1> USE DEF ChatEnds, ChatGoes, agentVars, debugVars, chatVars, hostVars, debugOnly
<1>1. TypeOK'
  <2>1. StreamsTypeOK'
    BY DEF IInv, TypeOK, StreamsTypeOK, Places, Layers
  <2> QED
    BY <2>1 DEF IInv, TypeOK, DebugTypeOK, ChatTypeOK
<1>2. /\ pc["chat"] = "consuming" /\ stack # DebugAlone
      /\ IF stack = ChatOutside THEN pc["debug"] = "ended" ELSE pc["agent"] = "ended"
      /\ At(pc', pc["debug"], "ended", pc["agent"])
      /\ UNCHANGED <<stack, streams, yields, args, open, answered, first, result,
                     mode, completed, quit, toAsk, replies, over, exchange,
                     host, seen, failed>>
  BY Wiring, Distinct DEF IInv, TypeOK, StreamsTypeOK, Nested, Layers, At,
       Outermost, ToDebug, ToChat
<1> HIDE DEF ChatEnds, ChatGoes, agentVars, debugVars, chatVars, hostVars,
     debugOnly
<1>3. Starting' /\ Answering' /\ Stopping'
  BY <1>2 DEF IInv, Starting, Answering, Stopping, At
<1>4. Nested'
  BY <1>2 DEF IInv, Nested, At, ChatConsumes, DebugConsumes, Live, Outermost
<1>5. Offering'
  BY <1>2 DEF IInv, Offering, At, ToDebug
<1>6. Turns' /\ Quitting'
  BY <1>2 DEF IInv, Turns, Quitting, AgentSpent, At, ChatSpent, DebugSees
<1>7. Fresh'
  BY <1>2 DEF IInv, Offering, Turns, Fresh, AgentSpent, At, ChatSpent, DebugSees,
       Fitting, Good
<1>8. Telling'
  BY <1>2, Distinct DEF IInv, Offering, Turns, Telling, AgentSpent, At, ChatSpent,
       DebugSees, Heard, ToDebug
<1>9. Finishing'
  BY <1>2 DEF IInv, Offering, Turns, Finishing, AgentSpent, At, ChatSpent, DebugSees,
       ToChat
<1> QED
  BY <1>1, <1>3, <1>4, <1>5, <1>6, <1>7, <1>8, <1>9 DEF IInv

\* A pass of the agent, which takes its answers and may come to wait on more.
LEMMA PassKeeps ==
  ASSUME IInv, (streams \/ mode = "fallback")
               /\ (\E New, A \in SUBSET Interrupts : Pass(New, A)) /\ UNCHANGED <<debugVars, chatVars, hostVars>>
  PROVE  IInv'
<1> USE DEF Pass, agentVars, debugVars, chatVars, hostVars, debugOnly
<1>1. TypeOK'
  <2>1. pc' \in [Layers -> Places]
    BY DEF IInv, TypeOK, StreamsTypeOK, Places
  <2>2. open' \subseteq Interrupts /\ answered' \subseteq Interrupts
    BY DEF IInv, TypeOK, StreamsTypeOK
  <2>3. args["agent"] \in [input : SUBSET Interrupts, resume : BOOLEAN, stops : BOOLEAN]
    BY DEF IInv, TypeOK, StreamsTypeOK, Layers
  <2> DEFINE next == [args["agent"] EXCEPT !.input = {}, !.resume = TRUE]
  <2>4. /\ next \in [input : SUBSET Interrupts, resume : BOOLEAN, stops : BOOLEAN]
        /\ args' = [args EXCEPT !["agent"] = next]
    BY <2>3
  <2>5. args' \in [Layers -> [input : SUBSET Interrupts, resume : BOOLEAN, stops : BOOLEAN]]
    BY <2>4 DEF IInv, TypeOK, StreamsTypeOK
  <2> QED
    BY <2>1, <2>2, <2>5 DEF IInv, TypeOK, StreamsTypeOK, DebugTypeOK, ChatTypeOK
<1>2. /\ pc["agent"] = "running" /\ At(pc', pc["debug"], pc["chat"], "handling")
      /\ At(args', args["debug"], args["chat"], args["agent"]')
      /\ args["agent"].resume' /\ args["agent"].stops' = args["agent"].stops
      /\ args["agent"].resume => answered \cup (args["agent"].input \cap open) \subseteq answered'
      /\ UNCHANGED <<stack, streams, yields, first, result, mode, completed, quit, toAsk,
                     replies, over, exchange, host, seen, failed>>
  BY DEF IInv, TypeOK, StreamsTypeOK, Layers, At
<1> HIDE DEF Pass, agentVars, debugVars, chatVars, hostVars, debugOnly
<1>3. Starting' /\ Stopping' /\ Finishing'
  BY <1>2 DEF IInv, Starting, Stopping, Finishing, At
<1>4. Nested'
  BY <1>2 DEF IInv, Nested, At, ChatConsumes, DebugConsumes, Live, Outermost
<1>5. Offering'
  BY <1>2 DEF IInv, Offering, At, ToChat, ToDebug
<1>6. Turns' /\ Quitting'
  BY <1>2 DEF IInv, Turns, Quitting, AgentSpent, At, ChatSpent, DebugSees
<1>7. Fresh'
  BY <1>2, Distinct DEF IInv, Nested, Offering, Turns, Fresh, AgentSpent, At,
       ChatConsumes, ChatSpent, DebugConsumes, DebugSees, Live, Outermost, ToChat,
       ToDebug
<1>8. Answering'
  BY <1>2 DEF IInv, Nested, Offering, Fresh, Answering, ChatConsumes, Good, Live,
       ToChat
<1>9. Telling'
  BY <1>2 DEF IInv, Telling, AgentSpent, At, ChatSpent, DebugSees, Heard, ToDebug
<1> QED
  BY <1>1, <1>3, <1>4, <1>5, <1>6, <1>7, <1>8, <1>9 DEF IInv

\* Triggers have fired: the agent runs on.
LEMMA PicksUpKeeps ==
  ASSUME IInv, (\E F \in SUBSET Interrupts : PicksUp(F)) /\ UNCHANGED <<debugVars, chatVars, hostVars>>
  PROVE  IInv'
<1> USE DEF PicksUp, agentVars, debugVars, chatVars, hostVars, debugOnly
<1>1. TypeOK'
  <2>1. pc' \in [Layers -> Places]
    BY DEF IInv, TypeOK, StreamsTypeOK, Places
  <2>2. args["agent"] \in [input : SUBSET Interrupts, resume : BOOLEAN, stops : BOOLEAN]
    BY DEF IInv, TypeOK, StreamsTypeOK, Layers
  <2>3. PICK F \in SUBSET Interrupts : args' = [args EXCEPT !["agent"].input = F]
    OBVIOUS
  <2> DEFINE next == [args["agent"] EXCEPT !.input = F]
  <2>4. /\ next \in [input : SUBSET Interrupts, resume : BOOLEAN, stops : BOOLEAN]
        /\ args' = [args EXCEPT !["agent"] = next]
    BY <2>2, <2>3
  <2>5. args' \in [Layers -> [input : SUBSET Interrupts, resume : BOOLEAN, stops : BOOLEAN]]
    BY <2>4 DEF IInv, TypeOK, StreamsTypeOK
  <2> QED
    BY <2>1, <2>5 DEF IInv, TypeOK, StreamsTypeOK, DebugTypeOK, ChatTypeOK
<1>2. /\ pc["agent"] = "handling" /\ At(pc', pc["debug"], pc["chat"], "running")
      /\ At(args', args["debug"], args["chat"], args["agent"]')
      /\ args["agent"].resume' = args["agent"].resume /\ args["agent"].input' \subseteq open
      /\ args["agent"].stops' = args["agent"].stops
      /\ UNCHANGED <<stack, streams, yields, open, answered, first, result, mode, completed,
                     quit, toAsk, replies, over, exchange, host, seen, failed>>
  BY DEF IInv, TypeOK, StreamsTypeOK, Layers, At
<1> HIDE DEF PicksUp, agentVars, debugVars, chatVars, hostVars, debugOnly
<1>3. Answering' /\ Stopping' /\ Finishing'
  BY <1>2 DEF IInv, Answering, Stopping, Finishing, At
<1>4. Nested'
  BY <1>2 DEF IInv, Nested, At, ChatConsumes, DebugConsumes, Live, Outermost
<1>5. Offering'
  BY <1>2 DEF IInv, Offering, At, ToChat, ToDebug
<1>6. Turns' /\ Quitting'
  BY <1>2 DEF IInv, Turns, Quitting, AgentSpent, At, ChatSpent, DebugSees
<1>7. Fresh'
  BY <1>2, Distinct DEF IInv, Nested, Fresh, AgentSpent, At, ChatConsumes, ChatSpent,
       DebugConsumes, DebugSees, Fitting, Good, Live, Outermost
<1>8. Starting'
  BY <1>2 DEF IInv, Fresh, Starting, At
<1>9. Telling'
  BY <1>2 DEF IInv, Telling, AgentSpent, At, ChatSpent, DebugSees, Heard, ToDebug
<1> QED
  BY <1>1, <1>3, <1>4, <1>5, <1>6, <1>7, <1>8, <1>9 DEF IInv

\* The agent's stream yields how the last pass ended.
LEMMA HandsOnKeeps ==
  ASSUME IInv, (\E kind \in Results : HandsOn(kind)) /\ UNCHANGED <<debugVars, chatVars, hostVars>>
  PROVE  IInv'
<1> USE DEF HandsOn, Results, agentVars, debugVars, chatVars, hostVars, debugOnly
<1>1. TypeOK'
  <2>1. pc' \in [Layers -> Places]
    BY DEF IInv, TypeOK, StreamsTypeOK, Places
  <2>2. yields' \in [Layers -> Results \cup {"none"}] /\ result' \in Results
    BY DEF IInv, TypeOK, StreamsTypeOK
  <2>3. first' \in Interrupts /\ breaks' \in 0..MaxBreaks
    BY DEF IInv, TypeOK, StreamsTypeOK
  <2> QED
    BY <2>1, <2>2, <2>3 DEF IInv, TypeOK, StreamsTypeOK, DebugTypeOK, ChatTypeOK
<1>2. /\ pc["agent"] = "handling" /\ At(pc', pc["debug"], pc["chat"], "yielding")
      /\ At(yields', yields["debug"], yields["chat"], result')
      /\ result' # "none"
      /\ result' = "breakpoint" => args["agent"].stops
      /\ result' = "suspended" => first' \in open
      /\ UNCHANGED <<stack, streams, args, open, answered, mode, completed, quit, toAsk,
                     replies, over, exchange, host, seen, failed>>
  BY DEF IInv, TypeOK, StreamsTypeOK, Layers, At
<1> HIDE DEF HandsOn, Results, agentVars, debugVars, chatVars, hostVars, debugOnly
<1>3. Starting' /\ Answering' /\ Stopping'
  BY <1>2 DEF IInv, Starting, Answering, Stopping, At
<1>4. Nested'
  BY <1>2 DEF IInv, Nested, At, ChatConsumes, DebugConsumes, Live, Outermost
<1>5. Offering'
  BY <1>2 DEF IInv, Offering, At, ToChat, ToDebug
<1>6. Turns' /\ Quitting'
  BY <1>2 DEF IInv, Turns, Quitting, AgentSpent, At, ChatSpent, DebugSees
<1>7. Fresh'
  BY <1>2, Distinct DEF IInv, Nested, Offering, Turns, Fresh, AgentSpent, At,
       ChatConsumes, ChatSpent, DebugConsumes, DebugSees, Live, Outermost, ToChat
<1>8. Telling'
  BY <1>2, Distinct DEF IInv, Nested, Offering, Turns, Telling, AgentSpent, At,
       ChatConsumes, ChatSpent, DebugConsumes, DebugSees, Live, ToChat, ToDebug
<1>9. Finishing'
  BY <1>2, Distinct DEF IInv, Nested, Offering, Turns, Quitting, Finishing,
       AgentSpent, At, ChatConsumes, ChatSpent, DebugConsumes, DebugSees, Live,
       ToChat, ToDebug
<1> QED
  BY <1>1, <1>3, <1>4, <1>5, <1>6, <1>7, <1>8, <1>9 DEF IInv

\* The agent's stream ends after its result.
LEMMA AgentEndsKeeps ==
  ASSUME IInv, AgentEnds /\ UNCHANGED <<debugVars, chatVars, hostVars>>
  PROVE  IInv'
<1> USE DEF AgentEnds, agentVars, debugVars, chatVars, hostVars, debugOnly
<1>1. TypeOK'
  <2>1. StreamsTypeOK'
    BY DEF IInv, TypeOK, StreamsTypeOK, Places, Layers
  <2> QED
    BY <2>1 DEF IInv, TypeOK, DebugTypeOK, ChatTypeOK
<1>2. /\ pc["agent"] = "yielding" /\ yields["agent"] = "none"
      /\ At(pc', pc["debug"], pc["chat"], "ended")
      /\ UNCHANGED <<stack, streams, yields, args, open, answered, first, result,
                     mode, completed, quit, toAsk, replies, over, exchange,
                     host, seen, failed>>
  BY Wiring DEF IInv, TypeOK, StreamsTypeOK, Layers, At, Outermost
<1> HIDE DEF AgentEnds, agentVars, debugVars, chatVars, hostVars, debugOnly
<1>3. Starting' /\ Answering' /\ Stopping'
  BY <1>2 DEF IInv, Starting, Answering, Stopping, At
<1>4. Nested'
  BY <1>2 DEF IInv, Nested, At, ChatConsumes, DebugConsumes, Live, Outermost
<1>5. Offering'
  BY <1>2 DEF IInv, Offering, At, ToChat, ToDebug
<1>6. Turns' /\ Quitting'
  BY <1>2 DEF IInv, Turns, Quitting, AgentSpent, At, ChatSpent, DebugSees
<1>7. Fresh'
  BY <1>2 DEF IInv, Fresh, AgentSpent, At, ChatSpent, DebugSees, Fitting, Good
<1>8. Telling'
  BY <1>2 DEF IInv, Telling, AgentSpent, At, ChatSpent, DebugSees, Heard, ToDebug
<1>9. Finishing'
  BY <1>2 DEF IInv, Finishing, AgentSpent, At, ChatSpent, DebugSees, ToChat, ToDebug
<1> QED
  BY <1>1, <1>3, <1>4, <1>5, <1>6, <1>7, <1>8, <1>9 DEF IInv

\* A layer raises: the streams around it end with the error.
LEMMA RaiseKeeps ==
  ASSUME IInv, (Fail \/ Unsupported)
  PROVE  IInv'
<1> USE DEF Fail, Unsupported, Raise, agentVars, debugVars, chatVars, hostVars,
     debugOnly
<1>1. TypeOK'
  <2>1. /\ pc' \in [Layers -> Places] /\ yields' \in [Layers -> Results \cup {"none"}]
        /\ UNCHANGED <<stack, args, agentVars, fired>>
    BY DEF IInv, TypeOK, StreamsTypeOK, Places
  <2>2. /\ told' \in {told, "error"} /\ exchange' \in {exchange, "error"}
        /\ host' = "done" /\ failed' = TRUE
        /\ UNCHANGED <<streams, mode, completed, quit, toAsk, replies, over, seen>>
    OBVIOUS
  <2> HIDE DEF Fail, Unsupported
  <2>3. StreamsTypeOK'
    BY <2>1 DEF IInv, TypeOK, StreamsTypeOK
  <2>4. DebugTypeOK' /\ ChatTypeOK'
    BY <2>2 DEF IInv, TypeOK, DebugTypeOK, ChatTypeOK
  <2> QED
    BY <2>1, <2>2, <2>3, <2>4 DEF IInv, TypeOK
<1>2. /\ At(pc', "off", "off", "off")
      /\ At(yields', "none", "none", "none")
      /\ host' = "done" /\ failed' /\ exchange' \in {exchange, "error"}
      /\ UNCHANGED <<stack, streams, args, open, answered, first, result, mode,
                     completed, quit, toAsk, replies, over, seen>>
  BY Wiring DEF IInv, TypeOK, StreamsTypeOK, Layers, At, Outermost
<1> HIDE DEF Fail, Unsupported, Raise, agentVars, debugVars, chatVars, hostVars,
     debugOnly
<1>3. Offering' /\ Turns' /\ Fresh' /\ Starting' /\ Quitting' /\ Answering'
      /\ Stopping' /\ Telling' /\ Finishing'
  BY <1>2 DEF IInv, Offering, Turns, Fresh, Starting, Quitting, Answering, Stopping,
       Telling, Finishing, At
<1>4. Nested'
  BY <1>2 DEF IInv, Nested, At, ChatConsumes, DebugConsumes, Live, Outermost
<1> QED
  BY <1>1, <1>3, <1>4 DEF IInv

\* A trigger fires outside.
LEMMA FireKeeps ==
  ASSUME IInv, TriggerFires
  PROVE  IInv'
<1> USE DEF TriggerFires, Fire, agentVars, debugVars, chatVars, hostVars, debugOnly
<1>1. TypeOK'
  BY DEF IInv, TypeOK, StreamsTypeOK, DebugTypeOK, ChatTypeOK
<1>2. /\ UNCHANGED <<stack, streams, pc, yields, args, open, answered, first, result,
                     mode, completed, quit, toAsk, replies, over, exchange,
                     host, seen, failed>>
  BY DEF IInv, At
<1> HIDE DEF TriggerFires, Fire, agentVars, debugVars, chatVars, hostVars,
     debugOnly
<1>3. Starting' /\ Answering' /\ Stopping'
  BY <1>2 DEF IInv, Starting, Answering, Stopping
<1>4. Nested'
  BY <1>2 DEF IInv, Nested, ChatConsumes, DebugConsumes, Live, Outermost
<1>5. Offering'
  BY <1>2 DEF IInv, Offering, ToChat, ToDebug
<1>6. Turns' /\ Quitting'
  BY <1>2 DEF IInv, Turns, Quitting, AgentSpent, ChatSpent, DebugSees
<1>7. Fresh'
  BY <1>2 DEF IInv, Fresh, AgentSpent, ChatSpent, DebugSees, Fitting, Good
<1>8. Telling'
  BY <1>2 DEF IInv, Telling, AgentSpent, ChatSpent, DebugSees, Heard, ToDebug
<1>9. Finishing'
  BY <1>2 DEF IInv, Finishing, AgentSpent, ChatSpent, DebugSees, ToChat, ToDebug
<1> QED
  BY <1>1, <1>3, <1>4, <1>5, <1>6, <1>7, <1>8, <1>9 DEF IInv

-----------------------------------------------------------------------------
(* The invariant                                                           *)

\* The invariant holds before the host's call.
LEMMA InitIInv == Init => IInv
<1> SUFFICES ASSUME Init PROVE IInv
  OBVIOUS
<1> USE DEF Init, StreamsInit, DebugInit, ChatInit
<1>1. TypeOK
  <2>1. NoArgs \in [input : SUBSET Interrupts, resume : BOOLEAN, stops : BOOLEAN]
    BY DEF NoArgs
  <2>2. StreamsTypeOK
    BY <2>1 DEF StreamsTypeOK, Places
  <2> QED
    BY <2>2 DEF TypeOK, DebugTypeOK, ChatTypeOK
<1>2. /\ At(pc, "off", "off", "off") /\ At(yields, "none", "none", "none")
      /\ At(args, NoArgs, NoArgs, NoArgs) /\ NoArgs.stops = FALSE
  BY DEF At, Layers, NoArgs
<1>3. Nested /\ Offering
  BY <1>2, Wiring DEF Nested, Offering, Live, Outermost, DebugConsumes, ChatConsumes,
     ToDebug, ToChat, At
<1>4. Turns /\ Quitting /\ Answering
  BY <1>2 DEF Turns, Quitting, Answering, At
<1>5. Fresh /\ Starting
  BY <1>2 DEF Fresh, Starting, At
<1>6. Stopping /\ Telling /\ Finishing
  BY <1>2 DEF Stopping, Telling, Finishing, At
<1> QED
  BY <1>1, <1>3, <1>4, <1>5, <1>6 DEF IInv

\* A step that changes nothing keeps it.
LEMMA StutterKeeps == ASSUME IInv, UNCHANGED vars PROVE IInv'
<1>1. /\ stack' = stack /\ pc' = pc /\ yields' = yields /\ args' = args
      /\ open' = open /\ answered' = answered /\ first' = first /\ result' = result
      /\ fired' = fired /\ breaks' = breaks
  BY DEF vars, streamVars, agentVars
<1>2. /\ streams' = streams /\ mode' = mode /\ completed' = completed /\ told' = told
      /\ quit' = quit
  BY DEF vars, debugVars
<1>3. /\ toAsk' = toAsk /\ replies' = replies /\ over' = over /\ exchange' = exchange
      /\ host' = host /\ seen' = seen /\ failed' = failed
  BY DEF vars, chatVars, hostVars
<1>4. TypeOK'
  BY <1>1, <1>2, <1>3 DEF IInv, TypeOK, StreamsTypeOK, DebugTypeOK, ChatTypeOK
<1>5. /\ \A l : Live(l)' = Live(l)
      /\ Outermost' = Outermost /\ AgentSpent' = AgentSpent /\ ChatSpent' = ChatSpent
      /\ ToDebug' = ToDebug /\ ToChat' = ToChat
  BY <1>1, <1>3 DEF Live, Outermost, AgentSpent, ChatSpent, ToDebug, ToChat
<1>6. /\ DebugConsumes' = DebugConsumes /\ ChatConsumes' = ChatConsumes
      /\ DebugSees' = DebugSees
  BY <1>1, <1>5 DEF DebugConsumes, ChatConsumes, DebugSees
<1>7. Nested'
  BY <1>1, <1>3, <1>5, <1>6 DEF IInv, Nested
<1>8. Offering'
  BY <1>1, <1>2, <1>3, <1>5, <1>6 DEF IInv, Offering
<1>9. Turns'
  BY <1>1, <1>2, <1>3, <1>5, <1>6 DEF IInv, Turns
<1>10. Fresh' /\ Starting'
  BY <1>1, <1>2, <1>3, <1>5, <1>6 DEF IInv, Fresh, Starting, Good, Fitting
<1>11. Quitting' /\ Answering'
  BY <1>1, <1>2, <1>3, <1>5, <1>6 DEF IInv, Quitting, Answering
<1>12. Stopping' /\ Telling'
  BY <1>1, <1>2, <1>3, <1>5, <1>6 DEF IInv, Stopping, Telling, Heard
<1>13. Finishing'
  BY <1>1, <1>2, <1>3, <1>5, <1>6 DEF IInv, Finishing
<1> QED
  BY <1>4, <1>7, <1>8, <1>9, <1>10, <1>11, <1>12, <1>13 DEF IInv

\* So does every step of the debug loop, of the chat loop, and of the session.
LEMMA DebugStepKeeps ==
  ASSUME IInv, DebugStep /\ UNCHANGED <<chatVars, hostVars>>
  PROVE  IInv'
BY ConnectKeeps, InitialResumeKeeps, InitialTimeoutKeeps, CallDelegateKeeps,
   FallbackKeeps, ForwardKeeps, AtBreakpointKeeps, AtSuspensionKeeps, AtEndKeeps,
   ResumedKeeps, QuitTakenKeeps, InnerEndedKeeps, CompleteKeeps DEF DebugStep

LEMMA ChatStepKeeps ==
  ASSUME IInv, ChatStep /\ UNCHANGED <<debugVars, hostVars>>
  PROVE  IInv'
BY ChatCallKeeps, AskForKeeps, ReplyKeeps, AllRepliedKeeps, HandOutKeeps,
   HandedOutKeeps, ChatEndsKeeps DEF ChatStep

LEMMA NextKeeps == IInv /\ [Next]_vars => IInv'
<1> SUFFICES ASSUME IInv, [Next]_vars PROVE IInv'
  OBVIOUS
<1>1. CASE Step
  <2>1. CASE DebugStep /\ UNCHANGED <<chatVars, hostVars>>
    BY <2>1, DebugStepKeeps
  <2>2. CASE ChatStep /\ UNCHANGED <<debugVars, hostVars>>
    BY <2>2, ChatStepKeeps
  <2>3. CASE AgentStep /\ UNCHANGED <<debugVars, chatVars, hostVars>>
    BY <2>3, PassKeeps, PicksUpKeeps, HandsOnKeeps, AgentEndsKeeps DEF AgentStep
  <2> QED
    BY <1>1, <2>1, <2>2, <2>3, RaiseKeeps, HostCallsKeeps, HostTakesKeeps, HostDoneKeeps
       DEF Step
<1> QED
  BY <1>1, QuitKeeps, RaiseKeeps, FireKeeps, StutterKeeps DEF Next, Over

\* The inductive invariant holds in every reachable state.
THEOREM Invariance == Spec => []IInv
BY InitIInv, NextKeeps, PTL DEF Spec

-----------------------------------------------------------------------------
(* The properties                                                          *)

\* The type invariant.
THEOREM TypeCorrect == Spec => []TypeOK
<1>1. IInv => TypeOK
  BY DEF IInv
<1> QED
  BY <1>1, Invariance, PTL

\* No answer is sent to the agent a second time (debug/runtime.py, the input of
\* the next pass; chat/runtime.py, resume_map).
THEOREM NoAnswerIsSentTwice == Spec => []AnswersAreFresh
<1>1. IInv => AnswersAreFresh
  BY DEF IInv, Fresh, Good, AnswersAreFresh
<1> QED
  BY <1>1, Invariance, PTL

\* Every pass after the first one resumes the agent, through both wrappers.
THEOREM AlwaysResumed == Spec => []NeverStartedAfresh
<1>1. IInv => NeverStartedAfresh
  BY DEF IInv, Fresh, Good, NeverStartedAfresh
<1> QED
  BY <1>1, Invariance, PTL

\* The last result the host got is how the agent ended, or SUCCESSFUL after a
\* quit.
THEOREM HostLearnsTheOutcome == Spec => []OutcomeIsTold
<1>1. ASSUME IInv PROVE OutcomeIsTold
  <2> SUFFICES ASSUME host = "done", ~failed, stack # ChatOutside
               PROVE  IF quit THEN seen = "successful"
                      ELSE seen = result /\ result # "breakpoint"
    BY <1>1 DEF OutcomeIsTold
  <2>1. CASE stack = ChatAlone
    <3>1. pc["chat"] = "ended" /\ ~quit
      BY <1>1, <2>1, Distinct DEF IInv, Nested, Outermost, Quitting
    <3> QED
      BY <1>1, <2>1, <3>1 DEF IInv, Telling, Stopping
  <2>2. CASE stack # ChatAlone
    <3>1. stack \in {DebugAlone, ChatInside}
      BY <1>1, <2>2, Wiring DEF IInv, TypeOK, StreamsTypeOK
    <3>2. pc["debug"] = "ended"
      BY <1>1, <3>1 DEF IInv, Nested, Outermost
    <3> QED
      BY <1>1, <3>1, <3>2 DEF IInv, Telling, Heard
  <2> QED
    BY <2>1, <2>2
<1> QED
  BY <1>1, Invariance, PTL

\* At the end every reply of the chat user is with the agent.
THEOREM NoReplyIsDropped == Spec => []RepliesReachTheAgent
<1>1. ASSUME IInv PROVE RepliesReachTheAgent
  <2> SUFFICES ASSUME host = "done", ~failed, stack # ChatOutside
               PROVE  replies \subseteq answered
    BY <1>1 DEF RepliesReachTheAgent
  <2>1. ~Live(Outermost)
    BY <1>1, Distinct DEF IInv, Nested, Live
  <2>2. pc["chat"] \notin {"asking", "calling"} /\ pc["agent"] # "running"
    BY <1>1, <2>1, Wiring, Distinct DEF IInv, TypeOK, Nested, Live, Outermost,
       DebugConsumes, ChatConsumes
  <2> QED
    BY <1>1, <2>2 DEF IInv, Answering
<1> QED
  BY <1>1, Invariance, PTL

\* The conversation's turn ends when the agent has finished, neither before
\* nor never.
THEOREM TurnEndsWithTheAgent == Spec => []ExchangeEndsWithTheAgent
<1>1. ASSUME IInv PROVE ExchangeEndsWithTheAgent
  <2>1. exchange = "ended" => result = "successful" \/ quit
    BY <1>1 DEF IInv, Finishing
  <2>2. ASSUME host = "done", ~failed, HasLayer("chat"), result = "successful"
        PROVE  exchange = "ended"
    <3>1. stack # DebugAlone /\ ~Live(Outermost)
      BY <1>1, <2>2, Wiring DEF IInv, TypeOK, Nested, Live
    <3>2. pc["chat"] \notin {"consuming", "yielding"}
      BY <1>1, <3>1, Wiring, Distinct DEF IInv, TypeOK, Nested, Live, Outermost,
         DebugConsumes
    <3> QED
      BY <1>1, <2>2, <3>1, <3>2 DEF IInv, Finishing
  <2> QED
    BY <2>1, <2>2 DEF ExchangeEndsWithTheAgent
<1> QED
  BY <1>1, Invariance, PTL

\* After the debugger's user has quit no step runs the agent.
THEOREM QuitEndsTheAgent == Spec => QuitIsFinal
<1>1. ASSUME IInv, quit PROVE pc["agent"] \notin AgentAtWork
  <2>1. stack # ChatAlone /\ (pc["debug"] = "consuming" => DebugSees)
        /\ pc["debug"] \notin {"yielding", "paused", "replying", "polling"}
    BY <1>1 DEF IInv, Quitting
  <2>2. CASE stack = ChatInside
    <3>1. pc["agent"] \in AgentAtWork =>
            pc["chat"] = "consuming" /\ yields["chat"] = "none" /\ yields["agent"] = "none"
      BY <1>1, <2>2, Distinct DEF IInv, Nested, Offering, ChatConsumes, Live, ToChat
    <3>2. pc["agent"] \in AgentAtWork => pc["debug"] = "consuming"
      BY <1>1, <2>1, <2>2, <3>1, Distinct DEF IInv, Nested, Offering, DebugConsumes, Live,
         ToDebug
    <3>3. pc["agent"] \in AgentAtWork => ~over
      BY <1>1, <2>2, <3>1, Distinct DEF IInv, Turns, AgentSpent
    <3> QED
      BY <2>1, <2>2, <3>1, <3>2, <3>3 DEF DebugSees, ChatSpent
  <2>3. CASE stack # ChatInside
    BY <1>1, <2>1, <2>3, Distinct DEF IInv, Nested, Offering, DebugConsumes, Live,
         ToDebug, DebugSees,
       AgentSpent
  <2> QED
    BY <2>2, <2>3
<1>2. Next => UNCHANGED agentVars \/ pc["agent"] \in AgentAtWork
  BY DEF Next, Step, DebugStep, ChatStep, AgentStep, Pass, PicksUp, HandsOn, AgentEnds, Fail, Unsupported,
     Raise, TriggerFires, Fire, Over, UserQuits, Quit, HostCalls, HostTakes, HostDone,
     Connect, InitialResume, InitialTimeout, CallDelegate, Fallback, Forward, AtBreakpoint,
     AtSuspension, AtEnd, BreakpointResume, ReplyResume, PollResume, ResumeWith, QuitTaken,
     InnerEnded, Complete, ChatCall, AskFor, Reply, AllReplied, HandOut, HandedOut,
     ChatEnds, debugOnly, vars, streamVars
<1>3. IInv /\ [Next]_vars => [quit => UNCHANGED agentVars]_vars
  BY <1>1, <1>2
<1> QED
  BY <1>3, Invariance, PTL DEF Spec, QuitIsFinal

-----------------------------------------------------------------------------
(* The contract with the agent                                             *)

\* No interrupt is both waited on and answered, and nothing runs after a fault.
Apart ==
  /\ open \cap answered = {}
  /\ failed => host = "done"

CInv == IInv /\ Apart

\* The steps that change what the contract is about.
LEMMA Touches ==
  ASSUME Next
  PROVE  \/ UNCHANGED <<open, answered, failed>> /\ (host = "done" => host' = "done")
         \/ UNCHANGED <<failed, host>> /\ \E New, A \in SUBSET Interrupts : Pass(New, A)
         \/ UNCHANGED <<open, answered>> /\ host' = "done"
BY DEF Next, Step, DebugStep, ChatStep, AgentStep, PicksUp, HandsOn, AgentEnds, Fail,
   Unsupported, Raise, TriggerFires, Fire, Over, UserQuits, Quit, HostCalls, HostTakes,
   HostDone, Connect, InitialResume, InitialTimeout, CallDelegate, Fallback, Forward,
   AtBreakpoint, AtSuspension, AtEnd, BreakpointResume, ReplyResume, PollResume, ResumeWith,
   QuitTaken, InnerEnded, Complete, ChatCall, AskFor, Reply, AllReplied, HandOut, HandedOut,
   ChatEnds, debugOnly, vars, streamVars, agentVars, hostVars

LEMMA CInvAlways == Spec => []CInv
<1>1. Init => Apart
  BY DEF Init, StreamsInit, Apart
<1>2. IInv /\ Apart /\ [Next]_vars => Apart'
  <2> SUFFICES ASSUME Apart, [Next]_vars PROVE Apart'
    OBVIOUS
  <2>1. CASE UNCHANGED <<open, answered, failed>> /\ (host = "done" => host' = "done")
    BY <2>1 DEF Apart
  <2>2. ASSUME UNCHANGED <<failed, host>>, NEW New \in SUBSET Interrupts,
               NEW A \in SUBSET Interrupts, Pass(New, A)
        PROVE  Apart'
    BY <2>2 DEF Apart, Pass
  <2>3. CASE UNCHANGED <<open, answered>> /\ host' = "done"
    BY <2>3 DEF Apart
  <2>4. CASE UNCHANGED vars
    BY <2>4 DEF Apart, vars, streamVars, agentVars, hostVars
  <2> QED
    BY <2>1, <2>2, <2>3, <2>4, Touches
<1> QED
  BY <1>1, <1>2, Invariance, PTL DEF Spec, CInv

\* After a fault no stream is under way.
LEMMA Unharmed ==
  ASSUME CInv, NEW l \in Layers, Live(l)
  PROVE  ~failed
<1>1. Live(Outermost)
  BY Wiring, Distinct DEF CInv, IInv, TypeOK, Nested, Live, Outermost, DebugConsumes,
     ChatConsumes, Layers
<1> QED
  BY <1>1 DEF CInv, IInv, Apart, Nested

\* The agent runs neither after a fault nor after its end.
LEMMA WorksUnharmed ==
  ASSUME CInv, pc["agent"] \in AgentAtWork
  PROVE  ~failed /\ result \notin {"successful", "faulted"}
<1>1. Live("agent")
  BY DEF Live
<1> QED
  BY <1>1, Unharmed DEF CInv, IInv, Finishing, Layers

-----------------------------------------------------------------------------
\* A wrapper calls the agent with the arguments it has kept for it.
LEMMA CallKept ==
  ASSUME CInv, NEW l \in {"debug", "chat"}, pc[l] = "calling", Fitting(l),
         pc["agent"] \notin AgentAtWork,
         pc'["agent"] = "running", args'["agent"].input = args[l].input,
         UNCHANGED <<open, answered, fired, result, failed>>
  PROVE  Contract!Call
<1>1. result \notin {"successful", "faulted"} /\ open \subseteq Interrupts
  BY DEF CInv, IInv, TypeOK, StreamsTypeOK, Finishing
<1>2. /\ args[l].input \subseteq open
      /\ args[l].input # {} <=> result = "suspended"
  BY DEF Fitting, Good
<1>3. ~failed
  BY Unharmed DEF Live, Layers
<1> QED
  BY <1>1, <1>2, <1>3 DEF Contract!Call, Contract!Proper, Contract!Final

\* The contract does not see what leaves the agent and its arguments alone.
LEMMA Unseen ==
  ASSUME UNCHANGED <<open, answered, fired, result, failed>>,
         pc["agent"] \in AgentAtWork <=> pc'["agent"] \in AgentAtWork,
         pc["agent"] = "running" <=> pc'["agent"] = "running",
         pc["agent"] = "running" => args'["agent"].input = args["agent"].input
  PROVE  UNCHANGED Contract!vars
BY DEF Contract!vars

LEMMA CallDelegateKept ==
  ASSUME CInv, CallDelegate /\ UNCHANGED <<chatVars, hostVars>>
  PROVE  Contract!Call \/ UNCHANGED Contract!vars
<1>1. stack \in Stacks /\ pc \in [Layers -> Places] /\ pc["debug"] = "calling"
      /\ args \in [Layers -> [input : SUBSET Interrupts, resume : BOOLEAN, stops : BOOLEAN]]
      /\ UNCHANGED <<open, answered, fired, result, failed>>
  BY DEF CInv, IInv, TypeOK, StreamsTypeOK, CallDelegate, CallInner, agentVars, hostVars
<1>2. CASE stack = ChatInside
  <2>1. pc'["agent"] = pc["agent"] /\ args'["agent"] = args["agent"]
    BY <1>1, <1>2, Wiring, Distinct DEF CallDelegate, CallInner, Layers
  <2> QED
    BY <1>1, <2>1, Unseen
<1>3. CASE stack # ChatInside
  <2>1. stack # ChatAlone
    BY <1>1, Wiring DEF CInv, IInv, Nested
  <2>2. pc'["agent"] = "running" /\ args'["agent"].input = args["debug"].input
    BY <1>1, <1>3, <2>1, Wiring, Distinct DEF CallDelegate, CallInner, InnerArgs, Start,
       Layers
  <2>3. Fitting("debug") /\ pc["agent"] \notin AgentAtWork
    BY <1>1, <1>3, <2>1 DEF CInv, IInv, Fresh, Nested, DebugConsumes, Live
  <2> QED
    BY <1>1, <2>2, <2>3, CallKept
<1> QED
  BY <1>2, <1>3

LEMMA ChatCallKept ==
  ASSUME CInv, ChatCall /\ UNCHANGED <<debugVars, hostVars>>
  PROVE  Contract!Call \/ UNCHANGED Contract!vars
<1>1. stack \in Stacks /\ pc \in [Layers -> Places] /\ pc["chat"] = "calling"
      /\ args \in [Layers -> [input : SUBSET Interrupts, resume : BOOLEAN, stops : BOOLEAN]]
      /\ UNCHANGED <<open, answered, fired, result, failed>>
  BY DEF CInv, IInv, TypeOK, StreamsTypeOK, ChatCall, CallInner, agentVars, hostVars
<1>2. CASE stack = ChatOutside
  <2>1. pc'["agent"] = pc["agent"] /\ args'["agent"] = args["agent"]
    BY <1>1, <1>2, Wiring, Distinct DEF ChatCall, CallInner, Layers
  <2> QED
    BY <1>1, <2>1, Unseen
<1>3. CASE stack # ChatOutside
  <2>1. stack # DebugAlone
    BY <1>1, Wiring DEF CInv, IInv, Nested
  <2>2. pc'["agent"] = "running" /\ args'["agent"].input = args["chat"].input
    BY <1>1, <1>3, <2>1, Wiring, Distinct DEF ChatCall, CallInner, Start, Layers
  <2>3. Fitting("chat") /\ pc["agent"] \notin AgentAtWork
    BY <1>1, <1>3, <2>1 DEF CInv, IInv, Fresh, Nested, ChatConsumes, Live
  <2> QED
    BY <1>1, <2>2, <2>3, CallKept
<1> QED
  BY <1>2, <1>3

\* A pass gets the answers it was called with, or those of fired triggers.
LEMMA PassKept ==
  ASSUME CInv, NEW New \in SUBSET Interrupts, NEW A \in SUBSET Interrupts, Pass(New, A),
         UNCHANGED <<debugVars, chatVars, hostVars>>
  PROVE  \E P \in SUBSET Interrupts : Contract!Pass(P)
<1> DEFINE Input == args["agent"].input
           P == IF Input = {} THEN A ELSE {}
<1>1. pc["agent"] = "running" /\ pc' = [pc EXCEPT !["agent"] = "handling"]
      /\ UNCHANGED <<fired, result>> /\ UNCHANGED failed
  BY DEF Pass, hostVars
<1>2. pc'["agent"] = "handling" /\ open \subseteq Interrupts /\ Input \subseteq open
  BY <1>1 DEF CInv, IInv, TypeOK, StreamsTypeOK, Layers, Fresh, Good
<1>3. A = open \cap (Input \cup P) /\ P \subseteq open \cap fired
  BY <1>2 DEF Pass
<1>4. ~args["agent"].resume => open = {} /\ answered = {}
  BY <1>1, WorksUnharmed DEF CInv, IInv, Fresh, Good, Starting
<1>5. answered' = answered \cup A /\ open' = (open \ A) \cup New
  BY <1>3, <1>4 DEF Pass
<1>6. open \ open' = A /\ open' \subseteq Interrupts \ answered'
  BY <1>2, <1>3, <1>5 DEF Pass, CInv, Apart
<1> HIDE DEF P
<1> QED
  BY <1>1, <1>2, <1>3, <1>5, <1>6, P \in SUBSET Interrupts DEF Contract!Pass

\* The other steps of the agent.
LEMMA PicksUpKept ==
  ASSUME CInv, NEW F \in SUBSET Interrupts, PicksUp(F),
         UNCHANGED <<debugVars, chatVars, hostVars>>
  PROVE  Contract!PickUp
<1>1. pc["agent"] = "handling" /\ pc'["agent"] = "running" /\ args'["agent"].input = F
      /\ UNCHANGED <<open, answered, fired, result, failed>> /\ F \subseteq open \cap fired
  BY DEF CInv, IInv, TypeOK, StreamsTypeOK, PicksUp, Layers, agentVars, hostVars
<1> QED
  BY <1>1 DEF Contract!PickUp

LEMMA HandsOnKept ==
  ASSUME CInv, NEW kind \in Results, HandsOn(kind),
         UNCHANGED <<debugVars, chatVars, hostVars>>
  PROVE  Contract!Return
<1>1. /\ pc["agent"] = "handling" /\ pc'["agent"] = "yielding" /\ result' = kind
      /\ kind = "suspended" => open # {}
      /\ kind = "successful" => open = {}
      /\ UNCHANGED <<open, answered, fired, failed>>
  BY DEF CInv, IInv, TypeOK, StreamsTypeOK, HandsOn, Layers, hostVars
<1>2. ~failed
  BY <1>1, WorksUnharmed
<1> QED
  BY <1>1, <1>2 DEF Contract!Return, Contract!Final, Results

\* A fault ends the run.
LEMMA RaiseKept ==
  ASSUME CInv, Fail \/ Unsupported
  PROVE  Contract!BreakOff
<1>1. /\ failed' /\ pc'["agent"] = "off"
      /\ UNCHANGED <<open, answered, fired, result>>
  BY DEF Fail, Unsupported, Raise, Layers, agentVars
<1>2. pc["agent"] \in AgentAtWork => result \notin {"successful", "faulted"}
  BY WorksUnharmed
<1> QED
  BY <1>1, <1>2 DEF Contract!BreakOff, Contract!Final

LEMMA TriggerFiresKept ==
  ASSUME TriggerFires
  PROVE  Contract!Fire
<1>1. /\ fired \subseteq fired' /\ fired' \subseteq fired \cup open
      /\ UNCHANGED <<pc, args, open, answered, result, failed>>
  BY DEF TriggerFires, Fire, agentVars, hostVars
<1> QED
  BY <1>1 DEF Contract!Fire

\* Going over to execute() keeps the input.
LEMMA FallbackUnseen ==
  ASSUME CInv, Fallback, UNCHANGED <<chatVars, hostVars>>
  PROVE  UNCHANGED Contract!vars
<1>1. stack \in Stacks
  BY DEF CInv, IInv, TypeOK
<1>2. args'["agent"].input = args["agent"].input
  BY <1>1, Wiring DEF CInv, IInv, TypeOK, StreamsTypeOK, Fresh, Fallback, Layers
<1> QED
  BY <1>2, Unseen DEF Fallback, agentVars, hostVars

\* What the host does, and the rest of the two loops.
LEMMA LoopsUnseen ==
  ASSUME CInv,
         \/ HostCalls \/ HostTakes \/ HostDone
         \/ /\ \/ Connect \/ InitialResume \/ InitialTimeout
               \/ Forward \/ AtBreakpoint \/ AtSuspension \/ AtEnd
               \/ BreakpointResume \/ ReplyResume \/ PollResume
               \/ QuitTaken \/ InnerEnded \/ Complete \/ Quit
            /\ UNCHANGED hostVars
         \/ /\ \/ AskFor \/ (\E i \in toAsk : Reply(i)) \/ HandOut \/ HandedOut \/ ChatEnds
            /\ UNCHANGED hostVars
  PROVE  UNCHANGED Contract!vars
<1>1. /\ stack \in Stacks /\ pc \in [Layers -> Places]
      /\ args \in [Layers -> [input : SUBSET Interrupts, resume : BOOLEAN, stops : BOOLEAN]]
  BY DEF CInv, IInv, TypeOK, StreamsTypeOK
<1>2. UNCHANGED <<open, answered, fired, result, failed>>
  BY DEF HostCalls, HostTakes, HostDone, Connect, InitialResume, InitialTimeout, Forward,
     AtBreakpoint, AtSuspension, AtEnd, BreakpointResume, ReplyResume, PollResume,
     ResumeWith, QuitTaken, InnerEnded, Complete, Quit, AskFor, Reply, HandOut,
     HandedOut, ChatEnds, debugOnly, streamVars, agentVars, hostVars
<1>3. args'["agent"] = args["agent"]
  BY <1>1 DEF HostCalls, HostTakes, HostDone, Connect, InitialResume, InitialTimeout, Forward,
     AtBreakpoint, AtSuspension, AtEnd, BreakpointResume, ReplyResume, PollResume,
     ResumeWith, QuitTaken, InnerEnded, Complete, Quit, AskFor, Reply, HandOut,
     HandedOut, ChatEnds, debugOnly, streamVars, Layers
<1>4. Top # "agent"
  BY <1>1, Wiring DEF Outermost
<1>5. pc'["agent"] = pc["agent"]
  BY <1>1, <1>4 DEF HostCalls, HostTakes, HostDone, Connect, InitialResume, InitialTimeout,
     Forward, AtBreakpoint, AtSuspension, AtEnd, BreakpointResume, ReplyResume, PollResume,
     ResumeWith, QuitTaken, InnerEnded, Complete, Quit, AskFor, Reply, HandOut,
     HandedOut, ChatEnds, Goes, ChatGoes, streamVars, Layers
<1> QED
  BY <1>2, <1>3, <1>5, Unseen

\* The chat leaves, and the agent ends, a stream that has offered its result.
LEMMA AllRepliedUnseen ==
  ASSUME CInv, AllReplied, UNCHANGED hostVars
  PROVE  UNCHANGED Contract!vars
<1>1. /\ UNCHANGED <<open, answered, fired, result, failed>>
      /\ args'["agent"] = args["agent"]
      /\ pc'["agent"] \in {pc["agent"], "off"}
  BY DEF CInv, IInv, TypeOK, StreamsTypeOK, AllReplied, Dropped, Layers, agentVars, hostVars
<1>2. yields["agent"] # "none"
  <2>1. pc["chat"] = "asking" /\ ToChat = "suspended"
    BY DEF AllReplied, CInv, IInv, Offering
  <2>2. stack = ChatOutside => pc["debug"] = "yielding"
    BY <2>1 DEF CInv, IInv, Offering, ToChat
  <2> QED
    BY <2>1, <2>2, Distinct DEF CInv, IInv, Offering, ToChat, ToDebug
<1>3. pc["agent"] = "yielding"
  BY <1>2 DEF CInv, IInv, Offering
<1> QED
  BY <1>1, <1>3, Unseen

LEMMA AgentEndsUnseen ==
  ASSUME CInv, AgentEnds, UNCHANGED hostVars
  PROVE  UNCHANGED Contract!vars
<1>1. /\ pc["agent"] = "yielding" /\ pc'["agent"] = "ended"
      /\ UNCHANGED <<args, open, answered, fired, result, failed>>
  BY DEF CInv, IInv, TypeOK, StreamsTypeOK, AgentEnds, Layers, agentVars, hostVars
<1> QED
  BY <1>1, Unseen

\* Every step of a session is a step of the contract or leaves it alone.
LEMMA StepsKeep == CInv /\ [Next]_vars => [Contract!Next]_(Contract!vars)
<1> SUFFICES ASSUME CInv, [Next]_vars PROVE Contract!Next \/ UNCHANGED Contract!vars
  OBVIOUS
<1>1. CASE HostCalls \/ HostTakes \/ HostDone
  BY <1>1, LoopsUnseen
<1>2. CASE DebugStep /\ UNCHANGED <<chatVars, hostVars>>
  BY <1>2, LoopsUnseen, CallDelegateKept, FallbackUnseen DEF DebugStep, Contract!Next
<1>3. CASE ChatStep /\ UNCHANGED <<debugVars, hostVars>>
  BY <1>3, LoopsUnseen, ChatCallKept, AllRepliedUnseen DEF ChatStep, Contract!Next
<1>4. CASE AgentStep /\ UNCHANGED <<debugVars, chatVars, hostVars>>
  BY <1>4, PassKept, PicksUpKept, HandsOnKept, AgentEndsUnseen DEF AgentStep, Contract!Next
<1>5. CASE Fail \/ Unsupported
  BY <1>5, RaiseKept DEF Contract!Next
<1>6. CASE TriggerFires
  BY <1>6, TriggerFiresKept DEF Contract!Next
<1>7. CASE UserQuits
  BY <1>7, LoopsUnseen DEF UserQuits
<1>8. CASE UNCHANGED vars
  BY <1>8, Unseen DEF vars, streamVars, agentVars, hostVars
<1> QED
  BY <1>1, <1>2, <1>3, <1>4, <1>5, <1>6, <1>7, <1>8 DEF Next, Step, Over

\* The debug and the chat runtime, in every nesting and whatever their users do,
\* call the agent as its resumable runtime assumes.
THEOREM CallersHonourContract == Spec => HonoursContract
<1>1. Init => Contract!Init
  BY DEF Init, StreamsInit, Layers, Contract!Init
<1>2. CInv /\ [Next]_vars => [Contract!Next]_(Contract!vars)
  BY StepsKeep
<1> QED
  BY <1>1, <1>2, CInvAlways, PTL DEF Spec, HonoursContract, Contract!Spec
=============================================================================
