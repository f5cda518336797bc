------------------------------ MODULE JobProofs ------------------------------
(***************************************************************************)
(* Proofs about JobRun and the RuntimeContext it is built on, for any      *)
(* number of processes and of passes of the agent.                         *)
(***************************************************************************)
EXTENDS JobRun, TLAPS

\* Stretches of __exit__ before the sink is told, with the result at hand.
Delivering == {"building", "arguments", "result", "output", "sink"}

\* The result of the body and the exception that leaves it are one outcome.
Outcome ==
  /\ leaves \in Errors \cup {"none"}
  /\ leaves # "none" => status = "faulted" /\ error = leaves

\* What the result file holds once it is written.
Written == resultFile = IF job THEN Verdict(status, error, split) ELSE Stale

\* How the context can have been left: as it should, by the last-ditch result,
\* or without a result of this run.
Left ==
  \/ Outcome /\ Written /\ (out => outputFile = "whole")
  \/ leaves = "shutdown" /\ told = "nothing" /\ (job => resultFile = Rescued)
  \/ leaves = "write" /\ told = "nothing"

\* Which files and reports there are at each point of __exit__.
Exiting ==
  /\ pc \in {"off", "entered", "body"} =>
       resultFile = Stale /\ told = "nothing" /\ leaves = "none"
  /\ pc \in Delivering => Outcome /\ told = "nothing"
  /\ pc \in {"building", "arguments", "result"} => resultFile = Stale
  /\ pc \in {"result", "output", "sink"} => (Splits => argsFile = "whole")
  /\ pc \in {"output", "sink"} => Written
  /\ pc = "sink" /\ out => outputFile = "whole"
  /\ pc = "rescue" => told = "nothing"
  /\ pc = "teardown" => Left
  /\ pc = "ended" => Left \/ (leaves = "enter" /\ told = "nothing")

\* The result file points to the arguments only if they were split off.
Pointers == resultFile.points => Splits /\ argsFile = "whole"

\* The sink was told what the file says, with the arguments in place.
Told ==
  told # "nothing" =>
    /\ pc \in {"teardown", "ended", "dead"}
    /\ job => resultFile.status = told
    /\ argsFile = "whole"
    /\ pc # "dead" => Left

\* What a suspension has left behind.
Durable ==
  /\ waits # 0 /\ triggers = waits
  /\ Has("hydration") => registry = passes

\* The layers that a suspension has passed have stored their part of it.
Ascending ==
  pc = "body" /\ at > 0 /\ flow = "suspended" =>
    /\ waits # 0 /\ workspace = passes /\ ~answered
    /\ \A i \in 1..Len(stack) : i < at =>
         /\ stack[i] = "resumable" => triggers = waits
         /\ stack[i] = "hydration" => registry = passes

Running ==
  /\ runs = 0 => pc = "off"
  /\ pc # "body" => at = 0 /\ flow = "call" /\ ~answered
  /\ answered => triggers = 0
  /\ at = 0 => flow = "call"
  /\ at > 0 /\ flow = "call" => at <= Len(stack)

Reporting ==
  /\ pc \in Delivering /\ status = "suspended" => Durable
  /\ resultFile.status = "suspended" => pc # "body" /\ Durable

IInv ==
  /\ TypeOK /\ Exiting /\ Pointers /\ Told
  /\ Running /\ Ascending /\ Reporting
-----------------------------------------------------------------------------
USE RunsAssumption DEF config, files, result, contextVars, hostVars, agentVars,
                       bodyVars, Stale, Half, Verdict, Rescued

\* The wrapper stacks are sequences.
LEMMA StackIsASequence ==
  ASSUME NEW s \in Stacks
  PROVE  s \in Seq(Wrappers) /\ Len(s) \in Nat
<1>1. PICK m \in 0..3 : s \in [1..m -> Wrappers]
  BY DEF Stacks, SeqOf
<1>2. s \in Seq(Wrappers)
  BY <1>1
<1> QED
  BY <1>2

LEMMA InitIInv == Init => IInv
<1> SUFFICES ASSUME Init PROVE IInv
  OBVIOUS
<1>1. TypeOK
  <2>1. policy \in Policies
    BY DEF Init, Policies
  <2>2. at \in 0..Len(stack) + 1
    BY StackIsASequence DEF Init
  <2>3. /\ waits \in 0..passes /\ passes \in 0..MaxPasses /\ runs \in 0..MaxRuns
        /\ {registry, workspace} \subseteq 0..passes
    BY DEF Init
  <2> QED
    BY <2>1, <2>2, <2>3 DEF Init, ContextInit, TypeOK, Statuses, Kinds
<1>2. Exiting /\ Pointers /\ Told
  BY DEF Init, ContextInit, Exiting, Pointers, Told, Delivering
<1>3. Running /\ Ascending /\ Reporting
  BY DEF Init, ContextInit, Running, Ascending, Reporting, Delivering
<1> QED
  BY <1>1, <1>2, <1>3 DEF IInv

-----------------------------------------------------------------------------
(* __enter__ and __exit__                                                  *)

LEMMA StartKeeps == ASSUME IInv, Start PROVE IInv'
<1> USE DEF Start, Enter
<1>1. TypeOK'
  BY DEF IInv, TypeOK, Statuses
<1>2. Exiting'
  BY DEF Exiting, Delivering
<1>3. Pointers'
  BY DEF Pointers
<1>4. Told'
  BY DEF Told
<1>5. Running' /\ Ascending'
  <2>1. pc # "body"
    BY DEF IInv, Running
  <2> QED
    BY <2>1 DEF IInv, TypeOK, Running, Ascending
<1>6. Reporting'
  BY DEF Reporting
<1> QED
  BY <1>1, <1>2, <1>3, <1>4, <1>5, <1>6 DEF IInv

LEMMA ContextFailsKeeps == ASSUME IInv, ContextFails PROVE IInv'
<1> USE DEF ContextFails, EnterFails
<1>1. TypeOK'
  BY DEF IInv, TypeOK
<1>2. Exiting'
  BY DEF IInv, Exiting, Delivering
<1>3. Pointers'
  BY DEF IInv, Pointers, Splits
<1>4. Told'
  BY DEF IInv, Told
<1>5. Running' /\ Ascending'
  BY DEF IInv, Running, Ascending
<1>6. Reporting'
  BY DEF IInv, Reporting, Durable, Has, Delivering
<1> QED
  BY <1>1, <1>2, <1>3, <1>4, <1>5, <1>6 DEF IInv

LEMMA InputRaisesKeeps == ASSUME IInv, InputRaises PROVE IInv'
<1> USE DEF InputRaises, BodyRaises
<1>1. TypeOK'
  BY DEF IInv, TypeOK, Statuses, Errors
<1>2. Exiting'
  BY DEF IInv, Exiting, Outcome, Errors
<1>3. Pointers'
  BY DEF IInv, Pointers, Splits
<1>4. Told'
  BY DEF IInv, Told
<1>5. Running' /\ Ascending'
  BY DEF IInv, Running, Ascending
<1>6. Reporting'
  BY DEF IInv, Reporting, Durable, Has
<1> QED
  BY <1>1, <1>2, <1>3, <1>4, <1>5, <1>6 DEF IInv

LEMMA RunBodyKeeps == ASSUME IInv, RunBody PROVE IInv'
<1> USE DEF RunBody
<1>1. TypeOK'
  BY DEF IInv, TypeOK
<1>2. Exiting'
  BY DEF IInv, Exiting, Delivering
<1>3. Pointers'
  BY DEF IInv, Pointers, Splits
<1>4. Told'
  BY DEF IInv, Told
<1>5. Running' /\ Ascending'
  BY DEF IInv, Running, Ascending
<1>6. Reporting'
  BY DEF IInv, Exiting, Reporting, Delivering
<1> QED
  BY <1>1, <1>2, <1>3, <1>4, <1>5, <1>6 DEF IInv

LEMMA BodyEndsKeeps == ASSUME IInv, BodyEnds PROVE IInv'
<1> USE DEF BodyEnds, BodyGone, BodyReturns, BodyRaises
<1>1. TypeOK'
  <2>1. flow # "call" /\ Len(stack) \in Nat
    BY StackIsASequence DEF IInv, TypeOK, Running
  <2>2. status' \in Statuses /\ error' \in Errors \cup {"none"}
    BY <2>1 DEF IInv, TypeOK, Statuses, Errors, Kinds
  <2>3. leaves' \in Errors \cup {"none", "enter", "shutdown", "write"}
    BY DEF IInv, TypeOK
  <2>4. at' \in 0..Len(stack') + 1 /\ pc' = "building"
    BY <2>1
  <2> QED
    BY <2>2, <2>3, <2>4 DEF IInv, TypeOK
<1>2. Exiting'
  BY DEF IInv, Exiting, Outcome
<1>3. Pointers'
  BY DEF IInv, Pointers, Splits
<1>4. Told'
  BY DEF IInv, Told
<1>5. Running' /\ Ascending'
  BY DEF IInv, Running, Ascending
<1>6. Reporting'
  <2>1. Len(stack) \in Nat /\ stack \in Seq(Wrappers)
    BY StackIsASequence DEF IInv, TypeOK
  <2>2. ASSUME flow = "suspended" PROVE Durable
    <3>1. /\ waits # 0
          /\ \A i \in 1..Len(stack) :
               /\ stack[i] = "resumable" => triggers = waits
               /\ stack[i] = "hydration" => registry = passes
      BY <2>1, <2>2 DEF IInv, TypeOK, Ascending
    <3>2. /\ \E i \in 1..Len(stack) : stack[i] = "resumable"
          /\ Has("hydration") => \E i \in 1..Len(stack) : stack[i] = "hydration"
      BY <2>1 DEF IInv, TypeOK, Stacks, Has, ToSet
    <3> QED
      BY <3>1, <3>2 DEF Durable
  <2>3. /\ status' = "suspended" => flow = "suspended"
        /\ resultFile' = Stale
    BY DEF IInv, Exiting
  <2>4. Durable' <=> Durable
    BY DEF Durable, Has
  <2> QED
    BY <2>2, <2>3, <2>4 DEF Reporting
<1> QED
  BY <1>1, <1>2, <1>3, <1>4, <1>5, <1>6 DEF IInv

LEMMA BuildKeeps ==
  ASSUME IInv, Build, UNCHANGED <<hostVars, bodyVars>>
  PROVE  IInv'
<1> USE DEF Build
<1>1. TypeOK'
  BY DEF IInv, TypeOK
<1>2. Exiting'
  BY DEF IInv, Exiting, Outcome, Delivering
<1>3. Pointers'
  BY DEF IInv, Pointers, Splits
<1>4. Told'
  BY DEF IInv, Told
<1>5. Running' /\ Ascending'
  BY DEF IInv, Running, Ascending
<1>6. Reporting'
  BY DEF IInv, Reporting, Durable, Has, Delivering
<1> QED
  BY <1>1, <1>2, <1>3, <1>4, <1>5, <1>6 DEF IInv

LEMMA WriteArgumentsKeeps ==
  ASSUME IInv, WriteArguments, UNCHANGED <<hostVars, bodyVars>>
  PROVE  IInv'
<1> USE DEF WriteArguments
<1>1. TypeOK'
  BY DEF IInv, TypeOK
<1>2. Exiting'
  BY DEF IInv, Exiting, Outcome, Delivering, Splits
<1>3. Pointers'
  BY DEF IInv, Pointers, Splits
<1>4. Told'
  BY DEF IInv, Told
<1>5. Running' /\ Ascending'
  BY DEF IInv, Running, Ascending
<1>6. Reporting'
  BY DEF IInv, Reporting, Durable, Has, Delivering
<1> QED
  BY <1>1, <1>2, <1>3, <1>4, <1>5, <1>6 DEF IInv

LEMMA WriteResultKeeps ==
  ASSUME IInv, WriteResult, UNCHANGED <<hostVars, bodyVars>>
  PROVE  IInv'
<1> USE DEF WriteResult
<1>1. TypeOK'
  BY DEF IInv, TypeOK
<1>2. Exiting'
  BY DEF IInv, Exiting, Outcome, Written, Delivering, Splits
<1>3. Pointers'
  BY DEF IInv, Exiting, Pointers, Splits
<1>4. Told'
  BY DEF IInv, Told
<1>5. Running' /\ Ascending'
  BY DEF IInv, Running, Ascending
<1>6. Reporting'
  BY DEF IInv, Reporting, Durable, Has, Delivering
<1> QED
  BY <1>1, <1>2, <1>3, <1>4, <1>5, <1>6 DEF IInv

LEMMA WriteOutputKeeps ==
  ASSUME IInv, WriteOutput, UNCHANGED <<hostVars, bodyVars>>
  PROVE  IInv'
<1> USE DEF WriteOutput
<1>1. TypeOK'
  BY DEF IInv, TypeOK
<1>2. Exiting'
  BY DEF IInv, Exiting, Outcome, Written, Delivering, Splits
<1>3. Pointers'
  BY DEF IInv, Pointers, Splits
<1>4. Told'
  BY DEF IInv, Told
<1>5. Running' /\ Ascending'
  BY DEF IInv, Running, Ascending
<1>6. Reporting'
  BY DEF IInv, Reporting, Durable, Has, Delivering
<1> QED
  BY <1>1, <1>2, <1>3, <1>4, <1>5, <1>6 DEF IInv

LEMMA TellKeeps ==
  ASSUME IInv, Tell, UNCHANGED <<hostVars, bodyVars>>
  PROVE  IInv'
<1> USE DEF Tell, Tells, Spills, AfterSink
<1>1. TypeOK'
  BY DEF IInv, TypeOK
<1>2. Exiting'
  BY DEF IInv, Exiting, Outcome, Written, Left, Delivering
<1>3. Pointers'
  BY DEF IInv, Pointers, Splits
<1>4. Told'
  BY DEF IInv, Exiting, Outcome, Written, Left, Told, Delivering
<1>5. Running' /\ Ascending'
  BY DEF IInv, Running, Ascending
<1>6. Reporting'
  BY DEF IInv, Reporting, Durable, Has, Delivering
<1> QED
  BY <1>1, <1>2, <1>3, <1>4, <1>5, <1>6 DEF IInv

LEMMA ExitFailsKeeps ==
  ASSUME IInv, ExitFails, UNCHANGED <<hostVars, bodyVars>>
  PROVE  IInv'
<1> USE DEF ExitFails, Writing, TornWrite, Tells, Spills, AfterSink
<1>1. TypeOK'
  BY DEF IInv, TypeOK
<1>2. Exiting'
  BY DEF IInv, Exiting, Outcome, Written, Left, Delivering
<1>3. Pointers'
  BY DEF IInv, Exiting, Pointers, Splits
<1>4. Told'
  BY DEF IInv, Told
<1>5. Running' /\ Ascending'
  BY DEF IInv, Running, Ascending
<1>6. Reporting'
  BY DEF IInv, Reporting, Durable, Has, Delivering
<1> QED
  BY <1>1, <1>2, <1>3, <1>4, <1>5, <1>6 DEF IInv

LEMMA RescueKeeps ==
  ASSUME IInv, Rescue, UNCHANGED <<hostVars, bodyVars>>
  PROVE  IInv'
<1> USE DEF Rescue
<1>1. TypeOK'
  BY DEF IInv, TypeOK, Statuses
<1>2. Exiting'
  BY DEF IInv, Exiting, Left, Delivering
<1>3. Pointers'
  BY DEF IInv, Pointers, Splits
<1>4. Told'
  BY DEF IInv, Told
<1>5. Running' /\ Ascending'
  BY DEF IInv, Running, Ascending
<1>6. Reporting'
  BY DEF IInv, Reporting, Durable, Has, Delivering
<1> QED
  BY <1>1, <1>2, <1>3, <1>4, <1>5, <1>6 DEF IInv

LEMMA RescueFailsKeeps ==
  ASSUME IInv, RescueFails, UNCHANGED <<hostVars, bodyVars>>
  PROVE  IInv'
<1> USE DEF RescueFails, Writing, TornWrite
<1>1. TypeOK'
  BY DEF IInv, TypeOK
<1>2. Exiting'
  BY DEF IInv, Exiting, Left, Delivering
<1>3. Pointers'
  BY DEF IInv, Pointers, Splits
<1>4. Told'
  BY DEF IInv, Told
<1>5. Running' /\ Ascending'
  BY DEF IInv, Running, Ascending
<1>6. Reporting'
  BY DEF IInv, Reporting, Durable, Has, Delivering
<1> QED
  BY <1>1, <1>2, <1>3, <1>4, <1>5, <1>6 DEF IInv

LEMMA TeardownKeeps ==
  ASSUME IInv, Teardown, UNCHANGED <<hostVars, bodyVars>>
  PROVE  IInv'
<1> USE DEF Teardown
<1>1. TypeOK'
  BY DEF IInv, TypeOK
<1>2. Exiting'
  BY DEF IInv, Exiting, Outcome, Written, Left, Delivering
<1>3. Pointers'
  BY DEF IInv, Pointers, Splits
<1>4. Told'
  BY DEF IInv, Outcome, Written, Left, Told
<1>5. Running' /\ Ascending'
  BY DEF IInv, Running, Ascending
<1>6. Reporting'
  BY DEF IInv, Reporting, Durable, Has, Delivering
<1> QED
  BY <1>1, <1>2, <1>3, <1>4, <1>5, <1>6 DEF IInv

LEMMA ProcessDiesKeeps == ASSUME IInv, ProcessDies PROVE IInv'
<1> USE DEF ProcessDies, Dies, BodyGone, Writing, TornWrite, Tells, Spills
<1>1. TypeOK'
  <2>1. /\ resultFile' \in {resultFile, Half} /\ argsFile' \in {argsFile, "half"}
        /\ outputFile' \in {outputFile, "half"}
    OBVIOUS
  <2>2. /\ at' \in 0..Len(stack') + 1
    BY StackIsASequence
  <2>3. /\ resultFile' \in {Stale, Half} \cup
              [status : Statuses, error : Errors \cup {"none", "shutdown"},
               points : BOOLEAN]
        /\ {argsFile', outputFile'} \subseteq {"stale", "half", "whole"}
    BY <2>1 DEF IInv, TypeOK
  <2> QED
    BY <2>2, <2>3 DEF IInv, TypeOK, Statuses
<1>2. Exiting'
  BY DEF Exiting, Delivering
<1>3. Pointers'
  BY DEF IInv, Exiting, Pointers, Splits
<1>4. Told'
  BY DEF IInv, Told
<1>5. Running' /\ Ascending'
  BY DEF IInv, Running, Ascending
<1>6. Reporting'
  BY DEF IInv, Reporting, Durable, Has
<1> QED
  BY <1>1, <1>2, <1>3, <1>4, <1>5, <1>6 DEF IInv

-----------------------------------------------------------------------------
(* The wrappers and the agent                                              *)

\* While the body runs, the files and reports do not change.
LEMMA BodyLeavesContext ==
  ASSUME IInv, InBody, pc = "body"
  PROVE  /\ Exiting' /\ Pointers' /\ Told'
         /\ ~(resultFile'.status = "suspended") /\ pc' = "body"
  BY DEF IInv, InBody, Exiting, Pointers, Told, Delivering

LEMMA CallGovernedKeeps == ASSUME IInv, CallGoverned PROVE IInv'
<1> USE DEF CallGoverned, Calling, Descend, Ascend, Layer
<1>1. pc = "body" /\ InBody
  OBVIOUS
<1>2. Exiting' /\ Pointers' /\ Told' /\ Reporting'
  BY <1>1, BodyLeavesContext DEF Reporting, Delivering
<1>3. stack \in Stacks /\ Len(stack) \in Nat
  BY StackIsASequence DEF IInv, TypeOK
<1>4. TypeOK'
  <2>1. at' \in 0..Len(stack) + 1 /\ flow' \in Kinds \cup {"call"}
    BY <1>3 DEF IInv, TypeOK, Running, Kinds
  <2> QED
    BY <2>1 DEF IInv, TypeOK, InBody
<1>5. Running'
  BY <1>3 DEF IInv, TypeOK, InBody, Running
<1>6. Ascending'
  BY <1>3 DEF Ascending
<1> QED
  BY <1>2, <1>4, <1>5, <1>6 DEF IInv

LEMMA CallHydrationKeeps == ASSUME IInv, CallHydration PROVE IInv'
<1> USE DEF CallHydration, Calling, Descend, Ascend, Layer
<1>1. pc = "body" /\ InBody
  OBVIOUS
<1>2. Exiting' /\ Pointers' /\ Told' /\ Reporting'
  BY <1>1, BodyLeavesContext DEF Reporting, Delivering
<1>3. stack \in Stacks /\ Len(stack) \in Nat
  BY StackIsASequence DEF IInv, TypeOK
<1>4. TypeOK'
  <2>1. at' \in 0..Len(stack) + 1 /\ flow' \in Kinds \cup {"call"}
    BY <1>3 DEF IInv, TypeOK, Running, Kinds
  <2> QED
    BY <2>1 DEF IInv, TypeOK, InBody
<1>5. Running'
  BY <1>3 DEF IInv, TypeOK, InBody, Running
<1>6. Ascending'
  BY <1>3 DEF Ascending
<1> QED
  BY <1>2, <1>4, <1>5, <1>6 DEF IInv

LEMMA CallResumableKeeps == ASSUME IInv, CallResumable PROVE IInv'
<1> USE DEF CallResumable, Calling, Descend, Ascend, Layer, Consumed
<1>1. pc = "body" /\ InBody
  OBVIOUS
<1>2. Exiting' /\ Pointers' /\ Told' /\ Reporting'
  BY <1>1, BodyLeavesContext DEF Reporting, Delivering
<1>3. stack \in Stacks /\ Len(stack) \in Nat
  BY StackIsASequence DEF IInv, TypeOK
<1>4. TypeOK'
  <2>1. at' \in 0..Len(stack) + 1 /\ flow' \in Kinds \cup {"call"}
    BY <1>3 DEF IInv, TypeOK, Running, Kinds
  <2>2. triggers' \in {0, waits} /\ answered' \in BOOLEAN
    BY DEF IInv, TypeOK
  <2> QED
    BY <2>1, <2>2 DEF IInv, TypeOK, InBody
<1>5. Running'
  BY <1>3 DEF IInv, TypeOK, InBody, Running
<1>6. Ascending'
  BY <1>3 DEF Ascending
<1> QED
  BY <1>2, <1>4, <1>5, <1>6 DEF IInv

LEMMA AgentPassKeeps == ASSUME IInv, NEW kind \in Kinds, AgentPass(kind) PROVE IInv'
<1> USE DEF AgentPass, Ascend
<1>1. pc = "body" /\ InBody
  OBVIOUS
<1>2. Exiting' /\ Pointers' /\ Told' /\ Reporting'
  BY <1>1, BodyLeavesContext DEF Reporting, Delivering
<1>3. stack \in Stacks /\ Len(stack) \in Nat
  BY StackIsASequence DEF IInv, TypeOK
<1>4. TypeOK'
  <2>1. at' \in 0..Len(stack) + 1 /\ flow' \in Kinds \cup {"call"}
    BY <1>3
  <2>2. /\ {registry', workspace'} \subseteq 0..passes' /\ waits' \in 0..passes'
        /\ passes' \in 0..MaxPasses
    BY DEF IInv, TypeOK
  <2>3. triggers' \in {0, waits'} /\ answered' \in BOOLEAN
    BY DEF IInv, TypeOK, Running
  <2>4. UNCHANGED <<contextVars, hostVars>>
    BY <1>1 DEF InBody
  <2> HIDE DEF AgentPass
  <2> QED
    BY <2>1, <2>2, <2>3, <2>4 DEF IInv, TypeOK
<1>5. Running'
  BY <1>3 DEF IInv, InBody, Running, Kinds
<1>6. Ascending'
  BY <1>3 DEF IInv, TypeOK, Ascending
<1> QED
  BY <1>2, <1>4, <1>5, <1>6 DEF IInv

LEMMA ReturnGovernedKeeps == ASSUME IInv, ReturnGoverned PROVE IInv'
<1> USE DEF ReturnGoverned, Returning, Ascend, Layer
<1>1. pc = "body" /\ InBody
  OBVIOUS
<1>2. Exiting' /\ Pointers' /\ Told' /\ Reporting'
  BY <1>1, BodyLeavesContext DEF Reporting, Delivering
<1>3. stack \in Stacks /\ Len(stack) \in Nat
  BY StackIsASequence DEF IInv, TypeOK
<1>4. TypeOK'
  BY <1>3 DEF IInv, TypeOK, InBody, Kinds
<1>5. Running'
  BY <1>3 DEF IInv, InBody, Running
<1>6. Ascending'
  BY <1>3 DEF IInv, InBody, Ascending
<1> QED
  BY <1>2, <1>4, <1>5, <1>6 DEF IInv

LEMMA ReturnHydrationKeeps == ASSUME IInv, ReturnHydration PROVE IInv'
<1> USE DEF ReturnHydration, Returning, Ascend, Layer, Persists, NotPersisted
<1>1. pc = "body" /\ InBody
  OBVIOUS
<1>2. Exiting' /\ Pointers' /\ Told' /\ Reporting'
  BY <1>1, BodyLeavesContext DEF Reporting, Delivering
<1>3. stack \in Stacks /\ Len(stack) \in Nat
  BY StackIsASequence DEF IInv, TypeOK
<1>4. TypeOK'
  BY <1>3 DEF IInv, TypeOK, InBody, Kinds
<1>5. Running'
  BY <1>3 DEF IInv, InBody, Running
<1>6. Ascending'
  BY <1>3 DEF IInv, InBody, Ascending
<1> QED
  BY <1>2, <1>4, <1>5, <1>6 DEF IInv

LEMMA ReturnResumableKeeps == ASSUME IInv, ReturnResumable PROVE IInv'
<1> USE DEF ReturnResumable, Returning, Ascend, Layer, Consumed
<1>1. pc = "body" /\ InBody
  OBVIOUS
<1>2. Exiting' /\ Pointers' /\ Told' /\ Reporting'
  BY <1>1, BodyLeavesContext DEF Reporting, Delivering
<1>3. stack \in Stacks /\ Len(stack) \in Nat
  BY StackIsASequence DEF IInv, TypeOK
<1>4. TypeOK'
  <2>1. at' \in 0..Len(stack) + 1 /\ flow' \in Kinds \cup {"call"}
    BY <1>3 DEF IInv, TypeOK, Kinds
  <2>2. triggers' \in {0, waits} /\ answered' \in BOOLEAN
    BY DEF IInv, TypeOK
  <2> QED
    BY <2>1, <2>2 DEF IInv, TypeOK, InBody
<1>5. Running'
  BY <1>3 DEF IInv, InBody, Running, Ascending
<1>6. Ascending'
  BY <1>3 DEF IInv, InBody, Ascending
<1> QED
  BY <1>2, <1>4, <1>5, <1>6 DEF IInv

-----------------------------------------------------------------------------
LEMMA StepKeeps == IInv /\ [Next]_vars => IInv'
<1> SUFFICES ASSUME IInv, [Next]_vars PROVE IInv'
  OBVIOUS
<1>1. CASE UNCHANGED vars
  <2>1. TypeOK' /\ Exiting' /\ Pointers' /\ Told'
    BY <1>1 DEF vars, IInv, TypeOK, Exiting, Outcome, Written, Left, Pointers,
           Splits, Told
  <2>2. Running' /\ Ascending' /\ Reporting'
    BY <1>1 DEF vars, IInv, Running, Ascending, Reporting, Durable, Has
  <2> QED
    BY <2>1, <2>2 DEF IInv
<1>2. CASE \/ Start \/ ContextFails \/ InputRaises
          \/ RunBody \/ BodyEnds \/ ProcessDies
  BY <1>2, StartKeeps, ContextFailsKeeps, InputRaisesKeeps, RunBodyKeeps,
     BodyEndsKeeps, ProcessDiesKeeps
<1>3. CASE CallGoverned \/ CallHydration \/ CallResumable
  BY <1>3, CallGovernedKeeps, CallHydrationKeeps, CallResumableKeeps
<1>4. ASSUME NEW kind \in Kinds, AgentPass(kind) PROVE IInv'
  BY <1>4, AgentPassKeeps
<1>5. CASE ReturnGoverned \/ ReturnHydration \/ ReturnResumable
  BY <1>5, ReturnGovernedKeeps, ReturnHydrationKeeps, ReturnResumableKeeps
<1>6. CASE LeaveContext
  <2>1. Exit /\ UNCHANGED <<hostVars, bodyVars>>
    BY <1>6, Zenon DEF LeaveContext
  <2> QED
    BY <2>1, BuildKeeps, WriteArgumentsKeeps, WriteResultKeeps, WriteOutputKeeps,
       TellKeeps, ExitFailsKeeps, RescueKeeps, RescueFailsKeeps, TeardownKeeps
       DEF Exit
<1> QED
  BY <1>1, <1>2, <1>3, <1>4, <1>5, <1>6 DEF Next, Over

\* Files, reports and stored state fit together at every point of a job.
THEOREM Invariance == Spec => []IInv
<1> QED
  BY InitIInv, StepKeeps, PTL DEF Spec

-----------------------------------------------------------------------------
(* Results                                                                 *)

\* The variables keep their types.
THEOREM TypeCorrect == Spec => []TypeOK
<1>1. IInv => TypeOK
  BY DEF IInv
<1> QED
  BY <1>1, Invariance, PTL

\* Result file, exception and sink tell one story, whatever fails in __exit__.
THEOREM VerdictsAgree == Spec => []VerdictAgrees
<1>1. IInv => VerdictAgrees
  BY DEF IInv, Exiting, Outcome, Written, Left, Told, VerdictAgrees
<1> QED
  BY <1>1, Invariance, PTL

\* A pointer to the arguments, and a sink's path, lead to whole arguments.
THEOREM ArgumentsAreReachable == Spec => []ArgumentsAreThere
<1>1. IInv => ArgumentsAreThere
  BY DEF IInv, Exiting, Left, Pointers, Told, Errors, ArgumentsAreThere
<1> QED
  BY <1>1, Invariance, PTL

\* A SUSPENDED result file promises stored triggers and persisted files, for
\* every nesting of the resumable, governed and hydration runtimes.
THEOREM SuspensionsAreDurable == Spec => []SuspensionReportedIsDurable
<1>1. IInv => SuspensionReportedIsDurable
  BY DEF IInv, Reporting, Durable, SuspensionReportedIsDurable
<1> QED
  BY <1>1, Invariance, PTL
=============================================================================
