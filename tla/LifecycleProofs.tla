--------------------------- MODULE LifecycleProofs ---------------------------
(***************************************************************************)
(* Resumable implements InterruptLifecycle and the agent's side of         *)
(* AgentContract, for every set of interrupts, trigger types and bounds:   *)
(* every step of the wrapper, its storage and its environment is a step of *)
(* the abstract specification or leaves it where it is.                    *)
(***************************************************************************)
EXTENDS ResumableProofs

\* An input of the caller names stored interrupts, or none the agent waits on;
\* the latter is a fault.
Addressed ==
  pc = "explicit" =>
    \/ answers # {} /\ answers \subseteq Ids(storage)
    \/ answers \cap open = {} /\ faults > 0

LInv == IInv /\ Addressed

Taken == open \cap answers
Registered == (open \ answers) \cap Ids(storage)
Raised == open \ (answers \cup Ids(storage))

-----------------------------------------------------------------------------
LEMMA AddressedStep == IInv /\ Addressed /\ [Next]_vars => Addressed'
<1> SUFFICES ASSUME IInv, Addressed, [Next]_vars, pc' = "explicit" PROVE Addressed'
  BY DEF Addressed
<1> USE DEF agentVars, callVars
<1>0. faults \in Nat
  BY BoundsAssumption DEF IInv, TypeOK
<1>1. CASE \E S \in SUBSET Interrupts : CallAnswer(S)
  BY <1>1 DEF CallAnswer, MayAnswer, Addressed, Ids
<1>2. CASE \E S \in SUBSET Interrupts : CallMisaddressed(S)
  BY <1>0, <1>2 DEF CallMisaddressed, Addressed
<1>3. CASE UNCHANGED <<pc, answers, storage, open, faults>>
  BY <1>3 DEF Addressed, Ids
<1>4. CASE \E t \in Live : Fire(t)
  BY <1>3, <1>4 DEF Fire
<1> QED
  BY <1>1, <1>2, <1>3, <1>4 DEF Next, Step, JobOver, vars, CallFresh, CallResume,
     RestoreExplicit, ReadFired, ReadPending, Reading, DeleteSiblings, RestoreDone,
     Delegate, ReturnFinal, HandleBreakpoint, HandleSuspension, CreateTriggers,
     SaveTriggers, GetFiredTriggers, ReturnSuspended, AutoResume, PollDone, Abort

\* The invariant the refinement rests on.
LEMMA LInvAlways == Spec => []LInv
<1>1. Init => Addressed
  BY DEF Init, Addressed
<1>2. IInv /\ Addressed /\ [Next]_vars => Addressed'
  BY AddressedStep
<1> QED
  BY <1>1, <1>2, Invariance, PTL DEF Spec, LInv

-----------------------------------------------------------------------------
(* Where an interrupt is                                                   *)

\* The cases of StatusOf exclude each other.
LEMMA StatusIs ==
  ASSUME IInv, NEW i \in Interrupts
  PROVE  /\ StatusOf(i) = "answered" <=> i \in answered
         /\ StatusOf(i) = "taken" <=> i \in Taken
         /\ StatusOf(i) = "registered" <=> i \in Registered
         /\ StatusOf(i) = "raised" <=> i \in Raised
         /\ StatusOf(i) = "unraised" <=> i \notin open \cup answered
BY DEF IInv, StoredAreOpen, StatusOf, Taken, Registered, Raised

LEMMA NextStatusIs ==
  ASSUME IInv', NEW i \in Interrupts
  PROVE  /\ i \in answered' => StatusOf(i)' = "answered"
         /\ i \in Taken' => StatusOf(i)' = "taken"
         /\ i \in Registered' => StatusOf(i)' = "registered"
         /\ i \in Raised' => StatusOf(i)' = "raised"
         /\ i \notin (open \cup answered)' => StatusOf(i)' = "unraised"
BY DEF IInv, StoredAreOpen, StatusOf, Taken, Registered, Raised

\* The sets of the lifecycle.
LEMMA Sets ==
  ASSUME IInv
  PROVE  /\ Lifecycle!With("taken") = Taken
         /\ Lifecycle!With("registered") = Registered
         /\ Lifecycle!With("raised") = Raised
         /\ Lifecycle!With("unraised") = Interrupts \ (open \cup answered)
<1>1. open \subseteq Interrupts
  BY DEF IInv, TypeOK
<1> QED
  BY <1>1, StatusIs DEF Lifecycle!With, Taken, Registered, Raised

\* The lifecycle does not see a step that keeps each interrupt where it is.
LEMMA Stutters ==
  ASSUME UNCHANGED <<open, answered, answers, storage, faults>>
  PROVE  UNCHANGED Lifecycle!vars
BY DEF Lifecycle!vars, StatusOf, Ids

\* A step that loses these answers and these registrations.
LEMMA LoseBy ==
  ASSUME NEW Back \in SUBSET Lifecycle!With("taken"),
         NEW Gone \in SUBSET Lifecycle!With("registered"),
         faults' > 0,
         \A i \in Interrupts :
           StatusOf(i)' = CASE i \in Back -> "registered"
                            [] i \in (Lifecycle!With("taken") \ Back) \cup Gone -> "raised"
                            [] OTHER -> StatusOf(i)
  PROVE  Lifecycle!Lose
<1>1. [i \in Interrupts |-> StatusOf(i)]'
        = [i \in Interrupts |->
             CASE i \in Back -> "registered"
               [] i \in (Lifecycle!With("taken") \ Back) \cup Gone -> "raised"
               [] OTHER -> [j \in Interrupts |-> StatusOf(j)][i]]
  OBVIOUS
<1> QED
  BY <1>1 DEF Lifecycle!Lose

-----------------------------------------------------------------------------
(* Steps that the lifecycle sees                                           *)

\* An input of the caller takes the answers it names; one that names none of the
\* open interrupts is a fault that loses nothing yet.
LEMMA CallAnswerTakes ==
  ASSUME IInv, IInv', NEW S \in SUBSET Interrupts, CallAnswer(S)
  PROVE  Lifecycle!Take(S)
<1> USE DEF CallAnswer, MayAnswer, agentVars
<1>1. answers = {} /\ S \subseteq open
  BY DEF IInv, CallShape, Loop, StoredAreOpen
<1>2. S \subseteq Lifecycle!With("registered")
  BY <1>1, Sets DEF Registered
<1>3. ASSUME NEW i \in Interrupts
      PROVE  StatusOf(i)' = IF i \in S THEN "taken" ELSE StatusOf(i)
  BY <1>1, NextStatusIs, StatusIs DEF Taken, Registered, Raised
<1>4. UNCHANGED faults
  OBVIOUS
<1> QED
  BY <1>2, <1>3, <1>4 DEF Lifecycle!Take, Lifecycle!Move

LEMMA CallMisaddressedLoses ==
  ASSUME IInv, NEW S \in SUBSET Interrupts, CallMisaddressed(S)
  PROVE  Lifecycle!Lose
<1> USE DEF CallMisaddressed, agentVars
<1>1. answers = {} /\ Taken = {} /\ faults' > 0
  BY BoundsAssumption DEF IInv, TypeOK, CallShape, Loop, Taken
<1>2. \A i \in Interrupts : StatusOf(i)' = StatusOf(i)
  BY <1>1 DEF StatusOf
<1>3. Lifecycle!With("taken") = {}
  BY <1>1, Sets
<1>4. ASSUME NEW i \in Interrupts
      PROVE  StatusOf(i)' = CASE i \in {} -> "registered"
                              [] i \in (Lifecycle!With("taken") \ {}) \cup {} -> "raised"
                              [] OTHER -> StatusOf(i)
  BY <1>2, <1>3
<1>5. /\ {} \in SUBSET Lifecycle!With("taken")
      /\ {} \in SUBSET Lifecycle!With("registered")
  OBVIOUS
<1> HIDE DEF CallMisaddressed
<1> QED
  BY <1>1, <1>4, <1>5, LoseBy

\* Deleting what was answered is not seen; deleting the only trigger after a
\* misaddressed input loses its registration.
LEMMA RestoreExplicitLoses ==
  ASSUME LInv, LInv', RestoreExplicit
  PROVE  Lifecycle!Lose \/ UNCHANGED Lifecycle!vars
<1> USE DEF RestoreExplicit, agentVars, callVars
<1>1. IInv /\ IInv'
  BY DEF LInv
<1> DEFINE Gone == Registered \ Ids(storage')
<1>2. CASE Gone = {}
  <2>1. \A i \in Interrupts : StatusOf(i)' = StatusOf(i)
    BY <1>1, <1>2, NextStatusIs, StatusIs DEF Taken, Registered, Raised, Ids
  <2> QED
    BY <2>1 DEF Lifecycle!vars
<1>3. CASE Gone # {}
  <2>1. answers \cap open = {} /\ faults > 0
    BY <1>3 DEF LInv, Addressed, ConsumedBy, Registered, Ids
  <2>2. Taken = {} /\ Gone \in SUBSET Lifecycle!With("registered")
    BY <1>1, <2>1, Sets DEF Taken
  <2>3. \A i \in Interrupts :
          StatusOf(i)' = IF i \in Gone THEN "raised" ELSE StatusOf(i)
    BY <1>1, <2>1, NextStatusIs, StatusIs DEF Taken, Registered, Raised, Ids
  <2>4. Lifecycle!With("taken") = {} /\ {} \in SUBSET Lifecycle!With("taken")
    BY <1>1, <2>2, Sets
  <2> HIDE DEF Gone
  <2>5. ASSUME NEW i \in Interrupts
        PROVE  StatusOf(i)' = CASE i \in {} -> "registered"
                                [] i \in (Lifecycle!With("taken") \ {}) \cup Gone -> "raised"
                                [] OTHER -> StatusOf(i)
    BY <2>3, <2>4
  <2>6. faults' > 0
    BY <2>1
  <2> QED
    BY <2>2, <2>4, <2>5, <2>6, LoseBy
<1> QED
  BY <1>2, <1>3

\* Reading a fired trigger takes the answer of its interrupt.
LEMMA ReadFiredTakes ==
  ASSUME IInv, IInv', NEW t \in toRead, ReadFired(t)
  PROVE  Lifecycle!Take({t.id})
<1> USE DEF ReadFired, agentVars
<1>1. t.id \in Registered /\ t.id \in Interrupts
  BY DEF IInv, TypeOK, CallShape, Loop, StoredAreOpen, Reading, Registered, Ids
<1>2. {t.id} \subseteq Lifecycle!With("registered")
  BY <1>1, Sets
<1>3. ASSUME NEW i \in Interrupts
      PROVE  StatusOf(i)' = IF i \in {t.id} THEN "taken" ELSE StatusOf(i)
  BY <1>1, NextStatusIs, StatusIs DEF Taken, Registered, Raised
<1>4. UNCHANGED faults
  OBVIOUS
<1> QED
  BY <1>2, <1>3, <1>4 DEF Lifecycle!Take, Lifecycle!Move

\* Its siblings go with it; where the other interrupts are does not change.
LEMMA DeleteSiblingsStutters ==
  ASSUME IInv, IInv', DeleteSiblings
  PROVE  UNCHANGED Lifecycle!vars
<1> USE DEF DeleteSiblings, agentVars
<1>1. \A i \in Interrupts \ answers : i \in Ids(storage') <=> i \in Ids(storage)
  BY DEF IInv, TypeOK, Siblings, Of, Ids
<1>2. \A i \in Interrupts : StatusOf(i)' = StatusOf(i)
  BY <1>1, NextStatusIs, StatusIs DEF Taken, Registered, Raised, Ids
<1> QED
  BY <1>2 DEF Lifecycle!vars

\* A pass of the agent consumes the answers taken and raises new interrupts.
LEMMA DelegateRuns ==
  ASSUME IInv, IInv', NEW kind \in Kinds, NEW New \in SUBSET Interrupts,
         Delegate(kind, New)
  PROVE  Lifecycle!Run(New)
<1> USE DEF Delegate
<1>1. New \subseteq Lifecycle!With("unraised")
  BY Sets
<1>2. ASSUME NEW i \in Interrupts
      PROVE  StatusOf(i)' = CASE i \in Lifecycle!With("taken") -> "answered"
                              [] i \in New -> "raised"
                              [] OTHER -> StatusOf(i)
  <2>1. New \cap Ids(storage) = {} /\ Taken \cap New = {}
    BY DEF IInv, StoredAreOpen, Taken
  <2>2. CASE i \in Taken
    BY <2>2, NextStatusIs, Sets DEF Taken
  <2>3. CASE i \in New
    BY <2>1, <2>3, NextStatusIs, Sets DEF Raised
  <2>4. CASE i \notin Taken \cup New
    <3>1. StatusOf(i)' = StatusOf(i)
      BY <2>4, NextStatusIs, StatusIs DEF Taken, Registered, Raised
    <3> QED
      BY <2>4, <3>1, Sets
  <2> QED
    BY <2>2, <2>3, <2>4
<1>3. UNCHANGED faults
  OBVIOUS
<1> QED
  BY <1>1, <1>2, <1>3 DEF Lifecycle!Run

\* One save registers all raised interrupts.
LEMMA SaveTriggersRegisters ==
  ASSUME IInv, IInv', SaveTriggers
  PROVE  Lifecycle!Register
<1> USE DEF SaveTriggers, agentVars
<1>1. answers = {} /\ open \subseteq Ids(storage')
  BY DEF IInv, CallShape, Loop, Assembling, Saved
<1>2. ASSUME NEW i \in Interrupts
      PROVE  StatusOf(i)' = IF i \in Raised THEN "registered" ELSE StatusOf(i)
  BY <1>1, NextStatusIs, StatusIs DEF Taken, Registered, Raised, Ids
<1>3. UNCHANGED faults
  OBVIOUS
<1> QED
  BY <1>2, <1>3, Sets DEF Lifecycle!Register, Lifecycle!Move

\* A call cut short drops its answers: they are stored still, or must be asked
\* for again.
LEMMA AbortLoses ==
  ASSUME IInv, IInv', Abort
  PROVE  Lifecycle!Lose
<1> USE DEF Abort, agentVars
<1> DEFINE Back == Taken \cap Ids(storage)
<1>1. faults' > 0
  BY BoundsAssumption DEF IInv, TypeOK
<1>2. Back \in SUBSET Lifecycle!With("taken")
  BY Sets
<1>3. ASSUME NEW i \in Interrupts
      PROVE  StatusOf(i)' = CASE i \in Back -> "registered"
                              [] i \in (Taken \ Back) \cup {} -> "raised"
                              [] OTHER -> StatusOf(i)
  <2>1. CASE i \in Back
    <3>1. i \in Registered'
      BY <2>1 DEF Taken, Registered
    <3>2. StatusOf(i)' = "registered"
      BY <3>1, NextStatusIs
    <3> HIDE DEF Back
    <3> QED
      BY <2>1, <3>2
  <2>2. CASE i \in Taken \ Back
    <3>1. i \in Raised'
      BY <2>2 DEF Taken, Raised
    <3>2. StatusOf(i)' = "raised"
      BY <3>1, NextStatusIs
    <3> HIDE DEF Back
    <3> QED
      BY <2>2, <3>2
  <2>3. CASE i \notin Taken
    <3>1. StatusOf(i)' = StatusOf(i)
      BY <2>3, NextStatusIs, StatusIs DEF Taken, Registered, Raised
    <3> QED
      BY <2>3, <3>1
  <2> QED
    BY <2>1, <2>2, <2>3
<1>4. {} \in SUBSET Lifecycle!With("registered")
  OBVIOUS
<1>5. Lifecycle!With("taken") = Taken
  BY Sets
<1> HIDE DEF Back, Abort
<1> QED
  BY <1>1, <1>2, <1>3, <1>4, <1>5, LoseBy

-----------------------------------------------------------------------------
(* The refinement                                                          *)

LEMMA StepsMap == LInv /\ LInv' /\ [Next]_vars => [Lifecycle!Next]_(Lifecycle!vars)
<1> SUFFICES ASSUME LInv, LInv', [Next]_vars
             PROVE  Lifecycle!Next \/ UNCHANGED Lifecycle!vars
  OBVIOUS
<1>0. IInv /\ IInv'
  BY DEF LInv
<1>1. ASSUME NEW S \in SUBSET Interrupts, CallAnswer(S) PROVE Lifecycle!Next
  BY <1>0, <1>1, CallAnswerTakes DEF Lifecycle!Next
<1>2. ASSUME NEW S \in SUBSET Interrupts, CallMisaddressed(S) PROVE Lifecycle!Next
  BY <1>0, <1>2, CallMisaddressedLoses DEF Lifecycle!Next
<1>3. CASE RestoreExplicit
  BY <1>3, RestoreExplicitLoses DEF Lifecycle!Next
<1>4. ASSUME NEW t \in toRead, ReadFired(t) PROVE Lifecycle!Next
  <2>1. {t.id} \in SUBSET Interrupts
    BY <1>0 DEF IInv, TypeOK, StoredAreOpen, Ids
  <2> QED
    BY <1>0, <1>4, <2>1, ReadFiredTakes DEF Lifecycle!Next
<1>5. CASE DeleteSiblings
  BY <1>0, <1>5, DeleteSiblingsStutters
<1>6. ASSUME NEW kind \in Kinds, NEW New \in SUBSET Interrupts, Delegate(kind, New)
      PROVE  Lifecycle!Next
  BY <1>0, <1>6, DelegateRuns DEF Lifecycle!Next
<1>7. CASE SaveTriggers
  BY <1>0, <1>7, SaveTriggersRegisters DEF Lifecycle!Next
<1>8. CASE Abort
  BY <1>0, <1>8, AbortLoses DEF Lifecycle!Next
<1>9. ASSUME \/ CallFresh \/ CallResume \/ RestoreDone \/ ReturnFinal
             \/ HandleBreakpoint \/ HandleSuspension \/ GetFiredTriggers
             \/ ReturnSuspended \/ AutoResume \/ JobOver
             \/ \E t \in toRead : ReadPending(t)
             \/ \E i \in toCreate : CreateTriggers(i)
             \/ \E t \in Live : Fire(t)
             \/ UNCHANGED vars
      PROVE  UNCHANGED Lifecycle!vars
  <2>1. UNCHANGED <<open, answered, answers, storage, faults>>
    BY <1>9 DEF CallFresh, CallResume, RestoreDone, ReturnFinal, HandleBreakpoint,
       HandleSuspension, GetFiredTriggers, ReturnSuspended, AutoResume, JobOver,
       ReadPending, CreateTriggers, Fire, agentVars, callVars, vars
  <2> QED
    BY <2>1, Stutters
<1> QED
  BY <1>1, <1>2, <1>3, <1>4, <1>5, <1>6, <1>7, <1>8, <1>9 DEF Next, Step

\* resumable/runtime.py implements the lifecycle of interrupts: none is answered
\* twice or without having been registered, and only a fault sends one back.
THEOREM Implements == Spec => ImplementsLifecycle
<1>1. Init => Lifecycle!Init
  BY DEF Init, Lifecycle!Init, StatusOf
<1>2. LInv /\ LInv' /\ [Next]_vars => [Lifecycle!Next]_(Lifecycle!vars)
  BY StepsMap
<1> QED
  BY <1>1, <1>2, LInvAlways, PTL DEF Spec, ImplementsLifecycle, Lifecycle!Spec

-----------------------------------------------------------------------------
(* The contract with the callers                                           *)

\* Until the call returns, the result is what the last pass reported.
Reported ==
  pc \in {"handling", "creating", "polled", "polling"} =>
    /\ result = "suspended" => open # {}
    /\ result = "successful" => open = {}

CInv == IInv /\ Reported

LEMMA ReportedStep == IInv /\ Reported /\ [Next]_vars => Reported'
<1> SUFFICES ASSUME IInv, Reported, [Next]_vars PROVE Reported'
  OBVIOUS
<1> USE DEF agentVars, Reported
<1>1. ASSUME NEW kind \in Kinds, NEW New \in SUBSET Interrupts, Delegate(kind, New)
      PROVE  Reported'
  BY <1>1 DEF Delegate
<1>2. CASE \/ pc' \notin {"handling", "creating", "polled", "polling"}
           \/ /\ pc \in {"handling", "creating", "polled", "polling"}
              /\ UNCHANGED <<result, open>>
  BY <1>2
<1> QED
  BY <1>1, <1>2 DEF Next, Step, JobOver, vars, CallFresh, CallResume, CallAnswer,
     CallMisaddressed, RestoreExplicit, ReadFired, ReadPending, Reading, DeleteSiblings,
     RestoreDone, ReturnFinal, HandleBreakpoint, HandleSuspension, CreateTriggers,
     SaveTriggers, GetFiredTriggers, ReturnSuspended, AutoResume, PollDone, Fire, Abort

LEMMA CInvAlways == Spec => []CInv
<1>1. Init => Reported
  BY DEF Init, Reported
<1>2. IInv /\ Reported /\ [Next]_vars => Reported'
  BY ReportedStep
<1> QED
  BY <1>1, <1>2, Invariance, PTL DEF Spec, CInv

-----------------------------------------------------------------------------
\* What callers may do at each outcome is what the contract lets them.
LEMMA CallsMap ==
  ASSUME CInv, CallFresh \/ CallResume \/ \E S \in SUBSET Interrupts :
                               CallAnswer(S) \/ CallMisaddressed(S)
  PROVE  Contract!Call
<1>0. /\ faults \in Nat /\ open \subseteq Interrupts
      /\ Ids(storage) \subseteq open /\ (pc = "idle" => answers = {})
  BY BoundsAssumption DEF CInv, IInv, TypeOK, CallShape, Loop, StoredAreOpen
<1> USE DEF Contract!Call, Contract!Proper, Contract!Final, agentVars, callVars
<1>1. CASE CallFresh
  BY <1>0, <1>1 DEF CallFresh
<1>2. CASE CallResume
  <2>1. result = "suspended" => Ids(storage) \cap Ids(fired) # {}
    BY <1>2 DEF CallResume, MayResume, Ids
  <2> QED
    BY <1>0, <1>2, <2>1 DEF CallResume, MayResume
<1>3. ASSUME NEW S \in SUBSET Interrupts, CallAnswer(S) PROVE Contract!Call
  BY <1>0, <1>3 DEF CallAnswer, MayAnswer
<1>4. ASSUME NEW S \in SUBSET Interrupts, CallMisaddressed(S) PROVE Contract!Call
  BY <1>0, <1>4 DEF CallMisaddressed
<1> QED
  BY <1>1, <1>2, <1>3, <1>4

\* An answer that is read is that of an open interrupt whose trigger fired.
LEMMA ReadFiredMaps ==
  ASSUME CInv, NEW t \in toRead, ReadFired(t)
  PROVE  Contract!PickUp
<1>1. t.id \in open \cap Ids(fired)
  BY DEF CInv, IInv, TypeOK, StoredAreOpen, ReadFired, Ids
<1>2. pc # "idle" /\ answers' = answers \cup {t.id}
      /\ UNCHANGED <<pc, open, answered, fired, result, faults>>
  BY DEF ReadFired, Reading, agentVars
<1> QED
  BY <1>1, <1>2 DEF Contract!PickUp, Ids

\* The agent's pass gets the whole resume map.
LEMMA DelegateMaps ==
  ASSUME CInv, NEW kind \in Kinds, NEW New \in SUBSET Interrupts, Delegate(kind, New)
  PROVE  Contract!Pass({})
<1>1. /\ pc = "delegate" /\ pc' = "handling" /\ answers' = {}
      /\ answered' = answered \cup (open \cap answers)
      /\ open' = (open \ answers) \cup New
      /\ New \cap open = {} /\ New \cap answered = {}
      /\ UNCHANGED <<fired, faults>>
  BY DEF Delegate
<1>2. open \subseteq Interrupts /\ open \cap answered = {}
  BY DEF CInv, IInv, TypeOK, StoredAreOpen
<1> QED
  BY <1>1, <1>2 DEF Contract!Pass, Ids

\* What the caller is given at the end of a call.
LEMMA ReturnsMap ==
  ASSUME CInv, ReturnFinal \/ ReturnSuspended
  PROVE  Contract!Return
<1>1. /\ pc # "idle" /\ pc' = "idle" /\ answers = {}
      /\ result \in {"successful", "faulted", "suspended", "breakpoint"}
      /\ result = "suspended" => open # {}
      /\ result = "successful" => open = {}
      /\ UNCHANGED <<answers, open, answered, fired, faults, result>>
  BY DEF CInv, IInv, Reported, CallShape, Loop, ReturnFinal, ReturnSuspended, PollDone,
     Reading, agentVars, callVars
<1> QED
  BY <1>1 DEF Contract!Return, Contract!Final, Ids

LEMMA FireMaps ==
  ASSUME NEW t \in Live, Fire(t)
  PROVE  Contract!Fire
<1>1. Ids(fired') = Ids(fired) \cup {t.id} /\ t.id \in open
      /\ UNCHANGED <<pc, result, open, answered, answers, faults>>
  BY DEF Fire, Ids, agentVars, callVars
<1> QED
  BY <1>1 DEF Contract!Fire, Ids

LEMMA AbortMaps ==
  ASSUME CInv, Abort
  PROVE  Contract!BreakOff
<1>1. /\ pc # "idle" /\ pc' = "idle" /\ result' = "aborted" /\ answers' = {}
      /\ faults' > 0
      /\ UNCHANGED <<open, answered, fired>>
  BY BoundsAssumption DEF CInv, IInv, TypeOK, Abort, agentVars
<1> QED
  BY <1>1 DEF Contract!BreakOff, Contract!Final, Ids

\* Every step of the wrapper and of what surrounds it is one of the contract.
LEMMA StepsKeepContract == CInv /\ [Next]_vars => [Contract!Next]_(Contract!vars)
<1> SUFFICES ASSUME CInv, [Next]_vars PROVE Contract!Next \/ UNCHANGED Contract!vars
  OBVIOUS
<1>1. CASE CallFresh \/ CallResume \/ \E S \in SUBSET Interrupts :
                               CallAnswer(S) \/ CallMisaddressed(S)
  BY <1>1, CallsMap DEF Contract!Next
<1>2. CASE \E t \in toRead : ReadFired(t)
  BY <1>2, ReadFiredMaps DEF Contract!Next
<1>3. ASSUME NEW kind \in Kinds, NEW New \in SUBSET Interrupts, Delegate(kind, New)
      PROVE  Contract!Next
  BY <1>3, DelegateMaps, {} \in SUBSET Interrupts DEF Contract!Next
<1>4. CASE ReturnFinal \/ ReturnSuspended
  BY <1>4, ReturnsMap DEF Contract!Next
<1>5. CASE \E t \in Live : Fire(t)
  BY <1>5, FireMaps DEF Contract!Next
<1>6. CASE Abort
  BY <1>6, AbortMaps DEF Contract!Next
<1>7. ASSUME \/ RestoreExplicit \/ DeleteSiblings \/ RestoreDone
             \/ HandleBreakpoint \/ HandleSuspension \/ SaveTriggers
             \/ GetFiredTriggers \/ AutoResume \/ JobOver
             \/ \E t \in toRead : ReadPending(t)
             \/ \E i \in toCreate : CreateTriggers(i)
             \/ UNCHANGED vars
      PROVE  UNCHANGED Contract!vars
  <2>1. /\ UNCHANGED <<result, open, answered, answers, fired, faults>>
        /\ pc = "idle" <=> pc' = "idle"
    BY <1>7 DEF RestoreExplicit, DeleteSiblings, RestoreDone, HandleBreakpoint,
       HandleSuspension, SaveTriggers, GetFiredTriggers, AutoResume, PollDone, Reading,
       JobOver, ReadPending, CreateTriggers, agentVars, callVars, vars
  <2> QED
    BY <2>1 DEF Contract!vars, Ids
<1> QED
  BY <1>1, <1>2, <1>3, <1>4, <1>5, <1>6, <1>7 DEF Next, Step

\* resumable/runtime.py, with its storage and triggers, keeps the agent's side of
\* the contract, and the orchestrator that calls it the callers'.
THEOREM AgentHonoursContract == Spec => HonoursContract
<1>1. Init => Contract!Init
  BY DEF Init, Contract!Init, Ids
<1>2. CInv /\ [Next]_vars => [Contract!Next]_(Contract!vars)
  BY StepsKeepContract
<1> QED
  BY <1>1, <1>2, CInvAlways, PTL DEF Spec, HonoursContract, Contract!Spec

\* Conversely, until there is a fault every call that the contract lets the callers
\* make of an idle agent is one that the model makes.
Receptive ==
  pc = "idle" /\ ~Finished /\ faults = 0 =>
    \A S \in SUBSET Interrupts :
      Contract!Proper(S) => MayAnswer(S) \/ (S = {} /\ (result = "none" \/ MayResume))

\* What Resumable assumes of its callers is no more than what the contract, and with
\* it Session's wrappers, promise: every open interrupt is stored, and one with a
\* fired trigger has it in storage.
THEOREM AnyProperCallIsTaken == Spec => []Receptive
<1>1. ASSUME IInv, NoAnswerLost PROVE Receptive
  <2> SUFFICES ASSUME pc = "idle", ~Finished, faults = 0, NEW S \in SUBSET Interrupts,
                      Contract!Proper(S)
               PROVE  MayAnswer(S) \/ (S = {} /\ (result = "none" \/ MayResume))
    BY DEF Receptive
  <2>1. /\ S \subseteq open
        /\ S # {} => result = "suspended"
        /\ result = "suspended" => S # {} \/ open \cap Ids(fired) # {}
    BY DEF Contract!Proper
  <2>2. CASE S # {}
    BY <1>1, <2>1, <2>2 DEF IInv, Covered, MayAnswer
  <2>3. CASE S = {} /\ result = "suspended"
    <3>1. PICK t \in fired : t.id \in open
      BY <2>1, <2>3 DEF Ids
    <3>2. t \in storage
      BY <1>1, <3>1 DEF IInv, CallShape, Loop, NoAnswerLost
    <3> QED
      BY <2>3, <3>1, <3>2 DEF MayResume
  <2>4. CASE S = {} /\ result # "suspended"
    BY <1>1, <2>4 DEF IInv, TypeOK, Kinds, Finished, MayResume
  <2> QED
    BY <2>2, <2>3, <2>4
<1> QED
  BY <1>1, Invariance, AnswersAreKept, PTL
=============================================================================
