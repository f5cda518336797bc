-------------------------- MODULE ResumableProofs ---------------------------
(***************************************************************************)
(* Proofs about Resumable, for every set of interrupts, every assignment   *)
(* of trigger types to them and every bound on faults and breakpoints.     *)
(***************************************************************************)
EXTENDS Resumable, TLAPS

\* Every interrupt with a trigger in S has the whole batch of exactly one
\* create_triggers call in S.
Whole(S) == \A i \in Ids(S) : \E g \in 1..created[i] : Of(S, i) = Batch(i, g)

Loop == {"restoring", "polling"}

\* What the call in progress may hold at each point of the code.
CallShape ==
  /\ pc \notin Loop \cup {"explicit", "delegate"} => answers = {} /\ explicit = FALSE
  /\ pc = "explicit" => explicit = TRUE
  /\ pc \in Loop => explicit = FALSE /\ answers \subseteq open
  /\ pc \notin Loop => deleting = {} /\ toRead = {}
  /\ pc \in Loop => Ids(toRead) \cap answers = {}
  /\ pc # "creating" => pending = {} /\ toCreate = {}
  /\ pc = "creating" => result = "suspended"
  /\ pc = "handling" => result \in Kinds
  /\ pc \in {"polled", "polling"} => result \in {"suspended", "breakpoint"}

\* Stored triggers belong to interrupts the agent waits on, and to none whose
\* answer is on its way, except the siblings about to be deleted.
StoredAreOpen ==
  /\ Ids(storage) \subseteq open
  /\ open \cap answered = {}
  /\ pc \in Loop => Ids(storage) \cap answers \subseteq deleting
  /\ pc = "delegate" => Ids(storage) \cap answers = {}
  /\ pc = "delegate" /\ ~explicit => answers \subseteq open

\* The list being assembled extends the stored one by whole batches, and with
\* the interrupts still to do it covers all the agent waits on.
Assembling ==
  /\ Whole(storage) /\ Whole(pending)
  /\ pc = "creating" =>
       /\ storage \subseteq pending
       /\ open = Ids(pending) \cup toCreate
       /\ Ids(pending) \cap toCreate = {}

\* From the save to the return, what is not stored is in the resume map.
Covered ==
  result = "suspended" =>
    /\ pc \in {"polled", "idle"} => open \subseteq Ids(storage)
    /\ pc = "polling" => open \subseteq Ids(storage) \cup answers

IInv == TypeOK /\ CallShape /\ StoredAreOpen /\ Assembling /\ Covered

\* Before the first fault an interrupt that has been registered is stored, being
\* assembled, in the resume map or answered.
Accounted ==
  faults = 0 =>
    /\ \A i \in Interrupts :
         /\ created[i] <= 1
         /\ created[i] = 1 => i \in answered \cup answers \cup Ids(storage \cup pending)
    /\ pc = "explicit" => answers \subseteq Ids(storage) /\ answers # {}
    /\ answers \subseteq open
-----------------------------------------------------------------------------
\* A step that leaves `created` alone leaves Live alone.
LEMMA LiveUnchanged == UNCHANGED created => Live' = Live
BY DEF Live

\* Creating triggers only adds live ones, among them the new batch.
LEMMA LiveGrows ==
  ASSUME created \in [Interrupts -> Nat], NEW i \in Interrupts,
         created' = [created EXCEPT ![i] = @ + 1]
  PROVE  /\ created' \in [Interrupts -> Nat]
         /\ Live \subseteq Live'
         /\ Batch(i, created[i] + 1) \subseteq Live'
<1>1. created' \in [Interrupts -> Nat]
  OBVIOUS
<1>2. \A j \in Interrupts : 1..created[j] \subseteq 1..created'[j]
  OBVIOUS
<1>3. ASSUME NEW t \in Live PROVE t \in Live'
  <2>1. PICK j \in Interrupts : t \in [id : {j}, type : TypesOf[j], gen : 1..created[j]]
    BY DEF Live
  <2>2. t \in [id : {j}, type : TypesOf[j], gen : 1..created'[j]]
    BY <2>1, <1>2
  <2> QED
    BY <2>2 DEF Live
<1>4. created[i] + 1 \in 1..created'[i]
  BY <1>1
<1>5. ASSUME NEW t \in Batch(i, created[i] + 1) PROVE t \in Live'
  <2>1. t \in [id : {i}, type : TypesOf[i], gen : 1..created'[i]]
    BY <1>4, <1>5 DEF Batch
  <2> QED
    BY <2>1 DEF Live
<1> QED
  BY <1>1, <1>3, <1>5

\* Live triggers carry the id of an interrupt.
LEMMA LiveId == \A t \in Live : t.id \in Interrupts
BY DEF Live

\* Every step keeps the types.
LEMMA TypeStep == IInv /\ [Next]_vars => TypeOK'
<1> SUFFICES ASSUME IInv, [Next]_vars PROVE TypeOK'
  OBVIOUS
<1> USE LiveUnchanged, BoundsAssumption DEF IInv, TypeOK, CallShape, Loop, agentVars, callVars
<1>1. CASE CallFresh
  BY <1>1 DEF CallFresh
<1>2. CASE CallResume
  BY <1>2 DEF CallResume
<1>3. ASSUME NEW S \in SUBSET Interrupts, CallAnswer(S) PROVE TypeOK'
  BY <1>3 DEF CallAnswer
<1>4. ASSUME NEW S \in SUBSET Interrupts, CallMisaddressed(S) PROVE TypeOK'
  BY <1>4 DEF CallMisaddressed
<1>5. CASE RestoreExplicit
  BY <1>5 DEF RestoreExplicit, ConsumedBy
<1>6. ASSUME NEW t \in toRead, ReadFired(t) PROVE TypeOK'
  <2>1. t.id \in Interrupts /\ toRead' \subseteq storage
    BY <1>6, LiveId DEF ReadFired, Of
  <2>2. answers' \subseteq Interrupts /\ deleting' \subseteq answers'
    BY <1>6, <2>1 DEF ReadFired
  <2> QED
    BY <1>6, <2>1, <2>2 DEF ReadFired
<1>7. ASSUME NEW t \in toRead, ReadPending(t) PROVE TypeOK'
  BY <1>7 DEF ReadPending, Reading
<1>8. CASE DeleteSiblings
  <2>1. \A t \in toRead : t.id \notin deleting
    BY <1>8 DEF DeleteSiblings, Ids
  <2>2. storage' \subseteq storage /\ toRead' \subseteq storage'
    BY <1>8, <2>1 DEF DeleteSiblings, Siblings, Of
  <2> QED
    BY <1>8, <2>2 DEF DeleteSiblings
<1>9. CASE RestoreDone
  BY <1>9 DEF RestoreDone, Reading
<1>10. ASSUME NEW k \in Kinds, NEW New \in SUBSET Interrupts, Delegate(k, New) PROVE TypeOK'
  <2>1. open' \subseteq Interrupts /\ answered' \subseteq Interrupts
    BY <1>10 DEF Delegate
  <2>2. breaks' \in 0..MaxBreaks
    BY <1>10 DEF Delegate
  <2>3. toCreate' = {} /\ deleting' = {} /\ toRead' = {}
    BY <1>10 DEF Delegate
  <2> QED
    BY <1>10, <2>1, <2>2, <2>3 DEF Delegate
<1>11. CASE ReturnFinal
  BY <1>11 DEF ReturnFinal
<1>12. CASE HandleBreakpoint
  BY <1>12 DEF HandleBreakpoint
<1>13. CASE HandleSuspension
  BY <1>13 DEF HandleSuspension, NewIds
<1>14. ASSUME NEW i \in toCreate, CreateTriggers(i) PROVE TypeOK'
  BY <1>14, LiveGrows DEF CreateTriggers
<1>15. CASE SaveTriggers
  BY <1>15 DEF SaveTriggers, Saved
<1>16. CASE GetFiredTriggers
  BY <1>16 DEF GetFiredTriggers, Pollable
<1>17. CASE ReturnSuspended
  BY <1>17 DEF ReturnSuspended, PollDone, Reading
<1>18. CASE AutoResume
  BY <1>18 DEF AutoResume, PollDone, Reading
<1>19. ASSUME NEW t \in Live, Fire(t) PROVE TypeOK'
  BY <1>19 DEF Fire
<1>20. CASE Abort
  <2>1. faults' \in 0..MaxFaults
    BY <1>20 DEF Abort
  <2> QED
    BY <1>20, <2>1 DEF Abort
<1>21. CASE UNCHANGED vars
  BY <1>21 DEF vars
<1> QED
  BY <1>1, <1>2, <1>3, <1>4, <1>5, <1>6, <1>7, <1>8, <1>9, <1>10,
     <1>11, <1>12, <1>13, <1>14, <1>15, <1>16, <1>17, <1>18, <1>19, <1>20, <1>21
  DEF Next, Step, JobOver

\* Every step keeps the shape of the call in progress.
LEMMA ShapeStep == IInv /\ [Next]_vars => CallShape'
<1> SUFFICES ASSUME IInv, [Next]_vars PROVE CallShape'
  OBVIOUS
<1> USE DEF IInv, TypeOK, CallShape, Loop, Kinds, agentVars, callVars, Ids
<1>1. CASE CallFresh
  BY <1>1 DEF CallFresh
<1>2. CASE CallResume
  BY <1>2 DEF CallResume
<1>3. ASSUME NEW S \in SUBSET Interrupts, CallAnswer(S) PROVE CallShape'
  BY <1>3 DEF CallAnswer
<1>4. ASSUME NEW S \in SUBSET Interrupts, CallMisaddressed(S) PROVE CallShape'
  BY <1>4 DEF CallMisaddressed
<1>5. CASE RestoreExplicit
  BY <1>5 DEF RestoreExplicit, ConsumedBy
<1>6. ASSUME NEW t \in toRead, ReadFired(t) PROVE CallShape'
  <2>1. t.id \in open
    BY <1>6 DEF StoredAreOpen
  <2>2. Ids(toRead') \cap answers' = {}
    BY <1>6 DEF ReadFired, Reading, Of
  <2> QED
    BY <1>6, <2>1, <2>2 DEF ReadFired, Reading
<1>7. ASSUME NEW t \in toRead, ReadPending(t) PROVE CallShape'
  BY <1>7 DEF ReadPending, Reading
<1>8. CASE DeleteSiblings
  BY <1>8 DEF DeleteSiblings, Siblings, Of
<1>9. CASE RestoreDone
  BY <1>9 DEF RestoreDone, Reading
<1>10. ASSUME NEW k \in Kinds, NEW New \in SUBSET Interrupts, Delegate(k, New) PROVE CallShape'
  BY <1>10 DEF Delegate
<1>11. CASE ReturnFinal
  BY <1>11 DEF ReturnFinal
<1>12. CASE HandleBreakpoint
  BY <1>12 DEF HandleBreakpoint
<1>13. CASE HandleSuspension
  BY <1>13 DEF HandleSuspension, NewIds
<1>14. ASSUME NEW i \in toCreate, CreateTriggers(i) PROVE CallShape'
  BY <1>14 DEF CreateTriggers
<1>15. CASE SaveTriggers
  BY <1>15 DEF SaveTriggers, Saved
<1>16. CASE GetFiredTriggers
  BY <1>16 DEF GetFiredTriggers, Pollable
<1>17. CASE ReturnSuspended
  BY <1>17 DEF ReturnSuspended, PollDone, Reading
<1>18. CASE AutoResume
  BY <1>18 DEF AutoResume, PollDone, Reading
<1>19. ASSUME NEW t \in Live, Fire(t) PROVE CallShape'
  BY <1>19 DEF Fire
<1>20. CASE Abort
  BY <1>20 DEF Abort
<1>21. CASE UNCHANGED vars
  BY <1>21 DEF vars
<1> QED
  BY <1>1, <1>2, <1>3, <1>4, <1>5, <1>6, <1>7, <1>8, <1>9, <1>10,
     <1>11, <1>12, <1>13, <1>14, <1>15, <1>16, <1>17, <1>18, <1>19, <1>20, <1>21
  DEF Next, Step, JobOver

\* Every step keeps the stored triggers those of open, unanswered interrupts.
LEMMA StoredStep == IInv /\ [Next]_vars => StoredAreOpen'
<1> SUFFICES ASSUME IInv, [Next]_vars PROVE StoredAreOpen'
  OBVIOUS
<1> USE DEF IInv, TypeOK, CallShape, StoredAreOpen, Loop, agentVars, callVars, Ids
<1>1. CASE CallFresh
  BY <1>1 DEF CallFresh
<1>2. CASE CallResume
  BY <1>2 DEF CallResume
<1>3. ASSUME NEW S \in SUBSET Interrupts, CallAnswer(S) PROVE StoredAreOpen'
  BY <1>3 DEF CallAnswer
<1>4. ASSUME NEW S \in SUBSET Interrupts, CallMisaddressed(S) PROVE StoredAreOpen'
  BY <1>4 DEF CallMisaddressed
<1>5. CASE RestoreExplicit
  <2>1. storage' \subseteq storage
    BY <1>5 DEF RestoreExplicit
  <2>2. Ids(storage') \cap answers = {}
    BY <1>5 DEF RestoreExplicit, ConsumedBy
  <2> QED
    BY <1>5, <2>1, <2>2 DEF RestoreExplicit
<1>6. ASSUME NEW t \in toRead, ReadFired(t) PROVE StoredAreOpen'
  BY <1>6 DEF ReadFired, Reading, Of
<1>7. ASSUME NEW t \in toRead, ReadPending(t) PROVE StoredAreOpen'
  BY <1>7 DEF ReadPending, Reading
<1>8. CASE DeleteSiblings
  BY <1>8 DEF DeleteSiblings, Siblings, Of
<1>9. CASE RestoreDone
  BY <1>9 DEF RestoreDone, Reading
<1>10. ASSUME NEW k \in Kinds, NEW New \in SUBSET Interrupts, Delegate(k, New) PROVE StoredAreOpen'
  BY <1>10 DEF Delegate
<1>11. CASE ReturnFinal
  BY <1>11 DEF ReturnFinal
<1>12. CASE HandleBreakpoint
  BY <1>12 DEF HandleBreakpoint
<1>13. CASE HandleSuspension
  BY <1>13 DEF HandleSuspension, NewIds
<1>14. ASSUME NEW i \in toCreate, CreateTriggers(i) PROVE StoredAreOpen'
  BY <1>14 DEF CreateTriggers
<1>15. CASE SaveTriggers
  <2>1. Ids(storage') \subseteq open /\ answers = {}
    BY <1>15 DEF SaveTriggers, Saved, Assembling
  <2> QED
    BY <1>15, <2>1 DEF SaveTriggers
<1>16. CASE GetFiredTriggers
  BY <1>16 DEF GetFiredTriggers, Pollable
<1>17. CASE ReturnSuspended
  BY <1>17 DEF ReturnSuspended, PollDone, Reading
<1>18. CASE AutoResume
  BY <1>18 DEF AutoResume, PollDone, Reading
<1>19. ASSUME NEW t \in Live, Fire(t) PROVE StoredAreOpen'
  BY <1>19 DEF Fire
<1>20. CASE Abort
  BY <1>20 DEF Abort
<1>21. CASE UNCHANGED vars
  BY <1>21 DEF vars
<1> QED
  BY <1>1, <1>2, <1>3, <1>4, <1>5, <1>6, <1>7, <1>8, <1>9, <1>10,
     <1>11, <1>12, <1>13, <1>14, <1>15, <1>16, <1>17, <1>18, <1>19, <1>20, <1>21
  DEF Next, Step, JobOver

\* Every step keeps stored and assembled triggers in whole batches.
LEMMA AssemblingStep == IInv /\ [Next]_vars => Assembling'
<1> SUFFICES ASSUME IInv, [Next]_vars PROVE Assembling'
  OBVIOUS
<1> USE DEF IInv, TypeOK, CallShape, Assembling, Whole, Loop, agentVars, callVars, Ids
<1>1. CASE CallFresh
  BY <1>1 DEF CallFresh
<1>2. CASE CallResume
  BY <1>2 DEF CallResume
<1>3. ASSUME NEW S \in SUBSET Interrupts, CallAnswer(S) PROVE Assembling'
  BY <1>3 DEF CallAnswer
<1>4. ASSUME NEW S \in SUBSET Interrupts, CallMisaddressed(S) PROVE Assembling'
  BY <1>4 DEF CallMisaddressed
<1>5. CASE RestoreExplicit
  <2>1. CASE \E t \in storage : storage = {t}
    BY <1>5, <2>1 DEF RestoreExplicit, ConsumedBy
  <2>2. CASE ~\E t \in storage : storage = {t}
    <3>1. storage' = {t \in storage : t.id \notin answers}
      BY <1>5, <2>2 DEF RestoreExplicit, ConsumedBy
    <3>2. \A i \in Ids(storage') : i \in Ids(storage) /\ Of(storage', i) = Of(storage, i)
      BY <3>1 DEF Of
    <3> QED
      BY <1>5, <3>1, <3>2 DEF RestoreExplicit
  <2> QED
    BY <2>1, <2>2
<1>6. ASSUME NEW t \in toRead, ReadFired(t) PROVE Assembling'
  BY <1>6 DEF ReadFired, Reading, Of
<1>7. ASSUME NEW t \in toRead, ReadPending(t) PROVE Assembling'
  BY <1>7 DEF ReadPending, Reading
<1>8. CASE DeleteSiblings
  BY <1>8 DEF DeleteSiblings, Siblings, Of
<1>9. CASE RestoreDone
  BY <1>9 DEF RestoreDone, Reading
<1>10. ASSUME NEW k \in Kinds, NEW New \in SUBSET Interrupts, Delegate(k, New) PROVE Assembling'
  BY <1>10 DEF Delegate
<1>11. CASE ReturnFinal
  BY <1>11 DEF ReturnFinal
<1>12. CASE HandleBreakpoint
  BY <1>12 DEF HandleBreakpoint
<1>13. CASE HandleSuspension
  <2>1. Ids(storage) \subseteq open
    BY DEF StoredAreOpen
  <2> QED
    BY <1>13, <2>1 DEF HandleSuspension, NewIds
<1>14. ASSUME NEW i \in toCreate, CreateTriggers(i) PROVE Assembling'
  <2> DEFINE g == created[i] + 1
             new == Batch(i, g)
  <2>1. i \in Interrupts /\ i \notin Ids(pending) /\ i \in open
    BY <1>14 DEF CreateTriggers
  <2>2. created' = [created EXCEPT ![i] = g] /\ pending' = pending \cup new
    BY <1>14 DEF CreateTriggers
  <2>3. \A j \in Interrupts : 1..created[j] \subseteq 1..created'[j]
    BY <2>1, <2>2
  <2>4. g \in 1..created'[i]
    BY <2>1, <2>2
  <2>5. \A t \in new : t.id = i
    BY DEF Batch
  <2>6. TypesOf[i] # {}
    BY <2>1, TypesAssumption
  <2>7. PICK y \in TypesOf[i] : TRUE
    BY <2>6
  <2>8. [id |-> i, type |-> y, gen |-> g] \in new
    BY <2>7 DEF Batch
  <2>9. i \in Ids(new)
    BY <2>8
  <2>10. Ids(new) = {i} /\ Ids(pending') = Ids(pending) \cup {i}
    BY <2>2, <2>5, <2>9
  <2>11. Of(pending', i) = new
    BY <2>1, <2>2, <2>5 DEF Of
  <2>12. \A j \in Ids(pending) : Of(pending', j) = Of(pending, j)
    BY <2>1, <2>2, <2>5 DEF Of
  <2>13. Ids(pending) \subseteq Interrupts /\ Ids(storage) \subseteq Interrupts
    BY LiveId
  <2>14. Whole(pending)'
    BY <2>3, <2>4, <2>10, <2>11, <2>12, <2>13
  <2>15. Whole(storage)'
    BY <1>14, <2>3, <2>13 DEF CreateTriggers
  <2>16. /\ storage' = storage /\ open' = open /\ pc = "creating"
         /\ toCreate' = toCreate \ {i}
    BY <1>14 DEF CreateTriggers
  <2>17. storage' \subseteq pending'
    BY <2>2, <2>16
  <2> HIDE DEF Ids, Whole
  <2>18. open' = Ids(pending)' \cup toCreate' /\ Ids(pending)' \cap toCreate' = {}
    BY <2>1, <2>10, <2>16
  <2> QED
    BY <2>14, <2>15, <2>17, <2>18
<1>15. CASE SaveTriggers
  BY <1>15 DEF SaveTriggers, Saved
<1>16. CASE GetFiredTriggers
  BY <1>16 DEF GetFiredTriggers, Pollable
<1>17. CASE ReturnSuspended
  BY <1>17 DEF ReturnSuspended, PollDone, Reading
<1>18. CASE AutoResume
  BY <1>18 DEF AutoResume, PollDone, Reading
<1>19. ASSUME NEW t \in Live, Fire(t) PROVE Assembling'
  BY <1>19 DEF Fire
<1>20. CASE Abort
  BY <1>20 DEF Abort
<1>21. CASE UNCHANGED vars
  BY <1>21 DEF vars
<1> QED
  BY <1>1, <1>2, <1>3, <1>4, <1>5, <1>6, <1>7, <1>8, <1>9, <1>10,
     <1>11, <1>12, <1>13, <1>14, <1>15, <1>16, <1>17, <1>18, <1>19, <1>20, <1>21
  DEF Next, Step, JobOver

\* Every step keeps what is open stored or in the resume map.
LEMMA CoveredStep == IInv /\ [Next]_vars => Covered'
<1> SUFFICES ASSUME IInv, [Next]_vars PROVE Covered'
  OBVIOUS
<1> USE DEF IInv, TypeOK, CallShape, Covered, Loop, agentVars, callVars, Ids
<1>1. CASE CallFresh
  BY <1>1 DEF CallFresh
<1>2. CASE CallResume
  BY <1>2 DEF CallResume
<1>3. ASSUME NEW S \in SUBSET Interrupts, CallAnswer(S) PROVE Covered'
  BY <1>3 DEF CallAnswer
<1>4. ASSUME NEW S \in SUBSET Interrupts, CallMisaddressed(S) PROVE Covered'
  BY <1>4 DEF CallMisaddressed
<1>5. CASE RestoreExplicit
  BY <1>5 DEF RestoreExplicit, ConsumedBy
<1>6. ASSUME NEW t \in toRead, ReadFired(t) PROVE Covered'
  BY <1>6 DEF ReadFired, Reading, Of
<1>7. ASSUME NEW t \in toRead, ReadPending(t) PROVE Covered'
  BY <1>7 DEF ReadPending, Reading
<1>8. CASE DeleteSiblings
  BY <1>8 DEF DeleteSiblings, Siblings, Of
<1>9. CASE RestoreDone
  BY <1>9 DEF RestoreDone, Reading
<1>10. ASSUME NEW k \in Kinds, NEW New \in SUBSET Interrupts, Delegate(k, New) PROVE Covered'
  BY <1>10 DEF Delegate
<1>11. CASE ReturnFinal
  BY <1>11 DEF ReturnFinal
<1>12. CASE HandleBreakpoint
  BY <1>12 DEF HandleBreakpoint
<1>13. CASE HandleSuspension
  BY <1>13 DEF HandleSuspension, NewIds
<1>14. ASSUME NEW i \in toCreate, CreateTriggers(i) PROVE Covered'
  BY <1>14 DEF CreateTriggers
<1>15. CASE SaveTriggers
  BY <1>15 DEF SaveTriggers, Saved, Assembling
<1>16. CASE GetFiredTriggers
  BY <1>16 DEF GetFiredTriggers, Pollable
<1>17. CASE ReturnSuspended
  BY <1>17 DEF ReturnSuspended, PollDone, Reading
<1>18. CASE AutoResume
  BY <1>18 DEF AutoResume, PollDone, Reading
<1>19. ASSUME NEW t \in Live, Fire(t) PROVE Covered'
  BY <1>19 DEF Fire
<1>20. CASE Abort
  BY <1>20 DEF Abort
<1>21. CASE UNCHANGED vars
  BY <1>21 DEF vars
<1> QED
  BY <1>1, <1>2, <1>3, <1>4, <1>5, <1>6, <1>7, <1>8, <1>9, <1>10,
     <1>11, <1>12, <1>13, <1>14, <1>15, <1>16, <1>17, <1>18, <1>19, <1>20, <1>21
  DEF Next, Step, JobOver

\* The inductive invariant holds in every reachable state.
THEOREM Invariance == Spec => []IInv
<1>1. Init => IInv
  <2> SUFFICES ASSUME Init PROVE IInv
    OBVIOUS
  <2>1. TypeOK
    <3>1. created \in [Interrupts -> Nat] /\ 0 \in 0..MaxBreaks /\ 0 \in 0..MaxFaults
      BY BoundsAssumption DEF Init
    <3> QED
      BY <3>1 DEF Init, TypeOK
  <2>2. CallShape /\ StoredAreOpen /\ Assembling /\ Covered
    BY DEF Init, CallShape, StoredAreOpen, Assembling, Covered, Whole, Loop, Ids
  <2> QED
    BY <2>1, <2>2 DEF IInv
<1>2. IInv /\ [Next]_vars => IInv'
  BY TypeStep, ShapeStep, StoredStep, AssemblingStep, CoveredStep DEF IInv
<1> QED
  BY <1>1, <1>2, PTL DEF Spec

\* Type correctness of every reachable state of the wrapper, its storage and
\* its environment.
THEOREM TypeCorrect == Spec => []TypeOK
<1>1. IInv => TypeOK
  BY DEF IInv
<1> QED
  BY <1>1, Invariance, PTL

\* A job handed back as suspended can be woken for every interrupt it waits
\* on, through all siblings of one create_triggers call (_handle_suspension).
THEOREM SuspendedJobsAreResumable == Spec => []SuspendedIsResumable
<1>1. IInv => SuspendedIsResumable
  BY DEF IInv, Covered, Assembling, Whole, SuspendedIsResumable
<1> QED
  BY <1>1, Invariance, PTL

\* No trigger of an answered interrupt stays stored, whatever its type
\* (the sibling deletion of _build_resume_map).
THEOREM NoSiblingLeaks == Spec => []AnsweredLeaveNothingStored
<1>1. IInv => AnsweredLeaveNothingStored
  BY DEF IInv, StoredAreOpen, AnsweredLeaveNothingStored
<1> QED
  BY <1>1, Invariance, PTL

\* Answers taken from triggers reach an agent that waits for them.
THEOREM AnswersReachOpenInterrupts == Spec => []AnswersOnlyOpen
<1>1. IInv => AnswersOnlyOpen
  BY DEF IInv, StoredAreOpen, AnswersOnlyOpen
<1> QED
  BY <1>1, Invariance, PTL

\* A stored trigger goes only with an answer for its interrupt, or as the only
\* one stored when the caller brings input: save_triggers loses none.
THEOREM NoTriggerIsOverwritten == Spec => OnlyAnsweredAreDeleted
<1> DEFINE Kept == \A t \in storage \ storage' :
                     t.id \in answers \/ (explicit /\ storage = {t})
<1>1. IInv /\ [Next]_vars => [Kept]_storage
  <2> SUFFICES ASSUME IInv, Next PROVE storage' = storage \/ Kept
    BY DEF vars
  <2>1. CASE RestoreExplicit
    BY <2>1 DEF RestoreExplicit, ConsumedBy, IInv, CallShape
  <2>2. CASE DeleteSiblings
    BY <2>2 DEF DeleteSiblings, Siblings, Of, IInv, TypeOK
  <2>3. CASE SaveTriggers
    BY <2>3 DEF SaveTriggers, Saved, IInv, Assembling
  <2>4. CASE ~(RestoreExplicit \/ DeleteSiblings \/ SaveTriggers)
    <3>1. storage' = storage
      BY <2>4 DEF Next, Step, JobOver, vars, CallFresh, CallResume, CallAnswer,
         CallMisaddressed, ReadFired, ReadPending, RestoreDone, Delegate,
         ReturnFinal, HandleBreakpoint, HandleSuspension, CreateTriggers,
         GetFiredTriggers, ReturnSuspended, AutoResume, Fire, Abort
    <3> QED
      BY <3>1
  <2> QED
    BY <2>1, <2>2, <2>3, <2>4
<1> QED
  BY <1>1, Invariance, PTL DEF Spec, OnlyAnsweredAreDeleted

-----------------------------------------------------------------------------
(* Before the first fault                                                  *)

\* Until a fault every step keeps registered interrupts accounted for.
LEMMA AccountedStep == IInv /\ Accounted /\ [Next]_vars => Accounted'
<1> SUFFICES ASSUME IInv /\ Accounted, [Next]_vars PROVE Accounted'
  OBVIOUS
<1>0. faults \in 0..MaxFaults /\ MaxFaults \in Nat
  BY BoundsAssumption DEF IInv, TypeOK
<1> USE DEF IInv, TypeOK, CallShape, StoredAreOpen, Accounted, Loop, agentVars, callVars, Ids
<1>1. CASE CallFresh
  BY <1>1 DEF CallFresh
<1>2. CASE CallResume
  BY <1>2 DEF CallResume
<1>3. ASSUME NEW S \in SUBSET Interrupts, CallAnswer(S) PROVE Accounted'
  BY <1>3 DEF CallAnswer, MayAnswer
<1>4. ASSUME NEW S \in SUBSET Interrupts, CallMisaddressed(S) PROVE Accounted'
  BY <1>0, <1>4 DEF CallMisaddressed
<1>5. CASE RestoreExplicit
  BY <1>5 DEF RestoreExplicit, ConsumedBy
<1>6. ASSUME NEW t \in toRead, ReadFired(t) PROVE Accounted'
  BY <1>6 DEF ReadFired, Reading, Of
<1>7. ASSUME NEW t \in toRead, ReadPending(t) PROVE Accounted'
  BY <1>7 DEF ReadPending, Reading
<1>8. CASE DeleteSiblings
  BY <1>8 DEF DeleteSiblings, Siblings, Of
<1>9. CASE RestoreDone
  BY <1>9 DEF RestoreDone, Reading
<1>10. ASSUME NEW k \in Kinds, NEW New \in SUBSET Interrupts, Delegate(k, New) PROVE Accounted'
  BY <1>10 DEF Delegate
<1>11. CASE ReturnFinal
  BY <1>11 DEF ReturnFinal
<1>12. CASE HandleBreakpoint
  BY <1>12 DEF HandleBreakpoint
<1>13. CASE HandleSuspension
  BY <1>13 DEF HandleSuspension, NewIds
<1>14. ASSUME NEW i \in toCreate, CreateTriggers(i) PROVE Accounted'
  <2> SUFFICES ASSUME faults = 0 PROVE Accounted'
    BY <1>14 DEF CreateTriggers, Accounted
  <2>1. /\ i \in open /\ i \in Interrupts /\ i \notin answered
        /\ i \notin Ids(storage \cup pending) /\ answers = {}
    BY <1>14 DEF CreateTriggers, Assembling
  <2>2. created[i] = 0
    BY <2>1
  <2>3. PICK y \in TypesOf[i] : TRUE
    BY <2>1, TypesAssumption
  <2>4. [id |-> i, type |-> y, gen |-> created[i] + 1] \in pending'
    BY <1>14, <2>3 DEF CreateTriggers, Batch
  <2>5. i \in Ids(storage \cup pending)'
    BY <2>4
  <2>6. \A j \in Ids(storage \cup pending) : j \in Ids(storage \cup pending)'
    BY <1>14 DEF CreateTriggers
  <2>7. \A j \in Interrupts : created'[j] = IF j = i THEN 1 ELSE created[j]
    BY <1>14, <2>1, <2>2 DEF CreateTriggers
  <2>8. answered' = answered /\ answers' = answers /\ pc' = "creating" /\ open' = open
    BY <1>14 DEF CreateTriggers
  <2> DEFINE J == Ids(storage \cup pending)
  <2>9. \A j \in Interrupts : created'[j] <= 1
    BY <2>7
  <2>10. i \in J' /\ J \subseteq J'
    BY <2>5, <2>6
  <2>11. \A j \in Interrupts : created[j] = 1 => j \in answered \cup answers \cup J
    OBVIOUS
  <2> HIDE DEF J
  <2>12. \A j \in Interrupts : created'[j] = 1 => j \in answered' \cup answers' \cup J'
    BY <2>7, <2>8, <2>10, <2>11
  <2> USE DEF J
  <2> QED
    BY <2>1, <2>8, <2>9, <2>12
<1>15. CASE SaveTriggers
  <2>1. storage \cup pending = pending /\ (storage \cup pending)' = pending
    BY <1>15 DEF SaveTriggers, Saved, Assembling
  <2> QED
    BY <1>15, <2>1 DEF SaveTriggers
<1>16. CASE GetFiredTriggers
  BY <1>16 DEF GetFiredTriggers, Pollable
<1>17. CASE ReturnSuspended
  BY <1>17 DEF ReturnSuspended, PollDone, Reading
<1>18. CASE AutoResume
  BY <1>18 DEF AutoResume, PollDone, Reading
<1>19. ASSUME NEW t \in Live, Fire(t) PROVE Accounted'
  BY <1>19 DEF Fire
<1>20. CASE Abort
  BY <1>0, <1>20 DEF Abort
<1>21. CASE UNCHANGED vars
  BY <1>21 DEF vars
<1> QED
  BY <1>1, <1>2, <1>3, <1>4, <1>5, <1>6, <1>7, <1>8, <1>9, <1>10,
     <1>11, <1>12, <1>13, <1>14, <1>15, <1>16, <1>17, <1>18, <1>19, <1>20, <1>21
  DEF Next, Step, JobOver

\* Until a fault every registered interrupt stays accounted for.
LEMMA AccountedAlways == Spec => []Accounted
<1>1. Init => Accounted
  BY DEF Init, Accounted
<1>2. IInv /\ Accounted /\ [Next]_vars => Accounted'
  BY AccountedStep
<1> QED
  BY <1>1, <1>2, Invariance, PTL DEF Spec

\* Before the first fault create_triggers is called once per interrupt, however
\* often the agent suspends on it.
THEOREM CreatedOnce == Spec => []RegisteredOnce
<1>1. Accounted => RegisteredOnce
  BY DEF Accounted, RegisteredOnce
<1> QED
  BY <1>1, AccountedAlways, PTL

\* Before the first fault no payload the environment delivered is dropped.
THEOREM AnswersAreKept == Spec => []NoAnswerLost
<1>1. IInv /\ Accounted => NoAnswerLost
  <2> SUFFICES ASSUME IInv, Accounted, faults = 0, NEW t \in fired, t.id \in open,
                      t.id \notin answers
               PROVE  t \in storage \cup pending
    BY DEF NoAnswerLost
  <2> DEFINE i == t.id
  <2>1. t \in Live /\ i \in Interrupts
    BY LiveId DEF IInv, TypeOK
  <2>2. t \in [id : {i}, type : TypesOf[i], gen : 1..created[i]]
    BY <2>1 DEF Live
  <2>3. created[i] = 1
    BY <2>1, <2>2 DEF Accounted, IInv, TypeOK
  <2>4. t \in Batch(i, 1)
    BY <2>2, <2>3 DEF Batch
  <2>5. i \in Ids(storage) \/ i \in Ids(pending)
    BY <2>1, <2>3 DEF Accounted, IInv, StoredAreOpen, Ids
  <2>6. ASSUME NEW S, Whole(S), i \in Ids(S) PROVE t \in S
    <3>1. Of(S, i) = Batch(i, 1)
      BY <2>3, <2>6 DEF Whole
    <3> QED
      BY <2>4, <3>1 DEF Of
  <2> QED
    BY <2>5, <2>6 DEF IInv, Assembling
<1> QED
  BY <1>1, AccountedAlways, Invariance, PTL
=============================================================================
