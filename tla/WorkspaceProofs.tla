--------------------------- MODULE WorkspaceProofs ---------------------------
(***************************************************************************)
(* Proofs about Workspace, for any files and contents, any number of       *)
(* calls, failures, processes and jobs, and every policy.                  *)
(***************************************************************************)
EXTENDS Workspace, TLAPS

\* The delegate has ended in this call.
Saving == {"persisting", "uploading", "linking", "returning"}

\* What each stretch of a call presumes.
Staged ==
  /\ pc \in {"arriving", "fetching"} => conv
  /\ pc \in Saving \cup {"running"} => ran
  /\ pc \notin {"fetching", "hydrating"} => toGet = {}
  /\ IF saved THEN ran ELSE store = NoFiles
  /\ pc = "fetching" => /\ ~saved /\ ~hydrated /\ hasOffer
                        /\ toGet \subseteq Named(offer)
  /\ pc = "hydrating" => toGet \subseteq Named(store)
  /\ saver = "conversation" => pc \in Saving /\ outcome = "successful"

\* A part of a download is replaced before the delegate sees it, by the restore
\* that is due in this call or the next.
Awaited(f) ==
  \/ pc \in {"off", "arriving", "loading"} /\ f \in Named(store)
  \/ /\ pc \in {"off", "arriving"} /\ f \in Named(offer)
     /\ conv /\ ~hydrated /\ ~saved /\ hasOffer
  \/ pc \in {"fetching", "hydrating"} /\ f \in toGet

Restoring ==
  /\ pc = "fetching" => \A f \in Named(offer) \ toGet : disk[f] = offer[f]
  /\ pc = "hydrating" => \A f \in Named(store) \ toGet : disk[f] = store[f]
  /\ \A f \in Files : disk[f] = Partial =>
       Awaited(f) /\ ~(pc = "off" /\ returned = "successful")

\* The registry under construction is the files the delegate left.
Persisting ==
  /\ pc \in Saving => files = disk
  /\ pc = "uploading" =>
       \A f \in Files : IF f \in toPut THEN disk[f] # None ELSE current[f] = disk[f]
  /\ pc = "linking" =>
       /\ current = files
       /\ \A f \in Named(current) : <<f, current[f]>> \in linked \/ f \in toLink
       /\ toLink \subseteq Named(current)
  /\ pc = "returning" /\ outcome = "suspended" => saved /\ store = files
  /\ pc = "returning" /\ saver = "conversation" => held = files

\* Until the new job's agent runs, the published snapshot is what the previous
\* job's agent left, and once it is fetched the directory is the snapshot.
Continuing ==
  /\ hasOffer => conv
  /\ hasOffer /\ ~ran => left = offer /\ ~saved
  /\ hasOffer /\ ~ran /\ hydrated => disk = offer
  /\ pc \in {"loading", "hydrating"} /\ conv => hydrated
  /\ pc = "off" /\ returned = "successful" /\ conv => held = files

IInv ==
  /\ TypeOK /\ SuspensionIsDurable /\ RegistryIsLinked
  /\ Staged /\ Restoring /\ Persisting /\ Continuing
-----------------------------------------------------------------------------
USE NoneAssumption DEF hostVars, storeVars, convVars, putVars, history

LEMMA InitIInv == Init => IInv
<1> SUFFICES ASSUME Init PROVE IInv
  OBVIOUS
<1>1. TypeOK
  BY DEF Init, TypeOK, Registries, NoFiles, Policies
<1>2. SuspensionIsDurable /\ RegistryIsLinked
  BY DEF Init, SuspensionIsDurable, RegistryIsLinked, Attachments, Named, NoFiles
<1>3. Staged
  BY DEF Init, Staged, Saving
<1>4. Restoring
  BY DEF Init, Restoring, NoFiles
<1>5. Persisting /\ Continuing
  BY DEF Init, Persisting, Continuing, Saving
<1> QED
  BY <1>1, <1>2, <1>3, <1>4, <1>5 DEF IInv

-----------------------------------------------------------------------------
(* Calls                                                                   *)

LEMMA CallKeeps == ASSUME IInv, Call PROVE IInv'
<1> USE DEF Call
<1>1. TypeOK'
  <2>1. NoFiles \in Registries
    BY DEF NoFiles, Registries
  <2>2. disk' \in [Files -> Contents \cup {None, Partial}]
    BY DEF IInv, TypeOK, Registries
  <2>3. held' \in Registries /\ hydrated' \in BOOLEAN
    BY <2>1 DEF IInv, TypeOK
  <2> QED
    BY <2>1, <2>2, <2>3 DEF IInv, TypeOK
<1>2. SuspensionIsDurable' /\ RegistryIsLinked'
  BY DEF IInv, SuspensionIsDurable, RegistryIsLinked
<1>3. Staged'
  BY DEF IInv, Staged, Saving
<1>4. Restoring'
  BY DEF IInv, Restoring, Awaited, Registries
<1>5. Persisting'
  BY DEF Persisting, Saving
<1>6. Continuing'
  BY DEF IInv, Continuing
<1> QED
  BY <1>1, <1>2, <1>3, <1>4, <1>5, <1>6 DEF IInv

LEMMA NextJobKeeps == ASSUME IInv, NextJob PROVE IInv'
<1> USE DEF NextJob
<1>1. TypeOK'
  BY DEF IInv, TypeOK, Registries, NoFiles, Kinds, Named
<1>2. SuspensionIsDurable' /\ RegistryIsLinked'
  BY DEF SuspensionIsDurable, RegistryIsLinked, Attachments, Named, NoFiles
<1>3. Staged'
  BY DEF IInv, Staged, Saving
<1>4. Restoring'
  BY DEF IInv, Restoring
<1>5. Persisting'
  BY DEF Persisting, Saving
<1>6. Continuing'
  BY DEF IInv, Continuing
<1> QED
  BY <1>1, <1>2, <1>3, <1>4, <1>5, <1>6 DEF IInv

LEMMA ArriveKeeps == ASSUME IInv, Arrive PROVE IInv'
<1> USE DEF Arrive
<1>1. TypeOK'
  <2>1. held' \in Registries /\ hydrated' \in BOOLEAN
    BY DEF IInv, TypeOK
  <2>2. toGet' \subseteq Files
    BY DEF IInv, TypeOK, Named
  <2> QED
    BY <2>1, <2>2 DEF IInv, TypeOK
<1>2. SuspensionIsDurable' /\ RegistryIsLinked'
  BY DEF IInv, SuspensionIsDurable, RegistryIsLinked
<1>3. Staged'
  BY DEF IInv, Staged, Saving
<1>4. Restoring'
  BY DEF IInv, Staged, Restoring, Awaited, Named, NoFiles
<1>5. Persisting'
  BY DEF Persisting, Saving
<1>6. Continuing'
  BY DEF IInv, Continuing
<1> QED
  BY <1>1, <1>2, <1>3, <1>4, <1>5, <1>6 DEF IInv

-----------------------------------------------------------------------------
(* Restoring files                                                         *)

LEMMA FetchKeeps == ASSUME IInv, NEW f \in Files, Fetch(f) PROVE IInv'
<1> USE DEF Fetch
<1>1. TypeOK'
  BY DEF IInv, TypeOK, Registries
<1>2. SuspensionIsDurable' /\ RegistryIsLinked'
  BY DEF IInv, SuspensionIsDurable, RegistryIsLinked
<1>3. Staged'
  BY DEF IInv, Staged
<1>4. Restoring'
  BY DEF IInv, TypeOK, Restoring, Awaited, Registries
<1>5. Persisting'
  BY DEF Persisting, Saving
<1>6. Continuing'
  BY DEF IInv, Staged, Continuing
<1> QED
  BY <1>1, <1>2, <1>3, <1>4, <1>5, <1>6 DEF IInv

LEMMA FetchedKeeps == ASSUME IInv, Fetched PROVE IInv'
<1> USE DEF Fetched, Pruned
<1>1. TypeOK'
  BY DEF IInv, TypeOK
<1>2. SuspensionIsDurable' /\ RegistryIsLinked'
  BY DEF IInv, SuspensionIsDurable, RegistryIsLinked
<1>3. Staged'
  BY DEF IInv, Staged, Saving
<1>4. Restoring'
  BY DEF IInv, Restoring, Awaited
<1>5. Persisting'
  BY DEF Persisting, Saving
<1>6. Continuing'
  <2>1. offer \in Registries /\ \A f \in Named(offer) : disk[f] = offer[f]
    BY DEF IInv, TypeOK, Restoring
  <2>2. disk' = offer
    BY <2>1 DEF Registries, Named
  <2> QED
    BY <2>2 DEF IInv, Continuing
<1> QED
  BY <1>1, <1>2, <1>3, <1>4, <1>5, <1>6 DEF IInv

LEMMA LoadKeeps == ASSUME IInv, Load PROVE IInv'
<1> USE DEF Load
<1>1. TypeOK'
  BY DEF IInv, TypeOK, Named
<1>2. SuspensionIsDurable' /\ RegistryIsLinked'
  BY DEF IInv, SuspensionIsDurable, RegistryIsLinked
<1>3. Staged'
  BY DEF IInv, Staged, Saving
<1>4. Restoring'
  BY DEF IInv, Restoring, Awaited
<1>5. Persisting'
  BY DEF Persisting, Saving
<1>6. Continuing'
  BY DEF IInv, Continuing
<1> QED
  BY <1>1, <1>2, <1>3, <1>4, <1>5, <1>6 DEF IInv

LEMMA RestoreKeeps == ASSUME IInv, NEW f \in Files, Restore(f) PROVE IInv'
<1> USE DEF Restore, Keeps
<1>1. TypeOK'
  BY DEF IInv, TypeOK, Registries
<1>2. SuspensionIsDurable' /\ RegistryIsLinked'
  BY DEF IInv, SuspensionIsDurable, RegistryIsLinked
<1>3. Staged'
  BY DEF IInv, Staged
<1>4. Restoring'
  BY DEF IInv, TypeOK, Restoring, Awaited, Registries
<1>5. Persisting'
  BY DEF Persisting, Saving
<1>6. Continuing'
  <2>1. ran
    BY DEF IInv, Staged, Named, NoFiles
  <2> QED
    BY <2>1 DEF IInv, Continuing
<1> QED
  BY <1>1, <1>2, <1>3, <1>4, <1>5, <1>6 DEF IInv

LEMMA StartDelegateKeeps == ASSUME IInv, StartDelegate PROVE IInv'
<1> USE DEF StartDelegate
<1>1. TypeOK'
  BY DEF IInv, TypeOK, Registries, NoFiles
<1>2. SuspensionIsDurable' /\ RegistryIsLinked'
  BY DEF IInv, SuspensionIsDurable, RegistryIsLinked
<1>3. Staged'
  BY DEF IInv, Staged, Saving
<1>4. Restoring'
  BY DEF IInv, Restoring, Awaited
<1>5. Persisting'
  BY DEF Persisting, Saving
<1>6. Continuing'
  BY DEF IInv, Continuing
<1> QED
  BY <1>1, <1>2, <1>3, <1>4, <1>5, <1>6 DEF IInv

-----------------------------------------------------------------------------
(* The delegate                                                            *)

LEMMA WriteKeeps ==
  ASSUME IInv, NEW f \in Files, NEW c \in Contents \cup {None}, Write(f, c)
  PROVE  IInv'
<1> USE DEF Write
<1>1. TypeOK'
  BY DEF IInv, TypeOK
<1>2. SuspensionIsDurable' /\ RegistryIsLinked'
  BY DEF IInv, SuspensionIsDurable, RegistryIsLinked
<1>3. Staged'
  BY DEF IInv, Staged
<1>4. Restoring'
  BY DEF IInv, Restoring, Awaited
<1>5. Persisting'
  BY DEF Persisting, Saving
<1>6. Continuing'
  BY DEF IInv, Staged, Continuing
<1> QED
  BY <1>1, <1>2, <1>3, <1>4, <1>5, <1>6 DEF IInv

LEMMA DelegateEndsKeeps ==
  ASSUME IInv, NEW kind \in Kinds, DelegateEnds(kind)
  PROVE  IInv'
<1> USE DEF DelegateEnds, ShouldDehydrate
<1>1. TypeOK'
  <2>1. files' \in Registries
    BY DEF IInv, TypeOK, Restoring, Awaited, Registries
  <2> QED
    BY <2>1 DEF IInv, TypeOK
<1>2. SuspensionIsDurable' /\ RegistryIsLinked'
  BY DEF IInv, SuspensionIsDurable, RegistryIsLinked
<1>3. Staged'
  BY DEF IInv, Staged, Saving
<1>4. Restoring'
  BY DEF IInv, Restoring, Awaited
<1>5. Persisting'
  BY DEF IInv, Staged, Persisting, Saving
<1>6. Continuing'
  BY DEF IInv, Continuing
<1> QED
  BY <1>1, <1>2, <1>3, <1>4, <1>5, <1>6 DEF IInv

-----------------------------------------------------------------------------
(* Persisting files                                                        *)

LEMMA PersistKeeps == ASSUME IInv, Persist PROVE IInv'
<1> USE DEF Persist
<1>1. TypeOK'
  BY DEF IInv, TypeOK, Registries, NoFiles, Named
<1>2. SuspensionIsDurable' /\ RegistryIsLinked'
  BY DEF IInv, SuspensionIsDurable, RegistryIsLinked
<1>3. Staged'
  BY DEF IInv, Staged, Saving
<1>4. Restoring'
  BY DEF IInv, Restoring, Awaited
<1>5. Persisting'
  BY DEF IInv, Persisting, Saving, Named, NoFiles
<1>6. Continuing'
  BY DEF IInv, Continuing
<1> QED
  BY <1>1, <1>2, <1>3, <1>4, <1>5, <1>6 DEF IInv

LEMMA PutKeeps == ASSUME IInv, NEW f \in Files, Put(f) PROVE IInv'
<1> USE DEF Put, Unchanged
<1>1. TypeOK'
  <2>1. current' \in Registries
    BY DEF IInv, TypeOK, Persisting, Saving, Registries
  <2> QED
    BY <2>1 DEF IInv, TypeOK
<1>2. SuspensionIsDurable' /\ RegistryIsLinked'
  BY DEF IInv, SuspensionIsDurable, RegistryIsLinked
<1>3. Staged'
  BY DEF IInv, Staged
<1>4. Restoring'
  BY DEF IInv, Restoring, Awaited
<1>5. Persisting'
  BY DEF IInv, TypeOK, Persisting, Registries
<1>6. Continuing'
  BY DEF IInv, Continuing
<1> QED
  BY <1>1, <1>2, <1>3, <1>4, <1>5, <1>6 DEF IInv

LEMMA StartLinkingKeeps == ASSUME IInv, StartLinking PROVE IInv'
<1> USE DEF StartLinking, ToLink
<1>1. TypeOK'
  BY DEF IInv, TypeOK, Named
<1>2. SuspensionIsDurable' /\ RegistryIsLinked'
  BY DEF IInv, SuspensionIsDurable, RegistryIsLinked
<1>3. Staged'
  BY DEF IInv, Staged, Saving
<1>4. Restoring'
  BY DEF IInv, Restoring, Awaited
<1>5. Persisting'
  BY DEF IInv, TypeOK, Persisting, Saving, Registries
<1>6. Continuing'
  BY DEF IInv, Continuing
<1> QED
  BY <1>1, <1>2, <1>3, <1>4, <1>5, <1>6 DEF IInv

LEMMA LinkKeeps == ASSUME IInv, NEW f \in Files, Link(f) PROVE IInv'
<1> USE DEF Link
<1>1. TypeOK'
  <2>1. current[f] \in Contents
    BY DEF IInv, TypeOK, Persisting, Registries, Named
  <2> QED
    BY <2>1 DEF IInv, TypeOK
<1>2. SuspensionIsDurable' /\ RegistryIsLinked'
  BY DEF IInv, SuspensionIsDurable, RegistryIsLinked
<1>3. Staged'
  BY DEF IInv, Staged
<1>4. Restoring'
  BY DEF IInv, Restoring, Awaited
<1>5. Persisting'
  BY DEF IInv, Persisting
<1>6. Continuing'
  BY DEF IInv, Continuing
<1> QED
  BY <1>1, <1>2, <1>3, <1>4, <1>5, <1>6 DEF IInv

LEMMA SaveKeeps == ASSUME IInv, Save PROVE IInv'
<1> USE DEF Save, Dehydrated
<1>1. TypeOK'
  BY DEF IInv, TypeOK, Registries, NoFiles
<1>2. SuspensionIsDurable' /\ RegistryIsLinked'
  BY DEF IInv, Persisting, SuspensionIsDurable, RegistryIsLinked, Attachments
<1>3. Staged'
  BY DEF IInv, Staged, Saving
<1>4. Restoring'
  BY DEF IInv, Restoring, Awaited
<1>5. Persisting'
  BY DEF IInv, Persisting, Saving
<1>6. Continuing'
  BY DEF IInv, Staged, Continuing, Saving
<1> QED
  BY <1>1, <1>2, <1>3, <1>4, <1>5, <1>6 DEF IInv

LEMMA ReturnKeeps == ASSUME IInv, Return PROVE IInv'
<1> USE DEF Return
<1>1. TypeOK'
  BY DEF IInv, TypeOK
<1>2. SuspensionIsDurable' /\ RegistryIsLinked'
  BY DEF IInv, Persisting, SuspensionIsDurable, RegistryIsLinked
<1>3. Staged'
  BY DEF IInv, Staged, Saving
<1>4. Restoring'
  BY DEF IInv, Restoring, Awaited
<1>5. Persisting'
  BY DEF IInv, Persisting, Saving
<1>6. Continuing'
  BY DEF IInv, TypeOK, Persisting, Continuing
<1> QED
  BY <1>1, <1>2, <1>3, <1>4, <1>5, <1>6 DEF IInv

-----------------------------------------------------------------------------
(* Failures                                                                *)

LEMMA FailKeeps == ASSUME IInv, Fail PROVE IInv'
<1> USE DEF Fail, AfterFailure, Keeps
<1>1. TypeOK'
  BY DEF IInv, TypeOK, Registries, NoFiles, Kinds
<1>2. SuspensionIsDurable' /\ RegistryIsLinked'
  BY DEF IInv, SuspensionIsDurable, RegistryIsLinked
<1>3. Staged'
  BY DEF IInv, Staged, Saving
<1>4. Restoring'
  BY DEF IInv, TypeOK, Staged, Restoring, Awaited
<1>5. Persisting'
  BY DEF Persisting, Saving
<1>6. Continuing'
  <2>1. hasOffer /\ ~ran /\ hydrated => toGet = {}
    BY DEF IInv, Staged, Named, NoFiles
  <2>2. hasOffer /\ ~ran /\ hydrated => disk' = disk
    BY <2>1
  <2> QED
    BY <2>2 DEF IInv, Continuing
<1> QED
  BY <1>1, <1>2, <1>3, <1>4, <1>5, <1>6 DEF IInv

-----------------------------------------------------------------------------
LEMMA StepKeeps == IInv /\ [Next]_vars => IInv'
<1> SUFFICES ASSUME IInv, [Next]_vars PROVE IInv'
  OBVIOUS
<1>1. CASE UNCHANGED vars
  <2>1. TypeOK' /\ SuspensionIsDurable' /\ RegistryIsLinked'
    BY <1>1 DEF vars, IInv, TypeOK, SuspensionIsDurable, RegistryIsLinked,
           Attachments,
                Named
  <2>2. Staged' /\ Restoring' /\ Persisting' /\ Continuing'
    BY <1>1 DEF vars, IInv, Staged, Restoring, Awaited, Persisting, Continuing,
           Named
  <2> QED
    BY <2>1, <2>2 DEF IInv
<1>2. CASE Call \/ NextJob \/ Arrive \/ Fetched \/ Load \/ StartDelegate
  BY <1>2, CallKeeps, NextJobKeeps, ArriveKeeps, FetchedKeeps, LoadKeeps,
     StartDelegateKeeps
<1>3. ASSUME NEW f \in Files, Fetch(f) \/ Restore(f) \/ Put(f) \/ Link(f)
      PROVE  IInv'
  BY <1>3, FetchKeeps, RestoreKeeps, PutKeeps, LinkKeeps
<1>4. ASSUME NEW f \in Files, NEW c \in Contents \cup {None}, Write(f, c)
      PROVE  IInv'
  BY <1>4, WriteKeeps
<1>5. ASSUME NEW kind \in Kinds, DelegateEnds(kind)
      PROVE  IInv'
  BY <1>5, DelegateEndsKeeps
<1>6. CASE Persist \/ StartLinking \/ Save \/ Return \/ Fail
  BY <1>6, PersistKeeps, StartLinkingKeeps, SaveKeeps, ReturnKeeps, FailKeeps
<1> QED
  BY <1>1, <1>2, <1>3, <1>4, <1>5, <1>6 DEF Next, Over

\* The directory, the registry under construction and the saved one fit
\* together at every await, whatever failed before.
THEOREM Invariance == Spec => []IInv
<1> QED
  BY InitIInv, StepKeeps, PTL DEF Spec

-----------------------------------------------------------------------------
(* Results                                                                 *)

\* The variables keep their types; in particular no partly downloaded file
\* gets into a registry.
THEOREM TypeCorrect == Spec => []TypeOK
<1>1. IInv => TypeOK
  BY DEF IInv
<1> QED
  BY <1>1, Invariance, PTL

\* A job reported SUSPENDED has its files in the saved registry.
THEOREM SuspensionDurable == Spec => []SuspensionIsDurable
<1>1. IInv => SuspensionIsDurable
  BY DEF IInv
<1> QED
  BY <1>1, Invariance, PTL

\* What the saved registry names is linked to the job (dehydrate links before
\* the registry is saved).
THEOREM Linked == Spec => []RegistryIsLinked
<1>1. IInv => RegistryIsLinked
  BY DEF IInv
<1> QED
  BY <1>1, Invariance, PTL

\* The registry changes to all the files the delegate left, at once.
THEOREM WholeCheckpoints == Spec => CheckpointsAreWhole
<1>1. IInv /\ [Next]_vars => [saved' => ran /\ store' = files]_<<store, saved>>
  <2> SUFFICES ASSUME IInv, [Next]_vars, saved', <<store, saved>>' # <<store, saved>>
               PROVE  ran /\ store' = files
    OBVIOUS
  <2>1. Save
    BY DEF Next, vars, Call, NextJob, Arrive, Fetched, Load, StartDelegate, Fetch,
           Restore, Put, Link, Write, DelegateEnds, Persist, StartLinking, Return,
           Fail, Over
  <2> QED
    BY <2>1 DEF Save, Dehydrated, IInv, Staged, Saving, Persisting
<1> QED
  BY <1>1, Invariance, PTL DEF Spec, CheckpointsAreWhole

\* Only StartDelegate hands control to the delegate.
LEMMA StartsByStartDelegate ==
  ASSUME [Next]_vars, pc' = "running", pc' # pc PROVE StartDelegate
  BY DEF Next, vars, Call, NextJob, Arrive, Fetched, Load, Fetch, Restore, Put,
         Link, Write, DelegateEnds, Persist, StartLinking, Save, Return, Fail,
         AfterFailure, Over

\* The delegate finds every registered file as it was persisted.
THEOREM FilesRestored == Spec => RestoredOnStart
<1>1. IInv /\ [Next]_vars =>
        [pc' = "running" => \A f \in Named(store) : disk'[f] = store[f]]_pc
  BY StartsByStartDelegate DEF StartDelegate, IInv, Restoring
<1> QED
  BY <1>1, Invariance, PTL DEF Spec, RestoredOnStart

\* The next job of a conversation starts with the files the previous one left.
THEOREM ConversationKept == Spec => ConversationContinues
<1>1. IInv /\ [Next]_vars =>
        [pc' = "running" /\ hasOffer /\ ~ran => disk' = left]_pc
  BY StartsByStartDelegate DEF StartDelegate, IInv, Continuing
<1> QED
  BY <1>1, Invariance, PTL DEF Spec, ConversationContinues
=============================================================================
