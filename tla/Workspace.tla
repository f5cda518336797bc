----------------------------- MODULE Workspace ------------------------------
(***************************************************************************)
(* The files of an agent between executions (workspace/): HydrationRuntime *)
(* restores them from the job's registry before the delegate runs and      *)
(* persists them after it, as its policy says; around it, in a             *)
(* conversation, ConversationalWorkspaceRuntime carries them from one job  *)
(* to the next through the snapshot it publishes.                          *)
(*                                                                         *)
(* One action is the stretch up to the next awaited call to the storage,   *)
(* the attachment service or the jobs service.  A call may end at any of   *)
(* them, by an exception or with the process.  Registry entries are the    *)
(* content they were uploaded with: the digest stands for the content and  *)
(* an attachment key for the pair of file and content.                     *)
(***************************************************************************)
EXTENDS Naturals

CONSTANTS
  Files,    \* virtual paths
  Contents, \* what a file may hold
  None,     \* no such file, or no entry for it
  Partial   \* a download that was cut short

ASSUME NoneAssumption == None \notin Contents /\ Partial \notin Contents \cup {None}

VARIABLES
  policy, conv, \* how the host built the runtimes
  pc,        \* where the current call is
  disk,      \* the workspace directory
  store,     \* the registry in the storage
  saved,     \* whether it was ever saved
  linked,    \* attachments linked to the current job
  offer,     \* snapshot found in the conversation's meta events
  hasOffer,  \* whether there is one and it is well-formed
  held,      \* _registry of the conversational runtime
  hydrated,  \* _hydrated of the conversational runtime
  toGet,     \* files still to be restored
  base,      \* the registry dehydrate() was given
  current,   \* the registry it builds
  toPut,     \* files it has still to look at
  toLink,    \* files whose attachments have still to be linked
  saver,     \* which runtime persists: "hydration" or "conversation"
  outcome,   \* how the delegate ended
  returned,  \* what the host got from the last call
  files,     \* history: the files when the delegate ended in this call
  ran,       \* history: the delegate ran in this job
  left       \* history: the files the previous job's agent left, until this one's
             \* agent runs

hostVars == <<policy, conv>>
storeVars == <<store, saved>>
convVars == <<offer, hasOffer, held, hydrated>>
putVars == <<base, current, toPut, toLink, saver>>
history == <<files, ran, left>>
vars == <<hostVars, pc, disk, storeVars, linked, convVars, toGet, putVars,
          outcome, returned, history>>

Registries == [Files -> Contents \cup {None}]
NoFiles == [f \in Files |-> None]
Named(r) == {f \in Files : r[f] # None}
Attachments(r) == {<<f, r[f]>> : f \in Named(r)}
Policies == {"suspend_only", "suspend_or_success", "always"}

Init ==
  /\ policy \in Policies /\ conv \in BOOLEAN
  /\ pc = "off" /\ disk = NoFiles
  /\ store = NoFiles /\ saved = FALSE /\ linked = {}
  /\ offer = NoFiles /\ hasOffer = FALSE /\ held = NoFiles /\ hydrated = FALSE
  /\ toGet = {} /\ base = NoFiles /\ current = NoFiles /\ toPut = {} /\ toLink = {}
  /\ saver = "hydration" /\ outcome = "none" /\ returned = "none"
  /\ files = NoFiles /\ ran = FALSE /\ left = NoFiles

-----------------------------------------------------------------------------
(* Calls                                                                   *)

\* A call in the same process, or in a new one: its directory is the same
\* (a supplied path), empty (a temporary one) or, on another machine, whatever
\* an earlier job left there.
Call ==
  /\ pc = "off" /\ returned \in {"none", "suspended", "raised"}
  /\ pc' = IF conv THEN "arriving" ELSE "loading"
  /\ \/ UNCHANGED <<disk, held, hydrated>>
     \/ held' = NoFiles /\ hydrated' = FALSE /\ disk' \in {disk} \cup Registries
  /\ files' = NoFiles
  /\ UNCHANGED <<hostVars, storeVars, linked, offer, hasOffer, toGet, putVars,
                 outcome, returned, ran, left>>

\* The conversation's next job: its own registry, the published snapshot
\* among its meta events, or none that can be read.
NextJob ==
  /\ conv /\ pc = "off" /\ returned = "successful"
  /\ returned' = "none"
  /\ store' = NoFiles /\ saved' = FALSE /\ linked' = {}
  /\ offer' = held /\ hasOffer' \in BOOLEAN
  /\ held' = NoFiles /\ hydrated' = FALSE
  /\ left' = files /\ ran' = FALSE /\ files' = NoFiles
  /\ UNCHANGED <<hostVars, pc, disk, toGet, putVars, outcome>>

-----------------------------------------------------------------------------
(* ConversationalWorkspaceRuntime._hydrate                                 *)

\* The registry of a suspended job comes before the conversation's snapshot.
Arrive ==
  /\ pc = "arriving"
  /\ \/ /\ hydrated \/ saved \/ ~hasOffer
        /\ pc' = "loading" /\ hydrated' = TRUE
        /\ held' = IF ~hydrated /\ saved THEN store ELSE held
        /\ UNCHANGED toGet
     \/ /\ ~hydrated /\ ~saved /\ hasOffer
        /\ pc' = "fetching" /\ toGet' = Named(offer)
        /\ UNCHANGED <<held, hydrated>>
  /\ UNCHANGED <<hostVars, disk, storeVars, linked, offer, hasOffer, putVars,
                 outcome, returned, history>>

Fetch(f) ==
  /\ pc = "fetching" /\ f \in toGet
  /\ disk' = [disk EXCEPT ![f] = offer[f]] /\ toGet' = toGet \ {f}
  /\ UNCHANGED <<hostVars, pc, storeVars, linked, convVars, putVars, outcome,
                 returned, history>>

\* Deviation: files that are not in the snapshot stay.
PrunedNothing(d, r) == d

\* _remove_files_not_in
Pruned(d, r) == [f \in Files |-> IF r[f] = None THEN None ELSE d[f]]

Fetched ==
  /\ pc = "fetching" /\ toGet = {}
  /\ disk' = Pruned(disk, offer) /\ held' = offer /\ hydrated' = TRUE
  /\ pc' = "loading"
  /\ UNCHANGED <<hostVars, storeVars, linked, offer, hasOffer, toGet, putVars,
                 outcome, returned, history>>

-----------------------------------------------------------------------------
(* HydrationRuntime._hydrate                                               *)

Load ==
  /\ pc = "loading"
  /\ toGet' = Named(store) /\ pc' = "hydrating"
  /\ UNCHANGED <<hostVars, disk, storeVars, linked, convVars, putVars, outcome,
                 returned, history>>

\* Deviation: a file that exists is taken for the one in the registry.
KeepsExisting(f) == disk[f] # None

\* "Files with matching SHA-256 are left untouched."
Keeps(f) == disk[f] = store[f]

Restore(f) ==
  /\ pc = "hydrating" /\ f \in toGet
  /\ disk' = IF Keeps(f) THEN disk ELSE [disk EXCEPT ![f] = store[f]]
  /\ toGet' = toGet \ {f}
  /\ UNCHANGED <<hostVars, pc, storeVars, linked, convVars, putVars, outcome,
                 returned, history>>

StartDelegate ==
  /\ pc = "hydrating" /\ toGet = {}
  /\ pc' = "running" /\ ran' = TRUE /\ left' = NoFiles
  /\ UNCHANGED <<hostVars, disk, storeVars, linked, convVars, toGet, putVars,
                 outcome, returned, files>>

-----------------------------------------------------------------------------
(* The delegate writes and deletes files, and ends.                        *)

Write(f, c) ==
  /\ pc = "running"
  /\ disk' = [disk EXCEPT ![f] = c]
  /\ UNCHANGED <<hostVars, pc, storeVars, linked, convVars, toGet, putVars,
                 outcome, returned, history>>

\* Deviation: a suspension is persisted only under the policy named for it.
ShouldDehydrateByName(kind) ==
  \/ policy = "always"
  \/ policy = "suspend_only" /\ kind = "suspended"
  \/ policy = "suspend_or_success" /\ kind = "successful"

\* _should_dehydrate, and for an exception the test in the except clause.
ShouldDehydrate(kind) ==
  \/ policy = "always"
  \/ kind = "suspended"
  \/ policy = "suspend_or_success" /\ kind = "successful"

DelegateEnds(kind) ==
  /\ pc = "running"
  /\ files' = disk /\ outcome' = kind
  /\ pc' = IF ShouldDehydrate(kind) THEN "persisting" ELSE "returning"
  /\ UNCHANGED <<hostVars, disk, storeVars, linked, convVars, toGet, putVars,
                 returned, ran, left>>

-----------------------------------------------------------------------------
(* dehydrate(), for either runtime                                         *)

\* The conversational runtime falls back to the snapshot it holds.
Persist ==
  /\ pc = "persisting"
  /\ base' = IF saver = "conversation" /\ ~saved THEN held ELSE store
  /\ current' = NoFiles /\ toPut' = Named(disk)
  /\ pc' = "uploading"
  /\ UNCHANGED <<hostVars, disk, storeVars, linked, convVars, toGet, toLink,
                 saver, outcome, returned, history>>

Unchanged(f) == base[f] = disk[f]

Put(f) ==
  /\ pc = "uploading" /\ f \in toPut
  /\ toPut' = toPut \ {f}
  /\ current' = [current EXCEPT ![f] = IF Unchanged(f) THEN base[f] ELSE disk[f]]
  /\ UNCHANGED <<hostVars, pc, disk, storeVars, linked, convVars, toGet, base,
                 toLink, saver, outcome, returned, history>>

\* Deviation: only what was uploaded now is linked.
LinkedNewOnly == {f \in Named(current) : base[f] # current[f]}

\* Every attachment of the registry, those that were not uploaded now too;
\* the ones the job already lists are left out.
ToLink == {f \in Named(current) : <<f, current[f]>> \notin linked}

StartLinking ==
  /\ pc = "uploading" /\ toPut = {}
  /\ toLink' = ToLink /\ pc' = "linking"
  /\ UNCHANGED <<hostVars, disk, storeVars, linked, convVars, toGet, base,
                 current, toPut, saver, outcome, returned, history>>

Link(f) ==
  /\ pc = "linking" /\ f \in toLink
  /\ linked' = linked \cup {<<f, current[f]>>} /\ toLink' = toLink \ {f}
  /\ UNCHANGED <<hostVars, pc, disk, storeVars, convVars, toGet, base,
                 current, toPut, saver, outcome, returned, history>>

\* Deviation: entries of files that are gone are kept.
MergedRegistry == [f \in Files |-> IF current[f] = None THEN base[f] ELSE current[f]]

\* "rebuilt from the files currently present"
Dehydrated == current

Save ==
  /\ pc = "linking" /\ toLink = {}
  /\ store' = Dehydrated /\ saved' = TRUE
  /\ held' = IF saver = "conversation" THEN Dehydrated ELSE held
  /\ pc' = "returning" /\ base' = NoFiles /\ current' = NoFiles
  /\ UNCHANGED <<hostVars, disk, linked, offer, hasOffer, hydrated, toGet, toPut,
                 toLink, saver, outcome, returned, history>>

\* An exception of the delegate goes on, a result is handed out; before a
\* SUCCESSFUL one the conversational runtime persists and publishes.
Return ==
  /\ pc = "returning"
  /\ IF conv /\ outcome = "successful" /\ saver = "hydration"
     THEN /\ pc' = "persisting" /\ saver' = "conversation"
          /\ UNCHANGED <<outcome, returned>>
     ELSE /\ pc' = "off" /\ saver' = "hydration"
          /\ returned' = outcome /\ outcome' = "none"
  /\ UNCHANGED <<hostVars, disk, storeVars, linked, convVars, toGet, base, current,
                 toPut, toLink, history>>

-----------------------------------------------------------------------------
(* Failures                                                                *)

\* Deviation: under ALWAYS a failed hydration is persisted as well.
AfterFailurePersists(stage) ==
  IF policy = "always" /\ stage = "hydrating" THEN "persisting" ELSE "off"

\* Only an exception of the delegate (DelegateEnds) can still be persisted.
AfterFailure(stage) == "off"

\* An awaited call raises, or the process ends: what is on the disk and in
\* the services stays.  A file being downloaded may be cut short.
Fail ==
  /\ pc # "off"
  /\ \/ UNCHANGED disk
     \/ \E f \in toGet : /\ pc = "fetching" \/ ~Keeps(f)
                         /\ disk' = [disk EXCEPT ![f] = Partial]
  /\ pc' = AfterFailure(pc) /\ outcome' = "none" /\ returned' = "raised"
  /\ toGet' = {} /\ toPut' = {} /\ toLink' = {}
  /\ base' = NoFiles /\ current' = NoFiles /\ saver' = "hydration"
  /\ UNCHANGED <<hostVars, storeVars, linked, convVars, history>>

Over ==
  /\ pc = "off" /\ (returned = "faulted" \/ (returned = "successful" /\ ~conv))
  /\ UNCHANGED vars

Kinds == {"suspended", "successful", "faulted", "raised"}

Next ==
  \/ Call \/ NextJob \/ Arrive \/ Fetched \/ Load \/ StartDelegate
  \/ \E f \in Files : Fetch(f) \/ Restore(f) \/ Put(f) \/ Link(f)
  \/ \E f \in Files, c \in Contents \cup {None} : Write(f, c)
  \/ \E kind \in Kinds : DelegateEnds(kind)
  \/ Persist \/ StartLinking \/ Save \/ Return
  \/ Fail \/ Over

Spec == Init /\ [][Next]_vars
-----------------------------------------------------------------------------
(* Properties                                                              *)

TypeOK ==
  /\ policy \in Policies /\ conv \in BOOLEAN
  /\ pc \in {"off", "arriving", "fetching", "loading", "hydrating", "running",
             "persisting", "uploading", "linking", "returning"}
  /\ disk \in [Files -> Contents \cup {None, Partial}]
  /\ {store, offer, held, base, current, files, left} \subseteq Registries
  /\ saved \in BOOLEAN /\ hasOffer \in BOOLEAN /\ hydrated \in BOOLEAN
  /\ linked \subseteq Files \X Contents
  /\ toGet \cup toPut \cup toLink \subseteq Files
  /\ saver \in {"hydration", "conversation"} /\ ran \in BOOLEAN
  /\ outcome \in Kinds \cup {"none"} /\ returned \in Kinds \cup {"none"}

\* The saved registry changes only to all the files as the delegate left them
\* in this job, at once: not to a part of them, not to what a failed hydration
\* left on the disk, and not with files the agent had deleted.
CheckpointsAreWhole ==
  [][saved' => ran /\ store' = files]_<<store, saved>>

\* When the host is told the job is suspended, the files the agent left are
\* in the registry, whatever the policy and however many calls failed before.
SuspensionIsDurable ==
  pc = "off" /\ returned = "suspended" => saved /\ store = files

\* The delegate starts with every registered file as it was persisted,
\* whatever an earlier call, cut short or not, left in the directory.
RestoredOnStart ==
  [][pc' = "running" => \A f \in Named(store) : disk'[f] = store[f]]_pc

\* Every attachment the saved registry names is linked to the job at hand, those
\* an earlier job uploaded too, although uploads, links and the save may each
\* fail and be repeated by a later call.
RegistryIsLinked == Attachments(store) \subseteq linked

\* A new job of a conversation that is handed the snapshot starts with exactly
\* the files the previous job's agent left.
ConversationContinues ==
  [][pc' = "running" /\ hasOffer /\ ~ran => disk' = left]_pc
=============================================================================
