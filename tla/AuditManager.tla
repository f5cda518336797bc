---------------------------- MODULE AuditManager ----------------------------
(***************************************************************************)
(* AuditManager (governance/_audit/base.py): the sinks that receive the    *)
(* governance audit trail, shared by the threads that run agent hooks, and *)
(* the circuit breaker that silences a sink after consecutive failures.    *)
(*                                                                         *)
(* Every access to the manager's state is under one lock: an action below  *)
(* is one critical section, or one call of a sink outside it.  The books   *)
(* of the breaker are keyed by sink NAME while the sinks are instances;    *)
(* several instances may bear the same name, one after the other.  An      *)
(* emit() visits the sinks of its snapshot in any order, which includes    *)
(* the order they were registered in.                                      *)
(***************************************************************************)
EXTENDS Integers

CONSTANTS
  Sinks,      \* sink instances
  Names,      \* sink names
  NameOf,     \* instance -> its name
  NoSink,     \* "not in a sink call"
  Threads,    \* threads that emit events through the manager
  Threshold,  \* _SINK_FAILURE_THRESHOLD
  MaxEmits    \* bound: emit() calls

ASSUME NamesAssumption == NameOf \in [Sinks -> Names] /\ NoSink \notin Sinks
ASSUME ThresholdAssumption == Threshold \in Nat \ {0}
ASSUME EmitsAssumption == MaxEmits \in Nat

VARIABLES
  registered,  \* _sinks
  failures,    \* _sink_failures; an absent entry is 0
  tripped,     \* _tripped_sinks
  todo,        \* thread -> sinks its emit() has still to visit
  at,          \* thread -> sink it is calling
  failed,      \* threads whose sink call has raised, not booked yet
  toClose,     \* sinks taken out of the list whose close() is still due
  closed,      \* sink -> number of close() calls
  emits,       \* emit() calls so far
  run,         \* history: sink -> its failures since its last success
  earned,      \* history: sinks that failed Threshold times in a row
  clean        \* history: sinks registered while no emit() was still going
               \*   to visit an earlier sink of the same name

books == <<failures, tripped>>
history == <<run, earned, clean>>
vars == <<registered, books, todo, at, failed, toClose, closed, emits, history>>

Init ==
  /\ registered = {}
  /\ failures = [n \in Names |-> 0] /\ tripped = {}
  /\ todo = [th \in Threads |-> {}]
  /\ at = [th \in Threads |-> NoSink] /\ failed = {}
  /\ toClose = {} /\ closed = [s \in Sinks |-> 0]
  /\ emits = 0
  /\ run = [s \in Sinks |-> 0] /\ earned = {} /\ clean = {}

-----------------------------------------------------------------------------
(* Membership                                                              *)

\* Deviation: the books of a name survive a registration.
StartAfreshNot(n) == UNCHANGED books

\* Name n starts with clean books.
StartAfresh(n) ==
  /\ failures' = [failures EXCEPT ![n] = 0]
  /\ tripped' = tripped \ {n}

Taken(n) == \E s \in registered : NameOf[s] = n

\* A name that is taken keeps its sink.
Register(s) ==
  /\ s \notin registered \cup toClose /\ closed[s] = 0
  /\ ~Taken(NameOf[s])
  /\ registered' = registered \cup {s}
  /\ StartAfresh(NameOf[s])
  /\ clean' = IF \E th \in Threads, u \in UNION {todo[x] : x \in Threads} :
                    NameOf[u] = NameOf[s]
              THEN clean ELSE clean \cup {s}
  /\ UNCHANGED <<todo, at, failed, toClose, closed, emits, run, earned>>

\* Deviation: the sink is closed but stays in the list.
WithoutKept(s) == registered

Without(s) == registered \ {s}

\* The sink leaves the list under the lock and is closed outside it.
Unregister(s) ==
  /\ s \in registered
  /\ registered' = Without(s)
  /\ StartAfresh(NameOf[s])
  /\ toClose' = toClose \cup {s}
  /\ UNCHANGED <<todo, at, failed, closed, emits, history>>

\* close() of the manager: everything is forgotten, then closed.
Close ==
  /\ registered # {}
  /\ registered' = {}
  /\ failures' = [n \in Names |-> 0] /\ tripped' = {}
  /\ toClose' = toClose \cup registered
  /\ UNCHANGED <<todo, at, failed, closed, emits, history>>

\* close() of one sink; an exception it raises is logged.
CloseSink(s) ==
  /\ s \in toClose
  /\ toClose' = toClose \ {s}
  /\ closed' = [closed EXCEPT ![s] = @ + 1]
  /\ UNCHANGED <<registered, books, todo, at, failed, emits, history>>

-----------------------------------------------------------------------------
(* emit()                                                                  *)

\* The snapshot of the sinks, less the names tripped at that moment.
StartEmit(th) ==
  /\ todo[th] = {} /\ emits < MaxEmits
  /\ todo' = [todo EXCEPT ![th] = {s \in registered : NameOf[s] \notin tripped}]
  /\ emits' = emits + 1
  /\ UNCHANGED <<registered, books, at, failed, toClose, closed, history>>

\* accepts() and emit() of a sink, outside the lock: it returns or raises.
CallSink(th, s, raises) ==
  /\ at[th] = NoSink /\ s \in todo[th]
  /\ at' = [at EXCEPT ![th] = s]
  /\ failed' = IF raises THEN failed \cup {th} ELSE failed
  /\ UNCHANGED <<registered, books, todo, toClose, closed, emits, history>>

\* The loop goes on with the rest of the snapshot.
Proceed(th) ==
  /\ todo' = [todo EXCEPT ![th] = @ \ {at[th]}]
  /\ at' = [at EXCEPT ![th] = NoSink]
  /\ failed' = failed \ {th}

\* Deviation: successes do not reset the counter.
AfterSuccessKept(fails) == fails

AfterSuccess(fails) == 0

BookSuccess(th) ==
  /\ at[th] # NoSink /\ th \notin failed
  /\ failures' = [failures EXCEPT ![NameOf[at[th]]] = AfterSuccess(@)]
  /\ run' = [run EXCEPT ![at[th]] = 0]
  /\ Proceed(th)
  /\ UNCHANGED <<registered, tripped, toClose, closed, emits, earned, clean>>

\* Deviation: tripped one failure late.
TripsLate(fails) == fails > Threshold

Trips(fails) == fails >= Threshold

\* _record_sink_failure
BookFailure(th) ==
  LET s == at[th]
      fails == failures[NameOf[s]] + 1
  IN
  /\ s # NoSink /\ th \in failed
  /\ failures' = [failures EXCEPT ![NameOf[s]] = fails]
  /\ tripped' = IF Trips(fails) THEN tripped \cup {NameOf[s]} ELSE tripped
  /\ run' = [run EXCEPT ![s] = @ + 1]
  /\ earned' = IF run[s] + 1 >= Threshold THEN earned \cup {s} ELSE earned
  /\ Proceed(th)
  /\ UNCHANGED <<registered, toClose, closed, emits, clean>>

-----------------------------------------------------------------------------
\* The manager is closed and no thread emits any more.
Quiet ==
  /\ emits = MaxEmits /\ \A th \in Threads : todo[th] = {}
  /\ registered \cup toClose = {}
  /\ UNCHANGED vars

Next ==
  \/ \E s \in Sinks : Register(s) \/ Unregister(s) \/ CloseSink(s)
  \/ Close
  \/ \E th \in Threads :
       \/ StartEmit(th)
       \/ \E s \in todo[th], raises \in BOOLEAN : CallSink(th, s, raises)
       \/ BookSuccess(th)
       \/ BookFailure(th)
  \/ Quiet

Spec == Init /\ [][Next]_vars
-----------------------------------------------------------------------------
(* Properties                                                              *)

TypeOK ==
  /\ registered \subseteq Sinks /\ toClose \subseteq Sinks
  /\ failures \in [Names -> Nat] /\ tripped \subseteq Names
  /\ todo \in [Threads -> SUBSET Sinks]
  /\ at \in [Threads -> Sinks \cup {NoSink}]
  /\ \A th \in Threads : at[th] = NoSink \/ at[th] \in todo[th]
  /\ failed \subseteq {th \in Threads : at[th] # NoSink}
  /\ closed \in [Sinks -> 0..1] /\ emits \in 0..MaxEmits
  /\ run \in [Sinks -> Nat] /\ earned \subseteq Sinks /\ clean \subseteq Sinks

\* A sink taken out of the list, by whichever thread and by unregister_sink()
\* or close(), is closed exactly once; a listed one is not closed, and no two
\* listed sinks share a name (the breaker could not tell them apart).
ClosedOnceWhenRemoved ==
  /\ \A s \in Sinks : closed[s] > 0 => s \notin registered \cup toClose
  /\ registered \cap toClose = {}
  /\ \A s, u \in registered : NameOf[s] = NameOf[u] => s = u

\* A sink is skipped only after it failed Threshold times in a row itself,
\* whatever other threads were emitting, provided no emit() was still holding
\* an earlier sink of its name when it was registered.
TrippedByOwnFailures ==
  \A s \in registered \cap clean : NameOf[s] \in tripped => s \in earned

\* Conversely such a sink is skipped by every later emit(): a concurrent
\* success does not let it off, and no interleaving of counters delays it.
FailingSinkIsSkipped ==
  \A s \in registered \cap clean \cap earned : NameOf[s] \in tripped

\* "a freshly registered sink doesn't inherit a previous instance's tripped
\* state" (the note of register_sink), for every registered sink.
FreshSinkInheritsNothing ==
  \A s \in registered : NameOf[s] \in tripped => s \in earned
=============================================================================
