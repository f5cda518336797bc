----------------------------- MODULE AuditProofs -----------------------------
(***************************************************************************)
(* Proofs about AuditManager, for any sinks, names, threads, threshold and *)
(* number of emits: a sink is closed once, and the circuit breaker trips   *)
(* for a sink exactly when that sink failed often enough in a row.         *)
(***************************************************************************)
EXTENDS AuditManager, TLAPS

\* The sink was registered at some time.
Known(s) == s \in registered \cup toClose \/ closed[s] > 0

\* Only such sinks are visited by an emit() ...
VisitedAreKnown == \A th \in Threads : \A s \in todo[th] : Known(s)

\* ... and have a history.
UnknownIsBlank ==
  \A s \in Sinks : ~Known(s) => run[s] = 0 /\ s \notin earned /\ s \notin clean

\* The books of its name are the sink's own: no emit() holds another sink of
\* that name, so that they count its failures and nothing else.
OwnBooks ==
  \A s \in registered \cap clean :
    /\ \A th \in Threads : \A u \in todo[th] : NameOf[u] = NameOf[s] => u = s
    /\ failures[NameOf[s]] = run[s]
    /\ NameOf[s] \in tripped <=> s \in earned

IInv ==
  /\ TypeOK
  /\ ClosedOnceWhenRemoved
  /\ VisitedAreKnown
  /\ UnknownIsBlank
  /\ OwnBooks

USE NamesAssumption, ThresholdAssumption, EmitsAssumption
-----------------------------------------------------------------------------

LEMMA InitIInv == Init => IInv
  BY DEF Init, IInv, TypeOK, ClosedOnceWhenRemoved, VisitedAreKnown,
         UnknownIsBlank, OwnBooks, Known, books, history

-----------------------------------------------------------------------------
(* Registration, removal, closing                                          *)

\* A sink that joins starts with clean books, and with a clean history.
LEMMA RegisterKeeps == ASSUME IInv, NEW s \in Sinks, Register(s) PROVE IInv'
<1> USE DEF Register
<1>1. ~Known(s)
  BY DEF Known, IInv, TypeOK
<1>2. TypeOK'
  BY DEF IInv, TypeOK, StartAfresh
<1>3. ClosedOnceWhenRemoved'
  BY DEF IInv, TypeOK, ClosedOnceWhenRemoved, Taken
<1>4. VisitedAreKnown'
  BY DEF IInv, VisitedAreKnown, Known
<1>5. UnknownIsBlank'
  BY <1>1 DEF IInv, TypeOK, UnknownIsBlank, Known
<1>6. OwnBooks'
  <2> SUFFICES ASSUME NEW t \in registered' \cap clean'
               PROVE  /\ \A th \in Threads : \A u \in todo'[th] :
                           NameOf[u] = NameOf[t] => u = t
                      /\ failures'[NameOf[t]] = run'[t]
                      /\ NameOf[t] \in tripped' <=> t \in earned'
    BY DEF OwnBooks
  <2>1. CASE t = s
    <3>1. s \notin clean /\ run[s] = 0 /\ s \notin earned
      BY <1>1 DEF IInv, UnknownIsBlank
    <3>2. \A th \in Threads : \A u \in todo[th] : NameOf[u] # NameOf[s]
      BY <2>1, <3>1
    <3> QED
      BY <2>1, <3>1, <3>2 DEF StartAfresh, IInv, TypeOK
  <2>2. CASE t # s
    <3>1. t \in registered \cap clean /\ NameOf[t] # NameOf[s]
      BY <2>2 DEF Taken
    <3> QED
      BY <3>1 DEF StartAfresh, IInv, TypeOK, OwnBooks
  <2> QED
    BY <2>1, <2>2
<1> QED
  BY <1>2, <1>3, <1>4, <1>5, <1>6 DEF IInv

\* No other listed sink has the name whose books are wiped.
LEMMA UnregisterKeeps == ASSUME IInv, NEW s \in Sinks, Unregister(s) PROVE IInv'
<1> USE DEF Unregister, Without
<1>1. TypeOK'
  BY DEF IInv, TypeOK, StartAfresh, history
<1>2. ClosedOnceWhenRemoved'
  BY DEF IInv, TypeOK, ClosedOnceWhenRemoved
<1>3. VisitedAreKnown'
  BY DEF IInv, VisitedAreKnown, Known
<1>4. UnknownIsBlank'
  BY DEF IInv, UnknownIsBlank, Known, history
<1>5. OwnBooks'
  <2> SUFFICES ASSUME NEW t \in registered' \cap clean'
               PROVE  /\ \A th \in Threads : \A u \in todo'[th] :
                           NameOf[u] = NameOf[t] => u = t
                      /\ failures'[NameOf[t]] = run'[t]
                      /\ NameOf[t] \in tripped' <=> t \in earned'
    BY DEF OwnBooks
  <2>1. t \in registered \cap clean /\ NameOf[t] # NameOf[s]
    BY DEF IInv, ClosedOnceWhenRemoved, history
  <2> QED
    BY <2>1 DEF StartAfresh, IInv, TypeOK, OwnBooks, history
<1> QED
  BY <1>1, <1>2, <1>3, <1>4, <1>5 DEF IInv

LEMMA CloseKeeps == ASSUME IInv, Close PROVE IInv'
<1> USE DEF Close, history
<1>1. TypeOK'
  BY DEF IInv, TypeOK
<1>2. ClosedOnceWhenRemoved'
  BY DEF IInv, TypeOK, ClosedOnceWhenRemoved
<1>3. VisitedAreKnown' /\ UnknownIsBlank'
  BY DEF IInv, VisitedAreKnown, UnknownIsBlank, Known
<1>4. OwnBooks'
  BY DEF OwnBooks
<1> QED
  BY <1>1, <1>2, <1>3, <1>4 DEF IInv

\* Only the close() of a sink that waits for it, so at most one.
LEMMA CloseSinkKeeps == ASSUME IInv, NEW s \in Sinks, CloseSink(s) PROVE IInv'
<1> USE DEF CloseSink, books, history
<1>1. closed[s] = 0 /\ s \notin registered
  BY DEF IInv, TypeOK, ClosedOnceWhenRemoved
<1>2. TypeOK'
  BY <1>1 DEF IInv, TypeOK
<1>3. ClosedOnceWhenRemoved'
  BY <1>1 DEF IInv, TypeOK, ClosedOnceWhenRemoved
<1>4. \A t : t \in Sinks => (Known(t)' <=> Known(t))
  BY <1>1 DEF IInv, TypeOK, Known
<1>5. VisitedAreKnown' /\ UnknownIsBlank'
  BY <1>4 DEF IInv, TypeOK, VisitedAreKnown, UnknownIsBlank
<1>6. OwnBooks'
  BY DEF IInv, OwnBooks
<1> QED
  BY <1>2, <1>3, <1>5, <1>6 DEF IInv

-----------------------------------------------------------------------------
(* emit()                                                                  *)

\* A snapshot holds listed sinks only, no two of one name.
LEMMA StartEmitKeeps == ASSUME IInv, NEW th \in Threads, StartEmit(th) PROVE IInv'
<1> USE DEF StartEmit, books, history
<1>1. TypeOK'
  BY DEF IInv, TypeOK
<1>2. ClosedOnceWhenRemoved' /\ UnknownIsBlank'
  BY DEF IInv, ClosedOnceWhenRemoved, UnknownIsBlank, Known
<1>3. \A x \in Threads : \A u \in todo'[x] : u \in todo[x] \/ u \in registered
  BY DEF IInv, TypeOK
<1>4. VisitedAreKnown'
  BY <1>3 DEF IInv, VisitedAreKnown, Known
<1>5. OwnBooks'
  BY <1>3 DEF IInv, ClosedOnceWhenRemoved, OwnBooks
<1> QED
  BY <1>1, <1>2, <1>4, <1>5 DEF IInv

LEMMA CallSinkKeeps ==
  ASSUME IInv, NEW th \in Threads, NEW s \in todo[th], NEW raises \in BOOLEAN,
         CallSink(th, s, raises)
  PROVE  IInv'
<1> USE DEF CallSink, books, history
<1>1. TypeOK'
  BY DEF IInv, TypeOK
<1>2. ClosedOnceWhenRemoved' /\ VisitedAreKnown' /\ UnknownIsBlank' /\ OwnBooks'
  BY DEF IInv, ClosedOnceWhenRemoved, VisitedAreKnown, UnknownIsBlank, OwnBooks,
         Known
<1> QED
  BY <1>1, <1>2 DEF IInv

\* What booking an outcome does to the emit() that books it.
LEMMA ProceedShrinks ==
  ASSUME TypeOK, NEW th \in Threads, at[th] # NoSink, Proceed(th)
  PROVE  /\ at[th] \in Sinks /\ at[th] \in todo[th]
         /\ todo' \in [Threads -> SUBSET Sinks]
         /\ at' \in [Threads -> Sinks \cup {NoSink}]
         /\ \A x \in Threads : at'[x] = NoSink \/ at'[x] \in todo'[x]
         /\ failed' \subseteq {x \in Threads : at'[x] # NoSink}
         /\ \A x \in Threads : todo'[x] \subseteq todo[x]
  BY DEF TypeOK, Proceed

\* A booked outcome concerns a listed sink with its own books only if the sink
\* called was that very one.
LEMMA OnlyItsOwnCalls ==
  ASSUME IInv, NEW th \in Threads, at[th] # NoSink, NEW t \in registered \cap clean
  PROVE  NameOf[at[th]] = NameOf[t] => at[th] = t
  BY DEF IInv, TypeOK, OwnBooks

LEMMA BookSuccessKeeps == ASSUME IInv, NEW th \in Threads, BookSuccess(th) PROVE IInv'
<1> USE DEF BookSuccess, AfterSuccess
<1>1. at[th] # NoSink /\ TypeOK
  BY DEF IInv
<1>2. TypeOK'
  BY <1>1, ProceedShrinks DEF TypeOK
<1>3. ClosedOnceWhenRemoved'
  BY DEF IInv, ClosedOnceWhenRemoved
<1>4. VisitedAreKnown'
  BY <1>1, ProceedShrinks DEF IInv, VisitedAreKnown, Known
<1>5. UnknownIsBlank'
  BY <1>1 DEF IInv, TypeOK, UnknownIsBlank, Known
<1>6. OwnBooks'
  <2> SUFFICES ASSUME NEW t \in registered \cap clean
               PROVE  /\ \A x \in Threads : \A u \in todo'[x] :
                           NameOf[u] = NameOf[t] => u = t
                      /\ failures'[NameOf[t]] = run'[t]
                      /\ NameOf[t] \in tripped' <=> t \in earned'
    BY DEF OwnBooks
  <2>1. \A x \in Threads : \A u \in todo'[x] : NameOf[u] = NameOf[t] => u = t
    BY <1>1, ProceedShrinks DEF IInv, OwnBooks
  <2>2. failures'[NameOf[t]] = run'[t]
    BY <1>1, OnlyItsOwnCalls, ProceedShrinks DEF IInv, TypeOK, OwnBooks
  <2> QED
    BY <2>1, <2>2 DEF IInv, OwnBooks
<1> QED
  BY <1>2, <1>3, <1>4, <1>5, <1>6 DEF IInv

LEMMA BookFailureKeeps == ASSUME IInv, NEW th \in Threads, BookFailure(th) PROVE IInv'
<1> USE DEF BookFailure, Trips
<1>1. at[th] # NoSink /\ TypeOK
  BY DEF IInv
<1>2. at[th] \in Sinks /\ NameOf[at[th]] \in Names /\ at[th] \in todo[th]
  BY <1>1 DEF TypeOK
<1>3. TypeOK'
  BY <1>1, <1>2, ProceedShrinks DEF TypeOK
<1>4. ClosedOnceWhenRemoved'
  BY DEF IInv, ClosedOnceWhenRemoved
<1>5. VisitedAreKnown'
  BY <1>1, ProceedShrinks DEF IInv, VisitedAreKnown, Known
<1>6. UnknownIsBlank'
  BY <1>1, <1>2 DEF IInv, TypeOK, VisitedAreKnown, UnknownIsBlank, Known
<1>7. OwnBooks'
  <2> SUFFICES ASSUME NEW t \in registered \cap clean
               PROVE  /\ \A x \in Threads : \A u \in todo'[x] :
                           NameOf[u] = NameOf[t] => u = t
                      /\ failures'[NameOf[t]] = run'[t]
                      /\ NameOf[t] \in tripped' <=> t \in earned'
    BY DEF OwnBooks
  <2>1. \A x \in Threads : \A u \in todo'[x] : NameOf[u] = NameOf[t] => u = t
    BY <1>1, ProceedShrinks DEF IInv, OwnBooks
  <2>2. CASE at[th] = t
    BY <1>2, <2>1, <2>2 DEF IInv, TypeOK, OwnBooks
  <2>3. CASE at[th] # t
    <3>1. NameOf[at[th]] # NameOf[t]
      BY <1>1, <2>3, OnlyItsOwnCalls
    <3> QED
      BY <1>2, <2>1, <2>3, <3>1 DEF IInv, TypeOK, OwnBooks
  <2> QED
    BY <2>2, <2>3
<1> QED
  BY <1>3, <1>4, <1>5, <1>6, <1>7 DEF IInv

-----------------------------------------------------------------------------
LEMMA StepKeeps == IInv /\ [Next]_vars => IInv'
<1> SUFFICES ASSUME IInv, [Next]_vars PROVE IInv'
  OBVIOUS
<1>1. CASE UNCHANGED vars
  BY <1>1 DEF vars, books, history, IInv, TypeOK, ClosedOnceWhenRemoved,
              VisitedAreKnown, UnknownIsBlank, OwnBooks, Known
<1>2. ASSUME NEW s \in Sinks, Register(s) \/ Unregister(s) \/ CloseSink(s)
      PROVE  IInv'
  BY <1>2, RegisterKeeps, UnregisterKeeps, CloseSinkKeeps
<1>3. CASE Close
  BY <1>3, CloseKeeps
<1>4. ASSUME NEW th \in Threads,
             \/ StartEmit(th) \/ BookSuccess(th) \/ BookFailure(th)
             \/ \E s \in todo[th], raises \in BOOLEAN : CallSink(th, s, raises)
      PROVE  IInv'
  BY <1>4, StartEmitKeeps, BookSuccessKeeps, BookFailureKeeps, CallSinkKeeps
<1> QED
  BY <1>1, <1>2, <1>3, <1>4 DEF Next, Quiet

\* The books, snapshots and histories stay consistent whatever the threads do.
THEOREM Invariance == Spec => []IInv
<1> QED
  BY InitIInv, StepKeeps, PTL DEF Spec

\* The variables keep their types; in particular close() is called at most
\* once per sink (unregister_sink and close of the manager).
THEOREM TypeCorrect == Spec => []TypeOK
<1>1. IInv => TypeOK
  BY DEF IInv
<1> QED
  BY <1>1, Invariance, PTL

\* A sink taken out of the list is closed exactly once, a listed one never,
\* and no two listed sinks share a name.
THEOREM ClosedOnce == Spec => []ClosedOnceWhenRemoved
<1>1. IInv => ClosedOnceWhenRemoved
  BY DEF IInv
<1> QED
  BY <1>1, Invariance, PTL

\* The circuit breaker silences a sink only after it failed Threshold times in
\* a row itself (_record_sink_failure), if no emit() held an earlier sink of
\* its name when it was registered.
THEOREM BreakerIsJust == Spec => []TrippedByOwnFailures
<1>1. IInv => TrippedByOwnFailures
  BY DEF IInv, OwnBooks, TrippedByOwnFailures
<1> QED
  BY <1>1, Invariance, PTL

\* Such a sink that failed Threshold times in a row is skipped from then on.
THEOREM BreakerIsEffective == Spec => []FailingSinkIsSkipped
<1>1. IInv => FailingSinkIsSkipped
  BY DEF IInv, OwnBooks, FailingSinkIsSkipped
<1> QED
  BY <1>1, Invariance, PTL
=============================================================================
