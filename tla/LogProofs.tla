------------------------------ MODULE LogProofs ------------------------------
(***************************************************************************)
(* Proofs about LogCapture, for any executions, tasks, nesting and         *)
(* abandoned streams: where records go, and what the host gets back.       *)
(***************************************************************************)
EXTENDS LogCapture, TLAPS

Distinct(s) == \A i, j \in 1..Len(s) : s[i] = s[j] => i = j

Live == {e \in Interceptors : Inside(e) \/ e \in left}

\* An interceptor is entered once, in its own task.
Stacked ==
  \A t \in Tasks :
    /\ Distinct(running[t])
    /\ \A i \in 1..Len(running[t]) :
         IF running[t][i] = Main THEN t = MainTask /\ i = 1
                                 ELSE TaskOf[running[t][i]] = t

\* The shared loggers have the handlers of the live interceptors; the host's
\* is away while the main interceptor is there.
Handled ==
  /\ onStdout = Live /\ onRoot \ {Host} = Live
  /\ Host \in onRoot <=> ~Inside(Main)
  /\ onEarly \subseteq {Main} /\ (Main \in onEarly => Inside(Main))

\* A task that is not astray knows the execution it runs.
Aware ==
  \A t \in Tasks :
    /\ context[t] \in Kids => TaskOf[context[t]] = t
    /\ t \notin astray =>
         context[t] = IF Current(t) = Main THEN None ELSE Current(t)

\* Before, during and after the main interceptor.
Idle == \A t \in Tasks : running[t] = <<>>

Phases ==
  /\ HasMain /\ ~Inside(Main) /\ Main \notin done =>
       Idle /\ left = {} /\ done = {} /\ stdout = Console
  /\ Inside(Main) =>
       /\ HasMain /\ original[Main] = Console /\ stdout # Console
       /\ \A e \in Kids \cap Live : original[e] # Console
  /\ Main \in done =>
       /\ HasMain /\ Idle
       /\ left \subseteq stranded /\ (stranded = {} => stdout = Console)

IInv == TypeOK /\ Stacked /\ Handled /\ Aware /\ Phases

-----------------------------------------------------------------------------
(* Stacks                                                                  *)

\* What setup() does to a stack.
LEMMA Pushed ==
  ASSUME NEW S, NEW s \in Seq(S), NEW e \in S
  PROVE  /\ Append(s, e) \in Seq(S) /\ Append(s, e) # <<>>
         /\ Last(Append(s, e)) = e
         /\ \A x : Contains(Append(s, e), x) <=> Contains(s, x) \/ x = e
         /\ Len(Append(s, e)) = Len(s) + 1 /\ Append(s, e)[Len(s) + 1] = e
         /\ \A i \in 1..Len(s) : Append(s, e)[i] = s[i]
  BY DEF Contains, Last

\* x is the n-th interceptor of a stack or nested in it.
From(s, n, x) == \E i \in n..Len(s) : s[i] = x

\* What leaving the interceptors from the n-th on does.
LEMMA Cut ==
  ASSUME NEW S, NEW s \in Seq(S), Distinct(s), NEW n \in 1..Len(s)
  PROVE  /\ SubSeq(s, 1, n - 1) \in Seq(S)
         /\ Len(SubSeq(s, 1, n - 1)) = n - 1
         /\ \A i \in 1..(n - 1) : SubSeq(s, 1, n - 1)[i] = s[i]
         /\ \A x : Contains(SubSeq(s, 1, n - 1), x) <=>
                     Contains(s, x) /\ ~From(s, n, x)
<1>1. /\ SubSeq(s, 1, n - 1) \in Seq(S)
      /\ Len(SubSeq(s, 1, n - 1)) = n - 1
      /\ \A i \in 1..(n - 1) : SubSeq(s, 1, n - 1)[i] = s[i]
  OBVIOUS
<1>2. ASSUME NEW x
      PROVE  Contains(SubSeq(s, 1, n - 1), x) <=>
               Contains(s, x) /\ ~From(s, n, x)
  <2>1. Contains(SubSeq(s, 1, n - 1), x) <=> \E i \in 1..(n - 1) : s[i] = x
    BY <1>1 DEF Contains
  <2>2. Contains(s, x) <=> \E i \in 1..Len(s) : s[i] = x
    BY DEF Contains
  <2> QED
    BY <2>1, <2>2 DEF Distinct, From
<1> QED
  BY <1>1, <1>2

\* The task an interceptor is inside of is its own.
HomeOf(e) == IF e = Main THEN MainTask ELSE TaskOf[e]

LEMMA AtHome ==
  ASSUME Stacked, NEW t \in Tasks, NEW e, Contains(running[t], e)
  PROVE  t = HomeOf(e)
  BY DEF Stacked, HomeOf, Contains

LEMMA EnterStacks ==
  ASSUME TypeOK, Stacked, NEW e \in Interceptors, Enter(e, HomeOf(e)),
         HomeOf(e) \in Tasks, e = Main => running[HomeOf(e)] = <<>>
  PROVE  /\ running' \in [Tasks -> Seq(Interceptors)]
         /\ Stacked'
         /\ running'[HomeOf(e)] # <<>> /\ Last(running'[HomeOf(e)]) = e
         /\ \A t \in Tasks : t # HomeOf(e) => running'[t] = running[t]
         /\ \A x : Inside(x)' <=> Inside(x) \/ x = e
<1> DEFINE t == HomeOf(e)
<1>1. /\ running[t] \in Seq(Interceptors) /\ ~Contains(running[t], e)
      /\ running' = [running EXCEPT ![t] = Append(running[t], e)]
  BY DEF TypeOK, Enter, Inside
<1>2. /\ running'[t] \in Seq(Interceptors) /\ running'[t] # <<>>
      /\ Last(running'[t]) = e
      /\ \A x : Contains(running'[t], x) <=> Contains(running[t], x) \/ x = e
      /\ Len(running'[t]) = Len(running[t]) + 1
      /\ running'[t][Len(running[t]) + 1] = e
      /\ \A i \in 1..Len(running[t]) : running'[t][i] = running[t][i]
  <2>1. running'[t] = Append(running[t], e)
    BY <1>1 DEF TypeOK
  <2> QED
    BY <1>1, <2>1, Pushed
<1>3. \A u \in Tasks : u # t => running'[u] = running[u]
  BY <1>1 DEF TypeOK
<1>4. running' \in [Tasks -> Seq(Interceptors)]
  BY <1>1, <1>2 DEF TypeOK
<1>5. \A x : Inside(x)' <=> Inside(x) \/ x = e
  BY <1>2, <1>3 DEF Inside
<1>6. Distinct(running'[t])
  BY <1>1, <1>2 DEF Stacked, Distinct, Contains
<1>7. ASSUME NEW i \in 1..Len(running'[t])
      PROVE  IF running'[t][i] = Main THEN t = MainTask /\ i = 1
                                      ELSE TaskOf[running'[t][i]] = t
  <2>1. CASE i \in 1..Len(running[t])
    BY <1>2, <2>1 DEF Stacked
  <2>2. CASE i = Len(running[t]) + 1
    <3>1. running'[t][i] = e
      BY <1>2, <2>2
    <3>2. e = Main => i = 1
      BY <2>2
    <3> QED
      BY <3>1, <3>2 DEF HomeOf
  <2>3. Len(running[t]) \in Nat
    BY <1>1
  <2> QED
    BY <1>2, <2>1, <2>2, <2>3
<1>8. Stacked'
  BY <1>3, <1>6, <1>7 DEF Stacked
<1> QED
  BY <1>2, <1>3, <1>4, <1>5, <1>8

\* Leaving the interceptors from the n-th on; teardown() leaves the last.
LEMMA CutStacks ==
  ASSUME TypeOK, Stacked, NEW t \in Tasks, NEW n \in 1..Len(running[t]),
         running' = [running EXCEPT ![t] = SubSeq(@, 1, n - 1)]
  PROVE  /\ running' \in [Tasks -> Seq(Interceptors)]
         /\ Stacked'
         /\ \A u \in Tasks : u # t => running'[u] = running[u]
         /\ Len(running'[t]) = n - 1
         /\ \A i \in 1..(n - 1) : running'[t][i] = running[t][i]
         /\ \A x : Inside(x)' <=>
              Inside(x) /\ ~From(running[t], n, x)
<1>1. running[t] \in Seq(Interceptors) /\ Distinct(running[t])
  BY DEF TypeOK, Stacked
<1>2. /\ running'[t] \in Seq(Interceptors) /\ Len(running'[t]) = n - 1
      /\ \A i \in 1..(n - 1) : running'[t][i] = running[t][i]
      /\ \A x : Contains(running'[t], x) <=>
                  Contains(running[t], x) /\ ~From(running[t], n, x)
  <2>1. running'[t] = SubSeq(running[t], 1, n - 1)
    BY DEF TypeOK
  <2>2. LET s == SubSeq(running[t], 1, n - 1) IN
        /\ s \in Seq(Interceptors) /\ Len(s) = n - 1
        /\ \A i \in 1..(n - 1) : s[i] = running[t][i]
        /\ \A x : Contains(s, x) <=>
                    Contains(running[t], x) /\ ~From(running[t], n, x)
    BY <1>1, Cut
  <2> QED
    BY <2>1, <2>2
<1>3. \A u \in Tasks : u # t => running'[u] = running[u]
  BY DEF TypeOK
<1>4. running' \in [Tasks -> Seq(Interceptors)]
  BY <1>2 DEF TypeOK
<1>5. \A x : From(running[t], n, x) => Contains(running[t], x)
  BY DEF Contains, From
<1>6. ASSUME NEW x PROVE Inside(x)' <=> Inside(x) /\ ~From(running[t], n, x)
  <2>1. CASE From(running[t], n, x)
    <3>1. t = HomeOf(x)
      BY <1>5, <2>1, AtHome
    <3>2. \A u \in Tasks : u # t => ~Contains(running[u], x)
      BY <3>1, AtHome
    <3> QED
      BY <1>2, <1>3, <2>1, <3>2 DEF Inside
  <2>2. CASE ~From(running[t], n, x)
    BY <1>2, <1>3, <2>2 DEF Inside
  <2> QED
    BY <2>1, <2>2
<1>7. Distinct(running'[t])
  BY <1>1, <1>2 DEF Distinct
<1>8. \A i \in 1..Len(running'[t]) :
        IF running'[t][i] = Main THEN t = MainTask /\ i = 1
                                 ELSE TaskOf[running'[t][i]] = t
  BY <1>1, <1>2 DEF Stacked
<1>9. Stacked'
  BY <1>3, <1>7, <1>8 DEF Stacked
<1> QED
  BY <1>2, <1>3, <1>4, <1>6, <1>9

LEMMA LeaveStacks ==
  ASSUME TypeOK, Stacked, NEW t \in Tasks, NEW e, Leave(e, t)
  PROVE  /\ running' \in [Tasks -> Seq(Interceptors)]
         /\ Stacked'
         /\ \A u \in Tasks : u # t => running'[u] = running[u]
         /\ Len(running'[t]) = Len(running[t]) - 1
         /\ \A i \in 1..(Len(running[t]) - 1) : running'[t][i] = running[t][i]
         /\ Len(running[t]) \in Nat \ {0} /\ running[t][Len(running[t])] = e
         /\ \A x : Inside(x)' <=> Inside(x) /\ x # e
<1> DEFINE n == Len(running[t])
<1>1. /\ running[t] \in Seq(Interceptors) /\ Contains(running[t], e)
      /\ running[t][n] = e
      /\ running' = [running EXCEPT ![t] = SubSeq(@, 1, n - 1)]
  BY DEF TypeOK, Leave, Last, Front
<1>2. n \in 1..n
  BY <1>1 DEF Contains
<1>3. \A x : From(running[t], n, x) <=> x = e
  BY <1>1, <1>2 DEF From
<1>4. /\ running' \in [Tasks -> Seq(Interceptors)]
      /\ Stacked'
      /\ \A u \in Tasks : u # t => running'[u] = running[u]
      /\ Len(running'[t]) = n - 1
      /\ \A i \in 1..(n - 1) : running'[t][i] = running[t][i]
      /\ \A x : Inside(x)' <=> Inside(x) /\ ~From(running[t], n, x)
  BY <1>1, <1>2, CutStacks
<1> QED
  BY <1>1, <1>2, <1>3, <1>4
-----------------------------------------------------------------------------
(* The invariant: setup(), teardown(), abandoned streams                   *)

USE TasksAssumption DEF Interceptors, HomeOf

LEMMA InitIInv == Init => IInv
<1> SUFFICES ASSUME Init PROVE IInv
  OBVIOUS
<1>1. running \in [Tasks -> Seq(Interceptors)] /\ \A t \in Tasks : running[t] = <<>>
  BY DEF Init
<1>2. \A x : ~Inside(x)
  BY <1>1 DEF Inside, Contains
<1>3. TypeOK
  BY <1>1, <1>2 DEF Init, TypeOK
<1>4. Stacked
  BY <1>1 DEF Stacked, Distinct
<1>5. Live = {}
  BY <1>2 DEF Live, Init
<1>6. Handled
  BY <1>2, <1>5 DEF Handled, Init
<1>7. Aware
  BY <1>1 DEF Aware, Init, Current
<1>8. Phases
  BY <1>1, <1>2 DEF Phases, Idle, Init
<1> QED
  BY <1>3, <1>4, <1>6, <1>7, <1>8 DEF IInv

LEMMA SetupChildKeeps == ASSUME IInv, NEW e \in Kids, SetupChild(e) PROVE IInv'
<1> DEFINE t == TaskOf[e]
<1> USE DEF SetupChild
<1>1. /\ t \in Tasks /\ t = HomeOf(e) /\ e # Main /\ e \notin {Console, Host, None}
      /\ Enter(e, t) /\ ~Inside(e) /\ e \notin done \cup left
  BY DEF Enter
<1>2. /\ running' \in [Tasks -> Seq(Interceptors)]
      /\ Stacked'
      /\ running'[t] # <<>> /\ Last(running'[t]) = e
      /\ \A u \in Tasks : u # t => running'[u] = running[u]
      /\ \A x : Inside(x)' <=> Inside(x) \/ x = e
  BY <1>1, EnterStacks DEF IInv
<1>3. Inside(Main)' <=> Inside(Main)
  BY <1>1, <1>2
<1>4. TypeOK'
  BY <1>1, <1>2 DEF IInv, TypeOK, Enter
<1>5. Live' = Live \cup {e}
  BY <1>2 DEF Live, Enter
<1>6. Handled'
  BY <1>1, <1>3, <1>5 DEF IInv, Handled
<1>7. Aware'
  <2>1. /\ context'[t] = e /\ t \notin astray'
        /\ \A u \in Tasks : u # t => /\ context'[u] = context[u]
                                     /\ u \in astray' <=> u \in astray
    BY <1>1 DEF IInv, TypeOK
  <2>2. Current(t)' = e /\ \A u \in Tasks : u # t => Current(u)' = Current(u)
    BY <1>2 DEF Current
  <2> QED
    BY <1>1, <2>1, <2>2 DEF IInv, Aware
<1>8. Phases'
  <2>1. HasMain => Inside(Main) /\ Main \notin done
    BY DEF MainReady, IInv, TypeOK
  <2>2. Inside(Main) => \A x \in Kids \cap Live' : original'[x] # Console
    BY <1>1, <1>5 DEF IInv, Phases, Enter, TypeOK
  <2>3. Inside(Main) => HasMain /\ original'[Main] = Console /\ stdout' # Console
    BY <1>1 DEF IInv, Phases, Enter, TypeOK
  <2>4. Main \notin done'
    BY <2>1 DEF IInv, Phases, Enter
  <2> QED
    BY <1>3, <2>1, <2>2, <2>3, <2>4 DEF Phases
<1> QED
  BY <1>2, <1>4, <1>6, <1>7, <1>8 DEF IInv

LEMMA SetupMainKeeps == ASSUME IInv, SetupMain PROVE IInv'
<1> USE DEF SetupMain
<1>1. /\ ~Inside(Main) /\ Main \notin done
      /\ Idle /\ left = {} /\ done = {} /\ stdout = Console
  BY DEF Enter, IInv, Phases
<1>2. /\ running' \in [Tasks -> Seq(Interceptors)]
      /\ Stacked'
      /\ running'[MainTask] # <<>> /\ Last(running'[MainTask]) = Main
      /\ \A u \in Tasks : u # MainTask => running'[u] = running[u]
      /\ \A x : Inside(x)' <=> Inside(x) \/ x = Main
  BY <1>1, EnterStacks DEF IInv, Idle
<1>3. \A x : ~Inside(x)
  BY <1>1 DEF Idle, Inside, Contains
<1>4. TypeOK'
  BY <1>1, <1>2 DEF IInv, TypeOK, Enter
<1>5. Live' = {Main}
  BY <1>1, <1>2, <1>3 DEF Live, Enter
<1>6. Handled'
  BY <1>2, <1>5 DEF Handled
<1>7. Aware'
  <2>1. \A u \in Tasks : Current(u) = Main /\ Current(u)' = Main
    BY <1>1, <1>2 DEF Current, Idle
  <2> QED
    BY <2>1 DEF IInv, Aware
<1>8. Phases'
  BY <1>1, <1>2, <1>5 DEF Phases, Enter, IInv, TypeOK
<1> QED
  BY <1>2, <1>4, <1>6, <1>7, <1>8 DEF IInv

LEMMA TeardownChildKeeps == ASSUME IInv, NEW e \in Kids, TeardownChild(e) PROVE IInv'
<1> DEFINE t == TaskOf[e]
           n == Len(running[t])
<1> USE DEF TeardownChild
<1>1. t \in Tasks /\ e # Main /\ e \notin {Console, Host, None} /\ Leave(e, t)
  OBVIOUS
<1>2. /\ running' \in [Tasks -> Seq(Interceptors)]
      /\ Stacked'
      /\ \A u \in Tasks : u # t => running'[u] = running[u]
      /\ Len(running'[t]) = n - 1
      /\ \A i \in 1..(n - 1) : running'[t][i] = running[t][i]
      /\ n \in Nat \ {0} /\ running[t][n] = e
      /\ \A x : Inside(x)' <=> Inside(x) /\ x # e
  BY <1>1, LeaveStacks DEF IInv
<1>3. Inside(e) /\ e \notin left /\ (Inside(Main)' <=> Inside(Main))
  BY <1>1, <1>2 DEF Leave, Inside, IInv, TypeOK
<1>4. TypeOK'
  BY <1>1, <1>2, <1>3 DEF IInv, TypeOK, Leave, Release, Restored, Without
<1>5. Live' = Live \ {e}
  BY <1>2, <1>3 DEF Live, Leave
<1>6. Handled'
  BY <1>1, <1>3, <1>5 DEF IInv, Handled, Leave, Release, Without
<1>7. Aware'
  <2>1. /\ context'[t] = None /\ None \notin Kids
        /\ \A u \in Tasks : u # t => /\ context'[u] = context[u]
                                     /\ u \in astray' <=> u \in astray
    BY <1>1 DEF IInv, TypeOK
  <2>2. \A u \in Tasks : u # t => Current(u)' = Current(u)
    BY <1>2 DEF Current
  <2>3. t \notin astray' => Current(t)' = Main
    <3>1. CASE n = 1
      <4>1. running'[t] = <<>>
        BY <1>1, <1>2, <3>1
      <4> QED
        BY <4>1 DEF Current
    <3>2. CASE n > 1
      <4>1. Last(running'[t]) = running[t][n - 1] /\ running'[t] # <<>>
        BY <1>1, <1>2, <3>2 DEF Last
      <4>2. running[t][n - 1] # e
        BY <1>1, <1>2, <3>2 DEF IInv, Stacked, Distinct
      <4>3. running[t][n - 1] \in Range(running[t])
        <5>1. DOMAIN running[t] = 1..n
          BY <1>1 DEF IInv, TypeOK
        <5>2. n - 1 \in DOMAIN running[t]
          BY <1>2, <3>2, <5>1
        <5> QED
          BY <5>2, Zenon DEF Range
      <4>4. t \notin astray' => Range(running[t]) \ {e, Main} = {}
        BY <1>1
      <4>5. t \notin astray' => running[t][n - 1] = Main
        BY <4>2, <4>3, <4>4
      <4> QED
        BY <4>1, <4>5 DEF Current
    <3>3. n \in Nat \ {0}
      BY <1>2
    <3> HIDE DEF n
    <3> QED
      BY <3>1, <3>2, <3>3
  <2> QED
    BY <2>1, <2>2, <2>3 DEF IInv, Aware
<1>8. Phases'
  <2>1. ~Idle
    BY <1>1, <1>2 DEF Idle
  <2>2. Inside(Main) => Restored(e) # Console
    BY <1>3 DEF IInv, Phases, Live, Restored
  <2> QED
    BY <1>1, <1>3, <1>5, <2>1, <2>2 DEF IInv, Phases, Leave, Release
<1> QED
  BY <1>2, <1>4, <1>6, <1>7, <1>8 DEF IInv

\* The main interceptor is the outermost of its task, and the last to leave.
LEMMA TeardownMainKeeps == ASSUME IInv, TeardownMain PROVE IInv'
<1> DEFINE n == Len(running[MainTask])
<1> USE DEF TeardownMain
<1>1. Leave(Main, MainTask) /\ MainTask \in Tasks
  OBVIOUS
<1>2. /\ running' \in [Tasks -> Seq(Interceptors)]
      /\ Stacked'
      /\ \A u \in Tasks : u # MainTask => running'[u] = running[u]
      /\ Len(running'[MainTask]) = n - 1
      /\ n \in Nat \ {0} /\ running[MainTask][n] = Main
      /\ \A x : Inside(x)' <=> Inside(x) /\ x # Main
  BY <1>1, LeaveStacks DEF IInv
<1>3. Inside(Main)
  BY <1>1 DEF Leave, Inside
<1>4. Idle'
  <2>1. n = 1
    <3>1. n \in 1..n
      BY <1>2
    <3> QED
      BY <1>2, <3>1 DEF IInv, Stacked
  <2>2. running'[MainTask] = <<>>
    BY <1>2, <2>1
  <2> QED
    BY <1>2, <2>2 DEF Idle
<1>5. TypeOK'
  BY <1>1, <1>2 DEF IInv, TypeOK, Leave, Release, Restored, Without
<1>6. Live' = Live \ {Main}
  BY <1>2 DEF Live, Leave, IInv, TypeOK
<1>7. Handled'
  BY <1>1, <1>2, <1>3, <1>6 DEF IInv, Handled, Leave, Release, Without
<1>8. Aware'
  <2>1. \A u \in Tasks : Current(u) = Main /\ Current(u)' = Main
    BY <1>1, <1>4 DEF Current, Idle, Leave
  <2> QED
    BY <2>1 DEF IInv, Aware
<1>9. Phases'
  BY <1>1, <1>2, <1>3, <1>4 DEF IInv, Phases, Leave, Release, Restored
<1> QED
  BY <1>2, <1>5, <1>7, <1>8, <1>9 DEF IInv

\* Nothing but the stack changes until the abandoned streams are finalised.
LEMMA AbandonKeeps == ASSUME IInv, NEW e \in Kids, Abandon(e) PROVE IInv'
<1> DEFINE t == TaskOf[e]
<1>1. PICK n \in 1..Len(running[t]) :
        /\ {running[t][i] : i \in n..Len(running[t])} \subseteq Streamed
        /\ running' = [running EXCEPT ![t] = SubSeq(@, 1, n - 1)]
        /\ left' = left \cup {running[t][i] : i \in n..Len(running[t])}
  <2>1. DOMAIN running[t] = 1..Len(running[t])
    BY DEF IInv, TypeOK
  <2>2. PICK n \in DOMAIN running[t] :
          /\ {running[t][i] : i \in n..Len(running[t])} \subseteq Streamed
          /\ running' = [running EXCEPT ![t] = SubSeq(@, 1, n - 1)]
          /\ left' = left \cup {running[t][i] : i \in n..Len(running[t])}
    BY Zenon DEF Abandon
  <2> QED
    BY <2>1, <2>2
<1>2. /\ t \in Tasks
      /\ astray' = astray \cup {t}
      /\ UNCHANGED <<done, stdout, original, loggers, context, stranded>>
  BY DEF Abandon
<1>3. /\ running' \in [Tasks -> Seq(Interceptors)]
      /\ Stacked'
      /\ \A u \in Tasks : u # t => running'[u] = running[u]
      /\ \A x : Inside(x)' <=> Inside(x) /\ ~From(running[t], n, x)
  BY <1>1, <1>2, CutStacks DEF IInv
<1>4. /\ \A x : x \in left' <=> x \in left \/ From(running[t], n, x)
      /\ \A x : From(running[t], n, x) => x \in Streamed /\ Inside(x)
  BY <1>1, <1>2 DEF From, Inside, Contains
<1>5. Inside(Main)' <=> Inside(Main)
  BY <1>3, <1>4
<1>6. TypeOK'
  BY <1>2, <1>3, <1>4 DEF IInv, TypeOK, loggers
<1>7. Live' = Live
  BY <1>3, <1>4 DEF Live
<1>8. Handled'
  BY <1>2, <1>5, <1>7 DEF IInv, Handled, loggers
<1>9. Aware'
  <2>1. \A u \in Tasks : u # t => Current(u)' = Current(u)
    BY <1>3 DEF Current
  <2> QED
    BY <1>2, <2>1 DEF IInv, Aware
<1>10. Phases'
  <2>1. ~Idle
    BY <1>1, <1>2 DEF Idle
  <2> QED
    BY <1>2, <1>5, <1>7, <2>1 DEF IInv, Phases
<1> QED
  BY <1>3, <1>6, <1>8, <1>9, <1>10 DEF IInv

LEMMA FinaliseKeeps == ASSUME IInv, NEW e \in Kids, Finalise(e) PROVE IInv'
<1> USE DEF Finalise
<1>1. e \in left /\ e # Main /\ e # Host /\ ~Inside(e) /\ running' = running
  BY DEF IInv, TypeOK
<1>2. \A x : Inside(x)' <=> Inside(x)
  BY <1>1 DEF Inside
<1>3. TypeOK'
  BY <1>1, <1>2 DEF IInv, TypeOK, Release, Restored, Without
<1>4. Stacked'
  BY <1>1 DEF IInv, Stacked
<1>5. Live' = Live \ {e}
  BY <1>1, <1>2 DEF Live
<1>6. Handled'
  BY <1>1, <1>2, <1>5 DEF IInv, Handled, Release, Without
<1>7. Aware'
  BY <1>1 DEF IInv, Aware, Current
<1>8. Phases'
  <2>1. Inside(Main) => Restored(e) # Console
    BY <1>1 DEF IInv, Phases, Live, Restored
  <2>2. Idle' <=> Idle
    BY <1>1 DEF Idle
  <2> QED
    BY <1>1, <1>2, <1>5, <2>1, <2>2 DEF IInv, Phases, Release
<1> QED
  BY <1>3, <1>4, <1>6, <1>7, <1>8 DEF IInv

LEMMA StepKeeps == IInv /\ [Next]_vars => IInv'
<1> SUFFICES ASSUME IInv, [Next]_vars PROVE IInv'
  OBVIOUS
<1>1. CASE UNCHANGED vars
  <2>1. \A x : Inside(x)' <=> Inside(x)
    BY <1>1 DEF vars, Inside
  <2>2. Live' = Live
    BY <1>1, <2>1 DEF vars, Live
  <2>3. TypeOK' /\ Stacked'
    BY <1>1, <2>1 DEF vars, loggers, IInv, TypeOK, Stacked
  <2>4. Handled'
    BY <1>1, <2>1, <2>2 DEF vars, loggers, IInv, Handled
  <2>5. Aware'
    BY <1>1 DEF vars, IInv, Aware, Current
  <2>6. Phases'
    BY <1>1, <2>1, <2>2 DEF vars, IInv, Phases, Idle
  <2> QED
    BY <2>3, <2>4, <2>5, <2>6 DEF IInv
<1>2. ASSUME NEW e \in Kids,
             SetupChild(e) \/ TeardownChild(e) \/ Abandon(e) \/ Finalise(e)
      PROVE  IInv'
  BY <1>2, SetupChildKeeps, TeardownChildKeeps, AbandonKeeps, FinaliseKeeps
<1>3. CASE SetupMain
  BY <1>3, SetupMainKeeps
<1>4. CASE TeardownMain
  BY <1>4, TeardownMainKeeps
<1> QED
  BY <1>1, <1>2, <1>3, <1>4 DEF Next, AllOver

\* Stacks, handlers, contexts and streams stay consistent in every order of
\* setups, teardowns and finalisers.
THEOREM Invariance == Spec => []IInv
<1> QED
  BY InitIInv, StepKeeps, PTL DEF Spec

-----------------------------------------------------------------------------
(* Results                                                                 *)

\* The variables keep their types; an interceptor that was torn down is not
\* entered again, nor finalised twice.
THEOREM TypeCorrect == Spec => []TypeOK
<1>1. IInv => TypeOK
  BY DEF IInv
<1> QED
  BY <1>1, Invariance, PTL

\* teardown() leaves no handler of its own on any logger, also when it runs as
\* the finaliser of an abandoned stream.
THEOREM HandlersLeave == Spec => []NoHandlerOutlivesItsInterceptor
<1>1. IInv => NoHandlerOutlivesItsInterceptor
  BY DEF IInv, TypeOK, Handled, Live, NoHandlerOutlivesItsInterceptor
<1> QED
  BY <1>1, Invariance, PTL

\* The end of the main interceptor gives the host its stream and handlers back.
THEOREM HostRestored == Spec => []HostStreamsComeBack
<1>1. IInv => HostStreamsComeBack
  <2> SUFFICES ASSUME IInv, Main \in done, left = {}
               PROVE  onRoot = {Host} /\ (stranded = {} => stdout = Console)
    BY DEF HostStreamsComeBack
  <2>1. Idle /\ (stranded = {} => stdout = Console)
    BY DEF IInv, Phases
  <2>2. \A x : ~Inside(x)
    BY <2>1 DEF Idle, Inside, Contains
  <2>3. onRoot = {Host}
    BY <2>2 DEF IInv, Handled, Live
  <2> QED
    BY <2>1, <2>3
<1> QED
  BY <1>1, Invariance, PTL

\* With a main interceptor around them, executions are isolated in every order
\* and nesting; without one they are not, for prints (PrintsAreCaptured).
THEOREM Isolated == HasMain => (Spec => []ExecutionsAreIsolated)
<1>1. ASSUME HasMain, IInv PROVE ExecutionsAreIsolated
  <2> SUFFICES ASSUME NEW t \in Tasks, NEW source \in {"print", "late"}, Busy(t)
               PROVE  IF t \notin astray
                      THEN Reaches(t, source) = {Current(t)}
                      ELSE /\ Reaches(t, source) \subseteq
                                {Main} \cup {e \in Kids : TaskOf[e] = t}
                           /\ \A g, h \in Reaches(t, source) : g = h
    BY DEF ExecutionsAreIsolated
  <2>1. Inside(Main) /\ stdout # Console
    BY <1>1 DEF IInv, Phases, Idle, Busy
  <2>2. Reaches(t, source) = {h \in Live : Accepts(h, t)}
    BY <1>1, <2>1 DEF Reaches, IInv, Handled, Live
  <2>3. \A h \in Live : Accepts(h, t) <=>
          IF h = Main THEN context[t] = None ELSE context[t] = h
    BY DEF Accepts, Live
  <2>4. Main \in Live /\ (context[t] \in Kids => TaskOf[context[t]] = t)
    BY <1>1, <2>1 DEF Live, IInv, Aware
  <2>5. CASE t \notin astray
    <3>1. context[t] = IF Current(t) = Main THEN None ELSE Current(t)
      BY <1>1, <2>5 DEF IInv, Aware
    <3>2. Current(t) \in Live
      <4>1. CASE running[t] = <<>>
        BY <2>4, <4>1 DEF Current
      <4>2. CASE running[t] # <<>>
        <5>1. running[t] \in Seq(Interceptors)
          BY <1>1 DEF IInv, TypeOK
        <5>2. Len(running[t]) \in 1..Len(running[t])
          BY <4>2, <5>1
        <5>3. Last(running[t]) \in Interceptors /\ Contains(running[t], Last(running[t]))
          BY <5>1, <5>2 DEF Last, Contains
        <5> QED
          BY <4>2, <5>3 DEF Current, Live, Inside
      <4> QED
        BY <4>1, <4>2
    <3>3. Live \subseteq Interceptors
      BY DEF Live
    <3> QED
      BY <2>2, <2>3, <2>4, <2>5, <3>1, <3>2, <3>3
  <2>6. CASE t \in astray
    BY <2>2, <2>3, <2>4, <2>6 DEF Live
  <2> QED
    BY <2>5, <2>6
<1>2. CASE HasMain
  <2>1. IInv => ExecutionsAreIsolated
    BY <1>1, <1>2
  <2> QED
    BY <2>1, Invariance, PTL
<1> QED
  BY <1>2
=============================================================================
