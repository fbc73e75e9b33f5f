-------------------------- MODULE EventLoopProofs --------------------------
(***************************************************************************)
(* Safety of EventLoop for any threads, closures and bound: deferred calls *)
(* are matched by wake-ups.  Counting is the whole argument, so the        *)
(* balance WakeupsHaveCalls is itself inductive, together with the types.  *)
(***************************************************************************)
EXTENDS EventLoop, FiniteSetTheorems, TLAPS

IInv ==
  /\ TypeOK
  /\ WakeupsHaveCalls
  /\ NoEmptyCall

(* Only a finite number of threads can be half way through callLater(). *)
LEMMA ArmingFinite ==
  ASSUME TypeOK
  PROVE  IsFiniteSet(arming) /\ Cardinality(arming) \in Nat
  BY EventLoopAssumption, FS_Subset, FS_CardinalityType DEF TypeOK

(* The initial state satisfies the invariant. *)
LEMMA InitIInv == Init => IInv /\ NoStrandedCall
<1> SUFFICES ASSUME Init PROVE IInv /\ NoStrandedCall
  OBVIOUS
<1>1. TypeOK
  <2>1. calls_ \in Seq(Calls)
    BY DEF Init
  <2>2. arming \subseteq Threads /\ events_ \subseteq Sources
    BY DEF Init
  <2>3. armed \in Nat
    BY DEF Init
  <2>4. mainAt \in MainAt /\ call \in Calls \union {None} /\ break_ \in BOOLEAN
    BY DEF Init, MainAt
  <2> QED
    BY <2>1, <2>2, <2>3, <2>4 DEF TypeOK
<1>2. Cardinality(arming) = 0
  BY FS_EmptySet DEF Init
<1>3. armed = 0 /\ Len(calls_) = 0 /\ mainAt = "out"
  BY DEF Init
<1> QED
  BY <1>1, <1>2, <1>3 DEF IInv, WakeupsHaveCalls, NoEmptyCall, NoStrandedCall

(* Every step preserves the types, given that a once-event finds its closure
   or none. *)
LEMMA NextTypeOK == TypeOK /\ [Next]_vars => TypeOK'
<1> SUFFICES ASSUME TypeOK, [Next]_vars PROVE TypeOK'
  OBVIOUS
<1> USE DEF TypeOK, MainAt
<1>1. ASSUME NEW t \in Threads, NEW c \in Calls, PushCallList(t, c) PROVE TypeOK'
  BY <1>1 DEF PushCallList
<1>2. ASSUME NEW t \in Threads, EventBaseOnce(t) PROVE TypeOK'
  BY <1>2 DEF EventBaseOnce
<1>3. CASE Exec
  BY <1>3 DEF Exec
<1>4. CASE Return
  BY <1>4 DEF Return
<1>5. CASE PopCallList
  <2>1. armed' \in Nat
    BY <1>5 DEF PopCallList
  <2>2. calls_' \in Seq(Calls) /\ call' \in Calls \union {None}
    <3>1. CASE calls_ = <<>>
      BY <1>5, <3>1 DEF PopCallList
    <3>2. CASE calls_ # <<>>
      BY <1>5, <3>2 DEF PopCallList
    <3> QED
      BY <3>1, <3>2
  <2> QED
    BY <1>5, <2>1, <2>2 DEF PopCallList
<1>6. CASE InvokeCall
  BY <1>6 DEF InvokeCall
<1>7. CASE Exit
  BY <1>7 DEF Exit
<1>8. ASSUME NEW s \in Sources, AddEvent(s) PROVE TypeOK'
  BY <1>8 DEF AddEvent
<1>9. CASE UNCHANGED vars
  BY <1>9 DEF vars
<1> QED
  BY <1>1, <1>2, <1>3, <1>4, <1>5, <1>6, <1>7, <1>8, <1>9
  DEF Next, CallLater, Main

(* callLater() puts a closure on the list and promises it one wake-up. *)
LEMMA PushBalance ==
  ASSUME TypeOK, NEW t \in Threads, NEW c \in Calls, PushCallList(t, c)
  PROVE  /\ Len(calls_') = Len(calls_) + 1
         /\ Cardinality(arming') = Cardinality(arming) + 1
         /\ UNCHANGED <<armed, mainAt, call>>
<1>1. calls_ \in Seq(Calls) /\ calls_' = Append(calls_, c)
  BY DEF PushCallList, TypeOK
<1>2. Len(calls_') = Len(calls_) + 1
  BY <1>1
<1>3. Cardinality(arming') = Cardinality(arming) + 1
  BY ArmingFinite, FS_AddElement DEF PushCallList
<1> QED
  BY <1>2, <1>3 DEF PushCallList

(* event_base_once() turns the promise into an armed event, or breaks it. *)
LEMMA OnceBalance ==
  ASSUME TypeOK, NEW t \in Threads, EventBaseOnce(t)
  PROVE  /\ Cardinality(arming') = Cardinality(arming) - 1
         /\ armed' = armed + 1 \/ ("once" \in Faults /\ armed' = armed)
         /\ UNCHANGED <<calls_, mainAt, call>>
  BY ArmingFinite, FS_RemoveElement DEF EventBaseOnce

(* dispatchCall() uses up one wake-up, and a closure if there is one. *)
LEMMA PopBalance ==
  ASSUME TypeOK, PopCallList
  PROVE  /\ armed > 0 /\ armed' = armed - 1
         /\ UNCHANGED arming
         /\ calls_ # <<>> => Len(calls_') = Len(calls_) - 1 /\ call' \in Calls
  BY DEF PopCallList, TypeOK

(* A wake-up implies a closure, so the closure popped is never empty. *)
LEMMA NextIInv == IInv /\ [Next]_vars => IInv'
<1> SUFFICES ASSUME IInv, [Next]_vars PROVE IInv'
  OBVIOUS
<1>t. TypeOK /\ TypeOK'
  BY NextTypeOK DEF IInv
<1>f. /\ Cardinality(arming) \in Nat /\ armed \in Nat /\ Len(calls_) \in Nat
      /\ armed + Cardinality(arming) <= Len(calls_)
  BY <1>t, ArmingFinite DEF TypeOK, IInv, WakeupsHaveCalls
<1> SUFFICES WakeupsHaveCalls' /\ NoEmptyCall'
  BY <1>t DEF IInv
<1>1. ASSUME NEW t \in Threads, NEW c \in Calls, PushCallList(t, c)
      PROVE  WakeupsHaveCalls' /\ NoEmptyCall'
  BY <1>1, <1>t, <1>f, PushBalance DEF IInv, WakeupsHaveCalls, NoEmptyCall
<1>2. ASSUME NEW t \in Threads, EventBaseOnce(t)
      PROVE  WakeupsHaveCalls' /\ NoEmptyCall'
  BY <1>2, <1>t, <1>f, OnceBalance DEF IInv, WakeupsHaveCalls, NoEmptyCall
<1>3. CASE PopCallList
  <2>1. calls_ # <<>>
    BY <1>3, <1>t, <1>f, PopBalance
  <2> QED
    BY <1>3, <1>t, <1>f, <2>1, PopBalance, EventLoopAssumption
    DEF WakeupsHaveCalls, NoEmptyCall
<1>4. CASE Exec \/ Return \/ InvokeCall \/ Exit \/ UNCHANGED vars
  BY <1>4
  DEF Exec, Return, InvokeCall, Exit, vars, IInv, WakeupsHaveCalls, NoEmptyCall
<1>5. ASSUME NEW s \in Sources, AddEvent(s)
      PROVE  WakeupsHaveCalls' /\ NoEmptyCall'
  BY <1>5 DEF AddEvent, IInv, WakeupsHaveCalls, NoEmptyCall
<1> QED
  BY <1>1, <1>2, <1>3, <1>4, <1>5 DEF Next, CallLater, Main

(* The balance holds for ever. *)
LEMMA Invariance == Spec => []IInv
<1>1. Init => IInv
  BY InitIInv
<1> QED
  BY <1>1, NextIInv, PTL DEF Spec

(* The event loop's variables keep their types. *)
THEOREM TypeCorrect == Spec => []TypeOK
<1>1. IInv => TypeOK
  BY DEF IInv
<1> QED
  BY <1>1, Invariance, PTL

(* dispatchCall() never invokes an empty std::function (event_loop.cpp:123),
   for any number of threads and even when event_base_once() fails. *)
THEOREM NeverEmpty == Spec => []NoEmptyCall
<1>1. IInv => NoEmptyCall
  BY DEF IInv
<1> QED
  BY <1>1, Invariance, PTL

(* No more once-events than closures, whatever fails. *)
THEOREM WakeupsBounded == Spec => []WakeupsHaveCalls
<1>1. IInv => WakeupsHaveCalls
  BY DEF IInv
<1> QED
  BY <1>1, Invariance, PTL

(* When event_base_once() cannot fail, every closure on the list has its own
   wake-up. *)
THEOREM NeverStranded ==
  ASSUME "once" \notin Faults
  PROVE  Spec => []NoStrandedCall
<1>1. ASSUME IInv, NoStrandedCall, [Next]_vars PROVE NoStrandedCall'
  <2>f. /\ TypeOK
        /\ Cardinality(arming) \in Nat /\ armed \in Nat /\ Len(calls_) \in Nat
        /\ Len(calls_) = armed + Cardinality(arming)
    BY <1>1, ArmingFinite DEF TypeOK, IInv, NoStrandedCall
  <2>1. ASSUME NEW t \in Threads, NEW c \in Calls, PushCallList(t, c)
        PROVE  NoStrandedCall'
    BY <2>1, <2>f, PushBalance DEF NoStrandedCall
  <2>2. ASSUME NEW t \in Threads, EventBaseOnce(t) PROVE NoStrandedCall'
    BY <2>2, <2>f, OnceBalance DEF NoStrandedCall
  <2>3. CASE PopCallList
    <3>1. calls_ # <<>>
      BY <2>3, <2>f, PopBalance
    <3> QED
      BY <2>3, <2>f, <3>1, PopBalance DEF NoStrandedCall
  <2>4. CASE Exec \/ Return \/ InvokeCall \/ Exit \/ UNCHANGED vars
    BY <1>1, <2>4 DEF Exec, Return, InvokeCall, Exit, vars, NoStrandedCall
  <2>5. ASSUME NEW s \in Sources, AddEvent(s) PROVE NoStrandedCall'
    BY <1>1, <2>5 DEF AddEvent, NoStrandedCall
  <2> QED
    BY <1>1, <2>1, <2>2, <2>3, <2>4, <2>5 DEF Next, CallLater, Main
<1>2. Init => NoStrandedCall
  BY InitIInv
<1> QED
  BY <1>1, <1>2, Invariance, PTL DEF Spec
=============================================================================
