----------------------------- MODULE EventLoop -----------------------------
(***************************************************************************)
(* The event loop of twincam: src/event_loop.cpp on top of libevent.       *)
(*                                                                         *)
(* One thread, the main thread, runs exec().  Any other thread hands it a  *)
(* closure with callLater(), which takes two steps another thread can see  *)
(* between: pushCallList() appends to calls_ under lock_, and              *)
(* event_base_once() makes libevent run dispatchCallback once.  Nothing    *)
(* ties that event to the closure: dispatchCall() pops whatever is at the  *)
(* head of calls_ and invokes it.                                          *)
(***************************************************************************)
EXTENDS Integers, Sequences, FiniteSets

CONSTANTS
  Threads,    \* the threads, other than the main one, that call callLater()
  Calls,      \* the closures they hand over
  Sources,    \* what addFdEvent() and addTimerEvent() watch
  MaxCalls,   \* bound of the model: callLater() is not called on a longer calls_
  Faults,     \* the failures the run admits; this module looks for "once", "event"
  None        \* no closure

ASSUME EventLoopAssumption ==
  /\ MaxCalls \in Nat
  /\ None \notin Calls
  /\ IsFiniteSet(Threads)

VARIABLES
  calls_,     \* the list of deferred closures, oldest first
  arming,     \* threads between pushCallList() and event_base_once()
  armed,      \* once-events libevent has yet to run
  events_,    \* sources whose event was added
  mainAt,     \* where the main thread is, see MainAt
  call,       \* local variable of dispatchCall(): the closure popped, or None
  break_      \* libevent's event_break flag

vars == <<calls_, arming, armed, events_, mainAt, call, break_>>

(***************************************************************************)
(* "out": not in event_base_loop().  "poll": in it, about to choose an     *)
(* event or to return.  "call": in dispatchCall(), after popCallList().    *)
(***************************************************************************)
MainAt == {"out", "poll", "call"}

Init ==
  /\ calls_ = <<>>
  /\ arming = {}
  /\ armed = 0
  /\ events_ = {}
  /\ mainAt = "out"
  /\ call = None
  /\ break_ = FALSE
-----------------------------------------------------------------------------
(* Mutant of PushCallList: the list is filled at the end it is read from. *)
PushCallListFront(t, c) ==
  /\ t \notin arming
  /\ Len(calls_) < MaxCalls
  /\ calls_' = <<c>> \o calls_
  /\ arming' = arming \union {t}
  /\ UNCHANGED <<armed, events_, mainAt, call, break_>>

(* callLater(), first half: the closure is on the list. *)
PushCallList(t, c) ==
  /\ t \notin arming
  /\ Len(calls_) < MaxCalls
  /\ calls_' = Append(calls_, c)
  /\ arming' = arming \union {t}
  /\ UNCHANGED <<armed, events_, mainAt, call, break_>>

(* Mutant of EventBaseOnce: a wake-up that is already armed is not repeated. *)
EventBaseOnceCoalesced(t) ==
  /\ t \in arming
  /\ arming' = arming \ {t}
  /\ armed' = IF armed = 0 THEN 1 ELSE armed
  /\ UNCHANGED <<calls_, events_, mainAt, call, break_>>

(* callLater(), second half; its result is ignored, so a failure is silent. *)
EventBaseOnce(t) ==
  /\ t \in arming
  /\ arming' = arming \ {t}
  /\ \/ armed' = armed + 1
     \/ "once" \in Faults /\ UNCHANGED armed
  /\ UNCHANGED <<calls_, events_, mainAt, call, break_>>

(* addFdEvent(), addTimerEvent(): an event that event_add() refuses is
   reported and forgotten.  Called by the main thread outside the loop. *)
AddEvent(s) ==
  /\ mainAt = "out"
  /\ \/ events_' = events_ \union {s}
     \/ "event" \in Faults /\ UNCHANGED events_
  /\ UNCHANGED <<calls_, arming, armed, mainAt, call, break_>>

(* One that event_new() cannot make is reported too, and takes the program
   with it: ~Event() hands its null pointer to event_del(). *)
AddEventCrashes == mainAt = "out" /\ "event" \in Faults

(* event_base_loopbreak() only stops a loop that is running: the loop clears
   event_break when it is entered. *)
Exec ==
  /\ mainAt = "out"
  /\ mainAt' = "poll"
  /\ break_' = FALSE
  /\ UNCHANGED <<calls_, arming, armed, events_, call>>

Exit ==
  /\ ~break_
  /\ break_' = TRUE
  /\ UNCHANGED <<calls_, arming, armed, events_, mainAt, call>>

(* Mutant of Return: the loop ends only when no call is left to run. *)
ReturnDrained ==
  /\ mainAt = "poll"
  /\ break_ /\ calls_ = <<>>
  /\ mainAt' = "out"
  /\ UNCHANGED <<calls_, arming, armed, events_, call, break_>>

(* libevent looks at event_break before it runs another callback. *)
Return ==
  /\ mainAt = "poll"
  /\ break_
  /\ mainAt' = "out"
  /\ UNCHANGED <<calls_, arming, armed, events_, call, break_>>

(* Mutant of PopCallList: the event is persistent. *)
PopCallListPersist ==
  /\ mainAt = "poll"
  /\ ~break_
  /\ armed > 0
  /\ mainAt' = "call"
  /\ IF calls_ = <<>>
     THEN UNCHANGED <<calls_, call>>
     ELSE /\ call' = Head(calls_)
          /\ calls_' = Tail(calls_)
  /\ UNCHANGED <<arming, armed, events_, break_>>

(* Mutant of PopCallList: the loop looks at the list without a wake-up. *)
PopCallListUnarmed ==
  /\ mainAt = "poll"
  /\ ~break_
  /\ calls_ # <<>>
  /\ armed' = armed - 1
  /\ mainAt' = "call"
  /\ call' = Head(calls_)
  /\ calls_' = Tail(calls_)
  /\ UNCHANGED <<arming, events_, break_>>

(* A once-event runs dispatchCallback(): popCallList() leaves the local
   closure empty when there is nothing on the list. *)
PopCallList ==
  /\ mainAt = "poll"
  /\ ~break_
  /\ armed > 0
  /\ armed' = armed - 1
  /\ mainAt' = "call"
  /\ IF calls_ = <<>>
     THEN UNCHANGED <<calls_, call>>
     ELSE /\ call' = Head(calls_)
          /\ calls_' = Tail(calls_)
  /\ UNCHANGED <<arming, events_, break_>>

(* The closure runs to its end on the main thread and the loop goes on. *)
InvokeCall ==
  /\ mainAt = "call"
  /\ call # None
  /\ mainAt' = "poll"
  /\ call' = None
  /\ UNCHANGED <<calls_, arming, armed, events_, break_>>

(* Event::dispatch() may run the callback of source s. *)
MayDispatch(s) == mainAt = "poll" /\ ~break_ /\ s \in events_
-----------------------------------------------------------------------------
CallLater == \E t \in Threads :
               (\E c \in Calls : PushCallList(t, c)) \/ EventBaseOnce(t)

Main == Exec \/ Return \/ PopCallList \/ InvokeCall

Next == CallLater \/ Main \/ Exit \/ \E s \in Sources : AddEvent(s)

Spec == Init /\ [][Next]_vars

(***************************************************************************)
(* A thread inside callLater() finishes it, and a running loop keeps       *)
(* choosing events: neither waits for anything but the two short locks.    *)
(* Nothing makes a thread call callLater(), exec() or exit().              *)
(***************************************************************************)
Fairness ==
  /\ \A t \in Threads : WF_vars(EventBaseOnce(t))
  /\ WF_vars(Return)
  /\ WF_vars(PopCallList)
  /\ WF_vars(InvokeCall)

FairSpec == Spec /\ Fairness
-----------------------------------------------------------------------------
(* Every variable holds a value of its kind. *)
TypeOK ==
  /\ calls_ \in Seq(Calls)
  /\ arming \subseteq Threads
  /\ armed \in Nat
  /\ events_ \subseteq Sources
  /\ mainAt \in MainAt
  /\ call \in Calls \union {None}
  /\ break_ \in BOOLEAN

(* dispatchCall() never invokes an empty std::function, which would throw
   std::bad_function_call out of a C callback: there is no check at
   event_loop.cpp:123 because every once-event has its closure. *)
NoEmptyCall == mainAt = "call" => call # None

(* Each closure on the list has its own wake-up, already armed or about to
   be: when event_base_once() cannot fail no closure is left behind. *)
NoStrandedCall == Len(calls_) = armed + Cardinality(arming)

(* The half of NoStrandedCall that survives a failing event_base_once(). *)
WakeupsHaveCalls == armed + Cardinality(arming) <= Len(calls_)

(* A closure that reached the list is invoked, unless the loop is told to
   stop: exit() abandons what is still on the list. *)
CallsRun == \A c \in Calls :
  (\E k \in DOMAIN calls_ : calls_[k] = c) /\ mainAt # "out" ~> call = c \/ break_

(* exit() called while the loop runs ends the loop. *)
ExitEndsLoop == break_ /\ mainAt # "out" ~> mainAt = "out"
=============================================================================
