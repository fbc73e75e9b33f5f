---------------------------- MODULE CamAppProofs ----------------------------
(***************************************************************************)
(* The pid file, for any daemons, pids and tools, when a daemon starts     *)
(* only once no other is between open() and write().  The mixture that     *)
(* pid_write() at offset 0 could make needs an old pid left in the file: a *)
(* daemon about to write always finds it empty (Truncated), since it is    *)
(* the only one there (OneWriter).                                         *)
(***************************************************************************)
EXTENDS CamApp, SequenceTheorems, TLAPS

Procs == DOMAIN pc = Processes

OneWriter ==
  \A d, e \in Daemons : pc[d] = "opened" /\ pc[e] = "opened" => d = e

Truncated ==
  \A d \in Daemons : pc[d] = "opened" => file = <<>>

IInv == Procs /\ OneWriter /\ Truncated /\ PidFileWhole

LEMMA InitIInv == Init => IInv
BY DEF Init, IInv, Procs, OneWriter, Truncated, PidFileWhole, Processes

(* Steps that leave the file alone, start nobody anew and open nothing. *)
LEMMA Quiet ==
  ASSUME IInv, UNCHANGED file, DOMAIN pc' = Processes,
         \A d \in Daemons : /\ pc'[d] = "opened" => pc[d] = "opened"
                            /\ Started(d) => pc'[d] # "start"
  PROVE  IInv'
BY DEF IInv, Procs, OneWriter, Truncated, PidFileWhole, Started

LEMMA StepIInv ==
  ASSUME Ordered
  PROVE  IInv /\ [Next]_vars => IInv'
<1> SUFFICES ASSUME IInv, [Next]_vars PROVE IInv'
  OBVIOUS
<1>s. Procs /\ OneWriter /\ Truncated /\ PidFileWhole
  BY DEF IInv
<1>1. ASSUME NEW d \in Daemons, OpenWrite(d) PROVE IInv'
  <2>1. /\ DOMAIN pc' = Processes /\ file' = <<>> /\ pc'[d] = "opened"
        /\ \A e \in Daemons : e # d => pc'[e] = pc[e] /\ pc[e] # "opened"
    BY <1>s, <1>1 DEF OpenWrite, Step, Idle, Procs, Processes
  <2> QED
    BY <2>1 DEF IInv, Procs, OneWriter, Truncated, PidFileWhole, Started
<1>2. ASSUME NEW d \in Daemons, PidWrite(d) PROVE IInv'
  <2>1. /\ DOMAIN pc' = Processes /\ pc[d] = "opened" /\ pc'[d] = "init"
        /\ \A e \in Daemons : e # d => pc'[e] = pc[e]
    BY <1>s, <1>2 DEF PidWrite, Step, Procs, Processes
  <2>2. CASE UNCHANGED file
    BY <2>1, <2>2, Quiet DEF Started
  <2>3. CASE file' = PidOf[d] \o SubSeq(file, Len(PidOf[d]) + 1, Len(file))
    <3>1. file = <<>> /\ PidOf[d] \in Seq(0 .. 9)
      BY <1>s, <2>1, CamAppAssumption DEF Truncated
    <3>2. file' = PidOf[d]
      <4>1. Len(PidOf[d]) \in Nat /\ Len(file) = 0
        BY <3>1
      <4>2. SubSeq(file, Len(PidOf[d]) + 1, Len(file)) = <<>>
        BY <3>1, <4>1
      <4> QED
        BY <2>3, <3>1, <4>2, ConcatEmptySeq
    <3>3. \A e \in Daemons : pc'[e] # "opened"
      BY <1>s, <2>1 DEF OneWriter
    <3> QED
      BY <2>1, <3>2, <3>3 DEF IInv, Procs, OneWriter, Truncated, PidFileWhole, Started
  <2> QED
    BY <1>2, <2>2, <2>3 DEF PidWrite
<1>3. ASSUME NEW d \in Daemons,
             OpenFails(d) \/ StartManager(d) \/ InstallHandlers(d) \/ ExecEnds(d)
      PROVE  IInv'
  <2>1. \/ Step(d, "start", "init") \/ Step(d, "init", "ended") \/ Step(d, "init", "exec")
        \/ Step(d, "exec", "ended")
    BY <1>3 DEF OpenFails, StartManager, InstallHandlers, ExecEnds
  <2>2. UNCHANGED file
    BY <1>3 DEF OpenFails, StartManager, InstallHandlers, ExecEnds
  <2> QED
    BY <1>s, <2>1, <2>2, Quiet DEF Step, Procs, Processes, Started
<1>4. ASSUME NEW d \in Daemons, Poll(d) PROVE IInv'
  BY <1>s, <1>4, Quiet DEF Poll, Procs, Started
<1>5. ASSUME NEW t \in Tools, NEW signal \in {"TERM", "USR1"}, Kill(t, signal) PROVE IInv'
  <2>1. DOMAIN pc' = Processes /\ \A d \in Daemons : pc'[d] \in {pc[d], "ended", "killed"}
    BY <1>5 DEF Kill, Processes
  <2> QED
    BY <1>5, <2>1, Quiet DEF Kill, Started
<1>8. ASSUME NEW t \in Tools, TwncmOpenRead(t) \/ PidRead(t) PROVE IInv'
  <2>1. /\ DOMAIN pc' = Processes /\ UNCHANGED file
        /\ \A d \in Daemons : pc'[d] \in {pc[d], "reading", "read"}
    <3>1. Step(t, "start", "reading") \/ Step(t, "start", "read") \/ Step(t, "reading", "read")
      BY <1>8 DEF TwncmOpenRead, PidRead
    <3>2. UNCHANGED file
      BY <1>8 DEF TwncmOpenRead, PidRead
    <3> QED
      BY <1>s, <3>1, <3>2 DEF Step, Procs, Processes
  <2> QED
    BY <2>1, Quiet DEF Started
<1>6. ASSUME NEW w \in Entries, Appear(w) PROVE IInv'
  BY <1>s, <1>6, Quiet DEF Appear, Procs, Started
<1>7. CASE UNCHANGED vars
  BY <1>s, <1>7, Quiet DEF vars, Procs, Started
<1> QED
  BY <1>1, <1>2, <1>3, <1>4, <1>5, <1>6, <1>7, <1>8 DEF Next, Daemon

(* PidFileWhole: daemons that open and write one after the other never leave the
   pid file of twncm_fnctl.cpp a mixture of two pids, whatever fails, however long
   the pids and whatever the tools do to the daemons meanwhile. *)
THEOREM NeverMixed ==
  ASSUME Ordered
  PROVE  Spec => []PidFileWhole
<1>1. Init => IInv
  BY InitIInv
<1>2. IInv /\ [Next]_vars => IInv'
  BY StepIInv
<1>3. IInv => PidFileWhole
  BY DEF IInv
<1> QED
  BY <1>1, <1>2, <1>3, PTL DEF Spec
-----------------------------------------------------------------------------
(* Who is about to write or read has a file. *)
Opened == \A p \in Processes : pc[p] \in {"opened", "reading"} => file \in Seq(0 .. 9)

(* What a daemon writes over is still a sequence of digits. *)
LEMMA OverWritten ==
  ASSUME NEW old \in Seq(0 .. 9), NEW new \in Seq(0 .. 9)
  PROVE  new \o SubSeq(old, Len(new) + 1, Len(old)) \in Seq(0 .. 9)
<1> DEFINE rest == SubSeq(old, Len(new) + 1, Len(old))
<1>1. Len(new) \in Nat /\ Len(old) \in Nat
  OBVIOUS
<1>2. CASE Len(new) + 1 <= Len(old)
  <2>1. rest \in Seq(0 .. 9)
    BY <1>1, <1>2, SubSeqProperties
  <2> QED
    BY <2>1, ConcatProperties
<1>3. CASE Len(new) + 1 > Len(old)
  <2>1. rest = <<>>
    BY <1>1, <1>3
  <2> QED
    BY <2>1, ConcatEmptySeq
<1> QED
  BY <1>1, <1>2, <1>3

(* chrootThis() moves the working directory before the root, and both to the
   same place. *)
LEMMA ChrootThisType ==
  ASSUME root \in [Daemons -> Nat], cwd \in [Daemons -> Nat],
         NEW d \in Daemons, ChrootThis(d)
  PROVE  /\ root' \in [Daemons -> Nat] /\ cwd' \in [Daemons -> Nat]
         /\ InsideRoot => InsideRoot'
BY DEF ChrootThis, rootVars, InsideRoot

LEMMA StepTypeOK == TypeOK /\ Opened /\ [Next]_vars => TypeOK' /\ Opened'
<1> SUFFICES ASSUME TypeOK, Opened, [Next]_vars PROVE TypeOK' /\ Opened'
  OBVIOUS
<1>1. ASSUME NEW d \in Daemons, OpenWrite(d) \/ OpenFails(d) PROVE TypeOK' /\ Opened'
  <2>1. <<>> \in Seq(0 .. 9)
    OBVIOUS
  <2> QED
    BY <1>1, <2>1 DEF OpenWrite, OpenFails, Step, TypeOK, Opened, Processes, initVars,
          rootVars, toolVars
<1>2. ASSUME NEW d \in Daemons, PidWrite(d) PROVE TypeOK' /\ Opened'
  <2>1. file \in Seq(0 .. 9) /\ PidOf[d] \in Seq(0 .. 9)
    BY <1>2, CamAppAssumption DEF PidWrite, Step, Opened, Processes
  <2>2. file' \in Seq(0 .. 9)
    BY <1>2, <2>1, OverWritten DEF PidWrite
  <2> QED
    BY <1>2, <2>2 DEF PidWrite, Step, TypeOK, Opened, Processes, initVars,
          rootVars, toolVars
<1>3. ASSUME NEW d \in Daemons, Poll(d) PROVE TypeOK' /\ Opened'
  <2>1. Attempts \in Nat \ {0} /\ Len(Waits) \in Nat
    BY CamAppAssumption
  <2>2. /\ wait[d] \in 1 .. Len(Waits)
        /\ tries[d] \in 0 .. Attempts - 1
    BY <1>3, <2>1 DEF Poll, TypeOK
  <2>3. wait' \in [Daemons -> 1 .. Len(Waits) + 1]
    <3>1. wait' \in {wait, [wait EXCEPT ![d] = @ + 1]}
      BY <1>3 DEF Poll
    <3>2. wait[d] + 1 \in 1 .. Len(Waits) + 1
      BY <2>1, <2>2
    <3> QED
      BY <3>1, <3>2 DEF TypeOK
  <2>4. tries' \in [Daemons -> 0 .. Attempts - 1]
    <3>1. \/ tries' = [tries EXCEPT ![d] = 0]
          \/ tries' = [tries EXCEPT ![d] = @ + 1] /\ tries[d] + 1 # Attempts
      BY <1>3 DEF Poll
    <3>2. 0 \in 0 .. Attempts - 1 /\ (tries[d] + 1 # Attempts => tries[d] + 1 \in 0 .. Attempts - 1)
      BY <2>1, <2>2
    <3> QED
      BY <3>1, <3>2 DEF TypeOK
  <2> QED
    BY <1>3, <2>3, <2>4 DEF Poll, TypeOK, Opened, rootVars, toolVars
<1>4. ASSUME NEW d \in Daemons, StartManager(d) \/ InstallHandlers(d) \/ ExecEnds(d)
      PROVE  TypeOK' /\ Opened'
  BY <1>4 DEF StartManager, InstallHandlers, ExecEnds, Step, TypeOK, Opened, Processes, initVars,
          rootVars, toolVars
<1>5. ASSUME NEW t \in Tools, NEW signal \in {"TERM", "USR1"}, Kill(t, signal)
      PROVE  TypeOK' /\ Opened'
  <2>1. PICK target \in Aimed(got[t]) :
          /\ sent' = [sent EXCEPT ![t] = <<signal, target>>]
          /\ Deliver(signal, target)
    BY <1>5 DEF Kill
  <2>2. target \in Daemons \union {Stranger}
    BY DEF Aimed
  <2>3. /\ pc' \in [Processes -> {"start", "opened", "init", "exec", "killed", "ended",
                                  "reading", "read"}]
        /\ \A p \in Processes : pc'[p] \in {pc[p], "ended", "killed"}
    BY <1>5 DEF Kill, TypeOK, Processes
  <2>4. sent' \in [Tools -> {<<>>} \union ({"TERM", "USR1"} \X (Daemons \union {Stranger}))]
    <3>1. <<signal, target>> \in {"TERM", "USR1"} \X (Daemons \union {Stranger})
      BY <2>2
    <3> QED
      BY <2>1, <3>1 DEF TypeOK
  <2>5. root' \in [Daemons -> Nat] /\ cwd' \in [Daemons -> Nat]
    <3>1. UNCHANGED rootVars \/ (target \in Daemons /\ ChrootThis(target))
      BY <2>1 DEF Deliver
    <3> QED
      BY <3>1, ChrootThisType DEF TypeOK, rootVars
  <2> QED
    BY <1>5, <2>3, <2>4, <2>5 DEF Kill, initVars, TypeOK, Opened
<1>8. ASSUME NEW t \in Tools, TwncmOpenRead(t) \/ PidRead(t) PROVE TypeOK' /\ Opened'
  <2>1. CASE TwncmOpenRead(t)
    BY <2>1 DEF TwncmOpenRead, Step, TypeOK, Opened, Processes, initVars, rootVars, toolVars
  <2>2. CASE PidRead(t)
    <3>1. file \in Seq(0 .. 9)
      BY <2>2 DEF PidRead, Step, Opened, Processes
    <3>2. got' \in [Tools -> Seq(0 .. 9)]
      BY <2>2, <3>1 DEF PidRead, TypeOK
    <3> QED
      BY <2>2, <3>2 DEF PidRead, Step, TypeOK, Opened, Processes, initVars, rootVars
  <2> QED
    BY <1>8, <2>1, <2>2
<1>6. ASSUME NEW w \in Entries, Appear(w) PROVE TypeOK' /\ Opened'
  BY <1>6 DEF Appear, TypeOK, Opened, rootVars, toolVars
<1>7. ASSUME UNCHANGED vars PROVE TypeOK' /\ Opened'
  BY <1>7 DEF vars, initVars, rootVars, toolVars, TypeOK, Opened
<1> QED
  BY <1>1, <1>2, <1>3, <1>4, <1>5, <1>6, <1>7, <1>8 DEF Next, Daemon

LEMMA InitTypeOK == Init => TypeOK /\ Opened
<1>1. Len(Waits) \in Nat /\ Attempts \in Nat \ {0} /\ <<>> \in Seq(0 .. 9)
  BY CamAppAssumption
<1> QED
  BY <1>1 DEF Init, TypeOK, Opened, Processes

(* For any number of daemons and tools, in any order, the variables keep their
   types: the file is missing or digits, the loops of init() stay within their
   bounds. *)
THEOREM TypeCorrect == Spec => []TypeOK
BY InitTypeOK, StepTypeOK, PTL DEF Spec

(* InsideRoot: whatever calls of chrootThis() fail, for any number of daemons
   and of tools that send SIGUSR1, no daemon's working directory is left outside
   its root: it is moved first, and a root is only moved to where it is. *)
THEOREM WorkInsideRoot == Spec => []InsideRoot
<1>1. Init => TypeOK /\ InsideRoot
  <2>1. Init => InsideRoot
    BY DEF Init, InsideRoot
  <2> QED
    BY <2>1, InitTypeOK
<1>2. (TypeOK /\ InsideRoot) /\ [Next]_vars => InsideRoot'
  <2> SUFFICES ASSUME TypeOK, InsideRoot, [Next]_vars PROVE InsideRoot'
    OBVIOUS
  <2>1. CASE UNCHANGED rootVars
    BY <2>1 DEF InsideRoot, rootVars
  <2>2. ASSUME NEW t \in Tools, NEW signal \in {"TERM", "USR1"}, Kill(t, signal)
        PROVE  InsideRoot'
    <3>1. PICK target \in Aimed(got[t]) : Deliver(signal, target)
      BY <2>2 DEF Kill
    <3>2. UNCHANGED rootVars \/ (target \in Daemons /\ ChrootThis(target))
      BY <3>1 DEF Deliver
    <3> QED
      BY <2>1, <3>2, ChrootThisType DEF TypeOK
  <2>3. (\E d \in Daemons : Daemon(d) \/ ExecEnds(d)) => UNCHANGED rootVars
    BY DEF Daemon, ExecEnds, OpenWrite, OpenFails, PidWrite, Poll, StartManager, InstallHandlers
  <2> QED
    BY <2>1, <2>2, <2>3 DEF Next, TwncmOpenRead, PidRead, Appear, vars
<1> QED
  BY <1>1, <1>2, TypeCorrect, PTL DEF Spec
=============================================================================
