------------------------------- MODULE CamApp -------------------------------
(***************************************************************************)
(* The processes of twincam: main() of src/twincam.cpp, with the pid file  *)
(* of src/twncm_fnctl.cpp.                                                 *)
(*                                                                         *)
(* A daemon (twincam -d) writes its pid while it parses its arguments,     *)
(* then CamApp::init() waits for the devices of a booting machine, then    *)
(* the signal handlers are installed and CamApp::exec() captures.  A tool  *)
(* (twincam -k or -n) opens the file, reads it and signals what it makes   *)
(* of it; a daemon with its handlers answers -n by moving its root.        *)
(***************************************************************************)
EXTENDS Integers, SequencesExt

CONSTANTS
  Daemons, Tools,
  PidOf,      \* the pid of each daemon, as the digits written to the file:
              \* a short pid can be written over part of a long one
  Waits,      \* what init() waits for, in order: sysfs, device nodes, cameras
  Attempts,   \* how often init() looks for each (400 in the code)
  Ordered,    \* TRUE: no daemon opens the file while another writes it
  Faults,     \* failures admitted: "manager", "pidfile", "chroot"
  Missing,    \* there is no pid file
  Stranger    \* some pid that is no daemon's, or one with a special meaning

Entries == {Waits[k] : k \in DOMAIN Waits}

ASSUME CamAppAssumption ==
  /\ Waits \in Seq(Entries)
  /\ Attempts \in Nat \ {0}
  /\ PidOf \in [Daemons -> Seq(0 .. 9) \ {<<>>}]
  /\ \A d, e \in Daemons : PidOf[d] # Missing /\ (PidOf[d] = PidOf[e] => d = e)
  /\ Daemons \intersect Tools = {}
  /\ Ordered \in BOOLEAN

VARIABLES
  pc,         \* the step each process is at
  file,       \* the content of the pid file, or Missing
  wait,       \* the index in Waits each daemon is at
  tries,      \* how often it looked for that
  present,    \* the members of Waits that exist by now
  root,       \* how many new roots deep each daemon's root directory is
  cwd,        \* and its working directory
  got,        \* [tool -> the digits read() put at the front of its buffer]
  sent        \* history: [tool -> <<signal, pid>>], or <<>> before kill()

initVars == <<wait, tries, present>>
rootVars == <<root, cwd>>
toolVars == <<got, sent>>
vars == <<pc, file, initVars, rootVars, toolVars>>

Processes == Daemons \union Tools

Init ==
  /\ pc = [p \in Processes |-> "start"]
  /\ file = Missing
  /\ wait = [d \in Daemons |-> 1]
  /\ tries = [d \in Daemons |-> 0]
  /\ present \in SUBSET Entries
  /\ root = [d \in Daemons |-> 0]
  /\ cwd = [d \in Daemons |-> 0]
  /\ got = [t \in Tools |-> <<>>]
  /\ sent = [t \in Tools |-> <<>>]

Step(p, from, to) == pc[p] = from /\ pc' = [pc EXCEPT ![p] = to]

Started(p) == pc[p] # "start"
Idle == \A d \in Daemons : pc[d] # "opened"
-----------------------------------------------------------------------------
(* Mutant of OpenWrite: O_TRUNC is forgotten. *)
OpenWriteKeeps(d) ==
  /\ Step(d, "start", "opened")
  /\ Ordered => Idle
  /\ file' = IF file = Missing THEN <<>> ELSE file
  /\ UNCHANGED <<initVars, rootVars, toolVars>>

(* processArgs(), case 'd': twncm_open_write() truncates the file ... *)
OpenWrite(d) ==
  /\ Step(d, "start", "opened")
  /\ Ordered => Idle
  /\ file' = <<>>
  /\ UNCHANGED <<initVars, rootVars, toolVars>>

(* ... and pid_write() writes at offset 0, over what another daemon may have
   written since; its failure is only reported. *)
PidWrite(d) ==
  /\ Step(d, "opened", "init")
  /\ \/ file' = PidOf[d] \o SubSeq(file, Len(PidOf[d]) + 1, Len(file))
     \/ "pidfile" \in Faults /\ UNCHANGED file
  /\ UNCHANGED <<initVars, rootVars, toolVars>>

(* The file cannot be opened: the daemon goes on without it. *)
OpenFails(d) ==
  /\ "pidfile" \in Faults
  /\ Step(d, "start", "init")
  /\ UNCHANGED <<file, initVars, rootVars, toolVars>>

(* Mutant of Poll: the loop has no end. *)
PollForever(d) ==
  /\ pc[d] = "init"
  /\ wait[d] <= Len(Waits)
  /\ IF Waits[wait[d]] \in present
     THEN /\ wait' = [wait EXCEPT ![d] = @ + 1]
          /\ tries' = [tries EXCEPT ![d] = 0]
     ELSE UNCHANGED <<wait, tries>>
  /\ UNCHANGED <<pc, file, present, rootVars, toolVars>>

(* One turn of a loop of init(): when the last look fails, init() says so
   and goes on with the next loop all the same. *)
Poll(d) ==
  /\ pc[d] = "init"
  /\ wait[d] <= Len(Waits)
  /\ IF Waits[wait[d]] \in present \/ tries[d] + 1 = Attempts
     THEN /\ wait' = [wait EXCEPT ![d] = @ + 1]
          /\ tries' = [tries EXCEPT ![d] = 0]
     ELSE /\ tries' = [tries EXCEPT ![d] = @ + 1]
          /\ UNCHANGED wait
  /\ UNCHANGED <<pc, file, present, rootVars, toolVars>>

(* CameraManager::start(), before the last loop, is the only failure that
   ends init(); main() returns. *)
StartManager(d) ==
  /\ "manager" \in Faults
  /\ wait[d] = Len(Waits)
  /\ tries[d] = 0
  /\ Step(d, "init", "ended")
  /\ UNCHANGED <<file, initVars, rootVars, toolVars>>

(* The calls of sigaction(), then exec(): run() ends at once when there is
   no camera, and otherwise when it is interrupted. *)
InstallHandlers(d) ==
  /\ wait[d] > Len(Waits)
  /\ Step(d, "init", "exec")
  /\ UNCHANGED <<file, initVars, rootVars, toolVars>>

ExecEnds(d) ==
  /\ Step(d, "exec", "ended")
  /\ UNCHANGED <<file, initVars, rootVars, toolVars>>
-----------------------------------------------------------------------------
(* Mutant of ChrootThis: chroot("/sysroot") without entering it first. *)
ChrootThisUnentered(d) ==
  \/ "chroot" \in Faults /\ UNCHANGED rootVars
  \/ "chroot" \in Faults /\ root' = [root EXCEPT ![d] = @ + 1] /\ UNCHANGED cwd
  \/ root' = [root EXCEPT ![d] = @ + 1] /\ cwd' = [cwd EXCEPT ![d] = root'[d]]

(* chrootThis(): chdir("/sysroot"), chroot("."), chdir("/"), each of which
   may fail and end the handler.  The last one changes nothing any more. *)
ChrootThis(d) ==
  \/ "chroot" \in Faults /\ UNCHANGED rootVars
  \/ "chroot" \in Faults /\ cwd' = [cwd EXCEPT ![d] = root[d] + 1] /\ UNCHANGED root
  \/ root' = [root EXCEPT ![d] = @ + 1] /\ cwd' = [cwd EXCEPT ![d] = root'[d]]

(* What a signal does to a daemon: SIGTERM has no handler; SIGUSR1 has one
   once main() has installed it. *)
HasHandler(signal, p) == signal = "USR1" /\ pc[p] = "exec"

Survives(signal, p) ==
  pc[p] \in {"start", "ended", "killed"} \/ HasHandler(signal, p)

Deliver(signal, d) ==
  IF d \in Daemons /\ HasHandler(signal, d) THEN ChrootThis(d) ELSE UNCHANGED rootVars

(* twncm_open_read(): a file that cannot be opened is reported, and -1 is
   read from. *)
TwncmOpenRead(t) ==
  /\ \/ file # Missing /\ Step(t, "start", "reading")
     \/ (file = Missing \/ "pidfile" \in Faults) /\ Step(t, "start", "read")
  /\ UNCHANGED <<file, initVars, rootVars, toolVars>>

(* pid_read(): what the file holds by now, or nothing. *)
PidRead(t) ==
  /\ Step(t, "reading", "read")
  /\ \/ got' = [got EXCEPT ![t] = file]
     \/ "pidfile" \in Faults /\ UNCHANGED got
  /\ UNCHANGED <<file, initVars, rootVars, sent>>

(* The pids atoi() may make of a buffer that begins with these digits: it
   is neither initialised nor terminated, so that more digits may follow. *)
Aimed(digits) ==
  {d \in Daemons : IsPrefix(digits, PidOf[d])} \union {Stranger}

(* processArgs(), cases 'k' and 'n', end with kill(). *)
Kill(t, signal) ==
  /\ pc[t] = "read"
  /\ \E target \in Aimed(got[t]) :
       /\ sent' = [sent EXCEPT ![t] = <<signal, target>>]
       /\ Deliver(signal, target)
       /\ pc' = [p \in Processes |->
                   CASE p = t -> "ended"
                     [] p = target /\ ~Survives(signal, p) -> "killed"
                     [] OTHER -> pc[p]]
  /\ UNCHANGED <<file, initVars, got>>

(* The kernel and udev bring up the devices in their own time. *)
Appear(w) ==
  /\ w \notin present
  /\ present' = present \union {w}
  /\ UNCHANGED <<pc, file, wait, tries, rootVars, toolVars>>
-----------------------------------------------------------------------------
Daemon(d) ==
  OpenWrite(d) \/ OpenFails(d) \/ PidWrite(d) \/ Poll(d) \/ StartManager(d)
    \/ InstallHandlers(d)

Next ==
  \/ \E d \in Daemons : Daemon(d) \/ ExecEnds(d)
  \/ \E t \in Tools : TwncmOpenRead(t) \/ PidRead(t)
  \/ \E t \in Tools, signal \in {"TERM", "USR1"} : Kill(t, signal)
  \/ \E w \in Entries : Appear(w)

Spec == Init /\ [][Next]_vars

(* A process that has started runs; no device need ever appear, no tool run
   and no capture end. *)
Fairness == \A d \in Daemons : WF_vars(Started(d) /\ Daemon(d))

FairSpec == Spec /\ Fairness
-----------------------------------------------------------------------------
(* Every variable holds a value of its kind. *)
TypeOK ==
  /\ pc \in [Processes -> {"start", "opened", "init", "exec", "killed", "ended",
                           "reading", "read"}]
  /\ file \in {Missing} \union Seq(0 .. 9)
  /\ wait \in [Daemons -> 1 .. Len(Waits) + 1]
  /\ tries \in [Daemons -> 0 .. Attempts - 1]
  /\ present \subseteq Entries
  /\ root \in [Daemons -> Nat]
  /\ cwd \in [Daemons -> Nat]
  /\ got \in [Tools -> Seq(0 .. 9)]
  /\ sent \in [Tools -> {<<>>} \union ({"TERM", "USR1"} \X (Daemons \union {Stranger}))]

(* When no daemon opens the file while another writes it, the pid file is never a mixture of
   two pids: it is missing, empty once a daemon is past open(), or the pid of a
   daemon that has started, however long the pid it replaces was. *)
PidFileWhole ==
  \/ file = Missing
  \/ file = <<>> /\ \E d \in Daemons : Started(d)
  \/ \E d \in Daemons : Started(d) /\ file = PidOf[d]

(* However slow or absent the devices, init() comes to an end. *)
InitEnds ==
  \A d \in Daemons : pc[d] = "init" ~> pc[d] \in {"exec", "killed", "ended"}

(* The help at twincam.cpp:555-556: -k and -n signal the pid of the pid
   file, which is that of a daemon. *)
SignalsPidfilePid ==
  \A t \in Tools :
    sent[t] # <<>> => \E d \in Daemons : sent[t][2] = d /\ Started(d)

(* The help at twincam.cpp:558: -n makes the daemon whose pid is in the file
   chroot; it does not end it, when that pid is what the tool read. *)
NewRootKeepsDaemon ==
  [][\A t \in Tools, d \in Daemons :
       /\ sent[t] = <<>> /\ sent'[t] = <<"USR1", d>>
       /\ got[t] = PidOf[d] /\ pc[d] # "killed"
       => pc'[d] # "killed"]_vars

(* Whatever step of chrootThis() fails, and however often it runs, a daemon's
   working directory is never left outside its root directory, from where
   relative paths would reach what chroot() was to hide. *)
InsideRoot == \A d \in Daemons : cwd[d] >= root[d]
=============================================================================
