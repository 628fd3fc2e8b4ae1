---------------------------- MODULE LauncherProofs ----------------------------
(***************************************************************************)
(* Machine-checked proofs about Launcher, for any budget of the output and *)
(* any capacity of its pipe: a suite that passes is complete, exit status  *)
(* 0 is earned and an orderly end leaves nothing behind.                   *)
(***************************************************************************)
EXTENDS Launcher, TLAPS

Starting == {"setup", "handlers", "spawn"}
Running == {"unarmed", "armed"}
Broken == {"raised", "killed"}

(* The command and the processes in its namespace.                         *)
NamespaceInv ==
  /\ proc \in {"none", "unarmed", "adrift"} => tree = "none"
  /\ proc = "armed" => tree = "alive" \/ (killed /\ tree # "none")
  /\ proc = "dead" => tree # "alive" /\ (prc = "ok" => tree = "dead")
  /\ proc # "dead" => prc = "none"
  /\ proc = "none" => ~killed

(* The output on its way: nothing is lost short of an overflow, and a      *)
(* drain that has ended has seen the last writer go.                       *)
OutputInv ==
  /\ ~overflow => emitted = pipe + retained
  /\ dpc # "none" => Suite
  /\ dpc = "done" => pipe = 0 /\ proc = "dead" /\ tree \in {"none", "dead"}

(* The drain thread is joined and all it retained has been printed.        *)
Printed == dpc = "done" /\ printed = retained

(* The result and what it stands for.                                      *)
ResultInv ==
  /\ grace => mode = "actor" /\ lifeline = "eof"
  /\ lpc \in Starting => proc = "none"
  /\ lpc \in Polling => proc # "none"
  /\ lpc \in {"join", "print", "judge"} => Suite /\ proc = "dead"
  /\ lpc \in {"print", "judge"} => dpc = "done"
  /\ lpc = "judge" => Printed
  /\ label => prc = "ok" /\ tree = "dead" /\ ~overflow /\ Printed
  /\ code = "own" => proc = "dead" /\ (Suite => ~overflow /\ Printed)
  /\ code = "forced" => grace /\ proc # "none"

(* How far the finally is, unless an exception has cut it short.           *)
CleanupInv ==
  /\ lpc \in Starting \cup Polling \cup {"join", "print", "judge"} =>
       code = "none"
  /\ lpc \in {"reap", "join2", "clean", "marker"} =>
       (proc \in Running => killed)
  /\ lpc = "exit" => code = "raised" \/ (proc \in Running => killed)
  /\ lpc = "marker" => ~home
  /\ lpc \in {"exit", "gone"} => code \in Broken \/ ~home
  /\ Gone => (proc \in Running => killed)
  /\ proc = "adrift" => Gone /\ code \in Broken

LaunchInv ==
  TypeOK /\ NamespaceInv /\ OutputInv /\ ResultInv /\ CleanupInv

(* Next, by where its steps happen.                                        *)
TryStep == Setup \/ InstallHandlers \/ Spawn \/ Join \/ PrintOutput \/ Judge
PollStep == \/ PollExit \/ PollSignals \/ PollOutput
            \/ PollGrace \/ PollLife \/ PollLifeline
FinallyStep == \/ StopScope \/ Stop \/ Reap \/ JoinReader
               \/ Clean \/ CheckMarker \/ Exit
OutsideStep == Interrupt \/ Killed \/ Lifeline \/ Clock
NamespaceStep == ProcArm \/ ProcEnds \/ ProcDies \/ TreeDies \/ Emit

USE LauncherAssumption DEF Suite, Gone, Modes, Polling, Cleaning, Starting,
    Running, Broken, Printed, resultVars, signalVars, procVars, drainVars,
    outputVars, LauncherAt, Goto, Return, Raise, Leave, Orphan

(* The initial states satisfy the invariant.                               *)
LEMMA LaunchInit == Init => LaunchInv
  <1> SUFFICES ASSUME Init PROVE LaunchInv
    OBVIOUS
  <1>1. TypeOK
    <2>1. /\ pipe \in 0 .. PipeCapacity /\ emitted \in 0 .. MaxOutput
          /\ retained \in 0 .. OutputBytes /\ printed \in 0 .. OutputBytes
      BY DEF Init
    <2> QED
      BY <2>1 DEF Init, TypeOK
  <1>2. NamespaceInv /\ OutputInv
    BY DEF Init, NamespaceInv, OutputInv
  <1>3. ResultInv /\ CleanupInv
    BY DEF Init, ResultInv, CleanupInv
  <1> QED
    BY <1>1, <1>2, <1>3 DEF LaunchInv

(* The steps of the launcher up to the end of its try keep the invariant.  *)
LEMMA LauncherKeeps == LaunchInv /\ TryStep => LaunchInv'
  <1> SUFFICES ASSUME LaunchInv, TryStep PROVE LaunchInv'
    OBVIOUS
  <1> USE DEF LaunchInv
  <1>1. CASE Setup
    <2>1. TypeOK'
      <3>1. /\ lpc' \in {"handlers", "gone"}
            /\ UNCHANGED <<mode, nested, label, signalVars, grace, prc, tree,
                           outputVars>>
        BY <1>1 DEF Setup
      <3>2. /\ code' \in {code, "raised"}
            /\ proc' \in {proc, "adrift"} /\ home' \in {home, TRUE}
        BY <1>1 DEF Setup
      <3>3. /\ code' \in {"none", "own", "forced", "signal", "output",
                          "lifetime", "raised", "killed"}
            /\ proc' \in {"none", "unarmed", "armed", "adrift", "dead"}
        BY <3>2 DEF TypeOK
      <3>4. killed' \in BOOLEAN /\ home' \in BOOLEAN
        BY <1>1, <3>2 DEF Setup, TypeOK
      <3> QED
        BY <3>1, <3>3, <3>4 DEF TypeOK
    <2>2. NamespaceInv'
      BY <1>1 DEF Setup, NamespaceInv, TypeOK
    <2>3. OutputInv'
      BY <1>1 DEF Setup, OutputInv
    <2>4. ResultInv'
      BY <1>1 DEF Setup, ResultInv
    <2>5. CleanupInv'
      BY <1>1 DEF Setup, CleanupInv
    <2> QED
      BY <2>1, <2>2, <2>3, <2>4, <2>5
  <1>2. CASE InstallHandlers
    <2>1. TypeOK'
      BY <1>2 DEF InstallHandlers, TypeOK
    <2>2. NamespaceInv'
      BY <1>2 DEF InstallHandlers, NamespaceInv
    <2>3. OutputInv'
      BY <1>2 DEF InstallHandlers, OutputInv
    <2>4. ResultInv'
      BY <1>2 DEF InstallHandlers, ResultInv
    <2>5. CleanupInv'
      BY <1>2 DEF InstallHandlers, CleanupInv
    <2> QED
      BY <2>1, <2>2, <2>3, <2>4, <2>5
  <1>3. CASE Spawn
    <2>1. TypeOK'
      BY <1>3 DEF Spawn, TypeOK
    <2>2. NamespaceInv'
      BY <1>3 DEF Spawn, NamespaceInv, ResultInv
    <2>3. OutputInv'
      BY <1>3 DEF Spawn, OutputInv
    <2>4. ResultInv'
      BY <1>3 DEF Spawn, ResultInv, NamespaceInv
    <2>5. CleanupInv'
      BY <1>3 DEF Spawn, CleanupInv
    <2> QED
      BY <2>1, <2>2, <2>3, <2>4, <2>5
  <1>4. CASE Join
    <2>1. TypeOK'
      BY <1>4 DEF Join, TypeOK
    <2>2. NamespaceInv'
      BY <1>4 DEF Join, NamespaceInv
    <2>3. OutputInv'
      BY <1>4 DEF Join, OutputInv
    <2>4. ResultInv'
      BY <1>4 DEF Join, ResultInv
    <2>5. CleanupInv'
      BY <1>4 DEF Join, CleanupInv
    <2> QED
      BY <2>1, <2>2, <2>3, <2>4, <2>5
  <1>5. CASE PrintOutput
    <2>1. TypeOK'
      BY <1>5 DEF PrintOutput, TypeOK
    <2>2. NamespaceInv'
      BY <1>5 DEF PrintOutput, NamespaceInv
    <2>3. OutputInv'
      BY <1>5 DEF PrintOutput, OutputInv
    <2>4. ResultInv'
      BY <1>5 DEF PrintOutput, ResultInv
    <2>5. CleanupInv'
      BY <1>5 DEF PrintOutput, CleanupInv
    <2> QED
      BY <2>1, <2>2, <2>3, <2>4, <2>5
  <1>6. CASE Judge
    <2>1. TypeOK'
      <3>1. label' \in BOOLEAN
        BY <1>6 DEF Judge, TypeOK
      <3> QED
        BY <1>6, <3>1 DEF Judge, TypeOK
    <2>2. NamespaceInv'
      BY <1>6 DEF Judge, NamespaceInv
    <2>3. OutputInv'
      BY <1>6 DEF Judge, OutputInv
    <2>4. ResultInv'
      BY <1>6 DEF Judge, ResultInv, NamespaceInv
    <2>5. CleanupInv'
      BY <1>6 DEF Judge, CleanupInv
    <2> QED
      BY <2>1, <2>2, <2>3, <2>4, <2>5
  <1> QED
    BY <1>1, <1>2, <1>3, <1>4, <1>5, <1>6 DEF TryStep

(* The checks of the polling loop keep it.                                 *)
LEMMA PollingKeeps == LaunchInv /\ PollStep => LaunchInv'
  <1> SUFFICES ASSUME LaunchInv, PollStep PROVE LaunchInv'
    OBVIOUS
  <1> USE DEF LaunchInv
  <1>1. CASE PollExit
    <2>1. TypeOK'
      BY <1>1 DEF PollExit, Poll, TypeOK
    <2>2. NamespaceInv'
      BY <1>1 DEF PollExit, Poll, NamespaceInv
    <2>3. OutputInv'
      BY <1>1 DEF PollExit, Poll, OutputInv
    <2>4. ResultInv'
      BY <1>1 DEF PollExit, Poll, ResultInv
    <2>5. CleanupInv'
      BY <1>1 DEF PollExit, Poll, CleanupInv
    <2> QED
      BY <2>1, <2>2, <2>3, <2>4, <2>5
  <1>2. CASE PollSignals
    <2>1. TypeOK'
      BY <1>2 DEF PollSignals, Poll, TypeOK
    <2>2. NamespaceInv'
      BY <1>2 DEF PollSignals, Poll, NamespaceInv
    <2>3. OutputInv'
      BY <1>2 DEF PollSignals, Poll, OutputInv
    <2>4. ResultInv'
      BY <1>2 DEF PollSignals, Poll, ResultInv
    <2>5. CleanupInv'
      BY <1>2 DEF PollSignals, Poll, CleanupInv
    <2> QED
      BY <2>1, <2>2, <2>3, <2>4, <2>5
  <1>3. CASE PollOutput
    <2>1. TypeOK'
      BY <1>3 DEF PollOutput, Poll, TypeOK
    <2>2. NamespaceInv'
      BY <1>3 DEF PollOutput, Poll, NamespaceInv
    <2>3. OutputInv'
      BY <1>3 DEF PollOutput, Poll, OutputInv
    <2>4. ResultInv'
      BY <1>3 DEF PollOutput, Poll, ResultInv
    <2>5. CleanupInv'
      BY <1>3 DEF PollOutput, Poll, CleanupInv
    <2> QED
      BY <2>1, <2>2, <2>3, <2>4, <2>5
  <1>4. CASE PollGrace
    <2>1. TypeOK'
      BY <1>4 DEF PollGrace, Poll, TypeOK
    <2>2. NamespaceInv'
      BY <1>4 DEF PollGrace, Poll, NamespaceInv
    <2>3. OutputInv'
      BY <1>4 DEF PollGrace, Poll, OutputInv
    <2>4. ResultInv'
      BY <1>4 DEF PollGrace, Poll, ResultInv
    <2>5. CleanupInv'
      BY <1>4 DEF PollGrace, Poll, CleanupInv
    <2> QED
      BY <2>1, <2>2, <2>3, <2>4, <2>5
  <1>5. CASE PollLife
    <2>1. TypeOK'
      BY <1>5 DEF PollLife, Poll, TypeOK
    <2>2. NamespaceInv'
      BY <1>5 DEF PollLife, Poll, NamespaceInv
    <2>3. OutputInv'
      BY <1>5 DEF PollLife, Poll, OutputInv
    <2>4. ResultInv'
      BY <1>5 DEF PollLife, Poll, ResultInv
    <2>5. CleanupInv'
      BY <1>5 DEF PollLife, Poll, CleanupInv
    <2> QED
      BY <2>1, <2>2, <2>3, <2>4, <2>5
  <1>6. CASE PollLifeline
    <2>1. TypeOK'
      <3>1. grace' \in BOOLEAN
        BY <1>6 DEF PollLifeline, Poll, TypeOK
      <3> QED
        BY <1>6, <3>1 DEF PollLifeline, Poll, TypeOK
    <2>2. NamespaceInv'
      BY <1>6 DEF PollLifeline, Poll, NamespaceInv
    <2>3. OutputInv'
      BY <1>6 DEF PollLifeline, Poll, OutputInv
    <2>4. ResultInv'
      BY <1>6 DEF PollLifeline, Poll, ResultInv, TypeOK
    <2>5. CleanupInv'
      BY <1>6 DEF PollLifeline, Poll, CleanupInv
    <2> QED
      BY <2>1, <2>2, <2>3, <2>4, <2>5
  <1> QED
    BY <1>1, <1>2, <1>3, <1>4, <1>5, <1>6 DEF PollStep

(* The steps of the finally keep it.                                       *)
LEMMA FinallyKeeps == LaunchInv /\ FinallyStep => LaunchInv'
  <1> SUFFICES ASSUME LaunchInv, FinallyStep PROVE LaunchInv'
    OBVIOUS
  <1> USE DEF LaunchInv
  <1>1. CASE StopScope
    <2>1. TypeOK'
      <3>1. killed' \in BOOLEAN
        BY <1>1 DEF StopScope, Cleanup, TypeOK
      <3> QED
        BY <1>1, <3>1 DEF StopScope, Cleanup, TypeOK
    <2>2. NamespaceInv'
      BY <1>1 DEF StopScope, Cleanup, NamespaceInv
    <2>3. OutputInv'
      BY <1>1 DEF StopScope, Cleanup, OutputInv
    <2>4. ResultInv'
      BY <1>1 DEF StopScope, Cleanup, ResultInv
    <2>5. CleanupInv'
      BY <1>1 DEF StopScope, Cleanup, CleanupInv
    <2> QED
      BY <2>1, <2>2, <2>3, <2>4, <2>5
  <1>2. CASE Stop
    <2>1. TypeOK'
      <3>1. killed' \in BOOLEAN
        BY <1>2 DEF Stop, Cleanup, TypeOK
      <3> QED
        BY <1>2, <3>1 DEF Stop, Cleanup, TypeOK
    <2>2. NamespaceInv'
      BY <1>2 DEF Stop, Cleanup, NamespaceInv
    <2>3. OutputInv'
      BY <1>2 DEF Stop, Cleanup, OutputInv
    <2>4. ResultInv'
      BY <1>2 DEF Stop, Cleanup, ResultInv
    <2>5. CleanupInv'
      BY <1>2 DEF Stop, Cleanup, CleanupInv
    <2> QED
      BY <2>1, <2>2, <2>3, <2>4, <2>5
  <1>3. CASE Reap
    <2>1. TypeOK'
      BY <1>3 DEF Reap, Cleanup, TypeOK
    <2>2. NamespaceInv'
      BY <1>3 DEF Reap, Cleanup, NamespaceInv
    <2>3. OutputInv'
      BY <1>3 DEF Reap, Cleanup, OutputInv
    <2>4. ResultInv'
      BY <1>3 DEF Reap, Cleanup, ResultInv
    <2>5. CleanupInv'
      BY <1>3 DEF Reap, Cleanup, CleanupInv
    <2> QED
      BY <2>1, <2>2, <2>3, <2>4, <2>5
  <1>4. CASE JoinReader
    <2>1. TypeOK'
      BY <1>4 DEF JoinReader, Cleanup, TypeOK
    <2>2. NamespaceInv'
      BY <1>4 DEF JoinReader, Cleanup, NamespaceInv
    <2>3. OutputInv'
      BY <1>4 DEF JoinReader, Cleanup, OutputInv
    <2>4. ResultInv'
      BY <1>4 DEF JoinReader, Cleanup, ResultInv
    <2>5. CleanupInv'
      BY <1>4 DEF JoinReader, Cleanup, CleanupInv
    <2> QED
      BY <2>1, <2>2, <2>3, <2>4, <2>5
  <1>5. CASE Clean
    <2>1. TypeOK'
      <3>1. home' \in BOOLEAN
        BY <1>5 DEF Clean, Cleanup, TypeOK
      <3> QED
        BY <1>5, <3>1 DEF Clean, Cleanup, TypeOK
    <2>2. NamespaceInv'
      BY <1>5 DEF Clean, Cleanup, NamespaceInv
    <2>3. OutputInv'
      BY <1>5 DEF Clean, Cleanup, OutputInv
    <2>4. ResultInv'
      BY <1>5 DEF Clean, Cleanup, ResultInv
    <2>5. CleanupInv'
      BY <1>5 DEF Clean, Cleanup, CleanupInv
    <2> QED
      BY <2>1, <2>2, <2>3, <2>4, <2>5
  <1>6. CASE CheckMarker
    <2>1. TypeOK'
      BY <1>6 DEF CheckMarker, Cleanup, TypeOK
    <2>2. NamespaceInv'
      BY <1>6 DEF CheckMarker, Cleanup, NamespaceInv
    <2>3. OutputInv'
      BY <1>6 DEF CheckMarker, Cleanup, OutputInv
    <2>4. ResultInv'
      BY <1>6 DEF CheckMarker, Cleanup, ResultInv
    <2>5. CleanupInv'
      BY <1>6 DEF CheckMarker, Cleanup, CleanupInv
    <2> QED
      BY <2>1, <2>2, <2>3, <2>4, <2>5
  <1>7. CASE Exit
    <2>1. TypeOK'
      BY <1>7 DEF Exit, Cleanup, TypeOK
    <2>2. NamespaceInv'
      BY <1>7 DEF Exit, Cleanup, NamespaceInv
    <2>3. OutputInv'
      BY <1>7 DEF Exit, Cleanup, OutputInv
    <2>4. ResultInv'
      BY <1>7 DEF Exit, Cleanup, ResultInv
    <2>5. CleanupInv'
      BY <1>7 DEF Exit, Cleanup, CleanupInv
    <2> QED
      BY <2>1, <2>2, <2>3, <2>4, <2>5
  <1> QED
    BY <1>1, <1>2, <1>3, <1>4, <1>5, <1>6, <1>7 DEF FinallyStep

(* So do the signals, the worker and the clock.                            *)
LEMMA OutsideKeeps == LaunchInv /\ OutsideStep => LaunchInv'
  <1> SUFFICES ASSUME LaunchInv, OutsideStep PROVE LaunchInv'
    OBVIOUS
  <1> USE DEF LaunchInv
  <1>1. CASE Interrupt
    <2>1. TypeOK'
      BY <1>1 DEF Interrupt, TypeOK, NamespaceInv, OutputInv, ResultInv,
          CleanupInv
    <2>2. NamespaceInv'
      BY <1>1 DEF Interrupt, NamespaceInv
    <2>3. OutputInv'
      BY <1>1 DEF Interrupt, OutputInv
    <2>4. ResultInv'
      BY <1>1 DEF Interrupt, ResultInv
    <2>5. CleanupInv'
      BY <1>1 DEF Interrupt, CleanupInv
    <2> QED
      BY <2>1, <2>2, <2>3, <2>4, <2>5
  <1>2. CASE Killed
    <2>1. TypeOK'
      BY <1>2 DEF Killed, TypeOK
    <2>2. NamespaceInv'
      BY <1>2 DEF Killed, NamespaceInv
    <2>3. OutputInv'
      BY <1>2 DEF Killed, OutputInv
    <2>4. ResultInv'
      BY <1>2 DEF Killed, ResultInv
    <2>5. CleanupInv'
      BY <1>2 DEF Killed, CleanupInv
    <2> QED
      BY <2>1, <2>2, <2>3, <2>4, <2>5
  <1>3. CASE Lifeline
    <2>1. TypeOK'
      BY <1>3 DEF Lifeline, TypeOK
    <2>2. NamespaceInv'
      BY <1>3 DEF Lifeline, NamespaceInv
    <2>3. OutputInv'
      BY <1>3 DEF Lifeline, OutputInv
    <2>4. ResultInv'
      BY <1>3 DEF Lifeline, ResultInv
    <2>5. CleanupInv'
      BY <1>3 DEF Lifeline, CleanupInv
    <2> QED
      BY <2>1, <2>2, <2>3, <2>4, <2>5
  <1>4. CASE Clock
    <2>1. TypeOK'
      BY <1>4 DEF Clock, TypeOK
    <2>2. NamespaceInv'
      BY <1>4 DEF Clock, NamespaceInv
    <2>3. OutputInv'
      BY <1>4 DEF Clock, OutputInv
    <2>4. ResultInv'
      BY <1>4 DEF Clock, ResultInv
    <2>5. CleanupInv'
      BY <1>4 DEF Clock, CleanupInv
    <2> QED
      BY <2>1, <2>2, <2>3, <2>4, <2>5
  <1> QED
    BY <1>1, <1>2, <1>3, <1>4 DEF OutsideStep

(* So does what happens in the namespace.                                  *)
LEMMA NamespaceKeeps == LaunchInv /\ NamespaceStep => LaunchInv'
  <1> SUFFICES ASSUME LaunchInv, NamespaceStep PROVE LaunchInv'
    OBVIOUS
  <1> USE DEF LaunchInv
  <1>1. CASE ProcArm
    <2>1. TypeOK'
      BY <1>1 DEF ProcArm, ProcAt, TypeOK
    <2>2. NamespaceInv'
      BY <1>1 DEF ProcArm, ProcAt, NamespaceInv
    <2>3. OutputInv'
      BY <1>1 DEF ProcArm, ProcAt, OutputInv
    <2>4. ResultInv'
      BY <1>1 DEF ProcArm, ProcAt, ResultInv, NamespaceInv
    <2>5. CleanupInv'
      BY <1>1 DEF ProcArm, ProcAt, CleanupInv
    <2> QED
      BY <2>1, <2>2, <2>3, <2>4, <2>5
  <1>2. CASE ProcEnds
    <2>1. TypeOK'
      BY <1>2 DEF ProcEnds, ProcAt, TypeOK
    <2>2. NamespaceInv'
      BY <1>2 DEF ProcEnds, ProcAt, NamespaceInv
    <2>3. OutputInv'
      BY <1>2 DEF ProcEnds, ProcAt, OutputInv
    <2>4. ResultInv'
      BY <1>2 DEF ProcEnds, ProcAt, ResultInv, NamespaceInv
    <2>5. CleanupInv'
      BY <1>2 DEF ProcEnds, ProcAt, CleanupInv
    <2> QED
      BY <2>1, <2>2, <2>3, <2>4, <2>5
  <1>3. CASE ProcDies
    <2>1. TypeOK'
      BY <1>3 DEF ProcDies, ProcAt, TypeOK
    <2>2. NamespaceInv'
      BY <1>3 DEF ProcDies, ProcAt, NamespaceInv
    <2>3. OutputInv'
      BY <1>3 DEF ProcDies, ProcAt, OutputInv
    <2>4. ResultInv'
      BY <1>3 DEF ProcDies, ProcAt, ResultInv, NamespaceInv
    <2>5. CleanupInv'
      BY <1>3 DEF ProcDies, ProcAt, CleanupInv
    <2> QED
      BY <2>1, <2>2, <2>3, <2>4, <2>5
  <1>4. CASE TreeDies
    <2>1. TypeOK'
      BY <1>4 DEF TreeDies, ProcAt, TypeOK
    <2>2. NamespaceInv'
      BY <1>4 DEF TreeDies, ProcAt, NamespaceInv
    <2>3. OutputInv'
      BY <1>4 DEF TreeDies, ProcAt, OutputInv
    <2>4. ResultInv'
      BY <1>4 DEF TreeDies, ProcAt, ResultInv
    <2>5. CleanupInv'
      BY <1>4 DEF TreeDies, ProcAt, CleanupInv
    <2> QED
      BY <2>1, <2>2, <2>3, <2>4, <2>5
  <1>5. CASE Emit
    <2>1. TypeOK'
      BY <1>5 DEF Emit, TypeOK
    <2>2. NamespaceInv'
      BY <1>5 DEF Emit, NamespaceInv
    <2>3. OutputInv'
      BY <1>5 DEF Emit, OutputInv, TypeOK
    <2>4. ResultInv'
      BY <1>5 DEF Emit, ResultInv
    <2>5. CleanupInv'
      BY <1>5 DEF Emit, CleanupInv
    <2> QED
      BY <2>1, <2>2, <2>3, <2>4, <2>5
  <1> QED
    BY <1>1, <1>2, <1>3, <1>4, <1>5 DEF NamespaceStep

(* So does the drain thread.                                               *)
LEMMA DrainKeeps == LaunchInv /\ DrainStep => LaunchInv'
  <1> SUFFICES ASSUME LaunchInv, DrainStep PROVE LaunchInv'
    OBVIOUS
  <1> USE DEF LaunchInv
  <1>1. CASE Drain
    <2>1. TypeOK'
      <3>1. overflow' \in BOOLEAN
        BY <1>1 DEF Drain, TypeOK
      <3>2. retained' \in 0 .. OutputBytes /\ pipe' \in 0 .. PipeCapacity
        <4>1. CASE overflow'
          BY <1>1, <4>1 DEF Drain, TypeOK
        <4>2. CASE ~overflow'
          <5>1. retained' = retained + 1 /\ ~(retained + 1 > OutputBytes)
            BY <1>1, <4>2 DEF Drain, TypeOK
          <5> QED
            BY <1>1, <5>1 DEF Drain, TypeOK
        <4> QED
          BY <4>1, <4>2
      <3> QED
        BY <1>1, <3>1, <3>2 DEF Drain, DrainAt, TypeOK
    <2>2. NamespaceInv'
      BY <1>1 DEF Drain, DrainAt, NamespaceInv
    <2>3. OutputInv'
      BY <1>1 DEF Drain, DrainAt, OutputInv, TypeOK
    <2>4. ResultInv'
      BY <1>1 DEF Drain, DrainAt, ResultInv
    <2>5. CleanupInv'
      BY <1>1 DEF Drain, DrainAt, CleanupInv
    <2> QED
      BY <2>1, <2>2, <2>3, <2>4, <2>5
  <1>2. CASE DrainEof
    <2>1. TypeOK'
      BY <1>2 DEF DrainEof, DrainAt, TypeOK
    <2>2. NamespaceInv'
      BY <1>2 DEF DrainEof, DrainAt, NamespaceInv
    <2>3. OutputInv'
      BY <1>2 DEF DrainEof, DrainAt, OutputInv
    <2>4. ResultInv'
      BY <1>2 DEF DrainEof, DrainAt, ResultInv
    <2>5. CleanupInv'
      BY <1>2 DEF DrainEof, DrainAt, CleanupInv
    <2> QED
      BY <2>1, <2>2, <2>3, <2>4, <2>5
  <1> QED
    BY <1>1, <1>2 DEF DrainStep

(* Stuttering keeps it.                                                    *)
LEMMA LaunchStutter == LaunchInv /\ UNCHANGED vars => LaunchInv'
  <1> SUFFICES ASSUME LaunchInv, UNCHANGED vars PROVE LaunchInv'
    OBVIOUS
  <1> USE DEF LaunchInv, vars
  <1>1. TypeOK'
    BY DEF TypeOK
  <1>2. NamespaceInv' /\ OutputInv'
    BY DEF NamespaceInv, OutputInv
  <1>3. ResultInv' /\ CleanupInv'
    BY DEF ResultInv, CleanupInv
  <1> QED
    BY <1>1, <1>2, <1>3

(* Every step of the specification keeps the invariant.                    *)
LEMMA LaunchStep == LaunchInv /\ [Next]_vars => LaunchInv'
  <1> SUFFICES ASSUME LaunchInv, [Next]_vars PROVE LaunchInv'
    OBVIOUS
  <1>1. CASE LauncherStep
    <2>1. TryStep \/ PollStep \/ FinallyStep
      BY <1>1 DEF LauncherStep, TryStep, PollStep, FinallyStep
    <2> QED
      BY <2>1, LauncherKeeps, PollingKeeps, FinallyKeeps
  <1>2. CASE DrainStep
    BY <1>2, DrainKeeps
  <1>3. CASE Kernel \/ ProcArm \/ ProcEnds \/ Emit
    <2>1. NamespaceStep
      BY <1>3 DEF Kernel, NamespaceStep
    <2> QED
      BY <2>1, NamespaceKeeps
  <1>4. CASE Clock \/ Interrupt \/ Killed \/ Lifeline
    BY <1>4, OutsideKeeps DEF OutsideStep
  <1>5. CASE UNCHANGED vars
    BY <1>5, LaunchStutter
  <1> QED
    BY <1>1, <1>2, <1>3, <1>4, <1>5 DEF Next, Terminated

(* The inductive invariant holds of every execution.                       *)
THEOREM LaunchInvariant == Spec => []LaunchInv
  BY LaunchInit, LaunchStep, PTL DEF Spec

(* The variables have their types, whatever the budget of the output.      *)
THEOREM LauncherTypes == Spec => []TypeOK
  <1>1. LaunchInv => TypeOK
    BY DEF LaunchInv
  <1> QED
    BY <1>1, LaunchInvariant, PTL

(* A suite that passes ended by itself, nothing is left of its namespace,  *)
(* and its output was within the budget and has all been printed (Judge    *)
(* after Join and PrintOutput).                                            *)
THEOREM SuitePassCorrect == Spec => []SuitePassIsComplete
  <1>1. LaunchInv => SuitePassIsComplete
    <2> SUFFICES ASSUME LaunchInv, label \/ (Suite /\ Zero)
                 PROVE  prc = "ok" /\ tree = "dead" /\ ~overflow
                          /\ printed = emitted
      BY DEF SuitePassIsComplete
    <2>1. prc = "ok" /\ proc = "dead" /\ ~overflow /\ Printed
      BY DEF LaunchInv, ResultInv, NamespaceInv, Zero
    <2>2. tree = "dead"
      BY <2>1 DEF LaunchInv, NamespaceInv
    <2>3. pipe = 0 /\ emitted = pipe + retained /\ retained \in Nat
      BY <2>1 DEF LaunchInv, OutputInv, TypeOK
    <2> QED
      BY <2>1, <2>2, <2>3
  <1> QED
    BY <1>1, LaunchInvariant, PTL

(* Exit status 0 stands for the command's own success, or for a lifeline   *)
(* the worker closed and a command that is dead or about to be.            *)
THEOREM ZeroCorrect == Spec => []ZeroIsEarned
  <1>1. LaunchInv => ZeroIsEarned
    BY DEF LaunchInv, TypeOK, ResultInv, CleanupInv, Zero, ZeroIsEarned
  <1> QED
    BY <1>1, LaunchInvariant, PTL

(* A launcher that was neither killed nor stopped by an exception leaves   *)
(* no scratch directory and no command that nothing will kill.             *)
THEOREM OrderlyCorrect == Spec => []OrderlyExit
  <1>1. LaunchInv => OrderlyExit
    BY DEF LaunchInv, TypeOK, NamespaceInv, CleanupInv, OrderlyExit
  <1> QED
    BY <1>1, LaunchInvariant, PTL

(* A result once chosen stands unless an exception or a kill replaces it:  *)
(* no later step of the finally makes a success of a failure.  The scratch *)
(* directory goes only when nothing that could use it is left to run: the  *)
(* command is dead or its SIGKILL is due (the order of the finally of      *)
(* main).  What is gone does not come back.                                *)
Stands == /\ code # "none" => code' \in {code} \cup Broken
          /\ home /\ ~home' => (proc \in Running => killed)
          /\ Gone => UNCHANGED <<code, label, home>>
ResultStands == [][Stands]_vars

(* The finally neither improves a result nor removes files in use.         *)
THEOREM ResultCorrect == Spec => ResultStands
  <1>1. LaunchInv /\ [Next]_vars => [Stands]_vars
    <2> SUFFICES ASSUME LaunchInv, Next PROVE Stands
      BY DEF vars
    <2>1. /\ lpc \in Starting \cup Polling \cup {"join", "print", "judge"}
               => code = "none"
          /\ lpc = "clean" => (proc \in Running => killed)
      BY DEF LaunchInv, CleanupInv
    <2>2. CASE TryStep
      BY <2>1, <2>2 DEF TryStep, Setup, InstallHandlers, Spawn, Join,
          PrintOutput, Judge, Stands
    <2>3. CASE PollStep
      BY <2>1, <2>3 DEF PollStep, Poll, PollExit, PollSignals, PollOutput,
          PollGrace, PollLife, PollLifeline, Stands
    <2>4. CASE FinallyStep
      BY <2>1, <2>4 DEF FinallyStep, Cleanup, StopScope, Stop, Reap,
          JoinReader, Clean, CheckMarker, Exit, Stands
    <2>5. CASE OutsideStep
      BY <2>5 DEF OutsideStep, Interrupt, Killed, Lifeline, Clock, Stands
    <2>6. CASE NamespaceStep
      BY <2>6 DEF NamespaceStep, ProcAt, ProcArm, ProcEnds, ProcDies,
          TreeDies, Emit, Stands
    <2>7. CASE DrainStep \/ Terminated
      BY <2>7 DEF DrainStep, DrainAt, Drain, DrainEof, Terminated, vars, Stands
    <2> QED
      BY <2>2, <2>3, <2>4, <2>5, <2>6, <2>7
         DEF Next, LauncherStep, TryStep, PollStep, FinallyStep, OutsideStep,
             NamespaceStep, Kernel
  <1> QED
    BY <1>1, LaunchInvariant, PTL DEF Spec, ResultStands
=============================================================================
