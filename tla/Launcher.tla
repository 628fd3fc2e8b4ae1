------------------------------- MODULE Launcher -------------------------------
(***************************************************************************)
(* scripts/run_proposed_isolated.py: the root launcher that runs one       *)
(* command in a namespace of its own and tears it down.  In actor mode the *)
(* worker holds its lifeline (a FIFO) and talks to the command directly;   *)
(* in the two suite modes a thread of the launcher drains the command's    *)
(* output, which is printed at the end.  The launcher may be nested in the *)
(* bounded scope of another one and then has no scope of its own.          *)
(***************************************************************************)
EXTENDS Naturals

CONSTANTS OutputBytes,   \* OUTPUT_BYTES, in chunks
          PipeCapacity,  \* chunks the output pipe holds
          MaxOutput      \* bound of the model: chunks the command writes

ASSUME LauncherAssumption ==
  OutputBytes \in Nat /\ PipeCapacity \in Nat \ {0} /\ MaxOutput \in Nat

Modes == {"actor", "direct", "supervised"}

VARIABLES
  mode, nested,               \* invocation; _bounded_parent_scope()
  lpc, code, label,           \* the launcher, its result, "suite=PASS"
  home, late,                 \* its scratch directory; past the deadline
  interrupted, lifeline, grace,
  proc, prc, killed, tree,    \* the namespace command, its exit, SIGKILL
                              \* due; the processes inside the namespace
  pipe, emitted, dpc, retained, overflow, printed  \* the output

resultVars == <<code, label>>
signalVars == <<interrupted, lifeline, late>>
procVars == <<proc, prc, killed, tree>>
drainVars == <<pipe, dpc, retained, overflow>>
outputVars == <<drainVars, emitted, printed>>
vars == <<mode, nested, lpc, resultVars, home, signalVars, grace, procVars,
          outputVars>>

Suite == mode # "actor"
Gone == lpc = "gone"
Polling == {"poll", "signals", "output", "grace", "life", "lifeline"}
Cleaning == {"scope", "stop", "reap", "join2", "clean", "marker", "exit"}

Init ==
  /\ mode \in Modes /\ nested \in BOOLEAN
  /\ lpc = "setup" /\ code = "none" /\ label = FALSE
  /\ home = FALSE /\ late = FALSE /\ interrupted = FALSE
  /\ lifeline = "open" /\ grace = FALSE
  /\ proc = "none" /\ prc = "none" /\ killed = FALSE /\ tree = "none"
  /\ pipe = 0 /\ emitted = 0 /\ dpc = "none"
  /\ retained = 0 /\ overflow = FALSE /\ printed = 0

-----------------------------------------------------------------------------
(* The end of the launcher, orderly or not: the kernel delivers the        *)
(* parent-death signal to a command that has asked for it by now.          *)
Orphan == /\ killed' = (killed \/ proc = "armed")
          /\ proc' = IF proc = "unarmed" /\ ~killed THEN "adrift" ELSE proc
          /\ UNCHANGED <<prc, tree>>
Leave(r) == lpc' = "gone" /\ code' = r /\ Orphan

LauncherAt(pc) ==
  lpc = pc /\ UNCHANGED <<mode, nested, signalVars, drainVars, emitted>>
Goto(pc) == lpc' = pc /\ UNCHANGED code
(* A return or an exception inside the try: the finally comes next.        *)
Return(r) == lpc' = "scope" /\ code' = r
(* An exception inside the finally skips the rest of it.                   *)
Raise == lpc' = "exit" /\ code' = "raised"

-----------------------------------------------------------------------------
(* The checks of the invocation, then mkdtemp.                             *)
Setup ==
  /\ LauncherAt("setup")
  /\ \/ Goto("handlers") /\ home' = TRUE /\ UNCHANGED procVars
     \/ Leave("raised") /\ UNCHANGED home
  /\ UNCHANGED <<label, grace, printed>>

InstallHandlers ==
  /\ LauncherAt("handlers") /\ Goto("spawn")
  /\ UNCHANGED <<label, home, grace, procVars, printed>>

(* Popen (or what comes before it in the try) may raise.  Nothing keeps    *)
(* the launcher from ending before the command has set PDEATHSIG.          *)
Spawn ==
  /\ lpc = "spawn"
  /\ \/ /\ Goto("poll") /\ proc' = "unarmed"
        /\ dpc' = IF Suite THEN "read" ELSE "none"
     \/ Return("raised") /\ UNCHANGED <<proc, dpc>>
  /\ UNCHANGED <<mode, nested, label, home, signalVars, grace, prc, killed,
                 tree, pipe, retained, overflow, emitted, printed>>

(* while process.poll() is None: one check after the other.                *)
Poll(pc) == LauncherAt(pc)
            /\ UNCHANGED <<label, home, procVars, printed>>

PollExit ==
  /\ Poll("poll") /\ UNCHANGED grace
  /\ IF proc # "dead" THEN Goto("signals")
     ELSE IF Suite THEN Goto("join") ELSE Return("own")

PollSignals ==
  /\ Poll("signals") /\ UNCHANGED grace
  /\ IF interrupted THEN Return("signal") ELSE Goto("output")

PollOutput ==
  /\ Poll("output") /\ UNCHANGED grace
  /\ IF overflow THEN Return("output") ELSE Goto("grace")

PollGraceUngranted ==                      \* mutant: no lifeline needed
  /\ Poll("grace") /\ UNCHANGED grace
  /\ Return("forced") \/ Goto("life")

(* The grace period of a closed lifeline may be over.                      *)
PollGrace ==
  /\ Poll("grace") /\ UNCHANGED grace
  /\ (grace /\ Return("forced")) \/ Goto("life")

PollLifeUnbounded ==                       \* mutant: no lifetime
  Poll("life") /\ UNCHANGED grace /\ Goto("lifeline")

PollLife ==
  /\ Poll("life") /\ UNCHANGED grace
  /\ IF late THEN Return("lifetime") ELSE Goto("lifeline")

(* selector.select: the end of the FIFO starts the grace period, a byte on *)
(* it is an error.                                                         *)
PollLifeline ==
  /\ Poll("lifeline")
  /\ \/ /\ Goto("poll")
        /\ grace' = (grace \/ (mode = "actor" /\ lifeline = "eof"))
     \/ /\ mode = "actor" /\ ~grace /\ lifeline = "data"
        /\ Return("raised") /\ UNCHANGED grace

JoinUnchecked ==                           \* mutant: the reader may be alive
  /\ LauncherAt("join") /\ Goto("print")
  /\ UNCHANGED <<label, home, grace, procVars, printed>>

(* reader.join(timeout=3), and the check that the reader has ended.        *)
Join ==
  /\ LauncherAt("join")
  /\ IF dpc = "done" THEN Goto("print") ELSE Return("raised")
  /\ UNCHANGED <<label, home, grace, procVars, printed>>

PrintOutput ==
  /\ LauncherAt("print") /\ Goto("judge")
  /\ printed' = retained
  /\ UNCHANGED <<label, home, grace, procVars>>

Judge ==
  /\ LauncherAt("judge")
  /\ IF overflow THEN Return("output") /\ UNCHANGED label
                 ELSE Return("own") /\ label' = (prc = "ok")
  /\ UNCHANGED <<home, grace, procVars, printed>>

-----------------------------------------------------------------------------
(* finally: stop_scope kills whatever is in the launcher's own scope (one  *)
(* that systemd-run has not registered yet is not found); any of its three *)
(* commands may run into its timeout.                                      *)
Cleanup(pc) == LauncherAt(pc) /\ UNCHANGED <<label, grace, printed>>

StopScope ==
  /\ Cleanup("scope")
  /\ Goto("stop") \/ Raise
  /\ \/ UNCHANGED <<killed, tree>>
     \/ /\ ~nested /\ proc \in {"unarmed", "armed"} /\ killed' = TRUE
        /\ tree' = IF tree = "alive" THEN "doomed" ELSE tree
  /\ UNCHANGED <<home, proc, prc>>

(* stop: SIGTERM and SIGKILL to the command's group unless it was reaped.  *)
Stop ==
  /\ Cleanup("stop")
  /\ IF proc \in {"unarmed", "armed"}
       THEN killed' = TRUE /\ Goto("reap")
       ELSE Goto("join2") /\ UNCHANGED killed
  /\ UNCHANGED <<home, proc, prc, tree>>

(* Its waits; the last TimeoutExpired is swallowed.                        *)
Reap == Cleanup("reap") /\ Goto("join2") /\ UNCHANGED <<home, procVars>>

JoinReader == Cleanup("join2") /\ Goto("clean") /\ UNCHANGED <<home, procVars>>

CleanIgnoringErrors ==                     \* mutant: ignore_errors=True
  /\ Cleanup("clean")
  /\ Goto("marker") /\ home' \in BOOLEAN
  /\ UNCHANGED procVars

(* shutil.rmtree(home, ignore_errors=False)                                *)
Clean ==
  /\ Cleanup("clean")
  /\ \/ Goto("marker") /\ home' = FALSE
     \/ Raise /\ UNCHANGED home
  /\ UNCHANGED procVars

(* The scan for marked processes of a supervised suite.                    *)
CheckMarker ==
  /\ Cleanup("marker")
  /\ \/ Goto("exit")
     \/ mode = "supervised" /\ tree \in {"alive", "doomed"} /\ Raise
  /\ UNCHANGED <<home, procVars>>

Exit == Cleanup("exit") /\ Leave(code) /\ UNCHANGED home

-----------------------------------------------------------------------------
(* Signals before the handlers are there kill the launcher.                *)
Interrupt ==
  /\ ~Gone /\ ~interrupted /\ interrupted' = TRUE
  /\ IF lpc \in {"setup", "handlers"}
       THEN Leave("killed") ELSE UNCHANGED <<lpc, code, procVars>>
  /\ UNCHANGED <<mode, nested, label, home, lifeline, late, grace, outputVars>>

KilledUnnoticed ==                         \* mutant: no parent-death signal
  /\ ~Gone /\ lpc' = "gone" /\ code' = "killed"
  /\ UNCHANGED <<mode, nested, label, home, signalVars, grace, procVars,
                 outputVars>>

(* SIGKILL, for instance when the surrounding scope is torn down.          *)
Killed ==
  /\ ~Gone /\ Leave("killed")
  /\ UNCHANGED <<mode, nested, label, home, signalVars, grace, outputVars>>

(* The worker closes its lifeline; it never writes to it, but may.         *)
Lifeline ==
  /\ mode = "actor" /\ lifeline = "open" /\ lifeline' \in {"eof", "data"}
  /\ UNCHANGED <<mode, nested, lpc, resultVars, home, interrupted, late, grace,
                 procVars, outputVars>>

Clock ==
  /\ ~late /\ late' = TRUE
  /\ UNCHANGED <<mode, nested, lpc, resultVars, home, interrupted, lifeline,
                 grace, procVars, outputVars>>

-----------------------------------------------------------------------------
(* The namespace.  With its init all of its processes end.                 *)
ProcAt == UNCHANGED <<mode, nested, lpc, resultVars, home, signalVars, grace,
                      outputVars>>

ProcArm ==
  /\ ProcAt /\ proc = "unarmed"
  /\ proc' = "armed" /\ tree' = "alive"
  /\ UNCHANGED <<prc, killed>>

ProcEnds ==
  /\ ProcAt
  /\ \/ /\ proc = "armed" /\ tree = "alive"
        /\ tree' = "dead" /\ prc' \in {"ok", "bad"}
     \/ proc = "unarmed" /\ prc' = "bad" /\ UNCHANGED tree
  /\ proc' = "dead"
  /\ UNCHANGED killed

(* unshare --kill-child passes a kill of the command on to the init.       *)
ProcDies ==
  /\ ProcAt /\ killed /\ proc \in {"unarmed", "armed"}
  /\ proc' = "dead" /\ prc' = "bad"
  /\ tree' = IF tree = "alive" THEN "doomed" ELSE tree
  /\ UNCHANGED killed

TreeDies ==
  /\ ProcAt /\ tree = "doomed"
  /\ tree' = "dead"
  /\ UNCHANGED <<proc, prc, killed>>

Emit ==
  /\ dpc # "none" /\ tree \in {"alive", "doomed"}
  /\ pipe < PipeCapacity /\ emitted < MaxOutput
  /\ pipe' = pipe + 1 /\ emitted' = emitted + 1
  /\ UNCHANGED <<mode, nested, lpc, resultVars, home, signalVars, grace,
                 procVars, dpc, retained, overflow, printed>>

-----------------------------------------------------------------------------
(* bounded_drain                                                           *)
DrainAt == /\ ~Gone /\ dpc = "read"
           /\ UNCHANGED <<mode, nested, lpc, resultVars, home, signalVars,
                          grace, procVars, emitted, printed>>

Drain ==
  /\ DrainAt /\ pipe > 0 /\ pipe' = pipe - 1
  /\ overflow' = (overflow \/ retained + 1 > OutputBytes)
  /\ retained' = IF overflow' THEN retained ELSE retained + 1
  /\ UNCHANGED dpc

DrainEof ==
  /\ DrainAt /\ pipe = 0 /\ proc = "dead" /\ tree \in {"none", "dead"}
  /\ dpc' = "done"
  /\ UNCHANGED <<pipe, retained, overflow>>

-----------------------------------------------------------------------------
LauncherStep ==
  \/ Setup \/ InstallHandlers \/ Spawn
  \/ PollExit \/ PollSignals \/ PollOutput \/ PollGrace \/ PollLife
  \/ PollLifeline \/ Join \/ PrintOutput \/ Judge
  \/ StopScope \/ Stop \/ Reap \/ JoinReader \/ Clean \/ CheckMarker \/ Exit

DrainStep == Drain \/ DrainEof
Kernel == ProcDies \/ TreeDies

Terminated == Gone /\ UNCHANGED vars

Next == \/ LauncherStep \/ DrainStep \/ Kernel \/ Clock
        \/ ProcArm \/ ProcEnds \/ Emit \/ Interrupt \/ Killed \/ Lifeline
        \/ Terminated

Spec == Init /\ [][Next]_vars

(* The launcher is scheduled, time passes and SIGKILL is delivered; the    *)
(* command, the worker and the drain thread owe nothing.                   *)
FairSpec == /\ Spec
            /\ WF_vars(LauncherStep) /\ WF_vars(Clock) /\ WF_vars(Kernel)

-----------------------------------------------------------------------------
(* The variables have their types.                                         *)
TypeOK ==
  /\ mode \in Modes /\ nested \in BOOLEAN
  /\ lpc \in Polling \cup Cleaning
               \cup {"setup", "handlers", "spawn", "join", "print", "judge",
                     "gone"}
  /\ code \in {"none", "own", "forced", "signal", "output", "lifetime",
               "raised", "killed"}
  /\ label \in BOOLEAN /\ home \in BOOLEAN /\ late \in BOOLEAN
  /\ interrupted \in BOOLEAN /\ grace \in BOOLEAN
  /\ lifeline \in {"open", "eof", "data"}
  /\ proc \in {"none", "unarmed", "armed", "adrift", "dead"}
  /\ prc \in {"none", "ok", "bad"} /\ killed \in BOOLEAN
  /\ tree \in {"none", "alive", "doomed", "dead"}
  /\ pipe \in 0 .. PipeCapacity /\ emitted \in 0 .. MaxOutput
  /\ dpc \in {"none", "read", "done"}
  /\ retained \in 0 .. OutputBytes /\ printed \in 0 .. OutputBytes
  /\ overflow \in BOOLEAN

(* Exit status 0.                                                          *)
Zero == Gone /\ (code = "forced" \/ (code = "own" /\ prc = "ok"))

(* A suite that passes, by its label or by the exit status, ended by       *)
(* itself with nothing left of its namespace, and all it wrote was within  *)
(* the budget and has been printed.                                        *)
SuitePassIsComplete ==
  label \/ (Suite /\ Zero)
    => prc = "ok" /\ tree = "dead" /\ ~overflow /\ printed = emitted

(* Exit status 0 is earned: the command reported it, or the worker gave up *)
(* its lifeline and the command is dead or has its SIGKILL due.            *)
ZeroIsEarned ==
  Zero => \/ code = "own" /\ proc = "dead"
          \/ /\ mode = "actor" /\ lifeline = "eof"
             /\ proc = "dead" \/ killed

(* A launcher that ends without an exception of its own and is not killed  *)
(* leaves neither its scratch directory behind nor a command that nothing  *)
(* will kill.                                                              *)
OrderlyExit ==
  Gone /\ code \notin {"raised", "killed"}
    => ~home /\ proc # "adrift" /\ (tree = "alive" => killed)

(* The launcher ends, whatever the command, the worker and the drain       *)
(* thread do.                                                              *)
LauncherEnds == <>Gone

(* The namespace ends after its launcher, even a killed one, unless the    *)
(* launcher was gone before the command had asked for the signal.          *)
NamespaceDies ==
  Gone ~> (proc = "adrift"
             \/ (proc \in {"none", "dead"} /\ tree \in {"none", "dead"}))
=============================================================================
