------------------------------ MODULE Supervisor ------------------------------
(***************************************************************************)
(* scripts/run_frozen_tests_supervised.py with the main of                 *)
(* _run_frozen_tests_supervised_impl.py: the supervisor runs its own       *)
(* tests, has one child execute the whole floor against one actor, takes   *)
(* the child's authenticated list of executed tests from the last line of  *)
(* its output, and then replays that list instead of running each test.    *)
(* Test names, MACs and output are abstract: of the output only the state  *)
(* of its last line counts.                                                *)
(***************************************************************************)
EXTENDS Naturals, Sequences, FiniteSets, SequencesExt

CONSTANTS NModules,    \* modules of the floor, in the order of their names
          NTests,      \* test methods a module may select
          MaxSuite,    \* bound of the model: cases of one module's suite
          MaxRecord    \* identities a line within the diagnostic tail holds

ASSUME SupervisorAssumption ==
  /\ NModules \in Nat \ {0} /\ NTests \in Nat \ {0}
  /\ MaxSuite \in Nat /\ MaxRecord \in Nat

Modules == 1 .. NModules
SelfTestId == <<0, 0>>                  \* the tests of the supervisor itself
Identities == Modules \X (1 .. NTests)
(* What loadTestsFromModule may return: nothing, or a case twice, too.     *)
Suites(m) == UNION { [1 .. n -> {m} \X (1 .. NTests)] : n \in 0 .. MaxSuite }

VARIABLES
  ppc, outcome, timedOut,  \* the supervisor, its label, its wait gave up
  todo, armed, replay,     \* tests left; _AUTHENTICATED_SUITE_REPLAY
  workers,                 \* identities that a worker of their own ran
  cpc, module, rc,         \* the child, the module it loads or runs
  identities, queue,       \* as enumerated; the cases still to run
  testsRun, passed, bad,   \* TestResult: count, successes, anything else
  fatal, actor,            \* the bridge and its actor
  stray, line              \* a descendant; the last line of the output

mainVars == <<ppc, outcome, timedOut>>
replayVars == <<todo, armed, replay, workers>>
resultVars == <<testsRun, passed, bad>>
actorVars == <<fatal, actor>>
outVars == <<stray, line>>
childVars == <<cpc, module, rc, identities, queue, resultVars, actorVars>>
vars == <<mainVars, replayVars, childVars, outVars>>

Init ==
  /\ ppc = "selftest" /\ outcome = "none" /\ timedOut = FALSE
  /\ todo = <<SelfTestId>> /\ armed = FALSE /\ replay = <<>> /\ workers = {}
  /\ cpc = "none" /\ module = 0 /\ rc = "none"
  /\ identities = <<>> /\ queue = <<>>
  /\ testsRun = 0 /\ passed = {} /\ bad = FALSE
  /\ fatal = FALSE /\ actor = "none"
  /\ stray = "none" /\ line = "none"

-----------------------------------------------------------------------------
(* main and _deterministic_expected_tests.                                 *)
Goto(pc) == ppc' = pc /\ UNCHANGED <<outcome, timedOut>>
Finish(label) == ppc' = "done" /\ outcome' = label /\ UNCHANGED timedOut

(* run_one: with no replay armed the test gets a worker of its own.        *)
RunWorker ==
  /\ ppc \in {"selftest", "replay"} /\ todo # <<>> /\ ~armed
  /\ workers' = workers \union {Head(todo)}
  /\ \/ todo' = Tail(todo) /\ UNCHANGED mainVars
     \/ Finish("FAIL") /\ UNCHANGED todo
  /\ UNCHANGED <<armed, replay, childVars, outVars>>

RunReplayShort ==                          \* mutant: disarms one too early
  /\ ppc = "replay" /\ todo # <<>> /\ armed
  /\ IF replay # <<>> /\ Head(replay) = Head(todo)
     THEN /\ replay' = Tail(replay) /\ todo' = Tail(todo)
          /\ armed' = (Len(replay) > 2) /\ UNCHANGED mainVars
     ELSE Finish("FAIL") /\ UNCHANGED <<todo, armed, replay>>
  /\ UNCHANGED <<workers, childVars, outVars>>

(* run_one: the head of the replay is the test, and the last one disarms.  *)
RunReplay ==
  /\ ppc = "replay" /\ todo # <<>> /\ armed
  /\ IF replay # <<>> /\ Head(replay) = Head(todo)
     THEN /\ replay' = Tail(replay) /\ todo' = Tail(todo)
          /\ armed' = (Tail(replay) # <<>>) /\ UNCHANGED mainVars
     ELSE Finish("FAIL") /\ UNCHANGED <<todo, armed, replay>>
  /\ UNCHANGED <<workers, childVars, outVars>>

ReplayDone ==
  /\ ppc = "replay" /\ todo = <<>> /\ Finish("PASS")
  /\ UNCHANGED <<replayVars, childVars, outVars>>

(* A replay that is armed already is refused; Popen or the write of the    *)
(* key may fail.                                                           *)
Launch ==
  /\ ppc = "selftest" /\ todo = <<>>
  /\ \/ ~armed /\ Goto("wait") /\ cpc' = "start"
     \/ Finish("FAIL") /\ UNCHANGED cpc
  /\ UNCHANGED <<replayVars, module, rc, identities, queue, resultVars,
                 actorVars, outVars>>

Wait ==
  /\ ppc = "wait" /\ cpc = "dead" /\ Goto("kill")
  /\ UNCHANGED <<replayVars, childVars, outVars>>

SuiteTimeoutLate ==                        \* mutant: waits without a timeout
  /\ ppc = "wait" /\ cpc = "dead" /\ timedOut' = TRUE /\ ppc' = "kill"
  /\ UNCHANGED <<outcome, replayVars, childVars, outVars>>

(* TimeoutExpired: allowed at any moment, however the child races with it. *)
SuiteTimeout ==
  /\ ppc = "wait" /\ timedOut' = TRUE /\ ppc' = "kill" /\ UNCHANGED outcome
  /\ UNCHANGED <<replayVars, childVars, outVars>>

(* The child and its actor end; the bridge's lifeline dies with the child. *)
ChildGone(code) ==
  /\ cpc' = "dead" /\ rc' = code
  /\ actor' = IF actor = "live" THEN "torn" ELSE actor
  /\ UNCHANGED <<module, identities, queue, resultVars, fatal>>

(* _kill_group kills and reaps, or raises on the way (killpg refused).     *)
KillGroup ==
  /\ ppc = "kill"
  /\ \/ /\ Goto("collect")
        /\ stray' = IF stray = "group" THEN "none" ELSE stray
        /\ IF cpc = "dead" THEN UNCHANGED childVars ELSE ChildGone("killed")
     \/ Finish("FAIL") /\ UNCHANGED <<stray, childVars>>
  /\ UNCHANGED <<replayVars, line>>

CollectUnjoined ==                     \* mutant: nothing waits for the reader
  /\ ppc = "collect" /\ Goto("check")
  /\ UNCHANGED <<replayVars, childVars, outVars>>

(* The reader of the output ends when nobody can write any more.  join may *)
(* give up before; but then stdout.close() waits for the lock that the     *)
(* reader holds for as long as a read is not filled.                       *)
Collect ==
  /\ ppc = "collect" /\ stray = "none"
  /\ \/ Goto("check")
     \/ Finish("FAIL")
  /\ UNCHANGED <<replayVars, childVars, outVars>>

(* A writer that survives may fill a read and let close in between two:    *)
(* the reader is seen alive, or fails at the closed stream.                *)
CollectCut ==
  /\ ppc = "collect" /\ stray # "none" /\ Finish("FAIL")
  /\ UNCHANGED <<replayVars, childVars, outVars>>

Accepted == /\ ~timedOut /\ rc = "ok" /\ line = "record"
            /\ identities # <<>> /\ IsInjective(identities)
            /\ \A i \in DOMAIN identities : identities[i] \in Identities

Check ==
  /\ ppc = "check"
  /\ IF Accepted
     THEN Goto("replay") /\ todo' = identities /\ replay' = identities
          /\ armed' = TRUE
     ELSE Finish("FAIL") /\ UNCHANGED <<todo, replay, armed>>
  /\ UNCHANGED <<workers, childVars, outVars>>

-----------------------------------------------------------------------------
(* The child: _serial_suite_child and _serial_suite_worker.                *)
ChildAt(pc) == cpc = pc /\ UNCHANGED <<mainVars, replayVars>>
ChildGoto(pc) == cpc' = pc /\ UNCHANGED rc
(* An exception in the worker: the finally closes the bridge, and fails.   *)
ChildRaise == cpc' = "unwind" /\ UNCHANGED rc

(* Key, module floor and bridge.                                           *)
ChildStart ==
  /\ ChildAt("start") /\ UNCHANGED outVars
  /\ \/ /\ ChildGoto("load") /\ actor' = "live" /\ module' = 1
        /\ UNCHANGED <<identities, queue, resultVars, fatal>>
     \/ ChildGone("failed")

(* A request may fail, and always does without the actor.                  *)
UseActor == fatal' \in {fatal, fatal \/ actor # "live", TRUE}

(* One module is executed and its cases are flattened; both may raise, and *)
(* top-level code may call the actor.                                      *)
ChildLoad ==
  /\ ChildAt("load") /\ module <= NModules
  /\ \/ \E s \in Suites(module) :
          IF s # <<>> /\ IsInjective(s)
          THEN /\ identities' = identities \o s /\ queue' = queue \o s
               /\ module' = module + 1 /\ ChildGoto("load")
          ELSE ChildRaise /\ UNCHANGED <<identities, queue, module>>
     \/ ChildRaise /\ UNCHANGED <<identities, queue, module>>
  /\ UseActor
  /\ UNCHANGED <<resultVars, actor, outVars>>

ChildLoaded ==
  /\ ChildAt("load") /\ module > NModules /\ ChildGoto("run")
  /\ UNCHANGED <<module, identities, queue, resultVars, actorVars, outVars>>

(* One case: it may use the actor, fail a request and hide that, leave a   *)
(* descendant, or end in success, in anything else, or in an exception     *)
(* that leaves suite.run.                                                  *)
ChildTest ==
  /\ ChildAt("run") /\ queue # <<>>
  /\ LET t == Head(queue) IN
     /\ UseActor
     /\ stray' \in {stray, "group", "detached"}
     /\ \/ /\ passed' = passed \union {t} /\ testsRun' = testsRun + 1
           /\ queue' = Tail(queue) /\ ChildGoto("run") /\ UNCHANGED bad
        \/ /\ bad' = TRUE /\ testsRun' = testsRun + 1
           /\ queue' = Tail(queue) /\ ChildGoto("run") /\ UNCHANGED passed
        \/ ChildRaise /\ UNCHANGED <<queue, resultVars>>
  /\ UNCHANGED <<module, identities, actor, line>>

(* setUpClass or setUpModule fails: an error, and some cases never run.    *)
ChildFixture ==
  /\ ChildAt("run") /\ bad' = TRUE
  /\ \E k \in 1 .. Len(queue) :
        /\ \A i \in 1 .. k : queue[i][1] = queue[1][1]
        /\ queue' = SubSeq(queue, k + 1, Len(queue))
  /\ UNCHANGED <<cpc, rc, module, identities, testsRun, passed, actorVars,
                 outVars>>

ChildJudgeCount ==                         \* mutant: only counts the tests
  /\ ChildAt("run") /\ queue = <<>>
  /\ IF ~fatal /\ testsRun = Len(identities)
     THEN ChildGoto("close") ELSE ChildRaise
  /\ UNCHANGED <<module, identities, queue, resultVars, actorVars, outVars>>

ChildJudge ==
  /\ ChildAt("run") /\ queue = <<>>
  /\ IF ~fatal /\ testsRun = Len(identities) /\ ~bad
     THEN ChildGoto("close") ELSE ChildRaise
  /\ UNCHANGED <<module, identities, queue, resultVars, actorVars, outVars>>

(* bridge.close fails when the actor failed (see Bridge.tla).              *)
ChildClose ==
  /\ ChildAt("close")
  /\ \/ actor = "live" /\ actor' = "closed" /\ ChildGoto("print")
     \/ ChildRaise /\ UNCHANGED actor
  /\ UNCHANGED <<module, identities, queue, resultVars, fatal,
                 outVars>>

(* The record is the last line only if the tail can hold it and no output  *)
(* without a newline precedes it.                                          *)
ChildPrint ==
  /\ ChildAt("print") /\ ChildGoto("exit")
  /\ line' = IF Len(identities) <= MaxRecord /\ line # "open"
             THEN "record" ELSE "other"
  /\ UNCHANGED <<module, identities, queue, resultVars, actorVars, stray>>

ChildExit ==
  /\ ChildAt("exit") /\ UNCHANGED outVars
  /\ \/ ChildGone("ok")
     \/ ChildGone("failed")

ChildUnwind ==
  /\ ChildAt("unwind") /\ ChildGone("failed") /\ UNCHANGED outVars

(* A crash, or the actor's lifetime ends (ACTOR_SECONDS) and every later   *)
(* request and the close fail.                                             *)
ChildCrash ==
  /\ cpc \notin {"none", "dead"} /\ ChildGone("failed")
  /\ UNCHANGED <<mainVars, replayVars, outVars>>

ActorExpires ==
  /\ actor = "live" /\ actor' = "torn"
  /\ UNCHANGED <<mainVars, replayVars, cpc, module, rc, identities, queue,
                 resultVars, fatal, outVars>>

(* Tests (while they run), their threads and descendants print lines, with *)
(* or without a newline.                                                   *)
Noise ==
  /\ stray # "none" \/ cpc \in {"load", "run", "exit"}
  /\ line' \in {"other", "open"}
  /\ UNCHANGED <<mainVars, replayVars, childVars, stray>>

StrayEnds ==
  /\ stray # "none" /\ stray' = "none"
  /\ UNCHANGED <<mainVars, replayVars, childVars, line>>

-----------------------------------------------------------------------------
SupervisorStep == \/ RunWorker \/ RunReplay \/ ReplayDone \/ Launch \/ Wait
                  \/ KillGroup \/ Collect \/ Check
ChildStep == \/ ChildStart \/ ChildLoad \/ ChildLoaded \/ ChildTest
             \/ ChildFixture \/ ChildJudge \/ ChildClose \/ ChildPrint
             \/ ChildExit \/ ChildUnwind
OtherStep == \/ SuiteTimeout \/ CollectCut \/ ChildCrash \/ ActorExpires
             \/ Noise \/ StrayEnds

(* A supervisor that is done stays so.                                     *)
Finished == ppc = "done" /\ UNCHANGED vars

Next == SupervisorStep \/ ChildStep \/ OtherStep \/ Finished

Spec == Init /\ [][Next]_vars
(* The supervisor is scheduled and its clock reaches the timeout; nothing  *)
(* is assumed of the tests.                                                *)
FairSpec == Spec /\ WF_vars(SupervisorStep) /\ WF_vars(SuiteTimeout)

-----------------------------------------------------------------------------
(* Types of the variables (the sequences hold identities only).            *)
TypeOK ==
  /\ ppc \in {"selftest", "wait", "kill", "collect", "check", "replay", "done"}
  /\ outcome \in {"none", "PASS", "FAIL"} /\ timedOut \in BOOLEAN
  /\ todo \in Seq(Identities \union {SelfTestId}) /\ armed \in BOOLEAN
  /\ replay \in Seq(Identities)
  /\ workers \subseteq Identities \union {SelfTestId}
  /\ cpc \in {"none", "start", "load", "run", "close", "print", "exit",
              "unwind", "dead"}
  /\ module \in 0 .. NModules + 1 /\ rc \in {"none", "ok", "failed", "killed"}
  /\ identities \in Seq(Identities) /\ queue \in Seq(Identities)
  /\ testsRun \in 0 .. Len(identities) /\ passed \subseteq Identities
  /\ bad \in BOOLEAN /\ fatal \in BOOLEAN
  /\ actor \in {"none", "live", "torn", "closed"}
  /\ stray \in {"none", "group", "detached"}
  /\ line \in {"none", "other", "open", "record"}

(* PASS, whatever crashes, times out or writes into the output: every case *)
(* that the modules selected was run and succeeded, the modules selected   *)
(* at least one each, no failed request was hidden, and the actor had been *)
(* closed in good order before the list was printed (final:399-412).       *)
PassMeansExecuted ==
  outcome = "PASS" =>
    /\ ToSet(identities) = passed /\ ~bad /\ ~fatal /\ actor = "closed"
    /\ \A m \in Modules : \E i \in DOMAIN identities : identities[i][1] = m

(* The list that main iterates over and the list that run_one consumes     *)
(* stay in step to the end, so that no test of the floor is run a second   *)
(* time by a worker of its own (final:510-526).                            *)
ReplayExact ==
  /\ ppc = "replay" => replay = todo /\ armed = (todo # <<>>)
  /\ workers \subseteq {SelfTestId}

(* The output is judged only when nobody can change it any more: the child *)
(* and every descendant that could write are gone (impl:318-325).          *)
OutputFinal == ppc \in {"check", "replay"} => cpc = "dead" /\ stray = "none"

(* Whatever the tests do, the supervisor ends (impl:311-325) unless a      *)
(* descendant that left the child's group holds the output for ever.       *)
SupervisorEnds == <>(ppc = "done") \/ <>[](stray = "detached")

(* The claim of impl:292 that the run is bounded and reaped "on every exit *)
(* path" (and of impl:326 that a surviving writer is reported).            *)
EveryExitBounded == <>(ppc = "done")
=============================================================================
