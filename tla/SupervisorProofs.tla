--------------------------- MODULE SupervisorProofs ---------------------------
(***************************************************************************)
(* Machine-checked proofs about Supervisor, for any number of modules,     *)
(* tests and cases and any capacity of the output: a PASS stands for a     *)
(* floor that was executed, and the replay keeps in step.                  *)
(***************************************************************************)
EXTENDS Supervisor, TLAPS

(* The modules up to k have contributed a case.                            *)
Covers(k) == \A m \in Modules :
               m < k => \E i \in DOMAIN identities : identities[i][1] = m

(* What the child may print a record of.                                   *)
Good == /\ ToSet(identities) = passed /\ ~bad /\ ~fatal
        /\ Covers(NModules + 1)

(* The two lists of the parent, and when a worker of its own may run.      *)
ReplayInv ==
  /\ ppc \in {"selftest", "wait", "kill", "collect", "check"} => ~armed
  /\ ppc = "selftest" => todo \in {<<>>, <<SelfTestId>>}
  /\ ppc = "replay" => replay = todo /\ armed = (todo # <<>>)
  /\ workers \subseteq {SelfTestId}

(* How far the child is: nothing is run before all is loaded, and what is  *)
(* neither run nor queued was an error.                                    *)
ChildInv ==
  /\ cpc \in {"none", "start"} =>
       /\ identities = <<>> /\ queue = <<>>
       /\ testsRun = 0 /\ passed = {} /\ ~bad
  /\ cpc = "load" =>
       /\ queue = identities /\ testsRun = 0 /\ passed = {} /\ ~bad
       /\ module \in 1 .. NModules + 1 /\ Covers(module)
  /\ cpc = "run" =>
       /\ Covers(NModules + 1) /\ testsRun + Len(queue) <= Len(identities)
       /\ bad \/ ToSet(identities) = passed \union ToSet(queue)
  /\ cpc \in {"close", "print", "exit"} => Good
  /\ cpc \in {"print", "exit"} => actor = "closed"
  /\ rc = "ok" => cpc = "dead" /\ Good /\ actor = "closed"

(* What the parent may rely on at each step.                               *)
ParentInv ==
  /\ ppc = "selftest" => cpc = "none"
  /\ ppc \in {"collect", "check", "replay"} => cpc = "dead"
  /\ ppc \in {"check", "replay"} => stray = "none"
  /\ ppc = "replay" \/ outcome = "PASS" => rc = "ok"
  /\ outcome = "PASS" => ppc = "done"

SupInv == TypeOK /\ ReplayInv /\ ChildInv /\ ParentInv

(* Appending a suite keeps the entries there were and adds its first.      *)
LEMMA Concatenated ==
  ASSUME NEW S, NEW s \in Seq(S), NEW t \in Seq(S)
  PROVE  /\ \A i \in DOMAIN s : i \in DOMAIN (s \o t) /\ (s \o t)[i] = s[i]
         /\ t # <<>> => /\ 1 \in DOMAIN t
                        /\ Len(s) + 1 \in DOMAIN (s \o t)
                        /\ (s \o t)[Len(s) + 1] = t[1]
  OBVIOUS

USE SupervisorAssumption DEF Goto, Finish, ChildAt, ChildGoto, ChildRaise,
    mainVars, replayVars, resultVars, actorVars, outVars, childVars

(* The initial states satisfy the invariant.                               *)
LEMMA SupInit == Init => SupInv
  <1> SUFFICES ASSUME Init PROVE SupInv
    OBVIOUS
  <1> USE DEF Init
  <1>1. TypeOK
    <2>1. <<SelfTestId>> \in Seq(Identities \union {SelfTestId})
      OBVIOUS
    <2>2. <<>> \in Seq(Identities) /\ Len(<<>>) = 0
      OBVIOUS
    <2>3. todo \in Seq(Identities \union {SelfTestId})
      BY <2>1
    <2>4. /\ replay \in Seq(Identities) /\ identities \in Seq(Identities)
          /\ queue \in Seq(Identities) /\ testsRun \in 0 .. Len(identities)
      BY <2>2
    <2>5. module \in 0 .. NModules + 1
      OBVIOUS
    <2> QED
      BY <2>3, <2>4, <2>5 DEF TypeOK
  <1>2. ReplayInv
    BY DEF ReplayInv
  <1>3. ChildInv
    BY DEF ChildInv
  <1>4. ParentInv
    BY DEF ParentInv
  <1> QED
    BY <1>1, <1>2, <1>3, <1>4 DEF SupInv

(* A step that leaves the child alone keeps what is known of it.           *)
LEMMA ChildFrame == ChildInv /\ UNCHANGED childVars => ChildInv'
  BY DEF ChildInv, Good, Covers

(* A child that ends with anything but success has nothing to show.        *)
LEMMA GoneFrame ==
  \A code \in {"failed", "killed"} : ChildGone(code) => ChildInv'
  BY DEF ChildGone, ChildInv

(* A suite is a sequence of identities of its module.                      *)
LEMMA SuiteType ==
  ASSUME NEW m \in Modules, NEW s \in Suites(m)
  PROVE  s \in Seq(Identities) /\ \A i \in DOMAIN s : s[i][1] = m
  <1>1. PICK n \in 0 .. MaxSuite : s \in [1 .. n -> {m} \X (1 .. NTests)]
    BY DEF Suites
  <1>2. n \in Nat /\ s \in [1 .. n -> Identities]
    BY <1>1 DEF Identities, Modules
  <1>3. \A i \in 1 .. n : s[i] \in {m} \X (1 .. NTests)
    BY <1>1
  <1> QED
    BY <1>2, <1>3

(* A stuttering step keeps the invariant.                                  *)
LEMMA Unchanged == SupInv /\ UNCHANGED vars => SupInv'
  <1> SUFFICES ASSUME SupInv, UNCHANGED vars PROVE SupInv'
    OBVIOUS
  <1> USE DEF SupInv, vars
  <1>1. TypeOK'
    BY DEF TypeOK
  <1>2. ReplayInv'
    BY DEF ReplayInv
  <1>3. ChildInv'
    BY ChildFrame
  <1>4. ParentInv'
    BY DEF ParentInv
  <1> QED
    BY <1>1, <1>2, <1>3, <1>4

(* The parent's steps keep the invariant.                                  *)
LEMMA ParentKeeps == SupInv /\ SupervisorStep => SupInv'
  <1> SUFFICES ASSUME SupInv, SupervisorStep PROVE SupInv'
    OBVIOUS
  <1> USE DEF SupInv
  <1>1. CASE RunWorker
    <2> USE <1>1
    <2>1. TypeOK'
      <3>1. todo \in Seq(Identities \union {SelfTestId}) /\ todo # <<>>
        BY DEF RunWorker, TypeOK
      <3>2. Head(todo) \in Identities \union {SelfTestId}
            /\ Tail(todo) \in Seq(Identities \union {SelfTestId})
        BY <3>1
      <3>3. /\ todo' \in Seq(Identities \union {SelfTestId})
            /\ workers' \subseteq Identities \union {SelfTestId}
        BY <3>1, <3>2 DEF RunWorker, TypeOK
      <3>4. /\ ppc' \in {ppc, "done"} /\ outcome' \in {outcome, "FAIL"}
            /\ UNCHANGED <<timedOut, armed, replay, childVars, outVars>>
        BY DEF RunWorker
      <3> QED
        BY <3>3, <3>4 DEF TypeOK
    <2>2. ReplayInv'
      <3>1. ppc = "selftest" /\ todo = <<SelfTestId>>
        BY DEF RunWorker, ReplayInv
      <3>2. Head(todo) = SelfTestId /\ Tail(todo) = <<>>
        BY <3>1
      <3> QED
        BY <3>1, <3>2 DEF RunWorker, ReplayInv
    <2>3. ChildInv'
      BY ChildFrame DEF RunWorker
    <2>4. ParentInv'
      BY DEF RunWorker, ParentInv
    <2> QED
      BY <2>1, <2>2, <2>3, <2>4
  <1>2. CASE RunReplay
    <2> USE <1>2
    <2>1. TypeOK'
      <3>1. todo # <<>> => Tail(todo) \in Seq(Identities \union {SelfTestId})
        BY DEF TypeOK
      <3>2. replay # <<>> => Tail(replay) \in Seq(Identities)
        BY DEF TypeOK
      <3>3. /\ todo' \in Seq(Identities \union {SelfTestId})
            /\ replay' \in Seq(Identities) /\ armed' \in BOOLEAN
        BY <3>1, <3>2 DEF RunReplay, TypeOK
      <3>4. /\ ppc' \in {ppc, "done"} /\ outcome' \in {outcome, "FAIL"}
            /\ UNCHANGED <<timedOut, workers, childVars, outVars>>
        BY DEF RunReplay
      <3> QED
        BY <3>3, <3>4 DEF TypeOK
    <2>2. ReplayInv'
      BY DEF RunReplay, ReplayInv
    <2>3. ChildInv'
      BY ChildFrame DEF RunReplay
    <2>4. ParentInv'
      BY DEF RunReplay, ParentInv
    <2> QED
      BY <2>1, <2>2, <2>3, <2>4
  <1>3. CASE ReplayDone
    <2> USE <1>3
    <2>1. TypeOK'
      BY DEF ReplayDone, TypeOK
    <2>2. ReplayInv'
      BY DEF ReplayDone, ReplayInv
    <2>3. ChildInv'
      BY ChildFrame DEF ReplayDone
    <2>4. ParentInv'
      BY DEF ReplayDone, ParentInv
    <2> QED
      BY <2>1, <2>2, <2>3, <2>4
  <1>4. CASE Launch
    <2> USE <1>4
    <2>1. TypeOK'
      BY DEF Launch, TypeOK
    <2>2. ReplayInv'
      BY DEF Launch, ReplayInv
    <2>3. ChildInv'
      <3>1. CASE cpc' = cpc
        BY <3>1, ChildFrame DEF Launch
      <3>2. CASE cpc' = "start"
        BY <3>2 DEF Launch, ChildInv, ParentInv
      <3> QED
        BY <3>1, <3>2 DEF Launch
    <2>4. ParentInv'
      BY DEF Launch, ParentInv
    <2> QED
      BY <2>1, <2>2, <2>3, <2>4
  <1>5. CASE Wait
    <2> USE <1>5
    <2>1. TypeOK'
      BY DEF Wait, TypeOK
    <2>2. ReplayInv'
      BY DEF Wait, ReplayInv
    <2>3. ChildInv'
      BY ChildFrame DEF Wait
    <2>4. ParentInv'
      BY DEF Wait, ParentInv
    <2> QED
      BY <2>1, <2>2, <2>3, <2>4
  <1>6. CASE KillGroup
    <2> USE <1>6
    <2>1. TypeOK'
      BY DEF KillGroup, ChildGone, TypeOK
    <2>2. ReplayInv'
      BY DEF KillGroup, ReplayInv
    <2>3. ChildInv'
      BY ChildFrame, GoneFrame DEF KillGroup
    <2>4. ParentInv'
      BY DEF KillGroup, ChildGone, ParentInv
    <2> QED
      BY <2>1, <2>2, <2>3, <2>4
  <1>7. CASE Collect
    <2> USE <1>7
    <2>1. TypeOK'
      BY DEF Collect, TypeOK
    <2>2. ReplayInv'
      BY DEF Collect, ReplayInv
    <2>3. ChildInv'
      BY ChildFrame DEF Collect
    <2>4. ParentInv'
      BY DEF Collect, ParentInv
    <2> QED
      BY <2>1, <2>2, <2>3, <2>4
  <1>8. CASE Check
    <2> USE <1>8
    <2>1. TypeOK'
      <3>1. identities \in Seq(Identities \union {SelfTestId})
        BY DEF TypeOK
      <3>2. /\ todo' \in {todo, identities} /\ replay' \in {replay, identities}
            /\ armed' \in BOOLEAN
            /\ ppc' \in {"replay", "done"} /\ outcome' \in {outcome, "FAIL"}
            /\ UNCHANGED <<timedOut, workers, childVars, outVars>>
        BY DEF Check, TypeOK
      <3> QED
        BY <3>1, <3>2 DEF TypeOK
    <2>2. ReplayInv'
      BY DEF Check, Accepted, ReplayInv
    <2>3. ChildInv'
      BY ChildFrame DEF Check
    <2>4. ParentInv'
      BY DEF Check, Accepted, ParentInv
    <2> QED
      BY <2>1, <2>2, <2>3, <2>4
  <1> QED
    BY <1>1, <1>2, <1>3, <1>4, <1>5, <1>6, <1>7, <1>8 DEF SupervisorStep

(* The child's steps keep the invariant.                                   *)
LEMMA ChildKeeps == SupInv /\ ChildStep => SupInv'
  <1> SUFFICES ASSUME SupInv, ChildStep PROVE SupInv'
    OBVIOUS
  <1> USE DEF SupInv
  <1>1. CASE ChildStart
    <2> USE <1>1
    <2>1. TypeOK'
      BY DEF ChildStart, ChildGone, TypeOK
    <2>2. ReplayInv'
      BY DEF ChildStart, ReplayInv
    <2>3. ChildInv'
      <3>1. CASE ChildGone("failed")
        BY <3>1, GoneFrame
      <3>2. CASE cpc' = "load" /\ module' = 1
        <4>1. Covers(1)'
          BY DEF Covers, Modules
        <4>2. /\ identities' = <<>> /\ queue' = <<>> /\ testsRun' = 0
              /\ passed' = {} /\ ~bad' /\ rc' # "ok"
          BY <3>2 DEF ChildStart, ChildInv, ChildGone
        <4> QED
          BY <3>2, <4>1, <4>2 DEF ChildInv
      <3> QED
        BY <3>1, <3>2 DEF ChildStart
    <2>4. ParentInv'
      BY DEF ChildStart, ChildGone, ParentInv, ChildInv
    <2> QED
      BY <2>1, <2>2, <2>3, <2>4
  <1>3. CASE ChildLoaded
    <2> USE <1>3
    <2>1. TypeOK'
      BY DEF ChildLoaded, TypeOK
    <2>2. ReplayInv'
      BY DEF ChildLoaded, ReplayInv
    <2>3. ChildInv'
      <3>1. Len(queue) \in Nat /\ module = NModules + 1
        BY DEF ChildLoaded, TypeOK, ChildInv
      <3> QED
        BY <3>1 DEF ChildLoaded, ChildInv, Good, Covers
    <2>4. ParentInv'
      BY DEF ChildLoaded, ParentInv, ChildInv
    <2> QED
      BY <2>1, <2>2, <2>3, <2>4
  <1>6. CASE ChildJudge
    <2> USE <1>6
    <2>1. TypeOK'
      BY DEF ChildJudge, TypeOK
    <2>2. ReplayInv'
      BY DEF ChildJudge, ReplayInv
    <2>3. ChildInv'
      <3>1. ToSet(<<>>) = {}
        BY DEF ToSet
      <3> QED
        BY <3>1 DEF ChildJudge, ChildInv, Good, Covers
    <2>4. ParentInv'
      BY DEF ChildJudge, ParentInv, ChildInv
    <2> QED
      BY <2>1, <2>2, <2>3, <2>4
  <1>7. CASE ChildClose
    <2> USE <1>7
    <2>1. TypeOK'
      BY DEF ChildClose, TypeOK
    <2>2. ReplayInv'
      BY DEF ChildClose, ReplayInv
    <2>3. ChildInv'
      BY DEF ChildClose, ChildInv, Good, Covers
    <2>4. ParentInv'
      BY DEF ChildClose, ParentInv, ChildInv
    <2> QED
      BY <2>1, <2>2, <2>3, <2>4
  <1>8. CASE ChildPrint
    <2> USE <1>8
    <2>1. TypeOK'
      BY DEF ChildPrint, TypeOK
    <2>2. ReplayInv'
      BY DEF ChildPrint, ReplayInv
    <2>3. ChildInv'
      BY DEF ChildPrint, ChildInv, Good, Covers
    <2>4. ParentInv'
      BY DEF ChildPrint, ParentInv, ChildInv
    <2> QED
      BY <2>1, <2>2, <2>3, <2>4
  <1>9. CASE ChildExit
    <2> USE <1>9
    <2>1. TypeOK'
      BY DEF ChildExit, ChildGone, TypeOK
    <2>2. ReplayInv'
      BY DEF ChildExit, ReplayInv
    <2>3. ChildInv'
      BY DEF ChildExit, ChildGone, ChildInv, Good, Covers
    <2>4. ParentInv'
      BY DEF ChildExit, ChildGone, ParentInv, ChildInv
    <2> QED
      BY <2>1, <2>2, <2>3, <2>4
  <1>10. CASE ChildUnwind
    <2> USE <1>10
    <2>1. TypeOK'
      BY DEF ChildUnwind, ChildGone, TypeOK
    <2>2. ReplayInv'
      BY DEF ChildUnwind, ReplayInv
    <2>3. ChildInv'
      BY DEF ChildUnwind, ChildGone, ChildInv, Good, Covers
    <2>4. ParentInv'
      BY DEF ChildUnwind, ChildGone, ParentInv, ChildInv
    <2> QED
      BY <2>1, <2>2, <2>3, <2>4
  <1>2. CASE ChildLoad
    <2> USE <1>2 DEF ChildLoad
    <2>1. TypeOK'
      <3>1. module \in Modules /\ testsRun = 0
        BY DEF TypeOK, ChildInv, Modules
      <3>2. /\ identities' \in Seq(Identities) /\ queue' \in Seq(Identities)
            /\ module' \in 0 .. NModules + 1
        <4>1. CASE UNCHANGED <<identities, queue, module>>
          BY <4>1 DEF TypeOK
        <4>2. CASE \E s \in Suites(module) :
                     /\ identities' = identities \o s /\ queue' = queue \o s
                     /\ module' = module + 1
          <5>1. PICK s \in Suites(module) :
                     /\ identities' = identities \o s /\ queue' = queue \o s
                     /\ module' = module + 1
            BY <4>2
          <5>2. s \in Seq(Identities)
            BY <3>1, SuiteType
          <5>3. identities \in Seq(Identities) /\ queue \in Seq(Identities)
            BY DEF TypeOK
          <5> QED
            BY <3>1, <5>1, <5>2, <5>3 DEF Modules
        <4> QED
          BY <4>1, <4>2
      <3>3. fatal' \in BOOLEAN
        BY <3>1 DEF UseActor, TypeOK
      <3>4. cpc' \in {"load", "unwind"}
            /\ UNCHANGED <<mainVars, replayVars, rc, resultVars, actor, outVars>>
        OBVIOUS
      <3>5. testsRun' \in 0 .. Len(identities')
        BY <3>1, <3>2, <3>4
      <3> QED
        BY <3>2, <3>3, <3>4, <3>5 DEF TypeOK
    <2>2. ReplayInv' /\ ParentInv'
      BY DEF ReplayInv, ParentInv, ChildInv
    <2>3. ChildInv'
      <3>1. CASE cpc' = "unwind"
        BY <3>1 DEF ChildInv
      <3>2. CASE cpc' = "load"
        <4>1. PICK s \in Suites(module) :
                /\ s # <<>> /\ module' = module + 1
                /\ identities' = identities \o s /\ queue' = queue \o s
          BY <3>2
        <4>2. s \in Seq(Identities) /\ \A i \in DOMAIN s : s[i][1] = module
          <5>1. module \in Modules
            BY DEF TypeOK, ChildInv, Modules
          <5> QED
            BY <5>1, SuiteType
        <4>3. Covers(module)'
          <5> SUFFICES ASSUME NEW m \in Modules, m < module + 1
                       PROVE  \E i \in DOMAIN identities' : identities'[i][1] = m
            BY <4>1 DEF Covers
          <5>0. m \in Int /\ module \in Int
            BY DEF TypeOK, Modules
          <5>1. CASE m = module
            <6>1. Len(identities) + 1 \in DOMAIN identities'
                  /\ identities'[Len(identities) + 1] = s[1]
                  /\ 1 \in DOMAIN s
              <7>1. identities \in Seq(Identities)
                BY DEF TypeOK
              <7> QED
                BY <4>1, <4>2, <7>1, Concatenated
            <6> QED
              BY <5>1, <6>1, <4>2
          <5>2. CASE m < module
            <6>1. PICK i \in DOMAIN identities : identities[i][1] = m
              BY <5>2 DEF Covers, ChildInv
            <6>2. i \in DOMAIN identities' /\ identities'[i] = identities[i]
              <7>1. identities \in Seq(Identities)
                BY DEF TypeOK
              <7> QED
                BY <4>1, <4>2, <6>1, <7>1, Concatenated
            <6> QED
              BY <6>1, <6>2
          <5> QED
            BY <5>0, <5>1, <5>2
        <4>4. /\ queue' = identities' /\ testsRun' = 0 /\ passed' = {} /\ ~bad'
              /\ rc' # "ok" /\ module' \in 1 .. NModules + 1
          <5>1. /\ queue = identities /\ testsRun = 0 /\ passed = {} /\ ~bad
                /\ rc # "ok" /\ module \in 1 .. NModules
            BY DEF ChildInv, TypeOK
          <5> QED
            BY <4>1, <5>1
        <4> QED
          BY <3>2, <4>3, <4>4 DEF ChildInv
      <3> QED
        BY <3>1, <3>2
    <2> QED
      BY <2>1, <2>2, <2>3
  <1>4. CASE ChildTest
    <2> USE <1>4 DEF ChildTest
    <2>0. Head(queue) \in Identities /\ Tail(queue) \in Seq(Identities)
          /\ Len(Tail(queue)) = Len(queue) - 1
          /\ ToSet(queue) = {Head(queue)} \union ToSet(Tail(queue))
      <3>1. queue \in Seq(Identities) /\ queue # <<>>
        BY DEF TypeOK
      <3>2. ToSet(queue) \subseteq {Head(queue)} \union ToSet(Tail(queue))
        <4> SUFFICES ASSUME NEW i \in DOMAIN queue, i # 1
                     PROVE  queue[i] \in ToSet(Tail(queue))
          BY <3>1 DEF ToSet
        <4>1. i - 1 \in DOMAIN Tail(queue) /\ Tail(queue)[i - 1] = queue[i]
          BY <3>1
        <4> QED
          BY <4>1 DEF ToSet
      <3>3. ToSet(Tail(queue)) \subseteq ToSet(queue)
        <4> SUFFICES ASSUME NEW i \in DOMAIN Tail(queue)
                     PROVE  Tail(queue)[i] \in ToSet(queue)
          BY DEF ToSet
        <4>1. i + 1 \in DOMAIN queue /\ Tail(queue)[i] = queue[i + 1]
          BY <3>1
        <4> QED
          BY <4>1 DEF ToSet
      <3>4. Head(queue) \in ToSet(queue)
        BY <3>1 DEF ToSet
      <3> QED
        BY <3>1, <3>2, <3>3, <3>4
    <2>1. TypeOK'
      <3>1. Head(queue)[1] \in Modules
        BY <2>0 DEF Identities
      <3>2. fatal' \in BOOLEAN
        BY <3>1 DEF UseActor, TypeOK
      <3>3. queue' \in Seq(Identities) /\ passed' \subseteq Identities
        BY <2>0 DEF TypeOK
      <3>4. testsRun' \in 0 .. Len(identities')
        <4>1. Len(queue) \in Nat /\ Len(queue) # 0 /\ Len(identities) \in Nat
          BY DEF TypeOK
        <4> QED
          BY <4>1 DEF TypeOK, ChildInv
      <3>5. /\ cpc' \in {"run", "unwind"} /\ bad' \in BOOLEAN
            /\ stray' \in {stray, "group", "detached"}
            /\ UNCHANGED <<mainVars, replayVars, rc, module, identities, actor,
                           line>>
        BY DEF TypeOK
      <3> QED
        BY <3>2, <3>3, <3>4, <3>5 DEF TypeOK
    <2>2. ReplayInv' /\ ParentInv'
      BY DEF ReplayInv, ParentInv, ChildInv
    <2>3. ChildInv'
      <3>1. CASE cpc' = "unwind"
        BY <3>1 DEF ChildInv
      <3>2. CASE cpc' = "run"
        <4>1. Covers(NModules + 1)' /\ rc' # "ok"
          BY DEF ChildInv, Covers
        <4>2. testsRun' = testsRun + 1 /\ queue' = Tail(queue)
              /\ identities' = identities
          BY <3>2
        <4>3. testsRun' + Len(queue') <= Len(identities')
          <5>1. Len(queue) \in Nat /\ Len(identities) \in Nat /\ testsRun \in Nat
            BY DEF TypeOK
          <5> QED
            <6>1. testsRun + Len(queue) <= Len(identities)
              BY DEF ChildInv
            <6>2. Len(queue') = Len(queue) - 1 /\ Len(identities') = Len(identities)
              BY <2>0, <4>2
            <6>3. (testsRun + 1) + (Len(queue) - 1) <= Len(identities)
              BY <5>1, <6>1
            <6> QED
              BY <4>2, <6>2, <6>3
        <4>4. bad' \/ ToSet(identities') = passed' \union ToSet(queue')
          <5>1. CASE bad'
            BY <5>1
          <5>2. CASE ~bad'
            <6>1. ~bad /\ passed' = passed \union {Head(queue)}
              BY <3>2, <5>2
            <6>2. ToSet(identities) = passed \union ToSet(queue)
              BY <6>1 DEF ChildInv
            <6> QED
              BY <2>0, <4>2, <6>1, <6>2
          <5> QED
            BY <5>1, <5>2
        <4> QED
          BY <3>2, <4>1, <4>3, <4>4 DEF ChildInv
      <3> QED
        BY <3>1, <3>2
    <2> QED
      BY <2>1, <2>2, <2>3
  <1>5. CASE ChildFixture
    <2> USE <1>5 DEF ChildFixture
    <2>1. PICK k \in 1 .. Len(queue) : queue' = SubSeq(queue, k + 1, Len(queue))
      OBVIOUS
    <2>2. queue' \in Seq(Identities) /\ Len(queue') <= Len(queue)
      BY <2>1 DEF TypeOK
    <2>3. TypeOK'
      BY <2>2 DEF TypeOK
    <2>4. ReplayInv' /\ ParentInv'
      BY DEF ReplayInv, ParentInv, ChildInv
    <2>5. ChildInv'
      BY <2>2 DEF ChildInv, TypeOK, Good, Covers
    <2> QED
      BY <2>3, <2>4, <2>5
  <1> QED
    BY <1>1, <1>2, <1>3, <1>4, <1>5, <1>6, <1>7, <1>8, <1>9, <1>10
       DEF ChildStep

(* So do the clock, crashes, other writers and the end.                    *)
LEMMA OthersKeep == SupInv /\ (OtherStep \/ Finished) => SupInv'
  <1> SUFFICES ASSUME SupInv, OtherStep \/ Finished PROVE SupInv'
    OBVIOUS
  <1> USE DEF SupInv
  <1>1. CASE SuiteTimeout
    <2> USE <1>1
    <2>1. TypeOK'
      BY DEF SuiteTimeout, TypeOK
    <2>2. ReplayInv'
      BY DEF SuiteTimeout, ReplayInv
    <2>3. ChildInv'
      BY ChildFrame DEF SuiteTimeout
    <2>4. ParentInv'
      BY DEF SuiteTimeout, ParentInv, ChildInv
    <2> QED
      BY <2>1, <2>2, <2>3, <2>4
  <1>2. CASE ChildCrash
    <2> USE <1>2
    <2>1. TypeOK'
      BY DEF ChildCrash, ChildGone, TypeOK
    <2>2. ReplayInv'
      BY DEF ChildCrash, ReplayInv
    <2>3. ChildInv'
      BY DEF ChildCrash, ChildGone, ChildInv, Good, Covers
    <2>4. ParentInv'
      BY DEF ChildCrash, ChildGone, ParentInv, ChildInv
    <2> QED
      BY <2>1, <2>2, <2>3, <2>4
  <1>3. CASE ActorExpires
    <2> USE <1>3
    <2>1. TypeOK'
      BY DEF ActorExpires, TypeOK
    <2>2. ReplayInv'
      BY DEF ActorExpires, ReplayInv
    <2>3. ChildInv'
      BY DEF ActorExpires, ChildInv, Good, Covers
    <2>4. ParentInv'
      BY DEF ActorExpires, ParentInv, ChildInv
    <2> QED
      BY <2>1, <2>2, <2>3, <2>4
  <1>4. CASE Noise
    <2> USE <1>4
    <2>1. TypeOK'
      BY DEF Noise, TypeOK
    <2>2. ReplayInv'
      BY DEF Noise, ReplayInv
    <2>3. ChildInv'
      BY ChildFrame DEF Noise
    <2>4. ParentInv'
      BY DEF Noise, ParentInv, ChildInv
    <2> QED
      BY <2>1, <2>2, <2>3, <2>4
  <1>5. CASE StrayEnds
    <2> USE <1>5
    <2>1. TypeOK'
      BY DEF StrayEnds, TypeOK
    <2>2. ReplayInv'
      BY DEF StrayEnds, ReplayInv
    <2>3. ChildInv'
      BY ChildFrame DEF StrayEnds
    <2>4. ParentInv'
      BY DEF StrayEnds, ParentInv, ChildInv
    <2> QED
      BY <2>1, <2>2, <2>3, <2>4
  <1>6. CASE CollectCut
    <2> USE <1>6
    <2>1. TypeOK'
      BY DEF CollectCut, TypeOK
    <2>2. ReplayInv'
      BY DEF CollectCut, ReplayInv
    <2>3. ChildInv'
      BY ChildFrame DEF CollectCut
    <2>4. ParentInv'
      BY DEF CollectCut, ParentInv
    <2> QED
      BY <2>1, <2>2, <2>3, <2>4
  <1>7. CASE Finished
    BY <1>7, Unchanged DEF Finished
  <1> QED
    BY <1>1, <1>2, <1>3, <1>4, <1>5, <1>6, <1>7 DEF OtherStep

(* Every step keeps the invariant.                                         *)
LEMMA SupStep == SupInv /\ [Next]_vars => SupInv'
  <1> SUFFICES ASSUME SupInv, [Next]_vars PROVE SupInv'
    OBVIOUS
  <1> QED
    BY Unchanged, ParentKeeps, ChildKeeps, OthersKeep DEF Next

(* So it holds in every reachable state.                                   *)
LEMMA SupInductive == Spec => []SupInv
  BY SupInit, SupStep, PTL DEF Spec

(* The variables of supervisor and child have their types, and no more     *)
(* tests are counted than were enumerated.                                 *)
THEOREM SupervisorTypes == Spec => []TypeOK
  BY SupInductive, PTL DEF SupInv

(* PASS stands for a floor whose every case was run and succeeded.         *)
THEOREM PassIsEarned == Spec => []PassMeansExecuted
  <1>1. SupInv => PassMeansExecuted
    <2> SUFFICES ASSUME SupInv, outcome = "PASS" PROVE PassMeansExecuted
      BY DEF PassMeansExecuted
    <2>1. Good /\ actor = "closed"
      BY DEF SupInv, ParentInv, ChildInv
    <2>2. \A m \in Modules : m < NModules + 1
      BY DEF Modules
    <2> QED
      BY <2>1, <2>2 DEF Good, Covers, PassMeansExecuted
  <1> QED
    BY <1>1, SupInductive, PTL

(* Nothing is skipped by the replay and nothing is run twice.              *)
THEOREM ReplayKeepsStep == Spec => []ReplayExact
  <1>1. SupInv => ReplayExact
    BY DEF SupInv, ReplayInv, ReplayExact
  <1> QED
    BY <1>1, SupInductive, PTL

(* The verdict is read from an output that nobody can change any more.     *)
THEOREM OutputIsFinal == Spec => []OutputFinal
  <1>1. SupInv => OutputFinal
    BY DEF SupInv, ParentInv, OutputFinal
  <1> QED
    BY <1>1, SupInductive, PTL

(* A child that has ended is not judged by anything later, and a wait that *)
(* gave up leads neither to a replay nor to a PASS.                        *)
EndInv ==
  /\ rc # "none" <=> cpc = "dead"
  /\ timedOut => ppc \notin {"selftest", "wait", "replay"} /\ outcome # "PASS"

(* What a step may not do to what has been reported: the label and all     *)
(* that it rests on stay; so do the results of a child that has ended; a   *)
(* failed request, an error and a timeout are not taken back; and the      *)
(* replay goes through the list test by test and never starts over.        *)
Reported ==
  /\ ppc = "done" => UNCHANGED <<mainVars, replayVars>>
  /\ rc # "none" => UNCHANGED <<cpc, rc, identities, resultVars, fatal>>
  /\ fatal => fatal'
  /\ bad => bad'
  /\ timedOut => timedOut' /\ ppc' # "replay" /\ outcome' # "PASS"
  /\ ppc = "replay" => \/ ppc' = "replay" /\ todo' \in {todo, Tail(todo)}
                       \/ ppc' = "done" /\ (outcome' = "PASS" => todo = <<>>)

ReportStands == [][Reported]_vars

(* The supervisor's steps keep what has been reported.                     *)
LEMMA ParentReports ==
  SupInv /\ EndInv /\ SupervisorStep => EndInv' /\ Reported
  <1> SUFFICES ASSUME SupInv, EndInv, SupervisorStep PROVE EndInv' /\ Reported
    OBVIOUS
  <1>0. ReplayInv /\ ParentInv
    BY DEF SupInv
  <1>1. CASE RunWorker
    <2>1. ppc = "selftest"
      BY <1>0, <1>1 DEF RunWorker, ReplayInv
    <2> QED
      BY <1>1, <2>1 DEF RunWorker, EndInv, Reported
  <1>2. CASE RunReplay
    BY <1>2 DEF RunReplay, EndInv, Reported
  <1>3. CASE ReplayDone
    BY <1>3 DEF ReplayDone, EndInv, Reported
  <1>4. CASE Launch
    <2>1. cpc = "none"
      BY <1>0, <1>4 DEF Launch, ParentInv
    <2> QED
      BY <1>4, <2>1 DEF Launch, EndInv, Reported
  <1>5. CASE Wait
    BY <1>5 DEF Wait, EndInv, Reported
  <1>6. CASE KillGroup
    BY <1>6 DEF KillGroup, ChildGone, EndInv, Reported
  <1>7. CASE Collect
    BY <1>7 DEF Collect, EndInv, Reported
  <1>8. CASE Check
    BY <1>8 DEF Check, Accepted, EndInv, Reported
  <1> QED
    BY <1>1, <1>2, <1>3, <1>4, <1>5, <1>6, <1>7, <1>8 DEF SupervisorStep

(* So do the child's, which takes none once it has ended.                  *)
LEMMA ChildReports ==
  SupInv /\ EndInv /\ ChildStep => EndInv' /\ Reported
  <1> SUFFICES ASSUME SupInv, EndInv, ChildStep PROVE EndInv' /\ Reported
    OBVIOUS
  <1>0. cpc # "dead" /\ UNCHANGED <<mainVars, replayVars>>
        /\ (cpc' = "dead" <=> rc' # "none")
    <2>1. UNCHANGED <<mainVars, replayVars>>
      BY DEF ChildStep, ChildStart, ChildLoad, ChildLoaded, ChildTest,
             ChildFixture, ChildJudge, ChildClose, ChildPrint, ChildExit,
             ChildUnwind
    <2>2. cpc # "dead"
      BY DEF ChildStep, ChildStart, ChildLoad, ChildLoaded, ChildTest,
             ChildFixture, ChildJudge, ChildClose, ChildPrint, ChildExit,
             ChildUnwind
    <2>3. \/ cpc' # "dead" /\ UNCHANGED rc
          \/ cpc' = "dead" /\ rc' \in {"ok", "failed"}
      BY <2>2 DEF ChildStep, ChildStart, ChildLoad, ChildLoaded, ChildTest,
             ChildFixture, ChildJudge, ChildClose, ChildPrint, ChildExit,
             ChildUnwind, ChildGone
    <2> QED
      BY <2>1, <2>2, <2>3 DEF EndInv
  <1>1. fatal => fatal'
    <2>1. TypeOK
      BY DEF SupInv
    <2>2. (ChildLoad \/ ChildTest) /\ fatal => fatal'
      BY <2>1 DEF ChildLoad, ChildTest, UseActor, TypeOK
    <2> QED
      BY <2>2 DEF ChildStep, ChildStart, ChildLoaded, ChildFixture,
             ChildJudge, ChildClose, ChildPrint, ChildExit, ChildUnwind,
             ChildGone
  <1>2. bad => bad'
    <2>1. ChildLoad \/ ChildTest \/ ChildFixture => (bad => bad')
      BY DEF ChildLoad, ChildTest, ChildFixture
    <2> QED
      BY <2>1 DEF ChildStep, ChildStart, ChildLoaded, ChildJudge, ChildClose,
             ChildPrint, ChildExit, ChildUnwind, ChildGone
  <1>3. EndInv'
    BY <1>0 DEF EndInv
  <1>4. Reported
    BY <1>0, <1>1, <1>2 DEF EndInv, Reported
  <1> QED
    BY <1>3, <1>4

(* And so do the clock, crashes, other writers and the end.                *)
LEMMA OthersReport ==
  SupInv /\ EndInv /\ (OtherStep \/ Finished \/ UNCHANGED vars)
    => EndInv' /\ Reported
  <1> SUFFICES ASSUME SupInv, EndInv, OtherStep \/ Finished \/ UNCHANGED vars
               PROVE  EndInv' /\ Reported
    OBVIOUS
  <1>0. ParentInv
    BY DEF SupInv
  <1>1. CASE SuiteTimeout
    BY <1>0, <1>1 DEF SuiteTimeout, ParentInv, EndInv, Reported
  <1>2. CASE ChildCrash
    BY <1>2 DEF ChildCrash, ChildGone, EndInv, Reported
  <1>3. CASE ActorExpires
    BY <1>3 DEF ActorExpires, EndInv, Reported
  <1>4. CASE Noise
    BY <1>4 DEF Noise, EndInv, Reported
  <1>5. CASE StrayEnds
    BY <1>5 DEF StrayEnds, EndInv, Reported
  <1>6. CASE CollectCut
    BY <1>6 DEF CollectCut, EndInv, Reported
  <1>7. CASE UNCHANGED vars
    BY <1>7 DEF vars, EndInv, Reported
  <1> QED
    BY <1>1, <1>2, <1>3, <1>4, <1>5, <1>6, <1>7 DEF OtherStep, Finished

(* What was reported stays, and late is never PASS: no later step, of a    *)
(* test, a descendant, a crash or the clock, changes a label or the results*)
(* of a child that ended, hides a failed request or an error again, or lets*)
(* a floor whose wait timed out be replayed (impl:311-325, final:399-526). *)
THEOREM ReportCorrect == Spec => []EndInv /\ ReportStands
  <1>1. Init => EndInv
    BY DEF Init, EndInv
  <1>2. SupInv /\ EndInv /\ [Next]_vars => EndInv' /\ Reported
    BY ParentReports, ChildReports, OthersReport DEF Next
  <1> QED
    BY <1>1, <1>2, SupInductive, PTL DEF Spec, ReportStands
=============================================================================
