----------------------------- MODULE BridgeProofs -----------------------------
(***************************************************************************)
(* Machine-checked proofs about Bridge, for any budgets of the broker and  *)
(* the drain thread, any capacity of the pipe and any length of the test   *)
(* run: a passed suite has had all its responses, the channel is clean,    *)
(* the lifeline goes last and a frozen floor has heard nothing.            *)
(***************************************************************************)
EXTENDS Bridge, TLAPS

(* The channel: a single request is on its way, or its answer is, and what *)
(* the thread waits for is the answer to its last request.                 *)
Empty == wire = 0 /\ replies = <<>>
Reply(seq) == /\ wire = 0 /\ Len(replies) = 1 /\ Head(replies).seq = seq
ChannelInv ==
  /\ bpc = "serving" => wire # 0
  /\ bpc \in {"reading", "serving"} => served < MaxOperations
  /\ wire # 0 => replies = <<>>
  /\ wpc = "send" \/ (wpc = "test" /\ fatal = "none") => Empty
  /\ wpc = "await" => (wire = sequence /\ replies = <<>>) \/ Reply(sequence)
  /\ wpc = "got" => Reply(sequence)
  /\ fatal # "mismatch"

(* What has had its response; the end of the tests is the end of requests. *)
Served == answered + escaped
AnswerInv ==
  /\ wpc = "test" /\ fatal = "none" => Served = sent
  /\ wpc = "send" => Served = sent /\ sent < sequence
  /\ wpc \in {"await", "got"} => sent = Served + 1
  /\ verdict # "open" => wpc \notin {"test", "send", "await", "got"}
  /\ verdict = "passed" => Served = sent

(* The stderr of the actor: a drain thread that is past a read has counted *)
(* what it read, or has seen the end of the namespace.                     *)
DrainInv ==
  /\ emitted = pipe + drained
  /\ lpc = "ended" => bpc = "ended"
  /\ dpc \in {"latch", "check", "close", "forget"} => overflow
  /\ overflow \/ dpc = "flag" => drained > 0
  /\ dpc # "reading" /\ drained = 0 =>
       dpc = "done" /\ pipe = 0 /\ lpc = "ended"

(* The order of close: end of input first, the lifeline later.             *)
CloseInv ==
  /\ wpc \notin {"test", "send", "await", "got", "stdin"} => ~stdinOpen
  /\ ~fdOpen => ~stdinOpen \/ overflow
  /\ closing = "frozen" => dpc = "done" /\ drained = 0

BridgeInv == TypeOK /\ ChannelInv /\ AnswerInv /\ DrainInv /\ CloseInv

(* Next, by where its steps happen.                                        *)
TestStep == \/ WorkerRequest \/ WorkerSend \/ WorkerReceive
            \/ WorkerTimeout \/ WorkerAccept \/ WorkerJudge
CloseStep == \/ CloseStdin \/ CloseWait \/ CloseCheck \/ CloseControl
             \/ CloseForget \/ CloseKill \/ CloseJoin \/ ClosePipes
             \/ CloseConfirm \/ WorkerKilled
BrokerStep == \/ BrokerRead \/ BrokerEof \/ BrokerServe \/ BrokerFail
              \/ BrokerSpent \/ Chatter
TeardownStep == \/ LauncherReap \/ LauncherLifeline \/ LauncherGraceOver
                \/ LauncherGivesUp \/ LauncherExit \/ NamespaceEnds

USE BridgeAssumption DEF requestVars, resultVars, drainVars, holdVars,
    brokerVars, launcherVars, farVars, Empty, Served, Reply, Answers, Accepted,
    Floors, LauncherGone, WorkerAt, Latch, Step, CloseFails, Leave

(* The initial states satisfy the invariant.                               *)
LEMMA BridgeInit == Init => BridgeInv
  <1> SUFFICES ASSUME Init PROVE BridgeInv
    OBVIOUS
  <1> USE DEF Init
  <1>1. TypeOK
    <2>1. replies \in Seq([seq : 1 .. MaxRequests, kind : Answers])
      OBVIOUS
    <2>2. /\ served \in 0 .. MaxOperations /\ pipe \in 0 .. PipeCapacity
          /\ drained \in 0 .. MaxNoise /\ emitted \in 0 .. MaxNoise
          /\ sequence \in 0 .. MaxRequests /\ wire \in 0 .. MaxRequests
          /\ sent \in 0 .. sequence /\ answered \in 0 .. sent
          /\ escaped \in 0 .. sent - answered
      OBVIOUS
    <2> QED
      BY <2>1, <2>2 DEF TypeOK
  <1>2. ChannelInv
    BY DEF ChannelInv
  <1>3. AnswerInv
    BY DEF AnswerInv
  <1>4. DrainInv /\ CloseInv
    BY DEF DrainInv, CloseInv
  <1> QED
    BY <1>1, <1>2, <1>3, <1>4 DEF BridgeInv

(* A response in hand ends the request in one of three ways: an answer, an *)
(* exception that is not latched, or a failure that is.                    *)
LEMMA AcceptEnds ==
  ASSUME WorkerAccept
  PROVE  /\ wpc = "got" /\ wpc' = "test" /\ replies' = Tail(replies)
         /\ UNCHANGED <<sequence, sent, resultVars, overflow, control,
                        drainVars, holdVars, wire, farVars>>
         /\ \/ /\ answered' = answered + 1 /\ ~overflow
               /\ UNCHANGED <<escaped, fatal>>
            \/ /\ escaped' = escaped + 1 /\ ~overflow
               /\ UNCHANGED <<answered, fatal>>
            \/ /\ \/ fatal' \in {"overflow", "bad"}
                  \/ fatal' = "mismatch" /\ Head(replies).seq # sequence
               /\ UNCHANGED <<answered, escaped>>
  <1>1. /\ wpc = "got" /\ replies' = Tail(replies)
        /\ UNCHANGED <<sequence, sent, resultVars, overflow, control,
                       drainVars, holdVars, wire, farVars>>
    BY DEF WorkerAccept
  <1>2. wpc' = "test"
    BY DEF WorkerAccept
  <1>3. \/ /\ answered' = answered + 1 /\ ~overflow
           /\ UNCHANGED <<escaped, fatal>>
        \/ /\ escaped' = escaped + 1 /\ ~overflow
           /\ UNCHANGED <<answered, fatal>>
        \/ /\ \/ fatal' \in {"overflow", "bad"}
              \/ fatal' = "mismatch" /\ Head(replies).seq # sequence
           /\ UNCHANGED <<answered, escaped>>
    BY DEF WorkerAccept
  <1> QED
    BY <1>1, <1>2, <1>3

(* The end of a request touches where the worker is, the responses, their  *)
(* counts and fatal.                                                       *)
LEMMA AcceptTypes ==
  ASSUME TypeOK, wpc' \in {"test"},
         fatal' \in {"none", "encoder", "overflow", "eof", "timeout",
                    "mismatch", "bad", "drain"},
         answered' \in 0 .. sent', escaped' \in 0 .. sent' - answered',
         replies' \in Seq([seq : 1 .. MaxRequests, kind : Answers]),
         UNCHANGED <<sequence, sent, resultVars, overflow, control,
                     drainVars, holdVars, wire, farVars>>
  PROVE  TypeOK'
  <1>1. /\ sequence' \in 0 .. MaxRequests /\ sent' \in 0 .. sequence'
        /\ verdict' \in {"open", "passed", "failed"}
        /\ closing' \in {"open", "failed"} \cup Floors
        /\ overflow' \in BOOLEAN /\ control' \in BOOLEAN
        /\ dpc' \in {"read", "reading", "flag", "latch", "check", "close",
                    "forget", "done"}
    BY DEF TypeOK
  <1>2. /\ drained' \in 0 .. MaxNoise /\ emitted' \in 0 .. MaxNoise
        /\ fdOpen' \in BOOLEAN /\ stdinOpen' \in BOOLEAN
        /\ wire' \in 0 .. MaxRequests /\ pipe' \in 0 .. PipeCapacity
        /\ bpc' \in {"reading", "serving", "spent", "ended"}
        /\ served' \in 0 .. MaxOperations
        /\ brc' \in {"none", "ok", "failed", "budget"}
        /\ lpc' \in {"run", "grace", "teardown", "exited", "ended"}
        /\ lrc' \in {"none", "ok", "failed", "budget"}
    BY DEF TypeOK
  <1>3. wpc' \in {"test", "send", "await", "got", "stdin", "wait1", "swCheck",
                 "swClose", "swForget", "wait2", "finCheck", "finClose",
                 "finForget", "kill", "join", "pipes", "confirm", "gone"}
    OBVIOUS
  <1> QED
    BY <1>1, <1>2, <1>3 DEF TypeOK

(* The steps of the tests and their requests keep the invariant.           *)
LEMMA TestsKeep == BridgeInv /\ TestStep => BridgeInv'
  <1> SUFFICES ASSUME BridgeInv, TestStep PROVE BridgeInv'
    OBVIOUS
  <1> USE DEF BridgeInv
  <1>1. CASE WorkerRequest
    <2>1. TypeOK'
      BY <1>1 DEF WorkerRequest, TypeOK
    <2>2. ChannelInv'
      BY <1>1 DEF WorkerRequest, ChannelInv
    <2>3. AnswerInv'
      BY <1>1 DEF WorkerRequest, AnswerInv, TypeOK
    <2>4. DrainInv'
      BY <1>1 DEF WorkerRequest, DrainInv
    <2>5. CloseInv'
      BY <1>1 DEF WorkerRequest, CloseInv
    <2> QED
      BY <2>1, <2>2, <2>3, <2>4, <2>5
  <1>2. CASE WorkerSend
    <2>1. TypeOK'
      BY <1>2 DEF WorkerSend, TypeOK, AnswerInv
    <2>2. ChannelInv'
      BY <1>2 DEF WorkerSend, ChannelInv
    <2>3. AnswerInv'
      BY <1>2 DEF WorkerSend, AnswerInv
    <2>4. DrainInv'
      BY <1>2 DEF WorkerSend, DrainInv
    <2>5. CloseInv'
      BY <1>2 DEF WorkerSend, CloseInv
    <2> QED
      BY <2>1, <2>2, <2>3, <2>4, <2>5
  <1>3. CASE WorkerReceive
    <2>1. TypeOK'
      BY <1>3 DEF WorkerReceive, TypeOK
    <2>2. ChannelInv'
      BY <1>3 DEF WorkerReceive, ChannelInv
    <2>3. AnswerInv'
      BY <1>3 DEF WorkerReceive, AnswerInv
    <2>4. DrainInv'
      BY <1>3 DEF WorkerReceive, DrainInv
    <2>5. CloseInv'
      BY <1>3 DEF WorkerReceive, CloseInv
    <2> QED
      BY <2>1, <2>2, <2>3, <2>4, <2>5
  <1>4. CASE WorkerTimeout
    <2>1. TypeOK'
      BY <1>4 DEF WorkerTimeout, TypeOK
    <2>2. ChannelInv'
      BY <1>4 DEF WorkerTimeout, ChannelInv
    <2>3. AnswerInv'
      BY <1>4 DEF WorkerTimeout, AnswerInv
    <2>4. DrainInv'
      BY <1>4 DEF WorkerTimeout, DrainInv
    <2>5. CloseInv'
      BY <1>4 DEF WorkerTimeout, CloseInv
    <2> QED
      BY <2>1, <2>2, <2>3, <2>4, <2>5
  <1>5. CASE WorkerAccept
    <2>1. TypeOK'
      <3>1. Len(replies) = 1 /\ sent = Served + 1
        BY <1>5, AcceptEnds DEF ChannelInv, AnswerInv
      <3>2. Tail(replies) \in Seq([seq : 1 .. MaxRequests, kind : Answers])
        <4>1. /\ replies \in Seq([seq : 1 .. MaxRequests, kind : Answers])
              /\ replies # <<>>
          BY <3>1 DEF TypeOK
        <4> QED
          BY <4>1
      <3>3. answered' \in 0 .. sent' /\ escaped' \in 0 .. sent' - answered'
        <4>1. /\ sequence \in Nat /\ sent \in 0 .. sequence
              /\ answered \in 0 .. sent /\ escaped \in 0 .. sent - answered
          BY DEF TypeOK
        <4> QED
          BY <1>5, <3>1, <4>1, AcceptEnds
      <3>4. wpc' = "test" /\ fatal' \in {fatal, "overflow", "mismatch", "bad"}
        BY <1>5, AcceptEnds
      <3>5. UNCHANGED <<sequence, sent, resultVars, overflow, control,
                        drainVars, holdVars, wire, farVars>>
            /\ replies' = Tail(replies)
        BY <1>5, AcceptEnds
      <3>6. /\ wpc' \in {"test"} /\ verdict' = verdict /\ closing' = closing
            /\ fatal' \in {"none", "encoder", "overflow", "eof", "timeout",
                           "mismatch", "bad", "drain"}
        BY <3>4, <3>5 DEF TypeOK
      <3>7. replies' \in Seq([seq : 1 .. MaxRequests, kind : Answers])
        BY <3>2, <3>5
      <3> QED
        BY <3>3, <3>5, <3>6, <3>7, AcceptTypes
    <2>2. ChannelInv'
      <3>1. /\ wire = 0 /\ Len(replies) = 1 /\ Head(replies).seq = sequence
            /\ replies' = Tail(replies) /\ wire' = 0
            /\ wpc' = "test" /\ fatal' # "mismatch"
            /\ UNCHANGED <<bpc, served>>
        BY <1>5, AcceptEnds DEF ChannelInv
      <3>2. Tail(replies) = <<>>
        BY <3>1 DEF TypeOK
      <3> QED
        BY <3>1, <3>2 DEF ChannelInv
    <2>3. AnswerInv'
      <3>1. sent = Served + 1 /\ verdict \notin {"passed"}
        BY <1>5, AcceptEnds DEF AnswerInv
      <3>2. answered \in Nat /\ escaped \in Nat
        BY DEF TypeOK
      <3>3. wpc' = "test" /\ sent' = sent /\ verdict' = verdict
        BY <1>5, AcceptEnds
      <3>4. fatal' = "none" => Served' = sent
        BY <1>5, <3>1, <3>2, AcceptEnds
      <3>5. verdict = "open"
        BY <1>5, AcceptEnds DEF AnswerInv
      <3> QED
        BY <3>3, <3>4, <3>5 DEF AnswerInv
    <2>4. DrainInv'
      BY <1>5, AcceptEnds DEF DrainInv
    <2>5. CloseInv'
      BY <1>5, AcceptEnds DEF CloseInv
    <2> QED
      BY <2>1, <2>2, <2>3, <2>4, <2>5
  <1>6. CASE WorkerJudge
    <2>1. TypeOK'
      BY <1>6 DEF WorkerJudge, TypeOK
    <2>2. ChannelInv'
      BY <1>6 DEF WorkerJudge, ChannelInv
    <2>3. AnswerInv'
      BY <1>6 DEF WorkerJudge, AnswerInv
    <2>4. DrainInv'
      BY <1>6 DEF WorkerJudge, DrainInv
    <2>5. CloseInv'
      BY <1>6 DEF WorkerJudge, CloseInv
    <2> QED
      BY <2>1, <2>2, <2>3, <2>4, <2>5
  <1> QED
    BY <1>1, <1>2, <1>3, <1>4, <1>5, <1>6 DEF TestStep

(* A step of close touches the worker's place, its result and what it      *)
(* holds open.                                                             *)
LEMMA CloseTypes ==
  ASSUME TypeOK,
         wpc' \in {"stdin", "wait1", "swCheck", "swClose", "swForget", "wait2",
                   "finCheck", "finClose", "finForget", "kill", "join",
                   "pipes", "confirm", "gone"},
         closing' \in {closing, "open", "failed"} \cup Floors,
         control' \in BOOLEAN, fdOpen' \in BOOLEAN, stdinOpen' \in BOOLEAN,
         UNCHANGED <<requestVars, verdict, fatal, overflow, drainVars, wire,
                     replies, farVars>>
  PROVE  TypeOK'
  <1>1. closing' \in {"open", "failed"} \cup Floors
    BY DEF TypeOK
  <1> QED
    BY <1>1 DEF TypeOK

(* The steps of close, and the end of the worker, keep it.                 *)
LEMMA CloseKeeps == BridgeInv /\ CloseStep => BridgeInv'
  <1> SUFFICES ASSUME BridgeInv, CloseStep PROVE BridgeInv'
    OBVIOUS
  <1> USE DEF BridgeInv
  <1>1. CASE CloseStdin
    <2>1. TypeOK'
      <3>1. wpc' \in {"wait1"} /\ UNCHANGED closing
        BY <1>1 DEF CloseStdin, Closing
      <3>2. /\ control' \in BOOLEAN
            /\ fdOpen' \in BOOLEAN /\ stdinOpen' \in BOOLEAN
        BY <1>1 DEF CloseStdin, Closing, TypeOK
      <3>3. UNCHANGED <<requestVars, verdict, fatal, overflow, drainVars, wire,
                        replies, farVars>>
        BY <1>1 DEF CloseStdin, Closing
      <3> QED
        BY <3>1, <3>2, <3>3, CloseTypes
    <2>2. ChannelInv'
      BY <1>1 DEF CloseStdin, Closing, ChannelInv
    <2>3. AnswerInv'
      BY <1>1 DEF CloseStdin, Closing, AnswerInv
    <2>4. DrainInv'
      BY <1>1 DEF CloseStdin, Closing, DrainInv
    <2>5. CloseInv'
      BY <1>1 DEF CloseStdin, Closing, CloseInv
    <2> QED
      BY <2>1, <2>2, <2>3, <2>4, <2>5
  <1>2. CASE CloseWait
    <2>1. TypeOK'
      <3>1. wpc' \in {"swCheck", "finCheck"} /\ closing' \in {closing, "failed"}
        BY <1>2 DEF CloseWait, Closing
      <3>2. /\ control' \in BOOLEAN
            /\ fdOpen' \in BOOLEAN /\ stdinOpen' \in BOOLEAN
        BY <1>2 DEF CloseWait, Closing, TypeOK
      <3>3. UNCHANGED <<requestVars, verdict, fatal, overflow, drainVars, wire,
                        replies, farVars>>
        BY <1>2 DEF CloseWait, Closing
      <3> QED
        BY <3>1, <3>2, <3>3, CloseTypes
    <2>2. ChannelInv'
      BY <1>2 DEF CloseWait, Closing, ChannelInv
    <2>3. AnswerInv'
      BY <1>2 DEF CloseWait, Closing, AnswerInv
    <2>4. DrainInv'
      BY <1>2 DEF CloseWait, Closing, DrainInv
    <2>5. CloseInv'
      BY <1>2 DEF CloseWait, Closing, CloseInv
    <2> QED
      BY <2>1, <2>2, <2>3, <2>4, <2>5
  <1>3. CASE CloseCheck
    <2>1. TypeOK'
      <3>1. /\ wpc' \in {"swClose", "wait2", "finClose", "kill"}
            /\ UNCHANGED closing
        BY <1>3 DEF CloseCheck, Closing
      <3>2. /\ control' \in BOOLEAN
            /\ fdOpen' \in BOOLEAN /\ stdinOpen' \in BOOLEAN
        BY <1>3 DEF CloseCheck, Closing, TypeOK
      <3>3. UNCHANGED <<requestVars, verdict, fatal, overflow, drainVars, wire,
                        replies, farVars>>
        BY <1>3 DEF CloseCheck, Closing
      <3> QED
        BY <3>1, <3>2, <3>3, CloseTypes
    <2>2. ChannelInv'
      BY <1>3 DEF CloseCheck, Closing, ChannelInv
    <2>3. AnswerInv'
      BY <1>3 DEF CloseCheck, Closing, AnswerInv
    <2>4. DrainInv'
      BY <1>3 DEF CloseCheck, Closing, DrainInv
    <2>5. CloseInv'
      BY <1>3 DEF CloseCheck, Closing, CloseInv
    <2> QED
      BY <2>1, <2>2, <2>3, <2>4, <2>5
  <1>4. CASE CloseControl
    <2>1. TypeOK'
      <3>1. /\ wpc' \in {"swForget", "finForget", "finCheck", "gone"}
            /\ closing' \in {closing, "failed"}
        BY <1>4 DEF CloseControl, Closing
      <3>2. /\ control' \in BOOLEAN
            /\ fdOpen' \in BOOLEAN /\ stdinOpen' \in BOOLEAN
        BY <1>4 DEF CloseControl, Closing, TypeOK
      <3>3. UNCHANGED <<requestVars, verdict, fatal, overflow, drainVars, wire,
                        replies, farVars>>
        BY <1>4 DEF CloseControl, Closing
      <3> QED
        BY <3>1, <3>2, <3>3, CloseTypes
    <2>2. ChannelInv'
      BY <1>4 DEF CloseControl, Closing, ChannelInv
    <2>3. AnswerInv'
      BY <1>4 DEF CloseControl, Closing, AnswerInv
    <2>4. DrainInv'
      BY <1>4 DEF CloseControl, Closing, DrainInv
    <2>5. CloseInv'
      BY <1>4 DEF CloseControl, Closing, CloseInv
    <2> QED
      BY <2>1, <2>2, <2>3, <2>4, <2>5
  <1>5. CASE CloseForget
    <2>1. TypeOK'
      <3>1. wpc' \in {"wait2", "kill"} /\ UNCHANGED closing
        BY <1>5 DEF CloseForget, Closing
      <3>2. /\ control' \in BOOLEAN
            /\ fdOpen' \in BOOLEAN /\ stdinOpen' \in BOOLEAN
        BY <1>5 DEF CloseForget, Closing, TypeOK
      <3>3. UNCHANGED <<requestVars, verdict, fatal, overflow, drainVars, wire,
                        replies, farVars>>
        BY <1>5 DEF CloseForget, Closing
      <3> QED
        BY <3>1, <3>2, <3>3, CloseTypes
    <2>2. ChannelInv'
      BY <1>5 DEF CloseForget, Closing, ChannelInv
    <2>3. AnswerInv'
      BY <1>5 DEF CloseForget, Closing, AnswerInv
    <2>4. DrainInv'
      BY <1>5 DEF CloseForget, Closing, DrainInv
    <2>5. CloseInv'
      BY <1>5 DEF CloseForget, Closing, CloseInv
    <2> QED
      BY <2>1, <2>2, <2>3, <2>4, <2>5
  <1>6. CASE CloseKill
    <2>1. TypeOK'
      <3>1. wpc' \in {"join", "gone"} /\ closing' \in {closing, "failed"}
        BY <1>6 DEF CloseKill, Closing
      <3>2. /\ control' \in BOOLEAN
            /\ fdOpen' \in BOOLEAN /\ stdinOpen' \in BOOLEAN
        BY <1>6 DEF CloseKill, Closing, TypeOK
      <3>3. UNCHANGED <<requestVars, verdict, fatal, overflow, drainVars, wire,
                        replies, farVars>>
        BY <1>6 DEF CloseKill, Closing
      <3> QED
        BY <3>1, <3>2, <3>3, CloseTypes
    <2>2. ChannelInv'
      BY <1>6 DEF CloseKill, Closing, ChannelInv
    <2>3. AnswerInv'
      BY <1>6 DEF CloseKill, Closing, AnswerInv
    <2>4. DrainInv'
      BY <1>6 DEF CloseKill, Closing, DrainInv
    <2>5. CloseInv'
      BY <1>6 DEF CloseKill, Closing, CloseInv
    <2> QED
      BY <2>1, <2>2, <2>3, <2>4, <2>5
  <1>7. CASE CloseJoin
    <2>1. TypeOK'
      <3>1. wpc' \in {"pipes"} /\ UNCHANGED closing
        BY <1>7 DEF CloseJoin, Closing
      <3>2. /\ control' \in BOOLEAN
            /\ fdOpen' \in BOOLEAN /\ stdinOpen' \in BOOLEAN
        BY <1>7 DEF CloseJoin, Closing, TypeOK
      <3>3. UNCHANGED <<requestVars, verdict, fatal, overflow, drainVars, wire,
                        replies, farVars>>
        BY <1>7 DEF CloseJoin, Closing
      <3> QED
        BY <3>1, <3>2, <3>3, CloseTypes
    <2>2. ChannelInv'
      BY <1>7 DEF CloseJoin, Closing, ChannelInv
    <2>3. AnswerInv'
      BY <1>7 DEF CloseJoin, Closing, AnswerInv
    <2>4. DrainInv'
      BY <1>7 DEF CloseJoin, Closing, DrainInv
    <2>5. CloseInv'
      BY <1>7 DEF CloseJoin, Closing, CloseInv
    <2> QED
      BY <2>1, <2>2, <2>3, <2>4, <2>5
  <1>8. CASE ClosePipes
    <2>1. TypeOK'
      <3>1. wpc' \in {"confirm"} /\ UNCHANGED closing
        BY <1>8 DEF ClosePipes, Closing
      <3>2. /\ control' \in BOOLEAN
            /\ fdOpen' \in BOOLEAN /\ stdinOpen' \in BOOLEAN
        BY <1>8 DEF ClosePipes, Closing, TypeOK
      <3>3. UNCHANGED <<requestVars, verdict, fatal, overflow, drainVars, wire,
                        replies, farVars>>
        BY <1>8 DEF ClosePipes, Closing
      <3> QED
        BY <3>1, <3>2, <3>3, CloseTypes
    <2>2. ChannelInv'
      BY <1>8 DEF ClosePipes, Closing, ChannelInv
    <2>3. AnswerInv'
      BY <1>8 DEF ClosePipes, Closing, AnswerInv
    <2>4. DrainInv'
      BY <1>8 DEF ClosePipes, Closing, DrainInv
    <2>5. CloseInv'
      BY <1>8 DEF ClosePipes, Closing, CloseInv
    <2> QED
      BY <2>1, <2>2, <2>3, <2>4, <2>5
  <1>9. CASE CloseConfirm
    <2>1. TypeOK'
      <3>1. wpc' \in {"gone"} /\ closing' \in {"failed"} \cup Floors
        BY <1>9 DEF CloseConfirm, Closing
      <3>2. /\ control' \in BOOLEAN
            /\ fdOpen' \in BOOLEAN /\ stdinOpen' \in BOOLEAN
        BY <1>9 DEF CloseConfirm, Closing, TypeOK
      <3>3. UNCHANGED <<requestVars, verdict, fatal, overflow, drainVars, wire,
                        replies, farVars>>
        BY <1>9 DEF CloseConfirm, Closing
      <3> QED
        BY <3>1, <3>2, <3>3, CloseTypes
    <2>2. ChannelInv'
      BY <1>9 DEF CloseConfirm, Closing, ChannelInv
    <2>3. AnswerInv'
      BY <1>9 DEF CloseConfirm, Closing, AnswerInv
    <2>4. DrainInv'
      BY <1>9 DEF CloseConfirm, Closing, DrainInv
    <2>5. CloseInv'
      BY <1>9 DEF CloseConfirm, Closing, CloseInv
    <2> QED
      BY <2>1, <2>2, <2>3, <2>4, <2>5
  <1>10. CASE WorkerKilled
    <2>1. TypeOK'
      <3>1. wpc' \in {"gone"} /\ closing' \in {"failed"}
        BY <1>10 DEF WorkerKilled
      <3>2. /\ control' \in BOOLEAN
            /\ fdOpen' \in BOOLEAN /\ stdinOpen' \in BOOLEAN
        BY <1>10 DEF WorkerKilled, TypeOK
      <3>3. UNCHANGED <<requestVars, verdict, fatal, overflow, drainVars, wire,
                        replies, farVars>>
        BY <1>10 DEF WorkerKilled
      <3> QED
        BY <3>1, <3>2, <3>3, CloseTypes
    <2>2. ChannelInv'
      BY <1>10 DEF WorkerKilled, ChannelInv
    <2>3. AnswerInv'
      BY <1>10 DEF WorkerKilled, AnswerInv
    <2>4. DrainInv'
      BY <1>10 DEF WorkerKilled, DrainInv
    <2>5. CloseInv'
      BY <1>10 DEF WorkerKilled, CloseInv
    <2> QED
      BY <2>1, <2>2, <2>3, <2>4, <2>5
  <1> QED
    BY <1>1, <1>2, <1>3, <1>4, <1>5, <1>6, <1>7, <1>8, <1>9, <1>10 DEF
        CloseStep

(* The drain thread keeps it.                                              *)
LEMMA DrainKeeps == BridgeInv /\ DrainStep => BridgeInv'
  <1> SUFFICES ASSUME BridgeInv, DrainStep PROVE BridgeInv'
    OBVIOUS
  <1> USE DEF BridgeInv
  <1>1. CASE DrainEnter
    <2>1. TypeOK'
      BY <1>1 DEF DrainEnter, DrainAt, TypeOK
    <2>2. ChannelInv'
      BY <1>1 DEF DrainEnter, DrainAt, ChannelInv
    <2>3. AnswerInv'
      BY <1>1 DEF DrainEnter, DrainAt, AnswerInv
    <2>4. DrainInv'
      BY <1>1 DEF DrainEnter, DrainAt, DrainInv
    <2>5. CloseInv'
      BY <1>1 DEF DrainEnter, DrainAt, CloseInv
    <2> QED
      BY <2>1, <2>2, <2>3, <2>4, <2>5
  <1>2. CASE DrainClosed
    <2>1. TypeOK'
      BY <1>2 DEF DrainClosed, DrainAt, TypeOK
    <2>2. ChannelInv'
      BY <1>2 DEF DrainClosed, DrainAt, ChannelInv
    <2>3. AnswerInv'
      BY <1>2 DEF DrainClosed, DrainAt, AnswerInv
    <2>4. DrainInv'
      BY <1>2 DEF DrainClosed, DrainAt, DrainInv
    <2>5. CloseInv'
      BY <1>2 DEF DrainClosed, DrainAt, CloseInv
    <2> QED
      BY <2>1, <2>2, <2>3, <2>4, <2>5
  <1>3. CASE DrainRead
    <2>1. TypeOK'
      BY <1>3 DEF DrainRead, DrainAt, TypeOK, DrainInv
    <2>2. ChannelInv'
      BY <1>3 DEF DrainRead, DrainAt, ChannelInv
    <2>3. AnswerInv'
      BY <1>3 DEF DrainRead, DrainAt, AnswerInv
    <2>4. DrainInv'
      BY <1>3 DEF DrainRead, DrainAt, DrainInv, TypeOK
    <2>5. CloseInv'
      BY <1>3 DEF DrainRead, DrainAt, CloseInv
    <2> QED
      BY <2>1, <2>2, <2>3, <2>4, <2>5
  <1>4. CASE DrainFlag
    <2>1. TypeOK'
      BY <1>4 DEF DrainFlag, DrainAt, TypeOK
    <2>2. ChannelInv'
      BY <1>4 DEF DrainFlag, DrainAt, ChannelInv
    <2>3. AnswerInv'
      BY <1>4 DEF DrainFlag, DrainAt, AnswerInv
    <2>4. DrainInv'
      BY <1>4 DEF DrainFlag, DrainAt, DrainInv
    <2>5. CloseInv'
      BY <1>4 DEF DrainFlag, DrainAt, CloseInv
    <2> QED
      BY <2>1, <2>2, <2>3, <2>4, <2>5
  <1>5. CASE DrainLatch
    <2>1. TypeOK'
      BY <1>5 DEF DrainLatch, DrainAt, TypeOK
    <2>2. ChannelInv'
      BY <1>5 DEF DrainLatch, DrainAt, ChannelInv
    <2>3. AnswerInv'
      BY <1>5 DEF DrainLatch, DrainAt, AnswerInv
    <2>4. DrainInv'
      BY <1>5 DEF DrainLatch, DrainAt, DrainInv
    <2>5. CloseInv'
      BY <1>5 DEF DrainLatch, DrainAt, CloseInv
    <2> QED
      BY <2>1, <2>2, <2>3, <2>4, <2>5
  <1>6. CASE DrainCheck
    <2>1. TypeOK'
      BY <1>6 DEF DrainCheck, DrainAt, TypeOK
    <2>2. ChannelInv'
      BY <1>6 DEF DrainCheck, DrainAt, ChannelInv
    <2>3. AnswerInv'
      BY <1>6 DEF DrainCheck, DrainAt, AnswerInv
    <2>4. DrainInv'
      BY <1>6 DEF DrainCheck, DrainAt, DrainInv
    <2>5. CloseInv'
      BY <1>6 DEF DrainCheck, DrainAt, CloseInv
    <2> QED
      BY <2>1, <2>2, <2>3, <2>4, <2>5
  <1>7. CASE DrainClose
    <2>1. TypeOK'
      <3>1. fdOpen' \in BOOLEAN
        BY <1>7 DEF DrainClose, DrainAt, TypeOK
      <3> QED
        BY <1>7, <3>1 DEF DrainClose, DrainAt, TypeOK
    <2>2. ChannelInv'
      BY <1>7 DEF DrainClose, DrainAt, ChannelInv
    <2>3. AnswerInv'
      BY <1>7 DEF DrainClose, DrainAt, AnswerInv
    <2>4. DrainInv'
      BY <1>7 DEF DrainClose, DrainAt, DrainInv
    <2>5. CloseInv'
      BY <1>7 DEF DrainClose, DrainAt, CloseInv, DrainInv
    <2> QED
      BY <2>1, <2>2, <2>3, <2>4, <2>5
  <1>8. CASE DrainForget
    <2>1. TypeOK'
      <3>1. control' \in BOOLEAN
        BY <1>8 DEF DrainForget, DrainAt, TypeOK
      <3> QED
        BY <1>8, <3>1 DEF DrainForget, DrainAt, TypeOK
    <2>2. ChannelInv'
      BY <1>8 DEF DrainForget, DrainAt, ChannelInv
    <2>3. AnswerInv'
      BY <1>8 DEF DrainForget, DrainAt, AnswerInv
    <2>4. DrainInv'
      BY <1>8 DEF DrainForget, DrainAt, DrainInv
    <2>5. CloseInv'
      BY <1>8 DEF DrainForget, DrainAt, CloseInv
    <2> QED
      BY <2>1, <2>2, <2>3, <2>4, <2>5
  <1>9. CASE DrainEof
    <2>1. TypeOK'
      BY <1>9 DEF DrainEof, DrainAt, TypeOK
    <2>2. ChannelInv'
      BY <1>9 DEF DrainEof, DrainAt, ChannelInv
    <2>3. AnswerInv'
      BY <1>9 DEF DrainEof, DrainAt, AnswerInv
    <2>4. DrainInv'
      BY <1>9 DEF DrainEof, DrainAt, DrainInv
    <2>5. CloseInv'
      BY <1>9 DEF DrainEof, DrainAt, CloseInv
    <2> QED
      BY <2>1, <2>2, <2>3, <2>4, <2>5
  <1> QED
    BY <1>1, <1>2, <1>3, <1>4, <1>5, <1>6, <1>7, <1>8, <1>9 DEF DrainStep

(* The broker and the noise of the executor keep it.                       *)
LEMMA BrokerKeeps == BridgeInv /\ BrokerStep => BridgeInv'
  <1> SUFFICES ASSUME BridgeInv, BrokerStep PROVE BridgeInv'
    OBVIOUS
  <1> USE DEF BridgeInv
  <1>1. CASE BrokerRead
    <2>1. TypeOK'
      BY <1>1 DEF BrokerRead, FarAt, TypeOK
    <2>2. ChannelInv'
      BY <1>1 DEF BrokerRead, FarAt, ChannelInv
    <2>3. AnswerInv'
      BY <1>1 DEF BrokerRead, FarAt, AnswerInv
    <2>4. DrainInv'
      BY <1>1 DEF BrokerRead, FarAt, DrainInv
    <2>5. CloseInv'
      BY <1>1 DEF BrokerRead, FarAt, CloseInv
    <2> QED
      BY <2>1, <2>2, <2>3, <2>4, <2>5
  <1>2. CASE BrokerEof
    <2>1. TypeOK'
      BY <1>2 DEF BrokerEof, FarAt, TypeOK
    <2>2. ChannelInv'
      BY <1>2 DEF BrokerEof, FarAt, ChannelInv
    <2>3. AnswerInv'
      BY <1>2 DEF BrokerEof, FarAt, AnswerInv
    <2>4. DrainInv'
      BY <1>2 DEF BrokerEof, FarAt, DrainInv
    <2>5. CloseInv'
      BY <1>2 DEF BrokerEof, FarAt, CloseInv
    <2> QED
      BY <2>1, <2>2, <2>3, <2>4, <2>5
  <1>3. CASE BrokerServe
    <2>1. TypeOK'
      BY <1>3 DEF BrokerServe, FarAt, TypeOK, ChannelInv
    <2>2. ChannelInv'
      BY <1>3 DEF BrokerServe, FarAt, ChannelInv, TypeOK
    <2>3. AnswerInv'
      BY <1>3 DEF BrokerServe, FarAt, AnswerInv
    <2>4. DrainInv'
      BY <1>3 DEF BrokerServe, FarAt, DrainInv
    <2>5. CloseInv'
      BY <1>3 DEF BrokerServe, FarAt, CloseInv
    <2> QED
      BY <2>1, <2>2, <2>3, <2>4, <2>5
  <1>4. CASE BrokerFail
    <2>1. TypeOK'
      BY <1>4 DEF BrokerFail, FarAt, TypeOK
    <2>2. ChannelInv'
      BY <1>4 DEF BrokerFail, FarAt, ChannelInv
    <2>3. AnswerInv'
      BY <1>4 DEF BrokerFail, FarAt, AnswerInv
    <2>4. DrainInv'
      BY <1>4 DEF BrokerFail, FarAt, DrainInv
    <2>5. CloseInv'
      BY <1>4 DEF BrokerFail, FarAt, CloseInv
    <2> QED
      BY <2>1, <2>2, <2>3, <2>4, <2>5
  <1>5. CASE BrokerSpent
    <2>1. TypeOK'
      BY <1>5 DEF BrokerSpent, FarAt, TypeOK
    <2>2. ChannelInv'
      BY <1>5 DEF BrokerSpent, FarAt, ChannelInv
    <2>3. AnswerInv'
      BY <1>5 DEF BrokerSpent, FarAt, AnswerInv
    <2>4. DrainInv'
      BY <1>5 DEF BrokerSpent, FarAt, DrainInv
    <2>5. CloseInv'
      BY <1>5 DEF BrokerSpent, FarAt, CloseInv
    <2> QED
      BY <2>1, <2>2, <2>3, <2>4, <2>5
  <1>6. CASE Chatter
    <2>1. TypeOK'
      BY <1>6 DEF Chatter, FarAt, TypeOK
    <2>2. ChannelInv'
      BY <1>6 DEF Chatter, FarAt, ChannelInv
    <2>3. AnswerInv'
      BY <1>6 DEF Chatter, FarAt, AnswerInv
    <2>4. DrainInv'
      BY <1>6 DEF Chatter, FarAt, DrainInv, TypeOK
    <2>5. CloseInv'
      BY <1>6 DEF Chatter, FarAt, CloseInv
    <2> QED
      BY <2>1, <2>2, <2>3, <2>4, <2>5
  <1> QED
    BY <1>1, <1>2, <1>3, <1>4, <1>5, <1>6 DEF BrokerStep

(* The launcher keeps it.                                                  *)
LEMMA TeardownKeeps == BridgeInv /\ TeardownStep => BridgeInv'
  <1> SUFFICES ASSUME BridgeInv, TeardownStep PROVE BridgeInv'
    OBVIOUS
  <1> USE DEF BridgeInv
  <1>1. CASE LauncherReap
    <2>1. TypeOK'
      BY <1>1 DEF LauncherReap, FarAt, TypeOK
    <2>2. ChannelInv'
      BY <1>1 DEF LauncherReap, FarAt, ChannelInv
    <2>3. AnswerInv'
      BY <1>1 DEF LauncherReap, FarAt, AnswerInv
    <2>4. DrainInv'
      BY <1>1 DEF LauncherReap, FarAt, DrainInv
    <2>5. CloseInv'
      BY <1>1 DEF LauncherReap, FarAt, CloseInv
    <2> QED
      BY <2>1, <2>2, <2>3, <2>4, <2>5
  <1>2. CASE LauncherLifeline
    <2>1. TypeOK'
      BY <1>2 DEF LauncherLifeline, FarAt, TypeOK
    <2>2. ChannelInv'
      BY <1>2 DEF LauncherLifeline, FarAt, ChannelInv
    <2>3. AnswerInv'
      BY <1>2 DEF LauncherLifeline, FarAt, AnswerInv
    <2>4. DrainInv'
      BY <1>2 DEF LauncherLifeline, FarAt, DrainInv
    <2>5. CloseInv'
      BY <1>2 DEF LauncherLifeline, FarAt, CloseInv
    <2> QED
      BY <2>1, <2>2, <2>3, <2>4, <2>5
  <1>3. CASE LauncherGraceOver
    <2>1. TypeOK'
      BY <1>3 DEF LauncherGraceOver, FarAt, TypeOK
    <2>2. ChannelInv'
      BY <1>3 DEF LauncherGraceOver, FarAt, ChannelInv
    <2>3. AnswerInv'
      BY <1>3 DEF LauncherGraceOver, FarAt, AnswerInv
    <2>4. DrainInv'
      BY <1>3 DEF LauncherGraceOver, FarAt, DrainInv
    <2>5. CloseInv'
      BY <1>3 DEF LauncherGraceOver, FarAt, CloseInv
    <2> QED
      BY <2>1, <2>2, <2>3, <2>4, <2>5
  <1>4. CASE LauncherGivesUp
    <2>1. TypeOK'
      BY <1>4 DEF LauncherGivesUp, FarAt, TypeOK
    <2>2. ChannelInv'
      BY <1>4 DEF LauncherGivesUp, FarAt, ChannelInv
    <2>3. AnswerInv'
      BY <1>4 DEF LauncherGivesUp, FarAt, AnswerInv
    <2>4. DrainInv'
      BY <1>4 DEF LauncherGivesUp, FarAt, DrainInv
    <2>5. CloseInv'
      BY <1>4 DEF LauncherGivesUp, FarAt, CloseInv
    <2> QED
      BY <2>1, <2>2, <2>3, <2>4, <2>5
  <1>5. CASE LauncherExit
    <2>1. TypeOK'
      BY <1>5 DEF LauncherExit, FarAt, TypeOK
    <2>2. ChannelInv'
      BY <1>5 DEF LauncherExit, FarAt, ChannelInv
    <2>3. AnswerInv'
      BY <1>5 DEF LauncherExit, FarAt, AnswerInv
    <2>4. DrainInv'
      BY <1>5 DEF LauncherExit, FarAt, DrainInv
    <2>5. CloseInv'
      BY <1>5 DEF LauncherExit, FarAt, CloseInv
    <2> QED
      BY <2>1, <2>2, <2>3, <2>4, <2>5
  <1>6. CASE NamespaceEnds
    <2>1. TypeOK'
      BY <1>6 DEF NamespaceEnds, FarAt, TypeOK
    <2>2. ChannelInv'
      BY <1>6 DEF NamespaceEnds, FarAt, ChannelInv
    <2>3. AnswerInv'
      BY <1>6 DEF NamespaceEnds, FarAt, AnswerInv
    <2>4. DrainInv'
      BY <1>6 DEF NamespaceEnds, FarAt, DrainInv
    <2>5. CloseInv'
      BY <1>6 DEF NamespaceEnds, FarAt, CloseInv
    <2> QED
      BY <2>1, <2>2, <2>3, <2>4, <2>5
  <1> QED
    BY <1>1, <1>2, <1>3, <1>4, <1>5, <1>6 DEF TeardownStep

(* Stuttering keeps it.                                                    *)
LEMMA BridgeStutter == BridgeInv /\ UNCHANGED vars => BridgeInv'
  <1> SUFFICES ASSUME BridgeInv, UNCHANGED vars PROVE BridgeInv'
    OBVIOUS
  <1> USE DEF BridgeInv, vars
  <1>1. TypeOK'
    BY DEF TypeOK
  <1>2. ChannelInv' /\ AnswerInv'
    BY DEF ChannelInv, AnswerInv
  <1>3. DrainInv' /\ CloseInv'
    BY DEF DrainInv, CloseInv
  <1> QED
    BY <1>1, <1>2, <1>3

(* Every step of the specification keeps the invariant.                    *)
LEMMA BridgeStep == BridgeInv /\ [Next]_vars => BridgeInv'
  <1> SUFFICES ASSUME BridgeInv, [Next]_vars PROVE BridgeInv'
    OBVIOUS
  <1>1. CASE WorkerRequest \/ WorkerJudge \/ WorkerStep \/ WorkerTimeout
               \/ WorkerKilled
    <2>1. TestStep \/ CloseStep
      BY <1>1 DEF WorkerStep, TestStep, CloseStep
    <2> QED
      BY <2>1, TestsKeep, CloseKeeps
  <1>2. CASE DrainStep
    BY <1>2, DrainKeeps
  <1>3. CASE FarStep
    <2>1. BrokerStep \/ TeardownStep
      BY <1>3 DEF FarStep, LauncherStep, BrokerStep, TeardownStep
    <2> QED
      BY <2>1, BrokerKeeps, TeardownKeeps
  <1>4. CASE UNCHANGED vars
    BY <1>4, BridgeStutter
  <1> QED
    BY <1>1, <1>2, <1>3, <1>4 DEF Next, Terminated

(* The inductive invariant holds of every execution.                       *)
THEOREM BridgeInvariant == Spec => []BridgeInv
  BY BridgeInit, BridgeStep, PTL DEF Spec

(* The variables have their types, whatever the budgets.                   *)
THEOREM BridgeTypes == Spec => []TypeOK
  <1>1. BridgeInv => TypeOK
    BY DEF BridgeInv
  <1> QED
    BY <1>1, BridgeInvariant, PTL

(* A suite passes only if every request that went out had its response in  *)
(* time: of the failures of a request, only an exception that its except   *)
(* does not list leaves fatal clear, and then the response is used up.     *)
THEOREM PassedCorrect == Spec => []PassedMeansAnswered
  <1>1. BridgeInv => PassedMeansAnswered
    BY DEF BridgeInv, AnswerInv, PassedMeansAnswered
  <1> QED
    BY <1>1, BridgeInvariant, PTL

(* No stale request or answer is in the channel when a request is written, *)
(* and the comparison of the sequence numbers never fires.                 *)
THEOREM ChannelCorrect == Spec => []CleanChannel
  <1>1. BridgeInv => CleanChannel
    BY DEF BridgeInv, ChannelInv, CleanChannel
  <1> QED
    BY <1>1, BridgeInvariant, PTL

(* A frozen floor completes only if its actor never wrote to stderr and    *)
(* the namespace is gone (_require_silent_actor after the join in close).  *)
THEOREM FrozenCorrect == Spec => []FrozenMeansSilent
  <1>1. BridgeInv => FrozenMeansSilent
    <2> SUFFICES ASSUME BridgeInv, closing = "frozen"
                 PROVE  emitted = 0 /\ lpc = "ended" /\ ~overflow
      BY DEF FrozenMeansSilent
    <2>1. dpc = "done" /\ drained = 0
      BY DEF BridgeInv, CloseInv
    <2>2. pipe = 0 /\ lpc = "ended" /\ ~overflow /\ emitted = pipe + drained
      BY <2>1 DEF BridgeInv, DrainInv
    <2> QED
      BY <2>1, <2>2
  <1> QED
    BY <1>1, BridgeInvariant, PTL

(* The lifeline closes after the broker's end of input, or for an overflow *)
(* only: no path of close, of the drain thread or of the end of the worker *)
(* closes it earlier.                                                      *)
THEOREM LifelineCorrect == Spec => []LifelineLast
  <1>1. BridgeInv => LifelineLast
    BY DEF BridgeInv, CloseInv, LifelineLast
  <1> QED
    BY <1>1, BridgeInvariant, PTL
-----------------------------------------------------------------------------
(* What the worker has of the far end is the service that the executor     *)
(* implements.  Requests are told apart by how many have been sent and all *)
(* ask for and observe the same, and a response counts as the answer by    *)
(* its arrival, also when its content then breaks request; the channel is  *)
(* closed from the first latched failure, the overflow or the verdict on.  *)
Shut == \/ overflow
        \/ ~InRequest /\ wpc # "test"
        \/ wpc = "test" /\ (fatal # "none" \/ verdict # "open")
Phase == CASE Shut -> "closed"
           [] ~Shut /\ wpc \in {"test", "send"} -> "idle"
           [] ~Shut /\ wpc \in {"await", "got"} /\ replies = <<>> -> "pending"
           [] OTHER -> "executed"
Observed == [payload |-> "call", kind |-> "response"]

Obs == INSTANCE Observation WITH
         Payloads <- {"call"}, Kinds <- {"response"},
         phase <- Phase, observation <- Observed,
         request <- [seq |-> sent, payload |-> "call"],
         answer <- [seq |-> Served, observation |-> Observed]

(* A request under way is one that nothing has failed, unless the actor    *)
(* is over its budget.                                                     *)
FatalInv == (InRequest /\ ~overflow) => fatal = "none"

(* Only the drain thread touches fatal while a request is under way.       *)
LEMMA FatalStep == BridgeInv /\ FatalInv /\ [Next]_vars => FatalInv'
  <1> SUFFICES ASSUME BridgeInv, FatalInv, [Next]_vars PROVE FatalInv'
    OBVIOUS
  <1> USE DEF FatalInv, InRequest
  <1>1. CASE WorkerRequest \/ WorkerJudge \/ WorkerStep \/ WorkerTimeout
               \/ WorkerKilled
    BY <1>1 DEF WorkerRequest, WorkerJudge, WorkerStep, WorkerTimeout,
        WorkerKilled, WorkerSend, WorkerReceive, WorkerAccept, CloseStdin,
        CloseWait, CloseCheck, CloseControl, CloseForget, CloseKill,
        CloseJoin, ClosePipes, CloseConfirm, Closing
  <1>2. CASE DrainStep
    <2>1. dpc = "latch" => overflow
      BY DEF BridgeInv, DrainInv
    <2> QED
      BY <1>2, <2>1 DEF DrainStep, DrainAt, DrainEnter, DrainClosed,
          DrainRead, DrainFlag, DrainLatch, DrainCheck, DrainClose,
          DrainForget, DrainEof
  <1>3. CASE FarStep
    BY <1>3 DEF FarStep, FarAt, BrokerRead, BrokerEof, BrokerServe,
        BrokerFail, BrokerSpent, Chatter, LauncherStep, LauncherReap,
        LauncherLifeline, LauncherExit, NamespaceEnds, LauncherGivesUp,
        LauncherGraceOver
  <1>4. CASE UNCHANGED vars
    BY <1>4 DEF vars
  <1> QED
    BY <1>1, <1>2, <1>3, <1>4 DEF Next, Terminated

(* A step that sends nothing and accepts no answer either leaves the phase *)
(* alone or closes the channel.                                            *)
LEMMA ClosingMaps ==
  ASSUME UNCHANGED <<sent, answered, escaped, escaped>>, Phase' = Phase \/ Phase' = "closed"
  PROVE  [Obs!AbsNext]_(Obs!absVars)
  BY DEF Obs!AbsNext, Obs!Shut, Obs!absVars, Observed

(* WorkerSend issues the request, on a channel that has nothing else.      *)
LEMMA SendMaps ==
  ASSUME BridgeInv, WorkerSend
  PROVE  [Obs!AbsNext]_(Obs!absVars)
  <1>1. CASE overflow
    <2>1. UNCHANGED <<sent, answered, escaped, escaped>> /\ Phase' = "closed"
      BY <1>1 DEF WorkerSend, Phase, Shut
    <2> QED
      BY <2>1, ClosingMaps
  <1>2. CASE ~overflow
    <2>1. /\ sent' = sent + 1 /\ sent \in Nat
          /\ UNCHANGED <<answered, escaped>>
          /\ replies = <<>>
      BY <1>2 DEF WorkerSend, BridgeInv, TypeOK, ChannelInv
    <2>2. Phase = "idle" /\ Phase' = "pending"
      BY <1>2, <2>1 DEF WorkerSend, Phase, Shut, InRequest
    <2> QED
      BY <2>1, <2>2 DEF Obs!AbsNext, Obs!Issue, Obs!NewRequest, Observed
  <1> QED
    BY <1>1, <1>2

(* BrokerServe executes the request that the worker waits for, or one that *)
(* nobody waits for any more.                                              *)
LEMMA ServeMaps ==
  ASSUME BridgeInv, BrokerServe
  PROVE  [Obs!AbsNext]_(Obs!absVars)
  <1>1. UNCHANGED <<sent, answered, escaped, wpc, overflow, fatal, verdict>>
    BY DEF BrokerServe, FarAt
  <1>2. CASE Shut
    <2>1. Phase' = "closed"
      BY <1>1, <1>2 DEF Phase, Shut, InRequest
    <2> QED
      BY <1>1, <2>1, ClosingMaps
  <1>3. CASE ~Shut
    <2>1. wire # 0
      BY DEF BrokerServe, BridgeInv, ChannelInv
    <2>2. wpc = "await" /\ replies = <<>>
      BY <1>3, <2>1 DEF BridgeInv, ChannelInv, Shut, InRequest
    <2>3. replies' # <<>>
      BY <2>2 DEF BrokerServe
    <2>4. Phase = "pending" /\ Phase' = "executed"
      BY <1>1, <1>3, <2>2, <2>3 DEF Phase, Shut, InRequest
    <2> QED
      BY <1>1, <2>4 DEF Obs!AbsNext, Obs!Execute, Observed
  <1> QED
    BY <1>2, <1>3

(* WorkerAccept returns the answer to the last request, or fails it.       *)
LEMMA AcceptMaps ==
  ASSUME BridgeInv, FatalInv, WorkerAccept
  PROVE  [Obs!AbsNext]_(Obs!absVars)
  <1>1. /\ wpc = "got" /\ wpc' = "test" /\ UNCHANGED <<sent, overflow, verdict>>
        /\ \/ /\ UNCHANGED answered /\ escaped' = escaped + 1
              /\ ~overflow /\ UNCHANGED fatal
           \/ /\ UNCHANGED escaped /\ answered' = answered + 1
              /\ ~overflow /\ UNCHANGED fatal
           \/ fatal' # "none" /\ UNCHANGED <<answered, escaped>>
    BY AcceptEnds
  <1>2. CASE ~overflow /\ UNCHANGED fatal /\ Served' = Served + 1
    <2>1. replies # <<>> /\ sent = Served + 1
      BY <1>1 DEF BridgeInv, ChannelInv, AnswerInv
    <2>2. verdict = "open"
      BY <1>1 DEF BridgeInv, AnswerInv
    <2>3. fatal = "none"
      BY <1>1, <1>2 DEF FatalInv, InRequest
    <2>4. Phase = "executed" /\ Phase' = "idle"
      BY <1>1, <1>2, <2>1, <2>2, <2>3 DEF Phase, Shut, InRequest
    <2> QED
      BY <1>1, <1>2, <2>1, <2>4 DEF Obs!AbsNext, Obs!Reply, Observed
  <1>3. CASE fatal' # "none" /\ UNCHANGED <<answered, escaped>>
    <2>1. Phase' = "closed"
      BY <1>1, <1>3 DEF Phase, Shut, InRequest
    <2> QED
      BY <1>1, <1>3, <2>1, ClosingMaps
  <1>4. answered \in Nat /\ escaped \in Nat
    BY DEF BridgeInv, TypeOK
  <1> QED
    BY <1>1, <1>2, <1>3, <1>4

(* Every step maps to a step of the service or to a stutter.               *)
LEMMA BridgeMaps ==
  BridgeInv /\ FatalInv /\ [Next]_vars => [Obs!AbsNext]_(Obs!absVars)
  <1> SUFFICES ASSUME BridgeInv, FatalInv, [Next]_vars
               PROVE  [Obs!AbsNext]_(Obs!absVars)
    OBVIOUS
  <1>1. CASE WorkerSend
    BY <1>1, SendMaps
  <1>2. CASE WorkerAccept
    BY <1>2, AcceptMaps
  <1>3. CASE BrokerServe
    BY <1>3, ServeMaps
  <1>4. CASE WorkerRequest \/ WorkerReceive \/ WorkerTimeout \/ WorkerJudge
    <2>1. UNCHANGED <<sent, answered, escaped, overflow, replies>>
      BY <1>4 DEF WorkerRequest, WorkerReceive, WorkerTimeout, WorkerJudge
    <2>2. Phase' = Phase \/ Phase' = "closed"
      BY <1>4, <2>1 DEF WorkerRequest, WorkerReceive, WorkerTimeout,
          WorkerJudge, Phase, Shut, InRequest
    <2> QED
      BY <2>1, <2>2, ClosingMaps
  <1>5. CASE CloseStep
    <2>1. /\ UNCHANGED <<sent, answered, escaped, escaped>>
          /\ wpc' \notin {"test", "send", "await", "got"}
      BY <1>5 DEF CloseStep, CloseStdin, CloseWait, CloseCheck, CloseControl,
          CloseForget, CloseKill, CloseJoin, ClosePipes, CloseConfirm,
          Closing, WorkerKilled
    <2>2. Phase' = "closed"
      BY <2>1 DEF Phase, Shut, InRequest
    <2> QED
      BY <2>1, <2>2, ClosingMaps
  <1>6. CASE DrainStep
    <2>1. /\ UNCHANGED <<sent, answered, escaped, wpc, verdict, replies>>
          /\ \/ UNCHANGED <<fatal, overflow>>
             \/ overflow' \/ wpc = "confirm"
      <3>1. dpc = "latch" => overflow
        BY DEF BridgeInv, DrainInv
      <3> QED
        BY <1>6, <3>1 DEF DrainStep, DrainAt, DrainEnter, DrainClosed,
            DrainRead, DrainFlag, DrainLatch, DrainCheck, DrainClose,
            DrainForget, DrainEof
    <2>2. UNCHANGED <<fatal, overflow>> => Phase' = Phase
      BY <2>1 DEF Phase, Shut, InRequest
    <2>3. overflow' \/ wpc = "confirm" => Phase' = "closed"
      <3>1. overflow' \/ wpc' = "confirm" => Shut'
        BY DEF Shut, InRequest
      <3> QED
        BY <2>1, <3>1 DEF Phase
    <2> QED
      BY <2>1, <2>2, <2>3, ClosingMaps
  <1>7. CASE \/ BrokerRead \/ BrokerEof \/ BrokerFail \/ BrokerSpent
             \/ Chatter \/ TeardownStep \/ UNCHANGED vars
    <2>1. UNCHANGED <<sent, answered, escaped, wpc, verdict, replies, fatal, overflow>>
      BY <1>7 DEF TeardownStep, FarAt, BrokerRead, BrokerEof, BrokerFail,
          BrokerSpent, Chatter, LauncherReap, LauncherLifeline, LauncherExit,
          NamespaceEnds, LauncherGivesUp, LauncherGraceOver, vars
    <2>2. Phase' = Phase
      BY <2>1 DEF Phase, Shut, InRequest
    <2> QED
      BY <2>1, <2>2, ClosingMaps
  <1> QED
    BY <1>1, <1>2, <1>3, <1>4, <1>5, <1>6, <1>7
       DEF Next, WorkerStep, CloseStep, FarStep, LauncherStep, TeardownStep,
           Terminated

(* The bridge implements Observation, the service of which the executor    *)
(* implements the other end: requests and answers alternate, each request  *)
(* is served at most once and before its answer, an answer that breaks     *)
(* request by an unlisted exception is one all the same, and after a       *)
(* latched failure, a timeout or the verdict nothing is sent or accepted   *)
(* (request, _exchange).                                                   *)
THEOREM BridgeImplements == Spec => Obs!AbsSpec
  <1>1. Init => Obs!AbsInit /\ FatalInv
    BY DEF Init, Obs!AbsInit, Phase, Shut, InRequest, FatalInv
  <1> QED
    BY <1>1, BridgeInvariant, FatalStep, BridgeMaps, PTL DEF Spec, Obs!AbsSpec

-----------------------------------------------------------------------------
(* A failure of the channel is final: once one of the two threads has      *)
(* latched it, no request is taken, written or answered any more, whatever *)
(* the other thread does next (the checks at the top of request and around *)
(* _exchange).  An overflow stays noticed, requests end with the verdict,  *)
(* which stands, and nothing mends a close that failed.                    *)
Final == /\ fatal # "none" => fatal' # "none" /\ UNCHANGED requestVars
         /\ overflow => overflow'
         /\ verdict # "open" => UNCHANGED <<verdict, requestVars>>
         /\ closing = "failed" => closing' = "failed"
FailureIsFinal == [][Final]_vars

(* A thread inside a request sees a failure only by its overflow.          *)
LEMMA TestsAreFinal == BridgeInv /\ FatalInv /\ TestStep => Final
  <1> SUFFICES ASSUME BridgeInv, FatalInv, TestStep PROVE Final
    OBVIOUS
  <1>1. /\ verdict # "open" => ~InRequest /\ wpc # "test"
        /\ InRequest /\ fatal # "none" => overflow
    BY DEF BridgeInv, AnswerInv, FatalInv, InRequest
  <1>2. CASE WorkerRequest
    BY <1>1, <1>2 DEF WorkerRequest, Final
  <1>3. CASE WorkerSend
    BY <1>1, <1>3 DEF WorkerSend, InRequest, Final
  <1>4. CASE WorkerReceive
    BY <1>1, <1>4 DEF WorkerReceive, InRequest, Final
  <1>5. CASE WorkerTimeout
    BY <1>1, <1>5 DEF WorkerTimeout, InRequest, Final
  <1>6. CASE WorkerAccept
    BY <1>1, <1>6 DEF WorkerAccept, InRequest, Final
  <1>7. CASE WorkerJudge
    BY <1>1, <1>7 DEF WorkerJudge, Final
  <1> QED
    BY <1>2, <1>3, <1>4, <1>5, <1>6, <1>7 DEF TestStep

(* Nothing after the tests sends a request or mends what has failed.       *)
LEMMA CloseIsFinal == BridgeInv /\ CloseStep => Final
  <1> SUFFICES ASSUME BridgeInv, CloseStep PROVE Final
    OBVIOUS
  <1>1. UNCHANGED <<requestVars, verdict, fatal, overflow>>
    BY DEF CloseStep, CloseStdin, CloseWait, CloseCheck, CloseControl,
        CloseForget, CloseKill, CloseJoin, ClosePipes, CloseConfirm, Closing,
        WorkerKilled
  <1>2. closing = "failed" => closing' = "failed"
    BY DEF CloseStep, CloseStdin, CloseWait, CloseCheck, CloseControl,
        CloseForget, CloseKill, CloseJoin, ClosePipes, CloseConfirm, Closing,
        WorkerKilled
  <1> QED
    BY <1>1, <1>2 DEF Final

(* The worker never takes a failure back and never goes on after one.      *)
THEOREM FailureFinal == Spec => FailureIsFinal
  <1>1. BridgeInv /\ FatalInv /\ [Next]_vars => [Final]_vars
    <2> SUFFICES ASSUME BridgeInv, FatalInv, Next PROVE Final
      BY DEF vars
    <2>1. CASE TestStep
      BY <2>1, TestsAreFinal
    <2>2. CASE CloseStep
      BY <2>2, CloseIsFinal
    <2>3. CASE DrainStep
      BY <2>3 DEF DrainStep, DrainAt, DrainEnter, DrainClosed, DrainRead,
          DrainFlag, DrainLatch, DrainCheck, DrainClose, DrainForget,
          DrainEof, Final
    <2>4. CASE FarStep
      BY <2>4 DEF FarStep, FarAt, BrokerRead, BrokerEof, BrokerServe,
          BrokerFail, BrokerSpent, Chatter, LauncherStep, LauncherReap,
          LauncherLifeline, LauncherExit, NamespaceEnds, LauncherGivesUp,
          LauncherGraceOver, Final
    <2>5. CASE Terminated
      BY <2>5 DEF Terminated, vars, Final
    <2> QED
      BY <2>1, <2>2, <2>3, <2>4, <2>5
         DEF Next, WorkerStep, TestStep, CloseStep
  <1>2. Init => FatalInv
    BY DEF Init, FatalInv, InRequest
  <1> QED
    BY <1>1, <1>2, BridgeInvariant, FatalStep, PTL DEF Spec, FailureIsFinal
=============================================================================
