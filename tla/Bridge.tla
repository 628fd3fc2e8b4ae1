-------------------------------- MODULE Bridge --------------------------------
(***************************************************************************)
(* The RPC bridge of a test worker: class _Bridge of the supervisor        *)
(* (__init__, _drain, _exchange), its request and close as hardened by     *)
(* round 1, and the check of the final entrypoint on top of close.  Two    *)
(* threads of the worker share it, the one that runs the tests and the one *)
(* that drains the actor's stderr.  At the far end are the broker, which   *)
(* serves one request after the other, and the root launcher, which tears  *)
(* the namespace down when the broker ends, when the worker's lifeline     *)
(* (the control FIFO) closes, or when its own lifetime is over.            *)
(***************************************************************************)
EXTENDS Naturals, Sequences

CONSTANTS MaxOperations,  \* MAX_OPERATIONS of the broker
          Budget,         \* MAX_DIAGNOSTIC_BYTES, in chunks of stderr
          PipeCapacity,   \* chunks the stderr pipe holds
          MaxNoise,       \* bound of the model: chunks the actor writes
          MaxRequests     \* bound of the model: calls of request

ASSUME BridgeAssumption ==
  /\ MaxOperations \in Nat \ {0} /\ PipeCapacity \in Nat \ {0}
  /\ Budget \in Nat /\ MaxNoise \in Nat /\ MaxRequests \in Nat

(* How a response comes out once the broker has found it well-formed: a    *)
(* result, a known exception, one with an unknown identity, content that   *)
(* the worker rejects (states, handles or data that do not decode), or     *)
(* content that breaks request by an exception it does not latch: one that *)
(* its except does not list (AttributeError of an object without __dict__, *)
(* OverflowError of a number, RecursionError of a nesting), or TypeError   *)
(* of a name that no table takes, which comes after the except.            *)
Answers == {"value", "error", "unknown", "bad", "unlisted"}
Accepted == {"value", "error"}

(* The floor a worker runs: the frozen tests, where an actor that writes   *)
(* anything is rejected, or the supervised tests of the current tree.      *)
Floors == {"frozen", "current"}

VARIABLES
  wpc, sequence, sent,             \* the thread that runs the tests
  answered, escaped,               \* requests by what came back in time
  verdict, closing,                \* the tests' result; close()'s result
  fatal, overflow, control,        \* shared by the two threads
  dpc, drained,                    \* the drain thread
  fdOpen, stdinOpen,               \* the worker's ends of FIFO and stdin
  wire, replies, pipe, emitted,    \* requests, responses, stderr
  bpc, served, brc,                \* the broker; brc: its exit
  lpc, lrc                         \* the launcher; lrc: its exit

requestVars == <<sequence, sent, answered, escaped>>
resultVars == <<verdict, closing>>
drainVars == <<dpc, drained>>
holdVars == <<fdOpen, stdinOpen>>
brokerVars == <<bpc, served, brc>>
launcherVars == <<lpc, lrc>>
farVars == <<pipe, emitted, brokerVars, launcherVars>>
vars == <<wpc, requestVars, resultVars, fatal, overflow, control, drainVars,
          holdVars, wire, replies, farVars>>

Init ==
  /\ wpc = "test" /\ sequence = 0 /\ sent = 0
  /\ answered = 0 /\ escaped = 0
  /\ verdict = "open" /\ closing = "open"
  /\ fatal = "none" /\ overflow = FALSE /\ control = TRUE
  /\ dpc = "reading" /\ drained = 0
  /\ fdOpen = TRUE /\ stdinOpen = TRUE
  /\ wire = 0 /\ replies = <<>> /\ pipe = 0 /\ emitted = 0
  /\ bpc = "reading" /\ served = 0 /\ brc = "none"
  /\ lpc = "run" /\ lrc = "none"

-----------------------------------------------------------------------------
(* The test thread.  A failed request latches fatal and raises; the test   *)
(* may catch the exception and go on.                                      *)
LauncherGone == lpc \in {"exited", "ended"}
WorkerAt(pc) == wpc = pc /\ UNCHANGED <<overflow, drainVars, farVars>>
InRequest == wpc \in {"send", "await", "got"}
Latch(r) == fatal' = r /\ wpc' = "test"

(* request: refused once fatal is set; else the arguments are encoded.  An *)
(* encoder exception of an unlisted type (RecursionError) uses a sequence  *)
(* number up and latches nothing; a listed one latches.                    *)
WorkerRequest ==
  /\ WorkerAt("test") /\ verdict = "open" /\ fatal = "none"
  /\ sequence < MaxRequests
  /\ sequence' = sequence + 1
  /\ \/ wpc' = "send" /\ UNCHANGED fatal
     \/ wpc' = "test" /\ UNCHANGED fatal
     \/ Latch("encoder")
  /\ UNCHANGED <<sent, answered, escaped, resultVars, control, holdVars, wire,
                 replies>>

(* _exchange: the overflow check at the top of its loop, then the write.   *)
WorkerSend ==
  /\ WorkerAt("send")
  /\ \/ overflow /\ Latch("overflow") /\ UNCHANGED <<wire, sent>>
     \/ /\ ~overflow
        /\ wire' = sequence /\ sent' = sent + 1
        /\ wpc' = "await" /\ UNCHANGED fatal
  /\ UNCHANGED <<sequence, answered, escaped, resultVars, control, holdVars,
                 replies>>

(* select returns: a response, or end of file when the namespace is gone.  *)
WorkerReceive ==
  /\ WorkerAt("await")
  /\ \/ /\ replies # <<>>
        /\ wpc' = "got" /\ UNCHANGED fatal
     \/ replies = <<>> /\ lpc = "ended" /\ Latch("eof")
     \/ overflow /\ Latch("overflow")
  /\ UNCHANGED <<requestVars, resultVars, control, holdVars, wire, replies>>

WorkerTimeoutUnlatched ==                  \* mutant: raised, not latched
  /\ WorkerAt("await") /\ wpc' = "test" /\ UNCHANGED fatal
  /\ UNCHANGED <<requestVars, resultVars, control, holdVars, wire, replies>>

WorkerTimeoutAfterOverflow ==              \* mutant: no deadline of its own
  /\ WorkerAt("await") /\ overflow /\ Latch("timeout")
  /\ UNCHANGED <<requestVars, resultVars, control, holdVars, wire, replies>>

(* select runs into the deadline of ACTOR_TIMEOUT seconds.                 *)
WorkerTimeout ==
  /\ WorkerAt("await") /\ Latch("timeout")
  /\ UNCHANGED <<requestVars, resultVars, control, holdVars, wire, replies>>

(* The overflow check before _exchange returns, then the decoding and the  *)
(* checks of request.  What its except does not list reaches the test with *)
(* nothing latched, and the response is used up: from the decoding of the  *)
(* line on, so that the sequence number need not have been compared.       *)
WorkerAccept ==
  /\ WorkerAt("got")
  /\ replies' = Tail(replies)
  /\ LET r == Head(replies)
     IN \/ /\ \/ overflow /\ Latch("overflow")
              \/ ~overflow /\ r.seq # sequence /\ Latch("mismatch")
              \/ /\ ~overflow /\ r.seq = sequence
                 /\ r.kind \in {"bad", "unknown"} /\ Latch("bad")
           /\ UNCHANGED <<answered, escaped>>
        \/ /\ ~overflow /\ r.kind = "unlisted"
           /\ wpc' = "test" /\ escaped' = escaped + 1
           /\ UNCHANGED <<answered, fatal>>
        \/ /\ ~overflow /\ r.seq = sequence /\ r.kind \in Accepted
           /\ wpc' = "test" /\ answered' = answered + 1
           /\ UNCHANGED <<escaped, fatal>>
  /\ UNCHANGED <<sequence, sent, resultVars, control, holdVars, wire>>

WorkerJudgeLeniently ==                    \* mutant: fatal is not consulted
  /\ WorkerAt("test") /\ verdict = "open"
  /\ verdict' \in {"passed", "failed"}
  /\ wpc' = "stdin"
  /\ UNCHANGED <<requestVars, closing, fatal, control, holdVars, wire,
                 replies>>

(* The suite is over: no latched failure, and the tests' own result.       *)
WorkerJudge ==
  /\ WorkerAt("test") /\ verdict = "open"
  /\ \/ verdict' = "passed" /\ fatal = "none"
     \/ verdict' = "failed"
  /\ wpc' = "stdin"
  /\ UNCHANGED <<requestVars, closing, fatal, control, holdVars, wire,
                 replies>>

-----------------------------------------------------------------------------
(* close, in the finally of the worker: end of input for the broker first, *)
(* then the lifeline.                                                      *)
Closing(pc) ==
  /\ WorkerAt(pc)
  /\ UNCHANGED <<requestVars, verdict, fatal, wire, replies>>
Step(pc) == wpc' = pc /\ UNCHANGED closing
CloseFails(pc) == wpc' = pc /\ closing' = "failed"
(* The end of the worker closes what it still holds open.                  *)
Leave == wpc' = "gone" /\ fdOpen' = FALSE /\ stdinOpen' = FALSE

CloseStdinLater ==                         \* mutant: left to the exit
  Closing("stdin") /\ Step("wait1") /\ UNCHANGED <<holdVars, control>>

CloseStdin ==
  /\ Closing("stdin") /\ Step("wait1")
  /\ stdinOpen' = FALSE
  /\ UNCHANGED <<fdOpen, control>>

CloseWaitForever ==                        \* mutant: the first wait unbounded
  /\ Closing("wait1") \/ Closing("wait2")
  /\ LauncherGone /\ Step("finCheck")
  /\ UNCHANGED <<holdVars, control>>

(* process.wait(timeout=6): an exit, or else the kill switch and a second  *)
(* wait, then SIGKILL to the launcher's group.                             *)
CloseWait ==
  /\ \/ /\ Closing("wait1")
        /\ \/ LauncherGone /\ Step("finCheck")
           \/ ~LauncherGone /\ Step("swCheck")
     \/ /\ Closing("wait2")
        /\ \/ LauncherGone /\ Step("finCheck")
           \/ ~LauncherGone /\ CloseFails("finCheck")
  /\ UNCHANGED <<holdVars, control>>

(* "if self.control_fd is not None", os.close, and the assignment are      *)
(* steps of their own: the drain thread has the same three.  The close of  *)
(* a descriptor (or a None) the other thread got to first raises; inside   *)
(* the finally that skips the rest of close.                               *)
CloseCheck ==
  /\ \/ Closing("swCheck") /\ Step(IF control THEN "swClose" ELSE "wait2")
     \/ Closing("finCheck") /\ Step(IF control THEN "finClose" ELSE "kill")
  /\ UNCHANGED <<holdVars, control>>

CloseControl ==
  /\ \/ /\ Closing("swClose")
        /\ IF control /\ fdOpen
             THEN Step("swForget") /\ fdOpen' = FALSE /\ UNCHANGED stdinOpen
             ELSE CloseFails("finCheck") /\ UNCHANGED holdVars
     \/ /\ Closing("finClose")
        /\ IF control /\ fdOpen
             THEN Step("finForget") /\ fdOpen' = FALSE /\ UNCHANGED stdinOpen
             ELSE Leave /\ closing' = "failed"
  /\ UNCHANGED control

CloseForget ==
  /\ \/ Closing("swForget") /\ Step("wait2")
     \/ Closing("finForget") /\ Step("kill")
  /\ control' = FALSE
  /\ UNCHANGED holdVars

(* _kill_group of a launcher that is still there: it runs under sudo, the  *)
(* signal is refused and the exception skips the rest of close.            *)
CloseKill ==
  /\ Closing("kill")
  /\ IF LauncherGone
       THEN Step("join") /\ UNCHANGED holdVars
       ELSE Leave /\ closing' = "failed"
  /\ UNCHANGED control

(* reader.join(timeout=3): the drain thread has ended, or has not.         *)
CloseJoin == /\ Closing("join") /\ Step("pipes")
             /\ UNCHANGED <<holdVars, control>>

(* stderr.close().  The pipe is unbuffered (bufsize=0), so nothing waits:  *)
(* a drain thread inside read() still gets the outcome of that read, and   *)
(* its next one finds a closed file.                                       *)
ClosePipes == /\ Closing("pipes") /\ Step("confirm")
              /\ UNCHANGED <<holdVars, control>>

CloseConfirmUnjoined ==                    \* mutant: reader not asked for
  /\ Closing("confirm") /\ Leave
  /\ \E floor \in Floors :
       closing' = IF /\ closing = "open" /\ lrc = "ok"
                     /\ floor = "frozen" => drained = 0
                    THEN floor ELSE "failed"
  /\ UNCHANGED control

(* The final requires of _hardened_close (exit status 0, and a reader that *)
(* is not alive), and on the frozen floor _require_silent_actor.  Which    *)
(* floor the worker runs is settled when it starts; this is the only place *)
(* that asks, so the choice is made here.                                  *)
CloseConfirm ==
  /\ Closing("confirm") /\ Leave
  /\ \E floor \in Floors :
       closing' = IF /\ closing = "open" /\ lrc = "ok" /\ dpc = "done"
                     /\ floor = "frozen" => drained = 0
                    THEN floor ELSE "failed"
  /\ UNCHANGED control

(* The supervisor's time limit: SIGKILL to the worker's group.             *)
WorkerKilled ==
  /\ wpc # "gone" /\ Leave /\ closing' = "failed"
  /\ UNCHANGED <<requestVars, verdict, fatal, overflow, control, drainVars,
                 wire, replies, farVars>>

-----------------------------------------------------------------------------
(* The drain thread; it is inside read() long before the first request.    *)
DrainAt(pc) ==
  /\ wpc # "gone" /\ dpc = pc
  /\ UNCHANGED <<wpc, requestVars, resultVars, stdinOpen, wire, replies,
                 emitted, brokerVars, launcherVars>>

DrainEnter ==
  /\ DrainAt("read") /\ wpc # "confirm" /\ dpc' = "reading"
  /\ UNCHANGED <<fatal, overflow, control, fdOpen, drained, pipe>>

(* ValueError: the other thread has closed the pipe between two reads.     *)
DrainClosed ==
  /\ DrainAt("read") /\ wpc = "confirm" /\ dpc' = "done"
  /\ fatal' = IF fatal = "none" THEN "drain" ELSE fatal
  /\ UNCHANGED <<overflow, control, fdOpen, drained, pipe>>

DrainRead ==
  /\ DrainAt("reading") /\ pipe > 0
  /\ pipe' = pipe - 1 /\ drained' = drained + 1
  /\ dpc' = IF drained' > Budget /\ ~overflow THEN "flag" ELSE "read"
  /\ UNCHANGED <<fatal, overflow, control, fdOpen>>

DrainFlag ==
  /\ DrainAt("flag") /\ dpc' = "latch"
  /\ overflow' = TRUE
  /\ UNCHANGED <<fatal, control, fdOpen, drained, pipe>>

DrainLatch ==
  /\ DrainAt("latch") /\ dpc' = "check"
  /\ fatal' = "overflow"
  /\ UNCHANGED <<overflow, control, fdOpen, drained, pipe>>

DrainCheck ==
  /\ DrainAt("check") /\ dpc' = IF control THEN "close" ELSE "read"
  /\ UNCHANGED <<fatal, overflow, control, fdOpen, drained, pipe>>

(* An OSError or TypeError of os.close ends the thread.                    *)
DrainClose ==
  /\ DrainAt("close")
  /\ dpc' = IF control /\ fdOpen THEN "forget" ELSE "done"
  /\ fdOpen' = FALSE
  /\ UNCHANGED <<fatal, overflow, control, drained, pipe>>

DrainForget ==
  /\ DrainAt("forget") /\ dpc' = "read"
  /\ control' = FALSE
  /\ UNCHANGED <<fatal, overflow, fdOpen, drained, pipe>>

DrainEof ==
  /\ DrainAt("reading") /\ dpc' = "done"
  /\ pipe = 0 /\ lpc = "ended"
  /\ UNCHANGED <<fatal, overflow, control, fdOpen, drained, pipe>>

-----------------------------------------------------------------------------
(* The far end: the broker, the executor's noise and the launcher.         *)
FarAt == UNCHANGED <<wpc, requestVars, resultVars, fatal, overflow, control,
                     drainVars, holdVars>>

BrokerRead ==
  /\ FarAt /\ bpc = "reading" /\ wire # 0
  /\ bpc' = "serving"
  /\ UNCHANGED <<wire, replies, served, brc, pipe, emitted, launcherVars>>

(* End of input: the executor is stopped, which may fail.                  *)
BrokerEof ==
  /\ FarAt /\ bpc = "reading" /\ wire = 0 /\ ~stdinOpen
  /\ bpc' = "ended" /\ brc' \in {"ok", "failed"}
  /\ UNCHANGED <<wire, replies, served, pipe, emitted, launcherVars>>

(* The executor's response is checked and passed on.  After request number *)
(* MaxOperations the loop is over and the broker raises.                   *)
BrokerServe ==
  /\ FarAt /\ bpc = "serving"
  /\ \E k \in Answers : replies' = Append(replies, [seq |-> wire, kind |-> k])
  /\ wire' = 0 /\ served' = served + 1
  /\ bpc' = IF served' = MaxOperations THEN "spent" ELSE "reading"
  /\ UNCHANGED <<brc, pipe, emitted, launcherVars>>

(* The executor's channel closes, or its response is malformed.            *)
BrokerFail ==
  /\ FarAt /\ bpc = "serving"
  /\ bpc' = "ended" /\ brc' = "failed"
  /\ UNCHANGED <<wire, replies, served, pipe, emitted, launcherVars>>

BrokerSpent ==
  /\ FarAt /\ bpc = "spent"
  /\ bpc' = "ended" /\ brc' = "budget"
  /\ UNCHANGED <<wire, replies, served, pipe, emitted, launcherVars>>

(* Proposed code writes to stderr at any time while its executor lives.    *)
Chatter ==
  /\ FarAt /\ bpc # "ended"
  /\ pipe < PipeCapacity /\ emitted < MaxNoise
  /\ pipe' = pipe + 1 /\ emitted' = emitted + 1
  /\ UNCHANGED <<wire, replies, brokerVars, launcherVars>>

(* main of the launcher in actor mode: the namespace command has ended.    *)
LauncherReap ==
  /\ FarAt /\ lpc \in {"run", "grace"} /\ bpc = "ended"
  /\ lpc' = "teardown" /\ lrc' = brc
  /\ UNCHANGED <<wire, replies, pipe, emitted, brokerVars>>

LauncherLifelineIdle ==                    \* mutant: not during a request
  /\ FarAt /\ lpc = "run" /\ ~fdOpen /\ bpc # "serving"
  /\ lpc' = "grace"
  /\ UNCHANGED <<lrc, wire, replies, pipe, emitted, brokerVars>>

(* End of file on the control FIFO starts the grace period; a teardown it  *)
(* forces is no application failure.                                       *)
LauncherLifeline ==
  /\ FarAt /\ lpc = "run" /\ ~fdOpen
  /\ lpc' = "grace"
  /\ UNCHANGED <<lrc, wire, replies, pipe, emitted, brokerVars>>

LauncherGraceOver ==
  /\ FarAt /\ lpc = "grace"
  /\ lpc' = "teardown" /\ lrc' = "ok"
  /\ UNCHANGED <<wire, replies, pipe, emitted, brokerVars>>

(* ACTOR_SECONDS are over, or a signal interrupts the launcher.            *)
LauncherGivesUp ==
  /\ FarAt /\ lpc \in {"run", "grace"}
  /\ lpc' = "teardown" /\ lrc' = "failed"
  /\ UNCHANGED <<wire, replies, pipe, emitted, brokerVars>>

(* stop_scope, stop and the removal of the home directory, any of which    *)
(* may raise.  The launcher waits for its child only: what is left of the  *)
(* namespace has its SIGKILL due, but may outlive the launcher a little.   *)
LauncherExit ==
  /\ FarAt /\ lpc = "teardown"
  /\ lpc' = "exited" /\ lrc' \in {lrc, "failed"}
  /\ UNCHANGED <<wire, replies, pipe, emitted, brokerVars>>

NamespaceEnds ==
  /\ FarAt /\ lpc = "exited"
  /\ lpc' = "ended" /\ bpc' = "ended"
  /\ UNCHANGED <<lrc, wire, replies, pipe, emitted, served, brc>>

-----------------------------------------------------------------------------
WorkerStep == \/ WorkerSend \/ WorkerReceive \/ WorkerAccept
              \/ CloseStdin \/ CloseWait \/ CloseCheck \/ CloseControl
              \/ CloseForget \/ CloseKill \/ CloseJoin \/ ClosePipes
              \/ CloseConfirm
DrainStep == \/ DrainEnter \/ DrainClosed \/ DrainRead
             \/ DrainFlag \/ DrainLatch \/ DrainCheck
             \/ DrainClose \/ DrainForget \/ DrainEof
LauncherStep == \/ LauncherReap \/ LauncherLifeline \/ LauncherExit
                \/ NamespaceEnds
FarStep == \/ BrokerRead \/ BrokerEof \/ BrokerServe \/ BrokerFail
           \/ BrokerSpent \/ Chatter \/ LauncherStep \/ LauncherGivesUp
           \/ LauncherGraceOver

Terminated == wpc = "gone" /\ lpc = "ended" /\ UNCHANGED vars

Next == \/ WorkerRequest \/ WorkerJudge \/ WorkerStep \/ WorkerTimeout
        \/ WorkerKilled \/ DrainStep \/ FarStep \/ Terminated

Spec == Init /\ [][Next]_vars

(* Both threads and the launcher are scheduled, their clocks advance, and  *)
(* SIGKILL is delivered.                                                   *)
(* Tests, broker, executor and supervisor owe nothing.                     *)
FairSpec == /\ Spec
            /\ WF_vars(WorkerStep) /\ WF_vars(WorkerTimeout)
            /\ WF_vars(DrainStep)
            /\ WF_vars(LauncherStep) /\ WF_vars(LauncherGraceOver)

-----------------------------------------------------------------------------
(* The variables have their types.                                         *)
TypeOK ==
  /\ wpc \in {"test", "send", "await", "got", "stdin", "wait1", "swCheck",
              "swClose", "swForget", "wait2", "finCheck", "finClose",
              "finForget", "kill", "join", "pipes", "confirm", "gone"}
  /\ sequence \in 0 .. MaxRequests
  /\ sent \in 0 .. sequence /\ answered \in 0 .. sent
  /\ escaped \in 0 .. sent - answered
  /\ verdict \in {"open", "passed", "failed"}
  /\ closing \in {"open", "failed"} \cup Floors
  /\ fatal \in {"none", "encoder", "overflow", "eof", "timeout", "mismatch",
                "bad", "drain"}
  /\ overflow \in BOOLEAN /\ control \in BOOLEAN
  /\ dpc \in {"read", "reading", "flag", "latch", "check", "close", "forget",
              "done"}
  /\ drained \in 0 .. MaxNoise /\ emitted \in 0 .. MaxNoise
  /\ fdOpen \in BOOLEAN /\ stdinOpen \in BOOLEAN
  /\ wire \in 0 .. MaxRequests
  /\ replies \in Seq([seq : 1 .. MaxRequests, kind : Answers])
  /\ pipe \in 0 .. PipeCapacity
  /\ bpc \in {"reading", "serving", "spent", "ended"}
  /\ served \in 0 .. MaxOperations
  /\ brc \in {"none", "ok", "failed", "budget"}
  /\ lpc \in {"run", "grace", "teardown", "exited", "ended"}
  /\ lrc \in {"none", "ok", "failed", "budget"}

Completed == wpc = "gone" /\ verdict = "passed" /\ closing \in Floors

(* Whatever the tests caught and however the two threads interleaved, a    *)
(* suite passes only if every request that went out had its own response   *)
(* in time: no timeout, end of file, foreign number or rejected response   *)
(* can be swallowed.  A response that broke request by an exception it     *)
(* does not list (round1:207) is the one failure that a test may catch.    *)
PassedMeansAnswered == verdict = "passed" => answered + escaped = sent

(* The channel is clean whenever a request is on its way to be written: no *)
(* request is left at the broker, no late answer waits to be taken for the *)
(* next one, so the check of the sequence numbers never fires.             *)
CleanChannel ==
  /\ wpc \in {"test", "send"} /\ fatal = "none"
       => wire = 0 /\ replies = <<>> /\ bpc # "serving"
  /\ fatal # "mismatch"

(* On the frozen floor a completed worker's actor wrote nothing at all to  *)
(* stderr, seen or unseen by the drain thread, and its namespace is gone.  *)
FrozenMeansSilent ==
  Completed /\ closing = "frozen" => emitted = 0 /\ lpc = "ended" /\ ~overflow

(* The kill switch comes last: the lifeline closes only after the broker   *)
(* was offered its end of input, unless the actor exceeded its budget; no  *)
(* thread, failure path or end of the worker closes it earlier.            *)
LifelineLast == ~fdOpen => ~stdinOpen \/ overflow

(* A request returns or raises, and close ends, whatever the broker, the   *)
(* executor, the launcher and the drain thread do (round1:167, 238).       *)
CallsReturn == /\ InRequest ~> ~InRequest
               /\ (wpc = "stdin") ~> (wpc = "gone")

(* Once the worker is gone, killed or not, the launcher ends and the       *)
(* namespace with it.                                                      *)
NamespaceTornDown == (wpc = "gone") ~> (lpc = "ended")

(* "actor diagnostic overflow was accepted" must not happen.               *)
OverflowRejected == Completed => ~overflow
=============================================================================
