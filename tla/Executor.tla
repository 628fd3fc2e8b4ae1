------------------------------- MODULE Executor -------------------------------
(***************************************************************************)
(* The transport parent of scripts/run_proposed_executor.py (it alone owns *)
(* the broker's descriptors) and its forked application child (it alone    *)
(* runs proposed code).  They share two one-slot mailboxes, each guarded   *)
(* by the semaphores free and full, and step through generations: 0 is the *)
(* child's ready message, 1 .. MaxOperations are requests and their        *)
(* observations.  Waiting, storing or loading, and posting are separate    *)
(* steps, so the two processes interleave inside send and receive.         *)
(***************************************************************************)
EXTENDS Naturals

CONSTANTS Payloads,        \* {action, nodes, arguments, sync} of a request
          MaxOperations,   \* MAX_OPERATIONS
          MaxSeq,          \* bound of the model: largest sequence issued
          Ready,           \* b"executor-process-ready"
          Blank            \* content of a mailbox nobody has written

ASSUME MaxOperationsAssumption == MaxOperations \in Nat \ {0}
ASSUME MaxSeqAssumption == MaxSeq \in Nat
ASSUME PayloadsAssumption == Payloads # {}

Boxes == {"requests", "responses"}
Generations == 0 .. MaxOperations

(* An oversize observation fits a frame, but not once the sequence number  *)
(* is added to it.                                                         *)
Kinds == {"value", "error", "oversize"}

(* run is a history field: which execution produced the observation.       *)
Observations == [run : Generations, payload : Payloads, kind : Kinds]
Requests == [seq : 0 .. MaxSeq, payload : Payloads]
Contents == Payloads \cup Observations \cup {Ready, Blank}
Messages == [gen : Generations, data : Contents]

VARIABLES
  free, full, slot,                            \* the mailboxes
  request, eof, answer,                        \* frames of the broker
  ppc, generation, held, got, pexp, reason,    \* the transport parent
  cpc, expected, taken, observed, cexp, creason, operations, writable,
                                               \* the application child
  child, armed, doomed                         \* its process: alive, armed
                                               \* with PDEATHSIG, SIGKILL due

boxVars == <<free, full, slot>>
brokerVars == <<request, eof, answer>>
parentLocals == <<generation, held, got, pexp, reason>>
childLocals == <<expected, taken, observed, cexp, creason, operations,
                 writable>>
processVars == <<child, armed, doomed>>
vars == <<boxVars, brokerVars, ppc, parentLocals, cpc, childLocals,
          processVars>>

Sending == {"sendAlive", "sendTry", "sendStore", "sendPost"}
Receiving == {"recvAlive", "recvTry", "recvLoad", "recvPost"}
Ended == {"kill", "reap", "destroy", "exited", "killed"}
Gone == ppc \in {"exited", "killed"}
ChildReceiving == {"reqTry", "reqLoad", "reqPost"}
ChildSending == {"obsTry", "obsStore", "obsPost"}

-----------------------------------------------------------------------------
(* _Mailbox: a successful sem_trywait, sem_post, and the stores of send.   *)
TakeFree(b) == free' = [free EXCEPT ![b] = @ - 1] /\ UNCHANGED <<full, slot>>
TakeFull(b) == full' = [full EXCEPT ![b] = @ - 1] /\ UNCHANGED <<free, slot>>
PostFree(b) == free' = [free EXCEPT ![b] = @ + 1] /\ UNCHANGED <<full, slot>>
PostFull(b) == full' = [full EXCEPT ![b] = @ + 1] /\ UNCHANGED <<free, slot>>
Store(b, g, d) == /\ slot' = [slot EXCEPT ![b] = [gen |-> g, data |-> d]]
                  /\ UNCHANGED <<free, full>>

Init ==
  /\ free = [b \in Boxes |-> 1]
  /\ full = [b \in Boxes |-> 0]
  /\ slot = [b \in Boxes |-> [gen |-> 0, data |-> Blank]]
  /\ \E p \in Payloads :
        /\ request = [seq |-> 0, payload |-> p]
        /\ observed = [run |-> 0, payload |-> p, kind |-> "value"]
  /\ eof = FALSE
  /\ answer = [seq |-> 0, observation |-> observed]
  /\ ppc = "recvAlive" /\ generation = 0 /\ held = request
  /\ got = slot["responses"] /\ pexp = FALSE /\ reason = "none"
  /\ cpc = "arm" /\ expected = 0 /\ taken = slot["requests"] /\ cexp = FALSE
  /\ creason = "none" /\ operations = 0 /\ writable = TRUE
  /\ child = "running" /\ armed = FALSE /\ doomed = FALSE

-----------------------------------------------------------------------------
(* The broker is synchronous: it writes the next frame after the answer to *)
(* the previous one.  Sequence numbers grow, but an encoding that failed   *)
(* in the worker uses one up without a frame being written.                *)
BrokerWrite ==
  /\ ~eof /\ request.seq = answer.seq
  /\ \E n \in request.seq + 1 .. MaxSeq, p \in Payloads :
        request' = [seq |-> n, payload |-> p]
  /\ UNCHANGED <<eof, answer, boxVars, ppc, parentLocals, cpc, childLocals,
                 processVars>>

BrokerClose ==
  /\ ~eof /\ request.seq = answer.seq
  /\ eof' = TRUE
  /\ UNCHANGED <<request, answer, boxVars, ppc, parentLocals, cpc,
                 childLocals, processVars>>

-----------------------------------------------------------------------------
(* The transport parent.  Raise(r) is an exception, or the return at the   *)
(* end of input: main's finally closes the application.                    *)
Raise(r) == ppc' = "kill" /\ reason' = r
Goto(pc) == ppc' = pc /\ UNCHANGED reason
ParentAt(pc) == ppc = pc /\ UNCHANGED <<cpc, childLocals, armed>>

(* _alive: waitpid(WNOHANG) reaps a dead child and the wait fails.         *)
ParentAlive(at, then) ==
  /\ ParentAt(at)
  /\ IF child = "dead"
       THEN Raise("child") /\ child' = "reaped"
       ELSE Goto(then) /\ UNCHANGED child
  /\ UNCHANGED <<boxVars, brokerVars, generation, held, got, pexp, doomed>>

(* The clock passes the deadline of the wait the parent is in.             *)
ParentClock ==
  /\ ppc \in {"recvAlive", "recvTry", "sendAlive", "sendTry"}
  /\ ~pexp /\ pexp' = TRUE
  /\ UNCHANGED <<boxVars, brokerVars, ppc, generation, held, got, reason, cpc,
                 childLocals, processVars>>

ParentMissForever(again) ==               \* mutant: no deadline
  Goto(again) /\ UNCHANGED boxVars
(* _wait after a failed sem_trywait: go round again until the deadline.    *)
ParentMiss(again) == /\ IF pexp THEN Raise("timeout") ELSE Goto(again)
                     /\ UNCHANGED boxVars

ParentReadShort ==                        \* mutant: the old frame's body
  /\ ParentAt("read") /\ request.seq # answer.seq
  /\ held' = [request EXCEPT !.payload = held.payload] /\ Goto("sendAlive")
  /\ pexp' = FALSE
  /\ UNCHANGED <<boxVars, brokerVars, generation, got, child, doomed>>

(* main: a complete frame from the broker, or its end of input.            *)
ParentRead ==
  /\ ParentAt("read")
  /\ \/ request.seq # answer.seq /\ held' = request /\ Goto("sendAlive")
     \/ request.seq = answer.seq /\ eof /\ Raise("eof") /\ UNCHANGED held
  /\ pexp' = FALSE
  /\ UNCHANGED <<boxVars, brokerVars, generation, got, child, doomed>>

ParentSendTryEager ==                     \* mutant: full posted too early
  /\ ParentAt("sendTry") /\ free["requests"] = 1 /\ Goto("sendStore")
  /\ free' = [free EXCEPT !["requests"] = 0]
  /\ full' = [full EXCEPT !["requests"] = 1]
  /\ UNCHANGED <<slot, brokerVars, generation, held, got, pexp, child, doomed>>

(* requests.send(generation, payload, alive)                               *)
ParentSendTry ==
  /\ ParentAt("sendTry")
  /\ IF free["requests"] = 0
       THEN ParentMiss("sendAlive")
       ELSE TakeFree("requests") /\ Goto("sendStore")
  /\ UNCHANGED <<brokerVars, generation, held, got, pexp, child, doomed>>

ParentSendStore ==
  /\ ParentAt("sendStore") /\ Goto("sendPost")
  /\ Store("requests", generation, held.payload)
  /\ UNCHANGED <<brokerVars, generation, held, got, pexp, child, doomed>>

ParentSendPost ==
  /\ ParentAt("sendPost") /\ Goto("recvAlive")
  /\ PostFull("requests")
  /\ pexp' = FALSE
  /\ UNCHANGED <<brokerVars, generation, held, got, child, doomed>>

ParentRecvTryLate ==                      \* mutant: the deadline delivers
  /\ ParentAt("recvTry")
  /\ IF full["responses"] = 0
       THEN Goto(IF pexp THEN "recvLoad" ELSE "recvAlive") /\ UNCHANGED boxVars
       ELSE TakeFull("responses") /\ Goto("recvLoad")
  /\ UNCHANGED <<brokerVars, generation, held, got, pexp, child, doomed>>

(* responses.receive(alive)                                                *)
ParentRecvTry ==
  /\ ParentAt("recvTry")
  /\ IF full["responses"] = 0
       THEN ParentMiss("recvAlive")
       ELSE TakeFull("responses") /\ Goto("recvLoad")
  /\ UNCHANGED <<brokerVars, generation, held, got, pexp, child, doomed>>

ParentRecvLoad ==
  /\ ParentAt("recvLoad") /\ Goto("recvPost")
  /\ got' = slot["responses"]
  /\ UNCHANGED <<boxVars, brokerVars, generation, held, pexp, child, doomed>>

ParentRecvPost ==
  /\ ParentAt("recvPost") /\ Goto("deliver")
  /\ PostFree("responses")
  /\ UNCHANGED <<brokerVars, generation, held, got, pexp, child, doomed>>

(* The constructor insists on generation 0 and the ready message, observe  *)
(* on the generation it sent, _write_frame on the byte budget.             *)
ParentReady ==
  /\ ParentAt("deliver") /\ generation = 0
  /\ IF got = [gen |-> 0, data |-> Ready]
       THEN Goto("read") /\ generation' = 1
       ELSE Raise("generation") /\ UNCHANGED generation
  /\ UNCHANGED <<boxVars, brokerVars, held, got, pexp, child, doomed>>

ParentRefuseSilently ==                   \* mutant: dropped, not raised
  /\ ParentAt("deliver") /\ generation \in 1 .. MaxOperations - 1
  /\ got.data.kind = "oversize" /\ Goto("read")
  /\ generation' = generation + 1
  /\ UNCHANGED <<boxVars, brokerVars, held, got, pexp, child, doomed>>

ParentRefuse ==
  /\ ParentAt("deliver") /\ generation > 0
  /\ IF got.gen # generation
       THEN Raise("generation")
       ELSE got.data.kind = "oversize" /\ Raise("oversize")
  /\ UNCHANGED <<boxVars, brokerVars, generation, held, got, pexp, child,
                 doomed>>

ParentWriteGeneration ==                  \* mutant: its own numbering
  /\ ParentAt("deliver") /\ generation \in 1 .. MaxOperations - 1
  /\ got.gen = generation /\ got.data.kind # "oversize"
  /\ answer' = [seq |-> generation, observation |-> got.data]
  /\ Goto("read") /\ generation' = generation + 1
  /\ UNCHANGED <<boxVars, request, eof, held, got, pexp, child, doomed>>

ParentWrite ==
  /\ ParentAt("deliver") /\ generation > 0
  /\ got.gen = generation /\ got.data.kind # "oversize"
  /\ answer' = [seq |-> held.seq, observation |-> got.data]
  /\ IF generation = MaxOperations
       THEN Goto("over") /\ UNCHANGED generation
       ELSE Goto("read") /\ generation' = generation + 1
  /\ UNCHANGED <<boxVars, request, eof, held, got, pexp, child, doomed>>

(* After the last generation main raises, whatever the broker does next.   *)
ParentOver ==
  /\ ParentAt("over") /\ Raise("budget")
  /\ UNCHANGED <<boxVars, brokerVars, generation, held, got, pexp, child,
                 doomed>>

ParentKillOnly ==                         \* mutant: no waitpid
  /\ ParentAt("kill") /\ Goto("destroy")
  /\ doomed' = (doomed \/ child # "reaped")
  /\ UNCHANGED <<boxVars, brokerVars, generation, held, got, pexp, child>>

(* _Application.close: kill and wait unless the child was reaped already,  *)
(* then destroy both mailboxes.                                            *)
ParentKill ==
  /\ ParentAt("kill")
  /\ IF child = "reaped"
       THEN Goto("destroy") /\ UNCHANGED doomed
       ELSE Goto("reap") /\ doomed' = TRUE
  /\ UNCHANGED <<boxVars, brokerVars, generation, held, got, pexp, child>>

ParentReap ==
  /\ ParentAt("reap") /\ Goto("destroy")
  /\ child = "dead" /\ child' = "reaped"
  /\ UNCHANGED <<boxVars, brokerVars, generation, held, got, pexp, doomed>>

ParentDestroy ==
  /\ ParentAt("destroy") /\ Goto("exited")
  /\ UNCHANGED <<boxVars, brokerVars, generation, held, got, pexp, child,
                 doomed>>

(* The broker, the launcher or the kernel kills the parent: an armed child *)
(* gets the parent-death signal.                                           *)
ParentKilled ==
  /\ ~Gone
  /\ ppc' = "killed"
  /\ doomed' = (doomed \/ armed)
  /\ UNCHANGED <<boxVars, brokerVars, parentLocals, cpc, childLocals, child,
                 armed>>

-----------------------------------------------------------------------------
(* The application child.  An exception ends in os._exit(1).               *)
ChildAt(pc) == /\ child = "running" /\ cpc = pc
               /\ UNCHANGED <<brokerVars, ppc, parentLocals, doomed>>
Quit(r) == cpc' = "done" /\ creason' = r /\ child' = "dead"
Proceed(pc) == cpc' = pc /\ UNCHANGED <<creason, child>>

(* _remove_inherited_transport: PDEATHSIG first, then the parent's pid.    *)
ChildArm ==
  /\ ChildAt("arm") /\ Proceed("ppid")
  /\ armed' = TRUE
  /\ UNCHANGED <<boxVars, expected, taken, observed, cexp, operations,
                 writable>>

ChildPpidTrusting ==                      \* mutant: getppid unchecked
  /\ ChildAt("ppid") /\ Proceed("boot")
  /\ UNCHANGED <<boxVars, expected, taken, observed, cexp, operations,
                 writable, armed>>

ChildPpid ==
  /\ ChildAt("ppid")
  /\ IF Gone THEN Quit("orphan") ELSE Proceed("boot")
  /\ UNCHANGED <<boxVars, expected, taken, observed, cexp, operations,
                 writable, armed>>

(* The bootstrap program of the subinterpreter succeeds or raises.         *)
ChildBoot ==
  /\ ChildAt("boot")
  /\ Proceed("obsTry") \/ Quit("bootstrap")
  /\ UNCHANGED <<boxVars, expected, taken, observed, cexp, operations,
                 writable, armed>>

ChildClock ==
  /\ child = "running" /\ cpc \in {"reqTry", "obsTry"}
  /\ ~cexp /\ cexp' = TRUE
  /\ UNCHANGED <<boxVars, brokerVars, ppc, parentLocals, cpc, expected, taken,
                 observed, creason, operations, writable, processVars>>

ChildMiss == cexp /\ Quit("timeout") /\ UNCHANGED boxVars

(* requests.receive(seconds=35.0)                                          *)
ChildRecvTry ==
  /\ ChildAt("reqTry")
  /\ IF full["requests"] = 0
       THEN ChildMiss
       ELSE TakeFull("requests") /\ Proceed("reqLoad")
  /\ UNCHANGED <<expected, taken, observed, cexp, operations, writable, armed>>

ChildRecvLoad ==
  /\ ChildAt("reqLoad") /\ Proceed("reqPost")
  /\ taken' = slot["requests"]
  /\ UNCHANGED <<boxVars, expected, observed, cexp, operations, writable,
                 armed>>

ChildRecvPost ==
  /\ ChildAt("reqPost") /\ Proceed("check")
  /\ PostFree("requests")
  /\ UNCHANGED <<expected, taken, observed, cexp, operations, writable, armed>>

ChildCheckExposed ==                      \* mutant: no protect(False)
  /\ ChildAt("check") /\ taken.gen = expected /\ Proceed("run")
  /\ operations' = operations + 1
  /\ UNCHANGED <<boxVars, expected, taken, observed, cexp, writable, armed>>

(* process_one is entered only for the expected generation, and with the   *)
(* response mapping PROT_NONE.                                             *)
ChildCheck ==
  /\ ChildAt("check")
  /\ IF taken.gen # expected
       THEN Quit("generation") /\ UNCHANGED <<writable, operations>>
       ELSE /\ Proceed("run")
            /\ writable' = FALSE
            /\ operations' = operations + 1
  /\ UNCHANGED <<boxVars, expected, taken, observed, cexp, armed>>

(* The proposed call ends: with an observation in the response envelope,   *)
(* or with an exception of the trusted code around it (a mutated argument, *)
(* a changed namespace, a bad sync reference), which ends the child.       *)
ChildRun ==
  /\ ChildAt("run")
  /\ \/ /\ \E k \in Kinds : observed' = [run |-> operations,
                                         payload |-> taken.data, kind |-> k]
        /\ Proceed("obsTry")
     \/ Quit("rejected") /\ UNCHANGED observed
  /\ writable' = TRUE
  /\ cexp' = FALSE
  /\ UNCHANGED <<boxVars, expected, taken, operations, armed>>

(* responses.send(generation, observation); a store needs the page back.   *)
ChildSendTry ==
  /\ ChildAt("obsTry")
  /\ IF free["responses"] = 0
       THEN ChildMiss
       ELSE writable /\ TakeFree("responses") /\ Proceed("obsStore")
  /\ UNCHANGED <<expected, taken, observed, cexp, operations, writable, armed>>

ChildSendStore ==
  /\ ChildAt("obsStore") /\ Proceed("obsPost")
  /\ Store("responses", expected, IF expected = 0 THEN Ready ELSE observed)
  /\ UNCHANGED <<expected, taken, observed, cexp, operations, writable, armed>>

ChildSendPost ==
  /\ ChildAt("obsPost") /\ Proceed("next")
  /\ PostFull("responses")
  /\ UNCHANGED <<expected, taken, observed, cexp, operations, writable, armed>>

(* The for loop: the next generation, or, after the last one, the          *)
(* exception "executor operation budget exceeded".                         *)
ChildNext ==
  /\ ChildAt("next")
  /\ IF expected = MaxOperations
       THEN Quit("budget") /\ UNCHANGED expected
       ELSE Proceed("reqTry") /\ expected' = expected + 1
  /\ cexp' = FALSE
  /\ UNCHANGED <<boxVars, taken, observed, operations, writable, armed>>

(* SIGKILL takes effect at any later point; a kernel limit or a crash of   *)
(* native code ends the child without one.                                 *)
ChildEnds == /\ child = "running" /\ child' = "dead"
             /\ UNCHANGED <<boxVars, brokerVars, ppc, parentLocals, cpc,
                            childLocals, armed, doomed>>
ChildDies == doomed /\ ChildEnds
ChildCrashes == ~doomed /\ ChildEnds

-----------------------------------------------------------------------------
ParentStep == \/ ParentAlive("recvAlive", "recvTry")
              \/ ParentAlive("sendAlive", "sendTry")
              \/ ParentRead
              \/ ParentSendTry \/ ParentSendStore \/ ParentSendPost
              \/ ParentRecvTry \/ ParentRecvLoad \/ ParentRecvPost
              \/ ParentReady \/ ParentRefuse \/ ParentWrite \/ ParentOver
              \/ ParentKill \/ ParentReap \/ ParentDestroy

(* The bootstrap and the proposed call may take for ever.                  *)
ChildStep == \/ ChildArm \/ ChildPpid
             \/ ChildRecvTry \/ ChildRecvLoad \/ ChildRecvPost
             \/ ChildCheck
             \/ ChildSendTry \/ ChildSendStore \/ ChildSendPost
             \/ ChildNext

Environment == BrokerWrite \/ BrokerClose \/ ParentKilled \/ ChildCrashes

(* Both processes are gone; nothing is left to do.                         *)
Terminated == Gone /\ child # "running" /\ UNCHANGED vars

Next == \/ Environment
        \/ ParentStep \/ ParentClock
        \/ ChildStep \/ ChildBoot \/ ChildRun \/ ChildClock \/ ChildDies
        \/ Terminated

Spec == Init /\ [][Next]_vars

(* Both schedulers are fair, the parent's clock advances and SIGKILL is    *)
(* delivered; bootstrap, proposed call, crashes and broker owe nothing.    *)
Fairness == /\ WF_vars(ParentStep) /\ WF_vars(ParentClock)
            /\ WF_vars(ChildStep) /\ WF_vars(ChildDies)

FairSpec == Spec /\ Fairness

-----------------------------------------------------------------------------
(* The variables have their types; the semaphores are binary.              *)
BoxTypes == /\ free \in [Boxes -> 0 .. 1]
            /\ full \in [Boxes -> 0 .. 1]
            /\ slot \in [Boxes -> Messages]

BrokerTypes == /\ request \in Requests
               /\ eof \in BOOLEAN
               /\ answer \in [seq : 0 .. MaxSeq, observation : Observations]

ParentTypes ==
  /\ ppc \in Sending \cup Receiving \cup Ended \cup {"deliver", "read", "over"}
  /\ generation \in Generations
  /\ held \in Requests
  /\ got \in Messages
  /\ pexp \in BOOLEAN
  /\ reason \in {"none", "eof", "child", "timeout", "generation", "oversize",
                 "budget"}

ChildTypes ==
  /\ cpc \in ChildReceiving \cup ChildSending
              \cup {"arm", "ppid", "boot", "check", "run", "next", "done"}
  /\ expected \in Generations
  /\ taken \in Messages
  /\ observed \in Observations
  /\ cexp \in BOOLEAN
  /\ creason \in {"none", "orphan", "bootstrap", "timeout", "generation",
                  "rejected", "budget"}
  /\ operations \in Generations
  /\ writable \in BOOLEAN

ProcessTypes == /\ child \in {"running", "dead", "reaped"}
                /\ armed \in BOOLEAN
                /\ doomed \in BOOLEAN

TypeOK == BoxTypes /\ BrokerTypes /\ ParentTypes /\ ChildTypes /\ ProcessTypes

-----------------------------------------------------------------------------
WritingRequest == ppc \in {"sendStore", "sendPost"}
ReadingRequest == cpc \in {"reqLoad", "reqPost"}
WritingResponse == cpc \in {"obsStore", "obsPost"}
ReadingResponse == ppc \in {"recvLoad", "recvPost"}

(* The two processes never touch the content of one mailbox at a time, and *)
(* a mailbox in use is neither free nor full: _Mailbox.send and receive    *)
(* need no other lock than the two semaphores.                             *)
SlotExclusion ==
  /\ ~(WritingRequest /\ ReadingRequest)
  /\ ~(WritingResponse /\ ReadingResponse)
  /\ WritingRequest \/ ReadingRequest
       => free["requests"] = 0 /\ full["requests"] = 0
  /\ WritingResponse \/ ReadingResponse
       => free["responses"] = 0 /\ full["responses"] = 0

(* While proposed code runs its response mapping is protected, no mailbox  *)
(* holds a message, and a transport parent that is still at work is        *)
(* waiting for the observation: nothing the proposed call does before it   *)
(* has unwound can be taken for an answer.                                 *)
QuietWhileProposed ==
  cpc = "run" => /\ ~writable
                 /\ \A b \in Boxes : full[b] = 0
                 /\ ppc \in {"recvAlive", "recvTry"} \cup Ended

(* An answer the broker holds for its last request is the observation of   *)
(* the last execution, and that execution was of this request's payload:   *)
(* no stale, early or crossed observation crosses the two mailboxes.       *)
AnswerIntegrity ==
  answer.seq = request.seq /\ answer.seq # 0
    => /\ answer.observation = observed
       /\ observed.payload = request.payload
       /\ observed.run = operations
       /\ observed.kind # "oversize"

(* The processes stay in step through timeouts, crashes and kills: neither *)
(* generation check ever fires, and no sender ever finds its slot taken,   *)
(* so the deadlines of send never decide anything.                         *)
InStep == /\ reason # "generation" /\ creason # "generation"
          /\ ppc = "sendTry" => free["requests"] = 1
          /\ cpc = "obsTry" => free["responses"] = 1

(* sem_destroy and munmap happen only after the application is dead and    *)
(* reaped, whatever ended the transport's loop.                            *)
DestroyAfterChild == ppc \in {"destroy", "exited"} => child = "reaped"

(* A call starts only for a request the broker still waits for, and only   *)
(* after every earlier execution has been answered.                        *)
OnDemand == [][operations' # operations =>
                 /\ request.seq # answer.seq
                 /\ answer.observation.run = operations]_vars

(* The application finished the call of the request the broker waits for.  *)
ExecutedNotAnswered == /\ generation > 0 /\ ppc # "over"
                       /\ observed.run = generation

Abstract(o) == [payload |-> o.payload, kind |-> o.kind]
Phase == IF ppc \in Ended THEN "closed"
         ELSE IF request.seq = answer.seq THEN "idle"
         ELSE IF ExecutedNotAnswered THEN "executed"
         ELSE "pending"

Obs == INSTANCE Observation WITH
         phase <- Phase,
         observation <- Abstract(observed),
         answer <- [seq |-> answer.seq,
                    observation |-> Abstract(answer.observation)]

(* The executor implements the abstract observation service: each request  *)
(* is executed at most once and answered by its own execution's            *)
(* observation, and a closed channel answers nothing.                      *)
ImplementsObservation == Obs!AbsSpec

(* Every request is answered, or the transport ends: a call that hangs, a  *)
(* child that dies and a slot that stays taken all run into a deadline.    *)
EveryRequestSettled ==
  (request.seq # answer.seq)
    ~> (request.seq = answer.seq \/ Gone)

(* No application outlives its transport: close kills it, PDEATHSIG does   *)
(* when the parent is killed, and the getppid check covers the time before *)
(* the signal is armed.  (A bootstrap or call in progress is no obstacle.) *)
NoOrphan == (Gone) ~> (child # "running")

(* The assertion _bf_operations <= _BF_MAX_OPERATIONS admits operation     *)
(* number MaxOperations; the transport must then not lose its observation  *)
(* to the exit "executor operation budget exceeded".                       *)
LegalOperationAnswered ==
  ~(reason = "child" /\ creason = "budget" /\ operations <= MaxOperations)
=============================================================================
