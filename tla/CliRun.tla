-------------------------------- MODULE CliRun --------------------------------
(***************************************************************************)
(* One call of the proposed command line by a frozen test.  The worker     *)
(* (bridged_run) asks the executor for a "cli" operation; the executor     *)
(* runs the process in a session of its own, collects what it writes until *)
(* both pipes are at their end or the deadline is over, and sends the      *)
(* session's group SIGKILL on every way out (_bf_run_cli_bounded); the     *)
(* worker then relays, raises or returns as subprocess.run would.  The     *)
(* process may fork, and a descendant may leave the group.                 *)
(***************************************************************************)
EXTENDS Naturals, FiniteSets, Sequences, SequencesExt

CONSTANTS Budget,        \* _BF_MAX_FRAME_BYTES, in chunks, for each stream
          Frame,         \* chunks of both streams that a response has room for
          PipeCapacity,  \* chunks a pipe holds
          MaxWrites      \* bound of the model: chunks written by the process

(* A response has the limit of a single stream for both, encoded.          *)
ASSUME CliAssumption ==
  /\ {Budget, PipeCapacity, MaxWrites} \subseteq Nat \ {0}
  /\ Frame \in Nat /\ Frame <= Budget

Streams == {"out", "err"}
Processes == {"cli", "kid", "daemon"}      \* itself, a child, one that left
Group == {"cli", "kid"}

(* What a caller may ask for: the streams it leaves to inherit, whether a  *)
(* timeout is given, whether the output is decoded, and whether a status   *)
(* other than 0 raises.  A stream that is not inherited is a pipe or null, *)
(* which nothing here tells apart.                                         *)
Options == [inherit : SUBSET Streams, timeout : BOOLEAN, text : BOOLEAN,
            check : BOOLEAN]
Unread == [inherit |-> {}, timeout |-> FALSE, text |-> FALSE, check |-> FALSE]

VARIABLES
  merged,          \* the caller's stderr goes where its stdout goes
  options,         \* its other options
  wpc, outcome,    \* the worker, and how its call came out
  relayed,         \* what it wrote to its own stdout and stderr
  xpc,             \* the executor
  watched, ready,  \* streams in the selector; what select returned
  collected,       \* output gathered by stream
  late,            \* the deadline has passed
  answer,          \* what the executor observed
  alive, doomed,   \* the processes that run; those with SIGKILL pending
  status,          \* the exit status of the first, 9 for killed
  holders, pipe,   \* who has the writing end of a pipe open; its content
  written          \* everything ever written to a pipe

workerVars == <<merged, options, wpc, outcome, relayed>>
executorVars == <<xpc, watched, ready, collected, answer>>
processVars == <<alive, doomed, status, holders, pipe, written>>
vars == <<workerVars, executorVars, late, processVars>>

Each(x) == [s \in Streams |-> x]
NoAnswer == [kind |-> "none", rc |-> 0]
(* An exception of a type that has a name for the worker, or of another.   *)
Raised == [kind |-> "raised", rc |-> 9]
Unknown == [kind |-> "unknown", rc |-> 9]
TimedOut == [kind |-> "timedout", rc |-> 9]
Exited(rc) == [kind |-> "exited", rc |-> rc]
(* The pipes there are, and the one that a file descriptor leads to.       *)
Pipes == IF merged THEN {"out"} ELSE Streams
PipeOf(fd) == IF merged THEN "out" ELSE fd

Init ==
  /\ merged \in BOOLEAN /\ options = Unread
  /\ wpc = "asked" /\ outcome = "none" /\ relayed = Each(<<>>)
  /\ xpc = "start" /\ watched = {} /\ ready = {} /\ collected = Each(<<>>)
  /\ late = FALSE /\ answer = NoAnswer
  /\ alive = {} /\ doomed = {} /\ status = 0
  /\ holders = Each({}) /\ pipe = Each(<<>>) /\ written = Each(<<>>)

-----------------------------------------------------------------------------
(* The executor: _bf_run_cli_bounded.                                      *)
ExecutorAt(pc) == xpc = pc /\ UNCHANGED workerVars

(* The operation is over.  What was observed may be too large for a        *)
(* response, also within the budgets: then the application dies of it and  *)
(* there is none.                                                          *)
Gathered == Len(collected["out"]) + Len(collected["err"])
Over(a) ==
  /\ answer' = a
  /\ xpc' = IF a.kind \in {"exited", "timedout"} /\ Gathered > Frame
              THEN "failed" ELSE "answered"

(* Before the try nothing is killed: what cannot be prepared or started    *)
(* has no process, and for want of a selector it is left running.          *)
Start ==
  /\ ExecutorAt("start")
  /\ \/ /\ Over(Raised) \/ Over(Unknown)
        /\ UNCHANGED <<alive, holders, watched>>
     \/ /\ alive' = {"cli"}
        /\ holders' = [s \in Streams |-> IF s \in Pipes THEN {"cli"} ELSE {}]
        /\ \/ xpc' = "loop" /\ watched' = Pipes /\ UNCHANGED answer
           \/ Over(Unknown) /\ UNCHANGED watched
  /\ UNCHANGED <<ready, collected, late, doomed, status, pipe, written>>

(* The top of the loop: no stream left, the deadline, or select, which may *)
(* find nothing before it returns.                                         *)
AtEof(s) == pipe[s] = <<>> /\ holders[s] = {}
Readable(s) == pipe[s] # <<>> \/ holders[s] = {}
Loop ==
  /\ ExecutorAt("loop")
  /\ \/ watched = {} /\ xpc' = "wait" /\ UNCHANGED <<ready, answer>>
     \/ /\ watched # {} /\ late
        /\ xpc' = "kill" /\ answer' = TimedOut
        /\ UNCHANGED ready
     \/ /\ watched # {} /\ ~late
        /\ ready' = {s \in watched : Readable(s)} /\ ready' # {}
        /\ xpc' = "read" /\ UNCHANGED answer
  /\ UNCHANGED <<watched, collected, late, processVars>>

(* One key of those select returned: a chunk, or the end of the stream.    *)
After(s) == /\ ready' = ready \ {s}
            /\ xpc' = IF ready' = {} THEN "loop" ELSE "read"
OverBudget(s) == Len(collected[s]) + 1 > Budget
ReadDropping(s) ==                         \* mutant: an excess is dropped
  /\ ExecutorAt("read") /\ s \in ready /\ After(s)
  /\ IF AtEof(s)
       THEN /\ watched' = watched \ {s}
            /\ UNCHANGED <<collected, answer, pipe>>
       ELSE /\ pipe' = [pipe EXCEPT ![s] = Tail(@)]
            /\ collected' = IF OverBudget(s) THEN collected
                            ELSE [collected EXCEPT ![s] = Append(@, Head(pipe[s]))]
            /\ UNCHANGED <<watched, answer>>
  /\ UNCHANGED <<late, alive, doomed, status, holders, written>>

Read(s) ==
  /\ ExecutorAt("read") /\ s \in ready
  /\ IF AtEof(s)
       THEN /\ After(s) /\ watched' = watched \ {s}
            /\ UNCHANGED <<collected, answer, pipe>>
       ELSE /\ pipe' = [pipe EXCEPT ![s] = Tail(@)]
            /\ UNCHANGED watched
            /\ IF OverBudget(s)
                 THEN /\ xpc' = "kill" /\ answer' = Raised
                      /\ UNCHANGED <<ready, collected>>
                 ELSE /\ collected' = [collected EXCEPT ![s] =
                                         Append(@, Head(pipe[s]))]
                      /\ After(s) /\ UNCHANGED answer
  /\ UNCHANGED <<late, alive, doomed, status, holders, written>>

(* Both streams are at their end; process.wait with what time is left.     *)
WaitUnlimited ==                           \* mutant: no timeout for the exit
  /\ ExecutorAt("wait") /\ xpc' = "kill"
  /\ "cli" \notin alive /\ answer' = Exited(status)
  /\ UNCHANGED <<watched, ready, collected, late, processVars>>

Wait ==
  /\ ExecutorAt("wait") /\ xpc' = "kill"
  /\ \/ late /\ answer' = TimedOut
     \/ ~late /\ "cli" \notin alive /\ answer' = Exited(status)
  /\ UNCHANGED <<watched, ready, collected, late, processVars>>

(* The finally: SIGKILL to the group, or to what there is of it.           *)
KillOne ==                                 \* mutant: only the process
  /\ ExecutorAt("kill") /\ xpc' = "reap"
  /\ doomed' = alive \cap {"cli"}
  /\ UNCHANGED <<watched, ready, collected, answer, late, alive, status,
                 holders, pipe, written>>

Kill ==
  /\ ExecutorAt("kill") /\ xpc' = "reap"
  /\ doomed' = alive \cap Group
  /\ UNCHANGED <<watched, ready, collected, answer, late, alive, status,
                 holders, pipe, written>>

(* The wait for the process, and for it alone; the reading ends are closed *)
(* and the temporary directory goes.  A wait that runs into its 5 seconds, *)
(* or a directory that cannot be removed, takes the place of the answer.   *)
Reap ==
  /\ ExecutorAt("reap")
  /\ \/ "cli" \notin alive /\ Over(answer)
     \/ Over(Unknown)
  /\ UNCHANGED <<watched, ready, collected, late, processVars>>

(* The clock: timeout seconds after the start.                             *)
Deadline == /\ xpc \in {"loop", "read", "wait"} /\ ~late /\ late' = TRUE
            /\ UNCHANGED <<workerVars, executorVars, processVars>>

-----------------------------------------------------------------------------
(* The process and its descendants.                                        *)
ProcessStep == UNCHANGED <<workerVars, executorVars, late>>
(* The reading ends are open; an exception may keep them for a while.      *)
Open == \/ xpc \in {"loop", "read", "wait", "kill", "reap"}
        \/ answer.kind = "unknown"
Total == Len(written["out"]) + Len(written["err"])

Write(p, fd) ==
  LET s == PipeOf(fd)
      chunk == <<fd, Total>>
  IN /\ ProcessStep /\ Open /\ p \in holders[s]
     /\ Len(pipe[s]) < PipeCapacity /\ Total < MaxWrites
     /\ pipe' = [pipe EXCEPT ![s] = Append(@, chunk)]
     /\ written' = [written EXCEPT ![s] = Append(@, chunk)]
     /\ UNCHANGED <<alive, doomed, status, holders>>

(* A child inherits the pipes that its parent has; it may leave the group. *)
(* With a SIGKILL pending nothing forks.                                   *)
Fork(p) ==
  /\ ProcessStep /\ "cli" \in alive \ doomed /\ p \in Processes \ (alive \cup {"cli"})
  /\ alive' = alive \cup {p}
  /\ holders' = [s \in Streams |-> IF "cli" \in holders[s]
                                     THEN holders[s] \cup {p} ELSE holders[s]]
  /\ UNCHANGED <<doomed, status, pipe, written>>

CloseStream(p, s) ==
  /\ ProcessStep /\ p \in holders[s]
  /\ holders' = [holders EXCEPT ![s] = @ \ {p}]
  /\ UNCHANGED <<alive, doomed, status, pipe, written>>

Gone(p) ==
  /\ ProcessStep /\ p \in alive
  /\ alive' = alive \ {p} /\ doomed' = doomed \ {p}
  /\ holders' = [s \in Streams |-> holders[s] \ {p}]
  /\ UNCHANGED <<pipe, written>>

Exit(p) == /\ Gone(p)
           /\ status' \in IF p = "cli" THEN {0, 1, 2} ELSE {status}

(* The signal arrives, in its own time.                                    *)
Die(p) == /\ Gone(p) /\ p \in doomed
          /\ status' = IF p = "cli" THEN 9 ELSE status

-----------------------------------------------------------------------------
(* The worker: the rest of bridged_run.                                    *)
WorkerAt(pc) == /\ wpc = pc
                /\ UNCHANGED <<merged, executorVars, late, processVars>>
Raise(e) == outcome' = e /\ wpc' = "returned"

(* The RPC or a mailbox runs out of time, or there is no response, for     *)
(* whatever reason; the bridge is failed for good and the namespace comes  *)
(* down (Bridge).                                                          *)
RequestTimeout == /\ WorkerAt("asked") /\ Raise("fatal")
                  /\ UNCHANGED <<options, relayed>>

(* An exception of the operation is raised again here, if request knows    *)
(* its name, and fails the bridge else.  The options were given with the   *)
(* call, but what they are matters from here on only.                      *)
Receive ==
  /\ WorkerAt("asked") /\ xpc = "answered"
  /\ \/ answer.kind = "raised" /\ Raise("error")
     \/ answer.kind = "unknown" /\ Raise("fatal")
     \/ /\ answer.kind \in {"exited", "timedout"}
        /\ wpc' = "relay" /\ UNCHANGED outcome
  /\ options' \in {o \in Options : merged => "err" \notin o.inherit}
  /\ UNCHANGED relayed

(* relay_inherited: a write of the worker's own fails half-way; the output *)
(* comes before the error output.                                          *)
RelayFails(s) ==
  /\ WorkerAt("relay") /\ s \in options.inherit
  /\ \E n \in 0 .. Len(collected[s]) - 1 :
       relayed' = [t \in Streams |->
                     IF t = s THEN SubSeq(collected[s], 1, n)
                     ELSE IF t = "out" /\ t \in options.inherit
                            THEN collected[t] ELSE <<>>]
  /\ Raise("unrelayed")
  /\ UNCHANGED options

(* The output of streams that were inherited, then the timeout.            *)
Relay ==
  /\ WorkerAt("relay") /\ UNCHANGED options
  /\ relayed' = [s \in Streams |-> IF s \in options.inherit
                                     THEN collected[s] ELSE <<>>]
  /\ IF answer.kind # "timedout" THEN wpc' = "judge" /\ UNCHANGED outcome
     ELSE Raise(IF options.timeout THEN "timeout" ELSE "unsupported")

(* Output that does not decode; else CompletedProcess and check_returncode.*)
Judge ==
  /\ WorkerAt("judge")
  /\ \/ options.text /\ Raise("undecodable")
     \/ Raise(IF options.check /\ answer.rc # 0 THEN "called" ELSE "completed")
  /\ UNCHANGED <<options, relayed>>

ExecutorStep == Start \/ Loop \/ (\E s \in Streams : Read(s)) \/ Wait \/ Kill
                  \/ Reap
WorkerStep == Receive \/ Relay \/ (\E s \in Streams : RelayFails(s)) \/ Judge
ProcessSteps == \E p \in Processes :
  \/ \E fd \in Streams : Write(p, fd)
  \/ Fork(p)
  \/ \E s \in Streams : CloseStream(p, s)
  \/ Exit(p) \/ Die(p)
Ended == xpc \in {"answered", "failed"}
Finished == wpc = "returned" /\ Ended /\ UNCHANGED vars

Next == ExecutorStep \/ Deadline \/ ProcessSteps \/ WorkerStep
          \/ RequestTimeout \/ Finished
Spec == Init /\ [][Next]_vars

(* The executor and the worker are scheduled, the clock advances, and a    *)
(* SIGKILL arrives; the process and its descendants owe nothing.           *)
FairSpec == /\ Spec /\ WF_vars(ExecutorStep) /\ WF_vars(Deadline)
            /\ WF_vars(WorkerStep) /\ \A p \in Group : WF_vars(Die(p))

-----------------------------------------------------------------------------
(* The variables have their types.                                         *)
TypeOK ==
  /\ options \in Options
  /\ wpc \in {"asked", "relay", "judge", "returned"}
  /\ outcome \in {"none", "completed", "called", "undecodable", "timeout",
                  "unsupported", "unrelayed", "error", "fatal"}
  /\ xpc \in {"start", "loop", "read", "wait", "kill", "reap", "answered",
              "failed"}
  /\ watched \subseteq Pipes /\ ready \subseteq watched
  /\ \A s \in Streams : Len(collected[s]) <= Budget
  /\ answer.kind \in {"none", "exited", "timedout", "raised", "unknown"}
  /\ alive \subseteq Processes /\ doomed \subseteq alive \cap Group
  /\ status \in {0, 1, 2, 9}
  /\ \A s \in Streams : /\ holders[s] \subseteq alive
                        /\ Len(pipe[s]) <= PipeCapacity

(* Nothing was started.                                                    *)
NotStarted == alive = {} /\ written = Each(<<>>)

(* What a test is told about a call is true of the process.  A call that   *)
(* completed, or raised for its status or its text, has the status the     *)
(* process left, and the whole output, in the order in which it was        *)
(* written, of the process and of all that shared its pipes; a timeout has *)
(* a beginning of it; what was to be inherited has been relayed, stream by *)
(* stream, or a beginning of it; and the one exception of the operation    *)
(* that a test may take for the application's own says that the output was *)
(* over the budget of a stream, or that nothing was started.  All else     *)
(* fails the bridge.                                                       *)
OutputGenuine ==
  wpc = "returned" =>
    /\ outcome \in {"completed", "called", "undecodable"} =>
         /\ answer.rc = status /\ "cli" \notin alive
         /\ collected = written /\ Gathered <= Frame
    /\ outcome = "called" => options.check /\ status # 0
    /\ outcome = "completed" /\ options.check => status = 0
    /\ outcome \in {"timeout", "unsupported"} =>
         late /\ \A s \in Streams : IsPrefix(collected[s], written[s])
    /\ outcome \notin {"fatal", "error", "unrelayed"} =>
         \A s \in options.inherit : relayed[s] = collected[s]
    /\ outcome = "unrelayed" =>
         \A s \in Streams : IsPrefix(relayed[s], written[s])
    /\ outcome = "error" =>
         NotStarted \/ \E s \in Streams : Len(written[s]) > Budget

(* The operation ends whatever the process does: it may hang, fill the     *)
(* pipes, close them and live on, or leave them to a descendant.           *)
CliReturns == (xpc = "loop") ~> Ended

(* Once the output is being collected, the process group comes to its end, *)
(* whichever way the operation goes out, and stays gone: no earlier call   *)
(* runs into later ones for good.  The answer does not wait for it, and a  *)
(* descendant that left the group ends only with the namespace.            *)
GroupDies == (xpc = "loop") ~> [](alive \cap Group = {})
=============================================================================
