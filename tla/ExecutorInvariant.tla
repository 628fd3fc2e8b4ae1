-------------------------- MODULE ExecutorInvariant --------------------------
(***************************************************************************)
(* The inductive invariant of Executor.  One token goes round: parent,     *)
(* requests slot, child, responses slot.  OneToken says that nobody else   *)
(* has it; the other parts follow the message it carries.  Nothing is      *)
(* assumed of a process that has ended, so a kill or a crash loses the     *)
(* token but never doubles it.                                             *)
(***************************************************************************)
EXTENDS Executor

ParentTurn == ppc \in Sending \cup {"recvLoad", "recvPost", "deliver", "read",
                                    "over"}
ChildIdle == cpc \in {"next", "reqTry", "done"}
Answering == full["responses"] = 1 \/ ReadingResponse \/ ppc = "deliver"

(* The generation the child will ask for next, if it still will.           *)
Upcoming(g) == \/ cpc = "done"
               \/ cpc = "next" /\ expected + 1 = g
               \/ cpc = "reqTry" /\ expected = g

(* At most one of the two processes and the two slots has the token.       *)
OneToken ==
  /\ ParentTurn => full["requests"] = 0 /\ full["responses"] = 0 /\ ChildIdle
  /\ full["requests"] = 1 => full["responses"] = 0 /\ ChildIdle
  /\ full["responses"] = 1 => ChildIdle

(* A slot is free but for its own stretch of the token's round.            *)
FreeSlots ==
  /\ \A b \in Boxes : full[b] = 1 => free[b] = 0
  /\ WritingRequest \/ ReadingRequest => free["requests"] = 0
  /\ WritingResponse \/ ReadingResponse => free["responses"] = 0
  /\ (ParentTurn /\ ~WritingRequest) \/ (~ChildIdle /\ ~ReadingRequest)
       \/ full["responses"] = 1 => free["requests"] = 1
  /\ (ParentTurn /\ ~ReadingResponse) \/ (~ChildIdle /\ ~WritingResponse)
       \/ full["requests"] = 1 => free["responses"] = 1

(* A request read by the parent and not yet answered.  A parent that waits *)
(* for a child that is gone has one too.                                   *)
InFlight == /\ generation > 0
            /\ \/ ppc \in Sending \cup Receiving \cup {"deliver"}
               \/ ~ChildIdle \/ full["requests"] = 1 \/ full["responses"] = 1

Bookkeeping ==
  /\ ppc \in Sending \cup {"read", "over"} \/ full["requests"] = 1
       => generation > 0
  /\ ppc = "read" \/ InFlight => answer.observation.run + 1 = generation
  /\ generation = 0 => answer.observation.run = 0
  /\ InFlight => held = request /\ request.seq # answer.seq

(* The request's content on its way to the child.                          *)
RequestContent ==
  /\ ppc \in Sending \cup {"read"} \/ full["requests"] = 1
       => Upcoming(generation)
  /\ ppc = "over" => generation = MaxOperations /\ Upcoming(generation + 1)
  /\ ppc = "sendPost" \/ full["requests"] = 1 \/ cpc = "reqLoad"
       => slot["requests"] = [gen |-> generation, data |-> held.payload]
  /\ cpc \in {"reqPost", "check"} => taken.gen = generation
  /\ cpc \in {"reqPost", "check", "run"} => taken.data = held.payload

Result == [gen |-> generation,
           data |-> IF generation = 0 THEN Ready ELSE observed]

(* The observation's content on its way back.                              *)
ResponseContent ==
  /\ Answering => Upcoming(generation + 1) /\ operations = generation
  /\ cpc = "obsPost" \/ full["responses"] = 1 \/ ppc = "recvLoad"
       => slot["responses"] = Result
  /\ ppc \in {"recvPost", "deliver"} => got = Result
  /\ (cpc \in ChildSending \/ Answering) /\ generation > 0
       => observed.run = generation /\ observed.payload = held.payload

(* How the child's counters follow its program counter.                    *)
Executions ==
  /\ ~ChildIdle => expected = generation
  /\ cpc \in {"arm", "ppid", "boot"} => expected = 0 /\ operations = 0
  /\ cpc \in {"reqTry", "check"} \/ ReadingRequest => operations + 1 = expected
  /\ cpc \in {"run", "next"} \cup ChildSending => operations = expected
  /\ cpc = "run" => expected > 0 /\ ~writable /\ observed.run < operations
  /\ ppc \in Sending \cup {"read"} \/ full["requests"] = 1
       => operations + 1 = generation
  /\ observed.run <= operations

IndInv == /\ TypeOK /\ OneToken /\ FreeSlots /\ Bookkeeping
          /\ RequestContent /\ ResponseContent /\ Executions
          /\ AnswerIntegrity /\ InStep /\ DestroyAfterChild
=============================================================================
