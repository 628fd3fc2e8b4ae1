----------------------------- MODULE CliRunProofs -----------------------------
(***************************************************************************)
(* Machine-checked proofs about CliRun, for any budget and capacity of the *)
(* streams and any number of writes: what a test is told about a call of   *)
(* the command line is true, and what has been decided about it stands.    *)
(***************************************************************************)
EXTENDS CliRun, SequenceTheorems, TLAPS

(* A chunk: the descriptor it was written to, and a number.                *)
Chunks == Streams \X Nat

TypeInv ==
  /\ TypeOK /\ merged \in BOOLEAN /\ late \in BOOLEAN /\ options \in Options
  /\ answer.rc \in Nat
  /\ collected \in [Streams -> Seq(Chunks)]
  /\ pipe \in [Streams -> Seq(Chunks)] /\ written \in [Streams -> Seq(Chunks)]
  /\ relayed \in [Streams -> Seq(Chunks)]
  /\ holders \in [Streams -> SUBSET Processes]

(* What was written to a stream has been collected or is in its pipe, but  *)
(* for the chunk over the budget and for what follows a failure.           *)
FlowInv ==
  /\ answer.kind \notin {"raised", "unknown"} =>
       \A s \in Streams : written[s] = collected[s] \o pipe[s]
  /\ answer.kind = "raised" =>
       NotStarted \/ \E s \in Streams : Len(written[s]) > Budget

(* A stream that is not in the selector is empty and stays so; one that    *)
(* select found readable still is when its turn comes.                     *)
EndInv ==
  /\ answer.kind # "unknown" =>
       \A s \in Streams \ watched : pipe[s] = <<>> /\ holders[s] = {}
  /\ xpc = "read" => \A s \in ready : Readable(s)

(* What the executor observed, and whom it has killed.                     *)
AnswerInv ==
  /\ xpc \in {"start", "loop", "read", "wait"} <=> answer.kind = "none"
  /\ xpc = "start" => NotStarted /\ ready = {} /\ watched = {} /\ doomed = {}
  /\ xpc = "wait" => watched = {}
  /\ answer.kind = "exited" =>
       watched = {} /\ "cli" \notin alive /\ answer.rc = status
  /\ answer.kind = "timedout" => late
  /\ answer.kind = "unknown" => xpc = "answered"
  /\ xpc = "answered" /\ answer.kind \in {"exited", "timedout"} =>
       Gathered <= Frame
  /\ xpc \in {"reap", "answered", "failed"} /\ answer.kind # "unknown" =>
       alive \cap Group \subseteq doomed

(* What the worker makes of it.                                            *)
ResultInv ==
  /\ wpc # "returned" <=> outcome = "none"
  /\ wpc \in {"relay", "judge"} => xpc = "answered"
  /\ outcome \notin {"none", "fatal"} => xpc = "answered"
  /\ wpc = "relay" => answer.kind \in {"exited", "timedout"}
  /\ wpc = "judge" => answer.kind = "exited"
  /\ outcome \in {"completed", "called", "undecodable"} =>
       answer.kind = "exited"
  /\ outcome = "called" => options.check /\ answer.rc # 0
  /\ outcome = "completed" /\ options.check => answer.rc = 0
  /\ outcome \in {"timeout", "unsupported"} => answer.kind = "timedout"
  /\ outcome = "error" => answer.kind = "raised"
  /\ wpc = "judge" \/ outcome \notin {"none", "fatal", "error", "unrelayed"} =>
       \A s \in options.inherit : relayed[s] = collected[s]
  /\ outcome = "unrelayed" =>
       /\ answer.kind \in {"exited", "timedout"}
       /\ \A s \in Streams : IsPrefix(relayed[s], collected[s])

CliInv == TypeInv /\ FlowInv /\ EndInv /\ AnswerInv /\ ResultInv

(* Moving a chunk from a pipe to the collection loses nothing.             *)
LEMMA MoveChunk ==
  ASSUME NEW c \in Seq(Chunks), NEW q \in Seq(Chunks), q # <<>>
  PROVE  /\ Append(c, Head(q)) \in Seq(Chunks) /\ Tail(q) \in Seq(Chunks)
         /\ Append(c, Head(q)) \o Tail(q) = c \o q
         /\ Len(Append(c, Head(q))) = Len(c) + 1
         /\ Len(Tail(q)) = Len(q) - 1
         /\ Len(c \o q) >= Len(c) + 1
  <1>1. /\ Head(q) \in Chunks /\ Tail(q) \in Seq(Chunks)
        /\ Len(Tail(q)) = Len(q) - 1
    BY HeadTailProperties
  <1>2. <<Head(q)>> \in Seq(Chunks) /\ q = <<Head(q)>> \o Tail(q)
    OBVIOUS
  <1>3. Append(c, Head(q)) = c \o <<Head(q)>>
    BY <1>1, AppendIsConcat
  <1>4. (c \o <<Head(q)>>) \o Tail(q) = c \o (<<Head(q)>> \o Tail(q))
    BY <1>1, <1>2, ConcatAssociative
  <1>5. Len(q) \in Nat \ {0} /\ Len(c \o q) = Len(c) + Len(q)
    BY EmptySeq, ConcatProperties
  <1>6. Len(c \o q) >= Len(c) + 1
    BY <1>5
  <1>7. /\ Append(c, Head(q)) \in Seq(Chunks)
        /\ Len(Append(c, Head(q))) = Len(c) + 1
    BY <1>1, AppendProperties
  <1> QED
    BY <1>1, <1>2, <1>3, <1>4, <1>6, <1>7

(* A sequence with a chunk written to it has one more and is not empty.    *)
LEMMA AppendChunk ==
  ASSUME NEW q \in Seq(Chunks), NEW x \in Chunks
  PROVE  /\ Append(q, x) \in Seq(Chunks) /\ Len(Append(q, x)) = Len(q) + 1
         /\ Append(q, x) # <<>>
  BY AppendProperties

(* A chunk written goes to the end of the pipe and of all that was         *)
(* written.                                                                *)
LEMMA AddChunk ==
  ASSUME NEW c \in Seq(Chunks), NEW q \in Seq(Chunks), NEW x \in Chunks
  PROVE  Append(c \o q, x) = c \o Append(q, x)
  <1>1. Append(q, x) = q \o <<x>> /\ <<x>> \in Seq(Chunks)
    BY AppendIsConcat
  <1>2. c \o q \in Seq(Chunks)
    BY ConcatProperties
  <1>3. Append(c \o q, x) = (c \o q) \o <<x>>
    BY <1>2, AppendIsConcat
  <1>4. (c \o q) \o <<x>> = c \o (q \o <<x>>)
    BY <1>1, ConcatAssociative
  <1> QED
    BY <1>1, <1>3, <1>4

(* The first part of a concatenation is a prefix of it.                    *)
LEMMA ConcatPrefix ==
  ASSUME NEW c \in Seq(Chunks), NEW q \in Seq(Chunks)
  PROVE  IsPrefix(c, c \o q)
  <1>1. /\ Len(c) \in Nat /\ Len(q) \in Nat
        /\ c \o q \in Seq(Chunks) /\ Len(c \o q) = Len(c) + Len(q)
    BY ConcatProperties
  <1>2. Len(c) <= Len(c \o q)
    BY <1>1
  <1>3. /\ SubSeq(c, 1, Len(c)) = [i \in 1 .. Len(c) |-> c[i]]
        /\ SubSeq(c \o q, 1, Len(c)) = [i \in 1 .. Len(c) |-> (c \o q)[i]]
    BY <1>1
  <1>4. \A i \in 1 .. Len(c) : (c \o q)[i] = c[i]
    BY <1>1, ConcatProperties
  <1> QED
    BY <1>2, <1>3, <1>4 DEF IsPrefix

(* A beginning of a part is a beginning of the whole.                      *)
LEMMA PartPrefix ==
  ASSUME NEW b \in Seq(Chunks), NEW c \in Seq(Chunks), NEW q \in Seq(Chunks),
         IsPrefix(b, c)
  PROVE  IsPrefix(b, c \o q)
  <1>1. /\ Len(b) \in Nat /\ Len(c) \in Nat /\ Len(q) \in Nat
        /\ c \o q \in Seq(Chunks) /\ Len(c \o q) = Len(c) + Len(q)
    BY ConcatProperties
  <1>2. /\ Len(b) <= Len(c)
        /\ SubSeq(b, 1, Len(b)) = SubSeq(c, 1, Len(b))
    BY DEF IsPrefix
  <1>3. Len(b) <= Len(c \o q)
    BY <1>1, <1>2
  <1>4. /\ SubSeq(c, 1, Len(b)) = [i \in 1 .. Len(b) |-> c[i]]
        /\ SubSeq(c \o q, 1, Len(b)) = [i \in 1 .. Len(b) |-> (c \o q)[i]]
    <2> DEFINE w == c \o q
    <2> HIDE DEF w
    <2>1. w \in Seq(Chunks) /\ Len(b) <= Len(w) /\ Len(b) <= Len(c)
      BY <1>1, <1>2, <1>3 DEF w
    <2>2. SubSeq(c, 1, Len(b)) = [i \in 1 .. Len(b) |-> c[i]]
      BY <1>1, <2>1
    <2>3. SubSeq(w, 1, Len(b)) = [i \in 1 .. Len(b) |-> w[i]]
      BY <1>1, <2>1
    <2> QED
      BY <2>2, <2>3 DEF w
  <1>5. \A i \in 1 .. Len(b) : (c \o q)[i] = c[i]
    BY <1>1, <1>2, ConcatProperties
  <1> QED
    BY <1>2, <1>3, <1>4, <1>5 DEF IsPrefix

(* A beginning is one: nothing, everything, or the first n of it.          *)
LEMMA BeginningPrefix ==
  ASSUME NEW c \in Seq(Chunks)
  PROVE  /\ <<>> \in Seq(Chunks) /\ IsPrefix(<<>>, c) /\ IsPrefix(c, c)
         /\ \A n \in 0 .. Len(c) - 1 : /\ SubSeq(c, 1, n) \in Seq(Chunks)
                                      /\ IsPrefix(SubSeq(c, 1, n), c)
  <1>1. Len(c) \in Nat /\ Len(<<>>) = 0
    OBVIOUS
  <1>2. IsPrefix(<<>>, c) /\ IsPrefix(c, c) /\ <<>> \in Seq(Chunks)
    <2>1. SubSeq(<<>>, 1, 0) = <<>> /\ SubSeq(c, 1, 0) = <<>>
      OBVIOUS
    <2>2. 0 <= Len(c) /\ Len(c) <= Len(c)
      BY <1>1
    <2> QED
      BY <1>1, <2>1, <2>2 DEF IsPrefix
  <1>3. ASSUME NEW n \in 0 .. Len(c) - 1
        PROVE  SubSeq(c, 1, n) \in Seq(Chunks) /\ IsPrefix(SubSeq(c, 1, n), c)
    <2> DEFINE b == SubSeq(c, 1, n)
    <2>1. b = [i \in 1 .. n |-> c[i]] /\ n \in Nat /\ n <= Len(c)
      BY <1>1, <1>3
    <2>2. b \in Seq(Chunks) /\ Len(b) = n
      BY <1>1, <2>1
    <2>3. SubSeq(b, 1, n) = [i \in 1 .. n |-> b[i]]
      BY <2>1, <2>2
    <2>4. \A i \in 1 .. n : b[i] = c[i]
      BY <2>1
    <2>5. SubSeq(b, 1, n) = SubSeq(c, 1, n)
      BY <2>1, <2>3, <2>4
    <2> QED
      BY <2>1, <2>2, <2>5 DEF IsPrefix
  <1> QED
    BY <1>2, <1>3

USE CliAssumption DEF workerVars, executorVars, processVars, Streams,
    Processes, Group, Pipes, ExecutorAt, ProcessStep, WorkerAt, Raise,
    Readable, Raised, Unknown, TimedOut, Exited

(* Next, by who takes the step.                                            *)
ExecutorMoves == Start \/ Loop \/ Wait \/ Kill \/ Reap \/ Deadline
WorkerMoves == \/ Receive \/ Relay \/ (\E s \in Streams : RelayFails(s))
               \/ Judge \/ RequestTimeout

(* The initial states satisfy the invariant.                               *)
LEMMA CliInit == Init => CliInv
  <1> SUFFICES ASSUME Init PROVE CliInv
    OBVIOUS
  <1> USE DEF Init, Each, NoAnswer, Unread
  <1>1. <<>> \in Seq(Chunks) /\ Len(<<>>) = 0 /\ <<>> \o <<>> = <<>>
    BY EmptySeq, ConcatEmptySeq
  <1>2. TypeInv
    <2>1. options \in Options
      BY DEF Options
    <2>2. TypeOK
      BY <1>1, <2>1 DEF TypeOK
    <2> QED
      BY <1>1, <2>1, <2>2 DEF TypeInv
  <1>3. FlowInv /\ EndInv
    BY <1>1 DEF FlowInv, EndInv
  <1>4. AnswerInv /\ ResultInv
    BY DEF AnswerInv, ResultInv, NotStarted
  <1> QED
    BY <1>2, <1>3, <1>4 DEF CliInv

(* Reading a chunk, or the end of a stream, keeps it.                      *)
LEMMA ReadKeeps ==
  ASSUME CliInv, NEW s \in Streams, Read(s)
  PROVE  CliInv'
  <1> USE DEF CliInv
  <1>1. /\ xpc = "read" /\ s \in ready /\ s \in watched
        /\ ready \subseteq watched /\ answer.kind = "none"
        /\ wpc \notin {"relay", "judge"} /\ outcome \in {"none", "fatal"}
    BY DEF Read, TypeInv, TypeOK, AnswerInv, ResultInv
  <1>2. /\ collected[s] \in Seq(Chunks) /\ pipe[s] \in Seq(Chunks)
        /\ pipe[s] = <<>> => AtEof(s)
        /\ \A t \in Streams : written[t] = collected[t] \o pipe[t]
    BY <1>1 DEF TypeInv, EndInv, FlowInv, AtEof
  <1>3. UNCHANGED <<workerVars, late, alive, doomed, status, holders, written>>
    BY DEF Read
  <1>4. CASE AtEof(s)
    <2>1. /\ ready' = ready \ {s} /\ watched' = watched \ {s}
          /\ xpc' \in {"loop", "read"}
          /\ UNCHANGED <<collected, answer, pipe>>
      BY <1>4 DEF Read, After
    <2>2. TypeInv'
      BY <1>3, <2>1 DEF TypeInv, TypeOK
    <2>3. FlowInv'
      BY <1>3, <2>1 DEF FlowInv, NotStarted, Each
    <2>4. EndInv'
      <3>1. \A t \in Streams \ watched' : pipe'[t] = <<>> /\ holders'[t] = {}
        BY <1>1, <1>3, <1>4, <2>1 DEF EndInv, AtEof
      <3>2. \A t \in ready' : Readable(t)'
        BY <1>1, <1>3, <2>1 DEF EndInv
      <3> QED
        BY <3>1, <3>2 DEF EndInv
    <2>5. AnswerInv' /\ ResultInv'
      BY <1>1, <1>3, <2>1 DEF AnswerInv, ResultInv
    <2> QED
      BY <2>2, <2>3, <2>4, <2>5
  <1>5. CASE ~AtEof(s)
    <2> DEFINE q == pipe[s]
    <2>1. /\ pipe' = [pipe EXCEPT ![s] = Tail(q)] /\ UNCHANGED watched
          /\ pipe' \in [Streams -> Seq(Chunks)] /\ Len(Tail(q)) = Len(q) - 1
          /\ Len(written[s]) >= Len(collected[s]) + 1
      <3>1. q \in Seq(Chunks) /\ q # <<>> /\ collected[s] \in Seq(Chunks)
        BY <1>2, <1>5
      <3>2. /\ Tail(q) \in Seq(Chunks) /\ Len(Tail(q)) = Len(q) - 1
            /\ Len(collected[s] \o q) >= Len(collected[s]) + 1
        BY <3>1, MoveChunk
      <3>3. pipe' = [pipe EXCEPT ![s] = Tail(q)] /\ UNCHANGED watched
        BY <1>5 DEF Read
      <3> QED
        BY <1>2, <3>2, <3>3 DEF TypeInv
    <2>2. \A t \in Streams : Len(pipe'[t]) <= PipeCapacity
      <3>1. \A t \in Streams :
              Len(pipe[t]) \in Nat /\ Len(pipe[t]) <= PipeCapacity
        BY DEF TypeInv, TypeOK
      <3>2. \A t \in Streams :
              pipe'[t] = IF t = s THEN Tail(q) ELSE pipe[t]
        BY <2>1 DEF TypeInv
      <3> QED
        BY <2>1, <3>1, <3>2
    <2>x. \A t \in Streams \ {s} : pipe'[t] = pipe[t] /\ holders'[t] = holders[t]
      BY <1>3, <2>1 DEF TypeInv
    <2>y. \A t \in Streams \ watched' : pipe'[t] = <<>> /\ holders'[t] = {}
      BY <1>1, <2>1, <2>x DEF EndInv
    <2>3. CASE OverBudget(s)
      <3>1. /\ xpc' = "kill" /\ answer' = [kind |-> "raised", rc |-> 9]
            /\ UNCHANGED <<ready, collected>>
        BY <1>5, <2>3 DEF Read
      <3>2. TypeInv'
        <4>1. TypeOK
          BY DEF TypeInv
        <4>2. UNCHANGED <<merged, options, wpc, outcome, watched, ready,
                          collected, holders, alive, doomed, status>>
          BY <1>3, <2>1, <3>1
        <4>3. TypeOK'
          BY <2>2, <3>1, <4>1, <4>2 DEF TypeOK
        <4> QED
          BY <1>3, <2>1, <3>1, <4>3 DEF TypeInv
      <3>3. FlowInv'
        <4>1. Len(collected[s]) \in Nat /\ Len(written[s]) \in Nat
          BY <1>2 DEF TypeInv
        <4>2. Len(written[s]) > Budget
          BY <2>1, <2>3, <4>1 DEF OverBudget
        <4> QED
          BY <1>3, <3>1, <4>2 DEF FlowInv
      <3>4. EndInv'
        BY <2>y, <3>1 DEF EndInv
      <3>5. AnswerInv' /\ ResultInv'
        BY <1>1, <1>3, <2>1, <3>1 DEF AnswerInv, ResultInv
      <3> QED
        BY <3>2, <3>3, <3>4, <3>5
    <2>4. CASE ~OverBudget(s)
      <3>1. /\ collected' = [collected EXCEPT ![s] = Append(@, Head(q))]
            /\ ready' = ready \ {s} /\ xpc' \in {"loop", "read"}
            /\ UNCHANGED answer
        BY <1>5, <2>4 DEF Read, After
      <3>2. /\ Append(collected[s], Head(q)) \in Seq(Chunks)
            /\ Append(collected[s], Head(q)) \o Tail(q) = written[s]
            /\ Len(Append(collected[s], Head(q))) = Len(collected[s]) + 1
        <4>1. q \in Seq(Chunks) /\ q # <<>> /\ collected[s] \in Seq(Chunks)
          BY <1>2, <1>5
        <4>2. /\ Append(collected[s], Head(q)) \in Seq(Chunks)
              /\ Append(collected[s], Head(q)) \o Tail(q) = collected[s] \o q
          BY <4>1, MoveChunk
        <4>3. Len(Append(collected[s], Head(q))) = Len(collected[s]) + 1
          BY <4>1, MoveChunk
        <4> QED
          BY <1>2, <4>2, <4>3
      <3>x. /\ collected'[s] = Append(collected[s], Head(q))
            /\ \A t \in Streams \ {s} : collected'[t] = collected[t]
        BY <3>1 DEF TypeInv
      <3>3. TypeInv'
        <4>1. collected' \in [Streams -> Seq(Chunks)]
          BY <3>1, <3>2 DEF TypeInv
        <4>2. Len(collected[s]) + 1 <= Budget
          <5>1. Len(collected[s]) \in Nat
            BY <1>2
          <5> QED
            BY <2>4, <5>1 DEF OverBudget
        <4>3. \A t \in Streams : Len(collected'[t]) <= Budget
          <5>1. Len(collected'[s]) <= Budget
            BY <3>2, <3>x, <4>2
          <5>2. \A t \in Streams \ {s} : Len(collected'[t]) <= Budget
            BY <3>x DEF TypeInv, TypeOK
          <5> QED
            BY <5>1, <5>2
        <4>4. /\ ready' \subseteq watched' /\ watched' \subseteq {"out", "err"}
              /\ xpc' \in {"loop", "read"}
          BY <1>1, <2>1, <3>1 DEF TypeInv, TypeOK
        <4>5. TypeOK'
          <5>1. TypeOK
            BY DEF TypeInv
          <5>2. /\ xpc' \in {"start", "loop", "read", "wait", "kill", "reap",
                            "answered", "failed"}
                /\ \A t \in Streams : holders'[t] \subseteq alive'
            BY <1>3, <4>4, <5>1 DEF TypeOK
          <5>3. UNCHANGED <<merged, options, wpc, outcome, watched, answer,
                            alive, doomed, status>>
            BY <1>3, <2>1, <3>1
          <5> QED
            BY <2>2, <4>3, <4>4, <5>1, <5>2, <5>3 DEF TypeOK
        <4> QED
          BY <1>3, <2>1, <3>1, <4>1, <4>5 DEF TypeInv
      <3>4. FlowInv'
        <4>1. collected'[s] \o pipe'[s] = written[s]
          <5>1. pipe'[s] = Tail(q)
            BY <2>1 DEF TypeInv
          <5> QED
            BY <3>2, <3>x, <5>1
        <4>2. \A t \in Streams \ {s} : collected'[t] \o pipe'[t] = written[t]
          BY <1>2, <2>x, <3>x
        <4>3. answer'.kind = "none" /\ written' = written
          BY <1>1, <1>3, <3>1
        <4> QED
          BY <4>1, <4>2, <4>3 DEF FlowInv
      <3>5. EndInv'
        <4>1. \A t \in ready' : Readable(t)'
          BY <1>1, <2>x, <3>1 DEF EndInv, TypeInv, TypeOK
        <4> QED
          BY <2>y, <4>1 DEF EndInv
      <3>6. AnswerInv' /\ ResultInv'
        BY <1>1, <1>3, <2>1, <3>1 DEF AnswerInv, ResultInv
      <3> QED
        BY <3>3, <3>4, <3>5, <3>6
    <2> QED
      BY <2>3, <2>4
  <1> QED
    BY <1>4, <1>5

(* A write keeps it: nobody writes to a stream that is at its end.         *)
LEMMA WriteKeeps ==
  ASSUME CliInv, NEW p \in Processes, NEW fd \in Streams, Write(p, fd)
  PROVE  CliInv'
  <1> USE DEF CliInv
  <1> DEFINE s == PipeOf(fd)
             x == <<fd, Total>>
  <1>1. /\ s \in Streams /\ x \in Chunks /\ Open
        /\ p \in holders[s] /\ Len(pipe[s]) < PipeCapacity
        /\ pipe' = [pipe EXCEPT ![s] = Append(@, x)]
        /\ written' = [written EXCEPT ![s] = Append(@, x)]
        /\ UNCHANGED <<workerVars, executorVars, late, alive, doomed, status,
                       holders>>
    <2>1. Len(written["out"]) \in Nat /\ Len(written["err"]) \in Nat
      BY DEF TypeInv
    <2>2. Total \in Nat
      <3>1. \A m, n \in Nat : m + n \in Nat
        OBVIOUS
      <3> QED
        BY <2>1, <3>1, Zenon DEF Total
    <2>3. s \in Streams /\ x \in Chunks
      BY <2>2 DEF PipeOf, Chunks
    <2> QED
      BY <2>3 DEF Write
  <1> HIDE DEF s, x
  <1>x. s \in Streams /\ x \in Chunks
    BY <1>1
  <1>2. \A t \in Streams :
          /\ collected[t] \in Seq(Chunks) /\ pipe[t] \in Seq(Chunks)
          /\ written[t] \in Seq(Chunks) /\ Len(written[t]) \in Nat
          /\ Len(pipe[t]) \in Nat
    BY DEF TypeInv
  <1>3. /\ Append(pipe[s], x) \in Seq(Chunks)
        /\ Append(written[s], x) \in Seq(Chunks)
        /\ Len(Append(pipe[s], x)) = Len(pipe[s]) + 1
        /\ Len(Append(written[s], x)) = Len(written[s]) + 1
        /\ Append(pipe[s], x) # <<>>
    <2>1. pipe[s] \in Seq(Chunks) /\ written[s] \in Seq(Chunks)
      BY <1>x, <1>2
    <2>2. /\ Append(pipe[s], x) \in Seq(Chunks) /\ Append(pipe[s], x) # <<>>
          /\ Len(Append(pipe[s], x)) = Len(pipe[s]) + 1
      BY <1>x, <2>1, AppendChunk
    <2>3. /\ Append(written[s], x) \in Seq(Chunks)
          /\ Len(Append(written[s], x)) = Len(written[s]) + 1
      BY <1>x, <2>1, AppendChunk
    <2> QED
      BY <2>2, <2>3
  <1>4. \A t \in Streams :
          /\ pipe'[t] = IF t = s THEN Append(pipe[s], x) ELSE pipe[t]
          /\ written'[t] = IF t = s THEN Append(written[s], x) ELSE written[t]
    BY <1>1 DEF TypeInv
  <1>5. TypeInv'
    <2>1. /\ pipe' \in [Streams -> Seq(Chunks)]
          /\ written' \in [Streams -> Seq(Chunks)]
      BY <1>1, <1>3 DEF TypeInv
    <2>2. \A t \in Streams : Len(pipe'[t]) <= PipeCapacity
      <3>1. Len(pipe'[s]) <= PipeCapacity
        <4>1. \A m \in Nat : m < PipeCapacity => m + 1 <= PipeCapacity
          OBVIOUS
        <4>2. Len(pipe[s]) + 1 <= PipeCapacity
          BY <1>1, <1>2, <4>1
        <4> QED
          BY <1>1, <1>3, <1>4, <4>2
      <3>2. \A t \in Streams \ {s} : Len(pipe'[t]) <= PipeCapacity
        BY <1>4 DEF TypeInv, TypeOK
      <3> QED
        BY <3>1, <3>2
    <2>3. TypeOK'
      <3>1. TypeOK
        BY DEF TypeInv
      <3>2. UNCHANGED <<workerVars, executorVars, alive, doomed, status,
                        holders>>
        BY <1>1
      <3> QED
        BY <2>2, <3>1, <3>2 DEF TypeOK
    <2> QED
      BY <1>1, <2>1, <2>3 DEF TypeInv
  <1>6. FlowInv'
    <2>1. CASE answer.kind \notin {"raised", "unknown"}
      <3>1. written[s] = collected[s] \o pipe[s]
        BY <1>1, <2>1 DEF FlowInv
      <3>2. Append(written[s], x) = collected[s] \o Append(pipe[s], x)
        <4>1. collected[s] \in Seq(Chunks) /\ pipe[s] \in Seq(Chunks)
          BY <1>1, <1>2
        <4>2. Append(collected[s] \o pipe[s], x)
                = collected[s] \o Append(pipe[s], x)
          BY <1>x, <4>1, AddChunk
        <4> QED
          BY <3>1, <4>2
      <3> QED
        BY <1>1, <1>4, <2>1, <3>2 DEF FlowInv
    <2>2. CASE answer.kind = "raised"
      <3>x. alive # {}
        BY <1>1 DEF TypeInv, TypeOK
      <3>1. PICK t \in Streams : Len(written[t]) > Budget
        BY <2>2, <3>x DEF FlowInv, NotStarted
      <3>2. Len(written'[t]) >= Len(written[t])
        <4>1. Len(written[s]) \in Nat /\ Len(written[t]) \in Nat
          BY <1>1, <1>2
        <4>2. CASE t = s
          <5>1. Len(written'[t]) = Len(written[s]) + 1
            BY <1>3, <1>4, <4>2
          <5>2. \A n \in Nat : n + 1 >= n
            OBVIOUS
          <5> QED
            BY <4>1, <4>2, <5>1, <5>2, Zenon
        <4>3. CASE t # s
          BY <1>4, <4>1, <4>3
        <4> QED
          BY <4>2, <4>3
      <3>3. Len(written'[t]) > Budget
        <4>1. Len(written[t]) \in Nat /\ Len(written'[t]) \in Nat
          BY <1>1, <1>2, <1>3, <1>4
        <4> QED
          BY <3>1, <3>2, <4>1
      <3> QED
        BY <1>1, <2>2, <3>3 DEF FlowInv
    <2>3. CASE answer.kind = "unknown"
      BY <1>1, <2>3 DEF FlowInv
    <2> QED
      BY <2>1, <2>2, <2>3
  <1>7. EndInv'
    BY <1>1, <1>3, <1>4 DEF EndInv, TypeInv, TypeOK
  <1>8. AnswerInv'
    <2>1. xpc # "start"
      BY <1>1 DEF AnswerInv, NotStarted, TypeInv, TypeOK
    <2> QED
      BY <1>1, <2>1 DEF AnswerInv, Gathered
  <1>9. ResultInv'
    BY <1>1 DEF ResultInv
  <1> QED
    BY <1>5, <1>6, <1>7, <1>8, <1>9

(* The steps of the executor that read nothing keep the invariant.         *)
LEMMA ExecutorKeeps == CliInv /\ ExecutorMoves => CliInv'
  <1> SUFFICES ASSUME CliInv, ExecutorMoves PROVE CliInv'
    OBVIOUS
  <1> USE DEF CliInv
  <1>1. CASE Start
    <2>1. /\ xpc = "start" /\ answer.kind = "none" /\ NotStarted
          /\ watched = {} /\ ready = {} /\ doomed = {}
          /\ UNCHANGED <<workerVars, ready, collected, late, doomed, status,
                         pipe, written>>
      BY <1>1 DEF Start, AnswerInv
    <2>2. \/ /\ xpc' = "answered" /\ answer' \in {Raised, Unknown}
             /\ UNCHANGED <<alive, holders, watched>>
          \/ /\ alive' = {"cli"}
             /\ holders' = [s \in Streams |->
                              IF s \in Pipes THEN {"cli"} ELSE {}]
             /\ \/ xpc' = "loop" /\ watched' = Pipes /\ UNCHANGED answer
                \/ /\ xpc' = "answered" /\ answer' = Unknown
                   /\ UNCHANGED watched
      BY <1>1 DEF Start, Over
    <2>3. TypeInv'
      <3>1. answer'.kind \in {"none", "raised", "unknown"} /\ answer'.rc \in Nat
        BY <2>1, <2>2 DEF TypeInv
      <3>2. /\ watched' \subseteq Pipes' /\ ready' \subseteq watched'
            /\ xpc' \in {"loop", "answered"}
        BY <2>1, <2>2
      <3>3. /\ alive' \subseteq Processes /\ doomed' \subseteq alive' \cap Group
            /\ holders' \in [Streams -> SUBSET Processes]
            /\ \A s \in Streams : holders'[s] \subseteq alive'
        <4>1. CASE UNCHANGED <<alive, holders, watched>>
          BY <2>1, <4>1 DEF TypeInv, TypeOK
        <4>2. CASE ~UNCHANGED <<alive, holders, watched>>
          <5>1. /\ alive' = {"cli"} /\ doomed' = {}
                /\ holders' = [s \in Streams |->
                                 IF s \in Pipes THEN {"cli"} ELSE {}]
            BY <2>1, <2>2, <4>2
          <5> QED
            BY <5>1
        <4> QED
          BY <4>1, <4>2
      <3> QED
        BY <2>1, <3>1, <3>2, <3>3 DEF TypeInv, TypeOK
    <2>4. FlowInv'
      <3>1. \A s \in Streams : written[s] = collected[s] \o pipe[s]
        BY <2>1 DEF FlowInv
      <3>2. answer'.kind = "raised" => NotStarted'
        BY <2>1, <2>2 DEF NotStarted, Each
      <3> QED
        BY <2>1, <3>1, <3>2 DEF FlowInv
    <2>5. EndInv'
      BY <2>1, <2>2 DEF EndInv
    <2>6. AnswerInv'
      <3>1. answer'.kind = "raised" => alive' = {}
        BY <2>1, <2>2 DEF NotStarted
      <3>2. \/ xpc' = "answered" /\ answer'.kind \in {"raised", "unknown"}
            \/ xpc' = "loop" /\ answer'.kind = "none"
        BY <2>1, <2>2
      <3> QED
        BY <3>1, <3>2 DEF AnswerInv
    <2>7. ResultInv'
      <3>1. outcome \in {"none", "fatal"} /\ wpc \notin {"relay", "judge"}
        BY <2>1 DEF ResultInv
      <3> QED
        BY <2>1, <3>1 DEF ResultInv
    <2> QED
      BY <2>3, <2>4, <2>5, <2>6, <2>7
  <1>2. CASE Loop
    <2>0. /\ xpc = "loop" /\ answer.kind = "none"
          /\ xpc' \in {"wait", "kill", "read"}
          /\ UNCHANGED <<workerVars, watched, collected, late, processVars>>
      BY <1>2 DEF Loop, AnswerInv
    <2>1. TypeInv'
      <3>1. ready' \subseteq watched
        BY <1>2 DEF Loop, TypeInv, TypeOK
      <3>2. /\ answer'.kind \in {"none", "exited", "timedout", "raised",
                              "unknown"}
            /\ answer'.rc \in Nat
        <4>1. answer' \in {answer, [kind |-> "timedout", rc |-> 9]}
          BY <1>2 DEF Loop
        <4> QED
          BY <4>1 DEF TypeInv, TypeOK
      <3>3. /\ xpc' \in {"wait", "kill", "read"}
            /\ UNCHANGED <<workerVars, watched, collected, late, processVars>>
        BY <1>2 DEF Loop
      <3> QED
        BY <3>1, <3>2, <3>3 DEF TypeInv, TypeOK
    <2>2. FlowInv'
      <3>1. /\ answer.kind = "none" /\ answer'.kind \in {"none", "exited", "timedout"}
            /\ UNCHANGED <<collected, pipe, written>>
        BY <1>2 DEF Loop, AnswerInv
      <3> QED
        BY <3>1 DEF FlowInv
    <2>3. EndInv'
      <3>1. xpc' = "read" => \A s \in ready' : Readable(s)'
        BY <1>2, <2>0 DEF Loop
      <3> QED
        BY <2>0, <3>1 DEF EndInv
    <2>4. AnswerInv'
      <3>1. \/ /\ xpc' = "wait" /\ watched = {} /\ answer' = answer
            \/ xpc' = "kill" /\ late /\ answer' = TimedOut
            \/ xpc' = "read" /\ answer' = answer
        BY <1>2 DEF Loop
      <3> QED
        BY <2>0, <3>1 DEF AnswerInv
    <2>5. ResultInv'
      <3>1. outcome \in {"none", "fatal"} /\ wpc \notin {"relay", "judge"}
        BY <2>0 DEF ResultInv
      <3> QED
        BY <2>0, <3>1 DEF ResultInv
    <2> QED
      BY <2>1, <2>2, <2>3, <2>4, <2>5
  <1>3. CASE Wait
    <2>0. /\ xpc = "wait" /\ xpc' = "kill" /\ answer.kind = "none"
          /\ UNCHANGED <<workerVars, watched, ready, collected, late,
                         processVars>>
          /\ \/ late /\ answer' = TimedOut
             \/ "cli" \notin alive /\ answer' = Exited(status)
      BY <1>3 DEF Wait, AnswerInv
    <2>1. TypeInv'
      <3>1. /\ answer' \in {[kind |-> "timedout", rc |-> 9],
                            [kind |-> "exited", rc |-> status]}
            /\ xpc' = "kill"
            /\ UNCHANGED <<workerVars, watched, ready, collected, late,
                           processVars>>
        BY <1>3 DEF Wait
      <3>2. answer'.kind \in {"exited", "timedout"} /\ answer'.rc \in Nat
        <4>1. status \in Nat
          BY DEF TypeInv, TypeOK
        <4> QED
          BY <3>1, <4>1
      <3> QED
        BY <3>1, <3>2 DEF TypeInv, TypeOK
    <2>2. FlowInv'
      <3>1. /\ answer.kind = "none" /\ answer'.kind \in {"none", "exited", "timedout"}
            /\ UNCHANGED <<collected, pipe, written>>
        BY <1>3 DEF Wait, AnswerInv
      <3> QED
        BY <3>1 DEF FlowInv
    <2>3. EndInv'
      BY <2>0 DEF EndInv
    <2>4. AnswerInv'
      BY <2>0 DEF AnswerInv
    <2>5. ResultInv'
      <3>1. outcome \in {"none", "fatal"} /\ wpc \notin {"relay", "judge"}
        BY <2>0 DEF ResultInv
      <3> QED
        BY <2>0, <3>1 DEF ResultInv
    <2> QED
      BY <2>1, <2>2, <2>3, <2>4, <2>5
  <1>4. CASE Kill
    <2>0. /\ xpc = "kill" /\ xpc' = "reap" /\ doomed' = alive \cap Group
          /\ UNCHANGED <<workerVars, watched, ready, collected, answer, late,
                         alive, status, holders, pipe, written>>
      BY <1>4 DEF Kill
    <2>1. TypeInv'
      BY <2>0 DEF TypeInv, TypeOK
    <2>2. FlowInv'
      BY <2>0 DEF FlowInv, NotStarted, Each
    <2>3. EndInv'
      BY <2>0 DEF EndInv
    <2>4. AnswerInv'
      BY <2>0 DEF AnswerInv
    <2>5. ResultInv'
      BY <2>0 DEF ResultInv
    <2> QED
      BY <2>1, <2>2, <2>3, <2>4, <2>5
  <1>5. CASE Reap
    <2>1. /\ xpc = "reap" /\ answer.kind \in {"exited", "timedout", "raised"}
          /\ UNCHANGED <<workerVars, watched, ready, collected, late,
                         processVars>>
          /\ outcome \in {"none", "fatal"} /\ wpc \notin {"relay", "judge"}
      BY <1>5 DEF Reap, AnswerInv, ResultInv, TypeInv, TypeOK
    <2>2. \/ xpc' = "answered" /\ answer' = Unknown
          \/ /\ xpc' \in {"answered", "failed"} /\ answer' = answer
             /\ xpc' = "answered" /\ answer.kind \in {"exited", "timedout"} =>
                  ~(Gathered > Frame)
      BY <1>5 DEF Reap, Over
    <2>3. TypeInv'
      <3>1. answer'.kind \in {"exited", "timedout", "raised", "unknown"}
            /\ answer'.rc \in Nat
        BY <2>1, <2>2 DEF TypeInv
      <3> QED
        BY <2>1, <2>2, <3>1 DEF TypeInv, TypeOK
    <2>4. FlowInv'
      <3>1. UNCHANGED NotStarted /\ (answer' = answer \/ answer' = Unknown)
        BY <2>1, <2>2 DEF NotStarted, Each
      <3>2. CASE answer' = answer
        BY <2>1, <3>1, <3>2 DEF FlowInv
      <3>3. CASE answer' = Unknown
        BY <3>3 DEF FlowInv
      <3> QED
        BY <3>1, <3>2, <3>3
    <2>5. EndInv'
      BY <2>1, <2>2 DEF EndInv
    <2>6. AnswerInv'
      <3>1. ~(Gathered > Frame) => Gathered <= Frame
        <4>1. Len(collected["out"]) \in Nat /\ Len(collected["err"]) \in Nat
          BY DEF TypeInv
        <4>2. \A m, n \in Nat : ~(m + n > Frame) => m + n <= Frame
          OBVIOUS
        <4> QED
          BY <4>1, <4>2, Zenon DEF Gathered
      <3>2. UNCHANGED Gathered
        BY <2>1 DEF Gathered
      <3> QED
        BY <2>1, <2>2, <3>1, <3>2 DEF AnswerInv
    <2>7. ResultInv'
      BY <2>1, <2>2 DEF ResultInv
    <2> QED
      BY <2>3, <2>4, <2>5, <2>6, <2>7
  <1>6. CASE Deadline
    <2>1. TypeInv'
      BY <1>6 DEF Deadline, TypeInv, TypeOK
    <2>2. FlowInv'
      BY <1>6 DEF Deadline, FlowInv, NotStarted, Each
    <2>3. EndInv'
      BY <1>6 DEF Deadline, EndInv
    <2>4. AnswerInv'
      BY <1>6 DEF Deadline, AnswerInv
    <2>5. ResultInv'
      BY <1>6 DEF Deadline, ResultInv
    <2> QED
      BY <2>1, <2>2, <2>3, <2>4, <2>5
  <1> QED
    BY <1>1, <1>2, <1>3, <1>4, <1>5, <1>6 DEF ExecutorMoves

(* So does a fork: what has its SIGKILL pending has no children any more.  *)
LEMMA ForkKeeps ==
  ASSUME CliInv, NEW p \in Processes, Fork(p)
  PROVE  CliInv'
  <1> USE DEF CliInv
  <1>1. /\ "cli" \in alive \ doomed /\ p # "cli" /\ alive' = alive \cup {p}
        /\ holders' = [s \in Streams |-> IF "cli" \in holders[s]
                                          THEN holders[s] \cup {p}
                                          ELSE holders[s]]
        /\ UNCHANGED <<workerVars, executorVars, late, doomed, status, pipe,
                       written>>
    BY DEF Fork
  <1>2. TypeInv'
    <2>1. /\ holders' \in [Streams -> SUBSET Processes]
          /\ \A s \in Streams : holders'[s] \subseteq alive'
      BY <1>1 DEF TypeInv, TypeOK
    <2>2. alive' \subseteq Processes /\ doomed' \subseteq alive' \cap Group
      BY <1>1 DEF TypeInv, TypeOK
    <2> QED
      BY <1>1, <2>1, <2>2 DEF TypeInv, TypeOK
  <1>3. FlowInv'
    <2>1. ~NotStarted
      BY <1>1 DEF NotStarted
    <2> QED
      BY <1>1, <2>1 DEF FlowInv
  <1>4. EndInv'
    <2>1. answer.kind # "unknown" =>
            \A s \in Streams \ watched : pipe[s] = <<>> /\ holders'[s] = {}
      BY <1>1 DEF EndInv
    <2>2. ASSUME xpc = "read", NEW s \in ready PROVE Readable(s)'
      <3>1. Readable(s)
        BY <2>2 DEF EndInv
      <3>2. s \in Streams /\ holders[s] \subseteq Processes
        BY <2>2 DEF TypeInv, TypeOK
      <3>3. holders[s] = {} => holders'[s] = {}
        BY <1>1, <3>2
      <3> QED
        BY <1>1, <3>1, <3>3
    <2> QED
      BY <1>1, <2>1, <2>2 DEF EndInv
  <1>5. AnswerInv'
    <2>1. xpc # "start" /\ answer.kind # "exited"
      BY <1>1 DEF AnswerInv, NotStarted
    <2>2. xpc \in {"reap", "answered", "failed"} => answer.kind = "unknown"
      BY <1>1 DEF AnswerInv
    <2>3. UNCHANGED Gathered
      BY <1>1 DEF Gathered
    <2> QED
      BY <1>1, <2>1, <2>2, <2>3 DEF AnswerInv
  <1>6. ResultInv'
    BY <1>1 DEF ResultInv
  <1> QED
    BY <1>2, <1>3, <1>4, <1>5, <1>6

(* So does closing a stream.                                               *)
LEMMA CloseKeeps ==
  ASSUME CliInv, NEW p \in Processes, NEW s \in Streams, CloseStream(p, s)
  PROVE  CliInv'
  <1> USE DEF CliInv
  <1>1. /\ holders' = [holders EXCEPT ![s] = @ \ {p}]
        /\ UNCHANGED <<workerVars, executorVars, late, alive, doomed, status,
                       pipe, written>>
    BY DEF CloseStream
  <1>2. TypeInv'
    BY <1>1 DEF TypeInv, TypeOK
  <1>3. FlowInv'
    BY <1>1 DEF FlowInv, NotStarted, Each
  <1>4. EndInv'
    BY <1>1 DEF EndInv, TypeInv
  <1>5. AnswerInv'
    BY <1>1 DEF AnswerInv, NotStarted, Each, Gathered
  <1>6. ResultInv'
    BY <1>1 DEF ResultInv
  <1> QED
    BY <1>2, <1>3, <1>4, <1>5, <1>6

(* So does the end of a process, by itself or by the signal.               *)
LEMMA GoneKeeps ==
  ASSUME CliInv, NEW p \in Processes, Exit(p) \/ Die(p)
  PROVE  CliInv'
  <1> USE DEF CliInv
  <1>1. /\ alive' = alive \ {p} /\ doomed' = doomed \ {p}
        /\ holders' = [s \in Streams |-> holders[s] \ {p}]
        /\ UNCHANGED <<workerVars, executorVars, late, pipe, written>>
        /\ p \in alive
    BY DEF Exit, Die, Gone
  <1>2. status' \in {0, 1, 2, 9} /\ (p # "cli" => status' = status)
    BY DEF Exit, Die, TypeInv, TypeOK
  <1>3. TypeInv'
    <2>1. /\ holders' \in [Streams -> SUBSET Processes]
          /\ \A s \in Streams : holders'[s] \subseteq alive'
      BY <1>1 DEF TypeInv, TypeOK
    <2>2. alive' \subseteq Processes /\ doomed' \subseteq alive' \cap Group
      BY <1>1 DEF TypeInv, TypeOK
    <2> QED
      BY <1>1, <1>2, <2>1, <2>2 DEF TypeInv, TypeOK
  <1>4. FlowInv'
    <2>1. NotStarted => NotStarted'
      BY <1>1 DEF NotStarted, Each
    <2> QED
      BY <1>1, <2>1 DEF FlowInv
  <1>5. EndInv'
    BY <1>1 DEF EndInv, TypeInv, TypeOK
  <1>6. AnswerInv'
    <2>1. answer.kind = "exited" => p # "cli"
      BY <1>1 DEF AnswerInv
    <2>2. xpc # "start"
      BY <1>1 DEF AnswerInv, NotStarted
    <2>3. UNCHANGED Gathered
      BY <1>1 DEF Gathered
    <2> QED
      BY <1>1, <1>2, <2>1, <2>2, <2>3 DEF AnswerInv
  <1>7. ResultInv'
    BY <1>1 DEF ResultInv
  <1> QED
    BY <1>3, <1>4, <1>5, <1>6, <1>7

(* The worker touches nothing of the operation.                            *)
LEMMA WorkerApart ==
  ASSUME CliInv, UNCHANGED <<merged, executorVars, late, processVars>>
  PROVE  FlowInv' /\ EndInv' /\ AnswerInv'
  <1> USE DEF CliInv
  <1>1. FlowInv'
    BY DEF FlowInv, NotStarted, Each
  <1>2. EndInv'
    BY DEF EndInv
  <1>3. AnswerInv'
    BY DEF AnswerInv, NotStarted, Each, Gathered
  <1> QED
    BY <1>1, <1>2, <1>3

(* So do the steps of the worker.                                          *)
LEMMA WorkerKeeps == CliInv /\ WorkerMoves => CliInv'
  <1> SUFFICES ASSUME CliInv, WorkerMoves PROVE CliInv'
    OBVIOUS
  <1> USE DEF CliInv
  <1>0. UNCHANGED <<merged, executorVars, late, processVars>>
    BY DEF WorkerMoves, Receive, Relay, RelayFails, Judge, RequestTimeout
  <1>w. FlowInv' /\ EndInv' /\ AnswerInv'
    BY <1>0, WorkerApart
  <1>1. CASE Receive
    <2>1. TypeInv'
      BY <1>1 DEF Receive, TypeInv, TypeOK
    <2>2. ResultInv'
      BY <1>1 DEF Receive, ResultInv, AnswerInv, TypeInv, TypeOK
    <2> QED
      BY <1>w, <2>1, <2>2
  <1>2. CASE Relay
    <2>1. TypeInv'
      <3>1. relayed' \in [Streams -> Seq(Chunks)]
        <4>1. \A s \in Streams : /\ collected[s] \in Seq(Chunks)
                                 /\ <<>> \in Seq(Chunks)
          BY DEF TypeInv
        <4> QED
          BY <1>2, <4>1 DEF Relay
      <3>2. /\ wpc' \in {"judge", "returned"} /\ UNCHANGED options
            /\ outcome' \in {outcome, "timeout", "unsupported"}
        BY <1>2 DEF Relay
      <3> QED
        BY <1>0, <3>1, <3>2 DEF TypeInv, TypeOK
    <2>2. ResultInv'
      <3>1. /\ answer.kind \in {"exited", "timedout"} /\ outcome = "none"
            /\ xpc = "answered"
        BY <1>2 DEF Relay, ResultInv
      <3>2. \A s \in options.inherit : relayed'[s] = collected[s]
        <4>1. options.inherit \subseteq Streams
          BY DEF TypeInv, TypeOK, Options
        <4> QED
          BY <1>2, <4>1 DEF Relay
      <3>3. CASE answer.kind # "timedout"
        BY <1>2, <3>1, <3>2, <3>3 DEF Relay, ResultInv
      <3>4. CASE answer.kind = "timedout"
        BY <1>2, <3>1, <3>2, <3>4 DEF Relay, ResultInv
      <3> QED
        BY <3>3, <3>4
    <2> QED
      BY <1>w, <2>1, <2>2
  <1>3. CASE \E s \in Streams : RelayFails(s)
    <2>1. PICK s \in Streams : RelayFails(s)
      BY <1>3
    <2>2. PICK n \in 0 .. Len(collected[s]) - 1 :
            relayed' = [t \in Streams |->
                          IF t = s THEN SubSeq(collected[s], 1, n)
                          ELSE IF t = "out" /\ t \in options.inherit
                                 THEN collected[t] ELSE <<>>]
      BY <2>1 DEF RelayFails
    <2>3. /\ wpc = "relay" /\ wpc' = "returned" /\ outcome' = "unrelayed"
          /\ UNCHANGED options
      BY <2>1 DEF RelayFails
    <2>4. \A t \in Streams : /\ relayed'[t] \in Seq(Chunks)
                             /\ IsPrefix(relayed'[t], collected[t])
      <3>1. \A t \in Streams : collected[t] \in Seq(Chunks)
        BY DEF TypeInv
      <3>2. \A t \in Streams :
              /\ <<>> \in Seq(Chunks) /\ IsPrefix(<<>>, collected[t])
              /\ IsPrefix(collected[t], collected[t])
        BY <3>1, BeginningPrefix
      <3>3. /\ SubSeq(collected[s], 1, n) \in Seq(Chunks)
            /\ IsPrefix(SubSeq(collected[s], 1, n), collected[s])
        BY <3>1, BeginningPrefix
      <3>4. \A t \in Streams :
              relayed'[t] \in (IF t = s THEN {SubSeq(collected[s], 1, n)}
                               ELSE {collected[t], <<>>})
        BY <2>2
      <3> HIDE DEF Streams
      <3> QED
        BY <3>1, <3>2, <3>3, <3>4
    <2>5. TypeInv'
      <3>1. relayed' \in [Streams -> Seq(Chunks)]
        <4>1. relayed' = [t \in Streams |-> relayed'[t]]
          BY <2>2
        <4> QED
          BY <2>4, <4>1
      <3>2. TypeOK /\ options \in Options
        BY DEF TypeInv
      <3>3. TypeOK'
        BY <1>0, <2>3, <3>2 DEF TypeOK
      <3> QED
        BY <1>0, <2>3, <3>1, <3>3 DEF TypeInv
    <2>6. ResultInv'
      <3>1. answer.kind \in {"exited", "timedout"} /\ xpc = "answered"
        BY <2>3 DEF ResultInv
      <3>2. \A t \in Streams : IsPrefix(relayed'[t], collected'[t])
        BY <1>0, <2>4
      <3> QED
        BY <1>0, <2>3, <3>1, <3>2 DEF ResultInv
    <2> QED
      BY <1>w, <2>5, <2>6
  <1>4. CASE Judge
    <2>1. TypeInv'
      BY <1>4 DEF Judge, TypeInv, TypeOK
    <2>2. ResultInv'
      BY <1>4 DEF Judge, ResultInv
    <2> QED
      BY <1>w, <2>1, <2>2
  <1>5. CASE RequestTimeout
    <2>1. TypeInv'
      BY <1>5 DEF RequestTimeout, TypeInv, TypeOK
    <2>2. ResultInv'
      BY <1>5 DEF RequestTimeout, ResultInv
    <2> QED
      BY <1>w, <2>1, <2>2
  <1> QED
    BY <1>1, <1>2, <1>3, <1>4, <1>5 DEF WorkerMoves

(* Stuttering keeps it.                                                    *)
LEMMA CliStutter == CliInv /\ UNCHANGED vars => CliInv'
  <1> SUFFICES ASSUME CliInv, UNCHANGED vars PROVE CliInv'
    OBVIOUS
  <1> USE DEF CliInv, vars
  <1>1. TypeInv'
    BY DEF TypeInv, TypeOK
  <1>2. FlowInv' /\ EndInv'
    BY DEF FlowInv, EndInv, NotStarted, Each
  <1>3. AnswerInv' /\ ResultInv'
    BY DEF AnswerInv, ResultInv, NotStarted, Each, Gathered
  <1> QED
    BY <1>1, <1>2, <1>3

(* Every step of the specification keeps the invariant.                    *)
LEMMA CliStep == CliInv /\ [Next]_vars => CliInv'
  <1> SUFFICES ASSUME CliInv, [Next]_vars PROVE CliInv'
    OBVIOUS
  <1>1. CASE ExecutorStep \/ Deadline
    <2>1. ExecutorMoves \/ \E s \in Streams : Read(s)
      BY <1>1 DEF ExecutorStep, ExecutorMoves
    <2> QED
      BY <2>1, ExecutorKeeps, ReadKeeps
  <1>2. CASE ProcessSteps
    BY <1>2, WriteKeeps, ForkKeeps, CloseKeeps, GoneKeeps DEF ProcessSteps
  <1>3. CASE WorkerStep \/ RequestTimeout
    BY <1>3, WorkerKeeps DEF WorkerStep, WorkerMoves
  <1>4. CASE UNCHANGED vars
    BY <1>4, CliStutter
  <1> QED
    BY <1>1, <1>2, <1>3, <1>4 DEF Next, Finished

(* The inductive invariant holds of every execution.                       *)
THEOREM CliInvariant == Spec => []CliInv
  BY CliInit, CliStep, PTL DEF Spec

(* The variables have their types: the collected output, whatever the      *)
(* process writes, stays within the budget.                                *)
THEOREM CliTypes == Spec => []TypeOK
  <1>1. CliInv => TypeOK
    BY DEF CliInv, TypeInv
  <1> QED
    BY <1>1, CliInvariant, PTL

(* What a test is told is true of the process: a call that completed has   *)
(* the status it left and its whole output in order, a timeout a beginning *)
(* of it, and the one exception of the operation that does not fail the    *)
(* bridge says that an output was over the budget or that nothing was      *)
(* started (bridged_run after _bf_run_cli_bounded).                        *)
THEOREM OutputCorrect == Spec => []OutputGenuine
  <1>1. CliInv => OutputGenuine
    <2> SUFFICES ASSUME CliInv, wpc = "returned" PROVE OutputGenuine
      BY DEF OutputGenuine
    <2> USE DEF CliInv
    <2>1. \A s \in Streams : /\ collected[s] \in Seq(Chunks)
                             /\ pipe[s] \in Seq(Chunks)
                             /\ relayed[s] \in Seq(Chunks)
      BY DEF TypeInv
    <2>2. ASSUME outcome \in {"completed", "called", "undecodable"}
          PROVE  /\ answer.rc = status /\ "cli" \notin alive
                 /\ collected = written /\ Gathered <= Frame
      <3>1. /\ answer.kind = "exited" /\ watched = {} /\ xpc = "answered"
            /\ answer.rc = status /\ "cli" \notin alive
        BY <2>2 DEF ResultInv, AnswerInv
      <3>2. \A s \in Streams : written[s] = collected[s] \o <<>>
        BY <3>1 DEF FlowInv, EndInv
      <3>3. \A s \in Streams : written[s] = collected[s]
        BY <2>1, <3>2, ConcatEmptySeq
      <3>4. collected = written
        <4> HIDE DEF Streams
        <4>1. /\ collected = [s \in Streams |-> collected[s]]
              /\ written = [s \in Streams |-> written[s]]
          BY DEF TypeInv
        <4> QED
          BY <3>3, <4>1
      <3>5. Gathered <= Frame
        BY <3>1 DEF AnswerInv
      <3> QED
        BY <3>1, <3>4, <3>5
    <2>3. /\ outcome = "called" => options.check /\ status # 0
          /\ outcome = "completed" /\ options.check => status = 0
      BY <2>2 DEF ResultInv
    <2>4. \A s \in Streams : answer.kind \in {"exited", "timedout"} =>
            /\ written[s] = collected[s] \o pipe[s]
            /\ IsPrefix(collected[s], written[s])
      <3>1. answer.kind \in {"exited", "timedout"} =>
              \A s \in Streams : written[s] = collected[s] \o pipe[s]
        BY DEF FlowInv
      <3> QED
        BY <2>1, <3>1, ConcatPrefix
    <2>5. outcome \in {"timeout", "unsupported"} =>
            late /\ \A s \in Streams : IsPrefix(collected[s], written[s])
      BY <2>4 DEF ResultInv, AnswerInv
    <2>6. outcome \notin {"fatal", "error", "unrelayed"} =>
            \A s \in options.inherit : relayed[s] = collected[s]
      <3>1. outcome # "none"
        BY DEF ResultInv
      <3> QED
        BY <3>1 DEF ResultInv
    <2>7. outcome = "unrelayed" =>
            \A s \in Streams : IsPrefix(relayed[s], written[s])
      <3>1. outcome = "unrelayed" =>
              /\ answer.kind \in {"exited", "timedout"}
              /\ \A s \in Streams : IsPrefix(relayed[s], collected[s])
        BY DEF ResultInv
      <3> QED
        BY <2>1, <2>4, <3>1, PartPrefix
    <2>8. outcome = "error" =>
            NotStarted \/ \E s \in Streams : Len(written[s]) > Budget
      BY DEF ResultInv, FlowInv
    <2> QED
      BY <2>2, <2>3, <2>5, <2>6, <2>7, <2>8 DEF OutputGenuine
  <1> QED
    BY <1>1, CliInvariant, PTL

(* An operation has one outcome.  Once the executor has decided, nothing   *)
(* is added to what it collected, and the answer gives way to nothing but  *)
(* the failure of what is left to do (the wait after the kill, the removal *)
(* of the directory); once the worker has an outcome, a late answer does   *)
(* not replace it.  A process that exited with all its output read is      *)
(* written for by nobody any more; and the group, once it is being killed, *)
(* only shrinks, unless the operation itself failed.                       *)
Decided == /\ answer.kind # "none" =>
                /\ UNCHANGED collected
                /\ answer' = answer \/ (xpc = "reap" /\ answer' = Unknown)
           /\ outcome # "none" => UNCHANGED <<outcome, relayed, options>>
           /\ answer.kind = "exited" => UNCHANGED written
           /\ Ended \/ xpc = "reap" =>
                \/ alive' \cap Group \subseteq alive
                \/ answer.kind = "unknown"
AnswerFinal == [][Decided]_vars

(* No process steps in the way of what has been decided: those that hold   *)
(* no pipe cannot write, those with a SIGKILL pending cannot fork.         *)
LEMMA ProcessesDecideNothing == CliInv /\ ProcessSteps => Decided
  <1> SUFFICES ASSUME CliInv, NEW p \in Processes,
                      \/ \E fd \in Streams : Write(p, fd)
                      \/ Fork(p)
                      \/ \E s \in Streams : CloseStream(p, s)
                      \/ Exit(p) \/ Die(p)
               PROVE  Decided
    BY DEF ProcessSteps
  <1>1. UNCHANGED <<workerVars, executorVars>>
    BY DEF Write, Fork, CloseStream, Exit, Die, Gone
  <1>2. answer.kind = "exited" => UNCHANGED written
    <2> SUFFICES ASSUME answer.kind = "exited" PROVE UNCHANGED written
      OBVIOUS
    <2>1. \A s \in Streams : holders[s] = {}
      BY DEF CliInv, AnswerInv, EndInv
    <2>2. \A fd \in Streams : ~Write(p, fd)
      BY <2>1 DEF Write, PipeOf
    <2> QED
      BY <2>2 DEF Fork, CloseStream, Exit, Die, Gone
  <1>3. ASSUME Ended \/ xpc = "reap", answer.kind # "unknown"
        PROVE  alive' \cap Group \subseteq alive
    <2>1. alive \cap Group \subseteq doomed
      BY <1>3 DEF CliInv, AnswerInv, Ended
    <2>2. ~Fork(p)
      BY <2>1 DEF Fork
    <2> QED
      BY <2>2 DEF Write, CloseStream, Exit, Die, Gone
  <1> QED
    BY <1>1, <1>2, <1>3 DEF Decided

(* No answer of the executor, and no outcome of a call, is changed later.  *)
THEOREM AnswerIsFinal == Spec => AnswerFinal
  <1>1. CliInv /\ [Next]_vars => [Decided]_vars
    <2> SUFFICES ASSUME CliInv, Next PROVE Decided
      BY DEF vars
    <2>1. /\ answer.kind # "none" =>
               xpc \in {"kill", "reap", "answered", "failed"}
          /\ outcome # "none" <=> wpc = "returned"
      BY DEF CliInv, TypeInv, TypeOK, AnswerInv, ResultInv
    <2>2. CASE ExecutorMoves
      <3>1. UNCHANGED <<workerVars, written>>
        BY <2>2 DEF ExecutorMoves, Start, Loop, Wait, Kill, Reap, Deadline
      <3>2. answer.kind # "none" =>
              /\ UNCHANGED collected
              /\ answer' = answer \/ (xpc = "reap" /\ answer' = Unknown)
        BY <2>1, <2>2 DEF ExecutorMoves, Start, Loop, Wait, Kill, Reap, Over,
            Deadline
      <3>3. Ended \/ xpc = "reap" => UNCHANGED alive
        BY <2>2 DEF ExecutorMoves, Start, Loop, Wait, Kill, Reap, Deadline,
            Ended
      <3> QED
        BY <3>1, <3>2, <3>3 DEF Decided
    <2>3. CASE \E s \in Streams : Read(s)
      BY <2>1, <2>3 DEF Read, Decided, Ended
    <2>4. CASE ProcessSteps
      BY <2>4, ProcessesDecideNothing
    <2>5. CASE WorkerMoves
      <3>1. UNCHANGED <<executorVars, processVars>>
        BY <2>5 DEF WorkerMoves, Receive, Relay, RelayFails, Judge,
            RequestTimeout
      <3>2. outcome # "none" => UNCHANGED <<outcome, relayed, options>>
        BY <2>1, <2>5 DEF WorkerMoves, Receive, Relay, RelayFails, Judge,
            RequestTimeout
      <3> QED
        BY <3>1, <3>2 DEF Decided
    <2>6. CASE Finished
      BY <2>1, <2>6 DEF Finished, vars, Decided
    <2> QED
      BY <2>2, <2>3, <2>4, <2>5, <2>6
         DEF Next, ExecutorStep, WorkerStep, ExecutorMoves, WorkerMoves
  <1> QED
    BY <1>1, CliInvariant, PTL DEF Spec, AnswerFinal
=============================================================================
