----------------------------- MODULE Observation -----------------------------
(***************************************************************************)
(* What the executor promises the broker: a request is executed at most    *)
(* once, its answer is the observation of that very execution, the next    *)
(* request is not looked at before the answer is out, and once the channel *)
(* has closed (end of input, failure or kill) nothing is answered any      *)
(* more.  run_proposed_executor.py is shown to implement it in Executor.   *)
(***************************************************************************)
EXTENDS Naturals

CONSTANTS Payloads,   \* what a request asks for: action, graph and arguments
          Kinds       \* how an execution can come out

VARIABLES phase,        \* idle, pending, executed or closed
          request,      \* the last request issued: [seq, payload]
          observation,  \* the last execution: [payload, kind]
          answer        \* the last answer: [seq, observation]

absVars == <<phase, request, observation, answer>>

AbsInit == /\ phase = "idle"
           /\ request.seq = 0
           /\ answer.seq = 0

(* The broker issues a request under a fresh, larger sequence number.      *)
NewRequest == /\ request' \in [seq : Nat, payload : Payloads]
              /\ request'.seq > request.seq

Issue == /\ phase = "idle"
         /\ phase' = "pending"
         /\ NewRequest
         /\ UNCHANGED <<observation, answer>>

(* The pending request, and no other, is executed.                         *)
Execute == /\ phase = "pending"
           /\ phase' = "executed"
           /\ \E k \in Kinds :
                 observation' = [payload |-> request.payload, kind |-> k]
           /\ UNCHANGED <<request, answer>>

(* The answer carries the sequence number of the request and the           *)
(* observation of its execution.                                           *)
Reply == /\ phase = "executed"
         /\ phase' = "idle"
         /\ answer' = [seq |-> request.seq, observation |-> observation]
         /\ UNCHANGED <<request, observation>>

(* The channel closes, at any time and for good.                           *)
Shut == /\ phase # "closed"
        /\ phase' = "closed"
        /\ UNCHANGED <<request, observation, answer>>

(* What the broker writes after the channel closed goes nowhere.           *)
IssueInVain == /\ phase = "closed"
               /\ NewRequest
               /\ UNCHANGED <<phase, observation, answer>>

(* The application may still finish a call nobody waits for.               *)
ExecuteInVain == /\ phase = "closed"
                 /\ observation' \in [payload : Payloads, kind : Kinds]
                 /\ UNCHANGED <<phase, request, answer>>

AbsNext == \/ Issue \/ Execute \/ Reply \/ Shut
           \/ IssueInVain \/ ExecuteInVain

AbsSpec == AbsInit /\ [][AbsNext]_absVars
=============================================================================
