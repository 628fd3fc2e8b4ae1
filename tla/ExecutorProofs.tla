---------------------------- MODULE ExecutorProofs ----------------------------
(***************************************************************************)
(* Machine-checked proofs about Executor, for every set of payloads and    *)
(* every operation budget: IndInv is inductive, and each safety property   *)
(* of Executor, the action property OnDemand and the implementation of     *)
(* Observation follow from it.                                             *)
(***************************************************************************)
EXTENDS ExecutorInvariant, TLAPS

USE MaxOperationsAssumption, MaxSeqAssumption
USE DEF Boxes, Sending, Receiving, Ended, Gone, ChildReceiving, ChildSending,
        boxVars, brokerVars, parentLocals, childLocals, processVars,
        TakeFree, TakeFull, PostFree, PostFull, Store,
        Raise, Goto, ParentAt, ParentMiss,
        ChildAt, Quit, Proceed, ChildMiss,
        ParentTurn, ChildIdle, Answering, InFlight, Upcoming, Result,
        WritingRequest, ReadingRequest, WritingResponse, ReadingResponse

(* The initial states satisfy the inductive invariant.                     *)
LEMMA InitInd == Init => IndInv
  <1> SUFFICES ASSUME Init PROVE IndInv
    OBVIOUS
  <1> USE DEF Init
  <1>1. TypeOK
    <2>1. 0 \in 0 .. MaxSeq /\ 0 \in Generations
      BY DEF Generations
    <2>2. /\ request \in Requests /\ held \in Requests
          /\ observed \in Observations
      BY <2>1 DEF Requests, Observations, Kinds
    <2>3. answer \in [seq : 0 .. MaxSeq, observation : Observations]
      BY <2>1, <2>2
    <2>4. [gen |-> 0, data |-> Blank] \in Messages
      BY <2>1 DEF Messages, Contents
    <2>5. BoxTypes
      BY <2>4 DEF BoxTypes
    <2>8. BrokerTypes
      BY <2>2, <2>3 DEF BrokerTypes
    <2>6. ParentTypes
      BY <2>1, <2>2, <2>4 DEF ParentTypes
    <2>7. ChildTypes /\ ProcessTypes
      BY <2>1, <2>2, <2>4 DEF ChildTypes, ProcessTypes
    <2> QED
      BY <2>5, <2>6, <2>7, <2>8 DEF TypeOK
  <1>2. OneToken /\ FreeSlots /\ Bookkeeping /\ RequestContent
    BY DEF OneToken, FreeSlots, Bookkeeping, RequestContent
  <1>3. ResponseContent /\ Executions
    BY DEF ResponseContent, Executions
  <1>4. AnswerIntegrity /\ InStep /\ DestroyAfterChild
    BY DEF AnswerIntegrity, InStep, DestroyAfterChild
  <1> QED
    BY <1>1, <1>2, <1>3, <1>4 DEF IndInv

(* What the broker does keeps the inductive invariant.                     *)
LEMMA BrokerKeeps ==
  ASSUME IndInv, BrokerWrite \/ BrokerClose
  PROVE  IndInv'
  <1> USE DEF IndInv, TypeOK, BoxTypes, BrokerTypes, ParentTypes, ChildTypes,
          ProcessTypes, Generations
  <1>1. ASSUME BrokerWrite PROVE IndInv'
    <2>1. TypeOK'
      BY <1>1 DEF BrokerWrite, OneToken, FreeSlots, Requests, Messages, Contents
    <2>2. OneToken' /\ FreeSlots'
      BY <1>1 DEF BrokerWrite, OneToken, FreeSlots
    <2>3. Bookkeeping' /\ RequestContent'
      BY <1>1 DEF BrokerWrite, OneToken, FreeSlots, Bookkeeping,
             RequestContent, ResponseContent, Executions, Requests
    <2>4. ResponseContent' /\ Executions'
      BY <1>1 DEF BrokerWrite, OneToken, FreeSlots, Bookkeeping,
             RequestContent, ResponseContent, Executions
    <2>5. AnswerIntegrity' /\ InStep' /\ DestroyAfterChild'
      BY <1>1 DEF BrokerWrite, OneToken, FreeSlots, Bookkeeping,
             RequestContent, ResponseContent, Executions, AnswerIntegrity,
             InStep, DestroyAfterChild, Requests
    <2> QED
      BY <2>1, <2>2, <2>3, <2>4, <2>5
  <1>2. ASSUME BrokerClose PROVE IndInv'
    <2>1. TypeOK'
      BY <1>2 DEF BrokerClose, OneToken, FreeSlots, Requests, Messages, Contents
    <2>2. OneToken' /\ FreeSlots'
      BY <1>2 DEF BrokerClose, OneToken, FreeSlots
    <2>3. Bookkeeping' /\ RequestContent'
      BY <1>2 DEF BrokerClose, OneToken, FreeSlots, Bookkeeping,
             RequestContent, ResponseContent, Executions, Requests
    <2>4. ResponseContent' /\ Executions'
      BY <1>2 DEF BrokerClose, OneToken, FreeSlots, Bookkeeping,
             RequestContent, ResponseContent, Executions
    <2>5. AnswerIntegrity' /\ InStep' /\ DestroyAfterChild'
      BY <1>2 DEF BrokerClose, OneToken, FreeSlots, Bookkeeping,
             RequestContent, ResponseContent, Executions, AnswerIntegrity,
             InStep, DestroyAfterChild, Requests
    <2> QED
      BY <2>1, <2>2, <2>3, <2>4, <2>5
  <1> QED
    BY <1>1, <1>2

(* So does every step of the transport parent, its clock and its death.    *)
LEMMA ParentKeeps ==
  ASSUME IndInv, ParentStep \/ ParentClock \/ ParentKilled
  PROVE  IndInv'
  <1> USE DEF IndInv, TypeOK, BoxTypes, BrokerTypes, ParentTypes, ChildTypes,
          ProcessTypes, Generations
  <1>1. ASSUME ParentAlive("recvAlive", "recvTry") PROVE IndInv'
    <2>1. TypeOK'
      BY <1>1 DEF ParentAlive, OneToken, FreeSlots, Requests, Messages, Contents
    <2>2. OneToken' /\ FreeSlots'
      BY <1>1 DEF ParentAlive, OneToken, FreeSlots
    <2>3. Bookkeeping' /\ RequestContent'
      BY <1>1 DEF ParentAlive, OneToken, FreeSlots, Bookkeeping,
             RequestContent, ResponseContent, Executions, Requests
    <2>4. ResponseContent' /\ Executions'
      BY <1>1 DEF ParentAlive, OneToken, FreeSlots, Bookkeeping,
             RequestContent, ResponseContent, Executions
    <2>5. AnswerIntegrity' /\ InStep' /\ DestroyAfterChild'
      BY <1>1 DEF ParentAlive, OneToken, FreeSlots, Bookkeeping,
             RequestContent, ResponseContent, Executions, AnswerIntegrity,
             InStep, DestroyAfterChild, Requests
    <2> QED
      BY <2>1, <2>2, <2>3, <2>4, <2>5
  <1>2. ASSUME ParentAlive("sendAlive", "sendTry") PROVE IndInv'
    <2>1. TypeOK'
      BY <1>2 DEF ParentAlive, OneToken, FreeSlots, Requests, Messages, Contents
    <2>2. OneToken' /\ FreeSlots'
      BY <1>2 DEF ParentAlive, OneToken, FreeSlots
    <2>3. Bookkeeping' /\ RequestContent'
      BY <1>2 DEF ParentAlive, OneToken, FreeSlots, Bookkeeping,
             RequestContent, ResponseContent, Executions, Requests
    <2>4. ResponseContent' /\ Executions'
      BY <1>2 DEF ParentAlive, OneToken, FreeSlots, Bookkeeping,
             RequestContent, ResponseContent, Executions
    <2>5. AnswerIntegrity' /\ InStep' /\ DestroyAfterChild'
      BY <1>2 DEF ParentAlive, OneToken, FreeSlots, Bookkeeping,
             RequestContent, ResponseContent, Executions, AnswerIntegrity,
             InStep, DestroyAfterChild, Requests
    <2> QED
      BY <2>1, <2>2, <2>3, <2>4, <2>5
  <1>3. ASSUME ParentClock PROVE IndInv'
    <2>1. TypeOK'
      BY <1>3 DEF ParentClock, OneToken, FreeSlots, Requests, Messages, Contents
    <2>2. OneToken' /\ FreeSlots'
      BY <1>3 DEF ParentClock, OneToken, FreeSlots
    <2>3. Bookkeeping' /\ RequestContent'
      BY <1>3 DEF ParentClock, OneToken, FreeSlots, Bookkeeping,
             RequestContent, ResponseContent, Executions, Requests
    <2>4. ResponseContent' /\ Executions'
      BY <1>3 DEF ParentClock, OneToken, FreeSlots, Bookkeeping,
             RequestContent, ResponseContent, Executions
    <2>5. AnswerIntegrity' /\ InStep' /\ DestroyAfterChild'
      BY <1>3 DEF ParentClock, OneToken, FreeSlots, Bookkeeping,
             RequestContent, ResponseContent, Executions, AnswerIntegrity,
             InStep, DestroyAfterChild, Requests
    <2> QED
      BY <2>1, <2>2, <2>3, <2>4, <2>5
  <1>4. ASSUME ParentRead PROVE IndInv'
    <2>1. TypeOK'
      <3>1. BoxTypes'
        BY <1>4 DEF ParentRead, OneToken, FreeSlots, Executions, Requests
      <3>2. BrokerTypes'
        BY <1>4 DEF ParentRead, OneToken, FreeSlots, Executions, Requests
      <3>3. ParentTypes'
        BY <1>4 DEF ParentRead, OneToken, FreeSlots, Executions, Requests
      <3>4. ChildTypes'
        BY <1>4 DEF ParentRead, OneToken, FreeSlots, Executions, Requests
      <3>5. ProcessTypes'
        BY <1>4 DEF ParentRead, OneToken, FreeSlots, Executions, Requests
      <3> QED
        BY <3>1, <3>2, <3>3, <3>4, <3>5
    <2>2. OneToken' /\ FreeSlots'
      BY <1>4 DEF ParentRead, OneToken, FreeSlots
    <2>3. Bookkeeping' /\ RequestContent'
      BY <1>4 DEF ParentRead, OneToken, FreeSlots, Bookkeeping,
             RequestContent, ResponseContent, Executions, Requests
    <2>4. ResponseContent' /\ Executions'
      BY <1>4 DEF ParentRead, OneToken, FreeSlots, Bookkeeping,
             RequestContent, ResponseContent, Executions
    <2>5. AnswerIntegrity' /\ InStep' /\ DestroyAfterChild'
      BY <1>4 DEF ParentRead, OneToken, FreeSlots, Bookkeeping,
             RequestContent, ResponseContent, Executions, AnswerIntegrity,
             InStep, DestroyAfterChild, Requests
    <2> QED
      BY <2>1, <2>2, <2>3, <2>4, <2>5
  <1>5. ASSUME ParentSendTry PROVE IndInv'
    <2>1. TypeOK'
      BY <1>5 DEF ParentSendTry, OneToken, FreeSlots, Requests, Messages, Contents
    <2>2. OneToken' /\ FreeSlots'
      BY <1>5 DEF ParentSendTry, OneToken, FreeSlots
    <2>3. Bookkeeping' /\ RequestContent'
      BY <1>5 DEF ParentSendTry, OneToken, FreeSlots, Bookkeeping,
             RequestContent, ResponseContent, Executions, Requests
    <2>4. ResponseContent' /\ Executions'
      BY <1>5 DEF ParentSendTry, OneToken, FreeSlots, Bookkeeping,
             RequestContent, ResponseContent, Executions
    <2>5. AnswerIntegrity' /\ InStep' /\ DestroyAfterChild'
      BY <1>5 DEF ParentSendTry, OneToken, FreeSlots, Bookkeeping,
             RequestContent, ResponseContent, Executions, AnswerIntegrity,
             InStep, DestroyAfterChild, Requests
    <2> QED
      BY <2>1, <2>2, <2>3, <2>4, <2>5
  <1>6. ASSUME ParentSendStore PROVE IndInv'
    <2>1. TypeOK'
      BY <1>6 DEF ParentSendStore, OneToken, FreeSlots, Requests, Messages, Contents
    <2>2. OneToken' /\ FreeSlots'
      BY <1>6 DEF ParentSendStore, OneToken, FreeSlots
    <2>3. Bookkeeping' /\ RequestContent'
      BY <1>6 DEF ParentSendStore, OneToken, FreeSlots, Bookkeeping,
             RequestContent, ResponseContent, Executions, Requests
    <2>4. ResponseContent' /\ Executions'
      BY <1>6 DEF ParentSendStore, OneToken, FreeSlots, Bookkeeping,
             RequestContent, ResponseContent, Executions
    <2>5. AnswerIntegrity' /\ InStep' /\ DestroyAfterChild'
      BY <1>6 DEF ParentSendStore, OneToken, FreeSlots, Bookkeeping,
             RequestContent, ResponseContent, Executions, AnswerIntegrity,
             InStep, DestroyAfterChild, Requests
    <2> QED
      BY <2>1, <2>2, <2>3, <2>4, <2>5
  <1>7. ASSUME ParentSendPost PROVE IndInv'
    <2>1. TypeOK'
      <3>1. BoxTypes'
        BY <1>7 DEF ParentSendPost, OneToken, FreeSlots, Executions, Requests
      <3>2. BrokerTypes'
        BY <1>7 DEF ParentSendPost, OneToken, FreeSlots, Executions, Requests
      <3>3. ParentTypes'
        BY <1>7 DEF ParentSendPost, OneToken, FreeSlots, Executions, Requests
      <3>4. ChildTypes'
        BY <1>7 DEF ParentSendPost, OneToken, FreeSlots, Executions, Requests
      <3>5. ProcessTypes'
        BY <1>7 DEF ParentSendPost, OneToken, FreeSlots, Executions, Requests
      <3> QED
        BY <3>1, <3>2, <3>3, <3>4, <3>5
    <2>2. OneToken' /\ FreeSlots'
      BY <1>7 DEF ParentSendPost, OneToken, FreeSlots
    <2>3. Bookkeeping' /\ RequestContent'
      BY <1>7 DEF ParentSendPost, OneToken, FreeSlots, Bookkeeping,
             RequestContent, ResponseContent, Executions, Requests
    <2>4. ResponseContent' /\ Executions'
      BY <1>7 DEF ParentSendPost, OneToken, FreeSlots, Bookkeeping,
             RequestContent, ResponseContent, Executions
    <2>5. AnswerIntegrity' /\ InStep' /\ DestroyAfterChild'
      BY <1>7 DEF ParentSendPost, OneToken, FreeSlots, Bookkeeping,
             RequestContent, ResponseContent, Executions, AnswerIntegrity,
             InStep, DestroyAfterChild, Requests
    <2> QED
      BY <2>1, <2>2, <2>3, <2>4, <2>5
  <1>8. ASSUME ParentRecvTry PROVE IndInv'
    <2>1. TypeOK'
      BY <1>8 DEF ParentRecvTry, OneToken, FreeSlots, Requests, Messages, Contents
    <2>2. OneToken' /\ FreeSlots'
      BY <1>8 DEF ParentRecvTry, OneToken, FreeSlots
    <2>3. Bookkeeping' /\ RequestContent'
      BY <1>8 DEF ParentRecvTry, OneToken, FreeSlots, Bookkeeping,
             RequestContent, ResponseContent, Executions, Requests
    <2>4. ResponseContent' /\ Executions'
      BY <1>8 DEF ParentRecvTry, OneToken, FreeSlots, Bookkeeping,
             RequestContent, ResponseContent, Executions
    <2>5. AnswerIntegrity' /\ InStep' /\ DestroyAfterChild'
      BY <1>8 DEF ParentRecvTry, OneToken, FreeSlots, Bookkeeping,
             RequestContent, ResponseContent, Executions, AnswerIntegrity,
             InStep, DestroyAfterChild, Requests
    <2> QED
      BY <2>1, <2>2, <2>3, <2>4, <2>5
  <1>9. ASSUME ParentRecvLoad PROVE IndInv'
    <2>1. TypeOK'
      BY <1>9 DEF ParentRecvLoad, OneToken, FreeSlots, Requests, Messages, Contents
    <2>2. OneToken' /\ FreeSlots'
      BY <1>9 DEF ParentRecvLoad, OneToken, FreeSlots
    <2>3. Bookkeeping' /\ RequestContent'
      BY <1>9 DEF ParentRecvLoad, OneToken, FreeSlots, Bookkeeping,
             RequestContent, ResponseContent, Executions, Requests
    <2>4. ResponseContent' /\ Executions'
      BY <1>9 DEF ParentRecvLoad, OneToken, FreeSlots, Bookkeeping,
             RequestContent, ResponseContent, Executions
    <2>5. AnswerIntegrity' /\ InStep' /\ DestroyAfterChild'
      BY <1>9 DEF ParentRecvLoad, OneToken, FreeSlots, Bookkeeping,
             RequestContent, ResponseContent, Executions, AnswerIntegrity,
             InStep, DestroyAfterChild, Requests
    <2> QED
      BY <2>1, <2>2, <2>3, <2>4, <2>5
  <1>10. ASSUME ParentRecvPost PROVE IndInv'
    <2>1. TypeOK'
      BY <1>10 DEF ParentRecvPost, OneToken, FreeSlots, Requests, Messages, Contents
    <2>2. OneToken' /\ FreeSlots'
      BY <1>10 DEF ParentRecvPost, OneToken, FreeSlots
    <2>3. Bookkeeping' /\ RequestContent'
      BY <1>10 DEF ParentRecvPost, OneToken, FreeSlots, Bookkeeping,
             RequestContent, ResponseContent, Executions, Requests
    <2>4. ResponseContent' /\ Executions'
      BY <1>10 DEF ParentRecvPost, OneToken, FreeSlots, Bookkeeping,
             RequestContent, ResponseContent, Executions
    <2>5. AnswerIntegrity' /\ InStep' /\ DestroyAfterChild'
      BY <1>10 DEF ParentRecvPost, OneToken, FreeSlots, Bookkeeping,
             RequestContent, ResponseContent, Executions, AnswerIntegrity,
             InStep, DestroyAfterChild, Requests
    <2> QED
      BY <2>1, <2>2, <2>3, <2>4, <2>5
  <1>11. ASSUME ParentReady PROVE IndInv'
    <2>1. TypeOK'
      BY <1>11 DEF ParentReady, OneToken, FreeSlots, Requests, Messages, Contents
    <2>2. OneToken' /\ FreeSlots'
      BY <1>11 DEF ParentReady, OneToken, FreeSlots
    <2>3. Bookkeeping' /\ RequestContent'
      BY <1>11 DEF ParentReady, OneToken, FreeSlots, Bookkeeping,
             RequestContent, ResponseContent, Executions, Requests
    <2>4. ResponseContent' /\ Executions'
      BY <1>11 DEF ParentReady, OneToken, FreeSlots, Bookkeeping,
             RequestContent, ResponseContent, Executions
    <2>5. AnswerIntegrity' /\ InStep' /\ DestroyAfterChild'
      BY <1>11 DEF ParentReady, OneToken, FreeSlots, Bookkeeping,
             RequestContent, ResponseContent, Executions, AnswerIntegrity,
             InStep, DestroyAfterChild, Requests
    <2> QED
      BY <2>1, <2>2, <2>3, <2>4, <2>5
  <1>12. ASSUME ParentRefuse PROVE IndInv'
    <2>1. TypeOK'
      BY <1>12 DEF ParentRefuse, OneToken, FreeSlots, Requests, Messages, Contents
    <2>2. OneToken' /\ FreeSlots'
      BY <1>12 DEF ParentRefuse, OneToken, FreeSlots
    <2>3. Bookkeeping' /\ RequestContent'
      BY <1>12 DEF ParentRefuse, OneToken, FreeSlots, Bookkeeping,
             RequestContent, ResponseContent, Executions, Requests
    <2>4. ResponseContent' /\ Executions'
      BY <1>12 DEF ParentRefuse, OneToken, FreeSlots, Bookkeeping,
             RequestContent, ResponseContent, Executions
    <2>5. AnswerIntegrity' /\ InStep' /\ DestroyAfterChild'
      BY <1>12 DEF ParentRefuse, OneToken, FreeSlots, Bookkeeping,
             RequestContent, ResponseContent, Executions, AnswerIntegrity,
             InStep, DestroyAfterChild, Requests
    <2> QED
      BY <2>1, <2>2, <2>3, <2>4, <2>5
  <1>13. ASSUME ParentWrite PROVE IndInv'
    <2>1. TypeOK'
      BY <1>13 DEF ParentWrite, OneToken, FreeSlots, Requests, Messages, Contents,
             ResponseContent, Bookkeeping
    <2>2. OneToken' /\ FreeSlots'
      BY <1>13 DEF ParentWrite, OneToken, FreeSlots
    <2>3. Bookkeeping' /\ RequestContent'
      BY <1>13 DEF ParentWrite, OneToken, FreeSlots, Bookkeeping,
             RequestContent, ResponseContent, Executions, Requests
    <2>4. ResponseContent' /\ Executions'
      BY <1>13 DEF ParentWrite, OneToken, FreeSlots, Bookkeeping,
             RequestContent, ResponseContent, Executions
    <2>5. AnswerIntegrity' /\ InStep' /\ DestroyAfterChild'
      BY <1>13 DEF ParentWrite, OneToken, FreeSlots, Bookkeeping,
             RequestContent, ResponseContent, Executions, AnswerIntegrity,
             InStep, DestroyAfterChild, Requests
    <2> QED
      BY <2>1, <2>2, <2>3, <2>4, <2>5
  <1>14. ASSUME ParentOver PROVE IndInv'
    <2>1. TypeOK'
      BY <1>14 DEF ParentOver, OneToken, FreeSlots, Requests, Messages, Contents
    <2>2. OneToken' /\ FreeSlots'
      BY <1>14 DEF ParentOver, OneToken, FreeSlots
    <2>3. Bookkeeping' /\ RequestContent'
      BY <1>14 DEF ParentOver, OneToken, FreeSlots, Bookkeeping,
             RequestContent, ResponseContent, Executions, Requests
    <2>4. ResponseContent' /\ Executions'
      BY <1>14 DEF ParentOver, OneToken, FreeSlots, Bookkeeping,
             RequestContent, ResponseContent, Executions
    <2>5. AnswerIntegrity' /\ InStep' /\ DestroyAfterChild'
      BY <1>14 DEF ParentOver, OneToken, FreeSlots, Bookkeeping,
             RequestContent, ResponseContent, Executions, AnswerIntegrity,
             InStep, DestroyAfterChild, Requests
    <2> QED
      BY <2>1, <2>2, <2>3, <2>4, <2>5
  <1>15. ASSUME ParentKill PROVE IndInv'
    <2>1. TypeOK'
      <3>1. BoxTypes'
        BY <1>15 DEF ParentKill, OneToken, FreeSlots, Executions, Requests
      <3>2. BrokerTypes'
        BY <1>15 DEF ParentKill, OneToken, FreeSlots, Executions, Requests
      <3>3. ParentTypes'
        BY <1>15 DEF ParentKill, OneToken, FreeSlots, Executions, Requests
      <3>4. ChildTypes'
        BY <1>15 DEF ParentKill, OneToken, FreeSlots, Executions, Requests
      <3>5. ProcessTypes'
        BY <1>15 DEF ParentKill, OneToken, FreeSlots, Executions, Requests
      <3> QED
        BY <3>1, <3>2, <3>3, <3>4, <3>5
    <2>2. OneToken' /\ FreeSlots'
      BY <1>15 DEF ParentKill, OneToken, FreeSlots
    <2>3. Bookkeeping' /\ RequestContent'
      BY <1>15 DEF ParentKill, OneToken, FreeSlots, Bookkeeping,
             RequestContent, ResponseContent, Executions, Requests
    <2>4. ResponseContent' /\ Executions'
      BY <1>15 DEF ParentKill, OneToken, FreeSlots, Bookkeeping,
             RequestContent, ResponseContent, Executions
    <2>5. AnswerIntegrity' /\ InStep' /\ DestroyAfterChild'
      BY <1>15 DEF ParentKill, OneToken, FreeSlots, Bookkeeping,
             RequestContent, ResponseContent, Executions, AnswerIntegrity,
             InStep, DestroyAfterChild, Requests
    <2> QED
      BY <2>1, <2>2, <2>3, <2>4, <2>5
  <1>16. ASSUME ParentReap PROVE IndInv'
    <2>1. TypeOK'
      BY <1>16 DEF ParentReap, OneToken, FreeSlots, Requests, Messages, Contents
    <2>2. OneToken' /\ FreeSlots'
      BY <1>16 DEF ParentReap, OneToken, FreeSlots
    <2>3. Bookkeeping' /\ RequestContent'
      BY <1>16 DEF ParentReap, OneToken, FreeSlots, Bookkeeping,
             RequestContent, ResponseContent, Executions, Requests
    <2>4. ResponseContent' /\ Executions'
      BY <1>16 DEF ParentReap, OneToken, FreeSlots, Bookkeeping,
             RequestContent, ResponseContent, Executions
    <2>5. AnswerIntegrity' /\ InStep' /\ DestroyAfterChild'
      BY <1>16 DEF ParentReap, OneToken, FreeSlots, Bookkeeping,
             RequestContent, ResponseContent, Executions, AnswerIntegrity,
             InStep, DestroyAfterChild, Requests
    <2> QED
      BY <2>1, <2>2, <2>3, <2>4, <2>5
  <1>17. ASSUME ParentDestroy PROVE IndInv'
    <2>1. TypeOK'
      BY <1>17 DEF ParentDestroy, OneToken, FreeSlots, Requests, Messages, Contents
    <2>2. OneToken' /\ FreeSlots'
      BY <1>17 DEF ParentDestroy, OneToken, FreeSlots
    <2>3. Bookkeeping' /\ RequestContent'
      BY <1>17 DEF ParentDestroy, OneToken, FreeSlots, Bookkeeping,
             RequestContent, ResponseContent, Executions, Requests
    <2>4. ResponseContent' /\ Executions'
      BY <1>17 DEF ParentDestroy, OneToken, FreeSlots, Bookkeeping,
             RequestContent, ResponseContent, Executions
    <2>5. AnswerIntegrity' /\ InStep' /\ DestroyAfterChild'
      BY <1>17 DEF ParentDestroy, OneToken, FreeSlots, Bookkeeping,
             RequestContent, ResponseContent, Executions, AnswerIntegrity,
             InStep, DestroyAfterChild, Requests
    <2> QED
      BY <2>1, <2>2, <2>3, <2>4, <2>5
  <1>18. ASSUME ParentKilled PROVE IndInv'
    <2>1. TypeOK'
      BY <1>18 DEF ParentKilled, OneToken, FreeSlots, Requests, Messages, Contents
    <2>2. OneToken' /\ FreeSlots'
      BY <1>18 DEF ParentKilled, OneToken, FreeSlots
    <2>3. Bookkeeping' /\ RequestContent'
      BY <1>18 DEF ParentKilled, OneToken, FreeSlots, Bookkeeping,
             RequestContent, ResponseContent, Executions, Requests
    <2>4. ResponseContent' /\ Executions'
      BY <1>18 DEF ParentKilled, OneToken, FreeSlots, Bookkeeping,
             RequestContent, ResponseContent, Executions
    <2>5. AnswerIntegrity' /\ InStep' /\ DestroyAfterChild'
      BY <1>18 DEF ParentKilled, OneToken, FreeSlots, Bookkeeping,
             RequestContent, ResponseContent, Executions, AnswerIntegrity,
             InStep, DestroyAfterChild, Requests
    <2> QED
      BY <2>1, <2>2, <2>3, <2>4, <2>5
  <1> QED
    BY <1>1, <1>2, <1>3, <1>4, <1>5, <1>6, <1>7, <1>8, <1>9, <1>10, <1>11,
       <1>12, <1>13, <1>14, <1>15, <1>16, <1>17, <1>18
    DEF ParentStep

(* So does every step of the application child, its clock and its death.   *)
LEMMA ChildKeeps ==
  ASSUME IndInv, ChildStep \/ ChildBoot \/ ChildRun \/ ChildClock \/ ChildEnds
  PROVE  IndInv'
  <1> USE DEF IndInv, TypeOK, BoxTypes, BrokerTypes, ParentTypes, ChildTypes,
          ProcessTypes, Generations
  <1>1. ASSUME ChildArm PROVE IndInv'
    <2>1. TypeOK'
      BY <1>1 DEF ChildArm, OneToken, FreeSlots, Requests, Messages, Contents
    <2>2. OneToken' /\ FreeSlots'
      BY <1>1 DEF ChildArm, OneToken, FreeSlots
    <2>3. Bookkeeping' /\ RequestContent'
      BY <1>1 DEF ChildArm, OneToken, FreeSlots, Bookkeeping, RequestContent,
             ResponseContent, Executions, Requests
    <2>4. ResponseContent' /\ Executions'
      BY <1>1 DEF ChildArm, OneToken, FreeSlots, Bookkeeping, RequestContent,
             ResponseContent, Executions
    <2>5. AnswerIntegrity' /\ InStep' /\ DestroyAfterChild'
      BY <1>1 DEF ChildArm, OneToken, FreeSlots, Bookkeeping, RequestContent,
             ResponseContent, Executions, AnswerIntegrity, InStep,
             DestroyAfterChild, Requests
    <2> QED
      BY <2>1, <2>2, <2>3, <2>4, <2>5
  <1>2. ASSUME ChildPpid PROVE IndInv'
    <2>1. TypeOK'
      BY <1>2 DEF ChildPpid, OneToken, FreeSlots, Requests, Messages, Contents
    <2>2. OneToken' /\ FreeSlots'
      BY <1>2 DEF ChildPpid, OneToken, FreeSlots
    <2>3. Bookkeeping' /\ RequestContent'
      BY <1>2 DEF ChildPpid, OneToken, FreeSlots, Bookkeeping, RequestContent,
             ResponseContent, Executions, Requests
    <2>4. ResponseContent' /\ Executions'
      BY <1>2 DEF ChildPpid, OneToken, FreeSlots, Bookkeeping, RequestContent,
             ResponseContent, Executions
    <2>5. AnswerIntegrity' /\ InStep' /\ DestroyAfterChild'
      BY <1>2 DEF ChildPpid, OneToken, FreeSlots, Bookkeeping, RequestContent,
             ResponseContent, Executions, AnswerIntegrity, InStep,
             DestroyAfterChild, Requests
    <2> QED
      BY <2>1, <2>2, <2>3, <2>4, <2>5
  <1>3. ASSUME ChildBoot PROVE IndInv'
    <2>1. TypeOK'
      BY <1>3 DEF ChildBoot, OneToken, FreeSlots, Requests, Messages, Contents
    <2>2. OneToken' /\ FreeSlots'
      BY <1>3 DEF ChildBoot, OneToken, FreeSlots
    <2>3. Bookkeeping' /\ RequestContent'
      BY <1>3 DEF ChildBoot, OneToken, FreeSlots, Bookkeeping, RequestContent,
             ResponseContent, Executions, Requests
    <2>4. ResponseContent' /\ Executions'
      BY <1>3 DEF ChildBoot, OneToken, FreeSlots, Bookkeeping, RequestContent,
             ResponseContent, Executions
    <2>5. AnswerIntegrity' /\ InStep' /\ DestroyAfterChild'
      BY <1>3 DEF ChildBoot, OneToken, FreeSlots, Bookkeeping, RequestContent,
             ResponseContent, Executions, AnswerIntegrity, InStep,
             DestroyAfterChild, Requests
    <2> QED
      BY <2>1, <2>2, <2>3, <2>4, <2>5
  <1>4. ASSUME ChildClock PROVE IndInv'
    <2>1. TypeOK'
      BY <1>4 DEF ChildClock, OneToken, FreeSlots, Requests, Messages, Contents
    <2>2. OneToken' /\ FreeSlots'
      BY <1>4 DEF ChildClock, OneToken, FreeSlots
    <2>3. Bookkeeping' /\ RequestContent'
      BY <1>4 DEF ChildClock, OneToken, FreeSlots, Bookkeeping,
             RequestContent, ResponseContent, Executions, Requests
    <2>4. ResponseContent' /\ Executions'
      BY <1>4 DEF ChildClock, OneToken, FreeSlots, Bookkeeping,
             RequestContent, ResponseContent, Executions
    <2>5. AnswerIntegrity' /\ InStep' /\ DestroyAfterChild'
      BY <1>4 DEF ChildClock, OneToken, FreeSlots, Bookkeeping,
             RequestContent, ResponseContent, Executions, AnswerIntegrity,
             InStep, DestroyAfterChild, Requests
    <2> QED
      BY <2>1, <2>2, <2>3, <2>4, <2>5
  <1>5. ASSUME ChildRecvTry PROVE IndInv'
    <2>1. TypeOK'
      BY <1>5 DEF ChildRecvTry, OneToken, FreeSlots, Requests, Messages, Contents
    <2>2. OneToken' /\ FreeSlots'
      BY <1>5 DEF ChildRecvTry, OneToken, FreeSlots
    <2>3. Bookkeeping' /\ RequestContent'
      BY <1>5 DEF ChildRecvTry, OneToken, FreeSlots, Bookkeeping,
             RequestContent, ResponseContent, Executions, Requests
    <2>4. ResponseContent' /\ Executions'
      BY <1>5 DEF ChildRecvTry, OneToken, FreeSlots, Bookkeeping,
             RequestContent, ResponseContent, Executions
    <2>5. AnswerIntegrity' /\ InStep' /\ DestroyAfterChild'
      BY <1>5 DEF ChildRecvTry, OneToken, FreeSlots, Bookkeeping,
             RequestContent, ResponseContent, Executions, AnswerIntegrity,
             InStep, DestroyAfterChild, Requests
    <2> QED
      BY <2>1, <2>2, <2>3, <2>4, <2>5
  <1>6. ASSUME ChildRecvLoad PROVE IndInv'
    <2>1. TypeOK'
      BY <1>6 DEF ChildRecvLoad, OneToken, FreeSlots, Requests, Messages, Contents
    <2>2. OneToken' /\ FreeSlots'
      BY <1>6 DEF ChildRecvLoad, OneToken, FreeSlots
    <2>3. Bookkeeping' /\ RequestContent'
      BY <1>6 DEF ChildRecvLoad, OneToken, FreeSlots, Bookkeeping,
             RequestContent, ResponseContent, Executions, Requests
    <2>4. ResponseContent' /\ Executions'
      BY <1>6 DEF ChildRecvLoad, OneToken, FreeSlots, Bookkeeping,
             RequestContent, ResponseContent, Executions
    <2>5. AnswerIntegrity' /\ InStep' /\ DestroyAfterChild'
      BY <1>6 DEF ChildRecvLoad, OneToken, FreeSlots, Bookkeeping,
             RequestContent, ResponseContent, Executions, AnswerIntegrity,
             InStep, DestroyAfterChild, Requests
    <2> QED
      BY <2>1, <2>2, <2>3, <2>4, <2>5
  <1>7. ASSUME ChildRecvPost PROVE IndInv'
    <2>1. TypeOK'
      BY <1>7 DEF ChildRecvPost, OneToken, FreeSlots, Requests, Messages, Contents
    <2>2. OneToken' /\ FreeSlots'
      BY <1>7 DEF ChildRecvPost, OneToken, FreeSlots
    <2>3. Bookkeeping' /\ RequestContent'
      BY <1>7 DEF ChildRecvPost, OneToken, FreeSlots, Bookkeeping,
             RequestContent, ResponseContent, Executions, Requests
    <2>4. ResponseContent' /\ Executions'
      BY <1>7 DEF ChildRecvPost, OneToken, FreeSlots, Bookkeeping,
             RequestContent, ResponseContent, Executions
    <2>5. AnswerIntegrity' /\ InStep' /\ DestroyAfterChild'
      BY <1>7 DEF ChildRecvPost, OneToken, FreeSlots, Bookkeeping,
             RequestContent, ResponseContent, Executions, AnswerIntegrity,
             InStep, DestroyAfterChild, Requests
    <2> QED
      BY <2>1, <2>2, <2>3, <2>4, <2>5
  <1>8. ASSUME ChildCheck PROVE IndInv'
    <2>1. TypeOK'
      <3>1. BoxTypes'
        BY <1>8 DEF ChildCheck, OneToken, FreeSlots, Executions, Requests
      <3>2. BrokerTypes'
        BY <1>8 DEF ChildCheck, OneToken, FreeSlots, Executions, Requests
      <3>3. ParentTypes'
        BY <1>8 DEF ChildCheck, OneToken, FreeSlots, Executions, Requests
      <3>4. ChildTypes'
        <4>1. /\ expected' \in Generations /\ operations' \in Generations
              /\ taken' \in Messages /\ cexp' \in BOOLEAN /\ writable' \in BOOLEAN
          BY <1>8 DEF ChildCheck, Executions, Bookkeeping, RequestContent, OneToken
        <4>2. observed' \in Observations
          BY <1>8 DEF ChildCheck, Observations, RequestContent, Requests, Contents, Messages
        <4> QED
          BY <1>8, <4>1, <4>2 DEF ChildCheck
      <3>5. ProcessTypes'
        BY <1>8 DEF ChildCheck, OneToken, FreeSlots, Executions, Requests
      <3> QED
        BY <3>1, <3>2, <3>3, <3>4, <3>5
    <2>2. OneToken' /\ FreeSlots'
      BY <1>8 DEF ChildCheck, OneToken, FreeSlots
    <2>3. Bookkeeping' /\ RequestContent'
      BY <1>8 DEF ChildCheck, OneToken, FreeSlots, Bookkeeping,
             RequestContent, ResponseContent, Executions, Requests
    <2>4. ResponseContent' /\ Executions'
      BY <1>8 DEF ChildCheck, OneToken, FreeSlots, Bookkeeping,
             RequestContent, ResponseContent, Executions, Observations
    <2>5. AnswerIntegrity' /\ InStep' /\ DestroyAfterChild'
      BY <1>8 DEF ChildCheck, OneToken, FreeSlots, Bookkeeping,
             RequestContent, ResponseContent, Executions, AnswerIntegrity,
             InStep, DestroyAfterChild, Requests
    <2> QED
      BY <2>1, <2>2, <2>3, <2>4, <2>5
  <1>9. ASSUME ChildRun PROVE IndInv'
    <2>1. TypeOK'
      <3>1. BoxTypes'
        BY <1>9 DEF ChildRun, OneToken, FreeSlots, Executions, Requests
      <3>2. BrokerTypes'
        BY <1>9 DEF ChildRun, OneToken, FreeSlots, Executions, Requests
      <3>3. ParentTypes'
        BY <1>9 DEF ChildRun, OneToken, FreeSlots, Executions, Requests
      <3>4. ChildTypes'
        <4>1. /\ expected' \in Generations /\ operations' \in Generations
              /\ taken' \in Messages /\ cexp' \in BOOLEAN /\ writable' \in BOOLEAN
          BY <1>9 DEF ChildRun, Executions, Bookkeeping, RequestContent, OneToken
        <4>2. observed' \in Observations
          BY <1>9 DEF ChildRun, Observations, RequestContent, Requests, Contents, Messages
        <4> QED
          BY <1>9, <4>1, <4>2 DEF ChildRun
      <3>5. ProcessTypes'
        BY <1>9 DEF ChildRun, OneToken, FreeSlots, Executions, Requests
      <3> QED
        BY <3>1, <3>2, <3>3, <3>4, <3>5
    <2>2. OneToken' /\ FreeSlots'
      BY <1>9 DEF ChildRun, OneToken, FreeSlots
    <2>3. Bookkeeping' /\ RequestContent'
      BY <1>9 DEF ChildRun, OneToken, FreeSlots, Bookkeeping, RequestContent,
             ResponseContent, Executions, Requests
    <2>4. ResponseContent' /\ Executions'
      BY <1>9 DEF ChildRun, OneToken, FreeSlots, Bookkeeping, RequestContent,
             ResponseContent, Executions
    <2>5. AnswerIntegrity' /\ InStep' /\ DestroyAfterChild'
      BY <1>9 DEF ChildRun, OneToken, FreeSlots, Bookkeeping, RequestContent,
             ResponseContent, Executions, AnswerIntegrity, InStep,
             DestroyAfterChild, Requests
    <2> QED
      BY <2>1, <2>2, <2>3, <2>4, <2>5
  <1>10. ASSUME ChildSendTry PROVE IndInv'
    <2>1. TypeOK'
      BY <1>10 DEF ChildSendTry, OneToken, FreeSlots, Requests, Messages, Contents
    <2>2. OneToken' /\ FreeSlots'
      BY <1>10 DEF ChildSendTry, OneToken, FreeSlots
    <2>3. Bookkeeping' /\ RequestContent'
      BY <1>10 DEF ChildSendTry, OneToken, FreeSlots, Bookkeeping,
             RequestContent, ResponseContent, Executions, Requests
    <2>4. ResponseContent' /\ Executions'
      BY <1>10 DEF ChildSendTry, OneToken, FreeSlots, Bookkeeping,
             RequestContent, ResponseContent, Executions
    <2>5. AnswerIntegrity' /\ InStep' /\ DestroyAfterChild'
      BY <1>10 DEF ChildSendTry, OneToken, FreeSlots, Bookkeeping,
             RequestContent, ResponseContent, Executions, AnswerIntegrity,
             InStep, DestroyAfterChild, Requests
    <2> QED
      BY <2>1, <2>2, <2>3, <2>4, <2>5
  <1>11. ASSUME ChildSendStore PROVE IndInv'
    <2>1. TypeOK'
      BY <1>11 DEF ChildSendStore, OneToken, FreeSlots, Requests, Messages, Contents
    <2>2. OneToken' /\ FreeSlots'
      BY <1>11 DEF ChildSendStore, OneToken, FreeSlots
    <2>3. Bookkeeping' /\ RequestContent'
      BY <1>11 DEF ChildSendStore, OneToken, FreeSlots, Bookkeeping,
             RequestContent, ResponseContent, Executions, Requests
    <2>4. ResponseContent' /\ Executions'
      BY <1>11 DEF ChildSendStore, OneToken, FreeSlots, Bookkeeping,
             RequestContent, ResponseContent, Executions
    <2>5. AnswerIntegrity' /\ InStep' /\ DestroyAfterChild'
      BY <1>11 DEF ChildSendStore, OneToken, FreeSlots, Bookkeeping,
             RequestContent, ResponseContent, Executions, AnswerIntegrity,
             InStep, DestroyAfterChild, Requests
    <2> QED
      BY <2>1, <2>2, <2>3, <2>4, <2>5
  <1>12. ASSUME ChildSendPost PROVE IndInv'
    <2>1. TypeOK'
      BY <1>12 DEF ChildSendPost, OneToken, FreeSlots, Requests, Messages, Contents
    <2>2. OneToken' /\ FreeSlots'
      BY <1>12 DEF ChildSendPost, OneToken, FreeSlots
    <2>3. Bookkeeping' /\ RequestContent'
      BY <1>12 DEF ChildSendPost, OneToken, FreeSlots, Bookkeeping,
             RequestContent, ResponseContent, Executions, Requests
    <2>4. ResponseContent' /\ Executions'
      BY <1>12 DEF ChildSendPost, OneToken, FreeSlots, Bookkeeping,
             RequestContent, ResponseContent, Executions
    <2>5. AnswerIntegrity' /\ InStep' /\ DestroyAfterChild'
      BY <1>12 DEF ChildSendPost, OneToken, FreeSlots, Bookkeeping,
             RequestContent, ResponseContent, Executions, AnswerIntegrity,
             InStep, DestroyAfterChild, Requests
    <2> QED
      BY <2>1, <2>2, <2>3, <2>4, <2>5
  <1>13. ASSUME ChildNext PROVE IndInv'
    <2>1. TypeOK'
      <3>1. BoxTypes'
        BY <1>13 DEF ChildNext, OneToken, FreeSlots, Executions, Requests
      <3>2. BrokerTypes'
        BY <1>13 DEF ChildNext, OneToken, FreeSlots, Executions, Requests
      <3>3. ParentTypes'
        BY <1>13 DEF ChildNext, OneToken, FreeSlots, Executions, Requests
      <3>4. ChildTypes'
        <4>1. expected' \in Generations
          BY <1>13 DEF ChildNext
        <4>2. /\ operations' \in Generations /\ taken' \in Messages
              /\ observed' \in Observations /\ cexp' \in BOOLEAN
              /\ writable' \in BOOLEAN
          BY <1>13 DEF ChildNext
        <4> QED
          BY <1>13, <4>1, <4>2 DEF ChildNext
      <3>5. ProcessTypes'
        BY <1>13 DEF ChildNext, OneToken, FreeSlots, Executions, Requests
      <3> QED
        BY <3>1, <3>2, <3>3, <3>4, <3>5
    <2>2. OneToken' /\ FreeSlots'
      BY <1>13 DEF ChildNext, OneToken, FreeSlots
    <2>3. Bookkeeping' /\ RequestContent'
      BY <1>13 DEF ChildNext, OneToken, FreeSlots, Bookkeeping,
             RequestContent, ResponseContent, Executions, Requests
    <2>4. ResponseContent' /\ Executions'
      BY <1>13 DEF ChildNext, OneToken, FreeSlots, Bookkeeping,
             RequestContent, ResponseContent, Executions
    <2>5. AnswerIntegrity' /\ InStep' /\ DestroyAfterChild'
      BY <1>13 DEF ChildNext, OneToken, FreeSlots, Bookkeeping,
             RequestContent, ResponseContent, Executions, AnswerIntegrity,
             InStep, DestroyAfterChild, Requests
    <2> QED
      BY <2>1, <2>2, <2>3, <2>4, <2>5
  <1>14. ASSUME ChildEnds PROVE IndInv'
    <2>1. TypeOK'
      BY <1>14 DEF ChildEnds, OneToken, FreeSlots, Requests, Messages, Contents
    <2>2. OneToken' /\ FreeSlots'
      BY <1>14 DEF ChildEnds, OneToken, FreeSlots
    <2>3. Bookkeeping' /\ RequestContent'
      BY <1>14 DEF ChildEnds, OneToken, FreeSlots, Bookkeeping,
             RequestContent, ResponseContent, Executions, Requests
    <2>4. ResponseContent' /\ Executions'
      BY <1>14 DEF ChildEnds, OneToken, FreeSlots, Bookkeeping,
             RequestContent, ResponseContent, Executions
    <2>5. AnswerIntegrity' /\ InStep' /\ DestroyAfterChild'
      BY <1>14 DEF ChildEnds, OneToken, FreeSlots, Bookkeeping,
             RequestContent, ResponseContent, Executions, AnswerIntegrity,
             InStep, DestroyAfterChild, Requests
    <2> QED
      BY <2>1, <2>2, <2>3, <2>4, <2>5
  <1> QED
    BY <1>1, <1>2, <1>3, <1>4, <1>5, <1>6, <1>7, <1>8, <1>9, <1>10, <1>11,
       <1>12, <1>13, <1>14
    DEF ChildStep

(* Every step keeps the inductive invariant.                               *)
LEMMA StepInd == IndInv /\ [Next]_vars => IndInv'
  <1> SUFFICES ASSUME IndInv, [Next]_vars PROVE IndInv'
    OBVIOUS
  <1>1. CASE Environment
    BY <1>1, BrokerKeeps, ParentKeeps, ChildKeeps DEF Environment, ChildCrashes
  <1>2. CASE ParentStep \/ ParentClock
    BY <1>2, ParentKeeps
  <1>3. CASE ChildStep \/ ChildBoot \/ ChildRun \/ ChildClock \/ ChildDies
    BY <1>3, ChildKeeps DEF ChildDies
  <1>4. CASE UNCHANGED vars
    BY <1>4 DEF vars, IndInv, TypeOK, BoxTypes, BrokerTypes, ParentTypes,
                ChildTypes, ProcessTypes, OneToken, FreeSlots, Bookkeeping,
                RequestContent, ResponseContent, Executions, AnswerIntegrity,
                InStep, DestroyAfterChild
  <1> QED
    BY <1>1, <1>2, <1>3, <1>4 DEF Next, Terminated

(* So the inductive invariant holds in every reachable state.              *)
LEMMA Inductive == Spec => []IndInv
  BY InitInd, StepInd, PTL DEF Spec

(***************************************************************************)
(* The variables of the two processes always have their types and the four *)
(* semaphores never exceed one.                                            *)
(***************************************************************************)
THEOREM TypeCorrect == Spec => []TypeOK
  <1>1. IndInv => TypeOK
    BY DEF IndInv
  <1> QED
    BY <1>1, Inductive, PTL

(* No mailbox is ever touched by both processes, so the two semaphores are *)
(* all the locking _Mailbox.send and receive need.                         *)
THEOREM ExclusionHolds == Spec => []SlotExclusion
  <1>1. IndInv => SlotExclusion
    BY DEF IndInv, OneToken, FreeSlots, SlotExclusion, TypeOK, BoxTypes
  <1> QED
    BY <1>1, Inductive, PTL

(* While proposed code runs, no message is in either mailbox and the       *)
(* response mapping is protected.                                          *)
THEOREM QuietHolds == Spec => []QuietWhileProposed
  <1>1. IndInv => QuietWhileProposed
    <2> SUFFICES ASSUME IndInv, cpc = "run" PROVE QuietWhileProposed
      BY DEF QuietWhileProposed
    <2>1. ~writable /\ full["requests"] # 1 /\ full["responses"] # 1
      BY DEF IndInv, OneToken, Executions
    <2>2. \A b \in Boxes : full[b] = 0
      BY <2>1 DEF IndInv, TypeOK, BoxTypes
    <2>3. ppc \in {"recvAlive", "recvTry"} \cup Ended
      BY DEF IndInv, OneToken, TypeOK, ParentTypes
    <2> QED
      BY <2>1, <2>2, <2>3 DEF QuietWhileProposed
  <1> QED
    BY <1>1, Inductive, PTL

(* What the broker is answered is the last execution's observation, of its *)
(* own request.                                                            *)
THEOREM IntegrityHolds == Spec => []AnswerIntegrity
  <1>1. IndInv => AnswerIntegrity
    BY DEF IndInv
  <1> QED
    BY <1>1, Inductive, PTL

(* The generation checks of both processes never fire and no send waits.   *)
THEOREM InStepHolds == Spec => []InStep
  <1>1. IndInv => InStep
    BY DEF IndInv
  <1> QED
    BY <1>1, Inductive, PTL

(* The mailboxes are destroyed only after the application was reaped.      *)
THEOREM DestroyHolds == Spec => []DestroyAfterChild
  <1>1. IndInv => DestroyAfterChild
    BY DEF IndInv
  <1> QED
    BY <1>1, Inductive, PTL

(* A call starts only for an unanswered request and after every earlier    *)
(* execution was answered.                                                 *)
THEOREM OnDemandHolds == Spec => OnDemand
  <1> DEFINE Demanded == operations' # operations =>
                           /\ request.seq # answer.seq
                           /\ answer.observation.run = operations
  <1>1. IndInv /\ [Next]_vars => [Demanded]_vars
    <2> SUFFICES ASSUME IndInv, [Next]_vars PROVE Demanded
      BY DEF vars
    <2>1. CASE ChildCheck
      BY <2>1 DEF ChildCheck, IndInv, TypeOK, ChildTypes, BrokerTypes, ParentTypes,
                  Observations, Generations, Bookkeeping, Executions
    <2>2. CASE ~ChildCheck
      BY <2>2 DEF Next, vars, Environment, ParentStep, ChildStep, Terminated,
           BrokerWrite, BrokerClose, ParentKilled, ChildCrashes, ChildDies,
           ChildEnds, ParentAlive, ParentClock, ParentRead, ParentSendTry,
           ParentSendStore, ParentSendPost, ParentRecvTry, ParentRecvLoad,
           ParentRecvPost, ParentReady, ParentRefuse, ParentWrite, ParentOver,
           ParentKill, ParentReap, ParentDestroy, ChildArm, ChildPpid,
           ChildBoot, ChildRun, ChildClock, ChildRecvTry, ChildRecvLoad,
           ChildRecvPost, ChildSendTry, ChildSendStore, ChildSendPost,
           ChildNext
    <2> QED
      BY <2>1, <2>2
  <1> QED
    BY <1>1, Inductive, PTL DEF Spec, OnDemand

-----------------------------------------------------------------------------
(* The mapped variables: what a step must leave alone to be a stutter.     *)
Mapped == <<Phase, request, observed, answer>>

(* A step that leaves the mapped state alone is a stutter.                 *)
LEMMA StutterMaps == Mapped' = Mapped => UNCHANGED Obs!absVars
  BY DEF Mapped, Obs!absVars, Abstract

(* A step that leaves the broker's frames, the generation and the last     *)
(* observation alone stutters, or closes the channel for good.             *)
LEMMA LocalMaps ==
  ASSUME UNCHANGED <<request, answer, generation, observed>>,
         \/ ppc' \in Ended
         \/ ppc \notin Ended \cup {"over"} /\ ppc' \notin {"over"}
         \/ ppc' = ppc
  PROVE  [Obs!AbsNext]_(Obs!absVars)
  <1>1. CASE ppc \notin Ended /\ ppc' \in Ended
    <2>1. Phase # "closed" /\ Phase' = "closed"
      BY <1>1 DEF Phase
    <2>2. Obs!Shut
      BY <2>1 DEF Obs!Shut, Abstract
    <2> QED
      BY <2>2 DEF Obs!AbsNext
  <1>2. CASE ~(ppc \notin Ended /\ ppc' \in Ended)
    <2>1. Phase' = Phase
      BY <1>2 DEF Phase, ExecutedNotAnswered
    <2> QED
      BY <2>1, StutterMaps DEF Mapped
  <1> QED
    BY <1>1, <1>2

(* The broker's next frame is Issue, or is written in vain.                *)
LEMMA WriteMaps == ASSUME IndInv, BrokerWrite PROVE Obs!AbsNext
  <1> USE DEF IndInv, TypeOK, BrokerTypes, ParentTypes, ChildTypes, Requests
  <1>1. Obs!NewRequest
    BY DEF BrokerWrite, Obs!NewRequest
  <1>2. UNCHANGED <<ppc, answer, observed>> /\ request'.seq # answer.seq
    BY DEF BrokerWrite
  <1>3. CASE ppc \in Ended
    BY <1>1, <1>2, <1>3 DEF Obs!AbsNext, Obs!IssueInVain, Phase, Abstract
  <1>4. CASE ppc \notin Ended
    <2>1. Phase = "idle"
      BY <1>4 DEF BrokerWrite, Phase
    <2>2. generation > 0 => ppc \in {"read", "over"}
      BY <1>4 DEF BrokerWrite, Bookkeeping, InFlight
    <2>3. ppc = "read" => observed.run < generation
      BY DEF Executions, Observations, Generations
    <2>4. Phase' = "pending"
      BY <1>2, <1>4, <2>2, <2>3
         DEF BrokerWrite, Phase, ExecutedNotAnswered, Generations, Observations
    <2> QED
      BY <1>1, <1>2, <2>1, <2>4 DEF Obs!AbsNext, Obs!Issue, Abstract
  <1> QED
    BY <1>3, <1>4

(* The answer is Reply.                                                    *)
LEMMA ReplyMaps == ASSUME IndInv, ParentWrite PROVE Obs!AbsNext
  <1> USE DEF IndInv, TypeOK, ParentTypes
  <1>1. /\ held = request /\ got.data = observed /\ observed.run = generation
        /\ request.seq # answer.seq
    BY DEF ParentWrite, Bookkeeping, ResponseContent, Generations
  <1>2. Phase = "executed"
    BY <1>1 DEF ParentWrite, Phase, ExecutedNotAnswered
  <1>3. UNCHANGED <<request, observed>>
        /\ answer' = [seq |-> request.seq, observation |-> observed]
    BY <1>1 DEF ParentWrite
  <1>4. Phase' = "idle"
    BY <1>3 DEF ParentWrite, Phase
  <1> QED
    BY <1>2, <1>3, <1>4 DEF Obs!AbsNext, Obs!Reply, Abstract

(* The end of the proposed call is Execute, or happens in vain.            *)
LEMMA RunMaps ==
  ASSUME IndInv, ChildRun PROVE [Obs!AbsNext]_(Obs!absVars)
  <1> USE DEF IndInv, TypeOK, ParentTypes, ChildTypes
  <1>1. UNCHANGED <<ppc, generation, request, answer>>
    BY DEF ChildRun
  <1>2. CASE UNCHANGED observed
    BY <1>1, <1>2, LocalMaps
  <1>3. ASSUME NEW k \in Kinds,
               observed' = [run |-> operations, payload |-> taken.data,
                            kind |-> k]
        PROVE  Obs!AbsNext
    <2>1. /\ held = request /\ taken.data = request.payload
          /\ request.seq # answer.seq /\ operations = generation
          /\ generation > 0 /\ observed.run < generation
      BY DEF ChildRun, Bookkeeping, RequestContent, Executions
    <2>2. Abstract(observed') = [payload |-> request.payload, kind |-> k]
      BY <1>3, <2>1 DEF Abstract
    <2>3. CASE ppc \in Ended
      BY <1>1, <2>1, <2>2, <2>3 DEF Obs!AbsNext, Obs!ExecuteInVain, Phase,
         Abstract, BrokerTypes, Requests
    <2>4. CASE ppc \notin Ended
      <3>1. ppc # "over"
        BY DEF ChildRun, OneToken
      <3>2. Phase = "pending" /\ Phase' = "executed"
        BY <1>1, <1>3, <2>1, <2>4, <3>1
           DEF Phase, ExecutedNotAnswered, Observations, Generations
      <3> QED
        BY <1>1, <2>2, <3>2 DEF Obs!AbsNext, Obs!Execute, Abstract
    <2> QED
      BY <2>3, <2>4
  <1> QED
    BY <1>2, <1>3 DEF ChildRun

(* The ready message changes the generation before any execution.          *)
LEMMA ReadyMaps ==
  ASSUME IndInv, ParentReady PROVE [Obs!AbsNext]_(Obs!absVars)
  <1>1. UNCHANGED <<request, answer, observed>>
    BY DEF ParentReady
  <1>2. CASE UNCHANGED generation
    BY <1>1, <1>2, LocalMaps DEF ParentReady
  <1>3. CASE generation' = 1
    <2>1. observed.run = 0
      BY DEF ParentReady, IndInv, TypeOK, ChildTypes, Observations,
             Generations, ResponseContent, Executions
    <2>2. Phase' = Phase
      BY <1>1, <1>3, <2>1 DEF ParentReady, Phase, ExecutedNotAnswered
    <2> QED
      BY <1>1, <2>2, StutterMaps DEF Mapped
  <1> QED
    BY <1>2, <1>3 DEF ParentReady

(* Every step maps to a step of the abstract service or to a stutter.      *)
LEMMA StepMaps == IndInv /\ [Next]_vars => [Obs!AbsNext]_(Obs!absVars)
  <1> SUFFICES ASSUME IndInv, [Next]_vars PROVE [Obs!AbsNext]_(Obs!absVars)
    OBVIOUS
  <1>1. CASE BrokerWrite
    BY <1>1, WriteMaps
  <1>2. CASE ParentWrite
    BY <1>2, ReplyMaps
  <1>3. CASE ChildRun
    BY <1>3, RunMaps
  <1>4. CASE ParentReady
    BY <1>4, ReadyMaps
  <1>5. CASE BrokerClose \/ ParentKilled \/ ChildEnds \/ ParentClock
             \/ UNCHANGED vars
    BY <1>5, LocalMaps DEF BrokerClose, ParentKilled, ChildEnds, ParentClock, vars
  <1>6. CASE \/ ParentAlive("recvAlive", "recvTry")
             \/ ParentAlive("sendAlive", "sendTry")
             \/ ParentRead \/ ParentSendTry \/ ParentSendStore
             \/ ParentSendPost \/ ParentRecvTry \/ ParentRecvLoad
             \/ ParentRecvPost \/ ParentRefuse \/ ParentOver
             \/ ParentKill \/ ParentReap \/ ParentDestroy
    <2>1. UNCHANGED <<request, answer, generation, observed>>
      BY <1>6 DEF ParentAlive, ParentRead, ParentSendTry, ParentSendStore,
           ParentSendPost, ParentRecvTry, ParentRecvLoad, ParentRecvPost,
           ParentRefuse, ParentOver, ParentKill, ParentReap, ParentDestroy
    <2>2. \/ ppc' \in Ended
          \/ ppc \notin Ended \cup {"over"} /\ ppc' \notin {"over"}
      BY <1>6 DEF ParentAlive, ParentRead, ParentSendTry, ParentSendStore,
           ParentSendPost, ParentRecvTry, ParentRecvLoad, ParentRecvPost,
           ParentRefuse, ParentOver, ParentKill, ParentReap, ParentDestroy
    <2> QED
      BY <2>1, <2>2, LocalMaps
  <1>7. CASE ChildStep \/ ChildBoot \/ ChildClock
    <2>1. UNCHANGED <<request, answer, generation, observed, ppc>>
      BY <1>7 DEF ChildStep, ChildArm, ChildPpid, ChildBoot, ChildClock,
           ChildRecvTry, ChildRecvLoad, ChildRecvPost, ChildCheck,
           ChildSendTry, ChildSendStore, ChildSendPost, ChildNext
    <2> QED
      BY <2>1, LocalMaps
  <1> QED
    BY <1>1, <1>2, <1>3, <1>4, <1>5, <1>6, <1>7
       DEF Next, Environment, ParentStep, Terminated, ChildDies, ChildCrashes

(***************************************************************************)
(* The executor implements Observation: at most one execution per request, *)
(* answers only from that execution, silence once the channel is closed.   *)
(***************************************************************************)
THEOREM Implementation == Spec => ImplementsObservation
  <1>1. Init => Obs!AbsInit
    BY DEF Init, Obs!AbsInit, Phase
  <1> QED
    BY <1>1, StepMaps, Inductive, PTL
       DEF Spec, ImplementsObservation, Obs!AbsSpec
=============================================================================
