-------------------------- MODULE BatchServerProofs --------------------------
(***************************************************************************)
(* The server as a whole is a behaviour of each of its planes, so what is   *)
(* proved of them holds of it; and what the planes owe each other, for any  *)
(* number of slots and clients.                                             *)
(***************************************************************************)
EXTENDS BatchServer, FiniteSetTheorems, TLAPS

\* The planes again, with what is proved of them.
RP == INSTANCE RequestPlaneProofs
MP == INSTANCE ModelTurnProofs

-----------------------------------------------------------------------------
(* SD and RP, MT and MP are the same specifications. *)

LEMMA SameCount ==
    ASSUME NEW S
    PROVE  /\ SD!Cardinality(S) = Cardinality(S) /\ RP!Cardinality(S) = Cardinality(S)
           /\ MT!Cardinality(S) = Cardinality(S) /\ MP!Cardinality(S) = Cardinality(S)
BY DEF SD!Cardinality, RP!Cardinality, MT!Cardinality, MP!Cardinality, Cardinality

LEMMA SameBest ==
    ASSUME NEW c, NEW S, NEW s
    PROVE  SD!Best(c, S, s) <=> RP!Best(c, S, s)
<1>1. ASSUME NEW t PROVE SD!Score(t, c) = RP!Score(t, c)
  <2>1. SD!CommonPrefix(t, c) = RP!CommonPrefix(t, c)
    BY SameCount DEF SD!CommonPrefix, RP!CommonPrefix, SD!IsPrefix, RP!IsPrefix
  <2>. QED BY <2>1 DEF SD!Score, RP!Score, SD!INT_MAX, RP!INT_MAX
<1>. QED BY <1>1 DEF SD!Best, RP!Best

LEMMA SamePicks ==
    ASSUME NEW q, NEW idle, NEW n, NEW pick
    PROVE  SD!PicksInOrder(q, idle, n, pick) <=> RP!PicksInOrder(q, idle, n, pick)
BY SameBest DEF SD!PicksInOrder, RP!PicksInOrder

LEMMA SameDispatch ==
    ASSUME NEW q, NEW idle, SD!Dispatch(q, idle)
    PROVE  RP!Dispatch(q, idle)
BY Zenon, SamePicks DEF SD!Dispatch, RP!Dispatch, SD!Slots, RP!Slots

LEMMA SameRequestInit == SD!Init => RP!Init
BY DEF SD!Init, RP!Init, SD!Slots, RP!Slots

LEMMA SameClients ==
    ASSUME NEW c \in Clients, SD!ClientThread(c) \/ SD!Accept(c) \/ SD!AcceptNoThread(c)
    PROVE  RP!ClientThread(c) \/ RP!Accept(c) \/ RP!AcceptNoThread(c)
<1>. USE DEF SD!queueVars, RP!queueVars, SD!workerVars, RP!workerVars
<1>1. CASE SD!Enqueue(c)
  <2>1. RP!Join(c, Append(queue, c))
    BY <1>1, SameDispatch DEF SD!Enqueue, SD!Join, RP!Join, SD!IdleSlots, RP!IdleSlots,
       SD!Slots, RP!Slots
  <2>. QED BY <1>1, <2>1 DEF SD!Enqueue, RP!Enqueue, RP!ClientThread
<1>2. CASE SD!AnswerDirectly(c)
  BY <1>2 DEF SD!AnswerDirectly, RP!AnswerDirectly, RP!ClientThread
<1>3. CASE SD!EnqueueRefused(c)
  BY <1>3 DEF SD!EnqueueRefused, RP!EnqueueRefused, RP!ClientThread
<1>4. CASE SD!ClientWake(c)
  BY <1>4 DEF SD!ClientWake, RP!ClientWake, RP!ClientThread
<1>5. CASE SD!ClientDone(c)
  BY <1>5 DEF SD!ClientDone, RP!ClientDone, RP!ClientThread
<1>6. CASE SD!Accept(c)
  BY <1>6 DEF SD!Accept, RP!Accept
<1>7. CASE SD!AcceptNoThread(c)
  BY <1>7 DEF SD!AcceptNoThread, RP!AcceptNoThread
<1>. QED BY <1>1, <1>2, <1>3, <1>4, <1>5, <1>6, <1>7 DEF SD!ClientThread

LEMMA SameWorkers ==
    ASSUME NEW s \in SD!Slots, SD!SlotWorker(s)
    PROVE  RP!SlotWorker(s)
<1>. USE DEF SD!queueVars, RP!queueVars, SD!workerVars, RP!workerVars, SD!clientVars,
             RP!clientVars, SD!Looking, RP!Looking, SD!NothingToDo, RP!NothingToDo
<1>1. CASE SD!WaitForJob(s)
  BY <1>1 DEF SD!WaitForJob, RP!WaitForJob, RP!SlotWorker
<1>2. CASE SD!TakeAssigned(s)
  BY <1>2 DEF SD!TakeAssigned, RP!TakeAssigned, SD!RunJob, RP!RunJob, RP!SlotWorker
<1>3. CASE SD!Dequeue(s)
  BY <1>3 DEF SD!Dequeue, RP!Dequeue, SD!RunJob, RP!RunJob, RP!SlotWorker
<1>4. CASE SD!WorkerExit(s)
  BY <1>4 DEF SD!WorkerExit, RP!WorkerExit, RP!SlotWorker
<1>5. CASE SD!FinishJob(s)
  <2>1. RP!FinishJob(s)
    BY <1>5, Zenon DEF SD!FinishJob, RP!FinishJob, SD!Frontiers, RP!Frontiers, SD!Continuations,
       RP!Continuations, SD!Slots, RP!Slots, SD!IsStrictPrefix, RP!IsStrictPrefix,
       SD!IsPrefix, RP!IsPrefix
  <2>. QED BY <2>1 DEF RP!SlotWorker
<1>6. CASE SD!Release(s)
  <2>1. RP!Release(s)
    BY <1>6, SameDispatch DEF SD!Release, RP!Release, SD!Slots, RP!Slots
  <2>. QED BY <2>1 DEF RP!SlotWorker
<1>. QED BY <1>1, <1>2, <1>3, <1>4, <1>5, <1>6 DEF SD!SlotWorker

LEMMA SameMain == SD!MainDrain => RP!MainDrain
<1>. USE DEF SD!queueVars, RP!queueVars, SD!workerVars, RP!workerVars, SD!clientVars,
             RP!clientVars, SD!MainStep, RP!MainStep
<1>1. SD!Listen \/ SD!ListenFails \/ SD!LeaveAcceptLoop \/ SD!SetStopping \/ SD!MainCancel
        => RP!MainDrain
  BY DEF SD!Listen, RP!Listen, SD!ListenFails, RP!ListenFails, SD!LeaveAcceptLoop,
         RP!LeaveAcceptLoop, SD!SetStopping, RP!SetStopping, SD!MainCancel, RP!MainCancel,
         RP!MainDrain
<1>2. SD!JoinWorkers \/ SD!MainModelStop \/ SD!JoinCoordinator \/ SD!WaitClients
        \/ SD!PersistAndClose => RP!MainDrain
  BY DEF SD!JoinWorkers, RP!JoinWorkers, SD!Slots, RP!Slots, SD!MainModelStop,
         RP!MainModelStop, SD!JoinCoordinator, RP!JoinCoordinator, SD!WaitClients,
         RP!WaitClients, SD!PersistAndClose, RP!PersistAndClose, RP!MainDrain
<1>. QED BY <1>1, <1>2 DEF SD!MainDrain

LEMMA SameRequestNext == [SD!Next]_(SD!vars) => [RP!Next]_(RP!vars)
<1>. SUFFICES ASSUME [SD!Next]_(SD!vars) PROVE [RP!Next]_(RP!vars)
  OBVIOUS
<1>. USE DEF SD!vars, RP!vars, SD!queueVars, RP!queueVars, SD!workerVars, RP!workerVars,
             SD!clientVars, RP!clientVars
<1>1. CASE UNCHANGED SD!vars
  BY <1>1
<1>2. CASE \E c \in Clients : SD!ClientThread(c) \/ SD!Accept(c) \/ SD!AcceptNoThread(c)
  BY <1>2, SameClients DEF RP!Next
<1>3. CASE \E s \in SD!Slots : SD!SlotWorker(s)
  BY <1>3, SameWorkers DEF RP!Next, SD!Slots, RP!Slots
<1>4. CASE SD!MainDrain
  BY <1>4, SameMain DEF RP!Next
<1>5. CASE SD!StopSignal
  BY <1>5 DEF SD!StopSignal, RP!StopSignal, RP!Next
<1>6. CASE SD!Closed
  BY <1>6 DEF SD!Closed
<1>. QED BY <1>1, <1>2, <1>3, <1>4, <1>5, <1>6 DEF SD!Next

LEMMA SameModelInit == MT!Init => MP!Init
BY DEF MT!Init, MP!Init, MT!Slots, MP!Slots, MT!Free, MP!Free

LEMMA SameBeginSync ==
    ASSUME NEW s, NEW st, MT!BeginSync(s, st)
    PROVE  MP!BeginSync(s, st)
BY DEF MT!BeginSync, MP!BeginSync, MT!Goto, MP!Goto

LEMMA SameSessions ==
    ASSUME NEW s
    PROVE  /\ MT!KeepSession(s) <=> MP!KeepSession(s)
           /\ MT!DropSession(s) <=> MP!DropSession(s)
           /\ MT!RenewSession(s) <=> MP!RenewSession(s)
BY DEF MT!KeepSession, MP!KeepSession, MT!DropSession, MP!DropSession, MT!RenewSession,
       MP!RenewSession

LEMMA SameSteps ==
    ASSUME NEW s, NEW from, NEW to
    PROVE  /\ MT!At(s, from) <=> MP!At(s, from)
           /\ MT!Goto(s, to) <=> MP!Goto(s, to)
           /\ MT!Step(s, from, to) <=> MP!Step(s, from, to)
           /\ MT!CoordAt(from) <=> MP!CoordAt(from)
           /\ MT!Sleep(s) <=> MP!Sleep(s)
           /\ MT!Broadcast <=> MP!Broadcast
           /\ MT!GiveUp(s) <=> MP!GiveUp(s)
           /\ MT!LoopHead(s) <=> MP!LoopHead(s)
           /\ MT!AfterFailedSync(s) = MP!AfterFailedSync(s)
           /\ MT!Free = MP!Free /\ MT!Failed = MP!Failed
           /\ MT!Slots = MP!Slots
BY DEF MT!At, MP!At, MT!Awake, MP!Awake, MT!Goto, MP!Goto, MT!Step, MP!Step, MT!CoordAt,
       MP!CoordAt, MT!Coord, MP!Coord, MT!Sleep, MP!Sleep, MT!Broadcast, MP!Broadcast,
       MT!GiveUp, MP!GiveUp, MT!LoopHead, MP!LoopHead, MT!AfterFailedSync,
       MP!AfterFailedSync, MT!Free, MP!Free, MT!Failed, MP!Failed, MT!Slots, MP!Slots

LEMMA SameTurn ==
    ASSUME NEW s
    PROVE  /\ MT!WaitingSlots = MP!WaitingSlots
           /\ \A W : MT!MustWait(s, W) <=> MP!MustWait(s, W)
<1>1. ASSUME NEW W PROVE MT!IsNextPrefill(s, W) <=> MP!IsNextPrefill(s, W)
  BY DEF MT!IsNextPrefill, MP!IsNextPrefill, MT!Distance, MP!Distance
<1>. QED BY <1>1 DEF MT!WaitingSlots, MP!WaitingSlots, MT!Slots, MP!Slots, MT!MustWait, MP!MustWait
LEMMA SameInJob ==
    ASSUME NEW s \in Slots, MT!InJob(s)
    PROVE  MP!InJob(s)
<1>. USE DEF MT!serverVars, MP!serverVars, MT!prefillVars, MP!prefillVars, MT!decodeVars,
             MP!decodeVars, MT!sessionVars, MP!sessionVars, MT!slotVars, MP!slotVars,
             MT!coordVars, MP!coordVars, MT!stopVars, MP!stopVars
<1>1. MT!JobReject(s) => MP!JobReject(s)
  BY SameSteps DEF MT!JobReject, MP!JobReject
<1>2. MT!JobPrepare(s) => MP!JobPrepare(s)
  BY SameSteps, SameBeginSync, SameSessions DEF MT!JobPrepare, MP!JobPrepare
<1>3. MT!ChooseQuantum(s) => MP!ChooseQuantum(s)
  BY SameSteps DEF MT!ChooseQuantum, MP!ChooseQuantum
<1>4. MT!SyncInterrupted(s) => MP!SyncInterrupted(s)
  BY SameSteps DEF MT!SyncInterrupted, MP!SyncInterrupted
<1>5. MT!AskTurn(s) => MP!AskTurn(s)
  BY SameSteps, SameTurn DEF MT!AskTurn, MP!AskTurn
<1>6. MT!WaitTurn(s) => MP!WaitTurn(s)
  BY SameSteps, SameTurn DEF MT!WaitTurn, MP!WaitTurn
<1>7. MT!PrefillEnter(s) => MP!PrefillEnter(s)
  BY SameSteps, SameTurn DEF MT!PrefillEnter, MP!PrefillEnter, MT!TakeTurn, MP!TakeTurn
<1>8. MT!PrefillAbandon(s) => MP!PrefillAbandon(s)
  BY SameSteps DEF MT!PrefillAbandon, MP!PrefillAbandon
<1>9. MT!PrefillLock(s) => MP!PrefillLock(s)
  BY SameSteps DEF MT!PrefillLock, MP!PrefillLock
<1>10. MT!PrefillRun(s) => MP!PrefillRun(s)
  BY SameSteps, SameSessions DEF MT!PrefillRun, MP!PrefillRun
<1>11. MT!PrefillLeave(s) => MP!PrefillLeave(s)
  BY SameSteps, SameBeginSync DEF MT!PrefillLeave, MP!PrefillLeave, MT!LeaveTurn,
     MP!LeaveTurn, MT!AfterChunk, MP!AfterChunk
<1>12. MT!HeadersFail(s) => MP!HeadersFail(s)
  BY SameSteps DEF MT!HeadersFail, MP!HeadersFail
<1>13. MT!GenerationEnter(s) => MP!GenerationEnter(s)
  BY SameSteps DEF MT!GenerationEnter, MP!GenerationEnter
<1>14. MT!DecodeEnds(s) => MP!DecodeEnds(s)
  BY SameSteps DEF MT!DecodeEnds, MP!DecodeEnds
<1>15. MT!EvalSubmit(s) => MP!EvalSubmit(s)
  BY SameSteps DEF MT!EvalSubmit, MP!EvalSubmit, MT!SubmitToken, MP!SubmitToken
<1>16. MT!EvalWait(s) => MP!EvalWait(s)
  BY SameSteps DEF MT!EvalWait, MP!EvalWait
<1>17. MT!TokenKept(s) => MP!TokenKept(s)
  BY SameSteps DEF MT!TokenKept, MP!TokenKept, MT!EvalReturn, MP!EvalReturn,
     MT!Evaluated, MP!Evaluated
<1>18. MT!TokenEnds(s) => MP!TokenEnds(s)
  BY SameSteps DEF MT!TokenEnds, MP!TokenEnds, MT!EvalReturn, MP!EvalReturn,
     MT!Evaluated, MP!Evaluated
<1>19. MT!EvalFailed(s) => MP!EvalFailed(s)
  BY SameSteps DEF MT!EvalFailed, MP!EvalFailed, MT!EvalReturn, MP!EvalReturn,
     MT!Evaluated, MP!Evaluated
<1>20. MT!GenerationLeave(s) => MP!GenerationLeave(s)
  BY SameSteps DEF MT!GenerationLeave, MP!GenerationLeave
<1>21. MT!RewriteInPlace(s) => MP!RewriteInPlace(s)
  BY SameSteps DEF MT!RewriteInPlace, MP!RewriteInPlace, MT!ToRewrite, MP!ToRewrite
<1>22. MT!RewriteRun(s) => MP!RewriteRun(s)
  BY SameSteps, SameSessions DEF MT!RewriteRun, MP!RewriteRun
<1>23. MT!RewriteBySync(s) => MP!RewriteBySync(s)
  BY SameSteps, SameSessions, SameBeginSync DEF MT!RewriteBySync, MP!RewriteBySync,
     MT!ToRewrite, MP!ToRewrite
<1>24. MT!RememberTools(s) => MP!RememberTools(s)
  BY SameSteps, SameBeginSync DEF MT!RememberTools, MP!RememberTools, MT!ToRewrite,
     MP!ToRewrite
<1>. QED BY <1>1, <1>2, <1>3, <1>4, <1>5, <1>6, <1>7, <1>8, <1>9, <1>10, <1>11, <1>12,
         <1>13, <1>14, <1>15, <1>16, <1>17, <1>18, <1>19, <1>20, <1>21, <1>22, <1>23,
         <1>24
         DEF MT!InJob, MT!Prefilling, MT!HoldingTurn, MT!Decoding, MT!ReturnToken,
             MT!Closing, MP!InJob, MP!Prefilling, MP!HoldingTurn, MP!Decoding,
             MP!ReturnToken, MP!Closing

LEMMA SameJobs ==
    ASSUME NEW s \in Slots, MT!JobBegin(s) \/ MT!InJob(s) \/ MT!JobFinish(s)
    PROVE  MP!JobBegin(s) \/ MP!InJob(s) \/ MP!JobFinish(s)
<1>. USE DEF MT!serverVars, MP!serverVars, MT!prefillVars, MP!prefillVars, MT!decodeVars,
             MP!decodeVars, MT!sessionVars, MP!sessionVars, MT!slotVars, MP!slotVars,
             MT!coordVars, MP!coordVars, MT!stopVars, MP!stopVars
<1>1. CASE MT!JobBegin(s)
  BY <1>1, SameSteps DEF MT!JobBegin, MP!JobBegin
<1>2. CASE MT!JobFinish(s)
  BY <1>2, SameSteps DEF MT!JobFinish, MP!JobFinish
<1>. QED BY <1>1, <1>2, SameInJob

LEMMA SameCoordinator ==
    ASSUME MT!Coordinator
    PROVE  MP!Coordinator
<1>. USE DEF MT!serverVars, MP!serverVars, MT!prefillVars, MP!prefillVars, MT!decodeVars,
             MP!decodeVars, MT!sessionVars, MP!sessionVars, MT!slotVars, MP!slotVars,
             MT!coordVars, MP!coordVars, MT!stopVars, MP!stopVars
<1>1. MT!CoordWait => MP!CoordWait
  BY DEF MT!CoordWait, MP!CoordWait, MT!CoordAt, MP!CoordAt, MT!Awake, MP!Awake,
     MT!Coord, MP!Coord, MT!Sleep, MP!Sleep
<1>2. MT!CoordExit => MP!CoordExit
  BY SameSteps DEF MT!CoordExit, MP!CoordExit
<1>3. MT!CoordCoalesce => MP!CoordCoalesce
  BY SameSteps DEF MT!CoordCoalesce, MP!CoordCoalesce
<1>4. MT!CoordWaitTurn => MP!CoordWaitTurn
  BY DEF MT!CoordWaitTurn, MP!CoordWaitTurn, MT!ReadyToGather, MP!ReadyToGather,
     MT!CoordAt, MP!CoordAt, MT!Awake, MP!Awake, MT!Coord, MP!Coord, MT!Sleep, MP!Sleep
<1>5. MT!CoordGather => MP!CoordGather
  BY SameSteps, SameCount DEF MT!CoordGather, MP!CoordGather, MT!ReadyToGather,
     MP!ReadyToGather
<1>6. MT!CoordLock => MP!CoordLock
  BY DEF MT!CoordLock, MP!CoordLock, MT!CoordAt, MP!CoordAt, MT!Awake, MP!Awake,
     MT!Coord, MP!Coord, MT!Free, MP!Free
<1>7. MT!EvalBatchOk => MP!EvalBatchOk
  BY SameSteps DEF MT!EvalBatchOk, MP!EvalBatchOk, MT!EndEval, MP!EndEval
<1>8. MT!EvalBatchFails => MP!EvalBatchFails
  BY SameSteps DEF MT!EvalBatchFails, MP!EvalBatchFails, MT!StopHalfway, MP!StopHalfway,
     MT!EndEval, MP!EndEval
<1>9. MT!EvalBatchRejected => MP!EvalBatchRejected
  BY SameSteps DEF MT!EvalBatchRejected, MP!EvalBatchRejected, MT!EndEval, MP!EndEval
<1>10. MT!CoordPublish => MP!CoordPublish
  BY SameSteps DEF MT!CoordPublish, MP!CoordPublish, MT!Publish, MP!Publish
<1>. QED BY <1>1, <1>2, <1>3, <1>4, <1>5, <1>6, <1>7, <1>8, <1>9, <1>10 DEF MT!Coordinator, MP!Coordinator

LEMMA SameStopping ==
    ASSUME MT!Stopping
    PROVE  MP!Stopping
<1>. USE DEF MT!serverVars, MP!serverVars, MT!prefillVars, MP!prefillVars, MT!decodeVars,
             MP!decodeVars, MT!sessionVars, MP!sessionVars, MT!slotVars, MP!slotVars,
             MT!coordVars, MP!coordVars, MT!stopVars, MP!stopVars
<1>1. MT!StopSignal => MP!StopSignal
  BY SameSteps DEF MT!StopSignal, MP!StopSignal
<1>2. MT!CancelDecodeWaiters => MP!CancelDecodeWaiters
  BY SameSteps, SameCount DEF MT!CancelDecodeWaiters, MP!CancelDecodeWaiters, MT!Cancel,
     MP!Cancel
<1>3. MT!ListenFailed => MP!ListenFailed
  BY SameSteps DEF MT!ListenFailed, MP!ListenFailed
<1>4. MT!ModelStop => MP!ModelStop
  BY SameSteps DEF MT!ModelStop, MP!ModelStop, MT!StopModel, MP!StopModel
<1>. QED BY <1>1, <1>2, <1>3, <1>4 DEF MT!Stopping, MP!Stopping

LEMMA SameModelNext == [MT!Next]_(MT!vars) => [MP!Next]_(MP!vars)
<1>. SUFFICES ASSUME [MT!Next]_(MT!vars) PROVE [MP!Next]_(MP!vars)
  OBVIOUS
<1>. USE DEF MT!serverVars, MP!serverVars, MT!prefillVars, MP!prefillVars, MT!decodeVars,
             MP!decodeVars, MT!sessionVars, MP!sessionVars, MT!slotVars, MP!slotVars,
             MT!coordVars, MP!coordVars, MT!stopVars, MP!stopVars, MT!vars, MP!vars
<1>1. CASE UNCHANGED MT!vars
  BY <1>1
<1>2. CASE \E s \in MT!Slots : MT!JobBegin(s) \/ MT!InJob(s) \/ MT!JobFinish(s)
  BY <1>2, SameJobs DEF MP!Next, Slots, SD!Slots, MT!Slots, MP!Slots
<1>3. CASE MT!Coordinator
  BY <1>3, SameCoordinator DEF MP!Next
<1>4. CASE MT!Stopping
  BY <1>4, SameStopping DEF MP!Next
<1>5. CASE MT!Stopped
  BY <1>5 DEF MT!Stopped
<1>. QED BY <1>1, <1>2, <1>3, <1>4, <1>5 DEF MT!Next

-----------------------------------------------------------------------------
(* The server runs both planes. *)

LEMMA RequestSteps == [Next]_vars => [SD!Next]_(SD!vars)
<1>. SUFFICES ASSUME [Next]_vars PROVE [SD!Next]_(SD!vars)
  OBVIOUS
<1>1. CASE UNCHANGED vars \/ Closed
  BY <1>1 DEF Closed, vars, requestVars, SD!vars, SD!queueVars, SD!workerVars, SD!clientVars
<1>2. CASE \E c \in Clients : ClientThread(c) \/ Accept(c)
  BY <1>2 DEF ClientThread, Accept, SD!Next
<1>3. ASSUME NEW s \in Slots, Dispatching(s) \/ CallGenerateJob(s) \/ ReturnFromJob(s)
      PROVE  SD!Next
  BY <1>3 DEF Dispatching, CallGenerateJob, ReturnFromJob, SD!SlotWorker, SD!Next, Slots
<1>4. ASSUME NEW s \in Slots, GenerateJob(s)
      PROVE  UNCHANGED SD!vars
  <2>1. gstop' = gstop
    BY <1>4 DEF GenerateJob, MT!InJob, MT!JobReject, MT!JobPrepare, MT!Prefilling, MT!ChooseQuantum,
       MT!SyncInterrupted, MT!AskTurn, MT!WaitTurn, MT!PrefillEnter, MT!TakeTurn,
       MT!PrefillAbandon, MT!HoldingTurn, MT!PrefillLock, MT!PrefillRun, MT!PrefillLeave,
       MT!LeaveTurn, MT!Decoding, MT!HeadersFail, MT!GenerationEnter, MT!DecodeEnds,
       MT!EvalSubmit, MT!EvalWait, MT!ReturnToken, MT!TokenKept, MT!TokenEnds,
       MT!EvalFailed, MT!GenerationLeave, MT!Closing, MT!RewriteInPlace, MT!RewriteRun,
       MT!RewriteBySync, MT!RememberTools, MT!stopVars
  <2>. QED BY <1>4, <2>1 DEF GenerateJob, ModelOnly, requestVars, SD!vars, SD!queueVars,
              SD!workerVars, SD!clientVars
<1>5. CASE Coordinator
  <2>1. gstop' = gstop
    BY <1>5 DEF Coordinator, MT!Coordinator, MT!CoordWait, MT!CoordExit, MT!CoordCoalesce,
       MT!CoordWaitTurn, MT!CoordGather, MT!CoordLock, MT!EvalBatchOk, MT!EvalBatchFails,
       MT!EvalBatchRejected, MT!StopHalfway, MT!EndEval, MT!CoordPublish, MT!Publish,
       MT!stopVars
  <2>. QED BY <1>5, <2>1 DEF Coordinator, ModelOnly, requestVars, SD!vars, SD!queueVars,
              SD!workerVars, SD!clientVars
<1>6. CASE MainThread
  BY <1>6 DEF MainThread, JoinCoordinator, SD!MainDrain, SD!Next
<1>7. CASE StopSignal
  BY <1>7 DEF StopSignal, SD!Next
<1>. QED BY <1>1, <1>2, <1>3, <1>4, <1>5, <1>6, <1>7 DEF Next, SlotThread

\* What a step of the request plane leaves to the model plane.
LEMMA BatchedKept == [SD!Next]_(SD!vars) => UNCHANGED batched
BY DEF SD!Next, SD!vars, SD!ClientThread, SD!AnswerDirectly, SD!EnqueueRefused, SD!Enqueue,
       SD!Join, SD!ClientWake, SD!ClientDone, SD!Accept, SD!AcceptNoThread, SD!SlotWorker,
       SD!WaitForJob, SD!TakeAssigned, SD!Dequeue, SD!RunJob, SD!WorkerExit, SD!FinishJob,
       SD!Release, SD!MainDrain, SD!Listen, SD!ListenFails, SD!LeaveAcceptLoop,
       SD!SetStopping, SD!MainCancel, SD!JoinWorkers, SD!MainModelStop, SD!JoinCoordinator,
       SD!WaitClients, SD!PersistAndClose, SD!StopSignal, SD!Closed

LEMMA RequestStepsOnly ==
    ASSUME RequestOnly, UNCHANGED gstop, drain' = drain
    PROVE  UNCHANGED MT!vars
BY DEF RequestOnly, modelVars, MT!vars, MT!serverVars, MT!prefillVars, MT!decodeVars,
       MT!sessionVars, MT!slotVars, MT!coordVars, MT!stopVars

LEMMA ModelSteps == batched /\ [Next]_vars => [MT!Next]_(MT!vars)
<1>. SUFFICES ASSUME batched, [Next]_vars PROVE [MT!Next]_(MT!vars)
  OBVIOUS
<1>1. CASE UNCHANGED vars \/ Closed
  <2>1. RequestOnly /\ UNCHANGED gstop /\ drain' = drain
    BY <1>1 DEF Closed, vars, requestVars, RequestOnly, modelVars, drain
  <2>. QED BY <2>1, RequestStepsOnly
<1>2. CASE \E c \in Clients : ClientThread(c) \/ Accept(c)
  <2>1. RequestOnly /\ UNCHANGED <<gstop, mainpc>>
    BY <1>2 DEF ClientThread, Accept, SD!ClientThread, SD!Accept, SD!AcceptNoThread,
       SD!AnswerDirectly, SD!EnqueueRefused, SD!Enqueue, SD!Join, SD!ClientWake,
       SD!ClientDone
  <2>. QED BY <2>1, RequestStepsOnly DEF drain
<1>3. ASSUME NEW s \in Slots, Dispatching(s) PROVE UNCHANGED MT!vars
  <2>1. RequestOnly /\ UNCHANGED <<gstop, mainpc>>
    BY <1>3 DEF Dispatching, SD!WaitForJob, SD!WorkerExit, SD!Release
  <2>. QED BY <2>1, RequestStepsOnly DEF drain
<1>4. ASSUME NEW s \in Slots, CallGenerateJob(s) \/ GenerateJob(s) \/ ReturnFromJob(s)
      PROVE  MT!Next
  BY <1>4 DEF CallGenerateJob, GenerateJob, ReturnFromJob, MT!Next, Slots, SD!Slots, MT!Slots
<1>5. CASE Coordinator
  BY <1>5 DEF Coordinator, MT!Next
<1>6. CASE StopSignal
  BY <1>6 DEF StopSignal, MT!Next, MT!Stopping
<1>7. CASE \/ SD!ListenFails /\ MT!ListenFailed
           \/ SD!MainCancel /\ MT!CancelDecodeWaiters
           \/ SD!MainModelStop /\ MT!ModelStop
  BY <1>7 DEF MT!Next, MT!Stopping
<1>8. CASE /\ SD!Listen \/ SD!LeaveAcceptLoop \/ SD!SetStopping \/ SD!JoinWorkers
              \/ SD!JoinCoordinator \/ SD!WaitClients \/ SD!PersistAndClose
           /\ RequestOnly
  <2>1. RequestOnly /\ UNCHANGED gstop /\ drain' = drain
    BY <1>8 DEF drain, SD!MainStep, SD!Listen, SD!LeaveAcceptLoop, SD!SetStopping,
       SD!JoinWorkers, SD!JoinCoordinator, SD!WaitClients, SD!PersistAndClose
  <2>. QED BY <2>1, RequestStepsOnly
<1>9. ASSUME NEW s \in Slots, SlotThread(s)
      PROVE  [MT!Next]_(MT!vars)
  BY <1>3, <1>4, <1>9 DEF SlotThread
<1>10. CASE MainThread
  BY <1>7, <1>8, <1>10 DEF MainThread, JoinCoordinator
<1>. QED BY <1>1, <1>2, <1>5, <1>6, <1>9, <1>10 DEF Next

\* What is under server.mu behaves as SlotDispatch says, whatever the model plane
\* does: what is proved of the request plane alone holds of the server
\* (slot_worker_main, main).
THEOREM RunsRequestPlane == Spec => SD!Spec
<1>1. Init => SD!Init
  BY DEF Init
<1>. QED BY <1>1, RequestSteps, PTL DEF Spec, SD!Spec

\* What is under server.model_mu behaves as ModelTurn says: the jobs it is handed
\* and the stages of the drain are those that ModelTurn allows for
\* (generate_job, decode_worker_main, main).
THEOREM RunsModelPlane == Spec => MT!Spec
<1>1. Init => batched /\ MT!Init
  BY DEF Init
<1>2. batched /\ [Next]_vars => batched'
  BY RequestSteps, BatchedKept
<1>. QED BY <1>1, <1>2, ModelSteps, PTL DEF Spec, MT!Spec

-----------------------------------------------------------------------------
(* What the planes owe each other. *)

\* What is proved of each plane.
PlanesInv ==
    /\ RP!RefInv
    /\ MP!TurnInv /\ MP!CountInv /\ MP!BorrowInv /\ MP!WakeInv

\* A worker that has a job is in generate_job.
JobsInModel == \A s \in Slots : job[s] # NoJob <=> slot[s] # "idle"

\* The coordinator is told to stop by main, leaves with nothing to decode, and
\* main does not go on before it has.
CoordinatorJoined ==
    /\ modelStopping <=> drain = "stopping"
    /\ coord = "exited" => modelStopping /\ decodePending = 0
    /\ mainpc \in {"waitClients", "persist", "closed"} => coord = "exited"

Active == {c \in Clients : client[c] \in {"request", "wait", "close"}}

\* server.clients counts the client threads, and main waits for the last one.
ClientsCounted ==
    /\ IsFiniteSet(Active) /\ clients = Cardinality(Active)
    /\ mainpc \in {"persist", "closed"} => Active = {}

ServerInv ==
    /\ batched /\ PlanesInv
    /\ JobsInModel /\ CoordinatorJoined /\ ClientsCounted

LEMMA PlanesInit == Init => PlanesInv
<1>. SUFFICES ASSUME Init PROVE PlanesInv
  OBVIOUS
<1>1. RP!RefInv
  BY SameRequestInit, RequestsAssumption, RP!RefInvInit DEF Init, RP!INT_MAX, SD!INT_MAX
<1>2. MP!Init
  BY SameModelInit DEF Init
<1>3. MP!TypeInv /\ MP!TurnExclusive /\ MP!PendingCounted
  BY <1>2, RequestsAssumption, ModelAssumption, MP!TypeInvInit, MP!TurnInit, MP!CountInit
     DEF MP!Stages, MT!Stages
<1>4. MP!BatchInFlight /\ MP!UnansweredInEval
  BY <1>2, RequestsAssumption, ModelAssumption, MP!BorrowInit DEF MP!Stages, MT!Stages
<1>5. MP!SleepersBlocked /\ MP!DrainedIdle /\ MP!NoLostModelWakeup
  BY <1>2, RequestsAssumption, ModelAssumption, MP!WakeInit DEF MP!Stages, MT!Stages
<1>. QED BY <1>1, <1>3, <1>4, <1>5
         DEF PlanesInv, MP!TurnInv, MP!CountInv, MP!BorrowInv, MP!WakeInv

LEMMA PlanesNext == batched /\ PlanesInv /\ [Next]_vars => PlanesInv'
<1>. SUFFICES ASSUME batched, PlanesInv, [Next]_vars PROVE PlanesInv'
  OBVIOUS
<1>1. RP!RefInv'
  BY RequestSteps, SameRequestNext, RequestsAssumption, RP!RefInvNext
     DEF PlanesInv, RP!INT_MAX, SD!INT_MAX
<1>2. [MP!Next]_(MP!vars)
  BY ModelSteps, SameModelNext
<1>3. MP!TurnInv' /\ MP!CountInv'
  BY <1>2, RequestsAssumption, ModelAssumption, MP!TurnNext, MP!CountNext
     DEF PlanesInv, MP!Stages, MT!Stages
<1>4. MP!BorrowInv' /\ MP!WakeInv'
  BY <1>2, RequestsAssumption, ModelAssumption, MP!BorrowNext, MP!WakeNext
     DEF PlanesInv, MP!Stages, MT!Stages
<1>. QED BY <1>1, <1>3, <1>4 DEF PlanesInv

\* A thread in generate_job stays there until JobFinish, and only main tells the
\* coordinator to stop.
LEMMA InJobStays ==
    ASSUME MP!TypeInv, NEW s \in MP!Slots, MP!InJob(s)
    PROVE  slot[s] # "idle" /\ slot'[s] # "idle" /\ UNCHANGED modelStopping
<1>. USE DEF MP!TypeInv, MP!TypeOK, MP!Step, MP!At, MP!Goto, MP!serverVars, MP!slotVars,
             MP!BeginSync
<1>1. CASE MP!JobReject(s) \/ MP!JobPrepare(s)
  BY <1>1 DEF MP!JobReject, MP!JobPrepare
<1>2. CASE MP!Prefilling(s)
  BY <1>2 DEF MP!Prefilling, MP!ChooseQuantum, MP!SyncInterrupted, MP!AskTurn, MP!WaitTurn,
     MP!PrefillEnter, MP!TakeTurn, MP!PrefillAbandon, MP!AfterFailedSync, MP!HoldingTurn,
     MP!PrefillLock, MP!PrefillRun, MP!PrefillLeave, MP!LeaveTurn, MP!AfterChunk
<1>3. CASE MP!Decoding(s)
  BY <1>3 DEF MP!Decoding, MP!HeadersFail, MP!GenerationEnter, MP!LoopHead, MP!DecodeEnds,
     MP!EvalSubmit, MP!SubmitToken, MP!GiveUp, MP!EvalWait, MP!ReturnToken, MP!TokenKept,
     MP!TokenEnds, MP!EvalFailed, MP!EvalReturn, MP!GenerationLeave
<1>4. CASE MP!Closing(s)
  BY <1>4 DEF MP!Closing, MP!RewriteInPlace, MP!ToRewrite, MP!RewriteRun, MP!RewriteBySync,
     MP!RememberTools
<1>. QED BY <1>1, <1>2, <1>3, <1>4 DEF MP!InJob

\* A worker takes a job or gives it back only together with generate_job.
LEMMA JobsKeep ==
    ASSUME ServerInv, [Next]_vars
    PROVE  JobsInModel'
<1>. USE DEF ServerInv, JobsInModel
<1>1. RP!TypeOK /\ MP!TypeInv
  BY DEF PlanesInv, RP!RefInv, RP!OwnInv, RP!SlotInv, MP!TurnInv
<1>2. job \in [Slots -> Clients \cup {NoJob}] /\ slot \in [Slots -> MP!SlotStates]
  BY <1>1 DEF RP!TypeOK, MP!TypeInv, MP!TypeOK, Slots, SD!Slots, RP!Slots, MP!Slots
<1>3. CASE UNCHANGED vars \/ Closed
  BY <1>3 DEF Closed, vars, requestVars, modelVars
<1>4. CASE \E c \in Clients : ClientThread(c) \/ Accept(c)
  BY <1>4 DEF ClientThread, Accept, RequestOnly, modelVars, SD!ClientThread, SD!Accept,
     SD!AcceptNoThread, SD!AnswerDirectly, SD!EnqueueRefused, SD!Enqueue, SD!Join,
     SD!ClientWake, SD!ClientDone, SD!workerVars
<1>5. ASSUME NEW s \in Slots, Dispatching(s) PROVE JobsInModel'
  BY <1>5 DEF Dispatching, RequestOnly, modelVars, SD!WaitForJob, SD!WorkerExit, SD!Release,
     SD!workerVars
<1>6. ASSUME NEW s \in Slots, CallGenerateJob(s) PROVE JobsInModel'
  <2>1. job' = [job EXCEPT ![s] = assigned[s]] /\ assigned[s] # NoJob
    BY <1>6 DEF CallGenerateJob, SD!TakeAssigned, SD!RunJob
  <2>2. slot' = [slot EXCEPT ![s] = "begin"]
    BY <1>6 DEF CallGenerateJob, MT!JobBegin, MT!Step, MT!Goto
  <2>. QED BY <1>2, <2>1, <2>2
<1>7. ASSUME NEW s \in Slots, GenerateJob(s) PROVE JobsInModel'
  <2>1. s \in MP!Slots /\ MP!InJob(s)
    BY <1>7, SameInJob DEF GenerateJob, Slots, SD!Slots, MP!Slots
  <2>2. slot[s] # "idle" /\ slot'[s] # "idle"
    BY <1>1, <2>1, InJobStays
  <2>3. \A t \in Slots \ {s} : slot'[t] = slot[t]
    BY <1>1, <2>1, RequestsAssumption, ModelAssumption, MP!SlotLeavesOthers
       DEF Slots, SD!Slots, MP!Slots, MP!Stages, MT!Stages
  <2>4. job' = job
    BY <1>7 DEF GenerateJob, ModelOnly, requestVars
  <2>. QED BY <2>2, <2>3, <2>4
<1>8. ASSUME NEW s \in Slots, ReturnFromJob(s) PROVE JobsInModel'
  <2>1. job' = [job EXCEPT ![s] = NoJob]
    BY <1>8 DEF ReturnFromJob, SD!FinishJob
  <2>2. slot' = [slot EXCEPT ![s] = "idle"]
    BY <1>8 DEF ReturnFromJob, MT!JobFinish, MT!Goto
  <2>. QED BY <1>2, <2>1, <2>2
<1>9. CASE Coordinator
  BY <1>9 DEF Coordinator, ModelOnly, requestVars, MT!Coordinator, MT!CoordWait, MT!CoordExit,
     MT!CoordCoalesce, MT!CoordWaitTurn, MT!CoordGather, MT!CoordLock, MT!EvalBatchOk,
     MT!EvalBatchFails, MT!EvalBatchRejected, MT!StopHalfway, MT!EndEval, MT!CoordPublish,
     MT!Publish, MT!slotVars
<1>10. CASE MainThread \/ StopSignal
  <2>1. UNCHANGED job
    BY <1>10 DEF MainThread, JoinCoordinator, StopSignal, SD!Listen, SD!ListenFails,
       SD!LeaveAcceptLoop, SD!SetStopping, SD!MainCancel, SD!JoinWorkers,
       SD!MainModelStop, SD!JoinCoordinator, SD!WaitClients, SD!PersistAndClose,
       SD!StopSignal, SD!workerVars
  <2>2. UNCHANGED slot
    BY <1>10 DEF MainThread, JoinCoordinator, StopSignal, RequestOnly, modelVars,
       MT!ListenFailed, MT!CancelDecodeWaiters, MT!Cancel, MT!ModelStop, MT!StopModel,
       MT!StopSignal, MT!slotVars
  <2>. QED BY <2>1, <2>2
<1>. QED BY <1>3, <1>4, <1>5, <1>6, <1>7, <1>8, <1>9, <1>10 DEF Next, SlotThread

\* Once main has stopped the model plane nobody is in generate_job, so nothing
\* is left for the coordinator to decode.
LEMMA CoordinatorKeeps ==
    ASSUME ServerInv, [Next]_vars
    PROVE  CoordinatorJoined'
<1>. USE DEF ServerInv, CoordinatorJoined
<1>1. MP!TypeInv /\ MP!DrainedIdle
  BY DEF PlanesInv, MP!TurnInv, MP!WakeInv
<1>2. drain = "stopping" => \A s \in Slots : slot[s] = "idle"
  BY <1>1 DEF MP!DrainedIdle, Slots, SD!Slots, MP!Slots
<1>3. CASE UNCHANGED <<mainpc, coord, modelStopping, decodePending>>
  BY <1>3 DEF drain
<1>4. CASE UNCHANGED vars \/ Closed
  BY <1>3, <1>4 DEF Closed, vars, requestVars, modelVars
<1>5. CASE \E c \in Clients : ClientThread(c) \/ Accept(c)
  BY <1>3, <1>5 DEF ClientThread, Accept, RequestOnly, modelVars, SD!ClientThread, SD!Accept,
     SD!AcceptNoThread, SD!AnswerDirectly, SD!EnqueueRefused, SD!Enqueue, SD!Join,
     SD!ClientWake, SD!ClientDone
<1>6. ASSUME NEW s \in Slots, Dispatching(s) PROVE CoordinatorJoined'
  BY <1>3, <1>6 DEF Dispatching, RequestOnly, modelVars, SD!WaitForJob, SD!WorkerExit,
     SD!Release
<1>7. ASSUME NEW s \in Slots, CallGenerateJob(s) \/ ReturnFromJob(s) PROVE CoordinatorJoined'
  BY <1>3, <1>7 DEF CallGenerateJob, ReturnFromJob, SD!TakeAssigned, SD!RunJob, SD!FinishJob,
     MT!JobBegin, MT!JobFinish, MT!serverVars, MT!coordVars
<1>8. ASSUME NEW s \in Slots, GenerateJob(s) PROVE CoordinatorJoined'
  <2>1. s \in MP!Slots /\ MP!InJob(s)
    BY <1>8, SameInJob DEF GenerateJob, Slots, SD!Slots, MP!Slots
  <2>2. slot[s] # "idle" /\ UNCHANGED modelStopping
    BY <1>1, <2>1, InJobStays
  <2>3. UNCHANGED coord
    BY <1>1, <2>1, RequestsAssumption, ModelAssumption, MP!SlotLeavesOthers
       DEF MP!coordVars, MP!Stages, MT!Stages
  <2>4. UNCHANGED mainpc
    BY <1>8 DEF GenerateJob, ModelOnly, requestVars
  <2>5. drain # "stopping" /\ ~modelStopping /\ coord # "exited"
    BY <1>2, <1>8, <2>2
  <2>. QED BY <2>2, <2>3, <2>4, <2>5 DEF drain
<1>9. CASE Coordinator
  <2>1. UNCHANGED <<mainpc, modelStopping>>
    BY <1>9 DEF Coordinator, ModelOnly, requestVars, MT!Coordinator, MT!CoordWait,
       MT!CoordExit, MT!CoordCoalesce, MT!CoordWaitTurn, MT!CoordGather, MT!CoordLock,
       MT!EvalBatchOk, MT!EvalBatchFails, MT!EvalBatchRejected, MT!StopHalfway, MT!EndEval,
       MT!CoordPublish, MT!Publish, MT!serverVars
  <2>2. coord # "exited"
    BY <1>9 DEF Coordinator, MT!Coordinator, MT!CoordAt, MT!ReadyToGather, MT!CoordWait,
       MT!CoordExit, MT!CoordCoalesce, MT!CoordWaitTurn, MT!CoordGather, MT!CoordLock,
       MT!EvalBatchOk, MT!EvalBatchFails, MT!EvalBatchRejected, MT!StopHalfway, MT!EndEval,
       MT!CoordPublish, MT!Publish
  <2>3. coord' = "exited" => modelStopping /\ decodePending = 0 /\ UNCHANGED decodePending
    BY <1>9 DEF Coordinator, MT!Coordinator, MT!CoordWait, MT!CoordExit, MT!CoordCoalesce,
       MT!CoordWaitTurn, MT!CoordGather, MT!CoordLock, MT!EvalBatchOk, MT!EvalBatchFails,
       MT!EvalBatchRejected, MT!StopHalfway, MT!EndEval, MT!CoordPublish, MT!Publish,
       MT!CoordAt, MT!serverVars, MT!coordVars
  <2>. QED BY <2>1, <2>2, <2>3 DEF drain
<1>10. CASE StopSignal
  BY <1>3, <1>10 DEF StopSignal, SD!StopSignal, MT!StopSignal, MT!serverVars, MT!coordVars
<1>11. CASE MainThread
  <2>1. CASE SD!Listen \/ SD!LeaveAcceptLoop \/ SD!SetStopping \/ SD!JoinWorkers
             \/ SD!WaitClients \/ SD!PersistAndClose \/ JoinCoordinator
    <3>1. UNCHANGED <<coord, modelStopping, decodePending>>
      BY <1>11, <2>1 DEF MainThread, JoinCoordinator, RequestOnly, modelVars, SD!MainStep,
         SD!Listen, SD!ListenFails, SD!LeaveAcceptLoop, SD!SetStopping, SD!MainCancel,
         SD!JoinWorkers, SD!MainModelStop, SD!WaitClients, SD!PersistAndClose,
         SD!JoinCoordinator
    <3>2. drain' = drain
          /\ (mainpc' \in {"waitClients", "persist", "closed"} => coord = "exited")
      BY <2>1 DEF JoinCoordinator, SD!MainStep, SD!Listen, SD!LeaveAcceptLoop,
         SD!SetStopping, SD!JoinWorkers, SD!JoinCoordinator, SD!WaitClients,
         SD!PersistAndClose, drain
    <3>. QED BY <3>1, <3>2
  <2>2. CASE SD!ListenFails /\ MT!ListenFailed
    BY <2>2 DEF SD!ListenFails, SD!MainStep, MT!ListenFailed, MT!serverVars, MT!coordVars, drain
  <2>3. CASE SD!MainCancel /\ MT!CancelDecodeWaiters
    BY <2>3 DEF SD!MainCancel, SD!MainStep, MT!CancelDecodeWaiters, MT!Cancel, MT!coordVars,
       drain
  <2>4. CASE SD!MainModelStop /\ MT!ModelStop
    BY <2>4 DEF SD!MainModelStop, SD!MainStep, MT!ModelStop, MT!StopModel, MT!coordVars, drain
  <2>. QED BY <1>11, <2>1, <2>2, <2>3, <2>4 DEF MainThread
<1>. QED BY <1>4, <1>5, <1>6, <1>7, <1>8, <1>9, <1>10, <1>11 DEF Next, SlotThread

\* Every client thread is counted until it is gone, and none comes after main has
\* left the accept loop.
LEMMA ClientsKeep ==
    ASSUME ServerInv, [Next]_vars
    PROVE  ClientsCounted'
<1>. USE DEF ServerInv, ClientsCounted
<1>1. client \in [Clients -> SD!ClientStates] /\ clients \in Nat
  BY DEF PlanesInv, RP!RefInv, RP!OwnInv, RP!SlotInv, RP!TypeOK, RP!ClientStates, SD!ClientStates
<1>2. CASE Active' = Active /\ UNCHANGED <<clients, mainpc>>
  BY <1>2
<1>3. CASE UNCHANGED <<client, clients, mainpc>>
  BY <1>2, <1>3 DEF Active
<1>4. CASE UNCHANGED vars \/ Closed
  BY <1>3, <1>4 DEF Closed, vars, requestVars
<1>5. ASSUME NEW c \in Clients, ClientThread(c) PROVE ClientsCounted'
  <2>1. CASE SD!AnswerDirectly(c) \/ SD!EnqueueRefused(c)
    BY <1>1, <1>2, <2>1 DEF SD!AnswerDirectly, SD!EnqueueRefused, Active
  <2>2. CASE SD!Enqueue(c)
    BY <1>1, <1>2, <2>2 DEF SD!Enqueue, SD!Join, Active
  <2>3. CASE SD!ClientWake(c)
    BY <1>1, <1>2, <2>3 DEF SD!ClientWake, Active
  <2>4. CASE SD!ClientDone(c)
    <3>1. c \in Active /\ Active' = Active \ {c}
      BY <1>1, <2>4 DEF SD!ClientDone, Active
    <3>2. Cardinality(Active \ {c}) = Cardinality(Active) - 1 /\ IsFiniteSet(Active \ {c})
      BY <3>1, FS_RemoveElement
    <3>3. clients # 0
      BY <3>1, FS_EmptySet
    <3>4. clients' = clients - 1 /\ UNCHANGED mainpc
      BY <1>1, <2>4, <3>3 DEF SD!ClientDone
    <3>. QED BY <3>1, <3>2, <3>4
  <2>. QED BY <1>5, <2>1, <2>2, <2>3, <2>4 DEF ClientThread, SD!ClientThread
<1>6. ASSUME NEW c \in Clients, Accept(c) PROVE ClientsCounted'
  <2>1. CASE SD!Accept(c)
    <3>1. c \notin Active /\ Active' = Active \cup {c}
      BY <1>1, <2>1 DEF SD!Accept, Active
    <3>2. Cardinality(Active \cup {c}) = Cardinality(Active) + 1 /\ IsFiniteSet(Active \cup {c})
      BY <3>1, FS_AddElement
    <3>. QED BY <2>1, <3>1, <3>2 DEF SD!Accept
  <2>2. CASE SD!AcceptNoThread(c)
    BY <1>1, <1>2, <2>2 DEF SD!AcceptNoThread, Active
  <2>. QED BY <1>6, <2>1, <2>2 DEF Accept
<1>7. ASSUME NEW s \in Slots, SlotThread(s) PROVE ClientsCounted'
  BY <1>3, <1>7 DEF SlotThread, Dispatching, CallGenerateJob, GenerateJob, ReturnFromJob,
     ModelOnly, requestVars, SD!WaitForJob, SD!WorkerExit, SD!Release, SD!TakeAssigned,
     SD!RunJob, SD!FinishJob, SD!clientVars
<1>8. CASE Coordinator
  BY <1>3, <1>8 DEF Coordinator, ModelOnly, requestVars
<1>9. CASE StopSignal
  BY <1>3, <1>9 DEF StopSignal, SD!StopSignal, SD!clientVars
<1>10. CASE MainThread
  <2>1. UNCHANGED <<client, clients>>
    BY <1>10 DEF MainThread, JoinCoordinator, SD!Listen, SD!ListenFails, SD!LeaveAcceptLoop,
       SD!SetStopping, SD!MainCancel, SD!JoinWorkers, SD!MainModelStop, SD!JoinCoordinator,
       SD!WaitClients, SD!PersistAndClose, SD!clientVars
  <2>2. mainpc' \in {"persist", "closed"} => mainpc \in {"persist", "closed"} \/ clients = 0
    BY <1>10 DEF MainThread, JoinCoordinator, SD!MainStep, SD!Listen, SD!ListenFails,
       SD!LeaveAcceptLoop, SD!SetStopping, SD!MainCancel, SD!JoinWorkers,
       SD!MainModelStop, SD!JoinCoordinator, SD!WaitClients, SD!PersistAndClose
  <2>3. clients = 0 => Active = {}
    BY FS_EmptySet
  <2>. QED BY <2>1, <2>2, <2>3 DEF Active
<1>. QED BY <1>4, <1>5, <1>6, <1>7, <1>8, <1>9, <1>10 DEF Next

LEMMA ServerInvAlways == Spec => []ServerInv
<1>1. Init => ServerInv
  <2>. SUFFICES ASSUME Init PROVE ServerInv
    OBVIOUS
  <2>1. JobsInModel
    BY DEF Init, SD!Init, MT!Init, JobsInModel, Slots, SD!Slots, MT!Slots
  <2>2. CoordinatorJoined
    BY DEF Init, SD!Init, MT!Init, CoordinatorJoined, drain
  <2>3. Active = {} /\ clients = 0
    BY DEF Init, SD!Init, Active
  <2>4. ClientsCounted
    BY <2>3, FS_EmptySet DEF ClientsCounted
  <2>. QED BY <2>1, <2>2, <2>4, PlanesInit DEF Init, ServerInv
<1>2. ServerInv /\ [Next]_vars => ServerInv'
  <2>1. batched /\ [Next]_vars => batched'
    BY RequestSteps, BatchedKept
  <2>. QED BY <2>1, PlanesNext, JobsKeep, CoordinatorKeeps, ClientsKeep DEF ServerInv
<1>. QED BY <1>1, <1>2, PTL DEF Spec

-----------------------------------------------------------------------------
(* What follows for the server. *)

\* When main stores the sessions and destroys the locks and the engine, every
\* thread that could use them has ended, for any number of slots and clients,
\* wherever the stop signal came (main, server_close_resources).
THEOREM NobodyIsLeft == Spec => []PersistsAtRest
<1>1. ServerInv => PersistsAtRest
  <2>. SUFFICES ASSUME ServerInv, mainpc \in {"persist", "closed"}
       PROVE  /\ coord = "exited" /\ infer = -1
              /\ \A s \in Slots : worker[s] = "exited" /\ ~pending[s] /\ ~inFlight[s]
              /\ \A c \in Clients : client[c] \in {"none", "gone"}
    BY DEF PersistsAtRest
  <2>. USE DEF ServerInv, PlanesInv
  <2>1. coord = "exited" /\ decodePending = 0
    BY DEF CoordinatorJoined
  <2>2. \A s \in Slots : worker[s] = "exited"
    BY DEF RP!RefInv, RP!Drained, Slots, SD!Slots, RP!Slots
  <2>3. \A s \in Slots : slot[s] = "idle"
    BY <2>2 DEF RP!RefInv, RP!OwnInv, RP!Progress, JobsInModel, Slots, SD!Slots, RP!Slots
  <2>4. infer = -1
    BY <2>1, <2>3 DEF MP!TurnInv, MP!TypeInv, MP!TypeOK, MP!TurnExclusive, MP!Free, Slots,
       SD!Slots, MP!Slots
  <2>5. \A s \in Slots : ~pending[s]
    <3>1. IsFiniteSet(MP!PendingSlots) /\ Cardinality(MP!PendingSlots) = 0
      <4>1. MP!Slots = 0 .. N - 1 /\ IsFiniteSet(0 .. N - 1)
        BY RequestsAssumption, FS_Interval DEF MP!Slots
      <4>2. IsFiniteSet(MP!PendingSlots)
        BY <4>1, FS_Subset DEF MP!PendingSlots
      <4>. QED BY <2>1, <4>2, SameCount DEF MP!CountInv, MP!PendingCounted
    <3>2. MP!PendingSlots = {}
      BY <3>1, FS_EmptySet
    <3>. QED BY <3>2 DEF MP!PendingSlots, Slots, SD!Slots, MP!Slots
  <2>6. \A s \in Slots : ~inFlight[s]
    BY <2>1 DEF MP!BorrowInv, MP!BatchInFlight, MP!CoordInTurn, Slots, SD!Slots, MP!Slots
  <2>7. \A c \in Clients : client[c] \in {"none", "gone"}
    BY DEF ClientsCounted, Active, RP!RefInv, RP!OwnInv, RP!SlotInv, RP!TypeOK,
       RP!ClientStates
  <2>. QED BY <2>1, <2>2, <2>4, <2>5, <2>6, <2>7
<1>. QED BY <1>1, ServerInvAlways, PTL

\* The coordinator evaluates tokens only for a job whose client thread is still
\* blocked on it: neither the reply nor the job it would touch is gone
\* (server_eval_token, client_main).
THEOREM TokensHaveClients == Spec => []ModelWorksForClients
<1>1. ServerInv => ModelWorksForClients
  <2>. SUFFICES ASSUME ServerInv, NEW s \in Slots
       PROVE  /\ (job[s] # NoJob) = (slot[s] # "idle")
              /\ ~gstop /\ (pending[s] \/ inFlight[s]) =>
                    job[s] # NoJob /\ client[job[s]] = "wait"
    BY DEF ModelWorksForClients
  <2>. USE DEF ServerInv, PlanesInv
  <2>1. job[s] # NoJob <=> slot[s] # "idle"
    BY DEF JobsInModel
  <2>2. ASSUME ~gstop, pending[s] \/ inFlight[s] PROVE job[s] # NoJob /\ client[job[s]] = "wait"
    <3>1. slot[s] = "await"
      BY <2>2 DEF MP!BorrowInv, MP!UnansweredInEval, Slots, SD!Slots, MP!Slots
    <3>2. job[s] # NoJob /\ worker[s] = "run"
      BY <2>1, <3>1 DEF RP!RefInv, RP!OwnInv, RP!Progress, Slots, SD!Slots, RP!Slots
    <3>3. job[s] \in Clients
      BY <3>2 DEF RP!RefInv, RP!OwnInv, RP!SlotInv, RP!BusyWhileOwned, Slots, SD!Slots, RP!Slots
    <3>4. RP!Held(queue, assigned, job, job[s])
      BY DEF RP!Held, Slots, SD!Slots, RP!Slots
    <3>. QED BY <3>2, <3>3, <3>4 DEF RP!RefInv, RP!OwnInv, RP!HeldWhileWaiting, RP!Waiting
  <2>. QED BY <2>1, <2>2
<1>. QED BY <1>1, ServerInvAlways, PTL
=============================================================================
