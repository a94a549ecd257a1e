--------------------------- MODULE ModelTurnProofs ---------------------------
(***************************************************************************)
(* Facts about the model plane that hold for any number of slots and any   *)
(* length of prompts and replies.                                          *)
(***************************************************************************)
EXTENDS ModelTurn, FiniteSetTheorems, TLAPS

-----------------------------------------------------------------------------
(* Types. *)

\* A slot asks for the turn only while its sync has quanta left.
QuantaLeft ==
    \A s \in Slots :
        slot[s] \in {"sync", "ask", "enter", "turn", "prefill"} => todo[s] > 0

TypeInv == TypeOK /\ QuantaLeft

\* A set of slots can be counted.
LEMMA CountSlots ==
    ASSUME NEW S \in SUBSET Slots
    PROVE  IsFiniteSet(S) /\ Cardinality(S) \in Nat
<1>1. IsFiniteSet(Slots)
  BY NAssumption, FS_Interval DEF Slots
<1>. QED BY <1>1, FS_Subset, FS_CardinalityType

LEMMA TypeInvInit == Init => TypeInv
<1>. SUFFICES ASSUME Init PROVE TypeInv
  OBVIOUS
<1>1. N - 1 \in Slots /\ 0 \in Failed .. MaxQuanta
  BY NAssumption, BoundsAssumption DEF Slots, Failed
<1>2. modelBusy \in BOOLEAN /\ modelStopping \in BOOLEAN /\ gstop \in BOOLEAN
  BY Zenon DEF Init
<1>3. TypeOK
  BY <1>1, <1>2 DEF Init, TypeOK, SlotStates, CoordStates, Stages
<1>4. QuantaLeft
  BY DEF Init, QuantaLeft
<1>. QED BY <1>3, <1>4 DEF TypeInv

\* A new sync has a quantum to run.
LEMMA BeginSyncTypes ==
    ASSUME TypeInv, NEW s \in Slots, NEW st \in Stages, BeginSync(s, st)
    PROVE  /\ slot' \in [Slots -> SlotStates]
           /\ stage' \in [Slots -> Stages]
           /\ todo' \in [Slots -> Failed .. MaxQuanta]
           /\ QuantaLeft'
<1>1. PICK q \in 1 .. MaxQuanta : todo' = [todo EXCEPT ![s] = q]
  BY DEF BeginSync
<1>2. q \in Failed .. MaxQuanta /\ q > 0
  BY BoundsAssumption DEF Failed
<1>. QED BY <1>1, <1>2 DEF BeginSync, Goto, TypeInv, TypeOK, QuantaLeft, SlotStates

LEMMA SessionTypes ==
    ASSUME TypeInv, NEW s \in Slots,
           KeepSession(s) \/ DropSession(s) \/ RenewSession(s)
    PROVE  /\ valid' \in [Slots -> BOOLEAN]
           /\ evals' \in [Slots -> Nat]
           /\ kept' \in [Slots -> Nat]
<1>1. valid' \in [Slots -> BOOLEAN]
  BY DEF KeepSession, DropSession, RenewSession, TypeInv, TypeOK
<1>2. evals' \in [Slots -> Nat]
  BY DEF KeepSession, DropSession, RenewSession, TypeInv, TypeOK
<1>3. kept' \in [Slots -> Nat]
  BY DEF KeepSession, DropSession, RenewSession, TypeInv, TypeOK
<1>. QED BY <1>1, <1>2, <1>3

LEMMA PrefillKeepsTypes ==
    ASSUME TypeInv, NEW s \in Slots,
           JobBegin(s) \/ JobReject(s) \/ JobPrepare(s) \/ Prefilling(s)
    PROVE  TypeInv'
<1>. USE DEF TypeInv, TypeOK, QuantaLeft, SlotStates, Stages, serverVars, prefillVars,
        decodeVars, sessionVars, slotVars, coordVars, stopVars, Step, At, Goto
<1>1. CASE JobBegin(s)
  BY <1>1 DEF JobBegin
<1>2. CASE JobReject(s)
  BY <1>2 DEF JobReject
<1>3. CASE JobPrepare(s)
  <2>1. \E st \in Stages : BeginSync(s, st)
    BY <1>3 DEF JobPrepare
  <2>2. /\ slot' \in [Slots -> SlotStates]
        /\ stage' \in [Slots -> Stages]
        /\ todo' \in [Slots -> Failed .. MaxQuanta]
        /\ QuantaLeft'
    BY <2>1, BeginSyncTypes
  <2>3. /\ valid' \in [Slots -> BOOLEAN]
        /\ evals' \in [Slots -> Nat]
        /\ kept' \in [Slots -> Nat]
    BY <1>3, SessionTypes DEF JobPrepare
  <2>. QED BY <1>3, <2>2, <2>3 DEF JobPrepare
<1>4. CASE ChooseQuantum(s)
  BY <1>4 DEF ChooseQuantum
<1>5. CASE SyncInterrupted(s)
  BY <1>5 DEF SyncInterrupted, AfterFailedSync
<1>6. CASE AskTurn(s)
  BY <1>6 DEF AskTurn
<1>7. CASE WaitTurn(s)
  BY <1>7 DEF WaitTurn, Sleep
<1>8. CASE PrefillEnter(s)
  BY <1>8 DEF PrefillEnter, TakeTurn, Broadcast
<1>9. CASE PrefillAbandon(s)
  BY <1>9 DEF PrefillAbandon, AfterFailedSync, Broadcast
<1>10. CASE PrefillLock(s)
  BY <1>10 DEF PrefillLock
<1>11. CASE PrefillRun(s)
  <2>1. /\ valid' \in [Slots -> BOOLEAN]
        /\ evals' \in [Slots -> Nat]
        /\ kept' \in [Slots -> Nat]
    BY <1>11, SessionTypes DEF PrefillRun
  <2>2. todo[s] - 1 \in Failed .. MaxQuanta /\ Failed \in Failed .. MaxQuanta
    BY <1>11, BoundsAssumption DEF PrefillRun, Failed
  <2>3. todo' \in [Slots -> Failed .. MaxQuanta]
    BY <1>11, <2>2 DEF PrefillRun
  <2>4. QuantaLeft'
    BY <1>11 DEF PrefillRun
  <2>. QED BY <1>11, <2>1, <2>3, <2>4 DEF PrefillRun
<1>12. CASE PrefillLeave(s)
  <2>1. CASE BeginSync(s, "prompt")
    <3>1. /\ slot' \in [Slots -> SlotStates]
          /\ stage' \in [Slots -> Stages]
          /\ todo' \in [Slots -> Failed .. MaxQuanta]
          /\ QuantaLeft'
      BY <2>1, BeginSyncTypes
    <3>. QED BY <1>12, <3>1 DEF PrefillLeave, LeaveTurn, Broadcast
  <2>2. CASE ~BeginSync(s, "prompt")
    BY <1>12, <2>2 DEF PrefillLeave, LeaveTurn, Broadcast, AfterChunk, AfterFailedSync
  <2>. QED BY <2>1, <2>2
<1>. QED BY <1>1, <1>2, <1>3, <1>4, <1>5, <1>6, <1>7, <1>8, <1>9, <1>10, <1>11, <1>12
         DEF Prefilling, HoldingTurn

LEMMA DecodeKeepsTypes ==
    ASSUME TypeInv, NEW s \in Slots,
           Decoding(s) \/ Closing(s) \/ JobFinish(s)
    PROVE  TypeInv'
<1>. USE DEF TypeInv, TypeOK, QuantaLeft, SlotStates, Stages, serverVars, prefillVars,
        decodeVars, sessionVars, slotVars, coordVars, stopVars, Step, At, Goto
<1>1. CASE HeadersFail(s)
  BY <1>1 DEF HeadersFail
<1>2. CASE GenerationEnter(s)
  BY <1>2 DEF GenerationEnter, LoopHead, Broadcast
<1>3. CASE DecodeEnds(s)
  BY <1>3 DEF DecodeEnds
<1>4. Failed \in Failed .. MaxQuanta /\ 0 \in Failed .. MaxQuanta
  BY BoundsAssumption DEF Failed
<1>5. CASE EvalSubmit(s) /\ (pending[s] \/ inFlight[s])
  BY <1>4, <1>5 DEF EvalSubmit, GiveUp
<1>6. CASE EvalSubmit(s) /\ ~(pending[s] \/ inFlight[s])
  <2>1. SubmitToken(s)
    BY <1>6 DEF EvalSubmit
  <2>2. /\ slot' \in [Slots -> SlotStates]
        /\ todo' \in [Slots -> Failed .. MaxQuanta]
        /\ mcvWait' \in SUBSET (Slots \cup {Coord})
    BY <1>4, <2>1 DEF SubmitToken, GiveUp, Broadcast
  <2>3. QuantaLeft'
    BY <1>4, <2>1 DEF SubmitToken, GiveUp, Broadcast
  <2>4. /\ decodePending' \in Int
        /\ pending' \in [Slots -> BOOLEAN]
        /\ decodeDone' \in [Slots -> BOOLEAN]
        /\ decodeRc' \in [Slots -> 0 .. 1]
    BY <2>1 DEF SubmitToken
  <2>. QED BY <1>6, <2>2, <2>3, <2>4 DEF EvalSubmit
<1>7. CASE EvalWait(s)
  BY <1>7 DEF EvalWait, Sleep
<1>8. CASE TokenKept(s)
  BY <1>8 DEF TokenKept, EvalReturn, LoopHead
<1>9. CASE TokenEnds(s)
  <2>1. PICK v \in BOOLEAN : valid' = [valid EXCEPT ![s] = v]
    BY <1>9 DEF TokenEnds
  <2>2. valid' \in [Slots -> BOOLEAN]
    BY <2>1
  <2>. QED BY <1>9, <2>2 DEF TokenEnds, EvalReturn
<1>10. CASE EvalFailed(s)
  BY <1>4, <1>10 DEF EvalFailed, EvalReturn, GiveUp
<1>11. CASE GenerationLeave(s)
  BY <1>11 DEF GenerationLeave, Broadcast
<1>12. CASE RewriteInPlace(s)
  BY <1>12 DEF RewriteInPlace, ToRewrite
<1>13. CASE RewriteRun(s)
  <2>1. /\ valid' \in [Slots -> BOOLEAN]
        /\ evals' \in [Slots -> Nat]
        /\ kept' \in [Slots -> Nat]
    BY <1>13, SessionTypes DEF RewriteRun
  <2>. QED BY <1>13, <2>1 DEF RewriteRun
<1>14. CASE RewriteBySync(s)
  <2>1. BeginSync(s, "canon") /\ "canon" \in Stages
    BY <1>14 DEF RewriteBySync, Stages
  <2>2. /\ slot' \in [Slots -> SlotStates]
        /\ stage' \in [Slots -> Stages]
        /\ todo' \in [Slots -> Failed .. MaxQuanta]
        /\ QuantaLeft'
    BY <2>1, BeginSyncTypes
  <2>3. /\ valid' \in [Slots -> BOOLEAN]
        /\ evals' \in [Slots -> Nat]
        /\ kept' \in [Slots -> Nat]
    BY <1>14, SessionTypes DEF RewriteBySync
  <2>. QED BY <1>14, <2>2, <2>3 DEF RewriteBySync
<1>15. CASE RememberTools(s)
  <2>1. BeginSync(s, "remember") /\ "remember" \in Stages
    BY <1>15 DEF RememberTools, Stages
  <2>2. /\ slot' \in [Slots -> SlotStates]
        /\ stage' \in [Slots -> Stages]
        /\ todo' \in [Slots -> Failed .. MaxQuanta]
        /\ QuantaLeft'
    BY <2>1, BeginSyncTypes
  <2>. QED BY <1>15, <2>2 DEF RememberTools
<1>16. CASE JobFinish(s)
  BY <1>4, <1>16 DEF JobFinish
<1>. QED BY <1>1, <1>2, <1>3, <1>5, <1>6, <1>7, <1>8, <1>9, <1>10, <1>11, <1>12, <1>13,
            <1>14, <1>15, <1>16 DEF Decoding, ReturnToken, Closing

LEMMA CoordinatorKeepsTypes ==
    ASSUME TypeInv, Coordinator
    PROVE  TypeInv'
<1>. USE DEF TypeInv, TypeOK, QuantaLeft, CoordStates, serverVars, prefillVars, decodeVars,
        sessionVars, slotVars, coordVars, stopVars, CoordAt
<1>1. CASE CoordWait
  BY <1>1 DEF CoordWait, Sleep
<1>2. CASE CoordExit
  BY <1>2 DEF CoordExit
<1>3. CASE CoordCoalesce
  BY <1>3 DEF CoordCoalesce
<1>4. CASE CoordWaitTurn
  BY <1>4 DEF CoordWaitTurn, Sleep
<1>5. CASE CoordGather
  <2>1. decodePending' \in Int
    BY <1>5, CountSlots DEF CoordGather
  <2>. QED BY <1>5, <2>1 DEF CoordGather
<1>6. CASE CoordLock
  BY <1>6 DEF CoordLock
<1>7. CASE EvalBatchOk
  BY <1>7 DEF EvalBatchOk, EndEval
<1>8. CASE EvalBatchFails
  BY <1>8 DEF EvalBatchFails, StopHalfway, EndEval
<1>9. CASE EvalBatchRejected
  BY <1>9 DEF EvalBatchRejected, EndEval
<1>10. CASE CoordPublish
  <2>1. inFlight' \in [Slots -> BOOLEAN] /\ decodeDone' \in [Slots -> BOOLEAN]
    BY <1>10 DEF CoordPublish, Publish
  <2>2. decodeRc' \in [Slots -> 0 .. 1]
    BY <1>10 DEF CoordPublish, Publish
  <2>3. batchRc' \in 0 .. 1 /\ members' \in SUBSET Slots /\ coord' \in CoordStates
    BY <1>10 DEF CoordPublish, Publish
  <2>. QED BY <1>10, <2>1, <2>2, <2>3 DEF CoordPublish, Publish, Broadcast
<1>. QED BY <1>1, <1>2, <1>3, <1>4, <1>5, <1>6, <1>7, <1>8, <1>9, <1>10 DEF Coordinator

LEMMA StoppingKeepsTypes ==
    ASSUME TypeInv, Stopping
    PROVE  TypeInv'
<1>. USE DEF TypeInv, TypeOK, QuantaLeft, serverVars, prefillVars, decodeVars, sessionVars,
        slotVars, coordVars, stopVars
<1>1. CASE StopSignal
  BY <1>1 DEF StopSignal
<1>2. CASE CancelDecodeWaiters
  <2>1. decodePending' \in Int
    BY <1>2, CountSlots DEF CancelDecodeWaiters, Cancel
  <2>. QED BY <1>2, <2>1 DEF CancelDecodeWaiters, Cancel, Broadcast
<1>3. CASE ListenFailed
  BY <1>3 DEF ListenFailed
<1>4. CASE ModelStop
  BY <1>4 DEF ModelStop, StopModel, Broadcast
<1>. QED BY <1>1, <1>2, <1>3, <1>4 DEF Stopping

LEMMA TypeInvNext == TypeInv /\ [Next]_vars => TypeInv'
<1>. SUFFICES ASSUME TypeInv, [Next]_vars PROVE TypeInv'
  OBVIOUS
<1>1. ASSUME NEW s \in Slots, JobBegin(s) \/ InJob(s) \/ JobFinish(s)
      PROVE  TypeInv'
  BY <1>1, PrefillKeepsTypes, DecodeKeepsTypes DEF InJob
<1>2. CASE UNCHANGED vars
  BY <1>2 DEF vars, TypeInv, TypeOK, QuantaLeft, serverVars, prefillVars, decodeVars,
              sessionVars, slotVars, coordVars, stopVars
<1>. QED BY <1>1, <1>2, CoordinatorKeepsTypes, StoppingKeepsTypes DEF Next, Stopped

\* Every variable keeps its type: a sync never runs more quanta than it needs,
\* the counters stay integers.
THEOREM TypeCorrect == Spec => []TypeOK
<1>1. TypeInv => TypeOK
  BY DEF TypeInv
<1>. QED BY <1>1, TypeInvInit, TypeInvNext, PTL DEF Spec

-----------------------------------------------------------------------------
(* The turn. *)

TurnInv == TypeInv /\ TurnExclusive

LEMMA TurnInit == Init => TurnExclusive
<1>. SUFFICES ASSUME Init PROVE TurnExclusive
  OBVIOUS
<1>1. modelBusy = (CoordInTurn \/ \E s \in Slots : InTurn(s))
  BY DEF Init, CoordInTurn, InTurn
<1>2. infer # Coord /\ \A s \in Slots : infer # s
  BY NAssumption DEF Init, Slots, Coord, Free
<1>. QED BY <1>1, <1>2 DEF Init, TurnExclusive, InTurn

\* A slot takes the turn only when nobody has it, and gives it back.
LEMMA SlotKeepsTurn ==
    ASSUME TurnInv, NEW s \in Slots, JobBegin(s) \/ InJob(s) \/ JobFinish(s)
    PROVE  TurnExclusive'
<1>. USE DEF TurnInv, TypeInv, TypeOK, TurnExclusive, InTurn, CoordInTurn, serverVars,
        sessionVars, slotVars, coordVars, Step, At, Goto
<1>1. CASE PrefillEnter(s)
  <2>1. ~modelBusy /\ modelBusy' = TRUE /\ UNCHANGED <<coord, infer>>
    BY <1>1 DEF PrefillEnter, TakeTurn, MustWait
  <2>2. slot' = [slot EXCEPT ![s] = "turn"]
    BY <1>1 DEF PrefillEnter, TakeTurn
  <2>3. slot[s] # "prefill"
    BY <1>1 DEF PrefillEnter, TakeTurn
  <2>. QED BY <2>1, <2>2, <2>3
<1>2. CASE PrefillLock(s)
  BY <1>2, NAssumption DEF PrefillLock, Free, Slots, Coord
<1>3. CASE PrefillRun(s)
  <2>1. infer' = Free /\ Free # Coord /\ \A t \in Slots : Free # t
    BY <1>3, NAssumption DEF PrefillRun, Free, Slots, Coord
  <2>2. slot[s] = "prefill" /\ slot' = [slot EXCEPT ![s] = "leave"]
    BY <1>3 DEF PrefillRun
  <2>3. UNCHANGED <<modelBusy, coord>>
    BY <1>3 DEF PrefillRun
  <2>. QED BY <2>1, <2>2, <2>3
<1>4. CASE PrefillLeave(s)
  BY <1>4 DEF PrefillLeave, LeaveTurn, AfterChunk, BeginSync, AfterFailedSync
<1>5. CASE JobBegin(s) \/ JobReject(s) \/ JobPrepare(s) \/ ChooseQuantum(s)
           \/ SyncInterrupted(s) \/ AskTurn(s) \/ WaitTurn(s) \/ PrefillAbandon(s)
  BY <1>5 DEF JobBegin, JobReject, JobPrepare, BeginSync, ChooseQuantum, SyncInterrupted,
              AskTurn, WaitTurn, PrefillAbandon, AfterFailedSync
<1>6. CASE HeadersFail(s) \/ GenerationEnter(s) \/ DecodeEnds(s) \/ EvalSubmit(s)
           \/ EvalWait(s) \/ ReturnToken(s) \/ GenerationLeave(s)
  BY <1>6 DEF HeadersFail, GenerationEnter, LoopHead, DecodeEnds, EvalSubmit, SubmitToken,
              GiveUp, EvalWait, ReturnToken, TokenKept, TokenEnds, EvalFailed,
              EvalReturn, GenerationLeave
<1>7. CASE Closing(s) \/ JobFinish(s)
  BY <1>7 DEF Closing, RewriteInPlace, ToRewrite, RewriteRun, RewriteBySync, RememberTools,
              BeginSync, JobFinish
<1>. QED BY <1>1, <1>2, <1>3, <1>4, <1>5, <1>6, <1>7
         DEF InJob, Prefilling, HoldingTurn, Decoding

\* So does the coordinator.
LEMMA CoordinatorKeepsTurn ==
    ASSUME TurnInv, Coordinator
    PROVE  TurnExclusive'
<1>. USE DEF TurnInv, TypeInv, TypeOK, TurnExclusive, InTurn, CoordInTurn, serverVars,
        sessionVars, slotVars, coordVars, CoordAt
<1>1. CASE CoordWait \/ CoordExit \/ CoordCoalesce
  BY <1>1 DEF CoordWait, CoordExit, CoordCoalesce
<1>2. CASE CoordWaitTurn
  BY <1>2 DEF CoordWaitTurn, ReadyToGather
<1>3. CASE CoordGather
  BY <1>3 DEF CoordGather, ReadyToGather
<1>4. CASE CoordLock
  BY <1>4, NAssumption DEF CoordLock, Free, Slots, Coord
<1>5. CASE EvalBatchOk \/ EvalBatchFails \/ EvalBatchRejected
  <2>1. EndEval(0) \/ EndEval(1)
    BY <1>5 DEF EvalBatchOk, EvalBatchFails, StopHalfway, EvalBatchRejected
  <2>2. infer' = Free /\ Free # Coord /\ \A t \in Slots : Free # t
    BY <2>1, NAssumption DEF EndEval, Free, Slots, Coord
  <2>. QED BY <2>1, <2>2 DEF EndEval
<1>6. CASE CoordPublish
  BY <1>6 DEF CoordPublish, Publish
<1>. QED BY <1>1, <1>2, <1>3, <1>4, <1>5, <1>6 DEF Coordinator

LEMMA TurnNext == TurnInv /\ [Next]_vars => TurnInv'
<1>. SUFFICES ASSUME TurnInv, [Next]_vars PROVE TurnExclusive'
  BY TypeInvNext DEF TurnInv
<1>1. CASE Stopping
  BY <1>1 DEF Stopping, StopSignal, CancelDecodeWaiters, Cancel, ListenFailed, ModelStop,
              StopModel, TurnInv, TurnExclusive, InTurn, CoordInTurn, serverVars,
              sessionVars, slotVars, coordVars
<1>2. CASE UNCHANGED vars
  BY <1>2 DEF vars, TurnInv, TurnExclusive, InTurn, CoordInTurn, serverVars, sessionVars,
              slotVars, coordVars
<1>. QED BY <1>1, <1>2, SlotKeepsTurn, CoordinatorKeepsTurn DEF Next, Stopped

\* model_busy alone keeps prefills and decode batches apart, whatever the number
\* of slots: at most one thread has the turn, and inference_mu is held across a
\* model step only by that thread.
THEOREM OneTurn == Spec => []TurnExclusive
<1>1. Init => TurnInv
  BY TypeInvInit, TurnInit DEF TurnInv
<1>2. TurnInv => TurnExclusive
  BY DEF TurnInv
<1>. QED BY <1>1, <1>2, TurnNext, PTL DEF Spec

-----------------------------------------------------------------------------
(* Waiting tokens. *)

PendingSlots == {s \in Slots : pending[s]}

PendingCounted == decodePending = Cardinality(PendingSlots)

CountInv == TypeInv /\ PendingCounted

LEMMA CountInit == Init => PendingCounted
<1>. SUFFICES ASSUME Init PROVE PendingCounted
  OBVIOUS
<1>1. PendingSlots = {}
  BY DEF Init, PendingSlots
<1>. QED BY <1>1, FS_EmptySet DEF Init, PendingCounted

LEMMA CountNext == CountInv /\ [Next]_vars => CountInv'
<1>. SUFFICES ASSUME CountInv, [Next]_vars PROVE PendingCounted'
  BY TypeInvNext DEF CountInv
<1>0. IsFiniteSet(PendingSlots) /\ Cardinality(PendingSlots) \in Nat
  BY CountSlots DEF PendingSlots
<1>1. ASSUME NEW s \in Slots, ~pending[s], SubmitToken(s)
      PROVE  PendingCounted'
  <2>1. s \notin PendingSlots /\ PendingSlots' = PendingSlots \cup {s}
    BY <1>1 DEF SubmitToken, PendingSlots, CountInv, TypeInv, TypeOK
  <2>2. Cardinality(PendingSlots') = Cardinality(PendingSlots) + 1
    BY <1>0, <2>1, FS_AddElement
  <2>3. decodePending' = decodePending + 1
    BY <1>1 DEF SubmitToken
  <2>. QED BY <2>2, <2>3 DEF CountInv, PendingCounted
<1>2. ASSUME PendingSlots' = {}, decodePending' = decodePending - Cardinality(PendingSlots)
      PROVE  PendingCounted'
  BY <1>0, <1>2, FS_EmptySet DEF CountInv, PendingCounted
<1>3. CASE CoordGather
  BY <1>2, <1>3 DEF CoordGather, PendingSlots
<1>4. CASE CancelDecodeWaiters
  <2>1. PendingSlots' = {}
    BY <1>4 DEF CancelDecodeWaiters, Cancel, PendingSlots
  <2>2. decodePending = Cardinality(PendingSlots)
    BY DEF CountInv, PendingCounted
  <2>3. decodePending' = 0
    BY <1>0, <1>4, <2>2 DEF CancelDecodeWaiters, Cancel, PendingSlots
  <2>. QED BY <1>0, <1>2, <2>1, <2>2, <2>3
<1>5. CASE UNCHANGED <<decodePending, pending>>
  BY <1>5 DEF CountInv, PendingCounted, PendingSlots
<1>6. ASSUME NEW s \in Slots, JobBegin(s) \/ InJob(s) \/ JobFinish(s), ~EvalSubmit(s)
      PROVE  UNCHANGED <<decodePending, pending>>
  BY <1>6 DEF JobBegin, InJob, JobReject, JobPrepare, Prefilling, ChooseQuantum,
     SyncInterrupted, AskTurn, WaitTurn, PrefillEnter, TakeTurn, PrefillAbandon,
     HoldingTurn, PrefillLock, PrefillRun, PrefillLeave, LeaveTurn, Decoding,
     HeadersFail, GenerationEnter, DecodeEnds, EvalWait, ReturnToken,
     TokenKept, TokenEnds, EvalFailed, EvalReturn, GenerationLeave, Closing,
     RewriteInPlace, ToRewrite, RewriteRun, RewriteBySync, RememberTools, JobFinish,
     serverVars, decodeVars
<1>7. ASSUME Coordinator, ~CoordGather
      PROVE  UNCHANGED <<decodePending, pending>>
  BY <1>7 DEF Coordinator, CoordWait, CoordExit, CoordCoalesce, CoordWaitTurn, CoordLock,
     EvalBatchOk, EvalBatchFails, StopHalfway, EvalBatchRejected, EndEval, CoordPublish,
     Publish, serverVars, decodeVars
<1>8. ASSUME Stopping, ~CancelDecodeWaiters
      PROVE  UNCHANGED <<decodePending, pending>>
  BY <1>8 DEF Stopping, StopSignal, ListenFailed, ModelStop, StopModel, serverVars,
     decodeVars
<1>9. ASSUME UNCHANGED vars
      PROVE  UNCHANGED <<decodePending, pending>>
  BY <1>9 DEF vars, serverVars, decodeVars
<1>10. ASSUME NEW s \in Slots, EvalSubmit(s)
       PROVE  (~pending[s] /\ SubmitToken(s)) \/ UNCHANGED <<decodePending, pending>>
  BY <1>10 DEF EvalSubmit
<1>. QED BY <1>1, <1>3, <1>4, <1>5, <1>6, <1>7, <1>8, <1>9, <1>10 DEF Next, Stopped

\* The step that gives a prefill its turn is server_prefill_enter.
LEMMA TurnGivenByEnter ==
    ASSUME TypeInv, [Next]_vars, NEW t \in Slots, GivenTurn(t)
    PROVE  PrefillEnter(t)
<1>. USE DEF TypeInv, TypeOK, GivenTurn, Step, At, Goto, slotVars
<1>1. ASSUME NEW s \in Slots,
             JobBegin(s) \/ InJob(s) \/ JobFinish(s), ~PrefillEnter(s)
      PROVE  FALSE
  BY <1>1 DEF JobBegin, InJob, JobReject, JobPrepare, BeginSync, Prefilling,
     ChooseQuantum, SyncInterrupted, AskTurn, WaitTurn, PrefillAbandon, AfterFailedSync,
     HoldingTurn, PrefillLock, PrefillRun, PrefillLeave, LeaveTurn, AfterChunk, Decoding,
     HeadersFail, GenerationEnter, LoopHead, DecodeEnds, EvalSubmit, SubmitToken, GiveUp,
     EvalWait, ReturnToken, TokenKept, TokenEnds, EvalFailed, GenerationLeave, Closing,
     RewriteInPlace, ToRewrite, RewriteRun, RewriteBySync, RememberTools, JobFinish
<1>2. ASSUME Coordinator PROVE FALSE
  BY <1>2 DEF Coordinator, CoordWait, CoordExit, CoordCoalesce, CoordWaitTurn, CoordGather,
     CoordLock, EvalBatchOk, EvalBatchFails, StopHalfway, EvalBatchRejected, EndEval,
     CoordPublish, Publish
<1>3. ASSUME Stopping \/ UNCHANGED vars PROVE FALSE
  BY <1>3 DEF Stopping, StopSignal, CancelDecodeWaiters, Cancel, ListenFailed, ModelStop,
     StopModel, vars
<1>4. PICK s \in Slots : PrefillEnter(s)
  BY <1>1, <1>2, <1>3 DEF Next, Stopped
<1>5. slot' = [slot EXCEPT ![s] = "turn"]
  BY <1>4 DEF PrefillEnter, TakeTurn
<1>. QED BY <1>4, <1>5

\* And it looks at the counter.
LEMMA TurnOnlyWhenNonePending ==
    ASSUME CountInv, [Next]_vars, NEW t \in Slots, GivenTurn(t)
    PROVE  \A s \in Slots : ~pending[s]
<1>1. PrefillEnter(t)
  BY TurnGivenByEnter DEF CountInv
<1>2. decodePending <= 0
  BY <1>1 DEF PrefillEnter, TakeTurn, MustWait, CountInv, TypeInv, TypeOK
<1>3. IsFiniteSet(PendingSlots) /\ Cardinality(PendingSlots) \in Nat
  BY CountSlots DEF PendingSlots
<1>4. Cardinality(PendingSlots) = 0
  BY <1>2, <1>3 DEF CountInv, PendingCounted
<1>5. PendingSlots = {}
  BY <1>3, <1>4, FS_EmptySet
<1>. QED BY <1>5 DEF PendingSlots

\* No prefill starts past a token that waits to be decoded, however many slots
\* there are: one large prompt does not block the active decoders.
THEOREM DecodeBeforePrefill == Spec => DecodeGoesFirst
<1>1. Init => CountInv
  BY TypeInvInit, CountInit DEF CountInv
<1>2. CountInv /\ [Next]_vars =>
        [\A s, t \in Slots : GivenTurn(t) => ~pending[s]]_vars
  BY TurnOnlyWhenNonePending
<1>. QED BY <1>1, <1>2, CountNext, PTL DEF Spec, DecodeGoesFirst

-----------------------------------------------------------------------------
(* The counters. *)

GeneratingSlots == {s \in Slots : slot[s] \in {"decode", "await", "genleave"}}

GeneratingCounted == activeGen = Cardinality(GeneratingSlots)

GenInv == TypeInv /\ GeneratingCounted

LEMMA GenInit == Init => GeneratingCounted
<1>. SUFFICES ASSUME Init PROVE GeneratingCounted
  OBVIOUS
<1>1. GeneratingSlots = {}
  BY DEF Init, GeneratingSlots
<1>. QED BY <1>1, FS_EmptySet DEF Init, GeneratingCounted

LEMMA GenNext == GenInv /\ [Next]_vars => GenInv'
<1>. SUFFICES ASSUME GenInv, [Next]_vars PROVE GeneratingCounted'
  BY TypeInvNext DEF GenInv
<1>. USE DEF GenInv, TypeInv, TypeOK, GeneratingSlots, slotVars, serverVars, Step, At, Goto
<1>0. IsFiniteSet(GeneratingSlots) /\ Cardinality(GeneratingSlots) \in Nat
  BY CountSlots
<1>1. ASSUME NEW s \in Slots, GenerationEnter(s)
      PROVE  GeneratingCounted'
  <2>1. s \notin GeneratingSlots /\ GeneratingSlots' = GeneratingSlots \cup {s}
    BY <1>1 DEF GenerationEnter, LoopHead
  <2>2. Cardinality(GeneratingSlots') = Cardinality(GeneratingSlots) + 1
    BY <1>0, <2>1, FS_AddElement
  <2>3. activeGen' = activeGen + 1
    BY <1>1 DEF GenerationEnter
  <2>. QED BY <2>2, <2>3 DEF GeneratingCounted
<1>2. ASSUME NEW s \in Slots, GenerationLeave(s)
      PROVE  GeneratingCounted'
  <2>1. s \in GeneratingSlots /\ GeneratingSlots' = GeneratingSlots \ {s}
    BY <1>2 DEF GenerationLeave
  <2>. HIDE DEF GeneratingSlots, TypeInv, GenInv, TypeOK
  <2>2. Cardinality(GeneratingSlots') = Cardinality(GeneratingSlots) - 1
    BY <1>0, <2>1, FS_RemoveElement
  <2>3. Cardinality(GeneratingSlots') \in Nat
    <3>1. GeneratingSlots' \subseteq Slots
      BY <2>1 DEF GeneratingSlots
    <3>. QED BY <3>1, CountSlots
  <2>4. activeGen > 0
    BY <1>0, <2>2, <2>3 DEF GenInv, GeneratingCounted
  <2>5. activeGen' = activeGen - 1
    BY <1>2, <2>4 DEF GenerationLeave
  <2>. QED BY <2>2, <2>5 DEF GenInv, GeneratingCounted
<1>3. ASSUME NEW s \in Slots, JobBegin(s) \/ JobReject(s) \/ JobPrepare(s) \/ Prefilling(s)
      PROVE  UNCHANGED <<activeGen, GeneratingSlots>>
  BY <1>3 DEF JobBegin, JobReject, JobPrepare, BeginSync, Prefilling, ChooseQuantum,
     SyncInterrupted, AskTurn, WaitTurn, PrefillEnter, TakeTurn, PrefillAbandon,
     AfterFailedSync, HoldingTurn, PrefillLock, PrefillRun, PrefillLeave, LeaveTurn,
     AfterChunk
<1>4. ASSUME NEW s \in Slots, Decoding(s), ~GenerationEnter(s), ~GenerationLeave(s)
      PROVE  UNCHANGED <<activeGen, GeneratingSlots>>
  BY <1>4 DEF Decoding, HeadersFail, LoopHead, DecodeEnds, EvalSubmit, SubmitToken, GiveUp,
     EvalWait, ReturnToken, TokenKept, TokenEnds, EvalFailed, EvalReturn
<1>5. ASSUME NEW s \in Slots, Closing(s) \/ JobFinish(s)
      PROVE  UNCHANGED <<activeGen, GeneratingSlots>>
  BY <1>5 DEF Closing, RewriteInPlace, ToRewrite, RewriteRun, RewriteBySync,
     RememberTools, BeginSync, JobFinish
<1>6. ASSUME Coordinator
      PROVE  UNCHANGED <<activeGen, GeneratingSlots>>
  BY <1>6 DEF Coordinator, CoordWait, CoordExit, CoordCoalesce, CoordWaitTurn, CoordGather,
     CoordLock, EvalBatchOk, EvalBatchFails, StopHalfway, EvalBatchRejected, EndEval,
     CoordPublish, Publish
<1>7. ASSUME Stopping \/ UNCHANGED vars
      PROVE  UNCHANGED <<activeGen, GeneratingSlots>>
  BY <1>7 DEF Stopping, StopSignal, CancelDecodeWaiters, Cancel, ListenFailed, ModelStop,
     StopModel, vars
<1>8. CASE UNCHANGED <<activeGen, GeneratingSlots>>
  BY <1>8 DEF GeneratingCounted
<1>. QED BY <1>1, <1>2, <1>3, <1>4, <1>5, <1>6, <1>7, <1>8 DEF Next, Stopped, InJob

\* The counters that the wait predicates read are exact for any number of slots:
\* neither the cancellation nor the guarded decrements let them drift.
THEOREM Counters == Spec => []CountersExact
<1>1. Init => CountInv /\ GenInv
  BY TypeInvInit, CountInit, GenInit DEF CountInv, GenInv
<1>2. CountInv /\ GenInv /\ [Next]_vars => CountInv' /\ GenInv'
  BY CountNext, GenNext
<1>3. CountInv /\ GenInv => CountersExact
  BY DEF CountInv, GenInv, PendingCounted, GeneratingCounted, PendingSlots,
         GeneratingSlots, CountersExact
<1>. QED BY <1>1, <1>2, <1>3, PTL DEF Spec

-----------------------------------------------------------------------------
(* Who works on a session. *)

\* The tokens in flight are those of the coordinator's batch, and none of them
\* is handed in again.
BatchInFlight ==
    /\ \A s \in Slots : inFlight[s] <=> s \in members
    /\ \A s \in Slots : pending[s] => ~inFlight[s]
    /\ members # {} => CoordInTurn

\* Until the server stops, a slot whose token is on its way has no answer yet,
\* so its thread stays blocked.
UnansweredInEval ==
    ~gstop => \A s \in Slots :
        pending[s] \/ inFlight[s] => slot[s] = "await" /\ ~decodeDone[s]

BorrowInv == TypeInv /\ BatchInFlight /\ UnansweredInEval

LEMMA BorrowInit == Init => BatchInFlight /\ UnansweredInEval
BY DEF Init, BatchInFlight, UnansweredInEval

LEMMA SlotKeepsBorrow ==
    ASSUME BorrowInv, NEW s \in Slots, JobBegin(s) \/ InJob(s) \/ JobFinish(s)
    PROVE  BatchInFlight' /\ UnansweredInEval'
<1>. USE DEF BorrowInv, TypeInv, TypeOK, BatchInFlight, UnansweredInEval, CoordInTurn,
        decodeVars, coordVars, stopVars, slotVars, Step, At, Goto
<1>1. CASE EvalSubmit(s)
  BY <1>1 DEF EvalSubmit, SubmitToken, GiveUp
<1>2. CASE ReturnToken(s)
  BY <1>2 DEF ReturnToken, TokenKept, TokenEnds, EvalFailed, EvalReturn, LoopHead, GiveUp
<1>3. CASE Prefilling(s)
  BY <1>3 DEF Prefilling, ChooseQuantum, SyncInterrupted, AskTurn, WaitTurn, PrefillEnter,
     TakeTurn, PrefillAbandon, AfterFailedSync, HoldingTurn, PrefillLock, PrefillRun,
     PrefillLeave, LeaveTurn, AfterChunk, BeginSync
<1>4. CASE \/ HeadersFail(s) \/ GenerationEnter(s) \/ DecodeEnds(s)
           \/ EvalWait(s) \/ GenerationLeave(s)
  BY <1>4 DEF HeadersFail, GenerationEnter, LoopHead, DecodeEnds, GiveUp,
     EvalWait, GenerationLeave
<1>5. CASE JobBegin(s) \/ JobReject(s) \/ JobPrepare(s) \/ Closing(s) \/ JobFinish(s)
  <2>1. UNCHANGED <<pending, inFlight, decodeDone, members, coord, gstop>>
    BY <1>5 DEF JobBegin, JobReject, JobPrepare, Closing, RewriteInPlace, RewriteRun,
       RewriteBySync, RememberTools, JobFinish
  <2>2. slot[s] # "await" /\ \A t \in Slots : t # s => slot'[t] = slot[t]
    BY <1>5 DEF JobBegin, JobReject, JobPrepare, BeginSync, Closing, RewriteInPlace,
       ToRewrite, RewriteRun, RewriteBySync, RememberTools, JobFinish
  <2>. QED BY <2>1, <2>2
<1>. QED BY <1>1, <1>2, <1>3, <1>4, <1>5 DEF InJob, Decoding

LEMMA CoordinatorKeepsBorrow ==
    ASSUME BorrowInv, Coordinator
    PROVE  BatchInFlight' /\ UnansweredInEval'
<1>. USE DEF BorrowInv, TypeInv, TypeOK, BatchInFlight, UnansweredInEval, CoordInTurn,
        CoordAt, decodeVars, slotVars, coordVars, stopVars
<1>1. CASE CoordWait \/ CoordExit \/ CoordCoalesce
  BY <1>1 DEF CoordWait, CoordExit, CoordCoalesce
<1>2. CASE CoordWaitTurn
  BY <1>2 DEF CoordWaitTurn, ReadyToGather
<1>3. CASE CoordGather
  BY <1>3 DEF CoordGather, ReadyToGather
<1>4. CASE CoordLock
  BY <1>4 DEF CoordLock
<1>5. CASE EvalBatchOk \/ EvalBatchFails \/ EvalBatchRejected
  BY <1>5 DEF EvalBatchOk, EvalBatchFails, StopHalfway, EvalBatchRejected, EndEval
<1>6. CASE CoordPublish
  <2>1. inFlight' = [s \in Slots |-> FALSE] /\ members' = {}
    BY <1>6 DEF CoordPublish, Publish
  <2>2. \A s \in Slots : pending[s] => s \notin members
    BY <1>6 DEF CoordPublish, Publish
  <2>. QED BY <1>6, <2>1, <2>2 DEF CoordPublish, Publish
<1>. QED BY <1>1, <1>2, <1>3, <1>4, <1>5, <1>6 DEF Coordinator

LEMMA BorrowNext == BorrowInv /\ [Next]_vars => BorrowInv'
<1>. SUFFICES ASSUME BorrowInv, [Next]_vars PROVE BatchInFlight' /\ UnansweredInEval'
  BY TypeInvNext DEF BorrowInv
<1>1. CASE Stopping
  BY <1>1 DEF Stopping, StopSignal, CancelDecodeWaiters, Cancel, ListenFailed, ModelStop,
     StopModel, BorrowInv, BatchInFlight, UnansweredInEval, CoordInTurn, decodeVars,
     slotVars, coordVars
<1>2. CASE UNCHANGED vars
  BY <1>2 DEF vars, BatchInFlight, UnansweredInEval, BorrowInv, CoordInTurn, decodeVars,
     slotVars, coordVars, stopVars
<1>. QED BY <1>1, <1>2, SlotKeepsBorrow, CoordinatorKeepsBorrow DEF Next, Stopped

\* The coordinator and the thread that owns a session are never at work on it
\* together while the server serves: server_eval_token does not return before
\* the coordinator has published the token's result.
THEOREM SessionBorrowed == Spec => []BorrowedWhileBlocked
<1>1. Init => BorrowInv
  BY TypeInvInit, BorrowInit DEF BorrowInv
<1>2. BorrowInv => BorrowedWhileBlocked
  BY DEF BorrowInv, UnansweredInEval, BorrowedWhileBlocked
<1>. QED BY <1>1, <1>2, BorrowNext, PTL DEF Spec

-----------------------------------------------------------------------------
(* Round robin. *)

\* The remainder of numbers below 2N.
LEMMA Remainder ==
    ASSUME NEW n \in Nat, n < 2 * N
    PROVE  n % N = IF n < N THEN n ELSE n - N
<1>. USE NAssumption
<1>1. CASE n < N
  BY <1>1
<1>2. CASE n >= N
  <2>1. n = 1 * N + (n - N) /\ n - N \in 0 .. N - 1
    BY <1>2
  <2>. QED BY <2>1, <1>2
<1>. QED BY <1>1, <1>2

LEMMA DistanceCases ==
    ASSUME NEW last \in Slots, NEW s \in Slots
    PROVE  Distance(last, s) = IF s > last THEN s - last - 1 ELSE s + N - last - 1
<1>1. s + N - last - 1 \in Nat /\ s + N - last - 1 < 2 * N
  BY NAssumption DEF Slots
<1>2. s + N - last - 1 < N <=> s <= last
  BY NAssumption DEF Slots
<1>. QED BY <1>1, <1>2, Remainder, NAssumption DEF Distance, Slots

\* The slot that gets the turn becomes the last one: all others move up.
LEMMA TurnMovesOthersUp ==
    ASSUME TypeInv, [Next]_vars, NEW t \in Slots, GivenTurn(t),
           NEW s \in Slots, s # t, prefillWaiting[s]
    PROVE  Distance(lastPrefill', s) < Distance(lastPrefill, s)
<1>1. PrefillEnter(t)
  BY TurnGivenByEnter
<1>2. IsNextPrefill(t, WaitingSlots \cup {t})
  BY <1>1 DEF PrefillEnter, TakeTurn, MustWait
<1>3. Distance(lastPrefill, t) <= Distance(lastPrefill, s)
  BY <1>2 DEF IsNextPrefill, WaitingSlots
<1>4. lastPrefill \in Slots /\ lastPrefill' = t
  BY <1>1 DEF PrefillEnter, TypeInv, TypeOK
<1>5. /\ Distance(lastPrefill, t) = IF t > lastPrefill THEN t - lastPrefill - 1
                                    ELSE t + N - lastPrefill - 1
      /\ Distance(lastPrefill, s) = IF s > lastPrefill THEN s - lastPrefill - 1
                                    ELSE s + N - lastPrefill - 1
      /\ Distance(t, s) = IF s > t THEN s - t - 1 ELSE s + N - t - 1
  BY <1>4, DistanceCases
<1>. QED BY <1>3, <1>4, <1>5, NAssumption DEF Slots

\* Round robin with any number of slots: whoever waits for a prefill turn is
\* overtaken fewer than N times.
THEOREM PrefillsRotate == Spec => PrefillTurnsRotate
<1>1. TypeInv /\ [Next]_vars =>
        [\A s, t \in Slots :
            GivenTurn(t) /\ s # t /\ prefillWaiting[s] =>
                Distance(lastPrefill', s) < Distance(lastPrefill, s)]_vars
  BY TurnMovesOthersUp
<1>. QED BY <1>1, TypeInvInit, TypeInvNext, PTL DEF Spec, PrefillTurnsRotate

-----------------------------------------------------------------------------
(* The reply and the session. *)

\* What slot s may rely on when a token was answered with rc.
Answered(s, rc) ==
    IF rc = 0 THEN valid[s] /\ evals[s] = kept[s] + 1
              ELSE valid[s] => evals[s] = kept[s]

\* The token of slot s on its way through the coordinator.
AwaitedReply(s) ==
    /\ pending[s] \/ (inFlight[s] /\ coord # "publish") => valid[s] /\ evals[s] = kept[s]
    /\ inFlight[s] /\ coord = "publish" => Answered(s, batchRc)
    /\ decodeDone[s] => Answered(s, decodeRc[s])

\* Between its tokens a slot that generates stands on its reply, also while the
\* server stops; until then a session that got ahead of its reply is invalid.
ReplyOf(s) ==
    /\ slot[s] = "decode" =>
          ~pending[s] /\ ~inFlight[s] /\ valid[s] /\ evals[s] = kept[s]
    /\ ~gstop =>
          /\ slot[s] # "await" => (valid[s] => evals[s] = kept[s])
          /\ slot[s] = "ready" => valid[s]
          /\ slot[s] = "leave" /\ todo[s] # Failed => valid[s]
          /\ slot[s] = "await" => AwaitedReply(s)

RepliesMatch == \A s \in Slots : ReplyOf(s)

ReplyInv == BorrowInv /\ RepliesMatch

LEMMA ReplyInit == Init => RepliesMatch
BY DEF Init, RepliesMatch, ReplyOf

\* A slot thread leaves the other slots, their sessions and the coordinator's
\* batch alone.
LEMMA SlotLeavesOthers ==
    ASSUME TypeInv, NEW s \in Slots, JobBegin(s) \/ InJob(s) \/ JobFinish(s)
    PROVE  /\ UNCHANGED <<inFlight, coordVars, stopVars>>
           /\ \A t \in Slots \ {s} :
                 /\ slot'[t] = slot[t] /\ todo'[t] = todo[t] /\ kept'[t] = kept[t]
                 /\ valid'[t] = valid[t] /\ evals'[t] = evals[t]
                 /\ pending'[t] = pending[t] /\ decodeDone'[t] = decodeDone[t]
                 /\ decodeRc'[t] = decodeRc[t]
<1>. USE DEF TypeInv, TypeOK, decodeVars, sessionVars, slotVars, Step, At, Goto,
        KeepSession, DropSession, RenewSession, BeginSync
<1>1. CASE JobBegin(s) \/ JobReject(s) \/ JobPrepare(s) \/ JobFinish(s)
  BY <1>1 DEF JobBegin, JobReject, JobPrepare, JobFinish
<1>2. CASE ChooseQuantum(s) \/ SyncInterrupted(s) \/ AskTurn(s) \/ WaitTurn(s)
           \/ PrefillEnter(s) \/ PrefillAbandon(s)
  BY <1>2 DEF ChooseQuantum, SyncInterrupted, AskTurn, WaitTurn, PrefillEnter, TakeTurn,
     PrefillAbandon, AfterFailedSync
<1>3. CASE HoldingTurn(s)
  BY <1>3 DEF HoldingTurn, PrefillLock, PrefillRun, PrefillLeave, LeaveTurn, AfterChunk,
     AfterFailedSync
<1>4. CASE HeadersFail(s) \/ GenerationEnter(s) \/ DecodeEnds(s) \/ EvalSubmit(s)
           \/ EvalWait(s) \/ GenerationLeave(s)
  BY <1>4 DEF HeadersFail, GenerationEnter, LoopHead, DecodeEnds, EvalSubmit, SubmitToken,
     GiveUp, EvalWait, GenerationLeave
<1>5. CASE ReturnToken(s)
  BY <1>5 DEF ReturnToken, TokenKept, TokenEnds, EvalFailed, EvalReturn, LoopHead, GiveUp
<1>6. CASE Closing(s)
  BY <1>6 DEF Closing, RewriteInPlace, ToRewrite, RewriteRun, RewriteBySync, RememberTools
<1>. QED BY <1>1, <1>2, <1>3, <1>4, <1>5, <1>6 DEF InJob, Prefilling, Decoding

\* So it can only disturb its own reply.
LEMMA OthersMatch ==
    ASSUME ReplyInv, NEW s \in Slots, JobBegin(s) \/ InJob(s) \/ JobFinish(s),
           NEW t \in Slots, t # s
    PROVE  ReplyOf(t)'
<1>1. /\ UNCHANGED <<inFlight, coordVars, stopVars>>
      /\ slot'[t] = slot[t] /\ todo'[t] = todo[t] /\ kept'[t] = kept[t]
      /\ valid'[t] = valid[t] /\ evals'[t] = evals[t]
      /\ pending'[t] = pending[t] /\ decodeDone'[t] = decodeDone[t]
      /\ decodeRc'[t] = decodeRc[t]
  BY SlotLeavesOthers DEF ReplyInv, BorrowInv
<1>2. ReplyOf(t)
  BY DEF ReplyInv, RepliesMatch
<1>. QED BY <1>1, <1>2 DEF ReplyOf, AwaitedReply, Answered, coordVars, stopVars

\* A rebuilt session stands on its own prompt, a dropped one is not relied on.
LEMMA SettledSession ==
    ASSUME TypeInv, NEW s \in Slots,
           KeepSession(s) \/ DropSession(s) \/ RenewSession(s),
           valid[s] => evals[s] = kept[s]
    PROVE  valid'[s] => evals'[s] = kept'[s]
BY DEF TypeInv, TypeOK, KeepSession, DropSession, RenewSession

\* A slot thread keeps its own reply and its session together.
LEMMA SlotKeepsReply ==
    ASSUME ReplyInv, NEW s \in Slots, JobBegin(s) \/ InJob(s) \/ JobFinish(s)
    PROVE  ReplyOf(s)'
<1>1. TypeInv /\ ReplyOf(s)
  BY DEF ReplyInv, BorrowInv, RepliesMatch
<1>2. ~gstop => (pending[s] \/ inFlight[s] => slot[s] = "await" /\ ~decodeDone[s])
  BY DEF ReplyInv, BorrowInv, UnansweredInEval
<1>. USE DEF TypeInv, TypeOK, ReplyOf, decodeVars, sessionVars, slotVars,
        coordVars, stopVars, Step, At, Goto
<1>3. CASE JobBegin(s) \/ JobReject(s) \/ JobFinish(s)
  BY <1>1, <1>3 DEF JobBegin, JobReject, JobFinish
<1>4. CASE JobPrepare(s)
  <2>1. slot[s] = "begin" /\ slot'[s] = "sync" /\ UNCHANGED gstop
    BY <1>1, <1>4 DEF JobPrepare, BeginSync
  <2>2. KeepSession(s) \/ DropSession(s) \/ RenewSession(s)
    BY <1>4 DEF JobPrepare
  <2>. QED BY <1>1, <2>1, <2>2, SettledSession
<1>5. CASE ChooseQuantum(s) \/ SyncInterrupted(s) \/ AskTurn(s) \/ WaitTurn(s)
           \/ PrefillEnter(s) \/ PrefillAbandon(s) \/ PrefillLock(s)
  BY <1>1, <1>5 DEF ChooseQuantum, SyncInterrupted, AskTurn, WaitTurn, PrefillEnter,
     TakeTurn, PrefillAbandon, AfterFailedSync, PrefillLock
<1>6. CASE PrefillRun(s)
  <2>1. slot[s] = "prefill" /\ slot'[s] = "leave" /\ UNCHANGED gstop
    BY <1>1, <1>6 DEF PrefillRun
  <2>2. RenewSession(s) \/ (DropSession(s) /\ todo'[s] = Failed)
    BY <1>1, <1>6 DEF PrefillRun
  <2>3. ~gstop => (valid'[s] => evals'[s] = kept'[s])
    BY <1>1, <2>1, <2>2, SettledSession
  <2>4. todo'[s] # Failed => valid'[s]
    BY <1>1, <2>2 DEF RenewSession
  <2>. QED BY <2>1, <2>3, <2>4
<1>7. CASE PrefillLeave(s)
  <2>1. slot[s] = "leave" /\ UNCHANGED <<gstop, valid, evals, kept>>
    BY <1>7 DEF PrefillLeave, LeaveTurn
  <2>2. \/ slot'[s] \in {"sync", "vision", "finish"}
        \/ slot'[s] = "ready" /\ todo[s] = 0
    BY <1>1, <1>7 DEF PrefillLeave, LeaveTurn, AfterChunk, BeginSync, AfterFailedSync
  <2>3. 0 # Failed
    BY DEF Failed
  <2>. QED BY <1>1, <2>1, <2>2, <2>3
<1>8. CASE HeadersFail(s) \/ GenerationEnter(s) \/ DecodeEnds(s) \/ GenerationLeave(s)
  BY <1>1, <1>2, <1>8 DEF HeadersFail, GenerationEnter, LoopHead, DecodeEnds,
     GenerationLeave
<1>9. CASE EvalSubmit(s)
  BY <1>1, <1>9 DEF EvalSubmit, SubmitToken, GiveUp, AwaitedReply
<1>10. CASE EvalWait(s)
  BY <1>1, <1>10 DEF EvalWait, AwaitedReply, Answered
<1>11. CASE ReturnToken(s)
  BY <1>1, <1>2, <1>11 DEF ReturnToken, TokenKept, TokenEnds, EvalFailed, EvalReturn,
     Evaluated, LoopHead, GiveUp, AwaitedReply, Answered
<1>12. CASE RewriteInPlace(s) \/ RememberTools(s)
  BY <1>1, <1>12 DEF RewriteInPlace, ToRewrite, RememberTools, BeginSync
<1>13. CASE RewriteRun(s) \/ RewriteBySync(s)
  <2>1. slot[s] # "await" /\ slot'[s] \in {"sync", "vision"} /\ UNCHANGED gstop
    BY <1>1, <1>13 DEF RewriteRun, RewriteBySync, ToRewrite, BeginSync
  <2>2. KeepSession(s) \/ DropSession(s) \/ RenewSession(s)
    BY <1>13 DEF RewriteRun, RewriteBySync
  <2>. QED BY <1>1, <2>1, <2>2, SettledSession
<1>. QED BY <1>3, <1>4, <1>5, <1>6, <1>7, <1>8, <1>9, <1>10, <1>11, <1>12, <1>13
         DEF InJob, Prefilling, HoldingTurn, Decoding, Closing

\* The coordinator changes a session only for a token of its batch, and says so
\* in the result it publishes.
LEMMA CoordinatorKeepsReplies ==
    ASSUME ReplyInv, Coordinator, NEW s \in Slots
    PROVE  ReplyOf(s)'
<1>1. TypeInv /\ BatchInFlight /\ ReplyOf(s)
  BY DEF ReplyInv, BorrowInv, RepliesMatch
<1>2. ~gstop => (pending[s] \/ inFlight[s] => slot[s] = "await" /\ ~decodeDone[s])
  BY DEF ReplyInv, BorrowInv, UnansweredInEval
<1>3. /\ inFlight[s] <=> s \in members
      /\ pending[s] => ~inFlight[s]
      /\ inFlight[s] => coord \in {"turn", "eval", "publish"}
  BY <1>1 DEF BatchInFlight, CoordInTurn
<1>4. UNCHANGED <<slotVars, stopVars>>
  BY DEF Coordinator, CoordWait, CoordExit, CoordCoalesce, CoordWaitTurn, CoordGather,
     CoordLock, EvalBatchOk, EvalBatchFails, StopHalfway, EvalBatchRejected, EndEval,
     CoordPublish, Publish
<1>. USE DEF TypeInv, TypeOK, ReplyOf, AwaitedReply, Answered, CoordAt, decodeVars,
        sessionVars, slotVars, coordVars, stopVars
<1>5. CASE CoordWait \/ CoordExit \/ CoordCoalesce \/ CoordWaitTurn
  BY <1>1, <1>3, <1>4, <1>5 DEF CoordWait, CoordExit, CoordCoalesce, CoordWaitTurn,
     ReadyToGather
<1>6. CASE CoordGather
  <2>1. ~inFlight[s]
    BY <1>3, <1>6 DEF CoordGather, ReadyToGather
  <2>2. coord' # "publish" /\ pending'[s] = FALSE /\ (inFlight'[s] <=> pending[s])
    BY <1>1, <1>6, <2>1 DEF CoordGather
  <2>3. UNCHANGED <<decodeDone, decodeRc, valid, evals>>
    BY <1>6 DEF CoordGather
  <2>. QED BY <1>1, <1>4, <2>2, <2>3
<1>7. CASE CoordLock
  BY <1>1, <1>4, <1>7 DEF CoordLock
<1>8. CASE EvalBatchOk \/ EvalBatchFails \/ EvalBatchRejected
  <2>1. /\ coord = "eval" /\ coord' = "publish"
        /\ UNCHANGED <<pending, inFlight, decodeDone, decodeRc>>
    BY <1>8 DEF EvalBatchOk, EvalBatchFails, StopHalfway, EvalBatchRejected, EndEval
  <2>2. CASE s \notin members
    <3>1. (valid'[s] <=> valid[s]) /\ evals'[s] = evals[s]
      BY <1>1, <1>8, <2>2 DEF EvalBatchOk, EvalBatchFails, StopHalfway, EvalBatchRejected
    <3>. QED BY <1>1, <1>3, <1>4, <2>1, <2>2, <3>1
  <2>3. CASE s \in members
    <3>1. inFlight[s] /\ ~pending[s]
      BY <1>3, <2>3
    <3>2. ~gstop => /\ slot[s] = "await" /\ ~decodeDone[s]
                    /\ valid[s] /\ evals[s] = kept[s]
      BY <1>1, <1>2, <2>1, <3>1
    <3>3. slot[s] # "decode"
      BY <1>1, <3>1
    <3>4. \/ batchRc' = 0 /\ valid'[s] /\ evals'[s] = evals[s] + 1
          \/ batchRc' = 1 /\ ~valid'[s]
          \/ batchRc' = 1 /\ (valid'[s] <=> valid[s]) /\ evals'[s] = evals[s]
      BY <1>1, <1>8, <2>3 DEF EvalBatchOk, EvalBatchFails, StopHalfway,
         EvalBatchRejected, EndEval
    <3>. QED BY <1>4, <2>1, <3>1, <3>2, <3>3, <3>4
  <2>. QED BY <2>2, <2>3
<1>9. CASE CoordPublish
  <2>1. coord = "publish" /\ UNCHANGED <<pending, valid, evals>>
    BY <1>9 DEF CoordPublish, Publish
  <2>2. ~inFlight'[s]
    BY <1>1, <1>3, <1>9 DEF CoordPublish, Publish
  <2>3. IF s \in members THEN decodeDone'[s] /\ decodeRc'[s] = batchRc
                         ELSE (decodeDone'[s] <=> decodeDone[s]) /\ decodeRc'[s] = decodeRc[s]
    BY <1>1, <1>9 DEF CoordPublish, Publish
  <2>. QED BY <1>1, <1>3, <1>4, <2>1, <2>2, <2>3
<1>. QED BY <1>5, <1>6, <1>7, <1>8, <1>9 DEF Coordinator

\* A token cancelled by the drain was not evaluated.
LEMMA StoppingKeepsReplies ==
    ASSUME ReplyInv, Stopping, NEW s \in Slots
    PROVE  ReplyOf(s)'
<1>1. TypeInv /\ ReplyOf(s)
  BY DEF ReplyInv, BorrowInv, RepliesMatch
<1>. USE DEF TypeInv, TypeOK, ReplyOf, AwaitedReply, Answered, decodeVars, sessionVars,
        slotVars, coordVars
<1>2. CASE StopSignal \/ ListenFailed \/ ModelStop
  BY <1>1, <1>2 DEF StopSignal, ListenFailed, ModelStop, StopModel
<1>3. CASE CancelDecodeWaiters
  BY <1>1, <1>3 DEF CancelDecodeWaiters, Cancel
<1>. QED BY <1>2, <1>3 DEF Stopping

LEMMA ReplyNext == ReplyInv /\ [Next]_vars => ReplyInv'
<1>. SUFFICES ASSUME ReplyInv, [Next]_vars PROVE RepliesMatch'
  BY BorrowNext DEF ReplyInv
<1>1. ASSUME NEW s \in Slots, JobBegin(s) \/ InJob(s) \/ JobFinish(s),
             NEW t \in Slots
      PROVE  ReplyOf(t)'
  BY <1>1, SlotKeepsReply, OthersMatch
<1>2. CASE UNCHANGED vars
  BY <1>2 DEF vars, ReplyInv, RepliesMatch, ReplyOf, AwaitedReply, Answered, decodeVars,
     sessionVars, slotVars, coordVars, stopVars
<1>. QED BY <1>1, <1>2, CoordinatorKeepsReplies, StoppingKeepsReplies
         DEF Next, Stopped, RepliesMatch

LEMMA ReplyAlways == Spec => []ReplyInv
<1>1. Init => ReplyInv
  BY TypeInvInit, BorrowInit, ReplyInit DEF BorrowInv, ReplyInv
<1>. QED BY <1>1, ReplyNext, PTL DEF Spec

\* With any number of slots a reply goes on only from a valid session that has
\* evaluated exactly its tokens, however the batches of the others ended.
THEOREM RepliesStandOnSessions == Spec => []ReplyMatchesSession
<1>1. ReplyInv => ReplyMatchesSession
  BY DEF ReplyInv, RepliesMatch, ReplyOf, ReplyMatchesSession
<1>. QED BY <1>1, ReplyAlways, PTL

\* A session that a failed batch left ahead of its reply is never continued
\* from: until a stop is requested it has been invalidated.
THEOREM NoPartialFrontier == Spec => []PartialFrontierInvalid
<1>1. ReplyInv => PartialFrontierInvalid
  BY DEF ReplyInv, RepliesMatch, ReplyOf, PartialFrontierInvalid
<1>. QED BY <1>1, ReplyAlways, PTL

-----------------------------------------------------------------------------
(* Wakeups. *)

\* Only a wait in server_prefill_enter or server_eval_token blocks a slot.
SleepersBlocked == \A s \in Slots \cap mcvWait : slot[s] \in {"enter", "await"}

\* After a drain that had nothing to cancel no slot runs a job before a stop is
\* requested, and after the join none does.
DrainedIdle ==
    drain # "serving" /\ (~gstop \/ drain = "stopping") =>
        \A s \in Slots : slot[s] = "idle"

WakeInv == TypeInv /\ SleepersBlocked /\ DrainedIdle /\ NoLostModelWakeup

LEMMA WakeInit == Init => SleepersBlocked /\ DrainedIdle /\ NoLostModelWakeup
BY DEF Init, SleepersBlocked, DrainedIdle, NoLostModelWakeup

\* Nobody who is asleep moves, and only a thread that is awake goes to sleep.
LEMMA SlotKeepsIdle ==
    ASSUME WakeInv, NEW s \in Slots, JobBegin(s) \/ InJob(s) \/ JobFinish(s)
    PROVE  SleepersBlocked' /\ DrainedIdle'
<1>1. UNCHANGED stopVars /\ \A t \in Slots \ {s} : slot'[t] = slot[t]
  BY SlotLeavesOthers DEF WakeInv
<1>2. s \notin mcvWait
  BY DEF JobBegin, InJob, JobReject, JobPrepare, Prefilling, ChooseQuantum,
     SyncInterrupted, AskTurn, WaitTurn, PrefillEnter, TakeTurn, PrefillAbandon,
     HoldingTurn, PrefillLock, PrefillRun, PrefillLeave, LeaveTurn, Decoding, HeadersFail,
     GenerationEnter, DecodeEnds, EvalSubmit, EvalWait, ReturnToken, TokenKept,
     TokenEnds, EvalFailed, EvalReturn, GenerationLeave, Closing, RewriteInPlace,
     ToRewrite, RewriteRun, RewriteBySync, RememberTools, JobFinish, Step, At, Awake
<1>3. \/ mcvWait' \subseteq mcvWait
      \/ mcvWait' \subseteq mcvWait \cup {s} /\ slot'[s] \in {"enter", "await"}
  BY DEF JobBegin, InJob, JobReject, JobPrepare, Prefilling, ChooseQuantum,
     SyncInterrupted, AskTurn, WaitTurn, PrefillEnter, TakeTurn, PrefillAbandon,
     HoldingTurn, PrefillLock, PrefillRun, PrefillLeave, LeaveTurn, Decoding, HeadersFail,
     GenerationEnter, DecodeEnds, EvalSubmit, SubmitToken, EvalWait, ReturnToken,
     TokenKept, TokenEnds, EvalFailed, GenerationLeave, Closing, RewriteInPlace,
     RewriteRun, RewriteBySync, RememberTools, JobFinish, Step, At, Goto, Broadcast,
     Sleep, WakeInv, TypeInv, TypeOK, slotVars
<1>4. SleepersBlocked'
  BY <1>1, <1>2, <1>3 DEF WakeInv, SleepersBlocked
<1>5. slot[s] # "idle" \/ drain = "serving" \/ (drain = "cancelled" /\ gstop)
  BY DEF JobBegin, InJob, JobReject, JobPrepare, Prefilling, ChooseQuantum,
     SyncInterrupted, AskTurn, WaitTurn, PrefillEnter, TakeTurn, PrefillAbandon,
     HoldingTurn, PrefillLock, PrefillRun, PrefillLeave, LeaveTurn, Decoding, HeadersFail,
     GenerationEnter, DecodeEnds, EvalSubmit, EvalWait, ReturnToken, TokenKept,
     TokenEnds, EvalFailed, EvalReturn, GenerationLeave, Closing, RewriteInPlace,
     ToRewrite, RewriteRun, RewriteBySync, RememberTools, JobFinish, Step, At
<1>6. DrainedIdle'
  BY <1>1, <1>5 DEF WakeInv, DrainedIdle, stopVars
<1>. QED BY <1>4, <1>6

\* A reason to sleep is there as long as what the wait looks at is.
LEMMA MustWaitKept ==
    ASSUME NEW t \in Slots, MustWait(t, WaitingSlots),
           modelBusy' \/ UNCHANGED <<modelBusy, decodePending, lastPrefill, prefillWaiting>>
    PROVE  MustWait(t, WaitingSlots)'
BY DEF MustWait, IsNextPrefill, Distance, WaitingSlots

\* A step of slot s that wakes nobody leaves the others their reasons.
LEMMA SleepersKeepReasons ==
    ASSUME WakeInv, NEW s \in Slots, JobBegin(s) \/ InJob(s) \/ JobFinish(s),
           mcvWait' \subseteq mcvWait \cup {s},
           UNCHANGED <<decodePending, modelStopping>>,
           modelBusy => modelBusy',
           \/ gstop
           \/ modelBusy'
           \/ UNCHANGED <<modelBusy, lastPrefill, prefillWaiting>>,
           s \in mcvWait' =>
               /\ ~gstop
               /\ \/ slot'[s] = "enter" /\ MustWait(s, WaitingSlots)'
                  \/ slot'[s] = "await" /\ ~decodeDone'[s]
    PROVE  NoLostModelWakeup'
<1>1. /\ UNCHANGED <<coordVars, stopVars>>
      /\ \A t \in Slots \ {s} : slot'[t] = slot[t] /\ decodeDone'[t] = decodeDone[t]
  BY SlotLeavesOthers DEF WakeInv
<1>2. UNCHANGED <<coord, gstop, drain>>
  BY <1>1 DEF coordVars, stopVars
<1>3. ASSUME NEW t \in Slots, t \in mcvWait'
      PROVE  /\ \/ gstop'
                \/ slot'[t] = "enter" /\ MustWait(t, WaitingSlots)'
                \/ slot'[t] = "await" /\ ~decodeDone'[t]
             /\ gstop' => drain' = "serving"
  <2>1. CASE t = s
    BY <1>2, <1>3, <2>1
  <2>2. CASE t # s
    <3>1. t \in mcvWait
      BY <1>3, <2>2
    <3>2. /\ \/ gstop
             \/ slot[t] = "enter" /\ MustWait(t, WaitingSlots)
             \/ slot[t] = "await" /\ ~decodeDone[t]
          /\ gstop => drain = "serving"
      BY <3>1 DEF WakeInv, NoLostModelWakeup
    <3>3. ~gstop /\ MustWait(t, WaitingSlots) => MustWait(t, WaitingSlots)'
      BY MustWaitKept
    <3>. QED BY <1>1, <1>2, <2>2, <3>2, <3>3
  <2>. QED BY <2>1, <2>2
<1>4. Coord \in mcvWait' => Coord \in mcvWait
  BY NAssumption DEF Coord, Slots
<1>5. Coord \in mcvWait' =>
        \/ coord' = "look" /\ decodePending' = 0 /\ ~modelStopping'
        \/ coord' = "gather" /\ modelBusy'
  BY <1>2, <1>4 DEF WakeInv, NoLostModelWakeup
<1>. QED BY <1>3, <1>5 DEF NoLostModelWakeup

\* Whoever wakes everybody has nothing to leave them.
LEMMA NobodyElseSleeps ==
    ASSUME WakeInv, NEW s \in Slots,
           mcvWait' \subseteq {s},
           s \in mcvWait' =>
               /\ ~gstop'
               /\ \/ slot'[s] = "enter" /\ MustWait(s, WaitingSlots)'
                  \/ slot'[s] = "await" /\ ~decodeDone'[s]
    PROVE  NoLostModelWakeup'
<1>1. Coord \notin mcvWait'
  BY NAssumption DEF Coord, Slots
<1>. QED BY <1>1 DEF NoLostModelWakeup

\* A slot that makes somebody's reason to sleep go away wakes everybody.
LEMMA SlotKeepsWakeups ==
    ASSUME WakeInv, NEW s \in Slots, JobBegin(s) \/ InJob(s) \/ JobFinish(s)
    PROVE  NoLostModelWakeup'
<1>1. CASE JobBegin(s) \/ JobReject(s) \/ JobPrepare(s) \/ ChooseQuantum(s)
           \/ SyncInterrupted(s) \/ PrefillLock(s) \/ PrefillRun(s)
  <2>1. /\ UNCHANGED <<serverVars, prefillWaiting, mcvWait>>
        /\ s \notin mcvWait
    BY <1>1 DEF JobBegin, JobReject, JobPrepare, ChooseQuantum, SyncInterrupted,
       PrefillLock, PrefillRun, prefillVars, Step, At, Awake
  <2>. QED BY <2>1, SleepersKeepReasons DEF serverVars
<1>2. CASE HeadersFail(s) \/ DecodeEnds(s) \/ ReturnToken(s) \/ Closing(s) \/ JobFinish(s)
  <2>1. /\ UNCHANGED <<serverVars, prefillWaiting, mcvWait>>
        /\ s \notin mcvWait
    BY <1>2 DEF HeadersFail, DecodeEnds, ReturnToken, TokenKept, TokenEnds, EvalFailed,
       EvalReturn, Closing, RewriteInPlace, ToRewrite, RewriteRun, RewriteBySync,
       RememberTools, JobFinish, prefillVars, Step, At, Awake
  <2>. QED BY <2>1, SleepersKeepReasons DEF serverVars
<1>3. CASE PrefillLeave(s) \/ GenerationEnter(s) \/ GenerationLeave(s)
  BY <1>3, NobodyElseSleeps DEF PrefillLeave, GenerationEnter, GenerationLeave, Broadcast
<1>4. CASE AskTurn(s)
  <2>1. WaitingSlots' = WaitingSlots \cup {s}
    BY <1>4 DEF AskTurn, WaitingSlots, WakeInv, TypeInv, TypeOK
  <2>2. MustWait(s, WaitingSlots)'
    BY <1>4, <2>1 DEF AskTurn, MustWait, IsNextPrefill, Distance, serverVars
  <2>3. slot'[s] = "enter" /\ ~gstop' /\ mcvWait' = {s}
    BY <1>4 DEF AskTurn, Step, Goto, stopVars, WakeInv, TypeInv, TypeOK
  <2>. QED BY <2>2, <2>3, NobodyElseSleeps
<1>5. CASE WaitTurn(s)
  <2>1. /\ slot'[s] = "enter" /\ ~gstop /\ mcvWait' = mcvWait \cup {s}
        /\ UNCHANGED <<modelBusy, decodePending, lastPrefill, prefillWaiting, modelStopping>>
    BY <1>5 DEF WaitTurn, At, Sleep, slotVars, serverVars, prefillVars
  <2>2. MustWait(s, WaitingSlots)'
    BY <1>5, <2>1, MustWaitKept DEF WaitTurn
  <2>. QED BY <1>5, <2>1, <2>2, SleepersKeepReasons DEF InJob, Prefilling
<1>6. CASE PrefillEnter(s) \/ PrefillAbandon(s)
  <2>1. CASE Broadcast
    BY <2>1, NobodyElseSleeps DEF Broadcast
  <2>2. CASE ~Broadcast
    <3>1. /\ s \notin mcvWait /\ UNCHANGED mcvWait
          /\ UNCHANGED <<decodePending, modelStopping>>
          /\ modelBusy' = modelBusy \/ modelBusy' = TRUE
          /\ gstop \/ modelBusy' = TRUE
      BY <1>6, <2>2 DEF PrefillEnter, TakeTurn, PrefillAbandon, Step, At, Awake, serverVars
    <3>. QED BY <3>1, SleepersKeepReasons
  <2>. QED BY <2>1, <2>2
<1>7. CASE EvalSubmit(s)
  <2>1. CASE SubmitToken(s)
    BY <1>7, <2>1, NobodyElseSleeps DEF SubmitToken, GiveUp, Goto, Broadcast, EvalSubmit,
       stopVars, WakeInv, TypeInv, TypeOK
  <2>2. CASE ~SubmitToken(s)
    <3>1. /\ UNCHANGED <<mcvWait, modelBusy, decodePending, lastPrefill, modelStopping,
                         prefillWaiting>>
          /\ s \notin mcvWait
      BY <1>7, <2>2 DEF EvalSubmit, At, Awake, prefillVars
    <3>. QED BY <3>1, SleepersKeepReasons
  <2>. QED BY <2>1, <2>2
<1>8. CASE EvalWait(s)
  <2>1. /\ slot'[s] = "await" /\ ~gstop /\ mcvWait' = mcvWait \cup {s} /\ ~decodeDone'[s]
        /\ UNCHANGED <<modelBusy, decodePending, lastPrefill, prefillWaiting, modelStopping>>
    BY <1>8 DEF EvalWait, At, Sleep, slotVars, serverVars, prefillVars, decodeVars
  <2>. QED BY <1>8, <2>1, SleepersKeepReasons DEF InJob, Decoding
<1>. QED BY <1>1, <1>2, <1>3, <1>4, <1>5, <1>6, <1>7, <1>8
         DEF InJob, Prefilling, HoldingTurn, Decoding

\* The coordinator gives the turn back with a broadcast; when it takes the turn
\* the slots that wait for it have one reason more.
LEMMA CoordinatorKeepsWake ==
    ASSUME WakeInv, Coordinator
    PROVE  SleepersBlocked' /\ DrainedIdle' /\ NoLostModelWakeup'
<1>1. UNCHANGED <<slotVars, stopVars>>
  BY DEF Coordinator, CoordWait, CoordExit, CoordCoalesce, CoordWaitTurn, CoordGather,
     CoordLock, EvalBatchOk, EvalBatchFails, StopHalfway, EvalBatchRejected, EndEval,
     CoordPublish, Publish
<1>2. UNCHANGED <<slot, gstop, drain>>
  BY <1>1 DEF slotVars, stopVars
<1>3. mcvWait' \subseteq mcvWait \cup {Coord} /\ Coord \notin Slots
  BY NAssumption DEF Coordinator, CoordWait, CoordExit, CoordCoalesce, CoordWaitTurn, CoordGather,
     CoordLock, EvalBatchOk, EvalBatchFails, StopHalfway, EvalBatchRejected, EndEval,
     CoordPublish, Publish, Sleep, Broadcast, Coord, Slots
<1>4. SleepersBlocked' /\ DrainedIdle'
  <2>1. \A t \in Slots \cap mcvWait' : t \in mcvWait
    BY <1>3
  <2>2. SleepersBlocked'
    BY <1>2, <2>1 DEF WakeInv, SleepersBlocked
  <2>3. DrainedIdle'
    BY <1>2 DEF WakeInv, DrainedIdle
  <2>. QED BY <2>2, <2>3
<1>5. ASSUME CoordPublish PROVE NoLostModelWakeup'
  BY <1>5 DEF CoordPublish, Broadcast, NoLostModelWakeup
<1>6. ASSUME ~CoordPublish PROVE NoLostModelWakeup'
  <2>1. Coord \notin mcvWait /\ UNCHANGED <<decodeDone, lastPrefill, prefillWaiting,
                                             modelStopping>>
    BY <1>6 DEF Coordinator, CoordWait, CoordExit, CoordCoalesce, CoordWaitTurn,
       CoordGather, CoordLock, EvalBatchOk, EvalBatchFails, StopHalfway,
       EvalBatchRejected, EndEval, ReadyToGather, CoordAt, Awake, serverVars,
       prefillVars, decodeVars
  <2>2. modelBusy' \/ UNCHANGED <<modelBusy, decodePending>>
    <3>1. CASE CoordGather
      <4>1. CASE {s \in Slots : pending[s]} = {}
        <5>1. decodePending' = decodePending - Cardinality({})
          BY <3>1, <4>1 DEF CoordGather
        <5>2. decodePending' = decodePending
          BY <5>1, FS_EmptySet DEF WakeInv, TypeInv, TypeOK
        <5>3. modelBusy' = FALSE /\ modelBusy = FALSE
          BY <3>1, <4>1 DEF CoordGather, WakeInv, TypeInv, TypeOK
        <5>. QED BY <5>2, <5>3
      <4>2. CASE {s \in Slots : pending[s]} # {}
        BY <3>1, <4>2 DEF CoordGather
      <4>. QED BY <4>1, <4>2
    <3>2. CASE ~CoordGather
      BY <1>6, <3>2 DEF Coordinator, CoordWait, CoordExit, CoordCoalesce, CoordWaitTurn,
         CoordLock, EvalBatchOk, EvalBatchFails, StopHalfway, EvalBatchRejected, EndEval,
         serverVars
    <3>. QED BY <3>1, <3>2
  <2>3. ASSUME NEW t \in Slots, t \in mcvWait'
        PROVE  /\ \/ gstop'
                  \/ slot'[t] = "enter" /\ MustWait(t, WaitingSlots)'
                  \/ slot'[t] = "await" /\ ~decodeDone'[t]
               /\ gstop' => drain' = "serving"
    <3>1. t \in mcvWait
      BY <1>3, <2>3
    <3>2. /\ \/ gstop
             \/ slot[t] = "enter" /\ MustWait(t, WaitingSlots)
             \/ slot[t] = "await" /\ ~decodeDone[t]
          /\ gstop => drain = "serving"
      BY <3>1 DEF WakeInv, NoLostModelWakeup
    <3>3. MustWait(t, WaitingSlots) => MustWait(t, WaitingSlots)'
      BY <2>1, <2>2, MustWaitKept
    <3>. QED BY <1>2, <2>1, <3>2, <3>3
  <2>4. Coord \in mcvWait' =>
          \/ coord' = "look" /\ decodePending' = 0 /\ ~modelStopping'
          \/ coord' = "gather" /\ modelBusy'
    <3>1. CASE CoordWait \/ CoordWaitTurn
      BY <3>1 DEF CoordWait, CoordWaitTurn, CoordAt, serverVars, coordVars
    <3>2. CASE ~(CoordWait \/ CoordWaitTurn)
      BY <1>6, <2>1, <3>2 DEF Coordinator, CoordExit, CoordCoalesce, CoordGather, CoordLock,
         EvalBatchOk, EvalBatchFails, StopHalfway, EvalBatchRejected, EndEval
    <3>. QED BY <3>1, <3>2
  <2>. QED BY <2>3, <2>4 DEF NoLostModelWakeup
<1>. QED BY <1>4, <1>5, <1>6

\* A stop finds the wakeup of its drain still to come.
LEMMA StoppingKeepsWake ==
    ASSUME WakeInv, Stopping
    PROVE  SleepersBlocked' /\ DrainedIdle' /\ NoLostModelWakeup'
<1>. USE DEF WakeInv, SleepersBlocked, DrainedIdle
<1>1. CASE StopSignal
  <2>1. /\ ~gstop /\ gstop' = TRUE
        /\ UNCHANGED <<slot, drain, mcvWait, coord, decodePending, modelStopping, modelBusy>>
    BY <1>1 DEF StopSignal, slotVars, coordVars, serverVars
  <2>2. ASSUME NEW t \in Slots \cap mcvWait PROVE drain = "serving"
    BY <2>1
  <2>3. NoLostModelWakeup'
    BY <2>1, <2>2 DEF NoLostModelWakeup
  <2>. QED BY <2>1, <2>3
<1>2. CASE CancelDecodeWaiters
  <2>1. gstop /\ gstop' = gstop /\ drain' = "cancelled" /\ mcvWait' = {}
    BY <1>2 DEF CancelDecodeWaiters, Cancel, Broadcast
  <2>. QED BY <2>1 DEF NoLostModelWakeup
<1>3. CASE ListenFailed
  <2>1. /\ \A s \in Slots : slot[s] = "idle"
        /\ UNCHANGED <<slot, mcvWait, coord, decodePending, modelStopping, modelBusy>>
    BY <1>3 DEF ListenFailed, slotVars, coordVars, serverVars
  <2>2. Slots \cap mcvWait' = {}
    BY <2>1
  <2>3. NoLostModelWakeup'
    BY <2>1, <2>2 DEF NoLostModelWakeup
  <2>. QED BY <2>1, <2>3
<1>4. CASE ModelStop
  BY <1>4 DEF ModelStop, StopModel, Broadcast, NoLostModelWakeup, slotVars
<1>. QED BY <1>1, <1>2, <1>3, <1>4 DEF Stopping

LEMMA WakeNext == WakeInv /\ [Next]_vars => WakeInv'
<1>. SUFFICES ASSUME WakeInv, [Next]_vars
              PROVE  SleepersBlocked' /\ DrainedIdle' /\ NoLostModelWakeup'
  BY TypeInvNext DEF WakeInv
<1>1. CASE UNCHANGED vars
  <2>1. UNCHANGED <<slot, gstop, drain, mcvWait, coord, decodePending, modelStopping,
                    modelBusy, lastPrefill, prefillWaiting, decodeDone>>
    BY <1>1 DEF vars, serverVars, prefillVars, decodeVars, slotVars, coordVars, stopVars
  <2>. QED BY <2>1, MustWaitKept DEF WakeInv, SleepersBlocked, DrainedIdle, NoLostModelWakeup
<1>. QED BY <1>1, SlotKeepsIdle, SlotKeepsWakeups, CoordinatorKeepsWake, StoppingKeepsWake
         DEF Next, Stopped

\* Nobody sleeps on model_cv without a reason, however many threads share it:
\* whoever frees the turn, answers a token or stops the model wakes the others.
THEOREM ModelWakeupsReach == Spec => []NoLostModelWakeup
<1>1. Init => WakeInv
  BY TypeInvInit, WakeInit DEF WakeInv
<1>2. WakeInv => NoLostModelWakeup
  BY DEF WakeInv
<1>. QED BY <1>1, <1>2, WakeNext, PTL DEF Spec
=============================================================================
