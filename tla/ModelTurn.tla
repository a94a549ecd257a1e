------------------------------ MODULE ModelTurn ------------------------------
(***************************************************************************)
(* The model plane of q36-server in batched mode (src/q36_server.c): who   *)
(* may run the model, and when.  Slot threads prefill in quanta, round     *)
(* robin, and hand every generated token to the decode coordinator, which  *)
(* gathers the pending tokens of all slots into one batch.                 *)
(*                                                                         *)
(* server.model_mu protects the turn; one critical section is one action   *)
(* and pthread_cond_wait on server.model_cv is an explicit wait set.       *)
(* server.inference_mu, held across a model step, is infer.  A slot thread *)
(* follows the control flow of generate_job; SlotDispatch says which job   *)
(* it runs, BatchServer puts the two together.                             *)
(***************************************************************************)
EXTENDS Integers, FiniteSets

CONSTANTS
    N,           \* server.slot_count
    MaxQuanta,   \* bound: quanta one server_session_sync needs
    MaxTokens,   \* bound: tokens one request generates
    Syncs        \* the kinds of server_session_sync the requests need

\* The syncs of generate_job: the stable prefix worth caching, the prompt, the
\* canonical form of the finished turn, the closing of an image turn.
Stages == {"cold", "prompt", "canon", "remember"}

ASSUME NAssumption      == N \in Nat \ {0}
ASSUME BoundsAssumption == MaxQuanta \in Nat \ {0} /\ MaxTokens \in Nat
ASSUME SyncsAssumption  == "prompt" \in Syncs /\ Syncs \subseteq Stages

Slots == 0 .. N - 1
Coord == N             \* the decode coordinator, beside the slot threads
Free  == -1            \* inference_mu is not held
Failed == -1           \* the last model step returned an error

VARIABLES
    \* server, under model_mu
    modelBusy,        \* server.model_busy
    decodePending,    \* server.decode_pending, a counter
    activeGen,        \* server.active_generations
    lastPrefill,      \* server.last_prefill_slot
    modelStopping,    \* server.model_stopping
    \* server_slot, under model_mu
    prefillWaiting,   \* server_slot.prefill_waiting
    mixed,            \* its quantum is the small one, for a mixed load
    pending,          \* server_slot.decode_pending
    inFlight,         \* server_slot.decode_in_flight
    decodeDone,       \* server_slot.decode_done
    decodeRc,         \* server_slot.decode_rc, 0: the token was evaluated
    mcvWait,          \* threads blocked on server.model_cv
    \* model execution
    infer,            \* the holder of inference_mu across a model step
    valid,            \* the slot's session has a valid checkpoint
    evals,            \* tokens the coordinator put in it since its last prefill
    \* threads
    slot,             \* where each slot thread is in generate_job
    stage,            \* which of generate_job's syncs it is in
    todo,             \* quanta that sync still needs; Failed: no use to go on
    kept,             \* tokens of the reply since the last prefill
    coord,            \* where the coordinator is
    members,          \* the slots of its batch
    batchRc,          \* the result of its batch
    gstop,            \* g_stop_requested
    drain             \* how far the main thread's drain has come

serverVars == <<modelBusy, decodePending, activeGen, lastPrefill, modelStopping>>
prefillVars == <<prefillWaiting, mixed>>
decodeVars == <<pending, inFlight, decodeDone, decodeRc>>
sessionVars == <<infer, valid, evals>>
slotVars   == <<slot, stage, todo, kept>>
coordVars  == <<coord, members, batchRc>>
stopVars   == <<gstop, drain>>
vars == <<serverVars, prefillVars, decodeVars, mcvWait, sessionVars, slotVars,
          coordVars, stopVars>>

SlotStates  == {"idle", "begin", "sync", "ask", "enter", "turn", "prefill", "leave",
                "ready", "decode", "await", "genleave", "after", "rewrite",
                "vision", "finish"}
CoordStates == {"look", "coalesce", "gather", "turn", "eval", "publish", "exited"}

TypeOK ==
    /\ modelBusy \in BOOLEAN
    /\ decodePending \in Int
    /\ activeGen \in Nat
    /\ lastPrefill \in Slots
    /\ modelStopping \in BOOLEAN
    /\ prefillWaiting \in [Slots -> BOOLEAN]
    /\ mixed \in [Slots -> BOOLEAN]
    /\ pending \in [Slots -> BOOLEAN]
    /\ inFlight \in [Slots -> BOOLEAN]
    /\ decodeDone \in [Slots -> BOOLEAN]
    /\ decodeRc \in [Slots -> 0 .. 1]
    /\ mcvWait \in SUBSET (Slots \cup {Coord})
    /\ infer \in Slots \cup {Coord, Free}
    /\ valid \in [Slots -> BOOLEAN]
    /\ evals \in [Slots -> Nat]
    /\ slot \in [Slots -> SlotStates]
    /\ stage \in [Slots -> Stages]
    /\ todo \in [Slots -> Failed .. MaxQuanta]
    /\ kept \in [Slots -> Nat]
    /\ coord \in CoordStates
    /\ members \in SUBSET Slots
    /\ batchRc \in 0 .. 1
    /\ gstop \in BOOLEAN
    /\ drain \in {"serving", "cancelled", "stopping"}

Init ==
    /\ modelBusy = FALSE
    /\ decodePending = 0
    /\ activeGen = 0
    /\ lastPrefill = N - 1
    /\ modelStopping = FALSE
    /\ prefillWaiting = [s \in Slots |-> FALSE]
    /\ mixed = [s \in Slots |-> FALSE]
    /\ pending = [s \in Slots |-> FALSE]
    /\ inFlight = [s \in Slots |-> FALSE]
    /\ decodeDone = [s \in Slots |-> FALSE]
    /\ decodeRc = [s \in Slots |-> 0]
    /\ mcvWait = {}
    /\ infer = Free
    /\ valid = [s \in Slots |-> FALSE]
    /\ evals = [s \in Slots |-> 0]
    /\ slot = [s \in Slots |-> "idle"]
    /\ stage = [s \in Slots |-> "prompt"]
    /\ todo = [s \in Slots |-> 0]
    /\ kept = [s \in Slots |-> 0]
    /\ coord = "look"
    /\ members = {}
    /\ batchRc = 0
    /\ gstop = FALSE
    /\ drain = "serving"

-----------------------------------------------------------------------------
(* Waiting for the turn. *)

Awake(t)  == t \notin mcvWait
Sleep(t)  == mcvWait' = mcvWait \cup {t}
Broadcast == mcvWait' = {}

At(s, pc)       == slot[s] = pc /\ Awake(s)
Goto(s, pc)     == slot' = [slot EXCEPT ![s] = pc]
Step(s, from, to) == At(s, from) /\ Goto(s, to)

\* How far slot s is behind the last prefill, going round the slots.
Distance(last, s) == (s + N - last - 1) % N

\* (Faulty variant: always the lowest slot.)
IsLowestPrefill(s, W) == s \in W /\ \A t \in W : s <= t

\* server_next_prefill_slot_locked, with the slots of W waiting.
IsNextPrefill(s, W) ==
    s \in W /\ \A t \in W : Distance(lastPrefill, s) <= Distance(lastPrefill, t)

\* (Faulty variants: the turn is not looked at; waiting tokens are not.)
MustWaitUnlessNext(s, W) == decodePending > 0 \/ ~IsNextPrefill(s, W)
MustWaitUnlessFree(s, W) == modelBusy \/ ~IsNextPrefill(s, W)

MustWait(s, W) == modelBusy \/ decodePending > 0 \/ ~IsNextPrefill(s, W)

WaitingSlots == {s \in Slots : prefillWaiting[s]}

-----------------------------------------------------------------------------
(* The start of generate_job and its prefills. *)

\* A job is handed to the slot.  A server that could not listen has none, and
\* once the main thread has joined the slot threads nobody takes one.
JobBegin(s) ==
    /\ drain = "serving" \/ (drain = "cancelled" /\ gstop)
    /\ Step(s, "idle", "begin")
    /\ UNCHANGED <<serverVars, prefillVars, decodeVars, mcvWait, sessionVars,
                   stage, todo, kept, coordVars, stopVars>>

\* A continuation that no longer fits the context is answered at once.
JobReject(s) ==
    /\ Step(s, "begin", "finish")
    /\ UNCHANGED <<serverVars, prefillVars, decodeVars, mcvWait, sessionVars,
                   stage, todo, kept, coordVars, stopVars>>

\* server_session_sync reads the session and finds out how much is missing;
\* the session is synced at least once even when nothing is.
BeginSync(s, st) ==
    /\ stage' = [stage EXCEPT ![s] = st]
    /\ \E q \in 1 .. MaxQuanta : todo' = [todo EXCEPT ![s] = q]
    /\ Goto(s, "sync")

KeepSession(s) == UNCHANGED <<valid, evals, kept>>

DropSession(s) == valid' = [valid EXCEPT ![s] = FALSE] /\ UNCHANGED <<evals, kept>>

\* A session that was rebuilt stands on its own prompt: the count of decoded
\* tokens starts over.
RenewSession(s) ==
    /\ valid' = [valid EXCEPT ![s] = TRUE]
    /\ evals' = [evals EXCEPT ![s] = 0]
    /\ kept' = [kept EXCEPT ![s] = 0]

\* The prefix source is settled: the session is kept, invalidated (images that
\* do not match) or replaced by a disk checkpoint, each under inference_mu.  A
\* prompt worth caching is synced to its stable boundary first.
JobPrepare(s) ==
    /\ At(s, "begin")
    /\ infer = Free
    /\ \E st \in {"cold", "prompt"} \cap Syncs : BeginSync(s, st)
    /\ KeepSession(s) \/ DropSession(s) \/ RenewSession(s)
    /\ UNCHANGED <<serverVars, prefillVars, decodeVars, mcvWait, infer,
                   coordVars, stopVars>>

\* The chunk loop of server_session_sync: server_prefill_quantum looks whether
\* anybody is generating.
ChooseQuantum(s) ==
    /\ ~gstop
    /\ Step(s, "sync", "ask")
    /\ mixed' = [mixed EXCEPT ![s] = activeGen > 0]
    /\ UNCHANGED <<serverVars, prefillWaiting, decodeVars, mcvWait, sessionVars,
                   stage, todo, kept, coordVars, stopVars>>

\* A failed prompt is answered with an error, a failed rewrite of the finished
\* turn is only logged.
AfterFailedSync(s) == IF stage[s] = "canon" THEN "vision" ELSE "finish"

\* Q36_SESSION_SYNC_INTERRUPTED
SyncInterrupted(s) ==
    /\ gstop
    /\ Step(s, "sync", AfterFailedSync(s))
    /\ UNCHANGED <<serverVars, prefillVars, decodeVars, mcvWait, sessionVars,
                   stage, todo, kept, coordVars, stopVars>>

\* server_prefill_enter announces the slot and waits.
AskTurn(s) ==
    /\ Step(s, "ask", "enter")
    /\ ~gstop
    /\ MustWait(s, WaitingSlots \cup {s})
    /\ prefillWaiting' = [prefillWaiting EXCEPT ![s] = TRUE]
    /\ mcvWait' = {s}
    /\ UNCHANGED <<serverVars, mixed, decodeVars, sessionVars, stage, todo, kept,
                   coordVars, stopVars>>

\* It was woken and it is still not its turn.
WaitTurn(s) ==
    /\ At(s, "enter")
    /\ ~gstop
    /\ MustWait(s, WaitingSlots)
    /\ Sleep(s)
    /\ UNCHANGED <<serverVars, prefillVars, decodeVars, sessionVars, slotVars,
                   coordVars, stopVars>>

\* server_prefill_enter returns true, without having waited or after it.
TakeTurn(s) ==
    /\ \/ Step(s, "ask", "turn") /\ Broadcast
       \/ Step(s, "enter", "turn") /\ UNCHANGED mcvWait
    /\ ~gstop
    /\ ~MustWait(s, WaitingSlots \cup {s})
    /\ prefillWaiting' = [prefillWaiting EXCEPT ![s] = FALSE]
    /\ modelBusy' = TRUE
    /\ UNCHANGED <<decodePending, activeGen, modelStopping, mixed, decodeVars,
                   sessionVars, stage, todo, kept, coordVars, stopVars>>

\* (Faulty variant: the slot after this one is noted.)
PrefillEnterNotesNext(s) == TakeTurn(s) /\ lastPrefill' = s + 1

PrefillEnter(s) == TakeTurn(s) /\ lastPrefill' = s

\* It returns false.
PrefillAbandon(s) ==
    /\ gstop
    /\ \/ Step(s, "ask", AfterFailedSync(s)) /\ Broadcast
       \/ Step(s, "enter", AfterFailedSync(s)) /\ UNCHANGED mcvWait
    /\ prefillWaiting' = [prefillWaiting EXCEPT ![s] = FALSE]
    /\ UNCHANGED <<serverVars, mixed, decodeVars, sessionVars, stage, todo, kept,
                   coordVars, stopVars>>

PrefillLock(s) ==
    /\ Step(s, "turn", "prefill")
    /\ infer = Free
    /\ infer' = s
    /\ UNCHANGED <<serverVars, prefillVars, decodeVars, mcvWait, valid, evals,
                   stage, todo, kept, coordVars, stopVars>>

\* q36_session_sync of one quantum.
PrefillRun(s) ==
    /\ Step(s, "prefill", "leave")
    /\ infer' = Free
    /\ \/ RenewSession(s) /\ todo' = [todo EXCEPT ![s] = @ - 1]
       \/ DropSession(s) /\ todo' = [todo EXCEPT ![s] = Failed]
    /\ UNCHANGED <<serverVars, prefillVars, decodeVars, mcvWait, stage,
                   coordVars, stopVars>>

\* What generate_job does with the result of the chunk.
AfterChunk(s) ==
    \/ /\ todo[s] > 0
       /\ Goto(s, "sync")
       /\ UNCHANGED <<stage, todo>>
    \/ /\ todo[s] = 0
       /\ stage[s] = "cold"
       /\ BeginSync(s, "prompt")
    \/ /\ todo[s] = 0
       /\ stage[s] = "prompt"
       /\ Goto(s, "ready")
       /\ UNCHANGED <<stage, todo>>
    \/ /\ \/ todo[s] = Failed
          \/ todo[s] = 0 /\ stage[s] \in {"canon", "remember"}
       /\ Goto(s, AfterFailedSync(s))
       /\ UNCHANGED <<stage, todo>>

\* server_prefill_leave
LeaveTurn(s) ==
    /\ At(s, "leave")
    /\ modelBusy' = FALSE
    /\ mixed' = [mixed EXCEPT ![s] = FALSE]
    /\ AfterChunk(s)
    /\ UNCHANGED <<decodePending, activeGen, lastPrefill, modelStopping,
                   prefillWaiting, decodeVars, sessionVars, kept, coordVars, stopVars>>

\* (Faulty variant: nobody is woken.)
PrefillLeaveSilently(s) == LeaveTurn(s) /\ UNCHANGED mcvWait

PrefillLeave(s) == LeaveTurn(s) /\ Broadcast

-----------------------------------------------------------------------------
(* The decode loop of generate_job. *)

\* The client went away before the response headers were written.
HeadersFail(s) ==
    /\ Step(s, "ready", "finish")
    /\ UNCHANGED <<serverVars, prefillVars, decodeVars, mcvWait, sessionVars,
                   stage, todo, kept, coordVars, stopVars>>

\* The head of the decode loop: it is entered again unless a stop is requested.
LoopHead(s) == Goto(s, IF gstop THEN "genleave" ELSE "decode")

GenerationEnter(s) ==
    /\ At(s, "ready")
    /\ LoopHead(s)
    /\ activeGen' = activeGen + 1
    /\ Broadcast
    /\ UNCHANGED <<modelBusy, decodePending, lastPrefill, modelStopping,
                   prefillVars, decodeVars, sessionVars, stage, todo, kept,
                   coordVars, stopVars>>

\* Token limit, full context, EOS or a failed sample.
DecodeEnds(s) ==
    /\ Step(s, "decode", "genleave")
    /\ UNCHANGED <<serverVars, prefillVars, decodeVars, mcvWait, sessionVars,
                   stage, todo, kept, coordVars, stopVars>>

\* The token was not evaluated: finish is "error".
GiveUp(s) == Goto(s, "genleave") /\ todo' = [todo EXCEPT ![s] = Failed]

\* (Faulty variant: the thread does not wait for it.)
SubmitWithoutWaiting(s) ==
    /\ pending' = [pending EXCEPT ![s] = TRUE]
    /\ UNCHANGED <<decodeDone, decodeRc>>
    /\ decodePending' = decodePending + 1
    /\ GiveUp(s)
    /\ Broadcast

\* The token waits for the coordinator, and its thread for the token, unless a
\* stop has been requested meanwhile.
SubmitToken(s) ==
    /\ pending' = [pending EXCEPT ![s] = TRUE]
    /\ decodeDone' = [decodeDone EXCEPT ![s] = FALSE]
    /\ decodeRc' = [decodeRc EXCEPT ![s] = 1]
    /\ decodePending' = decodePending + 1
    /\ IF gstop THEN GiveUp(s) /\ Broadcast
                ELSE Goto(s, "await") /\ mcvWait' = {s} /\ UNCHANGED todo

\* server_eval_token hands over the sampled token.  It refuses a slot that has
\* left a token behind at a stop; no job gets this far after one.
EvalSubmit(s) ==
    /\ At(s, "decode")
    /\ kept[s] < MaxTokens
    /\ IF pending[s] \/ inFlight[s]
       THEN GiveUp(s) /\ UNCHANGED <<pending, decodeDone, decodeRc, decodePending, mcvWait>>
       ELSE SubmitToken(s)
    /\ UNCHANGED <<modelBusy, activeGen, lastPrefill, modelStopping, prefillVars,
                   inFlight, sessionVars, stage, kept, coordVars, stopVars>>

EvalWait(s) ==
    /\ At(s, "await")
    /\ ~decodeDone[s]
    /\ ~gstop
    /\ Sleep(s)
    /\ UNCHANGED <<serverVars, prefillVars, decodeVars, sessionVars, slotVars,
                   coordVars, stopVars>>

\* server_eval_token returns.
\* (Faulty variants: the result is not looked at; a wakeup is taken for it.)
EvaluatedWhenDone(s) == decodeDone[s]

EvalReturnWhenWoken(s) ==
    /\ At(s, "await")
    /\ decodeDone' = [decodeDone EXCEPT ![s] = FALSE]

Evaluated(s) == decodeDone[s] /\ decodeRc[s] = 0

EvalReturn(s) ==
    /\ At(s, "await")
    /\ decodeDone[s] \/ gstop
    /\ decodeDone' = [decodeDone EXCEPT ![s] = FALSE]

\* The token joins the reply.
TokenKept(s) ==
    /\ EvalReturn(s)
    /\ Evaluated(s)
    /\ kept' = [kept EXCEPT ![s] = @ + 1]
    /\ LoopHead(s)
    /\ UNCHANGED <<serverVars, prefillVars, pending, inFlight, decodeRc, mcvWait,
                   sessionVars, stage, todo, coordVars, stopVars>>

\* The token ends the reply: a tool call or a failed write to the client, or a
\* stop string, which invalidates the session with no lock held.
TokenEnds(s) ==
    /\ EvalReturn(s)
    /\ Evaluated(s)
    /\ kept' = [kept EXCEPT ![s] = @ + 1]
    /\ \E v \in {valid[s], FALSE} : valid' = [valid EXCEPT ![s] = v]
    /\ Goto(s, "genleave")
    /\ UNCHANGED <<serverVars, prefillVars, pending, inFlight, decodeRc, mcvWait,
                   infer, evals, stage, todo, coordVars, stopVars>>

EvalFailed(s) ==
    /\ EvalReturn(s)
    /\ ~Evaluated(s)
    /\ GiveUp(s)
    /\ UNCHANGED <<serverVars, prefillVars, pending, inFlight, decodeRc, mcvWait,
                   sessionVars, stage, kept, coordVars, stopVars>>

GenerationLeave(s) ==
    /\ Step(s, "genleave", "after")
    /\ activeGen' = IF activeGen > 0 THEN activeGen - 1 ELSE activeGen
    /\ Broadcast
    /\ UNCHANGED <<modelBusy, decodePending, lastPrefill, modelStopping,
                   prefillVars, decodeVars, sessionVars, stage, todo, kept,
                   coordVars, stopVars>>

-----------------------------------------------------------------------------
(* The end of generate_job: the session is made to match what the next        *)
(* request of the conversation will render.                                  *)

\* After an error only complete tool calls are worth a rewrite, so there must be
\* a reply.
ToRewrite(s) ==
    /\ At(s, "after")
    /\ valid[s]
    /\ todo[s] = Failed => kept[s] > 0

\* q36_session_rewrite_from_common: the session is a prefix of the canonical
\* turn, the rest is prefilled at once, without a turn and without a lock.
RewriteInPlace(s) ==
    /\ ToRewrite(s)
    /\ Goto(s, "rewrite")
    /\ "canon" \in Syncs
    /\ UNCHANGED <<serverVars, prefillVars, decodeVars, mcvWait, sessionVars,
                   stage, todo, kept, coordVars, stopVars>>

RewriteRun(s) ==
    /\ Step(s, "rewrite", "vision")
    /\ RenewSession(s) \/ DropSession(s)
    /\ UNCHANGED <<serverVars, prefillVars, decodeVars, mcvWait, infer,
                   stage, todo, coordVars, stopVars>>

\* The canonical turn diverges from the session: load a checkpoint from disk
\* or invalidate, then sync.
RewriteBySync(s) ==
    /\ ToRewrite(s)
    /\ "canon" \in Syncs
    /\ BeginSync(s, "canon")
    /\ KeepSession(s) \/ DropSession(s) \/ RenewSession(s)
    /\ UNCHANGED <<serverVars, prefillVars, decodeVars, mcvWait, infer,
                   coordVars, stopVars>>

\* slot_remember_vision_tools closes the turn of an image request.
RememberTools(s) ==
    /\ ToRewrite(s) \/ (At(s, "vision") /\ valid[s])
    /\ "remember" \in Syncs
    /\ BeginSync(s, "remember")
    /\ UNCHANGED <<serverVars, prefillVars, decodeVars, mcvWait, sessionVars,
                   kept, coordVars, stopVars>>

\* generate_job returns; its local variables and its reply are gone, and what
\* the session holds now is where the next request starts from.
JobFinish(s) ==
    /\ At(s, "after") \/ At(s, "vision") \/ At(s, "finish")
    /\ Goto(s, "idle")
    /\ stage' = [stage EXCEPT ![s] = "prompt"]
    /\ todo' = [todo EXCEPT ![s] = 0]
    /\ kept' = [kept EXCEPT ![s] = 0]
    /\ evals' = [evals EXCEPT ![s] = 0]
    /\ UNCHANGED <<serverVars, prefillVars, decodeVars, mcvWait, infer, valid,
                   coordVars, stopVars>>

-----------------------------------------------------------------------------
(* The decode coordinator (decode_worker_main). *)

CoordAt(pc) == coord = pc /\ Awake(Coord)

CoordWait ==
    /\ CoordAt("look")
    /\ decodePending = 0
    /\ ~modelStopping
    /\ Sleep(Coord)
    /\ UNCHANGED <<serverVars, prefillVars, decodeVars, sessionVars, slotVars,
                   coordVars, stopVars>>

CoordExit ==
    /\ CoordAt("look")
    /\ decodePending = 0
    /\ modelStopping
    /\ coord' = "exited"
    /\ UNCHANGED <<serverVars, prefillVars, decodeVars, mcvWait, sessionVars,
                   slotVars, members, batchRc, stopVars>>

\* Others are generating: wait up to 2 ms for their tokens.  Every wakeup and
\* the deadline are left to chance.
CoordCoalesce ==
    /\ CoordAt("look")
    /\ decodePending > 0
    /\ decodePending < N
    /\ decodePending < activeGen
    /\ ~modelStopping
    /\ coord' = "coalesce"
    /\ UNCHANGED <<serverVars, prefillVars, decodeVars, mcvWait, sessionVars,
                   slotVars, members, batchRc, stopVars>>

ReadyToGather ==
    \/ CoordAt("look") /\ decodePending > 0
    \/ CoordAt("coalesce")
    \/ CoordAt("gather")

CoordWaitTurn ==
    /\ ReadyToGather
    /\ modelBusy
    /\ coord' = "gather"
    /\ Sleep(Coord)
    /\ UNCHANGED <<serverVars, prefillVars, decodeVars, sessionVars, slotVars,
                   members, batchRc, stopVars>>

\* Every pending token joins the batch; cancelled ones may have left none.
CoordGather ==
    LET batch == {s \in Slots : pending[s]} IN
    /\ ReadyToGather
    /\ ~modelBusy
    /\ members' = batch
    /\ pending' = [s \in Slots |-> FALSE]
    /\ inFlight' = [s \in Slots |-> inFlight[s] \/ s \in batch]
    /\ decodePending' = decodePending - Cardinality(batch)
    /\ modelBusy' = (batch # {})
    /\ coord' = IF batch = {} THEN "look" ELSE "turn"
    /\ UNCHANGED <<activeGen, lastPrefill, modelStopping, prefillVars, decodeDone,
                   decodeRc, mcvWait, sessionVars, slotVars, batchRc, stopVars>>

CoordLock ==
    /\ CoordAt("turn")
    /\ infer = Free
    /\ infer' = Coord
    /\ coord' = "eval"
    /\ UNCHANGED <<serverVars, prefillVars, decodeVars, mcvWait, valid, evals,
                   slotVars, members, batchRc, stopVars>>

EndEval(rc) ==
    /\ CoordAt("eval")
    /\ infer' = Free
    /\ batchRc' = rc
    /\ coord' = "publish"
    /\ UNCHANGED <<serverVars, prefillVars, decodeVars, mcvWait, slotVars,
                   members, stopVars>>

\* q36_sessions_eval_batch
EvalBatchOk ==
    /\ EndEval(0)
    /\ valid' = [s \in Slots |-> valid[s] \/ s \in members]
    /\ evals' = [s \in Slots |-> IF s \in members THEN evals[s] + 1 ELSE evals[s]]

\* A member failed: in the ordered fallback the members before it have already
\* advanced.
StopHalfway ==
    /\ EndEval(1)
    /\ \E advanced \in SUBSET members :
          /\ advanced # members
          /\ evals' = [s \in Slots |-> IF s \in advanced THEN evals[s] + 1 ELSE evals[s]]

\* (Faulty variant: nothing is invalidated.)
EvalBatchFailsHalfway == StopHalfway /\ UNCHANGED valid

\* Every member is invalidated.
EvalBatchFails ==
    StopHalfway /\ valid' = [s \in Slots |-> valid[s] /\ s \notin members]

\* A batch that is rejected before any member has run leaves all as they are.
EvalBatchRejected ==
    /\ EndEval(1)
    /\ UNCHANGED <<valid, evals>>

Publish ==
    /\ CoordAt("publish")
    /\ modelBusy' = FALSE
    /\ inFlight' = [s \in Slots |-> inFlight[s] /\ s \notin members]
    /\ decodeRc' = [s \in Slots |-> IF s \in members THEN batchRc ELSE decodeRc[s]]
    /\ decodeDone' = [s \in Slots |-> decodeDone[s] \/ s \in members]
    /\ members' = {}
    /\ batchRc' = 0
    /\ coord' = "look"
    /\ UNCHANGED <<decodePending, activeGen, lastPrefill, modelStopping,
                   prefillVars, pending, sessionVars, slotVars, stopVars>>

\* (Faulty variant: nobody is woken.)
CoordPublishSilently == Publish /\ UNCHANGED mcvWait

CoordPublish == Publish /\ Broadcast

-----------------------------------------------------------------------------
(* Stopping, as the main thread drives it. *)

StopSignal ==
    /\ ~gstop
    /\ gstop' = TRUE
    /\ UNCHANGED <<serverVars, prefillVars, decodeVars, mcvWait, sessionVars,
                   slotVars, coordVars, drain>>

\* server_cancel_decode_waiters_locked, which leaves n in the counter.
Cancel(n) ==
    LET waiting == {s \in Slots : pending[s]} IN
    /\ gstop
    /\ drain = "serving"
    /\ drain' = "cancelled"
    /\ pending' = [s \in Slots |-> FALSE]
    /\ decodeDone' = [s \in Slots |-> decodeDone[s] \/ s \in waiting]
    /\ decodeRc' = [s \in Slots |-> IF s \in waiting THEN 1 ELSE decodeRc[s]]
    /\ decodePending' = n
    /\ Broadcast
    /\ UNCHANGED <<modelBusy, activeGen, lastPrefill, modelStopping, prefillVars,
                   inFlight, sessionVars, slotVars, coordVars, gstop>>

\* (Faulty variant: the counter is left as it is.)
CancelDecodeWaitersUncounted == Cancel(decodePending)

CancelDecodeWaiters ==
    LET cancelled == Cardinality({s \in Slots : pending[s]}) IN
    Cancel(IF decodePending > cancelled THEN decodePending - cancelled ELSE 0)

\* listen_on failed before any job existed: the drain skips the cancellation.
ListenFailed ==
    /\ drain = "serving"
    /\ \A s \in Slots : slot[s] = "idle" /\ ~pending[s] /\ ~inFlight[s]
    /\ drain' = "cancelled"
    /\ UNCHANGED <<serverVars, prefillVars, decodeVars, mcvWait, sessionVars,
                   slotVars, coordVars, gstop>>

\* All slot threads have been joined.
StopModel ==
    /\ drain = "cancelled"
    /\ \A s \in Slots : slot[s] = "idle"
    /\ drain' = "stopping"
    /\ modelStopping' = TRUE
    /\ UNCHANGED <<modelBusy, decodePending, activeGen, lastPrefill, prefillVars,
                   decodeVars, sessionVars, slotVars, coordVars, gstop>>

\* (Faulty variant: the coordinator is not woken.)
ModelStopSilently == StopModel /\ UNCHANGED mcvWait

ModelStop == StopModel /\ Broadcast

Stopped ==
    /\ coord = "exited"
    /\ UNCHANGED vars

-----------------------------------------------------------------------------
HoldingTurn(s) == PrefillLock(s) \/ PrefillRun(s) \/ PrefillLeave(s)

ReturnToken(s) == TokenKept(s) \/ TokenEnds(s) \/ EvalFailed(s)

Prefilling(s) ==
    \/ ChooseQuantum(s) \/ SyncInterrupted(s) \/ AskTurn(s) \/ WaitTurn(s)
    \/ PrefillEnter(s) \/ PrefillAbandon(s) \/ HoldingTurn(s)

Decoding(s) ==
    \/ HeadersFail(s) \/ GenerationEnter(s) \/ DecodeEnds(s) \/ EvalSubmit(s)
    \/ EvalWait(s) \/ ReturnToken(s) \/ GenerationLeave(s)

Closing(s) == RewriteInPlace(s) \/ RewriteRun(s) \/ RewriteBySync(s) \/ RememberTools(s)

\* generate_job between its call and its return.
InJob(s) == JobReject(s) \/ JobPrepare(s) \/ Prefilling(s) \/ Decoding(s) \/ Closing(s)

Coordinator ==
    \/ CoordWait \/ CoordExit \/ CoordCoalesce \/ CoordWaitTurn
    \/ CoordGather \/ CoordLock \/ EvalBatchOk \/ EvalBatchFails \/ EvalBatchRejected
    \/ CoordPublish

Stopping == StopSignal \/ CancelDecodeWaiters \/ ListenFailed \/ ModelStop

Next ==
    \/ \E s \in Slots : JobBegin(s) \/ InJob(s) \/ JobFinish(s)
    \/ Coordinator
    \/ Stopping
    \/ Stopped

Spec == Init /\ [][Next]_vars

-----------------------------------------------------------------------------
(* What a correct model plane promises. *)

InTurn(s) == slot[s] \in {"turn", "prefill", "leave"}
CoordInTurn == coord \in {"turn", "eval", "publish"}

\* model_busy means that exactly one thread has the turn, and inference_mu is
\* only ever held by that thread: the turn alone already keeps prefills and
\* decode batches apart.
TurnExclusive ==
    /\ \A s, t \in Slots : InTurn(s) /\ InTurn(t) => s = t
    /\ \A s \in Slots : InTurn(s) => ~CoordInTurn
    /\ modelBusy = (CoordInTurn \/ \E s \in Slots : InTurn(s))
    /\ infer = Coord => coord = "eval"
    /\ \A s \in Slots : infer = s => slot[s] = "prefill"

\* The counters the wait predicates read are what they count; "> 0" guards and
\* the cancellation never make them drift.
CountersExact ==
    /\ decodePending = Cardinality({s \in Slots : pending[s]})
    /\ activeGen = Cardinality({s \in Slots : slot[s] \in {"decode", "await", "genleave"}})

\* While the server is not stopping, the coordinator works on a session only
\* while the thread that owns it is blocked on the result.
BorrowedWhileBlocked ==
    ~gstop => \A s \in Slots : pending[s] \/ inFlight[s] => slot[s] = "await"

\* A thread asleep on model_cv has a reason to sleep, or the wakeup of the
\* drain is still to come.
NoLostModelWakeup ==
    /\ \A s \in Slots \cap mcvWait :
          /\ \/ gstop
             \/ slot[s] = "enter" /\ MustWait(s, WaitingSlots)
             \/ slot[s] = "await" /\ ~decodeDone[s]
          /\ gstop => drain = "serving"
    /\ Coord \in mcvWait =>
          \/ coord = "look" /\ decodePending = 0 /\ ~modelStopping
          \/ coord = "gather" /\ modelBusy

\* A reply goes on only from a valid session that has evaluated exactly its
\* tokens, each once.
ReplyMatchesSession ==
    \A s \in Slots : slot[s] = "decode" => valid[s] /\ evals[s] = kept[s]

\* A session that is ahead of the reply it belongs to is not continued from:
\* unless the server is stopping it has been invalidated.
PartialFrontierInvalid ==
    \A s \in Slots : ~gstop /\ slot[s] # "await" /\ evals[s] # kept[s] => ~valid[s]

GivenTurn(s) == slot[s] \in {"ask", "enter"} /\ slot'[s] = "turn"

\* Round robin: each prefill turn given away brings every other waiting slot
\* strictly nearer to its own, so none is passed over N times.
PrefillTurnsRotate ==
    [][\A s, t \in Slots :
          GivenTurn(t) /\ s # t /\ prefillWaiting[s] =>
              Distance(lastPrefill', s) < Distance(lastPrefill, s)]_vars

\* No prefill turn starts while a token is waiting to be decoded
\* (docs/SERVER.md: one large prompt must not block every active decoder).
DecodeGoesFirst ==
    [][\A s, t \in Slots : GivenTurn(t) => ~pending[s]]_vars

\* A submitted token is always answered, also when the server stops.
SubmittedIsAnswered ==
    \A s \in Slots : slot[s] = "await" ~> slot[s] # "await"

\* q36_server.c:10: "The worker owns the q36_session".  The thread that runs a
\* request does not rebuild its session while the coordinator evaluates a token
\* in it.
WorkerOwnsSession ==
    \A s \in Slots : coord = "eval" /\ s \in members => slot[s] # "rewrite"

\* docs/SERVER.md: "One coordinator owns model execution."  While it serves,
\* at most one thread is inside a model step.
OneModelExecutor ==
    ~gstop => Cardinality({s \in Slots : slot[s] \in {"prefill", "rewrite"}}
                    \cup {t \in {Coord} : coord = "eval"}) <= 1
=============================================================================
