----------------------------- MODULE BatchServer -----------------------------
(***************************************************************************)
(* q36-server in batched mode as one system: the request plane              *)
(* (SlotDispatch, under server.mu) and the model plane (ModelTurn, under    *)
(* server.model_mu) share the slot threads, the main thread and             *)
(* g_stop_requested, and meet where                                         *)
(*                                                                         *)
(*   - slot_worker_main calls generate_job and comes back from it,          *)
(*   - the signal handler stops both planes at once,                        *)
(*   - main cancels the waiting decodes, joins the slot threads, stops the  *)
(*     coordinator and joins it before it waits for the clients and         *)
(*     persists the sessions.                                               *)
(***************************************************************************)
EXTENDS Integers, Sequences, FiniteSets

CONSTANTS N, Clients, Prompt, Reply, NoJob, MaxQuanta, MaxTokens, Syncs

VARIABLES
    \* the request plane
    queue, assigned, busy, live, pend, stopping, clients, worker, job, cvWait,
    client, done, mainpc,
    \* the model plane
    modelBusy, decodePending, activeGen, lastPrefill, modelStopping,
    prefillWaiting, mixed, pending, inFlight, decodeDone, decodeRc, mcvWait,
    infer, valid, evals, slot, stage, todo, kept, coord, members, batchRc,
    \* both
    gstop, batched

\* How far main's drain has come, as far as the model plane can tell.
drain ==
    CASE mainpc \in {"listen", "accept", "stop", "cancel"} -> "serving"
      [] mainpc \in {"join", "modelStop"} -> "cancelled"
      [] OTHER -> "stopping"

SD == INSTANCE SlotDispatch
MT == INSTANCE ModelTurn

\* What the two planes assume of their constants, for the server that runs both.
ASSUME RequestsAssumption ==
    /\ N \in Nat \ {0}
    /\ {NoJob, "idle", "resting"} \cap Clients = {}
    /\ Reply \in Nat /\ Prompt \in [Clients -> Seq(Nat)]
    /\ \A c \in Clients : Len(Prompt[c]) < SD!INT_MAX \div 2
ASSUME ModelAssumption ==
    /\ MaxQuanta \in Nat \ {0} /\ MaxTokens \in Nat
    /\ "prompt" \in Syncs /\ Syncs \subseteq MT!Stages

Slots == SD!Slots

requestVars == <<queue, assigned, busy, live, pend, stopping, clients, worker, job,
                 cvWait, client, done, mainpc>>
modelVars == <<modelBusy, decodePending, activeGen, lastPrefill, modelStopping,
               prefillWaiting, mixed, pending, inFlight, decodeDone, decodeRc,
               mcvWait, infer, valid, evals, slot, stage, todo, kept, coord,
               members, batchRc>>
vars == <<requestVars, modelVars, gstop, batched>>

Init == SD!Init /\ MT!Init /\ batched = TRUE

-----------------------------------------------------------------------------
(* Steps of one plane. *)

RequestOnly == UNCHANGED modelVars
ModelOnly   == UNCHANGED <<requestVars, batched>>

ClientThread(c) == SD!ClientThread(c) /\ RequestOnly
Accept(c)       == (SD!Accept(c) \/ SD!AcceptNoThread(c)) /\ RequestOnly

Dispatching(s) ==
    (SD!WaitForJob(s) \/ SD!WorkerExit(s) \/ SD!Release(s)) /\ RequestOnly

GenerateJob(s) == ModelOnly /\ MT!InJob(s)

Coordinator == ModelOnly /\ MT!Coordinator

-----------------------------------------------------------------------------
(* Steps where the planes meet. *)

\* slot_worker_main calls generate_job.
CallGenerateJob(s) == SD!TakeAssigned(s) /\ MT!JobBegin(s)

\* generate_job returns.  A session without a valid checkpoint has no tokens.
ReturnFromJob(s) ==
    /\ SD!FinishJob(s)
    /\ valid[s] = (live'[s] # <<>>)
    /\ MT!JobFinish(s)

StopSignal == SD!StopSignal /\ MT!StopSignal

\* (Faulty variant: main goes on without it.)
SkipCoordinator == SD!JoinCoordinator /\ RequestOnly

\* pthread_join of the decode coordinator.
JoinCoordinator == SD!JoinCoordinator /\ coord = "exited" /\ RequestOnly

\* main between two blocking calls.
MainThread ==
    \/ /\ SD!Listen \/ SD!LeaveAcceptLoop \/ SD!SetStopping \/ SD!JoinWorkers
          \/ SD!WaitClients \/ SD!PersistAndClose
       /\ RequestOnly
    \/ SD!ListenFails /\ MT!ListenFailed
    \/ SD!MainCancel /\ MT!CancelDecodeWaiters
    \/ SD!MainModelStop /\ MT!ModelStop
    \/ JoinCoordinator

Closed == SD!Closed /\ UNCHANGED vars

-----------------------------------------------------------------------------
SlotThread(s) ==
    Dispatching(s) \/ CallGenerateJob(s) \/ GenerateJob(s) \/ ReturnFromJob(s)

Next ==
    \/ \E c \in Clients : ClientThread(c) \/ Accept(c)
    \/ \E s \in Slots : SlotThread(s)
    \/ Coordinator
    \/ MainThread
    \/ StopSignal
    \/ Closed

\* Every thread that can run keeps running.  A job has a bounded number of
\* tokens and quanta, so decoding cannot keep a prefill waiting for ever.
Fairness ==
    /\ \A c \in Clients : WF_vars(ClientThread(c))
    /\ \A s \in Slots : WF_vars(SlotThread(s))
    /\ WF_vars(Coordinator)
    /\ WF_vars(MainThread)

Spec == Init /\ [][Next]_vars
FairSpec == Spec /\ Fairness

-----------------------------------------------------------------------------
(* What the server as a whole promises. *)

\* When the resident sessions are persisted and the engine is destroyed, no
\* thread is left that could be working on them, and no token is still to be
\* evaluated.
PersistsAtRest ==
    mainpc \in {"persist", "closed"} =>
        /\ coord = "exited" /\ infer = -1
        /\ \A s \in Slots : worker[s] = "exited" /\ ~pending[s] /\ ~inFlight[s]
        /\ \A c \in Clients : client[c] \in {"none", "gone"}

\* A job that runs is a call of generate_job, and the model plane works only
\* for jobs whose client still waits for the answer, or at a stop for the last
\* token of one that has gone.
ModelWorksForClients ==
    \A s \in Slots :
        /\ (job[s] # NoJob) = (slot[s] # "idle")
        /\ ~gstop /\ (pending[s] \/ inFlight[s]) =>
              job[s] # NoJob /\ client[job[s]] = "wait"

\* Every request a slot or the queue has accepted is answered: what the model
\* plane makes a slot thread wait for always comes.
RequestsServed == SD!AcceptedIsServed

\* A token handed to the coordinator is always answered, also when the server
\* stops while it is pending or in flight.
TokensAnswered == MT!SubmittedIsAnswered

\* One stop signal ends the whole server, whatever was running.
StopDrains == gstop ~> mainpc = "closed"
=============================================================================
