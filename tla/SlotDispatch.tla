---------------------------- MODULE SlotDispatch ----------------------------
(***************************************************************************)
(* The request plane of q36-server (src/q36_server.c): client threads that *)
(* own their job on their stack, the FIFO of waiting jobs, the resident    *)
(* slots with one worker thread each, and the main thread that accepts     *)
(* connections and drains the server on a signal.                          *)
(*                                                                         *)
(* Everything here is protected by server.mu.  One critical section is one *)
(* action; pthread_cond_wait on server.cv is an explicit wait set that     *)
(* only a broadcast (or signal) empties, so a missed wakeup would show as  *)
(* a stuck thread.  What a slot does with its job (generate_job) is        *)
(* ModelTurn; BatchServer puts the two together.                           *)
(***************************************************************************)
EXTENDS Integers, Sequences, FiniteSets, SequencesExt

CONSTANTS
    N,            \* server.slot_count
    Clients,      \* connections the listener may accept; a job per connection
    Prompt,       \* the prompt of each client's job, as a token sequence
    Reply,        \* the token that stands for a generated reply
    NoJob         \* a NULL job pointer

ASSUME SlotsAssumption   == N \in Nat \ {0}
ASSUME ClientsAssumption == {NoJob, "idle", "resting"} \cap Clients = {}
ASSUME PromptAssumption  == Reply \in Nat /\ Prompt \in [Clients -> Seq(Nat)]

Slots == 0 .. N - 1

VARIABLES
    queue,      \* server.head .. server.tail
    assigned,   \* server_slot.assigned
    busy,       \* server_slot.busy
    live,       \* tokens of server_slot.session; <<>>: no valid checkpoint
    pend,       \* the job whose continuation slot_pending_matches expects
    stopping,   \* server.stopping
    clients,    \* server.clients
    worker,     \* where each slot worker thread is
    job,        \* the job that worker is executing
    cvWait,     \* workers blocked on server.cv
    client,     \* where each client thread is
    done,       \* job.done
    mainpc,     \* where the main thread is
    gstop,      \* g_stop_requested
    batched     \* server.batched_mode; without it one worker serves slot 0

queueVars  == <<queue, assigned, busy, cvWait, stopping>>
workerVars == <<worker, job, live, pend>>
clientVars == <<client, clients, done>>
vars == <<queueVars, workerVars, clientVars, mainpc, gstop, batched>>

WorkerStates == {"look", "run", "release", "exited"}
ClientStates == {"none", "request", "wait", "close", "gone"}
MainStates   == {"listen", "accept", "stop", "cancel", "join", "modelStop",
                 "joinModel", "waitClients", "persist", "closed"}

TypeOK ==
    /\ queue \in Seq(Clients)
    /\ assigned \in [Slots -> Clients \cup {NoJob}]
    /\ busy \in [Slots -> BOOLEAN]
    /\ stopping \in BOOLEAN
    /\ clients \in Nat
    /\ worker \in [Slots -> WorkerStates]
    /\ job \in [Slots -> Clients \cup {NoJob}]
    /\ cvWait \in SUBSET Slots
    /\ client \in [Clients -> ClientStates]
    /\ done \in [Clients -> BOOLEAN]
    /\ mainpc \in MainStates
    /\ gstop \in BOOLEAN
    /\ batched \in BOOLEAN /\ (batched \/ N = 1)
    /\ live \in [Slots -> Seq(Nat)]
    /\ pend \in [Slots -> Clients \cup {NoJob}]

Init ==
    /\ queue = <<>>
    /\ assigned = [s \in Slots |-> NoJob]
    /\ busy = [s \in Slots |-> FALSE]
    /\ live = [s \in Slots |-> <<>>]
    /\ pend = [s \in Slots |-> NoJob]
    /\ stopping = FALSE
    /\ clients = 0
    /\ worker = [s \in Slots |-> "look"]
    /\ job = [s \in Slots |-> NoJob]
    /\ cvWait = {}
    /\ client = [c \in Clients |-> "none"]
    /\ done = [c \in Clients |-> FALSE]
    /\ mainpc = "listen"
    /\ gstop = FALSE
    /\ batched \in BOOLEAN /\ (batched \/ N = 1)

-----------------------------------------------------------------------------
(* Slot choice. *)

INT_MAX == 2147483647

\* main caps the context at Q36_CONTEXT_MAX and client_main refuses a prompt
\* that does not fit it: no session is long enough for a score to overflow.
ASSUME LengthAssumption == \A c \in Clients : Len(Prompt[c]) < INT_MAX \div 2

CommonPrefix(s, c) ==
    Cardinality({k \in DOMAIN live[s] : IsPrefix(SubSeq(live[s], 1, k), Prompt[c])})

\* What an idle slot is worth to a job.
Score(s, c) ==
    LET common == CommonPrefix(s, c)
        resident == Len(live[s])
    IN  IF pend[s] = c THEN INT_MAX
        ELSE IF common = resident /\ resident > 0 THEN INT_MAX \div 2 + resident
        ELSE common

\* (Faulty variant: the first free slot, whatever it holds.)
BestIsFirstFree(c, S, s) == s \in S /\ \A t \in S : s <= t

\* The first of the best-scoring slots of a set.
Best(c, S, s) ==
    /\ s \in S
    /\ \A t \in S : \/ Score(s, c) > Score(t, c)
                    \/ Score(s, c) = Score(t, c) /\ s <= t

\* The slots the loop hands the first n jobs of q to.  An idle slot always
\* scores above INT_MIN, so the head is chosen each time round, until the
\* queue or the idle slots run out.
PicksInOrder(q, idle, n, pick) ==
    /\ \A i, k \in 1 .. n : i # k => pick[i] # pick[k]
    /\ \A i \in 1 .. n :
          Best(q[i], idle \ {pick[k] : k \in 1 .. i - 1}, pick[i])
    /\ n = Len(q) \/ {pick[i] : i \in 1 .. n} = idle

\* dispatch_jobs_locked with q waiting and the slots of idle free.
Dispatch(q, idle) ==
    \E n \in 0 .. Len(q) : \E pick \in [1 .. n -> idle] :
        /\ PicksInOrder(q, idle, n, pick)
        /\ queue' = SubSeq(q, n + 1, Len(q))
        /\ assigned' = [s \in Slots |->
               IF \E i \in 1 .. n : pick[i] = s
               THEN q[CHOOSE i \in 1 .. n : pick[i] = s] ELSE assigned[s]]
        /\ busy' = [s \in Slots |-> \/ \E i \in 1 .. n : pick[i] = s
                                    \/ busy[s] /\ s \notin idle]

IdleSlots == {s \in Slots : ~busy[s] /\ assigned[s] = NoJob}

-----------------------------------------------------------------------------
(* Client threads. *)

\* client_main answers without the model: a bad request, a model listing, an
\* unknown endpoint, a prompt longer than the context.
AnswerDirectly(c) ==
    /\ client[c] = "request"
    /\ client' = [client EXCEPT ![c] = "close"]
    /\ UNCHANGED <<queueVars, workerVars, clients, done, mainpc, gstop, batched>>

\* enqueue refuses once the server is draining; the client gets a 503.
EnqueueRefused(c) ==
    /\ client[c] = "request"
    /\ stopping
    /\ client' = [client EXCEPT ![c] = "close"]
    /\ UNCHANGED <<queueVars, workerVars, clients, done, mainpc, gstop, batched>>

\* The job joins the list q, and idle slots take what they can.
Join(c, q) ==
    /\ client[c] = "request"
    /\ client' = [client EXCEPT ![c] = "wait"]
    /\ IF batched THEN Dispatch(q, IdleSlots)
                  ELSE queue' = q /\ UNCHANGED <<assigned, busy>>
    /\ UNCHANGED <<workerVars, clients, done, stopping, mainpc, gstop, batched>>

\* (Faulty variants of enqueue: stopping is not tested; a new job goes to the
\* head; nobody is woken.)
EnqueueWhileStopping(c) == Join(c, Append(queue, c)) /\ cvWait' = {}
EnqueueInFront(c) == ~stopping /\ Join(c, <<c>> \o queue) /\ cvWait' = {}
EnqueueSilently(c) == ~stopping /\ Join(c, Append(queue, c)) /\ UNCHANGED cvWait

Enqueue(c) == ~stopping /\ Join(c, Append(queue, c)) /\ cvWait' = {}

\* The response has been written; the job on the client's stack goes away.
ClientWake(c) ==
    /\ client[c] = "wait"
    /\ done[c]
    /\ client' = [client EXCEPT ![c] = "close"]
    /\ UNCHANGED <<queueVars, workerVars, clients, done, mainpc, gstop, batched>>

ClientDone(c) ==
    /\ client[c] = "close"
    /\ client' = [client EXCEPT ![c] = "gone"]
    /\ clients' = IF clients > 0 THEN clients - 1 ELSE clients
    /\ UNCHANGED <<queueVars, workerVars, done, mainpc, gstop, batched>>

-----------------------------------------------------------------------------
(* Slot workers (slot_worker_main), or the one worker_main without batching. *)

Looking(s) == worker[s] = "look" /\ s \notin cvWait

\* The predicate a worker sleeps on.
NothingToDo(s) ==
    IF batched
    THEN assigned[s] = NoJob /\ (~stopping \/ queue # <<>>)
    ELSE queue = <<>> /\ ~stopping

WaitForJob(s) ==
    /\ Looking(s)
    /\ NothingToDo(s)
    /\ cvWait' = cvWait \cup {s}
    /\ UNCHANGED <<queue, assigned, busy, stopping, workerVars, clientVars,
                   mainpc, gstop, batched>>

RunJob(s, c) ==
    /\ job' = [job EXCEPT ![s] = c]
    /\ worker' = [worker EXCEPT ![s] = "run"]
    /\ UNCHANGED <<busy, cvWait, stopping, live, pend, clientVars, mainpc, gstop, batched>>

\* (Faulty variant: slot->assigned is not cleared.)
TakeAssignedKeepsPointer(s) ==
    /\ batched /\ Looking(s) /\ assigned[s] # NoJob
    /\ RunJob(s, assigned[s])
    /\ UNCHANGED <<assigned, queue>>

TakeAssigned(s) ==
    /\ batched
    /\ Looking(s)
    /\ assigned[s] # NoJob
    /\ RunJob(s, assigned[s])
    /\ assigned' = [assigned EXCEPT ![s] = NoJob]
    /\ UNCHANGED queue

\* (Faulty variant: the rest of the list is dropped with its head.)
DequeueDropsRest(s) ==
    /\ ~batched /\ Looking(s) /\ queue # <<>>
    /\ RunJob(s, Head(queue))
    /\ queue' = <<>>
    /\ UNCHANGED assigned

Dequeue(s) ==
    /\ ~batched
    /\ Looking(s)
    /\ queue # <<>>
    /\ RunJob(s, Head(queue))
    /\ queue' = Tail(queue)
    /\ UNCHANGED assigned

WorkerExit(s) ==
    /\ Looking(s)
    /\ ~NothingToDo(s)
    /\ IF batched THEN assigned[s] = NoJob ELSE queue = <<>>
    /\ worker' = [worker EXCEPT ![s] = "exited"]
    /\ UNCHANGED <<queueVars, job, live, pend, clientVars, mainpc, gstop, batched>>

\* What a session can hold after generate_job(c): untouched when the request
\* was refused, nothing valid, the prompt, or the prompt and a reply.
Frontiers(s, c) == {live[s], <<>>, Prompt[c], Append(Prompt[c], Reply)}

\* The requests whose tool results would continue the session at tokens.
Continuations(s, tokens) ==
    {d \in Clients : /\ client[d] = "none"
                     /\ \A t \in Slots : pend[t] # d
                     /\ Len(tokens) > 0
                     /\ IsStrictPrefix(tokens, Prompt[d])}

\* generate_job returns and job.done is signalled.  The worker holds no
\* pointer to the job afterwards.
FinishJob(s) ==
    /\ worker[s] = "run"
    /\ \E tokens \in Frontiers(s, job[s]) :
          /\ live' = [live EXCEPT ![s] = tokens]
          /\ \E d \in Continuations(s, tokens) \cup {NoJob} :
                pend' = [pend EXCEPT ![s] = d]
    /\ done' = [done EXCEPT ![job[s]] = TRUE]
    /\ job' = [job EXCEPT ![s] = NoJob]
    /\ worker' = [worker EXCEPT ![s] = IF batched THEN "release" ELSE "look"]
    /\ UNCHANGED <<queueVars, client, clients, mainpc, gstop, batched>>

\* (Faulty variant: busy is cleared, the queue is not looked at.)
ReleaseOnly(s) ==
    /\ worker[s] = "release"
    /\ busy' = [busy EXCEPT ![s] = FALSE]
    /\ worker' = [worker EXCEPT ![s] = "look"]
    /\ UNCHANGED <<queue, assigned, cvWait, stopping, job, live, pend, clientVars,
                   mainpc, gstop, batched>>

\* The slot is free again and takes the next waiting job, if any.
Release(s) ==
    /\ worker[s] = "release"
    /\ Dispatch(queue, {t \in Slots : (t = s \/ ~busy[t]) /\ assigned[t] = NoJob})
    /\ cvWait' = IF assigned' = assigned THEN cvWait ELSE {}
    /\ worker' = [worker EXCEPT ![s] = "look"]
    /\ UNCHANGED <<stopping, job, live, pend, clientVars, mainpc, gstop, batched>>

-----------------------------------------------------------------------------
(* The main thread. *)

MainStep(from, to) == mainpc = from /\ mainpc' = to

Listen ==
    /\ MainStep("listen", "accept")
    /\ UNCHANGED <<queueVars, workerVars, clientVars, gstop, batched>>

\* listen_on failed: the workers are told to stop before any client exists.
ListenFails ==
    /\ MainStep("listen", "join")
    /\ stopping' = TRUE
    /\ cvWait' = {}
    /\ UNCHANGED <<queue, assigned, busy, workerVars, clientVars, gstop, batched>>

Accept(c) ==
    /\ mainpc = "accept"
    /\ ~gstop
    /\ client[c] = "none"
    /\ clients' = clients + 1
    /\ client' = [client EXCEPT ![c] = "request"]
    /\ UNCHANGED <<queueVars, workerVars, done, mainpc, gstop, batched>>

\* (Faulty variant: the count only goes down.)
AcceptNoThreadUncounted(c) ==
    /\ mainpc = "accept"
    /\ ~gstop
    /\ client[c] = "none"
    /\ client' = [client EXCEPT ![c] = "gone"]
    /\ clients' = clients - 1
    /\ UNCHANGED <<queueVars, workerVars, done, mainpc, gstop, batched>>

\* pthread_create failed: the count goes up and down again, the socket closes.
AcceptNoThread(c) ==
    /\ mainpc = "accept"
    /\ ~gstop
    /\ client[c] = "none"
    /\ client' = [client EXCEPT ![c] = "gone"]
    /\ UNCHANGED <<queueVars, workerVars, clients, done, mainpc, gstop, batched>>

\* stop_signal_handler, first signal.  It takes no lock.
StopSignal ==
    /\ ~gstop
    /\ mainpc # "closed"
    /\ gstop' = TRUE
    /\ UNCHANGED <<queueVars, workerVars, clientVars, mainpc, batched>>

LeaveAcceptLoop ==
    /\ gstop
    /\ MainStep("accept", "stop")
    /\ UNCHANGED <<queueVars, workerVars, clientVars, gstop, batched>>

SetStopping ==
    /\ MainStep("stop", "cancel")
    /\ stopping' = TRUE
    /\ cvWait' = {}
    /\ UNCHANGED <<queue, assigned, busy, workerVars, clientVars, gstop, batched>>

\* The waiting decodes are cancelled; the model plane says what that does.
MainCancel ==
    /\ MainStep("cancel", "join")
    /\ UNCHANGED <<queueVars, workerVars, clientVars, gstop, batched>>

JoinWorkers ==
    /\ \A s \in Slots : worker[s] = "exited"
    /\ MainStep("join", IF batched THEN "modelStop" ELSE "waitClients")
    /\ UNCHANGED <<queueVars, workerVars, clientVars, gstop, batched>>

MainModelStop ==
    /\ MainStep("modelStop", "joinModel")
    /\ UNCHANGED <<queueVars, workerVars, clientVars, gstop, batched>>

JoinCoordinator ==
    /\ MainStep("joinModel", "waitClients")
    /\ UNCHANGED <<queueVars, workerVars, clientVars, gstop, batched>>

WaitClients ==
    /\ clients = 0
    /\ MainStep("waitClients", "persist")
    /\ UNCHANGED <<queueVars, workerVars, clientVars, gstop, batched>>

\* Resident sessions are stored, then server_close_resources destroys the
\* locks, the slots and the engine.
PersistAndClose ==
    /\ MainStep("persist", "closed")
    /\ UNCHANGED <<queueVars, workerVars, clientVars, gstop, batched>>

Closed ==
    /\ mainpc = "closed"
    /\ UNCHANGED vars

-----------------------------------------------------------------------------
ClientThread(c) ==
    AnswerDirectly(c) \/ EnqueueRefused(c) \/ Enqueue(c) \/ ClientWake(c) \/ ClientDone(c)

SlotWorker(s) ==
    WaitForJob(s) \/ TakeAssigned(s) \/ Dequeue(s) \/ WorkerExit(s) \/ FinishJob(s)
        \/ Release(s)

MainDrain ==
    Listen \/ ListenFails \/ LeaveAcceptLoop \/ SetStopping \/ MainCancel
        \/ JoinWorkers \/ MainModelStop \/ JoinCoordinator \/ WaitClients
        \/ PersistAndClose

Next ==
    \/ \E c \in Clients : ClientThread(c) \/ Accept(c) \/ AcceptNoThread(c)
    \/ \E s \in Slots : SlotWorker(s)
    \/ MainDrain
    \/ StopSignal
    \/ Closed

\* Every thread that can run keeps running: socket timeouts bound a client's
\* reads and writes, generate_job is finite, the mutexes are eventually got.
\* No client need connect and no signal need arrive.
Fairness ==
    /\ \A c \in Clients : WF_vars(ClientThread(c))
    /\ \A s \in Slots : WF_vars(SlotWorker(s))
    /\ WF_vars(MainDrain)

Spec == Init /\ [][Next]_vars
FairSpec == Spec /\ Fairness

-----------------------------------------------------------------------------
(* The abstract server this implements: a slot serves the job that was handed *)
(* to it, from the assignment until generate_job has returned.  A slot of the *)
(* unbatched server never takes an arrival at once: worker_main dequeues.     *)

ServingOf(s) ==
    IF job[s] # NoJob THEN job[s]
    ELSE IF assigned[s] # NoJob THEN assigned[s]
    ELSE IF worker[s] = "release" \/ ~batched THEN "resting"
    ELSE "idle"

Abstract == INSTANCE RequestServer WITH
    Requests <- Clients,
    Idle     <- "idle",
    Resting  <- "resting",
    waiting  <- queue,
    serving  <- [s \in Slots |-> ServingOf(s)],
    answered <- {c \in Clients : done[c]},
    phase    <- IF mainpc = "closed" THEN "closed"
                ELSE IF stopping THEN "draining" ELSE "open"

\* Threads, locks and wakeups together behave as the abstract server: first
\* come first served, one slot per active request, no slot left idle beside a
\* waiting request, and whoever is accepted is served, also while draining.
ImplementsRequestServer == Abstract!FairSpec

-----------------------------------------------------------------------------
(* What a correct request plane promises. *)

\* Everywhere a job pointer can be held.
Places(c) ==
    {<<"queue", i>> : i \in {k \in DOMAIN queue : queue[k] = c}}
        \cup {<<"assigned", s>> : s \in {t \in Slots : assigned[t] = c}}
        \cup {<<"running", s>> : s \in {t \in Slots : job[t] = c}}

\* A job pointer is held only while the client thread whose stack it points
\* into is still waiting for it (the comment above struct job): no queue
\* entry, slot or worker outlives the request.
StackOwnedJobs ==
    \A c \in Clients : Places(c) # {} => client[c] = "wait" /\ ~done[c]

\* An accepted job that is not done yet is held in exactly one place: the
\* queue surgery of dispatch_jobs_locked neither loses nor duplicates it.
HeldOnce ==
    \A c \in Clients :
        client[c] = "wait" /\ ~done[c] => \E p \in Places(c) : Places(c) = {p}

\* No slot is idle while a job waits.  Both the wait predicate of
\* slot_worker_main and its exit test rely on this.
NoIdleSlotWhileQueued ==
    batched => (queue # <<>> => \A s \in Slots : busy[s])

\* A worker asleep on server.cv has nothing to do: every change that gives it
\* work or lets it exit was followed by a wakeup.
NoLostWakeup ==
    \A s \in cvWait : worker[s] = "look" /\ NothingToDo(s)

Queued(q, c) == \E i \in DOMAIN q : q[i] = c

\* The jobs ahead of c in the queue q.
Ahead(q, c) == {q[i] : i \in {k \in DOMAIN q : \E m \in DOMAIN q : k < m /\ q[m] = c}}

\* The jobs a step takes from the queue, or at once when they arrive.
Started ==
    {c \in Clients : \E s \in Slots :
        \/ assigned'[s] = c /\ assigned[s] # c
        \/ job'[s] = c /\ job[s] # c /\ assigned[s] # c}

\* Nobody jumps the queue: while a job waits, only jobs that were ahead of it
\* are started or are ahead of it afterwards, whichever slot becomes free,
\* whatever the slots' scores are and however late a request arrives.
FifoDispatch ==
    [][\A c \in Clients :
          Queued(queue, c) /\ Queued(queue', c) =>
              Started \cup Ahead(queue', c) \subseteq Ahead(queue, c)]_vars

Extends(s, c) == Len(live[s]) > 0 /\ IsPrefix(live[s], Prompt[c])

\* A job is never put on a slot it would have to rebuild while another free
\* slot holds a session it could simply extend (docs/SERVER.md: "Assignment
\* prefers the resident live/token prefix with the longest match").
ExtensionPreferred ==
    [][\A s \in Slots, c \in Clients :
          assigned[s] # c /\ assigned'[s] = c =>
              \/ pend[s] = c
              \/ \A t \in IdleSlots :
                    Extends(t, c) => Extends(s, c) /\ Len(live[s]) >= Len(live[t])
              ]_assigned

\* Every accepted request is answered and its client thread ends, also when
\* the server is told to stop in between.
AcceptedIsServed ==
    \A c \in Clients : client[c] = "wait" ~> client[c] = "gone"
=============================================================================
