-------------------------- MODULE RequestPlaneProofs --------------------------
(***************************************************************************)
(* That no slot is idle beside a waiting job, who holds a job of the        *)
(* request plane, why no worker sleeps through work, in which order jobs    *)
(* start, and that the threads implement RequestServer: proofs for any      *)
(* number of slots, any set of clients and both modes of the server.        *)
(***************************************************************************)
EXTENDS SlotDispatch, SequenceTheorems, FiniteSetTheorems, TLAPS

-----------------------------------------------------------------------------
(* What dispatch_jobs_locked does. *)

\* The jobs that stay behind are the end of the queue, assigned and busy keep
\* their types.
LEMMA DispatchType ==
    ASSUME NEW q \in Seq(Clients), NEW idle \in SUBSET Slots,
           assigned \in [Slots -> Clients \cup {NoJob}],
           busy \in [Slots -> BOOLEAN],
           Dispatch(q, idle)
    PROVE  /\ queue' \in Seq(Clients)
           /\ assigned' \in [Slots -> Clients \cup {NoJob}]
           /\ busy' \in [Slots -> BOOLEAN]
<1>0. PICK n \in 0 .. Len(q) : \E pick \in [1 .. n -> idle] :
        /\ PicksInOrder(q, idle, n, pick)
        /\ queue' = SubSeq(q, n + 1, Len(q))
        /\ assigned' = [s \in Slots |->
               IF \E i \in 1 .. n : pick[i] = s
               THEN q[CHOOSE i \in 1 .. n : pick[i] = s] ELSE assigned[s]]
        /\ busy' = [s \in Slots |-> \/ \E i \in 1 .. n : pick[i] = s
                                    \/ busy[s] /\ s \notin idle]
  BY DEF Dispatch
<1>1. PICK pick \in [1 .. n -> idle] :
        /\ queue' = SubSeq(q, n + 1, Len(q))
        /\ assigned' = [s \in Slots |->
               IF \E i \in 1 .. n : pick[i] = s
               THEN q[CHOOSE i \in 1 .. n : pick[i] = s] ELSE assigned[s]]
        /\ busy' = [s \in Slots |-> \/ \E i \in 1 .. n : pick[i] = s
                                    \/ busy[s] /\ s \notin idle]
  BY <1>0
<1>2. Len(q) \in Nat /\ \A i \in 1 .. Len(q) : q[i] \in Clients
  BY ElementOfSeq, LenProperties
<1>3. queue' \in Seq(Clients)
  <2>1. \A i \in n + 1 .. Len(q) : q[i] \in Clients
    BY <1>2
  <2>2. n + 1 \in Int /\ Len(q) \in Int
    BY <1>2
  <2>. QED BY <1>1, <2>1, <2>2, SubSeqProperties
<1>4. ASSUME NEW s \in Slots, \E i \in 1 .. n : pick[i] = s
      PROVE  q[CHOOSE i \in 1 .. n : pick[i] = s] \in Clients
  <2>1. (CHOOSE i \in 1 .. n : pick[i] = s) \in 1 .. n
    BY <1>4
  <2>. QED BY <2>1, <1>2
<1>5. assigned' \in [Slots -> Clients \cup {NoJob}]
  BY <1>1, <1>4
<1>6. busy' \in [Slots -> BOOLEAN]
  BY <1>1
<1>. QED BY <1>3, <1>5, <1>6

\* A job stays behind only if every slot of idle has been given one.
LEMMA DispatchFillsSlots ==
    ASSUME NEW q \in Seq(Clients), NEW idle \in SUBSET Slots,
           busy \in [Slots -> BOOLEAN],
           \A s \in Slots : s \notin idle => busy[s],
           Dispatch(q, idle)
    PROVE  queue' # <<>> => \A s \in Slots : busy'[s]
<1>1. PICK n \in 0 .. Len(q) : \E pick \in [1 .. n -> idle] :
        /\ PicksInOrder(q, idle, n, pick)
        /\ queue' = SubSeq(q, n + 1, Len(q))
        /\ busy' = [s \in Slots |-> \/ \E i \in 1 .. n : pick[i] = s
                                    \/ busy[s] /\ s \notin idle]
  BY DEF Dispatch
<1>2. PICK pick \in [1 .. n -> idle] :
        /\ PicksInOrder(q, idle, n, pick)
        /\ queue' = SubSeq(q, n + 1, Len(q))
        /\ busy' = [s \in Slots |-> \/ \E i \in 1 .. n : pick[i] = s
                                    \/ busy[s] /\ s \notin idle]
  BY <1>1
<1>3. CASE n = Len(q)
  <2>1. Len(q) \in Nat
    BY LenProperties
  <2>2. queue' = <<>>
    BY <1>2, <1>3, <2>1, SubSeqEmpty
  <2>. QED BY <2>2
<1>4. CASE {pick[i] : i \in 1 .. n} = idle
  <2>1. \A s \in idle : \E i \in 1 .. n : pick[i] = s
    BY <1>4
  <2>. QED BY <1>2, <2>1
<1>. QED BY <1>2, <1>3, <1>4 DEF PicksInOrder

\* A slot that is given a job is busy, a slot outside idle keeps what it has.
LEMMA DispatchAssigns ==
    ASSUME NEW q \in Seq(Clients), NEW idle \in SUBSET Slots,
           busy \in [Slots -> BOOLEAN],
           Dispatch(q, idle), NEW s \in Slots
    PROVE  /\ s \notin idle => assigned'[s] = assigned[s] /\ busy'[s] = busy[s]
           /\ s \in idle => assigned'[s] = assigned[s] \/ busy'[s]
<1>1. PICK n \in 0 .. Len(q) : \E pick \in [1 .. n -> idle] :
        /\ assigned' = [t \in Slots |->
               IF \E i \in 1 .. n : pick[i] = t
               THEN q[CHOOSE i \in 1 .. n : pick[i] = t] ELSE assigned[t]]
        /\ busy' = [t \in Slots |-> \/ \E i \in 1 .. n : pick[i] = t
                                    \/ busy[t] /\ t \notin idle]
  BY DEF Dispatch
<1>2. PICK pick \in [1 .. n -> idle] :
        /\ assigned' = [t \in Slots |->
               IF \E i \in 1 .. n : pick[i] = t
               THEN q[CHOOSE i \in 1 .. n : pick[i] = t] ELSE assigned[t]]
        /\ busy' = [t \in Slots |-> \/ \E i \in 1 .. n : pick[i] = t
                                    \/ busy[t] /\ t \notin idle]
  BY <1>1
<1>. QED BY <1>2

-----------------------------------------------------------------------------
(* Types, and no idle slot beside a waiting job. *)

\* A slot that holds a job or is being cleaned up after one is marked busy.
BusyWhileOwned ==
    \A s \in Slots :
        /\ assigned[s] # NoJob => busy[s]
        /\ batched /\ worker[s] \in {"run", "release"} =>
              busy[s] /\ assigned[s] = NoJob
        /\ worker[s] = "release" => batched
        /\ worker[s] = "run" => job[s] \in Clients

SlotInv == TypeOK /\ BusyWhileOwned /\ NoIdleSlotWhileQueued

LEMMA SlotInvInit == Init => SlotInv
<1>. SUFFICES ASSUME Init PROVE SlotInv
  OBVIOUS
<1>1. <<>> \in Seq(Clients) /\ <<>> \in Seq(Nat)
  BY EmptySeq
<1>2. TypeOK
  BY <1>1 DEF Init, TypeOK, WorkerStates, ClientStates, MainStates
<1>3. BusyWhileOwned
  BY ClientsAssumption DEF Init, BusyWhileOwned
<1>4. NoIdleSlotWhileQueued
  BY DEF Init, NoIdleSlotWhileQueued
<1>. QED BY <1>2, <1>3, <1>4 DEF SlotInv

\* The client threads.
LEMMA ClientKeepsSlotInv ==
    ASSUME SlotInv, NEW c \in Clients,
           ClientThread(c) \/ Accept(c) \/ AcceptNoThread(c)
    PROVE  SlotInv'
<1>. USE DEF SlotInv, TypeOK, WorkerStates, ClientStates, MainStates, queueVars,
             workerVars, clientVars
<1>1. CASE AnswerDirectly(c)
  BY <1>1 DEF AnswerDirectly, BusyWhileOwned, NoIdleSlotWhileQueued
<1>2. CASE EnqueueRefused(c)
  BY <1>2 DEF EnqueueRefused, BusyWhileOwned, NoIdleSlotWhileQueued
<1>3. CASE Enqueue(c)
  <2>1. Append(queue, c) \in Seq(Clients)
    BY AppendProperties
  <2>2. CASE batched
    <3>1. Dispatch(Append(queue, c), IdleSlots)
      BY <1>3, <2>2 DEF Enqueue, Join
    <3>2. IdleSlots \in SUBSET Slots
      BY DEF IdleSlots
    <3>3. \A s \in Slots : s \notin IdleSlots => busy[s]
      BY DEF IdleSlots, BusyWhileOwned
    <3>4. /\ queue' \in Seq(Clients)
          /\ assigned' \in [Slots -> Clients \cup {NoJob}]
          /\ busy' \in [Slots -> BOOLEAN]
      BY <2>1, <3>1, <3>2, DispatchType
    <3>5. NoIdleSlotWhileQueued'
      BY <2>1, <3>1, <3>2, <3>3, DispatchFillsSlots DEF NoIdleSlotWhileQueued
    <3>6. TypeOK'
      BY <1>3, <3>4 DEF Enqueue, Join
    <3>7. \A s \in Slots :
             /\ s \notin IdleSlots => assigned'[s] = assigned[s] /\ busy'[s] = busy[s]
             /\ s \in IdleSlots => assigned'[s] = assigned[s] \/ busy'[s]
      BY <2>1, <3>1, <3>2, DispatchAssigns
    <3>8. BusyWhileOwned'
      BY <1>3, <3>7 DEF Enqueue, Join, BusyWhileOwned, IdleSlots
    <3>. QED BY <3>5, <3>6, <3>8
  <2>3. CASE ~batched
    BY <1>3, <2>1, <2>3 DEF Enqueue, Join, BusyWhileOwned, NoIdleSlotWhileQueued
  <2>. QED BY <2>2, <2>3
<1>4. CASE ClientWake(c)
  BY <1>4 DEF ClientWake, BusyWhileOwned, NoIdleSlotWhileQueued
<1>5. CASE ClientDone(c)
  BY <1>5 DEF ClientDone, BusyWhileOwned, NoIdleSlotWhileQueued
<1>6. CASE Accept(c)
  BY <1>6 DEF Accept, BusyWhileOwned, NoIdleSlotWhileQueued
<1>7. CASE AcceptNoThread(c)
  BY <1>7 DEF AcceptNoThread, BusyWhileOwned, NoIdleSlotWhileQueued
<1>. QED BY <1>1, <1>2, <1>3, <1>4, <1>5, <1>6, <1>7 DEF ClientThread

\* The slot workers.
LEMMA WorkerKeepsSlotInv ==
    ASSUME SlotInv, NEW s \in Slots, SlotWorker(s)
    PROVE  SlotInv'
<1>. USE DEF SlotInv, TypeOK, WorkerStates, ClientStates, MainStates, queueVars,
             workerVars, clientVars
<1>1. CASE WaitForJob(s)
  BY <1>1 DEF WaitForJob, BusyWhileOwned, NoIdleSlotWhileQueued
<1>2. CASE TakeAssigned(s)
  BY <1>2 DEF TakeAssigned, RunJob, Looking, BusyWhileOwned, NoIdleSlotWhileQueued
<1>3. CASE Dequeue(s)
  <2>1. Head(queue) \in Clients /\ Tail(queue) \in Seq(Clients)
    BY <1>3, HeadTailProperties DEF Dequeue
  <2>. QED BY <1>3, <2>1 DEF Dequeue, RunJob, Looking, BusyWhileOwned, NoIdleSlotWhileQueued
<1>4. CASE WorkerExit(s)
  BY <1>4 DEF WorkerExit, Looking, BusyWhileOwned, NoIdleSlotWhileQueued
<1>5. CASE FinishJob(s)
  <2>1. job[s] \in Clients
    BY <1>5 DEF FinishJob, BusyWhileOwned
  <2>2. Frontiers(s, job[s]) \subseteq Seq(Nat)
    <3>1. Prompt[job[s]] \in Seq(Nat)
      BY <2>1, PromptAssumption
    <3>2. Append(Prompt[job[s]], Reply) \in Seq(Nat)
      BY <3>1, PromptAssumption, AppendProperties
    <3>. QED BY <3>1, <3>2, EmptySeq DEF Frontiers
  <2>3. \A tokens : Continuations(s, tokens) \subseteq Clients
    BY DEF Continuations
  <2>4. live' \in [Slots -> Seq(Nat)] /\ pend' \in [Slots -> Clients \cup {NoJob}]
    BY <1>5, <2>2, <2>3 DEF FinishJob
  <2>5. TypeOK'
    BY <1>5, <2>1, <2>4 DEF FinishJob
  <2>6. BusyWhileOwned' /\ NoIdleSlotWhileQueued'
    BY <1>5, ClientsAssumption DEF FinishJob, BusyWhileOwned, NoIdleSlotWhileQueued
  <2>. QED BY <2>5, <2>6
<1>6. CASE Release(s)
  <2>. DEFINE idle == {t \in Slots : (t = s \/ ~busy[t]) /\ assigned[t] = NoJob}
  <2>1. Dispatch(queue, idle)
    BY <1>6 DEF Release
  <2>2. idle \in SUBSET Slots
    OBVIOUS
  <2>3. \A t \in Slots : t \notin idle => busy[t]
    BY <1>6 DEF Release, BusyWhileOwned
  <2>4. /\ queue' \in Seq(Clients)
        /\ assigned' \in [Slots -> Clients \cup {NoJob}]
        /\ busy' \in [Slots -> BOOLEAN]
    BY <2>1, <2>2, DispatchType
  <2>5. queue' # <<>> => \A t \in Slots : busy'[t]
    BY <2>1, <2>2, <2>3, DispatchFillsSlots
  <2>6. \A t \in Slots :
           /\ t \notin idle => assigned'[t] = assigned[t] /\ busy'[t] = busy[t]
           /\ t \in idle => assigned'[t] = assigned[t] \/ busy'[t]
    BY <2>1, <2>2, DispatchAssigns
  <2>7. TypeOK'
    BY <1>6, <2>4 DEF Release
  <2>8. BusyWhileOwned'
    BY <1>6, <2>4, <2>6 DEF Release, BusyWhileOwned
  <2>9. NoIdleSlotWhileQueued'
    BY <2>5 DEF NoIdleSlotWhileQueued
  <2>. QED BY <2>7, <2>8, <2>9
<1>. QED BY <1>1, <1>2, <1>3, <1>4, <1>5, <1>6 DEF SlotWorker

\* The main thread and the signal handler touch no slot.
LEMMA MainKeepsSlotInv ==
    ASSUME SlotInv, MainDrain \/ StopSignal \/ Closed
    PROVE  SlotInv'
<1>. USE DEF SlotInv, TypeOK, WorkerStates, ClientStates, MainStates, queueVars,
             workerVars, clientVars, BusyWhileOwned, NoIdleSlotWhileQueued, MainStep
<1>1. CASE Listen BY <1>1 DEF Listen
<1>2. CASE ListenFails BY <1>2 DEF ListenFails
<1>3. CASE LeaveAcceptLoop BY <1>3 DEF LeaveAcceptLoop
<1>4. CASE SetStopping BY <1>4 DEF SetStopping
<1>5. CASE MainCancel BY <1>5 DEF MainCancel
<1>6. CASE JoinWorkers BY <1>6 DEF JoinWorkers
<1>7. CASE MainModelStop BY <1>7 DEF MainModelStop
<1>8. CASE JoinCoordinator BY <1>8 DEF JoinCoordinator
<1>9. CASE WaitClients BY <1>9 DEF WaitClients
<1>10. CASE PersistAndClose BY <1>10 DEF PersistAndClose
<1>11. CASE StopSignal BY <1>11 DEF StopSignal
<1>12. CASE Closed BY <1>12 DEF Closed, vars
<1>. QED
  BY <1>1, <1>2, <1>3, <1>4, <1>5, <1>6, <1>7, <1>8, <1>9, <1>10, <1>11, <1>12
     DEF MainDrain

LEMMA SlotInvNext == SlotInv /\ [Next]_vars => SlotInv'
<1>. SUFFICES ASSUME SlotInv, [Next]_vars PROVE SlotInv'
  OBVIOUS
<1>1. ASSUME NEW c \in Clients, ClientThread(c) \/ Accept(c) \/ AcceptNoThread(c)
      PROVE  SlotInv'
  BY <1>1, ClientKeepsSlotInv
<1>2. ASSUME NEW s \in Slots, SlotWorker(s)
      PROVE  SlotInv'
  BY <1>2, WorkerKeepsSlotInv
<1>3. CASE MainDrain \/ StopSignal \/ Closed
  BY <1>3, MainKeepsSlotInv
<1>4. CASE UNCHANGED vars
  BY <1>4 DEF vars, queueVars, workerVars, clientVars, SlotInv, TypeOK, BusyWhileOwned,
              NoIdleSlotWhileQueued
<1>. QED BY <1>1, <1>2, <1>3, <1>4 DEF Next

\* Every variable keeps its type, whatever the threads do.
THEOREM TypeCorrect == Spec => []TypeOK
<1>1. Init => SlotInv
  BY SlotInvInit
<1>2. SlotInv /\ [Next]_vars => SlotInv'
  BY SlotInvNext
<1>3. SlotInv => TypeOK
  BY DEF SlotInv
<1>. QED BY <1>1, <1>2, <1>3, PTL DEF Spec

\* dispatch_jobs_locked runs whenever a job or a slot becomes free, and leaves
\* no slot idle beside a waiting job: the wait and exit tests of
\* slot_worker_main rely on it.
THEOREM NoIdleSlot == Spec => []NoIdleSlotWhileQueued
<1>1. Init => SlotInv
  BY SlotInvInit
<1>2. SlotInv /\ [Next]_vars => SlotInv'
  BY SlotInvNext
<1>3. SlotInv => NoIdleSlotWhileQueued
  BY DEF SlotInv
<1>. QED BY <1>1, <1>2, <1>3, PTL DEF Spec

-----------------------------------------------------------------------------
(* Who holds a job. *)

\* The client thread of c is blocked on its own job.
Waiting(c) == client[c] = "wait" /\ ~done[c]

\* Somebody holds c's job: the queue q, an assignment of a or a worker's job of j.
Held(q, a, j, c) ==
    \/ \E i \in 1 .. Len(q) : q[i] = c
    \/ \E s \in Slots : a[s] = c
    \/ \E s \in Slots : j[s] = c

\* No two of them hold the same job.
HoldersDiffer(q, a, j) ==
    /\ \A i, k \in 1 .. Len(q) : q[i] = q[k] => i = k
    /\ \A s, t \in Slots : a[s] = a[t] /\ a[s] # NoJob => s = t
    /\ \A s, t \in Slots : j[s] = j[t] /\ j[s] # NoJob => s = t
    /\ \A i \in 1 .. Len(q), s \in Slots : q[i] # a[s] /\ q[i] # j[s]
    /\ \A s, t \in Slots : j[s] # NoJob => j[s] # a[t]

\* The waiting clients are exactly those whose job is held, each once.
HeldWhileWaiting ==
    /\ \A c \in Clients : Held(queue, assigned, job, c) <=> Waiting(c)
    /\ HoldersDiffer(queue, assigned, job)

\* What the program counters say about the rest of the state.
Progress ==
    /\ \A s \in Slots : job[s] # NoJob <=> worker[s] = "run"
    /\ \A c \in Clients : client[c] \in {"none", "request"} => ~done[c]
    /\ ~batched => \A s \in Slots : assigned[s] = NoJob
    /\ stopping <=> mainpc \notin {"listen", "accept", "stop"}

OwnInv == SlotInv /\ HeldWhileWaiting /\ Progress /\ NoLostWakeup

-----------------------------------------------------------------------------
(* What dispatch_jobs_locked moves, job by job. *)

\* The first n jobs of q go to the n slots of pick, the others stay in order.
Moves(q, n, pick) ==
    /\ Len(queue') = Len(q) - n
    /\ \A i \in 1 .. Len(q) - n : queue'[i] = q[n + i]
    /\ \A i, k \in 1 .. n : pick[i] = pick[k] => i = k
    /\ \A i \in 1 .. n : assigned'[pick[i]] = q[i]
    /\ \A s \in Slots : (\A i \in 1 .. n : pick[i] # s) => assigned'[s] = assigned[s]

\* Dispatch is such a move.
LEMMA DispatchMoves ==
    ASSUME NEW q \in Seq(Clients), NEW idle \in SUBSET Slots, Dispatch(q, idle)
    PROVE  \E n \in 0 .. Len(q) : \E pick \in [1 .. n -> idle] : Moves(q, n, pick)
<1>1. PICK n \in 0 .. Len(q) : \E pick \in [1 .. n -> idle] :
        /\ PicksInOrder(q, idle, n, pick)
        /\ queue' = SubSeq(q, n + 1, Len(q))
        /\ assigned' = [s \in Slots |->
               IF \E i \in 1 .. n : pick[i] = s
               THEN q[CHOOSE i \in 1 .. n : pick[i] = s] ELSE assigned[s]]
  BY DEF Dispatch
<1>2. PICK pick \in [1 .. n -> idle] :
        /\ PicksInOrder(q, idle, n, pick)
        /\ queue' = SubSeq(q, n + 1, Len(q))
        /\ assigned' = [s \in Slots |->
               IF \E i \in 1 .. n : pick[i] = s
               THEN q[CHOOSE i \in 1 .. n : pick[i] = s] ELSE assigned[s]]
  BY <1>1
<1>3. Len(q) \in Nat /\ n \in Nat /\ \A i \in 1 .. Len(q) : q[i] \in Clients
  BY ElementOfSeq, LenProperties
<1>4. \A i, k \in 1 .. n : pick[i] = pick[k] => i = k
  BY <1>2 DEF PicksInOrder
<1>5. /\ Len(queue') = Len(q) - n
      /\ \A i \in 1 .. Len(q) - n : queue'[i] = q[n + i]
  <2>1. \A i \in n + 1 .. Len(q) : q[i] \in Clients
    BY <1>3
  <2>2. n + 1 \in Int /\ Len(q) \in Int
    BY <1>3
  <2>3. /\ Len(SubSeq(q, n + 1, Len(q))) = IF n + 1 <= Len(q) THEN Len(q) - (n + 1) + 1 ELSE 0
        /\ \A i \in 1 .. Len(q) - (n + 1) + 1 : SubSeq(q, n + 1, Len(q))[i] = q[(n + 1) + i - 1]
    BY <2>1, <2>2, SubSeqProperties
  <2>. QED BY <1>2, <1>3, <2>3
<1>6. ASSUME NEW i \in 1 .. n PROVE assigned'[pick[i]] = q[i]
  <2>1. (CHOOSE k \in 1 .. n : pick[k] = pick[i]) = i
    BY <1>4
  <2>2. pick[i] \in Slots
    OBVIOUS
  <2>. QED BY <1>2, <2>1, <2>2
<1>7. \A s \in Slots : (\A i \in 1 .. n : pick[i] # s) => assigned'[s] = assigned[s]
  BY <1>2
<1>. QED BY <1>4, <1>5, <1>6, <1>7 DEF Moves

\* A move out of a well-held queue into slots without a job keeps every job
\* held, and held once.
LEMMA MovesKeepHolders ==
    ASSUME NEW q \in Seq(Clients), NEW n \in 0 .. Len(q), NEW idle \in SUBSET Slots,
           NEW pick \in [1 .. n -> idle],
           \A s \in idle : assigned[s] = NoJob,
           Moves(q, n, pick)
    PROVE  /\ \A c \in Clients : Held(queue', assigned', job, c) <=> Held(q, assigned, job, c)
           /\ HoldersDiffer(q, assigned, job) => HoldersDiffer(queue', assigned', job)
<1>1. Len(q) \in Nat /\ n \in Nat /\ \A i \in 1 .. Len(q) : q[i] \in Clients
  BY ElementOfSeq, LenProperties
<1>2. NoJob \notin Clients
  BY ClientsAssumption
<1>3. ASSUME NEW c \in Clients, Held(q, assigned, job, c)
      PROVE  Held(queue', assigned', job, c)
  <2>1. CASE \E i \in 1 .. Len(q) : q[i] = c
    <3>1. PICK i \in 1 .. Len(q) : q[i] = c
      BY <2>1
    <3>2. CASE i <= n
      <4>1. pick[i] \in Slots /\ assigned'[pick[i]] = c
        BY <1>1, <3>1, <3>2 DEF Moves
      <4>. QED BY <4>1 DEF Held
    <3>3. CASE i > n
      <4>1. i - n \in 1 .. Len(queue') /\ queue'[i - n] = c
        BY <1>1, <3>1, <3>3 DEF Moves
      <4>. QED BY <4>1 DEF Held
    <3>. QED BY <1>1, <3>2, <3>3
  <2>2. CASE \E s \in Slots : assigned[s] = c
    <3>1. PICK s \in Slots : assigned[s] = c
      BY <2>2
    <3>2. \A i \in 1 .. n : pick[i] # s
      BY <1>2, <3>1
    <3>. QED BY <3>1, <3>2 DEF Moves, Held
  <2>. QED BY <1>3, <2>1, <2>2 DEF Held
<1>4. ASSUME NEW c \in Clients, Held(queue', assigned', job, c)
      PROVE  Held(q, assigned, job, c)
  <2>1. CASE \E i \in 1 .. Len(queue') : queue'[i] = c
    <3>1. PICK i \in 1 .. Len(q) - n : queue'[i] = c
      BY <2>1 DEF Moves
    <3>2. n + i \in 1 .. Len(q) /\ q[n + i] = c
      BY <1>1, <3>1 DEF Moves
    <3>. QED BY <3>2 DEF Held
  <2>2. CASE \E s \in Slots : assigned'[s] = c
    <3>1. PICK s \in Slots : assigned'[s] = c
      BY <2>2
    <3>2. CASE \E i \in 1 .. n : pick[i] = s
      BY <1>1, <3>1, <3>2 DEF Moves, Held
    <3>3. CASE \A i \in 1 .. n : pick[i] # s
      BY <3>1, <3>3 DEF Moves, Held
    <3>. QED BY <3>2, <3>3
  <2>. QED BY <1>4, <2>1, <2>2 DEF Held
<1>5. ASSUME HoldersDiffer(q, assigned, job)
      PROVE  HoldersDiffer(queue', assigned', job)
  <2>. USE <1>1, <1>2, <1>5 DEF HoldersDiffer
  <2>1. \A i \in 1 .. Len(queue') : n + i \in 1 .. Len(q) /\ queue'[i] = q[n + i]
    BY DEF Moves
  <2>2. \A s \in Slots : \/ \E i \in 1 .. n : pick[i] = s /\ assigned'[s] = q[i]
                         \/ assigned'[s] = assigned[s]
    BY DEF Moves
  <2>3. \A i, k \in 1 .. Len(queue') : queue'[i] = queue'[k] => i = k
    <3>1. Len(queue') \in Int
      BY DEF Moves
    <3>. QED BY <2>1, <3>1
  <2>4. \A s, t \in Slots : assigned'[s] = assigned'[t] /\ assigned'[s] # NoJob => s = t
    BY <2>2
  <2>5. \A i \in 1 .. Len(queue'), s \in Slots : queue'[i] # assigned'[s] /\ queue'[i] # job[s]
    BY <2>1, <2>2
  <2>6. \A s, t \in Slots : job[s] # NoJob => job[s] # assigned'[t]
    BY <2>2
  <2>. QED BY <2>3, <2>4, <2>5, <2>6
<1>. QED BY <1>3, <1>4, <1>5

LEMMA OwnInvInit == Init => OwnInv
<1>. SUFFICES ASSUME Init PROVE OwnInv
  OBVIOUS
<1>1. SlotInv
  BY SlotInvInit
<1>2. Len(queue) = 0
  BY EmptySeq DEF Init
<1>3. HeldWhileWaiting
  BY <1>2, ClientsAssumption DEF Init, HeldWhileWaiting, HoldersDiffer, Held, Waiting
<1>4. Progress /\ NoLostWakeup
  BY DEF Init, Progress, NoLostWakeup
<1>. QED BY <1>1, <1>3, <1>4 DEF OwnInv

-----------------------------------------------------------------------------
(* Every step keeps the holders. *)

\* A dispatch of q into slots without a job: the holders, the types and the
\* waiting workers.
LEMMA DispatchKeepsHolders ==
    ASSUME NEW q \in Seq(Clients), NEW idle \in SUBSET Slots,
           \A s \in idle : assigned[s] = NoJob,
           Dispatch(q, idle)
    PROVE  /\ \A c \in Clients : Held(queue', assigned', job, c) <=> Held(q, assigned, job, c)
           /\ HoldersDiffer(q, assigned, job) => HoldersDiffer(queue', assigned', job)
           /\ assigned' = assigned => Len(queue') = Len(q)
<1>1. PICK n \in 0 .. Len(q) : \E pick \in [1 .. n -> idle] : Moves(q, n, pick)
  BY DispatchMoves
<1>2. PICK pick \in [1 .. n -> idle] : Moves(q, n, pick)
  BY <1>1
<1>3. ASSUME assigned' = assigned PROVE Len(queue') = Len(q)
  <2>1. Len(q) \in Nat /\ n \in Nat /\ \A i \in 1 .. Len(q) : q[i] \in Clients
    BY ElementOfSeq, LenProperties
  <2>2. CASE n > 0
    <3>1. pick[1] \in idle /\ assigned'[pick[1]] = q[1] /\ q[1] \in Clients
      BY <1>2, <2>1, <2>2 DEF Moves
    <3>. QED BY <1>3, <3>1, ClientsAssumption
  <2>. QED BY <1>2, <2>1, <2>2 DEF Moves
<1>. QED BY <1>2, <1>3, MovesKeepHolders

\* A new job at the tail of the queue is held as well.
LEMMA AppendKeepsHolders ==
    ASSUME queue \in Seq(Clients), NEW c \in Clients,
           HoldersDiffer(queue, assigned, job), ~Held(queue, assigned, job, c)
    PROVE  /\ \A d \in Clients : Held(Append(queue, c), assigned, job, d)
                                  <=> d = c \/ Held(queue, assigned, job, d)
           /\ HoldersDiffer(Append(queue, c), assigned, job)
<1>. DEFINE q == Append(queue, c)
<1>1. /\ Len(queue) \in Nat
      /\ Len(q) = Len(queue) + 1
      /\ \A i \in 1 .. Len(queue) : q[i] = queue[i]
      /\ q[Len(queue) + 1] = c
  BY AppendProperties, LenProperties
<1>. HIDE DEF q
<1>2. \A d \in Clients : Held(q, assigned, job, d) <=> d = c \/ Held(queue, assigned, job, d)
  BY <1>1 DEF Held
<1>3. HoldersDiffer(q, assigned, job)
  BY <1>1 DEF Held, HoldersDiffer
<1>. QED BY <1>2, <1>3 DEF q

\* A step that moves no job and no client keeps the holders.
LEMMA HoldersUnchanged ==
    ASSUME HeldWhileWaiting, UNCHANGED <<queue, assigned, job, client, done>>
    PROVE  HeldWhileWaiting'
BY DEF HeldWhileWaiting, Held, HoldersDiffer, Waiting

\* The client threads.
LEMMA ClientKeepsOwnInv ==
    ASSUME OwnInv, SlotInv', NEW c \in Clients,
           ClientThread(c) \/ Accept(c) \/ AcceptNoThread(c)
    PROVE  OwnInv'
<1>. USE DEF OwnInv, SlotInv, TypeOK, WorkerStates, ClientStates, MainStates, queueVars,
             workerVars, clientVars
<1>a. ASSUME UNCHANGED <<queue, assigned, job, cvWait, worker, stopping, mainpc, batched>>,
             \A d \in Clients : Waiting(d)' <=> Waiting(d),
             \A d \in Clients : client'[d] \in {"none", "request"} => ~done'[d]
      PROVE  OwnInv'
  <2>1. HeldWhileWaiting'
    <3>1. HoldersDiffer(queue, assigned, job)'
      BY <1>a DEF HeldWhileWaiting, HoldersDiffer
    <3>2. \A d \in Clients : Held(queue, assigned, job, d)' <=> Held(queue, assigned, job, d)
      BY <1>a DEF Held
    <3>. QED BY ONLY <1>a, <3>1, <3>2, OwnInv DEF OwnInv, HeldWhileWaiting
  <2>2. Progress'
    BY <1>a DEF Progress
  <2>3. NoLostWakeup'
    BY <1>a DEF NoLostWakeup, NothingToDo
  <2>. QED BY <2>1, <2>2, <2>3
<1>1. CASE AnswerDirectly(c)
  BY <1>a, <1>1 DEF AnswerDirectly, Waiting, Progress
<1>2. CASE EnqueueRefused(c)
  BY <1>a, <1>2 DEF EnqueueRefused, Waiting, Progress
<1>3. CASE Enqueue(c)
  <2>. DEFINE q == Append(queue, c)
  <2>1. q \in Seq(Clients)
    BY AppendProperties
  <2>2. ~Waiting(c) /\ ~done[c]
    BY <1>3 DEF Enqueue, Join, Waiting, Progress
  <2>3. /\ \A d \in Clients : Held(q, assigned, job, d) <=> d = c \/ Held(queue, assigned, job, d)
        /\ HoldersDiffer(q, assigned, job)
    BY <2>2, AppendKeepsHolders DEF HeldWhileWaiting
  <2>. HIDE DEF q
  <2>4. /\ \A d \in Clients : Held(queue', assigned', job, d) <=> Held(q, assigned, job, d)
        /\ HoldersDiffer(queue', assigned', job)
    <3>1. CASE batched
      <4>1. Dispatch(q, IdleSlots)
        BY <1>3, <3>1 DEF Enqueue, Join, q
      <4>2. IdleSlots \in SUBSET Slots /\ \A s \in IdleSlots : assigned[s] = NoJob
        BY DEF IdleSlots
      <4>. QED BY <2>1, <2>3, <4>1, <4>2, DispatchKeepsHolders
    <3>2. CASE ~batched
      <4>1. queue' = q /\ assigned' = assigned
        BY <1>3, <3>2 DEF Enqueue, Join, q
      <4>. QED BY <2>3, <4>1
    <3>. QED BY <3>1, <3>2
  <2>5. \A d \in Clients : Waiting(d)' <=> d = c \/ Waiting(d)
    BY <1>3, <2>2 DEF Enqueue, Join, Waiting
  <2>6. job' = job /\ cvWait' = {}
    BY <1>3 DEF Enqueue, Join
  <2>7. HeldWhileWaiting'
    BY <2>3, <2>4, <2>5, <2>6 DEF HeldWhileWaiting
  <2>8. Progress'
    BY <1>3 DEF Enqueue, Join, Progress
  <2>9. NoLostWakeup'
    BY <2>6 DEF NoLostWakeup
  <2>. QED BY <2>7, <2>8, <2>9
<1>4. CASE ClientWake(c)
  BY <1>a, <1>4 DEF ClientWake, Waiting, Progress
<1>5. CASE ClientDone(c)
  BY <1>a, <1>5 DEF ClientDone, Waiting, Progress
<1>6. CASE Accept(c)
  BY <1>a, <1>6 DEF Accept, Waiting, Progress
<1>7. CASE AcceptNoThread(c)
  BY <1>a, <1>7 DEF AcceptNoThread, Waiting, Progress
<1>. QED BY <1>1, <1>2, <1>3, <1>4, <1>5, <1>6, <1>7 DEF ClientThread

\* The slot workers.
LEMMA WorkerKeepsOwnInv ==
    ASSUME OwnInv, SlotInv', NEW s \in Slots, SlotWorker(s)
    PROVE  OwnInv'
<1>. USE DEF OwnInv, SlotInv, TypeOK, WorkerStates, ClientStates, MainStates, queueVars,
             workerVars, clientVars
<1>a. NoJob \notin Clients /\ Len(queue) \in Nat /\ \A i \in 1 .. Len(queue) : queue[i] \in Clients
  BY ClientsAssumption, ElementOfSeq, LenProperties
<1>1. CASE WaitForJob(s)
  <2>1. HeldWhileWaiting'
    BY <1>1, HoldersUnchanged DEF WaitForJob
  <2>2. Progress'
    BY <1>1 DEF WaitForJob, Progress
  <2>3. NoLostWakeup'
    BY <1>1 DEF WaitForJob, NoLostWakeup, NothingToDo, Looking
  <2>. QED BY <2>1, <2>2, <2>3
<1>2. CASE TakeAssigned(s)
  <2>1. /\ assigned[s] \in Clients /\ job[s] = NoJob
        /\ job' = [job EXCEPT ![s] = assigned[s]]
        /\ assigned' = [assigned EXCEPT ![s] = NoJob]
        /\ worker' = [worker EXCEPT ![s] = "run"]
        /\ UNCHANGED <<queue, client, done, cvWait, stopping, mainpc, batched>>
        /\ batched /\ s \notin cvWait
    BY <1>2 DEF TakeAssigned, RunJob, Looking, Progress
  <2>2. \A c \in Clients : Held(queue', assigned', job', c) <=> Held(queue, assigned, job, c)
    BY <1>a, <2>1 DEF Held
  <2>3. HoldersDiffer(queue', assigned', job')
    BY <1>a, <2>1 DEF HeldWhileWaiting, HoldersDiffer
  <2>4. HeldWhileWaiting'
    BY <2>1, <2>2, <2>3 DEF HeldWhileWaiting, Waiting
  <2>5. Progress'
    BY <1>a, <2>1 DEF Progress
  <2>6. NoLostWakeup'
    BY <2>1 DEF NoLostWakeup, NothingToDo
  <2>. QED BY <2>4, <2>5, <2>6
<1>3. CASE Dequeue(s)
  <2>1. /\ queue # <<>> /\ job[s] = NoJob
        /\ job' = [job EXCEPT ![s] = Head(queue)]
        /\ queue' = Tail(queue)
        /\ worker' = [worker EXCEPT ![s] = "run"]
        /\ UNCHANGED <<assigned, client, done, cvWait, stopping, mainpc, batched>>
        /\ ~batched /\ s \notin cvWait
    BY <1>3 DEF Dequeue, RunJob, Looking, Progress
  <2>2. /\ Head(queue) = queue[1] /\ Len(queue) > 0
        /\ Len(queue') = Len(queue) - 1
        /\ \A i \in 1 .. Len(queue) - 1 : queue'[i] = queue[i + 1]
    BY <2>1, <1>a, EmptySeq, HeadTailProperties DEF Head
  <2>3. \A c \in Clients : Held(queue', assigned', job', c) <=> Held(queue, assigned, job, c)
    <3>1. ASSUME NEW c \in Clients, Held(queue, assigned, job, c)
          PROVE  Held(queue', assigned', job', c)
      <4>1. CASE \E i \in 1 .. Len(queue) : queue[i] = c
        <5>1. PICK i \in 1 .. Len(queue) : queue[i] = c
          BY <4>1
        <5>2. CASE i = 1
          BY <2>1, <2>2, <5>1, <5>2 DEF Held
        <5>3. CASE i > 1
          <6>1. i - 1 \in 1 .. Len(queue') /\ queue'[i - 1] = c
            BY <1>a, <2>2, <5>1, <5>3
          <6>. QED BY <6>1 DEF Held
        <5>. QED BY <1>a, <5>2, <5>3
      <4>2. CASE \E t \in Slots : assigned[t] = c \/ job[t] = c
        BY <1>a, <2>1, <4>2 DEF Held
      <4>. QED BY <3>1, <4>1, <4>2 DEF Held
    <3>2. ASSUME NEW c \in Clients, Held(queue', assigned', job', c)
          PROVE  Held(queue, assigned, job, c)
      <4>1. CASE \E i \in 1 .. Len(queue') : queue'[i] = c
        BY <1>a, <2>2, <4>1 DEF Held
      <4>2. CASE \E t \in Slots : assigned'[t] = c \/ job'[t] = c
        BY <1>a, <2>1, <2>2, <4>2 DEF Held
      <4>. QED BY <3>2, <4>1, <4>2 DEF Held
    <3>. QED BY <3>1, <3>2
  <2>4. HoldersDiffer(queue', assigned', job')
    <3>. USE <1>a, <2>1, <2>2 DEF HeldWhileWaiting, HoldersDiffer
    <3>1. \A i \in 1 .. Len(queue') : i + 1 \in 1 .. Len(queue) /\ queue'[i] = queue[i + 1]
      OBVIOUS
    <3>2. Len(queue') \in Int
      OBVIOUS
    <3>3. \A i, k \in 1 .. Len(queue') : queue'[i] = queue'[k] => i = k
      BY <3>1, <3>2
    <3>4. \A t, u \in Slots : job'[t] = job'[u] /\ job'[t] # NoJob => t = u
      OBVIOUS
    <3>5. \A i \in 1 .. Len(queue'), t \in Slots :
             queue'[i] # assigned'[t] /\ queue'[i] # job'[t]
      BY <3>1, <3>2
    <3>6. \A t, u \in Slots : job'[t] # NoJob => job'[t] # assigned'[u]
      OBVIOUS
    <3>. QED BY <3>3, <3>4, <3>5, <3>6
  <2>5. HeldWhileWaiting'
    BY <2>1, <2>3, <2>4 DEF HeldWhileWaiting, Waiting
  <2>6. Progress'
    BY <1>a, <2>1, <2>2 DEF Progress
  <2>7. NoLostWakeup'
    <3>1. \A t \in Slots : t = s
      BY <2>1, SlotsAssumption DEF Slots
    <3>. QED BY <2>1, <3>1 DEF NoLostWakeup
  <2>. QED BY <2>5, <2>6, <2>7
<1>4. CASE WorkerExit(s)
  <2>1. HeldWhileWaiting'
    BY <1>4, HoldersUnchanged DEF WorkerExit
  <2>2. Progress'
    BY <1>4 DEF WorkerExit, Looking, Progress
  <2>3. NoLostWakeup'
    BY <1>4 DEF WorkerExit, NoLostWakeup, NothingToDo, Looking
  <2>. QED BY <2>1, <2>2, <2>3
<1>5. CASE FinishJob(s)
  <2>1. /\ job[s] \in Clients /\ worker[s] = "run"
        /\ job' = [job EXCEPT ![s] = NoJob]
        /\ done' = [done EXCEPT ![job[s]] = TRUE]
        /\ worker' = [worker EXCEPT ![s] = IF batched THEN "release" ELSE "look"]
        /\ UNCHANGED <<queue, assigned, client, cvWait, stopping, mainpc, batched>>
    BY <1>5 DEF FinishJob, Progress
  <2>2. Waiting(job[s])
    BY <2>1 DEF HeldWhileWaiting, Held
  <2>3. \A c \in Clients : Held(queue', assigned', job', c)
                           <=> c # job[s] /\ Held(queue, assigned, job, c)
    BY <1>a, <2>1 DEF HeldWhileWaiting, Held, HoldersDiffer
  <2>4. HoldersDiffer(queue', assigned', job')
    BY <1>a, <2>1 DEF HeldWhileWaiting, HoldersDiffer
  <2>5. \A c \in Clients : Waiting(c)' <=> c # job[s] /\ Waiting(c)
    BY <2>1 DEF Waiting
  <2>6. HeldWhileWaiting'
    BY <2>3, <2>4, <2>5 DEF HeldWhileWaiting
  <2>7. Progress'
    BY <1>a, <2>1, <2>2 DEF Progress, Waiting
  <2>8. NoLostWakeup'
    BY <2>1 DEF NoLostWakeup, NothingToDo
  <2>. QED BY <2>6, <2>7, <2>8
<1>6. CASE Release(s)
  <2>. DEFINE idle == {t \in Slots : (t = s \/ ~busy[t]) /\ assigned[t] = NoJob}
  <2>1. /\ worker[s] = "release"
        /\ Dispatch(queue, idle)
        /\ cvWait' = IF assigned' = assigned THEN cvWait ELSE {}
        /\ worker' = [worker EXCEPT ![s] = "look"]
        /\ UNCHANGED <<job, client, done, stopping, mainpc, batched>>
    BY <1>6 DEF Release
  <2>2. batched
    BY <2>1 DEF BusyWhileOwned
  <2>3. idle \in SUBSET Slots /\ \A t \in idle : assigned[t] = NoJob
    OBVIOUS
  <2>. HIDE DEF idle
  <2>4. /\ \A c \in Clients : Held(queue', assigned', job, c) <=> Held(queue, assigned, job, c)
        /\ HoldersDiffer(queue', assigned', job)
        /\ assigned' = assigned => Len(queue') = Len(queue)
    BY <2>1, <2>3, DispatchKeepsHolders DEF HeldWhileWaiting
  <2>5. HeldWhileWaiting'
    BY <2>1, <2>4 DEF HeldWhileWaiting, Waiting
  <2>6. Progress'
    BY <2>1, <2>2 DEF Progress
  <2>7. NoLostWakeup'
    <3>1. CASE assigned' = assigned
      <4>1. queue # <<>> => queue' # <<>>
        BY <1>a, <2>4, <3>1, EmptySeq
      <4>. QED BY <2>1, <2>2, <3>1, <4>1 DEF NoLostWakeup, NothingToDo
    <3>2. CASE assigned' # assigned
      BY <2>1, <3>2 DEF NoLostWakeup
    <3>. QED BY <3>1, <3>2
  <2>. QED BY <2>5, <2>6, <2>7
<1>. QED BY <1>1, <1>2, <1>3, <1>4, <1>5, <1>6 DEF SlotWorker

\* The main thread and the signal handler hold no job; the drain wakes everybody.
LEMMA MainKeepsOwnInv ==
    ASSUME OwnInv, SlotInv', MainDrain \/ StopSignal \/ Closed
    PROVE  OwnInv'
<1>. USE DEF OwnInv, queueVars, workerVars, clientVars, MainStep
<1>1. UNCHANGED <<queue, assigned, job, worker, client, done, batched>>
  BY DEF MainDrain, Listen, ListenFails, LeaveAcceptLoop, SetStopping, MainCancel,
         JoinWorkers, MainModelStop, JoinCoordinator, WaitClients, PersistAndClose,
         StopSignal, Closed, vars
<1>2. HeldWhileWaiting'
  BY <1>1 DEF HeldWhileWaiting, Held, HoldersDiffer, Waiting
<1>3. (stopping <=> mainpc \notin {"listen", "accept", "stop"})'
  BY DEF Progress, MainDrain, Listen, ListenFails, LeaveAcceptLoop, SetStopping, MainCancel,
         JoinWorkers, MainModelStop, JoinCoordinator, WaitClients, PersistAndClose,
         StopSignal, Closed, vars
<1>4. Progress'
  BY <1>1, <1>3 DEF Progress
<1>5. (stopping' = stopping /\ cvWait' = cvWait) \/ cvWait' = {}
  BY DEF MainDrain, Listen, ListenFails, LeaveAcceptLoop, SetStopping, MainCancel,
         JoinWorkers, MainModelStop, JoinCoordinator, WaitClients, PersistAndClose,
         StopSignal, Closed, vars
<1>6. NoLostWakeup'
  BY <1>1, <1>5 DEF NoLostWakeup, NothingToDo
<1>. QED BY <1>2, <1>4, <1>6

LEMMA OwnInvNext == OwnInv /\ [Next]_vars => OwnInv'
<1>. SUFFICES ASSUME OwnInv, [Next]_vars PROVE OwnInv'
  OBVIOUS
<1>1. SlotInv'
  BY SlotInvNext DEF OwnInv
<1>2. ASSUME NEW c \in Clients, ClientThread(c) \/ Accept(c) \/ AcceptNoThread(c)
      PROVE  OwnInv'
  BY <1>1, <1>2, ClientKeepsOwnInv
<1>3. ASSUME NEW s \in Slots, SlotWorker(s)
      PROVE  OwnInv'
  BY <1>1, <1>3, WorkerKeepsOwnInv
<1>4. CASE MainDrain \/ StopSignal \/ Closed
  BY <1>1, <1>4, MainKeepsOwnInv
<1>5. CASE UNCHANGED vars
  BY <1>1, <1>5 DEF vars, queueVars, workerVars, clientVars, OwnInv, HeldWhileWaiting, Held,
                    HoldersDiffer, Waiting, Progress, NoLostWakeup, NothingToDo
<1>. QED BY <1>2, <1>3, <1>4, <1>5 DEF Next

LEMMA OwnInvAlways == Spec => []OwnInv
BY OwnInvInit, OwnInvNext, PTL DEF Spec

-----------------------------------------------------------------------------
(* What the invariant says about the request plane. *)

\* A job is held somewhere exactly when Places has a place for it.
LEMMA HeldInPlaces ==
    ASSUME TypeOK, NEW c \in Clients
    PROVE  Held(queue, assigned, job, c) <=> Places(c) # {}
<1>1. DOMAIN queue = 1 .. Len(queue)
  BY LenProperties DEF TypeOK
<1>2. ASSUME Held(queue, assigned, job, c) PROVE Places(c) # {}
  <2>1. CASE \E i \in 1 .. Len(queue) : queue[i] = c
    BY <1>1, <2>1 DEF Places
  <2>2. CASE \E s \in Slots : assigned[s] = c
    BY <2>2 DEF Places
  <2>3. CASE \E s \in Slots : job[s] = c
    BY <2>3 DEF Places
  <2>. QED BY <1>2, <2>1, <2>2, <2>3 DEF Held
<1>3. ASSUME Places(c) # {} PROVE Held(queue, assigned, job, c)
  BY <1>1, <1>3 DEF Places, Held
<1>. QED BY <1>2, <1>3

\* Job structs live on client stacks (comment above struct job).  No queue
\* entry, slot or worker keeps a pointer to one after its client has left.
THEOREM JobsAreOwned == Spec => []StackOwnedJobs
<1>1. OwnInv => StackOwnedJobs
  BY HeldInPlaces DEF OwnInv, SlotInv, HeldWhileWaiting, StackOwnedJobs, Waiting
<1>. QED BY <1>1, OwnInvAlways, PTL

\* enqueue, dispatch_jobs_locked and dequeue neither lose nor duplicate a job.
THEOREM JobsAreHeldOnce == Spec => []HeldOnce
<1>1. OwnInv => HeldOnce
  <2>. SUFFICES ASSUME OwnInv, NEW c \in Clients, client[c] = "wait", ~done[c]
                PROVE  \E p \in Places(c) : Places(c) = {p}
    BY DEF HeldOnce
  <2>1. DOMAIN queue = 1 .. Len(queue)
    BY LenProperties DEF OwnInv, SlotInv, TypeOK
  <2>2. Places(c) # {}
    BY HeldInPlaces DEF OwnInv, SlotInv, HeldWhileWaiting, Waiting
  <2>3. ASSUME NEW p \in Places(c), NEW r \in Places(c) PROVE p = r
    <3>. USE <2>1, ClientsAssumption DEF OwnInv, HeldWhileWaiting, HoldersDiffer, Places
    <3>1. CASE \E i \in 1 .. Len(queue) : queue[i] = c /\ p = <<"queue", i>>
      BY <3>1
    <3>2. CASE \E s \in Slots : assigned[s] = c /\ p = <<"assigned", s>>
      BY <3>2
    <3>3. CASE \E s \in Slots : job[s] = c /\ p = <<"running", s>>
      BY <3>3
    <3>. QED BY <3>1, <3>2, <3>3
  <2>. QED BY <2>2, <2>3
<1>. QED BY <1>1, OwnInvAlways, PTL

\* A worker that sleeps on server.cv has nothing to do: enqueue, the release of
\* a slot and the drain wake it when that changes.
THEOREM WakeupsReach == Spec => []NoLostWakeup
<1>1. OwnInv => NoLostWakeup
  BY DEF OwnInv
<1>. QED BY <1>1, OwnInvAlways, PTL

-----------------------------------------------------------------------------
(* First come, first served. *)

\* What FifoDispatch says of one step.
FifoStep ==
    \A c \in Clients :
        Queued(queue, c) /\ Queued(queue', c) =>
            Started \cup Ahead(queue', c) \subseteq Ahead(queue, c)

\* A dispatch out of q starts what it moves, and nothing else is started.
LEMMA MovesStart ==
    ASSUME TypeOK, NEW q \in Seq(Clients), NEW n \in 0 .. Len(q),
           NEW pick \in [1 .. n -> Slots], Moves(q, n, pick), job' = job
    PROVE  \A c \in Started : \E i \in 1 .. n : q[i] = c
<1>. SUFFICES ASSUME NEW c \in Started PROVE \E i \in 1 .. n : q[i] = c
  OBVIOUS
<1>1. PICK s \in Slots : assigned'[s] = c /\ assigned[s] # c
  BY DEF Started
<1>2. PICK i \in 1 .. n : pick[i] = s
  BY <1>1 DEF Moves
<1>3. assigned'[pick[i]] = q[i]
  BY DEF Moves
<1>. QED BY <1>1, <1>2, <1>3

\* If a job waits already, or no slot is idle, a new job just joins the queue.
LEMMA EnqueueAppends ==
    ASSUME OwnInv, NEW c \in Clients, Enqueue(c), queue # <<>> \/ IdleSlots = {}
    PROVE  queue' = Append(queue, c) /\ assigned' = assigned /\ job' = job
<1>. USE DEF OwnInv, SlotInv, TypeOK
<1>. DEFINE q == Append(queue, c)
<1>0. job' = job
  BY DEF Enqueue, Join, workerVars
<1>1. CASE batched
  <2>1. IdleSlots = {}
    BY <1>1 DEF NoIdleSlotWhileQueued, IdleSlots
  <2>2. q \in Seq(Clients)
    BY AppendProperties
  <2>. HIDE DEF q
  <2>a. Dispatch(q, {})
    BY <1>1, <2>1 DEF Enqueue, Join, q
  <2>3. PICK n \in 0 .. Len(q) : \E pick \in [1 .. n -> {}] :
          /\ queue' = SubSeq(q, n + 1, Len(q))
          /\ assigned' = [s \in Slots |->
                 IF \E i \in 1 .. n : pick[i] = s
                 THEN q[CHOOSE i \in 1 .. n : pick[i] = s] ELSE assigned[s]]
    BY ONLY <2>a DEF Dispatch
  <2>4. Len(q) \in Nat /\ n \in Nat
    BY <2>2, LenProperties
  <2>5. n = 0
    <3>1. CASE n # 0
      <4>1. 1 \in 1 .. n
        BY <2>4, <3>1
      <4>. QED BY <2>3, <4>1
    <3>. QED BY <3>1
  <2>6. queue' = SubSeq(q, 1, Len(q))
    BY <2>3, <2>5
  <2>7. assigned' = [s \in Slots |-> assigned[s]]
    BY <2>3, <2>4, <2>5
  <2>8. queue' = q
    BY <2>2, <2>6, SubSeqFull
  <2>. QED BY <1>0, <2>7, <2>8 DEF q
<1>2. CASE ~batched
  BY <1>0, <1>2 DEF Enqueue, Join
<1>. QED BY <1>1, <1>2

\* Who is ahead of c, element by element.
LEMMA AheadMembers ==
    ASSUME NEW q, NEW c, NEW x
    PROVE  x \in Ahead(q, c) <=> \E k, m \in DOMAIN q : k < m /\ q[m] = c /\ q[k] = x
BY DEF Ahead

LEMMA AheadInAhead ==
    ASSUME NEW q, NEW r, NEW c,
           \A k, m \in DOMAIN q : k < m /\ q[m] = c => q[k] \in Ahead(r, c)
    PROVE  Ahead(q, c) \subseteq Ahead(r, c)
BY AheadMembers

\* No step lets a job overtake one that waits.
LEMMA FifoSteps == OwnInv /\ OwnInv' /\ [Next]_vars => FifoStep
<1>. SUFFICES ASSUME OwnInv, OwnInv', [Next]_vars,
                     NEW c \in Clients, Queued(queue, c), Queued(queue', c)
              PROVE  Started \cup Ahead(queue', c) \subseteq Ahead(queue, c)
  BY DEF FifoStep
<1>. USE DEF queueVars, workerVars, clientVars
<1>0. TypeOK /\ TypeOK'
  BY DEF OwnInv, SlotInv
<1>1. /\ NoJob \notin Clients
      /\ Len(queue) \in Nat /\ DOMAIN queue = 1 .. Len(queue)
      /\ \A i \in 1 .. Len(queue) : queue[i] \in Clients
      /\ Len(queue') \in Nat /\ DOMAIN queue' = 1 .. Len(queue')
  BY <1>0, ClientsAssumption, ElementOfSeq, LenProperties DEF TypeOK
<1>2. queue # <<>>
  BY <1>1, EmptySeq DEF Queued
<1>3. Waiting(c)
  BY <1>1 DEF Queued, OwnInv, HeldWhileWaiting, Held
<1>4. ASSUME UNCHANGED queue, Started = {}
      PROVE  Started \cup Ahead(queue', c) \subseteq Ahead(queue, c)
  BY <1>4
<1>5. ASSUME UNCHANGED <<queue, assigned, job>>
      PROVE  Started \cup Ahead(queue', c) \subseteq Ahead(queue, c)
  <2>1. Started = {}
    BY <1>5 DEF Started
  <2>. QED BY <1>4, <1>5, <2>1
<1>6. ASSUME NEW d \in Clients, Enqueue(d)
      PROVE  Started \cup Ahead(queue', c) \subseteq Ahead(queue, c)
  <2>1. queue' = Append(queue, d) /\ assigned' = assigned /\ job' = job
    BY <1>2, <1>6, EnqueueAppends
  <2>2. Started = {}
    BY <2>1 DEF Started
  <2>3. c # d
    BY <1>3, <1>6 DEF Enqueue, Join, Waiting
  <2>4. /\ Len(queue') = Len(queue) + 1
        /\ \A i \in 1 .. Len(queue) : queue'[i] = queue[i]
        /\ queue'[Len(queue) + 1] = d
    BY <1>0, <2>1, AppendProperties DEF TypeOK
  <2>5. ASSUME NEW k \in 1 .. Len(queue'), NEW m \in 1 .. Len(queue'), k < m, queue'[m] = c
        PROVE  queue'[k] \in Ahead(queue, c)
    <3>1. m \in 1 .. Len(queue)
      BY <1>1, <2>3, <2>4, <2>5
    <3>2. k \in 1 .. Len(queue) /\ queue'[k] = queue[k] /\ queue'[m] = queue[m]
      BY <1>1, <2>4, <2>5, <3>1
    <3>. QED BY <1>1, <2>5, <3>1, <3>2, AheadMembers
  <2>6. Ahead(queue', c) \subseteq Ahead(queue, c)
    BY <1>1, <2>5, AheadInAhead
  <2>. QED BY <2>2, <2>6
<1>7. ASSUME NEW s \in Slots, Dequeue(s)
      PROVE  Started \cup Ahead(queue', c) \subseteq Ahead(queue, c)
  <2>1. /\ job' = [job EXCEPT ![s] = Head(queue)] /\ queue' = Tail(queue)
        /\ assigned' = assigned
    BY <1>7 DEF Dequeue, RunJob
  <2>2. /\ Head(queue) = queue[1] /\ Len(queue') = Len(queue) - 1
        /\ \A i \in 1 .. Len(queue') : queue'[i] = queue[i + 1]
    BY <1>0, <1>2, <2>1, HeadTailProperties DEF Head, TypeOK
  <2>3. Started \subseteq {queue[1]}
    BY <1>0, <2>1, <2>2 DEF Started, TypeOK
  <2>4. PICK k \in 1 .. Len(queue') : queue'[k] = c
    BY <1>1 DEF Queued
  <2>5. 1 < k + 1 /\ k + 1 \in 1 .. Len(queue) /\ queue[k + 1] = c /\ 1 \in 1 .. Len(queue)
    BY <1>1, <2>2, <2>4
  <2>6. queue[1] \in Ahead(queue, c)
    BY <1>1, <2>5, AheadMembers
  <2>7. ASSUME NEW i \in 1 .. Len(queue'), NEW m \in 1 .. Len(queue'), i < m, queue'[m] = c
        PROVE  queue'[i] \in Ahead(queue, c)
    <3>1. /\ i + 1 \in 1 .. Len(queue) /\ m + 1 \in 1 .. Len(queue) /\ i + 1 < m + 1
          /\ queue[m + 1] = c /\ queue'[i] = queue[i + 1]
      BY <1>1, <2>2, <2>7
    <3>. QED BY <1>1, <3>1, AheadMembers
  <2>8. Ahead(queue', c) \subseteq Ahead(queue, c)
    BY <1>1, <2>7, AheadInAhead
  <2>. QED BY <2>3, <2>6, <2>8
<1>8. ASSUME NEW s \in Slots, Release(s)
      PROVE  Started \cup Ahead(queue', c) \subseteq Ahead(queue, c)
  <2>. DEFINE idle == {t \in Slots : (t = s \/ ~busy[t]) /\ assigned[t] = NoJob}
  <2>1. Dispatch(queue, idle) /\ job' = job
    BY <1>8 DEF Release
  <2>2. idle \in SUBSET Slots
    OBVIOUS
  <2>. HIDE DEF idle
  <2>3. PICK n \in 0 .. Len(queue) : \E pick \in [1 .. n -> idle] : Moves(queue, n, pick)
    BY <1>0, <2>1, <2>2, DispatchMoves DEF TypeOK
  <2>4. PICK pick \in [1 .. n -> idle] : Moves(queue, n, pick)
    BY <2>3
  <2>5. pick \in [1 .. n -> Slots]
    BY <2>2
  <2>6. PICK k \in 1 .. Len(queue') : queue'[k] = c
    BY <1>1 DEF Queued
  <2>7. /\ n \in Nat /\ n < n + k /\ n + k \in 1 .. Len(queue) /\ queue[n + k] = c
    BY <1>1, <2>4, <2>6 DEF Moves
  <2>8. ASSUME NEW i \in 1 .. n PROVE queue[i] \in Ahead(queue, c)
    <3>1. i \in 1 .. Len(queue) /\ i < n + k
      BY <1>1, <2>7
    <3>. QED BY <1>1, <2>7, <3>1, AheadMembers
  <2>9. \A x \in Started : \E i \in 1 .. n : queue[i] = x
    BY <1>0, <2>1, <2>4, <2>5, MovesStart DEF TypeOK
  <2>10. ASSUME NEW i \in 1 .. Len(queue'), NEW m \in 1 .. Len(queue'), i < m, queue'[m] = c
         PROVE  queue'[i] \in Ahead(queue, c)
    <3>1. /\ n + i \in 1 .. Len(queue) /\ n + m \in 1 .. Len(queue) /\ n + i < n + m
          /\ queue[n + m] = c /\ queue'[i] = queue[n + i]
      BY <1>1, <2>4, <2>7, <2>10 DEF Moves
    <3>. QED BY <1>1, <3>1, AheadMembers
  <2>11. Ahead(queue', c) \subseteq Ahead(queue, c)
    BY <1>1, <2>10, AheadInAhead
  <2>. QED BY <2>8, <2>9, <2>11
<1>9. ASSUME NEW s \in Slots, TakeAssigned(s)
      PROVE  Started \cup Ahead(queue', c) \subseteq Ahead(queue, c)
  <2>1. Started = {} /\ queue' = queue
    BY <1>0, <1>1, <1>9 DEF TakeAssigned, RunJob, Started, TypeOK
  <2>. QED BY <1>4, <2>1
<1>10. ASSUME NEW s \in Slots, FinishJob(s)
      PROVE  Started \cup Ahead(queue', c) \subseteq Ahead(queue, c)
  <2>1. Started = {} /\ queue' = queue
    BY <1>0, <1>1, <1>10 DEF FinishJob, Started, TypeOK
  <2>. QED BY <1>4, <2>1
<1>11. ASSUME NEW s \in Slots, WaitForJob(s) \/ WorkerExit(s)
      PROVE  Started \cup Ahead(queue', c) \subseteq Ahead(queue, c)
  BY <1>5, <1>11 DEF WaitForJob, WorkerExit
<1>12. ASSUME NEW d \in Clients,
              \/ AnswerDirectly(d) \/ EnqueueRefused(d) \/ ClientWake(d) \/ ClientDone(d)
              \/ Accept(d) \/ AcceptNoThread(d)
      PROVE  Started \cup Ahead(queue', c) \subseteq Ahead(queue, c)
  BY <1>5, <1>12 DEF AnswerDirectly, EnqueueRefused, ClientWake, ClientDone, Accept, AcceptNoThread
<1>13. CASE MainDrain \/ StopSignal \/ Closed \/ UNCHANGED vars
  BY <1>5, <1>13 DEF MainDrain, Listen, ListenFails, LeaveAcceptLoop, SetStopping, MainCancel,
     JoinWorkers, MainModelStop, JoinCoordinator, WaitClients, PersistAndClose,
     StopSignal, Closed, vars
<1>. QED
  BY <1>6, <1>7, <1>8, <1>9, <1>10, <1>11, <1>12, <1>13 DEF Next, ClientThread, SlotWorker

\* The queue of enqueue, dequeue and dispatch_jobs_locked is first in, first
\* out: while a job waits, only jobs that were ahead of it are started.
THEOREM NobodyJumpsTheQueue == Spec => FifoDispatch
<1>1. OwnInv /\ OwnInv' /\ [Next]_vars => [FifoStep]_vars
  BY FifoSteps
<1>2. FifoDispatch <=> [][FifoStep]_vars
  BY PTL DEF FifoDispatch, FifoStep
<1>. QED BY <1>1, <1>2, OwnInvAlways, PTL DEF Spec

-----------------------------------------------------------------------------
(* A session that the job extends is worth more than one to rebuild. *)

\* IsPrefix, element by element.
LEMMA PrefixElements ==
    ASSUME NEW a \in Seq(Nat), NEW b \in Seq(Nat)
    PROVE  IsPrefix(a, b) <=> Len(a) <= Len(b) /\ \A i \in 1 .. Len(a) : a[i] = b[i]
<1>1. Len(a) \in Nat /\ Len(b) \in Nat
  BY LenProperties
<1>2. \A i \in 1 .. Len(a) : a[i] \in Nat
  BY ElementOfSeq
<1>3. \A i \in 1 .. Len(b) : b[i] \in Nat
  BY ElementOfSeq
<1>4. SubSeq(a, 1, Len(a)) = a
  BY SubSeqFull
<1>5. ASSUME Len(a) <= Len(b)
      PROVE  /\ SubSeq(b, 1, Len(a)) \in Seq(Nat)
             /\ Len(SubSeq(b, 1, Len(a))) = Len(a)
             /\ \A i \in 1 .. Len(a) : SubSeq(b, 1, Len(a))[i] = b[i]
  <2>1. \A i \in 1 .. Len(a) : b[i] \in Nat
    BY <1>1, <1>3, <1>5
  <2>2. /\ SubSeq(b, 1, Len(a)) \in Seq(Nat)
        /\ Len(SubSeq(b, 1, Len(a))) = IF 1 <= Len(a) THEN Len(a) - 1 + 1 ELSE 0
        /\ \A i \in 1 .. Len(a) - 1 + 1 : SubSeq(b, 1, Len(a))[i] = b[1 + i - 1]
    BY <1>1, <2>1, SubSeqProperties
  <2>. QED BY <1>1, <2>2
<1>6. ASSUME IsPrefix(a, b) PROVE Len(a) <= Len(b) /\ \A i \in 1 .. Len(a) : a[i] = b[i]
  BY <1>4, <1>5, <1>6 DEF IsPrefix
<1>7. ASSUME Len(a) <= Len(b), \A i \in 1 .. Len(a) : a[i] = b[i]
      PROVE  IsPrefix(a, b)
  <2>1. a = SubSeq(b, 1, Len(a))
    BY <1>5, <1>7, SeqEqual
  <2>. QED BY <1>4, <1>7, <2>1 DEF IsPrefix
<1>. QED BY <1>6, <1>7

\* The common prefix is at most the session, and all of it exactly when the
\* prompt extends the session.
LEMMA CommonPrefixBound ==
    ASSUME live \in [Slots -> Seq(Nat)], NEW s \in Slots, NEW c \in Clients
    PROVE  /\ CommonPrefix(s, c) \in 0 .. Len(live[s])
           /\ Len(live[s]) > 0 =>
                 (CommonPrefix(s, c) = Len(live[s]) <=> IsPrefix(live[s], Prompt[c]))
<1>. DEFINE L == Len(live[s])
            K == {k \in DOMAIN live[s] : IsPrefix(SubSeq(live[s], 1, k), Prompt[c])}
<1>1. /\ live[s] \in Seq(Nat) /\ Prompt[c] \in Seq(Nat)
      /\ L \in Nat /\ DOMAIN live[s] = 1 .. L
      /\ \A i \in 1 .. L : live[s][i] \in Nat
  BY PromptAssumption, LenProperties, ElementOfSeq
<1>2. IsFiniteSet(1 .. L) /\ Cardinality(1 .. L) = L
  <2>. HIDE DEF L
  <2>1. 1 \in Int /\ L \in Int
    BY <1>1
  <2>2. IsFiniteSet(1 .. L) /\ Cardinality(1 .. L) = IF 1 > L THEN 0 ELSE L - 1 + 1
    BY ONLY <2>1, FS_Interval, Zenon
  <2>. QED BY <1>1, <2>2
<1>3. /\ K \in SUBSET (1 .. L)
      /\ IsFiniteSet(K) /\ Cardinality(K) <= L
      /\ Cardinality(K) = L => K = 1 .. L
  <2>1. K \in SUBSET (1 .. L)
    BY <1>1
  <2>. HIDE DEF K
  <2>. QED BY <1>2, <2>1, FS_Subset
<1>4. Cardinality(K) \in Nat
  BY <1>3, FS_CardinalityType
<1>5. ASSUME L > 0, Cardinality(K) = L PROVE IsPrefix(live[s], Prompt[c])
  <2>1. L \in K
    BY <1>1, <1>3, <1>5
  <2>2. SubSeq(live[s], 1, L) = live[s]
    BY <1>1, SubSeqFull
  <2>. QED BY <2>1, <2>2
<1>6. ASSUME IsPrefix(live[s], Prompt[c]) PROVE Cardinality(K) = L
  <2>1. L <= Len(Prompt[c]) /\ \A i \in 1 .. L : live[s][i] = Prompt[c][i]
    BY <1>1, <1>6, PrefixElements
  <2>2. ASSUME NEW k \in 1 .. L PROVE k \in K
    <3>1. /\ SubSeq(live[s], 1, k) \in Seq(Nat)
          /\ Len(SubSeq(live[s], 1, k)) = k
          /\ \A i \in 1 .. k : SubSeq(live[s], 1, k)[i] = live[s][i]
      <4>1. \A i \in 1 .. k : live[s][i] \in Nat
        BY <1>1
      <4>2. /\ SubSeq(live[s], 1, k) \in Seq(Nat)
            /\ Len(SubSeq(live[s], 1, k)) = IF 1 <= k THEN k - 1 + 1 ELSE 0
            /\ \A i \in 1 .. k - 1 + 1 : SubSeq(live[s], 1, k)[i] = live[s][1 + i - 1]
        BY <4>1, SubSeqProperties
      <4>. QED BY <1>1, <4>2
    <3>2. Len(Prompt[c]) \in Nat
      BY <1>1, LenProperties
    <3>3. IsPrefix(SubSeq(live[s], 1, k), Prompt[c])
      <4>. DEFINE p == SubSeq(live[s], 1, k)
      <4>1. p \in Seq(Nat) /\ Prompt[c] \in Seq(Nat)
        BY <1>1, <3>1
      <4>2. Len(p) <= Len(Prompt[c])
        BY <1>1, <2>1, <3>1, <3>2
      <4>3. \A i \in 1 .. Len(p) : p[i] = Prompt[c][i]
        BY <1>1, <2>1, <3>1
      <4>. HIDE DEF p
      <4>4. IsPrefix(p, Prompt[c])
        BY <4>1, <4>2, <4>3, PrefixElements
      <4>. QED BY <4>4 DEF p
    <3>. QED BY <1>1, <3>3
  <2>3. K = 1 .. L
    BY <1>3, <2>2
  <2>. QED BY <1>2, <2>3
<1>7. CommonPrefix(s, c) = Cardinality(K)
  BY DEF CommonPrefix
<1>. HIDE DEF K
<1>. QED BY <1>1, <1>3, <1>4, <1>5, <1>6, <1>7

\* No session outgrows a prompt and its reply.
SessionsFit == \A s \in Slots : Len(live[s]) <= INT_MAX \div 2

\* Among slots whose sessions fit, the best one extends at least as long a
\* session as any other, unless the job continues it by its tool results.
LEMMA BestExtends ==
    ASSUME TypeOK, SessionsFit, NEW c \in Clients, NEW S \in SUBSET Slots,
           NEW s \in Slots, Best(c, S, s), pend[s] # c,
           NEW t \in S, Extends(t, c)
    PROVE  Extends(s, c) /\ Len(live[s]) >= Len(live[t])
<1>1. /\ CommonPrefix(s, c) \in 0 .. Len(live[s])
      /\ Len(live[s]) > 0 =>
            (CommonPrefix(s, c) = Len(live[s]) <=> IsPrefix(live[s], Prompt[c]))
  BY CommonPrefixBound DEF TypeOK
<1>2. /\ CommonPrefix(t, c) \in 0 .. Len(live[t])
      /\ Len(live[t]) > 0 =>
            (CommonPrefix(t, c) = Len(live[t]) <=> IsPrefix(live[t], Prompt[c]))
  BY CommonPrefixBound DEF TypeOK
<1>3. Len(live[s]) \in Nat /\ Len(live[t]) \in Nat
  BY LenProperties DEF TypeOK
<1>4. Len(live[s]) <= 1073741823 /\ Len(live[t]) <= 1073741823
  BY DEF SessionsFit, INT_MAX
<1>5. Score(t, c) >= 1073741823 + Len(live[t]) /\ Score(t, c) \in Int
  BY <1>2, <1>3, <1>4 DEF Score, Extends, INT_MAX
<1>6. Score(s, c) = IF CommonPrefix(s, c) = Len(live[s]) /\ Len(live[s]) > 0
                    THEN 1073741823 + Len(live[s]) ELSE CommonPrefix(s, c)
  BY DEF Score, INT_MAX
<1>7. Score(s, c) >= Score(t, c)
  <2>1. Score(s, c) \in Int
    BY <1>1, <1>3, <1>6
  <2>. QED BY <1>5, <2>1 DEF Best
<1>. QED BY <1>1, <1>3, <1>4, <1>5, <1>6, <1>7 DEF Extends

LEMMA SessionsFitInit == Init => SessionsFit
BY EmptySeq DEF Init, SessionsFit, INT_MAX

\* Only generate_job changes a session.
LEMMA SessionsFitNext == SlotInv /\ SessionsFit /\ [Next]_vars => SessionsFit'
<1>. SUFFICES ASSUME SlotInv, SessionsFit, [Next]_vars PROVE SessionsFit'
  OBVIOUS
<1>. USE DEF queueVars, workerVars, clientVars
<1>1. ASSUME NEW s \in Slots, FinishJob(s) PROVE SessionsFit'
  <2>1. job[s] \in Clients /\ live \in [Slots -> Seq(Nat)]
    BY <1>1 DEF FinishJob, SlotInv, BusyWhileOwned, TypeOK
  <2>2. PICK tokens \in Frontiers(s, job[s]) : live' = [live EXCEPT ![s] = tokens]
    BY <1>1 DEF FinishJob
  <2>3. Prompt[job[s]] \in Seq(Nat) /\ Len(Prompt[job[s]]) \in Nat
    BY <2>1, PromptAssumption, LenProperties
  <2>4. Len(Append(Prompt[job[s]], Reply)) = Len(Prompt[job[s]]) + 1
    BY <2>3, PromptAssumption, AppendProperties
  <2>5. Len(Prompt[job[s]]) < 1073741823
    BY <2>1, LengthAssumption DEF INT_MAX
  <2>6. Len(tokens) <= 1073741823
    BY <1>1, <2>1, <2>2, <2>3, <2>4, <2>5, EmptySeq DEF Frontiers, SessionsFit, INT_MAX
  <2>. QED BY <2>1, <2>2, <2>6 DEF SessionsFit, INT_MAX
<1>2. CASE UNCHANGED live
  BY <1>2 DEF SessionsFit
<1>3. ASSUME NEW s \in Slots, SlotWorker(s), ~FinishJob(s) PROVE UNCHANGED live
  BY <1>3 DEF SlotWorker, WaitForJob, TakeAssigned, Dequeue, RunJob, WorkerExit, Release
<1>4. ASSUME NEW c \in Clients, ClientThread(c) \/ Accept(c) \/ AcceptNoThread(c)
      PROVE  UNCHANGED live
  BY <1>4 DEF ClientThread, AnswerDirectly, EnqueueRefused, Enqueue, Join, ClientWake,
              ClientDone, Accept, AcceptNoThread
<1>5. CASE MainDrain \/ StopSignal \/ Closed \/ UNCHANGED vars
  BY <1>2, <1>5 DEF MainDrain, Listen, ListenFails, LeaveAcceptLoop, SetStopping, MainCancel,
     JoinWorkers, MainModelStop, JoinCoordinator, WaitClients, PersistAndClose,
     StopSignal, Closed, vars
<1>. QED BY <1>1, <1>2, <1>3, <1>4, <1>5 DEF Next

\* What ExtensionPreferred says of one step.
ExtensionStep ==
    \A s \in Slots, c \in Clients :
        assigned[s] # c /\ assigned'[s] = c =>
            \/ pend[s] = c
            \/ \A t \in IdleSlots :
                  Extends(t, c) => Extends(s, c) /\ Len(live[s]) >= Len(live[t])

\* A job is put on a slot where it arrives or where a slot becomes free.
LEMMA ExtensionSteps == OwnInv /\ SessionsFit /\ [Next]_vars => ExtensionStep
<1>. SUFFICES ASSUME OwnInv, SessionsFit, [Next]_vars,
                     NEW s \in Slots, NEW c \in Clients,
                     assigned[s] # c, assigned'[s] = c, pend[s] # c,
                     NEW t \in IdleSlots, Extends(t, c)
              PROVE  Extends(s, c) /\ Len(live[s]) >= Len(live[t])
  BY DEF ExtensionStep
<1>. USE DEF queueVars, workerVars, clientVars
<1>0. TypeOK /\ Len(queue) \in Nat /\ NoJob \notin Clients
  BY LenProperties, ClientsAssumption DEF OwnInv, SlotInv, TypeOK
<1>1. assigned' # assigned
  OBVIOUS
<1>2. ASSUME NEW d \in Clients, Enqueue(d)
      PROVE  Extends(s, c) /\ Len(live[s]) >= Len(live[t])
  <2>1. queue = <<>> /\ batched
    BY <1>1, <1>2, EnqueueAppends DEF Enqueue, Join
  <2>. DEFINE q == Append(queue, d)
  <2>2. q \in Seq(Clients) /\ Len(q) = 1 /\ q[1] = d
    BY <1>0, <2>1, EmptySeq, AppendProperties DEF TypeOK
  <2>. HIDE DEF q
  <2>3. PICK n \in 0 .. Len(q) : \E pick \in [1 .. n -> IdleSlots] :
          /\ PicksInOrder(q, IdleSlots, n, pick)
          /\ assigned' = [u \in Slots |->
                 IF \E i \in 1 .. n : pick[i] = u
                 THEN q[CHOOSE i \in 1 .. n : pick[i] = u] ELSE assigned[u]]
    BY <1>2, <2>1 DEF Enqueue, Join, Dispatch, q
  <2>4. PICK pick \in [1 .. n -> IdleSlots] :
          /\ PicksInOrder(q, IdleSlots, n, pick)
          /\ assigned' = [u \in Slots |->
                 IF \E i \in 1 .. n : pick[i] = u
                 THEN q[CHOOSE i \in 1 .. n : pick[i] = u] ELSE assigned[u]]
    BY <2>3
  <2>5. n \in {0, 1}
    BY <2>2
  <2>6. PICK i \in 1 .. n : pick[i] = s
    BY <2>4
  <2>7. n = 1 /\ i = 1 /\ pick[1] = s
    BY <2>5, <2>6
  <2>8. c = d
    <3>1. (CHOOSE k \in 1 .. n : pick[k] = s) = 1
      BY <2>7
    <3>. QED BY <2>2, <2>4, <2>6, <3>1
  <2>9. Best(c, IdleSlots \ {pick[k] : k \in 1 .. 0}, s)
    BY <2>2, <2>4, <2>7, <2>8 DEF PicksInOrder
  <2>10. IdleSlots \ {pick[k] : k \in 1 .. 0} = IdleSlots
    OBVIOUS
  <2>11. Best(c, IdleSlots, s) /\ IdleSlots \in SUBSET Slots
    BY <2>9, <2>10 DEF IdleSlots
  <2>. QED BY <1>0, <2>11, BestExtends
<1>3. ASSUME NEW u \in Slots, Release(u) PROVE FALSE
  <2>. DEFINE idle == {v \in Slots : (v = u \/ ~busy[v]) /\ assigned[v] = NoJob}
  <2>1. Dispatch(queue, idle) /\ worker[u] = "release"
    BY <1>3 DEF Release
  <2>2. batched
    BY <2>1 DEF OwnInv, SlotInv, BusyWhileOwned
  <2>3. queue = <<>>
    BY <2>2 DEF OwnInv, SlotInv, NoIdleSlotWhileQueued, IdleSlots
  <2>4. idle \in SUBSET Slots
    OBVIOUS
  <2>. HIDE DEF idle
  <2>5. PICK n \in 0 .. Len(queue) : \E pick \in [1 .. n -> idle] : Moves(queue, n, pick)
    BY <1>0, <2>1, <2>4, DispatchMoves DEF TypeOK
  <2>6. n = 0
    BY <2>3, EmptySeq
  <2>7. assigned'[s] = assigned[s]
    BY <2>5, <2>6 DEF Moves
  <2>. QED BY <2>7
<1>4. ASSUME NEW u \in Slots, TakeAssigned(u) PROVE FALSE
  BY <1>0, <1>4 DEF TakeAssigned, TypeOK
<1>5. ASSUME NEW u \in Slots, WaitForJob(u) \/ Dequeue(u) \/ WorkerExit(u) \/ FinishJob(u)
      PROVE  FALSE
  BY <1>1, <1>5 DEF WaitForJob, Dequeue, WorkerExit, FinishJob
<1>6. ASSUME NEW d \in Clients,
              \/ AnswerDirectly(d) \/ EnqueueRefused(d) \/ ClientWake(d) \/ ClientDone(d)
              \/ Accept(d) \/ AcceptNoThread(d)
      PROVE  FALSE
  BY <1>1, <1>6 DEF AnswerDirectly, EnqueueRefused, ClientWake, ClientDone, Accept, AcceptNoThread
<1>7. CASE MainDrain \/ StopSignal \/ Closed \/ UNCHANGED vars
  BY <1>1, <1>7 DEF MainDrain, Listen, ListenFails, LeaveAcceptLoop, SetStopping, MainCancel,
     JoinWorkers, MainModelStop, JoinCoordinator, WaitClients, PersistAndClose,
     StopSignal, Closed, vars
<1>. QED
  BY <1>2, <1>3, <1>4, <1>5, <1>6, <1>7 DEF Next, ClientThread, SlotWorker

\* job_slot_score prefers a slot whose session the job merely extends, and the
\* longest of them, as docs/SERVER.md promises.
THEOREM ExtensionsArePreferred == Spec => ExtensionPreferred
<1>1. Init => OwnInv /\ SessionsFit
  BY OwnInvInit, SessionsFitInit
<1>2. OwnInv /\ SessionsFit /\ [Next]_vars => (OwnInv /\ SessionsFit)'
  BY OwnInvNext, SessionsFitNext DEF OwnInv
<1>3. OwnInv /\ SessionsFit /\ [Next]_vars => [ExtensionStep]_assigned
  BY ExtensionSteps
<1>4. ExtensionPreferred <=> [][ExtensionStep]_assigned
  BY PTL DEF ExtensionPreferred, ExtensionStep
<1>. QED BY <1>1, <1>2, <1>3, <1>4, PTL DEF Spec

-----------------------------------------------------------------------------
(* The threads implement the abstract server. *)

\* A busy slot has a job or cleans up after one; a worker leaves only when the
\* server drains and nothing waits; main passes the join after the last worker.
Drained ==
    /\ batched => \A s \in Slots :
          busy[s] => assigned[s] # NoJob \/ worker[s] \in {"run", "release"}
    /\ \A s \in Slots : worker[s] = "exited" => stopping /\ queue = <<>> /\ assigned[s] = NoJob
    /\ mainpc \in {"modelStop", "joinModel", "waitClients", "persist", "closed"} =>
          \A s \in Slots : worker[s] = "exited"

RefInv == OwnInv /\ Drained

LEMMA RefInvInit == Init => RefInv
BY OwnInvInit DEF Init, RefInv, Drained

\* A slot that becomes busy in a dispatch has been given a job; an empty queue
\* gives nothing.
LEMMA DispatchGives ==
    ASSUME NEW q \in Seq(Clients), NEW idle \in SUBSET Slots, Dispatch(q, idle)
    PROVE  /\ \A s \in idle : busy'[s] => assigned'[s] \in Clients
           /\ q = <<>> => queue' = <<>> /\ assigned' = [s \in Slots |-> assigned[s]]
<1>1. PICK n \in 0 .. Len(q) : \E pick \in [1 .. n -> idle] :
        /\ queue' = SubSeq(q, n + 1, Len(q))
        /\ assigned' = [s \in Slots |->
               IF \E i \in 1 .. n : pick[i] = s
               THEN q[CHOOSE i \in 1 .. n : pick[i] = s] ELSE assigned[s]]
        /\ busy' = [s \in Slots |-> \/ \E i \in 1 .. n : pick[i] = s
                                    \/ busy[s] /\ s \notin idle]
  BY DEF Dispatch
<1>2. PICK pick \in [1 .. n -> idle] :
        /\ queue' = SubSeq(q, n + 1, Len(q))
        /\ assigned' = [s \in Slots |->
               IF \E i \in 1 .. n : pick[i] = s
               THEN q[CHOOSE i \in 1 .. n : pick[i] = s] ELSE assigned[s]]
        /\ busy' = [s \in Slots |-> \/ \E i \in 1 .. n : pick[i] = s
                                    \/ busy[s] /\ s \notin idle]
  BY <1>1
<1>3. Len(q) \in Nat /\ n \in Nat /\ \A i \in 1 .. Len(q) : q[i] \in Clients
  BY ElementOfSeq, LenProperties
<1>4. ASSUME NEW s \in idle, busy'[s] PROVE assigned'[s] \in Clients
  <2>1. \E i \in 1 .. n : pick[i] = s
    BY <1>2, <1>4
  <2>2. (CHOOSE i \in 1 .. n : pick[i] = s) \in 1 .. n
    BY <2>1
  <2>3. assigned'[s] = q[CHOOSE i \in 1 .. n : pick[i] = s]
    BY <1>2, <2>1
  <2>. QED BY <1>3, <2>2, <2>3
<1>5. ASSUME q = <<>> PROVE queue' = <<>> /\ assigned' = [s \in Slots |-> assigned[s]]
  <2>1. Len(q) = 0 /\ n = 0
    BY <1>5, EmptySeq
  <2>2. queue' = <<>>
    BY <1>2, <2>1, SubSeqEmpty
  <2>. QED BY <1>2, <2>1, <2>2
<1>. QED BY <1>4, <1>5

\* One job or one idle slot: the head of the queue is placed.
LEMMA DispatchHead ==
    ASSUME NEW q \in Seq(Clients), q # <<>>, NEW idle \in SUBSET Slots, idle # {},
           Len(q) = 1 \/ \E s \in idle : idle = {s},
           assigned \in [Slots -> Clients \cup {NoJob}],
           Dispatch(q, idle)
    PROVE  \E s \in idle : /\ queue' = Tail(q)
                           /\ assigned' = [assigned EXCEPT ![s] = Head(q)]
<1>1. PICK n \in 0 .. Len(q) : \E pick \in [1 .. n -> idle] :
        /\ PicksInOrder(q, idle, n, pick)
        /\ queue' = SubSeq(q, n + 1, Len(q))
        /\ assigned' = [s \in Slots |->
               IF \E i \in 1 .. n : pick[i] = s
               THEN q[CHOOSE i \in 1 .. n : pick[i] = s] ELSE assigned[s]]
  BY DEF Dispatch
<1>2. PICK pick \in [1 .. n -> idle] :
        /\ PicksInOrder(q, idle, n, pick)
        /\ queue' = SubSeq(q, n + 1, Len(q))
        /\ assigned' = [s \in Slots |->
               IF \E i \in 1 .. n : pick[i] = s
               THEN q[CHOOSE i \in 1 .. n : pick[i] = s] ELSE assigned[s]]
  BY <1>1
<1>3. Len(q) \in Nat \ {0} /\ n \in Nat
  BY EmptySeq
<1>4. n # 0
  <2>1. ASSUME n = 0 PROVE FALSE
    <3>1. {pick[i] : i \in 1 .. n} = {}
      BY <2>1
    <3>. QED BY <1>2, <1>3, <2>1, <3>1 DEF PicksInOrder
  <2>. QED BY <2>1
<1>5. n = 1
  <2>1. CASE Len(q) = 1
    BY <1>3, <1>4, <2>1
  <2>2. ASSUME NEW s \in idle, idle = {s}, n > 1 PROVE FALSE
    <3>1. 1 \in 1 .. n /\ 2 \in 1 .. n
      BY <1>3, <2>2
    <3>2. pick[1] = s /\ pick[2] = s
      BY <2>2, <3>1
    <3>. QED BY <1>2, <3>1, <3>2 DEF PicksInOrder
  <2>. QED BY <1>3, <1>4, <2>1, <2>2
<1>6. pick[1] \in idle
  BY <1>5
<1>7. queue' = Tail(q)
  BY <1>2, <1>5, TailIsSubSeq
<1>8. assigned' = [assigned EXCEPT ![pick[1]] = Head(q)]
  <2>1. Head(q) = q[1]
    BY DEF Head
  <2>2. \A s \in Slots : (\E i \in 1 .. n : pick[i] = s) <=> s = pick[1]
    BY <1>5
  <2>3. (CHOOSE i \in 1 .. n : pick[i] = pick[1]) = 1
    BY <1>5
  <2>. QED BY <1>2, <1>6, <2>1, <2>2, <2>3
<1>. QED BY <1>6, <1>7, <1>8

\* Every step keeps the drain in order.
LEMMA RefInvNext == RefInv /\ [Next]_vars => RefInv'
<1>. SUFFICES ASSUME RefInv, [Next]_vars PROVE Drained'
  BY OwnInvNext DEF RefInv
<1>. USE DEF queueVars, workerVars, clientVars
<1>0. OwnInv /\ OwnInv' /\ SlotInv /\ TypeOK /\ BusyWhileOwned
  BY OwnInvNext DEF RefInv, OwnInv, SlotInv
<1>a. ASSUME UNCHANGED <<queue, assigned, busy, worker, stopping, mainpc, batched>>
      PROVE  Drained'
  BY <1>a DEF RefInv, Drained
<1>1. ASSUME NEW c \in Clients, Enqueue(c) PROVE Drained'
  <2>1. /\ ~stopping /\ UNCHANGED <<worker, stopping, mainpc, batched>>
        /\ mainpc \in {"listen", "accept", "stop"}
    BY <1>0, <1>1 DEF Enqueue, Join, OwnInv, Progress
  <2>2. ASSUME batched, NEW s \in Slots, busy'[s]
        PROVE  assigned'[s] # NoJob \/ worker[s] \in {"run", "release"}
    <3>. DEFINE q == Append(queue, c)
    <3>1. q \in Seq(Clients)
      BY <1>0, AppendProperties DEF TypeOK
    <3>2. Dispatch(q, IdleSlots) /\ IdleSlots \in SUBSET Slots
      BY <1>1, <2>2 DEF Enqueue, Join, IdleSlots
    <3>. HIDE DEF q
    <3>3. CASE s \in IdleSlots
      BY <2>2, <3>1, <3>2, <3>3, DispatchGives, ClientsAssumption
    <3>4. CASE s \notin IdleSlots
      <4>1. assigned'[s] = assigned[s] /\ busy'[s] = busy[s]
        BY <1>0, <3>1, <3>2, <3>4, DispatchAssigns DEF TypeOK
      <4>. QED BY <2>2, <4>1 DEF RefInv, Drained
    <3>. QED BY <3>3, <3>4
  <2>. QED BY <2>1, <2>2 DEF RefInv, Drained
<1>2. ASSUME NEW s \in Slots, TakeAssigned(s) PROVE Drained'
  BY <1>0, <1>2 DEF TakeAssigned, RunJob, Looking, TypeOK, BusyWhileOwned, RefInv, Drained
<1>3. ASSUME NEW s \in Slots, Dequeue(s) PROVE Drained'
  <2>1. \A t \in Slots : t = s
    BY <1>0, <1>3, SlotsAssumption DEF Dequeue, TypeOK, Slots
  <2>. QED BY <1>0, <1>3, <2>1 DEF Dequeue, RunJob, Looking, TypeOK, RefInv, Drained
<1>4. ASSUME NEW s \in Slots, WorkerExit(s) PROVE Drained'
  BY <1>0, <1>4 DEF WorkerExit, Looking, NothingToDo, TypeOK, OwnInv, Progress, RefInv, Drained
<1>5. ASSUME NEW s \in Slots, FinishJob(s) PROVE Drained'
  BY <1>0, <1>5 DEF FinishJob, TypeOK, RefInv, Drained
<1>6. ASSUME NEW s \in Slots, Release(s) PROVE Drained'
  <2>. DEFINE idle == {t \in Slots : (t = s \/ ~busy[t]) /\ assigned[t] = NoJob}
  <2>1. /\ Dispatch(queue, idle) /\ worker[s] = "release"
        /\ worker' = [worker EXCEPT ![s] = "look"]
        /\ UNCHANGED <<stopping, mainpc, batched>>
    BY <1>6 DEF Release
  <2>2. idle \in SUBSET Slots /\ \A t \in Slots : t \notin idle => t # s \/ assigned[t] # NoJob
    OBVIOUS
  <2>. HIDE DEF idle
  <2>3. /\ \A t \in idle : busy'[t] => assigned'[t] # NoJob
        /\ queue = <<>> => queue' = <<>> /\ assigned' = [t \in Slots |-> assigned[t]]
    BY <1>0, <2>1, <2>2, DispatchGives, ClientsAssumption DEF TypeOK
  <2>4. \A t \in Slots : t \notin idle => assigned'[t] = assigned[t] /\ busy'[t] = busy[t]
    BY <1>0, <2>1, <2>2, DispatchAssigns DEF TypeOK
  <2>5. \A t \in Slots : worker'[t] = IF t = s THEN "look" ELSE worker[t]
    BY <1>0, <2>1 DEF TypeOK
  <2>6. batched => \A t \in Slots :
           busy'[t] => assigned'[t] # NoJob \/ worker'[t] \in {"run", "release"}
    BY <2>2, <2>3, <2>4, <2>5 DEF RefInv, Drained
  <2>7. \A t \in Slots : worker'[t] = "exited" =>
           stopping' /\ queue' = <<>> /\ assigned'[t] = NoJob
    BY <2>1, <2>3, <2>5 DEF RefInv, Drained
  <2>8. mainpc' \notin {"modelStop", "joinModel", "waitClients", "persist", "closed"}
    BY <2>1 DEF RefInv, Drained
  <2>. QED BY <2>1, <2>6, <2>7, <2>8 DEF Drained
<1>7. ASSUME NEW s \in Slots, WaitForJob(s) PROVE Drained'
  BY <1>a, <1>7 DEF WaitForJob
<1>8. ASSUME NEW d \in Clients,
              \/ AnswerDirectly(d) \/ EnqueueRefused(d) \/ ClientWake(d) \/ ClientDone(d)
              \/ Accept(d) \/ AcceptNoThread(d)
      PROVE  Drained'
  BY <1>a, <1>8 DEF AnswerDirectly, EnqueueRefused, ClientWake, ClientDone, Accept, AcceptNoThread
<1>9. CASE MainDrain
  BY <1>9 DEF MainDrain, MainStep, Listen, ListenFails, LeaveAcceptLoop, SetStopping, MainCancel,
     JoinWorkers, MainModelStop, JoinCoordinator, WaitClients, PersistAndClose, RefInv, Drained
<1>10. CASE StopSignal \/ Closed \/ UNCHANGED vars
  BY <1>a, <1>10 DEF StopSignal, Closed, vars
<1>. QED
  BY <1>1, <1>2, <1>3, <1>4, <1>5, <1>6, <1>7, <1>8, <1>9, <1>10
     DEF Next, ClientThread, SlotWorker

\* The phase the clients see.
Phase == IF mainpc = "closed" THEN "closed" ELSE IF stopping THEN "draining" ELSE "open"
Serving == [s \in Slots |-> ServingOf(s)]
Answered == {c \in Clients : done[c]}

\* Served of the abstract server, in terms of the threads.
LEMMA ServedJobs ==
    ASSUME OwnInv, NEW c \in Clients
    PROVE  c \in Abstract!Accepted => Waiting(c) \/ done[c]
<1>1. DOMAIN queue = 1 .. Len(queue)
  BY LenProperties DEF OwnInv, SlotInv, TypeOK
<1>2. ASSUME NEW s \in Slots, ServingOf(s) = c PROVE Waiting(c)
  BY <1>2, ClientsAssumption DEF ServingOf, OwnInv, HeldWhileWaiting, Held
<1>3. ASSUME NEW i \in DOMAIN queue, queue[i] = c PROVE Waiting(c)
  BY <1>1, <1>3 DEF OwnInv, HeldWhileWaiting, Held
<1>. QED BY <1>2, <1>3 DEF Abstract!Accepted, Abstract!Served

LEMMA AbstractInit == Init => Abstract!Init
BY DEF Init, Abstract!Init, ServingOf

\* A step that moves no job and does not drain is invisible.
LEMMA Invisible ==
    ASSUME \A s \in Slots : ServingOf(s)' = ServingOf(s),
           UNCHANGED <<queue, done>>, Phase' = Phase
    PROVE  UNCHANGED Abstract!vars
BY DEF Abstract!vars, Phase

\* Arrivals: an idle slot takes the job, or it joins the queue.
LEMMA EnqueueAdmits ==
    ASSUME RefInv, NEW c \in Clients, Enqueue(c)
    PROVE  Abstract!Admit(c)
<1>. USE DEF queueVars, workerVars, clientVars
<1>0. OwnInv /\ SlotInv /\ TypeOK /\ BusyWhileOwned /\ Drained /\ Progress
  BY DEF RefInv, OwnInv, SlotInv
<1>1. /\ client[c] = "request" /\ ~done[c] /\ ~stopping
      /\ UNCHANGED <<job, worker, batched, done, stopping, mainpc>>
      /\ mainpc # "closed"
  BY <1>0 DEF Enqueue, Join, Progress
<1>2. c \notin Abstract!Accepted
  BY <1>0, <1>1, ServedJobs DEF Waiting
<1>3. Phase = "open" /\ Phase' = "open"
  BY <1>1 DEF Phase
<1>4. ASSUME NEW s \in Slots
      PROVE  ServingOf(s) = "idle" <=> batched /\ s \in IdleSlots
  <2>1. CASE job[s] # NoJob
    <3>1. worker[s] = "run" /\ job[s] \in Clients
      BY <1>0, <2>1 DEF Progress, BusyWhileOwned
    <3>. QED BY <1>0, <2>1, <3>1, ClientsAssumption DEF ServingOf, IdleSlots, BusyWhileOwned
  <2>2. CASE job[s] = NoJob /\ assigned[s] # NoJob
    BY <1>0, <2>2, ClientsAssumption DEF ServingOf, IdleSlots, TypeOK
  <2>3. CASE job[s] = NoJob /\ assigned[s] = NoJob
    BY <1>0, <2>3 DEF ServingOf, IdleSlots, Drained, Progress, BusyWhileOwned
  <2>. QED BY <2>1, <2>2, <2>3
<1>5. CASE queue = <<>> /\ batched /\ IdleSlots # {}
  <2>. DEFINE q == Append(queue, c)
  <2>1. q \in Seq(Clients) /\ q # <<>> /\ Len(q) = 1 /\ q[1] = c
    BY <1>0, <1>5, EmptySeq, AppendProperties DEF TypeOK
  <2>2. Dispatch(q, IdleSlots) /\ IdleSlots \in SUBSET Slots
    BY <1>5 DEF Enqueue, Join, IdleSlots
  <2>. HIDE DEF q
  <2>3. PICK s \in IdleSlots : queue' = Tail(q) /\ assigned' = [assigned EXCEPT ![s] = Head(q)]
    BY <1>0, <1>5, <2>1, <2>2, DispatchHead DEF TypeOK
  <2>4. queue' = <<>>
    <3>1. Tail(q) \in Seq(Clients) /\ Len(Tail(q)) = 0
      BY <2>1, HeadTailProperties
    <3>. QED BY <2>3, <3>1, EmptySeq
  <2>5. assigned' = [assigned EXCEPT ![s] = c]
    <3>1. Head(q) = q[1]
      BY DEF Head
    <3>. QED BY <2>1, <2>3, <3>1
  <2>6. s \in Slots /\ job[s] = NoJob /\ ServingOf(s) = "idle"
    BY <1>4, <1>5, <2>2, <1>0 DEF Progress, BusyWhileOwned, IdleSlots
  <2>7. ServingOf(s)' = c
    BY <1>0, <1>1, <2>5, <2>6, ClientsAssumption DEF ServingOf, TypeOK
  <2>8. \A t \in Slots : t # s => ServingOf(t)' = ServingOf(t)
    BY <1>0, <1>1, <2>5, <2>6 DEF ServingOf, TypeOK
  <2>9. Serving' = [Serving EXCEPT ![s] = c]
    BY <2>6, <2>7, <2>8 DEF Serving
  <2>. QED
    BY <1>1, <1>2, <1>3, <1>5, <2>4, <2>6, <2>9 DEF Abstract!Admit, Serving, Phase
<1>6. CASE queue # <<>> \/ ~batched \/ IdleSlots = {}
  <2>1. queue' = Append(queue, c) /\ assigned' = assigned
    <3>1. CASE ~batched
      BY <3>1 DEF Enqueue, Join
    <3>2. CASE queue # <<>> \/ IdleSlots = {}
      BY <1>0, <3>2, EnqueueAppends
    <3>. QED BY <1>6, <3>1, <3>2
  <2>2. \A s \in Slots : ServingOf(s) # "idle"
    <3>1. batched => IdleSlots = {}
      BY <1>0, <1>6 DEF SlotInv, NoIdleSlotWhileQueued, IdleSlots
    <3>. QED BY <1>4, <3>1
  <2>3. \A s \in Slots : ServingOf(s)' = ServingOf(s)
    BY <1>1, <2>1 DEF ServingOf
  <2>. QED BY <1>1, <1>2, <1>3, <2>1, <2>2, <2>3 DEF Abstract!Admit, Phase
<1>. QED BY <1>5, <1>6

\* generate_job returns: the slot has answered.
LEMMA FinishAnswers ==
    ASSUME RefInv, NEW s \in Slots, FinishJob(s)
    PROVE  Abstract!Answer(s)
<1>. USE DEF queueVars, workerVars, clientVars
<1>0. OwnInv /\ SlotInv /\ TypeOK /\ BusyWhileOwned /\ Progress
  BY DEF RefInv, OwnInv, SlotInv
<1>1. /\ job[s] \in Clients /\ worker[s] = "run" /\ assigned[s] = NoJob
      /\ done' = [done EXCEPT ![job[s]] = TRUE]
      /\ job' = [job EXCEPT ![s] = NoJob]
      /\ worker' = [worker EXCEPT ![s] = IF batched THEN "release" ELSE "look"]
      /\ UNCHANGED <<queue, assigned, stopping, mainpc, batched>>
  BY <1>0 DEF FinishJob, BusyWhileOwned, Progress
<1>2. ServingOf(s) = job[s] /\ ServingOf(s) \in Clients
  BY <1>1, ClientsAssumption DEF ServingOf
<1>3. ServingOf(s)' = "resting"
  BY <1>0, <1>1 DEF ServingOf, TypeOK
<1>4. \A t \in Slots : t # s => ServingOf(t)' = ServingOf(t)
  BY <1>0, <1>1 DEF ServingOf, TypeOK
<1>5. Serving' = [Serving EXCEPT ![s] = "resting"]
  BY <1>3, <1>4 DEF Serving
<1>6. Answered' = Answered \cup {ServingOf(s)}
  BY <1>0, <1>1, <1>2 DEF Answered, TypeOK
<1>. QED BY <1>1, <1>2, <1>5, <1>6 DEF Abstract!Answer, Serving, Answered

\* worker_main dequeues: the slot of the unbatched server serves the next job.
LEMMA DequeueServes ==
    ASSUME RefInv, NEW s \in Slots, Dequeue(s)
    PROVE  Abstract!ServeNext(s)
<1>. USE DEF queueVars, workerVars, clientVars
<1>0. OwnInv /\ SlotInv /\ TypeOK /\ Progress
  BY DEF RefInv, OwnInv, SlotInv
<1>1. /\ ~batched /\ queue # <<>> /\ job[s] = NoJob /\ assigned[s] = NoJob
      /\ job' = [job EXCEPT ![s] = Head(queue)] /\ queue' = Tail(queue)
      /\ worker' = [worker EXCEPT ![s] = "run"]
      /\ UNCHANGED <<assigned, done, stopping, mainpc, batched>>
  BY <1>0 DEF Dequeue, RunJob, Looking, Progress
<1>2. Head(queue) \in Clients
  BY <1>0, <1>1, HeadTailProperties DEF TypeOK
<1>3. ServingOf(s) = "resting" /\ ServingOf(s)' = Head(queue)
  BY <1>0, <1>1, <1>2, ClientsAssumption DEF ServingOf, TypeOK
<1>4. \A t \in Slots : t # s => ServingOf(t)' = ServingOf(t)
  BY <1>0, <1>1 DEF ServingOf, TypeOK
<1>5. Serving' = [Serving EXCEPT ![s] = Head(queue)]
  BY <1>3, <1>4 DEF Serving
<1>. QED BY <1>1, <1>3, <1>5 DEF Abstract!ServeNext, Serving

\* A slot that is released serves the next job or becomes idle.
LEMMA ReleaseServesOrIdles ==
    ASSUME RefInv, NEW s \in Slots, Release(s)
    PROVE  Abstract!ServeNext(s) \/ Abstract!BecomeIdle(s)
<1>. USE DEF queueVars, workerVars, clientVars
<1>. DEFINE idle == {t \in Slots : (t = s \/ ~busy[t]) /\ assigned[t] = NoJob}
<1>0. OwnInv /\ SlotInv /\ TypeOK /\ BusyWhileOwned /\ Progress
  BY DEF RefInv, OwnInv, SlotInv
<1>1. /\ worker[s] = "release" /\ batched /\ job[s] = NoJob /\ assigned[s] = NoJob
      /\ Dispatch(queue, idle)
      /\ worker' = [worker EXCEPT ![s] = "look"]
      /\ UNCHANGED <<job, done, stopping, mainpc, batched>>
  BY <1>0 DEF Release, BusyWhileOwned, Progress
<1>2. ServingOf(s) = "resting"
  BY <1>1 DEF ServingOf
<1>3. CASE queue = <<>>
  <2>1. queue' = <<>> /\ assigned' = assigned
    BY <1>0, <1>1, <1>3, DispatchGives DEF TypeOK
  <2>2. ServingOf(s)' = "idle"
    BY <1>0, <1>1, <2>1 DEF ServingOf, TypeOK
  <2>3. \A t \in Slots : t # s => ServingOf(t)' = ServingOf(t)
    BY <1>0, <1>1, <2>1 DEF ServingOf, TypeOK
  <2>4. Serving' = [Serving EXCEPT ![s] = "idle"]
    BY <2>2, <2>3 DEF Serving
  <2>. QED BY <1>1, <1>2, <1>3, <2>1, <2>4 DEF Abstract!BecomeIdle, Serving
<1>4. CASE queue # <<>>
  <2>1. idle = {s}
    BY <1>0, <1>1, <1>4 DEF SlotInv, NoIdleSlotWhileQueued
  <2>. HIDE DEF idle
  <2>2. queue' = Tail(queue) /\ assigned' = [assigned EXCEPT ![s] = Head(queue)]
    <3>1. idle \in SUBSET Slots /\ idle # {} /\ \E t \in idle : idle = {t}
      BY <2>1
    <3>2. \E t \in idle : /\ queue' = Tail(queue)
                          /\ assigned' = [assigned EXCEPT ![t] = Head(queue)]
      BY <1>0, <1>1, <1>4, <3>1, DispatchHead DEF TypeOK
    <3>. QED BY <2>1, <3>2
  <2>3. Head(queue) \in Clients
    BY <1>0, <1>4, HeadTailProperties DEF TypeOK
  <2>4. ServingOf(s)' = Head(queue)
    BY <1>0, <1>1, <2>2, <2>3, ClientsAssumption DEF ServingOf, TypeOK
  <2>5. \A t \in Slots : t # s => ServingOf(t)' = ServingOf(t)
    BY <1>0, <1>1, <2>2 DEF ServingOf, TypeOK
  <2>6. Serving' = [Serving EXCEPT ![s] = Head(queue)]
    BY <2>4, <2>5 DEF Serving
  <2>. QED BY <1>1, <1>2, <1>4, <2>2, <2>6 DEF Abstract!ServeNext, Serving
<1>. QED BY <1>3, <1>4

\* main: the first step that stops the server drains it, the last one closes it
\* with nothing left to do; the others show nothing to the clients.
LEMMA MainDrains ==
    ASSUME RefInv, MainDrain
    PROVE  Abstract!Drain \/ Abstract!Close \/ UNCHANGED Abstract!vars
<1>. USE DEF queueVars, workerVars, clientVars, MainStep
<1>0. OwnInv /\ SlotInv /\ TypeOK /\ Progress /\ Drained
  BY DEF RefInv, OwnInv, SlotInv
<1>1. UNCHANGED <<queue, assigned, job, worker, done, batched>>
  BY DEF MainDrain, Listen, ListenFails, LeaveAcceptLoop, SetStopping, MainCancel,
         JoinWorkers, MainModelStop, JoinCoordinator, WaitClients, PersistAndClose
<1>2. \A s \in Slots : ServingOf(s)' = ServingOf(s)
  BY <1>1 DEF ServingOf
<1>3. CASE ListenFails \/ SetStopping
  <2>1. Phase = "open" /\ Phase' = "draining"
    BY <1>0, <1>3 DEF ListenFails, SetStopping, Phase, Progress
  <2>. QED BY <1>1, <1>2, <2>1 DEF Abstract!Drain, Phase
<1>4. CASE PersistAndClose
  <2>1. \A s \in Slots : worker[s] = "exited"
    BY <1>4 DEF PersistAndClose, RefInv, Drained
  <2>2. 0 \in Slots
    BY SlotsAssumption DEF Slots
  <2>3. stopping /\ queue = <<>> /\ \A s \in Slots : assigned[s] = NoJob /\ job[s] = NoJob
    BY <1>0, <2>1, <2>2 DEF Drained, Progress
  <2>4. Abstract!Served = {}
    BY <2>3, ClientsAssumption DEF Abstract!Served, ServingOf
  <2>5. Phase = "draining" /\ Phase' = "closed"
    BY <1>4, <2>3 DEF PersistAndClose, Phase
  <2>. QED BY <1>1, <1>2, <2>3, <2>4, <2>5 DEF Abstract!Close, Phase
<1>5. CASE Listen \/ LeaveAcceptLoop \/ MainCancel \/ JoinWorkers \/ MainModelStop
             \/ JoinCoordinator \/ WaitClients
  <2>1. Phase' = Phase
    BY <1>5 DEF Listen, LeaveAcceptLoop, MainCancel, JoinWorkers, MainModelStop,
                JoinCoordinator, WaitClients, Phase
  <2>. QED BY <1>1, <1>2, <2>1, Invisible
<1>. QED BY <1>3, <1>4, <1>5 DEF MainDrain

\* Every step of the threads is a step of the abstract server or invisible.
LEMMA AbstractNext == RefInv /\ [Next]_vars => [Abstract!Next]_(Abstract!vars)
<1>. SUFFICES ASSUME RefInv, [Next]_vars
              PROVE  Abstract!Next \/ UNCHANGED Abstract!vars
  OBVIOUS
<1>. USE DEF queueVars, workerVars, clientVars
<1>0. OwnInv /\ SlotInv /\ TypeOK /\ BusyWhileOwned /\ Progress
  BY DEF RefInv, OwnInv, SlotInv
<1>1. ASSUME NEW c \in Clients, Enqueue(c) PROVE Abstract!Next
  BY <1>1, EnqueueAdmits DEF Abstract!Next
<1>2. ASSUME NEW s \in Slots, FinishJob(s) PROVE Abstract!Next
  BY <1>2, FinishAnswers DEF Abstract!Next
<1>3. ASSUME NEW s \in Slots, Dequeue(s) PROVE Abstract!Next
  BY <1>3, DequeueServes DEF Abstract!Next
<1>4. ASSUME NEW s \in Slots, Release(s) PROVE Abstract!Next
  BY <1>4, ReleaseServesOrIdles DEF Abstract!Next
<1>5. CASE MainDrain
  BY <1>5, MainDrains DEF Abstract!Next
<1>6. ASSUME UNCHANGED <<queue, assigned, job, done, stopping, mainpc, batched>>,
             \A s \in Slots : worker'[s] = "release" <=> worker[s] = "release"
      PROVE  UNCHANGED Abstract!vars
  BY <1>6, Invisible DEF ServingOf, Phase
<1>7. ASSUME NEW s \in Slots, TakeAssigned(s) PROVE UNCHANGED Abstract!vars
  <2>1. /\ assigned[s] \in Clients /\ job[s] = NoJob
        /\ job' = [job EXCEPT ![s] = assigned[s]]
        /\ assigned' = [assigned EXCEPT ![s] = NoJob]
        /\ worker' = [worker EXCEPT ![s] = "run"] /\ worker[s] = "look"
        /\ UNCHANGED <<queue, done, stopping, mainpc, batched>>
    BY <1>0, <1>7 DEF TakeAssigned, RunJob, Looking, Progress, TypeOK
  <2>2. \A t \in Slots : ServingOf(t)' = ServingOf(t)
    BY <1>0, <2>1, ClientsAssumption DEF ServingOf, TypeOK
  <2>. QED BY <2>1, <2>2, Invisible DEF Phase
<1>8. ASSUME NEW s \in Slots, WorkerExit(s) PROVE UNCHANGED Abstract!vars
  BY <1>0, <1>6, <1>8 DEF WorkerExit, Looking, TypeOK
<1>9. ASSUME NEW s \in Slots, WaitForJob(s) PROVE UNCHANGED Abstract!vars
  BY <1>6, <1>9 DEF WaitForJob
<1>10. ASSUME NEW d \in Clients,
              \/ AnswerDirectly(d) \/ EnqueueRefused(d) \/ ClientWake(d) \/ ClientDone(d)
              \/ Accept(d) \/ AcceptNoThread(d)
      PROVE  UNCHANGED Abstract!vars
  BY <1>6, <1>10 DEF AnswerDirectly, EnqueueRefused, ClientWake, ClientDone, Accept, AcceptNoThread
<1>11. CASE StopSignal \/ Closed \/ UNCHANGED vars
  BY <1>6, <1>11 DEF StopSignal, Closed, vars
<1>. QED
  BY <1>1, <1>2, <1>3, <1>4, <1>5, <1>7, <1>8, <1>9, <1>10, <1>11
     DEF Next, ClientThread, SlotWorker

\* Threads, locks and wakeups together behave as RequestServer says (its
\* fairness apart): one slot per active request, first come first served, no
\* idle slot beside a waiting request, nothing accepted is dropped by a drain.
THEOREM ThreadsImplementServer == Spec => Abstract!Spec
<1>1. Init => RefInv /\ Abstract!Init
  BY RefInvInit, AbstractInit
<1>2. RefInv /\ [Next]_vars => RefInv'
  BY RefInvNext
<1>3. RefInv /\ [Next]_vars => [Abstract!Next]_(Abstract!vars)
  BY AbstractNext
<1>. QED BY <1>1, <1>2, <1>3, PTL DEF Spec, Abstract!Spec
=============================================================================
