---------------------------- MODULE RequestServer ----------------------------
(***************************************************************************)
(* What the request plane of q36-server promises its clients, with no       *)
(* threads, locks or wakeups (docs/SERVER.md, "Multiple sessions"): every   *)
(* active request owns one slot until it is answered, the others wait for   *)
(* a slot in the order they came, a free slot never stands beside a waiting *)
(* request, and a server told to stop answers what it has accepted.         *)
(*                                                                         *)
(* SlotDispatch implements this specification.                             *)
(***************************************************************************)
EXTENDS Integers, Sequences, FiniteSets

CONSTANTS Slots, Requests, Idle, Resting

VARIABLES
    waiting,    \* accepted requests without a slot, in arrival order
    serving,    \* the request a slot serves; Idle: it takes the next arrival
                \* at once; Resting: it has answered and is being cleaned up
    answered,   \* requests with a complete answer
    phase       \* "open", "draining" or "closed"

vars == <<waiting, serving, answered, phase>>

Served == {serving[s] : s \in Slots} \cap Requests
Accepted == {waiting[i] : i \in DOMAIN waiting} \cup Served \cup answered

Init ==
    /\ waiting = <<>>
    /\ serving \in [Slots -> {Idle, Resting}]
    /\ answered = {}
    /\ phase = "open"

\* A request is accepted: an idle slot serves it, or it waits its turn.
Admit(r) ==
    /\ phase = "open"
    /\ r \notin Accepted
    /\ \/ \E s \in Slots :
             /\ serving[s] = Idle
             /\ waiting = <<>>
             /\ serving' = [serving EXCEPT ![s] = r]
             /\ UNCHANGED waiting
       \/ /\ \A s \in Slots : serving[s] # Idle
          /\ waiting' = Append(waiting, r)
          /\ UNCHANGED serving
    /\ UNCHANGED <<answered, phase>>

Answer(s) ==
    /\ serving[s] \in Requests
    /\ answered' = answered \cup {serving[s]}
    /\ serving' = [serving EXCEPT ![s] = Resting]
    /\ UNCHANGED <<waiting, phase>>

ServeNext(s) ==
    /\ serving[s] = Resting
    /\ waiting # <<>>
    /\ serving' = [serving EXCEPT ![s] = Head(waiting)]
    /\ waiting' = Tail(waiting)
    /\ UNCHANGED <<answered, phase>>

BecomeIdle(s) ==
    /\ serving[s] = Resting
    /\ waiting = <<>>
    /\ serving' = [serving EXCEPT ![s] = Idle]
    /\ UNCHANGED <<waiting, answered, phase>>

Drain ==
    /\ phase = "open"
    /\ phase' = "draining"
    /\ UNCHANGED <<waiting, serving, answered>>

Close ==
    /\ phase = "draining"
    /\ waiting = <<>>
    /\ Served = {}
    /\ phase' = "closed"
    /\ UNCHANGED <<waiting, serving, answered>>

Next ==
    \/ \E r \in Requests : Admit(r)
    \/ \E s \in Slots : Answer(s) \/ ServeNext(s) \/ BecomeIdle(s)
    \/ Drain
    \/ Close

Spec == Init /\ [][Next]_vars

FairSpec ==
    /\ Spec
    /\ \A s \in Slots : WF_vars(Answer(s)) /\ WF_vars(ServeNext(s))
=============================================================================
