--------------------------- MODULE AgentWorkerProofs ---------------------------
(******************************************************************************)
(* Facts about the threads of q36-agent that hold for any number of prompts,  *)
(* interrupts, commands and tool rounds, and for any set of front ends.       *)
(******************************************************************************)
EXTENDS AgentWorker, SequenceTheorems, WellFoundedInduction, TLAPS

-----------------------------------------------------------------------------
(* Types, and who holds the session. *)

Ops == {"save", "compact", "power"}
InTurn == TurnPcs \union {"answered", "tool", "asking", "draining"}
WorkerPcs == InTurn \union
    {"boot", "deferred", "wait", "pick", "stopping", "stopped", "saving", "compacting"}

\* Where the UI thread can be, by front end.
Closing == {"stop", "joining", "done"}
EditorPcs == {"consume", "reset", "serve", "answer", "interrupt", "prompting", "line",
              "save", "request", "new", "pause", "pausing", "leaving", "exited"} \union Closing
BatchPcs == {"top", "poll", "drainfd", "consume", "serve", "answer", "input", "end"}
            \union Closing

WType == [initialized : BOOLEAN, active : BOOLEAN, paused : BOOLEAN, stop : BOOLEAN,
          interrupt : BOOLEAN, cmd : Seq(Nat), requests : SUBSET Ops,
          state : {"IDLE", "BUSY", "ERROR", "STOPPED"},
          wakePending : BOOLEAN, pipe : BOOLEAN]
DrainType == [pending : BOOLEAN, answered : BOOLEAN, text : Seq(Nat)]
AskType == [n : Nat, pending : BOOLEAN, answered : BOOLEAN, allow : BOOLEAN, from : Nat]
WorkerType == [pc : WorkerPcs, turn : Seq(Nat), rounds : 0 .. MaxRounds, chain : Seq(Ops)]
SessionType == [transcript : Seq(Nat), saved : Seq(Nat), dirty : BOOLEAN,
                activity : BOOLEAN]
UiType == [mode : {"editor", "stdin", "oneshot"}, pc : EditorPcs \union BatchPcs,
           queue : Seq(Nat), hand : Seq(Nat), input : Seq(Nat), initial : Seq(Nat),
           open : BOOLEAN, eof : BOOLEAN, error : BOOLEAN, req : Nat]
LogType == [typed : 0 .. MaxPrompts, interrupts : 0 .. MaxInterrupts,
            commands : 0 .. MaxCommands, gone : SUBSET Nat, lost : SUBSET Nat,
            asked : BOOLEAN]

TypesOK ==
    /\ w \in WType /\ drain \in DrainType /\ ask \in AskType
    /\ worker \in WorkerType /\ session \in SessionType
    /\ ui \in UiType /\ log \in LogType
    /\ sleeping \subseteq {"worker", "ui"}

\* What the bounds rest on.
BoundsOK ==
    /\ Len(worker.chain) <= 3
    /\ worker.pc \in {"tool", "asking", "observe", "draining"} => worker.rounds < MaxRounds
    /\ ask.from <= ask.n /\ ui.req <= ask.n
    /\ ui.pc = "interrupt" => log.interrupts < MaxInterrupts

\* The worker is active exactly while it holds the session.  A turn has taken
\* its prompt; a worker picks only when there is something to pick.
WorkerOK ==
    /\ w.active <=> WorkerHoldsSession
    /\ worker.pc \in InTurn \union {"boot"} => w.cmd = <<>>
    /\ worker.pc = "pick" => w.stop \/ w.cmd # <<>> \/ w.requests # {}
    /\ worker.pc \in {"stopping", "stopped"} => w.stop

\* While the UI uses the session nothing is asked of the worker, and it can be
\* asked for nothing once the UI has begun to leave the editor.
UiOK ==
    /\ ui.pc \in IF ui.mode = "editor" THEN EditorPcs ELSE BatchPcs
    /\ ui.pc \in {"save", "new"} => ~Holds /\ (w.paused \/ w.requests = {})
    /\ ui.pc = "leaving" \/ (ui.mode = "editor" /\ ui.pc \in Closing) => ~Holds /\ w.paused
    /\ ui.pc = "pausing" => w.paused
    /\ w.stop => ui.pc \in {"joining", "done"}
    /\ ask.pending => ui.mode = "editor"

\* Whoever sleeps, sleeps because its condition is false.
SleepOK ==
    /\ "worker" \in sleeping =>
         \/ worker.pc = "wait" /\ ~HasWork(w)
         \/ worker.pc = "asking" /\ ~Cancelled /\ ~ask.answered
         \/ worker.pc = "draining" /\ ~Cancelled /\ ~drain.answered
    /\ "ui" \in sleeping => ui.pc = "pausing" /\ Holds

\* The stdin and -p front ends ask for no maintenance.  An error ends them, and
\* from there, or from the end of an idle worker, nothing is picked any more.
BatchOK ==
    ui.mode # "editor" =>
        /\ w.requests = {} /\ worker.pc \notin {"saving", "compacting"}
        /\ w.state = "ERROR" \/ ui.pc \in Closing =>
              w.cmd = <<>> /\ worker.pc \in {"deferred", "wait", "stopping", "stopped"}
        /\ ui.error /\ ui.pc \in {"serve", "answer", "input"} => w.state = "ERROR"

AgentInv == TypesOK /\ BoundsOK /\ WorkerOK /\ UiOK /\ BatchOK /\ SleepOK

-----------------------------------------------------------------------------
(* Interrupts, questions and prompts handed over. *)

\* An interrupt was asked for since the last prompt; the editor's own, or the
\* one that makes a leaving worker park.
InterruptOK ==
    w.interrupt => /\ log.asked /\ ui.mode = "editor"
                   /\ ui.pc # "pausing" => log.interrupts > 0

\* While the user answers a question, or the UI hands prompts over, it takes part
\* in nothing else, so the worker begins nothing before the reply; a worker that
\* no longer waits for it was interrupted.
ReplyOK ==
    ui.pc \in {"prompting", "answer"} =>
        /\ w.cmd = <<>> /\ worker.pc \notin {"admit", "answered", "tool"}
        /\ worker.pc \in {"observe", "round", "generate"} => Cancelled
        /\ worker.pc = "asking" =>
              ui.pc = "prompting" /\ ui.req = ask.n /\ ~ask.answered /\ ~ask.pending
        /\ worker.pc = "draining" => ui.pc = "answer" /\ ~drain.answered /\ ~drain.pending

\* A question is open only while the worker waits for its answer.
AskOK ==
    /\ ask.pending => worker.pc = "asking" /\ ~ask.answered
    /\ worker.pc = "asking" /\ ask.answered => ask.from = ask.n

\* Prompts are handed over while the worker waits for them, except in an editor
\* whose user has interrupted that wait.
Interrupted == ui.mode = "editor" /\ log.interrupts > 0

HandOverOK ==
    /\ drain.pending => worker.pc = "draining" /\ ~drain.answered
    /\ worker.pc = "draining" /\ ~drain.answered => drain.text = <<>>
    /\ drain.text # <<>> => (worker.pc = "draining" /\ drain.answered) \/ Interrupted
    /\ ui.pc = "answer" => (worker.pc = "draining" /\ ~drain.answered) \/ Interrupted
    /\ ui.hand # <<>> => ui.pc = "answer"
    /\ log.lost # {} => Interrupted

TurnInv == AgentInv /\ InterruptOK /\ ReplyOK /\ AskOK /\ HandOverOK

-----------------------------------------------------------------------------
(* What the operators on agent_worker do. *)

\* Waking the UI touches only the pipe.
LEMMA WakeFacts ==
    ASSUME NEW r \in WType
    PROVE  /\ Wake(r) \in WType
           /\ Wake(r).initialized = r.initialized /\ Wake(r).active = r.active
           /\ Wake(r).paused = r.paused /\ Wake(r).stop = r.stop
           /\ Wake(r).interrupt = r.interrupt /\ Wake(r).cmd = r.cmd
           /\ Wake(r).requests = r.requests /\ Wake(r).state = r.state
BY DEF WType, Wake

LEMMA StateFacts ==
    ASSUME NEW r \in WType, NEW s \in {"IDLE", "BUSY", "ERROR", "STOPPED"}
    PROVE  /\ SetState(r, s) \in WType
           /\ SetState(r, s).initialized = r.initialized /\ SetState(r, s).active = r.active
           /\ SetState(r, s).paused = r.paused /\ SetState(r, s).stop = r.stop
           /\ SetState(r, s).interrupt = r.interrupt /\ SetState(r, s).cmd = r.cmd
           /\ SetState(r, s).requests = r.requests /\ SetState(r, s).state = s
<1>. DEFINE q == [r EXCEPT !.state = s]
<1>1. /\ q \in WType /\ q.initialized = r.initialized /\ q.active = r.active
      /\ q.paused = r.paused /\ q.stop = r.stop
      /\ q.interrupt = r.interrupt /\ q.cmd = r.cmd
      /\ q.requests = r.requests /\ q.state = s
  BY DEF WType
<1>. HIDE DEF q
<1>2. SetState(r, s) = Wake(q)
  BY DEF SetState, q
<1>. QED BY <1>1, <1>2, WakeFacts

\* A prompt accepted clears the interrupt.
LEMMA SubmitFacts ==
    ASSUME w \in WType, log \in LogType, NEW ps \in Seq(Nat), Submit(ps)
    PROVE  /\ w' \in WType /\ log' \in LogType
           /\ w'.initialized = w.initialized /\ w'.active = w.active
           /\ w'.paused = w.paused /\ w'.stop = w.stop
           /\ w'.interrupt = FALSE /\ w'.cmd = ps
           /\ w'.requests = w.requests /\ w'.state = "BUSY"
           /\ log' = [log EXCEPT !.asked = FALSE]
           /\ sleeping' \subseteq sleeping
           /\ sleeping \subseteq {"worker"} => sleeping' = {}
<1>1. w' = Submitted(ps) /\ log' = [log EXCEPT !.asked = FALSE] /\ Signal
  BY DEF Submit
<1>2. log' \in LogType
  BY <1>1 DEF LogType
<1>3. /\ w' \in WType
      /\ w'.initialized = w.initialized /\ w'.active = w.active
      /\ w'.paused = w.paused /\ w'.stop = w.stop
      /\ w'.interrupt = FALSE /\ w'.cmd = ps
      /\ w'.requests = w.requests /\ w'.state = "BUSY"
  BY <1>1 DEF WType, Submitted
<1>4. sleeping' \subseteq sleeping /\ (sleeping \subseteq {"worker"} => sleeping' = {})
  BY <1>1 DEF Signal
<1>. QED BY <1>1, <1>2, <1>3, <1>4

\* However the UI submits a prompt, it does so while it may, and otherwise
\* leaves the worker alone.
LEMMA SubmittingFacts ==
    ASSUME TypesOK, SubmitQueue \/ BatchTop \/ TakeInput \/ TypePrompt
    PROVE  /\ UNCHANGED <<drain, ask, worker, session>>
           /\ ui' \in UiType /\ ui'.mode = ui.mode /\ ui'.req = ui.req
           /\ ui'.hand = ui.hand
           /\ SubmitQueue => ui.pc = "serve" /\ ui.mode = "editor" /\ ui'.pc = "line"
           /\ BatchTop => ui.pc = "top" /\ ui.mode # "editor" /\ ui'.pc = "poll"
           /\ TakeInput => /\ ui.pc = "input" \/ (ui.pc = "serve" /\ ui.mode # "editor")
                           /\ ui'.pc \in {"stop", "end"}
           /\ TypePrompt => ui.pc = "line" /\ ui'.pc = "consume"
           /\ w' \in WType /\ log' \in LogType
           /\ w'.active = w.active /\ w'.paused = w.paused /\ w'.stop = w.stop
           /\ w'.initialized = w.initialized /\ w'.requests = w.requests
           /\ log'.interrupts = log.interrupts
           /\ log'.gone = log.gone /\ log'.lost = log.lost
           /\ "ui" \notin sleeping
           /\ \/ w' = w /\ log'.asked = log.asked /\ sleeping' = sleeping
              \/ /\ CanSubmit(w) /\ w'.interrupt = FALSE /\ sleeping' = {}
                 /\ w'.cmd \in {ui.initial, ui.queue, ui.input, <<log.typed + 1>>}
                 /\ w'.state = "BUSY"
<1>1. /\ w \in WType /\ ui \in UiType /\ log \in LogType
      /\ sleeping \subseteq {"worker", "ui"}
  BY DEF TypesOK
<1>2. /\ ui.initial \in Seq(Nat) /\ ui.queue \in Seq(Nat) /\ ui.input \in Seq(Nat)
      /\ log.typed \in Nat /\ log.typed + 1 \in Nat
      /\ <<>> \in Seq(Nat) /\ <<log.typed + 1>> \in Seq(Nat)
      /\ Append(ui.queue, log.typed + 1) \in Seq(Nat)
      /\ ui.queue \o ui.input \in Seq(Nat)
      /\ log.interrupts \in 0 .. MaxInterrupts
  <2>1. /\ ui.initial \in Seq(Nat) /\ ui.queue \in Seq(Nat) /\ ui.input \in Seq(Nat)
        /\ log.typed \in Nat /\ log.interrupts \in 0 .. MaxInterrupts
    BY <1>1, AgentAssumption DEF UiType, LogType
  <2>2. ui.queue \o ui.input \in Seq(Nat)
    BY <2>1, ConcatProperties
  <2>. QED BY <2>1, <2>2
<1>3. UNCHANGED <<drain, ask, worker, session>> /\ "ui" \notin sleeping
  BY DEF SubmitQueue, BatchTop, TakeInput, TypePrompt, UiAt, Awake
<1>4. /\ SubmitQueue => ui.pc = "serve" /\ ui.mode = "editor"
      /\ BatchTop => ui.pc = "top" /\ ui.mode # "editor"
      /\ TakeInput => ui.pc = "input" \/ (ui.pc = "serve" /\ ui.mode # "editor")
      /\ TypePrompt => ui.pc = "line"
  BY DEF SubmitQueue, BatchTop, TakeInput, TypePrompt, UiAt
<1>. DEFINE SameW == w' = w /\ log'.asked = log.asked /\ sleeping' = sleeping
            UiOf(pcs) == /\ ui' \in UiType /\ ui'.mode = ui.mode /\ ui'.req = ui.req
                         /\ ui'.hand = ui.hand /\ ui'.pc \in pcs
            LogSame == /\ log' \in LogType /\ log'.interrupts = log.interrupts
                       /\ log'.gone = log.gone /\ log'.lost = log.lost
<1>5. ASSUME NEW ps \in {ui.initial, ui.queue, ui.input}, Submit(ps), CanSubmit(w)
      PROVE  /\ w' \in WType /\ LogSame
             /\ w'.active = w.active /\ w'.paused = w.paused /\ w'.stop = w.stop
             /\ w'.initialized = w.initialized /\ w'.requests = w.requests
             /\ CanSubmit(w) /\ w'.interrupt = FALSE /\ sleeping' = {} /\ w'.cmd = ps
             /\ w'.state = "BUSY"
  <2>1. ps \in Seq(Nat) /\ sleeping \subseteq {"worker"}
    BY <1>1, <1>2, <1>3
  <2>2. log' = [log EXCEPT !.asked = FALSE] /\ log' \in LogType
    BY <1>1, <1>5, <2>1, SubmitFacts
  <2>3. LogSame
    BY <1>1, <2>2 DEF LogType
  <2>. QED BY <1>1, <1>5, <2>1, <2>3, SubmitFacts
<1>6. ASSUME UNCHANGED <<w, sleeping, log>>
      PROVE  w' \in WType /\ LogSame /\ SameW
  BY <1>1, <1>6
<1>7. CASE SubmitQueue
  <2>1. UiOf({"line"})
    <3>1. \/ ui' = [ui EXCEPT !.pc = "line", !.initial = <<>>]
          \/ ui' = [ui EXCEPT !.pc = "line", !.queue = <<>>]
          \/ ui' = [ui EXCEPT !.pc = "line"]
      BY <1>7 DEF SubmitQueue, UiGoes
    <3>2. "line" \in EditorPcs \union BatchPcs
      BY DEF EditorPcs
    <3>. QED BY <1>1, <1>2, <3>1, <3>2 DEF UiType
  <2>2. \/ \E ps \in {ui.initial, ui.queue} : Submit(ps) /\ CanSubmit(w)
        \/ UNCHANGED <<w, sleeping, log>>
    BY <1>7 DEF SubmitQueue
  <2>. QED BY <1>3, <1>4, <1>5, <1>6, <1>7, <2>1, <2>2 DEF BatchTop, TakeInput, TypePrompt, UiAt
<1>8. CASE BatchTop
  <2>1. UiOf({"poll"})
    <3>. DEFINE opened == [ui EXCEPT !.pc = "poll", !.open = w.initialized]
    <3>1. \/ ui' = [opened EXCEPT !.initial = <<>>]
          \/ ui' = [opened EXCEPT !.queue = <<>>]
          \/ ui' = opened
      BY <1>8 DEF BatchTop
    <3>2. "poll" \in EditorPcs \union BatchPcs /\ w.initialized \in BOOLEAN
      BY <1>1 DEF BatchPcs, WType
    <3>3. opened \in UiType /\ opened.mode = ui.mode /\ opened.req = ui.req
          /\ opened.hand = ui.hand /\ opened.pc = "poll"
      BY <1>1, <3>2 DEF UiType
    <3>. HIDE DEF opened
    <3>. QED BY <1>2, <3>1, <3>3 DEF UiType
  <2>2. \/ \E ps \in {ui.initial, ui.queue} : Submit(ps) /\ CanSubmit(w)
        \/ UNCHANGED <<w, sleeping, log>>
    BY <1>8 DEF BatchTop
  <2>. QED BY <1>3, <1>4, <1>5, <1>6, <1>8, <2>1, <2>2 DEF SubmitQueue, TakeInput, TypePrompt, UiAt
<1>9. CASE TakeInput
  <2>1. UiOf({"stop", "end"})
    <3>. DEFINE taken == [ui EXCEPT !.pc = "end", !.input = <<>>]
    <3>1. \/ ui' = [ui EXCEPT !.pc = "stop"]
          \/ ui' = taken
          \/ ui' = [taken EXCEPT !.queue = taken.queue \o ui.input]
      BY <1>9 DEF TakeInput, UiGoes
    <3>2. {"stop", "end"} \subseteq EditorPcs \union BatchPcs
      BY DEF BatchPcs, Closing
    <3>3. taken \in UiType /\ taken.mode = ui.mode /\ taken.req = ui.req
          /\ taken.hand = ui.hand /\ taken.pc = "end" /\ taken.queue = ui.queue
      BY <1>1, <1>2, <3>2 DEF UiType
    <3>. HIDE DEF taken
    <3>4. CASE ui' = [ui EXCEPT !.pc = "stop"]
      BY <1>1, <3>2, <3>4 DEF UiType
    <3>5. CASE ui' = [taken EXCEPT !.queue = taken.queue \o ui.input]
      BY <1>2, <3>3, <3>5 DEF UiType
    <3>. QED BY <3>1, <3>3, <3>4, <3>5
  <2>2. \/ Submit(ui.input) /\ CanSubmit(w)
        \/ UNCHANGED <<w, sleeping, log>>
    BY <1>9 DEF TakeInput
  <2>. QED BY <1>3, <1>4, <1>5, <1>6, <1>9, <2>1, <2>2 DEF SubmitQueue, BatchTop, TypePrompt, UiAt
<1>10. CASE TypePrompt
  <2>1. UiOf({"consume"})
    <3>1. \/ ui' = [ui EXCEPT !.pc = "consume"]
          \/ ui' = [ui EXCEPT !.pc = "consume", !.queue = Append(ui.queue, log.typed + 1)]
      BY <1>10 DEF TypePrompt, UiGoes
    <3>2. "consume" \in EditorPcs \union BatchPcs
      BY DEF EditorPcs
    <3>. QED BY <1>1, <1>2, <3>1, <3>2 DEF UiType
  <2>2. LogSame
    <3>1. \/ log' = [log EXCEPT !.typed = log.typed + 1, !.asked = FALSE]
          \/ log' = [log EXCEPT !.typed = log.typed + 1]
      BY <1>10 DEF TypePrompt
    <3>2. log.typed + 1 \in 0 .. MaxPrompts
      BY <1>1, <1>10, AgentAssumption DEF TypePrompt, LogType
    <3>. QED BY <1>1, <3>1, <3>2 DEF LogType
  <2>3. CASE IsIdle(w)
    <3>1. /\ CanSubmit(w) /\ w' = Submitted(<<log.typed + 1>>) /\ Signal
      BY <1>10, <2>3 DEF TypePrompt
    <3>2. /\ w' \in WType /\ w'.active = w.active /\ w'.paused = w.paused
          /\ w'.stop = w.stop /\ w'.initialized = w.initialized
          /\ w'.requests = w.requests /\ w'.interrupt = FALSE /\ w'.state = "BUSY"
          /\ w'.cmd = <<log.typed + 1>>
      BY <1>1, <1>2, <3>1 DEF Submitted, WType
    <3>3. sleeping' = {}
      BY <1>1, <1>3, <3>1 DEF Signal
    <3>. QED BY <1>3, <1>4, <1>10, <2>1, <2>2, <3>1, <3>2, <3>3
               DEF SubmitQueue, BatchTop, TakeInput, UiAt
  <2>4. CASE ~IsIdle(w)
    <3>1. UNCHANGED <<w, sleeping>> /\ log'.asked = log.asked
      BY <1>1, <1>10, <2>4 DEF TypePrompt, LogType
    <3>. QED BY <1>1, <1>3, <1>4, <1>10, <2>1, <2>2, <3>1
               DEF SubmitQueue, BatchTop, TakeInput, UiAt
  <2>. QED BY <2>3, <2>4
<1>. QED BY <1>7, <1>8, <1>9, <1>10

\* Every field of agent_worker keeps its type.
LEMMA WTyped ==
    ASSUME AgentInv, Next
    PROVE  w' \in WType
<1>1. TypesOK /\ w \in WType
  BY DEF AgentInv, TypesOK
<1>2. CASE Generated \/ ToolRuns \/ AskEnds \/ DrainEnds \/ TakeDrain \/
          TakeAsk \/ NoLine \/ UiSave \/ LeaveClean \/ LeaveNow \/ Join \/
          PollWake \/ BatchEnd \/ CtrlC \/ TypeSessionCommand \/ TypeExit \/
          PollInput
  <2>1. UNCHANGED w
    BY <1>2 DEF Generated, ToolRuns, AskEnds, DrainEnds, TakeDrain, TakeAsk,
       NoLine, UiSave, LeaveClean, LeaveNow, Join, PollWake, BatchEnd, CtrlC,
       TypeSessionCommand, TypeExit, PollInput
  <2>. QED BY <1>1, <2>1
<1>3. CASE AppendUser \/ Ask \/ RequestDrain \/ AnswerDrain \/ AnswerAsk
  <2>1. w' = Wake(w)
    BY <1>3 DEF AppendUser, Ask, RequestDrain, AnswerDrain, AnswerAsk
  <2>. QED BY <1>1, <2>1, WakeFacts
<1>4. CASE Stopping \/ TurnFails \/ Prefilled \/ Answered \/ Saved \/ UiNew
  <2>1. w' = w \/ \E s \in {"IDLE", "BUSY", "ERROR", "STOPPED"} : w' = SetState(w, s)
    BY <1>4 DEF Stopping, TurnFails, Prefilled, Answered, Saved, UiNew
  <2>. QED BY <1>1, <2>1, StateFacts
<1>5. CASE SubmitQueue \/ BatchTop \/ TakeInput \/ TypePrompt
  BY <1>1, <1>5, SubmittingFacts
<1>6. CASE DrainFd \/ Consume \/ ResetError \/ Interrupt
  BY <1>1, <1>6 DEF DrainFd, Consume, ResetError, Interrupt, UiAt, Awake,
     UiGoes, Broadcast, WType, Ops
<1>7. CASE LeaveCancelled \/ Stop
  BY <1>1, <1>7 DEF LeaveCancelled, Stop, UiAt, Awake, NeedsSave, Broadcast,
     UiGoes, WType, Ops
<1>8. CASE RequestSave \/ TypeRequest
  <2>1. PICK r \in Ops : w' = Wake([w EXCEPT !.requests = @ \union {r}])
    BY <1>8 DEF RequestSave, TypeRequest, Requests, Ops
  <2>2. [w EXCEPT !.requests = @ \union {r}] \in WType
    BY <1>1 DEF WType, Ops
  <2>. QED BY <2>1, <2>2, WakeFacts
<1>9. CASE Boot
  <2>1. PICK s \in {"IDLE", "ERROR"} : w' = SetState([w EXCEPT !.initialized = TRUE], s)
    BY <1>9 DEF Boot
  <2>2. [w EXCEPT !.initialized = TRUE] \in WType
    BY <1>1 DEF WType
  <2>. QED BY <2>1, <2>2, StateFacts
<1>10. CASE Wait
  <2>1. w' = w \/ w' = [w EXCEPT !.active = ~w.stop]
    BY <1>10 DEF Wait
  <2>. QED BY <1>1, <2>1 DEF WType
<1>11. CASE Pick
  <2>1. w' = w \/ w' = Wake([w EXCEPT !.cmd = <<>>])
    BY <1>11 DEF Pick
  <2>2. [w EXCEPT !.cmd = <<>>] \in WType
    <3>1. <<>> \in Seq(Nat)
      OBVIOUS
    <3>. QED BY <1>1, <3>1 DEF WType
  <2>. QED BY <1>1, <2>1, <2>2, WakeFacts
<1>12. CASE Compacted \/ TurnInterrupted
  <2>1. \/ w' = SetState(w, "IDLE") \/ w' = SetState(w, "ERROR")
        \/ w' = SetState([w EXCEPT !.interrupt = FALSE], "IDLE")
    BY <1>12 DEF Compacted, TurnInterrupted
  <2>2. [w EXCEPT !.interrupt = FALSE] \in WType
    BY <1>1 DEF WType
  <2>. QED BY <1>1, <2>1, <2>2, StateFacts
<1>13. CASE Pause \/ PauseEnds
  <2>1. Paused \in WType
    BY <1>1 DEF WType, Paused, Holds
  <2>2. \/ w' = Paused \/ w' = [Paused EXCEPT !.interrupt = FALSE]
        \/ w' = w \/ w' = [w EXCEPT !.interrupt = FALSE]
    BY <1>13 DEF Pause, PauseEnds
  <2>. QED BY <1>1, <2>1, <2>2 DEF WType
<1>14. CASE Park
  <2>1. w' = Wake([w EXCEPT !.active = HasWork(w) /\ ~w.stop])
    BY <1>14 DEF Park
  <2>2. [w EXCEPT !.active = HasWork(w) /\ ~w.stop] \in WType
    BY <1>1 DEF WType, HasWork
  <2>. QED BY <2>1, <2>2, WakeFacts
<1>15. CASE TakeDeferred
  <2>1. PICK r \in {w.requests \ {worker.chain[NextDue]}} :
          w' = Wake([w EXCEPT !.requests = r]) \/ w' = SetState([w EXCEPT !.requests = r], "BUSY")
    BY <1>15 DEF TakeDeferred
  <2>2. [w EXCEPT !.requests = r] \in WType
    BY <1>1 DEF WType
  <2>. QED BY <2>1, <2>2, WakeFacts, StateFacts
<1>. QED BY <1>2, <1>3, <1>4, <1>5, <1>6, <1>7, <1>8, <1>9, <1>10, <1>11, <1>12,
     <1>13, <1>14, <1>15 DEF Next, WorkerNext, UiNext, UserNext

\* So do the requests for prompts and for answers.
LEMMA DrainTyped ==
    ASSUME AgentInv, Next
    PROVE  drain' \in DrainType
<1>1. TypesOK /\ drain \in DrainType /\ ui \in UiType
  BY DEF AgentInv, TypesOK
<1>2. CASE Boot \/ Park \/ Wait \/ Pick \/ Stopping \/ TurnInterrupted \/
          TurnFails \/ AppendUser \/ Prefilled \/ Generated \/ Answered \/
          ToolRuns \/ Ask \/ AskEnds \/ TakeDeferred \/ Compacted \/ Saved \/
          DrainFd \/ Consume \/ ResetError \/ Interrupt \/ TakeAsk \/
          AnswerAsk \/ SubmitQueue \/ NoLine \/ RequestSave \/ UiSave \/ UiNew
          \/ Pause \/ PauseEnds \/ LeaveClean \/ LeaveNow \/ LeaveCancelled \/
          Stop \/ Join \/ BatchTop \/ PollWake \/ TakeInput \/ BatchEnd \/
          CtrlC \/ TypePrompt \/ TypeSessionCommand \/ TypeRequest \/ TypeExit
          \/ PollInput
  <2>1. UNCHANGED drain
    BY <1>2 DEF Boot, Park, Wait, Pick, Stopping, TurnInterrupted, TurnFails,
       AppendUser, Prefilled, Generated, Answered, ToolRuns, Ask, AskEnds,
       TakeDeferred, Compacted, Saved, DrainFd, Consume, ResetError,
       Interrupt, TakeAsk, AnswerAsk, SubmitQueue, NoLine, RequestSave,
       UiSave, UiNew, Pause, PauseEnds, LeaveClean, LeaveNow, LeaveCancelled,
       Stop, Join, BatchTop, PollWake, TakeInput, BatchEnd, CtrlC, TypePrompt,
       TypeSessionCommand, TypeRequest, TypeExit, PollInput, Requests
  <2>. QED BY <1>1, <2>1
<1>3. CASE RequestDrain \/ DrainEnds
  <2>1. drain' = NoDrain \/ drain' = [NoDrain EXCEPT !.pending = TRUE] \/ drain' = drain
    BY <1>3 DEF RequestDrain, DrainEnds
  <2>2. <<>> \in Seq(Nat)
    OBVIOUS
  <2>3. NoDrain \in DrainType /\ [NoDrain EXCEPT !.pending = TRUE] \in DrainType
    BY <2>2 DEF NoDrain, DrainType
  <2>. QED BY <1>1, <2>1, <2>3
<1>4. CASE TakeDrain
  BY <1>1, <1>4 DEF TakeDrain, UiAt, Awake, DrainType, UiType
<1>5. CASE AnswerDrain
  BY <1>1, <1>5 DEF AnswerDrain, UiAt, Awake, Wake, Signal, DrainType, UiType
<1>. QED BY <1>2, <1>3, <1>4, <1>5 DEF Next, WorkerNext, UiNext, UserNext

LEMMA AskTyped ==
    ASSUME AgentInv, Next
    PROVE  ask' \in AskType
<1>1. TypesOK /\ w \in WType /\ ask \in AskType /\ ui \in UiType
  BY DEF AgentInv, TypesOK
<1>2. CASE Boot \/ Park \/ Wait \/ Pick \/ Stopping \/ TurnInterrupted \/
          TurnFails \/ AppendUser \/ Prefilled \/ Generated \/ Answered \/
          ToolRuns \/ RequestDrain \/ DrainEnds \/ TakeDeferred \/ Compacted
          \/ Saved \/ DrainFd \/ Consume \/ ResetError \/ TakeDrain \/
          AnswerDrain \/ Interrupt \/ SubmitQueue \/ NoLine \/ RequestSave \/
          UiSave \/ UiNew \/ Pause \/ PauseEnds \/ LeaveClean \/ LeaveNow \/
          LeaveCancelled \/ Stop \/ Join \/ BatchTop \/ PollWake \/ TakeInput
          \/ BatchEnd \/ CtrlC \/ TypePrompt \/ TypeSessionCommand \/
          TypeRequest \/ TypeExit \/ PollInput
  <2>1. UNCHANGED ask
    BY <1>2 DEF Boot, Park, Wait, Pick, Stopping, TurnInterrupted, TurnFails,
       AppendUser, Prefilled, Generated, Answered, ToolRuns, RequestDrain,
       DrainEnds, TakeDeferred, Compacted, Saved, DrainFd, Consume,
       ResetError, TakeDrain, AnswerDrain, Interrupt, SubmitQueue, NoLine,
       RequestSave, UiSave, UiNew, Pause, PauseEnds, LeaveClean, LeaveNow,
       LeaveCancelled, Stop, Join, BatchTop, PollWake, TakeInput, BatchEnd,
       CtrlC, TypePrompt, TypeSessionCommand, TypeRequest, TypeExit,
       PollInput, Requests
  <2>. QED BY <1>1, <2>1
<1>3. CASE Ask
  <2>. DEFINE b == ~Cancelled
  <2>1. b \in BOOLEAN
    BY <1>1 DEF Cancelled, WType
  <2>2. ask' = [ask EXCEPT !.n = ask.n + 1, !.pending = b, !.answered = FALSE, !.allow = FALSE]
    BY <1>3 DEF Ask, Asked
  <2>3. ask.n + 1 \in Nat
    BY <1>1 DEF AskType
  <2>. HIDE DEF b
  <2>. QED BY <1>1, <2>1, <2>2, <2>3 DEF AskType
<1>4. CASE AskEnds
  BY <1>1, <1>4 DEF AskEnds, WorkerAt, Awake, Cancelled, WorkerGoes, AskType,
     UiType
<1>5. CASE TakeAsk
  BY <1>1, <1>5 DEF TakeAsk, UiAt, Awake, AskType, UiType
<1>6. CASE AnswerAsk
  BY <1>1, <1>6 DEF AnswerAsk, UiAt, Awake, Wake, Signal, UiGoes, AskType,
     UiType
<1>. QED BY <1>2, <1>3, <1>4, <1>5, <1>6 DEF Next, WorkerNext, UiNext, UserNext

LEMMA SessionTyped ==
    ASSUME AgentInv, Next
    PROVE  session' \in SessionType
<1>1. TypesOK /\ session \in SessionType /\ worker \in WorkerType
  BY DEF AgentInv, TypesOK
<1>2. CASE Boot \/ Park \/ Wait \/ Pick \/ Stopping \/ TurnInterrupted \/
          TurnFails \/ Prefilled \/ Generated \/ Answered \/ ToolRuns \/ Ask
          \/ AskEnds \/ RequestDrain \/ DrainEnds \/ TakeDeferred \/ DrainFd
          \/ Consume \/ ResetError \/ TakeDrain \/ AnswerDrain \/ Interrupt \/
          TakeAsk \/ AnswerAsk \/ SubmitQueue \/ NoLine \/ RequestSave \/
          Pause \/ PauseEnds \/ LeaveNow \/ LeaveCancelled \/ Stop \/ Join \/
          BatchTop \/ PollWake \/ TakeInput \/ BatchEnd \/ CtrlC \/ TypePrompt
          \/ TypeSessionCommand \/ TypeRequest \/ TypeExit \/ PollInput
  <2>1. UNCHANGED session
    BY <1>2 DEF Boot, Park, Wait, Pick, Stopping, TurnInterrupted, TurnFails,
       Prefilled, Generated, Answered, ToolRuns, Ask, AskEnds, RequestDrain,
       DrainEnds, TakeDeferred, DrainFd, Consume, ResetError, TakeDrain,
       AnswerDrain, Interrupt, TakeAsk, AnswerAsk, SubmitQueue, NoLine,
       RequestSave, Pause, PauseEnds, LeaveNow, LeaveCancelled, Stop, Join,
       BatchTop, PollWake, TakeInput, BatchEnd, CtrlC, TypePrompt,
       TypeSessionCommand, TypeRequest, TypeExit, PollInput, Requests
  <2>. QED BY <1>1, <2>1
<1>3. CASE AppendUser
  <2>1. session.transcript \o worker.turn \in Seq(Nat)
    BY <1>1, ConcatProperties DEF SessionType, WorkerType
  <2>2. session' = [session EXCEPT !.transcript = session.transcript \o worker.turn,
                                   !.dirty = TRUE, !.activity = TRUE]
    BY <1>3 DEF AppendUser
  <2>. QED BY <1>1, <2>1, <2>2 DEF SessionType
<1>4. CASE UiNew
  <2>1. Written \in SessionType /\ EmptySession \in SessionType /\ <<>> \in Seq(Nat)
    <3>1. <<>> \in Seq(Nat)
      OBVIOUS
    <3>2. Written \in SessionType
      BY <1>1 DEF Written, SessionType
    <3>. QED BY <3>1, <3>2 DEF EmptySession, SessionType
  <2>2. PICK before \in {session, Written} :
          \/ session' = before \/ session' = EmptySession
          \/ session' = [before EXCEPT !.transcript = <<>>]
    BY <1>4 DEF UiNew
  <2>. QED BY <1>1, <2>1, <2>2 DEF SessionType
<1>5. CASE Compacted
  BY <1>1, <1>5 DEF Compacted, WorkerAt, Awake, SetState, Wake, Cancelled,
     WorkerGoes, SessionType, WorkerType
<1>6. CASE Saved
  BY <1>1, <1>6 DEF Saved, WorkerAt, Awake, Written, SetState, Wake,
     WorkerGoes, SessionType, WorkerType
<1>7. CASE UiSave
  BY <1>1, <1>7 DEF UiSave, UiAt, Awake, Written, UiGoes, SessionType,
     WorkerType
<1>8. CASE LeaveClean
  BY <1>1, <1>8 DEF LeaveClean, UiAt, Awake, NeedsSave, IsIdle, Written,
     UiGoes, SessionType, WorkerType
<1>. QED BY <1>2, <1>3, <1>4, <1>5, <1>6, <1>7, <1>8 DEF Next, WorkerNext, UiNext,
     UserNext

LEMMA HasSmallest ==
    ASSUME NEW n \in Nat, NEW G \in SUBSET (1 .. n), G # {}
    PROVE  \E m \in G : \A k \in G : m <= k
<1>. DEFINE R == OpToRel(<, Nat)
<1>1. IsWellFoundedOn(R, Nat)
  BY NatLessThanWellFounded
<1>2. \A x, y \in Nat : x < y => <<x, y>> \in R
  BY DEF OpToRel
<1>3. G \subseteq Nat
  OBVIOUS
<1>. HIDE DEF R
<1>4. PICK m \in G : \A y \in G : ~ (<<y, m>> \in R)
  BY <1>1, <1>3, WFMin
<1>5. \A k \in G : m <= k
  <2>. TAKE k \in G
  <2>1. k \in Nat /\ m \in Nat /\ ~ (k < m)
    BY <1>2, <1>3, <1>4
  <2>. QED BY <2>1
<1>. QED BY <1>5

\* A deferred operation that is taken was asked for, and those up to it are done.
LEMMA DueFacts ==
    ASSUME worker \in WorkerType, TakeDeferred
    PROVE  LET c == SubSeq(worker.chain, NextDue + 1, Len(worker.chain))
           IN  /\ NextDue \in 1 .. Len(worker.chain)
               /\ c \in Seq(Ops) /\ Len(c) <= Len(worker.chain)
               /\ Due(worker.chain[NextDue])
<1>. DEFINE c == worker.chain
            First(i) == Due(c[i]) /\ \A j \in 1 .. i - 1 : ~Due(c[j])
<1>1. c \in Seq(Ops) /\ Len(c) \in Nat
  BY LenProperties DEF WorkerType
<1>2. \E i \in 1 .. Len(c) : First(i)
  <2>. DEFINE G == {i \in 1 .. Len(c) : Due(c[i])}
  <2>1. PICK k \in G : TRUE
    BY DEF TakeDeferred, NothingDue
  <2>2. PICK m \in G : \A i \in G : m <= i
    <3>1. G \subseteq 1 .. Len(c) /\ G # {}
      BY <2>1
    <3>. HIDE DEF G
    <3>. QED BY <1>1, <3>1, HasSmallest
  <2>3. \A j \in 1 .. m - 1 : ~Due(c[j])
    <3>. TAKE j \in 1 .. m - 1
    <3>1. j \in 1 .. Len(c) /\ ~ (m <= j)
      BY <1>1, <2>2
    <3>. QED BY <2>2, <3>1
  <2>. QED BY <2>2, <2>3
<1>3. NextDue = CHOOSE i \in 1 .. Len(c) : First(i)
  BY DEF NextDue
<1>. HIDE DEF First
<1>4. NextDue \in 1 .. Len(c) /\ First(NextDue)
  BY <1>2, <1>3
<1>. DEFINE n == NextDue
<1>5. n \in 1 .. Len(c) /\ Due(c[n])
  BY <1>4 DEF First
<1>. HIDE DEF c, n
<1>6. SubSeq(c, n + 1, Len(c)) \in Seq(Ops) /\ Len(SubSeq(c, n + 1, Len(c))) <= Len(c)
  <2>1. n + 1 \in Int /\ Len(c) \in Int /\ \A i \in n + 1 .. Len(c) : c[i] \in Ops
    BY <1>1, <1>5, ElementOfSeq
  <2>2. /\ SubSeq(c, n + 1, Len(c)) \in Seq(Ops)
        /\ Len(SubSeq(c, n + 1, Len(c))) = IF n + 1 <= Len(c) THEN Len(c) - (n + 1) + 1 ELSE 0
    BY <2>1, SubSeqProperties
  <2>. QED BY <1>1, <1>5, <2>2
<1>. QED BY <1>5, <1>6 DEF c, n

LEMMA WorkerTyped ==
    ASSUME AgentInv, Next
    PROVE  worker' \in WorkerType
<1>1. TypesOK /\ w \in WType /\ drain \in DrainType /\ worker \in WorkerType /\ BoundsOK
  BY DEF AgentInv, TypesOK
<1>2. CASE DrainFd \/ Consume \/ ResetError \/ TakeDrain \/ AnswerDrain \/
          Interrupt \/ TakeAsk \/ AnswerAsk \/ SubmitQueue \/ NoLine \/
          RequestSave \/ UiSave \/ UiNew \/ Pause \/ PauseEnds \/ LeaveClean
          \/ LeaveNow \/ LeaveCancelled \/ Stop \/ Join \/ BatchTop \/
          PollWake \/ TakeInput \/ BatchEnd \/ CtrlC \/ TypePrompt \/
          TypeSessionCommand \/ TypeRequest \/ TypeExit \/ PollInput
  <2>1. UNCHANGED worker
    BY <1>2 DEF DrainFd, Consume, ResetError, TakeDrain, AnswerDrain,
       Interrupt, TakeAsk, AnswerAsk, SubmitQueue, NoLine, RequestSave,
       UiSave, UiNew, Pause, PauseEnds, LeaveClean, LeaveNow, LeaveCancelled,
       Stop, Join, BatchTop, PollWake, TakeInput, BatchEnd, CtrlC, TypePrompt,
       TypeSessionCommand, TypeRequest, TypeExit, PollInput, Requests
  <2>. QED BY <1>1, <2>1
<1>3. CASE TurnInterrupted \/ TurnFails \/ Answered
  <2>1. worker' = AfterTurn
    BY <1>3 DEF TurnInterrupted, TurnFails, Answered
  <2>2. <<>> \in Seq(Nat) /\ <<"power", "compact", "save">> \in Seq(Ops)
    BY DEF Ops
  <2>. QED BY <1>1, <2>1, <2>2 DEF AfterTurn, WorkerType, WorkerPcs
<1>4. CASE Boot \/ Stopping \/ Prefilled \/ ToolRuns \/ Ask \/ AskEnds \/
          Compacted \/ Saved \/ Wait
  <2>1. worker' = worker \/ \E pc \in WorkerPcs : WorkerGoes(pc)
    BY <1>4 DEF Boot, Stopping, Prefilled, ToolRuns, Ask, AskEnds, Compacted, Saved, Wait,
                WorkerPcs, InTurn, TurnPcs
  <2>. QED BY <1>1, <2>1 DEF WorkerGoes, WorkerType
<1>5. CASE Park
  <2>1. PICK pc \in WorkerPcs : worker' = [worker EXCEPT !.chain = <<>>, !.pc = pc]
    BY <1>5 DEF Park, WorkerPcs
  <2>2. <<>> \in Seq(Ops)
    OBVIOUS
  <2>. QED BY <1>1, <2>1, <2>2 DEF WorkerType
<1>6. CASE Pick
  <2>. DEFINE chains == {<<"power">>, <<"save">>, <<"compact">>}
  <2>1. \/ WorkerGoes("stopping")
        \/ \E c \in chains : worker' = [worker EXCEPT !.pc = "deferred", !.chain = c]
        \/ worker' = [worker EXCEPT !.pc = "admit", !.turn = w.cmd, !.rounds = 0]
    BY <1>6 DEF Pick
  <2>2. chains \subseteq Seq(Ops) /\ 0 \in 0 .. MaxRounds
    BY AgentAssumption DEF Ops
  <2>3. {"stopping", "deferred", "admit"} \subseteq WorkerPcs /\ w.cmd \in Seq(Nat)
    BY <1>1 DEF WorkerPcs, InTurn, TurnPcs, WType
  <2>. HIDE DEF chains
  <2>. QED BY <1>1, <2>1, <2>2, <2>3 DEF WorkerGoes, WorkerType
<1>7. CASE AppendUser
  <2>1. worker' = [worker EXCEPT !.pc = "round", !.turn = <<>>] /\ "round" \in WorkerPcs
    BY <1>7 DEF AppendUser, WorkerPcs, InTurn, TurnPcs
  <2>2. <<>> \in Seq(Nat)
    OBVIOUS
  <2>. QED BY <1>1, <2>1, <2>2 DEF WorkerType
<1>8. CASE Generated
  <2>1. \/ \E pc \in WorkerPcs : WorkerGoes(pc)
        \/ /\ worker' = [worker EXCEPT !.pc = "round", !.rounds = worker.rounds + 1]
           /\ worker.rounds < MaxRounds
    BY <1>8 DEF Generated, WorkerPcs, InTurn
  <2>2. worker.rounds < MaxRounds => worker.rounds + 1 \in 0 .. MaxRounds
    BY <1>1, AgentAssumption DEF WorkerType
  <2>3. "round" \in WorkerPcs
    BY DEF WorkerPcs, InTurn, TurnPcs
  <2>. QED BY <1>1, <2>1, <2>2, <2>3 DEF WorkerGoes, WorkerType
<1>9. CASE RequestDrain \/ DrainEnds
  <2>1. /\ worker.rounds + 1 \in 0 .. MaxRounds
        /\ {"round", "draining", "admit"} \subseteq WorkerPcs /\ drain.text \in Seq(Nat)
    BY <1>1, <1>9, AgentAssumption
       DEF RequestDrain, DrainEnds, WorkerAt, BoundsOK, WorkerType, DrainType, WorkerPcs, InTurn, TurnPcs
  <2>2. \/ worker' = [worker EXCEPT !.pc = "round", !.rounds = worker.rounds + 1]
        \/ WorkerGoes("draining") \/ worker' = worker
        \/ \E pc \in {"round", "admit"} :
              worker' = [worker EXCEPT !.pc = pc, !.turn = drain.text,
                                       !.rounds = worker.rounds + 1]
    BY <1>9 DEF RequestDrain, DrainEnds
  <2>. QED BY <1>1, <2>1, <2>2 DEF WorkerGoes, WorkerType
<1>10. CASE TakeDeferred
  <2>. DEFINE c == SubSeq(worker.chain, NextDue + 1, Len(worker.chain))
  <2>1. PICK pc \in {"deferred", "saving", "compacting"} :
          worker' = [worker EXCEPT !.chain = c, !.pc = pc]
    BY <1>10 DEF TakeDeferred
  <2>2. c \in Seq(Ops)
    BY <1>1, <1>10, DueFacts
  <2>3. pc \in WorkerPcs
    BY DEF WorkerPcs
  <2>. HIDE DEF c
  <2>. QED BY <1>1, <2>1, <2>2, <2>3 DEF WorkerType
<1>. QED BY <1>2, <1>3, <1>4, <1>5, <1>6, <1>7, <1>8, <1>9, <1>10 DEF Next,
     WorkerNext, UiNext, UserNext

LEMMA LogTyped ==
    ASSUME AgentInv, Next
    PROVE  log' \in LogType
<1>1. TypesOK /\ BoundsOK /\ log \in LogType /\ worker \in WorkerType /\ drain \in DrainType /\ session \in SessionType
  BY DEF AgentInv, TypesOK
<1>2. CASE Boot \/ Park \/ Wait \/ Pick \/ Stopping \/ AppendUser \/ Prefilled
          \/ Generated \/ Answered \/ ToolRuns \/ Ask \/ AskEnds \/ DrainEnds
          \/ TakeDeferred \/ Compacted \/ Saved \/ DrainFd \/ Consume \/
          ResetError \/ TakeDrain \/ TakeAsk \/ AnswerAsk \/ NoLine \/ UiSave
          \/ PauseEnds \/ LeaveClean \/ LeaveNow \/ LeaveCancelled \/ Stop \/
          Join \/ PollWake \/ BatchEnd \/ CtrlC
  <2>1. UNCHANGED log
    BY <1>2 DEF Boot, Park, Wait, Pick, Stopping, AppendUser, Prefilled,
       Generated, Answered, ToolRuns, Ask, AskEnds, DrainEnds, TakeDeferred,
       Compacted, Saved, DrainFd, Consume, ResetError, TakeDrain, TakeAsk,
       AnswerAsk, NoLine, UiSave, PauseEnds, LeaveClean, LeaveNow,
       LeaveCancelled, Stop, Join, PollWake, BatchEnd, CtrlC
  <2>. QED BY <1>1, <2>1
<1>3. CASE SubmitQueue \/ BatchTop \/ TakeInput \/ TypePrompt
  BY <1>1, <1>3, SubmittingFacts
<1>4. CASE TurnInterrupted \/ TurnFails \/ RequestDrain \/ AnswerDrain \/
          UiNew
  <2>1. PICK s \in {worker.turn, drain.text, session.transcript} :
          \/ log' = [log EXCEPT !.gone = log.gone \union ToSet(s)]
          \/ log' = [log EXCEPT !.lost = log.lost \union ToSet(s)]
          \/ log' = log
    BY <1>4 DEF TurnInterrupted, TurnFails, RequestDrain, AnswerDrain, UiNew
  <2>2. ToSet(s) \subseteq Nat
    <3>1. s \in Seq(Nat)
      BY <1>1, <2>1 DEF WorkerType, DrainType, SessionType
    <3>. QED BY <3>1, ElementOfSeq, LenProperties DEF ToSet
  <2>. QED BY <1>1, <2>1, <2>2 DEF LogType
<1>5. CASE Interrupt
  <2>1. log' = [log EXCEPT !.interrupts = log.interrupts + 1, !.asked = TRUE]
    BY <1>5 DEF Interrupt
  <2>2. log.interrupts + 1 \in 0 .. MaxInterrupts
    BY <1>1, <1>5, AgentAssumption DEF Interrupt, UiAt, BoundsOK, LogType
  <2>. QED BY <1>1, <2>1, <2>2 DEF LogType
<1>6. CASE Pause
  <2>1. log' = [log EXCEPT !.asked = log.asked \/ Holds] /\ (log.asked \/ Holds) \in BOOLEAN
    BY <1>6 DEF Pause
  <2>. QED BY <1>1, <2>1 DEF LogType
<1>7. CASE TypeSessionCommand \/ TypeRequest \/ TypeExit
  <2>1. log' = [log EXCEPT !.commands = log.commands + 1] /\ log.commands < MaxCommands
    BY <1>7 DEF TypeSessionCommand, TypeRequest, TypeExit, Enters, Entered
  <2>2. log.commands + 1 \in 0 .. MaxCommands
    BY <1>1, <2>1, AgentAssumption DEF LogType
  <2>. QED BY <1>1, <2>1, <2>2 DEF LogType
<1>8. CASE PollInput
  <2>1. \/ log' = log
        \/ log' = [log EXCEPT !.typed = log.typed + 1] /\ log.typed < MaxPrompts
    BY <1>8 DEF PollInput
  <2>2. log.typed < MaxPrompts => log.typed + 1 \in 0 .. MaxPrompts
    BY <1>1, AgentAssumption DEF LogType
  <2>. QED BY <1>1, <2>1, <2>2 DEF LogType
<1>9. CASE RequestSave
  BY <1>1, <1>9 DEF RequestSave, UiAt, Awake, Requests, Wake, Signal, UiGoes,
     LogType
<1>. QED BY <1>2, <1>3, <1>4, <1>5, <1>6, <1>7, <1>8, <1>9 DEF Next, WorkerNext,
     UiNext, UserNext

LEMMA UiTyped ==
    ASSUME AgentInv, Next
    PROVE  ui' \in UiType
<1>1. TypesOK /\ w \in WType /\ ask \in AskType /\ ui \in UiType /\ log \in LogType
  BY DEF AgentInv, TypesOK
<1>2. CASE Boot \/ Park \/ Wait \/ Pick \/ Stopping \/ TurnInterrupted \/
          TurnFails \/ AppendUser \/ Prefilled \/ Generated \/ Answered \/
          ToolRuns \/ Ask \/ AskEnds \/ RequestDrain \/ DrainEnds \/
          TakeDeferred \/ Compacted \/ Saved
  <2>1. UNCHANGED ui
    BY <1>2 DEF Boot, Park, Wait, Pick, Stopping, TurnInterrupted, TurnFails,
       AppendUser, Prefilled, Generated, Answered, ToolRuns, Ask, AskEnds,
       RequestDrain, DrainEnds, TakeDeferred, Compacted, Saved
  <2>. QED BY <1>1, <2>1
<1>3. CASE DrainFd \/ ResetError \/ Interrupt \/ AnswerAsk \/ NoLine \/
          RequestSave \/ UiSave \/ UiNew \/ Pause \/ PauseEnds \/ LeaveClean
          \/ LeaveNow \/ LeaveCancelled \/ Stop \/ Join \/ PollWake \/
          BatchEnd \/ CtrlC \/ TypeSessionCommand \/ TypeRequest \/ TypeExit
  <2>1. ui' = ui \/ \E pc \in EditorPcs \union BatchPcs : UiGoes(pc)
    BY <1>3 DEF DrainFd, ResetError, Interrupt, AnswerAsk, NoLine, RequestSave, UiSave,
                UiNew, Pause, PauseEnds, LeaveClean, LeaveNow, LeaveCancelled,
                Stop, Join, PollWake, BatchEnd, CtrlC, TypeSessionCommand,
                TypeRequest, TypeExit,
                Requests, EditorPcs, BatchPcs, Closing
  <2>. QED BY <1>1, <2>1 DEF UiGoes, UiType
<1>4. CASE SubmitQueue \/ BatchTop \/ TakeInput \/ TypePrompt
  BY <1>1, <1>4, SubmittingFacts
<1>5. CASE Consume
  <2>1. PICK pc \in {"reset", "serve"}, e \in BOOLEAN :
          ui' = [ui EXCEPT !.error = e, !.pc = pc]
    BY <1>5 DEF Consume
  <2>2. pc \in EditorPcs
    BY DEF EditorPcs
  <2>. QED BY <1>1, <2>1, <2>2 DEF UiType
<1>6. CASE TakeDrain
  <2>1. ui' = [ui EXCEPT !.pc = "answer", !.hand = ui.queue, !.queue = <<>>]
    BY <1>6 DEF TakeDrain
  <2>2. "answer" \in EditorPcs /\ <<>> \in Seq(Nat)
    BY DEF EditorPcs
  <2>. QED BY <1>1, <2>1, <2>2 DEF UiType
<1>7. CASE AnswerDrain
  <2>1. PICK pc \in {"consume", "input"} : ui' = [ui EXCEPT !.pc = pc, !.hand = <<>>]
    BY <1>7 DEF AnswerDrain
  <2>2. pc \in EditorPcs \union BatchPcs /\ <<>> \in Seq(Nat)
    BY DEF EditorPcs, BatchPcs
  <2>. QED BY <1>1, <2>1, <2>2 DEF UiType
<1>8. CASE TakeAsk
  <2>1. ui' = [ui EXCEPT !.pc = "prompting", !.req = ask.n] /\ "prompting" \in EditorPcs
    BY <1>8 DEF TakeAsk, EditorPcs
  <2>. QED BY <1>1, <2>1 DEF UiType, AskType
<1>9. CASE PollInput
  <2>1. PICK pc \in {"drainfd", "consume"} :
          \/ ui' = [ui EXCEPT !.pc = pc, !.input = <<log.typed + 1>>]
          \/ ui' = [ui EXCEPT !.pc = pc, !.eof = TRUE]
    BY <1>9 DEF PollInput
  <2>2. pc \in BatchPcs /\ <<log.typed + 1>> \in Seq(Nat)
    BY <1>1, AgentAssumption DEF BatchPcs, LogType
  <2>. QED BY <1>1, <2>1, <2>2 DEF UiType
<1>. QED BY <1>2, <1>3, <1>4, <1>5, <1>6, <1>7, <1>8, <1>9 DEF Next, WorkerNext,
     UiNext, UserNext
\* The steps whose effect on several records depends on what the thread finds.
LEMMA WaitFacts ==
    ASSUME TypesOK, Wait
    PROVE  /\ worker.pc = "wait" /\ UNCHANGED <<drain, ask, session, ui, log>>
           /\ w'.paused = w.paused /\ w'.stop = w.stop /\ w'.cmd = w.cmd
           /\ w'.interrupt = w.interrupt /\ w'.requests = w.requests
           /\ w'.initialized = w.initialized /\ w'.state = w.state
           /\ worker'.turn = worker.turn /\ worker'.chain = worker.chain
           /\ worker'.rounds = worker.rounds
           /\ \/ /\ HasWork(w) /\ (w'.active <=> ~w.stop) /\ sleeping' = sleeping
                 /\ worker'.pc = IF w.stop THEN "stopping" ELSE "pick"
              \/ /\ ~HasWork(w) /\ w'.active = w.active /\ worker'.pc = "wait"
                 /\ sleeping' = sleeping \union {"worker"}
<1>1. w \in WType /\ worker \in WorkerType
  BY DEF TypesOK
<1>2. worker.pc = "wait" /\ UNCHANGED <<drain, ask, session, ui, log>>
  BY DEF Wait, WorkerAt
<1>3. CASE HasWork(w)
  <2>. DEFINE a == ~w.stop
  <2>1. w' = [w EXCEPT !.active = a] /\ a \in BOOLEAN /\ sleeping' = sleeping
    BY <1>1, <1>3 DEF Wait, WType
  <2>2. worker' = [worker EXCEPT !.pc = IF w.stop THEN "stopping" ELSE "pick"]
    BY <1>3 DEF Wait, WorkerGoes
  <2>3. /\ worker'.pc = IF w.stop THEN "stopping" ELSE "pick"
        /\ worker'.turn = worker.turn /\ worker'.chain = worker.chain
        /\ worker'.rounds = worker.rounds
    BY <1>1, <2>2 DEF WorkerType
  <2>4. w'.active <=> ~w.stop
    BY <1>1, <2>1 DEF WType
  <2>. HIDE DEF a
  <2>5. /\ w'.paused = w.paused /\ w'.stop = w.stop /\ w'.cmd = w.cmd
        /\ w'.interrupt = w.interrupt /\ w'.requests = w.requests
        /\ w'.initialized = w.initialized /\ w'.state = w.state
    BY <1>1, <2>1 DEF WType
  <2>. QED BY <1>2, <1>3, <2>1, <2>3, <2>4, <2>5
<1>4. CASE ~HasWork(w)
  BY <1>2, <1>4 DEF Wait
<1>. QED BY <1>3, <1>4

LEMMA PickFacts ==
    ASSUME TypesOK, Pick
    PROVE  /\ worker.pc = "pick" /\ UNCHANGED <<drain, ask, sleeping, session, ui, log>>
           /\ w'.paused = w.paused /\ w'.stop = w.stop /\ w'.active = w.active
           /\ w'.interrupt = w.interrupt /\ w'.requests = w.requests
           /\ w'.initialized = w.initialized /\ w'.state = w.state
           /\ \/ /\ w.stop /\ w' = w
                 /\ worker'.pc = "stopping" /\ worker'.turn = worker.turn
                 /\ worker'.chain = worker.chain /\ worker'.rounds = worker.rounds
              \/ /\ w' = w /\ Len(worker'.chain) = 1
                 /\ worker'.pc = "deferred" /\ worker'.turn = worker.turn
                 /\ worker'.rounds = worker.rounds
              \/ /\ w.cmd # <<>> \/ w.requests = {}
                 /\ w'.cmd = <<>> /\ worker'.pc = "admit" /\ worker'.turn = w.cmd
                 /\ worker'.chain = worker.chain /\ worker'.rounds = 0
<1>1. w \in WType /\ worker \in WorkerType /\ <<>> \in Seq(Nat)
  BY DEF TypesOK
<1>2. worker.pc = "pick" /\ UNCHANGED <<drain, ask, sleeping, session, ui, log>>
  BY DEF Pick, WorkerAt
<1>. DEFINE chains == {<<"power">>, <<"save">>, <<"compact">>}
            taken == [w EXCEPT !.cmd = <<>>]
<1>3. \A c \in chains : Len(c) = 1
  OBVIOUS
<1>4. \/ w.stop /\ w' = w /\ WorkerGoes("stopping")
      \/ w' = w /\ \E c \in chains : worker' = [worker EXCEPT !.pc = "deferred", !.chain = c]
      \/ /\ w.cmd # <<>> \/ w.requests = {}
         /\ w' = Wake(taken)
         /\ worker' = [worker EXCEPT !.pc = "admit", !.turn = w.cmd, !.rounds = 0]
  BY DEF Pick
<1>5. /\ taken \in WType /\ taken.paused = w.paused /\ taken.stop = w.stop
      /\ taken.active = w.active /\ taken.interrupt = w.interrupt
      /\ taken.requests = w.requests /\ taken.cmd = <<>>
      /\ taken.initialized = w.initialized /\ taken.state = w.state
  BY <1>1 DEF WType
<1>. HIDE DEF chains, taken
<1>6. CASE w.stop /\ w' = w /\ WorkerGoes("stopping")
  BY <1>1, <1>2, <1>6 DEF WorkerGoes, WorkerType
<1>7. CASE w' = w /\ \E c \in chains : worker' = [worker EXCEPT !.pc = "deferred", !.chain = c]
  BY <1>1, <1>2, <1>3, <1>7 DEF WorkerType
<1>8. CASE /\ w.cmd # <<>> \/ w.requests = {}
           /\ w' = Wake(taken)
           /\ worker' = [worker EXCEPT !.pc = "admit", !.turn = w.cmd, !.rounds = 0]
  <2>1. /\ worker'.pc = "admit" /\ worker'.turn = w.cmd
        /\ worker'.chain = worker.chain /\ worker'.rounds = 0
    BY <1>1, <1>8 DEF WorkerType
  <2>. QED BY <1>2, <1>5, <1>8, <2>1, WakeFacts
<1>. QED BY <1>4, <1>6, <1>7, <1>8

LEMMA RequestDrainFacts ==
    ASSUME TypesOK, RequestDrain
    PROVE  /\ worker.pc = "observe" /\ UNCHANGED <<ask, session, ui>>
           /\ w'.paused = w.paused /\ w'.stop = w.stop /\ w'.active = w.active
           /\ w'.interrupt = w.interrupt /\ w'.requests = w.requests /\ w'.cmd = w.cmd
           /\ w'.initialized = w.initialized /\ w'.state = w.state
           /\ log'.typed = log.typed /\ log'.interrupts = log.interrupts
           /\ log'.gone = log.gone /\ log'.asked = log.asked
           /\ log'.lost = log.lost \union ToSet(drain.text)
           /\ drain'.text = <<>> /\ ~drain'.answered
           /\ worker'.turn = worker.turn /\ worker'.chain = worker.chain
           /\ \/ /\ Cancelled /\ ~drain'.pending /\ sleeping' = sleeping
                 /\ worker'.pc = "round" /\ worker'.rounds = worker.rounds + 1
              \/ /\ ~Cancelled /\ drain'.pending
                 /\ sleeping' = (sleeping \ {"ui"}) \union {"worker"}
                 /\ worker'.pc = "draining" /\ worker'.rounds = worker.rounds
<1>1. w \in WType /\ worker \in WorkerType /\ log \in LogType
  BY DEF TypesOK
<1>2. worker.pc = "observe" /\ UNCHANGED <<ask, session, ui>>
  BY DEF RequestDrain, WorkerAt
<1>3. w' = Wake(w) /\ log' = [log EXCEPT !.lost = log.lost \union ToSet(drain.text)]
  BY DEF RequestDrain
<1>4. /\ log'.typed = log.typed /\ log'.interrupts = log.interrupts
      /\ log'.gone = log.gone /\ log'.asked = log.asked
      /\ log'.lost = log.lost \union ToSet(drain.text)
  BY <1>1, <1>3 DEF LogType
<1>5. CASE Cancelled
  <2>1. /\ drain' = NoDrain /\ sleeping' = sleeping
        /\ worker' = [worker EXCEPT !.pc = "round", !.rounds = worker.rounds + 1]
    BY <1>5 DEF RequestDrain
  <2>2. /\ worker'.turn = worker.turn /\ worker'.chain = worker.chain
        /\ worker'.pc = "round" /\ worker'.rounds = worker.rounds + 1
    BY <1>1, <2>1 DEF WorkerType
  <2>3. drain'.text = <<>> /\ ~drain'.answered /\ ~drain'.pending
    BY <2>1 DEF NoDrain
  <2>. QED BY <1>1, <1>2, <1>3, <1>4, <1>5, <2>1, <2>2, <2>3, WakeFacts
<1>6. CASE ~Cancelled
  <2>1. /\ drain' = [NoDrain EXCEPT !.pending = TRUE]
        /\ sleeping' = (sleeping \ {"ui"}) \union {"worker"}
        /\ worker' = [worker EXCEPT !.pc = "draining"]
    BY <1>6 DEF RequestDrain, WorkerGoes
  <2>2. /\ worker'.turn = worker.turn /\ worker'.chain = worker.chain
        /\ worker'.pc = "draining" /\ worker'.rounds = worker.rounds
    BY <1>1, <2>1 DEF WorkerType
  <2>3. drain'.text = <<>> /\ ~drain'.answered /\ drain'.pending
    BY <2>1 DEF NoDrain
  <2>. QED BY <1>1, <1>2, <1>3, <1>4, <1>6, <2>1, <2>2, <2>3, WakeFacts
<1>. QED BY <1>5, <1>6

LEMMA DrainEndsFacts ==
    ASSUME TypesOK, DrainEnds
    PROVE  /\ worker.pc = "draining" /\ UNCHANGED <<w, ask, session, ui, log>>
           /\ worker'.chain = worker.chain
           /\ \/ /\ Cancelled \/ drain.answered
                 /\ drain'.text = <<>> /\ ~drain'.answered /\ ~drain'.pending
                 /\ worker'.pc = IF drain.text = <<>> THEN "round" ELSE "admit"
                 /\ worker'.turn = drain.text /\ worker'.rounds = worker.rounds + 1
                 /\ sleeping' = sleeping
              \/ /\ ~Cancelled /\ ~drain.answered /\ drain' = drain /\ worker' = worker
                 /\ sleeping' = sleeping \union {"worker"}
<1>1. worker \in WorkerType
  BY DEF TypesOK
<1>2. worker.pc = "draining" /\ UNCHANGED <<w, ask, session, ui, log>>
  BY DEF DrainEnds, WorkerAt
<1>3. CASE Cancelled \/ drain.answered
  <2>1. PICK pc \in {IF drain.text = <<>> THEN "round" ELSE "admit"} :
          worker' = [worker EXCEPT !.pc = pc, !.turn = drain.text,
                                   !.rounds = worker.rounds + 1]
    BY <1>3 DEF DrainEnds
  <2>2. drain' = NoDrain /\ sleeping' = sleeping
    BY <1>3 DEF DrainEnds
  <2>3. /\ worker'.chain = worker.chain /\ worker'.turn = drain.text
        /\ worker'.pc = pc /\ worker'.rounds = worker.rounds + 1
    BY <1>1, <2>1 DEF WorkerType
  <2>4. drain'.text = <<>> /\ ~drain'.answered /\ ~drain'.pending
    BY <2>2 DEF NoDrain
  <2>. QED BY <1>2, <1>3, <2>1, <2>2, <2>3, <2>4
<1>4. CASE ~(Cancelled \/ drain.answered)
  BY <1>2, <1>4 DEF DrainEnds
<1>. QED BY <1>3, <1>4

LEMMA CompactedFacts ==
    ASSUME TypesOK, Compacted
    PROVE  /\ worker.pc = "compacting" /\ UNCHANGED <<drain, ask, sleeping, ui, log>>
           /\ w'.paused = w.paused /\ w'.stop = w.stop /\ w'.active = w.active
           /\ w'.requests = w.requests /\ w'.cmd = w.cmd /\ w'.initialized = w.initialized
           /\ w'.interrupt = w.interrupt \/ (Cancelled /\ ~w'.interrupt)
           /\ worker'.turn = worker.turn /\ worker'.chain = worker.chain
           /\ worker'.pc = "deferred" /\ worker'.rounds = worker.rounds
           /\ session' = session \/ session' = [session EXCEPT !.dirty = TRUE]
<1>1. w \in WType /\ worker \in WorkerType
  BY DEF TypesOK
<1>2. worker.pc = "compacting" /\ UNCHANGED <<drain, ask, sleeping, ui, log>>
  BY DEF Compacted, WorkerAt
<1>3. \/ w' = SetState(w, "IDLE") \/ w' = SetState(w, "ERROR")
      \/ Cancelled /\ w' = SetState([w EXCEPT !.interrupt = FALSE], "IDLE")
  BY DEF Compacted
<1>. DEFINE q == [w EXCEPT !.interrupt = FALSE]
<1>4. /\ q \in WType /\ q.paused = w.paused /\ q.stop = w.stop /\ q.active = w.active
      /\ q.requests = w.requests /\ q.cmd = w.cmd /\ ~q.interrupt
      /\ q.initialized = w.initialized
  BY <1>1 DEF WType
<1>. HIDE DEF q
<1>5. /\ w'.paused = w.paused /\ w'.stop = w.stop /\ w'.active = w.active
      /\ w'.requests = w.requests /\ w'.cmd = w.cmd /\ w'.initialized = w.initialized
      /\ w'.interrupt = w.interrupt \/ (Cancelled /\ ~w'.interrupt)
  <2>1. CASE w' = SetState(w, "IDLE") \/ w' = SetState(w, "ERROR")
    BY <1>1, <2>1, StateFacts
  <2>2. CASE Cancelled /\ w' = SetState(q, "IDLE")
    BY <1>4, <2>2, StateFacts
  <2>. QED BY <1>3, <2>1, <2>2 DEF q
<1>6. session' = session \/ session' = [session EXCEPT !.dirty = TRUE]
  BY DEF Compacted
<1>7. /\ worker'.turn = worker.turn /\ worker'.chain = worker.chain
      /\ worker'.pc = "deferred" /\ worker'.rounds = worker.rounds
  BY <1>1 DEF Compacted, WorkerGoes, WorkerType
<1>. QED BY <1>2, <1>5, <1>6, <1>7

LEMMA TakeDeferredFacts ==
    ASSUME TypesOK, TakeDeferred
    PROVE  /\ worker.pc = "deferred" /\ UNCHANGED <<drain, ask, sleeping, session, ui, log>>
           /\ w'.paused = w.paused /\ w'.stop = w.stop /\ w'.active = w.active
           /\ w'.interrupt = w.interrupt /\ w'.cmd = w.cmd
           /\ w'.initialized = w.initialized /\ w'.requests \subseteq w.requests
           /\ worker'.turn = worker.turn /\ worker'.rounds = worker.rounds
           /\ worker'.pc \in {"deferred", "saving", "compacting"}
           /\ Len(worker'.chain) <= Len(worker.chain)
           /\ \E op \in w.requests : op = "power" \/ ~w.paused
<1>1. w \in WType /\ worker \in WorkerType
  BY DEF TypesOK
<1>2. worker.pc = "deferred" /\ UNCHANGED <<drain, ask, sleeping, session, ui, log>>
  BY DEF TakeDeferred, WorkerAt
<1>. DEFINE r == w.requests \ {worker.chain[NextDue]}
            taken == [w EXCEPT !.requests = r]
            c == SubSeq(worker.chain, NextDue + 1, Len(worker.chain))
<1>3. w' = Wake(taken) \/ w' = SetState(taken, "BUSY")
  BY DEF TakeDeferred
<1>4. PICK pc \in {"deferred", "saving", "compacting"} :
        worker' = [worker EXCEPT !.chain = c, !.pc = pc]
  BY DEF TakeDeferred
<1>5. Len(c) <= Len(worker.chain) /\ Due(worker.chain[NextDue])
  BY <1>1, DueFacts
<1>6. \E op \in w.requests : op = "power" \/ ~w.paused
  BY <1>5 DEF Due
<1>. HIDE DEF c
<1>7. /\ worker'.turn = worker.turn /\ worker'.rounds = worker.rounds
      /\ worker'.pc = pc /\ worker'.chain = c
  BY <1>1, <1>4 DEF WorkerType
<1>8. r \subseteq w.requests
  OBVIOUS
<1>. HIDE DEF r
<1>9. /\ taken \in WType /\ taken.paused = w.paused /\ taken.stop = w.stop
      /\ taken.active = w.active /\ taken.interrupt = w.interrupt /\ taken.cmd = w.cmd
      /\ taken.initialized = w.initialized /\ taken.requests = r
  BY <1>1, <1>8 DEF WType
<1>. HIDE DEF taken
<1>. QED BY <1>2, <1>3, <1>4, <1>5, <1>6, <1>7, <1>8, <1>9, WakeFacts, StateFacts

LEMMA PauseFacts ==
    ASSUME TypesOK, Pause \/ PauseEnds
    PROVE  /\ UNCHANGED <<drain, ask, worker, session>>
           /\ Pause => ui.pc = "pause"
           /\ PauseEnds => ui.pc = "pausing" /\ log' = log
           /\ ui'.mode = ui.mode /\ ui'.req = ui.req /\ ui'.hand = ui.hand
           /\ ui'.input = ui.input /\ ui'.queue = ui.queue /\ ui'.initial = ui.initial
           /\ w'.active = w.active /\ w'.stop = w.stop /\ w'.requests = w.requests
           /\ w'.cmd = w.cmd /\ w'.initialized = w.initialized /\ w'.state = w.state
           /\ log'.typed = log.typed /\ log'.interrupts = log.interrupts
           /\ log'.gone = log.gone /\ log'.lost = log.lost
           /\ w'.paused \/ (PauseEnds /\ w'.paused = w.paused)
           /\ \/ /\ Holds /\ ui'.pc = "pausing" /\ Pause
                 /\ w'.interrupt /\ log'.asked /\ sleeping' = {"ui"}
              \/ /\ Holds /\ ui'.pc = "pausing" /\ PauseEnds /\ w' = w
                 /\ sleeping' = sleeping \union {"ui"}
              \/ /\ ~Holds /\ ui'.pc = "leaving" /\ ~w'.interrupt
                 /\ sleeping' \subseteq sleeping
<1>1. w \in WType /\ ui \in UiType /\ log \in LogType
  BY DEF TypesOK
<1>. DEFINE UiTo(pc) ==
              /\ ui'.mode = ui.mode /\ ui'.req = ui.req /\ ui'.hand = ui.hand
              /\ ui'.input = ui.input /\ ui'.queue = ui.queue /\ ui'.initial = ui.initial
              /\ ui'.pc = pc
            WSame ==
              /\ w'.active = w.active /\ w'.stop = w.stop /\ w'.requests = w.requests
              /\ w'.cmd = w.cmd /\ w'.initialized = w.initialized /\ w'.state = w.state
<1>2. UNCHANGED <<drain, ask, worker, session>>
  BY DEF Pause, PauseEnds
<1>3. /\ Pause => ui.pc = "pause" /\ log' = [log EXCEPT !.asked = log.asked \/ Holds]
      /\ PauseEnds => ui.pc = "pausing" /\ log' = log
  BY DEF Pause, PauseEnds, UiAt
<1>4. /\ log'.typed = log.typed /\ log'.interrupts = log.interrupts
      /\ log'.gone = log.gone /\ log'.lost = log.lost
      /\ Pause => (log'.asked <=> log.asked \/ Holds)
  BY <1>1, <1>3 DEF LogType
<1>5. \A pc : UiGoes(pc) => UiTo(pc)
  BY <1>1 DEF UiGoes, UiType
<1>6. Holds \in BOOLEAN /\ (w.interrupt \/ Holds) \in BOOLEAN
  BY DEF Holds
<1>7. CASE Pause /\ Holds
  <2>1. w' = Paused /\ sleeping' = {"ui"} /\ UiTo("pausing")
    BY <1>5, <1>7 DEF Pause
  <2>2. w' = [w EXCEPT !.paused = TRUE, !.interrupt = TRUE]
    BY <1>7, <2>1 DEF Paused
  <2>3. WSame /\ w'.paused /\ w'.interrupt
    BY <1>1, <2>2 DEF WType
  <2>. QED BY <1>2, <1>3, <1>4, <1>7, <2>1, <2>3
<1>8. CASE Pause /\ ~Holds
  <2>1. w' = [Paused EXCEPT !.interrupt = FALSE] /\ sleeping' = {} /\ UiTo("leaving")
    BY <1>5, <1>8 DEF Pause, Broadcast
  <2>2. WSame /\ w'.paused /\ ~w'.interrupt
    BY <1>1, <1>6, <2>1 DEF Paused, WType
  <2>. QED BY <1>2, <1>3, <1>4, <1>8, <2>1, <2>2
<1>9. CASE PauseEnds /\ Holds
  BY <1>2, <1>3, <1>4, <1>9 DEF PauseEnds
<1>10. CASE PauseEnds /\ ~Holds
  <2>1. w' = [w EXCEPT !.interrupt = FALSE] /\ sleeping' = sleeping /\ UiTo("leaving")
    BY <1>5, <1>10 DEF PauseEnds
  <2>2. WSame /\ w'.paused = w.paused /\ ~w'.interrupt
    BY <1>1, <2>1 DEF WType
  <2>. QED BY <1>2, <1>3, <1>4, <1>10, <2>1, <2>2
<1>. QED BY <1>7, <1>8, <1>9, <1>10

LEMMA UiNewFacts ==
    ASSUME TypesOK, UiNew
    PROVE  /\ ui.pc = "new" /\ UNCHANGED <<drain, ask, sleeping, worker>>
           /\ ui'.mode = ui.mode /\ ui'.req = ui.req /\ ui'.hand = ui.hand
           /\ ui'.input = ui.input /\ ui'.queue = ui.queue /\ ui'.initial = ui.initial
           /\ ui'.pc = "consume"
           /\ w'.paused = w.paused /\ w'.stop = w.stop /\ w'.active = w.active
           /\ w'.interrupt = w.interrupt /\ w'.requests = w.requests /\ w'.cmd = w.cmd
           /\ w'.initialized = w.initialized
           /\ log'.typed = log.typed /\ log'.interrupts = log.interrupts
           /\ log'.asked = log.asked /\ log'.lost = log.lost
           /\ \/ session'.transcript = session.transcript /\ log'.gone = log.gone
                 /\ (session' = session \/ (session.activity /\ session' = Written))
              \/ session'.transcript = <<>>
                 /\ log'.gone = log.gone \union ToSet(session.transcript)
<1>1. w \in WType /\ ui \in UiType /\ log \in LogType /\ session \in SessionType
  BY DEF TypesOK
<1>2. ui.pc = "new" /\ UNCHANGED <<drain, ask, sleeping, worker>>
  BY DEF UiNew, UiAt
<1>3. /\ ui'.mode = ui.mode /\ ui'.req = ui.req /\ ui'.hand = ui.hand
      /\ ui'.input = ui.input /\ ui'.queue = ui.queue /\ ui'.initial = ui.initial
      /\ ui'.pc = "consume"
  BY <1>1 DEF UiNew, UiGoes, UiType
<1>4. PICK before \in {session} \union (IF session.activity THEN {Written} ELSE {}) :
        \/ session' = before /\ UNCHANGED <<w, log>>
        \/ /\ log' = [log EXCEPT !.gone = log.gone \union ToSet(session.transcript)]
           /\ session' = EmptySession \/ session' = [before EXCEPT !.transcript = <<>>]
           /\ \E s \in {"IDLE", "BUSY"} : w' = SetState(w, s)
  BY DEF UiNew
<1>5. before = session \/ (session.activity /\ before = Written)
  BY <1>4
<1>6. before \in SessionType /\ before.transcript = session.transcript
  BY <1>1, <1>5 DEF Written, SessionType
<1>7. w' = w \/ \E s \in {"IDLE", "BUSY"} : w' = SetState(w, s)
  BY <1>4
<1>8. /\ w'.paused = w.paused /\ w'.stop = w.stop /\ w'.active = w.active
      /\ w'.interrupt = w.interrupt /\ w'.requests = w.requests /\ w'.cmd = w.cmd
      /\ w'.initialized = w.initialized
  BY <1>1, <1>7, StateFacts
<1>9. CASE session' = before /\ UNCHANGED <<w, log>>
  BY <1>2, <1>3, <1>5, <1>6, <1>8, <1>9
<1>10. CASE /\ log' = [log EXCEPT !.gone = log.gone \union ToSet(session.transcript)]
            /\ session' = EmptySession \/ session' = [before EXCEPT !.transcript = <<>>]
  <2>1. /\ log'.typed = log.typed /\ log'.interrupts = log.interrupts
        /\ log'.asked = log.asked /\ log'.lost = log.lost
        /\ log'.gone = log.gone \union ToSet(session.transcript)
    BY <1>1, <1>10 DEF LogType
  <2>2. session'.transcript = <<>>
    BY <1>6, <1>10 DEF EmptySession, SessionType
  <2>. QED BY <1>2, <1>3, <1>8, <2>1, <2>2
<1>. QED BY <1>4, <1>9, <1>10

\* What no step of the worker does: it stops, resumes and asks for nothing by
\* itself, and only a parked one begins or ends holding the session.
LEMMA WorkerStepFacts ==
    ASSUME TypesOK, WorkerNext
    PROVE  /\ ui' = ui
           /\ w'.paused = w.paused /\ w'.stop = w.stop /\ w'.requests \subseteq w.requests
           /\ w'.interrupt => w.interrupt
           /\ w'.cmd = w.cmd \/ Pick
           /\ (w'.active <=> w.active) \/ Park \/ Wait
<1>1. w \in WType
  BY DEF TypesOK
<1>. DEFINE Rest(r) == /\ r.paused = w.paused /\ r.stop = w.stop /\ r.requests = w.requests
                       /\ r.interrupt => w.interrupt
                       /\ r.cmd = w.cmd /\ r.active = w.active
<1>2. ui' = ui
  BY DEF WorkerNext, Boot, Park, Wait, Pick, Stopping, TurnInterrupted, TurnFails, AppendUser,
         Prefilled, Generated, Answered, ToolRuns, Ask, AskEnds, RequestDrain, DrainEnds,
         TakeDeferred, Compacted, Saved
<1>3. CASE Wait
  BY <1>2, <1>3, WaitFacts
<1>4. CASE Pick
  BY <1>2, <1>4, PickFacts
<1>5. CASE TakeDeferred
  BY <1>2, <1>5, TakeDeferredFacts
<1>6. CASE Park
  <2>. DEFINE q == [w EXCEPT !.active = HasWork(w) /\ ~w.stop]
  <2>1. w' = Wake(q)
    BY <1>6 DEF Park
  <2>2. /\ q \in WType /\ q.paused = w.paused /\ q.stop = w.stop
        /\ q.requests = w.requests /\ q.interrupt = w.interrupt /\ q.cmd = w.cmd
    BY <1>1 DEF WType, HasWork
  <2>. HIDE DEF q
  <2>. QED BY <1>2, <1>6, <2>1, <2>2, WakeFacts
<1>7. CASE Generated \/ ToolRuns \/ AskEnds \/ DrainEnds
  <2>1. w' = w
    BY <1>7 DEF Generated, ToolRuns, AskEnds, DrainEnds
  <2>. QED BY <1>2, <2>1
<1>8. CASE AppendUser \/ Ask \/ RequestDrain
  <2>1. w' = Wake(w)
    BY <1>8 DEF AppendUser, Ask, RequestDrain
  <2>. QED BY <1>1, <1>2, <2>1, WakeFacts
<1>9. CASE Stopping \/ TurnFails \/ Prefilled \/ Answered \/ Saved
  <2>1. \E s \in {"IDLE", "BUSY", "ERROR", "STOPPED"} : w' = SetState(w, s)
    BY <1>9 DEF Stopping, TurnFails, Prefilled, Answered, Saved
  <2>. QED BY <1>1, <1>2, <2>1, StateFacts
<1>10. CASE Boot \/ TurnInterrupted
  <2>1. PICK q \in {[w EXCEPT !.initialized = TRUE], [w EXCEPT !.interrupt = FALSE]},
             s \in {"IDLE", "ERROR"} : w' = SetState(q, s)
    BY <1>10 DEF Boot, TurnInterrupted
  <2>2. q \in WType /\ Rest(q)
    BY <1>1 DEF WType
  <2>3. Rest(SetState(q, s))
    BY <2>2, StateFacts
  <2>. QED BY <1>2, <2>1, <2>3
<1>11. CASE Compacted
  BY <1>2, <1>11, CompactedFacts
<1>. QED BY <1>3, <1>4, <1>5, <1>6, <1>7, <1>8, <1>9, <1>10, <1>11 DEF WorkerNext

\* What no step of the UI does.
LEMMA UiStepFacts ==
    ASSUME TypesOK, UiNext \/ UserNext
    PROVE  /\ worker' = worker /\ ui'.mode = ui.mode
           /\ w'.active = w.active
           /\ (w'.stop <=> w.stop) \/ (Stop /\ w'.stop)
           /\ session' = session \/ UiSave \/ UiNew \/ LeaveClean
           /\ w'.requests = w.requests \/ RequestSave \/ TypeRequest
           /\ w.requests \subseteq w'.requests
           /\ w'.cmd = w.cmd \/ CanSubmit(w)
<1>1. w \in WType /\ ui \in UiType
  BY DEF TypesOK
<1>2. CASE SubmitQueue \/ BatchTop \/ TakeInput \/ TypePrompt
  BY <1>1, <1>2, SubmittingFacts
<1>3. CASE Pause \/ PauseEnds
  BY <1>3, PauseFacts
<1>4. CASE UiNew
  BY <1>4, UiNewFacts
<1>5. CASE DrainFd \/ Consume \/ ResetError \/ Interrupt \/ LeaveCancelled \/ Stop
  <2>1. worker' = worker /\ session' = session
    BY <1>5 DEF DrainFd, Consume, ResetError, Interrupt, LeaveCancelled, Stop
  <2>2. \/ w' = [w EXCEPT !.pipe = FALSE] \/ w' = [w EXCEPT !.wakePending = FALSE]
        \/ w' = [w EXCEPT !.state = "IDLE"] \/ w' = [w EXCEPT !.interrupt = TRUE]
        \/ w' = [w EXCEPT !.paused = FALSE] \/ (Stop /\ w' = [w EXCEPT !.stop = TRUE])
    BY <1>5 DEF DrainFd, Consume, ResetError, Interrupt, LeaveCancelled, Stop
  <2>3. /\ w'.active = w.active /\ w'.requests = w.requests /\ w'.cmd = w.cmd
        /\ w'.stop = w.stop \/ (Stop /\ w'.stop)
    BY <1>1, <2>2 DEF WType
  <2>4. \/ \E pc \in {"consume", "serve", "joining"} : ui' = [ui EXCEPT !.pc = pc]
        \/ \E pc \in {"reset", "serve"}, e \in BOOLEAN : ui' = [ui EXCEPT !.error = e, !.pc = pc]
    BY <1>5 DEF DrainFd, Consume, ResetError, Interrupt, LeaveCancelled, Stop, UiGoes
  <2>5. ui'.mode = ui.mode
    BY <1>1, <2>4 DEF UiType
  <2>. QED BY <2>1, <2>3, <2>5
<1>6. CASE RequestSave \/ TypeRequest
  <2>1. PICK r \in Ops : w' = Wake([w EXCEPT !.requests = w.requests \union {r}])
    BY <1>6 DEF RequestSave, TypeRequest, Requests, Ops
  <2>. DEFINE q == [w EXCEPT !.requests = w.requests \union {r}]
  <2>2. /\ q \in WType /\ q.active = w.active /\ q.stop = w.stop
        /\ q.cmd = w.cmd /\ w.requests \subseteq q.requests
    BY <1>1 DEF WType, Ops
  <2>. HIDE DEF q
  <2>3. /\ w'.active = w.active /\ w'.stop = w.stop /\ w'.cmd = w.cmd
        /\ w.requests \subseteq w'.requests
    BY <2>1, <2>2, WakeFacts DEF q
  <2>4. worker' = worker /\ session' = session /\ ui' = [ui EXCEPT !.pc = "consume"]
    BY <1>6 DEF RequestSave, TypeRequest, Requests, UiGoes
  <2>5. ui'.mode = ui.mode
    BY <1>1, <2>4 DEF UiType
  <2>. QED BY <1>6, <2>3, <2>4, <2>5
<1>7. CASE AnswerDrain \/ AnswerAsk
  <2>1. w' = Wake(w) /\ worker' = worker /\ session' = session
    BY <1>7 DEF AnswerDrain, AnswerAsk
  <2>2. \/ ui' = [ui EXCEPT !.pc = "consume"]
        \/ \E pc \in {"consume", "input"} : ui' = [ui EXCEPT !.pc = pc, !.hand = <<>>]
    BY <1>7 DEF AnswerDrain, AnswerAsk, UiGoes
  <2>3. ui'.mode = ui.mode
    BY <1>1, <2>2 DEF UiType
  <2>. QED BY <1>1, <2>1, <2>3, WakeFacts
<1>8. CASE \/ NoLine \/ UiSave \/ LeaveClean \/ LeaveNow \/ Join \/ PollWake \/ BatchEnd
           \/ CtrlC \/ TypeSessionCommand \/ TypeExit
  <2>1. w' = w /\ worker' = worker /\ (session' = session \/ UiSave \/ LeaveClean)
    BY <1>8 DEF NoLine, UiSave, LeaveClean, LeaveNow, Join, PollWake, BatchEnd, CtrlC,
                TypeSessionCommand, TypeExit
  <2>2. PICK pc : ui' = [ui EXCEPT !.pc = pc]
    BY <1>8 DEF NoLine, UiSave, LeaveClean, LeaveNow, Join, PollWake, BatchEnd, CtrlC,
                TypeSessionCommand, TypeExit, UiGoes
  <2>3. ui'.mode = ui.mode
    BY <1>1, <2>2 DEF UiType
  <2>. QED BY <2>1, <2>3
<1>9. CASE TakeDrain \/ TakeAsk \/ PollInput
  <2>1. w' = w /\ worker' = worker /\ session' = session
    BY <1>9 DEF TakeDrain, TakeAsk, PollInput
  <2>2. \E pc : \/ ui' = [ui EXCEPT !.pc = pc, !.hand = ui.queue, !.queue = <<>>]
                \/ ui' = [ui EXCEPT !.pc = pc, !.req = ask.n]
                \/ ui' = [ui EXCEPT !.pc = pc, !.input = <<log.typed + 1>>]
                \/ ui' = [ui EXCEPT !.pc = pc, !.eof = TRUE]
    BY <1>9 DEF TakeDrain, TakeAsk, PollInput
  <2>3. ui'.mode = ui.mode
    BY <1>1, <2>2 DEF UiType
  <2>. QED BY <2>1, <2>3
<1>. QED BY <1>2, <1>3, <1>4, <1>5, <1>6, <1>7, <1>8, <1>9 DEF UiNext, UserNext

\* What keeps the bounds of TypeOK.
LEMMA BoundsKept ==
    ASSUME AgentInv, Next
    PROVE  BoundsOK'
<1>1. TypesOK /\ BoundsOK /\ w \in WType /\ worker \in WorkerType /\ ui \in UiType /\ ask \in AskType /\ log \in LogType
  BY DEF AgentInv, TypesOK
<1>2. CASE Wait
  BY <1>1, <1>2, WaitFacts DEF BoundsOK
<1>3. CASE RequestDrain
  BY <1>1, <1>3, RequestDrainFacts DEF BoundsOK
<1>4. CASE DrainEnds
  BY <1>1, <1>4, DrainEndsFacts DEF BoundsOK
<1>5. CASE TakeDeferred
  BY <1>1, <1>5, TakeDeferredFacts DEF BoundsOK
<1>6. CASE UiNew
  BY <1>1, <1>6, UiNewFacts DEF BoundsOK
<1>7. CASE Pause \/ PauseEnds
  BY <1>1, <1>7, PauseFacts DEF BoundsOK
<1>8. CASE SubmitQueue \/ BatchTop \/ TakeInput \/ TypePrompt
  BY <1>1, <1>8, SubmittingFacts DEF BoundsOK
<1>9. CASE Pick
  <2>1. /\ UNCHANGED <<ask, ui, log>> /\ Len(worker'.chain) <= 3
        /\ worker'.pc \in {"stopping", "deferred", "admit"}
    BY <1>1, <1>9, PickFacts DEF BoundsOK
  <2>. QED BY <1>1, <2>1 DEF BoundsOK
<1>10. CASE Generated
  <2>1. /\ worker'.chain = worker.chain /\ UNCHANGED <<ask, ui, log>>
        /\ worker'.pc \in {"answered", "tool", "round"}
        /\ worker'.pc = "tool" => worker'.rounds = worker.rounds /\ worker.rounds < MaxRounds
    BY <1>1, <1>10 DEF Generated, WorkerGoes, WorkerType
  <2>. QED BY <1>1, <2>1 DEF BoundsOK
<1>11. CASE AskEnds
  <2>1. /\ worker'.chain = worker.chain /\ worker'.rounds = worker.rounds
        /\ worker.pc = "asking" /\ worker'.pc \in {"asking", "observe"} /\ UNCHANGED <<ui, log>>
        /\ ask'.n = ask.n /\ ask'.from = ask.from
    BY <1>1, <1>11 DEF AskEnds, WorkerAt, WorkerGoes, WorkerType, AskType
  <2>. QED BY <1>1, <2>1 DEF BoundsOK
<1>12. CASE PollInput
  <2>1. /\ UNCHANGED <<worker, ask>> /\ ui'.req = ui.req /\ ui'.pc # "interrupt"
        /\ log'.interrupts = log.interrupts
    <3>1. UNCHANGED <<worker, ask>> /\ (log' = log \/ log' = [log EXCEPT !.typed = log.typed + 1])
      BY <1>12 DEF PollInput
    <3>2. \E pc \in {"drainfd", "consume"} :
            \/ ui' = [ui EXCEPT !.pc = pc, !.input = <<log.typed + 1>>]
            \/ ui' = [ui EXCEPT !.pc = pc, !.eof = TRUE]
      BY <1>12 DEF PollInput
    <3>3. ui'.req = ui.req /\ ui'.pc # "interrupt"
      BY <1>1, <3>2 DEF UiType
    <3>4. log'.interrupts = log.interrupts
      BY <1>1, <3>1 DEF LogType
    <3>. QED BY <3>1, <3>3, <3>4
  <2>. QED BY <1>1, <2>1 DEF BoundsOK
<1>13. CASE Boot
  BY <1>1, <1>13 DEF Boot, WorkerAt, Awake, Cancelled, SetState, Wake,
     WorkerGoes, BoundsOK, AskType, WorkerType, LogType, UiType
<1>14. CASE Park
  BY <1>1, <1>14 DEF Park, WorkerAt, Awake, NothingDue, Due, HasWork, Wake,
     BoundsOK, AskType, WorkerType, LogType, UiType
<1>15. CASE Stopping
  BY <1>1, <1>15 DEF Stopping, WorkerAt, Awake, SetState, Wake, WorkerGoes,
     BoundsOK, AskType, WorkerType, LogType, UiType
<1>16. CASE TurnInterrupted
  BY <1>1, <1>16 DEF TurnInterrupted, TurnPcs, WorkerAt, Awake, Cancelled,
     SetState, Wake, AfterTurn, BoundsOK, AskType, WorkerType, LogType, UiType
<1>17. CASE TurnFails
  BY <1>1, <1>17 DEF TurnFails, TurnPcs, WorkerAt, Awake, SetState, Wake,
     AfterTurn, BoundsOK, AskType, WorkerType, LogType, UiType
<1>18. CASE AppendUser
  BY <1>1, <1>18 DEF AppendUser, WorkerAt, Awake, Wake, BoundsOK, AskType,
     WorkerType, LogType, UiType
<1>19. CASE Prefilled
  BY <1>1, <1>19 DEF Prefilled, WorkerAt, Awake, WorkerGoes, SetState, Wake,
     BoundsOK, AskType, WorkerType, LogType, UiType
<1>20. CASE Answered
  BY <1>1, <1>20 DEF Answered, WorkerAt, Awake, SetState, Wake, AfterTurn,
     BoundsOK, AskType, WorkerType, LogType, UiType
<1>21. CASE ToolRuns
  BY <1>1, <1>21 DEF ToolRuns, WorkerAt, Awake, WorkerGoes, BoundsOK, AskType,
     WorkerType, LogType, UiType
<1>22. CASE Ask
  BY <1>1, <1>22 DEF Ask, WorkerAt, Awake, Asked, Cancelled, Wake, WorkerGoes,
     BoundsOK, AskType, WorkerType, LogType, UiType
<1>23. CASE Compacted
  BY <1>1, <1>23 DEF Compacted, WorkerAt, Awake, SetState, Wake, Cancelled,
     WorkerGoes, BoundsOK, AskType, WorkerType, LogType, UiType
<1>24. CASE Saved
  BY <1>1, <1>24 DEF Saved, WorkerAt, Awake, Written, SetState, Wake,
     WorkerGoes, BoundsOK, AskType, WorkerType, LogType, UiType
<1>25. CASE DrainFd
  BY <1>1, <1>25 DEF DrainFd, UiAt, Awake, UiGoes, BoundsOK, AskType,
     WorkerType, LogType, UiType
<1>26. CASE Consume
  BY <1>1, <1>26 DEF Consume, UiAt, Awake, BoundsOK, AskType, WorkerType,
     LogType, UiType
<1>27. CASE ResetError
  BY <1>1, <1>27 DEF ResetError, UiAt, Awake, UiGoes, BoundsOK, AskType,
     WorkerType, LogType, UiType
<1>28. CASE TakeDrain
  BY <1>1, <1>28 DEF TakeDrain, UiAt, Awake, BoundsOK, AskType, WorkerType,
     LogType, UiType
<1>29. CASE AnswerDrain
  BY <1>1, <1>29 DEF AnswerDrain, UiAt, Awake, Wake, Signal, BoundsOK,
     AskType, WorkerType, LogType, UiType
<1>30. CASE Interrupt
  BY <1>1, <1>30 DEF Interrupt, UiAt, Awake, Broadcast, UiGoes, BoundsOK,
     AskType, WorkerType, LogType, UiType
<1>31. CASE TakeAsk
  BY <1>1, <1>31 DEF TakeAsk, UiAt, Awake, BoundsOK, AskType, WorkerType,
     LogType, UiType
<1>32. CASE AnswerAsk
  BY <1>1, <1>32 DEF AnswerAsk, UiAt, Awake, Wake, Signal, UiGoes, BoundsOK,
     AskType, WorkerType, LogType, UiType
<1>33. CASE NoLine
  BY <1>1, <1>33 DEF NoLine, UiAt, Awake, UiGoes, BoundsOK, AskType,
     WorkerType, LogType, UiType
<1>34. CASE RequestSave
  BY <1>1, <1>34 DEF RequestSave, UiAt, Awake, Requests, Wake, Signal, UiGoes,
     BoundsOK, AskType, WorkerType, LogType, UiType
<1>35. CASE UiSave
  BY <1>1, <1>35 DEF UiSave, UiAt, Awake, Written, UiGoes, BoundsOK, AskType,
     WorkerType, LogType, UiType
<1>36. CASE LeaveClean
  BY <1>1, <1>36 DEF LeaveClean, UiAt, Awake, NeedsSave, IsIdle, Written,
     UiGoes, BoundsOK, AskType, WorkerType, LogType, UiType
<1>37. CASE LeaveNow
  BY <1>1, <1>37 DEF LeaveNow, UiAt, Awake, NeedsSave, UiGoes, BoundsOK,
     AskType, WorkerType, LogType, UiType
<1>38. CASE LeaveCancelled
  BY <1>1, <1>38 DEF LeaveCancelled, UiAt, Awake, NeedsSave, Broadcast,
     UiGoes, BoundsOK, AskType, WorkerType, LogType, UiType
<1>39. CASE Stop
  BY <1>1, <1>39 DEF Stop, UiAt, Awake, Broadcast, UiGoes, BoundsOK, AskType,
     WorkerType, LogType, UiType
<1>40. CASE Join
  BY <1>1, <1>40 DEF Join, UiAt, Awake, UiGoes, BoundsOK, AskType, WorkerType,
     LogType, UiType
<1>41. CASE PollWake
  BY <1>1, <1>41 DEF PollWake, UiAt, Awake, UiGoes, BoundsOK, AskType,
     WorkerType, LogType, UiType
<1>42. CASE BatchEnd
  BY <1>1, <1>42 DEF BatchEnd, UiAt, Awake, IsIdle, UiGoes, BoundsOK, AskType,
     WorkerType, LogType, UiType
<1>43. CASE CtrlC
  BY <1>1, <1>43 DEF CtrlC, UiAt, Awake, IsIdle, UiGoes, BoundsOK, AskType,
     WorkerType, LogType, UiType
<1>44. CASE TypeSessionCommand
  BY <1>1, <1>44 DEF TypeSessionCommand, Enters, UiAt, Awake, IsIdle, UiGoes,
     Entered, BoundsOK, AskType, WorkerType, LogType, UiType
<1>45. CASE TypeRequest
  BY <1>1, <1>45 DEF TypeRequest, Enters, UiAt, Awake, Entered, Requests,
     Wake, Signal, UiGoes, BoundsOK, AskType, WorkerType, LogType, UiType
<1>46. CASE TypeExit
  BY <1>1, <1>46 DEF TypeExit, Enters, UiAt, Awake, Entered, UiGoes, BoundsOK,
     AskType, WorkerType, LogType, UiType
<1>. QED BY <1>2, <1>3, <1>4, <1>5, <1>6, <1>7, <1>8, <1>9, <1>10, <1>11, <1>12,
     <1>13, <1>14, <1>15, <1>16, <1>17, <1>18, <1>19, <1>20, <1>21, <1>22,
     <1>23, <1>24, <1>25, <1>26, <1>27, <1>28, <1>29, <1>30, <1>31, <1>32,
     <1>33, <1>34, <1>35, <1>36, <1>37, <1>38, <1>39, <1>40, <1>41, <1>42,
     <1>43, <1>44, <1>45, <1>46 DEF Next, WorkerNext, UiNext, UserNext

\* The worker holds the session exactly while it is active.
LEMMA WorkerKept ==
    ASSUME AgentInv, Next
    PROVE  WorkerOK'
<1>1. TypesOK /\ WorkerOK /\ UiOK /\ BatchOK /\ w \in WType /\ worker \in WorkerType /\ ui \in UiType /\ ask \in AskType /\ log \in LogType
  BY DEF AgentInv, TypesOK
<1>2. CASE DrainFd \/ Consume \/ ResetError \/ TakeDrain \/ AnswerDrain \/
          Interrupt \/ TakeAsk \/ AnswerAsk \/ SubmitQueue \/ NoLine \/
          RequestSave \/ UiSave \/ UiNew \/ Pause \/ PauseEnds \/ LeaveClean
          \/ LeaveNow \/ LeaveCancelled \/ Stop \/ Join \/ BatchTop \/
          PollWake \/ TakeInput \/ BatchEnd \/ CtrlC \/ TypePrompt \/
          TypeSessionCommand \/ TypeRequest \/ TypeExit \/ PollInput
  <2>1. UiNext \/ UserNext
    BY <1>2 DEF UiNext, UserNext
  <2>. QED BY <1>1, <2>1, UiStepFacts
           DEF WorkerOK, WorkerHoldsSession, InTurn, TurnPcs, CanSubmit, Stop
<1>3. CASE Pick
  <2>1. ~w.stop
    BY <1>1, <1>3, PickFacts DEF WorkerOK, WorkerHoldsSession, UiOK, BatchOK, Holds, Closing
  <2>. QED BY <1>1, <1>3, <2>1, PickFacts DEF WorkerOK, WorkerHoldsSession, InTurn, TurnPcs
<1>4. CASE TurnInterrupted \/ TurnFails \/ Answered
  <2>1. worker.pc \in TurnPcs \union {"answered"} /\ worker'.pc = "deferred"
    BY <1>1, <1>4 DEF TurnInterrupted, TurnFails, Answered, WorkerAt, AfterTurn, WorkerType
  <2>. QED BY <1>1, <1>4, <2>1, WorkerStepFacts
           DEF WorkerNext, WorkerOK, WorkerHoldsSession, InTurn, TurnPcs, TurnInterrupted,
               TurnFails, Answered, Pick, Park, Wait, WorkerAt
<1>5. CASE Wait
  BY <1>1, <1>5, WaitFacts DEF WorkerOK, WorkerHoldsSession, InTurn, TurnPcs, HasWork
<1>6. CASE RequestDrain
  BY <1>1, <1>6, RequestDrainFacts DEF WorkerOK, WorkerHoldsSession, InTurn, TurnPcs, HasWork
<1>7. CASE DrainEnds
  BY <1>1, <1>7, DrainEndsFacts DEF WorkerOK, WorkerHoldsSession, InTurn, TurnPcs, HasWork
<1>8. CASE TakeDeferred
  BY <1>1, <1>8, TakeDeferredFacts DEF WorkerOK, WorkerHoldsSession, InTurn, TurnPcs, HasWork
<1>9. CASE Compacted
  BY <1>1, <1>9, CompactedFacts DEF WorkerOK, WorkerHoldsSession, InTurn, TurnPcs, HasWork
<1>10. CASE Boot
  BY <1>1, <1>10 DEF Boot, WorkerAt, Awake, Cancelled, SetState, Wake,
     WorkerGoes, WorkerOK, WorkerHoldsSession, InTurn, TurnPcs, WorkerType,
     WType
<1>11. CASE Park
  BY <1>1, <1>11 DEF Park, WorkerAt, Awake, NothingDue, Due, HasWork, Wake,
     WorkerOK, WorkerHoldsSession, InTurn, TurnPcs, WorkerType, WType
<1>12. CASE Stopping
  BY <1>1, <1>12 DEF Stopping, WorkerAt, Awake, SetState, Wake, WorkerGoes,
     WorkerOK, WorkerHoldsSession, InTurn, TurnPcs, WorkerType, WType
<1>13. CASE AppendUser
  BY <1>1, <1>13 DEF AppendUser, WorkerAt, Awake, Wake, WorkerOK,
     WorkerHoldsSession, InTurn, TurnPcs, WorkerType, WType
<1>14. CASE Prefilled
  BY <1>1, <1>14 DEF Prefilled, WorkerAt, Awake, WorkerGoes, SetState, Wake,
     WorkerOK, WorkerHoldsSession, InTurn, TurnPcs, WorkerType, WType
<1>15. CASE Generated
  BY <1>1, <1>15 DEF Generated, WorkerAt, Awake, Cancelled, WorkerGoes,
     WorkerOK, WorkerHoldsSession, InTurn, TurnPcs, WorkerType, WType
<1>16. CASE ToolRuns
  BY <1>1, <1>16 DEF ToolRuns, WorkerAt, Awake, WorkerGoes, WorkerOK,
     WorkerHoldsSession, InTurn, TurnPcs, WorkerType, WType
<1>17. CASE Ask
  BY <1>1, <1>17 DEF Ask, WorkerAt, Awake, Asked, Cancelled, Wake, WorkerGoes,
     WorkerOK, WorkerHoldsSession, InTurn, TurnPcs, WorkerType, WType
<1>18. CASE AskEnds
  BY <1>1, <1>18 DEF AskEnds, WorkerAt, Awake, Cancelled, WorkerGoes,
     WorkerOK, WorkerHoldsSession, InTurn, TurnPcs, WorkerType, WType
<1>19. CASE Saved
  BY <1>1, <1>19 DEF Saved, WorkerAt, Awake, Written, SetState, Wake,
     WorkerGoes, WorkerOK, WorkerHoldsSession, InTurn, TurnPcs, WorkerType,
     WType
<1>. QED BY <1>2, <1>3, <1>4, <1>5, <1>6, <1>7, <1>8, <1>9, <1>10, <1>11, <1>12,
     <1>13, <1>14, <1>15, <1>16, <1>17, <1>18, <1>19 DEF Next, WorkerNext,
     UiNext, UserNext

\* Each front end has its own places, and leaves once the worker holds nothing.
LEMMA UiKept ==
    ASSUME AgentInv, Next
    PROVE  UiOK'
<1>1. TypesOK /\ WorkerOK /\ UiOK /\ BatchOK /\ w \in WType /\ worker \in WorkerType /\ ui \in UiType /\ ask \in AskType /\ log \in LogType
  BY DEF AgentInv, TypesOK
<1>2. CASE Boot \/ Stopping \/ TurnInterrupted \/ TurnFails \/ AppendUser \/
          Prefilled \/ Generated \/ Answered \/ ToolRuns \/ Ask \/ AskEnds \/
          RequestDrain \/ DrainEnds \/ TakeDeferred \/ Compacted \/ Saved
  <2>1. WorkerNext /\ ~Pick /\ ~Park /\ ~Wait
    <3>1. worker.pc \notin {"pick", "wait"} /\ ~Park
      BY <1>2 DEF Boot, Stopping, TurnInterrupted, TurnFails, AppendUser, Prefilled, Generated, Answered, ToolRuns, Ask, AskEnds, RequestDrain, DrainEnds, TakeDeferred, Compacted, Saved, WorkerAt, TurnPcs, Park
    <3>. QED BY <1>2, <3>1 DEF WorkerNext, Pick, Wait, WorkerAt
  <2>2. ask'.pending => ask.pending \/ ui.mode = "editor"
    BY <1>1, <1>2 DEF Boot, Stopping, TurnInterrupted, TurnFails, AppendUser, Prefilled, Generated, Answered, ToolRuns, Ask, AskEnds, RequestDrain, DrainEnds, TakeDeferred, Compacted, Saved, AskType
  <2>. QED BY <1>1, <2>1, <2>2, WorkerStepFacts DEF UiOK, Holds
<1>3. CASE Pick
  BY <1>1, <1>3, PickFacts DEF UiOK, Holds, WorkerOK, WorkerHoldsSession
<1>4. CASE Wait
  BY <1>1, <1>4, WaitFacts DEF UiOK, Holds, HasWork, Closing
<1>5. CASE Park
  <2>1. worker.pc = "deferred"
    BY <1>5 DEF Park, WorkerAt
  <2>. QED BY <1>1, <1>5, <2>1, WorkerStepFacts
           DEF WorkerNext, Park, WorkerAt, Pick, UiOK, Holds, WorkerOK, WorkerHoldsSession
<1>6. CASE UiNew
  BY <1>1, <1>6, UiNewFacts DEF UiOK, Holds, EditorPcs, BatchPcs, Closing
<1>7. CASE Pause \/ PauseEnds
  BY <1>1, <1>7, PauseFacts DEF UiOK, Holds, EditorPcs, BatchPcs, Closing
<1>8. CASE SubmitQueue \/ BatchTop \/ TakeInput \/ TypePrompt
  BY <1>1, <1>8, SubmittingFacts DEF UiOK, Holds, EditorPcs, BatchPcs, Closing
<1>9. CASE TakeAsk
  <2>1. UNCHANGED w /\ ui.pc = "serve" /\ ui'.pc = "prompting" /\ ui'.mode = ui.mode
    BY <1>1, <1>9 DEF TakeAsk, UiAt, UiType
  <2>2. ui.mode = "editor"
    BY <1>1, <1>9 DEF TakeAsk, UiOK
  <2>3. ask'.pending = FALSE
    BY <1>1, <1>9 DEF TakeAsk, AskType
  <2>. QED BY <1>1, <2>1, <2>2, <2>3 DEF UiOK, Holds, EditorPcs, BatchPcs, Closing
<1>10. CASE PollInput
  <2>1. UNCHANGED <<w, ask>> /\ ui.pc = "poll" /\ ui.mode = "stdin"
    BY <1>10 DEF PollInput, UiAt
  <2>2. PICK pc \in {"drainfd", "consume"} :
          \/ ui' = [ui EXCEPT !.pc = pc, !.input = <<log.typed + 1>>]
          \/ ui' = [ui EXCEPT !.pc = pc, !.eof = TRUE]
    BY <1>10 DEF PollInput
  <2>3. ui'.pc = pc /\ ui'.mode = ui.mode
    BY <1>1, <2>2 DEF UiType
  <2>. QED BY <1>1, <2>1, <2>3 DEF UiOK, Holds, EditorPcs, BatchPcs, Closing
<1>11. CASE DrainFd
  BY <1>1, <1>11 DEF DrainFd, UiAt, Awake, UiGoes, UiOK, Holds, EditorPcs,
     BatchPcs, Closing, UiType, WType, AskType
<1>12. CASE Consume
  BY <1>1, <1>12 DEF Consume, UiAt, Awake, UiOK, Holds, EditorPcs, BatchPcs,
     Closing, UiType, WType, AskType
<1>13. CASE ResetError
  BY <1>1, <1>13 DEF ResetError, UiAt, Awake, UiGoes, UiOK, Holds, EditorPcs,
     BatchPcs, Closing, UiType, WType, AskType
<1>14. CASE TakeDrain
  BY <1>1, <1>14 DEF TakeDrain, UiAt, Awake, UiOK, Holds, EditorPcs, BatchPcs,
     Closing, UiType, WType, AskType
<1>15. CASE AnswerDrain
  BY <1>1, <1>15 DEF AnswerDrain, UiAt, Awake, Wake, Signal, UiOK, Holds,
     EditorPcs, BatchPcs, Closing, UiType, WType, AskType
<1>16. CASE Interrupt
  BY <1>1, <1>16 DEF Interrupt, UiAt, Awake, Broadcast, UiGoes, UiOK, Holds,
     EditorPcs, BatchPcs, Closing, UiType, WType, AskType
<1>17. CASE AnswerAsk
  BY <1>1, <1>17 DEF AnswerAsk, UiAt, Awake, Wake, Signal, UiGoes, UiOK,
     Holds, EditorPcs, BatchPcs, Closing, UiType, WType, AskType
<1>18. CASE NoLine
  BY <1>1, <1>18 DEF NoLine, UiAt, Awake, UiGoes, UiOK, Holds, EditorPcs,
     BatchPcs, Closing, UiType, WType, AskType
<1>19. CASE RequestSave
  BY <1>1, <1>19 DEF RequestSave, UiAt, Awake, Requests, Wake, Signal, UiGoes,
     UiOK, Holds, EditorPcs, BatchPcs, Closing, UiType, WType, AskType
<1>20. CASE UiSave
  BY <1>1, <1>20 DEF UiSave, UiAt, Awake, Written, UiGoes, UiOK, Holds,
     EditorPcs, BatchPcs, Closing, UiType, WType, AskType
<1>21. CASE LeaveClean
  BY <1>1, <1>21 DEF LeaveClean, UiAt, Awake, NeedsSave, IsIdle, Written,
     UiGoes, UiOK, Holds, EditorPcs, BatchPcs, Closing, UiType, WType, AskType
<1>22. CASE LeaveNow
  BY <1>1, <1>22 DEF LeaveNow, UiAt, Awake, NeedsSave, UiGoes, UiOK, Holds,
     EditorPcs, BatchPcs, Closing, UiType, WType, AskType
<1>23. CASE LeaveCancelled
  BY <1>1, <1>23 DEF LeaveCancelled, UiAt, Awake, NeedsSave, Broadcast,
     UiGoes, UiOK, Holds, EditorPcs, BatchPcs, Closing, UiType, WType, AskType
<1>24. CASE Stop
  BY <1>1, <1>24 DEF Stop, UiAt, Awake, Broadcast, UiGoes, UiOK, Holds,
     EditorPcs, BatchPcs, Closing, UiType, WType, AskType
<1>25. CASE Join
  BY <1>1, <1>25 DEF Join, UiAt, Awake, UiGoes, UiOK, Holds, EditorPcs,
     BatchPcs, Closing, UiType, WType, AskType
<1>26. CASE PollWake
  BY <1>1, <1>26 DEF PollWake, UiAt, Awake, UiGoes, UiOK, Holds, EditorPcs,
     BatchPcs, Closing, UiType, WType, AskType
<1>27. CASE BatchEnd
  BY <1>1, <1>27 DEF BatchEnd, UiAt, Awake, IsIdle, UiGoes, UiOK, Holds,
     EditorPcs, BatchPcs, Closing, UiType, WType, AskType
<1>28. CASE CtrlC
  BY <1>1, <1>28 DEF CtrlC, UiAt, Awake, IsIdle, UiGoes, UiOK, Holds,
     EditorPcs, BatchPcs, Closing, UiType, WType, AskType
<1>29. CASE TypeSessionCommand
  BY <1>1, <1>29 DEF TypeSessionCommand, Enters, UiAt, Awake, IsIdle, UiGoes,
     Entered, UiOK, Holds, EditorPcs, BatchPcs, Closing, UiType, WType,
     AskType
<1>30. CASE TypeRequest
  BY <1>1, <1>30 DEF TypeRequest, Enters, UiAt, Awake, Entered, Requests,
     Wake, Signal, UiGoes, UiOK, Holds, EditorPcs, BatchPcs, Closing, UiType,
     WType, AskType
<1>31. CASE TypeExit
  BY <1>1, <1>31 DEF TypeExit, Enters, UiAt, Awake, Entered, UiGoes, UiOK,
     Holds, EditorPcs, BatchPcs, Closing, UiType, WType, AskType
<1>. QED BY <1>2, <1>3, <1>4, <1>5, <1>6, <1>7, <1>8, <1>9, <1>10, <1>11, <1>12,
     <1>13, <1>14, <1>15, <1>16, <1>17, <1>18, <1>19, <1>20, <1>21, <1>22,
     <1>23, <1>24, <1>25, <1>26, <1>27, <1>28, <1>29, <1>30, <1>31 DEF Next,
     WorkerNext, UiNext, UserNext

\* Outside the editor nothing is picked once the program is to end.
LEMMA BatchKept ==
    ASSUME AgentInv, Next
    PROVE  BatchOK'
<1>1. TypesOK /\ WorkerOK /\ UiOK /\ BatchOK /\ w \in WType /\ worker \in WorkerType /\ ui \in UiType /\ ask \in AskType /\ log \in LogType
  BY DEF AgentInv, TypesOK
<1>2. CASE ResetError \/ CtrlC \/ Interrupt \/ TakeAsk \/ AnswerAsk \/
          SubmitQueue \/ NoLine \/ RequestSave \/ UiSave \/ UiNew \/ Pause \/
          PauseEnds \/ LeaveClean \/ LeaveNow \/ LeaveCancelled \/ TypePrompt
          \/ TypeSessionCommand \/ TypeRequest \/ TypeExit
  <2>1. ui.mode = "editor"
    BY <1>1, <1>2
       DEF ResetError, CtrlC, Interrupt, TakeAsk, AnswerAsk, SubmitQueue, NoLine, RequestSave, UiSave, UiNew, Pause, PauseEnds, LeaveClean, LeaveNow, LeaveCancelled, TypePrompt, TypeSessionCommand, TypeRequest, TypeExit,
           UiOK, UiAt, Enters, BatchPcs, Closing
  <2>2. ui'.mode = ui.mode
    BY <1>1, <1>2, UiStepFacts DEF UiNext, UserNext
  <2>. QED BY <2>1, <2>2 DEF BatchOK
<1>3. CASE TurnInterrupted \/ TurnFails \/ Answered \/ Boot
  <2>1. WorkerNext /\ ~Pick
    BY <1>3 DEF WorkerNext, TurnInterrupted, TurnFails, Answered, Boot, Pick, WorkerAt, TurnPcs
  <2>2. worker.pc \in InTurn \union {"boot"} /\ worker'.pc = "deferred"
    BY <1>1, <1>3 DEF TurnInterrupted, TurnFails, Answered, Boot, WorkerAt, AfterTurn, WorkerGoes,
                      WorkerType, InTurn, TurnPcs
  <2>. QED BY <1>1, <2>1, <2>2, WorkerStepFacts DEF BatchOK, WorkerOK, InTurn, TurnPcs, Closing
<1>4. CASE AppendUser \/ Prefilled \/ Generated \/ ToolRuns \/ Ask \/ AskEnds
          \/ RequestDrain \/ DrainEnds
  <2>1. WorkerNext /\ ~Pick
    BY <1>4 DEF WorkerNext, AppendUser, Prefilled, Generated, ToolRuns, Ask, AskEnds,
                RequestDrain, DrainEnds, Pick, WorkerAt
  <2>2. worker.pc \in InTurn /\ worker'.pc \in InTurn
    BY <1>1, <1>4, RequestDrainFacts, DrainEndsFacts
       DEF AppendUser, Prefilled, Generated, ToolRuns, Ask, AskEnds,
           WorkerAt, WorkerGoes, WorkerType, InTurn, TurnPcs
  <2>3. w' = w \/ w' = Wake(w) \/ w' = SetState(w, "BUSY")
    BY <1>4 DEF AppendUser, Prefilled, Generated, ToolRuns, Ask, AskEnds, RequestDrain, DrainEnds
  <2>4. w'.state \in {w.state, "BUSY"}
    BY <1>1, <2>3, WakeFacts, StateFacts
  <2>. QED BY <1>1, <2>1, <2>2, <2>4, WorkerStepFacts DEF BatchOK, WorkerOK, InTurn, TurnPcs, Closing
<1>5. CASE Pick
  BY <1>1, <1>5, PickFacts DEF BatchOK, Closing
<1>6. CASE Wait
  BY <1>1, <1>6, WaitFacts DEF BatchOK, Closing, HasWork
<1>7. CASE Park
  <2>. DEFINE q == [w EXCEPT !.active = HasWork(w) /\ ~w.stop]
  <2>1. /\ w' = Wake(q) /\ ui' = ui
        /\ worker' = [worker EXCEPT !.chain = <<>>,
             !.pc = IF ~HasWork(w) THEN "wait"
                    ELSE IF HasWork(w) /\ ~w.stop THEN "pick" ELSE "stopping"]
    BY <1>7 DEF Park
  <2>2. q \in WType /\ q.requests = w.requests /\ q.cmd = w.cmd /\ q.state = w.state
    BY <1>1 DEF WType, HasWork
  <2>. HIDE DEF q
  <2>3. w'.requests = w.requests /\ w'.cmd = w.cmd /\ w'.state = w.state
    BY <2>1, <2>2, WakeFacts
  <2>4. worker'.pc = IF ~HasWork(w) THEN "wait"
                     ELSE IF HasWork(w) /\ ~w.stop THEN "pick" ELSE "stopping"
    BY <1>1, <2>1 DEF WorkerType
  <2>5. worker.pc = "deferred"
    BY <1>7 DEF Park, WorkerAt
  <2>. QED BY <1>1, <2>1, <2>3, <2>4, <2>5 DEF BatchOK, Closing, HasWork
<1>8. CASE Stopping
  <2>1. worker.pc = "stopping" /\ worker'.pc = "stopped" /\ ui' = ui
    BY <1>1, <1>8 DEF Stopping, WorkerAt, WorkerGoes, WorkerType
  <2>2. w' = SetState(w, "STOPPED")
    BY <1>8 DEF Stopping
  <2>3. w'.requests = w.requests /\ w'.cmd = w.cmd /\ w.stop
    BY <1>1, <2>1, <2>2, StateFacts DEF WorkerOK
  <2>. QED BY <1>1, <2>1, <2>3 DEF BatchOK, Closing, UiOK
<1>9. CASE TakeDeferred
  BY <1>1, <1>9, TakeDeferredFacts DEF BatchOK
<1>10. CASE Compacted \/ Saved
  BY <1>1, <1>10 DEF BatchOK, Compacted, Saved, WorkerAt
<1>11. CASE BatchTop
  BY <1>1, <1>11, SubmittingFacts DEF BatchOK, Closing, CanSubmit
<1>12. CASE TakeInput
  <2>1. \/ ui.error /\ ui'.pc = "stop" /\ w' = w
        \/ ui'.pc = "end"
    BY <1>1, <1>12 DEF TakeInput, UiGoes, UiType
  <2>2. ui.pc \in {"serve", "input"} /\ ui'.mode = ui.mode /\ worker' = worker
    BY <1>1, <1>12, SubmittingFacts
  <2>. QED BY <1>1, <1>12, <2>1, <2>2, SubmittingFacts DEF BatchOK, Closing, CanSubmit
<1>13. CASE AnswerDrain
  <2>1. w' = Wake(w) /\ worker' = worker /\ ui.pc = "answer"
    BY <1>13 DEF AnswerDrain, UiAt
  <2>2. w'.state = w.state /\ w'.cmd = w.cmd /\ w'.requests = w.requests
    BY <1>1, <2>1, WakeFacts
  <2>3. ui'.pc \in {"consume", "input"} /\ ui'.error = ui.error /\ ui'.mode = ui.mode
    BY <1>1, <1>13 DEF AnswerDrain, UiType
  <2>. QED BY <1>1, <2>1, <2>2, <2>3 DEF BatchOK, Closing
<1>14. CASE BatchEnd
  <2>1. UNCHANGED <<w, worker>> /\ ui'.mode = ui.mode
    BY <1>1, <1>14 DEF BatchEnd, UiGoes, UiType
  <2>2. ui'.pc = "top" \/ (ui'.pc = "stop" /\ IsIdle(w))
    BY <1>1, <1>14 DEF BatchEnd, UiGoes, UiType
  <2>. QED BY <1>1, <2>1, <2>2 DEF BatchOK, Closing, IsIdle, WorkerOK, WorkerHoldsSession, WorkerType, WorkerPcs, InTurn, TurnPcs
<1>15. CASE PollInput
  <2>1. UNCHANGED <<w, worker>>
    BY <1>15 DEF PollInput
  <2>2. PICK pc \in {"drainfd", "consume"} :
          \/ ui' = [ui EXCEPT !.pc = pc, !.input = <<log.typed + 1>>]
          \/ ui' = [ui EXCEPT !.pc = pc, !.eof = TRUE]
    BY <1>15 DEF PollInput
  <2>3. ui'.pc = pc /\ ui'.mode = ui.mode
    BY <1>1, <2>2 DEF UiType
  <2>. QED BY <1>1, <2>1, <2>3 DEF BatchOK, Closing
<1>16. CASE DrainFd
  BY <1>1, <1>16 DEF DrainFd, UiAt, Awake, UiGoes, BatchOK, Closing, UiType,
     WType
<1>17. CASE Consume
  BY <1>1, <1>17 DEF Consume, UiAt, Awake, BatchOK, Closing, UiType, WType
<1>18. CASE TakeDrain
  BY <1>1, <1>18 DEF TakeDrain, UiAt, Awake, BatchOK, Closing, UiType, WType
<1>19. CASE Stop
  BY <1>1, <1>19 DEF Stop, UiAt, Awake, Broadcast, UiGoes, BatchOK, Closing,
     UiType, WType
<1>20. CASE Join
  BY <1>1, <1>20 DEF Join, UiAt, Awake, UiGoes, BatchOK, Closing, UiType,
     WType
<1>21. CASE PollWake
  BY <1>1, <1>21 DEF PollWake, UiAt, Awake, UiGoes, BatchOK, Closing, UiType,
     WType
<1>. QED BY <1>2, <1>3, <1>4, <1>5, <1>6, <1>7, <1>8, <1>9, <1>10, <1>11, <1>12,
     <1>13, <1>14, <1>15, <1>16, <1>17, <1>18, <1>19, <1>20, <1>21 DEF Next,
     WorkerNext, UiNext, UserNext

\* Whoever's condition comes true is awake.
LEMMA SleepKept ==
    ASSUME AgentInv, Next
    PROVE  SleepOK' /\ sleeping' \subseteq {"worker", "ui"}
<1>1. TypesOK /\ SleepOK /\ UiOK /\ WorkerOK /\ sleeping \subseteq {"worker", "ui"} /\ drain \in DrainType /\ w \in WType /\ worker \in WorkerType /\ ui \in UiType /\ ask \in AskType /\ log \in LogType
  BY DEF AgentInv, TypesOK
<1>2. CASE Compacted
  BY <1>1, <1>2, CompactedFacts DEF SleepOK, HasWork, Holds, Cancelled,
     WorkerOK, UiOK, InTurn, TurnPcs, CanSubmit
<1>3. CASE TakeDeferred
  BY <1>1, <1>3, TakeDeferredFacts DEF SleepOK, HasWork, Holds, Cancelled,
     WorkerOK, UiOK, InTurn, TurnPcs, CanSubmit
<1>4. CASE UiNew
  BY <1>1, <1>4, UiNewFacts DEF SleepOK, HasWork, Holds, Cancelled, WorkerOK,
     UiOK, InTurn, TurnPcs, CanSubmit
<1>5. CASE Pause \/ PauseEnds
  BY <1>1, <1>5, PauseFacts DEF SleepOK, HasWork, Holds, Cancelled, WorkerOK,
     UiOK, InTurn, TurnPcs, CanSubmit
<1>6. CASE SubmitQueue \/ BatchTop \/ TakeInput \/ TypePrompt
  BY <1>1, <1>6, SubmittingFacts DEF SleepOK, HasWork, Holds, Cancelled,
     WorkerOK, UiOK, InTurn, TurnPcs, CanSubmit
<1>7. CASE Wait
  <2>1. "worker" \notin sleeping /\ worker.pc = "wait"
    BY <1>7 DEF Wait, WorkerAt, Awake
  <2>2. ~w.active
    BY <1>1, <2>1 DEF WorkerOK, WorkerHoldsSession
  <2>. QED BY <1>1, <1>7, <2>1, <2>2, WaitFacts DEF SleepOK, HasWork, Holds
<1>8. CASE Pick
  <2>1. "worker" \notin sleeping /\ worker.pc = "pick"
    BY <1>8 DEF Pick, WorkerAt, Awake
  <2>2. w.active /\ w'.active = w.active /\ UNCHANGED <<ui, sleeping>>
    BY <1>1, <1>8, <2>1, PickFacts DEF WorkerOK, WorkerHoldsSession
  <2>. QED BY <1>1, <2>1, <2>2 DEF SleepOK, Holds
<1>9. CASE RequestDrain
  <2>1. "worker" \notin sleeping
    BY <1>9 DEF RequestDrain, WorkerAt, Awake
  <2>2. w'.stop = w.stop /\ w'.interrupt = w.interrupt /\ w'.active = w.active /\ w'.cmd = w.cmd
    BY <1>9, <1>1, RequestDrainFacts
  <2>3. CASE Cancelled
    BY <1>1, <1>9, <2>1, <2>2, <2>3, RequestDrainFacts DEF SleepOK, Holds
  <2>4. CASE ~Cancelled
    <3>1. sleeping' = (sleeping \ {"ui"}) \union {"worker"} /\ ~drain'.answered
          /\ worker'.pc = "draining"
      BY <1>9, <1>1, <2>4, RequestDrainFacts
    <3>. QED BY <1>1, <2>2, <2>4, <3>1 DEF SleepOK, Cancelled
  <2>. QED BY <2>3, <2>4
<1>10. CASE DrainEnds
  <2>1. "worker" \notin sleeping
    BY <1>10 DEF DrainEnds, WorkerAt, Awake
  <2>. QED BY <1>1, <1>10, <2>1, DrainEndsFacts
           DEF SleepOK, HasWork, Holds, DrainEnds, WorkerAt, Cancelled
<1>11. CASE Boot
  BY <1>1, <1>11 DEF Boot, WorkerAt, Awake, Cancelled, SetState, Wake,
     WorkerGoes, SleepOK, HasWork, Holds, UiType, WType, WorkerType, AskType,
     DrainType, WorkerOK, UiOK
<1>12. CASE Park
  BY <1>1, <1>12 DEF Park, WorkerAt, Awake, NothingDue, Due, HasWork, Wake,
     SleepOK, Holds, Cancelled, UiType, WType, WorkerType, AskType, DrainType,
     WorkerOK, UiOK
<1>13. CASE Stopping
  BY <1>1, <1>13 DEF Stopping, WorkerAt, Awake, SetState, Wake, WorkerGoes,
     SleepOK, HasWork, Holds, Cancelled, UiType, WType, WorkerType, AskType,
     DrainType, WorkerOK, UiOK
<1>14. CASE TurnInterrupted
  BY <1>1, <1>14 DEF TurnInterrupted, TurnPcs, WorkerAt, Awake, Cancelled,
     SetState, Wake, AfterTurn, SleepOK, HasWork, Holds, UiType, WType,
     WorkerType, AskType, DrainType, WorkerOK, UiOK
<1>15. CASE TurnFails
  BY <1>1, <1>15 DEF TurnFails, TurnPcs, WorkerAt, Awake, SetState, Wake,
     AfterTurn, SleepOK, HasWork, Holds, Cancelled, UiType, WType, WorkerType,
     AskType, DrainType, WorkerOK, UiOK
<1>16. CASE AppendUser
  BY <1>1, <1>16 DEF AppendUser, WorkerAt, Awake, Wake, SleepOK, HasWork,
     Holds, Cancelled, UiType, WType, WorkerType, AskType, DrainType,
     WorkerOK, UiOK
<1>17. CASE Prefilled
  BY <1>1, <1>17 DEF Prefilled, WorkerAt, Awake, WorkerGoes, SetState, Wake,
     SleepOK, HasWork, Holds, Cancelled, UiType, WType, WorkerType, AskType,
     DrainType, WorkerOK, UiOK
<1>18. CASE Generated
  BY <1>1, <1>18 DEF Generated, WorkerAt, Awake, Cancelled, WorkerGoes,
     SleepOK, HasWork, Holds, UiType, WType, WorkerType, AskType, DrainType,
     WorkerOK, UiOK
<1>19. CASE Answered
  BY <1>1, <1>19 DEF Answered, WorkerAt, Awake, SetState, Wake, AfterTurn,
     SleepOK, HasWork, Holds, Cancelled, UiType, WType, WorkerType, AskType,
     DrainType, WorkerOK, UiOK
<1>20. CASE ToolRuns
  BY <1>1, <1>20 DEF ToolRuns, WorkerAt, Awake, WorkerGoes, SleepOK, HasWork,
     Holds, Cancelled, UiType, WType, WorkerType, AskType, DrainType,
     WorkerOK, UiOK
<1>21. CASE Ask
  BY <1>1, <1>21 DEF Ask, WorkerAt, Awake, Asked, Cancelled, Wake, WorkerGoes,
     SleepOK, HasWork, Holds, UiType, WType, WorkerType, AskType, DrainType,
     WorkerOK, UiOK
<1>22. CASE AskEnds
  BY <1>1, <1>22 DEF AskEnds, WorkerAt, Awake, Cancelled, WorkerGoes, SleepOK,
     HasWork, Holds, UiType, WType, WorkerType, AskType, DrainType, WorkerOK,
     UiOK
<1>23. CASE Saved
  BY <1>1, <1>23 DEF Saved, WorkerAt, Awake, Written, SetState, Wake,
     WorkerGoes, SleepOK, HasWork, Holds, Cancelled, UiType, WType,
     WorkerType, AskType, DrainType, WorkerOK, UiOK
<1>24. CASE DrainFd
  BY <1>1, <1>24 DEF DrainFd, UiAt, Awake, UiGoes, SleepOK, HasWork, Holds,
     Cancelled, UiType, WType, WorkerType, AskType, DrainType, WorkerOK, UiOK
<1>25. CASE Consume
  BY <1>1, <1>25 DEF Consume, UiAt, Awake, SleepOK, HasWork, Holds, Cancelled,
     UiType, WType, WorkerType, AskType, DrainType, WorkerOK, UiOK
<1>26. CASE ResetError
  BY <1>1, <1>26 DEF ResetError, UiAt, Awake, UiGoes, SleepOK, HasWork, Holds,
     Cancelled, UiType, WType, WorkerType, AskType, DrainType, WorkerOK, UiOK
<1>27. CASE TakeDrain
  BY <1>1, <1>27 DEF TakeDrain, UiAt, Awake, SleepOK, HasWork, Holds,
     Cancelled, UiType, WType, WorkerType, AskType, DrainType, WorkerOK, UiOK
<1>28. CASE AnswerDrain
  BY <1>1, <1>28 DEF AnswerDrain, UiAt, Awake, Wake, Signal, SleepOK, HasWork,
     Holds, Cancelled, UiType, WType, WorkerType, AskType, DrainType,
     WorkerOK, UiOK
<1>29. CASE Interrupt
  BY <1>1, <1>29 DEF Interrupt, UiAt, Awake, Broadcast, UiGoes, SleepOK,
     HasWork, Holds, Cancelled, UiType, WType, WorkerType, AskType, DrainType,
     WorkerOK, UiOK
<1>30. CASE TakeAsk
  BY <1>1, <1>30 DEF TakeAsk, UiAt, Awake, SleepOK, HasWork, Holds, Cancelled,
     UiType, WType, WorkerType, AskType, DrainType, WorkerOK, UiOK
<1>31. CASE AnswerAsk
  BY <1>1, <1>31 DEF AnswerAsk, UiAt, Awake, Wake, Signal, UiGoes, SleepOK,
     HasWork, Holds, Cancelled, UiType, WType, WorkerType, AskType, DrainType,
     WorkerOK, UiOK
<1>32. CASE NoLine
  BY <1>1, <1>32 DEF NoLine, UiAt, Awake, UiGoes, SleepOK, HasWork, Holds,
     Cancelled, UiType, WType, WorkerType, AskType, DrainType, WorkerOK, UiOK
<1>33. CASE RequestSave
  BY <1>1, <1>33 DEF RequestSave, UiAt, Awake, Requests, Wake, Signal, UiGoes,
     SleepOK, HasWork, Holds, Cancelled, UiType, WType, WorkerType, AskType,
     DrainType, WorkerOK, UiOK
<1>34. CASE UiSave
  BY <1>1, <1>34 DEF UiSave, UiAt, Awake, Written, UiGoes, SleepOK, HasWork,
     Holds, Cancelled, UiType, WType, WorkerType, AskType, DrainType,
     WorkerOK, UiOK
<1>35. CASE LeaveClean
  BY <1>1, <1>35 DEF LeaveClean, UiAt, Awake, NeedsSave, IsIdle, Written,
     UiGoes, SleepOK, HasWork, Holds, Cancelled, UiType, WType, WorkerType,
     AskType, DrainType, WorkerOK, UiOK
<1>36. CASE LeaveNow
  BY <1>1, <1>36 DEF LeaveNow, UiAt, Awake, NeedsSave, UiGoes, SleepOK,
     HasWork, Holds, Cancelled, UiType, WType, WorkerType, AskType, DrainType,
     WorkerOK, UiOK
<1>37. CASE LeaveCancelled
  BY <1>1, <1>37 DEF LeaveCancelled, UiAt, Awake, NeedsSave, Broadcast,
     UiGoes, SleepOK, HasWork, Holds, Cancelled, UiType, WType, WorkerType,
     AskType, DrainType, WorkerOK, UiOK
<1>38. CASE Stop
  BY <1>1, <1>38 DEF Stop, UiAt, Awake, Broadcast, UiGoes, SleepOK, HasWork,
     Holds, Cancelled, UiType, WType, WorkerType, AskType, DrainType,
     WorkerOK, UiOK
<1>39. CASE Join
  BY <1>1, <1>39 DEF Join, UiAt, Awake, UiGoes, SleepOK, HasWork, Holds,
     Cancelled, UiType, WType, WorkerType, AskType, DrainType, WorkerOK, UiOK
<1>40. CASE PollWake
  BY <1>1, <1>40 DEF PollWake, UiAt, Awake, UiGoes, SleepOK, HasWork, Holds,
     Cancelled, UiType, WType, WorkerType, AskType, DrainType, WorkerOK, UiOK
<1>41. CASE BatchEnd
  BY <1>1, <1>41 DEF BatchEnd, UiAt, Awake, IsIdle, UiGoes, SleepOK, HasWork,
     Holds, Cancelled, UiType, WType, WorkerType, AskType, DrainType,
     WorkerOK, UiOK
<1>42. CASE CtrlC
  BY <1>1, <1>42 DEF CtrlC, UiAt, Awake, IsIdle, UiGoes, SleepOK, HasWork,
     Holds, Cancelled, UiType, WType, WorkerType, AskType, DrainType,
     WorkerOK, UiOK
<1>43. CASE TypeSessionCommand
  BY <1>1, <1>43 DEF TypeSessionCommand, Enters, UiAt, Awake, IsIdle, UiGoes,
     Entered, SleepOK, HasWork, Holds, Cancelled, UiType, WType, WorkerType,
     AskType, DrainType, WorkerOK, UiOK
<1>44. CASE TypeRequest
  BY <1>1, <1>44 DEF TypeRequest, Enters, UiAt, Awake, Entered, Requests,
     Wake, Signal, UiGoes, SleepOK, HasWork, Holds, Cancelled, UiType, WType,
     WorkerType, AskType, DrainType, WorkerOK, UiOK
<1>45. CASE TypeExit
  BY <1>1, <1>45 DEF TypeExit, Enters, UiAt, Awake, Entered, UiGoes, SleepOK,
     HasWork, Holds, Cancelled, UiType, WType, WorkerType, AskType, DrainType,
     WorkerOK, UiOK
<1>46. CASE PollInput
  BY <1>1, <1>46 DEF PollInput, UiAt, Awake, SleepOK, HasWork, Holds,
     Cancelled, UiType, WType, WorkerType, AskType, DrainType, WorkerOK, UiOK
<1>. QED BY <1>2, <1>3, <1>4, <1>5, <1>6, <1>7, <1>8, <1>9, <1>10, <1>11, <1>12,
     <1>13, <1>14, <1>15, <1>16, <1>17, <1>18, <1>19, <1>20, <1>21, <1>22,
     <1>23, <1>24, <1>25, <1>26, <1>27, <1>28, <1>29, <1>30, <1>31, <1>32,
     <1>33, <1>34, <1>35, <1>36, <1>37, <1>38, <1>39, <1>40, <1>41, <1>42,
     <1>43, <1>44, <1>45, <1>46 DEF Next, WorkerNext, UiNext, UserNext

LEMMA AgentInit ==
    ASSUME Init
    PROVE  AgentInv
<1>. DEFINE r == [initialized |-> FALSE, active |-> TRUE, paused |-> FALSE, stop |-> FALSE,
                  interrupt |-> FALSE, cmd |-> <<>>, requests |-> {}, state |-> "IDLE",
                  wakePending |-> FALSE, pipe |-> FALSE]
<1>1. <<>> \in Seq(Nat) /\ <<1>> \in Seq(Nat) /\ <<>> \in Seq(Ops)
  OBVIOUS
<1>2. w = r /\ drain = NoDrain /\ ask = NoAsk /\ sleeping = {} /\ session = EmptySession
      /\ worker = [pc |-> "boot", turn |-> <<>>, rounds |-> 0, chain |-> <<>>]
  BY DEF Init
<1>3. PICK m \in Modes, initial \in {<<>>, <<1>>} :
        /\ ui = [mode |-> m, pc |-> IF m = "editor" THEN "consume" ELSE "top",
                  queue |-> <<>>, hand |-> <<>>, input |-> <<>>, initial |-> initial,
                  open |-> FALSE, eof |-> FALSE, error |-> FALSE,
                  req |-> 0]
        /\ log = [typed |-> Len(initial), interrupts |-> 0, commands |-> 0,
                   gone |-> {}, lost |-> {}, asked |-> FALSE]
  BY DEF Init
<1>4. w \in WType /\ drain \in DrainType /\ ask \in AskType /\ session \in SessionType
  <2>1. w \in WType
    BY <1>1, <1>2 DEF WType
  <2>2. drain \in DrainType /\ ask \in AskType /\ session \in SessionType
    BY <1>1, <1>2 DEF DrainType, NoDrain, AskType, NoAsk, SessionType, EmptySession
  <2>. QED BY <2>1, <2>2
<1>5. worker \in WorkerType
  BY <1>1, <1>2, AgentAssumption DEF WorkerType, WorkerPcs
<1>6. ui \in UiType
  BY <1>1, <1>3, AgentAssumption DEF UiType, EditorPcs, BatchPcs
<1>7. log \in LogType
  <2>1. Len(initial) \in {0, 1} /\ 1 \in 0 .. MaxPrompts /\ 0 \in 0 .. MaxPrompts
    BY <1>3, AgentAssumption
  <2>2. 0 \in 0 .. MaxInterrupts /\ 0 \in 0 .. MaxCommands
    BY AgentAssumption
  <2>. QED BY <1>3, <2>1, <2>2 DEF LogType
<1>8. TypesOK
  BY <1>2, <1>4, <1>5, <1>6, <1>7 DEF TypesOK
<1>9. BoundsOK /\ SleepOK
  BY <1>2, <1>3, AgentAssumption DEF BoundsOK, NoAsk, SleepOK
<1>10. WorkerOK /\ UiOK /\ BatchOK
  BY <1>2, <1>3 DEF WorkerOK, WorkerHoldsSession, InTurn, TurnPcs, UiOK, BatchOK, Holds,
                    EditorPcs, BatchPcs, Closing, NoAsk
<1>. QED BY <1>8, <1>9, <1>10 DEF AgentInv

LEMMA AgentNext ==
    ASSUME AgentInv, [Next]_vars
    PROVE  AgentInv'
<1>1. CASE Next
  <2>1. TypesOK'
    BY <1>1, WTyped, DrainTyped, AskTyped, WorkerTyped, SessionTyped, UiTyped, LogTyped,
       SleepKept DEF TypesOK
  <2>2. BoundsOK' /\ WorkerOK' /\ UiOK' /\ BatchOK' /\ SleepOK'
    BY <1>1, BoundsKept, WorkerKept, UiKept, BatchKept, SleepKept
  <2>. QED BY <2>1, <2>2 DEF AgentInv
<1>2. CASE UNCHANGED vars
  BY <1>2 DEF vars, AgentInv, TypesOK, BoundsOK, WorkerOK, WorkerHoldsSession, UiOK, Holds,
              BatchOK, SleepOK, HasWork, Cancelled
<1>. QED BY <1>1, <1>2

LEMMA AgentInvAlways == Spec => []AgentInv
BY AgentInit, AgentNext, PTL DEF Spec

\* Types, bounds, and that no wakeup is lost: a thread that sleeps on the
\* condition variable waits for something that has not come (agent_worker's
\* waits, q36_agent.c).
THEOREM AgentIsTyped == Spec => []TypeOK
<1>1. AgentInv => TypeOK
  <2>. SUFFICES ASSUME AgentInv PROVE TypeOK
    OBVIOUS
  <2>1. /\ w \in WType /\ worker \in WorkerType /\ ask \in AskType /\ log \in LogType
        /\ sleeping \subseteq {"worker", "ui"} /\ BoundsOK /\ SleepOK
    BY DEF AgentInv, TypesOK
  <2>2. /\ w.state \in {"IDLE", "BUSY", "ERROR", "STOPPED"}
        /\ w.requests \subseteq {"save", "compact", "power"}
        /\ \A f \in {"initialized", "active", "paused", "stop", "interrupt", "wakePending",
                     "pipe"} : w[f] \in BOOLEAN
    BY <2>1 DEF WType, Ops
  <2>3. worker.rounds \in 0 .. MaxRounds + 1 /\ Len(worker.chain) <= 3
    BY <2>1, AgentAssumption DEF WorkerType, BoundsOK
  <2>4. ask.n \in Nat /\ ask.from \in 0 .. ask.n
    BY <2>1 DEF AskType, BoundsOK
  <2>5. /\ log.typed \in 0 .. MaxPrompts /\ log.interrupts \in 0 .. MaxInterrupts
        /\ log.commands \in 0 .. MaxCommands
    BY <2>1 DEF LogType
  <2>. QED BY <2>1, <2>2, <2>3, <2>4, <2>5 DEF TypeOK, SleepOK
<1>. QED BY <1>1, AgentInvAlways, PTL

\* The session and the transcript, which no lock protects, never have two
\* threads on them: not when the UI saves or replaces them beside a status that
\* says IDLE early, and not while the program leaves.
THEOREM SessionIsOwned == Spec => []SessionHasOneOwner
<1>1. AgentInv => SessionHasOneOwner
  BY DEF AgentInv, WorkerOK, UiOK, Holds, SessionHasOneOwner, UiHoldsSession
<1>. QED BY <1>1, AgentInvAlways, PTL

-----------------------------------------------------------------------------
(* Interrupts, questions and prompts handed over. *)

LEMMA LogStepFacts ==
    ASSUME TypesOK, WorkerNext
    PROVE  /\ log'.asked = log.asked /\ log'.interrupts = log.interrupts
           /\ log'.typed = log.typed
           /\ log'.lost = log.lost \/ RequestDrain
           /\ log'.gone = log.gone \/ TurnInterrupted \/ TurnFails
<1>1. log \in LogType
  BY DEF TypesOK
<1>2. CASE TurnInterrupted \/ TurnFails
  <2>1. log' = [log EXCEPT !.gone = log.gone \union ToSet(worker.turn)]
    BY <1>2 DEF TurnInterrupted, TurnFails
  <2>. QED BY <1>1, <1>2, <2>1 DEF LogType
<1>3. CASE RequestDrain
  BY <1>3, RequestDrainFacts
<1>4. CASE ~(TurnInterrupted \/ TurnFails \/ RequestDrain)
  <2>1. log' = log
    BY <1>4 DEF WorkerNext, Boot, Park, Wait, Pick, Stopping, AppendUser, Prefilled,
                Generated, Answered, ToolRuns, Ask, AskEnds, DrainEnds, TakeDeferred,
                Compacted, Saved
  <2>. QED BY <2>1
<1>. QED BY <1>2, <1>3, <1>4

\* An interrupt has been asked for, and in the editor only.
LEMMA InterruptKept ==
    ASSUME TurnInv, Next
    PROVE  InterruptOK'
<1>1. TypesOK /\ InterruptOK /\ UiOK /\ w \in WType /\ worker \in WorkerType /\ ui \in UiType /\ ask \in AskType /\ log \in LogType
  BY DEF TurnInv, AgentInv, TypesOK
<1>2. CASE Boot \/ Park \/ Wait \/ Pick \/ Stopping \/ TurnInterrupted \/
          TurnFails \/ AppendUser \/ Prefilled \/ Generated \/ Answered \/
          ToolRuns \/ Ask \/ AskEnds \/ RequestDrain \/ DrainEnds \/
          TakeDeferred \/ Compacted \/ Saved
  <2>1. WorkerNext
    BY <1>2 DEF WorkerNext
  <2>. QED BY <1>1, <2>1, WorkerStepFacts, LogStepFacts DEF InterruptOK
<1>3. CASE UiNew
  BY <1>1, <1>3, UiNewFacts DEF InterruptOK
<1>4. CASE SubmitQueue \/ BatchTop \/ TakeInput \/ TypePrompt
  BY <1>1, <1>4, SubmittingFacts DEF InterruptOK
<1>5. CASE Pause \/ PauseEnds
  BY <1>1, <1>5, PauseFacts DEF InterruptOK, UiOK, BatchPcs, Closing
<1>6. CASE Interrupt
  <2>1. log'.interrupts = log.interrupts + 1 /\ log'.asked
    BY <1>1, <1>6 DEF Interrupt, LogType
  <2>2. ui.pc = "interrupt" /\ ui'.mode = ui.mode
    BY <1>1, <1>6 DEF Interrupt, UiAt, UiGoes, UiType
  <2>3. log'.interrupts > 0
    BY <1>1, <2>1, AgentAssumption DEF LogType
  <2>. QED BY <1>1, <2>1, <2>2, <2>3 DEF InterruptOK, UiOK, BatchPcs, Closing
<1>7. CASE AnswerDrain \/ AnswerAsk \/ RequestSave \/ TypeRequest
  <2>1. w' = Wake(w) \/ \E r \in SUBSET Ops : w' = Wake([w EXCEPT !.requests = r])
    <3>1. CASE RequestSave \/ TypeRequest
      <4>1. PICK op \in Ops : w' = Wake([w EXCEPT !.requests = w.requests \union {op}])
        BY <3>1 DEF RequestSave, TypeRequest, Requests, Ops
      <4>2. w.requests \union {op} \in SUBSET Ops
        BY <1>1 DEF WType
      <4>. QED BY <4>1, <4>2
    <3>2. CASE AnswerDrain \/ AnswerAsk
      BY <3>2 DEF AnswerDrain, AnswerAsk
    <3>. QED BY <1>7, <3>1, <3>2
  <2>2. \A r \in SUBSET Ops :
          [w EXCEPT !.requests = r] \in WType /\ [w EXCEPT !.requests = r].interrupt = w.interrupt
    BY <1>1 DEF WType
  <2>3. w'.interrupt = w.interrupt
    BY <1>1, <2>1, <2>2, WakeFacts
  <2>4. log'.asked = log.asked /\ log'.interrupts = log.interrupts
    <3>1. \/ log' = log \/ log' = [log EXCEPT !.commands = log.commands + 1]
          \/ log' = [log EXCEPT !.lost = log.lost \union ToSet(drain.text)]
      BY <1>7 DEF AnswerDrain, AnswerAsk, RequestSave, TypeRequest, Entered
    <3>. QED BY <1>1, <3>1 DEF LogType
  <2>5. ui.pc # "pausing" /\ ui'.mode = ui.mode
    <3>1. ui.pc # "pausing"
      BY <1>7 DEF AnswerDrain, AnswerAsk, RequestSave, TypeRequest, Enters, UiAt
    <3>2. UiNext \/ UserNext
      BY <1>7 DEF UiNext, UserNext
    <3>. QED BY <1>1, <3>1, <3>2, UiStepFacts
  <2>. QED BY <1>1, <2>3, <2>4, <2>5 DEF InterruptOK
<1>8. CASE PollInput
  <2>1. UNCHANGED w /\ (log' = log \/ log' = [log EXCEPT !.typed = log.typed + 1])
        /\ ui.pc = "poll"
    BY <1>8 DEF PollInput, UiAt
  <2>2. log'.asked = log.asked /\ log'.interrupts = log.interrupts
    BY <1>1, <2>1 DEF LogType
  <2>3. ui'.mode = ui.mode
    BY <1>1, <1>8, UiStepFacts DEF UserNext
  <2>. QED BY <1>1, <2>1, <2>2, <2>3 DEF InterruptOK
<1>9. CASE DrainFd
  BY <1>1, <1>9 DEF DrainFd, UiAt, Awake, UiGoes, InterruptOK, UiType, WType,
     LogType
<1>10. CASE Consume
  BY <1>1, <1>10 DEF Consume, UiAt, Awake, InterruptOK, UiType, WType, LogType
<1>11. CASE ResetError
  BY <1>1, <1>11 DEF ResetError, UiAt, Awake, UiGoes, InterruptOK, UiType,
     WType, LogType
<1>12. CASE TakeDrain
  BY <1>1, <1>12 DEF TakeDrain, UiAt, Awake, InterruptOK, UiType, WType,
     LogType
<1>13. CASE TakeAsk
  BY <1>1, <1>13 DEF TakeAsk, UiAt, Awake, InterruptOK, UiType, WType, LogType
<1>14. CASE NoLine
  BY <1>1, <1>14 DEF NoLine, UiAt, Awake, UiGoes, InterruptOK, UiType, WType,
     LogType
<1>15. CASE UiSave
  BY <1>1, <1>15 DEF UiSave, UiAt, Awake, Written, UiGoes, InterruptOK,
     UiType, WType, LogType
<1>16. CASE LeaveClean
  BY <1>1, <1>16 DEF LeaveClean, UiAt, Awake, NeedsSave, IsIdle, Written,
     UiGoes, InterruptOK, UiType, WType, LogType
<1>17. CASE LeaveNow
  BY <1>1, <1>17 DEF LeaveNow, UiAt, Awake, NeedsSave, UiGoes, InterruptOK,
     UiType, WType, LogType
<1>18. CASE LeaveCancelled
  BY <1>1, <1>18 DEF LeaveCancelled, UiAt, Awake, NeedsSave, Broadcast,
     UiGoes, InterruptOK, UiType, WType, LogType
<1>19. CASE Stop
  BY <1>1, <1>19 DEF Stop, UiAt, Awake, Broadcast, UiGoes, InterruptOK,
     UiType, WType, LogType
<1>20. CASE Join
  BY <1>1, <1>20 DEF Join, UiAt, Awake, UiGoes, InterruptOK, UiType, WType,
     LogType
<1>21. CASE PollWake
  BY <1>1, <1>21 DEF PollWake, UiAt, Awake, UiGoes, InterruptOK, UiType,
     WType, LogType
<1>22. CASE BatchEnd
  BY <1>1, <1>22 DEF BatchEnd, UiAt, Awake, IsIdle, UiGoes, InterruptOK,
     UiType, WType, LogType
<1>23. CASE CtrlC
  BY <1>1, <1>23 DEF CtrlC, UiAt, Awake, IsIdle, UiGoes, InterruptOK, UiType,
     WType, LogType
<1>24. CASE TypeSessionCommand
  BY <1>1, <1>24 DEF TypeSessionCommand, Enters, UiAt, Awake, IsIdle, UiGoes,
     Entered, InterruptOK, UiType, WType, LogType
<1>25. CASE TypeExit
  BY <1>1, <1>25 DEF TypeExit, Enters, UiAt, Awake, Entered, UiGoes,
     InterruptOK, UiType, WType, LogType
<1>. QED BY <1>2, <1>3, <1>4, <1>5, <1>6, <1>7, <1>8, <1>9, <1>10, <1>11, <1>12,
     <1>13, <1>14, <1>15, <1>16, <1>17, <1>18, <1>19, <1>20, <1>21, <1>22,
     <1>23, <1>24, <1>25 DEF Next, WorkerNext, UiNext, UserNext

\* Nothing begins before a reply, and what is replied to was not overtaken.
LEMMA ReplyKept ==
    ASSUME TurnInv, Next
    PROVE  ReplyOK'
<1>1. /\ TypesOK /\ WorkerOK /\ UiOK /\ BatchOK /\ ReplyOK /\ AskOK /\ HandOverOK
      /\ drain \in DrainType /\ w \in WType /\ worker \in WorkerType /\ ui \in UiType /\ ask \in AskType /\ log \in LogType
  BY DEF TurnInv, AgentInv, TypesOK
<1>2. CASE DrainFd \/ Consume \/ ResetError \/ Interrupt \/ NoLine \/
          RequestSave \/ UiSave \/ LeaveClean \/ LeaveNow \/ LeaveCancelled \/
          Stop \/ Join \/ PollWake \/ BatchEnd \/ CtrlC \/ TypeSessionCommand
          \/ TypeRequest \/ TypeExit
  <2>1. ui'.pc \notin {"prompting", "answer"}
    <3>1. CASE Consume \/ TypeSessionCommand \/ BatchEnd
      BY <1>1, <3>1 DEF Consume, TypeSessionCommand, BatchEnd, UiGoes, UiType
    <3>2. CASE ~(Consume \/ TypeSessionCommand \/ BatchEnd)
      <4>1. \E pc \in EditorPcs \union BatchPcs : UiGoes(pc) /\ pc \notin {"prompting", "answer"}
        BY <1>2, <3>2 DEF DrainFd, ResetError, Interrupt, NoLine, RequestSave, UiSave, LeaveClean, LeaveNow, LeaveCancelled, Stop, Join, PollWake, CtrlC, TypeRequest, TypeExit, Requests, EditorPcs, BatchPcs, Closing
      <4>. QED BY <1>1, <4>1 DEF UiGoes, UiType
    <3>. QED BY <3>1, <3>2
  <2>. QED BY <2>1 DEF ReplyOK
<1>3. CASE UiNew
  BY <1>1, <1>3, UiNewFacts DEF ReplyOK
<1>4. CASE Pause \/ PauseEnds
  BY <1>1, <1>4, PauseFacts DEF ReplyOK
<1>5. CASE SubmitQueue \/ BatchTop \/ TakeInput \/ TypePrompt
  BY <1>1, <1>5, SubmittingFacts DEF ReplyOK
<1>6. CASE PollInput
  <2>1. \E pc \in {"drainfd", "consume"} :
          \/ ui' = [ui EXCEPT !.pc = pc, !.input = <<log.typed + 1>>]
          \/ ui' = [ui EXCEPT !.pc = pc, !.eof = TRUE]
    BY <1>6 DEF PollInput
  <2>2. ui'.pc \in {"drainfd", "consume"}
    BY <1>1, <2>1 DEF UiType
  <2>. QED BY <2>2 DEF ReplyOK
<1>7. CASE AnswerAsk
  <2>1. ui'.pc = "consume"
    BY <1>1, <1>7 DEF AnswerAsk, UiGoes, UiType
  <2>. QED BY <2>1 DEF ReplyOK
<1>8. CASE AnswerDrain
  <2>1. ui'.pc \in {"consume", "input"}
    BY <1>1, <1>8 DEF AnswerDrain, UiType
  <2>. QED BY <2>1 DEF ReplyOK
<1>9. CASE TakeAsk
  <2>1. /\ worker.pc = "asking" /\ ~ask.answered /\ UNCHANGED <<w, drain, worker>>
        /\ ui'.pc = "prompting" /\ ui'.req = ask.n
        /\ ask'.n = ask.n /\ ask'.answered = ask.answered /\ ~ask'.pending
    BY <1>1, <1>9 DEF TakeAsk, UiType, AskType, AskOK
  <2>. QED BY <1>1, <2>1 DEF ReplyOK, WorkerOK, InTurn, TurnPcs
<1>10. CASE TakeDrain
  <2>1. /\ worker.pc = "draining" /\ ~drain.answered /\ UNCHANGED <<w, ask, worker>>
        /\ ui'.pc = "answer" /\ drain'.answered = drain.answered /\ ~drain'.pending
    BY <1>1, <1>10 DEF TakeDrain, UiType, DrainType, HandOverOK
  <2>. QED BY <1>1, <2>1 DEF ReplyOK, WorkerOK, InTurn, TurnPcs
<1>11. CASE Park
  <2>1. worker' = [worker EXCEPT !.chain = <<>>,
             !.pc = IF ~HasWork(w) THEN "wait"
                    ELSE IF HasWork(w) /\ ~w.stop THEN "pick" ELSE "stopping"]
        /\ UNCHANGED <<ui, ask, drain>>
    BY <1>11 DEF Park
  <2>2. worker'.pc \in {"wait", "pick", "stopping"}
    BY <1>1, <2>1 DEF WorkerType
  <2>3. w'.cmd = w.cmd
    BY <1>1, <1>11, WorkerStepFacts DEF WorkerNext, Park, Pick, WorkerAt
  <2>. QED BY <1>1, <2>1, <2>2, <2>3 DEF ReplyOK
<1>12. CASE TurnInterrupted \/ TurnFails \/ Answered \/ Boot \/ Stopping \/
          Saved
  <2>1. WorkerNext /\ ~Pick
    BY <1>12 DEF WorkerNext, TurnInterrupted, TurnFails, Answered, Boot, Stopping, Saved, Pick,
                WorkerAt, TurnPcs
  <2>2. worker'.pc \in {"deferred", "stopped"} /\ UNCHANGED <<ask, drain>>
    BY <1>1, <1>12 DEF TurnInterrupted, TurnFails, Answered, Boot, Stopping, Saved, AfterTurn,
                      WorkerGoes, WorkerType
  <2>. QED BY <1>1, <2>1, <2>2, WorkerStepFacts DEF ReplyOK
<1>13. CASE Compacted
  BY <1>1, <1>13, CompactedFacts DEF ReplyOK
<1>14. CASE TakeDeferred
  BY <1>1, <1>14, TakeDeferredFacts DEF ReplyOK
<1>15. CASE Wait
  BY <1>1, <1>15, WaitFacts DEF ReplyOK
<1>16. CASE Pick
  <2>1. ~w.stop
    BY <1>1, <1>16, PickFacts DEF WorkerOK, WorkerHoldsSession, UiOK, BatchOK, Holds, Closing
  <2>. QED BY <1>1, <1>16, <2>1, PickFacts DEF ReplyOK, WorkerOK
<1>17. CASE RequestDrain
  BY <1>1, <1>17, RequestDrainFacts DEF ReplyOK, Cancelled
<1>18. CASE DrainEnds
  BY <1>1, <1>18, DrainEndsFacts DEF ReplyOK, Cancelled, HandOverOK
<1>19. CASE Prefilled
  <2>1. /\ w' = SetState(w, "BUSY") /\ worker.pc = "round" /\ worker'.pc = "generate"
        /\ UNCHANGED <<ui, ask, drain>>
    BY <1>1, <1>19 DEF Prefilled, WorkerAt, WorkerGoes, WorkerType
  <2>2. w'.cmd = w.cmd /\ w'.stop = w.stop /\ w'.interrupt = w.interrupt
    BY <1>1, <2>1, StateFacts
  <2>. QED BY <1>1, <2>1, <2>2 DEF ReplyOK, Cancelled
<1>20. CASE Generated
  BY <1>1, <1>20 DEF Generated, ReplyOK, WorkerAt
<1>21. CASE AppendUser \/ Ask \/ ToolRuns
  BY <1>1, <1>21 DEF AppendUser, Ask, ToolRuns, ReplyOK, WorkerAt
<1>22. CASE AskEnds
  <2>1. worker.pc = "asking" /\ UNCHANGED <<w, ui, drain>>
    BY <1>22 DEF AskEnds, WorkerAt
  <2>2. \/ worker'.pc = "observe" /\ (Cancelled \/ ask.answered)
        \/ UNCHANGED <<ask, worker>>
    BY <1>1, <1>22 DEF AskEnds, WorkerGoes, WorkerType
  <2>. QED BY <1>1, <2>1, <2>2 DEF ReplyOK, Cancelled
<1>. QED BY <1>2, <1>3, <1>4, <1>5, <1>6, <1>7, <1>8, <1>9, <1>10, <1>11, <1>12,
     <1>13, <1>14, <1>15, <1>16, <1>17, <1>18, <1>19, <1>20, <1>21, <1>22 DEF
     Next, WorkerNext, UiNext, UserNext

LEMMA AskKept ==
    ASSUME TurnInv, Next
    PROVE  AskOK'
<1>1. TypesOK /\ ReplyOK /\ AskOK /\ w \in WType /\ worker \in WorkerType /\ ui \in UiType /\ ask \in AskType
  BY DEF TurnInv, AgentInv, TypesOK
<1>2. CASE DrainFd \/ Consume \/ ResetError \/ TakeDrain \/ AnswerDrain \/
          Interrupt \/ SubmitQueue \/ NoLine \/ RequestSave \/ UiSave \/ UiNew
          \/ Pause \/ PauseEnds \/ LeaveClean \/ LeaveNow \/ LeaveCancelled \/
          Stop \/ Join \/ BatchTop \/ PollWake \/ TakeInput \/ BatchEnd \/
          CtrlC \/ TypePrompt \/ TypeSessionCommand \/ TypeRequest \/ TypeExit
          \/ PollInput
  <2>1. UNCHANGED <<ask, worker>>
    BY <1>2 DEF DrainFd, Consume, ResetError, TakeDrain, AnswerDrain,
       Interrupt, SubmitQueue, NoLine, RequestSave, UiSave, UiNew, Pause,
       PauseEnds, LeaveClean, LeaveNow, LeaveCancelled, Stop, Join, BatchTop,
       PollWake, TakeInput, BatchEnd, CtrlC, TypePrompt, TypeSessionCommand,
       TypeRequest, TypeExit, PollInput, Requests
  <2>. QED BY <1>1, <2>1 DEF AskOK
<1>3. CASE Boot \/ Park \/ Wait \/ Pick \/ Stopping \/ TurnInterrupted \/
          TurnFails \/ AppendUser \/ Prefilled \/ Generated \/ Answered \/
          ToolRuns \/ RequestDrain \/ DrainEnds \/ TakeDeferred \/ Compacted
          \/ Saved
  <2>1. ask' = ask
    BY <1>3 DEF Boot, Park, Wait, Pick, Stopping, TurnInterrupted, TurnFails, AppendUser, Prefilled, Generated, Answered, ToolRuns, RequestDrain, DrainEnds, TakeDeferred, Compacted, Saved
  <2>2. worker.pc # "asking"
    BY <1>3 DEF Boot, Park, Wait, Pick, Stopping, TurnInterrupted, TurnFails, AppendUser, Prefilled, Generated, Answered, ToolRuns, RequestDrain, DrainEnds, TakeDeferred, Compacted, Saved, WorkerAt, TurnPcs
  <2>3. worker'.pc # "asking"
    <3>1. CASE Pick \/ Wait \/ RequestDrain \/ DrainEnds \/ TakeDeferred \/ Compacted
      BY <2>2, <3>1, PickFacts, WaitFacts, RequestDrainFacts, DrainEndsFacts, TakeDeferredFacts,
         CompactedFacts, <1>1
    <3>2. CASE Boot \/ Stopping \/ TurnInterrupted \/ TurnFails \/ AppendUser \/ Prefilled
               \/ Generated \/ Answered \/ ToolRuns \/ Saved
      BY <1>1, <3>2 DEF Boot, Stopping, TurnInterrupted, TurnFails, AppendUser, Prefilled,
                        Generated, Answered, ToolRuns, Saved, AfterTurn, WorkerGoes, WorkerType
    <3>3. CASE Park
      BY <1>1, <3>3 DEF Park, WorkerType
    <3>. QED BY <1>3, <3>1, <3>2, <3>3
  <2>. QED BY <1>1, <2>1, <2>2, <2>3 DEF AskOK
<1>4. CASE Ask
  <2>1. ask'.answered = FALSE
    BY <1>1, <1>4 DEF Ask, Asked, AskType
  <2>2. worker'.pc = "asking"
    BY <1>1, <1>4 DEF Ask, WorkerGoes, WorkerType
  <2>. QED BY <2>1, <2>2 DEF AskOK
<1>5. CASE AskEnds
  <2>1. \/ ask'.pending = FALSE /\ worker'.pc = "observe"
        \/ UNCHANGED <<ask, worker>>
    BY <1>1, <1>5 DEF AskEnds, WorkerGoes, WorkerType, AskType
  <2>. QED BY <1>1, <2>1 DEF AskOK
<1>6. CASE AnswerAsk
  <2>1. /\ ui.pc = "prompting" /\ worker' = worker
        /\ ask'.n = ask.n /\ ask'.pending = ask.pending /\ ask'.from = ui.req
    BY <1>1, <1>6 DEF AnswerAsk, UiAt, AskType
  <2>. QED BY <1>1, <2>1 DEF AskOK, ReplyOK
<1>7. CASE TakeAsk
  <2>1. /\ worker' = worker /\ ~ask'.pending
        /\ ask'.n = ask.n /\ ask'.answered = ask.answered /\ ask'.from = ask.from
    BY <1>1, <1>7 DEF TakeAsk, AskType
  <2>. QED BY <1>1, <2>1 DEF AskOK
<1>. QED BY <1>2, <1>3, <1>4, <1>5, <1>6, <1>7 DEF Next, WorkerNext, UiNext, UserNext

LEMMA HandOverKept ==
    ASSUME TurnInv, Next
    PROVE  HandOverOK'
<1>1. /\ TypesOK /\ ReplyOK /\ HandOverOK /\ InterruptOK /\ UiOK
      /\ drain \in DrainType /\ w \in WType /\ worker \in WorkerType /\ ui \in UiType /\ ask \in AskType /\ log \in LogType
  BY DEF TurnInv, AgentInv, TypesOK
<1>2. CASE Boot \/ Park \/ Wait \/ Pick \/ Stopping \/ AppendUser \/ Prefilled
          \/ Generated \/ Answered \/ ToolRuns \/ Ask \/ AskEnds \/
          TakeDeferred \/ Compacted \/ Saved \/ TurnInterrupted \/ TurnFails
  <2>1. UNCHANGED <<drain, ui>>
    BY <1>2 DEF Boot, Park, Wait, Pick, Stopping, AppendUser, Prefilled, Generated, Answered, ToolRuns, Ask, AskEnds, TakeDeferred, Compacted, Saved, TurnInterrupted, TurnFails
  <2>2. worker.pc # "draining"
    BY <1>2 DEF Boot, Park, Wait, Pick, Stopping, AppendUser, Prefilled, Generated, Answered, ToolRuns, Ask, AskEnds, TakeDeferred, Compacted, Saved, TurnInterrupted, TurnFails, WorkerAt, TurnPcs
  <2>3. worker'.pc # "draining"
    <3>1. CASE Pick \/ Wait \/ TakeDeferred \/ Compacted
      BY <2>2, <3>1, PickFacts, WaitFacts, TakeDeferredFacts, CompactedFacts, <1>1
    <3>2. CASE Boot \/ Stopping \/ TurnInterrupted \/ TurnFails \/ AppendUser \/ Prefilled
               \/ Generated \/ Answered \/ ToolRuns \/ Saved \/ Ask \/ AskEnds
      BY <1>1, <2>2, <3>2 DEF Boot, Stopping, TurnInterrupted, TurnFails, AppendUser, Prefilled,
                        Generated, Answered, ToolRuns, Saved, Ask, AskEnds, AfterTurn, WorkerGoes,
                        WorkerType
    <3>3. CASE Park
      BY <1>1, <3>3 DEF Park, WorkerType
    <3>. QED BY <1>2, <3>1, <3>2, <3>3
  <2>4. log'.interrupts = log.interrupts /\ log'.lost = log.lost
    <3>1. \/ log' = log \/ log' = [log EXCEPT !.gone = log.gone \union ToSet(worker.turn)]
      BY <1>2 DEF Boot, Park, Wait, Pick, Stopping, AppendUser, Prefilled, Generated, Answered, ToolRuns, Ask, AskEnds, TakeDeferred, Compacted, Saved, TurnInterrupted, TurnFails
    <3>. QED BY <1>1, <3>1 DEF LogType
  <2>. QED BY <1>1, <2>1, <2>2, <2>3, <2>4 DEF HandOverOK, Interrupted
<1>3. CASE RequestDrain
  <2>1. ToSet(<<>>) = {}
    BY DEF ToSet
  <2>. QED BY <1>1, <1>3, <2>1, RequestDrainFacts DEF HandOverOK, Interrupted
<1>4. CASE DrainEnds
  <2>1. ui.pc = "answer" => ~w.stop /\ (w.interrupt => Interrupted)
    BY <1>1 DEF UiOK, InterruptOK, Interrupted
  <2>. QED BY <1>1, <1>4, <2>1, DrainEndsFacts DEF HandOverOK, Interrupted, Cancelled
<1>5. CASE DrainFd \/ Consume \/ ResetError \/ Interrupt \/ TakeAsk \/
          AnswerAsk \/ NoLine \/ RequestSave \/ UiSave \/ LeaveClean \/
          LeaveNow \/ LeaveCancelled \/ Stop \/ Join \/ PollWake \/ BatchEnd
          \/ CtrlC \/ TypeSessionCommand \/ TypeRequest \/ TypeExit
  <2>1. UNCHANGED <<drain, worker>>
    BY <1>5 DEF DrainFd, Consume, ResetError, Interrupt, TakeAsk, AnswerAsk, NoLine, RequestSave, UiSave, LeaveClean, LeaveNow, LeaveCancelled, Stop, Join, PollWake, BatchEnd, CtrlC, TypeSessionCommand, TypeRequest, TypeExit, Requests
  <2>2. log'.lost = log.lost /\ (log.interrupts > 0 => log'.interrupts > 0)
    <3>1. \/ log' = log \/ log' = [log EXCEPT !.commands = log.commands + 1]
          \/ log' = [log EXCEPT !.interrupts = log.interrupts + 1, !.asked = TRUE]
      BY <1>5 DEF DrainFd, Consume, ResetError, Interrupt, TakeAsk, AnswerAsk, NoLine, RequestSave, UiSave, LeaveClean, LeaveNow, LeaveCancelled, Stop, Join, PollWake, BatchEnd, CtrlC, TypeSessionCommand, TypeRequest, TypeExit, Entered
    <3>2. log.interrupts \in Nat
      BY <1>1, AgentAssumption DEF LogType
    <3>3. log'.lost = log.lost /\ log'.interrupts \in {log.interrupts, log.interrupts + 1}
      BY <1>1, <3>1 DEF LogType
    <3>. QED BY <3>2, <3>3
  <2>3. ui.pc # "answer" /\ ui'.pc # "answer" /\ ui'.mode = ui.mode /\ ui'.hand = ui.hand
    <3>1. CASE Consume \/ TypeSessionCommand \/ BatchEnd \/ TakeAsk
      <4>1. ui.pc # "answer"
        BY <3>1 DEF Consume, TypeSessionCommand, BatchEnd, TakeAsk, Enters, UiAt
      <4>. QED BY <1>1, <3>1, <4>1
               DEF Consume, TypeSessionCommand, BatchEnd, TakeAsk, UiGoes, UiType
    <3>2. CASE ~(Consume \/ TypeSessionCommand \/ BatchEnd \/ TakeAsk)
      <4>1. PICK pc \in EditorPcs \union BatchPcs : UiGoes(pc) /\ pc # "answer"
        BY <1>5, <3>2 DEF DrainFd, ResetError, Interrupt, AnswerAsk, NoLine, RequestSave, UiSave, LeaveClean, LeaveNow, LeaveCancelled, Stop, Join, PollWake, CtrlC, TypeRequest, TypeExit, Requests, EditorPcs, BatchPcs, Closing
      <4>2. ui.pc # "answer"
        BY <1>5 DEF DrainFd, Consume, ResetError, Interrupt, TakeAsk, AnswerAsk, NoLine, RequestSave, UiSave, LeaveClean, LeaveNow, LeaveCancelled, Stop, Join, PollWake, BatchEnd, CtrlC, TypeSessionCommand, TypeRequest, TypeExit, Enters, UiAt
      <4>. QED BY <1>1, <4>1, <4>2 DEF UiGoes, UiType
    <3>. QED BY <3>1, <3>2
  <2>. QED BY <1>1, <2>1, <2>2, <2>3 DEF HandOverOK, Interrupted
<1>6. CASE UiNew
  BY <1>1, <1>6, UiNewFacts DEF HandOverOK, Interrupted
<1>7. CASE Pause \/ PauseEnds
  BY <1>1, <1>7, PauseFacts DEF HandOverOK, Interrupted
<1>8. CASE SubmitQueue \/ BatchTop \/ TakeInput \/ TypePrompt
  BY <1>1, <1>8, SubmittingFacts DEF HandOverOK, Interrupted
<1>9. CASE PollInput
  <2>1. \E pc \in {"drainfd", "consume"} :
          \/ ui' = [ui EXCEPT !.pc = pc, !.input = <<log.typed + 1>>]
          \/ ui' = [ui EXCEPT !.pc = pc, !.eof = TRUE]
    BY <1>9 DEF PollInput
  <2>2. ui'.pc \in {"drainfd", "consume"} /\ ui'.mode = ui.mode /\ ui'.hand = ui.hand
    BY <1>1, <2>1 DEF UiType
  <2>3. UNCHANGED <<drain, worker>> /\ ui.pc = "poll"
        /\ (log' = log \/ log' = [log EXCEPT !.typed = log.typed + 1])
    BY <1>9 DEF PollInput, UiAt
  <2>4. log'.lost = log.lost /\ log'.interrupts = log.interrupts
    BY <1>1, <2>3 DEF LogType
  <2>. QED BY <1>1, <2>2, <2>3, <2>4 DEF HandOverOK, Interrupted
<1>10. CASE TakeDrain
  <2>1. /\ UNCHANGED <<worker, log>> /\ ui'.pc = "answer" /\ ui'.mode = ui.mode
        /\ drain'.text = drain.text /\ drain'.answered = drain.answered /\ ~drain'.pending
        /\ drain.pending
    BY <1>1, <1>10 DEF TakeDrain, UiType, DrainType
  <2>. QED BY <1>1, <2>1 DEF HandOverOK, Interrupted
<1>11. CASE AnswerDrain
  <2>1. /\ worker' = worker /\ drain'.answered /\ drain'.pending = drain.pending
        /\ ui.pc = "answer"
    BY <1>1, <1>11 DEF AnswerDrain, UiAt, DrainType
  <2>2. ui'.pc # "answer" /\ ui'.mode = ui.mode /\ ui'.hand = <<>>
    BY <1>1, <1>11 DEF AnswerDrain, UiType
  <2>3. log' = [log EXCEPT !.lost = log.lost \union ToSet(drain.text)]
    BY <1>11 DEF AnswerDrain
  <2>4. log'.lost = log.lost \union ToSet(drain.text) /\ log'.interrupts = log.interrupts
    BY <1>1, <2>3 DEF LogType
  <2>5. ToSet(<<>>) = {}
    BY DEF ToSet
  <2>. QED BY <1>1, <2>1, <2>2, <2>4, <2>5 DEF HandOverOK, ReplyOK, Interrupted
<1>. QED BY <1>2, <1>3, <1>4, <1>5, <1>6, <1>7, <1>8, <1>9, <1>10, <1>11 DEF Next,
     WorkerNext, UiNext, UserNext

LEMMA TurnInit ==
    ASSUME Init
    PROVE  TurnInv
<1>1. AgentInv
  BY AgentInit
<1>2. /\ w.interrupt = FALSE /\ worker.pc = "boot" /\ ui.pc \in {"consume", "top"}
      /\ ask = NoAsk /\ drain = NoDrain /\ ui.hand = <<>> /\ log.lost = {}
  BY DEF Init
<1>. QED BY <1>1, <1>2 DEF TurnInv, InterruptOK, ReplyOK, AskOK, HandOverOK, NoAsk, NoDrain

LEMMA TurnNext ==
    ASSUME TurnInv, [Next]_vars
    PROVE  TurnInv'
<1>1. AgentInv'
  BY AgentNext DEF TurnInv
<1>2. CASE Next
  BY <1>1, <1>2, InterruptKept, ReplyKept, AskKept, HandOverKept DEF TurnInv
<1>3. CASE UNCHANGED vars
  BY <1>1, <1>3 DEF vars, TurnInv, InterruptOK, ReplyOK, Cancelled, AskOK, HandOverOK,
                    Interrupted
<1>. QED BY <1>2, <1>3

LEMMA TurnInvAlways == Spec => []TurnInv
BY TurnInit, TurnNext, PTL DEF Spec

\* An answer the worker acts on is the answer to the question it asks, however
\* late the user is with it: a question withdrawn by an interrupt is answered
\* before the next one can be asked (agent_web_confirm, agent_request_password).
THEOREM AnswersAreForTheirQuestions == Spec => []AnswersMatch
<1>1. TurnInv => AnswersMatch
  BY DEF TurnInv, AskOK, AnswersMatch
<1>. QED BY <1>1, TurnInvAlways, PTL

\* A turn is cancelled only by an interrupt asked for since its prompt was
\* submitted: submission and the end of worker_pause clear what came too late.
THEOREM InterruptsAreForThisTurn == Spec => []InterruptIsForThisTurn
<1>1. TurnInv => InterruptIsForThisTurn
  BY DEF TurnInv, InterruptOK, InterruptIsForThisTurn
<1>. QED BY <1>1, TurnInvAlways, PTL
================================================================================
