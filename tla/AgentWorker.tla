------------------------------ MODULE AgentWorker ------------------------------
(* q36-agent runs two threads. The worker owns the model session and the       *)
(* transcript while it is active; the UI thread owns them while the worker is  *)
(* parked. They share agent_worker under one mutex, one condition variable on  *)
(* which both may sleep, and a pipe that wakes the UI's poll. Each action is   *)
(* one critical section (or the work between two of them). Three front ends    *)
(* drive the worker: the editor, the stdin protocol, and one prompt (-p).      *)
EXTENDS Integers, Sequences, FiniteSets, SequencesExt

CONSTANTS Modes,          \* front ends a run starts from
          Commands,       \* commands the user may enter besides prompts
          MaxPrompts,     \* prompts typed in a run
          MaxInterrupts,  \* Ctrl+C presses while the worker is busy
          MaxCommands,    \* commands entered
          MaxRounds       \* tool rounds of a turn

ASSUME AgentAssumption ==
    /\ Modes \subseteq {"editor", "stdin", "oneshot"}
    /\ Commands \subseteq {"save", "compact", "power", "new", "exit"}
    /\ MaxPrompts \in Nat \ {0} /\ MaxInterrupts \in Nat
    /\ MaxCommands \in Nat /\ MaxRounds \in Nat

VARIABLES
    w,         \* the fields of agent_worker the mutex protects
    drain,     \* the worker's request for the UI's queued prompts
    ask,       \* the worker's question to the user (browser approval, password)
    sleeping,  \* threads asleep on the condition variable
    worker,    \* the worker thread: where it is and what it holds
    session,   \* transcript, what the session file holds, and the dirty flags
    ui,        \* the UI thread: where it is and what it holds
    log        \* counters of the bounds, and history for the properties

vars == <<w, drain, ask, sleeping, worker, session, ui, log>>

Prompts == 1..MaxPrompts
NoDrain == [pending |-> FALSE, answered |-> FALSE, text |-> <<>>]
NoAsk == [n |-> 0, pending |-> FALSE, answered |-> FALSE, allow |-> FALSE, from |-> 0]
EmptySession == [transcript |-> <<>>, saved |-> <<>>, dirty |-> FALSE, activity |-> FALSE]

Init ==
    /\ w = [initialized |-> FALSE, active |-> TRUE, paused |-> FALSE, stop |-> FALSE,
            interrupt |-> FALSE, cmd |-> <<>>, requests |-> {}, state |-> "IDLE",
            wakePending |-> FALSE, pipe |-> FALSE]
    /\ drain = NoDrain /\ ask = NoAsk /\ sleeping = {}
    /\ worker = [pc |-> "boot", turn |-> <<>>, rounds |-> 0, chain |-> <<>>]
    /\ session = EmptySession
    /\ \E m \in Modes, initial \in {<<>>, <<1>>} :
         /\ (m = "oneshot" => initial # <<>>) /\ (m = "stdin" => initial = <<>>)
         /\ ui = [mode |-> m, pc |-> IF m = "editor" THEN "consume" ELSE "top",
                  queue |-> <<>>, hand |-> <<>>, input |-> <<>>, initial |-> initial,
                  open |-> FALSE, eof |-> FALSE, error |-> FALSE,
                  req |-> 0]
         /\ log = [typed |-> Len(initial), interrupts |-> 0, commands |-> 0,
                   gone |-> {}, lost |-> {}, asked |-> FALSE]

(* ---------------------------------------------------------------- helpers -- *)

\* agent_wake_locked: one byte in the pipe until the UI has consumed. The poll of
\* the editor returns within 100 ms anyway, so its pipe is not followed.
Wake(r) ==
    IF r.wakePending \/ ui.mode = "editor" THEN r
    ELSE [r EXCEPT !.wakePending = TRUE, !.pipe = TRUE]

SetState(r, s) == Wake([r EXCEPT !.state = s])

\* pthread_cond_signal wakes one sleeper, pthread_cond_broadcast all of them.
Signal == sleeping' \in IF sleeping = {} THEN {{}} ELSE {sleeping \ {t} : t \in sleeping}
Broadcast == sleeping' = {}

\* A thread asleep on the condition variable does not run.
Awake(t) == t \notin sleeping

Cancelled == w.interrupt \/ w.stop

\* The condition of worker_wait_for_work: something to do, or the end.
HasWork(r) == r.stop \/ r.cmd # <<>> \/ (~r.paused /\ r.requests # {})

\* What an idle check by the published status alone would answer.
IdleByStatus(r) == r.initialized /\ r.state \in {"IDLE", "ERROR"}

IsIdle(r) ==
    /\ r.initialized /\ ~r.active /\ r.cmd = <<>>
    /\ r.paused \/ r.requests = {}
    /\ r.state \in {"IDLE", "ERROR"}

CanSubmit(r) ==
    /\ r.initialized /\ ~r.active /\ ~r.paused
    /\ r.state = "IDLE" /\ r.cmd = <<>> /\ r.requests = {}

SubmitKeepingInterrupt(ps) == [w EXCEPT !.cmd = ps, !.state = "BUSY"]

Submitted(ps) == [w EXCEPT !.interrupt = FALSE, !.cmd = ps, !.state = "BUSY"]

\* worker_submit, accepted: the worker is signalled, and no interrupt has been
\* asked for since.
Submit(ps) ==
    /\ w' = Submitted(ps)
    /\ Signal
    /\ log' = [log EXCEPT !.asked = FALSE]

WorkerAt(pc) == worker.pc = pc /\ Awake("worker") /\ ui.pc \notin {"exited", "done"}
WorkerGoes(pc) == worker' = [worker EXCEPT !.pc = pc]

UiAt(pc) == ui.pc = pc /\ Awake("ui")
UiGoes(pc) == ui' = [ui EXCEPT !.pc = pc]

(* ---------------------------------------------- worker: deferred operations -- *)

\* The next deferred operation that was requested; a paused worker only applies
\* power. The operations before it, whose requests are not there, do nothing.
Due(op) == op \in w.requests /\ (op = "power" \/ ~w.paused)

NextDue == CHOOSE i \in 1..Len(worker.chain) :
               Due(worker.chain[i]) /\ \A j \in 1..(i - 1) : ~Due(worker.chain[j])

NothingDue == \A i \in 1..Len(worker.chain) : ~Due(worker.chain[i])

\* Power is set at once; there may be nothing to compact.
AtOnce(op) == op = "power" \/ (op = "compact" /\ ~session.activity)

TakeDeferred ==
    /\ WorkerAt("deferred")
    /\ ~NothingDue
    /\ LET op == worker.chain[NextDue]
           taken == [w EXCEPT !.requests = @ \ {op}] IN
         /\ worker' = [worker EXCEPT !.chain = SubSeq(@, NextDue + 1, Len(@)),
                         !.pc = IF AtOnce(op) THEN "deferred"
                                ELSE IF op = "save" THEN "saving" ELSE "compacting"]
         /\ w' = IF AtOnce(op) THEN Wake(taken) ELSE SetState(taken, "BUSY")
    /\ UNCHANGED <<drain, ask, sleeping, session, ui, log>>

(* ------------------------------------------------- worker: start and park -- *)

\* agent_worker_reset_to_sysprompt on the worker thread. The prefill of the system
\* prompt may fail or be interrupted; loading a cached one, or a prefill past its
\* last chunk, does not look at the interrupt, which stays.
Boot ==
    /\ WorkerAt("boot")
    /\ \E s \in {"IDLE", "ERROR"} : w' = SetState([w EXCEPT !.initialized = TRUE], s)
    /\ WorkerGoes("deferred")
    /\ UNCHANGED <<drain, ask, sleeping, session, ui, log>>

\* worker_wait_for_work: gives the session up, wakes whoever waits for that, and
\* takes it back at once if there is something to do.
Park ==
    /\ WorkerAt("deferred")
    /\ NothingDue
    /\ LET runs == HasWork(w) /\ ~w.stop IN
         /\ w' = Wake([w EXCEPT !.active = runs])
         /\ sleeping' = IF HasWork(w) THEN {} ELSE {"worker"}
         /\ worker' = [worker EXCEPT !.chain = <<>>,
                           !.pc = IF ~HasWork(w) THEN "wait" ELSE IF runs THEN "pick" ELSE "stopping"]
    /\ UNCHANGED <<drain, ask, session, ui, log>>

Wait ==
    /\ WorkerAt("wait")
    /\ IF HasWork(w)
       THEN /\ w' = [w EXCEPT !.active = ~w.stop]
            /\ WorkerGoes(IF w.stop THEN "stopping" ELSE "pick")
            /\ UNCHANGED sleeping
       ELSE sleeping' = sleeping \union {"worker"} /\ UNCHANGED <<w, worker>>
    /\ UNCHANGED <<drain, ask, session, ui, log>>

\* The choice of worker_main: stop, power, save, compaction, then the prompt.
Pick ==
    /\ WorkerAt("pick")
    /\ LET maintenance == IF "power" \in w.requests THEN <<"power">>
                          ELSE IF w.cmd # <<>> \/ w.requests = {} THEN <<>>
                          ELSE IF "save" \in w.requests THEN <<"save">> ELSE <<"compact">>
       IN IF w.stop
          THEN WorkerGoes("stopping") /\ UNCHANGED w
          ELSE IF maintenance # <<>>
          THEN worker' = [worker EXCEPT !.pc = "deferred", !.chain = maintenance] /\ UNCHANGED w
          ELSE /\ worker' = [worker EXCEPT !.pc = "admit", !.turn = w.cmd, !.rounds = 0]
               /\ w' = Wake([w EXCEPT !.cmd = <<>>])
    /\ UNCHANGED <<drain, ask, sleeping, session, ui, log>>

Stopping ==
    /\ WorkerAt("stopping")
    /\ w' = SetState(w, "STOPPED")
    /\ WorkerGoes("stopped")
    /\ UNCHANGED <<drain, ask, sleeping, session, ui, log>>

(* ------------------------------------------------------- worker: one turn -- *)

\* What worker_main does after a turn.
AfterTurn == [worker EXCEPT !.pc = "deferred", !.turn = <<>>,
                            !.chain = <<"power", "compact", "save">>]

\* Where a turn may be cut short: during a compaction, the prefill or between
\* two tokens.
TurnPcs == {"admit", "round", "generate", "observe"}

\* The turn notices the interrupt, acknowledges it and publishes IDLE. A prompt
\* not yet in the transcript is dropped with it.
TurnInterrupted ==
    /\ \E pc \in TurnPcs : WorkerAt(pc)
    /\ Cancelled
    /\ w' = SetState([w EXCEPT !.interrupt = FALSE], "IDLE")
    /\ worker' = AfterTurn
    /\ log' = [log EXCEPT !.gone = @ \union ToSet(worker.turn)]
    /\ UNCHANGED <<drain, ask, sleeping, session, ui>>

\* A message too large, a failed compaction, prefill or evaluation.
TurnFails ==
    /\ \E pc \in TurnPcs : WorkerAt(pc)
    /\ w' = SetState(w, "ERROR")
    /\ worker' = AfterTurn
    /\ log' = [log EXCEPT !.gone = @ \union ToSet(worker.turn)]
    /\ UNCHANGED <<drain, ask, sleeping, session, ui>>

\* agent_worker_append_user, with the compaction that makes room for it.
AppendUser ==
    /\ WorkerAt("admit")
    /\ session' = [session EXCEPT !.transcript = @ \o worker.turn,
                                  !.dirty = TRUE, !.activity = TRUE]
    /\ worker' = [worker EXCEPT !.pc = "round", !.turn = <<>>]
    /\ w' = Wake(w)
    /\ UNCHANGED <<drain, ask, sleeping, ui, log>>

\* Compaction if needed, then the prefill of the transcript.
Prefilled ==
    /\ WorkerAt("round")
    /\ WorkerGoes("generate")
    /\ w' = SetState(w, "BUSY")
    /\ UNCHANGED <<drain, ask, sleeping, session, ui, log>>

\* Generation stops and the interrupt is read once: the answer is complete, a
\* tool is called, or the context is full and is compacted.
Generated ==
    /\ WorkerAt("generate")
    /\ ~Cancelled
    /\ \/ WorkerGoes("answered")
       \/ worker.rounds < MaxRounds /\ WorkerGoes("tool")
       \/ worker.rounds < MaxRounds /\ worker' = [worker EXCEPT !.pc = "round", !.rounds = @ + 1]
    /\ UNCHANGED <<w, drain, ask, sleeping, session, ui, log>>

\* The turn ends by itself: an interrupt that came after the check stays.
Answered ==
    /\ WorkerAt("answered")
    /\ w' = SetState(w, "IDLE")
    /\ worker' = AfterTurn
    /\ UNCHANGED <<drain, ask, sleeping, session, ui, log>>

\* A tool runs to its end or stops at an interrupt.
ToolRuns ==
    /\ WorkerAt("tool")
    /\ WorkerGoes("observe")
    /\ UNCHANGED <<w, drain, ask, sleeping, session, ui, log>>

AskKeepingAnswer == [ask EXCEPT !.n = @ + 1, !.pending = ~Cancelled, !.allow = FALSE]

\* The fields a new question sets; one cancelled at once is withdrawn.
Asked == [ask EXCEPT !.n = @ + 1, !.pending = ~Cancelled, !.answered = FALSE, !.allow = FALSE]

\* agent_web_confirm, agent_request_password. A question cancelled at once is not
\* waited for: only the editor can be asked.
Ask ==
    /\ WorkerAt("tool")
    /\ ui.mode = "editor"
    /\ ask' = Asked
    /\ w' = Wake(w)
    /\ WorkerGoes("asking")
    /\ sleeping' = IF Cancelled \/ ask'.answered THEN sleeping ELSE sleeping \union {"worker"}
    /\ UNCHANGED <<drain, session, ui, log>>

AskEnds ==
    /\ WorkerAt("asking")
    /\ IF Cancelled \/ ask.answered
       THEN ask' = [ask EXCEPT !.pending = FALSE] /\ WorkerGoes("observe") /\ UNCHANGED sleeping
       ELSE sleeping' = sleeping \union {"worker"} /\ UNCHANGED <<ask, worker>>
    /\ UNCHANGED <<w, drain, session, ui, log>>

\* The observation enters the transcript, then the UI is asked for the prompts
\* it queued. A text no one read since the last request is freed.
RequestDrain ==
    /\ WorkerAt("observe")
    /\ w' = Wake(w)
    /\ log' = [log EXCEPT !.lost = @ \union ToSet(drain.text)]
    /\ IF Cancelled
       THEN /\ drain' = NoDrain
            /\ worker' = [worker EXCEPT !.pc = "round", !.rounds = @ + 1]
            /\ UNCHANGED sleeping
       ELSE /\ drain' = [NoDrain EXCEPT !.pending = TRUE]
            /\ WorkerGoes("draining")
            /\ sleeping' = (sleeping \ {"ui"}) \union {"worker"}
    /\ UNCHANGED <<ask, session, ui>>

DrainEnds ==
    /\ WorkerAt("draining")
    /\ IF Cancelled \/ drain.answered
       THEN /\ drain' = NoDrain
            /\ worker' = [worker EXCEPT !.pc = IF drain.text = <<>> THEN "round" ELSE "admit",
                                        !.turn = drain.text, !.rounds = @ + 1]
            /\ UNCHANGED sleeping
       ELSE sleeping' = sleeping \union {"worker"} /\ UNCHANGED <<drain, worker>>
    /\ UNCHANGED <<w, ask, session, ui, log>>

\* A compaction replaces the transcript or leaves it as it was.
Compacted ==
    /\ WorkerAt("compacting")
    /\ \/ w' = SetState(w, "IDLE") /\ session' = [session EXCEPT !.dirty = TRUE]
       \/ w' = SetState(w, "IDLE") /\ UNCHANGED session
       \/ Cancelled /\ w' = SetState([w EXCEPT !.interrupt = FALSE], "IDLE") /\ UNCHANGED session
       \/ w' = SetState(w, "ERROR") /\ UNCHANGED session
    /\ WorkerGoes("deferred")
    /\ UNCHANGED <<drain, ask, sleeping, ui, log>>

\* agent_worker_save_session_now writes the transcript under the session's name;
\* cancelled or failing, it leaves the file and the interrupt as they were.
Written == [session EXCEPT !.saved = session.transcript, !.dirty = FALSE]

Saved ==
    /\ WorkerAt("saving")
    /\ \/ session.activity /\ session' = Written
       \/ UNCHANGED session
    /\ w' = SetState(w, "IDLE")
    /\ WorkerGoes("deferred")
    /\ UNCHANGED <<drain, ask, sleeping, ui, log>>

WorkerNext ==
    \/ Boot \/ Park \/ Wait \/ Pick \/ Stopping
    \/ TurnInterrupted \/ TurnFails \/ AppendUser \/ Prefilled \/ Generated \/ Answered
    \/ ToolRuns \/ Ask \/ AskEnds \/ RequestDrain \/ DrainEnds
    \/ TakeDeferred \/ Compacted \/ Saved

(* ------------------------------------------------- UI: consume and respond -- *)

\* The pipe is emptied when poll reported it readable.
DrainFd ==
    /\ UiAt("drainfd")
    /\ w' = [w EXCEPT !.pipe = FALSE]
    /\ UiGoes("consume")
    /\ UNCHANGED <<drain, ask, sleeping, worker, session, log>>

\* worker_consume: takes output and status, and lets the worker wake the UI again.
Consume ==
    /\ UiAt("consume")
    /\ w' = [w EXCEPT !.wakePending = FALSE]
    /\ LET error == w.state = "ERROR" IN
         ui' = [ui EXCEPT !.error = error,
                          !.pc = IF error /\ ui.mode = "editor" THEN "reset" ELSE "serve"]
    /\ UNCHANGED <<drain, ask, sleeping, worker, session, log>>

\* The editor reports the error and makes the worker submittable again.
ResetError ==
    /\ UiAt("reset")
    /\ w' = [w EXCEPT !.state = "IDLE"]
    /\ UiGoes("serve")
    /\ UNCHANGED <<drain, ask, sleeping, worker, session, log>>

\* The worker waits for one thing at a time: the checks for a drain, a password
\* and an approval are one step, and so is what follows when there is none.
NothingPending == ~drain.pending /\ ~ask.pending

TakeDrain ==
    /\ UiAt("serve")
    /\ drain.pending
    /\ drain' = [drain EXCEPT !.pending = FALSE]
    /\ ui' = [ui EXCEPT !.pc = "answer", !.hand = ui.queue, !.queue = <<>>]
    /\ UNCHANGED <<w, ask, sleeping, worker, session, log>>

AnswerDrain ==
    /\ UiAt("answer")
    /\ drain' = [drain EXCEPT !.answered = TRUE, !.text = ui.hand]
    /\ log' = [log EXCEPT !.lost = @ \union ToSet(drain.text)]
    /\ ui' = [ui EXCEPT !.pc = IF ui.mode = "editor" THEN "consume" ELSE "input", !.hand = <<>>]
    /\ w' = Wake(w)
    /\ Signal
    /\ UNCHANGED <<ask, worker, session>>

(* ----------------------------------------------------------- UI: the editor -- *)

\* The loop of run_agent starts over before "consume". Ctrl+C, or Escape beside
\* queued prompts, interrupts a worker that is not idle; else it clears the line.
CtrlC ==
    /\ UiAt("consume") /\ ui.mode = "editor"
    /\ log.interrupts < MaxInterrupts
    /\ ~IsIdle(w)
    /\ UiGoes("interrupt")
    /\ UNCHANGED <<w, drain, ask, sleeping, worker, session, log>>

Interrupt ==
    /\ UiAt("interrupt")
    /\ w' = [w EXCEPT !.interrupt = TRUE]
    /\ Broadcast
    /\ log' = [log EXCEPT !.interrupts = @ + 1, !.asked = TRUE]
    /\ UiGoes("consume")
    /\ UNCHANGED <<drain, ask, worker, session>>

TakeAsk ==
    /\ UiAt("serve")
    /\ ask.pending /\ ~drain.pending
    /\ ask' = [ask EXCEPT !.pending = FALSE]
    /\ ui' = [ui EXCEPT !.pc = "prompting", !.req = ask.n]
    /\ UNCHANGED <<w, drain, sleeping, worker, session, log>>

\* The user answers, or the 30 seconds or the job's deadline pass.
AnswerAsk ==
    /\ UiAt("prompting")
    /\ \E allow \in BOOLEAN :
         ask' = [ask EXCEPT !.answered = TRUE, !.allow = allow, !.from = ui.req]
    /\ w' = Wake(w)
    /\ Signal
    /\ UiGoes("consume")
    /\ UNCHANGED <<drain, worker, session, log>>

\* The initial prompt first, then everything queued as one prompt. Only this
\* thread can make an idle worker busy, so the check and the submission are one
\* step; a submission can still be refused, by the state ERROR.
SubmitQueue ==
    /\ UiAt("serve") /\ ui.mode = "editor"
    /\ NothingPending
    /\ IF ui.initial # <<>> /\ CanSubmit(w)
       THEN Submit(ui.initial) /\ ui' = [ui EXCEPT !.pc = "line", !.initial = <<>>]
       ELSE IF ui.initial = <<>> /\ ui.queue # <<>> /\ CanSubmit(w)
       THEN Submit(ui.queue) /\ ui' = [ui EXCEPT !.pc = "line", !.queue = <<>>]
       ELSE UiGoes("line") /\ UNCHANGED <<w, sleeping, log>>
    /\ UNCHANGED <<drain, ask, worker, session>>

NoLine ==
    /\ UiAt("line")
    /\ UiGoes("consume")
    /\ UNCHANGED <<w, drain, ask, sleeping, worker, session, log>>

\* A prompt is queued behind a busy worker and submitted to an idle one; a line
\* the worker refuses goes back to the editor, which is NoLine.
TypePrompt ==
    /\ UiAt("line") /\ log.typed < MaxPrompts
    /\ LET p == log.typed + 1 IN
         IF IsIdle(w)
         THEN /\ CanSubmit(w)
              /\ w' = Submitted(<<p>>) /\ Signal
              /\ log' = [log EXCEPT !.typed = p, !.asked = FALSE]
              /\ UiGoes("consume")
         ELSE /\ log' = [log EXCEPT !.typed = p]
              /\ ui' = [ui EXCEPT !.pc = "consume", !.queue = Append(@, p)]
              /\ UNCHANGED <<w, sleeping>>
    /\ UNCHANGED <<drain, ask, worker, session>>

Enters(c) == UiAt("line") /\ c \in Commands /\ log.commands < MaxCommands
Entered == log' = [log EXCEPT !.commands = @ + 1]

\* /save, /new: on this thread when the worker is idle. A busy worker is asked
\* to save; /new is refused. (/switch and /steer use the session as /new does.)
TypeSessionCommand ==
    /\ \E c \in {"save", "new"} :
         /\ Enters(c)
         /\ c = "new" => IsIdle(w)
         /\ UiGoes(IF IsIdle(w) THEN c ELSE "request")
    /\ Entered
    /\ UNCHANGED <<w, drain, ask, sleeping, worker, session>>

Requests(op) ==
    /\ w' = Wake([w EXCEPT !.requests = @ \union {op}])
    /\ Signal
    /\ UiGoes("consume")
    /\ UNCHANGED <<drain, ask, worker, session>>

RequestSave == UiAt("request") /\ Requests("save") /\ UNCHANGED log

\* /compact and /power are requests whatever the worker does.
TypeRequest == \E op \in {"compact", "power"} : Enters(op) /\ Entered /\ Requests(op)

\* The UI thread writes the session file of an idle worker.
UiSave ==
    /\ UiAt("save")
    /\ \/ session.activity /\ session' = Written
       \/ UNCHANGED session
    /\ UiGoes("consume")
    /\ UNCHANGED <<w, drain, ask, sleeping, worker, log>>

\* /new, once the user saved or declined to: the transcript is the system prompt.
\* A prefill that fails or is interrupted leaves the flags and the state BUSY.
UiNew ==
    /\ UiAt("new")
    /\ \E before \in {session} \union (IF session.activity THEN {Written} ELSE {}) :
         \/ session' = before /\ UNCHANGED <<w, log>>
         \/ /\ log' = [log EXCEPT !.gone = @ \union ToSet(session.transcript)]
            /\ \/ session' = EmptySession /\ w' = SetState(w, "IDLE")
               \/ /\ session' = [before EXCEPT !.transcript = <<>>]
                  /\ w' = SetState(w, "BUSY")
    /\ UiGoes("consume")
    /\ UNCHANGED <<drain, ask, sleeping, worker>>

(* -------------------------------------------------------------- UI: leaving -- *)

\* End of file or /quit: the loop ends and the user may be asked to save.
TypeExit ==
    /\ Enters("exit")
    /\ Entered
    /\ UiGoes("pause")
    /\ UNCHANGED <<w, drain, ask, sleeping, worker, session>>

\* The worker still holds the session or a prompt.
Holds == w.active \/ w.cmd # <<>>

PausedQuietly == [w EXCEPT !.paused = TRUE]

Paused == [w EXCEPT !.paused = TRUE, !.interrupt = @ \/ Holds]

\* worker_pause: interrupt the turn, then sleep until the worker holds nothing.
Pause ==
    /\ UiAt("pause")
    /\ IF Holds
       THEN w' = Paused /\ sleeping' = {"ui"} /\ UiGoes("pausing")
       ELSE w' = [Paused EXCEPT !.interrupt = FALSE] /\ Broadcast /\ UiGoes("leaving")
    /\ log' = [log EXCEPT !.asked = @ \/ Holds]
    /\ UNCHANGED <<drain, ask, worker, session>>

PauseEnds ==
    /\ UiAt("pausing")
    /\ IF Holds
       THEN sleeping' = sleeping \union {"ui"} /\ UNCHANGED <<w, ui>>
       ELSE w' = [w EXCEPT !.interrupt = FALSE] /\ UiGoes("leaving") /\ UNCHANGED sleeping
    /\ UNCHANGED <<drain, ask, worker, session, log>>

NeedsSave == session.activity /\ session.dirty

\* Nothing to save, or saved: the orderly end. Declined, or not saved and not
\* minded: exit(0). Not saved and minded: back to the editor.
LeaveClean ==
    /\ UiAt("leaving")
    /\ IF NeedsSave THEN IsIdle(w) /\ session' = Written ELSE UNCHANGED session
    /\ UiGoes("stop")
    /\ UNCHANGED <<w, drain, ask, sleeping, worker, log>>

LeaveNow ==
    /\ UiAt("leaving") /\ NeedsSave
    /\ UiGoes("exited")
    /\ UNCHANGED <<w, drain, ask, sleeping, worker, session, log>>

ResumeUnseen ==
    /\ UiAt("leaving") /\ NeedsSave
    /\ w' = [w EXCEPT !.paused = FALSE]
    /\ UiGoes("consume")
    /\ UNCHANGED <<drain, ask, sleeping, worker, session, log>>

LeaveCancelled ==
    /\ UiAt("leaving") /\ NeedsSave
    /\ w' = [w EXCEPT !.paused = FALSE]
    /\ Broadcast
    /\ UiGoes("consume")
    /\ UNCHANGED <<drain, ask, worker, session, log>>

\* agent_worker_free: stop, join, and free what was left.
Stop ==
    /\ UiAt("stop")
    /\ w' = [w EXCEPT !.stop = TRUE]
    /\ Broadcast
    /\ UiGoes("joining")
    /\ UNCHANGED <<drain, ask, worker, session, log>>

Join ==
    /\ UiAt("joining")
    /\ worker.pc = "stopped"
    /\ UiGoes("done")
    /\ UNCHANGED <<w, drain, ask, sleeping, worker, session, log>>

(* ------------------------------------------- UI: the stdin and -p front ends -- *)

\* The one prompt once the worker is initialized; otherwise what was queued.
BatchTop ==
    /\ UiAt("top") /\ ui.mode # "editor"
    /\ LET opened == [ui EXCEPT !.pc = "poll", !.open = w.initialized] IN
         IF ui.initial # <<>> /\ CanSubmit(w)
         THEN Submit(ui.initial) /\ ui' = [opened EXCEPT !.initial = <<>>]
         ELSE IF ui.queue # <<>> /\ CanSubmit(w)
         THEN Submit(ui.queue) /\ ui' = [opened EXCEPT !.queue = <<>>]
         ELSE ui' = opened /\ UNCHANGED <<w, sleeping, log>>
    /\ UNCHANGED <<drain, ask, worker, session>>

\* poll without a timeout: only the pipe or stdin end it.
PollWake ==
    /\ UiAt("poll")
    /\ w.pipe
    /\ UiGoes("drainfd")
    /\ UNCHANGED <<w, drain, ask, sleeping, worker, session, log>>

\* A prompt, whose bytes have been followed by 200 ms of silence, or the end.
PollInput ==
    /\ UiAt("poll") /\ ui.mode = "stdin" /\ ui.open /\ ~ui.eof
    /\ \E pc \in {"drainfd", "consume"} :
         /\ pc = "drainfd" => w.pipe
         /\ \/ /\ log.typed < MaxPrompts
               /\ ui' = [ui EXCEPT !.pc = pc, !.input = <<log.typed + 1>>]
               /\ log' = [log EXCEPT !.typed = @ + 1]
            \/ ui' = [ui EXCEPT !.pc = pc, !.eof = TRUE] /\ UNCHANGED log
    /\ UNCHANGED <<w, drain, ask, sleeping, worker, session>>

InputFirst ==
    /\ UiAt("input") \/ (UiAt("serve") /\ ui.mode # "editor" /\ NothingPending)
    /\ ~ui.error
    /\ LET taken == [ui EXCEPT !.pc = "end", !.input = <<>>] IN
         IF ui.input # <<>> /\ CanSubmit(w)
         THEN Submit(ui.input) /\ ui' = taken
         ELSE ui' = [taken EXCEPT !.queue = @ \o ui.input] /\ UNCHANGED <<w, sleeping, log>>
    /\ UNCHANGED <<drain, ask, worker, session>>

\* An error ends the program. A prompt read goes to an idle worker when nothing
\* is queued before it, and else to the queue.
TakeInput ==
    /\ (UiAt("input") \/ (UiAt("serve") /\ ui.mode # "editor" /\ NothingPending))
    /\ IF ui.error
       THEN UiGoes("stop") /\ UNCHANGED <<w, sleeping, log>>
       ELSE LET taken == [ui EXCEPT !.pc = "end", !.input = <<>>] IN
         IF ui.input # <<>> /\ ui.queue = <<>> /\ CanSubmit(w)
         THEN Submit(ui.input) /\ ui' = taken
         ELSE ui' = [taken EXCEPT !.queue = @ \o ui.input] /\ UNCHANGED <<w, sleeping, log>>
    /\ UNCHANGED <<drain, ask, worker, session>>

\* Nothing is left to do: the prompt was submitted, or stdin has ended, and the
\* worker is idle.
BatchEnd ==
    /\ UiAt("end")
    /\ LET finished == ui.initial = <<>> /\ ui.queue = <<>> /\ IsIdle(w)
                        /\ (ui.mode = "oneshot" \/ ui.eof)
       IN UiGoes(IF finished THEN "stop" ELSE "top")
    /\ UNCHANGED <<w, drain, ask, sleeping, worker, session, log>>

\* What the user does, or does not do: enters lines, presses Ctrl+C, writes stdin.
UserNext == CtrlC \/ TypePrompt \/ TypeSessionCommand \/ TypeRequest \/ TypeExit \/ PollInput

UiNext ==
    \/ DrainFd \/ Consume \/ ResetError \/ TakeDrain \/ AnswerDrain
    \/ Interrupt \/ TakeAsk \/ AnswerAsk \/ SubmitQueue \/ NoLine
    \/ RequestSave \/ UiSave \/ UiNew
    \/ Pause \/ PauseEnds \/ LeaveClean \/ LeaveNow \/ LeaveCancelled \/ Stop \/ Join
    \/ BatchTop \/ PollWake \/ TakeInput \/ BatchEnd

\* The program stops: nothing follows "done" or "exited".
Next == WorkerNext \/ UiNext \/ UserNext

\* Both threads are scheduled; the user owes nothing.
Fairness == WF_vars(WorkerNext) /\ WF_vars(UiNext)

Spec == Init /\ [][Next]_vars /\ Fairness

(* --------------------------------------------------------------- properties -- *)

\* Types and bounds; and no wakeup is lost: whoever sleeps on the condition
\* variable sleeps because its condition is false.
TypeOK ==
    /\ w.state \in {"IDLE", "BUSY", "ERROR", "STOPPED"}
    /\ w.requests \subseteq {"save", "compact", "power"}
    /\ \A f \in {"initialized", "active", "paused", "stop", "interrupt", "wakePending", "pipe"} :
         w[f] \in BOOLEAN
    /\ sleeping \subseteq {"worker", "ui"}
    /\ worker.rounds \in 0..MaxRounds + 1 /\ Len(worker.chain) <= 3
    /\ ask.n \in Nat /\ ask.from \in 0..ask.n
    /\ log.typed \in 0..MaxPrompts /\ log.interrupts \in 0..MaxInterrupts
    /\ log.commands \in 0..MaxCommands
    /\ "worker" \in sleeping =>
         \/ worker.pc = "wait" /\ ~HasWork(w)
         \/ worker.pc = "asking" /\ ~Cancelled /\ ~ask.answered
         \/ worker.pc = "draining" /\ ~Cancelled /\ ~drain.answered
    /\ "ui" \in sleeping => ui.pc = "pausing" /\ Holds

WorkerHoldsSession == worker.pc \notin {"wait", "stopping", "stopped"}

UiHoldsSession == ui.pc \in {"save", "new", "leaving"}

\* Session and transcript have no lock: the UI saves, replaces or leaves them only
\* while the worker is parked, though the published status says IDLE before the
\* worker's deferred operations are done (q36_agent.c:10299-10300).
SessionHasOneOwner == ~(WorkerHoldsSession /\ UiHoldsSession)

\* The prompts in the order they go to the model.
Places == session.transcript \o worker.turn \o drain.text \o ui.hand
          \o w.cmd \o ui.initial \o ui.queue \o ui.input

\* Every prompt the program accepted is in one place until it is in the
\* transcript, or was dropped with its turn. The one exception is the editor's:
\* prompts handed over after an interrupt ended the wait for them (see README).
\* Without interrupts prompts also keep their order.
PromptsKept ==
    /\ IsInjective(Places)
    /\ ToSet(Places) = (1..log.typed) \ (log.gone \union log.lost)
    /\ log.lost # {} => ui.mode = "editor" /\ log.interrupts > 0
    /\ ui.mode = "editor" /\ ui.pc \in {"stop", "joining", "done"} =>
          ToSet(session.transcript) \subseteq ToSet(session.saved)
    /\ ui.mode # "editor" => \A i, j \in 1..Len(Places) : i < j => Places[i] < Places[j]

\* The worker acts on the answer the user gave to the question it asks, never on
\* one that came late for an earlier question.
AnswersMatch == worker.pc = "asking" /\ ask.answered => ask.from = ask.n

\* A turn is cancelled only by an interrupt asked for since its prompt was
\* submitted: a Ctrl+C too late for one turn does not cancel the next.
InterruptIsForThisTurn ==
    w.interrupt /\ (w.cmd # <<>> \/ \E pc \in TurnPcs \union {"tool", "asking", "draining"} : worker.pc = pc)
    => log.asked

\* Leaving ends whatever the worker does, the waits for the UI's own answers
\* included; the stdin front end never sleeps in poll beside prompts it queued;
\* a run with -p ends.
WaitsEnd ==
    /\ (ui.pc = "pausing") ~> (ui.pc # "pausing")
    /\ (ui.pc = "joining") ~> (ui.pc = "done")
    /\ (ui.mode = "stdin" /\ ui.queue # <<>>) ~> (ui.queue = <<>> \/ w.stop)
    /\ (ui.mode = "oneshot") ~> (ui.pc = "done")

\* An operation that an interrupt can cut short acknowledges it when it publishes
\* IDLE: "the request must be acknowledged; otherwise the editor can observe an
\* idle worker with a stale interrupt still pending" (q36_agent.c:3995-3997).
IdleIsAcknowledged ==
    [][(\E pc \in TurnPcs \union {"compacting", "saving"} : WorkerAt(pc))
       /\ w.state = "BUSY" /\ w'.state = "IDLE" => ~w'.interrupt]_vars

================================================================================
