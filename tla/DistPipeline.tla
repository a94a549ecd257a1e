---------------------------- MODULE DistPipeline ----------------------------
(***************************************************************************)
(* The two-stage pipeline of q36_distributed.c: a coordinator that holds    *)
(* the first layers and a worker that holds the rest, one TCP connection    *)
(* at a time between them.  The engine mutex is held from the start of an   *)
(* operation to its end, so there is one operation at a time, but three     *)
(* threads may work for it: the caller, the exchange thread of a long       *)
(* prefill and the sender thread that keeps a window of requests moving     *)
(* while replies with rows come back.                                       *)
(*                                                                         *)
(* The state of a stage is the sequence of tokens it has evaluated.  A      *)
(* hidden row is what a stage made of one token: the coordinator's rows are *)
(* written as their tokens, the rows that come back as the whole sequence   *)
(* they depend on.                                                         *)
(***************************************************************************)
EXTENDS Integers, Sequences

CONSTANTS
    Sessions,    \* session ids, none of which is ever used again
    Tokens,      \* the vocabulary
    Eos,         \* the token that ends a reply
    Requests,    \* what the owners of the sessions may ask for
    MaxLen,      \* the context size
    LocalCap,    \* tokens the coordinator's stage takes in a batch
    WireCap,     \* tokens of a chunk on the wire
    Window,      \* chunks in flight
    Buffer,      \* frames with rows that the socket buffers of one direction hold
    MaxConns,    \* bound on the connections the worker opens
    Target(_)    \* the token the model continues a sequence with

ASSUME CapsAssumption ==
    /\ LocalCap \in Nat \ {0} /\ WireCap \in Nat \ {0}
    /\ Window \in Nat \ {0} /\ Buffer \in Nat
    /\ MaxConns \in Nat /\ MaxLen \in Nat
ASSUME TokensAssumption ==
    /\ Eos \in Tokens /\ Tokens \subseteq Nat
    /\ \A n \in 1 .. MaxLen : \A h \in [1 .. n -> Tokens] : Target(h) \in Tokens
\* q36_session_eval takes one token.
ASSUME RequestsAssumption ==
    \A r \in Requests :
        /\ r.s \in Sessions /\ r.input \in Seq(Tokens)
        /\ r.kind = "eval" => Len(r.input) = 1

None  == -1
Dirty == -2      \* what a failed evaluation may leave in a stage

VARIABLES
    mtp,          \* d->info.mtp: the coordinator drafts, and wants all rows
    fd,           \* d->fd, 0 when there is no connection
    generation,   \* d->generation
    open,         \* the sessions that exist
    gen,          \* s->generation
    ckpt,         \* the checkpoint of each session
    valid,        \* checkpoint_valid
    logits,       \* the sequence the logits of each session continue
    hostA,        \* the tokens the coordinator's stage has evaluated
    specA,        \* slice_spec_pos while a speculation is open, else None
    mtpHist,      \* the rows the draft head has seen
    pc,           \* where the operation is
    op,           \* the operation that holds the mutex
    body,         \* the span it exchanges with the worker
    up,           \* the connections that work
    backlog,      \* connections that wait for accept
    conns,        \* connections opened so far
    toWorker,     \* frames on their way on connection fd
    toCoord,
    wpc,          \* where the worker is
    wfd,          \* its connection
    wsess         \* its sessions

engineVars == <<mtp, fd, generation>>
sessVars   == <<open, gen, ckpt, valid, logits>>
stageVars  == <<hostA, specA, mtpHist>>
opVars     == <<pc, op, body>>
linkVars   == <<up, backlog, conns, toWorker, toCoord>>
workerVars == <<wpc, wfd, wsess>>
vars == <<engineVars, sessVars, stageVars, opVars, linkVars, workerVars>>

NoOp   == [s |-> None, kind |-> "none", input |-> <<>>, spans |-> <<>>]
NoBody == [toks |-> <<>>, pos |-> 0, i |-> 0, count |-> 0, final |-> TRUE,
           verify |-> FALSE, pending |-> <<>>, lo |-> 0, buf |-> <<>>,
           io |-> "none", stopped |-> FALSE, rows |-> <<>>,
           exchange |-> "no", rc |-> 0, next |-> <<>>]
Absent == [hist |-> <<None>>, spec |-> None]

Init ==
    /\ mtp \in BOOLEAN
    /\ fd = 0
    /\ generation = 0
    /\ open = [s \in Sessions |-> TRUE]
    /\ gen = [s \in Sessions |-> 0]
    /\ ckpt = [s \in Sessions |-> <<>>]
    /\ valid = [s \in Sessions |-> FALSE]
    /\ logits = [s \in Sessions |-> <<>>]
    /\ hostA = [s \in Sessions |-> <<>>]
    /\ specA = [s \in Sessions |-> None]
    /\ mtpHist = [s \in Sessions |-> <<>>]
    /\ pc = "idle"
    /\ op = NoOp
    /\ body = NoBody
    /\ up = {}
    /\ backlog = <<>>
    /\ conns = 0
    /\ toWorker = <<>>
    /\ toCoord = <<>>
    /\ wpc = "away"
    /\ wfd = 0
    /\ wsess = [s \in Sessions |-> Absent]

-----------------------------------------------------------------------------
(* Sequences and frames. *)

Upto(seq, n) == SubSeq(seq, 1, n)
From(seq, n) == SubSeq(seq, n + 1, Len(seq))
AtMost(a, b) == IF a < b THEN a ELSE b
Extends(seq, prefix) == Len(prefix) <= Len(seq) /\ Upto(seq, Len(prefix)) = prefix

\* The frames of a direction that are too large for it to forget about.
LargeIn(q) == Len(SelectSeq(q, LAMBDA f : f.rows # <<>>))

\* dist_io has handed over the last frame of the queue.
Drained(q) == LargeIn(q) <= Buffer

Create(s)    == [type |-> "create", id |-> s, rows |-> <<>>]
Free(s)      == [type |-> "free", id |-> s, rows |-> <<>>]
Commit(s, n) == [type |-> "commit", id |-> s, n |-> n, rows |-> <<>>]
Work(s, pos, rows, flags) ==
    [type |-> "work", id |-> s, pos |-> pos, rows |-> rows, flags |-> flags]
Result(s, pos, rows) == [type |-> "result", id |-> s, pos |-> pos, rows |-> rows]
ErrorFrame == [type |-> "error", rows |-> <<>>]

ReplyIs(f, s, pos, n) ==
    f.type = "result" /\ f.id = s /\ f.pos = pos /\ Len(f.rows) = n

\* A failure that costs a connection is allowed while the worker can open
\* another one.
Spare == conns < MaxConns

-----------------------------------------------------------------------------
(* The coordinator's stage and its connection. *)

\* q36_session_eval_layer_slice takes a chunk only where the last one ended; a
\* span that starts at 0 resets the stage first.
Fits(s, pos) == pos = 0 \/ Len(hostA[s]) = pos
EvalA(s, pos, toks) == hostA' = [hostA EXCEPT ![s] = Upto(@, pos) \o toks]

\* dist_disconnect
Disconnect ==
    /\ fd' = 0
    /\ up' = up \ {fd}
    /\ toWorker' = <<>>
    /\ toCoord' = <<>>

EndOp == pc' = "idle" /\ op' = NoOp /\ body' = NoBody

\* (Faulty variant: the connection is kept.)
FailOpKeepsRoute ==
    /\ EndOp
    /\ valid' = [valid EXCEPT ![op.s] = FALSE]
    /\ UNCHANGED <<engineVars, open, gen, ckpt, logits, stageVars, linkVars, workerVars>>

\* The operation fails: the connection is dropped and the session is no longer
\* valid.  A failed speculation invalidates it altogether.
Fail ==
    /\ EndOp
    /\ Disconnect
    /\ valid' = [valid EXCEPT ![op.s] = FALSE]
    /\ IF op.kind = "spec"
       THEN /\ ckpt' = [ckpt EXCEPT ![op.s] = <<>>]
            /\ hostA' = [hostA EXCEPT ![op.s] = <<>>]
            /\ specA' = [specA EXCEPT ![op.s] = None]
       ELSE /\ \E h \in {hostA[op.s], Append(hostA[op.s], Dirty)} :
                   hostA' = [hostA EXCEPT ![op.s] = h]
            /\ UNCHANGED <<ckpt, specA>>
    /\ UNCHANGED <<mtp, generation, open, gen, logits, mtpHist, conns, workerVars>>

FailOp == Fail /\ UNCHANGED backlog

\* Anything else may go wrong meanwhile: the caller cancels, an allocation or
\* an evaluation fails.
BodyFinished == body.io = "none" /\ body.i = body.count /\ body.pending = <<>>

OpCancelled ==
    /\ \/ pc \in {"route", "create", "created", "commit", "ack"}
       \/ pc = "body" /\ ~BodyFinished
    /\ fd = 0 \/ Spare
    /\ FailOp

\* A send or a receive finds the connection broken.
LinkFails ==
    /\ \/ pc \in {"create", "created", "commit", "ack"}
       \/ pc = "body" /\ ~BodyFinished
    /\ fd \notin up
    /\ FailOp

-----------------------------------------------------------------------------
(* Operations start. *)

\* What the worker holds of the session, if anything, is from an earlier
\* connection.
Stale(s) == fd = 0 \/ gen[s] # generation

Span(toks, pos, verify) == [toks |-> toks, pos |-> pos, verify |-> verify]

\* The checkpoint has to be replayed first.
Replay(s) == IF Stale(s) /\ ckpt[s] # <<>> THEN <<Span(ckpt[s], 0, FALSE)>> ELSE <<>>

StartOp(s, kind, input, spans) ==
    /\ pc = "idle"
    /\ open[s]
    /\ op' = [s |-> s, kind |-> kind, input |-> input, spans |-> spans]
    /\ pc' = IF fd = 0 THEN "route" ELSE IF gen[s] # generation THEN "create" ELSE "span"
    /\ UNCHANGED <<body, engineVars, open, gen, logits, mtpHist, linkVars, workerVars>>

\* q36_session_sync and q36_dist_session_sync
SyncStart(s, prompt) ==
    LET keeps == valid[s] /\ Extends(prompt, ckpt[s])
        start == IF Stale(s) \/ ~keeps THEN 0 ELSE Len(ckpt[s])
    IN  /\ prompt # <<>>
        /\ Len(prompt) < MaxLen
        /\ StartOp(s, "sync", prompt,
                   IF start < Len(prompt) THEN <<Span(From(prompt, start), start, FALSE)>> ELSE <<>>)
        /\ IF keeps
           THEN UNCHANGED <<ckpt, valid, hostA, specA>>
           ELSE /\ ckpt' = [ckpt EXCEPT ![s] = <<>>]
                /\ valid' = [valid EXCEPT ![s] = FALSE]
                /\ hostA' = [hostA EXCEPT ![s] = <<>>]
                /\ specA' = [specA EXCEPT ![s] = None]

\* q36_session_eval and q36_dist_session_eval.  Nobody goes on decoding after
\* a failure.
EvalStart(s, token) ==
    /\ valid[s]
    /\ Len(ckpt[s]) < MaxLen
    /\ StartOp(s, "eval", token, Replay(s) \o <<Span(token, Len(ckpt[s]), FALSE)>>)
    /\ UNCHANGED <<ckpt, valid, hostA, specA>>

\* q36_session_verify_pipeline and q36_dist_session_speculate.  Drafting stops
\* at the end token.
SpecStart(s, toks) ==
    /\ mtp
    /\ valid[s]
    /\ ckpt[s] # <<>>
    /\ Len(ckpt[s]) + Len(toks) <= MaxLen
    /\ Len(toks) > 1
    /\ \A i \in 1 .. Len(toks) - 1 : toks[i] # Eos
    /\ StartOp(s, "spec", toks, Replay(s) \o <<Span(toks, Len(ckpt[s]), TRUE)>>)
    /\ UNCHANGED <<ckpt, valid, hostA, specA>>

\* q36_session_invalidate, called by the owner between operations.
Invalidate(s) ==
    /\ pc = "idle"
    /\ open[s]
    /\ ckpt' = [ckpt EXCEPT ![s] = <<>>]
    /\ valid' = [valid EXCEPT ![s] = FALSE]
    /\ hostA' = [hostA EXCEPT ![s] = <<>>]
    /\ specA' = [specA EXCEPT ![s] = None]
    /\ UNCHANGED <<engineVars, open, gen, logits, mtpHist, opVars, linkVars, workerVars>>

\* q36_dist_session_free tells the worker if the worker knows the session.
FreeSession(s) ==
    /\ pc = "idle"
    /\ open[s]
    /\ open' = [open EXCEPT ![s] = FALSE]
    /\ IF ~Stale(s) /\ fd \in up
       THEN /\ toWorker' = Append(toWorker, Free(s))
            /\ pc' = "freeing"
            /\ op' = [NoOp EXCEPT !.s = s, !.kind = "free"]
            /\ UNCHANGED <<fd, up, toCoord>>
       ELSE /\ IF Stale(s) THEN UNCHANGED <<fd, up, toWorker, toCoord>> ELSE Disconnect
            /\ UNCHANGED <<pc, op>>
    /\ UNCHANGED <<mtp, generation, gen, ckpt, valid, logits, stageVars, body,
                   backlog, conns, workerVars>>

Freed ==
    /\ pc = "freeing"
    /\ EndOp
    /\ \/ /\ toCoord # <<>>
          /\ IF ReplyIs(Head(toCoord), op.s, 0, 0)
             THEN toCoord' = Tail(toCoord) /\ UNCHANGED <<fd, up, toWorker>>
             ELSE Disconnect
       \/ fd \notin up /\ Disconnect
    /\ UNCHANGED <<mtp, generation, sessVars, stageVars, backlog, conns, workerVars>>

-----------------------------------------------------------------------------
(* The route (dist_route, dist_session_ready). *)

\* The first connection of the backlog is accepted and greeted; it may have
\* been dead for long.
AcceptWorker ==
    /\ pc = "route"
    /\ backlog # <<>>
    /\ backlog' = Tail(backlog)
    /\ IF Head(backlog) \in up
       THEN /\ fd' = Head(backlog)
            /\ generation' = generation + 1
            /\ pc' = "create"
            /\ UNCHANGED <<mtp, op, body, sessVars, stageVars, up, conns, toWorker,
                           toCoord, workerVars>>
       ELSE Fail

\* The worker has to create the session on this connection.
SendCreate ==
    /\ pc = "create"
    /\ fd \in up
    /\ toWorker' = Append(toWorker, Create(op.s))
    /\ pc' = "created"
    /\ UNCHANGED <<op, body, engineVars, sessVars, stageVars, up, backlog, conns,
                   toCoord, workerVars>>

SessionCreated ==
    /\ pc = "created"
    /\ toCoord # <<>>
    /\ IF ReplyIs(Head(toCoord), op.s, 0, 0)
       THEN /\ gen' = [gen EXCEPT ![op.s] = generation]
            /\ toCoord' = Tail(toCoord)
            /\ pc' = "span"
            /\ UNCHANGED <<op, body, engineVars, open, ckpt, valid, logits, stageVars,
                           up, backlog, conns, toWorker, workerVars>>
       ELSE FailOp

-----------------------------------------------------------------------------
(* One span after the other. *)

\* The operation succeeded: its tokens join the checkpoint.  n of the block
\* were accepted.
Publish(n) ==
    /\ ckpt' = [ckpt EXCEPT ![op.s] = IF op.kind = "sync" THEN op.input
                                                         ELSE @ \o Upto(op.input, n)]
    /\ valid' = [valid EXCEPT ![op.s] = TRUE]
    /\ EndOp

OpDone ==
    /\ pc = "span"
    /\ op.spans = <<>>
    /\ Publish(1)
    /\ UNCHANGED <<engineVars, open, gen, logits, stageVars, linkVars, workerVars>>

Overlapped(sp) == ~sp.verify /\ Len(sp.toks) > LocalCap /\ LocalCap > WireCap

\* A block of a long prefill, evaluated before it is sent.
Block(toks, pos, final) ==
    [NoBody EXCEPT !.toks = toks, !.pos = pos, !.count = Len(toks), !.buf = toks,
                   !.final = final, !.exchange = "run"]

\* dist_eval_span.  A speculation saves the frontier of the stage first.
BeginSpan ==
    /\ pc = "span"
    /\ op.spans # <<>>
    /\ LET sp == Head(op.spans)
       IN  IF Overlapped(sp)
           THEN /\ Fits(op.s, sp.pos)
                /\ EvalA(op.s, sp.pos, Upto(sp.toks, LocalCap))
                /\ body' = Block(Upto(sp.toks, LocalCap), sp.pos, FALSE)
                /\ pc' = "exchange"
                /\ UNCHANGED specA
           ELSE /\ body' = [NoBody EXCEPT !.toks = sp.toks, !.pos = sp.pos,
                                          !.count = Len(sp.toks), !.verify = sp.verify]
                /\ pc' = "body"
                /\ specA' = IF sp.verify THEN [specA EXCEPT ![op.s] = Len(hostA[op.s])]
                                         ELSE specA
                /\ UNCHANGED hostA
    /\ UNCHANGED <<op, engineVars, sessVars, mtpHist, linkVars, workerVars>>

-----------------------------------------------------------------------------
(* dist_eval_span_body: requests go out while the window has room, replies    *)
(* come back in order.                                                       *)

Exchanging == pc = "body" \/ (pc = "exchange" /\ body.exchange = "run")

\* (Faulty variant: one chunk too many.)
CanIssueOneMore == body.i < body.count /\ Len(body.pending) <= Window

CanIssue == body.i < body.count /\ Len(body.pending) < Window

Chunk == IF body.verify THEN 1 ELSE AtMost(WireCap, LocalCap)

\* A reply that went wrong, on the caller's thread or on the exchange thread.
BodyFails ==
    IF pc = "body" THEN FailOp
    ELSE /\ body' = [body EXCEPT !.exchange = "failed", !.io = "none"]
         /\ UNCHANGED <<pc, op, engineVars, sessVars, stageVars, linkVars, workerVars>>

Flags(pos, last) ==
    (IF pos = 0 THEN {"reset"} ELSE {}) \cup
    (IF last \/ body.verify THEN {"logits"} ELSE {}) \cup
    (IF mtp THEN {"rows"} ELSE {}) \cup
    (IF body.verify THEN {"spec"} ELSE {}) \cup
    (IF body.verify /\ body.i = 0 THEN {"begin"} ELSE {})

\* (Faulty variant: no thread of its own for a request that overlaps replies.)
SendAlone == "send"

\* Replies with rows have to be read while the next request is written.
SendMode == IF mtp /\ body.pending # <<>> THEN "both" ELSE "send"

BodyIssue ==
    /\ Exchanging
    /\ body.io = "none"
    /\ CanIssue
    /\ fd \in up
    /\ LET i     == body.i
           pos   == body.pos + i
           fresh == i = body.lo + Len(body.buf)
           buf   == IF fresh THEN SubSeq(body.toks, i + 1, AtMost(body.count, i + Chunk)) ELSE body.buf
           lo    == IF fresh THEN i ELSE body.lo
           n     == AtMost(lo + Len(buf) - i, Chunk)
           last  == i + n = body.count /\ body.final
       IN  IF fresh /\ ~Fits(op.s, pos) THEN BodyFails
           ELSE /\ IF fresh THEN EvalA(op.s, pos, buf) ELSE UNCHANGED hostA
                /\ toWorker' = Append(toWorker,
                       Work(op.s, pos, SubSeq(buf, i - lo + 1, i - lo + n), Flags(pos, last)))
                /\ body' = [body EXCEPT !.buf = buf, !.lo = lo, !.i = i + n, !.io = SendMode,
                       !.pending = Append(@, [end |-> pos + n, n |-> n, index |-> i])]
                /\ UNCHANGED <<pc, op, engineVars, sessVars, specA, mtpHist, up, backlog,
                               conns, toCoord, workerVars>>

\* The frame is out, or its sender thread has been joined.
BodySent ==
    /\ Exchanging
    /\ body.io \in {"send", "join"}
    /\ Drained(toWorker)
    /\ body' = [body EXCEPT !.io = "none"]
    /\ UNCHANGED <<pc, op, engineVars, sessVars, stageVars, linkVars, workerVars>>

Lasts(rows) == [k \in 1 .. Len(rows) |-> rows[k][Len(rows[k])]]

\* The draft head sees the rows of the tokens from pos on.
Catchup(s, pos, rows) == mtpHist' = [mtpHist EXCEPT ![s] = Upto(@, pos) \o Lasts(rows)]

\* A candidate is refuted when the model continues otherwise; nothing follows
\* the end token.
Refutes(row, index) ==
    \/ body.toks[index + 1] = Eos
    \/ index + 1 < body.count /\ Target(row) # body.toks[index + 2]

\* (Faulty variant: rows are projected after the refutation, too.)
ProjectsAll == body.verify

\* Rows in flight are drained after a refutation, not looked at.
Projects == body.verify /\ ~body.stopped

BodyReceive ==
    /\ Exchanging
    /\ \/ body.io = "both"
       \/ body.io = "none" /\ ~CanIssue /\ body.pending # <<>>
    /\ toCoord # <<>>
    /\ LET f    == Head(toCoord)
           p    == Head(body.pending)
           last == p.end = body.pos + body.count /\ body.final
           own  == body.exchange = "no"
           n    == IF mtp THEN p.n ELSE IF last THEN 1 ELSE 0
           stop == Projects /\ Refutes(f.rows[1], p.index)
       IN  IF ~ReplyIs(f, op.s, p.end, n) THEN BodyFails
           ELSE /\ toCoord' = Tail(toCoord)
                /\ body' = [body EXCEPT
                       !.pending = Tail(@),
                       !.io = IF @ = "both" THEN "join" ELSE "none",
                       !.rows = IF own /\ ~body.verify THEN @ ELSE @ \o f.rows,
                       !.stopped = @ \/ stop,
                       !.count = IF stop THEN body.i ELSE @]
                /\ logits' = IF Projects \/ (own /\ last /\ ~body.verify)
                             THEN [logits EXCEPT ![op.s] = f.rows[Len(f.rows)]]
                             ELSE logits
                /\ IF own /\ mtp /\ ~body.verify THEN Catchup(op.s, body.pos + p.index, f.rows)
                                                 ELSE UNCHANGED mtpHist
                /\ UNCHANGED <<pc, op, engineVars, open, gen, ckpt, valid, hostA, specA, up,
                               backlog, conns, toWorker, workerVars>>

\* The span is through.
BodyDone ==
    /\ pc = "body"
    /\ BodyFinished
    /\ IF body.verify THEN pc' = "commit" /\ UNCHANGED <<op, body>>
       ELSE /\ pc' = "span"
            /\ op' = [op EXCEPT !.spans = Tail(@)]
            /\ body' = NoBody
    /\ UNCHANGED <<engineVars, sessVars, stageVars, linkVars, workerVars>>

-----------------------------------------------------------------------------
(* dist_prefill_span: the caller evaluates the next block into its other      *)
(* buffer while the exchange thread sends this one.                          *)

\* What is left of the span after this block.
Rest == LET sp == Head(op.spans) IN From(sp.toks, body.pos - sp.pos + Len(body.toks))

LocalNext ==
    /\ pc = "exchange"
    /\ body.rc = 0
    /\ Rest # <<>>
    /\ body.next = <<>>
    /\ Fits(op.s, body.pos + Len(body.toks))
    /\ LET toks == Upto(Rest, AtMost(LocalCap, Len(Rest)))
       IN  /\ EvalA(op.s, body.pos + Len(body.toks), toks)
           /\ body' = [body EXCEPT !.next = toks]
    /\ UNCHANGED <<pc, op, engineVars, sessVars, specA, mtpHist, linkVars, workerVars>>

\* Cancelled, or the next block could not be evaluated: the connection is shut
\* down so that the exchange thread ends.
Abort ==
    /\ pc = "exchange"
    /\ body.rc = 0
    /\ Spare
    /\ body' = [body EXCEPT !.rc = 1]
    /\ up' = up \ {fd}
    /\ UNCHANGED <<pc, op, engineVars, sessVars, stageVars, backlog, conns, toWorker,
                   toCoord, workerVars>>

ExchangeOk ==
    /\ pc = "exchange"
    /\ body.exchange = "run"
    /\ BodyFinished
    /\ body' = [body EXCEPT !.exchange = "ok"]
    /\ UNCHANGED <<pc, op, engineVars, sessVars, stageVars, linkVars, workerVars>>

ExchangeFails ==
    /\ pc = "exchange"
    /\ body.exchange = "run"
    /\ ~BodyFinished
    /\ fd \notin up
    /\ body' = [body EXCEPT !.exchange = "failed", !.io = "none"]
    /\ UNCHANGED <<pc, op, engineVars, sessVars, stageVars, linkVars, workerVars>>

\* The exchange thread has been joined: the draft head catches up, and the
\* next block, if any, is exchanged.
ExchangeJoined ==
    /\ pc = "exchange"
    /\ body.exchange = "ok"
    /\ body.rc = 0
    /\ Rest = <<>> \/ body.next # <<>>
    /\ IF mtp THEN Catchup(op.s, body.pos, body.rows) ELSE UNCHANGED mtpHist
    /\ IF Rest # <<>>
       THEN /\ body' = Block(body.next, body.pos + Len(body.toks), Len(body.next) = Len(Rest))
            /\ UNCHANGED <<pc, op, logits>>
       ELSE /\ logits' = [logits EXCEPT ![op.s] = body.rows[Len(body.rows)]]
            /\ pc' = "span"
            /\ op' = [op EXCEPT !.spans = Tail(@)]
            /\ body' = NoBody
    /\ UNCHANGED <<engineVars, open, gen, ckpt, valid, hostA, specA, linkVars, workerVars>>

ExchangeEnds ==
    /\ pc = "exchange"
    /\ \/ body.exchange = "failed"
       \/ body.exchange = "ok" /\ body.rc = 1
    /\ FailOp

-----------------------------------------------------------------------------
(* The end of a speculation. *)

Follows(k) == body.toks[k] # Eos /\ Target(body.rows[k]) = body.toks[k + 1]

\* (Faulty variant: everything that was sent is kept.)
AllSent == body.count

\* The tokens both stages keep: the first, and those the model confirms.
CommitLen ==
    CHOOSE n \in 1 .. body.count :
        /\ \A k \in 1 .. n - 1 : Follows(k)
        /\ n = body.count \/ ~Follows(n)

\* q36_session_pipeline_spec_commit on this side, while the request travels.
CommitA(n) ==
    /\ hostA' = [hostA EXCEPT ![op.s] = Upto(@, specA[op.s] + n)]
    /\ specA' = [specA EXCEPT ![op.s] = None]

SendCommit ==
    /\ pc = "commit"
    /\ fd \in up
    /\ toWorker' = Append(toWorker, Commit(op.s, CommitLen))
    /\ CommitA(CommitLen)
    /\ Catchup(op.s, Len(ckpt[op.s]), Upto(body.rows, CommitLen))
    /\ pc' = "ack"
    /\ UNCHANGED <<op, body, engineVars, sessVars, up, backlog, conns, toCoord, workerVars>>

\* Tokens are published after the acknowledgement.
Acknowledged ==
    /\ pc = "ack"
    /\ toCoord # <<>>
    /\ IF ReplyIs(Head(toCoord), op.s, Len(ckpt[op.s]) + CommitLen, 0)
       THEN /\ Publish(CommitLen)
            /\ toCoord' = Tail(toCoord)
            /\ UNCHANGED <<engineVars, open, gen, logits, stageVars, up, backlog, conns,
                           toWorker, workerVars>>
       ELSE FailOp

-----------------------------------------------------------------------------
(* The worker (q36_dist_run, dist_worker_loop). *)

WorkerConnect ==
    /\ wpc = "away"
    /\ Spare
    /\ conns' = conns + 1
    /\ wfd' = conns'
    /\ up' = up \cup {conns'}
    /\ backlog' = Append(backlog, conns')
    /\ wpc' = "hello"
    /\ UNCHANGED <<engineVars, sessVars, stageVars, opVars, toWorker, toCoord, wsess>>

WorkerHello ==
    /\ wpc = "hello"
    /\ fd = wfd
    /\ wfd \in up
    /\ wpc' = "loop"
    /\ UNCHANGED <<engineVars, sessVars, stageVars, opVars, linkVars, wfd, wsess>>

\* The connection is gone, and with it every session of the worker.
Leave == wpc' = "away" /\ wfd' = 0 /\ wsess' = [s \in Sessions |-> Absent]

WorkerLost ==
    /\ wpc # "away"
    /\ wfd \notin up
    /\ Leave
    /\ UNCHANGED <<engineVars, sessVars, stageVars, opVars, linkVars>>

\* The requests the worker takes.
TakesWork(f, w) ==
    /\ w # Absent
    /\ f.pos + Len(f.rows) <= MaxLen
    /\ IF "reset" \in f.flags THEN f.pos = 0 ELSE f.pos = Len(w.hist)
    /\ "begin" \in f.flags => "spec" \in f.flags /\ w.spec = None /\ f.pos > 0
    /\ "spec" \in f.flags =>
           /\ Len(f.rows) = 1
           /\ "rows" \in f.flags
           /\ "reset" \notin f.flags
           /\ "begin" \in f.flags \/ w.spec # None
    /\ w.spec # None => "spec" \in f.flags

Takes(f) ==
    LET w == wsess[f.id]
    IN  CASE f.type = "create" -> w = Absent
          [] f.type = "free"   -> w # Absent
          [] f.type = "commit" -> w # Absent /\ w.spec # None /\ f.n \in 1 .. Len(w.hist) - w.spec
          [] f.type = "work"   -> TakesWork(f, w)

\* What becomes of the session.
After(f) ==
    LET w == wsess[f.id]
    IN  CASE f.type = "create" -> [hist |-> <<>>, spec |-> None]
          [] f.type = "free"   -> Absent
          [] f.type = "commit" -> [hist |-> Upto(w.hist, w.spec + f.n), spec |-> None]
          [] f.type = "work"   -> [hist |-> Upto(w.hist, f.pos) \o f.rows,
                                   spec |-> IF "begin" \in f.flags THEN f.pos ELSE w.spec]

\* The rows that go back: all, the last one or none.
Returned(f, hist) ==
    IF "rows" \in f.flags THEN [k \in 1 .. Len(f.rows) |-> Upto(hist, f.pos + k)]
    ELSE IF "logits" \in f.flags THEN <<hist>> ELSE <<>>

Reply(f) ==
    CASE f.type = "commit" -> Result(f.id, wsess[f.id].spec + f.n, <<>>)
      [] f.type = "work"   -> Result(f.id, f.pos + Len(f.rows), Returned(f, After(f).hist))
      [] OTHER             -> Result(f.id, 0, <<>>)

\* The worker reports an error and closes the connection.
Reject ==
    /\ toCoord' = Append(toCoord, ErrorFrame)
    /\ up' = up \ {wfd}
    /\ Leave
    /\ UNCHANGED <<engineVars, sessVars, stageVars, opVars, backlog, conns>>

Receives ==
    /\ wpc = "loop"
    /\ wfd = fd
    /\ fd \in up
    /\ toWorker # <<>>
    /\ toWorker' = Tail(toWorker)

WorkerHandle ==
    /\ Receives
    /\ LET f == Head(toWorker)
       IN  IF Takes(f)
           THEN /\ wsess' = [wsess EXCEPT ![f.id] = After(f)]
                /\ toCoord' = Append(toCoord, Reply(f))
                /\ wpc' = IF Reply(f).rows # <<>> THEN "reply" ELSE "loop"
                /\ UNCHANGED <<engineVars, sessVars, stageVars, opVars, up, backlog, conns, wfd>>
           ELSE Reject

\* The reply has left.
WorkerReplied ==
    /\ wpc = "reply"
    /\ wfd = fd
    /\ Drained(toCoord)
    /\ wpc' = "loop"
    /\ UNCHANGED <<engineVars, sessVars, stageVars, opVars, linkVars, wfd, wsess>>

\* An evaluation or an allocation fails on the worker.
StageFails == Spare /\ Receives /\ Reject

\* The connection breaks or the worker process dies.
Break ==
    /\ Spare
    /\ wfd \in up
    /\ up' = up \ {wfd}
    /\ UNCHANGED <<engineVars, sessVars, stageVars, opVars, backlog, conns, toWorker,
                   toCoord, workerVars>>

-----------------------------------------------------------------------------
(* The specification. *)

Start ==
    \E r \in Requests :
        \/ r.kind = "sync" /\ SyncStart(r.s, r.input)
        \/ r.kind = "eval" /\ EvalStart(r.s, r.input)
        \/ r.kind = "spec" /\ SpecStart(r.s, r.input)
        \/ r.kind = "invalidate" /\ Invalidate(r.s)
        \/ r.kind = "free" /\ FreeSession(r.s)

\* The threads that work for the operation.
Coordinator ==
    \/ LinkFails \/ Freed \/ AcceptWorker \/ SendCreate \/ SessionCreated
    \/ OpDone \/ BeginSpan \/ BodyIssue \/ BodySent \/ BodyReceive \/ BodyDone
    \/ SendCommit \/ Acknowledged

Caller   == LocalNext \/ ExchangeJoined \/ ExchangeEnds
Exchange == ExchangeOk \/ ExchangeFails

Worker == WorkerConnect \/ WorkerHello \/ WorkerLost \/ WorkerHandle \/ WorkerReplied

Failure == OpCancelled \/ Abort \/ StageFails \/ Break

Next == Start \/ Coordinator \/ Caller \/ Exchange \/ Worker \/ Failure

Spec == Init /\ [][Next]_vars

\* Every thread that can go on does; no request need come and nothing need fail.
Fairness ==
    /\ WF_vars(Coordinator)
    /\ WF_vars(Caller)
    /\ WF_vars(Exchange)
    /\ WF_vars(Worker)

FairSpec == Spec /\ Fairness

-----------------------------------------------------------------------------
(* Properties. *)

TypeOK ==
    /\ mtp \in BOOLEAN
    /\ fd \in 0 .. MaxConns
    /\ generation \in 0 .. MaxConns
    /\ open \in [Sessions -> BOOLEAN]
    /\ gen \in [Sessions -> 0 .. generation]
    /\ ckpt \in [Sessions -> Seq(Tokens)]
    /\ valid \in [Sessions -> BOOLEAN]
    /\ logits \in [Sessions -> Seq(Tokens)]
    /\ hostA \in [Sessions -> Seq(Tokens \cup {Dirty})]
    /\ specA \in [Sessions -> Nat \cup {None}]
    /\ mtpHist \in [Sessions -> Seq(Tokens)]
    /\ pc \in {"idle", "route", "create", "created", "span", "body", "exchange",
               "commit", "ack", "freeing"}
    /\ op.s \in Sessions \cup {None}
    /\ body.i \in 0 .. MaxLen
    /\ Len(body.pending) \in 0 .. Window
    /\ up \in SUBSET (1 .. MaxConns)
    /\ backlog \in Seq(1 .. MaxConns)
    /\ conns \in 0 .. MaxConns
    /\ wpc \in {"away", "hello", "loop", "reply"}
    /\ wfd \in 0 .. MaxConns

\* The sessions the worker is supposed to know.
Known(s) == open[s] /\ ~Stale(s)

WorkerServes == fd # 0 /\ wfd = fd /\ fd \in up /\ wpc # "hello"

\* Outside of its own operation a session that can be continued on this
\* connection is the same on both sides: both stages have evaluated exactly the
\* checkpoint, no speculation is open, the draft head has seen it all, and the
\* worker holds no session that the coordinator has given up (docs/
\* DISTRIBUTED.md:187: a failed or cancelled operation never commits a partial
\* checkpoint).
StagesAgree ==
    \A s \in Sessions \ {op.s} :
        /\ Known(s) /\ valid[s] =>
               hostA[s] = ckpt[s] /\ specA[s] = None /\ (mtp => mtpHist[s] = ckpt[s])
        /\ WorkerServes =>
               /\ wsess[s] # Absent <=> Known(s)
               /\ Known(s) /\ valid[s] => wsess[s] = [hist |-> ckpt[s], spec |-> None]

\* The logits a valid session samples from continue its whole checkpoint: no
\* row of another chunk, of a rejected candidate or of an earlier connection
\* is taken for them.
LogitsMatchCheckpoint ==
    \A s \in Sessions \ {op.s} : valid[s] => logits[s] = ckpt[s]

\* What a speculation publishes is what decoding one token after the other
\* would have: after its first token every one is the model's own choice, none
\* follows the end token, and none that was confirmed is left out.
Confirmed(old, new, draft) ==
    /\ Extends(new, old)
    /\ LET n == Len(new) - Len(old)
       IN  /\ n \in 1 .. Len(draft)
           /\ From(new, Len(old)) = Upto(draft, n)
           /\ \A k \in 2 .. n : draft[k] = Target(Upto(new, Len(old) + k - 1))
           /\ \A k \in 1 .. n - 1 : draft[k] # Eos
           /\ n < Len(draft) => draft[n] = Eos \/ draft[n + 1] # Target(new)

SpecIsGreedy ==
    [][op.kind = "spec" /\ pc' = "idle" /\ valid'[op.s]
           => Confirmed(ckpt[op.s], ckpt'[op.s], op.input)]_vars

\* Every operation ends, even when the buffers of the sockets hold no frame at
\* all: the two sides never wait for each other to read.
OpEnds == (pc # "idle") ~> (pc = "idle")

=============================================================================
