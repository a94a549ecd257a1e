--------------------------- MODULE DistPipelineProofs ---------------------------
(******************************************************************************)
(* The two stages of the pipeline agree on every session that can be          *)
(* continued, its logits continue its checkpoint, and a speculation publishes *)
(* what greedy decoding would: for any sessions, requests, block sizes,       *)
(* windows and socket buffers, and any number of connections.                 *)
(******************************************************************************)
EXTENDS DistPipeline, SequenceTheorems, WellFoundedInduction, TLAPS

-----------------------------------------------------------------------------
(* Types. *)

Pcs == {"idle", "route", "create", "created", "span", "body", "exchange", "commit",
        "ack", "freeing"}
Spans == [toks : Seq(Tokens), pos : Nat, verify : BOOLEAN]
OpType == [s : Sessions \cup {None}, kind : {"none", "sync", "eval", "spec", "free"},
           input : Seq(Tokens), spans : Seq(Spans)]
Chunks == [end : Nat, n : Nat, index : Nat]
BodyType == [toks : Seq(Tokens), pos : Nat, i : Nat, count : Nat, final : BOOLEAN,
             verify : BOOLEAN, pending : Seq(Chunks), lo : Nat, buf : Seq(Tokens),
             io : {"none", "send", "join", "both"}, stopped : BOOLEAN,
             rows : Seq(Seq(Tokens)), exchange : {"no", "run", "ok", "failed"},
             rc : {0, 1}, next : Seq(Tokens)]
Stages == [hist : Seq(Tokens), spec : Nat \cup {None}]
AllFlags == {"reset", "logits", "rows", "spec", "begin"}
Asked == {Create(s) : s \in Sessions} \cup {Free(s) : s \in Sessions}
         \cup {Commit(s, n) : s \in Sessions, n \in Nat}
         \cup {Work(s, pos, rows, flags) : s \in Sessions, pos \in Nat, rows \in Seq(Tokens),
                                           flags \in SUBSET AllFlags}
Answered == {ErrorFrame} \cup {Result(s, pos, rows) : s \in Sessions, pos \in Nat,
                                                      rows \in Seq(Seq(Tokens))}

SessionTypes ==
    /\ open \in [Sessions -> BOOLEAN] /\ gen \in [Sessions -> Nat]
    /\ \A s \in Sessions : gen[s] <= generation
    /\ ckpt \in [Sessions -> Seq(Tokens)] /\ valid \in [Sessions -> BOOLEAN]
    /\ logits \in [Sessions -> Seq(Tokens)]

StageTypes ==
    /\ hostA \in [Sessions -> Seq(Tokens \cup {Dirty})]
    /\ specA \in [Sessions -> Nat \cup {None}]
    /\ mtpHist \in [Sessions -> Seq(Tokens)]
    /\ wsess \in [Sessions -> Stages \cup {Absent}]

ControlTypes ==
    /\ mtp \in BOOLEAN /\ pc \in Pcs /\ op \in OpType /\ body \in BodyType
    /\ toWorker \in Seq(Asked) /\ toCoord \in Seq(Answered)

\* At most the worker's connection works; one that was accepted is not in the
\* backlog any more, and the worker has sessions only on one that was.
Links ==
    /\ fd \in Nat /\ generation \in Nat /\ conns \in Nat /\ wfd \in Nat
    /\ backlog \in Seq(Nat \ {0})
    /\ wpc \in {"away", "hello", "loop", "reply"}
    /\ fd <= conns /\ wfd <= conns /\ conns <= MaxConns
    /\ generation + Len(backlog) <= conns
    /\ up \subseteq {wfd} \ {0}
    /\ wpc = "away" <=> wfd = 0
    /\ wpc \in {"away", "hello"} => \A s \in Sessions : wsess[s] = Absent
    /\ \A i \in DOMAIN backlog :
          /\ backlog[i] <= conns /\ backlog[i] # fd
          /\ wpc \in {"loop", "reply"} => backlog[i] # wfd
          /\ \A k \in DOMAIN backlog : backlog[i] = backlog[k] => i = k

TypeInv == SessionTypes /\ StageTypes /\ ControlTypes /\ Links

-----------------------------------------------------------------------------
(* Sessions that no operation is working on. *)

Connected == fd \in up

Sampled(s) == valid[s] => ckpt[s] # <<>> /\ logits[s] = ckpt[s]

Rests(s) ==
    /\ Sampled(s)
    /\ Known(s) /\ valid[s] => hostA[s] = ckpt[s] /\ (mtp => mtpHist[s] = ckpt[s])
    /\ Connected =>
          /\ wsess[s] # Absent <=> Known(s)
          /\ Known(s) /\ valid[s] => wsess[s] = [hist |-> ckpt[s], spec |-> None]

Resting == \A s \in Sessions : pc = "idle" \/ s # op.s => Rests(s)

\* A speculation is open only while its rows are out.
Speculates ==
    \A s \in Sessions :
        specA[s] # None => s = op.s /\ pc \in {"body", "commit"} /\ body.verify

-----------------------------------------------------------------------------
(* The session of the operation. *)

Seg(S, a, b) == SubSeq(S, a + 1, b)

\* What the operation would make of the checkpoint.
Aim == IF op.kind = "sync" THEN op.input ELSE ckpt[op.s] \o op.input

\* Where the spans that are left begin.
StartPos == IF op.spans = <<>> THEN Len(Aim) ELSE Head(op.spans).pos

\* The spans follow each other to the end of the aim; only the last one of a
\* speculation is verified.
SpanOK(k) ==
    LET sp == op.spans[k]
        end == sp.pos + Len(sp.toks)
    IN  /\ sp.toks # <<>> /\ end <= Len(Aim)
        /\ sp.toks = Seg(Aim, sp.pos, end)
        /\ end = IF k = Len(op.spans) THEN Len(Aim) ELSE op.spans[k + 1].pos
        /\ sp.verify <=> op.kind = "spec" /\ k = Len(op.spans)
        /\ sp.verify => sp.pos = Len(ckpt[op.s])

SpansOK == \A k \in DOMAIN op.spans : SpanOK(k)

OpOK ==
    /\ pc = "idle" => op = NoOp
    /\ pc # "idle" => op.s \in Sessions
    /\ pc = "freeing" => op.kind = "free" /\ ~open[op.s] /\ Sampled(op.s)
    /\ pc \notin {"idle", "freeing"} =>
          /\ open[op.s] /\ op.kind \in {"sync", "eval", "spec"}
          /\ Len(Aim) \in 1 .. MaxLen
          /\ op.kind = "eval" => Len(op.input) = 1
          /\ op.kind = "spec" => mtp /\ ckpt[op.s] # <<>> /\ op.spans # <<>>
          /\ SpansOK
    /\ pc \in {"route", "create", "created"} =>
          op.spans # <<>> /\ StartPos = 0
    /\ pc \in {"create", "created"} => gen[op.s] # generation
    /\ pc = "route" => fd = 0
    /\ pc \notin {"idle", "route"} => fd # 0
    /\ pc \in {"span", "body", "exchange", "commit", "ack"} => gen[op.s] = generation
    /\ pc \in {"body", "exchange", "commit", "ack"} => op.spans # <<>>
    /\ pc \notin {"body", "exchange", "commit", "ack"} => body = NoBody

\* The coordinator's side of the session has come to a position.
HostAt(n) == n = 0 \/ hostA[op.s] = Upto(Aim, n)
HeadAt(n) == mtp => n = 0 \/ mtpHist[op.s] = Upto(Aim, n)
LogitsAt(n) == n = 0 \/ logits[op.s] = Upto(Aim, n)

AtSpan == pc = "span" => HostAt(StartPos) /\ HeadAt(StartPos) /\ LogitsAt(StartPos)

-----------------------------------------------------------------------------
(* A span. *)

\* The chunks that wait for their replies follow each other to body.i.
Cursor(c) == IF c < Len(body.pending) THEN body.pending[c + 1].index ELSE body.i

ChunkOK(k) ==
    LET p == body.pending[k]
    IN  /\ p.n > 0 /\ p.end = body.pos + p.index + p.n
        /\ p.index + p.n = Cursor(k) /\ Cursor(k) <= body.i
        /\ body.verify => p.n = 1

Got == Cursor(0)

Bounds ==
    /\ body.i <= body.count /\ body.count <= Len(body.toks) /\ Got <= body.i
    /\ body.toks # <<>> /\ body.toks = Seg(Aim, body.pos, body.pos + Len(body.toks))
    /\ body.pos + Len(body.toks) <= Len(Aim)
    /\ body.lo <= body.i /\ body.i <= body.lo + Len(body.buf)
    /\ body.lo + Len(body.buf) <= Len(body.toks)
    /\ body.buf = Seg(body.toks, body.lo, body.lo + Len(body.buf))
    /\ Len(body.pending) <= Window
    /\ ~body.stopped => body.count = Len(body.toks)
    /\ body.stopped => body.count = body.i
    /\ \A k \in DOMAIN body.pending : ChunkOK(k)

\* The rows of the n tokens of S behind the p-th.
RowsFrom(S, p, n) == [k \in 1 .. n |-> Upto(S, p + k)]

\* The rows that have come back for the first n tokens of a span.
RowsTo(n) == RowsFrom(Aim, body.pos, n)

\* The candidates before the n-th were confirmed, and the n-th was refuted.
Refuted(n) == (\A k \in 1 .. n - 1 : Follows(k)) /\ ~Follows(n)

Judged ==
    /\ body.rows = RowsTo(Got)
    /\ ~body.stopped =>
          /\ \A k \in 1 .. Got : body.toks[k] # Eos
                                 /\ (k < Len(body.toks) => Follows(k))
          /\ Got > 0 => logits[op.s] = Upto(Aim, body.pos + Got)
    /\ body.stopped => \E k \in 1 .. Got : Refuted(k) /\ logits[op.s] = Upto(Aim, body.pos + k)

\* On the caller's thread.
BodySpan ==
    pc = "body" =>
        LET sp == Head(op.spans)
        IN  /\ body.toks = sp.toks /\ body.pos = sp.pos /\ body.verify = sp.verify
            /\ body.final /\ body.exchange = "no"
            /\ HostAt(body.pos + body.lo + Len(body.buf))
            /\ ~body.verify =>
                  /\ ~body.stopped /\ HeadAt(body.pos + Got)
                  /\ Got = Len(body.toks) => LogitsAt(body.pos + Got)

\* In a verification, up to the commit.
Verifying ==
    pc \in {"body", "commit"} /\ body.verify =>
        /\ Head(op.spans).verify /\ body.pos = Head(op.spans).pos
        /\ body.toks = Head(op.spans).toks
        /\ HostAt(body.pos + body.lo + Len(body.buf)) /\ HeadAt(body.pos)
        /\ specA[op.s] = body.pos
        /\ Judged

\* On the exchange thread: a block of a span, and the one after it.
BlockRows ==
    body.rows = IF mtp THEN RowsTo(Got)
                ELSE IF body.final /\ Got = Len(body.toks)
                     THEN <<Upto(Aim, body.pos + Len(body.toks))>>
                     ELSE <<>>

BlockSpan ==
    pc = "exchange" =>
        LET sp == Head(op.spans)
            end == body.pos + Len(body.toks)
        IN  /\ ~sp.verify /\ ~body.verify /\ ~body.stopped /\ body.exchange # "no"
            /\ sp.pos <= body.pos /\ end <= sp.pos + Len(sp.toks)
            /\ body.final <=> end = sp.pos + Len(sp.toks)
            /\ body.lo = 0 /\ body.buf = body.toks
            /\ HostAt(end + Len(body.next)) /\ HeadAt(body.pos)
            /\ body.next # <<>> =>
                  Rest # <<>> /\ body.next = Upto(Rest, AtMost(LocalCap, Len(Rest)))
            /\ BlockRows
            /\ body.exchange = "ok" => BodyFinished

Committing ==
    /\ pc \in {"commit", "ack"} =>
          body.verify /\ body.pending = <<>> /\ body.i = body.count /\ body.count > 0
    /\ pc = "ack" =>
          LET n == body.pos + CommitLen
          IN  /\ Head(op.spans).verify /\ body.pos = Len(ckpt[op.s])
              /\ body.toks = Head(op.spans).toks
              /\ HostAt(n) /\ HeadAt(n) /\ Judged

SpanInv ==
    /\ pc \in {"body", "exchange", "commit", "ack"} => Bounds
    /\ BodySpan /\ Verifying /\ BlockSpan /\ Committing

-----------------------------------------------------------------------------
(* The frames on their way. *)

LastChunk(p) == p.end = body.pos + Len(body.toks) /\ body.final

FlagsOf(p) ==
    (IF body.pos + p.index = 0 THEN {"reset"} ELSE {}) \cup
    (IF LastChunk(p) \/ body.verify THEN {"logits"} ELSE {}) \cup
    (IF mtp THEN {"rows"} ELSE {}) \cup
    (IF body.verify THEN {"spec"} ELSE {}) \cup
    (IF body.verify /\ p.index = 0 THEN {"begin"} ELSE {})

ChunkFrame(p) ==
    Work(op.s, body.pos + p.index, Seg(Aim, body.pos + p.index, p.end), FlagsOf(p))

RowsOf(p) ==
    IF mtp THEN RowsFrom(Aim, body.pos + p.index, p.n)
    ELSE IF LastChunk(p) THEN <<Upto(Aim, p.end)>> ELSE <<>>

\* What has been sent and not yet been answered, and what answers it.
Sent ==
    CASE pc = "created" -> <<Create(op.s)>>
      [] pc = "freeing" -> <<Free(op.s)>>
      [] pc = "ack" -> <<Commit(op.s, CommitLen)>>
      [] pc \in {"body", "exchange"} ->
             [k \in DOMAIN body.pending |-> ChunkFrame(body.pending[k])]
      [] OTHER -> <<>>

Answers ==
    CASE pc \in {"created", "freeing"} -> <<Result(op.s, 0, <<>>)>>
      [] pc = "ack" -> <<Result(op.s, body.pos + CommitLen, <<>>)>>
      [] pc \in {"body", "exchange"} ->
             [k \in DOMAIN body.pending |->
                 Result(op.s, body.pending[k].end, RowsOf(body.pending[k]))]
      [] OTHER -> <<>>

\* The worker has answered the first of the requests, and the rest is on its
\* way; an error is the last it has to say on a connection.
Matches(sent, answers, requests, replies) ==
    /\ Len(requests) + Len(replies) = Len(sent)
    /\ \A k \in 1 .. Len(requests) : requests[k] = sent[Len(replies) + k]
    /\ \A k \in 1 .. Len(replies) : replies[k] \in {answers[k], ErrorFrame}

FramesOK ==
    /\ Matches(Sent, Answers, toWorker, toCoord)
    /\ Connected => \A k \in 1 .. Len(toCoord) : toCoord[k] # ErrorFrame

\* The worker's stage has come as far as the requests it has answered.
WorkerAt(n, m) ==
    /\ wsess[op.s] # Absent
    /\ n = 0 \/ wsess[op.s] = [hist |-> Upto(Aim, n), spec |-> m]

Handled == Cursor(Len(toCoord))

WorkerFollows ==
    Connected =>
        /\ pc = "create" \/ (pc = "created" /\ toWorker # <<>>) \/
           (pc = "freeing" /\ toWorker = <<>>) => wsess[op.s] = Absent
        /\ pc = "created" /\ toWorker = <<>> => wsess[op.s] # Absent
        /\ pc = "span" => WorkerAt(StartPos, None)
        /\ pc \in {"body", "exchange"} =>
              WorkerAt(body.pos + Handled,
                       IF body.verify /\ Handled > 0 THEN body.pos ELSE None)
        /\ pc = "commit" \/ (pc = "ack" /\ toWorker # <<>>) =>
              WorkerAt(body.pos + body.count, body.pos)
        /\ pc = "ack" /\ toWorker = <<>> => WorkerAt(body.pos + CommitLen, None)

WireInv == FramesOK /\ WorkerFollows

PipeInv == TypeInv /\ Resting /\ Speculates /\ OpOK /\ AtSpan /\ SpanInv /\ WireInv

-----------------------------------------------------------------------------
(* Parts of sequences. *)

LEMMA SegFacts ==
    ASSUME NEW T, NEW S \in Seq(T), NEW a \in Nat, NEW b \in Nat, a <= b, b <= Len(S)
    PROVE  /\ Seg(S, a, b) \in Seq(T) /\ Len(Seg(S, a, b)) = b - a
           /\ \A i \in 1 .. b - a : Seg(S, a, b)[i] = S[a + i]
<1>1. Len(S) \in Nat /\ \A i \in 1 .. Len(S) : S[i] \in T
  BY LenProperties, ElementOfSeq
<1>2. a + 1 \in Int /\ b \in Int /\ \A i \in a + 1 .. b : S[i] \in T
  BY <1>1
<1>3. /\ SubSeq(S, a + 1, b) \in Seq(T)
      /\ Len(SubSeq(S, a + 1, b)) = IF a + 1 <= b THEN b - (a + 1) + 1 ELSE 0
      /\ \A i \in 1 .. b - (a + 1) + 1 : SubSeq(S, a + 1, b)[i] = S[a + 1 + i - 1]
  BY <1>2, SubSeqProperties
<1>4. \A i \in 1 .. b - a : Seg(S, a, b)[i] = S[a + i]
  <2>. TAKE i \in 1 .. b - a
  <2>1. i \in 1 .. b - (a + 1) + 1 /\ a + 1 + i - 1 = a + i
    OBVIOUS
  <2>2. SubSeq(S, a + 1, b)[i] = S[a + 1 + i - 1]
    BY <1>3, <2>1
  <2>. QED BY <2>1, <2>2 DEF Seg
<1>. QED BY <1>3, <1>4 DEF Seg

LEMMA UptoFacts ==
    ASSUME NEW T, NEW S \in Seq(T), NEW n \in Nat, n <= Len(S)
    PROVE  /\ Upto(S, n) = Seg(S, 0, n)
           /\ Upto(S, n) \in Seq(T) /\ Len(Upto(S, n)) = n
           /\ \A i \in 1 .. n : Upto(S, n)[i] = S[i]
<1>1. Upto(S, n) = Seg(S, 0, n)
  BY DEF Upto, Seg
<1>2. /\ Seg(S, 0, n) \in Seq(T) /\ Len(Seg(S, 0, n)) = n - 0
      /\ \A i \in 1 .. n - 0 : Seg(S, 0, n)[i] = S[0 + i]
  <2>1. 0 \in Nat /\ 0 <= n
    OBVIOUS
  <2>. QED BY <2>1, SegFacts
<1>3. \A i \in 1 .. n : Seg(S, 0, n)[i] = S[i]
  BY <1>2
<1>. QED BY <1>1, <1>2, <1>3

LEMMA UptoEnds ==
    /\ \A S : Upto(S, 0) = <<>>
    /\ \A T : \A S \in Seq(T) : Upto(S, Len(S)) = S
<1>1. \A S : Upto(S, 0) = <<>>
  BY SubSeqEmpty DEF Upto
<1>2. \A T : \A S \in Seq(T) : Upto(S, Len(S)) = S
  BY SubSeqFull DEF Upto
<1>. QED BY <1>1, <1>2

LEMMA SegOfSeg ==
    ASSUME NEW T, NEW S \in Seq(T), NEW a \in Nat, NEW b \in Nat, a <= b, b <= Len(S),
           NEW i \in Nat, NEW j \in Nat, i <= j, j <= b - a
    PROVE  Seg(Seg(S, a, b), i, j) = Seg(S, a + i, a + j)
<1>. DEFINE R == Seg(S, a, b)
<1>0. Len(S) \in Nat
  BY LenProperties
<1>1. R \in Seq(T) /\ Len(R) = b - a /\ \A k \in 1 .. b - a : R[k] = S[a + k]
  BY SegFacts
<1>. HIDE DEF R
<1>2. /\ Seg(R, i, j) \in Seq(T) /\ Len(Seg(R, i, j)) = j - i
      /\ \A k \in 1 .. j - i : Seg(R, i, j)[k] = R[i + k]
  <2>1. R \in Seq(T) /\ i \in Nat /\ j \in Nat /\ i <= j /\ j <= Len(R)
    BY <1>1
  <2>. QED BY ONLY <2>1, SegFacts
<1>3. a + i \in Nat /\ a + j \in Nat /\ a + i <= a + j /\ a + j <= Len(S)
  BY <1>0
<1>4. /\ Seg(S, a + i, a + j) \in Seq(T) /\ Len(Seg(S, a + i, a + j)) = (a + j) - (a + i)
      /\ \A k \in 1 .. (a + j) - (a + i) : Seg(S, a + i, a + j)[k] = S[a + i + k]
  <2>. DEFINE x == a + i
              y == a + j
  <2>1. S \in Seq(T) /\ x \in Nat /\ y \in Nat /\ x <= y /\ y <= Len(S)
    BY <1>3
  <2>. HIDE DEF x, y
  <2>2. /\ Seg(S, x, y) \in Seq(T) /\ Len(Seg(S, x, y)) = y - x
        /\ \A k \in 1 .. y - x : Seg(S, x, y)[k] = S[x + k]
    BY ONLY <2>1, SegFacts
  <2>. QED BY <2>2 DEF x, y
<1>5. (a + j) - (a + i) = j - i
  OBVIOUS
<1>6. \A k \in 1 .. j - i : Seg(R, i, j)[k] = Seg(S, a + i, a + j)[k]
  <2>. TAKE k \in 1 .. j - i
  <2>1. i + k \in 1 .. b - a /\ a + i + k = a + (i + k)
    BY <1>0
  <2>. QED BY <1>1, <1>2, <1>4, <1>5, <2>1
<1>7. Seg(R, i, j) = Seg(S, a + i, a + j)
  BY <1>2, <1>4, <1>5, <1>6, SeqEqual
<1>. QED BY <1>7 DEF R

LEMMA SegJoin ==
    ASSUME NEW T, NEW S \in Seq(T), NEW a \in Nat, NEW b \in Nat, NEW c \in Nat,
           a <= b, b <= c, c <= Len(S)
    PROVE  Seg(S, a, b) \o Seg(S, b, c) = Seg(S, a, c)
<1>0. Len(S) \in Nat
  BY LenProperties
<1>1. a + 1 \in 1 .. Len(S) + 1 /\ b \in (a + 1) - 1 .. Len(S) /\ c \in b .. Len(S)
  BY <1>0
<1>2. SubSeq(S, a + 1, b) \o SubSeq(S, b + 1, c) = SubSeq(S, a + 1, c)
  BY <1>1, ConcatAdjacentSubSeq
<1>. QED BY <1>2 DEF Seg

\* What follows a position that has been reached, or begins anew.
LEMMA GrowsTo ==
    ASSUME NEW T, NEW S \in Seq(T), NEW p \in Nat, NEW q \in Nat, NEW e \in Nat,
           p <= q, p <= e, q <= Len(S), e <= Len(S), NEW h,
           p = 0 \/ h = Upto(S, q)
    PROVE  Upto(h, p) \o Seg(S, p, e) = Upto(S, e)
<1>1. Upto(h, p) = Seg(S, 0, p)
  <2>1. CASE p = 0
    <3>1. Upto(h, p) = <<>> /\ Upto(S, 0) = <<>>
      BY <2>1, UptoEnds
    <3>2. Upto(S, 0) = Seg(S, 0, 0)
      BY UptoFacts, LenProperties
    <3>. QED BY <2>1, <3>1, <3>2
  <2>2. CASE p # 0
    <3>1. Upto(h, p) = Upto(Seg(S, 0, q), p)
      BY <2>2, UptoFacts
    <3>2. Upto(Seg(S, 0, q), p) = Seg(Seg(S, 0, q), 0, p)
      BY DEF Upto, Seg
    <3>3. Seg(Seg(S, 0, q), 0, p) = Seg(S, 0 + 0, 0 + p)
      <4>1. 0 \in Nat /\ 0 <= q /\ q <= Len(S) /\ 0 <= p /\ p <= q - 0
        OBVIOUS
      <4>. QED BY <4>1, SegOfSeg
    <3>. QED BY <3>1, <3>2, <3>3
  <2>. QED BY <2>1, <2>2
<1>2. Seg(S, 0, p) \o Seg(S, p, e) = Seg(S, 0, e)
  <2>1. 0 \in Nat /\ 0 <= p
    OBVIOUS
  <2>. QED BY <2>1, SegJoin
<1>3. Upto(S, e) = Seg(S, 0, e)
  BY UptoFacts
<1>. QED BY <1>1, <1>2, <1>3

LEMMA UptoUpto ==
    ASSUME NEW T, NEW S \in Seq(T), NEW p \in Nat, NEW q \in Nat, p <= q, q <= Len(S)
    PROVE  Upto(Upto(S, q), p) = Upto(S, p)
<1>0. Len(S) \in Nat
  BY LenProperties
<1>1. Upto(S, q) = Seg(S, 0, q) /\ Upto(S, p) = Seg(S, 0, p)
  BY <1>0, UptoFacts
<1>2. Upto(Seg(S, 0, q), p) = Seg(Seg(S, 0, q), 0, p)
  BY DEF Upto, Seg
<1>3. Seg(Seg(S, 0, q), 0, p) = Seg(S, 0 + 0, 0 + p)
  <2>1. 0 \in Nat /\ 0 <= q /\ q <= Len(S) /\ 0 <= p /\ p <= q - 0
    OBVIOUS
  <2>. QED BY <2>1, SegOfSeg
<1>. QED BY <1>1, <1>2, <1>3

\* A name for the prover to match.
Cat(S, R) == S \o R

LEMMA UptoConcat ==
    ASSUME NEW T, NEW S \in Seq(T), NEW R \in Seq(T)
    PROVE  /\ Cat(S, R) \in Seq(T) /\ Len(Cat(S, R)) = Len(S) + Len(R)
           /\ Upto(Cat(S, R), Len(S)) = S
           /\ Seg(Cat(S, R), Len(S), Len(S) + Len(R)) = R
           /\ \A n \in 0 .. Len(R) : Upto(Cat(S, R), Len(S) + n) = Cat(S, Upto(R, n))
<1>1. Len(S) \in Nat /\ Len(R) \in Nat
  BY LenProperties
<1>2. /\ S \o R \in Seq(T) /\ Len(S \o R) = Len(S) + Len(R)
      /\ \A i \in 1 .. Len(S) + Len(R) :
            (S \o R)[i] = IF i <= Len(S) THEN S[i] ELSE R[i - Len(S)]
  BY ConcatProperties
<1>. DEFINE Q == S \o R
            N == Len(S) + Len(R)
<1>3. Q \in Seq(T) /\ Len(Q) = N /\ N \in Nat /\ Len(S) <= N
  BY <1>1, <1>2
<1>4. ASSUME NEW n \in 0 .. Len(R)
      PROVE  Upto(Q, Len(S) + n) = S \o Upto(R, n)
  <2>1. n \in Nat /\ n <= Len(R) /\ Len(S) + n \in Nat /\ Len(S) + n <= Len(Q)
    BY <1>1, <1>2
  <2>2. /\ Upto(R, n) \in Seq(T) /\ Len(Upto(R, n)) = n
        /\ \A i \in 1 .. n : Upto(R, n)[i] = R[i]
    BY <2>1, UptoFacts
  <2>3. /\ Upto(Q, Len(S) + n) \in Seq(T) /\ Len(Upto(Q, Len(S) + n)) = Len(S) + n
        /\ \A i \in 1 .. Len(S) + n : Upto(Q, Len(S) + n)[i] = Q[i]
    <3>. HIDE DEF Q
    <3>. QED BY <1>3, <2>1, UptoFacts
  <2>. DEFINE U == Upto(R, n)
  <2>4. U \in Seq(T) /\ Len(U) = n
    BY <2>2
  <2>. HIDE DEF U
  <2>5. /\ S \o U \in Seq(T) /\ Len(S \o U) = Len(S) + Len(U)
        /\ \A i \in 1 .. Len(S) + Len(U) :
              (S \o U)[i] = IF i <= Len(S) THEN S[i] ELSE U[i - Len(S)]
    BY <2>4, ConcatProperties
  <2>6. ASSUME NEW i \in 1 .. Len(S) + n
        PROVE  Upto(Q, Len(S) + n)[i] = (S \o U)[i]
    <3>1. i \in 1 .. Len(S) + Len(R) /\ i \in 1 .. Len(S) + Len(U)
      BY <1>1, <2>4
    <3>2. Q[i] = IF i <= Len(S) THEN S[i] ELSE R[i - Len(S)]
      BY <1>2, <3>1
    <3>3. (S \o U)[i] = IF i <= Len(S) THEN S[i] ELSE U[i - Len(S)]
      BY <2>5, <3>1
    <3>4. i > Len(S) => i - Len(S) \in 1 .. n
      BY <1>1, <2>1
    <3>5. i > Len(S) => U[i - Len(S)] = R[i - Len(S)]
      BY <2>2, <3>4 DEF U
    <3>. QED BY ONLY <1>1, <2>3, <3>2, <3>3, <3>5, i \in 1 .. Len(S) + n, n \in 0 .. Len(R)
  <2>. HIDE DEF Q
  <2>7. Upto(Q, Len(S) + n) = S \o U
    BY <2>3, <2>4, <2>5, <2>6, SeqEqual
  <2>. QED BY <2>7 DEF U
<1>5. Upto(Q, Len(S)) = S
  <2>1. Upto(Q, Len(S) + 0) = S \o Upto(R, 0)
    BY <1>1, <1>4
  <2>2. Upto(R, 0) = <<>> /\ S \o <<>> = S
    BY UptoEnds, ConcatEmptySeq
  <2>. QED BY <1>1, <2>1, <2>2
<1>6. Seg(Q, Len(S), N) = R
  <2>1. /\ Seg(Q, Len(S), N) \in Seq(T) /\ Len(Seg(Q, Len(S), N)) = N - Len(S)
        /\ \A i \in 1 .. N - Len(S) : Seg(Q, Len(S), N)[i] = Q[Len(S) + i]
    <3>1. ASSUME NEW X \in Seq(T), NEW m \in Nat, NEW n \in Nat, m <= n, n = Len(X)
          PROVE  /\ Seg(X, m, n) \in Seq(T) /\ Len(Seg(X, m, n)) = n - m
                 /\ \A i \in 1 .. n - m : Seg(X, m, n)[i] = X[m + i]
      <4>1. X \in Seq(T) /\ m \in Nat /\ n \in Nat /\ m <= n /\ n <= Len(X)
        BY <3>1
      <4>. QED BY ONLY <4>1, SegFacts
    <3>. HIDE DEF Q, N
    <3>. QED BY <1>1, <1>3, <3>1
  <2>2. N - Len(S) = Len(R)
    BY <1>1
  <2>3. ASSUME NEW i \in 1 .. Len(R) PROVE Q[Len(S) + i] = R[i]
    <3>1. Len(S) + i \in 1 .. Len(S) + Len(R) /\ ~(Len(S) + i <= Len(S)) /\ (Len(S) + i) - Len(S) = i
      BY <1>1
    <3>. QED BY <1>2, <3>1
  <2>. HIDE DEF Q, N
  <2>. QED BY <2>1, <2>2, <2>3, SeqEqual
<1>7. Q = Cat(S, R) /\ \A n : S \o Upto(R, n) = Cat(S, Upto(R, n))
  BY DEF Cat
<1>8. \A n \in 0 .. Len(R) : Upto(Q, Len(S) + n) = Cat(S, Upto(R, n))
  BY <1>4, <1>7
<1>9. Q \in Seq(T) /\ Len(Q) = Len(S) + Len(R)
  BY <1>3
<1>. HIDE DEF Q, N
<1>. QED BY ONLY <1>5, <1>6, <1>7, <1>8, <1>9 DEF N

-----------------------------------------------------------------------------
(* Rows. *)

LEMMA RowsFacts ==
    ASSUME NEW T, NEW S \in Seq(T), NEW p \in Nat, NEW n \in Nat, p + n <= Len(S)
    PROVE  /\ RowsFrom(S, p, n) \in Seq(Seq(T)) /\ Len(RowsFrom(S, p, n)) = n
           /\ \A k \in 1 .. n : RowsFrom(S, p, n)[k] = Upto(S, p + k)
<1>0. Len(S) \in Nat
  BY LenProperties
<1>1. \A k \in 1 .. n : Upto(S, p + k) \in Seq(T)
  <2>. TAKE k \in 1 .. n
  <2>1. p + k \in Nat /\ p + k <= Len(S)
    BY <1>0
  <2>. QED BY <2>1, UptoFacts
<1>2. RowsFrom(S, p, n) \in [1 .. n -> Seq(T)]
  BY <1>1 DEF RowsFrom
<1>3. RowsFrom(S, p, n) \in Seq(Seq(T)) /\ Len(RowsFrom(S, p, n)) = n
  BY <1>2
<1>4. \A k \in 1 .. n : RowsFrom(S, p, n)[k] = Upto(S, p + k)
  BY DEF RowsFrom
<1>. QED BY <1>3, <1>4

LEMMA RowsEmpty == \A S, p : RowsFrom(S, p, 0) = <<>>
<1>. SUFFICES ASSUME NEW S, NEW p PROVE RowsFrom(S, p, 0) = <<>>
  OBVIOUS
<1>1. 1 .. 0 = {}
  OBVIOUS
<1>2. RowsFrom(S, p, 0) \in [1 .. 0 -> {}]
  BY <1>1 DEF RowsFrom
<1>3. RowsFrom(S, p, 0) \in Seq({}) /\ Len(RowsFrom(S, p, 0)) = 0
  BY <1>2
<1>. QED BY <1>3, EmptySeq

LEMMA RowsJoin ==
    ASSUME NEW T, NEW S \in Seq(T), NEW p \in Nat, NEW m \in Nat, NEW n \in Nat,
           p + m + n <= Len(S)
    PROVE  RowsFrom(S, p, m) \o RowsFrom(S, p + m, n) = RowsFrom(S, p, m + n)
<1>0. Len(S) \in Nat
  BY LenProperties
<1>. DEFINE A == RowsFrom(S, p, m)
            B == RowsFrom(S, p + m, n)
            C == RowsFrom(S, p, m + n)
<1>1. p + m <= Len(S) /\ p + m \in Nat /\ (p + m) + n <= Len(S) /\ m + n \in Nat
      /\ p + (m + n) <= Len(S)
  BY <1>0
<1>2. A \in Seq(Seq(T)) /\ Len(A) = m /\ \A k \in 1 .. m : A[k] = Upto(S, p + k)
  BY <1>1, RowsFacts
<1>3. B \in Seq(Seq(T)) /\ Len(B) = n /\ \A k \in 1 .. n : B[k] = Upto(S, p + m + k)
  BY <1>1, RowsFacts
<1>4. C \in Seq(Seq(T)) /\ Len(C) = m + n /\ \A k \in 1 .. m + n : C[k] = Upto(S, p + k)
  BY <1>1, RowsFacts
<1>. HIDE DEF A, B, C
<1>5. /\ A \o B \in Seq(Seq(T)) /\ Len(A \o B) = Len(A) + Len(B)
      /\ \A k \in 1 .. Len(A) + Len(B) : (A \o B)[k] = IF k <= Len(A) THEN A[k] ELSE B[k - Len(A)]
  BY <1>2, <1>3, ConcatProperties
<1>6. ASSUME NEW k \in 1 .. m + n PROVE (A \o B)[k] = C[k]
  <2>1. (A \o B)[k] = IF k <= m THEN A[k] ELSE B[k - m]
    BY <1>2, <1>3, <1>5
  <2>2. CASE k <= m
    BY <1>2, <1>4, <2>1, <2>2
  <2>3. CASE k > m
    <3>1. k - m \in 1 .. n /\ p + m + (k - m) = p + k
      BY <2>3
    <3>2. B[k - m] = Upto(S, p + m + (k - m))
      BY <1>3, <3>1
    <3>. QED BY <1>4, <2>1, <2>3, <3>1, <3>2
  <2>4. k <= m \/ k > m
    OBVIOUS
  <2>. QED BY ONLY <2>2, <2>3, <2>4
<1>7. A \o B = C
  BY <1>2, <1>3, <1>4, <1>5, <1>6, SeqEqual
<1>. QED BY <1>7 DEF A, B, C

LEMMA RowsUpto ==
    ASSUME NEW T, NEW S \in Seq(T), NEW p \in Nat, NEW m \in Nat, NEW n \in Nat,
           m <= n, p + n <= Len(S)
    PROVE  Upto(RowsFrom(S, p, n), m) = RowsFrom(S, p, m)
<1>0. Len(S) \in Nat
  BY LenProperties
<1>. DEFINE A == RowsFrom(S, p, m)
            C == RowsFrom(S, p, n)
<1>1. A \in Seq(Seq(T)) /\ Len(A) = m /\ \A k \in 1 .. m : A[k] = Upto(S, p + k)
  <2>1. p + m <= Len(S)
    BY <1>0
  <2>. QED BY <2>1, RowsFacts
<1>2. C \in Seq(Seq(T)) /\ Len(C) = n /\ \A k \in 1 .. n : C[k] = Upto(S, p + k)
  BY RowsFacts
<1>. HIDE DEF A, C
<1>3. /\ Upto(C, m) \in Seq(Seq(T)) /\ Len(Upto(C, m)) = m
      /\ \A k \in 1 .. m : Upto(C, m)[k] = C[k]
  <2>1. m <= Len(C)
    BY <1>2
  <2>. QED BY <1>2, <2>1, UptoFacts
<1>4. \A k \in 1 .. m : Upto(C, m)[k] = A[k]
  BY <1>1, <1>2, <1>3
<1>5. Upto(C, m) = A
  BY <1>1, <1>3, <1>4, SeqEqual
<1>. QED BY <1>5 DEF A, C

\* The tokens the draft head reads from rows.
LEMMA LastsOfRows ==
    ASSUME NEW T, NEW S \in Seq(T), NEW p \in Nat, NEW n \in Nat, p + n <= Len(S)
    PROVE  Lasts(RowsFrom(S, p, n)) = Seg(S, p, p + n)
<1>0. Len(S) \in Nat
  BY LenProperties
<1>. DEFINE C == RowsFrom(S, p, n)
<1>1. C \in Seq(Seq(T)) /\ Len(C) = n /\ \A k \in 1 .. n : C[k] = Upto(S, p + k)
  BY RowsFacts
<1>2. ASSUME NEW k \in 1 .. n
      PROVE  C[k][Len(C[k])] = S[p + k] /\ S[p + k] \in T
  <2>1. p + k \in Nat /\ p + k <= Len(S) /\ p + k \in 1 .. p + k /\ p + k \in 1 .. Len(S)
    BY <1>0
  <2>2. Len(Upto(S, p + k)) = p + k /\ \A i \in 1 .. p + k : Upto(S, p + k)[i] = S[i]
    BY <2>1, UptoFacts
  <2>3. C[k] = Upto(S, p + k)
    BY <1>1
  <2>. QED BY <2>1, <2>2, <2>3, ElementOfSeq
<1>. HIDE DEF C
<1>3. Lasts(C) = [k \in 1 .. n |-> C[k][Len(C[k])]]
  BY <1>1 DEF Lasts
<1>4. Lasts(C) \in [1 .. n -> T]
  BY <1>2, <1>3
<1>5. Lasts(C) \in Seq(T) /\ Len(Lasts(C)) = n /\ \A k \in 1 .. n : Lasts(C)[k] = S[p + k]
  BY <1>2, <1>3, <1>4
<1>6. /\ Seg(S, p, p + n) \in Seq(T) /\ Len(Seg(S, p, p + n)) = n
      /\ \A k \in 1 .. n : Seg(S, p, p + n)[k] = S[p + k]
  <2>1. p + n \in Nat /\ p <= p + n /\ (p + n) - p = n
    OBVIOUS
  <2>2. /\ Seg(S, p, p + n) \in Seq(T) /\ Len(Seg(S, p, p + n)) = (p + n) - p
        /\ \A k \in 1 .. (p + n) - p : Seg(S, p, p + n)[k] = S[p + k]
    BY ONLY S \in Seq(T), p \in Nat, p + n <= Len(S), <2>1, SegFacts
  <2>. QED BY ONLY <2>1, <2>2
<1>7. Lasts(C) = Seg(S, p, p + n)
  BY <1>5, <1>6, SeqEqual
<1>. QED BY <1>7 DEF C

-----------------------------------------------------------------------------
(* The two queues of a connection. *)

\* A request is sent.
LEMMA MatchesSend ==
    ASSUME NEW A, NEW B, NEW C, NEW D, NEW sent \in Seq(A), NEW answers \in Seq(B),
           NEW requests \in Seq(C), NEW replies \in Seq(D), NEW f \in A, NEW g \in B,
           f \in C, Len(answers) = Len(sent), Matches(sent, answers, requests, replies)
    PROVE  Matches(Append(sent, f), Append(answers, g), Append(requests, f), replies)
<1>0. Len(sent) \in Nat /\ Len(requests) \in Nat /\ Len(replies) \in Nat
  BY LenProperties
<1>1. /\ Len(Append(sent, f)) = Len(sent) + 1 /\ Append(sent, f)[Len(sent) + 1] = f
      /\ \A i \in 1 .. Len(sent) : Append(sent, f)[i] = sent[i]
  BY AppendProperties
<1>2. /\ Len(Append(requests, f)) = Len(requests) + 1
      /\ Append(requests, f)[Len(requests) + 1] = f
      /\ \A i \in 1 .. Len(requests) : Append(requests, f)[i] = requests[i]
  BY AppendProperties
<1>3. \A i \in 1 .. Len(answers) : Append(answers, g)[i] = answers[i]
  BY AppendProperties
<1>4. /\ Len(requests) + Len(replies) = Len(sent)
      /\ \A k \in 1 .. Len(requests) : requests[k] = sent[Len(replies) + k]
      /\ \A k \in 1 .. Len(replies) : replies[k] \in {answers[k], ErrorFrame}
  BY DEF Matches
<1>5. ASSUME NEW k \in 1 .. Len(Append(requests, f))
      PROVE  Append(requests, f)[k] = Append(sent, f)[Len(replies) + k]
  <2>1. CASE k = Len(requests) + 1
    BY <1>0, <1>1, <1>2, <1>4, <2>1
  <2>2. CASE k # Len(requests) + 1
    <3>1. k \in 1 .. Len(requests) /\ Len(replies) + k \in 1 .. Len(sent)
      BY <1>0, <1>2, <1>4, <2>2
    <3>. QED BY <1>1, <1>2, <1>4, <3>1
  <2>. QED BY <2>1, <2>2
<1>6. ASSUME NEW k \in 1 .. Len(replies)
      PROVE  replies[k] \in {Append(answers, g)[k], ErrorFrame}
  <2>1. k \in 1 .. Len(answers)
    BY <1>0, <1>4
  <2>. QED BY <1>3, <1>4, <2>1
<1>. QED BY <1>0, <1>1, <1>2, <1>4, <1>5, <1>6 DEF Matches

\* The worker takes a request and answers it, or reports an error.
LEMMA MatchesReply ==
    ASSUME NEW C, NEW D, NEW sent, NEW answers, NEW requests \in Seq(C),
           NEW replies \in Seq(D), NEW g \in D, requests # <<>>,
           g \in {answers[Len(replies) + 1], ErrorFrame},
           Len(sent) \in Nat, Matches(sent, answers, requests, replies)
    PROVE  Matches(sent, answers, Tail(requests), Append(replies, g))
<1>0. Len(requests) \in Nat /\ Len(replies) \in Nat /\ Len(requests) > 0
  BY LenProperties, EmptySeq
<1>1. /\ Len(Tail(requests)) = Len(requests) - 1
      /\ \A i \in 1 .. Len(requests) - 1 : Tail(requests)[i] = requests[i + 1]
  BY HeadTailProperties
<1>2. /\ Len(Append(replies, g)) = Len(replies) + 1
      /\ Append(replies, g)[Len(replies) + 1] = g
      /\ \A i \in 1 .. Len(replies) : Append(replies, g)[i] = replies[i]
  BY AppendProperties
<1>3. /\ Len(requests) + Len(replies) = Len(sent)
      /\ \A k \in 1 .. Len(requests) : requests[k] = sent[Len(replies) + k]
      /\ \A k \in 1 .. Len(replies) : replies[k] \in {answers[k], ErrorFrame}
  BY DEF Matches
<1>4. ASSUME NEW k \in 1 .. Len(Tail(requests))
      PROVE  Tail(requests)[k] = sent[Len(Append(replies, g)) + k]
  <2>1. k \in 1 .. Len(requests) - 1 /\ k + 1 \in 1 .. Len(requests)
        /\ Len(Append(replies, g)) + k = Len(replies) + (k + 1)
    BY <1>0, <1>1, <1>2
  <2>2. requests[k + 1] = sent[Len(replies) + (k + 1)]
    BY <1>3, <2>1
  <2>. QED BY <1>1, <2>1, <2>2
<1>5. ASSUME NEW k \in 1 .. Len(Append(replies, g))
      PROVE  Append(replies, g)[k] \in {answers[k], ErrorFrame}
  <2>1. CASE k = Len(replies) + 1
    BY <1>2, <2>1
  <2>2. CASE k # Len(replies) + 1
    <3>1. k \in 1 .. Len(replies)
      BY <1>0, <1>2, <2>2
    <3>. QED BY <1>2, <1>3, <3>1
  <2>. QED BY <2>1, <2>2
<1>6. Len(Tail(requests)) + Len(Append(replies, g)) = Len(sent)
  BY <1>0, <1>1, <1>2, <1>3
<1>. QED BY <1>4, <1>5, <1>6 DEF Matches

\* The coordinator reads the first reply.
LEMMA MatchesRead ==
    ASSUME NEW A, NEW B, NEW C, NEW D, NEW sent \in Seq(A), NEW answers \in Seq(B),
           NEW requests \in Seq(C), NEW replies \in Seq(D), replies # <<>>,
           Len(answers) = Len(sent), Matches(sent, answers, requests, replies)
    PROVE  /\ sent # <<>> /\ Head(replies) \in {Head(answers), ErrorFrame}
           /\ Matches(Tail(sent), Tail(answers), requests, Tail(replies))
<1>0. /\ Len(sent) \in Nat /\ Len(requests) \in Nat /\ Len(replies) \in Nat
      /\ Len(replies) > 0 /\ Len(answers) \in Nat
  BY LenProperties, EmptySeq
<1>1. /\ Len(requests) + Len(replies) = Len(sent)
      /\ \A k \in 1 .. Len(requests) : requests[k] = sent[Len(replies) + k]
      /\ \A k \in 1 .. Len(replies) : replies[k] \in {answers[k], ErrorFrame}
  BY DEF Matches
<1>2. sent # <<>> /\ answers # <<>>
  BY <1>0, <1>1, EmptySeq
<1>3. /\ Len(Tail(sent)) = Len(sent) - 1
      /\ \A i \in 1 .. Len(sent) - 1 : Tail(sent)[i] = sent[i + 1]
  BY <1>2, HeadTailProperties
<1>4. /\ Len(Tail(answers)) = Len(answers) - 1
      /\ \A i \in 1 .. Len(answers) - 1 : Tail(answers)[i] = answers[i + 1]
  BY <1>2, HeadTailProperties
<1>5. /\ Len(Tail(replies)) = Len(replies) - 1
      /\ \A i \in 1 .. Len(replies) - 1 : Tail(replies)[i] = replies[i + 1]
  BY HeadTailProperties
<1>6. Head(replies) = replies[1] /\ Head(answers) = answers[1]
  OBVIOUS
<1>7. Head(replies) \in {Head(answers), ErrorFrame}
  <2>1. 1 \in 1 .. Len(replies)
    BY <1>0
  <2>. QED BY <1>1, <1>6, <2>1
<1>8. ASSUME NEW k \in 1 .. Len(requests)
      PROVE  requests[k] = Tail(sent)[Len(Tail(replies)) + k]
  <2>1. /\ Len(Tail(replies)) + k \in 1 .. Len(sent) - 1
        /\ Len(Tail(replies)) + k + 1 = Len(replies) + k
    BY <1>0, <1>1, <1>5
  <2>. QED BY <1>1, <1>3, <2>1
<1>9. ASSUME NEW k \in 1 .. Len(Tail(replies))
      PROVE  Tail(replies)[k] \in {Tail(answers)[k], ErrorFrame}
  <2>1. k \in 1 .. Len(replies) - 1 /\ k \in 1 .. Len(answers) - 1 /\ k + 1 \in 1 .. Len(replies)
    BY <1>0, <1>1, <1>5
  <2>2. Tail(replies)[k] = replies[k + 1] /\ Tail(answers)[k] = answers[k + 1]
    BY <1>4, <1>5, <2>1
  <2>. QED BY <1>1, <2>1, <2>2
<1>10. Len(requests) + Len(Tail(replies)) = Len(Tail(sent))
  <2>1. Len(requests) + Len(replies) = Len(sent)
    BY <1>1
  <2>. DEFINE x == Len(Tail(sent))
              y == Len(Tail(replies))
  <2>2. x = Len(sent) - 1 /\ y = Len(replies) - 1
    BY <1>3, <1>5
  <2>3. Len(requests) + y = x
    <3>. HIDE DEF x, y
    <3>. QED BY ONLY <1>0, <2>1, <2>2
  <2>. QED BY <2>3
<1>. QED BY <1>2, <1>7, <1>8, <1>9, <1>10 DEF Matches

\* The first request on its way is the first that has not been answered.
LEMMA MatchesHead ==
    ASSUME NEW C, NEW D, NEW sent, NEW answers, NEW requests \in Seq(C),
           NEW replies \in Seq(D), requests # <<>>, Len(sent) \in Nat,
           Matches(sent, answers, requests, replies)
    PROVE  /\ Head(requests) = sent[Len(replies) + 1]
           /\ Len(replies) + 1 \in 1 .. Len(sent)
<1>0. Len(requests) \in Nat /\ Len(replies) \in Nat /\ Len(requests) > 0
  BY LenProperties, EmptySeq
<1>1. 1 \in 1 .. Len(requests)
  BY <1>0
<1>. QED BY <1>0, <1>1 DEF Matches

-----------------------------------------------------------------------------
(* What follows from the invariant. *)

LEMMA StagesAreThere == \A w \in Stages : w # Absent
<1>. SUFFICES ASSUME NEW w \in Stages, w = Absent PROVE FALSE
  OBVIOUS
<1>1. w.hist \in Seq(Tokens) /\ w.hist = <<None>>
  BY DEF Stages, Absent
<1>2. None \in Tokens
  <2>1. Len(<<None>>) = 1 /\ <<None>>[1] = None
    OBVIOUS
  <2>. QED BY <1>1, <2>1, ElementOfSeq
<1>. QED BY <1>2, TokensAssumption DEF None

LEMMA AimFacts ==
    ASSUME TypeInv, op.s \in Sessions
    PROVE  /\ Aim \in Seq(Tokens) /\ Len(Aim) \in Nat
           /\ ckpt[op.s] \in Seq(Tokens) /\ Len(ckpt[op.s]) \in Nat
           /\ op.input \in Seq(Tokens) /\ Len(op.input) \in Nat
           /\ op.kind = "sync" => Aim = op.input
           /\ op.kind # "sync" =>
                 /\ Len(Aim) = Len(ckpt[op.s]) + Len(op.input)
                 /\ Upto(Aim, Len(ckpt[op.s])) = ckpt[op.s]
                 /\ Seg(Aim, Len(ckpt[op.s]), Len(Aim)) = op.input
                 /\ \A n \in 0 .. Len(op.input) :
                       Upto(Aim, Len(ckpt[op.s]) + n) = Cat(ckpt[op.s], Upto(op.input, n))
<1>1. ckpt[op.s] \in Seq(Tokens) /\ op.input \in Seq(Tokens)
  BY DEF TypeInv, SessionTypes, ControlTypes, OpType
<1>2. Len(ckpt[op.s]) \in Nat /\ Len(op.input) \in Nat
  BY <1>1, LenProperties
<1>3. CASE op.kind = "sync"
  BY <1>1, <1>2, <1>3 DEF Aim
<1>4. CASE op.kind # "sync"
  <2>1. Aim = Cat(ckpt[op.s], op.input)
    BY <1>4 DEF Aim, Cat
  <2>2. /\ Aim \in Seq(Tokens)
        /\ Len(Aim) = Len(ckpt[op.s]) + Len(op.input)
        /\ Upto(Aim, Len(ckpt[op.s])) = ckpt[op.s]
        /\ Seg(Aim, Len(ckpt[op.s]), Len(ckpt[op.s]) + Len(op.input)) = op.input
        /\ \A n \in 0 .. Len(op.input) :
              Upto(Aim, Len(ckpt[op.s]) + n) = Cat(ckpt[op.s], Upto(op.input, n))
    <3>. DEFINE C == ckpt[op.s]
                I == op.input
    <3>1. C \in Seq(Tokens) /\ I \in Seq(Tokens) /\ Aim = Cat(C, I)
      BY <1>1, <2>1
    <3>. HIDE DEF C, I
    <3>2. /\ Cat(C, I) \in Seq(Tokens) /\ Len(Cat(C, I)) = Len(C) + Len(I)
          /\ Upto(Cat(C, I), Len(C)) = C
          /\ Seg(Cat(C, I), Len(C), Len(C) + Len(I)) = I
      BY ONLY <3>1, UptoConcat
    <3>3. ASSUME NEW n \in 0 .. Len(I)
          PROVE Upto(Cat(C, I), Len(C) + n) = Cat(C, Upto(I, n))
      BY ONLY <3>1, UptoConcat
    <3>. QED BY <3>1, <3>2, <3>3 DEF C, I
  <2>3. Len(Aim) \in Nat
    BY <2>2, LenProperties
  <2>. QED BY ONLY <1>1, <1>2, <1>4, <2>2, <2>3
<1>. QED BY <1>3, <1>4

\* No frame is on its way while nothing is asked.
LEMMA QueuesEmpty ==
    ASSUME TypeInv, FramesOK, pc \in {"idle", "route", "create", "span", "commit"}
    PROVE  toWorker = <<>> /\ toCoord = <<>>
<1>1. Sent = <<>>
  BY DEF Sent
<1>2. Len(Sent) = 0
  BY <1>1
<1>3. Len(toWorker) \in Nat /\ Len(toCoord) \in Nat /\ toWorker \in Seq(Asked)
      /\ toCoord \in Seq(Answered)
  BY LenProperties DEF TypeInv, ControlTypes
<1>4. Len(toWorker) = 0 /\ Len(toCoord) = 0
  BY <1>2, <1>3 DEF FramesOK, Matches
<1>. QED BY <1>3, <1>4, EmptySeq

\* The next span.
LEMMA FirstSpan ==
    ASSUME TypeInv, OpOK, op.spans # <<>>, pc \notin {"idle", "freeing"}
    PROVE  LET sp == Head(op.spans)
               end == sp.pos + Len(sp.toks)
           IN  /\ sp = op.spans[1] /\ sp \in Spans /\ Len(op.spans) \in Nat \ {0}
               /\ sp.toks \in Seq(Tokens) /\ sp.pos \in Nat /\ sp.verify \in BOOLEAN
               /\ Len(sp.toks) \in Nat \ {0} /\ StartPos = sp.pos
               /\ end <= Len(Aim) /\ sp.toks = Seg(Aim, sp.pos, end)
               /\ end = IF Len(op.spans) = 1 THEN Len(Aim) ELSE op.spans[2].pos
               /\ sp.verify <=> op.kind = "spec" /\ Len(op.spans) = 1
               /\ sp.verify => sp.pos = Len(ckpt[op.s])
<1>1. op.spans \in Seq(Spans)
  BY DEF TypeInv, ControlTypes, OpType
<1>2. Len(op.spans) \in Nat \ {0} /\ 1 \in 1 .. Len(op.spans)
  BY <1>1, LenProperties, EmptySeq
<1>3. Head(op.spans) = op.spans[1] /\ op.spans[1] \in Spans
  BY <1>1, <1>2, ElementOfSeq
<1>4. op.spans[1].toks \in Seq(Tokens) /\ op.spans[1].pos \in Nat /\ op.spans[1].verify \in BOOLEAN
  BY <1>3 DEF Spans
<1>5. SpanOK(1)
  <2>1. 1 \in DOMAIN op.spans
    BY <1>1, <1>2
  <2>. QED BY <2>1 DEF OpOK, SpansOK
<1>6. Len(op.spans[1].toks) \in Nat \ {0}
  <2>1. op.spans[1].toks # <<>>
    BY <1>5 DEF SpanOK
  <2>. QED BY <1>4, <2>1, LenProperties, EmptySeq
<1>7. StartPos = op.spans[1].pos
  BY <1>3 DEF StartPos
<1>. QED BY <1>2, <1>3, <1>4, <1>5, <1>6, <1>7 DEF SpanOK

\* A speculation is open only in a speculation.
LEMMA OnlySpeculations ==
    ASSUME PipeInv, NEW s \in Sessions, specA[s] # None
    PROVE  s = op.s /\ op.kind = "spec" /\ pc \in {"body", "commit"}
<1>1. s = op.s /\ pc \in {"body", "commit"} /\ body.verify
  BY DEF PipeInv, Speculates
<1>2. Head(op.spans).verify /\ op.spans # <<>>
  BY <1>1 DEF PipeInv, SpanInv, Verifying, OpOK
<1>3. op.kind = "spec"
  BY <1>1, <1>2, FirstSpan DEF PipeInv
<1>. QED BY <1>1, <1>3

-----------------------------------------------------------------------------
(* Between operations. *)

LEMMA SentNothing ==
    ASSUME pc \notin {"created", "freeing", "ack", "body", "exchange"},
           toWorker = <<>>, toCoord = <<>>
    PROVE  FramesOK
<1>1. Sent = <<>>
  BY DEF Sent
<1>2. Matches(Sent, Answers, toWorker, toCoord)
  BY <1>1 DEF Matches
<1>. QED BY <1>2 DEF FramesOK

LEMMA IdleIsFine ==
    ASSUME pc = "idle", op = NoOp, body = NoBody, toWorker = <<>>, toCoord = <<>>,
           \A s \in Sessions : specA[s] = None
    PROVE  Speculates /\ OpOK /\ AtSpan /\ SpanInv /\ WireInv
<1>1. Speculates /\ AtSpan
  BY DEF Speculates, AtSpan
<1>2. OpOK
  BY DEF OpOK
<1>3. SpanInv
  BY DEF SpanInv, BodySpan, Verifying, BlockSpan, Committing
<1>4. FramesOK
  BY SentNothing
<1>5. WorkerFollows
  BY DEF WorkerFollows
<1>. QED BY <1>1, <1>2, <1>3, <1>4, <1>5 DEF WireInv

-----------------------------------------------------------------------------
(* The connection. *)

\* The connection breaks, or nothing but what surrounds it changes.
LEMMA LinkOnly ==
    ASSUME PipeInv, TypeInv',
           UNCHANGED <<engineVars, sessVars, stageVars, opVars, toWorker, toCoord>>,
           Connected' => Connected /\ wsess' = wsess
    PROVE  PipeInv'
<1>. USE DEF engineVars, sessVars, stageVars, opVars
<1>1. Aim' = Aim /\ StartPos' = StartPos
  BY DEF Aim, StartPos
<1>2. Resting'
  <2>1. ASSUME NEW s \in Sessions, Rests(s) PROVE Rests(s)'
    BY <2>1 DEF Rests, Sampled, Known, Stale
  <2>. QED BY <2>1 DEF PipeInv, Resting
<1>3. Speculates'
  BY DEF PipeInv, Speculates
<1>4. OpOK'
  BY <1>1 DEF PipeInv, OpOK, SpansOK, SpanOK, Sampled
<1>5. AtSpan'
  BY <1>1 DEF PipeInv, AtSpan, HostAt, HeadAt, LogitsAt
<1>6. SpanInv'
  <2>1. Bounds' = Bounds
    BY <1>1 DEF Bounds, Got, Cursor, ChunkOK
  <2>2. Judged' = Judged
    BY <1>1 DEF Judged, Got, Cursor, RowsTo, Refuted, Follows
  <2>3. (BodySpan /\ Verifying)' = (BodySpan /\ Verifying)
    BY <1>1, <2>2 DEF BodySpan, Verifying, HostAt, HeadAt, LogitsAt, Got, Cursor
  <2>4. BlockSpan' = BlockSpan
    BY <1>1 DEF BlockSpan, BlockRows, RowsTo, HostAt, HeadAt, Got, Cursor, BodyFinished, Rest
  <2>5. Committing' = Committing
    BY <1>1, <2>2 DEF Committing, HostAt, HeadAt, CommitLen, Follows
  <2>. QED BY <2>1, <2>3, <2>4, <2>5 DEF PipeInv, SpanInv
<1>7. WireInv'
  <2>1. Sent' = Sent /\ Answers' = Answers
    BY <1>1 DEF Sent, Answers, ChunkFrame, FlagsOf, RowsOf, LastChunk, CommitLen, Follows
  <2>2. FramesOK'
    BY <2>1 DEF PipeInv, WireInv, FramesOK, Matches
  <2>3. WorkerFollows'
    BY <1>1 DEF PipeInv, WireInv, WorkerFollows, WorkerAt, Handled, Cursor, CommitLen, Follows
  <2>. QED BY <2>2, <2>3 DEF WireInv
<1>. QED BY <1>2, <1>3, <1>4, <1>5, <1>6, <1>7 DEF PipeInv

LEMMA InitPipe == Init => PipeInv
<1>. SUFFICES ASSUME Init PROVE PipeInv
  OBVIOUS
<1>. USE DEF Init
<1>1. SessionTypes
  <2>1. <<>> \in Seq(Tokens) /\ 0 \in Nat
    OBVIOUS
  <2>. QED BY <2>1 DEF SessionTypes
<1>2. StageTypes
  <2>1. <<>> \in Seq(Tokens) /\ <<>> \in Seq(Tokens \cup {Dirty})
    OBVIOUS
  <2>. QED BY <2>1 DEF StageTypes
<1>3. ControlTypes
  <2>1. NoOp \in OpType
    <3>1. <<>> \in Seq(Tokens) /\ <<>> \in Seq(Spans)
      OBVIOUS
    <3>. QED BY <3>1 DEF NoOp, OpType
  <2>2. NoBody \in BodyType
    <3>1. <<>> \in Seq(Tokens) /\ <<>> \in Seq(Chunks) /\ <<>> \in Seq(Seq(Tokens)) /\ 0 \in Nat
      OBVIOUS
    <3>. QED BY <3>1 DEF NoBody, BodyType
  <2>3. <<>> \in Seq(Asked) /\ <<>> \in Seq(Answered)
    OBVIOUS
  <2>. QED BY <2>1, <2>2, <2>3 DEF ControlTypes, Pcs
<1>4. Links
  <2>1. MaxConns \in Nat
    BY CapsAssumption
  <2>2. backlog \in Seq(Nat \ {0}) /\ Len(backlog) = 0 /\ DOMAIN backlog = {}
    OBVIOUS
  <2>. QED BY <2>1, <2>2 DEF Links
<1>5. Resting
  BY DEF Resting, Rests, Sampled, Known, Stale, Connected
<1>6. \A s \in Sessions : specA[s] = None
  OBVIOUS
<1>. QED BY <1>1, <1>2, <1>3, <1>4, <1>5, <1>6, IdleIsFine DEF PipeInv, TypeInv

\* A queue without its first element.
LEMMA TailIsPart ==
    ASSUME NEW T, NEW q \in Seq(T), q # <<>>
    PROVE  /\ Head(q) \in T /\ Head(q) = q[1] /\ 1 \in DOMAIN q /\ Len(q) \in Nat \ {0}
           /\ Tail(q) \in Seq(T) /\ Len(Tail(q)) = Len(q) - 1
           /\ \A i \in DOMAIN Tail(q) : i + 1 \in DOMAIN q /\ Tail(q)[i] = q[i + 1]
<1>1. Len(q) \in Nat \ {0} /\ DOMAIN q = 1 .. Len(q)
  BY LenProperties, EmptySeq
<1>2. /\ Head(q) \in T /\ Head(q) = q[1]
      /\ Tail(q) \in Seq(T) /\ Len(Tail(q)) = Len(q) - 1
      /\ \A i \in 1 .. Len(q) - 1 : Tail(q)[i] = q[i + 1]
  BY <1>1, HeadTailProperties, ElementOfSeq
<1>3. DOMAIN Tail(q) = 1 .. Len(q) - 1
  BY <1>2, LenProperties
<1>. QED BY <1>1, <1>2, <1>3

NothingWaits(q) == \A i \in DOMAIN q :
    /\ q[i] <= conns /\ q[i] # fd
    /\ wpc \in {"loop", "reply"} => q[i] # wfd
    /\ \A k \in DOMAIN q : q[i] = q[k] => i = k

LEMMA TailWaits ==
    ASSUME Links, backlog # <<>>
    PROVE  /\ Tail(backlog) \in Seq(Nat \ {0}) /\ Len(Tail(backlog)) = Len(backlog) - 1
           /\ Len(backlog) \in Nat \ {0} /\ NothingWaits(Tail(backlog))
           /\ Head(backlog) \in Nat \ {0} /\ Head(backlog) <= conns /\ Head(backlog) # fd
           /\ wpc \in {"loop", "reply"} => Head(backlog) # wfd
           /\ \A i \in DOMAIN Tail(backlog) : Tail(backlog)[i] # Head(backlog)
<1>1. backlog \in Seq(Nat \ {0}) /\ NothingWaits(backlog)
  BY DEF Links, NothingWaits
<1>2. /\ Head(backlog) \in Nat \ {0} /\ Head(backlog) = backlog[1] /\ 1 \in DOMAIN backlog
      /\ Len(backlog) \in Nat \ {0}
      /\ Tail(backlog) \in Seq(Nat \ {0}) /\ Len(Tail(backlog)) = Len(backlog) - 1
      /\ \A i \in DOMAIN Tail(backlog) :
            i + 1 \in DOMAIN backlog /\ Tail(backlog)[i] = backlog[i + 1]
  BY <1>1, TailIsPart
<1>3. \A i \in DOMAIN Tail(backlog) : i \in Nat \ {0}
  BY <1>2, LenProperties
<1>. DEFINE q == Tail(backlog)
<1>4. NothingWaits(q)
  <2>1. \A i \in DOMAIN q : i + 1 \in DOMAIN backlog /\ q[i] = backlog[i + 1] /\ i \in Nat
    BY <1>2, <1>3
  <2>. HIDE DEF q
  <2>2. \A i, k \in DOMAIN q : q[i] = q[k] => i = k
    <3>. TAKE i, k \in DOMAIN q
    <3>1. q[i] = q[k] => i + 1 = k + 1
      BY <1>1, <2>1 DEF NothingWaits
    <3>. QED BY <2>1, <3>1
  <2>. QED BY <1>1, <2>1, <2>2 DEF NothingWaits
<1>5. \A i \in DOMAIN Tail(backlog) : Tail(backlog)[i] # Head(backlog)
  <2>. TAKE i \in DOMAIN Tail(backlog)
  <2>1. i + 1 \in DOMAIN backlog /\ Tail(backlog)[i] = backlog[i + 1] /\ i + 1 # 1
    BY <1>2, <1>3
  <2>2. backlog[i + 1] # backlog[1]
    BY <1>1, <1>2, <2>1 DEF NothingWaits
  <2>. QED BY <1>2, <2>1, <2>2
<1>6. Head(backlog) <= conns /\ Head(backlog) # fd
      /\ (wpc \in {"loop", "reply"} => Head(backlog) # wfd)
  BY <1>1, <1>2 DEF NothingWaits
<1>. QED BY <1>2, <1>4, <1>5, <1>6

-----------------------------------------------------------------------------
(* The end of an operation, and what happens between two. *)

LEMMA SentNothingNext ==
    ASSUME pc' \notin {"created", "freeing", "ack", "body", "exchange"},
           toWorker' = <<>>, toCoord' = <<>>
    PROVE  FramesOK'
<1>1. Sent' = <<>>
  BY DEF Sent
<1>2. Matches(Sent, Answers, toWorker, toCoord)'
  BY <1>1 DEF Matches
<1>. QED BY <1>2 DEF FramesOK

LEMMA IdleNext ==
    ASSUME pc' = "idle", op' = NoOp, body' = NoBody, toWorker' = <<>>, toCoord' = <<>>,
           \A s \in Sessions : specA'[s] = None
    PROVE  (Speculates /\ OpOK /\ AtSpan /\ SpanInv /\ WireInv)'
<1>1. Speculates' /\ AtSpan'
  BY DEF Speculates, AtSpan
<1>2. OpOK'
  BY DEF OpOK
<1>3. SpanInv'
  BY DEF SpanInv, BodySpan, Verifying, BlockSpan, Committing
<1>4. FramesOK'
  BY SentNothingNext
<1>5. WorkerFollows'
  BY DEF WorkerFollows
<1>. QED BY <1>1, <1>2, <1>3, <1>4, <1>5 DEF WireInv

\* A sequence with a token more.
LEMMA Dirtied ==
    ASSUME NEW h \in Seq(Tokens \cup {Dirty})
    PROVE  Append(h, Dirty) \in Seq(Tokens \cup {Dirty})
<1>1. Dirty \in Tokens \cup {Dirty}
  OBVIOUS
<1>. QED BY <1>1, AppendProperties

LEMMA OpHasSession ==
    ASSUME PipeInv, pc # "idle" PROVE op.s \in Sessions
BY DEF PipeInv, OpOK

LEMMA NothingConnected ==
    ASSUME Links, Disconnect PROVE ~Connected' /\ (\A s \in Sessions : ~Known(s)')
BY DEF Links, Disconnect, Connected, Known, Stale

LEMMA FailKeeps ==
    ASSUME PipeInv, Fail, pc \notin {"idle", "freeing"},
           backlog' = backlog \/ (backlog # <<>> /\ backlog' = Tail(backlog))
    PROVE  PipeInv'
<1>. USE DEF Fail, EndOp, Disconnect
<1>0. op.s \in Sessions
  BY OpHasSession
<1>1. TypeInv /\ SessionTypes /\ StageTypes /\ ControlTypes /\ Links
  BY DEF PipeInv, TypeInv
<1>2. SessionTypes'
  <2>1. ckpt' \in [Sessions -> Seq(Tokens)]
    <3>1. <<>> \in Seq(Tokens)
      OBVIOUS
    <3>2. ckpt' = ckpt \/ ckpt' = [ckpt EXCEPT ![op.s] = <<>>]
      OBVIOUS
    <3>. QED BY <1>1, <3>1, <3>2 DEF SessionTypes
  <2>2. valid' \in [Sessions -> BOOLEAN]
    BY <1>1 DEF SessionTypes
  <2>. QED BY <1>1, <2>1, <2>2 DEF SessionTypes
<1>3. StageTypes'
  <2>1. hostA' \in [Sessions -> Seq(Tokens \cup {Dirty})]
    <3>1. hostA[op.s] \in Seq(Tokens \cup {Dirty}) /\ <<>> \in Seq(Tokens \cup {Dirty})
      BY <1>0, <1>1 DEF StageTypes
    <3>2. Append(hostA[op.s], Dirty) \in Seq(Tokens \cup {Dirty})
      BY <3>1, Dirtied
    <3>3. PICK h : h \in {<<>>, hostA[op.s], Append(hostA[op.s], Dirty)}
                   /\ hostA' = [hostA EXCEPT ![op.s] = h]
      OBVIOUS
    <3>4. h \in Seq(Tokens \cup {Dirty})
      BY <3>1, <3>2, <3>3
    <3>. QED BY <1>1, <3>3, <3>4 DEF StageTypes
  <2>2. specA' \in [Sessions -> Nat \cup {None}]
    BY <1>1 DEF StageTypes
  <2>3. UNCHANGED <<mtpHist, wsess>>
    BY DEF workerVars
  <2>. QED BY <1>1, <2>1, <2>2, <2>3 DEF StageTypes
<1>4. ControlTypes'
  <2>1. NoOp \in OpType
    <3>1. <<>> \in Seq(Tokens) /\ <<>> \in Seq(Spans)
      OBVIOUS
    <3>. QED BY <3>1 DEF NoOp, OpType
  <2>2. NoBody \in BodyType
    <3>1. <<>> \in Seq(Tokens) /\ <<>> \in Seq(Chunks) /\ <<>> \in Seq(Seq(Tokens)) /\ 0 \in Nat
      OBVIOUS
    <3>. QED BY <3>1 DEF NoBody, BodyType
  <2>3. <<>> \in Seq(Asked) /\ <<>> \in Seq(Answered)
    OBVIOUS
  <2>4. toWorker' = <<>> /\ toCoord' = <<>> /\ mtp' = mtp /\ pc' = "idle" /\ op' = NoOp
        /\ body' = NoBody
    OBVIOUS
  <2>. QED BY <1>1, <2>1, <2>2, <2>3, <2>4 DEF ControlTypes, Pcs
<1>5. Links'
  <2>1. fd' = 0 /\ up' = up \ {fd} /\ UNCHANGED <<generation, conns, wpc, wfd, wsess>>
    BY DEF workerVars
  <2>2. /\ backlog' \in Seq(Nat \ {0}) /\ Len(backlog') <= Len(backlog)
        /\ Len(backlog') \in Nat /\ Len(backlog) \in Nat
        /\ NothingWaits(backlog')
    <3>1. NothingWaits(backlog) /\ backlog \in Seq(Nat \ {0})
      BY <1>1 DEF Links, NothingWaits
    <3>2. Len(backlog) \in Nat
      BY <3>1, LenProperties
    <3>3. CASE backlog' = backlog
      BY <3>1, <3>2, <3>3
    <3>4. CASE backlog # <<>> /\ backlog' = Tail(backlog)
      <4>. DEFINE q == Tail(backlog)
      <4>1. q \in Seq(Nat \ {0}) /\ Len(q) = Len(backlog) - 1 /\ Len(backlog) \in Nat \ {0}
            /\ NothingWaits(q)
        <5>1. Links /\ backlog # <<>>
          BY <1>1, <3>4
        <5>. QED BY ONLY <5>1, TailWaits
      <4>2. backlog' = q
        BY <3>4
      <4>. HIDE DEF q
      <4>. DEFINE m == Len(backlog)
                  n == Len(q)
      <4>3. n = m - 1 /\ m \in Nat \ {0}
        BY <4>1
      <4>4. Len(backlog') = n
        BY <4>2
      <4>. HIDE DEF m, n
      <4>5. n <= m /\ n \in Nat /\ m \in Nat
        BY ONLY <4>3
      <4>6. NothingWaits(backlog') /\ backlog' \in Seq(Nat \ {0})
        BY ONLY <4>1, <4>2
      <4>7. Len(backlog') <= m /\ Len(backlog') \in Nat
        BY ONLY <4>4, <4>5
      <4>. QED BY ONLY <4>5, <4>6, <4>7 DEF m
    <3>. QED BY <3>3, <3>4
  <2>3. \A i \in DOMAIN backlog' : backlog'[i] # 0
    <3>1. \A T : \A q \in Seq(T) : \A i \in DOMAIN q : q[i] \in T
      BY ElementOfSeq, LenProperties
    <3>. QED BY <2>2, <3>1
  <2>. QED BY <1>1, <2>1, <2>2, <2>3 DEF Links, NothingWaits
<1>6. ~Connected' /\ \A s \in Sessions : ~Known(s)'
  BY <1>1, NothingConnected
<1>7. Resting'
  <2>1. ASSUME NEW s \in Sessions PROVE Sampled(s)'
    <3>1. CASE s = op.s
      BY <1>0, <1>1, <3>1 DEF Sampled, SessionTypes
    <3>2. CASE s # op.s
      <4>1. Sampled(s)
        BY <3>2 DEF PipeInv, Resting, Rests
      <4>2. valid'[s] = valid[s] /\ ckpt'[s] = ckpt[s] /\ logits' = logits
        BY <1>0, <1>1, <3>2 DEF SessionTypes
      <4>. QED BY <4>1, <4>2 DEF Sampled
    <3>. QED BY <3>1, <3>2
  <2>. QED BY <1>6, <2>1 DEF Resting, Rests
<1>8. \A s \in Sessions : specA'[s] = None
  <2>. TAKE s \in Sessions
  <2>1. specA[s] # None => s = op.s /\ op.kind = "spec"
    BY OnlySpeculations
  <2>. QED BY <1>0, <1>1, <2>1 DEF StageTypes
<1>9. (Speculates /\ OpOK /\ AtSpan /\ SpanInv /\ WireInv)'
  <2>1. pc' = "idle" /\ op' = NoOp /\ body' = NoBody /\ toWorker' = <<>> /\ toCoord' = <<>>
    OBVIOUS
  <2>. HIDE DEF Fail, EndOp, Disconnect
  <2>. QED BY <1>8, <2>1, IdleNext
<1>. QED BY <1>2, <1>3, <1>4, <1>5, <1>7, <1>9 DEF PipeInv, TypeInv

LEMMA EmptyTypes ==
    /\ NoOp \in OpType /\ NoBody \in BodyType
    /\ <<>> \in Seq(Asked) /\ <<>> \in Seq(Answered) /\ <<>> \in Seq(Tokens)
    /\ <<>> \in Seq(Tokens \cup {Dirty}) /\ <<>> \in Seq(Spans) /\ <<>> \in Seq(Chunks)
    /\ <<>> \in Seq(Seq(Tokens))
<1>1. /\ <<>> \in Seq(Asked) /\ <<>> \in Seq(Answered) /\ <<>> \in Seq(Tokens)
      /\ <<>> \in Seq(Tokens \cup {Dirty}) /\ <<>> \in Seq(Spans) /\ <<>> \in Seq(Chunks)
      /\ <<>> \in Seq(Seq(Tokens))
  OBVIOUS
<1>2. NoOp \in OpType
  BY <1>1 DEF NoOp, OpType
<1>3. NoBody \in BodyType
  BY <1>1 DEF NoBody, BodyType
<1>. QED BY <1>1, <1>2, <1>3

\* The only request of the moment has been answered.
LEMMA OneFrame ==
    ASSUME TypeInv, FramesOK, pc \in {"created", "freeing", "ack"}, toCoord # <<>>
    PROVE  toWorker = <<>> /\ Tail(toCoord) = <<>> /\ Head(toCoord) \in {Answers[1], ErrorFrame}
<1>1. Len(Sent) = 1
  BY DEF Sent
<1>2. toWorker \in Seq(Asked) /\ toCoord \in Seq(Answered)
  BY DEF TypeInv, ControlTypes
<1>3. Len(toWorker) \in Nat /\ Len(toCoord) \in Nat \ {0}
  BY <1>2, LenProperties, EmptySeq
<1>4. Len(toWorker) = 0 /\ Len(toCoord) = 1
  BY <1>1, <1>3 DEF FramesOK, Matches
<1>5. toWorker = <<>>
  BY <1>2, <1>4, EmptySeq
<1>6. Tail(toCoord) \in Seq(Answered) /\ Len(Tail(toCoord)) = Len(toCoord) - 1
      /\ Head(toCoord) = toCoord[1]
  BY <1>2, TailIsPart
<1>7. Tail(toCoord) = <<>>
  <2>. DEFINE q == Tail(toCoord)
  <2>1. q \in Seq(Answered) /\ Len(q) = 0
    BY <1>4, <1>6
  <2>. HIDE DEF q
  <2>2. q = <<>>
    BY <2>1, EmptySeq
  <2>. QED BY <2>2 DEF q
<1>8. toCoord[1] \in {Answers[1], ErrorFrame}
  BY <1>4 DEF FramesOK, Matches
<1>. QED BY <1>5, <1>6, <1>7, <1>8

LEMMA NoSpeculation ==
    ASSUME PipeInv, pc \notin {"body", "commit"} PROVE \A s \in Sessions : specA[s] = None
BY DEF PipeInv, Speculates

LEMMA NoBodyNow ==
    ASSUME PipeInv, pc \notin {"body", "exchange", "commit", "ack"} PROVE body = NoBody
BY DEF PipeInv, OpOK

LEMMA InvalidateKeeps ==
    ASSUME PipeInv, NEW s \in Sessions, Invalidate(s) PROVE PipeInv'
<1>. USE DEF Invalidate
<1>1. TypeInv /\ SessionTypes /\ StageTypes /\ ControlTypes /\ Links
  BY DEF PipeInv, TypeInv
<1>2. SessionTypes' /\ StageTypes'
  <2>1. SessionTypes'
    BY <1>1, EmptyTypes DEF SessionTypes, engineVars
  <2>2. hostA' \in [Sessions -> Seq(Tokens \cup {Dirty})]
    BY <1>1, EmptyTypes DEF StageTypes
  <2>3. specA' \in [Sessions -> Nat \cup {None}] /\ UNCHANGED <<mtpHist, wsess>>
    BY <1>1 DEF StageTypes, workerVars
  <2>. QED BY <1>1, <2>1, <2>2, <2>3 DEF StageTypes
<1>3. ControlTypes' /\ Links'
  BY <1>1 DEF ControlTypes, Links, engineVars, opVars, linkVars, workerVars
<1>4. Resting'
  <2>1. ASSUME NEW t \in Sessions PROVE Rests(t)'
    <3>1. Rests(t)
      BY DEF PipeInv, Resting
    <3>2. Known(t)' = Known(t) /\ Connected' = Connected /\ wsess' = wsess
          /\ UNCHANGED <<logits, mtpHist, mtp>>
      BY DEF Known, Stale, Connected, engineVars, linkVars, workerVars
    <3>3. CASE t = s
      <4>1. ~valid'[t]
        BY <1>1, <3>3 DEF SessionTypes
      <4>. QED BY <3>1, <3>2, <4>1 DEF Rests, Sampled
    <3>4. CASE t # s
      <4>1. valid'[t] = valid[t] /\ ckpt'[t] = ckpt[t] /\ hostA'[t] = hostA[t]
        BY <1>1, <3>4 DEF SessionTypes, StageTypes
      <4>. QED BY <3>1, <3>2, <4>1 DEF Rests, Sampled
    <3>. QED BY <3>3, <3>4
  <2>. QED BY <2>1 DEF Resting
<1>5. (Speculates /\ OpOK /\ AtSpan /\ SpanInv /\ WireInv)'
  <2>1. \A t \in Sessions : specA'[t] = None
    BY <1>1, NoSpeculation DEF StageTypes
  <2>2. toWorker = <<>> /\ toCoord = <<>>
    BY <1>1, QueuesEmpty DEF PipeInv, WireInv
  <2>3. op = NoOp /\ body = NoBody
    BY NoBodyNow DEF PipeInv, OpOK
  <2>. QED BY <2>1, <2>2, <2>3, IdleNext DEF opVars, linkVars
<1>. QED BY <1>2, <1>3, <1>4, <1>5 DEF PipeInv, TypeInv

LEMMA FreedKeeps == ASSUME PipeInv, Freed PROVE PipeInv'
<1>. USE DEF Freed, EndOp
<1>0. op.s \in Sessions
  BY OpHasSession
<1>1. TypeInv /\ SessionTypes /\ StageTypes /\ ControlTypes /\ Links
  BY DEF PipeInv, TypeInv
<1>2. SessionTypes' /\ StageTypes'
  BY <1>1 DEF SessionTypes, StageTypes, sessVars, stageVars, workerVars
<1>3. \/ /\ toCoord # <<>> /\ toCoord' = Tail(toCoord) /\ UNCHANGED <<fd, up, toWorker>>
      \/ Disconnect
  OBVIOUS
<1>4. toWorker' = <<>> /\ toCoord' = <<>>
  <2>1. toCoord # <<>> => toWorker = <<>> /\ Tail(toCoord) = <<>>
    BY <1>1, OneFrame DEF PipeInv, WireInv
  <2>. QED BY <1>3, <2>1 DEF Disconnect
<1>5. ControlTypes'
  BY <1>1, <1>4, EmptyTypes DEF ControlTypes, Pcs
<1>6. Links'
  <2>1. fd' \in {0, fd} /\ up' \subseteq up
        /\ UNCHANGED <<generation, conns, wpc, wfd, wsess, backlog>>
    BY <1>3 DEF workerVars, Disconnect
  <2>2. \A i \in DOMAIN backlog : backlog[i] # 0
    <3>1. \A T : \A q \in Seq(T) : \A i \in DOMAIN q : q[i] \in T
      BY ElementOfSeq, LenProperties
    <3>. QED BY <1>1, <3>1 DEF Links
  <2>. QED BY <1>1, <2>1, <2>2 DEF Links
<1>7. Resting'
  <2>1. ASSUME NEW s \in Sessions PROVE Rests(s)'
    <3>1. Sampled(s)'
      BY DEF PipeInv, OpOK, Resting, Rests, Sampled, sessVars
    <3>2. CASE Disconnect
      <4>1. ~Connected' /\ ~Known(s)'
        BY <1>1, <3>2, NothingConnected
      <4>. QED BY <3>1, <4>1 DEF Rests
    <3>3. CASE toCoord # <<>> /\ toCoord' = Tail(toCoord) /\ UNCHANGED <<fd, up, toWorker>>
      <4>1. Known(s)' = Known(s) /\ Connected' = Connected
            /\ UNCHANGED <<valid, ckpt, hostA, mtp, mtpHist, wsess>>
        BY <3>3 DEF Known, Stale, Connected, sessVars, stageVars, workerVars
      <4>2. CASE s # op.s
        <5>1. Rests(s)
          BY <4>2 DEF PipeInv, Resting
        <5>. QED BY ONLY <3>1, <4>1, <5>1 DEF Rests
      <4>3. CASE s = op.s
        <5>1. ~Known(s)
          BY <4>3 DEF PipeInv, OpOK, Known
        <5>2. toWorker = <<>>
          BY <1>1, <3>3, OneFrame DEF PipeInv, WireInv
        <5>3. Connected => wsess[s] = Absent
          BY <4>3, <5>2 DEF PipeInv, WireInv, WorkerFollows
        <5>. QED BY <3>1, <4>1, <5>1, <5>3 DEF Rests
      <4>. QED BY <4>2, <4>3
    <3>. QED BY <1>3, <3>2, <3>3
  <2>. QED BY <2>1 DEF Resting
<1>8. \A s \in Sessions : specA'[s] = None
  BY NoSpeculation DEF stageVars
<1>9. (Speculates /\ OpOK /\ AtSpan /\ SpanInv /\ WireInv)'
  BY <1>4, <1>8, IdleNext
<1>. QED BY <1>2, <1>5, <1>6, <1>7, <1>9 DEF PipeInv, TypeInv

\* An operation starts.
LEMMA StartKeeps ==
    ASSUME PipeInv, NEW s \in Sessions, NEW kind \in {"sync", "eval", "spec"},
           NEW input \in Seq(Tokens), NEW spans \in Seq(Spans), StartOp(s, kind, input, spans),
           ckpt' \in [Sessions -> Seq(Tokens)], valid' \in [Sessions -> BOOLEAN],
           hostA' \in [Sessions -> Seq(Tokens \cup {Dirty})],
           \A t \in Sessions \ {s} :
               ckpt'[t] = ckpt[t] /\ valid'[t] = valid[t] /\ hostA'[t] = hostA[t],
           specA' \in [Sessions -> Nat \cup {None}], \A t \in Sessions : specA'[t] = None,
           SpansOK', Len(Aim') \in 1 .. MaxLen,
           kind = "eval" => Len(input) = 1,
           kind = "spec" => mtp /\ ckpt'[s] # <<>> /\ spans # <<>>,
           Stale(s) => spans # <<>> /\ StartPos' = 0,
           ~Stale(s) => (HostAt(StartPos) /\ HeadAt(StartPos) /\ LogitsAt(StartPos))',
           ~Stale(s) /\ Connected => WorkerAt(StartPos, None)'
    PROVE  PipeInv'
<1>1. TypeInv /\ SessionTypes /\ StageTypes /\ ControlTypes /\ Links
  BY DEF PipeInv, TypeInv
<1>2. /\ pc = "idle" /\ open[s] /\ op' = [s |-> s, kind |-> kind, input |-> input, spans |-> spans]
      /\ pc' = IF fd = 0 THEN "route" ELSE IF gen[s] # generation THEN "create" ELSE "span"
      /\ UNCHANGED <<body, mtp, fd, generation, open, gen, logits, mtpHist, up, backlog, conns,
                     toWorker, toCoord, wpc, wfd, wsess>>
  BY DEF StartOp, engineVars, linkVars, workerVars
<1>3. pc' \in {"route", "create", "span"} /\ (pc' = "span" <=> ~Stale(s))
      /\ (pc' = "route" <=> fd = 0) /\ (pc' = "create" => gen[s] # generation)
  BY <1>2 DEF Stale
<1>4. op'.s = s /\ op'.kind = kind /\ op'.input = input /\ op'.spans = spans
  BY <1>2
<1>5. body = NoBody /\ toWorker = <<>> /\ toCoord = <<>>
  BY <1>1, <1>2, NoBodyNow, QueuesEmpty DEF PipeInv, WireInv
<1>6. SessionTypes' /\ StageTypes'
  BY <1>1, <1>2 DEF SessionTypes, StageTypes
<1>7. ControlTypes'
  <2>1. op' \in OpType
    BY <1>2 DEF OpType
  <2>. QED BY <1>1, <1>2, <1>3, <2>1 DEF ControlTypes, Pcs
<1>8. Links'
  BY <1>1, <1>2 DEF Links
<1>9. Resting'
  <2>1. ASSUME NEW t \in Sessions \ {s} PROVE Rests(t)'
    <3>1. Rests(t)
      BY <1>2 DEF PipeInv, Resting
    <3>2. Known(t)' = Known(t) /\ Connected' = Connected
          /\ UNCHANGED <<mtp, mtpHist, wsess, logits>>
      BY <1>2 DEF Known, Stale, Connected
    <3>. QED BY <3>1, <3>2 DEF Rests, Sampled
  <2>. QED BY <1>3, <1>4, <2>1 DEF Resting
<1>10. Speculates'
  BY DEF Speculates
<1>11. OpOK'
  <2>1. fd = 0 => Stale(s)
    BY DEF Stale
  <2>2. mtp' = mtp /\ open'[s] /\ body' = NoBody /\ gen' = gen /\ generation' = generation
        /\ fd' = fd
    BY <1>2, <1>5
  <2>3. pc' # "idle" /\ pc' \notin {"freeing", "created", "body", "exchange", "commit", "ack"}
    BY <1>3
  <2>4. pc' = "span" => gen'[s] = generation'
    BY <1>2, <1>3 DEF Stale
  <2>. QED BY <1>3, <1>4, <2>1, <2>2, <2>3, <2>4 DEF OpOK
<1>12. AtSpan'
  BY <1>3 DEF AtSpan
<1>13. SpanInv'
  BY <1>3 DEF SpanInv, BodySpan, Verifying, BlockSpan, Committing
<1>14. WireInv'
  <2>1. FramesOK'
    BY <1>2, <1>3, <1>5, SentNothingNext
  <2>2. WorkerFollows'
    <3>1. SUFFICES ASSUME Connected', pc' = "create" PROVE wsess'[s] = Absent
      <4>1. Connected' = Connected
        BY <1>2 DEF Connected
      <4>. QED BY <1>3, <1>4, <3>1, <4>1 DEF WorkerFollows
    <3>2. Rests(s) /\ Connected /\ Stale(s)
      BY <1>2, <1>3, <3>1 DEF PipeInv, Resting, Connected
    <3>. QED BY <1>2, <3>2 DEF Rests, Known
  <2>. QED BY <2>1, <2>2 DEF WireInv
<1>. QED BY <1>6, <1>7, <1>8, <1>9, <1>10, <1>11, <1>12, <1>13, <1>14 DEF PipeInv, TypeInv

LEMMA SyncStartKeeps ==
    ASSUME PipeInv, NEW s \in Sessions, NEW prompt \in Seq(Tokens), SyncStart(s, prompt)
    PROVE  PipeInv'
<1>1. TypeInv /\ SessionTypes /\ StageTypes /\ ControlTypes /\ Links
  BY DEF PipeInv, TypeInv
<1>. DEFINE keeps == valid[s] /\ Extends(prompt, ckpt[s])
            start == IF Stale(s) \/ ~keeps THEN 0 ELSE Len(ckpt[s])
            spans == IF start < Len(prompt) THEN <<Span(From(prompt, start), start, FALSE)>>
                                            ELSE <<>>
<1>2. /\ prompt # <<>> /\ Len(prompt) < MaxLen /\ StartOp(s, "sync", prompt, spans)
      /\ IF keeps THEN UNCHANGED <<ckpt, valid, hostA, specA>>
         ELSE /\ ckpt' = [ckpt EXCEPT ![s] = <<>>]
              /\ valid' = [valid EXCEPT ![s] = FALSE]
              /\ hostA' = [hostA EXCEPT ![s] = <<>>]
              /\ specA' = [specA EXCEPT ![s] = None]
  BY DEF SyncStart
<1>3. pc = "idle" /\ open[s] /\ op' = [s |-> s, kind |-> "sync", input |-> prompt, spans |-> spans]
      /\ UNCHANGED <<mtp, logits, mtpHist, wsess, up, fd>>
  BY <1>2 DEF StartOp, linkVars, workerVars, engineVars
<1>4. Len(prompt) \in Nat \ {0} /\ MaxLen \in Nat /\ ckpt[s] \in Seq(Tokens)
      /\ Len(ckpt[s]) \in Nat
  BY <1>1, <1>2, LenProperties, EmptySeq, CapsAssumption DEF SessionTypes
<1>5. start \in Nat /\ start <= Len(prompt)
  BY <1>4 DEF Extends
<1>6. Aim' = prompt
  BY <1>3 DEF Aim
<1>7. start > 0 => keeps /\ ~Stale(s) /\ ckpt[s] = Upto(prompt, start)
  BY <1>4 DEF Extends
<1>8. Rests(s)
  BY <1>3 DEF PipeInv, Resting
<1>9. \A t \in Sessions : specA'[t] = None
  BY <1>1, <1>2, <1>3, NoSpeculation DEF StageTypes
<1>10. /\ ckpt' \in [Sessions -> Seq(Tokens)] /\ valid' \in [Sessions -> BOOLEAN]
       /\ hostA' \in [Sessions -> Seq(Tokens \cup {Dirty})]
       /\ specA' \in [Sessions -> Nat \cup {None}]
       /\ \A t \in Sessions \ {s} :
              ckpt'[t] = ckpt[t] /\ valid'[t] = valid[t] /\ hostA'[t] = hostA[t]
       /\ keeps => hostA' = hostA
  <2>1. CASE keeps
    BY <1>1, <1>2, <2>1 DEF SessionTypes, StageTypes
  <2>2. CASE ~keeps
    <3>1. ckpt' \in [Sessions -> Seq(Tokens)] /\ valid' \in [Sessions -> BOOLEAN]
      BY <1>1, <1>2, <2>2, EmptyTypes DEF SessionTypes
    <3>2. hostA' \in [Sessions -> Seq(Tokens \cup {Dirty})]
      BY <1>1, <1>2, <2>2, EmptyTypes DEF StageTypes
    <3>3. specA' \in [Sessions -> Nat \cup {None}]
      BY <1>1, <1>2, <2>2 DEF StageTypes
    <3>. QED BY <1>1, <1>2, <2>2, <3>1, <3>2, <3>3 DEF SessionTypes, StageTypes
  <2>. QED BY <2>1, <2>2
<1>. HIDE DEF start
<1>11. From(prompt, start) = Seg(prompt, start, Len(prompt))
       /\ From(prompt, start) \in Seq(Tokens) /\ Len(From(prompt, start)) = Len(prompt) - start
  <2>1. Len(prompt) <= Len(prompt) /\ Len(prompt) \in Nat
    BY <1>4
  <2>2. Seg(prompt, start, Len(prompt)) \in Seq(Tokens)
        /\ Len(Seg(prompt, start, Len(prompt))) = Len(prompt) - start
    BY <1>5, <2>1, SegFacts
  <2>. QED BY <2>2 DEF From, Seg
<1>12. spans \in Seq(Spans) /\ StartPos' = start /\ SpansOK' /\ (start = 0 => spans # <<>>)
  <2>1. CASE start < Len(prompt)
    <3>. DEFINE sp == Span(From(prompt, start), start, FALSE)
    <3>1. sp \in Spans /\ sp.toks = From(prompt, start) /\ sp.pos = start /\ ~sp.verify
      BY <1>5, <1>11 DEF Span, Spans
    <3>2. spans = <<sp>>
      BY <2>1
    <3>. HIDE DEF sp, spans
    <3>3. spans \in Seq(Spans) /\ spans # <<>> /\ Len(spans) = 1 /\ spans[1] = sp /\ Head(spans) = sp
          /\ DOMAIN spans = {1}
      BY <3>1, <3>2
    <3>4. op'.spans = spans /\ op'.kind = "sync"
      BY <1>3
    <3>5. sp.toks # <<>>
      <4>1. Len(sp.toks) > 0
        BY <1>4, <1>5, <1>11, <2>1, <3>1
      <4>. QED BY <4>1
    <3>6. sp.pos + Len(sp.toks) = Len(prompt)
      BY <1>4, <1>5, <1>11, <3>1
    <3>7. SpanOK(1)'
      BY <1>4, <1>6, <1>11, <3>1, <3>3, <3>4, <3>5, <3>6 DEF SpanOK
    <3>. QED BY <3>1, <3>3, <3>4, <3>7 DEF SpansOK, StartPos
  <2>2. CASE ~(start < Len(prompt))
    <3>1. start = Len(prompt) /\ spans = <<>> /\ op'.spans = <<>>
      BY <1>3, <1>4, <1>5, <2>2
    <3>2. spans \in Seq(Spans) /\ DOMAIN op'.spans = {}
      <4>1. <<>> \in Seq(Spans) /\ DOMAIN <<>> = {}
        BY EmptyTypes
      <4>2. spans = <<>> /\ op'.spans = <<>>
        BY <3>1
      <4>. HIDE DEF spans
      <4>. QED BY ONLY <4>1, <4>2
    <3>. QED BY <1>4, <1>6, <3>1, <3>2 DEF StartPos, SpansOK
  <2>. QED BY <2>1, <2>2
<1>13. Stale(s) => start = 0
  BY DEF start
<1>14. op'.s = s
  BY <1>3
<1>15. ~Stale(s) => (HostAt(StartPos) /\ HeadAt(StartPos) /\ LogitsAt(StartPos))'
  <2>1. CASE start = 0
    BY <1>12, <2>1 DEF HostAt, HeadAt, LogitsAt
  <2>2. CASE start > 0
    <3>1. Known(s) /\ valid[s]
      BY <1>3, <1>7, <2>2 DEF Known
    <3>2. hostA[s] = ckpt[s] /\ logits[s] = ckpt[s] /\ (mtp => mtpHist[s] = ckpt[s])
      BY <1>8, <3>1 DEF Rests, Sampled
    <3>3. hostA' = hostA /\ logits' = logits /\ mtpHist' = mtpHist /\ mtp' = mtp
      BY <1>3, <1>7, <1>10, <2>2
    <3>. QED BY <1>6, <1>7, <1>12, <1>14, <2>2, <3>2, <3>3 DEF HostAt, HeadAt, LogitsAt
  <2>. QED BY <1>5, <2>1, <2>2
<1>16. ~Stale(s) /\ Connected => WorkerAt(StartPos, None)'
  <2>. SUFFICES ASSUME ~Stale(s), Connected PROVE WorkerAt(StartPos, None)'
    OBVIOUS
  <2>1. wsess[s] # Absent
    BY <1>3, <1>8 DEF Rests, Known
  <2>2. start > 0 => wsess[s] = [hist |-> Upto(prompt, start), spec |-> None]
    BY <1>3, <1>7, <1>8 DEF Rests, Known
  <2>3. wsess' = wsess
    BY <1>3
  <2>. QED BY <1>5, <1>6, <1>12, <1>14, <2>1, <2>2, <2>3 DEF WorkerAt
<1>17. Len(Aim') \in 1 .. MaxLen
  BY <1>2, <1>4, <1>6
<1>. HIDE DEF spans
<1>. QED BY <1>2, <1>9, <1>10, <1>12, <1>13, <1>15, <1>16, <1>17, StartKeeps

LEMMA Pair == \A a, b : <<a>> \o <<b>> = <<a, b>>
<1>. SUFFICES ASSUME NEW a, NEW b PROVE <<a>> \o <<b>> = <<a, b>>
  OBVIOUS
<1>1. <<a>> \in Seq({a, b}) /\ <<b>> \in Seq({a, b}) /\ <<a, b>> \in Seq({a, b})
      /\ Len(<<a>>) = 1 /\ Len(<<b>>) = 1 /\ Len(<<a, b>>) = 2
      /\ <<a>>[1] = a /\ <<b>>[1] = b /\ <<a, b>>[1] = a /\ <<a, b>>[2] = b
  OBVIOUS
<1>. DEFINE S == <<a>>
            R == <<b>>
            Q == <<a, b>>
<1>2. S \in Seq({a, b}) /\ R \in Seq({a, b}) /\ Q \in Seq({a, b}) /\ Len(S) = 1 /\ Len(R) = 1
      /\ Len(Q) = 2 /\ S[1] = a /\ R[1] = b /\ Q[1] = a /\ Q[2] = b
  BY <1>1
<1>. HIDE DEF S, R, Q
<1>3. /\ S \o R \in Seq({a, b}) /\ Len(S \o R) = 2
      /\ \A i \in 1 .. 2 : (S \o R)[i] = IF i <= 1 THEN S[i] ELSE R[i - 1]
  BY <1>2, ConcatProperties
<1>4. \A i \in 1 .. 2 : (S \o R)[i] = Q[i]
  BY <1>2, <1>3
<1>5. S \o R = Q
  BY <1>2, <1>3, <1>4, SeqEqual
<1>. QED BY <1>5 DEF S, R, Q

\* A decoding step, or a speculation, starts behind the checkpoint.
LEMMA DecodeStartKeeps ==
    ASSUME PipeInv, NEW s \in Sessions, NEW kind \in {"eval", "spec"}, NEW toks \in Seq(Tokens),
           valid[s], toks # <<>>, Len(ckpt[s]) + Len(toks) <= MaxLen,
           kind = "eval" => Len(toks) = 1, kind = "spec" => mtp,
           StartOp(s, kind, toks, Replay(s) \o <<Span(toks, Len(ckpt[s]), kind = "spec")>>),
           UNCHANGED <<ckpt, valid, hostA, specA>>
    PROVE  PipeInv'
<1>1. TypeInv /\ SessionTypes /\ StageTypes /\ ControlTypes /\ Links
  BY DEF PipeInv, TypeInv
<1>. DEFINE C == ckpt[s]
            sp == Span(toks, Len(C), kind = "spec")
            first == Span(C, 0, FALSE)
            spans == Replay(s) \o <<sp>>
            A == Cat(C, toks)
<1>2. pc = "idle" /\ open[s] /\ op' = [s |-> s, kind |-> kind, input |-> toks, spans |-> spans]
      /\ UNCHANGED <<mtp, logits, mtpHist, wsess, up, fd>>
  BY DEF StartOp, linkVars, workerVars, engineVars
<1>3. Rests(s) /\ C # <<>> /\ logits[s] = C
  BY <1>2 DEF PipeInv, Resting, Rests, Sampled
<1>4. C \in Seq(Tokens) /\ Len(C) \in Nat \ {0} /\ Len(toks) \in Nat \ {0} /\ MaxLen \in Nat
  BY <1>1, <1>3, LenProperties, EmptySeq, CapsAssumption DEF SessionTypes
<1>5. op'.s = s /\ op'.kind = kind /\ op'.input = toks /\ op'.spans = spans
  BY <1>2
<1>6. sp \in Spans /\ sp.toks = toks /\ sp.pos = Len(C) /\ (sp.verify <=> kind = "spec")
      /\ first \in Spans /\ first.toks = C /\ first.pos = 0 /\ ~first.verify
  <2>1. sp \in Spans /\ first \in Spans
    BY <1>4 DEF Span, Spans
  <2>. QED BY <2>1 DEF Span
<1>7. Aim' = A
  BY <1>5 DEF Aim, Cat
<1>8. A \in Seq(Tokens) /\ Len(A) = Len(C) + Len(toks) /\ Upto(A, Len(C)) = C
      /\ Seg(A, Len(C), Len(C) + Len(toks)) = toks
  <2>. HIDE DEF C
  <2>. QED BY <1>4, UptoConcat
<1>9. Seg(A, 0, Len(C)) = C
  BY <1>8 DEF Upto, Seg
<1>. HIDE DEF sp, first, A
<1>10. /\ ckpt' \in [Sessions -> Seq(Tokens)] /\ valid' \in [Sessions -> BOOLEAN]
       /\ hostA' \in [Sessions -> Seq(Tokens \cup {Dirty})]
       /\ specA' \in [Sessions -> Nat \cup {None}]
  BY <1>1 DEF SessionTypes, StageTypes
<1>11. \A t \in Sessions \ {s} :
          ckpt'[t] = ckpt[t] /\ valid'[t] = valid[t] /\ hostA'[t] = hostA[t]
  OBVIOUS
<1>12. /\ s \in Sessions /\ kind \in {"sync", "eval", "spec"} /\ toks \in Seq(Tokens)
       /\ kind = "eval" => Len(toks) = 1
  OBVIOUS
<1>13. CASE Stale(s)
  <2>1. spans = <<first, sp>>
    <3>1. Replay(s) = <<first>>
      BY <1>3, <1>13 DEF Replay, first
    <3>. QED BY <3>1, Pair
  <2>. HIDE DEF spans, C
  <2>2. spans \in Seq(Spans) /\ Len(spans) = 2 /\ spans[1] = first /\ spans[2] = sp
        /\ Head(spans) = first /\ DOMAIN spans = {1, 2} /\ spans # <<>>
    BY <1>6, <2>1
  <2>3. StartPos' = 0
    BY <1>5, <1>6, <2>2 DEF StartPos
  <2>4. ckpt'[s] = C
    BY DEF C
  <2>5. SpanOK(1)'
    BY <1>3, <1>4, <1>5, <1>6, <1>7, <1>8, <1>9, <2>2, <2>4 DEF SpanOK
  <2>6. SpanOK(2)'
    BY <1>3, <1>4, <1>5, <1>6, <1>7, <1>8, <1>9, <2>2, <2>4 DEF SpanOK
  <2>7. SpansOK'
    BY <1>5, <2>2, <2>5, <2>6 DEF SpansOK
  <2>8. Len(Aim') \in 1 .. MaxLen
    BY <1>4, <1>7, <1>8 DEF C
  <2>9. \A t \in Sessions : specA'[t] = None
    BY <1>2, NoSpeculation
  <2>10. kind = "spec" => mtp /\ ckpt'[s] # <<>> /\ spans # <<>>
    BY <1>3, <2>2, <2>4
  <2>11. StartOp(s, kind, toks, spans)
    BY DEF spans, sp, C
  <2>. QED BY ONLY PipeInv, <1>13, <2>2, <2>3, <2>7, <2>8, <2>9, <2>10, <2>11, <1>10, <1>11, <1>12, StartKeeps
<1>14. CASE ~Stale(s)
  <2>1. spans = <<sp>>
    <3>1. Replay(s) = <<>>
      BY <1>14 DEF Replay
    <3>. QED BY <3>1
  <2>. HIDE DEF spans
  <2>2. spans \in Seq(Spans) /\ Len(spans) = 1 /\ spans[1] = sp
        /\ Head(spans) = sp /\ DOMAIN spans = {1} /\ spans # <<>>
    BY <1>6, <2>1
  <2>3. StartPos' = Len(C)
    BY <1>5, <1>6, <2>2 DEF StartPos
  <2>4. ckpt'[s] = C
    OBVIOUS
  <2>5. Known(s) /\ hostA[s] = C /\ (mtp => mtpHist[s] = C)
    BY <1>2, <1>3, <1>14 DEF Rests, Known
  <2>6. (HostAt(StartPos) /\ HeadAt(StartPos) /\ LogitsAt(StartPos))'
    <3>1. hostA' = hostA /\ logits' = logits /\ mtpHist' = mtpHist /\ mtp' = mtp
      BY <1>2
    <3>. QED BY <1>3, <1>5, <1>7, <1>8, <2>3, <2>5, <3>1 DEF HostAt, HeadAt, LogitsAt
  <2>7. Connected => WorkerAt(StartPos, None)'
    <3>. SUFFICES ASSUME Connected PROVE WorkerAt(StartPos, None)'
      OBVIOUS
    <3>1. wsess[s] # Absent /\ wsess[s] = [hist |-> C, spec |-> None]
      BY <1>3, <2>5 DEF Rests
    <3>. QED BY <1>2, <1>5, <1>7, <1>8, <2>3, <3>1 DEF WorkerAt
  <2>. HIDE DEF C
  <2>8. SpanOK(1)'
    BY <1>3, <1>4, <1>5, <1>6, <1>7, <1>8, <1>9, <2>2, <2>4 DEF SpanOK
  <2>9. SpansOK'
    BY <1>5, <2>2, <2>8 DEF SpansOK
  <2>10. Len(Aim') \in 1 .. MaxLen
    BY <1>4, <1>7, <1>8 DEF C
  <2>11. \A t \in Sessions : specA'[t] = None
    BY <1>2, NoSpeculation
  <2>12. kind = "spec" => mtp /\ ckpt'[s] # <<>> /\ spans # <<>>
    BY <1>3, <2>2, <2>4
  <2>13. StartOp(s, kind, toks, spans)
    BY DEF spans, sp, C
  <2>. QED BY ONLY PipeInv, <1>14, <2>2, <2>6, <2>7, <2>9, <2>10, <2>11, <2>12, <2>13, <1>10, <1>11, <1>12, StartKeeps
<1>. QED BY <1>13, <1>14

LEMMA FreeKeeps ==
    ASSUME PipeInv, NEW s \in Sessions, FreeSession(s) PROVE PipeInv'
<1>1. TypeInv /\ SessionTypes /\ StageTypes /\ ControlTypes /\ Links
  BY DEF PipeInv, TypeInv
<1>2. /\ pc = "idle" /\ open[s] /\ open' = [open EXCEPT ![s] = FALSE]
      /\ UNCHANGED <<mtp, generation, gen, ckpt, valid, logits, hostA, specA, mtpHist, body,
                     backlog, conns, wpc, wfd, wsess>>
  BY DEF FreeSession, stageVars, workerVars
<1>3. \/ /\ ~Stale(s) /\ fd \in up
         /\ toWorker' = Append(toWorker, Free(s)) /\ pc' = "freeing"
         /\ op' = [NoOp EXCEPT !.s = s, !.kind = "free"]
         /\ UNCHANGED <<fd, up, toCoord>>
      \/ /\ ~(~Stale(s) /\ fd \in up)
         /\ UNCHANGED <<pc, op>>
         /\ \/ Stale(s) /\ UNCHANGED <<fd, up, toWorker, toCoord>>
            \/ ~Stale(s) /\ Disconnect
  BY DEF FreeSession
<1>4. body = NoBody /\ op = NoOp /\ toWorker = <<>> /\ toCoord = <<>>
  <2>1. toWorker = <<>> /\ toCoord = <<>>
    BY <1>1, <1>2, QueuesEmpty DEF PipeInv, WireInv
  <2>2. body = NoBody
    BY <1>2, NoBodyNow
  <2>3. op = NoOp
    BY <1>2 DEF PipeInv, OpOK
  <2>. QED BY <2>1, <2>2, <2>3
<1>5. Rests(s)
  BY <1>2 DEF PipeInv, Resting
<1>6. SessionTypes' /\ StageTypes'
  BY <1>1, <1>2 DEF SessionTypes, StageTypes
<1>7. \A t \in Sessions : specA'[t] = None
  BY <1>2, NoSpeculation
<1>8. CASE ~Stale(s) /\ fd \in up
  <2>1. /\ toWorker' = <<Free(s)>> /\ pc' = "freeing" /\ UNCHANGED <<fd, up, toCoord>>
        /\ op' = [NoOp EXCEPT !.s = s, !.kind = "free"]
    BY <1>3, <1>4, <1>8
  <2>2. op' \in OpType /\ op'.s = s /\ op'.kind = "free"
    BY <2>1, EmptyTypes DEF NoOp, OpType
  <2>3. ControlTypes'
    <3>1. Free(s) \in Asked
      BY DEF Asked
    <3>. QED BY <1>1, <1>2, <2>1, <2>2, <3>1 DEF ControlTypes, Pcs
  <2>4. Links'
    BY <1>1, <1>2, <2>1 DEF Links
  <2>5. Resting'
    <3>1. ASSUME NEW t \in Sessions \ {s} PROVE Rests(t)'
      <4>1. Rests(t)
        BY <1>2 DEF PipeInv, Resting
      <4>2. Known(t)' = Known(t) /\ Connected' = Connected
            /\ UNCHANGED <<mtp, mtpHist, wsess, logits, ckpt, valid, hostA>>
        BY <1>1, <1>2, <2>1 DEF Known, Stale, Connected, SessionTypes
      <4>. QED BY <4>1, <4>2 DEF Rests, Sampled
    <3>. QED BY <2>1, <2>2, <3>1 DEF Resting
  <2>6. OpOK'
    <3>1. fd' # 0
      BY <1>8, <2>1 DEF Stale
    <3>2. Sampled(s)' /\ ~open'[s]
      BY <1>1, <1>2, <1>5 DEF Rests, Sampled, SessionTypes
    <3>3. body' = NoBody
      BY <1>2, <1>4
    <3>. QED BY <2>1, <2>2, <3>1, <3>2, <3>3 DEF OpOK
  <2>7. Speculates' /\ AtSpan'
    BY <1>7, <2>1 DEF Speculates, AtSpan
  <2>8. SpanInv'
    BY <2>1 DEF SpanInv, BodySpan, Verifying, BlockSpan, Committing
  <2>9. WireInv'
    <3>1. Sent' = <<Free(s)>> /\ toWorker' = <<Free(s)>> /\ toCoord' = <<>>
      BY <1>4, <2>1, <2>2 DEF Sent
    <3>2. FramesOK'
      BY <3>1 DEF FramesOK, Matches
    <3>3. toWorker' # <<>>
      BY <3>1
    <3>4. WorkerFollows'
      BY <2>1, <3>3 DEF WorkerFollows
    <3>. QED BY <3>2, <3>4 DEF WireInv
  <2>. QED BY <1>6, <2>3, <2>4, <2>5, <2>6, <2>7, <2>8, <2>9 DEF PipeInv, TypeInv
<1>9. CASE ~(~Stale(s) /\ fd \in up)
  <2>1. /\ UNCHANGED <<pc, op>>
        /\ \/ Stale(s) /\ UNCHANGED <<fd, up, toWorker, toCoord>>
           \/ ~Stale(s) /\ Disconnect
    BY <1>3, <1>9
  <2>2. toWorker' = <<>> /\ toCoord' = <<>>
    BY <1>4, <2>1 DEF Disconnect
  <2>3. ControlTypes'
    BY <1>1, <1>2, <2>1, <2>2, EmptyTypes DEF ControlTypes
  <2>4. Links'
    <3>1. fd' \in {0, fd} /\ up' \subseteq up
      BY <2>1 DEF Disconnect
    <3>2. \A i \in DOMAIN backlog : backlog[i] # 0
      <4>1. \A T : \A q \in Seq(T) : \A i \in DOMAIN q : q[i] \in T
        BY ElementOfSeq, LenProperties
      <4>. QED BY <1>1, <4>1 DEF Links
    <3>. QED BY <1>1, <1>2, <3>1, <3>2 DEF Links
  <2>5. Resting'
    <3>1. ASSUME NEW t \in Sessions PROVE Rests(t)'
      <4>1. Rests(t) /\ Sampled(t)'
        BY <1>2 DEF PipeInv, Resting, Rests, Sampled
      <4>2. CASE Disconnect
        <5>1. ~Connected' /\ ~Known(t)'
          BY <1>1, <4>2, NothingConnected
        <5>. QED BY <4>1, <5>1 DEF Rests
      <4>3. CASE Stale(s) /\ UNCHANGED <<fd, up, toWorker, toCoord>>
        <5>1. Connected' = Connected /\ UNCHANGED <<mtp, mtpHist, wsess, logits, ckpt, valid, hostA>>
          BY <1>2, <4>3 DEF Connected
        <5>2. Known(t)' = Known(t)
          BY <1>1, <1>2, <4>3 DEF Known, Stale, SessionTypes
        <5>. QED BY ONLY <4>1, <5>1, <5>2 DEF Rests
      <4>. QED BY <2>1, <4>2, <4>3
    <3>. QED BY <3>1 DEF Resting
  <2>6. (Speculates /\ OpOK /\ AtSpan /\ SpanInv /\ WireInv)'
    <3>1. pc' = "idle" /\ op' = NoOp /\ body' = NoBody
      BY <1>2, <1>4, <2>1
    <3>. QED BY <1>7, <2>2, <3>1, IdleNext
  <2>. QED BY <1>6, <2>3, <2>4, <2>5, <2>6 DEF PipeInv, TypeInv
<1>. QED BY <1>8, <1>9

LEMMA StartsKeep == ASSUME PipeInv, Start PROVE PipeInv'
<1>1. PICK r \in Requests :
        \/ r.kind = "sync" /\ SyncStart(r.s, r.input)
        \/ r.kind = "eval" /\ EvalStart(r.s, r.input)
        \/ r.kind = "spec" /\ SpecStart(r.s, r.input)
        \/ r.kind = "invalidate" /\ Invalidate(r.s)
        \/ r.kind = "free" /\ FreeSession(r.s)
  BY DEF Start
<1>. DEFINE s == r.s
            input == r.input
<1>2. s \in Sessions /\ input \in Seq(Tokens) /\ (r.kind = "eval" => Len(input) = 1)
  BY RequestsAssumption
<1>3. Len(input) \in Nat /\ ckpt[s] \in Seq(Tokens) /\ Len(ckpt[s]) \in Nat /\ MaxLen \in Nat
  BY <1>2, LenProperties, CapsAssumption DEF PipeInv, TypeInv, SessionTypes
<1>. HIDE DEF s, input
<1>4. CASE SyncStart(s, input)
  BY <1>2, <1>4, SyncStartKeeps
<1>5. CASE r.kind = "eval" /\ EvalStart(s, input)
  <2>1. Len(input) = 1
    BY <1>2, <1>5
  <2>2. input # <<>>
    BY <2>1
  <2>3. valid[s] /\ Len(ckpt[s]) + Len(input) <= MaxLen /\ UNCHANGED <<ckpt, valid, hostA, specA>>
    BY <1>3, <1>5, <2>1 DEF EvalStart
  <2>4. StartOp(s, "eval", input, Replay(s) \o <<Span(input, Len(ckpt[s]), "eval" = "spec")>>)
    BY <1>5 DEF EvalStart
  <2>. QED BY <1>2, <2>1, <2>2, <2>3, <2>4, DecodeStartKeeps
<1>6. CASE SpecStart(s, input)
  <2>1. /\ valid[s] /\ Len(ckpt[s]) + Len(input) <= MaxLen /\ UNCHANGED <<ckpt, valid, hostA, specA>>
        /\ mtp /\ Len(input) > 1
    BY <1>3, <1>6 DEF SpecStart
  <2>2. input # <<>>
    BY <2>1
  <2>3. StartOp(s, "spec", input, Replay(s) \o <<Span(input, Len(ckpt[s]), "spec" = "spec")>>)
    BY <1>6 DEF SpecStart
  <2>. QED BY <1>2, <2>1, <2>2, <2>3, DecodeStartKeeps
<1>7. CASE Invalidate(s)
  BY <1>2, <1>7, InvalidateKeeps
<1>8. CASE FreeSession(s)
  BY <1>2, <1>8, FreeKeeps
<1>. QED BY <1>1, <1>4, <1>5, <1>6, <1>7, <1>8 DEF s, input

-----------------------------------------------------------------------------
(* The route, and the end of an operation. *)

LEMMA AcceptKeeps == ASSUME PipeInv, AcceptWorker PROVE PipeInv'
<1>. USE DEF AcceptWorker
<1>1. TypeInv /\ SessionTypes /\ StageTypes /\ ControlTypes /\ Links
  BY DEF PipeInv, TypeInv
<1>2. CASE Head(backlog) \notin up
  <2>1. Fail /\ backlog # <<>> /\ backlog' = Tail(backlog) /\ pc \notin {"idle", "freeing"}
    BY <1>2
  <2>. QED BY <2>1, FailKeeps
<1>3. CASE Head(backlog) \in up
  <2>1. /\ pc = "route" /\ backlog # <<>> /\ backlog' = Tail(backlog) /\ fd' = Head(backlog)
        /\ generation' = generation + 1 /\ pc' = "create"
        /\ UNCHANGED <<mtp, op, body, open, gen, ckpt, valid, logits, hostA, specA, mtpHist, up,
                       conns, toWorker, toCoord, wpc, wfd, wsess>>
    BY <1>3 DEF sessVars, stageVars, workerVars
  <2>2. /\ Tail(backlog) \in Seq(Nat \ {0}) /\ Len(Tail(backlog)) = Len(backlog) - 1
        /\ Len(backlog) \in Nat \ {0} /\ NothingWaits(Tail(backlog))
        /\ Head(backlog) \in Nat \ {0} /\ Head(backlog) <= conns
        /\ wpc \in {"loop", "reply"} => Head(backlog) # wfd
        /\ \A i \in DOMAIN Tail(backlog) : Tail(backlog)[i] # Head(backlog)
    BY <1>1, <2>1, TailWaits
  <2>3. Head(backlog) = wfd /\ wpc \in {"away", "hello"}
    BY <1>1, <1>3, <2>2 DEF Links
  <2>4. Links'
    <3>. DEFINE q == Tail(backlog)
    <3>1. /\ q \in Seq(Nat \ {0}) /\ Len(q) = Len(backlog) - 1 /\ backlog' = q
          /\ Len(backlog) \in Nat \ {0} /\ NothingWaits(q) /\ fd' \in Nat /\ fd' <= conns
          /\ \A i \in DOMAIN q : q[i] # fd'
      BY <2>1, <2>2
    <3>. HIDE DEF q, AcceptWorker
    <3>2. NothingWaits(backlog)'
      BY ONLY <2>1, <3>1 DEF NothingWaits
    <3>3. generation + Len(backlog) <= conns /\ generation \in Nat
      BY <1>1 DEF Links
    <3>4. generation' \in Nat /\ generation' + Len(backlog') <= conns'
      BY ONLY <2>1, <3>1, <3>3
    <3>5. backlog' \in Seq(Nat \ {0}) /\ fd' \in Nat /\ fd' <= conns'
      BY ONLY <2>1, <3>1
    <3>. QED BY ONLY <1>1, <2>1, <3>2, <3>4, <3>5 DEF Links, NothingWaits
  <2>5. SessionTypes' /\ StageTypes' /\ ControlTypes'
    <3>1. SessionTypes'
      BY <1>1, <2>1 DEF SessionTypes, Links
    <3>2. StageTypes'
      BY <1>1, <2>1 DEF StageTypes
    <3>3. ControlTypes'
      BY <1>1, <2>1 DEF ControlTypes, Pcs
    <3>. QED BY <3>1, <3>2, <3>3
  <2>6. \A s \in Sessions : gen[s] # generation' /\ ~Known(s)' /\ wsess'[s] = Absent
    BY <1>1, <2>1, <2>3 DEF SessionTypes, Links, Known, Stale
  <2>7. Resting'
    <3>1. ASSUME NEW s \in Sessions, s # op.s PROVE Rests(s)'
      <4>1. Sampled(s)
        BY <2>1, <3>1 DEF PipeInv, Resting, Rests
      <4>. QED BY <2>1, <2>6, <4>1 DEF Rests, Sampled
    <3>. QED BY <2>1, <3>1 DEF Resting
  <2>8. Speculates'
    BY <2>1, NoSpeculation DEF Speculates
  <2>9. OpOK'
    <3>1. Aim' = Aim /\ StartPos' = StartPos /\ SpansOK' = SpansOK
      BY <2>1 DEF Aim, StartPos, SpansOK, SpanOK
    <3>2. op.s \in Sessions
      BY <2>1, OpHasSession
    <3>3. fd' # 0
      BY <2>1, <2>2
    <3>. QED BY <2>1, <2>6, <3>1, <3>2, <3>3 DEF PipeInv, OpOK
  <2>10. AtSpan' /\ SpanInv'
    BY <2>1 DEF AtSpan, SpanInv, BodySpan, Verifying, BlockSpan, Committing
  <2>11. WireInv'
    <3>1. toWorker = <<>> /\ toCoord = <<>>
      BY <1>1, <2>1, QueuesEmpty DEF PipeInv, WireInv
    <3>2. FramesOK'
      BY <2>1, <3>1, SentNothingNext
    <3>3. op'.s \in Sessions
      BY <2>1, OpHasSession
    <3>4. WorkerFollows'
      BY <2>1, <2>6, <3>3 DEF WorkerFollows
    <3>. QED BY <3>2, <3>4 DEF WireInv
  <2>. QED BY <2>4, <2>5, <2>7, <2>8, <2>9, <2>10, <2>11 DEF PipeInv, TypeInv
<1>. QED BY <1>2, <1>3

LEMMA CreateKeeps == ASSUME PipeInv, SendCreate PROVE PipeInv'
<1>1. TypeInv /\ SessionTypes /\ StageTypes /\ ControlTypes /\ Links
  BY DEF PipeInv, TypeInv
<1>2. /\ pc = "create" /\ toWorker' = Append(toWorker, Create(op.s)) /\ pc' = "created"
      /\ UNCHANGED <<op, body, mtp, fd, generation, open, gen, ckpt, valid, logits, hostA, specA,
                     mtpHist, up, backlog, conns, toCoord, wpc, wfd, wsess>>
  BY DEF SendCreate, engineVars, sessVars, stageVars, workerVars
<1>3. toWorker = <<>> /\ toCoord = <<>>
  BY <1>1, <1>2, QueuesEmpty DEF PipeInv, WireInv
<1>4. toWorker' = <<Create(op.s)>> /\ toCoord' = <<>>
  BY <1>2, <1>3
<1>5. op.s \in Sessions
  BY <1>2, OpHasSession
<1>6. SessionTypes' /\ StageTypes' /\ Links'
  BY <1>1, <1>2 DEF SessionTypes, StageTypes, Links
<1>7. ControlTypes'
  <2>1. Create(op.s) \in Asked
    BY <1>5 DEF Asked
  <2>2. toWorker' \in Seq(Asked)
    BY <1>4, <2>1
  <2>. QED BY <1>1, <1>2, <2>2 DEF ControlTypes, Pcs
<1>8. Resting'
  <2>1. ASSUME NEW s \in Sessions, s # op.s PROVE Rests(s)'
    <3>1. Rests(s)
      BY <1>2, <2>1 DEF PipeInv, Resting
    <3>. QED BY <1>2, <3>1 DEF Rests, Sampled, Known, Stale, Connected
  <2>. QED BY <1>2, <2>1 DEF Resting
<1>9. Speculates' /\ AtSpan' /\ SpanInv'
  BY <1>2, NoSpeculation
     DEF Speculates, AtSpan, SpanInv, BodySpan, Verifying, BlockSpan, Committing
<1>10. OpOK'
  <2>1. Aim' = Aim /\ StartPos' = StartPos /\ SpansOK' = SpansOK
    BY <1>2 DEF Aim, StartPos, SpansOK, SpanOK
  <2>. QED BY <1>2, <2>1 DEF PipeInv, OpOK
<1>11. WireInv'
  <2>1. Sent' = <<Create(op.s)>> /\ toWorker' # <<>>
    BY <1>2, <1>4 DEF Sent
  <2>2. FramesOK'
    BY <1>4, <2>1 DEF FramesOK, Matches
  <2>3. Connected' => wsess'[op.s] = Absent
    BY <1>2 DEF PipeInv, WireInv, WorkerFollows, Connected
  <2>4. WorkerFollows'
    BY <1>2, <2>1, <2>3 DEF WorkerFollows
  <2>. QED BY <2>2, <2>4 DEF WireInv
<1>. QED BY <1>6, <1>7, <1>8, <1>9, <1>10, <1>11 DEF PipeInv, TypeInv

LEMMA CreatedKeeps == ASSUME PipeInv, SessionCreated PROVE PipeInv'
<1>1. TypeInv /\ SessionTypes /\ StageTypes /\ ControlTypes /\ Links
  BY DEF PipeInv, TypeInv
<1>2. CASE ~ReplyIs(Head(toCoord), op.s, 0, 0)
  <2>1. Fail /\ backlog' = backlog /\ pc \notin {"idle", "freeing"}
    BY <1>2 DEF SessionCreated, FailOp
  <2>. QED BY <2>1, FailKeeps
<1>3. CASE ReplyIs(Head(toCoord), op.s, 0, 0)
  <2>1. /\ pc = "created" /\ toCoord # <<>> /\ gen' = [gen EXCEPT ![op.s] = generation]
        /\ toCoord' = Tail(toCoord) /\ pc' = "span"
        /\ UNCHANGED <<op, body, mtp, fd, generation, open, ckpt, valid, logits, hostA, specA,
                       mtpHist, up, backlog, conns, toWorker, wpc, wfd, wsess>>
    BY <1>3 DEF SessionCreated, engineVars, stageVars, workerVars
  <2>2. toWorker = <<>> /\ toWorker' = <<>> /\ toCoord' = <<>>
    BY <1>1, <2>1, OneFrame DEF PipeInv, WireInv
  <2>3. op.s \in Sessions
    BY <2>1, OpHasSession
  <2>4. SessionTypes'
    <3>1. generation \in Nat
      BY <1>1 DEF Links
    <3>2. gen' \in [Sessions -> Nat] /\ (\A s \in Sessions : gen'[s] <= generation')
      <4>1. gen \in [Sessions -> Nat] /\ (\A s \in Sessions : gen[s] <= generation)
        BY <1>1 DEF SessionTypes
      <4>2. gen' = [gen EXCEPT ![op.s] = generation] /\ generation' = generation
        BY <2>1
      <4>3. gen' \in [Sessions -> Nat]
        BY ONLY <3>1, <4>1, <4>2
      <4>4. ASSUME NEW s \in Sessions PROVE gen'[s] <= generation
        <5>1. gen'[s] = IF s = op.s THEN generation ELSE gen[s]
          BY ONLY <4>1, <4>2
        <5>2. gen[s] <= generation /\ generation <= generation
          BY ONLY <3>1, <4>1
        <5>. QED BY ONLY <5>1, <5>2
      <4>. QED BY <4>2, <4>3, <4>4
    <3>. QED BY <1>1, <2>1, <3>2 DEF SessionTypes
  <2>5. StageTypes' /\ Links'
    BY <1>1, <2>1 DEF StageTypes, Links
  <2>6. ControlTypes'
    BY <1>1, <2>1, <2>2, EmptyTypes DEF ControlTypes, Pcs
  <2>7. Resting'
    <3>1. ASSUME NEW s \in Sessions, s # op.s PROVE Rests(s)'
      <4>1. Rests(s) /\ gen'[s] = gen[s]
        BY <1>1, <2>1, <3>1 DEF PipeInv, Resting, SessionTypes
      <4>. QED BY <2>1, <4>1 DEF Rests, Sampled, Known, Stale, Connected
    <3>. QED BY <2>1, <3>1 DEF Resting
  <2>8. Speculates' /\ SpanInv'
    BY <2>1, NoSpeculation DEF Speculates, SpanInv, BodySpan, Verifying, BlockSpan, Committing
  <2>9. Aim' = Aim /\ StartPos' = StartPos /\ SpansOK' = SpansOK
    BY <2>1 DEF Aim, StartPos, SpansOK, SpanOK
  <2>10. StartPos = 0
    BY <2>1 DEF PipeInv, OpOK
  <2>11. OpOK'
    <3>1. gen'[op.s] = generation
      BY <1>1, <2>1, <2>3 DEF SessionTypes
    <3>. QED BY <2>1, <2>9, <3>1 DEF PipeInv, OpOK
  <2>12. AtSpan'
    BY <2>9, <2>10 DEF AtSpan, HostAt, HeadAt, LogitsAt
  <2>13. WireInv'
    <3>1. FramesOK'
      BY <2>1, <2>2, SentNothingNext
    <3>2. Connected' => wsess'[op.s] # Absent
      BY <2>1, <2>2 DEF PipeInv, WireInv, WorkerFollows, Connected
    <3>3. WorkerFollows'
      BY <2>1, <2>9, <2>10, <3>2 DEF WorkerFollows, WorkerAt
    <3>. QED BY <3>1, <3>3 DEF WireInv
  <2>. QED BY <2>4, <2>5, <2>6, <2>7, <2>8, <2>11, <2>12, <2>13 DEF PipeInv, TypeInv
<1>. QED BY <1>2, <1>3

\* The tokens of an operation join the checkpoint.
LEMMA PublishKeeps ==
    ASSUME PipeInv, NEW n, Publish(n), pc \in {"span", "ack"}, NEW P \in Seq(Tokens), P # <<>>,
           P = IF op.kind = "sync" THEN op.input ELSE ckpt[op.s] \o Upto(op.input, n),
           UNCHANGED <<engineVars, open, gen, logits, stageVars, up, backlog, conns, workerVars>>,
           toWorker' = <<>>, toCoord' = <<>>,
           hostA[op.s] = P, logits[op.s] = P, mtp => mtpHist[op.s] = P,
           Connected => wsess[op.s] = [hist |-> P, spec |-> None]
    PROVE  PipeInv'
<1>1. TypeInv /\ SessionTypes /\ StageTypes /\ ControlTypes /\ Links
  BY DEF PipeInv, TypeInv
<1>2. op.s \in Sessions /\ open[op.s] /\ fd # 0 /\ gen[op.s] = generation
  BY OpHasSession DEF PipeInv, OpOK
<1>3. /\ ckpt' = [ckpt EXCEPT ![op.s] = P] /\ valid' = [valid EXCEPT ![op.s] = TRUE]
      /\ pc' = "idle" /\ op' = NoOp /\ body' = NoBody
      /\ UNCHANGED <<mtp, fd, generation, open, gen, logits, hostA, specA, mtpHist, up, backlog,
                     conns, wpc, wfd, wsess>>
  <2>1. ckpt' = [ckpt EXCEPT ![op.s] = P]
    BY <1>1 DEF Publish, SessionTypes
  <2>. QED BY <2>1 DEF Publish, EndOp, engineVars, stageVars, workerVars
<1>4. SessionTypes'
  BY <1>1, <1>3 DEF SessionTypes
<1>5. StageTypes' /\ Links'
  BY <1>1, <1>3 DEF StageTypes, Links
<1>6. ControlTypes'
  BY <1>1, <1>3, EmptyTypes DEF ControlTypes, Pcs
<1>7. Resting'
  <2>1. ASSUME NEW s \in Sessions PROVE Rests(s)'
    <3>1. CASE s # op.s
      <4>1. Rests(s) /\ ckpt'[s] = ckpt[s] /\ valid'[s] = valid[s]
        BY <1>1, <1>3, <3>1 DEF PipeInv, Resting, SessionTypes
      <4>. QED BY <1>3, <4>1 DEF Rests, Sampled, Known, Stale, Connected
    <3>2. CASE s = op.s
      <4>1. ckpt'[s] = P
        BY <1>1, <1>2, <1>3, <3>2 DEF SessionTypes
      <4>2. Sampled(s)'
        BY <1>3, <3>2, <4>1 DEF Sampled
      <4>3. hostA'[s] = P /\ (mtp' => mtpHist'[s] = P)
        BY <1>3, <3>2
      <4>4. Known(s)'
        BY <1>2, <1>3, <3>2 DEF Known, Stale
      <4>5. Connected' => wsess'[s] = [hist |-> P, spec |-> None]
        BY <1>3, <3>2 DEF Connected
      <4>6. [hist |-> P, spec |-> None] # Absent
        <5>1. [hist |-> P, spec |-> None] \in Stages
          BY DEF Stages
        <5>. QED BY <5>1, StagesAreThere
      <4>. QED BY <4>1, <4>2, <4>3, <4>4, <4>5, <4>6 DEF Rests
    <3>. QED BY <3>1, <3>2
  <2>. QED BY <2>1 DEF Resting
<1>8. (Speculates /\ OpOK /\ AtSpan /\ SpanInv /\ WireInv)'
  <2>1. \A s \in Sessions : specA'[s] = None
    BY <1>3, NoSpeculation
  <2>. QED BY <1>3, <2>1, IdleNext
<1>. QED BY <1>4, <1>5, <1>6, <1>7, <1>8 DEF PipeInv, TypeInv

LEMMA DoneKeeps == ASSUME PipeInv, OpDone PROVE PipeInv'
<1>1. TypeInv /\ SessionTypes /\ StageTypes /\ ControlTypes /\ Links
  BY DEF PipeInv, TypeInv
<1>2. /\ pc = "span" /\ op.spans = <<>> /\ Publish(1)
      /\ UNCHANGED <<engineVars, open, gen, logits, stageVars, up, backlog, conns, toWorker,
                     toCoord, workerVars>>
  BY DEF OpDone, linkVars
<1>3. op.s \in Sessions
  BY <1>2, OpHasSession
<1>4. /\ Aim \in Seq(Tokens) /\ Len(Aim) \in Nat /\ op.input \in Seq(Tokens)
      /\ op.kind = "sync" => Aim = op.input
  BY <1>1, <1>3, AimFacts
<1>5. op.kind \in {"sync", "eval"} /\ (op.kind = "eval" => Len(op.input) = 1)
      /\ Len(Aim) \in 1 .. MaxLen
  BY <1>2 DEF PipeInv, OpOK
<1>6. Aim = IF op.kind = "sync" THEN op.input ELSE ckpt[op.s] \o Upto(op.input, 1)
  <2>1. Upto(op.input, Len(op.input)) = op.input
    BY <1>4, UptoEnds
  <2>. QED BY <1>5, <2>1 DEF Aim
<1>7. Upto(Aim, Len(Aim)) = Aim /\ Aim # <<>> /\ StartPos = Len(Aim) /\ Len(Aim) # 0
  <2>1. Upto(Aim, Len(Aim)) = Aim
    BY <1>4, UptoEnds
  <2>2. Len(Aim) # 0
    BY <1>5
  <2>3. Aim # <<>>
    BY <2>2
  <2>. QED BY <1>2, <2>1, <2>2, <2>3 DEF StartPos
<1>8. hostA[op.s] = Aim /\ logits[op.s] = Aim /\ (mtp => mtpHist[op.s] = Aim)
  BY <1>2, <1>7 DEF PipeInv, AtSpan, HostAt, HeadAt, LogitsAt
<1>9. Connected => wsess[op.s] = [hist |-> Aim, spec |-> None]
  BY <1>2, <1>7 DEF PipeInv, WireInv, WorkerFollows, WorkerAt
<1>10. toWorker' = <<>> /\ toCoord' = <<>>
  BY <1>1, <1>2, QueuesEmpty DEF PipeInv, WireInv
<1>. QED BY <1>2, <1>4, <1>6, <1>7, <1>8, <1>9, <1>10, PublishKeeps

-----------------------------------------------------------------------------
(* During an operation. *)

LEMMA OthersRest ==
    ASSUME PipeInv, pc # "idle", pc' # "idle", op'.s = op.s,
           UNCHANGED <<mtp, fd, generation, open, gen, ckpt, valid>>,
           Connected' => Connected,
           \A s \in Sessions \ {op.s} :
               /\ logits'[s] = logits[s] /\ hostA'[s] = hostA[s] /\ mtpHist'[s] = mtpHist[s]
               /\ Connected' => wsess'[s] = wsess[s]
    PROVE  Resting'
<1>1. ASSUME NEW s \in Sessions, s # op.s PROVE Rests(s)'
  <2>1. Rests(s)
    BY <1>1 DEF PipeInv, Resting
  <2>2. /\ logits'[s] = logits[s] /\ hostA'[s] = hostA[s] /\ mtpHist'[s] = mtpHist[s]
        /\ Connected' => wsess'[s] = wsess[s]
    BY <1>1
  <2>3. Known(s)' = Known(s)
    BY DEF Known, Stale
  <2>. QED BY <2>1, <2>2, <2>3 DEF Rests, Sampled
<1>. QED BY <1>1 DEF Resting

\* What the span is about.
LEMMA BodyTypes ==
    ASSUME TypeInv
    PROVE  /\ body.toks \in Seq(Tokens) /\ body.pos \in Nat /\ body.i \in Nat /\ body.count \in Nat
           /\ body.final \in BOOLEAN /\ body.verify \in BOOLEAN /\ body.pending \in Seq(Chunks)
           /\ body.lo \in Nat /\ body.buf \in Seq(Tokens) /\ body.stopped \in BOOLEAN
           /\ body.rows \in Seq(Seq(Tokens)) /\ body.next \in Seq(Tokens) /\ body.rc \in {0, 1}
           /\ body.exchange \in {"no", "run", "ok", "failed"}
           /\ body.io \in {"none", "send", "join", "both"}
           /\ Len(body.toks) \in Nat /\ Len(body.buf) \in Nat /\ Len(body.pending) \in Nat
           /\ Len(body.next) \in Nat /\ Len(body.rows) \in Nat
           /\ \A k \in 1 .. Len(body.pending) :
                 /\ body.pending[k] \in Chunks /\ body.pending[k].end \in Nat
                 /\ body.pending[k].n \in Nat /\ body.pending[k].index \in Nat
<1>1. /\ body.toks \in Seq(Tokens) /\ body.pos \in Nat /\ body.i \in Nat /\ body.count \in Nat
      /\ body.final \in BOOLEAN /\ body.verify \in BOOLEAN /\ body.pending \in Seq(Chunks)
      /\ body.lo \in Nat /\ body.buf \in Seq(Tokens) /\ body.stopped \in BOOLEAN
      /\ body.rows \in Seq(Seq(Tokens)) /\ body.next \in Seq(Tokens) /\ body.rc \in {0, 1}
      /\ body.exchange \in {"no", "run", "ok", "failed"}
      /\ body.io \in {"none", "send", "join", "both"}
  BY DEF TypeInv, ControlTypes, BodyType
<1>2. /\ Len(body.toks) \in Nat /\ Len(body.buf) \in Nat /\ Len(body.pending) \in Nat
      /\ Len(body.next) \in Nat /\ Len(body.rows) \in Nat
  BY <1>1, LenProperties
<1>3. ASSUME NEW k \in 1 .. Len(body.pending)
      PROVE  /\ body.pending[k] \in Chunks /\ body.pending[k].end \in Nat
             /\ body.pending[k].n \in Nat /\ body.pending[k].index \in Nat
  <2>1. body.pending[k] \in Chunks
    BY <1>1, ElementOfSeq
  <2>. QED BY <2>1 DEF Chunks
<1>. QED BY <1>1, <1>2, <1>3

LEMMA MoreTokens == \A h \in Seq(Tokens) : h \in Seq(Tokens \cup {Dirty})
OBVIOUS

\* The length of the commit, and what is known of it.
LEMMA CommitFacts ==
    ASSUME PipeInv, pc \in {"commit", "ack"}
    PROVE  /\ CommitLen \in 1 .. body.count /\ body.count <= Len(body.toks)
           /\ body.i = body.count /\ Got = body.count /\ body.rows = RowsTo(Got)
           /\ logits[op.s] = Upto(Aim, body.pos + CommitLen)
           /\ \A k \in 1 .. CommitLen - 1 : Follows(k)
           /\ CommitLen < Len(body.toks) => ~Follows(CommitLen)
<1>1. Bounds /\ Judged /\ body.pending = <<>> /\ body.i = body.count /\ body.count > 0
      /\ body.count <= Len(body.toks)
  BY DEF PipeInv, SpanInv, Committing, Verifying, Bounds
<1>2. Got = body.count
  BY <1>1 DEF Got, Cursor
<1>3. body.count \in Nat /\ Len(body.toks) \in Nat /\ body.stopped \in BOOLEAN
  BY BodyTypes DEF PipeInv
<1>4. PICK n \in 1 .. body.count :
        /\ \A k \in 1 .. n - 1 : Follows(k)
        /\ n = body.count \/ ~Follows(n)
        /\ n < Len(body.toks) => ~Follows(n)
        /\ logits[op.s] = Upto(Aim, body.pos + n)
  <2>1. CASE ~body.stopped
    <3>1. body.count = Len(body.toks) /\ body.count \in 1 .. body.count
      BY <1>1, <1>3, <2>1 DEF Bounds
    <3>2. \A k \in 1 .. body.count - 1 : Follows(k)
      <4>. TAKE k \in 1 .. body.count - 1
      <4>1. k \in 1 .. Got /\ k < Len(body.toks)
        BY <1>2, <1>3, <3>1
      <4>. QED BY <1>1, <2>1, <4>1 DEF Judged
    <3>3. logits[op.s] = Upto(Aim, body.pos + body.count)
      BY <1>1, <1>2, <2>1 DEF Judged
    <3>4. ~(body.count < Len(body.toks))
      BY <1>3, <3>1
    <3>. QED BY <3>1, <3>2, <3>3, <3>4
  <2>2. CASE body.stopped
    BY <1>1, <1>2, <2>2 DEF Judged, Refuted
  <2>. QED BY <1>3, <2>1, <2>2
<1>5. CommitLen = n
  <2>1. ASSUME NEW m \in 1 .. body.count, \A k \in 1 .. m - 1 : Follows(k),
               m = body.count \/ ~Follows(m)
        PROVE  m = n
    <3>1. ~(m < n)
      <4>. SUFFICES ASSUME m < n PROVE FALSE
        OBVIOUS
      <4>1. m \in 1 .. n - 1
        BY <1>3
      <4>2. Follows(m) /\ m # body.count
        BY <1>3, <1>4, <4>1
      <4>. QED BY <2>1, <4>2
    <3>2. ~(n < m)
      <4>. SUFFICES ASSUME n < m PROVE FALSE
        OBVIOUS
      <4>1. n \in 1 .. m - 1
        BY <1>3
      <4>2. Follows(n) /\ n # body.count
        BY <1>3, <2>1, <4>1
      <4>. QED BY <1>4, <4>2
    <3>. QED BY <1>3, <3>1, <3>2
  <2>. QED BY <1>4, <2>1 DEF CommitLen
<1>. QED BY <1>1, <1>2, <1>4, <1>5 DEF Judged

\* What the end of a speculation is about.
LEMMA SpecFacts ==
    ASSUME PipeInv, pc \in {"body", "commit", "ack"}, body.verify
    PROVE  /\ op.kind = "spec" /\ mtp /\ Len(op.spans) = 1 /\ op.spans # <<>>
           /\ Head(op.spans).verify /\ body.pos = Len(ckpt[op.s]) /\ body.pos = Head(op.spans).pos
           /\ body.toks = Head(op.spans).toks /\ body.toks = op.input
           /\ Len(Aim) = body.pos + Len(body.toks)
<1>1. TypeInv /\ OpOK
  BY DEF PipeInv
<1>2. op.spans # <<>> /\ op.s \in Sessions
  BY OpHasSession DEF PipeInv, OpOK
<1>3. Head(op.spans).verify /\ body.toks = Head(op.spans).toks
      /\ (pc # "ack" => body.pos = Head(op.spans).pos)
      /\ (pc = "ack" => body.pos = Len(ckpt[op.s]))
  BY DEF PipeInv, SpanInv, Verifying, Committing
<1>4. LET sp == Head(op.spans)
          end == sp.pos + Len(sp.toks)
      IN  /\ sp = op.spans[1] /\ sp \in Spans /\ Len(op.spans) \in Nat \ {0}
          /\ sp.toks \in Seq(Tokens) /\ sp.pos \in Nat /\ sp.verify \in BOOLEAN
          /\ Len(sp.toks) \in Nat \ {0} /\ StartPos = sp.pos
          /\ end <= Len(Aim) /\ sp.toks = Seg(Aim, sp.pos, end)
          /\ end = IF Len(op.spans) = 1 THEN Len(Aim) ELSE op.spans[2].pos
          /\ sp.verify <=> op.kind = "spec" /\ Len(op.spans) = 1
          /\ sp.verify => sp.pos = Len(ckpt[op.s])
  BY <1>1, <1>2, FirstSpan
<1>5. op.kind = "spec" /\ Len(op.spans) = 1 /\ Head(op.spans).pos = Len(ckpt[op.s])
      /\ Len(Aim) = Head(op.spans).pos + Len(body.toks)
  BY <1>3, <1>4
<1>6. mtp
  BY <1>5 DEF PipeInv, OpOK
<1>7. body.toks = op.input
  <2>1. Seg(Aim, Len(ckpt[op.s]), Len(Aim)) = op.input
    BY <1>1, <1>2, <1>5, AimFacts
  <2>. QED BY <1>3, <1>4, <1>5, <2>1
<1>. QED BY <1>2, <1>3, <1>5, <1>6, <1>7

LEMMA AckKeeps == ASSUME PipeInv, Acknowledged PROVE PipeInv'
<1>1. TypeInv /\ SessionTypes /\ StageTypes /\ ControlTypes /\ Links
  BY DEF PipeInv, TypeInv
<1>2. CASE ~ReplyIs(Head(toCoord), op.s, Len(ckpt[op.s]) + CommitLen, 0)
  <2>1. Fail /\ backlog' = backlog /\ pc \notin {"idle", "freeing"}
    BY <1>2 DEF Acknowledged, FailOp
  <2>. QED BY <2>1, FailKeeps
<1>3. CASE ReplyIs(Head(toCoord), op.s, Len(ckpt[op.s]) + CommitLen, 0)
  <2>1. /\ pc = "ack" /\ toCoord # <<>> /\ Publish(CommitLen) /\ toCoord' = Tail(toCoord)
        /\ UNCHANGED <<engineVars, open, gen, logits, stageVars, up, backlog, conns, toWorker,
                       workerVars>>
    BY <1>3 DEF Acknowledged
  <2>2. toWorker = <<>> /\ toWorker' = <<>> /\ toCoord' = <<>>
    BY <1>1, <2>1, OneFrame DEF PipeInv, WireInv
  <2>3. body.verify /\ op.s \in Sessions
    BY <2>1, OpHasSession DEF PipeInv, SpanInv, Committing
  <2>4. op.kind = "spec" /\ mtp /\ body.pos = Len(ckpt[op.s]) /\ body.toks = op.input
    BY <2>1, <2>3, SpecFacts
  <2>5. /\ CommitLen \in 1 .. body.count /\ body.count <= Len(body.toks)
        /\ logits[op.s] = Upto(Aim, body.pos + CommitLen)
    BY <2>1, CommitFacts
  <2>6. HostAt(body.pos + CommitLen) /\ HeadAt(body.pos + CommitLen)
    BY <2>1 DEF PipeInv, SpanInv, Committing
  <2>7. Connected => WorkerAt(body.pos + CommitLen, None)
    BY <2>1, <2>2 DEF PipeInv, WireInv, WorkerFollows
  <2>8. /\ Aim \in Seq(Tokens) /\ Len(Aim) = Len(ckpt[op.s]) + Len(op.input)
        /\ Len(ckpt[op.s]) \in Nat /\ Len(op.input) \in Nat
        /\ \A n \in 0 .. Len(op.input) :
              Upto(Aim, Len(ckpt[op.s]) + n) = Cat(ckpt[op.s], Upto(op.input, n))
    BY <1>1, <2>3, <2>4, AimFacts
  <2>. DEFINE n == CommitLen
              P == Upto(Aim, body.pos + n)
  <2>9. body.count \in Nat
    BY <1>1, BodyTypes
  <2>10. n \in 0 .. Len(op.input) /\ body.pos + n \in Nat \ {0} /\ body.pos + n <= Len(Aim)
    BY <2>4, <2>5, <2>8, <2>9
  <2>11. P \in Seq(Tokens) /\ P # <<>>
    <3>1. P \in Seq(Tokens) /\ Len(P) = body.pos + n
      <4>. HIDE DEF n
      <4>. QED BY <2>8, <2>10, UptoFacts
    <3>. QED BY <2>10, <3>1
  <2>12. P = IF op.kind = "sync" THEN op.input ELSE ckpt[op.s] \o Upto(op.input, n)
    <3>1. P = Cat(ckpt[op.s], Upto(op.input, n))
      BY <2>4, <2>8, <2>10
    <3>. QED BY <2>4, <3>1 DEF Cat
  <2>13. hostA[op.s] = P /\ logits[op.s] = P /\ (mtp => mtpHist[op.s] = P)
    BY <2>5, <2>6, <2>10 DEF HostAt, HeadAt
  <2>14. Connected => wsess[op.s] = [hist |-> P, spec |-> None]
    BY <2>7, <2>10 DEF WorkerAt
  <2>15. UNCHANGED <<engineVars, open, gen, logits, stageVars, up, backlog, conns, workerVars>>
         /\ Publish(n) /\ pc \in {"span", "ack"}
    BY <2>1
  <2>. HIDE DEF n, P
  <2>. QED BY <2>2, <2>11, <2>12, <2>13, <2>14, <2>15, PublishKeeps
<1>. QED BY <1>2, <1>3

LEMMA CommitKeeps == ASSUME PipeInv, SendCommit PROVE PipeInv'
<1>1. TypeInv /\ SessionTypes /\ StageTypes /\ ControlTypes /\ Links
  BY DEF PipeInv, TypeInv
<1>. DEFINE n == CommitLen
            s == op.s
<1>2. /\ pc = "commit" /\ fd \in up /\ toWorker' = Append(toWorker, Commit(s, n))
      /\ hostA' = [hostA EXCEPT ![s] = Upto(@, specA[s] + n)]
      /\ specA' = [specA EXCEPT ![s] = None]
      /\ mtpHist' = [mtpHist EXCEPT ![s] =
                        Upto(@, Len(ckpt[s])) \o Lasts(Upto(body.rows, n))]
      /\ pc' = "ack"
      /\ UNCHANGED <<op, body, mtp, fd, generation, open, gen, ckpt, valid, logits, up, backlog,
                     conns, toCoord, wpc, wfd, wsess>>
  BY DEF SendCommit, CommitA, Catchup, engineVars, sessVars, workerVars
<1>3. body.verify /\ s \in Sessions /\ Judged /\ Bounds /\ specA[s] = body.pos
      /\ HostAt(body.pos + body.lo + Len(body.buf)) /\ HeadAt(body.pos)
      /\ body.pending = <<>> /\ body.i = body.count /\ body.count > 0
  <2>1. body.verify /\ s \in Sessions /\ body.pending = <<>> /\ body.i = body.count /\ body.count > 0
    BY <1>2, OpHasSession DEF PipeInv, SpanInv, Committing
  <2>. QED BY <1>2, <2>1 DEF PipeInv, SpanInv, Verifying
<1>4. op.kind = "spec" /\ mtp /\ body.pos = Len(ckpt[s]) /\ body.toks = op.input
      /\ Head(op.spans).verify /\ body.toks = Head(op.spans).toks
      /\ Len(Aim) = body.pos + Len(body.toks)
  BY <1>2, <1>3, SpecFacts
<1>5. /\ CommitLen \in 1 .. body.count /\ body.count <= Len(body.toks) /\ Got = body.count
      /\ body.rows = RowsTo(Got)
  BY <1>2, CommitFacts
<1>6. body.pos \in Nat /\ body.lo \in Nat /\ Len(body.buf) \in Nat /\ body.count \in Nat
      /\ Len(body.toks) \in Nat /\ body.i \in Nat /\ Aim \in Seq(Tokens)
  BY <1>1, <1>3, BodyTypes, AimFacts
<1>7. n \in Nat \ {0} /\ body.pos + n \in Nat \ {0} /\ body.pos + n <= Len(Aim) /\ n <= body.count
  BY <1>4, <1>5, <1>6
<1>. HIDE DEF n
<1>8. hostA'[s] = Upto(Aim, body.pos + n)
  <2>. DEFINE q == body.pos + body.lo + Len(body.buf)
  <2>1. q \in Nat /\ body.pos + n <= q /\ q <= Len(Aim) /\ q # 0
    <3>1. /\ n <= body.count /\ body.count <= body.lo + Len(body.buf)
          /\ body.lo + Len(body.buf) <= Len(body.toks) /\ Len(Aim) = body.pos + Len(body.toks)
          /\ n \in Nat \ {0}
      BY <1>3, <1>4, <1>7 DEF Bounds
    <3>2. /\ body.pos \in Nat /\ body.lo \in Nat /\ Len(body.buf) \in Nat
          /\ body.count \in Nat /\ Len(body.toks) \in Nat
      BY <1>6
    <3>. DEFINE P == body.pos
                L == body.lo
                B == Len(body.buf)
                T == Len(body.toks)
                C == body.count
                A == Len(Aim)
    <3>3. /\ n <= C /\ C <= L + B /\ L + B <= T /\ A = P + T /\ n \in Nat \ {0}
          /\ P \in Nat /\ L \in Nat /\ B \in Nat /\ C \in Nat /\ T \in Nat
      BY <3>1, <3>2
    <3>4. P + L + B \in Nat /\ P + n <= P + L + B /\ P + L + B <= A /\ P + L + B # 0
      <4>. HIDE DEF P, L, B, T, C, A
      <4>. QED BY ONLY <3>3
    <3>. QED BY <3>4
  <2>2. hostA[s] = Upto(Aim, q)
    BY <1>3, <2>1 DEF HostAt
  <2>. HIDE DEF q
  <2>3. Upto(Upto(Aim, q), body.pos + n) = Upto(Aim, body.pos + n)
    BY <1>6, <1>7, <2>1, UptoUpto
  <2>. QED BY <1>1, <1>2, <1>3, <2>2, <2>3 DEF StageTypes
<1>9. mtpHist'[s] = Upto(Aim, body.pos + n)
  <2>1. Upto(body.rows, n) = RowsFrom(Aim, body.pos, n)
    <3>1. body.rows = RowsFrom(Aim, body.pos, body.count)
      BY <1>5 DEF RowsTo
    <3>2. body.pos + body.count <= Len(Aim)
      <4>1. /\ Len(Aim) = body.pos + Len(body.toks) /\ body.count <= Len(body.toks)
            /\ body.pos \in Nat /\ body.count \in Nat /\ Len(body.toks) \in Nat
        BY <1>4, <1>5, <1>6
      <4>. QED BY ONLY <4>1
    <3>3. Upto(RowsFrom(Aim, body.pos, body.count), n) = RowsFrom(Aim, body.pos, n)
      BY <1>6, <1>7, <3>2, RowsUpto
    <3>. QED BY <3>1, <3>3
  <2>2. Lasts(RowsFrom(Aim, body.pos, n)) = Seg(Aim, body.pos, body.pos + n)
    BY <1>6, <1>7, LastsOfRows
  <2>3. body.pos = 0 \/ mtpHist[s] = Upto(Aim, body.pos)
    BY <1>3, <1>4 DEF HeadAt
  <2>4. Upto(mtpHist[s], body.pos) \o Seg(Aim, body.pos, body.pos + n) = Upto(Aim, body.pos + n)
    <3>1. body.pos <= body.pos /\ body.pos <= body.pos + n /\ body.pos <= Len(Aim)
      BY <1>6, <1>7
    <3>. DEFINE h == mtpHist[s]
                p == body.pos
                e == body.pos + n
    <3>2. p \in Nat /\ e \in Nat /\ p <= e /\ p <= p /\ p <= Len(Aim) /\ e <= Len(Aim)
          /\ Aim \in Seq(Tokens) /\ (p = 0 \/ h = Upto(Aim, p))
      BY <1>6, <1>7, <2>3, <3>1
    <3>. HIDE DEF h, p, e
    <3>3. Upto(h, p) \o Seg(Aim, p, e) = Upto(Aim, e)
      BY ONLY <3>2, GrowsTo
    <3>. QED BY <3>3 DEF h, p, e
  <2>5. mtpHist'[s] = Upto(mtpHist[s], Len(ckpt[s])) \o Lasts(Upto(body.rows, n))
    BY <1>1, <1>2, <1>3 DEF StageTypes
  <2>. QED BY <1>4, <2>1, <2>2, <2>4, <2>5
<1>10. Upto(Aim, body.pos + n) \in Seq(Tokens)
  BY <1>6, <1>7, UptoFacts
<1>11. StageTypes'
  <2>1. hostA' \in [Sessions -> Seq(Tokens \cup {Dirty})]
    <3>1. Upto(Aim, body.pos + n) \in Seq(Tokens \cup {Dirty})
      BY <1>10, MoreTokens
    <3>2. \A t \in Sessions : hostA'[t] = IF t = s THEN Upto(Aim, body.pos + n) ELSE hostA[t]
      BY <1>1, <1>2, <1>8 DEF StageTypes
    <3>3. hostA' = [t \in Sessions |-> hostA'[t]]
      BY <1>1, <1>2 DEF StageTypes
    <3>. QED BY <1>1, <3>1, <3>2, <3>3 DEF StageTypes
  <2>2. mtpHist' \in [Sessions -> Seq(Tokens)]
    <3>2. \A t \in Sessions : mtpHist'[t] = IF t = s THEN Upto(Aim, body.pos + n) ELSE mtpHist[t]
      BY <1>1, <1>2, <1>9 DEF StageTypes
    <3>3. mtpHist' = [t \in Sessions |-> mtpHist'[t]]
      BY <1>1, <1>2 DEF StageTypes
    <3>. QED BY <1>1, <1>10, <3>2, <3>3 DEF StageTypes
  <2>3. specA' \in [Sessions -> Nat \cup {None}] /\ wsess' = wsess
    BY <1>1, <1>2 DEF StageTypes
  <2>. QED BY <1>1, <2>1, <2>2, <2>3 DEF StageTypes
<1>12. SessionTypes' /\ Links'
  BY <1>1, <1>2 DEF SessionTypes, Links
<1>13. toWorker' = <<Commit(s, n)>> /\ toCoord = <<>> /\ toCoord' = <<>>
  BY <1>1, <1>2, QueuesEmpty DEF PipeInv, WireInv
<1>14. ControlTypes'
  <2>1. Commit(s, n) \in Asked
    BY <1>3, <1>7 DEF Asked
  <2>2. toWorker' \in Seq(Asked)
    BY <1>13, <2>1
  <2>. QED BY <1>1, <1>2, <2>2 DEF ControlTypes, Pcs
<1>15. Resting'
  <2>1. \A t \in Sessions \ {s} : hostA'[t] = hostA[t] /\ mtpHist'[t] = mtpHist[t]
    BY <1>1, <1>2 DEF StageTypes
  <2>2. Connected' => Connected
    BY <1>2 DEF Connected
  <2>. QED BY <1>2, <2>1, <2>2, OthersRest
<1>16. Speculates'
  BY <1>1, <1>2, <1>3 DEF PipeInv, Speculates, StageTypes
<1>17. Aim' = Aim /\ SpansOK' = SpansOK
  BY <1>2 DEF Aim, SpansOK, SpanOK
<1>18. OpOK' /\ AtSpan'
  BY <1>2, <1>17 DEF PipeInv, OpOK, AtSpan
<1>19. CommitLen' = n
  BY <1>2 DEF CommitLen, Follows, n
<1>20. SpanInv'
  <2>1. Bounds'
    <3>1. Bounds' = Bounds
      BY <1>2, <1>17 DEF Bounds, Got, Cursor, ChunkOK
    <3>. QED BY <1>3, <3>1
  <2>2. Judged'
    <3>1. Judged' = Judged
      BY <1>2, <1>17 DEF Judged, Got, Cursor, RowsTo, Refuted, Follows
    <3>. QED BY <1>3, <3>1
  <2>3. HostAt(body.pos + CommitLen)' /\ HeadAt(body.pos + CommitLen)'
    BY <1>2, <1>8, <1>9, <1>17, <1>19 DEF HostAt, HeadAt
  <2>4. Committing'
    BY <1>2, <1>3, <1>4, <2>2, <2>3 DEF Committing
  <2>5. (BodySpan /\ Verifying /\ BlockSpan)'
    BY <1>2 DEF BodySpan, Verifying, BlockSpan
  <2>. QED BY <2>1, <2>4, <2>5 DEF SpanInv
<1>21. WireInv'
  <2>1. Sent' = <<Commit(s, n)>> /\ toWorker' # <<>>
    BY <1>2, <1>13, <1>19 DEF Sent
  <2>2. FramesOK'
    BY <1>13, <2>1 DEF FramesOK, Matches
  <2>3. WorkerAt(body.pos + body.count, body.pos)'
    <3>1. WorkerAt(body.pos + body.count, body.pos)
      BY <1>2 DEF PipeInv, WireInv, WorkerFollows, Connected
    <3>. QED BY <1>2, <1>17, <3>1 DEF WorkerAt
  <2>4. WorkerFollows'
    BY <1>2, <2>1, <2>3 DEF WorkerFollows
  <2>. QED BY <2>2, <2>4 DEF WireInv
<1>. QED BY <1>11, <1>12, <1>14, <1>15, <1>16, <1>18, <1>20, <1>21 DEF PipeInv, TypeInv

-----------------------------------------------------------------------------
(* The stage and the draft head follow the aim. *)

LEMMA HostGrows ==
    ASSUME TypeInv, op.s \in Sessions, NEW p, NEW q, NEW e, NEW toks,
           p \in Nat, q \in Nat, e \in Nat,
           p <= q, p <= e, q <= Len(Aim), e <= Len(Aim), HostAt(q), toks = Seg(Aim, p, e),
           EvalA(op.s, p, toks)
    PROVE  /\ hostA'[op.s] = Upto(Aim, e)
           /\ hostA' \in [Sessions -> Seq(Tokens \cup {Dirty})]
           /\ \A s \in Sessions \ {op.s} : hostA'[s] = hostA[s]
<1>. DEFINE h == hostA[op.s]
<1>1. Aim \in Seq(Tokens) /\ hostA \in [Sessions -> Seq(Tokens \cup {Dirty})]
      /\ hostA' = [hostA EXCEPT ![op.s] = Upto(@, p) \o toks]
  BY AimFacts DEF TypeInv, StageTypes, EvalA
<1>2. Upto(h, p) \o Seg(Aim, p, e) = Upto(Aim, e)
  <2>1. /\ p \in Nat /\ q \in Nat /\ e \in Nat /\ p <= q /\ p <= e /\ q <= Len(Aim)
        /\ e <= Len(Aim) /\ Aim \in Seq(Tokens) /\ (q = 0 \/ h = Upto(Aim, q))
    BY <1>1 DEF HostAt
  <2>2. p = 0 \/ h = Upto(Aim, q)
    BY <2>1
  <2>. HIDE DEF h
  <2>3. CASE h = Upto(Aim, q)
    <3>1. Upto(h, p) = Upto(Aim, p)
      BY ONLY <2>1, <2>3, UptoUpto
    <3>2. p <= Len(Aim) /\ 0 \in Nat /\ 0 <= p
      BY <2>1, AimFacts
    <3>3. Upto(Aim, p) = Seg(Aim, 0, p) /\ Upto(Aim, e) = Seg(Aim, 0, e)
      BY DEF Upto, Seg
    <3>4. Seg(Aim, 0, p) \o Seg(Aim, p, e) = Seg(Aim, 0, e)
      BY ONLY <2>1, <3>2, SegJoin
    <3>. QED BY ONLY <3>1, <3>3, <3>4
  <2>4. CASE p = 0
    BY ONLY <2>1, <2>4, GrowsTo
  <2>. QED BY ONLY <2>2, <2>3, <2>4
<1>3. hostA'[op.s] = Upto(Aim, e)
  BY <1>1, <1>2
<1>4. Upto(Aim, e) \in Seq(Tokens \cup {Dirty})
  BY <1>1, UptoFacts, MoreTokens
<1>5. \A s \in Sessions : hostA'[s] = IF s = op.s THEN Upto(Aim, e) ELSE hostA[s]
  BY <1>1, <1>3
<1>6. hostA' = [s \in Sessions |-> hostA'[s]]
  BY <1>1
<1>7. hostA' \in [Sessions -> Seq(Tokens \cup {Dirty})]
  BY ONLY <1>1, <1>4, <1>5, <1>6
<1>. QED BY <1>3, <1>5, <1>7

LEMMA HeadGrows ==
    ASSUME TypeInv, op.s \in Sessions, NEW p, NEW n, p \in Nat, n \in Nat, p + n <= Len(Aim),
           mtp, HeadAt(p), NEW rows, rows = RowsFrom(Aim, p, n), Catchup(op.s, p, rows)
    PROVE  /\ mtpHist'[op.s] = Upto(Aim, p + n)
           /\ mtpHist' \in [Sessions -> Seq(Tokens)]
           /\ \A s \in Sessions \ {op.s} : mtpHist'[s] = mtpHist[s]
<1>. DEFINE h == mtpHist[op.s]
            e == p + n
<1>1. Aim \in Seq(Tokens) /\ Len(Aim) \in Nat /\ mtpHist \in [Sessions -> Seq(Tokens)]
      /\ mtpHist' = [mtpHist EXCEPT ![op.s] = Upto(@, p) \o Lasts(rows)]
  BY AimFacts DEF TypeInv, StageTypes, Catchup
<1>2. Lasts(rows) = Seg(Aim, p, e)
  BY <1>1, LastsOfRows
<1>3. Upto(h, p) \o Seg(Aim, p, e) = Upto(Aim, e)
  <2>1. /\ p = 0 \/ h = Upto(Aim, p)
        /\ p \in Nat /\ e \in Nat /\ p <= p /\ p <= e /\ e <= Len(Aim) /\ p <= Len(Aim)
        /\ Aim \in Seq(Tokens)
    BY <1>1 DEF HeadAt
  <2>. HIDE DEF h, e
  <2>. QED BY ONLY <2>1, GrowsTo
<1>4. mtpHist'[op.s] = Upto(Aim, e)
  BY <1>1, <1>2, <1>3
<1>5. Upto(Aim, e) \in Seq(Tokens)
  BY <1>1, UptoFacts
<1>6. \A s \in Sessions : mtpHist'[s] = IF s = op.s THEN Upto(Aim, e) ELSE mtpHist[s]
  BY <1>1, <1>4
<1>7. mtpHist' = [s \in Sessions |-> mtpHist'[s]]
  BY <1>1
<1>8. mtpHist' \in [Sessions -> Seq(Tokens)]
  BY ONLY <1>1, <1>5, <1>6, <1>7
<1>. QED BY <1>4, <1>6, <1>8

\* The frames of a span that has not sent anything.
LEMMA NothingSentYet ==
    ASSUME pc' \in {"body", "exchange"}, body'.pending = <<>>, toWorker' = <<>>, toCoord' = <<>>
    PROVE  FramesOK'
<1>1. DOMAIN body'.pending = {}
  <2>1. DOMAIN <<>> = {}
    OBVIOUS
  <2>. QED BY <2>1
<1>2. Sent' = [k \in {} |-> ChunkFrame(body.pending[k])']
  BY <1>1 DEF Sent
<1>3. Sent' \in Seq({}) /\ Len(Sent') = 0
  <2>1. Sent' \in [1 .. 0 -> {}]
    BY <1>2
  <2>. QED BY <2>1
<1>4. Matches(Sent, Answers, toWorker, toCoord)'
  BY <1>3 DEF Matches
<1>. QED BY <1>4 DEF FramesOK

LEMMA BeginPlainKeeps ==
    ASSUME PipeInv, BeginSpan, ~Overlapped(Head(op.spans)) PROVE PipeInv'
<1>. DEFINE sp == Head(op.spans)
<1>1. TypeInv /\ SessionTypes /\ StageTypes /\ ControlTypes /\ Links
  BY DEF PipeInv, TypeInv
<1>2. /\ pc = "span" /\ op.spans # <<>> /\ pc' = "body"
      /\ body' = [NoBody EXCEPT !.toks = sp.toks, !.pos = sp.pos,
                                !.count = Len(sp.toks), !.verify = sp.verify]
      /\ specA' = IF sp.verify THEN [specA EXCEPT ![op.s] = Len(hostA[op.s])] ELSE specA
      /\ UNCHANGED <<op, mtp, fd, generation, open, gen, ckpt, valid, logits, hostA, mtpHist, up,
                     backlog, conns, toWorker, toCoord, wpc, wfd, wsess>>
  BY DEF BeginSpan, engineVars, sessVars, linkVars, workerVars
<1>3. /\ sp \in Spans /\ sp.toks \in Seq(Tokens) /\ sp.pos \in Nat /\ sp.verify \in BOOLEAN
      /\ Len(sp.toks) \in Nat \ {0} /\ StartPos = sp.pos
      /\ sp.pos + Len(sp.toks) <= Len(Aim) /\ sp.toks = Seg(Aim, sp.pos, sp.pos + Len(sp.toks))
      /\ sp.verify => op.kind = "spec" /\ sp.pos = Len(ckpt[op.s])
  BY <1>1, <1>2, FirstSpan DEF PipeInv
<1>. HIDE DEF sp
<1>4. op.s \in Sessions /\ Aim' = Aim
  BY <1>2, OpHasSession DEF Aim
<1>5. /\ body'.toks = sp.toks /\ body'.pos = sp.pos /\ body'.i = 0 /\ body'.count = Len(sp.toks)
      /\ body'.final /\ body'.verify = sp.verify /\ body'.pending = <<>> /\ body'.lo = 0
      /\ body'.buf = <<>> /\ body'.io = "none" /\ ~body'.stopped /\ body'.rows = <<>>
      /\ body'.exchange = "no" /\ body'.rc = 0 /\ body'.next = <<>>
  BY <1>2 DEF NoBody
<1>6. body' \in BodyType
  BY <1>2, <1>3, EmptyTypes DEF NoBody, BodyType
<1>7. HostAt(sp.pos) /\ HeadAt(sp.pos) /\ toWorker = <<>> /\ toCoord = <<>>
  BY <1>1, <1>2, <1>3, QueuesEmpty DEF PipeInv, AtSpan, WireInv
<1>8. Got' = 0 /\ Handled' = 0
  <2>1. Len(body'.pending) = 0 /\ Len(toCoord') = 0
    BY <1>2, <1>5, <1>7
  <2>. QED BY <1>5, <2>1 DEF Got, Handled, Cursor
<1>9. sp.verify => specA'[op.s] = sp.pos
  <2>. SUFFICES ASSUME sp.verify PROVE specA'[op.s] = sp.pos
    OBVIOUS
  <2>1. sp.pos # 0
    <3>1. ckpt[op.s] # <<>> /\ sp.pos = Len(ckpt[op.s])
      BY <1>2, <1>3 DEF PipeInv, OpOK
    <3>2. ckpt[op.s] \in Seq(Tokens)
      BY <1>1, <1>4 DEF SessionTypes
    <3>. QED BY <3>1, <3>2, EmptySeq
  <2>2. hostA[op.s] = Upto(Aim, sp.pos)
    BY <1>7, <2>1 DEF HostAt
  <2>3. Len(Upto(Aim, sp.pos)) = sp.pos
    <3>1. Aim \in Seq(Tokens) /\ Len(Aim) \in Nat
      BY <1>1, <1>4, AimFacts
    <3>2. sp.pos \in Nat /\ sp.pos <= Len(Aim)
      BY <1>3, <3>1
    <3>. QED BY <3>1, <3>2, UptoFacts
  <2>. QED BY <1>1, <1>2, <1>4, <2>2, <2>3 DEF StageTypes
<1>10. SessionTypes' /\ Links'
  BY <1>1, <1>2 DEF SessionTypes, Links
<1>11. StageTypes' /\ ControlTypes'
  <2>1. specA' \in [Sessions -> Nat \cup {None}]
    <3>1. CASE sp.verify
      <4>1. specA' = [specA EXCEPT ![op.s] = sp.pos]
        BY <1>1, <1>2, <1>9, <3>1 DEF StageTypes
      <4>. QED BY <1>1, <1>3, <4>1 DEF StageTypes
    <3>2. CASE ~sp.verify
      BY <1>1, <1>2, <3>2 DEF StageTypes
    <3>. QED BY <3>1, <3>2
  <2>. QED BY <1>1, <1>2, <1>6, <2>1 DEF StageTypes, ControlTypes, Pcs
<1>12. Resting'
  BY <1>2, OthersRest DEF Connected
<1>13. Speculates'
  <2>1. \A s \in Sessions : specA[s] = None
    BY <1>2, NoSpeculation
  <2>. QED BY <1>1, <1>2, <1>5, <2>1 DEF Speculates, StageTypes
<1>14. OpOK'
  <2>1. SpansOK' = SpansOK
    BY <1>2, <1>4 DEF SpansOK, SpanOK
  <2>. QED BY <1>2, <1>4, <2>1 DEF PipeInv, OpOK
<1>15. AtSpan'
  BY <1>2 DEF AtSpan
<1>16. Bounds'
  <2>1. body'.buf = Seg(body'.toks, body'.lo, body'.lo + Len(body'.buf))
    <3>1. Seg(sp.toks, 0, 0) = <<>>
      BY UptoEnds DEF Seg, Upto
    <3>2. body'.lo + Len(body'.buf) = 0
      BY <1>5
    <3>. QED BY <1>5, <3>1, <3>2
  <2>2. Len(body'.buf) = 0 /\ Len(body'.pending) = 0 /\ DOMAIN body'.pending = {}
        /\ body'.toks # <<>>
    BY <1>3, <1>5
  <2>3. Window \in Nat
    BY CapsAssumption
  <2>. QED BY <1>3, <1>4, <1>5, <1>8, <2>1, <2>2, <2>3 DEF Bounds
<1>17. (HostAt(body.pos + body.lo + Len(body.buf)) /\ HeadAt(body.pos + Got) /\ HeadAt(body.pos))'
  <2>1. body'.pos + body'.lo + Len(body'.buf) = sp.pos /\ body'.pos + Got' = sp.pos
    <3>1. Len(body'.buf) = 0
      BY <1>5
    <3>. QED BY <1>3, <1>5, <1>8, <3>1
  <2>. QED BY <1>2, <1>4, <1>5, <1>7, <2>1 DEF HostAt, HeadAt
<1>18. SpanInv'
  <2>1. BodySpan'
    <3>1. Got' # Len(body'.toks)
      BY <1>3, <1>5, <1>8
    <3>. QED BY <1>2, <1>5, <1>17, <3>1 DEF BodySpan, sp
  <2>2. Judged'
    <3>1. body'.rows = RowsTo(Got)'
      BY <1>5, <1>8, RowsEmpty DEF RowsTo
    <3>. QED BY <1>5, <1>8, <3>1 DEF Judged
  <2>3. Verifying'
    BY <1>2, <1>5, <1>9, <1>17, <2>2 DEF Verifying, sp
  <2>. QED BY <1>2, <1>16, <2>1, <2>3 DEF SpanInv, BlockSpan, Committing
<1>19. WireInv'
  <2>1. FramesOK'
    BY <1>2, <1>5, <1>7, NothingSentYet
  <2>2. WorkerFollows'
    <3>1. Connected' => WorkerAt(sp.pos, None)
      BY <1>2, <1>3 DEF PipeInv, WireInv, WorkerFollows, Connected
    <3>2. body'.pos + Handled' = sp.pos /\ ~(Handled' > 0)
      BY <1>3, <1>5, <1>8
    <3>3. Connected' => WorkerAt(body.pos + Handled, None)'
      BY <1>2, <1>4, <3>1, <3>2 DEF WorkerAt
    <3>. QED BY <1>2, <3>2, <3>3 DEF WorkerFollows
  <2>. QED BY <2>1, <2>2 DEF WireInv
<1>. QED BY <1>10, <1>11, <1>12, <1>13, <1>14, <1>15, <1>18, <1>19 DEF PipeInv, TypeInv

\* Nothing but the progress of the threads changes.
LEMMA BodyTouch ==
    ASSUME PipeInv, pc \in {"body", "exchange"}, body' \in BodyType,
           UNCHANGED <<pc, op, mtp, fd, generation, open, gen, ckpt, valid, logits, hostA, specA,
                       mtpHist, backlog, conns, toWorker, toCoord, wpc, wfd, wsess>>,
           up' \subseteq up,
           /\ body'.toks = body.toks /\ body'.pos = body.pos /\ body'.i = body.i
           /\ body'.count = body.count /\ body'.final = body.final /\ body'.verify = body.verify
           /\ body'.pending = body.pending /\ body'.lo = body.lo /\ body'.buf = body.buf
           /\ body'.stopped = body.stopped /\ body'.rows = body.rows /\ body'.next = body.next,
           pc = "body" => body'.exchange = body.exchange,
           pc = "exchange" => body'.exchange # "no" /\ (body'.exchange = "ok" => BodyFinished')
    PROVE  PipeInv'
<1>1. Aim' = Aim /\ StartPos' = StartPos
  BY DEF Aim, StartPos
<1>2. TypeInv'
  <2>1. SessionTypes' /\ StageTypes' /\ ControlTypes'
    BY DEF PipeInv, TypeInv, SessionTypes, StageTypes, ControlTypes
  <2>2. Links'
    BY DEF PipeInv, TypeInv, Links
  <2>. QED BY <2>1, <2>2 DEF TypeInv
<1>3. Connected' => Connected
  BY DEF Connected
<1>4. Resting'
  BY <1>3, OthersRest
<1>5. Speculates'
  BY DEF PipeInv, Speculates
<1>6. OpOK'
  BY <1>1 DEF PipeInv, OpOK, SpansOK, SpanOK, Sampled
<1>7. AtSpan'
  BY DEF AtSpan
<1>8. SpanInv'
  <2>1. Bounds'
    <3>1. Bounds' = Bounds
      BY <1>1 DEF Bounds, Got, Cursor, ChunkOK
    <3>. QED BY <3>1 DEF PipeInv, SpanInv
  <2>2. Judged' = Judged
    BY <1>1 DEF Judged, Got, Cursor, RowsTo, Refuted, Follows
  <2>3. (BodySpan /\ Verifying)'
    <3>1. (BodySpan /\ Verifying)' = (BodySpan /\ Verifying)
      BY <1>1, <2>2 DEF BodySpan, Verifying, HostAt, HeadAt, LogitsAt, Got, Cursor
    <3>. QED BY <3>1 DEF PipeInv, SpanInv
  <2>4. BlockSpan'
    <3>1. Rest' = Rest /\ BlockRows' = BlockRows /\ HostAt(body.pos + Len(body.toks) + Len(body.next))'
                        = HostAt(body.pos + Len(body.toks) + Len(body.next))
          /\ HeadAt(body.pos)' = HeadAt(body.pos)
      BY <1>1 DEF Rest, BlockRows, RowsTo, HostAt, HeadAt, Got, Cursor
    <3>. QED BY <3>1 DEF PipeInv, SpanInv, BlockSpan
  <2>. QED BY <2>1, <2>3, <2>4 DEF SpanInv, Committing
<1>9. WireInv'
  <2>1. Sent' = Sent /\ Answers' = Answers
    BY <1>1 DEF Sent, Answers, ChunkFrame, FlagsOf, RowsOf, LastChunk
  <2>2. FramesOK'
    BY <1>3, <2>1 DEF PipeInv, WireInv, FramesOK, Matches
  <2>3. WorkerFollows'
    <3>1. Handled' = Handled
      BY DEF Handled, Cursor
    <3>. QED BY <1>1, <1>3, <3>1 DEF PipeInv, WireInv, WorkerFollows, WorkerAt
  <2>. QED BY <2>2, <2>3 DEF WireInv
<1>. QED BY <1>2, <1>4, <1>5, <1>6, <1>7, <1>8, <1>9 DEF PipeInv

LEMMA ThreadsKeep ==
    ASSUME PipeInv, \/ BodySent \/ ExchangeOk \/ ExchangeFails \/ Abort
                    \/ pc = "exchange" /\ BodyFails
    PROVE  PipeInv'
<1>. USE DEF engineVars, sessVars, stageVars, linkVars, workerVars
<1>0. body \in BodyType
  BY DEF PipeInv, TypeInv, ControlTypes
<1>1. CASE BodySent
  <2>1. body' = [body EXCEPT !.io = "none"]
    BY <1>1 DEF BodySent
  <2>2. body' \in BodyType
    BY <1>0, <2>1 DEF BodyType
  <2>3. pc \in {"body", "exchange"} /\ (pc = "exchange" => body'.exchange = "run")
    BY <1>0, <1>1, <2>1 DEF BodySent, Exchanging, BodyType
  <2>. QED BY <1>0, <1>1, <2>1, <2>2, <2>3, BodyTouch DEF BodySent, BodyType
<1>2. CASE ExchangeOk
  <2>1. body' = [body EXCEPT !.exchange = "ok"] /\ BodyFinished
    BY <1>2 DEF ExchangeOk
  <2>2. body' \in BodyType
    BY <1>0, <2>1 DEF BodyType
  <2>3. BodyFinished' /\ body'.exchange = "ok"
    BY <1>0, <2>1 DEF BodyFinished, BodyType
  <2>. QED BY <1>0, <1>2, <2>1, <2>2, <2>3, BodyTouch DEF ExchangeOk, BodyType
<1>3. CASE ExchangeFails \/ (pc = "exchange" /\ BodyFails)
  <2>1. body' = [body EXCEPT !.exchange = "failed", !.io = "none"] /\ pc = "exchange"
        /\ UNCHANGED <<pc, op, mtp, fd, generation, open, gen, ckpt, valid, logits, hostA, specA,
                       mtpHist, up, backlog, conns, toWorker, toCoord, wpc, wfd, wsess>>
    BY <1>3 DEF ExchangeFails, BodyFails
  <2>2. body' \in BodyType
    BY <1>0, <2>1 DEF BodyType
  <2>. QED BY <1>0, <2>1, <2>2, BodyTouch DEF BodyType
<1>4. CASE Abort
  <2>1. body' = [body EXCEPT !.rc = 1] /\ pc = "exchange" /\ up' \subseteq up
        /\ UNCHANGED <<pc, op, mtp, fd, generation, open, gen, ckpt, valid, logits, hostA, specA,
                       mtpHist, backlog, conns, toWorker, toCoord, wpc, wfd, wsess>>
    BY <1>4 DEF Abort
  <2>2. body' \in BodyType
    BY <1>0, <2>1 DEF BodyType
  <2>3. body.exchange # "no" /\ (body.exchange = "ok" => BodyFinished)
    BY <2>1 DEF PipeInv, SpanInv, BlockSpan
  <2>4. body'.exchange = body.exchange /\ BodyFinished' = BodyFinished
    BY <1>0, <2>1 DEF BodyFinished, BodyType
  <2>. QED BY <1>0, <2>1, <2>2, <2>3, <2>4, BodyTouch DEF BodyType
<1>. QED BY <1>1, <1>2, <1>3, <1>4

\* The span that the exchange thread works on.
LEMMA BlockFacts ==
    ASSUME PipeInv, pc = "exchange"
    PROVE  LET sp == Head(op.spans)
               end == sp.pos + Len(sp.toks)
               here == body.pos + Len(body.toks)
           IN  /\ op.spans # <<>> /\ op.s \in Sessions /\ sp.toks \in Seq(Tokens) /\ sp.pos \in Nat
               /\ Len(sp.toks) \in Nat /\ end <= Len(Aim) /\ here <= end /\ here \in Nat
               /\ Len(Aim) \in Nat /\ Aim \in Seq(Tokens)
               /\ Rest = Seg(Aim, here, end) /\ Rest \in Seq(Tokens) /\ Len(Rest) = end - here
               /\ ~sp.verify
<1>. DEFINE sp == Head(op.spans)
            end == sp.pos + Len(sp.toks)
            here == body.pos + Len(body.toks)
<1>1. TypeInv /\ op.spans # <<>> /\ op.s \in Sessions
  BY OpHasSession DEF PipeInv, OpOK
<1>2. /\ sp.toks \in Seq(Tokens) /\ sp.pos \in Nat /\ Len(sp.toks) \in Nat \ {0}
      /\ end <= Len(Aim) /\ sp.toks = Seg(Aim, sp.pos, end)
  BY <1>1, FirstSpan DEF PipeInv
<1>3. ~sp.verify /\ sp.pos <= body.pos /\ here <= end
  BY DEF PipeInv, SpanInv, BlockSpan
<1>4. body.pos \in Nat /\ Len(body.toks) \in Nat
  BY <1>1, BodyTypes
<1>5. Aim \in Seq(Tokens) /\ Len(Aim) \in Nat
  BY <1>1, AimFacts
<1>6. Rest = Seg(sp.toks, body.pos - sp.pos + Len(body.toks), Len(sp.toks))
  BY DEF Rest, From, Seg
<1>. DEFINE P == sp.pos
            L == Len(sp.toks)
            B == body.pos
            N == Len(body.toks)
            A == Len(Aim)
<1>7. /\ P \in Nat /\ L \in Nat /\ B \in Nat /\ N \in Nat /\ A \in Nat /\ P <= B /\ B + N <= P + L
      /\ P + L <= A
  BY <1>2, <1>3, <1>4, <1>5
<1>. HIDE DEF P, L, B, N, A, sp
<1>8. /\ B - P + N \in Nat /\ B - P + N <= L /\ L <= (P + L) - P /\ P + L \in Nat /\ P <= P + L
      /\ P + (B - P + N) = B + N /\ B + N \in Nat
  BY ONLY <1>7
<1>9. Seg(Seg(Aim, P, P + L), B - P + N, L) = Seg(Aim, P + (B - P + N), P + L)
  <2>. DEFINE x == P + L
              y == B - P + N
  <2>1. x \in Nat /\ y \in Nat /\ P \in Nat /\ L \in Nat /\ P <= x /\ x <= Len(Aim) /\ y <= L
        /\ L <= x - P /\ Aim \in Seq(Tokens)
    BY <1>5, <1>7, <1>8 DEF A
  <2>. HIDE DEF x, y
  <2>2. Seg(Seg(Aim, P, x), y, L) = Seg(Aim, P + y, P + L)
    BY ONLY <2>1, SegOfSeg
  <2>. QED BY <2>2 DEF x, y
<1>10. Rest = Seg(Aim, here, end)
  <2>1. Rest = Seg(sp.toks, B - P + N, L)
    BY <1>6 DEF B, P, N, L
  <2>2. sp.toks = Seg(Aim, P, P + L)
    BY <1>2 DEF P, L
  <2>3. here = B + N /\ end = P + L
    BY DEF B, P, N, L
  <2>. QED BY <1>8, <1>9, <2>1, <2>2, <2>3
<1>11. here \in Nat /\ end \in Nat /\ here <= end /\ end <= Len(Aim)
  BY <1>7, <1>8 DEF B, P, N, L, A
<1>12. Rest \in Seq(Tokens) /\ Len(Rest) = end - here
  <2>. HIDE DEF here, end
  <2>. QED BY ONLY <1>5, <1>10, <1>11, SegFacts
<1>. QED BY <1>1, <1>2, <1>3, <1>5, <1>10, <1>11, <1>12 DEF sp

\* One frame for each chunk.
LEMMA SentFacts ==
    ASSUME TypeInv, pc \in {"body", "exchange"}
    PROVE  LET n == Len(body.pending)
           IN  /\ Len(Sent) = n /\ Len(Answers) = n /\ n \in Nat
               /\ Sent \in Seq({ChunkFrame(body.pending[k]) : k \in 1 .. n})
               /\ Answers \in Seq({Result(op.s, body.pending[k].end, RowsOf(body.pending[k])) : k \in 1 .. n})
               /\ \A k \in 1 .. n : Sent[k] = ChunkFrame(body.pending[k])
               /\ \A k \in 1 .. n : Answers[k] = Result(op.s, body.pending[k].end, RowsOf(body.pending[k]))
<1>. DEFINE n == Len(body.pending)
<1>1. n \in Nat /\ DOMAIN body.pending = 1 .. n
  BY BodyTypes, LenProperties
<1>2. Sent = [k \in 1 .. n |-> ChunkFrame(body.pending[k])]
  BY <1>1 DEF Sent
<1>3. Answers = [k \in 1 .. n |-> Result(op.s, body.pending[k].end, RowsOf(body.pending[k]))]
  BY <1>1 DEF Answers
<1>. DEFINE X == {ChunkFrame(body.pending[k]) : k \in 1 .. n}
            Y == {Result(op.s, body.pending[k].end, RowsOf(body.pending[k])) : k \in 1 .. n}
<1>4. Sent \in [1 .. n -> X]
  BY <1>2
<1>5. Answers \in [1 .. n -> Y]
  BY <1>3
<1>6. Sent \in Seq(X) /\ Len(Sent) = n /\ Answers \in Seq(Y) /\ Len(Answers) = n
  <2>. HIDE DEF X, Y, n
  <2>. QED BY <1>1, <1>4, <1>5
<1>. QED BY <1>1, <1>2, <1>3, <1>6

LEMMA AllAnswered ==
    ASSUME PipeInv, pc \in {"body", "exchange"}, body.pending = <<>>
    PROVE  toWorker = <<>> /\ toCoord = <<>> /\ Handled = body.i /\ Got = body.i
<1>1. toWorker \in Seq(Asked) /\ toCoord \in Seq(Answered)
  BY DEF PipeInv, TypeInv, ControlTypes
<1>2. Len(toWorker) \in Nat /\ Len(toCoord) \in Nat
  BY <1>1, LenProperties
<1>3. Len(body.pending) = 0
  OBVIOUS
<1>4. Len(toWorker) + Len(toCoord) = 0
  BY <1>3, SentFacts DEF PipeInv, WireInv, FramesOK, Matches
<1>5. Len(toWorker) = 0 /\ Len(toCoord) = 0
  BY <1>2, <1>4
<1>6. toWorker = <<>> /\ toCoord = <<>>
  BY <1>1, <1>5, EmptySeq
<1>. QED BY <1>3, <1>5, <1>6 DEF Handled, Got, Cursor

LEMMA LocalNextKeeps == ASSUME PipeInv, LocalNext PROVE PipeInv'
<1>. DEFINE here == body.pos + Len(body.toks)
            end == Head(op.spans).pos + Len(Head(op.spans).toks)
            m == AtMost(LocalCap, Len(Rest))
            toks == Upto(Rest, m)
<1>1. TypeInv /\ SessionTypes /\ StageTypes /\ ControlTypes /\ Links
  BY DEF PipeInv, TypeInv
<1>2. /\ pc = "exchange" /\ Rest # <<>> /\ body.next = <<>>
      /\ EvalA(op.s, here, toks) /\ body' = [body EXCEPT !.next = toks]
      /\ UNCHANGED <<pc, op, mtp, fd, generation, open, gen, ckpt, valid, logits, specA, mtpHist,
                     up, backlog, conns, toWorker, toCoord, wpc, wfd, wsess>>
  BY DEF LocalNext, engineVars, sessVars, linkVars, workerVars
<1>3. /\ op.s \in Sessions /\ end <= Len(Aim) /\ here <= end /\ here \in Nat /\ Len(Aim) \in Nat
      /\ Aim \in Seq(Tokens) /\ Rest = Seg(Aim, here, end) /\ Rest \in Seq(Tokens)
      /\ Len(Rest) = end - here /\ end \in Nat
  <2>1. Head(op.spans).pos \in Nat /\ Len(Head(op.spans).toks) \in Nat
    BY <1>2, BlockFacts
  <2>2. end \in Nat
    BY <2>1
  <2>. QED BY <1>2, <2>2, BlockFacts
<1>. HIDE DEF here, end
<1>4. m \in Nat /\ m <= Len(Rest) /\ 0 < m /\ Len(Rest) = end - here
  <2>1. Len(Rest) > 0
    BY <1>2, <1>3, LenProperties, EmptySeq
  <2>. QED BY <1>3, <2>1, CapsAssumption DEF AtMost
<1>. HIDE DEF m
<1>5. toks \in Seq(Tokens) /\ Len(toks) = m /\ toks = Seg(Aim, here, here + m)
  <2>1. toks \in Seq(Tokens) /\ Len(toks) = m
    BY <1>3, <1>4, UptoFacts
  <2>2. 0 \in Nat /\ 0 <= m /\ m <= end - here /\ m \in Nat /\ here \in Nat /\ end \in Nat
        /\ here <= end /\ end <= Len(Aim) /\ Aim \in Seq(Tokens)
    BY <1>3, <1>4
  <2>3. Seg(Seg(Aim, here, end), 0, m) = Seg(Aim, here + 0, here + m)
    BY ONLY <2>2, SegOfSeg
  <2>4. here + 0 = here
    BY <2>2
  <2>5. toks = Seg(Rest, 0, m)
    <3>1. Rest \in Seq(Tokens) /\ m \in Nat /\ m <= Len(Rest)
      BY <1>3, <1>4
    <3>2. Upto(Rest, m) = Seg(Rest, 0, m)
      BY ONLY <3>1, UptoFacts
    <3>. QED BY <3>2
  <2>6. Rest = Seg(Aim, here, end)
    BY <1>3
  <2>. HIDE DEF toks
  <2>. QED BY ONLY <2>1, <2>3, <2>4, <2>5, <2>6
<1>. HIDE DEF toks
<1>6. /\ HostAt(here) /\ body.exchange # "no"
      /\ body.exchange = "ok" => BodyFinished
  <2>1. HostAt(here + Len(body.next)) /\ here + Len(body.next) = here
    <3>1. Len(body.next) = 0
      BY <1>2
    <3>. QED BY <1>2, <1>3, <3>1 DEF PipeInv, SpanInv, BlockSpan, here
  <2>. QED BY <1>2, <2>1 DEF PipeInv, SpanInv, BlockSpan
<1>7. /\ hostA'[op.s] = Upto(Aim, here + m)
      /\ hostA' \in [Sessions -> Seq(Tokens \cup {Dirty})]
      /\ \A s \in Sessions \ {op.s} : hostA'[s] = hostA[s]
  <2>. DEFINE e == here + m
  <2>1. /\ here \in Nat /\ e \in Nat /\ here <= here /\ here <= e /\ here <= Len(Aim)
        /\ e <= Len(Aim)
    BY <1>3, <1>4
  <2>. HIDE DEF e
  <2>. QED BY <1>1, <1>2, <1>3, <1>5, <1>6, <2>1, HostGrows DEF e
<1>8. body' \in BodyType /\ body'.next = toks
      /\ /\ body'.toks = body.toks /\ body'.pos = body.pos /\ body'.i = body.i
         /\ body'.count = body.count /\ body'.final = body.final /\ body'.verify = body.verify
         /\ body'.pending = body.pending /\ body'.lo = body.lo /\ body'.buf = body.buf
         /\ body'.stopped = body.stopped /\ body'.rows = body.rows /\ body'.io = body.io
         /\ body'.exchange = body.exchange
  BY <1>1, <1>2, <1>5 DEF ControlTypes, BodyType
<1>9. Aim' = Aim /\ StartPos' = StartPos /\ Rest' = Rest
  BY <1>2, <1>8 DEF Aim, StartPos, Rest
<1>10. TypeInv'
  <2>1. SessionTypes' /\ StageTypes'
    BY <1>1, <1>2, <1>7 DEF SessionTypes, StageTypes
  <2>2. ControlTypes' /\ Links'
    BY <1>1, <1>2, <1>8 DEF ControlTypes, Links
  <2>. QED BY <2>1, <2>2 DEF TypeInv
<1>11. Resting'
  BY <1>2, <1>7, OthersRest DEF Connected
<1>12. Speculates' /\ OpOK' /\ AtSpan'
  BY <1>2, <1>9 DEF PipeInv, Speculates, AtSpan, OpOK, SpansOK, SpanOK
<1>13. SpanInv'
  <2>1. Bounds'
    <3>1. Bounds' = Bounds
      BY <1>8, <1>9 DEF Bounds, Got, Cursor, ChunkOK
    <3>. QED BY <1>2, <3>1 DEF PipeInv, SpanInv
  <2>2. BlockSpan'
    <3>1. BlockRows' = BlockRows /\ HeadAt(body.pos)' = HeadAt(body.pos)
          /\ BodyFinished' = BodyFinished
      BY <1>2, <1>8, <1>9 DEF BlockRows, RowsTo, HeadAt, Got, Cursor, BodyFinished
    <3>2. HostAt(body.pos + Len(body.toks) + Len(body.next))'
      BY <1>2, <1>5, <1>7, <1>8, <1>9 DEF HostAt, here
    <3>3. body'.next = Upto(Rest', AtMost(LocalCap, Len(Rest')))
      BY <1>8, <1>9 DEF toks, m
    <3>. QED BY <1>2, <1>8, <1>9, <3>1, <3>2, <3>3 DEF PipeInv, SpanInv, BlockSpan
  <2>. QED BY <1>2, <2>1, <2>2 DEF SpanInv, BodySpan, Verifying, Committing
<1>14. WireInv'
  <2>1. Sent' = Sent /\ Answers' = Answers
    BY <1>2, <1>8, <1>9 DEF Sent, Answers, ChunkFrame, FlagsOf, RowsOf, LastChunk
  <2>2. FramesOK'
    BY <1>2, <2>1 DEF PipeInv, WireInv, FramesOK, Matches, Connected
  <2>3. WorkerFollows'
    <3>1. Handled' = Handled
      BY <1>2, <1>8 DEF Handled, Cursor
    <3>. QED BY <1>2, <1>8, <1>9, <3>1 DEF PipeInv, WireInv, WorkerFollows, WorkerAt, Connected
  <2>. QED BY <2>2, <2>3 DEF WireInv
<1>. QED BY <1>10, <1>11, <1>12, <1>13, <1>14 DEF PipeInv

\* The exchange of a block begins, all of it evaluated on this side.
LEMMA BlockBegins ==
    ASSUME PipeInv, NEW toks \in Seq(Tokens), NEW p, NEW final \in BOOLEAN, NEW end,
           p \in Nat, end \in Nat,
           pc \in {"span", "exchange"}, pc' = "exchange", body' = Block(toks, p, final),
           op.spans # <<>>, ~Head(op.spans).verify, toks # <<>>, Len(toks) = end - p,
           toks = Seg(Aim, p, end), Head(op.spans).pos <= p,
           end <= Head(op.spans).pos + Len(Head(op.spans).toks), end <= Len(Aim),
           final <=> end = Head(op.spans).pos + Len(Head(op.spans).toks),
           UNCHANGED <<op, mtp, fd, generation, open, gen, ckpt, valid, logits, specA, up, backlog,
                       conns, toWorker, toCoord, wpc, wfd, wsess>>,
           toWorker = <<>>, toCoord = <<>>,
           hostA' \in [Sessions -> Seq(Tokens \cup {Dirty})],
           mtpHist' \in [Sessions -> Seq(Tokens)],
           \A s \in Sessions \ {op.s} : hostA'[s] = hostA[s] /\ mtpHist'[s] = mtpHist[s],
           hostA'[op.s] = Upto(Aim, end), mtp => p = 0 \/ mtpHist'[op.s] = Upto(Aim, p),
           Connected => WorkerAt(p, None)
    PROVE  PipeInv'
<1>1. TypeInv /\ SessionTypes /\ StageTypes /\ ControlTypes /\ Links
  BY DEF PipeInv, TypeInv
<1>2. Len(toks) \in Nat \ {0} /\ p + Len(toks) = end /\ op.s \in Sessions
  <2>1. Len(toks) \in Nat /\ Len(toks) # 0
    BY LenProperties, EmptySeq
  <2>. QED BY <2>1, OpHasSession
<1>3. Aim' = Aim /\ StartPos' = StartPos /\ op' = op
  BY DEF Aim, StartPos
<1>4. /\ body'.toks = toks /\ body'.pos = p /\ body'.i = 0 /\ body'.count = Len(toks)
      /\ body'.final = final /\ ~body'.verify /\ body'.pending = <<>> /\ body'.lo = 0
      /\ body'.buf = toks /\ body'.io = "none" /\ ~body'.stopped /\ body'.rows = <<>>
      /\ body'.exchange = "run" /\ body'.rc = 0 /\ body'.next = <<>>
  BY DEF Block, NoBody
<1>5. body' \in BodyType
  <2>. DEFINE l == Len(toks)
              B == NoBody
  <2>1. body' = [B EXCEPT !.toks = toks, !.pos = p, !.count = l, !.buf = toks, !.final = final,
                          !.exchange = "run"]
    BY DEF Block
  <2>2. l \in Nat /\ B \in BodyType /\ toks \in Seq(Tokens) /\ p \in Nat /\ final \in BOOLEAN
    BY <1>2, EmptyTypes
  <2>. HIDE DEF l, B
  <2>. QED BY ONLY <2>1, <2>2 DEF BodyType
<1>6. Got' = 0 /\ Handled' = 0
  <2>1. Len(body'.pending) = 0 /\ Len(toCoord') = 0
    BY <1>4
  <2>. QED BY <1>4, <2>1 DEF Got, Handled, Cursor
<1>7. TypeInv'
  <2>1. SessionTypes' /\ Links'
    BY <1>1 DEF SessionTypes, Links
  <2>2. StageTypes'
    BY <1>1 DEF StageTypes
  <2>3. ControlTypes'
    BY <1>1, <1>5 DEF ControlTypes, Pcs
  <2>. QED BY <2>1, <2>2, <2>3 DEF TypeInv
<1>8. Resting'
  BY OthersRest DEF Connected
<1>9. Speculates'
  <2>1. \A s \in Sessions : specA[s] = None
    BY NoSpeculation
  <2>. QED BY <2>1 DEF Speculates
<1>10. OpOK' /\ AtSpan'
  <2>1. SpansOK' = SpansOK
    BY <1>3 DEF SpansOK, SpanOK
  <2>. QED BY <1>3, <2>1 DEF PipeInv, OpOK, AtSpan
<1>11. Bounds'
  <2>1. body'.buf = Seg(body'.toks, body'.lo, body'.lo + Len(body'.buf))
    <3>1. Seg(toks, 0, Len(toks)) = toks
      <4>1. Upto(toks, Len(toks)) = toks
        BY UptoEnds
      <4>2. Upto(toks, Len(toks)) = Seg(toks, 0, Len(toks))
        BY DEF Upto, Seg
      <4>. QED BY <4>1, <4>2
    <3>2. body'.lo + Len(body'.buf) = Len(toks)
      BY <1>2, <1>4
    <3>. QED BY <1>4, <3>1, <3>2
  <2>2. Len(body'.pending) = 0 /\ DOMAIN body'.pending = {} /\ Len(body'.buf) = Len(toks)
    <3>1. body'.pending = <<>> /\ body'.buf = toks
      BY <1>4
    <3>. QED BY ONLY <3>1
  <2>3. Window \in Nat
    BY CapsAssumption
  <2>4. body'.toks = Seg(Aim', body'.pos, body'.pos + Len(body'.toks))
        /\ body'.pos + Len(body'.toks) <= Len(Aim')
    BY <1>2, <1>3, <1>4
  <2>. QED BY <1>2, <1>4, <1>6, <2>1, <2>2, <2>3, <2>4 DEF Bounds
<1>12. BlockSpan'
  <2>1. (HostAt(body.pos + Len(body.toks) + Len(body.next)) /\ HeadAt(body.pos))'
    <3>0. HeadAt(p)'
      BY <1>3 DEF HeadAt
    <3>1. body'.pos + Len(body'.toks) + Len(body'.next) = end
      <4>1. Len(body'.next) = 0
        BY <1>4
      <4>. QED BY <1>2, <1>4, <4>1
    <3>. QED BY <1>3, <1>4, <3>0, <3>1 DEF HostAt, HeadAt
  <2>2. BlockRows'
    <3>1. RowsTo(Got)' = <<>>
      BY <1>6, RowsEmpty DEF RowsTo
    <3>. QED BY <1>2, <1>4, <1>6, <3>1 DEF BlockRows
  <2>. QED BY <1>2, <1>3, <1>4, <2>1, <2>2 DEF BlockSpan
<1>13. SpanInv'
  BY <1>4, <1>11, <1>12 DEF SpanInv, BodySpan, Verifying, Committing
<1>14. WireInv'
  <2>1. FramesOK'
    BY <1>4, NothingSentYet
  <2>2. WorkerFollows'
    <3>1. body'.pos + Handled' = p /\ ~(Handled' > 0)
      BY <1>4, <1>6
    <3>2. Connected' => WorkerAt(body.pos + Handled, None)'
      BY <1>3, <3>1 DEF WorkerAt, Connected
    <3>. QED BY <1>4, <3>1, <3>2 DEF WorkerFollows
  <2>. QED BY <2>1, <2>2 DEF WireInv
<1>. QED BY <1>7, <1>8, <1>9, <1>10, <1>13, <1>14 DEF PipeInv

LEMMA BeginOverlappedKeeps ==
    ASSUME PipeInv, BeginSpan, Overlapped(Head(op.spans)) PROVE PipeInv'
<1>. DEFINE sp == Head(op.spans)
            toks == Upto(sp.toks, LocalCap)
            end == sp.pos + LocalCap
<1>1. TypeInv /\ SessionTypes /\ StageTypes /\ ControlTypes /\ Links
  BY DEF PipeInv, TypeInv
<1>2. /\ pc = "span" /\ op.spans # <<>> /\ pc' = "exchange" /\ body' = Block(toks, sp.pos, FALSE)
      /\ EvalA(op.s, sp.pos, toks) /\ ~sp.verify /\ Len(sp.toks) > LocalCap
      /\ UNCHANGED <<op, mtp, fd, generation, open, gen, ckpt, valid, logits, specA, mtpHist, up,
                     backlog, conns, toWorker, toCoord, wpc, wfd, wsess>>
  BY DEF BeginSpan, Overlapped, engineVars, sessVars, linkVars, workerVars
<1>3. /\ sp \in Spans /\ sp.toks \in Seq(Tokens) /\ sp.pos \in Nat
      /\ Len(sp.toks) \in Nat \ {0} /\ StartPos = sp.pos
      /\ sp.pos + Len(sp.toks) <= Len(Aim) /\ sp.toks = Seg(Aim, sp.pos, sp.pos + Len(sp.toks))
  BY <1>1, <1>2, FirstSpan DEF PipeInv
<1>4. op.s \in Sessions /\ Aim \in Seq(Tokens) /\ Len(Aim) \in Nat
  BY <1>1, <1>2, OpHasSession, AimFacts
<1>5. LocalCap \in Nat \ {0}
  BY CapsAssumption
<1>6. toks \in Seq(Tokens) /\ Len(toks) = LocalCap /\ toks = Seg(Aim, sp.pos, end)
  <2>1. LocalCap \in Nat /\ LocalCap <= Len(sp.toks) /\ sp.toks \in Seq(Tokens)
    BY <1>2, <1>3, <1>5
  <2>2. toks \in Seq(Tokens) /\ Len(toks) = LocalCap /\ toks = Seg(sp.toks, 0, LocalCap)
    BY ONLY <2>1, UptoFacts
  <2>. DEFINE q == sp.pos + Len(sp.toks)
  <2>3. /\ 0 \in Nat /\ 0 <= LocalCap /\ LocalCap <= q - sp.pos /\ LocalCap \in Nat
        /\ sp.pos \in Nat /\ q \in Nat /\ sp.pos <= q /\ q <= Len(Aim) /\ Aim \in Seq(Tokens)
    BY <1>3, <1>4, <2>1
  <2>4. Seg(Seg(Aim, sp.pos, q), 0, LocalCap) = Seg(Aim, sp.pos + 0, sp.pos + LocalCap)
    <3>. HIDE DEF q, sp
    <3>. QED BY ONLY <2>3, SegOfSeg
  <2>5. sp.pos + 0 = sp.pos
    BY <1>3
  <2>6. sp.toks = Seg(Aim, sp.pos, q)
    BY <1>3
  <2>. HIDE DEF toks, q, sp
  <2>. QED BY ONLY <2>2, <2>4, <2>5, <2>6 DEF end
<1>7. /\ end \in Nat /\ sp.pos <= end /\ end <= Len(Aim) /\ sp.pos <= Len(Aim)
      /\ end < sp.pos + Len(sp.toks) /\ LocalCap = end - sp.pos
  <2>. DEFINE x == sp.pos
              l == Len(sp.toks)
  <2>1. x \in Nat /\ l \in Nat /\ l > LocalCap /\ x + l <= Len(Aim)
    BY <1>2, <1>3
  <2>2. end = x + LocalCap
    OBVIOUS
  <2>3. /\ end \in Nat /\ x <= end /\ end <= Len(Aim) /\ x <= Len(Aim)
        /\ end < x + l /\ LocalCap = end - x
    <3>. HIDE DEF x, l, end
    <3>. QED BY ONLY <2>1, <2>2, <1>4, <1>5
  <2>. QED BY <2>3
<1>. HIDE DEF toks, end, sp
<1>8. HostAt(sp.pos) /\ HeadAt(sp.pos) /\ toWorker = <<>> /\ toCoord = <<>>
  BY <1>1, <1>2, <1>3, QueuesEmpty DEF PipeInv, AtSpan, WireInv
<1>9. /\ hostA'[op.s] = Upto(Aim, end)
      /\ hostA' \in [Sessions -> Seq(Tokens \cup {Dirty})]
      /\ \A s \in Sessions \ {op.s} : hostA'[s] = hostA[s]
  <2>1. sp.pos \in Nat /\ sp.pos <= sp.pos
    BY <1>3
  <2>. QED BY ONLY <1>1, <1>2, <1>4, <1>6, <1>7, <1>8, <2>1, HostGrows
<1>10. mtp => sp.pos = 0 \/ mtpHist'[op.s] = Upto(Aim, sp.pos)
  BY <1>2, <1>8 DEF HeadAt
<1>11. Connected => WorkerAt(sp.pos, None)
  BY <1>2, <1>3 DEF PipeInv, WireInv, WorkerFollows
<1>12. mtpHist' \in [Sessions -> Seq(Tokens)] /\ \A s \in Sessions \ {op.s} : mtpHist'[s] = mtpHist[s]
  BY <1>1, <1>2 DEF StageTypes
<1>13. /\ toks # <<>> /\ Len(toks) = end - sp.pos /\ sp.pos <= sp.pos
       /\ end <= sp.pos + Len(sp.toks) /\ (FALSE <=> end = sp.pos + Len(sp.toks))
  <2>1. Len(toks) # 0
    BY <1>5, <1>6
  <2>2. toks # <<>>
    BY <2>1
  <2>3. FALSE <=> end = sp.pos + Len(sp.toks)
    BY <1>3, <1>7
  <2>4. sp.pos <= sp.pos /\ end <= sp.pos + Len(sp.toks)
    BY <1>3, <1>7
  <2>. QED BY <1>6, <1>7, <2>2, <2>3, <2>4
<1>14. /\ PipeInv /\ toks \in Seq(Tokens) /\ FALSE \in BOOLEAN /\ sp.pos \in Nat /\ end \in Nat
       /\ pc \in {"span", "exchange"} /\ pc' = "exchange"
       /\ ~sp.verify /\ end <= Len(Aim) /\ op.spans # <<>>
  BY <1>2, <1>3, <1>6, <1>7
<1>. QED BY ONLY <1>2, <1>6, <1>8, <1>9, <1>10, <1>11, <1>12, <1>13, <1>14, BlockBegins DEF sp

\* A span is through.
LEMMA TailSpans ==
    ASSUME TypeInv, OpOK, op.spans # <<>>, pc \notin {"idle", "freeing"},
           ~Head(op.spans).verify, op' = [op EXCEPT !.spans = Tail(@)], ckpt' = ckpt
    PROVE  /\ SpansOK' /\ StartPos' = Head(op.spans).pos + Len(Head(op.spans).toks)
           /\ Aim' = Aim /\ op' \in OpType /\ op'.s = op.s /\ op'.kind = op.kind
           /\ op'.input = op.input /\ (op.kind = "spec" => op'.spans # <<>>)
<1>. DEFINE sp == Head(op.spans)
            end == sp.pos + Len(sp.toks)
            T == Tail(op.spans)
<1>1. op \in OpType /\ op.spans \in Seq(Spans)
  BY DEF TypeInv, ControlTypes, OpType
<1>2. op'.spans = T /\ op'.s = op.s /\ op'.kind = op.kind /\ op'.input = op.input
  BY <1>1 DEF OpType
<1>3. /\ T \in Seq(Spans) /\ Len(T) = Len(op.spans) - 1 /\ Len(op.spans) \in Nat \ {0}
      /\ \A k \in DOMAIN T : k + 1 \in DOMAIN op.spans /\ T[k] = op.spans[k + 1]
  BY <1>1, TailIsPart
<1>4. Aim' = Aim
  BY <1>2 DEF Aim
<1>5. op' \in OpType
  BY <1>1, <1>3 DEF OpType
<1>6. /\ end = IF Len(op.spans) = 1 THEN Len(Aim) ELSE op.spans[2].pos
      /\ op.kind = "spec" => Len(op.spans) # 1
  BY FirstSpan
<1>. HIDE DEF T, end, sp
<1>7. StartPos' = end
  <2>1. CASE Len(op.spans) = 1
    <3>1. T = <<>>
      BY <1>3, <2>1, EmptySeq
    <3>. QED BY <1>2, <1>4, <1>6, <2>1, <3>1 DEF StartPos
  <2>2. CASE Len(op.spans) # 1
    <3>1. T # <<>> /\ Len(T) \in Nat \ {0}
      <4>1. Len(T) # 0 /\ Len(T) \in Nat
        BY <1>3, <2>2
      <4>2. T # <<>>
        BY <4>1
      <4>. QED BY <4>1, <4>2
    <3>2. Head(T) = T[1] /\ 1 \in DOMAIN T
      <4>1. 1 \in 1 .. Len(T)
        BY <3>1
      <4>. QED BY <1>3, <4>1
    <3>3. Head(T) = op.spans[2]
      <4>1. T[1] = op.spans[1 + 1]
        BY <1>3, <3>2
      <4>. QED BY <3>2, <4>1
    <3>. QED BY <1>2, <1>6, <2>2, <3>1, <3>3 DEF StartPos
  <2>. QED BY <2>1, <2>2
<1>8. op.kind = "spec" => T # <<>>
  <2>1. Len(op.spans) # 1 => Len(T) # 0
    BY <1>3
  <2>2. T = <<>> => Len(T) = 0
    OBVIOUS
  <2>. QED BY <1>6, <2>1, <2>2
<1>9. SpansOK'
  <2>. SUFFICES ASSUME NEW k \in DOMAIN op'.spans PROVE SpanOK(k)'
    BY DEF SpansOK
  <2>1. k \in DOMAIN T /\ k + 1 \in DOMAIN op.spans /\ op'.spans[k] = op.spans[k + 1]
    BY <1>2, <1>3
  <2>2. SpanOK(k + 1)
    BY <2>1 DEF OpOK, SpansOK
  <2>3. k \in 1 .. Len(T) /\ k \in Nat
    BY <1>3, <2>1
  <2>4. k = Len(op'.spans) <=> k + 1 = Len(op.spans)
    BY <1>2, <1>3, <2>3
  <2>5. k # Len(op'.spans) => op'.spans[k + 1] = op.spans[(k + 1) + 1]
    <3>. SUFFICES ASSUME k # Len(op'.spans) PROVE op'.spans[k + 1] = op.spans[(k + 1) + 1]
      OBVIOUS
    <3>1. k + 1 \in 1 .. Len(T)
      BY <1>2, <1>3, <2>3
    <3>2. k + 1 \in DOMAIN T
      BY <1>3, <3>1
    <3>. QED BY <1>2, <1>3, <3>2
  <2>. QED BY <1>2, <1>4, <2>1, <2>2, <2>4, <2>5 DEF SpanOK
<1>. QED BY <1>2, <1>4, <1>5, <1>7, <1>8, <1>9 DEF end, sp

LEMMA SpanEnds ==
    ASSUME PipeInv, pc \in {"body", "exchange"}, pc' = "span", NEW end, end \in Nat,
           op' = [op EXCEPT !.spans = Tail(@)], body' = NoBody, ~Head(op.spans).verify,
           ~body.verify, body.pending = <<>>, body.i = Len(body.toks),
           end = body.pos + Len(body.toks),
           end = Head(op.spans).pos + Len(Head(op.spans).toks),
           logits' \in [Sessions -> Seq(Tokens)], mtpHist' \in [Sessions -> Seq(Tokens)],
           \A s \in Sessions \ {op.s} : logits'[s] = logits[s] /\ mtpHist'[s] = mtpHist[s],
           HostAt(end), logits'[op.s] = Upto(Aim, end), mtp => mtpHist'[op.s] = Upto(Aim, end),
           UNCHANGED <<mtp, fd, generation, open, gen, ckpt, valid, hostA, specA, up, backlog,
                       conns, toWorker, toCoord, wpc, wfd, wsess>>
    PROVE  PipeInv'
<1>1. TypeInv /\ SessionTypes /\ StageTypes /\ ControlTypes /\ Links /\ OpOK
  BY DEF PipeInv, TypeInv
<1>2. op.spans # <<>> /\ op.s \in Sessions /\ op \in OpType
  BY <1>1, OpHasSession DEF OpOK, ControlTypes
<1>3. /\ SpansOK' /\ StartPos' = end /\ Aim' = Aim /\ op' \in OpType /\ op'.s = op.s
      /\ op'.kind = op.kind /\ op'.input = op.input /\ (op.kind = "spec" => op'.spans # <<>>)
  BY <1>1, <1>2, TailSpans
<1>4. toWorker = <<>> /\ toCoord = <<>> /\ Handled = body.i
  BY AllAnswered
<1>5. TypeInv'
  <2>1. SessionTypes' /\ Links'
    BY <1>1 DEF SessionTypes, Links
  <2>2. StageTypes'
    BY <1>1 DEF StageTypes
  <2>3. ControlTypes'
    BY <1>1, <1>3, EmptyTypes DEF ControlTypes, Pcs
  <2>. QED BY <2>1, <2>2, <2>3 DEF TypeInv
<1>6. Resting'
  BY <1>3, OthersRest DEF Connected
<1>7. Speculates'
  <2>1. \A s \in Sessions : specA[s] = None
    BY DEF PipeInv, Speculates
  <2>. QED BY <2>1 DEF Speculates
<1>8. OpOK'
  BY <1>1, <1>3 DEF OpOK
<1>9. AtSpan'
  <2>1. (HostAt(StartPos) /\ HeadAt(StartPos) /\ LogitsAt(StartPos))'
    BY <1>3 DEF HostAt, HeadAt, LogitsAt
  <2>. QED BY <2>1 DEF AtSpan
<1>10. SpanInv'
  BY DEF SpanInv, BodySpan, Verifying, BlockSpan, Committing
<1>11. WireInv'
  <2>1. FramesOK'
    BY <1>4, SentNothingNext
  <2>2. Connected => WorkerAt(end, None)
    BY <1>4 DEF PipeInv, WireInv, WorkerFollows
  <2>3. WorkerFollows'
    BY <1>3, <2>2 DEF WorkerFollows, WorkerAt, Connected
  <2>. QED BY <2>1, <2>3 DEF WireInv
<1>. QED BY <1>5, <1>6, <1>7, <1>8, <1>9, <1>10, <1>11 DEF PipeInv

LEMMA BodyDoneKeeps == ASSUME PipeInv, BodyDone PROVE PipeInv'
<1>1. TypeInv /\ SessionTypes /\ StageTypes /\ ControlTypes /\ Links
  BY DEF PipeInv, TypeInv
<1>2. /\ pc = "body" /\ body.i = body.count /\ body.pending = <<>>
      /\ UNCHANGED <<mtp, fd, generation, open, gen, ckpt, valid, logits, hostA, specA, mtpHist,
                     up, backlog, conns, toWorker, toCoord, wpc, wfd, wsess>>
  BY DEF BodyDone, BodyFinished, engineVars, sessVars, stageVars, linkVars, workerVars
<1>3. toWorker = <<>> /\ toCoord = <<>> /\ Handled = body.i /\ Got = body.i
  BY <1>2, AllAnswered
<1>4. /\ body.toks \in Seq(Tokens) /\ Len(body.toks) \in Nat /\ body.toks # <<>> /\ body.pos \in Nat
      /\ Bounds /\ Head(op.spans).toks = body.toks /\ Head(op.spans).pos = body.pos
      /\ Head(op.spans).verify = body.verify /\ op.s \in Sessions
  BY <1>1, <1>2, BodyTypes, OpHasSession DEF PipeInv, SpanInv, BodySpan, Bounds
<1>5. CASE ~body.verify
  <2>. DEFINE end == body.pos + Len(body.toks)
  <2>1. pc' = "span" /\ op' = [op EXCEPT !.spans = Tail(@)] /\ body' = NoBody
    BY <1>5 DEF BodyDone
  <2>2. body.i = Len(body.toks) /\ HostAt(body.pos + body.lo + Len(body.buf))
        /\ HeadAt(end) /\ LogitsAt(end)
    BY <1>2, <1>3, <1>4, <1>5 DEF PipeInv, SpanInv, BodySpan, Bounds
  <2>3. body.pos + body.lo + Len(body.buf) = end
    <3>. DEFINE l == Len(body.toks)
                b == Len(body.buf)
    <3>1. /\ l \in Nat /\ b \in Nat /\ body.lo \in Nat /\ body.pos \in Nat /\ body.i = l
          /\ body.i <= body.lo + b /\ body.lo + b <= l
      BY <1>1, <1>4, <2>2, BodyTypes DEF Bounds
    <3>2. body.pos + body.lo + b = body.pos + l
      <4>. HIDE DEF l, b
      <4>. QED BY <3>1
    <3>. QED BY <3>2
  <2>4. end \in Nat /\ end # 0
    <3>1. Len(body.toks) # 0
      BY <1>4, EmptySeq
    <3>. QED BY <1>4, <3>1
  <2>5. /\ HostAt(end) /\ logits'[op.s] = Upto(Aim, end)
        /\ (mtp => mtpHist'[op.s] = Upto(Aim, end))
    BY <1>2, <2>2, <2>3, <2>4 DEF HeadAt, LogitsAt
  <2>6. logits' \in [Sessions -> Seq(Tokens)] /\ mtpHist' \in [Sessions -> Seq(Tokens)]
    BY <1>1, <1>2 DEF SessionTypes, StageTypes
  <2>7. end = body.pos + Len(body.toks)
        /\ end = Head(op.spans).pos + Len(Head(op.spans).toks) /\ ~Head(op.spans).verify
    BY <1>4, <1>5
  <2>. HIDE DEF end
  <2>8. PipeInv /\ pc \in {"body", "exchange"}
    BY <1>2
  <2>. QED BY ONLY <1>2, <1>5, <2>1, <2>2, <2>4, <2>5, <2>6, <2>7, <2>8, SpanEnds
<1>6. CASE body.verify
  <2>1. pc' = "commit" /\ op' = op /\ body' = body
    BY <1>6 DEF BodyDone
  <2>2. Aim' = Aim /\ StartPos' = StartPos
    BY <1>2, <2>1 DEF Aim, StartPos
  <2>3. TypeInv'
    BY <1>1, <1>2, <2>1 DEF TypeInv, SessionTypes, StageTypes, ControlTypes, Links, Pcs
  <2>4. Resting'
    BY <1>2, <2>1, OthersRest DEF Connected
  <2>5. Speculates'
    BY <1>2, <1>6, <2>1 DEF PipeInv, Speculates
  <2>6. OpOK'
    <3>1. SpansOK' = SpansOK
      BY <1>2, <2>1, <2>2 DEF SpansOK, SpanOK
    <3>. QED BY <1>2, <2>1, <2>2, <3>1 DEF PipeInv, OpOK
  <2>7. AtSpan'
    BY <2>1 DEF AtSpan
  <2>8. body.count > 0
    <3>1. body.i = Len(body.toks) \/ body.stopped
      BY <1>2, <1>4 DEF Bounds
    <3>2. Len(body.toks) > 0
      BY <1>4, EmptySeq
    <3>3. body.stopped => body.i > 0
      <4>. SUFFICES ASSUME body.stopped PROVE body.i > 0
        OBVIOUS
      <4>1. \E k \in 1 .. Got : TRUE
        BY <1>2, <1>6 DEF PipeInv, SpanInv, Verifying, Judged
      <4>2. body.i \in Nat
        BY <1>1, BodyTypes
      <4>. QED BY <1>3, <4>1, <4>2
    <3>. QED BY <1>2, <3>1, <3>2, <3>3
  <2>9. SpanInv'
    <3>1. Bounds'
      <4>1. Bounds' = Bounds
        BY <2>1, <2>2 DEF Bounds, Got, Cursor, ChunkOK
      <4>. QED BY <1>4, <4>1
    <3>2. Verifying'
      <4>1. Judged' = Judged /\ HostAt(body.pos + body.lo + Len(body.buf))' = HostAt(body.pos + body.lo + Len(body.buf))
            /\ HeadAt(body.pos)' = HeadAt(body.pos)
        BY <1>2, <2>1, <2>2 DEF Judged, RowsTo, Got, Cursor, HostAt, HeadAt, Refuted, Follows
      <4>. QED BY <1>2, <1>6, <2>1, <2>2, <4>1 DEF PipeInv, SpanInv, Verifying
    <3>. QED BY <1>2, <1>6, <2>1, <2>8, <3>1, <3>2 DEF SpanInv, BodySpan, BlockSpan, Committing
  <2>10. WireInv'
    <3>1. FramesOK'
      BY <1>2, <1>3, <2>1, SentNothingNext
    <3>2. Connected => WorkerAt(body.pos + body.count, body.pos)
      <4>1. body.i > 0
        BY <1>2, <2>8
      <4>. QED BY <1>2, <1>3, <1>6, <4>1 DEF PipeInv, WireInv, WorkerFollows
    <3>3. WorkerFollows'
      BY <1>2, <2>1, <2>2, <3>2 DEF WorkerFollows, WorkerAt, Connected
    <3>. QED BY <3>1, <3>3 DEF WireInv
  <2>. QED BY <2>3, <2>4, <2>5, <2>6, <2>7, <2>9, <2>10 DEF PipeInv
<1>. QED BY <1>5, <1>6

\* What follows the block has been evaluated as far as the next block goes.
LEMMA NextBlock ==
    ASSUME PipeInv, pc = "exchange", body.next # <<>>
    PROVE  LET here == body.pos + Len(body.toks)
               end == here + Len(body.next)
           IN  /\ Rest # <<>> /\ body.next = Seg(Aim, here, end) /\ end \in Nat /\ here \in Nat
               /\ end <= Head(op.spans).pos + Len(Head(op.spans).toks) /\ end <= Len(Aim)
               /\ Len(body.next) \in Nat \ {0} /\ hostA[op.s] = Upto(Aim, end)
               /\ Len(body.next) = Len(Rest) <=>
                     end = Head(op.spans).pos + Len(Head(op.spans).toks)
<1>. DEFINE here == body.pos + Len(body.toks)
            end == here + Len(body.next)
            last == Head(op.spans).pos + Len(Head(op.spans).toks)
            m == AtMost(LocalCap, Len(Rest))
<1>1. TypeInv
  BY DEF PipeInv
<1>2. /\ here \in Nat /\ last \in Nat /\ last <= Len(Aim) /\ here <= last
      /\ Aim \in Seq(Tokens) /\ Len(Aim) \in Nat
      /\ Rest = Seg(Aim, here, last) /\ Rest \in Seq(Tokens) /\ Len(Rest) = last - here
  <2>1. Head(op.spans).pos \in Nat /\ Len(Head(op.spans).toks) \in Nat
    BY BlockFacts
  <2>2. last \in Nat
    BY <2>1
  <2>. QED BY <2>2, BlockFacts
<1>3. Rest # <<>> /\ body.next = Upto(Rest, m) /\ HostAt(end)
  BY DEF PipeInv, SpanInv, BlockSpan
<1>4. Len(body.next) \in Nat \ {0}
  <2>1. body.next \in Seq(Tokens)
    BY <1>1, BodyTypes
  <2>. QED BY <2>1, LenProperties, EmptySeq
<1>. HIDE DEF here, last
<1>5. m \in Nat /\ m <= Len(Rest) /\ 0 <= m
  <2>1. Len(Rest) \in Nat
    BY <1>2, LenProperties
  <2>. QED BY <2>1, CapsAssumption DEF AtMost
<1>. HIDE DEF m
<1>6. Len(body.next) = m /\ body.next = Seg(Rest, 0, m)
  <2>1. Upto(Rest, m) = Seg(Rest, 0, m) /\ Len(Upto(Rest, m)) = m
    BY ONLY <1>2, <1>5, UptoFacts
  <2>. QED BY ONLY <1>3, <2>1
<1>7. end = here + m /\ end \in Nat /\ end <= last /\ end <= Len(Aim) /\ end # 0
      /\ (m = Len(Rest) <=> end = last)
  <2>1. end = here + m /\ m # 0
    BY <1>4, <1>6
  <2>. HIDE DEF end
  <2>. QED BY ONLY <1>2, <1>5, <2>1
<1>8. body.next = Seg(Aim, here, end)
  <2>1. 0 \in Nat /\ m <= last - here
    BY ONLY <1>2, <1>5
  <2>2. Seg(Seg(Aim, here, last), 0, m) = Seg(Aim, here + 0, here + m)
    BY ONLY <1>2, <1>5, <2>1, SegOfSeg
  <2>3. here + 0 = here
    BY <1>2
  <2>4. Seg(Rest, 0, m) = Seg(Seg(Aim, here, last), 0, m)
    BY ONLY <1>2
  <2>. QED BY ONLY <1>6, <1>7, <2>2, <2>3, <2>4
<1>9. hostA[op.s] = Upto(Aim, end)
  BY <1>3, <1>7 DEF HostAt
<1>. QED BY ONLY <1>2, <1>3, <1>4, <1>6, <1>7, <1>8, <1>9 DEF here, last

\* A block that has been exchanged.
LEMMA BlockThrough ==
    ASSUME PipeInv, pc = "exchange", body.exchange = "ok",
           IF mtp THEN Catchup(op.s, body.pos, body.rows) ELSE UNCHANGED mtpHist
    PROVE  LET here == body.pos + Len(body.toks)
           IN  /\ body.i = Len(body.toks) /\ body.pending = <<>> /\ toWorker = <<>> /\ toCoord = <<>>
               /\ here \in Nat /\ here <= Len(Aim) /\ here # 0
               /\ mtpHist' \in [Sessions -> Seq(Tokens)]
               /\ mtp => mtpHist'[op.s] = Upto(Aim, here)
               /\ \A s \in Sessions \ {op.s} : mtpHist'[s] = mtpHist[s]
               /\ Connected => WorkerAt(here, None)
               /\ body.final => body.rows[Len(body.rows)] = Upto(Aim, here)
<1>. DEFINE l == Len(body.toks)
            here == body.pos + l
<1>1. TypeInv /\ StageTypes /\ op.s \in Sessions
  BY OpHasSession DEF PipeInv, TypeInv
<1>2. /\ body.i = body.count /\ body.pending = <<>> /\ ~body.stopped /\ ~body.verify
      /\ BlockRows /\ HeadAt(body.pos) /\ Bounds
  BY DEF PipeInv, SpanInv, BlockSpan, BodyFinished
<1>3. body.i = l /\ body.pos \in Nat /\ l \in Nat /\ l # 0 /\ here <= Len(Aim)
  <2>1. body.toks \in Seq(Tokens) /\ body.pos \in Nat /\ body.toks # <<>>
    BY <1>1, <1>2, BodyTypes DEF Bounds
  <2>2. l \in Nat /\ l # 0
    BY <2>1, LenProperties, EmptySeq
  <2>. QED BY <1>2, <2>1, <2>2 DEF Bounds
<1>4. toWorker = <<>> /\ toCoord = <<>> /\ Handled = l /\ Got = l
  BY <1>2, <1>3, AllAnswered
<1>5. Aim \in Seq(Tokens) /\ Len(Aim) \in Nat /\ mtpHist \in [Sessions -> Seq(Tokens)]
  BY <1>1, AimFacts DEF StageTypes
<1>6. mtp => body.rows = RowsFrom(Aim, body.pos, l)
  BY <1>2, <1>4 DEF BlockRows, RowsTo
<1>7. Connected => WorkerAt(here, None)
  BY <1>2, <1>4 DEF PipeInv, WireInv, WorkerFollows
<1>8. body.final => body.rows[Len(body.rows)] = Upto(Aim, here)
  <2>1. CASE mtp
    <3>. DEFINE R == RowsFrom(Aim, body.pos, l)
    <3>1. Len(R) = l /\ \A k \in 1 .. l : R[k] = Upto(Aim, body.pos + k)
      <4>. DEFINE b == body.pos
      <4>1. b \in Nat /\ l \in Nat /\ b + l <= Len(Aim) /\ Aim \in Seq(Tokens)
        BY <1>3, <1>5
      <4>. HIDE DEF b, l
      <4>2. /\ Len(RowsFrom(Aim, b, l)) = l
            /\ \A k \in 1 .. l : RowsFrom(Aim, b, l)[k] = Upto(Aim, b + k)
        BY ONLY <4>1, RowsFacts
      <4>. QED BY <4>2 DEF b
    <3>2. l \in 1 .. l
      BY <1>3
    <3>. HIDE DEF R, l
    <3>3. R[Len(R)] = Upto(Aim, body.pos + l)
      BY <3>1, <3>2
    <3>. QED BY <1>6, <2>1, <3>3 DEF R
  <2>2. CASE ~mtp
    BY <1>2, <1>4, <2>2 DEF BlockRows
  <2>. QED BY <2>1, <2>2
<1>. HIDE DEF l
<1>9. /\ mtpHist' \in [Sessions -> Seq(Tokens)]
      /\ mtp => mtpHist'[op.s] = Upto(Aim, here)
      /\ \A s \in Sessions \ {op.s} : mtpHist'[s] = mtpHist[s]
  <2>1. CASE mtp
    <3>1. Catchup(op.s, body.pos, body.rows) /\ body.rows = RowsFrom(Aim, body.pos, l)
      BY <1>6, <2>1
    <3>. QED BY ONLY <1>1, <1>2, <1>3, <2>1, <3>1, HeadGrows
  <2>2. CASE ~mtp
    BY <1>5, <2>2
  <2>. QED BY <2>1, <2>2
<1>10. here \in Nat /\ here # 0
  BY <1>3
<1>. QED BY ONLY <1>2, <1>3, <1>4, <1>7, <1>8, <1>9, <1>10 DEF l

LEMMA ExchangeJoinedKeeps == ASSUME PipeInv, ExchangeJoined PROVE PipeInv'
<1>. DEFINE here == body.pos + Len(body.toks)
            sp == Head(op.spans)
            last == sp.pos + Len(sp.toks)
<1>1. TypeInv /\ SessionTypes /\ StageTypes /\ op.s \in Sessions
  BY OpHasSession DEF PipeInv, TypeInv, ExchangeJoined
<1>2. /\ pc = "exchange" /\ body.exchange = "ok" /\ (Rest = <<>> \/ body.next # <<>>)
      /\ IF mtp THEN Catchup(op.s, body.pos, body.rows) ELSE UNCHANGED mtpHist
      /\ UNCHANGED <<mtp, fd, generation, open, gen, ckpt, valid, hostA, specA,
                     up, backlog, conns, toWorker, toCoord, wpc, wfd, wsess>>
  BY DEF ExchangeJoined, engineVars, linkVars, workerVars
<1>3. /\ body.i = Len(body.toks) /\ body.pending = <<>> /\ toWorker = <<>> /\ toCoord = <<>>
      /\ here \in Nat /\ here <= Len(Aim) /\ here # 0
      /\ mtpHist' \in [Sessions -> Seq(Tokens)]
      /\ mtp => mtpHist'[op.s] = Upto(Aim, here)
      /\ \A s \in Sessions \ {op.s} : mtpHist'[s] = mtpHist[s]
      /\ Connected => WorkerAt(here, None)
      /\ body.final => body.rows[Len(body.rows)] = Upto(Aim, here)
  BY <1>2, BlockThrough
<1>4. /\ op.spans # <<>> /\ ~sp.verify /\ sp.pos \in Nat /\ Len(sp.toks) \in Nat /\ last \in Nat
      /\ here <= last /\ last <= Len(Aim) /\ Rest \in Seq(Tokens) /\ Len(Rest) = last - here
      /\ Aim \in Seq(Tokens) /\ Len(Aim) \in Nat /\ sp.pos <= body.pos /\ body.pos \in Nat
      /\ (body.final <=> here = last) /\ ~body.verify /\ Len(body.toks) \in Nat
  <2>1. sp.pos \in Nat /\ Len(sp.toks) \in Nat /\ body.pos \in Nat /\ Len(body.toks) \in Nat
    BY <1>1, <1>2, BlockFacts, BodyTypes
  <2>2. last \in Nat
    BY <2>1
  <2>. QED BY <1>2, <2>1, <2>2, BlockFacts DEF PipeInv, SpanInv, BlockSpan
<1>5. CASE Rest # <<>>
  <2>. DEFINE end == here + Len(body.next)
  <2>1. body' = Block(body.next, here, Len(body.next) = Len(Rest)) /\ pc' = pc /\ op' = op
        /\ logits' = logits
    BY <1>5 DEF ExchangeJoined
  <2>2. /\ body.next = Seg(Aim, here, end) /\ end \in Nat
        /\ end <= last /\ end <= Len(Aim) /\ Len(body.next) \in Nat \ {0}
        /\ hostA[op.s] = Upto(Aim, end) /\ (Len(body.next) = Len(Rest) <=> end = last)
    BY <1>2, <1>5, NextBlock
  <2>3. /\ pc' = "exchange" /\ pc \in {"span", "exchange"} /\ body.next \in Seq(Tokens)
        /\ body.next # <<>> /\ (Len(body.next) = Len(Rest)) \in BOOLEAN
    BY <1>1, <1>2, <1>5, <2>1, BodyTypes
  <2>4. sp.pos <= here /\ Len(body.next) = end - here
    <3>1. sp.pos <= here
      BY <1>4
    <3>2. Len(body.next) = end - here
      <4>. HIDE DEF here
      <4>. QED BY <1>3, <2>2
    <3>. QED BY <3>1, <3>2
  <2>5. hostA' \in [Sessions -> Seq(Tokens \cup {Dirty})] /\ hostA'[op.s] = Upto(Aim, end)
        /\ \A s \in Sessions \ {op.s} : hostA'[s] = hostA[s] /\ mtpHist'[s] = mtpHist[s]
    BY <1>1, <1>2, <1>3, <2>2 DEF StageTypes
  <2>6. /\ PipeInv /\ op.spans # <<>> /\ ~sp.verify
        /\ UNCHANGED <<op, mtp, fd, generation, open, gen, ckpt, valid, logits, specA, up, backlog,
                       conns, toWorker, toCoord, wpc, wfd, wsess>>
    BY <1>2, <1>4, <2>1
  <2>7. mtp => here = 0 \/ mtpHist'[op.s] = Upto(Aim, here)
    BY <1>3
  <2>. HIDE DEF here, end
  <2>. QED BY ONLY <1>3, <2>1, <2>2, <2>3, <2>4, <2>5, <2>6, <2>7, BlockBegins DEF sp, last
<1>6. CASE Rest = <<>>
  <2>1. /\ logits' = [logits EXCEPT ![op.s] = body.rows[Len(body.rows)]] /\ pc' = "span"
        /\ op' = [op EXCEPT !.spans = Tail(@)] /\ body' = NoBody
    BY <1>6 DEF ExchangeJoined
  <2>2. here = last
    <3>1. Len(Rest) = 0
      BY <1>6
    <3>. HIDE DEF here, last
    <3>. QED BY <1>3, <1>4, <3>1
  <2>3. body.rows[Len(body.rows)] = Upto(Aim, here) /\ Upto(Aim, here) \in Seq(Tokens)
    <3>1. Upto(Aim, here) \in Seq(Tokens)
      <4>. HIDE DEF here
      <4>. QED BY <1>3, <1>4, UptoFacts
    <3>. QED BY <1>3, <1>4, <2>2, <3>1
  <2>4. /\ logits' \in [Sessions -> Seq(Tokens)] /\ logits'[op.s] = Upto(Aim, here)
        /\ \A s \in Sessions \ {op.s} : logits'[s] = logits[s]
    <3>. HIDE DEF here
    <3>. QED BY <1>1, <2>1, <2>3 DEF SessionTypes
  <2>5. HostAt(here)
    <3>1. HostAt(here + Len(body.next)) /\ body.next = <<>>
      BY <1>2, <1>6 DEF PipeInv, SpanInv, BlockSpan
    <3>2. here + Len(body.next) = here
      <4>1. Len(body.next) = 0
        BY <3>1
      <4>. QED BY <1>3, <4>1
    <3>. QED BY <3>1, <3>2
  <2>6. /\ \A s \in Sessions \ {op.s} : logits'[s] = logits[s] /\ mtpHist'[s] = mtpHist[s]
        /\ PipeInv /\ pc \in {"body", "exchange"} /\ ~sp.verify /\ here = body.pos + Len(body.toks)
    BY <1>2, <1>3, <1>4, <2>4
  <2>. HIDE DEF here
  <2>. QED BY ONLY <1>2, <1>3, <1>4, <2>1, <2>2, <2>4, <2>5, <2>6, SpanEnds DEF last, sp
<1>. QED BY <1>5, <1>6

\* A chunk more is on its way.
LEMMA CursorGrows ==
    ASSUME TypeInv, NEW p, p \in Chunks, body'.pending = Append(body.pending, p), p.index = body.i
    PROVE  /\ \A c \in 0 .. Len(body.pending) : Cursor(c)' = Cursor(c)
           /\ \A c : c = Len(body.pending) + 1 => Cursor(c)' = body'.i
           /\ Len(body'.pending) = Len(body.pending) + 1
           /\ body'.pending \in Seq(Chunks)
           /\ body'.pending[Len(body.pending) + 1] = p
           /\ \A k \in 1 .. Len(body.pending) : body'.pending[k] = body.pending[k]
<1>. DEFINE L == Len(body.pending)
            Q == body'.pending
<1>1. body.pending \in Seq(Chunks) /\ L \in Nat
  BY BodyTypes
<1>2. /\ Q \in Seq(Chunks) /\ Len(Q) = L + 1 /\ Q[L + 1] = p
      /\ \A k \in 1 .. L : Q[k] = body.pending[k]
  BY <1>1, AppendProperties
<1>3. \A c : Cursor(c)' = IF c < Len(Q) THEN Q[c + 1].index ELSE body'.i
  BY DEF Cursor
<1>4. \A c : Cursor(c) = IF c < L THEN body.pending[c + 1].index ELSE body.i
  BY DEF Cursor
<1>. HIDE DEF L, Q
<1>5. ASSUME NEW c \in 0 .. L PROVE Cursor(c)' = Cursor(c)
  <2>1. CASE c = L
    <3>1. c < Len(Q) /\ ~(c < L)
      BY <1>1, <1>2, <2>1
    <3>. QED BY <1>2, <1>3, <1>4, <2>1, <3>1
  <2>2. CASE c # L
    <3>1. c < Len(Q) /\ c < L /\ c + 1 \in 1 .. L
      BY <1>1, <1>2, <2>2
    <3>. QED BY <1>2, <1>3, <1>4, <3>1
  <2>. QED BY <2>1, <2>2
<1>6. \A c : c = L + 1 => Cursor(c)' = body'.i
  <2>1. ~(L + 1 < Len(Q))
    BY <1>1, <1>2
  <2>. QED BY <1>3, <2>1
<1>. QED BY <1>2, <1>5, <1>6 DEF L, Q

LEMMA FrameSent ==
    ASSUME PipeInv, pc \in {"body", "exchange"}, NEW p, p \in Chunks, p.index = body.i,
           body'.pending = Append(body.pending, p),
           body'.toks = body.toks, body'.pos = body.pos, body'.final = body.final,
           body'.verify = body.verify, pc' = pc, op' = op, mtp' = mtp, ckpt' = ckpt,
           ChunkFrame(p) \in Asked, toWorker' = Append(toWorker, ChunkFrame(p)),
           toCoord' = toCoord, Connected' => Connected
    PROVE  FramesOK'
<1>. DEFINE L == Len(body.pending)
            answer(q) == Result(op.s, q.end, RowsOf(q))
<1>1. TypeInv /\ FramesOK /\ toWorker \in Seq(Asked) /\ toCoord \in Seq(Answered)
  BY DEF PipeInv, TypeInv, ControlTypes, WireInv
<1>2. L \in Nat /\ Len(body'.pending) = L + 1 /\ body'.pending \in Seq(Chunks)
      /\ body'.pending[L + 1] = p /\ \A k \in 1 .. L : body'.pending[k] = body.pending[k]
  BY <1>1, BodyTypes, CursorGrows
<1>3. DOMAIN body'.pending = 1 .. L + 1
  BY <1>2, LenProperties
<1>4. Aim' = Aim
  BY DEF Aim
<1>5. \A q : ChunkFrame(q)' = ChunkFrame(q) /\ RowsOf(q)' = RowsOf(q)
  BY <1>4 DEF ChunkFrame, FlagsOf, RowsOf, LastChunk
<1>6. Sent' = [k \in 1 .. L + 1 |-> ChunkFrame(body'.pending[k])]
  BY <1>3, <1>5 DEF Sent
<1>7. Answers' = [k \in 1 .. L + 1 |-> answer(body'.pending[k])]
  BY <1>3, <1>5 DEF Answers
<1>. DEFINE A == {ChunkFrame(q) : q \in Chunks}
            B == {answer(q) : q \in Chunks}
            f == ChunkFrame(p)
            g == answer(p)
<1>8. \A k \in 1 .. L : body.pending[k] \in Chunks
  BY <1>1, BodyTypes
<1>9. DOMAIN body.pending = 1 .. L
  BY <1>1, BodyTypes, LenProperties
<1>10. /\ Sent = [k \in 1 .. L |-> ChunkFrame(body.pending[k])]
       /\ Answers = [k \in 1 .. L |-> answer(body.pending[k])]
  BY <1>9 DEF Sent, Answers
<1>11. Sent \in [1 .. L -> A] /\ Answers \in [1 .. L -> B] /\ f \in A /\ g \in B
  BY <1>8, <1>10
<1>. HIDE DEF A, B, f, g, L, answer
<1>12. Sent \in Seq(A) /\ Len(Sent) = L /\ Answers \in Seq(B) /\ Len(Answers) = L
  <2>1. L \in Nat
    BY <1>2
  <2>. QED BY ONLY <1>11, <2>1
<1>13. Sent' = Append(Sent, f)
  <2>1. Append(Sent, f) \in Seq(A) /\ Len(Append(Sent, f)) = L + 1 /\ Append(Sent, f)[L + 1] = f
        /\ \A k \in 1 .. L : Append(Sent, f)[k] = Sent[k]
    BY <1>11, <1>12, AppendProperties
  <2>. DEFINE Z == Append(Sent, f)
  <2>2. Z = [k \in 1 .. L + 1 |-> Z[k]]
    <3>1. Z \in Seq(A) /\ Len(Z) = L + 1
      BY <2>1
    <3>. HIDE DEF Z
    <3>2. DOMAIN Z = 1 .. L + 1 /\ Z = [k \in DOMAIN Z |-> Z[k]]
      BY ONLY <3>1, LenProperties
    <3>. QED BY ONLY <3>2
  <2>3. \A k \in 1 .. L + 1 : Append(Sent, f)[k] = ChunkFrame(body'.pending[k])
    <3>. TAKE k \in 1 .. L + 1
    <3>1. k = L + 1 \/ k \in 1 .. L
      BY <1>2
    <3>2. CASE k = L + 1
      BY <1>2, <2>1, <3>2 DEF f
    <3>3. CASE k \in 1 .. L
      BY <1>2, <1>10, <2>1, <3>3
    <3>. QED BY <3>1, <3>2, <3>3
  <2>. QED BY <1>6, <2>2, <2>3
<1>14. Answers' = Append(Answers, g)
  <2>1. Append(Answers, g) \in Seq(B) /\ Len(Append(Answers, g)) = L + 1 /\ Append(Answers, g)[L + 1] = g
        /\ \A k \in 1 .. L : Append(Answers, g)[k] = Answers[k]
    BY <1>11, <1>12, AppendProperties
  <2>. DEFINE Z == Append(Answers, g)
  <2>2. Z = [k \in 1 .. L + 1 |-> Z[k]]
    <3>1. Z \in Seq(B) /\ Len(Z) = L + 1
      BY <2>1
    <3>. HIDE DEF Z
    <3>2. DOMAIN Z = 1 .. L + 1 /\ Z = [k \in DOMAIN Z |-> Z[k]]
      BY ONLY <3>1, LenProperties
    <3>. QED BY ONLY <3>2
  <2>3. \A k \in 1 .. L + 1 : Append(Answers, g)[k] = answer(body'.pending[k])
    <3>. TAKE k \in 1 .. L + 1
    <3>1. k = L + 1 \/ k \in 1 .. L
      BY <1>2
    <3>2. CASE k = L + 1
      BY <1>2, <2>1, <3>2 DEF g
    <3>3. CASE k \in 1 .. L
      BY <1>2, <1>10, <2>1, <3>3
    <3>. QED BY <3>1, <3>2, <3>3
  <2>. QED BY <1>7, <2>2, <2>3
<1>15. Matches(Append(Sent, f), Append(Answers, g), Append(toWorker, f), toCoord)
  <2>1. Matches(Sent, Answers, toWorker, toCoord) /\ f \in Asked /\ Len(Answers) = Len(Sent)
    BY <1>1, <1>12 DEF FramesOK, f
  <2>. QED BY ONLY <1>1, <1>11, <1>12, <2>1, MatchesSend
<1>16. Matches(Sent, Answers, toWorker, toCoord)'
  <2>1. toWorker' = Append(toWorker, f)
    BY DEF f
  <2>. QED BY <1>13, <1>14, <1>15, <2>1 DEF Matches
<1>. QED BY <1>1, <1>16 DEF FramesOK

\* What is evaluated, if anything, and what of it goes out.
Chosen(fresh, buf, lo, n) ==
    /\ fresh \in BOOLEAN /\ fresh = (body.i = body.lo + Len(body.buf))
    /\ buf = IF fresh THEN SubSeq(body.toks, body.i + 1, AtMost(body.count, body.i + Chunk))
                      ELSE body.buf
    /\ lo = (IF fresh THEN body.i ELSE body.lo)
    /\ n = AtMost(lo + Len(buf) - body.i, Chunk)

\* The chunk that is issued next.
LEMMA ChunkFacts ==
    ASSUME PipeInv, pc \in {"body", "exchange"}, CanIssue, NEW fresh, NEW buf, NEW lo, NEW n,
           Chosen(fresh, buf, lo, n)
    PROVE  /\ ~body.stopped /\ body.count = Len(body.toks) /\ body.i < Len(body.toks)
           /\ lo \in Nat /\ buf \in Seq(Tokens) /\ Len(buf) \in Nat /\ n \in Nat \ {0}
           /\ lo <= body.i /\ body.i + n <= lo + Len(buf) /\ lo + Len(buf) <= Len(body.toks)
           /\ buf = Seg(body.toks, lo, lo + Len(buf))
           /\ SubSeq(buf, body.i - lo + 1, body.i - lo + n)
                = Seg(Aim, body.pos + body.i, body.pos + body.i + n)
           /\ body.verify => n = 1
           /\ pc = "exchange" => ~fresh
<1>. USE DEF Chosen
<1>. DEFINE i == body.i
            toks == body.toks
            l == Len(toks)
            b == Len(body.buf)
            e == lo + Len(buf)
            P == body.pos
<1>1. TypeInv /\ Bounds /\ op.s \in Sessions
  BY OpHasSession DEF PipeInv, SpanInv
<1>2. toks \in Seq(Tokens) /\ l \in Nat /\ b \in Nat /\ i \in Nat /\ P \in Nat /\ body.lo \in Nat
      /\ body.buf \in Seq(Tokens)
  BY <1>1, BodyTypes
<1>3. Aim \in Seq(Tokens) /\ Len(Aim) \in Nat
  BY <1>1, AimFacts
<1>4. ~body.stopped /\ body.count = l /\ i < l
  <2>1. i < body.count
    BY DEF CanIssue
  <2>2. body.count \in Nat
    BY <1>1, BodyTypes
  <2>3. ~body.stopped
    BY <1>1, <1>2, <2>1, <2>2 DEF Bounds
  <2>. QED BY <1>1, <2>1, <2>3 DEF Bounds
<1>5. /\ body.lo <= i /\ i <= body.lo + b /\ body.lo + b <= l
      /\ body.buf = Seg(toks, body.lo, body.lo + b) /\ toks = Seg(Aim, P, P + l) /\ P + l <= Len(Aim)
  BY <1>1 DEF Bounds
<1>6. Chunk \in Nat \ {0} /\ (body.verify => Chunk = 1)
  BY CapsAssumption DEF Chunk, AtMost
<1>. HIDE DEF i, toks, l, b, P
<1>7. /\ lo \in Nat /\ buf \in Seq(Tokens) /\ Len(buf) \in Nat /\ lo <= i /\ i < e /\ e <= l
      /\ buf = Seg(toks, lo, e)
  <2>1. CASE fresh
    <3>. DEFINE m == AtMost(l, i + Chunk)
    <3>1. m \in Nat /\ i < m /\ m <= l
      BY <1>2, <1>4, <1>6 DEF AtMost
    <3>2. buf = Seg(toks, i, m) /\ lo = i
      BY <1>4, <2>1 DEF i, toks, Seg
    <3>. HIDE DEF m
    <3>3. buf \in Seq(Tokens) /\ Len(buf) = m - i
      <4>1. toks \in Seq(Tokens) /\ i \in Nat /\ m \in Nat /\ i <= m /\ m <= Len(toks)
        BY <1>2, <3>1 DEF l
      <4>2. Seg(toks, i, m) \in Seq(Tokens) /\ Len(Seg(toks, i, m)) = m - i
        BY ONLY <4>1, SegFacts
      <4>. QED BY ONLY <3>2, <4>2
    <3>4. e = m /\ Len(buf) \in Nat
      <4>. DEFINE c == Len(buf)
      <4>1. c = m - i /\ lo = i /\ e = lo + c
        BY <3>2, <3>3
      <4>. HIDE DEF c, e
      <4>2. e = m /\ c \in Nat
        BY ONLY <1>2, <3>1, <4>1
      <4>. QED BY <4>2 DEF c
    <3>. HIDE DEF e
    <3>. QED BY ONLY <1>2, <3>1, <3>2, <3>3, <3>4
  <2>2. CASE ~fresh
    <3>1. buf = body.buf /\ lo = body.lo /\ i # body.lo + b /\ Len(buf) = b
      BY <2>2 DEF i, b
    <3>2. e = body.lo + b
      BY <3>1
    <3>. HIDE DEF e
    <3>. QED BY ONLY <1>2, <1>5, <3>1, <3>2
  <2>3. fresh \/ ~fresh
    OBVIOUS
  <2>. QED BY ONLY <2>1, <2>2, <2>3
<1>8. n \in Nat \ {0} /\ i + n <= e /\ n <= Chunk
  <2>. DEFINE r == lo + Len(buf) - i
  <2>1. r \in Nat \ {0} /\ i + r = e
    <3>. DEFINE c == Len(buf)
    <3>1. lo \in Nat /\ c \in Nat /\ i < lo + c /\ e = lo + c /\ r = lo + c - i
      BY <1>7
    <3>. HIDE DEF c, e, r
    <3>. QED BY ONLY <1>2, <3>1
  <2>2. n = AtMost(r, Chunk)
    BY DEF i
  <2>. HIDE DEF r, e
  <2>3. e \in Nat
    BY <1>2, <2>1
  <2>. QED BY ONLY <1>2, <1>6, <2>1, <2>2, <2>3 DEF AtMost
<1>9. SubSeq(buf, i - lo + 1, i - lo + n) = Seg(Aim, P + i, P + i + n)
  <2>. DEFINE x == i - lo
              y == x + n
  <2>0. e \in Nat
    BY <1>7
  <2>1. /\ x \in Nat /\ y \in Nat /\ x <= y /\ y <= e - lo /\ lo + x = i /\ lo + y = i + n
        /\ i + n \in Nat /\ i <= i + n /\ i + n <= l /\ lo <= e /\ e <= l
    <3>. HIDE DEF e
    <3>. QED BY ONLY <1>2, <1>7, <1>8, <2>0
  <2>2. l = Len(toks)
    BY DEF l
  <2>3. SubSeq(buf, i - lo + 1, i - lo + n) = Seg(buf, x, y)
    BY DEF Seg
  <2>. HIDE DEF e, x, y
  <2>4. Seg(buf, x, y) = Seg(toks, lo + x, lo + y)
    <3>1. e <= Len(toks)
      BY <2>1, <2>2
    <3>2. Seg(Seg(toks, lo, e), x, y) = Seg(toks, lo + x, lo + y)
      BY ONLY <1>2, <1>7, <2>0, <2>1, <3>1, SegOfSeg
    <3>. QED BY ONLY <1>7, <3>2
  <2>5. Seg(toks, i, i + n) = Seg(Aim, P + i, P + (i + n))
    <3>. DEFINE z == P + l
                j == i + n
    <3>1. z \in Nat /\ P <= z /\ j \in Nat /\ i <= j /\ j <= z - P /\ z <= Len(Aim)
      BY ONLY <1>2, <1>5, <2>1, <1>3, <1>8
    <3>. HIDE DEF z, j
    <3>2. Seg(Seg(Aim, P, z), i, j) = Seg(Aim, P + i, P + j)
      BY ONLY <1>2, <1>3, <3>1, SegOfSeg
    <3>3. toks = Seg(Aim, P, z)
      BY <1>5 DEF z
    <3>. QED BY ONLY <3>2, <3>3 DEF j
  <2>6. P + (i + n) = P + i + n
    BY ONLY <1>2, <1>8
  <2>. QED BY ONLY <2>1, <2>3, <2>4, <2>5, <2>6
<1>10. pc = "exchange" => ~fresh
  <2>. SUFFICES ASSUME pc = "exchange" PROVE ~fresh
    OBVIOUS
  <2>1. body.lo = 0 /\ body.buf = body.toks
    BY DEF PipeInv, SpanInv, BlockSpan
  <2>2. body.lo + b = l
    BY <1>2, <2>1 DEF b, l, toks
  <2>3. fresh <=> i = body.lo + b
    BY DEF i, b
  <2>. QED BY <1>2, <1>4, <2>2, <2>3
<1>11. body.verify => n = 1
  BY ONLY <1>6, <1>8
<1>. QED BY ONLY <1>4, <1>7, <1>8, <1>9, <1>10, <1>11 DEF i, toks, l, P, e

Issues(fresh, buf, lo, n, last, p) ==
    /\ last = (body.i + n = body.count /\ body.final)
    /\ p = [end |-> body.pos + body.i + n, n |-> n, index |-> body.i]
    /\ IF fresh THEN EvalA(op.s, body.pos + body.i, buf) ELSE UNCHANGED hostA
    /\ toWorker' = Append(toWorker,
                          Work(op.s, body.pos + body.i,
                               SubSeq(buf, body.i - lo + 1, body.i - lo + n),
                               Flags(body.pos + body.i, last)))
    /\ body' = [body EXCEPT !.buf = buf, !.lo = lo, !.i = body.i + n, !.io = SendMode,
                            !.pending = Append(@, p)]

\* A chunk is issued.
LEMMA ChunkIssued ==
    ASSUME PipeInv, pc \in {"body", "exchange"}, Exchanging, CanIssue,
           NEW fresh, NEW buf, NEW lo, NEW n, NEW last, NEW p, Chosen(fresh, buf, lo, n),
           Issues(fresh, buf, lo, n, last, p),
           UNCHANGED <<pc, op, mtp, fd, generation, open, gen, ckpt, valid, logits, specA, mtpHist,
                       up, backlog, conns, toCoord, wpc, wfd, wsess>>
    PROVE  PipeInv'
<1>. DEFINE i == body.i
            P == body.pos
            L == Len(body.pending)
            l == Len(body.toks)
<1>1. TypeInv /\ SessionTypes /\ StageTypes /\ ControlTypes /\ Links /\ Bounds /\ FramesOK
  BY DEF PipeInv, TypeInv, SpanInv, WireInv
<1>2. op.s \in Sessions /\ Aim \in Seq(Tokens) /\ Len(Aim) \in Nat
  BY <1>1, OpHasSession, AimFacts
<1>3. /\ ~body.stopped /\ body.count = Len(body.toks) /\ body.i < Len(body.toks)
      /\ lo \in Nat /\ buf \in Seq(Tokens) /\ Len(buf) \in Nat /\ n \in Nat \ {0}
      /\ lo <= body.i /\ body.i + n <= lo + Len(buf) /\ lo + Len(buf) <= Len(body.toks)
      /\ buf = Seg(body.toks, lo, lo + Len(buf))
      /\ SubSeq(buf, body.i - lo + 1, body.i - lo + n)
           = Seg(Aim, body.pos + body.i, body.pos + body.i + n)
      /\ body.verify => n = 1
      /\ pc = "exchange" => ~fresh
  <2>1. PipeInv /\ pc \in {"body", "exchange"} /\ CanIssue /\ Chosen(fresh, buf, lo, n)
    OBVIOUS
  <2>. QED BY ONLY <2>1, ChunkFacts
<1>0. /\ fresh \in BOOLEAN /\ (fresh => lo = i /\ i = body.lo + Len(body.buf))
      /\ (~fresh => lo = body.lo /\ buf = body.buf)
      /\ last = (i + n = body.count /\ body.final)
      /\ p = [end |-> P + i + n, n |-> n, index |-> i]
      /\ (fresh => EvalA(op.s, P + i, buf)) /\ (~fresh => hostA' = hostA)
      /\ toWorker' = Append(toWorker, Work(op.s, P + i, SubSeq(buf, i - lo + 1, i - lo + n),
                                           Flags(P + i, last)))
      /\ body' = [body EXCEPT !.buf = buf, !.lo = lo, !.i = i + n, !.io = SendMode,
                              !.pending = Append(@, p)]
  BY DEF Chosen, Issues
<1>4. i \in Nat /\ P \in Nat /\ L \in Nat /\ l \in Nat /\ body.pending \in Seq(Chunks)
      /\ body \in BodyType /\ body.lo \in Nat
  BY <1>1, BodyTypes DEF ControlTypes
<1>5. p.end = P + i + n /\ p.n = n /\ p.index = i /\ p \in Chunks
  <2>1. P + i + n \in Nat
    <3>1. P \in Nat /\ i \in Nat /\ n \in Nat
      BY <1>3, <1>4
    <3>. HIDE DEF P, i
    <3>. QED BY ONLY <3>1
  <2>. QED BY <1>0, <1>3, <1>4, <2>1 DEF Chunks
<1>6. /\ \A c \in 0 .. L : Cursor(c)' = Cursor(c)
      /\ \A c : c = L + 1 => Cursor(c)' = body'.i
      /\ Len(body'.pending) = L + 1 /\ body'.pending \in Seq(Chunks)
      /\ body'.pending[L + 1] = p
      /\ \A k \in 1 .. L : body'.pending[k] = body.pending[k]
      /\ body'.pending = Append(body.pending, p)
  <2>1. body'.pending = Append(body.pending, p)
    BY <1>0, <1>4 DEF BodyType
  <2>2. TypeInv /\ p \in Chunks /\ p.index = body.i
    BY <1>1, <1>5
  <2>3. /\ \A c \in 0 .. Len(body.pending) : Cursor(c)' = Cursor(c)
        /\ \A c : c = Len(body.pending) + 1 => Cursor(c)' = body'.i
        /\ Len(body'.pending) = Len(body.pending) + 1 /\ body'.pending \in Seq(Chunks)
        /\ body'.pending[Len(body.pending) + 1] = p
        /\ \A k \in 1 .. Len(body.pending) : body'.pending[k] = body.pending[k]
    BY ONLY <2>1, <2>2, CursorGrows
  <2>. QED BY ONLY <2>1, <2>3
<1>7. /\ body' \in BodyType /\ body'.toks = body.toks /\ body'.pos = P /\ body'.i = i + n
      /\ body'.count = body.count /\ body'.final = body.final /\ body'.verify = body.verify
      /\ body'.lo = lo /\ body'.buf = buf /\ body'.stopped = body.stopped
      /\ body'.rows = body.rows /\ body'.exchange = body.exchange /\ body'.next = body.next
  <2>1. SendMode \in {"both", "send"}
    BY DEF SendMode
  <2>2. i + n \in Nat
    <3>1. i \in Nat /\ n \in Nat
      BY <1>3, <1>4
    <3>. HIDE DEF i
    <3>. QED BY ONLY <3>1
  <2>3. /\ body'.toks = body.toks /\ body'.pos = P /\ body'.i = i + n
        /\ body'.count = body.count /\ body'.final = body.final /\ body'.verify = body.verify
        /\ body'.lo = lo /\ body'.buf = buf /\ body'.stopped = body.stopped
        /\ body'.rows = body.rows /\ body'.exchange = body.exchange /\ body'.next = body.next
    BY <1>0, <1>4 DEF BodyType
  <2>4. body' \in BodyType
    <3>. DEFINE Q == Append(body.pending, p)
                j == i + n
                m == SendMode
    <3>1. /\ Q \in Seq(Chunks) /\ j \in Nat /\ m \in {"none", "send", "join", "both"}
          /\ lo \in Nat /\ buf \in Seq(Tokens) /\ body \in BodyType
          /\ body' = [body EXCEPT !.buf = buf, !.lo = lo, !.i = j, !.io = m, !.pending = Q]
      BY <1>0, <1>3, <1>4, <1>6, <2>1, <2>2
    <3>. HIDE DEF Q, j, m
    <3>. QED BY ONLY <3>1 DEF BodyType
  <2>. QED BY ONLY <2>3, <2>4
<1>8. Aim' = Aim /\ StartPos' = StartPos /\ Rest' = Rest
  BY <1>7 DEF Aim, StartPos, Rest
<1>9. SubSeq(buf, i - lo + 1, i - lo + n) = Seg(Aim, P + i, p.end) /\ Flags(P + i, last) = FlagsOf(p)
  <2>1. last <=> LastChunk(p)
    <3>1. i + n = l <=> P + i + n = P + l
      <4>. HIDE DEF i, P, l
      <4>1. P \in Nat /\ i \in Nat /\ n \in Nat /\ l \in Nat
        BY <1>3, <1>4
      <4>. HIDE DEF i, P, l
      <4>. QED BY ONLY <4>1
    <3>. QED BY <1>0, <1>3, <1>5, <3>1 DEF LastChunk
  <2>2. last \in BOOLEAN /\ p.index = i
    BY <1>0, <1>4, <1>5 DEF BodyType
  <2>3. Flags(P + i, last) = FlagsOf(p)
    BY <2>1, <2>2 DEF Flags, FlagsOf
  <2>. QED BY <1>3, <1>5, <2>3
<1>10. toWorker' = Append(toWorker, ChunkFrame(p)) /\ ChunkFrame(p) \in Asked
  <2>1. toWorker' = Append(toWorker, ChunkFrame(p))
    BY <1>0, <1>5, <1>9 DEF ChunkFrame
  <2>2. Seg(Aim, P + i, p.end) \in Seq(Tokens)
    <3>. DEFINE a == P + i
                z == P + i + n
    <3>1. P + l <= Len(Aim)
      BY <1>1 DEF Bounds
    <3>2. i + n <= l
      <4>. DEFINE c == Len(buf)
      <4>1. i + n <= lo + c /\ lo + c <= l /\ c \in Nat
        BY <1>3
      <4>. HIDE DEF i, l, c
      <4>. QED BY ONLY <1>3, <1>4, <4>1
    <3>3. a \in Nat /\ z \in Nat /\ a <= z /\ z <= Len(Aim)
      <4>. HIDE DEF i, P, l
      <4>. QED BY ONLY <1>2, <1>3, <1>4, <3>1, <3>2
    <3>. HIDE DEF a, z
    <3>4. Seg(Aim, a, z) \in Seq(Tokens)
      BY ONLY <1>2, <3>3, SegFacts
    <3>. QED BY <1>5, <3>4 DEF a, z
  <2>3. FlagsOf(p) \subseteq AllFlags
    BY DEF FlagsOf, AllFlags
  <2>4. P + i \in Nat
    BY <1>4
  <2>5. ChunkFrame(p) \in Asked
    <3>. DEFINE a == P + i
                r == Seg(Aim, P + i, p.end)
                f == FlagsOf(p)
    <3>1. ChunkFrame(p) = Work(op.s, a, r, f)
      BY <1>5 DEF ChunkFrame
    <3>2. op.s \in Sessions /\ a \in Nat /\ r \in Seq(Tokens) /\ f \in SUBSET AllFlags
      BY <1>2, <2>2, <2>3, <2>4
    <3>. HIDE DEF a, r, f
    <3>3. Work(op.s, a, r, f) \in Asked
      BY ONLY <3>2 DEF Asked
    <3>. QED BY ONLY <3>1, <3>3
  <2>. QED BY ONLY <2>1, <2>5
<1>11. hostA' \in [Sessions -> Seq(Tokens \cup {Dirty})]
       /\ (\A s \in Sessions \ {op.s} : hostA'[s] = hostA[s])
       /\ (pc = "exchange" => hostA' = hostA)
       /\ (fresh => hostA'[op.s] = Upto(Aim, P + lo + Len(buf)))
  <2>1. CASE fresh
    <3>. DEFINE q == P + i
                c == Len(buf)
                e == P + i + c
    <3>1. pc = "body" /\ lo = i /\ EvalA(op.s, q, buf)
      BY <1>0, <1>3, <2>1
    <3>2. HostAt(q)
      <4>1. HostAt(P + body.lo + Len(body.buf))
        BY <3>1 DEF PipeInv, SpanInv, BodySpan
      <4>2. q = P + body.lo + Len(body.buf)
        <5>. DEFINE b == Len(body.buf)
        <5>1. i = body.lo + b /\ b \in Nat
          BY <1>0, <1>1, <2>1, BodyTypes
        <5>2. P + i = P + body.lo + b
          <6>. HIDE DEF i, P, b
          <6>. QED BY ONLY <1>4, <5>1
        <5>. QED BY <5>2
      <4>. QED BY <4>1, <4>2
    <3>3. P + l <= Len(Aim) /\ i + c <= l /\ c \in Nat /\ body.toks = Seg(Aim, P, P + l)
      BY <1>1, <1>3, <3>1 DEF Bounds
    <3>4. buf = Seg(body.toks, i, i + c)
      BY <1>3, <3>1
    <3>. HIDE DEF i, P, l, c
    <3>5. q \in Nat /\ e \in Nat /\ q <= q /\ q <= e /\ q <= Len(Aim) /\ e <= Len(Aim)
      BY ONLY <1>2, <1>4, <3>3
    <3>6. buf = Seg(Aim, q, e)
      <4>. DEFINE z == P + l
                  j == i + c
      <4>1. z \in Nat /\ P <= z /\ j \in Nat /\ i <= j /\ j <= z - P /\ z <= Len(Aim)
            /\ P + j = e
        BY ONLY <1>2, <1>4, <3>3
      <4>. HIDE DEF z, j, q, e
      <4>2. Seg(Seg(Aim, P, z), i, j) = Seg(Aim, P + i, P + j)
        BY ONLY <1>2, <1>4, <4>1, SegOfSeg
      <4>. QED BY ONLY <3>3, <3>4, <4>1, <4>2 DEF q, j, z
    <3>7. e = P + lo + c
      BY <3>1
    <3>. HIDE DEF q, e
    <3>8. /\ hostA'[op.s] = Upto(Aim, e)
          /\ hostA' \in [Sessions -> Seq(Tokens \cup {Dirty})]
          /\ \A s \in Sessions \ {op.s} : hostA'[s] = hostA[s]
      BY ONLY <1>1, <1>2, <3>1, <3>2, <3>5, <3>6, HostGrows
    <3>. QED BY <3>1, <3>7, <3>8 DEF c
  <2>2. CASE ~fresh
    BY <1>0, <1>1, <2>2 DEF StageTypes
  <2>. QED BY <2>1, <2>2
<1>12. Got' = Got /\ Handled' = Handled
  <2>1. 0 \in 0 .. L
    BY <1>4
  <2>2. Len(toCoord) \in 0 .. L
    <3>1. Len(toWorker) + Len(toCoord) = L
      BY <1>1, SentFacts DEF FramesOK, Matches
    <3>2. Len(toWorker) \in Nat /\ Len(toCoord) \in Nat
      BY <1>1, LenProperties DEF ControlTypes
    <3>. QED BY ONLY <1>4, <3>1, <3>2
  <2>3. Cursor(0)' = Cursor(0)
    BY <1>6, <2>1
  <2>. DEFINE c == Len(toCoord)
  <2>4. \A d : d = c => Cursor(d)' = Cursor(d)
    <3>. HIDE DEF c
    <3>. QED BY <1>6, <2>2 DEF c
  <2>5. Handled' = Handled
    <3>1. Len(toCoord') = c
      OBVIOUS
    <3>2. \A d : Cursor(d)' = IF d < Len(body'.pending) THEN body'.pending[d + 1].index ELSE body'.i
      BY DEF Cursor
    <3>3. Handled' = IF c < Len(body'.pending) THEN body'.pending[c + 1].index ELSE body'.i
      BY DEF Handled, Cursor
    <3>. HIDE DEF c
    <3>. QED BY <2>4, <3>2, <3>3 DEF Handled, c
  <2>. QED BY <2>3, <2>5 DEF Got
<1>13. TypeInv'
  <2>1. SessionTypes' /\ StageTypes'
    BY <1>1, <1>11 DEF SessionTypes, StageTypes
  <2>2. toWorker' \in Seq(Asked)
    <3>1. toWorker \in Seq(Asked)
      BY <1>1 DEF ControlTypes
    <3>. QED BY ONLY <1>10, <3>1, AppendProperties
  <2>3. ControlTypes'
    BY <1>1, <1>7, <2>2 DEF ControlTypes
  <2>4. Links'
    BY <1>1 DEF Links
  <2>. QED BY <2>1, <2>3, <2>4 DEF TypeInv
<1>14. Resting'
  BY <1>11, OthersRest DEF Connected
<1>15. Speculates' /\ OpOK' /\ AtSpan'
  <2>1. Speculates'
    BY <1>7 DEF PipeInv, Speculates
  <2>2. SpansOK' = SpansOK
    BY <1>8 DEF SpansOK, SpanOK
  <2>. QED BY <1>7, <1>8, <2>1, <2>2 DEF PipeInv, OpOK, AtSpan
<1>16. Bounds'
  <2>1. \A k \in DOMAIN body'.pending : ChunkOK(k)'
    <3>. SUFFICES ASSUME NEW k \in DOMAIN body'.pending PROVE ChunkOK(k)'
      OBVIOUS
    <3>1. k \in 1 .. L + 1
      BY <1>6, LenProperties
    <3>2. CASE k = L + 1
      <4>1. \A c : c = L + 1 => Cursor(c)' = i + n
        BY <1>6, <1>7
      <4>2. Cursor(k)' = i + n
        BY <3>2, <4>1
      <4>3. body'.pending[k] = p
        BY <1>6, <3>2
      <4>4. /\ body'.pending[k].n = n /\ body'.pending[k].end = body'.pos + i + n
            /\ body'.pending[k].index = i /\ body'.i = i + n /\ (body'.verify => n = 1)
        BY ONLY <1>3, <1>5, <1>7, <4>3
      <4>5. i + n \in Nat /\ i + n <= i + n /\ n > 0
        <5>. HIDE DEF i
        <5>. QED BY ONLY <1>3, <1>4
      <4>. QED BY ONLY <4>2, <4>4, <4>5 DEF ChunkOK
    <3>3. CASE k # L + 1
      <4>1. k \in 1 .. L /\ k \in 0 .. L
        BY <1>4, <3>1, <3>3
      <4>2. ChunkOK(k)
        BY <1>1, <1>4, <4>1, LenProperties DEF Bounds
      <4>3. Cursor(k)' = Cursor(k) /\ body'.pending[k] = body.pending[k]
        BY <1>6, <4>1
      <4>4. Cursor(k) \in Nat
        <5>1. k \in DOMAIN body.pending /\ body.pending[k] \in Chunks
          BY <1>1, <1>4, <4>1, BodyTypes, LenProperties
        <5>. QED BY <4>2, <5>1 DEF ChunkOK, Chunks
      <4>5. Cursor(k) <= i + n
        <5>1. Cursor(k) <= i
          BY <4>2 DEF ChunkOK
        <5>. HIDE DEF i
        <5>. QED BY ONLY <1>3, <1>4, <4>4, <5>1
      <4>. QED BY <1>7, <4>2, <4>3, <4>5 DEF ChunkOK
    <3>. QED BY <3>2, <3>3
  <2>2. Got <= i + n
    <3>1. Got <= i /\ Got \in Nat
      <4>1. Got <= i
        BY <1>1 DEF Bounds
      <4>2. Got \in Nat
        <5>1. L > 0 => 1 \in 1 .. L
          BY <1>4
        <5>2. L > 0 => body.pending[1].index \in Nat
          BY <1>1, <5>1, BodyTypes
        <5>3. Got = IF 0 < L THEN body.pending[0 + 1].index ELSE i
          BY DEF Got, Cursor
        <5>. HIDE DEF i, L
        <5>. QED BY ONLY <1>4, <5>2, <5>3
      <4>. QED BY <4>1, <4>2
    <3>. HIDE DEF i
    <3>. QED BY ONLY <1>3, <1>4, <3>1
  <2>3. L + 1 <= Window
    BY <1>4, CapsAssumption DEF CanIssue
  <2>4. i + n <= l
    <3>. DEFINE c == Len(buf)
    <3>1. i + n <= lo + c /\ lo + c <= l /\ c \in Nat
      BY <1>3
    <3>. HIDE DEF i, l, c
    <3>. QED BY ONLY <1>3, <1>4, <3>1
  <2>5. lo <= i + n
    <3>1. lo <= i
      BY <1>3
    <3>. HIDE DEF i
    <3>. QED BY ONLY <1>3, <1>4, <3>1
  <2>6. /\ body'.i <= body'.count /\ body'.count <= Len(body'.toks) /\ Got' <= body'.i
        /\ body'.lo <= body'.i /\ body'.i <= body'.lo + Len(body'.buf)
        /\ body'.lo + Len(body'.buf) <= Len(body'.toks)
        /\ body'.buf = Seg(body'.toks, body'.lo, body'.lo + Len(body'.buf))
        /\ Len(body'.pending) <= Window /\ ~body'.stopped /\ body'.count = Len(body'.toks)
    <3>1. l <= l
      BY <1>4
    <3>. QED BY ONLY <1>3, <1>6, <1>7, <1>12, <2>2, <2>3, <2>4, <2>5, <3>1
  <2>7. /\ body'.toks # <<>> /\ body'.toks = Seg(Aim', body'.pos, body'.pos + Len(body'.toks))
        /\ body'.pos + Len(body'.toks) <= Len(Aim')
    BY ONLY <1>1, <1>7, <1>8 DEF Bounds
  <2>. QED BY ONLY <2>1, <2>6, <2>7 DEF Bounds
<1>17. (pc = "body" => HostAt(body.pos + body.lo + Len(body.buf)))'
  <2>. SUFFICES ASSUME pc = "body" PROVE HostAt(body.pos + body.lo + Len(body.buf))'
    OBVIOUS
  <2>1. CASE fresh
    <3>1. body'.pos + body'.lo + Len(body'.buf) = P + lo + Len(buf)
      BY <1>7
    <3>. QED BY <1>8, <1>11, <2>1, <3>1 DEF HostAt
  <2>2. CASE ~fresh
    <3>1. body'.pos + body'.lo + Len(body'.buf) = P + body.lo + Len(body.buf) /\ hostA' = hostA
      BY <1>0, <1>7, <2>2
    <3>2. HostAt(P + body.lo + Len(body.buf))
      BY DEF PipeInv, SpanInv, BodySpan
    <3>. QED BY <1>8, <3>1, <3>2 DEF HostAt
  <2>. QED BY <2>1, <2>2
<1>18. SpanInv'
  <2>1. BodySpan'
    BY <1>7, <1>8, <1>12, <1>17 DEF PipeInv, SpanInv, BodySpan, HeadAt, LogitsAt
  <2>2. Verifying'
    <3>1. Judged' = Judged /\ HeadAt(body.pos)' = HeadAt(body.pos)
      BY <1>7, <1>8, <1>12 DEF Judged, RowsTo, HeadAt, Refuted, Follows
    <3>. QED BY <1>7, <1>8, <1>17, <3>1 DEF PipeInv, SpanInv, Verifying
  <2>3. BlockSpan'
    <3>. SUFFICES ASSUME pc = "exchange" PROVE BlockSpan'
      BY DEF BlockSpan
    <3>1. BlockRows' = BlockRows /\ HeadAt(body.pos)' = HeadAt(body.pos)
      BY <1>7, <1>8, <1>12 DEF BlockRows, RowsTo, HeadAt
    <3>2. hostA' = hostA /\ body'.lo = 0 /\ body'.buf = body'.toks
      BY <1>0, <1>3, <1>7, <1>11 DEF PipeInv, SpanInv, BlockSpan
    <3>3. HostAt(body.pos + Len(body.toks) + Len(body.next))'
      BY <1>7, <1>8, <3>2 DEF PipeInv, SpanInv, BlockSpan, HostAt
    <3>4. body.exchange = "run"
      BY DEF Exchanging
    <3>. QED BY <1>3, <1>7, <1>8, <3>1, <3>2, <3>3, <3>4 DEF PipeInv, SpanInv, BlockSpan
  <2>. QED BY <1>16, <2>1, <2>2, <2>3 DEF SpanInv, Committing
<1>19. FramesOK'
  <2>1. /\ PipeInv /\ pc \in {"body", "exchange"} /\ p \in Chunks /\ p.index = body.i
        /\ body'.pending = Append(body.pending, p) /\ body'.toks = body.toks
        /\ body'.pos = body.pos /\ body'.final = body.final /\ body'.verify = body.verify
        /\ pc' = pc /\ op' = op /\ mtp' = mtp /\ ckpt' = ckpt /\ ChunkFrame(p) \in Asked
        /\ toWorker' = Append(toWorker, ChunkFrame(p)) /\ toCoord' = toCoord
        /\ (Connected' => Connected)
    BY <1>5, <1>6, <1>7, <1>10 DEF Connected
  <2>. QED BY ONLY <2>1, FrameSent
<1>20. WorkerFollows'
  BY <1>7, <1>8, <1>12 DEF PipeInv, WireInv, WorkerFollows, WorkerAt, Connected
<1>. QED BY <1>13, <1>14, <1>15, <1>18, <1>19, <1>20 DEF PipeInv, WireInv

LEMMA BodyIssueKeeps == ASSUME PipeInv, BodyIssue PROVE PipeInv'
<1>. DEFINE fresh == body.i = body.lo + Len(body.buf)
            buf   == IF fresh THEN SubSeq(body.toks, body.i + 1, AtMost(body.count, body.i + Chunk)) ELSE body.buf
            lo    == IF fresh THEN body.i ELSE body.lo
            n     == AtMost(lo + Len(buf) - body.i, Chunk)
            last  == body.i + n = body.count /\ body.final
            p     == [end |-> body.pos + body.i + n, n |-> n, index |-> body.i]
<1>1. pc \in {"body", "exchange"} /\ Exchanging /\ CanIssue
  BY DEF BodyIssue, Exchanging
<1>2. CASE fresh /\ ~Fits(op.s, body.pos + body.i)
  <2>1. BodyFails
    BY <1>2 DEF BodyIssue
  <2>2. CASE pc = "exchange"
    BY <2>1, <2>2, ThreadsKeep
  <2>3. CASE pc = "body"
    BY <2>1, <2>3, FailKeeps DEF BodyFails, FailOp
  <2>. QED BY <1>1, <2>2, <2>3
<1>3. CASE ~(fresh /\ ~Fits(op.s, body.pos + body.i))
  <2>1. /\ Issues(fresh, buf, lo, n, last, p)
        /\ UNCHANGED <<pc, op, engineVars, sessVars, specA, mtpHist, up, backlog,
                       conns, toCoord, workerVars>>
    BY <1>3 DEF BodyIssue, Issues
  <2>2. UNCHANGED <<pc, op, mtp, fd, generation, open, gen, ckpt, valid, logits, specA, mtpHist,
                    up, backlog, conns, toCoord, wpc, wfd, wsess>>
    BY <2>1 DEF engineVars, sessVars, workerVars
  <2>3. /\ PipeInv /\ Chosen(fresh, buf, lo, n)
    BY DEF Chosen
  <2>. HIDE DEF fresh, buf, lo, n, last, p
  <2>. QED BY ONLY <1>1, <2>1, <2>2, <2>3, ChunkIssued
<1>. QED BY <1>2, <1>3

\* The first chunk that waits for its reply.
LEMMA FirstChunk ==
    ASSUME PipeInv, pc \in {"body", "exchange"}, toCoord # <<>>
    PROVE  LET p == Head(body.pending)
           IN  /\ body.pending # <<>> /\ p = body.pending[1] /\ p \in Chunks /\ Len(body.pending) \in Nat \ {0}
               /\ p.index = Got /\ Got \in Nat /\ p.n \in Nat \ {0} /\ Got + p.n <= body.i
               /\ Got + p.n <= Len(body.toks) /\ p.end = body.pos + Got + p.n
               /\ Cursor(1) = Got + p.n /\ (body.verify => p.n = 1)
               /\ Head(toCoord) \in {Result(op.s, p.end, RowsOf(p)), ErrorFrame}
<1>. DEFINE p == Head(body.pending)
            L == Len(body.pending)
<1>1. TypeInv /\ Bounds /\ FramesOK /\ toWorker \in Seq(Asked) /\ toCoord \in Seq(Answered)
  BY DEF PipeInv, TypeInv, SpanInv, WireInv, ControlTypes
<1>2. body.pending \in Seq(Chunks) /\ L \in Nat
  BY <1>1, BodyTypes
<1>3. Len(toWorker) + Len(toCoord) = L
  BY <1>1, SentFacts DEF FramesOK, Matches
<1>4. Len(toWorker) \in Nat /\ Len(toCoord) \in Nat \ {0}
  BY <1>1, LenProperties, EmptySeq
<1>5. L \in Nat \ {0} /\ body.pending # <<>>
  <2>1. L # 0
    BY ONLY <1>2, <1>3, <1>4
  <2>. QED BY <1>2, <2>1, EmptySeq
<1>6. p = body.pending[1] /\ p \in Chunks /\ 1 \in DOMAIN body.pending
  BY <1>2, <1>5, TailIsPart
<1>7. ChunkOK(1)
  BY <1>1, <1>6 DEF Bounds
<1>8. Got = p.index
  BY <1>5, <1>6 DEF Got, Cursor
<1>9. p.index \in Nat /\ p.n \in Nat /\ p.end \in Nat
  BY <1>6 DEF Chunks
<1>10. /\ p.n > 0 /\ p.end = body.pos + p.index + p.n /\ p.index + p.n = Cursor(1)
       /\ Cursor(1) <= body.i /\ (body.verify => p.n = 1)
  BY <1>6, <1>7 DEF ChunkOK
<1>11. body.i <= body.count /\ body.count <= Len(body.toks) /\ body.i \in Nat /\ body.count \in Nat
       /\ Len(body.toks) \in Nat
  BY <1>1, BodyTypes DEF Bounds
<1>12. Head(toCoord) \in {Result(op.s, p.end, RowsOf(p)), ErrorFrame}
  <2>1. Head(toCoord) = toCoord[1] /\ 1 \in 1 .. Len(toCoord)
    BY <1>4
  <2>2. toCoord[1] \in {Answers[1], ErrorFrame}
    BY <1>1, <2>1 DEF FramesOK, Matches
  <2>3. Answers[1] = Result(op.s, p.end, RowsOf(p))
    <3>1. 1 \in 1 .. L
      BY <1>5
    <3>. QED BY <1>1, <1>6, <3>1, SentFacts
  <2>. QED BY ONLY <2>1, <2>2, <2>3
<1>. HIDE DEF p, L
<1>13. Got + p.n <= body.i /\ Got + p.n <= Len(body.toks) /\ Cursor(1) = Got + p.n
       /\ p.end = body.pos + Got + p.n
  <2>1. Cursor(1) = Got + p.n
    BY <1>8, <1>10
  <2>. DEFINE g == Got + p.n
  <2>2. g \in Nat /\ g <= body.i
    BY <1>8, <1>9, <1>10, <2>1
  <2>. HIDE DEF g
  <2>3. g <= Len(body.toks)
    BY ONLY <1>11, <2>2
  <2>. QED BY <1>8, <1>10, <2>1, <2>2, <2>3 DEF g
<1>14. p.n \in Nat \ {0}
  BY ONLY <1>9, <1>10
<1>. QED BY ONLY <1>5, <1>6, <1>8, <1>9, <1>10, <1>12, <1>13, <1>14 DEF p, L

\* Its reply has been read.
LEMMA CursorShrinks ==
    ASSUME TypeInv, body.pending # <<>>, body'.pending = Tail(body.pending), body'.i = body.i
    PROVE  /\ \A c, d : c \in 0 .. Len(body.pending) - 1 /\ d = c + 1 => Cursor(c)' = Cursor(d)
           /\ Len(body'.pending) = Len(body.pending) - 1 /\ body'.pending \in Seq(Chunks)
           /\ DOMAIN body'.pending = 1 .. Len(body.pending) - 1
           /\ \A k \in 1 .. Len(body.pending) - 1 : body'.pending[k] = body.pending[k + 1]
<1>. DEFINE L == Len(body.pending)
            Q == body'.pending
<1>1. body.pending \in Seq(Chunks) /\ L \in Nat
  BY BodyTypes
<1>2. /\ Q \in Seq(Chunks) /\ Len(Q) = L - 1 /\ L \in Nat \ {0}
      /\ \A k \in DOMAIN Q : Q[k] = body.pending[k + 1]
  BY <1>1, TailIsPart
<1>3. DOMAIN Q = 1 .. L - 1
  BY <1>2, LenProperties
<1>4. \A c : Cursor(c)' = IF c < Len(Q) THEN Q[c + 1].index ELSE body.i
  BY DEF Cursor
<1>5. \A c : Cursor(c) = IF c < L THEN body.pending[c + 1].index ELSE body.i
  BY DEF Cursor
<1>. HIDE DEF L, Q
<1>6. ASSUME NEW c, NEW d, c \in 0 .. L - 1, d = c + 1 PROVE Cursor(c)' = Cursor(d)
  <2>1. CASE c = L - 1
    <3>1. ~(c < Len(Q)) /\ ~(d < L)
      BY <1>1, <1>2, <1>6, <2>1
    <3>. QED BY <1>4, <1>5, <3>1
  <2>2. CASE c # L - 1
    <3>1. c < Len(Q) /\ d < L /\ c + 1 \in 1 .. L - 1
      BY <1>1, <1>2, <1>6, <2>2
    <3>2. Q[c + 1] = body.pending[d + 1]
      BY <1>2, <1>3, <1>6, <3>1
    <3>. QED BY <1>4, <1>5, <3>1, <3>2
  <2>. QED BY <2>1, <2>2
<1>. QED BY <1>2, <1>3, <1>6 DEF L, Q

LEMMA FrameRead ==
    ASSUME PipeInv, pc \in {"body", "exchange"}, toCoord # <<>>,
           body'.pending = Tail(body.pending), body'.i = body.i,
           body'.toks = body.toks, body'.pos = body.pos, body'.final = body.final,
           body'.verify = body.verify, pc' = pc, op' = op, mtp' = mtp, ckpt' = ckpt,
           toWorker' = toWorker, toCoord' = Tail(toCoord), Connected' => Connected
    PROVE  FramesOK' /\ Handled' = Handled /\ toCoord' \in Seq(Answered)
<1>. DEFINE L == Len(body.pending)
            answer(q) == Result(op.s, q.end, RowsOf(q))
            A == {ChunkFrame(q) : q \in Chunks}
            B == {answer(q) : q \in Chunks}
<1>1. TypeInv /\ FramesOK /\ toWorker \in Seq(Asked) /\ toCoord \in Seq(Answered)
  BY DEF PipeInv, TypeInv, ControlTypes, WireInv
<1>2. body.pending # <<>> /\ L \in Nat \ {0}
  BY FirstChunk
<1>3. /\ DOMAIN body'.pending = 1 .. L - 1
      /\ \A k \in 1 .. L - 1 : body'.pending[k] = body.pending[k + 1]
      /\ \A c, d : c \in 0 .. L - 1 /\ d = c + 1 => Cursor(c)' = Cursor(d)
  BY <1>1, <1>2, CursorShrinks
<1>4. Aim' = Aim
  BY DEF Aim
<1>5. \A q : ChunkFrame(q)' = ChunkFrame(q) /\ RowsOf(q)' = RowsOf(q)
  BY <1>4 DEF ChunkFrame, FlagsOf, RowsOf, LastChunk
<1>6. /\ Sent' = [k \in 1 .. L - 1 |-> ChunkFrame(body'.pending[k])]
      /\ Answers' = [k \in 1 .. L - 1 |-> answer(body'.pending[k])]
  BY <1>3, <1>5 DEF Sent, Answers
<1>7. \A k \in 1 .. L : body.pending[k] \in Chunks
  BY <1>1, BodyTypes
<1>8. DOMAIN body.pending = 1 .. L
  BY <1>1, BodyTypes, LenProperties
<1>9. /\ Sent = [k \in 1 .. L |-> ChunkFrame(body.pending[k])]
      /\ Answers = [k \in 1 .. L |-> answer(body.pending[k])]
  BY <1>8 DEF Sent, Answers
<1>10. Sent \in [1 .. L -> A] /\ Answers \in [1 .. L -> B]
  BY <1>7, <1>9
<1>. HIDE DEF A, B, L, answer
<1>11. Sent \in Seq(A) /\ Len(Sent) = L /\ Answers \in Seq(B) /\ Len(Answers) = L
  <2>1. L \in Nat
    BY <1>2
  <2>. QED BY ONLY <1>10, <2>1
<1>12. /\ Head(toCoord) \in {Head(Answers), ErrorFrame}
       /\ Matches(Tail(Sent), Tail(Answers), toWorker, Tail(toCoord)) /\ Sent # <<>>
  <2>1. Matches(Sent, Answers, toWorker, toCoord) /\ Len(Answers) = Len(Sent) /\ toCoord # <<>>
    BY <1>1, <1>11 DEF FramesOK
  <2>. QED BY ONLY <1>1, <1>11, <2>1, MatchesRead
<1>13. Sent' = Tail(Sent) /\ Answers' = Tail(Answers)
  <2>1. Answers # <<>>
    <3>1. Len(Answers) # 0
      BY <1>2, <1>11
    <3>. QED BY <3>1
  <2>2. /\ Tail(Sent) \in Seq(A) /\ Len(Tail(Sent)) = L - 1
        /\ Tail(Answers) \in Seq(B) /\ Len(Tail(Answers)) = L - 1
        /\ \A k \in 1 .. L - 1 : Tail(Sent)[k] = Sent[k + 1] /\ Tail(Answers)[k] = Answers[k + 1]
    BY <1>11, <1>12, <2>1, HeadTailProperties
  <2>3. \A k \in 1 .. L - 1 : k + 1 \in 1 .. L
    BY <1>2
  <2>4. \A k \in 1 .. L - 1 : Tail(Sent)[k] = ChunkFrame(body'.pending[k])
                              /\ Tail(Answers)[k] = answer(body'.pending[k])
    BY <1>3, <1>9, <2>2, <2>3
  <2>. DEFINE X == Tail(Sent)
              Y == Tail(Answers)
  <2>5. X = [k \in 1 .. L - 1 |-> X[k]] /\ Y = [k \in 1 .. L - 1 |-> Y[k]]
    <3>1. X \in Seq(A) /\ Len(X) = L - 1 /\ Y \in Seq(B) /\ Len(Y) = L - 1
      BY <2>2
    <3>. HIDE DEF X, Y
    <3>2. DOMAIN X = 1 .. L - 1 /\ X = [k \in DOMAIN X |-> X[k]]
      BY ONLY <3>1, LenProperties
    <3>3. DOMAIN Y = 1 .. L - 1 /\ Y = [k \in DOMAIN Y |-> Y[k]]
      BY ONLY <3>1, LenProperties
    <3>. QED BY ONLY <3>2, <3>3
  <2>. QED BY <1>6, <2>4, <2>5
<1>14. /\ Tail(toCoord) \in Seq(Answered) /\ Len(Tail(toCoord)) = Len(toCoord) - 1
       /\ \A k \in DOMAIN Tail(toCoord) : k + 1 \in DOMAIN toCoord /\ Tail(toCoord)[k] = toCoord[k + 1]
       /\ Len(toCoord) \in Nat \ {0}
  BY <1>1, TailIsPart
<1>15. FramesOK'
  <2>1. Matches(Sent, Answers, toWorker, toCoord)'
    BY <1>12, <1>13 DEF Matches
  <2>2. Connected' => \A k \in 1 .. Len(toCoord') : toCoord'[k] # ErrorFrame
    <3>. SUFFICES ASSUME Connected', NEW k \in 1 .. Len(toCoord') PROVE toCoord'[k] # ErrorFrame
      OBVIOUS
    <3>1. k \in DOMAIN Tail(toCoord)
      BY <1>14, LenProperties
    <3>2. k + 1 \in 1 .. Len(toCoord) /\ Tail(toCoord)[k] = toCoord[k + 1]
      BY <1>1, <1>14, <3>1, LenProperties
    <3>. QED BY <1>1, <3>2 DEF FramesOK
  <2>. QED BY <2>1, <2>2 DEF FramesOK
<1>16. Handled' = Handled
  <2>. DEFINE c == Len(Tail(toCoord))
              d == Len(toCoord)
  <2>1. Len(toWorker) + d = L
    BY <1>1, <1>11 DEF FramesOK, Matches
  <2>2. Len(toWorker) \in Nat /\ d \in Nat \ {0} /\ c = d - 1
    BY <1>1, <1>14, LenProperties
  <2>. HIDE DEF c, d
  <2>3. c \in 0 .. L - 1 /\ d = c + 1
    BY ONLY <1>2, <2>1, <2>2
  <2>4. \A x, y : x = c /\ y = d => Cursor(x)' = Cursor(y)
    BY <1>3, <2>3
  <2>5. \A x : Cursor(x)' = IF x < Len(body'.pending) THEN body'.pending[x + 1].index ELSE body'.i
    BY DEF Cursor
  <2>6. Handled' = IF c < Len(body'.pending) THEN body'.pending[c + 1].index ELSE body'.i
    BY DEF Handled, Cursor, c
  <2>7. Handled = Cursor(d)
    BY DEF Handled, d
  <2>. QED BY <2>4, <2>5, <2>6, <2>7
<1>. QED BY <1>14, <1>15, <1>16

\* A reply has been read and its rows have been used.
LEMMA ReplyRead ==
    ASSUME PipeInv, pc \in {"body", "exchange"}, toCoord # <<>>, toCoord' = Tail(toCoord),
           body' \in BodyType, body'.pending = Tail(body.pending), body'.i = body.i,
           body'.toks = body.toks, body'.pos = body.pos, body'.final = body.final,
           body'.verify = body.verify, body'.lo = body.lo, body'.buf = body.buf,
           body'.i <= body'.count, body'.count <= Len(body.toks),
           ~body'.stopped => body'.count = Len(body.toks), body'.stopped => body'.count = body.i,
           UNCHANGED <<pc, op, mtp, fd, generation, open, gen, ckpt, valid, hostA, specA, up, backlog,
                       conns, toWorker, wpc, wfd, wsess>>,
           logits' \in [Sessions -> Seq(Tokens)], mtpHist' \in [Sessions -> Seq(Tokens)],
           \A s \in Sessions \ {op.s} : logits'[s] = logits[s] /\ mtpHist'[s] = mtpHist[s],
           BodySpan', Verifying', BlockSpan'
    PROVE  PipeInv'
<1>. DEFINE L == Len(body.pending)
<1>1. TypeInv /\ SessionTypes /\ StageTypes /\ ControlTypes /\ Links /\ Bounds
  BY DEF PipeInv, TypeInv, SpanInv
<1>2. op.s \in Sessions
  BY OpHasSession
<1>3. /\ body.pending # <<>> /\ L \in Nat \ {0} /\ Got \in Nat /\ Cursor(1) <= body.i
  <2>1. Cursor(1) = Got + Head(body.pending).n /\ Got + Head(body.pending).n <= body.i
    BY FirstChunk
  <2>. QED BY <2>1, FirstChunk
<1>4. /\ \A c, d : c \in 0 .. L - 1 /\ d = c + 1 => Cursor(c)' = Cursor(d)
      /\ Len(body'.pending) = L - 1 /\ DOMAIN body'.pending = 1 .. L - 1
      /\ \A k \in 1 .. L - 1 : body'.pending[k] = body.pending[k + 1]
  BY <1>1, <1>3, CursorShrinks
<1>5. FramesOK' /\ Handled' = Handled /\ toCoord' \in Seq(Answered)
  BY FrameRead DEF Connected
<1>6. Aim' = Aim /\ StartPos' = StartPos
  BY DEF Aim, StartPos
<1>7. TypeInv'
  <2>1. SessionTypes' /\ Links'
    BY <1>1 DEF SessionTypes, Links
  <2>2. StageTypes'
    BY <1>1 DEF StageTypes
  <2>3. ControlTypes'
    BY <1>1, <1>5 DEF ControlTypes
  <2>. QED BY <2>1, <2>2, <2>3 DEF TypeInv
<1>8. Resting'
  BY OthersRest DEF Connected
<1>9. Speculates' /\ OpOK' /\ AtSpan'
  <2>1. Speculates'
    BY DEF PipeInv, Speculates
  <2>2. SpansOK' = SpansOK
    BY <1>6 DEF SpansOK, SpanOK
  <2>. QED BY <1>6, <2>1, <2>2 DEF PipeInv, OpOK, AtSpan
<1>10. Bounds'
  <2>1. Got' <= body.i
    <3>1. 0 \in 0 .. L - 1 /\ 1 = 0 + 1
      BY <1>3
    <3>2. Cursor(0)' = Cursor(1)
      BY <1>4, <3>1
    <3>. QED BY <1>3, <3>2 DEF Got
  <2>2. \A k \in DOMAIN body'.pending : ChunkOK(k)'
    <3>. SUFFICES ASSUME NEW k \in DOMAIN body'.pending PROVE ChunkOK(k)'
      OBVIOUS
    <3>1. k \in 1 .. L - 1
      BY <1>4
    <3>. DEFINE d == k + 1
    <3>2. k \in 0 .. L - 1 /\ d = k + 1 /\ d \in 1 .. L
      BY <1>3, <3>1
    <3>3. d \in DOMAIN body.pending
      BY <1>1, <3>2, BodyTypes, LenProperties
    <3>4. ChunkOK(d)
      BY <1>1, <3>3 DEF Bounds
    <3>5. body'.pending[k] = body.pending[d] /\ Cursor(k)' = Cursor(d)
      BY <1>4, <3>1, <3>2
    <3>. HIDE DEF d
    <3>. QED BY <3>4, <3>5 DEF ChunkOK
  <2>3. L - 1 <= Window
    BY <1>1, <1>3, CapsAssumption DEF Bounds
  <2>. QED BY <1>1, <1>4, <1>6, <2>1, <2>2, <2>3 DEF Bounds
<1>11. SpanInv'
  BY <1>10 DEF SpanInv, Committing
<1>12. WorkerFollows'
  BY <1>5, <1>6 DEF PipeInv, WireInv, WorkerFollows, WorkerAt, Connected
<1>. QED BY <1>5, <1>7, <1>8, <1>9, <1>11, <1>12 DEF PipeInv, WireInv

\* What a good reply brings.
LEMMA ReplyFacts ==
    ASSUME PipeInv, pc \in {"body", "exchange"}, toCoord # <<>>,
           body'.pending = Tail(body.pending), body'.i = body.i,
           NEW n, ReplyIs(Head(toCoord), op.s, Head(body.pending).end, n)
    PROVE  LET f == Head(toCoord)
               p == Head(body.pending)
               g == Got + p.n
           IN  /\ f.rows = RowsOf(p) /\ g \in Nat /\ Got \in Nat /\ p.n \in Nat \ {0}
               /\ Got' = g /\ g <= body.i /\ g <= Len(body.toks) /\ p.index = Got
               /\ body.pos + g <= Len(Aim) /\ Aim \in Seq(Tokens) /\ Len(Aim) \in Nat
               /\ Upto(Aim, body.pos + g) \in Seq(Tokens) /\ p.end = body.pos + g
               /\ (LastChunk(p) <=> g = Len(body.toks) /\ body.final)
               /\ mtp => f.rows = RowsFrom(Aim, body.pos + Got, p.n)
               /\ f.rows \in Seq(Seq(Tokens))
               /\ mtp \/ LastChunk(p) => f.rows[Len(f.rows)] = Upto(Aim, body.pos + g)
               /\ (body.verify => p.n = 1)
<1>. DEFINE f == Head(toCoord)
            p == Head(body.pending)
            g == Got + p.n
            P == body.pos
            l == Len(body.toks)
<1>1. TypeInv /\ Bounds /\ op.s \in Sessions
  BY OpHasSession DEF PipeInv, SpanInv
<1>2. /\ body.pending # <<>> /\ Len(body.pending) \in Nat \ {0}
      /\ p.index = Got /\ Got \in Nat /\ p.n \in Nat \ {0} /\ g <= body.i
      /\ g <= l /\ p.end = P + Got + p.n
      /\ Cursor(1) = g /\ (body.verify => p.n = 1)
      /\ f \in {Result(op.s, p.end, RowsOf(p)), ErrorFrame}
  BY FirstChunk
<1>3. f.rows = RowsOf(p)
  BY <1>2 DEF ReplyIs, ErrorFrame, Result
<1>4. Aim \in Seq(Tokens) /\ Len(Aim) \in Nat /\ P \in Nat /\ l \in Nat /\ P + l <= Len(Aim)
  BY <1>1, AimFacts, BodyTypes DEF Bounds
<1>5. Got' = g
  <2>1. \A c, d : c \in 0 .. Len(body.pending) - 1 /\ d = c + 1 => Cursor(c)' = Cursor(d)
    BY <1>1, <1>2, CursorShrinks
  <2>2. 0 \in 0 .. Len(body.pending) - 1 /\ 1 = 0 + 1
    BY <1>2
  <2>3. Cursor(0)' = Cursor(1)
    BY <2>1, <2>2
  <2>. QED BY <1>2, <2>3 DEF Got
<1>. DEFINE a == Got
            n1 == p.n
<1>6. g = a + n1 /\ a \in Nat /\ n1 \in Nat \ {0} /\ g <= l /\ p.end = P + a + n1
  BY <1>2
<1>. HIDE DEF a, n1, g, P, l, p, f
<1>7. /\ g \in Nat /\ P + g <= Len(Aim) /\ P + g \in Nat /\ p.end = P + g /\ P + a \in Nat
      /\ (P + a) + n1 = P + g /\ (P + g = P + l <=> g = l)
  BY ONLY <1>4, <1>6
<1>8. Upto(Aim, P + g) \in Seq(Tokens)
  <2>. DEFINE x == P + g
  <2>1. x \in Nat /\ x <= Len(Aim)
    BY <1>7
  <2>. HIDE DEF x
  <2>2. Upto(Aim, x) \in Seq(Tokens)
    BY ONLY <1>4, <2>1, UptoFacts
  <2>. QED BY <2>2 DEF x
<1>9. LastChunk(p) <=> g = l /\ body.final
  BY <1>7 DEF LastChunk, P, l
<1>. DEFINE R == RowsFrom(Aim, P + a, n1)
<1>10. mtp => f.rows = R
  BY <1>2, <1>3 DEF RowsOf, P, a, n1
<1>11. R \in Seq(Seq(Tokens)) /\ R[Len(R)] = Upto(Aim, P + g)
  <2>. DEFINE x == P + a
  <2>1. x \in Nat /\ n1 \in Nat /\ x + n1 <= Len(Aim) /\ x + n1 = P + g
    BY <1>6, <1>7
  <2>. HIDE DEF x
  <2>2. /\ RowsFrom(Aim, x, n1) \in Seq(Seq(Tokens)) /\ Len(RowsFrom(Aim, x, n1)) = n1
        /\ \A k \in 1 .. n1 : RowsFrom(Aim, x, n1)[k] = Upto(Aim, x + k)
    BY ONLY <1>4, <2>1, RowsFacts
  <2>3. n1 \in 1 .. n1
    BY <1>6
  <2>. QED BY <2>1, <2>2, <2>3 DEF x
<1>. HIDE DEF R
<1>12. f.rows \in Seq(Seq(Tokens)) /\ (mtp \/ LastChunk(p) => f.rows[Len(f.rows)] = Upto(Aim, P + g))
  <2>1. CASE mtp
    BY <1>10, <1>11, <2>1
  <2>2. CASE ~mtp /\ LastChunk(p)
    <3>1. f.rows = <<Upto(Aim, P + g)>>
      BY <1>3, <1>7, <2>2 DEF RowsOf
    <3>. DEFINE u == Upto(Aim, P + g)
    <3>. HIDE DEF u
    <3>2. <<u>> \in Seq(Seq(Tokens)) /\ <<u>>[Len(<<u>>)] = u
      BY <1>8 DEF u
    <3>. QED BY <3>1, <3>2 DEF u
  <2>3. CASE ~mtp /\ ~LastChunk(p)
    BY <1>3, <2>3, EmptyTypes DEF RowsOf
  <2>. QED BY <2>1, <2>2, <2>3
<1>. QED BY <1>2, <1>3, <1>4, <1>5, <1>7, <1>8, <1>9, <1>10, <1>12 DEF a, n1, g, P, l, p, f, R

\* The step of a reply that is what it should be.
GoodReply ==
    LET f    == Head(toCoord)
        p    == Head(body.pending)
        last == p.end = body.pos + body.count /\ body.final
        own  == body.exchange = "no"
        n    == IF mtp THEN p.n ELSE IF last THEN 1 ELSE 0
        stop == Projects /\ Refutes(f.rows[1], p.index)
    IN  /\ ReplyIs(f, op.s, p.end, n)
        /\ toCoord' = Tail(toCoord)
        /\ body' = [body EXCEPT
               !.pending = Tail(@),
               !.io = IF @ = "both" THEN "join" ELSE "none",
               !.rows = IF own /\ ~body.verify THEN @ ELSE @ \o f.rows,
               !.stopped = @ \/ stop,
               !.count = IF stop THEN body.i ELSE @]
        /\ logits' = IF Projects \/ (own /\ last /\ ~body.verify)
                     THEN [logits EXCEPT ![op.s] = f.rows[Len(f.rows)]]
                     ELSE logits
        /\ IF own /\ mtp /\ ~body.verify THEN Catchup(op.s, body.pos + p.index, f.rows)
                                         ELSE UNCHANGED mtpHist
        /\ UNCHANGED <<pc, op, mtp, fd, generation, open, gen, ckpt, valid, hostA, specA, up,
                       backlog, conns, toWorker, wpc, wfd, wsess>>

LEMMA ReceiveCases ==
    ASSUME BodyReceive PROVE toCoord # <<>> /\ Exchanging /\ (BodyFails \/ GoodReply)
BY DEF BodyReceive, GoodReply, engineVars, workerVars

\* The new record, field by field.
LEMMA ReplyBody ==
    ASSUME PipeInv, pc \in {"body", "exchange"}, toCoord # <<>>, GoodReply
    PROVE  LET f    == Head(toCoord)
               p    == Head(body.pending)
               own  == body.exchange = "no"
               stop == Projects /\ Refutes(f.rows[1], p.index)
           IN  /\ body' \in BodyType /\ body'.pending = Tail(body.pending) /\ body'.i = body.i
               /\ body'.toks = body.toks /\ body'.pos = body.pos /\ body'.final = body.final
               /\ body'.verify = body.verify /\ body'.lo = body.lo /\ body'.buf = body.buf
               /\ body'.exchange = body.exchange /\ body'.next = body.next
               /\ body'.rows = IF own /\ ~body.verify THEN body.rows ELSE body.rows \o f.rows
               /\ body'.stopped = (body.stopped \/ stop)
               /\ body'.count = IF stop THEN body.i ELSE body.count
<1>. DEFINE f    == Head(toCoord)
            p    == Head(body.pending)
            own  == body.exchange = "no"
            stop == Projects /\ Refutes(f.rows[1], p.index)
            Q    == Tail(body.pending)
            m    == IF body.io = "both" THEN "join" ELSE "none"
            R    == IF own /\ ~body.verify THEN body.rows ELSE body.rows \o f.rows
            t    == body.stopped \/ stop
            c    == IF stop THEN body.i ELSE body.count
<1>1. TypeInv /\ body \in BodyType
  BY DEF PipeInv, TypeInv, ControlTypes
<1>2. body' = [body EXCEPT !.pending = Q, !.io = m, !.rows = R, !.stopped = t, !.count = c]
  BY <1>1 DEF GoodReply
<1>3. \E n : ReplyIs(f, op.s, p.end, n)
  BY DEF GoodReply
<1>4. body.pending # <<>> /\ f.rows \in Seq(Seq(Tokens))
  <2>1. f \in {Result(op.s, p.end, RowsOf(p)), ErrorFrame} /\ body.pending # <<>>
    BY FirstChunk
  <2>2. f \in Answered /\ toCoord \in Seq(Answered)
    <3>1. toCoord \in Seq(Answered)
      BY <1>1 DEF TypeInv, ControlTypes
    <3>. QED BY <3>1, TailIsPart
  <2>3. f # ErrorFrame
    BY <1>3 DEF ReplyIs, ErrorFrame
  <2>4. f.rows \in Seq(Seq(Tokens))
    BY <2>2, <2>3 DEF Answered, Result
  <2>. QED BY <2>1, <2>4
<1>5. Q \in Seq(Chunks) /\ body.rows \in Seq(Seq(Tokens)) /\ body.i \in Nat /\ body.count \in Nat
      /\ body.stopped \in BOOLEAN
  <2>1. body.pending \in Seq(Chunks)
    BY <1>1, BodyTypes
  <2>. QED BY <1>1, <1>4, <2>1, BodyTypes, TailIsPart
<1>6. R \in Seq(Seq(Tokens))
  <2>. DEFINE r == body.rows
              h == f.rows
  <2>1. r \in Seq(Seq(Tokens)) /\ h \in Seq(Seq(Tokens))
    BY <1>4, <1>5
  <2>. HIDE DEF r, h
  <2>2. r \o h \in Seq(Seq(Tokens))
    BY ONLY <2>1, ConcatProperties
  <2>. QED BY <2>1, <2>2 DEF r, h
<1>7. m \in {"none", "send", "join", "both"} /\ t \in BOOLEAN /\ c \in Nat
  BY <1>5
<1>8. /\ body'.pending = Q /\ body'.rows = R /\ body'.stopped = t /\ body'.count = c
      /\ body'.i = body.i /\ body'.toks = body.toks /\ body'.pos = body.pos
      /\ body'.final = body.final /\ body'.verify = body.verify /\ body'.lo = body.lo
      /\ body'.buf = body.buf /\ body'.exchange = body.exchange /\ body'.next = body.next
  <2>. HIDE DEF Q, m, R, t, c
  <2>. QED BY ONLY <1>1, <1>2 DEF BodyType
<1>9. body' \in BodyType
  <2>. HIDE DEF Q, m, R, t, c
  <2>. QED BY ONLY <1>1, <1>2, <1>5, <1>6, <1>7 DEF BodyType
<1>. QED BY <1>8, <1>9

\* The reply of a chunk on the caller's thread that is not verified.
LEMMA PlainReply ==
    ASSUME PipeInv, pc = "body", ~body.verify, toCoord # <<>>, GoodReply PROVE PipeInv'
<1>. DEFINE f == Head(toCoord)
            p == Head(body.pending)
            P == body.pos
            g == Got + p.n
            last == p.end = body.pos + body.count /\ body.final
            n == IF mtp THEN p.n ELSE IF last THEN 1 ELSE 0
<1>1. TypeInv /\ SessionTypes /\ StageTypes /\ Bounds /\ op.s \in Sessions
  BY OpHasSession DEF PipeInv, TypeInv, SpanInv
<1>2. /\ ~body.stopped /\ body.final /\ body.exchange = "no" /\ HeadAt(P + Got)
      /\ HostAt(P + body.lo + Len(body.buf)) /\ BodySpan /\ body.count = Len(body.toks)
      /\ body.i <= body.count
  BY <1>1 DEF PipeInv, SpanInv, BodySpan, Bounds
<1>3. /\ body' \in BodyType /\ body'.pending = Tail(body.pending) /\ body'.i = body.i
      /\ body'.toks = body.toks /\ body'.pos = body.pos /\ body'.final = body.final
      /\ body'.verify = body.verify /\ body'.lo = body.lo /\ body'.buf = body.buf
      /\ body'.exchange = body.exchange /\ body'.next = body.next
      /\ body'.rows = body.rows /\ ~body'.stopped /\ body'.count = body.count
  BY <1>2, ReplyBody DEF Projects
<1>4. /\ ReplyIs(f, op.s, p.end, n) /\ toCoord' = Tail(toCoord)
      /\ logits' = IF last THEN [logits EXCEPT ![op.s] = f.rows[Len(f.rows)]] ELSE logits
      /\ IF mtp THEN Catchup(op.s, P + p.index, f.rows) ELSE UNCHANGED mtpHist
      /\ UNCHANGED <<pc, op, mtp, fd, generation, open, gen, ckpt, valid, hostA, specA, up,
                     backlog, conns, toWorker, wpc, wfd, wsess>>
  BY <1>2 DEF GoodReply, Projects
<1>5. /\ g \in Nat /\ Got \in Nat /\ p.n \in Nat \ {0}
      /\ Got' = g /\ g <= body.i /\ g <= Len(body.toks) /\ p.index = Got
      /\ P + g <= Len(Aim) /\ Aim \in Seq(Tokens) /\ Len(Aim) \in Nat
      /\ Upto(Aim, P + g) \in Seq(Tokens) /\ p.end = P + g
      /\ (LastChunk(p) <=> g = Len(body.toks) /\ body.final)
      /\ (mtp => f.rows = RowsFrom(Aim, P + Got, p.n))
      /\ (mtp \/ LastChunk(p) => f.rows[Len(f.rows)] = Upto(Aim, P + g))
  BY <1>3, <1>4, ReplyFacts
<1>6. P \in Nat /\ (last <=> LastChunk(p))
  BY <1>1, <1>2, BodyTypes DEF LastChunk
<1>. HIDE DEF f, p, P, last, n, g
<1>7. /\ logits' \in [Sessions -> Seq(Tokens)]
      /\ \A s \in Sessions \ {op.s} : logits'[s] = logits[s]
      /\ g = Len(body.toks) => logits'[op.s] = Upto(Aim, P + g)
  BY <1>1, <1>2, <1>4, <1>5, <1>6 DEF SessionTypes
<1>8. /\ mtpHist' \in [Sessions -> Seq(Tokens)]
      /\ \A s \in Sessions \ {op.s} : mtpHist'[s] = mtpHist[s]
      /\ mtp => mtpHist'[op.s] = Upto(Aim, P + g)
  <2>1. CASE mtp
    <3>. DEFINE x == P + Got
                k == p.n
    <3>1. /\ x \in Nat /\ k \in Nat /\ x + k = P + g
      <4>. DEFINE a == Got
      <4>1. a \in Nat /\ k \in Nat /\ g = a + k
        BY <1>5 DEF g
      <4>. HIDE DEF a, k
      <4>2. P + a \in Nat /\ P + a + k = P + g
        BY ONLY <1>6, <4>1
      <4>. QED BY <4>1, <4>2 DEF a
    <3>2. x + k <= Len(Aim)
      BY <1>5, <3>1
    <3>3. HeadAt(x) /\ f.rows = RowsFrom(Aim, x, k) /\ Catchup(op.s, x, f.rows)
      BY <1>2, <1>4, <1>5, <2>1
    <3>. HIDE DEF x, k
    <3>4. /\ mtpHist'[op.s] = Upto(Aim, x + k)
          /\ mtpHist' \in [Sessions -> Seq(Tokens)]
          /\ \A s \in Sessions \ {op.s} : mtpHist'[s] = mtpHist[s]
      BY ONLY <1>1, <2>1, <3>1, <3>2, <3>3, HeadGrows
    <3>. QED BY <3>1, <3>4
  <2>2. CASE ~mtp
    BY <1>1, <1>4, <2>2 DEF StageTypes
  <2>. QED BY <2>1, <2>2
<1>9. Aim' = Aim
  BY <1>4 DEF Aim
<1>10. BodySpan'
  <2>1. (HostAt(body.pos + body.lo + Len(body.buf)))'
    BY <1>2, <1>3, <1>4, <1>9 DEF HostAt, P
  <2>2. body'.pos + Got' = P + g
    BY <1>3, <1>5 DEF P
  <2>3. (HeadAt(body.pos + Got))' /\ (Got' = Len(body'.toks) => (LogitsAt(body.pos + Got))')
    BY <1>3, <1>4, <1>5, <1>7, <1>8, <1>9, <2>2 DEF HeadAt, LogitsAt
  <2>. QED BY <1>2, <1>3, <1>4, <2>1, <2>3 DEF BodySpan
<1>11. Verifying' /\ BlockSpan'
  BY <1>3, <1>4 DEF Verifying, BlockSpan
<1>12. body'.i <= body'.count /\ body'.count <= Len(body.toks) /\ body'.count = Len(body.toks)
  BY <1>1, <1>2, <1>3 DEF Bounds
<1>13. \A s \in Sessions \ {op.s} : logits'[s] = logits[s] /\ mtpHist'[s] = mtpHist[s]
  BY <1>7, <1>8
<1>14. PipeInv /\ pc \in {"body", "exchange"} /\ toCoord # <<>>
  OBVIOUS
<1>. QED BY ONLY <1>3, <1>4, <1>7, <1>8, <1>10, <1>11, <1>12, <1>13, <1>14, ReplyRead

\* The reply of a chunk on the exchange thread.
LEMMA BlockReply ==
    ASSUME PipeInv, pc = "exchange", body.exchange = "run", toCoord # <<>>, GoodReply PROVE PipeInv'
<1>. DEFINE f == Head(toCoord)
            p == Head(body.pending)
            P == body.pos
            l == Len(body.toks)
            g == Got + p.n
            last == p.end = body.pos + body.count /\ body.final
            n == IF mtp THEN p.n ELSE IF last THEN 1 ELSE 0
<1>1. TypeInv /\ SessionTypes /\ StageTypes /\ Bounds /\ op.s \in Sessions
  BY OpHasSession DEF PipeInv, TypeInv, SpanInv
<1>2. /\ ~body.stopped /\ ~body.verify /\ BlockRows /\ BlockSpan /\ body.count = Len(body.toks)
      /\ body.i <= body.count
  BY <1>1 DEF PipeInv, SpanInv, BlockSpan, Bounds
<1>3. /\ body' \in BodyType /\ body'.pending = Tail(body.pending) /\ body'.i = body.i
      /\ body'.toks = body.toks /\ body'.pos = body.pos /\ body'.final = body.final
      /\ body'.verify = body.verify /\ body'.lo = body.lo /\ body'.buf = body.buf
      /\ body'.exchange = body.exchange /\ body'.next = body.next
      /\ body'.rows = body.rows \o f.rows /\ ~body'.stopped /\ body'.count = body.count
  BY <1>2, ReplyBody DEF Projects
<1>4. /\ ReplyIs(f, op.s, p.end, n) /\ toCoord' = Tail(toCoord)
      /\ UNCHANGED <<pc, op, mtp, fd, generation, open, gen, ckpt, valid, hostA, specA, up,
                     backlog, conns, toWorker, wpc, wfd, wsess, logits, mtpHist>>
  BY <1>2 DEF GoodReply, Projects
<1>5. /\ g \in Nat /\ Got \in Nat /\ p.n \in Nat \ {0} /\ f.rows = RowsOf(p)
      /\ Got' = g /\ g <= body.i /\ g <= Len(body.toks) /\ p.index = Got
      /\ P + g <= Len(Aim) /\ Aim \in Seq(Tokens) /\ Len(Aim) \in Nat
      /\ p.end = P + g /\ f.rows \in Seq(Seq(Tokens))
      /\ (LastChunk(p) <=> g = Len(body.toks) /\ body.final)
      /\ (mtp => f.rows = RowsFrom(Aim, P + Got, p.n))
  BY <1>3, <1>4, ReplyFacts
<1>6. P \in Nat /\ l \in Nat
  BY <1>1, BodyTypes
<1>. DEFINE a == Got
            k == p.n
<1>7. a \in Nat /\ k \in Nat \ {0} /\ g = a + k /\ g <= l
  BY <1>5
<1>8. Aim' = Aim /\ Rest' = Rest
  BY <1>3, <1>4 DEF Aim, Rest
<1>9. BlockRows'
  <2>1. CASE mtp
    <3>1. body.rows = RowsFrom(Aim, P, a) /\ f.rows = RowsFrom(Aim, P + a, k)
      BY <1>2, <1>5, <2>1 DEF BlockRows, RowsTo
    <3>2. RowsFrom(Aim, P, a) \o RowsFrom(Aim, P + a, k) = RowsFrom(Aim, P, a + k)
      <4>1. P + a + k <= Len(Aim)
        <5>1. P + g <= Len(Aim)
          BY <1>5
        <5>. HIDE DEF P, a, k, g
        <5>. QED BY ONLY <1>5, <1>6, <1>7, <5>1
      <4>2. Aim \in Seq(Tokens) /\ P \in Nat /\ a \in Nat /\ k \in Nat
        BY <1>5, <1>6, <1>7
      <4>. HIDE DEF P, a, k, g
      <4>. QED BY ONLY <4>1, <4>2, RowsJoin
    <3>3. body'.rows = RowsFrom(Aim, P, g)
      BY <1>3, <3>1, <3>2
    <3>4. RowsTo(Got)' = RowsFrom(Aim, P, g)
      BY <1>3, <1>5, <1>8 DEF RowsTo
    <3>. QED BY <1>4, <2>1, <3>3, <3>4 DEF BlockRows
  <2>2. CASE ~mtp
    <3>1. body.rows = <<>>
      <4>1. a # l
        <5>. HIDE DEF a, k, g, l
        <5>. QED BY ONLY <1>6, <1>7
      <4>. QED BY <1>2, <2>2, <4>1 DEF BlockRows
    <3>2. <<>> \o f.rows = f.rows
      BY <1>5, ConcatEmptySeq
    <3>3. body'.rows = IF body.final /\ g = l THEN <<Upto(Aim, P + g)>> ELSE <<>>
      BY <1>3, <1>5, <2>2, <3>1, <3>2 DEF RowsOf
    <3>4. g = l => P + g = P + l
      OBVIOUS
    <3>5. body'.rows = IF body.final /\ g = l THEN <<Upto(Aim, P + l)>> ELSE <<>>
      BY <3>3, <3>4
    <3>6. body'.final = body.final /\ Got' = g /\ Len(body'.toks) = l /\ body'.pos = P /\ mtp' = mtp
      BY <1>3, <1>4, <1>5
    <3>. HIDE DEF g, l, P
    <3>. QED BY <1>8, <2>2, <3>5, <3>6 DEF BlockRows
  <2>. QED BY <2>1, <2>2
<1>10. BlockSpan'
  <2>1. (HostAt(body.pos + Len(body.toks) + Len(body.next)) /\ HeadAt(body.pos))'
    BY <1>2, <1>3, <1>4, <1>8 DEF BlockSpan, HostAt, HeadAt
  <2>2. body'.exchange = "run"
    BY <1>3
  <2>. QED BY <1>2, <1>3, <1>4, <1>8, <1>9, <2>1, <2>2 DEF BlockSpan
<1>11. Verifying' /\ BodySpan'
  BY <1>3, <1>4 DEF Verifying, BodySpan
<1>12. body'.i <= body'.count /\ body'.count <= Len(body.toks) /\ body'.count = Len(body.toks)
  BY <1>1, <1>2, <1>3 DEF Bounds
<1>13. /\ logits' \in [Sessions -> Seq(Tokens)] /\ mtpHist' \in [Sessions -> Seq(Tokens)]
       /\ \A s \in Sessions \ {op.s} : logits'[s] = logits[s] /\ mtpHist'[s] = mtpHist[s]
  BY <1>1, <1>4 DEF SessionTypes, StageTypes
<1>14. PipeInv /\ pc \in {"body", "exchange"} /\ toCoord # <<>>
  OBVIOUS
<1>. QED BY ONLY <1>3, <1>4, <1>10, <1>11, <1>12, <1>13, <1>14, ReplyRead

\* The reply of a candidate.
LEMMA VerifyReply ==
    ASSUME PipeInv, pc = "body", body.verify, toCoord # <<>>, GoodReply PROVE PipeInv'
<1>. DEFINE f == Head(toCoord)
            p == Head(body.pending)
            P == body.pos
            l == Len(body.toks)
            a == Got
            g == Got + p.n
            row == Upto(Aim, P + g)
            last == p.end = body.pos + body.count /\ body.final
            n == IF mtp THEN p.n ELSE IF last THEN 1 ELSE 0
            stop == Projects /\ Refutes(f.rows[1], p.index)
<1>1. TypeInv /\ SessionTypes /\ StageTypes /\ Bounds /\ op.s \in Sessions /\ mtp
  BY OpHasSession, SpecFacts DEF PipeInv, TypeInv, SpanInv
<1>2. /\ body.exchange = "no" /\ BodySpan /\ Verifying /\ Judged /\ body.i <= body.count
      /\ body.count <= Len(body.toks) /\ (~body.stopped => body.count = l)
      /\ (body.stopped => body.count = body.i)
  BY <1>1 DEF PipeInv, SpanInv, BodySpan, Verifying, Bounds
<1>3. /\ body' \in BodyType /\ body'.pending = Tail(body.pending) /\ body'.i = body.i
      /\ body'.toks = body.toks /\ body'.pos = body.pos /\ body'.final = body.final
      /\ body'.verify = body.verify /\ body'.lo = body.lo /\ body'.buf = body.buf
      /\ body'.exchange = body.exchange /\ body'.next = body.next
      /\ body'.rows = body.rows \o f.rows /\ body'.stopped = (body.stopped \/ stop)
      /\ body'.count = (IF stop THEN body.i ELSE body.count)
  BY ReplyBody
<1>4. /\ ReplyIs(f, op.s, p.end, n) /\ toCoord' = Tail(toCoord)
      /\ logits' = IF Projects THEN [logits EXCEPT ![op.s] = f.rows[Len(f.rows)]] ELSE logits
      /\ UNCHANGED <<pc, op, mtp, fd, generation, open, gen, ckpt, valid, hostA, specA, up,
                     backlog, conns, toWorker, wpc, wfd, wsess, mtpHist>>
  BY DEF GoodReply
<1>5. /\ g \in Nat /\ a \in Nat /\ p.n = 1 /\ g = a + 1
      /\ Got' = g /\ g <= body.i /\ g <= l /\ p.index = a
      /\ P + g <= Len(Aim) /\ Aim \in Seq(Tokens) /\ row \in Seq(Tokens)
      /\ f.rows = RowsFrom(Aim, P + a, 1) /\ f.rows[Len(f.rows)] = row
  BY <1>1, <1>3, <1>4, ReplyFacts
<1>6. P \in Nat /\ l \in Nat /\ body.i \in Nat /\ body.stopped \in BOOLEAN
  BY <1>1, BodyTypes
<1>7. Projects <=> ~body.stopped
  BY DEF Projects
<1>8. f.rows[1] = row
  <2>1. f.rows = [k \in 1 .. 1 |-> Upto(Aim, P + a + k)]
    BY <1>5 DEF RowsFrom
  <2>2. Len(f.rows) = 1
    BY <2>1
  <2>. QED BY <1>5, <2>2
<1>9. stop <=> ~body.stopped /\ (body.toks[g] = Eos \/ (g < l /\ Target(row) # body.toks[g + 1]))
  <2>1. a + 1 = g /\ a + 2 = g + 1
    <3>. HIDE DEF a, g
    <3>. QED BY <1>5
  <2>2. Refutes(row, a) <=> body.toks[a + 1] = Eos \/ (a + 1 < body.count /\ Target(row) # body.toks[a + 2])
    BY DEF Refutes
  <2>. HIDE DEF a, g, row, l
  <2>. QED BY <1>2, <1>5, <1>7, <1>8, <2>1, <2>2
<1>10. Aim' = Aim
  BY <1>4 DEF Aim
<1>. HIDE DEF stop, row, a, g, l, P, last, n, f, p
<1>11. body.rows = RowsFrom(Aim, P, a) /\ body'.rows = RowsFrom(Aim, P, g)
       /\ body'.rows = RowsTo(Got)'
  <2>1. body.rows = RowsFrom(Aim, P, a)
    BY <1>2 DEF Judged, RowsTo, a, P
  <2>2. RowsFrom(Aim, P, a) \o RowsFrom(Aim, P + a, 1) = RowsFrom(Aim, P, a + 1)
    <3>1. Aim \in Seq(Tokens) /\ P \in Nat /\ a \in Nat /\ 1 \in Nat /\ P + a + 1 <= Len(Aim)
      <4>1. P + a + 1 = P + g
        BY <1>5, <1>6
      <4>. QED BY <1>5, <1>6, <4>1
    <3>. QED BY ONLY <3>1, RowsJoin
  <2>3. body'.rows = RowsFrom(Aim, P, g)
    BY <1>3, <1>5, <2>1, <2>2
  <2>. QED BY <1>3, <1>5, <1>10, <2>1, <2>3 DEF RowsTo, P
<1>12. \A k \in 1 .. g : body'.rows[k] = Upto(Aim, P + k)
  BY <1>11 DEF RowsFrom
<1>13. \A k \in 1 .. a : body.rows[k] = Upto(Aim, P + k) /\ k \in 1 .. g
  <2>1. \A k \in 1 .. a : k \in 1 .. g
    BY <1>5
  <2>. QED BY <1>11, <2>1 DEF RowsFrom
<1>14. \A k \in 1 .. a : Follows(k)' <=> Follows(k)
  BY <1>3, <1>12, <1>13 DEF Follows
<1>15. body'.rows[g] = row /\ g \in 1 .. g /\ g > 0
  <2>1. g \in 1 .. g /\ g > 0
    BY <1>5
  <2>. QED BY <1>12, <2>1 DEF row
<1>16. \A k \in 1 .. g : k \in 1 .. a \/ k = g
  BY <1>5
<1>17. Judged'
  <2>1. CASE body.stopped
    <3>1. body'.stopped /\ logits' = logits
      BY <1>3, <1>4, <1>7, <2>1
    <3>2. PICK k \in 1 .. a : Refuted(k) /\ logits[op.s] = Upto(Aim, P + k)
      BY <1>2, <2>1 DEF Judged, a, P
    <3>3. k \in 1 .. g /\ \A j \in 1 .. k - 1 : j \in 1 .. a
      BY <1>5, <3>2
    <3>4. Refuted(k)'
      BY <1>14, <3>2, <3>3 DEF Refuted
    <3>5. k \in 1 .. Got' /\ logits'[op'.s] = Upto(Aim', body'.pos + k)
      BY <1>3, <1>4, <1>5, <1>10, <3>1, <3>2, <3>3 DEF P
    <3>. QED BY <1>11, <3>1, <3>4, <3>5 DEF Judged
  <2>2. ASSUME ~body.stopped
        PROVE  /\ logits'[op'.s] = Upto(Aim', body'.pos + g)
               /\ \A k \in 1 .. a : body.toks[k] # Eos /\ (k < l => Follows(k))
    <3>1. logits' = [logits EXCEPT ![op.s] = row]
      BY <1>4, <1>5, <1>7, <2>2
    <3>2. logits'[op'.s] = row
      BY <1>1, <1>4, <3>1 DEF SessionTypes
    <3>. QED BY <1>2, <1>3, <1>10, <2>2, <3>2 DEF Judged, row, a, l, P
  <2>3. CASE ~body.stopped /\ ~stop
    <3>1. ~body'.stopped
      BY <1>3, <2>3
    <3>2. body.toks[g] # Eos /\ (g < l => Target(row) = body.toks[g + 1])
      BY <1>9, <2>3
    <3>3. \A x : x = g => (g < l => Follows(x)')
      BY <1>3, <1>15, <3>2 DEF Follows
    <3>4. \A k \in 1 .. g : body'.toks[k] # Eos /\ (k < Len(body'.toks) => Follows(k)')
      <4>. TAKE k \in 1 .. g
      <4>1. CASE k = g
        BY <1>3, <3>2, <3>3, <4>1 DEF l
      <4>2. CASE k \in 1 .. a
        BY <1>3, <1>14, <2>2, <2>3, <4>2 DEF l
      <4>. QED BY <1>16, <4>1, <4>2
    <3>5. logits'[op'.s] = Upto(Aim', body'.pos + Got')
      BY <1>5, <2>2, <2>3
    <3>. QED BY <1>5, <1>11, <3>1, <3>4, <3>5 DEF Judged
  <2>4. CASE ~body.stopped /\ stop
    <3>1. body'.stopped
      BY <1>3, <2>4
    <3>2. body.toks[g] = Eos \/ (g < l /\ Target(row) # body.toks[g + 1])
      BY <1>9, <2>4
    <3>3. \A x : x = g => ~Follows(x)'
      BY <1>3, <1>15, <3>2 DEF Follows
    <3>4. \A j \in 1 .. g - 1 : Follows(j)'
      <4>. TAKE j \in 1 .. g - 1
      <4>1. j \in 1 .. a /\ j < l
        BY <1>5, <1>6
      <4>. QED BY <1>14, <2>2, <2>4, <4>1
    <3>5. \A x : x = g => Refuted(x)'
      BY <3>3, <3>4 DEF Refuted
    <3>6. \A x : x = g => x \in 1 .. Got' /\ Refuted(x)' /\ logits'[op'.s] = Upto(Aim', body'.pos + x)
      BY <1>5, <1>15, <2>2, <2>4, <3>5
    <3>7. \E x \in 1 .. Got' : Refuted(x)' /\ logits'[op'.s] = Upto(Aim', body'.pos + x)
      BY <3>6
    <3>. QED BY <1>11, <3>1, <3>7 DEF Judged
  <2>. QED BY <2>1, <2>3, <2>4
<1>18. Verifying'
  <2>1. (HostAt(body.pos + body.lo + Len(body.buf)) /\ HeadAt(body.pos))'
    BY <1>2, <1>3, <1>4, <1>10 DEF Verifying, HostAt, HeadAt
  <2>. QED BY <1>2, <1>3, <1>4, <1>17, <2>1 DEF Verifying
<1>19. BodySpan' /\ BlockSpan'
  <2>1. HostAt(body.pos + body.lo + Len(body.buf))'
    BY <1>2, <1>3, <1>4, <1>10 DEF Verifying, HostAt
  <2>. QED BY <1>2, <1>3, <1>4, <2>1 DEF BodySpan, BlockSpan
<1>20. /\ body'.i <= body'.count /\ body'.count <= Len(body.toks)
       /\ (~body'.stopped => body'.count = Len(body.toks)) /\ (body'.stopped => body'.count = body.i)
  <2>1. stop => ~body.stopped
    BY <1>9
  <2>2. body.i <= l
    <3>1. body.count \in Nat
      BY <1>1, BodyTypes
    <3>. QED BY <1>2, <1>6, <3>1 DEF l
  <2>3. CASE stop
    <3>1. body'.stopped /\ body'.count = body.i
      BY <1>3, <2>3
    <3>. QED BY <1>3, <1>6, <2>2, <3>1 DEF l
  <2>4. CASE ~stop
    <3>1. body'.stopped = body.stopped /\ body'.count = body.count
      BY <1>3, <1>6, <2>4
    <3>. QED BY <1>2, <1>3, <3>1 DEF l
  <2>. QED BY <2>3, <2>4
<1>21. /\ logits' \in [Sessions -> Seq(Tokens)] /\ mtpHist' \in [Sessions -> Seq(Tokens)]
       /\ \A s \in Sessions \ {op.s} : logits'[s] = logits[s] /\ mtpHist'[s] = mtpHist[s]
  BY <1>1, <1>4, <1>5 DEF SessionTypes, StageTypes
<1>22. PipeInv /\ pc \in {"body", "exchange"} /\ toCoord # <<>>
  OBVIOUS
<1>. QED BY ONLY <1>3, <1>4, <1>18, <1>19, <1>20, <1>21, <1>22, ReplyRead

LEMMA BodyReceiveKeeps == ASSUME PipeInv, BodyReceive PROVE PipeInv'
<1>1. toCoord # <<>> /\ Exchanging /\ (BodyFails \/ GoodReply)
  BY ReceiveCases
<1>2. pc = "body" \/ (pc = "exchange" /\ body.exchange = "run")
  BY <1>1 DEF Exchanging
<1>3. CASE BodyFails /\ pc = "exchange"
  BY <1>3, ThreadsKeep
<1>4. CASE BodyFails /\ pc = "body"
  BY <1>4, FailKeeps DEF BodyFails, FailOp
<1>5. CASE GoodReply /\ pc = "exchange"
  BY <1>1, <1>2, <1>5, BlockReply
<1>6. CASE GoodReply /\ pc = "body"
  BY <1>1, <1>6, PlainReply, VerifyReply
<1>. QED BY <1>1, <1>2, <1>3, <1>4, <1>5, <1>6

\* The operation gives up.
LEMMA GivesUpKeeps == ASSUME PipeInv, OpCancelled \/ LinkFails \/ ExchangeEnds PROVE PipeInv'
BY FailKeeps DEF OpCancelled, LinkFails, ExchangeEnds, FailOp

-----------------------------------------------------------------------------
(* The worker. *)

\* Nothing of the operation changes; its frames match what was asked.
LEMMA WorkerOnly ==
    ASSUME PipeInv, TypeInv', UNCHANGED <<engineVars, sessVars, stageVars, opVars>>,
           Resting', FramesOK', WorkerFollows'
    PROVE  PipeInv'
<1>. USE DEF engineVars, sessVars, stageVars, opVars
<1>1. Aim' = Aim /\ StartPos' = StartPos
  BY DEF Aim, StartPos
<1>2. Speculates'
  BY DEF PipeInv, Speculates
<1>3. OpOK'
  BY <1>1 DEF PipeInv, OpOK, SpansOK, SpanOK, Sampled
<1>4. AtSpan'
  BY <1>1 DEF PipeInv, AtSpan, HostAt, HeadAt, LogitsAt
<1>5. SpanInv'
  <2>1. Bounds' = Bounds
    BY <1>1 DEF Bounds, Got, Cursor, ChunkOK
  <2>2. Judged' = Judged
    BY <1>1 DEF Judged, Got, Cursor, RowsTo, Refuted, Follows
  <2>3. (BodySpan /\ Verifying)' = (BodySpan /\ Verifying)
    BY <1>1, <2>2 DEF BodySpan, Verifying, HostAt, HeadAt, LogitsAt, Got, Cursor
  <2>4. BlockSpan' = BlockSpan
    BY <1>1 DEF BlockSpan, BlockRows, RowsTo, HostAt, HeadAt, Got, Cursor, BodyFinished, Rest
  <2>5. Committing' = Committing
    BY <1>1, <2>2 DEF Committing, HostAt, HeadAt, CommitLen, Follows
  <2>. QED BY <2>1, <2>3, <2>4, <2>5 DEF PipeInv, SpanInv
<1>. QED BY <1>2, <1>3, <1>4, <1>5 DEF PipeInv, WireInv

LEMMA ConnectKeeps == ASSUME PipeInv, WorkerConnect PROVE PipeInv'
<1>1. SessionTypes /\ StageTypes /\ ControlTypes /\ Links
  BY DEF PipeInv, TypeInv
<1>2. /\ wpc = "away" /\ conns < MaxConns /\ conns' = conns + 1 /\ wfd' = conns + 1
      /\ up' = up \cup {conns + 1} /\ backlog' = Append(backlog, conns + 1) /\ wpc' = "hello"
      /\ UNCHANGED <<mtp, fd, generation, open, gen, ckpt, valid, logits, hostA, specA, mtpHist,
                     pc, op, body, toWorker, toCoord, wsess>>
  BY DEF WorkerConnect, Spare, engineVars, sessVars, stageVars, opVars
<1>3. conns \in Nat /\ MaxConns \in Nat /\ fd \in Nat /\ fd <= conns /\ up = {}
      /\ backlog \in Seq(Nat \ {0}) /\ Len(backlog) \in Nat
  BY <1>1, <1>2, CapsAssumption, LenProperties DEF Links
<1>4. SessionTypes' /\ StageTypes' /\ ControlTypes'
  BY <1>1, <1>2 DEF SessionTypes, StageTypes, ControlTypes
<1>5. /\ backlog' \in Seq(Nat \ {0}) /\ Len(backlog') = Len(backlog) + 1
      /\ backlog'[Len(backlog) + 1] = conns + 1
      /\ \A i \in 1 .. Len(backlog) : backlog'[i] = backlog[i]
  <2>1. conns + 1 \in Nat \ {0}
    BY <1>3
  <2>. QED BY <1>2, <1>3, <2>1, AppendProperties
<1>6. \A i \in 1 .. Len(backlog) :
         /\ backlog[i] <= conns /\ backlog[i] # fd /\ backlog[i] \in Nat
         /\ \A k \in 1 .. Len(backlog) : backlog[i] = backlog[k] => i = k
  <2>1. DOMAIN backlog = 1 .. Len(backlog)
    BY <1>3, LenProperties
  <2>2. \A i \in 1 .. Len(backlog) : backlog[i] \in Nat
    BY <1>3, ElementOfSeq
  <2>. QED BY <1>1, <2>1, <2>2 DEF Links
<1>7. Links'
  <2>1. \A i \in DOMAIN backlog' :
           /\ backlog'[i] <= conns' /\ backlog'[i] # fd
           /\ \A k \in DOMAIN backlog' : backlog'[i] = backlog'[k] => i = k
    <3>. DEFINE L == Len(backlog)
                Q == backlog'
                B == backlog
    <3>1. DOMAIN Q = 1 .. L + 1
      BY <1>5, LenProperties
    <3>2. /\ Q[L + 1] = conns + 1 /\ \A i \in 1 .. L : Q[i] = B[i]
          /\ \A i \in 1 .. L : B[i] <= conns /\ B[i] # fd /\ B[i] \in Nat
                               /\ \A k \in 1 .. L : B[i] = B[k] => i = k
          /\ conns \in Nat /\ fd \in Nat /\ fd <= conns /\ L \in Nat /\ conns' = conns + 1
      BY <1>2, <1>3, <1>5, <1>6
    <3>. HIDE DEF Q, L, B
    <3>3. \A i \in 1 .. L + 1 : i \in 1 .. L \/ i = L + 1
      BY ONLY <3>2
    <3>4. \A i \in 1 .. L : Q[i] = B[i] /\ Q[i] <= conns /\ Q[i] # conns + 1 /\ Q[i] <= conns + 1
      <4>. TAKE i \in 1 .. L
      <4>1. Q[i] = B[i] /\ B[i] <= conns /\ B[i] \in Nat
        BY <3>2
      <4>. QED BY ONLY <3>2, <4>1
    <3>5. ASSUME NEW i \in 1 .. L + 1 PROVE Q[i] <= conns' /\ Q[i] # fd
      <4>1. CASE i = L + 1
        BY ONLY <3>2, <4>1
      <4>2. CASE i \in 1 .. L
        BY ONLY <3>2, <3>4, <4>2
      <4>. QED BY <3>3, <4>1, <4>2
    <3>6. ASSUME NEW i \in 1 .. L + 1, NEW k \in 1 .. L + 1, Q[i] = Q[k] PROVE i = k
      BY ONLY <3>2, <3>3, <3>4, <3>6
    <3>7. ASSUME NEW i \in DOMAIN Q
          PROVE Q[i] <= conns' /\ Q[i] # fd /\ (\A k \in DOMAIN Q : Q[i] = Q[k] => i = k)
      BY ONLY <3>1, <3>5, <3>6, <3>7
    <3>. QED BY <3>7 DEF Q
  <2>2. generation' + Len(backlog') <= conns' /\ conns' <= MaxConns /\ conns' \in Nat
        /\ fd' <= conns' /\ wfd' <= conns' /\ wfd' \in Nat /\ wfd' # 0
    <3>1. generation \in Nat /\ generation + Len(backlog) <= conns
      BY <1>1 DEF Links
    <3>. QED BY <1>2, <1>3, <1>5, <3>1
  <2>3. \A s \in Sessions : wsess'[s] = Absent
    BY <1>1, <1>2 DEF Links
  <2>4. up' = {conns + 1}
    BY <1>2, <1>3
  <2>. QED BY <1>1, <1>2, <1>5, <2>1, <2>2, <2>3, <2>4 DEF Links
<1>8. ~Connected'
  BY <1>2, <1>3 DEF Connected
<1>. QED BY <1>2, <1>4, <1>7, <1>8, LinkOnly
         DEF TypeInv, engineVars, sessVars, stageVars, opVars

\* The worker's end of the connection changes hands.
LEMMA WorkerLinks ==
    ASSUME PipeInv, WorkerHello \/ WorkerLost \/ WorkerReplied \/ Break PROVE PipeInv'
<1>. USE DEF engineVars, sessVars, stageVars, opVars, linkVars, workerVars
<1>1. SessionTypes /\ StageTypes /\ ControlTypes /\ Links
  BY DEF PipeInv, TypeInv
<1>2. UNCHANGED <<engineVars, sessVars, stageVars, opVars, toWorker, toCoord, conns, backlog>>
  BY DEF WorkerHello, WorkerLost, WorkerReplied, Break
<1>3. SessionTypes' /\ ControlTypes'
  BY <1>1, <1>2 DEF SessionTypes, ControlTypes
<1>4. CASE WorkerHello \/ WorkerReplied
  <2>1. /\ wpc' = "loop" /\ wpc # "away" /\ wfd' = wfd /\ up' = up /\ wsess' = wsess /\ fd = wfd
    BY <1>4 DEF WorkerHello, WorkerReplied
  <2>2. StageTypes' /\ Links'
    BY <1>1, <1>2, <2>1 DEF StageTypes, Links
  <2>. QED BY <1>2, <1>3, <2>1, <2>2, LinkOnly DEF TypeInv, Connected
<1>5. CASE WorkerLost
  <2>1. wpc' = "away" /\ wfd' = 0 /\ up' = up /\ wsess' = [s \in Sessions |-> Absent] /\ wfd \notin up
    BY <1>5 DEF WorkerLost, Leave
  <2>2. up' = {}
    BY <1>1, <2>1 DEF Links
  <2>3. StageTypes'
    BY <1>1, <1>2, <2>1 DEF StageTypes
  <2>4. Links'
    BY <1>1, <1>2, <2>1, <2>2 DEF Links
  <2>. QED BY <1>2, <1>3, <2>2, <2>3, <2>4, LinkOnly DEF TypeInv, Connected
<1>6. CASE Break
  <2>1. up' \subseteq up /\ wpc' = wpc /\ wfd' = wfd /\ wsess' = wsess
    BY <1>6 DEF Break
  <2>2. StageTypes' /\ Links'
    BY <1>1, <1>2, <2>1 DEF StageTypes, Links
  <2>. QED BY <1>2, <1>3, <2>1, <2>2, LinkOnly DEF TypeInv, Connected
<1>. QED BY <1>4, <1>5, <1>6

\* Nobody is connected, or nothing of the other sessions changes.
LEMMA OthersKeep ==
    ASSUME PipeInv, pc # "idle", UNCHANGED <<engineVars, sessVars, stageVars, opVars>>,
           Connected' => Connected,
           Connected' => \A s \in Sessions \ {op.s} : wsess'[s] = wsess[s]
    PROVE  Resting'
<1>1. pc' # "idle" /\ op'.s = op.s
      /\ UNCHANGED <<mtp, fd, generation, open, gen, ckpt, valid, logits, hostA, mtpHist>>
  BY DEF engineVars, sessVars, stageVars, opVars
<1>. QED BY <1>1, OthersRest

\* The operation during which a request travels.
LEMMA SomethingAsked ==
    ASSUME PipeInv, toWorker # <<>>
    PROVE  pc \in {"created", "freeing", "ack", "body", "exchange"} /\ op.s \in Sessions
<1>1. pc \notin {"idle", "route", "create", "span", "commit"}
  BY QueuesEmpty DEF PipeInv, WireInv
<1>2. pc \in Pcs
  BY DEF PipeInv, TypeInv, ControlTypes
<1>. QED BY <1>1, <1>2, OpHasSession DEF Pcs

LEMMA SentHasLength == ASSUME TypeInv PROVE Len(Sent) \in Nat
<1>1. CASE pc \in {"body", "exchange"}
  BY <1>1, SentFacts
<1>2. CASE pc \in {"created", "freeing", "ack"}
  <2>1. \E f : Sent = <<f>>
    BY <1>2 DEF Sent
  <2>. QED BY <2>1
<1>3. CASE pc \notin {"body", "exchange", "created", "freeing", "ack"}
  <2>1. Sent = <<>>
    BY <1>3 DEF Sent
  <2>. QED BY <2>1
<1>. QED BY <1>1, <1>2, <1>3

\* An error closes the connection.
LEMMA RejectKeeps == ASSUME PipeInv, Receives, Reject PROVE PipeInv'
<1>. USE DEF engineVars, sessVars, stageVars, opVars
<1>1. TypeInv /\ SessionTypes /\ StageTypes /\ ControlTypes /\ Links /\ FramesOK
  BY DEF PipeInv, TypeInv, WireInv
<1>2. /\ wfd = fd /\ toWorker # <<>> /\ toWorker' = Tail(toWorker)
      /\ toCoord' = Append(toCoord, ErrorFrame) /\ up' = up \ {wfd}
      /\ wpc' = "away" /\ wfd' = 0 /\ wsess' = [s \in Sessions |-> Absent]
      /\ UNCHANGED <<mtp, fd, generation, open, gen, ckpt, valid, logits, hostA, specA, mtpHist,
                     pc, op, body, backlog, conns>>
  BY DEF Receives, Reject, Leave
<1>3. up' = {} /\ ~Connected'
  BY <1>1, <1>2 DEF Links, Connected
<1>4. toWorker \in Seq(Asked) /\ toCoord \in Seq(Answered) /\ ErrorFrame \in Answered
  BY <1>1 DEF ControlTypes, Answered
<1>5. toWorker' \in Seq(Asked) /\ toCoord' \in Seq(Answered)
  <2>1. toWorker' \in Seq(Asked)
    BY <1>2, <1>4, TailIsPart
  <2>2. toCoord' \in Seq(Answered)
    BY <1>2, <1>4, AppendProperties
  <2>. QED BY <2>1, <2>2
<1>6. TypeInv'
  <2>1. SessionTypes'
    BY <1>1, <1>2 DEF SessionTypes
  <2>2. StageTypes'
    BY <1>1, <1>2 DEF StageTypes
  <2>3. ControlTypes'
    BY <1>1, <1>2, <1>5 DEF ControlTypes
  <2>4. Links'
    BY <1>1, <1>2, <1>3 DEF Links
  <2>. QED BY <2>1, <2>2, <2>3, <2>4 DEF TypeInv
<1>7. pc # "idle"
  BY <1>2, SomethingAsked
<1>8. Resting'
  BY <1>2, <1>3, <1>7, OthersKeep
<1>9. FramesOK'
  <2>1. Aim' = Aim
    BY <1>2 DEF Aim
  <2>2. Sent' = Sent /\ Answers' = Answers
    BY <1>2, <2>1 DEF Sent, Answers, ChunkFrame, FlagsOf, RowsOf, LastChunk, CommitLen, Follows
  <2>3. /\ ErrorFrame \in {Answers[Len(toCoord) + 1], ErrorFrame} /\ Len(Sent) \in Nat
        /\ Matches(Sent, Answers, toWorker, toCoord)
    BY <1>1, SentHasLength DEF FramesOK
  <2>4. Matches(Sent, Answers, Tail(toWorker), Append(toCoord, ErrorFrame))
    BY ONLY <1>2, <1>4, <2>3, MatchesReply
  <2>5. Matches(Sent, Answers, toWorker, toCoord)'
    BY <1>2, <2>2, <2>4 DEF Matches
  <2>. QED BY <1>3, <2>5 DEF FramesOK
<1>10. WorkerFollows'
  BY <1>3 DEF WorkerFollows
<1>. QED BY <1>2, <1>6, <1>8, <1>9, <1>10, WorkerOnly

\* What the worker does with a request that it takes.
Taken(f) ==
    /\ wsess' = [wsess EXCEPT ![op.s] = After(f)]
    /\ toCoord' = Append(toCoord, Reply(f))
    /\ wpc' \in {"loop", "reply"}
    /\ UNCHANGED <<engineVars, sessVars, stageVars, opVars, up, backlog, conns, wfd>>

\* A request that the worker takes: it is the next one that was asked, its reply
\* is the one that is waited for.
LEMMA HandleKeeps ==
    ASSUME PipeInv, Receives, Taken(Head(toWorker)), WorkerFollows',
           After(Head(toWorker)) \in Stages \cup {Absent},
           Reply(Head(toWorker)) \in Answered \ {ErrorFrame},
           Reply(Head(toWorker)) = Answers[Len(toCoord) + 1]
    PROVE  PipeInv'
<1>. USE DEF engineVars, sessVars, stageVars, opVars
<1>. DEFINE f == Head(toWorker)
<1>0. /\ toWorker # <<>> /\ wsess' = [wsess EXCEPT ![op.s] = After(f)]
      /\ toCoord' = Append(toCoord, Reply(f)) /\ wpc' \in {"loop", "reply"}
      /\ UNCHANGED <<mtp, fd, generation, open, gen, ckpt, valid, logits, hostA, specA, mtpHist,
                     pc, op, body, up, backlog, conns, wfd>>
  BY DEF Receives, Taken
<1>1. TypeInv /\ SessionTypes /\ StageTypes /\ ControlTypes /\ Links /\ FramesOK
  BY DEF PipeInv, TypeInv, WireInv
<1>2. wpc = "loop" /\ Connected /\ Connected' /\ toWorker' = Tail(toWorker)
  BY <1>0 DEF Receives, Connected
<1>3. pc # "idle" /\ op.s \in Sessions
  BY <1>0, SomethingAsked
<1>4. toWorker \in Seq(Asked) /\ toCoord \in Seq(Answered)
  BY <1>1 DEF ControlTypes
<1>5. /\ toWorker' \in Seq(Asked) /\ toCoord' \in Seq(Answered)
      /\ Len(toCoord) \in Nat /\ Len(toCoord') = Len(toCoord) + 1
      /\ toCoord'[Len(toCoord) + 1] = Reply(f)
      /\ \A k \in 1 .. Len(toCoord) : toCoord'[k] = toCoord[k]
  <2>. DEFINE r == Reply(f)
  <2>1. toWorker' \in Seq(Asked)
    BY <1>0, <1>2, <1>4, TailIsPart
  <2>2. r \in Answered /\ toCoord' = Append(toCoord, r)
    BY <1>0
  <2>. HIDE DEF r
  <2>3. /\ toCoord' \in Seq(Answered)
        /\ Len(toCoord) \in Nat /\ Len(toCoord') = Len(toCoord) + 1
        /\ toCoord'[Len(toCoord) + 1] = r
        /\ \A k \in 1 .. Len(toCoord) : toCoord'[k] = toCoord[k]
    BY ONLY <1>4, <2>2, AppendProperties, LenProperties
  <2>. QED BY <2>1, <2>3 DEF r
<1>6. wsess' \in [Sessions -> Stages \cup {Absent}] /\ \A s \in Sessions \ {op.s} : wsess'[s] = wsess[s]
  <2>. DEFINE a == After(f)
  <2>1. wsess \in [Sessions -> Stages \cup {Absent}] /\ a \in Stages \cup {Absent}
        /\ wsess' = [wsess EXCEPT ![op.s] = a]
    BY <1>0, <1>1 DEF StageTypes
  <2>. HIDE DEF a
  <2>. QED BY ONLY <1>3, <2>1
<1>7. TypeInv'
  <2>1. SessionTypes'
    BY <1>0, <1>1 DEF SessionTypes
  <2>2. StageTypes'
    BY <1>0, <1>1, <1>6 DEF StageTypes
  <2>3. ControlTypes'
    BY <1>0, <1>1, <1>5 DEF ControlTypes
  <2>4. Links'
    <3>1. wpc' # "away" /\ wpc' # "hello" /\ wpc = "loop"
          /\ UNCHANGED <<fd, generation, conns, wfd, up, backlog>>
      BY <1>0, <1>2
    <3>. QED BY ONLY <1>0, <1>1, <3>1 DEF Links
  <2>. QED BY <2>1, <2>2, <2>3, <2>4 DEF TypeInv
<1>8. Resting'
  BY <1>0, <1>2, <1>3, <1>6, OthersKeep
<1>9. FramesOK'
  <2>1. Aim' = Aim
    BY <1>0 DEF Aim
  <2>2. Sent' = Sent /\ Answers' = Answers
    BY <1>0, <2>1 DEF Sent, Answers, ChunkFrame, FlagsOf, RowsOf, LastChunk, CommitLen, Follows
  <2>. DEFINE r == Reply(f)
  <2>3. /\ r \in {Answers[Len(toCoord) + 1], ErrorFrame} /\ Len(Sent) \in Nat /\ r \in Answered
        /\ Matches(Sent, Answers, toWorker, toCoord) /\ toWorker # <<>>
    BY <1>0, <1>1, SentHasLength DEF FramesOK
  <2>. HIDE DEF r
  <2>4. Matches(Sent, Answers, Tail(toWorker), Append(toCoord, r))
    BY ONLY <1>4, <2>3, MatchesReply
  <2>5. Matches(Sent, Answers, toWorker, toCoord)'
    BY <1>0, <1>2, <2>2, <2>4 DEF Matches, r
  <2>6. \A k \in 1 .. Len(toCoord') : toCoord'[k] # ErrorFrame
    <3>. TAKE k \in 1 .. Len(toCoord')
    <3>1. k \in 1 .. Len(toCoord) \/ k = Len(toCoord) + 1
      BY ONLY <1>5
    <3>2. \A j \in 1 .. Len(toCoord) : toCoord[j] # ErrorFrame
      BY <1>1, <1>2 DEF FramesOK
    <3>. QED BY <1>5, <3>1, <3>2
  <2>. QED BY <2>5, <2>6 DEF FramesOK
<1>. QED BY <1>0, <1>7, <1>8, <1>9, WorkerOnly

\* The request that is handled is the first that has not been answered.
LEMMA HeadAsked ==
    ASSUME PipeInv, toWorker # <<>>
    PROVE  /\ Head(toWorker) = Sent[Len(toCoord) + 1] /\ Len(toCoord) + 1 \in 1 .. Len(Sent)
           /\ Len(toCoord) \in Nat
<1>1. toWorker \in Seq(Asked) /\ toCoord \in Seq(Answered)
  BY DEF PipeInv, TypeInv, ControlTypes
<1>2. Len(Sent) \in Nat /\ Matches(Sent, Answers, toWorker, toCoord)
  BY SentHasLength DEF PipeInv, WireInv, FramesOK
<1>3. Head(toWorker) = Sent[Len(toCoord) + 1] /\ Len(toCoord) + 1 \in 1 .. Len(Sent)
  BY ONLY <1>1, <1>2, toWorker # <<>>, MatchesHead
<1>. QED BY <1>1, <1>3, LenProperties

LEMMA OnlyAsked ==
    ASSUME PipeInv, toWorker # <<>>, pc \in {"created", "freeing", "ack"}
    PROVE  Head(toWorker) = Sent[1] /\ Tail(toWorker) = <<>> /\ Len(toCoord) = 0
<1>1. Len(Sent) = 1
  BY DEF Sent
<1>2. Len(toCoord) = 0 /\ Head(toWorker) = Sent[1]
  BY <1>1, HeadAsked
<1>3. toWorker \in Seq(Asked) /\ Len(toWorker) \in Nat
  BY LenProperties DEF PipeInv, TypeInv, ControlTypes
<1>4. Len(toWorker) = 1
  BY <1>1, <1>2, <1>3 DEF PipeInv, WireInv, FramesOK, Matches
<1>5. Tail(toWorker) \in Seq(Asked) /\ Len(Tail(toWorker)) = 0
  BY <1>3, <1>4, TailIsPart
<1>6. Tail(toWorker) = <<>>
  <2>. DEFINE q == Tail(toWorker)
  <2>1. q \in Seq(Asked) /\ Len(q) = 0
    BY <1>5
  <2>. HIDE DEF q
  <2>2. q = <<>>
    BY <2>1, EmptySeq
  <2>. QED BY <2>2 DEF q
<1>. QED BY <1>2, <1>6

LEMMA ResultTypes ==
    ASSUME NEW s \in Sessions, NEW n \in Nat, NEW rows \in Seq(Seq(Tokens))
    PROVE  Result(s, n, rows) \in Answered /\ Result(s, n, rows) # ErrorFrame
<1>1. Result(s, n, rows) \in Answered
  BY DEF Answered
<1>2. Result(s, n, rows).type = "result" /\ ErrorFrame.type = "error"
  BY DEF Result, ErrorFrame
<1>. QED BY <1>1, <1>2

\* A session is created or freed.
LEMMA HandleCreate ==
    ASSUME PipeInv, Receives, Taken(Head(toWorker)), Takes(Head(toWorker)),
           pc \in {"created", "freeing"}
    PROVE  PipeInv'
<1>. DEFINE f == Head(toWorker)
<1>1. toWorker # <<>> /\ op.s \in Sessions /\ toWorker' = Tail(toWorker)
  BY SomethingAsked DEF Receives
<1>2. f = Sent[1] /\ toWorker' = <<>> /\ Len(toCoord) = 0
  BY <1>1, OnlyAsked
<1>3. f = IF pc = "created" THEN Create(op.s) ELSE Free(op.s)
  BY <1>2 DEF Sent
<1>4. f.id = op.s /\ f.type = IF pc = "created" THEN "create" ELSE "free"
  BY <1>3 DEF Create, Free
<1>. HIDE DEF f
<1>5. Reply(f) = Result(op.s, 0, <<>>)
  BY <1>4 DEF Reply
<1>6. Answers[Len(toCoord) + 1] = Result(op.s, 0, <<>>)
  BY <1>2 DEF Answers
<1>7. Result(op.s, 0, <<>>) \in Answered /\ Result(op.s, 0, <<>>) # ErrorFrame
  BY <1>1, EmptyTypes, ResultTypes
<1>8. After(f) = IF pc = "created" THEN [hist |-> <<>>, spec |-> None] ELSE Absent
  BY <1>4 DEF After
<1>9. [hist |-> <<>>, spec |-> None] \in Stages
  BY EmptyTypes DEF Stages
<1>10. wsess' = [wsess EXCEPT ![op.s] = After(f)] /\ pc' = pc /\ op' = op
  BY DEF Taken, opVars, f
<1>11. wsess'[op.s] = After(f)
  BY <1>1, <1>10 DEF PipeInv, TypeInv, StageTypes
<1>12. WorkerFollows'
  <2>1. pc = "created" => wsess'[op.s] # Absent
    BY <1>8, <1>9, <1>11, StagesAreThere
  <2>2. pc = "freeing" => wsess'[op.s] = Absent
    BY <1>8, <1>11
  <2>. QED BY <1>2, <1>10, <2>1, <2>2 DEF WorkerFollows
<1>13. /\ After(f) \in Stages \cup {Absent} /\ Reply(f) \in Answered \ {ErrorFrame}
       /\ Reply(f) = Answers[Len(toCoord) + 1]
  BY <1>5, <1>6, <1>7, <1>8, <1>9
<1>. QED BY <1>12, <1>13, HandleKeeps DEF f

\* A speculation is committed.
LEMMA HandleCommit ==
    ASSUME PipeInv, Receives, Taken(Head(toWorker)), Takes(Head(toWorker)), pc = "ack"
    PROVE  PipeInv'
<1>. DEFINE f == Head(toWorker)
            P == body.pos
            c == CommitLen
            w == wsess[op.s]
<1>1. toWorker # <<>> /\ op.s \in Sessions /\ toWorker' = Tail(toWorker) /\ Connected
  BY SomethingAsked DEF Receives, Connected
<1>2. f = Sent[1] /\ toWorker' = <<>> /\ Len(toCoord) = 0
  BY <1>1, OnlyAsked
<1>3. f = Commit(op.s, c)
  BY <1>2 DEF Sent
<1>4. f.id = op.s /\ f.type = "commit" /\ f.n = c
  BY <1>3 DEF Commit
<1>5. /\ c \in 1 .. body.count /\ body.count <= Len(body.toks) /\ TypeInv
      /\ P + Len(body.toks) <= Len(Aim)
  BY CommitFacts DEF PipeInv, SpanInv, Bounds
<1>6. Aim \in Seq(Tokens) /\ Len(Aim) \in Nat /\ P \in Nat /\ body.count \in Nat
      /\ Len(body.toks) \in Nat
  BY <1>1, <1>5, AimFacts, BodyTypes
<1>. HIDE DEF f, c
<1>7. P + c \in Nat /\ P + body.count \in Nat /\ P + c <= P + body.count
      /\ P + body.count <= Len(Aim) /\ P + body.count # 0 /\ c \in Nat
  BY <1>5, <1>6
<1>8. w = [hist |-> Upto(Aim, P + body.count), spec |-> P]
  BY <1>1, <1>7 DEF PipeInv, WireInv, WorkerFollows, WorkerAt
<1>9. After(f) = [hist |-> Upto(Upto(Aim, P + body.count), P + c), spec |-> None]
  BY <1>4, <1>8 DEF After
<1>10. Upto(Upto(Aim, P + body.count), P + c) = Upto(Aim, P + c) /\ Upto(Aim, P + c) \in Seq(Tokens)
  <2>. DEFINE x == P + c
              y == P + body.count
  <2>1. x \in Nat /\ y \in Nat /\ x <= y /\ y <= Len(Aim) /\ x <= Len(Aim)
    BY <1>6, <1>7
  <2>. HIDE DEF x, y
  <2>2. Upto(Upto(Aim, y), x) = Upto(Aim, x) /\ Upto(Aim, x) \in Seq(Tokens)
    BY ONLY <1>6, <2>1, UptoUpto, UptoFacts
  <2>. QED BY <2>2 DEF x, y
<1>11. After(f) = [hist |-> Upto(Aim, P + c), spec |-> None] /\ After(f) \in Stages
  BY <1>9, <1>10 DEF Stages
<1>12. Reply(f) = Result(op.s, P + c, <<>>)
  BY <1>4, <1>8 DEF Reply
<1>13. Answers[Len(toCoord) + 1] = Result(op.s, P + c, <<>>)
  BY <1>2 DEF Answers, c
<1>14. Result(op.s, P + c, <<>>) \in Answered /\ Result(op.s, P + c, <<>>) # ErrorFrame
  BY <1>1, <1>7, EmptyTypes, ResultTypes
<1>15. wsess' = [wsess EXCEPT ![op.s] = After(f)]
       /\ UNCHANGED <<pc, op, body, ckpt>>
  BY DEF Taken, opVars, sessVars, f
<1>16. wsess'[op.s] = After(f)
  BY <1>1, <1>5, <1>15 DEF TypeInv, StageTypes
<1>17. WorkerFollows'
  <2>1. Aim' = Aim /\ CommitLen' = c
    BY <1>15 DEF Aim, CommitLen, Follows, c
  <2>2. WorkerAt(body.pos + CommitLen, None)'
    <3>1. After(f) # Absent
      BY <1>11, StagesAreThere
    <3>. QED BY <1>11, <1>15, <1>16, <2>1, <3>1 DEF WorkerAt
  <2>. QED BY <1>2, <1>15, <2>2 DEF WorkerFollows
<1>18. /\ After(f) \in Stages \cup {Absent} /\ Reply(f) \in Answered \ {ErrorFrame}
       /\ Reply(f) = Answers[Len(toCoord) + 1]
  BY <1>11, <1>12, <1>13, <1>14
<1>. QED BY <1>17, <1>18, HandleKeeps DEF f

\* The chunk whose request comes next.
LEMMA ChunkAsked ==
    ASSUME PipeInv, toWorker # <<>>, pc \in {"body", "exchange"},
           NEW p, p = body.pending[Len(toCoord) + 1]
    PROVE  /\ Head(toWorker) = ChunkFrame(p)
           /\ Answers[Len(toCoord) + 1] = Result(op.s, p.end, RowsOf(p))
           /\ p.index \in Nat /\ p.n \in Nat \ {0} /\ p.end \in Nat /\ body.pos \in Nat
           /\ p.end = body.pos + p.index + p.n /\ p.end <= Len(Aim) /\ Handled = p.index
           /\ Aim \in Seq(Tokens) /\ Len(Aim) \in Nat
           /\ \A c : c = Len(toCoord) + 1 => Cursor(c) = p.index + p.n
           /\ body.verify => body.pos > 0 /\ mtp
<1>. DEFINE L == Len(toCoord)
            M == Len(body.pending)
<1>1. TypeInv /\ Bounds /\ op.s \in Sessions
  BY OpHasSession DEF PipeInv, SpanInv
<1>2. L \in Nat /\ L + 1 \in 1 .. M /\ M \in Nat /\ Head(toWorker) = Sent[L + 1]
  BY <1>1, HeadAsked, SentFacts
<1>. HIDE DEF L, M
<1>3. p = body.pending[L + 1]
  BY DEF L
<1>4. p.index \in Nat /\ p.n \in Nat /\ p.end \in Nat /\ body.pos \in Nat /\ body.i \in Nat
      /\ body.count \in Nat /\ Len(body.toks) \in Nat
  BY <1>1, <1>2, <1>3, BodyTypes DEF M
<1>5. Head(toWorker) = ChunkFrame(p) /\ Answers[L + 1] = Result(op.s, p.end, RowsOf(p))
  BY <1>1, <1>2, <1>3, SentFacts DEF M
<1>6. Aim \in Seq(Tokens) /\ Len(Aim) \in Nat
  BY <1>1, AimFacts
<1>7. ChunkOK(L + 1)
  <2>1. L + 1 \in DOMAIN body.pending
    BY <1>1, <1>2, BodyTypes, LenProperties DEF M
  <2>. QED BY <1>1, <2>1 DEF Bounds
<1>8. /\ p.n > 0 /\ p.end = body.pos + p.index + p.n /\ Cursor(L + 1) = p.index + p.n
      /\ Cursor(L + 1) <= body.i
  BY <1>3, <1>7 DEF ChunkOK
<1>9. p.end <= Len(Aim)
  <2>1. /\ body.i <= body.count /\ body.count <= Len(body.toks)
        /\ body.pos + Len(body.toks) <= Len(Aim)
    BY <1>1 DEF Bounds
  <2>. DEFINE i == body.i
              n == body.count
              l == Len(body.toks)
              b == body.pos
              A == Len(Aim)
  <2>2. /\ p.end = b + p.index + p.n /\ p.index + p.n <= i /\ i <= n /\ n <= l /\ b + l <= A
        /\ i \in Nat /\ n \in Nat /\ l \in Nat /\ b \in Nat /\ A \in Nat /\ p.index \in Nat
        /\ p.n \in Nat
    BY <1>4, <1>6, <1>8, <2>1
  <2>. HIDE DEF i, n, l, b, A
  <2>3. p.end <= A
    BY ONLY <2>2
  <2>. QED BY <2>3 DEF A
<1>10. Handled = p.index
  <2>1. L < M
    BY <1>2
  <2>. QED BY <1>3, <2>1 DEF Handled, Cursor, L, M
<1>11. body.verify => body.pos > 0 /\ mtp
  <2>. SUFFICES ASSUME body.verify PROVE body.pos > 0 /\ mtp
    OBVIOUS
  <2>1. pc = "body"
    BY DEF PipeInv, SpanInv, BlockSpan
  <2>2. op.kind = "spec" /\ mtp /\ body.pos = Len(ckpt[op.s])
    BY <2>1, SpecFacts
  <2>3. ckpt[op.s] # <<>>
    BY <2>1, <2>2 DEF PipeInv, OpOK
  <2>4. ckpt[op.s] \in Seq(Tokens) /\ Len(ckpt[op.s]) \in Nat
    BY <1>1, AimFacts
  <2>. QED BY <2>2, <2>3, <2>4, EmptySeq
<1>12. \A c : c = L + 1 => Cursor(c) = p.index + p.n
  BY <1>8
<1>. QED BY <1>4, <1>5, <1>6, <1>8, <1>9, <1>10, <1>11, <1>12 DEF L

\* The rows of a chunk are worked on.
LEMMA HandleWork ==
    ASSUME PipeInv, Receives, Taken(Head(toWorker)), Takes(Head(toWorker)),
           pc \in {"body", "exchange"}
    PROVE  PipeInv'
<1>. DEFINE f == Head(toWorker)
            w == wsess[op.s]
            L == Len(toCoord)
            p == body.pending[L + 1]
            P == body.pos
            a == p.index
            x == P + p.index
            e == p.end
            flags == FlagsOf(p)
<1>1. toWorker # <<>> /\ op.s \in Sessions /\ toWorker' = Tail(toWorker) /\ Connected
  BY SomethingAsked DEF Receives, Connected
<1>2. TypeInv /\ w \in Stages \cup {Absent} /\ wsess \in [Sessions -> Stages \cup {Absent}]
  BY <1>1 DEF PipeInv, TypeInv, StageTypes
<1>3. /\ f = ChunkFrame(p) /\ Answers[L + 1] = Result(op.s, e, RowsOf(p))
      /\ a \in Nat /\ p.n \in Nat \ {0} /\ e \in Nat /\ P \in Nat
      /\ e = x + p.n /\ e <= Len(Aim) /\ Handled = a
      /\ Aim \in Seq(Tokens) /\ Len(Aim) \in Nat
      /\ (\A c : c = L + 1 => Cursor(c) = a + p.n)
      /\ (body.verify => P > 0 /\ mtp)
  <2>1. \A q : q = p => /\ Head(toWorker) = ChunkFrame(q)
           /\ Answers[Len(toCoord) + 1] = Result(op.s, q.end, RowsOf(q))
           /\ q.index \in Nat /\ q.n \in Nat \ {0} /\ q.end \in Nat /\ body.pos \in Nat
           /\ q.end = body.pos + q.index + q.n /\ q.end <= Len(Aim) /\ Handled = q.index
           /\ Aim \in Seq(Tokens) /\ Len(Aim) \in Nat
           /\ (\A c : c = Len(toCoord) + 1 => Cursor(c) = q.index + q.n)
           /\ (body.verify => body.pos > 0 /\ mtp)
    BY <1>1, ChunkAsked
  <2>. QED BY <2>1
<1>. HIDE DEF f, L, p
<1>4. /\ f.id = op.s /\ f.type = "work" /\ f.pos = x /\ f.rows = Seg(Aim, x, e) /\ f.flags = flags
  BY <1>3 DEF ChunkFrame, Work
<1>5. TakesWork(f, w)
  BY <1>4 DEF Takes, f
<1>6. /\ "reset" \in flags <=> x = 0
      /\ "logits" \in flags <=> LastChunk(p) \/ body.verify
      /\ "rows" \in flags <=> mtp
      /\ "spec" \in flags <=> body.verify
      /\ "begin" \in flags <=> body.verify /\ a = 0
  BY DEF FlagsOf
<1>. HIDE DEF flags, P, a, x, e, w
<1>7. x \in Nat /\ x = P + a /\ x <= e /\ x <= Len(Aim) /\ (body.verify => x > 0)
  BY <1>3 DEF P, a, x, e
<1>8. w # Absent /\ (x = 0 \/ w = [hist |-> Upto(Aim, x), spec |-> IF body.verify /\ a > 0 THEN P ELSE None])
  BY <1>1, <1>3, <1>7 DEF PipeInv, WireInv, WorkerFollows, WorkerAt, w, P
<1>9. Upto(w.hist, x) \o f.rows = Upto(Aim, e) /\ Upto(Aim, e) \in Seq(Tokens)
  <2>1. x = 0 \/ w.hist = Upto(Aim, x)
    BY <1>8
  <2>. DEFINE h == w.hist
  <2>. HIDE DEF h
  <2>2. x = 0 \/ h = Upto(Aim, x)
    BY <2>1 DEF h
  <2>3. Upto(h, x) \o Seg(Aim, x, e) = Upto(Aim, e)
    <3>1. /\ x \in Nat /\ e \in Nat /\ x <= x /\ x <= e /\ x <= Len(Aim) /\ e <= Len(Aim)
          /\ Aim \in Seq(Tokens)
      BY <1>3, <1>7
    <3>. QED BY ONLY <2>2, <3>1, GrowsTo
  <2>4. Upto(Aim, e) \in Seq(Tokens)
    BY ONLY <1>3, UptoFacts
  <2>. QED BY <1>4, <2>3, <2>4 DEF h
<1>10. (IF "begin" \in f.flags THEN f.pos ELSE w.spec) = IF body.verify THEN P ELSE None
  <2>1. CASE body.verify
    <3>1. x > 0 /\ w.spec = IF a > 0 THEN P ELSE None
      BY <1>7, <1>8, <2>1
    <3>. QED BY <1>3, <1>4, <1>6, <1>7, <2>1, <3>1
  <2>2. CASE ~body.verify
    BY <1>4, <1>5, <1>6, <2>2 DEF TakesWork
  <2>. QED BY <2>1, <2>2
<1>11. After(f) = [hist |-> Upto(Aim, e), spec |-> IF body.verify THEN P ELSE None]
  <2>1. After(f) = [hist |-> Upto(w.hist, f.pos) \o f.rows,
                    spec |-> IF "begin" \in f.flags THEN f.pos ELSE w.spec]
    BY <1>4 DEF After, w
  <2>. QED BY <1>4, <1>9, <1>10, <2>1
<1>12. After(f) \in Stages /\ After(f).hist = Upto(Aim, e)
  <2>1. (IF body.verify THEN P ELSE None) \in Nat \cup {None}
    BY <1>3
  <2>. QED BY <1>9, <1>11, <2>1 DEF Stages
<1>13. Len(f.rows) = p.n
  <2>1. Len(Seg(Aim, x, e)) = e - x
    <3>1. x \in Nat /\ e \in Nat /\ x <= e /\ e <= Len(Aim) /\ Aim \in Seq(Tokens)
      BY <1>3, <1>7
    <3>. QED BY ONLY <3>1, SegFacts
  <2>. QED BY <1>3, <1>4, <1>7, <2>1
<1>14. Returned(f, Upto(Aim, e)) = RowsOf(p)
  <2>. DEFINE U == Upto(Aim, e)
              m == p.n
  <2>1. CASE mtp
    <3>1. Returned(f, U) = [k \in 1 .. m |-> Upto(U, x + k)]
      BY <1>4, <1>6, <1>13, <2>1 DEF Returned
    <3>2. \A k \in 1 .. m : Upto(U, x + k) = Upto(Aim, x + k)
      <4>. TAKE k \in 1 .. m
      <4>. DEFINE y == x + k
      <4>1. y \in Nat /\ y <= e
        BY <1>3, <1>7
      <4>. HIDE DEF y
      <4>2. Upto(Upto(Aim, e), y) = Upto(Aim, y)
        BY ONLY <1>3, <4>1, UptoUpto
      <4>. QED BY <4>2 DEF y
    <3>3. RowsOf(p) = [k \in 1 .. m |-> Upto(Aim, x + k)]
      BY <2>1 DEF RowsOf, RowsFrom, x, P
    <3>. HIDE DEF U, m
    <3>4. Returned(f, U) = RowsOf(p)
      BY ONLY <3>1, <3>2, <3>3
    <3>. QED BY <3>4 DEF U
  <2>2. CASE ~mtp
    <3>1. ~body.verify
      BY <1>3, <2>2
    <3>. QED BY <1>4, <1>6, <2>2, <3>1 DEF Returned, RowsOf, e
  <2>. QED BY <2>1, <2>2
<1>15. Reply(f) = Result(op.s, e, RowsOf(p))
  <2>1. Reply(f) = Result(f.id, f.pos + Len(f.rows), Returned(f, After(f).hist))
    BY <1>4 DEF Reply
  <2>2. f.pos + Len(f.rows) = e
    BY <1>3, <1>4, <1>13 DEF e, x
  <2>. QED BY <1>4, <1>12, <1>14, <2>1, <2>2
<1>16. RowsOf(p) \in Seq(Seq(Tokens))
  <2>1. CASE mtp
    <3>1. RowsOf(p) = RowsFrom(Aim, x, p.n)
      BY <2>1 DEF RowsOf, x, P
    <3>. DEFINE m == p.n
    <3>2. x \in Nat /\ m \in Nat /\ x + m <= Len(Aim) /\ Aim \in Seq(Tokens)
      BY <1>3, <1>7
    <3>. HIDE DEF m
    <3>3. RowsFrom(Aim, x, m) \in Seq(Seq(Tokens))
      BY ONLY <3>2, RowsFacts
    <3>. QED BY <3>1, <3>3 DEF m
  <2>2. CASE ~mtp
    BY <1>9, <2>2, EmptyTypes DEF RowsOf, e
  <2>. QED BY <2>1, <2>2
<1>17. wsess' = [wsess EXCEPT ![op.s] = After(f)] /\ toCoord' = Append(toCoord, Reply(f))
       /\ UNCHANGED <<pc, op, body, ckpt>>
  BY DEF Taken, opVars, sessVars, f
<1>18. wsess'[op.s] = After(f)
  BY <1>1, <1>2, <1>17
<1>19. /\ After(f) \in Stages \cup {Absent} /\ Reply(f) \in Answered \ {ErrorFrame}
       /\ Reply(f) = Answers[L + 1]
  <2>1. Result(op.s, e, RowsOf(p)) \in Answered /\ Result(op.s, e, RowsOf(p)) # ErrorFrame
    BY <1>1, <1>3, <1>16, ResultTypes
  <2>. QED BY <1>3, <1>12, <1>15, <2>1
<1>20. WorkerFollows'
  <2>1. Aim' = Aim
    BY <1>17 DEF Aim
  <2>2. Len(toCoord') = L + 1
    <3>. DEFINE r == Reply(f)
    <3>1. toCoord \in Seq(Answered) /\ r \in Answered /\ toCoord' = Append(toCoord, r)
      BY <1>2, <1>17, <1>19 DEF TypeInv, ControlTypes
    <3>. HIDE DEF r
    <3>. QED BY ONLY <3>1, AppendProperties DEF L
  <2>3. Handled' = a + p.n
    <3>1. Handled' = IF L + 1 < Len(body.pending) THEN body.pending[(L + 1) + 1].index ELSE body.i
      BY <1>17, <2>2 DEF Handled, Cursor
    <3>2. \A c : c = L + 1 => (IF c < Len(body.pending) THEN body.pending[c + 1].index ELSE body.i) = a + p.n
      BY <1>3 DEF Cursor
    <3>. QED BY <3>1, <3>2
  <2>4. a + p.n > 0 /\ P + (a + p.n) = e /\ body'.pos + Handled' = e
    BY <1>3, <1>17, <2>3 DEF x, P, a, e
  <2>5. WorkerAt(body.pos + Handled, IF body.verify /\ Handled > 0 THEN body.pos ELSE None)'
    <3>1. wsess'[op'.s] = [hist |-> Upto(Aim', e),
                           spec |-> IF body'.verify /\ Handled' > 0 THEN body'.pos ELSE None]
      BY <1>11, <1>17, <1>18, <2>1, <2>3, <2>4 DEF P
    <3>2. wsess'[op'.s] # Absent
      BY <1>12, <1>17, <1>18, StagesAreThere
    <3>. QED BY <2>4, <3>1, <3>2 DEF WorkerAt
  <2>. QED BY <1>17, <2>5 DEF WorkerFollows
<1>. QED BY <1>19, <1>20, HandleKeeps DEF f, L

LEMMA WorkerHandleKeeps == ASSUME PipeInv, WorkerHandle \/ StageFails PROVE PipeInv'
<1>1. CASE StageFails \/ ~Takes(Head(toWorker))
  BY <1>1, RejectKeeps DEF StageFails, WorkerHandle
<1>2. CASE WorkerHandle /\ Takes(Head(toWorker))
  <2>1. Receives /\ toWorker # <<>>
    BY <1>2 DEF WorkerHandle, Receives
  <2>2. pc \in {"created", "freeing", "ack", "body", "exchange"}
    BY <2>1, SomethingAsked
  <2>3. Head(toWorker).id = op.s
    <3>1. CASE pc \in {"created", "freeing", "ack"}
      BY <2>1, <3>1, OnlyAsked DEF Sent, Create, Free, Commit
    <3>2. CASE pc \in {"body", "exchange"}
      <4>1. \A q : q = body.pending[Len(toCoord) + 1] => Head(toWorker) = ChunkFrame(q)
        BY <2>1, <3>2, ChunkAsked
      <4>. QED BY <4>1 DEF ChunkFrame, Work
    <3>. QED BY <2>2, <3>1, <3>2
  <2>4. Taken(Head(toWorker))
    <3>. DEFINE f == Head(toWorker)
    <3>1. /\ wsess' = [wsess EXCEPT ![f.id] = After(f)] /\ toCoord' = Append(toCoord, Reply(f))
          /\ wpc' = (IF Reply(f).rows # <<>> THEN "reply" ELSE "loop")
          /\ UNCHANGED <<engineVars, sessVars, stageVars, opVars, up, backlog, conns, wfd>>
      BY <1>2 DEF WorkerHandle
    <3>. HIDE DEF f
    <3>2. wpc' \in {"loop", "reply"}
      BY <3>1
    <3>. QED BY <2>3, <3>1, <3>2 DEF Taken, f
  <2>. QED BY <1>2, <2>1, <2>2, <2>4, HandleCreate, HandleCommit, HandleWork
<1>. QED BY <1>1, <1>2

-----------------------------------------------------------------------------
(* The invariant is inductive. *)

LEMMA CoordinatorKeeps == ASSUME PipeInv, Coordinator \/ Caller \/ Exchange PROVE PipeInv'
<1>1. CASE LinkFails \/ ExchangeEnds
  BY <1>1, GivesUpKeeps
<1>2. CASE Freed
  BY <1>2, FreedKeeps
<1>3. CASE AcceptWorker
  BY <1>3, AcceptKeeps
<1>4. CASE SendCreate \/ SessionCreated
  BY <1>4, CreateKeeps, CreatedKeeps
<1>5. CASE OpDone
  BY <1>5, DoneKeeps
<1>6. CASE BeginSpan
  BY <1>6, BeginPlainKeeps, BeginOverlappedKeeps
<1>7. CASE BodyIssue
  BY <1>7, BodyIssueKeeps
<1>8. CASE BodySent \/ ExchangeOk \/ ExchangeFails
  BY <1>8, ThreadsKeep
<1>9. CASE BodyReceive
  BY <1>9, BodyReceiveKeeps
<1>10. CASE BodyDone
  BY <1>10, BodyDoneKeeps
<1>11. CASE SendCommit
  BY <1>11, CommitKeeps
<1>12. CASE Acknowledged
  BY <1>12, AckKeeps
<1>13. CASE LocalNext
  BY <1>13, LocalNextKeeps
<1>14. CASE ExchangeJoined
  BY <1>14, ExchangeJoinedKeeps
<1>. QED BY <1>1, <1>2, <1>3, <1>4, <1>5, <1>6, <1>7, <1>8, <1>9, <1>10, <1>11, <1>12,
            <1>13, <1>14 DEF Coordinator, Caller, Exchange

LEMMA PipeNext == ASSUME PipeInv, [Next]_vars PROVE PipeInv'
<1>1. CASE Start
  BY <1>1, StartsKeep
<1>2. CASE Coordinator \/ Caller \/ Exchange
  BY <1>2, CoordinatorKeeps
<1>3. CASE Worker
  BY <1>3, ConnectKeeps, WorkerLinks, WorkerHandleKeeps DEF Worker
<1>4. CASE Failure
  <2>1. OpCancelled => PipeInv'
    BY GivesUpKeeps
  <2>2. Abort => PipeInv'
    BY ThreadsKeep
  <2>3. StageFails => PipeInv'
    BY WorkerHandleKeeps
  <2>4. Break => PipeInv'
    BY WorkerLinks
  <2>. QED BY <1>4, <2>1, <2>2, <2>3, <2>4 DEF Failure
<1>5. CASE UNCHANGED vars
  <2>1. UNCHANGED <<engineVars, sessVars, stageVars, opVars, linkVars, workerVars>>
    BY <1>5 DEF vars
  <2>. USE DEF engineVars, sessVars, stageVars, opVars, linkVars, workerVars
  <2>2. TypeInv'
    BY <2>1 DEF PipeInv, TypeInv, SessionTypes, StageTypes, ControlTypes, Links
  <2>3. Connected' => Connected /\ wsess' = wsess
    BY <2>1 DEF Connected
  <2>. QED BY <2>1, <2>2, <2>3, LinkOnly
<1>. QED BY <1>1, <1>2, <1>3, <1>4, <1>5 DEF Next

LEMMA PipeInvAlways == Spec => []PipeInv
BY InitPipe, PipeNext, PTL DEF Spec

-----------------------------------------------------------------------------
(* What it implies. *)

LEMMA PipeIsTyped == PipeInv => TypeOK
<1>. SUFFICES ASSUME PipeInv PROVE TypeOK
  OBVIOUS
<1>1. SessionTypes /\ StageTypes /\ ControlTypes /\ Links /\ TypeInv
  BY DEF PipeInv, TypeInv
<1>2. MaxConns \in Nat /\ MaxLen \in Nat /\ Window \in Nat
  BY CapsAssumption
<1>3. /\ fd \in 0 .. MaxConns /\ conns \in 0 .. MaxConns /\ wfd \in 0 .. MaxConns
      /\ generation \in 0 .. MaxConns /\ generation \in Nat
  <2>1. Len(backlog) \in Nat
    BY <1>1, LenProperties DEF Links
  <2>. QED BY <1>1, <1>2, <2>1 DEF Links
<1>4. up \in SUBSET (1 .. MaxConns)
  BY <1>1, <1>3 DEF Links
<1>5. backlog \in Seq(1 .. MaxConns)
  <2>1. backlog \in Seq(Nat \ {0}) /\ conns \in Nat /\ conns <= MaxConns
        /\ \A i \in DOMAIN backlog : backlog[i] <= conns
    BY <1>1 DEF Links
  <2>2. \A i \in 1 .. Len(backlog) : backlog[i] \in 1 .. MaxConns
    <3>. TAKE i \in 1 .. Len(backlog)
    <3>1. backlog[i] \in Nat \ {0} /\ backlog[i] <= conns
      BY <2>1, ElementOfSeq, LenProperties
    <3>. QED BY <1>2, <2>1, <3>1
  <2>3. Len(backlog) \in Nat /\ backlog = [i \in 1 .. Len(backlog) |-> backlog[i]]
    BY <2>1, LenProperties
  <2>. DEFINE n == Len(backlog)
              X == 1 .. MaxConns
  <2>4. n \in Nat /\ backlog \in [1 .. n -> X]
    BY <2>2, <2>3
  <2>. HIDE DEF n, X
  <2>5. backlog \in Seq(X)
    BY ONLY <2>4
  <2>. QED BY <2>5 DEF X
<1>6. gen \in [Sessions -> 0 .. generation]
  <2>1. gen \in [Sessions -> Nat] /\ \A s \in Sessions : gen[s] <= generation
    BY <1>1 DEF SessionTypes
  <2>. QED BY ONLY <1>3, <2>1
<1>7. body.i \in 0 .. MaxLen /\ Len(body.pending) \in 0 .. Window
  <2>1. CASE pc \in {"body", "exchange", "commit", "ack"}
    <3>. DEFINE i == body.i
                n == body.count
                l == Len(body.toks)
                b == body.pos
                m == Len(body.pending)
                A == Len(Aim)
    <3>1. Bounds /\ op.s \in Sessions /\ A \in 1 .. MaxLen
      BY <2>1, OpHasSession DEF PipeInv, SpanInv, OpOK
    <3>2. i <= n /\ n <= l /\ b + l <= A /\ m <= Window
      BY <3>1 DEF Bounds
    <3>3. i \in Nat /\ n \in Nat /\ l \in Nat /\ b \in Nat /\ m \in Nat
      BY <1>1, BodyTypes
    <3>. HIDE DEF i, n, l, b, m, A
    <3>4. i \in 0 .. MaxLen /\ m \in 0 .. Window
      BY ONLY <1>2, <3>1, <3>2, <3>3
    <3>. QED BY <3>4 DEF i, m
  <2>2. CASE pc \notin {"body", "exchange", "commit", "ack"}
    <3>1. body.i = 0 /\ Len(body.pending) = 0
      BY <2>2, NoBodyNow DEF NoBody
    <3>. QED BY <1>2, <3>1
  <2>. QED BY <2>1, <2>2
<1>8. op.s \in Sessions \cup {None}
  BY <1>1 DEF ControlTypes, OpType
<1>9. /\ open \in [Sessions -> BOOLEAN] /\ ckpt \in [Sessions -> Seq(Tokens)]
      /\ valid \in [Sessions -> BOOLEAN] /\ logits \in [Sessions -> Seq(Tokens)]
  BY <1>1 DEF SessionTypes
<1>10. /\ hostA \in [Sessions -> Seq(Tokens \cup {Dirty})]
       /\ specA \in [Sessions -> Nat \cup {None}] /\ mtpHist \in [Sessions -> Seq(Tokens)]
  BY <1>1 DEF StageTypes
<1>11. mtp \in BOOLEAN /\ pc \in Pcs /\ wpc \in {"away", "hello", "loop", "reply"}
  BY <1>1 DEF ControlTypes, Links
<1>. QED BY <1>3, <1>4, <1>5, <1>6, <1>7, <1>8, <1>9, <1>10, <1>11 DEF TypeOK, Pcs

LEMMA PipeAgrees == PipeInv => StagesAgree
<1>. SUFFICES ASSUME PipeInv, NEW s \in Sessions, s # op.s
              PROVE  /\ Known(s) /\ valid[s] =>
                            hostA[s] = ckpt[s] /\ specA[s] = None /\ (mtp => mtpHist[s] = ckpt[s])
                     /\ WorkerServes =>
                            /\ wsess[s] # Absent <=> Known(s)
                            /\ Known(s) /\ valid[s] => wsess[s] = [hist |-> ckpt[s], spec |-> None]
  BY DEF StagesAgree
<1>1. Rests(s)
  BY DEF PipeInv, Resting
<1>2. specA[s] = None
  BY DEF PipeInv, Speculates
<1>3. WorkerServes => Connected
  BY DEF WorkerServes, Connected
<1>. QED BY <1>1, <1>2, <1>3 DEF Rests

LEMMA PipeSamples == PipeInv => LogitsMatchCheckpoint
BY DEF PipeInv, Resting, Rests, Sampled, LogitsMatchCheckpoint

\* The model stays typed, within its bounds: the window of chunks, the context,
\* one connection of the worker at a time.
THEOREM PipelineIsTyped == Spec => []TypeOK
BY PipeIsTyped, PipeInvAlways, PTL

\* Whatever breaks, and however the threads, the frames and the connections
\* interleave, a session that can be continued on the connection is the same on
\* both sides (dist_session_ready, dist_eval_span, dist_worker_loop).
THEOREM StagesStayInStep == Spec => []StagesAgree
BY PipeAgrees, PipeInvAlways, PTL

\* No row of another chunk, of a rejected candidate or of an earlier connection
\* becomes the logits that a valid session samples from.
THEOREM LogitsAreOfTheCheckpoint == Spec => []LogitsMatchCheckpoint
BY PipeSamples, PipeInvAlways, PTL

-----------------------------------------------------------------------------
(* What a speculation publishes. *)

\* The tokens that both stages keep are those that greedy decoding chooses.
LEMMA CommitIsGreedy ==
    ASSUME PipeInv, pc = "ack",
           ckpt' = [ckpt EXCEPT ![op.s] = @ \o Upto(op.input, CommitLen)]
    PROVE  Confirmed(ckpt[op.s], ckpt'[op.s], op.input)
<1>. DEFINE old == ckpt[op.s]
            draft == op.input
            n == CommitLen
            c == Len(old)
            l == Len(draft)
            new == Upto(Aim, c + n)
<1>1. TypeInv /\ op.s \in Sessions /\ body.verify /\ Bounds
  BY OpHasSession DEF PipeInv, SpanInv, Committing
<1>2. op.kind = "spec" /\ body.pos = c /\ body.toks = draft /\ Len(Aim) = c + l
  BY <1>1, SpecFacts
<1>3. /\ n \in 1 .. body.count /\ body.count <= l /\ Got = body.count /\ body.rows = RowsTo(Got)
      /\ \A k \in 1 .. n - 1 : Follows(k)
      /\ n < l => ~Follows(n)
  BY <1>2, CommitFacts
<1>4. /\ Aim \in Seq(Tokens) /\ Len(Aim) \in Nat /\ old \in Seq(Tokens) /\ c \in Nat
      /\ draft \in Seq(Tokens) /\ l \in Nat /\ Upto(Aim, c) = old /\ Seg(Aim, c, Len(Aim)) = draft
      /\ (\A m \in 0 .. l : Upto(Aim, c + m) = Cat(old, Upto(draft, m)))
  BY <1>1, <1>2, AimFacts
<1>5. body.count \in Nat
  BY <1>1, BodyTypes
<1>6. n \in 1 .. l /\ n \in Nat /\ n <= l /\ n <= body.count
  BY <1>3, <1>4, <1>5
<1>7. ckpt'[op.s] = new
  <2>1. ckpt'[op.s] = Cat(old, Upto(draft, n))
    BY <1>1 DEF TypeInv, SessionTypes, Cat
  <2>2. n \in 0 .. l
    BY <1>6
  <2>. QED BY <1>4, <2>1, <2>2
<1>8. \A k \in 1 .. body.count : body.rows[k] = Upto(Aim, c + k)
  BY <1>2, <1>3 DEF RowsTo, RowsFrom
<1>9. \A k \in 1 .. n : Follows(k) <=> draft[k] # Eos /\ Target(Upto(Aim, c + k)) = draft[k + 1]
  <2>. TAKE k \in 1 .. n
  <2>1. k \in 1 .. body.count
    BY <1>5, <1>6
  <2>. QED BY <1>2, <1>8, <2>1 DEF Follows
<1>. HIDE DEF old, draft, n, c, l, new
<1>10. c + n \in Nat /\ c + n <= Len(Aim) /\ c <= c + n
  BY <1>2, <1>4, <1>6
<1>11. /\ new \in Seq(Tokens) /\ Len(new) = c + n /\ new = Seg(Aim, 0, c + n)
       /\ \A m \in Nat : m <= c + n => Upto(new, m) = Upto(Aim, m)
  <2>. DEFINE e == c + n
  <2>1. e \in Nat /\ e <= Len(Aim) /\ new = Upto(Aim, e)
    BY <1>10 DEF new
  <2>. HIDE DEF e
  <2>2. new \in Seq(Tokens) /\ Len(new) = e /\ new = Seg(Aim, 0, e)
    BY ONLY <1>4, <2>1, UptoFacts
  <2>3. ASSUME NEW m \in Nat, m <= e PROVE Upto(new, m) = Upto(Aim, m)
    BY ONLY <1>4, <2>1, <2>3, UptoUpto
  <2>. QED BY <2>2, <2>3 DEF e
<1>12. Extends(new, old)
  <2>1. Len(old) = c
    BY DEF c
  <2>2. Upto(new, c) = old
    BY <1>4, <1>10, <1>11
  <2>. QED BY <1>10, <1>11, <2>1, <2>2 DEF Extends
<1>13. From(new, c) = Upto(draft, n)
  <2>. DEFINE e == c + n
              A == Len(Aim)
  <2>1. /\ c \in Nat /\ e \in Nat /\ c <= e /\ e <= A /\ c <= A /\ A \in Nat /\ e <= e /\ 0 \in Nat
        /\ 0 <= c /\ 0 <= e /\ n \in Nat /\ n <= A - c /\ c + n = e /\ c + 0 = c /\ A <= Len(Aim)
        /\ e - 0 = e /\ 0 + c = c /\ 0 + e = e /\ 0 <= n
    BY <1>2, <1>4, <1>6, <1>10
  <2>2. From(new, c) = Seg(new, c, e)
    BY <1>11 DEF From, Seg
  <2>3. new = Seg(Aim, 0, e)
    BY <1>11
  <2>. HIDE DEF e, A
  <2>4. Seg(Seg(Aim, 0, e), c, e) = Seg(Aim, 0 + c, 0 + e)
    <3>1. e <= Len(Aim) /\ e <= e - 0
      BY <2>1 DEF A
    <3>. QED BY ONLY <1>4, <2>1, <3>1, SegOfSeg
  <2>5. Seg(Seg(Aim, c, A), 0, n) = Seg(Aim, c + 0, c + n)
    BY ONLY <1>4, <2>1, SegOfSeg
  <2>6. Upto(draft, n) = Seg(draft, 0, n)
    BY DEF Upto, Seg
  <2>7. draft = Seg(Aim, c, A)
    BY <1>4 DEF A
  <2>. QED BY <2>1, <2>2, <2>3, <2>4, <2>5, <2>6, <2>7
<1>14. \A k \in 2 .. n : draft[k] = Target(Upto(new, c + k - 1))
  <2>. TAKE k \in 2 .. n
  <2>. DEFINE j == k - 1
  <2>1. j \in 1 .. n - 1 /\ j \in 1 .. n /\ j + 1 = k /\ c + j \in Nat /\ c + j <= c + n
        /\ c + k - 1 = c + j
    BY <1>4, <1>6
  <2>2. Follows(j)
    BY <1>3, <2>1 DEF n
  <2>3. Target(Upto(Aim, c + j)) = draft[j + 1]
    BY <1>9, <2>1, <2>2
  <2>4. Upto(new, c + j) = Upto(Aim, c + j)
    BY <1>11, <2>1
  <2>. QED BY <2>1, <2>3, <2>4
<1>15. \A k \in 1 .. n - 1 : draft[k] # Eos
  <2>. TAKE k \in 1 .. n - 1
  <2>1. k \in 1 .. n /\ Follows(k)
    BY <1>3, <1>6 DEF n
  <2>. QED BY <1>9, <2>1
<1>16. n < l => draft[n] = Eos \/ draft[n + 1] # Target(new)
  <2>1. n \in 1 .. n
    BY <1>6
  <2>2. n < l => ~Follows(n)
    BY <1>3 DEF n, l
  <2>. QED BY <1>9, <2>1, <2>2 DEF new
<1>17. Len(new) - Len(old) = n
  <2>1. Len(old) = c
    BY DEF c
  <2>. QED BY <1>4, <1>6, <1>11, <2>1
<1>18. Confirmed(old, new, draft)
  <2>1. Len(old) = c /\ Len(draft) = l
    BY DEF c, l
  <2>. QED BY <1>6, <1>12, <1>13, <1>14, <1>15, <1>16, <1>17, <2>1 DEF Confirmed
<1>. QED BY <1>7, <1>18 DEF old, draft

\* A speculation ends in a commit, or it invalidates its session.
LEMMA SpecEnds ==
    ASSUME PipeInv, [Next]_vars, op.kind = "spec", pc' = "idle", valid'[op.s]
    PROVE  Confirmed(ckpt[op.s], ckpt'[op.s], op.input)
<1>1. pc \notin {"idle", "freeing"} /\ op.s \in Sessions /\ op.spans # <<>>
  <2>1. pc # "idle" /\ pc # "freeing"
    BY DEF PipeInv, OpOK, NoOp
  <2>. QED BY <2>1, OpHasSession DEF PipeInv, OpOK
<1>2. ~Fail
  <2>. SUFFICES ASSUME Fail PROVE FALSE
    OBVIOUS
  <2>1. valid' = [valid EXCEPT ![op.s] = FALSE]
    BY DEF Fail
  <2>2. valid \in [Sessions -> BOOLEAN]
    BY DEF PipeInv, TypeInv, SessionTypes
  <2>. QED BY <1>1, <2>1, <2>2
<1>3. ~FailOp
  BY <1>2 DEF FailOp
<1>4. ~Start /\ ~Freed /\ ~OpDone
  BY <1>1 DEF Start, SyncStart, EvalStart, SpecStart, StartOp, Invalidate, FreeSession, Freed, OpDone
<1>5. Acknowledged
  <2>1. pc' # pc
    BY <1>1
  <2>2. ~(UNCHANGED vars \/ Worker \/ Abort \/ StageFails \/ Break)
    BY <2>1 DEF vars, opVars, Worker, WorkerConnect, WorkerHello, WorkerLost, WorkerHandle,
                WorkerReplied, Abort, StageFails, Reject, Break
  <2>3. ~(OpCancelled \/ LinkFails \/ ExchangeEnds \/ SessionCreated \/ AcceptWorker \/ SendCreate)
    BY <1>2, <1>3 DEF OpCancelled, LinkFails, ExchangeEnds, SessionCreated, AcceptWorker, SendCreate
  <2>4. ~(BeginSpan \/ BodySent \/ BodyDone \/ SendCommit \/ LocalNext \/ ExchangeOk
          \/ ExchangeFails \/ ExchangeJoined)
    BY <2>1 DEF BeginSpan, BodySent, BodyDone, SendCommit, LocalNext, ExchangeOk, ExchangeFails,
                ExchangeJoined
  <2>5. ~BodyFails
    BY <1>3, <2>1 DEF BodyFails
  <2>6. ~(BodyIssue \/ BodyReceive)
    BY <2>1, <2>5 DEF BodyIssue, BodyReceive
  <2>. QED BY <1>4, <2>2, <2>3, <2>4, <2>6 DEF Next, Coordinator, Caller, Exchange, Failure
<1>6. pc = "ack" /\ Publish(CommitLen)
  BY <1>3, <1>5 DEF Acknowledged
<1>7. ckpt' = [ckpt EXCEPT ![op.s] = @ \o Upto(op.input, CommitLen)]
  BY <1>6 DEF Publish
<1>. QED BY <1>6, <1>7, CommitIsGreedy

\* A speculation publishes what decoding one token after the other would have:
\* nothing that was not confirmed, and everything that was
\* (q36_session_verify_pipeline, q36_dist_session_speculate).
THEOREM SpeculationsAreGreedy == Spec => SpecIsGreedy
<1>1. PipeInv /\ [Next]_vars
        => [op.kind = "spec" /\ pc' = "idle" /\ valid'[op.s]
            => Confirmed(ckpt[op.s], ckpt'[op.s], op.input)]_vars
  BY SpecEnds
<1>. QED BY <1>1, PipeInvAlways, PTL DEF Spec, SpecIsGreedy
=============================================================================
