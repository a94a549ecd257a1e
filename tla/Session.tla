------------------------------ MODULE Session ------------------------------
(***************************************************************************)
(* One session of the engine (src/q36.c) on a GPU runtime, as its callers  *)
(* drive it: prefill in chunks, decode of one token, speculative decode    *)
(* with the MTP head, rewrite, rewind, and save and load of a payload.     *)
(*                                                                         *)
(* The tensors of a runtime are modelled by what they were computed from.  *)
(* A row of a KV cache, a recurrent state, a hidden state or a row of      *)
(* logits is the sequence of tokens the model had read when it was made;   *)
(* what a failed dispatch, a draft or a wrong context leaves is <<Torn>>.  *)
(* A session is right when its tensors say what its checkpoint says.       *)
(*                                                                         *)
(* A GPU call that fails inside a reset goes unnoticed by the code, and one *)
(* after a block was adopted is reported without invalidating.  Both are    *)
(* steps here; the history variable skew says that one has happened.       *)
(*                                                                         *)
(* A call runs on one thread.  It is cut where a callback looks at the     *)
(* session (progress, which may save it, and cancel), and speculation is   *)
(* cut into draft, verification and commit.                                *)
(***************************************************************************)
EXTENDS Integers, Sequences, SequencesExt

CONSTANTS
    Tokens,       \* the vocabulary
    Eos,          \* eos_token
    NoToken,      \* -1: no excluded token, no end token
    Torn,         \* what a tensor holds when it follows no text
    NoRow,        \* a copy of logits whose flag says it is not valid
    NoPayload,    \* no saved payload yet
    CtxSize,      \* session.ctx_size
    Chunk,        \* runtime.prefill_cap
    MtpCap,       \* mtp_cap: how deep the head drafts
    DraftCap,     \* draft_cap: how long a block with a copied tail can be
    Prompts,      \* the prompts callers ask for
    Top(_),       \* the target's best token after a text
    Second(_)     \* and its second best

ASSUME TokensAssumption ==
    Eos \in Tokens /\ NoToken \notin Tokens /\ Torn \notin Tokens
ASSUME NoRowAssumption == NoRow \notin Seq(Tokens \cup {Torn})
ASSUME CapsAssumption ==
    /\ {CtxSize, Chunk, MtpCap, DraftCap} \subseteq Nat \ {0}
    /\ 1 < MtpCap /\ MtpCap <= DraftCap
ASSUME PromptsAssumption ==
    \A p \in Prompts : p \in Seq(Tokens) /\ p # <<>> /\ Len(p) < CtxSize

VARIABLES
    build,        \* how this engine was built and started
    checkpoint,   \* session.checkpoint
    valid,        \* session.checkpoint_valid
    kv,           \* rows of the full-attention caches (runtime.full)
    recurrent,    \* runtime.recurrent: convolution history and state
    lastH,        \* runtime.last_h
    mtp,          \* rows of the MTP head's cache (runtime.mtp_full)
    logits,       \* runtime.logits, on the device
    host,         \* session.logits while logits_host_valid, else NoRow
    top2,         \* session.gpu_top2 while gpu_top2_valid, else NoRow
    pc,           \* where the call under way is
    op,           \* its arguments and locals
    last,         \* what the last call came to
    saved,        \* a payload written by q36_session_save_payload
    skew,         \* history: an error the code passes over came between the
                  \* tensors and the checkpoint, and no reset or load has
                  \* succeeded since
    projected     \* history: the logits of the checkpoint's last token have
                  \* been computed

text     == <<checkpoint, valid>>
tensors  == <<kv, recurrent, lastH, mtp>>
readouts == <<logits, host, top2>>
history  == <<skew, projected>>        \* read by the properties, never by a step
vars == <<build, text, tensors, readouts, pc, op, last, saved, history>>

TornText == <<Torn>>
TornState == [conv |-> TornText, state |-> TornText]
Fresh == [conv |-> <<>>, state |-> <<>>]
NoOp == [kind |-> "none"]

\* "moved": the last call evaluated a token and succeeded; "kept": it
\* succeeded with nothing to evaluate; "failed": a decode step of this turn
\* failed; "none": nothing a caller may decode from.
Outcomes == {"moved", "kept", "failed", "none"}

TypeOK ==
    LET Text == Seq(Tokens \cup {Torn})
    IN  /\ build \in [serial : BOOLEAN, batched : BOOLEAN]
        /\ checkpoint \in Seq(Tokens) /\ Len(checkpoint) <= CtxSize
        /\ valid \in BOOLEAN
        /\ kv \in Seq(Text) /\ mtp \in Seq(Text)
        /\ recurrent \in [conv : Text, state : Text]
        /\ lastH \in Text /\ logits \in Text
        /\ {host, top2} \subseteq Text \cup {NoRow}
        /\ pc \in {"idle", "prefill", "draft", "snapshot", "verify", "commit"}
        /\ op.kind \in {"none", "sync", "rewrite", "rewind", "block"}
        /\ last \in Outcomes
        /\ saved = NoPayload \/ saved.tokens \in Seq(Tokens)
        /\ skew \in BOOLEAN /\ projected \in BOOLEAN

\* A server with several slots starts without the MTP head and decodes in
\* batches; serial engines verify a block row by row.
Init ==
    /\ build \in [serial : BOOLEAN, batched : BOOLEAN]
    /\ checkpoint = <<>> /\ valid = FALSE
    /\ kv = <<>> /\ mtp = <<>>
    /\ recurrent = Fresh /\ lastH = <<>>
    /\ logits = TornText /\ host = NoRow /\ top2 = NoRow
    /\ pc = "idle" /\ op = NoOp /\ last = "none" /\ saved = NoPayload
    /\ skew = FALSE /\ projected = FALSE

MtpOn == ~build.batched
Room == CtxSize - Len(checkpoint)
Prefix(s, n) == SubSeq(s, 1, n)

-----------------------------------------------------------------------------
(* Forward passes. *)

\* The text a pass from position p reads back: attention reads the first p
\* rows of the cache, the recurrent layers their state, and the result makes
\* sense only if both are of the same text.
Seen(p, rec) ==
    LET t == rec.state
    IN  IF /\ rec.conv = t /\ Len(t) = p /\ p <= Len(kv)
           /\ \A i \in 1 .. p : kv[i] = Prefix(t, i)
        THEN t ELSE TornText

\* One row per token, each computed from the text up to it.
Rows(t, toks) == [i \in DOMAIN toks |-> t \o Prefix(toks, i)]

\* Rows from position p on are written; what lay behind them is dead.
Write(rows, p, new) ==
    [i \in 1 .. p |-> IF i <= Len(rows) THEN rows[i] ELSE TornText] \o new

\* The MTP head pairs a token with the target's hidden state before it.
MtpRows(h, hs, toks) ==
    [i \in DOMAIN toks |-> Append(IF i = 1 THEN h ELSE hs[i - 1], toks[i])]

\* q36_mtp_catchup: the cache is rebuilt from target rows, and the last of
\* them is kept.
Catchup(toks, p, hs) ==
    /\ mtp' = Write(mtp, p, MtpRows(lastH, hs, toks))
    /\ lastH' = hs[Len(toks)]

\* Two ways to publish a row of logits: the GPU picks the two best tokens,
\* or, where it cannot, the row is read back.
Publish(row) ==
    /\ logits' = row
    /\ \/ top2' = row /\ host' = NoRow
       \/ host' = row /\ top2' = NoRow

\* The effect on the tensors of reading toks from position p.
ReadTokens(toks, p) ==
    LET t == Seen(p, recurrent)
        rows == Rows(t, toks)
    IN  /\ kv' = Write(kv, p, rows)
        /\ recurrent' = [conv |-> t \o toks, state |-> t \o toks]
        /\ IF MtpOn THEN Catchup(toks, p, rows)
                    ELSE lastH' = rows[Len(toks)] /\ UNCHANGED mtp

\* q36_forward_tokens_vulkan; only the last chunk of a prompt is projected.
Forward(toks, p, project) ==
    /\ ReadTokens(toks, p)
    /\ IF project THEN Publish(Seen(p, recurrent) \o toks) ELSE UNCHANGED readouts

\* A dispatch failed on the way: rows below p are still what they were.
ForwardFails(p) ==
    /\ kv' = Write(kv, p, <<>>) /\ mtp' = Write(mtp, p, <<>>)
    /\ recurrent' = TornState /\ lastH' = TornText
    /\ logits' = TornText
    /\ projected' = FALSE
    /\ UNCHANGED <<host, top2, skew>>

\* q36_vulkan_runtime_reset empties last_h, then the recurrent state layer by
\* layer, and stops at a tensor it cannot write: that one and the ones behind
\* it belong to no text any more.  Nobody looks at its result.
ResetTensors ==
    \/ recurrent' = Fresh /\ lastH' = <<>> /\ skew' = FALSE
    \/ recurrent' = TornState /\ lastH' \in {TornText, <<>>} /\ skew' = TRUE

\* q36_session_reset_runtime.  The rows of the caches lie past the end of an
\* empty text from here on; a model that read one would find none.
ResetRuntime ==
    /\ ResetTensors
    /\ projected' = FALSE
    /\ kv' = <<>> /\ mtp' = <<>>
    /\ host' = NoRow /\ top2' = NoRow
    /\ UNCHANGED logits

\* q36_session_invalidate.
Invalidated == ResetRuntime /\ checkpoint' = <<>> /\ valid' = FALSE

-----------------------------------------------------------------------------
(* Prefill. *)

Return(outcome) == pc' = "idle" /\ op' = NoOp /\ last' = outcome

Prefill(kind, p) ==
    /\ pc' = "prefill"
    /\ op' = [kind |-> kind, prompt |-> p, moved |-> FALSE]
    /\ UNCHANGED <<build, last, saved>>

Extends(p) == valid /\ IsPrefix(checkpoint, p)

\* q36_session_sync: a prompt that extends the checkpoint goes on from it.
SyncExtends(p) ==
    /\ pc = "idle" /\ Extends(p)
    /\ Prefill("sync", p)
    /\ UNCHANGED <<text, tensors, readouts, history>>

\* Any other prompt starts over.
SyncRestarts(p) ==
    /\ pc = "idle" /\ ~Extends(p)
    /\ Invalidated
    /\ Prefill("sync", p)

\* q36_session_common_prefix.
Common(p) ==
    IF ~valid THEN 0
    ELSE Len(LongestCommonPrefix({checkpoint, p}))

\* (Faulty variant: q36_session_rewrite_requires_rebuild is not asked.)
RewriteShortens(p) ==
    /\ pc = "idle" /\ last # "none"
    /\ checkpoint' = Prefix(checkpoint, Common(p)) /\ valid' = TRUE
    /\ Prefill("rewrite", p)
    /\ UNCHANGED <<tensors, readouts, history>>

\* q36_session_rewrite_from_common, called after a turn that generated: the
\* checkpoint is declared valid before its canonical tail is read.
Rewrite(p) ==
    /\ pc = "idle" /\ last # "none"
    /\ Common(p) = Len(checkpoint)
    /\ valid' = TRUE /\ UNCHANGED checkpoint
    /\ Prefill("rewrite", p)
    /\ UNCHANGED <<tensors, readouts, history>>

\* q36_session_rewind, used when a block ran past where the reply ends: a
\* recurrent state cannot be cut, so the prefix is read again.
Rewind(n) ==
    /\ pc = "idle" /\ last = "moved" /\ MtpOn
    /\ n \in 1 .. Len(checkpoint) - 1
    /\ Invalidated
    /\ Prefill("rewind", Prefix(checkpoint, n))

\* How a call that has begun to prefill fails; a rewind then invalidates.
PrefillReturns(outcome) ==
    Return(IF op.kind = "rewrite" THEN "none"
           ELSE IF op.kind = "rewind" /\ outcome = "none" THEN "failed"
           ELSE outcome)

LeftToRead == SubSeq(op.prompt, Len(checkpoint) + 1, Len(op.prompt))
NextChunk == Prefix(LeftToRead, IF Len(LeftToRead) < Chunk THEN Len(LeftToRead) ELSE Chunk)

\* One turn of the loop of q36_session_prefill_range.
PrefillChunk ==
    /\ pc = "prefill" /\ LeftToRead # <<>>
    /\ Forward(NextChunk, Len(checkpoint), NextChunk = LeftToRead)
    /\ checkpoint' = checkpoint \o NextChunk /\ valid' = TRUE
    /\ op' = [op EXCEPT !.moved = TRUE]
    /\ projected' = (NextChunk = LeftToRead)
    /\ UNCHANGED <<build, pc, last, saved, skew>>

PrefillFails ==
    /\ pc = "prefill" /\ LeftToRead # <<>>
    /\ IF op.kind = "rewind" THEN Invalidated
       ELSE ForwardFails(Len(checkpoint)) /\ valid' = FALSE /\ UNCHANGED checkpoint
    /\ PrefillReturns("none")
    /\ UNCHANGED <<build, saved>>

\* The caller's cancel callback, or a KV cache that cannot grow: the chunks
\* that were read stay.
PrefillStops ==
    /\ pc = "prefill" /\ LeftToRead # <<>>
    /\ IF op.kind = "rewind" THEN Invalidated
       ELSE UNCHANGED <<text, tensors, readouts, history>>
    /\ PrefillReturns("none")
    /\ UNCHANGED <<build, saved>>

PrefillDone ==
    /\ pc = "prefill" /\ LeftToRead = <<>>
    /\ PrefillReturns(IF op.moved THEN "moved" ELSE "kept")
    /\ UNCHANGED <<build, text, tensors, readouts, saved, history>>

-----------------------------------------------------------------------------
(* Decode. *)

CanDecode == pc = "idle" /\ last \in {"moved", "kept"} /\ Room > 0

\* q36_session_eval_internal.
Eval(token) ==
    /\ CanDecode
    /\ Forward(<<token>>, Len(checkpoint), TRUE)
    /\ checkpoint' = Append(checkpoint, token) /\ valid' = TRUE
    /\ projected' = TRUE
    /\ Return("moved")
    /\ UNCHANGED <<build, saved, skew>>

EvalFails ==
    /\ CanDecode
    /\ \/ ForwardFails(Len(checkpoint)) /\ valid' = FALSE /\ UNCHANGED checkpoint
       \/ UNCHANGED <<text, tensors, readouts, history>>    \* the cache cannot grow
    /\ Return("failed")
    /\ UNCHANGED <<build, saved>>

\* (Faulty variant: the two best tokens of the last step are not forgotten.)
EvalInBatchKeepsTop2(token) ==
    /\ build.batched /\ CanDecode /\ valid
    /\ ReadTokens(<<token>>, Len(checkpoint))
    /\ host' = Append(Seen(Len(checkpoint), recurrent), token)
    /\ UNCHANGED <<logits, top2>>
    /\ checkpoint' = Append(checkpoint, token) /\ valid' = TRUE
    /\ projected' = TRUE
    /\ Return("moved")
    /\ UNCHANGED <<build, saved, skew>>

\* q36_sessions_eval_batch_vulkan, for one of its sessions: the rows of the
\* common projection go straight to each session's host buffer.
EvalInBatch(token) ==
    /\ build.batched /\ CanDecode /\ valid
    /\ ReadTokens(<<token>>, Len(checkpoint))
    /\ host' = Append(Seen(Len(checkpoint), recurrent), token)
    /\ top2' = NoRow /\ UNCHANGED logits
    /\ checkpoint' = Append(checkpoint, token) /\ valid' = TRUE
    /\ projected' = TRUE
    /\ Return("moved")
    /\ UNCHANGED <<build, saved, skew>>

\* q36_session_invalidate by a caller: another session of the batch failed,
\* or the reply met a stop string.
Invalidate ==
    /\ pc = "idle" /\ last \in {"moved", "kept"}
    /\ Invalidated
    /\ Return("failed")
    /\ UNCHANGED <<build, saved>>

\* q36_session_ensure_logits_host, on behalf of a sampler.
ReadLogits ==
    /\ pc = "idle" /\ last \in {"moved", "kept"} /\ host = NoRow
    /\ host' = logits
    /\ UNCHANGED <<build, text, tensors, logits, top2, pc, op, last, saved, history>>

-----------------------------------------------------------------------------
(* Speculation: q36_session_eval_speculative_body. *)

Start == Len(checkpoint)

\* (Faulty variant: the room left in the context is forgotten.)
BlockCapNoRoom == Min({DraftCap, Chunk})

\* draft_cap and mtp_cap; how many tokens the caller wants is left to Draft,
\* which may end the block at any length.
BlockCap == Min({DraftCap, Chunk, Room})
HeadCap == Min({MtpCap, BlockCap})

\* The token the target would choose after the text t; an excluded token
\* gives way to the second best.
Choice(t, excluded) == IF Top(t) = excluded THEN Second(t) ELSE Top(t)

\* A block starts with a token the caller has sampled.  Benchmarks exclude the
\* end token instead of stopping at it.
Begin(first, stopAt, excluded) ==
    /\ CanDecode /\ MtpOn
    /\ BlockCap > 1 /\ first # stopAt
    /\ <<stopAt, excluded>> \in {<<Eos, NoToken>>, <<NoToken, Eos>>}
    /\ pc' = "draft"
    /\ op' = [kind |-> "block", block |-> <<first>>, stopAt |-> stopAt,
              excluded |-> excluded, frontier |-> recurrent, rows |-> <<>>, norm |-> <<>>]
    /\ UNCHANGED <<build, text, tensors, readouts, last, saved, history>>

\* q36_mtp_eval_vulkan: the head reads the last token of the block, with the
\* target's hidden state for the first one and its own afterwards.
HeadReads ==
    LET n == Len(op.block)
        h == IF n = 1 THEN lastH ELSE TornText
    IN  /\ mtp' = Write(mtp, Start + n - 1, <<Append(h, Last(op.block))>>)
        /\ UNCHANGED <<kv, recurrent, lastH>>

Drafted(block) ==
    \/ Len(block) >= HeadCap \/ Last(block) = op.stopAt

\* The head proposes a token.  A weak proposal, or one at a boundary the
\* caller named, is dropped and ends the draft; a confident one may be the
\* last as well.
Draft(token, keep, stop) ==
    /\ pc = "draft" /\ token # op.excluded
    /\ keep \/ stop
    /\ HeadReads
    /\ LET block == IF keep THEN Append(op.block, token) ELSE op.block
       IN  /\ op' = [op EXCEPT !.block = block]
           /\ pc' = IF stop \/ Drafted(block) THEN "snapshot" ELSE "draft"
    /\ UNCHANGED <<build, text, readouts, last, saved, history>>

\* The first proposal confirms a continuation found in the history, and the
\* rest of it is copied (q36_mtp_lookup); the head does not read the copy.
DraftCopied(token, tail) ==
    /\ pc = "draft" /\ Len(op.block) = 1
    /\ token \notin {op.excluded, op.stopAt}
    /\ tail # <<>> /\ 2 + Len(tail) <= BlockCap
    /\ \A i \in DOMAIN tail :
           tail[i] # op.excluded /\ (tail[i] = op.stopAt => i = Len(tail))
    /\ HeadReads
    /\ op' = [op EXCEPT !.block = <<Head(op.block), token>> \o tail]
    /\ pc' = "snapshot"
    /\ UNCHANGED <<build, text, readouts, last, saved, history>>

DraftFails ==
    /\ pc = "draft"
    /\ Invalidated
    /\ Return("failed")
    /\ UNCHANGED <<build, saved>>

\* q36_vulkan_spec_frontier_snapshot: the recurrent state is put apart, on
\* Metal by a copy, on Vulkan by an exchange of buffers that leaves in
\* runtime.recurrent whatever the other buffer held.
Snapshot ==
    /\ pc = "snapshot"
    /\ op' = [op EXCEPT !.frontier = recurrent]
    /\ recurrent' \in {recurrent, [recurrent EXCEPT !.state = TornText]}
    /\ pc' = "verify"
    /\ UNCHANGED <<build, text, kv, lastH, mtp, readouts, last, saved, history>>

SnapshotFails ==
    /\ pc = "snapshot"
    /\ Return("failed")
    /\ UNCHANGED <<build, text, tensors, readouts, saved, history>>

\* q36_vulkan_verify_suffix_tops: the target reads the block, from the kept
\* frontier.  A serial verifier leaves only the last hidden state in norm and
\* keeps the others apart (mtp_target_h).  A GPU that cannot pick the best
\* tokens of a row uses the host buffer for it.
Verify ==
    /\ pc = "verify"
    /\ LET t == Seen(Start, op.frontier)
           rows == Rows(t, op.block)
       IN  /\ kv' = Write(kv, Start, rows)
           /\ recurrent' = [conv |-> t \o op.block, state |-> t \o op.block]
           /\ op' = [op EXCEPT !.rows = rows,
                               !.norm = IF build.serial THEN <<Last(rows)>> ELSE rows]
           /\ host' \in IF host = NoRow THEN {NoRow} ELSE {host, Last(rows)}
    /\ pc' = "commit"
    /\ UNCHANGED <<build, text, lastH, mtp, logits, top2, last, saved, history>>

\* (Faulty variant: a failed verification forgets to restore the state.)
VerifyFailsForward ==
    /\ pc = "verify"
    /\ recurrent' = TornState
    /\ kv' = Write(kv, Start, <<>>)
    /\ host' = NoRow /\ top2' = NoRow
    /\ Return("failed")
    /\ UNCHANGED <<build, text, lastH, mtp, logits, saved, history>>

\* The frontier comes back (q36_vulkan_spec_frontier_restore), or nothing.
VerifyFails ==
    /\ pc = "verify"
    /\ \/ /\ recurrent' = op.frontier
          /\ kv' = Write(kv, Start, <<>>)
          /\ host' = NoRow /\ top2' = NoRow
          /\ UNCHANGED <<text, lastH, mtp, logits, history>>
       \/ Invalidated
    /\ Return("failed")
    /\ UNCHANGED <<build, saved>>

-----------------------------------------------------------------------------
(* The end of a block. *)

\* (Faulty variant: a proposal is compared with the row of its own position.)
AcceptedLate(block, rows, stopAt, excluded) ==
    CHOOSE n \in DOMAIN block :
        /\ \A i \in 2 .. n : block[i] = Choice(rows[i], excluded) /\ block[i - 1] # stopAt
        /\ \/ block[n] = stopAt \/ n = Len(block)
           \/ block[n + 1] # Choice(rows[n + 1], excluded)

\* How many tokens of the block the target itself would have chosen; a token
\* that ends the reply is the last one.
Accepted(block, rows, stopAt, excluded) ==
    CHOOSE n \in DOMAIN block :
        LET stopped == block[n] = stopAt
        IN  /\ \A i \in 2 .. n : /\ block[i] = Choice(rows[i - 1], excluded)
                                 /\ block[i - 1] # stopAt
            /\ \/ stopped \/ n = Len(block)
               \/ block[n + 1] # Choice(rows[n], excluded)

\* q36_vulkan_replay_recurrent: the frontier is advanced over the accepted
\* rows' saved inputs; without a rejection the state already stands there.
Replayed(n) ==
    IF n = Len(op.block) THEN recurrent
    ELSE LET t == Seen(Start, op.frontier) \o Prefix(op.block, n)
         IN  [conv |-> t, state |-> t]

\* (Faulty variant: a serial verifier's norm is taken for its first row.)
AdoptSeed(n) ==
    IF n = 1 THEN lastH' = op.norm[1] /\ UNCHANGED mtp
    ELSE Catchup(Prefix(op.block, n), Start, Prefix(op.rows, n))

\* The first row of the MTP cache was drafted from a target hidden state, so
\* a block that keeps only its first token needs no catch-up.
Adopt(n) ==
    IF n = 1 /\ ~build.serial THEN lastH' = op.norm[1] /\ UNCHANGED mtp
    ELSE Catchup(Prefix(op.block, n), Start, Prefix(op.rows, n))

\* (Faulty variant: the host copy of the last logits stays valid.)
CommitKeepsHost ==
    /\ pc = "commit"
    /\ LET n == Accepted(op.block, op.rows, op.stopAt, op.excluded)
       IN  /\ recurrent' = Replayed(n)
           /\ Adopt(n)
           /\ logits' = op.rows[n]
           /\ top2' = op.rows[n]
           /\ checkpoint' = checkpoint \o Prefix(op.block, n) /\ valid' = TRUE
    /\ projected' = TRUE
    /\ Return("moved")
    /\ UNCHANGED <<build, kv, host, saved, skew>>

Commit ==
    /\ pc = "commit"
    /\ LET n == Accepted(op.block, op.rows, op.stopAt, op.excluded)
       IN  /\ recurrent' = Replayed(n)
           /\ Adopt(n)
           /\ Publish(op.rows[n])
           /\ checkpoint' = checkpoint \o Prefix(op.block, n) /\ valid' = TRUE
    /\ projected' = TRUE
    /\ Return("moved")
    /\ UNCHANGED <<build, kv, saved, skew>>

\* The GPU could not pick the two best tokens and the row cannot be read back:
\* the block fails after the runtime has adopted it, and the checkpoint, which
\* did not grow, stays valid.
CommitUnread ==
    /\ pc = "commit"
    /\ LET n == Accepted(op.block, op.rows, op.stopAt, op.excluded)
       IN  /\ recurrent' = Replayed(n)
           /\ Adopt(n)
           /\ logits' = op.rows[n]
    /\ host' = NoRow /\ top2' = NoRow
    /\ skew' = TRUE /\ projected' = FALSE
    /\ Return("failed")
    /\ UNCHANGED <<build, text, kv, saved>>

\* The replay or the adoption of the frontier failed.
CommitFails ==
    /\ pc = "commit"
    /\ Invalidated
    /\ Return("failed")
    /\ UNCHANGED <<build, saved>>

-----------------------------------------------------------------------------
(* Saved payloads. *)

\* The logits a payload gets: the host copy, if it is valid.
LogitsToSave == IF host # NoRow THEN host ELSE logits

\* q36_session_save_payload: between calls, and from the progress callback
\* after a chunk of a prompt (a continued store of the server), where the
\* logits are still those of an earlier text.
SavePayload ==
    /\ valid
    /\ \/ pc = "idle"
       \/ pc = "prefill" /\ op.kind = "sync" /\ op.moved
    /\ saved' = [tokens |-> checkpoint, logits |-> LogitsToSave,
                 kv |-> Prefix(kv, Len(checkpoint)), recurrent |-> recurrent,
                 mtp |-> IF MtpOn THEN Prefix(mtp, Len(checkpoint)) ELSE <<>>,
                 lastH |-> lastH, skew |-> skew, projected |-> projected]
    /\ UNCHANGED <<build, text, tensors, readouts, pc, op, last, history>>

\* q36_session_load_payload, before the sync of a job.  Whatever its reset left
\* behind, every tensor is written.
LoadPayload ==
    /\ pc = "idle" /\ saved # NoPayload
    /\ checkpoint' = saved.tokens /\ valid' = TRUE
    /\ kv' = saved.kv /\ recurrent' = saved.recurrent
    /\ IF MtpOn THEN mtp' = saved.mtp /\ lastH' = saved.lastH
                ELSE lastH' = <<>> /\ UNCHANGED mtp
    /\ logits' = saved.logits /\ host' = NoRow /\ top2' = NoRow
    /\ skew' = saved.skew /\ projected' = saved.projected
    /\ Return("none")
    /\ UNCHANGED <<build, saved>>

\* The file is short or not of this model; the caller invalidates.
LoadFails ==
    /\ pc = "idle" /\ saved # NoPayload
    /\ Invalidated
    /\ Return("none")
    /\ UNCHANGED <<build, saved>>

-----------------------------------------------------------------------------
PrefillStep ==
    \/ \E p \in Prompts : SyncExtends(p) \/ SyncRestarts(p) \/ Rewrite(p)
    \/ \E n \in 1 .. CtxSize : Rewind(n)
    \/ PrefillChunk \/ PrefillFails \/ PrefillStops \/ PrefillDone

DecodeStep ==
    \/ \E t \in Tokens : Eval(t) \/ EvalInBatch(t)
    \/ EvalFails \/ Invalidate \/ ReadLogits

BlockStep ==
    \/ \E t \in Tokens, stopAt, excluded \in {Eos, NoToken} : Begin(t, stopAt, excluded)
    \/ \E t \in Tokens, keep, stop \in BOOLEAN : Draft(t, keep, stop)
    \/ \E t \in Tokens, n \in 1 .. DraftCap : \E tail \in [1 .. n -> Tokens] :
           DraftCopied(t, tail)
    \/ DraftFails \/ Snapshot \/ SnapshotFails \/ Verify \/ VerifyFails 
    \/ Commit \/ CommitFails \/ CommitUnread

PayloadStep == SavePayload \/ LoadPayload \/ LoadFails

Next == PrefillStep \/ DecodeStep \/ BlockStep \/ PayloadStep

Spec == Init /\ [][Next]_vars

-----------------------------------------------------------------------------
(* What a session promises. *)

\* The tensors a next token will be computed from follow the checkpoint:
\* attention rows, recurrent state and, for the head, its rows and the hidden
\* state it starts from.
Follows(t) ==
    /\ Len(t) <= Len(kv) /\ \A i \in DOMAIN t : kv[i] = Prefix(t, i)
    /\ recurrent = [conv |-> t, state |-> t]
    /\ MtpOn => /\ lastH = t
                /\ Len(t) <= Len(mtp) /\ \A i \in DOMAIN t : mtp[i] = Prefix(t, i)

\* What the samplers read: the argmax of q36_session_argmax, and the row.
Argmax == IF top2 # NoRow THEN top2 ELSE LogitsToSave

\* Between calls, if the logits of the last token of a valid checkpoint have
\* been computed (they always have after a call that evaluated tokens), every
\* reader finds them, wherever they lie: device, host, two best; in a session
\* that was kept, restored or loaded too.
LogitsFollow ==
    pc = "idle" =>
        /\ last = "moved" => valid /\ projected
        /\ valid /\ projected => Argmax = checkpoint /\ LogitsToSave = checkpoint

\* Whenever a caller or a callback can look, a checkpoint that is declared
\* valid is what the tensors hold, and the logits that were computed for it are
\* the ones that are read: after rejected drafts, failed dispatches, cancelled
\* prompts, rewrites and loads alike.  Excepted are the two errors the code
\* passes over, a reset of the runtime that failed (q36.c:12445) and a block
\* whose logits could not be read back (q36.c:12366), until a reset or a load
\* succeeds.
FrontierExact ==
    ~skew => /\ valid /\ pc \in {"idle", "prefill", "draft"} => Follows(checkpoint)
             /\ LogitsFollow

\* A block replies what decoding token by token would: after the first token,
\* which the caller sampled, each is the target's own choice, and nothing
\* follows an end token (docs/SPECULATIVE_DECODING.md: "drafts several tokens
\* and verifies them against the target model").  A skewed session has no text
\* of its own to be greedy about.
BlockIsGreedy ==
    [][pc = "commit" /\ last' = "moved" /\ ~skew =>
          \A k \in Len(checkpoint) + 2 .. Len(checkpoint') :
              /\ checkpoint'[k] = Choice(Prefix(checkpoint', k - 1), op.excluded)
              /\ checkpoint'[k - 1] # op.stopAt]_vars
=============================================================================
