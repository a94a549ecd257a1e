# Verification of q36

`src/` holds q36, an inference engine for one family of language models with an
OpenAI/Anthropic compatible server (`q36_server.c`), a terminal agent
(`q36_agent.c`), a two-machine pipeline (`q36_distributed.c`) and a disk cache
of session checkpoints. This directory holds TLA+ models of its control logic,
the TLC configurations that check them, and TLAPS proofs about them.

File and line references are to `src/q36_server.c` unless another file is named.

## 1. Inventory

| Component | State it keeps | Operations | What is hard | What makes it correct |
|---|---|---|---|---|
| **Server request plane** (`q36_server.c`) | `server.head/tail`, `stopping`, `clients`; `server_slot.assigned/busy`; `job.done`; all under `server.mu` | `client_main`, `enqueue`, `dispatch_jobs_locked`, `dequeue`, `worker_main`, `slot_worker_main`, `main` | condition variables, jobs on client stacks, a stop at any moment, slot choice | FIFO, no lost or doubled job, no idle slot beside a waiting job, no missed wakeup, no pointer that outlives its request, a drain that ends |
| **Server model plane** (`q36_server.c`) | `model_busy`, `decode_pending`, `active_generations`, `last_prefill_slot`, `model_stopping`; per slot `prefill_waiting`, `decode_pending/in_flight/done/rc`; under `model_mu`; `inference_mu` | `server_prefill_enter/leave`, `server_session_sync`, `server_eval_token`, `decode_worker_main`, `server_cancel_decode_waiters_locked`, `generate_job` | two lock orders, one wait set for everybody, batches that fail halfway, a stop while a token is out | one model step at a time, prefills rotate, decoding first, replies match sessions, every token answered |
| **Session layer** (`q36.c`) | checkpoint tokens, `checkpoint_valid`, KV rows, recurrent state | sync, eval, rewind, rewrite, invalidate, save/load payload | recurrent state cannot be rewound; partial prefills | tokens, KV and recurrent state end at one position, or the checkpoint is invalid |
| **Speculative decoding** (`q36.c`) | draft tokens, saved frontier | draft, verify, commit, replay, restore | rejection in the middle of a block | same tokens as greedy decoding |
| **Distributed pipeline** (`q36_distributed.c`) | connection, `generation`, sessions of the worker, window of chunks in flight | hello, create, eval span, speculate, commit, free, reconnect | broken connections, restarts, full socket buffers, partial commits | both stages at the same position, or the session is rebuilt |
| **Disk KV cache** (server copy, `q36_kvstore.c`) | files named by the hash of their text, hit counters, byte budget | store, evict, find prefix, load, touch | crash between write and rename, eviction of what is about to be loaded, concurrent slots | a load yields exactly the session that was stored; the budget holds |
| **Tool memory** (server) | LRU of tool-call ids, reference counted text blocks | remember, find, prune | two limits, shared blocks | what is remembered is replayed exactly, counters match contents |
| **Streaming and tool parsing** (server) | hold-back buffers, parser states | feed, flush | markers and stop strings split over tokens | nothing withheld is emitted, nothing is lost |
| **Agent worker** (`q36_agent.c`) | `agent_worker` under `mu`: status, `active`, `cmd_text`, `interrupt`, `paused`, deferred save/compact/power, approvals | submit, interrupt, pause, resume, stop, approve, queue prompts | UI and worker threads, requests that arrive between states | no prompt lost, ownership exclusive, every waiter released |
| **Agent jobs and compaction** (`q36_agent.c`) | shell jobs, output cursors, transcript | start, poll, stop, observe; compact | jobs that end while observed; compaction that fails halfway | every output observed once, transcript consistent |
| **SSD expert cache** (`q36_ssd.c`, backends) | cache slots | lookup, load, evict | eviction of what is in use | a used expert is resident |
| HTTP/JSON parsers, tokenizer, sampler, GPU kernels, image preprocessing, CLI, benchmarks, browser control, vendored code | – | – | numerics, text and I/O | not modelled (see 8) |

### How they interact

```
client threads --enqueue--> queue --dispatch--> slot threads --generate_job-->
   ^                                            |        |
   +-------- job.done (condition variable) -----+        |
                                       prefill turn <----+----> token handed over
                                            |                      |
                                     q36_session_sync      decode coordinator
                                            +------ inference_mu ---+--> sessions
main: accept ... signal: stopping -> cancel decodes -> join slots ->
      stop and join coordinator -> wait for clients -> persist -> close
```

The request plane and the model plane share threads but no lock. They meet
where a slot thread calls `generate_job`, where it returns, and in `main`'s
drain; `g_stop_requested` is read by both without a lock.

The hazards this code is exposed to, each at its line and with the properties
that cover it, are listed in `PROJECT.json`.

## 2. Modules

| Module | What it is |
|---|---|
| `RequestServer` | Abstract: what the request plane promises its clients. |
| `SlotDispatch` | The request plane, one critical section per action. Implements `RequestServer`. |
| `ModelTurn` | The model plane and the control flow of `generate_job` around it. |
| `BatchServer` | The two together: joint actions where the planes meet, interleaving elsewhere. |
| `DistPipeline` | The two-machine pipeline: coordinator, worker and the connection between them. |
| `AgentWorker` | The two threads of q36-agent and its three front ends. |
| `ToolMemory` | The bounded map from tool call ids to sampled text, as pure operators. |
| `KvCache` | The server's disk cache of checkpoints, the slots that use it, and the tool memory its files carry. |
| `Session` | One session of the engine: tensors, checkpoint, logits, speculation, payloads. |
| `MCSlotDispatch`, `MCBatchServer`, `MCDistPipeline`, `MCKvCache`, `MCSession` | Clients, prompts and other values for TLC. |
| `RequestPlaneProofs` | Theorems about `SlotDispatch`, and that it implements `RequestServer`. |
| `KvCacheProofs` | Theorems about `KvCache` and the tool memory it uses. |
| `ModelTurnProofs` | Theorems about `ModelTurn`. |
| `SessionProofs` | Theorems about `Session`. |
| `AgentWorkerProofs`, `AgentPromptsProofs` | Theorems about `AgentWorker`; the second is about the prompts. |
| `DistPipelineProofs` | Theorems about `DistPipeline`. |
| `BatchServerProofs` | Theorems about `BatchServer`, from those of the two planes. |

### SlotDispatch

Variables are the fields of `struct server` and `struct server_slot` that
`server.mu` protects, plus the program counters of the worker, client and main
threads. A critical section is one action. `pthread_cond_wait` puts a thread in
the wait set `cvWait`; a thread in it does nothing until a broadcast empties
it, so a forgotten broadcast is a stuck thread. (The wait of `main` on
`clients_cv` and of a client on `job.cv` are guards: the code signals both in
the critical section that makes them true.)

`Dispatch` says what `dispatch_jobs_locked` leaves behind: jobs are taken from
the head, each goes to the best free slot by `job_slot_score`, until one side
is exhausted. (The loop over the queue in the code never skips a job: an idle
slot always beats `INT_MIN`.) A session is the token sequence of its
checkpoint, empty when it is invalid; `FinishJob` leaves one of the frontiers
`generate_job` can leave, and possibly a pending continuation
(`slot_pending_matches`) for one request that has not come yet. A reply is one
token. That is what the score tells apart.

`batched` is a variable, so one run covers the server with slot threads and the
one with a single `worker_main`.

### ModelTurn

Variables are the fields that `model_mu` protects, the holder of
`inference_mu`, two facts per session (`valid`: it has a valid checkpoint;
`evals`: tokens the coordinator has put in since it was last prefilled), and
where each slot thread is in `generate_job`:

```
idle - begin - sync/ask/enter/turn/prefill/leave (once per quantum, for the
cold prefix and then the prompt) - ready - decode/await (once per token) -
genleave - after - [rewrite | sync of the canonical turn] - vision -
[sync of the image turn] - finish - idle
```

`kept` counts the tokens of the reply, so `evals[s] = kept[s]` says that the
session has seen the reply exactly once. `todo` is the number of quanta the
current sync still needs, chosen when the sync starts; `Failed` records an
error. The chunk loop of `server_session_sync` reads the load
(`ChooseQuantum`), asks for the turn (`AskTurn`, `WaitTurn`, `PrefillEnter`,
`PrefillAbandon`), takes the lock, runs and leaves. A wakeup does not hand over
the turn: a woken thread tests its predicate again, as in the code.

The coordinator gathers all pending tokens, and its batch ends in one of the
ways `q36_sessions_eval_batch` (`q36.c`) can end: all advanced; a member failed
after any others had advanced, and all are invalidated; or rejected before any
ran.

`drain` is how far `main` has come: it cancels the decodes, and only after the
slot threads are joined it stops the coordinator.

After an error the code still rewrites the turn when the reply holds complete
tool calls (`final_finish` becomes `tool_calls`); the model approximates "holds
complete tool calls" by "has a token".

### BatchServer

`TakeAssigned` is `JobBegin`, `FinishJob` is `JobFinish` (a session that is
valid afterwards has tokens), the signal stops both planes, and `main`'s steps
move both. `drain` is a function of the main thread's program counter.

### DistPipeline

One process runs the first layers and keeps the logits (the coordinator), one
the last layers (the worker). The coordinator's engine mutex is held for a whole
operation, so there is one operation at a time (`op`); each operation is a
sequence of frames over the connection `link`, whose two directions are queues
that the sockets bound (`Buffer`; 0 means that a sender of a frame with rows
waits for its reader). A session has the checkpoint and the position of each
stage, its logits (which tokens they follow) and what the coordinator believes
of the connection it was created in (`generation`).

Prefills go in blocks of chunks with a window (`CanIssue`, `BodyIssue`,
`BodyReceive`) and, for large inputs, a writer thread of its own (`SendMode`);
while one block is exchanged the next one is evaluated locally (`Overlapped`,
`ExchangeJoined`). A speculation sends a draft, reads what the worker's logits
say of it, commits what was accepted, and a failure at any step marks the route
or the session lost (`Fail`, `FailOp`). `LinkFails` is a break at any moment:
frames of that connection are gone, the worker's loop ends and with it all of its
sessions, which is also what a crash of the worker amounts to. `Target` is the
model's greedy choice.

### AgentWorker

Each action is one section under the agent's mutex `mu`, in three front ends
(`mode`): the editor, one prompt given with `-p`, and prompts read from stdin.
The worker runs a turn (append the prompt, prefill, generate, run tools, ask the
user for the prompts queued meanwhile), and between turns the deferred save,
compaction and power change. The front end submits, queues, interrupts,
pauses, answers questions, saves, starts anew and leaves. `pipe` is the
self-pipe that wakes a front end in `poll` without a timeout (stdin, `-p`); the
editor polls with one of at most 100 ms, so its pipe is not followed.

Merged steps: the idle check and the submit that follows (only the front end
makes an idle worker busy); clearing the interrupt and publishing IDLE; passing
over deferred operations that are not due. The approval of a web request and the
password prompt share one protocol (`Ask`, `AskEnds`, `TakeAsk`, `AnswerAsk`).
`/switch` and `/steer` use the session as `/new` does. `/tab`, `/hints`, `/list`,
`/history` and Ctrl+X are left out.

### ToolMemory and KvCache

`ToolMemory` has no state: it says what each operation of `tool_memory` makes of
the list in order of use, the reference counts of the shared blocks and the byte
count, which are kept by adding and subtracting as in the code; `Exact` says
that they are right.

`KvCache` has the directory `disk` (a function from texts to files: a file's name
is the hash of its text), the slots, the client thread that parses a request, and
`op`, the store or load under way under `inference_mu` and `kv_mu`. A store is cut
into the steps a crash or an unlocked reader can separate (`StoreBegins`, `Write`,
`Rename`; for a file that is kept, `Truncate` and `WriteMap` of its tool map), a
load into the choice (`LoadFinds`) and the opening (`LoadOpens`, whose payload
may be corrupt and the file unlinked). The eviction that ends a store or opens the
cache reads the entries once (`Refresh`, into `op.entry`) and unlinks them one by
one (`Evict`) until they fit (`Evicted`); an unlink that fails, because the file is
gone or for another reason, sets the running total to 0, so that no entry is a
victim any more (`EvictFails`). `generate_job` is followed through `Begin`, the save of the session
that is replaced, the load, `Prefill` (a chunk is one token, after which a
continued store may be due), `Prefilled` (the cold store), `Decode`, `Sample` and
`Remember`. The client thread scans the directory file by file for the ids of
its conversation, with no lock, before it renders the prompt from the tool memory.

A text is a sequence of segments and a token is a segment with a mark whether it
was sampled: the same bytes have two spellings in tokens, which is what the
text-prefix lookup and the effective prompt are about. `log` holds what only the
properties and the bounds read, among it `unsaved`, the texts that a failed store,
an eviction or a deletion keeps from the directory, and `cut`, whether an error
cut the last eviction short.

### Session

`ModelTurn` knows of a session only whether it is valid and `KvCache` only its
tokens; `Session` says what stands behind that. A tensor is modelled by the
text it was computed from: rows of the attention caches (`kv`) and of the
head's cache (`mtp`), the recurrent state (`recurrent`, with its convolution
history), the last hidden state (`lastH`) and the logits, in the three places
where they lie (`logits` on the device, `host`, `top2`; the last two are
`NoRow` while their flag is off). `Seen` is what a forward pass finds behind
it: a text if all tensors agree, `<<Torn>>` otherwise. The target is a
function of the text (`Top`, `Second`).

`q36_session_sync`, `rewrite_from_common` and `rewind` begin a prefill
(`SyncExtends`, `SyncRestarts`, `Rewrite`, `Rewind`) that `PrefillChunk` carries
on, one dispatch at a time; between chunks the callbacks may save the session,
cancel, or the cache may fail to grow. `Eval`, `EvalInBatch` and their failures
are one call each. `q36_session_eval_speculative_body` is cut into `Begin`,
`Draft` (one token of the head; whether it is kept and whether it is the last
is a choice, which covers the margins and the boundary callback),
`DraftCopied` (the tail found by `q36_mtp_lookup`), `Snapshot`, `Verify` and
`Commit`, each with its failure. `serial` is the verifier that runs row by row.
`last` is what the caller knows of the last call: it decodes, rewinds or
rewrites only where the server, the agent or the CLI does.

Two errors leave the tensors apart from the checkpoint without the session being
invalidated. `q36_session_reset_runtime` drops the result of
`q36_vulkan_runtime_reset` (`q36.c:12445`), which can stop at any tensor
(`ResetTensors`). And when the GPU cannot pick the two best tokens and the row of an
accepted block cannot be read, the call fails after the runtime has adopted the block
(`q36.c:12366`, `CommitUnread`). Both are steps of the model. The history variable
`skew` says that one of them has happened and that no reset has succeeded and no
payload of an untouched session has been loaded since; `FrontierExact` and
`BlockIsGreedy` speak of sessions without it. The history variable `projected` says
that the logits of the checkpoint's last token have been computed.

## 3. Runs

| Run | Instance | Distinct states | Shows |
|---|---|---|---|
| `slot_dispatch` | 2 slots, 3 clients, `FairSpec` | 276,816 | type invariant, `StackOwnedJobs`, `NoIdleSlotWhileQueued`, `NoLostWakeup`, `ExtensionPreferred`, the refinement `ImplementsRequestServer` |
| `slot_dispatch_fifo` | 1 slot, 4 clients, both modes | 532,543 | `HeldOnce`, `FifoDispatch` with up to three jobs queued |
| `model_turn` | 2 slots, 1 quantum, 2 tokens, all syncs | 2,323,180 | `TurnExclusive`, `CountersExact`, `BorrowedWhileBlocked`, `NoLostModelWakeup`, `ReplyMatchesSession`, `PartialFrontierInvalid`, `PrefillTurnsRotate`, `DecodeGoesFirst` |
| `batch_server` | 1 slot, 2 clients, 1 token, all syncs | 83,703 | `PersistsAtRest`, `ModelWorksForClients`, `RequestsServed`, `TokensAnswered`, `StopDrains` |
| `model_turn_ownership` | as `model_turn` | stops at the violation | `WorkerOwnsSession` is violated |
| `model_turn_owner` | as `model_turn`, 1 token | stops at the violation | `OneModelExecutor` is violated |
| `dist_pipeline` | 2 sessions, one spare connection, no socket buffer, `FairSpec` | ~259,000 | `StagesAgree`, `LogitsMatchCheckpoint`, `SpecIsGreedy`, `OpEnds` |
| `agent` | three front ends, fairness in `Spec` | ~660,000 | `SessionHasOneOwner`, `PromptsKept`, `AnswersMatch`, `InterruptIsForThisTurn`, `WaitsEnd` |
| `agent_interrupt` | as `agent` | stops at the violation | `IdleIsAcknowledged` is violated |
| `kv_cache` | 2 slots, 3 requests, 2 calls, 1 fault | 3,486,501 | `RestoredMatches`, `ReplacedIsSaved`, `WithinBudget` (unless an error cut the last eviction short), and in `TypeOK` the counters of the tool memory |
| `kv_replay` | 2 slots, 2 requests, 1 call, thinking off | stops at the violation | `ReplayIsExact` is violated |
| `session` | context of 5 tokens, chunks of 3, blocks of 2 or 3, skewed sessions of up to 2 | 4,365,904 | `FrontierExact` (tensors and computed logits follow a valid checkpoint), `BlockIsGreedy`, and in `TypeOK` that a block fits the context |

### Bounds, and why they are enough

- `Clients`: a connection is used once. Three on two slots fill both and queue
  one; four on one slot make a queue of three, which the list surgery of
  `dispatch_jobs_locked` and `dequeue` needs (head, middle and tail).
- Prompts: two requests of one conversation (the second extends the first and
  its reply), one that shares only the system prompt, one unrelated. They reach
  all three classes of score and ties.
- `MaxQuanta = 1`: a sync runs at most one quantum. Longer syncs repeat
  the same loop; slots wait for turns repeatedly through successive requests,
  which are not bounded. The proofs do not use the bound.
- `MaxTokens = 2`: a second token is needed to reach a stop after a complete
  reply (`WorkerOwnsSession`) and a session that is ahead by one.
- `N = 2` in `ModelTurn`: two prefills, a prefill and a decode, and a batch of
  two all compete. Round robin over more slots is proved (`PrefillsRotate`).
- `N = 1` in `BatchServer`: a liveness check of the whole system with two slots
  is out of reach; the contention of two slots is checked in `ModelTurn` and
  `SlotDispatch`, and the composition adds what passes between the planes.
  Prompts are so short that the second client extends the first.

- `DistPipeline`: two sessions, so that one can use what the other left on the
  connection; sockets that buffer nothing, which is the hardest case for a
  deadlock; `Spare` connections after the first bound the breaks.
- `AgentWorker`: the bounds on prompts, tool rounds, questions, interrupts,
  saves and session commands are one or two each; a prompt can be queued behind a
  running one and another behind that.
- `KvCache`: two slots that evict each other's files, two conversations, of which
  one goes on with a tool call and again with a second; blocks that are shared by
  both calls or not, in a memory that holds two entries or two blocks but not both
  (`MaxBytes`), so that both limits prune; a budget that two checkpoints overrun;
  a directory that starts with a file of another server, which can be loaded and
  is replaced by a store; one fault at any step: a crash, a shutdown, a deletion
  (in the middle of an eviction too), an unlink that fails or an entry that an
  eviction cannot read. The bounds
  end the requests, after which the server is idle: `CHECK_DEADLOCK FALSE`.
- `Session`: one word and an end token, which the target wants at every third
  position, so that drafts are accepted, refused at each position, and ended
  early; a context of five tokens that prompts and blocks fill; a prompt of
  four that needs two chunks. Calls follow one another without end. A session
  that one of the two passed-over errors has skewed is followed through texts of
  up to `SkewBound` tokens and not into another block (the state constraint
  `Followed` of `MCSession`): that is enough for it to be decoded, saved, loaded,
  reset and refilled, after which everything is asked of it again. The proofs do
  not use the constraint.

### Fairness

Every thread that can run keeps running (weak fairness per thread). In the
code, reads and writes of a client are bounded by socket timeouts
(`Q36_SERVER_IO_TIMEOUT_SEC`, 10 s), `generate_job` by `max_tokens`, and
no mutex is held across a wait except `inference_mu` during a model
step, which ends. No client need connect and no signal need arrive.

`DistPipeline`: the coordinator's thread, its writer and the worker keep running
while the connection stands; that it breaks and is accepted again is never owed.
`AgentWorker`: the worker and the front end keep running; the user owes nothing.
`KvCache` has no liveness property: its threads' progress is `ModelTurn`'s.

Two liveness claims are deliberately absent. A prefill can be kept waiting for
as long as some other slot has a token pending whenever the turn is free: the
code gives decoding absolute priority. And the client's connection is never
awaited longer than its timeout, so nothing is said about slow clients.

## 4. What the checks found

The code does what it should in all passing runs. Four statements of the
documentation are not true of it, each shown by a run:

- *"One coordinator owns model execution."* (`docs/SERVER.md:128`). The
  in-place rewrite of a finished turn (9004, 9137) prefills on the slot thread
  with neither the turn nor `inference_mu`, beside the coordinator.
- *"The worker owns the q36_session"* (`q36_server.c:10`). On a stop,
  `server_eval_token` (8774) returns while its token is pending or in flight;
  a reply that ends with complete tool calls is then rewritten (9836, 9137)
  while the coordinator evaluates the token in the same session.
- *"This lets restarted servers render later client history byte-for-byte like
  the original model output"* (`docs/KV_CACHE.md:140`). The tool map of a
  checkpoint holds ids and blocks. That a turn began with the empty thinking
  prelude is noted in memory only (6781); an entry that comes back from a file
  (7379) has no such note, and with thinking off the history is rendered without
  the prelude (2875): it differs from the saved text, which is not found.
- *Clearing an interrupt before it is acknowledged* (`q36_agent.c:3995-3997`).
  A deferred save that Ctrl+C cuts short (`q36_agent.c:10267`) publishes IDLE with
  the interrupt still latched.

Observations, not shown by a run of their own:

- `docs/KV_CACHE.md:190` says that a payload holds "`float32[vocab_size]` logits for the
  next token after that checkpoint", so that a loaded one can be sampled without a
  decode step (203-206). `q36_session_prefill_range` projects logits only for the last
  chunk of a prompt (`q36.c:11505`); a continued store that the server writes from the
  progress callback of an earlier chunk (`q36.c:11533`) saves logits of an
  older text, or of none (`SavePayload` in a prefill). They matter when the next
  prompt is exactly the stored text: its sync has nothing to evaluate. A sync of
  exactly what an interrupted prefill kept is the same case. `FrontierExact`
  therefore asks for the logits, in a kept or loaded session as in any other,
  only if they have been computed (`projected`).
- `docs/SERVER.md:129` gives a prefill "128 while any generation is active". The
  quantum is chosen (8678) before the wait for the turn (8682) and used after it,
  so a prefill can run 2048 tokens although a generation has begun meanwhile.
- `q36.c:12366` returns an error after the runtime has adopted a block and before
  the checkpoint is extended, without invalidating the session (`CommitUnread`). It
  takes a vocabulary row with no second best token and a read that fails. The
  server's and the agent's callers end the turn, and the session stays valid for the
  next request with tensors that are ahead of it.
- `q36.c:12445` drops the result of the runtime's reset (`ResetTensors`): a
  session that is restarted after a GPU error there can prefill from the recurrent
  state of its former text.
- `q36_server.c:7576-7578` ends an eviction at the first unlink that fails, also when
  the file was only deleted by somebody else meanwhile; the directory stays over the
  budget until the next store evicts (`EvictFails`, the exception in `WithinBudget`).
- The agent's start ignores an interrupt when the system prompt comes from its cache
  (`q36_agent.c:4803-4806`): the worker becomes idle with the interrupt latched
  (`Boot`).
- A prompt of the agent's editor can be lost from the queue's view: the front
  end takes the request to drain the queue, the worker's wait is ended by an
  interrupt, and the answer lingers until it is freed at the next request
  (`q36_agent.c:4677`). `PromptsKept` allows exactly this case.
- In the editor a line typed just after the worker became idle overtakes older
  queued prompts; order is asserted for stdin and `-p` only.
- A `/new` whose prefill fails leaves the state PREFILL (`q36_agent.c:4820`): the
  worker is not idle until the next deferred command.
- The temporary file of a store that a crash ended is never removed or counted
  in the budget. Rewritten tool maps can exceed the budget, since only stores of
  new files evict (`WithinBudget` counts the checkpoints without their maps).
- Rewriting the map of a kept file (7765) writes what is in memory and drops the
  ids that are not; a scan for ids (7497) takes no lock and can meet the
  truncated map. Both cost exact replay, not correctness.

## 5. Proofs

All proofs hold for every value of the constants that meets the assumptions
named in the modules:

- `SlotsAssumption`/`NAssumption`: at least one slot. `ClientsAssumption`: a null
  pointer, and the two values with which a worker's counter says that it has no
  job, are no clients. `PromptAssumption`: prompts are token sequences.
- `BoundsAssumption`, `SyncsAssumption`, `CapsAssumption`, `PromptsAssumption`,
  `TokensAssumption`, `AgentAssumption`: the constants have their types, and a
  prompt fits the context (the server refuses one that does not, 4593-4595).
- `LengthAssumption`: a prompt and a reply are shorter than the weight with which
  `job_slot_score` separates its classes (`main` caps `--ctx` at
  `Q36_CONTEXT_MAX`, 262144 (10824, `q36.h:15`); the weight is half of `INT_MAX`).
- `NoRowAssumption`: the mark of a cleared flag is no row.
- `RequestsAssumption` of `DistPipeline`: a request names a session and tokens, and a single
  evaluation takes one token (`q36_session_eval`). `TokensAssumption` also says that
  the model's choice is a token.
- `KvCacheAssumption`: the options are numbers and `MinTokens` is positive (the
  command line refuses a minimum that is not, `parse_int_arg`); slots and call ids are
  finitely many; and the directory starts with finitely many files, which another
  server left and which have no tool map. `ToolMemoryAssumption`: the two limits are
  positive (`tool_memory_max_entries`, `tool_memory_max_bytes`).
- `RequestsAssumption` and `ModelAssumption` of `BatchServer` repeat what the two
  planes assume of their constants: instantiating a module does not carry its
  assumptions over.

The bounds on quanta, tokens, prompts, interrupts, commands and rounds are
constants in these theorems: nothing in a proof depends on their size.

### The request plane (`RequestPlaneProofs`)

Types and the idle slots:
- `TypeCorrect`: `Spec => []TypeOK`.
- `NoIdleSlot`: `Spec => []NoIdleSlotWhileQueued`. Besides the type, the
  inductive invariant `SlotInv` needs to know where a slot is free: a slot that
  is not busy has no assigned job and its worker does not run. The argument:
  `Dispatch` stops only when the queue or the idle slots are exhausted, and a
  slot becomes free only in `Release`, which dispatches.

The jobs:
- `JobsAreOwned`: `Spec => []StackOwnedJobs`; `JobsAreHeldOnce`: `Spec => []HeldOnce`;
  `WakeupsReach`: `Spec => []NoLostWakeup`. `OwnInv` is inductive: the clients that
  wait are exactly those whose job is in the queue, assigned to a slot or run by
  a worker (`Held`), no two holders have the same job (`HoldersDiffer`), and the
  program counters agree with the rest (`Progress`). What `Dispatch` does to the
  holders is proved once: it takes a prefix off the queue and puts each of its
  jobs into an idle slot of its own.
- `NobodyJumpsTheQueue`: `Spec => FifoDispatch`, from the same fact.
- `ExtensionsArePreferred`: `Spec => ExtensionPreferred`. Arithmetic of
  `job_slot_score`: an extension outscores any other overlap as long as lengths stay
  below the weight, and sessions do (`SessionsFit`).
- `ThreadsImplementServer`: `Spec => Abstract!Spec`: initial states and every step of
  the threads map to `RequestServer`. `RefInv` adds to `OwnInv` what the drain
  rests on: a busy slot has a job or cleans up after one, a worker leaves only
  when nothing waits, `main` passes the join after the last worker (`Drained`).

### The model plane (`ModelTurnProofs`)

- `TypeCorrect`: `Spec => []TypeOK`, together with `QuantaLeft` (`todo` is not
  below its range when a chunk runs).
- `OneTurn`: `Spec => []TurnExclusive`. `TurnInv` is inductive: the turn is
  taken only when `modelBusy` is false, which says that nobody has it, and
  the lock only by the holder.
- `DecodeBeforePrefill`: `Spec => DecodeGoesFirst`. It needs `CountInv`: the
  counter `decodePending` is the number of slots with a pending token, an
  argument about cardinalities (a batch leaves as many as it takes).
- `Counters`: `Spec => []CountersExact`. `CountInv` and `GenInv`, its counterpart
  for `activeGen` and the slots between `server_generation_enter` and
  `server_generation_leave`.
- `SessionBorrowed`: `Spec => []BorrowedWhileBlocked`. `BorrowInv` adds that the
  members of a batch are exactly the tokens in flight and that a token that is
  out is not answered yet.
- `PrefillsRotate`: `Spec => PrefillTurnsRotate`. Arithmetic modulo `N`: when
  the slot nearest after the last one takes its turn, every other waiting slot
  comes nearer.
- `RepliesStandOnSessions`: `Spec => []ReplyMatchesSession`; `NoPartialFrontier`:
  `Spec => []PartialFrontierInvalid`. `ReplyInv` follows a token from the slot to
  the batch and back (`AwaitedReply`): pending, in flight, evaluated or failed,
  answered. A session that is ahead of its reply is invalid until a stop is
  requested; after that only a slot that still generates stands on its reply.
- `ModelWakeupsReach`: `Spec => []NoLostModelWakeup`. `WakeInv` adds that only a slot
  that waits for the turn or for a token sleeps, and that none does after the drain.

### The server as a whole (`BatchServerProofs`)

`RunsRequestPlane`, `Spec => SD!Spec`, and `RunsModelPlane`, `Spec => MT!Spec`: every step of
the composed server is a step or a stutter of each plane. So every theorem above
whose conclusion follows from a plane's `Spec` also holds of the server, and the planes'
inductive invariants can be used (`PlanesInv`). The second one is the less obvious:
it says that the server hands out jobs and drains in the order `ModelTurn` allows.

Neither plane knows the other's threads. `ServerInv` adds what relates them:
a worker has a job exactly while its thread is in `generate_job` (`JobsInModel`);
`main` tells the coordinator to stop and passes the join only after it left with
nothing to decode (`CoordinatorJoined`); `server.clients` is the number of client
threads, and `main` waits for the last of them (`ClientsCounted`).
- `NobodyIsLeft`: `Spec => []PersistsAtRest`. The workers are gone by `Drained` of the
  request plane, so no thread is in `generate_job` and, with the coordinator gone,
  nobody has the turn; `decodePending = 0` means that no token is pending.
- `TokensHaveClients`: `Spec => []ModelWorksForClients`. A pending token belongs to a
  thread that awaits it, hence to a worker with a job, hence to a client that waits
  (`HeldWhileWaiting` of the request plane).

### The session (`SessionProofs`)

`SessionInv` has three parts: `Standing`, the types and the bounds of a call, always;
`SavedFollows`, a payload of a session without skew follows its text; and, without
skew, `CallInv`. `CallInv` says what each stage of a call may rely on: between calls a valid
checkpoint has all tensors behind it (`Idle`), also an invalid one that is empty
after a call; in a prefill the tensors follow what has been read
(`Reading`); in a block the checkpoint can be gone back to, because its rows lie
below those the draft and the verification write and the recurrent state is kept
apart (`Speculating`); before the commit the target has read the whole block
(`Verified`).
`CallInv` alone is not inductive: a failure in any stage falls back to one of the
others, a reset of a skewed session that succeeds must establish it from
`Standing` alone, and a load brings back what was saved. From it follow
- `SessionIsTyped`: `Spec => []TypeOK`, with the rule that a block fits the context,
- `FrontierIsExact`: `Spec => []FrontierExact`, with the two errors as steps,
- `SpeculationIsGreedy`: `Spec => BlockIsGreedy`: the tokens a block adds to the
  checkpoint are those that single steps of the target would have added, for
  every draft.

### The agent

`AgentWorkerProofs`: `AgentInv` has the types, the bounds, who holds the session
(`WorkerOK`, `UiOK`), what the front ends without an editor never do (`BatchOK`), and
that whoever sleeps has a false condition (`SleepOK`). `TurnInv` adds the
protocols between the threads: since when an interrupt is latched
(`InterruptOK`), what a worker that waits for an answer or for queued prompts can
rely on and when that wait has been cut short (`ReplyOK`, `AskOK`, `HandOverOK`).
- `AgentIsTyped`: `Spec => []TypeOK`.
- `SessionIsOwned`: `Spec => []SessionHasOneOwner`.
- `AnswersAreForTheirQuestions`: `Spec => []AnswersMatch`.
- `InterruptsAreForThisTurn`: `Spec => []InterruptIsForThisTurn`.

`AgentPromptsProofs`: `PromptsAreKept`, `Spec => []PromptsKept`. An accepted prompt is in
one of eight places (`Part`): the input of the front end, its queue, the prompt of
the command line, the worker's command, the hand-over in the UI's hand or in the
worker's request, the turn, the transcript. `PartsOK` says that the places
are `Apart`, that they cover what was typed except what was given up
(`Covers`), and, for stdin and `-p`, that a prompt farther on its way is an earlier
one (`Ordered`). Every action is shown to move one place behind another (`Move`),
empty one (`Drop`), add a new prompt (`Add`), or leave all as they are, and each of
these keeps `PartsOK` under a condition on the places between the two
(`PlacesOK` and `TurnInv` supply it).

### The pipeline (`DistPipelineProofs`)

`StagesAgree` and `LogitsMatchCheckpoint` speak of sessions at rest; what makes them
true is what holds in the middle of an operation, on three threads and two
machines. `PipeInv` says it in parts:
- `Resting`: every session that no operation works on is the same on both stages
  and in its logits; `Speculates`: only the operation has a speculation open.
- `OpOK`, `AtSpan`: the spans that are left follow each other to the end of what
  the operation aims at (`Aim`), and the coordinator's stage, the draft head and
  the logits have come to the start of the first one.
- `SpanInv`: within a span, the chunks in flight follow each other (`ChunkOK`), the
  coordinator's stage is ahead by what it has buffered or evaluated next
  (`BlockSpan`), the rows are those of the answered chunks, and in a verification
  the candidates judged so far were confirmed up to the one that stopped it
  (`Judged`).
- `WireInv`: the requests and the replies on their way are exactly what the chunks
  in flight ask for and what answers them (`Matches`), and while the connection is
  up the worker's stage is where the answered requests put it (`WorkerFollows`).

A break, a failed evaluation or a cancellation leaves a session that is invalid
or whose connection is gone, which is all `Resting` asks of it (`FailKeeps`). The
lemmas at the beginning are about parts of sequences (`SegFacts`, `SegOfSeg`,
`SegJoin`, `GrowsTo`), rows (`RowsJoin`) and the two queues of a connection
(`MatchesSend`, `MatchesRead`, `MatchesReply`, `MatchesHead`). From `PipeInv` follow
- `PipelineIsTyped`: `Spec => []TypeOK`,
- `StagesStayInStep`: `Spec => []StagesAgree`,
- `LogitsAreOfTheCheckpoint`: `Spec => []LogitsMatchCheckpoint`,
- `SpeculationsAreGreedy`: `Spec => SpecIsGreedy`. A speculation ends in a commit or
  leaves its session invalid (`SpecEnds`), and what is committed is what
  greedy decoding chooses (`CommitIsGreedy`).

None of this depends on the size of the window, the blocks or the sockets'
buffers, nor on how often the connection breaks. `MaxConns`, the bound on
connections, is a constant like the others.

### The cache and the tool memory (`KvCacheProofs`)

The folds of the model (the bytes of the directory, the pruning, the entries a file
brings back, the touches of a conversation, the rendering of a prompt) are defined by
the community modules as functions that `CHOOSE` picks on the subsets of what is folded.
The proofs reason about them without an induction theorem that takes an operator:
`IterationExists` shows by a least counterexample (`HasLeast`, in finite sets) that such a
function exists, so the one picked steps as it should, and `StaysIn` that what every step
keeps holds at the end. For the sums, `SumAnyOrder` shows that the order does not matter,
and `SumMonotone` that a directory that loses files, or whose entries count for less, does
not weigh more.

The tool memory: `Counted` are the memories in which an id has one entry, the count of
references of each block is the number of entries that hold it, and the bytes are those
of the entries and of the blocks in use; `Limited` are those within both limits. An
insertion, a touch and a removal keep `Counted` (`InsertedKeeps`, `TouchedKeeps`,
`RemovedKeeps`), and the pruning ends in `Limited` (`PrunedLimits`): each round over a
limit removes an entry, there is one round for every entry, and an empty memory is over no
limit. Hence `Put`, `Remembered`, `PutAll` and `TouchAll` keep `Limited`, whichever
threads call them in whichever order.

`CacheInv` is inductive:
- `Shapes`: the types; a file holds the text of its name (`DiskOK`), and its map and the
  memory name only calls that were made. The hits are not bounded by the types:
- `HitsPaid`: a hit of a file of this server belongs to a request that no client and no
  slot before its load still holds (`Pending`).
- `OpServes`: the store under way is for a slot that waits for it and has the text of
  that slot; the load under way opens a prefix of its slot's prompt.
- `SlotsWork`: where a store returns to (`GoesBack`), and what a slot holds (`Follows`):
  its effective prompt spells the prompt; what it was told is cached is in the session
  and the session is the beginning of the effective prompt, except that a cold prefill may
  still hold another conversation; a slot that stores in the middle holds the beginning of
  its target; one that decodes holds all of it.
- `SlotsKeep`, `StoreKeeps`: what a slot is about to replace is `Saved`, and so is what a
  store that has passed its rename is about to report.
- `Fits`: outside of an eviction that no error has cut short the tokens of the
  files fit the budget; while one is under way every file of the directory is among
  the entries it has left (`AllRead`), so that the sum it compares with the budget
  bounds theirs (`EntriesRead`), also when files go meanwhile.

`ReplacedIsSaved` needs the last three parts together: a prefill that is cold replaces
the session only when it is no beginning of the target, the only way there is through
`save` and `load`, and a file that goes in between, by an eviction of another slot's store,
a corrupt payload or by hand, is accounted for in `unsaved`, or is about to be written
again (`Missing`). From `CacheInv` follow
- `CacheIsTyped`: `Spec => []TypeOK`, with the bound on hits and the exact counters of the
  memory (`LimitedIsExact`),
- `CheckpointsMatch`: `Spec => []RestoredMatches`,
- `BudgetIsKept`: `Spec => []WithinBudget`,
- `ReplacedAreSaved`: `Spec => ReplacedIsSaved`.

All the inductive invariants were first checked by TLC with the constants of the
runs, except the types of the frames in `PipeInv`, whose sets are infinite.

### Checked by TLC only

- Liveness (`WaitsEnd`, `RequestsServed`, `TokensAnswered`, `StopDrains`, `OpEnds`) and
  the fairness of `RequestServer` in `ImplementsRequestServer`: `ENABLED` and fairness
  are out of the prover's reach.
- What a behaviour of the cache computes for given texts beyond the invariants (which
  file a lookup prefers, which one the eviction takes): these are folds and choices whose
  values would need an induction over data.

## 6. Plan

Built so far: `RequestServer`, `SlotDispatch`, `ModelTurn`, `BatchServer`,
`DistPipeline`, `AgentWorker`, `ToolMemory`, `KvCache`, `Session` and the proofs
above. Possible next models: the hold-back of partial markers (a pure algorithm
against a reference definition) and the agent's shell jobs with their monitor.

Every invariant and every action property that a passing run checks is proved. What
remains open is liveness, and the parts listed as not modelled.

## 7. Abstractions to keep in mind

- `job_slot_score` reads sessions of idle slots under `server.mu` only; the
  model reads `live` in the same step, which is the same thing as long as an
  idle slot's session does not change (it does not).
- Short holds of `inference_mu` (reading a session's position, disk stores and
  loads) are steps that need the lock free, not lock and unlock pairs.
- `DistPipeline`: the 120 s timeouts are breaks; the hello is one step; the
  `generation` does not wrap around; `OpCancelled` is a cancellation, a failed
  allocation or a failed local evaluation.
- `AgentWorker`: the 200 ms of quiet before queued stdin is submitted is a choice.
- `KvCache`: one server process; a tie of scores, which the time of the last use
  breaks, goes either way; the order of mappings in a file is not followed; the
  faults of an eviction count against `MaxFaults`, those of writes, loads and maps do
  not; a reply has one tool call; images turn the cache off and are left out;
  the turn a request leaves is not rewritten afterwards (its text is what the next
  request renders).
- `Session`: rows of a cache behind the position of the last pass are dropped,
  which is harder on the code than stale rows that could be right by accident;
  floating point differences between batched and single rows, the CPU backend,
  images, token-only payloads, the mask of the head's vocabulary and a row
  without a second best token are left out; a payload that is read halfway is a
  load that fails, after which callers invalidate; so is a load without the head's
  rows into an engine that has the head, which prefills instead.
- Spurious wakeups are not modelled: all waits are loops that test their
  predicate, and a missing wakeup is the harder case.
- A second signal ends the process at once (`_exit(130)`), and `die()` ends it
  on allocation or thread creation failure at start. Neither is modelled.

## 8. Not modelled

Byte-level parsing and formatting (HTTP, JSON, chat templates, SSE), the
tokenizer and sampler, the numeric model graph and its GPU backends, image
preprocessing, command line programs, benchmarks, scripts, browser control and
vendored libraries. These are most of the repository's lines (the model graph of
`q36.c`, the Vulkan and Metal backends, `linenoise.c`, `rax.c`, the evaluation
and benchmark drivers), which is why the mapped share of lines stays small: what
is mapped is the control logic of the server, the pipeline, the agent and the
cache. The shared store `q36_kvstore.c` repeats the server's format for the
agent, sequentially. `PROJECT.json` lists every component with the reason.

## 9. Running

```
tlc -workers 2 -config SlotDispatch.cfg MCSlotDispatch
tlc -workers 2 -config ModelTurn.cfg ModelTurn
tlc -workers 2 -config DistPipeline.cfg MCDistPipeline
tlc -workers 2 -config AgentWorker.cfg AgentWorker
tlc -workers 2 -config KvCache.cfg MCKvCache
tlc -workers 2 -config Session.cfg MCSession
for m in RequestPlane ModelTurn Session AgentWorker AgentPrompts \
         DistPipeline BatchServer KvCache; do
    tlapm ${m}Proofs.tla
done
```
