-------------------------------- MODULE KvCache --------------------------------
(* The disk KV cache of q36-server and the tool memory its files carry. A slot *)
(* thread works through a request: it decides what of the prompt is cached,    *)
(* saves the session it is about to replace, loads a checkpoint, prefills,     *)
(* stores on the way, samples one tool call and remembers it. Stores and loads *)
(* run under inference_mu and kv_mu, one at a time, in the steps that a crash  *)
(* or a reader without those locks can separate: the client thread that scans  *)
(* the directory for the ids of a conversation before it renders the prompt.   *)
(*                                                                             *)
(* A text is a sequence of segments; a token is a segment and whether it was   *)
(* sampled or tokenized, which spell the same bytes in different tokens.       *)
EXTENDS ToolMemory

CONSTANTS Slots, NoSlot,
          Openings,      \* first messages of conversations
          Budget,        \* budget_bytes, when a token and a map entry are 1 byte
          MinTokens, ColdMax, Trim, Align, Interval,   \* kv_cache_options
          Foreign,       \* files of another server the directory starts with
          NoThink,       \* requests have thinking off
          CallIds,       \* the ids of the tool calls of a run, in the order given
          MaxRequests,   \* requests sent
          MaxFaults      \* crashes, shutdowns, files deleted by hand, and errors
                         \* of an eviction (unlink, opendir, an unreadable header)

\* What texts are made of, and tokens and files.
Segments == Openings \union Blocks \union {"open", "empty", "canonical", "result"}
Tokens == Segments \X BOOLEAN
Files == [tokens : Seq(Tokens), ours : BOOLEAN, fits : BOOLEAN, hits : Nat,
          map : SUBSET [id : ToSet(CallIds), block : Blocks]]

ASSUME KvCacheAssumption ==
    /\ {ColdMax, Trim, Align, Interval, MaxRequests, MaxFaults} \subseteq Nat
    /\ {Budget, MinTokens} \subseteq Nat \ {0} /\ NoThink \in BOOLEAN
    /\ IsFiniteSet(Slots) /\ NoSlot \notin Slots /\ CallIds \in Seq(STRING)
    /\ IsFiniteSet(Foreign)
    /\ Foreign \subseteq {f \in Files : ~f.ours /\ f.map = {}}

VARIABLES
    disk,      \* the directory: from texts (the file names are their hashes) to files
    op,        \* the store or load under way under inference_mu and kv_mu, with
               \* the entries an eviction has read from the directory
    slot,      \* the slots: session, request and what generate_job holds
    mem,       \* tool_mem, under tool_mu
    client,    \* a client thread that parses a request
    log        \* counters of the bounds, and history for the properties

vars == <<disk, op, slot, mem, client, log>>

Token(seg) == <<seg, FALSE>>
Sampled(seg) == <<seg, TRUE>>

\* render_tokens_text and q36_tokenize_rendered_chat.
Render(tokens) == [i \in 1..Len(tokens) |-> tokens[i][1]]
Tokenize(text) == [i \in 1..Len(text) |-> Token(text[i])]

\* kv_cache_file_text_matches and the size and header checks find a file whole.
File(tokens, map) == [tokens |-> tokens, ours |-> TRUE, fits |-> TRUE, hits |-> 0, map |-> map]

\* How the header of an assistant turn reads when thinking is off, and when not.
Header == IF NoThink THEN "empty" ELSE "open"

NoOp == [slot |-> NoSlot, pc |-> "free", text |-> <<>>, file |-> File(<<>>, {}),
         entry |-> <<>>]
NoRequest == [conv |-> <<>>, prompt |-> <<>>]

Idle(tokens) == [pc |-> "idle", back |-> "idle", tokens |-> tokens, last |-> 0,
                 cached |-> 0, cold |-> 0, eff |-> <<>>, req |-> NoRequest]

Init ==
    /\ disk = [t \in {Render(f.tokens) : f \in Foreign} |->
                 CHOOSE f \in Foreign : Render(f.tokens) = t]
    /\ op = [NoOp EXCEPT !.pc = "evict"]
    /\ slot = [s \in Slots |-> Idle(<<>>)]
    /\ mem = NoMemory
    /\ client = [pc |-> "idle", req |-> NoRequest, todo |-> {}]
    /\ log = [convs |-> {<<o>> : o \in Openings}, calls |-> <<>>, requests |-> 0,
              faults |-> 0, unsaved |-> {}, cut |-> FALSE]

(* ------------------------------------------------------------------ helpers -- *)

Size(f) == Len(f.tokens) + Cardinality(f.map)
TotalSize(files) == SumFunction([t \in DOMAIN files |-> Size(files[t])])

\* kv_entry_eviction_score, compared without a division.
ScoreAtMost(f, g) ==
    (f.hits + 1) * Len(f.tokens) * Size(g) <= (g.hits + 1) * Len(g.tokens) * Size(f)

\* An error of the file system.
Fault == log.faults < MaxFaults

With(f, t, v) == [x \in DOMAIN f \union {t} |-> IF x = t THEN v ELSE f[x]]
Without(f, t) == [x \in DOMAIN f \ {t} |-> f[x]]

\* kv_cache_store_len
StoreLen(n) ==
    LET stable == n - Trim
        aligned == IF Align > 0 THEN stable - (stable % Align) ELSE stable
    IN IF n > MinTokens + Trim /\ aligned >= MinTokens THEN aligned ELSE n

\* kv_cache_continued_step and kv_cache_continued_store_target_for.
Step == IF Align > 0 THEN ((Interval + Align - 1) \div Align) * Align ELSE Interval
ContinuedDue(n, last) == Step > 0 /\ n >= MinTokens /\ n % Step = 0 /\ n > last

\* The mappings, whose order is not followed, that a file of this text gets: the ids in memory of its blocks.
MapOf(text) == {[id |-> e.id, block |-> e.block] :
                   e \in {x \in ToSet(mem.list) : x.block \in ToSet(text)}}

PutAll(m, map) == FoldSet(LAMBDA x, r : Put(r, x.id, x.block), m, map)

At(s, pc) == slot[s].pc = pc
Free == op.pc = "free"

\* The store of slot s ends: whether it stored decides what it notes.
Ends(s, ok) ==
    slot' = [slot EXCEPT ![s].pc = slot[s].back,
                         ![s].last = IF ok /\ slot[s].pc \in {"cold", "continued"}
                                        /\ Len(slot[s].tokens) > @
                                     THEN Len(slot[s].tokens) ELSE @]

(* ------------------------------------------------- client: parse a request -- *)

Calls(conv) == ToSet(conv) \intersect ToSet(CallIds)

\* A client sends a conversation it was given; readdir begins.
ClientSends ==
    /\ client.pc = "idle" /\ log.requests < MaxRequests
    /\ \E conv \in log.convs :
         client' = [pc |-> "scan", req |-> [conv |-> conv, prompt |-> <<>>],
                    todo |-> IF Calls(conv) = {} THEN {} ELSE DOMAIN disk]
    /\ log' = [log EXCEPT !.requests = @ + 1]
    /\ UNCHANGED <<disk, op, slot, mem>>

\* kv_cache_restore_tool_memory_for_messages, which takes no kv_mu: one file of
\* the directory, if it is still there.
ScanFile ==
    /\ client.pc = "scan"
    /\ \E t \in client.todo :
         /\ client' = [client EXCEPT !.todo = @ \ {t}]
         /\ mem' = IF t \in DOMAIN disk
                   THEN PutAll(mem, {x \in disk[t].map : x.id \in Calls(client.req.conv)})
                   ELSE mem
    /\ UNCHANGED <<disk, op, slot, log>>

\* How one message reads: a call whose text is known is replayed as sampled.
Rendered(m, x) ==
    IF x \notin ToSet(CallIds) THEN <<x>>
    ELSE IF x \notin Ids(m) THEN <<"open", "canonical">>
    ELSE <<IF Entry(m, x).think THEN "empty" ELSE "open", Entry(m, x).block>>

PromptOf(m, conv) == FoldLeft(LAMBDA text, x : text \o Rendered(m, x), <<>>, conv) \o <<Header>>

TouchAll(m, conv) == FoldLeft(LAMBDA r, x : IF x \in Ids(r) THEN Touched(r, x) ELSE r, m, conv)

\* tool_memory_attach_to_messages and render_chat_prompt_text.
Attach ==
    /\ client.pc = "scan" /\ client.todo = {}
    /\ mem' = TouchAll(mem, client.req.conv)
    /\ client' = [client EXCEPT !.pc = "ready", !.req.prompt = PromptOf(mem, client.req.conv)]
    /\ UNCHANGED <<disk, op, slot, log>>

(* ------------------------------------------------ slot: what is cached -- *)

\* The prompt as the client rendered it, in the tokens of its own.
EffectiveFromPrompt(tokens, prompt) == Tokenize(prompt)

\* The effective prompt: the exact tokens of the prefix, and the rest tokenized.
Effective(tokens, prompt) == tokens \o Tokenize(SubSeq(prompt, Len(tokens) + 1, Len(prompt)))

LoadFirst(cached, live) == IF cached > 0 THEN "prefill" ELSE "load"

\* Loading a checkpoint replaces the session: it is saved first.
FirstStep(cached, live) ==
    IF cached > 0 THEN "prefill" ELSE IF Len(live) >= MinTokens THEN "save" ELSE "load"

\* generate_job up to the load. The job is handed over (SlotDispatch) and the
\* session kept if its tokens, or its text, begin the prompt; otherwise it is
\* saved before anything replaces it.
Begin(s) ==
    /\ At(s, "idle") /\ client.pc = "ready"
    /\ LET prompt == client.req.prompt
           live == slot[s].tokens
           known == IF live # <<>> /\ IsPrefix(live, Tokenize(prompt)) THEN Tokenize(prompt)
                    ELSE IF live # <<>> /\ IsPrefix(Render(live), prompt)
                    THEN Effective(live, prompt) ELSE <<>>
           cached == IF known = <<>> THEN 0 ELSE Len(live)
       IN slot' = [slot EXCEPT ![s] =
            [@ EXCEPT !.req = client.req, !.cached = cached, !.cold = 0,
                      !.last = IF cached = 0 THEN 0 ELSE slot[s].last,
                      !.eff = IF cached = 0 THEN Tokenize(prompt) ELSE known,
                      !.pc = FirstStep(cached, live),
                      !.back = "load"]]
    /\ client' = [client EXCEPT !.pc = "idle", !.req = NoRequest]
    /\ UNCHANGED <<disk, op, mem, log>>

(* --------------------------------------------------------- slot: the store -- *)

StorePcs == {"save", "cold", "continued", "shutdown"}

\* kv_cache_existing_compatible: a file of this text from a server like this one
\* is kept and only its map rewritten; another is unlinked, unless that fails.
\* The same text in other tokens may make a payload of another size: not kept.
StoreBegins(s) ==
    /\ slot[s].pc \in StorePcs /\ Free
    /\ LET text == Render(slot[s].tokens)
           begun(pc) == [NoOp EXCEPT !.slot = s, !.pc = pc, !.text = text]
           kept == text \in DOMAIN disk /\ disk[text].ours
           same == kept /\ disk[text].tokens = slot[s].tokens
       IN \/ /\ kept /\ MapOf(text) = {}
             /\ Ends(s, TRUE) /\ UNCHANGED <<disk, op>>
          \/ /\ kept /\ MapOf(text) # {}
             /\ op' = begun("truncate") /\ UNCHANGED <<disk, slot>>
          \/ /\ ~same
             /\ disk' \in {disk, Without(disk, text)}
             /\ op' = begun("write") /\ UNCHANGED slot
    /\ UNCHANGED <<mem, client, log>>

\* The temporary file, which no scan of the directory takes for a checkpoint. It
\* is written and, after any error, unlinked.
Write ==
    /\ op.pc = "write"
    /\ \/ /\ op' = [op EXCEPT !.pc = "rename",
                              !.file = File(slot[op.slot].tokens, MapOf(op.text))]
          /\ UNCHANGED <<slot, log>>
       \/ /\ op' = NoOp /\ Ends(op.slot, FALSE)
          /\ log' = [log EXCEPT !.unsaved = @ \union {op.text}]
    /\ UNCHANGED <<disk, mem, client>>

RenameUnbounded ==
    /\ op.pc = "rename"
    /\ disk' = With(disk, op.text, op.file)
    /\ op' = NoOp /\ Ends(op.slot, TRUE)
    /\ UNCHANGED <<mem, client, log>>

Rename ==
    /\ op.pc = "rename"
    /\ disk' = With(disk, op.text, op.file)
    /\ op' = [op EXCEPT !.pc = "evict"]
    /\ log' = [log EXCEPT !.unsaved = @ \ {op.text}]
    /\ UNCHANGED <<slot, mem, client>>

\* kv_cache_evict reads the entries of the directory once (kv_cache_refresh). An
\* error there leaves files out: the eviction is cut short.
Refresh ==
    /\ op.pc = "evict"
    /\ \E read \in SUBSET DOMAIN disk :
         /\ read = DOMAIN disk \/ Fault
         /\ op' = [op EXCEPT !.pc = "victims", !.entry = [t \in read |-> disk[t]]]
         /\ log' = [log EXCEPT !.cut = read # DOMAIN disk,
                               !.faults = IF read # DOMAIN disk THEN @ + 1 ELSE @]
    /\ UNCHANGED <<disk, slot, mem, client>>

\* The total is the size of the entries left, and becomes 0 when an unlink fails.
EvictsOne == op.pc = "victims" /\ TotalSize(op.entry) > Budget

\* The entry with the least score goes first. A tie, which the time of the last
\* use breaks, may go either way.
Victims == {t \in DOMAIN op.entry : \A u \in DOMAIN op.entry :
               ScoreAtMost(op.entry[t], op.entry[u])}

Evict ==
    /\ EvictsOne
    /\ \E t \in Victims \intersect DOMAIN disk :
         /\ disk' = Without(disk, t)
         /\ op' = [op EXCEPT !.entry = Without(@, t)]
         /\ log' = [log EXCEPT !.unsaved = @ \union {t}]
    /\ UNCHANGED <<slot, mem, client>>

\* The victim is gone already, or its unlink fails for another reason: the total
\* is 0, so none of the entries left is a victim any more.
EvictFails ==
    /\ EvictsOne
    /\ \E t \in Victims :
         /\ t \notin DOMAIN disk \/ Fault
         /\ log' = [log EXCEPT !.cut = TRUE,
                               !.faults = IF t \in DOMAIN disk THEN @ + 1 ELSE @]
    /\ op' = [op EXCEPT !.entry = <<>>]
    /\ UNCHANGED <<disk, slot, mem, client>>

\* The eviction ends, and with it the store or the opening of the cache.
Evicted ==
    /\ op.pc = "victims" /\ ~EvictsOne
    /\ op' = NoOp
    /\ IF op.slot = NoSlot THEN UNCHANGED slot ELSE Ends(op.slot, TRUE)
    /\ UNCHANGED <<disk, mem, client, log>>

\* kv_cache_rewrite_tool_map: truncate, then what the memory holds by then, or as
\* much of it as is written before an error.
Mapped(t, map) == IF t \in DOMAIN disk THEN [disk EXCEPT ![t].map = map] ELSE disk

Truncate ==
    /\ op.pc = "truncate"
    /\ disk' = Mapped(op.text, {})
    /\ op' = [op EXCEPT !.pc = "map"]
    /\ UNCHANGED <<slot, mem, client, log>>

WriteMap ==
    /\ op.pc = "map"
    /\ \E map \in SUBSET MapOf(op.text) : disk' = Mapped(op.text, map)
    /\ op' = NoOp /\ Ends(op.slot, TRUE)
    /\ UNCHANGED <<mem, client, log>>

(* ---------------------------------------------------------- slot: the load -- *)

\* After the load: the prompt, what of it is cached, and where a cold store goes.
Starts(s, tokens, cached, eff) ==
    LET cold == IF cached = 0 /\ Len(eff) >= MinTokens /\ Len(eff) <= ColdMax
                THEN StoreLen(Len(eff)) ELSE 0
    IN slot' = [slot EXCEPT ![s] = [@ EXCEPT !.pc = "prefill", !.tokens = tokens,
                    !.cached = cached, !.eff = eff, !.cold = cold,
                    !.last = IF cached > 0 THEN cached ELSE slot[s].last]]

\* kv_cache_find_text_prefix
Found(prompt) ==
    {t \in DOMAIN disk : IsPrefix(t, prompt) /\ Len(t) >= MinTokens /\ disk[t].fits}

LoadFinds(s) ==
    /\ At(s, "load") /\ Free
    /\ LET found == Found(slot[s].req.prompt) IN
         IF found = {}
         THEN Starts(s, slot[s].tokens, 0, slot[s].eff) /\ UNCHANGED op
         ELSE /\ op' = [NoOp EXCEPT !.slot = s, !.pc = "open",
                          !.text = CHOOSE t \in found : \A u \in found : Len(u) <= Len(t)]
              /\ UNCHANGED slot
    /\ UNCHANGED <<disk, mem, client, log>>

\* The file may be gone or its text unreadable; its payload may fail to load, or
\* be corrupt and the file unlinked, which costs the session.
LoadOpens ==
    /\ op.pc = "open"
    /\ LET s == op.slot
           there == op.text \in DOMAIN disk
       IN \/ /\ Starts(s, slot[s].tokens, 0, slot[s].eff)
             /\ UNCHANGED <<disk, mem, log>>
          \/ /\ there
             /\ Starts(s, <<>>, 0, slot[s].eff)
             /\ \/ UNCHANGED <<disk, log>>
                \/ /\ disk' = Without(disk, op.text)
                   /\ log' = [log EXCEPT !.unsaved = @ \union {op.text}]
             /\ UNCHANGED mem
          \/ /\ there
             /\ LET f == disk[op.text] IN
                  /\ Starts(s, f.tokens, Len(f.tokens), Effective(f.tokens, slot[s].req.prompt))
                  /\ mem' = PutAll(mem, f.map)
                  /\ disk' = [disk EXCEPT ![op.text].hits = @ + 1]
             /\ UNCHANGED log
    /\ op' = NoOp
    /\ UNCHANGED client

(* -------------------------------------------- slot: prefill and generation -- *)

\* The prefix of a cold store first, then the rest. The session extends what it
\* holds of its target or starts over; after a chunk a store may be due.
Target(r) == IF r.cold > 0 THEN SubSeq(r.eff, 1, r.cold) ELSE r.eff

Prefill(s) ==
    /\ At(s, "prefill") /\ Free
    /\ LET r == slot[s]
           target == Target(r)
           held == IF IsPrefix(r.tokens, target) THEN Len(r.tokens) ELSE 0
           now == SubSeq(target, 1, held + 1)
       IN /\ held < Len(target)
          /\ \/ slot' = [slot EXCEPT ![s] = [@ EXCEPT !.tokens = now, !.back = "prefill",
                   !.pc = IF held + 1 > r.cached /\ ContinuedDue(held + 1, r.last)
                          THEN "continued" ELSE "prefill"]]
             \/ slot' = [slot EXCEPT ![s] = Idle(<<>>)]
    /\ UNCHANGED <<disk, op, mem, client, log>>

\* The target is reached: the cold store, then the rest of the prompt or the
\* generation, where a store may be due before the call is sampled.
Prefilled(s) ==
    /\ At(s, "prefill") /\ Free
    /\ LET r == slot[s] IN
         /\ r.tokens = Target(r)
         /\ slot' = [slot EXCEPT ![s] =
              IF r.cold = Len(r.tokens)
              THEN [@ EXCEPT !.pc = "cold", !.cold = 0,
                       !.back = IF r.tokens = r.eff THEN "decode" ELSE "prefill"]
              ELSE [@ EXCEPT !.pc = "decode"]]
    /\ UNCHANGED <<disk, op, mem, client, log>>

Decode(s) ==
    /\ At(s, "decode") /\ Free
    /\ slot' = [slot EXCEPT ![s].pc = IF ContinuedDue(Len(slot[s].tokens), slot[s].last)
                                      THEN "continued" ELSE "sample",
                            ![s].back = "sample"]
    /\ UNCHANGED <<disk, op, mem, client, log>>

\* The turn samples a tool call, or ends without a token.
Sample(s) ==
    /\ At(s, "sample") /\ Free
    /\ \/ /\ Cardinality(DOMAIN log.calls) < Len(CallIds)
          /\ \E b \in Blocks :
               slot' = [slot EXCEPT ![s].tokens = Append(@, Sampled(b)), ![s].pc = "remember"]
       \/ slot' = [slot EXCEPT ![s] = [Idle(slot[s].tokens) EXCEPT !.last = slot[s].last]]
    /\ UNCHANGED <<disk, op, mem, client, log>>

\* The call gets a new id, and its client can go on with the conversation.
Remember(s) ==
    /\ At(s, "remember")
    /\ LET n == Cardinality(DOMAIN log.calls) + 1
           tokens == slot[s].tokens IN
         IF n > Len(CallIds) THEN UNCHANGED <<mem, log>>
         ELSE /\ mem' = Remembered(mem, CallIds[n], Last(tokens)[1], NoThink)
              /\ log' = [log EXCEPT !.calls = With(@, CallIds[n], Render(tokens)),
                    !.convs = @ \union {slot[s].req.conv \o <<CallIds[n], "result">>}]
    /\ slot' = [slot EXCEPT ![s] = [Idle(slot[s].tokens) EXCEPT !.last = slot[s].last]]
    /\ UNCHANGED <<disk, op, client>>

(* ------------------------------------------------------------------ the end -- *)

\* The process is gone, and starts again with the directory it finds: what was
\* renamed. A temporary file stays behind, which nothing reads or counts.
Restarted ==
    /\ slot' = [s \in Slots |-> Idle(<<>>)]
    /\ mem' = NoMemory
    /\ client' = [pc |-> "idle", req |-> NoRequest, todo |-> {}]
    /\ op' = [NoOp EXCEPT !.pc = "evict"]

Crash ==
    /\ Fault
    /\ Restarted
    /\ log' = [log EXCEPT !.faults = @ + 1]
    /\ UNCHANGED disk

\* A stop, once the clients are gone, persists every slot in turn.
Stop ==
    /\ Fault
    /\ client.pc = "idle" /\ \A s \in Slots : At(s, "idle")
    /\ slot' = [s \in Slots |-> [slot[s] EXCEPT !.back = "stopped",
                  !.pc = IF Len(slot[s].tokens) >= MinTokens THEN "shutdown" ELSE "stopped"]]
    /\ log' = [log EXCEPT !.faults = @ + 1]
    /\ UNCHANGED <<disk, op, mem, client>>

Stopped ==
    /\ \A s \in Slots : At(s, "stopped")
    /\ Restarted
    /\ UNCHANGED <<disk, log>>

\* The directory is the user's: a file may go at any time.
Delete ==
    /\ Fault
    /\ \E t \in DOMAIN disk :
         /\ disk' = Without(disk, t)
         /\ log' = [log EXCEPT !.faults = @ + 1, !.unsaved = @ \union {t}]
    /\ UNCHANGED <<op, slot, mem, client>>

SlotNext(s) ==
    \/ Begin(s) \/ StoreBegins(s) \/ LoadFinds(s)
    \/ Prefill(s) \/ Prefilled(s) \/ Decode(s) \/ Sample(s) \/ Remember(s)

Next ==
    \/ ClientSends \/ ScanFile \/ Attach
    \/ \E s \in Slots : SlotNext(s)
    \/ Write \/ Rename \/ Refresh \/ Evict \/ EvictFails \/ Evicted
    \/ Truncate \/ WriteMap \/ LoadOpens
    \/ Crash \/ Stop \/ Stopped \/ Delete

Spec == Init /\ [][Next]_vars

(* --------------------------------------------------------------- properties -- *)

\* Types and bounds; and the counters of the tool memory, which slots and client
\* threads change in any order, are exact and within its limits.
TypeOK ==
    /\ \A t \in DOMAIN disk :
         /\ disk[t].ours \in BOOLEAN /\ disk[t].fits \in BOOLEAN
         /\ disk[t].hits \in Nat /\ (disk[t].ours => disk[t].hits <= MaxRequests)
         /\ \A x \in disk[t].map : x.id \in DOMAIN log.calls /\ x.block \in Blocks
    /\ op.slot \in Slots \union {NoSlot}
    /\ op.pc \in {"free", "write", "rename", "evict", "victims", "truncate", "map", "open"}
    /\ \A s \in Slots :
         /\ slot[s].pc \in StorePcs \union
              {"idle", "load", "prefill", "decode", "sample", "remember", "stopped"}
         /\ slot[s].cached \in Nat /\ slot[s].cold \in Nat /\ slot[s].last \in Nat
    /\ client.pc \in {"idle", "scan", "ready"}
    /\ Ids(mem) \subseteq DOMAIN log.calls
    /\ Exact(mem)

\* A checkpoint holds the text it is named after; a slot prefills the very bytes
\* of its prompt; and what the request was told is cached is what the session
\* holds, in the tokens it was sampled in: none of it is evaluated again.
RestoredMatches ==
    /\ \A t \in DOMAIN disk : Render(disk[t].tokens) = t
    /\ \A s \in Slots : slot[s].pc \in {"prefill", "cold", "continued", "decode", "sample"} =>
         /\ Render(slot[s].eff) = slot[s].req.prompt
         /\ IsPrefix(SubSeq(slot[s].eff, 1, slot[s].cached), slot[s].tokens)
         /\ slot[s].pc = "sample" => slot[s].tokens = slot[s].eff

\* "A cache hit for an older prefix would silently discard the newer conversation
\* state" (q36_server.c:9316-9318): a session another conversation replaces is in
\* the directory, unless its store failed or its file was evicted or deleted.
ReplacedIsSaved ==
    [][\A s \in Slots :
         LET old == slot[s].tokens IN
         /\ slot[s].pc \in {"load", "prefill"} /\ Len(old) >= MinTokens
         /\ slot'[s].pc # "idle" /\ ~IsPrefix(old, slot'[s].tokens)
         => Render(old) \in DOMAIN disk \union log.unsaved]_vars

\* Between stores the checkpoints fit the disk budget, but for the tool maps
\* rewritten since, unless an error cut the last eviction short: a failed unlink,
\* as of a file deleted in the middle of the eviction, ends it over the budget
\* (q36_server.c:7576-7578), and so may a directory that could not be read. The
\* next eviction that no error cuts short makes up for it.
WithinBudget ==
    op.pc = "free" /\ ~log.cut => SumFunction([t \in DOMAIN disk |-> Len(disk[t].tokens)]) <= Budget

\* "This lets restarted servers render later client history byte-for-byte like
\* the original model output" (docs/KV_CACHE.md:140-142): the turn of a call whose
\* id the memory knows reads as it was sampled.
ReplayIsExact ==
    \A id \in Ids(mem) :
        LET text == log.calls[id] IN
        Rendered(mem, id) = SubSeq(text, Len(text) - 1, Len(text))

================================================================================
