------------------------------ MODULE ToolMemory ------------------------------
(* The bounded map from tool call ids to the text sampled for them             *)
(* (tool_memory in q36_server.c): entries in order of use, most recent first,  *)
(* each holding a reference to a block of text that several ids may share. The *)
(* count of references and the bytes are kept as the code keeps them, by       *)
(* adding and subtracting.                                                     *)
EXTENDS Integers, Sequences, FiniteSets, SequencesExt

CONSTANTS Blocks,       \* texts sampled for tool calls
          MaxEntries,   \* max_entries
          MaxBytes      \* max_bytes, when an entry is 1 byte and a block 2

ASSUME ToolMemoryAssumption == MaxEntries \in Nat \ {0} /\ MaxBytes \in Nat \ {0}

EntryBytes == 1
BlockBytes == 2

NoMemory == [list |-> <<>>, refs |-> [b \in Blocks |-> 0], bytes |-> 0]

Ids(m) == {m.list[i].id : i \in 1..Len(m.list)}

Position(m, id) == CHOOSE i \in 1..Len(m.list) : m.list[i].id = id
Entry(m, id) == m.list[Position(m, id)]

\* tool_memory_touch
Touched(m, id) ==
    [m EXCEPT !.list = <<Entry(m, id)>> \o RemoveAt(@, Position(m, id))]

\* A release that leaves the bytes of the block counted.
ReleasedUncounted(m, b) == [m EXCEPT !.refs[b] = @ - 1]

\* tool_memory_release_block_locked: the last reference frees the block.
Released(m, b) ==
    [m EXCEPT !.refs[b] = @ - 1,
              !.bytes = @ - (IF m.refs[b] = 1 THEN BlockBytes ELSE 0)]

\* tool_memory_remove_entry_locked
Removed(m, id) ==
    Released([m EXCEPT !.list = RemoveAt(@, Position(m, id)),
                       !.bytes = @ - EntryBytes], Entry(m, id).block)

Over(m) == Len(m.list) > MaxEntries \/ m.bytes > MaxBytes

\* tool_memory_prune_locked: while over a limit, the least recently used goes. It
\* ends, because there is a round for every entry.
Pruned(m) ==
    FoldLeft(LAMBDA r, e : IF Over(r) THEN Removed(r, Last(r.list).id) ELSE r, m, m.list)

Inserted(m, id, b) ==
    [list  |-> <<[id |-> id, block |-> b, think |-> FALSE]>> \o m.list,
     refs  |-> [m.refs EXCEPT ![b] = @ + 1],
     bytes |-> m.bytes + EntryBytes + (IF m.refs[b] = 0 THEN BlockBytes ELSE 0)]

\* tool_memory_put_locked
Put(m, id, b) ==
    IF id \notin Ids(m) THEN Pruned(Inserted(m, id, b))
    ELSE IF Entry(m, id).block = b THEN Pruned(Touched(m, id))
    ELSE Pruned(Inserted(Removed(m, id), id, b))

\* tool_memory_remember: the entry, if it stayed, is told how its turn began.
Remembered(m, id, b, think) ==
    LET p == Put(m, id, b) IN
    [p EXCEPT !.list = [i \in 1..Len(@) |->
        IF @[i].id = id THEN [@[i] EXCEPT !.think = think] ELSE @[i]]]

\* The counters are exact and the limits kept: whatever order the entries came
\* and went in, no block is counted after its last entry or freed before it.
Exact(m) ==
    /\ \A b \in Blocks : m.refs[b] = Cardinality({e \in ToSet(m.list) : e.block = b})
    /\ m.bytes = EntryBytes * Len(m.list)
                 + BlockBytes * Cardinality({b \in Blocks : m.refs[b] > 0})
    /\ ~Over(m)

================================================================================
