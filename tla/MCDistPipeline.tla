--------------------------- MODULE MCDistPipeline ---------------------------
(* Values for model checking DistPipeline. *)
EXTENDS DistPipeline

MCTokens == {1, 2}
MCEos    == 2

Ask(s, kind, inputs) == {[s |-> s, kind |-> kind, input |-> i] : i \in inputs}

\* The first session is used in every way.  The prompt of four tokens is
\* prefilled in two blocks; of the drafts one is confirmed to its end, one to
\* its second token and one not at all.  The second session comes and goes.
MCRequests ==
    Ask(1, "sync", {<<1>>, <<2, 1, 1, 1>>}) \cup
    Ask(1, "eval", {<<1>>}) \cup
    Ask(1, "spec", {<<1, 1, 2>>, <<1, 1, 1>>, <<1, 2>>}) \cup
    Ask(1, "invalidate", {<<>>}) \cup
    Ask(1, "free", {<<>>}) \cup
    Ask(2, "sync", {<<1>>}) \cup
    Ask(2, "free", {<<>>})

\* A model whose choice depends on where it is, and that ends some replies.
MCTarget(h) == IF Len(h) = 3 THEN 2 ELSE 1
=============================================================================
