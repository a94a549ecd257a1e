----------------------------- MODULE MCSession -----------------------------
(* A small instance of Session: a word and an end token.                   *)
EXTENDS Session

\* The target ends a reply at every third token; its second choice is the
\* other token.
MCTop(t) == IF Len(t) % 3 = 2 THEN Eos ELSE 1
MCSecond(t) == 3 - MCTop(t)

MCPrompts == {<<1>>, <<1, 1>>, <<1, 2, 1, 1>>}

\* How far a session is followed whose tensors an error has set apart: through
\* prompts, decoding and payloads of so few tokens, not into another block.
SkewBound == 2
Followed ==
    /\ skew => op.kind # "block" /\ Len(checkpoint) <= SkewBound
    /\ saved # NoPayload /\ saved.skew => Len(saved.tokens) < SkewBound
=============================================================================
