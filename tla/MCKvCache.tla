------------------------------- MODULE MCKvCache -------------------------------
(* An instance of KvCache: two slots, two opening messages, and a directory    *)
(* that starts with a file another server left.                                *)
EXTENDS KvCache

CONSTANTS s1, s2

MCSlots == {s1, s2}
Symmetry == Permutations(MCSlots)

MCCallIds1 == <<"call1">>
MCCallIds2 == <<"call1", "call2">>

ForeignFile(fits) ==
    [tokens |-> Tokenize(<<"hello", Header>>), ours |-> FALSE, fits |-> fits,
     hits |-> 0, map |-> {}]

MCForeign == {ForeignFile(TRUE)}

================================================================================
