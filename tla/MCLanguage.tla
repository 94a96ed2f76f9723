----------------------------- MODULE MCLanguage -----------------------------
(* Trees of up to MaxNodes nodes: each shape, with an unnamed node or not,  *)
(* more or fewer nodes looked for, and one without width or not.  Each node *)
(* has its first child as its name and its last node as its second field.   *)
EXTENDS Language

CONSTANT MaxNodes

Shapes ==
    {last \in UNION {[1..n -> 1..n] : n \in 1..MaxNodes} :
        /\ last[1] = Len(last)
        /\ \A n \in DOMAIN last : n <= last[n] /\ \A m \in n..last[n] : last[m] <= last[n]}

MCTree ==
    {t \in UNION {[last : {last},
                   named : {DOMAIN last, DOMAIN last \ {2}},
                   hit : {DOMAIN last, {1, Len(last)}, {n \in DOMAIN last : n > 2}},
                   empty : {{}, {Len(last)}},
                   fields : {[n \in DOMAIN last |-> IF n < last[n] THEN <<n + 1, last[n]>> ELSE <<0>>]}] :
                  last \in Shapes} : t.hit \subseteq t.named}
=============================================================================
