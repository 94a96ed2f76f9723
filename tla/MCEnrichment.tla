--------------------------- MODULE MCEnrichment ---------------------------
(* Instances of Enrichment for TLC. *)
EXTENDS Enrichment

\* A line that defines the symbols D and uses the symbols U.
L(D, U) == [def |-> D, use |-> U, blank |-> FALSE, size |-> 1]
Other == L({}, {})

\* A line that fills an excerpt, and one that no scanner gets past.
Wide == [Other EXCEPT !.size = 4]
Endless == [Other EXCEPT !.size = 9]

\* 1 is the changed file and 4 is beside it, 3 is in a directory next to it,
\* 2 in one below that; 5 is the test of 1, which the walk skips.
Dirs == [f \in 1..5 |-> CASE f = 3 -> "b" [] f = 2 -> "b/c" [] OTHER -> "a"]
Parents == [d \in {"a", "b", "b/c"} |-> IF d = "b/c" THEN "b" ELSE "root"]
Tests == [f \in 1..5 |-> IF f = 1 THEN {5} ELSE {}]

\* A definition behind three lines, and one before a blank line;
\* two that are too far apart for one excerpt.
Deep == <<Other, Other, L({}, {2}), L({1}, {})>>
Early == <<L({2}, {1}), Other, Other, BlankLine, Other>>
Apart == <<L({1}, {}), Other, L({2}, {1})>>
CutOff == <<Wide, L({1}, {}), L({2}, {1})>>
Behind == <<L({1}, {}), Endless, L({2}, {1})>>
TestFile == <<L({}, {1}), Other, Other>>

\* Two definitions of each symbol, and three of symbol 1.
Far == (1 :> Early) @@ (2 :> CutOff) @@ (4 :> Deep) @@ (5 :> TestFile)
Sibling == (1 :> <<L({}, {1, 2})>>) @@ (2 :> Apart) @@ (3 :> Behind)
Workspaces == {Far, Sibling}
Contents == {Apart, <<>>}

\* Reviews are interchangeable.
Reviews == Permutations(Review)

Plain == [index |-> FALSE, callers |-> FALSE, types |-> FALSE, tests |-> FALSE]
Configs ==
    {Plain, [Plain EXCEPT !.index = TRUE],
     [index |-> TRUE, callers |-> TRUE, types |-> TRUE, tests |-> TRUE]}
=============================================================================
