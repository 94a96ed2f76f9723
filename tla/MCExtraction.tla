---------------------------- MODULE MCExtraction ----------------------------
(* Instances of Extraction for TLC. *)
EXTENDS Extraction

CONSTANTS t1, h1, h2, y1

\* TypeScript, PHP and Python files.
Grammars == [f \in File |->
               IF f = t1 THEN "typescript" ELSE IF f = y1 THEN "python" ELSE "php"]

Kinds == [g \in Grammar |->
            IF g = "typescript" THEN "query" ELSE IF g = "php" THEN "php" ELSE "walk"]

\* BuildFull scans t1, h1 goes through ExtractWithPolicy, and a review has h2 in
\* its diff.
BuildTimedAndReview ==
    [f \in File |-> IF f = t1 THEN "build" ELSE IF f = h1 THEN "timed" ELSE "review"]

\* BuildFull's workers, one per language.
PerLanguage == Grammars

Lengths == [f \in File |-> IF f = t1 THEN 2 ELSE 1]

Default == {[php |-> "auto", timeout |-> TRUE, maxSize |-> FALSE]}
TimedAndSized ==
    {[php |-> "auto", timeout |-> TRUE, maxSize |-> FALSE],
     [php |-> "regex", timeout |-> FALSE, maxSize |-> TRUE]}
=============================================================================
