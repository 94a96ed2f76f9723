----------------------------- MODULE OneAnswer -----------------------------
(***************************************************************************)
(* What a caller of engine.Review may rely on: the model is asked a        *)
(* bounded number of times, and the review comes to one end, an answer the *)
(* model has given or an error, and stays there.                           *)
(***************************************************************************)
EXTENDS Naturals

CONSTANTS
    Review,      \* calls of engine.Review
    MaxRequests  \* requests a review may cost

VARIABLES
    status,      \* status[r]: "running", "answered" or "failed"
    asked        \* asked[r]: requests sent for r

vars == <<status, asked>>

Init ==
    /\ status = [r \in Review |-> "running"]
    /\ asked = [r \in Review |-> 0]

Ask(r) ==
    /\ status[r] = "running" /\ asked[r] < MaxRequests
    /\ asked' = [asked EXCEPT ![r] = @ + 1]
    /\ UNCHANGED status

Answer(r) ==
    /\ status[r] = "running" /\ asked[r] > 0
    /\ status' = [status EXCEPT ![r] = "answered"]
    /\ UNCHANGED asked

Fail(r) ==
    /\ status[r] = "running"
    /\ status' = [status EXCEPT ![r] = "failed"]
    /\ UNCHANGED asked

Next == \E r \in Review : Ask(r) \/ Answer(r) \/ Fail(r)

Spec == Init /\ [][Next]_vars
=============================================================================
