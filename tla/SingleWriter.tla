---------------------------- MODULE SingleWriter ----------------------------
(***************************************************************************)
(* What the lock file and the rename are for: one published document, at   *)
(* most one owner, replaced by its owner only, each time by one that       *)
(* supersedes it.  An owner that perishes, or leaves without giving it up, *)
(* is never succeeded.                                                     *)
(***************************************************************************)
CONSTANTS
    Client,
    Nobody,      \* the owner of an unowned document, not a Client
    Perished,    \* the owner that is gone for ever, not a Client
    Newer(_, _)  \* whether one document may replace another

VARIABLES owner, published

Init == owner = Nobody

Take(c) ==
    /\ owner = Nobody
    /\ owner' = c
    /\ UNCHANGED published

Publish(c) ==
    /\ owner = c
    /\ Newer(published', published)
    /\ UNCHANGED owner

Leave(c) ==
    /\ owner = c
    /\ owner' = Nobody
    /\ UNCHANGED published

Perish(c) ==
    /\ owner = c
    /\ owner' = Perished
    /\ UNCHANGED published

Next == \E c \in Client : Take(c) \/ Publish(c) \/ Leave(c) \/ Perish(c)

Spec == Init /\ [][Next]_<<owner, published>>
=============================================================================
