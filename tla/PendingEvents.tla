--------------------------- MODULE PendingEvents ---------------------------
(***************************************************************************)
(* What a user of the scheduler relies on: one handler runs at a time, and *)
(* every event on a key is followed by a handling of the key that starts   *)
(* after it.  Events are merged, so a handling may answer many; an event   *)
(* may also be answered twice.  Only a shutdown loses events.              *)
(***************************************************************************)
CONSTANTS
    Keys,  \* what events are about: paths of files
    NoKey  \* the handler is not running

VARIABLES
    pending,  \* keys with an event that is not answered
    current,  \* the key being handled
    live      \* the context is not cancelled

Init == pending = {} /\ current = NoKey /\ live = TRUE

Event(k) ==
    /\ pending' = pending \cup {k}
    /\ UNCHANGED current

\* The answered event goes; one that came in while the key was taken stays.
Start(k) ==
    /\ current = NoKey
    /\ k \in pending
    /\ current' = k
    /\ pending' \in {pending, pending \ {k}}

Finish ==
    /\ current # NoKey
    /\ current' = NoKey
    /\ UNCHANGED pending

Shutdown ==
    /\ live' = FALSE
    /\ UNCHANGED <<pending, current>>

Lose ==
    /\ ~live
    /\ pending' \in SUBSET pending
    /\ UNCHANGED <<current, live>>

Next ==
    \/ (Finish \/ \E k \in Keys : Event(k) \/ Start(k)) /\ UNCHANGED live
    \/ Shutdown
    \/ Lose

Spec == Init /\ [][Next]_<<pending, current, live>>
=============================================================================
