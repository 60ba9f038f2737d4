----------------------------- MODULE Scheduler -----------------------------
(***************************************************************************)
(* The debouncing queue (internal/scheduler/scheduler.go) and its loop.    *)
(* A queued key is due once Window ticks have passed without an event on   *)
(* it; the loop takes all due keys at once and handles them one by one.    *)
(* The map from keys to event times holds the time passed since then, and  *)
(* stops at Window: the code only asks whether it has reached it.          *)
(* Clear and Len, which nothing but the tests calls, are left out.         *)
(***************************************************************************)
EXTENDS Integers, SequencesExt, Sublists

CONSTANTS
    Keys,      \* what events are about: paths of files
    Window,    \* debounce window, in ticks
    Threshold, \* queue length that raises the degrade signal
    NoKey,     \* the loop is handling nothing
    NotQueued  \* a key without an entry in the queue

ASSUME SchedulerAssumption ==
    /\ Window \in Nat \ {0}
    /\ Threshold \in Nat \ {0}
    /\ NoKey \notin Keys
    /\ NotQueued \notin Nat

VARIABLES
    queue,   \* key -> ticks since its last event, or NotQueued
    order,   \* queued keys in the order they came in
    batch,   \* due keys the loop has taken and not yet handled
    running, \* the key processFn runs for
    degrade, \* DegradeSignal holds a value
    ctx      \* "live", "cancelled", or "stopped": the loop has returned

scheduler == <<queue, order, batch, running, degrade, ctx>>

Queued(k) == queue[k] # NotQueued
Due(k) == Queued(k) /\ queue[k] >= Window
Waits(k) == Queued(k) /\ queue[k] < Window

QueueTypeOK ==
    /\ queue \in [Keys -> 0 .. Window \cup {NotQueued}]
    /\ order \in Seq(Keys)
    /\ batch \in Seq(Keys)
    /\ running \in Keys \cup {NoKey}
    /\ degrade \in BOOLEAN
    /\ ctx \in {"live", "cancelled", "stopped"}

QueueInit ==
    /\ queue = [k \in Keys |-> NotQueued]
    /\ order = <<>> /\ batch = <<>>
    /\ running = NoKey
    /\ degrade = FALSE
    /\ ctx = "live"

-----------------------------------------------------------------------------
\* Mutant: a key of the running batch gets no new place in the slice.
EnqueueLost(k) ==
    /\ queue' = [queue EXCEPT ![k] = 0]
    /\ IF Queued(k) \/ Contains(batch, k)
       THEN UNCHANGED <<order, degrade>>
       ELSE /\ order' = Append(order, k)
            /\ degrade' = (degrade \/ Len(order') >= Threshold)
    /\ UNCHANGED <<batch, running, ctx>>

\* A known key only gets its time refreshed.  The signal channel holds one
\* value and the send does not wait.
Enqueue(k) ==
    /\ queue' = [queue EXCEPT ![k] = 0]
    /\ IF Queued(k)
       THEN UNCHANGED <<order, degrade>>
       ELSE /\ order' = Append(order, k)
            /\ degrade' = (degrade \/ Len(order') >= Threshold)
    /\ UNCHANGED <<batch, running, ctx>>

\* Time passes.
Tick ==
    /\ \E k \in Keys : Waits(k)
    /\ queue' = [k \in Keys |-> IF Waits(k) THEN queue[k] + 1 ELSE queue[k]]
    /\ UNCHANGED <<order, batch, running, degrade, ctx>>

Ready ==
    /\ batch' = Kept(order, {k \in Keys : Due(k)})
    /\ order' = Kept(order, {k \in Keys : Waits(k)})
    /\ queue' = [k \in Keys |-> IF Due(k) THEN NotQueued ELSE queue[k]]

\* Mutant: the loop polls while a batch is under way.
PollAnyTime ==
    /\ ctx # "stopped"
    /\ running = NoKey
    /\ Ready
    /\ UNCHANGED <<running, degrade, ctx>>

\* The ticker fires.  With the context cancelled too, select may still pick it.
Poll ==
    /\ ctx # "stopped"
    /\ running = NoKey /\ batch = <<>>
    /\ Ready
    /\ UNCHANGED <<running, degrade, ctx>>

\* Mutant: every key is handled in a goroutine of its own.
HandleInGoroutine ==
    /\ ctx = "live"
    /\ batch # <<>>
    /\ running' = Head(batch)
    /\ batch' = Tail(batch)
    /\ UNCHANGED <<queue, order, degrade, ctx>>

HandleKey ==
    /\ ctx = "live"
    /\ running = NoKey
    /\ batch # <<>>
    /\ running' = Head(batch)
    /\ batch' = Tail(batch)
    /\ UNCHANGED <<queue, order, degrade, ctx>>

\* processFn returns, fails or panics: SafeCall recovers and the key is done.
Finish ==
    /\ running # NoKey
    /\ running' = NoKey
    /\ UNCHANGED <<queue, order, batch, degrade, ctx>>

Cancel ==
    /\ ctx = "live"
    /\ ctx' = "cancelled"
    /\ UNCHANGED <<queue, order, batch, running, degrade>>

\* Start returns: what is left of the batch is dropped.
Stop ==
    /\ ctx = "cancelled"
    /\ running = NoKey
    /\ ctx' = "stopped"
    /\ batch' = <<>>
    /\ UNCHANGED <<queue, order, running, degrade>>

\* A user of the package takes the signal; codeschema itself never does.
TakeSignal ==
    /\ degrade
    /\ degrade' = FALSE
    /\ UNCHANGED <<queue, order, batch, running, ctx>>

QueueNext ==
    \/ \E k \in Keys : Enqueue(k)
    \/ Tick \/ Poll \/ HandleKey \/ Finish \/ Cancel \/ Stop \/ TakeSignal

\* Time passes, the ticker fires again and again, and processFn returns.
QueueFairness == WF_scheduler(Tick) /\ WF_scheduler(Poll) /\ WF_scheduler(HandleKey) /\ WF_scheduler(Finish) /\ WF_scheduler(Stop)

QueueSpec == QueueInit /\ [][QueueNext]_scheduler /\ QueueFairness

-----------------------------------------------------------------------------
(* Properties *)

QueueMatchesOrder ==
    /\ \A k \in Keys : Queued(k) <=> Contains(order, k)
    /\ \A i, j \in DOMAIN order : order[i] = order[j] => i = j

\* Types, and the map and the slice hold the same keys, each key once: a key of
\* the map without a place in the slice would never be handled again, because
\* Enqueue would only refresh its time.
QueueSound == QueueTypeOK /\ QueueMatchesOrder

Pending(k) == Queued(k) \/ Contains(batch, k)

QuietKeysTaken ==
    \A k \in Keys :
        <>[][~Enqueue(k)]_scheduler => [](Queued(k) => <>(~Queued(k) \/ ctx # "live"))
TakenKeysHandled == \A k \in Keys : Contains(batch, k) ~> (running = k \/ ctx # "live")

\* A key that gets no more events leaves the queue, and a key that was taken
\* is handled, unless the scheduler is shut down: one slow or busy key does not
\* keep the others waiting for ever.
KeysServed == QuietKeysTaken /\ TakenKeysHandled

Interface == INSTANCE PendingEvents
    WITH pending <- {k \in Keys : Pending(k)}, current <- running, live <- ctx = "live"

\* Every event is answered by a handling that starts after it, one handling
\* runs at a time, and only a shutdown loses events.
ImplementsPendingEvents == Interface!Spec
=============================================================================
