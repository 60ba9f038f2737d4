----------------------------- MODULE EventProofs -----------------------------
(***************************************************************************)
(* The parts that wait for somebody else: the scheduler for its timers,    *)
(* for every set of keys and all limits; the client for the answers of a   *)
(* language server, for any callers and files, pipes of any length and     *)
(* servers of either kind; the downloader for a server that cuts it off or *)
(* has another archive, for archives of any length.                        *)
(*                                                                         *)
(* The scheduler: the map and the slice of its queue agree, and it         *)
(* implements PendingEvents, by which WatchPipeline describes it.          *)
(*                                                                         *)
(* The client: none of its properties is inductive.  OwnAnswer:            *)
(* an answer is on its way through the server, a pipe, the reader and a    *)
(* channel.  All that carries one request identifier carries one path:     *)
(* there is a function from identifiers to paths that every message, frame *)
(* and caller agrees with, and a new request extends it at an identifier   *)
(* nobody has seen.  NothingPiledUp needs that an identifier belongs to    *)
(* one caller and travels only once it is written (Counted); AskedWhenOpen *)
(* that the messages in the pipe, read in their order, open a document     *)
(* before they ask about it (Opened).                                      *)
(*                                                                         *)
(* The download: the part file and the reply to come make one row of       *)
(* blocks (InOrder), and what is extracted was checked (Trusted).          *)
(***************************************************************************)
EXTENDS Scheduler, LspClient, ModelDownload, SublistProofs, TLAPS

(* The scheduler *)

\* Every queued key is either due or waits, and not both.
LEMMA DueOrWaits ==
    ASSUME QueueTypeOK, NEW k \in Keys
    PROVE  /\ Queued(k) <=> Due(k) \/ Waits(k)
           /\ ~(Due(k) /\ Waits(k))
           /\ Queued(k) => queue[k] \in 0 .. Window
<1>1. queue[k] \in 0 .. Window \/ queue[k] = NotQueued
  BY DEF QueueTypeOK
<1>2. queue[k] # NotQueued => queue[k] \in 0 .. Window /\ Window \in Nat
  BY <1>1, SchedulerAssumption
<1> QED
  BY <1>1, <1>2 DEF Queued, Due, Waits

\* Ready splits the slice: what is due goes to the loop, what waits stays.
LEMMA ReadyFacts ==
    ASSUME QueueSound, Ready
    PROVE  /\ queue' \in [Keys -> 0 .. Window \cup {NotQueued}]
           /\ order' \in Seq(Keys) /\ batch' \in Seq(Keys)
           /\ QueueMatchesOrder'
           /\ \A k \in Keys : Contains(batch', k) <=> Due(k)
           /\ \A k \in Keys : Queued(k)' <=> Waits(k)
<1>1. QueueTypeOK /\ QueueMatchesOrder /\ order \in Seq(Keys) /\ Distinct(order)
  BY DEF QueueSound, QueueTypeOK, QueueMatchesOrder, Distinct
<1>2. /\ batch' \in Seq(Keys)
      /\ \A k \in Keys : Contains(batch', k) <=> Contains(order, k) /\ Due(k)
  BY <1>1, KeptFacts DEF Ready
<1>3. /\ order' \in Seq(Keys) /\ Distinct(order')
      /\ \A k \in Keys : Contains(order', k) <=> Contains(order, k) /\ Waits(k)
  BY <1>1, KeptFacts DEF Ready
<1>4. \A k \in Keys : queue'[k] = IF Due(k) THEN NotQueued ELSE queue[k]
  BY DEF Ready
<1>5. \A k \in Keys : Queued(k)' <=> Waits(k)
  BY <1>1, <1>4, DueOrWaits DEF Queued
<1>6. queue' \in [Keys -> 0 .. Window \cup {NotQueued}]
  BY <1>1 DEF Ready, QueueTypeOK
<1>7. \A k \in Keys : Contains(order, k) <=> Queued(k)
  BY <1>1 DEF QueueMatchesOrder
<1>8. QueueMatchesOrder'
  BY <1>1, <1>3, <1>5, <1>7, DueOrWaits DEF QueueMatchesOrder, Distinct
<1> QED
  BY <1>1, <1>2, <1>3, <1>5, <1>6, <1>7, <1>8, DueOrWaits

\* The first event on a key, and one on a key that is queued.
LEMMA EnqueueFacts ==
    ASSUME QueueSound, NEW k \in Keys, Enqueue(k)
    PROVE  QueueSound' /\ \A l \in Keys : Queued(l)' <=> Queued(l) \/ l = k
<1>1. QueueTypeOK /\ QueueMatchesOrder /\ order \in Seq(Keys) /\ Distinct(order)
  BY DEF QueueSound, QueueTypeOK, QueueMatchesOrder, Distinct
<1>2. 0 \in 0 .. Window /\ 0 # NotQueued
  BY SchedulerAssumption
<1>3. /\ queue' = [queue EXCEPT ![k] = 0] /\ queue \in [Keys -> 0 .. Window \cup {NotQueued}]
      /\ UNCHANGED <<batch, running, ctx>>
  BY <1>1 DEF Enqueue, QueueTypeOK
<1>4. queue' \in [Keys -> 0 .. Window \cup {NotQueued}] /\ \A l \in Keys : Queued(l)' <=> Queued(l) \/ l = k
  BY <1>2, <1>3 DEF Queued
<1>5. CASE Queued(k)
  <2>1. UNCHANGED <<order, degrade>>
    BY <1>5 DEF Enqueue
  <2>2. \A l \in Keys : Queued(l)' <=> Queued(l)
    BY <1>4, <1>5
  <2> QED
    BY <1>1, <1>3, <1>4, <2>1, <2>2 DEF QueueSound, QueueTypeOK, QueueMatchesOrder
<1>6. CASE ~Queued(k)
  <2>1. order' = Append(order, k) /\ degrade' \in BOOLEAN
    BY <1>1, <1>6 DEF Enqueue, QueueTypeOK
  <2>2. ~Contains(order, k)
    BY <1>1, <1>6 DEF QueueMatchesOrder
  <2>3. /\ order' \in Seq(Keys) /\ Distinct(order')
        /\ \A l \in Keys : Contains(order', l) <=> Contains(order, l) \/ l = k
    BY <1>1, <2>1, <2>2, AppendFacts
  <2>4. QueueMatchesOrder'
    BY <1>1, <1>4, <2>3 DEF QueueMatchesOrder, Distinct
  <2> QED
    BY <1>1, <1>3, <1>4, <2>1, <2>3, <2>4 DEF QueueSound, QueueTypeOK
<1> QED
  BY <1>4, <1>5, <1>6

\* Time queues nothing and takes nothing away.
LEMMA TickFacts ==
    ASSUME QueueSound, Tick
    PROVE  QueueSound' /\ \A k \in Keys : Queued(k)' <=> Queued(k)
<1>1. QueueTypeOK /\ QueueMatchesOrder
  BY DEF QueueSound
<1>2. ASSUME NEW k \in Keys
      PROVE  queue'[k] \in 0 .. Window \cup {NotQueued} /\ (Queued(k)' <=> Queued(k))
  <2>1. CASE Waits(k)
    <3>1. queue[k] \in 0 .. Window /\ queue[k] < Window /\ Window \in Nat
      BY <1>1, <2>1, DueOrWaits, SchedulerAssumption DEF Waits
    <3>2. queue'[k] = queue[k] + 1
      BY <2>1 DEF Tick
    <3>3. queue'[k] \in 0 .. Window
      BY <3>1, <3>2
    <3>4. queue'[k] # NotQueued
      BY <3>3, SchedulerAssumption
    <3> QED
      BY <2>1, <3>3, <3>4 DEF Queued, Waits
  <2>2. CASE ~Waits(k)
    BY <1>1, <2>2 DEF Tick, Queued, QueueTypeOK
  <2> QED
    BY <2>1, <2>2
<1>3. queue' \in [Keys -> 0 .. Window \cup {NotQueued}]
  BY <1>2 DEF Tick
<1> QED
  BY <1>1, <1>2, <1>3 DEF Tick, QueueSound, QueueTypeOK, QueueMatchesOrder

\* The steps that leave the map and the slice alone.
LEMMA LoopKeepsQueue ==
    ASSUME QueueSound,
           HandleKey \/ Finish \/ Cancel \/ Stop \/ TakeSignal \/ UNCHANGED scheduler
    PROVE  QueueSound' /\ UNCHANGED queue
<1>1. QueueTypeOK /\ QueueMatchesOrder /\ UNCHANGED <<queue, order>>
  BY DEF QueueSound, HandleKey, Finish, Cancel, Stop, TakeSignal, scheduler
<1>2. QueueTypeOK'
  <2>1. CASE HandleKey
    <3>1. batch \in Seq(Keys) /\ batch # <<>>
      BY <1>1, <2>1 DEF QueueTypeOK, HandleKey
    <3>2. batch' \in Seq(Keys) /\ running' \in Keys
      BY <2>1, <3>1, TailFacts DEF HandleKey
    <3> QED
      BY <1>1, <2>1, <3>2 DEF QueueTypeOK, HandleKey
  <2>2. CASE Finish \/ Cancel \/ UNCHANGED scheduler
    BY <1>1, <2>2 DEF QueueTypeOK, Finish, Cancel, scheduler
  <2>3. CASE Stop
    <3>1. batch' \in Seq(Keys)
      BY <2>3 DEF Stop
    <3> QED
      BY <1>1, <2>3, <3>1 DEF QueueTypeOK, Stop
  <2>4. CASE TakeSignal
    BY <1>1, <2>4, Zenon DEF QueueTypeOK, TakeSignal
  <2> QED
    BY <2>1, <2>2, <2>3, <2>4
<1> QED
  BY <1>1, <1>2 DEF QueueSound, QueueMatchesOrder, Queued

LEMMA QueueStep == QueueSound /\ [QueueNext]_scheduler => QueueSound'
<1> SUFFICES ASSUME QueueSound, [QueueNext]_scheduler PROVE QueueSound'
  OBVIOUS
<1>1. CASE Poll
  <2>1. Ready /\ UNCHANGED <<running, degrade, ctx>>
    BY <1>1 DEF Poll
  <2> QED
    BY <2>1, ReadyFacts DEF QueueSound, QueueTypeOK
<1> QED
  BY <1>1, EnqueueFacts, TickFacts, LoopKeepsQueue DEF QueueNext

LEMMA QueueStart == QueueInit => QueueSound
<1> SUFFICES ASSUME QueueInit PROVE QueueSound
  OBVIOUS
<1>1. <<>> \in Seq(Keys) /\ Len(<<>>) = 0 /\ DOMAIN <<>> = {}
  OBVIOUS
<1>2. QueueTypeOK
  BY <1>1 DEF QueueInit, QueueTypeOK
<1>3. QueueMatchesOrder
  BY <1>1 DEF QueueInit, QueueMatchesOrder, Queued, Contains
<1> QED
  BY <1>2, <1>3 DEF QueueSound

\* The map and the slice of the scheduler hold the same keys, each key once,
\* however events, ticks and polls interleave.
THEOREM QueueStaysSound == QueueSpec => []QueueSound
  BY QueueStart, QueueStep, PTL DEF QueueSpec

-----------------------------------------------------------------------------
LEMMA PendingStart == QueueInit => Interface!Init
  BY DEF QueueInit, Interface!Init, Pending, Queued, Contains

\* Taking a key answers its events, unless the key was queued again.
LEMMA HandleImplements ==
    ASSUME QueueSound, HandleKey
    PROVE  (\E k \in Keys : Interface!Start(k)) /\ UNCHANGED ctx
<1>1. batch \in Seq(Keys) /\ batch # <<>>
  BY DEF QueueSound, QueueTypeOK, HandleKey
<1>2. /\ Head(batch) \in Keys
      /\ \A k : Contains(batch, k) <=> k = Head(batch) \/ Contains(Tail(batch), k)
  BY <1>1, TailFacts
<1>3. /\ running = NoKey /\ running' = Head(batch) /\ batch' = Tail(batch)
      /\ UNCHANGED <<queue, ctx>>
  BY DEF HandleKey
<1>4. \A k \in Keys : Pending(k) <=> Queued(k) \/ k = Head(batch) \/ Contains(Tail(batch), k)
  BY <1>2 DEF Pending
<1>5. \A k \in Keys : Pending(k)' <=> Queued(k) \/ Contains(Tail(batch), k)
  BY <1>3 DEF Pending, Queued
<1> DEFINE before == {k \in Keys : Pending(k)}
           after == {k \in Keys : Pending(k)'}
<1>6. Head(batch) \in before
  BY <1>2, <1>4
<1>7. after = before \/ after = before \ {Head(batch)}
  BY <1>4, <1>5
<1>8. Interface!Start(Head(batch))
  BY <1>3, <1>6, <1>7 DEF Interface!Start
<1> QED
  BY <1>2, <1>3, <1>8

\* Every step of the scheduler is one PendingEvents allows, or invisible there.
LEMMA StepImplements ==
    ASSUME QueueSound, [QueueNext]_scheduler
    PROVE  [Interface!Next]_<<{k \in Keys : Pending(k)}, running, ctx = "live">>
<1> DEFINE events == {k \in Keys : Pending(k)}
<1>1. ASSUME NEW k \in Keys, Enqueue(k)
      PROVE  Interface!Event(k) /\ UNCHANGED ctx
  <2>1. UNCHANGED <<batch, running, ctx>>
    BY <1>1 DEF Enqueue
  <2>2. \A l \in Keys : Pending(l)' <=> Pending(l) \/ l = k
    BY <1>1, <2>1, EnqueueFacts DEF Pending
  <2> QED
    BY <2>1, <2>2 DEF Interface!Event
<1>2. CASE Tick
  <2>1. \A l \in Keys : Pending(l)' <=> Pending(l)
    BY <1>2, TickFacts DEF Pending, Tick
  <2> QED
    BY <1>2, <2>1 DEF Tick
<1>3. CASE Poll
  <2>1. Ready /\ batch = <<>> /\ UNCHANGED <<running, ctx>>
    BY <1>3 DEF Poll
  <2>2. \A l \in Keys : ~Contains(batch, l)
    BY <2>1 DEF Contains
  <2>3. \A l \in Keys : Pending(l)' <=> Pending(l)
    BY <2>1, <2>2, ReadyFacts, DueOrWaits DEF Pending, QueueSound
  <2> QED
    BY <2>1, <2>3
<1>4. CASE Finish
  BY <1>4 DEF Finish, Interface!Next, Interface!Finish, Pending, Queued
<1>5. CASE Cancel
  <2>1. events' = events /\ running' = running /\ (ctx' = "live") = FALSE
    BY <1>5 DEF Cancel, Pending, Queued
  <2> QED
    BY <2>1 DEF Interface!Next, Interface!Shutdown
<1>6. CASE Stop
  <2>1. /\ (ctx = "live") = FALSE /\ (ctx' = "live") = FALSE
        /\ batch' = <<>> /\ UNCHANGED <<queue, running>>
    BY <1>6 DEF Stop
  <2>2. events' \in SUBSET events
    BY <2>1 DEF Pending, Queued, Contains
  <2> QED
    BY <2>1, <2>2 DEF Interface!Next, Interface!Lose
<1>7. CASE TakeSignal \/ UNCHANGED scheduler
  BY <1>7 DEF TakeSignal, scheduler, Pending, Queued
<1> QED
  BY <1>1, <1>2, <1>3, HandleImplements, <1>4, <1>5, <1>6, <1>7 DEF QueueNext, Interface!Next

\* What WatchPipeline takes PendingEvents to promise, the scheduler keeps: every
\* event on a key is answered by a handling that starts after it, and only a
\* shutdown loses events.
THEOREM SchedulerImplements == QueueSpec => ImplementsPendingEvents
<1>1. QueueSound /\ [QueueNext]_scheduler
        => [Interface!Next]_<<{k \in Keys : Pending(k)}, running, ctx = "live">>
  BY StepImplements
<1> QED
  BY <1>1, PendingStart, QueueStaysSound, PTL DEF QueueSpec, ImplementsPendingEvents, Interface!Spec

-----------------------------------------------------------------------------
(* The client of the language server                                       *)
\* What a caller has at each stage of Parse.
Staged(c) ==
    /\ c.at # "idle" => c.path \in Files
    /\ c.at = "didOpen" => c.tries = 0
    /\ c.at = "request" => c.tries < retryAttempts
    /\ c.at \in {"documentSymbol", "wait", "expired"} => c.id > 0
    /\ c.got \in {NoPath, c.path}

\* x, a caller, a message or a frame, agrees with o on the requests up to n.
Agrees(o, n, x) == x.id > 0 => x.id <= n /\ o[x.id] = x.path

AllAgree(o, n, s) == \A k \in DOMAIN s : Agrees(o, n, s[k])

\* What every caller is known to be.
Fit(o, n, c) == c \in Call /\ Staged(c) /\ Agrees(o, n, c)

Owners(o) ==
    /\ \A w \in Callers : Fit(o, msgID, caller[w])
    /\ AllAgree(o, msgID, stdin)
    /\ \A r \in asked : Agrees(o, msgID, r)
    /\ AllAgree(o, msgID, stdout)
    /\ reader # NoFrame => Agrees(o, msgID, reader)
    /\ \A a \in chan : Agrees(o, msgID, a)

IInv == ClientTypeOK /\ \E o \in [Nat -> Files \cup {NoPath}] : Owners(o)

-----------------------------------------------------------------------------
(* Queues and the records of callers                                       *)

\* A queue that agrees still does after a message that does.
LEMMA AppendAgrees ==
    ASSUME NEW S, NEW s \in Seq(S), NEW x \in S, NEW o, NEW n, AllAgree(o, n, s), Agrees(o, n, x)
    PROVE  Append(s, x) \in Seq(S) /\ AllAgree(o, n, Append(s, x))
  BY DEF AllAgree

\* The head and the rest of a queue that agrees agree.
LEMMA TailAgrees ==
    ASSUME NEW S, NEW s \in Seq(S), s # <<>>, NEW o, NEW n, AllAgree(o, n, s)
    PROVE  /\ Head(s) \in S /\ Agrees(o, n, Head(s))
           /\ Tail(s) \in Seq(S) /\ AllAgree(o, n, Tail(s))
<1>1. Head(s) = s[1] /\ 1 \in DOMAIN s /\ Head(s) \in S /\ Tail(s) \in Seq(S)
  OBVIOUS
<1>2. \A k \in DOMAIN Tail(s) : k + 1 \in DOMAIN s /\ Tail(s)[k] = s[k + 1]
  OBVIOUS
<1> QED
  BY <1>1, <1>2 DEF AllAgree

\* The record of a caller, and what it is after a change of two or three fields.
Rec(s, p, i, t, g) == [at |-> s, path |-> p, id |-> i, tries |-> t, got |-> g]

\* A changed record, field by field.
LEMMA Changed ==
    ASSUME NEW c \in Call, NEW p, NEW i, NEW g
    PROVE  /\ [NotParsing EXCEPT !.at = "didOpen", !.path = p] = Rec("didOpen", p, 0, 0, NoPath)
           /\ [NotParsing EXCEPT !.at = "didClose", !.path = p] = Rec("didClose", p, 0, 0, NoPath)
           /\ [Rec("didClose", p, 0, 0, NoPath) EXCEPT !.got = g] = Rec("didClose", p, 0, 0, g)
           /\ [c EXCEPT !.at = "request", !.id = 0] = Rec("request", c.path, 0, c.tries, c.got)
           /\ [c EXCEPT !.at = "documentSymbol", !.id = i, !.tries = @ + 1]
                 = Rec("documentSymbol", c.path, i, c.tries + 1, c.got)
<1> USE DEF Rec
<1>1. ASSUME NEW s PROVE [NotParsing EXCEPT !.at = s, !.path = p] = Rec(s, p, 0, 0, NoPath)
  <2>1. [NotParsing EXCEPT !.at = s, !.path = p] = [[NotParsing EXCEPT !.at = s] EXCEPT !.path = p]
    OBVIOUS
  <2>2. [NotParsing EXCEPT !.at = s] = Rec(s, NoPath, 0, 0, NoPath)
    BY DEF NotParsing
  <2>3. [Rec(s, NoPath, 0, 0, NoPath) EXCEPT !.path = p] = Rec(s, p, 0, 0, NoPath)
    OBVIOUS
  <2> QED
    BY <2>1, <2>2, <2>3
<1>2. [c EXCEPT !.at = "documentSymbol", !.id = i] = Rec("documentSymbol", c.path, i, c.tries, c.got)
  <2>1. [c EXCEPT !.at = "documentSymbol", !.id = i] = [[c EXCEPT !.at = "documentSymbol"] EXCEPT !.id = i]
    OBVIOUS
  <2>2. [c EXCEPT !.at = "documentSymbol"] = Rec("documentSymbol", c.path, c.id, c.tries, c.got)
    BY DEF Call
  <2>3. [Rec("documentSymbol", c.path, c.id, c.tries, c.got) EXCEPT !.id = i]
          = Rec("documentSymbol", c.path, i, c.tries, c.got)
    OBVIOUS
  <2> QED
    BY <2>1, <2>2, <2>3
<1>3. [c EXCEPT !.at = "documentSymbol", !.id = i, !.tries = @ + 1]
        = Rec("documentSymbol", c.path, i, c.tries + 1, c.got)
  <2>1. [c EXCEPT !.at = "documentSymbol", !.id = i, !.tries = @ + 1]
          = [[c EXCEPT !.at = "documentSymbol", !.id = i] EXCEPT !.tries = c.tries + 1]
    BY DEF Call
  <2>2. [Rec("documentSymbol", c.path, i, c.tries, c.got) EXCEPT !.tries = c.tries + 1]
          = Rec("documentSymbol", c.path, i, c.tries + 1, c.got)
    OBVIOUS
  <2> QED
    BY <1>2, <2>1, <2>2
<1>4. [Rec("didClose", p, 0, 0, NoPath) EXCEPT !.got = g] = Rec("didClose", p, 0, 0, g)
  OBVIOUS
<1> HIDE DEF Rec
<1>5. [c EXCEPT !.at = "request", !.id = 0] = Rec("request", c.path, 0, c.tries, c.got)
  <2>1. [c EXCEPT !.at = "request", !.id = 0] = [[c EXCEPT !.at = "request"] EXCEPT !.id = 0]
    OBVIOUS
  <2>2. [c EXCEPT !.at = "request"] = Rec("request", c.path, c.id, c.tries, c.got)
    BY DEF Call, Rec
  <2>3. [Rec("request", c.path, c.id, c.tries, c.got) EXCEPT !.id = 0] = Rec("request", c.path, 0, c.tries, c.got)
    BY DEF Rec
  <2> QED
    BY <2>1, <2>2, <2>3
<1> QED
  BY <1>1, <1>3, <1>4, <1>5

\* A caller fits at the end of a Parse, and after a try that failed.
LEMMA TriesFit ==
    ASSUME NEW o, NEW n, NEW c, Fit(o, n, c), c.at # "idle"
    PROVE  Fit(o, n, NotParsing) /\ Fit(o, n, GivenUp(c)) /\ Fit(o, n, Retried(c))
<1> USE LspClientAssumption DEF Fit, Staged, Agrees, Call, Writes, NotParsing
<1>1. Fit(o, n, NotParsing)
  OBVIOUS
<1>2. Fit(o, n, GivenUp(c))
  <2>1. GivenUp(c) = Rec("didClose", c.path, 0, 0, NoPath)
    BY Changed DEF GivenUp
  <2> QED
    BY <2>1 DEF Rec
<1>3. ASSUME c.tries < retryAttempts PROVE Fit(o, n, [c EXCEPT !.at = "request", !.id = 0])
  <2>1. [c EXCEPT !.at = "request", !.id = 0] = Rec("request", c.path, 0, c.tries, c.got)
    BY Changed
  <2> QED
    BY <1>3, <2>1 DEF Rec
<1>4. Fit(o, n, Retried(c))
  BY <1>2, <1>3 DEF Retried
<1> QED
  BY <1>1, <1>2, <1>4

\* A caller fits after a write, whether it worked or not.
LEMMA WritesFit ==
    ASSUME NEW o, NEW n, NEW c, Fit(o, n, c), c.at \in Writes
    PROVE  Fit(o, n, Written(c)) /\ Fit(o, n, Unwritten(c))
<1>1. c.at # "idle"
  BY DEF Writes
<1>2. Fit(o, n, NotParsing) /\ Fit(o, n, Retried(c))
  BY <1>1, TriesFit
<1>3. ASSUME c.at = "didOpen" PROVE Fit(o, n, [c EXCEPT !.at = "request"])
  BY <1>3, LspClientAssumption DEF Fit, Staged, Agrees, Call, Writes
<1>4. ASSUME c.at = "documentSymbol" PROVE Fit(o, n, [c EXCEPT !.at = "wait"])
  BY <1>4 DEF Fit, Staged, Agrees, Call, Writes
<1>5. Fit(o, n, Written(c))
  BY <1>2, <1>3, <1>4 DEF Written
<1> QED
  BY <1>2, <1>5 DEF Unwritten

\* What a caller writes is a message, and it agrees.
LEMMA MessageAgrees ==
    ASSUME NEW o, NEW n, NEW c, Fit(o, n, c), c.at \in Writes
    PROVE  MessageOf(c) \in Message /\ Agrees(o, n, MessageOf(c))
  BY DEF Fit, Staged, Agrees, Call, Writes, MessageOf, Message, Request

\* Replacing the record of one caller keeps all callers fit.
LEMMA OneCaller ==
    ASSUME ClientTypeOK, NEW o, NEW n, \A v \in Callers : Fit(o, n, caller[v]),
           NEW w \in Callers, NEW c, Fit(o, n, c), caller' = [caller EXCEPT ![w] = c]
    PROVE  caller' \in [Callers -> Call] /\ \A v \in Callers : Fit(o, n, caller'[v])
  BY DEF ClientTypeOK, Fit

-----------------------------------------------------------------------------
(* One lemma per action: the same owners hold afterwards, with one owner   *)
(* more after sendRequest.                                                 *)

\* The initial states satisfy the invariant: there is no request.
LEMMA InitIInv == ClientInit => IInv
<1> SUFFICES ASSUME ClientInit PROVE IInv
  OBVIOUS
<1> USE LspClientAssumption
<1>1. ClientTypeOK
  BY DEF ClientInit, ClientTypeOK, Call, NotParsing, Writes
<1>2. [i \in Nat |-> NoPath] \in [Nat -> Files \cup {NoPath}]
  OBVIOUS
<1>3. Owners([i \in Nat |-> NoPath])
  BY DEF ClientInit, Owners, AllAgree, Fit, Staged, Agrees, Call, NotParsing, Writes
<1> QED
  BY <1>1, <1>2, <1>3 DEF IInv

\* A Parse begins.
LEMMA ParseOwners ==
    ASSUME ClientTypeOK, NEW o, Owners(o), NEW w \in Callers, NEW p \in Files, Parse(w, p)
    PROVE  ClientTypeOK' /\ Owners(o)'
<1> DEFINE c == [NotParsing EXCEPT !.at = "didOpen", !.path = p]
<1>1. caller' = [caller EXCEPT ![w] = c]
  BY DEF Parse
<1>2. c = Rec("didOpen", p, 0, 0, NoPath)
  BY Changed DEF ClientTypeOK
<1> HIDE DEF c
<1>3. Fit(o, msgID, c)
  BY <1>2, LspClientAssumption DEF Fit, Staged, Agrees, Call, Writes, Rec
<1>4. caller' \in [Callers -> Call] /\ \A v \in Callers : Fit(o, msgID, caller'[v])
  BY <1>1, <1>3, OneCaller DEF Owners
<1> QED
  BY <1>4 DEF Parse, process, ClientTypeOK, Owners

\* A request gets an identifier, and the identifier an owner.
LEMMA sendRequestOwners ==
    ASSUME ClientTypeOK, NEW o \in [Nat -> Files \cup {NoPath}], Owners(o), NEW w \in Callers, sendRequest(w)
    PROVE  ClientTypeOK' /\ \E new \in [Nat -> Files \cup {NoPath}] : Owners(new)'
<1> DEFINE c == [caller[w] EXCEPT !.at = "documentSymbol", !.id = msgID + 1, !.tries = @ + 1]
<1>1. msgID \in Nat /\ caller[w] \in Call /\ Fit(o, msgID, caller[w]) /\ caller[w].at = "request"
  BY DEF ClientTypeOK, Owners, sendRequest
<1>2. PICK new \in [Nat -> Files \cup {NoPath}] : new = [o EXCEPT ![msgID + 1] = caller[w].path]
  <2>1. [o EXCEPT ![msgID + 1] = caller[w].path] \in [Nat -> Files \cup {NoPath}]
    BY <1>1 DEF Call
  <2> QED
    BY <2>1
<1>3. ASSUME NEW x, x.id \in Nat, Agrees(o, msgID, x) PROVE Agrees(new, msgID + 1, x)
  BY <1>1, <1>2, <1>3 DEF Agrees
<1>4. Fit(new, msgID + 1, c)
  <2>1. c = Rec("documentSymbol", caller[w].path, msgID + 1, caller[w].tries + 1, caller[w].got)
    BY <1>1, Changed
  <2>2. new[msgID + 1] = caller[w].path
    BY <1>1, <1>2
  <2> QED
    BY <1>1, <2>1, <2>2, LspClientAssumption DEF Fit, Staged, Agrees, Call, Writes, Rec
<1>5. ASSUME NEW v \in Callers PROVE Fit(new, msgID + 1, caller[v])
  <2>1. Fit(o, msgID, caller[v]) /\ caller[v].id \in Nat
    BY DEF Owners, Fit, Call
  <2> QED
    BY <2>1, <1>3 DEF Fit
<1>6. caller' = [caller EXCEPT ![w] = c] /\ msgID' = msgID + 1
  BY DEF sendRequest
<1>7. ASSUME NEW x \in Message \cup Frame PROVE x.id \in Nat
  BY DEF Message, Frame, Request
<1> HIDE DEF c
<1>8. caller' \in [Callers -> Call] /\ \A v \in Callers : Fit(new, msgID + 1, caller'[v])
  BY <1>4, <1>5, <1>6, OneCaller
<1>9. AllAgree(new, msgID + 1, stdin)
  BY <1>3, <1>7 DEF AllAgree, Owners, ClientTypeOK
<1>10. AllAgree(new, msgID + 1, stdout)
  BY <1>3, <1>7 DEF AllAgree, Owners, ClientTypeOK
<1>11. \A r \in asked : Agrees(new, msgID + 1, r)
  BY <1>3, <1>7 DEF Owners, ClientTypeOK, Message
<1>12. \A a \in chan : Agrees(new, msgID + 1, a)
  BY <1>3, <1>7 DEF Owners, ClientTypeOK
<1>13. reader # NoFrame => Agrees(new, msgID + 1, reader)
  BY <1>3, <1>7 DEF Owners, ClientTypeOK
<1>14. ClientTypeOK'
  BY <1>8, <1>1 DEF sendRequest, process, ClientTypeOK
<1>15. Owners(new)'
  BY <1>6, <1>8, <1>9, <1>10, <1>11, <1>12, <1>13 DEF sendRequest, process, Owners
<1> QED
  BY <1>2, <1>14, <1>15

\* A message goes into the pipe.
LEMMA WriteOwners ==
    ASSUME ClientTypeOK, NEW o, Owners(o), NEW w \in Callers, Write(w)
    PROVE  ClientTypeOK' /\ Owners(o)'
<1>1. Fit(o, msgID, caller[w]) /\ caller[w].at \in Writes
  BY DEF Owners, Write, Writing
<1>2. Fit(o, msgID, Written(caller[w])) /\ caller' = [caller EXCEPT ![w] = Written(caller[w])]
  BY <1>1, WritesFit DEF Write, ClientTypeOK
<1>3. caller' \in [Callers -> Call] /\ \A v \in Callers : Fit(o, msgID, caller'[v])
  BY <1>2, OneCaller DEF Owners
<1>4. stdin' \in Seq(Message) /\ AllAgree(o, msgID, stdin')
  BY <1>1, MessageAgrees, AppendAgrees DEF Write, ClientTypeOK, Owners
<1> QED
  BY <1>3, <1>4 DEF Write, ClientTypeOK, Owners

\* A write that blocks changes nothing but the holder of the mutex.
LEMMA WriteBlocksOwners ==
    ASSUME ClientTypeOK, NEW o, Owners(o), NEW w \in Callers, WriteBlocks(w)
    PROVE  ClientTypeOK' /\ Owners(o)'
  BY DEF WriteBlocks, process, ClientTypeOK, Owners

\* A write fails.
LEMMA WriteFailsOwners ==
    ASSUME ClientTypeOK, NEW o, Owners(o), NEW w \in Callers, WriteFails(w)
    PROVE  ClientTypeOK' /\ Owners(o)'
<1>1. Fit(o, msgID, caller[w]) /\ caller[w].at \in Writes
  BY DEF Owners, WriteFails, Writing
<1>2. Fit(o, msgID, Unwritten(caller[w])) /\ caller' = [caller EXCEPT ![w] = Unwritten(caller[w])]
  BY <1>1, WritesFit DEF WriteFails, ClientTypeOK
<1>3. caller' \in [Callers -> Call] /\ \A v \in Callers : Fit(o, msgID, caller'[v])
  BY <1>2, OneCaller DEF Owners
<1> QED
  BY <1>3 DEF WriteFails, process, ClientTypeOK, Owners

\* An answer arrives: it carries the identifier of the caller and so its path.
LEMMA ReceiveOwners ==
    ASSUME ClientTypeOK, NEW o, Owners(o), NEW w \in Callers, Receive(w)
    PROVE  ClientTypeOK' /\ Owners(o)'
<1>1. Fit(o, msgID, caller[w]) /\ caller[w].at = "wait" /\ caller[w].at # "idle"
  BY DEF Owners, Receive
<1>2. PICK a \in chan :
        /\ a.id = caller[w].id
        /\ chan' = chan \ {a}
        /\ \/ caller' = [caller EXCEPT ![w] = [GivenUp(@) EXCEPT !.got = a.path]]
           \/ \E try \in Tries(w) : caller' = [caller EXCEPT ![w] = try]
  BY DEF Receive
<1>3. a.path = caller[w].path
  BY <1>1, <1>2 DEF Owners, Agrees, Fit, Staged
<1>4. Fit(o, msgID, [GivenUp(caller[w]) EXCEPT !.got = a.path])
  <2>1. [GivenUp(caller[w]) EXCEPT !.got = a.path]
          = Rec("didClose", caller[w].path, 0, 0, caller[w].path)
    <3>1. GivenUp(caller[w]) = Rec("didClose", caller[w].path, 0, 0, NoPath)
      BY <1>1, Changed DEF GivenUp, Fit
    <3>2. caller[w] \in Call
      BY <1>1 DEF Fit
    <3>3. [Rec("didClose", caller[w].path, 0, 0, NoPath) EXCEPT !.got = a.path]
            = Rec("didClose", caller[w].path, 0, 0, a.path)
      BY <3>2, Changed
    <3> QED
      BY <3>1, <3>3, <1>3
  <2> QED
    BY <1>1, <2>1, LspClientAssumption DEF Fit, Staged, Agrees, Call, Writes, Rec
<1>5. PICK c : Fit(o, msgID, c) /\ caller' = [caller EXCEPT ![w] = c]
  <2>1. Fit(o, msgID, GivenUp(caller[w])) /\ Fit(o, msgID, Retried(caller[w]))
    BY <1>1, TriesFit
  <2>2. CASE caller' = [caller EXCEPT ![w] = [GivenUp(@) EXCEPT !.got = a.path]]
    <3>1. caller' = [caller EXCEPT ![w] = [GivenUp(caller[w]) EXCEPT !.got = a.path]]
      BY <2>2 DEF ClientTypeOK
    <3> QED
      BY <3>1, <1>4
  <2>3. CASE \E try \in Tries(w) : caller' = [caller EXCEPT ![w] = try]
    BY <2>1, <2>3 DEF Tries
  <2> QED
    BY <1>2, <2>2, <2>3
<1>6. caller' \in [Callers -> Call] /\ \A v \in Callers : Fit(o, msgID, caller'[v])
  BY <1>5, OneCaller DEF Owners
<1> QED
  BY <1>2, <1>6 DEF Receive, process, ClientTypeOK, Owners

\* The timer fires.
LEMMA ExpireOwners ==
    ASSUME ClientTypeOK, NEW o, Owners(o), NEW w \in Callers, Expire(w)
    PROVE  ClientTypeOK' /\ Owners(o)'
<1> DEFINE c == [caller[w] EXCEPT !.at = "expired"]
<1>1. Fit(o, msgID, c) /\ caller' = [caller EXCEPT ![w] = c]
  BY DEF Owners, Expire, Fit, Staged, Agrees, Call, ClientTypeOK
<1> HIDE DEF c
<1>2. caller' \in [Callers -> Call] /\ \A v \in Callers : Fit(o, msgID, caller'[v])
  BY <1>1, OneCaller DEF Owners
<1> QED
  BY <1>2 DEF Expire, process, ClientTypeOK, Owners

\* The entry of the request and its channel go.
LEMMA ForgetOwners ==
    ASSUME ClientTypeOK, NEW o, Owners(o), NEW w \in Callers, Forget(w)
    PROVE  ClientTypeOK' /\ Owners(o)'
<1>1. Fit(o, msgID, caller[w]) /\ caller[w].at # "idle"
  BY DEF Owners, Forget
<1>2. Fit(o, msgID, GivenUp(caller[w])) /\ Fit(o, msgID, Retried(caller[w]))
  BY <1>1, TriesFit
<1>3. PICK c : Fit(o, msgID, c) /\ caller' = [caller EXCEPT ![w] = c]
  BY <1>2 DEF Forget, Tries
<1>4. caller' \in [Callers -> Call] /\ \A v \in Callers : Fit(o, msgID, caller'[v])
  BY <1>3, OneCaller DEF Owners
<1> QED
  BY <1>4 DEF Forget, process, ClientTypeOK, Owners

\* readResponses takes a frame from the pipe.
LEMMA ReadFrameOwners ==
    ASSUME ClientTypeOK, NEW o, Owners(o), ReadFrame
    PROVE  ClientTypeOK' /\ Owners(o)'
<1>1. /\ Head(stdout) \in Frame /\ Agrees(o, msgID, Head(stdout))
      /\ Tail(stdout) \in Seq(Frame) /\ AllAgree(o, msgID, Tail(stdout))
  BY TailAgrees DEF ReadFrame, ClientTypeOK, Owners
<1> QED
  BY <1>1 DEF ReadFrame, client, process, ClientTypeOK, Owners

\* It passes the frame on, or drops it.
LEMMA DispatchOwners ==
    ASSUME ClientTypeOK, NEW o, Owners(o), Dispatch
    PROVE  ClientTypeOK' /\ Owners(o)'
  BY DEF Dispatch, process, ClientTypeOK, Owners

\* It ends.
LEMMA EndOfFileOwners ==
    ASSUME ClientTypeOK, NEW o, Owners(o), EndOfFile
    PROVE  ClientTypeOK' /\ Owners(o)'
  BY DEF EndOfFile, client, process, ClientTypeOK, Owners

\* The server takes a message from its pipe.
LEMMA ServerReadsOwners ==
    ASSUME ClientTypeOK, NEW o, Owners(o), ServerReads
    PROVE  ClientTypeOK' /\ Owners(o)'
<1>1. /\ Head(stdin) \in Message /\ Agrees(o, msgID, Head(stdin))
      /\ Tail(stdin) \in Seq(Message) /\ AllAgree(o, msgID, Tail(stdin))
  BY TailAgrees DEF ServerReads, ClientTypeOK, Owners
<1>2. docs' \subseteq Files
  BY <1>1 DEF ServerReads, ClientTypeOK, Message, Request
<1>3. asked' \subseteq Request /\ \A r \in asked' : Agrees(o, msgID, r)
  BY <1>1 DEF ServerReads, ClientTypeOK, Owners, Message, Request
<1> QED
  BY <1>1, <1>2, <1>3 DEF ServerReads, client, ClientTypeOK, Owners

\* It answers a request.
LEMMA ServerAnswersOwners ==
    ASSUME ClientTypeOK, NEW o, Owners(o), NEW r \in asked, ServerAnswers(r)
    PROVE  ClientTypeOK' /\ Owners(o)'
<1> DEFINE f == [id |-> r.id, path |-> r.path]
<1>1. f \in Frame /\ Agrees(o, msgID, f)
  BY DEF ClientTypeOK, Owners, Frame, Request, Agrees
<1>2. stdout' = Append(stdout, f) /\ asked' = asked \ {r}
  BY DEF ServerAnswers, ServerWrites
<1> HIDE DEF f
<1>3. stdout' \in Seq(Frame) /\ AllAgree(o, msgID, stdout')
  BY <1>1, <1>2, AppendAgrees DEF ClientTypeOK, Owners
<1> QED
  BY <1>2, <1>3 DEF ServerAnswers, ServerWrites, client, ClientTypeOK, Owners

\* It writes a frame of its own.
LEMMA ServerNotifiesOwners ==
    ASSUME ClientTypeOK, NEW o, Owners(o), ServerNotifies
    PROVE  ClientTypeOK' /\ Owners(o)'
<1> DEFINE f == [id |-> 0, path |-> NoPath]
<1>1. f \in Frame /\ Agrees(o, msgID, f)
  BY DEF Frame, Agrees
<1>2. stdout' = Append(stdout, f)
  BY DEF ServerNotifies, ServerWrites
<1> HIDE DEF f
<1>3. stdout' \in Seq(Frame) /\ AllAgree(o, msgID, stdout')
  BY <1>1, <1>2, AppendAgrees DEF ClientTypeOK, Owners
<1> QED
  BY <1>3 DEF ServerNotifies, ServerWrites, client, ClientTypeOK, Owners

\* It dies, by itself or because of Close.
LEMMA DiesOwners ==
    ASSUME ClientTypeOK, NEW o, Owners(o), ServerDies \/ Close
    PROVE  ClientTypeOK' /\ Owners(o)'
<1>1. stdin' = <<>> /\ docs' = {} /\ asked' = {} /\ server' = "dead"
  BY DEF ServerDies, Close, Dies
<1>2. stdin' \in Seq(Message) /\ AllAgree(o, msgID, stdin')
  BY <1>1 DEF AllAgree
<1> QED
  BY <1>1, <1>2 DEF ServerDies, Close, client, ClientTypeOK, Owners

\* A stuttering step.
LEMMA StutterOwners ==
    ASSUME ClientTypeOK, NEW o, Owners(o), UNCHANGED clientVars
    PROVE  ClientTypeOK' /\ Owners(o)'
  BY DEF clientVars, client, process, ClientTypeOK, Owners

-----------------------------------------------------------------------------
\* Every step of the client, the server and the reader keeps the invariant.
LEMMA NextIInv == IInv /\ [ClientNext]_clientVars => IInv'
<1> SUFFICES ASSUME IInv, [ClientNext]_clientVars PROVE IInv'
  OBVIOUS
<1>1. PICK o \in [Nat -> Files \cup {NoPath}] : Owners(o)
  BY DEF IInv
<1>2. ClientTypeOK
  BY DEF IInv
<1>3. ASSUME NEW w \in Callers, sendRequest(w) PROVE IInv'
  BY <1>1, <1>2, <1>3, sendRequestOwners DEF IInv
<1>4. ASSUME NEW w \in Callers, Caller(w), ~sendRequest(w) PROVE IInv'
  <2>1. ClientTypeOK' /\ Owners(o)'
    BY <1>1, <1>2, <1>4, WriteOwners, WriteBlocksOwners, WriteFailsOwners, ReceiveOwners,
       ExpireOwners, ForgetOwners DEF Caller
  <2> QED
    BY <1>1, <2>1 DEF IInv
<1>5. ASSUME NEW w \in Callers, NEW p \in Files, Parse(w, p) PROVE IInv'
  BY <1>1, <1>2, <1>5, ParseOwners DEF IInv
<1>6. ASSUME Reader PROVE IInv'
  BY <1>1, <1>2, <1>6, ReadFrameOwners, DispatchOwners, EndOfFileOwners DEF Reader, IInv
<1>7. ASSUME NEW r \in asked, ServerAnswers(r) PROVE IInv'
  BY <1>1, <1>2, <1>7, ServerAnswersOwners DEF IInv
<1>8. ASSUME ServerReads \/ ServerNotifies \/ ServerDies \/ Close PROVE IInv'
  BY <1>1, <1>2, <1>8, ServerReadsOwners, ServerNotifiesOwners, DiesOwners DEF IInv
<1>9. ASSUME UNCHANGED clientVars PROVE IInv'
  BY <1>1, <1>2, <1>9, StutterOwners DEF IInv
<1> QED
  BY <1>3, <1>4, <1>5, <1>6, <1>7, <1>8, <1>9 DEF ClientNext

\* The invariant holds in every state: each request identifier has one owner.
THEOREM Inductive == ClientSpec => []IInv
  BY InitIInv, NextIInv, PTL DEF ClientSpec

\* Every variable of the client keeps its type, whatever the server does, and no
\* Parse takes the symbols of another file (sendRequest, readResponses): late
\* answers to requests that were given up reach nobody else.
THEOREM ClientStaysSound == ClientSpec => []ClientSound
<1>1. IInv => ClientSound
  BY DEF IInv, Owners, Fit, Staged, ClientSound, OwnAnswer
<1> QED
  BY <1>1, Inductive, PTL

-----------------------------------------------------------------------------
(* Nothing piles up: the invariants behind PendingAwaited.                 *)

Waiting == {"documentSymbol", "wait", "expired"}

\* An identifier belongs to one caller, from sendRequest until the caller has
\* given the request up; before it is written its request is nowhere, and what
\* has been answered is not pending.
Counted ==
    /\ \A i \in pending : i \in Nat /\ 0 < i /\ i <= msgID
    /\ \A w \in Callers : caller[w].id > 0 => caller[w].at \in Waiting
    /\ \A v, w \in Callers : caller[v].id = caller[w].id /\ caller[v].id > 0 => v = w
    /\ \A w \in Callers : caller[w].at = "documentSymbol" => ~Travels(caller[w].id)
    /\ \A a \in chan : a.id \notin pending
    /\ PendingAwaited

\* p is open when the server has read the messages before the kth in its pipe.
OpenAt(p, k) ==
    \/ p \in docs /\ \A l \in DOMAIN stdin : l < k => ~(stdin[l].kind = "didClose" /\ stdin[l].path = p)
    \/ \E j \in DOMAIN stdin :
          /\ j < k /\ stdin[j].kind = "didOpen" /\ stdin[j].path = p
          /\ \A l \in DOMAIN stdin : j < l /\ l < k => ~(stdin[l].kind = "didClose" /\ stdin[l].path = p)

Held(p) == \E w \in Callers : caller[w].path = p

\* A document is opened before it is asked about and closed in the end: by the
\* caller that has it, or by a message that follows in the pipe.
Opened ==
    /\ server = "dead" => docs = {} /\ stdin = <<>>
    /\ \A w \in Callers : caller[w].at = "idle" => caller[w].path = NoPath
    /\ \A v, w \in Callers : caller[v].path = caller[w].path /\ caller[v].path # NoPath => v = w
    /\ \A k \in DOMAIN stdin : stdin[k].kind = "documentSymbol" => OpenAt(stdin[k].path, k)
    /\ server = "up" => \A w \in Callers :
          caller[w].at \notin {"idle", "didOpen"} => OpenAt(caller[w].path, Len(stdin) + 1)
    /\ \A k \in DOMAIN stdin : stdin[k].kind = "didOpen" =>
          \/ Held(stdin[k].path)
          \/ \E l \in DOMAIN stdin : k < l /\ stdin[l].kind = "didClose" /\ stdin[l].path = stdin[k].path
    /\ NothingLeftOpen

-----------------------------------------------------------------------------
(* What a step does to the record of a caller *)

\* The end of a try gives its identifier up.
LEMMA TryFields ==
    ASSUME NEW c \in Call, NEW x \in {Retried(c), GivenUp(c)}
    PROVE  x.at \in {"request", "didClose"} /\ x.path = c.path /\ x.id = 0
<1>1. GivenUp(c) = Rec("didClose", c.path, 0, 0, NoPath)
  BY Changed DEF GivenUp
<1>2. [c EXCEPT !.at = "request", !.id = 0] = Rec("request", c.path, 0, c.tries, c.got)
  BY Changed
<1> QED
  BY <1>1, <1>2 DEF Retried, Rec

\* A write that works.
LEMMA WrittenFields ==
    ASSUME NEW c \in Call, c.at \in Writes
    PROVE  /\ c.at = "didOpen" => Written(c).at = "request" /\ Written(c).path = c.path /\ Written(c).id = c.id
           /\ c.at = "documentSymbol" => Written(c).at = "wait" /\ Written(c).path = c.path /\ Written(c).id = c.id
           /\ c.at = "didClose" => Written(c).at = "idle" /\ Written(c).path = NoPath /\ Written(c).id = 0
  BY DEF Written, Call, Writes, NotParsing

\* And one that fails.
LEMMA UnwrittenFields ==
    ASSUME NEW c \in Call, c.at \in Writes
    PROVE  /\ c.at = "didOpen" => Unwritten(c).at = "request" /\ Unwritten(c).path = c.path /\ Unwritten(c).id = c.id
           /\ c.at = "documentSymbol" =>
                Unwritten(c).at \in {"request", "didClose"} /\ Unwritten(c).path = c.path /\ Unwritten(c).id = 0
           /\ c.at = "didClose" => Unwritten(c).at = "idle" /\ Unwritten(c).path = NoPath /\ Unwritten(c).id = 0
  BY WrittenFields, TryFields DEF Unwritten, Writes

\* An answer ends a try or the request.
LEMMA ReceiveFields ==
    ASSUME ClientTypeOK, NEW w \in Callers, Receive(w)
    PROVE  \E a \in chan : \E c :
              /\ a.id = caller[w].id /\ chan' = chan \ {a} /\ caller[w].at = "wait"
              /\ caller' = [caller EXCEPT ![w] = c]
              /\ c.at \in {"request", "didClose"} /\ c.path = caller[w].path /\ c.id = 0
<1>1. caller[w] \in Call /\ caller[w].at = "wait"
  BY DEF ClientTypeOK, Receive
<1>2. PICK a \in chan :
        /\ a.id = caller[w].id
        /\ chan' = chan \ {a}
        /\ \/ caller' = [caller EXCEPT ![w] = [GivenUp(@) EXCEPT !.got = a.path]]
           \/ \E try \in Tries(w) : caller' = [caller EXCEPT ![w] = try]
  BY DEF Receive
<1>3. CASE caller' = [caller EXCEPT ![w] = [GivenUp(@) EXCEPT !.got = a.path]]
  <2> DEFINE c == [GivenUp(caller[w]) EXCEPT !.got = a.path]
  <2>1. GivenUp(caller[w]) = Rec("didClose", caller[w].path, 0, 0, NoPath)
    BY <1>1, Changed DEF GivenUp
  <2>2. c = Rec("didClose", caller[w].path, 0, 0, a.path)
    <3>1. [Rec("didClose", caller[w].path, 0, 0, NoPath) EXCEPT !.got = a.path]
            = Rec("didClose", caller[w].path, 0, 0, a.path)
      BY <1>1, Changed
    <3> QED
      BY <2>1, <3>1
  <2>3. caller' = [caller EXCEPT ![w] = c]
    BY <1>3 DEF ClientTypeOK
  <2> HIDE DEF c
  <2>4. c.at \in {"request", "didClose"} /\ c.path = caller[w].path /\ c.id = 0
    BY <2>2 DEF Rec
  <2> QED
    BY <1>1, <1>2, <2>3, <2>4
<1>4. CASE \E try \in Tries(w) : caller' = [caller EXCEPT ![w] = try]
  <2>1. PICK c \in Tries(w) : caller' = [caller EXCEPT ![w] = c]
    BY <1>4
  <2>2. c.at \in {"request", "didClose"} /\ c.path = caller[w].path /\ c.id = 0
    BY <1>1, TryFields DEF Tries
  <2> QED
    BY <1>1, <1>2, <2>1, <2>2
<1> QED
  BY <1>2, <1>3, <1>4

LEMMA ForgetFields ==
    ASSUME ClientTypeOK, NEW w \in Callers, Forget(w)
    PROVE  \E c : /\ caller' = [caller EXCEPT ![w] = c] /\ caller[w].at = "expired"
                  /\ c.at \in {"request", "didClose"} /\ c.path = caller[w].path /\ c.id = 0
<1>1. PICK c \in Tries(w) : caller' = [caller EXCEPT ![w] = c]
  BY DEF Forget
<1>2. c.at \in {"request", "didClose"} /\ c.path = caller[w].path /\ c.id = 0
  BY TryFields DEF Tries, ClientTypeOK
<1> QED
  BY <1>1, <1>2 DEF Forget

\* Parse and sendRequest.
LEMMA ParseFields ==
    ASSUME ClientTypeOK, NEW w \in Callers, NEW p \in Files, Parse(w, p)
    PROVE  \E c : /\ caller' = [caller EXCEPT ![w] = c] /\ caller[w].at = "idle"
                  /\ c.at = "didOpen" /\ c.path = p /\ c.id = 0
<1> DEFINE c == [NotParsing EXCEPT !.at = "didOpen", !.path = p]
<1>1. caller' = [caller EXCEPT ![w] = c]
  BY DEF Parse
<1>2. c = Rec("didOpen", p, 0, 0, NoPath)
  BY Changed DEF ClientTypeOK
<1> HIDE DEF c
<1> QED
  BY <1>1, <1>2 DEF Rec, Parse

LEMMA sendRequestFields ==
    ASSUME ClientTypeOK, NEW w \in Callers, sendRequest(w)
    PROVE  \E c : /\ caller' = [caller EXCEPT ![w] = c] /\ caller[w].at = "request"
                  /\ c.at = "documentSymbol" /\ c.path = caller[w].path /\ c.id = msgID + 1
<1> DEFINE c == [caller[w] EXCEPT !.at = "documentSymbol", !.id = msgID + 1, !.tries = @ + 1]
<1>1. caller' = [caller EXCEPT ![w] = c]
  BY DEF sendRequest
<1>2. c = Rec("documentSymbol", caller[w].path, msgID + 1, caller[w].tries + 1, caller[w].got)
  BY Changed DEF ClientTypeOK
<1>3. caller[w].at = "request"
  BY DEF sendRequest
<1> HIDE DEF c
<1>4. c.at = "documentSymbol" /\ c.path = caller[w].path /\ c.id = msgID + 1
  BY <1>2 DEF Rec
<1> QED
  BY <1>1, <1>3, <1>4

-----------------------------------------------------------------------------
(* Identifiers *)

Carried(s, i) == \E k \in DOMAIN s : s[k].id = i

\* What is put into a pipe and what is taken from it.
LEMMA AppendCarries ==
    ASSUME NEW S, NEW s \in Seq(S), NEW x \in S
    PROVE  \A i : Carried(Append(s, x), i) => Carried(s, i) \/ x.id = i
<1>1. /\ Len(s) \in Nat /\ DOMAIN s = 1 .. Len(s) /\ DOMAIN Append(s, x) = 1 .. Len(s) + 1
      /\ \A k \in 1 .. Len(s) : Append(s, x)[k] = s[k]
      /\ Append(s, x)[Len(s) + 1] = x
  OBVIOUS
<1>2. \A k \in 1 .. Len(s) + 1 : k \in 1 .. Len(s) \/ k = Len(s) + 1
  BY <1>1
<1> QED
  BY <1>1, <1>2 DEF Carried

LEMMA TailCarries ==
    ASSUME NEW S, NEW s \in Seq(S), s # <<>>
    PROVE  /\ \A i : Carried(Tail(s), i) => Carried(s, i)
           /\ \A i : i = Head(s).id => Carried(s, i)
<1>1. Head(s) = s[1] /\ 1 \in DOMAIN s
  OBVIOUS
<1>2. \A k \in DOMAIN Tail(s) : k + 1 \in DOMAIN s /\ Tail(s)[k] = s[k + 1]
  OBVIOUS
<1> QED
  BY <1>1, <1>2 DEF Carried

LEMMA TravelsCarried == \A i : Travels(i) <=> Carried(stdin, i) \/ (\E r \in asked : r.id = i) \/ Carried(stdout, i)
  BY DEF Travels, Carried

\* No message has an identifier that was not given out.
LEMMA TravelsBelow == IInv => \A i \in Nat : Travels(i) => i <= msgID
<1> SUFFICES ASSUME IInv, NEW i \in Nat, Travels(i) PROVE i <= msgID
  OBVIOUS
<1>1. PICK o : Owners(o)
  BY DEF IInv
<1>2. msgID \in Nat
  BY DEF IInv, ClientTypeOK
<1> QED
  BY <1>1, <1>2 DEF Owners, AllAgree, Agrees, Travels

\* The steps that give no identifier out: a request starts to travel when its
\* caller writes it, and a caller gives an identifier up when it is no longer
\* pending or its request has not been written.
LEMMA CountedKept ==
    ASSUME ClientTypeOK, ClientTypeOK', Counted, msgID' = msgID, pending' \subseteq pending,
           \A v \in Callers : caller[v].at \in Waiting => caller[v].id > 0,
           \A a \in chan' : a.id \notin pending',
           \A i \in Nat : i > 0 /\ Travels(i)' =>
              Travels(i) \/ \E v \in Callers : caller[v].at = "documentSymbol" /\ caller[v].id = i /\ caller'[v].at = "wait",
           \A v \in Callers :
              \/ /\ caller'[v].id = caller[v].id
                 /\ \/ caller'[v].at = caller[v].at
                    \/ caller[v].at \in Waiting /\ caller'[v].at \in {"wait", "expired"}
                    \/ caller[v].id = 0 /\ caller'[v].at # "documentSymbol"
              \/ /\ caller'[v].id = 0 /\ caller'[v].at # "documentSymbol"
                 /\ caller[v].id \in pending' => caller[v].at = "documentSymbol" /\ caller'[v].at # "wait"
    PROVE  Counted'
<1>1. \A v \in Callers : caller[v].id \in Nat /\ caller'[v].id \in Nat
  BY DEF ClientTypeOK, Call
<1>2. /\ \A i \in pending : i \in Nat /\ 0 < i /\ i <= msgID
      /\ \A v \in Callers : caller[v].id > 0 => caller[v].at \in Waiting
      /\ \A v, u \in Callers : caller[v].id = caller[u].id /\ caller[v].id > 0 => v = u
      /\ \A v \in Callers : caller[v].at = "documentSymbol" => ~Travels(caller[v].id)
      /\ PendingAwaited
  BY DEF Counted
<1>3. \A v \in Callers : caller'[v].id = caller[v].id \/ caller'[v].id = 0
  OBVIOUS
<1>4. \A i \in pending' : i \in Nat /\ 0 < i /\ i <= msgID'
  BY <1>2
<1>5. \A v \in Callers : caller'[v].id > 0 => caller'[v].at \in Waiting
  BY <1>1, <1>2 DEF Waiting
<1>6. \A v, u \in Callers : caller'[v].id = caller'[u].id /\ caller'[v].id > 0 => v = u
  BY <1>1, <1>2, <1>3
<1>7. ASSUME NEW v \in Callers, NEW i \in Nat, caller'[v].id = i, caller'[v].at = "documentSymbol"
      PROVE  ~Travels(i)'
  <2>1. caller[v].at = "documentSymbol" /\ caller[v].id = i /\ i > 0
    BY <1>7 DEF Waiting
  <2>2. ~Travels(i)
    BY <1>2, <2>1
  <2>3. ASSUME NEW u \in Callers, caller[u].at = "documentSymbol", caller[u].id = i, caller'[u].at = "wait"
        PROVE  FALSE
    BY <1>2, <1>7, <2>1, <2>3
  <2> QED
    BY <2>1, <2>2, <2>3
<1>8. ASSUME NEW i \in pending', Travels(i)' PROVE Awaited(i)'
  <2>1. i \in pending /\ i \in Nat /\ i > 0
    BY <1>2
  <2>2. CASE Travels(i)
    <3>1. PICK v \in Callers : caller[v].id = i /\ caller[v].at \in Waiting
      BY <1>2, <2>1, <2>2 DEF PendingAwaited, Awaited, Waiting
    <3>2. caller[v].at # "documentSymbol"
      BY <1>2, <2>2, <3>1
    <3>3. caller'[v].id = i /\ caller'[v].at \in Waiting
      BY <1>8, <2>1, <3>1, <3>2 DEF Waiting
    <3> QED
      BY <3>3 DEF Awaited, Waiting
  <2>3. CASE ~Travels(i)
    <3>1. PICK u \in Callers : caller[u].at = "documentSymbol" /\ caller[u].id = i /\ caller'[u].at = "wait"
      BY <1>8, <2>1, <2>3
    <3>2. caller'[u].id = i
      BY <1>8, <3>1
    <3> QED
      BY <3>1, <3>2 DEF Awaited
  <2> QED
    BY <2>2, <2>3
<1>9. \A v \in Callers : \A i \in Nat : caller'[v].id = i /\ caller'[v].at = "documentSymbol" => ~Travels(i)'
  BY <1>7
<1>10. ASSUME NEW v \in Callers, caller'[v].at = "documentSymbol" PROVE (~Travels(caller[v].id))'
  BY <1>1, <1>9, <1>10 DEF Travels
<1>11. PendingAwaited'
  BY <1>8 DEF PendingAwaited
<1> QED
  BY <1>4, <1>5, <1>6, <1>10, <1>11 DEF Counted

\* What the invariants so far say of callers.
LEMMA CallersStaged ==
    ASSUME IInv
    PROVE  /\ \A v \in Callers : caller[v] \in Call /\ (caller[v].at \in Waiting => caller[v].id > 0)
           /\ \A v \in Callers : caller[v].at # "idle" => caller[v].path \in Files
  BY DEF IInv, Owners, Fit, Staged, Waiting

LEMMA CountedAtStart == ClientInit => Counted
<1> SUFFICES ASSUME ClientInit PROVE Counted
  OBVIOUS
<1> QED
  BY DEF ClientInit, Counted, NotParsing, PendingAwaited

\* A new identifier is one nobody has seen.
LEMMA sendRequestCounted ==
    ASSUME IInv, Counted, NEW w \in Callers, sendRequest(w)
    PROVE  Counted'
<1>1. PICK c : /\ caller' = [caller EXCEPT ![w] = c] /\ caller[w].at = "request"
               /\ c.at = "documentSymbol" /\ c.path = caller[w].path /\ c.id = msgID + 1
  BY sendRequestFields DEF IInv
<1>2. \A v \in Callers : caller'[v] = IF v = w THEN c ELSE caller[v]
  BY <1>1 DEF IInv, ClientTypeOK
<1>3. /\ msgID \in Nat /\ msgID' = msgID + 1 /\ pending' = pending \cup {msgID + 1} /\ chan' = chan
      /\ UNCHANGED <<stdin, stdout, asked>>
  BY DEF IInv, ClientTypeOK, sendRequest, process
<1>4. \A v \in Callers : caller[v].id \in Nat /\ caller[v].id <= msgID
  <2>1. \A v \in Callers : caller[v].id \in Nat
    BY CallersStaged DEF Call
  <2>2. PICK o : Owners(o)
    BY DEF IInv
  <2>3. \A v \in Callers : caller[v].id > 0 => caller[v].id <= msgID
    BY <2>2 DEF Owners, Fit, Agrees
  <2> QED
    BY <1>3, <2>1, <2>3
<1>5. \A i : Travels(i)' <=> Travels(i)
  BY <1>3 DEF Travels
<1>6. ~Travels(msgID + 1)
  BY <1>3, TravelsBelow
<1>7. \A a \in chan : a.id # msgID + 1
  <2>1. PICK o : Owners(o)
    BY DEF IInv
  <2>2. \A a \in chan : a.id > 0 => a.id <= msgID
    BY <2>1 DEF Owners, Agrees
  <2> QED
    BY <1>3, <2>2
<1>8. /\ \A i \in pending' : i \in Nat /\ 0 < i /\ i <= msgID'
      /\ \A a \in chan' : a.id \notin pending'
  BY <1>3, <1>7 DEF Counted
<1>9. /\ \A v \in Callers : caller'[v].id > 0 => caller'[v].at \in Waiting
      /\ \A u, v \in Callers : caller'[u].id = caller'[v].id /\ caller'[u].id > 0 => u = v
  <2>1. c.at \in Waiting
    BY <1>1 DEF Waiting
  <2> QED
    BY <1>1, <1>2, <1>3, <1>4, <2>1 DEF Counted
<1>10. ASSUME NEW v \in Callers, caller'[v].at = "documentSymbol" PROVE (~Travels(caller[v].id))'
  <2>1. ~Travels(caller'[v].id)
    BY <1>1, <1>2, <1>6, <1>10 DEF Counted
  <2> QED
    BY <1>3, <2>1 DEF Travels
<1>11. ASSUME NEW i \in pending', Travels(i) PROVE Awaited(i)'
  <2>1. i \in pending
    BY <1>3, <1>6, <1>11
  <2>2. PICK v \in Callers : caller[v].id = i /\ caller[v].at \in Waiting
    BY <1>11, <2>1 DEF Counted, PendingAwaited, Awaited, Waiting
  <2>3. v # w
    BY <1>1, <2>2 DEF Waiting
  <2> QED
    BY <1>2, <2>2, <2>3 DEF Awaited, Waiting
<1>12. PendingAwaited'
  BY <1>5, <1>11 DEF PendingAwaited
<1> QED
  BY <1>8, <1>9, <1>10, <1>12 DEF Counted

\* A request starts to travel.
LEMMA WriteCounted ==
    ASSUME IInv, IInv', Counted, NEW w \in Callers, Write(w)
    PROVE  Counted'
<1> DEFINE c == Written(caller[w])  x == MessageOf(caller[w])
<1>1. caller[w] \in Call /\ caller[w].at \in Writes /\ stdin \in Seq(Message)
  BY CallersStaged DEF Write, Writing, IInv, ClientTypeOK
<1>2. /\ caller[w].at = "didOpen" => c.at = "request" /\ c.id = caller[w].id
      /\ caller[w].at = "documentSymbol" => c.at = "wait" /\ c.id = caller[w].id
      /\ caller[w].at = "didClose" => c.at = "idle" /\ c.id = 0
  BY <1>1, WrittenFields
<1>3. x \in Message /\ x.id = IF caller[w].at = "documentSymbol" THEN caller[w].id ELSE 0
  <2>1. PICK o : Owners(o)
    BY DEF IInv
  <2>2. Fit(o, msgID, caller[w])
    BY <2>1 DEF Owners
  <2> QED
    BY <1>1, <2>2, MessageAgrees DEF MessageOf
<1>4. /\ stdin' = Append(stdin, x) /\ caller' = [caller EXCEPT ![w] = c]
      /\ UNCHANGED <<msgID, pending, chan, asked, stdout>>
  BY DEF Write, IInv, ClientTypeOK
<1> HIDE DEF c, x
<1>5. \A v \in Callers : caller'[v] = IF v = w THEN c ELSE caller[v]
  BY <1>4 DEF IInv, ClientTypeOK
<1>6. \A i \in Nat : i > 0 /\ Travels(i)' =>
        Travels(i) \/ \E v \in Callers : caller[v].at = "documentSymbol" /\ caller[v].id = i /\ caller'[v].at = "wait"
  <2>1. \A i : Carried(stdin', i) => Carried(stdin, i) \/ x.id = i
    BY <1>1, <1>3, <1>4, AppendCarries
  <2>2. \A i : Travels(i)' <=> Carried(stdin', i) \/ (\E r \in asked : r.id = i) \/ Carried(stdout, i)
    BY <1>4 DEF Travels, Carried
  <2> QED
    BY <1>2, <1>3, <1>5, <2>1, <2>2, TravelsCarried
<1>7. \A v \in Callers :
        \/ /\ caller'[v].id = caller[v].id
           /\ \/ caller'[v].at = caller[v].at
              \/ caller[v].at \in Waiting /\ caller'[v].at \in {"wait", "expired"}
              \/ caller[v].id = 0 /\ caller'[v].at # "documentSymbol"
  <2>1. caller[w].at \in Waiting \/ caller[w].id = 0
    BY <1>1 DEF Counted, Call
  <2> QED
    BY <1>1, <1>2, <1>5, <2>1 DEF Waiting, Writes
<1> QED
  BY <1>4, <1>6, <1>7, CallersStaged, CountedKept DEF IInv, Counted

\* The caller gives its request up.
LEMMA GivingUpCounted ==
    ASSUME IInv, IInv', Counted, NEW w \in Callers, NEW c, caller' = [caller EXCEPT ![w] = c],
           c.id = 0, c.at # "documentSymbol",
           caller[w].id \in pending' => caller[w].at = "documentSymbol" /\ c.at # "wait",
           pending' \subseteq pending, chan' \subseteq chan, UNCHANGED <<msgID, stdin, stdout, asked>>
    PROVE  Counted'
<1>1. \A v \in Callers : caller'[v] = IF v = w THEN c ELSE caller[v]
  BY DEF IInv, ClientTypeOK
<1>2. \A i : Travels(i)' <=> Travels(i)
  BY DEF Travels
<1> QED
  BY <1>1, <1>2, CallersStaged, CountedKept DEF IInv, Counted

\* The callers stay where they are, but for one that starts or expires.
LEMMA OthersCounted ==
    ASSUME IInv, IInv', Counted, UNCHANGED msgID, pending' \subseteq pending,
           \A a \in chan' : a.id \notin pending',
           \A i \in Nat : i > 0 /\ Travels(i)' => Travels(i),
           \/ caller' = caller
           \/ \E w \in Callers : \E c :
                 /\ caller' = [caller EXCEPT ![w] = c] /\ c.id = caller[w].id
                 /\ \/ caller[w].at \in Waiting /\ c.at = "expired"
                    \/ caller[w].id = 0 /\ c.at # "documentSymbol"
    PROVE  Counted'
<1>1. \A v \in Callers :
        /\ caller'[v].id = caller[v].id
        /\ \/ caller'[v].at = caller[v].at
           \/ caller[v].at \in Waiting /\ caller'[v].at \in {"wait", "expired"}
           \/ caller[v].id = 0 /\ caller'[v].at # "documentSymbol"
  BY DEF IInv, ClientTypeOK
<1> QED
  BY <1>1, CallersStaged, CountedKept DEF IInv

LEMMA CallerCounted ==
    ASSUME IInv, IInv', Counted, NEW w \in Callers, Caller(w)
    PROVE  Counted'
<1>1. CASE sendRequest(w)
  BY <1>1, sendRequestCounted
<1>2. CASE Write(w)
  BY <1>2, WriteCounted
<1>3. CASE WriteBlocks(w)
  <2>1. UNCHANGED <<msgID, pending, chan, caller, stdin, stdout, asked>>
    BY <1>3 DEF WriteBlocks, process
  <2> QED
    BY <2>1, OthersCounted DEF Counted, Travels
<1>4. CASE WriteFails(w)
  <2> DEFINE c == Unwritten(caller[w])
  <2>1. caller[w] \in Call /\ caller[w].at \in Writes /\ caller' = [caller EXCEPT ![w] = c]
        /\ UNCHANGED <<msgID, pending, chan, stdin, stdout, asked>>
    BY <1>4, CallersStaged DEF WriteFails, Writing, IInv, ClientTypeOK, process
  <2>2. /\ caller[w].at = "didOpen" => c.at = "request" /\ c.id = caller[w].id
        /\ caller[w].at = "documentSymbol" => c.at \in {"request", "didClose"} /\ c.id = 0
        /\ caller[w].at = "didClose" => c.at = "idle" /\ c.id = 0
    BY <2>1, UnwrittenFields
  <2> HIDE DEF c
  <2>3. caller[w].at \notin Waiting => caller[w].id = 0
    BY <2>1 DEF Counted, Call
  <2>4. caller[w].id = 0 => caller[w].id \notin pending
    BY DEF Counted
  <2>5. /\ c.id = 0 /\ c.at # "documentSymbol" /\ c.at # "wait"
        /\ caller[w].id \in pending' => caller[w].at = "documentSymbol"
    BY <2>1, <2>2, <2>3, <2>4 DEF Writes, Waiting
  <2> QED
    BY <2>1, <2>5, GivingUpCounted
<1>5. CASE Receive(w)
  <2>1. PICK a \in chan : \E c :
          /\ a.id = caller[w].id /\ chan' = chan \ {a} /\ caller[w].at = "wait"
          /\ caller' = [caller EXCEPT ![w] = c]
          /\ c.at \in {"request", "didClose"} /\ c.path = caller[w].path /\ c.id = 0
    BY <1>5, ReceiveFields DEF IInv
  <2>2. caller[w].id \notin pending
    BY <2>1 DEF Counted
  <2>3. UNCHANGED <<msgID, pending, stdin, stdout, asked>>
    BY <1>5 DEF Receive, process
  <2> QED
    BY <2>1, <2>2, <2>3, GivingUpCounted
<1>6. CASE Expire(w)
  <2> DEFINE c == [caller[w] EXCEPT !.at = "expired"]
  <2>1. c.id = caller[w].id /\ c.at = "expired" /\ caller[w].at \in Waiting
    BY <1>6, CallersStaged DEF Expire, Call, Waiting
  <2>2. caller' = [caller EXCEPT ![w] = c] /\ UNCHANGED <<msgID, pending, chan, stdin, stdout, asked>>
    BY <1>6 DEF Expire, process
  <2> HIDE DEF c
  <2> QED
    BY <2>1, <2>2, OthersCounted DEF Counted, Travels
<1>7. CASE Forget(w)
  <2>1. PICK c : /\ caller' = [caller EXCEPT ![w] = c] /\ caller[w].at = "expired"
                 /\ c.at \in {"request", "didClose"} /\ c.path = caller[w].path /\ c.id = 0
    BY <1>7, ForgetFields DEF IInv
  <2>2. pending' = pending \ {caller[w].id} /\ chan' \subseteq chan /\ UNCHANGED <<msgID, stdin, stdout, asked>>
    BY <1>7 DEF Forget, process
  <2> QED
    BY <2>1, <2>2, GivingUpCounted
<1> QED
  BY <1>1, <1>2, <1>3, <1>4, <1>5, <1>6, <1>7 DEF Caller

\* The server moves requests on, the reader takes answers out.
LEMMA ServerCounted ==
    ASSUME IInv, IInv', Counted,
           Reader \/ ServerReads \/ (\E r \in asked : ServerAnswers(r)) \/ ServerNotifies \/ ServerDies \/ Close
    PROVE  Counted'
<1>1. stdin \in Seq(Message) /\ stdout \in Seq(Frame) /\ asked \subseteq Request
  BY DEF IInv, ClientTypeOK
<1>2. \A i : Travels(i)' <=> Carried(stdin', i) \/ (\E r \in asked' : r.id = i) \/ Carried(stdout', i)
  BY DEF Travels, Carried
<1>3. CASE ReadFrame
  <2>1. UNCHANGED <<client, stdin, asked>> /\ stdout # <<>> /\ stdout' = Tail(stdout)
    BY <1>3 DEF ReadFrame, process
  <2>2. \A i \in Nat : i > 0 /\ Travels(i)' => Travels(i)
    BY <1>1, <1>2, <2>1, TailCarries, TravelsCarried
  <2> QED
    BY <2>1, <2>2, OthersCounted DEF client, Counted
<1>4. CASE Dispatch
  <2>1. /\ UNCHANGED <<caller, msgID, stdin, stdout, asked>> /\ pending' = pending \ {reader.id}
        /\ chan' \subseteq chan \cup {reader}
    BY <1>4 DEF Dispatch, process
  <2>2. \A a \in chan' : a.id \notin pending'
    BY <2>1 DEF Counted
  <2> QED
    BY <2>1, <2>2, OthersCounted DEF Travels
<1>5. CASE ServerReads
  <2> DEFINE m == Head(stdin)
  <2>1. UNCHANGED <<client, stdout>> /\ stdin # <<>> /\ stdin' = Tail(stdin) /\ asked' \subseteq asked \cup {m}
    BY <1>5 DEF ServerReads
  <2> HIDE DEF m
  <2>2. \A i : Carried(stdin', i) => Carried(stdin, i)
    BY <1>1, <2>1, TailCarries
  <2>3. Carried(stdin, m.id)
    BY <1>1, <2>1, TailCarries DEF m
  <2>4. \A i \in Nat : i > 0 /\ Travels(i)' => Travels(i)
    BY <1>2, <2>1, <2>2, <2>3, TravelsCarried
  <2> QED
    BY <2>1, <2>4, OthersCounted DEF client, Counted
<1>6. ASSUME NEW f \in Frame, stdout' = Append(stdout, f), UNCHANGED <<client, stdin>>,
             (f.id = 0 /\ asked' = asked) \/ \E r \in asked : f.id = r.id /\ asked' = asked \ {r}
      PROVE  Counted'
  <2>1. \A i : Carried(stdout', i) => Carried(stdout, i) \/ f.id = i
    BY <1>1, <1>6, AppendCarries
  <2>2. \A i \in Nat : i > 0 /\ Travels(i)' => Travels(i)
    BY <1>2, <1>6, <2>1, TravelsCarried
  <2> QED
    BY <1>6, <2>2, OthersCounted DEF client, Counted
<1>7. CASE \E r \in asked : ServerAnswers(r)
  <2>1. PICK r \in asked : ServerAnswers(r)
    BY <1>7
  <2> DEFINE f == [id |-> r.id, path |-> r.path]
  <2>2. f \in Frame /\ f.id = r.id
    BY <1>1 DEF Frame, Request
  <2>3. stdout' = Append(stdout, f) /\ asked' = asked \ {r} /\ UNCHANGED <<client, stdin>>
    BY <2>1 DEF ServerAnswers, ServerWrites
  <2> HIDE DEF f
  <2> QED
    BY <1>6, <2>2, <2>3
<1>8. CASE ServerNotifies
  <2> DEFINE f == [id |-> 0, path |-> NoPath]
  <2>1. f \in Frame /\ f.id = 0
    BY DEF Frame
  <2>2. stdout' = Append(stdout, f) /\ asked' = asked /\ UNCHANGED <<client, stdin>>
    BY <1>8 DEF ServerNotifies, ServerWrites
  <2> HIDE DEF f
  <2> QED
    BY <1>6, <2>1, <2>2
<1>9. CASE ServerDies \/ Close \/ EndOfFile
  <2>1. /\ UNCHANGED <<client, stdout>> /\ \A i : Carried(stdin', i) => Carried(stdin, i)
        /\ asked' \subseteq asked
    BY <1>9 DEF ServerDies, Close, Dies, EndOfFile, process, Carried
  <2>2. \A i \in Nat : i > 0 /\ Travels(i)' => Travels(i)
    BY <1>2, <2>1, TravelsCarried
  <2> QED
    BY <2>1, <2>2, OthersCounted DEF client, Counted
<1> QED
  BY <1>3, <1>4, <1>5, <1>7, <1>8, <1>9 DEF Reader

LEMMA CountedInductive == IInv /\ IInv' /\ Counted /\ [ClientNext]_clientVars => Counted'
<1> SUFFICES ASSUME IInv, IInv', Counted, [ClientNext]_clientVars PROVE Counted'
  OBVIOUS
<1>1. ASSUME NEW w \in Callers, NEW p \in Files, Parse(w, p) PROVE Counted'
  <2>1. PICK c : /\ caller' = [caller EXCEPT ![w] = c] /\ caller[w].at = "idle"
                 /\ c.at = "didOpen" /\ c.path = p /\ c.id = 0
    BY <1>1, ParseFields DEF IInv
  <2>2. caller[w].id = 0
    BY <2>1, CallersStaged DEF Counted, Call, Waiting
  <2>3. UNCHANGED <<msgID, pending, chan, stdin, stdout, asked>>
    BY <1>1 DEF Parse, process
  <2> QED
    BY <2>1, <2>2, <2>3, OthersCounted DEF Counted, Travels
<1>2. CASE UNCHANGED clientVars
  BY <1>2, OthersCounted DEF clientVars, client, process, Counted, Travels
<1> QED
  BY <1>1, <1>2, CallerCounted, ServerCounted DEF ClientNext

-----------------------------------------------------------------------------
(* Documents *)

LEMMA OpenedAtStart == ClientInit => Opened
<1> SUFFICES ASSUME ClientInit PROVE Opened
  OBVIOUS
<1>1. \A w \in Callers : caller[w].at = "idle" /\ caller[w].path = NoPath
  BY DEF ClientInit, NotParsing
<1> QED
  BY <1>1 DEF ClientInit, Opened, NothingLeftOpen

\* The server stays and its pipe too: a caller goes on with its file, or takes
\* one that no other has.
LEMMA OpenedKept ==
    ASSUME IInv, Opened, UNCHANGED <<server, stdin, docs>>,
           \/ caller' = caller
           \/ \E w \in Callers : \E c :
                 /\ caller' = [caller EXCEPT ![w] = c]
                 /\ \/ c.path = caller[w].path /\ c.at # "idle" /\ caller[w].at \notin {"idle", "didOpen"}
                    \/ c.at = "didOpen" /\ caller[w].at = "idle" /\ ~Held(c.path)
    PROVE  Opened'
<1>1. /\ server = "dead" => docs = {} /\ stdin = <<>>
      /\ \A v \in Callers : caller[v].at = "idle" => caller[v].path = NoPath
      /\ \A u, v \in Callers : caller[u].path = caller[v].path /\ caller[u].path # NoPath => u = v
      /\ \A k \in DOMAIN stdin : stdin[k].kind = "documentSymbol" => OpenAt(stdin[k].path, k)
      /\ server = "up" => \A v \in Callers :
            caller[v].at \notin {"idle", "didOpen"} => OpenAt(caller[v].path, Len(stdin) + 1)
      /\ \A k \in DOMAIN stdin : stdin[k].kind = "didOpen" =>
            \/ Held(stdin[k].path)
            \/ \E l \in DOMAIN stdin : k < l /\ stdin[l].kind = "didClose" /\ stdin[l].path = stdin[k].path
      /\ \A p \in docs :
            Held(p) \/ \E k \in DOMAIN stdin : stdin[k].kind = "didClose" /\ stdin[k].path = p
  BY DEF Opened, NothingLeftOpen, Held
<1>2. \A p, k : OpenAt(p, k)' <=> OpenAt(p, k)
  BY DEF OpenAt
<1>3. \A v \in Callers : caller'[v] = caller[v] \/ 
        \/ caller'[v].path = caller[v].path /\ caller'[v].at # "idle" /\ caller[v].at \notin {"idle", "didOpen"}
        \/ caller'[v].at = "didOpen" /\ caller[v].at = "idle" /\ ~Held(caller'[v].path)
  BY DEF IInv, ClientTypeOK
<1>4. \A u, v \in Callers : u # v => caller'[u] = caller[u] \/ caller'[v] = caller[v]
  BY DEF IInv, ClientTypeOK
<1>5. \A v \in Callers : caller'[v].at = "idle" => caller'[v].path = NoPath
  BY <1>1, <1>3
<1>6. \A u, v \in Callers : caller'[u].path = caller'[v].path /\ caller'[u].path # NoPath => u = v
  BY <1>1, <1>3, <1>4 DEF Held
<1>7. \A p \in Files : Held(p) => Held(p)'
  <2>1. \A v \in Callers : caller[v].path \in Files => caller'[v].path = caller[v].path
    BY <1>1, <1>3, LspClientAssumption
  <2> QED
    BY <2>1 DEF Held
<1>8. (\A k \in DOMAIN stdin : stdin[k].path \in Files) /\ docs \subseteq Files
  <2>1. stdin \in Seq(Message) /\ docs \subseteq Files /\ \A m \in Message : m.path \in Files
    BY DEF IInv, ClientTypeOK, Message, Request
  <2> QED
    BY <2>1
<1>9. server' = "up" => \A v \in Callers :
        caller'[v].at \notin {"idle", "didOpen"} => OpenAt(caller'[v].path, Len(stdin) + 1)
  BY <1>1, <1>3
<1>10. \A v \in Callers : \A p, k : p = caller'[v].path /\ k = Len(stdin') + 1 =>
         (server' = "up" /\ caller'[v].at \notin {"idle", "didOpen"} => OpenAt(p, k)')
  BY <1>2, <1>9
<1>11. server' = "up" => \A v \in Callers :
         caller'[v].at \notin {"idle", "didOpen"} => (OpenAt(caller[v].path, Len(stdin) + 1))'
  BY <1>10 DEF OpenAt
<1>12. \A k \in DOMAIN stdin' : stdin'[k].kind = "documentSymbol" => (OpenAt(stdin[k].path, k))'
  BY <1>1 DEF OpenAt
<1>13. \A k \in DOMAIN stdin : stdin[k].kind = "didOpen" =>
            \/ (Held(stdin[k].path))'
            \/ \E l \in DOMAIN stdin : k < l /\ stdin[l].kind = "didClose" /\ stdin[l].path = stdin[k].path
  BY <1>1, <1>7, <1>8 DEF Held
<1>14. NothingLeftOpen'
  BY <1>1, <1>7, <1>8 DEF NothingLeftOpen, Held
<1> QED
  BY <1>1, <1>5, <1>6, <1>11, <1>12, <1>13, <1>14 DEF Opened

\* Without a server there are no documents.
LEMMA OpenedDead ==
    ASSUME IInv, Opened, server' = "dead", docs' = {}, stdin' = <<>>,
           \A v \in Callers :
              \/ caller'[v].path = caller[v].path /\ (caller'[v].at = "idle" => caller[v].at = "idle")
              \/ caller'[v].path = NoPath
    PROVE  Opened'
<1>1. /\ \A v \in Callers : caller[v].at = "idle" => caller[v].path = NoPath
      /\ \A u, v \in Callers : caller[u].path = caller[v].path /\ caller[u].path # NoPath => u = v
  BY DEF Opened
<1>2. /\ \A v \in Callers : caller'[v].at = "idle" => caller'[v].path = NoPath
      /\ \A u, v \in Callers : caller'[u].path = caller'[v].path /\ caller'[u].path # NoPath => u = v
  BY <1>1
<1>3. DOMAIN stdin' = {} /\ server' # "up"
  OBVIOUS
<1> QED
  BY <1>2, <1>3 DEF Opened, NothingLeftOpen

\* A message at the end of the pipe.
LEMMA WriteOpened ==
    ASSUME IInv, Opened, NEW w \in Callers, Write(w)
    PROVE  Opened'
<1> DEFINE c == Written(caller[w])  x == MessageOf(caller[w])
<1>0. PICK n, q : n = Len(stdin) /\ q = caller[w].path
  OBVIOUS
<1>1. caller[w] \in Call /\ caller[w].at \in Writes /\ stdin \in Seq(Message) /\ q \in Files /\ q # NoPath
  BY <1>0, CallersStaged, LspClientAssumption DEF Write, Writing, IInv, ClientTypeOK, Writes
<1>2. /\ caller[w].at = "didOpen" => c.at = "request" /\ c.path = q
      /\ caller[w].at = "documentSymbol" => c.at = "wait" /\ c.path = q
      /\ caller[w].at = "didClose" => c.at = "idle" /\ c.path = NoPath
  BY <1>0, <1>1, WrittenFields
<1>3. x \in Message /\ x.kind = caller[w].at /\ x.path = q
  <2>1. PICK o : Owners(o)
    BY DEF IInv
  <2>2. Fit(o, msgID, caller[w])
    BY <2>1 DEF Owners
  <2> QED
    BY <1>0, <1>1, <2>2, MessageAgrees DEF MessageOf
<1>4. /\ stdin' = Append(stdin, x) /\ caller' = [caller EXCEPT ![w] = c]
      /\ server = "up" /\ UNCHANGED <<server, docs>>
  BY DEF Write, IInv, ClientTypeOK
<1>5. /\ n \in Nat /\ DOMAIN stdin = 1 .. n /\ DOMAIN stdin' = 1 .. n + 1 /\ Len(stdin') = n + 1
      /\ \A k \in 1 .. n : stdin'[k] = stdin[k]
      /\ stdin'[n + 1] = x
  <2>1. \A S : \A s \in Seq(S), e \in S :
          /\ Len(s) \in Nat /\ DOMAIN s = 1 .. Len(s) /\ DOMAIN Append(s, e) = 1 .. Len(s) + 1
          /\ Len(Append(s, e)) = Len(s) + 1
          /\ \A k \in 1 .. Len(s) : Append(s, e)[k] = s[k]
          /\ Append(s, e)[Len(s) + 1] = e
    OBVIOUS
  <2> QED
    BY <1>0, <1>1, <1>3, <1>4, <2>1
<1>6. \A k \in DOMAIN stdin : stdin[k].path \in Files
  <2>1. \A m \in Message : m.path \in Files
    BY DEF Message, Request
  <2> QED
    BY <1>1, <2>1
<1> HIDE DEF c, x
<1>7. \A v \in Callers : caller'[v] = IF v = w THEN c ELSE caller[v]
  BY <1>4 DEF IInv, ClientTypeOK
<1>8. /\ \A v \in Callers : caller[v].at = "idle" => caller[v].path = NoPath
      /\ \A u, v \in Callers : caller[u].path = caller[v].path /\ caller[u].path # NoPath => u = v
      /\ \A k \in 1 .. n : stdin[k].kind = "documentSymbol" => OpenAt(stdin[k].path, k)
      /\ \A v \in Callers : caller[v].at \notin {"idle", "didOpen"} => OpenAt(caller[v].path, n + 1)
      /\ \A k \in 1 .. n : stdin[k].kind = "didOpen" =>
            \/ Held(stdin[k].path)
            \/ \E l \in 1 .. n : k < l /\ stdin[l].kind = "didClose" /\ stdin[l].path = stdin[k].path
      /\ \A p \in docs :
            Held(p) \/ \E k \in 1 .. n : stdin[k].kind = "didClose" /\ stdin[k].path = p
  BY <1>0, <1>4, <1>5 DEF Opened, NothingLeftOpen, Held
<1>9. ASSUME NEW p, NEW k \in 1 .. n + 1, OpenAt(p, k) PROVE OpenAt(p, k)'
  <2>1. \A l \in 1 .. n + 1 : l < k => l \in 1 .. n
    BY <1>5
  <2> QED
    BY <1>4, <1>5, <1>9, <2>1 DEF OpenAt
<1>10. ASSUME NEW p, OpenAt(p, n + 1), ~(x.kind = "didClose" /\ x.path = p) PROVE OpenAt(p, n + 2)'
  <2>1. \A l \in 1 .. n + 1 : l \in 1 .. n \/ l = n + 1
    BY <1>5
  <2>2. /\ \A l \in 1 .. n : l < n + 1 /\ l \in 1 .. n + 1
        /\ \A l \in 1 .. n : l < n + 2
    BY <1>5
  <2> QED
    BY <1>4, <1>5, <1>10, <2>1, <2>2 DEF OpenAt
<1>11. x.kind = "didOpen" => OpenAt(q, n + 2)'
  <2>1. n + 1 \in 1 .. n + 1 /\ n + 1 < n + 2 /\ \A l \in 1 .. n + 1 : ~(n + 1 < l)
    BY <1>5
  <2> QED
    BY <1>3, <1>5, <2>1 DEF OpenAt
<1>12. /\ \A v \in Callers : caller'[v].at = "idle" => caller'[v].path = NoPath
       /\ \A u, v \in Callers : caller'[u].path = caller'[v].path /\ caller'[u].path # NoPath => u = v
  BY <1>0, <1>1, <1>2, <1>7, <1>8 DEF Writes
<1>13. ASSUME NEW k \in DOMAIN stdin', stdin'[k].kind = "documentSymbol", NEW p, p = stdin'[k].path
       PROVE  OpenAt(p, k)'
  <2>1. CASE k \in 1 .. n
    BY <1>5, <1>8, <1>9, <1>13, <2>1
  <2>2. CASE k = n + 1
    <3>1. caller[w].at = "documentSymbol" /\ p = q
      BY <1>3, <1>5, <1>13, <2>2
    <3>2. OpenAt(q, n + 1)
      BY <1>0, <1>8, <3>1
    <3> QED
      BY <1>5, <1>9, <2>2, <3>1, <3>2
  <2> QED
    BY <1>5, <2>1, <2>2
<1>14. ASSUME NEW v \in Callers, caller'[v].at \notin {"idle", "didOpen"}, NEW p, p = caller'[v].path
       PROVE  OpenAt(p, n + 2)'
  <2>1. CASE v # w
    <3>1. caller'[v] = caller[v] /\ OpenAt(p, n + 1)
      BY <1>7, <1>8, <1>14, <2>1
    <3>2. p # q
      BY <1>0, <1>1, <1>8, <1>14, <2>1, <3>1
    <3> QED
      BY <1>3, <1>10, <3>1, <3>2
  <2>2. CASE v = w /\ caller[w].at = "didOpen"
    BY <1>2, <1>3, <1>7, <1>11, <1>14, <2>2
  <2>3. CASE v = w /\ caller[w].at = "documentSymbol"
    <3>1. p = q /\ OpenAt(q, n + 1)
      BY <1>0, <1>2, <1>7, <1>8, <1>14, <2>3
    <3> QED
      BY <1>3, <1>10, <2>3, <3>1
  <2> QED
    BY <1>1, <1>2, <1>7, <1>14, <2>1, <2>2, <2>3 DEF Writes
<1>15. ASSUME NEW p \in Files, Held(p)
       PROVE  Held(p)' \/ (x.kind = "didClose" /\ x.path = p)
  <2>1. PICK v \in Callers : caller[v].path = p
    BY <1>15 DEF Held
  <2>2. CASE caller'[v].path = p
    BY <2>2 DEF Held
  <2>3. CASE caller'[v].path # p
    BY <1>0, <1>1, <1>2, <1>3, <1>7, <2>1, <2>3 DEF Writes
  <2> QED
    BY <2>2, <2>3
<1>16. ASSUME NEW k \in DOMAIN stdin', stdin'[k].kind = "didOpen", NEW p, p = stdin'[k].path
       PROVE  Held(p)' \/ \E l \in DOMAIN stdin' : k < l /\ stdin'[l].kind = "didClose" /\ stdin'[l].path = p
  <2>1. CASE k \in 1 .. n
    <3>1. p = stdin[k].path /\ p \in Files /\ stdin[k].kind = "didOpen" /\ k < n + 1 /\ n + 1 \in DOMAIN stdin'
      BY <1>5, <1>6, <1>16, <2>1
    <3>2. CASE Held(p)
      BY <1>5, <1>15, <3>1, <3>2
    <3>3. CASE \E l \in 1 .. n : k < l /\ stdin[l].kind = "didClose" /\ stdin[l].path = p
      <4>1. PICK l \in 1 .. n : k < l /\ stdin[l].kind = "didClose" /\ stdin[l].path = p
        BY <3>3
      <4>2. l \in DOMAIN stdin' /\ stdin'[l] = stdin[l]
        BY <1>5
      <4> QED
        BY <4>1, <4>2
    <3> QED
      BY <1>8, <2>1, <3>1, <3>2, <3>3
  <2>2. CASE k = n + 1
    <3>1. caller[w].at = "didOpen" /\ p = q
      BY <1>3, <1>5, <1>16, <2>2
    <3>2. caller'[w].path = p
      BY <1>2, <1>7, <3>1
    <3> QED
      BY <3>2 DEF Held
  <2> QED
    BY <1>5, <2>1, <2>2
<1>17. ASSUME NEW p \in docs'
       PROVE  Held(p)' \/ \E k \in DOMAIN stdin' : stdin'[k].kind = "didClose" /\ stdin'[k].path = p
  <2>1. p \in docs /\ p \in Files
    BY <1>4 DEF IInv, ClientTypeOK
  <2>2. CASE Held(p)
    <3>1. n + 1 \in DOMAIN stdin'
      BY <1>5
    <3> QED
      BY <1>5, <1>15, <2>1, <2>2, <3>1
  <2>3. CASE \E k \in 1 .. n : stdin[k].kind = "didClose" /\ stdin[k].path = p
    <3>1. PICK k \in 1 .. n : stdin[k].kind = "didClose" /\ stdin[k].path = p
      BY <2>3
    <3>2. k \in DOMAIN stdin' /\ stdin'[k] = stdin[k]
      BY <1>5
    <3> QED
      BY <3>1, <3>2
  <2> QED
    BY <1>8, <2>1, <2>2, <2>3
<1> DEFINE Followed(k) ==
             \/ Held(stdin[k].path)
             \/ \E l \in DOMAIN stdin : k < l /\ stdin[l].kind = "didClose" /\ stdin[l].path = stdin[k].path
<1>18. server' # "dead"
  BY <1>4
<1>19. \A k \in DOMAIN stdin' : stdin'[k].kind = "documentSymbol" => (OpenAt(stdin[k].path, k))'
  BY <1>13 DEF OpenAt
<1>20. \A v \in Callers : caller'[v].at \notin {"idle", "didOpen"} => (OpenAt(caller[v].path, Len(stdin) + 1))'
  <2>1. Len(stdin') + 1 = n + 2
    BY <1>5
  <2> QED
    BY <1>14, <2>1 DEF OpenAt
<1>21. \A k \in DOMAIN stdin' : stdin'[k].kind = "didOpen" => Followed(k)'
  BY <1>16 DEF Held
<1>22. NothingLeftOpen'
  BY <1>17 DEF NothingLeftOpen, Held
<1> QED
  BY <1>12, <1>18, <1>19, <1>20, <1>21, <1>22 DEF Opened

\* The server takes the first message from the pipe.
LEMMA ServerReadsOpened ==
    ASSUME IInv, Opened, ServerReads
    PROVE  Opened'
<1> DEFINE m == Head(stdin)
<1>0. PICK n : n = Len(stdin)
  OBVIOUS
<1>1. stdin \in Seq(Message) /\ stdin # <<>> /\ stdin' = Tail(stdin) /\ server = "up"
      /\ UNCHANGED <<server, caller>>
  BY DEF ServerReads, client, IInv, ClientTypeOK
<1>2. /\ n \in Nat /\ n > 0 /\ DOMAIN stdin = 1 .. n /\ DOMAIN stdin' = 1 .. n - 1 /\ Len(stdin') = n - 1
      /\ \A k \in 1 .. n - 1 : stdin'[k] = stdin[k + 1]
      /\ m = stdin[1]
  BY <1>0, <1>1
<1>3. /\ m.kind \in {"didOpen", "didClose", "documentSymbol"}
      /\ m.kind = "didOpen" => docs' = docs \cup {m.path}
      /\ m.kind = "didClose" => docs' = docs \ {m.path}
      /\ m.kind = "documentSymbol" => docs' = docs
  <2>1. m \in Message
    BY <1>1, <1>2
  <2> QED
    BY <2>1 DEF ServerReads, Message, Request
<1> HIDE DEF m
<1>4. /\ \A v \in Callers : caller[v].at = "idle" => caller[v].path = NoPath
      /\ \A u, v \in Callers : caller[u].path = caller[v].path /\ caller[u].path # NoPath => u = v
      /\ \A k \in 1 .. n : stdin[k].kind = "documentSymbol" => OpenAt(stdin[k].path, k)
      /\ \A v \in Callers : caller[v].at \notin {"idle", "didOpen"} => OpenAt(caller[v].path, n + 1)
      /\ \A k \in 1 .. n : stdin[k].kind = "didOpen" =>
            \/ Held(stdin[k].path)
            \/ \E l \in 1 .. n : k < l /\ stdin[l].kind = "didClose" /\ stdin[l].path = stdin[k].path
      /\ \A p \in docs :
            Held(p) \/ \E k \in 1 .. n : stdin[k].kind = "didClose" /\ stdin[k].path = p
  BY <1>0, <1>1, <1>2 DEF Opened, NothingLeftOpen, Held
<1>5. \A l \in 1 .. n : l = 1 \/ (l - 1 \in 1 .. n - 1 /\ stdin'[l - 1] = stdin[l])
  BY <1>2
<1>6. \A l \in 1 .. n - 1 : l + 1 \in 1 .. n /\ 1 < l + 1 /\ stdin'[l] = stdin[l + 1]
  BY <1>2
<1>7. ASSUME NEW p, NEW k \in 1 .. n, OpenAt(p, k + 1) PROVE OpenAt(p, k)'
  <2>1. CASE p \in docs /\ \A l \in 1 .. n : l < k + 1 => ~(stdin[l].kind = "didClose" /\ stdin[l].path = p)
    <3>1. 1 \in 1 .. n /\ 1 < k + 1
      BY <1>2
    <3>2. p \in docs'
      BY <1>2, <1>3, <2>1, <3>1
    <3>3. \A l \in 1 .. n - 1 : l < k => ~(stdin'[l].kind = "didClose" /\ stdin'[l].path = p)
      BY <1>6, <2>1
    <3> QED
      BY <1>2, <3>2, <3>3 DEF OpenAt
  <2>2. CASE \E j \in 1 .. n :
               /\ j < k + 1 /\ stdin[j].kind = "didOpen" /\ stdin[j].path = p
               /\ \A l \in 1 .. n : j < l /\ l < k + 1 => ~(stdin[l].kind = "didClose" /\ stdin[l].path = p)
    <3>1. PICK j \in 1 .. n :
               /\ j < k + 1 /\ stdin[j].kind = "didOpen" /\ stdin[j].path = p
               /\ \A l \in 1 .. n : j < l /\ l < k + 1 => ~(stdin[l].kind = "didClose" /\ stdin[l].path = p)
      BY <2>2
    <3>2. \A l \in 1 .. n - 1 : j < l + 1 /\ l < k => ~(stdin'[l].kind = "didClose" /\ stdin'[l].path = p)
      BY <1>6, <3>1
    <3>3. CASE j = 1
      <4>1. p \in docs'
        BY <1>2, <1>3, <3>1, <3>3
      <4>2. \A l \in 1 .. n - 1 : l < k => ~(stdin'[l].kind = "didClose" /\ stdin'[l].path = p)
        BY <3>2, <3>3
      <4> QED
        BY <1>2, <4>1, <4>2 DEF OpenAt
    <3>4. CASE j # 1
      <4>1. j - 1 \in 1 .. n - 1 /\ j - 1 < k /\ stdin'[j - 1].kind = "didOpen" /\ stdin'[j - 1].path = p
        BY <1>2, <1>5, <3>1, <3>4
      <4>2. \A l \in 1 .. n - 1 : j - 1 < l /\ l < k => ~(stdin'[l].kind = "didClose" /\ stdin'[l].path = p)
        BY <3>2
      <4> QED
        BY <1>2, <4>1, <4>2 DEF OpenAt
    <3> QED
      BY <3>3, <3>4
  <2> QED
    BY <1>2, <1>7, <2>1, <2>2 DEF OpenAt
<1>8. ASSUME NEW k \in DOMAIN stdin', stdin'[k].kind = "documentSymbol", NEW p, p = stdin'[k].path
      PROVE  OpenAt(p, k)'
  <2>1. k + 1 \in 1 .. n /\ stdin[k + 1].kind = "documentSymbol" /\ p = stdin[k + 1].path /\ k \in 1 .. n
    BY <1>2, <1>8
  <2> QED
    BY <1>4, <1>7, <2>1
<1>9. ASSUME NEW v \in Callers, caller'[v].at \notin {"idle", "didOpen"}, NEW p, p = caller'[v].path
      PROVE  OpenAt(p, n)'
  <2>1. n \in 1 .. n
    BY <1>2
  <2> QED
    BY <1>1, <1>4, <1>7, <1>9, <2>1
<1>10. \A p : Held(p)' <=> Held(p)
  BY <1>1 DEF Held
<1>11. ASSUME NEW k \in DOMAIN stdin', stdin'[k].kind = "didOpen", NEW p, p = stdin'[k].path
       PROVE  Held(p)' \/ \E l \in DOMAIN stdin' : k < l /\ stdin'[l].kind = "didClose" /\ stdin'[l].path = p
  <2>1. k + 1 \in 1 .. n /\ stdin[k + 1].kind = "didOpen" /\ p = stdin[k + 1].path
    BY <1>2, <1>11
  <2>2. CASE \E l \in 1 .. n : k + 1 < l /\ stdin[l].kind = "didClose" /\ stdin[l].path = p
    <3>1. PICK l \in 1 .. n : k + 1 < l /\ stdin[l].kind = "didClose" /\ stdin[l].path = p
      BY <2>2
    <3>2. l - 1 \in DOMAIN stdin' /\ k < l - 1 /\ stdin'[l - 1] = stdin[l]
      BY <1>2, <1>5, <2>1, <3>1
    <3> QED
      BY <3>1, <3>2
  <2> QED
    BY <1>4, <1>10, <2>1, <2>2
<1>12. ASSUME NEW p \in docs'
       PROVE  Held(p)' \/ \E k \in DOMAIN stdin' : stdin'[k].kind = "didClose" /\ stdin'[k].path = p
  <2>1. \/ Held(p)
        \/ \E k \in 1 .. n : k # 1 /\ stdin[k].kind = "didClose" /\ stdin[k].path = p
    <3>1. CASE p \in docs
      <4>1. ~(m.kind = "didClose" /\ m.path = p)
        BY <1>3, <1>12
      <4> QED
        BY <1>2, <1>4, <3>1, <4>1
    <3>2. CASE p \notin docs
      <4>1. m.kind = "didOpen" /\ m.path = p
        BY <1>3, <1>12, <3>2
      <4>2. 1 \in 1 .. n /\ \A l \in 1 .. n : 1 < l => l # 1
        BY <1>2
      <4> QED
        BY <1>2, <1>4, <4>1, <4>2
    <3> QED
      BY <3>1, <3>2
  <2>2. CASE \E k \in 1 .. n : k # 1 /\ stdin[k].kind = "didClose" /\ stdin[k].path = p
    BY <1>2, <1>5, <2>2
  <2> QED
    BY <1>10, <2>1, <2>2
<1> DEFINE Followed(k) ==
             \/ Held(stdin[k].path)
             \/ \E l \in DOMAIN stdin : k < l /\ stdin[l].kind = "didClose" /\ stdin[l].path = stdin[k].path
<1>13. server' # "dead"
  BY <1>1
<1>14. \A k \in DOMAIN stdin' : stdin'[k].kind = "documentSymbol" => (OpenAt(stdin[k].path, k))'
  BY <1>8 DEF OpenAt
<1>15. \A v \in Callers : caller'[v].at \notin {"idle", "didOpen"} => (OpenAt(caller[v].path, Len(stdin) + 1))'
  <2>1. Len(stdin') + 1 = n
    BY <1>2
  <2> QED
    BY <1>9, <2>1 DEF OpenAt
<1>16. \A k \in DOMAIN stdin' : stdin'[k].kind = "didOpen" => Followed(k)'
  BY <1>11 DEF Held
<1>17. NothingLeftOpen'
  BY <1>12 DEF NothingLeftOpen, Held
<1> QED
  BY <1>1, <1>4, <1>13, <1>14, <1>15, <1>16, <1>17 DEF Opened

LEMMA CallerOpened ==
    ASSUME IInv, Opened, NEW w \in Callers, Caller(w)
    PROVE  Opened'
<1>1. CASE sendRequest(w)
  <2>1. PICK c : /\ caller' = [caller EXCEPT ![w] = c] /\ caller[w].at = "request"
                 /\ c.at = "documentSymbol" /\ c.path = caller[w].path /\ c.id = msgID + 1
    BY <1>1, sendRequestFields DEF IInv
  <2>2. UNCHANGED <<server, stdin, docs>>
    BY <1>1 DEF sendRequest, process
  <2> QED
    BY <2>1, <2>2, OpenedKept
<1>2. CASE Write(w)
  BY <1>2, WriteOpened
<1>3. CASE WriteBlocks(w)
  <2>1. UNCHANGED <<caller, server, stdin, docs>>
    BY <1>3 DEF WriteBlocks, process
  <2> QED
    BY <2>1, OpenedKept
<1>4. CASE WriteFails(w)
  <2> DEFINE c == Unwritten(caller[w])
  <2>1. caller[w] \in Call /\ caller[w].at \in Writes /\ caller' = [caller EXCEPT ![w] = c]
        /\ server = "dead" /\ UNCHANGED <<server, stdin, docs>>
    BY <1>4, CallersStaged DEF WriteFails, Writing, IInv, ClientTypeOK, process
  <2>2. (c.path = caller[w].path /\ c.at # "idle") \/ c.path = NoPath
    BY <2>1, UnwrittenFields DEF Writes
  <2> HIDE DEF c
  <2>3. \A v \in Callers : caller'[v] = IF v = w THEN c ELSE caller[v]
    BY <2>1 DEF IInv, ClientTypeOK
  <2>4. docs' = {} /\ stdin' = <<>>
    BY <2>1 DEF Opened
  <2> QED
    BY <2>1, <2>2, <2>3, <2>4, OpenedDead
<1>5. CASE Receive(w)
  <2>1. PICK a \in chan : \E c :
          /\ a.id = caller[w].id /\ chan' = chan \ {a} /\ caller[w].at = "wait"
          /\ caller' = [caller EXCEPT ![w] = c]
          /\ c.at \in {"request", "didClose"} /\ c.path = caller[w].path /\ c.id = 0
    BY <1>5, ReceiveFields DEF IInv
  <2>2. UNCHANGED <<server, stdin, docs>>
    BY <1>5 DEF Receive, process
  <2> QED
    BY <2>1, <2>2, OpenedKept
<1>6. CASE Expire(w)
  <2> DEFINE c == [caller[w] EXCEPT !.at = "expired"]
  <2>1. c.path = caller[w].path /\ c.at = "expired" /\ caller[w].at = "wait"
    BY <1>6, CallersStaged DEF Expire, Call
  <2>2. caller' = [caller EXCEPT ![w] = c] /\ UNCHANGED <<server, stdin, docs>>
    BY <1>6 DEF Expire, process
  <2> HIDE DEF c
  <2> QED
    BY <2>1, <2>2, OpenedKept
<1>7. CASE Forget(w)
  <2>1. PICK c : /\ caller' = [caller EXCEPT ![w] = c] /\ caller[w].at = "expired"
                 /\ c.at \in {"request", "didClose"} /\ c.path = caller[w].path /\ c.id = 0
    BY <1>7, ForgetFields DEF IInv
  <2>2. UNCHANGED <<server, stdin, docs>>
    BY <1>7 DEF Forget, process
  <2> QED
    BY <2>1, <2>2, OpenedKept
<1> QED
  BY <1>1, <1>2, <1>3, <1>4, <1>5, <1>6, <1>7 DEF Caller

LEMMA OpenedInductive == IInv /\ Opened /\ [ClientNext]_clientVars => Opened'
<1> SUFFICES ASSUME IInv, Opened, [ClientNext]_clientVars PROVE Opened'
  OBVIOUS
<1>1. ASSUME NEW w \in Callers, NEW p \in Files, Parse(w, p) PROVE Opened'
  <2>1. PICK c : /\ caller' = [caller EXCEPT ![w] = c] /\ caller[w].at = "idle"
                 /\ c.at = "didOpen" /\ c.path = p /\ c.id = 0
    BY <1>1, ParseFields DEF IInv
  <2>2. ~Held(c.path) /\ UNCHANGED <<server, stdin, docs>>
    BY <1>1, <2>1 DEF Parse, process, Held
  <2> QED
    BY <2>1, <2>2, OpenedKept
<1>2. CASE ServerReads
  BY <1>2, ServerReadsOpened
<1>3. CASE Reader \/ (\E r \in asked : ServerAnswers(r)) \/ ServerNotifies \/ UNCHANGED clientVars
  <2>1. UNCHANGED <<caller, server, stdin, docs>>
    BY <1>3 DEF Reader, ReadFrame, Dispatch, EndOfFile, ServerAnswers, ServerNotifies, ServerWrites,
                clientVars, client, process
  <2> QED
    BY <2>1, OpenedKept
<1>4. CASE ServerDies \/ Close
  <2>1. server' = "dead" /\ docs' = {} /\ stdin' = <<>> /\ caller' = caller
    BY <1>4 DEF ServerDies, Close, Dies, client
  <2> QED
    BY <2>1, OpenedDead
<1> QED
  BY <1>1, <1>2, <1>3, <1>4, CallerOpened DEF ClientNext

\* Neither the map of pending requests nor the documents open in the server pile
\* up over a long scan, whatever the server does: an entry belongs to a caller
\* that will take it out, or its request never reached the pipe; an open document
\* belongs to a caller or its didClose is on the way.
THEOREM NothingPilesUp == ClientSpec => []NothingPiledUp
<1>1. Counted /\ Opened => NothingPiledUp
  BY DEF Counted, Opened, NothingPiledUp
<1> QED
  BY <1>1, CountedAtStart, CountedInductive, OpenedAtStart, OpenedInductive, Inductive, PTL DEF ClientSpec

\* The server is asked for symbols only of a document that is open in it, on
\* every try and however callers and the server interleave.
THEOREM AskedOnlyWhenOpen == ClientSpec => AskedWhenOpen
<1>1. IInv /\ Opened /\ [ClientNext]_clientVars => [\A r \in asked' \ asked : r.path \in docs]_clientVars
  <2> SUFFICES ASSUME IInv, Opened, [ClientNext]_clientVars, NEW r \in asked', r \notin asked PROVE r.path \in docs
    OBVIOUS
  <2>1. ServerReads
    BY DEF ClientNext, Caller, Parse, sendRequest, Write, WriteBlocks, WriteFails, Receive, Expire, Forget,
           Reader, ReadFrame, Dispatch, EndOfFile, ServerAnswers, ServerNotifies, ServerWrites,
           ServerDies, Close, Dies, clientVars, client, process
  <2>2. r = Head(stdin) /\ r.kind = "documentSymbol" /\ stdin # <<>> /\ stdin \in Seq(Message)
    BY <2>1 DEF ServerReads, IInv, ClientTypeOK
  <2>3. r = stdin[1] /\ 1 \in DOMAIN stdin /\ \A j \in DOMAIN stdin : ~(j < 1)
    BY <2>2
  <2>4. OpenAt(r.path, 1)
    BY <2>2, <2>3 DEF Opened
  <2> QED
    BY <2>3, <2>4 DEF OpenAt
<1> QED
  BY <1>1, OpenedAtStart, OpenedInductive, Inductive, PTL DEF ClientSpec, AskedWhenOpen
-----------------------------------------------------------------------------
(* The downloader of a model                                               *)

\* A place in a run of blocks that starts behind n others.
Placed(blocks, n) == \A i \in 1 .. Len(blocks) : blocks[i][2] = n + i
Pieces == Nat \X Nat

\* What came and what is to come stand where they belong, ...
InOrder ==
    /\ served \in Nat /\ part \in Seq(Pieces) /\ reply \in Seq(Pieces)
    /\ Placed(part, 0) /\ Placed(reply, Len(part))
    /\ reply # <<>> => at = "copy"

\* ... and what is extracted has the checksum.
Trusted ==
    /\ DOMAIN files = 1 .. Blocks /\ filled \in Nat
    /\ Checked /\ at \in {"extract", "fill"} => Sum(part)
    /\ VerifiedOnly

LEMMA ArchiveFacts ==
    ASSUME Blocks \in Nat, NEW v \in Nat
    PROVE  /\ Archive(v) \in Seq(Pieces) /\ Len(Archive(v)) = Blocks /\ DOMAIN Archive(v) = 1 .. Blocks
           /\ \A i \in 1 .. Blocks : Archive(v)[i] = <<v, i>>
<1>1. Archive(v) = [i \in 1 .. Blocks |-> <<v, i>>] /\ Archive(v) \in [1 .. Blocks -> Pieces]
  BY DEF Archive, Pieces
<1>2. DOMAIN Archive(v) = 1 .. Blocks /\ \A i \in 1 .. Blocks : Archive(v)[i] = <<v, i>>
  BY <1>1
<1>3. Archive(v) \in Seq(Pieces)
  BY <1>1, SeqDef
<1>4. Len(Archive(v)) = Blocks
  BY <1>2, <1>3
<1> QED
  BY <1>2, <1>3, <1>4

LEMMA PlacesKept ==
    ASSUME Blocks \in Nat, Versions \in Nat, InOrder, [DownloadNext]_download
    PROVE  InOrder'
<1> USE DEF InOrder
<1>0. <<>> \in Seq(Pieces) /\ Len(<<>>) = 0 /\ \A n : Placed(<<>>, n)
  BY DEF Placed
<1>1. CASE Publish
  <2>1. served' \in Nat
    BY <1>1 DEF Publish
  <2> QED
    BY <1>1, <2>1 DEF Publish
<1>2. CASE Start
  BY <1>2 DEF Start
<1>3. CASE Reuse
  BY <1>3 DEF Reuse
<1>4. CASE Partial
  <2> DEFINE a == Archive(served)  n == Len(part)  rest == SubSeq(a, n + 1, Blocks)
  <2>1. a \in Seq(Pieces) /\ Len(a) = Blocks /\ \A i \in 1 .. Blocks : a[i] = <<served, i>>
    BY ArchiveFacts
  <2>2. n \in Nat
    OBVIOUS
  <2>3. CASE n < Blocks
    <3> HIDE DEF a, n
    <3>1. n + 1 \in 1 .. Blocks
      BY <2>2, <2>3
    <3>2. rest \in Seq(Pieces) /\ Len(rest) = Blocks - n /\ \A i \in 1 .. Blocks - n : rest[i] = a[n + i]
      BY <2>1, <2>2, <3>1
    <3> HIDE DEF rest
    <3>3. \A i \in 1 .. Blocks - n : n + i \in 1 .. Blocks
      BY <2>2, <2>3
    <3>4. Placed(rest, n)
      BY <2>1, <3>2, <3>3 DEF Placed
    <3>5. reply' = rest /\ part' = part /\ served' = served /\ at' = "copy"
      BY <1>4, <2>3 DEF Partial, rest, a, n
    <3> QED
      BY <3>2, <3>4, <3>5 DEF n
  <2>4. CASE ~(n < Blocks)
    BY <1>0, <1>4, <2>4 DEF Partial
  <2> QED
    BY <2>3, <2>4
<1>5. CASE Whole
  <2> DEFINE a == Archive(served)
  <2>1. a \in Seq(Pieces) /\ Len(a) = Blocks /\ \A i \in 1 .. Blocks : a[i] = <<served, i>>
    BY ArchiveFacts
  <2>2. reply' = a /\ part' = <<>> /\ served' = served /\ at' = "copy"
    BY <1>5 DEF Whole
  <2> HIDE DEF a
  <2>3. Placed(a, 0)
    BY <2>1 DEF Placed
  <2> QED
    BY <1>0, <2>1, <2>2, <2>3
<1>6. CASE Copy
  <2> DEFINE n == Len(part)  e == Head(reply)  p == Append(part, e)  r == Tail(reply)
  <2>1. n \in Nat /\ reply # <<>> /\ part' = p /\ reply' = r /\ served' = served /\ at' = "copy"
    BY <1>6 DEF Copy
  <2>2. e = reply[1] /\ e \in Pieces /\ Len(reply) \in Nat \ {0} /\ r \in Seq(Pieces) /\ Len(r) = Len(reply) - 1
        /\ \A i \in 1 .. Len(r) : r[i] = reply[i + 1]
    BY <2>1
  <2>3. \A i \in 1 .. Len(reply) : reply[i][2] = n + i
    BY DEF Placed
  <2> HIDE DEF e, r
  <2>4. p \in Seq(Pieces) /\ Len(p) = n + 1 /\ p[n + 1] = e /\ \A i \in 1 .. n : p[i] = part[i]
    BY <2>2, AppendFacts
  <2> HIDE DEF p
  <2>5. Placed(p, 0)
    <3>1. \A i \in 1 .. n + 1 : i \in 1 .. n \/ i = n + 1
      BY <2>1
    <3>2. e[2] = n + 1
      BY <2>2, <2>3
    <3>3. \A i \in 1 .. n : part[i][2] = 0 + i
      BY DEF Placed
    <3>4. 0 + (n + 1) = n + 1
      BY <2>1
    <3> QED
      BY <2>4, <3>1, <3>2, <3>3, <3>4 DEF Placed
  <2>6. Placed(r, n + 1)
    <3>1. \A i \in 1 .. Len(r) : i + 1 \in 1 .. Len(reply) /\ n + (i + 1) = (n + 1) + i
      BY <2>1, <2>2
    <3> QED
      BY <2>2, <2>3, <3>1 DEF Placed
  <2> QED
    BY <2>1, <2>2, <2>4, <2>5, <2>6
<1>7. CASE Check
  BY <1>7 DEF Check
<1>8. CASE OpenFile \/ FillFile
  BY <1>8 DEF OpenFile, FillFile
<1>9. CASE Extracted
  <2>1. part' = <<>> /\ reply' = reply /\ served' = served /\ reply = <<>>
    BY <1>9 DEF Extracted
  <2> QED
    BY <1>0, <2>1
<1>10. CASE Fail
  <2>1. reply' = <<>> /\ part' = part /\ served' = served
    BY <1>10 DEF Fail
  <2> QED
    BY <1>0, <2>1
<1>11. CASE UNCHANGED download
  BY <1>11 DEF download
<1> QED
  BY <1>1, <1>2, <1>3, <1>4, <1>5, <1>6, <1>7, <1>8, <1>9, <1>10, <1>11 DEF DownloadNext, DownloadStep

LEMMA TrustKept ==
    ASSUME Blocks \in Nat, Trusted, [DownloadNext]_download
    PROVE  Trusted'
<1> USE DEF Trusted
<1>1. CASE files' = files /\ filled' \in Nat /\ (Checked /\ at' \in {"extract", "fill"} => Sum(part'))
  BY <1>1 DEF VerifiedOnly, Sum
<1>2. CASE Start \/ Partial \/ Whole \/ Copy \/ Fail \/ Extracted
  <2>1. files' = files /\ filled' \in Nat
    BY <1>2 DEF Start, Partial, Whole, Copy, Fail, Extracted
  <2>2. at' \notin {"extract", "fill"}
    BY <1>2 DEF Start, Partial, Whole, Copy, Fail, Extracted
  <2> QED
    BY <1>1, <2>1, <2>2
<1>3. CASE Reuse \/ Check
  <2>1. files' = files /\ filled' = filled /\ part' = part /\ (Checked /\ at' = "extract" => Sum(part)) /\ at' # "fill"
    BY <1>3 DEF Reuse, Check
  <2> QED
    BY <1>1, <2>1
<1>4. CASE Publish \/ UNCHANGED download
  <2>1. files' = files /\ filled' = filled /\ part' = part /\ at' = at
    BY <1>4 DEF Publish, download
  <2> QED
    BY <1>1, <2>1
<1>5. CASE OpenFile
  <2>1. files' = [files EXCEPT ![Next1] = Cut] /\ filled' = filled /\ part' = part /\ at = "extract"
    BY <1>5 DEF OpenFile
  <2>2. DOMAIN files' = 1 .. Blocks /\ \A i \in 1 .. Blocks : files'[i] = files[i] \/ files'[i] = Cut
    BY <2>1
  <2>3. Checked => Sum(part)
    BY <2>1
  <2> QED
    BY <2>1, <2>2, <2>3 DEF VerifiedOnly, Sum
<1>6. CASE FillFile
  <2>1. /\ files' = [files EXCEPT ![Next1] = part[1][1]] /\ filled' = Next1 /\ part' = part /\ at = "fill"
        /\ part[Next1] = <<part[1][1], Next1>>
    BY <1>6 DEF FillFile
  <2>2. Checked => Sum(part)
    BY <2>1
  <2>3. filled' \in Nat
    BY <2>1 DEF Next1
  <2>4. DOMAIN files' = 1 .. Blocks /\ \A i \in 1 .. Blocks : files'[i] = files[i] \/ files'[i] = part[1][1]
    BY <2>1
  <2>5. ASSUME Checked, NEW i \in 1 .. Blocks PROVE files'[i] \in {None, Cut, 1}
    <3>1. part = Archive(1) /\ 1 \in 1 .. Blocks
      BY <2>2, <2>5 DEF Sum
    <3>2. part[1][1] = 1
      BY <3>1 DEF Archive
    <3>3. files[i] \in {None, Cut, 1}
      BY <2>5 DEF VerifiedOnly
    <3> QED
      BY <2>4, <3>2, <3>3
  <2>6. VerifiedOnly'
    BY <2>5 DEF VerifiedOnly
  <2> QED
    BY <2>1, <2>2, <2>3, <2>4, <2>6 DEF Sum
<1> QED
  BY <1>2, <1>3, <1>4, <1>5, <1>6 DEF DownloadNext, DownloadStep

LEMMA DownloadStarts == ASSUME Blocks \in Nat, DownloadInit PROVE InOrder /\ Trusted
<1>1. <<>> \in Seq(Pieces) /\ \A n : Placed(<<>>, n)
  BY DEF Placed
<1>2. InOrder
  BY <1>1 DEF DownloadInit, InOrder
<1>3. Trusted
  BY DEF DownloadInit, Trusted, VerifiedOnly
<1> QED
  BY <1>2, <1>3

\* VerifiedOnly, for archives of any length and any number of them: with a checksum,
\* no block of another archive gets into the model's directory, however often
\* a download is cut and continued against another archive (downloadAndExtract).
THEOREM OnlyTheVerifiedIsExtracted ==
    ASSUME Blocks \in Nat PROVE DownloadSpec => []VerifiedOnly
<1>1. DownloadInit => Trusted
  BY DownloadStarts
<1>2. Trusted /\ [DownloadNext]_download => Trusted'
  BY TrustKept
<1>3. Trusted => VerifiedOnly
  BY DEF Trusted
<1> QED
  BY <1>1, <1>2, <1>3, PTL DEF DownloadSpec

\* PartInOrder, for the same: every block of the part file stands at its place
\* (downloadAndExtract, whose range starts where the part file ends).
THEOREM PartStaysInOrder ==
    ASSUME Blocks \in Nat, Versions \in Nat PROVE DownloadSpec => []PartInOrder
<1>1. DownloadInit => InOrder
  BY DownloadStarts
<1>2. InOrder /\ [DownloadNext]_download => InOrder'
  BY PlacesKept
<1>3. InOrder => PartInOrder
  BY DEF InOrder, Placed, PartInOrder
<1> QED
  BY <1>1, <1>2, <1>3, PTL DEF DownloadSpec
=============================================================================
