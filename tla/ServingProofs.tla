---------------------------- MODULE ServingProofs ----------------------------
(***************************************************************************)
(* What a serving process runs.  The HTTP server, the query cache its      *)
(* requests are answered from and the search index behind them: for any    *)
(* number of requests, reloads, listeners, files, texts, processes and     *)
(* failures and at any rate.                                               *)
(*                                                                         *)
(* The watchers that keep the index: no change is lost, for every set of   *)
(* sources and contents, every relation Edits, any limits and any number   *)
(* of changes.  NoChangeLost is not inductive: a stored hash that is right *)
(* may be overwritten by a ProcessFile that hashed an older version.       *)
(* Traced says that such a ProcessFile leaves a change on its way behind   *)
(* it, since its path cannot be handled again meanwhile.                   *)
(***************************************************************************)
EXTENDS HttpServer, QueryCache, SearchIndex, WatchPipeline, FiniteSetTheorems, TLAPS

(* The limiter and the token check *)

\* A bucket was made before it was refilled, and refilled before now; what time
\* brings it has not brought yet, or it has been counted.
Filled(b, t) ==
    /\ b \in Bucket
    /\ b.made <= b.last /\ b.last <= t
    /\ BurstBounded(b)

AllFilled ==
    /\ now \in Nat
    /\ buckets \in [DOMAIN buckets -> Bucket]
    /\ \A g \in DOMAIN buckets : Filled(buckets[g], now)

Request == [at : {"new", "limit", "bucket", "auth", "handler", "done"}, came : Nat, limiter : Nat, passed : Nat]

\* Generations only grow: a request was checked under the one it came in, or
\* under a later one.
Checked ==
    /\ gen \in Nat
    /\ req \in [Requests -> Request]
    /\ \A r \in Requests : req[r].came <= gen
    /\ TokenInForce

Inv == AllFilled /\ Checked

-----------------------------------------------------------------------------
(* The bucket                                                              *)

LEMMA Positive == Rpm \in Nat /\ Minute \in Nat /\ Capacity \in Nat
BY BucketAssumption DEF Capacity

\* Time splits where the bucket was refilled.
LEMMA Elapsed ==
    ASSUME NEW i \in Int, NEW j \in Int, NEW k \in Int, NEW rate \in Int
    PROVE  (k - i) * rate = (k - j) * rate + (j - i) * rate
OBVIOUS

LEMMA FlowsIn == ASSUME NEW i \in Nat, NEW rate \in Nat PROVE i * rate \in Nat
OBVIOUS

\* A refill brings no more than the time since the last one, and fills no more
\* than the bucket.
LEMMA RefillSound ==
    ASSUME NEW b, NEW t \in Nat, Filled(b, t)
    PROVE  /\ Refilled(b, t) \in 0 .. Capacity
           /\ b.admitted * Minute + Refilled(b, t) <= Capacity + (t - b.made) * Rpm
<1>1. /\ b.tokens \in 0 .. Capacity /\ b.last \in Nat /\ b.made \in Nat /\ b.admitted \in Nat
      /\ b.last <= t /\ b.made <= b.last
      /\ b.admitted * Minute + b.tokens <= Capacity + (b.last - b.made) * Rpm
    BY DEF Filled, Bucket, BurstBounded
<1> DEFINE flowed == (t - b.last) * Rpm
           before == (b.last - b.made) * Rpm
           spent == b.admitted * Minute
<1>2. flowed \in Nat /\ before \in Nat /\ spent \in Nat
    <2>1. t - b.last \in Nat /\ b.last - b.made \in Nat
        BY <1>1
    <2> QED
        BY <1>1, <2>1, Positive, FlowsIn
<1>3. (t - b.made) * Rpm = flowed + before
    BY <1>1, Elapsed, Positive
<1>4. spent + b.tokens <= Capacity + before
    BY <1>1
<1>5. Refilled(b, t) = IF b.tokens + flowed > Capacity THEN Capacity ELSE b.tokens + flowed
    BY DEF Refilled
<1>6. Refilled(b, t) \in 0 .. Capacity /\ Refilled(b, t) <= b.tokens + flowed
    <2> HIDE DEF flowed
    <2> QED
        BY <1>1, <1>2, <1>5, Positive
<1>7. spent + Refilled(b, t) <= Capacity + (flowed + before)
    <2> HIDE DEF flowed, before, spent
    <2> QED
        BY <1>1, <1>2, <1>4, <1>6, Positive
<1> QED
    BY <1>3, <1>6, <1>7

\* newTokenBucket
LEMMA FullFills == ASSUME NEW t \in Nat PROVE Filled(Full(t), t)
<1>1. 0 * Minute = 0 /\ (t - t) * Rpm = 0
    BY Positive
<1> QED
    BY <1>1, Positive DEF Filled, Full, Bucket, BurstBounded

\* A request that is let through takes one token of Minute parts; one that is
\* refused leaves what the refill brought.
LEMMA AllowFills == ASSUME NEW b, NEW t \in Nat, Filled(b, t) PROVE Filled(Allow(b, t), t)
<1> DEFINE refilled == Refilled(b, t)
           spent == b.admitted * Minute
           due == (t - b.made) * Rpm
<1>1. refilled \in 0 .. Capacity /\ spent + refilled <= Capacity + due
    BY RefillSound
<1>2. b.last \in Nat /\ b.made \in Nat /\ b.admitted \in Nat /\ b.last <= t /\ b.made <= b.last
    BY DEF Filled, Bucket
<1>3. (b.admitted + 1) * Minute = spent + Minute /\ spent \in Int /\ due \in Int
    BY <1>2, Positive, FlowsIn
<1>4. CASE HasToken(b, t)
    <2>1. Allow(b, t) = [tokens |-> refilled - Minute, last |-> t, made |-> b.made, admitted |-> b.admitted + 1]
        BY <1>4 DEF Allow
    <2>2. refilled >= Minute
        BY <1>4 DEF HasToken
    <2>3. (spent + Minute) + (refilled - Minute) <= Capacity + due /\ refilled - Minute \in 0 .. Capacity
        <3> HIDE DEF refilled, spent, due
        <3> QED
            BY <1>1, <1>3, <2>2, Positive
    <2>4. BurstBounded(Allow(b, t))
        <3> HIDE DEF refilled
        <3> QED
            BY <1>3, <2>1, <2>3 DEF BurstBounded
    <2>5. Allow(b, t) \in Bucket /\ Allow(b, t).made <= Allow(b, t).last /\ Allow(b, t).last <= t
        <3> HIDE DEF refilled
        <3> QED
            BY <1>2, <2>1, <2>3 DEF Bucket
    <2> QED
        BY <2>4, <2>5 DEF Filled
<1>5. CASE ~HasToken(b, t)
    <2>1. Allow(b, t) = [tokens |-> refilled, last |-> t, made |-> b.made, admitted |-> b.admitted]
        BY <1>5 DEF Allow
    <2>2. BurstBounded(Allow(b, t))
        <3> HIDE DEF refilled
        <3> QED
            BY <1>1, <2>1 DEF BurstBounded
    <2>3. Allow(b, t) \in Bucket /\ Allow(b, t).made <= Allow(b, t).last /\ Allow(b, t).last <= t
        <3> HIDE DEF refilled
        <3> QED
            BY <1>1, <1>2, <2>1 DEF Bucket
    <2> QED
        BY <2>2, <2>3 DEF Filled
<1> QED
    BY <1>4, <1>5

\* The clock goes on, and no bucket changes.
LEMMA TimeFills == ASSUME AllFilled, UNCHANGED buckets, now' \in Nat, now <= now' PROVE AllFilled'
<1>1. ASSUME NEW g \in DOMAIN buckets PROVE Filled(buckets[g], now')
    <2>1. Filled(buckets[g], now) /\ buckets[g].last \in Nat /\ now \in Nat
        BY DEF AllFilled, Filled, Bucket
    <2> QED
        BY <2>1 DEF Filled
<1> QED
    BY <1>1 DEF AllFilled

-----------------------------------------------------------------------------
(* One step                                                                *)

\* What touches neither buckets nor requests.
LEMMA Elsewhere == ASSUME Inv, UNCHANGED <<buckets, gen, req, now>> PROVE Inv'
<1>1. AllFilled'
    BY TimeFills DEF Inv, AllFilled
<1>2. Checked'
    BY DEF Inv, Checked, TokenInForce
<1> QED
    BY <1>1, <1>2 DEF Inv

LEMMA InitInv == ASSUME Init PROVE Inv
<1>1. buckets = <<>> /\ DOMAIN buckets = {} /\ now = 0
    BY DEF Init
<1>2. buckets \in [DOMAIN buckets -> Bucket]
    BY <1>1
<1>3. AllFilled
    BY <1>1, <1>2 DEF AllFilled
<1>4. Checked
    BY DEF Init, Checked, TokenInForce, Request, NewRequest
<1> QED
    BY <1>3, <1>4 DEF Inv

\* A reload makes a new generation, and a full bucket for it perhaps.
LEMMA StoreRuntimeInv == ASSUME Inv, NEW to, StoreRuntime(to) PROVE Inv'
<1>1. gen' = gen + 1 /\ req' = req /\ now' = now /\ now \in Nat
    BY DEF StoreRuntime, Inv, AllFilled
<1>2. ASSUME UNCHANGED buckets PROVE AllFilled'
    BY <1>1, <1>2, TimeFills DEF Inv, AllFilled
<1>3. ASSUME buckets' = [g \in DOMAIN buckets \cup {gen'} |-> IF g = gen' THEN Full(now) ELSE buckets[g]]
      PROVE  AllFilled'
    <2>1. DOMAIN buckets' = DOMAIN buckets \cup {gen'}
        BY <1>3
    <2>2. \A g \in DOMAIN buckets' : Filled(buckets'[g], now)
        BY <1>1, <1>3, <2>1, FullFills DEF Inv, AllFilled
    <2>3. \A g \in DOMAIN buckets' : buckets'[g] \in Bucket
        BY <2>2 DEF Filled
    <2>4. buckets' \in [DOMAIN buckets' -> Bucket]
        BY <1>3, <2>1, <2>3
    <2> QED
        BY <1>1, <2>2, <2>4 DEF AllFilled
<1>4. AllFilled'
    BY <1>2, <1>3 DEF StoreRuntime
<1>5. Checked'
    BY <1>1 DEF Inv, Checked, TokenInForce, Request
<1> QED
    BY <1>4, <1>5 DEF Inv

LEMMA TickInv == ASSUME Inv, Tick PROVE Inv'
<1>1. now' = now + 1 /\ UNCHANGED <<buckets, gen, req>>
    BY DEF Tick
<1>2. AllFilled'
    BY <1>1, TimeFills DEF Inv, AllFilled
<1>3. Checked'
    BY <1>1 DEF Inv, Checked, TokenInForce, Request
<1> QED
    BY <1>2, <1>3 DEF Inv

\* Wherever a request is, it came in this generation or before it, and if it is
\* in its handler it was checked no earlier than it came.
LEMMA RequestMoves ==
    ASSUME Checked, gen' = gen, NEW r \in Requests, NEW new \in Request, req' = [req EXCEPT ![r] = new],
           new.came <= gen, new.at = "handler" => new.passed >= new.came
    PROVE  Checked'
<1>1. req' \in [Requests -> Request] /\ req'[r] = new /\ \A q \in Requests \ {r} : req'[q] = req[q]
    BY DEF Checked
<1> QED
    BY <1>1 DEF Checked, TokenInForce

\* A request moves on; the token check notes the generation it was made under.
LEMMA RequestInv ==
    ASSUME Inv, NEW r \in Requests,
           Arrive(r) \/ LoadLimiter(r) \/ RateLimit(r) \/ Authenticate(r) \/ Respond(r)
    PROVE  Inv'
<1>1. UNCHANGED <<gen, now>>
    BY DEF Arrive, LoadLimiter, RateLimit, Authenticate, Respond, UnchangedByRequests
<1>2. AllFilled'
    <2>1. CASE UNCHANGED buckets
        BY <1>1, <2>1, TimeFills DEF Inv, AllFilled
    <2>2. CASE RateLimit(r)
        <3> DEFINE g == req[r].limiter
        <3>1. buckets' = [buckets EXCEPT ![g] = Allow(buckets[g], now)] /\ now \in Nat
            BY <2>2 DEF RateLimit, Inv, AllFilled
        <3>2. DOMAIN buckets' = DOMAIN buckets
            BY <3>1
        <3>3. ASSUME NEW h \in DOMAIN buckets PROVE Filled(buckets'[h], now)
            <4>1. Filled(buckets[h], now)
                BY DEF Inv, AllFilled
            <4>2. buckets'[h] = IF h = g THEN Allow(buckets[h], now) ELSE buckets[h]
                BY <3>1 DEF Inv, AllFilled
            <4> QED
                BY <3>1, <4>1, <4>2, AllowFills
        <3>4. \A h \in DOMAIN buckets : buckets'[h] \in Bucket
            BY <3>3 DEF Filled
        <3>5. buckets' \in [DOMAIN buckets' -> Bucket]
            BY <3>1, <3>2, <3>4 DEF Inv, AllFilled
        <3> QED
            BY <1>1, <3>1, <3>2, <3>3, <3>5 DEF AllFilled
    <2> QED
        BY <2>1, <2>2 DEF Arrive, LoadLimiter, Authenticate, Respond
<1>3. Checked'
    <2>1. /\ req \in [Requests -> Request] /\ req[r] \in Request /\ gen \in Nat /\ req[r].came <= gen
          /\ gen' = gen /\ Checked
        BY <1>1 DEF Inv, Checked
    <2>2. CASE Arrive(r)
        <3> DEFINE new == [req[r] EXCEPT !.at = "limit", !.came = gen]
        <3>1. new \in Request /\ new.at = "limit" /\ new.came = gen
            BY <2>1 DEF Request
        <3>2. req' = [req EXCEPT ![r] = new]
            BY <2>2 DEF Arrive
        <3>3. new.came <= gen /\ new.at # "handler"
            BY <2>1, <3>1
        <3> HIDE DEF new
        <3> QED
            BY <2>1, <3>1, <3>2, <3>3, RequestMoves
    <2>3. CASE LoadLimiter(r)
        <3> DEFINE new == IF gen \in DOMAIN buckets THEN [req[r] EXCEPT !.at = "bucket", !.limiter = gen]
                          ELSE [req[r] EXCEPT !.at = "auth"]
        <3>1. new \in Request /\ new.at # "handler" /\ new.came = req[r].came
            BY <2>1 DEF Request
        <3>2. req' = [req EXCEPT ![r] = new]
            BY <2>3 DEF LoadLimiter
        <3> QED
            BY <2>1, <3>1, <3>2, RequestMoves
    <2>4. Over \in Request /\ Over.came = 0 /\ Over.at = "done" /\ 0 <= gen
        BY <2>1 DEF Over, NewRequest, Request
    <2>5. CASE req' = [req EXCEPT ![r] = Over]
        BY <2>1, <2>4, <2>5, RequestMoves
    <2>6. CASE RateLimit(r)
        <3> DEFINE new == IF HasToken(buckets[req[r].limiter], now) THEN [req[r] EXCEPT !.at = "auth"] ELSE Over
        <3>1. new \in Request /\ new.at # "handler" /\ new.came <= gen
            BY <2>1, <2>4 DEF Request
        <3>2. req' = [req EXCEPT ![r] = new]
            BY <2>6 DEF RateLimit
        <3> QED
            BY <2>1, <3>1, <3>2, RequestMoves
    <2>7. CASE Authenticate(r)
        <3> DEFINE new == [req[r] EXCEPT !.at = "handler", !.passed = gen]
        <3>1. new \in Request /\ new.passed = gen /\ new.came = req[r].came
            BY <2>1 DEF Request
        <3>2. CASE req' = [req EXCEPT ![r] = new]
            BY <2>1, <3>1, <3>2, RequestMoves
        <3> QED
            BY <2>5, <2>7, <3>2 DEF Authenticate
    <2>8. CASE Respond(r)
        BY <2>5, <2>8 DEF Respond
    <2> QED
        BY <2>2, <2>3, <2>6, <2>7, <2>8
<1> QED
    BY <1>2, <1>3 DEF Inv

LEMMA StepInv == ASSUME Inv, [Next]_vars PROVE Inv'
<1>1. CASE \E to \in Addrs \cup {Nobody} : StoreRuntime(to)
    BY <1>1, StoreRuntimeInv
<1>2. CASE Tick
    BY <1>2, TickInv
<1>3. CASE \E r \in Requests : Arrive(r) \/ LoadLimiter(r) \/ RateLimit(r) \/ Authenticate(r) \/ Respond(r)
    BY <1>3, RequestInv
<1>4. CASE Start \/ Compare \/ Cancel \/ Stop \/ StartReturns
    <2>1. UNCHANGED <<buckets, gen, req, now>>
        BY <1>4 DEF Start, Compare, Cancel, Stop, StartReturns
    <2> QED
        BY <2>1, Elsewhere
<1>5. CASE \E a \in Actors : Rebind(a)
    <2>1. UNCHANGED <<buckets, gen, req, now>>
        BY <1>5 DEF Rebind, Listen, Swap, CloseOld
    <2> QED
        BY <2>1, Elsewhere
<1>6. CASE \E i \in ListenerIds : Goroutine(i) \/ Break(i)
    <2>1. UNCHANGED <<buckets, gen, req, now>>
        BY <1>6 DEF Goroutine, Serve, ServeReturns, CheckCurrent, SendError, Break
    <2> QED
        BY <2>1, Elsewhere
<1>7. CASE UNCHANGED vars
    <2>1. UNCHANGED <<buckets, gen, req, now>>
        BY <1>7 DEF vars
    <2> QED
        BY <2>1, Elsewhere
<1> QED
    BY <1>1, <1>2, <1>3, <1>4, <1>5, <1>6, <1>7 DEF Next

-----------------------------------------------------------------------------

\* No limiter lets more requests pass (tokenBucket.allow) than its burst and the
\* time since it was made allow, also when a reload has replaced it, and none that
\* came after a reload is let in by an older token, for any rate, any number of
\* requests, reloads and listeners.
THEOREM AdmissionHolds == Spec => []Admission
<1>1. Init => Inv
    BY InitInv
<1>2. Inv /\ [Next]_vars => Inv'
    BY StepInv
<1>3. Inv => Admission
    BY DEF Inv, AllFilled, Filled, Checked, Admission
<1> QED
    BY <1>1, <1>2, <1>3, PTL DEF Spec

-----------------------------------------------------------------------------
(* Start and the reloads *)

\* A listener an actor has bound and not yet put in place, or has replaced and
\* not yet closed.
InHand(a, i) ==
    \/ act[a].at = "swap" /\ act[a].new = i
    \/ act[a].at = "close" /\ act[a].old = i

Bound(i) == conn[i].addr # Nobody

\* An open listener is the current one or in the hands of one of the actors:
\* not yet put in place, or replaced and about to be closed.
Held ==
    /\ ln \in ListenerIds => Bound(ln)
    /\ \A a \in Actors :
          /\ act[a].at = "swap" =>
                /\ act[a].new \in ListenerIds /\ act[a].new # ln
                /\ conn[act[a].new] = [addr |-> act[a].to, open |-> TRUE, at |-> "none"]
          /\ act[a].at = "close" => act[a].old # ln /\ (act[a].old \in ListenerIds => Bound(act[a].old))
          /\ act[a].at \in {"listen", "swap", "close"} => act[a].to \in Addrs
    /\ \A i \in ListenerIds : \A a, b \in Actors : InHand(a, i) /\ InHand(b, i) => a = b
    /\ \A i \in ListenerIds : conn[i].open => i = ln \/ \E a \in Actors : InHand(a, i)

\* How far Start has come, and what that says of the server and of updates.
Phases ==
    /\ act["start"].at = "idle" <=> server = "none"
    /\ server = "none" => ln = Nobody /\ act["update"].at \in {"idle", "compare"}
    /\ act["start"].at \in {"close", "wait", "shut"} => ln \in ListenerIds
    /\ Binding \/ act["start"].at = "wait" => server = "open"
    /\ act["start"].at # "compare"
    /\ act["update"].at \notin {"wait", "shut", "failed", "done"}

\* The current listener is closed, and its error counts, only if it broke or
\* the server was shut down.
Errors ==
    /\ ln \in ListenerIds /\ ~conn[ln].open => breaks > 0 \/ server = "down"
    /\ breaks = 0 =>
          /\ ln \in ListenerIds => conn[ln].at # "failed"
          /\ \A i \in ListenerIds : conn[i].at # "current"
    /\ ErrorsAreReal

\* Unless an update met Start, the current listener is where h.addr says, or
\* where the update that has just put it in place is about to note.
Noted ==
    ~raced =>
        /\ Binding => act["update"].at \in {"idle", "compare"} /\ act["start"].to = addr
        /\ ln \in ListenerIds => conn[ln].addr = IF act["update"].at = "close" THEN act["update"].to ELSE addr

LInv == TypeOK /\ Held /\ Phases /\ Errors /\ Noted

Conn == [addr : Addrs \cup {Nobody}, open : BOOLEAN,
         at : {"none", "spawned", "serving", "failed", "current", "done"}]
Act == [at : {"idle", "compare", "listen", "swap", "close", "wait", "shut", "failed", "done"},
        to : Addrs \cup {Nobody}, new : ListenerIds \cup {Nobody}, old : ListenerIds \cup {Nobody}]

LEMMA NotAListener == Nobody \notin ListenerIds
  BY HttpServerAssumption DEF ListenerIds

LEMMA Typed ==
    ASSUME TypeOK
    PROVE  /\ conn \in [ListenerIds -> Conn] /\ act \in [Actors -> Act] /\ breaks \in Nat
           /\ addr \in Addrs /\ ln \in ListenerIds \cup {Nobody}
  BY DEF TypeOK, Conn, Act

\* What touches neither listeners nor actors.
LEMMA ListenersElsewhere ==
    ASSUME LInv, TypeOK', UNCHANGED <<server, addr, ln, conn, act, errCh, breaks, raced>>
    PROVE  LInv'
<1>1. Held'
  BY DEF LInv, Held, InHand, Bound
<1>2. Phases' /\ Errors' /\ Noted'
  BY DEF LInv, Phases, Errors, ErrorsAreReal, Noted, Binding
<1> QED
  BY <1>1, <1>2 DEF LInv

LEMMA ListenersInit == Init => LInv
<1> SUFFICES ASSUME Init PROVE LInv
  OBVIOUS
<1>1. 0 \in 0 .. MaxUpdates /\ 0 \in 0 .. MaxTime /\ 0 \in 0 .. MaxBreaks
  BY HttpServerAssumption
<1>2. DOMAIN buckets = {}
  BY DEF Init
<1>3. Nobody \notin ListenerIds
  BY NotAListener
<1>4. /\ conn \in [ListenerIds -> Conn] /\ act \in [Actors -> Act]
      /\ \A i \in ListenerIds : conn[i].open = FALSE /\ conn[i].at = "none"
      /\ \A a \in Actors : act[a].at = "idle"
  BY DEF Init, NoConn, Resting, Conn, Act
<1>5. TypeOK
  BY <1>1, <1>2, <1>4, HttpServerAssumption DEF Init, TypeOK, Conn, Act, NewRequest
<1>6. Held
  BY <1>3, <1>4 DEF Init, Held, InHand
<1>7. Phases /\ Errors /\ Noted
  BY <1>3, <1>4 DEF Init, Phases, Errors, ErrorsAreReal, Noted, Binding, Actors
<1> QED
  BY <1>5, <1>6, <1>7 DEF LInv

\* Start takes the address as it is: no update is past its comparison.
LEMMA StartListeners ==
    ASSUME LInv, Start PROVE LInv'
<1> DEFINE new == [Resting EXCEPT !.at = "listen", !.to = addr]
<1>1. /\ act' = [act EXCEPT !["start"] = new] /\ act["start"].at = "idle" /\ server = "none" /\ server' = "open"
      /\ raced' = (raced \/ act["update"].at = "compare")
      /\ UNCHANGED <<addr, ln, conn, errCh, stopping, gen, buckets, req, now, breaks>>
  BY DEF Start
<1>2. new \in Act /\ new.at = "listen" /\ new.to = addr
  BY Typed DEF LInv, Act, Resting
<1>3. act' \in [Actors -> Act] /\ act'["start"] = new /\ act'["update"] = act["update"]
  BY <1>1, <1>2, Typed DEF LInv, Actors
<1>4. ln = Nobody /\ Nobody \notin ListenerIds /\ act["update"].at \in {"idle", "compare"}
  BY <1>1, NotAListener DEF LInv, Phases
<1>5. TypeOK'
  BY <1>1, <1>3 DEF LInv, TypeOK, Act, Bucket, Capacity
<1>6. Held'
  BY <1>1, <1>2, <1>3, <1>4, Typed DEF LInv, Held, InHand, Bound, Actors
<1>7. Phases'
  BY <1>1, <1>2, <1>3, <1>4 DEF Phases, Binding, LInv
<1>8. Errors' /\ Noted'
  BY <1>1, <1>2, <1>3, <1>4 DEF LInv, Errors, ErrorsAreReal, Noted, Binding
<1> QED
  BY <1>5, <1>6, <1>7, <1>8 DEF LInv

\* A new generation: the update comes to its comparison.
LEMMA StoreRuntimeListeners ==
    ASSUME LInv, NEW to \in Addrs \cup {Nobody}, StoreRuntime(to), AllFilled' PROVE LInv'
<1> DEFINE new == [Resting EXCEPT !.at = "compare", !.to = to]
<1>1. /\ act' = [act EXCEPT !["update"] = new] /\ act["update"].at = "idle"
      /\ gen' = gen + 1 /\ gen < MaxUpdates /\ DOMAIN buckets' \subseteq DOMAIN buckets \cup {gen'}
      /\ UNCHANGED <<server, addr, ln, conn, errCh, stopping, req, now, breaks, raced>>
  BY DEF StoreRuntime
<1>2. new \in Act /\ new.at = "compare"
  BY DEF Act, Resting
<1>3. act' \in [Actors -> Act] /\ act'["update"] = new /\ act'["start"] = act["start"]
  BY <1>1, <1>2, Typed DEF LInv, Actors
<1>4. gen' \in 1 .. MaxUpdates /\ gen' \in 0 .. MaxUpdates
  BY <1>1, HttpServerAssumption DEF LInv, TypeOK
<1>5. TypeOK'
  <2>1. DOMAIN buckets' \subseteq 1 .. MaxUpdates /\ \A g \in DOMAIN buckets' : buckets'[g] \in Bucket
    BY <1>1, <1>4 DEF LInv, TypeOK, AllFilled, Filled, Bucket, Capacity
  <2> QED
    BY <1>1, <1>3, <1>4, <2>1 DEF LInv, TypeOK, Act, Bucket, Capacity
<1>6. Held'
  BY <1>1, <1>2, <1>3 DEF LInv, Held, InHand, Bound, Actors
<1>7. Phases'
  BY <1>1, <1>2, <1>3 DEF Phases, Binding, LInv
<1>8. Errors' /\ Noted'
  BY <1>1, <1>2, <1>3 DEF LInv, Errors, ErrorsAreReal, Noted, Binding
<1> QED
  BY <1>5, <1>6, <1>7, <1>8 DEF LInv

\* An update that goes on to bind has met a server, and no Start unless raced
\* says so.
LEMMA CompareListeners ==
    ASSUME LInv, Compare PROVE LInv'
<1> DEFINE to == act["update"].to
           same == to = Nobody \/ to = addr
           new == IF same \/ server = "none" THEN Resting ELSE [act["update"] EXCEPT !.at = "listen"]
<1>1. /\ act' = [act EXCEPT !["update"] = new] /\ act["update"].at = "compare"
      /\ addr' = IF ~same /\ server = "none" THEN to ELSE addr
      /\ raced' = (raced \/ Binding)
      /\ UNCHANGED <<server, ln, conn, errCh, stopping, gen, buckets, req, now, breaks>>
  BY DEF Compare
<1>2. act["update"] \in Act /\ act["start"] \in Act
  BY Typed DEF LInv, Actors
<1>3. /\ new \in Act /\ new.at \in {"idle", "listen"}
      /\ new.at = "listen" => new.to \in Addrs /\ server # "none"
  BY <1>2 DEF Act, Resting
<1>4. act' \in [Actors -> Act] /\ act'["update"] = new /\ act'["start"] = act["start"]
  BY <1>1, <1>3, Typed DEF LInv, Actors
<1>5. addr' \in Addrs /\ (server # "none" => addr' = addr)
  BY <1>1, <1>2, Typed DEF LInv, Act
<1> HIDE DEF new
<1>6. TypeOK'
  BY <1>1, <1>4, <1>5 DEF LInv, TypeOK, Act, Bucket, Capacity
<1>7. Held'
  BY <1>1, <1>3, <1>4 DEF LInv, Held, InHand, Bound, Actors
<1>8. Phases'
  BY <1>1, <1>3, <1>4 DEF Phases, Binding, LInv
<1>9. Errors'
  BY <1>1 DEF LInv, Errors, ErrorsAreReal
<1>10. Noted'
  BY <1>1, <1>3, <1>4, <1>5, NotAListener DEF LInv, Noted, Binding, Phases
<1> QED
  BY <1>6, <1>7, <1>8, <1>9, <1>10 DEF LInv

\* A new listener is in the hands of the one that bound it.
LEMMA ListenListeners ==
    ASSUME LInv, NEW a \in Actors, Listen(a) PROVE LInv'
<1>1. /\ act[a].at = "listen"
      /\ UNCHANGED <<server, addr, ln, errCh, stopping, gen, buckets, req, now, breaks, raced>>
  BY DEF Listen
<1>2. /\ act \in [Actors -> Act] /\ conn \in [ListenerIds -> Conn] /\ act[a] \in Act /\ act[a].to \in Addrs
  BY <1>1, Typed DEF LInv, Held
<1>3. ASSUME NEW i \in Fresh,
             conn' = [conn EXCEPT ![i] = [addr |-> act[a].to, open |-> TRUE, at |-> "none"]],
             act' = [act EXCEPT ![a].at = "swap", ![a].new = i]
      PROVE  LInv'
  <2>1. i \in ListenerIds /\ conn[i] = NoConn /\ ~Bound(i)
    BY <1>3 DEF Fresh, Bound, NoConn
  <2> DEFINE moved == [act EXCEPT ![a].at = "swap"]
  <2>2. /\ moved \in [Actors -> Act] /\ moved[a] = [act[a] EXCEPT !.at = "swap"]
        /\ \A b \in Actors \ {a} : moved[b] = act[b]
    BY <1>2 DEF Act
  <2>3. act' = [moved EXCEPT ![a].new = i]
    BY <1>2, <1>3
  <2>4. /\ act' \in [Actors -> Act] /\ act'[a] = [moved[a] EXCEPT !.new = i]
        /\ \A b \in Actors \ {a} : act'[b] = act[b]
    <3> HIDE DEF moved
    <3> QED
      BY <2>1, <2>2, <2>3 DEF Act
  <2>5. act'[a].at = "swap" /\ act'[a].new = i /\ act'[a].to = act[a].to
    BY <2>1, <2>2, <2>4, <1>2 DEF Act
  <2> HIDE DEF moved
  <2>6. /\ conn' \in [ListenerIds -> Conn] /\ conn'[i] = [addr |-> act[a].to, open |-> TRUE, at |-> "none"]
        /\ \A j \in ListenerIds \ {i} : conn'[j] = conn[j]
    BY <1>2, <1>3, <2>1 DEF Conn
  <2>7. TypeOK'
    BY <1>1, <2>4, <2>6 DEF LInv, TypeOK, Act, Conn, Bucket, Capacity
  <2>8. i # ln /\ \A b \in Actors : ~InHand(b, i)
    <3>1. i # ln
      BY <2>1 DEF LInv, Held
    <3>2. ASSUME NEW b \in Actors, act[b].at = "swap", act[b].new = i PROVE FALSE
      <4>1. conn[i] = [addr |-> act[b].to, open |-> TRUE, at |-> "none"]
        BY <3>2 DEF LInv, Held
      <4>2. conn[i].open
        BY <4>1
      <4>3. ~conn[i].open
        BY <2>1 DEF NoConn
      <4> QED
        BY <4>2, <4>3
    <3>3. ASSUME NEW b \in Actors, act[b].at = "close", act[b].old = i PROVE FALSE
      BY <2>1, <3>3 DEF LInv, Held
    <3> QED
      BY <3>1, <3>2, <3>3 DEF InHand
  <2>9. Held'
    <3>1. \A b \in Actors, j \in ListenerIds : InHand(b, j)' <=> IF b = a THEN j = i ELSE InHand(b, j)
      BY <2>4, <2>5 DEF InHand
    <3>2. \A j \in ListenerIds : conn[j].addr # Nobody => conn'[j].addr # Nobody
      BY <2>1, <2>6 DEF Bound
    <3>3. (ln \in ListenerIds => Bound(ln))'
      BY <1>1, <3>2 DEF LInv, Held, Bound
    <3>4. \A b \in Actors :
             /\ act'[b].at = "swap" =>
                   /\ act'[b].new \in ListenerIds /\ act'[b].new # ln
                   /\ conn'[act'[b].new] = [addr |-> act'[b].to, open |-> TRUE, at |-> "none"]
             /\ act'[b].at = "close" => act'[b].old # ln /\ (act'[b].old \in ListenerIds => conn'[act'[b].old].addr # Nobody)
             /\ act'[b].at \in {"listen", "swap", "close"} => act'[b].to \in Addrs
      <4> TAKE b \in Actors
      <4>1. CASE b = a
        BY <1>2, <2>1, <2>5, <2>6, <2>8, <4>1
      <4>2. CASE b # a
        <5>1. act'[b] = act[b]
          BY <2>4, <4>2
        <5>2. act[b].at = "swap" =>
                 /\ act[b].new \in ListenerIds /\ act[b].new # i /\ act[b].new # ln
                 /\ conn[act[b].new] = [addr |-> act[b].to, open |-> TRUE, at |-> "none"]
          BY <2>8 DEF LInv, Held, InHand
        <5>3. act[b].at = "swap" => conn'[act[b].new] = conn[act[b].new]
          BY <5>2, <2>6
        <5>4. act[b].at = "close" => act[b].old # ln /\ (act[b].old \in ListenerIds => conn'[act[b].old].addr # Nobody)
          BY <3>2 DEF LInv, Held, Bound
        <5>5. act[b].at \in {"listen", "swap", "close"} => act[b].to \in Addrs
          BY DEF LInv, Held
        <5> QED
          BY <5>1, <5>2, <5>3, <5>4, <5>5
      <4> QED
        BY <4>1, <4>2
    <3>5. \A j \in ListenerIds : \A b, c \in Actors : InHand(b, j)' /\ InHand(c, j)' => b = c
      BY <2>8, <3>1 DEF LInv, Held
    <3>6. \A j \in ListenerIds : conn'[j].open => j = ln \/ \E b \in Actors : InHand(b, j)'
      <4> TAKE j \in ListenerIds
      <4>1. CASE j = i
        BY <3>1, <4>1
      <4>2. CASE j # i
        <5>1. ~InHand(a, j)
          BY <1>1 DEF InHand
        <5> QED
          BY <2>6, <3>1, <4>2, <5>1 DEF LInv, Held
      <4> QED
        BY <4>1, <4>2
    <3>7. ln' = ln
      BY <1>1
    <3> QED
      BY <3>3, <3>4, <3>5, <3>6, <3>7 DEF Held, Bound
  <2>10. Phases'
    BY <1>1, <2>4, <2>5 DEF LInv, Phases, Binding, Actors
  <2>11. Errors'
    <3>1. \A j \in ListenerIds : conn'[j].at = "current" => conn[j].at = "current"
      BY <2>6
    <3>2. ln \in ListenerIds => conn'[ln] = conn[ln]
      BY <2>6, <2>8
    <3> QED
      BY <1>1, <3>1, <3>2 DEF LInv, Errors, ErrorsAreReal
  <2>12. Noted'
    <3>1. ln \in ListenerIds => conn'[ln] = conn[ln]
      BY <2>6, <2>8
    <3>2. Binding' <=> Binding
      BY <1>1, <2>4, <2>5 DEF Binding, Actors
    <3>3. act'["start"].to = act["start"].to
      BY <2>4, <2>5 DEF Actors
    <3>4. act'["update"].to = act["update"].to /\ (act'["update"].at = "close" <=> act["update"].at = "close")
      BY <1>1, <2>4, <2>5 DEF Actors
    <3>5. Binding' => (act'["update"].at \in {"idle", "compare"} <=> act["update"].at \in {"idle", "compare"})
      BY <1>1, <2>4, <2>5 DEF Actors
    <3> QED
      BY <1>1, <3>1, <3>2, <3>3, <3>4, <3>5 DEF LInv, Noted
  <2> QED
    BY <2>7, <2>9, <2>10, <2>11, <2>12 DEF LInv
<1>4. ASSUME act' = [act EXCEPT ![a] = IF a = "start" THEN [Resting EXCEPT !.at = "failed"] ELSE Resting],
             UNCHANGED conn
      PROVE  LInv'
  <2> DEFINE new == IF a = "start" THEN [Resting EXCEPT !.at = "failed"] ELSE Resting
  <2>1. new \in Act /\ new.at = (IF a = "start" THEN "failed" ELSE "idle")
    BY DEF Resting, Act
  <2>2. act' \in [Actors -> Act] /\ act'[a] = new /\ \A b \in Actors \ {a} : act'[b] = act[b]
    BY <1>2, <1>4, <2>1
  <2> HIDE DEF new
  <2>3. TypeOK'
    BY <1>1, <1>4, <2>2 DEF LInv, TypeOK, Act, Bucket, Capacity
  <2>4. Held'
    <3>1. \A b \in Actors : act'[b].at \in {"listen", "swap", "close"} => act'[b] = act[b]
      BY <2>1, <2>2
    <3>2. \A b \in Actors, j \in ListenerIds : InHand(b, j)' <=> InHand(b, j)
      BY <1>1, <2>1, <2>2 DEF InHand
    <3> QED
      BY <1>1, <1>4, <3>1, <3>2 DEF LInv, Held, Bound
  <2>5. Phases'
    BY <1>1, <2>1, <2>2 DEF LInv, Phases, Binding, Actors
  <2>6. Errors' /\ Noted'
    BY <1>1, <1>4, <2>1, <2>2 DEF LInv, Errors, ErrorsAreReal, Noted, Binding, Actors
  <2> QED
    BY <2>3, <2>4, <2>5, <2>6 DEF LInv
<1> QED
  BY <1>3, <1>4 DEF Listen
\* What changes one actor, whatever it becomes.
LEMMA ActorMoves ==
    ASSUME act \in [Actors -> Act], NEW a \in Actors, NEW new \in Act, act' = [act EXCEPT ![a] = new]
    PROVE  /\ act' \in [Actors -> Act] /\ act'[a] = new
           /\ \A b \in Actors \ {a} : act'[b] = act[b]
OBVIOUS

LEMMA SwapListeners ==
    ASSUME LInv, NEW a \in Actors, Swap(a) PROVE LInv'
<1> DEFINE n == act[a].new
           new == [act[a] EXCEPT !.at = "close", !.old = ln]
<1>1. /\ act[a].at = "swap" /\ ln' = n /\ conn' = [conn EXCEPT ![n].at = "spawned"]
      /\ act' = [act EXCEPT ![a].at = "close", ![a].old = ln]
      /\ UNCHANGED <<server, addr, errCh, stopping, gen, buckets, req, now, breaks, raced>>
  BY DEF Swap
<1>2. /\ act \in [Actors -> Act] /\ conn \in [ListenerIds -> Conn] /\ act[a] \in Act /\ ln \in ListenerIds \cup {Nobody}
      /\ n \in ListenerIds /\ n # ln /\ act[a].to \in Addrs
      /\ conn[n] = [addr |-> act[a].to, open |-> TRUE, at |-> "none"]
  BY <1>1, Typed DEF LInv, Held
<1>3. new \in Act /\ new.at = "close" /\ new.old = ln /\ new.to = act[a].to /\ new.new = n
  BY <1>2 DEF Act
<1>4. act' = [act EXCEPT ![a] = new]
  <2> DEFINE moved == [act EXCEPT ![a].at = "close"]
  <2>1. moved \in [Actors -> Act] /\ moved[a] = [act[a] EXCEPT !.at = "close"]
        /\ \A b \in Actors \ {a} : moved[b] = act[b]
    BY <1>2 DEF Act
  <2>2. act' = [moved EXCEPT ![a].old = ln]
    BY <1>1, <1>2
  <2> HIDE DEF moved
  <2>3. [moved[a] EXCEPT !.old = ln] = new
    BY <1>2, <2>1 DEF Act
  <2>4. act' = [moved EXCEPT ![a] = new]
    BY <2>1, <2>2, <2>3
  <2> HIDE DEF new
  <2> QED
    BY <1>2, <2>1, <2>4
<1>5. /\ act' \in [Actors -> Act] /\ act'[a] = new
      /\ \A b \in Actors \ {a} : act'[b] = act[b]
  <2> HIDE DEF new
  <2> QED
    BY <1>2, <1>3, <1>4, ActorMoves
<1>6. /\ conn' \in [ListenerIds -> Conn]
      /\ conn'[n].addr = act[a].to /\ conn'[n].open = TRUE /\ conn'[n].at = "spawned"
      /\ \A j \in ListenerIds \ {n} : conn'[j] = conn[j]
  <2> HIDE DEF n
  <2>1. conn[n] \in Conn
    BY <1>2
  <2>2. conn[n].addr = act[a].to
    BY <1>2
  <2>3. conn[n].open = TRUE
    BY <1>2
  <2>4. conn' = [conn EXCEPT ![n] = [conn[n] EXCEPT !.at = "spawned"]]
    BY <1>1, <1>2
  <2>5. ASSUME NEW c \in Conn PROVE /\ [c EXCEPT !.at = "spawned"] \in Conn
                                    /\ [c EXCEPT !.at = "spawned"].addr = c.addr
                                    /\ [c EXCEPT !.at = "spawned"].open = c.open
                                    /\ [c EXCEPT !.at = "spawned"].at = "spawned"
    BY DEF Conn
  <2> QED
    BY <1>2, <2>1, <2>2, <2>3, <2>4, <2>5
<1> HIDE DEF new
<1>7. TypeOK'
  BY <1>1, <1>2, <1>5, <1>6 DEF LInv, TypeOK, Act, Conn, Bucket, Capacity
<1>8. InHand(a, n) /\ \A b \in Actors \ {a} : ~InHand(b, n)
  BY <1>1, <1>2 DEF LInv, Held, InHand
<1>9. ~InHand(a, ln) /\ \A b \in Actors : ln \in ListenerIds => ~InHand(b, ln)
  BY <1>1, <1>2 DEF LInv, Held, InHand
<1>10. \A b \in Actors, j \in ListenerIds : InHand(b, j)' <=> IF b = a THEN j = ln ELSE InHand(b, j)
  BY <1>3, <1>5 DEF InHand
<1>11. \A j \in ListenerIds : conn[j].addr # Nobody => conn'[j].addr # Nobody
  BY <1>2, <1>6
<1>12. Held'
  <2>1. ln' \in ListenerIds => conn'[ln'].addr # Nobody
    BY <1>1, <1>2, <1>6, HttpServerAssumption
  <2>2. \A b \in Actors :
           /\ act'[b].at = "swap" =>
                 /\ act'[b].new \in ListenerIds /\ act'[b].new # ln'
                 /\ conn'[act'[b].new] = [addr |-> act'[b].to, open |-> TRUE, at |-> "none"]
           /\ act'[b].at = "close" => act'[b].old # ln' /\ (act'[b].old \in ListenerIds => conn'[act'[b].old].addr # Nobody)
           /\ act'[b].at \in {"listen", "swap", "close"} => act'[b].to \in Addrs
    <3> TAKE b \in Actors
    <3>1. CASE b = a
      <4>1. ln \in ListenerIds => conn'[ln].addr # Nobody
        BY <1>11 DEF LInv, Held, Bound
      <4> QED
        BY <1>1, <1>2, <1>3, <1>5, <3>1, <4>1
    <3>2. CASE b # a
      <4>1. act'[b] = act[b]
        BY <1>5, <3>2
      <4>2. act[b].at = "swap" =>
               /\ act[b].new \in ListenerIds /\ act[b].new # n
               /\ conn[act[b].new] = [addr |-> act[b].to, open |-> TRUE, at |-> "none"]
        BY <1>8, <3>2 DEF LInv, Held, InHand
      <4>3. act[b].at = "swap" => conn'[act[b].new] = conn[act[b].new]
        BY <4>2, <1>6
      <4>4. act[b].at = "close" => act[b].old # n
        BY <1>8, <3>2 DEF InHand
      <4>5. act[b].at = "close" => (act[b].old \in ListenerIds => conn'[act[b].old].addr # Nobody)
        BY <1>11 DEF LInv, Held, Bound
      <4>6. act[b].at \in {"listen", "swap", "close"} => act[b].to \in Addrs
        BY DEF LInv, Held
      <4> QED
        BY <1>1, <4>1, <4>2, <4>3, <4>4, <4>5, <4>6
    <3> QED
      BY <3>1, <3>2
  <2>3. \A j \in ListenerIds : \A b, c \in Actors : InHand(b, j)' /\ InHand(c, j)' => b = c
    BY <1>9, <1>10 DEF LInv, Held
  <2>4. \A j \in ListenerIds : conn'[j].open => j = ln' \/ \E b \in Actors : InHand(b, j)'
    <3> TAKE j \in ListenerIds
    <3>1. CASE j = n
      BY <1>1, <3>1
    <3>2. CASE j # n
      <4>1. InHand(a, j) => j = n
        BY <1>1 DEF InHand
      <4> QED
        BY <1>6, <1>10, <3>2, <4>1 DEF LInv, Held
    <3> QED
      BY <3>1, <3>2
  <2> QED
    BY <2>1, <2>2, <2>3, <2>4 DEF Held, Bound
<1>13. Phases'
  BY <1>1, <1>2, <1>3, <1>5 DEF LInv, Phases, Binding, Actors
<1>14. Errors'
  <2>1. \A j \in ListenerIds : conn'[j].at = "current" => conn[j].at = "current"
    BY <1>6
  <2>2. conn'[ln'].open /\ conn'[ln'].at = "spawned"
    BY <1>1, <1>6
  <2> QED
    BY <1>1, <2>1, <2>2 DEF LInv, Errors, ErrorsAreReal
<1>15. Noted'
  <2>1. conn'[ln'].addr = act[a].to
    BY <1>1, <1>6
  <2>2. Binding' <=> Binding
    BY <1>1, <1>3, <1>5 DEF Binding, Actors
  <2>3. CASE a = "start"
    BY <1>1, <1>3, <1>5, <2>1, <2>2, <2>3 DEF LInv, Noted, Actors, Binding
  <2>4. CASE a = "update"
    <3>1. ~raced => ~Binding
      BY <1>1, <2>4 DEF LInv, Noted
    <3> QED
      BY <1>1, <1>3, <1>5, <2>1, <2>2, <2>4, <3>1 DEF Noted
  <2> QED
    BY <2>3, <2>4 DEF Actors
<1> QED
  BY <1>7, <1>12, <1>13, <1>14, <1>15 DEF LInv

\* What was replaced is not the current listener, and nobody else has it.
LEMMA CloseOldListeners ==
    ASSUME LInv, NEW a \in Actors, CloseOld(a) PROVE LInv'
<1> DEFINE o == act[a].old
           new == IF a = "start" THEN [Resting EXCEPT !.at = "wait"] ELSE Resting
<1>1. /\ act[a].at = "close" /\ conn' = (IF o = Nobody THEN conn ELSE [conn EXCEPT ![o].open = FALSE])
      /\ act' = [act EXCEPT ![a] = new]
      /\ addr' = (IF a = "update" THEN act[a].to ELSE addr)
      /\ UNCHANGED <<server, ln, errCh, stopping, gen, buckets, req, now, breaks, raced>>
  BY DEF CloseOld
<1>2. /\ act \in [Actors -> Act] /\ conn \in [ListenerIds -> Conn] /\ act[a] \in Act
      /\ o \in ListenerIds \cup {Nobody} /\ o # ln /\ act[a].to \in Addrs
  BY <1>1, Typed DEF LInv, Held, Act
<1>3. new \in Act /\ new.at = (IF a = "start" THEN "wait" ELSE "idle")
  BY DEF Act, Resting
<1> HIDE DEF new
<1>4. /\ act' \in [Actors -> Act] /\ act'[a] = new
      /\ \A b \in Actors \ {a} : act'[b] = act[b]
  BY <1>1, <1>2, <1>3, ActorMoves
<1>5. /\ conn' \in [ListenerIds -> Conn] /\ (o \in ListenerIds => ~conn'[o].open)
      /\ \A j \in ListenerIds \ {o} : conn'[j] = conn[j]
      /\ \A j \in ListenerIds : conn'[j].addr = conn[j].addr /\ conn'[j].at = conn[j].at
  <2>1. CASE o = Nobody
    BY <1>1, <1>2, <2>1, NotAListener
  <2>2. CASE o \in ListenerIds
    <3>1. o # Nobody /\ conn' = [conn EXCEPT ![o].open = FALSE]
      BY <1>1, <2>2, NotAListener
    <3> QED
      BY <1>2, <2>2, <3>1 DEF Conn
  <2> QED
    BY <1>2, <2>1, <2>2
<1>6. TypeOK'
  <2>1. addr' \in Addrs
    BY <1>1, <1>2, Typed DEF LInv
  <2> QED
    BY <1>1, <1>4, <1>5, <2>1 DEF LInv, TypeOK, Act, Conn, Bucket, Capacity
<1>7. \A j \in ListenerIds : InHand(a, j) => j = o
  BY <1>1 DEF InHand
<1>8. \A b \in Actors, j \in ListenerIds : InHand(b, j)' <=> (b # a /\ InHand(b, j))
  BY <1>3, <1>4 DEF InHand
<1>9. Held'
  <2>1. \A b \in Actors :
           /\ act'[b].at = "swap" =>
                 /\ act'[b].new \in ListenerIds /\ act'[b].new # ln
                 /\ conn'[act'[b].new] = [addr |-> act'[b].to, open |-> TRUE, at |-> "none"]
           /\ act'[b].at = "close" => act'[b].old # ln /\ (act'[b].old \in ListenerIds => conn'[act'[b].old].addr # Nobody)
           /\ act'[b].at \in {"listen", "swap", "close"} => act'[b].to \in Addrs
    <3> TAKE b \in Actors
    <3>1. CASE b = a
      BY <1>3, <1>4, <3>1
    <3>2. CASE b # a
      <4>1. act'[b] = act[b]
        BY <1>4, <3>2
      <4>2. act[b].at = "swap" =>
               /\ act[b].new \in ListenerIds /\ act[b].new # ln
               /\ conn[act[b].new] = [addr |-> act[b].to, open |-> TRUE, at |-> "none"]
        BY DEF LInv, Held
      <4>3. act[b].at = "swap" => act[b].new # o
        BY <1>1, <3>2, <4>2 DEF LInv, Held, InHand
      <4>4. act[b].at = "swap" => conn'[act[b].new] = conn[act[b].new]
        BY <1>5, <4>2, <4>3
      <4>5. act[b].at = "close" => act[b].old # ln /\ (act[b].old \in ListenerIds => conn'[act[b].old].addr # Nobody)
        BY <1>5 DEF LInv, Held, Bound
      <4>6. act[b].at \in {"listen", "swap", "close"} => act[b].to \in Addrs
        BY DEF LInv, Held
      <4> QED
        BY <4>1, <4>2, <4>4, <4>5, <4>6
    <3> QED
      BY <3>1, <3>2
  <2>2. ln \in ListenerIds => conn'[ln].addr # Nobody
    BY <1>5 DEF LInv, Held, Bound
  <2>3. \A j \in ListenerIds : \A b, c \in Actors : InHand(b, j)' /\ InHand(c, j)' => b = c
    BY <1>8 DEF LInv, Held
  <2>4. \A j \in ListenerIds : conn'[j].open => j = ln \/ \E b \in Actors : InHand(b, j)'
    BY <1>5, <1>7, <1>8 DEF LInv, Held
  <2>5. ln' = ln
    BY <1>1
  <2> QED
    BY <2>1, <2>2, <2>3, <2>4, <2>5 DEF Held, Bound
<1>10. Phases'
  BY <1>1, <1>3, <1>4 DEF LInv, Phases, Binding, Actors
<1>11. Errors'
  <2>1. ln \in ListenerIds => conn'[ln] = conn[ln]
    BY <1>2, <1>5
  <2> QED
    BY <1>1, <1>5, <2>1 DEF LInv, Errors, ErrorsAreReal
<1>12. Noted'
  <2>1. ln \in ListenerIds => conn'[ln].addr = conn[ln].addr
    BY <1>5
  <2>2. CASE a = "start"
    <3>1. ~Binding' /\ Binding
      BY <1>1, <1>3, <1>4, <2>2 DEF Binding
    <3>2. act'["update"] = act["update"] /\ addr' = addr
      BY <1>1, <1>4, <2>2 DEF Actors
    <3> QED
      BY <1>1, <2>1, <3>1, <3>2 DEF LInv, Noted
  <2>3. CASE a = "update"
    <3>1. act'["start"] = act["start"] /\ act'["update"].at = "idle" /\ addr' = act["update"].to
      BY <1>1, <1>3, <1>4, <2>3 DEF Actors
    <3>2. ~raced => ~Binding /\ ~Binding'
      BY <1>1, <2>3, <3>1 DEF LInv, Noted, Binding
    <3> QED
      BY <1>1, <2>1, <2>3, <3>1, <3>2 DEF LInv, Noted
  <2> QED
    BY <2>2, <2>3 DEF Actors
<1> QED
  BY <1>6, <1>9, <1>10, <1>11, <1>12 DEF LInv
\* What a goroutine does to its own listener, which is in nobody's hands
\* before it was put in place: the listener may close, and never opens again.
LEMMA OneListener ==
    ASSUME LInv, NEW i \in ListenerIds, conn[i].at # "none",
           conn' \in [ListenerIds -> Conn], \A j \in ListenerIds \ {i} : conn'[j] = conn[j],
           conn'[i].addr = conn[i].addr, conn'[i].open => conn[i].open,
           errCh' \in ListenerIds \cup {Nobody}, breaks' \in 0 .. MaxBreaks,
           UNCHANGED <<server, addr, ln, act, stopping, gen, buckets, req, now, raced>>,
           Errors'
    PROVE  LInv'
<1>1. TypeOK'
  BY DEF LInv, TypeOK, Conn, Bucket, Capacity
<1>2. \A b \in Actors, j \in ListenerIds : InHand(b, j)' <=> InHand(b, j)
  BY DEF InHand
<1>3. \A j \in ListenerIds : conn'[j].addr = conn[j].addr /\ (conn'[j].open => conn[j].open)
  OBVIOUS
<1>4. Held'
  <2>1. \A b \in Actors : act[b].at = "swap" =>
           /\ act[b].new \in ListenerIds /\ act[b].new # ln
           /\ conn'[act[b].new] = [addr |-> act[b].to, open |-> TRUE, at |-> "none"]
    <3> SUFFICES ASSUME NEW b \in Actors, act[b].at = "swap"
                 PROVE  /\ act[b].new \in ListenerIds /\ act[b].new # ln
                        /\ conn'[act[b].new] = [addr |-> act[b].to, open |-> TRUE, at |-> "none"]
      OBVIOUS
    <3>1. /\ act[b].new \in ListenerIds /\ act[b].new # ln
          /\ conn[act[b].new] = [addr |-> act[b].to, open |-> TRUE, at |-> "none"]
      BY DEF LInv, Held
    <3>2. act[b].new # i
      BY <3>1
    <3> QED
      BY <3>1, <3>2
  <2>2. \A b \in Actors : act[b].at = "close" =>
           act[b].old # ln /\ (act[b].old \in ListenerIds => conn'[act[b].old].addr # Nobody)
    BY <1>3 DEF LInv, Held, Bound
  <2>3. ln \in ListenerIds => conn'[ln].addr # Nobody
    BY <1>3 DEF LInv, Held, Bound
  <2>4. \A j \in ListenerIds : conn'[j].open => j = ln \/ \E b \in Actors : InHand(b, j)'
    BY <1>2, <1>3 DEF LInv, Held
  <2>5. \A j \in ListenerIds : \A b, c \in Actors : InHand(b, j)' /\ InHand(c, j)' => b = c
    BY <1>2 DEF LInv, Held
  <2>6. \A b \in Actors : act[b].at \in {"listen", "swap", "close"} => act[b].to \in Addrs
    BY DEF LInv, Held
  <2> QED
    BY <2>1, <2>2, <2>3, <2>4, <2>5, <2>6 DEF Held, Bound
<1>5. Phases'
  BY DEF LInv, Phases, Binding
<1>6. Noted'
  <2>1. ln \in ListenerIds => conn'[ln].addr = conn[ln].addr
    BY <1>3
  <2> QED
    BY <2>1 DEF LInv, Noted, Binding
<1> QED
  BY <1>1, <1>4, <1>5, <1>6 DEF LInv

LEMMA ServeListeners == ASSUME LInv, NEW i \in ListenerIds, Serve(i) PROVE LInv'
<1> DEFINE new == IF server = "down" THEN [conn[i] EXCEPT !.at = "done", !.open = FALSE] ELSE [conn[i] EXCEPT !.at = "serving"]
<1>1. /\ conn[i].at = "spawned" /\ conn' = [conn EXCEPT ![i] = new]
      /\ UNCHANGED <<server, addr, ln, act, errCh, stopping, gen, buckets, req, now, breaks, raced>>
  BY DEF Serve
<1>2. conn \in [ListenerIds -> Conn] /\ conn[i] \in Conn
  BY Typed DEF LInv
<1>3. /\ new \in Conn /\ new.addr = conn[i].addr /\ new.at \in {"done", "serving"}
      /\ new.open => conn[i].open
      /\ ~new.open => ~conn[i].open \/ server = "down"
  BY <1>2 DEF Conn
<1> HIDE DEF new
<1>4. conn' \in [ListenerIds -> Conn] /\ conn'[i] = new /\ \A j \in ListenerIds \ {i} : conn'[j] = conn[j]
  BY <1>1, <1>2, <1>3
<1>5. Errors'
  <2>1. \A j \in ListenerIds : conn'[j].at = "current" => conn[j].at = "current"
    BY <1>3, <1>4
  <2>2. ln \in ListenerIds => (conn'[ln].at = "failed" => conn[ln].at = "failed")
    BY <1>3, <1>4
  <2>3. ln \in ListenerIds => (~conn'[ln].open => ~conn[ln].open \/ server = "down")
    BY <1>3, <1>4
  <2> QED
    BY <1>1, <2>1, <2>2, <2>3 DEF LInv, Errors, ErrorsAreReal
<1>6. breaks \in 0 .. MaxBreaks /\ errCh \in ListenerIds \cup {Nobody}
  BY DEF LInv, TypeOK
<1> QED
  BY <1>1, <1>3, <1>4, <1>5, <1>6, OneListener

\* A listener that nobody closed and that did not break goes on, so the error
\* of the current one says that it broke.
LEMMA ServeReturnsListeners == ASSUME LInv, NEW i \in ListenerIds, ServeReturns(i) PROVE LInv'
<1> DEFINE new == [conn[i] EXCEPT !.at = IF server = "down" THEN "done" ELSE "failed"]
<1>1. /\ conn[i].at = "serving" /\ ~conn[i].open /\ conn' = [conn EXCEPT ![i].at = IF server = "down" THEN "done" ELSE "failed"]
      /\ UNCHANGED <<server, addr, ln, act, errCh, stopping, gen, buckets, req, now, breaks, raced>>
  BY DEF ServeReturns
<1>2. conn \in [ListenerIds -> Conn] /\ conn[i] \in Conn
  BY Typed DEF LInv
<1>3. /\ new \in Conn /\ new.addr = conn[i].addr /\ new.at \in {"done", "failed"} /\ new.open = conn[i].open
      /\ new.at = "failed" => server # "down"
  BY <1>2 DEF Conn
<1>4. conn' = [conn EXCEPT ![i] = new]
  BY <1>1, <1>2
<1> HIDE DEF new
<1>5. conn' \in [ListenerIds -> Conn] /\ conn'[i] = new /\ \A j \in ListenerIds \ {i} : conn'[j] = conn[j]
  BY <1>2, <1>3, <1>4
<1>6. Errors'
  <2>1. \A j \in ListenerIds : conn'[j].at = "current" => conn[j].at = "current"
    BY <1>3, <1>5
  <2>2. \A j \in ListenerIds : conn'[j].open = conn[j].open
    BY <1>3, <1>5
  <2>3. breaks = 0 /\ ln \in ListenerIds => conn'[ln].at # "failed"
    <3>1. CASE ln = i
      <4>1. ln \in ListenerIds /\ ~conn[ln].open => breaks > 0 \/ server = "down"
        BY DEF LInv, Errors
      <4> QED
        BY <1>1, <1>3, <1>5, <3>1, <4>1
    <3>2. CASE ln # i
      BY <1>5, <3>2 DEF LInv, Errors
    <3> QED
      BY <3>1, <3>2
  <2> QED
    BY <1>1, <2>1, <2>2, <2>3 DEF LInv, Errors, ErrorsAreReal
<1>7. breaks \in 0 .. MaxBreaks /\ errCh \in ListenerIds \cup {Nobody}
  BY DEF LInv, TypeOK
<1> QED
  BY <1>1, <1>3, <1>5, <1>6, <1>7, OneListener

LEMMA CheckCurrentListeners == ASSUME LInv, NEW i \in ListenerIds, CheckCurrent(i) PROVE LInv'
<1> DEFINE new == [conn[i] EXCEPT !.at = IF ln = i THEN "current" ELSE "done"]
<1>1. /\ conn[i].at = "failed" /\ conn' = [conn EXCEPT ![i].at = IF ln = i THEN "current" ELSE "done"]
      /\ UNCHANGED <<server, addr, ln, act, errCh, stopping, gen, buckets, req, now, breaks, raced>>
  BY DEF CheckCurrent
<1>2. conn \in [ListenerIds -> Conn] /\ conn[i] \in Conn
  BY Typed DEF LInv
<1>3. /\ new \in Conn /\ new.addr = conn[i].addr /\ new.at \in {"done", "current"} /\ new.open = conn[i].open
      /\ new.at = "current" => ln = i
  BY <1>2 DEF Conn
<1>4. conn' = [conn EXCEPT ![i] = new]
  BY <1>1, <1>2
<1> HIDE DEF new
<1>5. conn' \in [ListenerIds -> Conn] /\ conn'[i] = new /\ \A j \in ListenerIds \ {i} : conn'[j] = conn[j]
  BY <1>2, <1>3, <1>4
<1>6. Errors'
  <2>1. \A j \in ListenerIds : conn'[j].open = conn[j].open
    BY <1>3, <1>5
  <2>2. breaks = 0 => ln # i
    BY <1>1 DEF LInv, Errors
  <2>3. breaks = 0 => \A j \in ListenerIds : conn'[j].at = "current" => conn[j].at = "current"
    BY <1>3, <1>5, <2>2
  <2>4. breaks = 0 /\ ln \in ListenerIds => conn'[ln] = conn[ln]
    BY <1>5, <2>2
  <2> QED
    BY <1>1, <2>1, <2>3, <2>4 DEF LInv, Errors, ErrorsAreReal
<1>7. breaks \in 0 .. MaxBreaks /\ errCh \in ListenerIds \cup {Nobody}
  BY DEF LInv, TypeOK
<1> QED
  BY <1>1, <1>3, <1>5, <1>6, <1>7, OneListener

LEMMA SendErrorListeners == ASSUME LInv, NEW i \in ListenerIds, SendError(i) PROVE LInv'
<1> DEFINE new == [conn[i] EXCEPT !.at = "done"]
<1>1. /\ conn[i].at = "current" /\ conn' = [conn EXCEPT ![i].at = "done"]
      /\ errCh' = (IF errCh = Nobody THEN i ELSE errCh)
      /\ UNCHANGED <<server, addr, ln, act, stopping, gen, buckets, req, now, breaks, raced>>
  BY DEF SendError
<1>2. conn \in [ListenerIds -> Conn] /\ conn[i] \in Conn
  BY Typed DEF LInv
<1>3. new \in Conn /\ new.addr = conn[i].addr /\ new.at = "done" /\ new.open = conn[i].open
  BY <1>2 DEF Conn
<1>4. conn' = [conn EXCEPT ![i] = new]
  BY <1>1, <1>2
<1> HIDE DEF new
<1>5. conn' \in [ListenerIds -> Conn] /\ conn'[i] = new /\ \A j \in ListenerIds \ {i} : conn'[j] = conn[j]
  BY <1>2, <1>3, <1>4
<1>6. breaks \in 0 .. MaxBreaks /\ errCh' \in ListenerIds \cup {Nobody}
  BY <1>1 DEF LInv, TypeOK
<1>7. breaks > 0
  BY <1>1, <1>6, HttpServerAssumption DEF LInv, Errors
<1>8. Errors'
  <2>1. \A j \in ListenerIds : conn'[j].open = conn[j].open
    BY <1>3, <1>5
  <2> QED
    BY <1>1, <1>7, <2>1 DEF LInv, Errors, ErrorsAreReal
<1> QED
  BY <1>1, <1>3, <1>5, <1>6, <1>8, OneListener

LEMMA BreakListeners == ASSUME LInv, NEW i \in ListenerIds, Break(i) PROVE LInv'
<1> DEFINE new == [conn[i] EXCEPT !.open = FALSE]
<1>1. /\ conn[i].open /\ conn[i].at = "serving" /\ breaks < MaxBreaks /\ breaks' = breaks + 1
      /\ conn' = [conn EXCEPT ![i].open = FALSE]
      /\ UNCHANGED <<server, addr, ln, act, errCh, stopping, gen, buckets, req, now, raced>>
  BY DEF Break
<1>2. conn \in [ListenerIds -> Conn] /\ conn[i] \in Conn
  BY Typed DEF LInv
<1>3. new \in Conn /\ new.addr = conn[i].addr /\ new.at = conn[i].at /\ new.open = FALSE
  BY <1>2 DEF Conn
<1>4. conn' = [conn EXCEPT ![i] = new]
  BY <1>1, <1>2
<1> HIDE DEF new
<1>5. conn' \in [ListenerIds -> Conn] /\ conn'[i] = new /\ \A j \in ListenerIds \ {i} : conn'[j] = conn[j]
  BY <1>2, <1>3, <1>4
<1>6. breaks' \in 0 .. MaxBreaks /\ breaks' > 0 /\ errCh' \in ListenerIds \cup {Nobody}
  BY <1>1, HttpServerAssumption DEF LInv, TypeOK
<1>7. Errors'
  BY <1>6 DEF Errors, ErrorsAreReal
<1> QED
  BY <1>1, <1>3, <1>5, <1>6, <1>7, OneListener

\* Shutdown closes the listeners that are served; Start is past its binding.
LEMMA StopListeners == ASSUME LInv, Stop PROVE LInv'
<1> DEFINE new == [act["start"] EXCEPT !.at = "shut"]
<1>1. /\ act["start"].at = "wait" /\ server' = "down"
      /\ conn' = [i \in ListenerIds |-> IF conn[i].at = "serving" THEN [conn[i] EXCEPT !.open = FALSE] ELSE conn[i]]
      /\ act' = [act EXCEPT !["start"].at = "shut"]
      /\ UNCHANGED <<addr, ln, errCh, stopping, gen, buckets, req, now, breaks, raced>>
  BY DEF Stop
<1>2. conn \in [ListenerIds -> Conn] /\ act \in [Actors -> Act] /\ act["start"] \in Act
  BY Typed DEF LInv, Actors
<1>3. new \in Act /\ new.at = "shut" /\ new.to = act["start"].to
  BY <1>2 DEF Act
<1>4. act' = [act EXCEPT !["start"] = new]
  BY <1>1, <1>2
<1> HIDE DEF new
<1>5. act' \in [Actors -> Act] /\ act'["start"] = new /\ act'["update"] = act["update"]
  BY <1>2, <1>3, <1>4 DEF Actors
<1>6. conn' \in [ListenerIds -> Conn]
  BY <1>1, <1>2 DEF Conn
<1>7. \A j \in ListenerIds : /\ conn'[j].addr = conn[j].addr /\ conn'[j].at = conn[j].at
                             /\ conn'[j].open => conn[j].open
                             /\ conn[j].at # "serving" => conn'[j] = conn[j]
  BY <1>1, <1>2 DEF Conn
<1>8. TypeOK'
  BY <1>1, <1>5, <1>6 DEF LInv, TypeOK, Act, Conn, Bucket, Capacity
<1>9. \A b \in Actors, j \in ListenerIds : InHand(b, j)' <=> InHand(b, j)
  BY <1>1, <1>3, <1>5 DEF InHand, Actors
<1>10. Held'
  <2>1. \A b \in Actors :
           /\ act'[b].at = "swap" =>
                 /\ act'[b].new \in ListenerIds /\ act'[b].new # ln
                 /\ conn'[act'[b].new] = [addr |-> act'[b].to, open |-> TRUE, at |-> "none"]
           /\ act'[b].at = "close" => act'[b].old # ln /\ (act'[b].old \in ListenerIds => conn'[act'[b].old].addr # Nobody)
           /\ act'[b].at \in {"listen", "swap", "close"} => act'[b].to \in Addrs
    <3> TAKE b \in Actors
    <3>1. CASE b = "start"
      BY <1>3, <1>5, <3>1
    <3>2. CASE b = "update"
      <4>1. act'[b] = act[b]
        BY <1>5, <3>2
      <4>2. act[b].at = "swap" =>
               /\ act[b].new \in ListenerIds /\ act[b].new # ln
               /\ conn[act[b].new] = [addr |-> act[b].to, open |-> TRUE, at |-> "none"]
        BY DEF LInv, Held
      <4>3. act[b].at = "swap" => conn'[act[b].new] = conn[act[b].new]
        BY <1>7, <4>2
      <4>4. act[b].at = "close" => act[b].old # ln /\ (act[b].old \in ListenerIds => conn'[act[b].old].addr # Nobody)
        BY <1>7 DEF LInv, Held, Bound
      <4>5. act[b].at \in {"listen", "swap", "close"} => act[b].to \in Addrs
        BY DEF LInv, Held
      <4> QED
        BY <4>1, <4>2, <4>3, <4>4, <4>5
    <3> QED
      BY <3>1, <3>2 DEF Actors
  <2>2. ln \in ListenerIds => conn'[ln].addr # Nobody
    BY <1>7 DEF LInv, Held, Bound
  <2>3. \A j \in ListenerIds : \A b, c \in Actors : InHand(b, j)' /\ InHand(c, j)' => b = c
    BY <1>9 DEF LInv, Held
  <2>4. \A j \in ListenerIds : conn'[j].open => j = ln \/ \E b \in Actors : InHand(b, j)'
    BY <1>7, <1>9 DEF LInv, Held
  <2>5. ln' = ln
    BY <1>1
  <2> QED
    BY <2>1, <2>2, <2>3, <2>4, <2>5 DEF Held, Bound
<1>11. Phases'
  BY <1>1, <1>3, <1>5 DEF LInv, Phases, Binding
<1>12. Errors'
  BY <1>1, <1>7 DEF LInv, Errors, ErrorsAreReal
<1>13. Noted'
  <2>1. ln \in ListenerIds => conn'[ln].addr = conn[ln].addr
    BY <1>7
  <2> QED
    BY <1>1, <1>3, <1>5, <2>1 DEF LInv, Noted, Binding
<1> QED
  BY <1>8, <1>10, <1>11, <1>12, <1>13 DEF LInv

LEMMA StartReturnsListeners == ASSUME LInv, StartReturns PROVE LInv'
<1>1. PICK at \in {"done", "failed"} :
         act["start"].at \in {"shut", "wait"} /\ act' = [act EXCEPT !["start"].at = at]
  BY DEF StartReturns
<1> DEFINE new == [act["start"] EXCEPT !.at = at]
<1>11. /\ act["start"].at \in {"shut", "wait"}
       /\ UNCHANGED <<server, addr, ln, conn, errCh, stopping, gen, buckets, req, now, breaks, raced>>
  BY DEF StartReturns
<1>2. act \in [Actors -> Act] /\ act["start"] \in Act
  BY Typed DEF LInv, Actors
<1>3. new \in Act /\ new.at = at
  BY <1>1, <1>2 DEF Act
<1>4. act' = [act EXCEPT !["start"] = new]
  BY <1>1, <1>2
<1> HIDE DEF new
<1>5. act' \in [Actors -> Act] /\ act'["start"] = new /\ act'["update"] = act["update"]
  BY <1>2, <1>3, <1>4 DEF Actors
<1>6. TypeOK'
  BY <1>11, <1>5 DEF LInv, TypeOK, Act, Bucket, Capacity
<1>7. \A b \in Actors : act'[b].at \in {"listen", "swap", "close"} => act'[b] = act[b]
  BY <1>1, <1>3, <1>5 DEF Actors
<1>8. \A b \in Actors, j \in ListenerIds : InHand(b, j)' <=> InHand(b, j)
  BY <1>1, <1>11, <1>3, <1>5 DEF InHand, Actors
<1>9. Held'
  BY <1>11, <1>7, <1>8 DEF LInv, Held, Bound
<1>10. Phases' /\ Errors' /\ Noted'
  BY <1>1, <1>11, <1>3, <1>5 DEF LInv, Phases, Errors, ErrorsAreReal, Noted, Binding
<1> QED
  BY <1>6, <1>9, <1>10 DEF LInv
-----------------------------------------------------------------------------

\* A request leaves the listeners alone, and its limiter is one there was.
LEMMA RequestListeners ==
    ASSUME LInv, Inv, Inv', NEW r \in Requests,
           Arrive(r) \/ LoadLimiter(r) \/ RateLimit(r) \/ Authenticate(r) \/ Respond(r)
    PROVE  LInv'
<1> DEFINE Req == [at : {"new", "limit", "bucket", "auth", "handler", "done"},
                   came : 0 .. MaxUpdates, limiter : 0 .. MaxUpdates, passed : 0 .. MaxUpdates]
<1>1. req \in [Requests -> Req] /\ req[r] \in Req /\ gen \in 0 .. MaxUpdates /\ 0 \in 0 .. MaxUpdates
  BY HttpServerAssumption DEF LInv, TypeOK
<1>2. UnchangedByRequests
  BY DEF Arrive, LoadLimiter, RateLimit, Authenticate, Respond
<1>3. DOMAIN buckets' \subseteq 1 .. MaxUpdates /\ \A g \in DOMAIN buckets' : buckets'[g] \in Bucket
  <2>1. DOMAIN buckets' = DOMAIN buckets
    BY DEF Arrive, LoadLimiter, RateLimit, Authenticate, Respond
  <2> QED
    BY <2>1 DEF LInv, TypeOK, Inv, AllFilled, Filled, Bucket, Capacity
<1>4. ASSUME NEW new \in Req, req' = [req EXCEPT ![r] = new] PROVE req' \in [Requests -> Req]
  BY <1>1, <1>4
<1>5. Over \in Req
  BY <1>1 DEF Over, NewRequest
<1>6. req' \in [Requests -> Req]
  <2>1. CASE Arrive(r)
    <3> DEFINE new == [req[r] EXCEPT !.at = "limit", !.came = gen]
    <3>1. req' = [req EXCEPT ![r] = new] /\ new \in Req
      BY <1>1, <2>1 DEF Arrive
    <3> QED
      BY <1>4, <3>1
  <2>2. CASE LoadLimiter(r)
    <3>1. PICK new \in Req : req' = [req EXCEPT ![r] = new]
      <4>1. CASE gen \in DOMAIN buckets
        BY <1>1, <2>2, <4>1 DEF LoadLimiter
      <4>2. CASE gen \notin DOMAIN buckets
        BY <1>1, <2>2, <4>2 DEF LoadLimiter
      <4> QED
        BY <4>1, <4>2
    <3> QED
      BY <1>4, <3>1
  <2>3. CASE RateLimit(r)
    <3>1. PICK new \in Req : req' = [req EXCEPT ![r] = new]
      BY <1>1, <1>5, <2>3 DEF RateLimit
    <3> QED
      BY <1>4, <3>1
  <2>4. CASE Authenticate(r)
    <3> DEFINE new == [req[r] EXCEPT !.at = "handler", !.passed = gen]
    <3>1. req' = [req EXCEPT ![r] = Over] \/ (req' = [req EXCEPT ![r] = new] /\ new \in Req)
      BY <1>1, <2>4 DEF Authenticate
    <3> QED
      BY <1>4, <1>5, <3>1
  <2>5. CASE Respond(r)
    BY <1>4, <1>5, <2>5 DEF Respond
  <2> QED
    BY <2>1, <2>2, <2>3, <2>4, <2>5
<1>7. TypeOK'
  BY <1>2, <1>3, <1>6 DEF UnchangedByRequests, LInv, TypeOK, Bucket, Capacity
<1> QED
  BY <1>2, <1>7, ListenersElsewhere DEF UnchangedByRequests

LEMMA ListenersStep == ASSUME LInv, Inv, Inv', [Next]_vars PROVE LInv'
<1>1. CASE Start
  BY <1>1, StartListeners
<1>2. CASE Compare
  BY <1>2, CompareListeners
<1>3. CASE Cancel
  <2>1. TypeOK'
    BY <1>3 DEF Cancel, LInv, TypeOK, Bucket, Capacity
  <2> QED
    BY <1>3, <2>1, ListenersElsewhere DEF Cancel
<1>4. CASE Stop
  BY <1>4, StopListeners
<1>5. CASE StartReturns
  BY <1>5, StartReturnsListeners
<1>6. CASE Tick
  <2>1. now' \in 0 .. MaxTime
    BY <1>6, HttpServerAssumption DEF Tick, LInv, TypeOK
  <2>2. TypeOK'
    BY <1>6, <2>1 DEF Tick, LInv, TypeOK, Bucket, Capacity
  <2> QED
    BY <1>6, <2>2, ListenersElsewhere DEF Tick
<1>7. CASE \E to \in Addrs \cup {Nobody} : StoreRuntime(to)
  BY <1>7, StoreRuntimeListeners DEF Inv
<1>8. CASE \E a \in Actors : Rebind(a)
  BY <1>8, ListenListeners, SwapListeners, CloseOldListeners DEF Rebind
<1>9. CASE \E i \in ListenerIds : Goroutine(i) \/ Break(i)
  BY <1>9, ServeListeners, ServeReturnsListeners, CheckCurrentListeners, SendErrorListeners, BreakListeners DEF Goroutine
<1>10. CASE \E r \in Requests : Arrive(r) \/ LoadLimiter(r) \/ RateLimit(r) \/ Authenticate(r) \/ Respond(r)
  BY <1>10, RequestListeners
<1>11. CASE UNCHANGED vars
  <2>1. TypeOK'
    BY <1>11 DEF vars, LInv, TypeOK, Bucket, Capacity
  <2> QED
    BY <1>11, <2>1, ListenersElsewhere DEF vars
<1> QED
  BY <1>1, <1>2, <1>3, <1>4, <1>5, <1>6, <1>7, <1>8, <1>9, <1>10, <1>11 DEF Next

\* When nobody has a listener in hand, the open one is the current one.
LEMMA ListenersSettle == ASSUME LInv PROVE ListenersSound
<1>1. ASSUME Quiet, breaks = 0 PROVE {i \in ListenerIds : conn[i].open} = {ln} /\ (~raced => conn[ln].addr = addr)
  <2>1. \A a \in Actors, i \in ListenerIds : ~InHand(a, i)
    BY <1>1 DEF Quiet, InHand, Actors
  <2>2. ln \in ListenerIds /\ server = "open"
    BY <1>1 DEF Quiet, LInv, Phases
  <2>3. conn[ln].open
    BY <1>1, <2>2 DEF LInv, Errors
  <2>4. \A i \in ListenerIds : conn[i].open => i = ln
    BY <2>1 DEF LInv, Held
  <2>5. ~raced => conn[ln].addr = addr
    BY <1>1, <2>2 DEF Quiet, LInv, Noted
  <2> QED
    BY <2>2, <2>3, <2>4, <2>5
<1> QED
  BY <1>1 DEF LInv, Errors, ListenersSound, ServedWhereNoted

\* Only a listener that broke by itself ends the server, and while it runs and
\* no reload is in progress one listener is open, where the server has noted it:
\* for any number of reloads, and for Start and a reload in any order.
THEOREM ListenersStaySound == Spec => []ListenersSound
<1>1. Init => LInv /\ Inv
  BY ListenersInit, InitInv
<1>2. LInv /\ Inv /\ [Next]_vars => (LInv /\ Inv)'
  BY StepInv, ListenersStep
<1>3. LInv => ListenersSound
  BY ListenersSettle
<1> QED
  BY <1>1, <1>2, <1>3, PTL DEF Spec

-----------------------------------------------------------------------------
(* The query cache *)

\* The version an epoch begins with: files change once between two epochs.
Begins(k) == k + 1

\* What lies under a key, and what a query has in hand, is no older than the
\* epoch of the key; and no query began under a later floor than its key's.
CacheInv ==
    /\ data \in Nat /\ epoch \in Nat /\ floor \in Nat /\ data <= MaxChanges + 1
    /\ step \in {"idle", "stored", "raised"}
    /\ data = IF step = "stored" THEN Begins(epoch) + 1 ELSE Begins(epoch)
    /\ floor = IF step = "raised" THEN epoch ELSE Begins(epoch)
    /\ cached \in [0 .. MaxChanges -> Nat]
    /\ \A k \in 0 .. MaxChanges : cached[k] = 0 \/ cached[k] >= Begins(k)
    /\ query \in [Queries -> [at : {"new", "ask", "compute", "keep", "done"}, key : Nat, answer : Nat]]
    /\ since \in [Queries -> Nat]
    /\ \A q \in Queries :
          /\ query[q].key <= epoch
          /\ since[q] <= Begins(query[q].key)
          /\ query[q].at \in {"keep", "done"} => query[q].answer >= Begins(query[q].key)

LEMMA CacheInitInv == ASSUME MaxChanges \in Nat, CacheInit PROVE CacheInv
BY DEF CacheInit, CacheInv, Begins

\* A change of the files, and the two halves of InvalidateQueryCache.
LEMMA WatchingInv == ASSUME MaxChanges \in Nat, CacheInv, Watching PROVE CacheInv'
<1>1. CASE FileIndexed
    BY <1>1 DEF FileIndexed, CacheInv, Begins
<1>2. CASE RaiseEpoch
    BY <1>2 DEF RaiseEpoch, CacheInv, Begins
<1>3. CASE ClearCache
    BY <1>3 DEF ClearCache, CacheInv, Begins
<1> QED
    BY <1>1, <1>2, <1>3 DEF Watching

LEMMA AskInv == ASSUME CacheInv, NEW q \in Queries, Ask(q) PROVE CacheInv'
<1>1. /\ query' = [query EXCEPT ![q] = [at |-> "ask", key |-> epoch, answer |-> 0]]
      /\ since' = [since EXCEPT ![q] = floor]
      /\ UNCHANGED <<data, epoch, cached, step, floor>>
    BY DEF Ask, Key
<1> QED
    BY <1>1 DEF CacheInv, Begins

LEMMA KeyInRange == ASSUME MaxChanges \in Nat, CacheInv, NEW q \in Queries PROVE query[q].key \in 0 .. MaxChanges
BY DEF CacheInv, Begins

\* An answer found under a key is as young as the key.
LEMMA LookupInv == ASSUME MaxChanges \in Nat, CacheInv, NEW q \in Queries, Lookup(q) PROVE CacheInv'
<1>0. query[q].key \in 0 .. MaxChanges
    BY KeyInRange
<1>1. CASE /\ cached[query[q].key] > 0 /\ UNCHANGED cached
           /\ query' = [query EXCEPT ![q].at = "done", ![q].answer = cached[query[q].key]]
    <2>1. cached[query[q].key] \in Nat /\ cached[query[q].key] >= Begins(query[q].key)
        BY <1>0, <1>1 DEF CacheInv
    <2>2. /\ query' \in [Queries -> [at : {"new", "ask", "compute", "keep", "done"}, key : Nat, answer : Nat]]
          /\ \A r \in Queries : r # q => query'[r] = query[r]
          /\ query'[q].at = "done" /\ query'[q].key = query[q].key /\ query'[q].answer = cached[query[q].key]
        BY <1>1, <2>1 DEF CacheInv
    <2>3. UNCHANGED <<data, epoch, cached, step, floor, since>>
        BY <1>1 DEF Lookup
    <2> QED
        BY <2>1, <2>2, <2>3 DEF CacheInv
<1>2. CASE /\ query' = [query EXCEPT ![q].at = "compute"]
           /\ cached' = [cached EXCEPT ![query[q].key] = 0]
    BY <1>0, <1>2 DEF Lookup, CacheInv
<1> QED
    BY <1>1, <1>2 DEF Lookup

\* What is computed now is no older than any key made so far.
LEMMA ComputeInv == ASSUME CacheInv, NEW q \in Queries, Compute(q) PROVE CacheInv'
<1>1. /\ query' \in [Queries -> [at : {"new", "ask", "compute", "keep", "done"}, key : Nat, answer : Nat]]
      /\ \A r \in Queries : r # q => query'[r] = query[r]
      /\ query'[q].at = "keep" /\ query'[q].key = query[q].key /\ query'[q].answer = data
    BY DEF Compute, CacheInv
<1>2. UNCHANGED <<data, epoch, cached, step, floor, since>>
    BY DEF Compute
<1>3. data >= Begins(query[q].key)
    BY DEF CacheInv, Begins
<1> QED
    BY <1>1, <1>2, <1>3 DEF CacheInv

LEMMA PutInv == ASSUME MaxChanges \in Nat, CacheInv, NEW q \in Queries, Put(q) PROVE CacheInv'
<1>1. query' = [query EXCEPT ![q].at = "done"] /\ cached' = [cached EXCEPT ![query[q].key] = query[q].answer]
    BY DEF Put
<1>2. /\ query[q].answer \in Nat /\ query[q].answer >= Begins(query[q].key)
      /\ query[q].key \in 0 .. MaxChanges
    BY KeyInRange DEF Put, CacheInv
<1>3. /\ cached' \in [0 .. MaxChanges -> Nat]
      /\ \A k \in 0 .. MaxChanges : cached'[k] = 0 \/ cached'[k] >= Begins(k)
    BY <1>1, <1>2 DEF CacheInv
<1>4. /\ query' \in [Queries -> [at : {"new", "ask", "compute", "keep", "done"}, key : Nat, answer : Nat]]
      /\ \A r \in Queries : query'[r].key = query[r].key /\ query'[r].answer = query[r].answer
      /\ \A r \in Queries : query'[r].at = query[r].at \/ r = q
    BY <1>1 DEF CacheInv
<1>5. UNCHANGED <<data, epoch, step, floor, since>>
    BY DEF Put
<1> QED
    BY <1>2, <1>3, <1>4, <1>5 DEF CacheInv

LEMMA CacheNextInv == ASSUME MaxChanges \in Nat, CacheInv, [CacheNext]_cache PROVE CacheInv'
<1>1. CASE Watching
    BY <1>1, WatchingInv
<1>2. ASSUME NEW q \in Queries, Answering(q) PROVE CacheInv'
    BY <1>2, AskInv, LookupInv, ComputeInv, PutInv DEF Answering
<1>3. CASE UNCHANGED cache
    BY <1>3 DEF cache, CacheInv
<1> QED
    BY <1>1, <1>2, <1>3 DEF CacheNext

\* GetContextMode never answers a query from before the last invalidation that
\* returned before it began, however long another query takes to keep what it
\* computed: the key holds the epoch that was read first.
THEOREM AnswersStayFresh == ASSUME MaxChanges \in Nat PROVE CacheSpec => []FreshAfterInvalidation
<1>1. CacheInit => CacheInv
    BY CacheInitInv
<1>2. CacheInv /\ [CacheNext]_cache => CacheInv'
    BY CacheNextInv
<1>3. CacheInv => FreshAfterInvalidation
    BY DEF CacheInv, FreshAfterInvalidation, Begins
<1> QED
    BY <1>1, <1>2, <1>3, PTL DEF CacheSpec

-----------------------------------------------------------------------------
(* The search index: its documents and tables                              *)

InTable(t, d) == d.id \in DOMAIN t /\ t[d.id] = d.text

\* No two of the documents have one id.
Apart(docs) == \A d, e \in docs : d.id = e.id => d = e

LEMMA DocsFinite ==
    /\ IsFiniteSet(DocIds) /\ IsFiniteSet(Doc)
    /\ \A docs \in SUBSET Doc : IsFiniteSet(docs) /\ Cardinality(docs) \in Nat
<1>1. IsFiniteSet(DocIds)
    <2>1. IsFiniteSet(1 .. MaxId)
        BY SearchIndexAssumption, FS_Interval
    <2> QED
        BY <2>1, SearchIndexAssumption, FS_Union DEF DocIds
<1>2. IsFiniteSet(Words)
    BY SearchIndexAssumption, FS_Union DEF Words
<1>3. IsFiniteSet(DocIds \X Words)
    BY <1>1, <1>2, FS_Product
<1>4. IsFiniteSet(Doc)
    <2> DEFINE f == [x \in DocIds \X Words |-> [id |-> x[1], text |-> x[2]]]
    <2>1. f \in [DocIds \X Words -> Doc]
        BY DEF Doc
    <2>2. \A d \in Doc : \E x \in DocIds \X Words : f[x] = d
        <3> TAKE d \in Doc
        <3>1. /\ d.id \in DocIds /\ d.text \in Words
              /\ d = [id |-> d.id, text |-> d.text]
            BY DEF Doc
        <3>2. <<d.id, d.text>> \in DocIds \X Words
            BY <3>1
        <3>3. f[<<d.id, d.text>>] = d
            BY <3>1, <3>2
        <3> QED
            BY <3>2, <3>3
    <2>3. f \in Surjection(DocIds \X Words, Doc)
        BY <2>1, <2>2 DEF Surjection
    <2> QED
        BY <1>3, <2>3, FS_Surjection
<1> QED
    BY <1>1, <1>4, FS_Subset, FS_CardinalityType

LEMMA FewIds ==
    ASSUME NEW docs \in SUBSET Doc
    PROVE  /\ IdsOf(docs) \in SUBSET DocIds /\ IsFiniteSet(IdsOf(docs))
           /\ Cardinality(IdsOf(docs)) \in Nat /\ Cardinality(IdsOf(docs)) <= Cardinality(docs)
<1> DEFINE f == [d \in docs |-> d.id]
<1>1. IdsOf(docs) \in SUBSET DocIds
    BY DEF IdsOf, Doc
<1>2. f \in Surjection(docs, IdsOf(docs))
    BY DEF Surjection, IdsOf
<1> QED
    BY <1>1, <1>2, DocsFinite, FS_Surjection, FS_Subset, FS_CardinalityType

LEMMA IsTable ==
    ASSUME NEW ids \in SUBSET DocIds, NEW t \in [ids -> Words]
    PROVE  t \in Table
BY DEF Table

LEMMA TableIs ==
    ASSUME NEW t \in Table
    PROVE  DOMAIN t \in SUBSET DocIds /\ t \in [DOMAIN t -> Words]
<1>1. PICK ids \in SUBSET DocIds : t \in [ids -> Words]
    BY DEF Table
<1> QED
    BY <1>1

\* What PutDocs and DropDocs do to a table.
LEMMA PutFinds ==
    ASSUME NEW t \in Table, NEW docs \in SUBSET Doc, Apart(docs)
    PROVE  /\ PutDocs(t, docs) \in Table
           /\ \A d \in docs : InTable(PutDocs(t, docs), d)
           /\ \A i \in DOMAIN t \ IdsOf(docs) : i \in DOMAIN PutDocs(t, docs) /\ PutDocs(t, docs)[i] = t[i]
           /\ DOMAIN PutDocs(t, docs) = DOMAIN t \cup IdsOf(docs)
<1> DEFINE u == PutDocs(t, docs)
<1>1. DOMAIN t \in SUBSET DocIds /\ t \in [DOMAIN t -> Words]
    BY TableIs
<1>2. IdsOf(docs) \in SUBSET DocIds
    BY FewIds
<1>3. \A d \in docs : TextIn(docs, d.id) = d.text /\ d.id \in IdsOf(docs)
    <2> TAKE d \in docs
    <2>1. (CHOOSE e \in docs : e.id = d.id) = d
        <3>1. \E e \in docs : e.id = d.id
            OBVIOUS
        <3> DEFINE c == CHOOSE e \in docs : e.id = d.id
        <3>2. c \in docs /\ c.id = d.id
            BY <3>1
        <3> QED
            BY <3>2 DEF Apart
    <2> QED
        BY <2>1 DEF TextIn, IdsOf
<1>4. \A i \in IdsOf(docs) : TextIn(docs, i) \in Words
    <2> TAKE i \in IdsOf(docs)
    <2>1. PICK d \in docs : d.id = i
        BY DEF IdsOf
    <2> QED
        BY <2>1, <1>3 DEF Doc
<1>5. /\ DOMAIN u = DOMAIN t \cup IdsOf(docs)
      /\ \A i \in IdsOf(docs) : u[i] = TextIn(docs, i)
      /\ \A i \in DOMAIN t \ IdsOf(docs) : u[i] = t[i]
    BY DEF PutDocs
<1>6. u \in [DOMAIN t \cup IdsOf(docs) -> Words]
    BY <1>1, <1>4 DEF PutDocs
<1>7. u \in Table
    BY <1>1, <1>2, <1>6, IsTable
<1> HIDE DEF u
<1>8. /\ u \in Table
      /\ \A d \in docs : InTable(u, d)
      /\ \A i \in DOMAIN t \ IdsOf(docs) : i \in DOMAIN u /\ u[i] = t[i]
      /\ DOMAIN u = DOMAIN t \cup IdsOf(docs)
    BY <1>3, <1>5, <1>7 DEF InTable
<1> QED
    BY <1>8 DEF u

LEMMA DropLeaves ==
    ASSUME NEW t \in Table, NEW ids
    PROVE  /\ DropDocs(t, ids) \in Table
           /\ DOMAIN DropDocs(t, ids) = DOMAIN t \ ids
           /\ \A i \in DOMAIN t \ ids : DropDocs(t, ids)[i] = t[i]
<1>1. DOMAIN t \in SUBSET DocIds /\ t \in [DOMAIN t -> Words]
    BY TableIs
<1>2. DropDocs(t, ids) \in [DOMAIN t \ ids -> Words]
    BY <1>1 DEF DropDocs
<1>3. DOMAIN t \ ids \in SUBSET DocIds
    BY <1>1
<1>4. DropDocs(t, ids) \in Table
    BY <1>2, <1>3, IsTable
<1>5. DOMAIN DropDocs(t, ids) = DOMAIN t \ ids /\ \A i \in DOMAIN t \ ids : DropDocs(t, ids)[i] = t[i]
    BY DEF DropDocs
<1> QED
    BY <1>4, <1>5 DEF InTable

\* An engine that counts as many changes as it makes stays as near to its file.
LEMMA StillNear ==
    ASSUME NEW t \in Table, NEW u \in Table, NEW f \in Table, NEW ids \in SUBSET DocIds, NEW n \in Nat, NEW m \in Nat,
           \A i \in DocIds \ ids : (i \in DOMAIN u <=> i \in DOMAIN t) /\ (i \in DOMAIN t => u[i] = t[i]),
           Cardinality(ids) <= m,
           Cardinality(Differ(t, f)) <= n
    PROVE  Cardinality(Differ(u, f)) <= n + m
<1>1. DOMAIN t \in SUBSET DocIds /\ DOMAIN u \in SUBSET DocIds /\ DOMAIN f \in SUBSET DocIds
    BY TableIs
<1>2. Differ(t, f) \in SUBSET DocIds
    BY <1>1 DEF Differ
<1>3. Differ(u, f) \in SUBSET (Differ(t, f) \cup ids)
    <2> SUFFICES ASSUME NEW i \in Differ(u, f), i \notin ids PROVE i \in Differ(t, f)
        OBVIOUS
    <2>1. i \in DocIds \ ids
        BY <1>1 DEF Differ
    <2> QED
        BY <2>1, <1>1 DEF Differ
<1>4. /\ IsFiniteSet(Differ(t, f)) /\ IsFiniteSet(ids) /\ IsFiniteSet(Differ(t, f) \cap ids)
    BY <1>2, DocsFinite, FS_Subset
<1>5. /\ Cardinality(Differ(t, f)) \in Nat /\ Cardinality(ids) \in Nat /\ Cardinality(Differ(t, f) \cap ids) \in Nat
    BY <1>4, FS_CardinalityType
<1>6. /\ IsFiniteSet(Differ(t, f) \cup ids)
      /\ Cardinality(Differ(t, f) \cup ids) = Cardinality(Differ(t, f)) + Cardinality(ids) - Cardinality(Differ(t, f) \cap ids)
    BY <1>4, FS_Union
<1>7. /\ Cardinality(Differ(u, f)) <= Cardinality(Differ(t, f) \cup ids)
      /\ IsFiniteSet(Differ(u, f))
    BY <1>3, <1>6, FS_Subset
<1>8. Cardinality(Differ(u, f)) \in Nat
    BY <1>7, FS_CardinalityType
<1> QED
    BY <1>5, <1>6, <1>7, <1>8

LEMMA NoDifference ==
    ASSUME NEW t
    PROVE  Cardinality(Differ(t, t)) = 0
<1>1. Differ(t, t) = {}
    BY DEF Differ
<1> QED
    BY <1>1, FS_EmptySet

LEMMA ObservedSound ==
    ASSUME NEW s \in IDF, \A w \in Words : s.df[w] <= s.docCnt, NEW docs \in SUBSET Doc
    PROVE  Observe(s, docs) \in IDF /\ \A w \in Words : Observe(s, docs).df[w] <= Observe(s, docs).docCnt
<1> DEFINE with(w) == {d \in docs : d.text = w}
<1>1. s.docCnt \in Nat /\ s.df \in [Words -> Nat]
    BY DEF IDF
<1>2. Cardinality(docs) \in Nat /\ IsFiniteSet(docs)
    BY DocsFinite
<1>3. \A w \in Words : Cardinality(with(w)) \in Nat /\ Cardinality(with(w)) <= Cardinality(docs)
    <2> TAKE w \in Words
    <2>1. with(w) \in SUBSET docs
        OBVIOUS
    <2> QED
        BY <1>2, <2>1, FS_Subset, FS_CardinalityType
<1> HIDE DEF with
<1>4. \A w \in Words : s.df[w] \in Nat /\ s.df[w] + Cardinality(with(w)) \in Nat
    BY <1>1, <1>3
<1>5. s.docCnt + Cardinality(docs) \in Nat
    BY <1>1, <1>2
<1>6. [w \in Words |-> s.df[w] + Cardinality(with(w))] \in [Words -> Nat]
    BY <1>4
<1>7. Observe(s, docs) = [docCnt |-> s.docCnt + Cardinality(docs), df |-> [w \in Words |-> s.df[w] + Cardinality(with(w))]]
    BY DEF Observe, with
<1>8. Observe(s, docs) \in IDF
    BY <1>5, <1>6, <1>7 DEF IDF
<1>9. \A w \in Words : s.df[w] + Cardinality(with(w)) <= s.docCnt + Cardinality(docs)
    BY <1>1, <1>2, <1>3, <1>4
<1> QED
    BY <1>7, <1>8, <1>9

LEMMA NumberedFacts ==
    ASSUME NEW texts \in SUBSET Texts, NEW first \in 1 .. MaxId + 1, first + Cardinality(texts) <= MaxId + 1
    PROVE  /\ Cardinality(texts) \in Nat
           /\ Numbered(texts, first) \in SUBSET Symbol
           /\ Apart(Numbered(texts, first))
           /\ \A d \in Numbered(texts, first) : d.id \in first .. first + Cardinality(texts) - 1
<1> DEFINE n == Cardinality(texts)
           ids == first .. first + n - 1
           OnTo(f) == \A t \in texts : \E i \in ids : f[i] = t
           text == CHOOSE f \in [ids -> texts] : OnTo(f)
<1>1. IsFiniteSet(texts)
    BY SearchIndexAssumption, FS_Subset
<1>2. n \in Nat /\ ExistsBijection(1 .. n, texts)
    BY <1>1, FS_CardinalityType
<1>3. first \in Nat /\ MaxId \in Nat /\ first >= 1
    BY SearchIndexAssumption
<1>4. PICK b \in Bijection(1 .. n, texts) : TRUE
    BY <1>2 DEF ExistsBijection
<1>5. b \in [1 .. n -> texts] /\ \A t \in texts : \E k \in 1 .. n : b[k] = t
    BY <1>4 DEF Bijection, Surjection, Injection
<1> HIDE DEF n
<1>6. \E f \in [ids -> texts] : OnTo(f)
    <2> DEFINE f == [i \in ids |-> b[i - first + 1]]
    <2>1. \A i \in ids : i - first + 1 \in 1 .. n
        BY <1>2, <1>3
    <2>2. f \in [ids -> texts]
        BY <2>1, <1>5
    <2>3. ASSUME NEW t \in texts PROVE \E i \in ids : f[i] = t
        <3>1. PICK k \in 1 .. n : b[k] = t
            BY <1>5
        <3>2. k + first - 1 \in ids /\ (k + first - 1) - first + 1 = k
            BY <1>2, <1>3
        <3>3. f[k + first - 1] = t
            BY <3>1, <3>2
        <3> QED
            BY <3>2, <3>3
    <2> QED
        BY <2>2, <2>3
<1>7. text \in [ids -> texts]
    BY <1>6
<1>8. Numbered(texts, first) = {[id |-> i, text |-> text[i]] : i \in ids}
    BY DEF Numbered, n
<1> HIDE DEF text
<1>9. \A d \in Numbered(texts, first) : d.id \in ids /\ d = [id |-> d.id, text |-> text[d.id]]
    BY <1>8
<1>10. ids \in SUBSET (1 .. MaxId)
    BY <1>2, <1>3 DEF n
<1>11. Numbered(texts, first) \in SUBSET Symbol
    <2> SUFFICES ASSUME NEW d \in Numbered(texts, first) PROVE d \in Symbol
        OBVIOUS
    <2>1. d.id \in 1 .. MaxId /\ text[d.id] \in Texts
        BY <1>7, <1>9, <1>10
    <2> QED
        BY <1>9, <2>1 DEF Symbol
<1>12. Apart(Numbered(texts, first))
    BY <1>9 DEF Apart
<1> QED
    BY <1>2, <1>9, <1>11, <1>12 DEF n

-----------------------------------------------------------------------------
(* Types                                                                   *)

EngineStates == [docs : Table, contents : Table, dirties : Nat, saved : BOOLEAN]
Images == [docs : Table, contents : Table]
Stores == [Paths -> (SUBSET Symbol) \cup {Unknown}]
TaskOps == {"none", "open", "build", "index", "remove"}
TaskStates == [op : TaskOps, paths : SUBSET Paths, todo : SUBSET Doc, now : SUBSET Doc, at : Steps]

IndexTyped ==
    /\ store \in Stores /\ nextID \in 1 .. MaxId + 1
    /\ kept \in [store : Stores, nextID : 1 .. MaxId + 1] /\ kept.nextID \in 1 .. nextID
    /\ runs \in 0 .. MaxRuns /\ up \in BOOLEAN
    /\ engine \in [Engines -> EngineStates] /\ file \in [Engines -> Images \cup {Torn}]
    /\ idf \in IDF /\ idfFile \in IDF \cup {Torn}
    /\ task \in TaskStates
    /\ gaps \in SUBSET Paths /\ tasks \in 0 .. MaxTasks /\ faults \in 0 .. MaxFaults

LEMMA NoTableTyped == NoTable \in Table /\ DOMAIN NoTable = {}
<1>1. NoTable \in [{} -> Words] /\ DOMAIN NoTable = {}
    BY DEF NoTable
<1> QED
    BY <1>1, IsTable

LEMMA NewEngineTyped == NewEngine \in EngineStates
BY NoTableTyped DEF NewEngine, EngineStates

LEMMA IdleTyped == Idle \in TaskStates
BY DEF Idle, TaskStates, TaskOps, Steps

LEMMA NoIDFTyped == NoIDF \in IDF /\ \A w \in Words : NoIDF.df[w] <= NoIDF.docCnt
BY DEF NoIDF, IDF

LEMMA OwnTyped ==
    ASSUME NEW st \in Stores, NEW p \in Paths
    PROVE  /\ [id |-> p, text |-> p] \in Doc
           /\ st[p] # Unknown => st[p] \in SUBSET Symbol /\ st[p] \in SUBSET Doc
<1>1. [id |-> p, text |-> p] \in Doc
    BY DEF Doc, DocIds, Words
<1>2. Symbol \in SUBSET Doc
    BY DEF Symbol, Doc, DocIds, Words
<1>3. st[p] \in SUBSET Symbol \/ st[p] = Unknown
    BY DEF Stores
<1> QED
    BY <1>1, <1>2, <1>3

LEMMA DocsTyped ==
    ASSUME store \in Stores, NEW p \in Paths
    PROVE  DocsOf(p) \in SUBSET Doc
BY OwnTyped DEF DocsOf

LEMMA IndexTypedInit == IndexInit => IndexTyped
<1> SUFFICES ASSUME IndexInit PROVE IndexTyped
    OBVIOUS
<1>1. store \in Stores /\ nextID = 1 /\ kept = [store |-> store, nextID |-> 1]
    BY DEF IndexInit, Stores
<1>2. engine \in [Engines -> EngineStates]
    BY NewEngineTyped DEF IndexInit
<1>3. file \in [Engines -> Images \cup {Torn}]
    BY NoTableTyped DEF IndexInit, Images
<1>4. MaxId \in Nat /\ MaxRuns \in Nat /\ MaxTasks \in Nat /\ MaxFaults \in Nat
    BY SearchIndexAssumption
<1>5. /\ runs = 0 /\ up = FALSE /\ idf = NoIDF /\ idfFile = NoIDF /\ task = Idle
      /\ tasks = 0 /\ gaps = {} /\ faults = 0
    BY DEF IndexInit
<1>6. kept \in [store : Stores, nextID : 1 .. MaxId + 1] /\ kept.nextID \in 1 .. nextID
    BY <1>1, <1>4
<1>7. nextID \in 1 .. MaxId + 1 /\ runs \in 0 .. MaxRuns /\ tasks \in 0 .. MaxTasks /\ faults \in 0 .. MaxFaults
    BY <1>1, <1>4, <1>5
<1>8. up \in BOOLEAN /\ idf \in IDF /\ idfFile \in IDF \cup {Torn} /\ task \in TaskStates /\ gaps \in SUBSET Paths
    BY <1>5, IdleTyped, NoIDFTyped
<1> QED
    BY <1>1, <1>2, <1>3, <1>6, <1>7, <1>8 DEF IndexTyped

-----------------------------------------------------------------------------
(* What the writes do to the engines                                       *)

SameBeside(t, u, ids) ==
    \A i \in DocIds \ ids : (i \in DOMAIN u <=> i \in DOMAIN t) /\ (i \in DOMAIN t => u[i] = t[i])

\* A table t of documents is rewritten to u by the task.
Rewritten(t, u) ==
    /\ u \in Table /\ SameBeside(t, u, IdsOf(task.now))
    /\ task.op = "remove" => \A i \in IdsOf(task.now) : i \notin DOMAIN u
    /\ task.op # "remove" => \A d \in task.now : InTable(u, d)

LEMMA PutRewrites ==
    ASSUME IndexTyped, Apart(task.now), NEW t \in Table, task.op # "remove"
    PROVE  Rewritten(t, PutDocs(t, task.now))
<1> DEFINE docs == task.now
           u == PutDocs(t, docs)
<1>1. docs \in SUBSET Doc /\ Apart(docs)
    BY DEF IndexTyped, TaskStates
<1> HIDE DEF docs
<1>2. /\ u \in Table
      /\ \A d \in docs : InTable(u, d)
      /\ \A i \in DOMAIN t \ IdsOf(docs) : i \in DOMAIN u /\ u[i] = t[i]
      /\ DOMAIN u = DOMAIN t \cup IdsOf(docs)
    BY <1>1, PutFinds
<1> HIDE DEF u
<1>3. Rewritten(t, u)
    BY <1>2 DEF Rewritten, SameBeside, docs
<1> QED
    BY <1>3 DEF u, docs

LEMMA DropRewrites ==
    ASSUME NEW t \in Table, task.op = "remove"
    PROVE  Rewritten(t, DropDocs(t, IdsOf(task.now)))
<1> DEFINE ids == IdsOf(task.now)
           u == DropDocs(t, ids)
<1>1. /\ u \in Table
      /\ DOMAIN u = DOMAIN t \ ids
      /\ \A i \in DOMAIN t \ ids : u[i] = t[i]
    BY DropLeaves
<1> HIDE DEF u
<1>2. Rewritten(t, u)
    BY <1>1 DEF Rewritten, SameBeside
<1> QED
    BY <1>2 DEF u

LEMMA DocsReplaced ==
    ASSUME NEW s \in [Engines -> EngineStates], NEW e \in Engines, NEW t \in Table, NEW n \in Nat,
           NEW f, f = [s EXCEPT ![e].docs = t, ![e].dirties = n]
    PROVE  /\ f \in [Engines -> EngineStates]
           /\ f[e].docs = t /\ f[e].dirties = n /\ f[e].contents = s[e].contents /\ f[e].saved = s[e].saved
           /\ \A x \in Engines : x # e => f[x] = s[x]
<1>1. s[e] \in EngineStates
    OBVIOUS
<1>2. f[e] = [s[e] EXCEPT !.docs = t, !.dirties = n]
    OBVIOUS
<1>3. f[e] \in EngineStates
    BY <1>1, <1>2 DEF EngineStates
<1>4. \A x \in Engines : x # e => f[x] = s[x]
    OBVIOUS
<1>5. f \in [Engines -> EngineStates]
    BY <1>3, <1>4
<1> QED
    BY <1>1, <1>2, <1>4, <1>5 DEF EngineStates

\* The documents of one engine are rewritten and as many changes counted.
Rewrites(e) ==
    /\ engine' \in [Engines -> EngineStates]
    /\ Rewritten(engine[e].docs, engine'[e].docs)
    /\ engine'[e].dirties >= engine[e].dirties + Cardinality(IdsOf(task.now))
    /\ engine'[e].contents = engine[e].contents /\ engine'[e].saved = engine[e].saved
    /\ \A x \in Engines : x # e => engine'[x] = engine[x]

LEMMA WriteDoes ==
    ASSUME IndexTyped, Apart(task.now), NEW e \in Engines,
           IF task.op = "remove"
           THEN engine' = [engine EXCEPT ![e].docs = DropDocs(engine[e].docs, IdsOf(task.now)),
                                         ![e].dirties = engine[e].dirties + Cardinality(IdsOf(task.now))]
           ELSE engine' = [engine EXCEPT ![e].docs = PutDocs(engine[e].docs, task.now),
                                         ![e].dirties = engine[e].dirties + Cardinality(task.now)]
    PROVE  Rewrites(e)
<1> DEFINE t == engine[e].docs
           d == engine[e].dirties
           k == Cardinality(IdsOf(task.now))
           c == Cardinality(task.now)
<1>1. engine \in [Engines -> EngineStates] /\ t \in Table /\ d \in Nat /\ task.now \in SUBSET Doc
    BY DEF IndexTyped, TaskStates, EngineStates
<1>2. k \in Nat /\ c \in Nat /\ k <= c
    BY <1>1, FewIds, DocsFinite
<1> HIDE DEF t, d, k, c
<1>3. CASE task.op = "remove"
    <2> DEFINE u == DropDocs(t, IdsOf(task.now))
    <2>1. engine' = [engine EXCEPT ![e].docs = u, ![e].dirties = d + k]
        BY <1>3 DEF t, d, k
    <2>2. Rewritten(t, u) /\ u \in Table
        BY <1>1, <1>3, DropRewrites DEF Rewritten
    <2> HIDE DEF u
    <2>3. d + k \in Nat
        BY <1>1, <1>2
    <2>4. /\ engine' \in [Engines -> EngineStates]
          /\ engine'[e].docs = u /\ engine'[e].dirties = d + k
          /\ engine'[e].contents = engine[e].contents /\ engine'[e].saved = engine[e].saved
          /\ \A x \in Engines : x # e => engine'[x] = engine[x]
        BY <1>1, <2>1, <2>2, <2>3, DocsReplaced
    <2> QED
        BY <2>2, <2>3, <2>4 DEF Rewrites, t, d, k
<1>4. CASE task.op # "remove"
    <2> DEFINE u == PutDocs(t, task.now)
    <2>1. engine' = [engine EXCEPT ![e].docs = u, ![e].dirties = d + c]
        BY <1>4 DEF t, d, c
    <2>2. Rewritten(t, u) /\ u \in Table
        BY <1>1, <1>4, PutRewrites DEF Rewritten
    <2> HIDE DEF u
    <2>3. d + c \in Nat /\ d + c >= d + k
        BY <1>1, <1>2
    <2>4. /\ engine' \in [Engines -> EngineStates]
          /\ engine'[e].docs = u /\ engine'[e].dirties = d + c
          /\ engine'[e].contents = engine[e].contents /\ engine'[e].saved = engine[e].saved
          /\ \A x \in Engines : x # e => engine'[x] = engine[x]
        BY <1>1, <2>1, <2>2, <2>3, DocsReplaced
    <2> QED
        BY <2>2, <2>3, <2>4 DEF Rewrites, t, d, k
<1> QED
    BY <1>3, <1>4

LEMMA WriteFtsDoes ==
    ASSUME IndexTyped, Apart(task.now), WriteFts
    PROVE  Rewrites("fts")
<1>1. "fts" \in Engines
    BY DEF Engines
<1>2. IF task.op = "remove"
      THEN engine' = [engine EXCEPT !["fts"].docs = DropDocs(engine["fts"].docs, IdsOf(task.now)),
                                    !["fts"].dirties = engine["fts"].dirties + Cardinality(IdsOf(task.now))]
      ELSE engine' = [engine EXCEPT !["fts"].docs = PutDocs(engine["fts"].docs, task.now),
                                    !["fts"].dirties = engine["fts"].dirties + Cardinality(task.now)]
    BY DEF WriteFts, FtsRemove, FtsIndex
<1> QED
    BY <1>1, <1>2, WriteDoes

LEMMA WriteVecDoes ==
    ASSUME IndexTyped, Apart(task.now), WriteVec
    PROVE  Rewrites("vec")
<1>1. "vec" \in Engines
    BY DEF Engines
<1>2. IF task.op = "remove"
      THEN engine' = [engine EXCEPT !["vec"].docs = DropDocs(engine["vec"].docs, IdsOf(task.now)),
                                    !["vec"].dirties = engine["vec"].dirties + Cardinality(IdsOf(task.now))]
      ELSE engine' = [engine EXCEPT !["vec"].docs = PutDocs(engine["vec"].docs, task.now),
                                    !["vec"].dirties = engine["vec"].dirties + Cardinality(task.now)]
    BY DEF WriteVec, VecDelete, VecAdd
<1> QED
    BY <1>1, <1>2, WriteDoes

LEMMA WriteContentDoes ==
    ASSUME IndexTyped, WriteContent
    PROVE  \E d \in task.now :
              /\ task' = [task EXCEPT !.now = @ \ {d}, !.at = "save content"]
              /\ engine' \in [Engines -> EngineStates]
              /\ InTable(engine'["vec"].contents, d)
              /\ SameBeside(engine["vec"].contents, engine'["vec"].contents, {d.id})
              /\ engine'["vec"].dirties = engine["vec"].dirties + 1
              /\ engine'["vec"].docs = engine["vec"].docs /\ engine'["vec"].saved = engine["vec"].saved
              /\ engine'["fts"] = engine["fts"]
<1>1. PICK d \in task.now : SetContent(d) /\ task' = [task EXCEPT !.now = @ \ {d}, !.at = "save content"]
    BY DEF WriteContent
<1>2. engine \in [Engines -> EngineStates] /\ d \in Doc /\ engine["vec"] \in EngineStates
    BY DEF IndexTyped, TaskStates, Engines
<1> DEFINE t == engine["vec"].contents
           n == engine["vec"].dirties
           docs == {d}
           u == PutDocs(t, docs)
<1>3. t \in Table /\ n \in Nat /\ n + 1 \in Nat
    BY <1>2 DEF EngineStates
<1>4. engine' = [engine EXCEPT !["vec"].contents = u, !["vec"].dirties = n + 1]
    BY <1>1 DEF SetContent
<1>5. Apart(docs) /\ docs \in SUBSET Doc /\ IdsOf(docs) = {d.id} /\ d \in docs
    BY <1>2 DEF Apart, IdsOf
<1>v. "vec" \in Engines /\ "fts" \in Engines
    BY DEF Engines
<1> HIDE DEF t, n, docs
<1>6. /\ u \in Table /\ InTable(u, d)
      /\ \A i \in DOMAIN t \ IdsOf(docs) : i \in DOMAIN u /\ u[i] = t[i]
      /\ DOMAIN u = DOMAIN t \cup IdsOf(docs)
    BY <1>3, <1>5, PutFinds
<1> HIDE DEF u
<1>7. SameBeside(t, u, {d.id})
    BY <1>5, <1>6 DEF SameBeside
<1>8. /\ engine' \in [Engines -> EngineStates]
      /\ engine'["vec"].contents = u /\ engine'["vec"].dirties = n + 1
      /\ engine'["vec"].docs = engine["vec"].docs /\ engine'["vec"].saved = engine["vec"].saved
      /\ \A x \in Engines : x # "vec" => engine'[x] = engine[x]
    <2>1. engine["vec"] \in EngineStates /\ u \in Table /\ n + 1 \in Nat
        BY <1>2, <1>3, <1>6
    <2>2. engine'["vec"] = [engine["vec"] EXCEPT !.contents = u, !.dirties = n + 1]
        BY <1>2, <1>4, <1>v
    <2>3. /\ engine'["vec"] \in EngineStates
          /\ engine'["vec"].contents = u /\ engine'["vec"].dirties = n + 1
          /\ engine'["vec"].docs = engine["vec"].docs /\ engine'["vec"].saved = engine["vec"].saved
        BY <2>1, <2>2 DEF EngineStates
    <2>4. \A x \in Engines : x # "vec" => engine'[x] = engine[x]
        BY <1>2, <1>4
    <2>5. engine' = [engine EXCEPT !["vec"] = [engine["vec"] EXCEPT !.contents = u, !.dirties = n + 1]]
        BY <1>2, <1>4, <1>v
    <2>6. engine' \in [Engines -> EngineStates]
        BY <1>2, <2>2, <2>3, <2>4, <2>5
    <2> QED
        BY <2>3, <2>4, <2>6
<1> QED
    BY <1>1, <1>6, <1>7, <1>8, <1>v DEF t, n

\* A save, done or failed, changes no table in memory.
Saves ==
    /\ engine' \in [Engines -> EngineStates] /\ file' \in [Engines -> Images \cup {Torn}]
    /\ faults' \in 0 .. MaxFaults /\ faults' >= faults
    /\ \A e \in Engines :
          /\ engine'[e].docs = engine[e].docs /\ engine'[e].contents = engine[e].contents
          /\ engine'[e].saved = engine[e].saved
          /\ \/ engine'[e].dirties = engine[e].dirties /\ (file'[e] = file[e] \/ file'[e] = Torn)
             \/ engine'[e].dirties = 0 /\ file'[e] = Image(e)

LEMMA MaybeSaveDoes ==
    ASSUME IndexTyped, MaybeSave
    PROVE  Saves
<1> DEFINE e == EngineOf(task.at)
<1>1. /\ engine \in [Engines -> EngineStates] /\ file \in [Engines -> Images \cup {Torn}]
      /\ faults \in 0 .. MaxFaults /\ MaxFaults \in Nat
    BY SearchIndexAssumption DEF IndexTyped
<1>2. e \in Engines
    BY DEF EngineOf, Engines
<1>3. Save(e) \/ UNCHANGED <<engine, file, faults>>
    BY DEF MaybeSave
<1> HIDE DEF e
<1>4. CASE UNCHANGED <<engine, file, faults>>
    BY <1>1, <1>4 DEF Saves
<1>5. CASE Save(e)
    <2>1. CASE /\ file' = [file EXCEPT ![e] = Image(e)]
               /\ engine' = [engine EXCEPT ![e].dirties = 0]
               /\ UNCHANGED faults
        <3>1. engine[e] \in EngineStates
            BY <1>1, <1>2
        <3>2. Image(e) \in Images
            BY <3>1 DEF Image, Images, EngineStates
        <3>3. file' \in [Engines -> Images \cup {Torn}] /\ file'[e] = Image(e) /\ \A x \in Engines : x # e => file'[x] = file[x]
            BY <1>1, <1>2, <2>1, <3>2
        <3>4. /\ engine'[e] = [engine[e] EXCEPT !.dirties = 0]
              /\ \A x \in Engines : x # e => engine'[x] = engine[x]
              /\ engine' = [engine EXCEPT ![e] = [engine[e] EXCEPT !.dirties = 0]]
            BY <1>1, <1>2, <2>1
        <3>5. /\ engine'[e] \in EngineStates /\ engine'[e].dirties = 0
              /\ engine'[e].docs = engine[e].docs /\ engine'[e].contents = engine[e].contents /\ engine'[e].saved = engine[e].saved
            BY <3>1, <3>4 DEF EngineStates
        <3>6. engine' \in [Engines -> EngineStates]
            BY <1>1, <3>4, <3>5
        <3> QED
            BY <1>1, <2>1, <3>3, <3>4, <3>5, <3>6 DEF Saves
    <2>2. CASE /\ faults < MaxFaults
               /\ faults' = faults + 1
               /\ file' \in {file, [file EXCEPT ![e] = Torn]}
               /\ UNCHANGED engine
        <3>1. /\ file' \in [Engines -> Images \cup {Torn}]
              /\ \A x \in Engines : file'[x] = file[x] \/ file'[x] = Torn
            BY <1>1, <1>2, <2>2
        <3>2. faults' \in 0 .. MaxFaults /\ faults' >= faults
            BY <1>1, <2>2
        <3> QED
            BY <1>1, <2>2, <3>1, <3>2 DEF Saves
    <2> QED
        BY <1>5, <2>1, <2>2 DEF Save
<1> QED
    BY <1>3, <1>4, <1>5

-----------------------------------------------------------------------------
(* Types are kept                                                          *)

Keyed(st, next) ==
    \A p \in Paths : st[p] # Unknown =>
        \A d \in st[p] :
            /\ d.id < next
            /\ \A q \in Paths : st[q] # Unknown => \A e \in st[q] : d.id = e.id => p = q /\ d = e

\* The documents a file has under its path and its symbols.
Own(p) == {[id |-> p, text |-> p]} \cup (IF store[p] = Unknown THEN {} ELSE store[p])

\* What a task still has to do belongs to its files, which are all cut short.
TaskOwn ==
    /\ ~up => task = Idle
    /\ task.op \in {"none", "open"} => task.todo = {} /\ task.at = "next"
    /\ task.at = "next" => task.now = {}
    /\ task.op = "open" => gaps = Paths
    /\ task.op # "none" => task.paths \subseteq gaps
    /\ \A d \in task.todo \cup task.now : \E p \in task.paths : d \in Own(p)

LEMMA PathsAreNotIds == \A p \in Paths : \A d \in Symbol : d.id # p
BY SearchIndexAssumption DEF Symbol

LEMMA OwnApart ==
    ASSUME store \in Stores, Keyed(store, nextID), NEW p \in Paths, NEW q \in Paths,
           NEW d \in Own(p), NEW e \in Own(q), d.id = e.id
    PROVE  p = q /\ d = e
<1>1. /\ d = [id |-> p, text |-> p] \/ (store[p] # Unknown /\ d \in store[p] /\ d \in Symbol)
      /\ e = [id |-> q, text |-> q] \/ (store[q] # Unknown /\ e \in store[q] /\ e \in Symbol)
    BY OwnTyped DEF Own
<1>2. CASE d = [id |-> p, text |-> p] /\ e = [id |-> q, text |-> q]
    BY <1>2
<1>3. CASE d = [id |-> p, text |-> p] /\ e \in Symbol
    BY <1>3, PathsAreNotIds
<1>4. CASE e = [id |-> q, text |-> q] /\ d \in Symbol
    BY <1>4, PathsAreNotIds
<1>5. CASE store[p] # Unknown /\ d \in store[p] /\ store[q] # Unknown /\ e \in store[q]
    BY <1>5 DEF Keyed
<1> QED
    BY <1>1, <1>2, <1>3, <1>4, <1>5

LEMMA DocsAreOwn ==
    ASSUME NEW p \in Paths
    PROVE  DocsOf(p) \subseteq Own(p)
BY DEF DocsOf, Own

LEMMA NowApart ==
    ASSUME IndexTyped, Keyed(store, nextID), TaskOwn
    PROVE  Apart(task.now)
<1>1. store \in Stores /\ task.paths \in SUBSET Paths
    BY DEF IndexTyped, TaskStates
<1> SUFFICES ASSUME NEW d \in task.now, NEW e \in task.now, d.id = e.id PROVE d = e
    BY DEF Apart
<1>2. PICK p \in task.paths : d \in Own(p)
    BY DEF TaskOwn
<1>3. PICK q \in task.paths : e \in Own(q)
    BY DEF TaskOwn
<1> QED
    BY <1>1, <1>2, <1>3, OwnApart

LEMMA FromFile ==
    ASSUME file \in [Engines -> Images \cup {Torn}]
    PROVE  FtsLoaded \in EngineStates /\ VecLoaded \in EngineStates
<1>1. /\ file["fts"] # Torn => file["fts"].docs \in Table
      /\ file["vec"] # Torn => file["vec"].docs \in Table /\ file["vec"].contents \in Table
    BY DEF Images, Engines
<1>2. FtsLoaded \in EngineStates
    BY <1>1, NewEngineTyped DEF FtsLoaded, EngineStates
<1>3. VecLoaded \in EngineStates
    BY <1>1, NewEngineTyped DEF VecLoaded, EngineStates
<1> QED
    BY <1>2, <1>3

LEMMA IndexTypedNext == IndexTyped /\ Keyed(store, nextID) /\ TaskOwn /\ [IndexNext]_indexVars => IndexTyped'
<1> SUFFICES ASSUME IndexTyped, Keyed(store, nextID), TaskOwn, [IndexNext]_indexVars PROVE IndexTyped'
    OBVIOUS
<1> USE DEF IndexTyped
<1>a. /\ MaxId \in Nat /\ MaxRuns \in Nat /\ MaxTasks \in Nat /\ MaxFaults \in Nat
    BY SearchIndexAssumption
<1>t. /\ task.op \in TaskOps /\ task.paths \in SUBSET Paths /\ task.todo \in SUBSET Doc /\ task.now \in SUBSET Doc /\ task.at \in Steps
      /\ task = [op |-> task.op, paths |-> task.paths, todo |-> task.todo, now |-> task.now, at |-> task.at]
    BY DEF TaskStates
<1>k. kept.store \in Stores /\ kept.nextID \in 1 .. MaxId + 1 /\ kept.nextID \in 1 .. nextID
    OBVIOUS
<1>n. [store |-> store, nextID |-> nextID] \in [store : Stores, nextID : 1 .. MaxId + 1] /\ nextID \in 1 .. nextID
    BY <1>a
<1>w. Apart(task.now)
    BY NowApart
<1>1. CASE Open
    <2>1. engine' \in [Engines -> EngineStates]
        BY <1>1, FromFile DEF Open
    <2>2. idf' \in IDF
        BY <1>1, NoIDFTyped DEF Open, LoadIDF
    <2>3. task' \in TaskStates
        BY <1>1, IdleTyped DEF Open, TaskStates, Idle, TaskOps
    <2>4. runs' \in 0 .. MaxRuns /\ up' \in BOOLEAN
        BY <1>1, <1>a DEF Open
    <2>5. /\ store' = kept.store /\ nextID' = kept.nextID /\ gaps' = Paths
          /\ UNCHANGED <<tasks, kept, file, idfFile, faults>>
        BY <1>1 DEF Open
    <2>6. kept'.nextID \in 1 .. nextID'
        BY <2>5, <1>k
    <2> QED
        BY <1>k, <2>1, <2>2, <2>3, <2>4, <2>5, <2>6
<1>2. CASE Keep
    BY <1>2, <1>n DEF Keep
<1>3. CASE SaveIDF
    <2>1. idfFile' \in IDF \cup {Torn} /\ faults' \in 0 .. MaxFaults
        BY <1>3, <1>a DEF SaveIDF
    <2> QED
        BY <1>3, <2>1 DEF SaveIDF
<1>4. CASE CloseStore
    <2>1. engine' \in [Engines -> EngineStates] /\ idf' \in IDF /\ task' \in TaskStates /\ gaps' = Paths /\ up' \in BOOLEAN
        BY <1>4, NewEngineTyped, NoIDFTyped, IdleTyped DEF CloseStore
    <2> QED
        BY <1>4, <1>n, <2>1 DEF CloseStore
<1>5. CASE Kill
    <2>1. engine' \in [Engines -> EngineStates] /\ idf' \in IDF /\ task' \in TaskStates /\ gaps' = Paths /\ up' \in BOOLEAN
        BY <1>5, NewEngineTyped, NoIDFTyped, IdleTyped DEF Kill
    <2>2. idfFile' \in IDF \cup {Torn}
        BY <1>5 DEF Kill
    <2>3. file' \in [Engines -> Images \cup {Torn}]
        BY <1>5 DEF Kill
    <2> QED
        BY <1>5, <2>1, <2>2, <2>3 DEF Kill
<1>6. CASE BuildFromStore
    <2>1. PICK unread \in SUBSET Paths :
             task' = [Idle EXCEPT !.op = "build", !.paths = Paths \ unread,
                                  !.todo = UNION {DocsOf(p) : p \in Paths \ unread}]
        BY <1>6 DEF BuildFromStore
    <2>2. UNION {DocsOf(p) : p \in Paths \ unread} \in SUBSET Doc
        BY DocsTyped
    <2>3. task' \in TaskStates
        BY <2>1, <2>2 DEF Idle, TaskStates, TaskOps, Steps
    <2> QED
        BY <1>6, <2>3 DEF BuildFromStore
<1>7. ASSUME NEW p \in Paths, BuildAndIndex(p) PROVE IndexTyped'
    <2>1. PICK texts \in SUBSET Texts :
             /\ nextID + Cardinality(texts) <= MaxId + 1
             /\ nextID' = nextID + Cardinality(texts)
             /\ store' = [store EXCEPT ![p] = Numbered(texts, nextID)]
             /\ task' = [Idle EXCEPT !.op = "index", !.paths = {p},
                            !.todo = IF Numbered(texts, nextID) = {} THEN {[id |-> p, text |-> p]} ELSE Numbered(texts, nextID)]
        BY <1>7 DEF BuildAndIndex
    <2>2. Cardinality(texts) \in Nat /\ Numbered(texts, nextID) \in SUBSET Symbol
        BY <2>1, NumberedFacts
    <2> DEFINE symbols == Numbered(texts, nextID)
               todo == IF symbols = {} THEN {[id |-> p, text |-> p]} ELSE symbols
    <2>3. store' \in Stores
        BY <2>1, <2>2 DEF Stores
    <2>4. nextID' \in 1 .. MaxId + 1 /\ kept.nextID \in 1 .. nextID'
        BY <2>1, <2>2, <1>a
    <2>5. todo \in SUBSET Doc
        BY <2>2, OwnTyped DEF Symbol, Doc, DocIds, Words
    <2>6. task' = [op |-> "index", paths |-> {p}, todo |-> todo, now |-> {}, at |-> "next"]
        BY <2>1 DEF Idle
    <2> HIDE DEF symbols, todo
    <2>7. task' \in TaskStates
        BY <2>5, <2>6 DEF TaskStates, TaskOps, Steps
    <2>8. tasks' \in 0 .. MaxTasks
        BY <1>7, <1>a DEF BuildAndIndex
    <2> QED
        BY <1>7, <2>3, <2>4, <2>7, <2>8 DEF BuildAndIndex
<1>8. ASSUME NEW p \in Paths, RecordOnly(p) PROVE IndexTyped'
    <2>1. store' \in Stores
        BY <1>8 DEF RecordOnly, Stores
    <2> QED
        BY <1>8, <2>1 DEF RecordOnly
<1>9. ASSUME NEW p \in Paths, BuildAndRemove(p) PROVE IndexTyped'
    <2> DEFINE todo == {[id |-> p, text |-> p]} \cup (IF store[p] = Unknown THEN {} ELSE store[p])
    <2>1. todo \in SUBSET Doc
        BY OwnTyped
    <2>2. task' = [op |-> "remove", paths |-> {p}, todo |-> todo, now |-> {}, at |-> "next"]
        BY <1>9 DEF BuildAndRemove, Idle
    <2> HIDE DEF todo
    <2>3. task' \in TaskStates
        BY <2>1, <2>2 DEF TaskStates, TaskOps, Steps
    <2>4. tasks' \in 0 .. MaxTasks
        BY <1>9, <1>a DEF BuildAndRemove
    <2> QED
        BY <1>9, <2>3, <2>4 DEF BuildAndRemove
<1>10. CASE TakeDocs
    <2>1. PICK taken \in Batch : task' = [task EXCEPT !.todo = @ \ taken, !.now = taken, !.at = "fts"] /\ idf' = Observed(taken)
        BY <1>10 DEF TakeDocs
    <2>2. taken \in SUBSET Doc
        BY <2>1, <1>t DEF Batch
    <2>3. task' \in TaskStates
        BY <1>t, <2>1, <2>2 DEF TaskStates, Steps
    <2>4. idf' \in IDF
        <3>1. Observe(idf, taken) \in IDF
            <4>1. Cardinality(taken) \in Nat /\ IsFiniteSet(taken)
                BY <2>2, DocsFinite
            <4>2. ASSUME NEW w \in Words PROVE Cardinality({d \in taken : d.text = w}) \in Nat
                BY <4>1, FS_Subset, FS_CardinalityType
            <4>3. idf.docCnt \in Nat /\ idf.df \in [Words -> Nat]
                BY DEF IDF
            <4>4. \A w \in Words : idf.df[w] + Cardinality({d \in taken : d.text = w}) \in Nat
                BY <4>2, <4>3
            <4> QED
                BY <4>1, <4>3, <4>4 DEF Observe, IDF
        <3> QED
            BY <2>1, <3>1 DEF Observed
    <2> QED
        BY <1>10, <2>3, <2>4 DEF TakeDocs, UnchangedByTask
<1>11. CASE Finish
    <2>1. task' \in TaskStates /\ gaps' \in SUBSET Paths
        BY <1>11, IdleTyped DEF Finish, Finished
    <2> QED
        BY <1>11, <2>1 DEF Finish, UnchangedByTask
<1>12. CASE WriteFts
    <2>1. task' \in TaskStates
        BY <1>12, <1>t DEF WriteFts, TaskStates, Steps
    <2>2. engine' \in [Engines -> EngineStates]
        BY <1>12, <1>w, WriteFtsDoes DEF Rewrites
    <2> QED
        BY <1>12, <2>1, <2>2 DEF WriteFts, UnchangedByTask
<1>13. CASE WriteVec
    <2>1. task' \in TaskStates
        BY <1>13, <1>t DEF WriteVec, TaskStates, Steps
    <2>2. engine' \in [Engines -> EngineStates]
        BY <1>13, <1>w, WriteVecDoes DEF Rewrites
    <2> QED
        BY <1>13, <2>1, <2>2 DEF WriteVec, UnchangedByTask
<1>14. CASE WriteContent
    <2>1. PICK d \in task.now : /\ task' = [task EXCEPT !.now = @ \ {d}, !.at = "save content"]
                                /\ engine' \in [Engines -> EngineStates]
        BY <1>14, WriteContentDoes
    <2>2. task' \in TaskStates
        BY <2>1, <1>t DEF TaskStates, Steps
    <2> QED
        BY <1>14, <2>1, <2>2 DEF WriteContent, UnchangedByTask
<1>15. CASE AllContentSet
    <2>1. task' \in TaskStates
        BY <1>15, <1>t DEF AllContentSet, TaskStates, Steps
    <2> QED
        BY <1>15, <2>1 DEF AllContentSet, UnchangedByTask
<1>16. CASE MaybeSave
    <2>1. Saves
        BY <1>16, MaybeSaveDoes
    <2>2. task.at \in {"save fts", "save vec", "save content"}
        BY <1>16 DEF MaybeSave
    <2>3. Then(task.at) \in Steps
        BY <2>2 DEF Then, Steps
    <2>4. task' = Idle \/ task' = [task EXCEPT !.at = Then(@), !.now = IF Then(task.at) = "next" THEN {} ELSE @]
        BY <1>16 DEF MaybeSave
    <2>5. task' \in TaskStates
        BY <1>t, <2>3, <2>4, IdleTyped DEF TaskStates
    <2> QED
        BY <1>16, <2>1, <2>5 DEF MaybeSave, UnchangedByTask, Saves
<1>17. CASE UNCHANGED indexVars
    BY <1>17 DEF indexVars
<1> QED
    BY <1>1, <1>2, <1>3, <1>4, <1>5, <1>6, <1>7, <1>8, <1>9, <1>10, <1>11, <1>12, <1>13, <1>14, <1>15, <1>16, <1>17
    DEF IndexNext, Step

-----------------------------------------------------------------------------
(* Ids and tasks                                                           *)

StoresKeyed == Keyed(store, nextID) /\ Keyed(kept.store, kept.nextID)

LEMMA StoresKeyedInit == IndexInit => StoresKeyed
BY DEF IndexInit, StoresKeyed, Keyed

LEMMA StoresKeyedNext == IndexTyped /\ StoresKeyed /\ [IndexNext]_indexVars => StoresKeyed'
<1> SUFFICES ASSUME IndexTyped, StoresKeyed, [IndexNext]_indexVars PROVE StoresKeyed'
    OBVIOUS
<1>k. Keyed(store, nextID) /\ Keyed(kept.store, kept.nextID)
    BY DEF StoresKeyed
<1>t. store \in [Paths -> (SUBSET Symbol) \cup {Unknown}] /\ nextID \in 1 .. MaxId + 1 /\ MaxId \in Nat
    BY SearchIndexAssumption DEF IndexTyped, Stores
<1>1. CASE store' = kept.store /\ nextID' = kept.nextID /\ kept' = kept
    BY <1>1, <1>k DEF StoresKeyed, Keyed
<1>2. CASE kept' = [store |-> store, nextID |-> nextID] /\ UNCHANGED <<store, nextID>>
    BY <1>2, <1>k DEF StoresKeyed, Keyed
<1>3. CASE UNCHANGED <<store, nextID, kept>>
    BY <1>3, <1>k DEF StoresKeyed, Keyed
<1>4. ASSUME NEW p \in Paths, BuildAndIndex(p) PROVE StoresKeyed'
    <2>1. PICK texts \in SUBSET Texts :
             /\ nextID + Cardinality(texts) <= MaxId + 1
             /\ nextID' = nextID + Cardinality(texts)
             /\ store' = [store EXCEPT ![p] = Numbered(texts, nextID)]
             /\ kept' = kept
        BY <1>4 DEF BuildAndIndex
    <2> DEFINE symbols == Numbered(texts, nextID)
               n == Cardinality(texts)
    <2>2. /\ n \in Nat /\ symbols \in SUBSET Symbol /\ Apart(symbols)
          /\ \A d \in symbols : d.id \in nextID .. nextID + n - 1
        BY <1>t, <2>1, NumberedFacts
    <2> HIDE DEF symbols, n
    <2>3. store'[p] = symbols /\ \A q \in Paths : q # p => store'[q] = store[q]
        BY <1>t, <2>1 DEF symbols
    <2>4. nextID' = nextID + n
        BY <2>1 DEF n
    <2>5. \A d \in symbols : d.id < nextID' /\ d.id >= nextID /\ d.id \in Nat
        BY <2>2, <2>4, <1>t
    <2>6. \A q \in Paths : q # p /\ store[q] # Unknown => \A d \in store[q] : d.id < nextID /\ d.id \in Nat
        BY <1>k, <1>t DEF Keyed, Symbol
    <2>7. Keyed(store, nextID)'
        <3> SUFFICES ASSUME NEW q \in Paths, store'[q] # Unknown, NEW d \in store'[q]
                     PROVE  /\ d.id < nextID'
                            /\ \A r \in Paths : store'[r] # Unknown => \A e \in store'[r] : d.id = e.id => q = r /\ d = e
            BY DEF Keyed
        <3>1. d.id < nextID'
            <4>1. CASE q = p
                BY <4>1, <2>3, <2>5
            <4>2. CASE q # p
                BY <4>2, <2>2, <2>3, <2>4, <2>6, <1>t
            <4> QED
                BY <4>1, <4>2
        <3>2. ASSUME NEW r \in Paths, store'[r] # Unknown, NEW e \in store'[r], d.id = e.id PROVE q = r /\ d = e
            <4>1. CASE q = p /\ r = p
                BY <3>2, <4>1, <2>2, <2>3 DEF Apart
            <4>2. CASE q = p /\ r # p
                BY <3>2, <4>2, <2>3, <2>5, <2>6, <1>t
            <4>3. CASE q # p /\ r = p
                BY <3>2, <4>3, <2>3, <2>5, <2>6, <1>t
            <4>4. CASE q # p /\ r # p
                BY <3>2, <4>4, <2>3, <1>k DEF Keyed
            <4> QED
                BY <4>1, <4>2, <4>3, <4>4
        <3> QED
            BY <3>1, <3>2
    <2> QED
        BY <2>1, <2>7, <1>k DEF StoresKeyed, Keyed
<1>5. ASSUME NEW p \in Paths, RecordOnly(p) PROVE StoresKeyed'
    <2>1. store'[p] = {} /\ (\A q \in Paths : q # p => store'[q] = store[q]) /\ UNCHANGED <<kept, nextID>>
        BY <1>5, <1>t DEF RecordOnly
    <2> QED
        BY <2>1, <1>k DEF StoresKeyed, Keyed
<1>6. CASE Open
    BY <1>1, <1>6 DEF Open
<1>7. CASE Keep \/ CloseStore
    BY <1>2, <1>7 DEF Keep, CloseStore
<1>8. CASE SaveIDF \/ Kill \/ BuildFromStore
    BY <1>3, <1>8 DEF SaveIDF, Kill, BuildFromStore
<1>9. CASE Step
    BY <1>3, <1>9 DEF Step, TakeDocs, Finish, WriteFts, WriteVec, WriteContent, AllContentSet, MaybeSave, UnchangedByTask
<1>10. ASSUME NEW p \in Paths, BuildAndRemove(p) PROVE StoresKeyed'
    BY <1>3, <1>10 DEF BuildAndRemove
<1>11. CASE UNCHANGED indexVars
    BY <1>3, <1>11 DEF indexVars
<1> QED
    BY <1>4, <1>5, <1>6, <1>7, <1>8, <1>9, <1>10, <1>11 DEF IndexNext

\* What a task holds when it starts.
LEMMA StartsOwn ==
    ASSUME NEW p \in Paths
    PROVE  /\ [id |-> p, text |-> p] \in Own(p)
           /\ store[p] # Unknown => store[p] \subseteq Own(p)
BY DEF Own

LEMMA TaskOwnInit == IndexInit => TaskOwn
BY DEF IndexInit, TaskOwn, Idle

LEMMA TaskOwnNext == IndexTyped /\ TaskOwn /\ [IndexNext]_indexVars => TaskOwn'
<1> SUFFICES ASSUME IndexTyped, TaskOwn, [IndexNext]_indexVars PROVE TaskOwn'
    OBVIOUS
<1> USE DEF TaskOwn
<1>t. /\ task.op \in TaskOps /\ task.paths \in SUBSET Paths /\ task.todo \in SUBSET Doc /\ task.now \in SUBSET Doc /\ task.at \in Steps
      /\ task = [op |-> task.op, paths |-> task.paths, todo |-> task.todo, now |-> task.now, at |-> task.at]
      /\ up \in BOOLEAN /\ gaps \in SUBSET Paths
      /\ store \in [Paths -> (SUBSET Symbol) \cup {Unknown}] /\ store \in Stores /\ nextID \in 1 .. MaxId + 1
    BY DEF IndexTyped, TaskStates, Stores
<1>i. Idle.op = "none" /\ Idle.paths = {} /\ Idle.todo = {} /\ Idle.now = {} /\ Idle.at = "next"
    BY DEF Idle
<1>1. CASE Open
    BY <1>1, <1>i DEF Open, Idle
<1>2. CASE CloseStore \/ Kill
    BY <1>2, <1>i DEF CloseStore, Kill
<1>3. CASE Keep \/ SaveIDF \/ UNCHANGED indexVars
    <2>1. UNCHANGED <<up, task, gaps, store>>
        BY <1>3 DEF Keep, SaveIDF, indexVars
    <2> QED
        BY <2>1 DEF Own
<1>4. CASE BuildFromStore
    <2>1. PICK unread \in SUBSET Paths :
             task' = [Idle EXCEPT !.op = "build", !.paths = Paths \ unread,
                                  !.todo = UNION {DocsOf(p) : p \in Paths \ unread}]
        BY <1>4 DEF BuildFromStore
    <2>2. /\ task'.op = "build" /\ task'.paths = Paths \ unread /\ task'.now = {} /\ task'.at = "next"
          /\ task'.todo = UNION {DocsOf(p) : p \in Paths \ unread}
        BY <2>1 DEF Idle
    <2>3. up' = TRUE /\ gaps' = gaps /\ gaps = Paths /\ store' = store
        BY <1>4, <1>t DEF BuildFromStore
    <2>4. ASSUME NEW d \in task'.todo \cup task'.now PROVE \E p \in task'.paths : d \in Own(p)'
        <3>1. PICK p \in Paths \ unread : d \in DocsOf(p)
            BY <2>2, <2>4
        <3>2. d \in Own(p)
            BY <3>1, DocsAreOwn
        <3>3. Own(p)' = Own(p)
            BY <2>3 DEF Own
        <3> QED
            BY <2>2, <3>1, <3>2, <3>3
    <2> QED
        BY <2>2, <2>3, <2>4
<1>5. ASSUME NEW p \in Paths, BuildAndIndex(p) PROVE TaskOwn'
    <2>1. PICK texts \in SUBSET Texts :
             /\ nextID + Cardinality(texts) <= MaxId + 1
             /\ store' = [store EXCEPT ![p] = Numbered(texts, nextID)]
             /\ task' = [Idle EXCEPT !.op = "index", !.paths = {p},
                            !.todo = IF Numbered(texts, nextID) = {} THEN {[id |-> p, text |-> p]} ELSE Numbered(texts, nextID)]
        BY <1>5 DEF BuildAndIndex
    <2> DEFINE symbols == Numbered(texts, nextID)
    <2>2. symbols \in SUBSET Symbol /\ symbols # Unknown
        BY <1>t, <2>1, NumberedFacts, UnknownIsNoRecord
    <2>3. /\ task'.op = "index" /\ task'.paths = {p} /\ task'.now = {} /\ task'.at = "next"
          /\ task'.todo = IF symbols = {} THEN {[id |-> p, text |-> p]} ELSE symbols
        BY <2>1 DEF Idle
    <2>4. store'[p] = symbols
        BY <2>1, <1>t
    <2> HIDE DEF symbols
    <2>5. \A d \in task'.todo : d \in Own(p)'
        BY <2>2, <2>3, <2>4 DEF Own
    <2>6. up' = TRUE /\ gaps' = gaps \cup {p}
        BY <1>5, <1>t DEF BuildAndIndex
    <2> QED
        BY <2>3, <2>5, <2>6
<1>6. ASSUME NEW p \in Paths, RecordOnly(p) PROVE TaskOwn'
    <2>1. task.op = "none" /\ task' = task /\ up' = up /\ up
        BY <1>6 DEF RecordOnly
    <2> QED
        BY <2>1, <1>i
<1>7. ASSUME NEW p \in Paths, BuildAndRemove(p) PROVE TaskOwn'
    <2> DEFINE todo == {[id |-> p, text |-> p]} \cup (IF store[p] = Unknown THEN {} ELSE store[p])
    <2>1. task' = [op |-> "remove", paths |-> {p}, todo |-> todo, now |-> {}, at |-> "next"]
        BY <1>7 DEF BuildAndRemove, Idle
    <2>2. up' = TRUE /\ gaps' = gaps \cup {p} /\ store' = store
        BY <1>7, <1>t DEF BuildAndRemove
    <2>3. todo = Own(p)'
        BY <2>2 DEF Own
    <2> HIDE DEF todo
    <2> QED
        BY <2>1, <2>2, <2>3
<1>8. CASE TakeDocs
    <2>1. PICK taken \in Batch : task' = [task EXCEPT !.todo = @ \ taken, !.now = taken, !.at = "fts"]
        BY <1>8 DEF TakeDocs
    <2>2. taken \in SUBSET task.todo
        BY <2>1, <1>t DEF Batch
    <2>3. /\ task'.op = task.op /\ task'.paths = task.paths /\ task'.todo = task.todo \ taken /\ task'.now = taken /\ task'.at = "fts"
        BY <1>t, <2>1
    <2>4. UNCHANGED <<up, gaps, store>> /\ task.op \in {"build", "index", "remove"}
        BY <1>8 DEF TakeDocs, UnchangedByTask
    <2>5. \A p : Own(p)' = Own(p)
        BY <2>4 DEF Own
    <2>6. up
        BY <2>4, <1>i, <1>t
    <2> QED
        BY <2>2, <2>3, <2>4, <2>5, <2>6
<1>9. CASE Finish
    BY <1>9, <1>i DEF Finish
<1>10. CASE WriteFts \/ WriteVec \/ AllContentSet
    <2>1. \E at \in {"save fts", "save vec", "next"} : task' = [task EXCEPT !.at = at] /\ (at = "next" => task.now = {})
        BY <1>10 DEF WriteFts, WriteVec, AllContentSet
    <2>2. /\ task'.op = task.op /\ task'.paths = task.paths /\ task'.todo = task.todo /\ task'.now = task.now
          /\ task'.at = "next" => task.now = {}
        BY <1>t, <2>1
    <2>3. UNCHANGED <<up, gaps, store>> /\ task.at # "next"
        BY <1>10 DEF WriteFts, WriteVec, AllContentSet, UnchangedByTask
    <2>4. \A p : Own(p)' = Own(p)
        BY <2>3 DEF Own
    <2>5. up /\ task.op \notin {"none", "open"}
        BY <2>3, <1>i, <1>t
    <2> QED
        BY <2>2, <2>3, <2>4, <2>5
<1>11. CASE WriteContent
    <2>1. PICK d \in task.now : task' = [task EXCEPT !.now = @ \ {d}, !.at = "save content"]
        BY <1>11 DEF WriteContent
    <2>2. /\ task'.op = task.op /\ task'.paths = task.paths /\ task'.todo = task.todo /\ task'.now = task.now \ {d}
          /\ task'.at = "save content"
        BY <1>t, <2>1
    <2>3. UNCHANGED <<up, gaps, store>> /\ task.at # "next"
        BY <1>11 DEF WriteContent, UnchangedByTask
    <2>4. \A p : Own(p)' = Own(p)
        BY <2>3 DEF Own
    <2>5. up /\ task.op \notin {"none", "open"}
        BY <2>3, <1>i, <1>t
    <2> QED
        BY <2>2, <2>3, <2>4, <2>5
<1>12. CASE MaybeSave
    <2>1. CASE task' = Idle
        BY <2>1, <1>i
    <2>2. CASE task' = [task EXCEPT !.at = Then(@), !.now = IF Then(task.at) = "next" THEN {} ELSE @]
        <3>1. /\ task'.op = task.op /\ task'.paths = task.paths /\ task'.todo = task.todo /\ task'.now \in SUBSET task.now
              /\ task'.at = "next" => task'.now = {}
            BY <1>t, <2>2
        <3>2. UNCHANGED <<up, gaps, store>> /\ task.at # "next"
            BY <1>12 DEF MaybeSave, UnchangedByTask
        <3>3. \A p : Own(p)' = Own(p)
            BY <3>2 DEF Own
        <3>4. up /\ task.op \notin {"none", "open"}
            BY <3>2, <1>i, <1>t
        <3> QED
            BY <3>1, <3>2, <3>3, <3>4
    <2> QED
        BY <1>12, <2>1, <2>2 DEF MaybeSave
<1> QED
    BY <1>1, <1>2, <1>3, <1>4, <1>5, <1>6, <1>7, <1>8, <1>9, <1>10, <1>11, <1>12 DEF IndexNext, Step

-----------------------------------------------------------------------------
(* What is indexed is found                                                *)

FtsDocs == engine["fts"].docs
VecDocs == engine["vec"].docs
VecContents == engine["vec"].contents

\* A document that is built or indexed is in each table the task is past.
Written ==
    task.op \in {"build", "index"} =>
        \A p \in task.paths : \A d \in DocsOf(p) \ task.todo :
            /\ (task.at = "fts" /\ d \in task.now) \/ InTable(FtsDocs, d)
            /\ (task.at \in {"fts", "save fts", "vec"} /\ d \in task.now) \/ InTable(VecDocs, d)
            /\ d \in task.now \/ InTable(VecContents, d)

\* A document that is removed is in neither engine the task is past.
Gone ==
    task.op = "remove" =>
        \A p \in task.paths : \A i \in IdsOf(Own(p)) \ IdsOf(task.todo) :
            /\ (task.at = "fts" /\ i \in IdsOf(task.now)) \/ i \notin DOMAIN FtsDocs
            /\ (task.at \in {"fts", "save fts", "vec"} /\ i \in IdsOf(task.now)) \/ i \notin DOMAIN VecDocs

Found ==
    up => \A p \in Paths \ gaps : \A d \in DocsOf(p) :
            InTable(FtsDocs, d) /\ InTable(VecDocs, d) /\ InTable(VecContents, d)

Indexed == Written /\ Gone /\ Found

LEMMA StillInTable ==
    ASSUME NEW t, NEW u, NEW ids, SameBeside(t, u, ids), NEW d, d.id \in DocIds, d.id \notin ids, InTable(t, d)
    PROVE  InTable(u, d)
BY DEF SameBeside, InTable

LEMMA OwnDocs ==
    ASSUME store \in Stores, NEW p \in Paths
    PROVE  Own(p) \in SUBSET Doc /\ \A d \in Own(p) : d.id \in DocIds
<1>1. Own(p) \in SUBSET Doc
    BY OwnTyped DEF Own
<1> QED
    BY <1>1 DEF Doc

\* A document the task does not hold has an id of its own.
LEMMA BesideNow ==
    ASSUME store \in Stores, Keyed(store, nextID), TaskOwn, task.paths \in SUBSET Paths,
           NEW p \in Paths, NEW d \in Own(p), p \notin task.paths \/ d \notin task.now
    PROVE  d.id \notin IdsOf(task.now)
<1> SUFFICES ASSUME NEW e \in task.now, e.id = d.id PROVE FALSE
    BY DEF IdsOf
<1>1. PICK q \in task.paths : e \in Own(q)
    BY DEF TaskOwn
<1>2. p = q /\ d = e
    BY <1>1, OwnApart
<1> QED
    BY <1>1, <1>2

LEMMA IndexedInit == IndexInit => Indexed
BY DEF IndexInit, Indexed, Written, Gone, Found, Idle

\* A step that changes no table, no record of a file the index knows and no gap
\* but to widen it.
LEMMA FoundStays ==
    ASSUME Found, up' => up, gaps \subseteq gaps',
           \A p \in Paths \ gaps' : store'[p] = store[p],
           FtsDocs' = FtsDocs, VecDocs' = VecDocs, VecContents' = VecContents
    PROVE  Found'
<1> SUFFICES ASSUME up', NEW p \in Paths \ gaps', NEW d \in DocsOf(p)'
             PROVE  InTable(FtsDocs', d) /\ InTable(VecDocs', d) /\ InTable(VecContents', d)
    BY DEF Found, InTable
<1>1. DocsOf(p)' = DocsOf(p) /\ p \in Paths \ gaps
    BY DEF DocsOf
<1>2. InTable(FtsDocs, d) /\ InTable(VecDocs, d) /\ InTable(VecContents, d)
    BY <1>1 DEF Found
<1> QED
    BY <1>2

\* The processes and the calls of the builder.
LEMMA IndexedBegins ==
    ASSUME IndexTyped, StoresKeyed, TaskOwn, Indexed,
           \/ Open \/ Keep \/ SaveIDF \/ CloseStore \/ Kill \/ BuildFromStore \/ UNCHANGED indexVars
           \/ \E p \in Paths : BuildAndIndex(p) \/ RecordOnly(p) \/ BuildAndRemove(p)
    PROVE  Indexed'
<1>t. /\ store \in [Paths -> (SUBSET Symbol) \cup {Unknown}] /\ store \in Stores
      /\ nextID \in 1 .. MaxId + 1 /\ up \in BOOLEAN
    BY DEF IndexTyped, Stores
<1>i. Idle.op = "none"
    BY DEF Idle
<1>1. CASE Open
    <2>1. task'.op = "open" /\ gaps' = Paths
        BY <1>1 DEF Open, Idle
    <2> QED
        BY <2>1 DEF Indexed, Written, Gone, Found
<1>2. CASE CloseStore \/ Kill
    <2>1. task' = Idle /\ up' = FALSE
        BY <1>2 DEF CloseStore, Kill
    <2> QED
        BY <2>1, <1>i DEF Indexed, Written, Gone, Found
<1>3. CASE Keep \/ SaveIDF \/ UNCHANGED indexVars
    <2>1. UNCHANGED <<up, task, gaps, store, engine>>
        BY <1>3 DEF Keep, SaveIDF, indexVars
    <2>2. UNCHANGED <<FtsDocs, VecDocs, VecContents>> /\ \A p : DocsOf(p)' = DocsOf(p) /\ Own(p)' = Own(p)
        BY <2>1 DEF FtsDocs, VecDocs, VecContents, DocsOf, Own
    <2>3. Written' = Written
        BY <2>1, <2>2 DEF Written, InTable
    <2>4. Gone' = Gone
        BY <2>1, <2>2 DEF Gone, IdsOf
    <2>5. Found'
        BY <2>1, <2>2, FoundStays DEF Indexed
    <2> QED
        BY <2>3, <2>4, <2>5 DEF Indexed
<1>4. CASE BuildFromStore
    <2>1. PICK unread \in SUBSET Paths :
             task' = [Idle EXCEPT !.op = "build", !.paths = Paths \ unread,
                                  !.todo = UNION {DocsOf(p) : p \in Paths \ unread}]
        BY <1>4 DEF BuildFromStore
    <2>2. /\ task'.op = "build" /\ task'.paths = Paths \ unread
          /\ task'.todo = UNION {DocsOf(p) : p \in Paths \ unread}
        BY <2>1 DEF Idle
    <2>3. UNCHANGED <<up, gaps, store, engine>>
        BY <1>4 DEF BuildFromStore
    <2>4. UNCHANGED <<FtsDocs, VecDocs, VecContents>> /\ \A p : DocsOf(p)' = DocsOf(p)
        BY <2>3 DEF FtsDocs, VecDocs, VecContents, DocsOf
    <2>5. Found'
        BY <2>3, <2>4, FoundStays DEF Indexed
    <2>6. \A p \in task'.paths : DocsOf(p)' \subseteq task'.todo
        BY <2>2, <2>4
    <2> QED
        BY <2>2, <2>5, <2>6 DEF Indexed, Written, Gone
<1>5. ASSUME NEW p \in Paths, BuildAndIndex(p) PROVE Indexed'
    <2>1. PICK texts \in SUBSET Texts :
             /\ nextID + Cardinality(texts) <= MaxId + 1
             /\ store' = [store EXCEPT ![p] = Numbered(texts, nextID)]
             /\ task' = [Idle EXCEPT !.op = "index", !.paths = {p},
                            !.todo = IF Numbered(texts, nextID) = {} THEN {[id |-> p, text |-> p]} ELSE Numbered(texts, nextID)]
        BY <1>5 DEF BuildAndIndex
    <2> DEFINE symbols == Numbered(texts, nextID)
    <2>2. symbols \in SUBSET Symbol /\ symbols # Unknown
        BY <1>t, <2>1, NumberedFacts, UnknownIsNoRecord
    <2>3. /\ task'.op = "index" /\ task'.paths = {p}
          /\ task'.todo = IF symbols = {} THEN {[id |-> p, text |-> p]} ELSE symbols
        BY <2>1 DEF Idle
    <2>4. store'[p] = symbols /\ \A q \in Paths : q # p => store'[q] = store[q]
        BY <2>1, <1>t
    <2> HIDE DEF symbols
    <2>5. DocsOf(p)' = task'.todo
        BY <2>2, <2>3, <2>4 DEF DocsOf
    <2>6. up' = up /\ gaps' = gaps \cup {p} /\ UNCHANGED engine
        BY <1>5 DEF BuildAndIndex
    <2>7. UNCHANGED <<FtsDocs, VecDocs, VecContents>>
        BY <2>6 DEF FtsDocs, VecDocs, VecContents
    <2>8. Found'
        BY <2>4, <2>6, <2>7, FoundStays DEF Indexed
    <2> QED
        BY <2>3, <2>5, <2>8 DEF Indexed, Written, Gone
<1>6. ASSUME NEW p \in Paths, RecordOnly(p) PROVE Indexed'
    <2>1. /\ task.op = "none" /\ UNCHANGED <<task, up, engine>> /\ gaps' = gaps \cup {p}
          /\ \A q \in Paths : q # p => store'[q] = store[q]
        BY <1>6, <1>t DEF RecordOnly
    <2>2. UNCHANGED <<FtsDocs, VecDocs, VecContents>>
        BY <2>1 DEF FtsDocs, VecDocs, VecContents
    <2>3. Found'
        BY <2>1, <2>2, FoundStays DEF Indexed
    <2> QED
        BY <2>1, <2>3 DEF Indexed, Written, Gone
<1>7. ASSUME NEW p \in Paths, BuildAndRemove(p) PROVE Indexed'
    <2> DEFINE todo == {[id |-> p, text |-> p]} \cup (IF store[p] = Unknown THEN {} ELSE store[p])
    <2>1. task' = [op |-> "remove", paths |-> {p}, todo |-> todo, now |-> {}, at |-> "next"]
        BY <1>7 DEF BuildAndRemove, Idle
    <2>2. up' = up /\ gaps' = gaps \cup {p} /\ UNCHANGED <<store, engine>>
        BY <1>7 DEF BuildAndRemove
    <2>3. todo = Own(p)'
        BY <2>2 DEF Own
    <2> HIDE DEF todo
    <2>4. UNCHANGED <<FtsDocs, VecDocs, VecContents>>
        BY <2>2 DEF FtsDocs, VecDocs, VecContents
    <2>5. Found'
        BY <2>2, <2>4, FoundStays DEF Indexed
    <2>6. task'.op = "remove" /\ task'.paths = {p} /\ task'.todo = Own(p)'
        BY <2>1, <2>3
    <2> QED
        BY <2>5, <2>6 DEF Indexed, Written, Gone
<1> QED
    BY <1>1, <1>2, <1>3, <1>4, <1>5, <1>6, <1>7

\* The steps of a task.
LEMMA IndexedStep ==
    ASSUME IndexTyped, StoresKeyed, TaskOwn, Indexed, Step
    PROVE  Indexed'
<1>t. /\ task.op \in TaskOps /\ task.paths \in SUBSET Paths /\ task.todo \in SUBSET Doc /\ task.now \in SUBSET Doc /\ task.at \in Steps
      /\ task = [op |-> task.op, paths |-> task.paths, todo |-> task.todo, now |-> task.now, at |-> task.at]
      /\ store \in Stores /\ gaps \in SUBSET Paths
    BY DEF IndexTyped, TaskStates
<1>w. Apart(task.now) /\ Keyed(store, nextID)
    BY NowApart DEF StoresKeyed
<1>s. UNCHANGED <<up, store>> /\ \A p : DocsOf(p)' = DocsOf(p) /\ Own(p)' = Own(p)
    BY DEF Step, TakeDocs, Finish, WriteFts, WriteVec, WriteContent, AllContentSet, MaybeSave, UnchangedByTask, DocsOf, Own
<1>i. Idle.op = "none"
    BY DEF Idle
<1>h. Written /\ Gone /\ Found
    BY DEF Indexed
<1>d. \A p \in Paths : \A d \in DocsOf(p) : d \in Own(p) /\ d.id \in DocIds
    BY <1>t, DocsAreOwn, OwnDocs
<1>o. \A p \in Paths : IdsOf(Own(p)) \in SUBSET DocIds
    BY <1>t, OwnDocs DEF IdsOf
<1>b. \A p \in Paths : \A d \in Own(p) : p \notin task.paths \/ d \notin task.now => d.id \notin IdsOf(task.now)
    BY <1>t, <1>w, BesideNow
<1>1. CASE TakeDocs
    <2>1. PICK taken \in Batch : task' = [task EXCEPT !.todo = @ \ taken, !.now = taken, !.at = "fts"]
        BY <1>1 DEF TakeDocs
    <2>2. /\ task'.op = task.op /\ task'.paths = task.paths /\ task'.todo = task.todo \ taken /\ task'.now = taken /\ task'.at = "fts"
          /\ task.at = "next" /\ task.now = {}
        BY <1>1, <1>t, <2>1 DEF TakeDocs, TaskOwn
    <2>3. UNCHANGED <<gaps, engine>>
        BY <1>1 DEF TakeDocs
    <2>4. UNCHANGED <<FtsDocs, VecDocs, VecContents>>
        BY <2>3 DEF FtsDocs, VecDocs, VecContents
    <2>5. Found'
        BY <1>h, <1>s, <2>3, <2>4, FoundStays
    <2>6. Written'
        <3> SUFFICES ASSUME task'.op \in {"build", "index"}, NEW p \in task'.paths, NEW d \in DocsOf(p)', d \notin task'.todo
                     PROVE  /\ d \in task'.now \/ InTable(FtsDocs', d)
                            /\ d \in task'.now \/ InTable(VecDocs', d)
                            /\ d \in task'.now \/ InTable(VecContents', d)
            BY <2>2 DEF Written, InTable
        <3>1. CASE d \in taken
            BY <3>1, <2>2
        <3>2. CASE d \notin task.todo
            BY <3>2, <1>h, <1>s, <2>2, <2>4 DEF Written
        <3> QED
            BY <2>2, <3>1, <3>2
    <2>7. Gone'
        <3> SUFFICES ASSUME task'.op = "remove", NEW p \in task'.paths, NEW i \in IdsOf(Own(p))', i \notin IdsOf(task'.todo)
                     PROVE  /\ i \in IdsOf(task'.now) \/ i \notin DOMAIN FtsDocs'
                            /\ i \in IdsOf(task'.now) \/ i \notin DOMAIN VecDocs'
            BY <2>2 DEF Gone, IdsOf
        <3>1. i \in IdsOf(Own(p))
            BY <1>s DEF IdsOf
        <3>2. CASE i \in IdsOf(taken)
            BY <3>2, <2>2
        <3>3. CASE i \notin IdsOf(taken)
            <4>1. i \notin IdsOf(task.todo)
                BY <3>3, <2>2 DEF IdsOf
            <4> QED
                BY <3>1, <4>1, <1>h, <2>2, <2>4 DEF Gone, IdsOf
        <3> QED
            BY <3>2, <3>3
    <2> QED
        BY <2>5, <2>6, <2>7 DEF Indexed
<1>2. CASE Finish
    <2>1. /\ task' = Idle /\ UNCHANGED engine /\ task.todo = {} /\ task.at = "next" /\ task.now = {}
          /\ gaps' = IF task.op = "remove" THEN gaps ELSE gaps \ task.paths
          /\ task.op \in {"build", "index", "remove"}
        BY <1>2 DEF Finish, Finished, TaskOwn
    <2>2. UNCHANGED <<FtsDocs, VecDocs, VecContents>>
        BY <2>1 DEF FtsDocs, VecDocs, VecContents
    <2>3. Found'
        <3> SUFFICES ASSUME up', NEW p \in Paths \ gaps', NEW d \in DocsOf(p)'
                     PROVE  InTable(FtsDocs', d) /\ InTable(VecDocs', d) /\ InTable(VecContents', d)
            BY DEF Found, InTable
        <3>1. InTable(FtsDocs, d) /\ InTable(VecDocs, d) /\ InTable(VecContents, d)
            <4>1. CASE p \notin gaps
                BY <4>1, <1>h, <1>s DEF Found
            <4>2. CASE p \in task.paths /\ task.op \in {"build", "index"}
                BY <4>2, <1>h, <1>s, <2>1 DEF Written
            <4> QED
                BY <2>1, <4>1, <4>2
        <3> QED
            BY <2>2, <3>1
    <2> QED
        BY <1>i, <2>1, <2>3 DEF Indexed, Written, Gone
<1>3. CASE WriteFts
    <2>1. Rewrites("fts")
        BY <1>3, <1>w, WriteFtsDoes
    <2>2. /\ task'.op = task.op /\ task'.paths = task.paths /\ task'.todo = task.todo /\ task'.now = task.now /\ task'.at = "save fts"
          /\ task.at = "fts" /\ UNCHANGED gaps
        BY <1>3, <1>t DEF WriteFts
    <2>3. VecDocs' = VecDocs /\ VecContents' = VecContents /\ Rewritten(FtsDocs, FtsDocs')
        BY <2>1 DEF Rewrites, FtsDocs, VecDocs, VecContents, Engines
    <2>4. /\ SameBeside(FtsDocs, FtsDocs', IdsOf(task.now))
          /\ task.op = "remove" => \A i \in IdsOf(task.now) : i \notin DOMAIN FtsDocs'
          /\ task.op # "remove" => \A d \in task.now : InTable(FtsDocs', d)
        BY <2>3 DEF Rewritten
    <2>5. task.op # "none" /\ task.paths \subseteq gaps
        BY <2>2 DEF TaskOwn
    <2>6. Written'
        <3> SUFFICES ASSUME task.op \in {"build", "index"}, NEW p \in task.paths, NEW d \in DocsOf(p), d \notin task.todo
                     PROVE  /\ InTable(FtsDocs', d)
                            /\ d \in task.now \/ InTable(VecDocs, d)
                            /\ d \in task.now \/ InTable(VecContents, d)
            BY <1>s, <2>2, <2>3 DEF Written, InTable
        <3>1. /\ d \in task.now \/ InTable(FtsDocs, d)
              /\ d \in task.now \/ InTable(VecDocs, d)
              /\ d \in task.now \/ InTable(VecContents, d)
            BY <1>h DEF Written
        <3>2. CASE d \in task.now
            BY <3>2, <2>4
        <3>3. CASE d \notin task.now
            <4>1. d.id \notin IdsOf(task.now) /\ d.id \in DocIds
                BY <3>3, <1>b, <1>d, <1>t
            <4>2. InTable(FtsDocs', d)
                BY <3>1, <3>3, <4>1, <2>4, StillInTable
            <4> QED
                BY <3>1, <3>3, <4>2
        <3> QED
            BY <3>1, <3>2, <3>3
    <2>7. Gone'
        <3> SUFFICES ASSUME task.op = "remove", NEW p \in task.paths, NEW i \in IdsOf(Own(p)), i \notin IdsOf(task.todo)
                     PROVE  /\ i \notin DOMAIN FtsDocs'
                            /\ i \in IdsOf(task.now) \/ i \notin DOMAIN VecDocs
            BY <1>s, <2>2, <2>3 DEF Gone, IdsOf
        <3>1. /\ i \in IdsOf(task.now) \/ i \notin DOMAIN FtsDocs
              /\ i \in IdsOf(task.now) \/ i \notin DOMAIN VecDocs
            BY <1>h DEF Gone
        <3>2. i \in DocIds
            BY <1>o, <1>t
        <3> QED
            BY <3>1, <3>2, <2>4 DEF SameBeside
    <2>8. Found'
        <3> SUFFICES ASSUME up, NEW p \in Paths \ gaps, NEW d \in DocsOf(p)
                     PROVE  InTable(FtsDocs', d) /\ InTable(VecDocs, d) /\ InTable(VecContents, d)
            BY <1>s, <2>2, <2>3 DEF Found, InTable
        <3>1. d.id \notin IdsOf(task.now) /\ d.id \in DocIds
            BY <1>b, <1>d, <2>5
        <3>2. InTable(FtsDocs, d) /\ InTable(VecDocs, d) /\ InTable(VecContents, d)
            BY <1>h DEF Found
        <3>3. InTable(FtsDocs', d)
            BY <3>1, <3>2, <2>4, StillInTable
        <3> QED
            BY <3>2, <3>3
    <2> QED
        BY <2>6, <2>7, <2>8 DEF Indexed
<1>4. CASE WriteVec
    <2>1. Rewrites("vec")
        BY <1>4, <1>w, WriteVecDoes
    <2>2. /\ task'.op = task.op /\ task'.paths = task.paths /\ task'.todo = task.todo /\ task'.now = task.now /\ task'.at = "save vec"
          /\ task.at = "vec" /\ UNCHANGED gaps
        BY <1>4, <1>t DEF WriteVec
    <2>3. FtsDocs' = FtsDocs /\ VecContents' = VecContents /\ Rewritten(VecDocs, VecDocs')
        BY <2>1 DEF Rewrites, FtsDocs, VecDocs, VecContents, Engines
    <2>4. /\ SameBeside(VecDocs, VecDocs', IdsOf(task.now))
          /\ task.op = "remove" => \A i \in IdsOf(task.now) : i \notin DOMAIN VecDocs'
          /\ task.op # "remove" => \A d \in task.now : InTable(VecDocs', d)
        BY <2>3 DEF Rewritten
    <2>5. task.op # "none" /\ task.paths \subseteq gaps
        BY <2>2 DEF TaskOwn
    <2>6. Written'
        <3> SUFFICES ASSUME task.op \in {"build", "index"}, NEW p \in task.paths, NEW d \in DocsOf(p), d \notin task.todo
                     PROVE  /\ InTable(FtsDocs, d)
                            /\ InTable(VecDocs', d)
                            /\ d \in task.now \/ InTable(VecContents, d)
            BY <1>s, <2>2, <2>3 DEF Written, InTable
        <3>1. /\ InTable(FtsDocs, d)
              /\ d \in task.now \/ InTable(VecDocs, d)
              /\ d \in task.now \/ InTable(VecContents, d)
            BY <1>h, <2>2 DEF Written
        <3>2. CASE d \in task.now
            BY <3>1, <3>2, <2>4
        <3>3. CASE d \notin task.now
            <4>1. d.id \notin IdsOf(task.now) /\ d.id \in DocIds
                BY <3>3, <1>b, <1>d, <1>t
            <4>2. InTable(VecDocs', d)
                BY <3>1, <3>3, <4>1, <2>4, StillInTable
            <4> QED
                BY <3>1, <3>3, <4>2
        <3> QED
            BY <3>1, <3>2, <3>3
    <2>7. Gone'
        <3> SUFFICES ASSUME task.op = "remove", NEW p \in task.paths, NEW i \in IdsOf(Own(p)), i \notin IdsOf(task.todo)
                     PROVE  /\ i \notin DOMAIN FtsDocs
                            /\ i \notin DOMAIN VecDocs'
            BY <1>s, <2>2, <2>3 DEF Gone, IdsOf
        <3>1. /\ i \notin DOMAIN FtsDocs
              /\ i \in IdsOf(task.now) \/ i \notin DOMAIN VecDocs
            BY <1>h, <2>2 DEF Gone
        <3>2. i \in DocIds
            BY <1>o, <1>t
        <3> QED
            BY <3>1, <3>2, <2>4 DEF SameBeside
    <2>8. Found'
        <3> SUFFICES ASSUME up, NEW p \in Paths \ gaps, NEW d \in DocsOf(p)
                     PROVE  InTable(FtsDocs, d) /\ InTable(VecDocs', d) /\ InTable(VecContents, d)
            BY <1>s, <2>2, <2>3 DEF Found, InTable
        <3>1. d.id \notin IdsOf(task.now) /\ d.id \in DocIds
            BY <1>b, <1>d, <2>5
        <3>2. InTable(FtsDocs, d) /\ InTable(VecDocs, d) /\ InTable(VecContents, d)
            BY <1>h DEF Found
        <3>3. InTable(VecDocs', d)
            BY <3>1, <3>2, <2>4, StillInTable
        <3> QED
            BY <3>2, <3>3
    <2> QED
        BY <2>6, <2>7, <2>8 DEF Indexed
<1>5. CASE WriteContent
    <2>1. PICK c \in task.now :
              /\ task' = [task EXCEPT !.now = @ \ {c}, !.at = "save content"]
              /\ InTable(engine'["vec"].contents, c)
              /\ SameBeside(engine["vec"].contents, engine'["vec"].contents, {c.id})
              /\ engine'["vec"].docs = engine["vec"].docs
              /\ engine'["fts"] = engine["fts"]
        BY <1>5, WriteContentDoes
    <2>2. /\ task'.op = task.op /\ task'.paths = task.paths /\ task'.todo = task.todo /\ task'.now = task.now \ {c} /\ task'.at = "save content"
          /\ task.at = "content" /\ UNCHANGED gaps
        BY <1>5, <1>t, <2>1 DEF WriteContent
    <2>3. /\ FtsDocs' = FtsDocs /\ VecDocs' = VecDocs
          /\ InTable(VecContents', c) /\ SameBeside(VecContents, VecContents', {c.id})
        BY <2>1 DEF FtsDocs, VecDocs, VecContents
    <2>4. c.id \in IdsOf(task.now)
        BY DEF IdsOf
    <2>5. task.op # "none" /\ task.paths \subseteq gaps
        BY <2>2 DEF TaskOwn
    <2>a. PICK o \in task.paths : c \in Own(o)
        BY DEF TaskOwn
    <2>6. Written'
        <3> SUFFICES ASSUME task.op \in {"build", "index"}, NEW p \in task.paths, NEW d \in DocsOf(p), d \notin task.todo
                     PROVE  /\ InTable(FtsDocs, d)
                            /\ InTable(VecDocs, d)
                            /\ d \in task'.now \/ InTable(VecContents', d)
            BY <1>s, <2>2, <2>3 DEF Written, InTable
        <3>1. /\ InTable(FtsDocs, d)
              /\ InTable(VecDocs, d)
              /\ d \in task.now \/ InTable(VecContents, d)
            BY <1>h, <2>2 DEF Written
        <3>2. CASE d = c
            BY <3>1, <3>2, <2>3
        <3>3. CASE d # c /\ d \in task.now
            BY <3>1, <3>3, <2>2
        <3>4. CASE d # c /\ InTable(VecContents, d)
            <4>1. d.id # c.id /\ d.id \in DocIds
                BY <3>4, <2>a, <1>w, <1>d, <1>t, OwnApart
            <4>2. InTable(VecContents', d)
                BY <3>4, <4>1, <2>3, StillInTable
            <4> QED
                BY <3>1, <4>2
        <3> QED
            BY <3>1, <3>2, <3>3, <3>4
    <2>7. Gone'
        <3> SUFFICES ASSUME task.op = "remove", NEW p \in task.paths, NEW i \in IdsOf(Own(p)), i \notin IdsOf(task.todo)
                     PROVE  /\ i \notin DOMAIN FtsDocs
                            /\ i \notin DOMAIN VecDocs
            BY <1>s, <2>2, <2>3 DEF Gone, IdsOf
        <3> QED
            BY <1>h, <2>2 DEF Gone
    <2>8. Found'
        <3> SUFFICES ASSUME up, NEW p \in Paths \ gaps, NEW d \in DocsOf(p)
                     PROVE  InTable(FtsDocs, d) /\ InTable(VecDocs, d) /\ InTable(VecContents', d)
            BY <1>s, <2>2, <2>3 DEF Found, InTable
        <3>1. d.id \notin IdsOf(task.now) /\ d.id \in DocIds
            BY <1>b, <1>d, <2>5
        <3>2. InTable(FtsDocs, d) /\ InTable(VecDocs, d) /\ InTable(VecContents, d)
            BY <1>h DEF Found
        <3>3. InTable(VecContents', d)
            BY <3>1, <3>2, <2>3, <2>4, StillInTable
        <3> QED
            BY <3>2, <3>3
    <2> QED
        BY <2>6, <2>7, <2>8 DEF Indexed
<1>6. CASE AllContentSet
    <2>1. /\ task'.op = task.op /\ task'.paths = task.paths /\ task'.todo = task.todo /\ task'.now = task.now /\ task'.at = "next"
          /\ task.at = "content" /\ task.now = {} /\ UNCHANGED <<gaps, engine>>
        BY <1>6, <1>t DEF AllContentSet
    <2>2. UNCHANGED <<FtsDocs, VecDocs, VecContents>>
        BY <2>1 DEF FtsDocs, VecDocs, VecContents
    <2>3. Found'
        BY <1>h, <1>s, <2>1, <2>2, FoundStays
    <2>4. Written'
        BY <1>h, <1>s, <2>1, <2>2 DEF Written, InTable
    <2>5. Gone'
        BY <1>h, <1>s, <2>1, <2>2 DEF Gone, IdsOf
    <2> QED
        BY <2>3, <2>4, <2>5 DEF Indexed
<1>7. CASE MaybeSave
    <2>1. Saves /\ gaps' = gaps
        BY <1>7, MaybeSaveDoes DEF MaybeSave
    <2>2. UNCHANGED <<FtsDocs, VecDocs, VecContents>>
        BY <2>1 DEF Saves, FtsDocs, VecDocs, VecContents, Engines
    <2>3. Found'
        BY <1>h, <1>s, <2>1, <2>2, FoundStays
    <2>4. CASE task' = Idle
        BY <1>i, <2>3, <2>4 DEF Indexed, Written, Gone
    <2>5. CASE task' = [task EXCEPT !.at = Then(@), !.now = IF Then(task.at) = "next" THEN {} ELSE @]
        <3>1. /\ task'.op = task.op /\ task'.paths = task.paths /\ task'.todo = task.todo /\ task'.at = Then(task.at)
              /\ task'.now = IF Then(task.at) = "next" THEN {} ELSE task.now
              /\ task.at \in {"save fts", "save vec", "save content"}
            BY <1>7, <1>t, <2>5 DEF MaybeSave
        <3>2. /\ task.at = "save fts" => task'.at = "vec" /\ task'.now = task.now
              /\ task.at = "save vec" /\ task.op = "remove" => task'.at = "next" /\ task'.now = {}
              /\ task.at = "save vec" /\ task.op # "remove" => task'.at = "content" /\ task'.now = task.now
              /\ task.at = "save content" => task'.at = "content" /\ task'.now = task.now
            BY <3>1 DEF Then
        <3>3. Written'
            <4> SUFFICES ASSUME task.op \in {"build", "index"}, NEW p \in task.paths, NEW d \in DocsOf(p), d \notin task.todo
                         PROVE  /\ InTable(FtsDocs, d)
                                /\ (task'.at = "vec" /\ d \in task'.now) \/ InTable(VecDocs, d)
                                /\ d \in task'.now \/ InTable(VecContents, d)
                BY <1>s, <2>2, <3>1 DEF Written, InTable
            <4>1. /\ (task.at = "fts" /\ d \in task.now) \/ InTable(FtsDocs, d)
                  /\ (task.at \in {"fts", "save fts", "vec"} /\ d \in task.now) \/ InTable(VecDocs, d)
                  /\ d \in task.now \/ InTable(VecContents, d)
                BY <1>h DEF Written
            <4> QED
                BY <3>1, <3>2, <4>1
        <3>4. Gone'
            <4> SUFFICES ASSUME task.op = "remove", NEW p \in task.paths, NEW i \in IdsOf(Own(p)), i \notin IdsOf(task.todo)
                         PROVE  /\ i \notin DOMAIN FtsDocs
                                /\ (task'.at = "vec" /\ i \in IdsOf(task'.now)) \/ i \notin DOMAIN VecDocs
                BY <1>s, <2>2, <3>1 DEF Gone, IdsOf
            <4>1. /\ (task.at = "fts" /\ i \in IdsOf(task.now)) \/ i \notin DOMAIN FtsDocs
                  /\ (task.at \in {"fts", "save fts", "vec"} /\ i \in IdsOf(task.now)) \/ i \notin DOMAIN VecDocs
                BY <1>h DEF Gone
            <4> QED
                BY <3>1, <3>2, <4>1
        <3> QED
            BY <2>3, <3>3, <3>4 DEF Indexed
    <2> QED
        BY <1>7, <2>4, <2>5 DEF MaybeSave
<1> QED
    BY <1>1, <1>2, <1>3, <1>4, <1>5, <1>6, <1>7 DEF Step

-----------------------------------------------------------------------------
(* The files lag by the changes that are counted                           *)

SavesOf(e) == IF e = "fts" THEN {"save fts"} ELSE {"save vec", "save content"}

\* The full text engine keeps no contents, in its file neither.
FtsPlain ==
    engine["fts"].contents = NoTable /\ (file["fts"] # Torn => file["fts"].contents = NoTable)

Near(e) ==
    up /\ engine[e].saved =>
        /\ file[e] # Torn =>
              /\ Cardinality(Differ(engine[e].docs, file[e].docs)) <= engine[e].dirties
              /\ Cardinality(Differ(engine[e].contents, file[e].contents)) <= engine[e].dirties
        /\ faults = 0 => engine[e].dirties < Threshold \/ task.at \in SavesOf(e)

Lag == FtsPlain /\ \A e \in Engines : Near(e)

LEMMA DifferCount ==
    ASSUME NEW t \in Table, NEW f \in Table
    PROVE  Cardinality(Differ(t, f)) \in Nat
<1>1. Differ(t, f) \in SUBSET DocIds
    BY TableIs DEF Differ
<1> QED
    BY <1>1, DocsFinite, FS_Subset, FS_CardinalityType

LEMMA LagInit == IndexInit => Lag
BY DEF IndexInit, Lag, FtsPlain, Near, Engines, NewEngine

\* An engine that is left alone, in a step in which it did not wait to save.
LEMMA NearStays ==
    ASSUME NEW e \in Engines, Near(e), up' => up, faults' = 0 => faults = 0,
           engine'[e] = engine[e], file'[e] = file[e],
           task.at \notin SavesOf(e) \/ task'.at = task.at
    PROVE  Near(e)'
BY DEF Near, SavesOf

LEMMA NearWritten ==
    ASSUME IndexTyped, NEW e \in Engines, Near(e), Rewrites(e), UNCHANGED <<file, up, faults>>, task'.at \in SavesOf(e)
    PROVE  Near(e)'
<1>1. /\ engine[e] \in EngineStates /\ engine'[e] \in EngineStates /\ file[e] \in Images \cup {Torn}
      /\ task.now \in SUBSET Doc
    BY DEF IndexTyped, Rewrites, TaskStates
<1> SUFFICES ASSUME up, engine[e].saved, file[e] # Torn
             PROVE  /\ Cardinality(Differ(engine'[e].docs, file[e].docs)) <= engine'[e].dirties
                    /\ Cardinality(Differ(engine'[e].contents, file[e].contents)) <= engine'[e].dirties
    BY DEF Near, Rewrites, SavesOf
<1> DEFINE t == engine[e].docs
           u == engine'[e].docs
           f == file[e].docs
           ids == IdsOf(task.now)
           n == engine[e].dirties
           m == Cardinality(ids)
           n2 == engine'[e].dirties
<1>2. /\ t \in Table /\ u \in Table /\ f \in Table /\ n \in Nat /\ n2 \in Nat
      /\ engine[e].contents \in Table /\ file[e].contents \in Table
    BY <1>1 DEF EngineStates, Images
<1>3. ids \in SUBSET DocIds /\ m \in Nat
    BY <1>1, FewIds
<1>4. SameBeside(t, u, ids) /\ n2 >= n + m
    BY DEF Rewrites, Rewritten
<1>5. Cardinality(Differ(t, f)) <= n /\ Cardinality(Differ(engine[e].contents, file[e].contents)) <= n
    BY DEF Near
<1>6. engine'[e].contents = engine[e].contents
    BY DEF Rewrites
<1> DEFINE k == Cardinality(Differ(engine[e].contents, file[e].contents))
<1>7. k \in Nat /\ k <= n
    BY <1>2, <1>5, DifferCount
<1> HIDE DEF t, u, f, ids, n, n2, k
<1>8. m <= m /\ m \in Nat /\ Cardinality(ids) <= m
    BY <1>3
<1> HIDE DEF m
<1>9. Cardinality(Differ(u, f)) <= n + m
    BY <1>2, <1>3, <1>4, <1>5, <1>8, StillNear DEF SameBeside
<1>10. Cardinality(Differ(u, f)) \in Nat
    BY <1>2, DifferCount
<1>11. Cardinality(Differ(u, f)) <= n2 /\ k <= n2
    BY <1>2, <1>3, <1>4, <1>7, <1>8, <1>9, <1>10
<1> QED
    BY <1>6, <1>11 DEF u, f, n2, k

LEMMA LagNext == IndexTyped /\ StoresKeyed /\ TaskOwn /\ Lag /\ [IndexNext]_indexVars => Lag'
<1> SUFFICES ASSUME IndexTyped, StoresKeyed, TaskOwn, Lag, [IndexNext]_indexVars PROVE Lag'
    OBVIOUS
<1>t. /\ engine \in [Engines -> EngineStates] /\ file \in [Engines -> Images \cup {Torn}]
      /\ Threshold \in Nat \ {0} /\ faults \in Nat /\ "fts" \in Engines /\ "vec" \in Engines /\ Engines = {"fts", "vec"}
      /\ faults \in 0 .. MaxFaults /\ MaxFaults \in Nat
    BY SearchIndexAssumption DEF IndexTyped, Engines
<1>a. /\ task.at \in Steps
      /\ task = [op |-> task.op, paths |-> task.paths, todo |-> task.todo, now |-> task.now, at |-> task.at]
    BY DEF IndexTyped, TaskStates
<1>h. FtsPlain /\ Near("fts") /\ Near("vec")
    BY <1>t DEF Lag
<1>w. Apart(task.now)
    BY NowApart DEF StoresKeyed
<1>q. FtsPlain' /\ Near("fts")' /\ Near("vec")' => Lag'
    BY DEF Lag, Engines
<1>1. CASE Open
    <2>1. /\ engine'["fts"] = FtsLoaded /\ engine'["vec"] = VecLoaded /\ file' = file
        BY <1>1, <1>t DEF Open
    <2> SUFFICES FtsPlain' /\ Near("fts")' /\ Near("vec")'
        BY <1>q
    <2>3. FtsPlain' /\ Near("fts")'
        <3>1. CASE file["fts"] = Torn
            <4>1. engine'["fts"].contents = NoTable /\ engine'["fts"].saved = FALSE
                BY <2>1, <3>1 DEF FtsLoaded, NewEngine
            <4> QED
                BY <3>1, <4>1, <2>1 DEF FtsPlain, Near
        <3>2. CASE file["fts"] # Torn
            <4>1. /\ engine'["fts"].contents = NoTable /\ engine'["fts"].dirties = 0
                  /\ engine'["fts"].docs = file["fts"].docs /\ file["fts"].contents = NoTable
                BY <1>h, <2>1, <3>2 DEF FtsLoaded, NewEngine, FtsPlain
            <4>2. /\ Cardinality(Differ(engine'["fts"].docs, file'["fts"].docs)) <= 0
                  /\ Cardinality(Differ(engine'["fts"].contents, file'["fts"].contents)) <= 0
                BY <2>1, <4>1, NoDifference
            <4> QED
                BY <1>h, <1>t, <2>1, <4>1, <4>2 DEF FtsPlain, Near
        <3> QED
            BY <3>1, <3>2
    <2>4. Near("vec")'
        <3>1. CASE file["vec"] = Torn
            <4>1. engine'["vec"].saved = FALSE
                BY <2>1, <3>1 DEF VecLoaded, NewEngine
            <4> QED
                BY <4>1 DEF Near
        <3>2. CASE file["vec"] # Torn
            <4>1. /\ engine'["vec"].contents = file["vec"].contents /\ engine'["vec"].dirties = 0
                  /\ engine'["vec"].docs = file["vec"].docs
                BY <2>1, <3>2 DEF VecLoaded, NewEngine
            <4>2. /\ Cardinality(Differ(engine'["vec"].docs, file'["vec"].docs)) <= 0
                  /\ Cardinality(Differ(engine'["vec"].contents, file'["vec"].contents)) <= 0
                BY <2>1, <4>1, NoDifference
            <4> QED
                BY <1>t, <4>1, <4>2 DEF Near
        <3> QED
            BY <3>1, <3>2
    <2> QED
        BY <2>3, <2>4
<1>2. CASE CloseStore \/ Kill
    <2>1. up' = FALSE /\ engine' = [e \in Engines |-> NewEngine]
        BY <1>2 DEF CloseStore, Kill
    <2>2. file'["fts"] = file["fts"] \/ file'["fts"] = Torn
        BY <1>2, <1>t DEF CloseStore, Kill
    <2> QED
        BY <1>h, <1>q, <1>t, <2>1, <2>2 DEF FtsPlain, Near, NewEngine
<1>3. CASE Keep \/ SaveIDF \/ UNCHANGED indexVars \/ \E p \in Paths : RecordOnly(p)
    <2>1. UNCHANGED <<engine, file, up, task>> /\ (faults' = 0 => faults = 0)
        BY <1>3, <1>t DEF Keep, SaveIDF, indexVars, RecordOnly
    <2> QED
        BY <1>h, <1>q, <1>t, <2>1, NearStays DEF FtsPlain
<1>4. CASE BuildFromStore \/ \E p \in Paths : BuildAndIndex(p) \/ BuildAndRemove(p)
    <2>1. UNCHANGED <<engine, file, up, faults>> /\ task.op \in {"none", "open"}
        BY <1>4 DEF BuildFromStore, BuildAndIndex, BuildAndRemove
    <2>2. task.at = "next"
        BY <2>1 DEF TaskOwn
    <2>3. task.at \notin SavesOf("fts") /\ task.at \notin SavesOf("vec")
        BY <2>2 DEF SavesOf
    <2> QED
        BY <1>h, <1>q, <1>t, <2>1, <2>3, NearStays DEF FtsPlain
<1>5. CASE TakeDocs \/ Finish \/ AllContentSet
    <2>1. UNCHANGED <<engine, file, up, faults>> /\ task.at \in {"next", "content"}
        BY <1>5 DEF TakeDocs, Finish, AllContentSet, UnchangedByTask
    <2>3. task.at \notin SavesOf("fts") /\ task.at \notin SavesOf("vec")
        BY <2>1 DEF SavesOf
    <2> QED
        BY <1>h, <1>q, <1>t, <2>1, <2>3, NearStays DEF FtsPlain
<1>6. CASE WriteFts
    <2>1. Rewrites("fts")
        BY <1>6, <1>w, WriteFtsDoes
    <2>2. UNCHANGED <<file, up, faults>> /\ task.at = "fts" /\ task'.at = "save fts"
        BY <1>6, <1>a DEF WriteFts, UnchangedByTask
    <2>3. task'.at \in SavesOf("fts") /\ task.at \notin SavesOf("vec")
        BY <2>2 DEF SavesOf
    <2>4. Near("fts")'
        BY <1>h, <1>t, <2>1, <2>2, <2>3, NearWritten
    <2>5. engine'["vec"] = engine["vec"] /\ engine'["fts"].contents = engine["fts"].contents
        BY <1>t, <2>1 DEF Rewrites
    <2>6. Near("vec")'
        BY <1>h, <1>t, <2>2, <2>3, <2>5, NearStays
    <2> QED
        BY <1>h, <1>q, <2>2, <2>4, <2>5, <2>6 DEF FtsPlain
<1>7. CASE WriteVec
    <2>1. Rewrites("vec")
        BY <1>7, <1>w, WriteVecDoes
    <2>2. UNCHANGED <<file, up, faults>> /\ task.at = "vec" /\ task'.at = "save vec"
        BY <1>7, <1>a DEF WriteVec, UnchangedByTask
    <2>3. task'.at \in SavesOf("vec") /\ task.at \notin SavesOf("fts")
        BY <2>2 DEF SavesOf
    <2>4. Near("vec")'
        BY <1>h, <1>t, <2>1, <2>2, <2>3, NearWritten
    <2>5. engine'["fts"] = engine["fts"]
        BY <1>t, <2>1 DEF Rewrites
    <2>6. Near("fts")'
        BY <1>h, <1>t, <2>2, <2>3, <2>5, NearStays
    <2> QED
        BY <1>h, <1>q, <2>2, <2>4, <2>5, <2>6 DEF FtsPlain
<1>8. CASE WriteContent
    <2>1. PICK c \in task.now :
              /\ task' = [task EXCEPT !.now = @ \ {c}, !.at = "save content"]
              /\ engine' \in [Engines -> EngineStates]
              /\ SameBeside(engine["vec"].contents, engine'["vec"].contents, {c.id})
              /\ engine'["vec"].dirties = engine["vec"].dirties + 1
              /\ engine'["vec"].docs = engine["vec"].docs /\ engine'["vec"].saved = engine["vec"].saved
              /\ engine'["fts"] = engine["fts"]
        BY <1>8, WriteContentDoes
    <2>2. UNCHANGED <<file, up, faults>> /\ task.at = "content" /\ task'.at = "save content"
        BY <1>8, <1>a, <2>1 DEF WriteContent, UnchangedByTask
    <2>3. task'.at \in SavesOf("vec") /\ task.at \notin SavesOf("fts")
        BY <2>2 DEF SavesOf
    <2>4. Near("vec")'
        <3> SUFFICES ASSUME up, engine["vec"].saved, file["vec"] # Torn
                     PROVE  /\ Cardinality(Differ(engine'["vec"].docs, file["vec"].docs)) <= engine'["vec"].dirties
                            /\ Cardinality(Differ(engine'["vec"].contents, file["vec"].contents)) <= engine'["vec"].dirties
            BY <2>1, <2>2, <2>3 DEF Near
        <3> DEFINE t == engine["vec"].contents
                   u == engine'["vec"].contents
                   f == file["vec"].contents
                   ids == {c.id}
                   n == engine["vec"].dirties
                   k == Cardinality(Differ(engine["vec"].docs, file["vec"].docs))
        <3>1. /\ engine["vec"] \in EngineStates /\ engine'["vec"] \in EngineStates /\ file["vec"] \in Images
              /\ c \in Doc
            BY <1>t, <2>1 DEF IndexTyped, TaskStates
        <3>2. /\ t \in Table /\ u \in Table /\ f \in Table /\ n \in Nat
              /\ engine["vec"].docs \in Table /\ file["vec"].docs \in Table
            BY <3>1 DEF EngineStates, Images
        <3>3. ids \in SUBSET DocIds /\ Cardinality(ids) = 1
            BY <3>1, FS_Singleton DEF Doc
        <3>4. Cardinality(Differ(t, f)) <= n /\ k <= n
            BY <1>h DEF Near
        <3>5. k \in Nat
            BY <3>2, DifferCount
        <3>6. SameBeside(t, u, ids) /\ engine'["vec"].dirties = n + 1
            BY <2>1
        <3>7. Cardinality(ids) <= 1 /\ 1 \in Nat
            BY <3>3
        <3> HIDE DEF t, u, f, ids, n, k
        <3>8. Cardinality(Differ(u, f)) <= n + 1
            BY <3>2, <3>3, <3>4, <3>6, <3>7, StillNear DEF SameBeside
        <3>9. k <= n + 1
            BY <3>2, <3>4, <3>5
        <3> QED
            BY <2>1, <3>6, <3>8, <3>9 DEF u, f, k
    <2>6. Near("fts")'
        BY <1>h, <1>t, <2>1, <2>2, <2>3, NearStays
    <2> QED
        BY <1>h, <1>q, <2>1, <2>2, <2>4, <2>6 DEF FtsPlain
<1>9. CASE MaybeSave
    <2>1. Saves /\ up' = up
        BY <1>9, MaybeSaveDoes DEF MaybeSave, UnchangedByTask
    <2>2. FtsPlain'
        BY <1>h, <1>t, <2>1 DEF FtsPlain, Saves, Image
    <2>3. ASSUME NEW e \in Engines PROVE Near(e)'
        <3>1. Near(e)
            BY DEF Lag
        <3> SUFFICES ASSUME up, engine[e].saved
                     PROVE  /\ file'[e] # Torn =>
                                  /\ Cardinality(Differ(engine'[e].docs, file'[e].docs)) <= engine'[e].dirties
                                  /\ Cardinality(Differ(engine'[e].contents, file'[e].contents)) <= engine'[e].dirties
                            /\ faults' = 0 => engine'[e].dirties < Threshold
            BY <2>1 DEF Near, Saves
        <3>2. /\ engine'[e].docs = engine[e].docs /\ engine'[e].contents = engine[e].contents
              /\ engine'[e].dirties \in Nat
            BY <2>1 DEF Saves, EngineStates
        <3>3. CASE engine'[e].dirties = engine[e].dirties /\ (file'[e] = file[e] \/ file'[e] = Torn)
            <4>1. file'[e] # Torn =>
                                  /\ Cardinality(Differ(engine'[e].docs, file'[e].docs)) <= engine'[e].dirties
                                  /\ Cardinality(Differ(engine'[e].contents, file'[e].contents)) <= engine'[e].dirties
                BY <3>1, <3>2, <3>3 DEF Near
            <4>2. ASSUME faults' = 0 PROVE engine'[e].dirties < Threshold
                <5>1. faults = 0
                    BY <2>1, <1>t, <4>2 DEF Saves
                <5>2. CASE task.at \notin SavesOf(e)
                    BY <3>1, <3>3, <5>1, <5>2 DEF Near
                <5>3. CASE task.at \in SavesOf(e)
                    <6>1. e = EngineOf(task.at)
                        BY <1>t, <5>3 DEF SavesOf, EngineOf
                    <6>2. CASE Due(e)
                        <7>1. Save(e)
                            BY <1>9, <6>1, <6>2 DEF MaybeSave
                        <7>2. engine' = [engine EXCEPT ![e].dirties = 0]
                            BY <7>1, <4>2, <5>1, <1>t DEF Save
                        <7>3. engine'[e].dirties = 0
                            BY <7>2, <1>t DEF EngineStates
                        <7> QED
                            BY <7>3, <1>t
                    <6>3. CASE ~Due(e)
                        <7>1. engine[e].dirties \in Nat /\ ~(engine[e].dirties >= Threshold)
                            BY <6>3, <1>t DEF Due, EngineStates
                        <7> QED
                            BY <7>1, <3>3, <1>t
                    <6> QED
                        BY <6>2, <6>3
                <5> QED
                    BY <5>2, <5>3
            <4> QED
                BY <4>1, <4>2
        <3>4. CASE engine'[e].dirties = 0 /\ file'[e] = Image(e)
            <4>1. file'[e].docs = engine'[e].docs /\ file'[e].contents = engine'[e].contents
                BY <3>2, <3>4 DEF Image
            <4>2. /\ Cardinality(Differ(engine'[e].docs, file'[e].docs)) = 0
                  /\ Cardinality(Differ(engine'[e].contents, file'[e].contents)) = 0
                BY <4>1, NoDifference
            <4> QED
                BY <1>t, <3>4, <4>2
        <3> QED
            BY <2>1, <3>3, <3>4 DEF Saves
    <2> QED
        BY <1>q, <1>t, <2>2, <2>3
<1> QED
    BY <1>1, <1>2, <1>3, <1>4, <1>5, <1>6, <1>7, <1>8, <1>9 DEF IndexNext, Step

-----------------------------------------------------------------------------
(* The word weights                                                        *)

\* A word is in no more documents than there are.
Counted(s) == \A w \in Words : s.df[w] <= s.docCnt

Weights == Counted(idf) /\ (idfFile # Torn => Counted(idfFile))

LEMMA WeightsInit == IndexInit => Weights
BY NoIDFTyped DEF IndexInit, Weights, Counted

LEMMA WeightsNext == IndexTyped /\ Weights /\ [IndexNext]_indexVars => Weights'
<1> SUFFICES ASSUME IndexTyped, Weights, [IndexNext]_indexVars PROVE Weights'
    OBVIOUS
<1>n. Counted(NoIDF)
    BY NoIDFTyped DEF Counted
<1>h. Counted(idf) /\ (idfFile # Torn => Counted(idfFile))
    BY DEF Weights
<1>q. /\ Counted(idf)' <=> Counted(idf')
      /\ Counted(idfFile)' <=> Counted(idfFile')
    BY DEF Counted
<1>1. CASE UNCHANGED <<idf, idfFile>>
    BY <1>1, <1>h DEF Weights, Counted
<1>2. CASE Open
    <2>1. (idf' = NoIDF \/ (idf' = idfFile /\ idfFile # Torn)) /\ idfFile' = idfFile
        BY <1>2 DEF Open, LoadIDF
    <2> QED
        BY <1>h, <1>n, <1>q, <2>1 DEF Weights
<1>3. CASE SaveIDF
    <2>1. idf' = idf /\ (idfFile' = idf \/ idfFile' = Torn)
        BY <1>3 DEF SaveIDF
    <2> QED
        BY <1>h, <1>q, <2>1 DEF Weights
<1>4. CASE CloseStore \/ Kill
    <2>1. idf' = NoIDF /\ (idfFile' = idfFile \/ idfFile' = Torn)
        BY <1>4 DEF CloseStore, Kill
    <2> QED
        BY <1>h, <1>n, <1>q, <2>1 DEF Weights
<1>5. CASE TakeDocs
    <2>1. PICK taken \in Batch : idf' = Observed(taken)
        BY <1>5 DEF TakeDocs
    <2>2. taken \in SUBSET Doc
        BY <2>1 DEF Batch, IndexTyped, TaskStates
    <2>3. idf \in IDF
        BY DEF IndexTyped
    <2>4. Counted(Observe(idf, taken))
        BY <1>h, <2>2, <2>3, ObservedSound DEF Counted
    <2>5. idf' = idf \/ idf' = Observe(idf, taken)
        BY <2>1 DEF Observed
    <2>6. idfFile' = idfFile
        BY <1>5 DEF TakeDocs, UnchangedByTask
    <2> QED
        BY <1>h, <1>q, <2>4, <2>5, <2>6 DEF Weights
<1>6. CASE Keep \/ BuildFromStore \/ UNCHANGED indexVars
    BY <1>1, <1>6 DEF Keep, BuildFromStore, indexVars
<1>7. CASE \E p \in Paths : BuildAndIndex(p) \/ RecordOnly(p) \/ BuildAndRemove(p)
    BY <1>1, <1>7 DEF BuildAndIndex, RecordOnly, BuildAndRemove
<1>8. CASE Finish \/ WriteFts \/ WriteVec \/ WriteContent \/ AllContentSet \/ MaybeSave
    BY <1>1, <1>8 DEF Finish, WriteFts, WriteVec, WriteContent, AllContentSet, MaybeSave, UnchangedByTask
<1> QED
    BY <1>2, <1>3, <1>4, <1>5, <1>6, <1>7, <1>8 DEF IndexNext, Step

-----------------------------------------------------------------------------
(* The search index, over the life of its processes                        *)

IndexInv == IndexTyped /\ StoresKeyed /\ TaskOwn /\ Indexed /\ Lag /\ Weights

LEMMA IndexInductive == IndexSpec => []IndexInv
<1>1. IndexInit => IndexInv
    BY IndexTypedInit, StoresKeyedInit, TaskOwnInit, IndexedInit, LagInit, WeightsInit DEF IndexInv
<1>2. IndexInv /\ [IndexNext]_indexVars => IndexInv'
    <2> SUFFICES ASSUME IndexInv, [IndexNext]_indexVars PROVE IndexInv'
        OBVIOUS
    <2>1. IndexTyped /\ StoresKeyed /\ TaskOwn /\ Indexed /\ Lag /\ Weights /\ Keyed(store, nextID)
        BY DEF IndexInv, StoresKeyed
    <2>2. Indexed'
        BY <2>1, IndexedStep, IndexedBegins DEF IndexNext
    <2> QED
        BY <2>1, <2>2, IndexTypedNext, StoresKeyedNext, TaskOwnNext, LagNext, WeightsNext DEF IndexInv
<1> QED
    BY <1>1, <1>2, PTL DEF IndexSpec

\* PersistentFTS, PersistentStore, IndexBuilder: whatever torn files, lost
\* saves and ids given out twice a process starts with, a file whose last
\* indexing succeeded is found in both engines by every symbol it has now, with
\* its text and its content; and a removal leaves what it has gone through in
\* neither.
THEOREM IndexStaysCurrent == IndexSpec => []IndexCurrent
<1>1. IndexInv => IndexCurrent
    <2> SUFFICES ASSUME IndexInv PROVE IndexCurrent
        OBVIOUS
    <2>1. Found /\ Gone /\ TaskOwn /\ IndexTyped
        BY DEF IndexInv, Indexed
    <2>2. FoundInBoth
        <3> SUFFICES ASSUME up, NEW p \in Paths \ gaps, NEW d \in DocsOf(p),
                            NEW table \in {FtsDocs, VecDocs, VecContents}
                     PROVE  d.id \in DOMAIN table /\ table[d.id] = d.text
            BY DEF FoundInBoth, FtsDocs, VecDocs, VecContents
        <3>1. InTable(FtsDocs, d) /\ InTable(VecDocs, d) /\ InTable(VecContents, d)
            BY <2>1 DEF Found
        <3> QED
            BY <3>1 DEF InTable
    <2>3. RemovedFromBoth
        <3> SUFFICES ASSUME task.op = "remove", task.at = "next", NEW p \in task.paths,
                            NEW i \in IdsOf(DocsOf(p)), i \notin IdsOf(task.todo)
                     PROVE  i \notin DOMAIN FtsDocs /\ i \notin DOMAIN VecDocs
            BY DEF RemovedFromBoth, FtsDocs, VecDocs
        <3>1. p \in Paths
            BY <2>1 DEF IndexTyped, TaskStates
        <3>2. i \in IdsOf(Own(p))
            BY <3>1, DocsAreOwn DEF IdsOf
        <3> QED
            BY <2>1, <3>2 DEF Gone
    <2> QED
        BY <2>2, <2>3 DEF IndexCurrent
<1> QED
    BY <1>1, IndexInductive, PTL

\* maybeSave: an engine is never further from its file than the changes it
\* counts, and until a save fails it counts fewer than Threshold between two
\* writes.
THEOREM LagStaysBounded == IndexSpec => []LagBounded
<1>1. IndexInv => LagBounded
    <2> SUFFICES ASSUME IndexInv, NEW e \in Engines, up, engine[e].saved, file[e] # Torn
                 PROVE  /\ Cardinality(Differ(engine[e].docs, file[e].docs)) <= engine[e].dirties
                        /\ Cardinality(Differ(engine[e].contents, file[e].contents)) <= engine[e].dirties
                        /\ faults = 0 /\ task.op = "none" => engine[e].dirties < Threshold
        BY DEF LagBounded
    <2>1. Near(e) /\ TaskOwn
        BY DEF IndexInv, Lag
    <2>2. task.op = "none" => task.at \notin SavesOf(e)
        BY <2>1 DEF TaskOwn, SavesOf
    <2> QED
        BY <2>1, <2>2 DEF Near
<1> QED
    BY <1>1, IndexInductive, PTL

\* LocalEmbedder: the weights of words are never negative, whatever was saved
\* and loaded; and the state has its types.
THEOREM WeightsStaySound == IndexSpec => []WeightsSound
<1>1. IndexInv => WeightsSound
    <2> SUFFICES ASSUME IndexInv PROVE WeightsSound
        OBVIOUS
    <2>1. IndexTyped /\ Weights
        BY DEF IndexInv
    <2>2. WeightsNotNegative
        BY <2>1 DEF WeightsNotNegative, Weights, Counted
    <2>3. \A e \in Engines :
             /\ engine[e].docs \in Table /\ engine[e].contents \in Table
             /\ engine[e].dirties \in Nat /\ engine[e].saved \in BOOLEAN
             /\ \/ file[e] = Torn
                \/ file[e].docs \in Table /\ file[e].contents \in Table
        BY <2>1 DEF IndexTyped, EngineStates, Images
    <2>4. /\ task.op \in {"none", "open", "build", "index", "remove"} /\ task.at \in Steps
          /\ task.todo \cup task.now \subseteq Doc /\ task.paths \subseteq Paths
        BY <2>1 DEF IndexTyped, TaskStates, TaskOps
    <2>5. kept.store \in [Paths -> (SUBSET Symbol) \cup {Unknown}] /\ store \in [Paths -> (SUBSET Symbol) \cup {Unknown}]
        BY <2>1 DEF IndexTyped, Stores
    <2> QED
        BY <2>1, <2>2, <2>3, <2>4, <2>5 DEF WeightsSound, IndexTypeOK, IndexTyped
<1> QED
    BY <1>1, IndexInductive, PTL

-----------------------------------------------------------------------------
(* The watchers *)


\* The clock of modification times is not behind anything that was recorded.
ClockAhead(p) ==
    /\ disk[p].mtime <= writes
    /\ seen[p] = Unseen \/ seen[p] <= writes

\* During the scan nothing is watched; afterwards one path is handled at a time.
Phased(p) ==
    /\ phase = "scan" => base[p] = Unseen /\ seen[p] = Unseen /\ p \notin pending
    /\ phase = "watch" /\ job[p].stage # "idle" => current = p

\* A path without an adapter is never parsed.
PlainUnparsed(p) == job[p].stage \in {"parse", "upsert"} => p \notin Plain

\* What BuildAndIndex is given is a document.
Indexable(p) == job[p].stage = "index" => stored[p].ir \in Contents

\* The stored hash counts only while no ProcessFile is about to replace it.
Traced(p) ==
    Watched(p) =>
        \/ InFlight(p)
        \/ p \in failed
        \/ job[p].stage \in {"idle", "index", "done"} /\ stored[p].hash = disk[p].content

IInv == PipelineTypeOK /\ \A p \in Sources : ClockAhead(p) /\ Phased(p) /\ PlainUnparsed(p) /\ Indexable(p) /\ Traced(p)

-----------------------------------------------------------------------------
(* One lemma per action; each one concerns a single path p.                *)

USE DEF Stage

\* The parts of IInv for one path depend on nothing but the variables below.
Local(p) == ClockAhead(p) /\ Phased(p) /\ PlainUnparsed(p) /\ Indexable(p) /\ Traced(p)

\* The initial states satisfy IInv.
LEMMA InitIInv == PipelineInit => IInv
<1> SUFFICES ASSUME PipelineInit PROVE IInv
  OBVIOUS
<1> USE DEF PipelineInit
<1>1. \A p \in Sources : disk[p] \in [exists : BOOLEAN, content : Contents, mtime : {1}]
  OBVIOUS
<1>2. PipelineTypeOK
  BY <1>1, WatchPipelineAssumption DEF PipelineTypeOK, Job, NotStored
<1>3. ASSUME NEW p \in Sources PROVE Local(p)
  BY <1>1, WatchPipelineAssumption DEF Local, ClockAhead, Phased, PlainUnparsed, Indexable, Traced, Watched
<1> QED
  BY <1>2, <1>3 DEF IInv, Local

\* A step that leaves the records of q alone, and current too if q is being
\* handled, keeps the parts for q.
LEMMA OtherPaths ==
    ASSUME NEW q \in Sources, PipelineTypeOK, Local(q),
           disk'[q] = disk[q], seen'[q] = seen[q], base'[q] = base[q],
           job'[q] = job[q], stored'[q] = stored[q], q \in pending' <=> q \in pending,
           q \in failed' <=> q \in failed,
           phase' = phase, writes' \in Nat, writes <= writes',
           phase = "watch" /\ job[q].stage # "idle" => current' = current
    PROVE  Local(q)'
<1>1. writes \in Nat /\ disk[q].mtime \in Nat /\ (seen[q] = Unseen \/ seen[q] \in Nat)
  BY WatchPipelineAssumption DEF PipelineTypeOK
<1>2. ClockAhead(q)'
  BY <1>1 DEF Local, ClockAhead
<1>3. Phased(q)' /\ PlainUnparsed(q)' /\ Indexable(q)' /\ Traced(q)'
  BY DEF Local, Phased, PlainUnparsed, Indexable, Traced, Watched, InFlight
<1> QED
  BY <1>2, <1>3 DEF Local

\* A step of the ProcessFile of p does not disturb the parts for other paths.
LEMMA OtherJobs ==
    ASSUME IInv, NEW p \in Sources,
           UNCHANGED <<disk, writes, phase, seen, base, pending, current>>,
           \A q \in Sources \ {p} : job'[q] = job[q] /\ stored'[q] = stored[q] /\ (q \in failed' <=> q \in failed)
    PROVE  \A q \in Sources \ {p} : Local(q)'
<1>1. writes \in Nat
  BY WatchPipelineAssumption DEF IInv, PipelineTypeOK
<1>2. ASSUME NEW q \in Sources \ {p} PROVE Local(q)'
  <2>1. Local(q) /\ PipelineTypeOK /\ writes' \in Nat /\ writes <= writes'
    BY <1>1 DEF IInv, Local
  <2> QED
    BY <2>1, OtherPaths
<1> QED
  BY <1>2

\* A user writes p: the new modification time is ahead of what the watcher saw.
LEMMA WriteStep ==
    ASSUME IInv, NEW p \in Sources, NEW c \in Contents, Write(p, c)
    PROVE  IInv'
<1> USE DEF Write
<1>1. writes \in Nat /\ MaxWrites \in Nat /\ writes' = writes + 1 /\ writes' \in 1 .. MaxWrites + 1
  BY WatchPipelineAssumption DEF IInv, PipelineTypeOK
<1>2. disk'[p] = [exists |-> TRUE, content |-> c, mtime |-> writes'] /\ \A q \in Sources \ {p} : disk'[q] = disk[q]
  BY DEF IInv, PipelineTypeOK
<1>3. disk' \in [Sources -> [exists : BOOLEAN, content : Contents, mtime : 1 .. MaxWrites + 1]]
  BY <1>1 DEF IInv, PipelineTypeOK
<1>4. PipelineTypeOK'
  BY <1>1, <1>3 DEF IInv, PipelineTypeOK
<1>5. Local(p)'
  <2>1. seen[p] = Unseen \/ (seen[p] \in Nat /\ seen[p] < writes')
    BY <1>1, WatchPipelineAssumption DEF IInv, PipelineTypeOK, ClockAhead
  <2>2. seen'[p] # disk'[p].mtime
    BY <1>1, <1>2, <2>1, WatchPipelineAssumption DEF IInv, PipelineTypeOK
  <2>3. disk'[p].mtime = writes'
    BY <1>2
  <2>4. ClockAhead(p)'
    BY <1>1, <2>1, <2>3 DEF ClockAhead
  <2>5. Traced(p)'
    BY <2>2 DEF Traced, InFlight
  <2> QED
    BY <2>4, <2>5 DEF IInv, Local, Phased, PlainUnparsed, Indexable
<1>6. ASSUME NEW q \in Sources \ {p} PROVE Local(q)'
  BY <1>1, <1>2, OtherPaths DEF IInv, Local
<1> QED
  BY <1>4, <1>5, <1>6 DEF IInv, Local

\* A user removes p: nothing is owed for a file that does not exist.
LEMMA RemoveStep ==
    ASSUME IInv, NEW p \in Sources, Delete(p)
    PROVE  IInv'
<1> USE DEF Delete
<1>1. writes \in Nat /\ MaxWrites \in Nat /\ writes' = writes + 1 /\ writes' \in 1 .. MaxWrites + 1
  BY WatchPipelineAssumption DEF IInv, PipelineTypeOK
<1>2. disk'[p] = [disk[p] EXCEPT !.exists = FALSE] /\ \A q \in Sources \ {p} : disk'[q] = disk[q]
  BY DEF IInv, PipelineTypeOK
<1>3. disk' \in [Sources -> [exists : BOOLEAN, content : Contents, mtime : 1 .. MaxWrites + 1]]
  BY <1>1 DEF IInv, PipelineTypeOK
<1>4. PipelineTypeOK'
  BY <1>1, <1>3 DEF IInv, PipelineTypeOK
<1>5. disk'[p].exists = FALSE /\ disk'[p].mtime = disk[p].mtime /\ disk[p].mtime \in Nat
  BY <1>2, WatchPipelineAssumption DEF IInv, PipelineTypeOK
<1>6. Local(p)'
  <2>1. seen[p] = Unseen \/ (seen[p] \in Nat /\ seen[p] <= writes)
    BY WatchPipelineAssumption DEF IInv, PipelineTypeOK, ClockAhead
  <2> QED
    BY <1>1, <1>5, <2>1 DEF IInv, Local, ClockAhead, Phased, PlainUnparsed, Indexable, Traced, Watched
<1>7. ASSUME NEW q \in Sources \ {p} PROVE Local(q)'
  BY <1>1, <1>2, OtherPaths DEF IInv, Local
<1> QED
  BY <1>4, <1>6, <1>7 DEF IInv, Local

\* buildInitialState takes p as it is: nothing is owed for it yet.
LEMMA InitialVisitStep ==
    ASSUME IInv, NEW p \in Sources, InitialVisit(p)
    PROVE  IInv'
<1> USE DEF InitialVisit
<1>1. /\ writes \in 1 .. MaxWrites + 1
      /\ disk[p].mtime \in Nat /\ disk[p].mtime <= writes
      /\ Modified(p) \in 0 .. MaxWrites + 1 /\ Modified(p) <= writes
  BY WatchPipelineAssumption DEF IInv, PipelineTypeOK, ClockAhead, Modified
<1>2. seen'[p] = Modified(p) /\ base'[p] = Modified(p)
  BY DEF IInv, PipelineTypeOK
<1>3. PipelineTypeOK'
  BY <1>1 DEF IInv, PipelineTypeOK
<1>4. Local(p)'
  <2>1. ~Watched(p)'
    BY <1>2 DEF Watched, Modified
  <2> QED
    BY <1>1, <1>2, <2>1 DEF IInv, Local, ClockAhead, Phased, PlainUnparsed, Indexable, Traced
<1>5. ASSUME NEW q \in Sources \ {p} PROVE Local(q)'
  BY OtherPaths DEF IInv, Local, PipelineTypeOK
<1> QED
  BY <1>3, <1>4, <1>5 DEF IInv, Local

\* A poll looks at p again: its change is now an event of the scheduler.
LEMMA VisitStep ==
    ASSUME IInv, NEW p \in Sources, Visit(p)
    PROVE  IInv'
<1> USE DEF Visit
<1>1. /\ writes \in 1 .. MaxWrites + 1
      /\ disk[p].mtime \in Nat /\ disk[p].mtime <= writes
      /\ Modified(p) \in 0 .. MaxWrites + 1 /\ Modified(p) <= writes
  BY WatchPipelineAssumption DEF IInv, PipelineTypeOK, ClockAhead, Modified
<1>2. seen'[p] = Modified(p) /\ pending' = pending \cup {p} /\ current' = current
  BY DEF IInv, PipelineTypeOK, Sched!Event
<1>3. PipelineTypeOK'
  BY <1>1, <1>2 DEF IInv, PipelineTypeOK
<1>4. phase = "watch"
  BY DEF IInv, PipelineTypeOK, Started, Phased
<1>5. Local(p)'
  BY <1>1, <1>2, <1>4 DEF IInv, Local, ClockAhead, Phased, PlainUnparsed, Indexable, Traced, InFlight
<1>6. ASSUME NEW q \in Sources \ {p} PROVE Local(q)'
  BY <1>1, <1>2, OtherPaths DEF IInv, Local, PipelineTypeOK
<1> QED
  BY <1>3, <1>5, <1>6 DEF IInv, Local

\* A worker of ScanAll takes p: the watcher has not started.
LEMMA DispatchStep ==
    ASSUME IInv, NEW p \in Sources, Dispatch(p)
    PROVE  IInv'
<1> USE DEF Dispatch
<1>1. job'[p] = Stage("stat") /\ job' \in [Sources -> Job]
  BY DEF IInv, PipelineTypeOK, Job
<1>2. PipelineTypeOK'
  BY <1>1 DEF IInv, PipelineTypeOK
<1>3. Local(p)'
  BY <1>1 DEF IInv, Local, ClockAhead, Phased, PlainUnparsed, Indexable, Traced, InFlight
<1>4. ASSUME NEW q \in Sources \ {p} PROVE Local(q)'
  BY OtherPaths DEF IInv, Local, PipelineTypeOK
<1> QED
  BY <1>2, <1>3, <1>4 DEF IInv, Local

\* The scheduler takes p, whose job is idle: the last change will be seen.
LEMMA HandleStep ==
    ASSUME IInv, NEW p \in Sources, Handle(p)
    PROVE  IInv'
<1> USE DEF Handle
<1>1. job'[p] = Stage("stat") /\ job' \in [Sources -> Job]
  BY DEF IInv, PipelineTypeOK, Job
<1>2. /\ current = NoPath /\ p \in pending /\ current' = p
      /\ pending' \subseteq Sources /\ \A q \in Sources \ {p} : q \in pending' <=> q \in pending
  BY DEF IInv, PipelineTypeOK, Sched!Start
<1>3. PipelineTypeOK'
  BY <1>1, <1>2 DEF IInv, PipelineTypeOK
<1>4. phase = "watch" /\ \A q \in Sources : job[q].stage = "idle"
  BY <1>2, WatchPipelineAssumption DEF IInv, PipelineTypeOK, Phased
<1>5. Local(p)'
  BY <1>1, <1>2, <1>4 DEF IInv, Local, ClockAhead, Phased, PlainUnparsed, Indexable, Traced, InFlight
<1>6. ASSUME NEW q \in Sources \ {p} PROVE Local(q)'
  <2>1. writes \in Nat /\ writes' \in Nat /\ writes <= writes'
    BY WatchPipelineAssumption DEF IInv, PipelineTypeOK
  <2>2. PipelineTypeOK /\ Local(q) /\ job'[q] = job[q] /\ job[q].stage = "idle"
    BY <1>4 DEF IInv, Local, PipelineTypeOK
  <2> QED
    BY <1>2, <2>1, <2>2, OtherPaths
<1> QED
  BY <1>3, <1>5, <1>6 DEF IInv, Local

\* markSkipped ends the job and clears the stored hash or leaves it.
LEMMA MarkSkippedStep ==
    ASSUME IInv, NEW p \in Sources, MarkSkipped(p)
    PROVE  /\ job' \in [Sources -> Job] /\ job'[p] = Stage("done")
           /\ stored' \in [Sources -> [hash : Contents \cup {NoContent}, ir : Contents \cup {NoContent}]]
           /\ \A q \in Sources \ {p} : job'[q] = job[q] /\ stored'[q] = stored[q]
           /\ failed' = failed
  BY DEF IInv, PipelineTypeOK, MarkSkipped, Job

\* A job that fails is over, and its path is among the failed ones.
LEMMA FailStep ==
    ASSUME IInv, NEW p \in Sources, Fail(p)
    PROVE  /\ job' \in [Sources -> Job] /\ job'[p] = Stage("done")
           /\ p \in failed' /\ failed' \subseteq Sources
           /\ \A q \in Sources \ {p} : job'[q] = job[q] /\ (q \in failed' <=> q \in failed)
  BY DEF IInv, PipelineTypeOK, Fail, Job

\* A watched file is under the size limit and goes on to be hashed.
LEMMA StatFileStep ==
    ASSUME IInv, NEW p \in Sources, StatFile(p)
    PROVE  IInv'
<1> USE DEF StatFile
<1>1. disk[p] \in [exists : BOOLEAN, content : Contents, mtime : 1 .. MaxWrites + 1] /\ job[p] \in Job
  BY DEF IInv, PipelineTypeOK
<1>2. /\ job' \in [Sources -> Job]
      /\ stored' \in [Sources -> [hash : Contents \cup {NoContent}, ir : Contents \cup {NoContent}]]
      /\ job'[p] = Stage("hash") \/ (Is(p, TooBig) /\ job'[p] = Stage("done"))
      /\ \A q \in Sources \ {p} : job'[q] = job[q] /\ stored'[q] = stored[q]
      /\ failed' = failed
  <2>1. CASE Is(p, TooBig) /\ MarkSkipped(p)
    BY <2>1, MarkSkippedStep
  <2>2. CASE job' = [job EXCEPT ![p] = Stage("hash")] /\ UNCHANGED <<stored, failed>>
    BY <2>2 DEF IInv, PipelineTypeOK, Job
  <2> QED
    BY <2>1, <2>2
<1>3. PipelineTypeOK'
  BY <1>1, <1>2 DEF IInv, PipelineTypeOK
<1>4. Local(p)'
  BY <1>1, <1>2 DEF IInv, Local, ClockAhead, Phased, PlainUnparsed, Indexable, Traced, Watched, InFlight, Is
<1>5. \A q \in Sources \ {p} : Local(q)'
  BY <1>2, OtherJobs
<1> QED
  BY <1>3, <1>4, <1>5 DEF IInv, Local

\* The gate lets p go without success only if the stored hash is that of the
\* content, or the file could not be hashed.
LEMMA HashFileStep ==
    ASSUME IInv, NEW p \in Sources, HashFile(p)
    PROVE  IInv'
<1>1. disk[p] \in [exists : BOOLEAN, content : Contents, mtime : 1 .. MaxWrites + 1] /\ job[p] \in Job
  BY DEF IInv, PipelineTypeOK
<1>2. PICK err \in HashErrors(p), existing \in {stored[p].hash, NoContent} :
        /\ \/ /\ err = "none" /\ existing # disk[p].content
              /\ job' = [job EXCEPT ![p].stage = "lines", ![p].hash = disk[p].content]
              /\ UNCHANGED failed
           \/ /\ (err = "none" /\ existing = disk[p].content) \/ IsNotExist(err)
              /\ job' = [job EXCEPT ![p] = Stage("done")]
              /\ UNCHANGED failed
           \/ err # "none" /\ ~IsNotExist(err) /\ Fail(p)
        /\ index' = [index EXCEPT ![p] = IF IsNotExist(err) /\ phase = "watch" THEN @ \ {stored[p].ir} ELSE @]
  BY DEF HashFile
<1>3. ~IsNotExist(err) /\ job[p].stage = "hash"
  BY DEF HashErrors, IsNotExist, HashFile
<1>4. /\ job' \in [Sources -> Job] /\ failed' \subseteq Sources
      /\ \A q \in Sources \ {p} : job'[q] = job[q] /\ (q \in failed' <=> q \in failed)
      /\ \/ job'[p].stage = "lines" /\ job'[p].hash = disk[p].content
         \/ /\ job'[p].stage = "done"
            /\ p \in failed' \/ stored[p].hash = disk[p].content
  <2>1. CASE job' = [job EXCEPT ![p].stage = "lines", ![p].hash = disk[p].content] /\ UNCHANGED failed
    <3>1. job[p].ir = NoContent
      BY <1>1, <1>3 DEF Job
    <3>2. [job[p] EXCEPT !.stage = "lines", !.hash = disk[p].content] \in Job
      BY <1>1, <3>1 DEF Job
    <3> QED
      BY <1>1, <2>1, <3>1, <3>2 DEF IInv, PipelineTypeOK, Job
  <2>2. CASE existing = disk[p].content /\ job' = [job EXCEPT ![p] = Stage("done")] /\ UNCHANGED failed
    BY <1>1, <2>2, WatchPipelineAssumption DEF IInv, PipelineTypeOK, Job
  <2>3. CASE Fail(p)
    BY <2>3, FailStep
  <2> QED
    BY <1>2, <1>3, <2>1, <2>2, <2>3
<1>5. index' \in [Sources -> SUBSET Contents]
  BY <1>2 DEF IInv, PipelineTypeOK
<1>6. UNCHANGED <<disk, writes, phase, listed, seen, base, pending, current, stored, torn>>
  BY DEF HashFile
<1>7. PipelineTypeOK'
  BY <1>1, <1>4, <1>5, <1>6 DEF IInv, PipelineTypeOK
<1>8. Local(p)'
  BY <1>1, <1>3, <1>4, <1>6 DEF IInv, Local, ClockAhead, Phased, PlainUnparsed, Indexable, Traced, Watched, InFlight
<1>9. \A q \in Sources \ {p} : Local(q)'
  BY <1>4, <1>6, OtherJobs
<1> QED
  BY <1>7, <1>8, <1>9 DEF IInv, Local

\* A watched file is under the line limit; without an adapter its hash is stored
\* unless the store fails.
LEMMA CountLinesStep ==
    ASSUME IInv, NEW p \in Sources, CountLines(p)
    PROVE  IInv'
<1> USE DEF CountLines
<1>1. disk[p] \in [exists : BOOLEAN, content : Contents, mtime : 1 .. MaxWrites + 1] /\ job[p] \in Job
  BY DEF IInv, PipelineTypeOK
<1>2. /\ job' \in [Sources -> Job] /\ failed' \subseteq Sources
      /\ stored' \in [Sources -> [hash : Contents \cup {NoContent}, ir : Contents \cup {NoContent}]]
      /\ \A q \in Sources \ {p} : job'[q] = job[q] /\ stored'[q] = stored[q] /\ (q \in failed' <=> q \in failed)
      /\ \/ Is(p, TooLong) /\ job'[p] = Stage("done")
         \/ p \notin Plain /\ failed' = failed /\ job'[p].stage = "parse" /\ job'[p].hash = job[p].hash
         \/ p \in Plain /\ failed' = failed /\ job'[p] = Stage("done") /\ stored'[p].hash = job[p].hash
         \/ p \in failed' /\ job'[p] = Stage("done")
  <2>1. CASE Is(p, TooLong) /\ MarkSkipped(p)
    BY <2>1, MarkSkippedStep DEF IInv, PipelineTypeOK
  <2>2. CASE p \notin Plain /\ job' = [job EXCEPT ![p].stage = "parse"] /\ UNCHANGED <<stored, failed>>
    BY <1>1, <2>2 DEF IInv, PipelineTypeOK, Job
  <2>3. CASE /\ p \in Plain
             /\ job' = [job EXCEPT ![p] = Stage("done")]
             /\ stored' = [stored EXCEPT ![p].hash = job[p].hash]
             /\ UNCHANGED failed
    BY <1>1, <2>3 DEF IInv, PipelineTypeOK, Job
  <2>4. CASE Fail(p) /\ UNCHANGED stored
    BY <2>4, FailStep DEF IInv, PipelineTypeOK
  <2> QED
    BY <2>1, <2>2, <2>3, <2>4
<1>3. PipelineTypeOK'
  BY <1>1, <1>2 DEF IInv, PipelineTypeOK
<1>4. Local(p)'
  BY <1>1, <1>2 DEF IInv, Local, ClockAhead, Phased, PlainUnparsed, Indexable, Traced, Watched, InFlight, Is
<1>5. \A q \in Sources \ {p} : Local(q)'
  BY <1>2, OtherJobs
<1> QED
  BY <1>3, <1>4, <1>5 DEF IInv, Local

\* A file that gets here has an adapter; it parses, or the job has failed.
LEMMA ParseStep ==
    ASSUME IInv, NEW p \in Sources, Parse(p)
    PROVE  IInv'
<1> USE DEF Parse
<1>1. disk[p] \in [exists : BOOLEAN, content : Contents, mtime : 1 .. MaxWrites + 1] /\ job[p] \in Job
  BY DEF IInv, PipelineTypeOK
<1>2. /\ job' \in [Sources -> Job] /\ failed' \subseteq Sources
      /\ \A q \in Sources \ {p} : job'[q] = job[q] /\ (q \in failed' <=> q \in failed)
      /\ \/ failed' = failed /\ job'[p].stage = "upsert" /\ job'[p].hash = job[p].hash
         \/ p \in failed' /\ job'[p] = Stage("done")
  <2>1. CASE /\ Is(p, Contents \ Unparsable)
             /\ job' = [job EXCEPT ![p].stage = "upsert", ![p].ir = disk[p].content]
             /\ UNCHANGED failed
    BY <1>1, <2>1 DEF IInv, PipelineTypeOK, Job, Is
  <2>2. CASE Fail(p)
    BY <2>2, FailStep
  <2> QED
    BY <2>1, <2>2
<1>3. PipelineTypeOK'
  BY <1>1, <1>2 DEF IInv, PipelineTypeOK
<1>4. Local(p)'
  BY <1>1, <1>2 DEF IInv, Local, ClockAhead, Phased, PlainUnparsed, Indexable, Traced, Watched, InFlight
<1>5. \A q \in Sources \ {p} : Local(q)'
  BY <1>2, OtherJobs
<1> QED
  BY <1>3, <1>4, <1>5 DEF IInv, Local

\* The hash that was taken is stored, or the job has failed.
LEMMA UpsertStep ==
    ASSUME IInv, NEW p \in Sources, Upsert(p)
    PROVE  IInv'
<1> USE DEF Upsert
<1>1. disk[p] \in [exists : BOOLEAN, content : Contents, mtime : 1 .. MaxWrites + 1] /\ job[p] \in Job
  BY DEF IInv, PipelineTypeOK
<1>2. job[p].hash \in Contents /\ job[p].ir \in Contents
  BY <1>1 DEF Job
<1>3. /\ job' \in [Sources -> Job] /\ failed' \subseteq Sources /\ torn' \subseteq Sources
      /\ stored' \in [Sources -> [hash : Contents \cup {NoContent}, ir : Contents \cup {NoContent}]]
      /\ \A q \in Sources \ {p} : job'[q] = job[q] /\ stored'[q] = stored[q] /\ (q \in failed' <=> q \in failed)
      /\ \/ /\ failed' = failed /\ job'[p].stage \in {"index", "done"}
            /\ stored'[p] = [hash |-> job[p].hash, ir |-> job[p].ir]
         \/ p \in failed' /\ job'[p] = Stage("done")
  <2>1. CASE /\ stored' = [stored EXCEPT ![p] = [hash |-> job[p].hash, ir |-> job[p].ir]]
             /\ job' = [job EXCEPT ![p] = IF phase = "watch" THEN [@ EXCEPT !.stage = "index"] ELSE Stage("done")]
             /\ torn' = torn \ {p}
             /\ UNCHANGED failed
    BY <1>1, <1>2, <2>1 DEF IInv, PipelineTypeOK, Job
  <2>2. ASSUME NEW left \in HalfStored(p), stored' = [stored EXCEPT ![p] = left],
               torn' = (IF left = stored[p] THEN torn ELSE torn \cup {p}), Fail(p)
        PROVE  /\ p \in failed' /\ job'[p] = Stage("done") /\ job' \in [Sources -> Job]
               /\ failed' \subseteq Sources /\ torn' \subseteq Sources
               /\ stored' \in [Sources -> [hash : Contents \cup {NoContent}, ir : Contents \cup {NoContent}]]
               /\ \A q \in Sources \ {p} : job'[q] = job[q] /\ stored'[q] = stored[q] /\ (q \in failed' <=> q \in failed)
    <3>1. left \in [hash : Contents \cup {NoContent}, ir : Contents \cup {NoContent}]
      BY <1>2, <2>2 DEF HalfStored, IInv, PipelineTypeOK
    <3> QED
      BY <2>2, <3>1, FailStep DEF IInv, PipelineTypeOK
  <2> QED
    BY <2>1, <2>2
<1>4. PipelineTypeOK'
  BY <1>1, <1>3 DEF IInv, PipelineTypeOK
<1>5. Local(p)'
  BY <1>1, <1>2, <1>3 DEF IInv, Local, ClockAhead, Phased, PlainUnparsed, Indexable, Traced, Watched, InFlight
<1>6. \A q \in Sources \ {p} : Local(q)'
  BY <1>3, OtherJobs
<1> QED
  BY <1>4, <1>5, <1>6 DEF IInv, Local

\* The index changes, the stored hash does not.
LEMMA IndexStep ==
    ASSUME IInv, NEW p \in Sources, Index(p)
    PROVE  IInv'
<1> USE DEF Index
<1>1. disk[p] \in [exists : BOOLEAN, content : Contents, mtime : 1 .. MaxWrites + 1] /\ job[p] \in Job
  BY DEF IInv, PipelineTypeOK
<1>2. /\ job' \in [Sources -> Job]
      /\ index' \in [Sources -> SUBSET Contents]
      /\ job'[p] = Stage("done")
  BY <1>1 DEF IInv, PipelineTypeOK, Job, Indexable
<1>3. PipelineTypeOK'
  BY <1>1, <1>2 DEF IInv, PipelineTypeOK
<1>4. Local(p)'
  BY <1>1, <1>2 DEF IInv, Local, ClockAhead, Phased, PlainUnparsed, Indexable, Traced, Watched, InFlight
<1>5. /\ UNCHANGED <<disk, writes, phase, seen, base, pending, current>>
      /\ \A q \in Sources \ {p} : job'[q] = job[q] /\ stored'[q] = stored[q] /\ (q \in failed' <=> q \in failed)
  BY DEF IInv, PipelineTypeOK
<1>6. \A q \in Sources \ {p} : Local(q)'
  BY <1>5, OtherJobs
<1> QED
  BY <1>3, <1>4, <1>6 DEF IInv, Local

\* ProcessFile returns; while watching, its path is the one being handled.
LEMMA ReturnStep ==
    ASSUME IInv, NEW p \in Sources, Return(p)
    PROVE  IInv'
<1> USE DEF Return
<1>1. job'[p] = Stage("idle") /\ job' \in [Sources -> Job] /\ \A q \in Sources \ {p} : job'[q] = job[q]
  BY DEF IInv, PipelineTypeOK, Job
<1>2. pending' = pending /\ current' \in {current, NoPath}
  BY DEF Sched!Finish
<1>3. PipelineTypeOK'
  BY <1>1, <1>2 DEF IInv, PipelineTypeOK
<1>4. Local(p)'
  BY <1>1, <1>2 DEF IInv, Local, ClockAhead, Phased, PlainUnparsed, Indexable, Traced, Watched, InFlight
<1>5. ASSUME NEW q \in Sources \ {p} PROVE Local(q)'
  <2>1. phase = "watch" => job[q].stage = "idle"
    BY DEF IInv, Phased
  <2>2. writes \in Nat /\ writes' \in Nat /\ writes <= writes'
    BY WatchPipelineAssumption DEF IInv, PipelineTypeOK
  <2>3. PipelineTypeOK /\ Local(q)
    BY DEF IInv, Local
  <2> QED
    BY <1>1, <1>2, <2>1, <2>2, <2>3, OtherPaths
<1> QED
  BY <1>3, <1>4, <1>5 DEF IInv, Local

\* The watcher starts; it has not looked at any path.
LEMMA StartWatchStep ==
    ASSUME IInv, StartWatch
    PROVE  IInv'
<1> USE DEF StartWatch
<1>1. PipelineTypeOK'
  BY DEF IInv, PipelineTypeOK
<1>2. ASSUME NEW p \in Sources PROVE Local(p)'
  BY DEF IInv, Local, ClockAhead, Phased, PlainUnparsed, Indexable, Traced, Watched, InFlight
<1> QED
  BY <1>1, <1>2 DEF IInv, Local

-----------------------------------------------------------------------------
(* Theorems *)

\* IInv holds in every reachable state: scan, watcher, scheduler and
\* ProcessFile keep their records in step whatever users do to the files.
THEOREM Inductive == PipelineSpec => []IInv
<1>1. ASSUME IInv, [PipelineNext]_pipelineVars PROVE IInv'
  <2>1. CASE StartWatch
    BY <1>1, <2>1, StartWatchStep
  <2>2. ASSUME NEW p \in Sources, Delete(p) PROVE IInv'
    BY <1>1, <2>2, RemoveStep
  <2>3. ASSUME NEW p \in Sources, NEW c \in Contents, Write(p, c) PROVE IInv'
    BY <1>1, <2>3, WriteStep
  <2>4. ASSUME NEW p \in Sources, Dispatch(p) \/ InitialVisit(p) \/ Visit(p) \/ Handle(p) PROVE IInv'
    BY <1>1, <2>4, DispatchStep, InitialVisitStep, VisitStep, HandleStep
  <2>5. ASSUME NEW p \in Sources, ProcessFile(p) PROVE IInv'
    BY <1>1, <2>5, StatFileStep, HashFileStep, CountLinesStep, ParseStep, UpsertStep, IndexStep, ReturnStep
       DEF ProcessFile
  <2>6. CASE UNCHANGED pipelineVars
    BY <1>1, <2>6 DEF pipelineVars, IInv, PipelineTypeOK, ClockAhead, Phased, PlainUnparsed, Indexable, Traced, Watched, InFlight
  <2> QED
    BY <1>1, <2>1, <2>2, <2>3, <2>4, <2>5, <2>6 DEF PipelineNext
<1> QED
  BY InitIInv, <1>1, PTL DEF PipelineSpec

\* The pipeline is type correct, and no change is lost: whenever the stored hash
\* of a watched file is not that of its content, a poll, an event or a running
\* ProcessFile will notice, whatever the limits and however often files change.
THEOREM PipelineStaysSound == PipelineSpec => []PipelineSound
<1>1. IInv => PipelineSound
  BY DEF IInv, Traced, PipelineSound, NoChangeLost
<1> QED
  BY Inductive, <1>1, PTL
=============================================================================
