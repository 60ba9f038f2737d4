----------------------------- MODULE HttpServer -----------------------------
(***************************************************************************)
(* server.HTTPServer: Start, the listeners a reload replaces one by the    *)
(* other (UpdateRuntime, rebind), the goroutine that serves each of them,  *)
(* Stop, and requests on their way through the middleware.  Start runs in  *)
(* the command, UpdateRuntime in the goroutine that watches the            *)
(* configuration: nothing orders the two.                                  *)
(*                                                                         *)
(* A generation stands for an httpRuntimeConfig: its token and its bucket  *)
(* were stored together.  A request keeps the bucket it has loaded, also   *)
(* when a reload brings another before it asks for its token.              *)
(***************************************************************************)
EXTENDS TokenBucket, FiniteSets

CONSTANTS
    Addrs,        \* listen addresses
    FirstAddr,    \* the one NewHTTPServer is given
    Requests,
    MaxUpdates,   \* bound on the calls of UpdateRuntime
    MaxTime,      \* bound on the clock
    MaxBreaks,    \* bound on the listeners that break by themselves
    Nobody        \* no listener, no address

ASSUME HttpServerAssumption ==
    /\ MaxUpdates \in Nat /\ MaxTime \in Nat /\ MaxBreaks \in Nat
    /\ Nobody \notin Addrs \cup Nat /\ FirstAddr \in Addrs

Actors == {"start", "update"}
ListenerIds == 1 .. MaxUpdates + 1

VARIABLES
    server,   \* h.server: "none", "open", or "down" after Shutdown
    addr,     \* h.addr
    ln,       \* h.ln
    conn,     \* listener -> address, is it open, its goroutine
    act,      \* actor -> where it is, the address and listeners it has in hand
    errCh,    \* the error serve has sent: the listener it came from
    stopping, \* has the context been cancelled?
    gen,      \* generation of h.runtime
    buckets,  \* generation that limits requests -> its bucket
    req,      \* request -> where it is, generation when it came, of its bucket, and when let in
    now,
    breaks,   \* listeners that broke so far
    raced     \* has an update read h.server or h.addr while Start bound (history)?

vars == <<server, addr, ln, conn, act, errCh, stopping, gen, buckets, req, now, breaks, raced>>

NoConn == [addr |-> Nobody, open |-> FALSE, at |-> "none"]
Resting == [at |-> "idle", to |-> Nobody, new |-> Nobody, old |-> Nobody]
NewRequest == [at |-> "new", came |-> 0, limiter |-> 0, passed |-> 0]

TypeOK ==
    /\ server \in {"none", "open", "down"} /\ addr \in Addrs /\ ln \in ListenerIds \cup {Nobody}
    /\ conn \in [ListenerIds -> [addr : Addrs \cup {Nobody}, open : BOOLEAN,
                         at : {"none", "spawned", "serving", "failed", "current", "done"}]]
    /\ act \in [Actors -> [at : {"idle", "compare", "listen", "swap", "close", "wait", "shut", "failed", "done"},
                           to : Addrs \cup {Nobody}, new : ListenerIds \cup {Nobody}, old : ListenerIds \cup {Nobody}]]
    /\ errCh \in ListenerIds \cup {Nobody} /\ stopping \in BOOLEAN
    /\ DOMAIN buckets \subseteq 1 .. MaxUpdates /\ \A g \in DOMAIN buckets : buckets[g] \in Bucket
    /\ gen \in 0 .. MaxUpdates /\ now \in 0 .. MaxTime /\ breaks \in 0 .. MaxBreaks /\ raced \in BOOLEAN
    /\ req \in [Requests -> [at : {"new", "limit", "bucket", "auth", "handler", "done"},
                             came : 0 .. MaxUpdates, limiter : 0 .. MaxUpdates, passed : 0 .. MaxUpdates]]

Init ==
    /\ server = "none" /\ addr = FirstAddr /\ ln = Nobody
    /\ conn = [i \in ListenerIds |-> NoConn] /\ act = [a \in Actors |-> Resting]
    /\ errCh = Nobody /\ stopping = FALSE /\ gen = 0 /\ buckets = <<>>
    /\ req = [r \in Requests |-> NewRequest]
    /\ now = 0 /\ breaks = 0 /\ raced = FALSE

Fresh == {i \in ListenerIds : conn[i] = NoConn}
Requested == \E r \in Requests : req[r].at # "new"
Binding == act["start"].at \in {"listen", "swap", "close"}

-----------------------------------------------------------------------------
(* Start and UpdateRuntime                                                 *)

\* Start makes the server and its channel, then binds h.addr.
Start ==
    /\ server = "none" /\ act["start"].at = "idle"
    /\ server' = "open"
    /\ act' = [act EXCEPT !["start"] = [Resting EXCEPT !.at = "listen", !.to = addr]]
    /\ raced' = (raced \/ act["update"].at = "compare")
    /\ UNCHANGED <<addr, ln, conn, errCh, stopping, gen, buckets, req, now, breaks>>

\* UpdateRuntime stores token and limiter first.  (Bound: the address is not
\* changed any more once a request has come.)
StoreRuntime(to) ==
    /\ Requested => to \in {Nobody, addr}
    /\ act["update"].at = "idle" /\ gen < MaxUpdates
    /\ gen' = gen + 1
    /\ \/ buckets' = [g \in DOMAIN buckets \cup {gen'} |-> IF g = gen' THEN Full(now) ELSE buckets[g]]
       \/ UNCHANGED buckets
    /\ act' = [act EXCEPT !["update"] = [Resting EXCEPT !.at = "compare", !.to = to]]
    /\ UNCHANGED <<server, addr, ln, conn, errCh, stopping, req, now, breaks, raced>>

\* The address is compared, and set at once while there is no server.
Compare ==
    LET to == act["update"].to
        same == to = Nobody \/ to = addr
    IN  /\ act["update"].at = "compare"
        /\ addr' = IF ~same /\ server = "none" THEN to ELSE addr
        /\ act' = [act EXCEPT !["update"] = IF same \/ server = "none" THEN Resting ELSE [@ EXCEPT !.at = "listen"]]
        /\ raced' = (raced \/ Binding)
        /\ UNCHANGED <<server, ln, conn, errCh, stopping, gen, buckets, req, now, breaks>>

-----------------------------------------------------------------------------
(* rebind, by either of them                                               *)

Taken(to) == \E i \in ListenerIds : conn[i].open /\ conn[i].addr = to

\* net.Listen may fail; an address in use makes it fail.
Listen(a) ==
    /\ act[a].at = "listen"
    /\ \/ \E i \in Fresh :
             /\ i = Cardinality(ListenerIds \ Fresh) + 1
             /\ ~Taken(act[a].to)
             /\ conn' = [conn EXCEPT ![i] = [addr |-> act[a].to, open |-> TRUE, at |-> "none"]]
             /\ act' = [act EXCEPT ![a].at = "swap", ![a].new = i]
       \/ /\ act' = [act EXCEPT ![a] = IF a = "start" THEN [Resting EXCEPT !.at = "failed"] ELSE Resting]
          /\ UNCHANGED conn
    /\ UNCHANGED <<server, addr, ln, errCh, stopping, gen, buckets, req, now, breaks, raced>>

\* h.ln is replaced under h.lnMu, then the new listener is served.
Swap(a) ==
    /\ act[a].at = "swap"
    /\ ln' = act[a].new
    /\ conn' = [conn EXCEPT ![act[a].new].at = "spawned"]
    /\ act' = [act EXCEPT ![a].at = "close", ![a].old = ln]
    /\ UNCHANGED <<server, addr, errCh, stopping, gen, buckets, req, now, breaks, raced>>

\* The old listener is closed; UpdateRuntime then notes the new address.
CloseOld(a) ==
    /\ act[a].at = "close"
    /\ conn' = IF act[a].old = Nobody THEN conn ELSE [conn EXCEPT ![act[a].old].open = FALSE]
    /\ addr' = IF a = "update" THEN act[a].to ELSE addr
    /\ act' = [act EXCEPT ![a] = IF a = "start" THEN [Resting EXCEPT !.at = "wait"] ELSE Resting]
    /\ UNCHANGED <<server, ln, errCh, stopping, gen, buckets, req, now, breaks, raced>>

-----------------------------------------------------------------------------
(* serve, a goroutine for each listener                                    *)

\* Mutant: the listener is served whatever became of the server.
ServeAlways(i) ==
    /\ conn[i].at = "spawned"
    /\ conn' = [conn EXCEPT ![i].at = "serving"]
    /\ UNCHANGED <<server, addr, ln, act, errCh, stopping, gen, buckets, req, now, breaks, raced>>

\* http.Server.Serve closes its listener when the server was shut down.
Serve(i) ==
    /\ conn[i].at = "spawned"
    /\ conn' = [conn EXCEPT ![i] = IF server = "down" THEN [@ EXCEPT !.at = "done", !.open = FALSE] ELSE [@ EXCEPT !.at = "serving"]]
    /\ UNCHANGED <<server, addr, ln, act, errCh, stopping, gen, buckets, req, now, breaks, raced>>

\* Serve returns: ErrServerClosed, or an error when its listener was closed.
ServeReturns(i) ==
    /\ conn[i].at = "serving" /\ ~conn[i].open
    /\ conn' = [conn EXCEPT ![i].at = IF server = "down" THEN "done" ELSE "failed"]
    /\ UNCHANGED <<server, addr, ln, act, errCh, stopping, gen, buckets, req, now, breaks, raced>>

\* Mutant: the error of any listener counts.
CheckNothing(i) ==
    /\ conn[i].at = "failed"
    /\ conn' = [conn EXCEPT ![i].at = "current"]
    /\ UNCHANGED <<server, addr, ln, act, errCh, stopping, gen, buckets, req, now, breaks, raced>>

CheckCurrent(i) ==
    /\ conn[i].at = "failed"
    /\ conn' = [conn EXCEPT ![i].at = IF ln = i THEN "current" ELSE "done"]
    /\ UNCHANGED <<server, addr, ln, act, errCh, stopping, gen, buckets, req, now, breaks, raced>>

SendError(i) ==
    /\ conn[i].at = "current"
    /\ conn' = [conn EXCEPT ![i].at = "done"]
    /\ errCh' = IF errCh = Nobody THEN i ELSE errCh
    /\ UNCHANGED <<server, addr, ln, act, stopping, gen, buckets, req, now, breaks, raced>>

\* A listener breaks by itself.
Break(i) ==
    /\ conn[i].open /\ conn[i].at = "serving" /\ breaks < MaxBreaks /\ ~Requested
    /\ breaks' = breaks + 1
    /\ conn' = [conn EXCEPT ![i].open = FALSE]
    /\ UNCHANGED <<server, addr, ln, act, errCh, stopping, gen, buckets, req, now, raced>>

-----------------------------------------------------------------------------
(* The end of Start                                                        *)

Cancel ==
    /\ ~stopping /\ stopping' = TRUE
    /\ UNCHANGED <<server, addr, ln, conn, act, errCh, gen, buckets, req, now, breaks, raced>>

\* Stop: Shutdown closes the listeners it knows and waits for the requests.
Stop ==
    /\ act["start"].at = "wait" /\ stopping
    /\ server' = "down"
    /\ conn' = [i \in ListenerIds |-> IF conn[i].at = "serving" THEN [conn[i] EXCEPT !.open = FALSE] ELSE conn[i]]
    /\ act' = [act EXCEPT !["start"].at = "shut"]
    /\ UNCHANGED <<addr, ln, errCh, stopping, gen, buckets, req, now, breaks, raced>>

\* Shutdown returns without requests, or after five seconds with some.  The
\* error of a listener makes Start return without it.
StartReturns ==
    /\ \/ act["start"].at = "shut" /\ act' = [act EXCEPT !["start"].at = "done"]
       \/ act["start"].at = "wait" /\ errCh # Nobody /\ act' = [act EXCEPT !["start"].at = "failed"]
    /\ UNCHANGED <<server, addr, ln, conn, errCh, stopping, gen, buckets, req, now, breaks, raced>>

-----------------------------------------------------------------------------
(* Requests.  Each middleware loads the runtime for itself.                *)

UnchangedByRequests == UNCHANGED <<server, addr, ln, conn, act, errCh, stopping, gen, now, breaks, raced>>

Over == [NewRequest EXCEPT !.at = "done"]

\* Bound: requests come while nothing has changed the address.
Arrive(r) ==
    /\ ln = 1 /\ Cardinality(Fresh) = MaxUpdates /\ breaks = 0 /\ act["update"].to \in {Nobody, addr}
    /\ req[r].at = "new" /\ \E i \in ListenerIds : conn[i].open /\ conn[i].at = "serving"
    /\ req' = [req EXCEPT ![r] = [@ EXCEPT !.at = "limit", !.came = gen]]
    /\ UnchangedByRequests /\ UNCHANGED buckets

\* The limiter in force is loaded, if there is one.
LoadLimiter(r) ==
    /\ req[r].at = "limit"
    /\ req' = [req EXCEPT ![r] = IF gen \in DOMAIN buckets THEN [@ EXCEPT !.at = "bucket", !.limiter = gen]
                                 ELSE [@ EXCEPT !.at = "auth"]]
    /\ UnchangedByRequests /\ UNCHANGED buckets

\* It is asked for a token, whatever limiter is in force by now.
RateLimit(r) ==
    LET g == req[r].limiter
    IN  /\ req[r].at = "bucket"
        /\ req' = [req EXCEPT ![r] = IF HasToken(buckets[g], now) THEN [@ EXCEPT !.at = "auth"] ELSE Over]
        /\ buckets' = [buckets EXCEPT ![g] = Allow(@, now)]
        /\ UnchangedByRequests

\* auth.Check, against the token of the generation in force.
Authenticate(r) ==
    /\ req[r].at = "auth"
    /\ \/ req' = [req EXCEPT ![r] = [@ EXCEPT !.at = "handler", !.passed = gen]]
       \/ req' = [req EXCEPT ![r] = Over]
    /\ UnchangedByRequests /\ UNCHANGED buckets

Respond(r) ==
    /\ req[r].at = "handler"
    /\ req' = [req EXCEPT ![r] = Over]
    /\ UnchangedByRequests /\ UNCHANGED buckets

\* Bound: the clock is read by requests alone.
Tick ==
    /\ \E r \in Requests : req[r].at = "bucket"
    /\ now < MaxTime /\ now' = now + 1
    /\ UNCHANGED <<server, addr, ln, conn, act, errCh, stopping, gen, buckets, req, breaks, raced>>

-----------------------------------------------------------------------------

Rebind(a) == Listen(a) \/ Swap(a) \/ CloseOld(a)
Goroutine(i) == Serve(i) \/ ServeReturns(i) \/ CheckCurrent(i) \/ SendError(i)

Next ==
    \/ Start \/ Compare \/ Cancel \/ Stop \/ StartReturns \/ Tick
    \/ \E to \in Addrs \cup {Nobody} : StoreRuntime(to)
    \/ \E a \in Actors : Rebind(a)
    \/ \E i \in ListenerIds : Goroutine(i) \/ Break(i)
    \/ \E r \in Requests : Arrive(r) \/ LoadLimiter(r) \/ RateLimit(r) \/ Authenticate(r) \/ Respond(r)

\* Goroutines run, and the select of Start takes what is ready.
Fairness ==
    /\ WF_vars(Stop) /\ WF_vars(StartReturns) /\ WF_vars(Compare)
    /\ \A a \in Actors : WF_vars(Rebind(a))
    /\ \A i \in ListenerIds : WF_vars(Goroutine(i))

Spec == Init /\ [][Next]_vars /\ Fairness

-----------------------------------------------------------------------------
(* Properties                                                              *)

Quiet == act["update"].at = "idle" /\ act["start"].at = "wait" /\ \A i \in ListenerIds : conn[i].at \notin {"spawned", "failed", "current"}

ErrorsAreReal == errCh # Nobody => breaks > 0

ServedWhereNoted ==
    Quiet /\ breaks = 0 =>
        /\ {i \in ListenerIds : conn[i].open} = {ln}
        /\ ~raced => conn[ln].addr = addr

\* Types; only a listener that broke by itself ends the server: the errors of
\* those that a reload closed are told apart from it; and while the server runs
\* and no reload is in progress, one listener is open, at the address the server
\* has noted, unless it broke, or an update met Start on its way: nothing
\* synchronises the two.
ListenersSound == TypeOK /\ ErrorsAreReal /\ ServedWhereNoted

TokenInForce == \A r \in Requests : req[r].at = "handler" => req[r].passed >= req[r].came

\* No limiter lets more requests pass than its burst and the time since it was
\* made allow (BurstBounded), those it answers after a reload has replaced it
\* included; and a request that comes after a reload is not let in by an older
\* token.
Admission == TokenInForce /\ \A g \in DOMAIN buckets : BurstBounded(buckets[g])

Listening == {i \in ListenerIds : conn[i].open}

\* Once its context is cancelled, a server that was started returns, and then
\* for good: either it was shut down and no listener is left open, those of a
\* reload on its way at that moment included; or Start has returned an error
\* (its own bind failed, or select took the error of a listener), in which case
\* no Shutdown runs and what a reload has bound is served on, on one listener.
StopsWhenCancelled ==
    (stopping /\ server # "none") ~>
        [](\/ act["start"].at = "done" /\ Listening = {}
           \/ act["start"].at = "failed" /\ Listening \subseteq {ln})
=============================================================================
