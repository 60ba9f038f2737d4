---------------------------- MODULE TokenBucket ----------------------------
(***************************************************************************)
(* The rate limiter of the HTTP server.  The code counts tokens in         *)
(* fractions and refills rpm / 60 a second; here a token has Minute parts  *)
(* and a tick of the clock brings Rpm of them, so that all is whole.       *)
(***************************************************************************)
EXTENDS Integers

CONSTANTS
    Rpm,     \* requests per minute, and the largest burst
    Minute   \* ticks of the clock in a minute

ASSUME BucketAssumption == Rpm \in Nat \ {0} /\ Minute \in Nat \ {0}

Capacity == Rpm * Minute

\* Parts of tokens in the bucket and when it was refilled; when it was made and
\* the requests it has let through (history).
Bucket == [tokens : 0 .. Capacity, last : Nat, made : Nat, admitted : Nat]

\* newTokenBucket
Full(now) == [tokens |-> Capacity, last |-> now, made |-> now, admitted |-> 0]

Refilled(b, now) ==
    LET t == b.tokens + (now - b.last) * Rpm IN IF t > Capacity THEN Capacity ELSE t

HasToken(b, now) == Refilled(b, now) >= Minute

\* Mutant: the refill is stored and the token it gives away is not taken off.
AllowKeeping(b, now) ==
    [b EXCEPT !.tokens = Refilled(b, now), !.last = now, !.admitted = IF HasToken(b, now) THEN @ + 1 ELSE @]

\* allow: a request gets a token, or it does not.
Allow(b, now) ==
    LET refilled == Refilled(b, now)
    IN  IF HasToken(b, now)
        THEN [tokens |-> refilled - Minute, last |-> now, made |-> b.made, admitted |-> b.admitted + 1]
        ELSE [tokens |-> refilled, last |-> now, made |-> b.made, admitted |-> b.admitted]

\* No more requests are let through than the burst and the time that has
\* passed allow, whatever order they come in: what the requests took and what
\* is left was in the bucket at first or has flowed in since.
BurstBounded(b) == b.admitted * Minute + b.tokens <= Capacity + (b.last - b.made) * Rpm
=============================================================================
