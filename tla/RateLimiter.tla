----------------------------- MODULE RateLimiter -----------------------------
(***************************************************************************)
(* internal/mcp/transport/rate_limit_middleware.go with the limit enabled: *)
(* a token bucket per client key.  A request reads the clock first and     *)
(* takes the limiter's mutex afterwards, so requests may be decided in     *)
(* another order than their timestamps.                                    *)
(*                                                                         *)
(* Time is counted in ticks of 1/Res second and tokens in parts of 1/Res,  *)
(* so that a rate of r per second adds r parts per tick: the arithmetic    *)
(* is exact, the rounding of float64 is left out.                          *)
(***************************************************************************)
EXTENDS Integers, FiniteSets

CONSTANTS
    Reqs,     \* the HTTP requests, each made once
    Keys,     \* client keys (rateLimitKey)
    Keeping,  \* the clients known to keep to the rate, possibly none
    CfgRPS,   \* RateLimitConfig.RPS
    CfgBurst, \* RateLimitConfig.Burst
    Res,      \* ticks per second, and parts per token
    MaxNow    \* bound on the clock

ASSUME LimiterAssumption ==
    /\ IsFiniteSet(Reqs) /\ Keeping \subseteq Keys
    /\ CfgRPS \in Int /\ CfgBurst \in Int /\ Res \in Nat \ {0} /\ MaxNow \in Nat

\* newRateLimiter's defaults.
Rps  == IF CfgRPS <= 0 THEN 5 ELSE CfgRPS
Full == (IF CfgBurst < 1 THEN 10 ELSE CfgBurst) * Res

VARIABLES
    now,      \* the monotonic clock
    state,    \* of each request: new, stamped, served or limited
    key,      \* its client key
    stamp,    \* the time it read
    seen,     \* the keys that have a bucket
    tokens,   \* tokenBucket.tokens
    last,     \* tokenBucket.last
    first,    \* when the bucket was made, for the property below
    admitted  \* how many requests of the key were served, likewise

vars == <<now, state, key, stamp, seen, tokens, last, first, admitted>>

Init ==
    /\ now = 0
    /\ state = [q \in Reqs |-> "new"]
    /\ key \in [Reqs -> Keys]
    /\ stamp = [q \in Reqs |-> 0]
    /\ seen = {}
    /\ tokens = [k \in Keys |-> 0]
    /\ last = [k \in Keys |-> 0]
    /\ first = [k \in Keys |-> 0]
    /\ admitted = [k \in Keys |-> 0]

Tick ==
    /\ now < MaxNow
    /\ now' = now + 1
    /\ UNCHANGED <<state, key, stamp, seen, tokens, last, first, admitted>>

\* The handler reads time.Now() as the argument of allow.
Stamp(q) ==
    /\ state[q] = "new"
    /\ state' = [state EXCEPT ![q] = "stamped"]
    /\ stamp' = [stamp EXCEPT ![q] = now]
    /\ UNCHANGED <<now, key, seen, tokens, last, first, admitted>>

\* The bucket as allow reads it: a full one made at t if there is none.
Tokens(k) == IF k \in seen THEN tokens[k] ELSE Full
Last(k, t) == IF k \in seen THEN last[k] ELSE t

\* The refill is not capped at the burst.
Refilled_NoCap(k, t) ==
    IF t <= Last(k, t) THEN Tokens(k) ELSE Tokens(k) + (t - Last(k, t)) * Rps

\* The test for elapsed > 0 is left out.
Refilled_Backwards(k, t) ==
    LET sum == Tokens(k) + (t - Last(k, t)) * Rps
    IN  IF sum < Full THEN sum ELSE Full

\* The tokens after the refill for the time elapsed up to t.
Refilled(k, t) ==
    LET sum == Tokens(k) + (t - Last(k, t)) * Rps
    IN  IF t <= Last(k, t) THEN Tokens(k)
        ELSE IF sum < Full THEN sum ELSE Full

\* The bucket's clock follows every request, late ones too.
NewLast_Any(k, t) == t

NewLast(k, t) == IF t > Last(k, t) THEN t ELSE Last(k, t)

\* allow, under the mutex: refill, then take a token if there is one.
Allow(q) ==
    LET k == key[q]
        t == stamp[q]
        got == Refilled(k, t) >= Res
    IN  /\ state[q] = "stamped"
        /\ state' = [state EXCEPT ![q] = IF got THEN "served" ELSE "limited"]
        /\ tokens' = [tokens EXCEPT ![k] = IF got THEN Refilled(k, t) - Res ELSE Refilled(k, t)]
        /\ last' = [last EXCEPT ![k] = NewLast(k, t)]
        /\ seen' = seen \cup {k}
        /\ first' = [first EXCEPT ![k] = IF k \in seen THEN @ ELSE t]
        /\ admitted' = [admitted EXCEPT ![k] = IF got THEN @ + 1 ELSE @]
        /\ UNCHANGED <<now, key, stamp>>

\* The clock is at its bound and no request is in progress.
Over ==
    /\ now = MaxNow /\ \A q \in Reqs : state[q] # "stamped"
    /\ UNCHANGED vars

\* Some clients keep to the rate: their requests are a token's time apart and
\* no more of them are in progress at once than the burst.  Others do not.
Polite(q) ==
    key[q] \in Keeping =>
    LET mine == {p \in Reqs \ {q} : key[p] = key[q] /\ state[p] # "new"}
    IN  /\ \A p \in mine : (now - stamp[p]) * Rps >= Res
        /\ Cardinality({p \in mine : state[p] = "stamped"}) * Res < Full

Next == Tick \/ (\E q \in Reqs : (Polite(q) /\ Stamp(q)) \/ Allow(q)) \/ Over

Spec == Init /\ [][Next]_vars

-----------------------------------------------------------------------------
\* Every variable holds a value of its kind; a bucket holds between no token
\* and a full burst, and never counts from a time that has not come.
TypeOK ==
    /\ now \in 0..MaxNow
    /\ state \in [Reqs -> {"new", "stamped", "served", "limited"}]
    /\ key \in [Reqs -> Keys]
    /\ stamp \in [Reqs -> 0..now]
    /\ seen \subseteq Keys
    /\ tokens \in [Keys -> 0..Full]
    /\ last \in [Keys -> 0..now]
    /\ first \in [Keys -> 0..now]
    /\ admitted \in [Keys -> Nat]

\* What a key was served, with what it has left, never exceeds a burst and
\* what its rate earned since its first request.  Timestamps decided out of
\* order earn nothing twice.
RateBound ==
    \A k \in seen :
        /\ first[k] <= last[k]
        /\ admitted[k] * Res + tokens[k] <= Full + (last[k] - first[k]) * Rps

\* A client that keeps to the rate is never refused, although its requests
\* may be decided out of order and whatever the other clients do.
PoliteServed == \A q \in Reqs : key[q] \in Keeping => state[q] # "limited"
=============================================================================
