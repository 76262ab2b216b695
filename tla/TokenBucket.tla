------------------------------ MODULE TokenBucket ------------------------------
(***************************************************************************)
(* core/ratelimit.py: one key's token bucket.  A request first asks Redis  *)
(* for the time and then runs the script with it, which is atomic; two     *)
(* requests may run it in the other order than they asked.  Tokens are     *)
(* counted in units of 1/WINDOW, so that a second's refill, limit/window,  *)
(* is LIMIT of them and a request costs WINDOW; the script's floating      *)
(* point is taken as exact.                                                *)
(* A definition marked "Fault" is a plausible mistake in the one after it. *)
(***************************************************************************)
EXTENDS Integers, FiniteSets, FiniteSetsExt

CONSTANTS
    Callers,       \* requests of the key at a time
    LIMIT, WINDOW, \* tokens to a full bucket, seconds to fill it
    MAX_DELAY,     \* seconds from a request's asking to its running the script
    None,
    MaxTime, MaxRuns   \* bounds

VARIABLES
    time,          \* Redis TIME, in seconds
    bucket,        \* the hash: tokens and ts, and when it expires; or None
    asked,         \* the time each request has been given
    runs,          \* runs of the script
    admitted,      \* requests let in: which one, and the time it was given
    regress,       \* seconds that ts was set back, in all
    advice         \* the last refusal's retry_after, while no run followed it

vars == <<time, bucket, asked, runs, admitted, regress, advice>>

Full == LIMIT * WINDOW

Ask(c) ==
    /\ asked[c] = None /\ runs < MaxRuns
    /\ asked' = [asked EXCEPT ![c] = time]
    /\ UNCHANGED <<time, bucket, runs, admitted, regress, advice>>

\* Fault: the refill is not capped.
RefilledUncapped(b, now) == b.tokens + Max({0, now - b.ts}) * LIMIT

Refilled(b, now) == Min({Full, b.tokens + Max({0, now - b.ts}) * LIMIT})

Tokens(now) == IF bucket = None THEN Full ELSE Refilled(bucket, now)

\* Fault: rounded down.
RetryAfterFloor(tokens) == (WINDOW - tokens) \div LIMIT

\* math.ceil, and at least 1
RetryAfter(tokens) == Max({1, (WINDOW - tokens + LIMIT - 1) \div LIMIT})

\* The script; ts is set to the caller's time even when that is the older one.
Run(c) ==
    LET now == asked[c]
        tokens == Tokens(now)
        admits == tokens >= WINDOW
    IN  /\ now # None
        /\ bucket' = [tokens |-> IF admits THEN tokens - WINDOW ELSE tokens, ts |-> now,
                      until |-> time + 2 * WINDOW]
        /\ admitted' = IF admits THEN admitted \cup {[nth |-> Cardinality(admitted) + 1, at |-> now]}
                                 ELSE admitted
        /\ regress' = IF bucket = None THEN regress ELSE regress + Max({0, bucket.ts - now})
        /\ advice' = IF admits THEN None ELSE [at |-> now, after |-> RetryAfter(tokens)]
        /\ asked' = [asked EXCEPT ![c] = None]
        /\ runs' = runs + 1
        /\ UNCHANGED time

\* EXPIRE of twice the window since the last run.
Expires ==
    /\ bucket # None /\ time >= bucket.until
    /\ bucket' = None
    /\ UNCHANGED <<time, asked, runs, admitted, regress, advice>>

Second ==
    /\ time < MaxTime
    /\ \A c \in Callers : asked[c] # None => time < asked[c] + MAX_DELAY
    /\ time' = time + 1
    /\ UNCHANGED <<bucket, asked, runs, admitted, regress, advice>>

Init ==
    /\ time = 0 /\ bucket = None
    /\ asked = [c \in Callers |-> None] /\ runs = 0
    /\ admitted = {} /\ regress = 0 /\ advice = None

Next == (\E c \in Callers : Ask(c) \/ Run(c)) \/ Expires \/ Second

Spec == Init /\ [][Next]_vars

-----------------------------------------------------------------------------
(* The shape of the state. *)
TypeOK ==
    /\ bucket # None => bucket.tokens \in 0 .. Full /\ bucket.ts \in 0 .. time
    /\ \A c \in Callers : asked[c] # None => asked[c] <= time

(* The rate: whatever the order the requests run in, those let in that     *)
(* asked in any stretch of time are at most a full bucket, its refill, and *)
(* what the refill gains by a time set back: the time passes twice.        *)
AdmittedIn(from, to) == Cardinality({a \in admitted : a.at \in from .. to})

RateIsBounded ==
    \A from, to \in 0 .. time :
        from <= to =>
            AdmittedIn(from, to) * WINDOW <= Full + (to - from + regress) * LIMIT

(* Retry-After is enough: the request that comes back after it, when no    *)
(* other came in between, is let in.                                       *)
RetryAfterSuffices ==
    advice # None /\ time >= advice.at + advice.after => Tokens(time) >= WINDOW

BucketIsSound == RateIsBounded /\ RetryAfterSuffices
=============================================================================
