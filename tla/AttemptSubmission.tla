------------------------- MODULE AttemptSubmission -------------------------
(***************************************************************************)
(* POST /v1/attempts by one user on one local day: concurrent requests,    *)
(* retries under the same Idempotency-Key, crashes and slow graders.       *)
(*   core/idempotency.py   the cached record and the SET NX reservation    *)
(*   attempts/service.py   submit_attempt, _build_and_store_attempt        *)
(* Redis and Postgres see one step of one request at a time.  A database   *)
(* transaction is a step that reads (Check) and a step that commits what   *)
(* it computed from those reads (Commit).  A record outlives the behaviour *)
(* (24 h); a reservation does not (30 s, Expire).                          *)
(* A definition marked "Fault" is a plausible mistake in the one after it, *)
(* which no action uses: the runs' properties are tried against it.        *)
(***************************************************************************)
EXTENDS Naturals, FiniteSets

CONSTANTS
    Requests,     \* the HTTP requests, retries included
    Keys,         \* Idempotency-Key values
    Exercises,
    Slots,        \* the exercises of today's session
    Answers,
    Nobody,       \* no holder, no record
    SLOW,         \* TRUE: a request may outlive the wait budget and the TTL
    CRASH_LIMIT   \* bound on the number of processes that die

ASSUME RequestAssumption ==
    /\ Slots \subseteq Exercises
    /\ Slots # {}
    /\ Nobody \notin Requests
    /\ SLOW \in BOOLEAN
    /\ CRASH_LIMIT \in Nat

VARIABLES
    key, body,    \* what each request carries; a body is its own request_hash
    pc,           \* where each request is
    reserved,     \* submit_attempt's local: this request won the SET NX
    seen,         \* what the request's transaction has read
    result,       \* the response, once there is one
    record,       \* Redis idem:<key>
    reservation,  \* Redis idem:lock:<key>, with the request that set it
    advisory,     \* holder of the (user, day) advisory lock
    db,           \* the committed rows
    crashes

client == <<key, body>>
local == <<pc, reserved, seen, result>>
redis == <<record, reservation>>
vars == <<client, local, redis, advisory, db, crashes>>

Bodies == [exercise : Exercises, answer : Answers]

-----------------------------------------------------------------------------
\* The committed state of the user's day.
NoRows ==
    [attempts |-> {}, total_attempts |-> 0, active_today |-> FALSE,
     transitions |-> 0, completed |-> FALSE]

Attempted(rows) == {a.exercise : a \in rows.attempts}

Ok(a, remaining) == [status |-> 200, attempt |-> a, completed |-> remaining = {}]

Refused(status) == [status |-> status]

Goto(r, label) == pc' = [pc EXCEPT ![r] = label]

\* Answer(r, x): the request is over.  Raise(r, x): its `finally` comes next.
Answer(r, response) == Goto(r, "answered") /\ result' = [result EXCEPT ![r] = response]
Raise(r, response) == Goto(r, "release") /\ result' = [result EXCEPT ![r] = response]

\* Fault: the hash of the body is not compared.
ReplayAnything(r) == Answer(r, record[key[r]].response)

\* A hit replays the stored response, or is a conflict when the body differs.
Replay(r) ==
    LET hit == record[key[r]]
    IN  Answer(r, IF hit.hash = body[r] THEN hit.response ELSE Refused(409))

-----------------------------------------------------------------------------
\* Rate limit, before the idempotency lookup.
Limit(r) ==
    /\ pc[r] = "idle"
    /\ Answer(r, Refused(429))
    /\ UNCHANGED <<client, reserved, seen, redis, advisory, db, crashes>>

\* get_cached
Lookup(r) ==
    /\ pc[r] = "idle"
    /\ IF record[key[r]] # Nobody THEN Replay(r)
                                  ELSE Goto(r, "reserve") /\ UNCHANGED result
    /\ UNCHANGED <<client, reserved, seen, redis, advisory, db, crashes>>

\* acquire_reservation.  The cache is not looked up again by the winner.
Reserve(r) ==
    /\ pc[r] = "reserve"
    /\ IF reservation[key[r]] = Nobody
       THEN /\ reservation' = [reservation EXCEPT ![key[r]] = r]
            /\ reserved' = [reserved EXCEPT ![r] = TRUE]
            /\ Goto(r, "submit")
       ELSE Goto(r, "wait") /\ UNCHANGED <<reservation, reserved>>
    /\ UNCHANGED <<client, seen, result, record, advisory, db, crashes>>

\* wait_for_cached finds the record ...
Poll(r) ==
    /\ pc[r] = "wait"
    /\ record[key[r]] # Nobody
    /\ Replay(r)
    /\ UNCHANGED <<client, reserved, seen, redis, advisory, db, crashes>>

Alive(r) == r # Nobody /\ pc[r] \notin {"answered", "crashed"}

\* ... or its budget, which outlasts a healthy winner, runs out.
GiveUp(r) ==
    /\ pc[r] = "wait"
    /\ record[key[r]] = Nobody
    /\ SLOW \/ ~Alive(reservation[key[r]])
    /\ Goto(r, "submit")
    /\ UNCHANGED <<client, reserved, seen, result, redis, advisory, db, crashes>>

\* Fault: any exercise is accepted.
FindAnything(r) ==
    /\ pc[r] = "submit"
    /\ Goto(r, "lock")
    /\ UNCHANGED <<client, reserved, seen, result, redis, advisory, db, crashes>>

\* The exercise must be in today's slots.
FindSlot(r) ==
    /\ pc[r] = "submit"
    /\ IF body[r].exercise \in Slots THEN Goto(r, "lock") /\ UNCHANGED result
                                     ELSE Raise(r, Refused(403))
    /\ UNCHANGED <<client, reserved, seen, redis, advisory, db, crashes>>

\* Fault (D-66): the key of the lock has the exercise in it.
LockExercise(r) ==
    /\ pc[r] = "lock"
    /\ \A s \in Requests :
          pc[s] \in {"check", "grade"} => body[s].exercise # body[r].exercise
    /\ advisory' = r
    /\ Goto(r, "check")
    /\ UNCHANGED <<client, reserved, seen, result, redis, db, crashes>>

\* pg_advisory_xact_lock(user, day)
Lock(r) ==
    /\ pc[r] = "lock"
    /\ advisory = Nobody
    /\ advisory' = r
    /\ Goto(r, "check")
    /\ UNCHANGED <<client, reserved, seen, result, redis, db, crashes>>

\* Fault: the refusal leaves the lock to a session that is never closed.
CheckKeepingLock(r) ==
    /\ pc[r] = "check"
    /\ IF body[r].exercise \in Attempted(db)
       THEN Raise(r, Refused(409)) /\ UNCHANGED seen
       ELSE Goto(r, "grade") /\ seen' = [seen EXCEPT ![r] = db] /\ UNCHANGED result
    /\ UNCHANGED <<client, reserved, redis, advisory, db, crashes>>

\* The already-attempted check, and the reads the transaction works from.
Check(r) ==
    /\ pc[r] = "check"
    /\ IF body[r].exercise \in Attempted(db)
       THEN Raise(r, Refused(409)) /\ advisory' = Nobody /\ UNCHANGED seen
       ELSE Goto(r, "grade") /\ seen' = [seen EXCEPT ![r] = db] /\ UNCHANGED <<result, advisory>>
    /\ UNCHANGED <<client, reserved, redis, db, crashes>>

\* Grade, insert, count, maybe close the session; commit frees the lock.  The
\* aggregates are written from what was read, the rows are added.
Commit(r) ==
    LET row == [exercise |-> body[r].exercise, by |-> r]
        remaining == Slots \ (Attempted(seen[r]) \cup {body[r].exercise})
    IN  /\ pc[r] = "grade"
        /\ db' = [attempts |-> db.attempts \cup {row},
                  total_attempts |-> seen[r].total_attempts + 1,
                  active_today |-> TRUE,
                  transitions |-> IF seen[r].active_today THEN db.transitions
                                                          ELSE db.transitions + 1,
                  completed |-> db.completed \/ remaining = {}]
        /\ advisory' = Nobody
        /\ Goto(r, "store")
        /\ result' = [result EXCEPT ![r] = Ok(row, remaining)]
        /\ UNCHANGED <<client, reserved, seen, redis, crashes>>

\* store_idempotency: only a success is recorded.
Store(r) ==
    /\ pc[r] = "store"
    /\ record' = [record EXCEPT ![key[r]] = [hash |-> body[r], response |-> result[r]]]
    /\ Goto(r, "release")
    /\ UNCHANGED <<client, reserved, seen, result, reservation, advisory, db, crashes>>

\* finally: an unconditional DELETE, whoever holds the reservation by now.
Release(r) ==
    /\ pc[r] = "release"
    /\ reservation' = IF reserved[r] THEN [reservation EXCEPT ![key[r]] = Nobody]
                                     ELSE reservation
    /\ Goto(r, "answered")
    /\ UNCHANGED <<client, reserved, seen, result, record, advisory, db, crashes>>

-----------------------------------------------------------------------------
\* The process dies: Postgres rolls back and frees the lock, Redis keeps the
\* reservation.
Crash(r) ==
    /\ pc[r] \notin {"idle", "answered", "crashed"}
    /\ crashes < CRASH_LIMIT
    /\ crashes' = crashes + 1
    /\ Goto(r, "crashed")
    /\ advisory' = IF advisory = r THEN Nobody ELSE advisory
    /\ UNCHANGED <<client, reserved, seen, result, redis, db>>

\* The TTL of a reservation.
Expire(k) ==
    /\ reservation[k] # Nobody
    /\ SLOW \/ ~Alive(reservation[k])
    /\ reservation' = [reservation EXCEPT ![k] = Nobody]
    /\ UNCHANGED <<client, local, record, advisory, db, crashes>>

-----------------------------------------------------------------------------
Init ==
    /\ key \in [Requests -> Keys]
    /\ body \in [Requests -> Bodies]
    /\ pc = [r \in Requests |-> "idle"]
    /\ reserved = [r \in Requests |-> FALSE]
    /\ seen = [r \in Requests |-> NoRows]
    /\ result = [r \in Requests |-> Nobody]
    /\ record = [k \in Keys |-> Nobody]
    /\ reservation = [k \in Keys |-> Nobody]
    /\ advisory = Nobody
    /\ db = NoRows
    /\ crashes = 0

\* What the server does for a request it has taken in.
Proceed(r) ==
    \/ Reserve(r) \/ Poll(r) \/ GiveUp(r) \/ FindSlot(r) \/ Lock(r)
    \/ Check(r) \/ Commit(r) \/ Store(r) \/ Release(r)

Next ==
    \/ \E r \in Requests : Limit(r) \/ Lookup(r) \/ Proceed(r) \/ Crash(r)
    \/ \E k \in Keys : Expire(k)

Spec == Init /\ [][Next]_vars

\* The event loop runs every coroutine whose await is over: the grader's and
\* the poll's are bounded by timeouts, the lock's by the holder's commit.
Fairness == \A r \in Requests : WF_vars(Proceed(r))

FairSpec == Spec /\ Fairness

-----------------------------------------------------------------------------
Labels ==
    {"idle", "reserve", "wait", "submit", "lock", "check", "grade", "store", "release",
     "answered", "crashed"}

Rows == [exercise : Exercises, by : Requests]

Responses ==
    [status : {403, 409, 429}] \cup [status : {200}, attempt : Rows, completed : BOOLEAN]

\* The sentinel is no response and no record.
ASSUME SentinelAssumption ==
    Nobody \notin Responses /\ Nobody \notin [hash : Bodies, response : Responses]

States ==
    [attempts : SUBSET Rows, total_attempts : Nat, active_today : BOOLEAN,
     transitions : Nat, completed : BOOLEAN]

\* Type invariant.
TypeOK ==
    /\ key \in [Requests -> Keys] /\ body \in [Requests -> Bodies]
    /\ pc \in [Requests -> Labels]
    /\ reserved \in [Requests -> BOOLEAN]
    /\ seen \in [Requests -> States]
    /\ result \in [Requests -> Responses \cup {Nobody}]
    /\ record \in [Keys -> [hash : Bodies, response : Responses] \cup {Nobody}]
    /\ reservation \in [Keys -> Requests \cup {Nobody}]
    /\ advisory \in Requests \cup {Nobody}
    /\ db \in States
    /\ crashes \in Nat

\* "The DB advisory lock below is the real backstop against a duplicate
\* attempts row regardless of what happens at this Redis reservation layer."
OneAttemptPerExercise ==
    \A a, b \in db.attempts : a.exercise = b.exercise => a = b

\* H1/D-104: the aggregates written next to the attempts agree with them: no
\* lost increment, one streak transition for the day, and the session is
\* closed by the attempt that leaves nothing, whichever order they come in.
AggregatesMatchAttempts ==
    /\ db.total_attempts = Cardinality(db.attempts)
    /\ db.active_today = (db.attempts # {})
    /\ db.transitions = (IF db.attempts = {} THEN 0 ELSE 1)
    /\ db.completed = (Slots \subseteq Attempted(db))

Succeeded(r) == pc[r] = "answered" /\ result[r].status = 200

SameSubmission(r, s) == key[r] = key[s] /\ body[r] = body[s]

\* docs/05 section 9, invariant 3: two successful answers to one key and body
\* are the same answer, through waits, give-ups, lost reservations and crashes.
ReplaysAreIdentical ==
    \A r, s \in Requests :
        Succeeded(r) /\ Succeeded(s) /\ SameSubmission(r, s) => result[r] = result[s]

\* A retry racing the original "replays it byte-identically instead of racing
\* it through to a DB-level conflict".
RetryNeverConflicts ==
    \A r, s \in Requests :
        Succeeded(s) /\ SameSubmission(r, s) /\ pc[r] = "answered" => result[r].status # 409

\* Every request that passed the rate limit is answered unless its process
\* dies, though the winner of the reservation or the holder of the lock may.
EveryRequestAnswered ==
    \A r \in Requests : pc[r] = "reserve" ~> pc[r] \in {"answered", "crashed"}

\* What a client sees: the exercise each request submits, the response that the
\* attempt at an exercise was given, the aggregates, the successes it is told of.
Asked == [r \in Requests |-> body[r].exercise]

AnswerTo(x) == result[(CHOOSE a \in db.attempts : a.exercise = x).by]
Answered == [x \in Attempted(db) |-> AnswerTo(x)]

Aggregates ==
    [total_attempts |-> db.total_attempts, active_today |-> db.active_today,
     transitions |-> db.transitions, completed |-> db.completed]

Told == [r \in {s \in Requests : Succeeded(s)} |-> result[r]]

Once == INSTANCE SubmitOnce WITH
            asked <- Asked, answer <- Answered, day <- Aggregates, told <- Told

\* For the client, the requests of a day are submissions that take place one by
\* one: nothing outside the session is attempted, nothing is attempted twice or
\* undone, the aggregates change with an attempt and only then, and a success,
\* replayed or not, is the response of the attempt there was.
SubmitsOnce == Once!Spec

=============================================================================
