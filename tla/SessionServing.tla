--------------------------- MODULE SessionServing ---------------------------
(***************************************************************************)
(* One user's daily session: the daily_sessions row, its Redis copy, the   *)
(* requests that read, build and complete it, and the operator's pulls.    *)
(*   sessions/service.py   get_today_slots, _build_and_persist_session,    *)
(*                         purge_sessions_referencing                      *)
(*   exercises/service.py  pull_exercise                                   *)
(*   attempts/service.py   the part of a submission that closes the session*)
(* Redis and Postgres see one step of one request at a time: a commit is a *)
(* step, and what was read before it may be stale by then.                 *)
(* A definition marked "Fault" is a plausible mistake in the one after it, *)
(* which no action uses: the runs' properties are tried against it.        *)
(***************************************************************************)
EXTENDS Naturals, FiniteSets

CONSTANTS
    Requests,      \* GET /session/today and POST /attempts of the user
    Exercises,     \* the published exercises, all live at first
    SESSION_SIZE,  \* slots in a session
    Nothing        \* no row, no key, no holder

ASSUME ServingAssumption ==
    /\ SESSION_SIZE \in Nat \ {0}
    /\ Nothing \notin Requests
    /\ \A s \in SUBSET Exercises : Nothing # s
    /\ Nothing \notin [slots : SUBSET Exercises, completed : BOOLEAN]

VARIABLES
    status,     \* of each exercise, as committed
    row,        \* daily_sessions(user, today): Nothing or [slots, completed]
    cache,      \* Redis session:<user>:<today>: Nothing or slots
    attempted,  \* exercises with a committed attempt today
    building,   \* holder of the advisory lock "session_build:<today>"
    pc,         \* where each request is
    slots,      \* the slots a request works with
    adding,     \* the attempt with which a request is closing the session, not committed
    pull,       \* where the pull of each exercise is
    found,      \* whether the pull's SELECT found the row
    quiet       \* whether no request and no other pull has overlapped a pull

request == <<pc, slots, adding>>
pulls == <<pull, found, quiet>>
vars == <<status, row, cache, attempted, building, request, pulls>>

Goto(r, label) == pc' = [pc EXCEPT ![r] = label]

Session(s) == [slots |-> s, completed |-> FALSE]

Take(r, s) == slots' = [slots EXCEPT ![r] = s]

Ended == {"served", "attempted", "completed", "failed"}

\* The lock goes with the request's transaction.
Unlocked(r) == building' = IF building = r THEN Nothing ELSE building

-----------------------------------------------------------------------------
NoneUnderWay == \A e \in Exercises : pull[e] \notin {"delete", "keys"}

\* A pull that is under way is overlapped from here on.
ReadCache(r) ==
    /\ pc[r] = "idle"
    /\ IF cache # Nothing THEN Take(r, cache) /\ Goto(r, "serve")
                          ELSE Goto(r, "row") /\ UNCHANGED slots
    /\ quiet' = (quiet /\ NoneUnderWay)
    /\ UNCHANGED <<status, row, cache, attempted, building, adding, pull, found>>

\* D-17: the row survives a flushed Redis.
ReadRow(r) ==
    /\ pc[r] = "row"
    /\ IF row # Nothing
       THEN Take(r, row.slots) /\ Goto(r, "cache")
       ELSE Goto(r, "lock") /\ UNCHANGED slots
    /\ UNCHANGED <<status, row, cache, attempted, building, adding, pulls>>

\* Fault: the builds of different requests do not exclude each other.
LockNobody(r) ==
    /\ pc[r] = "lock"
    /\ building' = r
    /\ Goto(r, "build")
    /\ UNCHANGED <<status, row, cache, attempted, slots, adding, pulls>>

\* D-122: pg_advisory_xact_lock.
LockBuild(r) ==
    /\ pc[r] = "lock"
    /\ building = Nothing
    /\ building' = r
    /\ Goto(r, "build")
    /\ UNCHANGED <<status, row, cache, attempted, slots, adding, pulls>>

Live == {e \in Exercises : status[e] = "live"}

\* What the sampler may draw: the level band may leave slots unfilled.
Samples ==
    {s \in SUBSET Live : s # {} /\ Cardinality(s) <= SESSION_SIZE}

\* Double-checked: the row of whoever built it first wins, else sample.
Build(r) ==
    /\ pc[r] = "build"
    /\ \/ /\ row # Nothing
          /\ Take(r, row.slots)
          /\ Goto(r, "cache")
       \/ /\ row = Nothing
          /\ \E s \in Samples : Take(r, s)
          /\ Goto(r, "insert")
    /\ UNCHANGED <<status, row, cache, attempted, building, adding, pulls>>

\* D-59: with nothing to sample the response is empty, not persisted or cached.
BuildEmpty(r) ==
    /\ pc[r] = "build"
    /\ row = Nothing /\ Live = {}
    /\ Unlocked(r)
    /\ Goto(r, "served")
    /\ UNCHANGED <<status, row, cache, attempted, slots, adding, pulls>>

\* Fault: the new row is flushed and never committed.
InsertUncommitted(r) ==
    /\ pc[r] = "insert"
    /\ row = Nothing
    /\ Unlocked(r)
    /\ Goto(r, "cache")
    /\ UNCHANGED <<status, row, cache, attempted, slots, adding, pulls>>

\* The commit of the new row frees the lock.
Insert(r) ==
    /\ pc[r] = "insert"
    /\ row = Nothing
    /\ row' = Session(slots[r])
    /\ Unlocked(r)
    /\ Goto(r, "cache")
    /\ UNCHANGED <<status, cache, attempted, slots, adding, pulls>>

SetCache(r) ==
    /\ pc[r] = "cache"
    /\ cache' = slots[r]
    /\ Goto(r, "serve")
    /\ UNCHANGED <<status, row, attempted, building, slots, adding, pulls>>

\* Fault: the database session of a reader is never closed.
ServeLocked(r) ==
    /\ pc[r] = "serve"
    /\ Goto(r, "served")
    /\ UNCHANGED <<status, row, cache, attempted, building, slots, adding, pulls>>

\* A GET, or a submission that is refused.
Serve(r) ==
    /\ pc[r] = "serve"
    /\ Goto(r, "served")
    /\ Unlocked(r)
    /\ UNCHANGED <<status, row, cache, attempted, slots, adding, pulls>>

Remaining(r, e) == slots[r] \ (attempted \cup {e})

\* D-104: the submissions of a day come one at a time, up to their commits.
DayIsFree(r) == \A q \in Requests \ {r} : pc[q] # "closing"

\* A submission that leaves something to do, or has no row to close.
Attempt(r, e) ==
    /\ pc[r] = "serve" /\ DayIsFree(r)
    /\ e \in slots[r] \ attempted
    /\ Remaining(r, e) = {} /\ row # Nothing => row.completed
    /\ attempted' = attempted \cup {e}
    /\ Unlocked(r)
    /\ Goto(r, "attempted")
    /\ UNCHANGED <<status, row, cache, slots, adding, pulls>>

\* Fault: one slot is left.
FinishEarly(r, e) ==
    /\ pc[r] = "serve" /\ DayIsFree(r)
    /\ e \in slots[r] \ attempted
    /\ row # Nothing /\ ~row.completed
    /\ adding' = [adding EXCEPT ![r] = {e}]
    /\ Goto(r, "closing")
    /\ UNCHANGED <<status, row, cache, attempted, building, slots, pulls>>

\* The last one reads the row, which it finds open.
Finish(r, e) ==
    /\ pc[r] = "serve" /\ DayIsFree(r)
    /\ e \in slots[r] \ attempted
    /\ Remaining(r, e) = {}
    /\ row # Nothing /\ ~row.completed
    /\ adding' = [adding EXCEPT ![r] = {e}]
    /\ Goto(r, "closing")
    /\ UNCHANGED <<status, row, cache, attempted, building, slots, pulls>>

\* It sets completed_at in its own transaction, by primary key.  An UPDATE of a
\* row that is gone fails the transaction, and the attempt with it.
Close(r) ==
    /\ pc[r] = "closing"
    /\ IF row # Nothing
       THEN /\ attempted' = attempted \cup adding[r]
            /\ row' = [row EXCEPT !.completed = TRUE]
            /\ Goto(r, "completed")
       ELSE Goto(r, "failed") /\ UNCHANGED <<attempted, row>>
    /\ Unlocked(r)
    /\ adding' = [adding EXCEPT ![r] = {}]
    /\ UNCHANGED <<status, cache, slots, pulls>>

-----------------------------------------------------------------------------
\* The status flip is flushed; the SELECT finds the row if it is in flight.
PullSelect(e) ==
    /\ pull[e] = "idle"
    /\ pull' = [pull EXCEPT ![e] = "delete"]
    /\ found' = [found EXCEPT ![e] = row # Nothing /\ ~row.completed /\ e \in row.slots]
    /\ quiet' = (quiet /\ NoneUnderWay /\ \A r \in Requests : pc[r] \in Ended \cup {"idle"})
    /\ UNCHANGED <<status, row, cache, attempted, building, request>>

\* The DELETE is by primary key; the commit publishes it and the flip.
PullCommit(e) ==
    /\ pull[e] = "delete"
    /\ pull' = [pull EXCEPT ![e] = "keys"]
    /\ status' = [status EXCEPT ![e] = "pulled"]
    /\ row' = IF found[e] THEN Nothing ELSE row
    /\ UNCHANGED <<cache, attempted, building, request, found, quiet>>

\* Fault: the row is deleted and its copy is left to expire.
PullKeepingKeys(e) ==
    /\ pull[e] = "keys"
    /\ pull' = [pull EXCEPT ![e] = "done"]
    /\ UNCHANGED <<status, row, cache, attempted, building, request, found, quiet>>

PullKeys(e) ==
    /\ pull[e] = "keys"
    /\ pull' = [pull EXCEPT ![e] = "done"]
    /\ cache' = IF found[e] THEN Nothing ELSE cache
    /\ UNCHANGED <<status, row, attempted, building, request, found, quiet>>

-----------------------------------------------------------------------------
Init ==
    /\ status = [e \in Exercises |-> "live"]
    /\ row = Nothing /\ cache = Nothing
    /\ attempted = {}
    /\ building = Nothing
    /\ pc = [r \in Requests |-> "idle"]
    /\ slots = [r \in Requests |-> {}]
    /\ adding = [r \in Requests |-> {}]
    /\ pull = [e \in Exercises |-> "idle"]
    /\ found = [e \in Exercises |-> FALSE]
    /\ quiet = TRUE

Proceed(r) ==
    \/ ReadRow(r) \/ LockBuild(r) \/ Build(r) \/ BuildEmpty(r) \/ Insert(r) \/ SetCache(r)
    \/ Serve(r) \/ Close(r)
    \/ \E e \in Exercises : Attempt(r, e) \/ Finish(r, e)

Next ==
    \/ \E r \in Requests : ReadCache(r) \/ Proceed(r)
    \/ \E e \in Exercises : PullSelect(e) \/ PullCommit(e) \/ PullKeys(e)

Spec == Init /\ [][Next]_vars

\* The event loop runs every coroutine whose database or Redis call returned.
FairSpec == Spec /\ \A r \in Requests : WF_vars(Proceed(r))

-----------------------------------------------------------------------------
Sessions == [slots : (SUBSET Exercises) \ {{}}, completed : BOOLEAN]

\* Type invariant; an empty session is neither persisted nor cached (D-59).
TypeOK ==
    /\ status \in [Exercises -> {"live", "pulled"}]
    /\ row \in Sessions \cup {Nothing}
    /\ cache \in ((SUBSET Exercises) \ {{}}) \cup {Nothing}
    /\ attempted \subseteq Exercises
    /\ building \in Requests \cup {Nothing}
    /\ pc \in [Requests -> Ended \cup
               {"idle", "row", "lock", "build", "insert", "cache", "serve", "closing"}]
    /\ slots \in [Requests -> SUBSET Exercises]
    /\ adding \in [Requests -> SUBSET Exercises]
    /\ pull \in [Exercises -> {"idle", "delete", "keys", "done"}]
    /\ found \in [Exercises -> BOOLEAN] /\ quiet \in BOOLEAN

NoPull == \A e \in Exercises : pull[e] = "idle"

\* D-122: "both concurrent callers see the IDENTICAL session rather than two
\* independently sampled ones", and the cache is never anything else (D-17).
OneSessionPerDay ==
    NoPull =>
        /\ \A r \in Requests : pc[r] \in Ended \cup {"cache", "serve", "closing"} =>
               row # Nothing /\ slots[r] = row.slots
        /\ cache # Nothing => row # Nothing /\ cache = row.slots

\* The IntegrityError branch is "UNREACHABLE via the concurrent path": who
\* reaches the INSERT finds no row, pulls or not.
InsertNeverCollides == \A r \in Requests : pc[r] = "insert" => row = Nothing

\* A session is closed only when all of it is attempted, whichever copies of it
\* were used and whatever was pulled before; and the attempt that closes it is
\* lost only to a pull that overlaps it, as the row it found is gone.
CompletedIsEarned ==
    quiet => /\ row # Nothing /\ row.completed => row.slots \subseteq attempted
             /\ \A r \in Requests : pc[r] # "failed"

\* D-58: while nothing has overlapped a pull, a pulled exercise is neither in
\* the cache nor in a session still in flight, for good.
QuietPullIsThorough ==
    quiet => \A e \in Exercises : pull[e] = "done" =>
        \/ row # Nothing /\ row.completed
        \/ /\ cache # Nothing => e \notin cache
           /\ row # Nothing => e \notin row.slots

\* Every request ends: the lock of the build is never kept.
EveryRequestEnds == \A r \in Requests : pc[r] = "row" ~> pc[r] \in Ended

\* purge_sessions_referencing deletes rows, then keys, "in that order, so a
\* concurrent GET racing the purge cannot re-cache a row that is about to
\* disappear".
PurgedIsNotCached ==
    \A e \in Exercises : pull[e] = "done" /\ found[e] => (cache # Nothing => e \notin cache)

\* D-102: a purge never takes a completed session: a submission that was told
\* it closed the day keeps the closed row.
CompletedSessionKept ==
    \A r \in Requests : pc[r] = "completed" => row # Nothing /\ row.completed

=============================================================================
