--------------------------- MODULE EmailDelivery ----------------------------
(***************************************************************************)
(* The reminder and recap jobs: sweeps that claim a (user, kind, period)   *)
(* row of email_deliveries, render once, call the provider and record what *)
(* it said.                                                                *)
(*   jobs/reminders.py, jobs/weekly_email.py   who is due                  *)
(*   email/dispatch.py                         run_sweep                   *)
(*   email/deliveries.py                       the ledger                  *)
(* Sweeps overlap (several app instances, the external trigger), and a     *)
(* sweep may die between any two of its commits.  Both kinds run the same  *)
(* sweep; a behaviour is about one of them.                                *)
(* A definition marked "Fault" is a plausible mistake in the one after it, *)
(* which no action uses: the runs' properties are tried against it.        *)
(***************************************************************************)
EXTENDS Integers, FiniteSets

CONSTANTS
    Users,         \* user ids, which are ordered: a set of numbers
    Sweeps,        \* ticks of the job that may overlap
    Bodies,        \* what a message may say
    Nothing,       \* no row, no payload, no key, no message to send
    DAY,           \* clock units in a day
    DUE_AT,        \* unit of the local day from which a user is due
    RECAP_LOCAL_WEEKDAY,
    Zones,         \* UTC offsets a user may take, in clock units
    HOME,          \* the one they start with
    EMAIL_SEND_MAX_ATTEMPTS,
    EMAIL_SEND_RETRY_WINDOW,    \* in clock units
    EMAIL_JOB_BATCH_SIZE,
    EMAIL_MAX_SENDS_PER_TICK,
    KEY_TTL,       \* how long the provider honours an idempotency key
    CLOCK_LIMIT,   \* bound: clock units in a behaviour
    FAILURE_LIMIT, \* bound: crashes and unhandled exceptions in a behaviour
    CHANGE_LIMIT   \* bound: what users do in a behaviour

ASSUME DeliveryAssumption ==
    /\ Users \subseteq Nat /\ IsFiniteSet(Users)
    /\ Zones \subseteq Nat /\ HOME \in Zones
    /\ DAY \in Nat \ {0} /\ DUE_AT \in Nat /\ KEY_TTL \in Nat
    /\ EMAIL_SEND_MAX_ATTEMPTS \in Nat \ {0}
    /\ EMAIL_SEND_RETRY_WINDOW \in Nat
    /\ EMAIL_JOB_BATCH_SIZE \in Nat /\ EMAIL_MAX_SENDS_PER_TICK \in Nat \ {0}
    /\ CLOCK_LIMIT \in Nat /\ FAILURE_LIMIT \in Nat /\ CHANGE_LIMIT \in Nat
    /\ \A b \in Bodies : b # Nothing

VARIABLES
    kind,         \* "reminder" or "recap"
    now,
    zone,         \* users.timezone
    last_active,  \* user_stats.last_active_local_date
    suppressed,   \* users with an email_suppressions row of the kind, or 'all'
    delivery,     \* email_deliveries, by user and period
    accepted,     \* the provider's memory of idempotency keys
    inbox,        \* messages delivered, by user and period
    pc,           \* where each sweep is
    todo,         \* its candidates not yet dealt with
    spent,        \* its claims so far
    message,      \* what it is about to send
    failures, changes

users == <<zone, last_active, suppressed>>
provider == <<accepted, inbox>>
sweeps == <<pc, todo, spent, message>>
bounds == <<failures, changes>>
vars == <<kind, now, users, delivery, provider, sweeps, bounds>>

-----------------------------------------------------------------------------
Date(u) == (now + zone[u]) \div DAY
LocalTime(u) == (now + zone[u]) % DAY

Dates == {(t + z) \div DAY : t \in 0 .. CLOCK_LIMIT, z \in Zones}
Periods == Users \X Dates

\* A reminder is due from its time to the end of the user's local day unless
\* the user has practised; a recap for the same stretch of its weekday.
Due(u) ==
    /\ LocalTime(u) >= DUE_AT
    /\ IF kind = "reminder" THEN last_active[u] < Date(u)
                            ELSE Date(u) % 7 = RECAP_LOCAL_WEEKDAY

\* The query: consenting users in id order, the first EMAIL_JOB_BATCH_SIZE of
\* them.  Who is due is asked of those only.
Mailable == Users \ suppressed
Batch == {u \in Mailable : Cardinality({v \in Mailable : v < u}) < EMAIL_JOB_BATCH_SIZE}
Candidates == {<<u, Date(u)>> : u \in {v \in Batch : Due(v)}}

\* A tick's variables are its own: they go with it.
Stop(s) ==
    /\ pc' = [pc EXCEPT ![s] = "idle"]
    /\ todo' = [todo EXCEPT ![s] = {}]
    /\ spent' = [spent EXCEPT ![s] = 0]
    /\ message' = [message EXCEPT ![s] = Nothing]

Goto(s, label) == pc' = [pc EXCEPT ![s] = label]

\* A tick of the job: the candidates are read once, before any is claimed.
Scan(s) ==
    /\ pc[s] = "idle"
    /\ Candidates # {}
    /\ todo' = [todo EXCEPT ![s] = Candidates]
    /\ Goto(s, "claim")
    /\ UNCHANGED <<kind, now, users, delivery, provider, spent, message, bounds>>

-----------------------------------------------------------------------------
\* The candidate in hand.
Current(s) == CHOOSE p \in todo[s] : \A q \in todo[s] : p[1] <= q[1]

Dealt(s) == todo' = [todo EXCEPT ![s] = @ \ {Current(s)}]

\* Fault: a claim that looks abandoned is taken over.
ClaimableTakeover(p) ==
    delivery[p] # Nothing =>
        /\ delivery[p].status \in {"failed", "claimed"}
        /\ delivery[p].attempts < EMAIL_SEND_MAX_ATTEMPTS
        /\ delivery[p].claimed_at > now - EMAIL_SEND_RETRY_WINDOW

\* The conflict clause of claim_period, and its WHERE.
Claimable(p) ==
    delivery[p] # Nothing =>
        /\ delivery[p].status = "failed"
        /\ delivery[p].attempts < EMAIL_SEND_MAX_ATTEMPTS
        /\ delivery[p].claimed_at > now - EMAIL_SEND_RETRY_WINDOW

Claimed(p) ==
    IF delivery[p] = Nothing
    THEN [status |-> "claimed", attempts |-> 1, claimed_at |-> now, payload |-> Nothing]
    ELSE [delivery[p] EXCEPT !.status = "claimed", !.attempts = @ + 1, !.claimed_at = now]

\* One statement and its commit.  The claim counts against the tick's cap.
Claim(s) ==
    /\ pc[s] = "claim" /\ todo[s] # {} /\ spent[s] < EMAIL_MAX_SENDS_PER_TICK
    /\ Claimable(Current(s))
    /\ delivery' = [delivery EXCEPT ![Current(s)] = Claimed(Current(s))]
    /\ spent' = [spent EXCEPT ![s] = @ + 1]
    /\ Goto(s, "render")
    /\ UNCHANGED <<kind, now, users, provider, todo, message, bounds>>

\* Fault: a candidate that was not claimed counts against the cap.
PassCounting(s) ==
    /\ pc[s] = "claim" /\ todo[s] # {} /\ spent[s] < EMAIL_MAX_SENDS_PER_TICK
    /\ ~Claimable(Current(s))
    /\ Dealt(s)
    /\ spent' = [spent EXCEPT ![s] = @ + 1]
    /\ UNCHANGED <<kind, now, users, delivery, provider, pc, message, bounds>>

\* "Someone else has this period."
Pass(s) ==
    /\ pc[s] = "claim" /\ todo[s] # {} /\ spent[s] < EMAIL_MAX_SENDS_PER_TICK
    /\ ~Claimable(Current(s))
    /\ Dealt(s)
    /\ UNCHANGED <<kind, now, users, delivery, provider, pc, spent, message, bounds>>

\* All dealt with, or capped: who is left is a candidate of the next tick.
EndSweep(s) ==
    /\ pc[s] = "claim"
    /\ todo[s] = {} \/ spent[s] = EMAIL_MAX_SENDS_PER_TICK
    /\ Stop(s)
    /\ UNCHANGED <<kind, now, users, delivery, provider, bounds>>

\* Back to the loop over the candidates.
Continue(s) == Dealt(s) /\ Goto(s, "claim") /\ message' = [message EXCEPT ![s] = Nothing]

\* Fault: a retry renders again, from data that may have moved.
RenderAgain(s) ==
    /\ pc[s] = "render"
    /\ \E b \in Bodies :
          /\ message' = [message EXCEPT ![s] = b]
          /\ delivery' = [delivery EXCEPT ![Current(s)].payload = b]
    /\ Goto(s, "send")
    /\ UNCHANGED <<kind, now, users, provider, todo, spent, bounds>>

\* The stored payload if there is one, else what build_message returns, which
\* is committed before the send.
Render(s) ==
    /\ pc[s] = "render"
    /\ \/ /\ delivery[Current(s)].payload # Nothing
          /\ message' = [message EXCEPT ![s] = delivery[Current(s)].payload]
          /\ UNCHANGED delivery
       \/ /\ delivery[Current(s)].payload = Nothing
          /\ \E b \in Bodies :
                /\ message' = [message EXCEPT ![s] = b]
                /\ delivery' = [delivery EXCEPT ![Current(s)].payload = b]
    /\ Goto(s, "send")
    /\ UNCHANGED <<kind, now, users, provider, todo, spent, bounds>>

\* An empty recap week: build_message returns None.
Skip(s) ==
    /\ pc[s] = "render" /\ kind = "recap"
    /\ delivery[Current(s)].payload = Nothing
    /\ delivery' = [delivery EXCEPT ![Current(s)].status = "skipped"]
    /\ Continue(s)
    /\ UNCHANGED <<kind, now, users, provider, spent, bounds>>

-----------------------------------------------------------------------------
Remembered(p) == accepted[p] # Nothing /\ now < accepted[p].at + KEY_TTL

Deliver(p, b) ==
    /\ accepted' = [accepted EXCEPT ![p] = [at |-> now, body |-> b]]
    /\ inbox' = [inbox EXCEPT ![p] = @ + 1]

\* Fault: the request carries no idempotency key.
AcceptsKeyless(p, b) == Deliver(p, b)

\* The provider collapses a remembered key onto the message it has sent.
Accepts(p, b) ==
    IF Remembered(p) THEN accepted[p].body = b /\ UNCHANGED provider
                     ELSE Deliver(p, b)

\* The provider takes the message, and the sweep hears of it or times out.
Send(s) ==
    /\ pc[s] = "send"
    /\ Accepts(Current(s), message[s])
    /\ \E outcome \in {"sent", "failed"} : Goto(s, outcome)
    /\ UNCHANGED <<kind, now, users, delivery, todo, spent, message, bounds>>

\* It does not: unreachable, 5xx, or a reused key with another payload (409).
Refuse(s) ==
    /\ pc[s] = "send"
    /\ Goto(s, "failed")
    /\ UNCHANGED <<kind, now, users, delivery, provider, todo, spent, message, bounds>>

MarkSent(s) ==
    /\ pc[s] = "sent"
    /\ delivery' = [delivery EXCEPT ![Current(s)].status = "sent"]
    /\ Continue(s)
    /\ UNCHANGED <<kind, now, users, provider, spent, bounds>>

\* Fault: the outcome is recorded as sent whatever it was.
MarkFailedAsSent(s) ==
    /\ pc[s] = "failed"
    /\ delivery' = [delivery EXCEPT ![Current(s)].status = "sent"]
    /\ Continue(s)
    /\ UNCHANGED <<kind, now, users, provider, spent, bounds>>

MarkFailed(s) ==
    /\ pc[s] = "failed"
    /\ delivery' = [delivery EXCEPT ![Current(s)].status = "failed"]
    /\ Continue(s)
    /\ UNCHANGED <<kind, now, users, provider, spent, bounds>>

-----------------------------------------------------------------------------
Fail == failures < FAILURE_LIMIT /\ failures' = failures + 1 /\ UNCHANGED changes

\* The process dies, or the sweep is cancelled, between two commits.
Crash(s) ==
    /\ pc[s] # "idle"
    /\ Fail
    /\ Stop(s)
    /\ UNCHANGED <<kind, now, users, delivery, provider>>

\* An exception that is not EmailSendError: the row stays as it is and the
\* sweep goes on with the next candidate.
Unhandled(s) ==
    /\ pc[s] # "idle" /\ todo[s] # {}
    /\ spent[s] < EMAIL_MAX_SENDS_PER_TICK \/ pc[s] # "claim"
    /\ Fail
    /\ Continue(s)
    /\ UNCHANGED <<kind, now, users, delivery, provider, spent>>

Change == changes < CHANGE_LIMIT /\ changes' = changes + 1 /\ UNCHANGED failures

Practise(u) ==
    /\ Change
    /\ last_active' = [last_active EXCEPT ![u] = Date(u)]
    /\ UNCHANGED <<kind, now, zone, suppressed, delivery, provider, sweeps>>

Travel(u, z) ==
    /\ Change
    /\ zone' = [zone EXCEPT ![u] = z]
    /\ UNCHANGED <<kind, now, last_active, suppressed, delivery, provider, sweeps>>

Suppress(u) ==
    /\ Change
    /\ suppressed' = suppressed \cup {u}
    /\ UNCHANGED <<kind, now, zone, last_active, delivery, provider, sweeps>>

\* Only the owner does, from the profile.
Unsuppress(u) ==
    /\ Change
    /\ suppressed' = suppressed \ {u}
    /\ UNCHANGED <<kind, now, zone, last_active, delivery, provider, sweeps>>

\* A sweep takes a minute or two and a clock unit is hours: none outlasts one.
Tick ==
    /\ now < CLOCK_LIMIT
    /\ \A s \in Sweeps : pc[s] = "idle"
    /\ now' = now + 1
    /\ UNCHANGED <<kind, users, delivery, provider, sweeps, bounds>>

-----------------------------------------------------------------------------
Init ==
    /\ kind \in {"reminder", "recap"}
    /\ now = 0
    /\ zone = [u \in Users |-> HOME]
    /\ last_active = [u \in Users |-> -1]
    /\ suppressed = {}
    /\ delivery = [p \in Periods |-> Nothing]
    /\ accepted = [p \in Periods |-> Nothing]
    /\ inbox = [p \in Periods |-> 0]
    /\ pc = [s \in Sweeps |-> "idle"]
    /\ todo = [s \in Sweeps |-> {}]
    /\ spent = [s \in Sweeps |-> 0]
    /\ message = [s \in Sweeps |-> Nothing]
    /\ failures = 0 /\ changes = 0

Sweep(s) ==
    \/ Scan(s) \/ Claim(s) \/ Pass(s) \/ EndSweep(s)
    \/ Render(s) \/ Skip(s) \/ Send(s) \/ Refuse(s) \/ MarkSent(s) \/ MarkFailed(s)

Next ==
    \/ \E s \in Sweeps : Sweep(s) \/ Crash(s) \/ Unhandled(s)
    \/ \E u \in Users : Practise(u) \/ Suppress(u) \/ Unsuppress(u) \/ \E z \in Zones : Travel(u, z)
    \/ Tick

Spec == Init /\ [][Next]_vars

\* The scheduler ticks for ever, and a sweep that is not killed goes on.
FairSpec == Spec /\ \A s \in Sweeps : WF_vars(Sweep(s))

-----------------------------------------------------------------------------
Rows == [status : {"claimed", "sent", "failed", "skipped"},
         attempts : 1 .. EMAIL_SEND_MAX_ATTEMPTS,
         claimed_at : 0 .. CLOCK_LIMIT,
         payload : Bodies \cup {Nothing}]

Keys == [at : 0 .. CLOCK_LIMIT, body : Bodies]

\* What is not there is told from every row and every key.
ASSUME SentinelAssumption == Nothing \notin Rows /\ Nothing \notin Keys

\* Type invariant.  A retry never exceeds the budget of attempts, nor a tick its
\* cap.
TypeOK ==
    /\ kind \in {"reminder", "recap"}
    /\ now \in 0 .. CLOCK_LIMIT
    /\ zone \in [Users -> Zones]
    /\ last_active \in [Users -> Dates \cup {-1}]
    /\ suppressed \subseteq Users
    /\ delivery \in [Periods -> Rows \cup {Nothing}]
    /\ accepted \in [Periods -> Keys \cup {Nothing}]
    /\ inbox \in [Periods -> Nat]
    /\ pc \in [Sweeps -> {"idle", "claim", "render", "send", "sent", "failed"}]
    /\ todo \in [Sweeps -> SUBSET Periods]
    /\ spent \in [Sweeps -> 0 .. EMAIL_MAX_SENDS_PER_TICK]
    /\ message \in [Sweeps -> Bodies \cup {Nothing}]
    /\ failures \in 0 .. FAILURE_LIMIT /\ changes \in 0 .. CHANGE_LIMIT

Working(s) == pc[s] \in {"render", "send", "sent", "failed"}

\* claim_period makes its caller "the one sender for (user, kind, period)":
\* sweeps that overlap, die or retry never work on the same period, and the row
\* of a period in work says so.
PeriodHasOneSender ==
    \A s \in Sweeps : Working(s) =>
        /\ todo[s] # {} /\ delivery[Current(s)].status = "claimed"
        /\ \A t \in Sweeps : Working(t) /\ Current(t) = Current(s) => t = s

\* "A retry MUST resend these exact bytes": whatever happened to the earlier
\* attempts, the provider never sees a key it remembers with another payload.
RetriesRepeatThePayload ==
    \A s \in Sweeps : pc[s] = "send" /\ accepted[Current(s)] # Nothing =>
        accepted[Current(s)].body = message[s]

\* The ledger is right about what is settled: 'sent' was delivered, 'skipped'
\* and a period nobody claimed was not.
SettledIsHonest ==
    \A p \in Periods :
        /\ delivery[p] = Nothing => inbox[p] = 0
        /\ delivery[p] # Nothing /\ delivery[p].status = "sent" => inbox[p] > 0
        /\ delivery[p] # Nothing /\ delivery[p].status = "skipped" => inbox[p] = 0

Settled == {p \in Periods : delivery[p] # Nothing /\ delivery[p].status \in {"sent", "skipped"}}

Once == INSTANCE EmailOnce WITH received <- inbox, settled <- Settled

\* The sweeps implement the promise: at most one message of a period reaches
\* its user, and none once the period is settled.
SendsOnce == Once!Spec

\* The cap "DEFERS rather than drops": who stays due and consenting is reached
\* by some tick.
EveryoneDueIsReached ==
    \A u \in Users :
        <>[](Due(u) /\ u \notin suppressed) => <>(delivery[<<u, Date(u)>>] # Nothing)

\* D-137(4): "Retries are bounded to the period AND to 24h", so that a retry is
\* never sent when the provider has forgotten the key.
DeliveredAtMostOnce == \A p \in Periods : inbox[p] <= 1

=============================================================================
