------------------------ MODULE EmailDelivery_proofs ------------------------
(***************************************************************************)
(* Proofs about EmailDelivery: its type invariant, that a period has one   *)
(* sender, that a retry repeats the stored payload, that the ledger is     *)
(* right about what is settled, and that the sweeps implement EmailOnce as *)
(* long as the provider's memory of a key outlives the period.             *)
(***************************************************************************)
EXTENDS EmailDelivery, WellFoundedInduction, TLAPS

-----------------------------------------------------------------------------
(* The candidate in hand.                                                  *)

\* Numbers are well-founded, so a set of them has a least element.
LEMMA NatWellFounded == IsWellFoundedOn({ss \in Nat \X Nat : ss[1] < ss[2]}, Nat)
BY NatLessThanWellFounded DEF OpToRel

\* A set of user ids has a first one.
LEMMA Least ==
    ASSUME NEW S \in SUBSET Nat, S # {}
    PROVE  \E m \in S : \A k \in S : m <= k
<1> DEFINE R == {ss \in Nat \X Nat : ss[1] < ss[2]}
<1>1. PICK m \in S : \A k \in S : <<k, m>> \notin R
  BY NatWellFounded, WFMin
<1>2. ASSUME NEW k \in S PROVE m <= k
  <2>1. ~ (k < m)
    BY <1>1
  <2>2. QED BY <2>1
<1>3. QED BY <1>2

\* The candidate in hand is one of those left (the loop of run_sweep).
LEMMA CurrentIsLeft ==
    ASSUME NEW s \in Sweeps, todo[s] \in SUBSET Periods, todo[s] # {}
    PROVE  Current(s) \in todo[s]
<1> DEFINE Ids == {p[1] : p \in todo[s]}
<1>1. \A p \in todo[s] : p[1] \in Nat
  BY DeliveryAssumption DEF Periods
<1>2. PICK m \in Ids : \A k \in Ids : m <= k
  <2>1. Ids \in SUBSET Nat /\ Ids # {}
    BY <1>1
  <2>2. QED BY <2>1, Least
<1>3. PICK p \in todo[s] : p[1] = m
  BY <1>2
<1>4. \A q \in todo[s] : p[1] <= q[1]
  BY <1>2, <1>3
<1>5. \E c \in todo[s] : \A q \in todo[s] : c[1] <= q[1]
  BY <1>4
<1>6. QED BY <1>5 DEF Current

\* A sweep whose candidates stay has the same one in hand.
LEMMA CurrentStays ==
    ASSUME NEW s \in Sweeps, todo'[s] = todo[s]
    PROVE  Current(s)' = Current(s)
BY DEF Current

-----------------------------------------------------------------------------
(* The inductive invariant.                                                *)

\* A tick's candidates go with it.
IdleIsEmpty == \A s \in Sweeps : pc[s] = "idle" => todo[s] = {}

\* A sweep works on a period whose row it has claimed.
HandHasRow == \A s \in Sweeps : Working(s) => delivery[Current(s)] # Nothing

\* What a sweep sends is what its row says, and it hears "sent" of a message
\* that was delivered.
Prepared ==
    \A s \in Sweeps : pc[s] \in {"send", "sent", "failed"} =>
        /\ message[s] \in Bodies
        /\ delivery[Current(s)].payload = message[s]
        /\ pc[s] = "sent" => inbox[Current(s)] > 0

\* The provider has delivered what it remembers, and it is what the row says.
AcceptedIsStored ==
    \A p \in Periods :
        /\ accepted[p] = Nothing <=> inbox[p] = 0
        /\ accepted[p] # Nothing =>
              /\ delivery[p] # Nothing
              /\ delivery[p].payload = accepted[p].body

Ledger ==
    /\ IdleIsEmpty
    /\ PeriodHasOneSender /\ HandHasRow
    /\ Prepared /\ AcceptedIsStored /\ SettledIsHonest

IInv == TypeOK /\ Ledger

\* The kinds of step, apart.
LEMMA NextCases ==
    ASSUME [Next]_vars
    PROVE  \/ \E s \in Sweeps : \/ Scan(s) \/ Claim(s) \/ Pass(s) \/ EndSweep(s)
                                \/ Render(s) \/ Skip(s) \/ Send(s) \/ Refuse(s)
                                \/ MarkSent(s) \/ MarkFailed(s) \/ Crash(s) \/ Unhandled(s)
           \/ \E u \in Users : Practise(u) \/ Suppress(u) \/ Unsuppress(u) \/ \E z \in Zones : Travel(u, z)
           \/ Tick
           \/ UNCHANGED vars
BY DEF Next, Sweep

\* A date that can be asked is one of the periods' dates.
LEMMA DateType ==
    ASSUME TypeOK, NEW u \in Users
    PROVE  Date(u) \in Dates
BY DEF Date, Dates, TypeOK

\* The query returns periods.
LEMMA CandidatesArePeriods == TypeOK => Candidates \subseteq Periods
<1> SUFFICES ASSUME TypeOK, NEW u \in Batch PROVE <<u, Date(u)>> \in Periods
  BY DEF Candidates
<1>1. u \in Users
  BY DEF Batch, Mailable
<1>2. QED BY <1>1, DateType DEF Periods

\* A row that is there is a row.
LEMMA RowType ==
    ASSUME TypeOK, NEW p \in Periods, delivery[p] # Nothing
    PROVE  delivery[p] \in Rows
BY DEF TypeOK

\* A claim stays within the budget of attempts.
LEMMA ClaimedIsRow ==
    ASSUME TypeOK, NEW p \in Periods, Claimable(p)
    PROVE  Claimed(p) \in Rows
<1>1. CASE delivery[p] = Nothing
  BY <1>1, DeliveryAssumption DEF Claimed, Rows, TypeOK
<1>2. CASE delivery[p] # Nothing
  <2>1. delivery[p] \in Rows
    BY <1>2, RowType
  <2>2. delivery[p].attempts + 1 \in 1 .. EMAIL_SEND_MAX_ATTEMPTS
    BY <1>2, <2>1, DeliveryAssumption DEF Claimable, Rows
  <2>3. QED BY <1>2, <2>1, <2>2 DEF Claimed, Rows, TypeOK
<1>3. QED BY <1>1, <1>2

\* A sweep at work has a candidate in hand, and its row.
LEMMA Hand ==
    ASSUME TypeOK, PeriodHasOneSender, HandHasRow, NEW s \in Sweeps, Working(s)
    PROVE  /\ Current(s) \in Periods /\ Current(s) \in todo[s]
           /\ delivery[Current(s)] \in Rows
           /\ delivery[Current(s)] # Nothing
           /\ delivery[Current(s)].status = "claimed"
<1>1. todo[s] # {} /\ todo[s] \in SUBSET Periods /\ delivery[Current(s)].status = "claimed"
  BY DEF TypeOK, PeriodHasOneSender
<1>2. Current(s) \in todo[s] /\ Current(s) \in Periods
  BY <1>1, CurrentIsLeft
<1>3. delivery[Current(s)] # Nothing
  BY DEF HandHasRow
<1>4. QED BY <1>1, <1>2, <1>3, RowType

\* Every step keeps the types: a retry within its budget of attempts, a tick
\* within its cap.
LEMMA TypeNext ==
    ASSUME TypeOK, PeriodHasOneSender, HandHasRow, Prepared, [Next]_vars
    PROVE  TypeOK'
<1> USE DeliveryAssumption
<1>1. ASSUME NEW s \in Sweeps, Scan(s)
      PROVE  TypeOK'
  BY <1>1, CandidatesArePeriods DEF TypeOK, Scan, Goto, users, provider, bounds
<1>2. ASSUME NEW s \in Sweeps, Claim(s)
      PROVE  TypeOK'
  <2>1. Current(s) \in Periods
    BY <1>2, CurrentIsLeft DEF Claim, TypeOK
  <2>2. Claimed(Current(s)) \in Rows
    BY <1>2, <2>1, ClaimedIsRow DEF Claim
  <2>3. delivery' \in [Periods -> Rows \cup {Nothing}]
    BY <1>2, <2>2 DEF Claim, TypeOK
  <2>4. spent' \in [Sweeps -> 0 .. EMAIL_MAX_SENDS_PER_TICK]
    BY <1>2 DEF Claim, TypeOK
  <2>5. QED BY <1>2, <2>3, <2>4 DEF TypeOK, Claim, Goto, users, provider, bounds
<1>3. ASSUME NEW s \in Sweeps, Pass(s)
      PROVE  TypeOK'
  BY <1>3 DEF TypeOK, Pass, Dealt, users, provider, bounds
<1>4. ASSUME NEW s \in Sweeps, EndSweep(s)
      PROVE  TypeOK'
  BY <1>4 DEF TypeOK, EndSweep, Stop, users, provider, bounds
<1>5. ASSUME NEW s \in Sweeps, Render(s)
      PROVE  TypeOK'
  <2>1. Current(s) \in Periods /\ delivery[Current(s)] \in Rows
    BY <1>5, Hand DEF Render, Working
  <2>2. delivery' \in [Periods -> Rows \cup {Nothing}] /\ message' \in [Sweeps -> Bodies \cup {Nothing}]
    <3>1. CASE delivery[Current(s)].payload # Nothing
      BY <1>5, <2>1, <3>1 DEF Render, TypeOK, Rows
    <3>2. CASE delivery[Current(s)].payload = Nothing
      <4>1. PICK b \in Bodies :
               /\ message' = [message EXCEPT ![s] = b]
               /\ delivery' = [delivery EXCEPT ![Current(s)].payload = b]
        BY <1>5, <3>2 DEF Render
      <4>2. [delivery[Current(s)] EXCEPT !.payload = b] \in Rows
        BY <2>1 DEF Rows
      <4>3. QED BY <4>1, <4>2 DEF TypeOK
    <3>3. QED BY <3>1, <3>2
  <2>3. QED BY <1>5, <2>2 DEF TypeOK, Render, Goto, users, provider, bounds
<1>6. ASSUME NEW s \in Sweeps, NEW status \in {"sent", "failed", "skipped"}, Working(s),
             delivery' = [delivery EXCEPT ![Current(s)].status = status],
             Continue(s), UNCHANGED <<kind, now, users, provider, spent, bounds>>
      PROVE  TypeOK'
  <2>1. Current(s) \in Periods /\ delivery[Current(s)] \in Rows
    BY <1>6, Hand
  <2>2. [delivery[Current(s)] EXCEPT !.status = status] \in Rows
    BY <2>1 DEF Rows
  <2>3. delivery' \in [Periods -> Rows \cup {Nothing}]
    BY <1>6, <2>2 DEF TypeOK
  <2>4. QED BY <1>6, <2>3 DEF TypeOK, Continue, Dealt, Goto, users, provider, bounds
<1>7. ASSUME NEW s \in Sweeps, Skip(s) \/ MarkSent(s) \/ MarkFailed(s)
      PROVE  TypeOK'
  BY <1>6, <1>7 DEF Skip, MarkSent, MarkFailed, Working
<1>8. ASSUME NEW s \in Sweeps, Send(s)
      PROVE  TypeOK'
  <2>1. Current(s) \in Periods
    BY <1>8, Hand DEF Send, Working
  <2>2. [at |-> now, body |-> message[s]] \in Keys
    BY <1>8 DEF TypeOK, Keys, Send, Prepared
  <2>3. accepted' \in [Periods -> Keys \cup {Nothing}] /\ inbox' \in [Periods -> Nat]
    <3>1. CASE UNCHANGED provider
      BY <3>1 DEF provider, TypeOK
    <3>2. CASE Deliver(Current(s), message[s])
      BY <2>1, <2>2, <3>2 DEF Deliver, TypeOK
    <3>3. QED BY <1>8, <3>1, <3>2 DEF Send, Accepts
  <2>4. QED BY <1>8, <2>3 DEF TypeOK, Send, Goto, users, bounds
<1>9. ASSUME NEW s \in Sweeps, Refuse(s)
      PROVE  TypeOK'
  BY <1>9 DEF TypeOK, Refuse, Goto, users, provider, bounds
<1>10. ASSUME NEW s \in Sweeps, Crash(s)
       PROVE  TypeOK'
  BY <1>10 DEF TypeOK, Crash, Fail, Stop, users, provider
<1>11. ASSUME NEW s \in Sweeps, Unhandled(s)
       PROVE  TypeOK'
  BY <1>11 DEF TypeOK, Unhandled, Fail, Continue, Dealt, Goto, users, provider
<1>12. ASSUME NEW u \in Users, Practise(u)
       PROVE  TypeOK'
  BY <1>12, DateType DEF TypeOK, Practise, Change, provider, sweeps
<1>13. ASSUME NEW u \in Users, NEW z \in Zones, Travel(u, z)
       PROVE  TypeOK'
  BY <1>13 DEF TypeOK, Travel, Change, provider, sweeps
<1>14. ASSUME NEW u \in Users, Suppress(u)
       PROVE  TypeOK'
  BY <1>14 DEF TypeOK, Suppress, Change, provider, sweeps
<1>15. ASSUME NEW u \in Users, Unsuppress(u)
       PROVE  TypeOK'
  BY <1>15 DEF TypeOK, Unsuppress, Change, provider, sweeps
<1>16. CASE Tick
  BY <1>16 DEF TypeOK, Tick, users, provider, sweeps, bounds
<1>17. CASE UNCHANGED vars
  BY <1>17 DEF TypeOK, vars, users, provider, sweeps, bounds
<1>18. QED
  BY NextCases, <1>1, <1>2, <1>3, <1>4, <1>5, <1>7, <1>8, <1>9, <1>10, <1>11, <1>12, <1>13,
     <1>14, <1>15, <1>16, <1>17
-----------------------------------------------------------------------------
(* The rest of the invariant is about rows, keys and sweeps: what each kind *)
(* of step does to them.                                                    *)

\* Only the sweep s moves.
OthersStay(s) ==
    \A t \in Sweeps \ {s} : pc'[t] = pc[t] /\ todo'[t] = todo[t] /\ message'[t] = message[t]

\* A sweep that does not move has the same candidate in hand and is as busy.
LEMMA Others ==
    ASSUME NEW s \in Sweeps, OthersStay(s), NEW t \in Sweeps, t # s
    PROVE  /\ pc'[t] = pc[t] /\ message'[t] = message[t]
           /\ Current(t)' = Current(t) /\ Working(t)' = Working(t)
BY CurrentStays DEF OthersStay, Working

\* Users and the clock change no row, no key and no sweep.
LEMMA AsideStep ==
    ASSUME Ledger, UNCHANGED <<delivery, provider, sweeps>>
    PROVE  Ledger'
<1>1. /\ delivery' = delivery /\ accepted' = accepted /\ inbox' = inbox
      /\ pc' = pc /\ todo' = todo /\ message' = message
  BY DEF provider, sweeps
<1>2. \A s \in Sweeps : Current(s)' = Current(s) /\ Working(s)' = Working(s)
  BY <1>1, CurrentStays DEF Working
<1>3. IdleIsEmpty' /\ AcceptedIsStored' /\ SettledIsHonest'
  BY <1>1 DEF Ledger, IdleIsEmpty, AcceptedIsStored, SettledIsHonest
<1>4. PeriodHasOneSender' /\ HandHasRow'
  BY <1>1, <1>2 DEF Ledger, PeriodHasOneSender, HandHasRow
<1>5. Prepared'
  BY <1>1, <1>2 DEF Ledger, Prepared
<1>6. QED BY <1>3, <1>4, <1>5 DEF Ledger

\* A sweep that looks for its next candidate, or stops or dies, works on no
\* period, and leaves every row and key as it is.
LEMMA LeaveStep ==
    ASSUME Ledger, NEW s \in Sweeps, OthersStay(s), UNCHANGED <<delivery, provider>>,
           pc'[s] \in {"idle", "claim"}, pc'[s] = "idle" => todo'[s] = {}
    PROVE  Ledger'
<1>1. delivery' = delivery /\ accepted' = accepted /\ inbox' = inbox
  BY DEF provider
<1>2. ~ Working(s)'
  BY DEF Working
<1>3. IdleIsEmpty'
  BY Others DEF Ledger, IdleIsEmpty, OthersStay
<1>4. AcceptedIsStored' /\ SettledIsHonest'
  BY <1>1 DEF Ledger, AcceptedIsStored, SettledIsHonest
<1>5. HandHasRow'
  BY <1>1, <1>2, Others DEF Ledger, HandHasRow
<1>6. PeriodHasOneSender'
  <2> SUFFICES ASSUME NEW t \in Sweeps, Working(t)'
      PROVE  /\ todo'[t] # {} /\ delivery'[Current(t)'].status = "claimed"
             /\ \A r \in Sweeps : Working(r)' /\ Current(r)' = Current(t)' => r = t
    BY DEF PeriodHasOneSender
  <2>1. t # s /\ Working(t) /\ Current(t)' = Current(t)
    BY <1>2, Others
  <2>2. \A r \in Sweeps : Working(r)' => Working(r) /\ Current(r)' = Current(r)
    BY <1>2, Others
  <2>3. QED BY <1>1, <2>1, <2>2 DEF Ledger, PeriodHasOneSender, OthersStay
<1>7. Prepared'
  BY <1>1, Others DEF Ledger, Prepared
<1>8. QED BY <1>3, <1>4, <1>5, <1>6, <1>7 DEF Ledger

\* A claim: the row was nobody's, or of an attempt that failed.
LEMMA ClaimStep ==
    ASSUME IInv, NEW s \in Sweeps, Claim(s)
    PROVE  Ledger'
<1> DEFINE p == Current(s)
<1>1. /\ p \in Periods /\ todo[s] # {} /\ pc[s] = "claim" /\ Claimable(p)
      /\ Claimed(p) \in Rows
  BY CurrentIsLeft, ClaimedIsRow DEF Claim, IInv, Ledger, TypeOK
<1>2. /\ accepted' = accepted /\ inbox' = inbox /\ todo' = todo /\ message' = message
      /\ pc' = [pc EXCEPT ![s] = "render"]
      /\ delivery' = [delivery EXCEPT ![p] = Claimed(p)]
  BY DEF Claim, Goto, provider
<1>3. OthersStay(s) /\ p' = p /\ pc'[s] = "render"
  BY <1>2, CurrentStays DEF OthersStay, IInv, Ledger, TypeOK
<1>4. /\ Claimed(p).status = "claimed" /\ Claimed(p) # Nothing
      /\ delivery[p] # Nothing => Claimed(p).payload = delivery[p].payload
  <2>1. CASE delivery[p] = Nothing
    BY <1>1, <2>1, SentinelAssumption DEF Claimed
  <2>2. CASE delivery[p] # Nothing
    <3>1. delivery[p] \in Rows
      BY <1>1, <2>2, RowType DEF IInv, Ledger
    <3>2. QED BY <1>1, <2>2, <3>1, SentinelAssumption DEF Claimed, Rows
  <2>3. QED BY <2>1, <2>2
<1>5. /\ delivery'[p] = Claimed(p)
      /\ \A q \in Periods \ {p} : delivery'[q] = delivery[q]
  BY <1>1, <1>2 DEF IInv, Ledger, TypeOK
<1>6. \A t \in Sweeps : Working(t) => Current(t) \in Periods /\ Current(t) # p
  <2> SUFFICES ASSUME NEW t \in Sweeps, Working(t) PROVE Current(t) \in Periods /\ Current(t) # p
    OBVIOUS
  <2>1. Current(t) \in Periods /\ delivery[Current(t)] # Nothing /\ delivery[Current(t)].status = "claimed"
    BY Hand DEF IInv, Ledger
  <2>2. QED BY <1>1, <2>1 DEF Claimable
<1>7. \A t \in Sweeps \ {s} : Working(t)' = Working(t) /\ Current(t)' = Current(t)
  BY <1>3, Others
<1>8. IdleIsEmpty'
  BY <1>2, <1>3, Others DEF IInv, Ledger, IdleIsEmpty, OthersStay
<1>9. PeriodHasOneSender'
  <2> SUFFICES ASSUME NEW t \in Sweeps, Working(t)'
      PROVE  /\ todo'[t] # {} /\ delivery'[Current(t)'].status = "claimed"
             /\ \A r \in Sweeps : Working(r)' /\ Current(r)' = Current(t)' => r = t
    BY DEF PeriodHasOneSender
  <2>1. CASE t = s
    BY <1>1, <1>2, <1>3, <1>4, <1>5, <1>6, <1>7, <2>1
  <2>2. CASE t # s
    BY <1>2, <1>3, <1>5, <1>6, <1>7, <2>2 DEF IInv, Ledger, PeriodHasOneSender
  <2>3. QED BY <2>1, <2>2
<1>10. HandHasRow'
  BY <1>3, <1>4, <1>5, <1>6, <1>7 DEF IInv, Ledger, HandHasRow
<1>11. Prepared'
  <2> SUFFICES ASSUME NEW t \in Sweeps, pc'[t] \in {"send", "sent", "failed"}
      PROVE  /\ message'[t] \in Bodies
             /\ delivery'[Current(t)'].payload = message'[t]
             /\ pc'[t] = "sent" => inbox'[Current(t)'] > 0
    BY DEF Prepared
  <2>1. t # s /\ pc[t] = pc'[t] /\ Working(t)
    BY <1>3 DEF OthersStay, Working
  <2>2. QED BY <1>2, <1>5, <1>6, <1>7, <2>1 DEF IInv, Ledger, Prepared
<1>12. AcceptedIsStored'
  BY <1>2, <1>4, <1>5 DEF IInv, Ledger, AcceptedIsStored
<1>13. SettledIsHonest'
  BY <1>2, <1>4, <1>5 DEF IInv, Ledger, SettledIsHonest
<1>14. QED BY <1>8, <1>9, <1>10, <1>11, <1>12, <1>13 DEF Ledger

\* What a sweep at work keeps to itself: no other works on its period.
LEMMA Alone ==
    ASSUME PeriodHasOneSender, NEW s \in Sweeps, Working(s), NEW t \in Sweeps, Working(t), t # s
    PROVE  Current(t) # Current(s)
BY DEF PeriodHasOneSender

\* The outcome of an attempt, and an empty week: a status the ledger may show.
LEMMA CloseStep ==
    ASSUME IInv, NEW s \in Sweeps, Working(s), NEW status \in {"sent", "failed", "skipped"},
           delivery' = [delivery EXCEPT ![Current(s)].status = status], Continue(s),
           UNCHANGED provider,
           status = "sent" => inbox[Current(s)] > 0,
           status = "skipped" => inbox[Current(s)] = 0
    PROVE  Ledger'
<1> DEFINE p == Current(s)
<1>1. p \in Periods /\ delivery[p] \in Rows /\ delivery[p] # Nothing
  BY Hand DEF IInv, Ledger
<1>2. accepted' = accepted /\ inbox' = inbox
  BY DEF provider
<1>3. OthersStay(s) /\ pc'[s] = "claim" /\ ~ Working(s)'
  BY DEF Continue, Dealt, Goto, OthersStay, IInv, Ledger, TypeOK, Working
<1>4. /\ delivery'[p] \in Rows /\ delivery'[p] # Nothing
      /\ delivery'[p].status = status /\ delivery'[p].payload = delivery[p].payload
      /\ \A q \in Periods \ {p} : delivery'[q] = delivery[q]
  BY <1>1, SentinelAssumption DEF IInv, Ledger, TypeOK, Rows
<1>5. \A t \in Sweeps : Working(t)' =>
         /\ t # s /\ Working(t) /\ Current(t)' = Current(t)
         /\ Current(t) \in Periods /\ Current(t) # p
  BY <1>3, Others, Alone, Hand DEF IInv, Ledger
<1>6. IdleIsEmpty'
  BY <1>3, Others DEF IInv, Ledger, IdleIsEmpty, OthersStay
<1>7. PeriodHasOneSender'
  BY <1>3, <1>4, <1>5 DEF IInv, Ledger, PeriodHasOneSender, OthersStay
<1>8. HandHasRow'
  BY <1>4, <1>5 DEF IInv, Ledger, HandHasRow
<1>9. Prepared'
  <2> SUFFICES ASSUME NEW t \in Sweeps, pc'[t] \in {"send", "sent", "failed"}
      PROVE  /\ message'[t] \in Bodies
             /\ delivery'[Current(t)'].payload = message'[t]
             /\ pc'[t] = "sent" => inbox'[Current(t)'] > 0
    BY DEF Prepared
  <2>1. Working(t)'
    BY DEF Working
  <2>2. QED BY <1>2, <1>3, <1>4, <1>5, <2>1 DEF IInv, Ledger, Prepared, OthersStay
<1>10. AcceptedIsStored'
  BY <1>1, <1>2, <1>4 DEF IInv, Ledger, AcceptedIsStored
<1>11. SettledIsHonest'
  BY <1>1, <1>2, <1>4 DEF IInv, Ledger, SettledIsHonest
<1>12. QED BY <1>6, <1>7, <1>8, <1>9, <1>10, <1>11 DEF Ledger

\* What is about to be sent is the stored payload, or is stored first.
LEMMA RenderStep ==
    ASSUME IInv, NEW s \in Sweeps, Render(s)
    PROVE  Ledger'
<1> DEFINE p == Current(s)
<1>1. Working(s) /\ p \in Periods /\ delivery[p] \in Rows /\ delivery[p] # Nothing
  BY Hand DEF Render, Working, IInv, Ledger
<1>2. /\ accepted' = accepted /\ inbox' = inbox /\ todo' = todo
      /\ pc' = [pc EXCEPT ![s] = "send"]
  BY DEF Render, Goto, provider
<1>3. PICK b \in Bodies :
         /\ message' = [message EXCEPT ![s] = b]
         /\ \/ delivery[p].payload = b /\ delivery' = delivery
            \/ delivery[p].payload = Nothing /\ delivery' = [delivery EXCEPT ![p].payload = b]
  <2>1. CASE delivery[p].payload # Nothing
    BY <1>1, <2>1 DEF Render, Rows
  <2>2. CASE delivery[p].payload = Nothing
    BY <2>2 DEF Render
  <2>3. QED BY <2>1, <2>2
<1>4. OthersStay(s) /\ p' = p /\ pc'[s] = "send" /\ message'[s] = b
  BY <1>2, <1>3, CurrentStays DEF OthersStay, IInv, TypeOK
<1>5. /\ delivery'[p] # Nothing
      /\ delivery'[p].status = delivery[p].status /\ delivery'[p].payload = b
      /\ \A q \in Periods \ {p} : delivery'[q] = delivery[q]
  <2>1. CASE delivery[p].payload = b /\ delivery' = delivery
    BY <1>1, <2>1
  <2>2. CASE delivery' = [delivery EXCEPT ![p].payload = b]
    <3>1. delivery'[p] \in Rows
      BY <1>1, <2>2 DEF Rows, IInv, TypeOK
    <3>2. QED BY <1>1, <2>2, <3>1, SentinelAssumption DEF Rows, IInv, TypeOK
  <2>3. QED BY <1>3, <2>1, <2>2
<1>6. \A t \in Sweeps \ {s} : /\ Working(t)' = Working(t) /\ Current(t)' = Current(t)
                              /\ Working(t) => Current(t) \in Periods /\ Current(t) # p
  BY <1>1, <1>4, Others, Alone, Hand DEF IInv, Ledger
<1>7. IdleIsEmpty'
  BY <1>4, Others DEF IInv, Ledger, IdleIsEmpty, OthersStay
<1>8. PeriodHasOneSender'
  <2> SUFFICES ASSUME NEW t \in Sweeps, Working(t)'
      PROVE  /\ todo'[t] # {} /\ delivery'[Current(t)'].status = "claimed"
             /\ \A r \in Sweeps : Working(r)' /\ Current(r)' = Current(t)' => r = t
    BY DEF PeriodHasOneSender
  <2>1. CASE t = s
    BY <1>1, <1>2, <1>4, <1>5, <1>6, <2>1 DEF IInv, Ledger, PeriodHasOneSender
  <2>2. CASE t # s
    BY <1>2, <1>4, <1>5, <1>6, <2>2 DEF IInv, Ledger, PeriodHasOneSender
  <2>3. QED BY <2>1, <2>2
<1>9. HandHasRow'
  BY <1>4, <1>5, <1>6 DEF IInv, Ledger, HandHasRow
<1>10. Prepared'
  <2> SUFFICES ASSUME NEW t \in Sweeps, pc'[t] \in {"send", "sent", "failed"}
      PROVE  /\ message'[t] \in Bodies
             /\ delivery'[Current(t)'].payload = message'[t]
             /\ pc'[t] = "sent" => inbox'[Current(t)'] > 0
    BY DEF Prepared
  <2>1. CASE t = s
    BY <1>4, <1>5, <2>1
  <2>2. CASE t # s
    <3>1. pc[t] = pc'[t] /\ Working(t)
      BY <1>4, <2>2 DEF OthersStay, Working
    <3>2. QED BY <1>2, <1>4, <1>5, <1>6, <2>2, <3>1 DEF IInv, Ledger, Prepared, OthersStay
  <2>3. QED BY <2>1, <2>2
<1>11. AcceptedIsStored'
  <2> SUFFICES ASSUME NEW q \in Periods
      PROVE  /\ accepted[q] = Nothing <=> inbox[q] = 0
             /\ accepted[q] # Nothing =>
                   /\ delivery'[q] # Nothing
                   /\ delivery'[q].payload = accepted[q].body
    BY <1>2 DEF AcceptedIsStored
  <2>1. accepted[q] # Nothing => accepted[q].body # Nothing
    BY DeliveryAssumption DEF IInv, TypeOK, Keys
  <2>2. QED BY <1>1, <1>3, <1>5, <2>1 DEF IInv, Ledger, AcceptedIsStored
<1>12. SettledIsHonest'
  BY <1>1, <1>2, <1>5 DEF IInv, Ledger, SettledIsHonest
<1>13. QED BY <1>7, <1>8, <1>9, <1>10, <1>11, <1>12 DEF Ledger

\* The call to the provider, whatever comes of it: its memory and the inbox
\* move together, and the row stays claimed.
LEMMA CallStep ==
    ASSUME IInv, NEW s \in Sweeps, Send(s) \/ Refuse(s)
    PROVE  Ledger'
<1> DEFINE p == Current(s)
<1>1. /\ pc[s] = "send" /\ Working(s) /\ p \in Periods
      /\ delivery[p] \in Rows /\ delivery[p] # Nothing /\ delivery[p].status = "claimed"
      /\ message[s] \in Bodies /\ delivery[p].payload = message[s]
  BY Hand DEF Send, Refuse, Working, IInv, Ledger, Prepared
<1>2. /\ delivery' = delivery /\ todo' = todo /\ message' = message
      /\ pc'[s] \in {"sent", "failed"} /\ OthersStay(s)
  BY DEF Send, Refuse, Goto, OthersStay, IInv, TypeOK
<1>3. \/ pc'[s] = "failed" /\ accepted' = accepted /\ inbox' = inbox
      \/ Accepts(p, message[s])
  BY DEF Send, Refuse, Goto, provider, IInv, TypeOK
<1>4. \A q \in Periods \ {p} : accepted'[q] = accepted[q] /\ inbox'[q] = inbox[q]
  BY <1>1, <1>3 DEF Accepts, Deliver, provider, IInv, TypeOK
<1>5. /\ accepted'[p] = Nothing <=> inbox'[p] = 0
      /\ accepted'[p] # Nothing => accepted'[p].body = message[s]
      /\ pc'[s] = "sent" => inbox'[p] > 0
      /\ inbox'[p] >= inbox[p]
  <2>1. /\ accepted[p] = Nothing <=> inbox[p] = 0
        /\ accepted[p] # Nothing => accepted[p].body = message[s]
        /\ inbox[p] \in Nat
    BY <1>1 DEF IInv, Ledger, TypeOK, AcceptedIsStored
  <2>2. CASE Deliver(p, message[s])
    <3>1. accepted'[p] = [at |-> now, body |-> message[s]] /\ inbox'[p] = inbox[p] + 1
      BY <1>1, <2>2 DEF Deliver, IInv, TypeOK
    <3>2. accepted'[p] \in Keys
      BY <1>1, <3>1 DEF Keys, IInv, TypeOK
    <3>3. QED BY <2>1, <3>1, <3>2, SentinelAssumption
  <2>3. CASE Remembered(p) /\ UNCHANGED provider
    BY <2>1, <2>3 DEF Remembered, provider
  <2>4. CASE pc'[s] = "failed" /\ accepted' = accepted /\ inbox' = inbox
    BY <2>1, <2>4
  <2>5. QED BY <1>3, <2>2, <2>3, <2>4 DEF Accepts
<1>6. \A t \in Sweeps : Current(t)' = Current(t)
  BY <1>2, CurrentStays
<1>7. Working(s)' /\ \A t \in Sweeps \ {s} : Working(t)' = Working(t)
  BY <1>2, Others DEF Working
<1>8. IdleIsEmpty'
  BY <1>2, Others DEF IInv, Ledger, IdleIsEmpty, OthersStay
<1>9. PeriodHasOneSender' /\ HandHasRow'
  BY <1>1, <1>2, <1>6, <1>7 DEF IInv, Ledger, PeriodHasOneSender, HandHasRow
<1>10. Prepared'
  <2> SUFFICES ASSUME NEW t \in Sweeps, pc'[t] \in {"send", "sent", "failed"}
      PROVE  /\ message'[t] \in Bodies
             /\ delivery'[Current(t)'].payload = message'[t]
             /\ pc'[t] = "sent" => inbox'[Current(t)'] > 0
    BY DEF Prepared
  <2>1. CASE t = s
    BY <1>1, <1>2, <1>5, <1>6, <2>1
  <2>2. CASE t # s
    <3>1. pc[t] = pc'[t] /\ Working(t)
      BY <1>2, <2>2 DEF OthersStay, Working
    <3>2. Current(t) \in Periods \ {p}
      BY <1>1, <2>2, <3>1, Alone, Hand DEF IInv, Ledger
    <3>3. QED BY <1>2, <1>4, <1>6, <2>2, <3>1, <3>2 DEF IInv, Ledger, Prepared, OthersStay
  <2>3. QED BY <2>1, <2>2
<1>11. AcceptedIsStored'
  BY <1>1, <1>2, <1>4, <1>5 DEF IInv, Ledger, AcceptedIsStored
<1>12. SettledIsHonest'
  BY <1>1, <1>2, <1>4, <1>5 DEF IInv, Ledger, SettledIsHonest, TypeOK
<1>13. QED BY <1>8, <1>9, <1>10, <1>11, <1>12 DEF Ledger

-----------------------------------------------------------------------------
(* The theorems.                                                           *)

LEMMA InvNext ==
    ASSUME IInv, [Next]_vars
    PROVE  IInv'
<1>1. TypeOK'
  BY TypeNext DEF IInv, Ledger
<1>2. ASSUME NEW s \in Sweeps, Scan(s) \/ Pass(s) \/ EndSweep(s) \/ Crash(s) \/ Unhandled(s)
      PROVE  Ledger'
  <2>1. /\ OthersStay(s) /\ UNCHANGED <<delivery, provider>>
        /\ pc'[s] \in {"idle", "claim"} /\ (pc'[s] = "idle" => todo'[s] = {})
    <3>1. CASE Scan(s)
      BY <3>1 DEF Scan, Goto, OthersStay, IInv, TypeOK
    <3>2. CASE Pass(s)
      BY <3>2 DEF Pass, Dealt, OthersStay, IInv, TypeOK
    <3>3. CASE EndSweep(s)
      BY <3>3 DEF EndSweep, Stop, OthersStay, IInv, TypeOK
    <3>4. CASE Crash(s)
      BY <3>4 DEF Crash, Stop, OthersStay, IInv, TypeOK
    <3>5. CASE Unhandled(s)
      BY <3>5 DEF Unhandled, Continue, Dealt, Goto, OthersStay, IInv, TypeOK
    <3>6. QED BY <1>2, <3>1, <3>2, <3>3, <3>4, <3>5
  <2>2. QED BY <2>1, LeaveStep DEF IInv
<1>3. ASSUME NEW s \in Sweeps, Claim(s)
      PROVE  Ledger'
  BY <1>3, ClaimStep
<1>4. ASSUME NEW s \in Sweeps, Render(s)
      PROVE  Ledger'
  BY <1>4, RenderStep
<1>5. ASSUME NEW s \in Sweeps, Send(s) \/ Refuse(s)
      PROVE  Ledger'
  BY <1>5, CallStep
<1>6. ASSUME NEW s \in Sweeps, Skip(s)
      PROVE  Ledger'
  <2>1. Working(s) /\ Current(s) \in Periods
    BY <1>6, Hand DEF Skip, Working, IInv, Ledger
  <2>2. inbox[Current(s)] = 0
    <3>1. delivery[Current(s)].payload = Nothing
      BY <1>6 DEF Skip
    <3>2. accepted[Current(s)] # Nothing => accepted[Current(s)].body # Nothing
      BY <2>1, DeliveryAssumption DEF IInv, TypeOK, Keys
    <3>3. QED BY <2>1, <3>1, <3>2 DEF IInv, Ledger, AcceptedIsStored
  <2>3. QED BY <1>6, <2>1, <2>2, CloseStep DEF Skip
<1>7. ASSUME NEW s \in Sweeps, MarkSent(s)
      PROVE  Ledger'
  <2>1. Working(s) /\ inbox[Current(s)] > 0
    BY <1>7 DEF MarkSent, Working, IInv, Ledger, Prepared
  <2>2. QED BY <1>7, <2>1, CloseStep DEF MarkSent
<1>8. ASSUME NEW s \in Sweeps, MarkFailed(s)
      PROVE  Ledger'
  <2>1. Working(s)
    BY <1>8 DEF MarkFailed, Working
  <2>2. QED BY <1>8, <2>1, CloseStep DEF MarkFailed
<1>9. ASSUME UNCHANGED <<delivery, provider, sweeps>>
      PROVE  Ledger'
  BY <1>9, AsideStep DEF IInv
<1>10. ASSUME NEW u \in Users, Practise(u) \/ Suppress(u) \/ Unsuppress(u) \/ \E z \in Zones : Travel(u, z)
       PROVE  Ledger'
  BY <1>9, <1>10 DEF Practise, Suppress, Unsuppress, Travel
<1>11. ASSUME Tick \/ UNCHANGED vars
       PROVE  Ledger'
  BY <1>9, <1>11 DEF Tick, vars
<1>12. Ledger'
  BY NextCases, <1>2, <1>3, <1>4, <1>5, <1>6, <1>7, <1>8, <1>10, <1>11
<1>13. QED BY <1>1, <1>12 DEF IInv

LEMMA InvInit == Init => IInv
<1> SUFFICES ASSUME Init PROVE IInv
  OBVIOUS
<1>1. TypeOK
  BY DeliveryAssumption DEF Init, TypeOK
<1>2. Ledger
  BY DEF Init, Ledger, IdleIsEmpty, PeriodHasOneSender, HandHasRow, Working, Prepared,
         AcceptedIsStored, SettledIsHonest
<1>3. QED BY <1>1, <1>2 DEF IInv

\* The invariant holds of every behaviour.
THEOREM Invariant == Spec => []IInv
BY InvInit, InvNext, PTL DEF Spec

\* Types, for every number of users, sweeps, attempts and clock units: a row
\* never exceeds the budget of attempts (claim_period), nor a tick its cap.
THEOREM DeliveryTypes == Spec => []TypeOK
BY Invariant, PTL DEF IInv

\* claim_period makes its caller the one sender of a period, however sweeps
\* overlap, die and retry.
THEOREM OneSender == Spec => []PeriodHasOneSender
BY Invariant, PTL DEF IInv, Ledger

\* The provider never sees a key it remembers with another payload (the stored
\* payload of deliveries.py).
THEOREM SamePayload == Spec => []RetriesRepeatThePayload
<1>1. IInv => RetriesRepeatThePayload
  <2> SUFFICES ASSUME IInv, NEW s \in Sweeps, pc[s] = "send", accepted[Current(s)] # Nothing
               PROVE  accepted[Current(s)].body = message[s]
    BY DEF RetriesRepeatThePayload
  <2>1. Current(s) \in Periods
    BY Hand DEF IInv, Ledger, Working
  <2>2. QED BY <2>1 DEF IInv, Ledger, Prepared, AcceptedIsStored
<1>2. QED BY <1>1, Invariant, PTL

\* 'sent' was delivered; 'skipped', and a period nobody claimed, was not.
THEOREM HonestLedger == Spec => []SettledIsHonest
BY Invariant, PTL DEF IInv, Ledger

-----------------------------------------------------------------------------
(* The refinement.  The provider forgets a key after KEY_TTL; a period, as  *)
(* long as users may have it, spans a day and the spread of the offsets.    *)

\* The memory of a key outlives every period it can be used in.
KeyOutlivesPeriod == \A y, z \in Zones : DAY + y - z <= KEY_TTL

\* The local date of some offset at an instant.
IsDateOf(p, t) == \E z \in Zones : (t + z) \div DAY = p[2]

\* A candidate is of today, whatever its user does; a key was first used on a
\* day of its period, and once.
UsedInItsPeriod ==
    /\ \A s \in Sweeps : \A p \in todo[s] : IsDateOf(p, now)
    /\ \A p \in Periods :
          /\ accepted[p] # Nothing => accepted[p].at <= now /\ IsDateOf(p, accepted[p].at)
          /\ inbox[p] <= 1

\* Two instants of one local day, of whatever offsets, are less than a day and
\* the difference of the offsets apart.
LEMMA SameDay ==
    ASSUME NEW t \in Nat, NEW n \in Nat, NEW y \in Zones, NEW z \in Zones,
           (t + y) \div DAY = (n + z) \div DAY
    PROVE  n - t < DAY + y - z
<1> DEFINE q == (t + y) \div DAY
<1>1. y \in Nat /\ z \in Nat /\ DAY \in Nat \ {0}
  BY DeliveryAssumption
<1>2. t + y \in Nat /\ n + z \in Nat
  BY <1>1
<1>3. \A a \in Nat : /\ a \div DAY \in Int
                     /\ DAY * (a \div DAY) <= a /\ a < DAY * (a \div DAY) + DAY
  BY <1>1, Z3
<1>4. DAY * q <= t + y /\ n + z < DAY * q + DAY
  BY <1>2, <1>3
<1>5. DAY * q \in Int
  BY <1>1, <1>2, <1>3
<1>6. QED BY <1>1, <1>4, <1>5

\* A key the provider knows is one it still remembers, so a message it delivers
\* is the first of its period.
LEMMA FirstOrCollapsed ==
    ASSUME KeyOutlivesPeriod, IInv, UsedInItsPeriod, NEW s \in Sweeps, Send(s)
    PROVE  \/ UNCHANGED provider
           \/ inbox[Current(s)] = 0 /\ Deliver(Current(s), message[s])
<1> DEFINE p == Current(s)
<1>1. p \in Periods /\ p \in todo[s]
  BY Hand DEF Send, Working, IInv, Ledger
<1>2. CASE accepted[p] = Nothing
  BY <1>1, <1>2 DEF Send, Accepts, Remembered, IInv, Ledger, AcceptedIsStored
<1>3. CASE accepted[p] # Nothing
  <2>1. accepted[p].at \in Nat /\ now \in Nat
    BY <1>1, <1>3, DeliveryAssumption DEF IInv, TypeOK, Keys
  <2>2. PICK y \in Zones : (accepted[p].at + y) \div DAY = p[2]
    BY <1>1, <1>3 DEF UsedInItsPeriod, IsDateOf
  <2>3. PICK z \in Zones : (now + z) \div DAY = p[2]
    BY <1>1 DEF UsedInItsPeriod, IsDateOf
  <2>4. now - accepted[p].at < DAY + y - z
    BY <2>1, <2>2, <2>3, SameDay
  <2>5. now < accepted[p].at + KEY_TTL
    <3>1. DAY + y - z <= KEY_TTL /\ y \in Nat /\ z \in Nat /\ DAY \in Nat /\ KEY_TTL \in Nat
      BY DeliveryAssumption DEF KeyOutlivesPeriod
    <3>2. QED BY <2>1, <2>4, <3>1
  <2>6. Remembered(p)
    BY <1>3, <2>5 DEF Remembered
  <2>7. QED BY <2>6 DEF Send, Accepts
<1>4. QED BY <1>2, <1>3

LEMMA UsedInit == Init => UsedInItsPeriod
BY DEF Init, UsedInItsPeriod

LEMMA UsedNext ==
    ASSUME KeyOutlivesPeriod, IInv, UsedInItsPeriod, [Next]_vars
    PROVE  UsedInItsPeriod'
<1>1. ASSUME UNCHANGED <<now, provider>>, \A t \in Sweeps : todo'[t] \subseteq todo[t]
      PROVE  UsedInItsPeriod'
  BY <1>1 DEF UsedInItsPeriod, IsDateOf, provider
<1>2. ASSUME NEW s \in Sweeps, Scan(s)
      PROVE  UsedInItsPeriod'
  <2>1. \A p \in Candidates : IsDateOf(p, now)
    <3> SUFFICES ASSUME NEW u \in Batch PROVE IsDateOf(<<u, Date(u)>>, now)
      BY DEF Candidates
    <3>1. u \in Users
      BY DEF Batch, Mailable
    <3>2. zone[u] \in Zones
      BY <3>1 DEF IInv, TypeOK
    <3>3. QED BY <3>2 DEF IsDateOf, Date
  <2>2. \A t \in Sweeps : \A p \in todo'[t] : IsDateOf(p, now)
    BY <1>2, <2>1 DEF Scan, UsedInItsPeriod, IInv, TypeOK
  <2>3. now' = now /\ accepted' = accepted /\ inbox' = inbox
    BY <1>2 DEF Scan, provider
  <2>4. QED BY <2>2, <2>3 DEF UsedInItsPeriod, IsDateOf
<1>3. ASSUME NEW s \in Sweeps, Claim(s) \/ Render(s) \/ Refuse(s)
      PROVE  UsedInItsPeriod'
  BY <1>1, <1>3 DEF Claim, Render, Refuse
<1>4. ASSUME NEW s \in Sweeps, Pass(s) \/ Skip(s) \/ MarkSent(s) \/ MarkFailed(s) \/ Unhandled(s)
      PROVE  UsedInItsPeriod'
  <2>1. UNCHANGED <<now, provider>> /\ todo' = [todo EXCEPT ![s] = @ \ {Current(s)}]
    BY <1>4 DEF Pass, Skip, MarkSent, MarkFailed, Unhandled, Continue, Dealt
  <2>2. QED BY <1>1, <2>1 DEF IInv, TypeOK
<1>5. ASSUME NEW s \in Sweeps, EndSweep(s) \/ Crash(s)
      PROVE  UsedInItsPeriod'
  <2>1. UNCHANGED <<now, provider>> /\ todo' = [todo EXCEPT ![s] = {}]
    BY <1>5 DEF EndSweep, Crash, Stop
  <2>2. QED BY <1>1, <2>1 DEF IInv, TypeOK
<1>6. ASSUME NEW s \in Sweeps, Send(s)
      PROVE  UsedInItsPeriod'
  <2>1. todo' = todo /\ now' = now
    BY <1>6 DEF Send
  <2>2. CASE UNCHANGED provider
    BY <1>1, <2>1, <2>2
  <2>3. CASE inbox[Current(s)] = 0 /\ Deliver(Current(s), message[s])
    <3>1. Current(s) \in Periods /\ IsDateOf(Current(s), now) /\ now \in Nat
      BY <1>6, Hand DEF Send, Working, IInv, Ledger, UsedInItsPeriod, TypeOK
    <3>2. /\ accepted'[Current(s)] = [at |-> now, body |-> message[s]] /\ inbox'[Current(s)] = 1
          /\ \A q \in Periods \ {Current(s)} : accepted'[q] = accepted[q] /\ inbox'[q] = inbox[q]
      BY <2>3, <3>1 DEF Deliver, IInv, TypeOK
    <3>3. QED BY <2>1, <3>1, <3>2 DEF UsedInItsPeriod, IsDateOf
  <2>4. QED BY <1>6, <2>2, <2>3, FirstOrCollapsed
<1>7. ASSUME NEW u \in Users, Practise(u) \/ Suppress(u) \/ Unsuppress(u) \/ \E z \in Zones : Travel(u, z)
      PROVE  UsedInItsPeriod'
  BY <1>1, <1>7 DEF Practise, Suppress, Unsuppress, Travel, sweeps
<1>8. ASSUME Tick
      PROVE  UsedInItsPeriod'
  <2>1. \A s \in Sweeps : todo'[s] = {}
    BY <1>8 DEF Tick, sweeps, IInv, Ledger, IdleIsEmpty
  <2>2. \A p \in Periods : accepted[p] # Nothing => accepted[p].at <= now'
    BY <1>8, DeliveryAssumption DEF Tick, IInv, TypeOK, UsedInItsPeriod, Keys
  <2>3. accepted' = accepted /\ inbox' = inbox
    BY <1>8 DEF Tick, provider
  <2>4. QED BY <2>1, <2>2, <2>3 DEF UsedInItsPeriod, IsDateOf
<1>9. ASSUME UNCHANGED vars
      PROVE  UsedInItsPeriod'
  BY <1>1, <1>9 DEF vars, sweeps
<1>10. QED
  BY NextCases, <1>2, <1>3, <1>4, <1>5, <1>6, <1>7, <1>8, <1>9

\* What a write to one row does to the set of settled periods.
LEMMA SettledMoves ==
    ASSUME TypeOK, NEW p \in Periods,
           \A q \in Periods \ {p} : delivery'[q] = delivery[q]
    PROVE  /\ (p \in Settled' <=> p \in Settled) => Settled' = Settled
           /\ p \in Settled' => Settled' = Settled \cup {p}
BY DEF Settled

\* A step on an open row that does not close it.
LEMMA StaysOpen ==
    ASSUME NEW p \in Periods,
           delivery[p] = Nothing \/ delivery[p].status \in {"claimed", "failed"},
           delivery'[p].status \in {"claimed", "failed"}
    PROVE  p \notin Settled /\ p \notin Settled'
BY DEF Settled

\* Every step receives, settles, or changes nothing the promise is about.
LEMMA OnceNext ==
    ASSUME KeyOutlivesPeriod, IInv, UsedInItsPeriod, [Next]_vars
    PROVE  [Once!Next]_<<inbox, Settled>>
<1>1. ASSUME UNCHANGED <<delivery, inbox>>
      PROVE  UNCHANGED <<inbox, Settled>>
  BY <1>1 DEF Settled
<1>2. ASSUME NEW s \in Sweeps, Scan(s) \/ Pass(s) \/ EndSweep(s) \/ Refuse(s) \/ Crash(s) \/ Unhandled(s)
      PROVE  UNCHANGED <<inbox, Settled>>
  BY <1>1, <1>2 DEF Scan, Pass, EndSweep, Refuse, Crash, Unhandled, provider
<1>3. ASSUME NEW s \in Sweeps, Claim(s)
      PROVE  UNCHANGED <<inbox, Settled>>
  <2> DEFINE p == Current(s)
  <2>1. p \in Periods /\ Claimable(p) /\ Claimed(p) \in Rows
    BY <1>3, CurrentIsLeft, ClaimedIsRow DEF Claim, IInv, TypeOK
  <2>2. Claimed(p).status = "claimed"
    <3>1. delivery[p] # Nothing => delivery[p] \in Rows
      BY <2>1, RowType DEF IInv
    <3>2. QED BY <2>1, <3>1 DEF Claimed, Rows
  <2>3. delivery'[p] = Claimed(p) /\ \A q \in Periods \ {p} : delivery'[q] = delivery[q]
    BY <1>3, <2>1 DEF Claim, IInv, TypeOK
  <2>4. p \notin Settled /\ p \notin Settled'
    BY <2>1, <2>2, <2>3, StaysOpen DEF Claimable
  <2>5. QED BY <1>3, <2>1, <2>3, <2>4, SettledMoves DEF Claim, provider, IInv
<1>4. ASSUME NEW s \in Sweeps, Render(s)
      PROVE  UNCHANGED <<inbox, Settled>>
  <2> DEFINE p == Current(s)
  <2>1. p \in Periods /\ delivery[p] \in Rows /\ delivery[p].status = "claimed"
    BY <1>4, Hand DEF Render, Working, IInv, Ledger
  <2>2. CASE delivery' = delivery
    BY <1>1, <1>4, <2>2 DEF Render, provider
  <2>3. CASE \E b \in Bodies : delivery' = [delivery EXCEPT ![p].payload = b]
    <3>1. delivery'[p].status = "claimed" /\ \A q \in Periods \ {p} : delivery'[q] = delivery[q]
      BY <2>1, <2>3 DEF Rows, IInv, TypeOK
    <3>2. p \notin Settled /\ p \notin Settled'
      BY <2>1, <3>1, StaysOpen
    <3>3. QED BY <1>4, <2>1, <3>1, <3>2, SettledMoves DEF Render, provider, IInv
  <2>4. QED BY <1>4, <2>2, <2>3 DEF Render
<1>5. ASSUME NEW s \in Sweeps, NEW status \in {"sent", "failed", "skipped"}, Working(s),
             delivery' = [delivery EXCEPT ![Current(s)].status = status], UNCHANGED inbox
      PROVE  IF status = "failed" THEN UNCHANGED <<inbox, Settled>> ELSE Once!Settle(Current(s))
  <2> DEFINE p == Current(s)
  <2>1. p \in Periods /\ delivery[p] \in Rows /\ delivery[p] # Nothing /\ delivery[p].status = "claimed"
    BY <1>5, Hand DEF IInv, Ledger
  <2>2. /\ delivery'[p] \in Rows /\ delivery'[p].status = status
        /\ \A q \in Periods \ {p} : delivery'[q] = delivery[q]
    BY <1>5, <2>1 DEF Rows, IInv, TypeOK
  <2>3. CASE status = "failed"
    BY <1>5, <2>1, <2>2, <2>3, StaysOpen, SettledMoves DEF IInv
  <2>4. CASE status # "failed"
    <3>1. p \notin Settled /\ p \in Settled'
      BY <2>1, <2>2, <2>4, SentinelAssumption DEF Settled
    <3>2. Settled' = Settled \cup {p}
      BY <2>1, <2>2, <3>1, SettledMoves DEF IInv
    <3>3. QED BY <1>5, <2>4, <3>1, <3>2 DEF Once!Settle
  <2>5. QED BY <2>3, <2>4
<1>6. ASSUME NEW s \in Sweeps, Skip(s) \/ MarkSent(s)
      PROVE  Once!Next
  <2>1. Working(s) /\ Current(s) \in Periods /\ UNCHANGED inbox
    BY <1>6, Hand DEF Skip, MarkSent, Working, IInv, Ledger, provider
  <2>2. Once!Settle(Current(s))
    BY <1>5, <1>6, <2>1 DEF Skip, MarkSent
  <2>3. QED BY <2>1, <2>2 DEF Once!Next
<1>7. ASSUME NEW s \in Sweeps, MarkFailed(s)
      PROVE  UNCHANGED <<inbox, Settled>>
  <2>1. Working(s) /\ UNCHANGED inbox
    BY <1>7 DEF MarkFailed, Working, provider
  <2>2. QED BY <1>5, <1>7, <2>1 DEF MarkFailed
<1>8. ASSUME NEW s \in Sweeps, Send(s)
      PROVE  Once!Next \/ UNCHANGED <<inbox, Settled>>
  <2>1. /\ Current(s) \in Periods /\ delivery[Current(s)].status = "claimed"
        /\ delivery' = delivery
    BY <1>8, Hand DEF Send, Working, IInv, Ledger
  <2>2. CASE UNCHANGED provider
    BY <1>1, <2>1, <2>2 DEF provider
  <2>3. CASE inbox[Current(s)] = 0 /\ Deliver(Current(s), message[s])
    <3>1. Current(s) \notin Settled /\ Settled' = Settled
      BY <2>1 DEF Settled
    <3>2. inbox' = [inbox EXCEPT ![Current(s)] = 1]
      BY <2>1, <2>3 DEF Deliver, IInv, TypeOK
    <3>3. QED BY <2>1, <2>3, <3>1, <3>2 DEF Once!Next, Once!Receive
  <2>4. QED BY <1>8, <2>2, <2>3, FirstOrCollapsed
<1>9. ASSUME NEW u \in Users, Practise(u) \/ Suppress(u) \/ Unsuppress(u) \/ \E z \in Zones : Travel(u, z)
      PROVE  UNCHANGED <<inbox, Settled>>
  BY <1>1, <1>9 DEF Practise, Suppress, Unsuppress, Travel, provider
<1>10. ASSUME Tick \/ UNCHANGED vars
       PROVE  UNCHANGED <<inbox, Settled>>
  BY <1>1, <1>10 DEF Tick, vars, provider
<1>11. QED
  BY NextCases, <1>2, <1>3, <1>4, <1>6, <1>7, <1>8, <1>9, <1>10

LEMMA OnceInit == Init => Once!Init
BY DEF Init, Once!Init, Settled

\* The strengthened invariant of the refinement.
LEMMA InvariantAndUsed == ASSUME KeyOutlivesPeriod PROVE Spec => [](IInv /\ UsedInItsPeriod)
BY InvInit, InvNext, UsedInit, UsedNext, PTL DEF Spec

\* The sweeps implement the promise of D-137: at most one message of a period,
\* and none once it is settled, as long as the provider's memory of a key
\* outlives the period.
THEOREM SendsOnceWhileKeysLive == ASSUME KeyOutlivesPeriod PROVE Spec => SendsOnce
<1>1. Init => Once!Init
  BY OnceInit
<1>2. IInv /\ UsedInItsPeriod /\ [Next]_vars => [Once!Next]_<<inbox, Settled>>
  BY OnceNext
<1>3. QED
  BY <1>1, <1>2, InvariantAndUsed, PTL DEF Spec, SendsOnce, Once!Spec

\* Then a user has at most one message of a period ("Retries are bounded to the
\* period AND to 24h").
THEOREM DeliveredOnceWhileKeysLive == ASSUME KeyOutlivesPeriod PROVE Spec => []DeliveredAtMostOnce
<1>1. UsedInItsPeriod => DeliveredAtMostOnce
  BY DEF UsedInItsPeriod, DeliveredAtMostOnce
<1>2. QED BY <1>1, InvariantAndUsed, PTL
=============================================================================
