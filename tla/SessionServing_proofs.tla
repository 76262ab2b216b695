------------------------ MODULE SessionServing_proofs ------------------------
(***************************************************************************)
(* Theorems about SessionServing, for any number of requests and any set   *)
(* of exercises.                                                           *)
(*   ServingTyping      Spec => []TypeOK                                   *)
(*   BuildsAreSerial    Spec => []InsertNeverCollides                      *)
(*   DayHasOneSession   with an exercise: Spec => []OneSessionPerDay       *)
(*   ClosedWhenDone     Spec => []CompletedIsEarned                        *)
(*   PullIsThorough     Spec => []QuietPullIsThorough                      *)
(* The advisory lock is held from the second read to the insert, so what   *)
(* the read found is still so at the insert (LockHeld, AbsentAtInsert).    *)
(***************************************************************************)
EXTENDS SessionServing, TLAPS

-----------------------------------------------------------------------------
\* A request that has slots to persist, cache or serve has at least one.
NeverEmpty == \A r \in Requests : pc[r] \in {"insert", "cache", "serve"} => slots[r] # {}

TypeInv == TypeOK /\ NeverEmpty

\* A new session of a non-empty sample is a session.
LEMMA SessionTypes ==
    ASSUME NEW s \in SUBSET Exercises, s # {}
    PROVE  Session(s) \in Sessions /\ Session(s) # Nothing /\ Session(s).slots = s
<1>1. Session(s) \in [slots : SUBSET Exercises, completed : BOOLEAN]
  BY DEF Session
<1>2. Session(s) \in Sessions /\ Session(s).slots = s
  BY DEF Session, Sessions
<1>3. QED
  BY <1>1, <1>2, ServingAssumption

\* Closing a session leaves its slots alone.
LEMMA ClosingTypes ==
    ASSUME NEW s \in Sessions
    PROVE  /\ [s EXCEPT !.completed = TRUE] \in Sessions
           /\ [s EXCEPT !.completed = TRUE] # Nothing
           /\ [s EXCEPT !.completed = TRUE].slots = s.slots
BY ServingAssumption DEF Sessions

\* Every step keeps the types, action by action.
LEMMA TypesAreInductive == TypeInv /\ [Next]_vars => TypeInv'
<1> SUFFICES ASSUME TypeOK, NeverEmpty, [Next]_vars PROVE TypeInv'
  BY DEF TypeInv
<1> USE DEF TypeInv, NeverEmpty
<1>1. ASSUME NEW r \in Requests, ReadCache(r) PROVE TypeInv'
  <2>1. CASE cache # Nothing
    <3>1. cache \in (SUBSET Exercises) \ {{}}
      BY <2>1 DEF TypeOK
    <3>2. QED
      BY <1>1, <2>1, <3>1 DEF TypeOK, ReadCache, Goto, Take, Ended
  <2>2. CASE cache = Nothing
    BY <1>1, <2>2 DEF TypeOK, ReadCache, Goto, Ended
  <2>3. QED
    BY <2>1, <2>2
<1>2. ASSUME NEW r \in Requests, ReadRow(r) PROVE TypeInv'
  <2>1. CASE row # Nothing
    <3>1. row \in Sessions /\ row.slots \in SUBSET Exercises /\ row.slots # {}
      BY <2>1 DEF TypeOK, Sessions
    <3>2. QED
      BY <1>2, <2>1, <3>1 DEF TypeOK, ReadRow, Goto, Take, Ended, pulls
  <2>2. CASE row = Nothing
    BY <1>2, <2>2 DEF TypeOK, ReadRow, Goto, Ended, pulls
  <2>3. QED
    BY <2>1, <2>2
<1>3. ASSUME NEW r \in Requests, LockBuild(r) PROVE TypeInv'
  BY <1>3 DEF TypeOK, LockBuild, Goto, Ended, pulls
<1>4. ASSUME NEW r \in Requests, Build(r) PROVE TypeInv'
  <2>1. CASE row # Nothing
    <3>1. row \in Sessions /\ row.slots \in SUBSET Exercises /\ row.slots # {}
      BY <2>1 DEF TypeOK, Sessions
    <3>2. QED
      BY <1>4, <2>1, <3>1 DEF TypeOK, Build, Goto, Take, Ended, pulls
  <2>2. CASE row = Nothing
    <3>1. PICK s \in SUBSET Exercises : s # {} /\ Take(r, s)
      BY <1>4, <2>2 DEF Build, Samples, Live
    <3>2. QED
      BY <1>4, <2>2, <3>1 DEF TypeOK, Build, Goto, Take, Ended, pulls
  <2>3. QED
    BY <2>1, <2>2
<1>5. ASSUME NEW r \in Requests, BuildEmpty(r) PROVE TypeInv'
  BY <1>5 DEF TypeOK, BuildEmpty, Goto, Unlocked, Ended, pulls
<1>6. ASSUME NEW r \in Requests, Insert(r) PROVE TypeInv'
  <2>1. slots[r] \in SUBSET Exercises /\ slots[r] # {}
    BY <1>6 DEF TypeOK, Insert
  <2>2. Session(slots[r]) \in Sessions
    BY <2>1, SessionTypes
  <2>3. QED
    BY <1>6, <2>2 DEF TypeOK, Insert, Goto, Unlocked, Ended, pulls
<1>7. ASSUME NEW r \in Requests, SetCache(r) PROVE TypeInv'
  BY <1>7 DEF TypeOK, SetCache, Goto, Ended, pulls
<1>8. ASSUME NEW r \in Requests, Serve(r) PROVE TypeInv'
  BY <1>8 DEF TypeOK, Serve, Goto, Unlocked, Ended, pulls
<1>9. ASSUME NEW r \in Requests, NEW e \in Exercises, Attempt(r, e) PROVE TypeInv'
  BY <1>9 DEF TypeOK, Attempt, Goto, Unlocked, Ended, pulls
<1>10. ASSUME NEW r \in Requests, NEW e \in Exercises, Finish(r, e) PROVE TypeInv'
  <2>1. adding' = [adding EXCEPT ![r] = {e}] /\ pc' = [pc EXCEPT ![r] = "closing"]
    BY <1>10 DEF Finish, Goto
  <2>2. UNCHANGED <<status, row, cache, attempted, building, slots, pulls>>
    BY <1>10 DEF Finish
  <2>3. QED
    BY <2>1, <2>2 DEF TypeOK, Ended, pulls
<1>11. ASSUME NEW r \in Requests, Close(r) PROVE TypeInv'
  <2>1. UNCHANGED <<status, cache, slots, pulls>> /\ Unlocked(r)
        /\ adding' = [adding EXCEPT ![r] = {}]
    BY <1>11 DEF Close
  <2>2. CASE row # Nothing
    <3>1. [row EXCEPT !.completed = TRUE] \in Sessions
      BY <2>2, ClosingTypes DEF TypeOK
    <3>2. row' \in Sessions /\ pc' = [pc EXCEPT ![r] = "completed"]
      BY <1>11, <2>2, <3>1 DEF Close, Goto
    <3>3. attempted' \subseteq Exercises
      BY <1>11, <2>2 DEF TypeOK, Close
    <3>4. QED
      BY <2>1, <3>2, <3>3 DEF TypeOK, Unlocked, Ended, pulls
  <2>3. CASE row = Nothing
    <3>1. pc' = [pc EXCEPT ![r] = "failed"] /\ UNCHANGED <<attempted, row>>
      BY <1>11, <2>3 DEF Close, Goto
    <3>2. QED
      BY <2>1, <3>1 DEF TypeOK, Unlocked, Ended, pulls
  <2>4. QED
    BY <2>2, <2>3
<1>12. ASSUME NEW e \in Exercises, PullSelect(e) PROVE TypeInv'
  <2>1. (row # Nothing /\ ~row.completed /\ e \in row.slots) \in BOOLEAN
    OBVIOUS
  <2>2. quiet' \in BOOLEAN
    BY <1>12 DEF PullSelect
  <2>3. QED
    BY <1>12, <2>1, <2>2 DEF TypeOK, PullSelect, request
<1>13. ASSUME NEW e \in Exercises, PullCommit(e) PROVE TypeInv'
  BY <1>13 DEF TypeOK, PullCommit, request
<1>14. ASSUME NEW e \in Exercises, PullKeys(e) PROVE TypeInv'
  BY <1>14 DEF TypeOK, PullKeys, request
<1>15. CASE UNCHANGED vars
  BY <1>15 DEF TypeOK, vars, request, pulls
<1>16. QED
  BY <1>1, <1>2, <1>3, <1>4, <1>5, <1>6, <1>7, <1>8, <1>9, <1>10, <1>11, <1>12, <1>13,
     <1>14, <1>15 DEF Next, Proceed

\* Nothing is served yet.
LEMMA TypesInitially == Init => TypeInv
BY DEF Init, TypeInv, TypeOK, NeverEmpty, Ended

\* ServingTyping: every reachable state is well typed; in particular neither
\* the row nor the cached copy is ever an empty session (D-59), whatever the
\* pulls leave to sample.
THEOREM ServingTyping == Spec => []TypeOK
<1>1. TypeInv => TypeOK
  BY DEF TypeInv
<1>2. QED
  BY <1>1, TypesInitially, TypesAreInductive, PTL DEF Spec

-----------------------------------------------------------------------------
\* Who is between the second read and the insert holds the lock.
LockHeld == \A r \in Requests : pc[r] \in {"build", "insert"} => building = r

\* InsertNeverCollides, as a fact that stays true.
SerialInv == TypeInv /\ LockHeld /\ InsertNeverCollides

\* A step of another request, or of a pull, leaves whoever is about to insert
\* without a row: only the holder of the lock creates one.
LEMMA SerialIsInductive == SerialInv /\ [Next]_vars => SerialInv'
<1> SUFFICES ASSUME TypeOK, LockHeld, InsertNeverCollides, TypeInv', [Next]_vars
             PROVE  LockHeld' /\ InsertNeverCollides'
  BY TypesAreInductive DEF SerialInv, TypeInv
<1>0. Nothing \notin Requests
  BY ServingAssumption
<1> USE <1>0 DEF LockHeld, InsertNeverCollides
<1>1. ASSUME NEW r \in Requests, ReadCache(r) PROVE LockHeld' /\ InsertNeverCollides'
  BY <1>1 DEF TypeOK, ReadCache, Goto
<1>2. ASSUME NEW r \in Requests, ReadRow(r) PROVE LockHeld' /\ InsertNeverCollides'
  BY <1>2 DEF TypeOK, ReadRow, Goto
<1>3. ASSUME NEW r \in Requests, LockBuild(r) PROVE LockHeld' /\ InsertNeverCollides'
  BY <1>3 DEF TypeOK, LockBuild, Goto
<1>4. ASSUME NEW r \in Requests, Build(r) PROVE LockHeld' /\ InsertNeverCollides'
  BY <1>4 DEF TypeOK, Build, Goto
<1>5. ASSUME NEW r \in Requests, BuildEmpty(r) PROVE LockHeld' /\ InsertNeverCollides'
  BY <1>5 DEF TypeOK, BuildEmpty, Goto, Unlocked
<1>6. ASSUME NEW r \in Requests, Insert(r) PROVE LockHeld' /\ InsertNeverCollides'
  <2>1. pc[r] = "insert" /\ building = r
    BY <1>6 DEF Insert
  <2>2. \A s \in Requests : pc[s] \in {"build", "insert"} => s = r
    BY <2>1
  <2>3. \A s \in Requests : pc'[s] \notin {"build", "insert"}
    BY <1>6, <2>2 DEF TypeOK, Insert, Goto
  <2>4. QED
    BY <2>3
<1>7. ASSUME NEW r \in Requests, SetCache(r) PROVE LockHeld' /\ InsertNeverCollides'
  BY <1>7 DEF TypeOK, SetCache, Goto
<1>8. ASSUME NEW r \in Requests, Serve(r) PROVE LockHeld' /\ InsertNeverCollides'
  BY <1>8 DEF TypeOK, Serve, Goto, Unlocked
<1>9. ASSUME NEW r \in Requests, NEW e \in Exercises, Attempt(r, e)
      PROVE  LockHeld' /\ InsertNeverCollides'
  BY <1>9 DEF TypeOK, Attempt, Goto, Unlocked
<1>10. ASSUME NEW r \in Requests, NEW e \in Exercises, Finish(r, e)
       PROVE  LockHeld' /\ InsertNeverCollides'
  BY <1>10 DEF TypeOK, Finish, Goto
<1>11. ASSUME NEW r \in Requests, Close(r) PROVE LockHeld' /\ InsertNeverCollides'
  <2>1. \A s \in Requests : pc'[s] \in {"build", "insert"} => s # r /\ pc'[s] = pc[s]
    BY <1>11 DEF TypeOK, Close, Goto
  <2>2. row = Nothing => row' = Nothing
    BY <1>11 DEF Close
  <2>3. LockHeld'
    BY <1>11, <2>1 DEF Close, Unlocked
  <2>4. QED
    BY <2>1, <2>2, <2>3
<1>12. ASSUME NEW e \in Exercises, PullSelect(e) PROVE LockHeld' /\ InsertNeverCollides'
  BY <1>12 DEF PullSelect, request
<1>13. ASSUME NEW e \in Exercises, PullCommit(e) PROVE LockHeld' /\ InsertNeverCollides'
  BY <1>13 DEF PullCommit, request
<1>14. ASSUME NEW e \in Exercises, PullKeys(e) PROVE LockHeld' /\ InsertNeverCollides'
  BY <1>14 DEF PullKeys, request
<1>15. CASE UNCHANGED vars
  BY <1>15 DEF vars, request
<1>16. QED
  BY <1>1, <1>2, <1>3, <1>4, <1>5, <1>6, <1>7, <1>8, <1>9, <1>10, <1>11, <1>12, <1>13,
     <1>14, <1>15 DEF Next, Proceed

\* Nobody builds yet.
LEMMA SerialInitially == Init => SerialInv
BY TypesInitially DEF Init, SerialInv, LockHeld, InsertNeverCollides

\* BuildsAreSerial: for any number of concurrent requests and pulls, the
\* INSERT of daily_sessions never meets a row, as the comment on its
\* IntegrityError branch says (D-122).
THEOREM BuildsAreSerial == Spec => []InsertNeverCollides
<1>1. SerialInv => InsertNeverCollides
  BY DEF SerialInv
<1>2. QED
  BY <1>1, SerialInitially, SerialIsInductive, PTL DEF Spec

-----------------------------------------------------------------------------
\* Until a pull begins every exercise is live, so there is one to sample.
AllLive == NoPull => \A e \in Exercises : status[e] = "live"

DayInv == SerialInv /\ AllLive /\ OneSessionPerDay

\* Every step keeps the day's one session, as long as no pull begins.
LEMMA DayIsInductive ==
    ASSUME Exercises # {}
    PROVE  DayInv /\ [Next]_vars => DayInv'
<1> SUFFICES ASSUME SerialInv, AllLive, OneSessionPerDay, SerialInv', [Next]_vars
             PROVE  AllLive' /\ OneSessionPerDay'
  BY SerialIsInductive DEF DayInv
<1>0. TypeOK /\ TypeOK' /\ InsertNeverCollides /\ NeverEmpty
  BY DEF SerialInv, TypeInv
<1> USE DEF AllLive, OneSessionPerDay, NoPull
<1>1. ASSUME NEW r \in Requests, ReadCache(r) PROVE AllLive' /\ OneSessionPerDay'
  BY <1>0, <1>1 DEF TypeOK, ReadCache, Goto, Take, Ended
<1>2. ASSUME NEW r \in Requests, ReadRow(r) PROVE AllLive' /\ OneSessionPerDay'
  BY <1>0, <1>2 DEF TypeOK, ReadRow, Goto, Take, Ended, pulls
<1>3. ASSUME NEW r \in Requests, LockBuild(r) PROVE AllLive' /\ OneSessionPerDay'
  BY <1>0, <1>3 DEF TypeOK, LockBuild, Goto, Ended, pulls
<1>4. ASSUME NEW r \in Requests, Build(r) PROVE AllLive' /\ OneSessionPerDay'
  <2>1. CASE row # Nothing
    BY <1>0, <1>4, <2>1 DEF TypeOK, Build, Goto, Take, Ended, pulls
  <2>2. CASE row = Nothing
    <3>1. PICK s \in SUBSET Exercises : Take(r, s)
      BY <1>4, <2>2 DEF Build, Samples, Live
    <3>2. QED
      BY <1>0, <1>4, <2>2, <3>1 DEF TypeOK, Build, Goto, Take, Ended, pulls
  <2>3. QED
    BY <2>1, <2>2
<1>5. ASSUME NEW r \in Requests, BuildEmpty(r) PROVE AllLive' /\ OneSessionPerDay'
  <2>1. ~NoPull
    BY <1>5 DEF BuildEmpty, Live
  <2>2. QED
    BY <1>5, <2>1 DEF BuildEmpty, pulls
<1>6. ASSUME NEW r \in Requests, Insert(r) PROVE AllLive' /\ OneSessionPerDay'
  <2>1. slots[r] \in SUBSET Exercises /\ slots[r] # {}
    BY <1>0, <1>6 DEF TypeOK, NeverEmpty, Insert
  <2>2. row' # Nothing /\ row'.slots = slots[r]
    BY <1>6, <2>1, SessionTypes DEF Insert
  <2>3. NoPull => \A s \in Requests : pc[s] \notin Ended \cup {"cache", "serve", "closing"}
    BY <1>6 DEF Insert
  <2>4. NoPull => cache = Nothing
    BY <1>6 DEF Insert
  <2>5. QED
    BY <1>0, <1>6, <2>2, <2>3, <2>4 DEF TypeOK, Insert, Goto, Ended, pulls
<1>7. ASSUME NEW r \in Requests, SetCache(r) PROVE AllLive' /\ OneSessionPerDay'
  BY <1>0, <1>7 DEF TypeOK, SetCache, Goto, Ended, pulls
<1>8. ASSUME NEW r \in Requests, Serve(r) PROVE AllLive' /\ OneSessionPerDay'
  BY <1>0, <1>8 DEF TypeOK, Serve, Goto, Ended, pulls
<1>9. ASSUME NEW r \in Requests, NEW e \in Exercises, Attempt(r, e)
      PROVE  AllLive' /\ OneSessionPerDay'
  BY <1>0, <1>9 DEF TypeOK, Attempt, Goto, Ended, pulls
<1>10. ASSUME NEW r \in Requests, NEW e \in Exercises, Finish(r, e)
       PROVE  AllLive' /\ OneSessionPerDay'
  BY <1>0, <1>10 DEF TypeOK, Finish, Goto, Ended, pulls
<1>11. ASSUME NEW r \in Requests, Close(r) PROVE AllLive' /\ OneSessionPerDay'
  <2>1. pc' = [pc EXCEPT ![r] = "completed"] \/ pc' = [pc EXCEPT ![r] = "failed"]
    BY <1>11 DEF Close, Goto
  <2>2. row # Nothing => row' # Nothing /\ row'.slots = row.slots
    BY <1>0, <1>11, ClosingTypes DEF TypeOK, Close
  <2>3. pc[r] = "closing" /\ UNCHANGED <<status, cache, slots, pull>>
    BY <1>11 DEF Close, pulls
  <2>4. QED
    BY <1>0, <2>1, <2>2, <2>3 DEF TypeOK, Ended
<1>12. ASSUME NEW e \in Exercises, PullSelect(e) PROVE AllLive' /\ OneSessionPerDay'
  BY <1>0, <1>12 DEF TypeOK, PullSelect
<1>13. ASSUME NEW e \in Exercises, PullCommit(e) PROVE AllLive' /\ OneSessionPerDay'
  BY <1>0, <1>13 DEF TypeOK, PullCommit
<1>14. ASSUME NEW e \in Exercises, PullKeys(e) PROVE AllLive' /\ OneSessionPerDay'
  BY <1>0, <1>14 DEF TypeOK, PullKeys
<1>15. CASE UNCHANGED vars
  BY <1>15 DEF vars, request, pulls
<1>16. QED
  BY <1>1, <1>2, <1>3, <1>4, <1>5, <1>6, <1>7, <1>8, <1>9, <1>10, <1>11, <1>12, <1>13,
     <1>14, <1>15 DEF Next, Proceed

\* The day begins with no session and every exercise live.
LEMMA DayInitially == Init => DayInv
BY SerialInitially DEF Init, DayInv, AllLive, OneSessionPerDay, Ended

\* DayHasOneSession: whatever the number of concurrent requests, until an
\* operator pulls an exercise all of them see the one committed session, and
\* so does the cache (D-17, D-122).
THEOREM DayHasOneSession ==
    ASSUME Exercises # {}
    PROVE  Spec => []OneSessionPerDay
<1>1. DayInv /\ [Next]_vars => DayInv'
  BY DayIsInductive
<1>2. DayInv => OneSessionPerDay
  BY DEF DayInv
<1>3. QED
  BY <1>1, <1>2, DayInitially, PTL DEF Spec

-----------------------------------------------------------------------------
(* What a pull nobody overlaps leaves behind.                              *)

UnderWay(e) == pull[e] \in {"delete", "keys"}

\* A pull that is not overlapped is the only thing under way.
OneAtATime ==
    \A e \in Exercises : UnderWay(e) =>
        /\ \A r \in Requests : pc[r] \in Ended \cup {"idle"}
        /\ \A f \in Exercises \ {e} : ~ UnderWay(f)

\* So what its SELECT found is still so when it deletes, and the row it found
\* is gone when it comes to the keys.
FoundIsSo ==
    \A e \in Exercises :
        /\ pull[e] = "delete" => found[e] = (row # Nothing /\ ~row.completed /\ e \in row.slots)
        /\ pull[e] = "keys" => IF found[e] THEN row = Nothing
                               ELSE row = Nothing \/ row.completed \/ e \notin row.slots
        /\ pull[e] \in {"keys", "done"} => status[e] # "live"

\* Requests serve the row, and insert what is live; the cache is a copy of the
\* row, except between the deletion of the one and of the other.
CopiesAgree ==
    /\ \A r \in Requests :
          /\ pc[r] \in {"cache", "serve", "closing"} => row # Nothing /\ slots[r] = row.slots
          /\ pc[r] = "insert" => slots[r] \subseteq Live
    /\ cache # Nothing => \/ row # Nothing /\ cache = row.slots
                          \/ \E e \in Exercises : pull[e] = "keys" /\ found[e]

QuietFacts == OneAtATime /\ FoundIsSo /\ CopiesAgree /\ QuietPullIsThorough
QuietInv == TypeInv /\ (quiet => QuietFacts)

\* Once overlapped, always overlapped.
LEMMA QuietIsLost == [Next]_vars /\ quiet' => quiet
BY DEF Next, Proceed, ReadCache, ReadRow, LockBuild, Build, BuildEmpty, Insert, SetCache, Serve,
       Attempt, Finish, Close, PullSelect, PullCommit, PullKeys, pulls, vars

\* A request that goes on finds no pull under way, and what it does to the row
\* and the cache is all that can disturb the pulls that are done.
LEMMA RequestStep ==
    ASSUME TypeInv, TypeInv', QuietFacts, quiet, quiet', NEW r \in Requests,
           UNCHANGED <<status, pull, found>>, \A e \in Exercises : ~ UnderWay(e),
           \A s \in Requests \ {r} : pc'[s] = pc[s] /\ slots'[s] = slots[s],
           CopiesAgree',
           \/ row' = row
           \/ row = Nothing /\ row'.slots \subseteq Live
           \/ row # Nothing /\ row' # Nothing /\ row'.slots = row.slots /\ row'.completed,
           cache' # Nothing => row' # Nothing
    PROVE  QuietFacts'
<1>1. /\ status' = status /\ pull' = pull /\ found' = found
      /\ \A e \in Exercises : pull[e] \notin {"delete", "keys"}
  BY DEF UnderWay
<1>2. OneAtATime' /\ FoundIsSo'
  BY <1>1 DEF OneAtATime, FoundIsSo, UnderWay, QuietFacts
<1>3. cache' # Nothing => cache' = row'.slots
  BY <1>1 DEF CopiesAgree
<1>4. QuietPullIsThorough'
  <2> SUFFICES ASSUME NEW e \in Exercises, pull[e] = "done"
               PROVE  \/ row' # Nothing /\ row'.completed
                      \/ /\ cache' # Nothing => e \notin cache'
                         /\ row' # Nothing => e \notin row'.slots
    BY <1>1 DEF QuietPullIsThorough
  <2>1. CASE row' = row
    BY <1>3, <2>1 DEF QuietFacts, QuietPullIsThorough
  <2>2. CASE row = Nothing /\ row'.slots \subseteq Live
    BY <1>3, <2>2 DEF QuietFacts, FoundIsSo, Live
  <2>3. CASE row # Nothing /\ row' # Nothing /\ row'.slots = row.slots /\ row'.completed
    BY <2>3
  <2>4. QED BY <2>1, <2>2, <2>3
<1>5. QED BY <1>2, <1>4 DEF QuietFacts

\* What is not under way stays so.
LEMMA Undisturbed ==
    ASSUME QuietFacts, NEW r \in Requests, pc[r] \notin Ended \cup {"idle"}
    PROVE  \A e \in Exercises : ~ UnderWay(e)
BY DEF QuietFacts, OneAtATime

LEMMA QuietIsInductive == QuietInv /\ [Next]_vars => QuietInv'
<1> SUFFICES ASSUME TypeInv, TypeInv', quiet, quiet', QuietFacts, [Next]_vars
             PROVE  QuietFacts'
  BY TypesAreInductive, QuietIsLost DEF QuietInv
<1>1. ASSUME NEW r \in Requests, ReadCache(r) PROVE QuietFacts'
  <2>1. /\ \A e \in Exercises : ~ UnderWay(e)
        /\ pc[r] = "idle" /\ row' = row /\ cache' = cache
        /\ UNCHANGED <<status, pull, found>>
    BY <1>1 DEF ReadCache, NoneUnderWay, UnderWay
  <2>2. cache # Nothing => row # Nothing /\ cache = row.slots
    BY <2>1 DEF QuietFacts, CopiesAgree, UnderWay
  <2>3. \A s \in Requests \ {r} : pc'[s] = pc[s] /\ slots'[s] = slots[s]
    BY <1>1 DEF ReadCache, Goto, Take, TypeInv, TypeOK
  <2>4. (pc'[r] = "serve" /\ slots'[r] = row.slots /\ row # Nothing) \/ pc'[r] = "row"
    BY <1>1, <2>2 DEF ReadCache, Goto, Take, TypeInv, TypeOK
  <2>5. CopiesAgree'
    BY <2>1, <2>2, <2>3, <2>4 DEF QuietFacts, CopiesAgree, Live
  <2>6. QED BY <2>1, <2>2, <2>3, <2>5, RequestStep
<1>2. ASSUME NEW r \in Requests, ReadRow(r) \/ Build(r) PROVE QuietFacts'
  <2>1. /\ \A e \in Exercises : ~ UnderWay(e)
        /\ row' = row /\ cache' = cache /\ UNCHANGED <<status, pull, found>>
    BY <1>2, Undisturbed DEF ReadRow, Build, pulls, Ended
  <2>2. cache # Nothing => row # Nothing /\ cache = row.slots
    BY <2>1 DEF QuietFacts, CopiesAgree, UnderWay
  <2>3. \A s \in Requests \ {r} : pc'[s] = pc[s] /\ slots'[s] = slots[s]
    BY <1>2 DEF ReadRow, Build, Goto, Take, TypeInv, TypeOK
  <2>4. \/ pc'[r] = "cache" /\ slots'[r] = row.slots /\ row # Nothing
        \/ pc'[r] = "lock"
        \/ pc'[r] = "insert" /\ slots'[r] \subseteq Live
    BY <1>2 DEF ReadRow, Build, Samples, Goto, Take, TypeInv, TypeOK
  <2>5. CopiesAgree'
    BY <2>1, <2>2, <2>3, <2>4 DEF QuietFacts, CopiesAgree, Live
  <2>6. QED BY <2>1, <2>2, <2>3, <2>5, RequestStep
<1>3. ASSUME NEW r \in Requests, LockBuild(r) \/ BuildEmpty(r) \/ Serve(r)
                                 \/ \E e \in Exercises : Attempt(r, e) \/ Finish(r, e)
      PROVE  QuietFacts'
  <2>1. /\ \A e \in Exercises : ~ UnderWay(e)
        /\ row' = row /\ cache' = cache /\ UNCHANGED <<status, pull, found>>
    BY <1>3, Undisturbed DEF LockBuild, BuildEmpty, Serve, Attempt, Finish, pulls, Ended
  <2>2. cache # Nothing => row # Nothing /\ cache = row.slots
    BY <2>1 DEF QuietFacts, CopiesAgree, UnderWay
  <2>3. /\ \A s \in Requests \ {r} : pc'[s] = pc[s]
        /\ slots' = slots
        /\ \/ pc'[r] \in {"build", "served", "attempted"}
           \/ pc[r] = "serve" /\ pc'[r] = "closing"
    BY <1>3 DEF LockBuild, BuildEmpty, Serve, Attempt, Finish, Goto, TypeInv, TypeOK
  <2>4. CopiesAgree'
    BY <2>1, <2>2, <2>3 DEF QuietFacts, CopiesAgree, Live
  <2>5. QED BY <2>1, <2>2, <2>3, <2>4, RequestStep
<1>4. ASSUME NEW r \in Requests, Insert(r) PROVE QuietFacts'
  <2>1. /\ \A e \in Exercises : ~ UnderWay(e)
        /\ row = Nothing /\ cache' = cache /\ slots' = slots /\ UNCHANGED <<status, pull, found>>
    BY <1>4, Undisturbed DEF Insert, pulls, Ended
  <2>2. cache = Nothing
    BY <2>1 DEF QuietFacts, CopiesAgree, UnderWay
  <2>3. pc'[r] = "cache" /\ \A s \in Requests \ {r} : pc'[s] = pc[s]
    BY <1>4 DEF Insert, Goto, TypeInv, TypeOK
  <2>4. row' # Nothing /\ row'.slots = slots[r] /\ slots[r] \subseteq Live
    <3>1. slots[r] \in SUBSET Exercises /\ slots[r] # {}
      BY <1>4 DEF TypeInv, TypeOK, NeverEmpty, Insert
    <3>2. QED BY <1>4, <3>1, SessionTypes DEF Insert, QuietFacts, CopiesAgree
  <2>5. CopiesAgree'
    BY <2>1, <2>2, <2>3, <2>4 DEF QuietFacts, CopiesAgree, Live
  <2>6. QED BY <2>1, <2>2, <2>3, <2>4, <2>5, RequestStep
<1>5. ASSUME NEW r \in Requests, SetCache(r) PROVE QuietFacts'
  <2>1. /\ \A e \in Exercises : ~ UnderWay(e)
        /\ row' = row /\ cache' = slots[r] /\ slots' = slots /\ UNCHANGED <<status, pull, found>>
    BY <1>5, Undisturbed DEF SetCache, pulls, Ended
  <2>2. row # Nothing /\ slots[r] = row.slots
    BY <1>5 DEF SetCache, QuietFacts, CopiesAgree
  <2>3. pc'[r] = "serve" /\ \A s \in Requests \ {r} : pc'[s] = pc[s]
    BY <1>5 DEF SetCache, Goto, TypeInv, TypeOK
  <2>4. CopiesAgree'
    BY <2>1, <2>2, <2>3 DEF QuietFacts, CopiesAgree, Live
  <2>5. QED BY <2>1, <2>2, <2>3, <2>4, RequestStep
<1>6. ASSUME NEW r \in Requests, Close(r) PROVE QuietFacts'
  <2>1. /\ \A f \in Exercises : ~ UnderWay(f)
        /\ cache' = cache /\ slots' = slots /\ UNCHANGED <<status, pull, found>>
    BY <1>6, Undisturbed DEF Close, pulls, Ended
  <2>2. row # Nothing
    BY <1>6 DEF Close, QuietFacts, CopiesAgree
  <2>3. row' # Nothing /\ row'.slots = row.slots /\ row'.completed
    <3>1. row' = [row EXCEPT !.completed = TRUE] /\ row \in Sessions
      BY <1>6, <2>2 DEF Close, TypeInv, TypeOK
    <3>2. row'.completed
      BY <3>1 DEF Sessions
    <3>3. QED BY <3>1, <3>2, ClosingTypes
  <2>4. cache # Nothing => cache = row.slots
    BY <2>1 DEF QuietFacts, CopiesAgree, UnderWay
  <2>5. pc'[r] = "completed" /\ \A s \in Requests \ {r} : pc'[s] = pc[s]
    BY <1>6, <2>2 DEF Close, Goto, TypeInv, TypeOK
  <2>6. CopiesAgree'
    BY <2>1, <2>2, <2>3, <2>4, <2>5 DEF QuietFacts, CopiesAgree, Live
  <2>7. QED BY <2>1, <2>2, <2>3, <2>5, <2>6, RequestStep
<1>7. ASSUME NEW e \in Exercises, PullSelect(e) PROVE QuietFacts'
  <2>1. /\ \A f \in Exercises : ~ UnderWay(f)
        /\ \A r \in Requests : pc[r] \in Ended \cup {"idle"}
    BY <1>7 DEF PullSelect, NoneUnderWay, UnderWay
  <2>2. /\ pull[e] = "idle" /\ pull'[e] = "delete"
        /\ found'[e] = (row # Nothing /\ ~row.completed /\ e \in row.slots)
        /\ \A f \in Exercises \ {e} : pull'[f] = pull[f] /\ found'[f] = found[f]
        /\ row' = row /\ cache' = cache /\ status' = status /\ pc' = pc /\ slots' = slots
    BY <1>7 DEF PullSelect, request, TypeInv, TypeOK
  <2>3. OneAtATime'
    BY <2>1, <2>2 DEF OneAtATime, UnderWay
  <2>4. FoundIsSo'
    BY <2>2 DEF QuietFacts, FoundIsSo
  <2>5. CopiesAgree'
    BY <2>1, <2>2 DEF QuietFacts, CopiesAgree, UnderWay, Live
  <2>6. QuietPullIsThorough'
    BY <2>2 DEF QuietFacts, QuietPullIsThorough
  <2>7. QED BY <2>3, <2>4, <2>5, <2>6 DEF QuietFacts
<1>8. ASSUME NEW e \in Exercises, PullCommit(e) PROVE QuietFacts'
  <2>1. UnderWay(e) /\ pull[e] = "delete"
    BY <1>8 DEF PullCommit, UnderWay
  <2>2. /\ \A r \in Requests : pc[r] \in Ended \cup {"idle"}
        /\ \A f \in Exercises \ {e} : ~ UnderWay(f)
    BY <2>1 DEF QuietFacts, OneAtATime
  <2>3. /\ pull'[e] = "keys" /\ \A f \in Exercises \ {e} : pull'[f] = pull[f]
        /\ status'[e] = "pulled" /\ \A f \in Exercises \ {e} : status'[f] = status[f]
        /\ found' = found /\ cache' = cache /\ pc' = pc /\ slots' = slots
        /\ row' = IF found[e] THEN Nothing ELSE row
    BY <1>8 DEF PullCommit, request, TypeInv, TypeOK
  <2>4. found[e] = (row # Nothing /\ ~row.completed /\ e \in row.slots)
    BY <2>1 DEF QuietFacts, FoundIsSo
  <2>5. OneAtATime'
    BY <2>2, <2>3 DEF OneAtATime, UnderWay
  <2>6. FoundIsSo'
    BY <2>2, <2>3, <2>4 DEF QuietFacts, FoundIsSo, UnderWay
  <2>7. CopiesAgree'
    BY <2>2, <2>3 DEF QuietFacts, CopiesAgree, UnderWay, Ended
  <2>8. QuietPullIsThorough'
    BY <2>3, <2>4 DEF QuietFacts, QuietPullIsThorough
  <2>9. QED BY <2>5, <2>6, <2>7, <2>8 DEF QuietFacts
<1>9. ASSUME NEW e \in Exercises, PullKeys(e) PROVE QuietFacts'
  <2>1. UnderWay(e) /\ pull[e] = "keys"
    BY <1>9 DEF PullKeys, UnderWay
  <2>2. /\ \A r \in Requests : pc[r] \in Ended \cup {"idle"}
        /\ \A f \in Exercises \ {e} : ~ UnderWay(f)
    BY <2>1 DEF QuietFacts, OneAtATime
  <2>3. /\ pull'[e] = "done" /\ \A f \in Exercises \ {e} : pull'[f] = pull[f]
        /\ found' = found /\ row' = row /\ status' = status /\ pc' = pc /\ slots' = slots
        /\ cache' = IF found[e] THEN Nothing ELSE cache
    BY <1>9 DEF PullKeys, request, TypeInv, TypeOK
  <2>4. OneAtATime'
    BY <2>2, <2>3 DEF OneAtATime, UnderWay
  <2>5. FoundIsSo'
    BY <2>1, <2>3 DEF QuietFacts, FoundIsSo
  <2>6. cache' # Nothing => row # Nothing /\ cache' = row.slots
    BY <2>2, <2>3 DEF QuietFacts, CopiesAgree, UnderWay
  <2>7. CopiesAgree'
    BY <2>2, <2>3, <2>6 DEF CopiesAgree, Ended
  <2>8. IF found[e] THEN row = Nothing ELSE row = Nothing \/ row.completed \/ e \notin row.slots
    BY <2>1 DEF QuietFacts, FoundIsSo
  <2>9. QuietPullIsThorough'
    BY <2>3, <2>6, <2>8 DEF QuietFacts, QuietPullIsThorough
  <2>10. QED BY <2>4, <2>5, <2>7, <2>9 DEF QuietFacts
<1>10. CASE UNCHANGED vars
  <2>1. /\ status' = status /\ row' = row /\ cache' = cache
        /\ pc' = pc /\ slots' = slots /\ pull' = pull /\ found' = found /\ quiet' = quiet
    BY <1>10 DEF vars, request, pulls
  <2>2. QED
    BY <2>1 DEF QuietFacts, OneAtATime, FoundIsSo, CopiesAgree, QuietPullIsThorough, UnderWay, Live
<1>11. QED
  BY <1>1, <1>2, <1>3, <1>4, <1>5, <1>6, <1>7, <1>8, <1>9, <1>10 DEF Next, Proceed

LEMMA QuietInitially == Init => QuietInv
BY TypesInitially DEF Init, QuietInv, QuietFacts, OneAtATime, FoundIsSo, CopiesAgree,
   QuietPullIsThorough, UnderWay

\* PullIsThorough: for any number of requests and pulls, as long as nothing has
\* overlapped a pull, a pulled exercise is in no session in flight and in no
\* cached copy, for good (D-58, purge_sessions_referencing).
THEOREM PullIsThorough == Spec => []QuietPullIsThorough
<1>1. QuietInv => QuietPullIsThorough
  BY DEF QuietInv, QuietFacts, QuietPullIsThorough
<1>2. QED
  BY <1>1, QuietInitially, QuietIsInductive, PTL DEF Spec

-----------------------------------------------------------------------------
\* Who closes the session has seen all the other slots attempted.
ClosingIsLast == \A r \in Requests : pc[r] = "closing" => slots[r] \subseteq attempted \cup adding[r]

EarnedInv == QuietInv /\ ClosingIsLast /\ CompletedIsEarned

\* A step that leaves the row alone, takes no attempt back and fails nobody.
LEMMA RowLeftAlone ==
    ASSUME CompletedIsEarned, quiet' => quiet, row' = row, attempted \subseteq attempted',
           \A r \in Requests : pc'[r] = "failed" => pc[r] = "failed"
    PROVE  CompletedIsEarned'
BY DEF CompletedIsEarned

\* What a request closes is what the row holds, and all of it is attempted.
LEMMA EarnedIsInductive == EarnedInv /\ [Next]_vars => EarnedInv'
<1> SUFFICES ASSUME QuietInv, ClosingIsLast, CompletedIsEarned, QuietInv', [Next]_vars
             PROVE  ClosingIsLast' /\ CompletedIsEarned'
  BY QuietIsInductive DEF EarnedInv
<1>1. TypeOK /\ NeverEmpty /\ (quiet => CopiesAgree) /\ (quiet' => quiet)
  BY QuietIsLost DEF QuietInv, QuietFacts, TypeInv
<1>2. ASSUME NEW r \in Requests,
             ReadCache(r) \/ ReadRow(r) \/ LockBuild(r) \/ Build(r) \/ BuildEmpty(r)
             \/ SetCache(r) \/ Serve(r) \/ \E e \in Exercises : Attempt(r, e) \/ Finish(r, e)
      PROVE  ClosingIsLast' /\ CompletedIsEarned'
  <2>1. row' = row /\ attempted \subseteq attempted'
    BY <1>2 DEF ReadCache, ReadRow, LockBuild, Build, BuildEmpty, SetCache, Serve, Attempt, Finish
  <2>2. \A s \in Requests \ {r} :
            pc'[s] = pc[s] /\ slots'[s] = slots[s] /\ adding'[s] = adding[s]
    BY <1>1, <1>2 DEF TypeOK, ReadCache, ReadRow, LockBuild, Build, BuildEmpty, SetCache, Serve,
                      Attempt, Finish, Goto, Take
  <2>3. /\ pc'[r] # "failed"
        /\ pc'[r] = "closing" => slots'[r] \subseteq attempted' \cup adding'[r]
    BY <1>1, <1>2 DEF TypeOK, ReadCache, ReadRow, LockBuild, Build, BuildEmpty, SetCache, Serve,
                      Attempt, Finish, Goto, Remaining
  <2>4. ClosingIsLast'
    BY <2>1, <2>2, <2>3 DEF ClosingIsLast
  <2>5. QED
    BY <1>1, <2>1, <2>2, <2>3, <2>4, RowLeftAlone
<1>3. ASSUME NEW r \in Requests, Insert(r) PROVE ClosingIsLast' /\ CompletedIsEarned'
  BY <1>1, <1>3 DEF TypeOK, Insert, Session, Goto, ClosingIsLast, CompletedIsEarned
<1>4. ASSUME NEW r \in Requests, Close(r) PROVE ClosingIsLast' /\ CompletedIsEarned'
  <2>1. /\ pc[r] = "closing" /\ slots' = slots /\ attempted \subseteq attempted'
        /\ pc'[r] \in {"completed", "failed"}
        /\ \A s \in Requests \ {r} : pc'[s] = pc[s] /\ adding'[s] = adding[s]
    BY <1>1, <1>4 DEF TypeOK, Close, Goto
  <2>2. ClosingIsLast'
    BY <2>1 DEF ClosingIsLast
  <2>3. quiet => row # Nothing /\ row.slots = slots[r]
    BY <1>1, <2>1 DEF CopiesAgree
  <2>4. row # Nothing => /\ row'.slots = row.slots /\ pc'[r] = "completed"
                         /\ attempted' = attempted \cup adding[r]
    BY <1>1, <1>4, ClosingTypes DEF TypeOK, Close, Goto
  <2>5. slots[r] \subseteq attempted \cup adding[r]
    BY <2>1 DEF ClosingIsLast
  <2>6. CompletedIsEarned'
    BY <1>1, <2>1, <2>3, <2>4, <2>5 DEF CompletedIsEarned
  <2>7. QED
    BY <2>2, <2>6
<1>5. ASSUME NEW e \in Exercises, PullSelect(e) \/ PullCommit(e) \/ PullKeys(e)
      PROVE  ClosingIsLast' /\ CompletedIsEarned'
  <2>1. UNCHANGED <<attempted, pc, slots, adding>> /\ row' \in {row, Nothing}
    BY <1>5 DEF PullSelect, PullCommit, PullKeys, request
  <2>2. QED
    BY <1>1, <2>1 DEF ClosingIsLast, CompletedIsEarned
<1>6. CASE UNCHANGED vars
  BY <1>6 DEF vars, request, pulls, ClosingIsLast, CompletedIsEarned
<1>7. QED
  BY <1>2, <1>3, <1>4, <1>5, <1>6 DEF Next, Proceed

LEMMA EarnedInitially == Init => EarnedInv
BY QuietInitially DEF Init, EarnedInv, ClosingIsLast, CompletedIsEarned

\* ClosedWhenDone: however cached and fresh copies of the session are mixed, as
\* long as nothing overlaps a pull a submission closes only a session all of
\* whose slots are attempted, and is never refused for a row that is gone
\* (_maybe_complete_session).
THEOREM ClosedWhenDone == Spec => []CompletedIsEarned
<1>1. EarnedInv => CompletedIsEarned
  BY DEF EarnedInv
<1>2. QED
  BY <1>1, EarnedInitially, EarnedIsInductive, PTL DEF Spec

=============================================================================
