---------------------- MODULE AttemptSubmission_proofs ----------------------
(***************************************************************************)
(* Theorems about an attempt: how it is submitted (AttemptSubmission), for *)
(* any number of requests, keys, exercises and crashes, with or without    *)
(* slow requests; and into which partition it comes (AttemptPartitions, as *)
(* MCAttemptPartitions instantiates it), for any number of attempts, runs  *)
(* and months.                                                             *)
(*   SubmissionTyping       Spec => []TypeOK                               *)
(*   SubmissionIsExclusive  Spec => [](OneAttemptPerExercise /\            *)
(*                                     AggregatesMatchAttempts)            *)
(*   AggregatesAreExact     Spec => []AggregatesMatchAttempts              *)
(*   SubmissionReplays      Spec => []ReplaysAreIdentical                  *)
(*   SubmissionImplementsOnce   Spec => SubmitsOnce                        *)
(*   PartitionsAreTyped     P!Spec => []P!TypeOK                           *)
(*   AttemptsHaveTheirPlace P!Spec => []P!EveryAttemptHasItsPlace          *)
(*   MonthsAreNotSkipped    P!Spec => []P!NoMonthIsSkipped                 *)
(*   RunsAreRefusedOnlyIfOvertaken                                         *)
(*                          P!Spec => []P!RefusedOnlyIfOvertaken           *)
(*   PartitionsStaySound    P!Spec => []PartitionsAreSound                 *)
(* The second and third rest on Exclusion: the lock is held exactly in the *)
(* critical section, and what the holder has read is still what is         *)
(* committed.  The fourth adds that a successful response, stored or       *)
(* given, is the only one for its attempt.  None uses the reservation.     *)
(* The refinement of SubmitOnce rests on all of these, and on the maker of *)
(* an attempt keeping its response (MakersAreAnswered): so a commit is a   *)
(* submission, and whatever success is answered is what it was answered.   *)
(* Those of the partitions rest on PartitionsInv: the partitions are an    *)
(* interval; the tables a run has made and the rows it has moved are what  *)
(* it will commit, and once it has made one nobody else can put a row in   *)
(* the default partition.                                                  *)
(***************************************************************************)
EXTENDS AttemptSubmission, MCAttemptPartitions, FiniteSetTheorems, SequenceTheorems, WellFoundedInduction,
        NaturalsInduction, TLAPS

-----------------------------------------------------------------------------
\* The empty day is a state.
LEMMA NoRowsIsAState == NoRows \in States
BY DEF NoRows, States

\* A request past its work has its response.
StoredIsAnswered ==
    \A r \in Requests : pc[r] \in {"store", "release", "answered"} => result[r] \in Responses

TypeInv == TypeOK /\ StoredIsAnswered

\* A hit is well typed: the body of a record is a response.
LEMMA ReplayTypes ==
    ASSUME TypeOK, NEW r \in Requests, record[key[r]] # Nobody, Replay(r)
    PROVE  /\ pc' \in [Requests -> Labels]
           /\ result' \in [Requests -> Responses \cup {Nobody}]
           /\ \A s \in Requests : result'[s] \in Responses \/ (pc'[s] = pc[s] /\ result'[s] = result[s])
<1>1. record[key[r]] \in [hash : Bodies, response : Responses]
  BY DEF TypeOK
<1>2. Refused(409) \in Responses
  BY DEF Refused, Responses
<1>3. PICK x \in Responses : result' = [result EXCEPT ![r] = x]
  BY <1>1, <1>2 DEF TypeOK, Replay, Answer
<1>4. pc' = [pc EXCEPT ![r] = "answered"]
  BY DEF Replay, Answer, Goto
<1>5. /\ result'[r] \in Responses
      /\ \A s \in Requests : s # r => pc'[s] = pc[s] /\ result'[s] = result[s]
  BY <1>3, <1>4 DEF TypeOK
<1>6. /\ pc' \in [Requests -> Labels]
      /\ result' \in [Requests -> Responses \cup {Nobody}]
  BY <1>3, <1>4 DEF TypeOK, Labels
<1>7. QED
  BY <1>5, <1>6

\* Refusals are responses.
LEMMA RefusalsAreResponses ==
    Refused(403) \in Responses /\ Refused(409) \in Responses /\ Refused(429) \in Responses
BY DEF Refused, Responses

\* Every step keeps the types.
LEMMA TypesAreInductive == TypeInv /\ [Next]_vars => TypeInv'
<1> SUFFICES ASSUME TypeOK, StoredIsAnswered, [Next]_vars PROVE TypeInv'
  BY DEF TypeInv
<1> USE DEF TypeInv, StoredIsAnswered
<1>1. ASSUME NEW r \in Requests, Limit(r) PROVE TypeInv'
  BY <1>1, RefusalsAreResponses
  DEF TypeOK, Limit, Answer, Goto, Labels, client, redis
<1>2. ASSUME NEW r \in Requests, Lookup(r) PROVE TypeInv'
  <2>1. CASE record[key[r]] # Nobody
    BY <1>2, <2>1, ReplayTypes DEF TypeOK, Lookup, client, redis
  <2>2. CASE record[key[r]] = Nobody
    BY <1>2, <2>2 DEF TypeOK, Lookup, Goto, Labels, client, redis
  <2>3. QED
    BY <2>1, <2>2
<1>3. ASSUME NEW r \in Requests, Reserve(r) PROVE TypeInv'
  <2>1. CASE reservation[key[r]] = Nobody
    BY <1>3, <2>1, ZenonT(30) DEF TypeOK, Reserve, Goto, Labels, client
  <2>2. CASE reservation[key[r]] # Nobody
    BY <1>3, <2>2 DEF TypeOK, Reserve, Goto, Labels, client
  <2>3. QED
    BY <2>1, <2>2
<1>4. ASSUME NEW r \in Requests, Poll(r) PROVE TypeInv'
  BY <1>4, ReplayTypes DEF TypeOK, Poll, client, redis
<1>5. ASSUME NEW r \in Requests, GiveUp(r) PROVE TypeInv'
  BY <1>5 DEF TypeOK, GiveUp, Goto, Labels, client, redis
<1>6. ASSUME NEW r \in Requests, FindSlot(r) PROVE TypeInv'
  BY <1>6, RefusalsAreResponses DEF TypeOK, FindSlot, Raise, Goto, Labels, client, redis
<1>7. ASSUME NEW r \in Requests, Lock(r) PROVE TypeInv'
  BY <1>7 DEF TypeOK, Lock, Goto, Labels, client, redis
<1>8. ASSUME NEW r \in Requests, Check(r) PROVE TypeInv'
  BY <1>8, RefusalsAreResponses DEF TypeOK, Check, Raise, Goto, Labels, client, redis
<1>9. ASSUME NEW r \in Requests, Commit(r) PROVE TypeInv'
  <2> DEFINE row == [exercise |-> body[r].exercise, by |-> r]
             remaining == Slots \ (Attempted(seen[r]) \cup {body[r].exercise})
  <2>1. row \in Rows
    BY DEF TypeOK, Bodies, Rows
  <2>2. Ok(row, remaining) \in Responses
    BY <2>1 DEF Ok, Responses
  <2>3. db' \in States
    BY <1>9, <2>1 DEF TypeOK, Commit, States
  <2>4. QED
    BY <1>9, <2>2, <2>3 DEF TypeOK, Commit, Goto, Labels, client, redis
<1>10. ASSUME NEW r \in Requests, Store(r) PROVE TypeInv'
  <2>1. result[r] \in Responses /\ body[r] \in Bodies /\ key[r] \in Keys
    BY <1>10 DEF TypeOK, Store
  <2>2. record' \in [Keys -> [hash : Bodies, response : Responses] \cup {Nobody}]
    BY <1>10, <2>1 DEF TypeOK, Store
  <2>3. QED
    BY <1>10, <2>2 DEF TypeOK, Store, Goto, Labels, client
<1>11. ASSUME NEW r \in Requests, Release(r) PROVE TypeInv'
  <2>1. key[r] \in Keys
    BY DEF TypeOK
  <2>2. reservation' \in [Keys -> Requests \cup {Nobody}]
    BY <1>11, <2>1 DEF TypeOK, Release
  <2>3. QED
    BY <1>11, <2>2 DEF TypeOK, Release, Goto, Labels, client
<1>12. ASSUME NEW r \in Requests, Crash(r) PROVE TypeInv'
  BY <1>12 DEF TypeOK, Crash, Goto, Labels, client, redis
<1>13. ASSUME NEW k \in Keys, Expire(k) PROVE TypeInv'
  BY <1>13 DEF TypeOK, Expire, client, local
<1>14. CASE UNCHANGED vars
  BY <1>14 DEF TypeOK, vars, client, local, redis
<1>15. QED
  BY <1>1, <1>2, <1>3, <1>4, <1>5, <1>6, <1>7, <1>8, <1>9, <1>10, <1>11, <1>12, <1>13, <1>14
  DEF Next, Proceed

\* The initial states are typed.
LEMMA TypesInitially == Init => TypeInv
BY NoRowsIsAState DEF Init, TypeInv, TypeOK, StoredIsAnswered, Labels

\* Every reachable state is typed: whatever comes in, in whatever order.
THEOREM SubmissionTyping == Spec => []TypeOK
<1>1. TypeInv => TypeOK
  BY DEF TypeInv
<1>2. QED
  BY TypesInitially, TypesAreInductive, <1>1, PTL DEF Spec

-----------------------------------------------------------------------------
\* The lock is held exactly between Lock and the end of Check or Commit, and
\* what its holder has read is what is committed.
Exclusion ==
    \A r \in Requests :
        /\ pc[r] \in {"check", "grade"} <=> advisory = r
        /\ pc[r] = "grade" => seen[r] = db /\ body[r].exercise \notin Attempted(db)

\* The attempts are finitely many, as Cardinality needs.
FiniteAttempts == IsFiniteSet(db.attempts)

SubmissionInv ==
    Exclusion /\ FiniteAttempts /\ OneAttemptPerExercise /\ AggregatesMatchAttempts

\* What a step must leave alone for SubmissionInv to survive it: it is no
\* Lock, Check or Commit, and takes no request in or out of the lock.
LEMMA OutsideTheLock ==
    ASSUME SubmissionInv, UNCHANGED <<body, seen, advisory, db>>,
           \A r \in Requests : pc'[r] = pc[r] \/ {pc[r], pc'[r]} \cap {"check", "grade"} = {}
    PROVE  SubmissionInv'
<1>1. Exclusion'
  BY DEF SubmissionInv, Exclusion, Attempted
<1>2. FiniteAttempts' /\ OneAttemptPerExercise' /\ AggregatesMatchAttempts'
  BY DEF SubmissionInv, FiniteAttempts, OneAttemptPerExercise, AggregatesMatchAttempts, Attempted
<1>3. QED
  BY <1>1, <1>2 DEF SubmissionInv

\* The commit writes the aggregates of the attempts it leaves behind.
LEMMA CommitKeepsSubmission ==
    ASSUME TypeOK, SubmissionInv, NEW r \in Requests, Commit(r)
    PROVE  SubmissionInv'
<1> DEFINE row == [exercise |-> body[r].exercise, by |-> r]
           remaining == Slots \ (Attempted(seen[r]) \cup {body[r].exercise})
<1>1. /\ seen[r] = db
      /\ body[r].exercise \notin Attempted(db)
      /\ advisory = r
  BY DEF Commit, SubmissionInv, Exclusion
<1>2. row \notin db.attempts
  BY <1>1 DEF Attempted
<1>3. /\ db'.attempts = db.attempts \cup {row}
      /\ db'.total_attempts = db.total_attempts + 1
      /\ db'.active_today = TRUE
      /\ db'.transitions = IF db.active_today THEN db.transitions ELSE db.transitions + 1
      /\ db'.completed = (db.completed \/ remaining = {})
  BY <1>1 DEF Commit
<1>4. /\ IsFiniteSet(db'.attempts)
      /\ Cardinality(db'.attempts) = Cardinality(db.attempts) + 1
  <2>1. IsFiniteSet(db.attempts)
    BY DEF SubmissionInv, FiniteAttempts
  <2>2. /\ IsFiniteSet(db.attempts \cup {row})
        /\ Cardinality(db.attempts \cup {row}) = Cardinality(db.attempts) + 1
    BY ONLY <1>2, <2>1, FS_AddElement
  <2>3. QED
    BY ONLY <1>3, <2>2
<1>5. Attempted(db') = Attempted(db) \cup {body[r].exercise}
  <2>1. row.exercise = body[r].exercise
    OBVIOUS
  <2>2. QED
    BY ONLY <1>3, <2>1 DEF Attempted
<1>6. OneAttemptPerExercise'
  BY <1>1, <1>3 DEF SubmissionInv, OneAttemptPerExercise, Attempted
<1>7. db'.completed = (Slots \subseteq Attempted(db'))
  <2>1. (remaining = {}) = (Slots \subseteq Attempted(db'))
    BY <1>1, <1>5
  <2>2. db.completed = (Slots \subseteq Attempted(db))
    BY DEF SubmissionInv, AggregatesMatchAttempts
  <2>3. Slots \subseteq Attempted(db) => Slots \subseteq Attempted(db')
    BY <1>5
  <2>4. QED
    BY <1>3, <2>1, <2>2, <2>3
<1>8. AggregatesMatchAttempts'
  <2>1. db'.total_attempts = Cardinality(db'.attempts)
    BY <1>3, <1>4 DEF SubmissionInv, AggregatesMatchAttempts
  <2>2. db'.attempts # {}
    BY <1>3
  <2>3. db'.active_today = (db'.attempts # {})
    BY <1>3, <2>2
  <2>4. db'.transitions = 1
    <3>1. CASE db.attempts = {}
      <4>1. db.active_today = FALSE /\ db.transitions = 0
        BY <3>1 DEF SubmissionInv, AggregatesMatchAttempts
      <4>2. QED
        BY ONLY <1>3, <4>1
    <3>2. CASE db.attempts # {}
      <4>1. db.active_today = TRUE /\ db.transitions = 1
        BY <3>2 DEF SubmissionInv, AggregatesMatchAttempts
      <4>2. QED
        BY ONLY <1>3, <4>1
    <3>3. QED
      BY <3>1, <3>2
  <2>5. QED
    BY <1>7, <2>1, <2>2, <2>3, <2>4 DEF AggregatesMatchAttempts
<1>9. Exclusion'
  <2>1. \A s \in Requests : s # r => pc'[s] = pc[s] /\ pc[s] \notin {"check", "grade"}
    BY <1>1 DEF Commit, Goto, TypeOK, SubmissionInv, Exclusion
  <2>2. pc'[r] = "store" /\ advisory' = Nobody
    BY DEF Commit, Goto, TypeOK
  <2>3. QED
    BY <2>1, <2>2, RequestAssumption DEF Exclusion
<1>10. QED
  BY <1>4, <1>6, <1>8, <1>9 DEF SubmissionInv, FiniteAttempts

\* Every step keeps the exclusion and the agreement of the aggregates.
LEMMA SubmissionIsInductive == TypeOK /\ SubmissionInv /\ [Next]_vars => SubmissionInv'
<1> SUFFICES ASSUME TypeOK, SubmissionInv, [Next]_vars PROVE SubmissionInv'
  OBVIOUS
<1> USE DEF client, local, redis
<1>1. ASSUME NEW r \in Requests, Limit(r) \/ Lookup(r) PROVE SubmissionInv'
  BY <1>1, OutsideTheLock DEF TypeOK, Limit, Lookup, Replay, Answer, Goto
<1>2. ASSUME NEW r \in Requests, Reserve(r) \/ Poll(r) \/ GiveUp(r) PROVE SubmissionInv'
  BY <1>2, OutsideTheLock DEF TypeOK, Reserve, Poll, GiveUp, Replay, Answer, Goto
<1>3. ASSUME NEW r \in Requests, FindSlot(r) \/ Store(r) \/ Release(r) PROVE SubmissionInv'
  BY <1>3, OutsideTheLock DEF TypeOK, FindSlot, Store, Release, Raise, Goto
<1>4. ASSUME NEW r \in Requests, Lock(r) PROVE SubmissionInv'
  <2>1. pc' = [pc EXCEPT ![r] = "check"] /\ advisory = Nobody /\ advisory' = r
    BY <1>4 DEF Lock, Goto
  <2>2. \A s \in Requests : pc[s] \notin {"check", "grade"}
    BY <2>1, RequestAssumption DEF SubmissionInv, Exclusion
  <2>3. Exclusion'
    BY <2>1, <2>2 DEF TypeOK, Exclusion
  <2>4. UNCHANGED db
    BY <1>4 DEF Lock
  <2>5. QED
    BY <2>3, <2>4
    DEF SubmissionInv, FiniteAttempts, OneAttemptPerExercise, AggregatesMatchAttempts, Attempted
<1>5. ASSUME NEW r \in Requests, Check(r) PROVE SubmissionInv'
  <2>1. /\ UNCHANGED <<body, db>>
        /\ advisory = r
        /\ \A s \in Requests : s # r => pc[s] \notin {"check", "grade"} /\ pc'[s] = pc[s]
    BY <1>5 DEF TypeOK, Check, Raise, Goto, SubmissionInv, Exclusion
  <2>2. ASSUME body[r].exercise \in Attempted(db) PROVE Exclusion'
    <3>1. pc'[r] = "release" /\ advisory' = Nobody
      BY <1>5, <2>2 DEF TypeOK, Check, Raise, Goto
    <3>2. QED
      BY <2>1, <3>1, RequestAssumption DEF Exclusion
  <2>3. ASSUME body[r].exercise \notin Attempted(db) PROVE Exclusion'
    <3>1. pc'[r] = "grade" /\ advisory' = r /\ seen'[r] = db
      BY <1>5, <2>1, <2>3 DEF TypeOK, Check, Goto
    <3>2. QED
      BY <2>1, <2>3, <3>1 DEF Exclusion, Attempted
  <2>4. Exclusion'
    BY <2>2, <2>3
  <2>5. QED
    BY <2>1, <2>4
    DEF SubmissionInv, FiniteAttempts, OneAttemptPerExercise, AggregatesMatchAttempts, Attempted
<1>6. ASSUME NEW r \in Requests, Commit(r) PROVE SubmissionInv'
  BY <1>6, CommitKeepsSubmission
<1>7. ASSUME NEW r \in Requests, Crash(r) PROVE SubmissionInv'
  <2>1. pc' = [pc EXCEPT ![r] = "crashed"] /\ UNCHANGED <<body, seen, db>>
    BY <1>7 DEF Crash, Goto
  <2>2. advisory' = IF advisory = r THEN Nobody ELSE advisory
    BY <1>7 DEF Crash
  <2>3. Exclusion'
    BY <2>1, <2>2, RequestAssumption DEF TypeOK, SubmissionInv, Exclusion, Attempted
  <2>4. QED
    BY <2>1, <2>3
    DEF SubmissionInv, FiniteAttempts, OneAttemptPerExercise, AggregatesMatchAttempts, Attempted
<1>8. ASSUME NEW k \in Keys, Expire(k) PROVE SubmissionInv'
  BY <1>8, OutsideTheLock DEF Expire
<1>9. CASE UNCHANGED vars
  BY <1>9, OutsideTheLock DEF vars
<1>10. QED
  BY <1>1, <1>2, <1>3, <1>4, <1>5, <1>6, <1>7, <1>8, <1>9 DEF Next, Proceed

\* No attempts, nothing counted, nobody in the lock.
LEMMA SubmissionInitially == Init => SubmissionInv
<1> SUFFICES ASSUME Init PROVE SubmissionInv
  OBVIOUS
<1>1. db.attempts = {} /\ Attempted(db) = {}
  BY DEF Init, NoRows, Attempted
<1>2. IsFiniteSet({}) /\ Cardinality({}) = 0
  BY FS_EmptySet
<1>3. Exclusion
  BY RequestAssumption DEF Init, Exclusion
<1>4. AggregatesMatchAttempts
  BY <1>1, <1>2, RequestAssumption DEF Init, NoRows, AggregatesMatchAttempts
<1>5. QED
  BY <1>1, <1>2, <1>3, <1>4 DEF SubmissionInv, FiniteAttempts, OneAttemptPerExercise

\* D-104: one attempt per exercise, no lost increment, one transition a day,
\* and the session closes with the last attempt, for any number of requests.
THEOREM SubmissionIsExclusive == Spec => [](OneAttemptPerExercise /\ AggregatesMatchAttempts)
<1>1. SubmissionInv => OneAttemptPerExercise /\ AggregatesMatchAttempts
  BY DEF SubmissionInv
<1>2. QED
  BY SubmissionTyping, SubmissionInitially, SubmissionIsInductive, <1>1, PTL DEF Spec

\* D-66/H1: what the aggregates say is what the attempts are, however many
\* requests of the day overlap: no update is computed from a stale read.
THEOREM AggregatesAreExact == Spec => []AggregatesMatchAttempts
BY SubmissionIsExclusive, PTL

-----------------------------------------------------------------------------
Records == [hash : Bodies, response : Responses]

\* The responses that exist: those of requests and those of records.
Given(response) ==
    \/ \E r \in Requests : result[r] = response
    \/ \E k \in Keys : record[k] \in Records /\ record[k].response = response

\* A successful response is about a committed attempt and is the only one for
\* it; a request and a record only hold one for their own exercise.
OneResponsePerAttempt ==
    /\ \A x \in Responses : Given(x) /\ x.status = 200 => x.attempt \in db.attempts
    /\ \A x, y \in Responses :
          Given(x) /\ Given(y) /\ x.status = 200 /\ y.status = 200 /\ x.attempt = y.attempt
          => x = y
    /\ \A r \in Requests :
          result[r] \in Responses /\ result[r].status = 200
          => result[r].attempt.exercise = body[r].exercise
    /\ \A k \in Keys :
          record[k] \in Records /\ record[k].response.status = 200
          => record[k].response.attempt.exercise = record[k].hash.exercise

\* A step that gives no response that was not given before, to a request or a
\* record of the same exercise, keeps it.
LEMMA NothingNewGiven ==
    ASSUME OneResponsePerAttempt, UNCHANGED <<body, db>>,
           \A x \in Responses : x.status = 200 /\ Given(x)' => Given(x),
           \A r \in Requests : result'[r] \in Responses /\ result'[r].status = 200
               => result'[r].attempt.exercise = body[r].exercise,
           \A k \in Keys : record'[k] \in Records /\ record'[k].response.status = 200
               => record'[k].response.attempt.exercise = record'[k].hash.exercise
    PROVE  OneResponsePerAttempt'
BY DEF OneResponsePerAttempt

\* A refusal is no success.
LEMMA RefusalsFail == \A n \in {403, 409, 429} : Refused(n).status = n
BY DEF Refused

\* A hit gives a request what its own record holds, or a refusal.
LEMMA ReplayGivesNothingNew ==
    ASSUME TypeOK, OneResponsePerAttempt, NEW r \in Requests, record[key[r]] # Nobody,
           Replay(r), UNCHANGED <<body, record, db>>
    PROVE  OneResponsePerAttempt'
<1> DEFINE hit == record[key[r]]
<1>1. key[r] \in Keys /\ hit \in Records
  BY DEF TypeOK, Records
<1>2. \/ hit.hash = body[r] /\ result' = [result EXCEPT ![r] = hit.response]
      \/ result' = [result EXCEPT ![r] = Refused(409)]
  BY DEF Replay, Answer
<1>3. \A s \in Requests : s # r => result'[s] = result[s]
  BY <1>2 DEF TypeOK
<1>4. \/ hit.hash = body[r] /\ result'[r] = hit.response
      \/ result'[r].status = 409
  BY <1>2, RefusalsFail DEF TypeOK
<1>5. \A x \in Responses : x.status = 200 /\ Given(x)' => Given(x)
  BY <1>1, <1>3, <1>4 DEF Given
<1>6. \A s \in Requests : result'[s] \in Responses /\ result'[s].status = 200
          => result'[s].attempt.exercise = body[s].exercise
  BY <1>1, <1>3, <1>4 DEF OneResponsePerAttempt
<1>7. QED
  BY <1>5, <1>6, NothingNewGiven DEF OneResponsePerAttempt

\* A refusal given to one request leaves the other responses alone.
LEMMA RefusalGivesNothingNew ==
    ASSUME TypeOK, OneResponsePerAttempt, NEW r \in Requests, NEW n \in {403, 409, 429},
           result' = [result EXCEPT ![r] = Refused(n)], UNCHANGED <<body, record, db>>
    PROVE  OneResponsePerAttempt'
<1>1. \A s \in Requests : s # r => result'[s] = result[s]
  BY DEF TypeOK
<1>2. result'[r].status # 200
  BY RefusalsFail DEF TypeOK
<1>3. \A x \in Responses : x.status = 200 /\ Given(x)' => Given(x)
  BY <1>1, <1>2 DEF Given
<1>4. \A s \in Requests : result'[s] \in Responses /\ result'[s].status = 200
          => result'[s].attempt.exercise = body[s].exercise
  BY <1>1, <1>2 DEF OneResponsePerAttempt
<1>5. QED
  BY <1>3, <1>4, NothingNewGiven DEF OneResponsePerAttempt

\* A step that gives no response.
LEMMA SilentStep ==
    ASSUME OneResponsePerAttempt, UNCHANGED <<body, result, record, db>>
    PROVE  OneResponsePerAttempt'
BY DEF OneResponsePerAttempt, Given

\* The commit's response is about a new attempt, so no other one is.
LEMMA CommitGivesOne ==
    ASSUME TypeInv, SubmissionInv, OneResponsePerAttempt, NEW r \in Requests, Commit(r)
    PROVE  OneResponsePerAttempt'
<1> DEFINE row == [exercise |-> body[r].exercise, by |-> r]
           remaining == Slots \ (Attempted(seen[r]) \cup {body[r].exercise})
           new == Ok(row, remaining)
<1>1. row \notin db.attempts
  BY DEF Commit, SubmissionInv, Exclusion, Attempted
<1>2. /\ db'.attempts = db.attempts \cup {row}
      /\ result' = [result EXCEPT ![r] = new]
      /\ UNCHANGED <<body, record>>
  BY DEF Commit, client, redis
<1>3. new.status = 200 /\ new.attempt = row
  BY DEF Ok
<1>4. result'[r] = new /\ \A s \in Requests : s # r => result'[s] = result[s]
  BY <1>2 DEF TypeInv, TypeOK
<1>5. \A x \in Responses : Given(x)' => x = new \/ Given(x)
  BY <1>2, <1>4 DEF Given
<1>6. \A x \in Responses : Given(x) /\ x.status = 200 => x.attempt \in db.attempts
  BY DEF OneResponsePerAttempt
<1>7. \A x \in Responses : Given(x)' /\ x.status = 200 => x.attempt \in db'.attempts
  BY <1>2, <1>3, <1>5, <1>6
<1>8. \A x, y \in Responses :
          Given(x)' /\ Given(y)' /\ x.status = 200 /\ y.status = 200 /\ x.attempt = y.attempt
          => x = y
  <2>1. \A x \in Responses : Given(x) /\ x.status = 200 => x.attempt # row
    BY <1>1, <1>6
  <2>2. \A x, y \in Responses :
            Given(x) /\ Given(y) /\ x.status = 200 /\ y.status = 200 /\ x.attempt = y.attempt
            => x = y
    BY DEF OneResponsePerAttempt
  <2>3. QED
    BY <1>3, <1>5, <2>1, <2>2
<1>9. \A s \in Requests : result'[s] \in Responses /\ result'[s].status = 200
          => result'[s].attempt.exercise = body[s].exercise
  BY <1>3, <1>4 DEF OneResponsePerAttempt
<1>10. QED
  BY <1>2, <1>7, <1>8, <1>9, ZenonT(30) DEF OneResponsePerAttempt

\* What is stored was given to the request that stores it.
LEMMA StoreGivesNothingNew ==
    ASSUME TypeInv, OneResponsePerAttempt, NEW r \in Requests, Store(r)
    PROVE  OneResponsePerAttempt'
<1>1. result[r] \in Responses /\ key[r] \in Keys
  BY DEF TypeInv, TypeOK, StoredIsAnswered, Store
<1>2. /\ record' = [record EXCEPT ![key[r]] = [hash |-> body[r], response |-> result[r]]]
      /\ UNCHANGED <<body, result, db>>
  BY DEF Store, client
<1>3. /\ record'[key[r]] = [hash |-> body[r], response |-> result[r]]
      /\ \A k \in Keys : k # key[r] => record'[k] = record[k]
  BY <1>1, <1>2 DEF TypeInv, TypeOK
<1>4. \A x \in Responses : Given(x)' => Given(x)
  BY <1>2, <1>3 DEF Given
<1>5. \A s \in Requests : result'[s] \in Responses /\ result'[s].status = 200
          => result'[s].attempt.exercise = body[s].exercise
  BY <1>2 DEF OneResponsePerAttempt
<1>6. \A k \in Keys : record'[k] \in Records /\ record'[k].response.status = 200
          => record'[k].response.attempt.exercise = record'[k].hash.exercise
  <2>1. result[r].status = 200 => result[r].attempt.exercise = body[r].exercise
    BY <1>1 DEF OneResponsePerAttempt
  <2>2. ASSUME NEW k \in Keys, k # key[r], record'[k] \in Records, record'[k].response.status = 200
        PROVE  record'[k].response.attempt.exercise = record'[k].hash.exercise
    BY <1>3, <2>2 DEF OneResponsePerAttempt
  <2>3. QED
    BY <1>3, <2>1, <2>2
<1>7. QED
  BY <1>2, <1>4, <1>5, <1>6, NothingNewGiven

\* Every step keeps it.
LEMMA ResponsesAreInductive ==
    TypeInv /\ SubmissionInv /\ OneResponsePerAttempt /\ [Next]_vars => OneResponsePerAttempt'
<1> SUFFICES ASSUME TypeInv, SubmissionInv, OneResponsePerAttempt, [Next]_vars
             PROVE  OneResponsePerAttempt'
  OBVIOUS
<1> USE DEF client, local, redis
<1>0. TypeOK
  BY DEF TypeInv
<1>1. ASSUME NEW r \in Requests, Lookup(r) \/ Poll(r) PROVE OneResponsePerAttempt'
  <2>1. CASE record[key[r]] # Nobody
    BY <1>0, <1>1, <2>1, ReplayGivesNothingNew DEF Lookup, Poll
  <2>2. CASE record[key[r]] = Nobody
    BY <1>1, <2>2, SilentStep DEF Lookup, Poll
  <2>3. QED
    BY <2>1, <2>2
<1>2. ASSUME NEW r \in Requests, Limit(r) \/ FindSlot(r) \/ Check(r) PROVE OneResponsePerAttempt'
  <2>1. UNCHANGED <<body, record, db>>
    BY <1>2 DEF Limit, FindSlot, Check
  <2>2. \/ UNCHANGED result
        \/ \E n \in {403, 409, 429} : result' = [result EXCEPT ![r] = Refused(n)]
    BY <1>2 DEF Limit, FindSlot, Check, Raise, Answer
  <2>3. QED
    BY <1>0, <2>1, <2>2, SilentStep, RefusalGivesNothingNew
<1>3. ASSUME NEW r \in Requests,
             Reserve(r) \/ GiveUp(r) \/ Lock(r) \/ Release(r) \/ Crash(r)
      PROVE  OneResponsePerAttempt'
  BY <1>3, SilentStep DEF Reserve, GiveUp, Lock, Release, Crash
<1>4. ASSUME NEW r \in Requests, Commit(r) PROVE OneResponsePerAttempt'
  BY <1>4, CommitGivesOne
<1>5. ASSUME NEW r \in Requests, Store(r) PROVE OneResponsePerAttempt'
  BY <1>5, StoreGivesNothingNew
<1>6. ASSUME NEW k \in Keys, Expire(k) PROVE OneResponsePerAttempt'
  BY <1>6, SilentStep DEF Expire
<1>7. CASE UNCHANGED vars
  BY <1>7, SilentStep DEF vars
<1>8. QED
  BY <1>1, <1>2, <1>3, <1>4, <1>5, <1>6, <1>7 DEF Next, Proceed

\* Nothing is given or stored at first.
LEMMA ResponsesInitially == Init => OneResponsePerAttempt
BY SentinelAssumption DEF Init, OneResponsePerAttempt, Given, Records

\* docs/05 section 9, invariant 3, for any number of retries and crashes: the
\* successful answers to one submission are all the same answer.
THEOREM SubmissionReplays == Spec => []ReplaysAreIdentical
<1>1. ASSUME TypeInv, SubmissionInv, OneResponsePerAttempt PROVE ReplaysAreIdentical
  <2> SUFFICES ASSUME NEW r \in Requests, NEW s \in Requests,
                      Succeeded(r), Succeeded(s), SameSubmission(r, s),
                      result[r] \in Responses, result[s] \in Responses
               PROVE  result[r] = result[s]
    BY <1>1 DEF ReplaysAreIdentical, Succeeded, TypeInv, StoredIsAnswered
  <2> DEFINE a == result[r].attempt  b == result[s].attempt
  <2>1. Given(result[r]) /\ Given(result[s])
    BY DEF Given
  <2>2. a \in db.attempts /\ b \in db.attempts
    BY <1>1, <2>1 DEF OneResponsePerAttempt, Succeeded
  <2>3. a.exercise = body[r].exercise /\ b.exercise = body[s].exercise
    BY <1>1 DEF OneResponsePerAttempt, Succeeded
  <2>4. a = b
    BY <1>1, <2>2, <2>3 DEF SameSubmission, SubmissionInv, OneAttemptPerExercise
  <2>5. QED
    BY <1>1, <2>1, <2>4 DEF OneResponsePerAttempt, Succeeded
<1>2. Init => TypeInv /\ SubmissionInv /\ OneResponsePerAttempt
  BY TypesInitially, SubmissionInitially, ResponsesInitially
<1>3. TypeInv /\ SubmissionInv /\ OneResponsePerAttempt /\ [Next]_vars
          => (TypeInv /\ SubmissionInv /\ OneResponsePerAttempt)'
  BY TypesAreInductive, SubmissionIsInductive, ResponsesAreInductive DEF TypeInv
<1>4. QED
  BY <1>1, <1>2, <1>3, PTL DEF Spec

-----------------------------------------------------------------------------
(* SubmitOnce.  The request that made an attempt still has its response,   *)
(* and only an exercise of the session gets as far as the lock.            *)
Past == {"store", "release", "answered", "crashed"}

MakersAreAnswered ==
    \A a \in db.attempts :
        /\ pc[a.by] \in Past
        /\ result[a.by] \in Responses /\ result[a.by].status = 200 /\ result[a.by].attempt = a

OnlyTheSession ==
    \A r \in Requests : pc[r] \in {"lock", "check", "grade"} => body[r].exercise \in Slots

OnceInv ==
    TypeInv /\ SubmissionInv /\ OneResponsePerAttempt /\ MakersAreAnswered /\ OnlyTheSession

\* A request past its attempt keeps its response.
LEMMA PastIsKept ==
    ASSUME TypeInv, NEW r \in Requests, pc[r] \in Past, [Next]_vars
    PROVE  result'[r] = result[r] /\ pc'[r] \in Past
<1> USE DEF client, local, redis, Past
<1>1. ASSUME NEW q \in Requests, Limit(q) \/ Lookup(q) \/ Poll(q)
      PROVE  result'[r] = result[r] /\ pc'[r] = pc[r]
  <2>1. pc[q] \in {"idle", "wait"}
    BY <1>1 DEF Limit, Lookup, Poll
  <2>2. /\ \E label : pc' = [pc EXCEPT ![q] = label]
        /\ result' = result \/ \E x : result' = [result EXCEPT ![q] = x]
    BY <1>1 DEF Limit, Lookup, Poll, Replay, Answer, Goto
  <2>3. QED
    BY <2>1, <2>2 DEF TypeInv, TypeOK
<1>2. ASSUME NEW q \in Requests,
             Reserve(q) \/ GiveUp(q) \/ FindSlot(q) \/ Lock(q) \/ Check(q) \/ Commit(q)
      PROVE  result'[r] = result[r] /\ pc'[r] = pc[r]
  <2>1. pc[q] \in {"reserve", "wait", "submit", "lock", "check", "grade"}
    BY <1>2 DEF Reserve, GiveUp, FindSlot, Lock, Check, Commit
  <2>2. /\ \E label : pc' = [pc EXCEPT ![q] = label]
        /\ result' = result \/ \E x : result' = [result EXCEPT ![q] = x]
    BY <1>2 DEF Reserve, GiveUp, FindSlot, Lock, Check, Commit, Raise, Goto
  <2>3. QED
    BY <2>1, <2>2 DEF TypeInv, TypeOK
<1>3. ASSUME NEW q \in Requests, Store(q) \/ Release(q) \/ Crash(q)
      PROVE  result'[r] = result[r] /\ pc'[r] \in Past
  <2>1. /\ result' = result
        /\ \E label \in Past : pc' = [pc EXCEPT ![q] = label]
    BY <1>3 DEF Store, Release, Crash, Goto
  <2>2. QED
    BY <2>1 DEF TypeInv, TypeOK
<1>4. CASE \E k \in Keys : Expire(k)
  BY <1>4 DEF Expire
<1>5. CASE UNCHANGED vars
  BY <1>5 DEF vars
<1>6. QED
  BY <1>1, <1>2, <1>3, <1>4, <1>5 DEF Next, Proceed

LEMMA MakersStayAnswered ==
    TypeInv /\ SubmissionInv /\ MakersAreAnswered /\ [Next]_vars => MakersAreAnswered'
<1> SUFFICES ASSUME TypeInv, SubmissionInv, MakersAreAnswered, [Next]_vars
             PROVE  MakersAreAnswered'
  OBVIOUS
<1>1. \A a \in db.attempts : a.by \in Requests
  BY DEF TypeInv, TypeOK, States, Rows
<1>2. ASSUME NEW a \in db.attempts
      PROVE  /\ pc'[a.by] \in Past /\ result'[a.by] = result[a.by]
             /\ result'[a.by] \in Responses /\ result'[a.by].status = 200
             /\ result'[a.by].attempt = a
  <2>1. PICK r \in Requests : r = a.by
    BY <1>1
  <2>2. pc[r] \in Past
    BY <2>1 DEF MakersAreAnswered
  <2>3. result'[r] = result[r] /\ pc'[r] \in Past
    BY <2>2, PastIsKept
  <2>4. QED
    BY <2>1, <2>3 DEF MakersAreAnswered
<1>3. ASSUME NEW r \in Requests, Commit(r) PROVE MakersAreAnswered'
  <2> DEFINE row == [exercise |-> body[r].exercise, by |-> r]
             remaining == Slots \ (Attempted(seen[r]) \cup {body[r].exercise})
  <2>1. row \in Rows
    BY DEF TypeInv, TypeOK, Bodies, Rows
  <2>2. Ok(row, remaining) \in Responses /\ Ok(row, remaining).status = 200
        /\ Ok(row, remaining).attempt = row
    BY <2>1 DEF Ok, Responses
  <2>3. db'.attempts = db.attempts \cup {row}
    BY <1>3 DEF Commit
  <2>4. result'[r] = Ok(row, remaining) /\ pc'[r] = "store" /\ row.by = r
    BY <1>3 DEF Commit, Goto, TypeInv, TypeOK
  <2> HIDE DEF row, remaining
  <2>5. QED
    BY <1>2, <2>2, <2>3, <2>4 DEF MakersAreAnswered, Past
<1>4. CASE UNCHANGED db
  BY <1>2, <1>4 DEF MakersAreAnswered
<1>5. UNCHANGED db \/ \E r \in Requests : Commit(r)
  BY DEF Next, Proceed, Limit, Lookup, Reserve, Poll, GiveUp, FindSlot, Lock, Check, Store,
         Release, Crash, Expire, vars
<1>6. QED
  BY <1>3, <1>4, <1>5

LEMMA SessionStays == TypeInv /\ OnlyTheSession /\ [Next]_vars => OnlyTheSession'
<1> SUFFICES ASSUME TypeInv, OnlyTheSession, [Next]_vars, NEW r \in Requests,
                    pc'[r] \in {"lock", "check", "grade"}
             PROVE  body'[r].exercise \in Slots
  BY DEF OnlyTheSession
<1> USE DEF client, local, redis
<1>1. body' = body
  BY DEF Next, Proceed, Limit, Lookup, Reserve, Poll, GiveUp, FindSlot, Lock, Check, Commit, Store,
         Release, Crash, Expire, vars
<1>2. ASSUME NEW q \in Requests, Limit(q) \/ Lookup(q) \/ Proceed(q) \/ Crash(q)
      PROVE  body[r].exercise \in Slots
  <2>1. CASE FindSlot(q) \/ Lock(q) \/ Check(q)
    BY <2>1 DEF FindSlot, Lock, Check, Raise, Goto, TypeInv, TypeOK, OnlyTheSession
  <2>2. CASE ~(FindSlot(q) \/ Lock(q) \/ Check(q))
    <3>1. \E label \in Labels \ {"lock", "check", "grade"} : pc' = [pc EXCEPT ![q] = label]
      BY <1>2, <2>2
         DEF Proceed, Limit, Lookup, Reserve, Poll, GiveUp, Commit, Store, Release, Crash,
             Replay, Answer, Goto, Labels
    <3>2. QED
      BY <3>1 DEF TypeInv, TypeOK, OnlyTheSession
  <2>3. QED
    BY <2>1, <2>2
<1>3. CASE (\E k \in Keys : Expire(k)) \/ UNCHANGED vars
  BY <1>3 DEF Expire, vars, OnlyTheSession
<1>4. QED
  BY <1>1, <1>2, <1>3 DEF Next

\* An exercise has one attempt, so its answer is its maker's.
LEMMA AnswerIsItsMakers ==
    ASSUME OneAttemptPerExercise, NEW a \in db.attempts
    PROVE  AnswerTo(a.exercise) = result[a.by]
<1>1. \A b \in db.attempts : b.exercise = a.exercise => b = a
  BY DEF OneAttemptPerExercise
<1>2. (CHOOSE b \in db.attempts : b.exercise = a.exercise) = a
  BY <1>1
<1>3. QED
  BY <1>2 DEF AnswerTo

\* A step that commits nothing leaves what was answered.
LEMMA AnsweredStays ==
    ASSUME OnceInv, [Next]_vars, UNCHANGED db
    PROVE  UNCHANGED <<Asked, Answered, Aggregates>>
<1>1. body' = body
  BY DEF Next, Proceed, Limit, Lookup, Reserve, Poll, GiveUp, FindSlot, Lock, Check, Commit, Store,
         Release, Crash, Expire, vars, client
<1>2. /\ OneAttemptPerExercise /\ OneAttemptPerExercise'
      /\ Attempted(db)' = Attempted(db) /\ db'.attempts = db.attempts
  BY DEF OnceInv, SubmissionInv, OneAttemptPerExercise, Attempted
<1>3. ASSUME NEW x \in Attempted(db) PROVE AnswerTo(x)' = AnswerTo(x)
  <2>1. PICK a \in db.attempts : x = a.exercise
    BY DEF Attempted
  <2>2. PICK r \in Requests : r = a.by
    BY DEF OnceInv, TypeInv, TypeOK, States, Rows
  <2>3. result'[r] = result[r]
    BY <2>2, PastIsKept DEF OnceInv, MakersAreAnswered
  <2>4. AnswerTo(x) = result[a.by]
    BY <1>2, <2>1, AnswerIsItsMakers
  <2>5. (CHOOSE b \in db.attempts : b.exercise = x) = a
    <3>1. \A b \in db.attempts : b.exercise = x => b = a
      BY <1>2, <2>1 DEF OneAttemptPerExercise
    <3>2. QED
      BY <2>1, <3>1
  <2>6. AnswerTo(x)' = result'[a.by]
    BY <1>2, <2>5 DEF AnswerTo
  <2>7. QED
    BY <2>2, <2>3, <2>4, <2>6
<1>4. Answered' = Answered
  <2>1. Answered' = [x \in Attempted(db)' |-> AnswerTo(x)']
    BY DEF Answered
  <2>2. Answered' = [x \in Attempted(db) |-> AnswerTo(x)]
    BY <1>2, <1>3, <2>1
  <2>3. QED
    BY <2>2 DEF Answered
<1>5. Asked' = Asked /\ Aggregates' = Aggregates
  BY <1>1 DEF Asked, Aggregates
<1>6. QED
  BY <1>4, <1>5

\* A success, wherever it comes from, is what the exercise's attempt was answered.
SuccessesAreTrue ==
    \A r \in Requests : result[r] \in Responses /\ result[r].status = 200 =>
        body[r].exercise \in Attempted(db) /\ result[r] = AnswerTo(body[r].exercise)

LEMMA ASuccessIsTheAnswer == OnceInv => SuccessesAreTrue
<1> SUFFICES ASSUME OnceInv, NEW r \in Requests, result[r] \in Responses, result[r].status = 200
             PROVE  /\ body[r].exercise \in Attempted(db)
                    /\ result[r] = AnswerTo(body[r].exercise)
  BY DEF SuccessesAreTrue
<1>1. PICK a \in db.attempts : a = result[r].attempt /\ a.exercise = body[r].exercise
  BY DEF OnceInv, OneResponsePerAttempt, Given
<1>2. PICK m \in Requests : m = a.by
  BY DEF OnceInv, TypeInv, TypeOK, States, Rows
<1>3. result[m] \in Responses /\ result[m].status = 200 /\ result[m].attempt = a
  BY <1>2 DEF OnceInv, MakersAreAnswered
<1>4. result[r] = result[m]
  BY <1>1, <1>3 DEF OnceInv, OneResponsePerAttempt, Given
<1>5. AnswerTo(body[r].exercise) = result[a.by]
  BY <1>1, AnswerIsItsMakers DEF OnceInv, SubmissionInv
<1>6. QED
  BY <1>1, <1>2, <1>4, <1>5 DEF Attempted

LEMMA OnceHolds ==
    /\ Init => OnceInv
    /\ OnceInv /\ [Next]_vars => OnceInv'
<1>1. Init => MakersAreAnswered /\ OnlyTheSession
  BY DEF Init, NoRows, MakersAreAnswered, OnlyTheSession
<1>2. Init => OnceInv
  BY <1>1, TypesInitially, SubmissionInitially, ResponsesInitially DEF OnceInv
<1>3. OnceInv /\ [Next]_vars => OnceInv'
  BY TypesAreInductive, SubmissionIsInductive, ResponsesAreInductive, MakersStayAnswered,
     SessionStays DEF OnceInv, TypeInv
<1>4. QED
  BY <1>2, <1>3

\* A step is one request's, and not one that has been answered.
LEMMA OneRequestMoves ==
    ASSUME TypeInv, [Next]_vars
    PROVE  /\ \A q, r \in Requests :
                  \/ q = r
                  \/ pc'[q] = pc[q] /\ result'[q] = result[q]
                  \/ pc'[r] = pc[r] /\ result'[r] = result[r]
           /\ \A r \in Requests :
                  pc[r] = "answered" => pc'[r] = "answered" /\ result'[r] = result[r]
<1> USE DEF client, local, redis
<1>1. ASSUME NEW m \in Requests, Limit(m) \/ Lookup(m) \/ Proceed(m) \/ Crash(m)
      PROVE  /\ \A r \in Requests \ {m} : pc'[r] = pc[r] /\ result'[r] = result[r]
             /\ pc[m] # "answered"
  <2>1. pc[m] # "answered"
    BY <1>1 DEF Proceed, Limit, Lookup, Reserve, Poll, GiveUp, FindSlot, Lock, Check, Commit, Store,
                Release, Crash
  <2>2. /\ \E label : pc' = [pc EXCEPT ![m] = label]
        /\ result' = result \/ \E x : result' = [result EXCEPT ![m] = x]
    BY <1>1 DEF Proceed, Limit, Lookup, Reserve, Poll, GiveUp, FindSlot, Lock, Check, Commit, Store,
                Release, Crash, Raise, Replay, Answer, Goto
  <2>3. QED
    BY <2>1, <2>2 DEF TypeInv, TypeOK
<1>2. CASE (\E k \in Keys : Expire(k)) \/ UNCHANGED vars
  BY <1>2 DEF Expire, vars
<1>3. QED
  BY <1>1, <1>2 DEF Next

\* Nothing committed: whoever is told of a success is told of the one there was.
LEMMA NoCommitTells ==
    ASSUME OnceInv, SuccessesAreTrue', TypeInv', [Next]_vars, UNCHANGED db
    PROVE  [Once!Next]_(Once!vars)
<1>1. UNCHANGED <<Asked, Answered, Aggregates>>
  BY AnsweredStays
<1>2. TypeInv
  BY DEF OnceInv
<1>3. \A r \in Requests : Succeeded(r) => Succeeded(r)' /\ result'[r] = result[r]
  BY <1>2, OneRequestMoves DEF Succeeded
<1>4. CASE \A r \in Requests : Succeeded(r)' => Succeeded(r)
  <2>1. {s \in Requests : Succeeded(s)}' = {s \in Requests : Succeeded(s)}
    BY <1>3, <1>4
  <2>2. Told' = Told
    BY <1>3, <2>1 DEF Told
  <2>3. QED
    BY <1>1, <2>2 DEF Once!vars
<1>5. CASE \E r \in Requests : Succeeded(r)' /\ ~Succeeded(r)
  <2>1. PICK r \in Requests : Succeeded(r)' /\ ~Succeeded(r)
    BY <1>5
  <2>2. pc'[r] = "answered" /\ result'[r].status = 200 /\ result'[r] \in Responses
    BY <2>1 DEF Succeeded, TypeInv, StoredIsAnswered
  <2>3. /\ body'[r].exercise \in Attempted(db)'
        /\ result'[r] = AnswerTo(body[r].exercise)'
    BY <2>2 DEF SuccessesAreTrue
  <2>4. Asked[r] = body[r].exercise /\ Asked'[r] = body'[r].exercise
    BY DEF Asked
  <2>5. PICK x : x = Asked[r]
    OBVIOUS
  <2>6. x \in DOMAIN Answered' /\ result'[r] = Answered'[x]
    BY <1>1, <2>3, <2>4, <2>5 DEF Answered
  <2>7. x \in DOMAIN Answered /\ result'[r] = Answered[x]
    BY <1>1, <2>6
  <2>8. \A q \in Requests : q # r => (Succeeded(q)' <=> Succeeded(q))
    <3>1. ~(pc'[r] = pc[r] /\ result'[r] = result[r])
      BY <2>1 DEF Succeeded
    <3>2. \A q \in Requests : q # r => pc'[q] = pc[q] /\ result'[q] = result[q]
      BY <1>2, <3>1, OneRequestMoves
    <3>3. QED
      BY <3>2 DEF Succeeded
  <2>9. /\ DOMAIN Told = {s \in Requests : Succeeded(s)}
        /\ DOMAIN Told' = {s \in Requests : Succeeded(s)'}
        /\ \A s \in DOMAIN Told : Told[s] = result[s]
        /\ \A s \in DOMAIN Told' : Told'[s] = result'[s]
    BY DEF Told
  <2>10. DOMAIN Told' = DOMAIN Told \cup {r} /\ r \notin DOMAIN Told
    BY <2>1, <2>8, <2>9
  <2>11. Told' = [s \in DOMAIN Told \cup {r} |-> IF s = r THEN Answered[x] ELSE Told[s]]
    <3>1. \A s \in DOMAIN Told : Told'[s] = Told[s]
      BY <1>3, <2>9, <2>10
    <3>2. Told'[r] = Answered[x]
      BY <2>7, <2>9, <2>10
    <3>3. Told' = [s \in DOMAIN Told' |-> Told'[s]]
      BY DEF Told
    <3>4. QED
      BY <2>10, <3>1, <3>2, <3>3
  <2>12. Once!Tell(r)
    BY <1>1, <2>5, <2>7, <2>10, <2>11 DEF Once!Tell, Once!Extended
  <2>13. QED
    BY <2>12 DEF Once!Next
<1>6. QED
  BY <1>4, <1>5

\* A commit is a submission.
LEMMA CommitSubmits ==
    ASSUME OnceInv, SubmissionInv', NEW r \in Requests, Commit(r)
    PROVE  Once!Submit(r)
<1> DEFINE row == [exercise |-> body[r].exercise, by |-> r]
           remaining == Slots \ (Attempted(seen[r]) \cup {body[r].exercise})
           last == Slots \subseteq Attempted(db) \cup {body[r].exercise}
<1>1. /\ seen[r] = db /\ body[r].exercise \notin Attempted(db) /\ body[r].exercise \in Slots
  BY DEF Commit, OnceInv, SubmissionInv, Exclusion, OnlyTheSession
<1>2. PICK x : x = body[r].exercise
  OBVIOUS
<1>3. PICK a : a = row
  OBVIOUS
<1>4. a.exercise = x /\ a.by = r /\ a = [exercise |-> x, by |-> r]
  BY <1>2, <1>3
<1>5. (remaining = {}) = last
  BY <1>1
<1>6. PICK new : new = Ok(row, remaining)
  OBVIOUS
<1>7. new = [status |-> 200, attempt |-> a, completed |-> last]
  BY <1>3, <1>5, <1>6 DEF Ok
<1>8. /\ db'.attempts = db.attempts \cup {a}
      /\ db'.total_attempts = db.total_attempts + 1 /\ db'.active_today = TRUE
      /\ db'.transitions = (IF db.active_today THEN db.transitions ELSE db.transitions + 1)
      /\ db'.completed = (db.completed \/ remaining = {})
      /\ result' = [result EXCEPT ![r] = new] /\ pc' = [pc EXCEPT ![r] = "store"]
      /\ UNCHANGED body
  BY <1>1, <1>3, <1>6 DEF Commit, Goto, client
<1>9. /\ result'[r] = new
      /\ \A s \in Requests : s # r => result'[s] = result[s] /\ pc'[s] = pc[s]
      /\ pc'[r] = "store" /\ pc[r] = "grade"
  BY <1>8 DEF OnceInv, TypeInv, TypeOK, Commit
<1> HIDE DEF row, remaining
<1>10. Attempted(db)' = Attempted(db) \cup {x}
  BY <1>4, <1>8 DEF Attempted
<1>11. \A b, c \in db'.attempts : b.exercise = c.exercise => b = c
  BY DEF SubmissionInv, OneAttemptPerExercise
<1>12. AnswerTo(x)' = new
  <2>1. (CHOOSE b \in db'.attempts : b.exercise = x) = a
    BY <1>4, <1>8, <1>11
  <2>2. QED
    BY <1>4, <1>9, <2>1 DEF AnswerTo
<1>13. ASSUME NEW y \in Attempted(db) PROVE AnswerTo(y)' = AnswerTo(y)
  <2>1. PICK b \in db.attempts : y = b.exercise
    BY DEF Attempted
  <2>2. b.by \in Requests /\ pc[b.by] \in Past
    BY DEF OnceInv, TypeInv, TypeOK, States, Rows, MakersAreAnswered
  <2>3. result'[b.by] = result[b.by]
    BY <1>9, <2>2 DEF Past
  <2>4. AnswerTo(y) = result[b.by]
    BY <2>1, AnswerIsItsMakers DEF OnceInv, SubmissionInv
  <2>5. (CHOOSE c \in db'.attempts : c.exercise = y) = b
    BY <1>8, <1>11, <2>1
  <2>6. QED
    BY <2>3, <2>4, <2>5 DEF AnswerTo
<1>14. Answered' = Once!Extended(Answered, x, new)
  <2>1. Answered' = [y \in Attempted(db)' |-> AnswerTo(y)']
    BY DEF Answered
  <2>2. /\ DOMAIN Answered = Attempted(db)
        /\ \A y \in Attempted(db) : Answered[y] = AnswerTo(y)
    BY DEF Answered
  <2>3. \A y \in Attempted(db)' : AnswerTo(y)' = IF y = x THEN new ELSE Answered[y]
    BY <1>10, <1>12, <1>13, <2>2
  <2>4. QED
    BY <1>10, <2>1, <2>2, <2>3 DEF Once!Extended
<1>15. Told' = Told
  <2>1. \A s \in Requests : Succeeded(s)' <=> Succeeded(s)
    BY <1>9 DEF Succeeded
  <2>2. \A s \in Requests : Succeeded(s) => result'[s] = result[s]
    BY <1>9 DEF Succeeded
  <2>3. QED
    BY <2>1, <2>2 DEF Told
<1>16. Aggregates' = [total_attempts |-> Aggregates.total_attempts + 1, active_today |-> TRUE,
                      transitions |-> 1, completed |-> last]
  <2>1. db.completed = (Slots \subseteq Attempted(db))
    BY DEF OnceInv, SubmissionInv, AggregatesMatchAttempts
  <2>2. db'.completed = last
    BY <1>1, <1>5, <1>8, <2>1 DEF OnceInv, TypeInv, TypeOK, States
  <2>3. db'.transitions = 1
    <3>1. db'.transitions = (IF db'.attempts = {} THEN 0 ELSE 1)
      BY DEF SubmissionInv, AggregatesMatchAttempts
    <3>2. QED
      BY <1>8, <3>1
  <2>4. QED
    BY <1>8, <2>2, <2>3 DEF Aggregates
<1>17. Asked' = Asked /\ Asked[r] = x /\ DOMAIN Answered = Attempted(db)
  BY <1>2, <1>8 DEF Asked, Answered
<1>18. last = (Slots \subseteq DOMAIN Answered \cup {x})
  BY <1>2, <1>17
<1>19. x \in Slots \ DOMAIN Answered
  BY <1>1, <1>2, <1>17
<1> HIDE DEF last
<1>20. QED
  BY <1>4, <1>7, <1>14, <1>15, <1>16, <1>17, <1>18, <1>19 DEF Once!Submit

LEMMA OnceBegins == Init => Once!Init
<1> SUFFICES ASSUME Init PROVE Once!Init
  OBVIOUS
<1>1. /\ db = NoRows /\ \A r \in Requests : ~Succeeded(r)
  BY DEF Init, Succeeded
<1>2. Answered = [x \in {} |-> x]
  <2>1. Attempted(db) = {}
    BY <1>1 DEF NoRows, Attempted
  <2>2. QED
    BY <2>1 DEF Answered
<1>3. Told = [x \in {} |-> x]
  <2>1. {s \in Requests : Succeeded(s)} = {}
    BY <1>1
  <2>2. QED
    BY <2>1 DEF Told
<1>4. Aggregates = [total_attempts |-> 0, active_today |-> FALSE, transitions |-> 0,
                    completed |-> FALSE]
  BY <1>1 DEF NoRows, Aggregates
<1>5. QED
  BY <1>2, <1>3, <1>4 DEF Once!Init, Once!Nothing

(* D-104, docs/05 section 9: POST /v1/attempts implements SubmitOnce.  For *)
(* any number of requests, retries, crashes and slow graders, what clients *)
(* see is submissions taking place one by one: a commit is one, an answer  *)
(* of a success tells its outcome, and nothing else is visible.            *)
THEOREM SubmissionImplementsOnce == Spec => SubmitsOnce
<1>1. OnceInv /\ (OnceInv /\ SuccessesAreTrue)' /\ [Next]_vars => [Once!Next]_(Once!vars)
  <2> SUFFICES ASSUME OnceInv, OnceInv', SuccessesAreTrue', [Next]_vars
               PROVE  [Once!Next]_(Once!vars)
    OBVIOUS
  <2>1. TypeInv' /\ SubmissionInv'
    BY DEF OnceInv
  <2>2. CASE UNCHANGED db
    BY <2>1, <2>2, NoCommitTells
  <2>3. CASE \E r \in Requests : Commit(r)
    BY <2>1, <2>3, CommitSubmits DEF Once!Next
  <2>4. UNCHANGED db \/ \E r \in Requests : Commit(r)
    BY DEF Next, Proceed, Limit, Lookup, Reserve, Poll, GiveUp, FindSlot, Lock, Check, Store,
           Release, Crash, Expire, vars
  <2>5. QED
    BY <2>2, <2>3, <2>4
<1>2. QED
  BY OnceHolds, OnceBegins, ASuccessIsTheAnswer, <1>1, PTL DEF Spec, SubmitsOnce, Once!Spec

-----------------------------------------------------------------------------
(* The partitions of the table (AttemptPartitions). *)

\* The least of some numbers, and the greatest of an interval.
LEMMA LeastOfNumbers ==
    ASSUME NEW numbers \in SUBSET Int, numbers # {}, NEW bound \in Int,
           \A n \in numbers : bound <= n
    PROVE  /\ P!Min(numbers) \in numbers
           /\ \A n \in numbers : P!Min(numbers) <= n
<1> DEFINE less == {ss \in Nat \X Nat : ss[1] < ss[2]}
           heights == {n - bound : n \in numbers}
<1>1. IsWellFoundedOn(less, Nat)
  BY NatLessThanWellFounded DEF OpToRel
<1>2. heights \subseteq Nat /\ heights # {}
  <2>1. \A n \in numbers : n - bound \in Nat
    OBVIOUS
  <2>2. QED
    BY <2>1
<1>3. PICK h \in heights : \A k \in heights : <<k, h>> \notin less
  <2> HIDE DEF less, heights
  <2> QED
    BY <1>1, <1>2, WFMin
<1>4. PICK n \in numbers : h = n - bound
  OBVIOUS
<1>5. \A k \in numbers : n <= k
  <2> SUFFICES ASSUME NEW k \in numbers, k < n PROVE FALSE
    OBVIOUS
  <2>1. k - bound \in heights /\ k - bound \in Nat /\ h \in Nat /\ k - bound < h
    BY <1>4
  <2>2. QED
    BY <2>1, <1>3
<1>6. QED
  BY <1>5 DEF P!Min

LEMMA GreatestOfInterval ==
    ASSUME NEW a \in Int, NEW b \in Int, a <= b
    PROVE  P!Max(a .. b) = b
BY DEF P!Max

-----------------------------------------------------------------------------
\* A run under way.
UnderWay(R) == R.phase \notin P!Over \cup {"idle"}

\* The months that a run has set out to do.
Targets(R) == {m \in P!Max(R.found.parts) + 1 .. R.today + 1 :
                   m < P!Max(R.found.parts) + 1 + MAX_MONTHS_PER_RUN}

Gone(R) == {s[1] : s \in R.moved}

StraysIn(st) == {r \in Attempts : <<r, Default>> \in st}

Here(R) == P!Min(R.todo)

\* What it found when it began is still so.
FoundStill(R, ps, at) ==
    /\ R.found.parts \subseteq ps
    /\ \E top \in Int : FirstMonth <= top /\ R.found.parts = FirstMonth .. top
    /\ FirstMonth <= R.today
    /\ \A r \in R.found.strays : at[r].phase = "committed"

\* A month that is done has a partition, of this run or another; the tables
\* of this run are new.
Walks(R, ps) ==
    /\ R.todo \subseteq Targets(R) /\ R.made \subseteq Targets(R)
    /\ Targets(R) \ R.todo \subseteq ps \cup R.made
    /\ R.made \cap ps = {}
    /\ R.phase = "move" => Here(R) \in ps \cup R.made
    /\ \A m \in R.made \cap R.todo : m = Here(R) /\ R.phase \in {"move", "attach", "attaching"}

\* Once a partition is made nobody uses the default one, and no row of the
\* month is left there.
Seals(R, st, at) ==
    R.made \ R.todo # {} =>
        /\ R.lock = "exclusive"
        /\ \A r \in StraysIn(st) : at[r].month \in R.made \ R.todo => r \in Gone(R)
        /\ \A r \in Attempts : ~(at[r].phase = "inserted" /\ at[r].table = Default)

\* Rows are moved from the default partition to the table of their month.
Moves(R, st, at) ==
    \A s \in R.moved : s[1] \in StraysIn(st) /\ s[2] = at[s[1]].month /\ s[2] \in R.made

\* What it found in the default partition of the month at hand is drained.
Drains(R, st, at) ==
    R.phase \in {"create", "creating", "attach", "attaching"} =>
        \A r \in StraysIn(st) :
            at[r].month = Here(R) /\ r \in R.found.strays =>
                R.phase \in {"attach", "attaching"} /\ r \in Gone(R)

RunsWell(R, ps, st, at) ==
    /\ UnderWay(R) => /\ FoundStill(R, ps, at) /\ Walks(R, ps) /\ Seals(R, st, at)
                      /\ Moves(R, st, at) /\ Drains(R, st, at)
    /\ ~UnderWay(R) => R.made = {} /\ R.moved = {} /\ R.lock = "none" /\ ~R.parent
    /\ R.phase = "done" =>
           \/ R.today + 1 \in ps
           \/ P!Max(R.found.parts) + MAX_MONTHS_PER_RUN \in ps
    /\ R.phase = "failed" =>
           /\ R.found.parts \subseteq ps
           /\ R.found.parts # ps \/ ~(StraysIn(st) \subseteq R.found.strays)

\* Where a row that is being inserted goes.
GoesRight(a, ps) ==
    a.phase \in {"routed", "inserted"} =>
        /\ a.table \in {Default, a.month}
        /\ a.table = a.month => a.month \in ps
        /\ a.phase = "inserted" /\ a.table = Default => a.month \notin ps

PlacedRight(r, ps, st, at) ==
    LET m == at[r].month
    IN  {s \in st : s[1] = r} =
            IF at[r].phase # "committed" THEN {}
            ELSE {<<r, IF m \in ps THEN m ELSE Default>>}

PartitionsInv ==
    /\ P!TypeOK
    /\ \E top \in Int : FirstMonth <= top /\ parts = FirstMonth .. top
    /\ FirstMonth <= month
    /\ \A r \in Attempts : GoesRight(attempt[r], parts) /\ PlacedRight(r, parts, stored, attempt)
    /\ \A j \in Runs : RunsWell(run[j], parts, stored, attempt)
    /\ \A j, k \in Runs : j # k =>
           /\ run[j].lock = "exclusive" => run[k].lock = "none"
           /\ run[j].made \cap run[k].made = {}

-----------------------------------------------------------------------------
\* The types of a run.
RunShape == [phase : P!Phases, today : Int, todo : SUBSET Int, made : SUBSET Int,
             moved : SUBSET (Attempts \X Int), parent : BOOLEAN, lock : P!Locks,
             found : [parts : SUBSET Int, strays : SUBSET Attempts]]

LEMMA RunHasItsShape ==
    ASSUME P!TypeOK, NEW j \in Runs
    PROVE  /\ run[j] \in RunShape
           /\ run[j].todo = {} => run[j].phase \in P!Over \cup {"idle", "count"}
BY DEF P!TypeOK, RunShape

\* The month at hand is to do.
LEMMA HereIsToDo ==
    ASSUME PartitionsAssumption, PartitionsInv, NEW j \in Runs, UnderWay(run[j]), run[j].todo # {}
    PROVE  /\ Here(run[j]) = P!Current(j)
           /\ Here(run[j]) \in run[j].todo /\ Here(run[j]) \in Int
           /\ \A m \in run[j].todo : Here(run[j]) <= m
           /\ Here(run[j]) \notin run[j].found.parts
<1> DEFINE R == run[j]
<1>1. FoundStill(R, parts, attempt) /\ Walks(R, parts)
  BY DEF PartitionsInv, RunsWell
<1>2. PICK top \in Int : FirstMonth <= top /\ R.found.parts = FirstMonth .. top
  BY <1>1 DEF FoundStill
<1>3. P!Max(R.found.parts) = top
  BY <1>2, GreatestOfInterval DEF PartitionsAssumption
<1>4. R.todo \in SUBSET Int /\ \A n \in R.todo : top + 1 <= n
  <2>1. R \in RunShape
    BY RunHasItsShape DEF PartitionsInv
  <2>2. R.today \in Int
    BY <2>1 DEF RunShape
  <2>3. QED
    BY <1>1, <1>2, <1>3, <2>1, <2>2 DEF Walks, Targets, RunShape
<1>5. /\ P!Min(R.todo) \in R.todo
      /\ \A n \in R.todo : P!Min(R.todo) <= n
  <2> HIDE DEF R
  <2>1. top + 1 \in Int
    BY <1>2
  <2>2. R.todo # {}
    BY DEF R
  <2>3. QED
    BY <1>4, <2>1, <2>2, LeastOfNumbers
<1>6. P!Min(R.todo) \notin R.found.parts
  BY <1>2, <1>4, <1>5 DEF PartitionsAssumption
<1>7. QED
  BY <1>4, <1>5, <1>6 DEF Here, P!Current

\* A step of a run that nobody else sees.
LEMMA LocalStep ==
    ASSUME PartitionsInv, NEW j \in Runs, NEW R \in RunShape,
           run' = [run EXCEPT ![j] = R], UNCHANGED <<month, parts, stored, attempt>>,
           deaths' \in Nat,
           R.todo = {} => R.phase \in P!Over \cup {"idle", "count"},
           RunsWell(R, parts, stored, attempt),
           \A k \in Runs \ {j} :
               /\ R.lock = "exclusive" => run[k].lock = "none"
               /\ run[k].lock = "exclusive" => R.lock = "none"
               /\ R.made \cap run[k].made = {}
    PROVE  PartitionsInv'
<1>1. run'[j] = R /\ \A k \in Runs \ {j} : run'[k] = run[k]
  BY DEF PartitionsInv, P!TypeOK
<1>2. P!TypeOK'
  BY <1>1 DEF PartitionsInv, P!TypeOK, RunShape
<1>3. \A k \in Runs : RunsWell(run'[k], parts, stored, attempt)
  BY <1>1 DEF PartitionsInv
<1>4. \A k, l \in Runs : k # l =>
           /\ run'[k].lock = "exclusive" => run'[l].lock = "none"
           /\ run'[k].made \cap run'[l].made = {}
  <2> SUFFICES ASSUME NEW k \in Runs, NEW l \in Runs, k # l
               PROVE  /\ run'[k].lock = "exclusive" => run'[l].lock = "none"
                      /\ run'[k].made \cap run'[l].made = {}
    OBVIOUS
  <2>1. CASE k = j
    BY <1>1, <2>1
  <2>2. CASE l = j
    BY <1>1, <2>2
  <2>3. CASE k # j /\ l # j
    BY <1>1, <2>3 DEF PartitionsInv
  <2>4. QED
    BY <2>1, <2>2, <2>3
<1>5. QED
  BY <1>2, <1>3, <1>4 DEF PartitionsInv

\* A run that is over, or not begun, holds nothing.
LEMMA IdleRunsWell ==
    ASSUME PartitionsInv, NEW j \in Runs, NEW phase \in {"idle", "victim"},
           run' = [run EXCEPT ![j] = [P!Idle EXCEPT !.phase = phase]],
           UNCHANGED <<month, parts, stored, attempt>>, deaths' \in Nat
    PROVE  PartitionsInv'
<1> DEFINE R == [P!Idle EXCEPT !.phase = phase]
<1>1. P!Idle \in RunShape
  BY DEF P!Idle, RunShape, P!Phases, P!Locks, P!Over
<1>2. /\ R \in RunShape /\ R.phase = phase
      /\ R.made = {} /\ R.moved = {} /\ R.lock = "none" /\ ~R.parent
  BY <1>1 DEF P!Idle, RunShape, P!Phases, P!Locks, P!Over
<1>3. RunsWell(R, parts, stored, attempt)
  BY <1>2 DEF RunsWell, UnderWay, P!Over
<1>4. R.phase \in P!Over \cup {"idle", "count"}
  BY <1>2 DEF P!Over
<1> HIDE DEF R
<1>5. QED
  BY <1>2, <1>3, <1>4, LocalStep DEF R

\* At first the partitions are those of the schema.
LEMMA PartitionsInit ==
    ASSUME PartitionsAssumption, P!Init
    PROVE  PartitionsInv
<1>1. \A j \in Runs : run[j] = P!Idle
  BY DEF P!Init
<1>2. P!TypeOK
  BY DEF P!Init, P!TypeOK, P!Idle, P!Unused, P!Phases, P!Locks, P!Over, P!Bootstrapped,
         PartitionsAssumption
<1>3. parts = FirstMonth .. LatestMonth /\ FirstMonth <= LatestMonth /\ LatestMonth \in Int
      /\ FirstMonth <= month
  BY DEF P!Init, P!Bootstrapped, PartitionsAssumption
<1>4. \A r \in Attempts : GoesRight(attempt[r], parts) /\ PlacedRight(r, parts, stored, attempt)
  BY DEF P!Init, P!Unused, GoesRight, PlacedRight
<1>5. \A j \in Runs : RunsWell(run[j], parts, stored, attempt)
  BY <1>1 DEF P!Idle, RunsWell, UnderWay, P!Over
<1>6. \A j, k \in Runs : j # k =>
           /\ run[j].lock = "exclusive" => run[k].lock = "none"
           /\ run[j].made \cap run[k].made = {}
  BY <1>1 DEF P!Idle
<1>7. QED
  BY <1>2, <1>3, <1>4, <1>5, <1>6 DEF PartitionsInv

-----------------------------------------------------------------------------
\* Submissions.
AttemptShape == [phase : {"none", "begun", "routed", "inserted", "committed", "failed"},
                 month : Int, table : Int \cup {Default}]

\* Rows that are not committed are stored nowhere.
LEMMA StraysAreCommitted ==
    ASSUME PartitionsAssumption, PartitionsInv, NEW r \in StraysIn(stored)
    PROVE  attempt[r].phase = "committed" /\ attempt[r].month \notin parts
<1>1. r \in Attempts /\ <<r, Default>> \in {s \in stored : s[1] = r}
  BY DEF StraysIn
<1>2. PlacedRight(r, parts, stored, attempt)
  BY <1>1 DEF PartitionsInv
<1>3. attempt[r].phase = "committed"
  BY <1>1, <1>2 DEF PlacedRight
<1>4. attempt[r].month \in parts => Default = attempt[r].month
  <2>1. ASSUME attempt[r].month \in parts
        PROVE  <<r, Default>> \in {<<r, attempt[r].month>>}
    BY <1>1, <1>2, <1>3, <2>1 DEF PlacedRight
  <2>2. QED
    BY <2>1
<1>5. QED
  BY <1>3, <1>4, <1>1 DEF PartitionsInv, P!TypeOK, PartitionsAssumption

\* A step of a submission that has not committed.
LEMMA UncommittedStep ==
    ASSUME PartitionsAssumption, PartitionsInv, NEW r \in Attempts, NEW a \in AttemptShape,
           attempt' = [attempt EXCEPT ![r] = a], UNCHANGED <<month, parts, stored, run, deaths>>,
           attempt[r].phase # "committed", a.phase # "committed", GoesRight(a, parts),
           a.phase = "inserted" /\ a.table = Default => \A j \in Runs : run[j].lock # "exclusive"
    PROVE  PartitionsInv'
<1>1. /\ attempt'[r] = a /\ \A q \in Attempts \ {r} : attempt'[q] = attempt[q]
      /\ P!TypeOK'
  BY DEF PartitionsInv, P!TypeOK, AttemptShape
<1>2. \A q \in StraysIn(stored) : attempt'[q] = attempt[q]
  BY <1>1, StraysAreCommitted DEF StraysIn
<1>3. \A q \in Attempts : GoesRight(attempt'[q], parts) /\ PlacedRight(q, parts, stored, attempt')
  BY <1>1 DEF PartitionsInv, PlacedRight
<1>4. ASSUME NEW j \in Runs
      PROVE  RunsWell(run[j], parts, stored, attempt')
  <2>1. RunsWell(run[j], parts, stored, attempt)
    BY DEF PartitionsInv
  <2>2. ASSUME UnderWay(run[j]) PROVE FoundStill(run[j], parts, attempt')
    <3>1. FoundStill(run[j], parts, attempt)
      BY <2>1, <2>2 DEF RunsWell
    <3>2. run[j].found.strays \subseteq Attempts
      BY RunHasItsShape DEF PartitionsInv, RunShape
    <3>3. QED
      BY <3>1, <3>2, <1>1 DEF FoundStill
  <2>3. ASSUME UnderWay(run[j]) PROVE Seals(run[j], stored, attempt')
    <3>1. Seals(run[j], stored, attempt)
      BY <2>1, <2>3 DEF RunsWell
    <3>2. QED
      BY <3>1, <1>1, <1>2 DEF Seals
  <2>4. ASSUME UnderWay(run[j]) PROVE Moves(run[j], stored, attempt')
    BY <2>1, <2>4, <1>2 DEF RunsWell, Moves
  <2>5. ASSUME UnderWay(run[j]) PROVE Drains(run[j], stored, attempt')
    BY <2>1, <2>5, <1>2 DEF RunsWell, Drains
  <2>6. QED
    BY <2>1, <2>2, <2>3, <2>4, <2>5 DEF RunsWell
<1>5. QED
  BY <1>1, <1>3, <1>4 DEF PartitionsInv

\* Each step of a submission.
LEMMA SubmissionsStep ==
    ASSUME PartitionsAssumption, PartitionsInv, NEW r \in Attempts,
           P!Submit(r) \/ P!Route(r) \/ P!Insert(r) \/ P!AbortAttempt(r)
    PROVE  PartitionsInv'
<1>1. /\ attempt[r] \in AttemptShape /\ month \in Int
      /\ GoesRight(attempt[r], parts)
  BY DEF PartitionsInv, P!TypeOK, AttemptShape
<1>2. CASE P!Submit(r)
  <2> DEFINE a == [attempt[r] EXCEPT !.phase = "begun", !.month = month]
  <2>1. a \in AttemptShape /\ a.phase = "begun"
    BY <1>1 DEF AttemptShape
  <2>2. attempt' = [attempt EXCEPT ![r] = a] /\ attempt[r].phase = "none"
        /\ UNCHANGED <<month, parts, stored, run, deaths>>
    BY <1>2 DEF P!Submit
  <2> HIDE DEF a
  <2>3. QED
    BY <2>1, <2>2, UncommittedStep DEF GoesRight
<1>3. CASE P!Route(r)
  <2> DEFINE m == attempt[r].month
             a == [attempt[r] EXCEPT !.phase = "routed", !.table = IF m \in parts THEN m ELSE Default]
  <2>1. /\ a \in AttemptShape /\ a.phase = "routed" /\ a.month = m
        /\ a.table = IF m \in parts THEN m ELSE Default
    BY <1>1 DEF AttemptShape
  <2>2. attempt' = [attempt EXCEPT ![r] = a] /\ attempt[r].phase = "begun"
        /\ UNCHANGED <<month, parts, stored, run, deaths>>
    BY <1>3 DEF P!Route
  <2>3. m \in Int
    BY <1>1 DEF AttemptShape
  <2> HIDE DEF a, m
  <2>4. GoesRight(a, parts)
    BY <2>1, <2>3 DEF GoesRight, PartitionsAssumption
  <2>5. QED
    BY <2>1, <2>2, <2>4, UncommittedStep
<1>4. CASE P!Insert(r)
  <2> DEFINE to == attempt[r].table
             ph == IF to = Default /\ attempt[r].month \in parts THEN "failed" ELSE "inserted"
             a == [attempt[r] EXCEPT !.phase = ph]
  <2>1. /\ a \in AttemptShape /\ a.phase = ph /\ a.month = attempt[r].month /\ a.table = to
    BY <1>1 DEF AttemptShape
  <2>2. attempt' = [attempt EXCEPT ![r] = a] /\ attempt[r].phase = "routed"
        /\ UNCHANGED <<month, parts, stored, run, deaths>>
        /\ (to = Default => \A j \in Runs : run[j].lock # "exclusive")
    BY <1>4 DEF P!Insert
  <2>3. GoesRight(a, parts)
    BY <1>1, <2>1, <2>2 DEF GoesRight
  <2>4. a.phase # "committed"
    BY <2>1
  <2> HIDE DEF a, ph
  <2>5. QED
    BY <2>1, <2>2, <2>3, <2>4, UncommittedStep
<1>5. CASE P!AbortAttempt(r)
  <2> DEFINE a == [attempt[r] EXCEPT !.phase = "failed"]
  <2>1. a \in AttemptShape /\ a.phase = "failed"
    BY <1>1 DEF AttemptShape
  <2>2. attempt' = [attempt EXCEPT ![r] = a] /\ attempt[r].phase # "committed"
        /\ UNCHANGED <<month, parts, stored, run, deaths>>
    BY <1>5 DEF P!AbortAttempt
  <2> HIDE DEF a
  <2>3. QED
    BY <2>1, <2>2, UncommittedStep DEF GoesRight
<1>6. QED
  BY <1>2, <1>3, <1>4, <1>5

\* A row that is committed is where it was routed to.
LEMMA CommitStep ==
    ASSUME PartitionsAssumption, PartitionsInv, NEW r \in Attempts, P!CommitAttempt(r)
    PROVE  PartitionsInv'
<1> DEFINE to == attempt[r].table
<1>1. /\ attempt[r] \in AttemptShape /\ attempt[r].phase = "inserted"
      /\ GoesRight(attempt[r], parts) /\ PlacedRight(r, parts, stored, attempt)
      /\ UNCHANGED <<month, parts, run, deaths>>
      /\ stored' = stored \cup {<<r, to>>}
  BY DEF PartitionsInv, P!TypeOK, AttemptShape, P!CommitAttempt
<1>2. /\ attempt'[r] = [attempt[r] EXCEPT !.phase = "committed"]
      /\ \A q \in Attempts \ {r} : attempt'[q] = attempt[q]
      /\ attempt'[r] \in AttemptShape /\ attempt'[r].phase = "committed"
      /\ attempt'[r].month = attempt[r].month /\ attempt'[r].table = to
  BY <1>1 DEF PartitionsInv, P!TypeOK, AttemptShape, P!CommitAttempt
<1>3. P!TypeOK'
  <2>1. attempt' \in [Attempts -> AttemptShape]
    BY <1>1, <1>2 DEF P!CommitAttempt, PartitionsInv, P!TypeOK, AttemptShape
  <2>2. stored' \subseteq Attempts \X (Int \cup {Default})
    BY <1>1 DEF AttemptShape, PartitionsInv, P!TypeOK
  <2>3. QED
    BY <1>1, <2>1, <2>2 DEF AttemptShape, PartitionsInv, P!TypeOK
<1>4. to = IF attempt[r].month \in parts THEN attempt[r].month ELSE Default
  BY <1>1 DEF GoesRight, AttemptShape, PartitionsAssumption
<1>5. ASSUME NEW q \in Attempts
      PROVE  GoesRight(attempt'[q], parts) /\ PlacedRight(q, parts, stored', attempt')
  <2>1. CASE q = r
    <3>1. {s \in stored : s[1] = r} = {}
      BY <1>1 DEF PlacedRight
    <3>2. {s \in stored' : s[1] = r} = {<<r, to>>}
      BY <1>1, <3>1
    <3>3. QED
      BY <1>2, <1>4, <2>1, <3>2 DEF GoesRight, PlacedRight
  <2>2. CASE q # r
    <3>1. {s \in stored' : s[1] = q} = {s \in stored : s[1] = q}
      BY <1>1, <2>2
    <3>2. QED
      BY <1>2, <2>2, <3>1 DEF PartitionsInv, PlacedRight
  <2>3. QED
    BY <2>1, <2>2
<1>6. /\ StraysIn(stored) \subseteq StraysIn(stored')
      /\ \A q \in StraysIn(stored') : (q = r /\ to = Default) \/ q \in StraysIn(stored)
      /\ \A q \in StraysIn(stored) : attempt'[q] = attempt[q]
  BY <1>1, <1>2, StraysAreCommitted DEF StraysIn
<1>7. ASSUME NEW j \in Runs
      PROVE  RunsWell(run[j], parts, stored', attempt')
  <2>1. RunsWell(run[j], parts, stored, attempt)
    BY DEF PartitionsInv
  <2>2. ASSUME UnderWay(run[j])
        PROVE  FoundStill(run[j], parts, attempt') /\ r \notin run[j].found.strays
    <3>1. FoundStill(run[j], parts, attempt)
      BY <2>1, <2>2 DEF RunsWell
    <3>2. run[j].found.strays \subseteq Attempts
      BY RunHasItsShape DEF PartitionsInv, RunShape
    <3>3. QED
      BY <3>1, <3>2, <1>1, <1>2 DEF FoundStill
  <2>3. ASSUME UnderWay(run[j]) PROVE Seals(run[j], stored', attempt')
    <3>1. Seals(run[j], stored, attempt)
      BY <2>1, <2>3 DEF RunsWell
    <3>2. CASE run[j].made \ run[j].todo # {}
      <4>1. to # Default
        BY <1>1, <3>1, <3>2 DEF Seals
      <4>2. \A q \in Attempts : attempt'[q].phase = "inserted" =>
                attempt[q].phase = "inserted" /\ attempt'[q].table = attempt[q].table
        BY <1>2
      <4>3. QED
        BY <1>6, <3>1, <3>2, <4>1, <4>2 DEF Seals
    <3>3. QED
      BY <3>2 DEF Seals
  <2>4. ASSUME UnderWay(run[j]) PROVE Moves(run[j], stored', attempt')
    BY <2>1, <2>4, <1>6 DEF RunsWell, Moves
  <2>5. ASSUME UnderWay(run[j]) PROVE Drains(run[j], stored', attempt')
    BY <2>1, <2>2, <2>5, <1>6 DEF RunsWell, Drains
  <2>6. QED
    BY <2>1, <2>2, <2>3, <2>4, <2>5, <1>6 DEF RunsWell
<1>8. QED
  BY <1>1, <1>3, <1>5, <1>7 DEF PartitionsInv

-----------------------------------------------------------------------------
\* The run begins with the months after the last that has a partition.
LEMMA StartStep ==
    ASSUME PartitionsAssumption, PartitionsInv, NEW j \in Runs, P!Start(j)
    PROVE  PartitionsInv'
<1> DEFINE R == [P!Idle EXCEPT !.phase = "count", !.today = month, !.todo = P!MonthsToCreate,
                               !.found = [parts |-> parts, strays |-> P!Strays]]
<1>1. /\ run' = [run EXCEPT ![j] = R]
      /\ UNCHANGED <<month, parts, stored, attempt, deaths>>
  BY DEF P!Start
<1>2. PICK top \in Int : FirstMonth <= top /\ parts = FirstMonth .. top
  BY DEF PartitionsInv
<1>3. P!Max(parts) = top /\ parts # {} /\ month \in Int
  <2>1. P!Max(FirstMonth .. top) = top
    BY <1>2, GreatestOfInterval DEF PartitionsAssumption
  <2>2. parts # {}
    BY <1>2 DEF PartitionsAssumption
  <2>3. QED
    BY <1>2, <2>1, <2>2 DEF PartitionsInv, P!TypeOK
<1>4. P!MonthsToCreate = {m \in top + 1 .. month + 1 : m < top + 1 + MAX_MONTHS_PER_RUN}
  BY <1>3 DEF P!MonthsToCreate
<1>5. /\ R \in RunShape /\ R.phase = "count" /\ R.today = month /\ R.todo = P!MonthsToCreate
      /\ R.made = {} /\ R.moved = {} /\ R.lock = "none" /\ ~R.parent
      /\ R.found.parts = parts /\ R.found.strays = StraysIn(stored)
  <2>1. P!MonthsToCreate \subseteq Int
    BY <1>2, <1>3, <1>4
  <2>2. P!Idle \in RunShape
    BY DEF P!Idle, RunShape, P!Phases, P!Locks, P!Over
  <2>3. P!Idle.made = {} /\ P!Idle.moved = {} /\ P!Idle.lock = "none" /\ P!Idle.parent = FALSE
    BY DEF P!Idle
  <2>4. P!Strays = StraysIn(stored) /\ StraysIn(stored) \subseteq Attempts /\ parts \subseteq Int
    BY <1>2 DEF P!Strays, StraysIn, PartitionsAssumption
  <2>5. QED
    BY <1>3, <2>1, <2>2, <2>3, <2>4 DEF RunShape, P!Phases
<1> HIDE DEF R
<1>6. FoundStill(R, parts, attempt)
  BY <1>2, <1>5, StraysAreCommitted DEF FoundStill, PartitionsInv
<1>7. Walks(R, parts)
  BY <1>3, <1>4, <1>5 DEF Walks, Targets
<1>8. Seals(R, stored, attempt) /\ Moves(R, stored, attempt) /\ Drains(R, stored, attempt)
  BY <1>5 DEF Seals, Moves, Drains
<1>9. RunsWell(R, parts, stored, attempt)
  BY <1>5, <1>6, <1>7, <1>8 DEF RunsWell, UnderWay, P!Over
<1>10. /\ deaths' \in Nat
       /\ \A k \in Runs \ {j} : R.lock # "exclusive" /\ (run[k].lock = "exclusive" => R.lock = "none")
                               /\ R.made \cap run[k].made = {}
  BY <1>1, <1>5 DEF PartitionsInv, P!TypeOK
<1>11. QED
  BY <1>1, <1>5, <1>9, <1>10, LocalStep

\* Counting finds whatever the run found in the month when it began.
LEMMA CountStep ==
    ASSUME PartitionsAssumption, PartitionsInv, NEW j \in Runs, P!Count(j)
    PROVE  PartitionsInv'
<1> DEFINE S == run[j]
           ph == IF P!InDefault(P!Current(j)) = {} THEN "create" ELSE "like"
           lk == IF S.lock = "none" THEN "shared" ELSE S.lock
           R  == [S EXCEPT !.phase = ph, !.lock = lk]
<1>1. /\ run' = [run EXCEPT ![j] = R]
      /\ UNCHANGED <<month, parts, stored, attempt, deaths>>
      /\ S.phase = "count" /\ S.todo # {} /\ ~P!Excluded(j)
  BY DEF P!Count
<1>2. S \in RunShape /\ UnderWay(S) /\ RunsWell(S, parts, stored, attempt)
  BY <1>1, RunHasItsShape DEF PartitionsInv, UnderWay, P!Over
<1>3. /\ R \in RunShape /\ R.phase = ph /\ R.lock = lk
      /\ R.today = S.today /\ R.todo = S.todo /\ R.made = S.made /\ R.moved = S.moved
      /\ R.parent = S.parent /\ R.found = S.found
  BY <1>2 DEF RunShape, P!Phases, P!Locks
<1>4. Here(S) = P!Current(j)
  BY <1>1, <1>2, HereIsToDo
<1>5. ph = "create" => \A r \in StraysIn(stored) : attempt[r].month # Here(S)
  BY <1>4 DEF P!InDefault, P!Strays, StraysIn
<1>6. /\ lk = "exclusive" <=> S.lock = "exclusive"
      /\ S.made \ S.todo # {} => lk = S.lock
      /\ lk # "none"
  BY <1>2 DEF RunsWell, Seals
<1>7. ph \in {"create", "like"}
  OBVIOUS
<1> HIDE DEF R, ph, lk
<1>8. FoundStill(R, parts, attempt) /\ Walks(R, parts)
  BY <1>1, <1>2, <1>3, <1>7 DEF RunsWell, FoundStill, Walks, Targets, Here
<1>9. Seals(R, stored, attempt) /\ Moves(R, stored, attempt)
  BY <1>2, <1>3, <1>6 DEF RunsWell, Seals, Moves, Gone
<1>10. Drains(R, stored, attempt)
  BY <1>3, <1>5, <1>7 DEF Drains, Here
<1>11. RunsWell(R, parts, stored, attempt)
  BY <1>3, <1>7, <1>8, <1>9, <1>10 DEF RunsWell, UnderWay, P!Over
<1>12. \A k \in Runs \ {j} :
               /\ R.lock = "exclusive" => run[k].lock = "none"
               /\ run[k].lock = "exclusive" => R.lock = "none"
               /\ R.made \cap run[k].made = {}
  BY <1>1, <1>3, <1>6 DEF PartitionsInv, P!Excluded
<1>13. QED
  BY <1>1, <1>3, <1>11, <1>12, LocalStep DEF PartitionsInv, P!TypeOK

\* A partition that is there needs no making.
LEMMA AlreadyThereStep ==
    ASSUME PartitionsAssumption, PartitionsInv, NEW j \in Runs, P!AlreadyThere(j)
    PROVE  PartitionsInv'
<1> DEFINE S == run[j]
           rest == S.todo \ {P!Current(j)}
           R == [S EXCEPT !.phase = "count", !.todo = rest]
<1>1. /\ run' = [run EXCEPT ![j] = R]
      /\ UNCHANGED <<month, parts, stored, attempt, deaths>>
      /\ S.phase = "create" /\ P!Current(j) \in parts
  BY DEF P!AlreadyThere
<1>2. S \in RunShape /\ UnderWay(S) /\ RunsWell(S, parts, stored, attempt) /\ S.todo # {}
  BY <1>1, RunHasItsShape DEF PartitionsInv, UnderWay, P!Over
<1>3. /\ R \in RunShape /\ R.phase = "count" /\ R.lock = S.lock
      /\ R.today = S.today /\ R.todo = rest /\ R.made = S.made /\ R.moved = S.moved
      /\ R.parent = S.parent /\ R.found = S.found
  BY <1>2 DEF RunShape, P!Phases, P!Locks
<1>4. Here(S) = P!Current(j) /\ Here(S) \in S.todo /\ rest = S.todo \ {Here(S)}
  BY <1>1, <1>2, HereIsToDo DEF Here
<1> HIDE DEF R, rest
<1>5. FoundStill(R, parts, attempt) /\ Walks(R, parts)
  <2>1. S.made \cap S.todo = {} /\ Here(S) \notin S.made
    BY <1>1, <1>2, <1>4 DEF RunsWell, Walks
  <2>2. QED
    BY <1>1, <1>2, <1>3, <1>4, <2>1 DEF RunsWell, FoundStill, Walks, Targets
<1>6. Seals(R, stored, attempt) /\ Moves(R, stored, attempt) /\ Drains(R, stored, attempt)
  <2>1. R.made \ R.todo = S.made \ S.todo
    BY <1>1, <1>2, <1>3, <1>4 DEF RunsWell, Walks
  <2>2. QED
    BY <1>2, <1>3, <2>1 DEF RunsWell, Seals, Moves, Drains, Gone
<1>7. RunsWell(R, parts, stored, attempt)
  BY <1>3, <1>5, <1>6 DEF RunsWell, UnderWay, P!Over
<1>8. /\ deaths' \in Nat
      /\ \A k \in Runs \ {j} :
               /\ R.lock = "exclusive" => run[k].lock = "none"
               /\ run[k].lock = "exclusive" => R.lock = "none"
               /\ R.made \cap run[k].made = {}
  BY <1>1, <1>3 DEF PartitionsInv, P!TypeOK
<1>9. QED
  BY <1>1, <1>3, <1>7, <1>8, LocalStep

\* The table that is to be the partition is the run's alone.
LEMMA LikeStep ==
    ASSUME PartitionsAssumption, PartitionsInv, NEW j \in Runs, P!Like(j)
    PROVE  PartitionsInv'
<1> DEFINE S == run[j]
           tables == S.made \cup ({P!Current(j)} \ parts)
           R == [S EXCEPT !.phase = "move", !.made = tables]
<1>1. /\ run' = [run EXCEPT ![j] = R]
      /\ UNCHANGED <<month, parts, stored, attempt, deaths>>
      /\ S.phase = "like" /\ ~P!NameIsTaken(j)
  BY DEF P!Like
<1>2. S \in RunShape /\ UnderWay(S) /\ RunsWell(S, parts, stored, attempt) /\ S.todo # {}
  BY <1>1, RunHasItsShape DEF PartitionsInv, UnderWay, P!Over
<1>3. /\ Here(S) = P!Current(j) /\ Here(S) \in S.todo /\ Here(S) \in Int
      /\ tables = S.made \cup ({Here(S)} \ parts)
  BY <1>1, <1>2, HereIsToDo DEF Here
<1>4. /\ R \in RunShape /\ R.phase = "move" /\ R.lock = S.lock
      /\ R.today = S.today /\ R.todo = S.todo /\ R.made = tables /\ R.moved = S.moved
      /\ R.parent = S.parent /\ R.found = S.found
  BY <1>2, <1>3 DEF RunShape, P!Phases, P!Locks
<1> HIDE DEF R, tables
<1>5. Here(R) = Here(S)
  BY <1>4 DEF Here
<1>6. FoundStill(R, parts, attempt) /\ Walks(R, parts)
  BY <1>1, <1>2, <1>3, <1>4, <1>5 DEF RunsWell, FoundStill, Walks, Targets
<1>7. Seals(R, stored, attempt) /\ Moves(R, stored, attempt) /\ Drains(R, stored, attempt)
  <2>1. R.made \ R.todo = S.made \ S.todo
    BY <1>3, <1>4
  <2>2. QED
    BY <1>2, <1>3, <1>4, <2>1 DEF RunsWell, Seals, Moves, Drains, Gone
<1>8. RunsWell(R, parts, stored, attempt)
  BY <1>4, <1>6, <1>7 DEF RunsWell, UnderWay, P!Over
<1>9. \A k \in Runs \ {j} : R.made \cap run[k].made = {}
  BY <1>1, <1>3, <1>4 DEF PartitionsInv, P!NameIsTaken
<1>10. /\ deaths' \in Nat
       /\ \A k \in Runs \ {j} :
               /\ R.lock = "exclusive" => run[k].lock = "none"
               /\ run[k].lock = "exclusive" => R.lock = "none"
  BY <1>1, <1>4 DEF PartitionsInv, P!TypeOK
<1>11. QED
  BY <1>1, <1>2, <1>4, <1>8, <1>9, <1>10, LocalStep

\* What is moved is all there is of the month, and its table is the run's.
LEMMA MoveStep ==
    ASSUME PartitionsAssumption, PartitionsInv, NEW j \in Runs, P!Move(j)
    PROVE  PartitionsInv'
<1> DEFINE S == run[j]
           pairs == S.moved \cup (P!InDefault(P!Current(j)) \X {P!Current(j)})
           lk == IF S.lock = "shared" THEN "rows" ELSE S.lock
           R == [S EXCEPT !.phase = "attach", !.moved = pairs, !.lock = lk]
<1>1. /\ run' = [run EXCEPT ![j] = R]
      /\ UNCHANGED <<month, parts, stored, attempt, deaths>>
      /\ S.phase = "move"
  BY DEF P!Move
<1>2. S \in RunShape /\ UnderWay(S) /\ RunsWell(S, parts, stored, attempt) /\ S.todo # {}
  BY <1>1, RunHasItsShape DEF PartitionsInv, UnderWay, P!Over
<1>3. /\ Here(S) = P!Current(j) /\ Here(S) \in S.todo /\ Here(S) \in Int
      /\ Here(S) \in Targets(S)
  BY <1>1, <1>2, HereIsToDo DEF RunsWell, Walks
<1>4. P!InDefault(P!Current(j)) = {r \in StraysIn(stored) : attempt[r].month = Here(S)}
  BY <1>3 DEF P!InDefault, P!Strays, StraysIn
<1>5. /\ R \in RunShape /\ R.phase = "attach" /\ R.lock = lk
      /\ R.today = S.today /\ R.todo = S.todo /\ R.made = S.made /\ R.moved = pairs
      /\ R.parent = S.parent /\ R.found = S.found
  BY <1>2, <1>3, <1>4 DEF RunShape, P!Phases, P!Locks, StraysIn
<1>6. /\ lk = "exclusive" <=> S.lock = "exclusive"
      /\ lk = "none" <=> S.lock = "none"
  OBVIOUS
<1> HIDE DEF R, pairs, lk
<1>7. Here(R) = Here(S)
  BY <1>5 DEF Here
<1>8. Gone(R) = Gone(S) \cup {r \in StraysIn(stored) : attempt[r].month = Here(S)}
  <2> DEFINE here == {r \in StraysIn(stored) : attempt[r].month = Here(S)}
  <2>1. R.moved = S.moved \cup (here \X {Here(S)})
    BY <1>3, <1>4, <1>5 DEF pairs
  <2>2. {s[1] : s \in here \X {Here(S)}} = here
    <3> HIDE DEF here
    <3>1. \A r \in here : <<r, Here(S)>> \in here \X {Here(S)} /\ <<r, Here(S)>>[1] = r
      OBVIOUS
    <3>2. QED
      BY <3>1
  <2> HIDE DEF here
  <2>3. {s[1] : s \in S.moved \cup (here \X {Here(S)})}
            = {s[1] : s \in S.moved} \cup {s[1] : s \in here \X {Here(S)}}
    OBVIOUS
  <2>4. QED
    BY <2>1, <2>2, <2>3 DEF Gone, here
<1>9. ASSUME NEW r \in StraysIn(stored), attempt[r].month = Here(S)
      PROVE  Here(S) \in S.made
  <2>1. Here(S) \notin parts
    BY <1>9, StraysAreCommitted
  <2>2. QED
    BY <1>1, <1>2, <2>1, <1>9 DEF RunsWell, Walks
<1>10. FoundStill(R, parts, attempt) /\ Walks(R, parts)
  BY <1>1, <1>2, <1>5, <1>7 DEF RunsWell, FoundStill, Walks, Targets
<1>11. Seals(R, stored, attempt)
  BY <1>2, <1>5, <1>6, <1>8 DEF RunsWell, Seals
<1>12. Moves(R, stored, attempt)
  BY <1>2, <1>3, <1>4, <1>5, <1>9 DEF RunsWell, Moves, pairs
<1>13. Drains(R, stored, attempt)
  BY <1>5, <1>7, <1>8 DEF Drains
<1>14. RunsWell(R, parts, stored, attempt)
  BY <1>5, <1>10, <1>11, <1>12, <1>13 DEF RunsWell, UnderWay, P!Over
<1>15. /\ deaths' \in Nat
       /\ \A k \in Runs \ {j} :
               /\ R.lock = "exclusive" => run[k].lock = "none"
               /\ run[k].lock = "exclusive" => R.lock = "none"
               /\ R.made \cap run[k].made = {}
  BY <1>1, <1>5, <1>6 DEF PartitionsInv, P!TypeOK
<1>16. QED
  BY <1>1, <1>2, <1>5, <1>14, <1>15, LocalStep

\* Locking the parent changes nothing else.
LEMMA LockParentStep ==
    ASSUME PartitionsAssumption, PartitionsInv, NEW j \in Runs, P!LockParent(j)
    PROVE  PartitionsInv'
<1> DEFINE S == run[j]
           ph == IF S.phase = "create" THEN "creating" ELSE "attaching"
           R == [S EXCEPT !.phase = ph, !.parent = TRUE]
<1>1. /\ run' = [run EXCEPT ![j] = R]
      /\ UNCHANGED <<month, parts, stored, attempt, deaths>>
      /\ S.phase \in {"create", "attach"}
  BY DEF P!LockParent
<1>2. S \in RunShape /\ UnderWay(S) /\ RunsWell(S, parts, stored, attempt) /\ S.todo # {}
  BY <1>1, RunHasItsShape DEF PartitionsInv, UnderWay, P!Over
<1>3. /\ R \in RunShape /\ R.phase = ph /\ R.lock = S.lock
      /\ R.today = S.today /\ R.todo = S.todo /\ R.made = S.made /\ R.moved = S.moved
      /\ R.found = S.found
  BY <1>2 DEF RunShape, P!Phases, P!Locks
<1>4. /\ ph \in {"creating", "attaching"} /\ (ph = "creating" <=> S.phase = "create")
  OBVIOUS
<1> HIDE DEF R, ph
<1>5. Here(R) = Here(S) /\ Gone(R) = Gone(S)
  BY <1>3 DEF Here, Gone
<1>6. FoundStill(R, parts, attempt) /\ Walks(R, parts)
  BY <1>1, <1>2, <1>3, <1>4, <1>5 DEF RunsWell, FoundStill, Walks, Targets
<1>7. Seals(R, stored, attempt) /\ Moves(R, stored, attempt)
  BY <1>2, <1>3, <1>5 DEF RunsWell, Seals, Moves
<1>8. Drains(R, stored, attempt)
  BY <1>1, <1>2, <1>3, <1>4, <1>5 DEF RunsWell, Drains
<1>9. RunsWell(R, parts, stored, attempt)
  BY <1>3, <1>4, <1>6, <1>7, <1>8 DEF RunsWell, UnderWay, P!Over
<1>10. /\ deaths' \in Nat
       /\ \A k \in Runs \ {j} :
               /\ R.lock = "exclusive" => run[k].lock = "none"
               /\ run[k].lock = "exclusive" => R.lock = "none"
               /\ R.made \cap run[k].made = {}
  BY <1>1, <1>3 DEF PartitionsInv, P!TypeOK
<1>11. QED
  BY <1>1, <1>2, <1>3, <1>9, <1>10, LocalStep

\* A run is refused its partition only if overtaken; if it is not, no row of
\* the month is left where it was.
LEMMA MakeStep ==
    ASSUME PartitionsAssumption, PartitionsInv, NEW j \in Runs, P!MakePartition(j)
    PROVE  PartitionsInv'
<1> DEFINE S == run[j]
           Turned == P!Current(j) \in parts \/ ~(P!InDefault(P!Current(j)) \subseteq P!Drained(j))
           F == [P!Idle EXCEPT !.phase = "failed", !.found = S.found]
           G == [S EXCEPT !.phase = "count", !.todo = S.todo \ {P!Current(j)},
                          !.made = S.made \cup {P!Current(j)}, !.lock = "exclusive"]
<1>1. /\ run' = [run EXCEPT ![j] = IF Turned THEN F ELSE G]
      /\ UNCHANGED <<month, parts, stored, attempt, deaths>>
      /\ S.phase \in {"creating", "attaching"} /\ ~P!NameIsTaken(j) /\ ~P!DefaultInUse(j)
  BY DEF P!MakePartition
<1>2. S \in RunShape /\ UnderWay(S) /\ RunsWell(S, parts, stored, attempt) /\ S.todo # {}
  BY <1>1, RunHasItsShape DEF PartitionsInv, UnderWay, P!Over
<1>3. /\ Here(S) = P!Current(j) /\ Here(S) \in S.todo /\ Here(S) \in Int
      /\ Here(S) \notin S.found.parts /\ Here(S) \in Targets(S)
  BY <1>1, <1>2, HereIsToDo DEF RunsWell, Walks
<1>4. /\ P!InDefault(P!Current(j)) = {r \in StraysIn(stored) : attempt[r].month = Here(S)}
      /\ P!Drained(j) = Gone(S)
  BY <1>3 DEF P!InDefault, P!Strays, StraysIn, P!Drained, Gone
<1>5. FoundStill(S, parts, attempt) /\ Walks(S, parts) /\ Seals(S, stored, attempt)
      /\ Moves(S, stored, attempt) /\ Drains(S, stored, attempt)
  BY <1>2 DEF RunsWell
<1>6. CASE Turned
  <2>1. P!Idle \in RunShape
    BY DEF P!Idle, RunShape, P!Phases, P!Locks, P!Over
  <2>2. /\ F \in RunShape /\ F.phase = "failed" /\ F.found = S.found
        /\ F.made = {} /\ F.moved = {} /\ F.lock = "none" /\ ~F.parent
    BY <1>2, <2>1 DEF P!Idle, RunShape, P!Phases, P!Locks, P!Over
  <2>3. S.found.parts \subseteq parts
    BY <1>5 DEF FoundStill
  <2>4. S.found.parts # parts \/ ~(StraysIn(stored) \subseteq S.found.strays)
    BY <1>1, <1>3, <1>4, <1>5, <1>6 DEF Drains
  <2> HIDE DEF F
  <2>5. RunsWell(F, parts, stored, attempt)
    BY <2>2, <2>3, <2>4 DEF RunsWell, UnderWay, P!Over
  <2>6. /\ deaths' \in Nat /\ F.phase \in P!Over \cup {"idle", "count"}
        /\ \A k \in Runs \ {j} :
               /\ F.lock = "exclusive" => run[k].lock = "none"
               /\ run[k].lock = "exclusive" => F.lock = "none"
               /\ F.made \cap run[k].made = {}
    BY <1>1, <2>2 DEF PartitionsInv, P!TypeOK, P!Over
  <2>7. run' = [run EXCEPT ![j] = F]
    BY <1>1, <1>6
  <2>8. QED
    BY <1>1, <2>2, <2>5, <2>6, <2>7, LocalStep
<1>7. CASE ~Turned
  <2>1. /\ G \in RunShape /\ G.phase = "count" /\ G.lock = "exclusive"
        /\ G.today = S.today /\ G.todo = S.todo \ {Here(S)} /\ G.made = S.made \cup {Here(S)}
        /\ G.moved = S.moved /\ G.found = S.found
    BY <1>2, <1>3 DEF RunShape, P!Phases, P!Locks
  <2> HIDE DEF G
  <2>2. /\ Here(S) \notin parts
        /\ \A r \in StraysIn(stored) : attempt[r].month = Here(S) => r \in Gone(S)
    BY <1>3, <1>4, <1>7
  <2>3. Gone(G) = Gone(S)
    BY <2>1 DEF Gone
  <2>4. FoundStill(G, parts, attempt)
    BY <1>5, <2>1 DEF FoundStill
  <2>5. G.made \cap G.todo = {}
    BY <1>1, <1>5, <2>1 DEF Walks
  <2>6. Walks(G, parts)
    BY <1>3, <1>5, <2>1, <2>2, <2>5 DEF Walks, Targets
  <2>7. Seals(G, stored, attempt)
    <3>1. \A r \in Attempts : ~(attempt[r].phase = "inserted" /\ attempt[r].table = Default)
      BY <1>1 DEF P!DefaultInUse
    <3>2. G.made \ G.todo = (S.made \ S.todo) \cup {Here(S)}
      BY <1>1, <1>3, <1>5, <2>1 DEF Walks
    <3>3. \A r \in StraysIn(stored) : attempt[r].month \in S.made \ S.todo => r \in Gone(S)
      BY <1>5 DEF Seals
    <3>4. QED
      BY <2>1, <2>2, <2>3, <3>1, <3>2, <3>3 DEF Seals
  <2>8. Moves(G, stored, attempt) /\ Drains(G, stored, attempt)
    BY <1>5, <2>1 DEF Moves, Drains
  <2>9. RunsWell(G, parts, stored, attempt)
    BY <2>1, <2>4, <2>6, <2>7, <2>8 DEF RunsWell, UnderWay, P!Over
  <2>10. /\ deaths' \in Nat /\ G.phase \in P!Over \cup {"idle", "count"}
         /\ \A k \in Runs \ {j} : run[k].lock = "none" /\ G.made \cap run[k].made = {}
    <3>1. \A k \in Runs \ {j} : run[k].lock = "none"
      BY <1>1 DEF P!DefaultInUse
    <3>2. \A k \in Runs \ {j} : Here(S) \notin run[k].made /\ S.made \cap run[k].made = {}
      BY <1>1, <1>3 DEF P!NameIsTaken, PartitionsInv
    <3>3. QED
      BY <1>1, <2>1, <3>1, <3>2 DEF PartitionsInv, P!TypeOK
  <2>11. run' = [run EXCEPT ![j] = G]
    BY <1>1, <1>7
  <2>12. QED
    BY <1>1, <2>1, <2>9, <2>10, <2>11, LocalStep
<1>8. QED
  BY <1>6, <1>7

\* A month's partition comes with all its rows.
LEMMA CommitRunStep ==
    ASSUME PartitionsAssumption, PartitionsInv, NEW j \in Runs, P!CommitRun(j)
    PROVE  PartitionsInv'
<1> DEFINE S == run[j]
           R == [P!Idle EXCEPT !.phase = "done", !.today = S.today, !.found = S.found]
<1>1. /\ run' = [run EXCEPT ![j] = R]
      /\ UNCHANGED <<month, attempt, deaths>>
      /\ S.phase = "count" /\ S.todo = {}
      /\ parts' = parts \cup S.made
      /\ stored' = {s \in stored : s[1] \notin Gone(S)} \cup S.moved
  BY DEF P!CommitRun, P!Drained, Gone
<1>2. /\ S \in RunShape /\ UnderWay(S)
      /\ FoundStill(S, parts, attempt) /\ Walks(S, parts) /\ Seals(S, stored, attempt)
      /\ Moves(S, stored, attempt)
  BY <1>1, RunHasItsShape DEF PartitionsInv, UnderWay, P!Over, RunsWell
<1>3. P!Idle \in RunShape
  BY DEF P!Idle, RunShape, P!Phases, P!Locks, P!Over
<1>4. /\ R \in RunShape /\ R.phase = "done" /\ R.found = S.found /\ R.today = S.today
      /\ R.made = {} /\ R.moved = {} /\ R.lock = "none" /\ ~R.parent
  BY <1>2, <1>3 DEF P!Idle, RunShape, P!Phases, P!Locks, P!Over
<1>5. run'[j] = R /\ \A k \in Runs \ {j} : run'[k] = run[k]
  BY <1>1 DEF PartitionsInv, P!TypeOK
<1> HIDE DEF R
<1>6. P!TypeOK'
  <2>1. parts' \subseteq Int /\ stored' \subseteq Attempts \X (Int \cup {Default})
    BY <1>1, <1>2 DEF PartitionsInv, P!TypeOK, RunShape
  <2>2. run' \in [Runs -> RunShape]
    BY <1>1, <1>4 DEF PartitionsInv, P!TypeOK, RunShape
  <2>3. \A k \in Runs : run'[k].todo = {} => run'[k].phase \in P!Over \cup {"idle", "count"}
    BY <1>4, <1>5 DEF PartitionsInv, P!TypeOK, P!Over
  <2>4. QED
    BY <1>1, <2>1, <2>2, <2>3 DEF PartitionsInv, P!TypeOK, RunShape
\* The months.
<1>7. PICK top \in Int : FirstMonth <= top /\ parts = FirstMonth .. top
  BY DEF PartitionsInv
<1>8. PICK old \in Int : FirstMonth <= old /\ S.found.parts = FirstMonth .. old
  BY <1>2 DEF FoundStill
<1>9. P!Max(S.found.parts) = old /\ old <= top /\ S.today \in Int /\ FirstMonth \in Int
      /\ MAX_MONTHS_PER_RUN \in Nat \ {0} /\ FirstMonth <= S.today
  <2>1. P!Max(FirstMonth .. old) = old
    BY <1>8, GreatestOfInterval DEF PartitionsAssumption
  <2>2. old \in parts
    BY <1>2, <1>8 DEF FoundStill, PartitionsAssumption
  <2>3. QED
    BY <1>2, <1>7, <1>8, <2>1, <2>2 DEF PartitionsAssumption, RunShape, FoundStill
<1>10. Targets(S) = {m \in old + 1 .. S.today + 1 : m < old + 1 + MAX_MONTHS_PER_RUN}
  BY <1>9 DEF Targets
<1>11. Targets(S) \subseteq parts' /\ parts' \subseteq parts \cup Targets(S) /\ parts \subseteq parts'
  BY <1>1, <1>2 DEF Walks
<1>12. \E end \in Int : FirstMonth <= end /\ parts' = FirstMonth .. end
  <2> DEFINE far == IF S.today + 1 <= old + MAX_MONTHS_PER_RUN THEN S.today + 1
                    ELSE old + MAX_MONTHS_PER_RUN
  <2>1. far \in Int /\ Targets(S) = old + 1 .. far
    BY <1>8, <1>9, <1>10
  <2> HIDE DEF far
  <2>2. CASE far <= top
    <3>1. parts' = FirstMonth .. top
      <4>1. old + 1 .. far \subseteq FirstMonth .. top
        BY <1>7, <1>8, <1>9, <2>1, <2>2
      <4>2. QED
        BY <1>7, <1>11, <2>1, <4>1
    <3>2. QED
      BY <1>7, <3>1
  <2>3. CASE top < far
    <3>1. parts' = FirstMonth .. far
      <4>1. parts' \subseteq FirstMonth .. far
        BY <1>7, <1>8, <1>9, <1>11, <2>1, <2>3
      <4>2. FirstMonth .. far \subseteq FirstMonth .. top \cup old + 1 .. far
        BY <1>7, <1>8, <1>9, <2>1, <2>3
      <4>3. QED
        BY <1>7, <1>11, <2>1, <4>1, <4>2
    <3>2. QED
      BY <1>7, <1>9, <2>1, <2>3, <3>1
  <2>4. QED
    BY <1>7, <2>1, <2>2, <2>3
<1>13. S.today + 1 \in parts' \/ old + MAX_MONTHS_PER_RUN \in parts'
  <2>1. CASE S.today + 1 <= old
    BY <1>7, <1>8, <1>9, <1>11, <2>1, SMTT(30)
  <2>2. CASE old < S.today + 1 /\ S.today + 1 <= old + MAX_MONTHS_PER_RUN
    BY <1>8, <1>9, <1>10, <1>11, <2>2
  <2>3. CASE old + MAX_MONTHS_PER_RUN < S.today + 1
    BY <1>8, <1>9, <1>10, <1>11, <2>3
  <2>4. QED
    BY <1>8, <1>9, <2>1, <2>2, <2>3
\* The rows.
<1>14. S.made # {} =>
           /\ \A r \in StraysIn(stored) : attempt[r].month \in S.made => r \in Gone(S)
           /\ \A r \in Attempts : ~(attempt[r].phase = "inserted" /\ attempt[r].table = Default)
  BY <1>1, <1>2 DEF Seals
<1>15. \A r \in Attempts : GoesRight(attempt[r], parts')
  BY <1>1, <1>14 DEF PartitionsInv, GoesRight
<1>16. Gone(S) \subseteq StraysIn(stored)
  BY <1>2 DEF Moves, Gone
<1>17. ASSUME NEW r \in Attempts
       PROVE  PlacedRight(r, parts', stored', attempt)
  <2>1. PlacedRight(r, parts, stored, attempt)
    BY DEF PartitionsInv
  <2>2. CASE r \in Gone(S)
    <3>1. PICK s \in S.moved : s[1] = r
      BY <2>2 DEF Gone
    <3>2. attempt[r].month \in S.made /\ attempt[r].phase = "committed"
      BY <1>2, <1>16, <2>2, <3>1, StraysAreCommitted DEF Moves
    <3>3. {t \in S.moved : t[1] = r} = {<<r, attempt[r].month>>}
      <4>1. \A t \in S.moved : t = <<t[1], t[2]>>
        BY <1>2 DEF RunShape
      <4>2. \A t \in S.moved : t[1] = r => t = <<r, attempt[r].month>>
        BY <1>2, <4>1 DEF Moves
      <4>3. QED
        BY <3>1, <4>2
    <3>4. {t \in stored' : t[1] = r} = {t \in S.moved : t[1] = r}
      BY <1>1, <2>2
    <3>5. QED
      BY <1>1, <3>2, <3>3, <3>4 DEF PlacedRight
  <2>3. CASE r \notin Gone(S)
    <3>1. {t \in stored' : t[1] = r} = {t \in stored : t[1] = r}
      BY <1>1, <2>3 DEF Gone
    <3>2. CASE attempt[r].phase # "committed"
      BY <2>1, <3>1, <3>2 DEF PlacedRight
    <3>3. CASE attempt[r].phase = "committed" /\ attempt[r].month \in parts
      BY <1>11, <2>1, <3>1, <3>3 DEF PlacedRight
    <3>4. CASE attempt[r].phase = "committed" /\ attempt[r].month \notin parts
      <4>1. {t \in stored : t[1] = r} = {<<r, Default>>}
        BY <2>1, <3>4 DEF PlacedRight
      <4>2. r \in StraysIn(stored)
        BY <4>1 DEF StraysIn
      <4>3. attempt[r].month \notin S.made
        BY <1>14, <2>3, <4>2
      <4>4. QED
        BY <1>1, <3>1, <3>4, <4>1, <4>3 DEF PlacedRight
    <3>5. QED
      BY <3>2, <3>3, <3>4
  <2>4. QED
    BY <2>2, <2>3
<1>18. StraysIn(stored') = StraysIn(stored) \ Gone(S)
  <2>1. \A t \in S.moved : t[2] # Default /\ t[1] \in Gone(S)
    BY <1>2 DEF RunShape, Gone, PartitionsAssumption
  <2>2. QED
    BY <1>1, <2>1 DEF StraysIn
\* The other runs.
<1>19. ASSUME NEW k \in Runs, k # j
       PROVE  RunsWell(run[k], parts', stored', attempt)
  <2> DEFINE T == run[k]
  <2>1. RunsWell(T, parts, stored, attempt)
    BY DEF PartitionsInv
  <2>2. T.made \cap S.made = {}
    BY <1>19 DEF PartitionsInv
  <2> HIDE DEF T
  <2>3. ASSUME UnderWay(T) PROVE FoundStill(T, parts', attempt) /\ Walks(T, parts')
    BY <1>1, <2>1, <2>2, <2>3 DEF RunsWell, FoundStill, Walks
  <2>4. ASSUME UnderWay(T)
        PROVE  Seals(T, stored', attempt) /\ Drains(T, stored', attempt)
    BY <1>18, <2>1, <2>4 DEF RunsWell, Seals, Drains
  <2>5. ASSUME UnderWay(T) PROVE Moves(T, stored', attempt)
    <3>1. \A r \in Gone(S) : attempt[r].month \in S.made
      BY <1>2 DEF Moves, Gone
    <3>2. QED
      BY <1>18, <2>1, <2>2, <2>5, <3>1 DEF RunsWell, Moves
  <2>6. ASSUME T.phase = "failed"
        PROVE  /\ T.found.parts \subseteq parts'
               /\ T.found.parts # parts' \/ ~(StraysIn(stored') \subseteq T.found.strays)
    <3>1. /\ T.found.parts \subseteq parts
          /\ T.found.parts # parts \/ ~(StraysIn(stored) \subseteq T.found.strays)
      BY <2>1, <2>6 DEF RunsWell
    <3>2. CASE S.made = {}
      <4>1. Gone(S) = {}
        BY <1>2, <3>2 DEF Moves, Gone
      <4>2. QED
        BY <1>1, <1>18, <3>1, <3>2, <4>1
    <3>3. CASE S.made # {}
      <4>1. S.made \cap parts = {}
        BY <1>2 DEF Walks
      <4>2. QED
        BY <1>1, <3>1, <3>3, <4>1
    <3>4. QED
      BY <3>2, <3>3
  <2>7. QED
    BY <1>11, <2>1, <2>3, <2>4, <2>5, <2>6 DEF RunsWell, T
<1>20. RunsWell(R, parts', stored', attempt)
  BY <1>4, <1>9, <1>13 DEF RunsWell, UnderWay, P!Over
<1>21. \A k \in Runs : RunsWell(run'[k], parts', stored', attempt')
  BY <1>1, <1>5, <1>19, <1>20
<1>22. \A k, l \in Runs : k # l =>
           /\ run'[k].lock = "exclusive" => run'[l].lock = "none"
           /\ run'[k].made \cap run'[l].made = {}
  <2>1. \A k \in Runs : k = j \/ run'[k] = run[k]
    BY <1>5
  <2>2. run'[j].made = {} /\ run'[j].lock = "none"
    BY <1>4, <1>5
  <2>3. QED
    BY <2>1, <2>2 DEF PartitionsInv
<1>23. FirstMonth <= month'
  BY <1>1 DEF PartitionsInv
<1>24. \A r \in Attempts : GoesRight(attempt'[r], parts') /\ PlacedRight(r, parts', stored', attempt')
  BY <1>1, <1>15, <1>17
<1>25. QED
  BY <1>6, <1>12, <1>21, <1>22, <1>23, <1>24 DEF PartitionsInv

\* The months pass.
LEMMA NextMonthStep ==
    ASSUME PartitionsAssumption, PartitionsInv, P!NextMonth
    PROVE  PartitionsInv'
<1>1. month' = month + 1 /\ UNCHANGED <<parts, stored, attempt, run, deaths>>
  BY DEF P!NextMonth
<1>2. P!TypeOK'
  BY <1>1 DEF PartitionsInv, P!TypeOK
<1>3. FirstMonth <= month'
  BY <1>1 DEF PartitionsInv, P!TypeOK, PartitionsAssumption
<1>4. QED
  BY <1>1, <1>2, <1>3 DEF PartitionsInv

LEMMA PartitionsStep ==
    ASSUME PartitionsAssumption, PartitionsInv, [P!Next]_P!vars
    PROVE  PartitionsInv'
<1>1. CASE P!NextMonth
  BY <1>1, NextMonthStep
<1>2. ASSUME NEW r \in Attempts, P!Submit(r) \/ P!SubmissionStep(r)
      PROVE  PartitionsInv'
  BY <1>2, SubmissionsStep, CommitStep DEF P!SubmissionStep
<1>3. ASSUME NEW j \in Runs, P!RunStep(j) \/ P!LockStep(j)
      PROVE  PartitionsInv'
  <2>1. CASE P!Rest(j)
    <3>1. P!Idle.phase = "idle" /\ P!Idle = [P!Idle EXCEPT !.phase = "idle"]
      BY DEF P!Idle
    <3>2. deaths' \in Nat
      BY <2>1 DEF P!Rest, PartitionsInv, P!TypeOK
    <3>3. QED
      BY <2>1, <3>1, <3>2, IdleRunsWell DEF P!Rest
  <2>2. QED
    BY <1>3, <2>1, StartStep, CountStep, AlreadyThereStep, LikeStep, MoveStep, LockParentStep,
       MakeStep, CommitRunStep DEF P!RunStep, P!LockStep
<1>4. ASSUME NEW j \in Runs, P!Crash(j) PROVE PartitionsInv'
  <2>1. P!Idle.phase = "idle" /\ P!Idle = [P!Idle EXCEPT !.phase = "idle"]
    BY DEF P!Idle
  <2>2. deaths' \in Nat
    BY <1>4 DEF P!Crash, PartitionsInv, P!TypeOK
  <2>3. QED
    BY <1>4, <2>1, <2>2, IdleRunsWell DEF P!Crash
<1>5. ASSUME NEW j \in Runs, P!BreakDeadlock(j) PROVE PartitionsInv'
  <2>1. deaths' \in Nat
    BY <1>5 DEF P!BreakDeadlock, PartitionsInv, P!TypeOK
  <2>2. QED
    BY <1>5, <2>1, IdleRunsWell DEF P!BreakDeadlock
<1>6. CASE UNCHANGED P!vars
  BY <1>6 DEF P!vars, PartitionsInv, P!TypeOK
<1>7. QED
  BY <1>1, <1>2, <1>3, <1>4, <1>5, <1>6 DEF P!Next

-----------------------------------------------------------------------------
LEMMA PartitionsStayWell ==
    P!Spec => []PartitionsInv
<1>1. P!Init => PartitionsInv
  BY PartitionsAssumption, PartitionsInit
<1>2. PartitionsInv /\ [P!Next]_P!vars => PartitionsInv'
  BY PartitionsAssumption, PartitionsStep
<1>3. QED
  BY <1>1, <1>2, PTL DEF P!Spec

\* The state has its shape, and a run at a month has one to do
\* (jobs/partitions.py:158-163).
THEOREM PartitionsAreTyped ==
    P!Spec => []P!TypeOK
<1>1. PartitionsInv => P!TypeOK
  BY DEF PartitionsInv
<1>2. QED
  BY <1>1, PartitionsStayWell, PTL

\* A committed attempt is in one table: that of its month, or the default
\* one if and only if its month has none (jobs/partitions.py:115-150).
THEOREM AttemptsHaveTheirPlace ==
    P!Spec => []P!EveryAttemptHasItsPlace
<1>1. PartitionsInv => P!EveryAttemptHasItsPlace
  BY DEF PartitionsInv, PlacedRight, P!EveryAttemptHasItsPlace
<1>2. QED
  BY <1>1, PartitionsStayWell, PTL

\* The partitions have no gap, and a run that ends well has reached the next
\* month or its cap (jobs/partitions.py:158-163).
THEOREM MonthsAreNotSkipped ==
    P!Spec => []P!NoMonthIsSkipped
<1>1. ASSUME PartitionsInv PROVE P!NoMonthIsSkipped
  <2>1. PICK top \in Int : FirstMonth <= top /\ parts = FirstMonth .. top
    BY <1>1 DEF PartitionsInv
  <2>2. \A m, n \in parts : m .. n \subseteq parts
    BY <2>1, PartitionsAssumption DEF PartitionsAssumption
  <2>3. \A j \in Runs : run[j].phase = "done" =>
            \/ run[j].today + 1 \in parts
            \/ P!Max(run[j].found.parts) + MAX_MONTHS_PER_RUN \in parts
    BY <1>1 DEF PartitionsInv, RunsWell
  <2>4. QED
    BY <2>2, <2>3 DEF P!NoMonthIsSkipped
<1>2. QED
  BY <1>1, PartitionsStayWell, PTL

\* A run that nobody overtakes is not refused (jobs/partitions.py:115-150).
THEOREM RunsAreRefusedOnlyIfOvertaken ==
    P!Spec => []P!RefusedOnlyIfOvertaken
<1>1. PartitionsInv => P!RefusedOnlyIfOvertaken
  BY DEF PartitionsInv, RunsWell, P!RefusedOnlyIfOvertaken, P!Strays, StraysIn
<1>2. QED
  BY <1>1, PartitionsStayWell, PTL

\* All three (jobs/partitions.py:105-196).
THEOREM PartitionsStaySound == P!Spec => []PartitionsAreSound
<1>1. P!EveryAttemptHasItsPlace /\ P!NoMonthIsSkipped /\ P!RefusedOnlyIfOvertaken
      => PartitionsAreSound
  BY DEF PartitionsAreSound, P!PartitionsAreSound
<1>2. QED
  BY <1>1, AttemptsHaveTheirPlace, MonthsAreNotSkipped, RunsAreRefusedOnlyIfOvertaken, PTL
=============================================================================
