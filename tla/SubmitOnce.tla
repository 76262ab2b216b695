----------------------------- MODULE SubmitOnce -----------------------------
(***************************************************************************)
(* What POST /v1/attempts promises a user for a day (D-104, docs/05 9.3):  *)
(* an exercise of the session is attempted once and for good, what counts  *)
(* the attempts changes with them, and whoever is told of a success is     *)
(* told what the one attempt at the exercise was told.                     *)
(***************************************************************************)
EXTENDS Naturals

CONSTANTS Requests, Slots

VARIABLES
    asked,     \* the exercise of each request
    answer,    \* of each exercise attempted, the response its attempt earned
    day,       \* the aggregates
    told       \* of each request that was told of a success, the response

vars == <<asked, answer, day, told>>

Extended(f, x, v) == [y \in DOMAIN f \cup {x} |-> IF y = x THEN v ELSE f[y]]

Nothing == [x \in {} |-> x]

Init ==
    /\ answer = Nothing /\ told = Nothing
    /\ day = [total_attempts |-> 0, active_today |-> FALSE, transitions |-> 0,
              completed |-> FALSE]

Submit(r) ==
    LET x    == asked[r]
        last == Slots \subseteq DOMAIN answer \cup {x}
    IN  /\ x \in Slots \ DOMAIN answer
        /\ answer' = Extended(answer, x,
                       [status |-> 200, attempt |-> [exercise |-> x, by |-> r], completed |-> last])
        /\ day' = [total_attempts |-> day.total_attempts + 1, active_today |-> TRUE,
                   transitions |-> 1, completed |-> last]
        /\ UNCHANGED <<asked, told>>

Tell(r) ==
    /\ asked[r] \in DOMAIN answer /\ r \notin DOMAIN told
    /\ told' = Extended(told, r, answer[asked[r]])
    /\ UNCHANGED <<asked, answer, day>>

Next == \E r \in Requests : Submit(r) \/ Tell(r)

Spec == Init /\ [][Next]_vars
=============================================================================
