------------------------------ MODULE Feedback ------------------------------
(***************************************************************************)
(* What one user tells the operator: disputes of one exercise version      *)
(* (disputes/service.py) and the user's one review with its history        *)
(* (reviews/service.py).  Both read first and write later; requests        *)
(* overlap.  A row that a transaction has written is locked until it ends  *)
(* (Postgres): the review by its row or its unique user_id.  The operator  *)
(* settles disputes by hand.                                               *)
(***************************************************************************)
EXTENDS Naturals, Sequences, FiniteSets

CONSTANTS Requests, Ratings, None

VARIABLES
    disputes,    \* in the order of their ids: who sent it, and is it open
    review,      \* the row of reviews, None at first
    history,     \* the rows of review_history in the order of their ids
    lock,        \* who has written the review and not yet committed
    req,         \* the requests
    before       \* history: the disputes opened before a request looked

vars == <<disputes, review, history, lock, req, before>>

New == [phase |-> "new", found |-> FALSE, rating |-> None]

Init ==
    /\ disputes = <<>> /\ review = None /\ history = <<>> /\ lock = None
    /\ req = [r \in Requests |-> New]
    /\ before = [r \in Requests |-> 0]

Goto(r, phase) == req' = [req EXCEPT ![r].phase = phase]

-----------------------------------------------------------------------------
(* POST /exercises/{id}/v/{version}/dispute. *)

Open == {i \in DOMAIN disputes : disputes[i].open}

(* The SELECT of an open dispute; one is a 409. *)
CheckOpen(r) ==
    /\ req[r].phase = "new"
    /\ Goto(r, IF Open # {} THEN "refused" ELSE "disputing")
    /\ before' = [before EXCEPT ![r] = Len(disputes)]
    /\ UNCHANGED <<disputes, review, history, lock>>

(* INSERT and COMMIT: no index keeps a second one out. *)
OpenDispute(r) ==
    /\ req[r].phase = "disputing"
    /\ disputes' = Append(disputes, [by |-> r, open |-> TRUE])
    /\ Goto(r, "disputed")
    /\ UNCHANGED <<review, history, lock, before>>

(* The operator accepts or rejects it. *)
Settle(i) ==
    /\ i \in Open
    /\ disputes' = [disputes EXCEPT ![i].open = FALSE]
    /\ UNCHANGED <<review, history, lock, req, before>>

-----------------------------------------------------------------------------
(* POST /v1/me/review. *)

ReadReview(r, rating) ==
    /\ req[r].phase = "new"
    /\ req' = [req EXCEPT ![r] = [phase |-> "reviewing", found |-> review # None,
                                  rating |-> rating]]
    /\ UNCHANGED <<disputes, review, history, lock, before>>

\* Fault: the history is kept in a transaction of its own, whatever becomes of the review.
WriteHistoryFirst(r) ==
    /\ req[r].phase = "reviewing" /\ lock = None
    /\ history' = Append(history, req[r].rating)
    /\ IF ~req[r].found /\ review # None
       THEN Goto(r, "failed") /\ UNCHANGED lock
       ELSE Goto(r, "written") /\ lock' = r
    /\ UNCHANGED <<disputes, review, before>>

(* INSERT or UPDATE as it was found: who has found none and comes second *)
(* runs into the unique index.                                           *)
WriteReview(r) ==
    /\ req[r].phase = "reviewing" /\ lock = None
    /\ IF ~req[r].found /\ review # None
       THEN Goto(r, "failed") /\ UNCHANGED lock
       ELSE Goto(r, "written") /\ lock' = r
    /\ UNCHANGED <<disputes, review, history, before>>

(* The row of the history is flushed with it. *)
CommitReview(r) ==
    /\ req[r].phase = "written"
    /\ review' = req[r].rating /\ history' = Append(history, req[r].rating)
    /\ lock' = None
    /\ Goto(r, "reviewed")
    /\ UNCHANGED <<disputes, before>>

(* The request is cut off: its transaction is rolled back. *)
AbortReview(r) ==
    /\ req[r].phase = "written"
    /\ lock' = None
    /\ Goto(r, "failed")
    /\ UNCHANGED <<disputes, review, history, before>>

-----------------------------------------------------------------------------
Next ==
    \/ \E r \in Requests :
           \/ CheckOpen(r) \/ OpenDispute(r)
           \/ \E rating \in Ratings : ReadReview(r, rating)
           \/ WriteReview(r) \/ CommitReview(r) \/ AbortReview(r)
    \/ \E i \in DOMAIN disputes : Settle(i)

Spec == Init /\ [][Next]_vars

-----------------------------------------------------------------------------
(* One open dispute of an exercise version per user                        *)
(* (disputes/service.py:3, docs/05-api-contract.md:439).                   *)
OneOpenDispute == Cardinality(Open) <= 1

(* A second dispute is open only if it was sent while the first was under  *)
(* way: whoever looks when one is open is refused                          *)
(* (disputes/service.py:35-47).                                            *)
SecondDisputeOverlaps ==
    \A i, j \in Open : i < j => before[disputes[j].by] < i

Reviewed == {r \in Requests : req[r].phase = "reviewed"}

(* The review is the newest opinion of the history, which has one for      *)
(* every review that was accepted and none for one that was not            *)
(* (reviews/service.py:29-54, alembic 0006).                               *)
ReviewIsTheNewestOpinion ==
    /\ review = IF history = <<>> THEN None ELSE history[Len(history)]
    /\ Len(history) = Cardinality(Reviewed)

(* Both. *)
FeedbackIsSound == SecondDisputeOverlaps /\ ReviewIsTheNewestOpinion
=============================================================================
