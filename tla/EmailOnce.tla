----------------------------- MODULE EmailOnce ------------------------------
(***************************************************************************)
(* What the notification jobs promise (D-137): a period's message reaches  *)
(* its user at most once, and never after the period is settled.           *)
(***************************************************************************)
EXTENDS Naturals

CONSTANT Periods   \* (user, period_key) pairs of one kind

VARIABLES
    received,      \* how many messages of a period its user has got
    settled        \* periods closed for good, with a message or without

Init ==
    /\ received = [p \in Periods |-> 0]
    /\ settled = {}

Receive(p) ==
    /\ p \notin settled
    /\ received[p] = 0
    /\ received' = [received EXCEPT ![p] = 1]
    /\ UNCHANGED settled

Settle(p) ==
    /\ p \notin settled
    /\ settled' = settled \cup {p}
    /\ UNCHANGED received

Next == \E p \in Periods : Receive(p) \/ Settle(p)

Spec == Init /\ [][Next]_<<received, settled>>

=============================================================================
