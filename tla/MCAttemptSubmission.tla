------------------------ MODULE MCAttemptSubmission ------------------------
(***************************************************************************)
(* TLC instance of AttemptSubmission: three requests, two keys, a session  *)
(* of two exercises and a third exercise outside it.  Requests, keys and   *)
(* the exercises of the session are interchangeable, so that one choice of *)
(* each orbit is enough; TLC's SYMMETRY would not be sound for liveness.   *)
(***************************************************************************)
EXTENDS AttemptSubmission

CONSTANTS r1, r2, r3, k1, k2, e1, e2, e3

MCRequests == {r1, r2, r3}
MCKeys == {k1, k2}
MCExercises == {e1, e2, e3}
MCSlots == {e1, e2}

\* r1 carries k1 and, unless all three are outside the session, e1 or e2.
RepresentativeClients ==
    /\ key[r1] = k1
    /\ \/ body[r1].exercise = e1
       \/ \A r \in MCRequests : body[r].exercise = e3
    /\ key[r2] = k2 => key[r3] = k2
    /\ key[r2] = key[r3] /\ body[r2].exercise = e2 => body[r3].exercise # e1

MCInit == Init /\ RepresentativeClients

MCSpec == MCInit /\ [][Next]_vars /\ Fairness
=============================================================================
