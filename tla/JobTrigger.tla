------------------------------ MODULE JobTrigger ------------------------------
(***************************************************************************)
(* What makes the background jobs run: the loops of the process            *)
(* (jobs/runner.py), and the external trigger (jobs/trigger.py), whose     *)
(* calls keep each other out with a lock in Redis that nobody owns.  A     *)
(* loop and a trigger may run one job at once: the sweeps allow for it     *)
(* (EmailDelivery), and the lock only saves work.                          *)
(* A definition marked "Fault" is a plausible mistake in the one after it. *)
(***************************************************************************)
EXTENDS Integers, FiniteSets

CONSTANTS
    Triggers,      \* calls of the trigger handled at a time
    Jobs,          \* TRIGGERABLE
    Loops,         \* the jobs the process runs by itself
    AtStartup,     \* those of them that run as soon as it starts
    None,
    MaxCalls,      \* bound: calls ever made
    MaxStarts      \* bound: starts of the process

VARIABLES
    lock,          \* jobtrigger:running:<job>
    call,          \* what each call is doing
    calls,         \* calls made
    loop,          \* the loop of each job in the process: off, waiting or running
    starts,        \* starts of the process
    outages,       \* jobs for which a Redis call failed
    overruns,      \* jobs whose lock expired under a run
    deaths         \* jobs whose triggered run died with the process

vars == <<lock, call, calls, loop, starts, outages, overruns, deaths>>
process == <<loop, starts>>
faults == <<outages, overruns, deaths>>

Idle == [phase |-> "idle", todo |-> {}, job |-> None, locked |-> FALSE]

Runs(t, j) == call[t].job = j /\ call[t].phase \in {"running", "ended"}

\* The other jobs of a call are taken up whatever became of this one.
NextJob(t, j) ==
    call' = [call EXCEPT ![t].phase = "next", ![t].todo = @ \ {j}, ![t].job = None,
                         ![t].locked = FALSE]

RunJob(t, j, locked) ==
    call' = [call EXCEPT ![t].phase = "running", ![t].job = j, ![t].locked = locked]

-----------------------------------------------------------------------------
(* run_jobs, for the jobs the call names. *)
Call(t, names) ==
    /\ call[t] = Idle /\ calls < MaxCalls /\ names # {}
    /\ calls' = calls + 1
    /\ call' = [call EXCEPT
           ![t] = [phase |-> "next", todo |-> names, job |-> None, locked |-> FALSE]]
    /\ UNCHANGED <<lock, process, faults>>

Takes(t, j) == call[t].phase = "next" /\ j \in call[t].todo

\* Fault: the key is set whether or not it is there.
ClaimAnyway(t, j) ==
    /\ Takes(t, j)
    /\ lock' = [lock EXCEPT ![j] = TRUE]
    /\ RunJob(t, j, TRUE)
    /\ UNCHANGED <<calls, process, faults>>

\* SET NX EX
Claim(t, j) ==
    /\ Takes(t, j) /\ ~lock[j]
    /\ lock' = [lock EXCEPT ![j] = TRUE]
    /\ RunJob(t, j, TRUE)
    /\ UNCHANGED <<calls, process, faults>>

Skip(t, j) ==
    /\ Takes(t, j) /\ lock[j]
    /\ NextJob(t, j)
    /\ UNCHANGED <<lock, calls, process, faults>>

\* Redis fails the call, before or after it carried it out: no lock, and on.
ClaimFails(t, j) ==
    /\ Takes(t, j)
    /\ \E set \in {lock[j], TRUE} : lock' = [lock EXCEPT ![j] = set]
    /\ RunJob(t, j, FALSE)
    /\ outages' = outages \cup {j}
    /\ UNCHANGED <<calls, process, overruns, deaths>>

\* The job returns, or raises: caught either way.
JobEnds(t) ==
    /\ call[t].phase = "running"
    /\ call' = [call EXCEPT ![t].phase = "ended"]
    /\ UNCHANGED <<lock, calls, process, faults>>

\* Fault: a job that raised skips the finally clause.
ReleaseOnSuccess(t) ==
    /\ call[t].phase = "ended"
    /\ \E ok \in BOOLEAN :
           lock' = [lock EXCEPT ![call[t].job] = @ /\ ~(call[t].locked /\ ok)]
    /\ NextJob(t, call[t].job)
    /\ UNCHANGED <<calls, process, faults>>

\* The finally clause: the key is deleted, whoever set it last.
Release(t) ==
    /\ call[t].phase = "ended"
    /\ lock' = [lock EXCEPT ![call[t].job] = @ /\ ~call[t].locked]
    /\ NextJob(t, call[t].job)
    /\ UNCHANGED <<calls, process, faults>>

ReleaseFails(t) ==
    /\ call[t].phase = "ended" /\ call[t].locked
    /\ NextJob(t, call[t].job)
    /\ outages' = outages \cup {call[t].job}
    /\ UNCHANGED <<lock, calls, process, overruns, deaths>>

Report(t) ==
    /\ call[t].phase = "next" /\ call[t].todo = {}
    /\ call' = [call EXCEPT ![t] = Idle]
    /\ UNCHANGED <<lock, calls, process, faults>>

\* _LOCK_TTL_S: the lock of a run that died, or of one that takes longer.
LockExpires(j) ==
    /\ lock[j]
    /\ lock' = [lock EXCEPT ![j] = FALSE]
    /\ overruns' = IF \E t \in Triggers : Runs(t, j) THEN overruns \cup {j} ELSE overruns
    /\ UNCHANGED <<call, calls, process, outages, deaths>>

-----------------------------------------------------------------------------
(* The loops: a job that starts at once, or waits for its interval first;  *)
(* one that raises is logged and waits again.                              *)
Start ==
    /\ starts < MaxStarts /\ \A j \in Loops : loop[j] = "off"
    /\ starts' = starts + 1
    /\ loop' = [j \in Loops |-> IF j \in AtStartup THEN "running" ELSE "waiting"]
    /\ UNCHANGED <<lock, call, calls, faults>>

Tick(j) ==
    /\ loop[j] = "waiting"
    /\ loop' = [loop EXCEPT ![j] = "running"]
    /\ UNCHANGED <<lock, call, calls, starts, faults>>

RunOnce(j) ==
    /\ loop[j] = "running"
    /\ loop' = [loop EXCEPT ![j] = "waiting"]
    /\ UNCHANGED <<lock, call, calls, starts, faults>>

\* The lifespan ends: every task is cancelled and waited for; the calls under
\* way were answered before, or are cut off with the process.
Stop ==
    /\ \E j \in Loops : loop[j] # "off"
    /\ loop' = [j \in Loops |-> "off"]
    /\ deaths' = deaths \cup {call[t].job : t \in {s \in Triggers : call[s].job # None}}
    /\ call' = [t \in Triggers |-> Idle]
    /\ UNCHANGED <<lock, calls, starts, outages, overruns>>

Init ==
    /\ lock = [j \in Jobs |-> FALSE]
    /\ call = [t \in Triggers |-> Idle] /\ calls = 0
    /\ loop = [j \in Loops |-> "off"] /\ starts = 0
    /\ outages = {} /\ overruns = {} /\ deaths = {}

Next ==
    \/ \E t \in Triggers :
        \/ \E names \in SUBSET Jobs : Call(t, names)
        \/ \E j \in Jobs : Claim(t, j) \/ Skip(t, j) \/ ClaimFails(t, j)
        \/ JobEnds(t) \/ Release(t) \/ ReleaseFails(t) \/ Report(t)
    \/ \E j \in Jobs : LockExpires(j)
    \/ Start \/ Stop
    \/ \E j \in Loops : Tick(j) \/ RunOnce(j)

Spec == Init /\ [][Next]_vars

-----------------------------------------------------------------------------
(* The shape of the state. *)
TypeOK ==
    /\ lock \in [Jobs -> BOOLEAN]
    /\ \A t \in Triggers : Runs(t, call[t].job) => call[t].job \in call[t].todo

(* The waste guard guards: two triggered runs of a job overlap only when   *)
(* Redis failed one of them or one outlived the lock; a death alone, or a  *)
(* job that raises, does not open it.                                      *)
GuardHolds ==
    \A j \in Jobs \ (outages \cup overruns) : \A s, t \in Triggers : Runs(s, j) /\ Runs(t, j) => s = t

(* ... and it does not shut the job out: a lock is there without a run     *)
(* only after a death or an outage, and then expires.                      *)
LocksAreReturned ==
    \A j \in Jobs \ (outages \cup deaths) : lock[j] => \E t \in Triggers : Runs(t, j)

JobsAreGuarded == GuardHolds /\ LocksAreReturned
=============================================================================
