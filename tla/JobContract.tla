---------------------------- MODULE JobContract -----------------------------
(***************************************************************************)
(* What the queue promises to the code that enqueues a job, with no        *)
(* worker, lease, heartbeat or clock in it: a job is attempted any number  *)
(* of times, attempts may overlap and may vanish, and only the latest      *)
(* attempt of a running job can decide what becomes of the job.            *)
(***************************************************************************)
EXTENDS Naturals

CONSTANTS Jobs, MaxAttempts

VARIABLES
    phase,      \* where the job is
    current,    \* number of attempts begun
    live        \* the attempts some process may still be executing

cvars == <<phase, current, live>>

ContractInit ==
    /\ phase = [j \in Jobs |-> "absent"]
    /\ current = [j \in Jobs |-> 0]
    /\ live = [j \in Jobs |-> {}]

Submit(j) ==
    /\ phase[j] = "absent"
    /\ phase' = [phase EXCEPT ![j] = "queued"]
    /\ UNCHANGED <<current, live>>

Withdraw(j) ==
    /\ phase[j] \in {"queued", "running"}
    /\ phase' = [phase EXCEPT ![j] = "cancelled"]
    /\ UNCHANGED <<current, live>>

\* The running jobs in `lapsed' are taken back; j, one of them or a queued job,
\* begins its next attempt.  Earlier attempts of j may still be live.
Begin(j, lapsed) ==
    /\ \A k \in lapsed : phase[k] = "running"
    /\ phase[j] = "queued" \/ j \in lapsed
    /\ phase' = [k \in Jobs |-> IF k = j THEN "running"
                                ELSE IF k \in lapsed THEN "queued" ELSE phase[k]]
    /\ current' = [current EXCEPT ![j] = current[j] + 1]
    /\ live' = [live EXCEPT ![j] = live[j] \cup {current[j] + 1}]

\* An attempt dies or its result is dropped: nothing else happens.
Vanish(j, a) ==
    /\ a \in live[j]
    /\ live' = [live EXCEPT ![j] = live[j] \ {a}]
    /\ UNCHANGED <<phase, current>>

\* The latest attempt of a running job decides; a failure before the limit queues
\* the job again.
Conclude(j, a, next) ==
    /\ a \in live[j] /\ a = current[j] /\ phase[j] = "running"
    /\ next \in {"succeeded", IF a < MaxAttempts THEN "queued" ELSE "failed"}
    /\ phase' = [phase EXCEPT ![j] = next]
    /\ live' = [live EXCEPT ![j] = live[j] \ {a}]
    /\ UNCHANGED current

ContractNext ==
    \E j \in Jobs :
        \/ Submit(j) \/ Withdraw(j)
        \/ \E lapsed \in SUBSET Jobs : Begin(j, lapsed)
        \/ \E a \in live[j] : Vanish(j, a)
                              \/ \E next \in {"succeeded", "queued", "failed"} : Conclude(j, a, next)

ContractSpec == ContractInit /\ [][ContractNext]_cvars
=============================================================================
