------------------------------ MODULE JobQueue ------------------------------
(***************************************************************************)
(* The persisted job queue (apps/jobs/services.py) and the worker loop     *)
(* (apps/jobs/management/commands/run_worker.py).                          *)
(*                                                                         *)
(* Job rows live in PostgreSQL.  A worker claims one row, executes it      *)
(* under a lease that a heartbeat thread renews, and writes the outcome    *)
(* back only while it still owns the row.  A row whose lease has expired   *)
(* is put back in the queue by the next claim of any worker.               *)
(*                                                                         *)
(* Time is kept relative to `now', in ticks, so that no horizon bounds the *)
(* behaviours: run_after[j] is the delay left before j is due, and         *)
(* lock_expires[j] is the time left on the lease of j.                     *)
(***************************************************************************)
EXTENDS Integers, Sequences, FiniteSets

CONSTANTS
    Workers,        \* worker processes, each with its own worker_id (hostname)
    Jobs,           \* rows that may be enqueued
    None,           \* no worker, no job
    Priority,       \* job.priority
    MaxAttempts,    \* job.max_attempts
    LockTicks,      \* JOB_LOCK_SECONDS
    BeatTicks,      \* heartbeat interval, a third of JOB_LOCK_SECONDS
    BackoffCap,     \* the 300 of min(300, 2 ** attempt_count)
    MaxAge,         \* bound: due times further in the past are not told apart
    FaultKinds,     \* the faults considered: "crash", "beat", "stall"
    MaxFaults       \* bound: faults in a behaviour

ASSUME QueueAssumption ==
    /\ None \notin Workers /\ None \notin Jobs
    /\ Priority \in [Jobs -> Int]
    /\ MaxAttempts \in Nat \ {0}
    /\ LockTicks \in Nat \ {0} /\ BeatTicks \in 1..LockTicks
    /\ BackoffCap \in Nat \ {0} /\ MaxAge \in Nat
    /\ MaxFaults \in Nat

VARIABLES
    \* the rows of job and job_attempt
    status, attempt_count, run_after, lock_owner, lock_expires, attempts,
    \* the worker processes
    pc, job, attempt, recovered, beat, lost, stalled,
    \* faults so far
    faults

rowVars == <<status, attempt_count, run_after, lock_owner, lock_expires, attempts>>
workerVars == <<pc, job, attempt, recovered, beat, lost, stalled>>
vars == <<rowVars, workerVars, faults>>

Terminal == {"SUCCEEDED", "FAILED", "CANCELLED"}
Queued == {"PENDING", "RETRY_SCHEDULED"}
Status == {"ABSENT", "RUNNING"} \cup Queued \cup Terminal

NoLease == -2       \* lock_expires_at is NULL
Lapsed == -1        \* lock_expires_at < now
WorkerState == {"down", "idle", "claiming", "executing", "returned", "raised"}
Row == [worker : Workers, outcome : {"open", "ok", "failed"}]

RowsTyped ==
    /\ status \in [Jobs -> Status]
    /\ attempt_count \in [Jobs -> Nat]
    /\ run_after \in [Jobs -> (-MaxAge)..BackoffCap]
    /\ lock_owner \in [Jobs -> Workers \cup {None}]
    /\ lock_expires \in [Jobs -> NoLease..LockTicks]
    /\ attempts \in [Jobs -> Seq(Row)]

WorkersTyped ==
    /\ pc \in [Workers -> WorkerState]
    /\ job \in [Workers -> Jobs \cup {None}]
    /\ attempt \in [Workers -> Nat]
    /\ recovered \in [Workers -> SUBSET Jobs]
    /\ beat \in [Workers -> 0..BeatTicks]
    /\ lost \in [Workers -> BOOLEAN]
    /\ stalled \in SUBSET Workers
    /\ \A w \in Workers : job[w] = None <=> pc[w] \in {"down", "idle"}

TypeOK == RowsTyped /\ WorkersTyped /\ faults \in 0..MaxFaults

Init ==
    /\ status = [j \in Jobs |-> "ABSENT"]
    /\ attempt_count = [j \in Jobs |-> 0]
    /\ run_after = [j \in Jobs |-> 0]
    /\ lock_owner = [j \in Jobs |-> None]
    /\ lock_expires = [j \in Jobs |-> NoLease]
    /\ attempts = [j \in Jobs |-> <<>>]
    /\ pc = [w \in Workers |-> "idle"]
    /\ job = [w \in Workers |-> None]
    /\ attempt = [w \in Workers |-> 0]
    /\ recovered = [w \in Workers |-> {}]
    /\ beat = [w \in Workers |-> 0]
    /\ lost = [w \in Workers |-> FALSE]
    /\ stalled = {}
    /\ faults = 0

-----------------------------------------------------------------------------
(* Row locks.  A claim holds the rows it recovers and the row it selects   *)
(* until it commits; every other transaction is a single step.             *)

LockedNever(j) == FALSE     \* mutant: the select takes no row locks

Locked(j) ==
    \E w \in Workers : pc[w] = "claiming" /\ (j = job[w] \/ j \in recovered[w])

ExpiredNever(j) == FALSE    \* mutant: the claim recovers nothing
ExpiredAlways(j) == status[j] = "RUNNING"      \* mutant: expiry not compared
ExpiredEarly(j) == status[j] = "RUNNING" /\ lock_expires[j] \in Lapsed..0  \* mutant: __lte

Expired(j) == status[j] = "RUNNING" /\ lock_expires[j] = Lapsed

\* what the select of a claim may return once it has recovered the rows in S
Claimable(S) ==
    {j \in Jobs : ~Locked(j) /\ (status[j] \in Queued \/ j \in S) /\ run_after[j] <= 0}

\* order_by("-priority", "run_after"); created_at ties are left open
Precedes(j, k) ==
    \/ Priority[j] > Priority[k]
    \/ Priority[j] = Priority[k] /\ run_after[j] < run_after[k]

First(S) == {j \in S : \A k \in S : ~Precedes(k, j)}

OwnsAny(w) == status[job[w]] = "RUNNING"        \* mutant: owner not compared
OwnsStale(w) == lock_owner[job[w]] = w          \* mutant: status not compared

\* _owned_running_job
Owns(w) == status[job[w]] = "RUNNING" /\ lock_owner[job[w]] = w

Fault(kind) == kind \in FaultKinds /\ faults < MaxFaults /\ faults' = faults + 1

BackoffUncapped(n) == 2 ^ n      \* mutant: no ceiling

BackoffTicks(n) == LET d == 2 ^ n IN IF d \in 0..BackoffCap THEN d ELSE BackoffCap

-----------------------------------------------------------------------------
(* Producers and operators *)

\* Job.objects.create: PENDING and due at once
Enqueue(j) ==
    /\ status[j] = "ABSENT"
    /\ status' = [status EXCEPT ![j] = "PENDING"]
    /\ run_after' = [run_after EXCEPT ![j] = 0]
    /\ UNCHANGED <<attempt_count, lock_owner, lock_expires, attempts,
                   workerVars, faults>>

\* The admin form sets the status; the lock columns are posted back as they are.
Cancel(j) ==
    /\ status[j] \in Queued \cup {"RUNNING"} /\ ~Locked(j)
    /\ status' = [status EXCEPT ![j] = "CANCELLED"]
    /\ UNCHANGED <<attempt_count, run_after, lock_owner, lock_expires, attempts,
                   workerVars, faults>>

-----------------------------------------------------------------------------
(* claim_next_job: a transaction in two steps, so that claims overlap *)

\* Recover the expired rows and lock the first row that is due and not locked.
\* The update waits for locked rows; the select skips them.
ClaimBegin(w) ==
    LET S == {j \in Jobs : Expired(j)} IN
    /\ pc[w] = "idle"
    /\ \A j \in S : ~Locked(j)
    /\ \E j \in First(Claimable(S)) : job' = [job EXCEPT ![w] = j]
    /\ recovered' = [recovered EXCEPT ![w] = S]
    /\ pc' = [pc EXCEPT ![w] = "claiming"]
    /\ UNCHANGED <<rowVars, attempt, beat, lost, stalled, faults>>

\* Commit: the claimed row is RUNNING under a fresh lease and a new attempt row,
\* the other recovered rows wait for a later claim.  The heartbeat starts.
ClaimCommit(w) ==
    LET j == job[w]
        n == attempt_count[j] + 1
        back == recovered[w] \ {j} IN
    /\ pc[w] = "claiming"
    /\ status' = [k \in Jobs |-> IF k = j THEN "RUNNING"
                                 ELSE IF k \in back THEN "RETRY_SCHEDULED"
                                 ELSE status[k]]
    /\ lock_owner' = [k \in Jobs |-> IF k = j THEN w
                                     ELSE IF k \in back THEN None ELSE lock_owner[k]]
    /\ lock_expires' = [k \in Jobs |-> IF k = j THEN LockTicks
                                       ELSE IF k \in back THEN NoLease ELSE lock_expires[k]]
    /\ attempt_count' = [attempt_count EXCEPT ![j] = n]
    /\ attempts' = [attempts EXCEPT ![j] = Append(@, [worker |-> w, outcome |-> "open"])]
    /\ pc' = [pc EXCEPT ![w] = "executing"]
    /\ attempt' = [attempt EXCEPT ![w] = n]
    /\ recovered' = [recovered EXCEPT ![w] = {}]
    /\ beat' = [beat EXCEPT ![w] = BeatTicks]
    /\ lost' = [lost EXCEPT ![w] = FALSE]
    /\ UNCHANGED <<run_after, job, stalled, faults>>

-----------------------------------------------------------------------------
(* maintain_job_lease: the heartbeat thread.  Its last call may still be    *)
(* in flight after the handler ended, because the join has a timeout.       *)

Working(w) == pc[w] \in {"executing", "returned", "raised"}
Beating(w) == Working(w) /\ ~lost[w] /\ beat[w] = 0

\* renew_job_lease updated the row
Renew(w) ==
    /\ Beating(w) /\ ~Locked(job[w]) /\ Owns(w)
    /\ lock_expires' = [lock_expires EXCEPT ![job[w]] = LockTicks]
    /\ beat' = [beat EXCEPT ![w] = BeatTicks]
    /\ UNCHANGED <<status, attempt_count, run_after, lock_owner, attempts,
                   pc, job, attempt, recovered, lost, stalled, faults>>

\* renew_job_lease matched no row: the thread sets lease.lost and ends
LeaseLost(w) ==
    /\ Beating(w) /\ ~Locked(job[w]) /\ ~Owns(w)
    /\ lost' = [lost EXCEPT ![w] = TRUE]
    /\ UNCHANGED <<rowVars, pc, job, attempt, recovered, beat, stalled, faults>>

\* renew_job_lease raised: logged, the thread waits for its next interval
RenewRaises(w) ==
    /\ Beating(w)
    /\ Fault("beat")
    /\ beat' = [beat EXCEPT ![w] = BeatTicks]
    /\ UNCHANGED <<rowVars, pc, job, attempt, recovered, lost, stalled>>

-----------------------------------------------------------------------------
(* The handler and the write of its outcome *)

\* execute_job returned; a lease found lost becomes an exception
ExecuteReturns(w) ==
    /\ pc[w] = "executing"
    /\ pc' = [pc EXCEPT ![w] = IF lost[w] THEN "raised" ELSE "returned"]
    /\ UNCHANGED <<rowVars, job, attempt, recovered, beat, lost, stalled, faults>>

ExecuteRaises(w) ==
    /\ pc[w] = "executing"
    /\ pc' = [pc EXCEPT ![w] = "raised"]
    /\ UNCHANGED <<rowVars, job, attempt, recovered, beat, lost, stalled, faults>>

\* the worker goes back to its loop
Release(w) ==
    /\ pc' = [pc EXCEPT ![w] = "idle"]
    /\ job' = [job EXCEPT ![w] = None]
    /\ attempt' = [attempt EXCEPT ![w] = 0]
    /\ beat' = [beat EXCEPT ![w] = 0]
    /\ lost' = [lost EXCEPT ![w] = FALSE]
    /\ UNCHANGED <<recovered, stalled, faults>>

\* mutant: the update forgets to filter by attempt_number
CloseAllRows(j, outcome) ==
    attempts' = [attempts EXCEPT ![j] = [i \in DOMAIN @ |-> [@[i] EXCEPT !.outcome = outcome]]]

\* job.attempts.filter(attempt_number=job.attempt_count).update(...)
CloseRow(j, outcome) ==
    attempts' = [attempts EXCEPT ![j] =
        [i \in DOMAIN @ |-> IF i = attempt_count[j] THEN [@[i] EXCEPT !.outcome = outcome]
                            ELSE @[i]]]

MarkSucceeded(w) ==
    LET j == job[w] IN
    /\ pc[w] = "returned" /\ ~Locked(j) /\ Owns(w)
    /\ status' = [status EXCEPT ![j] = "SUCCEEDED"]
    /\ lock_owner' = [lock_owner EXCEPT ![j] = None]
    /\ lock_expires' = [lock_expires EXCEPT ![j] = NoLease]
    /\ CloseRow(j, "ok")
    /\ Release(w)
    /\ UNCHANGED <<attempt_count, run_after>>

RetryOnceMore(j) == attempt_count[j] <= MaxAttempts   \* mutant: off by one

Retry(j) == attempt_count[j] < MaxAttempts

MarkFailed(w) ==
    LET j == job[w] IN
    /\ pc[w] = "raised" /\ ~Locked(j) /\ Owns(w)
    /\ status' = [status EXCEPT ![j] = IF Retry(j) THEN "RETRY_SCHEDULED" ELSE "FAILED"]
    /\ run_after' = [run_after EXCEPT ![j] = BackoffTicks(attempt_count[j])]
    /\ lock_owner' = [lock_owner EXCEPT ![j] = None]
    /\ lock_expires' = [lock_expires EXCEPT ![j] = NoLease]
    /\ CloseRow(j, "failed")
    /\ Release(w)
    /\ UNCHANGED attempt_count

\* mark_succeeded or mark_failed raised JobLeaseLost: the result is dropped
Discard(w) ==
    /\ pc[w] \in {"returned", "raised"} /\ ~Locked(job[w]) /\ ~Owns(w)
    /\ Release(w)
    /\ UNCHANGED rowVars

-----------------------------------------------------------------------------
(* Crashes and time *)

\* The process dies, or an exception escapes the loop: an open claim rolls back,
\* a RUNNING row stays as it is.
Crash(w) ==
    /\ pc[w] # "down"
    /\ Fault("crash")
    /\ pc' = [pc EXCEPT ![w] = "down"]
    /\ job' = [job EXCEPT ![w] = None]
    /\ attempt' = [attempt EXCEPT ![w] = 0]
    /\ recovered' = [recovered EXCEPT ![w] = {}]
    /\ beat' = [beat EXCEPT ![w] = 0]
    /\ lost' = [lost EXCEPT ![w] = FALSE]
    /\ stalled' = stalled \ {w}
    /\ UNCHANGED rowVars

Restart(w) ==
    /\ pc[w] = "down"
    /\ pc' = [pc EXCEPT ![w] = "idle"]
    /\ UNCHANGED <<rowVars, job, attempt, recovered, beat, lost, stalled, faults>>

\* The process is suspended, heartbeat included, or its next statement hangs.
Stall(w) ==
    /\ Working(w) /\ w \notin stalled
    /\ Fault("stall")
    /\ stalled' = stalled \cup {w}
    /\ UNCHANGED <<rowVars, pc, job, attempt, recovered, beat, lost>>

Resume(w) ==
    /\ w \in stalled
    /\ stalled' = stalled \ {w}
    /\ UNCHANGED <<rowVars, pc, job, attempt, recovered, beat, lost, faults>>

\* jobs whose times are read again
Timed(j) == status[j] \in Queued \cup {"RUNNING"}

\* A transaction is shorter than a tick and the heartbeat of a handler wakes up
\* on time, unless its worker is stalled.
Prompt(w) == pc[w] \in {"claiming", "returned", "raised"} \/ Beating(w)

Tick ==
    /\ \A w \in Workers \ stalled : ~Prompt(w)
    /\ run_after' = [j \in Jobs |-> IF Timed(j) /\ run_after[j] > -MaxAge
                                    THEN run_after[j] - 1 ELSE run_after[j]]
    /\ lock_expires' = [j \in Jobs |-> IF Timed(j) /\ lock_expires[j] >= 0
                                       THEN lock_expires[j] - 1 ELSE lock_expires[j]]
    /\ beat' = [w \in Workers |-> IF pc[w] = "executing" /\ ~lost[w] /\ w \notin stalled
                                  THEN beat[w] - 1 ELSE beat[w]]
    /\ UNCHANGED <<status, attempt_count, lock_owner, attempts,
                   pc, job, attempt, recovered, lost, stalled, faults>>

Claim(w) == ClaimBegin(w) \/ ClaimCommit(w)
Heartbeat(w) == Renew(w) \/ LeaseLost(w) \/ RenewRaises(w)
Execute(w) == ExecuteReturns(w) \/ ExecuteRaises(w)
Finish(w) == MarkSucceeded(w) \/ MarkFailed(w) \/ Discard(w)

Next ==
    \/ \E j \in Jobs : Enqueue(j) \/ Cancel(j)
    \/ \E w \in Workers \ stalled : Claim(w) \/ Heartbeat(w) \/ Execute(w) \/ Finish(w)
    \/ \E w \in Workers : Crash(w) \/ Restart(w) \/ Stall(w) \/ Resume(w)
    \/ Tick

Spec == Init /\ [][Next]_vars

\* A worker that is up runs its loop and its heartbeat, every handler ends, a
\* worker that is down is restarted, a stall ends, time passes.
Fairness ==
    /\ \A w \in Workers : /\ WF_vars(w \notin stalled /\ Claim(w))
                          /\ WF_vars(w \notin stalled /\ Heartbeat(w))
                          /\ WF_vars(w \notin stalled /\ Execute(w))
                          /\ WF_vars(w \notin stalled /\ Finish(w))
                          /\ WF_vars(Restart(w)) /\ WF_vars(Resume(w))
    /\ WF_vars(Tick)

FairSpec == Spec /\ Fairness
-----------------------------------------------------------------------------
(* Properties *)

\* A worker that still owns the row of its job is executing the last attempt of
\* that job, and that attempt is open under its name: the owner check of
\* _owned_running_job is enough to fence off every older attempt, although it
\* compares no attempt number (a worker that lost a job and claims it again, or
\* restarts under the same worker_id, included).
OwnerHoldsCurrentAttempt ==
    \A w \in Workers : Working(w) /\ Owns(w) =>
        LET j == job[w] IN
        /\ attempt[w] = attempt_count[j]
        /\ attempts[j][attempt[w]] = [worker |-> w, outcome |-> "open"]

\* No two workers ever execute the same attempt: claims that overlap lock
\* different rows, and each claim opens an attempt of its own.
AttemptsAreExclusive ==
    \A v, w \in Workers : v # w /\ job[v] = job[w] /\ job[v] # None =>
        /\ ~(pc[v] = "claiming" /\ pc[w] = "claiming")
        /\ Working(v) /\ Working(w) => attempt[v] # attempt[w]

\* job and job_attempt agree although they are written by different calls: one
\* row per attempt, success recorded on the last attempt of a SUCCEEDED job and
\* nowhere else, a FAILED job ends in a failed attempt at or past the limit, a
\* RUNNING job has its owner's attempt open, and no attempt at or past the limit that
\* failed is followed by another: a job is tried past max_attempts only because
\* attempts were abandoned (they crashed or lost their lease), never by a retry.
JobLedgerAgrees(j) ==
    LET n == attempt_count[j]
        rows == attempts[j] IN
    /\ Len(rows) = n
    /\ \A i \in 1..n : rows[i].outcome = "ok" <=> (i = n /\ status[j] = "SUCCEEDED")
    /\ status[j] = "FAILED" => n >= MaxAttempts /\ rows[n].outcome = "failed"
    /\ \A i \in 1..n : rows[i].outcome = "failed" /\ i >= MaxAttempts
                       => i = n /\ status[j] = "FAILED"
    /\ status[j] = "RUNNING" => n > 0 /\ rows[n] = [worker |-> lock_owner[j], outcome |-> "open"]

LedgerAgrees == \A j \in Jobs : JobLedgerAgrees(j)

\* At most one live worker is inside the handler of a job.  It rests on the
\* heartbeat alone: the lease outlasts MaxFaults heartbeats in a row that do not
\* reach the database, the boundary (lock_expires_at = now) included.
OneExecution ==
    \A v, w \in Workers :
        pc[v] = "executing" /\ pc[w] = "executing" /\ job[v] = job[w] => v = w

\* A job that ended stays as it ended, its ledger included, whatever the workers
\* that still execute older attempts of it do.
EndedJobsAreFinal ==
    [][\A j \in Jobs : status[j] \in Terminal =>
           /\ status'[j] = status[j]
           /\ attempt_count'[j] = attempt_count[j]
           /\ attempts'[j] = attempts[j]]_vars

\* A running attempt loses the row in two ways only: by the verdict of the worker
\* that executes it, or after its lease expired (an operator's cancel leaves the
\* owner in place).
OwnershipEndsByVerdictOrExpiry ==
    [][\A j \in Jobs :
           status[j] = "RUNNING" /\ <<lock_owner[j], attempt_count[j]>>' # <<lock_owner[j], attempt_count[j]>>
           => \/ lock_expires[j] = Lapsed
              \/ \E w \in Workers : /\ job[w] = j /\ attempt[w] = attempt_count[j]
                                    /\ pc[w] \in {"returned", "raised"} /\ pc'[w] = "idle"]_vars

\* Every enqueued job ends: retries, crashes, lost leases and competing claims
\* delay it, none of them leaves it RUNNING without a worker or queued for ever.
EveryJobEnds == \A j \in Jobs : (status[j] # "ABSENT") ~> (status[j] \in Terminal)

\* The queue implements JobContract: a row's status is the phase of its job, and
\* the live attempts are those that some worker is working on.
Phase(s) ==
    CASE s = "ABSENT" -> "absent"
      [] s \in Queued -> "queued"
      [] s = "RUNNING" -> "running"
      [] s = "SUCCEEDED" -> "succeeded"
      [] s = "FAILED" -> "failed"
      [] s = "CANCELLED" -> "cancelled"

LiveAttempts(j) == {attempt[w] : w \in {v \in Workers : Working(v) /\ job[v] = j}}

Contract == INSTANCE JobContract WITH
    phase <- [j \in Jobs |-> Phase(status[j])],
    current <- attempt_count,
    live <- [j \in Jobs |-> LiveAttempts(j)]

ImplementsContract == Contract!ContractSpec

\* docs/architecture.md:175, "dead-letter logico apos o limite": no job is ever
\* attempted more than max_attempts times.
DeadLetterAfterLimit == \A j \in Jobs : attempt_count[j] <= MaxAttempts
=============================================================================
