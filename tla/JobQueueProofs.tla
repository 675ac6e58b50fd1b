--------------------------- MODULE JobQueueProofs ---------------------------
(***************************************************************************)
(* Theorems about JobQueue for every number of workers, jobs, attempts,    *)
(* ticks and faults.                                                       *)
(***************************************************************************)
EXTENDS JobQueue, SequenceTheorems, TLAPS

(* Closing a row of the ledger keeps it a sequence of rows. *)
LEMMA CloseRowTyped ==
    ASSUME NEW rows \in Seq(Row), NEW n \in Nat, NEW o \in {"open", "ok", "failed"}
    PROVE  [i \in DOMAIN rows |-> IF i = n THEN [rows[i] EXCEPT !.outcome = o] ELSE rows[i]]
               \in Seq(Row)
<1> DEFINE s == [i \in DOMAIN rows |-> IF i = n THEN [rows[i] EXCEPT !.outcome = o] ELSE rows[i]]
<1>1. DOMAIN rows = 1..Len(rows) /\ Len(rows) \in Nat
  OBVIOUS
<1>2. \A i \in 1..Len(rows) : rows[i] \in Row
  OBVIOUS
<1>3. \A i \in 1..Len(rows) : s[i] \in Row
  BY <1>1, <1>2 DEF Row
<1>4. s \in [1..Len(rows) -> Row]
  BY <1>1, <1>3
<1> QED BY <1>1, <1>4

(* Closing a row keeps the attempts of every job typed. *)
LEMMA ClosedTyped ==
    ASSUME NEW j \in Jobs, NEW o \in {"open", "ok", "failed"}, CloseRow(j, o),
           attempts \in [Jobs -> Seq(Row)], attempt_count \in [Jobs -> Nat]
    PROVE  attempts' \in [Jobs -> Seq(Row)]
<1> DEFINE r == [i \in DOMAIN attempts[j] |-> IF i = attempt_count[j]
                      THEN [attempts[j][i] EXCEPT !.outcome = o] ELSE attempts[j][i]]
<1>1. attempts' = [attempts EXCEPT ![j] = r]
  BY DEF CloseRow
<1>2. attempts[j] \in Seq(Row) /\ attempt_count[j] \in Nat
  OBVIOUS
<1>3. r \in Seq(Row)
  BY <1>2, CloseRowTyped
<1> HIDE DEF r
<1> QED BY <1>1, <1>3

(* The delay mark_failed sets is between zero and its ceiling. *)
LEMMA BackoffTyped == \A n \in Nat : BackoffTicks(n) \in 0..BackoffCap
BY QueueAssumption DEF BackoffTicks

(* The first queue is well typed. *)
LEMMA TypeInit == Init => TypeOK
BY QueueAssumption
   DEF Init, TypeOK, RowsTyped, WorkersTyped, Status, Queued, Terminal, NoLease, WorkerState

(* What the type invariant says of one worker and one job, to be cited. *)
LEMMA Members ==
    /\ "PENDING" \in Status /\ "RUNNING" \in Status /\ "RETRY_SCHEDULED" \in Status
    /\ "SUCCEEDED" \in Status /\ "FAILED" \in Status /\ "CANCELLED" \in Status
    /\ NoLease \in NoLease..LockTicks /\ LockTicks \in NoLease..LockTicks
    /\ 0 \in (-MaxAge)..BackoffCap
    /\ BeatTicks \in 0..BeatTicks /\ 0 \in 0..BeatTicks
BY QueueAssumption DEF Status, Queued, Terminal, NoLease

(* A worker that claims or works has a job. *)
LEMMA HasJob ==
    ASSUME TypeOK, NEW w \in Workers, pc[w] \notin {"down", "idle"}
    PROVE  job[w] \in Jobs
BY DEF TypeOK, WorkersTyped

(* A fault is counted up to its budget. *)
LEMMA FaultTyped == ASSUME TypeOK, NEW k, Fault(k) PROVE faults' \in 0..MaxFaults
BY QueueAssumption DEF TypeOK, Fault

(* A worker that lets go of its job is well typed. *)
LEMMA ReleaseTyped == ASSUME TypeOK, NEW w \in Workers, Release(w)
                      PROVE WorkersTyped' /\ UNCHANGED faults
<1> USE DEF TypeOK, WorkersTyped
<1>1. lost' \in [Workers -> BOOLEAN]
  BY Zenon DEF Release
<1>2. beat' \in [Workers -> 0..BeatTicks]
  BY Members DEF Release
<1>3. pc' \in [Workers -> WorkerState]
  BY DEF Release, WorkerState
<1>4. \A v \in Workers : job'[v] = None <=> pc'[v] \in {"down", "idle"}
  BY DEF Release
<1> QED BY <1>1, <1>2, <1>3, <1>4 DEF Release

(* Every action keeps the types. *)
LEMMA TypeStep == TypeOK /\ [Next]_vars => TypeOK'
<1> SUFFICES ASSUME TypeOK, [Next]_vars PROVE TypeOK'
  OBVIOUS
<1>1. ASSUME NEW j \in Jobs, Enqueue(j) PROVE TypeOK'
  BY <1>1, Members DEF Enqueue, workerVars, TypeOK, RowsTyped, WorkersTyped
<1>2. ASSUME NEW j \in Jobs, Cancel(j) PROVE TypeOK'
  BY <1>2, Members DEF Cancel, workerVars, TypeOK, RowsTyped, WorkersTyped
<1>3. ASSUME NEW w \in Workers, ClaimBegin(w) PROVE TypeOK'
  <2>1. RowsTyped'
    BY <1>3 DEF ClaimBegin, TypeOK, RowsTyped, rowVars
  <2>2. PICK j \in Jobs : job' = [job EXCEPT ![w] = j]
    BY <1>3 DEF ClaimBegin, First, Claimable
  <2>3. /\ pc' \in [Workers -> WorkerState]
        /\ \A v \in Workers : job'[v] = None <=> pc'[v] \in {"down", "idle"}
    BY <1>3, <2>2, QueueAssumption DEF ClaimBegin, TypeOK, WorkersTyped, WorkerState
  <2> QED BY <1>3, <2>1, <2>2, <2>3 DEF ClaimBegin, TypeOK, WorkersTyped
<1>4. ASSUME NEW w \in Workers, ClaimCommit(w) PROVE TypeOK'
  <2>1. job[w] \in Jobs
    BY <1>4, HasJob DEF ClaimCommit
  <2>2. Append(attempts[job[w]], [worker |-> w, outcome |-> "open"]) \in Seq(Row)
    <3>1. [worker |-> w, outcome |-> "open"] \in Row
      BY DEF Row
    <3>2. attempts[job[w]] \in Seq(Row)
      BY <2>1 DEF TypeOK, RowsTyped
    <3> QED BY <3>1, <3>2, AppendProperties
  <2>3. attempts' \in [Jobs -> Seq(Row)]
    BY <1>4, <2>1, <2>2 DEF ClaimCommit, TypeOK, RowsTyped
  <2>4. lost' \in [Workers -> BOOLEAN]
    BY <1>4, Zenon DEF ClaimCommit, TypeOK, WorkersTyped
  <2>5. attempt_count' \in [Jobs -> Nat] /\ attempt' \in [Workers -> Nat]
    BY <1>4, <2>1 DEF ClaimCommit, TypeOK, RowsTyped, WorkersTyped
  <2>6. beat' \in [Workers -> 0..BeatTicks] /\ recovered' \in [Workers -> SUBSET Jobs]
    BY <1>4, Members DEF ClaimCommit, TypeOK, WorkersTyped
  <2>7. /\ status' \in [Jobs -> Status] /\ lock_owner' \in [Jobs -> Workers \cup {None}]
        /\ lock_expires' \in [Jobs -> NoLease..LockTicks]
    BY <1>4, Members DEF ClaimCommit, TypeOK, RowsTyped
  <2>8. /\ pc' \in [Workers -> WorkerState]
        /\ \A v \in Workers : job'[v] = None <=> pc'[v] \in {"down", "idle"}
    BY <1>4 DEF ClaimCommit, TypeOK, WorkersTyped, WorkerState
  <2> QED BY <1>4, <2>3, <2>4, <2>5, <2>6, <2>7, <2>8
          DEF ClaimCommit, TypeOK, RowsTyped, WorkersTyped
<1>5. ASSUME NEW w \in Workers, Renew(w) PROVE TypeOK'
  BY <1>5, Members DEF Renew, TypeOK, RowsTyped, WorkersTyped
<1>6. ASSUME NEW w \in Workers, LeaseLost(w) PROVE TypeOK'
  <2>1. lost' \in [Workers -> BOOLEAN]
    BY <1>6, Zenon DEF LeaseLost, TypeOK, WorkersTyped
  <2> QED BY <1>6, <2>1 DEF LeaseLost, rowVars, TypeOK, RowsTyped, WorkersTyped
<1>7. ASSUME NEW w \in Workers, RenewRaises(w) PROVE TypeOK'
  BY <1>7, FaultTyped, Members DEF RenewRaises, rowVars, TypeOK, RowsTyped, WorkersTyped
<1>8. ASSUME NEW w \in Workers, Execute(w) PROVE TypeOK'
  <2>1. PICK s \in {"returned", "raised"} : pc[w] = "executing" /\ pc' = [pc EXCEPT ![w] = s]
    BY <1>8 DEF Execute, ExecuteReturns, ExecuteRaises
  <2>2. UNCHANGED <<rowVars, job, attempt, recovered, beat, lost, stalled, faults>>
    BY <1>8 DEF Execute, ExecuteReturns, ExecuteRaises
  <2>3. pc' \in [Workers -> WorkerState]
    BY <2>1 DEF TypeOK, WorkersTyped, WorkerState
  <2>4. \A v \in Workers : job'[v] = None <=> pc'[v] \in {"down", "idle"}
    BY <2>1, <2>2 DEF TypeOK, WorkersTyped, WorkerState
  <2> QED BY <2>2, <2>3, <2>4 DEF rowVars, TypeOK, RowsTyped, WorkersTyped
<1>9. ASSUME NEW w \in Workers, MarkSucceeded(w) PROVE TypeOK'
  <2>1. job[w] \in Jobs
    BY <1>9, HasJob DEF MarkSucceeded
  <2>2. attempts' \in [Jobs -> Seq(Row)]
    <3>1. CloseRow(job[w], "ok")
      BY <1>9 DEF MarkSucceeded
    <3>2. attempts \in [Jobs -> Seq(Row)] /\ attempt_count \in [Jobs -> Nat]
      BY DEF TypeOK, RowsTyped
    <3> QED BY <2>1, <3>1, <3>2, ClosedTyped
  <2>3. WorkersTyped' /\ UNCHANGED faults
    BY <1>9, ReleaseTyped DEF MarkSucceeded, Release
  <2> QED BY <1>9, <2>2, <2>3, Members DEF MarkSucceeded, TypeOK, RowsTyped
<1>10. ASSUME NEW w \in Workers, MarkFailed(w) PROVE TypeOK'
  <2>1. job[w] \in Jobs
    BY <1>10, HasJob DEF MarkFailed
  <2>2. attempts' \in [Jobs -> Seq(Row)]
    <3>1. CloseRow(job[w], "failed")
      BY <1>10 DEF MarkFailed
    <3>2. attempts \in [Jobs -> Seq(Row)] /\ attempt_count \in [Jobs -> Nat]
      BY DEF TypeOK, RowsTyped
    <3> QED BY <2>1, <3>1, <3>2, ClosedTyped
  <2>3. WorkersTyped' /\ UNCHANGED faults
    BY <1>10, ReleaseTyped DEF MarkFailed, Release
  <2>4. run_after' \in [Jobs -> (-MaxAge)..BackoffCap]
    <3>1. BackoffTicks(attempt_count[job[w]]) \in (-MaxAge)..BackoffCap
      <4>1. BackoffTicks(attempt_count[job[w]]) \in 0..BackoffCap
        BY <2>1, BackoffTyped DEF TypeOK, RowsTyped
      <4> QED BY <4>1, QueueAssumption
    <3> QED BY <1>10, <2>1, <3>1 DEF MarkFailed, TypeOK, RowsTyped
  <2> QED BY <1>10, <2>2, <2>3, <2>4, Members DEF MarkFailed, TypeOK, RowsTyped
<1>11. ASSUME NEW w \in Workers, Discard(w) PROVE TypeOK'
  BY <1>11, ReleaseTyped DEF Discard, Release, rowVars, TypeOK, RowsTyped
<1>12. ASSUME NEW w \in Workers, Crash(w) PROVE TypeOK'
  <2>1. lost' \in [Workers -> BOOLEAN]
    BY <1>12, Zenon DEF Crash, TypeOK, WorkersTyped
  <2>2. /\ pc' \in [Workers -> WorkerState]
        /\ \A v \in Workers : job'[v] = None <=> pc'[v] \in {"down", "idle"}
    BY <1>12 DEF Crash, TypeOK, WorkersTyped, WorkerState
  <2>3. attempt' \in [Workers -> Nat] /\ beat' \in [Workers -> 0..BeatTicks]
    BY <1>12, Members DEF Crash, TypeOK, WorkersTyped
  <2> QED BY <1>12, <2>1, <2>2, <2>3, FaultTyped
          DEF Crash, rowVars, TypeOK, RowsTyped, WorkersTyped
<1>13. ASSUME NEW w \in Workers, Restart(w) PROVE TypeOK'
  <2>1. /\ pc' \in [Workers -> WorkerState]
        /\ \A v \in Workers : job'[v] = None <=> pc'[v] \in {"down", "idle"}
    BY <1>13 DEF Restart, TypeOK, WorkersTyped, WorkerState
  <2> QED BY <1>13, <2>1 DEF Restart, rowVars, TypeOK, RowsTyped, WorkersTyped
<1>14. ASSUME NEW w \in Workers, Stall(w) \/ Resume(w) PROVE TypeOK'
  BY <1>14, FaultTyped DEF Stall, Resume, rowVars, TypeOK, RowsTyped, WorkersTyped
<1>15. CASE Tick
  <2>1. /\ run_after' \in [Jobs -> (-MaxAge)..BackoffCap]
        /\ lock_expires' \in [Jobs -> NoLease..LockTicks]
    <3>1. ASSUME NEW j \in Jobs PROVE run_after'[j] \in (-MaxAge)..BackoffCap
      BY <1>15, QueueAssumption DEF Tick, TypeOK, RowsTyped
    <3>2. ASSUME NEW j \in Jobs PROVE lock_expires'[j] \in NoLease..LockTicks
      BY <1>15, QueueAssumption DEF Tick, TypeOK, RowsTyped, NoLease
    <3> QED BY <1>15, <3>1, <3>2 DEF Tick
  <2>2. \A w \in Workers : pc[w] = "executing" /\ ~lost[w] /\ w \notin stalled => beat[w] # 0
    BY <1>15 DEF Tick, Prompt, Beating, Working
  <2>3. beat' \in [Workers -> 0..BeatTicks]
    BY <1>15, <2>2, QueueAssumption DEF Tick, TypeOK, WorkersTyped
  <2> QED BY <1>15, <2>1, <2>3 DEF Tick, TypeOK, RowsTyped, WorkersTyped
<1>16. CASE UNCHANGED vars
  BY <1>16 DEF vars, rowVars, workerVars, TypeOK, RowsTyped, WorkersTyped
<1> QED BY <1>1, <1>2, <1>3, <1>4, <1>5, <1>6, <1>7, <1>8, <1>9, <1>10, <1>11, <1>12, <1>13,
           <1>14, <1>15, <1>16
        DEF Next, Claim, Heartbeat, Finish

(* Every variable keeps its type: in particular the lease and the due time *)
(* stay in range and the ledger stays a sequence of rows.                  *)
THEOREM TypeCorrect == Spec => []TypeOK
BY TypeInit, TypeStep, PTL DEF Spec

-----------------------------------------------------------------------------
(* The inductive invariant.                                                *)

(* A claim holds expired rows it recovers and a row that was queued or is   *)
(* one of those: nobody else writes them before it commits.                *)
LocksHold ==
    \A w \in Workers :
        /\ recovered[w] # {} => pc[w] = "claiming"
        /\ pc[w] = "claiming" => /\ \A k \in recovered[w] : Expired(k)
                                 /\ status[job[w]] \in Queued \/ job[w] \in recovered[w]

LocksDisjoint ==
    \A v, w \in Workers : v # w /\ pc[v] = "claiming" /\ pc[w] = "claiming" =>
        job[v] # job[w] /\ job[v] \notin recovered[w] /\ recovered[v] \cap recovered[w] = {}

(* A worker holds an attempt that was opened; two workers on a job hold      *)
(* different ones; the owner of the row holds the last.                     *)
AttemptsOpened ==
    \A w \in Workers : Working(w) => attempt[w] \in 1..attempt_count[job[w]]

AttemptsDiffer ==
    \A v, w \in Workers : v # w /\ Working(v) /\ Working(w) /\ job[v] = job[w] =>
        attempt[v] # attempt[w]

OwnerIsLast ==
    \A w \in Workers : Working(w) /\ Owns(w) => attempt[w] = attempt_count[job[w]]

FencingInv == LocksHold /\ LocksDisjoint /\ AttemptsOpened /\ AttemptsDiffer /\ OwnerIsLast

(* Nothing is claimed at first. *)
LEMMA FencingInit == Init => FencingInv
BY DEF Init, FencingInv, LocksHold, LocksDisjoint, AttemptsOpened, AttemptsDiffer, OwnerIsLast,
       Working

(* What a step leaves alone: neither the rows nor who works on what. *)
LEMMA FencingStutter ==
    ASSUME FencingInv, UNCHANGED <<status, attempt_count, lock_owner, lock_expires>>,
           UNCHANGED <<pc, job, attempt, recovered>>
    PROVE  FencingInv'
BY DEF FencingInv, LocksHold, LocksDisjoint, AttemptsOpened, AttemptsDiffer, OwnerIsLast,
       Working, Owns, Expired

(* A worker drops its job, or starts with none, and no row changes. *)
LEMMA FencingDrop ==
    ASSUME TypeOK, FencingInv, NEW w \in Workers, NEW s \in {"down", "idle"},
           UNCHANGED <<status, attempt_count, lock_owner, lock_expires>>,
           pc' = [pc EXCEPT ![w] = s], job' = [job EXCEPT ![w] = None],
           \A v \in Workers : v # w => attempt'[v] = attempt[v] /\ recovered'[v] = recovered[v],
           recovered'[w] = {}
    PROVE  FencingInv'
<1> USE DEF TypeOK, WorkersTyped
<1>1. \A v \in Workers : v # w => pc'[v] = pc[v] /\ job'[v] = job[v]
  OBVIOUS
<1>2. pc'[w] = s
  OBVIOUS
<1>3. LocksHold'
  BY <1>1, <1>2 DEF FencingInv, LocksHold, Expired
<1>4. LocksDisjoint'
  BY <1>1, <1>2 DEF FencingInv, LocksDisjoint
<1>5. AttemptsOpened' /\ AttemptsDiffer' /\ OwnerIsLast'
  BY <1>1, <1>2 DEF FencingInv, AttemptsOpened, AttemptsDiffer, OwnerIsLast, Working, Owns
<1> QED BY <1>3, <1>4, <1>5 DEF FencingInv

(* A row that no claim has locked changes its status, and nobody owns it by it. *)
LEMMA FencingRow ==
    ASSUME TypeOK, FencingInv, NEW j \in Jobs, ~Locked(j), NEW s, s # "RUNNING",
           status' = [status EXCEPT ![j] = s],
           \A k \in Jobs : k # j => lock_owner'[k] = lock_owner[k] /\ lock_expires'[k] = lock_expires[k],
           UNCHANGED <<attempt_count, pc, job, attempt, recovered>>
    PROVE  FencingInv'
<1> USE DEF TypeOK, RowsTyped, WorkersTyped
<1>1. \A k \in Jobs : k # j => status'[k] = status[k]
  OBVIOUS
<1>2. status'[j] = s
  OBVIOUS
<1>3. LocksHold'
  <2> SUFFICES ASSUME NEW w \in Workers, pc[w] = "claiming"
               PROVE  /\ \A k \in recovered[w] : Expired(k)'
                      /\ status'[job[w]] \in Queued \/ job[w] \in recovered[w]
    BY DEF FencingInv, LocksHold
  <2>1. j # job[w] /\ j \notin recovered[w] /\ job[w] \in Jobs
    BY HasJob DEF Locked
  <2> QED BY <1>1, <2>1 DEF FencingInv, LocksHold, Expired
<1>4. LocksDisjoint' /\ AttemptsOpened' /\ AttemptsDiffer'
  BY DEF FencingInv, LocksDisjoint, AttemptsOpened, AttemptsDiffer, Working
<1>5. OwnerIsLast'
  <2> SUFFICES ASSUME NEW w \in Workers, Working(w), Owns(w)'
               PROVE  attempt[w] = attempt_count[job[w]]
    BY DEF OwnerIsLast, Working
  <2>1. job[w] \in Jobs
    BY HasJob DEF Working
  <2>2. job[w] # j
    BY <1>2 DEF Owns
  <2> QED BY <1>1, <2>1, <2>2 DEF FencingInv, OwnerIsLast, Owns
<1> QED BY <1>3, <1>4, <1>5 DEF FencingInv

(* A worker writes the verdict on its own row and goes back to its loop. *)
LEMMA FencingVerdict ==
    ASSUME TypeOK, FencingInv, NEW w \in Workers, Working(w), ~Locked(job[w]),
           NEW s, s # "RUNNING", status' = [status EXCEPT ![job[w]] = s],
           lock_owner' = [lock_owner EXCEPT ![job[w]] = None],
           lock_expires' = [lock_expires EXCEPT ![job[w]] = NoLease],
           UNCHANGED attempt_count, Release(w)
    PROVE  FencingInv'
<1> USE DEF TypeOK, RowsTyped, WorkersTyped
<1> DEFINE j == job[w]
<1>0. j \in Jobs
  BY HasJob DEF Working
<1>1. \A k \in Jobs : k # j => status'[k] = status[k] /\ lock_owner'[k] = lock_owner[k]
                               /\ lock_expires'[k] = lock_expires[k]
  BY <1>0
<1>2. status'[j] = s
  BY <1>0
<1>3. \A v \in Workers : v # w => pc'[v] = pc[v] /\ job'[v] = job[v] /\ attempt'[v] = attempt[v]
  BY DEF Release
<1>4. pc'[w] = "idle" /\ recovered' = recovered /\ recovered[w] = {}
  BY DEF Release, FencingInv, LocksHold, Working
<1>5. LocksHold'
  <2> SUFFICES ASSUME NEW v \in Workers, v # w, pc[v] = "claiming"
               PROVE  /\ \A k \in recovered[v] : Expired(k)'
                      /\ status'[job[v]] \in Queued \/ job[v] \in recovered[v]
    BY <1>3, <1>4 DEF FencingInv, LocksHold
  <2>1. j # job[v] /\ j \notin recovered[v] /\ job[v] \in Jobs
    BY HasJob DEF Locked
  <2> HIDE DEF j
  <2> QED BY <1>1, <2>1 DEF FencingInv, LocksHold, Expired
<1>6. LocksDisjoint'
  <2> SUFFICES ASSUME NEW u \in Workers, NEW v \in Workers, u # v,
                      pc'[u] = "claiming", pc'[v] = "claiming"
               PROVE  job'[u] # job'[v] /\ job'[u] \notin recovered'[v]
                      /\ recovered'[u] \cap recovered'[v] = {}
    BY DEF LocksDisjoint
  <2>1. u # w /\ v # w
    BY <1>4
  <2> QED BY <1>3, <1>4, <2>1 DEF FencingInv, LocksDisjoint
<1>7. AttemptsOpened' /\ AttemptsDiffer'
  <2>1. \A v \in Workers : Working(v)' => v # w /\ Working(v)
    BY <1>3, <1>4 DEF Working
  <2>2. AttemptsOpened'
    BY <1>3, <2>1 DEF FencingInv, AttemptsOpened
  <2>3. AttemptsDiffer'
    BY <1>3, <2>1 DEF FencingInv, AttemptsDiffer
  <2> QED BY <2>2, <2>3
<1>8. OwnerIsLast'
  <2> SUFFICES ASSUME NEW v \in Workers, v # w, Working(v), Owns(v)'
               PROVE  attempt[v] = attempt_count[job[v]]
    BY <1>3, <1>4 DEF OwnerIsLast, Working
  <2>1. job[v] \in Jobs
    BY HasJob DEF Working
  <2>2. job[v] # j
    BY <1>2, <1>3 DEF Owns
  <2> HIDE DEF j
  <2> QED BY <1>1, <1>3, <2>1, <2>2 DEF FencingInv, OwnerIsLast, Owns
<1> QED BY <1>5, <1>6, <1>7, <1>8 DEF FencingInv

(* Opening a claim: skip_locked keeps its rows apart from those of others. *)
LEMMA FencingBegin ==
    ASSUME TypeOK, FencingInv, NEW w \in Workers, ClaimBegin(w)
    PROVE  FencingInv'
<1> USE DEF TypeOK, RowsTyped, WorkersTyped
<1> DEFINE S == {j \in Jobs : Expired(j)}
<1>1. PICK j \in Jobs : /\ ~Locked(j) /\ (status[j] \in Queued \/ j \in S)
                        /\ job' = [job EXCEPT ![w] = j]
  BY DEF ClaimBegin, First, Claimable
<1>2. \A k \in S : ~Locked(k)
  BY DEF ClaimBegin
<1>3. \A v \in Workers : v # w => pc'[v] = pc[v] /\ job'[v] = job[v] /\ recovered'[v] = recovered[v]
  BY <1>1 DEF ClaimBegin
<1>4. pc[w] = "idle" /\ pc'[w] = "claiming" /\ job'[w] = j /\ recovered'[w] = S
  BY <1>1 DEF ClaimBegin
<1>5. UNCHANGED <<rowVars, attempt>>
  BY DEF ClaimBegin
<1>6. LocksHold'
  BY <1>1, <1>3, <1>4, <1>5 DEF FencingInv, LocksHold, Expired, rowVars
<1>7. LocksDisjoint'
  <2>1. \A v \in Workers : v # w /\ pc[v] = "claiming" =>
           job[v] # j /\ job[v] \notin S /\ j \notin recovered[v] /\ S \cap recovered[v] = {}
    BY <1>1, <1>2 DEF Locked
  <2> HIDE DEF S
  <2> SUFFICES ASSUME NEW u \in Workers, NEW v \in Workers, u # v,
                      pc'[u] = "claiming", pc'[v] = "claiming"
               PROVE  job'[u] # job'[v] /\ job'[u] \notin recovered'[v]
                      /\ recovered'[u] \cap recovered'[v] = {}
    BY DEF LocksDisjoint
  <2>2. CASE u = w
    BY <1>3, <1>4, <2>1, <2>2
  <2>3. CASE v = w
    BY <1>3, <1>4, <2>1, <2>3
  <2>4. CASE u # w /\ v # w
    <3>1. /\ pc[u] = "claiming" /\ job'[u] = job[u] /\ recovered'[u] = recovered[u]
          /\ pc[v] = "claiming" /\ job'[v] = job[v] /\ recovered'[v] = recovered[v]
      BY <1>3, <2>4
    <3> QED BY <3>1 DEF FencingInv, LocksDisjoint
  <2> QED BY <2>2, <2>3, <2>4
<1>8. AttemptsOpened' /\ AttemptsDiffer' /\ OwnerIsLast'
  <2>1. \A v \in Workers : Working(v)' => v # w /\ Working(v) /\ job'[v] = job[v]
    BY <1>3, <1>4 DEF Working
  <2>2. \A v \in Workers : Working(v)' /\ Owns(v)' => Owns(v)
    BY <1>5, <2>1 DEF Owns, rowVars
  <2> QED BY <1>5, <2>1, <2>2
          DEF FencingInv, AttemptsOpened, AttemptsDiffer, OwnerIsLast, rowVars
<1> QED BY <1>6, <1>7, <1>8 DEF FencingInv

(* Writing a claim: the new attempt is in nobody else's hands. *)
LEMMA FencingCommit ==
    ASSUME TypeOK, FencingInv, NEW w \in Workers, ClaimCommit(w)
    PROVE  FencingInv'
<1> USE DEF TypeOK, RowsTyped, WorkersTyped
<1> DEFINE j == job[w]
           R == recovered[w]
<1>0. j \in Jobs /\ pc[w] = "claiming"
  BY HasJob DEF ClaimCommit
<1>1. \A k \in Jobs : k # j /\ k \notin R =>
         status'[k] = status[k] /\ lock_owner'[k] = lock_owner[k] /\ lock_expires'[k] = lock_expires[k]
  BY DEF ClaimCommit
<1>2. \A k \in Jobs : k # j /\ k \in R => status'[k] = "RETRY_SCHEDULED"
  BY DEF ClaimCommit
<1>3. lock_owner'[j] = w /\ attempt'[w] = attempt_count[j] + 1
  BY <1>0 DEF ClaimCommit
<1>4. \A k \in Jobs : attempt_count'[k] = IF k = j THEN attempt_count[j] + 1 ELSE attempt_count[k]
  BY <1>0 DEF ClaimCommit
<1>5. /\ job' = job /\ pc'[w] = "executing" /\ recovered'[w] = {}
      /\ \A v \in Workers : v # w => pc'[v] = pc[v] /\ attempt'[v] = attempt[v] /\ recovered'[v] = recovered[v]
  BY DEF ClaimCommit
<1>6. LocksHold'
  <2> SUFFICES ASSUME NEW v \in Workers, v # w, pc[v] = "claiming"
               PROVE  /\ \A k \in recovered[v] : Expired(k)'
                      /\ status'[job[v]] \in Queued \/ job[v] \in recovered[v]
    BY <1>5 DEF FencingInv, LocksHold
  <2>1. job[v] # j /\ job[v] \notin R /\ j \notin recovered[v] /\ R \cap recovered[v] = {} /\ job[v] \in Jobs
    BY <1>0, HasJob DEF FencingInv, LocksDisjoint
  <2> HIDE DEF j, R
  <2> QED BY <1>1, <2>1 DEF FencingInv, LocksHold, Expired
<1>7. LocksDisjoint'
  <2> SUFFICES ASSUME NEW u \in Workers, NEW v \in Workers, u # v,
                      pc'[u] = "claiming", pc'[v] = "claiming"
               PROVE  job'[u] # job'[v] /\ job'[u] \notin recovered'[v]
                      /\ recovered'[u] \cap recovered'[v] = {}
    BY DEF LocksDisjoint
  <2>1. u # w /\ v # w
    BY <1>5
  <2> QED BY <1>5, <2>1 DEF FencingInv, LocksDisjoint
<1>8. AttemptsOpened'
  <2> SUFFICES ASSUME NEW v \in Workers, Working(v)'
               PROVE  attempt'[v] \in 1..attempt_count'[job[v]]
    BY <1>5 DEF AttemptsOpened
  <2>1. CASE v = w
    BY <2>1, <1>0, <1>3, <1>4
  <2>2. CASE v # w
    <3>1. attempt[v] \in 1..attempt_count[job[v]] /\ job[v] \in Jobs
      BY <2>2, <1>5, HasJob DEF FencingInv, AttemptsOpened, Working
    <3>2. attempt'[v] = attempt[v]
      BY <2>2, <1>5
    <3>3. CASE job[v] = j
      <4>1. attempt_count'[job[v]] = attempt_count[job[v]] + 1 /\ attempt_count[job[v]] \in Nat
        BY <1>0, <1>4, <3>3
      <4> QED BY <3>1, <3>2, <4>1
    <3>4. CASE job[v] # j
      BY <1>4, <3>1, <3>2, <3>4
    <3> QED BY <3>3, <3>4
  <2> QED BY <2>1, <2>2
<1>9. AttemptsDiffer'
  <2>1. \A v \in Workers : v # w /\ Working(v) /\ job[v] = j => attempt[v] # attempt_count[j] + 1
    BY <1>0 DEF FencingInv, AttemptsOpened
  <2> HIDE DEF j, R
  <2>2. \A u, v \in Workers : u # w /\ v # w /\ u # v /\ Working(u) /\ Working(v) /\ job[u] = job[v]
           => attempt[u] # attempt[v]
    BY DEF FencingInv, AttemptsDiffer
  <2>3. \A v \in Workers : v # w => (Working(v)' <=> Working(v))
    BY <1>5 DEF Working
  <2> SUFFICES ASSUME NEW u \in Workers, NEW v \in Workers, u # v,
                      Working(u)', Working(v)', job[u] = job[v]
               PROVE  attempt'[u] # attempt'[v]
    BY <1>5 DEF AttemptsDiffer
  <2>4. CASE u = w
    <3>1. v # w /\ Working(v) /\ job[v] = j /\ attempt'[v] = attempt[v]
      BY <1>5, <2>3, <2>4 DEF j
    <3> QED BY <1>3, <2>1, <2>4, <3>1
  <2>5. CASE v = w
    <3>1. u # w /\ Working(u) /\ job[u] = j /\ attempt'[u] = attempt[u]
      BY <1>5, <2>3, <2>5 DEF j
    <3> QED BY <1>3, <2>1, <2>5, <3>1
  <2>6. CASE u # w /\ v # w
    BY <1>5, <2>2, <2>3, <2>6
  <2> QED BY <2>4, <2>5, <2>6
<1>10. OwnerIsLast'
  <2> SUFFICES ASSUME NEW v \in Workers, Working(v)', Owns(v)'
               PROVE  attempt'[v] = attempt_count'[job[v]]
    BY <1>5 DEF OwnerIsLast
  <2>1. CASE v = w
    BY <2>1, <1>0, <1>3, <1>4
  <2>2. CASE v # w
    <3>1. Working(v) /\ job[v] \in Jobs
      BY <2>2, <1>5, HasJob DEF Working
    <3>2. job[v] # j
      BY <2>2, <1>3, <1>5 DEF Owns
    <3>3. job[v] \notin R
      BY <3>1, <3>2, <1>2, <1>5 DEF Owns
    <3>4. Owns(v)
      BY <1>1, <1>5, <3>1, <3>2, <3>3 DEF Owns
    <3> QED BY <2>2, <3>1, <3>2, <3>4, <1>4, <1>5 DEF FencingInv, OwnerIsLast
  <2> QED BY <2>1, <2>2
<1> QED BY <1>6, <1>7, <1>8, <1>9, <1>10 DEF FencingInv

(* Every action keeps the fencing invariant. *)
LEMMA FencingStep == TypeOK /\ FencingInv /\ [Next]_vars => FencingInv'
<1> SUFFICES ASSUME TypeOK, FencingInv, [Next]_vars PROVE FencingInv'
  OBVIOUS
<1>1. ASSUME NEW j \in Jobs, Enqueue(j) PROVE FencingInv'
  <2>1. ~Locked(j)
    BY <1>1 DEF Locked, FencingInv, LocksHold, Expired, Enqueue, Queued
  <2> QED BY <1>1, <2>1, FencingRow DEF Enqueue, workerVars
<1>2. ASSUME NEW j \in Jobs, Cancel(j) PROVE FencingInv'
  BY <1>2, FencingRow DEF Cancel, workerVars
<1>3. ASSUME NEW w \in Workers, Claim(w) PROVE FencingInv'
  BY <1>3, FencingBegin, FencingCommit DEF Claim
<1>4. ASSUME NEW w \in Workers, Renew(w) PROVE FencingInv'
  <2>1. /\ UNCHANGED <<status, attempt_count, lock_owner, pc, job, attempt, recovered>>
        /\ \A k \in Jobs : k # job[w] => lock_expires'[k] = lock_expires[k]
    BY <1>4 DEF Renew, TypeOK, RowsTyped
  <2>2. \A v \in Workers : pc[v] = "claiming" => job[w] \notin recovered[v]
    BY <1>4 DEF Renew, Locked
  <2>3. LocksHold'
    BY <2>1, <2>2 DEF FencingInv, LocksHold, Expired, TypeOK, WorkersTyped
  <2>4. LocksDisjoint' /\ AttemptsOpened' /\ AttemptsDiffer' /\ OwnerIsLast'
    BY <2>1 DEF FencingInv, LocksDisjoint, AttemptsOpened, AttemptsDiffer, OwnerIsLast, Working, Owns
  <2> QED BY <2>3, <2>4 DEF FencingInv
<1>5. ASSUME NEW w \in Workers, LeaseLost(w) \/ RenewRaises(w) \/ Stall(w) \/ Resume(w)
      PROVE FencingInv'
  BY <1>5, FencingStutter DEF LeaseLost, RenewRaises, Stall, Resume, rowVars
<1>6. ASSUME NEW w \in Workers, Execute(w) PROVE FencingInv'
  <2>1. PICK s \in {"returned", "raised"} : pc[w] = "executing" /\ pc' = [pc EXCEPT ![w] = s]
    BY <1>6 DEF Execute, ExecuteReturns, ExecuteRaises
  <2>2. UNCHANGED <<rowVars, job, attempt, recovered>>
    BY <1>6 DEF Execute, ExecuteReturns, ExecuteRaises
  <2>3. pc'[w] = s /\ \A v \in Workers : v # w => pc'[v] = pc[v]
    BY <2>1 DEF TypeOK, WorkersTyped
  <2>4. \A v \in Workers : Working(v)' <=> Working(v)
    BY <2>1, <2>3 DEF Working
  <2>5. \A v \in Workers : pc'[v] = "claiming" <=> pc[v] = "claiming"
    BY <2>1, <2>3
  <2>6. LocksHold' /\ LocksDisjoint'
    BY <2>2, <2>5 DEF FencingInv, LocksHold, LocksDisjoint, Expired, rowVars
  <2>7. AttemptsOpened' /\ AttemptsDiffer' /\ OwnerIsLast'
    BY <2>2, <2>4 DEF FencingInv, AttemptsOpened, AttemptsDiffer, OwnerIsLast, Owns, rowVars
  <2> QED BY <2>6, <2>7 DEF FencingInv
<1>7. ASSUME NEW w \in Workers, MarkSucceeded(w) PROVE FencingInv'
  BY <1>7, FencingVerdict DEF MarkSucceeded, Working
<1>8. ASSUME NEW w \in Workers, MarkFailed(w) PROVE FencingInv'
  BY <1>8, FencingVerdict DEF MarkFailed, Working
<1>9. ASSUME NEW w \in Workers, Discard(w) PROVE FencingInv'
  <2>1. recovered[w] = {}
    BY <1>9 DEF Discard, FencingInv, LocksHold
  <2> QED BY <1>9, <2>1, FencingDrop DEF Discard, Release, rowVars, TypeOK, WorkersTyped
<1>10. ASSUME NEW w \in Workers, Crash(w) PROVE FencingInv'
  BY <1>10, FencingDrop DEF Crash, rowVars, TypeOK, WorkersTyped
<1>11. ASSUME NEW w \in Workers, Restart(w) PROVE FencingInv'
  <2>1. recovered[w] = {} /\ job[w] = None
    BY <1>11 DEF Restart, FencingInv, LocksHold, TypeOK, WorkersTyped
  <2>2. job' = [job EXCEPT ![w] = None]
    BY <1>11, <2>1 DEF Restart, TypeOK, WorkersTyped
  <2> QED BY <1>11, <2>1, <2>2, FencingDrop DEF Restart, rowVars
<1>12. CASE Tick
  <2>1. \A k \in Jobs : Expired(k) => Expired(k)'
    BY <1>12 DEF Tick, Expired, Lapsed, TypeOK, RowsTyped
  <2>2. UNCHANGED <<status, attempt_count, lock_owner, pc, job, attempt, recovered>>
    BY <1>12 DEF Tick
  <2>3. LocksHold'
    BY <2>1, <2>2 DEF FencingInv, LocksHold, TypeOK, WorkersTyped
  <2>4. LocksDisjoint' /\ AttemptsOpened' /\ AttemptsDiffer' /\ OwnerIsLast'
    BY <2>2 DEF FencingInv, LocksDisjoint, AttemptsOpened, AttemptsDiffer, OwnerIsLast, Working, Owns
  <2> QED BY <2>3, <2>4 DEF FencingInv
<1>13. CASE UNCHANGED vars
  BY <1>13, FencingStutter DEF vars, rowVars, workerVars
<1> QED BY <1>1, <1>2, <1>3, <1>4, <1>5, <1>6, <1>7, <1>8, <1>9, <1>10, <1>11, <1>12, <1>13
        DEF Next, Heartbeat, Finish

(* Types and fencing hold in every reachable state. *)
LEMMA Fencing == Spec => [](TypeOK /\ FencingInv)
<1>1. Init => TypeOK /\ FencingInv
  BY TypeInit, FencingInit
<1>2. TypeOK /\ FencingInv /\ [Next]_vars => (TypeOK /\ FencingInv)'
  BY TypeStep, FencingStep
<1> QED BY <1>1, <1>2, PTL DEF Spec

-----------------------------------------------------------------------------
(* The ledger of attempts.                                                 *)

(* Jobs begin without attempts. *)
LEMMA LedgerInit == Init => LedgerAgrees
BY QueueAssumption DEF Init, LedgerAgrees, JobLedgerAgrees

(* A job whose row and attempts a step leaves alone. *)
LEMMA LedgerSame ==
    ASSUME NEW j \in Jobs, JobLedgerAgrees(j), attempt_count'[j] = attempt_count[j],
           attempts'[j] = attempts[j],
           \/ status'[j] = status[j] /\ lock_owner'[j] = lock_owner[j]
           \/ /\ status[j] \notin {"SUCCEEDED", "FAILED"}
              /\ status'[j] \notin {"SUCCEEDED", "FAILED", "RUNNING"}
    PROVE  JobLedgerAgrees(j)'
BY DEF JobLedgerAgrees

(* A claim opens one more row for a job that had not ended. *)
LEMMA LedgerOpen ==
    ASSUME TypeOK, NEW w \in Workers, NEW j \in Jobs, JobLedgerAgrees(j),
           status[j] \notin {"SUCCEEDED", "FAILED"},
           status'[j] = "RUNNING", lock_owner'[j] = w, attempt_count'[j] = attempt_count[j] + 1,
           attempts'[j] = Append(attempts[j], [worker |-> w, outcome |-> "open"])
    PROVE  JobLedgerAgrees(j)'
<1> DEFINE n == attempt_count[j]
           rows == attempts[j]
           r == [worker |-> w, outcome |-> "open"]
<1>1. n \in Nat /\ rows \in Seq(Row) /\ Len(rows) = n /\ r \in Row
  BY DEF TypeOK, RowsTyped, JobLedgerAgrees, Row
<1>2. Len(attempts'[j]) = n + 1
  BY <1>1, AppendProperties
<1>3. \A i \in 1..n : attempts'[j][i] = rows[i]
  BY <1>1, AppendProperties
<1>4. attempts'[j][n + 1] = r
  BY <1>1, AppendProperties
<1>5. \A i \in 1..n : rows[i].outcome # "ok" /\ ~(rows[i].outcome = "failed" /\ i >= MaxAttempts)
  BY DEF JobLedgerAgrees
<1>6. r.outcome # "ok" /\ r.outcome # "failed"
  OBVIOUS
<1>7. \A i \in 1..(n + 1) : i \in 1..n \/ i = n + 1
  BY <1>1
<1>8. \A i \in 1..(n + 1) :
        /\ attempts'[j][i].outcome # "ok"
        /\ ~(attempts'[j][i].outcome = "failed" /\ i >= MaxAttempts)
  BY <1>3, <1>4, <1>5, <1>6, <1>7
<1> HIDE DEF n, rows, r
<1> QED BY <1>1, <1>2, <1>4, <1>8 DEF JobLedgerAgrees, n, r

(* A verdict closes the last row of a running job and no other. *)
LEMMA LedgerClose ==
    ASSUME TypeOK, NEW j \in Jobs, JobLedgerAgrees(j), status[j] = "RUNNING",
           NEW o \in {"ok", "failed"}, CloseRow(j, o), attempt_count'[j] = attempt_count[j],
           status'[j] # "RUNNING", status'[j] = "SUCCEEDED" <=> o = "ok",
           status'[j] = "FAILED" => attempt_count[j] >= MaxAttempts,
           o = "failed" /\ attempt_count[j] >= MaxAttempts => status'[j] = "FAILED"
    PROVE  JobLedgerAgrees(j)'
<1> DEFINE n == attempt_count[j]
           rows == attempts[j]
<1>1. n \in Nat /\ rows \in Seq(Row) /\ Len(rows) = n /\ n > 0
  BY DEF TypeOK, RowsTyped, JobLedgerAgrees
<1>2. attempts'[j] = [i \in 1..n |-> IF i = n THEN [rows[i] EXCEPT !.outcome = o] ELSE rows[i]]
  BY <1>1 DEF CloseRow, TypeOK, RowsTyped
<1>3. Len(attempts'[j]) = n
  BY <1>1, <1>2
<1>4. rows[n] \in Row
  BY <1>1
<1>5. attempts'[j][n].outcome = o
  BY <1>1, <1>2, <1>4 DEF Row
<1>6. \A i \in 1..n : i # n => attempts'[j][i] = rows[i]
  BY <1>1, <1>2
<1>7. \A i \in 1..n : rows[i].outcome # "ok" /\ ~(rows[i].outcome = "failed" /\ i >= MaxAttempts)
  BY DEF JobLedgerAgrees
<1> HIDE DEF n, rows
<1> QED BY <1>1, <1>3, <1>5, <1>6, <1>7 DEF JobLedgerAgrees, n, rows

(* Every action keeps the ledger. *)
LEMMA LedgerStep == TypeOK /\ FencingInv /\ LedgerAgrees /\ [Next]_vars => LedgerAgrees'
<1> SUFFICES ASSUME TypeOK, FencingInv, LedgerAgrees, [Next]_vars, NEW k \in Jobs
             PROVE  JobLedgerAgrees(k)'
  BY DEF LedgerAgrees
<1>0. JobLedgerAgrees(k)
  BY DEF LedgerAgrees
<1>1. ASSUME NEW j \in Jobs, Enqueue(j) \/ Cancel(j) PROVE JobLedgerAgrees(k)'
  BY <1>0, <1>1, LedgerSame DEF Enqueue, Cancel, Queued, TypeOK, RowsTyped
<1>2. ASSUME NEW w \in Workers, ClaimCommit(w) PROVE JobLedgerAgrees(k)'
  <2>1. job[w] \in Jobs
    BY <1>2, HasJob DEF ClaimCommit
  <2>2. CASE k = job[w]
    <3>1. status[k] \notin {"SUCCEEDED", "FAILED"}
      BY <1>2, <2>2 DEF ClaimCommit, FencingInv, LocksHold, Expired, Queued
    <3> QED BY <1>0, <1>2, <2>1, <2>2, <3>1, LedgerOpen DEF ClaimCommit, TypeOK, RowsTyped
  <2>3. CASE k # job[w] /\ k \in recovered[w]
    <3>1. status[k] = "RUNNING"
      BY <1>2, <2>3 DEF ClaimCommit, FencingInv, LocksHold, Expired
    <3> QED BY <1>0, <1>2, <2>3, <3>1, LedgerSame DEF ClaimCommit, TypeOK, RowsTyped
  <2>4. CASE k # job[w] /\ k \notin recovered[w]
    BY <1>0, <1>2, <2>4, LedgerSame DEF ClaimCommit, TypeOK, RowsTyped
  <2> QED BY <2>2, <2>3, <2>4
<1>3. ASSUME NEW w \in Workers, MarkSucceeded(w) PROVE JobLedgerAgrees(k)'
  <2>1. job[w] \in Jobs
    BY <1>3, HasJob DEF MarkSucceeded
  <2>2. CASE k = job[w]
    <3>1. status[k] = "RUNNING" /\ status'[k] = "SUCCEEDED" /\ CloseRow(k, "ok")
          /\ attempt_count'[k] = attempt_count[k]
      BY <1>3, <2>1, <2>2 DEF MarkSucceeded, Owns, TypeOK, RowsTyped
    <3> QED BY <1>0, <3>1, LedgerClose
  <2>3. CASE k # job[w]
    BY <1>0, <1>3, <2>1, <2>3, LedgerSame DEF MarkSucceeded, CloseRow, TypeOK, RowsTyped
  <2> QED BY <2>2, <2>3
<1>4. ASSUME NEW w \in Workers, MarkFailed(w) PROVE JobLedgerAgrees(k)'
  <2>1. job[w] \in Jobs
    BY <1>4, HasJob DEF MarkFailed
  <2>2. CASE k = job[w]
    <3>1. /\ status[k] = "RUNNING" /\ CloseRow(k, "failed")
          /\ attempt_count'[k] = attempt_count[k] /\ attempt_count[k] \in Nat
          /\ status'[k] = IF Retry(k) THEN "RETRY_SCHEDULED" ELSE "FAILED"
      BY <1>4, <2>1, <2>2 DEF MarkFailed, Owns, TypeOK, RowsTyped
    <3> QED BY <1>0, <3>1, LedgerClose, QueueAssumption DEF Retry
  <2>3. CASE k # job[w]
    BY <1>0, <1>4, <2>1, <2>3, LedgerSame DEF MarkFailed, CloseRow, TypeOK, RowsTyped
  <2> QED BY <2>2, <2>3
<1>5. CASE UNCHANGED <<status, lock_owner, attempt_count, attempts>>
  BY <1>0, <1>5, LedgerSame
<1>6. ASSUME NEW w \in Workers,
             \/ ClaimBegin(w) \/ Heartbeat(w) \/ Execute(w) \/ Discard(w) \/ Crash(w)
             \/ Restart(w) \/ Stall(w) \/ Resume(w)
      PROVE  UNCHANGED <<status, lock_owner, attempt_count, attempts>>
  BY <1>6 DEF ClaimBegin, Heartbeat, Renew, LeaseLost, RenewRaises, Execute, ExecuteReturns,
              ExecuteRaises, Discard, Crash, Restart, Stall, Resume, rowVars
<1>7. Tick \/ UNCHANGED vars => UNCHANGED <<status, lock_owner, attempt_count, attempts>>
  BY DEF Tick, vars, rowVars
<1> QED BY <1>1, <1>2, <1>3, <1>4, <1>5, <1>6, <1>7 DEF Next, Claim, Finish

(* The three invariants together, for the theorems below. *)
LEMMA Safety == Spec => [](TypeOK /\ FencingInv /\ LedgerAgrees)
<1>1. Init => TypeOK /\ FencingInv /\ LedgerAgrees
  BY TypeInit, FencingInit, LedgerInit
<1>2. TypeOK /\ FencingInv /\ LedgerAgrees /\ [Next]_vars => (TypeOK /\ FencingInv /\ LedgerAgrees)'
  BY TypeStep, FencingStep, LedgerStep
<1> QED BY <1>1, <1>2, PTL DEF Spec

(* job and job_attempt always agree. *)
THEOREM LedgerAlwaysAgrees == Spec => []LedgerAgrees
BY Safety, PTL

(* The owner check of _owned_running_job fences off every attempt but the last. *)
THEOREM OwnerAlwaysHoldsCurrentAttempt == Spec => []OwnerHoldsCurrentAttempt
<1>1. TypeOK /\ FencingInv /\ LedgerAgrees => OwnerHoldsCurrentAttempt
  <2> SUFFICES ASSUME TypeOK, FencingInv, LedgerAgrees, NEW w \in Workers, Working(w), Owns(w)
               PROVE  /\ attempt[w] = attempt_count[job[w]]
                      /\ attempts[job[w]][attempt[w]] = [worker |-> w, outcome |-> "open"]
    BY DEF OwnerHoldsCurrentAttempt
  <2>1. job[w] \in Jobs
    BY HasJob DEF Working
  <2> QED BY <2>1 DEF FencingInv, OwnerIsLast, LedgerAgrees, JobLedgerAgrees, Owns
<1> QED BY <1>1, Safety, PTL

(* No attempt is ever executed by two workers. *)
THEOREM AttemptsAlwaysExclusive == Spec => []AttemptsAreExclusive
<1>1. FencingInv => AttemptsAreExclusive
  BY DEF FencingInv, LocksDisjoint, AttemptsDiffer, AttemptsAreExclusive
<1> QED BY <1>1, Safety, PTL

-----------------------------------------------------------------------------
(* What a step may not do.                                                 *)

(* A claim writes only rows that were queued or RUNNING with an expired lease. *)
LEMMA ClaimedRows ==
    ASSUME TypeOK, FencingInv, NEW w \in Workers, ClaimCommit(w), NEW j \in Jobs,
           j = job[w] \/ j \in recovered[w]
    PROVE  status[j] \in Queued \/ Expired(j)
BY DEF ClaimCommit, FencingInv, LocksHold

(* A step changes neither the status of a job that ended nor its ledger. *)
LEMMA EndedStep ==
    ASSUME TypeOK, FencingInv, [Next]_vars, NEW j \in Jobs, status[j] \in Terminal
    PROVE  UNCHANGED <<status[j], attempt_count[j], attempts[j]>>
<1>0. status[j] \notin Queued /\ status[j] # "RUNNING" /\ status[j] # "ABSENT"
  BY DEF Terminal, Queued
<1>1. ASSUME NEW k \in Jobs, Enqueue(k) \/ Cancel(k)
      PROVE  UNCHANGED <<status[j], attempt_count[j], attempts[j]>>
  BY <1>0, <1>1 DEF Enqueue, Cancel, TypeOK, RowsTyped
<1>2. ASSUME NEW w \in Workers, ClaimCommit(w)
      PROVE  UNCHANGED <<status[j], attempt_count[j], attempts[j]>>
  <2>1. j # job[w] /\ j \notin recovered[w]
    BY <1>0, <1>2, ClaimedRows DEF Expired
  <2> QED BY <1>2, <2>1 DEF ClaimCommit, TypeOK, RowsTyped
<1>3. ASSUME NEW w \in Workers, MarkSucceeded(w) \/ MarkFailed(w)
      PROVE  UNCHANGED <<status[j], attempt_count[j], attempts[j]>>
  <2>1. j # job[w]
    BY <1>0, <1>3 DEF MarkSucceeded, MarkFailed, Owns
  <2> QED BY <1>3, <2>1 DEF MarkSucceeded, MarkFailed, CloseRow, TypeOK, RowsTyped
<1>4. ASSUME NEW w \in Workers,
             \/ ClaimBegin(w) \/ Heartbeat(w) \/ Execute(w) \/ Discard(w) \/ Crash(w)
             \/ Restart(w) \/ Stall(w) \/ Resume(w)
      PROVE  UNCHANGED <<status, attempt_count, attempts>>
  BY <1>4 DEF ClaimBegin, Heartbeat, Renew, LeaseLost, RenewRaises, Execute, ExecuteReturns,
              ExecuteRaises, Discard, Crash, Restart, Stall, Resume, rowVars
<1>5. Tick \/ UNCHANGED vars => UNCHANGED <<status, attempt_count, attempts>>
  BY DEF Tick, vars, rowVars
<1> QED BY <1>1, <1>2, <1>3, <1>4, <1>5 DEF Next, Claim, Finish

(* A job that ended never changes again, and neither does its ledger. *)
THEOREM EndedJobsStayEnded == Spec => EndedJobsAreFinal
<1> DEFINE A == \A j \in Jobs : status[j] \in Terminal =>
                    /\ status'[j] = status[j]
                    /\ attempt_count'[j] = attempt_count[j]
                    /\ attempts'[j] = attempts[j]
<1>1. TypeOK /\ FencingInv /\ [Next]_vars => [A]_vars
  BY EndedStep
<1>2. [](TypeOK /\ FencingInv) /\ [][Next]_vars => [][A]_vars
  BY <1>1, PTL
<1> QED BY <1>2, Fencing, PTL DEF Spec, EndedJobsAreFinal

(* A running attempt loses its row by the verdict of its own worker, or after its *)
(* lease expired: neither a cancel nor another worker takes it away before.       *)
THEOREM OwnershipAlwaysEndsByVerdictOrExpiry == Spec => OwnershipEndsByVerdictOrExpiry
<1> DEFINE Rightly(j) ==
              \/ lock_expires[j] = Lapsed
              \/ \E w \in Workers : /\ job[w] = j /\ attempt[w] = attempt_count[j]
                                    /\ pc[w] \in {"returned", "raised"} /\ pc'[w] = "idle"
           A == \A j \in Jobs :
                  status[j] = "RUNNING" /\ <<lock_owner[j], attempt_count[j]>>' # <<lock_owner[j], attempt_count[j]>>
                  => Rightly(j)
<1>1. ASSUME TypeOK, FencingInv, Next PROVE A
  <2> SUFFICES ASSUME NEW j \in Jobs, status[j] = "RUNNING",
                      lock_owner'[j] # lock_owner[j] \/ attempt_count'[j] # attempt_count[j]
               PROVE  Rightly(j)
    OBVIOUS
  <2>1. ASSUME NEW w \in Workers, ClaimCommit(w) PROVE Rightly(j)
    <3>1. j = job[w] \/ j \in recovered[w]
      BY <1>1, <2>1 DEF ClaimCommit, TypeOK, RowsTyped
    <3>2. status[j] \in Queued \/ Expired(j)
      BY <1>1, <2>1, <3>1, ClaimedRows
    <3> QED BY <3>2 DEF Expired, Queued
  <2>2. ASSUME NEW w \in Workers, MarkSucceeded(w) \/ MarkFailed(w) PROVE Rightly(j)
    <3>1. j = job[w]
      BY <1>1, <2>2 DEF MarkSucceeded, MarkFailed, TypeOK, RowsTyped
    <3>2. pc[w] \in {"returned", "raised"} /\ Owns(w)
      BY <2>2 DEF MarkSucceeded, MarkFailed
    <3>3. attempt[w] = attempt_count[j]
      BY <1>1, <3>1, <3>2 DEF FencingInv, OwnerIsLast, Working
    <3>4. pc'[w] = "idle"
      BY <1>1, <2>2 DEF MarkSucceeded, MarkFailed, Release, TypeOK, WorkersTyped
    <3> QED BY <3>1, <3>2, <3>3, <3>4
  <2>3. ASSUME \/ \E k \in Jobs : Enqueue(k) \/ Cancel(k)
               \/ \E w \in Workers : \/ ClaimBegin(w) \/ Heartbeat(w) \/ Execute(w) \/ Discard(w)
                                      \/ Crash(w) \/ Restart(w) \/ Stall(w) \/ Resume(w)
               \/ Tick
        PROVE  UNCHANGED <<lock_owner, attempt_count>>
    BY <2>3 DEF Enqueue, Cancel, ClaimBegin, Heartbeat, Renew, LeaseLost, RenewRaises, Execute,
                ExecuteReturns, ExecuteRaises, Discard, Crash, Restart, Stall, Resume, Tick, rowVars
  <2> QED BY <1>1, <2>1, <2>2, <2>3 DEF Next, Claim, Finish
<1>2. TypeOK /\ FencingInv /\ [Next]_vars => [A]_vars
  BY <1>1
<1> HIDE DEF A
<1>3. Spec => [][A]_vars
  BY <1>2, Fencing, PTL DEF Spec
<1> QED BY <1>3 DEF A, OwnershipEndsByVerdictOrExpiry

-----------------------------------------------------------------------------
(* Leases.                                                                 *)

(* The worker owns the row of its job, its heartbeat is alive, and the time *)
(* left on the lease exceeds the wait for the next heartbeat by what a      *)
(* renewal leaves, less d ticks of missed heartbeats.                       *)
Holds(w, d) ==
    /\ Owns(w) /\ ~lost[w]
    /\ lock_expires[job[w]] >= beat[w] + (LockTicks - BeatTicks) - d

(* A worker at work was at work on the same job, or commits a claim. *)
LEMMA WorkBefore ==
    ASSUME TypeOK, [Next]_vars, NEW w \in Workers, Working(w)'
    PROVE  \/ Working(w) /\ job'[w] = job[w]
           \/ w \notin stalled /\ ClaimCommit(w)
<1> USE DEF TypeOK, WorkersTyped
<1>1. ASSUME NEW v \in Workers, ClaimCommit(v), v # w PROVE Working(w) /\ job'[w] = job[w]
  BY <1>1 DEF ClaimCommit, Working
<1>2. ASSUME NEW v \in Workers, ClaimBegin(v) PROVE Working(w) /\ job'[w] = job[w]
  <2>1. pc'[w] = pc[w] /\ v # w
    BY <1>2 DEF ClaimBegin, Working
  <2> QED BY <1>2, <2>1 DEF ClaimBegin, Working
<1>3. ASSUME NEW v \in Workers, Heartbeat(v) \/ Execute(v) \/ Stall(v) \/ Resume(v)
      PROVE  Working(w) /\ job'[w] = job[w]
  BY <1>3 DEF Heartbeat, Renew, LeaseLost, RenewRaises, Execute, ExecuteReturns, ExecuteRaises,
              Stall, Resume, Working
<1>4. ASSUME NEW v \in Workers, Finish(v) \/ Crash(v) \/ Restart(v)
      PROVE  Working(w) /\ job'[w] = job[w]
  BY <1>4 DEF Finish, MarkSucceeded, MarkFailed, Discard, Release, Crash, Restart, Working
<1>5. ASSUME \/ \E j \in Jobs : Enqueue(j) \/ Cancel(j)
             \/ Tick
             \/ UNCHANGED vars
      PROVE  Working(w) /\ job'[w] = job[w]
  BY <1>5 DEF Enqueue, Cancel, Tick, vars, workerVars, Working
<1> QED BY <1>1, <1>2, <1>3, <1>4, <1>5 DEF Next, Claim

(* A row whose lease has not run out is in no claim. *)
LEMMA LeasedNotClaimed ==
    ASSUME TypeOK, FencingInv, NEW w \in Workers, ClaimCommit(w), NEW j \in Jobs,
           status[j] = "RUNNING", lock_expires[j] >= 0
    PROVE  /\ j # job[w] /\ j \notin recovered[w]
           /\ status'[j] = status[j] /\ lock_owner'[j] = lock_owner[j]
           /\ lock_expires'[j] = lock_expires[j] /\ attempt_count'[j] = attempt_count[j]
<1>1. j # job[w] /\ j \notin recovered[w]
  BY ClaimedRows DEF Expired, Lapsed, Queued
<1> QED BY <1>1 DEF ClaimCommit, TypeOK, RowsTyped

(* What a step does to a worker that holds its lease: it goes on holding it, it *)
(* misses a heartbeat at the price of a fault, its row is taken from RUNNING by *)
(* its own verdict or a cancel, or it is suspended or dies, again a fault.      *)
LEMMA HoldsStep ==
    ASSUME TypeOK, FencingInv, [Next]_vars, NEW w \in Workers, Working(w), w \notin stalled,
           NEW d \in Nat, d <= LockTicks - BeatTicks, Holds(w, d),
           NEW j \in Jobs, j = job[w]
    PROVE  \/ /\ Working(w)' /\ job'[w] = j /\ w \notin stalled' /\ Holds(w, d)'
              /\ attempt_count'[j] = attempt_count[j]
           \/ /\ status'[j] \in Terminal \cup Queued /\ attempt_count'[j] = attempt_count[j]
              /\ status'[j] \in Queued => attempt_count[j] < MaxAttempts
              /\ Working(w)' => status'[j] = "CANCELLED" /\ w \notin stalled'
           \/ /\ faults' = faults + 1 /\ attempt_count'[j] = attempt_count[j]
              /\ Working(w)' => /\ w \notin stalled' => Holds(w, d + BeatTicks)'
                                /\ w \in stalled' => "stall" \in FaultKinds
<1> USE DEF TypeOK, WorkersTyped, RowsTyped
<1> DEFINE Kept == /\ Working(w)' /\ job'[w] = j /\ w \notin stalled' /\ Holds(w, d)'
                   /\ attempt_count'[j] = attempt_count[j]
           Closed == /\ status'[j] \in Terminal \cup Queued /\ attempt_count'[j] = attempt_count[j]
                     /\ status'[j] \in Queued => attempt_count[j] < MaxAttempts
                     /\ Working(w)' => status'[j] = "CANCELLED" /\ w \notin stalled'
           Paid == /\ faults' = faults + 1 /\ attempt_count'[j] = attempt_count[j]
                   /\ Working(w)' => /\ w \notin stalled' => Holds(w, d + BeatTicks)'
                                     /\ w \in stalled' => "stall" \in FaultKinds
<1>a. /\ status[j] = "RUNNING" /\ lock_owner[j] = w /\ lost[w] = FALSE
      /\ lock_expires[j] >= beat[w] + (LockTicks - BeatTicks) - d
  BY DEF Holds, Owns
<1>b. beat[w] \in 0..BeatTicks /\ LockTicks \in Nat /\ BeatTicks \in Nat /\ lock_expires[j] \in Int
  BY QueueAssumption DEF NoLease
<1>c. lock_expires[j] >= 0 /\ lock_expires[j] >= beat[w]
  BY <1>a, <1>b
<1>d. ASSUME /\ status'[j] = status[j] /\ lock_owner'[j] = lock_owner[j]
             /\ attempt_count'[j] = attempt_count[j] /\ lost'[w] = lost[w]
             /\ pc'[w] = pc[w] \/ pc'[w] \in {"returned", "raised"}
             /\ job'[w] = job[w] /\ w \notin stalled'
             /\ lock_expires'[j] >= beat'[w] + (LockTicks - BeatTicks) - d
      PROVE  Kept
  BY <1>a, <1>d DEF Holds, Owns, Working
<1>1. ASSUME NEW k \in Jobs, Enqueue(k) PROVE Kept
  <2>1. k # j
    BY <1>1, <1>a DEF Enqueue
  <2> QED BY <1>1, <1>a, <1>d, <2>1 DEF Enqueue, workerVars
<1>2. ASSUME NEW k \in Jobs, Cancel(k) PROVE Kept \/ Closed
  <2>1. CASE k = j
    BY <1>2, <2>1 DEF Cancel, workerVars, Terminal, Queued
  <2>2. CASE k # j
    BY <1>2, <1>a, <1>d, <2>2 DEF Cancel, workerVars
  <2> QED BY <2>1, <2>2
<1>3. ASSUME NEW v \in Workers, ClaimBegin(v) PROVE Kept
  <2>1. v # w
    BY <1>3 DEF ClaimBegin, Working
  <2> QED BY <1>3, <1>a, <1>d, <2>1 DEF ClaimBegin, rowVars
<1>4. ASSUME NEW v \in Workers, ClaimCommit(v) PROVE Kept
  <2>1. v # w
    BY <1>4 DEF ClaimCommit, Working
  <2>2. /\ status'[j] = status[j] /\ lock_owner'[j] = lock_owner[j]
        /\ lock_expires'[j] = lock_expires[j] /\ attempt_count'[j] = attempt_count[j]
    BY <1>4, <1>a, <1>c, LeasedNotClaimed
  <2>3. /\ lost'[w] = lost[w] /\ pc'[w] = pc[w] /\ job'[w] = job[w] /\ beat'[w] = beat[w]
        /\ stalled' = stalled
    BY <1>4, <2>1 DEF ClaimCommit
  <2> QED BY <1>a, <1>d, <2>2, <2>3
<1>5. ASSUME NEW v \in Workers, Renew(v) PROVE Kept
  <2>1. /\ lock_expires'[j] = lock_expires[j] \/ lock_expires'[j] = LockTicks
        /\ v = w => lock_expires'[j] = LockTicks
    BY <1>5 DEF Renew
  <2>2. v # w => beat'[w] = beat[w]
    BY <1>5 DEF Renew
  <2>3. v = w => beat'[w] = BeatTicks
    BY <1>5 DEF Renew
  <2>4. lock_expires'[j] >= beat'[w] + (LockTicks - BeatTicks) - d
    BY <1>a, <1>b, <2>1, <2>2, <2>3
  <2>5. UNCHANGED <<status, attempt_count, lock_owner, pc, job, lost, stalled>>
    BY <1>5 DEF Renew
  <2> QED BY <1>d, <2>4, <2>5
<1>6. ASSUME NEW v \in Workers, LeaseLost(v) PROVE Kept
  <2>1. v # w
    BY <1>6, <1>a DEF LeaseLost, Owns
  <2> QED BY <1>6, <1>a, <1>d, <2>1 DEF LeaseLost, rowVars
<1>7. ASSUME NEW v \in Workers, RenewRaises(v) PROVE Kept \/ Paid
  <2>1. CASE v = w
    <3>1. beat'[w] = BeatTicks /\ faults' = faults + 1 /\ beat[w] = 0
      BY <1>7, <2>1 DEF RenewRaises, Fault, Beating
    <3>2. UNCHANGED <<rowVars, pc, job, lost, stalled>>
      BY <1>7 DEF RenewRaises
    <3>3. lock_expires[j] >= BeatTicks + (LockTicks - BeatTicks) - (d + BeatTicks)
      BY <1>a, <1>b, <3>1
    <3>4. Holds(w, d + BeatTicks)'
      BY <1>a, <3>1, <3>2, <3>3 DEF Holds, Owns, rowVars
    <3> QED BY <3>1, <3>2, <3>4 DEF rowVars
  <2>2. CASE v # w
    BY <1>7, <1>a, <1>d, <2>2 DEF RenewRaises, rowVars
  <2> QED BY <2>1, <2>2
<1>8. ASSUME NEW v \in Workers, Execute(v) PROVE Kept
  <2>1. /\ UNCHANGED <<rowVars, job, beat, lost, stalled>>
        /\ pc'[w] = pc[w] \/ pc'[w] \in {"returned", "raised"}
    BY <1>8 DEF Execute, ExecuteReturns, ExecuteRaises
  <2> QED BY <1>a, <1>d, <2>1 DEF rowVars
<1>9. ASSUME NEW v \in Workers, MarkSucceeded(v) \/ MarkFailed(v) PROVE Kept \/ Closed
  <2>1. CASE v = w
    <3>1. status'[j] \in Terminal \cup Queued /\ (status'[j] \in Queued => attempt_count[j] < MaxAttempts)
      BY <1>9, <2>1 DEF MarkSucceeded, MarkFailed, Retry, Terminal, Queued
    <3>2. attempt_count' = attempt_count /\ ~Working(w)'
      BY <1>9, <2>1 DEF MarkSucceeded, MarkFailed, Release, Working
    <3> QED BY <3>1, <3>2
  <2>2. CASE v # w
    <3>1. job[v] # j
      BY <1>9, <1>a, <2>2 DEF MarkSucceeded, MarkFailed, Owns
    <3>2. /\ status'[j] = status[j] /\ lock_owner'[j] = lock_owner[j]
          /\ lock_expires'[j] = lock_expires[j] /\ attempt_count'[j] = attempt_count[j]
      BY <1>9, <3>1 DEF MarkSucceeded, MarkFailed
    <3>3. /\ pc'[w] = pc[w] /\ job'[w] = job[w] /\ lost'[w] = lost[w] /\ beat'[w] = beat[w]
          /\ stalled' = stalled
      BY <1>9, <2>2 DEF MarkSucceeded, MarkFailed, Release
    <3> QED BY <1>a, <1>d, <3>2, <3>3
  <2> QED BY <2>1, <2>2
<1>10. ASSUME NEW v \in Workers, Discard(v) PROVE Kept
  <2>1. v # w
    BY <1>10, <1>a DEF Discard, Owns
  <2> QED BY <1>10, <1>a, <1>d, <2>1 DEF Discard, Release, rowVars
<1>11. ASSUME NEW v \in Workers, Crash(v) PROVE Kept \/ Paid
  <2>1. CASE v = w
    BY <1>11, <2>1 DEF Crash, Fault, Working, rowVars
  <2>2. CASE v # w
    BY <1>11, <1>a, <1>d, <2>2 DEF Crash, rowVars
  <2> QED BY <2>1, <2>2
<1>12. ASSUME NEW v \in Workers, Restart(v) PROVE Kept
  <2>1. v # w
    BY <1>12 DEF Restart, Working
  <2> QED BY <1>12, <1>a, <1>d, <2>1 DEF Restart, rowVars
<1>13. ASSUME NEW v \in Workers, Stall(v) PROVE Kept \/ Paid
  <2>1. CASE v = w
    BY <1>13, <2>1 DEF Stall, Fault, rowVars
  <2>2. CASE v # w
    BY <1>13, <1>a, <1>d, <2>2 DEF Stall, rowVars
  <2> QED BY <2>1, <2>2
<1>14. ASSUME NEW v \in Workers, Resume(v) PROVE Kept
  BY <1>14, <1>a, <1>d DEF Resume, rowVars
<1>15. ASSUME Tick PROVE Kept
  <2>1. pc[w] = "executing" /\ beat[w] # 0
    BY <1>15, <1>a DEF Tick, Prompt, Beating, Working
  <2>2. beat'[w] = beat[w] - 1 /\ lock_expires'[j] = lock_expires[j] - 1
    BY <1>15, <1>a, <1>c, <2>1 DEF Tick, Timed
  <2> QED BY <1>15, <1>a, <1>b, <1>d, <2>2 DEF Tick
<1>16. ASSUME UNCHANGED vars PROVE Kept
  BY <1>16, <1>a, <1>d DEF vars, rowVars, workerVars
<1> HIDE DEF Kept, Closed, Paid
<1>17. Kept \/ Closed \/ Paid
  <2>1. ASSUME NEW k \in Jobs, Enqueue(k) \/ Cancel(k) PROVE Kept \/ Closed \/ Paid
    BY <1>1, <1>2, <2>1
  <2>2. ASSUME NEW v \in Workers, Claim(v) \/ Heartbeat(v) \/ Execute(v) \/ Finish(v)
        PROVE  Kept \/ Closed \/ Paid
    BY <1>3, <1>4, <1>5, <1>6, <1>7, <1>8, <1>9, <1>10, <2>2 DEF Claim, Heartbeat, Finish
  <2>3. ASSUME NEW v \in Workers, Crash(v) \/ Restart(v) \/ Stall(v) \/ Resume(v)
        PROVE  Kept \/ Closed \/ Paid
    BY <1>11, <1>12, <1>13, <1>14, <2>3
  <2> QED BY <1>15, <1>16, <2>1, <2>2, <2>3 DEF Next
<1> QED BY <1>17 DEF Kept, Closed, Paid

(* A claim that commits gives its worker the row under a fresh lease. *)
LEMMA FreshLease ==
    ASSUME TypeOK, NEW w \in Workers, ClaimCommit(w), NEW d \in Nat
    PROVE  /\ Working(w)' /\ job' = job /\ stalled' = stalled /\ faults' = faults
           /\ Holds(w, d)'
           /\ \A v \in Workers : v # w => pc'[v] = pc[v]
<1> USE DEF TypeOK, WorkersTyped, RowsTyped
<1>1. job[w] \in Jobs /\ job' = job
  BY HasJob DEF ClaimCommit
<1>2. /\ pc'[w] = "executing" /\ lost'[w] = FALSE /\ beat'[w] = BeatTicks
      /\ \A v \in Workers : v # w => pc'[v] = pc[v]
  BY DEF ClaimCommit
<1>3. status'[job[w]] = "RUNNING" /\ lock_owner'[job[w]] = w /\ lock_expires'[job[w]] = LockTicks
  BY <1>1 DEF ClaimCommit
<1>4. LockTicks >= BeatTicks + (LockTicks - BeatTicks) - d
  BY QueueAssumption
<1>5. Holds(w, d)'
  BY <1>1, <1>2, <1>3, <1>4 DEF Holds, Owns
<1> QED BY <1>1, <1>2, <1>5 DEF ClaimCommit, Working

(* Faults are only added, one in a step, and no worker is suspended but by one. *)
LEMMA FaultStep ==
    ASSUME TypeOK, [Next]_vars
    PROVE  /\ faults' \in {faults, faults + 1}
           /\ "stall" \notin FaultKinds => stalled' \subseteq stalled
<1>1. ASSUME NEW w \in Workers, Claim(w) \/ Heartbeat(w) \/ Execute(w) \/ Finish(w)
      PROVE  faults' \in {faults, faults + 1} /\ stalled' = stalled
  BY <1>1 DEF Claim, ClaimBegin, ClaimCommit, Heartbeat, Renew, LeaseLost, RenewRaises, Fault,
              Execute, ExecuteReturns, ExecuteRaises, Finish, MarkSucceeded, MarkFailed, Discard,
              Release
<1>2. ASSUME NEW w \in Workers, Crash(w) \/ Restart(w) \/ Stall(w) \/ Resume(w)
      PROVE  /\ faults' \in {faults, faults + 1}
             /\ "stall" \notin FaultKinds => stalled' \subseteq stalled
  BY <1>2 DEF Crash, Restart, Stall, Resume, Fault
<1>3. ASSUME \/ \E j \in Jobs : Enqueue(j) \/ Cancel(j)
             \/ Tick
             \/ UNCHANGED vars
      PROVE  UNCHANGED <<faults, stalled>>
  BY <1>3 DEF Enqueue, Cancel, Tick, vars, workerVars
<1> QED BY <1>1, <1>2, <1>3 DEF Next

(* The lease is long enough for every heartbeat that faults can cost, as the    *)
(* code's is for two (the heartbeat is a third of the lease), and no process is *)
(* suspended together with its heartbeat thread.                                *)
LeaseOutlastsFaults ==
    "stall" \notin FaultKinds /\ LockTicks >= (MaxFaults + 1) * BeatTicks

(* Each fault so far has cost a worker one heartbeat at most; a worker that no  *)
(* longer owns its row lost it to a cancel; workers are on different jobs.      *)
LeasesHold ==
    \A w \in Workers : Working(w) => \/ status[job[w]] = "CANCELLED"
                                     \/ Holds(w, faults * BeatTicks)

JobsApart ==
    \A v, w \in Workers : v # w /\ Working(v) /\ Working(w) => job[v] # job[w]

LeaseInv == stalled = {} /\ LeasesHold /\ JobsApart

(* What the faults so far may have cost is covered by the lease. *)
LEMMA CostCovered ==
    ASSUME LeaseOutlastsFaults, NEW f \in 0..MaxFaults
    PROVE  /\ f * BeatTicks \in Nat /\ f * BeatTicks <= LockTicks - BeatTicks
           /\ (f + 1) * BeatTicks = f * BeatTicks + BeatTicks
<1>1. f \in Nat /\ MaxFaults \in Nat /\ BeatTicks \in Nat /\ LockTicks \in Nat /\ f <= MaxFaults
  BY QueueAssumption
<1>2. f * BeatTicks \in Nat /\ (f + 1) * BeatTicks = f * BeatTicks + BeatTicks
  BY <1>1
<1>3. (MaxFaults + 1) * BeatTicks = MaxFaults * BeatTicks + BeatTicks
  BY <1>1
<1>4. f * BeatTicks <= MaxFaults * BeatTicks
  BY <1>1
<1>5. MaxFaults * BeatTicks \in Nat
  BY <1>1
<1>6. LockTicks >= MaxFaults * BeatTicks + BeatTicks
  BY <1>3 DEF LeaseOutlastsFaults
<1> QED BY <1>1, <1>2, <1>4, <1>5, <1>6

(* A worker at work on a row it holds, or that was cancelled, keeps others off. *)
LEMMA WorkedNotClaimed ==
    ASSUME LeaseOutlastsFaults, TypeOK, FencingInv, LeaseInv, NEW v \in Workers, Working(v),
           NEW w \in Workers, ClaimCommit(w)
    PROVE  job[v] # job[w]
<1>1. job[v] \in Jobs
  BY HasJob DEF Working
<1>2. CASE status[job[v]] = "CANCELLED"
  BY <1>1, <1>2, ClaimedRows DEF Queued, Expired
<1>3. CASE Holds(v, faults * BeatTicks)
  <2>1. faults * BeatTicks <= LockTicks - BeatTicks /\ faults * BeatTicks \in Nat
    BY CostCovered DEF TypeOK
  <2>2. beat[v] \in Nat /\ lock_expires[job[v]] \in Int /\ LockTicks \in Nat /\ BeatTicks \in Nat
    BY <1>1, QueueAssumption DEF TypeOK, WorkersTyped, RowsTyped, NoLease
  <2>3. status[job[v]] = "RUNNING" /\ lock_expires[job[v]] >= 0
    BY <1>3, <2>1, <2>2 DEF Holds, Owns
  <2> QED BY <1>1, <2>3, LeasedNotClaimed
<1> QED BY <1>2, <1>3 DEF LeaseInv, LeasesHold

(* Every action keeps the lease invariant. *)
LEMMA LeaseStep ==
    ASSUME LeaseOutlastsFaults, TypeOK, FencingInv, LeaseInv, [Next]_vars
    PROVE  LeaseInv'
<1>1. stalled' = {}
  BY FaultStep DEF LeaseInv, LeaseOutlastsFaults
<1>2. faults \in 0..MaxFaults /\ faults \in Nat /\ BeatTicks \in Nat /\ LockTicks \in Nat
  BY QueueAssumption DEF TypeOK
<1>3. TypeOK'
  BY TypeStep
<1>4. ASSUME NEW w \in Workers, Working(w)'
      PROVE  status'[job'[w]] = "CANCELLED" \/ Holds(w, faults * BeatTicks)'
  <2>1. CASE ClaimCommit(w)
    <3>1. PICK d \in Nat : d = faults * BeatTicks
      BY <1>2, CostCovered
    <3>2. Holds(w, d)' /\ faults' = faults
      BY <2>1, FreshLease
    <3> QED BY <3>1, <3>2 DEF Holds
  <2>2. CASE Working(w) /\ job'[w] = job[w]
    <3>1. PICK j \in Jobs : j = job[w]
      BY <2>2, HasJob DEF Working
    <3>2. CASE status[j] = "CANCELLED"
      BY <2>2, <3>1, <3>2, EndedStep DEF Terminal
    <3>3. CASE Holds(w, faults * BeatTicks)
      <4>1. PICK d \in Nat : d = faults * BeatTicks
        BY <1>2, CostCovered
      <4>2. d <= LockTicks - BeatTicks /\ (faults + 1) * BeatTicks = d + BeatTicks
        BY <1>2, <4>1, CostCovered
      <4>3. Holds(w, d) /\ w \notin stalled
        BY <3>3, <4>1 DEF LeaseInv, Holds
      <4>4. \/ Holds(w, d)'
            \/ status'[j] = "CANCELLED"
            \/ faults' = faults + 1 /\ Holds(w, d + BeatTicks)'
        BY <1>1, <1>4, <2>2, <3>1, <4>2, <4>3, HoldsStep
      <4>5. /\ lock_expires'[job'[w]] \in Int /\ beat'[w] \in Int
        BY <1>3, <2>2, <3>1, QueueAssumption DEF TypeOK, RowsTyped, WorkersTyped, NoLease
      <4>6. CASE Holds(w, d)'
        <5>1. faults' * BeatTicks \in Nat /\ faults' * BeatTicks >= d
          BY <1>2, <4>1, <4>2, FaultStep
        <5> QED BY <1>2, <4>5, <4>6, <5>1 DEF Holds
      <4>7. CASE faults' = faults + 1 /\ Holds(w, d + BeatTicks)'
        BY <4>2, <4>7 DEF Holds
      <4> QED BY <2>2, <3>1, <4>4, <4>6, <4>7
    <3> QED BY <2>2, <3>1, <3>2, <3>3 DEF LeaseInv, LeasesHold
  <2> QED BY <1>4, <2>1, <2>2, WorkBefore
<1>5. ASSUME NEW v \in Workers, NEW w \in Workers, v # w, Working(v)', Working(w)'
      PROVE  job'[v] # job'[w]
  <2>1. ASSUME NEW x \in Workers, NEW y \in Workers, x # y, Working(x)', Working(y)', ClaimCommit(x)
        PROVE  job'[x] # job'[y]
    <3>1. Working(y) /\ job' = job
      BY <2>1, FreshLease DEF Working
    <3> QED BY <2>1, <3>1, WorkedNotClaimed
  <2>2. CASE Working(v) /\ job'[v] = job[v] /\ Working(w) /\ job'[w] = job[w]
    BY <1>5, <2>2 DEF LeaseInv, JobsApart
  <2> QED BY <1>5, <2>1, <2>2, WorkBefore
<1> QED BY <1>1, <1>4, <1>5 DEF LeaseInv, LeasesHold, JobsApart

(* At most one live worker is inside the handler of a job, when the lease outlasts *)
(* the heartbeats that faults may cost (maintain_job_lease) and no process is      *)
(* suspended: nothing but the heartbeat keeps a second worker out.                 *)
THEOREM OneExecutionAlways == ASSUME LeaseOutlastsFaults PROVE Spec => []OneExecution
<1>1. Init => LeaseInv
  BY DEF Init, LeaseInv, LeasesHold, JobsApart, Working
<1>2. TypeOK /\ FencingInv /\ LeaseInv /\ [Next]_vars => LeaseInv'
  BY LeaseStep
<1>3. LeaseInv => OneExecution
  BY DEF LeaseInv, JobsApart, OneExecution, Working
<1> QED BY <1>1, <1>2, <1>3, Fencing, PTL DEF Spec

(* The lease of an attempt that owns its row does not run out while it works. *)
LeasesNeverLapse == \A w \in Workers : Working(w) /\ Owns(w) => ~Expired(job[w])

(* A worker at work owns its row, or a cancel took it. *)
RowsKept == \A w \in Workers : Working(w) => status[job[w]] = "CANCELLED" \/ Owns(w)

(* No claim takes a row somebody works on. *)
LEMMA UnlapsedNotClaimed ==
    ASSUME TypeOK, FencingInv, LeasesNeverLapse, RowsKept, NEW w \in Workers, ClaimCommit(w),
           NEW v \in Workers, Working(v)
    PROVE  job[v] \in Jobs /\ job[v] # job[w] /\ job[v] \notin recovered[w]
<1>1. job[v] \in Jobs
  BY HasJob DEF Working
<1>2. status[job[v]] \notin Queued /\ ~Expired(job[v])
  BY DEF RowsKept, LeasesNeverLapse, Owns, Queued, Expired
<1> QED BY <1>1, <1>2, ClaimedRows

(* Only its own verdict, a cancel or a claim takes a row from its owner. *)
LEMMA RowsKeptStep ==
    ASSUME TypeOK, FencingInv, LeasesNeverLapse, RowsKept, JobsApart, [Next]_vars,
           NEW w \in Workers, Working(w), Working(w)', job'[w] = job[w]
    PROVE  status'[job[w]] = "CANCELLED" \/ Owns(w)'
<1> USE DEF TypeOK, WorkersTyped, RowsTyped
<1> DEFINE j == job[w]
           Same == status'[j] = status[j] /\ lock_owner'[j] = lock_owner[j]
<1>1. j \in Jobs
  BY HasJob DEF Working
<1>2. CASE status[j] = "CANCELLED"
  BY <1>1, <1>2, EndedStep DEF Terminal
<1>3. CASE Owns(w)
  <2>1. ASSUME NEW k \in Jobs, Enqueue(k) PROVE Same
    BY <1>1, <1>3, <2>1 DEF Enqueue, Owns
  <2>2. ASSUME NEW k \in Jobs, Cancel(k) PROVE Same \/ status'[j] = "CANCELLED"
    BY <1>1, <2>2 DEF Cancel
  <2>3. ASSUME NEW v \in Workers, ClaimCommit(v) PROVE Same
    BY <1>1, <2>3, UnlapsedNotClaimed DEF ClaimCommit
  <2>4. ASSUME NEW v \in Workers, MarkSucceeded(v) \/ MarkFailed(v) PROVE Same
    <3>1. v # w
      BY <2>4 DEF MarkSucceeded, MarkFailed, Release, Working
    <3>2. job[v] # j
      BY <2>4, <3>1 DEF JobsApart, MarkSucceeded, MarkFailed, Working
    <3> QED BY <1>1, <2>4, <3>2 DEF MarkSucceeded, MarkFailed
  <2>5. ASSUME \/ \E v \in Workers : \/ ClaimBegin(v) \/ Heartbeat(v) \/ Execute(v) \/ Discard(v)
                                      \/ Crash(v) \/ Restart(v) \/ Stall(v) \/ Resume(v)
               \/ Tick
               \/ UNCHANGED vars
        PROVE  Same
    BY <2>5 DEF ClaimBegin, Heartbeat, Renew, LeaseLost, RenewRaises, Execute, ExecuteReturns,
                ExecuteRaises, Discard, Crash, Restart, Stall, Resume, Tick, rowVars, vars
  <2>6. Same \/ status'[j] = "CANCELLED"
    <3> HIDE DEF Same
    <3> QED BY <2>1, <2>2, <2>3, <2>4, <2>5 DEF Next, Claim, Finish
  <2> QED BY <1>3, <2>6 DEF Owns
<1> QED BY <1>2, <1>3 DEF RowsKept

(* As long as no lease runs out under a working owner, every worker keeps its row. *)
LEMMA UnlapsedStep ==
    ASSUME TypeOK, FencingInv, LeasesNeverLapse, RowsKept, JobsApart, [Next]_vars
    PROVE  RowsKept' /\ JobsApart'
<1>1. ASSUME NEW w \in Workers, Working(w)' PROVE status'[job'[w]] = "CANCELLED" \/ Owns(w)'
  <2>1. CASE ClaimCommit(w)
    <3>1. Holds(w, 0)'
      BY <2>1, FreshLease
    <3> QED BY <3>1 DEF Holds
  <2>2. CASE Working(w) /\ job'[w] = job[w]
    BY <1>1, <2>2, RowsKeptStep
  <2> QED BY <1>1, <2>1, <2>2, WorkBefore
<1>2. ASSUME NEW v \in Workers, NEW w \in Workers, v # w, Working(v)', Working(w)'
      PROVE  job'[v] # job'[w]
  <2>1. ASSUME NEW x \in Workers, NEW y \in Workers, x # y, Working(x)', Working(y)', ClaimCommit(x)
        PROVE  job'[x] # job'[y]
    <3>1. Working(y) /\ job' = job
      BY <2>1, FreshLease DEF Working
    <3> QED BY <2>1, <3>1, UnlapsedNotClaimed
  <2>2. CASE Working(v) /\ job'[v] = job[v] /\ Working(w) /\ job'[w] = job[w]
    BY <1>2, <2>2 DEF JobsApart
  <2> QED BY <1>2, <2>1, <2>2, WorkBefore
<1> QED BY <1>1, <1>2 DEF RowsKept, JobsApart

(* Whatever the lease, the heartbeat, the suspensions and the number of faults: a job   *)
(* is executed twice at a time only after the lease of an attempt that still worked ran *)
(* out.  Claims, cancels, crashes and verdicts never lead there.                        *)
THEOREM OneExecutionWhileLeasesHold == Spec /\ []LeasesNeverLapse => []OneExecution
<1>1. Init => RowsKept /\ JobsApart
  BY DEF Init, RowsKept, JobsApart, Working
<1>2. TypeOK /\ FencingInv /\ LeasesNeverLapse /\ (RowsKept /\ JobsApart) /\ [Next]_vars
      => (RowsKept /\ JobsApart)'
  BY UnlapsedStep
<1>3. JobsApart => OneExecution
  BY DEF JobsApart, OneExecution, Working
<1> QED BY <1>1, <1>2, <1>3, Fencing, PTL DEF Spec

-----------------------------------------------------------------------------
(* Attempts past the limit.                                                *)

(* Some worker that is not suspended works on the row and has missed no     *)
(* heartbeat: its attempt ends by a verdict unless a fault hits it.         *)
Tended(j) == \E w \in Workers \ stalled : Working(w) /\ job[w] = j /\ Holds(w, 0)

(* Every attempt past max_attempts was paid for by a fault: a row that waits or *)
(* whose worker was hit still has an attempt in its budget, a row that is       *)
(* tended has used it.                                                          *)
JobBudget(j) ==
    /\ attempt_count[j] <= MaxAttempts + faults
    /\ status[j] = "ABSENT" => attempt_count[j] = 0
    /\ status[j] \in Queued => attempt_count[j] < MaxAttempts + faults
    /\ status[j] = "RUNNING" => attempt_count[j] < MaxAttempts + faults \/ Tended(j)

BudgetInv == \A j \in Jobs : JobBudget(j)

(* Attempts are counted by claims alone, and no step takes a row out of the table. *)
LEMMA CountStep ==
    ASSUME TypeOK, FencingInv, [Next]_vars, NEW j \in Jobs
    PROVE  /\ status'[j] = "ABSENT" => status[j] = "ABSENT" /\ attempt_count'[j] = attempt_count[j]
           /\ \/ attempt_count'[j] = attempt_count[j]
              \/ \E w \in Workers \ stalled : ClaimCommit(w) /\ job[w] = j
<1> USE DEF TypeOK, RowsTyped
<1>1. ASSUME NEW w \in Workers \ stalled, ClaimCommit(w)
      PROVE  /\ status'[j] = "ABSENT" => status[j] = "ABSENT" /\ j # job[w]
             /\ job[w] = j \/ attempt_count'[j] = attempt_count[j]
  BY <1>1 DEF ClaimCommit
<1>2. ASSUME NEW w \in Workers, MarkSucceeded(w) \/ MarkFailed(w)
      PROVE  /\ status'[j] = "ABSENT" => status[j] = "ABSENT"
             /\ attempt_count' = attempt_count
  BY <1>2 DEF MarkSucceeded, MarkFailed
<1>3. ASSUME NEW k \in Jobs, Enqueue(k) \/ Cancel(k)
      PROVE  /\ status'[j] = "ABSENT" => status[j] = "ABSENT"
             /\ attempt_count' = attempt_count
  BY <1>3 DEF Enqueue, Cancel
<1>4. ASSUME NEW w \in Workers,
             \/ ClaimBegin(w) \/ Heartbeat(w) \/ Execute(w) \/ Discard(w) \/ Crash(w)
             \/ Restart(w) \/ Stall(w) \/ Resume(w)
      PROVE  UNCHANGED <<status, attempt_count>>
  BY <1>4 DEF ClaimBegin, Heartbeat, Renew, LeaseLost, RenewRaises, Execute, ExecuteReturns,
              ExecuteRaises, Discard, Crash, Restart, Stall, Resume, rowVars
<1>5. Tick \/ UNCHANGED vars => UNCHANGED <<status, attempt_count>>
  BY DEF Tick, vars, rowVars
<1>6. ASSUME NEW w \in Workers \ stalled, Claim(w) \/ Heartbeat(w) \/ Execute(w) \/ Finish(w)
      PROVE  /\ status'[j] = "ABSENT" => status[j] = "ABSENT" /\ attempt_count'[j] = attempt_count[j]
             /\ \/ attempt_count'[j] = attempt_count[j]
                \/ \E v \in Workers \ stalled : ClaimCommit(v) /\ job[v] = j
  BY <1>1, <1>2, <1>4, <1>6 DEF Claim, Finish
<1> QED BY <1>3, <1>4, <1>5, <1>6 DEF Next

(* Every action keeps the budget. *)
LEMMA BudgetStep ==
    ASSUME TypeOK, FencingInv, BudgetInv, [Next]_vars, NEW j \in Jobs
    PROVE  JobBudget(j)'
<1> DEFINE n == attempt_count[j]
<1>1. /\ n \in Nat /\ faults \in Nat /\ MaxAttempts \in Nat \ {0} /\ JobBudget(j)
      /\ LockTicks \in Nat /\ BeatTicks \in Nat /\ BeatTicks <= LockTicks
  BY QueueAssumption DEF TypeOK, RowsTyped, BudgetInv
<1>2. faults' \in {faults, faults + 1}
  BY FaultStep
<1>3. /\ status'[j] = "ABSENT" => status[j] = "ABSENT" /\ n' = n
      /\ n' = n \/ \E w \in Workers \ stalled : ClaimCommit(w) /\ job[w] = j
  BY CountStep
<1>4. CASE \E w \in Workers \ stalled : ClaimCommit(w) /\ job[w] = j
  <2>1. PICK w \in Workers \ stalled : ClaimCommit(w) /\ job[w] = j
    BY <1>4
  <2>2. n' = n + 1 /\ status'[j] = "RUNNING"
    BY <2>1 DEF ClaimCommit, TypeOK, RowsTyped
  <2>3. Tended(j)'
    BY <2>1, FreshLease DEF Tended
  <2>4. n < MaxAttempts + faults
    <3>1. CASE status[j] \in Queued
      BY <1>1, <3>1 DEF JobBudget
    <3>2. CASE Expired(j)
      <4>1. ~Tended(j)
        <5> SUFFICES ASSUME NEW v \in Workers, job[v] = j, Holds(v, 0) PROVE FALSE
          BY DEF Tended
        <5>1. lock_expires[j] >= beat[v] + (LockTicks - BeatTicks) - 0 /\ beat[v] \in Nat
          BY QueueAssumption DEF Holds, TypeOK, WorkersTyped
        <5>2. lock_expires[j] = -1
          BY <3>2 DEF Expired, Lapsed
        <5> QED BY <1>1, <5>1, <5>2
      <4> QED BY <1>1, <3>2, <4>1 DEF JobBudget, Expired
    <3> QED BY <2>1, <3>1, <3>2, ClaimedRows
  <2> QED BY <1>1, <1>2, <2>2, <2>3, <2>4 DEF JobBudget, Queued
<1>5. CASE n' = n /\ ~(status[j] = "RUNNING" /\ Tended(j))
  <2>1. CASE status[j] \in Terminal
    <3>1. status'[j] = status[j]
      BY <2>1, EndedStep
    <3> QED BY <1>1, <1>2, <1>5, <2>1, <3>1 DEF JobBudget, Terminal, Queued
  <2>2. CASE status[j] \notin Terminal
    <3>1. n < MaxAttempts + faults
      BY <1>1, <1>5, <2>2 DEF JobBudget, TypeOK, RowsTyped, Status
    <3>2. status'[j] = "ABSENT" => n' = 0
      BY <1>1, <1>3 DEF JobBudget
    <3> QED BY <1>1, <1>2, <1>5, <3>1, <3>2 DEF JobBudget
  <2> QED BY <2>1, <2>2
<1>6. CASE status[j] = "RUNNING" /\ Tended(j)
  <2>1. PICK w \in Workers \ stalled : Working(w) /\ job[w] = j /\ Holds(w, 0)
    BY <1>6 DEF Tended
  <2>2. \/ Working(w)' /\ job'[w] = j /\ w \notin stalled' /\ Holds(w, 0)' /\ n' = n
        \/ /\ status'[j] \in Terminal \cup Queued /\ n' = n
           /\ status'[j] \in Queued => n < MaxAttempts
        \/ faults' = faults + 1 /\ n' = n
    <3>1. 0 \in Nat /\ 0 <= LockTicks - BeatTicks
      BY <1>1
    <3> QED BY <2>1, <3>1, HoldsStep
  <2>3. status'[j] # "ABSENT"
    BY <1>3, <1>6
  <2>4. CASE Working(w)' /\ job'[w] = j /\ w \notin stalled' /\ Holds(w, 0)' /\ n' = n
    <3>1. Tended(j)' /\ status'[j] = "RUNNING"
      BY <2>4 DEF Tended, Holds, Owns
    <3> QED BY <1>1, <1>2, <2>4, <3>1 DEF JobBudget, Queued
  <2>5. CASE /\ status'[j] \in Terminal \cup Queued /\ n' = n
             /\ status'[j] \in Queued => n < MaxAttempts
    BY <1>1, <1>2, <2>3, <2>5 DEF JobBudget, Terminal, Queued
  <2>6. CASE faults' = faults + 1 /\ n' = n
    BY <1>1, <2>3, <2>6 DEF JobBudget
  <2> QED BY <2>2, <2>4, <2>5, <2>6
<1> QED BY <1>3, <1>4, <1>5, <1>6

(* No job is attempted more than max_attempts times plus once for each fault: the *)
(* limit that mark_failed enforces is passed only by attempts that a crash, a      *)
(* failed heartbeat or a suspension cut off (claim_next_job compares no limit).    *)
THEOREM AttemptsBounded == Spec => [](\A j \in Jobs : attempt_count[j] <= MaxAttempts + faults)
<1>1. Init => BudgetInv
  BY QueueAssumption DEF Init, BudgetInv, JobBudget, Queued
<1>2. TypeOK /\ FencingInv /\ BudgetInv /\ [Next]_vars => BudgetInv'
  BY BudgetStep DEF BudgetInv
<1>3. BudgetInv => \A j \in Jobs : attempt_count[j] <= MaxAttempts + faults
  BY DEF BudgetInv, JobBudget
<1> QED BY <1>1, <1>2, <1>3, Fencing, PTL DEF Spec

(* Until the first fault the dead letter is where docs/architecture.md:175 puts it. *)
COROLLARY OnlyFaultsPassTheLimit == Spec => [](faults = 0 => DeadLetterAfterLimit)
<1>1. TypeOK /\ (\A j \in Jobs : attempt_count[j] <= MaxAttempts + faults)
      => (faults = 0 => DeadLetterAfterLimit)
  BY QueueAssumption DEF TypeOK, RowsTyped, DeadLetterAfterLimit
<1> QED BY <1>1, TypeCorrect, AttemptsBounded, PTL

-----------------------------------------------------------------------------
(* JobQueue implements JobContract.                                        *)

(* A step that changes no worker's job, attempt or being at work keeps the  *)
(* live attempts.                                                          *)
LEMMA LiveSame ==
    ASSUME \A w \in Workers : /\ Working(w)' <=> Working(w)
                              /\ Working(w) => job'[w] = job[w] /\ attempt'[w] = attempt[w]
    PROVE  \A j \in Jobs : LiveAttempts(j)' = LiveAttempts(j)
BY DEF LiveAttempts

(* An attempt that starts is added to the live ones of the contract. *)
LEMMA LiveGained ==
    ASSUME TypeOK, NEW w \in Workers, ClaimCommit(w), NEW j \in Jobs, j = job[w],
           NEW n, n = attempt_count[j] + 1
    PROVE  /\ LiveAttempts(j)' = LiveAttempts(j) \cup {n}
           /\ \A k \in Jobs : k # j => LiveAttempts(k)' = LiveAttempts(k)
<1>1. ~Working(w) /\ Working(w)' /\ attempt'[w] = n /\ job' = job
  BY DEF ClaimCommit, Working, TypeOK, WorkersTyped
<1>2. \A v \in Workers : v # w => (Working(v)' <=> Working(v)) /\ attempt'[v] = attempt[v]
  BY DEF ClaimCommit, Working, TypeOK, WorkersTyped
<1> QED BY <1>1, <1>2 DEF LiveAttempts

(* An attempt that ends is taken out of the live ones of the contract. *)
LEMMA LiveLost ==
    ASSUME TypeOK, FencingInv, NEW w \in Workers, Working(w), ~Working(w)',
           NEW a, a = attempt[w], NEW j \in Jobs, j = job[w],
           \A v \in Workers : v # w => pc'[v] = pc[v] /\ job'[v] = job[v] /\ attempt'[v] = attempt[v]
    PROVE  /\ a \in LiveAttempts(j)
           /\ LiveAttempts(j)' = LiveAttempts(j) \ {a}
           /\ \A k \in Jobs : k # j => LiveAttempts(k)' = LiveAttempts(k)
<1>1. \A v \in Workers : v # w => (Working(v)' <=> Working(v))
  BY DEF Working
<1>2. \A v \in Workers : v # w /\ Working(v) /\ job[v] = job[w] => attempt[v] # attempt[w]
  BY DEF FencingInv, AttemptsDiffer
<1> QED BY <1>1, <1>2 DEF LiveAttempts

(* The phase function is total on the statuses and tells them apart. *)
LEMMA Phases ==
    /\ Phase("ABSENT") = "absent" /\ Phase("RUNNING") = "running"
    /\ Phase("SUCCEEDED") = "succeeded" /\ Phase("FAILED") = "failed"
    /\ Phase("CANCELLED") = "cancelled"
    /\ \A s \in Queued : Phase(s) = "queued"
BY DEF Phase, Queued

(* Initial states map to the initial state of the contract. *)
LEMMA ContractStart == Init => Contract!ContractInit
<1> SUFFICES ASSUME Init PROVE Contract!ContractInit
  OBVIOUS
<1>1. \A j \in Jobs : LiveAttempts(j) = {}
  BY DEF Init, LiveAttempts, Working
<1>2. \A j \in Jobs : Phase(status[j]) = "absent"
  <2>1. \A j \in Jobs : status[j] = "ABSENT"
    BY DEF Init
  <2> QED BY <2>1, Phases
<1> QED BY <1>1, <1>2 DEF Contract!ContractInit, Init

(* Every step of the queue is a step of the contract or leaves it unchanged. *)
LEMMA ContractStep ==
    TypeOK /\ FencingInv /\ [Next]_vars => [Contract!ContractNext]_(Contract!cvars)
<1> SUFFICES ASSUME TypeOK, FencingInv, [Next]_vars
             PROVE  Contract!ContractNext \/ UNCHANGED Contract!cvars
  OBVIOUS
<1> DEFINE phase == [j \in Jobs |-> Phase(status[j])]
           live == [j \in Jobs |-> LiveAttempts(j)]
<1>1. ASSUME NEW j \in Jobs, Enqueue(j) PROVE Contract!Submit(j)
  <2>1. live' = live
    BY <1>1, LiveSame DEF Enqueue, workerVars, Working
  <2>2. phase[j] = "absent" /\ phase' = [phase EXCEPT ![j] = "queued"]
    BY <1>1, Phases DEF Enqueue, TypeOK, RowsTyped, Queued
  <2> QED BY <1>1, <2>1, <2>2 DEF Contract!Submit, Enqueue
<1>2. ASSUME NEW j \in Jobs, Cancel(j) PROVE Contract!Withdraw(j)
  <2>1. live' = live
    BY <1>2, LiveSame DEF Cancel, workerVars, Working
  <2>2. phase[j] \in {"queued", "running"} /\ phase' = [phase EXCEPT ![j] = "cancelled"]
    BY <1>2, Phases DEF Cancel, TypeOK, RowsTyped
  <2> QED BY <1>2, <2>1, <2>2 DEF Contract!Withdraw, Cancel
<1>3. ASSUME NEW w \in Workers, ClaimCommit(w) PROVE Contract!Begin(job[w], recovered[w])
  <2>1. job[w] \in Jobs
    BY <1>3, HasJob DEF ClaimCommit
  <2>2. \A k \in recovered[w] : phase[k] = "running"
    BY <1>3, Phases DEF ClaimCommit, FencingInv, LocksHold, Expired, TypeOK, WorkersTyped
  <2>3. phase[job[w]] = "queued" \/ job[w] \in recovered[w]
    BY <1>3, <2>1, Phases DEF ClaimCommit, FencingInv, LocksHold
  <2>4. phase' = [k \in Jobs |-> IF k = job[w] THEN "running"
                                 ELSE IF k \in recovered[w] THEN "queued" ELSE phase[k]]
    <3>1. ASSUME NEW k \in Jobs
          PROVE  Phase(status'[k]) = IF k = job[w] THEN "running"
                                     ELSE IF k \in recovered[w] THEN "queued" ELSE Phase(status[k])
      BY <1>3, Phases DEF ClaimCommit, Queued
    <3> QED BY <3>1
  <2>5. live' = [live EXCEPT ![job[w]] = live[job[w]] \cup {attempt_count[job[w]] + 1}]
    <3>1. PICK j \in Jobs : j = job[w]
      BY <2>1
    <3>2. PICK n : n = attempt_count[j] + 1
      OBVIOUS
    <3>3. /\ LiveAttempts(j)' = LiveAttempts(j) \cup {n}
          /\ \A k \in Jobs : k # j => LiveAttempts(k)' = LiveAttempts(k)
      BY <1>3, <3>1, <3>2, LiveGained
    <3>4. live' = [live EXCEPT ![j] = live[j] \cup {n}]
      BY <3>3
    <3> QED BY <3>1, <3>2, <3>4
  <2>6. attempt_count' = [attempt_count EXCEPT ![job[w]] = attempt_count[job[w]] + 1]
    BY <1>3 DEF ClaimCommit
  <2> QED BY <2>2, <2>3, <2>4, <2>5, <2>6 DEF Contract!Begin
<1>4. ASSUME NEW w \in Workers, Working(w), ~Working(w)',
             \A v \in Workers : v # w => pc'[v] = pc[v] /\ job'[v] = job[v] /\ attempt'[v] = attempt[v]
      PROVE  /\ job[w] \in Jobs /\ attempt[w] \in live[job[w]]
             /\ live' = [live EXCEPT ![job[w]] = live[job[w]] \ {attempt[w]}]
  <2>1. PICK j \in Jobs : j = job[w]
    BY <1>4, HasJob DEF Working
  <2>2. PICK a : a = attempt[w]
    OBVIOUS
  <2>3. /\ a \in LiveAttempts(j)
        /\ LiveAttempts(j)' = LiveAttempts(j) \ {a}
        /\ \A k \in Jobs : k # j => LiveAttempts(k)' = LiveAttempts(k)
    BY <1>4, <2>1, <2>2, LiveLost
  <2>4. a \in live[j] /\ live' = [live EXCEPT ![j] = live[j] \ {a}]
    BY <2>3
  <2> QED BY <2>1, <2>2, <2>4
<1>5. ASSUME NEW j \in Jobs, NEW s, status[j] = "RUNNING", status' = [status EXCEPT ![j] = s]
      PROVE  phase[j] = "running" /\ phase' = [phase EXCEPT ![j] = Phase(s)]
  <2>1. \A k \in Jobs : k # j => status'[k] = status[k]
    BY <1>5 DEF TypeOK, RowsTyped
  <2>2. status'[j] = s
    BY <1>5 DEF TypeOK, RowsTyped
  <2>3. \A k \in Jobs : Phase(status'[k]) = IF k = j THEN Phase(s) ELSE Phase(status[k])
    BY <2>1, <2>2
  <2>4. phase' = [k \in Jobs |-> IF k = j THEN Phase(s) ELSE phase[k]]
    BY <2>3
  <2> QED BY <1>5, <2>4, Phases
<1>6. ASSUME NEW w \in Workers, MarkSucceeded(w)
      PROVE  Contract!Conclude(job[w], attempt[w], "succeeded") /\ attempt[w] \in live[job[w]] /\ job[w] \in Jobs
  <2>1. /\ Working(w) /\ ~Working(w)' /\ Owns(w)
        /\ \A v \in Workers : v # w => pc'[v] = pc[v] /\ job'[v] = job[v] /\ attempt'[v] = attempt[v]
    BY <1>6 DEF MarkSucceeded, Working, Release, TypeOK, WorkersTyped
  <2>2. attempt[w] = attempt_count[job[w]]
    BY <2>1 DEF FencingInv, OwnerIsLast
  <2>3. phase[job[w]] = "running" /\ phase' = [phase EXCEPT ![job[w]] = "succeeded"]
    <3>1. PICK j \in Jobs : j = job[w]
      BY <1>4, <2>1
    <3>2. status[j] = "RUNNING" /\ status' = [status EXCEPT ![j] = "SUCCEEDED"]
      BY <1>6, <2>1, <3>1 DEF MarkSucceeded, Owns
    <3>3. phase[j] = "running" /\ phase' = [phase EXCEPT ![j] = Phase("SUCCEEDED")]
      BY <1>5, <3>2
    <3> QED BY <3>1, <3>3, Phases
  <2> QED BY <1>4, <1>6, <2>1, <2>2, <2>3 DEF Contract!Conclude, MarkSucceeded
<1>7. ASSUME NEW w \in Workers, MarkFailed(w)
      PROVE  /\ \E next \in {"queued", "failed"} : Contract!Conclude(job[w], attempt[w], next)
             /\ attempt[w] \in live[job[w]] /\ job[w] \in Jobs
  <2>1. /\ Working(w) /\ ~Working(w)' /\ Owns(w)
        /\ \A v \in Workers : v # w => pc'[v] = pc[v] /\ job'[v] = job[v] /\ attempt'[v] = attempt[v]
    BY <1>7 DEF MarkFailed, Working, Release, TypeOK, WorkersTyped
  <2>2. attempt[w] = attempt_count[job[w]]
    BY <2>1 DEF FencingInv, OwnerIsLast
  <2>3. CASE Retry(job[w])
    <3>1. status' = [status EXCEPT ![job[w]] = "RETRY_SCHEDULED"]
      BY <1>7, <2>3 DEF MarkFailed
    <3>2. phase[job[w]] = "running" /\ phase' = [phase EXCEPT ![job[w]] = "queued"]
      <4>1. PICK j \in Jobs : j = job[w]
        BY <1>4, <2>1
      <4>2. status[j] = "RUNNING" /\ status' = [status EXCEPT ![j] = "RETRY_SCHEDULED"]
        BY <2>1, <3>1, <4>1 DEF Owns
      <4>3. phase[j] = "running" /\ phase' = [phase EXCEPT ![j] = Phase("RETRY_SCHEDULED")]
        BY <1>5, <4>2
      <4> QED BY <4>1, <4>3, Phases DEF Queued
    <3>3. attempt[w] < MaxAttempts
      BY <2>2, <2>3 DEF Retry
    <3>4. Contract!Conclude(job[w], attempt[w], "queued")
      BY <1>4, <1>7, <2>1, <2>2, <3>2, <3>3 DEF Contract!Conclude, MarkFailed
    <3> QED BY <1>4, <2>1, <3>4
  <2>4. CASE ~Retry(job[w])
    <3>1. status' = [status EXCEPT ![job[w]] = "FAILED"]
      BY <1>7, <2>4 DEF MarkFailed
    <3>2. phase[job[w]] = "running" /\ phase' = [phase EXCEPT ![job[w]] = "failed"]
      <4>1. PICK j \in Jobs : j = job[w]
        BY <1>4, <2>1
      <4>2. status[j] = "RUNNING" /\ status' = [status EXCEPT ![j] = "FAILED"]
        BY <2>1, <3>1, <4>1 DEF Owns
      <4>3. phase[j] = "running" /\ phase' = [phase EXCEPT ![j] = Phase("FAILED")]
        BY <1>5, <4>2
      <4> QED BY <4>1, <4>3, Phases DEF Queued
    <3>3. ~(attempt[w] < MaxAttempts)
      BY <2>2, <2>4 DEF Retry
    <3>4. Contract!Conclude(job[w], attempt[w], "failed")
      BY <1>4, <1>7, <2>1, <2>2, <3>2, <3>3 DEF Contract!Conclude, MarkFailed
    <3> QED BY <1>4, <2>1, <3>4
  <2> QED BY <2>3, <2>4
<1>8. ASSUME NEW w \in Workers, Discard(w) \/ Crash(w), Working(w)
      PROVE  Contract!Vanish(job[w], attempt[w]) /\ attempt[w] \in live[job[w]] /\ job[w] \in Jobs
  <2>1. /\ ~Working(w)'
        /\ \A v \in Workers : v # w => pc'[v] = pc[v] /\ job'[v] = job[v] /\ attempt'[v] = attempt[v]
    BY <1>8 DEF Discard, Crash, Working, Release, TypeOK, WorkersTyped
  <2>2. UNCHANGED <<status, attempt_count>>
    BY <1>8 DEF Discard, Crash, rowVars
  <2> QED BY <1>4, <1>8, <2>1, <2>2 DEF Contract!Vanish
<1>9. ASSUME UNCHANGED <<status, attempt_count>>,
             \A w \in Workers : /\ Working(w)' <=> Working(w)
                                /\ Working(w) => job'[w] = job[w] /\ attempt'[w] = attempt[w]
      PROVE  UNCHANGED Contract!cvars
  BY <1>9, LiveSame DEF Contract!cvars
<1>10. ASSUME NEW w \in Workers, Crash(w), ~Working(w) PROVE UNCHANGED Contract!cvars
  BY <1>9, <1>10 DEF Crash, Working, rowVars, TypeOK, WorkersTyped
<1>11. ASSUME NEW w \in Workers, ClaimBegin(w) PROVE UNCHANGED Contract!cvars
  <2>1. UNCHANGED <<rowVars, attempt>> /\ ~Working(w) /\ ~Working(w)'
        /\ \A v \in Workers : v # w => pc'[v] = pc[v] /\ job'[v] = job[v]
    BY <1>11 DEF ClaimBegin, Working, TypeOK, WorkersTyped
  <2> QED BY <1>9, <2>1 DEF Working, rowVars
<1>12. ASSUME NEW w \in Workers, Heartbeat(w) \/ Stall(w) \/ Resume(w) PROVE UNCHANGED Contract!cvars
  BY <1>9, <1>12 DEF Heartbeat, Renew, LeaseLost, RenewRaises, Stall, Resume, rowVars, Working
<1>13. ASSUME NEW w \in Workers, Execute(w) \/ Restart(w) PROVE UNCHANGED Contract!cvars
  <2>1. /\ UNCHANGED <<rowVars, job, attempt>>
        /\ \A v \in Workers : Working(v)' <=> Working(v)
    BY <1>13 DEF Execute, ExecuteReturns, ExecuteRaises, Restart, Working, TypeOK, WorkersTyped
  <2> QED BY <1>9, <2>1 DEF rowVars
<1>14. Tick \/ UNCHANGED vars => UNCHANGED Contract!cvars
  BY <1>9 DEF Tick, vars, rowVars, workerVars, Working
<1>15. ASSUME NEW w \in Workers, Discard(w) PROVE Working(w)
  BY <1>15 DEF Discard, Working
<1>16. \A w \in Workers : recovered[w] \in SUBSET Jobs /\ (ClaimCommit(w) => job[w] \in Jobs)
  BY HasJob DEF TypeOK, WorkersTyped, ClaimCommit
<1> HIDE DEF phase
<1> QED
  <2>1. ASSUME NEW w \in Workers, Claim(w) PROVE Contract!ContractNext \/ UNCHANGED Contract!cvars
    BY <1>3, <1>11, <1>16, <2>1 DEF Claim, Contract!ContractNext
  <2>2. ASSUME NEW w \in Workers, Finish(w) PROVE Contract!ContractNext
    BY <1>6, <1>7, <1>8, <1>15, <2>2 DEF Finish, Contract!ContractNext
  <2>3. ASSUME NEW w \in Workers, Crash(w) PROVE Contract!ContractNext \/ UNCHANGED Contract!cvars
    BY <1>8, <1>10, <2>3 DEF Contract!ContractNext
  <2>4. ASSUME NEW j \in Jobs, Enqueue(j) \/ Cancel(j) PROVE Contract!ContractNext
    BY <1>1, <1>2, <2>4 DEF Contract!ContractNext
  <2> QED BY <1>12, <1>13, <1>14, <2>1, <2>2, <2>3, <2>4 DEF Next

(* The queue with its workers, leases and faults implements the contract. *)
THEOREM QueueImplementsContract == Spec => ImplementsContract
<1>1. [](TypeOK /\ FencingInv) /\ [][Next]_vars => [][Contract!ContractNext]_(Contract!cvars)
  BY ContractStep, PTL
<1> QED BY <1>1, ContractStart, Fencing, PTL DEF Spec, ImplementsContract, Contract!ContractSpec
=============================================================================
