----------------------------- MODULE DiscoverRun -----------------------------
(***************************************************************************)
(* CNPJ discovery: the views that request a run or answer it from the      *)
(* coverage cache (apps/discovery), the handler of a DISCOVER_CNPJ job     *)
(* (apps/sources/cnpj/jobs.py), its download directory and lock (storage)  *)
(* and the cleanup command.                                                *)
(*                                                                         *)
(* The queue is the one JobContract promises: attempts of a job may        *)
(* overlap or vanish, and only the latest decides the job.  What an        *)
(* attempt writes outside the job row is not fenced by anything, so each   *)
(* live attempt is a process of its own here.                              *)
(*                                                                         *)
(* All runs ask for the same scope (competence, target, filters): they     *)
(* share one SourceCoverage row, and differ in mode and limit only.        *)
(***************************************************************************)
EXTENDS JobContract, Sequences, FiniteSets

CONSTANTS
    Sources,        \* kinds of the requested files, in processing order
    MatchesIn,      \* matching rows of each establishment file
    Mode,           \* "PREVIEW" or "FULL", for each job
    Limits,         \* the values of max_results each job may be requested with
    None,           \* no attempt, no coverage, no plan
    MaxRuns,        \* bound: attempts of a job
    MaxOvertaken,   \* bound: jobs taken over from an attempt that still runs
    MaxCrashes      \* bound: attempts that die

Kinds == {"ESTABLISHMENTS", "COMPANIES", "SIMPLES"}

Procs == Jobs \X (1..MaxRuns)

ASSUME DiscoverAssumption ==
    /\ MaxAttempts \in Nat \ {0}
    /\ Sources \in Seq(Kinds) \ {<<>>} /\ Sources[1] = "ESTABLISHMENTS"
    /\ MatchesIn \in [DOMAIN Sources -> Nat]
    /\ Mode \in [Jobs -> {"PREVIEW", "FULL"}]
    /\ Limits \in [Jobs -> SUBSET (Nat \ {0})]
    /\ None \notin Jobs \cup Procs /\ "collect" \notin Jobs
    /\ MaxRuns \in Nat /\ MaxOvertaken \in Nat /\ MaxCrashes \in Nat

VARIABLES
    limit,          \* max_results of each job
    plan,           \* what the view read: None, "collect" or the covering run
    run,            \* QueryRun rows: status and coverage["complete"]
    results,        \* QueryResult rows of each run
    coverage,       \* the run of the SourceCoverage row, or None
    disk,           \* the download directory of each job and file
    flock,          \* the attempt that holds .download.lock, or None
    proc,           \* the attempts that are executing
    overtaken,      \* history: jobs taken over from an attempt that still ran
    crashes

dbVars == <<limit, plan, run, results, coverage>>
diskVars == <<disk, flock>>
faultVars == <<overtaken, crashes>>
vars == <<cvars, dbVars, diskVars, proc, faultVars>>

Establishments == {s \in DOMAIN Sources : Sources[s] = "ESTABLISHMENTS"}
Rows == UNION {{s} \X (1..MatchesIn[s]) : s \in Establishments}
Complements == {"COMPANIES", "SIMPLES"}

\* a preview asks for one establishment file and no complement
Requested(j) == IF Mode[j] = "PREVIEW" THEN {1} ELSE DOMAIN Sources

Final == {"SUCCEEDED", "PARTIAL", "FAILED"}
RunStatus == {"NONE", "PENDING", "RUNNING"} \cup Final
Stage == {"gone", "start", "next", "download", "read", "failing", "finish",
          "cover", "returned", "raised"}
Attempt == [at : Stage, src : 0..Len(Sources) + 1, matches : Nat, capped : BOOLEAN,
            left : SUBSET Complements, row : Nat, seen : {"none", "yes", "no"}]
NoProc == [at |-> "gone", src |-> 0, matches |-> 0, capped |-> FALSE,
           left |-> {}, row |-> 0, seen |-> "none"]

TypeOK ==
    /\ phase \in [Jobs -> {"absent", "queued", "running", "succeeded", "failed", "cancelled"}]
    /\ current \in [Jobs -> 0..MaxRuns]
    /\ live \in [Jobs -> SUBSET (1..MaxRuns)]
    /\ \A j \in Jobs : live[j] \subseteq 1..current[j]
    /\ limit \in [Jobs -> Nat]
    /\ plan \in [Jobs -> Jobs \cup {None, "collect"}]
    /\ run \in [Jobs -> [status : RunStatus, complete : {"none", "yes", "no"}]]
    /\ results \in [Jobs -> SUBSET Rows]
    /\ coverage \in Jobs \cup {None}
    /\ disk \in [Jobs \X DOMAIN Sources -> {"absent", "empty", "zip"}]
    /\ flock \in Procs \cup {None}
    /\ proc \in [Procs -> Attempt]
    /\ \A p \in Procs : proc[p].at # "gone" <=> p[2] \in live[p[1]]
    /\ overtaken \subseteq Jobs /\ crashes \in 0..MaxCrashes

Init ==
    /\ ContractInit
    /\ limit = [j \in Jobs |-> 0]
    /\ plan = [j \in Jobs |-> None]
    /\ run = [j \in Jobs |-> [status |-> "NONE", complete |-> "none"]]
    /\ results = [j \in Jobs |-> {}]
    /\ coverage = None
    /\ disk = [d \in Jobs \X DOMAIN Sources |-> "absent"]
    /\ flock = None
    /\ proc = [p \in Procs |-> NoProc]
    /\ overtaken = {}
    /\ crashes = 0

-----------------------------------------------------------------------------
(* The views: query_run_preview and query_run_full *)

\* find_valid_coverage
Covered == coverage # None /\ run[coverage].status = "SUCCEEDED"

\* The plan is read before anything is created.  A full run that is covered is
\* refused, a preview that is covered is answered from the cache.
Plan(j) ==
    /\ run[j].status = "NONE" /\ plan[j] = None
    /\ ~(Covered /\ Mode[j] = "FULL")
    /\ plan' = [plan EXCEPT ![j] = IF Covered THEN coverage ELSE "collect"]
    /\ \E n \in Limits[j] : limit' = [limit EXCEPT ![j] = n]
    /\ UNCHANGED <<cvars, run, results, coverage, diskVars, proc, faultVars>>

\* QueryRun and Job are created in one transaction
Request(j) ==
    /\ plan[j] = "collect" /\ run[j].status = "NONE"
    /\ Submit(j)
    /\ run' = [run EXCEPT ![j].status = "PENDING"]
    /\ UNCHANGED <<limit, plan, results, coverage, diskVars, proc, faultVars>>

\* materialize_cached_run: at most max_results rows of the covering run
Serve(j) ==
    /\ plan[j] \in Jobs /\ run[j].status = "NONE"
    /\ \E S \in SUBSET results[plan[j]] :
         LET cut == Cardinality(results[plan[j]]) > limit[j] IN
         /\ IF cut THEN Cardinality(S) = limit[j] ELSE S = results[plan[j]]
         /\ results' = [results EXCEPT ![j] = S]
         /\ run' = [run EXCEPT ![j] = IF cut THEN [status |-> "PARTIAL", complete |-> "no"]
                                      ELSE [status |-> "SUCCEEDED", complete |-> "yes"]]
    /\ UNCHANGED <<cvars, limit, plan, coverage, diskVars, proc, faultVars>>

-----------------------------------------------------------------------------
(* The queue *)

\* jobs that a claim may recover, given those it takes from a live attempt
Lapsed(stolen) == {k \in Jobs : phase[k] = "running" /\ (live[k] = {} \/ k \in stolen)}

TakeAny(j) ==    \* mutant: a claim overlooks that the lease is still kept
    /\ current[j] < MaxRuns
    /\ \E lapsed \in SUBSET {k \in Jobs : phase[k] = "running"} : Begin(j, lapsed)
    /\ proc' = [proc EXCEPT ![<<j, current[j] + 1>>] = [NoProc EXCEPT !.at = "start"]]
    /\ UNCHANGED <<dbVars, diskVars, faultVars>>

\* A worker claims j and recovers lapsed jobs.  An attempt whose heartbeats were
\* lost is still live: it is overtaken.
Take(j) ==
    \E stolen \in SUBSET {k \in Jobs : live[k] # {}} :
        /\ current[j] < MaxRuns
        /\ Cardinality(overtaken \cup stolen) <= MaxOvertaken
        /\ \E lapsed \in SUBSET Lapsed(stolen) : stolen \subseteq lapsed /\ Begin(j, lapsed)
        /\ proc' = [proc EXCEPT ![<<j, current[j] + 1>>] = [NoProc EXCEPT !.at = "start"]]
        /\ overtaken' = overtaken \cup stolen
        /\ UNCHANGED <<dbVars, diskVars, crashes>>

Cancel(j) ==
    /\ Withdraw(j)
    /\ UNCHANGED <<dbVars, diskVars, proc, faultVars>>

Leave(p) == proc' = [proc EXCEPT ![p] = NoProc]

\* mark_succeeded, mark_failed: a no-op for an attempt that lost the job
Report(p) ==
    LET j == p[1]
        a == p[2]
        owner == phase[j] = "running" /\ a = current[j]
        verdict == IF proc[p].at = "returned" THEN "succeeded"
                   ELSE IF a < MaxAttempts THEN "queued" ELSE "failed" IN
    /\ proc[p].at \in {"returned", "raised"}
    /\ IF owner THEN Conclude(j, a, verdict) ELSE Vanish(j, a)
    /\ Leave(p)
    /\ UNCHANGED <<dbVars, diskVars, faultVars>>

\* The worker dies: the system drops its flock, nothing drops its directory.
\* Half of a removal leaves the directory without its file.
Crash(p) ==
    LET d == <<p[1], proc[p].src>> IN
    /\ proc[p].at # "gone" /\ crashes < MaxCrashes
    /\ Vanish(p[1], p[2])
    /\ \/ disk' = disk
       \/ flock = p /\ disk' = [disk EXCEPT ![d] = "empty"]
    /\ flock' = IF flock = p THEN None ELSE flock
    /\ Leave(p)
    /\ crashes' = crashes + 1
    /\ UNCHANGED <<dbVars, overtaken>>

\* mutant: the cleanup does not try the lock
CleanupUnlocked ==
    /\ \E d \in DOMAIN disk : disk[d] = "zip" /\ disk' = [disk EXCEPT ![d] = "absent"]
    /\ UNCHANGED <<cvars, dbVars, flock, proc, faultVars>>

\* cleanup_stale_downloads, run by hand: the directories in `old' hold archives
\* past the age limit.  Directories without a file are skipped.
Cleanup ==
    /\ flock = None
    /\ \E old \in SUBSET {d \in DOMAIN disk : disk[d] = "zip"} :
         disk' = [d \in DOMAIN disk |-> IF d \in old THEN "absent" ELSE disk[d]]
    /\ UNCHANGED <<cvars, dbVars, flock, proc, faultVars>>

-----------------------------------------------------------------------------
(* execute_discover_cnpj *)

Goto(p, at) == proc' = [proc EXCEPT ![p].at = at]

\* The loop over the sources is left: of the handler's variables only its copy of
\* the coverage is still used, by the save of a failed run.
Leaving(p, at) ==
    proc' = [proc EXCEPT ![p] = [NoProc EXCEPT !.at = at, !.seen = IF at = "failing"
                                               THEN proc[p].seen ELSE "none"]]

\* The payload, the kill switch, the source or the manifest is refused: this is
\* before the try, and the run is left as it was.
Refuse(p) ==
    /\ proc[p].at = "start"
    /\ Goto(p, "raised")
    /\ UNCHANGED <<cvars, dbVars, diskVars, faultVars>>

\* update_fields: coverage is not one of them, the handler keeps its copy
Start(p) ==
    LET j == p[1] IN
    /\ proc[p].at = "start"
    /\ run' = [run EXCEPT ![j].status = "RUNNING"]
    /\ proc' = [proc EXCEPT ![p].at = "next", ![p].src = 1, ![p].seen = run[j].complete]
    /\ UNCHANGED <<cvars, limit, plan, results, coverage, diskVars, faultVars>>

AtLimitLate(j, n) == n > limit[j]     \* mutant: off by one

\* establishment_matches >= max_results
AtLimit(j, n) == n >= limit[j]

\* no source left to open, the limit reached, or nobody left to complement
Wanted(p) ==
    LET kind == Sources[proc[p].src] IN
    IF kind = "ESTABLISHMENTS" THEN ~AtLimit(p[1], proc[p].matches) ELSE kind \in proc[p].left

LeftKinds(p, s) == {Sources[i] : i \in Requested(p[1])}     \* mutant: no candidates read

\* the candidates are read back once the establishments are done
LeftAfter(p, s) ==
    IF s \in DOMAIN Sources /\ Sources[s] # "ESTABLISHMENTS" /\ s - 1 \in Establishments
    THEN IF results[p[1]] = {} THEN {} ELSE {Sources[i] : i \in Requested(p[1])} \cap Complements
    ELSE proc[p].left

\* the loop passes over a source
Skip(p) ==
    LET r == proc[p] IN
    /\ r.at = "next" /\ r.src \in Requested(p[1]) /\ ~Wanted(p)
    /\ proc' = [proc EXCEPT ![p].src = r.src + 1, ![p].left = LeftAfter(p, r.src + 1),
                            ![p].capped = @ \/ r.src \in Establishments]
    /\ UNCHANGED <<cvars, dbVars, diskVars, faultVars>>

\* downloaded_cnpj_zip: the lock is tried once, the directory must not exist
Open(p) ==
    LET r == proc[p]
        d == <<p[1], r.src>> IN
    /\ r.at = "next" /\ r.src \in Requested(p[1]) /\ Wanted(p)
    /\ IF flock = None /\ disk[d] = "absent"
       THEN /\ flock' = p
            /\ disk' = [disk EXCEPT ![d] = "empty"]
            /\ Goto(p, "download")
       ELSE /\ Leaving(p, "failing")
            /\ UNCHANGED diskVars
    /\ UNCHANGED <<cvars, dbVars, faultVars>>

LeaveZip(p) == flock' = None /\ disk' = disk    \* mutant: the archive stays

\* the context manager's finally
Dispose(p) ==
    /\ flock' = None
    /\ disk' = [disk EXCEPT ![<<p[1], proc[p].src>>] = "absent"]

\* the .part file exists, is complete, and is promoted
Fetch(p) ==
    /\ proc[p].at = "download"
    /\ disk' = [disk EXCEPT ![<<p[1], proc[p].src>>] = "zip"]
    /\ proc' = [proc EXCEPT ![p].at = "read", ![p].row = 1]
    /\ UNCHANGED <<cvars, dbVars, flock, faultVars>>

SourceFailsSwallowed(p) ==    \* mutant: the error is logged, the loop goes on
    /\ proc[p].at \in {"download", "read"}
    /\ Dispose(p)
    /\ proc' = [proc EXCEPT ![p].at = "next", ![p].src = @ + 1, ![p].row = 0,
                            ![p].left = LeftAfter(p, proc[p].src + 1)]
    /\ UNCHANGED <<cvars, dbVars, faultVars>>

\* quota, size, archive or network error; or an error while a row is ingested
SourceFails(p) ==
    /\ proc[p].at \in {"download", "read"}
    /\ Dispose(p)
    /\ Leaving(p, "failing")
    /\ UNCHANGED <<cvars, dbVars, faultVars>>

\* rows of the file still to be read by this attempt
Reading(p) ==
    LET r == proc[p] IN
    r.at = "read" /\ r.src \in Establishments /\ r.row <= MatchesIn[r.src] /\ ~r.capped

\* one transaction: candidate, company, observations and result of a row
Ingest(p) ==
    LET r == proc[p]
        j == p[1] IN
    /\ Reading(p)
    /\ results' = [results EXCEPT ![j] = @ \cup {<<r.src, r.row>>}]
    /\ proc' = [proc EXCEPT ![p].row = r.row + 1, ![p].matches = r.matches + 1,
                            ![p].capped = AtLimit(j, r.matches + 1)]
    /\ UNCHANGED <<cvars, limit, plan, run, coverage, diskVars, faultVars>>

\* The reader is exhausted or cut off.  A complement file has the record of every
\* candidate, or not.
Close(p) ==
    LET r == proc[p] IN
    /\ r.at = "read" /\ ~Reading(p)
    /\ Dispose(p)
    /\ \E left \in IF r.src \in Establishments THEN {LeftAfter(p, r.src + 1)}
                   ELSE {r.left, r.left \ {Sources[r.src]}} :
         proc' = [proc EXCEPT ![p].at = "next", ![p].src = r.src + 1, ![p].row = 0,
                              ![p].left = left]
    /\ UNCHANGED <<cvars, dbVars, faultVars>>

SaveFailedForgets(p) ==    \* mutant: the run is not closed
    /\ proc[p].at = "failing"
    /\ Leaving(p, "raised")
    /\ UNCHANGED <<cvars, dbVars, diskVars, faultVars>>

\* except Exception: the whole row is saved, with the copy of coverage
SaveFailed(p) ==
    /\ proc[p].at = "failing"
    /\ run' = [run EXCEPT ![p[1]] = [status |-> "FAILED", complete |-> proc[p].seen]]
    /\ Leaving(p, "raised")
    /\ UNCHANGED <<cvars, limit, plan, results, coverage, diskVars, faultVars>>

PartialIgnoresLimit(p) == Mode[p[1]] = "PREVIEW" \/ proc[p].left # {}   \* mutant

Partial(p) == Mode[p[1]] = "PREVIEW" \/ proc[p].capped \/ proc[p].left # {}

\* the whole row is saved; a complete run goes on to register its coverage
Finish(p) ==
    LET r == proc[p] IN
    /\ r.at = "next" /\ r.src \notin Requested(p[1])
    /\ run' = [run EXCEPT ![p[1]] =
                 IF Partial(p) THEN [status |-> "PARTIAL", complete |-> "no"]
                 ELSE [status |-> "SUCCEEDED", complete |-> "yes"]]
    /\ Leaving(p, IF Partial(p) THEN "returned" ELSE "cover")
    /\ UNCHANGED <<cvars, limit, plan, results, coverage, diskVars, faultVars>>

\* record_source_coverage, in its own transaction; it may raise
RecordCoverage(p) ==
    /\ proc[p].at = "cover"
    /\ \/ coverage' = p[1] /\ Leaving(p, "returned")
       \/ coverage' = coverage /\ Leaving(p, "raised")
    /\ UNCHANGED <<cvars, limit, plan, run, results, diskVars, faultVars>>

Handler(p) ==
    \/ Refuse(p) \/ Start(p) \/ Skip(p) \/ Open(p) \/ Fetch(p) \/ SourceFails(p)
    \/ Ingest(p) \/ Close(p) \/ SaveFailed(p) \/ Finish(p) \/ RecordCoverage(p)

Next ==
    \/ \E j \in Jobs : Plan(j) \/ Request(j) \/ Serve(j) \/ Take(j) \/ Cancel(j)
    \/ \E p \in Procs : Handler(p) \/ Report(p) \/ Crash(p)
    \/ Cleanup

Spec == Init /\ [][Next]_vars
-----------------------------------------------------------------------------
(* Properties *)

\* docs/implementation-plan.md:118, "interrupcao nao deixa resultado marcado como
\* completo": whatever passes for complete, a SUCCEEDED run, a run whose coverage
\* says complete (FAILED ones keep an older copy), the run of the coverage row and
\* the runs served from it, has every matching row of every establishment file,
\* although it was put together by attempts that failed, died or overlapped.
CompleteMeansEveryRow ==
    \A j \in Jobs :
        run[j].status = "SUCCEEDED" \/ run[j].complete = "yes" \/ coverage = j
        => results[j] = Rows

\* CNPJ_MAX_PERSISTED_MATCHES holds for the run, not for the attempt: each attempt
\* counts its own matches from zero, and rows an earlier or an overlapping attempt
\* has put in are met again before the limit is.
ResultsWithinLimit == \A j \in Jobs : Cardinality(results[j]) <= limit[j]

\* The archive an attempt reads is there until that attempt disposes of it: no
\* other attempt and no cleanup removes it, and no other attempt holds the lock.
ArchiveStaysWhileRead ==
    \A p \in Procs :
        /\ proc[p].at \in {"download", "read"} => flock = p
        /\ proc[p].at = "read" => disk[<<p[1], proc[p].src>>] = "zip"

\* docs/deployment.md:92, "mantem no maximo uma parte": besides the directory of
\* the download in progress, the disk holds at most one per attempt that died.
TempSpaceIsBounded ==
    LET kept == {d \in DOMAIN disk : disk[d] # "absent"}
        open == IF flock = None THEN {} ELSE {<<flock[1], proc[flock].src>>} IN
    /\ open \subseteq kept
    /\ Cardinality(kept \ open) <= crashes

\* The run of a job that nobody took over from a live attempt ends with its job: a
\* job succeeds only after its run was closed, with a coverage row when the run is
\* complete, and no job that ended leaves its run RUNNING unless an attempt died.
RunSettlesWithJob ==
    \A j \in Jobs \ overtaken :
        /\ phase[j] = "succeeded" =>
             /\ run[j].status \in {"SUCCEEDED", "PARTIAL"}
             /\ run[j].status = "SUCCEEDED" => coverage # None
        /\ phase[j] \in {"succeeded", "failed"} /\ crashes = 0 => run[j].status # "RUNNING"

RunIsFinal(j) == phase[j] \in {"succeeded", "failed"} => run'[j] = run[j]

\* Once such a job ended, nothing touches its run any more.
RunsAreFinalUnlessOvertaken == [][\A j \in Jobs \ overtaken : RunIsFinal(j)]_vars

\* docs/architecture.md:181, "resultados de processos atrasados sao descartados se
\* outro worker ja tiver recuperado o job": the same of every job, those taken over
\* from an attempt that still runs included.
EndedRunsAreFinal == [][\A j \in Jobs : RunIsFinal(j)]_vars

\* docs/deployment.md:85, "Um job interrompido deve poder retomar ou limpar somente
\* seu diretorio isolado": an attempt that is about to open a file while no download
\* runs does not find the directory an earlier attempt of its job left.
InterruptedJobsResume ==
    \A p \in Procs :
        LET r == proc[p] IN
        r.at = "next" /\ r.src \in Requested(p[1]) /\ Wanted(p) /\ flock = None
        => disk[<<p[1], r.src>>] = "absent"
=============================================================================
