------------------------- MODULE DiscoverRunProofs -------------------------
(* Theorems about DiscoverRun, for any jobs, files, limits, modes and faults. *)
EXTENDS DiscoverRun, FiniteSetTheorems, TLAPS

Status == [status : RunStatus, complete : {"none", "yes", "no"}]

-----------------------------------------------------------------------------
(* Types. *)

(* An attempt is a job and a number. *)
LEMMA ProcsAre ==
    \A p \in Procs : /\ p[1] \in Jobs /\ p[2] \in 1..MaxRuns /\ p[2] \in Nat
                     /\ p = <<p[1], p[2]>>
BY DEF Procs

(* The files are numbered from 1. *)
LEMMA FilesAre ==
    /\ Len(Sources) \in Nat /\ DOMAIN Sources = 1..Len(Sources) /\ 1 \in DOMAIN Sources
    /\ \A s \in DOMAIN Sources : Sources[s] \in Kinds /\ MatchesIn[s] \in Nat
    /\ 1 \in Establishments /\ Establishments \subseteq DOMAIN Sources
    /\ \A j \in Jobs : Requested(j) \subseteq DOMAIN Sources
<1>1. Sources \in Seq(Kinds) /\ Sources # <<>>
  BY DiscoverAssumption
<1>2. Len(Sources) \in Nat /\ Len(Sources) > 0 /\ DOMAIN Sources = 1..Len(Sources)
  BY <1>1
<1>3. \A s \in DOMAIN Sources : Sources[s] \in Kinds
  BY <1>1, <1>2
<1> QED BY <1>2, <1>3, DiscoverAssumption DEF Establishments, Requested

(* A process that is not there is an attempt with nothing read. *)
LEMMA NoProcTyped ==
    ASSUME NEW at \in Stage, NEW seen \in {"none", "yes", "no"}
    PROVE  /\ NoProc \in Attempt /\ NoProc.at = "gone"
           /\ [NoProc EXCEPT !.at = at] \in Attempt
           /\ [NoProc EXCEPT !.at = at, !.seen = seen] \in Attempt
<1>1. 0 \in 0..Len(Sources) + 1 /\ 0 \in Nat /\ {} \in SUBSET Complements /\ "gone" \in Stage
  BY FilesAre DEF Stage
<1> QED BY <1>1 DEF NoProc, Attempt

(* The kinds left are complements. *)
LEMMA LeftTyped ==
    ASSUME TypeOK, NEW p \in Procs, NEW s
    PROVE  LeftAfter(p, s) \in SUBSET Complements
BY DEF LeftAfter, TypeOK, Attempt

(* What one process becomes, the others staying what they are. *)
Becomes(p, t) == /\ proc' \in [Procs -> Attempt] /\ t \in Attempt /\ proc'[p] = t
                 /\ \A q \in Procs : q # p => proc'[q] = proc[q]

(* A step assigns the attempt of one process. *)
LEMMA ProcSet ==
    ASSUME TypeOK, NEW p \in Procs, NEW t \in Attempt, proc' = [proc EXCEPT ![p] = t]
    PROVE  Becomes(p, t)
BY DEF TypeOK, Becomes

(* The handler starts at its first file, with its copy of the coverage. *)
LEMMA StartBecomes ==
    ASSUME TypeOK, NEW p \in Procs, Start(p)
    PROVE  Becomes(p, [proc[p] EXCEPT !.at = "next", !.src = 1, !.seen = run[p[1]].complete])
<1>1. proc[p] \in Attempt /\ run[p[1]].complete \in {"none", "yes", "no"}
  BY ProcsAre DEF TypeOK
<1>2. proc' = [proc EXCEPT ![p] =
                 [proc[p] EXCEPT !.at = "next", !.src = 1, !.seen = run[p[1]].complete]]
  BY <1>1 DEF Start, TypeOK, Attempt
<1>3. [proc[p] EXCEPT !.at = "next", !.src = 1, !.seen = run[p[1]].complete] \in Attempt
  <2>1. 1 \in 0..Len(Sources) + 1 /\ "next" \in Stage
    BY FilesAre DEF Stage
  <2> QED BY <1>1, <2>1 DEF Attempt
<1> QED BY <1>2, <1>3, ProcSet

(* The loop passes over a file. *)
LEMMA SkipBecomes ==
    ASSUME TypeOK, NEW p \in Procs, Skip(p)
    PROVE  Becomes(p, [proc[p] EXCEPT !.src = proc[p].src + 1,
                         !.left = LeftAfter(p, proc[p].src + 1),
                         !.capped = @ \/ proc[p].src \in Establishments])
<1> DEFINE t == [proc[p] EXCEPT !.src = proc[p].src + 1,
                         !.left = LeftAfter(p, proc[p].src + 1),
                         !.capped = @ \/ proc[p].src \in Establishments]
<1>1. proc[p] \in Attempt /\ proc[p].src \in DOMAIN Sources
  BY ProcsAre, FilesAre DEF TypeOK, Skip
<1>2. proc' = [proc EXCEPT ![p] = t]
  BY <1>1 DEF Skip, TypeOK, Attempt
<1>3. (proc[p].capped \/ proc[p].src \in Establishments) \in BOOLEAN
  OBVIOUS
<1>4. proc[p].src + 1 \in 0..Len(Sources) + 1
  BY <1>1, FilesAre
<1>5. t \in Attempt
  BY <1>1, <1>3, <1>4, LeftTyped DEF Attempt
<1> QED BY <1>2, <1>5, ProcSet

(* Only where the attempt is changes. *)
LEMMA GotoBecomes ==
    ASSUME TypeOK, NEW p \in Procs, NEW at \in Stage, Goto(p, at)
    PROVE  Becomes(p, [proc[p] EXCEPT !.at = at])
<1>1. proc[p] \in Attempt
  BY DEF TypeOK
<1>2. proc' = [proc EXCEPT ![p] = [proc[p] EXCEPT !.at = at]]
  BY <1>1 DEF Goto, TypeOK, Attempt
<1>3. [proc[p] EXCEPT !.at = at] \in Attempt
  BY <1>1 DEF Attempt
<1> QED BY <1>2, <1>3, ProcSet

(* The loop is left with the copy of the coverage at most. *)
LEMMA LeavingBecomes ==
    ASSUME TypeOK, NEW p \in Procs, NEW at \in Stage, Leaving(p, at)
    PROVE  Becomes(p, [NoProc EXCEPT !.at = at, !.seen = IF at = "failing" THEN proc[p].seen
                                                          ELSE "none"])
<1>1. (IF at = "failing" THEN proc[p].seen ELSE "none") \in {"none", "yes", "no"}
  BY DEF TypeOK, Attempt
<1>2. [NoProc EXCEPT !.at = at, !.seen = IF at = "failing" THEN proc[p].seen ELSE "none"]
        \in Attempt
  BY <1>1, NoProcTyped
<1> QED BY <1>2, ProcSet DEF Leaving

(* The attempt is gone. *)
LEMMA LeaveBecomes ==
    ASSUME TypeOK, NEW p \in Procs, Leave(p)
    PROVE  Becomes(p, NoProc)
<1>1. NoProc \in Attempt
  <2>1. "gone" \in Stage
    BY DEF Stage
  <2> QED BY <2>1, NoProcTyped
<1> QED BY <1>1, ProcSet DEF Leave

(* The archive is read from its first row. *)
LEMMA FetchBecomes ==
    ASSUME TypeOK, NEW p \in Procs, Fetch(p)
    PROVE  Becomes(p, [proc[p] EXCEPT !.at = "read", !.row = 1])
<1>1. proc[p] \in Attempt
  BY DEF TypeOK
<1>2. proc' = [proc EXCEPT ![p] = [proc[p] EXCEPT !.at = "read", !.row = 1]]
  BY <1>1 DEF Fetch, TypeOK, Attempt
<1>3. [proc[p] EXCEPT !.at = "read", !.row = 1] \in Attempt
  BY <1>1 DEF Attempt, Stage
<1> QED BY <1>2, <1>3, ProcSet

(* A row is counted. *)
LEMMA IngestBecomes ==
    ASSUME TypeOK, NEW p \in Procs, Ingest(p)
    PROVE  Becomes(p, [proc[p] EXCEPT !.row = proc[p].row + 1, !.matches = proc[p].matches + 1,
                                      !.capped = AtLimit(p[1], proc[p].matches + 1)])
<1> DEFINE t == [proc[p] EXCEPT !.row = proc[p].row + 1, !.matches = proc[p].matches + 1,
                                !.capped = AtLimit(p[1], proc[p].matches + 1)]
<1>1. proc[p] \in Attempt
  BY DEF TypeOK
<1>2. proc' = [proc EXCEPT ![p] = t]
  BY <1>1 DEF Ingest, TypeOK, Attempt
<1>3. AtLimit(p[1], proc[p].matches + 1) \in BOOLEAN
  BY DEF AtLimit
<1>4. t \in Attempt
  <2>1. proc[p].row + 1 \in Nat /\ proc[p].matches + 1 \in Nat
    BY <1>1 DEF Attempt
  <2> QED BY <1>1, <1>3, <2>1 DEF Attempt
<1> QED BY <1>2, <1>4, ProcSet

(* The next file is due. *)
LEMMA CloseBecomes ==
    ASSUME TypeOK, NEW p \in Procs, Close(p), proc[p].src \in DOMAIN Sources
    PROVE  \E left \in SUBSET Complements :
             Becomes(p, [proc[p] EXCEPT !.at = "next", !.src = proc[p].src + 1, !.row = 0,
                                        !.left = left])
<1>1. proc[p] \in Attempt
  BY DEF TypeOK
<1>2. PICK left \in IF proc[p].src \in Establishments THEN {LeftAfter(p, proc[p].src + 1)}
                    ELSE {proc[p].left, proc[p].left \ {Sources[proc[p].src]}} :
         proc' = [proc EXCEPT ![p].at = "next", ![p].src = proc[p].src + 1, ![p].row = 0,
                              ![p].left = left]
  BY DEF Close
<1>3. left \in SUBSET Complements
  BY <1>1, <1>2, LeftTyped DEF Attempt
<1> DEFINE t == [proc[p] EXCEPT !.at = "next", !.src = proc[p].src + 1, !.row = 0,
                                !.left = left]
<1>4. proc' = [proc EXCEPT ![p] = t]
  BY <1>1, <1>2 DEF TypeOK, Attempt
<1>5. t \in Attempt
  <2>1. proc[p].src + 1 \in 0..Len(Sources) + 1 /\ "next" \in Stage
    BY FilesAre DEF Stage
  <2> QED BY <1>1, <1>3, <2>1 DEF Attempt
<1> QED BY <1>3, <1>4, <1>5, ProcSet

-----------------------------------------------------------------------------
(* The inductive invariant. *)

Working == {"next", "download", "read"}
HasOpen(p) == proc[p].at \in {"download", "read"}

\* A job was requested by a view that found nothing in the cache; what has no run yet
\* is nobody's source.
Asked ==
    \A j \in Jobs :
        /\ phase[j] # "absent" => plan[j] = "collect" /\ run[j].status # "NONE"
        /\ live[j] # {} => phase[j] # "absent"
        /\ run[j].status = "NONE" => /\ results[j] = {} /\ run[j].complete = "none"
                                     /\ coverage # j /\ \A k \in Jobs : plan[k] # j

\* An attempt is at one of its files, or after the last.
Located ==
    \A p \in Procs :
        /\ proc[p].at = "start" => proc[p] = [NoProc EXCEPT !.at = "start"]
        /\ proc[p].at \in Working => proc[p].src \in 1..Len(Sources) + 1
        /\ HasOpen(p) => proc[p].src \in DOMAIN Sources
        /\ proc[p].at \in {"next", "download"} => proc[p].row = 0
        /\ proc[p].at = "read" => proc[p].row >= 1

(* Steps of an attempt that stays. *)
LEMMA BecomesTyped ==
    ASSUME TypeOK, NEW p \in Procs, NEW t, Becomes(p, t), UNCHANGED cvars,
           proc[p].at # "gone", t.at # "gone"
    PROVE  /\ proc' \in [Procs -> Attempt]
           /\ \A q \in Procs : proc'[q].at # "gone" <=> q[2] \in live'[q[1]]
BY DEF TypeOK, Becomes, cvars

(* Every step of a handler is typed, and leaves an attempt that is located. *)
LEMMA HandlerTyped ==
    ASSUME TypeOK, Located, NEW p \in Procs, Handler(p)
    PROVE  TypeOK' /\ Located'
<1>0. /\ proc[p] \in Attempt /\ p[1] \in Jobs /\ run[p[1]] \in Status
      /\ Len(Sources) \in Nat /\ DOMAIN Sources = 1..Len(Sources)
  BY ProcsAre, FilesAre DEF TypeOK, Status
<1>a. ASSUME NEW t, Becomes(p, t), t.at \in Working => t.src \in 1..Len(Sources) + 1,
             t.at \in {"download", "read"} => t.src \in DOMAIN Sources,
             t.at \in {"next", "download"} => t.row = 0, t.at = "read" => t.row >= 1,
             t.at # "start"
      PROVE  Located'
  BY <1>a DEF Becomes, Located, HasOpen
<1>1. CASE Refuse(p)
  <2>1. Becomes(p, [proc[p] EXCEPT !.at = "raised"])
    BY <1>1, GotoBecomes DEF Refuse, Stage
  <2>2. [proc[p] EXCEPT !.at = "raised"].at = "raised"
    BY <1>0 DEF Attempt
  <2>3. TypeOK'
    BY <1>1, <2>1, <2>2, BecomesTyped DEF Refuse, TypeOK, cvars, dbVars, diskVars, faultVars
  <2> QED BY <1>a, <2>1, <2>2, <2>3 DEF Working
<1>2. CASE Start(p)
  <2> DEFINE t == [proc[p] EXCEPT !.at = "next", !.src = 1, !.seen = run[p[1]].complete]
  <2>1. Becomes(p, t)
    BY <1>2, StartBecomes
  <2>2. t.at = "next" /\ t.src = 1 /\ t.row = proc[p].row
    BY <1>0 DEF Attempt
  <2>3. run' \in [Jobs -> Status]
    BY <1>0, <1>2 DEF Start, TypeOK, Status, RunStatus
  <2>4. TypeOK'
    BY <1>2, <2>1, <2>2, <2>3, BecomesTyped DEF Start, TypeOK, Status, cvars, diskVars, faultVars
  <2>5. t.row = 0
    BY <1>2, <2>2 DEF Start, Located, NoProc
  <2>6. t.src \in 1..Len(Sources) + 1
    BY <1>0, <2>2
  <2> HIDE DEF t
  <2> QED BY <2>6, <1>0, <1>a, <2>1, <2>2, <2>4, <2>5 DEF Working
<1>3. CASE Skip(p)
  <2> DEFINE t == [proc[p] EXCEPT !.src = proc[p].src + 1,
                         !.left = LeftAfter(p, proc[p].src + 1),
                         !.capped = @ \/ proc[p].src \in Establishments]
  <2>1. Becomes(p, t)
    BY <1>3, SkipBecomes
  <2>2. t.at = "next" /\ t.src = proc[p].src + 1 /\ t.row = proc[p].row
    BY <1>0, <1>3 DEF Attempt, Skip
  <2>3. proc[p].src \in DOMAIN Sources /\ proc[p].row = 0
    BY <1>0, <1>3, FilesAre DEF Skip, Located
  <2>4. TypeOK'
    BY <1>3, <2>1, <2>2, BecomesTyped DEF Skip, TypeOK, cvars, dbVars, diskVars, faultVars
  <2>5. t.src \in 1..Len(Sources) + 1
    BY <1>0, <2>2, <2>3
  <2> HIDE DEF t
  <2> QED BY <1>a, <2>1, <2>2, <2>3, <2>4, <2>5
<1>4. CASE Open(p)
  <2>1. CASE flock = None /\ disk[<<p[1], proc[p].src>>] = "absent"
    <3> DEFINE t == [proc[p] EXCEPT !.at = "download"]
    <3>1. Becomes(p, t)
      BY <1>4, <2>1, GotoBecomes DEF Open, Stage
    <3>2. t.at = "download" /\ t.src = proc[p].src /\ t.row = proc[p].row
      BY <1>0 DEF Attempt
    <3>3. proc[p].src \in DOMAIN Sources /\ proc[p].row = 0
      BY <1>0, <1>4, FilesAre DEF Open, Located
    <3>4. flock' \in Procs \cup {None} /\ disk' \in [Jobs \X DOMAIN Sources -> {"absent", "empty", "zip"}]
      BY <1>4, <2>1 DEF Open, TypeOK
    <3>5. TypeOK'
      BY <1>4, <2>1, <3>1, <3>2, <3>4, BecomesTyped DEF Open, TypeOK, cvars, dbVars, faultVars
    <3> HIDE DEF t
    <3> QED BY <1>0, <1>a, <3>1, <3>2, <3>3, <3>5
  <2>2. CASE ~ (flock = None /\ disk[<<p[1], proc[p].src>>] = "absent")
    <3> DEFINE t == [NoProc EXCEPT !.at = "failing", !.seen = proc[p].seen]
    <3>1. Becomes(p, t)
      BY <1>4, <2>2, LeavingBecomes DEF Open, Stage
    <3>2. t.at = "failing"
      BY DEF NoProc
    <3>3. TypeOK'
      BY <1>4, <2>2, <3>1, <3>2, BecomesTyped DEF Open, TypeOK, cvars, dbVars, diskVars, faultVars
    <3> HIDE DEF t
    <3> QED BY <1>a, <3>1, <3>2, <3>3 DEF Working
  <2> QED BY <2>1, <2>2
<1>5. CASE Fetch(p)
  <2> DEFINE t == [proc[p] EXCEPT !.at = "read", !.row = 1]
  <2>1. Becomes(p, t)
    BY <1>5, FetchBecomes
  <2>2. t.at = "read" /\ t.src = proc[p].src /\ t.row = 1
    BY <1>0 DEF Attempt
  <2>3. proc[p].src \in DOMAIN Sources
    BY <1>5 DEF Fetch, Located, HasOpen
  <2>4. disk' \in [Jobs \X DOMAIN Sources -> {"absent", "empty", "zip"}]
    BY <1>5 DEF Fetch, TypeOK
  <2>5. TypeOK'
    BY <1>5, <2>1, <2>2, <2>4, BecomesTyped DEF Fetch, TypeOK, cvars, dbVars, faultVars
  <2> HIDE DEF t
  <2> QED BY <1>0, <1>a, <2>1, <2>2, <2>3, <2>5
<1>6. CASE SourceFails(p)
  <2> DEFINE t == [NoProc EXCEPT !.at = "failing", !.seen = proc[p].seen]
  <2>1. Becomes(p, t)
    BY <1>6, LeavingBecomes DEF SourceFails, Stage
  <2>2. t.at = "failing"
    BY DEF NoProc
  <2>3. flock' \in Procs \cup {None} /\ disk' \in [Jobs \X DOMAIN Sources -> {"absent", "empty", "zip"}]
    BY <1>6 DEF SourceFails, Dispose, TypeOK
  <2>4. TypeOK'
    BY <1>6, <2>1, <2>2, <2>3, BecomesTyped DEF SourceFails, TypeOK, cvars, dbVars, faultVars
  <2> HIDE DEF t
  <2> QED BY <1>a, <2>1, <2>2, <2>4 DEF Working
<1>7. CASE Ingest(p)
  <2> DEFINE t == [proc[p] EXCEPT !.row = proc[p].row + 1, !.matches = proc[p].matches + 1,
                                  !.capped = AtLimit(p[1], proc[p].matches + 1)]
  <2>1. Becomes(p, t)
    BY <1>7, IngestBecomes
  <2>2. t.at = "read" /\ t.src = proc[p].src /\ t.row = proc[p].row + 1
    BY <1>0, <1>7 DEF Attempt, Ingest, Reading
  <2>3. proc[p].src \in DOMAIN Sources /\ proc[p].row \in Nat /\ proc[p].row >= 1
    BY <1>0, <1>7 DEF Ingest, Reading, Located, HasOpen, Attempt
  <2>4. <<proc[p].src, proc[p].row>> \in Rows
    BY <1>7, <2>3, FilesAre DEF Ingest, Reading, Rows
  <2>5. results' \in [Jobs -> SUBSET Rows]
    BY <1>0, <1>7, <2>4 DEF Ingest, TypeOK
  <2> HIDE DEF t
  <2>6. UNCHANGED <<cvars, limit, plan, run, coverage, diskVars, faultVars>>
        /\ proc[p].at = "read"
    BY <1>7 DEF Ingest, Reading
  <2>7. TypeOK'
    BY <2>1, <2>2, <2>5, <2>6, BecomesTyped DEF TypeOK, cvars, diskVars, faultVars
  <2> QED BY <1>0, <1>a, <2>1, <2>2, <2>3, <2>7
<1>8. CASE Close(p)
  <2>1. proc[p].src \in DOMAIN Sources
    BY <1>8 DEF Close, Located, HasOpen
  <2>2. PICK left \in SUBSET Complements :
             Becomes(p, [proc[p] EXCEPT !.at = "next", !.src = proc[p].src + 1, !.row = 0,
                                        !.left = left])
    BY <1>8, <2>1, CloseBecomes
  <2> DEFINE t == [proc[p] EXCEPT !.at = "next", !.src = proc[p].src + 1, !.row = 0,
                                  !.left = left]
  <2>3. t.at = "next" /\ t.src = proc[p].src + 1 /\ t.row = 0
    BY <1>0 DEF Attempt
  <2>4. flock' \in Procs \cup {None} /\ disk' \in [Jobs \X DOMAIN Sources -> {"absent", "empty", "zip"}]
    BY <1>8 DEF Close, Dispose, TypeOK
  <2>5. Becomes(p, t) /\ t.src \in 1..Len(Sources) + 1
    BY <1>0, <2>1, <2>2, <2>3
  <2>6. TypeOK'
    BY <1>8, <2>5, <2>3, <2>4, BecomesTyped DEF Close, TypeOK, cvars, dbVars, faultVars
  <2> HIDE DEF t
  <2> QED BY <1>a, <2>3, <2>5, <2>6
<1>9. CASE SaveFailed(p)
  <2> DEFINE t == [NoProc EXCEPT !.at = "raised", !.seen = "none"]
  <2>1. Becomes(p, t)
    BY <1>9, LeavingBecomes DEF SaveFailed, Stage
  <2>2. t.at = "raised"
    BY DEF NoProc
  <2>3. run' \in [Jobs -> Status]
    BY <1>0, <1>9 DEF SaveFailed, TypeOK, Status, RunStatus, Final, Attempt
  <2>4. TypeOK'
    BY <1>9, <2>1, <2>2, <2>3, BecomesTyped DEF SaveFailed, TypeOK, Status, cvars, diskVars, faultVars
  <2> HIDE DEF t
  <2> QED BY <1>a, <2>1, <2>2, <2>4 DEF Working
<1>10. CASE Finish(p)
  <2> DEFINE at == IF Partial(p) THEN "returned" ELSE "cover"
             t == [NoProc EXCEPT !.at = at, !.seen = "none"]
  <2>1. at \in Stage /\ at # "failing"
    BY DEF Stage
  <2>2. Becomes(p, t)
    BY <1>10, <2>1, LeavingBecomes DEF Finish
  <2>3. t.at \in {"returned", "cover"}
    BY DEF NoProc
  <2>4. run' \in [Jobs -> Status]
    BY <1>0, <1>10 DEF Finish, TypeOK, Status, RunStatus, Final
  <2>5. TypeOK'
    BY <1>10, <2>2, <2>3, <2>4, BecomesTyped DEF Finish, TypeOK, Status, cvars, diskVars, faultVars
  <2> HIDE DEF t
  <2> QED BY <1>a, <2>2, <2>3, <2>5 DEF Working
<1>11. CASE RecordCoverage(p)
  <2>1. PICK at \in {"returned", "raised"} : Leaving(p, at)
    BY <1>11 DEF RecordCoverage
  <2> DEFINE t == [NoProc EXCEPT !.at = at, !.seen = "none"]
  <2>2. Becomes(p, t)
    BY <2>1, LeavingBecomes DEF Stage
  <2>3. t.at \in {"returned", "raised"}
    BY DEF NoProc
  <2>4. TypeOK'
    BY <1>0, <1>11, <2>2, <2>3, BecomesTyped DEF RecordCoverage, TypeOK, cvars, diskVars, faultVars
  <2> HIDE DEF t
  <2> QED BY <1>a, <2>2, <2>3, <2>4 DEF Working
<1> QED BY <1>1, <1>2, <1>3, <1>4, <1>5, <1>6, <1>7, <1>8, <1>9, <1>10, <1>11 DEF Handler

(* A claim makes a new attempt of j, the first of its number. *)
LEMMA TakeBecomes ==
    ASSUME TypeOK, NEW j \in Jobs, Take(j)
    PROVE  /\ <<j, current[j] + 1>> \in Procs /\ current[j] + 1 \in 1..MaxRuns
           /\ current[j] + 1 \notin live[j]
           /\ Becomes(<<j, current[j] + 1>>, [NoProc EXCEPT !.at = "start"])
<1>1. current[j] \in Nat /\ current[j] + 1 \in 1..MaxRuns
  BY DiscoverAssumption DEF Take, TypeOK
<1>2. <<j, current[j] + 1>> \in Procs
  BY <1>1 DEF Procs
<1>3. proc' = [proc EXCEPT ![<<j, current[j] + 1>>] = [NoProc EXCEPT !.at = "start"]]
  BY DEF Take
<1>4. [NoProc EXCEPT !.at = "start"] \in Attempt
  BY NoProcTyped DEF Stage
<1>5. current[j] + 1 \notin live[j]
  BY <1>1 DEF TypeOK
<1> QED BY <1>1, <1>2, <1>3, <1>4, <1>5, ProcSet

(* The steps of the views and of the queue are typed. *)
LEMMA ViewsTyped ==
    ASSUME TypeOK, NEW j \in Jobs, Plan(j) \/ Request(j) \/ Serve(j) \/ Cancel(j)
    PROVE  TypeOK'
<1>1. CASE Plan(j)
  <2>1. plan' \in [Jobs -> Jobs \cup {None, "collect"}]
    BY <1>1 DEF Plan, TypeOK, Covered
  <2>2. limit' \in [Jobs -> Nat]
    <3>1. PICK n \in Limits[j] : limit' = [limit EXCEPT ![j] = n]
      BY <1>1 DEF Plan
    <3>2. Limits[j] \subseteq Nat
      BY DiscoverAssumption
    <3> QED BY <3>1, <3>2 DEF TypeOK
  <2> QED BY <1>1, <2>1, <2>2 DEF Plan, TypeOK, cvars, diskVars, faultVars
<1>2. CASE Request(j)
  <2>1. run' \in [Jobs -> Status]
    BY <1>2 DEF Request, TypeOK, Status, RunStatus
  <2>2. phase' \in [Jobs -> {"absent", "queued", "running", "succeeded", "failed", "cancelled"}]
    BY <1>2 DEF Request, Submit, TypeOK
  <2> QED BY <1>2, <2>1, <2>2 DEF Request, Submit, TypeOK, Status, diskVars, faultVars
<1>3. CASE Serve(j)
  <2>1. PICK S \in SUBSET results[plan[j]] :
         LET cut == Cardinality(results[plan[j]]) > limit[j] IN
         /\ IF cut THEN Cardinality(S) = limit[j] ELSE S = results[plan[j]]
         /\ results' = [results EXCEPT ![j] = S]
         /\ run' = [run EXCEPT ![j] = IF cut THEN [status |-> "PARTIAL", complete |-> "no"]
                                      ELSE [status |-> "SUCCEEDED", complete |-> "yes"]]
    BY <1>3 DEF Serve
  <2>2. run' \in [Jobs -> Status]
    BY <2>1 DEF TypeOK, Status, RunStatus, Final
  <2>3. results' \in [Jobs -> SUBSET Rows]
    BY <1>3, <2>1 DEF Serve, TypeOK
  <2> QED BY <1>3, <2>2, <2>3 DEF Serve, TypeOK, Status, cvars, diskVars, faultVars
<1>4. CASE Cancel(j)
  BY <1>4 DEF Cancel, Withdraw, TypeOK, dbVars, diskVars, faultVars
<1> QED BY <1>1, <1>2, <1>3, <1>4

(* So are a claim, a cleanup, and the end of an attempt by its verdict or its death. *)
LEMMA QueueTyped ==
    ASSUME TypeOK, Located,
           \/ \E j \in Jobs : Take(j)
           \/ \E p \in Procs : Report(p) \/ Crash(p)
           \/ Cleanup
    PROVE  TypeOK' /\ Located'
<1>1. ASSUME NEW j \in Jobs, Take(j) PROVE TypeOK' /\ Located'
  <2> DEFINE n == current[j] + 1
             t == [NoProc EXCEPT !.at = "start"]
  <2>1. <<j, n>> \in Procs /\ n \in 1..MaxRuns /\ n \notin live[j] /\ Becomes(<<j, n>>, t)
    BY <1>1, TakeBecomes
  <2>2. PICK lapsed \in SUBSET Jobs : Begin(j, lapsed)
    BY <1>1 DEF Take, Lapsed
  <2>3. current' \in [Jobs -> 0..MaxRuns] /\ current[j] \in Nat
        /\ current' = [current EXCEPT ![j] = n] /\ live' = [live EXCEPT ![j] = live[j] \cup {n}]
    BY <2>1, <2>2 DEF Begin, TypeOK
  <2>4. live' \in [Jobs -> SUBSET (1..MaxRuns)] /\ \A k \in Jobs : live'[k] \subseteq 1..current'[k]
    BY <2>1, <2>3 DEF TypeOK
  <2>5. phase' \in [Jobs -> {"absent", "queued", "running", "succeeded", "failed", "cancelled"}]
    BY <2>2 DEF Begin, TypeOK
  <2>6. \A q \in Procs : proc'[q].at # "gone" <=> q[2] \in live'[q[1]]
    <3> SUFFICES ASSUME NEW q \in Procs PROVE proc'[q].at # "gone" <=> q[2] \in live'[q[1]]
      OBVIOUS
    <3>1. CASE q = <<j, n>>
      BY <2>1, <2>3, <3>1 DEF Becomes, NoProc, TypeOK
    <3>2. CASE q # <<j, n>>
      <4>1. q[1] # j \/ q[2] # n
        BY <3>2, ProcsAre
      <4>2. q[2] \in live'[q[1]] <=> q[2] \in live[q[1]]
        BY <2>3, <4>1, ProcsAre DEF TypeOK
      <4> QED BY <2>1, <3>2, <4>2 DEF Becomes, TypeOK
    <3> QED BY <3>1, <3>2
  <2>7. overtaken' \subseteq Jobs
    BY <1>1 DEF Take, TypeOK
  <2>8. UNCHANGED <<dbVars, diskVars, crashes>>
    BY <1>1 DEF Take
  <2>9. TypeOK'
    BY <2>1, <2>3, <2>4, <2>5, <2>6, <2>7, <2>8 DEF TypeOK, Becomes, dbVars, diskVars
  <2>10. t.at = "start"
    BY DEF NoProc
  <2>11. Located'
    BY <2>1, <2>10 DEF Located, Becomes, HasOpen, Working
  <2> QED BY <2>9, <2>11
<1>2. ASSUME NEW p \in Procs, Report(p) \/ Crash(p) PROVE TypeOK' /\ Located'
  <2>1. Becomes(p, NoProc) /\ NoProc.at = "gone"
    BY <1>2, LeaveBecomes DEF Report, Crash, NoProc
  <2>2. /\ live' = [live EXCEPT ![p[1]] = live[p[1]] \ {p[2]}] /\ current' = current
        /\ phase' \in [Jobs -> {"absent", "queued", "running", "succeeded", "failed", "cancelled"}]
    BY <1>2, ProcsAre DEF Report, Crash, Vanish, Conclude, TypeOK
  <2>3. live' \in [Jobs -> SUBSET (1..MaxRuns)] /\ \A k \in Jobs : live'[k] \subseteq 1..current'[k]
    BY <2>2, ProcsAre DEF TypeOK
  <2>4. \A q \in Procs : proc'[q].at # "gone" <=> q[2] \in live'[q[1]]
    <3> SUFFICES ASSUME NEW q \in Procs PROVE proc'[q].at # "gone" <=> q[2] \in live'[q[1]]
      OBVIOUS
    <3>1. CASE q = p
      BY <2>1, <2>2, <3>1, ProcsAre DEF Becomes, TypeOK
    <3>2. CASE q # p
      <4>1. q[1] # p[1] \/ q[2] # p[2]
        BY <3>2, ProcsAre
      <4>2. q[2] \in live'[q[1]] <=> q[2] \in live[q[1]]
        BY <2>2, <4>1, ProcsAre DEF TypeOK
      <4> QED BY <2>1, <3>2, <4>2 DEF Becomes, TypeOK
    <3> QED BY <3>1, <3>2
  <2>5. /\ disk' \in [Jobs \X DOMAIN Sources -> {"absent", "empty", "zip"}]
        /\ flock' \in Procs \cup {None}
        /\ overtaken' = overtaken /\ crashes' \in 0..MaxCrashes
        /\ UNCHANGED dbVars
    <3>1. CASE Report(p)
      BY <3>1 DEF Report, TypeOK, diskVars, faultVars
    <3>2. CASE Crash(p)
      <4>1. disk' \in [Jobs \X DOMAIN Sources -> {"absent", "empty", "zip"}]
        BY <3>2 DEF Crash, TypeOK
      <4>2. crashes' \in 0..MaxCrashes
        BY <3>2, DiscoverAssumption DEF Crash, TypeOK
      <4> QED BY <3>2, <4>1, <4>2 DEF Crash, TypeOK
    <3> QED BY <1>2, <3>1, <3>2
  <2>6. TypeOK'
    BY <2>1, <2>2, <2>3, <2>4, <2>5 DEF TypeOK, Becomes, dbVars
  <2>7. Located'
    BY <2>1 DEF Located, Becomes, HasOpen, Working
  <2> QED BY <2>6, <2>7
<1>3. CASE Cleanup
  <2>1. disk' \in [Jobs \X DOMAIN Sources -> {"absent", "empty", "zip"}]
    BY <1>3 DEF Cleanup, TypeOK
  <2>2. TypeOK'
    BY <1>3, <2>1 DEF Cleanup, TypeOK, cvars, dbVars, faultVars
  <2> QED BY <1>3, <2>2 DEF Cleanup, Located, HasOpen
<1> QED BY <1>1, <1>2, <1>3

-----------------------------------------------------------------------------
(* What was asked. *)

(* An attempt that is there belongs to a job that was submitted, with a run. *)
LEMMA LiveWasAsked ==
    ASSUME TypeOK, Asked, NEW p \in Procs, proc[p].at # "gone"
    PROVE  /\ p[1] \in Jobs /\ live[p[1]] # {} /\ phase[p[1]] # "absent"
           /\ plan[p[1]] = "collect" /\ run[p[1]].status # "NONE"
BY ProcsAre DEF TypeOK, Asked

(* A handler writes to the run of its own job only. *)
LEMMA HandlerEffect ==
    ASSUME TypeOK, NEW p \in Procs, Handler(p)
    PROVE  /\ UNCHANGED <<cvars, limit, plan, faultVars>>
           /\ proc[p].at # "gone"
           /\ \A j \in Jobs : /\ run'[j] = run[j] \/ (j = p[1] /\ run'[j].status # "NONE")
                              /\ results[j] \subseteq results'[j]
                              /\ results'[j] = results[j] \/ j = p[1]
           /\ coverage' = coverage \/ coverage' = p[1]
<1>0. p[1] \in Jobs /\ run \in [Jobs -> Status] /\ results \in [Jobs -> SUBSET Rows]
  BY ProcsAre DEF TypeOK, Status
<1>1. CASE Refuse(p) \/ Skip(p) \/ Open(p) \/ Fetch(p) \/ SourceFails(p) \/ Close(p)
  BY <1>1 DEF Refuse, Skip, Open, Fetch, SourceFails, Close, dbVars
<1>2. CASE Start(p)
  BY <1>0, <1>2 DEF Start, Status
<1>3. CASE Ingest(p)
  BY <1>0, <1>3 DEF Ingest, Reading
<1>4. CASE SaveFailed(p)
  BY <1>0, <1>4 DEF SaveFailed, Status
<1>5. CASE Finish(p)
  BY <1>0, <1>5 DEF Finish, Status
<1>6. CASE RecordCoverage(p)
  BY <1>6 DEF RecordCoverage
<1> QED BY <1>1, <1>2, <1>3, <1>4, <1>5, <1>6 DEF Handler

(* A step of the queue begins, ends or withdraws attempts of jobs that were submitted. *)
LEMMA QueueEffect ==
    ASSUME TypeOK,
           \/ \E j \in Jobs : Take(j) \/ Cancel(j)
           \/ \E p \in Procs : Report(p) \/ Crash(p)
           \/ Cleanup
    PROVE  /\ UNCHANGED dbVars
           /\ \A j \in Jobs : /\ phase[j] = "absent" <=> phase'[j] = "absent"
                              /\ live'[j] # {} => live[j] # {} \/ phase[j] # "absent"
<1> DEFINE Effect == \A j \in Jobs : /\ phase[j] = "absent" <=> phase'[j] = "absent"
                                     /\ live'[j] # {} => live[j] # {} \/ phase[j] # "absent"
<1>1. ASSUME NEW j \in Jobs, Take(j) PROVE UNCHANGED dbVars /\ Effect
  <2>1. PICK lapsed \in SUBSET Jobs : Begin(j, lapsed)
    BY <1>1 DEF Take, Lapsed
  <2>2. phase[j] # "absent" /\ \A k \in lapsed : phase[k] # "absent"
    BY <2>1 DEF Begin
  <2>3. \A k \in Jobs : phase[k] = "absent" <=> phase'[k] = "absent"
    BY <2>1, <2>2 DEF Begin, TypeOK
  <2>4. \A k \in Jobs : k # j => live'[k] = live[k]
    BY <2>1 DEF Begin, TypeOK
  <2> QED BY <1>1, <2>2, <2>3, <2>4 DEF Take
<1>2. ASSUME NEW j \in Jobs, Cancel(j) PROVE UNCHANGED dbVars /\ Effect
  BY <1>2 DEF Cancel, Withdraw, TypeOK
<1>3. ASSUME NEW p \in Procs, Report(p) \/ Crash(p) PROVE UNCHANGED dbVars /\ Effect
  <2>1. live' = [live EXCEPT ![p[1]] = live[p[1]] \ {p[2]}]
    BY <1>3, ProcsAre DEF Report, Crash, Vanish, Conclude
  <2>2. \A k \in Jobs : live'[k] # {} => live[k] # {}
    BY <2>1, ProcsAre DEF TypeOK
  <2>3. \A k \in Jobs : phase[k] = "absent" <=> phase'[k] = "absent"
    BY <1>3, ProcsAre DEF Report, Crash, Vanish, Conclude, TypeOK
  <2> QED BY <1>3, <2>2, <2>3 DEF Report, Crash
<1>4. CASE Cleanup
  BY <1>4 DEF Cleanup, cvars
<1> HIDE DEF Effect
<1> QED BY <1>1, <1>2, <1>3, <1>4 DEF Effect

(* Every step keeps it. *)
LEMMA AskedStep ==
    ASSUME TypeOK, Asked, Next
    PROVE  Asked'
<1>1. ASSUME NEW j \in Jobs, Plan(j) PROVE Asked'
  <2>1. \A k \in Jobs : \/ plan'[k] = plan[k]
                        \/ k = j /\ plan'[k] = "collect"
                        \/ k = j /\ plan'[k] = coverage /\ Covered
    BY <1>1 DEF Plan, TypeOK
  <2>2. phase[j] = "absent"
    BY <1>1 DEF Plan, Asked
  <2>3. \A k \in Jobs : run[k].status = "NONE" => \A i \in Jobs : plan'[i] # k
    BY <2>1, DiscoverAssumption DEF Asked, Covered, TypeOK
  <2> QED BY <1>1, <2>1, <2>2, <2>3 DEF Plan, Asked, cvars
<1>2. ASSUME NEW j \in Jobs, Request(j) PROVE Asked'
  <2>1. run'[j].status = "PENDING" /\ \A k \in Jobs : k # j => run'[k] = run[k]
    BY <1>2 DEF Request, TypeOK
  <2>2. \A k \in Jobs : k # j => phase'[k] = phase[k]
    BY <1>2 DEF Request, Submit, TypeOK
  <2>3. phase'[j] # "absent"
    BY <1>2 DEF Request, Submit, TypeOK
  <2> QED BY <1>2, <2>1, <2>2, <2>3 DEF Request, Submit, Asked
<1>3. ASSUME NEW j \in Jobs, Serve(j) PROVE Asked'
  <2>1. run'[j].status # "NONE" /\ \A k \in Jobs : k # j => run'[k] = run[k] /\ results'[k] = results[k]
    BY <1>3 DEF Serve, TypeOK
  <2> QED BY <1>3, <2>1 DEF Serve, Asked, cvars
<1>4. ASSUME NEW p \in Procs, Handler(p) PROVE Asked'
  <2>1. /\ UNCHANGED <<cvars, limit, plan, faultVars>>
        /\ proc[p].at # "gone"
        /\ \A j \in Jobs : /\ run'[j] = run[j] \/ (j = p[1] /\ run'[j].status # "NONE")
                           /\ results'[j] = results[j] \/ j = p[1]
        /\ coverage' = coverage \/ coverage' = p[1]
    BY <1>4, HandlerEffect
  <2>2. p[1] \in Jobs /\ run[p[1]].status # "NONE"
    BY <2>1, LiveWasAsked
  <2>3. run'[p[1]].status # "NONE"
    BY <2>1, <2>2
  <2>4. \A j \in Jobs : j # p[1] => run'[j] = run[j] /\ results'[j] = results[j]
    BY <2>1
  <2> QED BY <2>1, <2>2, <2>3, <2>4 DEF Asked, cvars
<1>5. ASSUME \/ \E j \in Jobs : Take(j) \/ Cancel(j)
             \/ \E p \in Procs : Report(p) \/ Crash(p)
             \/ Cleanup
      PROVE Asked'
  BY <1>5, QueueEffect DEF Asked, dbVars
<1> QED BY <1>1, <1>2, <1>3, <1>4, <1>5 DEF Next

-----------------------------------------------------------------------------
(* Rows in the order of the files. *)

Precedes(x, s, n) == x[1] < s \/ (x[1] = s /\ x[2] < n)
Before(s, n) == {x \in Rows : Precedes(x, s, n)}

(* A row is a number within an establishment file. *)
LEMMA RowsAre ==
    \A x : x \in Rows <=> /\ x = <<x[1], x[2]>> /\ x[1] \in Establishments
                          /\ x[2] \in 1..MatchesIn[x[1]]
BY DEF Rows

(* Its numbers are naturals, within the bounds of files and rows. *)
LEMMA RowNumbers ==
    \A x \in Rows : /\ x = <<x[1], x[2]>> /\ x[1] \in 1..Len(Sources) /\ x[1] \in Nat
                    /\ x[2] \in Nat /\ x[2] >= 1 /\ x[2] <= MatchesIn[x[1]]
<1> SUFFICES ASSUME NEW x \in Rows
             PROVE  /\ x = <<x[1], x[2]>> /\ x[1] \in 1..Len(Sources) /\ x[1] \in Nat
                    /\ x[2] \in Nat /\ x[2] >= 1 /\ x[2] <= MatchesIn[x[1]]
  OBVIOUS
<1>1. x = <<x[1], x[2]>> /\ x[1] \in Establishments /\ x[2] \in 1..MatchesIn[x[1]]
  BY RowsAre
<1>2. x[1] \in 1..Len(Sources) /\ MatchesIn[x[1]] \in Nat /\ Len(Sources) \in Nat
  BY <1>1, FilesAre
<1> QED BY <1>1, <1>2

(* Nothing is before the first file. *)
LEMMA BeforeFirst == Before(1, 0) = {} /\ IsFiniteSet(Before(1, 0)) /\ Cardinality(Before(1, 0)) = 0
<1>1. Before(1, 0) = {}
  BY RowNumbers DEF Before, Precedes
<1> QED BY <1>1, FS_EmptySet

(* After the last file every row is behind. *)
LEMMA BeforeEnd == Before(Len(Sources) + 1, 0) = Rows
BY RowNumbers, FilesAre DEF Before, Precedes

(* Opening a file passes no row. *)
LEMMA BeforeOpen == ASSUME NEW s \in Nat PROVE Before(s, 1) = Before(s, 0)
BY RowNumbers DEF Before, Precedes

(* The rows before the next file are those met when a file is left. *)
LEMMA BeforeNext ==
    ASSUME NEW s \in DOMAIN Sources, NEW n \in Nat,
           s \in Establishments => n > MatchesIn[s]
    PROVE  Before(s + 1, 0) = Before(s, n)
<1>1. s \in Nat /\ MatchesIn[s] \in Nat
  BY FilesAre
<1>2. \A x \in Rows : x[1] = s => x[2] < n
  <2> SUFFICES ASSUME NEW x \in Rows, x[1] = s PROVE x[2] < n
    OBVIOUS
  <2>1. s \in Establishments
    BY RowsAre
  <2> QED BY <1>1, <2>1, RowNumbers
<1> QED BY <1>1, <1>2, RowNumbers DEF Before, Precedes

(* A row is the next after those before it. *)
LEMMA BeforeRow ==
    ASSUME NEW s \in Nat, NEW n \in Nat, <<s, n>> \in Rows
    PROVE  /\ Before(s, n + 1) = Before(s, n) \cup {<<s, n>>}
           /\ <<s, n>> \notin Before(s, n)
<1>1. \A x \in Rows : x[1] = s /\ x[2] = n <=> x = <<s, n>>
  BY RowNumbers
<1> QED BY <1>1, RowNumbers DEF Before, Precedes

-----------------------------------------------------------------------------
(* What was put in, against what was asked. *)

\* An attempt below its limit has put in all rows before the one it is at, and has
\* counted them; at the limit it opens no other establishment file.
CountsOf(p) ==
    LET r == proc[p]
        met == Before(r.src, r.row) IN
    r.at \in Working =>
      /\ r.capped => r.matches >= limit[p[1]]
      /\ ~ r.capped => /\ met \subseteq results[p[1]]
                       /\ IsFiniteSet(met) /\ Cardinality(met) = r.matches
                       /\ HasOpen(p) /\ r.src \in Establishments => r.matches < limit[p[1]]
Counts == \A p \in Procs : CountsOf(p)

\* The rows of a job are the first ones, in the order of its attempts.
InOrder ==
    \A j \in Jobs : plan[j] = "collect" =>
        \A x \in results[j], y \in Rows : Precedes(y, x[1], x[2]) => y \in results[j]

Within == \A j \in Jobs : IsFiniteSet(results[j]) /\ Cardinality(results[j]) <= limit[j]

(* An attempt that does nothing keeps its count, whatever is put in by others. *)
LEMMA CountsKept ==
    ASSUME Counts, NEW q \in Procs, proc'[q] = proc[q],
           proc[q].at \in Working => /\ results[q[1]] \subseteq results'[q[1]]
                                     /\ limit'[q[1]] = limit[q[1]]
    PROVE  CountsOf(q)'
BY DEF Counts, CountsOf, HasOpen

(* The count of a handler's step, and of those that do nothing meanwhile. *)
LEMMA HandlerCounts ==
    ASSUME TypeOK, Counts, NEW p \in Procs, Handler(p), NEW t, Becomes(p, t), CountsOf(p)'
    PROVE  Counts'
<1>1. /\ UNCHANGED limit
      /\ \A j \in Jobs : results[j] \subseteq results'[j]
  BY HandlerEffect
<1>2. ASSUME NEW q \in Procs, q # p PROVE CountsOf(q)'
  BY <1>1, <1>2, CountsKept, ProcsAre DEF Becomes
<1> QED BY <1>2 DEF Counts

(* An attempt outside the loop counts nothing. *)
LEMMA OutsideCounts ==
    ASSUME NEW p \in Procs, NEW t, Becomes(p, t), t.at \notin Working
    PROVE  CountsOf(p)'
BY DEF Becomes, CountsOf

(* A row is put in: it is the next one, or it was there. *)
LEMMA IngestCounts ==
    ASSUME TypeOK, Located, Counts, InOrder, Within, Asked, NEW p \in Procs, Ingest(p)
    PROVE  Counts' /\ InOrder' /\ Within'
<1> DEFINE r == proc[p]
           j == p[1]
           x == <<r.src, r.row>>
           met == Before(r.src, r.row)
           t == [proc[p] EXCEPT !.row = r.row + 1, !.matches = r.matches + 1,
                                !.capped = AtLimit(j, r.matches + 1)]
<1>1. /\ r \in Attempt /\ r.at = "read" /\ r.src \in Establishments
      /\ r.row <= MatchesIn[r.src] /\ ~ r.capped
      /\ results' = [results EXCEPT ![j] = @ \cup {x}]
  BY DEF Ingest, Reading, TypeOK
<1>2. /\ j \in Jobs /\ plan[j] = "collect" /\ r.row \in Nat /\ r.row >= 1 /\ r.src \in Nat
      /\ r.matches \in Nat /\ limit[j] \in Nat /\ results[j] \subseteq Rows
  <2>1. r.row >= 1 /\ r.row \in Nat /\ r.src \in 0..Len(Sources) + 1 /\ r.matches \in Nat
    BY <1>1 DEF Located, Attempt
  <2>2. r.src \in Nat
    BY <2>1, FilesAre
  <2> QED BY <1>1, <2>1, <2>2, LiveWasAsked DEF TypeOK
<1>3. x \in Rows
  <2>1. r.row \in 1..MatchesIn[r.src]
    BY <1>1, <1>2, FilesAre
  <2> QED BY <1>1, <2>1 DEF Rows
<1>4. /\ met \subseteq results[j] /\ IsFiniteSet(met) /\ Cardinality(met) = r.matches
      /\ r.matches < limit[j]
  BY <1>1 DEF Counts, CountsOf, Working, HasOpen
<1>5. Before(r.src, r.row + 1) = met \cup {x} /\ x \notin met
  BY <1>2, <1>3, BeforeRow
<1>6. IsFiniteSet(met \cup {x}) /\ Cardinality(met \cup {x}) = r.matches + 1
  BY <1>4, <1>5, FS_AddElement
<1>7. results'[j] = results[j] \cup {x} /\ \A k \in Jobs : k # j => results'[k] = results[k]
  BY <1>1, <1>2 DEF TypeOK
<1>8. Becomes(p, t)
  BY IngestBecomes
<1>9. Counts'
  <2>1. /\ t.at = "read" /\ t.src = r.src /\ t.row = r.row + 1 /\ t.matches = r.matches + 1
        /\ t.capped = AtLimit(j, r.matches + 1)
    BY <1>1 DEF Attempt
  <2>2. limit' = limit /\ proc'[p] = t
    BY <1>8 DEF Ingest, Becomes
  <2> HIDE DEF t
  <2>3. CountsOf(p)'
    <3>1. t.capped <=> t.matches >= limit'[j]
      BY <2>1, <2>2 DEF AtLimit
    <3>2. Before(t.src, t.row) = met \cup {x}
      BY <1>5, <2>1
    <3>3. Before(t.src, t.row) \subseteq results'[j]
      BY <1>4, <1>7, <3>2
    <3>4. IsFiniteSet(Before(t.src, t.row)) /\ Cardinality(Before(t.src, t.row)) = t.matches
      BY <1>6, <2>1, <3>2
    <3>5. t.matches < limit'[j] <=> ~ t.capped
      BY <1>2, <2>1, <2>2, <3>1
    <3> HIDE DEF met, x
    <3> QED BY <2>2, <3>1, <3>3, <3>4, <3>5 DEF CountsOf
  <2>4. Handler(p)
    BY DEF Handler
  <2> QED BY <1>8, <2>3, <2>4, HandlerCounts
<1>10. InOrder'
  <2>1. plan' = plan
    BY DEF Ingest
  <2>2. \A y \in Rows : Precedes(y, r.src, r.row) => y \in results[j]
    BY <1>4 DEF Before
  <2> QED BY <1>2, <1>7, <2>1, <2>2 DEF InOrder
<1>11. Within'
  <2>1. limit' = limit
    BY DEF Ingest
  <2>2. CASE x \in results[j]
    <3>1. \A k \in Jobs : results'[k] = results[k]
      BY <1>7, <2>2
    <3> QED BY <2>1, <3>1 DEF Within
  <2>3. CASE x \notin results[j]
    <3>1. \A z \in results[j] : Precedes(z, r.src, r.row)
      <4> SUFFICES ASSUME NEW z \in results[j], ~ Precedes(z, r.src, r.row) PROVE FALSE
        OBVIOUS
      <4>1. z \in Rows /\ z # x
        BY <1>2, <2>3
      <4>2. Precedes(x, z[1], z[2])
        BY <1>2, <4>1, RowNumbers DEF Precedes
      <4> QED BY <1>2, <1>3, <2>3, <4>2 DEF InOrder
    <3>2. results[j] = met
      BY <1>2, <1>4, <3>1 DEF Before
    <3>3. IsFiniteSet(results'[j]) /\ Cardinality(results'[j]) = r.matches + 1
      BY <1>6, <1>7, <3>2
    <3>4. r.matches + 1 <= limit[j]
      BY <1>2, <1>4
    <3> QED BY <1>2, <1>7, <2>1, <3>3, <3>4 DEF Within
  <2> QED BY <2>2, <2>3
<1> QED BY <1>9, <1>10, <1>11

(* Every other step of a handler keeps the counts. *)
LEMMA LoopCounts ==
    ASSUME TypeOK, Located, Counts, NEW p \in Procs, Handler(p), ~ Ingest(p)
    PROVE  Counts'
<1>0. /\ proc[p] \in Attempt /\ p[1] \in Jobs /\ limit' = limit
      /\ \A j \in Jobs : results[j] \subseteq results'[j]
  BY HandlerEffect, ProcsAre DEF TypeOK
<1>a. ASSUME NEW t, Becomes(p, t), t.at \notin Working PROVE Counts'
  BY <1>a, HandlerCounts, OutsideCounts
<1>1. CASE Refuse(p)
  <2> DEFINE t == [proc[p] EXCEPT !.at = "raised"]
  <2>1. Becomes(p, t)
    BY <1>1, GotoBecomes DEF Refuse, Stage
  <2>2. t.at = "raised"
    BY <1>0 DEF Attempt
  <2> HIDE DEF t
  <2> QED BY <1>a, <2>1, <2>2 DEF Working
<1>2. CASE Start(p)
  <2> DEFINE t == [proc[p] EXCEPT !.at = "next", !.src = 1, !.seen = run[p[1]].complete]
  <2>1. Becomes(p, t)
    BY <1>2, StartBecomes
  <2>2. t.at = "next" /\ t.src = 1 /\ t.row = 0 /\ t.matches = 0 /\ t.capped = FALSE
    BY <1>0, <1>2 DEF Attempt, Start, Located, NoProc
  <2> HIDE DEF t
  <2>3. CountsOf(p)'
    BY <2>1, <2>2, BeforeFirst DEF Becomes, CountsOf, HasOpen
  <2> QED BY <2>1, <2>3, HandlerCounts
<1>3. CASE Skip(p)
  <2> DEFINE r == proc[p]
             t == [proc[p] EXCEPT !.src = proc[p].src + 1,
                         !.left = LeftAfter(p, proc[p].src + 1),
                         !.capped = @ \/ proc[p].src \in Establishments]
  <2>1. Becomes(p, t)
    BY <1>3, SkipBecomes
  <2>2. /\ t.at = "next" /\ t.src = r.src + 1 /\ t.row = 0 /\ t.matches = r.matches
        /\ t.capped = (r.capped \/ r.src \in Establishments)
    BY <1>0, <1>3 DEF Attempt, Skip, Located
  <2>3. r.src \in DOMAIN Sources /\ r.row = 0 /\ r.at = "next"
    BY <1>0, <1>3, FilesAre DEF Skip, Located
  <2>4. r.src \in Establishments => r.matches >= limit[p[1]]
    BY <1>3, <2>3 DEF Skip, Wanted, AtLimit, Establishments
  <2>5. r.src \notin Establishments => Before(r.src + 1, 0) = Before(r.src, 0)
    BY <2>3, BeforeNext
  <2>6. /\ r.capped => r.matches >= limit[p[1]]
        /\ ~ r.capped => /\ Before(r.src, 0) \subseteq results[p[1]]
                         /\ IsFiniteSet(Before(r.src, 0))
                         /\ Cardinality(Before(r.src, 0)) = r.matches
    BY <2>3 DEF Counts, CountsOf, Working
  <2> HIDE DEF t
  <2>7. CountsOf(p)'
    BY <1>0, <2>1, <2>2, <2>4, <2>5, <2>6 DEF Becomes, CountsOf, HasOpen
  <2> QED BY <2>1, <2>7, HandlerCounts
<1>4. CASE Open(p)
  <2>1. CASE flock = None /\ disk[<<p[1], proc[p].src>>] = "absent"
    <3> DEFINE r == proc[p]
               t == [proc[p] EXCEPT !.at = "download"]
    <3>1. Becomes(p, t)
      BY <1>4, <2>1, GotoBecomes DEF Open, Stage
    <3>2. /\ t.at = "download" /\ t.src = r.src /\ t.row = r.row
          /\ t.matches = r.matches /\ t.capped = r.capped
      BY <1>0 DEF Attempt
    <3>3. r.src \in Establishments => r.matches < limit[p[1]]
      BY <1>0, <1>4 DEF Open, Wanted, AtLimit, Establishments, Attempt, TypeOK
    <3>4. r.at = "next"
      BY <1>4 DEF Open
    <3> HIDE DEF t
    <3>5. CountsOf(p)'
      BY <1>0, <3>1, <3>2, <3>3, <3>4 DEF Becomes, Counts, CountsOf, HasOpen, Working
    <3> QED BY <3>1, <3>5, HandlerCounts
  <2>2. CASE ~ (flock = None /\ disk[<<p[1], proc[p].src>>] = "absent")
    <3> DEFINE t == [NoProc EXCEPT !.at = "failing", !.seen = proc[p].seen]
    <3>1. Becomes(p, t)
      BY <1>4, <2>2, LeavingBecomes DEF Open, Stage
    <3>2. t.at = "failing"
      BY DEF NoProc
    <3> HIDE DEF t
    <3> QED BY <1>a, <3>1, <3>2 DEF Working
  <2> QED BY <2>1, <2>2
<1>5. CASE Fetch(p)
  <2> DEFINE r == proc[p]
             t == [proc[p] EXCEPT !.at = "read", !.row = 1]
  <2>1. Becomes(p, t)
    BY <1>5, FetchBecomes
  <2>2. /\ t.at = "read" /\ t.src = r.src /\ t.row = 1
        /\ t.matches = r.matches /\ t.capped = r.capped
    BY <1>0 DEF Attempt
  <2>3. r.at = "download" /\ r.row = 0 /\ r.src \in Nat
    BY <1>0, <1>5, FilesAre DEF Fetch, Located, HasOpen
  <2>4. Before(r.src, 1) = Before(r.src, 0)
    BY <2>3, BeforeOpen
  <2> HIDE DEF t
  <2>5. CountsOf(p)'
    BY <1>0, <2>1, <2>2, <2>3, <2>4 DEF Becomes, Counts, CountsOf, HasOpen, Working
  <2> QED BY <2>1, <2>5, HandlerCounts
<1>6. CASE SourceFails(p)
  <2> DEFINE t == [NoProc EXCEPT !.at = "failing", !.seen = proc[p].seen]
  <2>1. Becomes(p, t)
    BY <1>6, LeavingBecomes DEF SourceFails, Stage
  <2>2. t.at = "failing"
    BY DEF NoProc
  <2> HIDE DEF t
  <2> QED BY <1>a, <2>1, <2>2 DEF Working
<1>7. CASE Close(p)
  <2> DEFINE r == proc[p]
  <2>1. r.at = "read" /\ r.src \in DOMAIN Sources /\ r.row \in Nat
    BY <1>0, <1>7 DEF Close, Located, HasOpen, Attempt
  <2>2. PICK left \in SUBSET Complements :
             Becomes(p, [proc[p] EXCEPT !.at = "next", !.src = proc[p].src + 1, !.row = 0,
                                        !.left = left])
    BY <1>7, <2>1, CloseBecomes
  <2> DEFINE t == [proc[p] EXCEPT !.at = "next", !.src = proc[p].src + 1, !.row = 0,
                                  !.left = left]
  <2>3. Becomes(p, t)
    BY <2>2
  <2>4. /\ t.at = "next" /\ t.src = r.src + 1 /\ t.row = 0
        /\ t.matches = r.matches /\ t.capped = r.capped
    BY <1>0 DEF Attempt
  <2>5. ~ r.capped => Before(r.src + 1, 0) = Before(r.src, r.row)
    <3>1. ~ r.capped /\ r.src \in Establishments => r.row > MatchesIn[r.src]
      BY <1>7, <2>1, FilesAre DEF Close, Reading
    <3> QED BY <2>1, <3>1, BeforeNext
  <2> HIDE DEF t
  <2>6. CountsOf(p)'
    BY <1>0, <2>1, <2>3, <2>4, <2>5 DEF Becomes, Counts, CountsOf, HasOpen, Working
  <2> QED BY <2>3, <2>6, HandlerCounts
<1>8. CASE SaveFailed(p)
  <2> DEFINE t == [NoProc EXCEPT !.at = "raised", !.seen = "none"]
  <2>1. Becomes(p, t)
    BY <1>8, LeavingBecomes DEF SaveFailed, Stage
  <2>2. t.at = "raised"
    BY DEF NoProc
  <2> HIDE DEF t
  <2> QED BY <1>a, <2>1, <2>2 DEF Working
<1>9. CASE Finish(p) \/ RecordCoverage(p)
  <2>1. PICK at \in {"returned", "cover", "raised"} : Leaving(p, at)
    BY <1>9 DEF Finish, RecordCoverage
  <2> DEFINE t == [NoProc EXCEPT !.at = at, !.seen = "none"]
  <2>2. Becomes(p, t)
    BY <2>1, LeavingBecomes DEF Stage
  <2>3. t.at = at
    BY DEF NoProc
  <2> HIDE DEF t
  <2> QED BY <1>a, <2>2, <2>3 DEF Working
<1> QED BY <1>1, <1>2, <1>3, <1>4, <1>5, <1>6, <1>7, <1>8, <1>9 DEF Handler

(* Every step keeps counts, order and limits. *)
LEMMA GatheredStep ==
    ASSUME TypeOK, Located, Asked, Counts, InOrder, Within, Next
    PROVE  Counts' /\ InOrder' /\ Within'
<1>a. ASSUME NEW j \in Jobs, run[j].status = "NONE", NEW q \in Procs, proc[q].at \in Working
      PROVE  q[1] # j
  BY <1>a, LiveWasAsked DEF Working
<1>1. ASSUME NEW j \in Jobs, Plan(j) PROVE Counts' /\ InOrder' /\ Within'
  <2>1. PICK n \in Limits[j] : limit' = [limit EXCEPT ![j] = n]
    BY <1>1 DEF Plan
  <2>2. n \in Nat /\ limit'[j] = n /\ \A k \in Jobs : k # j => limit'[k] = limit[k]
    BY <2>1, DiscoverAssumption DEF TypeOK
  <2>3. run[j].status = "NONE" /\ results[j] = {} /\ UNCHANGED <<results, proc>>
    BY <1>1 DEF Plan, Asked
  <2>4. Counts'
    <3> SUFFICES ASSUME NEW q \in Procs PROVE CountsOf(q)'
      BY DEF Counts
    <3>1. proc[q].at \in Working => limit'[q[1]] = limit[q[1]]
      BY <1>a, <2>2, <2>3, ProcsAre
    <3> QED BY <2>3, <3>1, CountsKept
  <2>5. InOrder'
    <3>1. \A k \in Jobs : k # j => plan'[k] = plan[k]
      BY <1>1 DEF Plan, TypeOK
    <3> QED BY <2>3, <3>1 DEF InOrder
  <2>6. Within'
    BY <2>2, <2>3, FS_EmptySet DEF Within
  <2> QED BY <2>4, <2>5, <2>6
<1>2. ASSUME NEW j \in Jobs, Serve(j) PROVE Counts' /\ InOrder' /\ Within'
  <2>1. PICK S \in SUBSET results[plan[j]] :
         /\ IF Cardinality(results[plan[j]]) > limit[j] THEN Cardinality(S) = limit[j]
            ELSE S = results[plan[j]]
         /\ results' = [results EXCEPT ![j] = S]
    BY <1>2 DEF Serve
  <2>2. run[j].status = "NONE" /\ plan[j] \in Jobs /\ UNCHANGED <<limit, plan, proc>>
    BY <1>2 DEF Serve
  <2>3. results'[j] = S /\ \A k \in Jobs : k # j => results'[k] = results[k]
    BY <2>1 DEF TypeOK
  <2>4. Counts'
    <3> SUFFICES ASSUME NEW q \in Procs PROVE CountsOf(q)'
      BY DEF Counts
    <3>1. proc[q].at \in Working => results'[q[1]] = results[q[1]]
      BY <1>a, <2>2, <2>3, ProcsAre
    <3> QED BY <2>2, <3>1, CountsKept
  <2>5. InOrder'
    <3>1. plan[j] # "collect"
      BY <2>2, DiscoverAssumption
    <3> QED BY <2>2, <2>3, <3>1 DEF InOrder
  <2>6. Within'
    <3>1. IsFiniteSet(results[plan[j]]) /\ limit[j] \in Nat
      BY <2>2 DEF Within, TypeOK
    <3>2. IsFiniteSet(S) /\ Cardinality(results[plan[j]]) \in Nat
      BY <3>1, FS_Subset, FS_CardinalityType
    <3>3. Cardinality(S) <= limit[j]
      BY <2>1, <3>1, <3>2
    <3> QED BY <2>2, <2>3, <3>2, <3>3 DEF Within
  <2> QED BY <2>4, <2>5, <2>6
<1>3. ASSUME NEW p \in Procs, Handler(p) PROVE Counts' /\ InOrder' /\ Within'
  <2>1. CASE Ingest(p)
    BY <2>1, IngestCounts
  <2>2. CASE ~ Ingest(p)
    <3>1. Counts'
      BY <1>3, <2>2, LoopCounts
    <3>2. UNCHANGED <<limit, plan, results>>
      BY <1>3, <2>2 DEF Handler, Refuse, Start, Skip, Open, Fetch, SourceFails, Close,
                        SaveFailed, Finish, RecordCoverage, dbVars
    <3> QED BY <3>1, <3>2 DEF InOrder, Within
  <2> QED BY <2>1, <2>2
<1>4. ASSUME NEW j \in Jobs, Take(j) PROVE Counts' /\ InOrder' /\ Within'
  <2> DEFINE t == [NoProc EXCEPT !.at = "start"]
  <2>1. <<j, current[j] + 1>> \in Procs /\ Becomes(<<j, current[j] + 1>>, t)
    BY <1>4, TakeBecomes
  <2>2. t.at \notin Working
    BY DEF NoProc, Working
  <2>3. UNCHANGED dbVars
    BY <1>4 DEF Take
  <2> HIDE DEF t
  <2>4. \A q \in Procs : q # <<j, current[j] + 1>> => CountsOf(q)'
    BY <2>1, <2>3, CountsKept DEF Becomes, dbVars
  <2>5. \A q \in Procs : CountsOf(q)'
    <3> SUFFICES ASSUME NEW q \in Procs PROVE CountsOf(q)'
      OBVIOUS
    <3>1. CASE q # <<j, current[j] + 1>>
      BY <2>4, <3>1
    <3>2. CASE q = <<j, current[j] + 1>>
      BY <2>1, <2>2, <3>2 DEF Becomes, CountsOf
    <3> QED BY <3>1, <3>2
  <2> QED BY <2>3, <2>5 DEF Counts, InOrder, Within, dbVars
<1>5. ASSUME NEW p \in Procs, Report(p) \/ Crash(p) PROVE Counts' /\ InOrder' /\ Within'
  <2>1. Becomes(p, NoProc) /\ NoProc.at \notin Working /\ UNCHANGED dbVars
    BY <1>5, LeaveBecomes DEF Report, Crash, NoProc, Working
  <2>2. \A q \in Procs : q # p => CountsOf(q)'
    BY <2>1, CountsKept DEF Becomes, dbVars
  <2>3. CountsOf(p)'
    BY <2>1, OutsideCounts
  <2> QED BY <2>1, <2>2, <2>3 DEF Counts, InOrder, Within, dbVars
<1>6. ASSUME \/ \E j \in Jobs : Request(j) \/ Cancel(j)
             \/ Cleanup
      PROVE  Counts' /\ InOrder' /\ Within'
  <2>1. UNCHANGED <<proc, limit, plan, results>>
    BY <1>6 DEF Request, Cancel, Cleanup, dbVars
  <2> QED BY <2>1 DEF Counts, CountsOf, HasOpen, InOrder, Within
<1> QED BY <1>1, <1>2, <1>3, <1>4, <1>5, <1>6 DEF Next

-----------------------------------------------------------------------------
(* Whatever passes for complete. *)

\* Nobody relies on a run that lacks a row.
Complete ==
    /\ CompleteMeansEveryRow
    /\ \A j \in Jobs : plan[j] \in Jobs => results[plan[j]] = Rows
    /\ \A p \in Procs : /\ proc[p].at = "cover" => results[p[1]] = Rows
                        /\ proc[p].at # "gone" /\ proc[p].seen = "yes" => results[p[1]] = Rows

(* A full run that was not cut off, and is through with its files, has every row. *)
LEMMA NotPartialIsWhole ==
    ASSUME TypeOK, Located, Counts, NEW p \in Procs, Finish(p), ~ Partial(p)
    PROVE  results[p[1]] = Rows
<1> DEFINE r == proc[p]
<1>1. /\ r.at = "next" /\ ~ r.capped /\ r.row = 0 /\ r.src \in 1..Len(Sources) + 1
      /\ p[1] \in Jobs /\ results[p[1]] \subseteq Rows
  BY ProcsAre DEF Finish, Partial, Located, Working, TypeOK
<1>2. r.src \notin DOMAIN Sources
  BY <1>1, DiscoverAssumption DEF Finish, Partial, Requested
<1>3. r.src = Len(Sources) + 1
  BY <1>1, <1>2, FilesAre
<1>4. Before(r.src, 0) \subseteq results[p[1]]
  BY <1>1 DEF Counts, CountsOf, Working
<1> QED BY <1>1, <1>3, <1>4, BeforeEnd

(* The steps of a handler that change neither runs nor rows nor coverage. *)
LEMMA QuietComplete ==
    ASSUME Complete, UNCHANGED dbVars, NEW p \in Procs, NEW t, Becomes(p, t),
           t.at # "cover", t.at = "gone" \/ t.seen \in {"none", "no"} \/
                           (proc[p].at # "gone" /\ t.seen = proc[p].seen)
    PROVE  Complete'
BY DEF Complete, CompleteMeansEveryRow, Becomes, dbVars

(* Every step keeps what makes a run complete. *)
LEMMA CompleteStep ==
    ASSUME TypeOK, TypeOK', Located, Asked, Counts, Complete, Next
    PROVE  Complete'
<1>1. ASSUME NEW j \in Jobs, Plan(j) PROVE Complete'
  <2>1. \A k \in Jobs : \/ plan'[k] = plan[k]
                        \/ plan'[k] = "collect"
                        \/ plan'[k] = coverage
    BY <1>1 DEF Plan, TypeOK
  <2>2. \A k \in Jobs : plan'[k] \in Jobs => results[plan'[k]] = Rows
    BY <2>1, DiscoverAssumption DEF Complete, CompleteMeansEveryRow
  <2> QED BY <1>1, <2>2 DEF Plan, Complete, CompleteMeansEveryRow
<1>2. ASSUME NEW j \in Jobs, Request(j) PROVE Complete'
  <2>1. /\ run'[j].status = "PENDING" /\ run'[j].complete = run[j].complete
        /\ \A k \in Jobs : k # j => run'[k] = run[k]
    BY <1>2 DEF Request, TypeOK
  <2> QED BY <1>2, <2>1 DEF Request, Complete, CompleteMeansEveryRow
<1>3. ASSUME NEW j \in Jobs, Serve(j) PROVE Complete'
  <2>1. /\ run[j].status = "NONE" /\ plan[j] \in Jobs /\ UNCHANGED <<plan, coverage, proc>>
        /\ \A k \in Jobs : k # j => run'[k] = run[k] /\ results'[k] = results[k]
    BY <1>3 DEF Serve, TypeOK
  <2>2. /\ coverage # j /\ \A k \in Jobs : plan[k] # j
        /\ \A p \in Procs : proc[p].at # "gone" => p[1] # j
    BY <2>1, LiveWasAsked DEF Asked
  <2>3. results'[j] = Rows \/ run'[j] = [status |-> "PARTIAL", complete |-> "no"]
    BY <1>3, <2>1 DEF Serve, Complete, TypeOK
  <2>4. CompleteMeansEveryRow'
    BY <2>1, <2>2, <2>3 DEF Complete, CompleteMeansEveryRow
  <2>5. \A k \in Jobs : plan'[k] \in Jobs => results'[plan'[k]] = Rows
    BY <2>1, <2>2 DEF Complete
  <2>6. \A p \in Procs : /\ proc'[p].at = "cover" => results'[p[1]] = Rows
                         /\ proc'[p].at # "gone" /\ proc'[p].seen = "yes"
                            => results'[p[1]] = Rows
    BY <2>1, <2>2, ProcsAre DEF Complete
  <2> QED BY <2>4, <2>5, <2>6 DEF Complete
<1>4. ASSUME NEW p \in Procs, Handler(p) PROVE Complete'
  <2> DEFINE j == p[1]
  <2>0. proc[p] \in Attempt /\ j \in Jobs /\ run[j] \in Status /\ proc[p].at # "gone"
    BY <1>4, ProcsAre, HandlerEffect DEF TypeOK, Status
  <2>1. CASE Refuse(p) \/ Fetch(p) \/ Skip(p) \/ Close(p) \/ Open(p) \/ SourceFails(p)
    <3>1. UNCHANGED dbVars
      BY <2>1 DEF Refuse, Fetch, Skip, Close, Open, SourceFails
    <3>2. \E t \in Attempt : Becomes(p, t) /\ t.at # "cover" /\ t.seen = proc[p].seen
      <4>a. ASSUME NEW at \in Stage \ {"cover"}, Goto(p, at)
            PROVE  \E t \in Attempt : Becomes(p, t) /\ t.at # "cover" /\ t.seen = proc[p].seen
        <5> DEFINE t == [proc[p] EXCEPT !.at = at]
        <5>1. Becomes(p, t) /\ t \in Attempt
          BY <4>a, GotoBecomes DEF Becomes
        <5>2. t.at = at /\ t.seen = proc[p].seen
          BY <2>0 DEF Attempt
        <5> HIDE DEF t
        <5> QED BY <5>1, <5>2
      <4>1. CASE Refuse(p)
        BY <4>1, <4>a DEF Refuse, Stage
      <4>2. CASE Fetch(p)
        <5> DEFINE t == [proc[p] EXCEPT !.at = "read", !.row = 1]
        <5>1. Becomes(p, t) /\ t \in Attempt
          BY <4>2, FetchBecomes DEF Becomes
        <5>2. t.at = "read" /\ t.seen = proc[p].seen
          BY <2>0 DEF Attempt
        <5> HIDE DEF t
        <5> QED BY <5>1, <5>2
      <4>3. CASE Skip(p)
        <5> DEFINE t == [proc[p] EXCEPT !.src = proc[p].src + 1,
                           !.left = LeftAfter(p, proc[p].src + 1),
                           !.capped = @ \/ proc[p].src \in Establishments]
        <5>1. Becomes(p, t) /\ t \in Attempt
          BY <4>3, SkipBecomes DEF Becomes
        <5>2. t.at = "next" /\ t.seen = proc[p].seen
          BY <2>0, <4>3 DEF Attempt, Skip
        <5> HIDE DEF t
        <5> QED BY <5>1, <5>2
      <4>4. CASE Close(p)
        <5>1. proc[p].src \in DOMAIN Sources
          BY <4>4 DEF Close, Located, HasOpen
        <5>2. PICK left \in SUBSET Complements :
                Becomes(p, [proc[p] EXCEPT !.at = "next", !.src = proc[p].src + 1, !.row = 0,
                                           !.left = left])
          BY <4>4, <5>1, CloseBecomes
        <5> DEFINE t == [proc[p] EXCEPT !.at = "next", !.src = proc[p].src + 1, !.row = 0,
                                        !.left = left]
        <5>3. Becomes(p, t) /\ t \in Attempt
          BY <5>2 DEF Becomes
        <5>4. t.at = "next" /\ t.seen = proc[p].seen
          BY <2>0 DEF Attempt
        <5> HIDE DEF t
        <5> QED BY <5>3, <5>4
      <4>5. CASE Open(p) \/ SourceFails(p)
        <5>1. Goto(p, "download") \/ Leaving(p, "failing")
          BY <4>5 DEF Open, SourceFails
        <5>2. CASE Goto(p, "download")
          BY <5>2, <4>a DEF Stage
        <5>3. CASE Leaving(p, "failing")
          <6> DEFINE t == [NoProc EXCEPT !.at = "failing", !.seen = proc[p].seen]
          <6>1. Becomes(p, t) /\ t \in Attempt
            BY <5>3, LeavingBecomes DEF Stage, Becomes
          <6>2. t.at = "failing" /\ t.seen = proc[p].seen
            BY DEF NoProc
          <6> HIDE DEF t
          <6> QED BY <6>1, <6>2
        <5> QED BY <5>1, <5>2, <5>3
      <4> QED BY <2>1, <4>1, <4>2, <4>3, <4>4, <4>5
    <3> QED BY <2>0, <3>1, <3>2, QuietComplete
  <2>2. CASE Start(p)
    <3> DEFINE t == [proc[p] EXCEPT !.at = "next", !.src = 1, !.seen = run[j].complete]
    <3>1. Becomes(p, t)
      BY <2>2, StartBecomes
    <3>2. t.at = "next" /\ t.seen = run[j].complete
      BY <2>0 DEF Attempt
    <3>3. /\ run'[j].status = "RUNNING" /\ run'[j].complete = run[j].complete
          /\ \A k \in Jobs : k # j => run'[k] = run[k]
      BY <2>0, <2>2 DEF Start, TypeOK
    <3> HIDE DEF t
    <3> QED BY <2>0, <2>2, <3>1, <3>2, <3>3 DEF Start, Becomes, Complete, CompleteMeansEveryRow
  <2>3. CASE Ingest(p)
    <3> DEFINE t == [proc[p] EXCEPT !.row = proc[p].row + 1, !.matches = proc[p].matches + 1,
                                    !.capped = AtLimit(p[1], proc[p].matches + 1)]
    <3>1. Becomes(p, t)
      BY <2>3, IngestBecomes
    <3>2. t.at = "read" /\ t.seen = proc[p].seen
      BY <2>0, <2>3 DEF Attempt, Ingest, Reading
    <3>3. \A k \in Jobs : results[k] = Rows => results'[k] = Rows
      <4>1. \A k \in Jobs : results[k] \subseteq results'[k] /\ results'[k] \subseteq Rows
        BY <1>4, HandlerEffect DEF TypeOK
      <4> QED BY <4>1
    <3>4. UNCHANGED <<run, plan, coverage>>
      BY <2>3 DEF Ingest
    <3> HIDE DEF t
    <3>5. \A q \in Procs : /\ proc'[q].at = "cover" => results'[q[1]] = Rows
                           /\ proc'[q].at # "gone" /\ proc'[q].seen = "yes"
                              => results'[q[1]] = Rows
      <4>1. \A q \in Procs : proc'[q] = proc[q] \/ (q = p /\ proc'[q] = t)
        BY <3>1 DEF Becomes
      <4>2. \A q \in Procs : results[q[1]] = Rows => results'[q[1]] = Rows
        BY <3>3, ProcsAre
      <4> QED BY <2>0, <3>2, <4>1, <4>2 DEF Complete
    <3>6. \A k \in Jobs : plan'[k] \in Jobs => results'[plan'[k]] = Rows
      BY <3>3, <3>4 DEF Complete
    <3>7. CompleteMeansEveryRow'
      BY <3>3, <3>4 DEF Complete, CompleteMeansEveryRow
    <3> QED BY <3>5, <3>6, <3>7 DEF Complete
  <2>4. CASE SaveFailed(p)
    <3> DEFINE t == [NoProc EXCEPT !.at = "raised", !.seen = "none"]
    <3>1. Becomes(p, t)
      BY <2>4, LeavingBecomes DEF SaveFailed, Stage
    <3>2. t.at = "raised" /\ t.seen = "none"
      BY DEF NoProc
    <3>3. /\ run'[j].status = "FAILED" /\ run'[j].complete = proc[p].seen
          /\ \A k \in Jobs : k # j => run'[k] = run[k]
      BY <2>0, <2>4 DEF SaveFailed, TypeOK
    <3> HIDE DEF t
    <3> QED BY <2>0, <2>4, <3>1, <3>2, <3>3 DEF SaveFailed, Becomes, Complete, CompleteMeansEveryRow
  <2>5. CASE Finish(p)
    <3> DEFINE at == IF Partial(p) THEN "returned" ELSE "cover"
               t == [NoProc EXCEPT !.at = at, !.seen = "none"]
    <3>1. Becomes(p, t)
      <4>1. at \in Stage /\ at # "failing"
        BY DEF Stage
      <4> QED BY <2>5, <4>1, LeavingBecomes DEF Finish
    <3>2. t.at = at /\ t.seen = "none"
      BY DEF NoProc
    <3>3. \A k \in Jobs : k # j => run'[k] = run[k]
      BY <2>5 DEF Finish, TypeOK
    <3>4. \/ Partial(p) /\ run'[j] = [status |-> "PARTIAL", complete |-> "no"] /\ at = "returned"
          \/ ~ Partial(p) /\ results[j] = Rows
      BY <2>0, <2>5, NotPartialIsWhole DEF Finish, TypeOK
    <3> HIDE DEF t, at
    <3>5. UNCHANGED <<plan, results, coverage>>
      BY <2>5 DEF Finish
    <3> QED BY <2>0, <3>1, <3>2, <3>3, <3>4, <3>5 DEF Becomes, Complete, CompleteMeansEveryRow
  <2>6. CASE RecordCoverage(p)
    <3>1. PICK at \in {"returned", "raised"} : Leaving(p, at)
      BY <2>6 DEF RecordCoverage
    <3> DEFINE t == [NoProc EXCEPT !.at = at, !.seen = "none"]
    <3>2. Becomes(p, t)
      BY <3>1, LeavingBecomes DEF Stage
    <3>3. t.at = at /\ t.seen = "none"
      BY DEF NoProc
    <3>4. /\ UNCHANGED <<plan, run, results>>
          /\ coverage' = coverage \/ (coverage' = j /\ results[j] = Rows)
      <4>1. results[j] = Rows
        BY <2>6 DEF RecordCoverage, Complete
      <4> QED BY <2>6, <4>1 DEF RecordCoverage
    <3> HIDE DEF t
    <3> QED BY <3>2, <3>3, <3>4 DEF Becomes, Complete, CompleteMeansEveryRow
  <2> QED BY <1>4, <2>1, <2>2, <2>3, <2>4, <2>5, <2>6 DEF Handler
<1>5. ASSUME NEW j \in Jobs, Take(j) PROVE Complete'
  <2> DEFINE t == [NoProc EXCEPT !.at = "start"]
  <2>1. <<j, current[j] + 1>> \in Procs /\ Becomes(<<j, current[j] + 1>>, t)
    BY <1>5, TakeBecomes
  <2>2. t.at = "start" /\ t.seen = "none" /\ UNCHANGED dbVars
    BY <1>5 DEF NoProc, Take
  <2> HIDE DEF t
  <2> QED BY <2>1, <2>2, QuietComplete
<1>6. ASSUME NEW p \in Procs, Report(p) \/ Crash(p) PROVE Complete'
  <2>1. Becomes(p, NoProc) /\ NoProc.at = "gone" /\ UNCHANGED dbVars
    BY <1>6, LeaveBecomes DEF Report, Crash, NoProc
  <2> QED BY <2>1, QuietComplete
<1>7. ASSUME \/ \E j \in Jobs : Cancel(j)
             \/ Cleanup
      PROVE  Complete'
  <2>1. UNCHANGED <<proc, plan, run, results, coverage>>
    BY <1>7 DEF Cancel, Cleanup, dbVars
  <2> QED BY <2>1 DEF Complete, CompleteMeansEveryRow
<1> QED BY <1>1, <1>2, <1>3, <1>4, <1>5, <1>6, <1>7 DEF Next

-----------------------------------------------------------------------------
(* Archives and directories. *)

Kept == {d \in DOMAIN disk : disk[d] # "absent"}
Opened == IF flock = None THEN {} ELSE {<<flock[1], proc[flock].src>>}

\* Who holds the lock has a file open, in a directory that is there.
Files ==
    /\ ArchiveStaysWhileRead
    /\ \A p \in Procs : flock = p => HasOpen(p) /\ disk[<<p[1], proc[p].src>>] # "absent"
    /\ IsFiniteSet(Kept \ Opened) /\ Cardinality(Kept \ Opened) <= crashes

(* The directory of a located attempt is one of the disk's. *)
LEMMA DirectoryOf ==
    ASSUME TypeOK, Located, NEW p \in Procs, HasOpen(p)
    PROVE  <<p[1], proc[p].src>> \in DOMAIN disk /\ disk \in [Jobs \X DOMAIN Sources -> {"absent", "empty", "zip"}]
BY ProcsAre DEF TypeOK, Located

(* Steps of an attempt that has no file open, before or after. *)
LEMMA FilesFrame ==
    ASSUME TypeOK, Files, NEW p \in Procs, NEW t, Becomes(p, t), UNCHANGED <<diskVars, crashes>>,
           ~ HasOpen(p), t.at \notin {"download", "read"}
    PROVE  Files'
<1>1. flock # p
  BY DEF Files
<1>2. flock \in Procs \cup {None} /\ None \notin Procs
  BY DiscoverAssumption DEF TypeOK
<1>3. Opened' = Opened /\ Kept' = Kept
  BY <1>1, <1>2 DEF Opened, Kept, Becomes, diskVars
<1>4. ArchiveStaysWhileRead'
  BY <1>1 DEF Files, ArchiveStaysWhileRead, Becomes, diskVars
<1>5. \A q \in Procs : flock' = q => HasOpen(q)' /\ disk'[<<q[1], proc'[q].src>>] # "absent"
  BY <1>1 DEF Files, HasOpen, Becomes, diskVars
<1> QED BY <1>3, <1>4, <1>5 DEF Files

(* A handler that opens or closes no file. *)
LEMMA HandlerKeepsFiles ==
    ASSUME TypeOK, Files, NEW p \in Procs,
           Refuse(p) \/ Start(p) \/ Skip(p) \/ SaveFailed(p) \/ Finish(p) \/ RecordCoverage(p)
    PROVE  Files'
<1>0. /\ proc[p] \in Attempt /\ ~ HasOpen(p) /\ UNCHANGED <<diskVars, crashes>>
  BY DEF Refuse, Start, Skip, SaveFailed, Finish, RecordCoverage, HasOpen, TypeOK, faultVars
<1>1. CASE Refuse(p)
  <2> DEFINE t == [proc[p] EXCEPT !.at = "raised"]
  <2>1. Becomes(p, t)
    BY <1>1, GotoBecomes DEF Refuse, Stage
  <2>2. t.at = "raised"
    BY <1>0 DEF Attempt
  <2> HIDE DEF t
  <2> QED BY <1>0, <2>1, <2>2, FilesFrame
<1>2. CASE Start(p)
  <2> DEFINE t == [proc[p] EXCEPT !.at = "next", !.src = 1, !.seen = run[p[1]].complete]
  <2>1. Becomes(p, t)
    BY <1>2, StartBecomes
  <2>2. t.at = "next"
    BY <1>0 DEF Attempt
  <2> HIDE DEF t
  <2> QED BY <1>0, <2>1, <2>2, FilesFrame
<1>3. CASE Skip(p)
  <2> DEFINE t == [proc[p] EXCEPT !.src = proc[p].src + 1,
                         !.left = LeftAfter(p, proc[p].src + 1),
                         !.capped = @ \/ proc[p].src \in Establishments]
  <2>1. Becomes(p, t)
    BY <1>3, SkipBecomes
  <2>2. t.at = "next"
    BY <1>0, <1>3 DEF Attempt, Skip
  <2> HIDE DEF t
  <2> QED BY <1>0, <2>1, <2>2, FilesFrame
<1>4. CASE SaveFailed(p) \/ Finish(p) \/ RecordCoverage(p)
  <2>1. PICK at \in {"returned", "cover", "raised"} : Leaving(p, at)
    BY <1>4 DEF SaveFailed, Finish, RecordCoverage
  <2> DEFINE t == [NoProc EXCEPT !.at = at, !.seen = "none"]
  <2>2. Becomes(p, t)
    BY <2>1, LeavingBecomes DEF Stage
  <2>3. t.at = at
    BY DEF NoProc
  <2> HIDE DEF t
  <2> QED BY <1>0, <2>2, <2>3, FilesFrame
<1> QED BY <1>1, <1>2, <1>3, <1>4

(* A download begins in a directory of its own, if nobody downloads. *)
LEMMA OpenKeepsFiles ==
    ASSUME TypeOK, Located, Files, NEW p \in Procs, Open(p)
    PROVE  Files'
<1> DEFINE d == <<p[1], proc[p].src>>
<1>0. /\ proc[p] \in Attempt /\ ~ HasOpen(p) /\ UNCHANGED crashes
      /\ d \in DOMAIN disk /\ disk \in [Jobs \X DOMAIN Sources -> {"absent", "empty", "zip"}]
      /\ None \notin Procs
  BY ProcsAre, FilesAre, DiscoverAssumption DEF Open, HasOpen, TypeOK, faultVars
<1>1. CASE flock = None /\ disk[d] = "absent"
  <2> DEFINE t == [proc[p] EXCEPT !.at = "download"]
  <2>1. Becomes(p, t)
    BY <1>1, GotoBecomes DEF Open, Stage
  <2>2. t.at = "download" /\ t.src = proc[p].src
    BY <1>0 DEF Attempt
  <2>3. flock' = p /\ disk' = [disk EXCEPT ![d] = "empty"]
    BY <1>1 DEF Open
  <2> HIDE DEF t
  <2>4. \A q \in Procs : q # p => ~ HasOpen(q) /\ proc'[q] = proc[q]
    BY <1>0, <1>1, <2>1 DEF Files, ArchiveStaysWhileRead, HasOpen, Becomes
  <2>5. ArchiveStaysWhileRead'
    BY <2>1, <2>2, <2>3, <2>4 DEF ArchiveStaysWhileRead, HasOpen, Becomes
  <2>6. \A q \in Procs : flock' = q => HasOpen(q)' /\ disk'[<<q[1], proc'[q].src>>] # "absent"
    BY <1>0, <2>1, <2>2, <2>3 DEF HasOpen, Becomes
  <2>7. Kept' \ Opened' = Kept \ Opened
    <3>1. Opened = {} /\ Opened' = {d}
      BY <1>0, <1>1, <2>1, <2>2, <2>3 DEF Opened, Becomes
    <3>2. Kept' = Kept \cup {d} /\ d \notin Kept
      BY <1>0, <1>1, <2>3 DEF Kept
    <3> QED BY <3>1, <3>2
  <2> QED BY <1>0, <2>5, <2>6, <2>7 DEF Files
<1>2. CASE ~ (flock = None /\ disk[d] = "absent")
  <2> DEFINE t == [NoProc EXCEPT !.at = "failing", !.seen = proc[p].seen]
  <2>1. Becomes(p, t) /\ UNCHANGED diskVars
    BY <1>2, LeavingBecomes DEF Open, Stage
  <2>2. t.at = "failing"
    BY DEF NoProc
  <2> HIDE DEF t
  <2> QED BY <1>0, <2>1, <2>2, FilesFrame
<1> QED BY <1>1, <1>2

(* The holder goes on in its directory: nothing is kept that was not. *)
LEMMA HolderGoesOn ==
    ASSUME TypeOK, Located, Files, NEW p \in Procs, Fetch(p) \/ Ingest(p)
    PROVE  Files'
<1> DEFINE d == <<p[1], proc[p].src>>
<1>0. /\ proc[p] \in Attempt /\ HasOpen(p) /\ flock = p /\ UNCHANGED <<flock, crashes>>
      /\ d \in DOMAIN disk /\ disk \in [Jobs \X DOMAIN Sources -> {"absent", "empty", "zip"}]
      /\ None \notin Procs /\ disk[d] # "absent"
  <2>1. HasOpen(p) /\ UNCHANGED <<flock, crashes>>
    BY DEF Fetch, Ingest, Reading, HasOpen, diskVars, faultVars
  <2>2. flock = p
    BY <2>1 DEF Files, ArchiveStaysWhileRead, HasOpen
  <2> QED BY <2>1, <2>2, DirectoryOf, DiscoverAssumption DEF Files, TypeOK
<1>1. \E t \in Attempt : /\ Becomes(p, t) /\ t.at = "read" /\ t.src = proc[p].src
                         /\ disk' = [disk EXCEPT ![d] = "zip"]
  <2>1. CASE Fetch(p)
    <3> DEFINE t == [proc[p] EXCEPT !.at = "read", !.row = 1]
    <3>1. Becomes(p, t) /\ t \in Attempt
      BY <2>1, FetchBecomes DEF Becomes
    <3>2. t.at = "read" /\ t.src = proc[p].src
      BY <1>0 DEF Attempt
    <3> HIDE DEF t
    <3> QED BY <2>1, <3>1, <3>2 DEF Fetch
  <2>2. CASE Ingest(p)
    <3> DEFINE t == [proc[p] EXCEPT !.row = proc[p].row + 1, !.matches = proc[p].matches + 1,
                                    !.capped = AtLimit(p[1], proc[p].matches + 1)]
    <3>1. Becomes(p, t) /\ t \in Attempt
      BY <2>2, IngestBecomes DEF Becomes
    <3>2. t.at = "read" /\ t.src = proc[p].src
      BY <1>0, <2>2 DEF Attempt, Ingest, Reading
    <3>3. disk[d] = "zip" /\ disk' = disk
      BY <2>2 DEF Ingest, Reading, Files, ArchiveStaysWhileRead, diskVars
    <3>4. disk' = [disk EXCEPT ![d] = "zip"]
      BY <1>0, <3>3
    <3> HIDE DEF t
    <3> QED BY <3>1, <3>2, <3>4
  <2> QED BY <2>1, <2>2
<1>2. PICK t \in Attempt : /\ Becomes(p, t) /\ t.at = "read" /\ t.src = proc[p].src
                           /\ disk' = [disk EXCEPT ![d] = "zip"]
  BY <1>1
<1>3. \A q \in Procs : q # p => ~ HasOpen(q) /\ proc'[q] = proc[q]
  BY <1>0, <1>2 DEF Files, ArchiveStaysWhileRead, HasOpen, Becomes
<1>4. disk'[d] = "zip"
  BY <1>0, <1>2
<1>5. ArchiveStaysWhileRead'
  BY <1>0, <1>2, <1>3, <1>4 DEF ArchiveStaysWhileRead, HasOpen, Becomes
<1>6. \A q \in Procs : flock' = q => HasOpen(q)' /\ disk'[<<q[1], proc'[q].src>>] # "absent"
  BY <1>0, <1>2, <1>4 DEF HasOpen, Becomes
<1>7. Kept' = Kept /\ Opened' = Opened
  BY <1>0, <1>2 DEF Kept, Opened, Becomes
<1> QED BY <1>0, <1>5, <1>6, <1>7 DEF Files

(* The holder disposes of its directory, and of that only. *)
LEMMA HolderDisposes ==
    ASSUME TypeOK, Located, Files, NEW p \in Procs, SourceFails(p) \/ Close(p)
    PROVE  Files'
<1> DEFINE d == <<p[1], proc[p].src>>
<1>0. /\ proc[p] \in Attempt /\ HasOpen(p) /\ flock = p /\ UNCHANGED crashes
      /\ d \in DOMAIN disk /\ disk \in [Jobs \X DOMAIN Sources -> {"absent", "empty", "zip"}]
      /\ None \notin Procs
  <2>1. HasOpen(p) /\ UNCHANGED crashes
    BY DEF SourceFails, Close, HasOpen, faultVars
  <2>2. flock = p
    BY <2>1 DEF Files, ArchiveStaysWhileRead, HasOpen
  <2> QED BY <2>1, <2>2, DirectoryOf, DiscoverAssumption DEF TypeOK
<1>1. flock' = None /\ disk' = [disk EXCEPT ![d] = "absent"]
  BY DEF SourceFails, Close, Dispose
<1>2. \E t \in Attempt : Becomes(p, t) /\ t.at \notin {"download", "read"}
  <2>1. CASE SourceFails(p)
    <3> DEFINE t == [NoProc EXCEPT !.at = "failing", !.seen = proc[p].seen]
    <3>1. Becomes(p, t) /\ t \in Attempt
      BY <2>1, LeavingBecomes DEF SourceFails, Stage, Becomes
    <3>2. t.at = "failing"
      BY DEF NoProc
    <3> HIDE DEF t
    <3> QED BY <3>1, <3>2
  <2>2. CASE Close(p)
    <3>1. proc[p].src \in DOMAIN Sources
      BY <2>2 DEF Close, Located, HasOpen
    <3>2. PICK left \in SUBSET Complements :
            Becomes(p, [proc[p] EXCEPT !.at = "next", !.src = proc[p].src + 1, !.row = 0,
                                       !.left = left])
      BY <2>2, <3>1, CloseBecomes
    <3> DEFINE t == [proc[p] EXCEPT !.at = "next", !.src = proc[p].src + 1, !.row = 0,
                                    !.left = left]
    <3>3. Becomes(p, t) /\ t \in Attempt
      BY <3>2 DEF Becomes
    <3>4. t.at = "next"
      BY <1>0 DEF Attempt
    <3> HIDE DEF t
    <3> QED BY <3>3, <3>4
  <2> QED BY <2>1, <2>2
<1>3. PICK t \in Attempt : Becomes(p, t) /\ t.at \notin {"download", "read"}
  BY <1>2
<1>4. \A q \in Procs : ~ HasOpen(q)'
  BY <1>0, <1>3 DEF Files, ArchiveStaysWhileRead, HasOpen, Becomes
<1>5. ArchiveStaysWhileRead'
  BY <1>4 DEF ArchiveStaysWhileRead, HasOpen
<1>6. \A q \in Procs : flock' # q
  BY <1>0, <1>1
<1>7. Kept' \ Opened' = Kept \ Opened
  <2>1. Opened = {d} /\ Opened' = {}
    BY <1>0, <1>1 DEF Opened
  <2>2. Kept' = Kept \ {d}
    BY <1>0, <1>1 DEF Kept
  <2> QED BY <2>1, <2>2
<1> QED BY <1>0, <1>5, <1>6, <1>7 DEF Files

(* A death leaves one directory more at most. *)
LEMMA CrashKeepsFiles ==
    ASSUME TypeOK, Located, Files, NEW p \in Procs, Crash(p)
    PROVE  Files'
<1> DEFINE d == <<p[1], proc[p].src>>
<1>0. /\ Becomes(p, NoProc) /\ NoProc.at = "gone" /\ None \notin Procs
      /\ crashes \in Nat /\ crashes' = crashes + 1
      /\ flock \in Procs \cup {None}
  BY LeaveBecomes, DiscoverAssumption DEF Crash, NoProc, TypeOK
<1>a. IsFiniteSet(Kept \ Opened) /\ Cardinality(Kept \ Opened) \in Nat
      /\ Cardinality(Kept \ Opened) <= crashes
  BY FS_CardinalityType DEF Files
<1>1. CASE flock # p
  <2>1. UNCHANGED diskVars
    BY <1>1 DEF Crash, diskVars
  <2>2. Opened' = Opened /\ Kept' = Kept
    BY <1>0, <1>1, <2>1 DEF Opened, Kept, Becomes, diskVars
  <2>3. Cardinality(Kept \ Opened) <= crashes'
    BY <1>0, <1>a
  <2>4. ArchiveStaysWhileRead'
    BY <1>0, <1>1, <2>1 DEF Files, ArchiveStaysWhileRead, Becomes, diskVars
  <2>5. \A q \in Procs : flock' = q => HasOpen(q)' /\ disk'[<<q[1], proc'[q].src>>] # "absent"
    BY <1>0, <1>1, <2>1 DEF Files, HasOpen, Becomes, diskVars
  <2> QED BY <1>a, <2>2, <2>3, <2>4, <2>5 DEF Files
<1>2. CASE flock = p
  <2>1. /\ HasOpen(p) /\ d \in DOMAIN disk
        /\ disk \in [Jobs \X DOMAIN Sources -> {"absent", "empty", "zip"}]
        /\ flock' = None /\ (disk' = disk \/ disk' = [disk EXCEPT ![d] = "empty"])
    BY <1>2, DirectoryOf DEF Crash, Files
  <2>2. Opened = {d} /\ Opened' = {}
    BY <1>0, <1>2, <2>1 DEF Opened
  <2>3. Kept' \ Opened' \subseteq (Kept \ Opened) \cup {d}
    BY <2>1, <2>2 DEF Kept
  <2>4. /\ IsFiniteSet((Kept \ Opened) \cup {d})
        /\ Cardinality((Kept \ Opened) \cup {d}) = Cardinality(Kept \ Opened) + 1
    BY <1>a, <2>2, FS_AddElement
  <2>5. IsFiniteSet(Kept' \ Opened') /\ Cardinality(Kept' \ Opened') \in Nat
        /\ Cardinality(Kept' \ Opened') <= Cardinality(Kept \ Opened) + 1
    BY <2>3, <2>4, FS_Subset, FS_CardinalityType
  <2>6. Cardinality(Kept' \ Opened') <= crashes'
    BY <1>0, <1>a, <2>5
  <2>7. \A q \in Procs : ~ HasOpen(q)'
    BY <1>0, <1>2 DEF Files, ArchiveStaysWhileRead, HasOpen, Becomes
  <2>8. ArchiveStaysWhileRead'
    BY <2>7 DEF ArchiveStaysWhileRead, HasOpen
  <2>9. \A q \in Procs : flock' # q
    BY <1>0, <2>1
  <2> QED BY <2>5, <2>6, <2>8, <2>9 DEF Files
<1> QED BY <1>1, <1>2

(* Every step keeps archives and directories. *)
LEMMA FilesStep ==
    ASSUME TypeOK, Located, Files, Next
    PROVE  Files'
<1>1. ASSUME NEW j \in Jobs, Take(j) PROVE Files'
  <2> DEFINE p == <<j, current[j] + 1>>
             t == [NoProc EXCEPT !.at = "start"]
  <2>1. p \in Procs /\ Becomes(p, t) /\ current[j] + 1 \notin live[j]
    BY <1>1, TakeBecomes
  <2>2. t.at = "start" /\ UNCHANGED <<diskVars, crashes>>
    BY <1>1 DEF NoProc, Take
  <2>3. ~ HasOpen(p)
    BY <2>1 DEF HasOpen, TypeOK
  <2> HIDE DEF t, p
  <2> QED BY <2>1, <2>2, <2>3, FilesFrame
<1>2. ASSUME NEW p \in Procs, Report(p) PROVE Files'
  <2>1. /\ Becomes(p, NoProc) /\ NoProc.at = "gone" /\ UNCHANGED <<diskVars, crashes>>
        /\ ~ HasOpen(p)
    BY <1>2, LeaveBecomes DEF Report, NoProc, HasOpen, faultVars
  <2> QED BY <2>1, FilesFrame
<1>3. CASE Cleanup
  <2>1. flock = None /\ flock' = None /\ UNCHANGED <<proc, crashes>>
    BY <1>3 DEF Cleanup, faultVars
  <2>2. \A q \in Procs : ~ HasOpen(q) /\ flock # q
    BY <2>1, DiscoverAssumption DEF Files, ArchiveStaysWhileRead, HasOpen
  <2>3. ArchiveStaysWhileRead'
    BY <2>1, <2>2 DEF ArchiveStaysWhileRead, HasOpen
  <2>4. Kept' \ Opened' \subseteq Kept \ Opened
    BY <1>3, <2>1 DEF Cleanup, Kept, Opened
  <2>5. IsFiniteSet(Kept' \ Opened') /\ Cardinality(Kept' \ Opened') <= Cardinality(Kept \ Opened)
        /\ Cardinality(Kept' \ Opened') \in Nat /\ Cardinality(Kept \ Opened) \in Nat
    BY <2>4, FS_Subset, FS_CardinalityType DEF Files
  <2>6. crashes \in Nat
    BY DiscoverAssumption DEF TypeOK
  <2>7. Cardinality(Kept' \ Opened') <= crashes'
    BY <2>1, <2>5, <2>6 DEF Files
  <2> QED BY <2>1, <2>2, <2>3, <2>5, <2>7 DEF Files
<1>4. ASSUME NEW j \in Jobs, Plan(j) \/ Request(j) \/ Serve(j) \/ Cancel(j) PROVE Files'
  <2>1. UNCHANGED <<disk, flock, proc, crashes>>
    BY <1>4 DEF Plan, Request, Serve, Cancel, diskVars, faultVars
  <2> QED BY <2>1 DEF Files, ArchiveStaysWhileRead, HasOpen, Kept, Opened
<1>5. ASSUME NEW p \in Procs, Handler(p) PROVE Files'
  BY <1>5, HandlerKeepsFiles, OpenKeepsFiles, HolderGoesOn, HolderDisposes DEF Handler
<1> QED BY <1>1, <1>2, <1>3, <1>4, <1>5, CrashKeepsFiles DEF Next

-----------------------------------------------------------------------------
(* Runs and jobs that nobody took over from a live attempt. *)

\* Such a job has one attempt at a time, the last, and none when it ended.
Alone ==
    \A j \in Jobs \ overtaken :
        live[j] # {} => live[j] = {current[j]} /\ phase[j] \in {"running", "cancelled"}

\* What its attempt is about to report is true of the run, and between attempts the run
\* is not RUNNING unless one died.
Reported ==
    /\ \A p \in Procs : p[1] \notin overtaken =>
         /\ proc[p].at = "cover" => run[p[1]].status = "SUCCEEDED"
         /\ proc[p].at = "returned" => /\ run[p[1]].status \in {"SUCCEEDED", "PARTIAL"}
                                       /\ run[p[1]].status = "SUCCEEDED" => coverage # None
         /\ crashes = 0 /\ proc[p].at \in {"start", "cover", "returned", "raised"}
              => run[p[1]].status # "RUNNING"
    /\ \A j \in Jobs \ overtaken :
         crashes = 0 /\ live[j] = {} => run[j].status # "RUNNING"

Settling == Alone /\ Reported /\ RunSettlesWithJob

(* It has one attempt only. *)
LEMMA OneAttempt ==
    ASSUME TypeOK, Alone, NEW p \in Procs, NEW q \in Procs, p[1] = q[1], p[1] \notin overtaken,
           proc[p].at # "gone", proc[q].at # "gone"
    PROVE  p = q
<1>1. p[2] \in live[p[1]] /\ q[2] \in live[p[1]] /\ p[1] \in Jobs
  BY ProcsAre DEF TypeOK
<1>2. p[2] = q[2]
  BY <1>1 DEF Alone
<1> QED BY <1>2, ProcsAre

(* A step of a handler that tells the truth keeps all this. *)
LEMMA HandlerSettles ==
    ASSUME TypeOK, Asked, Settling, NEW p \in Procs, Handler(p), NEW t, Becomes(p, t),
           t.at # "gone",
           p[1] \notin overtaken =>
             /\ t.at = "cover" => run'[p[1]].status = "SUCCEEDED"
             /\ t.at = "returned" => /\ run'[p[1]].status \in {"SUCCEEDED", "PARTIAL"}
                                     /\ run'[p[1]].status = "SUCCEEDED" => coverage' # None
             /\ crashes = 0 /\ t.at \in {"start", "cover", "returned", "raised"}
                  => run'[p[1]].status # "RUNNING"
    PROVE  Settling'
<1> DEFINE j == p[1]
<1>1. /\ UNCHANGED <<phase, current, live, overtaken, crashes>> /\ proc[p].at # "gone"
      /\ \A k \in Jobs : k # j => run'[k] = run[k]
      /\ coverage' = coverage \/ coverage' = j
  BY HandlerEffect DEF cvars, faultVars
<1>2. coverage # None => coverage' # None
  BY <1>1, ProcsAre, DiscoverAssumption
<1>3. j \in Jobs /\ live[j] # {} /\ (j \notin overtaken => phase[j] \in {"running", "cancelled"})
  BY <1>1, LiveWasAsked DEF Settling, Alone
<1>4. Alone'
  BY <1>1 DEF Settling, Alone
<1>5. Reported'
  <2>1. ASSUME NEW q \in Procs, q[1] \notin overtaken'
        PROVE  /\ proc'[q].at = "cover" => run'[q[1]].status = "SUCCEEDED"
               /\ proc'[q].at = "returned" =>
                    /\ run'[q[1]].status \in {"SUCCEEDED", "PARTIAL"}
                    /\ run'[q[1]].status = "SUCCEEDED" => coverage' # None
               /\ crashes' = 0 /\ proc'[q].at \in {"start", "cover", "returned", "raised"}
                    => run'[q[1]].status # "RUNNING"
    <3>1. CASE q = p
      BY <1>1, <2>1, <3>1 DEF Becomes
    <3>2. CASE q # p /\ q[1] = j
      <4>1. proc'[q] = proc[q] /\ proc[q].at = "gone"
        BY <1>1, <2>1, <3>2, OneAttempt DEF Becomes, Settling
      <4> QED BY <4>1
    <3>3. CASE q[1] # j
      <4>1. proc'[q] = proc[q] /\ run'[q[1]] = run[q[1]] /\ q[1] \notin overtaken
        BY <1>1, <2>1, <3>3, ProcsAre DEF Becomes
      <4> QED BY <1>1, <1>2, <4>1 DEF Settling, Reported
    <3> QED BY <3>1, <3>2, <3>3
  <2>2. \A k \in Jobs \ overtaken' : crashes' = 0 /\ live'[k] = {} => run'[k].status # "RUNNING"
    BY <1>1, <1>3 DEF Settling, Reported
  <2> QED BY <2>1, <2>2 DEF Reported
<1>6. RunSettlesWithJob'
  <2> SUFFICES ASSUME NEW k \in Jobs \ overtaken'
               PROVE  /\ phase'[k] = "succeeded" =>
                           /\ run'[k].status \in {"SUCCEEDED", "PARTIAL"}
                           /\ run'[k].status = "SUCCEEDED" => coverage' # None
                      /\ phase'[k] \in {"succeeded", "failed"} /\ crashes' = 0
                           => run'[k].status # "RUNNING"
    BY DEF RunSettlesWithJob
  <2>1. CASE k = j
    BY <1>1, <1>3, <2>1
  <2>2. CASE k # j
    BY <1>1, <1>2, <2>2 DEF Settling, RunSettlesWithJob
  <2> QED BY <2>1, <2>2
<1> QED BY <1>4, <1>5, <1>6 DEF Settling

(* Every handler does. *)
LEMMA AllHandlersSettle ==
    ASSUME TypeOK, Located, Asked, Settling, NEW p \in Procs, Handler(p)
    PROVE  Settling'
<1> DEFINE j == p[1]
<1>0. /\ proc[p] \in Attempt /\ j \in Jobs /\ run[j] \in Status
      /\ None \notin Jobs
  BY ProcsAre, DiscoverAssumption DEF TypeOK, Status
<1>a. ASSUME NEW t, Becomes(p, t), t.at \in {"next", "download", "read", "failing"}
      PROVE  Settling'
  BY <1>a, HandlerSettles
<1>1. CASE Refuse(p)
  <2> DEFINE t == [proc[p] EXCEPT !.at = "raised"]
  <2>1. Becomes(p, t)
    BY <1>1, GotoBecomes DEF Refuse, Stage
  <2>2. t.at = "raised"
    BY <1>0 DEF Attempt
  <2>3. j \notin overtaken /\ crashes = 0 => run'[j].status # "RUNNING"
    BY <1>1 DEF Refuse, dbVars, Settling, Reported
  <2> HIDE DEF t
  <2> QED BY <2>1, <2>2, <2>3, HandlerSettles
<1>2. CASE Start(p)
  <2> DEFINE t == [proc[p] EXCEPT !.at = "next", !.src = 1, !.seen = run[p[1]].complete]
  <2>1. Becomes(p, t)
    BY <1>2, StartBecomes
  <2>2. t.at = "next"
    BY <1>0 DEF Attempt
  <2> HIDE DEF t
  <2> QED BY <1>a, <2>1, <2>2
<1>3. CASE Skip(p)
  <2> DEFINE t == [proc[p] EXCEPT !.src = proc[p].src + 1,
                         !.left = LeftAfter(p, proc[p].src + 1),
                         !.capped = @ \/ proc[p].src \in Establishments]
  <2>1. Becomes(p, t)
    BY <1>3, SkipBecomes
  <2>2. t.at = "next"
    BY <1>0, <1>3 DEF Attempt, Skip
  <2> HIDE DEF t
  <2> QED BY <1>a, <2>1, <2>2
<1>4. CASE Open(p) \/ SourceFails(p)
  <2>1. Goto(p, "download") \/ Leaving(p, "failing")
    BY <1>4 DEF Open, SourceFails
  <2>2. CASE Goto(p, "download")
    <3> DEFINE t == [proc[p] EXCEPT !.at = "download"]
    <3>1. Becomes(p, t)
      BY <2>2, GotoBecomes DEF Stage
    <3>2. t.at = "download"
      BY <1>0 DEF Attempt
    <3> HIDE DEF t
    <3> QED BY <1>a, <3>1, <3>2
  <2>3. CASE Leaving(p, "failing")
    <3> DEFINE t == [NoProc EXCEPT !.at = "failing", !.seen = proc[p].seen]
    <3>1. Becomes(p, t)
      BY <2>3, LeavingBecomes DEF Stage
    <3>2. t.at = "failing"
      BY DEF NoProc
    <3> HIDE DEF t
    <3> QED BY <1>a, <3>1, <3>2
  <2> QED BY <2>1, <2>2, <2>3
<1>5. CASE Fetch(p)
  <2> DEFINE t == [proc[p] EXCEPT !.at = "read", !.row = 1]
  <2>1. Becomes(p, t)
    BY <1>5, FetchBecomes
  <2>2. t.at = "read"
    BY <1>0 DEF Attempt
  <2> HIDE DEF t
  <2> QED BY <1>a, <2>1, <2>2
<1>6. CASE Ingest(p)
  <2> DEFINE t == [proc[p] EXCEPT !.row = proc[p].row + 1, !.matches = proc[p].matches + 1,
                                  !.capped = AtLimit(p[1], proc[p].matches + 1)]
  <2>1. Becomes(p, t)
    BY <1>6, IngestBecomes
  <2>2. t.at = "read"
    BY <1>0, <1>6 DEF Attempt, Ingest, Reading
  <2> HIDE DEF t
  <2> QED BY <1>a, <2>1, <2>2
<1>7. CASE Close(p)
  <2>1. proc[p].src \in DOMAIN Sources
    BY <1>7 DEF Close, Located, HasOpen
  <2>2. PICK left \in SUBSET Complements :
          Becomes(p, [proc[p] EXCEPT !.at = "next", !.src = proc[p].src + 1, !.row = 0,
                                     !.left = left])
    BY <1>7, <2>1, CloseBecomes
  <2> DEFINE t == [proc[p] EXCEPT !.at = "next", !.src = proc[p].src + 1, !.row = 0,
                                  !.left = left]
  <2>3. Becomes(p, t)
    BY <2>2
  <2>4. t.at = "next"
    BY <1>0 DEF Attempt
  <2> HIDE DEF t
  <2> QED BY <1>a, <2>3, <2>4
<1>8. CASE SaveFailed(p)
  <2> DEFINE t == [NoProc EXCEPT !.at = "raised", !.seen = "none"]
  <2>1. Becomes(p, t)
    BY <1>8, LeavingBecomes DEF SaveFailed, Stage
  <2>2. t.at = "raised"
    BY DEF NoProc
  <2>3. run'[j].status = "FAILED"
    BY <1>0, <1>8 DEF SaveFailed, TypeOK
  <2> HIDE DEF t
  <2> QED BY <2>1, <2>2, <2>3, HandlerSettles
<1>9. CASE Finish(p)
  <2> DEFINE at == IF Partial(p) THEN "returned" ELSE "cover"
             t == [NoProc EXCEPT !.at = at, !.seen = "none"]
  <2>1. at \in Stage /\ at # "failing"
    BY DEF Stage
  <2>2. Becomes(p, t)
    BY <1>9, <2>1, LeavingBecomes DEF Finish
  <2>3. t.at = at
    BY DEF NoProc
  <2>4. \/ at = "returned" /\ run'[j].status = "PARTIAL"
        \/ at = "cover" /\ run'[j].status = "SUCCEEDED"
    BY <1>0, <1>9 DEF Finish, TypeOK
  <2> HIDE DEF t, at
  <2> QED BY <2>2, <2>3, <2>4, HandlerSettles
<1>10. CASE RecordCoverage(p)
  <2>1. \/ Leaving(p, "returned") /\ coverage' = j
        \/ Leaving(p, "raised")
    BY <1>10 DEF RecordCoverage
  <2>2. run' = run /\ (j \notin overtaken => run[j].status = "SUCCEEDED")
    BY <1>10 DEF RecordCoverage, Settling, Reported
  <2>3. CASE Leaving(p, "returned") /\ coverage' = j
    <3> DEFINE t == [NoProc EXCEPT !.at = "returned", !.seen = "none"]
    <3>1. Becomes(p, t)
      BY <2>3, LeavingBecomes DEF Stage
    <3>2. t.at = "returned"
      BY DEF NoProc
    <3> HIDE DEF t
    <3> QED BY <1>0, <2>2, <2>3, <3>1, <3>2, HandlerSettles
  <2>4. CASE Leaving(p, "raised")
    <3> DEFINE t == [NoProc EXCEPT !.at = "raised", !.seen = "none"]
    <3>1. Becomes(p, t)
      BY <2>4, LeavingBecomes DEF Stage
    <3>2. t.at = "raised"
      BY DEF NoProc
    <3> HIDE DEF t
    <3> QED BY <2>2, <3>1, <3>2, HandlerSettles
  <2> QED BY <2>1, <2>3, <2>4
<1> QED BY <1>1, <1>2, <1>3, <1>4, <1>5, <1>6, <1>7, <1>8, <1>9, <1>10 DEF Handler

(* A claim takes only jobs nobody executes, or records that it takes them over. *)
LEMMA TakeSettles ==
    ASSUME TypeOK, Asked, Settling, NEW j \in Jobs, Take(j)
    PROVE  Settling'
<1> DEFINE n == current[j] + 1
           new == <<j, n>>
           t == [NoProc EXCEPT !.at = "start"]
<1>1. new \in Procs /\ Becomes(new, t) /\ t.at = "start"
  BY TakeBecomes DEF NoProc
<1>2. PICK stolen \in SUBSET {k \in Jobs : live[k] # {}} :
        /\ \E lapsed \in SUBSET Lapsed(stolen) : stolen \subseteq lapsed /\ Begin(j, lapsed)
        /\ overtaken' = overtaken \cup stolen
  BY DEF Take
<1>3. PICK lapsed \in SUBSET Lapsed(stolen) : Begin(j, lapsed)
  BY <1>2
<1>4. /\ UNCHANGED <<dbVars, crashes>>
      /\ \A k \in Jobs \ overtaken' : k \notin overtaken /\ k \notin stolen
  BY <1>2 DEF Take
<1>5. /\ \A k \in Jobs : phase'[k] = IF k = j THEN "running"
                                     ELSE IF k \in lapsed THEN "queued" ELSE phase[k]
      /\ live'[j] = live[j] \cup {n} /\ \A k \in Jobs : k # j => live'[k] = live[k]
      /\ current'[j] = n /\ \A k \in Jobs : k # j => current'[k] = current[k]
  BY <1>3 DEF Begin, TypeOK
<1>6. \A k \in Jobs \ overtaken' : k \in lapsed => live[k] = {}
  BY <1>3, <1>4 DEF Lapsed
<1>7. j \notin overtaken' => live[j] = {}
  <2> SUFFICES ASSUME j \notin overtaken' PROVE live[j] = {}
    OBVIOUS
  <2>1. CASE j \in lapsed
    BY <1>6, <2>1
  <2>2. CASE j \notin lapsed
    <3>1. phase[j] = "queued"
      BY <1>3, <2>2 DEF Begin
    <3> QED BY <1>4, <3>1 DEF Settling, Alone
  <2> QED BY <2>1, <2>2
<1> HIDE DEF t, n
<1>8. Alone'
  <2> SUFFICES ASSUME NEW k \in Jobs \ overtaken', live'[k] # {}
               PROVE  live'[k] = {current'[k]} /\ phase'[k] \in {"running", "cancelled"}
    BY DEF Alone
  <2>1. CASE k = j
    BY <1>5, <1>7, <2>1
  <2>2. CASE k # j
    <3>1. live[k] # {} /\ k \notin lapsed /\ live[k] = {current[k]} /\ phase[k] \in {"running", "cancelled"}
      BY <1>4, <1>5, <1>6, <2>2 DEF Settling, Alone
    <3> QED BY <1>5, <2>2, <3>1
  <2> QED BY <2>1, <2>2
<1>9. Reported'
  <2>1. ASSUME NEW q \in Procs, q[1] \notin overtaken'
        PROVE  /\ proc'[q].at = "cover" => run'[q[1]].status = "SUCCEEDED"
               /\ proc'[q].at = "returned" =>
                    /\ run'[q[1]].status \in {"SUCCEEDED", "PARTIAL"}
                    /\ run'[q[1]].status = "SUCCEEDED" => coverage' # None
               /\ crashes' = 0 /\ proc'[q].at \in {"start", "cover", "returned", "raised"}
                    => run'[q[1]].status # "RUNNING"
    <3>1. q[1] \in Jobs /\ q[1] \notin overtaken /\ UNCHANGED <<run, coverage, crashes>>
      BY <1>4, <2>1, ProcsAre DEF dbVars
    <3>2. CASE q = new
      <4>1. q[1] = j /\ proc'[q].at = "start"
        BY <1>1, <3>2 DEF Becomes
      <4>2. crashes = 0 => run[j].status # "RUNNING"
        BY <1>7, <2>1, <3>1, <4>1 DEF Settling, Reported
      <4> QED BY <3>1, <4>1, <4>2
    <3>3. CASE q # new
      <4>1. proc'[q] = proc[q]
        BY <1>1, <3>3 DEF Becomes
      <4> QED BY <3>1, <4>1 DEF Settling, Reported
    <3> QED BY <3>2, <3>3
  <2>2. \A k \in Jobs \ overtaken' : crashes' = 0 /\ live'[k] = {} => run'[k].status # "RUNNING"
    BY <1>4, <1>5 DEF Settling, Reported, dbVars
  <2> QED BY <2>1, <2>2 DEF Reported
<1>10. RunSettlesWithJob'
  <2>1. \A k \in Jobs : phase'[k] \in {"succeeded", "failed"} => phase'[k] = phase[k]
    BY <1>5
  <2> QED BY <1>4, <2>1 DEF Settling, RunSettlesWithJob, dbVars
<1> QED BY <1>8, <1>9, <1>10 DEF Settling

(* A verdict says what the run says, and a death is counted. *)
LEMMA EndSettles ==
    ASSUME TypeOK, Asked, Settling, NEW p \in Procs, Report(p) \/ Crash(p)
    PROVE  Settling'
<1> DEFINE j == p[1]
<1>1. /\ Becomes(p, NoProc) /\ NoProc.at = "gone" /\ proc[p].at # "gone"
      /\ UNCHANGED <<dbVars, overtaken>> /\ j \in Jobs
  BY LeaveBecomes, ProcsAre DEF Report, Crash, NoProc, faultVars
<1>2. /\ live'[j] = live[j] \ {p[2]} /\ \A k \in Jobs : k # j => live'[k] = live[k]
      /\ current' = current /\ \A k \in Jobs : k # j => phase'[k] = phase[k]
  BY <1>1 DEF Report, Crash, Vanish, Conclude, TypeOK
<1>3. j \notin overtaken => live[j] = {p[2]} /\ live'[j] = {} /\ phase[j] \in {"running", "cancelled"}
  BY <1>1, <1>2 DEF Settling, Alone, TypeOK
<1>4. /\ crashes' = 0 => crashes = 0 /\ proc[p].at \in {"returned", "raised"}
      /\ \/ phase'[j] = phase[j] \/ phase'[j] = "queued"
         \/ phase'[j] = "succeeded" /\ proc[p].at = "returned"
         \/ phase'[j] = "failed" /\ proc[p].at \in {"returned", "raised"}
  <2>1. crashes \in Nat
    BY DiscoverAssumption DEF TypeOK
  <2> QED BY <1>1, <2>1 DEF Report, Crash, Vanish, Conclude, faultVars, TypeOK
<1>5. j \notin overtaken /\ crashes' = 0 => run[j].status # "RUNNING"
  BY <1>4 DEF Settling, Reported
<1>6. Alone'
  BY <1>1, <1>2, <1>3 DEF Settling, Alone
<1>7. Reported'
  <2>1. ASSUME NEW q \in Procs, q[1] \notin overtaken'
        PROVE  /\ proc'[q].at = "cover" => run'[q[1]].status = "SUCCEEDED"
               /\ proc'[q].at = "returned" =>
                    /\ run'[q[1]].status \in {"SUCCEEDED", "PARTIAL"}
                    /\ run'[q[1]].status = "SUCCEEDED" => coverage' # None
               /\ crashes' = 0 /\ proc'[q].at \in {"start", "cover", "returned", "raised"}
                    => run'[q[1]].status # "RUNNING"
    <3>1. CASE q = p
      BY <1>1, <3>1 DEF Becomes
    <3>2. CASE q # p
      <4>1. proc'[q] = proc[q] /\ UNCHANGED <<run, coverage>> /\ q[1] \notin overtaken
        BY <1>1, <2>1, <3>2 DEF Becomes, dbVars
      <4> QED BY <1>4, <4>1 DEF Settling, Reported
    <3> QED BY <3>1, <3>2
  <2>2. \A k \in Jobs \ overtaken' : crashes' = 0 /\ live'[k] = {} => run'[k].status # "RUNNING"
    BY <1>1, <1>2, <1>4, <1>5 DEF Settling, Reported, dbVars
  <2> QED BY <2>1, <2>2 DEF Reported
<1>8. RunSettlesWithJob'
  <2> SUFFICES ASSUME NEW k \in Jobs \ overtaken'
               PROVE  /\ phase'[k] = "succeeded" =>
                           /\ run'[k].status \in {"SUCCEEDED", "PARTIAL"}
                           /\ run'[k].status = "SUCCEEDED" => coverage' # None
                      /\ phase'[k] \in {"succeeded", "failed"} /\ crashes' = 0
                           => run'[k].status # "RUNNING"
    BY DEF RunSettlesWithJob
  <2>1. UNCHANGED <<run, coverage>> /\ k \notin overtaken
    BY <1>1 DEF dbVars
  <2>2. CASE k = j
    <3>1. phase[j] \in {"running", "cancelled"}
      BY <1>3, <2>1, <2>2
    <3>2. proc[p].at = "returned" => /\ run[j].status \in {"SUCCEEDED", "PARTIAL"}
                                     /\ run[j].status = "SUCCEEDED" => coverage # None
      BY <2>1, <2>2 DEF Settling, Reported
    <3> QED BY <1>4, <1>5, <2>1, <2>2, <3>1, <3>2
  <2>3. CASE k # j
    BY <1>2, <1>4, <2>1, <2>3 DEF Settling, RunSettlesWithJob
  <2> QED BY <2>2, <2>3
<1> QED BY <1>6, <1>7, <1>8 DEF Settling

(* The views and the cleanup touch no job that has an attempt or ended. *)
LEMMA ViewsSettle ==
    ASSUME TypeOK, Asked, Settling,
           (\E j \in Jobs : Plan(j) \/ Request(j) \/ Serve(j) \/ Cancel(j)) \/ Cleanup
    PROVE  Settling'
<1>1. ASSUME NEW j \in Jobs, Plan(j) PROVE Settling'
  BY <1>1 DEF Plan, Settling, Alone, Reported, RunSettlesWithJob, cvars, faultVars
<1>2. ASSUME NEW j \in Jobs, Request(j) \/ Serve(j) PROVE Settling'
  <2>1. /\ UNCHANGED <<current, live, coverage, proc, overtaken, crashes>>
        /\ run[j].status = "NONE" /\ run'[j].status \notin {"RUNNING"}
        /\ \A k \in Jobs : k # j => run'[k] = run[k] /\ phase'[k] = phase[k]
    BY <1>2 DEF Request, Submit, Serve, TypeOK, cvars, faultVars
  <2>2. phase[j] = "absent" /\ live[j] = {} /\ \A q \in Procs : proc[q].at # "gone" => q[1] # j
    BY <2>1, LiveWasAsked DEF Asked
  <2>3. phase'[j] \in {"absent", "queued"}
    BY <1>2, <2>2 DEF Request, Submit, Serve, TypeOK, cvars
  <2>4. Alone'
    BY <2>1, <2>2 DEF Settling, Alone
  <2>5. Reported'
    BY <2>1, <2>2, ProcsAre DEF Settling, Reported
  <2>6. RunSettlesWithJob'
    BY <2>1, <2>3 DEF Settling, RunSettlesWithJob
  <2> QED BY <2>4, <2>5, <2>6 DEF Settling
<1>3. ASSUME NEW j \in Jobs, Cancel(j) PROVE Settling'
  <2>1. /\ UNCHANGED <<current, live, run, coverage, proc, overtaken, crashes>>
        /\ phase'[j] = "cancelled" /\ \A k \in Jobs : k # j => phase'[k] = phase[k]
    BY <1>3 DEF Cancel, Withdraw, TypeOK, dbVars, faultVars
  <2> QED BY <2>1 DEF Settling, Alone, Reported, RunSettlesWithJob
<1>4. CASE Cleanup
  BY <1>4 DEF Cleanup, Settling, Alone, Reported, RunSettlesWithJob, cvars, dbVars, faultVars
<1> QED BY <1>1, <1>2, <1>3, <1>4

-----------------------------------------------------------------------------
(* The theorems. *)

IInv == /\ TypeOK /\ Located /\ Asked
        /\ Counts /\ InOrder /\ Within /\ Complete
        /\ Files /\ Settling

(* At first nothing was asked and the disk is empty. *)
LEMMA InitIInv == Init => IInv
<1> SUFFICES ASSUME Init PROVE IInv
  OBVIOUS
<1>1. /\ \A j \in Jobs : /\ phase[j] = "absent" /\ live[j] = {} /\ current[j] = 0 /\ plan[j] = None
                         /\ run[j] = [status |-> "NONE", complete |-> "none"] /\ results[j] = {}
                         /\ limit[j] = 0
      /\ \A p \in Procs : proc[p] = NoProc
      /\ coverage = None /\ flock = None /\ crashes = 0 /\ overtaken = {}
  BY DEF Init, ContractInit
<1>2. NoProc \in Attempt /\ NoProc.at = "gone" /\ NoProc.seen = "none"
  <2>1. "gone" \in Stage
    BY DEF Stage
  <2> QED BY <2>1, NoProcTyped DEF NoProc
<1>3. TypeOK
  <2>1. proc \in [Procs -> Attempt] /\ \A p \in Procs : proc[p].at # "gone" <=> p[2] \in live[p[1]]
    BY <1>1, <1>2, ProcsAre DEF Init
  <2>2. /\ run \in [Jobs -> [status : RunStatus, complete : {"none", "yes", "no"}]]
        /\ results \in [Jobs -> SUBSET Rows] /\ limit \in [Jobs -> Nat]
        /\ plan \in [Jobs -> Jobs \cup {None, "collect"}]
        /\ disk \in [Jobs \X DOMAIN Sources -> {"absent", "empty", "zip"}]
    BY DEF Init, RunStatus
  <2>3. /\ phase \in [Jobs -> {"absent", "queued", "running", "succeeded", "failed", "cancelled"}]
        /\ current \in [Jobs -> 0..MaxRuns] /\ live \in [Jobs -> SUBSET (1..MaxRuns)]
        /\ \A j \in Jobs : live[j] \subseteq 1..current[j]
    <3>1. 0 \in 0..MaxRuns
      BY DiscoverAssumption
    <3> QED BY <3>1 DEF Init, ContractInit
  <2>4. overtaken \subseteq Jobs /\ crashes \in 0..MaxCrashes
    BY <1>1, DiscoverAssumption
  <2> QED BY <1>1, <2>1, <2>2, <2>3, <2>4 DEF TypeOK
<1>4. Located /\ Counts
  BY <1>1, <1>2 DEF Located, Counts, CountsOf, HasOpen, Working
<1>5. Asked
  <2>1. None \notin Jobs
    BY DiscoverAssumption
  <2>2. ASSUME NEW j \in Jobs PROVE run[j].status = "NONE" /\ run[j].complete = "none"
    BY <1>1
  <2> QED BY <1>1, <2>1, <2>2 DEF Asked
<1>6. InOrder /\ Within
  BY <1>1, FS_EmptySet DEF InOrder, Within
<1>7. Complete
  BY <1>1, <1>2, DiscoverAssumption DEF Complete, CompleteMeansEveryRow
<1>8. Files
  <2>1. Kept = {}
    BY DEF Init, Kept
  <2> QED BY <1>1, <1>2, <2>1, FS_EmptySet, DiscoverAssumption
          DEF Files, ArchiveStaysWhileRead, Opened
<1>9. Settling
  BY <1>1, <1>2 DEF Settling, Alone, Reported, RunSettlesWithJob
<1> QED BY <1>3, <1>4, <1>5, <1>6, <1>7, <1>8, <1>9 DEF IInv

(* Every step keeps the invariant. *)
LEMMA NextIInv == IInv /\ [Next]_vars => IInv'
<1> SUFFICES ASSUME IInv, [Next]_vars PROVE IInv'
  OBVIOUS
<1>1. CASE UNCHANGED vars
  BY <1>1 DEF vars, cvars, dbVars, diskVars, faultVars, IInv, TypeOK, Located, Asked, Counts,
              CountsOf, InOrder, Within, Complete, CompleteMeansEveryRow, Files,
              ArchiveStaysWhileRead, Kept, Opened, HasOpen, Settling, Alone, Reported,
              RunSettlesWithJob
<1>2. CASE Next
  <2>1. TypeOK' /\ Located'
    <3>1. ASSUME NEW p \in Procs, Handler(p) PROVE TypeOK' /\ Located'
      BY <3>1, HandlerTyped DEF IInv
    <3>2. ASSUME NEW j \in Jobs, Plan(j) \/ Request(j) \/ Serve(j) \/ Cancel(j)
          PROVE  TypeOK' /\ Located'
      <4>1. proc' = proc
        BY <3>2 DEF Plan, Request, Serve, Cancel
      <4> QED BY <3>2, <4>1, ViewsTyped DEF IInv, Located, HasOpen
    <3> QED BY <1>2, <3>1, <3>2, QueueTyped DEF Next, IInv
  <2>2. Asked'
    BY <1>2, AskedStep DEF IInv
  <2>3. Counts' /\ InOrder' /\ Within'
    BY <1>2, GatheredStep DEF IInv
  <2>4. Complete'
    BY <1>2, <2>1, CompleteStep DEF IInv
  <2>5. Files'
    BY <1>2, FilesStep DEF IInv
  <2>6. Settling'
    BY <1>2, AllHandlersSettle, TakeSettles, EndSettles, ViewsSettle DEF IInv, Next
  <2> QED BY <2>1, <2>2, <2>3, <2>4, <2>5, <2>6 DEF IInv
<1> QED BY <1>1, <1>2 DEF Next

(* Every reachable state of requests, attempts, runs and disk is well typed. *)
THEOREM DiscoverRunTyped == Spec => []TypeOK
<1>1. IInv => TypeOK
  BY DEF IInv
<1> QED BY InitIInv, NextIInv, <1>1, PTL DEF Spec

(* What passes for complete has every matching row, whatever attempts put it together and
   whoever was answered from it. *)
THEOREM CompleteAlwaysMeansEveryRow == Spec => []CompleteMeansEveryRow
<1>1. IInv => CompleteMeansEveryRow
  BY DEF IInv, Complete
<1> QED BY InitIInv, NextIInv, <1>1, PTL DEF Spec

(* The limit holds of the run, although each attempt counts for itself. *)
THEOREM ResultsAlwaysWithinLimit == Spec => []ResultsWithinLimit
<1>1. IInv => ResultsWithinLimit
  BY DEF IInv, Within, ResultsWithinLimit
<1> QED BY InitIInv, NextIInv, <1>1, PTL DEF Spec

(* Nobody but its attempt removes an archive that is read. *)
THEOREM ArchivesAlwaysStay == Spec => []ArchiveStaysWhileRead
<1>1. IInv => ArchiveStaysWhileRead
  BY DEF IInv, Files
<1> QED BY InitIInv, NextIInv, <1>1, PTL DEF Spec

(* The disk holds the directory in use and one for each death at most. *)
THEOREM TempSpaceAlwaysBounded == Spec => []TempSpaceIsBounded
<1>1. IInv => TempSpaceIsBounded
  <2> SUFFICES ASSUME IInv PROVE TempSpaceIsBounded
    OBVIOUS
  <2>1. Opened \subseteq Kept
    <3>1. CASE flock = None
      BY <3>1 DEF Opened
    <3>2. CASE flock # None
      <4>1. flock \in Procs /\ HasOpen(flock) /\ disk[<<flock[1], proc[flock].src>>] # "absent"
        BY <3>2 DEF IInv, Files, TypeOK
      <4>2. <<flock[1], proc[flock].src>> \in DOMAIN disk
        BY <4>1, DirectoryOf DEF IInv
      <4> QED BY <3>2, <4>1, <4>2 DEF Opened, Kept
    <3> QED BY <3>1, <3>2
  <2> QED BY <2>1 DEF IInv, Files, TempSpaceIsBounded, Kept, Opened
<1> QED BY InitIInv, NextIInv, <1>1, PTL DEF Spec

(* The run of a job that was not overtaken ends as its job does. *)
THEOREM RunsAlwaysSettle == Spec => []RunSettlesWithJob
<1>1. IInv => RunSettlesWithJob
  BY DEF IInv, Settling
<1> QED BY InitIInv, NextIInv, <1>1, PTL DEF Spec

(* No step changes the run of an ended job that was not overtaken. *)
THEOREM RunsAlwaysFinal == Spec => RunsAreFinalUnlessOvertaken
<1>1. IInv /\ [Next]_vars => [\A j \in Jobs \ overtaken : RunIsFinal(j)]_vars
  <2> SUFFICES ASSUME IInv, Next, NEW j \in Jobs \ overtaken, phase[j] \in {"succeeded", "failed"}
               PROVE  run'[j] = run[j]
    BY DEF RunIsFinal
  <2>1. live[j] = {} /\ run[j].status # "NONE" /\ phase[j] # "absent"
    BY DEF IInv, Settling, Alone, Asked
  <2>2. ASSUME NEW p \in Procs, Handler(p) PROVE run'[j] = run[j]
    <3>1. proc[p].at # "gone" /\ \A k \in Jobs : k # p[1] => run'[k] = run[k]
      BY <2>2, HandlerEffect DEF IInv
    <3>2. live[p[1]] # {}
      BY <3>1, LiveWasAsked DEF IInv
    <3> QED BY <2>1, <3>1, <3>2
  <2>3. ASSUME NEW k \in Jobs, Plan(k) \/ Request(k) \/ Serve(k) PROVE run'[j] = run[j]
    <3>1. k # j
      BY <2>1, <2>3 DEF Plan, Request, Serve
    <3> QED BY <2>3, <3>1 DEF Plan, Request, Serve, IInv, TypeOK
  <2>4. ASSUME \/ \E k \in Jobs : Take(k) \/ Cancel(k)
               \/ \E p \in Procs : Report(p) \/ Crash(p)
               \/ Cleanup
        PROVE  run'[j] = run[j]
    BY <2>4 DEF Take, Cancel, Report, Crash, Cleanup, dbVars
  <2> QED BY <2>2, <2>3, <2>4 DEF Next
<1> QED BY InitIInv, NextIInv, <1>1, PTL DEF Spec, RunsAreFinalUnlessOvertaken

(* docs/deployment.md:85 holds until an attempt dies: as long as none did, a job that is
   about to open a file finds no directory of an earlier attempt in its way. *)
THEOREM OnlyDeathsBlockResumption == Spec => [](crashes = 0 => InterruptedJobsResume)
<1>1. IInv => (crashes = 0 => InterruptedJobsResume)
  <2> SUFFICES ASSUME IInv, crashes = 0, flock = None, NEW p \in Procs,
                      proc[p].src \in Requested(p[1])
               PROVE  disk[<<p[1], proc[p].src>>] = "absent"
    BY DEF InterruptedJobsResume
  <2>1. Kept \ Opened = {}
    <3>1. IsFiniteSet(Kept \ Opened) /\ Cardinality(Kept \ Opened) <= 0
      BY DEF IInv, Files
    <3>2. Cardinality(Kept \ Opened) = 0
      BY <3>1, FS_CardinalityType
    <3> QED BY <3>1, <3>2, FS_EmptySet
  <2>2. <<p[1], proc[p].src>> \in DOMAIN disk
    BY ProcsAre, FilesAre DEF IInv, TypeOK
  <2> QED BY <2>1, <2>2 DEF Kept, Opened
<1> QED BY InitIInv, NextIInv, <1>1, PTL DEF Spec

(* The views, the handler and its faults use the queue as JobContract says, the contract
   that the lease protocol implements (JobQueueProofs): the handler writes to the job row by
   the verdict of its latest attempt only, and every other step of it is a stutter there. *)
THEOREM DiscoverKeepsContract == Spec => ContractSpec
<1>1. TypeOK /\ [Next]_vars => [ContractNext]_cvars
  <2> SUFFICES ASSUME TypeOK, [Next]_vars PROVE ContractNext \/ UNCHANGED cvars
    OBVIOUS
  <2>1. ASSUME NEW p \in Procs, Handler(p) PROVE UNCHANGED cvars
    BY <2>1, HandlerEffect
  <2>2. ASSUME NEW j \in Jobs, Plan(j) \/ Serve(j) PROVE UNCHANGED cvars
    BY <2>2 DEF Plan, Serve
  <2>3. ASSUME NEW j \in Jobs, Request(j) \/ Cancel(j) PROVE ContractNext
    BY <2>3 DEF Request, Cancel, ContractNext
  <2>4. ASSUME NEW j \in Jobs, Take(j) PROVE ContractNext
    <3>1. PICK lapsed \in SUBSET Jobs : Begin(j, lapsed)
      BY <2>4 DEF Take, Lapsed
    <3> QED BY <3>1 DEF ContractNext
  <2>5. ASSUME NEW p \in Procs, Report(p) PROVE ContractNext
    <3>1. p[1] \in Jobs /\ p[2] \in live[p[1]]
      BY <2>5, ProcsAre DEF Report, TypeOK
    <3>2. \/ \E next \in {"succeeded", "queued", "failed"} : Conclude(p[1], p[2], next)
          \/ Vanish(p[1], p[2])
      BY <2>5 DEF Report
    <3> QED BY <3>1, <3>2 DEF ContractNext
  <2>6. ASSUME NEW p \in Procs, Crash(p) PROVE ContractNext
    <3>1. p[1] \in Jobs /\ p[2] \in live[p[1]] /\ Vanish(p[1], p[2])
      BY <2>6, ProcsAre DEF Crash, TypeOK
    <3> QED BY <3>1 DEF ContractNext
  <2>7. Cleanup \/ UNCHANGED vars => UNCHANGED cvars
    BY DEF Cleanup, vars
  <2> QED BY <2>1, <2>2, <2>3, <2>4, <2>5, <2>6, <2>7 DEF Next
<1>2. Init => ContractInit
  BY DEF Init
<1>3. [](TypeOK) /\ [][Next]_vars => [][ContractNext]_cvars
  BY <1>1, PTL
<1> QED BY <1>2, <1>3, DiscoverRunTyped, PTL DEF Spec, ContractSpec
=============================================================================
