--------------------------- MODULE CatalogueProofs ---------------------------
(* Theorems about Catalogue, for any competences, syncs, requests, users and forms. *)
EXTENDS Catalogue, FiniteSetTheorems, SequenceTheorems, WellFoundedInduction, TLAPS

-----------------------------------------------------------------------------
(* The latest competence                                                     *)

(* A set of natural numbers that is not empty has a least one. *)
LEMMA LeastNat ==
    ASSUME NEW S \in SUBSET Nat, S # {}
    PROVE  \E k \in S : \A m \in S : k <= m
<1>1. PICK k \in S : \A m \in S : ~ (<<m, k>> \in OpToRel(<, Nat))
  BY NatLessThanWellFounded, WFMin
<1>2. ASSUME NEW m \in S PROVE k <= m
  <2>1. m \in Nat /\ k \in Nat
    OBVIOUS
  <2>2. m < k => <<m, k>> \in OpToRel(<, Nat)
    BY <2>1, Zenon DEF OpToRel
  <2>3. ~ (m < k)
    BY <1>1, <2>2, Zenon
  <2> QED BY <2>1, <2>3
<1> QED BY <1>2

(* Competences are numbers. *)
LEMMA NamesAreNat == Competences \subseteq Nat /\ LastName \in Nat
<1>1. LastName \in Nat
  BY SMT DEF LastName
<1> QED BY <1>1, CatalogueAssumption

(* Of the competences listed the last one is chosen: none is later. *)
LEMMA LatestIsLast ==
    ASSUME NEW C \in SUBSET Competences, C # {}
    PROVE  Latest(C) \in C /\ \A c \in C : c <= Latest(C)
<1> DEFINE S == {LastName - c : c \in C}
<1>1. LastName \in Nat
  BY NamesAreNat
<1>2. \A c \in C : c \in Nat /\ LastName - c \in Nat
  BY <1>1, CatalogueAssumption
<1>3. S \in SUBSET Nat
  BY <1>2
<1>4. S # {}
  OBVIOUS
<1>5. PICK k \in S : \A m \in S : k <= m
  <2> HIDE DEF S
  <2> QED BY <1>3, <1>4, LeastNat
<1>6. PICK c \in C : k = LastName - c
  OBVIOUS
<1>7. \A d \in C : d <= c
  <2> TAKE d \in C
  <2>1. LastName - c <= LastName - d
    BY <1>5, <1>6
  <2> QED BY <2>1, <1>1, <1>2
<1> QED BY <1>7 DEF Latest

-----------------------------------------------------------------------------
(* The invariant                                                             *)

Establishments == UNION {Register[c] : c \in Competences}
Scopes == {Scope(q) : q \in AllQueries}
RunRow == [query : AllQueries, mode : Modes, max_results : Nat, reference : Competences,
           results : SUBSET Establishments, status : RunStatus]
Plan == [query : AllQueries, mode : Modes, max_results : Nat, reference : Competences,
         source : Nat]

ManifestTyped ==
    /\ remote \in [Competences -> {"absent", "partial", "whole"}]
    /\ ready \subseteq {c \in Competences : remote[c] = "whole"}
    /\ current \in ready \cup {None} /\ (current = None <=> ready = {})
    /\ listed \in [Syncs -> Competences \cup {None}] /\ late \subseteq Syncs

PagesTyped ==
    /\ queries \subseteq AllQueries
    /\ runs \in Seq(RunRow) /\ Len(runs) <= MaxRuns
    /\ coverage \in [Competences \X Scopes -> Nat]
    /\ DOMAIN web = Requests
    /\ \A r \in Requests : web[r] # None =>
         web[r] \in Plan /\ web[r].query \in queries /\ web[r].reference \in ready

\* Who listed the folders after the last save, or before any, chose a competence that
\* is not behind the current one.
ListedInTime ==
    \A s \in Syncs \ late : listed[s] # None /\ current # None => current <= listed[s]

\* a run that is complete for the scope of a query in a competence
Covers(i, c, scope) ==
    /\ i \in DOMAIN runs /\ runs[i].status = "SUCCEEDED"
    /\ runs[i].reference = c /\ Scope(runs[i].query) = scope

\* Coverage rows, and the plans that were made from them, name runs of their scope.
CoverageAgrees ==
    /\ \A c \in Competences, scope \in Scopes :
         coverage[<<c, scope>>] # 0 => Covers(coverage[<<c, scope>>], c, scope)
    /\ \A r \in Requests : web[r] # None /\ web[r].mode = "CACHE" =>
         Covers(web[r].source, web[r].reference, Scope(web[r].query))

Key(run) == <<run.mode, run.query, run.reference, run.max_results>>

\* One run for each key, in the competences there have been, within its limit.
RunsKept ==
    /\ \A i \in DOMAIN runs :
         /\ runs[i].query \in queries /\ runs[i].reference \in ready
         /\ Cardinality(runs[i].results) <= runs[i].max_results
    /\ \A i, j \in DOMAIN runs :
         i # j /\ runs[i].mode # "CACHE" => Key(runs[i]) # Key(runs[j])

IInv ==
    /\ ManifestTyped /\ PagesTyped
    /\ ListedInTime /\ CoverageAgrees /\ RunsKept
    /\ RunsAnswerTheirQuery

(* Nothing is listed, asked or collected at first. *)
LEMMA InitIInv == Init => IInv
<1> SUFFICES ASSUME Init PROVE IInv
  OBVIOUS
<1>1. ManifestTyped
  BY DEF Init, ManifestTyped
<1>2. PagesTyped
  <2>1. coverage \in [Competences \X Scopes -> Nat]
    BY DEF Init, Scopes
  <2>2. runs \in Seq(RunRow) /\ Len(runs) = 0
    BY EmptySeq DEF Init
  <2> QED BY <2>1, <2>2, CatalogueAssumption DEF Init, PagesTyped
<1>3. ListedInTime
  BY DEF Init, ListedInTime
<1>4. CoverageAgrees
  <2>1. \A c \in Competences, scope \in Scopes : coverage[<<c, scope>>] = 0
    BY DEF Init, Scopes
  <2> QED BY <2>1 DEF Init, CoverageAgrees
<1>5. RunsKept /\ RunsAnswerTheirQuery
  BY DEF Init, RunsKept, RunsAnswerTheirQuery
<1> QED BY <1>1, <1>2, <1>3, <1>4, <1>5 DEF IInv

-----------------------------------------------------------------------------
(* The manifest                                                              *)

(* What is about queries, requests and runs survives what only adds competences. *)
LEMMA PagesKept ==
    ASSUME IInv, UNCHANGED <<queries, web, runs, coverage>>, ready \subseteq ready'
    PROVE  PagesTyped' /\ CoverageAgrees' /\ RunsKept' /\ RunsAnswerTheirQuery'
<1>1. PagesTyped'
  BY DEF IInv, PagesTyped
<1>2. CoverageAgrees'
  BY DEF IInv, CoverageAgrees, Covers
<1>3. RunsKept'
  BY DEF IInv, RunsKept, Key
<1>4. RunsAnswerTheirQuery'
  BY DEF IInv, RunsAnswerTheirQuery
<1> QED BY <1>1, <1>2, <1>3, <1>4

(* An upload makes no folder vanish. *)
LEMMA UploadStep == ASSUME IInv, NEW c \in Competences, Upload(c) PROVE IInv'
<1>1. UNCHANGED <<ready, current, listed, late, queries, web, runs, coverage>>
  BY DEF Upload
<1>2. ManifestTyped'
  <2>1. remote' \in [Competences -> {"absent", "partial", "whole"}]
    BY DEF Upload, IInv, ManifestTyped
  <2>2. \A d \in Competences : remote[d] = "whole" => remote'[d] = "whole"
    BY DEF Upload, IInv, ManifestTyped
  <2> QED BY <1>1, <2>1, <2>2 DEF IInv, ManifestTyped
<1>3. ListedInTime'
  BY <1>1 DEF IInv, ListedInTime
<1> QED BY <1>1, <1>2, <1>3, PagesKept DEF IInv

(* The current competence is among the folders listed, so what is chosen is not older. *)
LEMMA ListStep == ASSUME IInv, NEW s \in Syncs, List(s) PROVE IInv'
<1>1. UNCHANGED <<remote, ready, current, queries, web, runs, coverage>>
  BY DEF List
<1>2. Visible \in SUBSET Competences /\ Visible # {}
  BY DEF List, Visible
<1>3. Latest(Visible) \in Competences /\ \A c \in Visible : c <= Latest(Visible)
  BY <1>2, LatestIsLast
<1>4. ManifestTyped'
  BY <1>1, <1>3 DEF List, IInv, ManifestTyped
<1>5. current # None => current \in Visible
  BY DEF IInv, ManifestTyped, Visible
<1>6. ListedInTime'
  BY <1>1, <1>3, <1>5 DEF List, IInv, ListedInTime, ManifestTyped
<1> QED BY <1>1, <1>4, <1>6, PagesKept DEF IInv

(* Whoever had listed the folders before is late after a save. *)
LEMMA SaveStep == ASSUME IInv, NEW s \in Syncs, Save(s) PROVE IInv'
<1>1. /\ UNCHANGED <<remote, queries, web, runs, coverage>>
      /\ ready' = ready \cup {listed[s]} /\ current' = listed[s]
      /\ listed' = [listed EXCEPT ![s] = None]
      /\ late' = (late \ {s}) \cup {o \in Syncs \ {s} : listed[o] # None}
      /\ listed[s] \in Competences /\ remote[listed[s]] = "whole"
  BY DEF Save, IInv, ManifestTyped
<1>2. ManifestTyped'
  BY <1>1, CatalogueAssumption DEF IInv, ManifestTyped
<1>3. ListedInTime'
  BY <1>1 DEF IInv, ListedInTime, ManifestTyped
<1> QED BY <1>1, <1>2, <1>3, PagesKept DEF IInv

(* A sync that is refused leaves the manifest as it is. *)
LEMMA PreserveStep == ASSUME IInv, NEW s \in Syncs, Preserve(s) PROVE IInv'
<1>1. UNCHANGED <<remote, ready, current, late, queries, web, runs, coverage>>
      /\ listed' = [listed EXCEPT ![s] = None]
  BY DEF Preserve
<1>2. ManifestTyped'
  BY <1>1 DEF IInv, ManifestTyped
<1>3. ListedInTime'
  BY <1>1 DEF IInv, ListedInTime, ManifestTyped
<1> QED BY <1>1, <1>2, <1>3, PagesKept DEF IInv

-----------------------------------------------------------------------------
(* The pages                                                                 *)

(* A new query changes no other. *)
LEMMA CreateStep ==
    ASSUME IInv, NEW u \in Users, NEW form \in Forms, Create(u, form) PROVE IInv'
<1>1. UNCHANGED <<manifestVars, web, runs, coverage>> /\ queries \subseteq queries'
      /\ queries' \subseteq AllQueries
  BY DEF Create, AllQueries, IInv, PagesTyped
<1>2. ManifestTyped' /\ ListedInTime'
  BY <1>1 DEF manifestVars, IInv, ManifestTyped, ListedInTime
<1>3. PagesTyped'
  BY <1>1 DEF manifestVars, IInv, PagesTyped
<1>4. CoverageAgrees'
  BY <1>1 DEF IInv, CoverageAgrees, Covers
<1>5. RunsKept'
  BY <1>1 DEF manifestVars, IInv, RunsKept, Key
<1>6. RunsAnswerTheirQuery'
  BY <1>1 DEF IInv, RunsAnswerTheirQuery
<1> QED BY <1>2, <1>3, <1>4, <1>5, <1>6 DEF IInv

(* A plan is of the current competence; if it reads from the cache it names a run *)
(* that covers it.                                                               *)
LEMMA BeginStep ==
    ASSUME IInv, NEW r \in Requests, NEW q \in queries, NEW mode \in Modes, NEW n \in Nat,
           NEW i \in Nat, current # None, mode = "CACHE" => i # 0,
           i = 0 \/ i = ValidCoverage(current, q), Begin(r, Planned(q, mode, n, i))
    PROVE  IInv'
<1> DEFINE p == Planned(q, mode, n, i)
<1>1. UNCHANGED <<manifestVars, queries, runs, coverage>> /\ web' = [web EXCEPT ![r] = p]
  BY DEF Begin
<1>2. current \in Competences /\ current \in ready /\ q \in AllQueries
  BY DEF IInv, ManifestTyped, PagesTyped
<1>3. p \in Plan /\ p.query = q /\ p.reference = current /\ p.mode = mode /\ p.source = i
  BY <1>2 DEF Planned, Plan
<1>4. mode = "CACHE" => Covers(i, current, Scope(q))
  <2> SUFFICES ASSUME i # 0 PROVE Covers(i, current, Scope(q))
    OBVIOUS
  <2>1. Scope(q) \in Scopes
    BY <1>2 DEF Scopes
  <2>2. i = coverage[<<current, Scope(q)>>]
    BY DEF ValidCoverage
  <2> QED BY <1>2, <2>1, <2>2 DEF IInv, CoverageAgrees
<1> HIDE DEF p
<1>5. ManifestTyped' /\ ListedInTime'
  BY <1>1 DEF manifestVars, IInv, ManifestTyped, ListedInTime
<1>6. PagesTyped'
  BY <1>1, <1>2, <1>3 DEF manifestVars, IInv, PagesTyped
<1>7. CoverageAgrees'
  BY <1>1, <1>3, <1>4 DEF IInv, PagesTyped, CoverageAgrees, Covers
<1>8. RunsKept' /\ RunsAnswerTheirQuery'
  BY <1>1 DEF manifestVars, IInv, RunsKept, Key, RunsAnswerTheirQuery
<1> QED BY <1>5, <1>6, <1>7, <1>8 DEF IInv

(* A preview is planned from the cache if there is a run that covers it. *)
LEMMA AskPreviewStep ==
    ASSUME IInv, NEW r \in Requests, NEW q \in queries, NEW n \in PreviewLimits,
           AskPreview(r, q, n)
    PROVE  IInv'
<1> DEFINE i == ValidCoverage(current, q)
           mode == IF i # 0 THEN "CACHE" ELSE "PREVIEW"
<1>1. current # None /\ Begin(r, Planned(q, mode, n, i))
  BY DEF AskPreview
<1>2. i \in Nat
  <2>1. current \in Competences /\ Scope(q) \in Scopes
    BY <1>1 DEF IInv, ManifestTyped, PagesTyped, Scopes
  <2>2. coverage[<<current, Scope(q)>>] \in Nat
    BY <2>1 DEF IInv, PagesTyped
  <2> QED BY <2>2 DEF ValidCoverage
<1>3. mode \in Modes /\ n \in Nat
  BY CatalogueAssumption DEF Modes
<1>4. mode = "CACHE" => i # 0
  OBVIOUS
<1> HIDE DEF mode
<1> QED BY <1>1, <1>2, <1>3, <1>4, BeginStep

(* A full run is planned if there is none. *)
LEMMA AskFullStep ==
    ASSUME IInv, NEW r \in Requests, NEW q \in queries, NEW n \in FullLimits, AskFull(r, q, n)
    PROVE  IInv'
<1>1. current # None /\ Begin(r, Planned(q, "FULL", n, 0))
  BY DEF AskFull
<1>2. "FULL" \in Modes /\ n \in Nat
  BY CatalogueAssumption DEF Modes
<1> QED BY <1>1, <1>2, BeginStep

(* A run that is added: of its own key, within its limit, and true to its query. *)
LEMMA RunAdded ==
    ASSUME IInv, NEW run \in RunRow, NEW r \in Requests,
           runs' = Append(runs, run), Len(runs) < MaxRuns,
           web' = [web EXCEPT ![r] = None], UNCHANGED <<manifestVars, queries, coverage>>,
           run.query \in queries, run.reference \in ready,
           Cardinality(run.results) <= run.max_results,
           run.mode # "CACHE" => \A i \in DOMAIN runs : Key(runs[i]) # Key(run),
           run.results \subseteq Matching(run.query.filters, run.reference),
           run.status = "SUCCEEDED" => run.results = Matching(run.query.filters, run.reference)
    PROVE  IInv'
<1>1. /\ runs \in Seq(RunRow) /\ runs' \in Seq(RunRow) /\ Len(runs') = Len(runs) + 1
      /\ \A i \in DOMAIN runs : runs'[i] = runs[i]
      /\ runs'[Len(runs) + 1] = run
      /\ DOMAIN runs' = DOMAIN runs \cup {Len(runs) + 1}
  <2>1. runs \in Seq(RunRow)
    BY DEF IInv, PagesTyped
  <2> QED BY <2>1, AppendProperties, LenProperties
<1>2. ManifestTyped' /\ ListedInTime'
  BY DEF manifestVars, IInv, ManifestTyped, ListedInTime
<1>3. PagesTyped'
  <2>1. Len(runs') <= MaxRuns
    BY <1>1, CatalogueAssumption, LenProperties
  <2>2. DOMAIN web' = Requests /\ \A o \in Requests : web'[o] # None => web'[o] = web[o]
    BY DEF IInv, PagesTyped
  <2> QED BY <1>1, <2>1, <2>2 DEF manifestVars, IInv, PagesTyped
<1>4. CoverageAgrees'
  <2>1. \A o \in Requests : web'[o] # None => web'[o] = web[o]
    BY DEF IInv, PagesTyped
  <2>2. \A i \in DOMAIN runs : i \in DOMAIN runs' /\ runs'[i] = runs[i]
    BY <1>1
  <2> QED BY <2>1, <2>2 DEF IInv, CoverageAgrees, Covers
<1>5. RunsKept'
  <2> DEFINE last == Len(runs) + 1
  <2>1. \A i \in DOMAIN runs' : /\ runs'[i].query \in queries' /\ runs'[i].reference \in ready'
                               /\ Cardinality(runs'[i].results) <= runs'[i].max_results
    BY <1>1 DEF manifestVars, IInv, RunsKept
  <2>2. ASSUME NEW i \in DOMAIN runs', NEW j \in DOMAIN runs', i # j, runs'[i].mode # "CACHE"
        PROVE  Key(runs'[i]) # Key(runs'[j])
    <3>1. CASE i \in DOMAIN runs /\ j \in DOMAIN runs
      BY <1>1, <2>2, <3>1 DEF IInv, RunsKept
    <3>2. CASE i \in DOMAIN runs /\ j = last
      <4>1. runs'[i] = runs[i] /\ runs'[j] = run
        BY <1>1, <3>2
      <4>2. CASE run.mode = "CACHE"
        BY <2>2, <4>1, <4>2 DEF Key
      <4>3. CASE run.mode # "CACHE"
        BY <3>2, <4>1, <4>3
      <4> QED BY <4>2, <4>3
    <3>3. CASE i = last /\ j \in DOMAIN runs
      BY <1>1, <2>2, <3>3
    <3> QED BY <1>1, <2>2, <3>1, <3>2, <3>3
  <2>3. \A i, j \in DOMAIN runs' :
          i # j /\ runs'[i].mode # "CACHE" => Key(runs'[i]) # Key(runs'[j])
    BY <2>2
  <2> QED BY <2>1, <2>3 DEF RunsKept, Key
<1>6. RunsAnswerTheirQuery'
  BY <1>1 DEF IInv, RunsAnswerTheirQuery, Matching
<1> QED BY <1>2, <1>3, <1>4, <1>5, <1>6 DEF IInv

(* The request ends without a run: its key was taken meanwhile. *)
LEMMA RefusedStep ==
    ASSUME IInv, NEW r \in Requests, web' = [web EXCEPT ![r] = None],
           UNCHANGED <<manifestVars, queries, runs, coverage>>
    PROVE  IInv'
<1>1. DOMAIN web' = Requests /\ \A o \in Requests : web'[o] # None => web'[o] = web[o]
  BY DEF IInv, PagesTyped
<1>2. ManifestTyped' /\ ListedInTime'
  BY DEF manifestVars, IInv, ManifestTyped, ListedInTime
<1>3. PagesTyped'
  BY <1>1 DEF manifestVars, IInv, PagesTyped
<1>4. CoverageAgrees'
  BY <1>1 DEF IInv, CoverageAgrees, Covers
<1>5. RunsKept' /\ RunsAnswerTheirQuery'
  BY DEF manifestVars, IInv, RunsKept, Key, RunsAnswerTheirQuery
<1> QED BY <1>2, <1>3, <1>4, <1>5 DEF IInv

(* A cached run holds what it may copy of a run that covers its scope; any other is *)
(* empty until its job collects.                                                    *)
LEMMA AnswerStep == ASSUME IInv, NEW r \in Requests, Answer(r) PROVE IInv'
<1> DEFINE p == web[r]
<1>1. /\ p # None /\ Len(runs) < MaxRuns
      /\ web' = [web EXCEPT ![r] = None] /\ UNCHANGED <<manifestVars, queries, coverage>>
  BY DEF Answer
<1>2. p \in Plan /\ p.query \in queries /\ p.reference \in ready
  BY <1>1 DEF IInv, PagesTyped
<1>3. CASE p.mode # "CACHE" /\ Existing(p) = {}
  <2> DEFINE run == Run(p, {}, "PENDING")
  <2>1. runs' = Append(runs, run)
    BY <1>3 DEF Answer, Enqueue
  <2>2. run \in RunRow /\ run.query = p.query /\ run.reference = p.reference
        /\ run.mode = p.mode /\ run.max_results = p.max_results
        /\ run.results = {} /\ run.status = "PENDING"
    BY <1>2 DEF Run, RunRow, Plan, RunStatus
  <2>3. \A i \in DOMAIN runs : Key(runs[i]) # Key(run)
    BY <1>3, <2>2 DEF Existing, Key
  <2>4. Cardinality(run.results) <= run.max_results
    <3>1. Cardinality(run.results) = 0 /\ run.max_results \in Nat
      BY <2>2, FS_EmptySet DEF RunRow
    <3> QED BY <3>1
  <2> HIDE DEF run, p
  <2> QED BY <1>1, <1>2, <2>1, <2>2, <2>3, <2>4, RunAdded
<1>4. CASE p.mode # "CACHE" /\ Existing(p) # {}
  <2>1. runs' = runs
    BY <1>4 DEF Answer, Enqueue
  <2> QED BY <1>1, <2>1, RefusedStep
<1>5. CASE p.mode = "CACHE"
  <2> DEFINE i == p.source
             n == p.max_results
  <2>1. PICK served \in Serve(i, n) : runs' = Append(runs, Run(p, served[1], served[2]))
    BY <1>5 DEF Answer
  <2>2. /\ i \in DOMAIN runs /\ runs[i].status = "SUCCEEDED"
        /\ runs[i].reference = p.reference /\ runs[i].query.filters = p.query.filters
    BY <1>1, <1>5 DEF IInv, CoverageAgrees, Covers, Scope
  <2>3. runs[i].results = Matching(p.query.filters, p.reference)
        /\ runs[i].results \in SUBSET Establishments
    <3>1. runs[i] \in RunRow
      BY <2>2, ElementOfSeq, LenProperties DEF IInv, PagesTyped
    <3> QED BY <2>2, <3>1 DEF IInv, RunsAnswerTheirQuery, RunRow
  <2>4. n \in Nat
    BY <1>2 DEF Plan
  <2>5. /\ served[1] \subseteq runs[i].results /\ served[2] \in RunStatus
        /\ served[2] = "SUCCEEDED" => served[1] = runs[i].results
        /\ Cardinality(served[1]) <= n
    BY <2>4 DEF Serve, RunStatus
  <2> DEFINE run == Run(p, served[1], served[2])
  <2>6. run \in RunRow /\ run.query = p.query /\ run.reference = p.reference
        /\ run.mode = "CACHE" /\ run.max_results = n
        /\ run.results = served[1] /\ run.status = served[2]
    BY <1>2, <1>5, <2>3, <2>5 DEF Run, RunRow, Plan
  <2> HIDE DEF run, i, n, p
  <2>7. runs' = Append(runs, run)
    BY <2>1 DEF run
  <2> QED BY <1>1, <1>2, <2>3, <2>5, <2>6, <2>7, RunAdded
<1> QED BY <1>3, <1>4, <1>5

-----------------------------------------------------------------------------
(* Jobs                                                                      *)

(* A run that ends, with what its query selects. *)
LEMMA RunEnds ==
    ASSUME IInv, NEW i \in DOMAIN runs, NEW S, NEW status \in RunStatus \ {"PENDING"},
           runs[i].status = "PENDING", Finish(i, S, status),
           S \subseteq Matching(runs[i].query.filters, runs[i].reference),
           status = "SUCCEEDED" => S = Matching(runs[i].query.filters, runs[i].reference),
           Cardinality(S) <= runs[i].max_results, UNCHANGED <<manifestVars, queries, web>>,
           \/ coverage' = coverage
           \/ /\ status = "SUCCEEDED"
              /\ coverage' = [coverage EXCEPT ![<<runs[i].reference, Scope(runs[i].query)>>] = i]
    PROVE  IInv'
<1> DEFINE ended == [runs[i] EXCEPT !.results = S, !.status = status]
<1>1. runs \in Seq(RunRow) /\ i \in 1..Len(runs) /\ runs[i] \in RunRow
  BY ElementOfSeq, LenProperties DEF IInv, PagesTyped
<1>2. ended \in RunRow
  <2>1. S \in SUBSET Establishments
    BY <1>1 DEF Establishments, Matching, RunRow
  <2> QED BY <1>1, <2>1 DEF RunRow
<1>3. /\ ended.query = runs[i].query /\ ended.reference = runs[i].reference
      /\ ended.mode = runs[i].mode /\ ended.max_results = runs[i].max_results
      /\ ended.results = S /\ ended.status = status
  BY <1>1 DEF RunRow
<1>4. runs' = [runs EXCEPT ![i] = ended]
  BY <1>1 DEF Finish
<1> HIDE DEF ended
<1>5. /\ runs' \in Seq(RunRow) /\ Len(runs') = Len(runs) /\ DOMAIN runs' = DOMAIN runs
      /\ runs'[i] = ended /\ \A k \in DOMAIN runs : k # i => runs'[k] = runs[k]
  BY <1>1, <1>2, <1>4, ExceptSeq, LenProperties
<1>6. ManifestTyped' /\ ListedInTime'
  BY DEF manifestVars, IInv, ManifestTyped, ListedInTime
<1>7. PagesTyped'
  <2>1. coverage' \in [Competences \X Scopes -> Nat]
    <3>1. i \in Nat
      BY <1>1, LenProperties
    <3>2. coverage \in [Competences \X Scopes -> Nat]
      BY DEF IInv, PagesTyped
    <3> DEFINE k == <<runs[i].reference, Scope(runs[i].query)>>
    <3>3. coverage' = coverage \/ coverage' = [coverage EXCEPT ![k] = i]
      OBVIOUS
    <3> HIDE DEF k
    <3> QED BY <3>1, <3>2, <3>3
  <2> QED BY <1>5, <2>1 DEF manifestVars, IInv, PagesTyped
<1>8. CoverageAgrees'
  <2>1. \A k \in DOMAIN runs : runs[k].status = "SUCCEEDED" => runs'[k] = runs[k]
    BY <1>5
  <2>2. status = "SUCCEEDED" => /\ runs'[i].status = "SUCCEEDED"
                                /\ runs'[i].reference = runs[i].reference
                                /\ runs'[i].query = runs[i].query
    BY <1>3, <1>5
  <2>3. ASSUME NEW c \in Competences, NEW scope \in Scopes, coverage'[<<c, scope>>] # 0
        PROVE  LET k == coverage'[<<c, scope>>] IN
               /\ k \in DOMAIN runs' /\ runs'[k].status = "SUCCEEDED"
               /\ runs'[k].reference = c /\ Scope(runs'[k].query) = scope
    <3>1. CASE coverage'[<<c, scope>>] = coverage[<<c, scope>>]
      BY <1>5, <2>1, <2>3, <3>1 DEF IInv, CoverageAgrees, Covers
    <3>2. CASE coverage'[<<c, scope>>] # coverage[<<c, scope>>]
      <4>1. /\ status = "SUCCEEDED" /\ c = runs[i].reference /\ scope = Scope(runs[i].query)
            /\ coverage'[<<c, scope>>] = i
        BY <3>2 DEF IInv, PagesTyped
      <4> QED BY <1>5, <2>2, <4>1
    <3> QED BY <3>1, <3>2
  <2>4. \A o \in Requests : web'[o] = web[o]
    OBVIOUS
  <2> QED BY <1>5, <2>1, <2>3, <2>4 DEF IInv, CoverageAgrees, Covers
<1>9. RunsKept'
  BY <1>3, <1>5 DEF manifestVars, IInv, RunsKept, Key
<1>10. RunsAnswerTheirQuery'
  BY <1>3, <1>5 DEF IInv, RunsAnswerTheirQuery, Matching
<1> QED BY <1>6, <1>7, <1>8, <1>9, <1>10 DEF IInv

(* A run that is not cut at its limit holds all that matches. *)
LEMMA CollectStep == ASSUME IInv, NEW i \in DOMAIN runs, Collect(i) PROVE IInv'
<1> DEFINE all == Matching(runs[i].query.filters, runs[i].reference)
<1>1. /\ runs[i].status = "PENDING" /\ UNCHANGED <<manifestVars, queries, web>>
      /\ CollectPreview(i) \/ CollectFull(i)
  BY DEF Collect
<1>2. runs[i].max_results \in Nat /\ Cardinality(all) \in Nat
  <2>1. runs[i] \in RunRow
    BY ElementOfSeq, LenProperties DEF IInv, PagesTyped
  <2>2. IsFiniteSet(all)
    BY <2>1, CatalogueAssumption, FS_Subset DEF Matching, RunRow
  <2> QED BY <2>1, <2>2, FS_CardinalityType DEF RunRow
<1>3. "PARTIAL" \in RunStatus \ {"PENDING"} /\ "SUCCEEDED" \in RunStatus \ {"PENDING"}
  BY DEF RunStatus
<1>4. CASE CollectPreview(i)
  <2>1. PICK S \in SUBSET all : /\ Cardinality(S) <= runs[i].max_results
                                /\ Finish(i, S, "PARTIAL")
    BY <1>4 DEF CollectPreview
  <2>2. coverage' = coverage
    BY <1>4 DEF CollectPreview
  <2> HIDE DEF all
  <2> QED BY <1>1, <1>3, <2>1, <2>2, RunEnds DEF all
<1>5. CASE CollectFull(i)
  <2> DEFINE cut == Cardinality(all) >= runs[i].max_results
  <2>1. CASE /\ \E S \in SUBSET all :
                  /\ Cardinality(S) = IF cut THEN runs[i].max_results ELSE Cardinality(all)
                  /\ Finish(i, S, "PARTIAL")
             /\ coverage' = coverage
    <3>1. PICK S \in SUBSET all :
            /\ Cardinality(S) = IF cut THEN runs[i].max_results ELSE Cardinality(all)
            /\ Finish(i, S, "PARTIAL")
      BY <2>1
    <3>2. Cardinality(S) <= runs[i].max_results
      BY <1>2, <3>1
    <3> QED BY <1>1, <1>3, <2>1, <3>1, <3>2, RunEnds
  <2>2. CASE /\ ~cut /\ Finish(i, all, "SUCCEEDED")
             /\ coverage' = [coverage EXCEPT ![<<runs[i].reference, Scope(runs[i].query)>>] = i]
    <3>1. Cardinality(all) <= runs[i].max_results
      BY <1>2, <2>2
    <3> QED BY <1>1, <1>3, <2>2, <3>1, RunEnds
  <2> QED BY <1>5, <2>1, <2>2 DEF CollectFull
<1> QED BY <1>1, <1>4, <1>5

(* A failed run keeps what it has, which is nothing. *)
LEMMA FailStep == ASSUME IInv, NEW i \in DOMAIN runs, Fail(i) PROVE IInv'
<1>1. /\ runs[i].status = "PENDING" /\ UNCHANGED <<manifestVars, queries, web, coverage>>
      /\ Finish(i, runs[i].results, "FAILED")
  BY DEF Fail
<1>2. "FAILED" \in RunStatus \ {"PENDING"}
  BY DEF RunStatus
<1>3. runs[i].results \subseteq Matching(runs[i].query.filters, runs[i].reference)
      /\ Cardinality(runs[i].results) <= runs[i].max_results
  BY DEF IInv, RunsAnswerTheirQuery, RunsKept
<1> QED BY <1>1, <1>2, <1>3, RunEnds

-----------------------------------------------------------------------------
(* Theorems                                                                  *)

(* Every step preserves the invariant, one lemma for each action. *)
LEMMA IInvStep == IInv /\ [Next]_vars => IInv'
<1> SUFFICES ASSUME IInv, [Next]_vars PROVE IInv'
  OBVIOUS
<1>1. CASE \E c \in Competences : Upload(c)
  BY <1>1, UploadStep
<1>2. CASE \E s \in Syncs : List(s) \/ Save(s) \/ Preserve(s)
  BY <1>2, ListStep, SaveStep, PreserveStep
<1>3. CASE \E u \in Users, form \in Forms : Create(u, form)
  BY <1>3, CreateStep
<1>4. CASE \E r \in Requests, q \in queries :
             \/ \E n \in PreviewLimits : AskPreview(r, q, n)
             \/ \E n \in FullLimits : AskFull(r, q, n)
  BY <1>4, AskPreviewStep, AskFullStep
<1>5. CASE \E r \in Requests : Answer(r)
  BY <1>5, AnswerStep
<1>6. CASE \E i \in DOMAIN runs : Collect(i) \/ Fail(i)
  BY <1>6, CollectStep, FailStep
<1>7. CASE UNCHANGED vars
  <2>1. UNCHANGED <<manifestVars, queries, web, runs, coverage>>
    BY <1>7 DEF vars
  <2>2. ManifestTyped' /\ ListedInTime'
    BY <2>1 DEF manifestVars, IInv, ManifestTyped, ListedInTime
  <2> QED BY <2>1, <2>2, PagesKept DEF manifestVars, IInv
<1> QED BY <1>1, <1>2, <1>3, <1>4, <1>5, <1>6, <1>7 DEF Next

(* The invariant holds in every reachable state. *)
LEMMA AlwaysIInv == Spec => []IInv
BY InitIInv, IInvStep, PTL DEF Spec

(* Every reachable state is well typed; of two runs that were not answered from the *)
(* cache no two have the same key, although requests look for it before they write; *)
(* and no run holds more rows than it asked for.                                    *)
THEOREM CatalogueTyped == Spec => []TypeOK
<1>1. IInv => TypeOK
  <2> SUFFICES ASSUME IInv PROVE TypeOK
    OBVIOUS
  <2>1. \A i \in DOMAIN runs :
          /\ runs[i].query \in queries /\ runs[i].reference \in ready
          /\ runs[i].mode \in Modes /\ runs[i].status \in RunStatus
          /\ Cardinality(runs[i].results) <= runs[i].max_results
    <3> TAKE i \in DOMAIN runs
    <3>1. runs[i] \in RunRow
      BY ElementOfSeq, LenProperties DEF IInv, PagesTyped
    <3> QED BY <3>1 DEF IInv, RunsKept, RunRow
  <2> QED BY <2>1 DEF IInv, ManifestTyped, PagesTyped, RunsKept, Key, TypeOK
<1> QED BY <1>1, AlwaysIInv, PTL

(* What counts as complete for a query, collected or answered from the cache, is what *)
(* the query selects in the competence of the run, and nothing else is in any run.    *)
THEOREM RunsAlwaysAnswerTheirQuery == Spec => []RunsAnswerTheirQuery
<1>1. IInv => RunsAnswerTheirQuery
  BY DEF IInv
<1> QED BY <1>1, AlwaysIInv, PTL

(* Without a sync that listed the folders before another one was saved, the current *)
(* competence never goes back.                                                      *)
THEOREM OnlyLateSyncsGoBack == Spec => CurrentGoesBackOnlyLate
<1> DEFINE Late == \A c \in ready : current = c /\ current' < c =>
                      \E s \in late : listed'[s] # listed[s]
<1>1. IInv /\ [Next]_vars => [Late]_vars
  <2> SUFFICES ASSUME IInv, Next, NEW c \in ready, current = c, current' < c
               PROVE  \E s \in late : listed'[s] # listed[s]
    OBVIOUS
  <2>1. c \in Nat /\ c \in Competences
    BY NamesAreNat DEF IInv, ManifestTyped
  <2>2. current' # current
    BY <2>1
  <2>3. PICK s \in Syncs : Save(s)
    BY <2>2 DEF Next, Upload, List, Preserve, Create, AskPreview, AskFull, Begin, Answer,
                Collect, Fail, manifestVars
  <2>4. /\ listed[s] # None /\ listed[s] \in Competences /\ listed[s] < c
        /\ listed'[s] = None
    BY <2>3 DEF Save, IInv, ManifestTyped
  <2>5. c # None
    BY <2>1, CatalogueAssumption
  <2>6. listed[s] \in Nat
    BY <2>4, NamesAreNat
  <2>7. s \in late
    <3>1. ASSUME s \notin late PROVE FALSE
      <4>1. c <= listed[s]
        BY <3>1, <2>4, <2>5 DEF IInv, ListedInTime
      <4> QED BY <4>1, <2>1, <2>4, <2>6
    <3> QED BY <3>1
  <2> QED BY <2>4, <2>7
<1>2. Spec => [][Late]_vars
  BY <1>1, AlwaysIInv, PTL DEF Spec
<1> QED BY <1>2 DEF CurrentGoesBackOnlyLate

=============================================================================
