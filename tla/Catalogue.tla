------------------------------ MODULE Catalogue ------------------------------
(***************************************************************************)
(* What may be asked of the CNPJ source and what answers it: the manifest  *)
(* and its synchronisation (apps/sources/cnpj/manifest.py), the queries of *)
(* users and the pages that plan and request runs (apps/discovery), the    *)
(* coverage cache over several competences, targets and filters.           *)
(*                                                                         *)
(* The work of a DISCOVER_CNPJ job is one step that ends or fails it: see  *)
(* DiscoverRun.  Here the point is which rows a run asks for, and of which *)
(* competence.  Lists of filters are sets: normalize_filters sorts them    *)
(* and leaves out empty ones.                                              *)
(***************************************************************************)
EXTENDS Integers, Sequences, FiniteSets

CONSTANTS
    Competences,        \* names of monthly folders, YYYY-MM, as numbers
    Syncs,              \* callers of sync_latest_manifest: jobs and the command
    Requests,           \* HTTP requests
    Users, Staff,
    Forms,              \* what users type into DiscoveryQueryForm
    StateOf,            \* clean_state: typed text -> UF, "" or Invalid
    CodeOf,             \* clean_municipality_code: typed text -> code, "" or Invalid
    PrefixOf,           \* clean_cnae_prefixes, of one item: digits, "" or Invalid
    StartsWith,         \* pairs <<prefix, code>>
    Register,           \* the establishments in the files of each competence
    PreviewLimits, FullLimits,
    None, Invalid,
    MaxQueries, MaxRuns \* bounds: DiscoveryQuery and QueryRun rows

LastName == 999912      \* the last name of COMPETENCE_PATTERN

ASSUME CatalogueAssumption ==
    /\ Competences \subseteq 0..LastName /\ Staff \subseteq Users
    /\ PreviewLimits \cup FullLimits \subseteq Nat \ {0}
    /\ \A c \in Competences : IsFiniteSet(Register[c])
    /\ MaxQueries \in Nat /\ MaxRuns \in Nat /\ None \notin Competences

VARIABLES
    remote,         \* what the WebDAV lists: each folder "absent", "partial" or "whole"
    ready,          \* competences whose CnpjDataset is READY
    current,        \* the competence with is_current, or None
    listed,         \* the competence each sync has chosen, or None
    late,           \* history: syncs that another one was saved over
    queries,        \* DiscoveryQuery rows
    web,            \* what each request read, or None
    runs,           \* QueryRun rows; a PENDING one has its job in the queue
    coverage        \* the run of each SourceCoverage row <<competence, scope>>, or 0

manifestVars == <<remote, ready, current, listed, late>>
vars == <<manifestVars, queries, web, runs, coverage>>

Blank == ""
Targets == {"INDUSTRY", "PARTNER"}
RunStatus == {"PENDING", "SUCCEEDED", "PARTIAL", "FAILED"}
Modes == {"PREVIEW", "FULL", "CACHE"}

-----------------------------------------------------------------------------
(* Queries: DiscoveryQueryForm, normalize_filters, CnpjEstablishmentFilter *)

Given(x) == IF x = Blank THEN {} ELSE {x}

\* DiscoveryQueryForm.save; normalize_filters changes nothing of what the form cleaned
Filters(form) ==
    [registration_statuses |-> {"02"},
     states |-> Given(StateOf[form.state]),
     municipality_codes |-> Given(CodeOf[form.municipality_code]),
     cnae_prefixes |-> UNION {Given(PrefixOf[form.cnae_prefixes[i]]) :
                                i \in DOMAIN form.cnae_prefixes}]

IsSelective(filters) ==
    filters.states \cup filters.municipality_codes \cup filters.cnae_prefixes # {}

FormIsValid(form) ==
    /\ StateOf[form.state] # Invalid /\ CodeOf[form.municipality_code] # Invalid
    /\ \A i \in DOMAIN form.cnae_prefixes : PrefixOf[form.cnae_prefixes[i]] # Invalid
    /\ IsSelective(Filters(form))

\* CnpjEstablishmentFilter.matches; the form never asks for secondary CNAEs or whole codes
Selects(filters, e) ==
    /\ filters.registration_statuses # {} =>
         e.registration_status \in filters.registration_statuses
    /\ filters.states # {} => e.state \in filters.states
    /\ filters.municipality_codes # {} => e.municipality_code \in filters.municipality_codes
    /\ filters.cnae_prefixes # {} =>
         \E p \in filters.cnae_prefixes : <<p, e.primary_cnae>> \in StartsWith

Matching(filters, c) == {e \in Register[c] : Selects(filters, e)}

\* coverage_scope; the schema version is a constant of the code.
\* The user is no part of it: users share what was collected for one of them.
ScopeOfTarget(q) == <<q.target>>     \* mutant: the filters are left out

Scope(q) == <<q.target, q.filters>>

Query(u, form) == [created_by |-> u, target |-> form.target, filters |-> Filters(form)]
AllQueries == {Query(u, form) : u \in Users, form \in {f \in Forms : FormIsValid(f)}}

TypeOK ==
    /\ remote \in [Competences -> {"absent", "partial", "whole"}]
    /\ ready \subseteq {c \in Competences : remote[c] = "whole"}
    /\ current \in ready \cup {None} /\ (current = None <=> ready = {})
    /\ listed \in [Syncs -> Competences \cup {None}] /\ late \subseteq Syncs
    /\ queries \subseteq AllQueries
    /\ \A r \in Requests : web[r] # None => web[r].query \in queries /\ web[r].reference \in ready
    /\ Len(runs) <= MaxRuns
    /\ \A i \in DOMAIN runs :
         /\ runs[i].query \in queries /\ runs[i].reference \in ready
         /\ runs[i].mode \in Modes /\ runs[i].status \in RunStatus
         /\ Cardinality(runs[i].results) <= runs[i].max_results
    \* unique idempotency_key
    /\ \A i, j \in DOMAIN runs :
         i # j /\ runs[i].mode # "CACHE" =>
             <<runs[i].mode, runs[i].query, runs[i].reference, runs[i].max_results>>
             # <<runs[j].mode, runs[j].query, runs[j].reference, runs[j].max_results>>

\* The oldest folder that matters was published before the system was.
Init ==
    /\ remote = [c \in Competences |->
                   IF \A d \in Competences : c <= d THEN "whole" ELSE "absent"]
    /\ ready = {} /\ current = None
    /\ listed = [s \in Syncs |-> None] /\ late = {}
    /\ queries = {} /\ web = [r \in Requests |-> None] /\ runs = <<>>
    /\ coverage = [k \in Competences \X {Scope(q) : q \in AllQueries} |-> 0]

-----------------------------------------------------------------------------
(* The manifest *)

\* The Receita uploads a folder file by file, later folders after earlier ones.
Upload(c) ==
    /\ remote[c] # "whole"
    /\ \A d \in Competences : d < c => remote[d] # "absent"
    /\ remote' = [remote EXCEPT ![c] = IF @ = "absent" THEN "partial" ELSE "whole"]
    /\ UNCHANGED <<ready, current, listed, late, queries, web, runs, coverage>>

VisibleUnread == {c \in Competences \ ready : remote[c] # "absent"}   \* mutant: only new ones

Visible == {c \in Competences : remote[c] # "absent"}

Latest(C) == CHOOSE c \in C : \A d \in C : d <= c

\* client.list(): the latest competence is chosen
List(s) ==
    /\ listed[s] = None /\ Visible # {}    \* "No valid CNPJ competence was found"
    /\ listed' = [listed EXCEPT ![s] = Latest(Visible)]
    /\ late' = late \ {s}
    /\ UNCHANGED <<remote, ready, current, queries, web, runs, coverage>>

\* client.list(competence) finds the 10 + 10 + 1 files; then the source is locked and
\* the competence is made current with its files, in one transaction.
Save(s) ==
    /\ listed[s] # None /\ remote[listed[s]] = "whole"
    /\ ready' = ready \cup {listed[s]}
    /\ current' = listed[s]
    /\ listed' = [listed EXCEPT ![s] = None]
    /\ late' = (late \ {s}) \cup {o \in Syncs \ {s} : listed[o] # None}
    /\ UNCHANGED <<remote, queries, web, runs, coverage>>

\* "Latest competence is incomplete; current manifest was preserved", or the WebDAV fails
Preserve(s) ==
    /\ listed[s] # None
    /\ listed' = [listed EXCEPT ![s] = None]
    /\ UNCHANGED <<remote, ready, current, late, queries, web, runs, coverage>>

-----------------------------------------------------------------------------
(* The pages *)

\* query_create; an equivalent query of the user and target is refused
Create(u, form) ==
    /\ FormIsValid(form) /\ Query(u, form) \notin queries
    /\ Cardinality(queries) < MaxQueries
    /\ queries' = queries \cup {Query(u, form)}
    /\ UNCHANGED <<manifestVars, web, runs, coverage>>

CoverageOfAny(c, q) ==    \* mutant: of whatever competence
    LET hits == {d \in Competences : coverage[<<d, Scope(q)>>] # 0} IN
    IF hits = {} THEN 0 ELSE coverage[<<CHOOSE d \in hits : TRUE, Scope(q)>>]

\* find_valid_coverage
ValidCoverage(c, q) ==
    LET i == coverage[<<c, Scope(q)>>] IN
    IF i # 0 /\ runs[i].status = "SUCCEEDED" THEN i ELSE 0

Planned(q, mode, n, i) ==
    [query |-> q, mode |-> mode, max_results |-> n, reference |-> current, source |-> i]

\* The run that has this request's key, or answered it from the cache.  For one query
\* and competence there is one coverage row, whatever run is behind it now.
Existing(p) ==
    {i \in DOMAIN runs :
        /\ runs[i].query = p.query /\ runs[i].mode = p.mode
        /\ runs[i].reference = p.reference /\ runs[i].max_results = p.max_results}

\* A request reads the plan and looks for what answers it already; then it redirects.
Begin(r, p) ==
    /\ web[r] = None /\ Existing(p) = {} /\ Len(runs) < MaxRuns
    /\ web' = [web EXCEPT ![r] = p]
    /\ UNCHANGED <<manifestVars, queries, runs, coverage>>

\* query_run_preview, build_preview_plan: covered or not
AskPreview(r, q, n) ==
    LET i == ValidCoverage(current, q) IN
    /\ current # None
    /\ Begin(r, Planned(q, IF i # 0 THEN "CACHE" ELSE "PREVIEW", n, i))

\* query_run_full, build_full_plan: staff only, refused if covered
AskFull(r, q, n) ==
    /\ q.created_by \in Staff
    /\ current # None /\ ValidCoverage(current, q) = 0
    /\ Begin(r, Planned(q, "FULL", n, 0))

Run(p, results, status) ==
    [query |-> p.query, mode |-> p.mode, max_results |-> p.max_results,
     reference |-> p.reference, results |-> results, status |-> status]

EnqueueAgain(r) ==     \* mutant: without the unique key
    runs' = Append(runs, Run(web[r], {}, "PENDING"))

\* QueryRun and Job in one transaction; a key that was taken meanwhile fails it
Enqueue(r) ==
    IF Existing(web[r]) # {} THEN runs' = runs
    ELSE runs' = Append(runs, Run(web[r], {}, "PENDING"))

ServeUncut(i, n) ==     \* mutant: max_results rows are read, not one more
    {<<S, "SUCCEEDED">> : S \in {T \in SUBSET runs[i].results :
        Cardinality(T) = IF Cardinality(runs[i].results) > n THEN n
                         ELSE Cardinality(runs[i].results)}}

\* materialize_cached_run: what may be copied of run i, and the status it gets
Serve(i, n) ==
    IF Cardinality(runs[i].results) <= n THEN {<<runs[i].results, "SUCCEEDED">>}
    ELSE {<<S, "PARTIAL">> : S \in {T \in SUBSET runs[i].results : Cardinality(T) = n}}

Answer(r) ==
    /\ web[r] # None /\ Len(runs) < MaxRuns
    /\ IF web[r].mode # "CACHE" THEN Enqueue(r)
       ELSE \E served \in Serve(web[r].source, web[r].max_results) :
              runs' = Append(runs, Run(web[r], served[1], served[2]))
    /\ web' = [web EXCEPT ![r] = None]
    /\ UNCHANGED <<manifestVars, queries, coverage>>

-----------------------------------------------------------------------------
(* Jobs *)

Finish(i, results, status) ==
    runs' = [runs EXCEPT ![i].results = results, ![i].status = status]

\* One file of the competence is read; a preview is always partial.
CollectPreview(i) ==
    /\ runs[i].mode = "PREVIEW"
    /\ \E S \in SUBSET Matching(runs[i].query.filters, runs[i].reference) :
         Cardinality(S) <= runs[i].max_results /\ Finish(i, S, "PARTIAL")
    /\ UNCHANGED coverage

\* Every file is read, up to the limit.  A run that is not cut and whose complements
\* were found covers its scope.
CollectFull(i) ==
    LET run == runs[i]
        all == Matching(run.query.filters, run.reference)
        cut == Cardinality(all) >= run.max_results IN
    /\ run.mode = "FULL"
    /\ \/ \E S \in SUBSET all :
            /\ Cardinality(S) = IF cut THEN run.max_results ELSE Cardinality(all)
            /\ Finish(i, S, "PARTIAL")
          /\ UNCHANGED coverage
       \/ /\ ~cut
          /\ Finish(i, all, "SUCCEEDED")
          /\ coverage' = [coverage EXCEPT ![<<run.reference, Scope(run.query)>>] = i]

Collect(i) ==
    /\ runs[i].status = "PENDING"
    /\ CollectPreview(i) \/ CollectFull(i)
    /\ UNCHANGED <<manifestVars, queries, web>>

\* The last attempt fails.  Nothing reads what it stored, and the key of its job stays.
Fail(i) ==
    /\ runs[i].status = "PENDING"
    /\ Finish(i, runs[i].results, "FAILED")
    /\ UNCHANGED <<manifestVars, queries, web, coverage>>

Next ==
    \/ \E c \in Competences : Upload(c)
    \/ \E s \in Syncs : List(s) \/ Save(s) \/ Preserve(s)
    \/ \E u \in Users, form \in Forms : Create(u, form)
    \/ \E r \in Requests, q \in queries :
         \/ \E n \in PreviewLimits : AskPreview(r, q, n)
         \/ \E n \in FullLimits : AskFull(r, q, n)
    \/ \E r \in Requests : Answer(r)
    \/ \E i \in DOMAIN runs : Collect(i) \/ Fail(i)

Spec == Init /\ [][Next]_vars
-----------------------------------------------------------------------------
(* Properties *)

\* docs/architecture.md:119: a run holds establishments of its own competence that its
\* own query selects, and one that counts as complete, collected or answered from the
\* cache, holds exactly those; although users type the same filters differently, share
\* what was collected for others, and competences change between plan, answer and job.
RunsAnswerTheirQuery ==
    \A i \in DOMAIN runs :
        LET wanted == Matching(runs[i].query.filters, runs[i].reference) IN
        /\ runs[i].results \subseteq wanted
        /\ runs[i].status = "SUCCEEDED" => runs[i].results = wanted

\* The current competence goes back only when a sync that had listed the folders before
\* another one was saved is saved after it (only then is the source locked).
CurrentGoesBackOnlyLate ==
    [][\A c \in ready : current = c /\ current' < c => \E s \in late : listed'[s] # listed[s]]_vars
=============================================================================
