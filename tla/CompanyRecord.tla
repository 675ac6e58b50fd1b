---------------------------- MODULE CompanyRecord ----------------------------
(***************************************************************************)
(* The canonical row of one company and its evidence.  Runs ingest what    *)
(* the Receita says of it (apps/sources/cnpj/ingestion.py), staff correct  *)
(* it (apps/companies/corrections.py), a crawl fills in its website.       *)
(*                                                                         *)
(* A transaction that locks the row before it reads is one action.         *)
(* ingest_establishment and the crawl read without a lock and write later: *)
(* what they read is kept in between.  Whatever else its transaction       *)
(* touches it touches after that write, with the locks held to the commit. *)
(***************************************************************************)
EXTENDS Integers, Sequences, FiniteSets

CONSTANTS
    Runs,               \* QueryRuns
    Staff,              \* staff who correct
    RegisterFields,     \* columns an establishment row gives
    ComplementFields,   \* columns a row of Empresas gives
    Texts,              \* values of columns, Blank among them
    Row,                \* the establishment row of the company in the files of each run
    Complements,        \* the rows of Empresas and Simples in the files of each run
    Changes,            \* what staff ask for: values of some columns
    Site,               \* what the website's address resolves to
    None,               \* NULL, nothing
    Absent,             \* what get_or_create finds before it creates
    MaxCorrections      \* bound: a correction begins with fewer records of corrections

Blank == ""
Fields == RegisterFields \cup ComplementFields \cup {"website"}
Columns == Fields \cup {"domain"}
Codes == UNION {{Row[r].primary} \cup Row[r].secondary : r \in Runs}
Kinds == {"company", "simples"}

ASSUME RecordAssumption ==
    /\ Blank \in Texts /\ Site \in Texts \ {Blank}
    /\ Absent # None /\ {Absent, None} \cap ([Columns -> Texts] \cup Texts \cup BOOLEAN) = {}
    /\ None \notin {"primary", "secondary"}
    /\ {"website", "domain"} \cap (RegisterFields \cup ComplementFields) = {}
    /\ RegisterFields \cap ComplementFields = {}
    /\ IsFiniteSet(RegisterFields \cup ComplementFields) /\ IsFiniteSet(Staff)
    /\ \A r \in Runs :
         /\ Row[r].values \in [RegisterFields -> Texts] /\ IsFiniteSet(Row[r].secondary)
         /\ \A rec \in Complements[r] :
              /\ rec.kind \in Kinds /\ \A f \in DOMAIN rec.values : rec.values[f] \in Texts
              /\ DOMAIN rec.values \cap Fields \subseteq ComplementFields
              /\ rec.kind = "simples" => DOMAIN rec.values \cap Fields = {}
    /\ \A changes \in Changes : \E F \in SUBSET Fields : changes \in [F -> Texts]
    /\ MaxCorrections \in Nat

VARIABLES
    row,            \* the Company, or None
    records,        \* payloads of its SourceRecords, the manual ones numbered
    observations,   \* FieldObservation rows
    cnaes,          \* CompanyCnae rows: "primary", "secondary" or None
    results,        \* QueryResult of each run: its is_new_company, or None
    candidates,     \* CnpjCandidate of each run: the kinds matched, or None
    corrections,    \* CompanyCorrection rows of each field
    seen,           \* what the ingestion of each run read: a row, Absent, or None
    post,           \* what each POST read and wants to change, or None
    crawling,       \* a crawl read that there is no website
    settled,        \* history: fields only corrections have written since the last one
    byHand          \* history: the company was added in the admin site

rowVars == <<row, settled, byHand>>
evidenceVars == <<records, observations>>
runVars == <<cnaes, results, candidates>>
staffVars == <<corrections, post>>
vars == <<rowVars, evidenceVars, runVars, staffVars, seen, crawling>>

Manual(f, n) == [kind |-> "manual", field |-> f, n |-> n]
EstablishmentRecord(r) == [kind |-> "establishment", row |-> Row[r]]

TypeOK ==
    /\ row # None => row \in [Columns -> Texts]
    /\ \A o \in observations : o.record \in records /\ o.value \in Texts /\ o.current \in BOOLEAN
    /\ cnaes \in [Codes -> {"primary", "secondary", None}]
    /\ results \in [Runs -> BOOLEAN \cup {None}]
    /\ \A r \in Runs : candidates[r] # None => candidates[r] \subseteq Kinds
    /\ \A f \in Fields : Len(corrections[f]) <= MaxCorrections + Cardinality(Staff)
    /\ \A r \in Runs : seen[r] \in {None, Absent} \/ seen[r] \in [Columns -> Texts]
    /\ \A u \in Staff : post[u] # None => post[u].changes \in Changes
    /\ settled \subseteq Fields
    /\ row = None => records = {} /\ \A r \in Runs : results[r] = None
    /\ Cardinality({c \in Codes : cnaes[c] = "primary"}) = IF \A r \in Runs : results[r] = None THEN 0 ELSE 1

\* The company is unknown, or was added in the admin site with a domain only.
Init ==
    /\ row \in {None, [c \in Columns |-> IF c = "domain" THEN Site ELSE Blank]}
    /\ byHand = (row # None)
    /\ records = {} /\ observations = {}
    /\ cnaes = [c \in Codes |-> None]
    /\ results = [r \in Runs |-> None] /\ candidates = [r \in Runs |-> None]
    /\ corrections = [f \in Fields |-> <<>>]
    /\ seen = [r \in Runs |-> None] /\ post = [u \in Staff |-> None]
    /\ crawling = FALSE /\ settled = {}

-----------------------------------------------------------------------------
(* Evidence *)

Observation(record, f, value) ==
    [record |-> record, field |-> f, value |-> value, current |-> TRUE]

KeepByIdentity(record, values) ==     \* mutant: payload_hash is not part of the key
    IF \E k \in records : k.kind = record.kind THEN UNCHANGED evidenceVars
    ELSE /\ records' = records \cup {record}
         /\ observations' = observations \cup
                {Observation(record, f, values[f]) : f \in {g \in DOMAIN values : values[g] # Blank}}

\* SourceRecord.get_or_create by (source, external_id, payload_hash); only a new one
\* is observed.  The observations it may contradict are left as they are.
Keep(record, values) ==
    IF record \in records THEN UNCHANGED evidenceVars
    ELSE /\ records' = records \cup {record}
         /\ observations' = observations \cup
                {Observation(record, f, values[f]) : f \in {g \in DOMAIN values : values[g] # Blank}}

\* fields of which keeping the record adds an observation
Observes(record, values) ==
    IF record \in records THEN {} ELSE {f \in DOMAIN values : values[f] # Blank}

\* columns an ingestion saves: given by the source and different from what it read
Changed(values, read) == {f \in DOMAIN values \cap Fields : values[f] \notin {Blank, read[f]}}

-----------------------------------------------------------------------------
(* ingest_establishment, in the transaction of one row *)

\* The candidate is staged, which locks it, and the company is read.  A company that
\* another run is creating is waited for.
Stage(r) ==
    /\ seen[r] = None
    /\ row = None => \A o \in Runs : seen[o] # Absent
    /\ seen' = [seen EXCEPT ![r] = IF row = None THEN Absent ELSE row]
    /\ UNCHANGED <<rowVars, evidenceVars, runVars, staffVars, crawling>>

\* exclude(code).update(is_primary=False), then update_or_create of each code
SwitchForgotten(e) ==    \* mutant: the former primary is not cleared
    [c \in Codes |-> IF c = e.primary THEN "primary"
                     ELSE IF c \in e.secondary /\ cnaes[c] = None THEN "secondary" ELSE cnaes[c]]

Switch(e) ==
    [c \in Codes |-> IF c = e.primary THEN "primary"
                     ELSE IF c \in e.secondary \/ cnaes[c] = "primary" THEN "secondary"
                     ELSE cnaes[c]]

SaveWhole(r) ==     \* mutant: save() without update_fields
    IF seen[r] = Absent THEN Row[r].values
    ELSE [c \in Columns |-> IF c \in Changed(Row[r].values, seen[r])
                            THEN Row[r].values[c] ELSE seen[r][c]]

\* what the ingestion saves, of the columns it names
Saves(r) ==
    IF seen[r] = Absent THEN Row[r].values
    ELSE [f \in Changed(Row[r].values, seen[r]) |-> Row[r].values[f]]

Overwritten(values) ==
    [c \in Columns |-> IF c \in DOMAIN values THEN values[c] ELSE IF row = None THEN Blank ELSE row[c]]

ResultAgain(r) == [results EXCEPT ![r] = (seen[r] = Absent)]   \* mutant: update_or_create

\* QueryResult.get_or_create
Result(r) == IF results[r] = None THEN [results EXCEPT ![r] = (seen[r] = Absent)] ELSE results

Commit(r) ==
    LET record == EstablishmentRecord(r) IN
    /\ seen[r] # None
    /\ row' = Overwritten(Saves(r))
    /\ Keep(record, Row[r].values)
    /\ cnaes' = Switch(Row[r])
    /\ results' = Result(r)
    /\ candidates' = [candidates EXCEPT ![r] = IF @ = None THEN {} ELSE @]
    /\ settled' = settled \ (DOMAIN Saves(r) \cup Observes(record, Row[r].values))
    /\ seen' = [seen EXCEPT ![r] = None]
    /\ UNCHANGED <<byHand, staffVars, crawling>>

\* An exception or a death.  Ingestions that overlap may also meet the constraint
\* on primary CNAEs, or each other's locks.
Rollback(r) ==
    /\ seen[r] # None
    /\ seen' = [seen EXCEPT ![r] = None]
    /\ UNCHANGED <<rowVars, evidenceVars, runVars, staffVars, crawling>>

\* ingest_company_complement locks the company; ingest_simples_complement saves no column.
\* The candidate is that of this or an earlier attempt of the run.
Complement(r, rec) ==
    LET saved == Changed(rec.values, row) IN
    /\ row # None /\ candidates[r] # None /\ seen[r] = None
    /\ rec \in Complements[r]
    /\ row' = Overwritten([f \in saved |-> rec.values[f]])
    /\ Keep(rec, rec.values)
    /\ candidates' = [candidates EXCEPT ![r] = @ \cup {rec.kind}]
    /\ settled' = settled \ (saved \cup Observes(rec, rec.values))
    /\ UNCHANGED <<byHand, cnaes, results, staffVars, seen, crawling>>

-----------------------------------------------------------------------------
(* correct_company, from the view company_correction *)

CorrectionsMade == Cardinality({k \in records : k.kind = "manual"})

\* A POST reads the company: the form keeps the fields that differ from it.
Submit(u, changes) ==
    /\ row # None /\ post[u] = None
    /\ \A f \in DOMAIN changes : changes[f] # row[f]
    /\ CorrectionsMade < MaxCorrections
    /\ post' = [post EXCEPT ![u] = [changes |-> changes,
                                        read |-> [f \in DOMAIN changes |-> row[f]]]]
    /\ UNCHANGED <<rowVars, evidenceVars, runVars, corrections, seen, crawling>>

OldAsSubmitted(u, f) == post[u].read[f]     \* mutant: of the company the view read

Old(u, f) == row[f]

ClearKept(F) == observations     \* mutant: the former observation stays current

\* observations once those of f are no longer current
Cleared(F) ==
    {IF o.field \in F THEN [o EXCEPT !.current = FALSE] ELSE o : o \in observations}

\* The company is locked and read again; without a difference the call is refused.
Correct(u) ==
    LET changes == post[u].changes
        effective == {f \in DOMAIN changes : row[f] # changes[f]}
        record(f) == Manual(f, Len(corrections[f]) + 1) IN
    /\ post[u] # None /\ effective # {}
    /\ row' = [c \in Columns |->
                 IF c \in effective THEN changes[c]
                 ELSE IF c = "domain" /\ "website" \in effective THEN changes["website"]
                 ELSE row[c]]
    /\ corrections' = [f \in Fields |->
                         IF f \in effective
                         THEN Append(corrections[f], [old |-> Old(u, f), new |-> changes[f]])
                         ELSE corrections[f]]
    /\ records' = records \cup {record(f) : f \in effective}
    /\ observations' = Cleared(effective) \cup
                         {Observation(record(f), f, changes[f]) : f \in effective}
    /\ settled' = settled \cup effective
    /\ post' = [post EXCEPT ![u] = None]
    /\ UNCHANGED <<byHand, runVars, seen, crawling>>

Refuse(u) ==
    /\ post[u] # None
    /\ \A f \in DOMAIN post[u].changes : row[f] = post[u].changes[f]
    /\ post' = [post EXCEPT ![u] = None]
    /\ UNCHANGED <<rowVars, evidenceVars, runVars, corrections, seen, crawling>>

-----------------------------------------------------------------------------
(* crawl_company_website: the website of a company that has only a domain *)

CrawlBegin ==
    /\ row # None /\ ~crawling /\ row["website"] = Blank /\ row["domain"] # Blank
    /\ crawling' = TRUE
    /\ UNCHANGED <<rowVars, evidenceVars, runVars, staffVars, seen>>

\* saved with update_fields; no observation is made
CrawlEnd ==
    /\ crawling
    /\ row' = [row EXCEPT !["website"] = Site, !["domain"] = Site]
    /\ settled' = settled \ {"website"}
    /\ crawling' = FALSE
    /\ UNCHANGED <<byHand, evidenceVars, runVars, staffVars, seen>>

CrawlFail ==
    /\ crawling
    /\ crawling' = FALSE
    /\ UNCHANGED <<rowVars, evidenceVars, runVars, staffVars, seen>>

Next ==
    \/ \E r \in Runs : Stage(r) \/ Commit(r) \/ Rollback(r)
                       \/ \E rec \in Complements[r] : Complement(r, rec)
    \/ \E u \in Staff : Correct(u) \/ Refuse(u) \/ \E changes \in Changes : Submit(u, changes)
    \/ CrawlBegin \/ CrawlEnd \/ CrawlFail

Spec == Init /\ [][Next]_vars
-----------------------------------------------------------------------------
(* Properties *)

\* docs/data-model.md, company_correction: the trail holds the value before and the
\* value after.  Each correction states what the row held just before it and holds just
\* after it, although the form read the company without a lock and others write it.
TrailIsTruthful ==
    [][\A f \in Fields : corrections'[f] # corrections[f] =>
          LET c == corrections'[f][Len(corrections'[f])] IN
          row[f] = c.old /\ row'[f] = c.new /\ c.old # c.new]_vars

\* "Uma nova FieldObservation atual aponta para um SourceRecord da fonte
\* manual-correction": until a source or a crawl writes the field, or observes it
\* anew, the last correction is what the row holds and the only current observation
\* of the field.
CorrectionIsCurrent ==
    \A f \in settled :
        LET n == Len(corrections[f])
            current == {o \in observations : o.field = f /\ o.current} IN
        /\ row[f] = corrections[f][n].new
        /\ current = {Observation(Manual(f, n), f, row[f])}

\* README: "correcoes canonicas auditadas e sem sobrescrever a evidencia de origem": every
\* value the row holds, the website a crawl found apart, was observed in some record,
\* however ingestions of several competences, corrections and repetitions alternate.
ValuesHaveEvidence ==
    row # None =>
        \A f \in Fields \ {"website"} :
            row[f] # Blank => \E o \in observations : o.field = f /\ o.value = row[f]

\* An ingestion that read the company before a correction does not bring back what it
\* read: a column changes only to what a correction asks, to what the rows of the run
\* say, or, for the website, to the site crawled.
NothingStaleIsWritten ==
    [][row # None => \A f \in Fields : row'[f] # row[f] =>
          \/ corrections'[f] # corrections[f]
          \/ \E r \in Runs : f \in RegisterFields /\ seen[r] # None /\ seen'[r] = None
                             /\ row'[f] = Row[r].values[f] /\ row'[f] # Blank
          \/ \E rec \in UNION {Complements[r] : r \in Runs} :
               f \in DOMAIN rec.values /\ row'[f] = rec.values[f] /\ row'[f] # Blank
          \/ f = "website" /\ crawling /\ ~crawling']_vars

\* A company is the discovery of exactly one run, although runs overlap, fail and are
\* repeated; of none if it was added by hand.
DiscoveredOnce ==
    LET discoverers == {r \in Runs : results[r] = TRUE} IN
    Cardinality(discoverers) = IF row = None \/ byHand THEN 0 ELSE 1
=============================================================================
