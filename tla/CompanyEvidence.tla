-------------------------- MODULE CompanyEvidence --------------------------
(***************************************************************************)
(* From evidence to score, for one company (apps/crawler, sources/jobs,    *)
(* signals, companies and the requests of scoring): collections store      *)
(* pages, postings and reviews; a detection derives the signals; a request *)
(* for a score is keyed by the newest timestamp it finds.                  *)
(*                                                                         *)
(* Handlers of several workers and requests of staff overlap at READ       *)
(* COMMITTED.  A statement stamps a row with the clock of its process and  *)
(* the row is seen at the commit: stamps need not commit in their order.   *)
(*                                                                         *)
(* One page of the website, one feed, one day, one published rule set.     *)
(* Evidence is a text of the page or a posting: only which one it is       *)
(* matters.  If an item of the feed matches the company (_match_company)   *)
(* depends on the item and on corrections, and is open.                    *)
(***************************************************************************)
EXTENDS Integers, Sequences, SequencesExt

CONSTANTS
    Workers, Staff,
    Texts,          \* what the page may say
    Postings,       \* what the page and the feed may offer
    Relevant,       \* evidence that the signal rules match
    None,           \* no posting, no text
    MaxTime         \* bound: stamps

ASSUME EvidenceAssumption ==
    /\ Workers \cap Staff = {} /\ Texts \cap Postings = {}
    /\ Relevant \subseteq Texts \cup Postings
    /\ None \notin Texts \cup Postings
    /\ MaxTime \in Nat

VARIABLES
    now,
    companyAt,      \* Company.updated_at
    recordAt,       \* the newest SourceRecord.collected_at, 0 without records
    recorded,       \* texts with a SourceRecord
    active,         \* active JobPostings
    origin,         \* the source of the record a posting is attached to
    review,         \* JobPostingReview: its status, and if it suggests this company
    signals,        \* active Signals
    signalAt,       \* the newest Signal.updated_at, 0 without signals
    detects,        \* DETECT_SIGNALS: the versions requested, in their order, and those
                    \* not yet run
    scores,         \* CALCULATE_SCORE: the same
    shown,          \* the newest ScoreSnapshot: its request, and what it read
    missed,         \* history: a commit was overtaken, or a job or a request died
    task            \* what each process does, and what it has read

postingVars == <<active, origin>>
signalVars == <<signals, signalAt>>
vars == <<now, companyAt, recordAt, recorded, postingVars, review, signalVars, detects,
          scores, shown, missed, task>>

Processes == Workers \cup Staff
Time == 0..MaxTime
Evidence == Relevant \cap (recorded \cup active)
Newest(s, t) == IF s > t THEN s ELSE t

Jobs == [asked : UNION {[1..n -> Time] : n \in 0..MaxTime + 1}, queued : SUBSET Time]
Task == [at : {"idle", "collecting", "reviewing", "stored", "detecting", "detected",
               "approving", "approved", "correcting", "asking", "scoring"},
         company : Time,                    \* Company.updated_at as it was read at the start
         batch : SUBSET Postings,           \* what the page offers
         todo : SUBSET Postings,            \* the items of the feed not yet processed
         matched : SUBSET Postings,         \* those that were the company's
         kept : SUBSET Postings,            \* those whose review was found resolved
         about : Postings \cup {None},      \* the review in hand
         stamp : Time,                      \* the timestamp of an open transaction
         found : SUBSET Relevant,           \* the evidence or the signals that were read
         version : Time]                    \* the version of a score
Idle == [at |-> "idle", company |-> 0, batch |-> {}, todo |-> {}, matched |-> {}, kept |-> {},
         about |-> None, stamp |-> 0, found |-> {}, version |-> 0]

TypeOK ==
    /\ {now, companyAt, recordAt, signalAt} \subseteq Time
    /\ recorded \subseteq Texts
    /\ active \subseteq Postings
    /\ origin \in [Postings -> {"none", "page", "feed"}]
    /\ review \in [Postings -> [status : {"NONE", "PENDING", "MATCHED", "DISMISSED"},
                                ours : BOOLEAN]]
    /\ signals \subseteq Relevant
    /\ detects \in Jobs /\ scores \in Jobs
    /\ detects.queued \subseteq ToSet(detects.asked)
    /\ scores.queued \subseteq ToSet(scores.asked)
    /\ shown \in [request : 0..MaxTime + 1, company : Time, signals : SUBSET Relevant]
    /\ missed \in BOOLEAN
    /\ task \in [Processes -> Task]

Init ==
    /\ now = 0 /\ companyAt = 0 /\ recordAt = 0
    /\ recorded = {}
    /\ active = {} /\ origin = [i \in Postings |-> "none"]
    /\ review = [i \in Postings |-> [status |-> "NONE", ours |-> FALSE]]
    /\ signals = {} /\ signalAt = 0
    /\ detects = [asked |-> <<>>, queued |-> {}]
    /\ scores = [asked |-> <<>>, queued |-> {}]
    /\ shown = [request |-> 0, company |-> 0, signals |-> {}]
    /\ missed = FALSE
    /\ task = [p \in Processes |-> Idle]

At(p, state) == task[p].at = state
Become(p, t) == task' = [task EXCEPT ![p] = t]
GoOn(p, state) == Become(p, [Idle EXCEPT !.at = state, !.company = task[p].company])
Tick == now < MaxTime /\ now' = now + 1

Started == [Idle EXCEPT !.company = companyAt]

\* mutant: the key of a request is not kept
AskAgain(jobs, v) == [jobs EXCEPT !.queued = @ \cup {v}]

\* get_or_create by idempotency key: a version that was requested before is not again
Ask(jobs, v) ==
    IF v \in ToSet(jobs.asked) THEN jobs
    ELSE [asked |-> Append(jobs.asked, v), queued |-> jobs.queued \cup {v}]
Take(jobs, v) == [jobs EXCEPT !.queued = @ \ {v}]

\* mutant: the signals are not in the version
CompanyVersion(company) == company

\* enqueue_company_score and enqueue_signal_detection: what they are given as the
\* company may have been read long ago, the rest is read now
ScoreVersion(company) == Newest(company, signalAt)
DetectVersion(company) == Newest(company, recordAt)
AskScore(company) == scores' = Ask(scores, ScoreVersion(company))
AskDetect(company) == detects' = Ask(detects, DetectVersion(company))

-----------------------------------------------------------------------------
(* FIND_JOBS, in mode FULL *)

\* adapter.collect
CollectBegin(w) ==
    /\ At(w, "idle")
    /\ \E offered \in SUBSET Postings :
         Become(w, [Started EXCEPT !.at = "collecting", !.todo = offered])
    /\ UNCHANGED <<now, companyAt, recordAt, recorded, postingVars, review, signalVars,
                   detects, scores, shown, missed>>

\* persist_source_item: a record if the payload is new, and the posting
PersistItem(w) ==
    /\ At(w, "collecting")
    /\ \E i \in task[w].todo :
         /\ Become(w, [task[w] EXCEPT !.todo = @ \ {i}, !.matched = @ \cup {i}])
         /\ active' = active \cup {i}
         /\ origin' = [origin EXCEPT ![i] = "feed"]
    /\ \/ UNCHANGED <<now, recordAt>>
       \/ Tick /\ recordAt' = now'
    /\ UNCHANGED <<companyAt, recorded, review, signalVars, detects, scores, shown, missed>>

\* _review_candidate creates a review, or reads the one there is.  If that is
\* resolved, only last_seen_at is written.
ReviewCandidate(w) ==
    /\ At(w, "collecting")
    /\ \E i \in task[w].todo :
         \/ /\ review[i].status = "NONE"
            /\ review' = [review EXCEPT ![i] = [status |-> "PENDING", ours |-> TRUE]]
            /\ Become(w, [task[w] EXCEPT !.todo = @ \ {i}])
         \/ /\ review[i].status = "PENDING"
            /\ Become(w, [task[w] EXCEPT !.at = "reviewing", !.about = i, !.todo = @ \ {i}])
            /\ UNCHANGED review
         \/ /\ review[i].status \in {"MATCHED", "DISMISSED"}
            /\ Become(w, [task[w] EXCEPT !.todo = @ \ {i}, !.kept = @ \cup {i}])
            /\ UNCHANGED review
    /\ UNCHANGED <<now, companyAt, recordAt, recorded, postingVars, signalVars, detects,
                   scores, shown, missed>>

Locked(i) == \E s \in Staff : At(s, "approving") /\ task[s].about = i

\* mutant: save() without update_fields writes the status that was read
ReviewSaveRow(w) ==
    /\ At(w, "reviewing") /\ ~ Locked(task[w].about)
    /\ review' = [review EXCEPT ![task[w].about] = [status |-> "PENDING", ours |-> TRUE]]
    /\ Become(w, [task[w] EXCEPT !.at = "collecting", !.about = None])
    /\ UNCHANGED <<now, companyAt, recordAt, recorded, postingVars, signalVars, detects,
                   scores, shown, missed>>

\* save(update_fields=defaults): everything but the status, whatever it is by now
ReviewSave(w) ==
    /\ At(w, "reviewing") /\ ~ Locked(task[w].about)
    /\ review' = [review EXCEPT ![task[w].about].ours = TRUE]
    /\ Become(w, [task[w] EXCEPT !.at = "collecting", !.about = None])
    /\ UNCHANGED <<now, companyAt, recordAt, recorded, postingVars, signalVars, detects,
                   scores, shown, missed>>

\* mutant: what was stored is not given to the detector
SweepOnly(w) ==
    LET seen == task[w].matched IN
    /\ At(w, "collecting") /\ task[w].todo = {}
    /\ \/ active' = active \ {i \in Postings \ seen : origin[i] = "feed"}
       \/ UNCHANGED active       \* truncated
    /\ Become(w, Idle)
    /\ UNCHANGED <<now, companyAt, recordAt, recorded, origin, review, signalVars, detects,
                   scores, shown, missed>>

\* A whole batch deactivates what it does not show.  Detection and score follow
\* only if a posting was stored.
Sweep(w) ==
    LET seen == task[w].matched IN
    /\ At(w, "collecting") /\ task[w].todo = {}
    /\ \/ active' = active \ {i \in Postings \ seen : origin[i] = "feed"}
       \/ UNCHANGED active       \* truncated
    /\ IF seen = {} THEN Become(w, Idle) ELSE GoOn(w, "detecting")
    /\ UNCHANGED <<now, companyAt, recordAt, recorded, origin, review, signalVars, detects,
                   scores, shown, missed>>

-----------------------------------------------------------------------------
(* CRAWL_WEBSITE *)

\* fetch_url and persist_page: a record if the text is new
CrawlPage(w) ==
    /\ At(w, "idle")
    /\ \E t \in Texts, offered \in SUBSET Postings :
         /\ recorded' = recorded \cup {t}
         /\ IF t \in recorded THEN UNCHANGED <<now, recordAt>> ELSE Tick /\ recordAt' = now'
         /\ Become(w, [Started EXCEPT !.at = "stored", !.batch = offered])
    /\ UNCHANGED <<companyAt, postingVars, review, signalVars, detects, scores, shown, missed>>

\* persist_job_postings: what the page shows is attached to it and active, what it no
\* longer shows is not
PagePostings(w) ==
    LET offered == task[w].batch IN
    /\ At(w, "stored")
    /\ active' = offered \cup {i \in active : origin[i] # "page"}
    /\ origin' = [i \in Postings |-> IF i \in offered THEN "page" ELSE origin[i]]
    /\ GoOn(w, "detecting")
    /\ UNCHANGED <<now, companyAt, recordAt, recorded, review, signalVars, detects, scores,
                   shown, missed>>

-----------------------------------------------------------------------------
(* DETECT_SIGNALS, and the end of the two collections *)

\* A later version was requested before this stamp is seen.
Overtaken(jobs, at) == \E v \in ToSet(jobs.asked) : v > at

\* The rows of signals that other open detections wrote are locked.
Held(w) == UNION {task[v].found : v \in {v \in Workers \ {w} : At(v, "detected")}}

\* detect_company_signals reads the records and writes their signals, each with the
\* stamp of now.
Detect(w, company) ==
    /\ Evidence \cap Held(w) = {}
    /\ \/ /\ Evidence = {}
          /\ Become(w, [Idle EXCEPT !.at = "detected", !.company = company])
          /\ UNCHANGED now
       \/ /\ Evidence # {}
          /\ Tick
          /\ Become(w, [Idle EXCEPT !.at = "detected", !.company = company,
                                  !.found = Evidence, !.stamp = now'])

DetectJob(w) ==
    /\ At(w, "idle")
    /\ \E v \in detects.queued : detects' = Take(detects, v)
    /\ Detect(w, companyAt)
    /\ UNCHANGED <<companyAt, recordAt, recorded, postingVars, review, signalVars,
                   scores, shown, missed>>

DetectAfter(w) ==
    /\ At(w, "detecting")
    /\ Detect(w, task[w].company)
    /\ UNCHANGED <<companyAt, recordAt, recorded, postingVars, review, signalVars, detects,
                   scores, shown, missed>>

\* It commits: other signals are deactivated, and that stamps none of them.
DetectCommit(w) ==
    LET found == task[w].found
        at == task[w].stamp IN
    /\ At(w, "detected") /\ (signals \ found) \cap Held(w) = {}
    /\ signals' = found
    /\ signalAt' = IF found = {} THEN signalAt ELSE Newest(signalAt, at)
    /\ missed' = (missed \/ signals \cap (Evidence \ found) # {})
    /\ GoOn(w, "asking")
    /\ UNCHANGED <<now, companyAt, recordAt, recorded, postingVars, review, detects, scores,
                   shown>>

\* enqueue_company_score, at the end of a handler or of a correction
EnqueueScore(p) ==
    /\ At(p, "asking")
    /\ AskScore(task[p].company)
    /\ Become(p, Idle)
    /\ UNCHANGED <<now, companyAt, recordAt, recorded, postingVars, review, signalVars,
                   detects, shown, missed>>

-----------------------------------------------------------------------------
(* CALCULATE_SCORE *)

\* calculate_score reads the company and its active signals
ScoreBegin(w) ==
    /\ At(w, "idle")
    /\ \E v \in scores.queued :
         /\ scores' = Take(scores, v)
         /\ Become(w, [Started EXCEPT !.at = "scoring", !.found = signals, !.version = v])
    /\ UNCHANGED <<now, companyAt, recordAt, recorded, postingVars, review, signalVars,
                   detects, shown, missed>>

Snapshot(t) == [request |-> SelectInSeq(scores.asked, LAMBDA v : v = t.version),
                company |-> t.company, signals |-> t.found]

\* mutant: the snapshot created last is the one shown
ShowLast(snapshot) == shown' = snapshot

\* latest_score orders by as_of, the time of the request, then by created_at
Show(snapshot) == shown' = IF snapshot.request >= shown.request THEN snapshot ELSE shown

ScoreCommit(w) ==
    /\ At(w, "scoring")
    /\ Show(Snapshot(task[w]))
    /\ Become(w, Idle)
    /\ UNCHANGED <<now, companyAt, recordAt, recorded, postingVars, review, signalVars,
                   detects, scores, missed>>

-----------------------------------------------------------------------------
(* Staff: reviews, corrections, buttons *)

\* approve_job_review locks the review and stamps the record it creates
ApproveBegin(s) ==
    /\ At(s, "idle")
    /\ \E i \in Postings :
         /\ review[i].status = "PENDING" /\ ~ Locked(i)
         /\ Tick
         /\ Become(s, [Started EXCEPT !.at = "approving", !.about = i, !.stamp = now'])
    /\ UNCHANGED <<companyAt, recordAt, recorded, postingVars, review, signalVars, detects,
                   scores, shown, missed>>

\* for this company, or for another one that staff chose
ApproveCommit(s) ==
    LET i == task[s].about
        at == task[s].stamp IN
    /\ At(s, "approving")
    /\ \/ /\ review' = [review EXCEPT ![i] = [status |-> "MATCHED", ours |-> TRUE]]
          /\ active' = active \cup {i}
          /\ origin' = [origin EXCEPT ![i] = "feed"]
          /\ recordAt' = Newest(recordAt, at)
          /\ missed' = (missed \/ Overtaken(detects, at))
          /\ GoOn(s, "approved")
       \/ /\ review' = [review EXCEPT ![i] = [status |-> "MATCHED", ours |-> FALSE]]
          /\ Become(s, Idle)
          /\ UNCHANGED <<active, origin, recordAt, missed>>
    /\ UNCHANGED <<now, companyAt, recorded, signalVars, detects, scores, shown>>

\* transaction.on_commit
EnqueueDetect(s) ==
    /\ At(s, "approved")
    /\ AskDetect(task[s].company)
    /\ Become(s, Idle)
    /\ UNCHANGED <<now, companyAt, recordAt, recorded, postingVars, review, signalVars,
                   scores, shown, missed>>

Dismiss(s) ==
    /\ At(s, "idle")
    /\ \E i \in Postings :
         /\ review[i].status = "PENDING" /\ ~ Locked(i)
         /\ review' = [review EXCEPT ![i].status = "DISMISSED"]
    /\ UNCHANGED <<now, companyAt, recordAt, recorded, postingVars, signalVars, detects,
                   scores, shown, missed, task>>

\* correct_company locks the row of the company, stamps it and records the correction
CorrectBegin(s) ==
    /\ At(s, "idle") /\ \A t \in Staff : ~ At(t, "correcting")
    /\ Tick
    /\ Become(s, [Idle EXCEPT !.at = "correcting", !.stamp = now'])
    /\ UNCHANGED <<companyAt, recordAt, recorded, postingVars, review, signalVars, detects,
                   scores, shown, missed>>

CorrectCommit(s) ==
    /\ At(s, "correcting")
    /\ companyAt' = task[s].stamp
    /\ recordAt' = Newest(recordAt, task[s].stamp)
    /\ missed' = (missed \/ Overtaken(scores, task[s].stamp))
    /\ Become(s, [Idle EXCEPT !.at = "asking", !.company = task[s].stamp])
    /\ UNCHANGED <<now, recorded, postingVars, review, signalVars, detects, scores,
                   shown>>

\* company_score and company_detect_signals
PressScore ==
    /\ AskScore(companyAt)
    /\ UNCHANGED <<now, companyAt, recordAt, recorded, postingVars, review, signalVars,
                   detects, shown, missed, task>>

PressDetect ==
    /\ recordAt > 0
    /\ AskDetect(companyAt)
    /\ UNCHANGED <<now, companyAt, recordAt, recorded, postingVars, review, signalVars,
                   scores, shown, missed, task>>

-----------------------------------------------------------------------------
(* A handler fails for the last time, or a request dies: what it has      *)
(* committed stays.  The attempts before that are the business of JobQueue. *)

GiveUp(p) ==
    /\ ~ At(p, "idle")
    /\ missed' = TRUE
    /\ Become(p, Idle)
    /\ UNCHANGED <<now, companyAt, recordAt, recorded, postingVars, review, signalVars,
                   detects, scores, shown>>

Next ==
    \/ \E w \in Workers :
         \/ CollectBegin(w) \/ PersistItem(w) \/ ReviewCandidate(w) \/ ReviewSave(w) \/ Sweep(w)
         \/ CrawlPage(w) \/ PagePostings(w)
         \/ DetectJob(w) \/ DetectAfter(w) \/ DetectCommit(w)
         \/ ScoreBegin(w) \/ ScoreCommit(w)
    \/ \E s \in Staff :
         \/ ApproveBegin(s) \/ ApproveCommit(s) \/ EnqueueDetect(s) \/ Dismiss(s)
         \/ CorrectBegin(s) \/ CorrectCommit(s)
    \/ \E p \in Processes : EnqueueScore(p) \/ GiveUp(p)
    \/ PressScore \/ PressDetect

Spec == Init /\ [][Next]_vars
-----------------------------------------------------------------------------
(* Properties *)

Settled ==
    /\ \A p \in Processes : At(p, "idle")
    /\ detects.queued = {} /\ scores.queued = {}

\* Evidence that was stored reaches the signals: when nothing is queued or running,
\* nothing was dropped and no transaction committed late, every posting and text
\* that a rule matches has its active signal.
EvidenceIsDetected == Settled /\ ~ missed => Evidence \subseteq signals

\* The score on display then rests on the company as it is, and on every active
\* signal that has its evidence: the key of a request covers whatever was written
\* before it.  A signal whose posting was withdrawn while it was detected may stay
\* active and unseen.
ScoreSeesEverything ==
    Settled /\ ~ missed /\ scores.asked # <<>> =>
        shown.company = companyAt /\ signals \cap Evidence \subseteq shown.signals

\* A decision of staff on a candidate stays, whatever a collection that read the
\* review before the decision writes after it.
DecisionsAreFinal ==
    [][\A i \in Postings : review[i].status \in {"MATCHED", "DISMISSED"} =>
         review'[i].status = review[i].status]_vars

\* README.md:67, "Recoletas posteriores preservam decisoes humanas ja tomadas": a
\* collection that meets a posting in the feed and finds it approved leaves it active.
ApprovedStaysActive ==
    [][\A i \in Postings, w \in Workers :
         At(w, "collecting") /\ i \in task[w].kept
           /\ review[i] = [status |-> "MATCHED", ours |-> TRUE] /\ i \in active
         => i \in active']_vars
=============================================================================
