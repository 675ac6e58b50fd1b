------------------------ MODULE CompanySettledProofs ------------------------
(* Theorems about CompanyEvidence when nothing is left to do: detection and score
   have caught up with the evidence, for any workers, staff, texts and postings. *)
EXTENDS CompanyEvidenceProofs, FiniteSetTheorems

-----------------------------------------------------------------------------
(* Stamps.  Those of open transactions are nowhere else yet. *)

Open(p) == \/ task[p].at \in {"approving", "correcting"}
           \/ task[p].at = "detected" /\ task[p].found # {}
Used == {0, recordAt, companyAt, signalAt} \cup ToSet(detects.asked) \cup ToSet(scores.asked)
          \cup {task[p].company : p \in Processes}

Stamps ==
    /\ \A v \in Used : v <= now
    /\ \A p \in Processes : task[p].stamp <= now
    /\ \A p \in Processes : Open(p) =>
         /\ task[p].stamp \notin Used
         /\ \A q \in Processes \ {p} : Open(q) => task[q].stamp # task[p].stamp

\* The newest record is at least as new as what any request was made from, and a
\* detection stamps its signals after it read the company.
Order ==
    /\ companyAt <= recordAt
    /\ \A p \in Processes : task[p].company <= recordAt
    /\ \A v \in ToSet(detects.asked) : v <= recordAt
    /\ \A w \in Workers : At(w, "detected") /\ task[w].found # {} =>
         task[w].company < task[w].stamp

-----------------------------------------------------------------------------
(* Detection *)

\* The task ends with a detection that is yet to read.
Gathering(t) == \/ t.at \in {"collecting", "reviewing"} /\ t.matched # {}
                \/ t.at \in {"stored", "detecting"}

\* A detection will read whatever there is now: at the end of a collection, in a job
\* that was requested, or in one that an approval will request under a new version.
Pending ==
    \/ \E w \in Workers : Gathering(task[w])
    \/ detects.queued # {}
    \/ \E s \in Staff : At(s, "approved") /\ \A v \in ToSet(detects.asked) : v < recordAt

Finds(w, e) == At(w, "detected") /\ e \in task[w].found

\* No detection that is open read later than that of w, and none of its signals is
\* newer.
IsNewest(w) ==
    /\ signalAt < task[w].stamp
    /\ \A v \in Workers \ {w} : At(v, "detected") /\ task[v].found # {} =>
         task[v].stamp < task[w].stamp

Detection ==
    ~ missed =>
      /\ \A e \in Evidence \ signals : Pending \/ \E w \in Workers : Finds(w, e)
      /\ \A w \in Workers, e \in Evidence : Finds(w, e) => Pending \/ IsNewest(w)

-----------------------------------------------------------------------------
(* Scores *)

\* Every request has a version of its own.
Distinct(jobs) ==
    /\ jobs.queued \subseteq ToSet(jobs.asked)
    /\ \A i, j \in DOMAIN jobs.asked : jobs.asked[i] = jobs.asked[j] => i = j

Scoring(p) == At(p, "scoring")
LastAsked == scores.asked[Len(scores.asked)]

\* It is calculated once.
Once ==
    /\ \A p \in Processes : Scoring(p) =>
         task[p].version \in ToSet(scores.asked) \ scores.queued
    /\ \A p, q \in Processes : Scoring(p) /\ Scoring(q) /\ task[p].version = task[q].version
         => p = q
    /\ shown.request \in 0..Len(scores.asked)
    /\ shown.request # 0 =>
         /\ scores.asked[shown.request] \notin scores.queued
         /\ \A p \in Processes : Scoring(p) => task[p].version # scores.asked[shown.request]

\* A score will be calculated that reads whatever there is now.
ScorePending ==
    \/ LastAsked \in scores.queued
    \/ \E p \in Processes : At(p, "asking")
                            /\ ScoreVersion(task[p].company) \notin ToSet(scores.asked)

CompanyScored ==
    \/ ScorePending
    \/ \E p \in Processes : /\ Scoring(p) /\ task[p].version = LastAsked
                            /\ task[p].company = companyAt
    \/ shown.request = Len(scores.asked) /\ shown.company = companyAt

SignalScored(e) ==
    \/ Pending \/ ScorePending
    \/ \E w \in Workers : Finds(w, e)
    \/ \E p \in Processes : /\ Scoring(p) /\ task[p].version = LastAsked
                            /\ e \in task[p].found
    \/ shown.request = Len(scores.asked) /\ e \in shown.signals

Scores ==
    ~ missed /\ scores.asked # <<>> =>
      CompanyScored /\ \A e \in signals \cap Evidence : SignalScored(e)

Distincts == Distinct(detects) /\ Distinct(scores)

-----------------------------------------------------------------------------
(* What the helpers give. *)

(* A step of p: the other tasks stay. *)
LEMMA Moved ==
    ASSUME Typed, NEW p \in Processes, NEW t \in Task, Become(p, t)
    PROVE  /\ task'[p] = t
           /\ \A q \in Processes : task'[q] = IF q = p THEN t ELSE task[q]
BY BecomeTyped DEF Typed

(* Stamps in tasks are numbers, and so is whatever was used. *)
LEMMA Numbers ==
    ASSUME Typed
    PROVE  /\ now \in Nat /\ Used \subseteq Time /\ Used \subseteq Nat
           /\ \A p \in Processes : /\ task[p] \in Task /\ task[p].stamp \in Nat
                                   /\ task[p].company \in Time /\ task[p].company \in Nat
                                   /\ task[p].company \in Used
           /\ recordAt \in Nat /\ companyAt \in Nat /\ signalAt \in Nat
           /\ 0 \in Used /\ recordAt \in Used /\ companyAt \in Used /\ signalAt \in Used
           /\ ToSet(detects.asked) \subseteq Used /\ ToSet(scores.asked) \subseteq Used
<1>1. ToSet(detects.asked) \subseteq Time /\ ToSet(scores.asked) \subseteq Time
  BY DEF Typed, Requests, ToSet
<1>2. \A p \in Processes : task[p] \in Task /\ task[p].stamp \in Time /\ task[p].company \in Time
  BY DEF Typed, Task
<1>3. Used \subseteq Time
  BY <1>1, <1>2, Basics DEF Used, Typed
<1> QED BY <1>2, <1>3, Basics DEF Typed, Used

(* A request appends its version, unless it was requested. *)
LEMMA AskedIs ==
    ASSUME NEW jobs \in Requests, NEW v \in Time
    PROVE  /\ ToSet(Ask(jobs, v).asked) = ToSet(jobs.asked) \cup {v}
           /\ v \in ToSet(jobs.asked) => Ask(jobs, v) = jobs
           /\ v \notin ToSet(jobs.asked) =>
                /\ v \in Ask(jobs, v).queued /\ jobs.queued \subseteq Ask(jobs, v).queued
                /\ Ask(jobs, v).queued = jobs.queued \cup {v}
                /\ Ask(jobs, v).asked = Append(jobs.asked, v)
           /\ jobs.queued \subseteq Ask(jobs, v).queued
<1>1. jobs.asked \in Seq(Time)
  BY DEF Requests
<1>2. CASE v \in ToSet(jobs.asked)
  BY <1>2 DEF Ask
<1>3. CASE v \notin ToSet(jobs.asked)
  <2>1. ToSet(Append(jobs.asked, v)) = ToSet(jobs.asked) \cup {v}
    <3> DEFINE a == jobs.asked
               b == Append(jobs.asked, v)
    <3>1. /\ Len(a) \in Nat /\ DOMAIN a = 1..Len(a) /\ DOMAIN b = 1..Len(a) + 1
          /\ b[Len(a) + 1] = v /\ \A i \in 1..Len(a) : b[i] = a[i]
      BY <1>1
    <3> HIDE DEF a, b
    <3>2. \A i \in DOMAIN b : b[i] = v \/ (i \in DOMAIN a /\ b[i] = a[i])
      BY <3>1
    <3>3. \A i \in DOMAIN a : i \in DOMAIN b /\ b[i] = a[i]
      BY <3>1
    <3>4. Len(a) + 1 \in DOMAIN b
      BY <3>1
    <3>5. ToSet(b) = ToSet(a) \cup {v}
      BY <3>1, <3>2, <3>3, <3>4 DEF ToSet
    <3> QED BY <3>5 DEF a, b
  <2> QED BY <1>3, <2>1 DEF Ask
<1> QED BY <1>2, <1>3

(* Requests stay distinct. *)
LEMMA AskedDistinct ==
    ASSUME NEW jobs \in Requests, NEW v \in Time, Distinct(jobs)
    PROVE  Distinct(Ask(jobs, v)) /\ Distinct(Take(jobs, v))
<1>1. jobs.asked \in Seq(Time)
  BY DEF Requests
<1>2. Distinct(Ask(jobs, v))
  <2>1. CASE v \in ToSet(jobs.asked)
    BY <2>1, AskedIs
  <2>2. CASE v \notin ToSet(jobs.asked)
    <3> DEFINE s == Append(jobs.asked, v)
    <3>1. \A i \in DOMAIN jobs.asked : jobs.asked[i] # v
      BY <2>2 DEF ToSet
    <3>2. \A i, j \in DOMAIN s : s[i] = s[j] => i = j
      BY <1>1, <3>1 DEF Distinct
    <3>3. Ask(jobs, v).asked = s /\ Ask(jobs, v).queued \subseteq ToSet(Ask(jobs, v).asked)
      BY <2>2, AskedIs DEF Distinct
    <3> HIDE DEF s
    <3> QED BY <3>2, <3>3 DEF Distinct
  <2> QED BY <2>1, <2>2
<1>3. Distinct(Take(jobs, v))
  BY DEF Take, Distinct, Requests
<1> QED BY <1>2, <1>3

-----------------------------------------------------------------------------
(* Stamps and their order. *)

Opens(t) == t.at \in {"approving", "correcting"} \/ (t.at = "detected" /\ t.found # {})
UsedBy(t) == {recordAt, companyAt, signalAt, t.company}
               \cup ToSet(detects.asked) \cup ToSet(scores.asked)

(* What is used after a step: what was used, or what the step made. *)
LEMMA UsedAfter ==
    ASSUME Typed, NEW p \in Processes, NEW t \in Task, Become(p, t)
    PROVE  Used' \subseteq Used \cup UsedBy(t)'
BY Moved DEF Used, UsedBy

(* Open stamps stay apart: a step makes a new stamp that it uses or keeps open, uses
   one that was its own, or makes none. *)
LEMMA StampsStep ==
    ASSUME Typed, Stamps, NEW p \in Processes, NEW t \in Task, Become(p, t),
           \/ now' = now /\ UsedBy(t)' \subseteq Used /\ t.stamp <= now /\ ~ Opens(t)
           \/ now' = now + 1 /\ UsedBy(t)' \subseteq Used \cup {now'} /\ t.stamp <= now' /\ ~ Opens(t)
           \/ now' = now + 1 /\ UsedBy(t)' \subseteq Used /\ t.stamp = now'
           \/ /\ now' = now /\ UsedBy(t)' \subseteq Used \cup {task[p].stamp}
              /\ Open(p) /\ t.stamp <= now /\ ~ Opens(t)
    PROVE  Stamps'
<1>1. /\ task'[p] = t
      /\ \A q \in Processes : task'[q] = IF q = p THEN t ELSE task[q]
  BY Moved
<1>2. /\ now \in Nat /\ Used \subseteq Nat /\ now' \in {now, now + 1} /\ t.stamp \in Nat
      /\ \A q \in Processes : task[q].stamp \in Nat
  BY Numbers DEF Task, Time
<1>3. /\ Open(p)' => Opens(t)
      /\ \A q \in Processes \ {p} : Open(q)' <=> Open(q)
  BY <1>1 DEF Open, Opens
<1> DEFINE N == Used'
           U == Used
<1>4. \/ now' = now /\ N \subseteq U /\ t.stamp <= now /\ ~ Opens(t)
      \/ now' = now + 1 /\ N \subseteq U \cup {now'} /\ t.stamp <= now' /\ ~ Opens(t)
      \/ now' = now + 1 /\ N \subseteq U /\ t.stamp = now'
      \/ /\ now' = now /\ N \subseteq U \cup {task[p].stamp}
         /\ Open(p) /\ t.stamp <= now /\ ~ Opens(t)
  BY UsedAfter
<1>5. /\ \A v \in U : v <= now /\ v \in Nat
      /\ \A q \in Processes : task[q].stamp <= now
      /\ \A q \in Processes : Open(q) =>
           /\ task[q].stamp \notin U
           /\ \A r \in Processes \ {q} : Open(r) => task[r].stamp # task[q].stamp
  BY <1>2 DEF Stamps
<1> HIDE DEF N, U
<1>6. \A v \in N : v <= now'
  BY <1>2, <1>4, <1>5
<1>7. \A q \in Processes : task'[q].stamp <= now'
  BY <1>1, <1>2, <1>4, <1>5
<1>8. ASSUME NEW q \in Processes, Open(q)'
      PROVE  /\ task'[q].stamp \notin N
             /\ \A r \in Processes \ {q} : Open(r)' => task'[r].stamp # task'[q].stamp
  <2>1. CASE q = p
    <3>1. now' = now + 1 /\ N \subseteq U /\ t.stamp = now'
      BY <1>3, <1>4, <1>8, <2>1
    <3> QED BY <1>1, <1>2, <1>5, <2>1, <3>1
  <2>2. CASE q # p
    <3>1. Open(q) /\ task'[q] = task[q] /\ task[q].stamp <= now
      BY <1>1, <1>3, <1>5, <1>8, <2>2
    <3>2. task[q].stamp \notin N
      BY <1>2, <1>4, <1>5, <2>2, <3>1
    <3>3. \A r \in Processes \ {q} : Open(r)' => task'[r].stamp # task[q].stamp
      BY <1>1, <1>2, <1>3, <1>4, <1>5, <2>2, <3>1
    <3> QED BY <3>1, <3>2, <3>3
  <2> QED BY <2>1, <2>2
<1> QED BY <1>6, <1>7, <1>8 DEF Stamps, N

(* Records are never older than the versions made from them. *)
LEMMA OrderStep ==
    ASSUME Typed, Order, NEW p \in Processes, NEW t \in Task, Become(p, t),
           recordAt' \in Time, recordAt <= recordAt', companyAt' <= recordAt',
           t.company <= recordAt', \A v \in ToSet(detects'.asked) : v <= recordAt',
           t.at = "detected" /\ t.found # {} => t.company < t.stamp
    PROVE  Order'
<1>1. /\ task'[p] = t
      /\ \A q \in Processes : task'[q] = IF q = p THEN t ELSE task[q]
  BY Moved
<1>2. recordAt \in Nat /\ recordAt' \in Nat /\ \A q \in Processes : task[q].company \in Nat
  BY Numbers, Basics
<1>3. \A q \in Processes : task'[q].company <= recordAt'
  BY <1>1, <1>2 DEF Order
<1>4. \A w \in Workers : At(w, "detected")' /\ task'[w].found # {} =>
         task'[w].company < task'[w].stamp
  BY <1>1 DEF Order, At, Processes
<1> QED BY <1>3, <1>4 DEF Order

-----------------------------------------------------------------------------
(* What each step makes of its process. *)

(* What is started has read the company; idle is who holds nothing. *)
LEMMA StartedIs ==
    ASSUME Typed
    PROVE  /\ Started \in Task /\ Started.company = companyAt /\ Started.stamp = 0
           /\ Started.matched = {} /\ Started.found = {}
           /\ Idle \in Task /\ Idle.at = "idle" /\ Idle.company = 0 /\ Idle.stamp = 0
           /\ Idle.matched = {} /\ Idle.found = {}
BY IdleTyped DEF Started, Idle, Typed

(* Who goes on keeps the company that was read. *)
LEMMA GoesOn ==
    ASSUME Typed, NEW p \in Processes, NEW state \in {"detecting", "asking", "approved"},
           GoOn(p, state)
    PROVE  \E t \in Task : /\ Become(p, t) /\ t.at = state /\ t.company = task[p].company
                           /\ t.stamp = 0 /\ t.found = {} /\ t.matched = {}
<1> DEFINE t == [Idle EXCEPT !.at = state, !.company = task[p].company]
<1>1. t \in Task
  BY StartedIs, Numbers DEF Task
<1>2. /\ t.at = state /\ t.company = task[p].company
      /\ t.stamp = 0 /\ t.found = {} /\ t.matched = {}
  BY DEF Idle
<1> QED BY <1>1, <1>2 DEF GoOn

(* A collection begins. *)
LEMMA CollectBeginIs ==
    ASSUME Typed, NEW w \in Workers, CollectBegin(w)
    PROVE  \E t \in Task : /\ Become(w, t) /\ t.at = "collecting"
                           /\ t.company = companyAt /\ t.stamp = 0
<1>1. PICK offered \in SUBSET Postings :
        Become(w, [Started EXCEPT !.at = "collecting", !.todo = offered])
  BY DEF CollectBegin
<1> DEFINE t == [Started EXCEPT !.at = "collecting", !.todo = offered]
<1>2. t \in Task /\ t.at = "collecting" /\ t.company = companyAt /\ t.stamp = 0
  BY StartedIs DEF Task
<1> QED BY <1>1, <1>2

(* It stores an item. *)
LEMMA PersistItemIs ==
    ASSUME Typed, NEW w \in Workers, PersistItem(w)
    PROVE  /\ At(w, "collecting")
           /\ \E t \in Task : /\ Become(w, t) /\ t.at = "collecting" /\ t.matched # {}
                              /\ t.company = task[w].company /\ t.stamp = task[w].stamp
<1>1. PICK i \in task[w].todo :
        Become(w, [task[w] EXCEPT !.todo = @ \ {i}, !.matched = @ \cup {i}])
  BY DEF PersistItem
<1> DEFINE t == [task[w] EXCEPT !.todo = @ \ {i}, !.matched = @ \cup {i}]
<1>2. task[w] \in Task /\ At(w, "collecting")
  BY Numbers DEF PersistItem, Processes
<1>3. /\ t \in Task /\ t.at = "collecting" /\ t.matched # {}
      /\ t.company = task[w].company /\ t.stamp = task[w].stamp
  BY <1>1, <1>2 DEF Task, At
<1> QED BY <1>1, <1>2, <1>3

(* It looks at reviews. *)
LEMMA ReviewIs ==
    ASSUME Typed, NEW w \in Workers, ReviewCandidate(w) \/ ReviewSave(w)
    PROVE  /\ task[w].at \in {"collecting", "reviewing"}
           /\ \E t \in Task : /\ Become(w, t) /\ t.at \in {"collecting", "reviewing"}
                              /\ t.matched = task[w].matched
                              /\ t.company = task[w].company /\ t.stamp = task[w].stamp
<1>1. task[w] \in Task /\ w \in Processes
  BY Numbers DEF Processes
<1>2. CASE ReviewCandidate(w)
  <2>1. PICK i \in task[w].todo :
           \/ Become(w, [task[w] EXCEPT !.todo = @ \ {i}])
           \/ Become(w, [task[w] EXCEPT !.at = "reviewing", !.about = i, !.todo = @ \ {i}])
           \/ Become(w, [task[w] EXCEPT !.todo = @ \ {i}, !.kept = @ \cup {i}])
    BY <1>2 DEF ReviewCandidate
  <2>2. i \in Postings /\ task[w].at = "collecting"
    BY <1>1, <1>2 DEF Task, ReviewCandidate, At
  <2> DEFINE Good(t) == /\ t \in Task /\ t.at \in {"collecting", "reviewing"}
                        /\ t.matched = task[w].matched
                        /\ t.company = task[w].company /\ t.stamp = task[w].stamp
  <2>3. /\ Good([task[w] EXCEPT !.todo = @ \ {i}])
        /\ Good([task[w] EXCEPT !.at = "reviewing", !.about = i, !.todo = @ \ {i}])
        /\ Good([task[w] EXCEPT !.todo = @ \ {i}, !.kept = @ \cup {i}])
    BY <1>1, <2>2 DEF Task
  <2>4. \E t : Become(w, t) /\ Good(t)
    BY <2>1, <2>3
  <2> QED BY <2>2, <2>4
<1>3. CASE ReviewSave(w)
  <2> DEFINE t == [task[w] EXCEPT !.at = "collecting", !.about = None]
  <2>1. /\ t \in Task /\ t.at = "collecting" /\ t.matched = task[w].matched
        /\ t.company = task[w].company /\ t.stamp = task[w].stamp
    BY <1>1 DEF Task
  <2> QED BY <1>3, <2>1 DEF ReviewSave, At
<1> QED BY <1>2, <1>3

(* A crawl stores its page. *)
LEMMA CrawlPageIs ==
    ASSUME Typed, NEW w \in Workers, CrawlPage(w)
    PROVE  \E t \in Task : /\ Become(w, t) /\ t.at = "stored"
                           /\ t.company = companyAt /\ t.stamp = 0
<1>1. PICK offered \in SUBSET Postings :
        Become(w, [Started EXCEPT !.at = "stored", !.batch = offered])
  BY DEF CrawlPage
<1> DEFINE t == [Started EXCEPT !.at = "stored", !.batch = offered]
<1>2. t \in Task /\ t.at = "stored" /\ t.company = companyAt /\ t.stamp = 0
  BY StartedIs DEF Task
<1> QED BY <1>1, <1>2

(* A detection reads: all the evidence, under a new stamp if there is any. *)
LEMMA DetectIs ==
    ASSUME Typed, NEW w \in Workers, NEW c \in Time, Detect(w, c)
    PROVE  /\ Evidence \cap Held(w) = {}
           /\ \E t \in Task : /\ Become(w, t) /\ t.at = "detected" /\ t.found = Evidence
                              /\ t.company = c
                              /\ \/ Evidence = {} /\ now' = now /\ t.stamp = 0
                                 \/ Evidence # {} /\ now' = now + 1 /\ t.stamp = now'
<1>1. CASE Evidence = {}
  <2> DEFINE t == [Idle EXCEPT !.at = "detected", !.company = c]
  <2>1. t \in Task /\ t.at = "detected" /\ t.found = {} /\ t.company = c /\ t.stamp = 0
    BY StartedIs DEF Task, Idle
  <2>2. Become(w, t) /\ now' = now
    BY <1>1 DEF Detect
  <2> QED BY <1>1, <2>1, <2>2 DEF Detect
<1>2. CASE Evidence # {}
  <2>1. now' \in Time /\ now' = now + 1
    BY <1>2, TickTyped DEF Detect, Typed, Tick
  <2> DEFINE t == [Idle EXCEPT !.at = "detected", !.company = c, !.found = Evidence,
                               !.stamp = now']
  <2>2. t \in Task
    BY <2>1, StartedIs DEF Task, Evidence
  <2>3. t.at = "detected" /\ t.found = Evidence /\ t.company = c /\ t.stamp = now'
    BY DEF Idle
  <2> QED BY <1>2, <2>1, <2>2, <2>3 DEF Detect
<1> QED BY <1>1, <1>2

(* A score is begun. *)
LEMMA ScoreBeginIs ==
    ASSUME Typed, NEW w \in Workers, ScoreBegin(w)
    PROVE  \E v \in scores.queued : \E t \in Task :
             /\ scores' = Take(scores, v)
             /\ Become(w, t) /\ t.at = "scoring" /\ t.company = companyAt /\ t.stamp = 0
             /\ t.found = signals /\ t.version = v
<1>1. PICK v \in scores.queued :
        /\ scores' = Take(scores, v)
        /\ Become(w, [Started EXCEPT !.at = "scoring", !.found = signals, !.version = v])
  BY DEF ScoreBegin
<1> DEFINE t == [Started EXCEPT !.at = "scoring", !.found = signals, !.version = v]
<1>2. v \in Time
  BY DEF Typed, Requests
<1>3. t \in Task
  BY <1>2, StartedIs DEF Task, Typed
<1>4. /\ t.at = "scoring" /\ t.company = companyAt /\ t.stamp = 0
      /\ t.found = signals /\ t.version = v
  BY StartedIs DEF Started, Idle
<1> QED BY <1>1, <1>3, <1>4

(* Staff begin an approval or a correction, under a new stamp. *)
LEMMA StaffBeginIs ==
    ASSUME Typed, NEW s \in Staff, ApproveBegin(s) \/ CorrectBegin(s)
    PROVE  /\ now' = now + 1
           /\ \E t \in Task : /\ Become(s, t) /\ t.at \in {"approving", "correcting"}
                              /\ t.company \in {0, companyAt} /\ t.stamp = now'
<1>1. now' = now + 1 /\ now' \in Time
  BY TickTyped DEF ApproveBegin, CorrectBegin, Tick, Typed
<1>2. CASE ApproveBegin(s)
  <2>1. PICK i \in Postings :
          Become(s, [Started EXCEPT !.at = "approving", !.about = i, !.stamp = now'])
    BY <1>2 DEF ApproveBegin
  <2> DEFINE t == [Started EXCEPT !.at = "approving", !.about = i, !.stamp = now']
  <2>2. t \in Task /\ t.at = "approving" /\ t.company = companyAt /\ t.stamp = now'
    BY <1>1, StartedIs DEF Task
  <2> QED BY <1>1, <2>1, <2>2
<1>3. CASE CorrectBegin(s)
  <2> DEFINE t == [Idle EXCEPT !.at = "correcting", !.stamp = now']
  <2>1. t \in Task /\ t.at = "correcting" /\ t.company = 0 /\ t.stamp = now'
    BY <1>1, StartedIs DEF Task
  <2> QED BY <1>1, <1>3, <2>1 DEF CorrectBegin
<1> QED BY <1>2, <1>3

(* A correction commits under its stamp and is about to ask for a score. *)
LEMMA CorrectCommitIs ==
    ASSUME Typed, NEW s \in Staff, CorrectCommit(s)
    PROVE  \E t \in Task : /\ Become(s, t) /\ t.at = "asking" /\ t.stamp = 0 /\ t.found = {}
                           /\ t.company = task[s].stamp
<1> DEFINE t == [Idle EXCEPT !.at = "asking", !.company = task[s].stamp]
<1>1. task[s].stamp \in Time
  BY DEF Typed, Task, Processes
<1>2. t \in Task
  BY <1>1, StartedIs DEF Task
<1>3. t.at = "asking" /\ t.stamp = 0 /\ t.found = {} /\ t.company = task[s].stamp
  BY DEF Idle
<1> QED BY <1>2, <1>3 DEF CorrectCommit

-----------------------------------------------------------------------------
(* Every step keeps stamps and their order. *)

Timed == Typed /\ Stamps /\ Order

(* A detection is requested for the newest record, a score for what was used. *)
LEMMA VersionsAre ==
    ASSUME Timed, NEW c \in Used, c <= recordAt
    PROVE  /\ DetectVersion(c) = recordAt /\ recordAt \in Time
           /\ ScoreVersion(c) \in {c, signalAt} /\ ScoreVersion(c) \in Time
           /\ c <= ScoreVersion(c) /\ signalAt <= ScoreVersion(c)
<1>1. c \in Time /\ c \in Nat /\ recordAt \in Nat /\ signalAt \in Nat
  BY Numbers DEF Timed
<1>2. recordAt \in Time /\ signalAt \in Time
  BY DEF Timed, Typed
<1> QED BY <1>1, <1>2 DEF DetectVersion, ScoreVersion, Newest

(* A request leaves only versions that were there, or that one. *)
LEMMA AskedTimed ==
    ASSUME Timed, NEW c \in Used, c <= recordAt
    PROVE  /\ AskScore(c) => ToSet(scores'.asked) \subseteq Used
           /\ AskDetect(c) => ToSet(detects'.asked) \subseteq ToSet(detects.asked) \cup {recordAt}
<1>1. scores \in Requests /\ detects \in Requests
  BY DEF Timed, Typed
<1>2. AskScore(c) => ToSet(scores'.asked) = ToSet(scores.asked) \cup {ScoreVersion(c)}
  BY <1>1, VersionsAre, AskedIs DEF AskScore
<1>3. AskDetect(c) => ToSet(detects'.asked) = ToSet(detects.asked) \cup {recordAt}
  BY <1>1, VersionsAre, AskedIs DEF AskDetect
<1> QED BY <1>2, <1>3, VersionsAre, Numbers DEF Timed

(* Jobs are taken under versions that were requested. *)
LEMMA TakenIs == \A jobs, v : Take(jobs, v).asked = jobs.asked
BY DEF Take

(* A step that makes no stamp and commits none. *)
LEMMA TimedQuiet ==
    ASSUME Timed, NEW p \in Processes, NEW t \in Task, Become(p, t),
           UNCHANGED <<now, companyAt, recordAt, signalAt>>,
           ToSet(detects'.asked) \subseteq ToSet(detects.asked) \cup {recordAt},
           ToSet(scores'.asked) \subseteq Used,
           t.company \in {0, companyAt, task[p].company}, t.stamp \in {0, task[p].stamp}, ~ Opens(t)
    PROVE  Stamps' /\ Order'
<1>1. t.stamp <= now
  BY Numbers DEF Timed, Stamps
<1>2. t.company <= recordAt /\ t.company \in Used
  BY Numbers DEF Timed, Order
<1>3. UsedBy(t)' \subseteq Used
  BY <1>2, Numbers DEF Timed, UsedBy
<1>4. Stamps'
  BY <1>1, <1>3, StampsStep DEF Timed
<1>5. \A v \in ToSet(detects'.asked) : v <= recordAt'
  BY Numbers DEF Timed, Order
<1>6. recordAt' \in Time /\ recordAt <= recordAt' /\ companyAt' <= recordAt'
  BY Numbers DEF Timed, Order, Typed
<1>7. Order'
  BY <1>2, <1>5, <1>6, OrderStep DEF Timed, Opens
<1> QED BY <1>4, <1>7

(* A step that commits under a new stamp. *)
LEMMA TimedFresh ==
    ASSUME Timed, NEW p \in Processes, NEW t \in Task, Become(p, t),
           UNCHANGED <<companyAt, signalAt, detects, scores>>,
           Tick, recordAt' = now',
           t.company \in {companyAt, task[p].company}, t.stamp \in {0, task[p].stamp}, ~ Opens(t)
    PROVE  Stamps' /\ Order'
<1>1. now' = now + 1 /\ now' \in Time /\ now \in Nat
  BY TickTyped, Numbers DEF Timed, Typed, Tick
<1>2. t.stamp <= now'
  BY <1>1, Numbers DEF Timed, Stamps
<1>3. t.company \in Used /\ \A v \in Used : v \in Nat /\ v <= now'
  BY <1>1, Numbers DEF Timed, Stamps
<1>4. UsedBy(t)' \subseteq Used \cup {now'}
  BY <1>3, Numbers DEF Timed, UsedBy
<1>5. Stamps'
  BY <1>1, <1>2, <1>4, StampsStep DEF Timed
<1>6. /\ recordAt' \in Time /\ recordAt <= recordAt' /\ companyAt' <= recordAt'
      /\ t.company <= recordAt' /\ \A v \in ToSet(detects'.asked) : v <= recordAt'
  BY <1>1, <1>3, Numbers DEF Timed
<1>7. Order'
  BY <1>6, OrderStep DEF Timed, Opens
<1> QED BY <1>5, <1>7

(* A step that opens a transaction under a new stamp. *)
LEMMA TimedOpen ==
    ASSUME Timed, NEW p \in Processes, NEW t \in Task, Become(p, t),
           UNCHANGED <<companyAt, recordAt, signalAt, scores>>,
           ToSet(detects'.asked) \subseteq ToSet(detects.asked),
           now' = now + 1, t.company \in Used, t.company <= recordAt, t.stamp = now'
    PROVE  Stamps' /\ Order'
<1>1. UsedBy(t)' \subseteq Used
  BY Numbers DEF Timed, UsedBy
<1>2. Stamps'
  BY <1>1, StampsStep DEF Timed
<1>3. t.company < t.stamp
  BY Numbers DEF Timed, Stamps
<1>4. /\ recordAt' \in Time /\ recordAt <= recordAt' /\ companyAt' <= recordAt'
      /\ t.company <= recordAt' /\ \A v \in ToSet(detects'.asked) : v <= recordAt'
  BY Numbers DEF Timed, Typed, Order
<1>5. Order'
  BY <1>3, <1>4, OrderStep DEF Timed
<1> QED BY <1>2, <1>5

(* A step that commits under the stamp of its transaction. *)
LEMMA TimedClose ==
    ASSUME Timed, NEW p \in Processes, NEW t \in Task, Become(p, t), Open(p),
           UNCHANGED <<now, detects, scores>>,
           recordAt' \in {recordAt, Newest(recordAt, task[p].stamp)},
           signalAt' \in {signalAt, Newest(signalAt, task[p].stamp)},
           \/ companyAt' = companyAt /\ t.company \in {0, task[p].company}
           \/ /\ companyAt' = task[p].stamp /\ t.company = task[p].stamp
              /\ recordAt' = Newest(recordAt, task[p].stamp),
           t.stamp = 0, ~ Opens(t)
    PROVE  Stamps' /\ Order'
<1> DEFINE n == task[p].stamp
<1>1. n \in Nat /\ n \in Time /\ now \in Nat
  BY Numbers DEF Timed, Typed, Task
<1>2. recordAt' \in {recordAt, n} /\ recordAt <= recordAt' /\ recordAt' \in Time
  BY <1>1, Numbers DEF Timed, Newest, Typed
<1>3. signalAt' \in {signalAt, n}
  BY DEF Newest
<1>4. recordAt' = Newest(recordAt, n) => n <= recordAt'
  BY <1>1, Numbers DEF Timed, Newest
<1>5. /\ companyAt' \in {companyAt, n} /\ t.company \in {0, task[p].company, n}
      /\ companyAt' <= recordAt' /\ t.company <= recordAt'
  BY <1>1, <1>2, <1>4, Numbers DEF Timed, Order
<1>6. UsedBy(t)' \subseteq Used \cup {n}
  BY <1>2, <1>3, <1>5, Numbers DEF Timed, UsedBy
<1>7. Stamps'
  BY <1>1, <1>6, StampsStep DEF Timed
<1>8. \A v \in ToSet(detects'.asked) : v <= recordAt'
  BY <1>2, Numbers DEF Timed, Order
<1>9. Order'
  BY <1>2, <1>5, <1>8, OrderStep DEF Timed, Opens
<1> QED BY <1>7, <1>9

(* The steps of workers keep stamps and order. *)
LEMMA CollectTimed ==
    ASSUME Timed, NEW w \in Workers,
           \/ CollectBegin(w) \/ PersistItem(w) \/ ReviewCandidate(w) \/ ReviewSave(w) \/ Sweep(w)
           \/ CrawlPage(w) \/ PagePostings(w)
    PROVE  Stamps' /\ Order'
<1>0. w \in Processes /\ Typed /\ ToSet(scores.asked) \subseteq Used
  BY Numbers DEF Timed, Processes
<1>1. CASE CollectBegin(w)
  <2>1. PICK t \in Task : Become(w, t) /\ t.at = "collecting" /\ t.company = companyAt /\ t.stamp = 0
    BY <1>0, <1>1, CollectBeginIs
  <2> QED BY <1>0, <1>1, <2>1, TimedQuiet DEF CollectBegin, signalVars, Opens
<1>2. CASE PersistItem(w)
  <2>1. PICK t \in Task : /\ Become(w, t) /\ t.at = "collecting"
                          /\ t.company = task[w].company /\ t.stamp = task[w].stamp
    BY <1>0, <1>2, PersistItemIs
  <2>2. CASE UNCHANGED <<now, recordAt>>
    BY <1>0, <1>2, <2>1, <2>2, TimedQuiet DEF PersistItem, signalVars, Opens
  <2>3. CASE Tick /\ recordAt' = now'
    BY <1>0, <1>2, <2>1, <2>3, TimedFresh DEF PersistItem, signalVars, Opens
  <2> QED BY <1>2, <2>2, <2>3 DEF PersistItem
<1>3. CASE ReviewCandidate(w) \/ ReviewSave(w)
  <2>1. PICK t \in Task : /\ Become(w, t) /\ t.at \in {"collecting", "reviewing"}
                          /\ t.company = task[w].company /\ t.stamp = task[w].stamp
    BY <1>0, <1>3, ReviewIs
  <2>2. UNCHANGED <<now, companyAt, recordAt, signalAt, detects, scores>>
    BY <1>3 DEF ReviewCandidate, ReviewSave, signalVars
  <2> QED BY <1>0, <2>1, <2>2, TimedQuiet DEF Opens
<1>4. CASE Sweep(w)
  <2>1. PICK t \in Task : /\ Become(w, t) /\ t.at \in {"idle", "detecting"}
                          /\ t.company \in {0, task[w].company} /\ t.stamp = 0
    <3>1. CASE Become(w, Idle)
      BY <1>0, <3>1, StartedIs
    <3>2. CASE GoOn(w, "detecting")
      BY <1>0, <3>2, GoesOn
    <3> QED BY <1>4, <3>1, <3>2 DEF Sweep
  <2> QED BY <1>0, <1>4, <2>1, TimedQuiet DEF Sweep, signalVars, Opens
<1>5. CASE CrawlPage(w)
  <2>1. PICK t \in Task : Become(w, t) /\ t.at = "stored" /\ t.company = companyAt /\ t.stamp = 0
    BY <1>0, <1>5, CrawlPageIs
  <2>2. UNCHANGED <<now, recordAt>> \/ (Tick /\ recordAt' = now')
    BY <1>5 DEF CrawlPage
  <2>3. CASE UNCHANGED <<now, recordAt>>
    BY <1>0, <1>5, <2>1, <2>3, TimedQuiet DEF CrawlPage, signalVars, Opens
  <2>4. CASE Tick /\ recordAt' = now'
    BY <1>0, <1>5, <2>1, <2>4, TimedFresh DEF CrawlPage, signalVars, Opens
  <2> QED BY <2>2, <2>3, <2>4
<1>6. CASE PagePostings(w)
  <2>1. PICK t \in Task : /\ Become(w, t) /\ t.at = "detecting"
                          /\ t.company = task[w].company /\ t.stamp = 0
    BY <1>0, <1>6, GoesOn DEF PagePostings
  <2> QED BY <1>0, <1>6, <2>1, TimedQuiet DEF PagePostings, signalVars, Opens
<1> QED BY <1>1, <1>2, <1>3, <1>4, <1>5, <1>6

(* So do those of detections and scores. *)
LEMMA DetectTimed ==
    ASSUME Timed, NEW w \in Workers,
           DetectJob(w) \/ DetectAfter(w) \/ DetectCommit(w) \/ ScoreBegin(w) \/ ScoreCommit(w)
    PROVE  Stamps' /\ Order'
<1>0. w \in Processes /\ Typed /\ ToSet(scores.asked) \subseteq Used
  BY Numbers DEF Timed, Processes
<1>1. CASE DetectJob(w) \/ DetectAfter(w)
  <2>1. PICK c \in {companyAt, task[w].company} : Detect(w, c)
    BY <1>1 DEF DetectJob, DetectAfter
  <2>2. c \in Time /\ c \in Used /\ c <= recordAt
    BY <1>0, <2>1, Numbers DEF Timed, Order, Typed
  <2>3. PICK t \in Task : /\ Become(w, t) /\ t.at = "detected" /\ t.found = Evidence
                          /\ t.company = c
                          /\ \/ Evidence = {} /\ now' = now /\ t.stamp = 0
                             \/ Evidence # {} /\ now' = now + 1 /\ t.stamp = now'
    BY <1>0, <2>1, <2>2, DetectIs
  <2>4. /\ UNCHANGED <<companyAt, recordAt, signalAt, scores>>
        /\ ToSet(detects'.asked) = ToSet(detects.asked)
    BY <1>1, TakenIs DEF DetectJob, DetectAfter, signalVars
  <2>5. CASE Evidence = {}
    BY <1>0, <2>1, <2>3, <2>4, <2>5, TimedQuiet DEF Opens
  <2>6. CASE Evidence # {}
    BY <1>0, <2>2, <2>3, <2>4, <2>6, TimedOpen
  <2> QED BY <2>5, <2>6
<1>2. CASE DetectCommit(w)
  <2>1. PICK t \in Task : /\ Become(w, t) /\ t.at = "asking"
                          /\ t.company = task[w].company /\ t.stamp = 0
    BY <1>0, <1>2, GoesOn DEF DetectCommit
  <2>2. CASE task[w].found = {}
    BY <1>0, <1>2, <2>1, <2>2, TimedQuiet DEF DetectCommit, Opens
  <2>3. CASE task[w].found # {}
    BY <1>0, <1>2, <2>1, <2>3, TimedClose DEF DetectCommit, Opens, Open, At
  <2> QED BY <2>2, <2>3
<1>3. CASE ScoreBegin(w)
  <2>1. PICK v \in scores.queued : \E t \in Task :
             /\ scores' = Take(scores, v)
             /\ Become(w, t) /\ t.at = "scoring" /\ t.company = companyAt /\ t.stamp = 0
    BY <1>0, <1>3, ScoreBeginIs
  <2>2. PICK t \in Task :
             /\ scores' = Take(scores, v)
             /\ Become(w, t) /\ t.at = "scoring" /\ t.company = companyAt /\ t.stamp = 0
    BY <2>1
  <2>3. ToSet(scores'.asked) \subseteq Used
    BY <1>0, <2>2, TakenIs
  <2> QED BY <1>0, <1>3, <2>2, <2>3, TimedQuiet DEF ScoreBegin, signalVars, Opens
<1>4. CASE ScoreCommit(w)
  BY <1>0, <1>4, StartedIs, TimedQuiet DEF ScoreCommit, signalVars, Opens
<1> QED BY <1>1, <1>2, <1>3, <1>4

(* So do requests, failures and staff. *)
LEMMA StaffTimed ==
    ASSUME Timed,
           \/ \E p \in Processes : EnqueueScore(p) \/ GiveUp(p)
           \/ \E s \in Staff : \/ ApproveBegin(s) \/ ApproveCommit(s) \/ EnqueueDetect(s) \/ Dismiss(s)
                              \/ CorrectBegin(s) \/ CorrectCommit(s)
           \/ PressScore \/ PressDetect
    PROVE  Stamps' /\ Order'
<1>0. /\ Typed /\ ToSet(scores.asked) \subseteq Used
      /\ \A p \in Processes : task[p].company \in Used /\ task[p].company <= recordAt
      /\ companyAt \in Used /\ companyAt <= recordAt
  BY Numbers DEF Timed, Order
<1>1. ASSUME NEW p \in Processes, EnqueueScore(p) \/ EnqueueDetect(p) \/ GiveUp(p)
      PROVE  Stamps' /\ Order'
  <2>1. UNCHANGED <<now, companyAt, recordAt, signalAt>> /\ Become(p, Idle)
    BY <1>1 DEF EnqueueScore, EnqueueDetect, GiveUp, signalVars
  <2>2. /\ ToSet(detects'.asked) \subseteq ToSet(detects.asked) \cup {recordAt}
        /\ ToSet(scores'.asked) \subseteq Used
    BY <1>0, <1>1, AskedTimed DEF EnqueueScore, EnqueueDetect, GiveUp
  <2> QED BY <1>0, <2>1, <2>2, StartedIs, TimedQuiet DEF Opens
<1>2. ASSUME NEW s \in Staff, ApproveBegin(s) \/ CorrectBegin(s)
      PROVE  Stamps' /\ Order'
  <2>1. PICK t \in Task : /\ Become(s, t) /\ t.at \in {"approving", "correcting"}
                          /\ t.company \in {0, companyAt} /\ t.stamp = now'
    BY <1>0, <1>2, StaffBeginIs
  <2>2. now' = now + 1 /\ UNCHANGED <<companyAt, recordAt, signalAt, detects, scores>>
    BY <1>0, <1>2, StaffBeginIs DEF ApproveBegin, CorrectBegin, signalVars
  <2>3. s \in Processes /\ t.company \in Used /\ t.company <= recordAt
    BY <1>0, <2>1, Numbers DEF Processes
  <2> QED BY <2>1, <2>2, <2>3, TimedOpen
<1>3. ASSUME NEW s \in Staff, ApproveCommit(s) PROVE Stamps' /\ Order'
  <2>1. PICK t \in Task : /\ Become(s, t) /\ t.at \in {"idle", "approved"}
                          /\ t.company \in {0, task[s].company} /\ t.stamp = 0
    <3>1. CASE Become(s, Idle)
      BY <1>0, <3>1, StartedIs
    <3>2. CASE GoOn(s, "approved")
      BY <1>0, <3>2, GoesOn DEF Processes
    <3> QED BY <1>3, <3>1, <3>2 DEF ApproveCommit
  <2>2. s \in Processes /\ Open(s)
    BY <1>3 DEF Processes, ApproveCommit, Open, At
  <2>3. recordAt' \in {recordAt, Newest(recordAt, task[s].stamp)}
    BY <1>3 DEF ApproveCommit
  <2> QED BY <1>3, <2>1, <2>2, <2>3, TimedClose DEF ApproveCommit, signalVars, Opens
<1>4. ASSUME NEW s \in Staff, CorrectCommit(s) PROVE Stamps' /\ Order'
  <2>1. PICK t \in Task : /\ Become(s, t) /\ t.at = "asking" /\ t.stamp = 0
                          /\ t.company = task[s].stamp
    BY <1>0, <1>4, CorrectCommitIs
  <2>2. s \in Processes /\ Open(s)
    BY <1>4 DEF Processes, CorrectCommit, Open, At
  <2> QED BY <1>4, <2>1, <2>2, TimedClose DEF CorrectCommit, signalVars, Opens
<1>5. ASSUME PressScore \/ PressDetect \/ \E s \in Staff : Dismiss(s)
      PROVE  Stamps' /\ Order'
  <2>1. UNCHANGED <<now, companyAt, recordAt, signalAt, task>>
    BY <1>5 DEF PressScore, PressDetect, Dismiss, signalVars
  <2>2. /\ ToSet(detects'.asked) \subseteq ToSet(detects.asked) \cup {recordAt}
        /\ ToSet(scores'.asked) \subseteq Used
    BY <1>0, <1>5, AskedTimed DEF PressScore, PressDetect, Dismiss
  <2>3. Used' \subseteq Used
    BY <2>1, <2>2, Numbers DEF Timed, Used
  <2>4. Stamps'
    BY <2>1, <2>3 DEF Timed, Stamps, Open
  <2>5. \A v \in ToSet(detects'.asked) : v <= recordAt'
    BY <2>1, <2>2, Numbers DEF Timed, Order
  <2> QED BY <2>1, <2>4, <2>5 DEF Timed, Order, At
<1> QED BY <1>1, <1>2, <1>3, <1>4, <1>5 DEF Processes

(* Requests stay distinct. *)
LEMMA DistinctsStep ==
    ASSUME Timed, Distincts, Next
    PROVE  Distincts'
<1>1. /\ detects \in Requests /\ scores \in Requests
      /\ \A p \in Processes : task[p].company \in Used /\ task[p].company <= recordAt
      /\ companyAt \in Used /\ companyAt <= recordAt
  BY Numbers DEF Timed, Order, Typed
<1>2. \A c \in Used : c <= recordAt => /\ Distinct(Ask(scores, ScoreVersion(c)))
                                      /\ Distinct(Ask(detects, DetectVersion(c)))
  BY <1>1, VersionsAre, AskedDistinct DEF Distincts
<1>3. ASSUME NEW w \in Workers, DetectJob(w) \/ ScoreBegin(w) PROVE Distincts'
  <2>1. \A v \in detects.queued : v \in Time
    BY <1>1 DEF Requests
  <2>2. \A v \in scores.queued : v \in Time
    BY <1>1 DEF Requests
  <2> QED BY <1>1, <1>3, <2>1, <2>2, AskedDistinct DEF DetectJob, ScoreBegin, Distincts
<1>4. ASSUME \/ \E p \in Processes : EnqueueScore(p)
             \/ \E s \in Staff : EnqueueDetect(s)
             \/ PressScore \/ PressDetect
      PROVE  Distincts'
  <2>1. ASSUME NEW p \in Processes, EnqueueScore(p) \/ EnqueueDetect(p) PROVE Distincts'
    BY <1>1, <1>2, <2>1 DEF EnqueueScore, EnqueueDetect, AskScore, AskDetect, Distincts
  <2>2. ASSUME PressScore \/ PressDetect PROVE Distincts'
    BY <1>1, <1>2, <2>2 DEF PressScore, PressDetect, AskScore, AskDetect, Distincts
  <2> QED BY <1>4, <2>1, <2>2 DEF Processes
<1>5. ASSUME UNCHANGED <<detects, scores>> PROVE Distincts'
  BY <1>5 DEF Distincts
<1>6. ASSUME NEW w \in Workers,
             \/ CollectBegin(w) \/ PersistItem(w) \/ ReviewCandidate(w) \/ ReviewSave(w) \/ Sweep(w)
             \/ CrawlPage(w) \/ PagePostings(w)
             \/ DetectAfter(w) \/ DetectCommit(w) \/ ScoreCommit(w)
      PROVE  UNCHANGED <<detects, scores>>
  BY <1>6 DEF CollectBegin, PersistItem, ReviewCandidate, ReviewSave, Sweep, CrawlPage,
              PagePostings, DetectAfter, DetectCommit, ScoreCommit
<1>7. ASSUME NEW s \in Staff,
             ApproveBegin(s) \/ ApproveCommit(s) \/ Dismiss(s) \/ CorrectBegin(s) \/ CorrectCommit(s)
      PROVE  UNCHANGED <<detects, scores>>
  BY <1>7 DEF ApproveBegin, ApproveCommit, Dismiss, CorrectBegin, CorrectCommit
<1>8. ASSUME NEW p \in Processes, GiveUp(p) PROVE UNCHANGED <<detects, scores>>
  BY <1>8 DEF GiveUp
<1> QED BY <1>3, <1>4, <1>5, <1>6, <1>7, <1>8 DEF Next

-----------------------------------------------------------------------------
(* Pending detections. *)

(* They stay, unless their process does something else. *)
LEMMA PendingStays ==
    ASSUME Timed, NEW p \in Processes, NEW t \in Task, Become(p, t),
           detects.queued \subseteq detects'.queued, detects'.asked = detects.asked,
           recordAt' \in Nat, recordAt <= recordAt',
           p \in Workers /\ Gathering(task[p]) => Gathering(t),
           p \in Staff => task[p].at # "approved"
    PROVE  Pending => Pending'
<1>1. \A q \in Processes : task'[q] = IF q = p THEN t ELSE task[q]
  BY Moved DEF Timed
<1>2. CASE \E w \in Workers : Gathering(task[w])
  BY <1>1, <1>2 DEF Pending, Gathering, Processes
<1>3. CASE detects.queued # {}
  BY <1>3 DEF Pending
<1>4. ASSUME NEW s \in Staff, At(s, "approved"), \A v \in ToSet(detects.asked) : v < recordAt
      PROVE  Pending'
  <2>1. task'[s] = task[s]
    BY <1>1, <1>4 DEF At, Processes
  <2>2. \A v \in ToSet(detects'.asked) : v < recordAt'
    BY <1>4, Numbers DEF Timed
  <2> QED BY <1>4, <2>1, <2>2 DEF Pending, At
<1> QED BY <1>2, <1>3, <1>4 DEF Pending

(* Evidence that is added is pending. *)
Keeps == \/ missed'
         \/ /\ ~ missed
            /\ Pending => Pending'
            /\ (Evidence' \subseteq Evidence) \/ Pending'

(* The steps of collections and crawls. *)
LEMMA CollectKeeps ==
    ASSUME Timed, Timed', NEW w \in Workers,
           \/ CollectBegin(w) \/ PersistItem(w) \/ ReviewCandidate(w) \/ ReviewSave(w) \/ Sweep(w)
           \/ CrawlPage(w) \/ PagePostings(w)
    PROVE  Keeps
<1>0. /\ w \in Processes /\ w \notin Staff /\ Typed /\ recordAt' \in Nat
      /\ \A t \in Task : Become(w, t) => task'[w] = t
  <2>1. w \in Processes /\ w \notin Staff
    BY EvidenceAssumption DEF Processes
  <2>2. recordAt' \in Nat
    BY Basics DEF Timed, Typed
  <2> QED BY <2>1, <2>2, Moved DEF Timed
<1>1. recordAt <= recordAt'
  <2>1. recordAt' = recordAt \/ (now' = now + 1 /\ recordAt' = now')
    BY DEF CollectBegin, PersistItem, ReviewCandidate, ReviewSave, Sweep, CrawlPage,
           PagePostings, Tick
  <2> QED BY <2>1, Numbers DEF Timed, Stamps
<1>2. UNCHANGED <<detects, missed>>
  BY DEF CollectBegin, PersistItem, ReviewCandidate, ReviewSave, Sweep, CrawlPage, PagePostings
<1>3. \A t \in Task : Become(w, t) /\ (Gathering(task[w]) => Gathering(t)) => (Pending => Pending')
  BY <1>0, <1>1, <1>2, PendingStays
<1>4. \A t \in Task : Become(w, t) /\ Gathering(t) => Pending'
  BY <1>0 DEF Pending
<1>5. CASE CollectBegin(w)
  <2>1. PICK t \in Task : Become(w, t) /\ t.at = "collecting"
    BY <1>0, <1>5, CollectBeginIs
  <2>2. ~ Gathering(task[w]) /\ Evidence' = Evidence
    BY <1>5 DEF CollectBegin, Gathering, At, Evidence, postingVars
  <2> QED BY <1>2, <1>3, <2>1, <2>2 DEF Keeps
<1>6. CASE PersistItem(w)
  <2>1. PICK t \in Task : Become(w, t) /\ t.at = "collecting" /\ t.matched # {}
    BY <1>0, <1>6, PersistItemIs
  <2> QED BY <1>2, <1>4, <2>1 DEF Keeps, Gathering
<1>7. CASE ReviewCandidate(w) \/ ReviewSave(w)
  <2>1. PICK t \in Task : /\ Become(w, t) /\ t.at \in {"collecting", "reviewing"}
                          /\ t.matched = task[w].matched
    BY <1>0, <1>7, ReviewIs
  <2>2. Gathering(task[w]) => Gathering(t)
    BY <1>0, <1>7, <2>1, ReviewIs DEF Gathering
  <2>3. Evidence' = Evidence
    BY <1>7 DEF ReviewCandidate, ReviewSave, Evidence, postingVars
  <2> QED BY <1>2, <1>3, <2>1, <2>2, <2>3 DEF Keeps
<1>8. CASE Sweep(w)
  <2>1. Evidence' \subseteq Evidence /\ At(w, "collecting")
    BY <1>8 DEF Sweep, Evidence
  <2>2. CASE task[w].matched = {}
    <3>1. ~ Gathering(task[w]) /\ Become(w, Idle) /\ Idle \in Task
      BY <1>8, <2>1, <2>2, IdleTyped DEF Sweep, Gathering, At
    <3> QED BY <1>2, <1>3, <2>1, <3>1 DEF Keeps
  <2>3. CASE task[w].matched # {}
    <3>1. PICK t \in Task : Become(w, t) /\ t.at = "detecting"
      BY <1>0, <1>8, <2>3, GoesOn DEF Sweep
    <3> QED BY <1>2, <1>4, <2>1, <3>1 DEF Keeps, Gathering
  <2> QED BY <2>2, <2>3
<1>9. CASE CrawlPage(w)
  <2>1. PICK t \in Task : Become(w, t) /\ t.at = "stored"
    BY <1>0, <1>9, CrawlPageIs
  <2> QED BY <1>2, <1>4, <2>1 DEF Keeps, Gathering
<1>10. CASE PagePostings(w)
  <2>1. PICK t \in Task : Become(w, t) /\ t.at = "detecting"
    BY <1>0, <1>10, GoesOn DEF PagePostings
  <2> QED BY <1>2, <1>4, <2>1 DEF Keeps, Gathering
<1> QED BY <1>5, <1>6, <1>7, <1>8, <1>9, <1>10

(* The steps of staff. *)
LEMMA StaffKeeps ==
    ASSUME Timed, Timed', NEW s \in Staff,
           \/ ApproveBegin(s) \/ ApproveCommit(s) \/ EnqueueDetect(s) \/ Dismiss(s)
           \/ CorrectBegin(s) \/ CorrectCommit(s)
    PROVE  Keeps
<1>0. /\ s \in Processes /\ s \notin Workers /\ Typed /\ recordAt' \in Nat /\ recordAt \in Nat
      /\ \A t \in Task : Become(s, t) => task'[s] = t
      /\ \A n \in Nat : recordAt <= Newest(recordAt, n) /\ n <= Newest(recordAt, n)
      /\ task[s].stamp \in Nat
  <2>1. s \in Processes /\ s \notin Workers
    BY EvidenceAssumption DEF Processes
  <2>2. recordAt' \in Nat
    BY Basics DEF Timed, Typed
  <2>3. recordAt \in Nat /\ task[s].stamp \in Nat
    BY <2>1, Numbers DEF Timed
  <2>4. \A n \in Nat : recordAt <= Newest(recordAt, n) /\ n <= Newest(recordAt, n)
    BY <2>3 DEF Newest
  <2> QED BY <2>1, <2>2, <2>3, <2>4, Moved DEF Timed
<1>1. CASE ApproveBegin(s) \/ CorrectBegin(s)
  <2>1. PICK t \in Task : Become(s, t)
    BY <1>0, <1>1, StaffBeginIs
  <2>2. UNCHANGED <<detects, missed, recordAt>> /\ Evidence' = Evidence /\ task[s].at # "approved"
    BY <1>1 DEF ApproveBegin, CorrectBegin, Evidence, postingVars, At
  <2> QED BY <1>0, <2>1, <2>2, PendingStays DEF Keeps
<1>2. CASE ApproveCommit(s)
  <2>1. UNCHANGED detects /\ recordAt <= recordAt' /\ (missed => missed') /\ At(s, "approving")
    <3>1. recordAt' \in {recordAt, Newest(recordAt, task[s].stamp)}
      BY <1>2 DEF ApproveCommit
    <3>2. missed => missed'
      BY <1>2 DEF ApproveCommit
    <3>3. UNCHANGED detects /\ At(s, "approving")
      BY <1>2 DEF ApproveCommit
    <3> QED BY <1>0, <3>1, <3>2, <3>3
  <2>2. PICK t \in Task : Become(s, t)
    <3>1. CASE Become(s, Idle)
      BY <3>1, IdleTyped
    <3>2. CASE GoOn(s, "approved")
      BY <1>0, <3>2, GoesOn
    <3> QED BY <1>2, <3>1, <3>2 DEF ApproveCommit
  <2>3. Pending => Pending'
    BY <1>0, <2>1, <2>2, PendingStays DEF At
  <2>4. CASE active' = active
    BY <1>2, <2>1, <2>3, <2>4 DEF Keeps, Evidence, ApproveCommit
  <2>5. CASE GoOn(s, "approved") /\ recordAt' = Newest(recordAt, task[s].stamp)
             /\ ~ Overtaken(detects, task[s].stamp)
    <3>1. PICK u \in Task : Become(s, u) /\ u.at = "approved"
      BY <1>0, <2>5, GoesOn
    <3>2. task[s].stamp \notin ToSet(detects.asked)
      BY <1>0, <2>1, Numbers DEF Timed, Stamps, Open, At
    <3>3. \A v \in ToSet(detects.asked) : v < recordAt'
      BY <1>0, <2>5, <3>2, Numbers DEF Overtaken, Timed
    <3>4. Pending'
      BY <1>0, <2>1, <3>1, <3>3 DEF Pending, At
    <3> QED BY <2>1, <2>3, <3>4 DEF Keeps
  <2>6. missed' \/ ~ Overtaken(detects, task[s].stamp) \/ active' = active
    BY <1>2 DEF ApproveCommit
  <2> QED BY <1>2, <2>1, <2>4, <2>5, <2>6 DEF ApproveCommit, Keeps
<1>3. CASE EnqueueDetect(s)
  <2>1. detects' = Ask(detects, recordAt) /\ UNCHANGED <<missed, recordAt>> /\ Evidence' = Evidence
    <3>1. DetectVersion(task[s].company) = recordAt
      BY <1>0, VersionsAre, Numbers DEF Timed, Order
    <3> QED BY <1>3, <3>1 DEF EnqueueDetect, AskDetect, Evidence, postingVars
  <2>2. detects \in Requests /\ recordAt \in Time
    BY DEF Timed, Typed
  <2>3. CASE recordAt \notin ToSet(detects.asked)
    BY <2>1, <2>2, <2>3, AskedIs DEF Keeps, Pending
  <2>4. CASE recordAt \in ToSet(detects.asked)
    <3>1. detects' = detects
      BY <2>1, <2>2, <2>4, AskedIs
    <3>2. \A w \in Workers : task'[w] = task[w]
      BY <1>0, <1>3, IdleTyped, Moved DEF EnqueueDetect, Processes
    <3>3. Pending => Pending'
      BY <1>0, <2>4, <3>1, <3>2 DEF Pending
    <3> QED BY <2>1, <3>3 DEF Keeps
  <2> QED BY <2>3, <2>4
<1>4. CASE Dismiss(s)
  BY <1>4 DEF Dismiss, Keeps, Pending, Evidence, At, postingVars
<1>5. CASE CorrectCommit(s)
  <2>1. PICK t \in Task : Become(s, t)
    BY <1>0, <1>5, CorrectCommitIs
  <2>2. /\ UNCHANGED detects /\ recordAt <= recordAt' /\ (missed => missed')
        /\ Evidence' = Evidence /\ task[s].at # "approved"
    BY <1>0, <1>5 DEF CorrectCommit, Evidence, postingVars, At
  <2> QED BY <1>0, <2>1, <2>2, PendingStays DEF Keeps
<1> QED BY <1>1, <1>2, <1>3, <1>4, <1>5

-----------------------------------------------------------------------------
(* Detection and scores catch up. *)

CInv == Timed /\ Distincts /\ Detection /\ Once /\ Scores
Catches == Detection' /\ Once' /\ Scores'

Busy == {"detected", "asking", "scoring"}

(* A step that leaves detections and scores alone, and keeps what is pending. *)
LEMMA PlainCatches ==
    ASSUME CInv, Keeps, UNCHANGED <<signals, signalAt, scores, shown, companyAt>>,
           \A q \in Processes : \/ task'[q] = task[q]
                                \/ task[q].at \notin Busy /\ task'[q].at \notin Busy
    PROVE  Catches
<1>1. \A q \in Processes : \A at \in Busy : task[q].at = at \/ task'[q].at = at =>
         task'[q] = task[q]
  OBVIOUS
<1>2. \A w \in Workers : \A e : Finds(w, e)' <=> Finds(w, e)
  BY <1>1 DEF Finds, At, Busy, Processes
<1>3. \A w \in Workers : At(w, "detected") /\ IsNewest(w) => IsNewest(w)'
  BY <1>1 DEF IsNewest, At, Busy, Processes
<1>4. \A w \in Workers : \A e : Finds(w, e) => At(w, "detected")
  BY DEF Finds
<1>5. Detection'
  <2> SUFFICES ASSUME ~ missed', ~ Pending'
               PROVE  /\ \A e \in Evidence' \ signals' : \E w \in Workers : Finds(w, e)'
                      /\ \A w \in Workers, e \in Evidence' : Finds(w, e)' => IsNewest(w)'
    BY DEF Detection
  <2>1. ~ missed /\ ~ Pending /\ Evidence' \subseteq Evidence
    BY DEF Keeps
  <2> QED BY <1>2, <1>3, <1>4, <2>1 DEF CInv, Detection
<1>6. Once'
  BY <1>1 DEF CInv, Once, Scoring, At, Busy
<1>7. ScorePending => ScorePending'
  BY <1>1 DEF ScorePending, LastAsked, ScoreVersion, At, Busy
<1>8. CompanyScored => CompanyScored'
  BY <1>1, <1>7 DEF CompanyScored, LastAsked, Scoring, At, Busy
<1>9. ASSUME NEW e, SignalScored(e), Pending => Pending' PROVE SignalScored(e)'
  BY <1>1, <1>2, <1>7, <1>9 DEF SignalScored, LastAsked, Scoring, At, Busy
<1>10. Scores'
  <2> SUFFICES ASSUME ~ missed', scores'.asked # <<>>
               PROVE  CompanyScored' /\ \A e \in signals' \cap Evidence' : SignalScored(e)'
    BY DEF Scores
  <2>1. ~ missed /\ (Pending => Pending') /\ (Evidence' \subseteq Evidence \/ Pending')
    BY DEF Keeps
  <2>2. CompanyScored /\ \A e \in signals \cap Evidence : SignalScored(e)
    BY <2>1 DEF CInv, Scores
  <2>3. Pending' => \A e : SignalScored(e)'
    BY DEF SignalScored
  <2> QED BY <1>8, <1>9, <2>1, <2>2, <2>3
<1> QED BY <1>5, <1>6, <1>10 DEF Catches

(* A detection reads: whatever there is now, and nobody has newer signals. *)
LEMMA DetectCatches ==
    ASSUME CInv, NEW w \in Workers, DetectJob(w) \/ DetectAfter(w)
    PROVE  Catches
<1>0. w \in Processes /\ Typed /\ Stamps
  BY DEF CInv, Timed, Processes
<1>1. PICK c \in Time : Detect(w, c)
  BY <1>0, Numbers DEF DetectJob, DetectAfter, Typed
<1>2. PICK t \in Task : /\ Become(w, t) /\ t.at = "detected" /\ t.found = Evidence
                        /\ Evidence # {} => t.stamp = now + 1
  BY <1>0, <1>1, DetectIs
<1>3. \A q \in Processes : task'[q] = IF q = w THEN t ELSE task[q]
  BY <1>0, <1>2, Moved
<1>4. /\ UNCHANGED <<signals, signalAt, shown, companyAt, missed, scores>>
      /\ Evidence' = Evidence /\ task[w].at \notin Busy
  BY DEF DetectJob, DetectAfter, signalVars, Evidence, postingVars, At, Busy
<1>5. \A e \in Evidence : Finds(w, e)'
  BY <1>0, <1>2, <1>3 DEF Finds, At
<1>6. \A v \in Workers \ {w} : \A e \in Evidence : ~ Finds(v, e)'
  <2>1. Evidence \cap Held(w) = {}
    BY <1>0, <1>1, DetectIs
  <2>2. \A v \in Workers \ {w} : \A e \in Evidence : ~ Finds(v, e)
    BY <2>1 DEF Held, Finds
  <2> QED BY <1>3, <2>2 DEF Finds, At, Processes
<1>7. Evidence # {} => IsNewest(w)'
  <2> SUFFICES ASSUME Evidence # {} PROVE IsNewest(w)'
    OBVIOUS
  <2>1. task'[w].stamp = now + 1
    BY <1>0, <1>2, <1>3
  <2>2. signalAt' < task'[w].stamp
    BY <1>0, <1>4, <2>1, Numbers DEF Stamps
  <2>3. \A v \in Workers \ {w} : task'[v].stamp < task'[w].stamp
    BY <1>0, <1>3, <2>1, Numbers DEF Stamps, Processes
  <2> QED BY <2>2, <2>3 DEF IsNewest
<1>8. Detection'
  <2>1. \A e \in Evidence' \ signals' : \E v \in Workers : Finds(v, e)'
    BY <1>4, <1>5
  <2>2. \A v \in Workers, e \in Evidence' : Finds(v, e)' => IsNewest(v)'
    BY <1>4, <1>6, <1>7
  <2> QED BY <2>1, <2>2 DEF Detection
<1>9. Once'
  BY <1>3, <1>4 , <1>2 DEF CInv, Once, Scoring, At, Busy
<1>10. ScorePending => ScorePending'
  BY <1>3, <1>4 DEF ScorePending, LastAsked, ScoreVersion, At, Busy
<1>11. CompanyScored => CompanyScored'
  BY <1>3, <1>4, <1>10 DEF CompanyScored, LastAsked, Scoring, At, Busy
<1>12. \A e \in Evidence : SignalScored(e)'
  BY <1>5 DEF SignalScored
<1>13. Scores'
  BY <1>4, <1>11, <1>12 DEF CInv, Scores
<1> QED BY <1>8, <1>9, <1>13 DEF Catches

(* It commits: what it drops is missed, and what it shows will be scored. *)
LEMMA DetectCommitCatches ==
    ASSUME CInv, NEW w \in Workers, DetectCommit(w)
    PROVE  Catches
<1> DEFINE found == task[w].found
           at == task[w].stamp
<1>0. w \in Processes /\ Timed /\ Typed /\ Stamps /\ Order /\ At(w, "detected")
  BY DEF CInv, Timed, Processes, DetectCommit
<1>1. PICK t \in Task : /\ Become(w, t) /\ t.at = "asking" /\ t.company = task[w].company
  BY <1>0, GoesOn DEF DetectCommit
<1>2. \A q \in Processes : task'[q] = IF q = w THEN t ELSE task[q]
  BY <1>0, <1>1, Moved
<1>3. /\ UNCHANGED <<recordAt, detects, scores, shown, companyAt>> /\ Evidence' = Evidence
      /\ signals' = found /\ signalAt' = IF found = {} THEN signalAt ELSE Newest(signalAt, at)
  BY DEF DetectCommit, Evidence, postingVars
<1>4. ~ missed' => ~ missed /\ signals \cap (Evidence \ found) = {}
  BY DEF DetectCommit
<1>5. Pending => Pending'
  <2>1. ~ Gathering(task[w]) /\ w \notin Staff
    BY <1>0, EvidenceAssumption DEF Gathering, At
  <2>2. recordAt' \in Nat /\ recordAt <= recordAt'
    BY <1>0, <1>3, Numbers
  <2> QED BY <1>0, <1>1, <1>3, <2>1, <2>2, PendingStays
<1>6. \A v \in Workers \ {w} : \A e : Finds(v, e)' <=> Finds(v, e)
  BY <1>2 DEF Finds, At, Processes
<1>7. \A e : ~ Finds(w, e)'
  BY <1>0, <1>1, <1>2 DEF Finds, At
<1>8. /\ at \in Nat /\ signalAt \in Nat /\ task[w].company \in Nat
      /\ \A q \in Processes : task[q].stamp \in Nat /\ task[q].company \in Nat
  BY <1>0, Numbers
<1>9. ASSUME NEW v \in Workers \ {w}, At(v, "detected"), IsNewest(v)
      PROVE  IsNewest(v)'
  <2>1. task'[v] = task[v]
    BY <1>2 DEF Processes
  <2>2. signalAt < task[v].stamp /\ (found # {} => at < task[v].stamp)
    BY <1>0, <1>9 DEF IsNewest
  <2>3. signalAt' < task'[v].stamp
    BY <1>3, <2>1, <2>2 DEF Newest
  <2>4. \A u \in Workers \ {v} : At(u, "detected")' /\ task'[u].found # {} =>
           task'[u].stamp < task'[v].stamp
    BY <1>1, <1>2, <1>9, <2>1 DEF IsNewest, At, Processes
  <2> QED BY <2>3, <2>4 DEF IsNewest
<1>10. Detection'
  <2> SUFFICES ASSUME ~ missed', ~ Pending'
               PROVE  /\ \A e \in Evidence \ found : \E v \in Workers : Finds(v, e)'
                      /\ \A v \in Workers, e \in Evidence : Finds(v, e)' => IsNewest(v)'
    BY <1>3 DEF Detection
  <2>1. ~ missed /\ ~ Pending
    BY <1>4, <1>5
  <2>2. ASSUME NEW e \in Evidence \ found PROVE \E v \in Workers : Finds(v, e)'
    <3>1. e \in Evidence \ signals
      BY <1>4, <2>2
    <3>2. PICK v \in Workers : Finds(v, e)
      BY <2>1, <3>1 DEF CInv, Detection
    <3>3. v # w
      BY <2>2, <3>2 DEF Finds
    <3> QED BY <1>6, <3>2, <3>3
  <2>3. ASSUME NEW v \in Workers, NEW e \in Evidence, Finds(v, e)' PROVE IsNewest(v)'
    <3>1. v # w /\ Finds(v, e)
      BY <1>6, <1>7, <2>3
    <3>2. At(v, "detected") /\ IsNewest(v)
      BY <2>1, <3>1 DEF CInv, Detection, Finds
    <3> QED BY <1>9, <3>1, <3>2
  <2> QED BY <2>2, <2>3
<1>11. \A q \in Processes : q # w \/ task[q].at \notin {"asking", "scoring"}
  BY <1>0 DEF At
<1>12. Once'
  BY <1>1, <1>2, <1>3, <1>11 DEF CInv, Once, Scoring, At
<1>13. found # {} => at \notin ToSet(scores.asked)
  BY <1>0, Numbers DEF Stamps, Open, At
<1>14. ScorePending => ScorePending'
  <2>1. CASE LastAsked \in scores.queued
    BY <1>3, <2>1 DEF ScorePending, LastAsked
  <2>2. ASSUME NEW p \in Processes, At(p, "asking"),
               ScoreVersion(task[p].company) \notin ToSet(scores.asked)
        PROVE  ScorePending'
    <3>1. task'[p] = task[p] /\ At(p, "asking")'
      BY <1>2, <1>11, <2>2 DEF At
    <3>2. \/ ScoreVersion(task[p].company)' = ScoreVersion(task[p].company)
          \/ found # {} /\ ScoreVersion(task[p].company)' = at
      BY <1>3, <1>8, <3>1 DEF ScoreVersion, Newest
    <3> QED BY <1>3, <1>13, <2>2, <3>1, <3>2 DEF ScorePending
  <2> QED BY <2>1, <2>2 DEF ScorePending
<1>15. CompanyScored => CompanyScored'
  BY <1>2, <1>3, <1>11, <1>14 DEF CompanyScored, LastAsked, Scoring, At
<1>16. ASSUME ~ missed', NEW e \in found \cap Evidence PROVE SignalScored(e)'
  <2>1. Finds(w, e)
    BY <1>0, <1>16 DEF Finds
  <2>2. CASE Pending
    BY <1>5, <2>2 DEF SignalScored
  <2>3. CASE IsNewest(w)
    <3>1. found # {} /\ signalAt' = at
      BY <1>3, <1>8, <1>16, <2>3 DEF IsNewest, Newest
    <3>2. task'[w].company < at /\ task'[w].company = task[w].company
      BY <1>0, <1>1, <1>2, <3>1 DEF Order
    <3>3. ScoreVersion(task[w].company)' = at
      BY <1>8, <3>1, <3>2 DEF ScoreVersion, Newest
    <3>4. At(w, "asking")'
      BY <1>0, <1>1, <1>2 DEF At
    <3> QED BY <1>0, <1>3, <1>13, <3>1, <3>3, <3>4 DEF ScorePending, SignalScored
  <2>4. Pending \/ IsNewest(w)
    BY <1>4, <1>16, <2>1 DEF CInv, Detection
  <2> QED BY <2>2, <2>3, <2>4
<1>17. Scores'
  BY <1>3, <1>4, <1>15, <1>16 DEF CInv, Scores
<1> QED BY <1>10, <1>12, <1>17 DEF Catches

(* A request for a score: under a new version it is pending, and under an old one it
   was not what anybody waited for. *)
LEMMA AskCatches ==
    ASSUME CInv, NEW v \in Time, scores' = Ask(scores, v),
           UNCHANGED <<signals, signalAt, companyAt, recordAt, recorded, active, detects,
                       shown, missed>>,
           \A q \in Processes :
             \/ task'[q] = task[q]
             \/ /\ At(q, "asking") /\ ScoreVersion(task[q].company) = v
                /\ task'[q].at = "idle"
    PROVE  Catches
<1>0. /\ scores \in Requests /\ scores.asked \in Seq(Time)
      /\ \A q \in Processes : \A at \in {"detected", "scoring", "approved"} :
           task[q].at = at \/ task'[q].at = at => task'[q] = task[q]
  <2>1. scores \in Requests
    BY DEF CInv, Timed, Typed
  <2>2. scores.asked \in Seq(Time)
    BY <2>1 DEF Requests
  <2> QED BY <2>1, <2>2 DEF At
<1>1. Evidence' = Evidence
  BY DEF Evidence
<1>2. Pending => Pending'
  <2>1. \A w \in Workers : Gathering(task[w]) => task'[w] = task[w]
    BY DEF Gathering, At, Processes
  <2> QED BY <1>0, <2>1 DEF Pending, At, Processes
<1>3. \A w \in Workers : \A e : Finds(w, e)' <=> Finds(w, e)
  BY <1>0 DEF Finds, At, Processes
<1>4. \A w \in Workers : At(w, "detected") /\ IsNewest(w) => IsNewest(w)'
  BY <1>0 DEF IsNewest, At, Processes
<1>5. Detection'
  BY <1>1, <1>2, <1>3, <1>4 DEF CInv, Detection, Finds
<1>6. CASE v \in ToSet(scores.asked)
  <2>1. scores' = scores
    BY <1>0, <1>6, AskedIs
  <2>2. Once'
    BY <1>0, <2>1 DEF CInv, Once, Scoring, At
  <2>3. ScorePending => ScorePending'
    <3>1. \A q \in Processes : At(q, "asking") /\ ScoreVersion(task[q].company) \notin ToSet(scores.asked)
             => task'[q] = task[q]
      BY <1>6
    <3> QED BY <2>1, <3>1 DEF ScorePending, LastAsked, ScoreVersion, At
  <2>4. CompanyScored => CompanyScored'
    BY <1>0, <2>1, <2>3 DEF CompanyScored, LastAsked, Scoring, At
  <2>5. \A e : SignalScored(e) => SignalScored(e)'
    BY <1>0, <1>2, <1>3, <2>1, <2>3 DEF SignalScored, LastAsked, Scoring, At
  <2>6. Scores'
    BY <1>1, <2>1, <2>4, <2>5 DEF CInv, Scores
  <2> QED BY <1>5, <2>2, <2>6 DEF Catches
<1>7. CASE v \notin ToSet(scores.asked)
  <2> DEFINE a == scores.asked
             b == scores'.asked
  <2>1. /\ b = Append(a, v) /\ scores'.queued = scores.queued \cup {v}
        /\ v \in scores'.queued /\ ToSet(b) = ToSet(a) \cup {v}
    BY <1>0, <1>7, AskedIs
  <2>2. /\ Len(a) \in Nat /\ Len(b) = Len(a) + 1 /\ b[Len(b)] = v
        /\ \A i \in 1..Len(a) : b[i] = a[i] /\ a[i] \in ToSet(a)
    BY <1>0, <2>1 DEF ToSet
  <2>3. ScorePending'
    BY <2>1, <2>2 DEF ScorePending, LastAsked
  <2>4. Scores'
    BY <2>3 DEF Scores, CompanyScored, SignalScored
  <2>5. Once'
    <3>1. /\ \A p \in Processes : Scoring(p)' => Scoring(p) /\ task'[p] = task[p]
          /\ \A p \in Processes : Scoring(p) => task[p].version \in ToSet(a) \ scores.queued
      BY <1>0 DEF CInv, Once, Scoring, At
    <3>2. \A p \in Processes : Scoring(p)' => task'[p].version \in ToSet(b) \ scores'.queued
      BY <1>7, <2>1, <3>1
    <3>3. shown'.request \in 0..Len(b)
      BY <2>2 DEF CInv, Once
    <3>4. ASSUME shown.request # 0
          PROVE  /\ b[shown.request] = a[shown.request]
                 /\ a[shown.request] \notin scores'.queued
      <4>1. shown.request \in 1..Len(a)
        BY <2>2, <3>4 DEF CInv, Once
      <4>2. a[shown.request] \notin scores.queued
        BY <3>4 DEF CInv, Once
      <4> QED BY <1>7, <2>1, <2>2, <4>1, <4>2
    <3>5. /\ \A p, q \in Processes : Scoring(p) /\ Scoring(q) /\ task[p].version = task[q].version
               => p = q
          /\ shown.request # 0 =>
               \A p \in Processes : Scoring(p) => task[p].version # a[shown.request]
      BY DEF CInv, Once
    <3> QED BY <3>1, <3>2, <3>3, <3>4, <3>5 DEF Once
  <2> QED BY <1>5, <2>4, <2>5 DEF Catches
<1> QED BY <1>6, <1>7

(* A score is begun: it reads whatever there is now. *)
LEMMA ScoreBeginCatches ==
    ASSUME CInv, NEW w \in Workers, ScoreBegin(w)
    PROVE  Catches
<1>0. w \in Processes /\ Timed /\ Typed /\ At(w, "idle")
  BY DEF CInv, Timed, Processes, ScoreBegin
<1>1. PICK v \in scores.queued : \E t \in Task :
             /\ scores' = Take(scores, v)
             /\ Become(w, t) /\ t.at = "scoring" /\ t.company = companyAt /\ t.stamp = 0
             /\ t.found = signals /\ t.version = v
  BY <1>0, ScoreBeginIs
<1>2. PICK t \in Task : /\ scores' = Take(scores, v)
                        /\ Become(w, t) /\ t.at = "scoring" /\ t.company = companyAt
                        /\ t.found = signals /\ t.version = v
  BY <1>1
<1>3. \A q \in Processes : task'[q] = IF q = w THEN t ELSE task[q]
  BY <1>0, <1>2, Moved
<1>4. /\ scores'.asked = scores.asked /\ scores'.queued = scores.queued \ {v}
      /\ v \in ToSet(scores.asked)
  BY <1>2 DEF Take, CInv, Distincts, Distinct, Timed, Typed, Requests
<1>5. /\ UNCHANGED <<signals, signalAt, companyAt, recordAt, detects, shown, missed>>
      /\ Evidence' = Evidence
  BY DEF ScoreBegin, signalVars, Evidence, postingVars
<1>6. Pending => Pending'
  <2>1. ~ Gathering(task[w]) /\ w \notin Staff /\ recordAt \in Nat
    BY <1>0, EvidenceAssumption, Numbers DEF Gathering, At
  <2> QED BY <1>0, <1>2, <1>5, <2>1, PendingStays
<1>7. \A u \in Workers : \A e : Finds(u, e)' <=> Finds(u, e)
  BY <1>0, <1>2, <1>3 DEF Finds, At, Processes
<1>8. \A u \in Workers : At(u, "detected") /\ IsNewest(u) => IsNewest(u)'
  BY <1>0, <1>2, <1>3, <1>5 DEF IsNewest, At, Processes
<1>9. Detection'
  BY <1>5, <1>6, <1>7, <1>8 DEF CInv, Detection, Finds
<1>10. Once'
  <2>1. Once /\ \A p \in Processes : Scoring(p) => task[p].version # v
    BY <1>2 DEF CInv, Once
  <2>2. \A p \in Processes : Scoring(p)' => p = w \/ (Scoring(p) /\ task'[p] = task[p])
    BY <1>3 DEF Scoring, At
  <2>3. task'[w].version = v
    BY <1>0, <1>2, <1>3
  <2> QED BY <1>4, <1>5, <2>1, <2>2, <2>3 DEF Once
<1>11. LastAsked' = LastAsked
  BY <1>4 DEF LastAsked
<1>12. CASE v = LastAsked
  <2>1. Scoring(w)' /\ task'[w].version = LastAsked' /\ task'[w].company = companyAt'
        /\ task'[w].found = signals'
    BY <1>0, <1>2, <1>3, <1>5, <1>11, <1>12 DEF Scoring, At
  <2>2. Scores'
    BY <1>0, <2>1 DEF Scores, CompanyScored, SignalScored
  <2> QED BY <1>9, <1>10, <2>2 DEF Catches
<1>13. CASE v # LastAsked
  <2>1. ScorePending => ScorePending'
    BY <1>0, <1>3, <1>4, <1>5, <1>11, <1>13 DEF ScorePending, ScoreVersion, At
  <2>2. CompanyScored => CompanyScored'
    BY <1>0, <1>3, <1>4, <1>5, <1>11, <2>1 DEF CompanyScored, Scoring, At
  <2>3. \A e : SignalScored(e) => SignalScored(e)'
    BY <1>0, <1>3, <1>4, <1>5, <1>6, <1>7, <1>11, <2>1 DEF SignalScored, Scoring, At
  <2>4. Scores'
    BY <1>4, <1>5, <2>2, <2>3 DEF CInv, Scores
  <2> QED BY <1>9, <1>10, <2>4 DEF Catches
<1> QED BY <1>12, <1>13

(* A request is found by its version. *)
LEMMA RequestIs ==
    ASSUME CInv, NEW w \in Workers, Scoring(w)
    PROVE  LET n == Snapshot(task[w]).request IN
             n \in 1..Len(scores.asked) /\ scores.asked[n] = task[w].version
<1> DEFINE a == scores.asked
           I == {i \in 1..Len(a) : a[i] = task[w].version}
<1>1. a \in Seq(Time) /\ Len(a) \in Nat /\ DOMAIN a = 1..Len(a)
  BY DEF CInv, Timed, Typed, Requests
<1>2. task[w].version \in ToSet(a)
  BY DEF CInv, Once, Processes
<1>3. PICK n \in 1..Len(a) : a[n] = task[w].version
  BY <1>1, <1>2 DEF ToSet
<1>4. \A i, j \in 1..Len(a) : a[i] = a[j] => i = j
  BY <1>1 DEF CInv, Distincts, Distinct
<1>5. I = {n}
  BY <1>3, <1>4
<1>6. Snapshot(task[w]).request = IF I # {} THEN Min(I) ELSE 0
  BY DEF Snapshot, SelectInSeq
<1>7. Min({n}) = n
  BY <1>3 DEF Min
<1> HIDE DEF a, I
<1>8. Snapshot(task[w]).request = n
  BY <1>5, <1>6, <1>7
<1> QED BY <1>3, <1>8 DEF a

(* A score commits: the one of the newest request is shown, and stays. *)
LEMMA ScoreCommitCatches ==
    ASSUME CInv, NEW w \in Workers, ScoreCommit(w)
    PROVE  Catches
<1> DEFINE s == Snapshot(task[w])
           n == s.request
           a == scores.asked
<1>0. w \in Processes /\ Timed /\ Typed /\ Scoring(w) /\ Once
  BY DEF CInv, Timed, Processes, ScoreCommit, Scoring
<1>1. Become(w, Idle) /\ Idle \in Task /\ Idle.at = "idle"
  BY <1>0, StartedIs DEF ScoreCommit
<1>2. \A q \in Processes : task'[q] = IF q = w THEN Idle ELSE task[q]
  BY <1>0, <1>1, Moved
<1>3. n \in 1..Len(a) /\ a[n] = task[w].version
  BY <1>0, RequestIs
<1>4. s.company = task[w].company /\ s.signals = task[w].found
  BY DEF Snapshot
<1>5. /\ UNCHANGED <<signals, signalAt, companyAt, recordAt, detects, scores, missed>>
      /\ Evidence' = Evidence /\ shown' = IF n >= shown.request THEN s ELSE shown
  BY DEF ScoreCommit, signalVars, Evidence, postingVars, Show
<1>6. Len(a) \in Nat /\ shown.request \in 0..Len(a) /\ DOMAIN a = 1..Len(a)
  BY <1>0 DEF Typed, Requests, Once
<1> HIDE DEF s, n, a
<1>7. /\ Pending => Pending'
      /\ \A u \in Workers : \A e : Finds(u, e)' <=> Finds(u, e)
      /\ \A u \in Workers : At(u, "detected") /\ IsNewest(u) => IsNewest(u)'
  <2>1. ~ Gathering(task[w]) /\ w \notin Staff /\ recordAt \in Nat
    BY <1>0, EvidenceAssumption, Numbers DEF Gathering, Scoring, At
  <2>2. Pending => Pending'
    BY <1>0, <1>1, <1>5, <2>1, PendingStays
  <2>3. \A u \in Workers : \A e : Finds(u, e)' <=> Finds(u, e)
    BY <1>0, <1>1, <1>2 DEF Finds, Scoring, At, Processes
  <2>4. \A u \in Workers : At(u, "detected") /\ IsNewest(u) => IsNewest(u)'
    BY <1>0, <1>1, <1>2, <1>5 DEF IsNewest, Scoring, At, Processes
  <2> QED BY <2>2, <2>3, <2>4
<1>8. Detection'
  BY <1>5, <1>7 DEF CInv, Detection, Finds
<1>9. \A p \in Processes : Scoring(p)' => p # w /\ Scoring(p) /\ task'[p] = task[p]
  BY <1>1, <1>2 DEF Scoring, At
<1>10. Once'
  <2>1. /\ \A p \in Processes : Scoring(p) => task[p].version \in ToSet(a) \ scores.queued
        /\ \A p, q \in Processes : Scoring(p) /\ Scoring(q) /\ task[p].version = task[q].version
             => p = q
    BY <1>0 DEF Once, a
  <2>2. shown'.request \in 0..Len(a)
    BY <1>3, <1>5, <1>6 DEF n
  <2>3. shown'.request # 0 =>
          /\ a[shown'.request] \notin scores.queued
          /\ \A p \in Processes : Scoring(p)' => task'[p].version # a[shown'.request]
    <3>1. CASE shown' = s
      BY <1>0, <1>3, <1>9, <2>1, <3>1 DEF n
    <3>2. CASE shown' = shown
      BY <1>0, <1>9, <3>2 DEF Once, a
    <3> QED BY <1>5, <3>1, <3>2
  <2> QED BY <1>5, <1>9, <2>1, <2>2, <2>3 DEF Once, a
<1>11. ScorePending => ScorePending'
  BY <1>0, <1>2, <1>5 DEF ScorePending, LastAsked, ScoreVersion, Scoring, At
<1>12. Scores'
  <2> SUFFICES ASSUME ~ missed, a # <<>>
               PROVE  CompanyScored' /\ \A e \in signals \cap Evidence : SignalScored(e)'
    BY <1>5 DEF Scores, a
  <2>1. CompanyScored /\ \A e \in signals \cap Evidence : SignalScored(e)
    BY DEF CInv, Scores, a
  <2>2. LastAsked = a[Len(a)] /\ LastAsked' = LastAsked /\ Len(a) >= 1
    BY <1>3, <1>5, <1>6 DEF LastAsked, a
  <2>3. task[w].version = LastAsked => shown' = s /\ shown'.request = Len(scores'.asked)
    <3>1. task[w].version = LastAsked => n = Len(a)
      BY <1>3, <1>6, <2>2 DEF CInv, Distincts, Distinct, a
    <3> QED BY <1>5, <1>6, <3>1 DEF n, a
  <2>4. shown.request = Len(a) => shown' = shown
    <3>1. shown.request = Len(a) => task[w].version # a[Len(a)]
      BY <1>0, <2>2 DEF Once, a
    <3>2. shown.request = Len(a) => n < Len(a)
      BY <1>3, <1>6, <3>1
    <3> QED BY <1>3, <1>5, <1>6, <3>2
  <2>5. \A p \in Processes : Scoring(p) /\ p # w => Scoring(p)' /\ task'[p] = task[p]
    BY <1>2 DEF Scoring, At
  <2>6. CompanyScored'
    <3>1. CASE ScorePending
      BY <1>11, <3>1 DEF CompanyScored
    <3>2. CASE Scoring(w) /\ task[w].version = LastAsked /\ task[w].company = companyAt
      BY <1>4, <1>5, <2>3, <3>2 DEF CompanyScored
    <3>3. ASSUME NEW p \in Processes \ {w}, Scoring(p), task[p].version = LastAsked,
                 task[p].company = companyAt
          PROVE  CompanyScored'
      BY <1>5, <2>2, <2>5, <3>3 DEF CompanyScored
    <3>4. CASE shown.request = Len(scores.asked) /\ shown.company = companyAt
      BY <1>5, <2>4, <3>4 DEF CompanyScored, a
    <3> QED BY <2>1, <3>1, <3>2, <3>3, <3>4 DEF CompanyScored
  <2>7. ASSUME NEW e \in signals \cap Evidence PROVE SignalScored(e)'
    <3>1. CASE Pending \/ ScorePending \/ \E u \in Workers : Finds(u, e)
      BY <1>7, <1>11, <3>1 DEF SignalScored
    <3>2. CASE Scoring(w) /\ task[w].version = LastAsked /\ e \in task[w].found
      BY <1>4, <1>5, <2>3, <3>2 DEF SignalScored
    <3>3. ASSUME NEW p \in Processes \ {w}, Scoring(p), task[p].version = LastAsked,
                 e \in task[p].found
          PROVE  SignalScored(e)'
      BY <1>5, <2>2, <2>5, <3>3 DEF SignalScored
    <3>4. CASE shown.request = Len(scores.asked) /\ e \in shown.signals
      BY <1>5, <2>4, <3>4 DEF SignalScored, a
    <3> QED BY <2>1, <2>7, <3>1, <3>2, <3>3, <3>4 DEF SignalScored
  <2> QED BY <2>6, <2>7
<1> QED BY <1>8, <1>10, <1>12 DEF Catches

(* A correction commits: nothing was requested that is as new, so what it is about to
   request is new. *)
LEMMA CorrectCommitCatches ==
    ASSUME CInv, Keeps, NEW s \in Staff, CorrectCommit(s)
    PROVE  Catches
<1> DEFINE n == task[s].stamp
<1>0. /\ s \in Processes /\ s \notin Workers /\ Timed /\ Typed /\ Stamps
      /\ At(s, "correcting") /\ n \in Nat /\ signalAt \in Nat
      /\ ToSet(scores.asked) \subseteq Used /\ Used \subseteq Nat
  <2>1. s \in Processes /\ s \notin Workers
    BY EvidenceAssumption DEF Processes
  <2>2. Timed /\ Typed /\ Stamps /\ At(s, "correcting")
    BY DEF CInv, Timed, CorrectCommit
  <2> QED BY <2>1, <2>2, Numbers
<1>1. PICK t \in Task : Become(s, t) /\ t.at = "asking" /\ t.company = n
  BY <1>0, CorrectCommitIs
<1>2. \A q \in Processes : task'[q] = IF q = s THEN t ELSE task[q]
  BY <1>0, <1>1, Moved
<1>3. UNCHANGED <<signals, signalAt, scores, shown>>
  BY DEF CorrectCommit, signalVars
<1>4. \A w \in Workers : task'[w] = task[w]
  BY <1>0, <1>2 DEF Processes
<1>5. Detection'
  <2>1. \A w \in Workers : \A e : Finds(w, e)' <=> Finds(w, e)
    BY <1>4 DEF Finds, At
  <2>2. \A w \in Workers : IsNewest(w) => IsNewest(w)'
    BY <1>3, <1>4 DEF IsNewest, At
  <2> QED BY <1>3, <2>1, <2>2 DEF CInv, Detection, Keeps
<1>6. Once'
  <2>1. \A p \in Processes : Scoring(p)' => Scoring(p) /\ task'[p] = task[p]
    BY <1>1, <1>2 DEF Scoring, At
  <2> QED BY <1>3, <2>1 DEF CInv, Once
<1>7. Scores'
  <2> SUFFICES ASSUME ~ missed' PROVE ScorePending'
    BY DEF Scores, CompanyScored, SignalScored
  <2>1. n \notin ToSet(scores.asked)
    BY <1>0 DEF Stamps, Open, At
  <2>2. ~ Overtaken(scores, n)
    BY DEF CorrectCommit
  <2>3. \A v \in ToSet(scores.asked) : v < n
    <3>1. \A v \in ToSet(scores.asked) : v \in Nat /\ ~ (v > n)
      BY <1>0, <2>2 DEF Overtaken
    <3> QED BY <1>0, <2>1, <3>1
  <2>4. Newest(n, signalAt) \notin ToSet(scores.asked)
    <3>1. n <= Newest(n, signalAt)
      BY <1>0 DEF Newest
    <3>2. Newest(n, signalAt) \in Nat
      BY <1>0 DEF Newest
    <3> QED BY <1>0, <2>3, <3>1, <3>2
  <2>5. At(s, "asking")' /\ task'[s].company = n
    BY <1>0, <1>1, <1>2 DEF At
  <2>6. ScoreVersion(task[s].company)' = Newest(n, signalAt)
    BY <1>3, <2>5 DEF ScoreVersion, Newest
  <2> QED BY <1>0, <1>3, <2>4, <2>5, <2>6 DEF ScorePending
<1> QED BY <1>5, <1>6, <1>7 DEF Catches

(* The steps of collections and crawls. *)
LEMMA CollectCatches ==
    ASSUME CInv, Timed', NEW w \in Workers,
           \/ CollectBegin(w) \/ PersistItem(w) \/ ReviewCandidate(w) \/ ReviewSave(w) \/ Sweep(w)
           \/ CrawlPage(w) \/ PagePostings(w)
    PROVE  Catches
<1>0. w \in Processes /\ Timed /\ Typed
  BY DEF CInv, Timed, Processes
<1>1. task[w].at \notin Busy
  <2>1. CASE ReviewCandidate(w) \/ ReviewSave(w)
    BY <1>0, <2>1, ReviewIs DEF Busy
  <2>2. CASE \/ CollectBegin(w) \/ PersistItem(w) \/ Sweep(w) \/ CrawlPage(w) \/ PagePostings(w)
    BY <2>2 DEF CollectBegin, PersistItem, Sweep, CrawlPage, PagePostings, At, Busy
  <2> QED BY <2>1, <2>2
<1>2. PICK t \in Task : Become(w, t) /\ t.at \notin Busy
  <2>1. CASE CollectBegin(w)
    BY <1>0, <2>1, CollectBeginIs DEF Busy
  <2>2. CASE PersistItem(w)
    BY <1>0, <2>2, PersistItemIs DEF Busy
  <2>3. CASE ReviewCandidate(w) \/ ReviewSave(w)
    <3>1. PICK u \in Task : Become(w, u) /\ u.at \in {"collecting", "reviewing"}
      BY <1>0, <2>3, ReviewIs
    <3> QED BY <3>1 DEF Busy
  <2>4. CASE Sweep(w)
    <3>1. CASE Become(w, Idle)
      BY <1>0, <3>1, StartedIs DEF Busy
    <3>2. CASE GoOn(w, "detecting")
      BY <1>0, <3>2, GoesOn DEF Busy
    <3> QED BY <2>4, <3>1, <3>2 DEF Sweep
  <2>5. CASE CrawlPage(w)
    BY <1>0, <2>5, CrawlPageIs DEF Busy
  <2>6. CASE PagePostings(w)
    BY <1>0, <2>6, GoesOn DEF PagePostings, Busy
  <2> QED BY <2>1, <2>2, <2>3, <2>4, <2>5, <2>6
<1>3. \A q \in Processes : \/ task'[q] = task[q]
                           \/ task[q].at \notin Busy /\ task'[q].at \notin Busy
  BY <1>0, <1>1, <1>2, Moved
<1>4. UNCHANGED <<signals, signalAt, scores, shown, companyAt>>
  BY DEF CollectBegin, PersistItem, ReviewCandidate, ReviewSave, Sweep, CrawlPage,
         PagePostings, signalVars
<1>5. Keeps
  BY <1>0, CollectKeeps
<1> QED BY <1>3, <1>4, <1>5, PlainCatches

(* The steps of staff. *)
LEMMA StaffCatches ==
    ASSUME CInv, Timed', NEW s \in Staff,
           \/ ApproveBegin(s) \/ ApproveCommit(s) \/ EnqueueDetect(s) \/ Dismiss(s)
           \/ CorrectBegin(s) \/ CorrectCommit(s)
    PROVE  Catches
<1>0. s \in Processes /\ Timed /\ Typed
  BY DEF CInv, Timed, Processes
<1>1. Keeps
  BY <1>0, StaffKeeps
<1>2. CASE CorrectCommit(s)
  BY <1>1, <1>2, CorrectCommitCatches
<1>3. CASE Dismiss(s)
  <2>1. UNCHANGED <<signals, signalAt, scores, shown, companyAt, task>>
    BY <1>3 DEF Dismiss, signalVars
  <2> QED BY <1>1, <2>1, PlainCatches
<1>4. CASE ApproveBegin(s) \/ ApproveCommit(s) \/ EnqueueDetect(s) \/ CorrectBegin(s)
  <2>1. task[s].at \notin Busy
    BY <1>4 DEF ApproveBegin, ApproveCommit, EnqueueDetect, CorrectBegin, At, Busy
  <2>2. PICK t \in Task : Become(s, t) /\ t.at \notin Busy
    <3>1. CASE ApproveBegin(s) \/ CorrectBegin(s)
      <4>1. PICK u \in Task : Become(s, u) /\ u.at \in {"approving", "correcting"}
        BY <1>0, <3>1, StaffBeginIs
      <4> QED BY <4>1 DEF Busy
    <3>2. CASE Become(s, Idle)
      BY <1>0, <3>2, StartedIs DEF Busy
    <3>3. CASE GoOn(s, "approved")
      BY <1>0, <3>3, GoesOn DEF Busy
    <3> QED BY <1>4, <3>1, <3>2, <3>3 DEF ApproveCommit, EnqueueDetect
  <2>3. \A q \in Processes : \/ task'[q] = task[q]
                             \/ task[q].at \notin Busy /\ task'[q].at \notin Busy
    BY <1>0, <2>1, <2>2, Moved
  <2>4. UNCHANGED <<signals, signalAt, scores, shown, companyAt>>
    BY <1>4 DEF ApproveBegin, ApproveCommit, EnqueueDetect, CorrectBegin, signalVars
  <2> QED BY <1>1, <2>3, <2>4, PlainCatches
<1> QED BY <1>2, <1>3, <1>4

(* Requests and failures. *)
LEMMA OtherCatches ==
    ASSUME CInv, Timed',
           \/ \E p \in Processes : EnqueueScore(p) \/ GiveUp(p)
           \/ PressScore \/ PressDetect
    PROVE  Catches
<1>0. /\ Timed /\ Typed
      /\ \A p \in Processes : task[p].company \in Used /\ task[p].company <= recordAt
      /\ companyAt \in Used /\ companyAt <= recordAt
  BY Numbers DEF CInv, Timed, Order
<1>1. ASSUME NEW p \in Processes, EnqueueScore(p) PROVE Catches
  <2>1. ScoreVersion(task[p].company) \in Time
    BY <1>0, VersionsAre
  <2>2. \A q \in Processes : task'[q] = IF q = p THEN Idle ELSE task[q]
    BY <1>0, <1>1, StartedIs, Moved DEF EnqueueScore
  <2>3. /\ scores' = Ask(scores, ScoreVersion(task[p].company)) /\ At(p, "asking")
        /\ UNCHANGED <<signals, signalAt, companyAt, recordAt, recorded, active, detects,
                       shown, missed>>
    BY <1>1 DEF EnqueueScore, AskScore, signalVars, postingVars
  <2>4. \A q \in Processes :
             \/ task'[q] = task[q]
             \/ /\ At(q, "asking") /\ ScoreVersion(task[q].company) = ScoreVersion(task[p].company)
                /\ task'[q].at = "idle"
    BY <1>0, <2>2, <2>3, StartedIs
  <2> QED BY <2>1, <2>3, <2>4, AskCatches
<1>2. CASE PressScore
  <2>1. ScoreVersion(companyAt) \in Time
    BY <1>0, VersionsAre
  <2>2. /\ scores' = Ask(scores, ScoreVersion(companyAt))
        /\ UNCHANGED <<signals, signalAt, companyAt, recordAt, recorded, active, detects,
                       shown, missed, task>>
    BY <1>2 DEF PressScore, AskScore, signalVars, postingVars
  <2> QED BY <2>1, <2>2, AskCatches
<1>3. CASE PressDetect
  <2>1. /\ detects' = Ask(detects, recordAt) /\ Evidence' = Evidence
        /\ UNCHANGED <<signals, signalAt, companyAt, recordAt, scores, shown, missed, task>>
    BY <1>0, <1>3, VersionsAre DEF PressDetect, AskDetect, signalVars, postingVars, Evidence
  <2>2. detects \in Requests /\ recordAt \in Time
    BY <1>0 DEF Typed
  <2>3. Pending => Pending'
    <3>1. CASE recordAt \in ToSet(detects.asked)
      BY <2>1, <2>2, <3>1, AskedIs DEF Pending, At
    <3>2. CASE recordAt \notin ToSet(detects.asked)
      BY <2>1, <2>2, <3>2, AskedIs DEF Pending
    <3> QED BY <3>1, <3>2
  <2>4. Keeps
    BY <2>1, <2>3 DEF Keeps
  <2> QED BY <2>1, <2>4, PlainCatches
<1>4. ASSUME NEW p \in Processes, GiveUp(p) PROVE Catches
  <2>1. \A q \in Processes : task'[q] = IF q = p THEN Idle ELSE task[q]
    BY <1>0, <1>4, StartedIs, Moved DEF GiveUp
  <2>2. missed' /\ UNCHANGED <<scores, shown>>
    BY <1>4 DEF GiveUp
  <2>3. \A q \in Processes : Scoring(q)' => Scoring(q) /\ task'[q] = task[q]
    BY <1>0, <2>1, StartedIs DEF Scoring, At
  <2>4. Once'
    BY <2>2, <2>3 DEF CInv, Once
  <2> QED BY <2>2, <2>4 DEF Catches, Detection, Scores
<1> QED BY <1>1, <1>2, <1>3, <1>4

-----------------------------------------------------------------------------
(* The theorems. *)

(* Nothing was requested, stored or shown at the start. *)
LEMMA InitCInv == Init => CInv
<1> SUFFICES ASSUME Init PROVE CInv
  OBVIOUS
<1>1. Typed
  BY InitIInv DEF IInv
<1>2. /\ detects.asked = <<>> /\ detects.queued = {} /\ scores.asked = <<>> /\ scores.queued = {}
      /\ shown.request = 0 /\ recorded = {} /\ active = {}
      /\ now = 0 /\ companyAt = 0 /\ recordAt = 0 /\ signalAt = 0
      /\ \A p \in Processes : /\ task[p].at = "idle" /\ task[p].company = 0
                              /\ task[p].stamp = 0 /\ task[p].found = {}
  BY DEF Init, Idle
<1>3. ToSet(detects.asked) = {} /\ ToSet(scores.asked) = {} /\ Len(scores.asked) = 0
  BY <1>2 DEF ToSet
<1>4. \A v \in Used : v = 0
  BY <1>2, <1>3 DEF Used
<1>5. Stamps
  BY <1>2, <1>4 DEF Stamps, Open
<1>6. Order
  BY <1>2, <1>3 DEF Order, At, Processes
<1>7. Distincts
  BY <1>2, <1>3 DEF Distincts, Distinct
<1>8. Detection
  BY <1>2 DEF Detection, Evidence, Finds, At, Processes
<1>9. Once
  BY <1>2, <1>3 DEF Once, Scoring, At
<1>10. Scores
  BY <1>2 DEF Scores
<1> QED BY <1>1, <1>5, <1>6, <1>7, <1>8, <1>9, <1>10 DEF CInv, Timed

(* Every step keeps the invariant. *)
LEMMA NextCInv ==
    ASSUME IInv, CInv, [Next]_vars
    PROVE  IInv' /\ CInv'
<1>1. IInv' /\ Typed'
  BY NextIInv DEF IInv
<1>2. CASE UNCHANGED vars
  <2>1. UNCHANGED <<now, companyAt, recordAt, recorded, active, signals, signalAt, detects,
                    scores, shown, missed, task>>
    BY <1>2 DEF vars, postingVars, signalVars
  <2>2. Used' = Used /\ Evidence' = Evidence
    BY <2>1 DEF Used, Evidence
  <2>3. Stamps' /\ Order'
    BY <2>1, <2>2 DEF CInv, Timed, Stamps, Order, Open, At
  <2>4. Distincts'
    BY <2>1 DEF CInv, Distincts, Distinct
  <2>5. Keeps \/ missed
    BY <2>1, <2>2 DEF Keeps, Pending, Gathering, At
  <2>6. CASE Keeps
    BY <1>1, <2>1, <2>3, <2>4, <2>6, PlainCatches DEF CInv, Timed, Catches
  <2>7. CASE missed
    <3>1. Once'
      BY <2>1 DEF CInv, Once, Scoring, At
    <3>2. Detection' /\ Scores'
      BY <2>1, <2>7 DEF Detection, Scores
    <3> QED BY <1>1, <2>3, <2>4, <3>1, <3>2 DEF CInv, Timed
  <2> QED BY <1>1, <2>5, <2>6, <2>7
<1>3. CASE Next
  <2>0. Timed /\ Distincts
    BY DEF CInv
  <2>1. Distincts'
    BY <1>3, <2>0, DistinctsStep
  <2>2. ASSUME Stamps' /\ Order', Timed' => Catches PROVE CInv'
    BY <1>1, <2>1, <2>2 DEF CInv, Timed, Catches
  <2>3. ASSUME NEW w \in Workers,
               \/ CollectBegin(w) \/ PersistItem(w) \/ ReviewCandidate(w) \/ ReviewSave(w)
               \/ Sweep(w) \/ CrawlPage(w) \/ PagePostings(w)
        PROVE  CInv'
    BY <2>0, <2>2, <2>3, CollectTimed, CollectCatches
  <2>4. ASSUME NEW w \in Workers,
               \/ DetectJob(w) \/ DetectAfter(w) \/ DetectCommit(w)
               \/ ScoreBegin(w) \/ ScoreCommit(w)
        PROVE  CInv'
    BY <2>0, <2>2, <2>4, DetectTimed, DetectCatches, DetectCommitCatches, ScoreBeginCatches,
       ScoreCommitCatches
  <2>5. ASSUME NEW s \in Staff,
               \/ ApproveBegin(s) \/ ApproveCommit(s) \/ EnqueueDetect(s) \/ Dismiss(s)
               \/ CorrectBegin(s) \/ CorrectCommit(s)
        PROVE  CInv'
    BY <2>0, <2>2, <2>5, StaffTimed, StaffCatches
  <2>6. ASSUME \/ \E p \in Processes : EnqueueScore(p) \/ GiveUp(p)
               \/ PressScore \/ PressDetect
        PROVE  CInv'
    BY <2>0, <2>2, <2>6, StaffTimed, OtherCatches
  <2> QED BY <1>1, <1>3, <2>3, <2>4, <2>5, <2>6 DEF Next
<1> QED BY <1>1, <1>2, <1>3

(* Nobody detects and nobody scores when nothing is left to do. *)
LEMMA SettledInv ==
    ASSUME CInv
    PROVE  EvidenceIsDetected /\ ScoreSeesEverything
<1> SUFFICES ASSUME Settled, ~ missed
             PROVE  /\ Evidence \subseteq signals
                    /\ scores.asked # <<>> =>
                         /\ shown.company = companyAt
                         /\ signals \cap Evidence \subseteq shown.signals
  BY DEF EvidenceIsDetected, ScoreSeesEverything
<1>1. \A p \in Processes : task[p].at = "idle"
  BY DEF Settled, At
<1>2. ~ Pending /\ \A w \in Workers : \A e : ~ Finds(w, e)
  BY <1>1 DEF Settled, Pending, Gathering, Finds, At, Processes
<1>3. ~ ScorePending /\ \A p \in Processes : ~ Scoring(p)
  BY <1>1 DEF Settled, ScorePending, Scoring, At
<1>4. Evidence \subseteq signals
  BY <1>2 DEF CInv, Detection
<1>5. ASSUME scores.asked # <<>>
      PROVE  shown.company = companyAt /\ signals \cap Evidence \subseteq shown.signals
  BY <1>2, <1>3, <1>5 DEF CInv, Scores, CompanyScored, SignalScored
<1> QED BY <1>4, <1>5

(* Whatever overlaps, once nothing is queued or running the signals show all the
   evidence there is, unless a process failed or committed late. *)
THEOREM EvidenceAlwaysDetected == Spec => []EvidenceIsDetected
<1>1. IInv /\ CInv /\ [Next]_vars => IInv' /\ CInv'
  BY NextCInv
<1>2. CInv => EvidenceIsDetected
  BY SettledInv
<1> QED BY InitIInv, InitCInv, <1>1, <1>2, PTL DEF Spec

(* The score on display then rests on the company as it is and on every signal that
   has its evidence. *)
THEOREM ScoreAlwaysSeesEverything == Spec => []ScoreSeesEverything
<1>1. IInv /\ CInv /\ [Next]_vars => IInv' /\ CInv'
  BY NextCInv
<1>2. CInv => ScoreSeesEverything
  BY SettledInv
<1> QED BY InitIInv, InitCInv, <1>1, <1>2, PTL DEF Spec

-----------------------------------------------------------------------------
(* Types. *)

ShownTyped == shown \in [request : Nat, company : Time, signals : SUBSET Relevant]
RestTyped == origin \in [Postings -> {"none", "page", "feed"}] /\ missed \in BOOLEAN

(* Requests differ, so there are no more of them than stamps. *)
LEMMA RequestsBounded ==
    ASSUME NEW jobs \in Requests, Distinct(jobs)
    PROVE  jobs \in Jobs /\ Len(jobs.asked) \in 0..MaxTime + 1
<1> DEFINE a == jobs.asked
           n == Len(a)
<1>1. a \in Seq(Time) /\ n \in Nat /\ a \in [1..n -> Time] /\ jobs.queued \in SUBSET Time
  BY DEF Requests
<1>2. \A i, j \in 1..n : a[i] = a[j] => i = j
  BY <1>1 DEF Distinct
<1>3. jobs = [asked |-> a, queued |-> jobs.queued]
  BY DEF Requests
<1> HIDE DEF a, n
<1>4. a \in Injection(1..n, Time)
  BY <1>1, <1>2 DEF Injection, IsInjective
<1>5. MaxTime \in Nat /\ IsFiniteSet(Time) /\ Cardinality(Time) = MaxTime + 1
  BY EvidenceAssumption, FS_Interval DEF Time
<1>6. Cardinality(1..n) <= Cardinality(Time)
  BY <1>4, <1>5, FS_Injection
<1>7. Cardinality(1..n) = n
  BY <1>1, FS_Interval
<1>8. n \in 0..MaxTime + 1
  BY <1>1, <1>5, <1>6, <1>7
<1>9. a \in UNION {[1..m -> Time] : m \in 0..MaxTime + 1}
  BY <1>1, <1>8
<1>10. jobs \in Jobs
  BY <1>1, <1>3, <1>9 DEF Jobs
<1> QED BY <1>8, <1>10 DEF a, n

(* What is shown is a snapshot of what some score read. *)
LEMMA ShownStep ==
    ASSUME IInv, CInv, ShownTyped, [Next]_vars
    PROVE  ShownTyped'
<1>1. ASSUME NEW w \in Workers, ScoreCommit(w) PROVE ShownTyped'
  <2>1. task[w] \in Task /\ Scoring(w)
    BY <1>1 DEF IInv, Typed, Processes, ScoreCommit, Scoring
  <2>2. Snapshot(task[w]).request \in Nat
    BY <2>1, RequestIs
  <2>3. task[w].company \in Time /\ task[w].found \in SUBSET Relevant
    BY <2>1 DEF Task
  <2>4. Snapshot(task[w]) = [request |-> Snapshot(task[w]).request,
                             company |-> task[w].company, signals |-> task[w].found]
    BY DEF Snapshot
  <2>5. Snapshot(task[w]) \in [request : Nat, company : Time, signals : SUBSET Relevant]
    BY <2>2, <2>3, <2>4
  <2> QED BY <1>1, <2>5 DEF ScoreCommit, Show, ShownTyped
<1>2. CASE UNCHANGED shown
  BY <1>2 DEF ShownTyped
<1>3. (\E w \in Workers : ScoreCommit(w)) \/ UNCHANGED shown
  BY DEF Next, vars, CollectBegin, PersistItem, ReviewCandidate, ReviewSave, Sweep, CrawlPage,
         PagePostings, DetectJob, DetectAfter, DetectCommit, ScoreBegin, EnqueueScore,
         ApproveBegin, ApproveCommit, EnqueueDetect, Dismiss, CorrectBegin, CorrectCommit,
         PressScore, PressDetect, GiveUp
<1> QED BY <1>1, <1>2, <1>3

(* A posting is attached to a record of one of the two sources. *)
LEMMA RestStep ==
    ASSUME IInv, RestTyped, [Next]_vars
    PROVE  RestTyped'
<1>1. missed' \in BOOLEAN
  <2>1. ASSUME NEW w \in Workers, DetectCommit(w) PROVE missed' \in BOOLEAN
    BY <2>1 DEF DetectCommit
  <2>2. ASSUME NEW s \in Staff, ApproveCommit(s) \/ CorrectCommit(s) PROVE missed' \in BOOLEAN
    BY <2>2 DEF ApproveCommit, CorrectCommit, RestTyped
  <2>3. ASSUME NEW p \in Processes, GiveUp(p) PROVE missed' \in BOOLEAN
    BY <2>3 DEF GiveUp
  <2>4. CASE UNCHANGED missed
    BY <2>4 DEF RestTyped
  <2>5. \/ \E w \in Workers : DetectCommit(w)
        \/ \E s \in Staff : ApproveCommit(s) \/ CorrectCommit(s)
        \/ \E p \in Processes : GiveUp(p)
        \/ UNCHANGED missed
    BY DEF Next, vars, CollectBegin, PersistItem, ReviewCandidate, ReviewSave, Sweep, CrawlPage,
           PagePostings, DetectJob, DetectAfter, ScoreBegin, ScoreCommit, EnqueueScore,
           ApproveBegin, EnqueueDetect, Dismiss, CorrectBegin, PressScore, PressDetect
  <2> QED BY <2>1, <2>2, <2>3, <2>4, <2>5
<1>2. origin' \in [Postings -> {"none", "page", "feed"}]
  <2>0. origin \in [Postings -> {"none", "page", "feed"}]
    BY DEF RestTyped
  <2>1. ASSUME NEW w \in Workers, PersistItem(w)
        PROVE  origin' \in [Postings -> {"none", "page", "feed"}]
    BY <2>0, <2>1 DEF PersistItem
  <2>2. ASSUME NEW w \in Workers, PagePostings(w)
        PROVE  origin' \in [Postings -> {"none", "page", "feed"}]
    BY <2>0, <2>2 DEF PagePostings
  <2>3. ASSUME NEW s \in Staff, ApproveCommit(s)
        PROVE  origin' \in [Postings -> {"none", "page", "feed"}]
    BY <2>0, <2>3 DEF ApproveCommit
  <2>4. \/ \E w \in Workers : PersistItem(w) \/ PagePostings(w)
        \/ \E s \in Staff : ApproveCommit(s)
        \/ UNCHANGED origin
    BY DEF Next, vars, postingVars, CollectBegin, ReviewCandidate, ReviewSave, Sweep, CrawlPage,
           DetectJob, DetectAfter, DetectCommit, ScoreBegin, ScoreCommit, EnqueueScore,
           ApproveBegin, EnqueueDetect, Dismiss, CorrectBegin, CorrectCommit, PressScore,
           PressDetect, GiveUp
  <2> QED BY <2>0, <2>1, <2>2, <2>3, <2>4
<1> QED BY <1>1, <1>2 DEF RestTyped

(* The state of the company and of the requests about it is well-formed: versions are
   requested once, and a score on display is the one of a request. *)
THEOREM CompanyEvidenceTyped == Spec => []TypeOK
<1>1. Init => ShownTyped /\ RestTyped
  <2>1. Init => ShownTyped
    BY Basics DEF Init, ShownTyped
  <2>2. Init => RestTyped
    BY DEF Init, RestTyped
  <2> QED BY <2>1, <2>2
<1>2. IInv /\ CInv /\ ShownTyped /\ RestTyped /\ [Next]_vars =>
        IInv' /\ CInv' /\ ShownTyped' /\ RestTyped'
  BY NextCInv, ShownStep, RestStep
<1>3. IInv /\ CInv /\ ShownTyped /\ RestTyped => TypeOK
  <2> SUFFICES ASSUME IInv, CInv, ShownTyped, RestTyped PROVE TypeOK
    OBVIOUS
  <2>1. Typed /\ detects \in Requests /\ scores \in Requests
    BY DEF IInv, Typed
  <2>2. /\ detects \in Jobs /\ scores \in Jobs /\ Len(scores.asked) \in 0..MaxTime + 1
        /\ detects.queued \subseteq ToSet(detects.asked)
        /\ scores.queued \subseteq ToSet(scores.asked)
    BY <2>1, RequestsBounded DEF CInv, Distincts, Distinct
  <2>3. shown.request \in 0..MaxTime + 1
    BY <2>2, EvidenceAssumption DEF CInv, Once
  <2>4. shown \in [request : 0..MaxTime + 1, company : Time, signals : SUBSET Relevant]
    BY <2>3 DEF ShownTyped
  <2> QED BY <2>1, <2>2, <2>4 DEF TypeOK, Typed, Reviews, RestTyped
<1> QED BY InitIInv, InitCInv, <1>1, <1>2, <1>3, PTL DEF Spec
=============================================================================
