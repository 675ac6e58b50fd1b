----------------------- MODULE CompanyEvidenceProofs -----------------------
(* Theorems about CompanyEvidence, for any workers, staff, texts and postings. *)
EXTENDS CompanyEvidence, TLAPS

Reviews == [Postings -> [status : {"NONE", "PENDING", "MATCHED", "DISMISSED"},
                         ours : BOOLEAN]]
Requests == [asked : Seq(Time), queued : SUBSET Time]

\* What the steps of a task are made of.
Typed ==
    /\ now \in Time /\ companyAt \in Time /\ recordAt \in Time /\ signalAt \in Time
    /\ recorded \subseteq Texts /\ active \subseteq Postings /\ signals \subseteq Relevant
    /\ review \in Reviews
    /\ detects \in Requests /\ scores \in Requests
    /\ task \in [Processes -> Task]

\* A review in hand is a review, and the one that staff are approving is pending.
InHand ==
    /\ \A w \in Workers : At(w, "reviewing") => task[w].about \in Postings
    /\ \A s \in Staff : At(s, "approving") =>
         task[s].about \in Postings /\ review[task[s].about].status = "PENDING"

\* Its row is locked: no two approve the same.
OneApproves ==
    \A s, t \in Staff : At(s, "approving") /\ At(t, "approving")
                        /\ task[s].about = task[t].about => s = t

IInv == Typed /\ InHand /\ OneApproves

-----------------------------------------------------------------------------
(* What the helpers give. *)

(* Workers are not staff, and stamps are numbers. *)
LEMMA Basics ==
    /\ 0 \in Time /\ None \notin Postings /\ Time \subseteq Nat
    /\ \A t \in Time : 0 <= t
    /\ \A p \in Processes : p \in Workers \/ p \in Staff
    /\ \A w \in Workers, s \in Staff : w # s
BY EvidenceAssumption DEF Time, Processes

(* An idle task is a task, and may be given what was read. *)
LEMMA IdleTyped == Idle \in Task /\ \A c \in Time : [Idle EXCEPT !.company = c] \in Task
BY Basics DEF Idle, Task

(* The clock stays within its bound. *)
LEMMA TickTyped == ASSUME now \in Time, Tick PROVE now' \in Time
BY EvidenceAssumption DEF Tick, Time

(* The newer of two stamps is a stamp. *)
LEMMA NewestTyped == ASSUME NEW s \in Time, NEW t \in Time PROVE Newest(s, t) \in Time
BY DEF Newest

(* Requesting and taking a version leaves lists of versions. *)
LEMMA RequestsTyped ==
    ASSUME NEW jobs \in Requests, NEW v \in Time
    PROVE  Ask(jobs, v) \in Requests /\ Take(jobs, v) \in Requests
BY DEF Requests, Ask, Take

(* A step of one process leaves the tasks of the others. *)
LEMMA BecomeTyped ==
    ASSUME task \in [Processes -> Task], NEW p \in Processes, NEW t \in Task, Become(p, t)
    PROVE  /\ task' \in [Processes -> Task]
           /\ task'[p] = t
           /\ \A q \in Processes : q # p => task'[q] = task[q]
BY DEF Become

(* A step that touches no review keeps the invariant, if its process ends up with none
   in hand. *)
LEMMA OtherStep ==
    ASSUME IInv, NEW p \in Processes, NEW t \in Task, Become(p, t), review' = review,
           t.at \notin {"reviewing", "approving"}
    PROVE  InHand' /\ OneApproves'
<1>1. /\ task'[p] = t
      /\ \A q \in Processes : q # p => task'[q] = task[q]
  BY BecomeTyped DEF IInv, Typed
<1>2. \A q \in Processes : task'[q].at \in {"reviewing", "approving"} => task'[q] = task[q]
  BY <1>1
<1>3. InHand'
  BY <1>2 DEF IInv, InHand, At, Processes
<1>4. OneApproves'
  BY <1>2 DEF IInv, OneApproves, At, Processes
<1> QED BY <1>3, <1>4

-----------------------------------------------------------------------------
(* The steps. *)

(* Nothing is known and nobody is at work at first. *)
LEMMA InitIInv == Init => IInv
<1> SUFFICES ASSUME Init PROVE IInv
  OBVIOUS
<1>1. Typed
  BY Basics, IdleTyped DEF Init, Typed, Reviews, Requests
<1>2. InHand /\ OneApproves
  BY DEF Init, InHand, OneApproves, At, Idle, Processes
<1> QED BY <1>1, <1>2 DEF IInv

(* The steps of a collection from the feed. *)
LEMMA CollectSteps ==
    ASSUME IInv, NEW w \in Workers,
           CollectBegin(w) \/ PersistItem(w) \/ Sweep(w)
    PROVE  IInv'
<1>0. w \in Processes /\ task[w] \in Task /\ Typed
  BY DEF IInv, Typed, Processes
<1>1. CASE CollectBegin(w)
  <2>1. PICK offered \in SUBSET Postings :
          Become(w, [Started EXCEPT !.at = "collecting", !.todo = offered])
    BY <1>1 DEF CollectBegin
  <2>2. [Started EXCEPT !.at = "collecting", !.todo = offered] \in Task
    BY <1>0, Basics DEF Typed, Started, Idle, Task
  <2>3. Typed'
    BY <1>0, <1>1, <2>1, <2>2, BecomeTyped DEF CollectBegin, Typed, postingVars, signalVars
  <2>4. [Started EXCEPT !.at = "collecting", !.todo = offered].at = "collecting"
    BY DEF Started, Idle
  <2> QED BY <1>0, <1>1, <2>1, <2>2, <2>3, <2>4, OtherStep DEF CollectBegin, IInv
<1>2. CASE PersistItem(w)
  <2>1. PICK i \in task[w].todo :
          /\ Become(w, [task[w] EXCEPT !.todo = @ \ {i}, !.matched = @ \cup {i}])
          /\ active' = active \cup {i}
    BY <1>2 DEF PersistItem
  <2> DEFINE t == [task[w] EXCEPT !.todo = @ \ {i}, !.matched = @ \cup {i}]
  <2>2. i \in Postings /\ t \in Task /\ t.at = "collecting"
    BY <1>0, <1>2, <2>1 DEF PersistItem, Task, At
  <2>3. now' \in Time /\ recordAt' \in Time
    BY <1>0, <1>2, TickTyped DEF PersistItem, Typed
  <2>4. Typed'
    BY <1>0, <1>2, <2>1, <2>2, <2>3, BecomeTyped DEF PersistItem, Typed, signalVars
  <2> QED BY <1>0, <1>2, <2>1, <2>2, <2>4, OtherStep DEF PersistItem, IInv
<1>3. CASE Sweep(w)
  <2>1. active' \subseteq active
    BY <1>3 DEF Sweep
  <2>2. PICK t \in Task : Become(w, t) /\ t.at \in {"idle", "detecting"}
    <3>1. Idle \in Task /\ Idle.at = "idle"
      BY IdleTyped DEF Idle
    <3>2. [Idle EXCEPT !.at = "detecting", !.company = task[w].company] \in Task
      BY <1>0, Basics DEF Task, Idle
    <3>3. [Idle EXCEPT !.at = "detecting", !.company = task[w].company].at = "detecting"
      BY DEF Idle
    <3> QED BY <1>3, <3>1, <3>2, <3>3 DEF Sweep, GoOn
  <2>3. Typed'
    BY <1>0, <1>3, <2>1, <2>2, BecomeTyped DEF Sweep, Typed, signalVars
  <2> QED BY <1>0, <1>3, <2>2, <2>3, OtherStep DEF Sweep, IInv
<1> QED BY <1>1, <1>2, <1>3

(* A collection meets a candidate: the review it holds was there. *)
LEMMA ReviewCandidateStep ==
    ASSUME IInv, NEW w \in Workers, ReviewCandidate(w)
    PROVE  IInv'
<1>0. w \in Processes /\ task[w] \in Task /\ Typed /\ At(w, "collecting")
  BY DEF IInv, Typed, Processes, ReviewCandidate
<1>1. PICK i \in task[w].todo :
         \/ /\ review[i].status = "NONE"
            /\ review' = [review EXCEPT ![i] = [status |-> "PENDING", ours |-> TRUE]]
            /\ Become(w, [task[w] EXCEPT !.todo = @ \ {i}])
         \/ /\ review[i].status = "PENDING"
            /\ Become(w, [task[w] EXCEPT !.at = "reviewing", !.about = i, !.todo = @ \ {i}])
            /\ UNCHANGED review
         \/ /\ review[i].status \in {"MATCHED", "DISMISSED"}
            /\ Become(w, [task[w] EXCEPT !.todo = @ \ {i}, !.kept = @ \cup {i}])
            /\ UNCHANGED review
  BY DEF ReviewCandidate
<1>2. i \in Postings
  BY <1>0 DEF Task
<1>3. PICK t \in Task : Become(w, t) /\ t.at \in {"collecting", "reviewing"} /\
                        (t.at = "reviewing" => t.about = i)
  <2>1. [task[w] EXCEPT !.todo = @ \ {i}] \in Task
        /\ [task[w] EXCEPT !.todo = @ \ {i}].at = "collecting"
    BY <1>0 DEF Task, At
  <2>2. [task[w] EXCEPT !.at = "reviewing", !.about = i, !.todo = @ \ {i}] \in Task
        /\ [task[w] EXCEPT !.at = "reviewing", !.about = i, !.todo = @ \ {i}].at = "reviewing"
        /\ [task[w] EXCEPT !.at = "reviewing", !.about = i, !.todo = @ \ {i}].about = i
    BY <1>0, <1>2 DEF Task
  <2>3. [task[w] EXCEPT !.todo = @ \ {i}, !.kept = @ \cup {i}] \in Task
        /\ [task[w] EXCEPT !.todo = @ \ {i}, !.kept = @ \cup {i}].at = "collecting"
    BY <1>0, <1>2 DEF Task, At
  <2> QED BY <1>1, <2>1, <2>2, <2>3
<1>4. /\ review' \in Reviews
      /\ \A j \in Postings : review[j].status = "PENDING" => review'[j].status = "PENDING"
  <2>1. CASE review' = review
    BY <1>0, <2>1 DEF Typed
  <2>2. CASE review' = [review EXCEPT ![i] = [status |-> "PENDING", ours |-> TRUE]]
    <3>1. review' \in Reviews
      BY <1>0, <2>2 DEF Typed, Reviews
    <3>2. \A j \in Postings : review'[j] = review[j] \/ review'[j].status = "PENDING"
      BY <1>0, <2>2 DEF Typed, Reviews
    <3> QED BY <3>1, <3>2
  <2> QED BY <1>1, <2>1, <2>2
<1>5. /\ task'[w] = t /\ task' \in [Processes -> Task]
      /\ \A q \in Processes : q # w => task'[q] = task[q]
  BY <1>0, <1>3, BecomeTyped DEF Typed
<1>6. Typed'
  BY <1>0, <1>4, <1>5 DEF ReviewCandidate, Typed, postingVars, signalVars
<1>7. \A s \in Staff : s \in Processes /\ task'[s] = task[s]
  BY <1>5, Basics DEF Processes
<1>8. InHand'
  <2>1. \A v \in Workers : At(v, "reviewing")' => task'[v].about \in Postings
    BY <1>2, <1>3, <1>5 DEF IInv, InHand, At, Processes
  <2>2. \A s \in Staff : At(s, "approving")' =>
           task'[s].about \in Postings /\ review'[task'[s].about].status = "PENDING"
    BY <1>4, <1>7 DEF IInv, InHand, At
  <2> QED BY <2>1, <2>2 DEF InHand
<1>9. OneApproves'
  BY <1>7 DEF IInv, OneApproves, At
<1> QED BY <1>6, <1>8, <1>9 DEF IInv

(* The review that was read before is saved without its status. *)
LEMMA ReviewSaveStep ==
    ASSUME IInv, NEW w \in Workers, ReviewSave(w)
    PROVE  IInv' /\ \A i \in Postings : review'[i].status = review[i].status
<1>0. w \in Processes /\ task[w] \in Task /\ Typed
  BY DEF IInv, Typed, Processes
<1> DEFINE t == [task[w] EXCEPT !.at = "collecting", !.about = None]
<1>1. t \in Task /\ t.at = "collecting" /\ Become(w, t)
  BY <1>0 DEF Task, ReviewSave
<1>2. review' \in Reviews /\ \A i \in Postings : review'[i].status = review[i].status
  BY <1>0 DEF ReviewSave, Typed, Reviews
<1>3. /\ task'[w] = t /\ task' \in [Processes -> Task]
      /\ \A q \in Processes : q # w => task'[q] = task[q]
  BY <1>0, <1>1, BecomeTyped DEF Typed
<1>4. Typed'
  BY <1>0, <1>2, <1>3 DEF ReviewSave, Typed, postingVars, signalVars
<1>5. \A s \in Staff : s \in Processes /\ task'[s] = task[s]
  BY <1>3, Basics DEF Processes
<1>6. InHand'
  <2>1. \A v \in Workers : At(v, "reviewing")' => task'[v].about \in Postings
    BY <1>1, <1>3 DEF IInv, InHand, At, Processes
  <2>2. \A s \in Staff : At(s, "approving")' =>
           task'[s].about \in Postings /\ review'[task'[s].about].status = "PENDING"
    BY <1>2, <1>5 DEF IInv, InHand, At
  <2> QED BY <2>1, <2>2 DEF InHand
<1>7. OneApproves'
  BY <1>5 DEF IInv, OneApproves, At
<1> QED BY <1>2, <1>4, <1>6, <1>7 DEF IInv

(* The steps of a crawl. *)
LEMMA CrawlSteps ==
    ASSUME IInv, NEW w \in Workers, CrawlPage(w) \/ PagePostings(w)
    PROVE  IInv'
<1>0. w \in Processes /\ task[w] \in Task /\ Typed
  BY DEF IInv, Typed, Processes
<1>1. CASE CrawlPage(w)
  <2>1. PICK x \in Texts, offered \in SUBSET Postings :
          /\ recorded' = recorded \cup {x}
          /\ IF x \in recorded THEN UNCHANGED <<now, recordAt>> ELSE Tick /\ recordAt' = now'
          /\ Become(w, [Started EXCEPT !.at = "stored", !.batch = offered])
    BY <1>1 DEF CrawlPage
  <2>2. [Started EXCEPT !.at = "stored", !.batch = offered] \in Task
        /\ [Started EXCEPT !.at = "stored", !.batch = offered].at = "stored"
    BY <1>0, Basics DEF Typed, Started, Idle, Task
  <2>3. now' \in Time /\ recordAt' \in Time
    BY <1>0, <2>1, TickTyped DEF Typed
  <2>4. Typed'
    BY <1>0, <1>1, <2>1, <2>2, <2>3, BecomeTyped DEF CrawlPage, Typed, postingVars, signalVars
  <2> QED BY <1>0, <1>1, <2>1, <2>2, <2>4, OtherStep DEF CrawlPage, IInv
<1>2. CASE PagePostings(w)
  <2> DEFINE t == [Idle EXCEPT !.at = "detecting", !.company = task[w].company]
  <2>1. t \in Task /\ t.at = "detecting" /\ Become(w, t)
    BY <1>0, <1>2, Basics DEF Task, Idle, PagePostings, GoOn
  <2>2. active' \subseteq Postings
    BY <1>0, <1>2 DEF PagePostings, Typed, Task
  <2>3. Typed'
    BY <1>0, <1>2, <2>1, <2>2, BecomeTyped DEF PagePostings, Typed, signalVars
  <2> QED BY <1>0, <1>2, <2>1, <2>3, OtherStep DEF PagePostings, IInv
<1> QED BY <1>1, <1>2

(* A detection reads what was stored into its own task. *)
LEMMA DetectReads ==
    ASSUME IInv, NEW w \in Workers, NEW c \in Time, Detect(w, c)
    PROVE  now' \in Time /\ \E t \in Task : Become(w, t) /\ t.at = "detected"
<1>0. Typed /\ Evidence \subseteq Relevant
  BY DEF IInv, Evidence
<1>1. CASE Evidence = {}
  <2> DEFINE t == [Idle EXCEPT !.at = "detected", !.company = c]
  <2>1. t \in Task /\ t.at = "detected"
    BY Basics DEF Task, Idle
  <2> QED BY <1>0, <1>1, <2>1 DEF Detect, Typed
<1>2. CASE Evidence # {}
  <2>1. now' \in Time
    BY <1>0, <1>2, TickTyped DEF Detect, Typed
  <2> DEFINE t == [Idle EXCEPT !.at = "detected", !.company = c, !.found = Evidence,
                               !.stamp = now']
  <2>2. t \in Task /\ t.at = "detected"
    BY <1>0, <2>1, Basics DEF Task, Idle
  <2> QED BY <1>2, <2>1, <2>2 DEF Detect
<1> QED BY <1>1, <1>2

(* The steps of a detection. *)
LEMMA DetectSteps ==
    ASSUME IInv, NEW w \in Workers,
           DetectJob(w) \/ DetectAfter(w) \/ DetectCommit(w)
    PROVE  IInv'
<1>0. w \in Processes /\ task[w] \in Task /\ task[w].company \in Time /\ Typed
  BY DEF IInv, Typed, Processes, Task
<1>1. CASE DetectJob(w)
  <2>1. now' \in Time /\ \E t \in Task : Become(w, t) /\ t.at = "detected"
    BY <1>0, <1>1, DetectReads DEF DetectJob, Typed
  <2>2. PICK t \in Task : Become(w, t) /\ t.at = "detected"
    BY <2>1
  <2>3. detects' \in Requests
    BY <1>0, <1>1, RequestsTyped DEF DetectJob, Typed, Requests
  <2>4. Typed'
    BY <1>0, <1>1, <2>1, <2>2, <2>3, BecomeTyped DEF DetectJob, Typed, postingVars, signalVars
  <2> QED BY <1>0, <1>1, <2>2, <2>4, OtherStep DEF DetectJob, IInv
<1>2. CASE DetectAfter(w)
  <2>1. now' \in Time /\ \E t \in Task : Become(w, t) /\ t.at = "detected"
    BY <1>0, <1>2, DetectReads DEF DetectAfter
  <2>2. PICK t \in Task : Become(w, t) /\ t.at = "detected"
    BY <2>1
  <2>3. Typed'
    BY <1>0, <1>2, <2>1, <2>2, BecomeTyped DEF DetectAfter, Typed, postingVars, signalVars
  <2> QED BY <1>0, <1>2, <2>2, <2>3, OtherStep DEF DetectAfter, IInv
<1>3. CASE DetectCommit(w)
  <2> DEFINE t == [Idle EXCEPT !.at = "asking", !.company = task[w].company]
  <2>1. t \in Task /\ t.at = "asking" /\ Become(w, t)
    BY <1>0, <1>3, Basics DEF Task, Idle, DetectCommit, GoOn
  <2>2. signals' \subseteq Relevant /\ signalAt' \in Time
    BY <1>0, <1>3, NewestTyped DEF DetectCommit, Typed, Task
  <2>3. Typed'
    BY <1>0, <1>3, <2>1, <2>2, BecomeTyped DEF DetectCommit, Typed, postingVars
  <2> QED BY <1>0, <1>3, <2>1, <2>3, OtherStep DEF DetectCommit, IInv
<1> QED BY <1>1, <1>2, <1>3

(* The steps that request a job or run a score. *)
LEMMA ScoreSteps ==
    ASSUME IInv, NEW w \in Workers, ScoreBegin(w) \/ ScoreCommit(w)
    PROVE  IInv'
<1>0. w \in Processes /\ Typed
  BY DEF IInv, Processes
<1>1. CASE ScoreBegin(w)
  <2>1. PICK v \in scores.queued :
          /\ scores' = Take(scores, v)
          /\ Become(w, [Started EXCEPT !.at = "scoring", !.found = signals, !.version = v])
    BY <1>1 DEF ScoreBegin
  <2> DEFINE t == [Started EXCEPT !.at = "scoring", !.found = signals, !.version = v]
  <2>2. v \in Time /\ scores' \in Requests
    BY <1>0, <2>1, RequestsTyped DEF Typed, Requests
  <2>3. t \in Task /\ t.at = "scoring"
    BY <1>0, <2>2, Basics DEF Typed, Started, Idle, Task
  <2>4. Typed'
    BY <1>0, <1>1, <2>1, <2>2, <2>3, BecomeTyped DEF ScoreBegin, Typed, postingVars, signalVars
  <2> QED BY <1>0, <1>1, <2>1, <2>3, <2>4, OtherStep DEF ScoreBegin, IInv
<1>2. CASE ScoreCommit(w)
  <2>1. Idle \in Task /\ Idle.at = "idle" /\ Become(w, Idle)
    BY <1>2, IdleTyped DEF Idle, ScoreCommit
  <2>2. Typed'
    BY <1>0, <1>2, <2>1, BecomeTyped DEF ScoreCommit, Typed, postingVars, signalVars
  <2> QED BY <1>0, <1>2, <2>1, <2>2, OtherStep DEF ScoreCommit, IInv
<1> QED BY <1>1, <1>2

(* The end of a handler or of a request, and its failure. *)
LEMMA EndSteps ==
    ASSUME IInv, NEW p \in Processes, EnqueueScore(p) \/ EnqueueDetect(p) \/ GiveUp(p)
    PROVE  IInv'
<1>0. task[p] \in Task /\ task[p].company \in Time /\ Typed
  BY DEF IInv, Typed, Task
<1>1. Idle \in Task /\ Idle.at = "idle" /\ Become(p, Idle)
  BY IdleTyped DEF Idle, EnqueueScore, EnqueueDetect, GiveUp
<1>2. scores' \in Requests /\ detects' \in Requests
  <2>1. ScoreVersion(task[p].company) \in Time /\ DetectVersion(task[p].company) \in Time
    BY <1>0, NewestTyped DEF ScoreVersion, DetectVersion, Typed
  <2> QED BY <1>0, <2>1, RequestsTyped
          DEF EnqueueScore, EnqueueDetect, GiveUp, AskScore, AskDetect, Typed
<1>3. Typed'
  BY <1>0, <1>1, <1>2, BecomeTyped
     DEF EnqueueScore, EnqueueDetect, GiveUp, Typed, postingVars, signalVars
<1>4. review' = review
  BY DEF EnqueueScore, EnqueueDetect, GiveUp
<1> QED BY <1>1, <1>3, <1>4, OtherStep DEF IInv

(* An approval locks a pending review that nobody else is approving. *)
LEMMA ApproveBeginStep ==
    ASSUME IInv, NEW s \in Staff, ApproveBegin(s)
    PROVE  IInv'
<1>0. s \in Processes /\ Typed
  BY DEF IInv, Processes
<1>1. PICK i \in Postings :
         /\ review[i].status = "PENDING" /\ ~ Locked(i)
         /\ Tick
         /\ Become(s, [Started EXCEPT !.at = "approving", !.about = i, !.stamp = now'])
  BY DEF ApproveBegin
<1> DEFINE t == [Started EXCEPT !.at = "approving", !.about = i, !.stamp = now']
<1>2. now' \in Time
  BY <1>0, <1>1, TickTyped DEF Typed
<1>3. t \in Task /\ t.at = "approving" /\ t.about = i
  BY <1>0, <1>2, Basics DEF Typed, Started, Idle, Task
<1>4. /\ task'[s] = t /\ task' \in [Processes -> Task]
      /\ \A q \in Processes : q # s => task'[q] = task[q]
  BY <1>0, <1>1, <1>3, BecomeTyped DEF Typed
<1> HIDE DEF t
<1>5. review' = review
  BY DEF ApproveBegin
<1>6. Typed'
  BY <1>0, <1>2, <1>4, <1>5 DEF ApproveBegin, Typed, postingVars, signalVars
<1>7. InHand'
  <2>1. \A w \in Workers : At(w, "reviewing")' => task'[w].about \in Postings
    BY <1>4, Basics DEF IInv, InHand, At, Processes
  <2>2. \A u \in Staff : At(u, "approving")' =>
           task'[u].about \in Postings /\ review'[task'[u].about].status = "PENDING"
    BY <1>1, <1>3, <1>4, <1>5 DEF IInv, InHand, At, Processes
  <2> QED BY <2>1, <2>2 DEF InHand
<1>8. OneApproves'
  <2>1. \A u \in Staff \ {s} : At(u, "approving")' => task'[u].about # i
    BY <1>1, <1>4 DEF Locked, At, Processes
  <2> QED BY <1>3, <1>4, <2>1 DEF IInv, OneApproves, At, Processes
<1> QED BY <1>6, <1>7, <1>8 DEF IInv

(* It decides that review alone, which was pending until then. *)
LEMMA ApproveCommitStep ==
    ASSUME IInv, NEW s \in Staff, ApproveCommit(s)
    PROVE  /\ IInv'
           /\ \A j \in Postings : review[j].status # "PENDING" => review'[j] = review[j]
<1> DEFINE i == task[s].about
<1>0. s \in Processes /\ task[s] \in Task /\ Typed /\ At(s, "approving")
  BY DEF IInv, Typed, Processes, ApproveCommit
<1>1. i \in Postings /\ review[i].status = "PENDING" /\ task[s].stamp \in Time
  BY <1>0 DEF IInv, InHand, Task
<1>2. PICK ours \in BOOLEAN : review' = [review EXCEPT ![i] = [status |-> "MATCHED", ours |-> ours]]
  BY DEF ApproveCommit
<1>3. review' \in Reviews /\ \A j \in Postings : j # i => review'[j] = review[j]
  BY <1>0, <1>1, <1>2 DEF Typed, Reviews
<1>4. PICK t \in Task : Become(s, t) /\ t.at \in {"idle", "approved"}
  <2>1. Idle \in Task /\ Idle.at = "idle"
    BY IdleTyped DEF Idle
  <2>2. /\ [Idle EXCEPT !.at = "approved", !.company = task[s].company] \in Task
        /\ [Idle EXCEPT !.at = "approved", !.company = task[s].company].at = "approved"
    BY <1>0, Basics DEF Task, Idle
  <2> QED BY <2>1, <2>2 DEF ApproveCommit, GoOn
<1>5. /\ task'[s] = t /\ task' \in [Processes -> Task]
      /\ \A q \in Processes : q # s => task'[q] = task[q]
  BY <1>0, <1>4, BecomeTyped DEF Typed
<1>6. active' \subseteq Postings /\ recordAt' \in Time
  BY <1>0, <1>1, NewestTyped DEF ApproveCommit, Typed
<1>7. Typed'
  BY <1>0, <1>3, <1>5, <1>6 DEF ApproveCommit, Typed, signalVars
<1>8. InHand'
  <2>1. \A w \in Workers : At(w, "reviewing")' => task'[w].about \in Postings
    BY <1>5, Basics DEF IInv, InHand, At, Processes
  <2>2. \A u \in Staff \ {s} : At(u, "approving") => task[u].about # i
    BY <1>0 DEF IInv, OneApproves
  <2>3. \A u \in Staff : At(u, "approving")' =>
           task'[u].about \in Postings /\ review'[task'[u].about].status = "PENDING"
    BY <1>3, <1>4, <1>5, <2>2 DEF IInv, InHand, At, Processes
  <2> QED BY <2>1, <2>3 DEF InHand
<1>9. OneApproves'
  BY <1>4, <1>5 DEF IInv, OneApproves, At, Processes
<1> QED BY <1>1, <1>3, <1>7, <1>8, <1>9 DEF IInv

(* A dismissal takes a pending review that nobody is approving. *)
LEMMA DismissStep ==
    ASSUME IInv, NEW s \in Staff, Dismiss(s)
    PROVE  /\ IInv'
           /\ \A j \in Postings : review[j].status # "PENDING" => review'[j] = review[j]
<1>1. PICK i \in Postings :
         /\ review[i].status = "PENDING" /\ ~ Locked(i)
         /\ review' = [review EXCEPT ![i].status = "DISMISSED"]
  BY DEF Dismiss
<1>2. review' \in Reviews /\ \A j \in Postings : j # i => review'[j] = review[j]
  BY <1>1 DEF IInv, Typed, Reviews
<1>3. Typed'
  BY <1>2 DEF IInv, Dismiss, Typed, postingVars, signalVars
<1>4. task' = task
  BY DEF Dismiss
<1>5. InHand'
  BY <1>1, <1>2, <1>4 DEF IInv, InHand, At, Locked
<1>6. OneApproves'
  BY <1>4 DEF IInv, OneApproves, At
<1> QED BY <1>1, <1>2, <1>3, <1>5, <1>6 DEF IInv

(* Corrections and buttons touch no review. *)
LEMMA OtherStaffSteps ==
    ASSUME IInv,
           \/ \E s \in Staff : CorrectBegin(s) \/ CorrectCommit(s)
           \/ PressScore \/ PressDetect
    PROVE  IInv'
<1>0. Typed
  BY DEF IInv
<1>1. ASSUME NEW s \in Staff, CorrectBegin(s) PROVE IInv'
  <2> DEFINE t == [Idle EXCEPT !.at = "correcting", !.stamp = now']
  <2>1. s \in Processes /\ now' \in Time
    BY <1>0, <1>1, TickTyped DEF CorrectBegin, Typed, Processes
  <2>2. t \in Task /\ t.at = "correcting" /\ Become(s, t)
    BY <1>1, <2>1, Basics DEF Task, Idle, CorrectBegin
  <2>3. Typed'
    BY <1>0, <1>1, <2>1, <2>2, BecomeTyped DEF CorrectBegin, Typed, postingVars, signalVars
  <2> QED BY <1>1, <2>1, <2>2, <2>3, OtherStep DEF CorrectBegin, IInv
<1>2. ASSUME NEW s \in Staff, CorrectCommit(s) PROVE IInv'
  <2> DEFINE t == [Idle EXCEPT !.at = "asking", !.company = task[s].stamp]
  <2>1. s \in Processes /\ task[s].stamp \in Time
    BY <1>0 DEF Typed, Task, Processes
  <2>2. t \in Task /\ t.at = "asking" /\ Become(s, t)
    BY <1>2, <2>1, Basics DEF Task, Idle, CorrectCommit
  <2>3. companyAt' \in Time /\ recordAt' \in Time
    BY <1>0, <1>2, <2>1, NewestTyped DEF CorrectCommit, Typed
  <2>4. Typed'
    BY <1>0, <1>2, <2>1, <2>2, <2>3, BecomeTyped DEF CorrectCommit, Typed, postingVars, signalVars
  <2> QED BY <1>2, <2>1, <2>2, <2>4, OtherStep DEF CorrectCommit, IInv
<1>3. ASSUME PressScore \/ PressDetect PROVE IInv'
  <2>1. ScoreVersion(companyAt) \in Time /\ DetectVersion(companyAt) \in Time
    BY <1>0, NewestTyped DEF ScoreVersion, DetectVersion, Typed
  <2>2. scores' \in Requests /\ detects' \in Requests
    BY <1>0, <1>3, <2>1, RequestsTyped DEF PressScore, PressDetect, AskScore, AskDetect, Typed
  <2>3. Typed'
    BY <1>0, <1>3, <2>2 DEF PressScore, PressDetect, Typed, postingVars, signalVars
  <2>4. review' = review /\ task' = task
    BY <1>3 DEF PressScore, PressDetect
  <2> QED BY <2>3, <2>4 DEF IInv, InHand, OneApproves, At
<1> QED BY <1>1, <1>2, <1>3

-----------------------------------------------------------------------------
(* The theorem. *)

(* Every step keeps the invariant, and no step changes a decision. *)
LEMMA NextIInv ==
    ASSUME IInv, [Next]_vars
    PROVE  /\ IInv'
           /\ \A i \in Postings : review[i].status \in {"MATCHED", "DISMISSED"} =>
                review'[i].status = review[i].status
<1>1. CASE UNCHANGED vars
  BY <1>1 DEF vars, postingVars, signalVars, IInv, Typed, InHand, OneApproves, At
<1>2. ASSUME NEW w \in Workers,
             \/ CollectBegin(w) \/ PersistItem(w) \/ ReviewCandidate(w) \/ ReviewSave(w)
             \/ Sweep(w) \/ CrawlPage(w) \/ PagePostings(w)
             \/ DetectJob(w) \/ DetectAfter(w) \/ DetectCommit(w)
             \/ ScoreBegin(w) \/ ScoreCommit(w)
      PROVE  /\ IInv'
             /\ \A i \in Postings : review[i].status \in {"MATCHED", "DISMISSED"} =>
                  review'[i].status = review[i].status
  <2>1. IInv'
    BY <1>2, CollectSteps, ReviewCandidateStep, ReviewSaveStep, CrawlSteps, DetectSteps, ScoreSteps
  <2>2. CASE ReviewSave(w)
    BY <2>1, <2>2, ReviewSaveStep
  <2>3. CASE ReviewCandidate(w)
    <3>1. \A i \in Postings : review[i].status \notin {"NONE"} => review'[i] = review[i]
      BY <2>3 DEF ReviewCandidate, IInv, Typed, Reviews
    <3> QED BY <2>1, <3>1
  <2>4. CASE ~ ReviewSave(w) /\ ~ ReviewCandidate(w)
    <3>1. review' = review
      BY <1>2, <2>4 DEF CollectBegin, PersistItem, Sweep, CrawlPage, PagePostings, DetectJob,
                        DetectAfter, DetectCommit, ScoreBegin, ScoreCommit
    <3> QED BY <2>1, <3>1
  <2> QED BY <2>2, <2>3, <2>4
<1>3. ASSUME NEW s \in Staff,
             \/ ApproveBegin(s) \/ ApproveCommit(s) \/ EnqueueDetect(s) \/ Dismiss(s)
             \/ CorrectBegin(s) \/ CorrectCommit(s)
      PROVE  /\ IInv'
             /\ \A i \in Postings : review[i].status \in {"MATCHED", "DISMISSED"} =>
                  review'[i].status = review[i].status
  <2>1. IInv'
    BY <1>3, ApproveBeginStep, ApproveCommitStep, EndSteps, DismissStep, OtherStaffSteps DEF Processes
  <2>2. CASE ApproveCommit(s) \/ Dismiss(s)
    BY <2>1, <2>2, ApproveCommitStep, DismissStep
  <2>3. CASE ~ ApproveCommit(s) /\ ~ Dismiss(s)
    <3>1. review' = review
      BY <1>3, <2>3 DEF ApproveBegin, EnqueueDetect, CorrectBegin, CorrectCommit
    <3> QED BY <2>1, <3>1
  <2> QED BY <2>2, <2>3
<1>4. ASSUME NEW p \in Processes, EnqueueScore(p) \/ GiveUp(p)
      PROVE  IInv' /\ review' = review
  BY <1>4, EndSteps DEF EnqueueScore, GiveUp
<1>5. ASSUME PressScore \/ PressDetect
      PROVE  IInv' /\ review' = review
  BY <1>5, OtherStaffSteps DEF PressScore, PressDetect
<1> QED BY <1>1, <1>2, <1>3, <1>4, <1>5 DEF Next

(* What staff decided about a candidate stays decided, however many collections,
   approvals, dismissals and failures overlap. *)
THEOREM DecisionsAlwaysFinal == Spec => DecisionsAreFinal
<1>1. IInv /\ [Next]_vars => IInv'
  BY NextIInv
<1>2. IInv /\ [Next]_vars =>
        [\A i \in Postings : review[i].status \in {"MATCHED", "DISMISSED"} =>
           review'[i].status = review[i].status]_vars
  BY NextIInv
<1> QED BY InitIInv, <1>1, <1>2, PTL DEF Spec, DecisionsAreFinal
=============================================================================
