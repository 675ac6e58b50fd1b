------------------------------ MODULE RuleSets ------------------------------
(***************************************************************************)
(* The life of the scoring rule sets of one target (apps/scoring): cloning *)
(* the active set into a draft, editing the draft and its rules,           *)
(* publishing it, and scoring with the set that is published.              *)
(*                                                                         *)
(* Several web requests and score jobs run at once against PostgreSQL at   *)
(* READ COMMITTED.  A request reads rows, decides, and writes later; only  *)
(* clone_active_rule_set and publish_rule_set take row locks.              *)
(*                                                                         *)
(* A rule set is its configuration (formula, thresholds, tie order), which *)
(* is in the row of the set, and its rules, which are rows of their own.   *)
(* Of either only two things matter: which one it is, and whether          *)
(* validate_rule_set accepts it.                                           *)
(***************************************************************************)
EXTENDS Integers, FiniteSets

CONSTANTS
    Actors,         \* requests and score jobs that may run at once
    Contents,       \* configurations, and lists of rules
    Valid,          \* those that validate_rule_set accepts
    Seed,           \* the content of the set installed by migration 0002
    None,           \* no lock holder, no content
    MaxVersion,     \* bound: versions
    MaxSnapshots    \* bound: distinct score snapshots

ASSUME RuleSetsAssumption ==
    /\ Valid \subseteq Contents /\ Seed \in Valid
    /\ None \notin Contents /\ None \notin Actors
    /\ MaxVersion \in Nat \ {0} /\ MaxSnapshots \in Nat

VARIABLES
    \* the rows of rule_set, by version, and their rules
    status, active, config, rules,
    lock,           \* who holds the row of a version
    queued,         \* versions named by the queued score jobs
    snapshots,      \* what the score snapshots were computed from
    was,            \* history: the versions ever published
    \* the actors: where they are, the version and what they read of it
    pc, target, seen

rowVars == <<status, active, config, rules>>
actorVars == <<pc, target, seen>>
vars == <<rowVars, lock, queued, snapshots, was, actorVars>>

Versions == 1..MaxVersion
Exists(v) == status[v] # "NONE"
Drafts == {v \in Versions : status[v] = "DRAFT"}
Active == {v \in Versions : active[v]}
Held == {"creating", "validated"}

LocksMatch == \A u \in Actors, v \in Versions :
                lock[v] = u <=> pc[u] \in Held /\ target[u] = v

TypeOK ==
    /\ status \in [Versions -> {"NONE", "DRAFT", "PUBLISHED", "RETIRED"}]
    /\ active \in [Versions -> BOOLEAN]
    /\ config \in [Versions -> Contents \cup {None}]
    /\ rules \in [Versions -> Contents \cup {None}]
    /\ lock \in [Versions -> Actors \cup {None}]
    /\ queued \subseteq Versions /\ was \subseteq Versions
    /\ snapshots \subseteq [version : Versions, config : Contents, rules : Contents]
    /\ pc \in [Actors -> {"idle", "cloning", "form", "rule", "scoring"} \cup Held]
    /\ target \in [Actors -> 0..MaxVersion]
    /\ seen \in [Actors -> Contents \cup {None}]
    /\ LocksMatch

Init ==
    /\ status = [v \in Versions |-> IF v = 1 THEN "PUBLISHED" ELSE "NONE"]
    /\ active = [v \in Versions |-> v = 1]
    /\ config = [v \in Versions |-> IF v = 1 THEN Seed ELSE None]
    /\ rules = [v \in Versions |-> IF v = 1 THEN Seed ELSE None]
    /\ lock = [v \in Versions |-> None]
    /\ queued = {}
    /\ snapshots = {}
    /\ was = {1}
    /\ pc = [u \in Actors |-> "idle"]
    /\ target = [u \in Actors |-> 0]
    /\ seen = [u \in Actors |-> None]

Become(u, state, v, c) ==
    /\ pc' = [pc EXCEPT ![u] = state]
    /\ target' = [target EXCEPT ![u] = v]
    /\ seen' = [seen EXCEPT ![u] = c]

Return(u) == Become(u, "idle", 0, None)
KeepLock(v) == lock' = lock      \* mutant: the transaction is left open
Release(v) == lock' = [lock EXCEPT ![v] = None]

-----------------------------------------------------------------------------
(* clone_active_rule_set.  With a draft the call returns it and changes       *)
(* nothing.  select_for_update locks the rows that a query returns: the first *)
(* query of a target without a draft returns none, and locks nothing.         *)

CloneLook(u) ==
    /\ pc[u] = "idle" /\ Drafts = {}
    /\ Become(u, "cloning", 0, None)
    /\ UNCHANGED <<rowVars, lock, queued, snapshots, was>>

\* mutant: the active set is read without a lock
CloneReads(u) ==
    /\ pc[u] = "cloning"
    /\ \E v \in Active : Become(u, "creating", v, config[v])
    /\ UNCHANGED <<rowVars, lock, queued, snapshots, was>>

\* sets.get(active, PUBLISHED) waits for the row and locks it
CloneLock(u) ==
    /\ pc[u] = "cloning"
    /\ \E v \in Active : /\ status[v] = "PUBLISHED" /\ lock[v] = None
                         /\ lock' = [lock EXCEPT ![v] = u]
                         /\ Become(u, "creating", v, config[v])
    /\ UNCHANGED <<rowVars, queued, snapshots, was>>

\* No active set; or a publication retires the row waited for, and the new active
\* one is not in the snapshot of the query: DoesNotExist.
CloneFails(u) ==
    /\ pc[u] = "cloning"
    /\ Active = {} \/ \E t \in Actors : pc[t] = "validated"
    /\ Return(u)
    /\ UNCHANGED <<rowVars, lock, queued, snapshots, was>>

\* sets.aggregate(Max("version")) = n
Highest(n) == Exists(n) /\ \A w \in Versions : Exists(w) => w <= n

\* The next version is the highest one plus one; commit.
CloneCreate(u) ==
    LET v == target[u] IN
    /\ pc[u] = "creating"
    /\ \E n \in 1..MaxVersion - 1 :
         /\ Highest(n)
         /\ status' = [status EXCEPT ![n + 1] = "DRAFT"]
         /\ config' = [config EXCEPT ![n + 1] = seen[u]]
         /\ rules' = [rules EXCEPT ![n + 1] = rules[v]]
    /\ Release(v)
    /\ Return(u)
    /\ UNCHANGED <<active, queued, snapshots, was>>

-----------------------------------------------------------------------------
(* publish_rule_set *)

\* mutant: the draft is read without a lock
PublishReads(u, v) ==
    /\ pc[u] = "idle" /\ status[v] = "DRAFT" /\ config[v] \in Valid /\ rules[v] \in Valid
    /\ Become(u, "validated", v, None)
    /\ UNCHANGED <<rowVars, lock, queued, snapshots, was>>

\* Lock the draft and validate it.  Any other status, or an error, ends the call.
PublishLock(u, v) ==
    /\ pc[u] = "idle" /\ lock[v] = None
    /\ status[v] = "DRAFT" /\ config[v] \in Valid /\ rules[v] \in Valid
    /\ lock' = [lock EXCEPT ![v] = u]
    /\ Become(u, "validated", v, None)
    /\ UNCHANGED <<rowVars, queued, snapshots, was>>

\* mutant: the update of the old set forgets its status
RetireActive(v) ==
    /\ active' = [w \in Versions |-> w = v]
    /\ status' = [status EXCEPT ![v] = "PUBLISHED"]

\* the set that is active is retired, v takes its place
Replace(v) ==
    /\ active' = [w \in Versions |-> w = v]
    /\ status' = [w \in Versions |-> IF w = v THEN "PUBLISHED"
                                     ELSE IF active[w] THEN "RETIRED" ELSE status[w]]

\* mutant: the two updates are not one transaction
PublishHalf(u) ==
    /\ pc[u] = "validated"
    /\ active' = [w \in Versions |-> FALSE]
    /\ status' = [w \in Versions |-> IF active[w] THEN "RETIRED" ELSE status[w]]
    /\ Release(target[u])
    /\ Return(u)
    /\ UNCHANGED <<config, rules, queued, snapshots, was>>

\* The update waits for the row of the active set.
PublishCommit(u) ==
    LET v == target[u] IN
    /\ pc[u] = "validated"
    /\ \A w \in Active : lock[w] = None
    /\ Replace(v)
    /\ was' = was \cup {v}
    /\ Release(v)
    /\ Return(u)
    /\ UNCHANGED <<config, rules, queued, snapshots>>

\* Two publications at once: the update of the second does not see the set the
\* first made active, one_active_rule_set refuses its save, and all is undone.
PublishFails(u) ==
    /\ pc[u] = "validated"
    /\ \E t \in Actors \ {u} : pc[t] = "validated"
    /\ Release(target[u])
    /\ Return(u)
    /\ UNCHANGED <<rowVars, queued, snapshots, was>>

-----------------------------------------------------------------------------
(* rule_set_detail, scoring_rule_edit and scoring_rule_delete: the status is *)
(* read when the request starts, and the row is written when it ends.        *)

FormLoad(u, v) ==
    /\ pc[u] = "idle" /\ status[v] = "DRAFT"
    /\ Become(u, "form", v, None)
    /\ UNCHANGED <<rowVars, lock, queued, snapshots, was>>

\* form.save() writes every column of the row as it was loaded, except the
\* edited configuration: status DRAFT, active false.
FormSave(u) ==
    LET v == target[u] IN
    /\ pc[u] = "form" /\ lock[v] = None
    /\ \E c \in Contents : config' = [config EXCEPT ![v] = c]
    /\ status' = [status EXCEPT ![v] = "DRAFT"]
    /\ active' = [active EXCEPT ![v] = FALSE]
    /\ Return(u)
    /\ UNCHANGED <<rules, lock, queued, snapshots, was>>

RuleLoad(u, v) ==
    /\ pc[u] = "idle" /\ status[v] = "DRAFT"
    /\ Become(u, "rule", v, None)
    /\ UNCHANGED <<rowVars, lock, queued, snapshots, was>>

\* rule.save() or rule.delete(): a change of a rule row needs no lock on the set
RuleSave(u) ==
    /\ pc[u] = "rule"
    /\ \E c \in Contents : rules' = [rules EXCEPT ![target[u]] = c]
    /\ Return(u)
    /\ UNCHANGED <<status, active, config, lock, queued, snapshots, was>>

-----------------------------------------------------------------------------
(* enqueue_company_score, and the CALCULATE_SCORE job *)

\* the active published set is named in the payload; without one it raises
EnqueueScore ==
    /\ \E v \in Active : status[v] = "PUBLISHED" /\ queued' = queued \cup {v}
    /\ UNCHANGED <<rowVars, lock, snapshots, was, actorVars>>

ScoreAny(u) ==    \* mutant: the status of the set is not checked
    /\ pc[u] = "idle"
    /\ \E v \in queued : Become(u, "scoring", v, config[v])
    /\ UNCHANGED <<rowVars, lock, queued, snapshots, was>>

\* the job loads the set; calculate_score refuses one that is not published
ScoreLoad(u) ==
    /\ pc[u] = "idle"
    /\ \E v \in queued : status[v] = "PUBLISHED" /\ Become(u, "scoring", v, config[v])
    /\ UNCHANGED <<rowVars, lock, queued, snapshots, was>>

\* the set of a queued job was replaced: every attempt fails, the job is dropped
ScoreRefused ==
    /\ \E v \in queued : status[v] # "PUBLISHED" /\ queued' = queued \ {v}
    /\ UNCHANGED <<rowVars, lock, snapshots, was, actorVars>>

\* the rules are a query of their own
ScoreSave(u) ==
    LET v == target[u] IN
    /\ pc[u] = "scoring"
    /\ snapshots' = snapshots \cup {[version |-> v, config |-> seen[u], rules |-> rules[v]]}
    /\ Cardinality(snapshots') <= MaxSnapshots
    /\ queued' = queued \ {v}
    /\ Return(u)
    /\ UNCHANGED <<rowVars, lock, was>>

Next ==
    \/ \E u \in Actors :
         \/ CloneLook(u) \/ CloneLock(u) \/ CloneFails(u) \/ CloneCreate(u)
         \/ \E v \in Versions : PublishLock(u, v) \/ FormLoad(u, v) \/ RuleLoad(u, v)
         \/ PublishCommit(u) \/ PublishFails(u)
         \/ FormSave(u) \/ RuleSave(u)
         \/ ScoreLoad(u) \/ ScoreSave(u)
    \/ EnqueueScore \/ ScoreRefused

Spec == Init /\ [][Next]_vars
-----------------------------------------------------------------------------
(* Properties *)

\* A set is published exactly while it is the active one, and no two are, through
\* publications that overlap and forms that write back a status they read before.
\* calculate_score and the clone look for both columns, and get() wants one row.
ActiveIffPublished ==
    /\ \A v \in Versions : active[v] <=> status[v] = "PUBLISHED"
    /\ \A v, w \in Active : v = w

\* What a publication validated is what it publishes, as far as the row of the set
\* goes: publish_rule_set and a form save exclude each other by the row lock.
PublishedConfigIsValid == \A v \in Versions : status[v] = "PUBLISHED" => config[v] \in Valid

\* Clones that all saw no draft are put in a row by the lock on the active set:
\* only one at a time counts the versions and creates the next.
ClonesTakeTurns ==
    \A t, u \in Actors : pc[t] = "creating" /\ pc[u] = "creating" => t = u

\* A target can lose its active set, by a stale form only, and then the set it lost
\* is there as a draft that can be published again.
TargetIsRecoverable == Active = {} => Drafts \cap was # {}

\* No snapshot rests on a configuration that was never validated, whatever became
\* of the set between the enqueue, the load and the save.
SnapshotsUseValidConfig == \A s \in snapshots : s.config \in Valid
=============================================================================
