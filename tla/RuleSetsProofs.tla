--------------------------- MODULE RuleSetsProofs ---------------------------
(***************************************************************************)
(* Theorems about RuleSets for every number of actors, versions, contents  *)
(* and snapshots.                                                          *)
(***************************************************************************)
EXTENDS RuleSets, TLAPS

(* The typing of TypeOK, without the correspondence of locks and actors. *)
Types ==
    /\ status \in [Versions -> {"NONE", "DRAFT", "PUBLISHED", "RETIRED"}]
    /\ active \in [Versions -> BOOLEAN]
    /\ config \in [Versions -> Contents \cup {None}]
    /\ rules \in [Versions -> Contents \cup {None}]
    /\ lock \in [Versions -> Actors \cup {None}]
    /\ queued \subseteq Versions /\ was \subseteq Versions
    /\ snapshots \subseteq [version : Versions, config : Contents, rules : Contents]
    /\ pc \in [Actors -> {"idle", "cloning", "form", "rule", "scoring"} \cup Held]
    /\ target \in [Actors -> 0..MaxVersion]
    /\ seen \in [Actors -> Contents \cup {None}]

(* A version that exists has a configuration and rules. *)
Filled == \A v \in Versions : Exists(v) => config[v] \in Contents /\ rules[v] \in Contents

(* What an actor knows, because of the lock it holds or of what it checked. *)
Knows(u) ==
    /\ pc[u] \in {"form", "rule", "scoring"} \cup Held =>
         target[u] \in Versions /\ Exists(target[u])
    /\ pc[u] = "creating" => active[target[u]] /\ seen[u] \in Contents
    /\ pc[u] = "validated" => status[target[u]] = "DRAFT" /\ config[target[u]] \in Valid
    /\ pc[u] = "scoring" => seen[u] \in Valid

ActorsKnow == \A u \in Actors : Knows(u)

ActiveWasPublished == \A v \in Active : v \in was

IInv ==
    /\ Types
    /\ LocksMatch
    /\ Filled
    /\ ActorsKnow
    /\ ActiveIffPublished
    /\ ActiveWasPublished
    /\ PublishedConfigIsValid
    /\ TargetIsRecoverable
    /\ SnapshotsUseValidConfig

(* The type invariant is the types and the match of the locks. *)
LEMMA Typing == TypeOK <=> Types /\ LocksMatch
BY DEF TypeOK, Types

(* The seed is published, active and valid. *)
LEMMA Initially == Init => IInv
<1> SUFFICES ASSUME Init PROVE IInv
  OBVIOUS
<1> USE RuleSetsAssumption DEF Init
<1>1. Types
  BY DEF Types, Versions, Held
<1>2. 1 \in Versions
  BY DEF Versions
<1>3. LocksMatch
  BY DEF LocksMatch, Held
<1>4. Filled
  BY DEF Filled, Exists
<1>5. ActorsKnow
  BY DEF ActorsKnow, Knows, Held
<1>6. ActiveIffPublished
  BY DEF ActiveIffPublished, Active
<1>7. ActiveWasPublished
  BY DEF ActiveWasPublished, Active
<1>8. PublishedConfigIsValid
  BY DEF PublishedConfigIsValid
<1>9. TargetIsRecoverable
  BY <1>2 DEF TargetIsRecoverable, Active
<1>10. SnapshotsUseValidConfig
  BY DEF SnapshotsUseValidConfig
<1> QED BY <1>1, <1>3, <1>4, <1>5, <1>6, <1>7, <1>8, <1>9, <1>10 DEF IInv

(* The parts of the invariant that speak of the rows only. *)
RowsInv ==
    /\ Filled
    /\ ActiveIffPublished
    /\ ActiveWasPublished
    /\ PublishedConfigIsValid
    /\ TargetIsRecoverable

(* A step that leaves the rows and the history of publications alone keeps them. *)
LEMMA RowsKept ==
    ASSUME IInv, UNCHANGED <<rowVars, was>>
    PROVE  RowsInv'
BY DEF IInv, RowsInv, rowVars, Filled, Exists, ActiveIffPublished, Active, ActiveWasPublished,
       PublishedConfigIsValid, TargetIsRecoverable, Drafts, Versions

(* An actor that becomes something leaves the others as they were. *)
LEMMA BecomeTyped ==
    ASSUME IInv, NEW u \in Actors, NEW v \in 0..MaxVersion, NEW c \in Contents \cup {None},
           NEW s \in {"idle", "cloning", "form", "rule", "scoring"} \cup Held,
           Become(u, s, v, c)
    PROVE  /\ pc' \in [Actors -> {"idle", "cloning", "form", "rule", "scoring"} \cup Held]
           /\ target' \in [Actors -> 0..MaxVersion]
           /\ seen' \in [Actors -> Contents \cup {None}]
           /\ pc'[u] = s /\ target'[u] = v /\ seen'[u] = c
           /\ \A t \in Actors \ {u} : pc'[t] = pc[t] /\ target'[t] = target[t] /\ seen'[t] = seen[t]
<1> USE DEF IInv, Types, Become
<1>1. pc' \in [Actors -> {"idle", "cloning", "form", "rule", "scoring"} \cup Held]
  OBVIOUS
<1>2. target' \in [Actors -> 0..MaxVersion]
  OBVIOUS
<1>3. seen' \in [Actors -> Contents \cup {None}]
  OBVIOUS
<1>4. /\ pc'[u] = s /\ target'[u] = v /\ seen'[u] = c
      /\ \A t \in Actors \ {u} : pc'[t] = pc[t] /\ target'[t] = target[t] /\ seen'[t] = seen[t]
  OBVIOUS
<1> QED BY <1>1, <1>2, <1>3, <1>4

(* The same for a call that ends. *)
LEMMA ReturnTyped ==
    ASSUME IInv, NEW u \in Actors, Return(u)
    PROVE  /\ pc' \in [Actors -> {"idle", "cloning", "form", "rule", "scoring"} \cup Held]
           /\ target' \in [Actors -> 0..MaxVersion]
           /\ seen' \in [Actors -> Contents \cup {None}]
           /\ pc'[u] = "idle"
           /\ \A t \in Actors \ {u} : pc'[t] = pc[t] /\ target'[t] = target[t] /\ seen'[t] = seen[t]
<1>1. pc' = [pc EXCEPT ![u] = "idle"]
  BY DEF Return, Become
<1>2. target' = [target EXCEPT ![u] = 0]
  BY DEF Return, Become
<1>3. seen' = [seen EXCEPT ![u] = None]
  BY DEF Return, Become
<1>4. pc \in [Actors -> {"idle", "cloning", "form", "rule", "scoring"} \cup Held]
      /\ target \in [Actors -> 0..MaxVersion] /\ seen \in [Actors -> Contents \cup {None}]
  BY DEF IInv, Types
<1>5. pc' \in [Actors -> {"idle", "cloning", "form", "rule", "scoring"} \cup Held]
  BY <1>1, <1>4
<1>6. target' \in [Actors -> 0..MaxVersion]
  BY <1>2, <1>4, RuleSetsAssumption
<1>7. seen' \in [Actors -> Contents \cup {None}]
  BY <1>3, <1>4
<1>8. pc'[u] = "idle"
  BY <1>1, <1>4
<1>9. \A t \in Actors \ {u} : pc'[t] = pc[t] /\ target'[t] = target[t] /\ seen'[t] = seen[t]
  BY <1>1, <1>2, <1>3, <1>4
<1> QED BY <1>5, <1>6, <1>7, <1>8, <1>9

(* The others know what they knew while the rows stay as they are. *)
LEMMA OthersKnow ==
    ASSUME IInv, UNCHANGED rowVars, NEW t \in Actors,
           pc'[t] = pc[t], target'[t] = target[t], seen'[t] = seen[t]
    PROVE  Knows(t)'
BY DEF IInv, ActorsKnow, Knows, rowVars, Exists, Versions, Held

(* A step without locks: the actor held none, takes none and writes no row. *)
LEMMA QuietStep ==
    ASSUME IInv, NEW u \in Actors, NEW v \in 0..MaxVersion, NEW c \in Contents \cup {None},
           NEW s \in {"idle", "cloning", "form", "rule", "scoring"},
           pc[u] \notin Held, Become(u, s, v, c), Knows(u)',
           UNCHANGED <<rowVars, lock, snapshots, was>>, queued' \subseteq Versions
    PROVE  IInv'
<1>0. s \in {"idle", "cloning", "form", "rule", "scoring"} \cup Held /\ s \notin Held
  BY DEF Held
<1>1. /\ pc' \in [Actors -> {"idle", "cloning", "form", "rule", "scoring"} \cup Held]
      /\ target' \in [Actors -> 0..MaxVersion]
      /\ seen' \in [Actors -> Contents \cup {None}]
      /\ pc'[u] = s
      /\ \A t \in Actors \ {u} : pc'[t] = pc[t] /\ target'[t] = target[t] /\ seen'[t] = seen[t]
  BY <1>0, BecomeTyped
<1>2. Types'
  BY <1>1 DEF IInv, Types, rowVars, Versions, Held
<1>3. LocksMatch'
  BY <1>0, <1>1 DEF IInv, LocksMatch, Versions, Held
<1>4. RowsInv'
  BY RowsKept
<1>5. ActorsKnow'
  BY <1>1, OthersKnow DEF ActorsKnow
<1>6. SnapshotsUseValidConfig'
  BY DEF IInv, SnapshotsUseValidConfig
<1> QED BY <1>2, <1>3, <1>4, <1>5, <1>6 DEF IInv, RowsInv

(* A step that locks a row: it was free, and the actor held none. *)
LEMMA LockStep ==
    ASSUME IInv, NEW u \in Actors, NEW v \in Versions, NEW c \in Contents \cup {None},
           NEW s \in Held,
           pc[u] \notin Held, lock[v] = None, Become(u, s, v, c), Knows(u)',
           lock' = [lock EXCEPT ![v] = u],
           UNCHANGED <<rowVars, snapshots, was, queued>>
    PROVE  IInv'
<1>0. v \in 0..MaxVersion /\ s \in {"idle", "cloning", "form", "rule", "scoring"} \cup Held
  BY RuleSetsAssumption DEF Versions
<1>1. /\ pc' \in [Actors -> {"idle", "cloning", "form", "rule", "scoring"} \cup Held]
      /\ target' \in [Actors -> 0..MaxVersion]
      /\ seen' \in [Actors -> Contents \cup {None}]
      /\ pc'[u] = s /\ target'[u] = v
      /\ \A t \in Actors \ {u} : pc'[t] = pc[t] /\ target'[t] = target[t] /\ seen'[t] = seen[t]
  BY <1>0, BecomeTyped
<1>2. lock' \in [Versions -> Actors \cup {None}]
  BY DEF IInv, Types
<1>3. Types'
  BY <1>1, <1>2 DEF IInv, Types, rowVars, Versions, Held
<1>4. LocksMatch'
  <2> SUFFICES ASSUME NEW t \in Actors, NEW w \in Versions
               PROVE  lock'[w] = t <=> pc'[t] \in Held /\ target'[t] = w
    BY DEF LocksMatch, Versions, Held
  <2>1. lock[w] = t <=> pc[t] \in Held /\ target[t] = w
    BY DEF IInv, LocksMatch
  <2>2. lock[v] # t
    BY RuleSetsAssumption
  <2>3. lock'[w] = IF w = v THEN u ELSE lock[w]
    BY DEF IInv, Types
  <2>4. CASE t = u
    BY <1>1, <2>1, <2>3, <2>4
  <2>5. CASE t # u
    BY <1>1, <2>1, <2>2, <2>3, <2>5, RuleSetsAssumption
  <2> QED BY <2>4, <2>5
<1>5. RowsInv'
  BY RowsKept
<1>6. ActorsKnow'
  BY <1>1, OthersKnow DEF ActorsKnow
<1>7. SnapshotsUseValidConfig'
  BY DEF IInv, SnapshotsUseValidConfig
<1> QED BY <1>3, <1>4, <1>5, <1>6, <1>7 DEF IInv, RowsInv

(* A request that ends gives its lock back; the others keep theirs. *)
LEMMA ReleaseStep ==
    ASSUME IInv, NEW u \in Actors, pc[u] \in Held, Release(target[u]), Return(u)
    PROVE  /\ lock' \in [Versions -> Actors \cup {None}]
           /\ pc' \in [Actors -> {"idle", "cloning", "form", "rule", "scoring"} \cup Held]
           /\ target' \in [Actors -> 0..MaxVersion]
           /\ seen' \in [Actors -> Contents \cup {None}]
           /\ LocksMatch'
           /\ Knows(u)'
           /\ \A t \in Actors \ {u} : pc'[t] = pc[t] /\ target'[t] = target[t] /\ seen'[t] = seen[t]
<1>2. /\ pc' \in [Actors -> {"idle", "cloning", "form", "rule", "scoring"} \cup Held]
      /\ target' \in [Actors -> 0..MaxVersion]
      /\ seen' \in [Actors -> Contents \cup {None}]
      /\ pc'[u] = "idle"
      /\ \A t \in Actors \ {u} : pc'[t] = pc[t] /\ target'[t] = target[t] /\ seen'[t] = seen[t]
  BY ReturnTyped
<1>3. lock' \in [Versions -> Actors \cup {None}]
  BY DEF IInv, Types, Release
<1>4. LocksMatch'
  <2> SUFFICES ASSUME NEW t \in Actors, NEW w \in Versions
               PROVE  lock'[w] = t <=> pc'[t] \in Held /\ target'[t] = w
    BY DEF LocksMatch, Versions, Held
  <2>1. lock[w] = t <=> pc[t] \in Held /\ target[t] = w
    BY DEF IInv, LocksMatch
  <2>2. lock[w] = u <=> target[u] = w
    BY DEF IInv, LocksMatch
  <2>3. lock'[w] = IF w = target[u] THEN None ELSE lock[w]
    BY DEF IInv, Types, Release
  <2>4. "idle" \notin Held /\ None # t
    BY RuleSetsAssumption DEF Held
  <2>5. CASE t = u
    BY <1>2, <2>2, <2>3, <2>4, <2>5
  <2>6. CASE t # u
    BY <1>2, <2>1, <2>2, <2>3, <2>4, <2>6
  <2> QED BY <2>5, <2>6
<1>5. Knows(u)'
  BY <1>2 DEF Knows, Held
<1> QED BY <1>2, <1>3, <1>4, <1>5

(* A clone that finds no draft, and locks nothing. *)
LEMMA CloneLookInv == ASSUME IInv, NEW u \in Actors, CloneLook(u) PROVE IInv'
<1>1. pc[u] \notin Held /\ "cloning" \in {"idle", "cloning", "form", "rule", "scoring"}
      /\ 0 \in 0..MaxVersion
  BY RuleSetsAssumption DEF CloneLook, Held
<1>2. Knows(u)'
  BY <1>1, BecomeTyped DEF Knows, CloneLook, Held
<1> QED BY <1>1, <1>2, QuietStep DEF CloneLook, IInv, Types, Versions

(* A clone that finds no active set. *)
LEMMA CloneFailsInv == ASSUME IInv, NEW u \in Actors, CloneFails(u) PROVE IInv'
<1>1. pc[u] \notin Held /\ "idle" \in {"idle", "cloning", "form", "rule", "scoring"}
      /\ 0 \in 0..MaxVersion
  BY RuleSetsAssumption DEF CloneFails, Held
<1>2. Knows(u)'
  BY <1>1, BecomeTyped DEF Knows, CloneFails, Return, Held
<1> QED BY <1>1, <1>2, QuietStep DEF CloneFails, Return, IInv, Types, Versions

(* A form that is loaded. *)
LEMMA FormLoadInv ==
    ASSUME IInv, NEW u \in Actors, NEW v \in Versions, FormLoad(u, v) PROVE IInv'
<1>1. pc[u] \notin Held /\ "form" \in {"idle", "cloning", "form", "rule", "scoring"}
      /\ v \in 0..MaxVersion
  BY RuleSetsAssumption DEF FormLoad, Held, Versions
<1>2. Knows(u)'
  BY <1>1, BecomeTyped DEF Knows, FormLoad, Held, Exists, Versions, rowVars
<1> QED BY <1>1, <1>2, QuietStep DEF FormLoad, IInv, Types, Versions

(* A form of a rule that is loaded. *)
LEMMA RuleLoadInv ==
    ASSUME IInv, NEW u \in Actors, NEW v \in Versions, RuleLoad(u, v) PROVE IInv'
<1>1. pc[u] \notin Held /\ "rule" \in {"idle", "cloning", "form", "rule", "scoring"}
      /\ v \in 0..MaxVersion
  BY RuleSetsAssumption DEF RuleLoad, Held, Versions
<1>2. Knows(u)'
  BY <1>1, BecomeTyped DEF Knows, RuleLoad, Held, Exists, Versions, rowVars
<1> QED BY <1>1, <1>2, QuietStep DEF RuleLoad, IInv, Types, Versions

(* The set is published when it is loaded: what the actor read of it is valid. *)
LEMMA ScoreLoadInv == ASSUME IInv, NEW u \in Actors, ScoreLoad(u) PROVE IInv'
<1>1. PICK v \in queued : status[v] = "PUBLISHED" /\ Become(u, "scoring", v, config[v])
  BY DEF ScoreLoad
<1>2. v \in Versions /\ config[v] \in Valid /\ config[v] \in Contents \cup {None}
  BY <1>1, RuleSetsAssumption DEF IInv, Types, PublishedConfigIsValid
<1>3. pc[u] \notin Held /\ "scoring" \in {"idle", "cloning", "form", "rule", "scoring"}
      /\ v \in 0..MaxVersion
  BY <1>2, RuleSetsAssumption DEF ScoreLoad, Held, Versions
<1>4. Knows(u)'
  BY <1>1, <1>2, <1>3, BecomeTyped DEF ScoreLoad, Knows, Held, Exists, Versions, rowVars
<1> QED BY <1>1, <1>2, <1>3, <1>4, QuietStep DEF ScoreLoad, IInv, Types, Versions

(* A clone that gets the row, if it is still active. *)
LEMMA CloneLockInv == ASSUME IInv, NEW u \in Actors, CloneLock(u) PROVE IInv'
<1>1. PICK v \in Active : /\ status[v] = "PUBLISHED" /\ lock[v] = None
                          /\ lock' = [lock EXCEPT ![v] = u]
                          /\ Become(u, "creating", v, config[v])
  BY DEF CloneLock
<1>2. v \in Versions /\ config[v] \in Contents /\ active[v] /\ v \in 0..MaxVersion
  BY <1>1, RuleSetsAssumption DEF IInv, Active, Versions, Filled, Exists
<1>3. pc[u] \notin Held /\ "creating" \in Held
      /\ UNCHANGED <<rowVars, queued, snapshots, was>>
  BY DEF CloneLock, Held
<1>4. Knows(u)'
  BY <1>1, <1>2, <1>3, BecomeTyped DEF Knows, Held, Exists, Versions, rowVars
<1> QED BY <1>1, <1>2, <1>3, <1>4, LockStep

(* A publication that locks a valid draft. *)
LEMMA PublishLockInv ==
    ASSUME IInv, NEW u \in Actors, NEW v \in Versions, PublishLock(u, v) PROVE IInv'
<1>1. pc[u] \notin Held /\ "validated" \in Held /\ v \in 0..MaxVersion
  BY RuleSetsAssumption DEF PublishLock, Held, Versions
<1>2. Knows(u)'
  BY <1>1, BecomeTyped DEF PublishLock, Knows, Held, Exists, Versions, rowVars
<1> QED BY <1>1, <1>2, LockStep DEF PublishLock

(* A publication that is refused. *)
LEMMA PublishFailsInv == ASSUME IInv, NEW u \in Actors, PublishFails(u) PROVE IInv'
<1>1. /\ pc[u] \in Held /\ Release(target[u]) /\ Return(u)
      /\ UNCHANGED <<rowVars, queued, snapshots, was>>
  BY DEF PublishFails, Held
<1>2. Types'
  BY <1>1, ReleaseStep DEF IInv, Types, rowVars, Versions, Held
<1>3. ActorsKnow'
  BY <1>1, ReleaseStep, OthersKnow DEF ActorsKnow
<1>4. LocksMatch'
  BY <1>1, ReleaseStep
<1>5. RowsInv'
  BY <1>1, RowsKept
<1>6. SnapshotsUseValidConfig'
  BY <1>1 DEF IInv, SnapshotsUseValidConfig
<1> QED BY <1>2, <1>3, <1>4, <1>5, <1>6 DEF IInv, RowsInv

(* The row that is created is new: the version did not exist. *)
LEMMA CloneCreateInv == ASSUME IInv, NEW u \in Actors, CloneCreate(u) PROVE IInv'
<1> DEFINE v == target[u]
<1>1. PICK n \in 1..MaxVersion - 1 :
         /\ Highest(n)
         /\ status' = [status EXCEPT ![n + 1] = "DRAFT"]
         /\ config' = [config EXCEPT ![n + 1] = seen[u]]
         /\ rules' = [rules EXCEPT ![n + 1] = rules[v]]
  BY DEF CloneCreate
<1>2. /\ pc[u] = "creating" /\ pc[u] \in Held /\ Release(target[u]) /\ Return(u)
      /\ UNCHANGED <<active, queued, snapshots, was>>
  BY DEF CloneCreate, Held
<1>3. /\ n + 1 \in Versions /\ ~ Exists(n + 1)
  BY <1>1, RuleSetsAssumption DEF Highest, Versions
<1>4. v \in Versions /\ Exists(v) /\ seen[u] \in Contents /\ rules[v] \in Contents
  BY <1>2 DEF IInv, ActorsKnow, Knows, Filled
<1>5. \A w \in Versions : Exists(w) => /\ status'[w] = status[w] /\ config'[w] = config[w]
                                       /\ rules'[w] = rules[w]
  BY <1>1, <1>3 DEF IInv, Types
<1>6. /\ status'[n + 1] = "DRAFT" /\ config'[n + 1] = seen[u] /\ rules'[n + 1] = rules[v]
      /\ \A w \in Versions : ~ Exists(w) /\ w # n + 1 => status'[w] = "NONE"
  BY <1>1, <1>3 DEF IInv, Types, Exists
<1>7. Types'
  <2>1. status' \in [Versions -> {"NONE", "DRAFT", "PUBLISHED", "RETIRED"}]
    BY <1>1 DEF IInv, Types
  <2>2. config' \in [Versions -> Contents \cup {None}]
    BY <1>1, <1>4 DEF IInv, Types
  <2>3. rules' \in [Versions -> Contents \cup {None}]
    BY <1>1, <1>4 DEF IInv, Types
  <2> QED BY <1>2, <2>1, <2>2, <2>3, ReleaseStep DEF IInv, Types, Versions, Held
<1>8. LocksMatch'
  BY <1>2, ReleaseStep
<1>9. Filled'
  BY <1>3, <1>4, <1>5, <1>6 DEF IInv, Filled, Exists, Versions
<1>10. ActorsKnow'
  <2>1. ASSUME NEW t \in Actors, t # u PROVE Knows(t)'
    <3>1. Knows(t)
      BY DEF IInv, ActorsKnow
    <3>2. pc'[t] = pc[t] /\ target'[t] = target[t] /\ seen'[t] = seen[t]
      BY <1>2, <2>1, ReleaseStep
    <3> QED BY <1>2, <1>5, <3>1, <3>2 DEF Knows, Exists, Versions, Held
  <2> QED BY <1>2, <2>1, ReleaseStep DEF ActorsKnow
<1>11. ActiveIffPublished'
  <2>1. \A w \in Versions : active'[w] <=> status'[w] = "PUBLISHED"
    BY <1>2, <1>3, <1>5, <1>6 DEF IInv, ActiveIffPublished, Exists
  <2> QED BY <1>2, <2>1 DEF IInv, ActiveIffPublished, Active, Versions
<1>12. ActiveWasPublished'
  BY <1>2 DEF IInv, ActiveWasPublished, Active, Versions
<1>13. PublishedConfigIsValid'
  BY <1>3, <1>5, <1>6 DEF IInv, PublishedConfigIsValid, Exists, Versions
<1>14. TargetIsRecoverable'
  BY <1>2, <1>5 DEF IInv, TargetIsRecoverable, Active, Drafts, Exists, Versions
<1>15. SnapshotsUseValidConfig'
  BY <1>2 DEF IInv, SnapshotsUseValidConfig
<1> QED BY <1>7, <1>8, <1>9, <1>10, <1>11, <1>12, <1>13, <1>14, <1>15 DEF IInv

(* The sets that are retired are not the ones others hold a lock on. *)
LEMMA PublishCommitInv == ASSUME IInv, NEW u \in Actors, PublishCommit(u) PROVE IInv'
<1> DEFINE v == target[u]
<1>1. /\ pc[u] = "validated" /\ pc[u] \in Held /\ Release(v) /\ Return(u) /\ Replace(v)
      /\ was' = was \cup {v}
      /\ \A w \in Active : lock[w] = None
      /\ UNCHANGED <<config, rules, queued, snapshots>>
  BY DEF PublishCommit, Held
<1>2. v \in Versions /\ status[v] = "DRAFT" /\ config[v] \in Valid /\ Exists(v)
  BY <1>1 DEF IInv, ActorsKnow, Knows
<1>3. \A w \in Versions :
         /\ active'[w] = (w = v)
         /\ status'[w] = IF w = v THEN "PUBLISHED" ELSE IF active[w] THEN "RETIRED" ELSE status[w]
  BY <1>1 DEF Replace
<1>4. Types'
  <2>1. status' \in [Versions -> {"NONE", "DRAFT", "PUBLISHED", "RETIRED"}]
    BY <1>1 DEF IInv, Types, Replace
  <2>2. active' \in [Versions -> BOOLEAN]
    BY <1>1, Zenon DEF Replace
  <2> QED BY <1>1, <1>2, <2>1, <2>2, ReleaseStep DEF IInv, Types, Versions, Held
<1>5. LocksMatch'
  BY <1>1, ReleaseStep
<1>6. Filled'
  BY <1>1, <1>2, <1>3 DEF IInv, Types, Filled, Exists, ActiveIffPublished, Versions
<1>7. ActorsKnow'
  <2>1. ASSUME NEW t \in Actors, t # u PROVE Knows(t)'
    <3>1. Knows(t)
      BY DEF IInv, ActorsKnow
    <3>2. pc'[t] = pc[t] /\ target'[t] = target[t] /\ seen'[t] = seen[t]
      BY <1>1, <2>1, ReleaseStep
    <3>3. pc[t] # "creating"
      <4> SUFFICES ASSUME pc[t] = "creating" PROVE FALSE
        OBVIOUS
      <4>1. target[t] \in Active /\ target[t] \in Versions
        BY <3>1 DEF Knows, Held, Active
      <4>2. lock[target[t]] = t
        BY <4>1 DEF IInv, LocksMatch, Held
      <4> QED BY <1>1, <4>1, <4>2, RuleSetsAssumption
    <3>4. ASSUME pc[t] = "validated" PROVE target[t] # v /\ ~ active[target[t]]
      <4>1. target[t] \in Versions /\ status[target[t]] = "DRAFT"
        BY <3>1, <3>4 DEF Knows, Held
      <4>2. lock[v] = u /\ lock[target[t]] = t
        BY <1>1, <1>2, <3>4, <4>1 DEF IInv, LocksMatch, Held
      <4> QED BY <2>1, <4>1, <4>2 DEF IInv, ActiveIffPublished
    <3> QED BY <1>1, <1>3, <3>1, <3>2, <3>3, <3>4 DEF Knows, Exists, Versions, Held
  <2> QED BY <1>1, <2>1, ReleaseStep DEF ActorsKnow
<1>8. ActiveIffPublished'
  BY <1>2, <1>3 DEF IInv, ActiveIffPublished, Active, Versions
<1>9. ActiveWasPublished'
  BY <1>1, <1>3 DEF ActiveWasPublished, Active, Versions
<1>10. PublishedConfigIsValid'
  BY <1>1, <1>2, <1>3 DEF IInv, PublishedConfigIsValid, Versions
<1>11. TargetIsRecoverable'
  BY <1>2, <1>3 DEF TargetIsRecoverable, Active, Versions
<1>12. SnapshotsUseValidConfig'
  BY <1>1 DEF IInv, SnapshotsUseValidConfig
<1> QED BY <1>4, <1>5, <1>6, <1>7, <1>8, <1>9, <1>10, <1>11, <1>12 DEF IInv

(* A form that is saved turns its set into a draft.  If that was the active set,  *)
(* it had been published, and is the draft the target can recover from.           *)
LEMMA FormSaveInv == ASSUME IInv, NEW u \in Actors, FormSave(u) PROVE IInv'
<1> DEFINE v == target[u]
<1>1. PICK c \in Contents : config' = [config EXCEPT ![v] = c]
  BY DEF FormSave
<1>2. /\ pc[u] = "form" /\ pc[u] \notin Held /\ lock[v] = None
      /\ status' = [status EXCEPT ![v] = "DRAFT"]
      /\ active' = [active EXCEPT ![v] = FALSE]
      /\ Return(u)
      /\ UNCHANGED <<rules, lock, queued, snapshots, was>>
  BY DEF FormSave, Held
<1>3. v \in Versions /\ Exists(v)
  BY <1>2 DEF IInv, ActorsKnow, Knows
<1>4. \A w \in Versions :
         /\ active'[w] = IF w = v THEN FALSE ELSE active[w]
         /\ status'[w] = IF w = v THEN "DRAFT" ELSE status[w]
         /\ config'[w] = IF w = v THEN c ELSE config[w]
  BY <1>1, <1>2 DEF IInv, Types
<1>5. /\ "idle" \in {"idle", "cloning", "form", "rule", "scoring"} \cup Held /\ "idle" \notin Held
      /\ 0 \in 0..MaxVersion
  BY RuleSetsAssumption DEF Held
<1>6. /\ pc' \in [Actors -> {"idle", "cloning", "form", "rule", "scoring"} \cup Held]
      /\ target' \in [Actors -> 0..MaxVersion]
      /\ seen' \in [Actors -> Contents \cup {None}]
      /\ pc'[u] = "idle"
      /\ \A t \in Actors \ {u} : pc'[t] = pc[t] /\ target'[t] = target[t] /\ seen'[t] = seen[t]
  BY <1>2, ReturnTyped
<1>7. Types'
  <2>1. status' \in [Versions -> {"NONE", "DRAFT", "PUBLISHED", "RETIRED"}]
    BY <1>2 DEF IInv, Types
  <2>2. active' \in [Versions -> BOOLEAN]
    BY <1>2, Zenon DEF IInv, Types
  <2>3. config' \in [Versions -> Contents \cup {None}]
    BY <1>1 DEF IInv, Types
  <2> QED BY <1>2, <1>6, <2>1, <2>2, <2>3 DEF IInv, Types, Versions, Held
<1>8. LocksMatch'
  BY <1>2, <1>5, <1>6 DEF IInv, LocksMatch, Versions, Held
<1>9. Filled'
  BY <1>2, <1>3, <1>4 DEF IInv, Filled, Exists, Versions
<1>10. ActorsKnow'
  <2>1. ASSUME NEW t \in Actors, t # u PROVE Knows(t)'
    <3>1. Knows(t)
      BY DEF IInv, ActorsKnow
    <3>2. pc'[t] = pc[t] /\ target'[t] = target[t] /\ seen'[t] = seen[t]
      BY <1>6, <2>1
    <3>3. ASSUME pc[t] \in Held PROVE target[t] # v
      BY <1>2, <3>1, <3>3, RuleSetsAssumption DEF IInv, LocksMatch, Knows
    <3> QED BY <1>4, <3>1, <3>2, <3>3 DEF Knows, Exists, Versions, Held
  <2>2. Knows(u)'
    BY <1>6 DEF Knows, Held
  <2> QED BY <2>1, <2>2 DEF ActorsKnow
<1>11. ActiveIffPublished'
  BY <1>4 DEF IInv, ActiveIffPublished, Active, Versions
<1>12. ActiveWasPublished'
  BY <1>2, <1>4 DEF IInv, ActiveWasPublished, Active, Versions
<1>13. PublishedConfigIsValid'
  BY <1>4 DEF IInv, PublishedConfigIsValid, Versions
<1>14. TargetIsRecoverable'
  <2> SUFFICES ASSUME Active' = {} PROVE (Drafts \cap was)' # {}
    BY DEF TargetIsRecoverable
  <2>1. CASE active[v]
    BY <1>2, <1>3, <1>4, <2>1 DEF IInv, ActiveWasPublished, Active, Drafts, Versions
  <2>2. CASE ~ active[v]
    <3>1. Active = {}
      BY <1>4, <2>2 DEF Active, Versions
    <3>2. PICK d \in Drafts : d \in was
      BY <3>1 DEF IInv, TargetIsRecoverable
    <3> QED BY <1>2, <1>4, <3>2 DEF Drafts, Versions
  <2> QED BY <2>1, <2>2
<1>15. SnapshotsUseValidConfig'
  BY <1>2 DEF IInv, SnapshotsUseValidConfig
<1> QED BY <1>7, <1>8, <1>9, <1>10, <1>11, <1>12, <1>13, <1>14, <1>15 DEF IInv

(* A rule that is written, of a set that may have been published since. *)
LEMMA RuleSaveInv == ASSUME IInv, NEW u \in Actors, RuleSave(u) PROVE IInv'
<1>1. PICK c \in Contents : rules' = [rules EXCEPT ![target[u]] = c]
  BY DEF RuleSave
<1>2. /\ pc[u] = "rule" /\ pc[u] \notin Held /\ Return(u)
      /\ UNCHANGED <<status, active, config, lock, queued, snapshots, was>>
  BY DEF RuleSave, Held
<1>3. /\ "idle" \in {"idle", "cloning", "form", "rule", "scoring"} \cup Held /\ "idle" \notin Held
      /\ 0 \in 0..MaxVersion
  BY RuleSetsAssumption DEF Held
<1>4. /\ pc' \in [Actors -> {"idle", "cloning", "form", "rule", "scoring"} \cup Held]
      /\ target' \in [Actors -> 0..MaxVersion]
      /\ seen' \in [Actors -> Contents \cup {None}]
      /\ pc'[u] = "idle"
      /\ \A t \in Actors \ {u} : pc'[t] = pc[t] /\ target'[t] = target[t] /\ seen'[t] = seen[t]
  BY <1>2, ReturnTyped
<1>5. Types'
  <2>1. rules' \in [Versions -> Contents \cup {None}]
    BY <1>1 DEF IInv, Types
  <2> QED BY <1>2, <1>4, <2>1 DEF IInv, Types, Versions, Held
<1>6. LocksMatch'
  BY <1>2, <1>3, <1>4 DEF IInv, LocksMatch, Versions, Held
<1>7. Filled'
  BY <1>1, <1>2 DEF IInv, Types, Filled, Exists, Versions
<1>8. ActorsKnow'
  BY <1>2, <1>4 DEF IInv, ActorsKnow, Knows, Exists, Versions, Held
<1>9. ActiveIffPublished' /\ ActiveWasPublished' /\ PublishedConfigIsValid'
      /\ TargetIsRecoverable' /\ SnapshotsUseValidConfig'
  BY <1>2 DEF IInv, ActiveIffPublished, ActiveWasPublished, Active, PublishedConfigIsValid,
              TargetIsRecoverable, Drafts, SnapshotsUseValidConfig, Versions
<1> QED BY <1>5, <1>6, <1>7, <1>8, <1>9 DEF IInv

(* A step of the queue of score jobs changes nothing else. *)
LEMMA QueueStep ==
    ASSUME IInv, queued' \subseteq Versions,
           UNCHANGED <<rowVars, lock, snapshots, was, actorVars>>
    PROVE  IInv'
<1>1. Types' /\ LocksMatch'
  BY DEF IInv, Types, LocksMatch, rowVars, actorVars, Versions, Held
<1>2. RowsInv'
  BY RowsKept
<1>3. ActorsKnow'
  BY OthersKnow DEF ActorsKnow, actorVars
<1>4. SnapshotsUseValidConfig'
  BY DEF IInv, SnapshotsUseValidConfig
<1> QED BY <1>1, <1>2, <1>3, <1>4 DEF IInv, RowsInv

(* A score that is requested. *)
LEMMA EnqueueScoreInv == ASSUME IInv, EnqueueScore PROVE IInv'
BY QueueStep DEF EnqueueScore, IInv, Types, Active

(* A score of a set that is no longer published. *)
LEMMA ScoreRefusedInv == ASSUME IInv, ScoreRefused PROVE IInv'
BY QueueStep DEF ScoreRefused, IInv, Types

(* The snapshot is of the configuration that was loaded, and that was valid. *)
LEMMA ScoreSaveInv == ASSUME IInv, NEW u \in Actors, ScoreSave(u) PROVE IInv'
<1> DEFINE s == [version |-> target[u], config |-> seen[u], rules |-> rules[target[u]]]
<1>1. /\ pc[u] = "scoring" /\ pc[u] \notin Held /\ Return(u)
      /\ snapshots' = snapshots \cup {s}
      /\ queued' \subseteq queued
      /\ UNCHANGED <<rowVars, lock, was>>
  BY DEF ScoreSave, Held
<1>2. /\ target[u] \in Versions /\ seen[u] \in Valid /\ rules[target[u]] \in Contents
  BY <1>1 DEF IInv, ActorsKnow, Knows, Filled
<1>3. /\ "idle" \in {"idle", "cloning", "form", "rule", "scoring"} \cup Held /\ "idle" \notin Held
      /\ 0 \in 0..MaxVersion
  BY RuleSetsAssumption DEF Held
<1>4. /\ pc' \in [Actors -> {"idle", "cloning", "form", "rule", "scoring"} \cup Held]
      /\ target' \in [Actors -> 0..MaxVersion]
      /\ seen' \in [Actors -> Contents \cup {None}]
      /\ pc'[u] = "idle"
      /\ \A t \in Actors \ {u} : pc'[t] = pc[t] /\ target'[t] = target[t] /\ seen'[t] = seen[t]
  BY <1>1, ReturnTyped
<1>5. Types'
  <2>1. snapshots' \subseteq [version : Versions, config : Contents, rules : Contents]
    BY <1>1, <1>2, RuleSetsAssumption DEF IInv, Types
  <2> QED BY <1>1, <1>4, <2>1 DEF IInv, Types, rowVars, Versions, Held
<1>6. LocksMatch'
  BY <1>1, <1>3, <1>4 DEF IInv, LocksMatch, Versions, Held
<1>7. RowsInv'
  BY <1>1, RowsKept
<1>8. ActorsKnow'
  <2>1. Knows(u)'
    BY <1>4 DEF Knows, Held
  <2> QED BY <1>1, <1>4, <2>1, OthersKnow DEF ActorsKnow
<1>9. SnapshotsUseValidConfig'
  BY <1>1, <1>2 DEF IInv, SnapshotsUseValidConfig
<1> QED BY <1>5, <1>6, <1>7, <1>8, <1>9 DEF IInv, RowsInv

(* A stutter changes nothing. *)
LEMMA Stutters == ASSUME IInv, UNCHANGED vars PROVE IInv'
BY QueueStep DEF vars, IInv, Types

(* Every step preserves the invariant, one lemma for each action. *)
LEMMA Inductive == IInv /\ [Next]_vars => IInv'
<1> SUFFICES ASSUME IInv, [Next]_vars PROVE IInv'
  OBVIOUS
<1>1. CASE UNCHANGED vars
  BY <1>1, Stutters
<1>2. CASE EnqueueScore
  BY <1>2, EnqueueScoreInv
<1>3. CASE ScoreRefused
  BY <1>3, ScoreRefusedInv
<1>4. ASSUME NEW u \in Actors, CloneLook(u) \/ CloneLock(u) \/ CloneFails(u) \/ CloneCreate(u)
      PROVE  IInv'
  BY <1>4, CloneLookInv, CloneLockInv, CloneFailsInv, CloneCreateInv
<1>5. ASSUME NEW u \in Actors, NEW v \in Versions,
             PublishLock(u, v) \/ FormLoad(u, v) \/ RuleLoad(u, v)
      PROVE  IInv'
  BY <1>5, PublishLockInv, FormLoadInv, RuleLoadInv
<1>6. ASSUME NEW u \in Actors, PublishCommit(u) \/ PublishFails(u) \/ FormSave(u) \/ RuleSave(u)
      PROVE  IInv'
  BY <1>6, PublishCommitInv, PublishFailsInv, FormSaveInv, RuleSaveInv
<1>7. ASSUME NEW u \in Actors, ScoreLoad(u) \/ ScoreSave(u)
      PROVE  IInv'
  BY <1>7, ScoreLoadInv, ScoreSaveInv
<1> QED BY <1>1, <1>2, <1>3, <1>4, <1>5, <1>6, <1>7 DEF Next

(* The inductive invariant, from which the theorems follow: locks, what requests know,
   and the life of the sets, for any number of requests and versions. *)
THEOREM Invariance == Spec => []IInv
BY Initially, Inductive, PTL DEF Spec

(* Every reachable state is well typed, and the row locks are those of the     *)
(* requests that hold them, for any number of requests (transaction.atomic and *)
(* select_for_update in apps/scoring/services.py).                             *)
THEOREM RuleSetsTyped == Spec => []TypeOK
<1>1. IInv => TypeOK
  BY Typing DEF IInv
<1> QED BY <1>1, Invariance, PTL

(* At most one set of the target is active, and it is the published one, through *)
(* any overlap of publications and forms that write back what they read.         *)
THEOREM OneActiveSetPublished == Spec => []ActiveIffPublished
<1>1. IInv => ActiveIffPublished
  BY DEF IInv
<1> QED BY <1>1, Invariance, PTL

(* publish_rule_set never publishes a configuration validate_rule_set refuses, *)
(* nor does a later form change the one that is published.                     *)
THEOREM PublishedConfigAlwaysValid == Spec => []PublishedConfigIsValid
<1>1. IInv => PublishedConfigIsValid
  BY DEF IInv
<1> QED BY <1>1, Invariance, PTL

(* Clones of one target that all saw no draft create theirs one at a time: each *)
(* holds the row of the active set, and there is one such row.                  *)
THEOREM ClonesAlwaysTakeTurns == Spec => []ClonesTakeTurns
<1>1. IInv => ClonesTakeTurns
  <2> SUFFICES ASSUME IInv, NEW t \in Actors, NEW u \in Actors,
                      pc[t] = "creating", pc[u] = "creating"
               PROVE  t = u
    BY DEF ClonesTakeTurns
  <2>1. target[t] \in Active /\ target[u] \in Active
    BY DEF IInv, ActorsKnow, Knows, Held, Active
  <2>2. target[t] = target[u] /\ target[t] \in Versions
    BY <2>1 DEF IInv, ActiveIffPublished, Active
  <2>3. lock[target[t]] = t /\ lock[target[u]] = u
    BY <2>2 DEF IInv, LocksMatch, Held
  <2> QED BY <2>2, <2>3
<1> QED BY <1>1, Invariance, PTL

(* Whenever no set is active, a draft that was once published is there to be *)
(* published again: a stale form is the only way to lose the active set.     *)
THEOREM TargetAlwaysRecoverable == Spec => []TargetIsRecoverable
<1>1. IInv => TargetIsRecoverable
  BY DEF IInv
<1> QED BY <1>1, Invariance, PTL

(* No score snapshot rests on a configuration that was never validated. *)
THEOREM SnapshotsAlwaysUseValidConfig == Spec => []SnapshotsUseValidConfig
<1>1. IInv => SnapshotsUseValidConfig
  BY DEF IInv
<1> QED BY <1>1, Invariance, PTL
=============================================================================
