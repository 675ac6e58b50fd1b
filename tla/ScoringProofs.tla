---------------------------- MODULE ScoringProofs ----------------------------
(* Theorems about Scoring, for any rule sets, companies, instants and groups. *)
EXTENDS Scoring, SequenceTheorems, WellFoundedInduction, TLAPS

-----------------------------------------------------------------------------
(* Arithmetic and choices of the engine.                                     *)

(* A set of natural numbers that is not empty has a least one. *)
LEMMA LeastOf ==
    ASSUME NEW S \in SUBSET Nat, S # {}
    PROVE  \E k \in S : \A m \in S : k <= m
<1>1. \E k \in S : \A m \in S : ~ (<<m, k>> \in OpToRel(<, Nat))
  BY NatLessThanWellFounded, WFMin
<1>2. PICK k \in S : \A m \in S : ~ (<<m, k>> \in OpToRel(<, Nat))
  BY <1>1
<1>3. ASSUME NEW m \in S PROVE k <= m
  <2>1. m \in Nat /\ k \in Nat
    OBVIOUS
  <2>2. m < k => <<m, k>> \in OpToRel(<, Nat)
    BY <2>1, Zenon DEF OpToRel
  <2>3. ~ (m < k)
    BY <1>2, <2>2, Zenon
  <2> QED BY <2>1, <2>3
<1> QED BY <1>2, <1>3

(* Rounding yields an integer. *)
LEMMA QuantizeInt == \A n \in Int : Quantize(n) \in Int
<1> TAKE n \in Int
<1>1. n \div Unit \in Int /\ n % Unit \in Int
  BY DEF Unit
<1> QED BY <1>1 DEF Quantize

(* A clamped number lies between 0 and 100. *)
LEMMA ClampRange == \A n \in Int : Clamp(n) \in 0..Top /\ Clamp(n) \in Int /\ Clamp(n) >= 0
<1> TAKE n \in Int
<1>1. Top \in Nat
  BY DEF Top, Unit
<1>2. AtLeastZero(n) \in Nat
  BY DEF AtLeastZero
<1>3. \A a, b \in Nat : Smaller(a, b) \in 0..a
  BY DEF Smaller
<1>4. Clamp(n) \in 0..Top
  BY <1>1, <1>2, <1>3 DEF Clamp
<1> QED BY <1>1, <1>4

(* A multiplier is an integer, whatever the curve. *)
LEMMA MultiplierInt ==
    ASSUME NEW rule, DOMAIN rule.curve \subseteq Nat,
           \A k \in DOMAIN rule.curve : rule.curve[k].multiplier \in Int, NEW from, NEW t
    PROVE  Multiplier(rule, from, t) \in Int
<1> DEFINE age == AtLeastZero((t \div DayLength) - (from \div DayLength))
           curve == IF rule.curve = <<>> THEN DefaultCurve ELSE rule.curve
           fits == {k \in DOMAIN curve : curve[k].max_days = None \/ age <= curve[k].max_days}
<1>1. DOMAIN DefaultCurve = 1..5 /\ \A k \in 1..5 : DefaultCurve[k].multiplier \in Int
  BY DEF DefaultCurve
<1>2. DOMAIN curve \subseteq Nat /\ \A k \in DOMAIN curve : curve[k].multiplier \in Int
  BY <1>1
<1>3. CASE fits # {}
  <2>1. fits \in SUBSET Nat /\ fits \subseteq DOMAIN curve
    BY <1>2
  <2>2. \E k \in fits : \A m \in fits : k <= m
    <3> HIDE DEF fits
    <3> QED BY <1>3, <2>1, LeastOf
  <2>3. (CHOOSE k \in fits : \A m \in fits : k <= m) \in fits
    <3> HIDE DEF fits
    <3> QED BY <2>2
  <2>4. curve[CHOOSE k \in fits : \A m \in fits : k <= m].multiplier \in Int
    <3> HIDE DEF fits, curve
    <3> QED BY <1>2, <2>1, <2>3
  <2>5. Multiplier(rule, from, t)
          \in {Unit, curve[CHOOSE k \in fits : \A m \in fits : k <= m].multiplier}
    BY <1>3 DEF Multiplier
  <2> HIDE DEF fits, curve
  <2> QED BY <2>4, <2>5 DEF Unit
<1>4. CASE fits = {}
  <2>1. Multiplier(rule, from, t) \in {Unit, 0}
    BY <1>4 DEF Multiplier
  <2> QED BY <2>1 DEF Unit
<1> HIDE DEF fits, curve, age
<1> QED BY <1>3, <1>4

(* The best product has a number. *)
LEMMA BestValueInt ==
    ASSUME totals \in [Dimensions -> Int]
    PROVE  BestValue \in Int /\ \A d \in Dimensions : Dimension(d) \in Int
<1>1. \A d \in Dimensions : Dimension(d) \in Int
  BY ClampRange DEF Dimension
<1>2. Dimension("MES") \in Int /\ Dimension("CMMS") \in Int /\ Dimension("PULSE") \in Int
  BY <1>1 DEF Dimensions
<1> DEFINE S == {Dimension(d) : d \in Products}
<1>3. S = {Dimension("MES"), Dimension("CMMS"), Dimension("PULSE")}
  BY DEF Products
<1>4. \E x \in S : \A y \in S : x >= y
  BY <1>2, <1>3
<1>5. Max(S) \in S
  <2> HIDE DEF S
  <2> QED BY <1>4 DEF Max
<1> QED BY <1>1, <1>2, <1>3, <1>5 DEF BestValue

-----------------------------------------------------------------------------
(* What the steps keep besides the types.                                    *)

Contribution ==
    [rule : Nat \ {0}, multiplier : Int, points : Int,
     evidence : {None} \cup UNION {company.signals : company \in Companies}]

\* Between two calls nothing is left of the last one.
Reset ==
    pc = "idle" =>
        /\ next = 1 /\ used = [g \in Groups |-> 0] /\ contributions = <<>>
        /\ critical = Blank /\ left = {}

\* A rule with an outcome among those that matched has set critical_outcome.
OutcomeKept ==
    pc # "idle" =>
        \A k \in DOMAIN contributions :
            request.set.rules[contributions[k].rule].outcome # Blank => critical # Blank

IInv ==
    /\ TypeOK /\ contributions \in Seq(Contribution)
    /\ Reset /\ OutcomeKept
    /\ GroupsWithinCaps /\ CriticalPrevails /\ ValidSetsScore

(* Before the first call. *)
LEMMA InitIInv == Init => IInv
<1> SUFFICES ASSUME Init PROVE IInv
  OBVIOUS
<1>1. TypeOK
  <2>1. RequestTyped
    BY DEF Init, RequestTyped
  <2>2. used \in [Groups -> Nat] /\ totals \in [Dimensions -> Int]
    BY DEF Init
  <2>3. last = None /\ next \in Nat \ {0} /\ priority \in Int
    BY DEF Init
  <2>4. pc = "idle" /\ critical = Blank
    BY DEF Init
  <2> QED BY <2>1, <2>2, <2>3, <2>4 DEF TypeOK
<1>2. contributions \in Seq(Contribution)
  BY EmptySeq DEF Init
<1>3. Reset /\ OutcomeKept /\ GroupsWithinCaps
  BY DEF Init, Reset, OutcomeKept, GroupsWithinCaps
<1>4. CriticalPrevails
  BY DEF Init, CriticalPrevails
<1>5. ValidSetsScore
  BY DEF Init, ValidSetsScore
<1> QED BY <1>1, <1>2, <1>3, <1>4, <1>5 DEF IInv

(* The rule the loop is at. *)
LEMMA RuleTyped ==
    ASSUME IInv, pc = "matching", next \in DOMAIN request.set.rules
    PROVE  /\ request.set \in RuleSets /\ pc # "idle" /\ request.company \in Companies
           /\ request.as_of \in Instants
           /\ Rule.dimension \in Dimensions /\ Rule.points \in Int
           /\ Rule.group \in Groups \cup {Blank} /\ (Rule.cap # None => Rule.cap \in Int)
           /\ Rule.outcome \in Outcomes \cup {Blank}
           /\ DOMAIN Rule.curve \subseteq Nat
           /\ \A k \in DOMAIN Rule.curve : Rule.curve[k].multiplier \in Int
BY ScoringAssumption DEF IInv, TypeOK, RequestTyped, Rule

(* A rule that does not match only moves the loop on. *)
LEMMA PassRuleStep == IInv /\ PassRule => IInv'
<1> SUFFICES ASSUME IInv, PassRule PROVE IInv'
  OBVIOUS
<1> USE DEF IInv, PassRule
<1>1. next' = next + 1 /\ next \in Nat \ {0} /\ UNCHANGED <<pc, request, used, contributions, totals,
                                                            critical, left, priority, last>>
  BY DEF TypeOK
<1>2. pc # "idle"
  BY DEF TypeOK, RequestTyped
<1>3. TypeOK'
  <2>1. RequestTyped' /\ next' \in Nat \ {0}
    BY <1>1 DEF TypeOK, RequestTyped
  <2> QED BY <1>1, <2>1 DEF TypeOK
<1>4. Reset' /\ OutcomeKept' /\ CriticalPrevails' /\ ValidSetsScore'
  BY <1>1, <1>2 DEF Reset, OutcomeKept, CriticalPrevails, ValidSetsScore
<1>5. GroupsWithinCaps'
  BY <1>1, <1>2 DEF GroupsWithinCaps
<1> QED BY <1>1, <1>3, <1>4, <1>5

(* What a rule gives to its group and to its dimension. *)
LEMMA Contributes ==
    ASSUME IInv, pc = "matching", next \in DOMAIN request.set.rules, next' = next + 1,
           UNCHANGED request, NEW s \in {None} \cup Relevant(Rule), Contribute(Rule, s)
    PROVE  /\ used' \in [Groups -> Nat] /\ totals' \in [Dimensions -> Int]
           /\ critical' \in Outcomes \cup {Blank}
           /\ contributions' \in Seq(Contribution)
           /\ OutcomeKept' /\ GroupsWithinCaps'
<1> DEFINE multiplier == IF s = None THEN Unit ELSE Multiplier(Rule, s.from, request.as_of)
           e == Quantize(Rule.points * multiplier)
           points == Capped(Rule, e)
           new == [rule |-> next, multiplier |-> multiplier, points |-> points, evidence |-> s]
<1>0. /\ pc # "idle" /\ request.company \in Companies
      /\ Rule.dimension \in Dimensions /\ Rule.points \in Int
      /\ Rule.group \in Groups \cup {Blank} /\ (Rule.cap # None => Rule.cap \in Int)
      /\ Rule.outcome \in Outcomes \cup {Blank}
      /\ DOMAIN Rule.curve \subseteq Nat
      /\ \A k \in DOMAIN Rule.curve : Rule.curve[k].multiplier \in Int
  BY RuleTyped
<1>1. /\ next \in Nat \ {0} /\ used \in [Groups -> Nat] /\ totals \in [Dimensions -> Int]
      /\ contributions \in Seq(Contribution) /\ critical \in Outcomes \cup {Blank}
  BY DEF IInv, TypeOK
<1>2. multiplier \in Int
  <2>1. s # None => Multiplier(Rule, s.from, request.as_of) \in Int
    BY <1>0, MultiplierInt
  <2> QED BY <2>1 DEF Unit
<1>3. e \in Int
  <2>1. Rule.points * multiplier \in Int
    <3> HIDE DEF multiplier
    <3> QED BY <1>0, <1>2
  <2> QED BY <2>1, QuantizeInt
<1>4. points \in Int /\ (Rule.group # Blank /\ Rule.cap # None /\ e > 0
        => points \in Nat /\ (points > 0 => used[Rule.group] + points <= Rule.cap))
  <2> HIDE DEF e
  <2>1. CASE Rule.group # Blank /\ Rule.cap # None /\ e > 0
    <3>1. Rule.cap \in Int /\ used[Rule.group] \in Nat
      BY <1>1, <2>1, <1>0
    <3>2. points = AtLeastZero(Smaller(e, Rule.cap - used[Rule.group]))
      BY <2>1 DEF Capped
    <3> HIDE DEF points
    <3> QED BY <1>3, <3>1, <3>2 DEF AtLeastZero, Smaller
  <2>2. CASE ~(Rule.group # Blank /\ Rule.cap # None /\ e > 0)
    BY <1>3, <2>2 DEF Capped
  <2> QED BY <2>1, <2>2
<1>5. /\ used' = IF Rule.group # Blank /\ Rule.cap # None /\ e > 0
                 THEN [used EXCEPT ![Rule.group] = @ + points] ELSE used
      /\ contributions' = Append(contributions, new)
      /\ totals' = [totals EXCEPT ![Rule.dimension] = @ + points]
      /\ critical' = Outcome(Rule)
  BY DEF Contribute
<1>6. s \in {None} \cup UNION {company.signals : company \in Companies}
  BY <1>0 DEF Relevant, Visible
<1>7. new \in Contribution
  <2> HIDE DEF multiplier, points
  <2> QED BY <1>1, <1>2, <1>4, <1>6 DEF Contribution
<1> HIDE DEF e, points, multiplier, new
<1>8. used' \in [Groups -> Nat]
  BY <1>1, <1>4, <1>5, <1>0
<1>9. totals' \in [Dimensions -> Int]
  BY <1>1, <1>4, <1>5, <1>0
<1>10. critical' \in Outcomes \cup {Blank}
  BY <1>1, <1>5, <1>0 DEF Outcome
<1>11. contributions' \in Seq(Contribution)
  BY <1>1, <1>5, <1>7, AppendProperties
<1>12. OutcomeKept'
  <2>1. \A k \in DOMAIN contributions : contributions'[k] = contributions[k]
    BY <1>1, <1>5, <1>7, AppendProperties
  <2>2. contributions'[Len(contributions) + 1] = new
    BY <1>1, <1>5, <1>7, AppendProperties
  <2>3. DOMAIN contributions' = DOMAIN contributions \cup {Len(contributions) + 1}
    BY <1>1, <1>5, <1>7, AppendProperties
  <2>4. new.rule = next
    BY DEF new
  <2>5. request.set.rules[new.rule].outcome # Blank => critical' # Blank
    BY <1>5, <2>4 DEF Outcome, Rule
  <2>6. \A k \in DOMAIN contributions :
          request.set.rules[contributions[k].rule].outcome # Blank => critical' # Blank
    BY <1>5, <1>0 DEF IInv, OutcomeKept, Outcome
  <2> QED BY <2>1, <2>2, <2>3, <2>5, <2>6 DEF OutcomeKept
<1>13. GroupsWithinCaps'
  <2> SUFFICES ASSUME NEW g \in Groups, used'[g] > 0
               PROVE  \E i \in 1..next' - 1 :
                        /\ request.set.rules[i].group = g /\ request.set.rules[i].cap # None
                        /\ used'[g] <= request.set.rules[i].cap
    BY DEF GroupsWithinCaps
  <2>1. CASE used'[g] = used[g]
    <3>1. PICK i \in 1..next - 1 :
            /\ request.set.rules[i].group = g /\ request.set.rules[i].cap # None
            /\ used[g] <= request.set.rules[i].cap
      BY <2>1, <1>0 DEF IInv, GroupsWithinCaps
    <3>2. i \in 1..next' - 1
      BY <1>1
    <3> QED BY <2>1, <3>1, <3>2
  <2>2. CASE used'[g] # used[g]
    <3>1. Rule.group # Blank /\ Rule.cap # None /\ e > 0 /\ g = Rule.group
          /\ used'[g] = used[g] + points
      BY <1>1, <1>5, <2>2
    <3>2. points > 0 /\ used'[g] <= Rule.cap
      BY <1>1, <1>4, <2>2, <3>1
    <3>3. next \in 1..next' - 1
      BY <1>1
    <3> QED BY <3>1, <3>2, <3>3 DEF Rule
  <2> QED BY <2>1, <2>2
<1> QED BY <1>8, <1>9, <1>10, <1>11, <1>12, <1>13

(* A rule that matches: its group stays within the largest cap met so far. *)
LEMMA CountRuleStep == IInv /\ CountRule => IInv'
<1> SUFFICES ASSUME IInv, CountRule PROVE IInv'
  OBVIOUS
<1>1. PICK s \in {None} \cup Relevant(Rule) : Contribute(Rule, s)
  BY DEF CountRule, Evidence
<1>2. /\ pc = "matching" /\ next \in DOMAIN request.set.rules /\ next' = next + 1
      /\ UNCHANGED <<pc, request, left, priority, last>>
  BY DEF CountRule
<1>3. /\ used' \in [Groups -> Nat] /\ totals' \in [Dimensions -> Int]
      /\ critical' \in Outcomes \cup {Blank} /\ contributions' \in Seq(Contribution)
      /\ OutcomeKept' /\ GroupsWithinCaps'
  BY <1>1, <1>2, Contributes
<1>4. TypeOK'
  <2>1. RequestTyped' /\ next' \in Nat \ {0}
    BY <1>2 DEF IInv, TypeOK, RequestTyped
  <2> QED BY <1>2, <1>3, <2>1 DEF IInv, TypeOK
<1>5. Reset' /\ CriticalPrevails' /\ ValidSetsScore'
  BY <1>2 DEF IInv, TypeOK, RequestTyped, Reset, CriticalPrevails, ValidSetsScore
<1> QED BY <1>3, <1>4, <1>5 DEF IInv

(* A rule of a valid set is accepted, and then it raises for want of a number only. *)
LEMMA RuleRaisesStep == IInv /\ RuleRaises => IInv'
<1> SUFFICES ASSUME IInv, RuleRaises PROVE IInv'
  OBVIOUS
<1>1. /\ pc = "matching" /\ next \in DOMAIN request.set.rules /\ Decided(Rule) = "raises"
      /\ pc' = "failed" /\ UNCHANGED <<request, loopVars, left, priority, last>>
  BY DEF RuleRaises, Fail
<1>2. TypeOK'
  BY <1>1 DEF IInv, TypeOK, RequestTyped, loopVars
<1>3. contributions' \in Seq(Contribution) /\ Reset' /\ OutcomeKept' /\ CriticalPrevails'
      /\ GroupsWithinCaps'
  BY <1>1 DEF IInv, Reset, OutcomeKept, CriticalPrevails, GroupsWithinCaps, loopVars
<1>4. ValidSetsScore'
  <2> SUFFICES ASSUME Validates(request.set),
                      \A i \in DOMAIN request.set.rules :
                        NumbersGiven(request.set.rules[i].condition,
                                     FactsOf(request.company, request.as_of))
               PROVE  FALSE
    BY <1>1 DEF ValidSetsScore
  <2>1. Accepted(request.set.rules[next].condition)
    BY <1>1 DEF Validates, RuleValid
  <2>2. /\ request.set \in RuleSets /\ request.company \in Companies
        /\ request.as_of \in Instants
    BY <1>1, RuleTyped
  <2>3. Matches(request.set.rules[next].condition, FactsOf(request.company, request.as_of))
          # "raises"
    BY <1>1, <2>1, <2>2, ConditionsAssumption
  <2> QED BY <1>1, <2>3 DEF Decided, Rule
<1> QED BY <1>2, <1>3, <1>4 DEF IInv

(* The least threshold of a valid set is 0, and no priority lies below. *)
LEMMA UnclassifiedStep == IInv /\ Unclassified => IInv'
<1> SUFFICES ASSUME IInv, Unclassified PROVE IInv'
  OBVIOUS
<1>1. /\ pc = "weighing" /\ Reached(request.set, Clamp(priority)) = {}
      /\ pc' = "failed" /\ UNCHANGED <<request, loopVars, left, priority, last>>
  BY DEF Unclassified, Fail
<1>2. TypeOK'
  BY <1>1 DEF IInv, TypeOK, RequestTyped, loopVars
<1>3. contributions' \in Seq(Contribution) /\ Reset' /\ OutcomeKept' /\ CriticalPrevails'
      /\ GroupsWithinCaps'
  BY <1>1 DEF IInv, Reset, OutcomeKept, CriticalPrevails, GroupsWithinCaps, loopVars
<1>4. ValidSetsScore'
  <2>1. Clamp(priority) >= 0 /\ Clamp(priority) \in Int
    <3>1. priority \in Int
      BY DEF IInv, TypeOK
    <3> QED BY <3>1, ClampRange
  <2>2. ASSUME Validates(request.set) PROVE FALSE
    <3>1. PICK i \in DOMAIN request.set.thresholds : request.set.thresholds[i].min = 0
      BY <2>2 DEF Validates, ThresholdsValid
    <3>2. i \in Reached(request.set, Clamp(priority))
      BY <2>1, <3>1 DEF Reached
    <3> QED BY <1>1, <3>2
  <2> QED BY <1>1, <2>2 DEF ValidSetsScore
<1> QED BY <1>2, <1>3, <1>4 DEF IInv

(* The beginning of a call. *)
LEMMA LoadStep ==
    ASSUME IInv, NEW rs \in RuleSets, NEW company \in Companies, NEW t \in Instants,
           NEW simulate \in BOOLEAN, Load(rs, company, t, simulate)
    PROVE  IInv'
<1>1. /\ pc = "idle" /\ pc' = "matching"
      /\ request' = [set |-> rs, company |-> company, as_of |-> t, simulate |-> simulate]
      /\ UNCHANGED <<loopVars, left, priority, last>>
  BY DEF Load
<1>2. request = None /\ left = {} /\ used = [g \in Groups |-> 0] /\ contributions = <<>>
  BY <1>1 DEF IInv, TypeOK, RequestTyped, Reset
<1>3. TypeOK'
  <2>1. RequestTyped'
    BY <1>1, <1>2 DEF RequestTyped
  <2> QED BY <1>1, <2>1 DEF IInv, TypeOK, loopVars
<1>4. contributions' \in Seq(Contribution) /\ CriticalPrevails' /\ ValidSetsScore'
  BY <1>1 DEF IInv, CriticalPrevails, ValidSetsScore, loopVars
<1>5. OutcomeKept' /\ GroupsWithinCaps' /\ Reset'
  BY <1>1, <1>2 DEF OutcomeKept, GroupsWithinCaps, Reset, loopVars, IInv
<1> QED BY <1>3, <1>4, <1>5 DEF IInv

(* What a dimension of the formula weighs is a number. *)
LEMMA ValueInt ==
    ASSUME IInv, pc = "weighing", NEW d \in DOMAIN request.set.formula
    PROVE  Quantize(Value(d) * request.set.formula[d]) \in Int
<1>1. d \in Dimensions \cup {"BEST_PRODUCT"} /\ request.set.formula[d] \in Int
  BY ScoringAssumption DEF IInv, TypeOK, RequestTyped
<1>2. Value(d) \in Int
  BY <1>1, BestValueInt DEF Value, IInv, TypeOK
<1>3. Value(d) * request.set.formula[d] \in Int
  BY <1>1, <1>2
<1> QED BY <1>3, QuantizeInt

(* Sum and the steps of the loop over the formula. *)
LEMMA WeighingStep ==
    ASSUME IInv, Sum \/ \E d \in left : Weigh(d)
    PROVE  IInv'
<1>1. /\ pc' = "weighing" /\ pc # "idle" /\ pc # "failed"
      /\ UNCHANGED <<request, loopVars, last>>
  BY DEF Sum, Weigh
<1>2. left' \subseteq DOMAIN request.set.formula
  BY DEF Sum, Weigh, IInv, TypeOK, RequestTyped
<1>3. priority' \in Int
  <2>1. CASE Sum
    BY <2>1 DEF Sum, IInv, TypeOK
  <2>2. ASSUME NEW d \in left, Weigh(d) PROVE priority' \in Int
    <3>1. d \in DOMAIN request.set.formula /\ pc = "weighing" /\ priority \in Int
      BY <2>2 DEF Weigh, IInv, TypeOK, RequestTyped
    <3>2. Quantize(Value(d) * request.set.formula[d]) \in Int
      BY <3>1, ValueInt
    <3>3. priority' = priority + Quantize(Value(d) * request.set.formula[d])
      BY <2>2 DEF Weigh
    <3> QED BY <3>1, <3>2, <3>3
  <2> QED BY <2>1, <2>2
<1>4. TypeOK'
  <2>1. RequestTyped'
    BY <1>1, <1>2 DEF IInv, TypeOK, RequestTyped
  <2> QED BY <1>1, <1>3, <2>1 DEF IInv, TypeOK, loopVars
<1>5. contributions' \in Seq(Contribution) /\ Reset' /\ OutcomeKept' /\ CriticalPrevails'
      /\ GroupsWithinCaps' /\ ValidSetsScore'
  BY <1>1 DEF IInv, Reset, OutcomeKept, CriticalPrevails, GroupsWithinCaps, ValidSetsScore, loopVars
<1> QED BY <1>4, <1>5 DEF IInv

(* The state between two calls. *)
LEMMA ReturnReset ==
    ASSUME Return
    PROVE  /\ RequestTyped' /\ Reset' /\ OutcomeKept' /\ GroupsWithinCaps' /\ ValidSetsScore'
           /\ pc' = "idle" /\ next' \in Nat \ {0} /\ used' \in [Groups -> Nat]
           /\ totals' \in [Dimensions -> Int] /\ critical' = Blank /\ priority' \in Int
           /\ contributions' \in Seq(Contribution)
<1>1. RequestTyped' /\ Reset' /\ OutcomeKept' /\ GroupsWithinCaps' /\ ValidSetsScore'
  BY DEF Return, RequestTyped, Reset, OutcomeKept, GroupsWithinCaps, ValidSetsScore
<1> QED BY <1>1, EmptySeq DEF Return

(* An exception leaves nothing behind. *)
LEMMA AbortStep == IInv /\ Abort => IInv'
<1> SUFFICES ASSUME IInv, Abort PROVE IInv'
  OBVIOUS
<1>1. Return /\ UNCHANGED last
  BY DEF Abort
<1>2. TypeOK'
  BY <1>1, ReturnReset DEF IInv, TypeOK
<1> QED BY <1>1, <1>2, ReturnReset DEF IInv, CriticalPrevails

(* A snapshot keeps the outcome of the rules that matched. *)
LEMMA SaveStep == IInv /\ Save => IInv'
<1> SUFFICES ASSUME IInv, Save PROVE IInv'
  OBVIOUS
<1>1. pc = "weighing" /\ Return /\ (last' = last \/ last' = Snapshot)
  BY DEF Save
<1>2. CASE last' = last
  <2>1. TypeOK'
    BY <1>1, <1>2, ReturnReset DEF IInv, TypeOK
  <2> QED BY <1>1, <1>2, <2>1, ReturnReset DEF IInv, CriticalPrevails
<1>3. CASE last' = Snapshot
  <2>1. last'.set \in RuleSets /\ last'.priority \in 0..Top
    BY <1>1, <1>3, ClampRange DEF IInv, TypeOK, RequestTyped, Snapshot
  <2>2. TypeOK'
    BY <1>1, <2>1, ReturnReset DEF IInv, TypeOK
  <2>3. CriticalPrevails'
    <3> SUFFICES ASSUME NEW k \in DOMAIN contributions,
                        request.set.rules[contributions[k].rule].outcome # Blank
                 PROVE  last'.classification \in Outcomes
      BY <1>3 DEF CriticalPrevails, Snapshot
    <3>1. critical # Blank /\ critical \in Outcomes \cup {Blank}
      BY <1>1 DEF IInv, TypeOK, OutcomeKept
    <3> QED BY <1>3, <3>1 DEF Snapshot
  <2> QED BY <1>1, <2>2, <2>3, ReturnReset DEF IInv
<1> QED BY <1>1, <1>2, <1>3

(* Every step preserves the invariant. *)
LEMMA IInvStep == IInv /\ [Next]_vars => IInv'
<1> SUFFICES ASSUME IInv, [Next]_vars PROVE IInv'
  OBVIOUS
<1>1. CASE UNCHANGED vars
  <2>1. TypeOK'
    BY <1>1 DEF IInv, TypeOK, RequestTyped, vars, loopVars
  <2> QED BY <1>1, <2>1 DEF IInv, Reset, OutcomeKept, GroupsWithinCaps, CriticalPrevails,
                            ValidSetsScore, vars, loopVars
<1>2. CASE Next
  BY <1>2, LoadStep, PassRuleStep, CountRuleStep, RuleRaisesStep, WeighingStep, UnclassifiedStep,
     SaveStep, AbortStep DEF Next
<1> QED BY <1>1, <1>2

-----------------------------------------------------------------------------
(* Theorems                                                                  *)

(* The invariant holds in every reachable state. *)
LEMMA AlwaysIInv == Spec => []IInv
BY InitIInv, IInvStep, PTL DEF Spec

(* Every call of calculate_score stays well typed, whatever the rules and facts: scores *)
(* are whole quanta, and a priority lies between 0 and 100.                            *)
THEOREM ScoringTyped == Spec => []TypeOK
BY AlwaysIInv, PTL DEF IInv

(* What the capped rules of a group give together never exceeds the largest of their   *)
(* caps, in whatever order rules of several dimensions and caps meet.                  *)
THEOREM GroupsAlwaysWithinCaps == Spec => []GroupsWithinCaps
BY AlwaysIInv, PTL DEF IInv

(* A rule with a critical outcome that matched decides the classification.             *)
THEOREM CriticalAlwaysPrevails == Spec => []CriticalPrevails
BY AlwaysIInv, PTL DEF IInv

(* A set that validate_rule_set accepts fails to score only for want of a number.      *)
THEOREM ValidSetsAlwaysScore == Spec => []ValidSetsScore
BY AlwaysIInv, PTL DEF IInv

-----------------------------------------------------------------------------
(* The score as a function of the inputs.                                    *)

(* The evidence that a rule may take, and the multiplier it gives. *)
SignalsFor(rule, company, t) == {s \in Visible(company, t) : s.type \in SignalTypes(rule.condition)}
LatestFor(rule, company, t) ==
    {s \in SignalsFor(rule, company, t) : \A o \in SignalsFor(rule, company, t) : o.from <= s.from}
MultiplierFor(rule, company, t) ==
    IF SignalsFor(rule, company, t) = {} THEN Unit
    ELSE Multiplier(rule, (CHOOSE s \in LatestFor(rule, company, t) : TRUE).from, t)

(* What the loop over the rules maintains, without the choice of evidence. *)
Counted(matches) == [k \in DOMAIN matches |-> <<matches[k].rule, matches[k].multiplier, matches[k].points>>]
Here == [used |-> used, totals |-> totals, critical |-> critical, counted |-> Counted(contributions)]
Start == [used |-> [g \in Groups |-> 0], totals |-> [d \in Dimensions |-> 0], critical |-> Blank,
          counted |-> <<>>]

(* The i-th rule takes the loop from p to this. *)
After(rs, company, t, i, p) ==
    LET rule == rs.rules[i]
        m == MultiplierFor(rule, company, t)
        e == Quantize(rule.points * m)
        capped == rule.group # Blank /\ rule.cap # None /\ e > 0
        points == IF capped THEN AtLeastZero(Smaller(e, rule.cap - p.used[rule.group])) ELSE e IN
    IF rule.active /\ Matches(rule.condition, FactsOf(company, t)) = "yes"
    THEN [used |-> IF capped THEN [p.used EXCEPT ![rule.group] = @ + points] ELSE p.used,
          totals |-> [p.totals EXCEPT ![rule.dimension] = @ + points],
          critical |-> IF rule.outcome # Blank THEN rule.outcome ELSE p.critical,
          counted |-> Append(p.counted, <<i, m, points>>)]
    ELSE p

(* tr is what the loop goes through before it reaches the n-th rule. *)
Trace(rs, company, t, n, tr) ==
    /\ tr[1] = Start
    /\ \A i \in 1..n - 1 : i \in DOMAIN rs.rules /\ tr[i + 1] = After(rs, company, t, i, tr[i])

Leads(rs, company, t, n, p) == n \in Nat \ {0} /\ \E tr : Trace(rs, company, t, n, tr) /\ tr[n] = p

(* The weighed sum of the dimensions in S, and the snapshot the totals give. *)
BestOf(rs, v) == IF rs.target = "INDUSTRY" THEN Max({Clamp(v[d]) : d \in Products}) ELSE 0
ValueOf(rs, v, d) == IF d = "BEST_PRODUCT" THEN BestOf(rs, v) ELSE Clamp(v[d])
Part(rs, v, S, d) == IF d \in S THEN Quantize(ValueOf(rs, v, d) * rs.formula[d]) ELSE 0
Weighed(rs, v, S) ==
    Part(rs, v, S, "ICP") + Part(rs, v, S, "MES") + Part(rs, v, S, "CMMS") + Part(rs, v, S, "PULSE")
    + Part(rs, v, S, "INTENT") + Part(rs, v, S, "PARTNER_FIT") + Part(rs, v, S, "CHANNEL")
    + Part(rs, v, S, "ACTIVITY") + Part(rs, v, S, "CONFLICT") + Part(rs, v, S, "BEST_PRODUCT")

TiedOf(rs, v) ==
    LET leads(d) == d \in Products /\ Clamp(v[d]) = BestOf(rs, v)
        inOrder == SelectSeq(rs.tie_order, leads) IN
    IF rs.target # "INDUSTRY" THEN <<>>
    ELSE IF inOrder = <<>> THEN SelectSeq(ProductOrder, leads) ELSE inOrder

ScoreOf(rs, company, t, p) ==
    LET weighed == Clamp(Weighed(rs, p.totals, DOMAIN rs.formula)) IN
    [set |-> rs, company |-> company, as_of |-> t,
     dimensions |-> [d \in Dimensions |-> Clamp(p.totals[d])],
     priority |-> weighed,
     classification |-> IF p.critical # Blank THEN p.critical ELSE Classification(rs, weighed),
     tied |-> TiedOf(rs, p.totals),
     contributions |-> p.counted]

(* Two runs of the loop on the same inputs go through the same. *)
LEMMA TracesAgree ==
    ASSUME NEW rs, NEW company, NEW t, NEW m \in Nat \ {0}, NEW n \in Nat \ {0}, NEW tr, NEW us,
           Trace(rs, company, t, m, tr), Trace(rs, company, t, n, us),
           NEW k \in Nat \ {0}, k <= m, k <= n
    PROVE  tr[k] = us[k]
<1> DEFINE Bad == {i \in 1..k : tr[i] # us[i]}
<1> SUFFICES ASSUME Bad # {} PROVE FALSE
  OBVIOUS
<1>1. PICK i \in Bad : \A j \in Bad : i <= j
  <2>1. Bad \in SUBSET Nat
    OBVIOUS
  <2> HIDE DEF Bad
  <2> QED BY <2>1, LeastOf
<1>2. i \in 1..k /\ tr[i] # us[i]
  BY <1>1
<1>3. i # 1
  BY <1>2 DEF Trace
<1>4. i - 1 \in 1..k /\ i - 1 \in 1..m - 1 /\ i - 1 \in 1..n - 1 /\ (i - 1) + 1 = i
  BY <1>2, <1>3
<1>5. tr[i - 1] = us[i - 1]
  BY <1>1, <1>4
<1>6. tr[i] = After(rs, company, t, i - 1, tr[i - 1]) /\ us[i] = After(rs, company, t, i - 1, us[i - 1])
  BY <1>4 DEF Trace
<1> QED BY <1>2, <1>5, <1>6

(* The loop ends after the same number of rules, at the same point. *)
LEMMA EndsAgree ==
    ASSUME NEW rs, NEW company, NEW t, NEW m, NEW n, NEW p, NEW q,
           Leads(rs, company, t, m, p), m \notin DOMAIN rs.rules,
           Leads(rs, company, t, n, q), n \notin DOMAIN rs.rules
    PROVE  p = q
<1>1. m \in Nat \ {0} /\ n \in Nat \ {0}
  BY DEF Leads
<1>2. PICK tr : Trace(rs, company, t, m, tr) /\ tr[m] = p
  BY DEF Leads
<1>3. PICK us : Trace(rs, company, t, n, us) /\ us[n] = q
  BY DEF Leads
<1>4. m = n
  <2>1. m < n => m \in 1..n - 1
    BY <1>1
  <2>2. n < m => n \in 1..m - 1
    BY <1>1
  <2>3. ~(m < n) /\ ~(n < m)
    BY <1>2, <1>3, <2>1, <2>2 DEF Trace
  <2> QED BY <1>1, <2>3
<1>5. tr[m] = us[m]
  BY <1>1, <1>2, <1>3, <1>4, TracesAgree
<1> QED BY <1>2, <1>3, <1>4, <1>5

(* One rule more. *)
LEMMA TraceGoesOn ==
    ASSUME NEW rs, NEW company, NEW t, NEW n, NEW p, Leads(rs, company, t, n, p),
           n \in DOMAIN rs.rules
    PROVE  Leads(rs, company, t, n + 1, After(rs, company, t, n, p))
<1>1. n \in Nat \ {0}
  BY DEF Leads
<1>2. PICK tr : Trace(rs, company, t, n, tr) /\ tr[n] = p
  BY DEF Leads
<1> DEFINE a == After(rs, company, t, n, p)
           us == [k \in 1..n + 1 |-> IF k = n + 1 THEN a ELSE tr[k]]
<1> HIDE DEF a
<1>3. us[1] = Start
  BY <1>1, <1>2 DEF Trace
<1>4. ASSUME NEW i \in 1..n
      PROVE  i \in DOMAIN rs.rules /\ us[i + 1] = After(rs, company, t, i, us[i])
  <2>1. us[i] = tr[i]
    BY <1>1
  <2>2. CASE i = n
    <3>1. us[i + 1] = a
      BY <1>1, <2>2
    <3> QED BY <1>2, <2>1, <2>2, <3>1 DEF a
  <2>3. CASE i # n
    <3>1. i \in 1..n - 1 /\ us[i + 1] = tr[i + 1]
      BY <1>1, <2>3
    <3> QED BY <1>2, <2>1, <3>1 DEF Trace
  <2> QED BY <2>2, <2>3
<1>5. us[n + 1] = a /\ n + 1 \in Nat \ {0} /\ (n + 1) - 1 = n
  BY <1>1
<1> HIDE DEF us
<1>6. Trace(rs, company, t, n + 1, us)
  BY <1>3, <1>4, <1>5 DEF Trace
<1> QED BY <1>5, <1>6 DEF Leads, a

(* The signals that the database may return first are of one instant, and give the same *)
(* multiplier.                                                                          *)
LEMMA OneMultiplier ==
    ASSUME NEW company \in Companies, NEW t, NEW rule, NEW s \in LatestFor(rule, company, t)
    PROVE  s # None /\ Multiplier(rule, s.from, t) = MultiplierFor(rule, company, t)
<1> DEFINE first == CHOOSE o \in LatestFor(rule, company, t) : TRUE
<1>1. first \in LatestFor(rule, company, t)
  OBVIOUS
<1>2. s \in SignalsFor(rule, company, t) /\ first \in SignalsFor(rule, company, t)
  BY <1>1 DEF LatestFor
<1>3. s.from <= first.from /\ first.from <= s.from
  BY <1>1, <1>2 DEF LatestFor
<1>4. s \in company.signals /\ first \in company.signals
  BY <1>2 DEF SignalsFor, Visible
<1>5. s # None /\ s.from \in Int /\ first.from \in Int
  BY <1>4, ScoringAssumption
<1>6. s.from = first.from
  BY <1>3, <1>5
<1>7. MultiplierFor(rule, company, t) = Multiplier(rule, first.from, t)
  BY <1>2 DEF MultiplierFor
<1> QED BY <1>5, <1>6, <1>7

(* A rule that is passed leaves the loop where it was. *)
LEMMA PassHere ==
    ASSUME IInv, PassRule
    PROVE  Here' = Here /\ After(request.set, request.company, request.as_of, next, Here) = Here
<1>1. ~(Rule.active /\ Decided(Rule) = "yes") /\ UNCHANGED <<used, totals, critical, contributions>>
  BY DEF PassRule
<1>2. Here' = Here
  BY <1>1 DEF Here, Counted
<1>3. ~(/\ request.set.rules[next].active
        /\ Matches(request.set.rules[next].condition, FactsOf(request.company, request.as_of)) = "yes")
  BY <1>1 DEF Rule, Decided
<1>4. After(request.set, request.company, request.as_of, next, Here) = Here
  BY <1>3 DEF After
<1> QED BY <1>2, <1>4

(* What a list of contributions says without their evidence. *)
LEMMA CountedAppend ==
    ASSUME NEW matches \in Seq(Contribution), NEW c \in Contribution
    PROVE  Counted(Append(matches, c)) = Append(Counted(matches), <<c.rule, c.multiplier, c.points>>)
<1> DEFINE more == Append(matches, c)
           n == Len(matches)
           x == <<c.rule, c.multiplier, c.points>>
<1>1. /\ n \in Nat /\ DOMAIN matches = 1..n /\ DOMAIN more = 1..n + 1
      /\ more[n + 1] = c /\ \A k \in 1..n : more[k] = matches[k]
  BY AppendProperties
<1>2. /\ DOMAIN Counted(matches) = 1..n
      /\ \A k \in 1..n : Counted(matches)[k] = <<matches[k].rule, matches[k].multiplier, matches[k].points>>
  BY <1>1 DEF Counted
<1>3. Counted(more) = [k \in 1..n + 1 |-> <<more[k].rule, more[k].multiplier, more[k].points>>]
  BY <1>1 DEF Counted
<1> HIDE DEF more, n, x
<1>4. Counted(matches) \in Seq(Nat \X Int \X Int)
  <2>1. \A k \in 1..n : matches[k] \in Contribution
    BY <1>1
  <2>2. ASSUME NEW k \in 1..n PROVE Counted(matches)[k] \in Nat \X Int \X Int
    <3>1. matches[k].rule \in Nat /\ matches[k].multiplier \in Int /\ matches[k].points \in Int
      BY <2>1 DEF Contribution
    <3>2. Counted(matches)[k] = <<matches[k].rule, matches[k].multiplier, matches[k].points>>
      BY <1>2
    <3>3. \A a \in Nat, b \in Int, i \in Int : <<a, b, i>> \in Nat \X Int \X Int
      OBVIOUS
    <3> QED BY <3>1, <3>2, <3>3
  <2>3. Counted(matches) = [k \in 1..n |-> Counted(matches)[k]]
    BY <1>1, <1>2 DEF Counted
  <2>4. Counted(matches) \in [1..n -> Nat \X Int \X Int]
    BY <2>2, <2>3
  <2> QED BY <1>1, <2>4, SeqDef
<1>5. x \in Nat \X Int \X Int
  BY DEF Contribution, x
<1>6. Len(Counted(matches)) = n
  BY <1>1, <1>2, <1>4, LenProperties
<1>7. /\ Append(Counted(matches), x) \in Seq(Nat \X Int \X Int)
      /\ Len(Append(Counted(matches), x)) = n + 1
      /\ Append(Counted(matches), x)[n + 1] = x
      /\ \A k \in 1..n : Append(Counted(matches), x)[k] = Counted(matches)[k]
  BY <1>4, <1>5, <1>6, AppendProperties
<1>8. Append(Counted(matches), x) = [k \in 1..n + 1 |-> Append(Counted(matches), x)[k]]
  <2>1. Append(Counted(matches), x) \in [1..n + 1 -> Nat \X Int \X Int]
    BY <1>7, LenProperties
  <2> QED BY <2>1
<1>9. \A k \in 1..n + 1 : Append(Counted(matches), x)[k] = <<more[k].rule, more[k].multiplier, more[k].points>>
  <2> TAKE k \in 1..n + 1
  <2>1. CASE k = n + 1
    BY <1>1, <1>7, <2>1 DEF x
  <2>2. CASE k # n + 1
    <3>1. k \in 1..n
      BY <1>1, <2>2
    <3> QED BY <1>1, <1>2, <1>7, <3>1
  <2> QED BY <2>1, <2>2
<1>10. Append(Counted(matches), x) = [k \in 1..n + 1 |-> <<more[k].rule, more[k].multiplier, more[k].points>>]
  BY <1>8, <1>9
<1> QED BY <1>3, <1>10 DEF more, x

(* A rule that counts takes the loop where After says, whatever evidence was chosen. *)
LEMMA CountHere ==
    ASSUME IInv, CountRule
    PROVE  Here' = After(request.set, request.company, request.as_of, next, Here)
<1> DEFINE rs == request.set
           company == request.company
           t == request.as_of
           m == MultiplierFor(Rule, company, t)
           e == Quantize(Rule.points * m)
           capped == Rule.group # Blank /\ Rule.cap # None /\ e > 0
           points == Capped(Rule, e)
<1>1. PICK s \in IF Relevant(Rule) = {} THEN {None} ELSE Evidence(Rule) : Contribute(Rule, s)
  BY DEF CountRule
<1>2. company \in Companies /\ pc = "matching" /\ next \in DOMAIN rs.rules /\ Rule = rs.rules[next]
  BY RuleTyped DEF CountRule, Rule
<1>3. Relevant(Rule) = SignalsFor(Rule, company, t) /\ Evidence(Rule) = LatestFor(Rule, company, t)
  BY DEF Relevant, Evidence, SignalsFor, LatestFor
<1>4. (IF s = None THEN Unit ELSE Multiplier(Rule, s.from, t)) = m
  <2>1. CASE Relevant(Rule) = {}
    BY <1>1, <1>3, <2>1 DEF MultiplierFor
  <2>2. CASE Relevant(Rule) # {}
    BY <1>1, <1>2, <1>3, <2>2, OneMultiplier
  <2> QED BY <2>1, <2>2
<1> DEFINE new == [rule |-> next, multiplier |-> m, points |-> points, evidence |-> s]
<1>5. /\ used' = IF capped THEN [used EXCEPT ![Rule.group] = @ + points] ELSE used
      /\ contributions' = Append(contributions, new)
      /\ totals' = [totals EXCEPT ![Rule.dimension] = @ + points]
      /\ critical' = Outcome(Rule)
  BY <1>1, <1>4 DEF Contribute
<1>6. PICK c : contributions' = Append(contributions, c) /\ c \in Contribution
                /\ c.rule = next /\ c.multiplier = m /\ c.points = points
  <2>1. new.rule = next /\ new.multiplier = m /\ new.points = points
    OBVIOUS
  <2>2. new \in Contribution
    <3>1. next \in Nat \ {0}
      BY DEF IInv, TypeOK
    <3>2. m \in Int
      BY <1>2, <1>4, RuleTyped, MultiplierInt DEF Unit
    <3>3. points \in Int
      <4>1. Rule.points * m \in Int
        <5> HIDE DEF m
        <5> QED BY <1>2, <3>2, RuleTyped
      <4>2. e \in Int
        BY <4>1, QuantizeInt
      <4>3. used \in [Groups -> Nat] /\ Rule.group \in Groups \cup {Blank}
            /\ (Rule.cap # None => Rule.cap \in Int)
        BY <1>2, RuleTyped DEF IInv, TypeOK
      <4> HIDE DEF e
      <4>4. capped => Rule.cap - used[Rule.group] \in Int
        BY <4>3
      <4> QED BY <4>2, <4>4 DEF Capped, AtLeastZero, Smaller
    <3>4. s \in {None} \cup UNION {c.signals : c \in Companies}
      BY <1>1, <1>2, <1>3 DEF SignalsFor, LatestFor, Visible
    <3> HIDE DEF m, points
    <3> QED BY <3>1, <3>2, <3>3, <3>4 DEF Contribution
  <2> HIDE DEF new
  <2> QED BY <1>5, <2>1, <2>2
<1>7. Counted(contributions)' = Append(Counted(contributions), <<next, m, points>>)
  BY <1>6, CountedAppend DEF IInv, Counted
<1>8. points = IF capped THEN AtLeastZero(Smaller(e, Rule.cap - used[Rule.group])) ELSE e
  BY DEF Capped
<1>9. Rule.active /\ Matches(Rule.condition, FactsOf(company, t)) = "yes"
  BY DEF CountRule, Applies, Decided
<1>10. /\ Here' = [used |-> used', totals |-> totals', critical |-> critical',
                   counted |-> Counted(contributions)']
       /\ Here.used = used /\ Here.totals = totals /\ Here.critical = critical
       /\ Here.counted = Counted(contributions)
  BY DEF Here
<1>11. After(rs, company, t, next, Here) =
         [used |-> IF capped THEN [used EXCEPT ![Rule.group] = @ + points] ELSE used,
          totals |-> [totals EXCEPT ![Rule.dimension] = @ + points],
          critical |-> IF Rule.outcome # Blank THEN Rule.outcome ELSE critical,
          counted |-> Append(Counted(contributions), <<next, m, points>>)]
  BY <1>2, <1>8, <1>9, <1>10 DEF After
<1> QED BY <1>5, <1>7, <1>10, <1>11 DEF Outcome

(* The engine's names for what the totals give. *)
LEMMA TotalsGive ==
    /\ BestValue = BestOf(request.set, totals) /\ Tied = TiedOf(request.set, totals)
    /\ \A d : Value(d) = ValueOf(request.set, totals, d)
<1>1. BestValue = BestOf(request.set, totals)
  BY DEF BestValue, BestOf, Dimension
<1>2. Tied = TiedOf(request.set, totals)
  BY Zenon DEF Tied, TiedOf, Dimension, BestValue, BestOf
<1>3. \A d : Value(d) = ValueOf(request.set, totals, d)
  BY <1>1 DEF Value, ValueOf, Dimension
<1> QED BY <1>1, <1>2, <1>3

(* One dimension of the formula more. *)
LEMMA WeighedMore ==
    ASSUME NEW rs, NEW v, NEW S, NEW d \in Dimensions \cup {"BEST_PRODUCT"}, d \notin S,
           \A c \in Dimensions \cup {"BEST_PRODUCT"} : Part(rs, v, S, c) \in Int,
           Quantize(ValueOf(rs, v, d) * rs.formula[d]) \in Int
    PROVE  Weighed(rs, v, S \cup {d}) = Weighed(rs, v, S) + Quantize(ValueOf(rs, v, d) * rs.formula[d])
<1> DEFINE q == Quantize(ValueOf(rs, v, d) * rs.formula[d])
           old(c) == Part(rs, v, S, c)
           new(c) == Part(rs, v, S \cup {d}, c)
<1>1. \A c : c # d => new(c) = old(c)
  BY DEF Part
<1>2. old(d) = 0 /\ new(d) = q
  BY DEF Part
<1>3. /\ old("ICP") \in Int /\ old("MES") \in Int /\ old("CMMS") \in Int /\ old("PULSE") \in Int
      /\ old("INTENT") \in Int /\ old("PARTNER_FIT") \in Int /\ old("CHANNEL") \in Int
      /\ old("ACTIVITY") \in Int /\ old("CONFLICT") \in Int /\ old("BEST_PRODUCT") \in Int
  BY DEF Dimensions
<1>4. /\ Weighed(rs, v, S) = old("ICP") + old("MES") + old("CMMS") + old("PULSE") + old("INTENT")
           + old("PARTNER_FIT") + old("CHANNEL") + old("ACTIVITY") + old("CONFLICT")
           + old("BEST_PRODUCT")
      /\ Weighed(rs, v, S \cup {d}) = new("ICP") + new("MES") + new("CMMS") + new("PULSE")
           + new("INTENT") + new("PARTNER_FIT") + new("CHANNEL") + new("ACTIVITY")
           + new("CONFLICT") + new("BEST_PRODUCT")
  BY DEF Weighed
<1>5. d \in {"ICP", "MES", "CMMS", "PULSE", "INTENT", "PARTNER_FIT", "CHANNEL", "ACTIVITY",
             "CONFLICT", "BEST_PRODUCT"} /\ q \in Int
  BY DEF Dimensions
<1> HIDE DEF q, old, new
<1>6. Weighed(rs, v, S \cup {d}) = Weighed(rs, v, S) + q
  BY <1>1, <1>2, <1>3, <1>4, <1>5
<1> QED BY <1>6 DEF q

(* The state of the score between two steps: where the loop over the rules is, the sum *)
(* of the dimensions weighed so far, and that the last snapshot is what its inputs     *)
(* give.                                                                               *)
Scored(snapshot) ==
    \E n, p :
        /\ Leads(snapshot.set, snapshot.company, snapshot.as_of, n, p)
        /\ n \notin DOMAIN snapshot.set.rules
        /\ Numbers(snapshot) = ScoreOf(snapshot.set, snapshot.company, snapshot.as_of, p)

BetweenCalls == pc = "idle" => Here = Start /\ priority = 0
InLoop == pc # "idle" => Leads(request.set, request.company, request.as_of, next, Here)
NothingWeighed == pc = "matching" => priority = 0
SumKept ==
    pc = "weighing" =>
        /\ next \notin DOMAIN request.set.rules
        /\ priority = Weighed(request.set, totals, DOMAIN request.set.formula \ left)

ScoreInv == BetweenCalls /\ InLoop /\ NothingWeighed /\ SumKept /\ (last # None => Scored(last))

(* Nothing is counted at the start. *)
LEMMA NothingCounted ==
    /\ Counted(<<>>) = <<>>
    /\ \A rs, company, t : Leads(rs, company, t, 1, Start)
<1>1. Counted(<<>>) = <<>>
  BY DEF Counted
<1>2. ASSUME NEW rs, NEW company, NEW t PROVE Leads(rs, company, t, 1, Start)
  <2>1. Trace(rs, company, t, 1, <<Start>>) /\ <<Start>>[1] = Start
    BY DEF Trace
  <2> QED BY <2>1 DEF Leads
<1> QED BY <1>1, <1>2

(* Before the first call, and after every one. *)
LEMMA StartHere ==
    ASSUME used = [g \in Groups |-> 0], totals = [d \in Dimensions |-> 0], critical = Blank,
           contributions = <<>>
    PROVE  Here = Start
BY NothingCounted DEF Here, Start

LEMMA InitScore == Init => ScoreInv
BY StartHere DEF Init, ScoreInv, BetweenCalls, InLoop, NothingWeighed, SumKept

LEMMA ReturnScore ==
    ASSUME Return
    PROVE  BetweenCalls' /\ InLoop' /\ NothingWeighed' /\ SumKept'
<1>1. /\ used' = [g \in Groups |-> 0] /\ totals' = [d \in Dimensions |-> 0] /\ critical' = Blank
      /\ contributions' = <<>> /\ priority' = 0 /\ pc' = "idle"
  BY DEF Return
<1>2. Here' = Start
  BY <1>1, NothingCounted DEF Here, Start
<1> QED BY <1>1, <1>2 DEF BetweenCalls, InLoop, NothingWeighed, SumKept

(* A call begins at the start. *)
LEMMA LoadScore ==
    ASSUME IInv, ScoreInv, NEW rs \in RuleSets, NEW company \in Companies, NEW t \in Instants,
           NEW simulate \in BOOLEAN, Load(rs, company, t, simulate)
    PROVE  ScoreInv'
<1>1. /\ pc = "idle" /\ pc' = "matching" /\ UNCHANGED <<loopVars, left, priority, last>>
      /\ request'.set = rs /\ request'.company = company /\ request'.as_of = t
  BY DEF Load
<1>2. next' = 1 /\ Here' = Start /\ priority' = 0
  BY <1>1 DEF IInv, Reset, ScoreInv, BetweenCalls, Here, loopVars
<1>3. InLoop'
  BY <1>1, <1>2, NothingCounted DEF InLoop
<1>4. last' # None => Scored(last')
  BY <1>1 DEF ScoreInv
<1> QED BY <1>1, <1>2, <1>3, <1>4 DEF ScoreInv, BetweenCalls, NothingWeighed, SumKept

(* A rule, matching or not, is one step of the loop. *)
LEMMA RuleScore ==
    ASSUME IInv, ScoreInv, PassRule \/ CountRule
    PROVE  ScoreInv'
<1>1. /\ pc = "matching" /\ next \in DOMAIN request.set.rules /\ next' = next + 1
      /\ UNCHANGED <<pc, request, left, priority, last>>
  BY DEF PassRule, CountRule
<1>2. Here' = After(request.set, request.company, request.as_of, next, Here)
  BY PassHere, CountHere
<1>3. Leads(request.set, request.company, request.as_of, next, Here)
  BY <1>1 DEF ScoreInv, InLoop
<1>4. Leads(request.set, request.company, request.as_of, next + 1,
            After(request.set, request.company, request.as_of, next, Here))
  BY <1>1, <1>3, TraceGoesOn
<1>5. InLoop'
  BY <1>1, <1>2, <1>4 DEF InLoop
<1>6. last' # None => Scored(last')
  BY <1>1 DEF ScoreInv
<1> QED BY <1>1, <1>5, <1>6 DEF ScoreInv, BetweenCalls, NothingWeighed, SumKept

(* A call that fails stops where it is. *)
LEMMA FailScore ==
    ASSUME IInv, ScoreInv, RuleRaises \/ Unclassified
    PROVE  ScoreInv'
<1>1. /\ pc # "idle" /\ pc' = "failed" /\ UNCHANGED <<request, loopVars, left, priority, last>>
  BY DEF RuleRaises, Unclassified, Fail
<1>2. Here' = Here
  BY <1>1 DEF Here, Counted, loopVars
<1>3. InLoop'
  BY <1>1, <1>2 DEF ScoreInv, InLoop, loopVars
<1>4. last' # None => Scored(last')
  BY <1>1 DEF ScoreInv
<1> QED BY <1>1, <1>3, <1>4 DEF ScoreInv, BetweenCalls, NothingWeighed, SumKept

(* Nothing is weighed yet. *)
LEMMA SumScore ==
    ASSUME IInv, ScoreInv, Sum
    PROVE  ScoreInv'
<1>1. /\ pc = "matching" /\ pc' = "weighing" /\ next \notin DOMAIN request.set.rules
      /\ left' = DOMAIN request.set.formula
      /\ UNCHANGED <<request, loopVars, priority, last>>
  BY DEF Sum
<1>2. Here' = Here
  BY <1>1 DEF Here, Counted, loopVars
<1>3. InLoop'
  BY <1>1, <1>2 DEF ScoreInv, InLoop, loopVars
<1>4. Weighed(request.set, totals, {}) = 0
  BY DEF Weighed, Part
<1>5. priority' = 0 /\ DOMAIN request.set.formula \ left' = {}
  BY <1>1 DEF ScoreInv, NothingWeighed
<1>6. SumKept'
  BY <1>1, <1>4, <1>5 DEF SumKept, loopVars
<1>7. last' # None => Scored(last')
  BY <1>1 DEF ScoreInv
<1> QED BY <1>1, <1>3, <1>6, <1>7 DEF ScoreInv, BetweenCalls, NothingWeighed

(* One dimension of the formula, whichever comes next. *)
LEMMA WeighScore ==
    ASSUME IInv, ScoreInv, NEW d \in left, Weigh(d)
    PROVE  ScoreInv'
<1> DEFINE rs == request.set
           S == DOMAIN rs.formula \ left
           q == Quantize(ValueOf(rs, totals, d) * rs.formula[d])
<1>1. /\ pc = "weighing" /\ pc' = "weighing" /\ left' = left \ {d}
      /\ priority' = priority + Quantize(Value(d) * rs.formula[d])
      /\ UNCHANGED <<request, loopVars, last>>
  BY DEF Weigh
<1>2. left \subseteq DOMAIN rs.formula /\ DOMAIN rs.formula \subseteq Dimensions \cup {"BEST_PRODUCT"}
  BY <1>1, ScoringAssumption DEF IInv, TypeOK, RequestTyped
<1>3. \A c \in DOMAIN rs.formula : Quantize(ValueOf(rs, totals, c) * rs.formula[c]) \in Int
  BY <1>1, ValueInt, TotalsGive
<1>4. \A c : Part(rs, totals, S, c) \in Int
  BY <1>3 DEF Part
<1>5. DOMAIN rs.formula \ left' = S \cup {d} /\ d \notin S /\ d \in DOMAIN rs.formula
  BY <1>1, <1>2
<1> HIDE DEF S
<1>6. Weighed(rs, totals, S \cup {d}) = Weighed(rs, totals, S) + q
  BY <1>2, <1>3, <1>4, <1>5, WeighedMore
<1>7. priority' = Weighed(rs, totals, S) + q
  BY <1>1, TotalsGive DEF ScoreInv, SumKept, S
<1>8. SumKept'
  <2>1. next \notin DOMAIN rs.rules
    BY <1>1 DEF ScoreInv, SumKept
  <2> QED BY <1>1, <1>5, <1>6, <1>7, <2>1 DEF SumKept, loopVars
<1>9. Here' = Here
  BY <1>1 DEF Here, Counted, loopVars
<1>10. InLoop'
  BY <1>1, <1>9 DEF ScoreInv, InLoop, loopVars
<1>11. last' # None => Scored(last')
  BY <1>1 DEF ScoreInv
<1> QED BY <1>1, <1>8, <1>10, <1>11 DEF ScoreInv, BetweenCalls, NothingWeighed

(* A snapshot is what the end of the loop gives, once everything is weighed. *)
LEMMA SnapshotScore ==
    ASSUME IInv, ScoreInv, pc = "weighing", left = {}
    PROVE  Scored(Snapshot)
<1> DEFINE rs == request.set
<1>1. /\ Leads(rs, request.company, request.as_of, next, Here) /\ next \notin DOMAIN rs.rules
      /\ priority = Weighed(rs, totals, DOMAIN rs.formula \ left)
  BY DEF ScoreInv, InLoop, SumKept
<1>2. priority = Weighed(rs, totals, DOMAIN rs.formula)
  <2>1. DOMAIN rs.formula \ left = DOMAIN rs.formula
    OBVIOUS
  <2> QED BY <1>1, <2>1
<1>3. /\ Here.totals = totals /\ Here.critical = critical /\ Here.counted = Counted(contributions)
  BY DEF Here
<1>4. Numbers(Snapshot) =
        [set |-> rs, company |-> request.company, as_of |-> request.as_of,
         dimensions |-> [d \in Dimensions |-> Dimension(d)],
         priority |-> Clamp(priority),
         classification |-> IF critical # Blank THEN critical ELSE Classification(rs, Clamp(priority)),
         tied |-> Tied,
         contributions |-> Counted(contributions)]
  <2> DEFINE dimensions == [d \in Dimensions |-> Dimension(d)]
             classified == IF critical # Blank THEN critical ELSE Classification(rs, Clamp(priority))
  <2>1. Snapshot = [set |-> rs, company |-> request.company, as_of |-> request.as_of,
                    dimensions |-> dimensions, priority |-> Clamp(priority),
                    classification |-> classified, tied |-> Tied, contributions |-> contributions]
    BY DEF Snapshot
  <2> HIDE DEF dimensions, classified
  <2>2. Numbers(Snapshot) = [Snapshot EXCEPT !.contributions = Counted(Snapshot.contributions)]
    BY DEF Numbers, Counted
  <2>3. Numbers(Snapshot) =
          [set |-> rs, company |-> request.company, as_of |-> request.as_of,
           dimensions |-> dimensions, priority |-> Clamp(priority),
           classification |-> classified, tied |-> Tied, contributions |-> Counted(contributions)]
    BY <2>1, <2>2
  <2> QED BY <2>3 DEF dimensions, classified
<1>5. [d \in Dimensions |-> Dimension(d)] = [d \in Dimensions |-> Clamp(Here.totals[d])]
  BY <1>3 DEF Dimension
<1>6. Numbers(Snapshot) = ScoreOf(rs, request.company, request.as_of, Here)
  BY <1>2, <1>3, <1>4, <1>5, TotalsGive DEF ScoreOf
<1>7. Snapshot.set = rs /\ Snapshot.company = request.company /\ Snapshot.as_of = request.as_of
  BY DEF Snapshot
<1> QED BY <1>1, <1>6, <1>7 DEF Scored

(* Every step keeps the score where the inputs lead it. *)
LEMMA ScoreStep == IInv /\ ScoreInv /\ [Next]_vars => ScoreInv'
<1> SUFFICES ASSUME IInv, ScoreInv, [Next]_vars PROVE ScoreInv'
  OBVIOUS
<1>1. ASSUME Save PROVE ScoreInv'
  <2>1. pc = "weighing" /\ left = {} /\ Return /\ (last' = last \/ last' = Snapshot)
    BY <1>1 DEF Save
  <2>2. Scored(Snapshot)
    BY <2>1, SnapshotScore
  <2>3. last' # None => Scored(last')
    BY <2>1, <2>2 DEF ScoreInv
  <2> QED BY <2>1, <2>3, ReturnScore DEF ScoreInv
<1>2. ASSUME Abort PROVE ScoreInv'
  BY <1>2, ReturnScore DEF Abort, ScoreInv
<1>3. ASSUME UNCHANGED vars PROVE ScoreInv'
  <2>1. Here' = Here
    BY <1>3 DEF Here, Counted, vars, loopVars
  <2> QED BY <1>3, <2>1 DEF ScoreInv, BetweenCalls, InLoop, NothingWeighed, SumKept, vars, loopVars
<1> QED BY <1>1, <1>2, <1>3, LoadScore, RuleScore, FailScore, SumScore, WeighScore DEF Next

(* Where the score stands, in every reachable state. *)
LEMMA AlwaysScore == Spec => []ScoreInv
BY AlwaysIInv, InitScore, ScoreStep, PTL DEF Spec

(* Every snapshot says what ScoreOf computes from its rule set, company and instant: the *)
(* rules taken in their order, each with the latest evidence, caps and outcomes applied  *)
(* along the way, and the clamped weighted sum of the formula.                           *)
THEOREM SnapshotsAreTheScore == Spec => [](last # None => Scored(last))
<1>1. ScoreInv => (last # None => Scored(last))
  BY DEF ScoreInv
<1> QED BY <1>1, AlwaysScore, PTL

(* For the same rule set, company and instant, every snapshot says the same: whichever *)
(* of the signals of one instant the database returns, in whatever order the formula   *)
(* is weighed, and whatever calls, failed or simulated, lie between the two.           *)
THEOREM SameInputsAlwaysSameScore == Spec => SameInputsSameScore
<1> DEFINE Same ==
      last # None /\ last' # last /\ last'.set = last.set
      /\ last'.company = last.company /\ last'.as_of = last.as_of
      => Numbers(last') = Numbers(last)
<1>1. ASSUME IInv, ScoreInv, ScoreInv', [Next]_vars PROVE [Same]_vars
  <2> SUFFICES ASSUME last # None, last' # last, last'.set = last.set,
                      last'.company = last.company, last'.as_of = last.as_of
               PROVE  Numbers(last') = Numbers(last)
    OBVIOUS
  <2>1. Scored(last)
    BY <1>1 DEF ScoreInv
  <2>2. Scored(last')
    <3>1. CASE Save
      <4>1. pc = "weighing" /\ left = {} /\ last' = Snapshot
        BY <3>1 DEF Save
      <4> QED BY <1>1, <4>1, SnapshotScore
    <3>2. CASE ~Save
      BY <1>1, <2>1, <3>2 DEF Next, Load, PassRule, CountRule, RuleRaises, Fail, Sum, Weigh, Unclassified,
                  Abort, vars
    <3> QED BY <3>1, <3>2
  <2>3. PICK m, p : /\ Leads(last.set, last.company, last.as_of, m, p) /\ m \notin DOMAIN last.set.rules
                    /\ Numbers(last) = ScoreOf(last.set, last.company, last.as_of, p)
    BY <2>1 DEF Scored
  <2>4. PICK n, q : /\ Leads(last.set, last.company, last.as_of, n, q) /\ n \notin DOMAIN last.set.rules
                    /\ Numbers(last') = ScoreOf(last.set, last.company, last.as_of, q)
    BY <2>2 DEF Scored
  <2>5. p = q
    BY <2>3, <2>4, EndsAgree
  <2> QED BY <2>3, <2>4, <2>5
<1>2. IInv /\ ScoreInv /\ [Next]_vars => [Same]_vars
  BY <1>1, ScoreStep
<1>3. SameInputsSameScore <=> [][Same]_vars
  BY PTL DEF SameInputsSameScore
<1> QED BY <1>2, <1>3, AlwaysIInv, AlwaysScore, PTL DEF Spec
=============================================================================
