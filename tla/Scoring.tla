------------------------------- MODULE Scoring -------------------------------
(***************************************************************************)
(* The scoring engine (apps/scoring/engine.py): calculate_score loops over *)
(* the rules of a set, adds what each matching rule contributes to its     *)
(* dimension, decayed by the age of its evidence and cut by the cap of its *)
(* group, and turns the dimensions into a priority, a best product and a   *)
(* classification.  The loops are machines of one step per rule and per    *)
(* dimension, so that what they maintain can be stated and proved.         *)
(*                                                                         *)
(* Numbers are integers in units of SCORE_QUANTUM (0.001).  Time is in     *)
(* instants, DayLength of them to a day.  What a condition means is a      *)
(* parameter: see ScoringConditions.                                       *)
(***************************************************************************)
EXTENDS Integers, Sequences, FiniteSetsExt

CONSTANTS
    RuleSets,           \* rows of rule_set, each with its rules in order
    Companies,          \* companies, each with its facts and its signals
    Instants,           \* values of as_of
    DayLength,
    Groups,             \* values of group_key, besides Blank
    None,               \* NULL
    Matches(_, _),      \* condition_matches: "yes", "no" or "raises"
    SignalTypes(_),     \* _signal_types
    Accepted(_),        \* _validate_condition raises nothing
    NumbersGiven(_, _)  \* every text the condition needs as a number is one

Blank == ""     \* no group, no outcome, no text
Dimensions == {"ICP", "MES", "CMMS", "PULSE", "INTENT",
               "PARTNER_FIT", "CHANNEL", "ACTIVITY", "CONFLICT"}
ProductOrder == <<"MES", "CMMS", "PULSE">>
Products == {"MES", "CMMS", "PULSE"}
Outcomes == {"DISQUALIFIED", "CONFLICT"}
Targets == {"INDUSTRY", "PARTNER"}
RuleDimensions(target) == IF target = "INDUSTRY" THEN {"ICP", "INTENT"} \cup Products
                          ELSE {"PARTNER_FIT", "CHANNEL", "ACTIVITY", "CONFLICT"}
FormulaDimensions(target) == IF target = "INDUSTRY" THEN {"ICP", "BEST_PRODUCT", "INTENT"}
                             ELSE RuleDimensions(target)

Unit == 1000            \* 1 in quanta
Top == 100 * Unit       \* 100

\* the signals a query at t returns; until is expires_at
Visible(company, t) ==
    {s \in company.signals : s.active /\ s.from <= t /\ (s.until = None \/ s.until > t)}

FactsOf(company, t) ==
    [fields |-> company.fields, cnaes |-> company.cnaes,
     signal_types |-> {s.type : s \in Visible(company, t)}]

ASSUME ScoringAssumption ==
    /\ DayLength \in Nat \ {0} /\ Instants \subseteq Nat
    /\ Blank \notin Groups
    /\ \A company \in Companies : \A s \in company.signals : s # None /\ s.from \in Int
    /\ \A rs \in RuleSets :
         /\ rs.target \in Targets /\ DOMAIN rs.formula \subseteq Dimensions \cup {"BEST_PRODUCT"}
         /\ \A d \in DOMAIN rs.formula : rs.formula[d] \in Int
         /\ \A i \in DOMAIN rs.thresholds : rs.thresholds[i].min \in Int
         /\ \A i \in DOMAIN rs.rules :
              LET r == rs.rules[i] IN
              /\ r.dimension \in Dimensions /\ r.points \in Int
              /\ r.group \in Groups \cup {Blank} /\ (r.cap # None => r.cap \in Int)
              /\ r.outcome \in Outcomes \cup {Blank}
              /\ DOMAIN r.curve \subseteq Nat
              /\ \A k \in DOMAIN r.curve : r.curve[k].multiplier \in Int

\* What ScoringConditions ensures: a condition that was accepted can be decided if
\* the comparisons that need numbers get them.
ASSUME ConditionsAssumption ==
    \A rs \in RuleSets, company \in Companies, t \in Instants :
        \A i \in DOMAIN rs.rules :
            LET c == rs.rules[i].condition IN
            /\ Matches(c, FactsOf(company, t)) \in {"yes", "no", "raises"}
            /\ Accepted(c) /\ NumbersGiven(c, FactsOf(company, t))
               => Matches(c, FactsOf(company, t)) # "raises"

VARIABLES
    pc,             \* "idle", "matching", "weighing", or "failed" for an exception
    request,        \* the rule set, the company, as_of, and whether it is a simulation
    next,           \* the next rule
    used,           \* group_totals
    contributions,  \* matches
    totals,         \* dimensions, before they are clamped
    critical,       \* critical_outcome
    left,           \* dimensions of the formula still to be weighed
    priority,
    last            \* the snapshot made last, or None

loopVars == <<next, used, contributions, totals, critical>>
vars == <<pc, request, loopVars, left, priority, last>>

Init ==
    /\ pc = "idle" /\ request = None
    /\ next = 1 /\ used = [g \in Groups |-> 0] /\ contributions = <<>>
    /\ totals = [d \in Dimensions |-> 0] /\ critical = Blank
    /\ left = {} /\ priority = 0
    /\ last = None

-----------------------------------------------------------------------------
(* validate_rule_set *)

FormulaValid(rs) ==
    LET positive == {d \in DOMAIN rs.formula : rs.formula[d] > 0} IN
    /\ DOMAIN rs.formula = FormulaDimensions(rs.target)
    /\ MapThenSumSet(LAMBDA d : rs.formula[d], positive) = Unit

ThresholdsValid(rs) ==
    LET I == DOMAIN rs.thresholds IN
    /\ \E i \in I : rs.thresholds[i].min = 0
    /\ \A i \in I : rs.thresholds[i].min \in 0..Top /\ rs.thresholds[i].classification # Blank
    /\ \A i, k \in I : i # k => /\ rs.thresholds[i].min # rs.thresholds[k].min
                                /\ rs.thresholds[i].classification # rs.thresholds[k].classification

CurveValid(curve) ==
    LET n == Len(curve) IN
    /\ n > 0 /\ curve[n].max_days = None
    /\ \A k \in 1..n - 1 : curve[k].max_days # None /\ curve[k].max_days >= 0
    /\ \A k \in 1..n - 2 : curve[k].max_days < curve[k + 1].max_days
    /\ \A k \in 1..n : curve[k].multiplier \in 0..Unit

RuleValid(rule, target) ==
    /\ Accepted(rule.condition)
    /\ rule.dimension \in RuleDimensions(target)
    /\ rule.decays => CurveValid(rule.curve)

Validates(rs) ==
    /\ FormulaValid(rs) /\ ThresholdsValid(rs)
    /\ rs.target = "INDUSTRY" => {rs.tie_order[i] : i \in DOMAIN rs.tie_order} = Products
    /\ \A i \in DOMAIN rs.rules : RuleValid(rs.rules[i], rs.target)

-----------------------------------------------------------------------------
(* Beginning and end of a call *)

\* An exception leaves the transaction of the call, a simulation rolls it back.
Return ==
    /\ pc' = "idle" /\ request' = None
    /\ next' = 1 /\ used' = [g \in Groups |-> 0] /\ contributions' = <<>>
    /\ totals' = [d \in Dimensions |-> 0] /\ critical' = Blank
    /\ left' = {} /\ priority' = 0

\* calculate_score refuses other targets and sets that are not published; it is
\* given a draft only by simulate_rule_set, which validates it first.
Load(rs, company, t, simulate) ==
    /\ pc = "idle"
    /\ rs.target = company.target
    /\ rs.status \in {"PUBLISHED"} \cup (IF simulate THEN {"DRAFT"} ELSE {})
    /\ simulate => Validates(rs)
    /\ pc' = "matching"
    /\ request' = [set |-> rs, company |-> company, as_of |-> t, simulate |-> simulate]
    /\ UNCHANGED <<loopVars, left, priority, last>>

Fail ==
    /\ pc' = "failed"
    /\ UNCHANGED <<request, loopVars, left, priority, last>>

Abort ==
    /\ pc = "failed"
    /\ Return
    /\ UNCHANGED last

-----------------------------------------------------------------------------
(* The loop over rule_set.rules.filter(active=True), in their order *)

DefaultCurve ==
    LET bucket(m, x) == [max_days |-> m, multiplier |-> x] IN
    <<bucket(30, 1000), bucket(60, 800), bucket(90, 600), bucket(180, 300), bucket(None, 100)>>

\* quantize to the nearest quantum, a half to the even one
Quantize(n) ==
    LET q == n \div Unit
        r == n % Unit IN
    IF 2 * r > Unit \/ (2 * r = Unit /\ q % 2 = 1) THEN q + 1 ELSE q

Smaller(a, b) == IF a <= b THEN a ELSE b
AtLeastZero(a) == IF a <= 0 THEN 0 ELSE a

\* decay_multiplier, with the evidence's observed_at
Multiplier(rule, from, t) ==
    LET age == AtLeastZero((t \div DayLength) - (from \div DayLength))
        curve == IF rule.curve = <<>> THEN DefaultCurve ELSE rule.curve
        fits == {k \in DOMAIN curve : curve[k].max_days = None \/ age <= curve[k].max_days} IN
    IF ~rule.decays THEN Unit
    ELSE IF fits = {} THEN 0
    ELSE curve[CHOOSE k \in fits : \A m \in fits : k <= m].multiplier

Relevant(rule) ==
    {s \in Visible(request.company, request.as_of) : s.type \in SignalTypes(rule.condition)}

EvidenceUnordered(rule) == Relevant(rule)    \* mutant: without order_by

\* next() over the signals in the order -observed_at; between equals the database chooses
Evidence(rule) == {s \in Relevant(rule) : \A o \in Relevant(rule) : o.from <= s.from}

\* the cap as if the group had given nothing yet
CappedAlone(rule, e) ==      \* mutant: the points used are not subtracted
    IF rule.group # Blank /\ rule.cap # None /\ e > 0 THEN AtLeastZero(Smaller(e, rule.cap)) ELSE e

Capped(rule, e) ==
    IF rule.group # Blank /\ rule.cap # None /\ e > 0
    THEN AtLeastZero(Smaller(e, rule.cap - used[rule.group]))
    ELSE e

OutcomeOfLast(rule) == rule.outcome     \* mutant: `or critical_outcome' forgotten

Outcome(rule) == IF rule.outcome # Blank THEN rule.outcome ELSE critical

\* one rule that matches, with its evidence, or None
Contribute(rule, s) ==
    LET multiplier == IF s = None THEN Unit ELSE Multiplier(rule, s.from, request.as_of)
        e == Quantize(rule.points * multiplier)
        points == Capped(rule, e) IN
    /\ used' = IF rule.group # Blank /\ rule.cap # None /\ e > 0
               THEN [used EXCEPT ![rule.group] = @ + points] ELSE used
    /\ contributions' = Append(contributions, [rule |-> next, multiplier |-> multiplier,
                                               points |-> points, evidence |-> s])
    /\ totals' = [totals EXCEPT ![rule.dimension] = @ + points]
    /\ critical' = Outcome(rule)

Decided(rule) ==
    Matches(rule.condition, FactsOf(request.company, request.as_of))

Applies(rule) == rule.active /\ Decided(rule) = "yes"

Rule == request.set.rules[next]

\* the rule is inactive or does not match
PassRule ==
    /\ pc = "matching" /\ next \in DOMAIN request.set.rules
    /\ ~Rule.active \/ Decided(Rule) = "no"
    /\ next' = next + 1
    /\ UNCHANGED <<pc, request, used, contributions, totals, critical, left, priority, last>>

CountRule ==
    /\ pc = "matching" /\ next \in DOMAIN request.set.rules /\ Applies(Rule)
    /\ \E s \in IF Relevant(Rule) = {} THEN {None} ELSE Evidence(Rule) : Contribute(Rule, s)
    /\ next' = next + 1
    /\ UNCHANGED <<pc, request, left, priority, last>>

\* condition_matches raises ScoringConfigurationError
RuleRaises ==
    /\ pc = "matching" /\ next \in DOMAIN request.set.rules
    /\ Rule.active /\ Decided(Rule) = "raises"
    /\ Fail

-----------------------------------------------------------------------------
(* From the dimensions to the snapshot *)

ClampTop(n) == Smaller(Top, n)      \* mutant: without max(ZERO, ...)

Clamp(n) == Smaller(Top, AtLeastZero(n))

Dimension(d) == Clamp(totals[d])

\* max() of the products, and those that reach it in the order of the set
BestValue ==
    IF request.set.target = "INDUSTRY" THEN Max({Dimension(d) : d \in Products}) ELSE 0

Tied ==
    LET leads(d) == d \in Products /\ Dimension(d) = BestValue
        inOrder == SelectSeq(request.set.tie_order, leads) IN
    IF request.set.target # "INDUSTRY" THEN <<>>
    ELSE IF inOrder = <<>> THEN SelectSeq(ProductOrder, leads) ELSE inOrder

Sum ==
    /\ pc = "matching" /\ next \notin DOMAIN request.set.rules
    /\ pc' = "weighing"
    /\ left' = DOMAIN request.set.formula
    /\ UNCHANGED <<request, loopVars, priority, last>>

Value(d) == IF d = "BEST_PRODUCT" THEN BestValue ELSE Dimension(d)

\* one dimension of the formula
Weigh(d) ==
    /\ pc = "weighing" /\ d \in left
    /\ left' = left \ {d}
    /\ priority' = priority + Quantize(Value(d) * request.set.formula[d])
    /\ UNCHANGED <<pc, request, loopVars, last>>

ReachedAbove(rs, p) ==      \* mutant: > instead of >=
    {i \in DOMAIN rs.thresholds : p > rs.thresholds[i].min}

\* the thresholds a priority reaches; the highest of them classifies, of equals the first
Reached(rs, p) == {i \in DOMAIN rs.thresholds : p >= rs.thresholds[i].min}

Classification(rs, p) ==
    LET R == Reached(rs, p)
        highest == {i \in R : \A k \in R : rs.thresholds[k].min <= rs.thresholds[i].min}
        i == CHOOSE j \in highest : \A k \in highest : j <= k IN
    rs.thresholds[i].classification

Unclassified ==
    /\ pc = "weighing" /\ left = {}
    /\ critical = Blank /\ Reached(request.set, Clamp(priority)) = {}
    /\ Fail

Snapshot ==
    [set |-> request.set, company |-> request.company, as_of |-> request.as_of,
     dimensions |-> [d \in Dimensions |-> Dimension(d)],
     priority |-> Clamp(priority),
     classification |-> IF critical # Blank THEN critical
                        ELSE Classification(request.set, Clamp(priority)),
     tied |-> Tied,
     contributions |-> contributions]

\* ScoreSnapshot and its contributions are created; a simulation only looks at them
Save ==
    /\ pc = "weighing" /\ left = {}
    /\ critical # Blank \/ Reached(request.set, Clamp(priority)) # {}
    /\ last' = IF request.simulate THEN last ELSE Snapshot
    /\ Return

Next ==
    \/ \E rs \in RuleSets, company \in Companies, t \in Instants, simulate \in BOOLEAN :
         Load(rs, company, t, simulate)
    \/ PassRule \/ CountRule \/ RuleRaises \/ Sum
    \/ \E d \in left : Weigh(d)
    \/ Unclassified \/ Save \/ Abort

Spec == Init /\ [][Next]_vars
-----------------------------------------------------------------------------
(* Properties *)

RequestTyped ==
    /\ pc = "idle" => request = None
    /\ pc # "idle" =>
         /\ request.set \in RuleSets /\ request.company \in Companies
         /\ request.as_of \in Instants /\ request.simulate \in BOOLEAN
         /\ left \subseteq DOMAIN request.set.formula

TypeOK ==
    /\ pc \in {"idle", "matching", "weighing", "failed"}
    /\ RequestTyped
    /\ next \in Nat \ {0}
    /\ used \in [Groups -> Nat] /\ totals \in [Dimensions -> Int]
    /\ critical \in Outcomes \cup {Blank}
    /\ priority \in Int
    /\ last # None => last.set \in RuleSets /\ last.priority \in 0..Top

\* docs/scoring-engine.md, "Controle de duplicidade e teto": what the capped rules of
\* a group have given together never exceeds the largest of their caps, in whatever
\* order small, large, zero and negative caps meet rules of several dimensions.
GroupsWithinCaps ==
    pc # "idle" =>
        \A g \in Groups : used[g] > 0 =>
            \E i \in 1..next - 1 :
                LET rule == request.set.rules[i] IN
                rule.group = g /\ rule.cap # None /\ used[g] <= rule.cap

\* "Regras criticas produzem DISQUALIFIED independentemente do Priority": a matching
\* rule with an outcome decides the classification, whatever rules without one follow
\* it and whatever the thresholds say.
CriticalPrevails ==
    last # None =>
        \A k \in DOMAIN last.contributions :
            last.set.rules[last.contributions[k].rule].outcome # Blank
            => last.classification \in Outcomes

\* A set that validate_rule_set accepts can score every company of its target: no
\* priority falls between the thresholds, and no condition raises, as long as the
\* comparisons that need numbers are given numbers, which validation does not ensure.
ValidSetsScore ==
    pc = "failed" =>
        \/ ~Validates(request.set)
        \/ \E i \in DOMAIN request.set.rules :
             ~NumbersGiven(request.set.rules[i].condition,
                           FactsOf(request.company, request.as_of))

\* the numbers of a snapshot, without the choice among signals of the same instant
Numbers(snapshot) ==
    [snapshot EXCEPT !.contributions =
        [k \in DOMAIN @ |-> <<@[k].rule, @[k].multiplier, @[k].points>>]]

\* "Para os mesmos dados, instante de referencia e conjunto de regras, o resultado deve
\* ser identico": although the database may return signals of one instant, and the
\* formula its dimensions, in any order.
SameInputsSameScore ==
    [][last # None /\ last' # last /\ last'.set = last.set
       /\ last'.company = last.company /\ last'.as_of = last.as_of
       => Numbers(last') = Numbers(last)]_vars
=============================================================================
