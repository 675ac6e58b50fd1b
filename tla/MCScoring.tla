----------------------------- MODULE MCScoring -----------------------------
(* A small instance of Scoring for TLC: conditions from ScoringConditions. *)
EXTENDS Scoring

CONSTANT NaN

\* the texts of the companies and of the conditions that stand for numbers
Texts == {"", "SP", "PR", "05", "03", "10", "1012", "("}
NumberOf == [t \in Texts |-> CASE t = "05" -> 5 [] t = "03" -> 3 [] t = "10" -> 10
                               [] t = "1012" -> 1012 [] OTHER -> NaN]

C == INSTANCE ScoringConditions WITH
         Number <- NumberOf, Finds <- {<<"10", "1012">>, <<"SP", "SP">>}, BadPatterns <- {"("}
MCMatches(c, facts) == C!ConditionMatches(c, facts)
MCSignalTypes(c) == C!ConditionSignals(c)
MCAccepted(c) == C!ConditionAccepted(c)
MCNumbersGiven(c, facts) == C!NumbersGivenTo(c, facts)

Leaf(field, op, item) == [op |-> op, field |-> field, items |-> <<item>>, list |-> FALSE]
Signal(type) == [op |-> "HAS_SIGNAL", field |-> "signal_types", items |-> <<type>>, list |-> FALSE]
All(a, b) == [op |-> "all", args |-> <<a, b>>]
Any(a, b) == [op |-> "any", args |-> <<a, b>>]
Not(a) == [op |-> "not", arg |-> a]

InState == Leaf("state", "EQ", "SP")
Food == [Leaf("primary_cnae", "HAS_CNAE_PREFIX", "10") EXCEPT !.list = TRUE]
Large == Leaf("size_code", "GTE", "03")
TooDeep == Not(Not(Not(Not(Not(Not(InState))))))

\* a rule without decay, group or outcome
Plain(dimension, condition, points) ==
    [dimension |-> dimension, condition |-> condition, points |-> points, decays |-> FALSE,
     curve |-> <<>>, group |-> "", cap |-> None, outcome |-> "", active |-> TRUE]
Grouped(rule, cap) == [rule EXCEPT !.group = "jobs", !.cap = cap]
Curve == <<[max_days |-> 0, multiplier |-> 1000], [max_days |-> 1, multiplier |-> 333],
           [max_days |-> None, multiplier |-> 0]>>
Decaying(rule) == [rule EXCEPT !.decays = TRUE, !.curve = Curve]
Critical(rule, outcome) == [rule EXCEPT !.outcome = outcome]

Industry(rules) ==
    [target |-> "INDUSTRY", status |-> "PUBLISHED", rules |-> rules,
     formula |-> [ICP |-> 350, BEST_PRODUCT |-> 350, INTENT |-> 300],
     tie_order |-> <<"CMMS", "MES", "PULSE">>,
     thresholds |-> <<[min |-> 0, classification |-> "COLD"],
                      [min |-> 45000, classification |-> "WATCH"],
                      [min |-> 80000, classification |-> "HOT"]>>]

Partner(rules) ==
    [target |-> "PARTNER", status |-> "PUBLISHED", rules |-> rules, tie_order |-> <<>>,
     formula |-> [PARTNER_FIT |-> 450, CHANNEL |-> 350, ACTIVITY |-> 200, CONFLICT |-> -1000],
     thresholds |-> <<[min |-> 0, classification |-> "LOW"],
                      [min |-> 65000, classification |-> "WARM"]>>]

\* three rules of one group that meet its caps in every order
CapSets ==
    {Industry(<<Grouped(Decaying(Plain("MES", Signal("JOB"), 30000)), a),
                Grouped(Plain("INTENT", Any(Signal("JOB"), Signal("NEWS")), 25005), b),
                Grouped(Plain("CMMS", InState, 60000), 40000)>>) : a \in {-1000, 0, 10000}, b \in {None, 40000}}

OtherSets ==
    { \* everything at its limits: 100 in each dimension, two products tied
      Industry(<<Plain("ICP", InState, 150000), Plain("MES", Food, 100000),
                 Plain("CMMS", Large, 100000), Plain("INTENT", InState, 100000)>>),
      \* an outcome, then a rule without one; and two outcomes
      Industry(<<Critical(Plain("ICP", InState, 0), "DISQUALIFIED"), Plain("MES", Food, 1)>>),
      Industry(<<Critical(Plain("ICP", InState, 0), "DISQUALIFIED"),
                 Critical(Plain("ICP", Not(Signal("NEWS")), -5), "CONFLICT"),
                 [Plain("MES", InState, 900) EXCEPT !.active = FALSE]>>),
      \* a draft, and two published sets that were edited after they were validated
      [Industry(<<Plain("ICP", All(InState, Food), 20000)>>) EXCEPT !.status = "DRAFT"],
      [Industry(<<>>) EXCEPT !.thresholds = Tail(@)],
      Industry(<<Plain("ICP", TooDeep, 1)>>),
      \* a threshold exactly met; partners with a penalty
      Industry(<<Plain("ICP", InState, 100000), Decaying(Plain("INTENT", Signal("NEWS"), 33334))>>),
      Partner(<<Plain("PARTNER_FIT", InState, 100000),
                Plain("CONFLICT", Leaf("state", "REGEX", "SP"), 80000)>>) }

MCRuleSets == CapSets \cup OtherSets

Fields(state, size) ==
    [company_type |-> "SP", registration_status |-> "SP", commercial_status |-> "SP",
     state |-> state, municipality_code |-> "", size_code |-> size, segment |-> "",
     primary_cnae |-> "1012"]
At(id, type, from, until) ==
    [id |-> id, type |-> type, from |-> from, until |-> until, active |-> TRUE]

\* two signals of one instant; one that expires; one still to come
MCCompanies ==
    { [target |-> "INDUSTRY", fields |-> Fields("SP", "05"), cnaes |-> {"1012"},
       signals |-> {At(1, "JOB", 0, None), At(2, "JOB", 3, None), At(3, "JOB", 3, None),
                    At(4, "NEWS", 1, 6), [At(5, "NEWS", 2, None) EXCEPT !.active = FALSE]}],
      [target |-> "INDUSTRY", fields |-> Fields("PR", ""), cnaes |-> {},
       signals |-> {At(6, "NEWS", 4, None)}],
      [target |-> "PARTNER", fields |-> Fields("SP", ""), cnaes |-> {}, signals |-> {}] }
MCInstants == {4, 6}
=============================================================================
