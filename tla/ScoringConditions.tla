-------------------------- MODULE ScoringConditions --------------------------
(***************************************************************************)
(* The conditions of scoring rules (apps/scoring): how the engine decides  *)
(* one, which signals it is about, and what validate_rule_set accepts.     *)
(*                                                                         *)
(* A condition is a tree: "all" and "any" have a sequence args, "not" has  *)
(* one arg, a leaf compares a field with the texts in items; list says     *)
(* whether they were given as a list.  "empty" is {} or a mixture.         *)
(***************************************************************************)
EXTENDS Integers, Sequences

CONSTANTS
    Number,         \* the number each text stands for, or NaN
    NaN,
    Finds,          \* pairs <<needle, text>>: the needle or prefix is in the text
    BadPatterns     \* regular expressions that are too long or do not compile

AllowedFields == {"company_type", "registration_status", "commercial_status", "state",
                  "municipality_code", "size_code", "segment", "primary_cnae", "cnaes",
                  "signal_types"}
Ordered == {"GT", "GTE", "LT", "LTE"}
AllowedOperators == Ordered \cup
    {"EQ", "NE", "IN", "NOT_IN", "BETWEEN", "EXISTS", "NOT_EXISTS", "CONTAINS_KEYWORD",
     "CONTAINS_ANY", "CONTAINS_ALL", "REGEX", "HAS_CNAE_PREFIX", "HAS_SIGNAL"}
MaxDepth == 5

Items(c) == {c.items[i] : i \in DOMAIN c.items}
IsNumber(text) == Number[text] # NaN
Answer(b) == IF b THEN "yes" ELSE "no"

\* _compare of the ordered operators: both sides go through _decimal, which raises
Compares(op, actual, expected) ==
    LET a == Number[actual]
        e == Number[expected] IN
    IF ~IsNumber(actual) \/ ~IsNumber(expected) THEN "raises"
    ELSE Answer(\/ op = "GT" /\ a > e
                \/ op = "GTE" /\ a >= e
                \/ op = "LT" /\ a < e
                \/ op = "LTE" /\ a <= e)

\* a chained comparison: the upper limit is not read below the lower one
Between(c, actual) ==
    LET lower == c.items[1]
        upper == c.items[2] IN
    IF ~c.list \/ Len(c.items) # 2 \/ ~IsNumber(lower) \/ ~IsNumber(actual) THEN "raises"
    ELSE IF Number[lower] > Number[actual] THEN "no"
    ELSE Compares("LTE", actual, upper)

\* a comparison of one field; facts.fields are the texts of the company
LeafMatches(c, facts) ==
    LET actual == facts.fields[c.field]
        equal == ~c.list /\ actual = c.items[1] IN
    CASE c.op = "EQ" -> Answer(equal)
      [] c.op = "NE" -> Answer(~equal)
      [] c.op \in Ordered -> IF c.list THEN "raises" ELSE Compares(c.op, actual, c.items[1])
      [] c.op = "IN" -> Answer(actual \in Items(c))
      [] c.op = "NOT_IN" -> Answer(actual \notin Items(c))
      [] c.op = "BETWEEN" -> Between(c, actual)
      [] c.op = "EXISTS" -> Answer(actual # "")
      [] c.op = "NOT_EXISTS" -> Answer(actual = "")
      [] c.op \in {"CONTAINS_KEYWORD", "CONTAINS_ANY"} ->
           Answer(\E t \in Items(c) : <<t, actual>> \in Finds)
      [] c.op = "CONTAINS_ALL" -> Answer(\A t \in Items(c) : <<t, actual>> \in Finds)
      [] c.op = "REGEX" -> IF c.items[1] \in BadPatterns THEN "raises"
                           ELSE Answer(<<c.items[1], actual>> \in Finds)
      [] c.op = "HAS_CNAE_PREFIX" ->
           Answer(\E t \in Items(c), code \in facts.cnaes : <<t, code>> \in Finds)
      [] c.op = "HAS_SIGNAL" -> Answer(Items(c) \cap facts.signal_types # {})
      [] OTHER -> "raises"

Opposite(answer) ==
    IF answer = "raises" THEN answer ELSE Answer(answer = "no")

\* condition_matches: "yes", "no" or "raises".  The children of a list are all
\* evaluated before all() or any() looks at one.
RECURSIVE MatchesAt(_, _, _)
MatchesAt(c, facts, depth) ==
    IF depth > MaxDepth \/ c.op = "empty" THEN "raises"
    ELSE IF c.op = "not" THEN Opposite(MatchesAt(c.arg, facts, depth + 1))
    ELSE IF c.op \in {"all", "any"} THEN
        LET answers == {MatchesAt(c.args[i], facts, depth + 1) : i \in DOMAIN c.args} IN
        IF answers = {} \/ "raises" \in answers THEN "raises"
        ELSE Answer(IF c.op = "all" THEN answers = {"yes"} ELSE "yes" \in answers)
    ELSE IF c.field \notin AllowedFields THEN "raises" ELSE LeafMatches(c, facts)

ConditionMatches(c, facts) == MatchesAt(c, facts, 0)

\* _signal_types: of every leaf, below a "not" as well
RECURSIVE ConditionSignals(_)
ConditionSignals(c) ==
    CASE c.op = "HAS_SIGNAL" -> Items(c)
      [] c.op \in {"all", "any"} -> UNION {ConditionSignals(c.args[i]) : i \in DOMAIN c.args}
      [] c.op = "not" -> ConditionSignals(c.arg)
      [] OTHER -> {}

\* _validate_condition accepts
RECURSIVE AcceptedAt(_, _)
AcceptedAt(c, depth) ==
    /\ depth <= MaxDepth
    /\ CASE c.op = "empty" -> FALSE
         [] c.op = "not" -> AcceptedAt(c.arg, depth + 1)
         [] c.op \in {"all", "any"} ->
              c.args # <<>> /\ \A i \in DOMAIN c.args : AcceptedAt(c.args[i], depth + 1)
         [] OTHER ->
              /\ c.field \in AllowedFields /\ c.op \in AllowedOperators
              /\ c.op = "BETWEEN" => c.list /\ Len(c.items) = 2
              /\ c.op \in {"IN", "NOT_IN"} => c.list
              /\ c.op = "REGEX" => c.items[1] \notin BadPatterns

ConditionAccepted(c) == AcceptedAt(c, 0)

\* the leaves whose comparison needs numbers, and the fields they need them of
RECURSIVE NumericLeaves(_)
NumericLeaves(c) ==
    CASE c.op \in {"all", "any"} -> UNION {NumericLeaves(c.args[i]) : i \in DOMAIN c.args}
      [] c.op = "not" -> NumericLeaves(c.arg)
      [] c.op \in Ordered \cup {"BETWEEN"} -> {c}
      [] OTHER -> {}

\* every number a condition asks for is one
NumbersGivenTo(c, facts) ==
    \A leaf \in NumericLeaves(c) :
        /\ leaf.op \in Ordered => ~leaf.list
        /\ \A t \in Items(leaf) \cup {facts.fields[leaf.field]} : IsNumber(t)
=============================================================================
