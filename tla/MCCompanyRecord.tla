--------------------------- MODULE MCCompanyRecord ---------------------------
(* A small instance of CompanyRecord for TLC. *)
EXTENDS CompanyRecord

CONSTANTS r1, r2

\* two competences that disagree on the phone and exchange the CNAEs
MCRow == [r \in Runs |->
    IF r = r1 THEN [values |-> [phone |-> "a"], primary |-> "10", secondary |-> {"20"}]
    ELSE [values |-> [phone |-> IF r = r2 THEN "b" ELSE ""], primary |-> "20", secondary |-> {"10"}]]
MCComplements == [r \in Runs |->
    IF r = r1 THEN {[kind |-> "company", values |-> [legal_name |-> "a", partner |-> "b"]]}
    ELSE {[kind |-> "company", values |-> [legal_name |-> "b", partner |-> ""]],
          [kind |-> "simples", values |-> [simples_option |-> "a"]]}]
MCChanges == {[phone |-> "b"], [phone |-> "", website |-> "b"], [website |-> "", legal_name |-> "c"]}
=============================================================================
