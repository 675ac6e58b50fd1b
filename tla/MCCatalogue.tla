----------------------------- MODULE MCCatalogue -----------------------------
(* A small instance of Catalogue for TLC. *)
EXTENDS Catalogue, TLC

MCStateOf == [t \in {"", " sp", "SP", "S"} |-> CASE t = "" -> "" [] t = "S" -> Invalid [] OTHER -> "SP"]
MCCodeOf == [t \in {"", "7107"} |-> t]
MCStartsWith == {<<"10", "1011">>}
MCPrefixOf == [t \in {"", "10", "10."} |-> IF t = "" THEN "" ELSE "10"]

\* the same filters typed twice, a narrower query, one that selects nothing in
\* particular and one that does not pass
Typed(state, prefixes) ==
    [target |-> "INDUSTRY", state |-> state, municipality_code |-> "", cnae_prefixes |-> prefixes]
MCForms == {Typed(" sp", <<>>), Typed("SP", <<"", "10.", "10">>), Typed("SP", <<"">>),
            Typed("", <<>>), Typed("S", <<>>)}

Establishment(cnpj, status, cnae) ==
    [cnpj |-> cnpj, registration_status |-> status, state |-> "SP",
     municipality_code |-> "7107", primary_cnae |-> cnae]
MCRegister == [c \in Competences |->
    {Establishment(1, "02", "1011"), Establishment(2, IF c = 1 THEN "02" ELSE "08", "1011"),
     Establishment(3, "02", "2511")}]

Symmetry == Permutations(Requests) \cup Permutations(Syncs)
=============================================================================
