------------------------------ MODULE MCReview ------------------------------
(* The instance of Review that TLC checks: three vendors whose names contain *)
(* one another, in every order of the registry.                              *)
EXTENDS Review

MCNames == {"Acme", "ACME ", "Acme Co", "acme-co", "Co", "--"}
MCFold == [n \in MCNames |->
  CASE n \in {"Acme", "ACME "} -> "acme" [] n = "Acme Co" -> "acme co" [] OTHER -> n]
MCNorm == [n \in MCNames |->
  CASE n \in {"Acme", "ACME "} -> "acme" [] n \in {"Acme Co", "acme-co"} -> "acmeco"
    [] n = "Co" -> "co" [] OTHER -> ""]
MCInside == {<<"acme", "acmeco">>, <<"co", "acmeco">>}
  \cup {<<s, s>> : s \in {"acme", "acmeco", "co", ""}}
  \cup {<<"", s>> : s \in {"acme", "acmeco", "co"}}

Registered == {"Acme", "Acme Co", "Co"}
MCRegistries == {r \in UNION {[1..n -> Registered] : n \in 2..3} : IsRegistry(r)}
MCOrders == {[id |-> 1, vendor |-> "Acme"], [id |-> 2, vendor |-> "Acme Co"]}
=============================================================================
