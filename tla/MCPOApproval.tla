---------------------------- MODULE MCPOApproval ----------------------------
(* Small instances of POApproval for TLC. *)
EXTENDS POApproval

\* Two spellings of a blocked vendor, one of another, and no vendor at all.
MCCanonical ==
  [v \in {"ACME ", "acme", "staples", " "} |->
     CASE v \in {"ACME ", "acme"} -> "acme" [] v = " " -> "" [] OTHER -> v]
=============================================================================
