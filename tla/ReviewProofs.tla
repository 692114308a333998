---------------------------- MODULE ReviewProofs ----------------------------
(***************************************************************************)
(* Whatever vendors.json holds and whatever the models ask and answer, the *)
(* tools, the guardrail and the supervisor mean the same vendor and say    *)
(* what was found.  Every result of a tool is a function of the registry,  *)
(* which does not change; that, and that an exact match is the only one,   *)
(* is the whole argument.                                                  *)
(***************************************************************************)
EXTENDS Review, TLAPS, WellFoundedInduction

LEMMA RegistryFacts ==
  ASSUME NEW r \in Registries
  PROVE  IsRegistry(r)
BY RegistryAssumption

\* A nonempty set of places has a first one.
LEMMA FirstIsIn ==
  ASSUME NEW S, S \subseteq Nat, S # {}
  PROVE  First(S) \in S
<1>1. PICK i \in S : \A j \in S : <<j, i>> \notin OpToRel(<, Nat)
  BY WFMin, NatLessThanWellFounded, Zenon
<1>2. \A j \in S : ~ (j < i)
  BY <1>1, Zenon DEF OpToRel
<1>3. \A j \in S : i <= j
  BY <1>2
<1> QED
  BY <1>3 DEF First

\* A name with the Norm of a registered one finds exactly that one.
LEMMA RegisteredIsMatched ==
  ASSUME registry \in Registries, NEW i \in DOMAIN registry, NEW name \in Names,
         Norm[name] = Norm[registry[i]]
  PROVE  MatchVendor(name) = registry[i]
<1>1. Exact(name) = {i}
  BY RegistryFacts DEF Exact, IsRegistry
<1>2. DOMAIN registry \subseteq Nat
  BY RegistryFacts DEF IsRegistry
<1>3. First(Exact(name)) = i
  BY <1>1, <1>2, FirstIsIn
<1> QED
  BY <1>1, <1>3 DEF MatchVendor

\* A match is a registered name or None.
LEMMA MatchIsRegistered ==
  ASSUME registry \in Registries, NEW name \in Names
  PROVE  MatchVendor(name) = None \/ \E i \in DOMAIN registry : MatchVendor(name) = registry[i]
<1>1. DOMAIN registry \subseteq Nat
  BY RegistryFacts DEF IsRegistry
<1>2. Exact(name) \subseteq DOMAIN registry /\ Near(name) \subseteq DOMAIN registry
  BY DEF Exact, Near
<1>3. CASE Exact(name) # {}
  BY <1>1, <1>2, <1>3, FirstIsIn DEF MatchVendor
<1>4. CASE Exact(name) = {} /\ Near(name) # {}
  BY <1>1, <1>2, <1>4, FirstIsIn DEF MatchVendor
<1> QED
  BY <1>3, <1>4 DEF MatchVendor

\* A name without letters or digits finds nobody.
LEMMA BlankIsNobody ==
  ASSUME registry \in Registries, NEW name \in Names, Norm[name] = Blank
  PROVE  MatchVendor(name) = None
<1>1. Exact(name) = {} /\ Near(name) = {}
  BY RegistryFacts DEF Exact, Near, IsRegistry
<1> QED
  BY <1>1 DEF MatchVendor

-----------------------------------------------------------------------------
(* Types *)

LEMMA InitType == Init => TypeOK
BY DEF Init, TypeOK

LEMMA ShownKeepsTypes ==
  ASSUME TypeOK, NEW result, Shown(result),
         result \in [tool : Tools, query : Names, found : Names \cup {None},
                     orders : SUBSET PurchaseOrders]
  PROVE  TypeOK'
BY DEF Shown, TypeOK

LEMMA MatchType ==
  ASSUME TypeOK, NEW name \in Names
  PROVE  MatchVendor(name) \in Names \cup {None}
BY MatchIsRegistered, RegistryFacts DEF TypeOK, IsRegistry

LEMMA ReportKeepsTypes ==
  ASSUME TypeOK, NEW agent \in Specialists, NEW f, NEW level \in Severity,
         Report(agent, f, level)
  PROVE  TypeOK'
BY DEF Report, TypeOK

LEMMA NextType ==
  ASSUME TypeOK, [Next]_vars
  PROVE  TypeOK'
<1>1. ASSUME NEW n \in Names, LookupVendor(n) PROVE TypeOK'
  BY <1>1, MatchType, ShownKeepsTypes DEF LookupVendor, Tools
<1>2. ASSUME NEW n \in Names, ListVendorIncidents(n) PROVE TypeOK'
  BY <1>2, MatchType, ShownKeepsTypes DEF ListVendorIncidents, Tools
<1>3. ASSUME NEW n \in Names, SearchRecentPurchaseOrders(n) PROVE TypeOK'
  BY <1>3, MatchType, ShownKeepsTypes DEF SearchRecentPurchaseOrders, OrdersOf, Tools
<1>4. ASSUME NEW f \in VendorRiskFinding, VendorRiskReports(f) PROVE TypeOK'
  BY <1>4, ReportKeepsTypes DEF VendorRiskReports, VendorRiskSeverity, Severity, Specialists
<1>5. ASSUME NEW f \in PolicyComplianceFinding, PolicyReports(f) PROVE TypeOK'
  BY <1>5, ReportKeepsTypes DEF PolicyReports, PolicySeverity, Severity, Specialists
<1>6. ASSUME NEW f \in DuplicateFinding, DuplicateReports(f) PROVE TypeOK'
  BY <1>6, ReportKeepsTypes DEF DuplicateReports, DuplicateSeverity, Severity, Specialists
<1>7. ASSUME NEW f \in SupervisorFinding, SupervisorReports(f) PROVE TypeOK'
  BY <1>7 DEF SupervisorReports, ParseRecommendation, Recommendations, TypeOK
<1>8. CASE UNCHANGED vars
  BY <1>8 DEF vars, TypeOK
<1> QED
  BY <1>1, <1>2, <1>3, <1>4, <1>5, <1>6, <1>7, <1>8 DEF Next

\* The variables keep their types.
THEOREM TypeCorrectness == Spec => []TypeOK
BY InitType, NextType, PTL DEF Spec

-----------------------------------------------------------------------------
(* What the specialists have been shown *)

\* Every result on record is what the registry says of the name asked for.
EvidenceInv ==
  /\ registry \in Registries
  /\ \A c \in evidence :
       /\ c.query \in Names
       /\ c.found = MatchVendor(c.query)
       /\ c.tool = "search_recent_purchase_orders" => c.orders = OrdersOf(c.query)

LEMMA ShownKeepsEvidence ==
  ASSUME EvidenceInv, NEW result, Shown(result),
         result.query \in Names, result.found = MatchVendor(result.query),
         result.tool = "search_recent_purchase_orders"
           => result.orders = OrdersOf(result.query)
  PROVE  EvidenceInv'
<1>1. registry' = registry /\ evidence' = evidence \cup {result}
  BY DEF Shown
<1>2. \A n : MatchVendor(n)' = MatchVendor(n) /\ OrdersOf(n)' = OrdersOf(n)
  BY <1>1 DEF MatchVendor, OrdersOf, Exact, Near
<1> QED
  BY <1>1, <1>2 DEF EvidenceInv

LEMMA OthersKeepEvidence ==
  ASSUME EvidenceInv, UNCHANGED <<registry, evidence>>
  PROVE  EvidenceInv'
<1>1. \A n : MatchVendor(n)' = MatchVendor(n) /\ OrdersOf(n)' = OrdersOf(n)
  BY DEF MatchVendor, OrdersOf, Exact, Near
<1> QED
  BY <1>1 DEF EvidenceInv

LEMMA NextEvidence ==
  ASSUME EvidenceInv, [Next]_vars
  PROVE  EvidenceInv'
<1>1. ASSUME NEW n \in Names, LookupVendor(n) PROVE EvidenceInv'
  BY <1>1, ShownKeepsEvidence DEF LookupVendor
<1>2. ASSUME NEW n \in Names, ListVendorIncidents(n) PROVE EvidenceInv'
  BY <1>2, ShownKeepsEvidence DEF ListVendorIncidents
<1>3. ASSUME NEW n \in Names, SearchRecentPurchaseOrders(n) PROVE EvidenceInv'
  BY <1>3, ShownKeepsEvidence DEF SearchRecentPurchaseOrders
<1>4. ASSUME NEW f \in VendorRiskFinding, VendorRiskReports(f) PROVE EvidenceInv'
  BY <1>4, OthersKeepEvidence DEF VendorRiskReports, Report
<1>5. ASSUME NEW f \in PolicyComplianceFinding, PolicyReports(f) PROVE EvidenceInv'
  BY <1>5, OthersKeepEvidence DEF PolicyReports, Report
<1>6. ASSUME NEW f \in DuplicateFinding, DuplicateReports(f) PROVE EvidenceInv'
  BY <1>6, OthersKeepEvidence DEF DuplicateReports, Report
<1>7. ASSUME NEW f \in SupervisorFinding, SupervisorReports(f) PROVE EvidenceInv'
  BY <1>7, OthersKeepEvidence DEF SupervisorReports
<1>8. CASE UNCHANGED vars
  BY <1>8, OthersKeepEvidence DEF vars
<1> QED
  BY <1>1, <1>2, <1>3, <1>4, <1>5, <1>6, <1>7, <1>8 DEF Next

LEMMA EvidenceInvariance == Spec => []EvidenceInv
<1>1. Init => EvidenceInv
  BY DEF Init, EvidenceInv
<1> QED
  BY <1>1, NextEvidence, PTL DEF Spec

\* The tools tell one vendor, for every registry and every question
\* (tools.py:39-52, 86-107).
THEOREM ToolsSafety == Spec => []ToolsTellOneVendor
<1>1. ASSUME EvidenceInv, NEW c \in evidence, NEW d \in evidence,
             d.query = c.query \/ d.query = c.found
      PROVE  d.found = c.found
  <2> USE <1>1 DEF EvidenceInv
  <2>1. CASE d.query = c.query
    BY <2>1
  <2>2. CASE d.query = c.found
    <3>1. d.query \in Names /\ c.found # None
      BY <2>2, NamesAssumption
    <3>2. PICK i \in DOMAIN registry : c.found = registry[i]
      BY <3>1, MatchIsRegistered
    <3> QED
      BY <2>2, <3>1, <3>2, RegisteredIsMatched
  <2> QED
    BY <2>1, <2>2
<1>2. ASSUME EvidenceInv, NEW c \in evidence, NEW d \in evidence,
             d.tool = "search_recent_purchase_orders", d.found = c.found, c.found # None
      PROVE  d.orders = {po \in PurchaseOrders : po.vendor = c.found}
  BY <1>2 DEF EvidenceInv, OrdersOf
<1>3. ASSUME EvidenceInv, NEW c \in evidence, Norm[c.query] = Blank
      PROVE  c.found = None
  BY <1>3, BlankIsNobody DEF EvidenceInv
<1>4. EvidenceInv => ToolsTellOneVendor
  BY <1>1, <1>2, <1>3 DEF ToolsTellOneVendor
<1> QED
  BY <1>4, EvidenceInvariance, PTL

\* The vendor that the guardrail means is the one that the tools find
\* (tools.py:39-52, guardrail.py:54-58).
THEOREM GuardrailAgreesWithTools == Spec => []GuardrailVendorIsFound
<1>1. ASSUME EvidenceInv, NEW c \in evidence, NEW i \in DOMAIN registry,
             Fold[c.query] = Fold[registry[i]]
      PROVE  c.found = registry[i]
  <2>1. registry[i] \in Names /\ c.query \in Names
    BY <1>1, RegistryFacts DEF EvidenceInv, IsRegistry
  <2>2. Norm[c.query] = Norm[registry[i]]
    BY <1>1, <2>1, NamesAssumption
  <2> QED
    BY <1>1, <2>1, <2>2, RegisteredIsMatched DEF EvidenceInv
<1>2. EvidenceInv => GuardrailVendorIsFound
  BY <1>1 DEF GuardrailVendorIsFound
<1> QED
  BY <1>2, EvidenceInvariance, PTL

-----------------------------------------------------------------------------
(* What becomes of a finding *)

\* The three severities are those of the answers on record, and the verdict is
\* the one that was given or a way to a human.
FindingsInv ==
  /\ DOMAIN raw = Specialists /\ DOMAIN severity = Specialists
  /\ severity["vendor_risk"] \in {None, VendorRiskSeverity(raw["vendor_risk"])}
  /\ severity["policy_compliance"] \in {None, PolicySeverity(raw["policy_compliance"])}
  /\ severity["duplicate_detection"] \in {None, DuplicateSeverity(raw["duplicate_detection"])}
  /\ verdict \in {None, "escalate_to_human", answer.recommendation}

LEMMA InitFindings == Init => FindingsInv
BY DEF Init, FindingsInv, Specialists

LEMMA NextFindings ==
  ASSUME FindingsInv, [Next]_vars
  PROVE  FindingsInv'
<1> USE DEF FindingsInv
<1>1. ASSUME NEW result, Shown(result) PROVE FindingsInv'
  BY <1>1 DEF Shown
<1>2. ASSUME NEW f, VendorRiskReports(f) PROVE FindingsInv'
  BY <1>2 DEF VendorRiskReports, Report, Specialists, VendorRiskSeverity
<1>3. ASSUME NEW f, PolicyReports(f) PROVE FindingsInv'
  BY <1>3 DEF PolicyReports, Report, Specialists, PolicySeverity
<1>4. ASSUME NEW f, DuplicateReports(f) PROVE FindingsInv'
  BY <1>4 DEF DuplicateReports, Report, Specialists, DuplicateSeverity
<1>5. ASSUME NEW f, SupervisorReports(f) PROVE FindingsInv'
  BY <1>5 DEF SupervisorReports, ParseRecommendation
<1>6. CASE UNCHANGED vars
  BY <1>6 DEF vars
<1> QED
  BY <1>1, <1>2, <1>3, <1>4, <1>5, <1>6
  DEF Next, LookupVendor, ListVendorIncidents, SearchRecentPurchaseOrders

\* Nothing an agent found is lost, whatever the agents answer
\* (vendor_risk.py:75-80, policy_compliance.py:108-117,
\* duplicate_detection.py:122-132, supervisor.py:153-162).
THEOREM FindingsSafety == Spec => []ConcernsAreHeard
<1>1. FindingsInv => ConcernsAreHeard
  BY NoneAssumption
  DEF FindingsInv, ConcernsAreHeard, VendorRiskSeverity, PolicySeverity,
      DuplicateSeverity, Severity, Recommendations
<1> QED
  BY <1>1, InitFindings, NextFindings, PTL DEF Spec
=============================================================================
