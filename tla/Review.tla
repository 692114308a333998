------------------------------- MODULE Review -------------------------------
(***************************************************************************)
(* What the specialists are told and what becomes of what they report: the *)
(* tools of src/agents/tools.py, to_finding of each agent, and to_verdict  *)
(* of the supervisor.  When each agent runs, fails or is retried is        *)
(* POApproval's and ReactAgent's; here every agent concludes.              *)
(*                                                                         *)
(* The tools and the guardrail compare names in ways of their own.  A name *)
(* is an opaque value with two forms: Fold, stripped and in lower case, by *)
(* which the guardrail goes; and Norm, its letters and digits in lower     *)
(* case, by which the tools go.  The models may name any vendor and answer *)
(* anything that fits the schema of a finding.                             *)
(***************************************************************************)
EXTENDS Integers, FiniteSets, Sequences

CONSTANTS
  None,
  Names,           \* vendor names that may be written, registered ones among them
  Fold, Norm,      \* [Names -> forms]
  Blank,           \* the Norm of a name without letters or digits
  Inside,          \* pairs of Norms: the first is a substring of the second
  Registries,      \* what vendors.json may hold: sequences of names
  PurchaseOrders,  \* po_history.json: [id, vendor]
  Clauses,         \* clauses that a policy finding may cite
  MaxCalls         \* bound: different tool calls in one review

\* vendors.json is a JSON object; no two of its keys have the same Norm.
IsRegistry(r) ==
  /\ r \in Seq(Names)
  /\ \A i \in DOMAIN r : Norm[r[i]] # Blank
  /\ \A i, j \in DOMAIN r : Norm[r[i]] = Norm[r[j]] => i = j

\* Names that only differ in case or by spaces around them have one Norm.
ASSUME NamesAssumption ==
  /\ None \notin Names
  /\ \A a, b \in Names : Fold[a] = Fold[b] => Norm[a] = Norm[b]
ASSUME RegistryAssumption == \A r \in Registries : IsRegistry(r)
ASSUME BoundAssumption == MaxCalls \in Nat

Ratings == {"low", "medium", "high", "critical", "other"}
Recommendations == {"auto_approve", "escalate_to_human", "reject"}
Severity == {"ok", "caution", "blocker"}
ASSUME NoneAssumption == None \notin Severity \cup Recommendations

Specialists == {"vendor_risk", "policy_compliance", "duplicate_detection"}
Tools == {"lookup_vendor", "list_vendor_incidents", "search_recent_purchase_orders"}

\* Answers that fit the schemas.  A word stands for its spellings that the code
\* recognizes: in any case and, for the supervisor's only, between spaces.
VendorRiskFinding == [rating : Ratings]
PolicyComplianceFinding == [compliant : BOOLEAN, clauses : SUBSET Clauses]
DuplicateFinding == [duplicate : BOOLEAN, split : BOOLEAN]
SupervisorFinding == [recommendation : Recommendations \cup {"other"}]

VARIABLES
  registry,   \* _vendors(), cached for the life of a worker
  evidence,   \* the tool results the specialists have been given
  raw,        \* [Specialists -> the answer], None before it
  severity,   \* [Specialists -> Severity], None before it
  answer,     \* the supervisor's answer
  verdict     \* SupervisorVerdict.recommendation

vars == <<registry, evidence, raw, severity, answer, verdict>>

TypeOK ==
  /\ registry \in Registries
  /\ evidence \subseteq [tool : Tools, query : Names, found : Names \cup {None},
                         orders : SUBSET PurchaseOrders]
  /\ DOMAIN raw = Specialists
  /\ severity \in [Specialists -> Severity \cup {None}]
  /\ answer \in SupervisorFinding \cup {None}
  /\ verdict \in Recommendations \cup {None}

Init ==
  /\ registry \in Registries
  /\ evidence = {}
  /\ raw = [s \in Specialists |-> None] /\ severity = [s \in Specialists |-> None]
  /\ answer = None /\ verdict = None

-----------------------------------------------------------------------------
(* _match_vendor *)

\* The first of the registry's places that are in S.
First(S) == CHOOSE i \in S : \A j \in S : i <= j

Exact(name) == {i \in DOMAIN registry : Norm[registry[i]] = Norm[name]}

Near(name) ==
  {i \in DOMAIN registry :
     /\ Norm[name] # Blank
     /\ \/ <<Norm[name], Norm[registry[i]]>> \in Inside
        \/ <<Norm[registry[i]], Norm[name]>> \in Inside}

\* Mistake: one pass, that stops at the first name that is close enough.
MatchInOnePass(name) ==
  LET close == Exact(name) \cup Near(name) IN
  IF close = {} THEN None ELSE registry[First(close)]

\* An exact match anywhere in the registry comes before a near one.
MatchVendor(name) ==
  IF Exact(name) # {} THEN registry[First(Exact(name))]
  ELSE IF Near(name) # {} THEN registry[First(Near(name))]
  ELSE None

-----------------------------------------------------------------------------
(* The tools.  A call changes nothing but what the agent has seen. *)

Shown(result) ==
  /\ evidence' = evidence \cup {result}
  /\ Cardinality(evidence') <= MaxCalls
  /\ UNCHANGED <<registry, raw, severity, answer, verdict>>

LookupVendor(name) ==
  /\ severity["vendor_risk"] = None
  /\ Shown([tool |-> "lookup_vendor", query |-> name,
            found |-> MatchVendor(name), orders |-> {}])

ListVendorIncidents(name) ==
  /\ severity["vendor_risk"] = None
  /\ Shown([tool |-> "list_vendor_incidents", query |-> name,
            found |-> MatchVendor(name), orders |-> {}])

\* Mistake: the history is searched for the name as it was written.
OrdersAsWritten(name) == {po \in PurchaseOrders : po.vendor = name}

\* The history is searched for the registered name, if there is one.
OrdersOf(name) ==
  {po \in PurchaseOrders :
     po.vendor = IF MatchVendor(name) = None THEN name ELSE MatchVendor(name)}

SearchRecentPurchaseOrders(name) ==
  /\ severity["duplicate_detection"] = None
  /\ Shown([tool |-> "search_recent_purchase_orders", query |-> name,
            found |-> MatchVendor(name), orders |-> OrdersOf(name)])

-----------------------------------------------------------------------------
(* Findings *)

Report(agent, finding, level) ==
  /\ severity[agent] = None
  /\ raw' = [raw EXCEPT ![agent] = finding]
  /\ severity' = [severity EXCEPT ![agent] = level]
  /\ UNCHANGED <<registry, evidence, answer, verdict>>

VendorRiskSeverity(f) ==
  CASE f.rating = "low" -> "ok"
    [] f.rating = "critical" -> "blocker"
    [] OTHER -> "caution"

\* Mistake: the boolean is trusted over the list.
PolicySeverityByFlag(f) == IF f.compliant THEN "ok" ELSE "caution"

PolicySeverity(f) == IF f.clauses = {} THEN "ok" ELSE "caution"

DuplicateSeverity(f) == IF f.duplicate \/ f.split THEN "caution" ELSE "ok"

VendorRiskReports(f) == Report("vendor_risk", f, VendorRiskSeverity(f))
PolicyReports(f) == Report("policy_compliance", f, PolicySeverity(f))
DuplicateReports(f) == Report("duplicate_detection", f, DuplicateSeverity(f))

\* _parse_recommendation: what is not one of the three goes to a human.
ParseRecommendation(f) ==
  IF f.recommendation \in Recommendations THEN f.recommendation ELSE "escalate_to_human"

SupervisorReports(f) ==
  /\ \A s \in Specialists : severity[s] # None
  /\ verdict = None
  /\ answer' = f /\ verdict' = ParseRecommendation(f)
  /\ UNCHANGED <<registry, evidence, raw, severity>>

-----------------------------------------------------------------------------
Next ==
  \/ \E n \in Names : \/ LookupVendor(n) \/ ListVendorIncidents(n)
                      \/ SearchRecentPurchaseOrders(n)
  \/ \E f \in VendorRiskFinding : VendorRiskReports(f)
  \/ \E f \in PolicyComplianceFinding : PolicyReports(f)
  \/ \E f \in DuplicateFinding : DuplicateReports(f)
  \/ \E f \in SupervisorFinding : SupervisorReports(f)

Spec == Init /\ [][Next]_vars

-----------------------------------------------------------------------------
(* Properties *)

\* What the specialists are told under a name is about one vendor.  Asked again
\* by the same name, or by the registered name that an answer gave, any tool
\* answers for the same vendor, so that the incidents and the orders are those
\* of the vendor whose status was looked up; and no tool makes a vendor of a
\* name without letters (tools.py:39-51, 63, 95, 112-114).
ToolsTellOneVendor ==
  \A c, d \in evidence :
    /\ d.query = c.query \/ d.query = c.found => d.found = c.found
    /\ d.tool = "search_recent_purchase_orders" /\ d.found = c.found /\ c.found # None
         => d.orders = {po \in PurchaseOrders : po.vendor = c.found}
    /\ Norm[c.query] = Blank => c.found = None

\* The guardrail and the tools mean the same vendor.  A name that the guardrail
\* takes for a registered one finds that one's record, whatever other names in
\* the registry contain it or are contained in it: a blocked vendor is never
\* judged by the record of a neighbour (tools.py:39-51, guardrail.py:51-59).
GuardrailVendorIsFound ==
  \A c \in evidence : \A i \in DOMAIN registry :
    Fold[c.query] = Fold[registry[i]] => c.found = registry[i]

\* Nothing an agent found is lost on the way to the supervisor and to run():
\* "ok" is shown only by an agent that reported nothing, a critical rating that
\* is spelt out is a blocker, and an order is waved through or turned down only
\* by a supervisor that said just that (vendor_risk.py:70-75, 111-124,
\* policy_compliance.py:106-115, duplicate_detection.py:120-129,
\* supervisor.py:155-164).
ConcernsAreHeard ==
  /\ severity["vendor_risk"] # None =>
       /\ severity["vendor_risk"] = "ok" => raw["vendor_risk"].rating = "low"
       /\ raw["vendor_risk"] = [rating |-> "critical"] => severity["vendor_risk"] = "blocker"
  /\ severity["policy_compliance"] = "ok" => raw["policy_compliance"].clauses = {}
  /\ severity["duplicate_detection"] = "ok" =>
       ~ raw["duplicate_detection"].duplicate /\ ~ raw["duplicate_detection"].split
  /\ verdict \in {"auto_approve", "reject"} => answer.recommendation = verdict
=============================================================================
