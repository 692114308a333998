----------------------------- MODULE Extraction -----------------------------
(***************************************************************************)
(* The extraction agent: a graph of two nodes.  extract_po is an activity  *)
(* that asks the language model for the figures of a request, under the    *)
(* retry policy of the graph and over an SDK client with retries of its    *)
(* own; normalize runs in the workflow and fills in the figures the model  *)
(* left blank.                                                             *)
(*                                                                         *)
(* Money is counted in tenths of a cent, so that rounding to cents can be  *)
(* seen.  The model's answer may be any figures; the wording, the vendor   *)
(* and the currency are left out.                                          *)
(***************************************************************************)
EXTENDS Integers, SequencesExt

CONSTANTS
  Totals, Quantities, Prices, Amounts,  \* what the model may answer; 0 is a blank
  MaxLines,                             \* bound on the line items of an order
  MaxAttempts,                          \* maximum_attempts of the graph's retry policy
  SdkRetries,                           \* max_attempts of the botocore client
  None

ASSUME FiguresAssumption ==
  /\ Totals \subseteq Int /\ Quantities \subseteq Int
  /\ Prices \subseteq Int /\ Amounts \subseteq Int
ASSUME PolicyAssumption ==
  /\ MaxLines \in Nat /\ MaxAttempts \in Nat \ {0} /\ SdkRetries \in Nat

VARIABLES
  blank,     \* the request's text is empty or white space
  node,      \* the node of the graph that runs, or how the graph ended
  attempt,   \* the current attempt at extract_po
  sent,      \* requests that the current attempt has sent to Bedrock
  late,      \* requests that attempts which were given up may still send
  requests,  \* requests sent to Bedrock by all attempts
  parsed,    \* the figures as the model gave them
  po         \* the figures as the graph returns them

vars == <<blank, node, attempt, sent, late, requests, parsed, po>>

Line == [quantity : Quantities, price : Prices, amount : Amounts]
Order == [total : Totals, lines : BoundedSeq(Line, MaxLines)]

(***************************************************************************)
(* round(x, 2): the nearest cent.  A float that prints as a half cent may  *)
(* lie on either side of it, so that a tie goes either way.                *)
(***************************************************************************)
Rounded(x) == {r \in (x - 5)..(x + 5) : r % 10 = 0}

Init ==
  /\ blank \in BOOLEAN
  /\ node = "extract_po"
  /\ attempt = 1
  /\ sent = 0
  /\ late = 0
  /\ requests = 0
  /\ parsed = None
  /\ po = None

-----------------------------------------------------------------------------
(* extract_po: one attempt                                                 *)

\* Mistake: maximum_attempts taken for the number of retries.
RetryOnceMore ==
  /\ IF attempt <= MaxAttempts
       THEN attempt' = attempt + 1 /\ sent' = 0 /\ UNCHANGED node
       ELSE node' = "failed" /\ UNCHANGED <<attempt, sent>>
  /\ UNCHANGED <<blank, requests, parsed, po>>

(***************************************************************************)
(* An attempt that failed for a reason that may pass is retried, and the   *)
(* last one fails the graph.                                               *)
(***************************************************************************)
Retry ==
  /\ IF attempt < MaxAttempts
       THEN attempt' = attempt + 1 /\ sent' = 0 /\ UNCHANGED node
       ELSE node' = "failed" /\ UNCHANGED <<attempt, sent>>
  /\ UNCHANGED <<blank, requests, parsed, po>>

(* A blank request fails for good before anything is sent.                 *)
RefuseBlank ==
  /\ node = "extract_po" /\ sent = 0
  /\ blank
  /\ node' = "failed"
  /\ UNCHANGED <<blank, attempt, sent, late, requests, parsed, po>>

\* Mistake: the text is not looked at before the call.
InvokeUnchecked ==
  /\ node = "extract_po"
  /\ sent <= SdkRetries
  /\ sent' = sent + 1
  /\ requests' = requests + 1
  /\ UNCHANGED <<blank, node, attempt, late, parsed, po>>

(***************************************************************************)
(* structured.invoke() sends a request; the SDK client sends it again      *)
(* after a throttle, a server error or a timeout.                          *)
(***************************************************************************)
Invoke ==
  /\ node = "extract_po"
  /\ ~blank
  /\ sent <= SdkRetries
  /\ sent' = sent + 1
  /\ requests' = requests + 1
  /\ UNCHANGED <<blank, node, attempt, late, parsed, po>>

(* The model answers with figures that fit the schema.                     *)
Answered ==
  /\ node = "extract_po" /\ sent > 0
  /\ parsed' \in Order
  /\ node' = "normalize"
  /\ UNCHANGED <<blank, attempt, sent, late, requests, po>>

(* Access and validation errors are not retried, by anyone.                *)
Denied ==
  /\ node = "extract_po" /\ sent > 0
  /\ node' = "failed"
  /\ UNCHANGED <<blank, attempt, sent, late, requests, parsed, po>>

(* Throttled although the SDK tried again.                                 *)
Throttled ==
  /\ node = "extract_po" /\ sent > SdkRetries
  /\ Retry
  /\ UNCHANGED late

(* The answer does not fit the schema.                                     *)
Unstructured ==
  /\ node = "extract_po" /\ sent > 0
  /\ Retry
  /\ UNCHANGED late

(***************************************************************************)
(* The worker dies, or the attempt exceeds start_to_close_timeout; then    *)
(* its thread goes on, with what is left of the SDK's retries.             *)
(***************************************************************************)
AttemptLost ==
  /\ node = "extract_po"
  /\ late' \in {late} \cup (IF blank THEN {} ELSE {late + SdkRetries + 1 - sent})
  /\ Retry

LateInvoke ==
  /\ late > 0
  /\ late' = late - 1
  /\ requests' = requests + 1
  /\ UNCHANGED <<blank, node, attempt, sent, parsed, po>>

-----------------------------------------------------------------------------
(* normalize                                                               *)

\* Mistake: only amounts that the model stated count.
StatedAmountOnly(line) == {line.amount}

(* A line without an amount gets the product, if it has both factors.      *)
FilledAmounts(line) ==
  IF line.amount = 0 /\ line.quantity # 0 /\ line.price # 0
    THEN Rounded(line.quantity * line.price)
    ELSE {line.amount}

Filled(lines) ==
  {f \in [1..Len(lines) -> UNION {FilledAmounts(lines[i]) : i \in 1..Len(lines)}] :
     \A i \in 1..Len(lines) : f[i] \in FilledAmounts(lines[i])}

Sum(amounts) ==
  LET upTo[n \in 0..Len(amounts)] == IF n = 0 THEN 0 ELSE upTo[n - 1] + amounts[n]
  IN  upTo[Len(amounts)]

\* Mistake: the lines outrank a total that was stated.
SumOutranksStated(stated, amounts) ==
  IF amounts # <<>> THEN Rounded(Sum(amounts)) ELSE Rounded(stated)

(* The sum of the lines stands in for a total that was not stated.         *)
TotalOf(stated, amounts) ==
  IF stated = 0 /\ amounts # <<>>
    THEN UNION {Rounded(t) : t \in Rounded(Sum(amounts))}
    ELSE Rounded(stated)

Normalize ==
  /\ node = "normalize"
  /\ \E amounts \in Filled(parsed.lines) : \E total \in TotalOf(parsed.total, amounts) :
       po' = [total |-> total,
              lines |-> [i \in 1..Len(amounts) |->
                           [parsed.lines[i] EXCEPT !.amount = amounts[i]]]]
  /\ node' = "end"
  /\ UNCHANGED <<blank, attempt, sent, late, requests, parsed>>

-----------------------------------------------------------------------------
Next ==
  \/ RefuseBlank \/ Invoke
  \/ Answered \/ Denied \/ Throttled \/ Unstructured \/ AttemptLost \/ LateInvoke
  \/ Normalize

Spec == Init /\ [][Next]_vars

-----------------------------------------------------------------------------
(* Every variable has its type; figures exist exactly from the node on     *)
(* that makes them.                                                        *)
TypeOK ==
  /\ blank \in BOOLEAN
  /\ node \in {"extract_po", "normalize", "end", "failed"}
  /\ attempt \in 1..MaxAttempts
  /\ sent \in 0..(SdkRetries + 1)
  /\ late \in Nat
  /\ requests \in Nat
  /\ IF node \in {"normalize", "end"} THEN parsed \in Order ELSE parsed = None
  /\ IF node = "end" THEN po.total \in Int ELSE po = None

(***************************************************************************)
(* Retries of retries: however attempts fail, and whatever those still     *)
(* send that were given up, a purchase order costs at most the attempts of *)
(* the graph's retry_policy times the requests of one SDK call             *)
(* (_BOTO_CONFIG).  A blank request costs nothing (extract_po's check      *)
(* before the call).                                                       *)
(***************************************************************************)
CostIsBounded ==
  /\ blank => requests = 0
  /\ requests <= MaxAttempts * (SdkRetries + 1)

Abs(x) == IF x < 0 THEN -x ELSE x

StatedTotalIsKept ==
  node = "end" /\ parsed.total # 0 => Abs(po.total - parsed.total) <= 5

\* The value of an order, computed straight from what the model gave.
ValueOf(line) == IF line.amount # 0 THEN line.amount ELSE line.quantity * line.price

OrderValue(lines) == Sum([i \in 1..Len(lines) |-> ValueOf(lines[i])])

(***************************************************************************)
(* The guardrails downstream judge po.total.  A total that the request     *)
(* states is what they see, to the cent, whatever the lines add up to.     *)
(* Without one they see the value of the lines, those included whose       *)
(* amount the model left blank, up to half a cent for each rounding: an    *)
(* order is never waved through as worth nothing because the total was     *)
(* computed before its lines (normalize, lines 176-187).                   *)
(***************************************************************************)
GuardrailsSeeTheOrder ==
  /\ StatedTotalIsKept
  /\ node = "end" /\ parsed.total = 0 =>
       Abs(po.total - OrderValue(parsed.lines)) <= 5 * (Len(parsed.lines) + 1)
=============================================================================
