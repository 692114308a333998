-------------------------- MODULE ExtractionProofs --------------------------
(***************************************************************************)
(* Proofs about the extraction agent, for any figures the model may give,  *)
(* any number of line items and any two retry policies.                    *)
(***************************************************************************)
EXTENDS Extraction, SequenceTheorems, TLAPS, WellFoundedInduction

\* Rounding yields integers, and never moves a figure by more than half a
\* cent.
LEMMA RoundedIsNear ==
  ASSUME NEW x \in Int, NEW r \in Rounded(x)
  PROVE  r \in Int /\ Abs(r - x) <= 5
BY DEF Rounded, Abs

\* A total that was stated is only rounded.
LEMMA StatedTotalIsOnlyRounded ==
  ASSUME NEW stated \in Int \ {0}, NEW amounts, NEW t \in TotalOf(stated, amounts)
  PROVE  t \in Rounded(stated)
BY DEF TotalOf

\* The sum need not be known: rounding it twice makes it an integer.
LEMMA TotalIsAnInteger ==
  ASSUME NEW stated \in Int, NEW amounts, NEW t \in TotalOf(stated, amounts)
  PROVE  t \in Int
<1>1. ASSUME NEW x, NEW r \in Rounded(x) PROVE r \in Int
  BY <1>1 DEF Rounded
<1> QED BY <1>1 DEF TotalOf

\* The type invariant says what each action needs of the figures; the nodes
\* and the attempts are as extract_po, normalize and the graph's policy leave
\* them.
THEOREM TypeCorrectness == Spec => []TypeOK
<1>1. Init => TypeOK
  BY PolicyAssumption DEF Init, TypeOK
<1>2. TypeOK /\ [Next]_vars => TypeOK'
  <2> SUFFICES ASSUME TypeOK, [Next]_vars PROVE TypeOK'
    OBVIOUS
  <2> USE PolicyAssumption
  <2>1. CASE RefuseBlank
    BY <2>1 DEF RefuseBlank, TypeOK
  <2>2. CASE Invoke
    BY <2>2 DEF Invoke, TypeOK
  <2>3. CASE Answered
    <3>1. parsed' \in Order /\ node' = "normalize" /\ node = "extract_po"
      BY <2>3 DEF Answered
    <3> QED BY <2>3, <3>1 DEF Answered, TypeOK
  <2>4. CASE Denied
    BY <2>4 DEF Denied, TypeOK
  <2>5. CASE node = "extract_po" /\ Retry /\ late' \in Nat
    BY <2>5 DEF Retry, TypeOK
  <2>6. CASE Normalize
    <3>1. PICK amounts : \E t \in TotalOf(parsed.total, amounts) : po'.total = t
      BY <2>6 DEF Normalize
    <3>2. PICK total \in TotalOf(parsed.total, amounts) : po'.total = total
      BY <3>1
    <3>3. parsed.total \in Int
      BY <2>6, FiguresAssumption DEF Normalize, TypeOK, Order
    <3>4. total \in Int
      BY <3>3, TotalIsAnInteger
    <3> QED BY <2>6, <3>2, <3>4 DEF Normalize, TypeOK
  <2>7. CASE LateInvoke
    BY <2>7 DEF LateInvoke, TypeOK
  <2>8. CASE UNCHANGED vars
    BY <2>8 DEF vars, TypeOK
  <2>9. (Throttled \/ Unstructured \/ AttemptLost) => node = "extract_po" /\ Retry /\ late' \in Nat
    BY DEF Throttled, Unstructured, AttemptLost, TypeOK
  <2> QED
    BY <2>1, <2>2, <2>3, <2>4, <2>5, <2>6, <2>7, <2>8, <2>9 DEF Next
<1> QED BY <1>1, <1>2, PTL DEF Spec

-----------------------------------------------------------------------------
(* What a purchase order costs.                                            *)

\* The requests of one call of the SDK client, those that the current attempt
\* may still send, and those that the attempts so far have been granted.
SdkCall == SdkRetries + 1

Unsent == IF node = "extract_po" THEN SdkCall - sent ELSE 0

Granted == attempt * SdkCall

\* The account of the requests: all that were sent, and all that the current
\* attempt and those given up may still send, were granted.
AccountInv ==
  /\ blank => requests = 0 /\ late = 0
  /\ requests + late + Unsent <= Granted

LEMMA OneMoreGrant ==
  ASSUME NEW a \in Nat, NEW k \in Nat
  PROVE  a * k \in Nat /\ (a + 1) * k = a * k + k
OBVIOUS

LEMMA MoreAttemptsGrantMore ==
  ASSUME NEW a \in Nat, NEW b \in Nat, NEW k \in Nat, a <= b
  PROVE  a * k \in Nat /\ b * k \in Nat /\ a * k <= b * k
OBVIOUS

\* An attempt is charged with all it may send when it starts, and an attempt
\* that is given up leaves at most what it had not yet sent.
LEMMA AccountIsKept == TypeOK /\ AccountInv /\ [Next]_vars => AccountInv'
<1> SUFFICES ASSUME TypeOK, AccountInv, [Next]_vars PROVE AccountInv'
  OBVIOUS
<1>1. /\ SdkCall \in Nat /\ attempt \in Nat /\ Granted \in Nat
      /\ sent \in 0..SdkCall /\ late \in Nat /\ requests \in Nat
  <2>1. /\ SdkCall \in Nat /\ attempt \in Nat
        /\ sent \in 0..SdkCall /\ late \in Nat /\ requests \in Nat
    BY PolicyAssumption DEF TypeOK, SdkCall
  <2> QED
    BY <2>1, OneMoreGrant DEF Granted
<1>2. /\ attempt' = attempt + 1 => Granted' = Granted + SdkCall
      /\ attempt' = attempt => Granted' = Granted
  BY <1>1, OneMoreGrant DEF Granted, SdkCall
<1>3. /\ Unsent \in 0..SdkCall
      /\ node = "extract_po" => Unsent = SdkCall - sent
      /\ node' = "extract_po" => Unsent' = SdkCall - sent'
      /\ node' # "extract_po" => Unsent' = 0
  BY <1>1 DEF Unsent, SdkCall
<1> USE <1>1, <1>2, <1>3 DEF AccountInv
<1>4. CASE Invoke
  BY <1>4 DEF Invoke
<1>5. CASE LateInvoke
  <2>1. Unsent' = Unsent
    BY <1>5 DEF LateInvoke, Unsent, SdkCall
  <2> QED
    BY <1>5, <2>1 DEF LateInvoke
<1>6. CASE Retry /\ node = "extract_po" /\ late' = late
  BY <1>6 DEF Retry
<1>7. CASE AttemptLost
  <2>1. late' = late \/ (~ blank /\ late' = late + SdkRetries + 1 - sent)
    BY <1>7 DEF AttemptLost
  <2>2. late' = late \/ (~ blank /\ late' = late + Unsent)
    BY <1>7, <2>1, PolicyAssumption DEF AttemptLost, SdkCall
  <2> QED
    BY <1>7, <2>2 DEF AttemptLost, Retry
<1>8. CASE UNCHANGED <<blank, attempt, sent, late, requests>> /\ node' \in {node, "normalize", "end", "failed"}
  BY <1>8
<1> QED
  BY <1>4, <1>5, <1>6, <1>7, <1>8
  DEF Next, Throttled, Unstructured, RefuseBlank, Answered, Denied, Normalize, vars

\* However attempts fail and whatever those still send that were given up,
\* Bedrock gets at most maximum_attempts times the requests of one SDK call,
\* and none for a blank request (extraction_graph.py:102, 215; bedrock.py:27).
THEOREM CostBound == Spec => []CostIsBounded
<1>1. Init => AccountInv
  BY PolicyAssumption DEF Init, AccountInv, Unsent, Granted, SdkCall
<1>2. TypeOK /\ AccountInv => CostIsBounded
  <2> SUFFICES ASSUME TypeOK, AccountInv PROVE CostIsBounded
    OBVIOUS
  <2>1. SdkCall \in Nat /\ attempt \in Nat /\ MaxAttempts \in Nat /\ attempt <= MaxAttempts
    BY PolicyAssumption DEF TypeOK, SdkCall
  <2>2. Granted \in Nat /\ MaxAttempts * SdkCall \in Nat /\ Granted <= MaxAttempts * SdkCall
    BY <2>1, MoreAttemptsGrantMore DEF Granted
  <2>3. requests \in Nat /\ late \in Nat /\ Unsent \in Nat
    BY PolicyAssumption DEF TypeOK, Unsent, SdkCall
  <2>4. requests <= Granted
    BY <2>2, <2>3 DEF AccountInv
  <2>5. requests <= MaxAttempts * SdkCall
    BY <2>2, <2>3, <2>4
  <2> QED
    BY <2>5 DEF AccountInv, CostIsBounded, SdkCall
<1> QED
  BY <1>1, <1>2, AccountIsKept, TypeCorrectness, PTL DEF Spec

-----------------------------------------------------------------------------
\* What the guardrails judge is the total that the request states.
THEOREM StatedTotalStands == Spec => []StatedTotalIsKept
<1>1. Init => StatedTotalIsKept
  BY DEF Init, StatedTotalIsKept
<1>2. TypeOK /\ StatedTotalIsKept /\ [Next]_vars => StatedTotalIsKept'
  <2> SUFFICES ASSUME TypeOK, StatedTotalIsKept, [Next]_vars PROVE StatedTotalIsKept'
    OBVIOUS
  <2>1. CASE Normalize
    <3> SUFFICES ASSUME parsed.total # 0 PROVE Abs(po'.total - parsed.total) <= 5
      BY <2>1 DEF Normalize, StatedTotalIsKept
    <3>1. PICK amounts : \E t \in TotalOf(parsed.total, amounts) : po'.total = t
      BY <2>1 DEF Normalize
    <3>2. PICK total \in TotalOf(parsed.total, amounts) : po'.total = total
      BY <3>1
    <3>3. parsed.total \in Int
      BY <2>1, FiguresAssumption DEF Normalize, TypeOK, Order
    <3> QED BY <3>2, <3>3, StatedTotalIsOnlyRounded, RoundedIsNear
  <2>2. CASE UNCHANGED vars \/ LateInvoke
    BY <2>2 DEF vars, LateInvoke, StatedTotalIsKept
  <2>3. CASE Next /\ ~ Normalize /\ ~ LateInvoke
    <3>1. node' # "end"
      BY <2>3 DEF Next, RefuseBlank, Invoke, Answered, Denied, Throttled,
                  Unstructured, AttemptLost, Retry
    <3> QED BY <3>1 DEF StatedTotalIsKept
  <2> QED BY <2>1, <2>2, <2>3
<1> QED BY <1>1, <1>2, TypeCorrectness, PTL DEF Spec

-----------------------------------------------------------------------------
(* The sum of the lines.  Induction goes by sets: a set with 0 that has the *)
(* successor of each of its numbers misses none, for it would miss a least. *)

LEMMA UpToInduction ==
  ASSUME NEW n \in Nat, NEW T, 0 \in T, \A i \in 0..(n - 1) : i \in T => i + 1 \in T
  PROVE  0..n \subseteq T
<1> DEFINE missed == (0..n) \ T
<1> SUFFICES ASSUME missed # {} PROVE FALSE
  OBVIOUS
<1>1. missed \subseteq Nat
  OBVIOUS
<1> HIDE DEF missed
<1>2. PICK i \in missed : \A j \in missed : <<j, i>> \notin OpToRel(<, Nat)
  BY <1>1, WFMin, NatLessThanWellFounded, Zenon
<1>3. \A j \in missed : ~ (j < i)
  BY <1>1, <1>2 DEF OpToRel
<1>4. i \in 1..n /\ i - 1 \notin missed
  BY <1>1, <1>3 DEF missed
<1> QED
  BY <1>4 DEF missed

\* The sums of the first amounts, up to all of them.
PartialSums(s, g, n) ==
  /\ g \in [0..n -> Int]
  /\ g[0] = 0
  /\ \A i \in 1..n : g[i] = g[i - 1] + s[i]

LEMMA PartialSumsExist ==
  ASSUME NEW s \in Seq(Int) PROVE \E g : PartialSums(s, g, Len(s))
<1> DEFINE T == {n \in 0..Len(s) : \E g : PartialSums(s, g, n)}
<1>1. Len(s) \in Nat /\ \A i \in 1..Len(s) : s[i] \in Int
  OBVIOUS
<1>2. PartialSums(s, [k \in 0..0 |-> 0], 0)
  BY DEF PartialSums
<1>3. 0 \in T
  BY <1>1, <1>2
<1>4. ASSUME NEW n \in 0..(Len(s) - 1), n \in T PROVE n + 1 \in T
  <2>1. PICK g : PartialSums(s, g, n)
    BY <1>4
  <2> DEFINE h == [k \in 0..(n + 1) |-> IF k <= n THEN g[k] ELSE g[n] + s[n + 1]]
  <2>2. n \in Nat /\ n + 1 \in 1..Len(s)
    BY <1>1
  <2>3. h \in [0..(n + 1) -> Int]
    BY <1>1, <2>1, <2>2 DEF PartialSums
  <2>4. h[0] = 0 /\ \A i \in 1..(n + 1) : h[i] = h[i - 1] + s[i]
    BY <1>1, <2>1, <2>2 DEF PartialSums
  <2> HIDE DEF h
  <2>5. PartialSums(s, h, n + 1)
    BY <2>3, <2>4 DEF PartialSums
  <2> QED
    BY <2>2, <2>5
<1> HIDE DEF T
<1>5. 0..Len(s) \subseteq T
  BY <1>1, <1>3, <1>4, UpToInduction
<1> QED
  BY <1>1, <1>5 DEF T

\* Sum is the last of them.
LEMMA SumIsTheLast ==
  ASSUME NEW s \in Seq(Int)
  PROVE  \E g : PartialSums(s, g, Len(s)) /\ Sum(s) = g[Len(s)]
<1> DEFINE upTo[n \in 0..Len(s)] == IF n = 0 THEN 0 ELSE upTo[n - 1] + s[n]
<1>1. Sum(s) = upTo[Len(s)]
  BY DEF Sum
<1>2. PICK g : PartialSums(s, g, Len(s))
  BY PartialSumsExist
<1>3. Len(s) \in Nat
  OBVIOUS
<1>4. g = [n \in 0..Len(s) |-> IF n = 0 THEN 0 ELSE g[n - 1] + s[n]]
  BY <1>2, <1>3 DEF PartialSums
<1>5. upTo = [n \in 0..Len(s) |-> IF n = 0 THEN 0 ELSE upTo[n - 1] + s[n]]
  BY <1>4, Zenon DEF upTo
<1> HIDE DEF upTo
<1>6. /\ upTo[0] = 0
      /\ \A i \in 1..Len(s) : upTo[i] = upTo[i - 1] + s[i]
  BY <1>3, <1>5
<1> DEFINE T == {n \in 0..Len(s) : upTo[n] = g[n]}
<1>7. 0 \in T
  BY <1>2, <1>3, <1>6 DEF PartialSums
<1>8. ASSUME NEW n \in 0..(Len(s) - 1), n \in T PROVE n + 1 \in T
  <2>1. n + 1 \in 1..Len(s) /\ (n + 1) - 1 = n
    BY <1>3
  <2>2. upTo[n + 1] = upTo[n] + s[n + 1] /\ g[n + 1] = g[n] + s[n + 1]
    BY <1>2, <1>6, <2>1 DEF PartialSums
  <2> QED
    BY <1>8, <2>1, <2>2
<1> HIDE DEF T
<1>9. 0..Len(s) \subseteq T
  BY <1>3, <1>7, <1>8, UpToInduction
<1>10. upTo[Len(s)] = g[Len(s)]
  BY <1>3, <1>9 DEF T
<1> QED
  BY <1>1, <1>2, <1>10

LEMMA NearSums ==
  ASSUME NEW a \in Int, NEW b \in Int, NEW c \in Int, NEW d \in Int, NEW k \in Nat,
         Abs(a - b) <= 5 * k, Abs(c - d) <= 5
  PROVE  Abs((a + c) - (b + d)) <= 5 * (k + 1)
BY DEF Abs

\* Amounts that are near each other, one by one, have sums that are.
LEMMA SumsAreNear ==
  ASSUME NEW s \in Seq(Int), NEW t \in Seq(Int), Len(s) = Len(t),
         \A i \in 1..Len(s) : Abs(s[i] - t[i]) <= 5
  PROVE  Sum(s) \in Int /\ Sum(t) \in Int /\ Abs(Sum(s) - Sum(t)) <= 5 * Len(s)
<1>1. PICK g : PartialSums(s, g, Len(s)) /\ Sum(s) = g[Len(s)]
  BY SumIsTheLast
<1>2. PICK h : PartialSums(t, h, Len(s)) /\ Sum(t) = h[Len(s)]
  BY SumIsTheLast
<1>3. Len(s) \in Nat /\ \A i \in 1..Len(s) : s[i] \in Int /\ t[i] \in Int
  OBVIOUS
<1> DEFINE T == {n \in 0..Len(s) : Abs(g[n] - h[n]) <= 5 * n}
<1>4. 0 \in T
  BY <1>1, <1>2, <1>3 DEF PartialSums, Abs
<1>5. ASSUME NEW n \in 0..(Len(s) - 1), n \in T PROVE n + 1 \in T
  <2>1. n + 1 \in 1..Len(s) /\ (n + 1) - 1 = n
    BY <1>3
  <2>2. g[n + 1] = g[n] + s[n + 1] /\ h[n + 1] = h[n] + t[n + 1]
    BY <1>1, <1>2, <2>1 DEF PartialSums
  <2>3. g[n] \in Int /\ h[n] \in Int /\ s[n + 1] \in Int /\ t[n + 1] \in Int
    <3>1. n \in 0..Len(s)
      BY <1>3
    <3> QED
      BY <1>1, <1>2, <1>3, <2>1, <3>1 DEF PartialSums
  <2>4. Abs(s[n + 1] - t[n + 1]) <= 5 /\ Abs(g[n] - h[n]) <= 5 * n
    BY <1>5, <2>1
  <2>5. n \in Nat
    BY <1>3
  <2>6. Abs((g[n] + s[n + 1]) - (h[n] + t[n + 1])) <= 5 * (n + 1)
    BY <2>3, <2>4, <2>5, NearSums
  <2> QED
    BY <2>1, <2>2, <2>6
<1> HIDE DEF T
<1>6. Len(s) \in T
  <2>1. 0..Len(s) \subseteq T
    BY <1>3, <1>4, <1>5, UpToInduction
  <2> QED
    BY <1>3, <2>1
<1> QED
  BY <1>1, <1>2, <1>3, <1>6 DEF T, PartialSums

\* Rounding what is rounded changes nothing.
LEMMA RoundedOnce ==
  ASSUME NEW x \in Int, NEW r \in Rounded(x), NEW q \in Rounded(r) PROVE q = r
BY DEF Rounded

\* A line without an amount gets its value, to half a cent.
LEMMA FilledIsNear ==
  ASSUME NEW line \in Line, NEW a \in FilledAmounts(line)
  PROVE  a \in Int /\ ValueOf(line) \in Int /\ Abs(a - ValueOf(line)) <= 5
<1>1. /\ line.quantity \in Int /\ line.price \in Int /\ line.amount \in Int
      /\ line.quantity * line.price \in Int
  <2>1. line.quantity \in Int /\ line.price \in Int /\ line.amount \in Int
    BY FiguresAssumption DEF Line
  <2> QED
    BY <2>1
<1> DEFINE product == line.quantity * line.price
<1>2. line.amount = 0 /\ (line.quantity = 0 \/ line.price = 0) => product = 0
  BY <1>1
<1> HIDE DEF product
<1>3. product \in Int
  BY <1>1 DEF product
<1>4. CASE line.amount = 0 /\ line.quantity # 0 /\ line.price # 0
  BY <1>3, <1>4, RoundedIsNear DEF FilledAmounts, ValueOf, product
<1>5. CASE ~ (line.amount = 0 /\ line.quantity # 0 /\ line.price # 0)
  <2>1. a = line.amount /\ ValueOf(line) = line.amount
    BY <1>2, <1>5 DEF FilledAmounts, ValueOf, product
  <2> QED
    BY <1>1, <2>1 DEF Abs
<1> QED
  BY <1>4, <1>5

LEMMA FunctionIsSeq ==
  ASSUME NEW S, NEW n \in Nat, NEW f \in [1..n -> S]
  PROVE  f \in Seq(S) /\ Len(f) = n
<1>1. f \in Seq(S)
  BY SeqDef
<1>2. Len(f) \in Nat /\ 1..Len(f) = 1..n
  BY <1>1, LenProperties
<1> QED
  BY <1>1, <1>2

LEMMA FilledSumIsNear ==
  ASSUME NEW lines \in BoundedSeq(Line, MaxLines), NEW amounts \in Filled(lines)
  PROVE  /\ amounts \in Seq(Int) /\ Len(amounts) = Len(lines)
         /\ Sum(amounts) \in Int /\ OrderValue(lines) \in Int
         /\ Abs(Sum(amounts) - OrderValue(lines)) <= 5 * Len(lines)
<1>1. Len(lines) \in Nat /\ \A i \in 1..Len(lines) : lines[i] \in Line
    <2>1. PICK m \in 0..MaxLines : lines \in [1..m -> Line]
    BY DEF BoundedSeq, SeqOf
  <2>2. m \in Nat
    BY PolicyAssumption
  <2> QED
    BY <2>1, <2>2, FunctionIsSeq
<1> DEFINE n == Len(lines)
           values == [i \in 1..n |-> ValueOf(lines[i])]
<1>2. \A i \in 1..n : amounts[i] \in FilledAmounts(lines[i])
  BY DEF Filled
<1>3. \A i \in 1..n : /\ amounts[i] \in Int /\ ValueOf(lines[i]) \in Int
                      /\ Abs(amounts[i] - ValueOf(lines[i])) <= 5
  BY <1>1, <1>2, FilledIsNear
<1>4. amounts \in [1..n -> Int] /\ values \in [1..n -> Int]
  BY <1>3 DEF Filled
<1>5. amounts \in Seq(Int) /\ Len(amounts) = n /\ values \in Seq(Int) /\ Len(values) = n
  BY <1>1, <1>4, FunctionIsSeq
<1>6. \A i \in 1..n : values[i] = ValueOf(lines[i])
  OBVIOUS
<1>7. OrderValue(lines) = Sum(values)
  BY DEF OrderValue
<1> HIDE DEF values, n
<1>8. /\ Sum(amounts) \in Int /\ Sum(values) \in Int
      /\ Abs(Sum(amounts) - Sum(values)) <= 5 * n
  BY <1>3, <1>5, <1>6, SumsAreNear
<1> QED
  BY <1>5, <1>7, <1>8 DEF n

LEMMA NearTwice ==
  ASSUME NEW x \in Int, NEW y \in Int, NEW z \in Int, NEW k \in Nat,
         Abs(x - y) <= 5, Abs(y - z) <= 5 * k
  PROVE  Abs(x - z) <= 5 * (k + 1)
BY DEF Abs

\* The stand-in for a total that was not stated is the value of the order, to
\* half a cent for each line and one for itself.
LEMMA StandInIsNear ==
  ASSUME NEW lines \in BoundedSeq(Line, MaxLines), NEW amounts \in Filled(lines),
         NEW total \in TotalOf(0, amounts)
  PROVE  Abs(total - OrderValue(lines)) <= 5 * (Len(lines) + 1)
<1>1. /\ amounts \in Seq(Int) /\ Len(amounts) = Len(lines) /\ Len(lines) \in Nat
      /\ Sum(amounts) \in Int /\ OrderValue(lines) \in Int
      /\ Abs(Sum(amounts) - OrderValue(lines)) <= 5 * Len(lines)
  BY FilledSumIsNear, LenProperties
<1>2. total \in Int /\ Abs(total - Sum(amounts)) <= 5
  <2>1. CASE amounts = <<>>
    <3>1. Sum(amounts) = 0
      BY <1>1, <2>1, SumIsTheLast, EmptySeq DEF PartialSums
    <3>2. total \in Rounded(0)
      BY <2>1 DEF TotalOf
    <3> QED
      BY <3>1, <3>2, RoundedIsNear
  <2>2. CASE amounts # <<>>
    <3>1. PICK t \in Rounded(Sum(amounts)) : total \in Rounded(t)
      BY <2>2 DEF TotalOf
    <3>2. t \in Int /\ Abs(t - Sum(amounts)) <= 5
      BY <1>1, RoundedIsNear
    <3>3. total = t
      BY <1>1, <3>1, RoundedOnce
    <3> QED
      BY <3>2, <3>3
  <2> QED
    BY <2>1, <2>2
<1> QED
  BY <1>1, <1>2, NearTwice

\* What the guardrails judge is the total that the request states and, without
\* one, the value of its lines, however many there are (extraction_graph.py:167-187).
THEOREM GuardrailsSafety == Spec => []GuardrailsSeeTheOrder
<1> DEFINE StandIn ==
      node = "end" /\ parsed.total = 0 =>
        Abs(po.total - OrderValue(parsed.lines)) <= 5 * (Len(parsed.lines) + 1)
<1>1. Init => StandIn
  BY DEF Init
<1>2. TypeOK /\ StandIn /\ [Next]_vars => StandIn'
  <2> SUFFICES ASSUME TypeOK, StandIn, [Next]_vars PROVE StandIn'
    OBVIOUS
  <2>1. CASE Normalize
    <3>1. /\ parsed' = parsed
          /\ \E amounts \in Filled(parsed.lines) :
               \E t \in TotalOf(parsed.total, amounts) : po'.total = t
      BY <2>1 DEF Normalize
    <3>2. parsed.lines \in BoundedSeq(Line, MaxLines)
      BY <2>1 DEF Normalize, TypeOK, Order
    <3>3. ASSUME parsed.total = 0
          PROVE  Abs(po'.total - OrderValue(parsed.lines)) <= 5 * (Len(parsed.lines) + 1)
      BY <3>1, <3>2, <3>3, StandInIsNear
    <3> QED
      BY <3>1, <3>3
  <2>2. CASE UNCHANGED vars \/ LateInvoke
    BY <2>2 DEF vars, LateInvoke
  <2>3. CASE Next /\ ~ Normalize /\ ~ LateInvoke
    <3>1. node' # "end"
      BY <2>3 DEF Next, RefuseBlank, Invoke, Answered, Denied, Throttled,
                  Unstructured, AttemptLost, Retry
    <3> QED
      BY <3>1
  <2> QED
    BY <2>1, <2>2, <2>3
<1>3. StandIn /\ StatedTotalIsKept => GuardrailsSeeTheOrder
  BY DEF GuardrailsSeeTheOrder
<1> HIDE DEF StandIn
<1> QED
  BY <1>1, <1>2, <1>3, TypeCorrectness, StatedTotalStands, PTL DEF Spec
=============================================================================
