-------------------------- MODULE ApprovalContract --------------------------
(***************************************************************************)
(* What the purchase order workflow promises its clients, without steps,   *)
(* agents or activities: a request is reviewed; it is declined, or         *)
(* cleared, or a human is asked; only a cleared request reaches the ERP;   *)
(* and a human who is asked always gets to decide, or the request expires. *)
(*                                                                         *)
(* It abstracts POApprovalWorkflow.run of src/workflows/po_approval.py,    *)
(* lines 202-257.                                                          *)
(***************************************************************************)
EXTENDS Naturals

VARIABLES
  limit,   \* how often the client lets the request be submitted, 0 for any number
  phase,   \* where the request stands
  answer,  \* the human's answer: "none", "approve", "reject"
  booked   \* the submissions the ERP has accepted

contractVars == <<limit, phase, answer, booked>>

Final == {"declined", "expired", "submitted", "broken", "abandoned"}

ContractTypeOK ==
  /\ phase \in {"reviewing", "asking", "cleared"} \cup Final
  /\ answer \in {"none", "approve", "reject"}
  /\ limit \in Nat
  /\ booked \subseteq Nat \ {0} /\ (limit # 0 => booked \subseteq 1..limit)

ContractInit ==
  /\ limit \in Nat
  /\ phase = "reviewing" /\ answer = "none" /\ booked = {}

Move(from, to) == phase = from /\ phase' = to /\ UNCHANGED <<limit, answer, booked>>

Decline == Move("reviewing", "declined")
Clear == Move("reviewing", "cleared")
Ask == Move("reviewing", "asking")

Answer(a) ==
  /\ phase = "asking" /\ answer = "none"
  /\ answer' = a
  /\ UNCHANGED <<limit, phase, booked>>

Expire == answer = "none" /\ Move("asking", "expired")
Grant == answer = "approve" /\ Move("asking", "cleared")
Refuse == answer = "reject" /\ Move("asking", "declined")

\* The phases in which the ERP may get a submission: one that was taken to be
\* lost may come after a later one was confirmed, or after all were given up.
Bookable == {"cleared", "submitted", "abandoned"}

Book(n) ==
  /\ phase \in Bookable
  /\ n \in Nat \ {0} /\ (limit # 0 => n <= limit)
  /\ booked' = booked \cup {n}
  /\ UNCHANGED <<limit, phase, answer>>

\* A submission is confirmed only if the ERP has accepted one.
Confirm == booked # {} /\ Move("cleared", "submitted")

\* Activities fail for good while the request is reviewed or submitted, never
\* while a human is being waited for.
Break == Move("reviewing", "broken")
Abandon == limit # 0 /\ Move("cleared", "abandoned")

Settle ==
  Decline \/ Clear \/ Ask \/ Expire \/ Grant \/ Refuse \/ Confirm \/ Break \/ Abandon

ContractNext ==
  \/ Settle
  \/ \E a \in {"approve", "reject"} : Answer(a)
  \/ \E n \in booked' : Book(n)

ContractSpec == ContractInit /\ [][ContractNext]_contractVars

\* Without a limit there is no promise of when a submission is given up.
Promised == limit # 0 \/ phase # "cleared"

FairContractSpec == ContractSpec /\ WF_contractVars(Promised /\ Settle)

\* What a client may rely on at any moment: the ERP holds nothing of a request
\* that is not cleared or that a human has rejected, and a request is called
\* submitted only if the ERP holds it (po_approval.py:217-257).
Promise ==
  /\ booked # {} => phase \in Bookable
  /\ phase = "submitted" => booked # {}
  /\ answer = "reject" => phase \in {"asking", "declined"}
  /\ answer = "approve" => phase = "asking" \/ phase \in Bookable
=============================================================================
