---------------------------- MODULE MCDeployment ----------------------------
(* The instance of Deployment that TLC checks.  Cloud and Edited differ in    *)
(* credentials, in blocked vendors and in the ERP limit, so that any mixture   *)
(* of the two shows; Elsewhere has another task queue and no limit.  With      *)
(* HalfPair, TwoKinds and NoTls, which are there at first and then corrected,  *)
(* nothing connects.  The hard threshold takes no part in an order this small; *)
(* DeploymentProofs covers it.                                                 *)
EXTENDS Deployment

Cloud == [tls |-> None, cloud |-> TRUE, apiKey |-> FALSE, cert |-> TRUE, key |-> TRUE,
          ca |-> FALSE, queue |-> "po-orders", hardThreshold |-> 3,
          blockedVendors |-> {}, maxAttempts |-> 2]
Edited == [Cloud EXCEPT !.blockedVendors = {"acme"},
           !.maxAttempts = 1,
           !.apiKey = TRUE, !.cert = FALSE, !.key = FALSE]
Elsewhere == [Cloud EXCEPT !.queue = "po-approval", !.maxAttempts = 0]
HalfPair == [Cloud EXCEPT !.key = FALSE]
TwoKinds == [Cloud EXCEPT !.apiKey = TRUE]
NoTls == [Cloud EXCEPT !.tls = FALSE]
MCShipped == {Cloud, HalfPair, TwoKinds, NoTls}
MCAmended == {Cloud, Edited, Elsewhere}

MCRequests == [text : {None}, threshold : {None, 0}] \cup {[text |-> " ", threshold |-> None]}
MCOrders == {[vendor |-> "acme", amount |-> 1]}
MCDemands == {"tls"}
=============================================================================
