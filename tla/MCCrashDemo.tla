----------------------------- MODULE MCCrashDemo -----------------------------
(* The demo with two specialists: one may have finished, one be in flight.   *)
EXTENDS CrashDemo

MCSteps == {"vendor_risk", "policy_compliance"}
=============================================================================
