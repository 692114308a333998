---------------------------- MODULE MCExtraction ----------------------------
(* Figures for the checks: blanks, negatives (a discount, a credit note),  *)
(* halves of a cent, and sums that cancel out.                             *)
EXTENDS Extraction

MCTotals == {0, 4, 1005, -2000}
MCQuantities == {0, 3, -1}
MCPrices == {0, 335, 5}
MCAmounts == {0, 1000, -1005}
=============================================================================
