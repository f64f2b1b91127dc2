----------------------------- MODULE MCBuyerBudget -----------------------------
(* The buyer's ledger alone, paying exact prices.                              *)
EXTENDS BuyerBudget

ExactAlone == {[scheme |-> "exact", oneKey |-> FALSE]}
================================================================================
