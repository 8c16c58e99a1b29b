----------------------------- MODULE MCFinance -----------------------------
(* Instances of the delivery notes and invoices for TLC.                    *)
EXTENDS FinanceBilling, TLC

CustomerSymmetry == Permutations(Customers)
FinanceSymmetry == Permutations(Notes) \cup CustomerSymmetry
=============================================================================
