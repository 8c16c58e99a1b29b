------------------------------- MODULE Ledger -------------------------------
(***************************************************************************)
(* What billing promises of delivery notes and invoices: invoices carry    *)
(* consecutive numbers, an invoice bills one or more notes at once, and a  *)
(* note that was billed is never billed again.                             *)
(***************************************************************************)
EXTENDS Naturals

CONSTANT Notes

VARIABLES billed,   \* the numbers of the invoices of a note
          issued    \* how many invoices there are

vars == <<billed, issued>>

Init ==
    /\ billed = [n \in Notes |-> {}]
    /\ issued = 0

Issue(ids) ==
    /\ ids # {} /\ \A n \in ids : billed[n] = {}
    /\ billed' = [n \in Notes |-> IF n \in ids THEN {issued + 1} ELSE billed[n]]
    /\ issued' = issued + 1

Next == \E ids \in SUBSET Notes : Issue(ids)

Spec == Init /\ [][Next]_vars
=============================================================================
