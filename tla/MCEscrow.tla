------------------------------ MODULE MCEscrow ------------------------------
(***************************************************************************)
(* Escrow for TLC: symmetric request slots and payee invoices, and the     *)
(* mapping of the escrow's state to the money ledger it implements.        *)
(***************************************************************************)
EXTENDS EscrowRefinement, TLC

Symmetry == Permutations(Requests) \cup Permutations(Invoices)
=============================================================================
