-------------------------- MODULE EscrowRefinement --------------------------
(***************************************************************************)
(* The escrow implements the money ledger: the mapping from the hold and   *)
(* the outgoing payments at LNbits to EscrowLedger's state.                *)
(***************************************************************************)
EXTENDS Escrow

Location ==
  [h \in {"open", "held", "settled", "cancelled", "expired"} |->
     CASE h = "open"    -> "client"
       [] h = "held"    -> "network"
       [] h = "settled" -> "platform"
       [] OTHER         -> "returned"]

Ledger == INSTANCE EscrowLedger
            WITH escrow   <- Location[hold],
                 payouts  <- {i \in Invoices : Live(i)},
                 received <- {i \in Invoices : payment[i] = "paid"}

\* Every step of the backend, of LNbits and of the parties is one of the
\* ledger's money moves or moves no money.
MoneyMovesOnce == Ledger!LedgerSpec
=============================================================================
