---------------------------- MODULE EscrowLedger ----------------------------
(***************************************************************************)
(* What the escrow promises about money, with no database, no requests and *)
(* no retries in sight: the client's sats are held by the network, either  *)
(* go back or are settled into the platform's wallet, and settled sats are *)
(* forwarded to the freelancer by one payout at a time, once.              *)
(***************************************************************************)
CONSTANT Invoices

VARIABLES
  escrow,    \* where the client's sats are
  payouts,   \* outgoing payments that are routing or have arrived
  received   \* outgoing payments that have arrived

ledger == <<escrow, payouts, received>>

LedgerInit == escrow = "client" /\ payouts = {} /\ received = {}

Fund == /\ escrow = "client"
        /\ escrow' = "network"
        /\ UNCHANGED <<payouts, received>>

Return == /\ escrow \in {"client", "network"}
          /\ escrow' = "returned"
          /\ UNCHANGED <<payouts, received>>

Settle == /\ escrow = "network"
          /\ escrow' = "platform"
          /\ UNCHANGED <<payouts, received>>

Forward(i) == /\ escrow = "platform"
              /\ payouts = {}
              /\ payouts' = {i}
              /\ UNCHANGED <<escrow, received>>

Bounce(i) == /\ payouts = {i}
             /\ received = {}
             /\ payouts' = {}
             /\ UNCHANGED <<escrow, received>>

Arrive(i) == /\ payouts = {i}
             /\ received = {}
             /\ received' = {i}
             /\ UNCHANGED <<escrow, payouts>>

LedgerNext == \/ Fund \/ Return \/ Settle
              \/ \E i \in Invoices : Forward(i) \/ Bounce(i) \/ Arrive(i)

LedgerSpec == LedgerInit /\ [][LedgerNext]_ledger
=============================================================================
