--------------------------- MODULE ResumableTransfer ---------------------------
(***************************************************************************)
(* What every two-phase money transfer of the system promises: the row is  *)
(* committed before the provider is asked, the provider makes the transfer *)
(* at most once however often it is asked, and the row only ever settles   *)
(* as what really happened.  Nothing settled is settled again.             *)
(***************************************************************************)
CONSTANT Transfers

VARIABLES
    status,    \* the ExternalTransactionRow of each, or the row that mirrors it
    transfer   \* what really happened at the provider

transferVars == <<status, transfer>>

Ordered(t) == status[t] \in {"Pending", "Unknown"}

TransferInit ==
    /\ status = [t \in Transfers |-> "none"]
    /\ transfer = [t \in Transfers |-> "none"]

Order(ts) ==
    /\ \A t \in ts : status[t] = "none"
    /\ status' = [t \in Transfers |-> IF t \in ts THEN "Pending" ELSE status[t]]
    /\ UNCHANGED transfer

Provide(t) ==
    /\ Ordered(t)
    /\ transfer[t] \in {"none", "started"}
    /\ \E outcome \in {"started", "moved", "rejected"} :
         transfer' = [transfer EXCEPT ![t] = outcome]
    /\ UNCHANGED status

Settle(t) ==
    /\ Ordered(t)
    /\ \/ status' = [status EXCEPT ![t] = "Unknown"]
       \/ transfer[t] = "moved" /\ status' = [status EXCEPT ![t] = "Succeeded"]
       \/ transfer[t] = "rejected" /\ status' = [status EXCEPT ![t] = "Failed"]
    /\ UNCHANGED transfer

TransferNext ==
    \/ \E ts \in SUBSET Transfers : Order(ts)
    \/ \E t \in Transfers : Provide(t) \/ Settle(t)

TransferSpec == TransferInit /\ [][TransferNext]_transferVars

=============================================================================
