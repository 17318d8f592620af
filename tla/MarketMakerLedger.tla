------------------------- MODULE MarketMakerLedger -------------------------
(* The market-maker bot keeps the promise of OrderLedger: the refinement   *)
(* mapping, and what the promise makes of the bot's accounts.              *)
EXTENDS MarketMakerOrders

(* The bot seen as the abstract ledger: an order counts from the moment    *)
(* the exchange knows it, its funds are locked once it is recorded, and    *)
(* the balance is the one in Redis.                                        *)
AcceptedTerms == [o \in Orders |-> IF ex[o].st = "none" THEN NoOrder ELSE order[o]]
Executed == [o \in Orders |-> ex[o].done]
Cancelled == {o \in Orders : ex[o].st = "cancelled"}
Locked == {o \in Orders : rec[o].st # "none"}

Ledger == INSTANCE OrderLedger WITH
    MaxAmount <- InitialIDR,
    terms     <- AcceptedTerms,
    executed  <- Executed,
    cancelled <- Cancelled,
    locked    <- Locked,
    returned  <- refunded,
    bal       <- saved

(* The balance in Redis moves only as the ledger allows: each order's      *)
(* funds are locked once and covered, its fills credited once, its         *)
(* cancelled part returned once (placeNewOrder, handleFilled,              *)
(* handlePartialFill and handleCancelledOrder together).                   *)
ImplementsLedger == Ledger!Spec

(* Whenever the bot may decide to trade, its virtual balance claims no     *)
(* more than the exchange holds for it.                                    *)
NeverOverstated ==
    LockFree => bal.idr <= Ledger!HeldIDR /\ bal.coin <= Ledger!HeldCoin

(* The bot's books: settled when nothing is under way, covered always.     *)
Accounts == SettledWhenQuiet /\ NeverOverstated
=============================================================================
