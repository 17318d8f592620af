---------------------------- MODULE MCPumpHunter ----------------------------
(* Instances of PumpHunter for TLC.                                        *)
EXTENDS PumpHunter, TLC

CONSTANTS c1, c2   \* pairs

PairSymmetry == Permutations(Pairs)

(* "Store ClientOrderID for WebSocket matching (same as openPosition)"     *)
(* (repositionPendingOrder): when every message is handled, a position     *)
(* that bought coins is open or closed.                                    *)
BoughtIsOpened ==
    Settled => \A p \in (1 .. used) \ abandoned :
        Bought(p) > 0 => p \in open \/ db[p].st = "closed"
=============================================================================
