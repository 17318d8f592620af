---------------------------- MODULE MCPumpRules ----------------------------
(* Instances of PumpRules for TLC.  With a target of one percent prices    *)
(* fall, recover and lose their score (stop loss, drop of the score, a     *)
(* decline below the high); with a higher one they rise and come back      *)
(* (take profit, trailing stop); a position is held too long in both.  The *)
(* second pair only competes for the slots.                                *)
EXTENDS PumpRules

Quote(p, s) == [price |-> p, score |-> s]
Market(q) == [c \in {"a", "b"} |-> IF c = "a" THEN q ELSE {Quote(20, 2)}]
MCPairs == {"a", "b"}
MCSettings ==
    {[target |-> 1, quotes |-> Market({Quote(20, 3), Quote(19, 1), Quote(21, 1)})],
     [target |-> 5, quotes |-> Market({Quote(20, 3), Quote(22, 3)})]}
=============================================================================
