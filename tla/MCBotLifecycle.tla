--------------------------- MODULE MCBotLifecycle ---------------------------
(* Instances of BotLifecycle for TLC.                                      *)
EXTENDS BotLifecycle, TLC

CONSTANTS b1, b2, btcidr, ethidr

(* Requests are interchangeable.                                           *)
AnyRequest == Permutations(Requests)

(* Two bots with a pair each, and two (one paper, one live) on one pair.   *)
OnePairEach == b1 :> btcidr @@ b2 :> ethidr
OnePair == b1 :> btcidr @@ b2 :> btcidr
=============================================================================
