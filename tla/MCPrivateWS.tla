----------------------------- MODULE MCPrivateWS -----------------------------
(* Instances of PrivateWS for TLC.                                         *)
EXTENDS PrivateWS

MCObjects == {1, 2}
MCBudgets == {<<1, 2>>, <<2, 0>>}
=============================================================================
