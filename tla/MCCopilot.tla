------------------------------ MODULE MCCopilot ------------------------------
(* Instances of Copilot for TLC.                                           *)
EXTENDS Copilot

CONSTANTS c1, c2

MCClients == {c1, c2}
=============================================================================
