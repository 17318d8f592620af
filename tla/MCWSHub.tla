------------------------------- MODULE MCWSHub -------------------------------
(* Instances of WSHub for TLC: two connections of one user, one of another.*)
EXTENDS WSHub

MCClients == 1 .. 3
MCUserOf == <<1, 1, 2>>
=============================================================================
