---------------------------- MODULE MCSwarmDashboard ----------------------------
(***************************************************************************)
(* SwarmDashboard for TLC: two students in the middle of a class, one      *)
(* served by peers more than by the server and one the other way round.    *)
(***************************************************************************)
EXTENDS SwarmDashboard, TLC

CONSTANTS s1, s2

InTheMiddle == (s1 :> <<2, 1>>) @@ (s2 :> <<0, 1>>)
=============================================================================
