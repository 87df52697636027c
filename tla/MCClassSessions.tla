--------------------------- MODULE MCClassSessions ---------------------------
(***************************************************************************)
(* ClassSessions for TLC.  Sessions, codes and requests are alike.         *)
(***************************************************************************)
EXTENDS ClassSessions, TLC

Symmetric == Permutations(Sessions) \cup Permutations(Codes) \cup Permutations(Requests)
=============================================================================
