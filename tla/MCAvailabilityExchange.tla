------------------------ MODULE MCAvailabilityExchange ------------------------
(***************************************************************************)
(* AvailabilityExchange for TLC: a resource of two chunks, whose bitfield  *)
(* is one byte, and one of nine, whose bitfield is two, and the inputs the *)
(* codec is tried on.                                                      *)
(***************************************************************************)
EXTENDS AvailabilityExchange

Small == <<1>>
Large == <<2, 2>>
TwoResources == {Small, Large}
Totals == [r \in TwoResources |-> IF r = Small THEN 2 ELSE 9]
EarlierVisits == [r \in TwoResources |-> IF r = Small THEN {{1}, {0, 1}} ELSE {{}}]
TradedChunks == [r \in TwoResources |-> IF r = Small THEN {0} ELSE {8}]

Ids == {<<>>, <<7>>, <<7, 9>>}
Numbers == {0, 1, 255, 256, 65536 + 258, 16777216}
Datas == {<<>>, <<5>>, <<5, 0, 255>>}
UpToTwoBytes == 0..9
=============================================================================
