------------------------- MODULE MCInspectBatch -------------------------
(* Three names: the first is part of the second, and the third is the first  *)
(* in capitals, which the search takes for the first.                        *)
EXTENDS InspectBatch

CONSTANTS dc1, dc10, DC1

MCNames  == {dc1, dc10, DC1}
MCLower  == [n \in MCNames |-> IF n = DC1 THEN dc1 ELSE n]
MCWithin == {<<n, n>> : n \in MCNames} \cup {dc1, DC1} \X {dc1, DC1, dc10}
==========================================================================
