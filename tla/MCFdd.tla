------------------------------- MODULE MCFdd --------------------------------
(* Instances of FddService for TLC.  Contents are strings: "r0", "r1", ... *)
(* are the units of the raw image as shipped, "d..." of the D88, and so on. *)
EXTENDS FddService

MCFmt    == [i \in Image |-> CASE i = "raw" -> "raw" [] i = "fdi" -> "fdi" [] OTHER -> "d88"]
MCWidth  == [i \in Image |-> IF i = "raw" THEN 2 ELSE 1]
MCTable  == MCWidth
MCCount  == [i \in Image |-> 2]
MCLen    == [i \in Image |-> IF i = "raw" THEN 4 ELSE 3]
MCLayout == [i \in Image |->
              CASE i = "raw" -> [l \in 0..1 |-> 2 * l]
                [] i = "fdi" -> [l \in 0..1 |-> 1 + l]
                [] OTHER     -> [l \in 0..1 |-> 2 - l]]
MCProtect == [i \in Image |-> i = "d88p"]
MCUnit(i) == CASE i = "raw"  -> <<"r0", "r1", "r2", "r3">>
               [] i = "fdi"  -> <<"f0", "f1", "f2", "f3">>
               [] i = "d88"  -> <<"d0", "d1", "d2", "d3">>
               [] OTHER      -> <<"p0", "p1", "p2", "p3">>
MCInitFile == [i \in Image |-> [u \in 0..(MCLen[i] - 1) |-> MCUnit(i)[u + 1]]]
MCVal == {"junk", "saved", "g1", "g2"} \cup {MCUnit(i)[u] : i \in Image, u \in 1..4}
MCGuestData == {<<"g1", "g2">>}
=============================================================================
