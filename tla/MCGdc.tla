------------------------------- MODULE MCGdc --------------------------------
(* An instance of GdcService for TLC: figures of every kind and octant that  *)
(* start at the first and at the last dot of the plane.                      *)
EXTENDS GdcService
Full == 0..PatBits - 1
Base(start) == [NoFigure EXCEPT !.word = start, !.dot = IF start = 0 THEN 0 ELSE 15,
                                !.d = 2, !.d2 = 1,
                                !.textw = Full, !.mask = {0, 8}, !.code = {0, 1, 8}]
Starts == {0, 16383}
Lines == {[Base(16383) EXCEPT !.ope = {"line"}, !.dir = o, !.dc = 3, !.d1 = 5] : o \in {0, 3, 5, 6}}
Rects == {[Base(s) EXCEPT !.ope = {"rect"}, !.dir = o, !.mode = 1] :
            s \in Starts, o \in {1, 6}}
Others == {[Base(16383) EXCEPT !.ope = k, !.dir = 3, !.dc = 1, !.zoom = 1,
                               !.textw = {0, 2}] : k \in {{}, {"text"}, {"circle"}}}
Runs == {[Base(s) EXCEPT !.mode = m, !.width = w, !.dc = 3] :
            s \in {16383}, m \in 0..3, w \in {"high"}}
MCFigures == Lines \cup Rects \cup Others \cup Runs
MCSlow == Runs
MCAccels == {{}, {"grcg"}, {"grcg", "rmw"}}
=============================================================================
