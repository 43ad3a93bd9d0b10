--------------------------- MODULE MCFlamescopeTab -------------------------
(* FlamescopeTab for TLC: two threads and updates whose samples arrive out  *)
(* of order, within one update and from one update to the next. The areas   *)
(* are too small for a layout, too small for the grid, just large enough,   *)
(* and larger by amounts that cells and margins divide unevenly.            *)
EXTENDS FlamescopeTab

MCUpdates == {1 :> <<3>>, 2 :> <<0, 9>>, (1 :> <<7>>) @@ (2 :> <<4>>)}
MCAreas == {[width |-> 2, height |-> 3], [width |-> 12, height |-> 0],
            [width |-> 6, height |-> 8], [width |-> 12, height |-> 2],
            [width |-> 7, height |-> 3], [width |-> 12, height |-> 8]}
============================================================================
