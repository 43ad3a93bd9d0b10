-------------------------- MODULE FlamegraphLayout -------------------------
(* The arithmetic of drawing a flame graph: floating-point columns and      *)
(* their rounding, and the row the graph is scrolled to.  A floating-point  *)
(* number is one of the listed fractions of a column; what an operation     *)
(* gives is the nearest of them.                                            *)
EXTENDS Integers, Sequences, Iteration

CONSTANTS Unit,      \* fractions are counted in parts of a column: 1.0 is Unit
          Fractions  \* the numbers an f64 holds, from 0 upwards

ASSUME FractionAssumption ==
    /\ Unit \in Nat \ {0}
    /\ Fractions \in Seq(Nat) /\ Fractions # <<>> /\ Fractions[1] = 0
    /\ \A i, j \in DOMAIN Fractions : i < j => Fractions[i] < Fractions[j]
    /\ \E i \in DOMAIN Fractions : Fractions[i] = Unit

(* The place of the greatest fraction up to num / den. *)
Place(num, den) ==
    CHOOSE k \in DOMAIN Fractions :
        /\ k < Len(Fractions) => num < Fractions[k + 1] * den
        /\ Fractions[k] * den <= num

(* Round to nearest; half-way goes to the even mantissa, and of neighbours  *)
(* those at odd places are even.                                            *)
Nearest(num, den) ==
    LET k == Place(num, den)
        Up == \/ 2 * num > (Fractions[k] + Fractions[k + 1]) * den
              \/ /\ 2 * num = (Fractions[k] + Fractions[k + 1]) * den
                 /\ k % 2 = 0
    IN IF k < Len(Fractions) /\ Up THEN Fractions[k + 1] ELSE Fractions[k]

Float(n) == Nearest(n * Unit, 1)  \* n as f64

Plus(x, y) == Nearest(x + y, 1)

Times(x, y) == Nearest(x * y, Unit)

(* Columns per unit of weight: width / total. *)
Scale(width, total) == Nearest(Float(width) * Unit, Float(total))

(* f64::round: the nearest whole column, half up. *)
Round(x) == (2 * x + Unit) \div (2 * Unit)

(* Where what starts at x and has a weight ends, and the next one starts. *)
Edge(x, weight, scale) == Plus(x, Times(Float(weight), scale))

(* Where one comes to past several of them, one after another. *)
Advanced(x, weights, scale) ==
    Walk(x, [k \in DOMAIN weights |-> [y \in Nat |-> Edge(y, weights[k], scale)]])
        [Len(weights)]

(* Mutant of Columns: the width is rounded by itself. *)
ColumnsAlone(x, weight, scale) == Round(Times(Float(weight), scale))

(* A frame ends at the rounded end, not a rounded width after its start. *)
Columns(x, weight, scale) == Round(Edge(x, weight, scale)) - Round(x)

----------------------------------------------------------------------------
AtMost(a, b) == IF a <= b THEN a ELSE b

(* Mutant of Scrolled: one row short of the last one. *)
ScrolledShort(scroll, depth, deepest, height) ==
    LET near == IF depth < scroll THEN depth
                ELSE IF depth > scroll + height THEN depth - height ELSE scroll
    IN AtMost(near, IF deepest < height - 1 THEN 0 ELSE deepest - (height - 1))

(* The row of the cursor, at `depth`, is scrolled into view, and no further *)
(* than the deepest row drawn.                                              *)
Scrolled(scroll, depth, deepest, height) ==
    LET near == IF depth < scroll THEN depth
                ELSE IF depth >= scroll + height THEN depth - height + 1
                ELSE scroll
    IN AtMost(near, IF deepest < height - 1 THEN 0 ELSE deepest - (height - 1))
============================================================================
