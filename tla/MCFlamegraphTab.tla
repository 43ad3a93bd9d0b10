--------------------------- MODULE MCFlamegraphTab -------------------------
(* FlamegraphTab for TLC: two threads, call chains that share callers, and  *)
(* weights that make siblings change places as profiles arrive.             *)
EXTENDS FlamegraphTab

Weighted(stack, value) == [stack |-> stack, value |-> value]

MCNames == {"t", "u", "a", "b", "c"}
MCThreadNames == {"t", "u"}

MCExports ==
    {<<>>,
     <<Weighted(<<"t", "a">>, 5), Weighted(<<"t", "b">>, 1), Weighted(<<"t", "c">>, 1)>>,
     <<Weighted(<<"u", "a", "b">>, 1), Weighted(<<"t", "a">>, 5)>>,
     <<Weighted(<<"t">>, 1), Weighted(<<"u", "b">>, 6)>>}

(* Floating-point numbers with mantissas of four bits, in sixteenths. *)
MCUnit == 16

Fraction(k) == IF k < 8 THEN k ELSE (8 + (k % 8)) * 2 ^ (k \div 8 - 1)

(* A definition of its own, which TLC evaluates once. *)
FractionList == <<0>> \o [k \in 1 .. 55 |-> Fraction(k)]

MCFractions == FractionList
============================================================================
