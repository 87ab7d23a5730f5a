------------------------------ MODULE Snapshot ------------------------------
(***************************************************************************)
(* medida::stats::Snapshot (src/src/medida/stats/snapshot.cc): a sorted    *)
(* copy of some values, and its quantiles.  The values are any function    *)
(* with a finite domain; sorting is replaced by saying which value is the  *)
(* i-th.  Fractions are thousandths, so a quantile, which is interpolated  *)
(* between two values, is given times 1000.                                *)
(***************************************************************************)
EXTENDS Integers, FiniteSets

Whole == 1000

(* How many of the values satisfy a condition.                             *)
Size(s) == Cardinality(DOMAIN s)
Below(s, x) == Cardinality({i \in DOMAIN s : s[i] < x})
UpTo(s, x) == Cardinality({i \in DOMAIN s : s[i] <= x})

(* values_[i - 1] once the constructor has sorted them.                    *)
Sorted(s, i) == CHOOSE x \in {s[j] : j \in DOMAIN s} : Below(s, x) < i /\ i <= UpTo(s, x)

(* median(), percentile_75() and so on.                                    *)
NamedFractions == {500, 750, 950, 980, 990, 999}

----------------------------------------------------------------------------
(* Wrong variants of the position below, for the mutation runs only.       *)

PositionAmongValues(s, fraction) == fraction * Size(s)

----------------------------------------------------------------------------

(* pos, which counts from 1 and has Whole - 1 places between two values.   *)
Position(s, fraction) == fraction * (Size(s) + 1)

Between(s, pos) ==
    LET lower == Sorted(s, pos \div Whole)
        upper == Sorted(s, pos \div Whole + 1)
    IN  Whole * lower + (pos % Whole) * (upper - lower)

Quantile(s, fraction) ==
    LET pos == Position(s, fraction)
    IN  IF Size(s) = 0 THEN 0
        ELSE IF pos < Whole THEN Whole * Sorted(s, 1)
        ELSE IF pos >= Whole * Size(s) THEN Whole * Sorted(s, Size(s))
        ELSE Between(s, pos)

(* What a quantile is, whatever way it is interpolated: with one value     *)
(* imagined beside them, no more than the fraction of the values is below  *)
(* it and no more than the rest above.                                     *)
Splits(s, fraction) ==
    LET q == Quantile(s, fraction)
    IN  /\ Whole * Cardinality({i \in DOMAIN s : Whole * s[i] < q}) <= fraction * (Size(s) + 1)
        /\ Whole * Cardinality({i \in DOMAIN s : Whole * s[i] > q})
               <= (Whole - fraction) * (Size(s) + 1)

(* Larger fractions have no smaller quantiles.                             *)
Rises(s) == \A f, g \in NamedFractions : f <= g => Quantile(s, f) <= Quantile(s, g)
=============================================================================
