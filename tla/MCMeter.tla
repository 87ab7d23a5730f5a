------------------------------ MODULE MCMeter ------------------------------
EXTENDS Meter

(* The clock advances, and may be set back.                                *)
SetBack == {3, -2}

(* With at most three ticks the divisions are exact: 144 is a multiple of  *)
(* the squares of the denominators.                                        *)
Denominators == <<2, 3, 4>>
=============================================================================
