------------------------- MODULE MCMetricsRegistry -------------------------
(* Three names and two texts: a.b.c.d is written with a scope and without. *)
EXTENDS MetricsRegistry

MCNames ==
    {[domain |-> <<"a">>, type |-> <<"b">>, name |-> <<"c">>, scope |-> <<>>],
     [domain |-> <<"a">>, type |-> <<"b">>, name |-> <<"c">>, scope |-> <<"d">>],
     [domain |-> <<"a">>, type |-> <<"b">>, name |-> <<"c", "d">>, scope |-> <<>>]}
=============================================================================
