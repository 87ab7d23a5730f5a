----------------------------- MODULE MCReports -----------------------------
(* The message of collectd about the timer fills the buffer, that about    *)
(* the meter is one byte too long.                                         *)
EXTENDS Reports

MCMetrics == <<"timer", "meter">>
MCPluginLength == <<3, 3>>
MCInstanceLength == <<872, 918>>
=============================================================================
