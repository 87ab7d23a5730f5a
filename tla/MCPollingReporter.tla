------------------------- MODULE MCPollingReporter -------------------------
(* Small instances of PollingReporter.                                     *)
EXTENDS PollingReporter
=============================================================================
