--------------------------- MODULE MCUdpReporter ---------------------------
EXTENDS UdpReporter

(* A report of 32 messages, so that connections end at any of them.        *)
SomeOfEach == <<"counter", "histogram", "meter", "timer", "value">>
=============================================================================
