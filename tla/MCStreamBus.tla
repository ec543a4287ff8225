---------------------------- MODULE MCStreamBus ----------------------------
(* Two streams of one channel and one of another. *)
EXTENDS StreamBus

CONSTANTS a, b, c, home, public

Heard == [l \in Listener |-> IF l = c THEN public ELSE home]
=============================================================================
