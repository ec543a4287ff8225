-------------------------- MODULE MCDeliveryBreaker --------------------------
(* Three deliveries to one inbox. *)
EXTENDS DeliveryBreaker

CONSTANTS d1, d2, d3
=============================================================================
