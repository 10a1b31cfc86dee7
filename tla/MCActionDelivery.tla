-------------------------- MODULE MCActionDelivery --------------------------
(* ActionDelivery for TLC. The constants keep the order of the code's:     *)
(* queues of 2 (8), sequence window 3 (64), tick window 2 (120).           *)
EXTENDS ActionDelivery
=============================================================================
