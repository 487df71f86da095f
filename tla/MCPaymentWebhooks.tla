------------------------- MODULE MCPaymentWebhooks --------------------------
(* An instance of PaymentWebhooks: two racing deliverers of a supported    *)
(* event and one of an event whose type is not supported.                  *)
EXTENDS PaymentWebhooks

CONSTANTS d1, d2, d3, paid, other

MCDeliverers == {d1, d2, d3}
MCEvents == {paid, other}
MCSupported == {paid}
MCEventOf == [d \in MCDeliverers |-> IF d = d3 THEN other ELSE paid]
=============================================================================
