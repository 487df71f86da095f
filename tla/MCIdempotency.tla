--------------------------- MODULE MCIdempotency ----------------------------
(* An instance of Idempotency: two clients of one key with the same        *)
(* payload and a third that uses the key with another payload.  Keys share *)
(* nothing, so one key is enough.                                          *)
EXTENDS Idempotency

CONSTANTS a, b, x, k1, h1, h2

MCCallers == {a, b, x}
MCKeys == {k1}
MCHashes == {h1, h2}
MCKeyOf == [c \in MCCallers |-> k1]
MCHashOf == [c \in MCCallers |-> IF c = x THEN h2 ELSE h1]
ThreeFaults == [s \in Stores |-> 3]
\* Callers overlap freely on the fallback, where one fault is enough.
TwoFaults == [s \in Stores |-> IF s = "fallback" THEN 1 ELSE 2]
=============================================================================
