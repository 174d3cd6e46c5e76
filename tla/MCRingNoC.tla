----------------------------- MODULE MCRingNoC ------------------------------
(* Four tiles; the opposite tile is two hops away, clockwise. *)
EXTENDS RingNoC

Opposite == [t \in Tiles |-> <<(t + 2) % N, (t + 2) % N>>]
Mixed == [t \in Tiles |-> IF t = 0 THEN <<3, 2>> ELSE <<0>>]
MCPlans == {Opposite, Mixed}
=============================================================================
