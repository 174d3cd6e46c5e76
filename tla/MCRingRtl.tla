----------------------------- MODULE MCRingRtl ------------------------------
(* Five nodes: two hops in each direction. *)
EXTENDS RingRtl, TLC

Plan(req, resp) ==
  [q \in Injects |-> LET p == IF q[2] = "REQ" THEN req ELSE resp IN
                     IF q[1] \in DOMAIN p THEN p[q[1]] ELSE <<>>]

\* Flits of the same direction that share nodes, both directions at once, and
\* responses that eject before requests.
Crossing == Plan((0 :> <<2, 2>>) @@ (1 :> <<2>>) @@ (4 :> <<2>>),
                 (1 :> <<2, 0>>) @@ (3 :> <<2>>))
\* One channel with a flit less than it has nodes.
NearlyFull == Plan((0 :> <<2>>) @@ (1 :> <<3, 3>>) @@ (4 :> <<1>>), (2 :> <<0, 1>>))
\* As many as it has nodes, all clockwise; one more goes the other way.
Full ==
  Plan((0 :> <<2, 4>>) @@ (1 :> <<3>>) @@ (2 :> <<4>>) @@ (3 :> <<0>>) @@ (4 :> <<1>>), <<>>)
Traffic == {Crossing, NearlyFull, Full}
=============================================================================
