------------------------------ MODULE RingRtl -------------------------------
(***************************************************************************)
(* The ring of the RTL under traffic: every tile has flits to send on both *)
(* channels, presents each at a time of its own and, as valid/ready asks,  *)
(* holds it until the ring takes it.                                       *)
(***************************************************************************)
EXTENDS RingRouters, Sequences, FiniteSets

CONSTANT Plans    \* plan[<<t, v>>]: where tile t's flits of channel v go

ASSUME PlansAssumption ==
  /\ Plans \subseteq [Injects -> Seq(Tiles)]
  /\ \A p \in Plans : \A q \in Injects : \A k \in DOMAIN p[q] : p[q][k] # q[1]

VARIABLES
  plan,       \* the traffic of this run
  sent,       \* sent[<<t, v>>]: flits of the plan that the ring took
  held,       \* ports at which a flit is presented and not yet taken
  received    \* received[t]: the flits ejected at tile t

vars == <<br, plan, sent, held, received>>

Init ==
  /\ Init_br
  /\ plan \in Plans
  /\ sent = [q \in Injects |-> 0]
  /\ held = {}
  /\ received = [t \in Tiles |-> {}]

Flit(q, k) == [valid |-> TRUE, dst |-> plan[q][k], from |-> q, k |-> k]

HasMore(q) == sent[q] < Len(plan[q])

Waiting(on, took) == on \ took

\* One cycle: the tiles in on present their next flit.
Cycle(on) ==
  LET inj == [q \in Injects |-> IF q \in on THEN Flit(q, sent[q] + 1) ELSE NoFlit]
      took == {q \in on : inj_ready(inj, q[1], q[2])}
  IN
  /\ Edge(inj)
  /\ sent' = [q \in Injects |-> IF q \in took THEN sent[q] + 1 ELSE sent[q]]
  /\ held' = Waiting(on, took)
  /\ received' = [t \in Tiles |->
                    received[t] \cup {eject(t, d) : d \in {d \in Dirs : eject(t, d).valid}}]
  /\ UNCHANGED plan

Clock == \E on \in SUBSET {q \in Injects : HasMore(q)} : held \subseteq on /\ Cycle(on)

Next == Clock

\* The clock does not stop.
Spec == Init /\ [][Next]_vars /\ WF_vars(Clock)

-----------------------------------------------------------------------------
\* A flit the ring took is in one register or was received by its tile, and
\* nothing else is in the ring: "every injected packet must be ejected
\* exactly once at its destination".
ExactlyOnce ==
  \A q \in Injects : \A k \in 1 .. Len(plan[q]) :
    LET at == {r \in Ports : br[r].valid /\ br[r].from = q /\ br[r].k = k}
        to == {t \in Tiles : \E f \in received[t] : f.from = q /\ f.k = k}
    IN  IF k <= sent[q]
        THEN Cardinality(at) + Cardinality(to) = 1 /\ to \subseteq {plan[q][k]}
        ELSE at = {} /\ to = {}

\* Flits of one tile to another on one channel are received in the order in
\* which they were sent.
InOrder ==
  \A q \in Injects : \A j, k \in 1 .. sent[q] :
    j < k /\ plan[q][j] = plan[q][k] /\ Flit(q, k) \in received[plan[q][k]]
      => Flit(q, j) \in received[plan[q][j]]

\* Each register of a direction and channel holds a flit that goes on.
StandsStill(d, v) == \A n \in Tiles : Thru(n, d, v)

\* What has been presented of the flits that go in direction d.
Presented(q, d) ==
  {k \in DOMAIN plan[q] : /\ k <= sent[q] \/ (q \in held /\ k = sent[q] + 1)
                          /\ ring_dir(q[1], plan[q][k]) = d}

\* "Responses (VC1) take the eject port and the link ahead of requests (VC0) -
\* deadlock-free" (ring_router.sv:8) is not so: only the next register is
\* tested before an injection, and a direction of a channel that has filled up
\* stands still for ever.  That is all that can keep a flit that is presented
\* from being taken and received; neither the other direction nor the other
\* channel can, even if they stand still.
EveryFlitArrives ==
  \A q \in Injects, d \in Dirs :
    Presented(q, d) # {} ~>
      \/ []StandsStill(d, q[2])
      \/ \A k \in Presented(q, d) : Flit(q, k) \in received[plan[q][k]]
=============================================================================
