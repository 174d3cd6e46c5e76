------------------------------ MODULE RingNoC -------------------------------
(***************************************************************************)
(* The bidirectional ring (RingNoC and route_from_tile in                  *)
(* src/cycle/fabric.cpp) with the tiles at its nodes as far as they load   *)
(* it: a tile sends requests (DATA_WRITE), and consumes a request only     *)
(* when the acknowledgement it owes can be queued (process_ingress_queue). *)
(*                                                                         *)
(* A cycle is RingNoC::tick, the nodes of direction 0 and then those of    *)
(* direction 1, each with its ejections and its outgoing link, followed by *)
(* the tiles in turn: what arrived, then what they send.  Requests and     *)
(* responses are separate virtual channels that share the links, responses *)
(* first.                                                                  *)
(***************************************************************************)
EXTENDS Integers, Sequences, FiniteSets

CONSTANTS
  N,             \* NUM_TILES
  BufferDepth,   \* cfg.noc_buffer_depth
  HopLatency,    \* cfg.noc_hop_latency
  InjectDepth,   \* cfg.noc_inject_queue_depth
  IngressDepth,  \* capacity of a tile_ingress queue
  BusyTiles,     \* tiles whose ports and DMA engine other work also uses
  Plans          \* the requests the tiles may be about to send

Tiles == 0 .. N - 1
Dirs == {0, 1}                \* clockwise, counter-clockwise
VCs == {"REQ", "RESP"}
Ports == Tiles \X Dirs \X VCs

\* plan[t] is the sequence of the tiles that t sends a request to.
ASSUME RingAssumption ==
  /\ N \in Nat /\ N >= 2
  /\ HopLatency \in Nat \ {0}
  /\ InjectDepth \in Nat \ {0} /\ IngressDepth \in Nat \ {0}
  /\ BusyTiles \subseteq Tiles
  /\ Plans \subseteq [Tiles -> Seq(Tiles)]
  /\ \A p \in Plans : \A t \in Tiles : \A k \in DOMAIN p[t] : p[t][k] # t

\* The condition under which the ring cannot fill up, which the configured
\* depth of 4 and latency of 1 satisfy.
ASSUME DepthAssumption == BufferDepth \in Nat /\ BufferDepth > HopLatency

VARIABLES
  ring_in,       \* ring_in[<<n, d, v>>]: flits at node n that travel in direction d
  inject,        \* inject[<<n, d, v>>]: flits waiting to enter the ring at node n
  tile_ingress,  \* tile_ingress[<<n, v>>]: flits that have left it there
  turn,          \* the step of the cycle that is next
  plan,          \* the requests of this run
  sent,          \* sent[t]: requests of plan[t] that route_from_tile took
  answered       \* requests whose acknowledgement is back

vars == <<ring_in, inject, tile_ingress, turn, plan, sent, answered>>

\* A flit: the request <<src, k>> it is or answers, where it leaves the ring,
\* and the cycles until the next queue operation may see it.
Flit == [id : Tiles \X (Nat \ {0}), ring_dest : Tiles, wait : 0 .. HopLatency]

\* A cycle's steps: the nodes for each direction, then each tile's ingress
\* and its DMA engine.
Turns == 0 .. 4 * N - 1
NodeTurn(n, d) == turn = d * N + n
IngressTurn(t) == turn = 2 * N + 2 * t
DmaTurn(t) == turn = 2 * N + 2 * t + 1

Init ==
  /\ ring_in = [q \in Ports |-> <<>>]
  /\ inject = [q \in Ports |-> <<>>]
  /\ tile_ingress = [q \in Tiles \X VCs |-> <<>>]
  /\ turn = 0
  /\ plan \in Plans
  /\ sent = [t \in Tiles |-> 0]
  /\ answered = {}

\* The next node in direction d, around the ring.
Neighbour(n, d) ==
  IF d = 0 THEN IF n = N - 1 THEN 0 ELSE n + 1
           ELSE IF n = 0 THEN N - 1 ELSE n - 1

\* Faulty: by the load of the queues.
AdaptiveDirection(from, to) == IF inject[<<from, 0, "REQ">>] = <<>> THEN 0 ELSE 1

\* Shortest path, tie clockwise.
ring_direction(from, to) ==
  LET cw == (to - from + N) % N IN IF cw <= N - cw THEN 0 ELSE 1

Ready(q) == q # <<>> /\ Head(q).wait = 0

-----------------------------------------------------------------------------
(* RingNoC::tick, one node in one direction.                               *)

\* Faulty: keeps the last place free.
EjectsEarlyFull(n, d, v) ==
  /\ Ready(ring_in[<<n, d, v>>])
  /\ Head(ring_in[<<n, d, v>>]).ring_dest = n
  /\ Len(tile_ingress[<<n, v>>]) + 1 < IngressDepth

\* process_node: a flit that ends here leaves the ring, unless the tile has
\* no room; then it blocks those behind it.
Ejects(n, d, v) ==
  /\ Ready(ring_in[<<n, d, v>>])
  /\ Head(ring_in[<<n, d, v>>]).ring_dest = n
  /\ Len(tile_ingress[<<n, v>>]) < IngressDepth

\* Faulty: the buffer forgets a flit that found no room.
KeptUnlessHere(n, d, v) ==
  IF Ready(ring_in[<<n, d, v>>]) /\ Head(ring_in[<<n, d, v>>]).ring_dest = n
  THEN Tail(ring_in[<<n, d, v>>]) ELSE ring_in[<<n, d, v>>]

\* The input buffer and the ingress queue after that.
Kept(n, d, v) == IF Ejects(n, d, v) THEN Tail(ring_in[<<n, d, v>>]) ELSE ring_in[<<n, d, v>>]
Arrived(n, d, v) ==
  IF Ejects(n, d, v)
  THEN Append(tile_ingress[<<n, v>>], [Head(ring_in[<<n, d, v>>]) EXCEPT !.wait = 1])
  ELSE tile_ingress[<<n, v>>]

\* try_inject: a flit that continues past this node goes before the ones
\* that want to enter here.
Through(n, d, v) ==
  Ready(Kept(n, d, v)) /\ Head(Kept(n, d, v)).ring_dest # n
Room(n, d, v) == Len(ring_in[<<n, d, v>>]) < BufferDepth
Forwards(n, d, v) == Through(n, d, v) /\ Room(Neighbour(n, d), d, v)
\* Faulty: whether or not a flit wants to pass.
EntersFirst(n, d, v) ==
  inject[<<n, d, v>>] # <<>> /\ Room(Neighbour(n, d), d, v)
Enters(n, d, v) ==
  ~Through(n, d, v) /\ inject[<<n, d, v>>] # <<>> /\ Room(Neighbour(n, d), d, v)
UsesLink(n, d, v) == Forwards(n, d, v) \/ Enters(n, d, v)

\* Virtual channel 1 first.
HasLink(n, d, v) ==
  UsesLink(n, d, v) /\ (v = "REQ" => ~UsesLink(n, d, "RESP"))

Hop(f) == [f EXCEPT !.wait = HopLatency]

Eject(n, d) ==
  tile_ingress' = [tile_ingress EXCEPT ![<<n, "REQ">>] = Arrived(n, d, "REQ"),
                                       ![<<n, "RESP">>] = Arrived(n, d, "RESP")]

\* The node's input buffers after the ejections.
Rest(n, d) == [ring_in EXCEPT ![<<n, d, "REQ">>] = Kept(n, d, "REQ"),
                              ![<<n, d, "RESP">>] = Kept(n, d, "RESP")]

Forward(n, d, v) ==
  /\ Forwards(n, d, v) /\ HasLink(n, d, v)
  /\ ring_in' = [Rest(n, d) EXCEPT
                   ![<<n, d, v>>] = Tail(@),
                   ![<<Neighbour(n, d), d, v>>] = Append(@, Hop(Head(Kept(n, d, v))))]
  /\ UNCHANGED inject

Enter(n, d, v) ==
  /\ Enters(n, d, v) /\ HasLink(n, d, v)
  /\ ring_in' = [Rest(n, d) EXCEPT
                   ![<<Neighbour(n, d), d, v>>] = Append(@, Hop(Head(inject[<<n, d, v>>])))]
  /\ inject' = [inject EXCEPT ![<<n, d, v>>] = Tail(@)]

LinkIdle(n, d) ==
  /\ \A v \in VCs : ~UsesLink(n, d, v)
  /\ ring_in' = Rest(n, d)
  /\ UNCHANGED inject

Node(n, d) ==
  /\ NodeTurn(n, d)
  /\ Eject(n, d)
  /\ (\E v \in VCs : Forward(n, d, v) \/ Enter(n, d, v)) \/ LinkIdle(n, d)
  /\ turn' = turn + 1
  /\ UNCHANGED <<plan, sent, answered>>

-----------------------------------------------------------------------------
(* The tiles.                                                              *)

\* route_from_tile: the queue towards tile "to" takes another flit.
CanRoute(t, to, v) == Len(inject[<<t, ring_direction(t, to), v>>]) < InjectDepth
Route(t, to, v, id) ==
  inject' = [inject EXCEPT ![<<t, ring_direction(t, to), v>>] =
               Append(@, [id |-> id, ring_dest |-> to, wait |-> 0])]

\* process_ingress_queue for the responses: every WRITE_ACK that is visible
\* is consumed.
Visible(q) == Cardinality({i \in DOMAIN q : q[i].wait = 0})
Absorb(t) ==
  LET q == tile_ingress[<<t, "RESP">>] IN
    answered' = answered \cup {q[i].id : i \in 1 .. Visible(q)}
Drained(t) ==
  SubSeq(tile_ingress[<<t, "RESP">>], Visible(tile_ingress[<<t, "RESP">>]) + 1,
         Len(tile_ingress[<<t, "RESP">>]))

\* The oldest DATA_WRITE can be consumed: its acknowledgement has a place.
CanTake(t) ==
  /\ Ready(tile_ingress[<<t, "REQ">>])
  /\ CanRoute(t, Head(tile_ingress[<<t, "REQ">>]).id[1], "RESP")

EndIngress(t) == turn' = turn + 1 /\ UNCHANGED <<ring_in, plan, sent>>

\* With the tile's write port free.
Take(t) ==
  /\ IngressTurn(t) /\ CanTake(t)
  /\ Absorb(t)
  /\ LET id == Head(tile_ingress[<<t, "REQ">>]).id IN Route(t, id[1], "RESP", id)
  /\ tile_ingress' = [tile_ingress EXCEPT ![<<t, "RESP">>] = Drained(t),
                                          ![<<t, "REQ">>] = Tail(@)]
  /\ EndIngress(t)

\* Without a request, or a place for its answer, or the write port.
Skip(t) ==
  /\ IngressTurn(t) /\ (CanTake(t) => t \in BusyTiles)
  /\ Absorb(t)
  /\ tile_ingress' = [tile_ingress EXCEPT ![<<t, "RESP">>] = Drained(t)]
  /\ UNCHANGED inject
  /\ EndIngress(t)

\* Flits become visible as time passes.
Elapse(q) ==
  [i \in DOMAIN q |-> [q[i] EXCEPT !.wait = IF @ = 0 THEN 0 ELSE @ - 1]]

\* The last step of a cycle is the last tile's.
EndDma(t) ==
  /\ IF t < N - 1
     THEN turn' = turn + 1 /\ UNCHANGED <<ring_in, tile_ingress>>
     ELSE /\ turn' = 0
          /\ ring_in' = [q \in Ports |-> Elapse(ring_in[q])]
          /\ tile_ingress' = [q \in Tiles \X VCs |-> Elapse(tile_ingress[q])]
  /\ UNCHANGED <<plan, answered>>

CanSend(t) ==
  sent[t] < Len(plan[t]) /\ CanRoute(t, plan[t][sent[t] + 1], "REQ")

\* emit_dma_chunk: the next chunk of a push to another tile's LOCAL.
Send(t) ==
  /\ DmaTurn(t) /\ CanSend(t)
  /\ Route(t, plan[t][sent[t] + 1], "REQ", <<t, sent[t] + 1>>)
  /\ sent' = [sent EXCEPT ![t] = @ + 1]
  /\ EndDma(t)

\* Nothing to send, no room, or the engine is not at the next push yet.
Rests(t) ==
  /\ DmaTurn(t) /\ (CanSend(t) => t \in BusyTiles)
  /\ UNCHANGED <<inject, sent>>
  /\ EndDma(t)

-----------------------------------------------------------------------------
Next ==
  \/ \E n \in Tiles, d \in Dirs : Node(n, d)
  \/ \E t \in Tiles : Take(t) \/ Skip(t) \/ Send(t) \/ Rests(t)

\* The cycles go on; a tile's other work is finite, so that it cannot keep a
\* request from the write port, or the DMA engine from its next push, in
\* every cycle.
Fairness ==
  /\ WF_vars(Next)
  /\ \A t \in BusyTiles : SF_vars(Take(t)) /\ SF_vars(Send(t))

Spec == Init /\ [][Next]_vars /\ Fairness

-----------------------------------------------------------------------------
TypeOK ==
  /\ ring_in \in [Ports -> Seq(Flit)]
  /\ inject \in [Ports -> Seq(Flit)]
  /\ tile_ingress \in [Tiles \X VCs -> Seq(Flit)]
  /\ \A q \in Ports : Len(ring_in[q]) <= BufferDepth /\ Len(inject[q]) <= InjectDepth
  /\ \A q \in Tiles \X VCs : Len(tile_ingress[q]) <= IngressDepth
  /\ turn \in Turns
  /\ plan \in Plans
  /\ sent \in [Tiles -> Nat]
  /\ answered \in SUBSET (Tiles \X (Nat \ {0}))

\* In no direction and on no channel do the input buffers fill up with flits
\* that all want to go on, each waiting for the next: some node has a free
\* slot or a flit to take out.
NeverWedged ==
  \A d \in Dirs, v \in VCs : \E n \in Tiles :
    Room(n, d, v) \/ Head(ring_in[<<n, d, v>>]).ring_dest = n

\* Where a request or its answer is.
Ids(q) == {q[i].id : i \in DOMAIN q}
Queued(v) ==
  UNION ({Ids(ring_in[q]) : q \in Tiles \X Dirs \X {v}}
           \cup {Ids(inject[q]) : q \in Tiles \X Dirs \X {v}}
           \cup {Ids(tile_ingress[q]) : q \in Tiles \X {v}})
Served == Queued("RESP") \cup answered

\* The requests of one tile to another are consumed in the order they were
\* sent in (the chunks of a push, and of successive pushes, to one tile).
InOrder ==
  \A t \in Tiles : \A j, k \in 1 .. sent[t] :
    j < k /\ plan[t][j] = plan[t][k] /\ <<t, k>> \in Served => <<t, j>> \in Served

\* No request and no answer is lost, and no tile answers a request twice or
\* one that was not sent.
NothingLost ==
  /\ Queued("REQ") \cup Served = UNION {{t} \X (1 .. sent[t]) : t \in Tiles}
  /\ Queued("REQ") \cap Served = {}
  /\ Queued("RESP") \cap answered = {}

\* Every request is answered, although a tile takes a request only when it
\* can queue the answer: "request -> response protocol deadlock is
\* impossible".
EveryRequestAnswered ==
  <>(\A t \in Tiles : \A k \in DOMAIN plan[t] : <<t, k>> \in answered)

-----------------------------------------------------------------------------
(* Why the ring cannot fill up: a node gives a flit to the link only after *)
(* it looked at its own buffer.  The flits that arrived there and are not  *)
(* visible yet came one a cycle, so that there are at most HopLatency.     *)

\* One flit a cycle: those that still travel are spaced.
Spaced(q) ==
  \A i, j \in DOMAIN q : i <= j /\ q[i].wait > 0 => q[j].wait >= q[i].wait + (j - i)
AllSpaced == \A q \in Ports : Spaced(ring_in[q])

\* Before a node's turn nothing has arrived over its link in this cycle.
LinkUnused(n, d, v) ==
  LET q == ring_in[<<Neighbour(n, d), d, v>>] IN
    \A i \in DOMAIN q : q[i].wait < HopLatency
LinksUnused ==
  \A n \in Tiles, d \in Dirs, v \in VCs : turn <= d * N + n => LinkUnused(n, d, v)

IInv == TypeOK /\ AllSpaced /\ LinksUnused /\ NeverWedged
=============================================================================
