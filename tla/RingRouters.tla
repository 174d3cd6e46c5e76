---------------------------- MODULE RingRouters ----------------------------
(***************************************************************************)
(* The ring of the RTL (rtl/noc/ring_router.sv, ring_noc.sv), one clock    *)
(* edge at a time.  Each node has, for each direction and virtual channel, *)
(* a register that holds one flit.  The operators below are the            *)
(* combinational signals; inj[<<n, v>>] is what tile n offers on channel v *)
(* in this cycle.  Edge is the clock edge.                                 *)
(***************************************************************************)
EXTENDS Integers

CONSTANT N        \* NUM_TILES

ASSUME NodesAssumption == N \in Nat /\ N >= 2

VARIABLE br       \* br[<<n, d, v>>]: br_req, br_resp of node n's two routers

Tiles == 0 .. N - 1
Dirs == {0, 1}            \* clockwise, counter-clockwise
VCs == {"REQ", "RESP"}
Ports == Tiles \X Dirs \X VCs
Injects == Tiles \X VCs

\* A flit is a record with valid = TRUE and a dst.
NoFlit == [valid |-> FALSE]

Init_br == br = [q \in Ports |-> NoFlit]

\* Faulty: goes by the load of the router.
ring_dir_by_load(from, to) == IF br[<<from, 0, "REQ">>].valid THEN 1 ELSE 0

\* Shortest direction, tie clockwise.
ring_dir(from, to) ==
  LET cw == (to - from + N) % N IN IF cw <= N - cw THEN 0 ELSE 1

Downstream(n, d) == IF d = 0 THEN (n + 1) % N ELSE (n + N - 1) % N
Upstream(n, d) == Downstream(n, 1 - d)

Here(n, d, v) == br[<<n, d, v>>].valid /\ br[<<n, d, v>>].dst = n

\* Faulty: takes the order of the numbers for the order on the ring.
ThruBelow(n, d, v) == br[<<n, d, v>>].valid /\ br[<<n, d, v>>].dst > n

Thru(n, d, v) == br[<<n, d, v>>].valid /\ br[<<n, d, v>>].dst # n

\* Response first; eject_ready is tied to 1.
Ejected(n, d, v) == Here(n, d, v) /\ (v = "REQ" => ~Here(n, d, "RESP"))
eject(n, d) ==
  IF Ejected(n, d, "RESP") THEN br[<<n, d, "RESP">>]
  ELSE IF Ejected(n, d, "REQ") THEN br[<<n, d, "REQ">>]
  ELSE NoFlit

\* Faulty: promises the place of a flit that is leaving.
InReadyEager(n, d, v) == ~br[<<n, d, v>>].valid \/ Ejected(n, d, v)

in_ready(n, d, v) == ~br[<<n, d, v>>].valid

Forwarded(n, d, v) == Thru(n, d, v) /\ in_ready(Downstream(n, d), d, v)

\* The local flit goes to the router of its direction.
Split(inj, n, d, v) ==
  IF inj[<<n, v>>].valid /\ ring_dir(n, inj[<<n, v>>].dst) = d
  THEN inj[<<n, v>>] ELSE NoFlit

Taken(inj, n, d, v) ==
  /\ ~Thru(n, d, v)
  /\ Split(inj, n, d, v).valid
  /\ in_ready(Downstream(n, d), d, v)

\* Faulty: only the clockwise router's answer.
ReadyClockwise(inj, n, v) == Taken(inj, n, 0, v)

inj_ready(inj, n, v) == \E d \in Dirs : Taken(inj, n, d, v)

Out(inj, n, d, v) ==
  IF Forwarded(n, d, v) THEN br[<<n, d, v>>]
  ELSE IF Taken(inj, n, d, v) THEN Split(inj, n, d, v)
  ELSE NoFlit

Drained(n, d, v) == Ejected(n, d, v) \/ Forwarded(n, d, v)

\* An empty register takes what comes, a drained one becomes empty.
Edge(inj) ==
  br' = [q \in Ports |->
           LET n == q[1]  d == q[2]  v == q[3] IN
           IF ~br[q].valid THEN Out(inj, Upstream(n, d), d, v)
           ELSE IF Drained(n, d, v) THEN NoFlit
           ELSE br[q]]
=============================================================================
