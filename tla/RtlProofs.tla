----------------------------- MODULE RtlProofs ------------------------------
(***************************************************************************)
(* For rings of any size and any traffic: every flit that the ring of the  *)
(* RTL took is in exactly one register, on its way, or was received, once, *)
(* by the tile it is for; and flits of one tile to another do not overtake.*)
(* For the tiles with their DMA engines on that ring: no line is changed,  *)
(* and none is lost but to a line from the other side in the same cycle.   *)
(***************************************************************************)
EXTENDS RingRtl, NocTileSys, FiniteSetTheorems, TLAPS

-----------------------------------------------------------------------------
(* The inductive invariant.                                                *)

Flits == [valid : {TRUE}, dst : Tiles, from : Injects, k : Nat \ {0}]

\* The links from s to n in direction d.
Hops(s, n, d) ==
  IF d = 0 THEN IF n >= s THEN n - s ELSE n - s + N
           ELSE IF s >= n THEN s - n ELSE s - n + N

Gone(q, k) == Flit(q, k) \in received[plan[q][k]]

Types ==
  /\ plan \in Plans
  /\ sent \in [Injects -> Nat] /\ \A q \in Injects : sent[q] <= Len(plan[q])
  /\ br \in [Ports -> Flits \cup {NoFlit}]
  /\ received \in [Tiles -> SUBSET Flits]

\* A flit in a register is one that the ring took, on the channel and in the
\* direction of its source, and not beyond its destination.
OnItsWay ==
  \A r \in Ports : br[r].valid =>
    LET q == br[r].from  k == br[r].k IN
    /\ q \in Injects /\ k \in 1 .. sent[q] /\ br[r] = Flit(q, k)
    /\ q[2] = r[3] /\ ring_dir(q[1], plan[q][k]) = r[2]
    /\ Hops(q[1], r[1], r[2]) \in 1 .. Hops(q[1], plan[q][k], r[2])

InOnePlace ==
  \A r, p \in Ports :
    br[r].valid /\ br[p].valid /\ br[r].from = br[p].from /\ br[r].k = br[p].k => r = p

Arrived ==
  \A t \in Tiles : \A f \in received[t] :
    /\ f.from \in Injects /\ f.k \in 1 .. sent[f.from] /\ f = Flit(f.from, f.k)
    /\ t = plan[f.from][f.k]
    /\ \A r \in Ports : br[r] # f

NoneLost ==
  \A q \in Injects : \A k \in 1 .. sent[q] : Gone(q, k) \/ \E r \in Ports : br[r] = Flit(q, k)

\* Of two flits to one tile the earlier was received or is further along.
Ahead(q, j, k) ==
  \/ Gone(q, j)
  \/ /\ ~Gone(q, k)
     /\ \A r \in Ports : br[r] = Flit(q, k) =>
          \E p \in Ports : br[p] = Flit(q, j) /\ Hops(q[1], p[1], p[2]) > Hops(q[1], r[1], r[2])
InLine ==
  \A q \in Injects : \A j, k \in 1 .. sent[q] :
    j < k /\ plan[q][j] = plan[q][k] => Ahead(q, j, k)

IInv == Types /\ OnItsWay /\ InOnePlace /\ Arrived /\ NoneLost /\ InLine

-----------------------------------------------------------------------------
(* The ring.                                                               *)

\* A port is its node, its direction and its channel.
LEMMA PortParts ==
  /\ \A r \in Ports : r[1] \in Tiles /\ r[2] \in Dirs /\ r[3] \in VCs /\ r = <<r[1], r[2], r[3]>>
  /\ \A n \in Tiles, d \in Dirs, v \in VCs : <<n, d, v>> \in Ports /\ <<n, v>> \in Injects
  /\ \A q \in Injects : q[1] \in Tiles /\ q[2] \in VCs /\ q = <<q[1], q[2]>>
BY DEF Ports, Injects

\* The node after and the node before.
LEMMA Neighbours ==
  ASSUME NEW n \in Tiles
  PROVE  /\ Downstream(n, 0) = IF n = N - 1 THEN 0 ELSE n + 1
         /\ Downstream(n, 1) = IF n = 0 THEN N - 1 ELSE n - 1
<1>1. (n + 1) % N = IF n = N - 1 THEN 0 ELSE n + 1
  <2>1. CASE n = N - 1
    <3>1. n + 1 = N /\ N % N = 0
      BY <2>1, NodesAssumption
    <3> QED  BY <2>1, <3>1
  <2>2. CASE n # N - 1
    <3>1. n + 1 \in 0 .. N - 1
      BY <2>2, NodesAssumption DEF Tiles
    <3>2. (n + 1) % N = n + 1
      BY <3>1, NodesAssumption
    <3> QED  BY <2>2, <3>2
  <2> QED  BY <2>1, <2>2
<1>2. (n + N - 1) % N = IF n = 0 THEN N - 1 ELSE n - 1
  <2>1. CASE n = 0
    <3>1. n + N - 1 \in 0 .. N - 1
      BY <2>1, NodesAssumption
    <3>2. (n + N - 1) % N = n + N - 1
      BY <3>1, NodesAssumption
    <3> QED  BY <2>1, <3>2, NodesAssumption
  <2>2. CASE n # 0
    <3>1. n + N - 1 \in N .. 2 * N - 1
      BY <2>2, NodesAssumption DEF Tiles
    <3>2. (n + N - 1) % N = (n + N - 1) - N
      BY <3>1, NodesAssumption
    <3> QED  BY <2>2, <3>2, NodesAssumption DEF Tiles
  <2> QED  BY <2>1, <2>2
<1> QED  BY <1>1, <1>2 DEF Downstream

\* Downstream and Upstream are inverses of each other.
LEMMA RoundTrip ==
  ASSUME NEW n \in Tiles, NEW d \in Dirs
  PROVE  /\ Downstream(n, d) \in Tiles /\ Upstream(n, d) \in Tiles
         /\ Upstream(Downstream(n, d), d) = n /\ Downstream(Upstream(n, d), d) = n
         /\ Downstream(n, d) # n
<1>1. \A m \in Tiles : Downstream(m, 0) \in Tiles /\ Downstream(m, 1) \in Tiles
  BY Neighbours, NodesAssumption DEF Tiles
<1>2. Downstream(Downstream(n, 0), 1) = n /\ Downstream(Downstream(n, 1), 0) = n
  <2>1. Downstream(n, 0) \in Tiles /\ Downstream(n, 1) \in Tiles
    BY <1>1
  <2> QED  BY <2>1, Neighbours, NodesAssumption DEF Tiles
<1>3. d = 0 \/ d = 1
  BY DEF Dirs
<1>4. \A m : Upstream(m, 0) = Downstream(m, 1) /\ Upstream(m, 1) = Downstream(m, 0)
  BY DEF Upstream
<1>5. Downstream(n, 0) # n /\ Downstream(n, 1) # n
  BY Neighbours, NodesAssumption DEF Tiles
<1> QED  BY <1>1, <1>2, <1>3, <1>4, <1>5

\* One link more, up to the last node before the source.
LEMMA OneHop ==
  ASSUME NEW s \in Tiles, NEW n \in Tiles, NEW d \in Dirs
  PROVE  /\ Hops(s, n, d) \in 0 .. N - 1 /\ (Hops(s, n, d) = 0 <=> n = s)
         /\ \A m \in Tiles : Hops(s, m, d) = Hops(s, n, d) => m = n
         /\ Hops(s, n, d) < N - 1 => Hops(s, Downstream(n, d), d) = Hops(s, n, d) + 1
<1>1. d = 0 \/ d = 1
  BY DEF Dirs
<1>2. Hops(s, n, d) \in 0 .. N - 1 /\ (Hops(s, n, d) = 0 <=> n = s)
  BY <1>1, NodesAssumption DEF Hops, Tiles
<1>3. ASSUME NEW m \in Tiles, Hops(s, m, d) = Hops(s, n, d) PROVE m = n
  BY <1>1, <1>3, NodesAssumption DEF Hops, Tiles
<1>4. ASSUME Hops(s, n, d) < N - 1 PROVE Hops(s, Downstream(n, d), d) = Hops(s, n, d) + 1
  BY <1>1, <1>4, Neighbours, NodesAssumption DEF Hops, Tiles
<1> QED  BY <1>2, <1>3, <1>4

\* The direction is one of the two.
LEMMA DirIsDir == \A from, to : ring_dir(from, to) \in Dirs
BY DEF ring_dir, Dirs

Before(r) == <<Upstream(r[1], r[2]), r[2], r[3]>>
After(r) == <<Downstream(r[1], r[2]), r[2], r[3]>>
Tile(r) == <<Upstream(r[1], r[2]), r[3]>>

\* The registers before and after one in its direction.
LEMMA Along ==
  ASSUME NEW r \in Ports
  PROVE  /\ Before(r) \in Ports /\ After(r) \in Ports
         /\ After(Before(r)) = r /\ Before(After(r)) = r
         /\ Before(r)[1] = Upstream(r[1], r[2]) /\ Before(r)[2] = r[2] /\ Before(r)[3] = r[3]
         /\ After(r)[1] = Downstream(r[1], r[2]) /\ After(r)[2] = r[2] /\ After(r)[3] = r[3]
<1>1. r[1] \in Tiles /\ r[2] \in Dirs /\ r[3] \in VCs /\ r = <<r[1], r[2], r[3]>>
  BY PortParts
<1>2. /\ Downstream(r[1], r[2]) \in Tiles /\ Upstream(r[1], r[2]) \in Tiles
      /\ Upstream(Downstream(r[1], r[2]), r[2]) = r[1]
      /\ Downstream(Upstream(r[1], r[2]), r[2]) = r[1]
  BY <1>1, RoundTrip
<1> QED  BY <1>1, <1>2, PortParts DEF Before, After

\* What a tile offers and its router takes enters the ring at the next node.
LEMMA Loads ==
  ASSUME NEW inj, Edge(inj), NEW n \in Tiles, NEW v \in VCs, NEW d \in Dirs, Taken(inj, n, d, v)
  PROVE  /\ inj[<<n, v>>].valid /\ ring_dir(n, inj[<<n, v>>].dst) = d
         /\ <<Downstream(n, d), d, v>> \in Ports /\ ~br[<<Downstream(n, d), d, v>>].valid
         /\ br'[<<Downstream(n, d), d, v>>] = inj[<<n, v>>]
<1>1. /\ Split(inj, n, d, v).valid /\ ~Thru(n, d, v) /\ ~br[<<Downstream(n, d), d, v>>].valid
  BY DEF Taken, in_ready
<1>2. /\ inj[<<n, v>>].valid /\ ring_dir(n, inj[<<n, v>>].dst) = d
      /\ Split(inj, n, d, v) = inj[<<n, v>>]
  BY <1>1 DEF Split, NoFlit
<1>3. <<Downstream(n, d), d, v>> \in Ports /\ Upstream(Downstream(n, d), d) = n
  BY RoundTrip, PortParts
<1>4. br'[<<Downstream(n, d), d, v>>] = Out(inj, n, d, v)
  BY <1>1, <1>3 DEF Edge
<1>5. Out(inj, n, d, v) = inj[<<n, v>>]
  BY <1>1, <1>2 DEF Out, Forwarded
<1> QED  BY <1>1, <1>2, <1>3, <1>4, <1>5

\* Where what is in a register after the edge was before it.
LEMMA Comes ==
  ASSUME NEW inj, Edge(inj), NEW r \in Ports, br'[r].valid
  PROVE  \/ /\ br[r].valid /\ br'[r] = br[r] /\ ~Drained(r[1], r[2], r[3])
         \/ /\ ~br[r].valid /\ br'[r] = br[Before(r)]
            /\ Forwarded(Before(r)[1], Before(r)[2], Before(r)[3])
         \/ /\ Tile(r) \in Injects /\ Taken(inj, Tile(r)[1], r[2], Tile(r)[2])
            /\ br'[r] = inj[Tile(r)]
<1> DEFINE u == Upstream(r[1], r[2])
<1>1. /\ r[1] \in Tiles /\ r[2] \in Dirs /\ r[3] \in VCs /\ r = <<r[1], r[2], r[3]>>
      /\ u \in Tiles /\ Downstream(u, r[2]) = r[1] /\ Before(r) = <<u, r[2], r[3]>>
      /\ Tile(r) = <<u, r[3]>>
  BY PortParts, RoundTrip DEF Before, Tile
<1>2. br'[r] = IF ~br[r].valid THEN Out(inj, u, r[2], r[3])
               ELSE IF Drained(r[1], r[2], r[3]) THEN NoFlit ELSE br[r]
  BY DEF Edge
<1>3. ~NoFlit.valid
  BY DEF NoFlit
<1>4. CASE br[r].valid
  BY <1>2, <1>3, <1>4
<1>5. CASE ~br[r].valid
  <2>1. CASE Forwarded(u, r[2], r[3])
    BY <1>1, <1>2, <1>5, <2>1 DEF Out
  <2>2. CASE ~Forwarded(u, r[2], r[3])
    <3>1. Taken(inj, u, r[2], r[3]) /\ br'[r] = Split(inj, u, r[2], r[3])
      BY <1>2, <1>3, <1>5, <2>2 DEF Out
    <3>2. br'[r] = inj[<<u, r[3]>>]
      BY <1>3, <3>1 DEF Split
    <3>3. Tile(r) \in Injects /\ Tile(r)[1] = u /\ Tile(r)[2] = r[3]
      BY <1>1, PortParts
    <3> QED  BY <1>1, <3>1, <3>2, <3>3
  <2> QED  BY <2>1, <2>2
<1> QED  BY <1>4, <1>5

\* Where a flit that is in a register goes.
LEMMA Destinations ==
  ASSUME NEW inj, Edge(inj), NEW r \in Ports, br[r].valid
  PROVE  \/ br'[r] = br[r] /\ ~Ejected(r[1], r[2], r[3])
         \/ Forwarded(r[1], r[2], r[3]) /\ br'[r] = NoFlit /\ br'[After(r)] = br[r]
         \/ Ejected(r[1], r[2], r[3]) /\ br'[r] = NoFlit
<1>1. br'[r] = IF Drained(r[1], r[2], r[3]) THEN NoFlit ELSE br[r]
  BY DEF Edge
<1>2. CASE Forwarded(r[1], r[2], r[3])
  <2>1. /\ After(r) \in Ports /\ After(r) = <<Downstream(r[1], r[2]), r[2], r[3]>>
        /\ Upstream(Downstream(r[1], r[2]), r[2]) = r[1] /\ r = <<r[1], r[2], r[3]>>
    BY Along, PortParts, RoundTrip DEF After
  <2>2. ~br[After(r)].valid
    BY <1>2, <2>1 DEF Forwarded, in_ready
  <2>3. br'[After(r)] = Out(inj, r[1], r[2], r[3])
    BY <2>1, <2>2 DEF Edge
  <2>4. br'[After(r)] = br[r]
    BY <1>2, <2>1, <2>3 DEF Out
  <2> QED  BY <1>1, <1>2, <2>4 DEF Drained
<1>3. CASE ~Forwarded(r[1], r[2], r[3])
  BY <1>1, <1>3 DEF Drained
<1> QED  BY <1>2, <1>3

\* A node ejects what the two registers of its eject port hold for it.
LEMMA Ejects ==
  ASSUME NEW t \in Tiles, NEW f
  PROVE  f \in {eject(t, d) : d \in {d \in Dirs : eject(t, d).valid}}
         <=> \E r \in Ports : r[1] = t /\ Ejected(r[1], r[2], r[3]) /\ br[r] = f
<1>0. \A d, v : Ejected(t, d, v) => br[<<t, d, v>>].valid
  BY DEF Ejected, Here
<1>1. ASSUME NEW d \in Dirs, eject(t, d).valid, f = eject(t, d)
      PROVE  \E r \in Ports : r[1] = t /\ Ejected(r[1], r[2], r[3]) /\ br[r] = f
  <2>1. PICK v \in VCs : Ejected(t, d, v) /\ f = br[<<t, d, v>>]
    BY <1>1 DEF eject, VCs, NoFlit
  <2>2. <<t, d, v>> \in Ports
    BY PortParts
  <2> QED  BY <2>1, <2>2
<1>2. ASSUME NEW r \in Ports, r[1] = t, Ejected(r[1], r[2], r[3]), br[r] = f
      PROVE  eject(t, r[2]).valid /\ eject(t, r[2]) = f /\ r[2] \in Dirs
  <2>1. r[2] \in Dirs /\ r[3] \in VCs /\ r = <<t, r[2], r[3]>>
    BY <1>2, PortParts
  <2>2. f.valid
    BY <1>0, <1>2, <2>1
  <2>3. CASE r[3] = "RESP"
    BY <1>2, <2>1, <2>2, <2>3 DEF eject
  <2>4. CASE r[3] = "REQ"
    BY <1>2, <2>1, <2>2, <2>4 DEF eject, Ejected
  <2> QED  BY <2>1, <2>3, <2>4 DEF VCs
<1> QED  BY <1>1, <1>2

-----------------------------------------------------------------------------
(* One cycle.                                                              *)

Inj(on) == [q \in Injects |-> IF q \in on THEN Flit(q, sent[q] + 1) ELSE NoFlit]
Took(on) == {q \in on : inj_ready(Inj(on), q[1], q[2])}
Dir(q) == ring_dir(q[1], plan[q][sent[q] + 1])
Entry(q) == <<Downstream(q[1], Dir(q)), Dir(q), q[2]>>

\* What the plan says of a flit.
LEMMA Planned ==
  ASSUME Types, NEW q \in Injects, NEW k \in 1 .. Len(plan[q])
  PROVE  /\ plan[q][k] \in Tiles /\ plan[q][k] # q[1]
         /\ Flit(q, k) \in Flits /\ Flit(q, k).valid
         /\ Flit(q, k).from = q /\ Flit(q, k).k = k /\ Flit(q, k).dst = plan[q][k]
<1>1. plan[q] \in Seq(Tiles) /\ \A i \in DOMAIN plan[q] : plan[q][i] # q[1]
  BY PlansAssumption DEF Types
<1>2. plan[q][k] \in Tiles /\ plan[q][k] # q[1]
  BY <1>1
<1> QED  BY <1>1, <1>2 DEF Flit, Flits

\* A flit that is taken enters the ring at the next node.
LEMMA Enters ==
  ASSUME Types, NEW on, on \subseteq {q \in Injects : HasMore(q)}, Edge(Inj(on)), NEW q \in Took(on)
  PROVE  /\ q \in Injects /\ sent[q] + 1 \in 1 .. Len(plan[q])
         /\ Entry(q) \in Ports /\ ~br[Entry(q)].valid
         /\ br'[Entry(q)] = Flit(q, sent[q] + 1)
<1> DEFINE k == sent[q] + 1
           f == Flit(q, k)
<1>1. q \in Injects /\ q \in on /\ inj_ready(Inj(on), q[1], q[2])
  BY DEF Took
<1>2. k \in 1 .. Len(plan[q]) /\ sent[q] \in Nat
  <2>1. plan[q] \in Seq(Tiles)
    BY <1>1, PlansAssumption DEF Types
  <2>2. sent[q] \in Nat /\ sent[q] < Len(plan[q])
    BY <1>1 DEF Types, HasMore
  <2> QED  BY <2>1, <2>2
<1>3. PICK d \in Dirs : Taken(Inj(on), q[1], d, q[2])
  BY <1>1 DEF inj_ready
<1>4. Inj(on)[<<q[1], q[2]>>] = f /\ f.dst = plan[q][k]
  BY <1>1, PortParts DEF Inj, Flit
<1>5. q[1] \in Tiles /\ q[2] \in VCs
  BY <1>1, PortParts
<1>6. /\ ring_dir(q[1], f.dst) = d
      /\ <<Downstream(q[1], d), d, q[2]>> \in Ports
      /\ ~br[<<Downstream(q[1], d), d, q[2]>>].valid
      /\ br'[<<Downstream(q[1], d), d, q[2]>>] = f
  <2> HIDE DEF f
  <2> QED  BY <1>3, <1>4, <1>5, Loads
<1>7. Entry(q) = <<Downstream(q[1], d), d, q[2]>>
  BY <1>4, <1>6 DEF Entry, Dir
<1> QED  BY <1>1, <1>2, <1>6, <1>7

\* Where a flit that is in a register after the edge was before it.
LEMMA Origins ==
  ASSUME Types, NEW on, on \subseteq {q \in Injects : HasMore(q)}, Edge(Inj(on)),
         NEW r \in Ports, br'[r].valid
  PROVE  \/ /\ br[r].valid /\ br'[r] = br[r] /\ ~Drained(r[1], r[2], r[3])
         \/ /\ ~br[r].valid /\ br'[r] = br[Before(r)]
            /\ Forwarded(Before(r)[1], Before(r)[2], Before(r)[3])
         \/ \E q \in Took(on) : r = Entry(q) /\ br'[r] = Flit(q, sent[q] + 1)
<1>1. ASSUME Tile(r) \in Injects, Taken(Inj(on), Tile(r)[1], r[2], Tile(r)[2]),
             br'[r] = Inj(on)[Tile(r)]
      PROVE  \E q \in Took(on) : r = Entry(q) /\ br'[r] = Flit(q, sent[q] + 1)
  <2> DEFINE q == Tile(r)
  <2>1. r[1] \in Tiles /\ r[2] \in Dirs /\ r[3] \in VCs /\ r = <<r[1], r[2], r[3]>>
    BY PortParts
  <2>2. /\ q = <<q[1], q[2]>> /\ q[1] \in Tiles /\ q[2] \in VCs
        /\ q[2] = r[3] /\ Downstream(q[1], r[2]) = r[1]
    BY <1>1, <2>1, RoundTrip, PortParts DEF Tile
  <2>3. Inj(on)[q].valid /\ ring_dir(q[1], Inj(on)[q].dst) = r[2]
    <3> HIDE DEF q
    <3>1. /\ Inj(on)[<<q[1], q[2]>>].valid
          /\ ring_dir(q[1], Inj(on)[<<q[1], q[2]>>].dst) = r[2]
      BY <1>1, <2>1, <2>2, Loads DEF q
    <3> QED  BY <2>2, <3>1
  <2>4. q \in on /\ Inj(on)[q] = Flit(q, sent[q] + 1)
    <3> HIDE DEF q
    <3>1. q \in Injects
      BY <1>1 DEF q
    <3> QED  BY <2>3, <3>1 DEF Inj, NoFlit
  <2>5. q \in Took(on)
    <3>1. inj_ready(Inj(on), q[1], q[2])
      BY <1>1, <2>1 DEF inj_ready
    <3> QED  BY <2>4, <3>1 DEF Took
  <2>6. Dir(q) = r[2]
    BY <2>3, <2>4 DEF Dir, Flit
  <2>7. r = Entry(q)
    BY <2>1, <2>2, <2>6 DEF Entry
  <2> QED  BY <1>1, <2>4, <2>5, <2>7
<1> QED  BY <1>1, Comes

\* The cycle, part by part.
LEMMA CycleParts ==
  ASSUME NEW on, Cycle(on)
  PROVE  /\ Edge(Inj(on)) /\ plan' = plan
         /\ sent' = [q \in Injects |-> IF q \in Took(on) THEN sent[q] + 1 ELSE sent[q]]
         /\ received' = [t \in Tiles |->
              received[t] \cup {eject(t, d) : d \in {d \in Dirs : eject(t, d).valid}}]
         /\ \A q, k : Flit(q, k)' = Flit(q, k)
BY DEF Cycle, Inj, Took, Flit

\* What is received after a cycle.
LEMMA Receives ==
  ASSUME Types, NEW on, Cycle(on), NEW t \in Tiles, NEW f
  PROVE  f \in received'[t]
         <=> \/ f \in received[t]
             \/ \E r \in Ports : r[1] = t /\ Ejected(r[1], r[2], r[3]) /\ br[r] = f
<1>1. received'[t] = received[t] \cup {eject(t, d) : d \in {d \in Dirs : eject(t, d).valid}}
  BY CycleParts
<1> QED  BY <1>1, Ejects

-----------------------------------------------------------------------------
(* Every cycle keeps the invariant.                                        *)

\* Counts grow by one at most, and never beyond the plan.
LEMMA SentSteps ==
  ASSUME Types, NEW on, on \subseteq {q \in Injects : HasMore(q)}, Cycle(on), NEW q \in Injects
  PROVE  /\ sent[q] \in Nat /\ sent'[q] \in {sent[q], sent[q] + 1} /\ sent'[q] <= Len(plan[q])
         /\ sent'[q] = sent[q] + 1 => q \in Took(on)
         /\ q \in Took(on) => sent'[q] = sent[q] + 1
         /\ Len(plan[q]) \in Nat
<1>1. sent'[q] = IF q \in Took(on) THEN sent[q] + 1 ELSE sent[q]
  BY CycleParts
<1>2. sent[q] \in Nat /\ sent[q] <= Len(plan[q]) /\ Len(plan[q]) \in Nat
  <2>1. plan[q] \in Seq(Tiles)
    BY PlansAssumption DEF Types
  <2> QED  BY <2>1 DEF Types
<1>3. q \in Took(on) => sent[q] + 1 \in 1 .. Len(plan[q])
  BY CycleParts, Enters
<1> QED  BY <1>1, <1>2, <1>3

\* Registers, plans and the positions in them keep their types.
LEMMA TypesKept ==
  ASSUME Types, NEW on, on \subseteq {q \in Injects : HasMore(q)}, Cycle(on)
  PROVE  Types'
<1>1. Edge(Inj(on)) /\ plan' = plan
  BY CycleParts
<1>2. sent' \in [Injects -> Nat] /\ \A q \in Injects : sent'[q] <= Len(plan[q])
  <2>1. \A q \in Injects : sent'[q] \in Nat /\ sent'[q] <= Len(plan[q])
    BY SentSteps
  <2> QED  BY <2>1, CycleParts
<1>3. ASSUME NEW r \in Ports PROVE br'[r] \in Flits \cup {NoFlit}
  <2>1. CASE br'[r].valid
    <3>1. CASE br'[r] = br[r]
      BY <3>1 DEF Types
    <3>2. CASE br'[r] = br[Before(r)]
      BY <3>2, Along DEF Types
    <3>3. ASSUME NEW q \in Took(on), br'[r] = Flit(q, sent[q] + 1) PROVE br'[r] \in Flits
      BY <1>1, <3>3, Enters, Planned
    <3> QED  BY <1>1, <2>1, <3>1, <3>2, <3>3, Origins
  <2>2. CASE ~br'[r].valid
    <3> DEFINE o == Out(Inj(on), Upstream(r[1], r[2]), r[2], r[3])
    <3>1. br'[r] \in {o, NoFlit, br[r]}
      BY <1>1 DEF Edge
    <3>2. o = NoFlit \/ o.valid
      BY DEF Out, Forwarded, Thru, Taken
    <3> HIDE DEF o
    <3> QED  BY <2>2, <3>1, <3>2 DEF Types
  <2> QED  BY <2>1, <2>2
<1>4. br' \in [Ports -> Flits \cup {NoFlit}]
  BY <1>1, <1>3 DEF Edge
<1>5. received' \in [Tiles -> SUBSET Flits]
  <2>1. ASSUME NEW t \in Tiles, NEW f \in received'[t] PROVE f \in Flits
    <3>1. CASE f \in received[t]
      BY <3>1 DEF Types
    <3>2. ASSUME NEW r \in Ports, Ejected(r[1], r[2], r[3]), br[r] = f PROVE f \in Flits
      <4>1. br[r].valid
        BY <3>2, PortParts DEF Ejected, Here
      <4> QED  BY <3>2, <4>1 DEF Types, NoFlit
    <3> QED  BY <2>1, <3>1, <3>2, Receives
  <2>2. received' = [t \in Tiles |-> received'[t]]
    BY CycleParts
  <2> QED  BY <2>1, <2>2
<1> QED  BY <1>1, <1>2, <1>4, <1>5 DEF Types

\* A flit in a register: its tile, its number and where it is.
LEMMA InRegister ==
  ASSUME Types, OnItsWay, NEW q \in Injects, NEW k, NEW r \in Ports, br[r] = Flit(q, k)
  PROVE  /\ k \in 1 .. sent[q] /\ k \in 1 .. Len(plan[q]) /\ k \in Nat /\ sent[q] \in Nat
         /\ br[r].valid /\ br[r].from = q /\ br[r].k = k /\ br[r].dst = plan[q][k]
         /\ q[2] = r[3] /\ ring_dir(q[1], plan[q][k]) = r[2]
         /\ Hops(q[1], r[1], r[2]) \in 1 .. Hops(q[1], plan[q][k], r[2])
         /\ plan[q][k] \in Tiles /\ plan[q][k] # q[1]
<1>1. br[r].valid /\ br[r].from = q /\ br[r].k = k /\ br[r].dst = plan[q][k]
  BY DEF Flit
<1>2. /\ k \in 1 .. sent[q] /\ q[2] = r[3] /\ ring_dir(q[1], plan[q][k]) = r[2]
      /\ Hops(q[1], r[1], r[2]) \in 1 .. Hops(q[1], plan[q][k], r[2])
  BY <1>1 DEF OnItsWay
<1>3. sent[q] \in Nat /\ sent[q] <= Len(plan[q]) /\ Len(plan[q]) \in Nat
  <2>1. plan[q] \in Seq(Tiles)
    BY PlansAssumption DEF Types
  <2> QED  BY <2>1 DEF Types
<1>4. k \in 1 .. Len(plan[q])
  BY <1>2, <1>3
<1> QED  BY <1>1, <1>2, <1>3, <1>4, Planned

\* A flit that is forwarded has one link behind it more, and none beyond its
\* destination.
LEMMA Forwards ==
  ASSUME Types, OnItsWay, NEW q \in Injects, NEW k, NEW r \in Ports, br[r] = Flit(q, k),
         Forwarded(r[1], r[2], r[3])
  PROVE  /\ Hops(q[1], After(r)[1], r[2]) = Hops(q[1], r[1], r[2]) + 1
         /\ Hops(q[1], After(r)[1], r[2]) \in 1 .. Hops(q[1], plan[q][k], r[2])
<1>1. /\ br[r].dst = plan[q][k] /\ plan[q][k] \in Tiles /\ q[1] \in Tiles
      /\ Hops(q[1], r[1], r[2]) \in 1 .. Hops(q[1], plan[q][k], r[2])
      /\ r[1] \in Tiles /\ r[2] \in Dirs /\ r = <<r[1], r[2], r[3]>>
      /\ After(r)[1] = Downstream(r[1], r[2])
  BY InRegister, PortParts, Along
<1>2. plan[q][k] # r[1]
  BY <1>1 DEF Forwarded, Thru
<1>3. /\ Hops(q[1], r[1], r[2]) \in 0 .. N - 1 /\ Hops(q[1], plan[q][k], r[2]) \in 0 .. N - 1
      /\ Hops(q[1], r[1], r[2]) # Hops(q[1], plan[q][k], r[2])
  BY <1>1, <1>2, OneHop
<1>4. Hops(q[1], r[1], r[2]) < N - 1 /\ Hops(q[1], r[1], r[2]) < Hops(q[1], plan[q][k], r[2])
  BY <1>1, <1>3, NodesAssumption
<1>5. Hops(q[1], After(r)[1], r[2]) = Hops(q[1], r[1], r[2]) + 1
  BY <1>1, <1>4, OneHop
<1> QED  BY <1>1, <1>3, <1>4, <1>5

\* A flit that enters is one link from its tile.
LEMMA OneHopIn ==
  ASSUME Types, NEW on, on \subseteq {q \in Injects : HasMore(q)}, Edge(Inj(on)), NEW q \in Took(on)
  PROVE  /\ Hops(q[1], Entry(q)[1], Entry(q)[2]) = 1
         /\ Hops(q[1], plan[q][sent[q] + 1], Entry(q)[2]) \in 1 .. N - 1
         /\ Entry(q)[2] = ring_dir(q[1], plan[q][sent[q] + 1]) /\ Entry(q)[3] = q[2]
<1>1. /\ q \in Injects /\ q[1] \in Tiles /\ Dir(q) \in Dirs
      /\ plan[q][sent[q] + 1] \in Tiles /\ plan[q][sent[q] + 1] # q[1]
  BY Enters, Planned, PortParts, DirIsDir DEF Dir
<1>2. Entry(q)[1] = Downstream(q[1], Dir(q)) /\ Entry(q)[2] = Dir(q) /\ Entry(q)[3] = q[2]
  BY DEF Entry
<1>3. Hops(q[1], q[1], Dir(q)) = 0 /\ N - 1 > 0
  BY <1>1, OneHop, NodesAssumption
<1>4. Hops(q[1], Downstream(q[1], Dir(q)), Dir(q)) = 1
  BY <1>1, <1>3, OneHop
<1>5. /\ Hops(q[1], plan[q][sent[q] + 1], Dir(q)) \in 0 .. N - 1
      /\ Hops(q[1], plan[q][sent[q] + 1], Dir(q)) # 0
  BY <1>1, OneHop
<1> QED  BY <1>2, <1>4, <1>5, NodesAssumption DEF Dir

\* A flit in a register was presented, and has not passed its destination.
LEMMA OnItsWayKept ==
  ASSUME Types, OnItsWay, NEW on, on \subseteq {q \in Injects : HasMore(q)}, Cycle(on)
  PROVE  OnItsWay'
<1>0. /\ Edge(Inj(on)) /\ plan' = plan /\ \A q, k : Flit(q, k)' = Flit(q, k)
  BY CycleParts
<1> SUFFICES ASSUME NEW r \in Ports, br'[r].valid
             PROVE  LET q == br'[r].from  k == br'[r].k IN
                    /\ q \in Injects /\ k \in 1 .. sent'[q] /\ br'[r] = Flit(q, k)
                    /\ q[2] = r[3] /\ ring_dir(q[1], plan[q][k]) = r[2]
                    /\ Hops(q[1], r[1], r[2]) \in 1 .. Hops(q[1], plan[q][k], r[2])
  BY <1>0 DEF OnItsWay, Flit
<1>1. ASSUME NEW q \in Injects, NEW k, br'[r] = Flit(q, k), k \in 1 .. sent'[q],
             q[2] = r[3], ring_dir(q[1], plan[q][k]) = r[2],
             Hops(q[1], r[1], r[2]) \in 1 .. Hops(q[1], plan[q][k], r[2])
      PROVE  LET qq == br'[r].from  kk == br'[r].k IN
             /\ qq \in Injects /\ kk \in 1 .. sent'[qq] /\ br'[r] = Flit(qq, kk)
             /\ qq[2] = r[3] /\ ring_dir(qq[1], plan[qq][kk]) = r[2]
             /\ Hops(qq[1], r[1], r[2]) \in 1 .. Hops(qq[1], plan[qq][kk], r[2])
  <2>1. br'[r].from = q /\ br'[r].k = k
    BY <1>1 DEF Flit
  <2> QED  BY <1>1, <2>1
<1>2. CASE br[r].valid /\ br'[r] = br[r]
  <2> DEFINE q == br[r].from
             k == br[r].k
  <2>1. q \in Injects /\ br[r] = Flit(q, k)
    BY <1>2 DEF OnItsWay
  <2> HIDE DEF q, k
  <2>2. /\ k \in 1 .. sent[q] /\ q[2] = r[3] /\ ring_dir(q[1], plan[q][k]) = r[2]
        /\ Hops(q[1], r[1], r[2]) \in 1 .. Hops(q[1], plan[q][k], r[2])
    BY <2>1, InRegister
  <2>3. k \in 1 .. sent'[q]
    BY <2>1, <2>2, SentSteps
  <2> QED  BY <1>1, <1>2, <2>1, <2>2, <2>3
<1>3. CASE br'[r] = br[Before(r)] /\ Forwarded(Before(r)[1], Before(r)[2], Before(r)[3])
  <2> DEFINE u == Before(r)
             q == br[u].from
             k == br[u].k
  <2>1. u \in Ports /\ After(u) = r /\ u[2] = r[2] /\ u[3] = r[3]
    BY Along
  <2>2. q \in Injects /\ br[u] = Flit(q, k)
    BY <1>3, <2>1 DEF OnItsWay
  <2> HIDE DEF q, k
  <2>3. k \in 1 .. sent[q] /\ q[2] = r[3] /\ ring_dir(q[1], plan[q][k]) = r[2]
    BY <2>1, <2>2, InRegister
  <2>4. Hops(q[1], r[1], r[2]) \in 1 .. Hops(q[1], plan[q][k], r[2])
    BY <1>3, <2>1, <2>2, Forwards
  <2>5. k \in 1 .. sent'[q]
    BY <2>2, <2>3, SentSteps
  <2> QED  BY <1>1, <1>3, <2>2, <2>3, <2>4, <2>5
<1>4. ASSUME NEW q \in Took(on), r = Entry(q), br'[r] = Flit(q, sent[q] + 1)
      PROVE  LET qq == br'[r].from  kk == br'[r].k IN
             /\ qq \in Injects /\ kk \in 1 .. sent'[qq] /\ br'[r] = Flit(qq, kk)
             /\ qq[2] = r[3] /\ ring_dir(qq[1], plan[qq][kk]) = r[2]
             /\ Hops(qq[1], r[1], r[2]) \in 1 .. Hops(qq[1], plan[qq][kk], r[2])
  <2>1. q \in Injects
    BY DEF Took
  <2>2. sent[q] + 1 \in 1 .. sent'[q]
    BY <2>1, SentSteps
  <2>3. /\ Hops(q[1], r[1], r[2]) \in 1 .. Hops(q[1], plan[q][sent[q] + 1], r[2])
        /\ q[2] = r[3] /\ ring_dir(q[1], plan[q][sent[q] + 1]) = r[2]
    BY <1>0, <1>4, OneHopIn
  <2> QED  BY <1>1, <1>4, <2>1, <2>2, <2>3
<1> QED  BY <1>0, <1>2, <1>3, <1>4, Origins

\* Where one flit can be after a cycle.
LEMMA Whence ==
  ASSUME Types, OnItsWay, NEW on, on \subseteq {q \in Injects : HasMore(q)}, Cycle(on),
         NEW q \in Injects, NEW k \in Nat, NEW r \in Ports, br'[r] = Flit(q, k)
  PROVE  \/ k <= sent[q] /\ br[r] = Flit(q, k) /\ ~Drained(r[1], r[2], r[3])
         \/ /\ k <= sent[q] /\ ~br[r].valid /\ br[Before(r)] = Flit(q, k)
            /\ Forwarded(Before(r)[1], Before(r)[2], Before(r)[3])
         \/ k = sent[q] + 1 /\ q \in Took(on) /\ r = Entry(q)
<1>0. Edge(Inj(on)) /\ br'[r].valid
  BY CycleParts DEF Flit
<1>1. CASE br[r].valid /\ br'[r] = br[r] /\ ~Drained(r[1], r[2], r[3])
  <2>1. br[r] = Flit(q, k)
    BY <1>1
  <2>2. k \in 1 .. sent[q] /\ sent[q] \in Nat
    BY <2>1, InRegister
  <2> QED  BY <1>1, <2>1, <2>2
<1>2. CASE /\ ~br[r].valid /\ br'[r] = br[Before(r)]
           /\ Forwarded(Before(r)[1], Before(r)[2], Before(r)[3])
  <2>1. Before(r) \in Ports /\ br[Before(r)] = Flit(q, k)
    BY <1>2, Along
  <2>2. k \in 1 .. sent[q] /\ sent[q] \in Nat
    BY <2>1, InRegister
  <2> QED  BY <1>2, <2>1, <2>2
<1>3. ASSUME NEW p \in Took(on), r = Entry(p), br'[r] = Flit(p, sent[p] + 1)
      PROVE  k = sent[q] + 1 /\ q \in Took(on) /\ r = Entry(q)
  BY <1>3 DEF Flit
<1> QED  BY <1>0, <1>1, <1>2, <1>3, Origins

\* No flit is in two registers.
LEMMA InOnePlaceKept ==
  ASSUME Types, OnItsWay, InOnePlace, OnItsWay',
         NEW on, on \subseteq {q \in Injects : HasMore(q)}, Cycle(on)
  PROVE  InOnePlace'
<1> SUFFICES ASSUME NEW r \in Ports, NEW p \in Ports, br'[r].valid, br'[p].valid,
                    br'[r].from = br'[p].from, br'[r].k = br'[p].k
             PROVE  r = p
  BY DEF InOnePlace
<1> DEFINE q == br'[r].from
           k == br'[r].k
<1>1. q \in Injects /\ k \in Nat /\ br'[r] = Flit(q, k) /\ br'[p] = Flit(q, k)
  <2>1. \A x, y : Flit(x, y)' = Flit(x, y)
    BY CycleParts
  <2> QED  BY <2>1 DEF OnItsWay
<1> HIDE DEF q, k
<1>2. \A x, y \in Ports : br[x] = Flit(q, k) /\ br[y] = Flit(q, k) => x = y
  BY DEF InOnePlace, Flit
<1>3. \A x \in Ports : Forwarded(x[1], x[2], x[3]) => Drained(x[1], x[2], x[3])
  BY DEF Drained
<1>4. Before(r) \in Ports /\ Before(p) \in Ports /\ After(Before(r)) = r /\ After(Before(p)) = p
  BY Along
<1>5. sent[q] \in Nat
  BY <1>1 DEF Types
<1>6. \/ k <= sent[q] /\ br[r] = Flit(q, k) /\ ~Drained(r[1], r[2], r[3])
      \/ k <= sent[q] /\ br[Before(r)] = Flit(q, k) /\ Forwarded(Before(r)[1], Before(r)[2], Before(r)[3])
      \/ k = sent[q] + 1 /\ r = Entry(q)
  BY <1>1, Whence
<1>7. \/ k <= sent[q] /\ br[p] = Flit(q, k) /\ ~Drained(p[1], p[2], p[3])
      \/ k <= sent[q] /\ br[Before(p)] = Flit(q, k) /\ Forwarded(Before(p)[1], Before(p)[2], Before(p)[3])
      \/ k = sent[q] + 1 /\ p = Entry(q)
  BY <1>1, Whence
<1> QED  BY <1>2, <1>3, <1>4, <1>5, <1>6, <1>7

\* What a node has received was sent to it, and has left the ring.
LEMMA ArrivedKept ==
  ASSUME Types, OnItsWay, InOnePlace, Arrived,
         NEW on, on \subseteq {q \in Injects : HasMore(q)}, Cycle(on)
  PROVE  Arrived'
<1>0. plan' = plan /\ \A q, k : Flit(q, k)' = Flit(q, k)
  BY CycleParts
<1> SUFFICES ASSUME NEW t \in Tiles, NEW f \in received'[t]
             PROVE  /\ f.from \in Injects /\ f.k \in 1 .. sent'[f.from] /\ f = Flit(f.from, f.k)
                    /\ t = plan[f.from][f.k]
                    /\ \A r \in Ports : br'[r] # f
  BY <1>0 DEF Arrived, Flit
<1> DEFINE q == f.from
           k == f.k
<1>1. CASE f \in received[t]
  <2>1. q \in Injects /\ k \in 1 .. sent[q] /\ f = Flit(q, k) /\ t = plan[q][k] /\ \A r \in Ports : br[r] # f
    BY <1>1 DEF Arrived
  <2> HIDE DEF q, k
  <2>2. k \in 1 .. sent'[q] /\ sent[q] \in Nat
    BY <2>1, SentSteps
  <2>3. ASSUME NEW r \in Ports, br'[r] = f PROVE FALSE
    <3>1. \/ br[r] = f \/ br[Before(r)] = f \/ k = sent[q] + 1
      BY <2>1, <2>2, <2>3, Whence
    <3> QED  BY <2>1, <2>2, <3>1, Along
  <2> QED  BY <2>1, <2>2, <2>3 DEF q, k
<1>2. ASSUME NEW p \in Ports, p[1] = t, Ejected(p[1], p[2], p[3]), br[p] = f
      PROVE  /\ f.from \in Injects /\ f.k \in 1 .. sent'[f.from] /\ f = Flit(f.from, f.k)
             /\ t = plan[f.from][f.k]
             /\ \A r \in Ports : br'[r] # f
  <2>1. f.valid /\ f.dst = t /\ Here(p[1], p[2], p[3])
    BY <1>2, PortParts DEF Ejected, Here
  <2>2. q \in Injects /\ k \in 1 .. sent[q] /\ f = Flit(q, k)
    BY <1>2, <2>1 DEF OnItsWay
  <2> HIDE DEF q, k
  <2>3. k \in 1 .. sent'[q] /\ sent[q] \in Nat
    BY <2>2, SentSteps
  <2>4. t = plan[q][k]
    BY <2>1, <2>2 DEF Flit
  <2>5. \A x \in Ports : br[x] = f => x = p
    BY <1>2, <2>1 DEF InOnePlace
  <2>6. ASSUME NEW r \in Ports, br'[r] = f PROVE FALSE
    <3>1. \/ br[r] = f /\ ~Drained(r[1], r[2], r[3])
          \/ br[Before(r)] = f /\ Forwarded(Before(r)[1], Before(r)[2], Before(r)[3])
          \/ k = sent[q] + 1
      BY <2>2, <2>3, <2>6, Whence
    <3>2. Drained(p[1], p[2], p[3])
      BY <1>2 DEF Drained
    <3>3. ~Forwarded(p[1], p[2], p[3])
      BY <2>1 DEF Here, Forwarded, Thru
    <3> QED  BY <2>2, <2>3, <2>5, <3>1, <3>2, <3>3, Along
  <2> QED  BY <2>2, <2>3, <2>4, <2>6 DEF q, k
<1> QED  BY <1>1, <1>2, Receives

\* What one flit in a register does in a cycle.
LEMMA Whither ==
  ASSUME Types, OnItsWay, NEW on, on \subseteq {q \in Injects : HasMore(q)}, Cycle(on),
         NEW q \in Injects, NEW k, NEW r \in Ports, br[r] = Flit(q, k)
  PROVE  \/ br'[r] = Flit(q, k)
         \/ Forwarded(r[1], r[2], r[3]) /\ br'[After(r)] = Flit(q, k)
         \/ Flit(q, k) \in received'[plan[q][k]] /\ r[1] = plan[q][k]
<1>1. Edge(Inj(on)) /\ br[r].valid /\ br[r].dst = plan[q][k]
  BY CycleParts DEF Flit
<1>2. CASE Ejected(r[1], r[2], r[3])
  <2>1. r[1] = plan[q][k] /\ r[1] \in Tiles
    BY <1>1, <1>2, PortParts DEF Ejected, Here
  <2> QED  BY <1>2, <2>1, Receives
<1> QED  BY <1>1, <1>2, Destinations

\* A flit that has been taken is in a register or has arrived.
LEMMA NoneLostKept ==
  ASSUME Types, OnItsWay, NoneLost, NEW on, on \subseteq {q \in Injects : HasMore(q)}, Cycle(on)
  PROVE  NoneLost'
<1>0. plan' = plan /\ Edge(Inj(on)) /\ \A q, k : Flit(q, k)' = Flit(q, k)
  BY CycleParts
<1> SUFFICES ASSUME NEW q \in Injects, NEW k \in 1 .. sent'[q]
             PROVE  \/ Flit(q, k) \in received'[plan[q][k]]
                    \/ \E r \in Ports : br'[r] = Flit(q, k)
  BY <1>0 DEF NoneLost, Gone
<1>1. /\ sent[q] \in Nat /\ sent'[q] \in {sent[q], sent[q] + 1} /\ sent'[q] <= Len(plan[q])
      /\ sent'[q] = sent[q] + 1 => q \in Took(on)
      /\ Len(plan[q]) \in Nat
  BY SentSteps
<1>2. plan[q][k] \in Tiles
  <2>1. k \in 1 .. Len(plan[q])
    BY <1>1
  <2> QED  BY <2>1, Planned
<1>3. CASE k \in 1 .. sent[q]
  <2>1. CASE Gone(q, k)
    BY <1>2, <2>1, Receives DEF Gone
  <2>2. ASSUME NEW r \in Ports, br[r] = Flit(q, k)
        PROVE  \/ Flit(q, k) \in received'[plan[q][k]]
               \/ \E p \in Ports : br'[p] = Flit(q, k)
    BY <2>2, Whither, Along
  <2> QED  BY <1>3, <2>1, <2>2 DEF NoneLost
<1>4. CASE k = sent[q] + 1
  <2>1. q \in Took(on)
    BY <1>1, <1>4
  <2> QED  BY <1>0, <1>4, <2>1, Enters
<1> QED  BY <1>1, <1>3, <1>4

\* Flits of one sender stay in their order around the ring.
LEMMA InLineKept ==
  ASSUME Types, OnItsWay, InOnePlace, Arrived, NoneLost, InLine,
         NEW on, on \subseteq {q \in Injects : HasMore(q)}, Cycle(on)
  PROVE  InLine'
<1>0. plan' = plan /\ Edge(Inj(on)) /\ \A q, k : Flit(q, k)' = Flit(q, k)
  BY CycleParts
<1>a. \A q, k : Gone(q, k)' <=> Flit(q, k) \in received'[plan[q][k]]
  BY <1>0 DEF Gone
<1> SUFFICES ASSUME NEW q \in Injects, NEW j \in 1 .. sent'[q], NEW k \in 1 .. sent'[q],
                    j < k, plan[q][j] = plan[q][k]
             PROVE  Ahead(q, j, k)'
  BY <1>0 DEF InLine
<1>b. \A s, n, d : Hops(s, n, d)' = Hops(s, n, d)
  BY DEF Hops
<1> SUFFICES ASSUME Flit(q, j) \notin received'[plan[q][j]]
             PROVE  /\ Flit(q, k) \notin received'[plan[q][k]]
                    /\ \A r \in Ports : br'[r] = Flit(q, k) =>
                         \E p \in Ports : /\ br'[p] = Flit(q, j)
                                          /\ Hops(q[1], p[1], p[2]) > Hops(q[1], r[1], r[2])
  BY <1>0, <1>a, <1>b DEF Ahead
<1> DEFINE dst == plan[q][k]
<1>1. /\ sent[q] \in Nat /\ sent'[q] \in {sent[q], sent[q] + 1} /\ sent'[q] <= Len(plan[q])
      /\ sent'[q] = sent[q] + 1 => q \in Took(on)
      /\ Len(plan[q]) \in Nat
  BY SentSteps
<1>2. /\ j \in 1 .. sent[q] /\ k \in Nat /\ j \in Nat /\ k \in 1 .. Len(plan[q])
      /\ k \in 1 .. sent[q] \/ (k = sent[q] + 1 /\ q \in Took(on))
  BY <1>1
<1>3. dst \in Tiles /\ q[1] \in Tiles
  BY <1>2, Planned, PortParts
<1>4. ~Gone(q, j)
  BY <1>3, Receives DEF Gone
<1>5. PICK p \in Ports : br[p] = Flit(q, j)
  BY <1>2, <1>4 DEF NoneLost
<1>6. PICK s \in Ports : /\ br'[s] = Flit(q, j) /\ s[2] = p[2]
                         /\ Hops(q[1], s[1], s[2]) >= Hops(q[1], p[1], p[2])
  <2>1. Hops(q[1], p[1], p[2]) \in Nat
    BY <1>3, OneHop, PortParts
  <2>2. CASE br'[p] = Flit(q, j)
    BY <2>1, <2>2
  <2>3. CASE Forwarded(p[1], p[2], p[3]) /\ br'[After(p)] = Flit(q, j)
    BY <1>5, <2>1, <2>3, Forwards, Along
  <2> QED  BY <1>5, <2>2, <2>3, Whither
<1>7. /\ q[2] = p[3] /\ ring_dir(q[1], dst) = p[2] /\ br[p].valid
      /\ Hops(q[1], p[1], p[2]) \in 1 .. Hops(q[1], dst, p[2])
  BY <1>5, InRegister
<1>8. \A x \in Ports : br[x] = Flit(q, j) => x = p
  BY <1>5 DEF InOnePlace, Flit
<1>9. ASSUME NEW r \in Ports, r[2] = p[2], r[3] = p[3],
             Hops(q[1], r[1], r[2]) = Hops(q[1], p[1], p[2])
      PROVE  r = p
  <2>1. r[1] = p[1]
    BY <1>3, <1>9, OneHop, PortParts
  <2> QED  BY <1>9, <2>1, PortParts
<1>10. \A r \in Ports : Hops(q[1], r[1], r[2]) \in Nat
  BY <1>3, OneHop, PortParts
<1>11. CASE k \in 1 .. sent[q]
  <2>1. /\ ~Gone(q, k)
        /\ \A r \in Ports : br[r] = Flit(q, k) => Hops(q[1], p[1], p[2]) > Hops(q[1], r[1], r[2])
    BY <1>2, <1>4, <1>8, <1>11 DEF InLine, Ahead
  <2>2. Flit(q, k) \notin received'[dst]
    <3> SUFFICES ASSUME NEW r \in Ports, r[1] = dst, br[r] = Flit(q, k) PROVE FALSE
      BY <1>3, <2>1, Receives DEF Gone
    <3>1. Hops(q[1], p[1], p[2]) > Hops(q[1], r[1], r[2]) /\ ring_dir(q[1], dst) = r[2]
      BY <2>1, InRegister
    <3> QED  BY <1>7, <1>10, <3>1
  <2>3. ASSUME NEW r \in Ports, br'[r] = Flit(q, k)
        PROVE  Hops(q[1], s[1], s[2]) > Hops(q[1], r[1], r[2])
    <3>1. CASE br[r] = Flit(q, k)
      BY <1>6, <1>10, <2>1, <3>1
    <3>2. CASE /\ ~br[r].valid /\ br[Before(r)] = Flit(q, k)
               /\ Forwarded(Before(r)[1], Before(r)[2], Before(r)[3])
      <4>1. /\ Before(r) \in Ports /\ After(Before(r)) = r
            /\ Before(r)[2] = r[2] /\ Before(r)[3] = r[3]
        BY Along
      <4>2. /\ Hops(q[1], r[1], r[2]) = Hops(q[1], Before(r)[1], r[2]) + 1
            /\ q[2] = r[3] /\ ring_dir(q[1], dst) = r[2]
        BY <3>2, <4>1, Forwards, InRegister
      <4>3. Hops(q[1], p[1], p[2]) > Hops(q[1], Before(r)[1], r[2])
        BY <2>1, <3>2, <4>1
      <4>4. Hops(q[1], Before(r)[1], r[2]) \in Nat
        BY <1>10, <4>1
      <4>5. Hops(q[1], r[1], r[2]) # Hops(q[1], p[1], p[2])
        BY <1>7, <1>9, <3>2, <4>2
      <4> QED  BY <1>6, <1>10, <4>2, <4>3, <4>4, <4>5
    <3> QED  BY <1>1, <1>2, <1>11, <2>3, <3>1, <3>2, Whence
  <2> QED  BY <1>6, <2>2, <2>3
<1>12. CASE k = sent[q] + 1 /\ q \in Took(on)
  <2>1. Flit(q, k) \notin received'[dst]
    <3>1. Flit(q, k) \notin received[dst]
      <4>1. Flit(q, k).from = q /\ Flit(q, k).k = k
        BY DEF Flit
      <4> QED  BY <1>1, <1>3, <1>12, <4>1 DEF Arrived
    <3>2. \A r \in Ports : br[r] # Flit(q, k)
      BY <1>1, <1>12, InRegister
    <3> QED  BY <1>3, <3>1, <3>2, Receives
  <2>2. ASSUME NEW r \in Ports, br'[r] = Flit(q, k)
        PROVE  Hops(q[1], s[1], s[2]) > Hops(q[1], r[1], r[2])
    <3>1. r = Entry(q)
      <4>1. ~(k <= sent[q]) /\ k \in Nat
        BY <1>1, <1>12
      <4> QED  BY <2>2, <4>1, Whence
    <3>2. /\ ~br[r].valid /\ Hops(q[1], r[1], r[2]) = 1
          /\ r[2] = ring_dir(q[1], dst) /\ r[3] = q[2]
      BY <1>0, <1>12, <3>1, Enters, OneHopIn
    <3>3. Hops(q[1], r[1], r[2]) # Hops(q[1], p[1], p[2])
      BY <1>7, <1>9, <3>2
    <3> QED  BY <1>6, <1>7, <1>10, <3>2, <3>3
  <2> QED  BY <1>6, <2>1, <2>2
<1> QED  BY <1>2, <1>11, <1>12

-----------------------------------------------------------------------------
\* IInv holds in every reachable state.
THEOREM Inductive == Spec => []IInv
<1>1. Init => IInv
  <2> SUFFICES ASSUME Init PROVE IInv
    OBVIOUS
  <2>1. \A r \in Ports : br[r] = NoFlit /\ ~br[r].valid
    BY DEF Init, Init_br, NoFlit
  <2>2. \A q \in Injects : Len(plan[q]) \in Nat
    BY PlansAssumption DEF Init
  <2>3. Types
    BY <2>2 DEF Init, Init_br, Types
  <2>4. OnItsWay /\ InOnePlace
    BY <2>1 DEF OnItsWay, InOnePlace
  <2>5. Arrived /\ NoneLost /\ InLine
    BY DEF Init, Arrived, NoneLost, InLine
  <2> QED  BY <2>3, <2>4, <2>5 DEF IInv
<1>2. IInv /\ [Next]_vars => IInv'
  <2> SUFFICES ASSUME IInv, [Next]_vars PROVE IInv'
    OBVIOUS
  <2>1. ASSUME NEW on \in SUBSET {q \in Injects : HasMore(q)}, Cycle(on) PROVE IInv'
    <3>1. Types' /\ OnItsWay'
      BY <2>1, TypesKept, OnItsWayKept DEF IInv
    <3> QED  BY <2>1, <3>1, InOnePlaceKept, ArrivedKept, NoneLostKept, InLineKept DEF IInv
  <2>2. CASE UNCHANGED vars
    <3>1. /\ \A q, k : Flit(q, k)' = Flit(q, k)
          /\ \A q, k : Gone(q, k)' <=> Gone(q, k)
          /\ \A s, n, d : Hops(s, n, d)' = Hops(s, n, d)
      BY <2>2 DEF vars, Flit, Gone, Hops
    <3>2. \A q, j, k : Ahead(q, j, k)' <=> Ahead(q, j, k)
      BY <2>2, <3>1 DEF vars, Ahead
    <3>3. Types' /\ InOnePlace' /\ InLine'
      BY <2>2, <3>2 DEF vars, IInv, Types, InOnePlace, InLine
    <3>4. OnItsWay'
      BY <2>2, <3>1 DEF vars, IInv, OnItsWay
    <3>5. Arrived' /\ NoneLost'
      BY <2>2, <3>1 DEF vars, IInv, Arrived, NoneLost
    <3> QED  BY <3>3, <3>4, <3>5 DEF IInv
  <2> QED  BY <2>1, <2>2 DEF Next, Clock
<1> QED  BY <1>1, <1>2, PTL DEF Spec

\* Every flit that the ring took is in one register or was received, once, by
\* the tile it is for.
THEOREM EveryFlitExactlyOnce == Spec => []ExactlyOnce
<1>1. IInv => ExactlyOnce
  <2> SUFFICES ASSUME IInv, NEW q \in Injects, NEW k \in 1 .. Len(plan[q])
               PROVE  LET at == {r \in Ports : br[r].valid /\ br[r].from = q /\ br[r].k = k}
                          to == {t \in Tiles : \E f \in received[t] : f.from = q /\ f.k = k}
                      IN  IF k <= sent[q]
                          THEN Cardinality(at) + Cardinality(to) = 1 /\ to \subseteq {plan[q][k]}
                          ELSE at = {} /\ to = {}
    BY DEF ExactlyOnce
  <2> DEFINE at == {r \in Ports : br[r].valid /\ br[r].from = q /\ br[r].k = k}
             to == {t \in Tiles : \E f \in received[t] : f.from = q /\ f.k = k}
  <2>1. sent[q] \in Nat /\ k \in Nat /\ k >= 1 /\ plan[q][k] \in Tiles
    <3>1. plan[q] \in Seq(Tiles)
      BY PlansAssumption DEF IInv, Types
    <3> QED  BY <3>1 DEF IInv, Types
  <2>2. \A r \in at : br[r] = Flit(q, k) /\ k \in 1 .. sent[q]
    BY DEF IInv, OnItsWay
  <2>3. \A t \in to : Flit(q, k) \in received[t] /\ k \in 1 .. sent[q] /\ t = plan[q][k]
    BY DEF IInv, Arrived
  <2>4. CASE ~(k <= sent[q])
    BY <2>1, <2>2, <2>3, <2>4
  <2>5. CASE k <= sent[q]
    <3>1. CASE Gone(q, k)
      <4>1. to = {plan[q][k]}
        <5>1. plan[q][k] \in to
          BY <2>1, <3>1 DEF Gone, Flit
        <5> QED  BY <2>3, <5>1
      <4>2. at = {}
        <5>1. \A r \in Ports : br[r] # Flit(q, k)
          BY <2>1, <3>1 DEF IInv, Arrived, Gone
        <5> QED  BY <2>2, <5>1
      <4>3. Cardinality(to) = 1 /\ Cardinality(at) = 0
        BY <4>1, <4>2, FS_EmptySet, FS_Singleton
      <4>4. Cardinality(at) + Cardinality(to) = 1
        <5> HIDE DEF at, to
        <5> QED  BY <4>3
      <4> QED  BY <2>5, <4>1, <4>4
    <3>2. CASE ~Gone(q, k)
      <4>1. to = {}
        BY <2>3, <3>2 DEF Gone
      <4>2. PICK r \in Ports : br[r] = Flit(q, k)
        BY <2>1, <2>5, <3>2 DEF IInv, NoneLost
      <4>3. r \in at
        BY <4>2 DEF Flit
      <4>4. at = {r}
        BY <4>3 DEF IInv, InOnePlace
      <4>5. Cardinality(to) = 0 /\ Cardinality(at) = 1
        BY <4>1, <4>4, FS_EmptySet, FS_Singleton
      <4>6. Cardinality(at) + Cardinality(to) = 1
        <5> HIDE DEF at, to
        <5> QED  BY <4>5
      <4> QED  BY <2>5, <4>1, <4>6
    <3> QED  BY <3>1, <3>2
  <2> QED  BY <2>4, <2>5
<1> QED  BY <1>1, Inductive, PTL

\* Flits of one tile to another on one channel do not overtake each other.
THEOREM NoneOvertakes == Spec => []InOrder
<1>1. IInv => InOrder
  BY DEF IInv, InLine, Ahead, Gone, InOrder
<1> QED  BY <1>1, Inductive, PTL

\* A direction of a channel that is full of flits for other nodes stands still
\* for ever: each waits for the next register, and none of them empties.  This
\* is why the deadlock of a full ring is no delay (ring_router.sv, in_ready).
THEOREM StandstillIsForEver ==
  Spec => [][\A d \in Dirs, v \in VCs : StandsStill(d, v) => StandsStill(d, v)']_vars
<1>1. ASSUME NEW d \in Dirs, NEW v \in VCs, StandsStill(d, v), [Next]_vars
      PROVE  StandsStill(d, v)'
  <2>1. CASE UNCHANGED vars
    BY <1>1, <2>1 DEF vars, StandsStill, Thru
  <2>2. ASSUME NEW on, Cycle(on)
        PROVE  StandsStill(d, v)'
    <3>1. ASSUME NEW n \in Tiles PROVE br'[<<n, d, v>>] = br[<<n, d, v>>]
      <4>1. Downstream(n, d) \in Tiles /\ <<n, d, v>> \in Ports
        BY RoundTrip, PortParts
      <4>2. br[<<n, d, v>>].valid /\ br[<<n, d, v>>].dst # n
            /\ br[<<Downstream(n, d), d, v>>].valid
        BY <1>1, <4>1 DEF StandsStill, Thru
      <4>3. ~Drained(n, d, v)
        BY <4>2 DEF Drained, Ejected, Here, Forwarded, in_ready
      <4> DEFINE r == <<n, d, v>>
      <4>4. br'[r] = IF Drained(r[1], r[2], r[3]) THEN NoFlit ELSE br[r]
        BY <2>2, <4>1, <4>2, CycleParts DEF Edge
      <4> QED  BY <4>3, <4>4
    <3>2. ASSUME NEW n \in Tiles PROVE Thru(n, d, v)'
      <4>1. Thru(n, d, v)
        BY <1>1 DEF StandsStill
      <4> QED  BY <3>1, <4>1 DEF Thru
    <3> QED  BY <3>2 DEF StandsStill
  <2> QED  BY <1>1, <2>1, <2>2 DEF Next, Clock
<1>2. [Next]_vars => \A d \in Dirs, v \in VCs : StandsStill(d, v) => StandsStill(d, v)'
  BY <1>1
<1> QED  BY <1>2, PTL DEF Spec

-----------------------------------------------------------------------------
(* Counting around.                                                        *)

\* A number is its quotient and its remainder, and only these.
LEMMA Remainder ==
  ASSUME NEW d \in Nat \ {0}, NEW q \in Int, NEW r \in 0 .. d - 1
  PROVE  (d * q + r) % d = r
<1> DEFINE a == d * q + r
           p == a \div d
           s == a % d
<1>1. a \in Int /\ p \in Int /\ s \in 0 .. d - 1 /\ a = d * p + s
  <2>1. d * q \in Int
    OBVIOUS
  <2>2. a \in Int
    BY <2>1
  <2> HIDE DEF a
  <2> QED  BY <2>2
<1> HIDE DEF a, p, s
<1>2. d * (p - q) = r - s
  <2>1. d * q \in Int /\ d * p \in Int /\ d * (p - q) = d * p - d * q
    BY <1>1
  <2>2. a = d * q + r
    BY DEF a
  <2> QED  BY <1>1, <2>1, <2>2
<1>3. p - q = 0
  <2>1. CASE p - q >= 1
    <3>1. d * (p - q) >= d
      BY <1>1, <2>1
    <3> QED  BY <1>1, <1>2, <3>1
  <2>2. CASE p - q <= -1
    <3>1. d * (p - q) <= -d
      BY <1>1, <2>2
    <3> QED  BY <1>1, <1>2, <3>1
  <2> QED  BY <1>1, <2>1, <2>2
<1>4. d * (p - q) = 0
  BY <1>1, <1>3
<1>5. s = r
  BY <1>1, <1>2, <1>4
<1> QED  BY <1>5 DEF s, a

\* One further, around or not.
LEMMA OneMore ==
  ASSUME NEW d \in Nat \ {0}, NEW a \in Nat
  PROVE  a % d \in 0 .. d - 1 /\ ((a % d) + 1) % d = (a + 1) % d
<1> DEFINE q == a \div d
           r == a % d
<1>1. q \in Int /\ r \in 0 .. d - 1 /\ a = d * q + r
  OBVIOUS
<1> HIDE DEF q, r
<1>2. CASE r + 1 < d
  <2>1. a + 1 = d * q + (r + 1) /\ r + 1 \in 0 .. d - 1
    BY <1>1, <1>2
  <2>2. (d * q + (r + 1)) % d = r + 1 /\ (d * 0 + (r + 1)) % d = r + 1
    <3>1. \A p \in Int : (d * p + (r + 1)) % d = r + 1
      BY <2>1, Remainder
    <3>2. q \in Int /\ 0 \in Int
      BY <1>1
    <3> QED  BY <3>1, <3>2
  <2>3. d * 0 + (r + 1) = r + 1
    BY <1>1
  <2>4. (a + 1) % d = r + 1 /\ (r + 1) % d = r + 1
    BY <2>1, <2>2, <2>3
  <2> QED  BY <1>1, <2>4 DEF r
<1>3. CASE r + 1 = d
  <2>1. a + 1 = d * (q + 1) + 0
    <3>1. d * (q + 1) = d * q + d /\ d * q \in Int
      BY <1>1
    <3> QED  BY <1>1, <1>3, <3>1
  <2>2. (d * (q + 1) + 0) % d = 0 /\ (d * 1 + 0) % d = 0
    <3>1. 0 \in 0 .. d - 1 /\ q + 1 \in Int /\ 1 \in Int
      BY <1>1
    <3>2. \A p \in Int : (d * p + 0) % d = 0
      BY <3>1, Remainder
    <3> QED  BY <3>1, <3>2
  <2>3. d * 1 + 0 = r + 1
    BY <1>3
  <2> QED  BY <1>1, <2>1, <2>2, <2>3 DEF r
<1> QED  BY <1>1, <1>2, <1>3

-----------------------------------------------------------------------------
(* The tiles on the ring: the inductive invariant.                         *)

Registers ==
  [st : States, setup_cnt : 0 .. SetupCnt, sent : 0 .. CntMod - 1, cur_line : Lines,
   cur_addr : Lines, line_buf : Content, done : BOOLEAN]

SysTypes ==
  /\ program \in Programs
  /\ cmd \in [Tiles -> Nat \ {0}] /\ \A t \in Tiles : cmd[t] <= Len(program[t]) + 1
  /\ dma \in [Tiles -> Registers]
  /\ rdata0 \in [Tiles -> Content]
  /\ sram \in [Tiles -> [Lines -> Content]]

\* The registers of an engine point to the line that is sent next, and what
\* it has read is what that line held at the start.
Working(t, e, push, data) ==
  /\ IF e.st = "FIN" THEN e.sent = push.nlines
     ELSE /\ e.sent < Extent(push)
          /\ e.cur_line = Src(push, e.sent) /\ e.cur_addr = Dst(push, e.sent)
  /\ e.st = "CAP" => data = Name(t, e.cur_line)
  /\ e.st = "SEND" => e.line_buf = Name(t, e.cur_line)

Engines ==
  \A t \in Tiles : dma[t].st # "IDLE" =>
    cmd[t] \in 1 .. Len(program[t]) /\ Working(t, dma[t], Command(t), rdata0[t])

\* A flit in a register is a line of a push, on its channel, in its direction.
WordsInRing ==
  \A r \in Ports : br[r].valid =>
    /\ r[3] = "REQ"
    /\ \E t \in Tiles : \E j \in 1 .. Len(program[t]) :
         \E k \in 0 .. Extent(program[t][j]) - 1 :
           br[r] = Word(t, program[t][j], k) /\ r[2] = ring_dir(t, program[t][j].dst_tile)

\* What is still to be read is as it was at the start.
SourcesKept ==
  \A t \in Tiles : \A j \in 1 .. Len(program[t]) : \A k \in 0 .. Extent(program[t][j]) - 1 :
    sram[t][Src(program[t][j], k)] = Name(t, Src(program[t][j], k))

SysInv == SysTypes /\ Engines /\ WordsInRing /\ SourcesKept /\ LostOnlyInCollisions

-----------------------------------------------------------------------------
(* Pushes and the registers of an engine.                                  *)

\* The parts of a push.
LEMMA PushParts ==
  ASSUME NEW p \in Programs, NEW t \in Tiles, NEW j \in 1 .. Len(p[t])
  PROVE  /\ p[t][j] \in Push /\ p[t][j].dst_tile \in Tiles /\ Len(p[t]) \in Nat
         /\ p[t][j].src_line \in Lines /\ p[t][j].dst_line \in Lines
         /\ p[t][j].nlines \in 0 .. CntMod - 1
         /\ Extent(p[t][j]) \in 1 .. CntMod /\ p[t][j].nlines <= Extent(p[t][j])
<1>1. p[t] \in Seq(Push)
  BY SystemAssumption
<1>2. p[t][j] \in Push /\ Len(p[t]) \in Nat
  BY <1>1
<1> QED  BY <1>2, SystemAssumption DEF Push, Extent

\* Lines follow each other from the start of a push.
LEMMA LineParts ==
  ASSUME NEW push \in Push, NEW k \in Nat
  PROVE  /\ Src(push, k) \in Lines /\ Dst(push, k) \in Lines
         /\ (Src(push, k) + 1) % Depth = Src(push, k + 1)
         /\ (Dst(push, k) + 1) % Depth = Dst(push, k + 1)
         /\ Src(push, 0) = push.src_line /\ Dst(push, 0) = push.dst_line
<1>1. Depth \in Nat \ {0} /\ push.src_line \in 0 .. Depth - 1 /\ push.dst_line \in 0 .. Depth - 1
  BY SystemAssumption DEF Push, Lines
<1>2. ASSUME NEW l \in 0 .. Depth - 1
      PROVE  /\ (l + k) % Depth \in Lines /\ (((l + k) % Depth) + 1) % Depth = (l + (k + 1)) % Depth
             /\ (l + 0) % Depth = l
  <2>1. l + k \in Nat /\ (l + k) + 1 = l + (k + 1) /\ l + 0 = l
    OBVIOUS
  <2>2. /\ (l + k) % Depth \in 0 .. Depth - 1
        /\ (((l + k) % Depth) + 1) % Depth = ((l + k) + 1) % Depth
    BY <1>1, <2>1, OneMore
  <2>3. l % Depth = l
    BY <1>1
  <2> QED  BY <2>1, <2>2, <2>3 DEF Lines
<1> QED  BY <1>1, <1>2 DEF Src, Dst

\* The registers of an engine after an edge are those its FSM gives.
LEMMA AfterEdge ==
  ASSUME SysTypes, NEW start, SysCycle(start), NEW t \in Tiles,
         cmd[t] \in 1 .. Len(program[t]) \/ (t \notin start /\ dma[t].st = "IDLE")
  PROVE  /\ Fsm(t, t \in start) \in Registers /\ dma'[t] \in Registers
         /\ dma'[t].st = Fsm(t, t \in start).st /\ dma'[t].sent = Fsm(t, t \in start).sent
         /\ dma'[t].cur_line = Fsm(t, t \in start).cur_line
         /\ dma'[t].cur_addr = Fsm(t, t \in start).cur_addr
         /\ dma'[t].line_buf = Fsm(t, t \in start).line_buf
<1> DEFINE f == Fsm(t, t \in start)
           e == dma[t]
<1>1. e \in Registers /\ rdata0[t] \in Content
  BY DEF SysTypes
<1>2. f \in Registers
  <2>1. CASE e.st = "IDLE" /\ t \notin start
    BY <1>1, <2>1 DEF Fsm
  <2>2. CASE e.st = "IDLE" /\ t \in start
    <3>1. Command(t) \in Push
      BY <2>2, PushParts DEF SysTypes, Command
    <3>2. f = Started(t)
      BY <2>2 DEF Fsm
    <3>3. Command(t).src_line \in Lines /\ Command(t).dst_line \in Lines /\ 0 \in 0 .. CntMod - 1
      BY <3>1, SystemAssumption DEF Push
    <3>4. "SETUP" \in States /\ SetupCnt \in 0 .. SetupCnt
      BY DEF States, SetupCnt
    <3> HIDE DEF f
    <3> QED  BY <1>1, <3>2, <3>3, <3>4 DEF Started, Registers
  <2>3. CASE e.st = "SETUP"
    <3>1. f = IF e.setup_cnt = 0 THEN [e EXCEPT !.st = "READ"] ELSE [e EXCEPT !.setup_cnt = @ - 1]
      BY <2>3 DEF Fsm
    <3>2. e.setup_cnt # 0 => e.setup_cnt - 1 \in 0 .. SetupCnt
      BY <1>1 DEF Registers, SetupCnt
    <3> HIDE DEF f, e
    <3> QED  BY <1>1, <3>1, <3>2 DEF Registers, States
  <2>4. CASE e.st = "READ"
    BY <1>1, <2>4 DEF Fsm, Registers, States
  <2>5. CASE e.st = "CAP"
    BY <1>1, <2>5 DEF Fsm, Registers, States
  <2>6. CASE e.st = "SEND"
    <3>1. f = IF inj_ready(Requests, t, "REQ") THEN NextLine(t) ELSE e
      BY <2>6 DEF Fsm
    <3>2. /\ (e.sent + 1) % CntMod \in 0 .. CntMod - 1
          /\ (e.cur_addr + 1) % Depth \in Lines /\ (e.cur_line + 1) % Depth \in Lines
      <4>1. e.sent + 1 \in Nat /\ e.cur_addr + 1 \in Nat /\ e.cur_line + 1 \in Nat
        BY <1>1, SystemAssumption DEF Registers, Lines
      <4> HIDE DEF e
      <4> QED  BY <4>1, OneMore, SystemAssumption DEF Lines
    <3>3. NextLine(t) \in Registers
      BY <1>1, <3>2 DEF NextLine, Registers, States
    <3> QED  BY <1>1, <3>1, <3>3
  <2>7. CASE e.st = "FIN"
    BY <1>1, <2>7 DEF Fsm, Registers, States
  <2> QED  BY <1>1, <2>1, <2>2, <2>3, <2>4, <2>5, <2>6, <2>7 DEF Registers, States
<1>3. dma'[t] = [f EXCEPT !.done = dma[t].st = "FIN"]
  BY DEF SysCycle
<1> HIDE DEF f
<1> QED  BY <1>2, <1>3 DEF Registers, f

-----------------------------------------------------------------------------
(* The tiles and the ring.                                                 *)

\* What a tile offers to the ring is the next line of its push.
LEMMA Offers ==
  ASSUME SysTypes, Engines, NEW t \in Tiles, NEW v \in VCs, Requests[<<t, v>>].valid
  PROVE  /\ v = "REQ" /\ dma[t].st = "SEND" /\ cmd[t] \in 1 .. Len(program[t])
         /\ dma[t].sent \in 0 .. Extent(Command(t)) - 1
         /\ Requests[<<t, v>>] = Word(t, Command(t), dma[t].sent)
<1>1. Requests[<<t, v>>] = IF v = "REQ" THEN inj_req(t) ELSE NoFlit
  <2> DEFINE q == <<t, v>>
  <2>1. q \in Injects /\ q[1] = t /\ q[2] = v
    BY DEF Injects
  <2> HIDE DEF q
  <2>2. Requests[q] = IF q[2] = "REQ" THEN inj_req(q[1]) ELSE NoFlit
    BY <2>1 DEF Requests
  <2> QED  BY <2>1, <2>2 DEF q
<1>2. v = "REQ" /\ dma[t].st = "SEND"
  BY <1>1 DEF inj_req, NoFlit
<1>3. /\ cmd[t] \in 1 .. Len(program[t])
      /\ dma[t].sent < Extent(Command(t)) /\ dma[t].line_buf = Name(t, dma[t].cur_line)
      /\ dma[t].cur_line = Src(Command(t), dma[t].sent)
      /\ dma[t].cur_addr = Dst(Command(t), dma[t].sent)
  BY <1>2 DEF Engines, Working
<1>4. dma[t].sent \in Nat /\ Extent(Command(t)) \in Nat
  <2>1. Extent(Command(t)) \in 1 .. CntMod
    BY <1>3, PushParts DEF SysTypes, Command
  <2> QED  BY <2>1, SystemAssumption DEF SysTypes, Registers
<1>5. inj_req(t) = Word(t, Command(t), dma[t].sent)
  BY <1>2, <1>3 DEF inj_req, Word
<1> QED  BY <1>1, <1>2, <1>3, <1>4, <1>5

\* A node gets from each direction what the register of the request channel
\* holds for it, and its SRAM what comes clockwise, if something does.
LEMMA Heard ==
  ASSUME WordsInRing, NEW t \in Tiles
  PROVE  /\ \A r \in Ports : r[1] = t /\ Ejected(r[1], r[2], r[3])
                               => eject(t, r[2]) = br[r] /\ eject(t, r[2]).valid
         /\ \A d \in Dirs : eject(t, d).valid =>
              /\ <<t, d, "REQ">> \in Ports /\ br[<<t, d, "REQ">>] = eject(t, d)
              /\ eject(t, d).dst = t
         /\ ing(t).valid => \E d \in Dirs : ing(t) = eject(t, d)
<1>1. "REQ" \in VCs /\ "RESP" \in VCs /\ "REQ" # "RESP" /\ 0 \in Dirs /\ 1 \in Dirs
  BY DEF VCs, Dirs
<1>2. ASSUME NEW d \in Dirs PROVE ~Ejected(t, d, "RESP")
  <2> DEFINE r == <<t, d, "RESP">>
  <2>1. r \in Ports /\ r[3] = "RESP"
    BY <1>1, PortParts
  <2>2. ~br[r].valid
    BY <1>1, <2>1 DEF WordsInRing
  <2> QED  BY <2>2 DEF Ejected, Here
<1>3. ASSUME NEW r \in Ports, r[1] = t, Ejected(r[1], r[2], r[3])
      PROVE  eject(t, r[2]) = br[r] /\ eject(t, r[2]).valid
  <2>1. r[2] \in Dirs /\ r[3] \in VCs /\ r = <<t, r[2], r[3]>>
    BY <1>3, PortParts
  <2>2. r[3] = "REQ"
    BY <1>2, <1>3, <2>1 DEF VCs
  <2>3. br[r].valid
    BY <1>3, <2>1 DEF Ejected, Here
  <2> QED  BY <1>2, <1>3, <2>1, <2>2, <2>3 DEF eject
<1>4. ASSUME NEW d \in Dirs, eject(t, d).valid
      PROVE  /\ <<t, d, "REQ">> \in Ports /\ br[<<t, d, "REQ">>] = eject(t, d)
             /\ eject(t, d).dst = t
  <2>1. Ejected(t, d, "REQ") /\ eject(t, d) = br[<<t, d, "REQ">>]
    BY <1>2, <1>4 DEF eject, NoFlit
  <2> QED  BY <1>1, <2>1, PortParts DEF Ejected, Here
<1> QED  BY <1>1, <1>3, <1>4 DEF ing

\* A cycle leaves a line of an SRAM alone or writes a line of a push there.
LEMMA Writes ==
  ASSUME SysTypes, WordsInRing, NEW t \in Tiles
  PROVE  /\ Written(t) \in [Lines -> Content]
         /\ \A l \in Lines :
              \/ Written(t)[l] = sram[t][l]
              \/ \E u \in Tiles : \E j \in 1 .. Len(program[u]) :
                   \E k \in 0 .. Extent(program[u][j]) - 1 :
                     /\ program[u][j].dst_tile = t /\ Dst(program[u][j], k) = l
                     /\ Written(t)[l] = Name(u, Src(program[u][j], k))
<1>0. sram[t] \in [Lines -> Content]
  BY DEF SysTypes
<1>1. CASE ~ing(t).valid
  BY <1>0, <1>1 DEF Written
<1>2. CASE ing(t).valid
  <2>1. PICK r \in Ports : br[r] = ing(t) /\ br[r].valid /\ br[r].dst = t
    <3>1. PICK d \in Dirs : ing(t) = eject(t, d)
      BY <1>2, Heard
    <3>2. eject(t, d).valid
      BY <1>2, <3>1
    <3>3. <<t, d, "REQ">> \in Ports /\ br[<<t, d, "REQ">>] = ing(t) /\ ing(t).dst = t
      BY <3>1, <3>2, Heard
    <3> QED  BY <1>2, <3>3
  <2>2. PICK u \in Tiles : \E j \in 1 .. Len(program[u]) :
          \E k \in 0 .. Extent(program[u][j]) - 1 : br[r] = Word(u, program[u][j], k)
    BY <2>1 DEF WordsInRing
  <2>9. PICK j \in 1 .. Len(program[u]) :
          \E k \in 0 .. Extent(program[u][j]) - 1 : br[r] = Word(u, program[u][j], k)
    BY <2>2
  <2>3. PICK k \in 0 .. Extent(program[u][j]) - 1 : br[r] = Word(u, program[u][j], k)
    BY <2>9
  <2> DEFINE push == program[u][j]
  <2>4. push \in Push /\ k \in Nat
    <3>1. Extent(push) \in 1 .. CntMod /\ push \in Push
      BY PushParts DEF SysTypes
    <3> QED  BY <3>1, SystemAssumption
  <2>5. Src(push, k) \in Lines /\ Dst(push, k) \in Lines /\ Name(u, Src(push, k)) \in Content
    <3>1. Src(push, k) \in Lines /\ Dst(push, k) \in Lines
      BY <2>4, LineParts
    <3> QED  BY <3>1 DEF Name, Content
  <2>6. /\ Written(t) = [sram[t] EXCEPT ![Dst(push, k)] = Name(u, Src(push, k))]
        /\ push.dst_tile = t
    <3>1. /\ ing(t).addr = Dst(push, k) /\ ing(t).payload = Name(u, Src(push, k))
          /\ ing(t).dst = push.dst_tile
      BY <2>1, <2>3 DEF Word
    <3> QED  BY <1>2, <2>1, <3>1 DEF Written
  <2>7. Written(t) \in [Lines -> Content]
    <3> HIDE DEF push
    <3> QED  BY <1>0, <2>5, <2>6
  <2>8. ASSUME NEW l \in Lines
        PROVE  \/ Written(t)[l] = sram[t][l]
               \/ l = Dst(push, k) /\ Written(t)[l] = Name(u, Src(push, k))
    <3> HIDE DEF push
    <3> QED  BY <1>0, <2>5, <2>6
  <2> QED  BY <2>6, <2>7, <2>8
<1> QED  BY <1>1, <1>2

\* Lines that are to be sent are not written.
LEMMA SourcesStay ==
  ASSUME SysTypes, WordsInRing, SourcesKept, Apart(program),
         NEW start, SysCycle(start)
  PROVE  SourcesKept'
<1>0. program' = program /\ \A t \in Tiles : sram'[t] = Written(t)
  BY DEF SysCycle
<1> SUFFICES ASSUME NEW t \in Tiles, NEW j \in 1 .. Len(program[t]),
                    NEW k \in 0 .. Extent(program[t][j]) - 1
             PROVE  sram'[t][Src(program[t][j], k)] = Name(t, Src(program[t][j], k))
  BY <1>0 DEF SourcesKept
<1> DEFINE l == Src(program[t][j], k)
<1>1. l \in Lines
  <2>1. Extent(program[t][j]) \in 1 .. CntMod /\ program[t][j] \in Push
    BY PushParts DEF SysTypes
  <2>2. k \in Nat
    BY <2>1, SystemAssumption
  <2> QED  BY <2>1, <2>2, LineParts
<1>2. sram[t][l] = Name(t, l)
  BY DEF SourcesKept
<1>3. ~ \E u \in Tiles : \E i \in 1 .. Len(program[u]) :
          \E m \in 0 .. Extent(program[u][i]) - 1 :
            program[u][i].dst_tile = t /\ Dst(program[u][i], m) = l
  <2> SUFFICES ASSUME NEW u \in Tiles, NEW i \in 1 .. Len(program[u]),
                      NEW m \in 0 .. Extent(program[u][i]) - 1,
                      program[u][i].dst_tile = t, Dst(program[u][i], m) = l
               PROVE  FALSE
    OBVIOUS
  <2>1. ~(program[u][i].dst_tile = t /\ Dst(program[u][i], m) = Src(program[t][j], k))
    BY DEF Apart
  <2> QED  BY <2>1
<1> HIDE DEF l
<1>4. Written(t)[l] = sram[t][l]
  BY <1>1, <1>3, Writes
<1> QED  BY <1>0, <1>2, <1>4 DEF l

\* What has landed is not written over.
LEMMA LandedStays ==
  ASSUME SysTypes, WordsInRing, Apart(program), NEW start, SysCycle(start),
         NEW t \in Tiles, NEW j \in 1 .. Len(program[t]),
         NEW k \in 0 .. Extent(program[t][j]) - 1, Landed(t, program[t][j], k)
  PROVE  sram'[program[t][j].dst_tile][Dst(program[t][j], k)] = Name(t, Src(program[t][j], k))
<1> DEFINE push == program[t][j]
           at == push.dst_tile
           l == Dst(push, k)
<1>1. /\ at \in Tiles /\ l \in Lines
  <2>1. Extent(push) \in 1 .. CntMod /\ push \in Push /\ at \in Tiles
    BY PushParts DEF SysTypes
  <2>2. k \in Nat
    BY <2>1, SystemAssumption
  <2> QED  BY <2>1, <2>2, LineParts
<1>2. sram'[at] = Written(at) /\ sram[at][l] = Name(t, Src(push, k))
  BY <1>1 DEF SysCycle, Landed
<1>3. ASSUME NEW u \in Tiles, NEW i \in 1 .. Len(program[u]),
             NEW m \in 0 .. Extent(program[u][i]) - 1,
             program[u][i].dst_tile = at, Dst(program[u][i], m) = l
      PROVE  Name(u, Src(program[u][i], m)) = Name(t, Src(push, k))
  <2>1. t = u /\ j = i /\ k = m
    BY <1>3 DEF Apart
  <2> QED  BY <2>1
<1>4. Written(at)[l] = Name(t, Src(push, k))
  <2>1. \/ Written(at)[l] = sram[at][l]
        \/ \E u \in Tiles : \E i \in 1 .. Len(program[u]) :
             \E m \in 0 .. Extent(program[u][i]) - 1 :
               /\ program[u][i].dst_tile = at /\ Dst(program[u][i], m) = l
               /\ Written(at)[l] = Name(u, Src(program[u][i], m))
    <3> HIDE DEF at, l
    <3> QED  BY <1>1, Writes
  <2> QED  BY <1>2, <1>3, <2>1
<1> QED  BY <1>2, <1>4

\* What enters the ring is a line of a push, in its direction.
LEMMA WordsStay ==
  ASSUME SysTypes, Engines, WordsInRing, NEW start, SysCycle(start)
  PROVE  WordsInRing'
<1>0. program' = program /\ Edge(Requests)
  BY DEF SysCycle
<1> DEFINE Good(f, r) ==
      /\ r[3] = "REQ"
      /\ \E t \in Tiles : \E j \in 1 .. Len(program[t]) :
           \E k \in 0 .. Extent(program[t][j]) - 1 :
             f = Word(t, program[t][j], k) /\ r[2] = ring_dir(t, program[t][j].dst_tile)
<1>1. ASSUME NEW r \in Ports, br'[r].valid PROVE Good(br'[r], r)
  <2>1. CASE br[r].valid /\ br'[r] = br[r]
    BY <2>1 DEF WordsInRing
  <2>2. CASE br'[r] = br[Before(r)]
    <3>1. Before(r) \in Ports /\ Before(r)[2] = r[2] /\ Before(r)[3] = r[3]
      BY Along
    <3>2. Good(br[Before(r)], Before(r))
      BY <1>1, <2>2, <3>1 DEF WordsInRing
    <3> QED  BY <2>2, <3>1, <3>2
  <2>3. CASE /\ Tile(r) \in Injects /\ Taken(Requests, Tile(r)[1], r[2], Tile(r)[2])
             /\ br'[r] = Requests[Tile(r)]
    <3> DEFINE t == Tile(r)[1]
               v == Tile(r)[2]
    <3>1. t \in Tiles /\ v \in VCs /\ Tile(r) = <<t, v>> /\ v = r[3] /\ r[2] \in Dirs
      BY <2>3, PortParts DEF Tile
    <3>2. Requests[<<t, v>>].valid /\ ring_dir(t, Requests[<<t, v>>].dst) = r[2]
      <4> HIDE DEF t, v
      <4> DEFINE d == r[2]
      <4>1. Taken(Requests, t, d, v)
        BY <2>3 DEF t, v
      <4>2. d \in Dirs
        BY <3>1
      <4> HIDE DEF d
      <4>3. Requests[<<t, v>>].valid /\ ring_dir(t, Requests[<<t, v>>].dst) = d
        <5>1. Edge(Requests) /\ t \in Tiles /\ v \in VCs
          BY <1>0, <3>1
        <5> QED  BY <4>1, <4>2, <5>1, Loads
      <4> QED  BY <4>3 DEF d
    <3>3. /\ v = "REQ" /\ cmd[t] \in 1 .. Len(program[t])
          /\ dma[t].sent \in 0 .. Extent(Command(t)) - 1
          /\ Requests[<<t, v>>] = Word(t, Command(t), dma[t].sent)
      <4> HIDE DEF t, v
      <4> QED  BY <3>1, <3>2, Offers
    <3>4. br'[r] = Word(t, program[t][cmd[t]], dma[t].sent)
      BY <2>3, <3>1, <3>3 DEF Command
    <3>5. r[2] = ring_dir(t, program[t][cmd[t]].dst_tile)
      BY <3>2, <3>3 DEF Word, Command
    <3> HIDE DEF t, v
    <3> QED  BY <3>1, <3>3, <3>4, <3>5 DEF Command
  <2> QED  BY <1>0, <1>1, <2>1, <2>2, <2>3, Comes
<1> QED  BY <1>0, <1>1 DEF WordsInRing

-----------------------------------------------------------------------------
(* The engines.                                                            *)

\* What the FSM does to the registers, from e to f.
Keeps(e, f) == f.sent = e.sent /\ f.cur_line = e.cur_line /\ f.cur_addr = e.cur_addr
Waits(e, f) ==
  f.st = e.st /\ e.st \in {"IDLE", "SETUP", "SEND"} /\ Keeps(e, f) /\ f.line_buf = e.line_buf
Starts(e, f, push) ==
  /\ e.st = "IDLE" /\ f.st = "SETUP" /\ f.sent = 0
  /\ f.cur_line = push.src_line /\ f.cur_addr = push.dst_line
Fetches(e, f, data) ==
  /\ Keeps(e, f)
  /\ \/ e.st = "SETUP" /\ f.st = "READ"
     \/ e.st = "READ" /\ f.st = "CAP"
     \/ e.st = "CAP" /\ f.st = "SEND" /\ f.line_buf = data
Sends(e, f, push) ==
  /\ e.st = "SEND" /\ f.sent = (e.sent + 1) % CntMod
  /\ f.cur_line = (e.cur_line + 1) % Depth /\ f.cur_addr = (e.cur_addr + 1) % Depth
  /\ f.st = IF f.sent = push.nlines THEN "FIN" ELSE "READ"
Ends(e, f) == e.st = "FIN" /\ f.st = "IDLE"

\* A cycle does one of these to an engine.
LEMMA FsmSteps ==
  ASSUME SysTypes, Engines, NEW start, start \subseteq {t \in Tiles : CanStart(t)},
         SysCycle(start), NEW t \in Tiles
  PROVE  /\ dma'[t] \in Registers
         /\ cmd'[t] = IF dma[t].st = "FIN" THEN cmd[t] + 1 ELSE cmd[t]
         /\ dma[t].st # "IDLE" \/ dma'[t].st # "IDLE" => cmd[t] \in 1 .. Len(program[t])
         /\ \/ Waits(dma[t], dma'[t])
            \/ Starts(dma[t], dma'[t], Command(t))
            \/ Fetches(dma[t], dma'[t], rdata0[t])
            \/ Sends(dma[t], dma'[t], Command(t)) /\ inj_ready(Requests, t, "REQ")
            \/ Ends(dma[t], dma'[t])
<1> DEFINE e == dma[t]
           f == Fsm(t, t \in start)
<1>1. cmd'[t] = IF e.st = "FIN" THEN cmd[t] + 1 ELSE cmd[t]
  BY DEF SysCycle
<1>2. e \in Registers
  BY DEF SysTypes
<1>3. cmd[t] \in 1 .. Len(program[t]) \/ (t \notin start /\ e.st = "IDLE")
  <2>1. CASE t \in start
    <3>1. cmd[t] <= Len(program[t]) /\ cmd[t] \in Nat \ {0}
      BY <2>1 DEF CanStart, SysTypes
    <3>2. Len(program[t]) \in Nat
      <4>1. program[t] \in Seq(Push)
        BY SystemAssumption DEF SysTypes
      <4> QED  BY <4>1
    <3> QED  BY <3>1, <3>2
  <2>2. CASE e.st # "IDLE"
    BY <2>2 DEF Engines
  <2> QED  BY <2>1, <2>2
<1>4. /\ f \in Registers /\ dma'[t] \in Registers
      /\ dma'[t].st = f.st /\ dma'[t].sent = f.sent /\ dma'[t].cur_line = f.cur_line
      /\ dma'[t].cur_addr = f.cur_addr /\ dma'[t].line_buf = f.line_buf
  BY <1>3, AfterEdge
<1>5. \/ Waits(e, f) \/ Starts(e, f, Command(t)) \/ Fetches(e, f, rdata0[t])
      \/ (Sends(e, f, Command(t)) /\ inj_ready(Requests, t, "REQ")) \/ Ends(e, f)
  <2>1. CASE e.st = "IDLE" /\ t \notin start
    <3>1. f = e
      BY <2>1 DEF Fsm
    <3> HIDE DEF f, e
    <3> QED  BY <2>1, <3>1 DEF Waits, Keeps
  <2>2. CASE e.st = "IDLE" /\ t \in start
    <3>1. f = Started(t)
      BY <2>2 DEF Fsm
    <3>2. Starts(e, Started(t), Command(t))
      BY <1>2, <2>2 DEF Started, Starts, Registers
    <3> HIDE DEF f
    <3> QED  BY <3>1, <3>2
  <2>3. CASE e.st = "SETUP"
    <3>1. f = IF e.setup_cnt = 0 THEN [e EXCEPT !.st = "READ"] ELSE [e EXCEPT !.setup_cnt = @ - 1]
      BY <2>3 DEF Fsm
    <3> HIDE DEF f, e
    <3>2. CASE e.setup_cnt = 0
      BY <1>2, <2>3, <3>1, <3>2 DEF Fetches, Keeps, Registers
    <3>3. CASE e.setup_cnt # 0
      BY <1>2, <2>3, <3>1, <3>3 DEF Waits, Keeps, Registers
    <3> QED  BY <3>2, <3>3
  <2>4. CASE e.st = "READ"
    <3>1. f = [e EXCEPT !.st = "CAP"]
      BY <2>4 DEF Fsm
    <3> HIDE DEF f, e
    <3> QED  BY <1>2, <2>4, <3>1 DEF Fetches, Keeps, Registers
  <2>5. CASE e.st = "CAP"
    <3>1. f = [e EXCEPT !.line_buf = rdata0[t], !.st = "SEND"]
      BY <2>5 DEF Fsm
    <3> HIDE DEF f, e
    <3> QED  BY <1>2, <2>5, <3>1 DEF Fetches, Keeps, Registers
  <2>6. CASE e.st = "SEND" /\ inj_ready(Requests, t, "REQ")
    <3>1. f = NextLine(t)
      BY <2>6 DEF Fsm
    <3>2. Sends(e, NextLine(t), Command(t))
      BY <1>2, <2>6 DEF NextLine, Sends, Registers
    <3> HIDE DEF f
    <3> QED  BY <2>6, <3>1, <3>2
  <2>7. CASE e.st = "SEND" /\ ~inj_ready(Requests, t, "REQ")
    <3>1. f = e
      BY <2>7 DEF Fsm
    <3> HIDE DEF f, e
    <3> QED  BY <2>7, <3>1 DEF Waits, Keeps
  <2>8. CASE e.st = "FIN"
    <3>1. f = [e EXCEPT !.st = "IDLE"]
      BY <2>8 DEF Fsm
    <3> HIDE DEF f, e
    <3> QED  BY <1>2, <2>8, <3>1 DEF Ends, Registers
  <2> QED  BY <1>2, <2>1, <2>2, <2>3, <2>4, <2>5, <2>6, <2>7, <2>8 DEF Registers, States
<1>6. e.st # "IDLE" \/ dma'[t].st # "IDLE" => cmd[t] \in 1 .. Len(program[t])
  <2>1. CASE t \notin start /\ e.st = "IDLE"
    <3>1. f = e
      BY <2>1 DEF Fsm
    <3> QED  BY <1>4, <2>1, <3>1
  <2> QED  BY <1>3, <2>1
<1> HIDE DEF f, e
<1>7. \/ Waits(e, dma'[t]) \/ Starts(e, dma'[t], Command(t)) \/ Fetches(e, dma'[t], rdata0[t])
      \/ (Sends(e, dma'[t], Command(t)) /\ inj_ready(Requests, t, "REQ")) \/ Ends(e, dma'[t])
  BY <1>4, <1>5 DEF Waits, Starts, Fetches, Sends, Ends, Keeps
<1> QED  BY <1>1, <1>4, <1>6, <1>7 DEF e

\* One line on: the counters move to the next line, or the push is at its end.
LEMMA SendSteps ==
  ASSUME NEW e \in Registers, NEW f \in Registers, NEW push \in Push, Sends(e, f, push),
         e.sent < Extent(push), e.cur_line = Src(push, e.sent), e.cur_addr = Dst(push, e.sent)
  PROVE  IF f.st = "FIN" THEN f.sent = push.nlines
         ELSE /\ f.sent < Extent(push)
              /\ f.cur_line = Src(push, f.sent) /\ f.cur_addr = Dst(push, f.sent)
<1>1. /\ CntMod \in Nat \ {0} /\ e.sent \in 0 .. CntMod - 1 /\ push.nlines \in 0 .. CntMod - 1
      /\ f.sent = (e.sent + 1) % CntMod
      /\ f.st = IF f.sent = push.nlines THEN "FIN" ELSE "READ"
  BY SystemAssumption DEF Registers, Push, Sends
<1>2. Extent(push) = IF push.nlines = 0 THEN CntMod ELSE push.nlines
  BY DEF Extent
<1>3. CASE e.sent + 1 < CntMod
  <2>1. f.sent = e.sent + 1
    BY <1>1, <1>3
  <2>2. f.cur_line = Src(push, f.sent) /\ f.cur_addr = Dst(push, f.sent)
    <3>1. e.sent \in Nat
      BY <1>1
    <3> QED  BY <2>1, <3>1, LineParts DEF Sends
  <2>3. f.st = "READ" => f.sent < Extent(push)
    BY <1>1, <1>2, <1>3, <2>1
  <2> QED  BY <1>1, <2>1, <2>2, <2>3
<1>4. CASE e.sent + 1 = CntMod
  <2>1. f.sent = 0
    BY <1>1, <1>4
  <2>2. push.nlines = 0
    BY <1>1, <1>2, <1>4
  <2> QED  BY <1>1, <2>1, <2>2
<1> QED  BY <1>1, <1>3, <1>4

\* An engine goes on pointing to the line that is next.
LEMMA EnginesStay ==
  ASSUME SysTypes, Engines, SourcesKept, NEW start, start \subseteq {t \in Tiles : CanStart(t)},
         SysCycle(start)
  PROVE  Engines'
<1>0. program' = program
  BY DEF SysCycle
<1> SUFFICES ASSUME NEW t \in Tiles, dma'[t].st # "IDLE"
             PROVE  /\ cmd'[t] \in 1 .. Len(program[t])
                    /\ Working(t, dma'[t], program[t][cmd'[t]], rdata0'[t])
  BY <1>0 DEF Engines, Command
<1> DEFINE e == dma[t]
           f == dma'[t]
           push == Command(t)
<1>1. /\ f \in Registers /\ cmd[t] \in 1 .. Len(program[t])
      /\ cmd'[t] = IF e.st = "FIN" THEN cmd[t] + 1 ELSE cmd[t]
      /\ \/ Waits(e, f) \/ Starts(e, f, push) \/ Fetches(e, f, rdata0[t]) \/ Sends(e, f, push)
         \/ Ends(e, f)
  BY FsmSteps
<1>2. e \in Registers /\ e.st \in States
  BY DEF SysTypes, Registers
<1>3. push \in Push /\ Extent(push) \in 1 .. CntMod
  BY <1>1, PushParts DEF SysTypes, Command
<1>4. e.st # "IDLE" => Working(t, e, push, rdata0[t])
  BY DEF Engines
<1>5. e.st # "FIN" /\ cmd'[t] = cmd[t]
  <2> HIDE DEF f, push
  <2>1. f.st # "IDLE"
    BY DEF f
  <2> QED  BY <1>1, <2>1 DEF Waits, Starts, Fetches, Sends, Ends
<1>6. rdata0'[t] = sram[t][e.cur_line]
  BY DEF SysCycle
<1> HIDE DEF e, f, push
<1>7. CASE Waits(e, f)
  <2>1. Working(t, e, push, rdata0[t]) /\ e.st # "CAP" /\ e.st # "IDLE"
    <3>1. e.st \in {"IDLE", "SETUP", "SEND"} /\ f.st = e.st /\ f.st # "IDLE"
      BY <1>7 DEF Waits, f
    <3> QED  BY <1>4, <3>1
  <2>2. Working(t, f, push, rdata0'[t])
    BY <1>7, <2>1 DEF Working, Waits, Keeps
  <2> QED  BY <1>1, <1>5, <2>2 DEF push, f, Command
<1>8. CASE Starts(e, f, push)
  <2>1. Src(push, 0) = push.src_line /\ Dst(push, 0) = push.dst_line
    BY <1>3, LineParts
  <2>2. 0 < Extent(push)
    BY <1>3
  <2>3. Working(t, f, push, rdata0'[t])
    BY <1>8, <2>1, <2>2 DEF Working, Starts
  <2> QED  BY <1>1, <1>5, <2>3 DEF push, f, Command
<1>9. CASE Fetches(e, f, rdata0[t])
  <2>1. e.st # "IDLE" /\ e.st # "FIN" /\ f.st # "FIN" /\ Working(t, e, push, rdata0[t])
    BY <1>4, <1>9 DEF Fetches
  <2>2. rdata0'[t] = Name(t, e.cur_line)
    <3>1. e.sent < Extent(push) /\ e.cur_line = Src(push, e.sent)
      BY <2>1 DEF Working
    <3>2. e.sent \in 0 .. Extent(program[t][cmd[t]]) - 1
      BY <1>2, <1>3, <3>1, SystemAssumption DEF Registers, push, Command
    <3>3. sram[t][Src(program[t][cmd[t]], e.sent)] = Name(t, Src(program[t][cmd[t]], e.sent))
      BY <1>1, <3>2 DEF SourcesKept
    <3> QED  BY <1>6, <3>1, <3>3 DEF push, Command
  <2>3. f.st = "SEND" => f.line_buf = Name(t, f.cur_line)
    BY <1>9, <2>1 DEF Fetches, Keeps, Working
  <2>4. /\ f.sent < Extent(push) /\ f.cur_line = Src(push, f.sent)
        /\ f.cur_addr = Dst(push, f.sent) /\ rdata0'[t] = Name(t, f.cur_line)
    BY <1>9, <2>1, <2>2 DEF Fetches, Keeps, Working
  <2>5. Working(t, f, push, rdata0'[t])
    BY <2>1, <2>3, <2>4 DEF Working
  <2> QED  BY <1>1, <1>5, <2>5 DEF push, f, Command
<1>10. CASE Sends(e, f, push)
  <2>1. /\ e.sent < Extent(push) /\ e.cur_line = Src(push, e.sent)
        /\ e.cur_addr = Dst(push, e.sent)
    BY <1>4, <1>10 DEF Sends, Working
  <2>2. f.st \in {"FIN", "READ"}
    BY <1>10 DEF Sends
  <2>3. IF f.st = "FIN" THEN f.sent = push.nlines
        ELSE /\ f.sent < Extent(push)
             /\ f.cur_line = Src(push, f.sent) /\ f.cur_addr = Dst(push, f.sent)
    BY <1>1, <1>2, <1>3, <1>10, <2>1, SendSteps
  <2>4. Working(t, f, push, rdata0'[t])
    BY <2>2, <2>3 DEF Working
  <2> QED  BY <1>1, <1>5, <2>4 DEF push, f, Command
<1> QED  BY <1>1, <1>5, <1>7, <1>8, <1>9, <1>10 DEF Ends

\* A line that counts as sent was sent before or is what the ring takes now.
LEMMA NewlySent ==
  ASSUME SysTypes, Engines, NEW start, start \subseteq {t \in Tiles : CanStart(t)},
         SysCycle(start), NEW t \in Tiles, NEW j \in 1 .. Len(program[t]),
         NEW k \in 0 .. Accepted(t, j)' - 1
  PROVE  /\ k \in 0 .. Extent(program[t][j]) - 1
         /\ \/ k \in 0 .. Accepted(t, j) - 1
            \/ /\ j = cmd[t] /\ k = dma[t].sent /\ dma[t].st = "SEND"
               /\ inj_ready(Requests, t, "REQ")
<1> DEFINE e == dma[t]
           f == dma'[t]
           push == Command(t)
           n == program[t][j].nlines
<1>1. /\ f \in Registers
      /\ e.st # "IDLE" \/ f.st # "IDLE" => cmd[t] \in 1 .. Len(program[t])
      /\ cmd'[t] = IF e.st = "FIN" THEN cmd[t] + 1 ELSE cmd[t]
      /\ \/ Waits(e, f) \/ Starts(e, f, push) \/ Fetches(e, f, rdata0[t])
         \/ (Sends(e, f, push) /\ inj_ready(Requests, t, "REQ")) \/ Ends(e, f)
  BY FsmSteps
<1>2. e \in Registers /\ cmd[t] \in Nat \ {0}
  BY DEF SysTypes
<1>3. n \in 0 .. CntMod - 1 /\ Extent(program[t][j]) \in 1 .. CntMod /\ n <= Extent(program[t][j])
  BY PushParts DEF SysTypes
<1>4. Accepted(t, j)' = IF j < cmd'[t] THEN n
                        ELSE IF j = cmd'[t] /\ f.st # "IDLE" THEN f.sent ELSE 0
  BY DEF Accepted, SysCycle
<1>5. Accepted(t, j) = IF j < cmd[t] THEN n ELSE IF j = cmd[t] /\ e.st # "IDLE" THEN e.sent ELSE 0
  BY DEF Accepted
<1>6. e.st # "IDLE" => Working(t, e, push, rdata0[t])
  BY DEF Engines
<1>7. /\ CntMod \in Nat \ {0} /\ e.sent \in 0 .. CntMod - 1 /\ f.sent \in 0 .. CntMod - 1
      /\ j \in Nat /\ j >= 1
  <2>1. CntMod \in Nat \ {0}
    BY SystemAssumption
  <2>2. e.sent \in 0 .. CntMod - 1 /\ f.sent \in 0 .. CntMod - 1
    BY <1>1, <1>2 DEF Registers
  <2> HIDE DEF e, f
  <2> QED  BY <2>1, <2>2
<1>8. j = cmd[t] => push = program[t][j]
  BY DEF Command
<1> HIDE DEF e, f, push, n
<1>9. CASE j < cmd[t]
  <2>1. Accepted(t, j)' = n /\ Accepted(t, j) = n
    BY <1>1, <1>2, <1>4, <1>5, <1>7, <1>9
  <2> QED  BY <1>3, <1>7, <2>1
<1>10. CASE j = cmd[t]
  <2>1. CASE Ends(e, f)
    <3>1. e.st = "FIN" /\ e.sent = push.nlines
      BY <1>6, <2>1 DEF Ends, Working
    <3>2. push.nlines = n
      BY <1>8, <1>10 DEF n
    <3>3. Accepted(t, j)' = n /\ Accepted(t, j) = n
      BY <1>1, <1>2, <1>4, <1>5, <1>7, <1>10, <3>1, <3>2
    <3> QED  BY <1>3, <1>7, <3>3
  <2>2. CASE ~Ends(e, f)
    <3>1. e.st # "FIN" /\ cmd'[t] = cmd[t]
      BY <1>1, <2>2 DEF Waits, Starts, Fetches, Sends
    <3>2. Accepted(t, j)' = IF f.st # "IDLE" THEN f.sent ELSE 0
      BY <1>2, <1>4, <1>7, <1>10, <3>1
    <3>3. Accepted(t, j) = IF e.st # "IDLE" THEN e.sent ELSE 0
      BY <1>2, <1>5, <1>7, <1>10
    <3>4. f.st # "IDLE" /\ k < f.sent /\ k \in Nat
      BY <1>7, <3>2
    <3>5. e.st # "IDLE" => e.sent < Extent(program[t][j])
      BY <1>6, <1>8, <1>10, <3>1 DEF Working
    <3>6. CASE Waits(e, f) \/ Fetches(e, f, rdata0[t])
      <4>1. f.sent = e.sent /\ e.st # "IDLE"
        BY <3>4, <3>6 DEF Waits, Fetches, Keeps
      <4> QED  BY <1>3, <1>7, <3>3, <3>4, <3>5, <4>1
    <3>7. CASE Starts(e, f, push)
      <4>1. f.sent = 0
        BY <3>7 DEF Starts
      <4> QED  BY <3>4, <4>1
    <3>8. CASE Sends(e, f, push) /\ inj_ready(Requests, t, "REQ")
      <4>1. e.st = "SEND"
        BY <3>8 DEF Sends
      <4>2. f.sent = e.sent + 1 \/ f.sent = 0
        <5>1. f.sent = (e.sent + 1) % CntMod
          BY <3>8 DEF Sends
        <5>2. CASE e.sent + 1 < CntMod
          BY <1>7, <5>1, <5>2
        <5>3. CASE e.sent + 1 = CntMod
          BY <1>7, <5>1, <5>3
        <5> QED  BY <1>7, <5>2, <5>3
      <4>3. k <= e.sent
        BY <1>7, <3>4, <4>2
      <4>4. k \in 0 .. Extent(program[t][j]) - 1 /\ (k = e.sent \/ k \in 0 .. e.sent - 1)
        BY <1>3, <1>7, <3>4, <3>5, <4>1, <4>3
      <4>5. Accepted(t, j) = e.sent
        BY <3>3, <4>1
      <4> QED  BY <1>10, <3>8, <4>1, <4>4, <4>5 DEF e
    <3> QED  BY <1>1, <2>2, <3>6, <3>7, <3>8
  <2> QED  BY <2>1, <2>2
<1>11. CASE j > cmd[t]
  <2>1. CASE e.st = "FIN"
    <3>1. f.st = "IDLE"
      BY <1>1, <2>1 DEF Waits, Starts, Fetches, Sends, Ends
    <3>2. Accepted(t, j)' = 0
      BY <1>1, <1>2, <1>4, <1>7, <1>11, <2>1, <3>1
    <3> QED  BY <3>2
  <2>2. CASE e.st # "FIN"
    <3>1. Accepted(t, j)' = 0
      BY <1>1, <1>2, <1>4, <1>7, <1>11, <2>2
    <3> QED  BY <3>1
  <2> QED  BY <2>1, <2>2
<1> QED  BY <1>2, <1>7, <1>9, <1>10, <1>11

\* A line in the ring stays there, lands, or comes counter-clockwise to a tile
\* that gets one clockwise.
LEMMA RingToSram ==
  ASSUME SysTypes, WordsInRing, NEW start, SysCycle(start),
         NEW t \in Tiles, NEW j \in 1 .. Len(program[t]),
         NEW k \in 0 .. Extent(program[t][j]) - 1, InRing(t, program[t][j], k)
  PROVE  \/ \E r \in Ports : br'[r] = Word(t, program[t][j], k)
         \/ sram'[program[t][j].dst_tile][Dst(program[t][j], k)] = Name(t, Src(program[t][j], k))
         \/ /\ Goes(t, program[t][j], 1) /\ Collides(program[t][j].dst_tile)
            /\ eject(program[t][j].dst_tile, 1) = Word(t, program[t][j], k)
<1> DEFINE push == program[t][j]
           at == push.dst_tile
           w == Word(t, push, k)
<1>1. Edge(Requests) /\ \A u \in Tiles : sram'[u] = Written(u)
  BY DEF SysCycle
<1>2. PICK r \in Ports : /\ br[r].valid /\ br[r].src = t /\ br[r].dst = at
                         /\ br[r].addr = Dst(push, k) /\ br[r].payload = Name(t, Src(push, k))
  BY DEF InRing
<1>3. br[r] = w /\ r[2] = ring_dir(t, at)
  <2>1. \E u \in Tiles : \E i \in 1 .. Len(program[u]) :
          \E m \in 0 .. Extent(program[u][i]) - 1 :
            br[r] = Word(u, program[u][i], m) /\ r[2] = ring_dir(u, program[u][i].dst_tile)
    BY <1>2 DEF WordsInRing
  <2>2. PICK u, x, m : br[r] = Word(u, x, m) /\ r[2] = ring_dir(u, x.dst_tile)
    BY <2>1
  <2>3. /\ u = t /\ x.dst_tile = at /\ Dst(x, m) = Dst(push, k)
        /\ Name(u, Src(x, m)) = Name(t, Src(push, k))
    BY <1>2, <2>2 DEF Word
  <2> QED  BY <2>2, <2>3 DEF Word
<1>4. at \in Tiles /\ Dst(push, k) \in Lines
  <2>1. at \in Tiles /\ push \in Push /\ Extent(push) \in 1 .. CntMod
    BY PushParts DEF SysTypes
  <2>2. k \in Nat
    BY <2>1, SystemAssumption
  <2> QED  BY <2>1, <2>2, LineParts
<1>5. CASE br'[r] = br[r]
  BY <1>3, <1>5
<1>6. CASE br'[After(r)] = br[r]
  BY <1>3, <1>6, Along
<1>7. CASE Ejected(r[1], r[2], r[3])
  <2>1. r[1] = at
    BY <1>2, <1>7, PortParts DEF Ejected, Here
  <2>2. eject(at, r[2]) = br[r] /\ eject(at, r[2]).valid /\ (r[2] = 0 \/ r[2] = 1)
    BY <1>4, <1>7, <2>1, Heard, PortParts DEF Dirs
  <2>3. CASE ing(at) = br[r]
    <3>1. sram'[at] = [sram[at] EXCEPT ![Dst(push, k)] = Name(t, Src(push, k))]
      <4>1. /\ sram'[at] = Written(at) /\ ing(at).valid
            /\ ing(at).addr = Dst(push, k) /\ ing(at).payload = Name(t, Src(push, k))
        BY <1>1, <1>2, <1>4, <2>3
      <4> HIDE DEF at, push
      <4> QED  BY <4>1 DEF Written
    <3>2. sram[at] \in [Lines -> Content]
      BY <1>4 DEF SysTypes
    <3>3. sram'[at][Dst(push, k)] = Name(t, Src(push, k))
      <4> HIDE DEF at, push
      <4> QED  BY <1>4, <3>1, <3>2
    <3> QED  BY <3>3
  <2>4. CASE ing(at) # br[r]
    <3>1. r[2] = 1 /\ eject(at, 0).valid /\ eject(at, 1).valid /\ eject(at, 1) = w
      BY <1>3, <2>2, <2>4 DEF ing
    <3> QED  BY <1>3, <3>1 DEF Goes, Collides
  <2> QED  BY <2>3, <2>4
<1> QED  BY <1>1, <1>2, <1>5, <1>6, <1>7, Destinations

\* When both routers of a tile eject, the line that came clockwise is in its
\* place after the edge, and the history has the pair.
LEMMA ClockwiseLands ==
  ASSUME SysTypes, WordsInRing, NEW start, SysCycle(start), NEW t \in Tiles, Collides(t)
  PROVE  \E u \in Tiles : \E i \in 1 .. Len(program[u]) :
           \E m \in 0 .. Extent(program[u][i]) - 1 :
             /\ program[u][i].dst_tile = t /\ Goes(u, program[u][i], 0)
             /\ <<eject(t, 1), Word(u, program[u][i], m)>> \in overruled'
             /\ sram'[t][Dst(program[u][i], m)] = Name(u, Src(program[u][i], m))
<1> DEFINE r == <<t, 0, "REQ">>
           f == eject(t, 0)
<1>1. r \in Ports /\ br[r] = f /\ f.valid /\ f.dst = t /\ ing(t) = f /\ r[2] = 0
  BY Heard DEF Collides, Dirs, ing
<1>2. PICK u \in Tiles : \E i \in 1 .. Len(program[u]) :
        \E m \in 0 .. Extent(program[u][i]) - 1 :
          f = Word(u, program[u][i], m) /\ 0 = ring_dir(u, program[u][i].dst_tile)
  <2> HIDE DEF r, f
  <2> QED  BY <1>1 DEF WordsInRing
<1>3. PICK i \in 1 .. Len(program[u]) :
        \E m \in 0 .. Extent(program[u][i]) - 1 :
          f = Word(u, program[u][i], m) /\ 0 = ring_dir(u, program[u][i].dst_tile)
  BY <1>2
<1>4. PICK m \in 0 .. Extent(program[u][i]) - 1 :
        f = Word(u, program[u][i], m) /\ 0 = ring_dir(u, program[u][i].dst_tile)
  BY <1>3
<1> DEFINE other == program[u][i]
<1>5. other.dst_tile = t /\ Goes(u, other, 0)
  <2>1. f.dst = other.dst_tile
    BY <1>4 DEF Word
  <2> QED  BY <1>1, <1>4, <2>1 DEF Goes
<1>6. <<eject(t, 1), Word(u, other, m)>> \in overruled'
  BY <1>4 DEF SysCycle
<1>7. sram'[t][Dst(other, m)] = Name(u, Src(other, m))
  <2>1. Dst(other, m) \in Lines
    <3>1. Extent(other) \in 1 .. CntMod /\ other \in Push
      BY PushParts DEF SysTypes
    <3>2. m \in Nat
      BY <3>1, SystemAssumption
    <3> QED  BY <3>1, <3>2, LineParts
  <2>2. f.addr = Dst(other, m) /\ f.payload = Name(u, Src(other, m))
    BY <1>4 DEF Word
  <2>3. sram'[t] = [sram[t] EXCEPT ![Dst(other, m)] = Name(u, Src(other, m))]
    <3>1. sram'[t] = Written(t) /\ ing(t).valid
      BY <1>1 DEF SysCycle
    <3> HIDE DEF f, other
    <3> QED  BY <1>1, <2>2, <3>1 DEF Written
  <2>4. sram[t] \in [Lines -> Content]
    BY DEF SysTypes
  <2> HIDE DEF other
  <2> QED  BY <2>1, <2>3, <2>4
<1> QED  BY <1>5, <1>6, <1>7

\* A line that was overruled stays so: the history keeps the pair, and the
\* line that was written is not written over.
LEMMA OverruledStays ==
  ASSUME SysTypes, WordsInRing, Apart(program), NEW start, SysCycle(start),
         NEW t, NEW push, NEW k, Overruled(t, push, k)
  PROVE  Overruled(t, push, k)'
<1>1. PICK u \in Tiles : \E i \in 1 .. Len(program[u]) :
        \E m \in 0 .. Extent(program[u][i]) - 1 :
          /\ program[u][i].dst_tile = push.dst_tile /\ Goes(u, program[u][i], 0)
          /\ <<Word(t, push, k), Word(u, program[u][i], m)>> \in overruled
          /\ Landed(u, program[u][i], m)
  BY DEF Overruled
<1>2. PICK i \in 1 .. Len(program[u]) : \E m \in 0 .. Extent(program[u][i]) - 1 :
        /\ program[u][i].dst_tile = push.dst_tile /\ Goes(u, program[u][i], 0)
        /\ <<Word(t, push, k), Word(u, program[u][i], m)>> \in overruled
        /\ Landed(u, program[u][i], m)
  BY <1>1
<1>3. PICK m \in 0 .. Extent(program[u][i]) - 1 :
        /\ program[u][i].dst_tile = push.dst_tile /\ Goes(u, program[u][i], 0)
        /\ <<Word(t, push, k), Word(u, program[u][i], m)>> \in overruled
        /\ Landed(u, program[u][i], m)
  BY <1>2
<1>4. Landed(u, program[u][i], m)'
  BY <1>3, LandedStays DEF Landed, SysCycle
<1>5. overruled \subseteq overruled' /\ program' = program
  BY DEF SysCycle
<1> QED  BY <1>3, <1>4, <1>5 DEF Overruled

\* Every cycle leaves each sent line in the ring, where it was sent, or
\* overruled.
LEMMA CollisionsStay ==
  ASSUME SysInv, Apart(program), NEW start,
         start \subseteq {t \in Tiles : CanStart(t)}, SysCycle(start)
  PROVE  LostOnlyInCollisions'
<1>0. program' = program /\ Edge(Requests)
  BY DEF SysCycle
<1>1. \A t, push, k : (\E r \in Ports : br'[r] = Word(t, push, k)) => InRing(t, push, k)'
  BY DEF InRing, Word
<1>2. \A t, push, k :
        Landed(t, push, k)' <=> sram'[push.dst_tile][Dst(push, k)] = Name(t, Src(push, k))
  BY DEF Landed
<1> SUFFICES ASSUME NEW t \in Tiles, NEW j \in 1 .. Len(program[t]),
                    NEW k \in 0 .. Accepted(t, j)' - 1
             PROVE  (InRing(t, program[t][j], k) \/ Landed(t, program[t][j], k)
                      \/ Overruled(t, program[t][j], k))'
  BY <1>0 DEF LostOnlyInCollisions
<1>p. PICK push : push = program[t][j]
  OBVIOUS
<1> SUFFICES InRing(t, push, k)' \/ Landed(t, push, k)' \/ Overruled(t, push, k)'
  BY <1>0, <1>p DEF InRing, Landed, Overruled
<1> SUFFICES \/ \E r \in Ports : br'[r] = Word(t, push, k)
             \/ sram'[push.dst_tile][Dst(push, k)] = Name(t, Src(push, k))
             \/ Overruled(t, push, k)'
  BY <1>1, <1>2
<1>3. /\ k \in 0 .. Extent(program[t][j]) - 1
      /\ \/ k \in 0 .. Accepted(t, j) - 1
         \/ /\ j = cmd[t] /\ k = dma[t].sent /\ dma[t].st = "SEND"
            /\ inj_ready(Requests, t, "REQ")
  BY NewlySent DEF SysInv
<1>4. CASE k \in 0 .. Accepted(t, j) - 1
  <2>1. InRing(t, push, k) \/ Landed(t, push, k) \/ Overruled(t, push, k)
    BY <1>p, <1>4 DEF SysInv, LostOnlyInCollisions
  <2>2. CASE InRing(t, push, k)
    <3>1. SUFFICES ASSUME /\ Goes(t, push, 1) /\ Collides(push.dst_tile)
                          /\ eject(push.dst_tile, 1) = Word(t, push, k)
                   PROVE  Overruled(t, push, k)'
      BY <1>p, <1>3, <2>2, RingToSram DEF SysInv
    <3>2. push.dst_tile \in Tiles
      BY <1>p, PushParts DEF SysInv, SysTypes
    <3>3. PICK u \in Tiles : \E i \in 1 .. Len(program[u]) :
            \E m \in 0 .. Extent(program[u][i]) - 1 :
              /\ program[u][i].dst_tile = push.dst_tile /\ Goes(u, program[u][i], 0)
              /\ <<Word(t, push, k), Word(u, program[u][i], m)>> \in overruled'
              /\ sram'[push.dst_tile][Dst(program[u][i], m)] = Name(u, Src(program[u][i], m))
      BY <3>1, <3>2, ClockwiseLands DEF SysInv
    <3>4. \E i \in 1 .. Len(program'[u]) :
            \E m \in 0 .. Extent(program'[u][i]) - 1 :
              /\ program'[u][i].dst_tile = push.dst_tile /\ Goes(u, program'[u][i], 0)
              /\ <<Word(t, push, k), Word(u, program'[u][i], m)>> \in overruled'
              /\ sram'[program'[u][i].dst_tile][Dst(program'[u][i], m)]
                   = Name(u, Src(program'[u][i], m))
      BY <1>0, <3>3
    <3> QED  BY <3>1, <3>4 DEF Overruled, Landed
  <2>3. CASE Landed(t, push, k)
    BY <1>p, <1>3, <2>3, LandedStays DEF SysInv
  <2>4. CASE Overruled(t, push, k)
    BY <2>4, OverruledStays DEF SysInv
  <2> QED  BY <2>1, <2>2, <2>3, <2>4
<1>5. CASE /\ j = cmd[t] /\ k = dma[t].sent /\ dma[t].st = "SEND"
           /\ inj_ready(Requests, t, "REQ")
  <2>1. PICK d \in Dirs : Taken(Requests, t, d, "REQ")
    BY <1>5 DEF inj_ready
  <2>2. "REQ" \in VCs
    BY DEF VCs
  <2>3. /\ Requests[<<t, "REQ">>].valid
        /\ <<Downstream(t, d), d, "REQ">> \in Ports
        /\ br'[<<Downstream(t, d), d, "REQ">>] = Requests[<<t, "REQ">>]
    BY <1>0, <2>1, <2>2, Loads
  <2>4. Requests[<<t, "REQ">>] = Word(t, Command(t), dma[t].sent)
    BY <2>2, <2>3, Offers DEF SysInv
  <2> QED  BY <1>p, <1>5, <2>3, <2>4 DEF Command
<1> QED  BY <1>3, <1>4, <1>5

\* The registers keep their types.
LEMMA SysTypesStay ==
  ASSUME SysTypes, Engines, WordsInRing, NEW start,
         start \subseteq {t \in Tiles : CanStart(t)}, SysCycle(start)
  PROVE  SysTypes'
<1>1. program' \in Programs /\ program' = program
  BY DEF SysTypes, SysCycle
<1>2. dma' \in [Tiles -> Registers]
  <2>1. \A t \in Tiles : dma'[t] \in Registers
    BY FsmSteps
  <2>2. dma' = [t \in Tiles |-> dma'[t]]
    BY DEF SysCycle
  <2> QED  BY <2>1, <2>2
<1>3. ASSUME NEW t \in Tiles PROVE cmd'[t] \in Nat \ {0} /\ cmd'[t] <= Len(program[t]) + 1
  <2>1. /\ cmd[t] \in Nat \ {0} /\ cmd[t] <= Len(program[t]) + 1
        /\ cmd'[t] = IF dma[t].st = "FIN" THEN cmd[t] + 1 ELSE cmd[t]
        /\ dma[t].st = "FIN" => cmd[t] \in 1 .. Len(program[t])
    BY FsmSteps DEF SysTypes
  <2>2. Len(program[t]) \in Nat
    <3>1. program[t] \in Seq(Push)
      BY SystemAssumption DEF SysTypes
    <3> QED  BY <3>1
  <2> QED  BY <2>1, <2>2
<1>4. cmd' \in [Tiles -> Nat \ {0}]
  BY <1>3 DEF SysCycle
<1>5. rdata0' \in [Tiles -> Content]
  <2>1. \A t \in Tiles : sram[t][dma[t].cur_line] \in Content
    BY DEF SysTypes, Registers
  <2> QED  BY <2>1 DEF SysCycle
<1>6. sram' \in [Tiles -> [Lines -> Content]]
  BY Writes DEF SysCycle
<1> QED  BY <1>1, <1>2, <1>3, <1>4, <1>5, <1>6 DEF SysTypes

-----------------------------------------------------------------------------
\* SysInv holds in every reachable state when no line is written twice, or
\* both sent and written.
THEOREM SysInductive ==
  ASSUME \A p \in Programs : Apart(p)
  PROVE  SysSpec => []SysInv
<1>1. SysInit => SysInv
  <2> SUFFICES ASSUME SysInit PROVE SysInv
    OBVIOUS
  <2>1. 0 \in Lines /\ 0 \in 0 .. CntMod - 1 /\ 0 \in 0 .. SetupCnt
    BY SystemAssumption DEF Lines, SetupCnt
  <2>2. \A t \in Tiles, l \in Lines : Name(t, l) \in Content
    BY DEF Name, Content
  <2>3. program \in Programs /\ \A t \in Tiles : Len(program[t]) \in Nat
    <3>1. program \in [Tiles -> Seq(Push)]
      BY SystemAssumption DEF SysInit
    <3> QED  BY <3>1 DEF SysInit
  <2>4. \A t \in Tiles : dma[t].st = "IDLE" /\ cmd[t] = 1
    BY DEF SysInit
  <2>5. dma \in [Tiles -> Registers]
    BY <2>1, <2>2 DEF SysInit, Registers, States
  <2>6. SysTypes
    <3>1. /\ cmd \in [Tiles -> Nat \ {0}] /\ rdata0 \in [Tiles -> Content]
          /\ sram \in [Tiles -> [Lines -> Content]]
      BY <2>1, <2>2 DEF SysInit
    <3>2. \A t \in Tiles : cmd[t] <= Len(program[t]) + 1
      BY <2>3, <2>4
    <3> QED  BY <2>3, <2>5, <3>1, <3>2 DEF SysTypes
  <2>7. Engines /\ WordsInRing
    BY <2>4 DEF Engines, WordsInRing, SysInit, Init_br, NoFlit
  <2>8. SourcesKept
    <3> SUFFICES ASSUME NEW t \in Tiles, NEW j \in 1 .. Len(program[t]),
                        NEW k \in 0 .. Extent(program[t][j]) - 1
                 PROVE  sram[t][Src(program[t][j], k)] = Name(t, Src(program[t][j], k))
      BY DEF SourcesKept
    <3>1. program[t][j] \in Push /\ Extent(program[t][j]) \in 1 .. CntMod
      BY <2>3, PushParts
    <3>2. Src(program[t][j], k) \in Lines
      <4>1. k \in Nat
        BY <3>1, SystemAssumption
      <4> QED  BY <3>1, <4>1, LineParts
    <3> QED  BY <3>2 DEF SysInit
  <2>9. LostOnlyInCollisions
    <3>1. \A t \in Tiles : \A j \in 1 .. Len(program[t]) : Accepted(t, j) = 0
      BY <2>3, <2>4 DEF Accepted
    <3> QED  BY <3>1 DEF LostOnlyInCollisions
  <2> QED  BY <2>6, <2>7, <2>8, <2>9 DEF SysInv
<1>2. SysInv /\ [SysClock]_sys_vars => SysInv'
  <2> SUFFICES ASSUME SysInv, [SysClock]_sys_vars PROVE SysInv'
    OBVIOUS
  <2>1. Apart(program)
    BY DEF SysInv, SysTypes
  <2>2. ASSUME NEW start \in SUBSET {t \in Tiles : CanStart(t)}, SysCycle(start) PROVE SysInv'
    <3>1. SysTypes' /\ Engines'
      BY <2>1, <2>2, SysTypesStay, EnginesStay DEF SysInv
    <3>2. WordsInRing' /\ SourcesKept'
      BY <2>1, <2>2, WordsStay, SourcesStay DEF SysInv
    <3>3. LostOnlyInCollisions'
      BY <2>1, <2>2, CollisionsStay
    <3> QED  BY <3>1, <3>2, <3>3 DEF SysInv
  <2>3. CASE UNCHANGED sys_vars
    <3>1. SysTypes' /\ WordsInRing' /\ SourcesKept'
      BY <2>3 DEF sys_vars, SysInv, SysTypes, WordsInRing, SourcesKept
    <3>2. Engines'
      BY <2>3 DEF sys_vars, SysInv, Engines, Command
    <3>3. LostOnlyInCollisions'
      <4>1. \A t, push, k : /\ InRing(t, push, k)' <=> InRing(t, push, k)
                            /\ Landed(t, push, k)' <=> Landed(t, push, k)
        BY <2>3 DEF sys_vars, InRing, Landed
      <4>2. \A t, push, k : Overruled(t, push, k)' <=> Overruled(t, push, k)
        BY <2>3, <4>1 DEF sys_vars, Overruled
      <4>3. program' = program /\ \A t, j : Accepted(t, j)' = Accepted(t, j)
        BY <2>3 DEF sys_vars, Accepted
      <4> QED  BY <4>1, <4>2, <4>3 DEF SysInv, LostOnlyInCollisions
    <3> QED  BY <3>1, <3>2, <3>3 DEF SysInv
  <2> QED  BY <2>2, <2>3 DEF SysClock
<1> QED  BY <1>1, <1>2, PTL DEF SysSpec

\* Whoever pushes to whom and from which sides: every line that an engine has
\* sent is in the ring or in the SRAM it was sent to, with the content of its
\* source, or it met a line that came clockwise to the same tile in the same
\* cycle, and that one is in its place (the ingress of tile_node.sv).
THEOREM LinesArriveWhole ==
  ASSUME \A p \in Programs : Apart(p)
  PROVE  SysSpec => []LostOnlyInCollisions
<1>1. SysInv => LostOnlyInCollisions
  BY DEF SysInv
<1> QED  BY <1>1, SysInductive, PTL
=============================================================================
