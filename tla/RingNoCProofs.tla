---------------------------- MODULE RingNoCProofs ---------------------------
(***************************************************************************)
(* For every number of tiles, every depth of the queues and every          *)
(* schedule: the ring cannot fill up with flits that wait for one another, *)
(* as long as an input buffer holds more flits than a hop takes cycles; no *)
(* request and no answer is lost or doubled; and the requests of one tile  *)
(* to another are consumed in the order they were sent in.                 *)
(***************************************************************************)
EXTENDS RingNoC, FiniteSetTheorems, TLAPS

USE RingAssumption, DepthAssumption

\* The neighbour of a node is another node ...
LEMMA NeighbourType ==
  ASSUME NEW n \in Tiles, NEW d \in Dirs
  PROVE  Neighbour(n, d) \in Tiles /\ Neighbour(n, d) # n
  BY DEF Neighbour, Tiles, Dirs

\* ... and of that node only.
LEMMA NeighbourInjective ==
  ASSUME NEW n \in Tiles, NEW m \in Tiles, NEW d \in Dirs,
         Neighbour(n, d) = Neighbour(m, d)
  PROVE  n = m
  BY DEF Neighbour, Tiles, Dirs

\* A route has one of the two directions.
LEMMA DirectionType ==
  ASSUME NEW from, NEW to
  PROVE  ring_direction(from, to) \in Dirs
  BY DEF ring_direction, Dirs

-----------------------------------------------------------------------------
(* Facts about queues of flits.                                            *)

\* The fields of a flit.
LEMMA FlitFacts ==
  ASSUME NEW f \in Flit
  PROVE  /\ f.wait \in 0 .. HopLatency /\ f.ring_dest \in Tiles
         /\ f.id \in Tiles \X (Nat \ {0})
  BY DEF Flit

\* Only the waiting time changes.
LEMMA FlitUpdate ==
  ASSUME NEW f \in Flit, NEW w \in 0 .. HopLatency
  PROVE  /\ [f EXCEPT !.wait = w] \in Flit
         /\ [f EXCEPT !.wait = w].wait = w
         /\ [f EXCEPT !.wait = w].ring_dest = f.ring_dest
  BY DEF Flit

\* The heads and tails of queues of flits ...
LEMMA QueueFacts ==
  ASSUME NEW q \in Seq(Flit)
  PROVE  /\ Len(q) \in Nat
         /\ \A i \in DOMAIN q : q[i] \in Flit
         /\ q # <<>> => /\ Len(q) > 0 /\ Head(q) = q[1] /\ Head(q) \in Flit
                        /\ Tail(q) \in Seq(Flit) /\ Len(Tail(q)) = Len(q) - 1
                        /\ \A i \in 1 .. Len(q) - 1 : Tail(q)[i] = q[i + 1]
  OBVIOUS

\* ... and their growth.
LEMMA AppendFacts ==
  ASSUME NEW q \in Seq(Flit), NEW f \in Flit
  PROVE  /\ Append(q, f) \in Seq(Flit) /\ Len(Append(q, f)) = Len(q) + 1
         /\ \A i \in 1 .. Len(q) : Append(q, f)[i] = q[i]
         /\ Append(q, f)[Len(q) + 1] = f
  OBVIOUS

\* A cycle passes: waiting times go down, the order stays.
LEMMA ElapseFacts ==
  ASSUME NEW q \in Seq(Flit)
  PROVE  /\ Elapse(q) \in Seq(Flit) /\ Len(Elapse(q)) = Len(q)
         /\ \A i \in 1 .. Len(q) :
              /\ Elapse(q)[i].wait = IF q[i].wait = 0 THEN 0 ELSE q[i].wait - 1
              /\ Elapse(q)[i].ring_dest = q[i].ring_dest
<1> DEFINE w(i) == IF q[i].wait = 0 THEN 0 ELSE q[i].wait - 1
           g(i) == [q[i] EXCEPT !.wait = w(i)]
<1>1. ASSUME NEW i \in 1 .. Len(q)
      PROVE  g(i) \in Flit /\ g(i).wait = w(i) /\ g(i).ring_dest = q[i].ring_dest
  <2>1. q[i] \in Flit
    BY QueueFacts
  <2>2. w(i) \in 0 .. HopLatency
    BY <2>1, FlitFacts
  <2> HIDE DEF w
  <2> QED  BY <2>1, <2>2, FlitUpdate
<1>2. Elapse(q) = [i \in 1 .. Len(q) |-> g(i)]
  BY DEF Elapse
<1> HIDE DEF w, g
<1>3. Elapse(q) \in Seq(Flit) /\ Len(Elapse(q)) = Len(q)
  <2>1. Elapse(q) \in [1 .. Len(q) -> Flit]
    BY <1>1, <1>2
  <2> QED  BY <2>1
<1>4. ASSUME NEW i \in 1 .. Len(q)
      PROVE  /\ Elapse(q)[i].wait = w(i)
             /\ Elapse(q)[i].ring_dest = q[i].ring_dest
  BY <1>1, <1>2
<1> USE DEF w
<1> QED  BY <1>3, <1>4

\* The visible flits are counted within the queue.
LEMMA VisibleBounds ==
  ASSUME NEW q \in Seq(Flit)
  PROVE  Visible(q) \in 0 .. Len(q)
<1> DEFINE seen == {i \in DOMAIN q : q[i].wait = 0}
<1>1. /\ IsFiniteSet(1 .. Len(q))
      /\ Cardinality(1 .. Len(q)) = Len(q)
  <2>1. Len(q) \in Nat
    OBVIOUS
  <2> QED  BY <2>1, FS_Interval
<1>2. seen \subseteq 1 .. Len(q)
  OBVIOUS
<1>3. /\ IsFiniteSet(seen)
      /\ Cardinality(seen) <= Cardinality(1 .. Len(q))
  BY <1>1, <1>2, FS_Subset
<1>4. Cardinality(seen) \in Nat
  BY <1>3, FS_CardinalityType
<1> QED  BY <1>1, <1>3, <1>4 DEF Visible

\* Flits that have been on their way for a cycle, without the first.
LEMMA TailBelow ==
  ASSUME NEW q \in Seq(Flit), q # <<>>, \A i \in DOMAIN q : q[i].wait < HopLatency
  PROVE  \A i \in DOMAIN Tail(q) : Tail(q)[i].wait < HopLatency
<1> SUFFICES ASSUME NEW i \in DOMAIN Tail(q) PROVE Tail(q)[i].wait < HopLatency
  OBVIOUS
<1>1. i \in 1 .. Len(q) - 1 /\ Tail(q)[i] = q[i + 1] /\ i + 1 \in DOMAIN q
  BY QueueFacts
<1> QED  BY <1>1

\* Taking the oldest flit keeps the spacing, letting time pass too.
LEMMA TailSpaced ==
  ASSUME NEW q \in Seq(Flit), q # <<>>, Spaced(q)
  PROVE  Spaced(Tail(q))
<1> DEFINE r == Tail(q)
<1> SUFFICES ASSUME NEW i \in DOMAIN r, NEW j \in DOMAIN r, i <= j, r[i].wait > 0
             PROVE  r[j].wait >= r[i].wait + (j - i)
  BY DEF Spaced
<1>1. /\ i \in 1 .. Len(q) - 1 /\ j \in 1 .. Len(q) - 1
      /\ r[i] = q[i + 1] /\ r[j] = q[j + 1]
  BY QueueFacts
<1>2. i + 1 \in DOMAIN q /\ j + 1 \in DOMAIN q
  BY <1>1
<1>3. q[j + 1].wait >= q[i + 1].wait + ((j + 1) - (i + 1))
  BY <1>1, <1>2 DEF Spaced
<1> QED  BY <1>1, <1>2, <1>3, QueueFacts, FlitFacts

\* Flits that came one a cycle stay apart when a cycle passes.
LEMMA ElapseSpaced ==
  ASSUME NEW q \in Seq(Flit), Spaced(q)
  PROVE  Spaced(Elapse(q))
<1> DEFINE r == Elapse(q)
<1> SUFFICES ASSUME NEW i \in DOMAIN r, NEW j \in DOMAIN r, i <= j, r[i].wait > 0
             PROVE  r[j].wait >= r[i].wait + (j - i)
  BY DEF Spaced
<1>1. i \in 1 .. Len(q) /\ j \in 1 .. Len(q)
  BY ElapseFacts
<1>2. q[i].wait \in 0 .. HopLatency /\ q[j].wait \in 0 .. HopLatency
  BY <1>1, QueueFacts, FlitFacts
<1>3. q[i].wait > 0 /\ r[i].wait = q[i].wait - 1
  BY <1>1, <1>2, ElapseFacts
<1>4. q[j].wait >= q[i].wait + (j - i)
  BY <1>1, <1>3 DEF Spaced
<1>5. r[j].wait = q[j].wait - 1
  <2>1. q[j].wait > 0
    <3>1. i \in Int /\ j \in Int
      BY <1>1
    <3> HIDE DEF r
    <3> QED  BY <1>2, <1>3, <1>4, <3>1
  <2>2. r[j].wait = IF q[j].wait = 0 THEN 0 ELSE q[j].wait - 1
    BY <1>1, ElapseFacts
  <2> QED  BY <1>2, <2>1, <2>2
<1> QED  BY SMTT(20), <1>1, <1>2, <1>3, <1>4, <1>5

\* A flit that has just been given to the link comes last.
LEMMA AppendSpaced ==
  ASSUME NEW q \in Seq(Flit), Spaced(q), NEW f \in Flit, f.wait = HopLatency,
         \A i \in DOMAIN q : q[i].wait < HopLatency
  PROVE  Spaced(Append(q, f))
<1> DEFINE r == Append(q, f)
<1> SUFFICES ASSUME NEW i \in DOMAIN r, NEW j \in DOMAIN r, i <= j, r[i].wait > 0
             PROVE  r[j].wait >= r[i].wait + (j - i)
  BY DEF Spaced
<1>1. i \in 1 .. Len(q) + 1 /\ j \in 1 .. Len(q) + 1 /\ Len(q) \in Nat
  BY AppendFacts
<1>2. CASE j <= Len(q)
  <2>1. i \in DOMAIN q /\ j \in DOMAIN q /\ r[i] = q[i] /\ r[j] = q[j]
    BY <1>1, <1>2, AppendFacts
  <2> QED  BY <2>1 DEF Spaced
<1>3. CASE j = Len(q) + 1 /\ i = j
  <2>1. r[i] = f /\ r[j] = f
    BY <1>3, AppendFacts
  <2> QED  BY <1>1, <1>3, <2>1
<1>4. CASE j = Len(q) + 1 /\ i <= Len(q)
  <2> DEFINE l == Len(q)
  <2>1. i \in DOMAIN q /\ l \in DOMAIN q /\ i <= l
    BY <1>1, <1>4
  <2>2. r[i] = q[i] /\ r[j] = f
    BY <1>1, <1>4, AppendFacts
  <2>3. q[l].wait >= q[i].wait + (l - i)
    BY <2>1, <2>2 DEF Spaced
  <2>4. q[l].wait < HopLatency
    BY <2>1
  <2>5. q[l].wait \in 0 .. HopLatency /\ q[i].wait \in 0 .. HopLatency
    BY <2>1, QueueFacts, FlitFacts
  <2> QED  BY SMTT(20), <1>1, <1>4, <2>2, <2>3, <2>4, <2>5
<1> QED  BY <1>1, <1>2, <1>3, <1>4

\* If the oldest flit is still travelling, so are all, and there are at most
\* as many as a hop takes cycles.
LEMMA TravellingAreFew ==
  ASSUME NEW q \in Seq(Flit), Spaced(q), q # <<>>, Head(q).wait # 0
  PROVE  Len(q) < BufferDepth
<1> DEFINE l == Len(q)
<1>1. 1 \in DOMAIN q /\ l \in DOMAIN q /\ 1 <= l /\ l \in Nat /\ Head(q) = q[1]
  BY QueueFacts
<1>2. q[1].wait \in 0 .. HopLatency /\ q[l].wait \in 0 .. HopLatency
  BY <1>1, QueueFacts, FlitFacts
<1>3. q[l].wait >= q[1].wait + (l - 1)
  BY <1>1, <1>2 DEF Spaced
<1> QED  BY <1>1, <1>2, <1>3

-----------------------------------------------------------------------------
(* What a node's turn does to the input buffers of one virtual channel.    *)

\* What ejection leaves in a buffer: all of it, or all but the head.
LEMMA KeptFacts ==
  ASSUME TypeOK, NEW n \in Tiles, NEW d \in Dirs, NEW v \in VCs
  PROVE  /\ Kept(n, d, v) \in Seq(Flit)
         /\ \/ ~Ejects(n, d, v) /\ Kept(n, d, v) = ring_in[<<n, d, v>>]
            \/ /\ ring_in[<<n, d, v>>] # <<>>
               /\ Kept(n, d, v) = Tail(ring_in[<<n, d, v>>])
<1>1. ring_in[<<n, d, v>>] \in Seq(Flit)
  BY DEF TypeOK, Ports
<1>2. CASE Ejects(n, d, v)
  <2>1. ring_in[<<n, d, v>>] # <<>>
    BY <1>2 DEF Ejects, Ready
  <2> QED  BY <1>1, <1>2, <2>1 DEF Kept
<1>3. CASE ~Ejects(n, d, v)
  BY <1>1, <1>3 DEF Kept
<1> QED  BY <1>2, <1>3

\* What ejection leaves in all buffers.
LEMMA RestFacts ==
  ASSUME TypeOK, NEW n \in Tiles, NEW d \in Dirs
  PROVE  /\ Rest(n, d) \in [Ports -> Seq(Flit)]
         /\ \A v \in VCs : Rest(n, d)[<<n, d, v>>] = Kept(n, d, v)
         /\ \A m \in Tiles, e \in Dirs, v \in VCs :
              m # n \/ e # d => Rest(n, d)[<<m, e, v>>] = ring_in[<<m, e, v>>]
<1>1. /\ Kept(n, d, "REQ") \in Seq(Flit) /\ Kept(n, d, "RESP") \in Seq(Flit)
      /\ ring_in \in [Ports -> Seq(Flit)]
  BY KeptFacts DEF TypeOK, VCs
<1>2. <<n, d, "REQ">> \in Ports /\ <<n, d, "RESP">> \in Ports
  BY DEF Ports, VCs
<1> DEFINE q == Kept(n, d, "REQ")
           r == Kept(n, d, "RESP")
<1>3. Rest(n, d) = [ring_in EXCEPT ![<<n, d, "REQ">>] = q, ![<<n, d, "RESP">>] = r]
  BY DEF Rest
<1> HIDE DEF q, r
<1>4. Rest(n, d) \in [Ports -> Seq(Flit)]
  BY <1>1, <1>2, <1>3 DEF q, r
<1>5. <<n, d, "REQ">> # <<n, d, "RESP">>
  OBVIOUS
<1>6. Rest(n, d)[<<n, d, "REQ">>] = q /\ Rest(n, d)[<<n, d, "RESP">>] = r
  BY <1>1, <1>2, <1>3, <1>5
<1>7. \A v \in VCs : Rest(n, d)[<<n, d, v>>] = Kept(n, d, v)
  BY <1>6 DEF q, r, VCs
<1>8. ASSUME NEW m \in Tiles, NEW e \in Dirs, NEW v \in VCs, m # n \/ e # d
      PROVE  Rest(n, d)[<<m, e, v>>] = ring_in[<<m, e, v>>]
  <2>1. <<m, e, v>> \in Ports /\ <<m, e, v>> \notin {<<n, d, "REQ">>, <<n, d, "RESP">>}
    BY <1>8 DEF Ports
  <2> QED  BY <1>1, <1>2, <1>3, <2>1
<1> QED  BY <1>4, <1>7, <1>8

\* The flit a node gives to the link, and the state the buffers are in then.
Moves(n, d, v) ==
  LET m == Neighbour(n, d) IN
    \/ /\ ring_in'[<<n, d, v>>] = Kept(n, d, v)
       /\ ring_in'[<<m, d, v>>] = ring_in[<<m, d, v>>]
    \/ /\ Forwards(n, d, v)
       /\ ring_in'[<<n, d, v>>] = Tail(Kept(n, d, v))
       /\ ring_in'[<<m, d, v>>] = Append(ring_in[<<m, d, v>>], Hop(Head(Kept(n, d, v))))
    \/ /\ Enters(n, d, v)
       /\ ring_in'[<<n, d, v>>] = Kept(n, d, v)
       /\ ring_in'[<<m, d, v>>] = Append(ring_in[<<m, d, v>>], Hop(Head(inject[<<n, d, v>>])))

\* A flit on a link.
LEMMA HopFacts ==
  ASSUME NEW f \in Flit
  PROVE  Hop(f) \in Flit /\ Hop(f).wait = HopLatency
<1>1. HopLatency \in 0 .. HopLatency
  OBVIOUS
<1> QED  BY <1>1, FlitUpdate DEF Hop

\* What a node's turn does to its own buffer and its neighbour's.
LEMMA NodeMoves ==
  ASSUME TypeOK, NEW n \in Tiles, NEW d \in Dirs, Node(n, d)
  PROVE  /\ ring_in' \in [Ports -> Seq(Flit)]
         /\ \A v \in VCs : Moves(n, d, v)
         /\ \A m \in Tiles, e \in Dirs, v \in VCs :
              m \notin {n, Neighbour(n, d)} \/ e # d
                => ring_in'[<<m, e, v>>] = ring_in[<<m, e, v>>]
<1> DEFINE m0 == Neighbour(n, d)
<1>0. m0 \in Tiles /\ m0 # n
  BY NeighbourType
<1>1. ASSUME NEW u \in VCs
      PROVE  <<n, d, u>> \in Ports /\ <<m0, d, u>> \in Ports
  BY <1>0 DEF Ports
<1>2. /\ \A m \in Tiles, e \in Dirs, v \in VCs :
           m # n \/ e # d => Rest(n, d)[<<m, e, v>>] = ring_in[<<m, e, v>>]
      /\ \A v \in VCs : Rest(n, d)[<<n, d, v>>] = Kept(n, d, v)
      /\ Rest(n, d) \in [Ports -> Seq(Flit)]
  BY RestFacts
<1>3. ASSUME NEW u \in VCs, Forward(n, d, u)
      PROVE  /\ ring_in' \in [Ports -> Seq(Flit)]
             /\ Forwards(n, d, u)
             /\ ring_in'[<<n, d, u>>] = Tail(Kept(n, d, u))
             /\ ring_in'[<<m0, d, u>>] = Append(ring_in[<<m0, d, u>>], Hop(Head(Kept(n, d, u))))
             /\ \A m \in Tiles, e \in Dirs, v \in VCs :
                  (m # n /\ m # m0) \/ e # d \/ v # u
                    => ring_in'[<<m, e, v>>] = Rest(n, d)[<<m, e, v>>]
  <2> DEFINE k == Kept(n, d, u)
             f == Hop(Head(k))
             old == ring_in[<<m0, d, u>>]
  <2>1. Forwards(n, d, u) /\ k # <<>>
    BY <1>3 DEF Forward, Forwards, Through, Ready
  <2>2. k \in Seq(Flit) /\ old \in Seq(Flit)
    BY <1>0, KeptFacts DEF TypeOK, Ports
  <2>3. Tail(k) \in Seq(Flit) /\ Append(old, f) \in Seq(Flit)
    BY <2>1, <2>2, QueueFacts, HopFacts, AppendFacts
  <2>4. ring_in' = [Rest(n, d) EXCEPT ![<<n, d, u>>] = Tail(@),
                                      ![<<m0, d, u>>] = Append(@, f)]
    BY <1>3 DEF Forward
  <2>5. Rest(n, d)[<<n, d, u>>] = k /\ Rest(n, d)[<<m0, d, u>>] = old
    BY <1>0, <1>2
  <2>6. <<n, d, u>> # <<m0, d, u>>
    BY <1>0
  <2>7. ring_in' = [Rest(n, d) EXCEPT ![<<n, d, u>>] = Tail(k),
                                      ![<<m0, d, u>>] = Append(old, f)]
    BY <1>1, <1>2, <2>4, <2>5, <2>6
  <2> HIDE DEF k, f, old, m0
  <2>8. ring_in' \in [Ports -> Seq(Flit)]
    BY <1>1, <1>2, <2>3, <2>7
  <2>9. ring_in'[<<n, d, u>>] = Tail(k) /\ ring_in'[<<m0, d, u>>] = Append(old, f)
    BY <1>1, <1>2, <2>6, <2>7
  <2>10. \A m \in Tiles, e \in Dirs, v \in VCs :
           (m # n /\ m # m0) \/ e # d \/ v # u
             => ring_in'[<<m, e, v>>] = Rest(n, d)[<<m, e, v>>]
    BY <1>1, <1>2, <2>7 DEF Ports
  <2> USE DEF k, f, old, m0
  <2> QED  BY <2>1, <2>8, <2>9, <2>10
<1>4. ASSUME NEW u \in VCs, Enter(n, d, u)
      PROVE  /\ ring_in' \in [Ports -> Seq(Flit)]
             /\ Enters(n, d, u)
             /\ ring_in'[<<m0, d, u>>] = Append(ring_in[<<m0, d, u>>], Hop(Head(inject[<<n, d, u>>])))
             /\ \A m \in Tiles, e \in Dirs, v \in VCs :
                  m # m0 \/ e # d \/ v # u
                    => ring_in'[<<m, e, v>>] = Rest(n, d)[<<m, e, v>>]
  <2> DEFINE q == inject[<<n, d, u>>]
             f == Hop(Head(q))
             old == ring_in[<<m0, d, u>>]
  <2>1. Enters(n, d, u) /\ q # <<>>
    BY <1>4 DEF Enter, Enters
  <2>2. q \in Seq(Flit) /\ old \in Seq(Flit)
    BY <1>0 DEF TypeOK, Ports
  <2>3. Append(old, f) \in Seq(Flit)
    BY <2>1, <2>2, QueueFacts, HopFacts, AppendFacts
  <2>4. ring_in' = [Rest(n, d) EXCEPT ![<<m0, d, u>>] = Append(@, f)]
    BY <1>4 DEF Enter
  <2>5. Rest(n, d)[<<m0, d, u>>] = old
    BY <1>0, <1>2
  <2>7. ring_in' = [Rest(n, d) EXCEPT ![<<m0, d, u>>] = Append(old, f)]
    BY <1>1, <1>2, <2>4, <2>5
  <2> HIDE DEF q, f, old, m0
  <2>8. /\ ring_in' \in [Ports -> Seq(Flit)]
        /\ ring_in'[<<m0, d, u>>] = Append(old, f)
    BY <1>1, <1>2, <2>3, <2>7
  <2>10. \A m \in Tiles, e \in Dirs, v \in VCs :
           m # m0 \/ e # d \/ v # u => ring_in'[<<m, e, v>>] = Rest(n, d)[<<m, e, v>>]
    BY <1>1, <1>2, <2>7 DEF Ports
  <2> USE DEF q, f, old, m0
  <2> QED  BY <2>1, <2>8, <2>10
<1>5. CASE \E u \in VCs : Forward(n, d, u)
  <2> PICK u \in VCs : Forward(n, d, u)
    BY <1>5
  <2>0. \A m \in Tiles, e \in Dirs, v \in VCs :
          (m # n /\ m # m0) \/ e # d \/ v # u => ring_in'[<<m, e, v>>] = Rest(n, d)[<<m, e, v>>]
    BY <1>3
  <2>1. ring_in' \in [Ports -> Seq(Flit)] /\ Moves(n, d, u)
    BY <1>2, <1>3 DEF Moves
  <2>2. ASSUME NEW v \in VCs, v # u
        PROVE  Moves(n, d, v)
    <3>1. /\ ring_in'[<<n, d, v>>] = Kept(n, d, v)
          /\ ring_in'[<<m0, d, v>>] = ring_in[<<m0, d, v>>]
      BY <1>0, <1>2, <2>0, <2>2
    <3> QED  BY <3>1 DEF Moves
  <2>3. ASSUME NEW m \in Tiles, NEW e \in Dirs, NEW v \in VCs,
               m \notin {n, m0} \/ e # d
        PROVE  ring_in'[<<m, e, v>>] = ring_in[<<m, e, v>>]
    <3> HIDE DEF m0
    <3> QED  BY <1>0, <1>2, <2>0, <2>3
  <2> QED  BY <2>1, <2>2, <2>3
<1>6. CASE \E u \in VCs : Enter(n, d, u)
  <2> PICK u \in VCs : Enter(n, d, u)
    BY <1>6
  <2>0. \A m \in Tiles, e \in Dirs, v \in VCs :
          m # m0 \/ e # d \/ v # u => ring_in'[<<m, e, v>>] = Rest(n, d)[<<m, e, v>>]
    BY <1>4
  <2>1. ring_in' \in [Ports -> Seq(Flit)] /\ Moves(n, d, u)
    BY <1>0, <1>2, <1>4 DEF Moves
  <2>2. ASSUME NEW v \in VCs, v # u
        PROVE  Moves(n, d, v)
    <3>1. /\ ring_in'[<<n, d, v>>] = Kept(n, d, v)
          /\ ring_in'[<<m0, d, v>>] = ring_in[<<m0, d, v>>]
      BY <1>0, <1>2, <2>0, <2>2
    <3> QED  BY <3>1 DEF Moves
  <2>3. ASSUME NEW m \in Tiles, NEW e \in Dirs, NEW v \in VCs,
               m \notin {n, m0} \/ e # d
        PROVE  ring_in'[<<m, e, v>>] = ring_in[<<m, e, v>>]
    <3> HIDE DEF m0
    <3> QED  BY <1>0, <1>2, <2>0, <2>3
  <2> QED  BY <2>1, <2>2, <2>3
<1>7. CASE LinkIdle(n, d)
  BY <1>0, <1>2, <1>7 DEF Moves, LinkIdle
<1> QED  BY <1>5, <1>6, <1>7 DEF Node

-----------------------------------------------------------------------------
(* The types and the capacities.                                           *)

\* The types hold at the start.
LEMMA InitType == Init => TypeOK
<1> SUFFICES ASSUME Init PROVE TypeOK
  OBVIOUS
<1>1. <<>> \in Seq(Flit) /\ Len(<<>>) = 0
  OBVIOUS
<1>2. 0 \in Turns
  BY DEF Turns
<1>3. \A q \in Ports : ring_in[q] = <<>> /\ inject[q] = <<>>
  BY DEF Init
<1>4. \A q \in Tiles \X VCs : tile_ingress[q] = <<>>
  BY DEF Init
<1>5. /\ ring_in \in [Ports -> Seq(Flit)] /\ inject \in [Ports -> Seq(Flit)]
      /\ tile_ingress \in [Tiles \X VCs -> Seq(Flit)]
      /\ sent \in [Tiles -> Nat]
  BY <1>1 DEF Init
<1> QED  BY <1>1, <1>2, <1>3, <1>4, <1>5 DEF Init, TypeOK

\* The queues at one port.
LEMMA PortTypes ==
  ASSUME TypeOK, NEW m \in Tiles, NEW e \in Dirs, NEW v \in VCs
  PROVE  /\ ring_in[<<m, e, v>>] \in Seq(Flit) /\ Len(ring_in[<<m, e, v>>]) <= BufferDepth
         /\ inject[<<m, e, v>>] \in Seq(Flit) /\ Len(inject[<<m, e, v>>]) <= InjectDepth
         /\ tile_ingress[<<m, v>>] \in Seq(Flit) /\ Len(tile_ingress[<<m, v>>]) <= IngressDepth
BY DEF TypeOK, Ports

\* A node's turn keeps the buffers within their depth.
LEMMA NodeBuffers ==
  ASSUME TypeOK, NEW n \in Tiles, NEW d \in Dirs, Node(n, d),
         NEW m \in Tiles, NEW e \in Dirs, NEW v \in VCs
  PROVE  Len(ring_in'[<<m, e, v>>]) <= BufferDepth
<1> DEFINE old == ring_in[<<m, e, v>>]
           k == Kept(n, d, v)
<1>0. old \in Seq(Flit) /\ Len(old) <= BufferDepth
  BY PortTypes
<1>1. CASE m \notin {n, Neighbour(n, d)} \/ e # d
  BY <1>0, <1>1, NodeMoves
<1>2. CASE m = n /\ e = d
  <2>0. k \in Seq(Flit) /\ (k = old \/ (old # <<>> /\ k = Tail(old)))
    BY <1>2, KeptFacts
  <2>1. k \in Seq(Flit) /\ Len(k) <= BufferDepth
    <3> HIDE DEF k, old
    <3>1. old # <<>> => Len(Tail(old)) = Len(old) - 1 /\ Len(old) \in Nat
      BY <1>0, QueueFacts
    <3> QED  BY <1>0, <2>0, <3>1
  <2>2. \/ ring_in'[<<m, e, v>>] = k
        \/ k # <<>> /\ ring_in'[<<m, e, v>>] = Tail(k)
    BY <1>2, NodeMoves DEF Moves, Forwards, Through, Ready
  <2> HIDE DEF k
  <2>3. k # <<>> => Len(Tail(k)) <= BufferDepth
    BY <2>1, QueueFacts
  <2> QED  BY <2>1, <2>2, <2>3
<1>3. CASE m = Neighbour(n, d) /\ e = d
  <2>1. CASE ring_in'[<<m, e, v>>] = old
    BY <1>0, <2>1
  <2>2. CASE Forwards(n, d, v)
             /\ ring_in'[<<m, e, v>>] = Append(old, Hop(Head(k)))
    <3>1. k # <<>> /\ k \in Seq(Flit) /\ Len(old) < BufferDepth
      BY <1>3, <2>2, KeptFacts DEF Forwards, Through, Ready, Room
    <3>2. Hop(Head(k)) \in Flit
      BY <3>1, QueueFacts, HopFacts
    <3> QED  BY <1>0, <2>2, <3>1, <3>2, AppendFacts
  <2>3. CASE Enters(n, d, v)
             /\ ring_in'[<<m, e, v>>] = Append(old, Hop(Head(inject[<<n, d, v>>])))
    <3>1. inject[<<n, d, v>>] # <<>> /\ inject[<<n, d, v>>] \in Seq(Flit)
          /\ Len(old) < BufferDepth
      BY <1>3, <2>3, PortTypes DEF Enters, Room
    <3>2. Hop(Head(inject[<<n, d, v>>])) \in Flit
      BY <3>1, QueueFacts, HopFacts
    <3> QED  BY <1>0, <2>3, <3>1, <3>2, AppendFacts
  <2> QED  BY <1>3, <2>1, <2>2, <2>3, NodeMoves DEF Moves
<1> QED  BY <1>1, <1>2, <1>3

\* A node's turn only takes from its inject queues.
LEMMA NodeInject ==
  ASSUME TypeOK, NEW n \in Tiles, NEW d \in Dirs, Node(n, d)
  PROVE  /\ inject' \in [Ports -> Seq(Flit)]
         /\ \A q \in Ports : Len(inject'[q]) <= InjectDepth
<1>1. CASE UNCHANGED inject
  BY <1>1 DEF TypeOK
<1>2. CASE \E v \in VCs : Enter(n, d, v)
  <2> PICK v \in VCs : Enter(n, d, v)
    BY <1>2
  <2> DEFINE p == <<n, d, v>>
             new == Tail(inject[p])
  <2>1. inject[p] # <<>> /\ p \in Ports
    BY DEF Enter, Enters, Ports
  <2>2. inject[p] \in Seq(Flit) /\ Len(inject[p]) <= InjectDepth
    BY PortTypes
  <2>3. new \in Seq(Flit) /\ Len(new) <= InjectDepth
    BY <2>1, <2>2, QueueFacts
  <2>4. inject' = [inject EXCEPT ![p] = new]
    BY DEF Enter
  <2> HIDE DEF p, new
  <2> QED  BY <2>1, <2>3, <2>4 DEF TypeOK
<1> QED  BY <1>1, <1>2 DEF Node, Forward, LinkIdle

\* Ejection keeps the ingress queues within their depth.
LEMMA NodeIngress ==
  ASSUME TypeOK, NEW n \in Tiles, NEW d \in Dirs, Eject(n, d)
  PROVE  /\ tile_ingress' \in [Tiles \X VCs -> Seq(Flit)]
         /\ \A q \in Tiles \X VCs : Len(tile_ingress'[q]) <= IngressDepth
<1>1. ASSUME NEW v \in VCs
      PROVE  Arrived(n, d, v) \in Seq(Flit) /\ Len(Arrived(n, d, v)) <= IngressDepth
  <2>0. tile_ingress[<<n, v>>] \in Seq(Flit) /\ ring_in[<<n, d, v>>] \in Seq(Flit)
        /\ Len(tile_ingress[<<n, v>>]) <= IngressDepth
    BY PortTypes
  <2>1. CASE Ejects(n, d, v)
    <3> DEFINE f == Head(ring_in[<<n, d, v>>])
               g == [f EXCEPT !.wait = 1]
    <3>1. f \in Flit /\ 1 \in 0 .. HopLatency
      BY <2>0, <2>1, QueueFacts DEF Ejects, Ready
    <3>2. g \in Flit
      BY <3>1, FlitUpdate
    <3>3. Arrived(n, d, v) = Append(tile_ingress[<<n, v>>], g)
      BY <2>1 DEF Arrived
    <3>4. Len(tile_ingress[<<n, v>>]) < IngressDepth
      BY <2>1 DEF Ejects
    <3> HIDE DEF g
    <3> QED  BY <2>0, <3>2, <3>3, <3>4, AppendFacts
  <2>2. CASE ~Ejects(n, d, v)
    BY <2>0, <2>2 DEF Arrived
  <2> QED  BY <2>1, <2>2
<1> DEFINE a == Arrived(n, d, "REQ")
           b == Arrived(n, d, "RESP")
<1>2. tile_ingress' = [tile_ingress EXCEPT ![<<n, "REQ">>] = a, ![<<n, "RESP">>] = b]
  BY DEF Eject
<1>3. /\ a \in Seq(Flit) /\ Len(a) <= IngressDepth
      /\ b \in Seq(Flit) /\ Len(b) <= IngressDepth
  BY <1>1 DEF VCs
<1>4. <<n, "REQ">> \in Tiles \X VCs /\ <<n, "RESP">> \in Tiles \X VCs
  BY DEF VCs
<1> HIDE DEF a, b
<1> QED  BY <1>2, <1>3, <1>4 DEF TypeOK

\* A node's turn keeps the types.
LEMMA NodeType ==
  ASSUME TypeOK, NEW n \in Tiles, NEW d \in Dirs, Node(n, d)
  PROVE  TypeOK'
<1>1. ring_in' \in [Ports -> Seq(Flit)]
  BY NodeMoves
<1>2. \A q \in Ports : Len(ring_in'[q]) <= BufferDepth
  BY NodeBuffers DEF Ports
<1>3. /\ inject' \in [Ports -> Seq(Flit)]
      /\ \A q \in Ports : Len(inject'[q]) <= InjectDepth
  BY NodeInject
<1>4. /\ tile_ingress' \in [Tiles \X VCs -> Seq(Flit)]
      /\ \A q \in Tiles \X VCs : Len(tile_ingress'[q]) <= IngressDepth
  BY NodeIngress DEF Node
<1>5. turn' \in Turns
  <2>1. turn = d * N + n /\ turn' = turn + 1 /\ (d = 0 \/ d = 1)
    BY DEF Node, NodeTurn, Dirs
  <2>2. CASE d = 0
    BY <2>1, <2>2 DEF Turns, Tiles
  <2>3. CASE d = 1
    BY <2>1, <2>3 DEF Turns, Tiles
  <2> QED  BY <2>1, <2>2, <2>3
<1>6. plan' \in Plans /\ sent' \in [Tiles -> Nat]
      /\ answered' \in SUBSET (Tiles \X (Nat \ {0}))
  BY DEF TypeOK, Node
<1> QED  BY <1>1, <1>2, <1>3, <1>4, <1>5, <1>6 DEF TypeOK

\* What a tile's step leaves of the input buffers.
RingAfter == [q \in Ports |-> Elapse(ring_in[q])]
IngressAfter == [q \in Tiles \X VCs |-> Elapse(tile_ingress[q])]

\* So does the end of a cycle, for the queues that hold waiting flits.
LEMMA ElapsedTypes ==
  ASSUME TypeOK
  PROVE  /\ RingAfter \in [Ports -> Seq(Flit)]
         /\ \A q \in Ports : Len(RingAfter[q]) = Len(ring_in[q])
         /\ IngressAfter \in [Tiles \X VCs -> Seq(Flit)]
         /\ \A q \in Tiles \X VCs : Len(IngressAfter[q]) = Len(tile_ingress[q])
<1>1. \A q \in Ports : ring_in[q] \in Seq(Flit)
  BY DEF TypeOK
<1>2. \A q \in Tiles \X VCs : tile_ingress[q] \in Seq(Flit)
  BY DEF TypeOK
<1> QED  BY <1>1, <1>2, ElapseFacts DEF RingAfter, IngressAfter

\* Sending keeps the inject queues within their depth.
LEMMA RouteType ==
  ASSUME TypeOK, NEW t \in Tiles, NEW to \in Tiles, NEW v \in VCs,
         NEW id \in Tiles \X (Nat \ {0}), CanRoute(t, to, v), Route(t, to, v, id)
  PROVE  /\ inject' \in [Ports -> Seq(Flit)]
         /\ \A q \in Ports : Len(inject'[q]) <= InjectDepth
<1> DEFINE p == <<t, ring_direction(t, to), v>>
           f == [id |-> id, ring_dest |-> to, wait |-> 0]
           new == Append(inject[p], f)
<1>1. p \in Ports /\ ring_direction(t, to) \in Dirs
  BY DirectionType DEF Ports
<1>2. inject[p] \in Seq(Flit) /\ Len(inject[p]) < InjectDepth
  BY <1>1, PortTypes DEF CanRoute
<1>3. f \in Flit
  BY DEF Flit
<1> HIDE DEF f
<1>4. new \in Seq(Flit) /\ Len(new) <= InjectDepth
  BY <1>2, <1>3, AppendFacts
<1>5. inject' = [inject EXCEPT ![p] = new]
  BY DEF Route, f
<1> HIDE DEF p, new
<1> QED  BY <1>1, <1>4, <1>5 DEF TypeOK

\* A tile that takes in answers has fewer of them queued.
LEMMA AbsorbType ==
  ASSUME TypeOK, NEW t \in Tiles, Absorb(t)
  PROVE  /\ answered' \in SUBSET (Tiles \X (Nat \ {0}))
         /\ Drained(t) \in Seq(Flit) /\ Len(Drained(t)) <= IngressDepth
<1> DEFINE q == tile_ingress[<<t, "RESP">>]
           c == Visible(q)
<1>1. q \in Seq(Flit) /\ Len(q) <= IngressDepth
  BY DEF TypeOK, VCs
<1>2. c \in 0 .. Len(q)
  BY <1>1, VisibleBounds
<1>3. \A i \in 1 .. c : q[i].id \in Tiles \X (Nat \ {0})
  BY <1>1, <1>2, QueueFacts, FlitFacts
<1>4. answered' = answered \cup {q[i].id : i \in 1 .. c}
  BY DEF Absorb
<1>5. Drained(t) = SubSeq(q, c + 1, Len(q))
  BY DEF Drained
<1> HIDE DEF q, c
<1>6. Drained(t) \in Seq(Flit) /\ Len(Drained(t)) <= IngressDepth
  BY <1>1, <1>2, <1>5
<1> QED  BY <1>3, <1>4, <1>6 DEF TypeOK

\* A tile's turn at its requests keeps the types.
LEMMA IngressType ==
  ASSUME TypeOK, NEW t \in Tiles, Take(t) \/ Skip(t)
  PROVE  TypeOK'
<1> DEFINE a == Drained(t)
           q == tile_ingress[<<t, "REQ">>]
<1>1. /\ a \in Seq(Flit) /\ Len(a) <= IngressDepth
      /\ answered' \in SUBSET (Tiles \X (Nat \ {0}))
  BY AbsorbType DEF Take, Skip
<1>2. <<t, "REQ">> \in Tiles \X VCs /\ <<t, "RESP">> \in Tiles \X VCs
  BY DEF VCs
<1>3. q \in Seq(Flit) /\ Len(q) <= IngressDepth
  BY <1>2 DEF TypeOK
<1>4. /\ tile_ingress' \in [Tiles \X VCs -> Seq(Flit)]
      /\ \A p \in Tiles \X VCs : Len(tile_ingress'[p]) <= IngressDepth
  <2>1. CASE Take(t)
    <3> DEFINE b == Tail(q)
    <3>1. q # <<>>
      BY <2>1 DEF Take, CanTake, Ready
    <3>2. b \in Seq(Flit) /\ Len(b) <= IngressDepth
      BY <1>3, <3>1, QueueFacts
    <3>3. tile_ingress' = [tile_ingress EXCEPT ![<<t, "RESP">>] = a, ![<<t, "REQ">>] = b]
      BY <2>1 DEF Take
    <3> HIDE DEF a, b, q
    <3> QED  BY <1>1, <1>2, <3>2, <3>3 DEF TypeOK
  <2>2. CASE Skip(t)
    <3>1. tile_ingress' = [tile_ingress EXCEPT ![<<t, "RESP">>] = a]
      BY <2>2 DEF Skip
    <3> HIDE DEF a
    <3> QED  BY <1>1, <1>2, <3>1 DEF TypeOK
  <2> QED  BY <2>1, <2>2
<1>5. /\ inject' \in [Ports -> Seq(Flit)]
      /\ \A p \in Ports : Len(inject'[p]) <= InjectDepth
  <2>1. CASE Take(t)
    <3> DEFINE id == Head(q).id
    <3>1. q # <<>>
      BY <2>1 DEF Take, CanTake, Ready
    <3>2. Head(q) \in Flit
      BY <1>3, <3>1, QueueFacts
    <3>3. id \in Tiles \X (Nat \ {0}) /\ id[1] \in Tiles
      BY <3>2, FlitFacts
    <3>4. CanRoute(t, id[1], "RESP") /\ Route(t, id[1], "RESP", id)
      BY <2>1 DEF Take, CanTake
    <3>5. "RESP" \in VCs
      BY DEF VCs
    <3> HIDE DEF id
    <3> QED  BY <3>3, <3>4, <3>5, RouteType
  <2>2. CASE Skip(t)
    BY <2>2 DEF Skip, TypeOK
  <2> QED  BY <2>1, <2>2
<1>6. turn' \in Turns
  <2>1. turn = 2 * N + 2 * t /\ turn' = turn + 1
    BY DEF Take, Skip, IngressTurn, EndIngress
  <2> QED  BY <2>1 DEF Turns, Tiles
<1>7. UNCHANGED <<ring_in, plan, sent>>
  BY DEF Take, Skip, EndIngress
<1> QED  BY <1>1, <1>4, <1>5, <1>6, <1>7 DEF TypeOK

\* The end of a tile's turn, and of a cycle.
LEMMA EndDmaType ==
  ASSUME TypeOK, NEW t \in Tiles, DmaTurn(t), EndDma(t)
  PROVE  /\ \/ UNCHANGED <<ring_in, tile_ingress>> /\ turn' = turn + 1
            \/ ring_in' = RingAfter /\ tile_ingress' = IngressAfter
         /\ ring_in' \in [Ports -> Seq(Flit)]
         /\ \A q \in Ports : Len(ring_in'[q]) <= BufferDepth
         /\ tile_ingress' \in [Tiles \X VCs -> Seq(Flit)]
         /\ \A q \in Tiles \X VCs : Len(tile_ingress'[q]) <= IngressDepth
         /\ turn' \in Turns /\ UNCHANGED <<plan, answered>>
<1>1. CASE t < N - 1
  <2>1. turn' = turn + 1 /\ UNCHANGED <<ring_in, tile_ingress>>
    BY <1>1 DEF EndDma
  <2>2. turn' \in Turns
    BY <1>1, <2>1 DEF DmaTurn, Turns, Tiles
  <2> QED  BY <2>1, <2>2 DEF EndDma, TypeOK
<1>2. CASE ~(t < N - 1)
  <2>1. turn' = 0 /\ ring_in' = RingAfter /\ tile_ingress' = IngressAfter
    BY <1>2 DEF EndDma, RingAfter, IngressAfter
  <2>2. turn' \in Turns
    BY <2>1 DEF Turns
  <2> QED  BY <2>1, <2>2, ElapsedTypes DEF EndDma, TypeOK
<1> QED  BY <1>1, <1>2

\* A tile's turn at its engine keeps the types.
LEMMA DmaType ==
  ASSUME TypeOK, NEW t \in Tiles, Send(t) \/ Rests(t)
  PROVE  TypeOK'
<1>1. DmaTurn(t) /\ EndDma(t)
  BY DEF Send, Rests
<1>2. CASE Send(t)
  <2> DEFINE k == sent[t] + 1
             to == plan[t][k]
  <2>1. sent[t] \in Nat /\ k \in Nat \ {0}
    BY DEF TypeOK
  <2>2. plan \in [Tiles -> Seq(Tiles)]
    BY DEF TypeOK
  <2>3. sent[t] < Len(plan[t]) /\ CanRoute(t, to, "REQ") /\ Route(t, to, "REQ", <<t, k>>)
    BY <1>2 DEF Send, CanSend
  <2>4. to \in Tiles
    BY <2>1, <2>2, <2>3
  <2>5. <<t, k>> \in Tiles \X (Nat \ {0}) /\ "REQ" \in VCs
    BY <2>1 DEF VCs
  <2> HIDE DEF to, k
  <2>6. /\ inject' \in [Ports -> Seq(Flit)]
        /\ \A q \in Ports : Len(inject'[q]) <= InjectDepth
    BY <2>3, <2>4, <2>5, RouteType
  <2>7. sent' \in [Tiles -> Nat]
    BY <1>2, <2>1 DEF Send, TypeOK
  <2> QED  BY <1>1, <2>6, <2>7, EndDmaType DEF TypeOK
<1>3. CASE Rests(t)
  BY <1>1, <1>3, EndDmaType DEF Rests, TypeOK
<1> QED  BY <1>2, <1>3

-----------------------------------------------------------------------------
(* The travelling flits are spaced, and a link is unused before its node's *)
(* turn.                                                                   *)

\* Ejection leaves the flits apart.
LEMMA KeptSpaced ==
  ASSUME TypeOK, AllSpaced, NEW n \in Tiles, NEW d \in Dirs, NEW v \in VCs
  PROVE  /\ Spaced(Kept(n, d, v))
         /\ Kept(n, d, v) # <<>> => Spaced(Tail(Kept(n, d, v)))
<1> DEFINE q == ring_in[<<n, d, v>>]
           k == Kept(n, d, v)
<1>1. q \in Seq(Flit) /\ Spaced(q)
  BY PortTypes DEF AllSpaced, Ports
<1>2. k \in Seq(Flit) /\ (k = q \/ (q # <<>> /\ k = Tail(q)))
  BY KeptFacts
<1> HIDE DEF q, k
<1>3. Spaced(k)
  BY <1>1, <1>2, TailSpaced
<1>4. k # <<>> => Spaced(Tail(k))
  BY <1>2, <1>3, TailSpaced
<1> QED  BY <1>3, <1>4 DEF k

\* The flit a node adds to a link of its own turn is the first of the cycle.
LEMMA NodeSpaced ==
  ASSUME TypeOK, AllSpaced, LinksUnused, NEW n \in Tiles, NEW d \in Dirs, Node(n, d)
  PROVE  AllSpaced'
<1> SUFFICES ASSUME NEW m \in Tiles, NEW e \in Dirs, NEW v \in VCs
             PROVE  Spaced(ring_in'[<<m, e, v>>])
  BY DEF AllSpaced, Ports
<1> DEFINE old == ring_in[<<m, e, v>>]
           k == Kept(n, d, v)
<1>0. old \in Seq(Flit) /\ Spaced(old)
  BY PortTypes DEF AllSpaced, Ports
<1>1. CASE m \notin {n, Neighbour(n, d)} \/ e # d
  BY <1>0, <1>1, NodeMoves
<1>2. CASE m = n /\ e = d
  <2>1. Spaced(k) /\ (k # <<>> => Spaced(Tail(k)))
    BY KeptSpaced
  <2>2. \/ ring_in'[<<m, e, v>>] = k
        \/ k # <<>> /\ ring_in'[<<m, e, v>>] = Tail(k)
    BY <1>2, NodeMoves DEF Moves, Forwards, Through, Ready
  <2> HIDE DEF k
  <2> QED  BY <2>1, <2>2
<1>3. CASE m = Neighbour(n, d) /\ e = d
  <2>0. \A i \in DOMAIN old : old[i].wait < HopLatency
    <3>1. turn = d * N + n
      BY DEF Node, NodeTurn
    <3>2. d * N + n <= d * N + n
      BY DEF Dirs, Tiles
    <3> QED  BY <1>3, <3>1, <3>2 DEF LinksUnused, LinkUnused
  <2>1. CASE ring_in'[<<m, e, v>>] = old
    BY <1>0, <2>1
  <2>2. CASE k # <<>> /\ ring_in'[<<m, e, v>>] = Append(old, Hop(Head(k)))
    <3>1. k \in Seq(Flit)
      BY KeptFacts
    <3> HIDE DEF k, old
    <3>2. Hop(Head(k)) \in Flit /\ Hop(Head(k)).wait = HopLatency
      BY <2>2, <3>1, QueueFacts, HopFacts
    <3> QED  BY <1>0, <2>0, <2>2, <3>2, AppendSpaced
  <2>3. CASE inject[<<n, d, v>>] # <<>>
             /\ ring_in'[<<m, e, v>>] = Append(old, Hop(Head(inject[<<n, d, v>>])))
    <3> DEFINE q == inject[<<n, d, v>>]
    <3>1. q \in Seq(Flit)
      BY PortTypes
    <3>2. q # <<>> /\ ring_in'[<<m, e, v>>] = Append(old, Hop(Head(q)))
      BY <2>3
    <3> HIDE DEF q, old
    <3>3. Hop(Head(q)) \in Flit /\ Hop(Head(q)).wait = HopLatency
      BY <3>1, <3>2, QueueFacts, HopFacts
    <3> QED  BY <1>0, <2>0, <3>2, <3>3, AppendSpaced
  <2> QED
    BY ZenonT(40), <1>3, <2>1, <2>2, <2>3, NodeMoves
    DEF Moves, Forwards, Enters, Through, Ready
<1> QED  BY <1>1, <1>2, <1>3

\* Taking flits out of a buffer brings no new one.
LEMMA NodeLinks ==
  ASSUME TypeOK, LinksUnused, NEW n0 \in Tiles, NEW d0 \in Dirs, Node(n0, d0)
  PROVE  LinksUnused'
<1> SUFFICES ASSUME NEW n \in Tiles, NEW d \in Dirs, NEW v \in VCs,
                    turn' <= d * N + n
             PROVE  LinkUnused(n, d, v)'
  BY DEF LinksUnused
<1> DEFINE m == Neighbour(n, d)
           old == ring_in[<<m, d, v>>]
           new == ring_in'[<<m, d, v>>]
<1>1. turn = d0 * N + n0 /\ turn' = turn + 1
  BY DEF Node, NodeTurn
<1>2. turn <= d * N + n /\ (d # d0 \/ n # n0)
  <2>1. (d = 0 \/ d = 1) /\ (d0 = 0 \/ d0 = 1)
    BY DEF Dirs
  <2>2. CASE d = 0 /\ d0 = 0
    BY <1>1, <2>2 DEF Tiles
  <2>3. CASE d = 0 /\ d0 = 1
    BY <1>1, <2>3 DEF Tiles
  <2>4. CASE d = 1 /\ d0 = 0
    BY <1>1, <2>4 DEF Tiles
  <2>5. CASE d = 1 /\ d0 = 1
    BY <1>1, <2>5 DEF Tiles
  <2> QED  BY <2>1, <2>2, <2>3, <2>4, <2>5
<1>3. m \in Tiles /\ old \in Seq(Flit)
  BY NeighbourType, PortTypes
<1>4. \A i \in DOMAIN old : old[i].wait < HopLatency
  BY <1>2 DEF LinksUnused, LinkUnused
<1>5. CASE d # d0 \/ m # n0
  <2>1. d # d0 \/ m # Neighbour(n0, d0)
    BY <1>2, NeighbourInjective
  <2>2. new = old
    BY <1>3, <1>5, <2>1, NodeMoves
  <2> QED  BY <1>4, <2>2 DEF LinkUnused
<1>6. CASE d = d0 /\ m = n0
  <2> DEFINE k == Kept(n0, d0, v)
  <2>1. k \in Seq(Flit) /\ (k = old \/ (old # <<>> /\ k = Tail(old)))
    BY <1>6, KeptFacts
  <2>2. new = k \/ (k # <<>> /\ new = Tail(k))
    BY ZenonT(40), <1>6, NodeMoves DEF Moves, Forwards, Through, Ready
  <2> HIDE DEF k, new, old
  <2>3. \A i \in DOMAIN k : k[i].wait < HopLatency
    BY <1>3, <1>4, <2>1, TailBelow
  <2>4. \A i \in DOMAIN new : new[i].wait < HopLatency
    BY <2>1, <2>2, <2>3, TailBelow
  <2> QED  BY <2>4 DEF LinkUnused, new
<1> QED  BY <1>5, <1>6

\* The other steps leave the buffers alone or let time pass in all.
LEMMA TileLinks ==
  ASSUME TypeOK, AllSpaced, LinksUnused, NEW t \in Tiles,
         Take(t) \/ Skip(t) \/ Send(t) \/ Rests(t)
  PROVE  AllSpaced' /\ LinksUnused'
<1>1. CASE ring_in' = RingAfter
  <2>1. ASSUME NEW p \in Ports
        PROVE  /\ Spaced(ring_in'[p])
               /\ \A i \in DOMAIN ring_in'[p] : ring_in'[p][i].wait < HopLatency
    <3> DEFINE q == ring_in[p]
    <3>1. q \in Seq(Flit) /\ Spaced(q)
      BY DEF TypeOK, AllSpaced
    <3>2. ring_in'[p] = Elapse(q)
      BY <1>1 DEF RingAfter
    <3>3. Elapse(q) \in Seq(Flit) /\ Len(Elapse(q)) = Len(q)
      BY <3>1, ElapseFacts
    <3>4. ASSUME NEW i \in DOMAIN Elapse(q)
          PROVE  Elapse(q)[i].wait < HopLatency
      <4>1. i \in 1 .. Len(q)
        BY <3>3
      <4>2. q[i].wait \in 0 .. HopLatency
        BY <3>1, <4>1, QueueFacts, FlitFacts
      <4>3. Elapse(q)[i].wait = IF q[i].wait = 0 THEN 0 ELSE q[i].wait - 1
        BY <3>1, <4>1, ElapseFacts
      <4> QED  BY <4>2, <4>3
    <3>5. Spaced(Elapse(q))
      BY <3>1, ElapseSpaced
    <3> QED  BY <3>2, <3>4, <3>5
  <2>2. \A n \in Tiles, d \in Dirs, v \in VCs : LinkUnused(n, d, v)'
    BY <2>1, NeighbourType DEF LinkUnused, Ports
  <2> QED  BY <2>1, <2>2 DEF AllSpaced, LinksUnused
<1>2. CASE UNCHANGED ring_in /\ turn' = turn + 1
  <2>1. turn \in Nat
    BY DEF TypeOK, Turns
  <2>2. ASSUME NEW n \in Tiles, NEW d \in Dirs, turn' <= d * N + n
        PROVE  turn <= d * N + n
    <3>1. CASE d = 0
      BY <1>2, <2>1, <2>2, <3>1 DEF Tiles
    <3>2. CASE d = 1
      BY <1>2, <2>1, <2>2, <3>2 DEF Tiles
    <3> QED  BY <3>1, <3>2 DEF Dirs
  <2>3. LinksUnused'
    BY <1>2, <2>2 DEF LinksUnused, LinkUnused
  <2> QED  BY <1>2, <2>3 DEF AllSpaced
<1>3. (UNCHANGED ring_in /\ turn' = turn + 1) \/ ring_in' = RingAfter
  <2>1. CASE Take(t) \/ Skip(t)
    BY <2>1 DEF Take, Skip, EndIngress
  <2>2. CASE Send(t) \/ Rests(t)
    BY <2>2, EndDmaType DEF Send, Rests
  <2> QED  BY <2>1, <2>2
<1> QED  BY <1>1, <1>2, <1>3

-----------------------------------------------------------------------------
(* The ring does not fill up.                                              *)

\* Node m has a free slot, or a flit to take out.
Moving(m, e, v) ==
  Room(m, e, v) \/ Head(ring_in[<<m, e, v>>]).ring_dest = m

\* The node whose turn it is can move on afterwards if its link was used:
\* it forwarded a flit of its own, or its own buffer has room.
LEMMA MoverMoves ==
  ASSUME TypeOK, TypeOK', AllSpaced', NEW n \in Tiles, NEW d \in Dirs, Node(n, d),
         NEW v \in VCs, Forwards(n, d, v) \/ Enters(n, d, v),
         ring_in'[<<n, d, v>>] # Kept(n, d, v) \/ ~Through(n, d, v)
  PROVE  Moving(n, d, v)'
<1> DEFINE k == Kept(n, d, v)
           new == ring_in'[<<n, d, v>>]
           old == ring_in[<<n, d, v>>]
<1>1. /\ k \in Seq(Flit) /\ Len(k) <= BufferDepth
      /\ new \in Seq(Flit) /\ Spaced(new)
  <2>1. old \in Seq(Flit) /\ Len(old) <= BufferDepth
    BY PortTypes
  <2>2. k \in Seq(Flit) /\ (k = old \/ (old # <<>> /\ k = Tail(old)))
    BY KeptFacts
  <2>3. k \in Seq(Flit) /\ Len(k) <= BufferDepth
    <3> HIDE DEF k, old
    <3>1. old # <<>> => Len(Tail(old)) = Len(old) - 1 /\ Len(old) \in Nat
      BY <2>1, QueueFacts
    <3> QED  BY <2>1, <2>2, <3>1
  <2>4. new \in Seq(Flit) /\ Spaced(new)
    BY DEF TypeOK, AllSpaced, Ports
  <2> QED  BY <2>3, <2>4
<1>2. CASE new # k
  <2>1. k # <<>> /\ new = Tail(k)
    BY <1>2, NodeMoves DEF Moves, Forwards, Through, Ready
  <2> HIDE DEF k
  <2>2. Len(new) < BufferDepth
    BY <1>1, <2>1, QueueFacts
  <2> QED  BY <2>2 DEF Moving, Room
<1>3. CASE new = k /\ ~Through(n, d, v)
  <2>1. k = <<>> \/ Head(k).wait # 0 \/ Head(k).ring_dest = n
    BY <1>3 DEF Through, Ready
  <2> HIDE DEF k
  <2>2. CASE k = <<>>
    <3>1. Len(new) < BufferDepth
      BY <1>3, <2>2
    <3> QED  BY <3>1 DEF Moving, Room
  <2>3. CASE k # <<>> /\ Head(k).wait # 0
    <3>1. Len(new) < BufferDepth
      BY <1>1, <1>3, <2>3, TravellingAreFew
    <3> QED  BY <3>1 DEF Moving, Room
  <2>4. CASE Head(k).ring_dest = n
    BY <1>3, <2>4 DEF Moving
  <2> QED  BY <2>1, <2>2, <2>3, <2>4
<1> QED  BY <1>2, <1>3

\* A node's turn leaves something movable in each direction.
LEMMA NodeNeverWedges ==
  ASSUME TypeOK, TypeOK', AllSpaced', NeverWedged,
         NEW n \in Tiles, NEW d \in Dirs, Node(n, d)
  PROVE  NeverWedged'
<1> SUFFICES ASSUME NEW e \in Dirs, NEW v \in VCs
             PROVE  \E m \in Tiles : Moving(m, e, v)'
  BY DEF NeverWedged, Moving
<1>0. PICK m \in Tiles : Moving(m, e, v)
  BY DEF NeverWedged, Moving
<1>1. CASE e = d /\ (Forwards(n, d, v) \/ Enters(n, d, v))
           /\ (ring_in'[<<n, d, v>>] # Kept(n, d, v) \/ ~Through(n, d, v))
  BY <1>1, MoverMoves
<1>2. CASE /\ ring_in'[<<m, e, v>>] = ring_in[<<m, e, v>>]
  BY <1>0, <1>2 DEF Moving, Room
<1>3. CASE e = d /\ m = n /\ ring_in'[<<n, d, v>>] = Kept(n, d, v)
  <2> DEFINE old == ring_in[<<n, d, v>>]
             k == Kept(n, d, v)
  <2>1. old \in Seq(Flit) /\ Len(old) <= BufferDepth
    BY PortTypes
  <2>2. k = old \/ (old # <<>> /\ k = Tail(old))
    BY KeptFacts
  <2>3. CASE k = old
    BY <1>0, <1>3, <2>3 DEF Moving, Room
  <2>4. CASE old # <<>> /\ k = Tail(old)
    <3> HIDE DEF old, k
    <3>1. Len(k) < BufferDepth
      BY <2>1, <2>4, QueueFacts
    <3>2. Len(ring_in'[<<n, d, v>>]) < BufferDepth
      BY <1>3, <3>1 DEF k
    <3> QED  BY <1>3, <3>2 DEF Moving, Room
  <2> QED  BY <2>2, <2>3, <2>4
<1> QED
  <2>1. CASE e # d \/ m \notin {n, Neighbour(n, d)}
    BY <1>2, <2>1, NodeMoves
  <2>2. CASE e = d /\ m = n
    <3>1. \/ ring_in'[<<n, d, v>>] = Kept(n, d, v)
          \/ Forwards(n, d, v) /\ ring_in'[<<n, d, v>>] # Kept(n, d, v)
      BY NodeMoves DEF Moves
    <3> QED  BY <1>1, <1>3, <2>2, <3>1
  <2>3. CASE e = d /\ m = Neighbour(n, d)
    <3>1. CASE ring_in'[<<m, d, v>>] = ring_in[<<m, d, v>>]
      BY <1>2, <2>3, <3>1
    <3>2. CASE Enters(n, d, v)
      BY <1>1, <2>3, <3>2 DEF Enters
    <3>3. CASE Forwards(n, d, v) /\ ring_in'[<<n, d, v>>] = Tail(Kept(n, d, v))
      <4> DEFINE k == Kept(n, d, v)
      <4>1. k \in Seq(Flit) /\ k # <<>>
        BY <3>3, KeptFacts DEF Forwards, Through, Ready
      <4>2. Tail(k) # k
        <5> HIDE DEF k
        <5> QED  BY <4>1, QueueFacts
      <4> QED  BY <1>1, <2>3, <3>3, <4>2
    <3> QED  BY <2>3, <3>1, <3>2, <3>3, NodeMoves DEF Moves
  <2> QED  BY <2>1, <2>2, <2>3

\* The tiles' turns do not touch the ring.
LEMMA TileNeverWedges ==
  ASSUME TypeOK, NeverWedged, NEW t \in Tiles,
         Take(t) \/ Skip(t) \/ Send(t) \/ Rests(t)
  PROVE  NeverWedged'
<1>1. UNCHANGED ring_in \/ ring_in' = RingAfter
  <2>1. CASE Take(t) \/ Skip(t)
    BY <2>1 DEF Take, Skip, EndIngress
  <2>2. CASE Send(t) \/ Rests(t)
    BY <2>2, EndDmaType DEF Send, Rests
  <2> QED  BY <2>1, <2>2
<1>2. CASE UNCHANGED ring_in
  BY <1>2 DEF NeverWedged, Room
<1>3. CASE ring_in' = RingAfter
  <2> SUFFICES ASSUME NEW e \in Dirs, NEW v \in VCs
               PROVE  \E m \in Tiles : Moving(m, e, v)'
    BY DEF NeverWedged, Moving
  <2>0. PICK m \in Tiles : Moving(m, e, v)
    BY DEF NeverWedged, Moving
  <2> DEFINE q == ring_in[<<m, e, v>>]
             r == ring_in'[<<m, e, v>>]
  <2>1. q \in Seq(Flit) /\ r = Elapse(q)
    BY <1>3, PortTypes DEF RingAfter, Ports
  <2>2. Len(r) = Len(q) /\ (\A i \in 1 .. Len(q) : r[i].ring_dest = q[i].ring_dest)
        /\ r \in Seq(Flit)
    <3> HIDE DEF q, r
    <3> QED  BY <2>1, ElapseFacts
  <2>3. q # <<>> => r # <<>> /\ Head(r).ring_dest = Head(q).ring_dest
    <3> HIDE DEF q, r
    <3>1. q # <<>> => Len(q) > 0 /\ Head(q) = q[1] /\ 1 \in 1 .. Len(q)
      BY <2>1, QueueFacts
    <3>2. q # <<>> => r # <<>> /\ Head(r) = r[1]
      BY <2>2, <3>1, QueueFacts
    <3> QED  BY <2>2, <3>1, <3>2
  <2>4. CASE Room(m, e, v)
    BY <2>2, <2>4 DEF Moving, Room
  <2>5. CASE q = <<>>
    <3>1. Len(r) < BufferDepth
      BY <2>2, <2>5
    <3> QED  BY <3>1 DEF Moving, Room
  <2>6. CASE q # <<>> /\ Head(q).ring_dest = m
    BY <2>3, <2>6 DEF Moving
  <2> QED  BY <2>0, <2>4, <2>5, <2>6 DEF Moving
<1> QED  BY <1>1, <1>2, <1>3

-----------------------------------------------------------------------------
\* The types are part of the invariant.
LEMMA IInvType == IInv => TypeOK
  BY DEF IInv

\* So is the absence of a wedge.
LEMMA IInvWedge == IInv => NeverWedged
  BY DEF IInv

\* The invariant holds at the start.
LEMMA InitIInv == Init => IInv
<1> SUFFICES ASSUME Init PROVE IInv
  OBVIOUS
<1>1. TypeOK
  BY InitType
<1>2. \A n \in Tiles, d \in Dirs, v \in VCs : ring_in[<<n, d, v>>] = <<>>
  BY DEF Init, Ports
<1>3. \A q \in Ports : ring_in[q] = <<>>
  BY DEF Init
<1>4. AllSpaced
  BY <1>3 DEF AllSpaced, Spaced
<1>5. LinksUnused
  BY <1>2, NeighbourType DEF LinksUnused, LinkUnused
<1>6. NeverWedged
  <2>1. 0 \in Tiles /\ Len(<<>>) < BufferDepth
    BY DEF Tiles
  <2> QED  BY <1>2, <2>1 DEF NeverWedged, Room
<1> QED  BY <1>1, <1>4, <1>5, <1>6 DEF IInv

\* Every step keeps the invariant.
LEMMA NextIInv == IInv /\ [Next]_vars => IInv'
<1> SUFFICES ASSUME IInv, [Next]_vars PROVE IInv'
  OBVIOUS
<1>0. TypeOK /\ AllSpaced /\ LinksUnused /\ NeverWedged
  BY DEF IInv
<1>1. ASSUME NEW n \in Tiles, NEW d \in Dirs, Node(n, d)
      PROVE  IInv'
  <2>1. TypeOK'
    BY <1>0, <1>1, NodeType
  <2>2. AllSpaced' /\ LinksUnused'
    BY <1>0, <1>1, NodeSpaced, NodeLinks
  <2>3. NeverWedged'
    BY <1>0, <1>1, <2>1, <2>2, NodeNeverWedges
  <2> QED  BY <2>1, <2>2, <2>3 DEF IInv
<1>2. ASSUME NEW t \in Tiles, Take(t) \/ Skip(t) \/ Send(t) \/ Rests(t)
      PROVE  IInv'
  <2>1. TypeOK'
    BY <1>0, <1>2, IngressType, DmaType
  <2>2. AllSpaced' /\ LinksUnused' /\ NeverWedged'
    BY <1>0, <1>2, TileLinks, TileNeverWedges
  <2> QED  BY <2>1, <2>2 DEF IInv
<1>3. CASE UNCHANGED vars
  <2>1. TypeOK'
    BY <1>0, <1>3 DEF vars, TypeOK
  <2>2. AllSpaced'
    BY <1>0, <1>3 DEF vars, AllSpaced
  <2>3. LinksUnused'
    BY <1>0, <1>3 DEF vars, LinksUnused, LinkUnused
  <2>4. NeverWedged'
    BY <1>0, <1>3 DEF vars, NeverWedged, Room
  <2> QED  BY <2>1, <2>2, <2>3, <2>4 DEF IInv
<1> QED  BY <1>1, <1>2, <1>3 DEF Next

\* The strengthened invariant: why the ring keeps a free slot.
THEOREM Inductive == Spec => []IInv
  BY InitIInv, NextIInv, PTL DEF Spec

\* The types, and that no queue of the ring ever exceeds its capacity, with
\* any number of tiles sending any requests.
THEOREM TypeCorrect == Spec => []TypeOK
  BY Inductive, IInvType, PTL

\* RingNoC::tick never fills the input buffers of a direction with flits that
\* all wait for the next one to move, with any number of tiles, provided a
\* buffer holds more flits than a hop takes cycles.
THEOREM RingNeverWedges == Spec => []NeverWedged
  BY Inductive, IInvWedge, PTL

-----------------------------------------------------------------------------
(* What the queues of a virtual channel hold.                              *)

\* At each node a queue that travels and one that waits per direction, and
\* the tile's.
Lines == ({"ring", "inject"} \X Tiles \X Dirs) \cup ({"ingress"} \X Tiles \X {0})
Families == [Lines -> Seq(Flit)]
Family(r, w, g, v) ==
  [l \in Lines |-> IF l[1] = "ring" THEN r[<<l[2], l[3], v>>]
                   ELSE IF l[1] = "inject" THEN w[<<l[2], l[3], v>>]
                   ELSE g[<<l[2], v>>]]
Line(v) == Family(ring_in, inject, tile_ingress, v)

\* The requests a family has a flit of, and that it has one flit of each.
Requests == Tiles \X (Nat \ {0})
IdsOf(F) == {x \in Requests : \E l \in Lines : \E i \in DOMAIN F[l] : F[l][i].id = x}
Once(F) ==
  \A l, m \in Lines : \A i \in DOMAIN F[l], j \in DOMAIN F[m] :
    F[l][i].id = F[m][j].id => l = m /\ i = j

\* Where a request goes, which way round, and how many hops that is.
Dest(x) == plan[x[1]][x[2]]
Way(x) == ring_direction(x[1], Dest(x))
Hops(n, to, d) ==
  IF d = 0 THEN IF to >= n THEN to - n ELSE to - n + N
           ELSE IF n >= to THEN n - to ELSE n - to + N

\* A request waits at its source, travels nearer to its destination than
\* that, and leaves the ring there.
OnRoute(l, x) ==
  \/ l = <<"ingress", Dest(x), 0>>
  \/ l = <<"inject", x[1], Way(x)>>
  \/ /\ l[1] = "ring" /\ l[3] = Way(x)
     /\ Hops(l[2], Dest(x), Way(x)) < Hops(x[1], Dest(x), Way(x))
Routed(F) ==
  \A l \in Lines : \A i \in DOMAIN F[l] :
    /\ F[l][i].ring_dest = Dest(F[l][i].id)
    /\ F[l][i].ring_dest # F[l][i].id[1]
    /\ OnRoute(l, F[l][i].id)

\* Of two requests of a tile to another the earlier is ahead: nearer, or in
\* front of the later one in the same queue.
Rank(l, x) == IF l[1] = "ingress" THEN 0 ELSE 1 + Hops(l[2], Dest(x), Way(x))
Before(x, y) == x[1] = y[1] /\ x[2] < y[2] /\ Dest(x) = Dest(y)
InLine(F) ==
  \A l, m \in Lines : \A i \in DOMAIN F[l], j \in DOMAIN F[m] :
    Before(F[l][i].id, F[m][j].id)
      => Rank(l, F[l][i].id) < Rank(m, F[m][j].id) \/ (l = m /\ i < j)

\* The invariant: with what is known of the requests' flits, that none is
\* lost or doubled, and that they are consumed in order.
EachOnce == \A v \in VCs : Once(Line(v))
Planned == \A t \in Tiles : sent[t] <= Len(plan[t])
Underway == Routed(Line("REQ")) /\ InLine(Line("REQ"))
Delivery == EachOnce /\ Planned /\ Underway /\ NothingLost /\ InOrder

-----------------------------------------------------------------------------
(* Lines and families.                                                     *)

\* The three kinds of queues.
LEMMA LineShape ==
  ASSUME NEW l \in Lines
  PROVE  /\ l = <<l[1], l[2], l[3]>> /\ l[2] \in Tiles
         /\ \/ l[1] \in {"ring", "inject"} /\ l[3] \in Dirs
            \/ l[1] = "ingress" /\ l[3] = 0
  BY DEF Lines

\* The same, by name.
LEMMA LineCases ==
  ASSUME NEW l \in Lines
  PROVE  \/ \E n \in Tiles, d \in Dirs : l = <<"ring", n, d>>
         \/ \E n \in Tiles, d \in Dirs : l = <<"inject", n, d>>
         \/ \E n \in Tiles : l = <<"ingress", n, 0>>
  BY DEF Lines

\* Each port has its two, each tile its one.
LEMMA LineNames ==
  ASSUME NEW n \in Tiles, NEW d \in Dirs
  PROVE  /\ <<"ring", n, d>> \in Lines /\ <<"inject", n, d>> \in Lines
         /\ <<"ingress", n, 0>> \in Lines
  BY DEF Lines

\* The family of a channel holds these queues.
LEMMA FamilyFacts ==
  ASSUME NEW r \in [Ports -> Seq(Flit)], NEW w \in [Ports -> Seq(Flit)],
         NEW g \in [Tiles \X VCs -> Seq(Flit)], NEW v \in VCs
  PROVE  /\ Family(r, w, g, v) \in Families
         /\ \A n \in Tiles, d \in Dirs :
              /\ Family(r, w, g, v)[<<"ring", n, d>>] = r[<<n, d, v>>]
              /\ Family(r, w, g, v)[<<"inject", n, d>>] = w[<<n, d, v>>]
         /\ \A n \in Tiles : Family(r, w, g, v)[<<"ingress", n, 0>>] = g[<<n, v>>]
<1> DEFINE F == Family(r, w, g, v)
<1>1. F = [l \in Lines |-> F[l]]
  BY DEF Family
<1>2. ASSUME NEW n \in Tiles, NEW d \in Dirs
      PROVE  /\ F[<<"ring", n, d>>] = r[<<n, d, v>>]
             /\ F[<<"inject", n, d>>] = w[<<n, d, v>>]
             /\ F[<<"ring", n, d>>] \in Seq(Flit) /\ F[<<"inject", n, d>>] \in Seq(Flit)
  <2>1. <<n, d, v>> \in Ports
    BY DEF Ports
  <2>2. /\ F[<<"ring", n, d>>] = r[<<n, d, v>>]
        /\ F[<<"inject", n, d>>] = w[<<n, d, v>>]
    BY LineNames DEF Family
  <2>3. QED BY <2>1, <2>2
<1>3. ASSUME NEW n \in Tiles
      PROVE  F[<<"ingress", n, 0>>] = g[<<n, v>>] /\ F[<<"ingress", n, 0>>] \in Seq(Flit)
  <2>1. 0 \in Dirs
    BY DEF Dirs
  <2>2. F[<<"ingress", n, 0>>] = g[<<n, v>>]
    BY <2>1, LineNames DEF Family
  <2>3. QED BY <2>2
<1>4. ASSUME NEW l \in Lines PROVE F[l] \in Seq(Flit)
  <2> HIDE DEF F
  <2>1. QED BY <1>2, <1>3, LineCases
<1> HIDE DEF F
<1>5. F \in Families
  BY <1>1, <1>4 DEF Families
<1>6. QED BY <1>2, <1>3, <1>5 DEF F

\* The queues of a family, position by position.
LEMMA FamilyQueues ==
  ASSUME NEW F \in Families, NEW l \in Lines
  PROVE  /\ F[l] \in Seq(Flit) /\ Len(F[l]) \in Nat /\ DOMAIN F[l] = 1 .. Len(F[l])
         /\ \A i \in DOMAIN F[l] : /\ F[l][i] \in Flit /\ F[l][i].id \in Requests
                                   /\ F[l][i].ring_dest \in Tiles
<1>1. F[l] \in Seq(Flit)
  BY DEF Families
<1>2. \A i \in DOMAIN F[l] : F[l][i] \in Flit
  BY <1>1, QueueFacts
<1>3. QED BY <1>1, <1>2, FlitFacts DEF Requests

\* The queues of the state.
LEMMA LineFacts ==
  ASSUME TypeOK, NEW v \in VCs
  PROVE  /\ Line(v) \in Families
         /\ \A n \in Tiles, d \in Dirs : /\ Line(v)[<<"ring", n, d>>] = ring_in[<<n, d, v>>]
                                         /\ Line(v)[<<"inject", n, d>>] = inject[<<n, d, v>>]
         /\ \A n \in Tiles : Line(v)[<<"ingress", n, 0>>] = tile_ingress[<<n, v>>]
<1>1. /\ ring_in \in [Ports -> Seq(Flit)] /\ inject \in [Ports -> Seq(Flit)]
      /\ tile_ingress \in [Tiles \X VCs -> Seq(Flit)]
  BY DEF TypeOK
<1>2. LET G == Family(ring_in, inject, tile_ingress, v) IN
      /\ G \in Families
      /\ \A n \in Tiles, d \in Dirs : /\ G[<<"ring", n, d>>] = ring_in[<<n, d, v>>]
                                      /\ G[<<"inject", n, d>>] = inject[<<n, d, v>>]
      /\ \A n \in Tiles : G[<<"ingress", n, 0>>] = tile_ingress[<<n, v>>]
  BY ONLY <1>1, v \in VCs, FamilyFacts
<1>3. QED BY <1>2 DEF Line

\* Queued, of any queues.
QueuedIn(r, w, g, v) ==
  UNION ({Ids(r[q]) : q \in Tiles \X Dirs \X {v}}
           \cup {Ids(w[q]) : q \in Tiles \X Dirs \X {v}}
           \cup {Ids(g[q]) : q \in Tiles \X {v}})

\* What is queued somewhere is in the family of its channel ...
LEMMA QueuedIdsOf ==
  ASSUME NEW r \in [Ports -> Seq(Flit)], NEW w \in [Ports -> Seq(Flit)],
         NEW g \in [Tiles \X VCs -> Seq(Flit)], NEW v \in VCs
  PROVE  QueuedIn(r, w, g, v) = IdsOf(Family(r, w, g, v))
<1> DEFINE F == Family(r, w, g, v)
           Q == QueuedIn(r, w, g, v)
<1>0. /\ F \in Families
      /\ \A n \in Tiles, d \in Dirs : /\ F[<<"ring", n, d>>] = r[<<n, d, v>>]
                                      /\ F[<<"inject", n, d>>] = w[<<n, d, v>>]
      /\ \A n \in Tiles : F[<<"ingress", n, 0>>] = g[<<n, v>>]
  <2>1. F \in Families
    BY FamilyFacts
  <2>2. 0 \in Dirs
    BY DEF Dirs
  <2>3. QED BY <2>1, <2>2, LineNames DEF Family
<1> HIDE DEF F, Q
<1>1. ASSUME NEW x \in Q PROVE x \in IdsOf(F)
  <2>1. \/ \E n \in Tiles, d \in Dirs : x \in Ids(r[<<n, d, v>>])
        \/ \E n \in Tiles, d \in Dirs : x \in Ids(w[<<n, d, v>>])
        \/ \E n \in Tiles : x \in Ids(g[<<n, v>>])
    <3>1. \/ \E q \in Tiles \X Dirs \X {v} : x \in Ids(r[q])
          \/ \E q \in Tiles \X Dirs \X {v} : x \in Ids(w[q])
          \/ \E q \in Tiles \X {v} : x \in Ids(g[q])
      BY DEF Q, QueuedIn
    <3>2. /\ \A q \in Tiles \X Dirs \X {v} : \E n \in Tiles, d \in Dirs : q = <<n, d, v>>
          /\ \A q \in Tiles \X {v} : \E n \in Tiles : q = <<n, v>>
      OBVIOUS
    <3>3. QED BY <3>1, <3>2
  <2>2. \E l \in Lines : x \in Ids(F[l])
    <3>1. 0 \in Dirs
      BY DEF Dirs
    <3>2. QED BY <1>0, <2>1, <3>1, LineNames
  <2>3. PICK l \in Lines : x \in Ids(F[l])
    BY <2>2
  <2>4. PICK i \in DOMAIN F[l] : F[l][i].id = x
    BY <2>3 DEF Ids
  <2>5. x \in Requests
    BY <1>0, <2>4, FamilyQueues
  <2>6. QED BY <2>4, <2>5 DEF IdsOf
<1>2. ASSUME NEW x \in IdsOf(F) PROVE x \in Q
  <2>1. PICK l \in Lines : \E i \in DOMAIN F[l] : F[l][i].id = x
    BY DEF IdsOf
  <2>2. x \in Ids(F[l])
    BY <2>1 DEF Ids
  <2>3. \/ \E n \in Tiles, d \in Dirs : x \in Ids(r[<<n, d, v>>])
        \/ \E n \in Tiles, d \in Dirs : x \in Ids(w[<<n, d, v>>])
        \/ \E n \in Tiles : x \in Ids(g[<<n, v>>])
    <3>1. CASE \E n \in Tiles, d \in Dirs : l = <<"ring", n, d>>
      <4>1. PICK n \in Tiles, d \in Dirs : l = <<"ring", n, d>>
        BY <3>1
      <4>2. F[l] = r[<<n, d, v>>]
        BY <1>0, <4>1
      <4>3. QED BY <2>2, <4>2
    <3>2. CASE \E n \in Tiles, d \in Dirs : l = <<"inject", n, d>>
      <4>1. PICK n \in Tiles, d \in Dirs : l = <<"inject", n, d>>
        BY <3>2
      <4>2. F[l] = w[<<n, d, v>>]
        BY <1>0, <4>1
      <4>3. QED BY <2>2, <4>2
    <3>3. CASE \E n \in Tiles : l = <<"ingress", n, 0>>
      BY <1>0, <2>2, <3>3
    <3>4. QED BY <3>1, <3>2, <3>3, LineCases
  <2>4. CASE \E n \in Tiles, d \in Dirs : x \in Ids(r[<<n, d, v>>])
    <3>1. PICK q \in Tiles \X Dirs \X {v} : x \in Ids(r[q])
      BY <2>4
    <3>2. QED BY <3>1 DEF Q, QueuedIn
  <2>5. CASE \E n \in Tiles, d \in Dirs : x \in Ids(w[<<n, d, v>>])
    <3>1. PICK q \in Tiles \X Dirs \X {v} : x \in Ids(w[q])
      BY <2>5
    <3>2. QED BY <3>1 DEF Q, QueuedIn
  <2>6. CASE \E n \in Tiles : x \in Ids(g[<<n, v>>])
    <3>1. PICK q \in Tiles \X {v} : x \in Ids(g[q])
      BY <2>6
    <3>2. QED BY <3>1 DEF Q, QueuedIn
  <2>7. QED BY <2>3, <2>4, <2>5, <2>6
<1>3. QED BY <1>1, <1>2 DEF F, Q

\* ... now ...
LEMMA QueuedIds ==
  ASSUME TypeOK, NEW v \in VCs
  PROVE  Queued(v) = IdsOf(Line(v))
<1>1. /\ ring_in \in [Ports -> Seq(Flit)] /\ inject \in [Ports -> Seq(Flit)]
      /\ tile_ingress \in [Tiles \X VCs -> Seq(Flit)]
  BY DEF TypeOK
<1>2. QueuedIn(ring_in, inject, tile_ingress, v)
        = IdsOf(Family(ring_in, inject, tile_ingress, v))
  BY <1>1, QueuedIdsOf
<1>3. Queued(v) = QueuedIn(ring_in, inject, tile_ingress, v)
  BY Zenon DEF Queued, QueuedIn
<1>4. QED BY <1>2, <1>3 DEF Line

\* ... and after a step.
LEMMA QueuedIdsNext ==
  ASSUME TypeOK', NEW v \in VCs
  PROVE  Queued(v)' = IdsOf(Line(v)')
<1>1. /\ ring_in' \in [Ports -> Seq(Flit)] /\ inject' \in [Ports -> Seq(Flit)]
      /\ tile_ingress' \in [Tiles \X VCs -> Seq(Flit)]
  BY DEF TypeOK
<1>2. QueuedIn(ring_in', inject', tile_ingress', v)
        = IdsOf(Family(ring_in', inject', tile_ingress', v))
  BY <1>1, QueuedIdsOf
<1>3. Queued(v)' = QueuedIn(ring_in', inject', tile_ingress', v)
  BY Zenon DEF Queued, QueuedIn
<1>4. QED BY <1>2, <1>3 DEF Line

-----------------------------------------------------------------------------
(* Time passes, and flits leave: the queues lose a front part at most.     *)

\* The same request on its way to the same tile.
Same(f, g) == g.id = f.id /\ g.ring_dest = f.ring_dest

\* G is F without the first c flits of line a, as far as requests go.
Shifted(F, G, a, c) ==
  \A l \in Lines :
    LET s == IF l = a THEN c ELSE 0 IN
      /\ Len(F[l]) = Len(G[l]) + s
      /\ \A i \in 1 .. Len(G[l]) : Same(F[l][i + s], G[l][i])

\* A position of the rest is one of the whole.
LEMMA ShiftPlace ==
  ASSUME NEW F \in Families, NEW G \in Families, NEW a \in Lines, NEW c \in Nat,
         Shifted(F, G, a, c), NEW l \in Lines, NEW i \in DOMAIN G[l]
  PROVE  \E k \in DOMAIN F[l] : /\ k = i + (IF l = a THEN c ELSE 0)
                                /\ Same(F[l][k], G[l][i])
<1> DEFINE s == IF l = a THEN c ELSE 0
<1>1. /\ Len(G[l]) \in Nat /\ DOMAIN G[l] = 1 .. Len(G[l])
      /\ Len(F[l]) \in Nat /\ DOMAIN F[l] = 1 .. Len(F[l])
  BY FamilyQueues
<1>2. Len(F[l]) = Len(G[l]) + s /\ \A j \in 1 .. Len(G[l]) : Same(F[l][j + s], G[l][j])
  BY DEF Shifted
<1>3. s \in Nat
  OBVIOUS
<1> HIDE DEF s
<1>4. i + s \in DOMAIN F[l] /\ Same(F[l][i + s], G[l][i])
  BY <1>1, <1>2, <1>3
<1>5. QED BY <1>4 DEF s

\* What remains keeps its places relative to one another.
LEMMA ShiftKeeps ==
  ASSUME NEW F \in Families, NEW G \in Families, NEW a \in Lines, NEW c \in Nat,
         Shifted(F, G, a, c)
  PROVE  /\ Once(F) => Once(G)
         /\ Routed(F) => Routed(G)
         /\ InLine(F) => InLine(G)
<1>1. ASSUME Once(F) PROVE Once(G)
  <2> SUFFICES ASSUME NEW l \in Lines, NEW m \in Lines, NEW i \in DOMAIN G[l],
                      NEW j \in DOMAIN G[m], G[l][i].id = G[m][j].id
               PROVE  l = m /\ i = j
    BY DEF Once
  <2>1. PICK k \in DOMAIN F[l] : k = i + (IF l = a THEN c ELSE 0) /\ Same(F[l][k], G[l][i])
    BY ShiftPlace
  <2>2. PICK h \in DOMAIN F[m] : h = j + (IF m = a THEN c ELSE 0) /\ Same(F[m][h], G[m][j])
    BY ShiftPlace
  <2>3. F[l][k].id = F[m][h].id
    BY <2>1, <2>2 DEF Same
  <2>4. l = m /\ k = h
    BY <1>1, <2>3 DEF Once
  <2>5. i \in Int /\ j \in Int
    BY FamilyQueues
  <2>6. QED BY <2>1, <2>2, <2>4, <2>5
<1>2. ASSUME Routed(F) PROVE Routed(G)
  <2> SUFFICES ASSUME NEW l \in Lines, NEW i \in DOMAIN G[l]
               PROVE  /\ G[l][i].ring_dest = Dest(G[l][i].id)
                      /\ G[l][i].ring_dest # G[l][i].id[1]
                      /\ OnRoute(l, G[l][i].id)
    BY DEF Routed
  <2>1. PICK k \in DOMAIN F[l] : Same(F[l][k], G[l][i])
    BY ShiftPlace
  <2>2. /\ F[l][k].ring_dest = Dest(F[l][k].id) /\ F[l][k].ring_dest # F[l][k].id[1]
        /\ OnRoute(l, F[l][k].id)
    BY <1>2 DEF Routed
  <2>3. G[l][i].id = F[l][k].id /\ G[l][i].ring_dest = F[l][k].ring_dest
    BY <2>1 DEF Same
  <2>4. QED BY <2>2, <2>3
<1>3. ASSUME InLine(F) PROVE InLine(G)
  <2> SUFFICES ASSUME NEW l \in Lines, NEW m \in Lines, NEW i \in DOMAIN G[l],
                      NEW j \in DOMAIN G[m], Before(G[l][i].id, G[m][j].id)
               PROVE  Rank(l, G[l][i].id) < Rank(m, G[m][j].id) \/ (l = m /\ i < j)
    BY DEF InLine
  <2>1. PICK k \in DOMAIN F[l] : k = i + (IF l = a THEN c ELSE 0) /\ Same(F[l][k], G[l][i])
    BY ShiftPlace
  <2>2. PICK h \in DOMAIN F[m] : h = j + (IF m = a THEN c ELSE 0) /\ Same(F[m][h], G[m][j])
    BY ShiftPlace
  <2>3. Rank(l, G[l][i].id) < Rank(m, G[m][j].id) \/ (l = m /\ k < h)
    BY <1>3, <2>1, <2>2 DEF Same, InLine
  <2>4. i \in Int /\ j \in Int
    BY FamilyQueues
  <2>5. (l = m /\ k < h) => i < j
    BY <2>1, <2>2, <2>4
  <2>6. QED BY <2>3, <2>5
<1>4. QED BY <1>1, <1>2, <1>3

\* The requests that leave are those of the front part.
LEMMA ShiftIds ==
  ASSUME NEW F \in Families, NEW G \in Families, NEW a \in Lines, NEW c \in Nat,
         Shifted(F, G, a, c)
  PROVE  /\ c <= Len(F[a])
         /\ IdsOf(F) = IdsOf(G) \cup {F[a][i].id : i \in 1 .. c}
         /\ Once(F) => IdsOf(G) \cap {F[a][i].id : i \in 1 .. c} = {}
<1> DEFINE gone == {F[a][i].id : i \in 1 .. c}
<1>1. /\ c <= Len(F[a]) /\ DOMAIN F[a] = 1 .. Len(F[a]) /\ Len(F[a]) \in Nat
      /\ Len(F[a]) = Len(G[a]) + c /\ Len(G[a]) \in Nat
  BY FamilyQueues DEF Shifted
<1>2. ASSUME NEW x \in IdsOf(F) PROVE x \in IdsOf(G) \cup gone
  <2>1. PICK l \in Lines : \E i \in DOMAIN F[l] : F[l][i].id = x
    BY DEF IdsOf
  <2>2. PICK i \in DOMAIN F[l] : F[l][i].id = x
    BY <2>1
  <2>3. /\ Len(G[l]) \in Nat /\ DOMAIN G[l] = 1 .. Len(G[l])
        /\ Len(F[l]) \in Nat /\ DOMAIN F[l] = 1 .. Len(F[l])
        /\ \A k \in DOMAIN G[l] : G[l][k].id \in Requests
    BY FamilyQueues
  <2>4. CASE l = a /\ i <= c
    BY <2>2, <2>3, <2>4
  <2>5. CASE ~(l = a /\ i <= c)
    <3> DEFINE s == IF l = a THEN c ELSE 0
    <3>1. Len(F[l]) = Len(G[l]) + s /\ \A j \in 1 .. Len(G[l]) : Same(F[l][j + s], G[l][j])
      BY DEF Shifted
    <3>2. s \in Nat /\ i > s
      BY <2>3, <2>5
    <3> HIDE DEF s
    <3>3. i - s \in 1 .. Len(G[l]) /\ (i - s) + s = i
      BY <2>3, <3>1, <3>2
    <3>4. G[l][i - s].id = x
      BY <2>2, <3>1, <3>3 DEF Same
    <3>5. QED BY <2>3, <3>3, <3>4 DEF IdsOf
  <2>6. QED BY <2>4, <2>5
<1>3. ASSUME NEW x \in IdsOf(G)
      PROVE  x \in IdsOf(F) /\ (Once(F) => x \notin gone)
  <2>1. PICK l \in Lines : \E i \in DOMAIN G[l] : G[l][i].id = x
    BY DEF IdsOf
  <2>2. PICK i \in DOMAIN G[l] : G[l][i].id = x
    BY <2>1
  <2>3. PICK k \in DOMAIN F[l] : k = i + (IF l = a THEN c ELSE 0) /\ Same(F[l][k], G[l][i])
    BY ShiftPlace
  <2>4. x \in Requests /\ i \in Nat \ {0}
    BY <2>2, FamilyQueues
  <2>5. ASSUME Once(F), NEW h \in 1 .. c, F[a][h].id = x PROVE FALSE
    <3>1. h \in DOMAIN F[a]
      BY <1>1
    <3>2. l = a /\ k = h
      BY <2>2, <2>3, <2>5, <3>1 DEF Once, Same
    <3>3. QED BY <2>3, <2>4, <3>2
  <2>6. QED BY <2>2, <2>3, <2>4, <2>5 DEF Same, IdsOf
<1>4. ASSUME NEW x \in gone PROVE x \in IdsOf(F)
  <2>1. PICK i \in 1 .. c : F[a][i].id = x
    OBVIOUS
  <2>2. i \in DOMAIN F[a]
    BY <1>1
  <2>3. x \in Requests
    BY <2>1, <2>2, FamilyQueues
  <2>4. QED BY <2>1, <2>2, <2>3 DEF IdsOf
<1>5. QED BY <1>1, <1>2, <1>3, <1>4

-----------------------------------------------------------------------------
(* A flit joins a queue.                                                   *)

Added(F, G, b, g) == G[b] = Append(F[b], g) /\ \A l \in Lines \ {b} : G[l] = F[l]

\* A request of tile's that joins line b stays behind the earlier ones to the
\* same tile and in front of the later ones.
Fits(F, b, x) ==
  \A l \in Lines : \A i \in DOMAIN F[l] :
    /\ Before(F[l][i].id, x) => Rank(l, F[l][i].id) < Rank(b, x) \/ l = b
    /\ Before(x, F[l][i].id) => Rank(b, x) < Rank(l, F[l][i].id)

\* A position afterwards is an old one or the new one.
LEMMA AddPlace ==
  ASSUME NEW F \in Families, NEW G \in Families, NEW b \in Lines, NEW g \in Flit,
         Added(F, G, b, g), NEW l \in Lines
  PROVE  /\ \A i \in DOMAIN G[l] :
              \/ i \in DOMAIN F[l] /\ G[l][i] = F[l][i]
              \/ l = b /\ i = Len(F[b]) + 1 /\ G[l][i] = g
         /\ \A i \in DOMAIN F[l] : i \in DOMAIN G[l] /\ G[l][i] = F[l][i]
         /\ l = b => Len(F[b]) + 1 \in DOMAIN G[l] /\ G[l][Len(F[b]) + 1] = g
<1>1. /\ Len(G[l]) \in Nat /\ DOMAIN G[l] = 1 .. Len(G[l])
      /\ F[l] \in Seq(Flit) /\ Len(F[l]) \in Nat /\ DOMAIN F[l] = 1 .. Len(F[l])
  BY FamilyQueues
<1>2. CASE l # b
  BY <1>2 DEF Added
<1>3. CASE l = b
  <2>1. G[l] = Append(F[l], g)
    BY <1>3 DEF Added
  <2>2. /\ Len(G[l]) = Len(F[l]) + 1 /\ \A i \in 1 .. Len(F[l]) : G[l][i] = F[l][i]
        /\ G[l][Len(F[l]) + 1] = g
    BY <1>1, <2>1, AppendFacts
  <2>3. QED BY <1>1, <1>3, <2>2
<1>4. QED BY <1>2, <1>3

\* The requests afterwards.
LEMMA AddIds ==
  ASSUME NEW F \in Families, NEW G \in Families, NEW b \in Lines, NEW g \in Flit,
         Added(F, G, b, g)
  PROVE  IdsOf(G) = IdsOf(F) \cup {g.id}
<1>1. ASSUME NEW x \in IdsOf(G) PROVE x \in IdsOf(F) \cup {g.id}
  <2>1. PICK l \in Lines : \E i \in DOMAIN G[l] : G[l][i].id = x
    BY DEF IdsOf
  <2>2. PICK i \in DOMAIN G[l] : G[l][i].id = x
    BY <2>1
  <2>3. G[l][i] = g \/ (i \in DOMAIN F[l] /\ G[l][i] = F[l][i])
    BY AddPlace
  <2>4. QED BY <2>2, <2>3 DEF IdsOf
<1>2. ASSUME NEW x \in IdsOf(F) PROVE x \in IdsOf(G)
  <2>1. PICK l \in Lines : \E i \in DOMAIN F[l] : F[l][i].id = x
    BY DEF IdsOf
  <2>2. PICK i \in DOMAIN F[l] : F[l][i].id = x
    BY <2>1
  <2>3. i \in DOMAIN G[l] /\ G[l][i] = F[l][i]
    BY AddPlace
  <2>4. QED BY <2>2, <2>3 DEF IdsOf
<1>3. g.id \in IdsOf(G)
  <2>1. Len(F[b]) + 1 \in DOMAIN G[b] /\ G[b][Len(F[b]) + 1] = g
    BY AddPlace
  <2>2. g.id \in Requests
    BY FlitFacts DEF Requests
  <2>3. QED BY <2>1, <2>2 DEF IdsOf
<1>4. QED BY <1>1, <1>2, <1>3

\* A new request is there once, and in line if it fits.
LEMMA AddKeeps ==
  ASSUME NEW F \in Families, NEW G \in Families, NEW b \in Lines, NEW g \in Flit,
         Added(F, G, b, g)
  PROVE  /\ Once(F) /\ g.id \notin IdsOf(F) => Once(G)
         /\ Routed(F) /\ g.ring_dest = Dest(g.id) /\ g.ring_dest # g.id[1] /\ OnRoute(b, g.id)
              => Routed(G)
         /\ InLine(F) /\ Fits(F, b, g.id) => InLine(G)
<1> DEFINE e == Len(F[b]) + 1
<1>0. \A l \in Lines : \A i \in DOMAIN F[l] : F[l][i].id \in Requests /\ i \in Int
  BY FamilyQueues
<1>1. ASSUME Once(F), g.id \notin IdsOf(F) PROVE Once(G)
  <2> SUFFICES ASSUME NEW l \in Lines, NEW m \in Lines, NEW i \in DOMAIN G[l],
                      NEW j \in DOMAIN G[m], G[l][i].id = G[m][j].id
               PROVE  l = m /\ i = j
    BY DEF Once
  <2>1. \/ i \in DOMAIN F[l] /\ G[l][i] = F[l][i] /\ F[l][i].id # g.id
        \/ l = b /\ i = e /\ G[l][i] = g
    BY <1>0, <1>1, AddPlace DEF IdsOf
  <2>2. \/ j \in DOMAIN F[m] /\ G[m][j] = F[m][j] /\ F[m][j].id # g.id
        \/ m = b /\ j = e /\ G[m][j] = g
    BY <1>0, <1>1, AddPlace DEF IdsOf
  <2>3. QED BY <1>1, <2>1, <2>2 DEF Once
<1>2. ASSUME Routed(F), g.ring_dest = Dest(g.id), g.ring_dest # g.id[1], OnRoute(b, g.id)
      PROVE  Routed(G)
  <2> SUFFICES ASSUME NEW l \in Lines, NEW i \in DOMAIN G[l]
               PROVE  /\ G[l][i].ring_dest = Dest(G[l][i].id)
                      /\ G[l][i].ring_dest # G[l][i].id[1]
                      /\ OnRoute(l, G[l][i].id)
    BY DEF Routed
  <2>1. \/ i \in DOMAIN F[l] /\ G[l][i] = F[l][i]
        \/ l = b /\ G[l][i] = g
    BY AddPlace
  <2>2. QED BY <1>2, <2>1 DEF Routed
<1>3. ASSUME InLine(F), Fits(F, b, g.id) PROVE InLine(G)
  <2> SUFFICES ASSUME NEW l \in Lines, NEW m \in Lines, NEW i \in DOMAIN G[l],
                      NEW j \in DOMAIN G[m], Before(G[l][i].id, G[m][j].id)
               PROVE  Rank(l, G[l][i].id) < Rank(m, G[m][j].id) \/ (l = m /\ i < j)
    BY DEF InLine
  <2>1. \/ i \in DOMAIN F[l] /\ G[l][i] = F[l][i]
        \/ l = b /\ i = e /\ G[l][i] = g
    BY AddPlace
  <2>2. \/ j \in DOMAIN F[m] /\ G[m][j] = F[m][j]
        \/ m = b /\ j = e /\ G[m][j] = g
    BY AddPlace
  <2>3. CASE i \in DOMAIN F[l] /\ G[l][i] = F[l][i] /\ j \in DOMAIN F[m] /\ G[m][j] = F[m][j]
    BY <1>3, <2>3 DEF InLine
  <2>4. CASE i \in DOMAIN F[l] /\ G[l][i] = F[l][i] /\ m = b /\ j = e /\ G[m][j] = g
    <3>1. Rank(l, G[l][i].id) < Rank(m, G[m][j].id) \/ l = b
      BY <1>3, <2>4 DEF Fits
    <3>2. l = b => i < e
      BY <2>4, FamilyQueues
    <3>3. QED BY <2>4, <3>1, <3>2
  <2>5. CASE l = b /\ i = e /\ G[l][i] = g /\ j \in DOMAIN F[m] /\ G[m][j] = F[m][j]
    BY <1>3, <2>5 DEF Fits
  <2>6. CASE l = b /\ i = e /\ G[l][i] = g /\ m = b /\ j = e /\ G[m][j] = g
    <3>1. Before(g.id, g.id)
      BY <2>6
    <3>2. g.id[2] \in Nat
      BY FlitFacts
    <3>3. QED BY <3>1, <3>2 DEF Before
  <2>7. QED BY <2>1, <2>2, <2>3, <2>4, <2>5, <2>6
<1>4. QED BY <1>1, <1>2, <1>3

-----------------------------------------------------------------------------
(* A flit moves on.                                                        *)

\* Line b gets what was at the head of line a.
Advance(F, G, a, b) ==
  /\ a # b /\ F[a] # <<>> /\ G[a] = Tail(F[a])
  /\ \E g \in Flit : Same(Head(F[a]), g) /\ G[b] = Append(F[b], g)
  /\ \A l \in Lines \ {a, b} : G[l] = F[l]

\* It leaves, then joins.
LEMMA AdvanceParts ==
  ASSUME NEW F \in Families, NEW G \in Families, NEW a \in Lines, NEW b \in Lines,
         Advance(F, G, a, b)
  PROVE  /\ 1 \in DOMAIN F[a] /\ Head(F[a]) = F[a][1]
         /\ \E M \in Families, g \in Flit :
              /\ Shifted(F, M, a, 1) /\ Added(M, G, b, g)
              /\ g.id = F[a][1].id /\ g.ring_dest = F[a][1].ring_dest
<1>1. /\ F[a] \in Seq(Flit) /\ Len(F[a]) > 0 /\ 1 \in DOMAIN F[a] /\ Head(F[a]) = F[a][1]
      /\ Tail(F[a]) \in Seq(Flit) /\ Len(Tail(F[a])) = Len(F[a]) - 1 /\ Len(F[a]) \in Nat
      /\ \A i \in 1 .. Len(F[a]) - 1 : Tail(F[a])[i] = F[a][i + 1]
  BY FamilyQueues, QueueFacts DEF Advance
<1> DEFINE M == [F EXCEPT ![a] = Tail(F[a])]
<1>2. M \in Families
  BY <1>1 DEF Families
<1>3. M[a] = Tail(F[a]) /\ \A l \in Lines \ {a} : M[l] = F[l]
  BY DEF Families
<1> HIDE DEF M
<1>4. Shifted(F, M, a, 1)
  <2> SUFFICES ASSUME NEW l \in Lines
               PROVE  LET s == IF l = a THEN 1 ELSE 0 IN
                        /\ Len(F[l]) = Len(M[l]) + s
                        /\ \A i \in 1 .. Len(M[l]) : Same(F[l][i + s], M[l][i])
    BY DEF Shifted
  <2>1. CASE l = a
    <3>1. Len(F[a]) = Len(M[a]) + 1
      BY <1>1, <1>3
    <3>2. ASSUME NEW i \in 1 .. Len(M[a]) PROVE Same(F[a][i + 1], M[a][i])
      BY <1>1, <1>3 DEF Same
    <3>3. QED BY <2>1, <3>1, <3>2
  <2>2. CASE l # a
    <3>1. M[l] = F[l] /\ Len(F[l]) \in Nat
      BY <1>3, <2>2, FamilyQueues
    <3>2. QED BY <2>2, <3>1 DEF Same
  <2>3. QED BY <2>1, <2>2
<1>5. PICK g \in Flit : Same(Head(F[a]), g) /\ G[b] = Append(F[b], g)
  BY DEF Advance
<1>6. Added(M, G, b, g)
  BY <1>3, <1>5 DEF Advance, Added
<1>7. QED BY <1>1, <1>2, <1>4, <1>5, <1>6 DEF Same

\* A move loses and doubles nothing.
LEMMA AdvanceOnce ==
  ASSUME NEW F \in Families, NEW G \in Families, NEW a \in Lines, NEW b \in Lines,
         Advance(F, G, a, b), Once(F)
  PROVE  Once(G) /\ IdsOf(G) = IdsOf(F)
<1>1. PICK M \in Families, g \in Flit :
        /\ Shifted(F, M, a, 1) /\ Added(M, G, b, g)
        /\ g.id = F[a][1].id /\ g.ring_dest = F[a][1].ring_dest
  BY AdvanceParts
<1>2. Once(M)
  BY <1>1, ShiftKeeps
<1>3. {F[a][i].id : i \in 1 .. 1} = {g.id}
  <2>1. 1 .. 1 = {1}
    OBVIOUS
  <2>2. QED BY <1>1, <2>1
<1>4. IdsOf(F) = IdsOf(M) \cup {g.id} /\ g.id \notin IdsOf(M)
  <2>1. /\ IdsOf(F) = IdsOf(M) \cup {F[a][i].id : i \in 1 .. 1}
        /\ IdsOf(M) \cap {F[a][i].id : i \in 1 .. 1} = {}
    BY <1>1, ShiftIds
  <2>2. QED BY <1>3, <2>1
<1>5. Once(G) /\ IdsOf(G) = IdsOf(M) \cup {g.id}
  BY <1>1, <1>2, <1>4, AddKeeps, AddIds
<1>6. QED BY <1>4, <1>5

\* The hops that remain: none at the destination, and a number for each node.
LEMMA HopsFacts ==
  ASSUME NEW to \in Tiles, NEW d \in Dirs, NEW n \in Tiles
  PROVE  /\ Hops(n, to, d) \in 0 .. N - 1
         /\ Hops(n, to, d) = 0 <=> n = to
         /\ \A m \in Tiles : Hops(n, to, d) = Hops(m, to, d) => n = m
         /\ n # to => Hops(Neighbour(n, d), to, d) = Hops(n, to, d) - 1
<1>1. CASE d = 0
  BY <1>1 DEF Hops, Neighbour, Tiles
<1>2. CASE d = 1
  BY <1>2 DEF Hops, Neighbour, Tiles
<1>3. QED BY <1>1, <1>2 DEF Dirs

\* Of the lines a request passes each has a rank of its own.
LEMMA RankFacts ==
  ASSUME NEW x \in Requests, Dest(x) \in Tiles, NEW l \in Lines
  PROVE  /\ Rank(l, x) \in Nat /\ Way(x) \in Dirs
         /\ Rank(l, x) = 0 <=> l[1] = "ingress"
         /\ OnRoute(l, x) =>
              /\ \A m \in Lines : OnRoute(m, x) /\ Rank(l, x) = Rank(m, x) => l = m
              /\ l # <<"inject", x[1], Way(x)>>
                   => Rank(l, x) < Rank(<<"inject", x[1], Way(x)>>, x)
<1>1. /\ Way(x) \in Dirs /\ x[1] \in Tiles
  BY DirectionType DEF Way, Requests
<1> DEFINE h(n) == Hops(n, Dest(x), Way(x))
<1>2. \A n \in Tiles : h(n) \in Nat /\ \A m \in Tiles : h(n) = h(m) => n = m
  BY <1>1, HopsFacts
<1> HIDE DEF h
<1>3. \A m \in Lines : Rank(m, x) = IF m[1] = "ingress" THEN 0 ELSE 1 + h(m[2])
  BY DEF Rank, h
<1>4. \A m \in Lines : m[2] \in Tiles /\ m = <<m[1], m[2], m[3]>>
  BY LineShape
<1>5. Rank(l, x) \in Nat /\ (Rank(l, x) = 0 <=> l[1] = "ingress")
  BY <1>2, <1>3, <1>4
<1>6. ASSUME NEW m \in Lines, OnRoute(m, x)
      PROVE  \/ m[1] = "ingress" /\ m = <<"ingress", Dest(x), 0>> /\ Rank(m, x) = 0
             \/ /\ m[1] = "inject" /\ m = <<"inject", x[1], Way(x)>>
                /\ Rank(m, x) = 1 + h(x[1])
             \/ /\ m[1] = "ring" /\ m = <<"ring", m[2], Way(x)>>
                /\ Rank(m, x) = 1 + h(m[2]) /\ h(m[2]) < h(x[1])
  BY <1>3, <1>4, <1>6 DEF OnRoute, h
<1>7. Rank(<<"inject", x[1], Way(x)>>, x) = 1 + h(x[1])
  BY DEF Rank, h
<1>8. ASSUME OnRoute(l, x), NEW m \in Lines, OnRoute(m, x), Rank(l, x) = Rank(m, x)
      PROVE  l = m
  <2>1. h(l[2]) \in Nat /\ h(m[2]) \in Nat /\ h(x[1]) \in Nat
        /\ (h(l[2]) = h(m[2]) => l[2] = m[2])
    BY <1>1, <1>2, <1>4
  <2>2. QED BY <1>6, <1>8, <2>1
<1>9. ASSUME OnRoute(l, x), l # <<"inject", x[1], Way(x)>>
      PROVE  Rank(l, x) < Rank(<<"inject", x[1], Way(x)>>, x)
  <2>1. h(l[2]) \in Nat /\ h(x[1]) \in Nat
    BY <1>1, <1>2, <1>4
  <2>2. QED BY <1>6, <1>7, <1>9, <2>1
<1>10. QED BY <1>1, <1>5, <1>8, <1>9

\* Requests of one tile to another share their ranks and their route.
LEMMA BeforeShares ==
  ASSUME NEW x, NEW y, Before(x, y)
  PROVE  /\ Dest(x) = Dest(y) /\ Way(x) = Way(y)
         /\ \A l : Rank(l, x) = Rank(l, y) /\ (OnRoute(l, x) <=> OnRoute(l, y))
<1>1. Dest(x) = Dest(y) /\ Way(x) = Way(y) /\ x[1] = y[1]
  BY DEF Before, Way
<1>2. QED BY <1>1 DEF Rank, OnRoute

\* The next place on a request's route.
Onward(a, b, x) == OnRoute(b, x) /\ Rank(a, x) = Rank(b, x) + 1

\* A move onward keeps the requests on their routes and in line.
LEMMA AdvanceInLine ==
  ASSUME NEW F \in Families, NEW G \in Families, NEW a \in Lines, NEW b \in Lines,
         Advance(F, G, a, b), Routed(F), InLine(F), Once(F), Onward(a, b, F[a][1].id)
  PROVE  Routed(G) /\ InLine(G)
<1>0. 1 \in DOMAIN F[a]
  BY AdvanceParts
<1>1. PICK M \in Families, g \in Flit :
        /\ Shifted(F, M, a, 1) /\ Added(M, G, b, g)
        /\ g.id = F[a][1].id /\ g.ring_dest = F[a][1].ring_dest
  BY AdvanceParts
<1> DEFINE x == g.id
<1>2. Routed(M) /\ InLine(M)
  BY <1>1, ShiftKeeps
<1>3. /\ x \in Requests /\ g.ring_dest = Dest(x) /\ g.ring_dest # x[1] /\ g.ring_dest \in Tiles
      /\ OnRoute(a, x)
  <2>1. /\ F[a][1].ring_dest = Dest(F[a][1].id) /\ F[a][1].ring_dest # F[a][1].id[1]
        /\ OnRoute(a, F[a][1].id)
    BY <1>0 DEF Routed
  <2>2. QED BY <1>1, <2>1, FlitFacts DEF Requests
<1>4. OnRoute(b, x) /\ Rank(a, x) = Rank(b, x) + 1 /\ Rank(b, x) \in Nat
  BY <1>1, <1>3, RankFacts DEF Onward
<1>5. Fits(M, b, x)
  <2> SUFFICES ASSUME NEW l \in Lines, NEW i \in DOMAIN M[l]
               PROVE  /\ Before(M[l][i].id, x) => Rank(l, M[l][i].id) < Rank(b, x) \/ l = b
                      /\ Before(x, M[l][i].id) => Rank(b, x) < Rank(l, M[l][i].id)
    BY DEF Fits
  <2> DEFINE y == M[l][i].id
  <2>1. PICK k \in DOMAIN F[l] : k = i + (IF l = a THEN 1 ELSE 0) /\ Same(F[l][k], M[l][i])
    BY <1>1, ShiftPlace
  <2>2. F[l][k].id = y /\ F[a][1].id = x /\ i \in Nat \ {0} /\ y \in Requests
    BY <1>1, <2>1, FamilyQueues DEF Same
  <2>3. OnRoute(l, y) /\ M[l][i].ring_dest = Dest(y) /\ Dest(y) \in Tiles
    BY <1>2, FamilyQueues DEF Routed
  <2>4. Rank(l, y) \in Nat
    BY <2>2, <2>3, RankFacts
  <2> HIDE DEF x, y
  <2>5. ASSUME Before(y, x) PROVE Rank(l, y) < Rank(b, x) \/ l = b
    <3>1. Rank(l, y) < Rank(a, x) \/ (l = a /\ k < 1)
      BY <1>0, <2>2, <2>5 DEF InLine
    <3>2. ~(k < 1)
      BY <2>1, <2>2
    <3>3. Rank(l, y) < Rank(b, x) \/ Rank(l, y) = Rank(b, x)
      BY <1>4, <2>4, <3>1, <3>2
    <3>4. ASSUME Rank(l, y) = Rank(b, x) PROVE l = b
      <4>1. OnRoute(b, y) /\ Rank(b, y) = Rank(b, x)
        BY <1>4, <2>5, BeforeShares
      <4>2. \A m \in Lines : OnRoute(m, y) /\ Rank(l, y) = Rank(m, y) => l = m
        BY <2>2, <2>3, RankFacts
      <4>3. QED BY <3>4, <4>1, <4>2
    <3>5. QED BY <3>3, <3>4
  <2>6. ASSUME Before(x, y) PROVE Rank(b, x) < Rank(l, y)
    <3>1. Rank(a, x) < Rank(l, y) \/ l = a
      BY <1>0, <2>2, <2>6 DEF InLine
    <3>2. Rank(a, x) = Rank(a, y)
      BY <2>6, BeforeShares
    <3>3. QED BY <1>4, <2>4, <3>1, <3>2
  <2>7. QED BY <2>5, <2>6 DEF y
<1>6. QED BY <1>1, <1>2, <1>3, <1>4, <1>5, AddKeeps

-----------------------------------------------------------------------------
(* A node's turn: on each channel at most a flit leaves the ring, and then *)
(* at most one moves on.                                                   *)

\* What ejection leaves with the tiles.
LEMMA EjectFacts ==
  ASSUME TypeOK, NEW n \in Tiles, NEW d \in Dirs, Eject(n, d), NEW v \in VCs
  PROVE  /\ tile_ingress'[<<n, v>>] = Arrived(n, d, v)
         /\ \A m \in Tiles \ {n} : tile_ingress'[<<m, v>>] = tile_ingress[<<m, v>>]
<1> DEFINE a == Arrived(n, d, "REQ")
           b == Arrived(n, d, "RESP")
<1>1. tile_ingress' = [tile_ingress EXCEPT ![<<n, "REQ">>] = a, ![<<n, "RESP">>] = b]
  BY DEF Eject
<1>2. tile_ingress \in [Tiles \X VCs -> Seq(Flit)] /\ v \in {"REQ", "RESP"}
  BY DEF TypeOK, VCs
<1>3. \A m \in Tiles : <<m, v>> \in Tiles \X VCs
  OBVIOUS
<1> HIDE DEF a, b
<1>4. tile_ingress'[<<n, v>>] = IF v = "REQ" THEN a ELSE b
  BY <1>1, <1>2, <1>3
<1>5. \A m \in Tiles \ {n} : tile_ingress'[<<m, v>>] = tile_ingress[<<m, v>>]
  BY <1>1, <1>2, <1>3
<1>6. QED BY <1>2, <1>4, <1>5 DEF a, b

\* The queues of a channel in the middle of a node's turn.
Ejected(n, d, v) == Family(Rest(n, d), inject, tile_ingress', v)

\* The head of the node's buffer leaves the ring here, or nothing does.
LEMMA EjectStep ==
  ASSUME TypeOK, TypeOK', NEW n \in Tiles, NEW d \in Dirs, Eject(n, d), NEW v \in VCs
  PROVE  /\ Line(v) \in Families /\ Ejected(n, d, v) \in Families
         /\ \/ Ejected(n, d, v) = Line(v)
            \/ /\ Advance(Line(v), Ejected(n, d, v), <<"ring", n, d>>, <<"ingress", n, 0>>)
               /\ Line(v)[<<"ring", n, d>>][1].ring_dest = n
<1> DEFINE F == Line(v)
           M == Ejected(n, d, v)
           a == <<"ring", n, d>>
           b == <<"ingress", n, 0>>
           q == ring_in[<<n, d, v>>]
<1>1. /\ ring_in \in [Ports -> Seq(Flit)] /\ inject \in [Ports -> Seq(Flit)]
      /\ tile_ingress \in [Tiles \X VCs -> Seq(Flit)]
      /\ tile_ingress' \in [Tiles \X VCs -> Seq(Flit)]
      /\ Rest(n, d) \in [Ports -> Seq(Flit)]
  BY RestFacts DEF TypeOK
<1>2. /\ F \in Families
      /\ \A m \in Tiles, e \in Dirs : /\ F[<<"ring", m, e>>] = ring_in[<<m, e, v>>]
                                      /\ F[<<"inject", m, e>>] = inject[<<m, e, v>>]
      /\ \A m \in Tiles : F[<<"ingress", m, 0>>] = tile_ingress[<<m, v>>]
  BY LineFacts
<1>3. /\ M \in Families
      /\ \A m \in Tiles, e \in Dirs : /\ M[<<"ring", m, e>>] = Rest(n, d)[<<m, e, v>>]
                                      /\ M[<<"inject", m, e>>] = inject[<<m, e, v>>]
      /\ \A m \in Tiles : M[<<"ingress", m, 0>>] = tile_ingress'[<<m, v>>]
  <2>1. M \in Families
    BY <1>1, FamilyFacts DEF Ejected
  <2>2. ASSUME NEW m \in Tiles, NEW e \in Dirs
        PROVE  /\ M[<<"ring", m, e>>] = Rest(n, d)[<<m, e, v>>]
               /\ M[<<"inject", m, e>>] = inject[<<m, e, v>>]
    BY LineNames DEF Ejected, Family
  <2>3. ASSUME NEW m \in Tiles
        PROVE  M[<<"ingress", m, 0>>] = tile_ingress'[<<m, v>>]
    <3>1. 0 \in Dirs
      BY DEF Dirs
    <3>2. QED BY <3>1, LineNames DEF Ejected, Family
  <2>4. QED BY <2>1, <2>2, <2>3
<1>4. /\ Rest(n, d)[<<n, d, v>>] = Kept(n, d, v)
      /\ \A m \in Tiles, e \in Dirs :
           m # n \/ e # d => Rest(n, d)[<<m, e, v>>] = ring_in[<<m, e, v>>]
      /\ tile_ingress'[<<n, v>>] = Arrived(n, d, v)
      /\ \A m \in Tiles \ {n} : tile_ingress'[<<m, v>>] = tile_ingress[<<m, v>>]
  BY RestFacts, EjectFacts
<1> HIDE DEF F, M
<1>5. ASSUME NEW l \in Lines \ {a, b} PROVE M[l] = F[l]
  <2>1. CASE \E m \in Tiles, e \in Dirs : l = <<"ring", m, e>>
    <3>1. PICK m \in Tiles, e \in Dirs : l = <<"ring", m, e>>
      BY <2>1
    <3>2. m # n \/ e # d
      BY <3>1
    <3>3. M[l] = Rest(n, d)[<<m, e, v>>] /\ F[l] = ring_in[<<m, e, v>>]
      BY <1>2, <1>3, <3>1
    <3>4. QED BY <1>4, <3>2, <3>3
  <2>2. CASE \E m \in Tiles, e \in Dirs : l = <<"inject", m, e>>
    <3>1. PICK m \in Tiles, e \in Dirs : l = <<"inject", m, e>>
      BY <2>2
    <3>2. M[l] = inject[<<m, e, v>>] /\ F[l] = inject[<<m, e, v>>]
      BY <1>2, <1>3, <3>1
    <3>3. QED BY <3>2
  <2>3. CASE \E m \in Tiles : l = <<"ingress", m, 0>>
    <3>1. PICK m \in Tiles : l = <<"ingress", m, 0>>
      BY <2>3
    <3>2. m \in Tiles \ {n}
      BY <3>1
    <3>3. QED BY ZenonT(40), <1>2, <1>3, <1>4, <3>1, <3>2
  <2>4. QED BY <2>1, <2>2, <2>3, LineCases
<1>6. /\ a \in Lines /\ b \in Lines /\ a # b
      /\ F[a] = q /\ M[a] = Kept(n, d, v)
      /\ F[b] = tile_ingress[<<n, v>>] /\ M[b] = Arrived(n, d, v)
  BY <1>2, <1>3, <1>4, LineNames
<1> HIDE DEF a, b
<1>7. CASE Ejects(n, d, v)
  <2> DEFINE g == [Head(q) EXCEPT !.wait = 1]
  <2>1. q # <<>> /\ q \in Seq(Flit) /\ Head(q).ring_dest = n
    BY <1>7, PortTypes DEF Ejects, Ready
  <2>2. Head(q) \in Flit /\ 1 \in 0 .. HopLatency /\ Head(q) = q[1]
    BY <2>1, QueueFacts
  <2>3. g \in Flit /\ Same(Head(q), g)
    BY <2>2 DEF Same, Flit
  <2>4. Kept(n, d, v) = Tail(q) /\ Arrived(n, d, v) = Append(tile_ingress[<<n, v>>], g)
    BY <1>7 DEF Kept, Arrived
  <2> HIDE DEF g, q
  <2>5. Advance(F, M, a, b)
    BY <1>5, <1>6, <2>1, <2>3, <2>4 DEF Advance
  <2>6. F[a][1].ring_dest = n
    BY <1>6, <2>1, <2>2
  <2>7. QED BY <1>2, <1>3, <2>5, <2>6 DEF F, M, a, b
<1>8. CASE ~Ejects(n, d, v)
  <2>1. M[a] = F[a] /\ M[b] = F[b]
    BY <1>6, <1>8 DEF Kept, Arrived
  <2>2. \A l \in Lines : M[l] = F[l]
    BY <1>5, <2>1
  <2>3. M = F
    BY <1>2, <1>3, <2>2 DEF Families
  <2>4. QED BY <1>2, <1>3, <2>3 DEF F, M
<1>9. QED BY <1>7, <1>8

\* The queues of a channel after a step.
LEMMA LineFactsNext ==
  ASSUME TypeOK', NEW v \in VCs
  PROVE  /\ Line(v)' \in Families
         /\ \A n \in Tiles, d \in Dirs : /\ Line(v)'[<<"ring", n, d>>] = ring_in'[<<n, d, v>>]
                                         /\ Line(v)'[<<"inject", n, d>>] = inject'[<<n, d, v>>]
         /\ \A n \in Tiles : Line(v)'[<<"ingress", n, 0>>] = tile_ingress'[<<n, v>>]
<1> DEFINE G == Line(v)'
<1>1. /\ ring_in' \in [Ports -> Seq(Flit)] /\ inject' \in [Ports -> Seq(Flit)]
      /\ tile_ingress' \in [Tiles \X VCs -> Seq(Flit)]
  BY DEF TypeOK
<1>2. G \in Families
  BY <1>1, FamilyFacts DEF Line
<1>3. ASSUME NEW m \in Tiles, NEW e \in Dirs
      PROVE  G[<<"ring", m, e>>] = ring_in'[<<m, e, v>>]
             /\ G[<<"inject", m, e>>] = inject'[<<m, e, v>>]
  BY LineNames DEF Line, Family
<1>4. ASSUME NEW m \in Tiles
      PROVE  G[<<"ingress", m, 0>>] = tile_ingress'[<<m, v>>]
  <2>1. 0 \in Dirs
    BY DEF Dirs
  <2>2. QED BY <2>1, LineNames DEF Line, Family
<1>5. QED BY <1>2, <1>3, <1>4

\* What a node gives to its link, from what ejection left: nothing, the flit
\* that continues, or one that enters.
LinkUnchanged(n, d, v) ==
  \A m \in Tiles, e \in Dirs : /\ ring_in'[<<m, e, v>>] = Rest(n, d)[<<m, e, v>>]
                               /\ inject'[<<m, e, v>>] = inject[<<m, e, v>>]
LinkForwards(n, d, v) ==
  LET nb == Neighbour(n, d)
      R == Rest(n, d)
  IN /\ Through(n, d, v)
     /\ ring_in'[<<n, d, v>>] = Tail(R[<<n, d, v>>])
     /\ ring_in'[<<nb, d, v>>] = Append(R[<<nb, d, v>>], Hop(Head(R[<<n, d, v>>])))
     /\ \A m \in Tiles, e \in Dirs :
          /\ (m # n /\ m # nb) \/ e # d => ring_in'[<<m, e, v>>] = R[<<m, e, v>>]
          /\ inject'[<<m, e, v>>] = inject[<<m, e, v>>]
LinkEnters(n, d, v) ==
  LET nb == Neighbour(n, d)
      R == Rest(n, d)
  IN /\ inject[<<n, d, v>>] # <<>>
     /\ ring_in'[<<nb, d, v>>] = Append(R[<<nb, d, v>>], Hop(Head(inject[<<n, d, v>>])))
     /\ inject'[<<n, d, v>>] = Tail(inject[<<n, d, v>>])
     /\ \A m \in Tiles, e \in Dirs :
          /\ m # nb \/ e # d => ring_in'[<<m, e, v>>] = R[<<m, e, v>>]
          /\ m # n \/ e # d => inject'[<<m, e, v>>] = inject[<<m, e, v>>]

\* One of these on each channel.
LEMMA LinkMoves ==
  ASSUME TypeOK, NEW n \in Tiles, NEW d \in Dirs, Node(n, d), NEW v \in VCs
  PROVE  LinkUnchanged(n, d, v) \/ LinkForwards(n, d, v) \/ LinkEnters(n, d, v)
<1> DEFINE nb == Neighbour(n, d)
           R == Rest(n, d)
<1>0. /\ nb \in Tiles /\ nb # n
      /\ R \in [Ports -> Seq(Flit)] /\ inject \in [Ports -> Seq(Flit)]
      /\ R[<<n, d, v>>] = Kept(n, d, v)
  BY NeighbourType, RestFacts DEF TypeOK
<1>1. \A m \in Tiles, e \in Dirs, u \in VCs : <<m, e, u>> \in Ports
  BY DEF Ports
<1>2. ASSUME NEW u \in VCs, Forward(n, d, u)
      PROVE  /\ inject' = inject /\ Through(n, d, u)
             /\ ring_in' = [R EXCEPT ![<<n, d, u>>] = Tail(@),
                                     ![<<nb, d, u>>] = Append(@, Hop(Head(Kept(n, d, u))))]
  BY <1>2 DEF Forward, Forwards
<1>3. ASSUME NEW u \in VCs, Enter(n, d, u)
      PROVE  /\ inject[<<n, d, u>>] # <<>>
             /\ ring_in' = [R EXCEPT ![<<nb, d, u>>] = Append(@, Hop(Head(inject[<<n, d, u>>])))]
             /\ inject' = [inject EXCEPT ![<<n, d, u>>] = Tail(@)]
  BY <1>3 DEF Enter, Enters
<1>4. (\E u \in VCs : Forward(n, d, u) \/ Enter(n, d, u)) \/ LinkIdle(n, d)
  BY DEF Node
<1>5. CASE LinkIdle(n, d)
  <2>1. ring_in' = R /\ inject' = inject
    BY <1>5 DEF LinkIdle
  <2>2. QED BY <2>1 DEF LinkUnchanged
<1>6. ASSUME NEW u \in VCs, Forward(n, d, u), u = v
      PROVE  LinkForwards(n, d, v)
  <2> DEFINE f == Hop(Head(Kept(n, d, v)))
  <2>1. /\ inject' = inject /\ Through(n, d, v)
        /\ ring_in' = [R EXCEPT ![<<n, d, v>>] = Tail(@), ![<<nb, d, v>>] = Append(@, f)]
    BY <1>2, <1>6
  <2> HIDE DEF f, R, nb
  <2>2. /\ ring_in'[<<n, d, v>>] = Tail(R[<<n, d, v>>])
        /\ ring_in'[<<nb, d, v>>] = Append(R[<<nb, d, v>>], f)
        /\ \A m \in Tiles, e \in Dirs :
             (m # n /\ m # nb) \/ e # d => ring_in'[<<m, e, v>>] = R[<<m, e, v>>]
    BY <1>0, <1>1, <2>1
  <2>3. QED BY <1>0, <2>1, <2>2 DEF f, R, nb, LinkForwards
<1>7. ASSUME NEW u \in VCs, Enter(n, d, u), u = v
      PROVE  LinkEnters(n, d, v)
  <2> DEFINE f == Hop(Head(inject[<<n, d, v>>]))
  <2>1. /\ inject[<<n, d, v>>] # <<>>
        /\ ring_in' = [R EXCEPT ![<<nb, d, v>>] = Append(@, f)]
        /\ inject' = [inject EXCEPT ![<<n, d, v>>] = Tail(@)]
    BY <1>3, <1>7
  <2> HIDE DEF f, R, nb
  <2>2. /\ ring_in'[<<nb, d, v>>] = Append(R[<<nb, d, v>>], f)
        /\ \A m \in Tiles, e \in Dirs :
             m # nb \/ e # d => ring_in'[<<m, e, v>>] = R[<<m, e, v>>]
    BY <1>0, <1>1, <2>1
  <2>3. /\ inject'[<<n, d, v>>] = Tail(inject[<<n, d, v>>])
        /\ \A m \in Tiles, e \in Dirs :
             m # n \/ e # d => inject'[<<m, e, v>>] = inject[<<m, e, v>>]
    BY <1>0, <1>1, <2>1
  <2>4. QED BY <2>1, <2>2, <2>3 DEF f, R, nb, LinkEnters
<1>8. ASSUME NEW u \in VCs, Forward(n, d, u) \/ Enter(n, d, u), u # v
      PROVE  LinkUnchanged(n, d, v)
  <2>1. CASE Forward(n, d, u)
    <3> DEFINE f == Hop(Head(Kept(n, d, u)))
    <3>1. /\ inject' = inject
          /\ ring_in' = [R EXCEPT ![<<n, d, u>>] = Tail(@), ![<<nb, d, u>>] = Append(@, f)]
      BY <1>2, <2>1
    <3> HIDE DEF f, R, nb
    <3>2. \A m \in Tiles, e \in Dirs : /\ ring_in'[<<m, e, v>>] = R[<<m, e, v>>]
                                        /\ inject'[<<m, e, v>>] = inject[<<m, e, v>>]
      BY <1>0, <1>1, <1>8, <3>1
    <3>3. QED BY <3>2 DEF R, LinkUnchanged
  <2>2. CASE Enter(n, d, u)
    <3> DEFINE f == Hop(Head(inject[<<n, d, u>>]))
    <3>1. /\ ring_in' = [R EXCEPT ![<<nb, d, u>>] = Append(@, f)]
          /\ inject' = [inject EXCEPT ![<<n, d, u>>] = Tail(@)]
      BY <1>3, <2>2
    <3> HIDE DEF f, R, nb
    <3>2. \A m \in Tiles, e \in Dirs : /\ ring_in'[<<m, e, v>>] = R[<<m, e, v>>]
                                        /\ inject'[<<m, e, v>>] = inject[<<m, e, v>>]
      BY <1>0, <1>1, <1>8, <3>1
    <3>3. QED BY <3>2 DEF R, LinkUnchanged
  <2>3. QED BY <1>8, <2>1, <2>2
<1>9. QED BY <1>4, <1>5, <1>6, <1>7, <1>8

\* A flit given to the link goes on from the buffer or enters the ring.
LEMMA LinkStep ==
  ASSUME TypeOK, TypeOK', NEW n \in Tiles, NEW d \in Dirs, Node(n, d), NEW v \in VCs
  PROVE  LET M == Ejected(n, d, v)
             G == Line(v)'
             a == <<"ring", n, d>>
             b == <<"ring", Neighbour(n, d), d>>
         IN /\ G \in Families
            /\ \/ G = M
               \/ Advance(M, G, a, b) /\ M[a][1].ring_dest # n
               \/ Advance(M, G, <<"inject", n, d>>, b)
<1> DEFINE M == Ejected(n, d, v)
           G == Line(v)'
           nb == Neighbour(n, d)
           R(m, e) == Rest(n, d)[<<m, e, v>>]
           a == <<"ring", n, d>>
           w == <<"inject", n, d>>
           b == <<"ring", nb, d>>
<1>0. nb \in Tiles /\ nb # n
  BY NeighbourType
<1>1. /\ G \in Families
      /\ \A m \in Tiles, e \in Dirs : /\ G[<<"ring", m, e>>] = ring_in'[<<m, e, v>>]
                                      /\ G[<<"inject", m, e>>] = inject'[<<m, e, v>>]
      /\ \A m \in Tiles : G[<<"ingress", m, 0>>] = tile_ingress'[<<m, v>>]
  BY LineFactsNext
<1>2. M \in Families
  BY EjectStep DEF Node
<1>3. /\ \A m \in Tiles, e \in Dirs : /\ M[<<"ring", m, e>>] = R(m, e)
                                      /\ M[<<"inject", m, e>>] = inject[<<m, e, v>>]
      /\ \A m \in Tiles : M[<<"ingress", m, 0>>] = tile_ingress'[<<m, v>>]
  <2>1. 0 \in Dirs
    BY DEF Dirs
  <2>2. QED BY <2>1, LineNames DEF Ejected, Family
<1>4. R(n, d) = Kept(n, d, v)
  BY RestFacts
<1> HIDE DEF M, G, R, nb
<1>5. /\ a \in Lines /\ w \in Lines /\ b \in Lines /\ a # b /\ w # b
      /\ M[a] = R(n, d) /\ M[b] = R(nb, d) /\ M[w] = inject[<<n, d, v>>]
      /\ G[a] = ring_in'[<<n, d, v>>] /\ G[b] = ring_in'[<<nb, d, v>>]
      /\ G[w] = inject'[<<n, d, v>>]
  BY <1>0, <1>1, <1>3, LineNames
<1>6. CASE LinkUnchanged(n, d, v)
  <2>0. \A m \in Tiles, e \in Dirs : /\ ring_in'[<<m, e, v>>] = R(m, e)
                                     /\ inject'[<<m, e, v>>] = inject[<<m, e, v>>]
    BY <1>6 DEF LinkUnchanged, R, nb
  <2>1. ASSUME NEW l \in Lines PROVE G[l] = M[l]
    <3>1. CASE \E m \in Tiles, e \in Dirs : l = <<"ring", m, e>>
      <4>1. PICK m \in Tiles, e \in Dirs : l = <<"ring", m, e>>
        BY <3>1
      <4>2. G[l] = ring_in'[<<m, e, v>>] /\ M[l] = R(m, e)
        BY <1>1, <1>3, <4>1
      <4>3. QED BY <2>0, <4>2
    <3>2. CASE \E m \in Tiles, e \in Dirs : l = <<"inject", m, e>>
      <4>1. PICK m \in Tiles, e \in Dirs : l = <<"inject", m, e>>
        BY <3>2
      <4>2. G[l] = inject'[<<m, e, v>>] /\ M[l] = inject[<<m, e, v>>]
        BY <1>1, <1>3, <4>1
      <4>3. QED BY <2>0, <4>2
    <3>3. CASE \E m \in Tiles : l = <<"ingress", m, 0>>
      <4>1. PICK m \in Tiles : l = <<"ingress", m, 0>>
        BY <3>3
      <4>2. G[l] = tile_ingress'[<<m, v>>] /\ M[l] = tile_ingress'[<<m, v>>]
        BY <1>1, <1>3, <4>1
      <4>3. QED BY <4>2
    <3>4. QED BY <3>1, <3>2, <3>3, LineCases
  <2>2. G = M
    BY <1>1, <1>2, <2>1 DEF Families
  <2>3. QED BY <1>1, <2>2 DEF M, G
<1>7. CASE LinkForwards(n, d, v)
  <2>0. /\ Through(n, d, v)
        /\ ring_in'[<<n, d, v>>] = Tail(R(n, d))
        /\ ring_in'[<<nb, d, v>>] = Append(R(nb, d), Hop(Head(R(n, d))))
        /\ \A m \in Tiles, e \in Dirs :
             /\ (m # n /\ m # nb) \/ e # d => ring_in'[<<m, e, v>>] = R(m, e)
             /\ inject'[<<m, e, v>>] = inject[<<m, e, v>>]
    BY <1>7 DEF LinkForwards, R, nb
  <2>1. ASSUME NEW l \in Lines \ {a, b} PROVE G[l] = M[l]
    <3>1. CASE \E m \in Tiles, e \in Dirs : l = <<"ring", m, e>>
      <4>1. PICK m \in Tiles, e \in Dirs : l = <<"ring", m, e>>
        BY <3>1
      <4>2. (m # n /\ m # nb) \/ e # d
        BY <4>1
      <4>3. G[l] = ring_in'[<<m, e, v>>] /\ M[l] = R(m, e)
        BY <1>1, <1>3, <4>1
      <4>4. QED BY <2>0, <4>2, <4>3
    <3>2. CASE \E m \in Tiles, e \in Dirs : l = <<"inject", m, e>>
      <4>1. PICK m \in Tiles, e \in Dirs : l = <<"inject", m, e>>
        BY <3>2
      <4>2. G[l] = inject'[<<m, e, v>>] /\ M[l] = inject[<<m, e, v>>]
        BY <1>1, <1>3, <4>1
      <4>3. QED BY <2>0, <4>2
    <3>3. CASE \E m \in Tiles : l = <<"ingress", m, 0>>
      <4>1. PICK m \in Tiles : l = <<"ingress", m, 0>>
        BY <3>3
      <4>2. G[l] = tile_ingress'[<<m, v>>] /\ M[l] = tile_ingress'[<<m, v>>]
        BY <1>1, <1>3, <4>1
      <4>3. QED BY <4>2
    <3>4. QED BY <3>1, <3>2, <3>3, LineCases
  <2> DEFINE q == M[a]
  <2>2. q # <<>> /\ q \in Seq(Flit) /\ Head(q).ring_dest # n
    BY <1>2, <1>4, <1>5, <2>0, FamilyQueues DEF Through, Ready
  <2>3. Head(q) \in Flit /\ Head(q) = q[1]
    BY <2>2, QueueFacts
  <2>4. Hop(Head(q)) \in Flit /\ Same(Head(q), Hop(Head(q)))
    <3>1. HopLatency \in 0 .. HopLatency
      OBVIOUS
    <3>2. QED BY <2>3, <3>1 DEF Hop, Same, Flit
  <2> HIDE DEF a, b, w
  <2>5. G[a] = Tail(q) /\ G[b] = Append(M[b], Hop(Head(q)))
    BY <1>5, <2>0
  <2>6. Advance(M, G, a, b)
    BY <1>5, <2>1, <2>2, <2>4, <2>5 DEF Advance
  <2>7. QED BY <1>1, <2>2, <2>3, <2>6 DEF M, G, a, b, nb
<1>8. CASE LinkEnters(n, d, v)
  <2>0. /\ inject[<<n, d, v>>] # <<>>
        /\ ring_in'[<<nb, d, v>>] = Append(R(nb, d), Hop(Head(inject[<<n, d, v>>])))
        /\ inject'[<<n, d, v>>] = Tail(inject[<<n, d, v>>])
        /\ \A m \in Tiles, e \in Dirs :
             /\ m # nb \/ e # d => ring_in'[<<m, e, v>>] = R(m, e)
             /\ m # n \/ e # d => inject'[<<m, e, v>>] = inject[<<m, e, v>>]
    BY <1>8 DEF LinkEnters, R, nb
  <2>1. ASSUME NEW l \in Lines \ {w, b} PROVE G[l] = M[l]
    <3>1. CASE \E m \in Tiles, e \in Dirs : l = <<"ring", m, e>>
      <4>1. PICK m \in Tiles, e \in Dirs : l = <<"ring", m, e>>
        BY <3>1
      <4>2. m # nb \/ e # d
        BY <4>1
      <4>3. G[l] = ring_in'[<<m, e, v>>] /\ M[l] = R(m, e)
        BY <1>1, <1>3, <4>1
      <4>4. QED BY <2>0, <4>2, <4>3
    <3>2. CASE \E m \in Tiles, e \in Dirs : l = <<"inject", m, e>>
      <4>1. PICK m \in Tiles, e \in Dirs : l = <<"inject", m, e>>
        BY <3>2
      <4>2. m # n \/ e # d
        BY <4>1
      <4>3. G[l] = inject'[<<m, e, v>>] /\ M[l] = inject[<<m, e, v>>]
        BY <1>1, <1>3, <4>1
      <4>4. QED BY <2>0, <4>2, <4>3
    <3>3. CASE \E m \in Tiles : l = <<"ingress", m, 0>>
      <4>1. PICK m \in Tiles : l = <<"ingress", m, 0>>
        BY <3>3
      <4>2. G[l] = tile_ingress'[<<m, v>>] /\ M[l] = tile_ingress'[<<m, v>>]
        BY <1>1, <1>3, <4>1
      <4>3. QED BY <4>2
    <3>4. QED BY <3>1, <3>2, <3>3, LineCases
  <2> DEFINE q == M[w]
  <2>2. q # <<>> /\ q \in Seq(Flit)
    BY <1>2, <1>5, <2>0, FamilyQueues
  <2>3. Head(q) \in Flit
    BY <2>2, QueueFacts
  <2>4. Hop(Head(q)) \in Flit /\ Same(Head(q), Hop(Head(q)))
    <3>1. HopLatency \in 0 .. HopLatency
      OBVIOUS
    <3>2. QED BY <2>3, <3>1 DEF Hop, Same, Flit
  <2> HIDE DEF a, b, w
  <2>5. G[w] = Tail(q) /\ G[b] = Append(M[b], Hop(Head(q)))
    BY <1>5, <2>0
  <2>6. Advance(M, G, w, b)
    BY <1>5, <2>1, <2>2, <2>4, <2>5 DEF Advance
  <2>7. QED BY <1>1, <2>6 DEF M, G, w, b, nb
<1>9. QED BY <1>6, <1>7, <1>8, LinkMoves

\* A request that reached its destination leaves the ring there.
LEMMA OnwardOut ==
  ASSUME NEW x \in Requests, NEW n \in Tiles, NEW d \in Dirs, Dest(x) = n,
         OnRoute(<<"ring", n, d>>, x)
  PROVE  Onward(<<"ring", n, d>>, <<"ingress", n, 0>>, x)
<1>1. Way(x) \in Dirs
  BY DirectionType DEF Way
<1>2. Hops(n, n, Way(x)) = 0
  BY <1>1, HopsFacts
<1>3. QED BY <1>2 DEF Onward, OnRoute, Rank

\* Any other goes on in the direction it has.
LEMMA OnwardHop ==
  ASSUME NEW x \in Requests, NEW n \in Tiles, NEW d \in Dirs, Dest(x) \in Tiles, Dest(x) # n,
         NEW k \in {"ring", "inject"}, OnRoute(<<k, n, d>>, x)
  PROVE  Onward(<<k, n, d>>, <<"ring", Neighbour(n, d), d>>, x)
<1>1. /\ d = Way(x) /\ x[1] \in Tiles
      /\ \/ n = x[1]
         \/ Hops(n, Dest(x), d) < Hops(x[1], Dest(x), d)
  BY DEF OnRoute, Requests
<1>2. /\ Hops(Neighbour(n, d), Dest(x), d) = Hops(n, Dest(x), d) - 1
      /\ Hops(n, Dest(x), d) \in Nat /\ Hops(x[1], Dest(x), d) \in Nat
  BY <1>1, HopsFacts
<1>3. Hops(Neighbour(n, d), Dest(x), d) < Hops(x[1], Dest(x), d)
  BY <1>1, <1>2
<1>4. OnRoute(<<"ring", Neighbour(n, d), d>>, x)
  BY <1>1, <1>3 DEF OnRoute
<1>5. /\ Rank(<<k, n, d>>, x) = 1 + Hops(n, Dest(x), d)
      /\ Rank(<<"ring", Neighbour(n, d), d>>, x) = 1 + Hops(Neighbour(n, d), Dest(x), d)
  BY <1>1 DEF Rank
<1>6. QED BY <1>2, <1>4, <1>5 DEF Onward

\* The head of a line, if it has one, and where it goes.
LEMMA HeadRoute ==
  ASSUME NEW F \in Families, NEW l \in Lines, Routed(F), F[l] # <<>>
  PROVE  LET f == F[l][1] IN
         /\ f.id \in Requests /\ f.ring_dest = Dest(f.id) /\ f.ring_dest # f.id[1]
         /\ Dest(f.id) \in Tiles /\ OnRoute(l, f.id)
<1>1. 1 \in DOMAIN F[l]
  BY FamilyQueues, QueueFacts
<1>2. QED BY <1>1, FamilyQueues DEF Routed

\* The requests' flits that a node handles stay on their routes and in line.
LEMMA NodeRequests ==
  ASSUME TypeOK, TypeOK', NEW n \in Tiles, NEW d \in Dirs, Node(n, d),
         Once(Line("REQ")), Underway
  PROVE  Routed(Line("REQ")') /\ InLine(Line("REQ")')
<1> DEFINE F == Line("REQ")
           M == Ejected(n, d, "REQ")
           G == Line("REQ")'
           a == <<"ring", n, d>>
           w == <<"inject", n, d>>
           b == <<"ring", Neighbour(n, d), d>>
           out == <<"ingress", n, 0>>
<1>0. /\ "REQ" \in VCs /\ Eject(n, d) /\ Neighbour(n, d) \in Tiles
      /\ a \in Lines /\ w \in Lines /\ b \in Lines /\ out \in Lines
  BY NeighbourType, LineNames DEF VCs, Node
<1>1. /\ F \in Families /\ M \in Families
      /\ \/ M = F
         \/ Advance(F, M, a, out) /\ F[a][1].ring_dest = n
  BY <1>0, EjectStep
<1>2. /\ G \in Families
      /\ \/ G = M
         \/ Advance(M, G, a, b) /\ M[a][1].ring_dest # n
         \/ Advance(M, G, w, b)
  BY <1>0, LinkStep
<1>3. Routed(F) /\ InLine(F) /\ Once(F)
  BY DEF Underway
<1> HIDE DEF F, M, G
<1>4. Routed(M) /\ InLine(M) /\ Once(M)
  <2>1. CASE M = F
    BY <1>3, <2>1
  <2>2. CASE Advance(F, M, a, out) /\ F[a][1].ring_dest = n
    <3>1. F[a] # <<>>
      BY <2>2 DEF Advance
    <3>2. Onward(a, out, F[a][1].id)
      BY <1>0, <1>1, <1>3, <2>2, <3>1, HeadRoute, OnwardOut
    <3> HIDE DEF a, out
    <3>3. QED BY <1>0, <1>1, <1>3, <2>2, <3>2, AdvanceInLine, AdvanceOnce
  <2>3. QED BY <1>1, <2>1, <2>2
<1>5. Routed(G) /\ InLine(G)
  <2>1. CASE G = M
    BY <1>4, <2>1
  <2>2. CASE Advance(M, G, a, b) /\ M[a][1].ring_dest # n
    <3>1. M[a] # <<>>
      BY <2>2 DEF Advance
    <3>2. LET f == M[a][1] IN
          /\ f.id \in Requests /\ f.ring_dest = Dest(f.id)
          /\ Dest(f.id) \in Tiles /\ OnRoute(a, f.id)
      BY <1>0, <1>1, <1>4, <3>1, HeadRoute
    <3>3. Onward(a, b, M[a][1].id)
      BY <2>2, <3>2, OnwardHop
    <3> HIDE DEF a, b
    <3>4. QED BY <1>0, <1>1, <1>2, <1>4, <2>2, <3>3, AdvanceInLine
  <2>3. CASE Advance(M, G, w, b)
    <3>1. M[w] # <<>>
      BY <2>3 DEF Advance
    <3>2. LET f == M[w][1] IN
          /\ f.id \in Requests /\ f.ring_dest = Dest(f.id) /\ f.ring_dest # f.id[1]
          /\ Dest(f.id) \in Tiles /\ OnRoute(w, f.id)
      BY <1>0, <1>1, <1>4, <3>1, HeadRoute
    <3>3. M[w][1].id[1] = n
      BY <3>2 DEF OnRoute
    <3>4. Onward(w, b, M[w][1].id)
      BY <3>2, <3>3, OnwardHop
    <3> HIDE DEF w, b
    <3>5. QED BY <1>0, <1>1, <1>2, <1>4, <2>3, <3>4, AdvanceInLine
  <2>4. QED BY <1>2, <2>1, <2>2, <2>3
<1>6. QED BY <1>5 DEF G

\* A node's turn loses and doubles no flit of either channel.
LEMMA NodeOnce ==
  ASSUME TypeOK, TypeOK', NEW n \in Tiles, NEW d \in Dirs, Node(n, d), NEW v \in VCs,
         Once(Line(v))
  PROVE  Once(Line(v)') /\ IdsOf(Line(v)') = IdsOf(Line(v))
<1> DEFINE F == Line(v)
           M == Ejected(n, d, v)
           G == Line(v)'
           a == <<"ring", n, d>>
           w == <<"inject", n, d>>
           b == <<"ring", Neighbour(n, d), d>>
           out == <<"ingress", n, 0>>
<1>0. /\ Eject(n, d) /\ Neighbour(n, d) \in Tiles
      /\ a \in Lines /\ w \in Lines /\ b \in Lines /\ out \in Lines
  BY NeighbourType, LineNames DEF Node
<1>1. /\ F \in Families /\ M \in Families
      /\ M = F \/ Advance(F, M, a, out)
  BY <1>0, EjectStep
<1>2. /\ G \in Families
      /\ G = M \/ Advance(M, G, a, b) \/ Advance(M, G, w, b)
  BY <1>0, LinkStep
<1> HIDE DEF F, M, G, a, b, w, out
<1>3. Once(M) /\ IdsOf(M) = IdsOf(F)
  BY <1>0, <1>1, AdvanceOnce DEF F
<1>4. Once(G) /\ IdsOf(G) = IdsOf(M)
  BY <1>0, <1>1, <1>2, <1>3, AdvanceOnce
<1>5. QED BY <1>3, <1>4 DEF F, G

-----------------------------------------------------------------------------
(* A tile's turns.                                                         *)

\* Line a loses its first c flits, the others stay.
LEMMA CutShifts ==
  ASSUME NEW F \in Families, NEW G \in Families, NEW a \in Lines, NEW c \in 0 .. Len(F[a]),
         G[a] = SubSeq(F[a], c + 1, Len(F[a])), \A l \in Lines \ {a} : G[l] = F[l]
  PROVE  Shifted(F, G, a, c)
<1> SUFFICES ASSUME NEW l \in Lines
             PROVE  LET s == IF l = a THEN c ELSE 0 IN
                      /\ Len(F[l]) = Len(G[l]) + s
                      /\ \A i \in 1 .. Len(G[l]) : Same(F[l][i + s], G[l][i])
  BY DEF Shifted
<1>1. F[l] \in Seq(Flit) /\ Len(F[l]) \in Nat /\ F[a] \in Seq(Flit) /\ Len(F[a]) \in Nat
  BY FamilyQueues
<1>2. CASE l = a
  <2>1. /\ Len(G[a]) = Len(F[a]) - c
        /\ \A i \in 1 .. Len(G[a]) : G[a][i] = F[a][i + c]
    <3>1. \A i \in 1 .. Len(F[a]) - c : G[a][i] = F[a][(c + 1) + i - 1]
      BY <1>1
    <3>2. Len(G[a]) = Len(F[a]) - c
      BY <1>1
    <3>3. \A i \in 1 .. Len(F[a]) - c : (c + 1) + i - 1 = i + c
      BY <1>1
    <3>4. QED BY <3>1, <3>2, <3>3
  <2>2. Len(F[l]) = Len(G[l]) + c
    <3>1. Len(F[a]) = (Len(F[a]) - c) + c
      BY <1>1
    <3>2. QED BY <1>2, <2>1, <3>1
  <2>3. ASSUME NEW i \in 1 .. Len(G[l]) PROVE Same(F[l][i + c], G[l][i])
    BY <1>2, <2>1 DEF Same
  <2>4. QED BY <1>2, <2>2, <2>3
<1>3. CASE l # a
  <2>1. G[l] = F[l]
    BY <1>3
  <2>2. QED BY <1>1, <1>3, <2>1 DEF Same
<1>4. QED BY <1>2, <1>3

\* A tile takes in the answers that are visible.
LEMMA AbsorbFacts ==
  ASSUME TypeOK, NEW t \in Tiles, Absorb(t)
  PROVE  LET q == tile_ingress[<<t, "RESP">>]
             c == Visible(q)
         IN /\ c \in 0 .. Len(q)
            /\ Drained(t) = SubSeq(q, c + 1, Len(q))
            /\ answered' = answered \cup {q[i].id : i \in 1 .. c}
<1>1. tile_ingress[<<t, "RESP">>] \in Seq(Flit)
  BY DEF TypeOK, VCs
<1>2. QED BY <1>1, VisibleBounds DEF Absorb, Drained

\* The requests' flits at a tile's turn: one is taken, or none.
LEMMA IngressRequests ==
  ASSUME TypeOK, TypeOK', NEW t \in Tiles, Take(t) \/ Skip(t)
  PROVE  LET F == Line("REQ")
             G == Line("REQ")'
             a == <<"ingress", t, 0>>
         IN /\ Take(t) => /\ Shifted(F, G, a, 1)
                          /\ F[a][1].id = Head(tile_ingress[<<t, "REQ">>]).id
            /\ Skip(t) => G = F
<1> DEFINE F == Line("REQ")
           G == Line("REQ")'
           a == <<"ingress", t, 0>>
           q == tile_ingress[<<t, "REQ">>]
<1>0. "REQ" \in VCs /\ "RESP" \in VCs /\ a \in Lines /\ 0 \in Dirs
  BY LineNames DEF VCs, Dirs
<1>1. /\ F \in Families
      /\ \A m \in Tiles, e \in Dirs : /\ F[<<"ring", m, e>>] = ring_in[<<m, e, "REQ">>]
                                      /\ F[<<"inject", m, e>>] = inject[<<m, e, "REQ">>]
      /\ \A m \in Tiles : F[<<"ingress", m, 0>>] = tile_ingress[<<m, "REQ">>]
  BY <1>0, LineFacts
<1>2. /\ G \in Families
      /\ \A m \in Tiles, e \in Dirs : /\ G[<<"ring", m, e>>] = ring_in'[<<m, e, "REQ">>]
                                      /\ G[<<"inject", m, e>>] = inject'[<<m, e, "REQ">>]
      /\ \A m \in Tiles : G[<<"ingress", m, 0>>] = tile_ingress'[<<m, "REQ">>]
  BY <1>0, LineFactsNext
<1> HIDE DEF F, G
<1>3. /\ ring_in' = ring_in
      /\ \A m \in Tiles, e \in Dirs : inject'[<<m, e, "REQ">>] = inject[<<m, e, "REQ">>]
  <2>1. CASE Take(t)
    <3> DEFINE to == Head(q).id[1]
               p == <<t, ring_direction(t, to), "RESP">>
               f == [id |-> Head(q).id, ring_dest |-> to, wait |-> 0]
    <3>1. ring_in' = ring_in /\ inject' = [inject EXCEPT ![p] = Append(@, f)]
      BY <2>1 DEF Take, EndIngress, Route
    <3>2. /\ inject \in [Ports -> Seq(Flit)]
          /\ \A m \in Tiles, e \in Dirs :
               <<m, e, "REQ">> \in Ports /\ <<m, e, "REQ">> # p
      BY <1>0 DEF TypeOK, Ports
    <3> HIDE DEF p, f
    <3>3. QED BY <3>1, <3>2
  <2>2. CASE Skip(t)
    BY <2>2 DEF Skip, EndIngress
  <2>3. QED BY <2>1, <2>2
<1>4. /\ Take(t) => tile_ingress'[<<t, "REQ">>] = Tail(q) /\ q # <<>>
      /\ Skip(t) => tile_ingress'[<<t, "REQ">>] = q
      /\ \A m \in Tiles \ {t} : tile_ingress'[<<m, "REQ">>] = tile_ingress[<<m, "REQ">>]
  <2> DEFINE r == Drained(t)
             b == Tail(q)
  <2>1. /\ tile_ingress \in [Tiles \X VCs -> Seq(Flit)]
        /\ \A m \in Tiles : <<m, "REQ">> \in Tiles \X VCs /\ <<m, "RESP">> \in Tiles \X VCs
    BY <1>0 DEF TypeOK
  <2>2. CASE Take(t)
    <3>1. /\ tile_ingress' = [tile_ingress EXCEPT ![<<t, "RESP">>] = r, ![<<t, "REQ">>] = b]
          /\ q # <<>>
      BY <2>2 DEF Take, CanTake, Ready
    <3>2. ~Skip(t) \/ b = q
      BY <2>1, <2>2 DEF Take, Skip
    <3> HIDE DEF r, b
    <3>3. tile_ingress'[<<t, "REQ">>] = b
      BY <2>1, <3>1
    <3>4. \A m \in Tiles \ {t} : tile_ingress'[<<m, "REQ">>] = tile_ingress[<<m, "REQ">>]
      BY <2>1, <3>1
    <3>5. QED BY <3>1, <3>2, <3>3, <3>4 DEF b
  <2>3. CASE ~Take(t)
    <3>1. tile_ingress' = [tile_ingress EXCEPT ![<<t, "RESP">>] = r]
      BY <2>3 DEF Skip
    <3> HIDE DEF r
    <3>2. \A m \in Tiles : tile_ingress'[<<m, "REQ">>] = tile_ingress[<<m, "REQ">>]
      BY <2>1, <3>1
    <3>3. QED BY <2>3, <3>2
  <2>4. QED BY <2>2, <2>3
<1>5. ASSUME NEW l \in Lines \ {a} PROVE G[l] = F[l]
  <2>1. CASE \E m \in Tiles, e \in Dirs : l = <<"ring", m, e>>
    <3>1. PICK m \in Tiles, e \in Dirs : l = <<"ring", m, e>>
      BY <2>1
    <3>2. G[l] = ring_in'[<<m, e, "REQ">>] /\ F[l] = ring_in[<<m, e, "REQ">>]
      BY <1>1, <1>2, <3>1
    <3>3. QED BY <1>3, <3>2
  <2>2. CASE \E m \in Tiles, e \in Dirs : l = <<"inject", m, e>>
    <3>1. PICK m \in Tiles, e \in Dirs : l = <<"inject", m, e>>
      BY <2>2
    <3>2. G[l] = inject'[<<m, e, "REQ">>] /\ F[l] = inject[<<m, e, "REQ">>]
      BY <1>1, <1>2, <3>1
    <3>3. QED BY <1>3, <3>2
  <2>3. CASE \E m \in Tiles : l = <<"ingress", m, 0>>
    <3>1. PICK m \in Tiles : l = <<"ingress", m, 0>>
      BY <2>3
    <3>2. G[l] = tile_ingress'[<<m, "REQ">>] /\ F[l] = tile_ingress[<<m, "REQ">>]
      BY <1>1, <1>2, <3>1
    <3>3. m \in Tiles \ {t}
      BY <3>1
    <3>4. QED BY <1>4, <3>2, <3>3
  <2>4. QED BY <2>1, <2>2, <2>3, LineCases
<1>6. F[a] = q /\ G[a] = tile_ingress'[<<t, "REQ">>] /\ q \in Seq(Flit)
  BY <1>0, <1>1, <1>2, PortTypes
<1> HIDE DEF a, q
<1>7. ASSUME Take(t) PROVE Shifted(F, G, a, 1) /\ F[a][1].id = Head(q).id
  <2>1. q # <<>> /\ G[a] = Tail(q)
    BY <1>4, <1>6, <1>7
  <2>2. /\ Len(q) \in Nat /\ Len(q) > 0 /\ Head(q) = q[1]
    BY <1>6, <2>1, QueueFacts
  <2>3. G[a] = SubSeq(F[a], 1 + 1, Len(F[a])) /\ 1 \in 0 .. Len(F[a])
    BY <1>6, <2>1, <2>2
  <2>4. Shifted(F, G, a, 1)
    BY <1>0, <1>1, <1>2, <1>5, <2>3, CutShifts
  <2>5. QED BY <1>6, <2>2, <2>4
<1>8. ASSUME Skip(t) PROVE G = F
  <2>1. \A l \in Lines : G[l] = F[l]
    BY <1>4, <1>5, <1>6, <1>8
  <2>2. QED BY <1>1, <1>2, <2>1 DEF Families
<1>9. QED BY <1>7, <1>8 DEF F, G, a, q

\* The answers' flits at a tile's turn: the visible ones are taken, and the
\* answer to a request taken joins.
LEMMA IngressAnswers ==
  ASSUME TypeOK, TypeOK', NEW t \in Tiles, Take(t) \/ Skip(t)
  PROVE  LET F == Line("RESP")
             G == Line("RESP")'
             a == <<"ingress", t, 0>>
             id == Head(tile_ingress[<<t, "REQ">>]).id
         IN \E c \in Nat, M \in Families :
              /\ Shifted(F, M, a, c)
              /\ answered' = answered \cup {F[a][i].id : i \in 1 .. c}
              /\ \/ Skip(t) /\ G = M
                 \/ /\ Take(t)
                    /\ \E b \in Lines, g \in Flit : Added(M, G, b, g) /\ g.id = id
<1> DEFINE F == Line("RESP")
           G == Line("RESP")'
           a == <<"ingress", t, 0>>
           q == tile_ingress[<<t, "RESP">>]
           c == Visible(q)
           M == [F EXCEPT ![a] = Drained(t)]
           id == Head(tile_ingress[<<t, "REQ">>]).id
           to == id[1]
           b == <<"inject", t, ring_direction(t, to)>>
           g == [id |-> id, ring_dest |-> to, wait |-> 0]
<1>0. "REQ" \in VCs /\ "RESP" \in VCs /\ a \in Lines /\ 0 \in Dirs
  BY LineNames DEF VCs, Dirs
<1>1. /\ F \in Families
      /\ \A m \in Tiles, e \in Dirs : /\ F[<<"ring", m, e>>] = ring_in[<<m, e, "RESP">>]
                                      /\ F[<<"inject", m, e>>] = inject[<<m, e, "RESP">>]
      /\ \A m \in Tiles : F[<<"ingress", m, 0>>] = tile_ingress[<<m, "RESP">>]
  BY <1>0, LineFacts
<1>2. /\ G \in Families
      /\ \A m \in Tiles, e \in Dirs : /\ G[<<"ring", m, e>>] = ring_in'[<<m, e, "RESP">>]
                                      /\ G[<<"inject", m, e>>] = inject'[<<m, e, "RESP">>]
      /\ \A m \in Tiles : G[<<"ingress", m, 0>>] = tile_ingress'[<<m, "RESP">>]
  BY <1>0, LineFactsNext
<1>3. /\ c \in 0 .. Len(q) /\ Drained(t) = SubSeq(q, c + 1, Len(q))
      /\ answered' = answered \cup {q[i].id : i \in 1 .. c}
  BY AbsorbFacts DEF Take, Skip
<1>4. F[a] = q /\ q \in Seq(Flit) /\ Drained(t) \in Seq(Flit)
  BY <1>0, <1>1, PortTypes, AbsorbType DEF Take, Skip
<1> HIDE DEF F, G, c
<1>5. M \in Families /\ M[a] = Drained(t) /\ \A l \in Lines \ {a} : M[l] = F[l]
  BY <1>0, <1>1, <1>4 DEF Families
<1> HIDE DEF M
<1>6. Shifted(F, M, a, c) /\ c \in Nat
  <2>1. c \in 0 .. Len(F[a]) /\ M[a] = SubSeq(F[a], c + 1, Len(F[a]))
    BY <1>3, <1>4, <1>5
  <2>2. Shifted(F, M, a, c)
    BY <1>0, <1>1, <1>5, <2>1, CutShifts
  <2>3. QED BY <1>3, <2>2
<1>7. /\ ring_in' = ring_in
      /\ tile_ingress'[<<t, "RESP">>] = Drained(t)
      /\ \A m \in Tiles \ {t} : tile_ingress'[<<m, "RESP">>] = tile_ingress[<<m, "RESP">>]
  <2> DEFINE r == Drained(t)
             k == Tail(tile_ingress[<<t, "REQ">>])
  <2>1. /\ tile_ingress \in [Tiles \X VCs -> Seq(Flit)]
        /\ \A m \in Tiles : <<m, "REQ">> \in Tiles \X VCs /\ <<m, "RESP">> \in Tiles \X VCs
    BY <1>0 DEF TypeOK
  <2>2. \/ tile_ingress' = [tile_ingress EXCEPT ![<<t, "RESP">>] = r, ![<<t, "REQ">>] = k]
        \/ tile_ingress' = [tile_ingress EXCEPT ![<<t, "RESP">>] = r]
    BY DEF Take, Skip
  <2>3. ring_in' = ring_in
    BY DEF Take, Skip, EndIngress
  <2> HIDE DEF r, k
  <2>4. /\ tile_ingress'[<<t, "RESP">>] = r
        /\ \A m \in Tiles \ {t} : tile_ingress'[<<m, "RESP">>] = tile_ingress[<<m, "RESP">>]
    BY <2>1, <2>2
  <2>5. QED BY <2>3, <2>4 DEF r
<1>8. ASSUME NEW l \in Lines, \A m \in Tiles, e \in Dirs :
                                l = <<"inject", m, e>>
                                  => inject'[<<m, e, "RESP">>] = inject[<<m, e, "RESP">>]
      PROVE  G[l] = M[l]
  <2>1. CASE \E m \in Tiles, e \in Dirs : l = <<"ring", m, e>>
    <3>1. PICK m \in Tiles, e \in Dirs : l = <<"ring", m, e>>
      BY <2>1
    <3>2. l \in Lines \ {a}
      BY <3>1
    <3>3. G[l] = ring_in'[<<m, e, "RESP">>] /\ M[l] = ring_in[<<m, e, "RESP">>]
      BY <1>1, <1>2, <1>5, <3>1, <3>2
    <3>4. QED BY <1>7, <3>3
  <2>2. CASE \E m \in Tiles, e \in Dirs : l = <<"inject", m, e>>
    <3>1. PICK m \in Tiles, e \in Dirs : l = <<"inject", m, e>>
      BY <2>2
    <3>2. l \in Lines \ {a}
      BY <3>1
    <3>3. G[l] = inject'[<<m, e, "RESP">>] /\ M[l] = inject[<<m, e, "RESP">>]
      BY <1>1, <1>2, <1>5, <3>1, <3>2
    <3>4. QED BY <1>8, <3>1, <3>3
  <2>3. CASE \E m \in Tiles : l = <<"ingress", m, 0>>
    <3>1. PICK m \in Tiles : l = <<"ingress", m, 0>>
      BY <2>3
    <3>2. CASE m = t
      BY <1>2, <1>5, <1>7, <3>1, <3>2
    <3>3. CASE m # t
      <4>1. l \in Lines \ {a} /\ m \in Tiles \ {t}
        BY <3>1, <3>3
      <4>2. G[l] = tile_ingress'[<<m, "RESP">>] /\ M[l] = tile_ingress[<<m, "RESP">>]
        BY <1>1, <1>2, <1>5, <3>1, <4>1
      <4>3. QED BY <1>7, <4>1, <4>2
    <3>4. QED BY <3>2, <3>3
  <2>4. QED BY <2>1, <2>2, <2>3, LineCases
<1>9. answered' = answered \cup {F[a][i].id : i \in 1 .. c}
  BY <1>3, <1>4
<1>10. CASE Skip(t)
  <2>1. inject' = inject
    BY <1>10 DEF Skip
  <2>2. \A l \in Lines : G[l] = M[l]
    BY <1>8, <2>1
  <2>3. G = M
    BY <1>2, <1>5, <2>2 DEF Families
  <2>4. QED BY <1>5, <1>6, <1>9, <1>10, <2>3 DEF F, G, a
<1>11. CASE Take(t)
  <2>1. Route(t, to, "RESP", id) /\ tile_ingress[<<t, "REQ">>] # <<>>
    BY <1>11 DEF Take, CanTake, Ready
  <2>2. id \in Tiles \X (Nat \ {0}) /\ to \in Tiles
    BY <1>0, <2>1, PortTypes, QueueFacts, FlitFacts
  <2>3. /\ ring_direction(t, to) \in Dirs /\ b \in Lines /\ b # a
        /\ g \in Flit /\ g.id = id
    <3>1. ring_direction(t, to) \in Dirs /\ 0 \in 0 .. HopLatency
      BY DirectionType
    <3> HIDE DEF id, to
    <3>2. g \in Flit /\ g.id = id
      BY <2>2, <3>1 DEF Flit
    <3>3. b \in Lines /\ b # a
      BY <3>1, LineNames
    <3>4. QED BY <3>1, <3>2, <3>3
  <2> DEFINE d == ring_direction(t, to)
  <2> HIDE DEF id, to, g
  <2>4. /\ inject'[<<t, d, "RESP">>] = Append(inject[<<t, d, "RESP">>], g)
        /\ \A m \in Tiles, e \in Dirs :
             m # t \/ e # d => inject'[<<m, e, "RESP">>] = inject[<<m, e, "RESP">>]
    <3> DEFINE p == <<t, d, "RESP">>
    <3>1. inject' = [inject EXCEPT ![p] = Append(@, g)]
      BY <2>1 DEF Route, g
    <3>2. /\ inject \in [Ports -> Seq(Flit)] /\ p \in Ports
          /\ \A m \in Tiles, e \in Dirs :
               /\ <<m, e, "RESP">> \in Ports
               /\ m # t \/ e # d => <<m, e, "RESP">> # p
      BY <1>0, <2>3 DEF TypeOK, Ports
    <3> HIDE DEF p
    <3>3. inject'[p] = Append(inject[p], g)
      BY <3>1, <3>2
    <3>4. \A m \in Tiles, e \in Dirs :
            m # t \/ e # d => inject'[<<m, e, "RESP">>] = inject[<<m, e, "RESP">>]
      BY <3>1, <3>2
    <3>5. QED BY <3>3, <3>4 DEF p
  <2> HIDE DEF d
  <2>5. b = <<"inject", t, d>> /\ d \in Dirs
    BY <2>3 DEF d
  <2> HIDE DEF b
  <2>6. G[b] = Append(M[b], g)
    <3>1. M[b] = inject[<<t, d, "RESP">>] /\ G[b] = inject'[<<t, d, "RESP">>]
      BY <1>1, <1>2, <1>5, <2>3, <2>5
    <3>2. QED BY <2>4, <3>1
  <2>7. \A l \in Lines \ {b} : G[l] = M[l]
    <3> SUFFICES ASSUME NEW l \in Lines \ {b} PROVE G[l] = M[l]
      OBVIOUS
    <3>1. ASSUME NEW m \in Tiles, NEW e \in Dirs, l = <<"inject", m, e>>
          PROVE  inject'[<<m, e, "RESP">>] = inject[<<m, e, "RESP">>]
      <4>1. m # t \/ e # d
        BY <2>5, <3>1
      <4>2. QED BY <2>4, <4>1
    <3>2. QED BY <1>8, <3>1
  <2>8. Added(M, G, b, g)
    BY <2>6, <2>7 DEF Added
  <2>9. \E bb \in Lines, gg \in Flit : Added(M, G, bb, gg) /\ gg.id = id
    BY <2>3, <2>8
  <2>10. QED BY <1>5, <1>6, <1>9, <1>11, <2>9 DEF F, G, a, id
<1>12. QED BY <1>10, <1>11

\* Time changes no request.
LEMMA ElapseSame ==
  ASSUME NEW q \in Seq(Flit)
  PROVE  Len(Elapse(q)) = Len(q) /\ \A i \in 1 .. Len(q) : Same(q[i], Elapse(q)[i])
<1> DEFINE g(i) == [q[i] EXCEPT !.wait = IF q[i].wait = 0 THEN 0 ELSE q[i].wait - 1]
<1>1. Elapse(q) = [i \in 1 .. Len(q) |-> g(i)]
  BY DEF Elapse
<1>2. ASSUME NEW i \in 1 .. Len(q) PROVE Same(q[i], g(i))
  <2>1. q[i] \in Flit
    BY QueueFacts
  <2>2. QED BY <2>1 DEF Same, Flit
<1> HIDE DEF g
<1>3. QED BY <1>1, <1>2, ElapseFacts

\* The queues of a channel before the end of a tile's turn at its engine.
Routing(v) == Family(ring_in, inject', tile_ingress, v)

\* The end of the turn, and of the cycle, takes no flit anywhere.
LEMMA EndShift ==
  ASSUME TypeOK, TypeOK', NEW t \in Tiles, DmaTurn(t), EndDma(t), NEW v \in VCs, NEW a \in Lines
  PROVE  Routing(v) \in Families /\ Shifted(Routing(v), Line(v)', a, 0)
<1> DEFINE M == Routing(v)
           G == Line(v)'
<1>0. /\ ring_in \in [Ports -> Seq(Flit)] /\ inject' \in [Ports -> Seq(Flit)]
      /\ tile_ingress \in [Tiles \X VCs -> Seq(Flit)]
  BY DEF TypeOK
<1>1. M \in Families
  BY <1>0, FamilyFacts DEF Routing
<1>2. /\ \A m \in Tiles, e \in Dirs : /\ M[<<"ring", m, e>>] = ring_in[<<m, e, v>>]
                                      /\ M[<<"inject", m, e>>] = inject'[<<m, e, v>>]
      /\ \A m \in Tiles : M[<<"ingress", m, 0>>] = tile_ingress[<<m, v>>]
  <2>1. 0 \in Dirs
    BY DEF Dirs
  <2>2. QED BY <2>1, LineNames DEF Routing, Family
<1>3. /\ G \in Families
      /\ \A m \in Tiles, e \in Dirs : /\ G[<<"ring", m, e>>] = ring_in'[<<m, e, v>>]
                                      /\ G[<<"inject", m, e>>] = inject'[<<m, e, v>>]
      /\ \A m \in Tiles : G[<<"ingress", m, 0>>] = tile_ingress'[<<m, v>>]
  BY LineFactsNext
<1> HIDE DEF M, G
<1>4. (ring_in' = ring_in /\ tile_ingress' = tile_ingress)
      \/ (ring_in' = RingAfter /\ tile_ingress' = IngressAfter)
  BY EndDmaType
<1>5. ASSUME NEW l \in Lines PROVE G[l] = M[l] \/ G[l] = Elapse(M[l])
  <2>1. CASE \E m \in Tiles, e \in Dirs : l = <<"ring", m, e>>
    <3>1. PICK m \in Tiles, e \in Dirs : l = <<"ring", m, e>>
      BY <2>1
    <3>2. G[l] = ring_in'[<<m, e, v>>] /\ M[l] = ring_in[<<m, e, v>>] /\ <<m, e, v>> \in Ports
      BY <1>2, <1>3, <3>1 DEF Ports
    <3>3. QED BY <1>4, <3>2 DEF RingAfter
  <2>2. CASE \E m \in Tiles, e \in Dirs : l = <<"inject", m, e>>
    <3>1. PICK m \in Tiles, e \in Dirs : l = <<"inject", m, e>>
      BY <2>2
    <3>2. G[l] = inject'[<<m, e, v>>] /\ M[l] = inject'[<<m, e, v>>]
      BY <1>2, <1>3, <3>1
    <3>3. QED BY <3>2
  <2>3. CASE \E m \in Tiles : l = <<"ingress", m, 0>>
    <3>1. PICK m \in Tiles : l = <<"ingress", m, 0>>
      BY <2>3
    <3>2. /\ G[l] = tile_ingress'[<<m, v>>] /\ M[l] = tile_ingress[<<m, v>>]
          /\ <<m, v>> \in Tiles \X VCs
      BY <1>2, <1>3, <3>1
    <3>3. QED BY <1>4, <3>2 DEF IngressAfter
  <2>4. QED BY <2>1, <2>2, <2>3, LineCases
<1>6. ASSUME NEW l \in Lines
      PROVE  Len(M[l]) = Len(G[l]) /\ \A i \in 1 .. Len(G[l]) : Same(M[l][i], G[l][i])
  <2>1. CASE G[l] = M[l]
    BY <2>1 DEF Same
  <2>2. CASE G[l] = Elapse(M[l])
    <3>1. M[l] \in Seq(Flit)
      BY <1>1, FamilyQueues
    <3>2. QED BY <2>2, <3>1, ElapseSame
  <2>3. QED BY <1>5, <2>1, <2>2
<1>7. ASSUME NEW l \in Lines
      PROVE  LET s == IF l = a THEN 0 ELSE 0 IN
               /\ Len(M[l]) = Len(G[l]) + s
               /\ \A i \in 1 .. Len(G[l]) : Same(M[l][i + s], G[l][i])
  <2>1. /\ Len(M[l]) \in Nat /\ Len(G[l]) \in Nat
        /\ \A i \in 1 .. Len(G[l]) : i + 0 = i
    BY <1>1, <1>3, FamilyQueues
  <2>2. Len(G[l]) + 0 = Len(G[l])
    BY <2>1
  <2>3. QED BY <1>6, <2>1, <2>2
<1>8. Shifted(M, G, a, 0)
  BY <1>7 DEF Shifted
<1>9. QED BY <1>1, <1>8 DEF M, G

\* A push's next request joins the queue at its source; nothing else changes
\* there.
LEMMA SendAdds ==
  ASSUME TypeOK, TypeOK', NEW t \in Tiles, Send(t)
  PROVE  LET k == sent[t] + 1
             to == plan[t][k]
             g == [id |-> <<t, k>>, ring_dest |-> to, wait |-> 0]
         IN /\ to \in Tiles /\ to # t /\ g \in Flit /\ k \in Nat \ {0} /\ k <= Len(plan[t])
            /\ Added(Line("REQ"), Routing("REQ"), <<"inject", t, ring_direction(t, to)>>, g)
            /\ Routing("RESP") = Line("RESP")
<1> DEFINE k == sent[t] + 1
           to == plan[t][k]
           d == ring_direction(t, to)
           g == [id |-> <<t, k>>, ring_dest |-> to, wait |-> 0]
           p == <<t, d, "REQ">>
           b == <<"inject", t, d>>
<1>0. "REQ" \in VCs /\ "RESP" \in VCs /\ 0 \in 0 .. HopLatency /\ 0 \in Dirs
  BY DEF VCs, Dirs
<1>1. /\ sent[t] \in Nat /\ plan \in Plans /\ k \in Nat \ {0}
      /\ inject \in [Ports -> Seq(Flit)]
  BY DEF TypeOK
<1>2. plan[t] \in Seq(Tiles) /\ k <= Len(plan[t])
  BY <1>1 DEF Send, CanSend
<1>3. to \in Tiles /\ to # t
  <2>1. k \in DOMAIN plan[t]
    BY <1>1, <1>2
  <2>2. QED BY <1>1, <1>2, <2>1
<1>4. inject' = [inject EXCEPT ![p] = Append(@, g)]
  BY DEF Send, Route
<1> HIDE DEF k, to
<1>5. d \in Dirs /\ g \in Flit /\ p \in Ports /\ b \in Lines
  <2>1. d \in Dirs
    BY DirectionType
  <2>2. g \in Flit
    BY <1>0, <1>1, <1>3 DEF Flit
  <2>3. QED BY <1>0, <2>1, <2>2, LineNames DEF Ports
<1> HIDE DEF g, d
<1>6. inject'[p] = Append(inject[p], g)
  BY <1>1, <1>4, <1>5
<1>7. \A m \in Tiles, e \in Dirs, v \in VCs :
        <<m, e, v>> # p => inject'[<<m, e, v>>] = inject[<<m, e, v>>]
  BY <1>1, <1>4 DEF Ports
<1>8. ASSUME NEW v \in VCs, NEW l \in Lines, v = "RESP" \/ l # b
      PROVE  Routing(v)[l] = Line(v)[l]
  <2>1. CASE l[1] # "inject"
    BY <2>1 DEF Routing, Line, Family
  <2>2. CASE l[1] = "inject"
    <3>1. l = <<"inject", l[2], l[3]>> /\ l[2] \in Tiles /\ l[3] \in Dirs
      BY <2>2, LineShape
    <3>2. <<l[2], l[3], v>> # p
      BY <1>8, <3>1
    <3>3. Routing(v)[l] = inject'[<<l[2], l[3], v>>] /\ Line(v)[l] = inject[<<l[2], l[3], v>>]
      BY <2>2 DEF Routing, Line, Family
    <3>4. QED BY <1>7, <3>1, <3>2, <3>3
  <2>3. QED BY <2>1, <2>2
<1>9. Routing("RESP") = Line("RESP")
  <2> DEFINE F == Line("RESP")
             M == Routing("RESP")
  <2>1. F = [l \in Lines |-> F[l]] /\ M = [l \in Lines |-> M[l]]
    BY DEF Routing, Line, Family
  <2>2. \A l \in Lines : M[l] = F[l]
    BY <1>0, <1>8
  <2> HIDE DEF F, M
  <2>3. M = F
    BY <2>1, <2>2
  <2>4. QED BY <2>3 DEF F, M
<1>10. Routing("REQ")[b] = Append(Line("REQ")[b], g)
  <2>1. Routing("REQ")[b] = inject'[p] /\ Line("REQ")[b] = inject[p]
    BY <1>5 DEF Routing, Line, Family
  <2>2. QED BY <1>6, <2>1
<1>11. Added(Line("REQ"), Routing("REQ"), b, g)
  BY <1>0, <1>8, <1>10 DEF Added
<1>12. QED BY <1>1, <1>2, <1>3, <1>5, <1>9, <1>11 DEF k, to, d, g

\* A tile that sends nothing changes no queue.
LEMMA RestsAdds ==
  ASSUME NEW t \in Tiles, Rests(t), NEW v \in VCs
  PROVE  Routing(v) = Line(v)
  BY DEF Rests, Routing, Line

-----------------------------------------------------------------------------
(* The invariant.                                                          *)

\* The requests sent, with s[t] of tile t's.
SentOf(s) == {x \in Requests : x[2] <= s[x[1]]}
Sent == SentOf(sent)

\* They are those that NothingLost speaks of.
LEMMA SentIs ==
  ASSUME NEW s \in [Tiles -> Nat]
  PROVE  UNION {{t} \X (1 .. s[t]) : t \in Tiles} = SentOf(s)
<1>2. ASSUME NEW x \in UNION {{t} \X (1 .. s[t]) : t \in Tiles} PROVE x \in SentOf(s)
  <2>1. PICK t \in Tiles : x \in {t} \X (1 .. s[t])
    OBVIOUS
  <2>2. QED BY <2>1 DEF SentOf, Requests
<1>3. ASSUME NEW x \in SentOf(s) PROVE x \in UNION {{t} \X (1 .. s[t]) : t \in Tiles}
  <2>1. x[1] \in Tiles /\ x[2] \in 1 .. s[x[1]] /\ x = <<x[1], x[2]>>
    BY DEF SentOf, Requests
  <2>2. x \in {x[1]} \X (1 .. s[x[1]])
    BY <2>1
  <2>3. QED BY <2>1, <2>2
<1>4. QED BY <1>2, <1>3

\* NothingLost in these terms, now ...
LEMMA LostFacts ==
  ASSUME TypeOK
  PROVE  /\ Served = IdsOf(Line("RESP")) \cup answered
         /\ NothingLost <=> /\ IdsOf(Line("REQ")) \cup Served = Sent
                            /\ IdsOf(Line("REQ")) \cap Served = {}
                            /\ IdsOf(Line("RESP")) \cap answered = {}
<1>1. "REQ" \in VCs /\ "RESP" \in VCs /\ sent \in [Tiles -> Nat]
  BY DEF VCs, TypeOK
<1>2. Queued("REQ") = IdsOf(Line("REQ")) /\ Queued("RESP") = IdsOf(Line("RESP"))
  BY <1>1, QueuedIds
<1>3. UNION {{t} \X (1 .. sent[t]) : t \in Tiles} = Sent
  BY <1>1, SentIs DEF Sent
<1>4. QED BY <1>2, <1>3 DEF NothingLost, Served

\* ... and after a step.
LEMMA LostFactsNext ==
  ASSUME TypeOK'
  PROVE  /\ Served' = IdsOf(Line("RESP")') \cup answered'
         /\ NothingLost' <=> /\ IdsOf(Line("REQ")') \cup Served' = Sent'
                             /\ IdsOf(Line("REQ")') \cap Served' = {}
                             /\ IdsOf(Line("RESP")') \cap answered' = {}
<1>1. "REQ" \in VCs /\ "RESP" \in VCs /\ sent' \in [Tiles -> Nat]
  BY DEF VCs, TypeOK
<1>2. Queued("REQ")' = IdsOf(Line("REQ")') /\ Queued("RESP")' = IdsOf(Line("RESP")')
  BY <1>1, QueuedIdsNext
<1>3. UNION {{t} \X (1 .. sent'[t]) : t \in Tiles} = Sent'
  BY <1>1, SentIs DEF Sent
<1>4. QED BY <1>2, <1>3 DEF NothingLost, Served

\* Routes and ranks stay what they are, as the plan does.
LEMMA UnderwayNext ==
  ASSUME plan' = plan, Routed(Line("REQ")'), InLine(Line("REQ")')
  PROVE  Underway'
<1>1. /\ \A x, y : Before(x, y)' <=> Before(x, y)
      /\ \A x : Dest(x)' = Dest(x)
      /\ \A l, x : Rank(l, x)' = Rank(l, x) /\ (OnRoute(l, x)' <=> OnRoute(l, x))
  BY DEF Before, Dest, Way, Rank, OnRoute
<1>2. Routed(Line("REQ"))'
  BY <1>1 DEF Routed
<1>3. InLine(Line("REQ"))'
  BY <1>1 DEF InLine
<1>4. QED BY <1>2, <1>3 DEF Underway

\* InOrder, of two requests sent.
LEMMA OrderFacts ==
  ASSUME TypeOK, InOrder, NEW x \in Sent, NEW y \in Sent, Before(x, y), y \in Served
  PROVE  x \in Served
<1>1. /\ x[1] \in Tiles /\ x[1] = y[1] /\ x = <<x[1], x[2]>> /\ y = <<x[1], y[2]>>
      /\ x[2] \in Nat \ {0} /\ y[2] \in Nat \ {0} /\ x[2] < y[2] /\ sent[x[1]] \in Nat
      /\ x[2] <= sent[x[1]] /\ y[2] <= sent[x[1]]
      /\ plan[x[1]][x[2]] = plan[x[1]][y[2]]
  BY DEF Sent, SentOf, Requests, Before, Dest, TypeOK
<1>2. x[2] \in 1 .. sent[x[1]] /\ y[2] \in 1 .. sent[x[1]]
  BY <1>1
<1>3. QED BY <1>1, <1>2 DEF InOrder

\* ... after a step.
LEMMA OrderNext ==
  ASSUME TypeOK', plan' = plan,
         \A x, y \in Sent' : Before(x, y) /\ y \in Served' => x \in Served'
  PROVE  InOrder'
<1> SUFFICES ASSUME NEW t \in Tiles, NEW j \in 1 .. sent'[t], NEW k \in 1 .. sent'[t], j < k,
                    plan[t][j] = plan[t][k], <<t, k>> \in Served'
             PROVE  <<t, j>> \in Served'
  BY DEF InOrder
<1>1. sent'[t] \in Nat
  BY DEF TypeOK
<1>2. <<t, j>> \in Sent' /\ <<t, k>> \in Sent'
  BY <1>1 DEF Sent, SentOf, Requests
<1>3. Before(<<t, j>>, <<t, k>>)
  BY DEF Before, Dest
<1>4. QED BY <1>2, <1>3

\* A step that neither sends nor serves a request.
LEMMA Settled ==
  ASSUME TypeOK, TypeOK', UNCHANGED <<plan, sent>>, Planned, NothingLost, InOrder,
         IdsOf(Line("REQ")') = IdsOf(Line("REQ")), Served' = Served,
         IdsOf(Line("RESP")') \cap answered' = {}
  PROVE  Planned' /\ NothingLost' /\ InOrder'
<1>1. Planned'
  BY DEF Planned
<1>2. Sent' = Sent
  BY DEF Sent
<1>3. NothingLost'
  BY <1>2, LostFacts, LostFactsNext
<1>4. InOrder'
  BY DEF InOrder
<1>5. QED BY <1>1, <1>3, <1>4

\* A node's turn: every request is queued on the same channel as before.
LEMMA NodeDelivery ==
  ASSUME TypeOK, TypeOK', Delivery, NEW n \in Tiles, NEW d \in Dirs, Node(n, d)
  PROVE  Delivery'
<1>0. EachOnce /\ Planned /\ Underway /\ NothingLost /\ InOrder
  BY DEF Delivery
<1>1. UNCHANGED <<plan, sent, answered>> /\ "REQ" \in VCs /\ "RESP" \in VCs
  BY DEF Node, VCs
<1>2. ASSUME NEW v \in VCs
      PROVE  Once(Line(v)') /\ IdsOf(Line(v)') = IdsOf(Line(v))
  <2>1. Once(Line(v))
    BY <1>0 DEF EachOnce
  <2>2. QED BY <2>1, NodeOnce
<1>3. EachOnce'
  BY <1>2 DEF EachOnce, Once
<1>4. Underway'
  <2>1. Once(Line("REQ"))
    BY <1>0, <1>1 DEF EachOnce
  <2>2. Routed(Line("REQ")') /\ InLine(Line("REQ")')
    BY <1>0, <2>1, NodeRequests
  <2>3. QED BY <1>1, <2>2, UnderwayNext
<1>5. Planned' /\ NothingLost' /\ InOrder'
  <2>1. /\ IdsOf(Line("REQ")') = IdsOf(Line("REQ"))
        /\ IdsOf(Line("RESP")') = IdsOf(Line("RESP"))
    BY <1>1, <1>2
  <2>2. Served' = Served
    BY <1>1, <2>1, LostFacts, LostFactsNext
  <2>3. IdsOf(Line("RESP")') \cap answered' = {}
    BY <1>0, <1>1, <2>1, LostFacts
  <2>4. QED BY <1>0, <1>1, <2>1, <2>2, <2>3, Settled
<1>6. QED BY <1>3, <1>4, <1>5 DEF Delivery

\* A tile takes a request or it does not.
LEMMA TakeOrSkip ==
  ASSUME TypeOK, NEW t \in Tiles
  PROVE  ~(Take(t) /\ Skip(t))
<1> SUFFICES ASSUME Take(t), Skip(t) PROVE FALSE
  OBVIOUS
<1> DEFINE q == tile_ingress[<<t, "REQ">>]
<1>1. q \in Seq(Flit) /\ <<t, "REQ">> \in Tiles \X VCs
  BY DEF TypeOK, VCs
<1>2. tile_ingress \in [Tiles \X VCs -> Seq(Flit)] /\ q # <<>>
  BY DEF TypeOK, Take, CanTake, Ready
<1>3. tile_ingress'[<<t, "REQ">>] = Tail(q)
  BY <1>1, <1>2 DEF Take
<1>4. tile_ingress'[<<t, "REQ">>] = q
  BY <1>1, <1>2 DEF Skip
<1> HIDE DEF q
<1>5. Len(Tail(q)) = Len(q) - 1 /\ Len(q) \in Nat
  BY <1>1, <1>2, QueueFacts
<1>6. QED BY <1>3, <1>4, <1>5

\* A tile takes in answers only: they are served as before.
LEMMA SkipDelivery ==
  ASSUME TypeOK, TypeOK', Delivery, NEW t \in Tiles, Skip(t)
  PROVE  Delivery'
<1> DEFINE F == Line("RESP")
           G == Line("RESP")'
           a == <<"ingress", t, 0>>
           front(c) == {F[a][i].id : i \in 1 .. c}
<1>0. EachOnce /\ Planned /\ Underway /\ NothingLost /\ InOrder
  BY DEF Delivery
<1>1. /\ UNCHANGED <<plan, sent>> /\ "REQ" \in VCs /\ "RESP" \in VCs /\ a \in Lines
      /\ F \in Families
  BY LineNames, LineFacts DEF Skip, EndIngress, VCs, Dirs
<1>2. Line("REQ")' = Line("REQ")
  BY IngressRequests
<1>3. PICK c \in Nat : /\ G \in Families /\ Shifted(F, G, a, c)
                       /\ answered' = answered \cup front(c)
  <2>1. ~Take(t)
    BY TakeOrSkip
  <2>2. QED BY <2>1, IngressAnswers
<1> HIDE DEF F, G, a
<1>4. Once(F) /\ Once(G)
  <2>1. Once(F)
    BY <1>0, <1>1 DEF EachOnce, F
  <2>2. QED BY <1>1, <1>3, <2>1, ShiftKeeps
<1>5. IdsOf(F) = IdsOf(G) \cup front(c) /\ IdsOf(G) \cap front(c) = {}
  BY <1>1, <1>3, <1>4, ShiftIds
<1> HIDE DEF front
<1>6. Once(Line("REQ")) /\ Once(Line("REQ")')
  BY <1>0, <1>1, <1>2 DEF EachOnce
<1>7. EachOnce'
  BY <1>4, <1>6 DEF EachOnce, Once, VCs, G
<1>8. Underway'
  BY <1>0, <1>1, <1>2, UnderwayNext DEF Underway
<1>9. Planned' /\ NothingLost' /\ InOrder'
  <2>1. IdsOf(F) \cap answered = {}
    BY <1>0, LostFacts DEF F
  <2>2. Served = IdsOf(F) \cup answered /\ Served' = IdsOf(G) \cup answered'
    BY LostFacts, LostFactsNext DEF F, G
  <2>3. Served' = Served /\ IdsOf(G) \cap answered' = {}
    BY <1>3, <1>5, <2>1, <2>2
  <2>4. QED BY <1>0, <1>1, <1>2, <2>3, Settled DEF G
<1>10. QED BY <1>7, <1>8, <1>9 DEF Delivery

\* A tile takes the request at the front: it is not served yet, those sent
\* to the tile before it are, and now its answer is queued.
LEMMA TakeDelivery ==
  ASSUME TypeOK, TypeOK', Delivery, NEW t \in Tiles, Take(t)
  PROVE  Delivery'
<1> DEFINE R == Line("REQ")
           S == Line("REQ")'
           F == Line("RESP")
           G == Line("RESP")'
           a == <<"ingress", t, 0>>
           id == Head(tile_ingress[<<t, "REQ">>]).id
           front(c) == {F[a][i].id : i \in 1 .. c}
<1>0. EachOnce /\ Planned /\ Underway /\ NothingLost /\ InOrder
  BY DEF Delivery
<1>1. /\ UNCHANGED <<plan, sent>> /\ "REQ" \in VCs /\ "RESP" \in VCs /\ a \in Lines
      /\ F \in Families /\ R \in Families
  BY LineNames, LineFacts DEF Take, EndIngress, VCs, Dirs
<1>2. S \in Families
  BY <1>1, LineFactsNext
<1>3. Shifted(R, S, a, 1) /\ R[a][1].id = id
  BY IngressRequests
<1>4. PICK c \in Nat, M \in Families, b \in Lines, g \in Flit :
        /\ Shifted(F, M, a, c) /\ answered' = answered \cup front(c)
        /\ Added(M, G, b, g) /\ g.id = id
  <2>1. ~Skip(t)
    BY TakeOrSkip
  <2>2. QED BY <2>1, IngressAnswers
<1>5. G \in Families
  BY <1>1, LineFactsNext
<1> HIDE DEF R, S, F, G, a, id
<1>6. Once(R) /\ Once(F)
  BY <1>0, <1>1 DEF EachOnce, R, F
<1>7. /\ IdsOf(R) = IdsOf(S) \cup {id} /\ id \notin IdsOf(S) /\ 1 <= Len(R[a])
      /\ Once(S) /\ (Routed(R) => Routed(S)) /\ (InLine(R) => InLine(S))
  <2>1. {R[a][i].id : i \in 1 .. 1} = {id}
    BY <1>3
  <2>2. QED BY <1>1, <1>2, <1>3, <1>6, <2>1, ShiftIds, ShiftKeeps
<1>8. /\ IdsOf(F) = IdsOf(M) \cup front(c) /\ IdsOf(M) \cap front(c) = {} /\ Once(M)
  BY <1>1, <1>4, <1>6, ShiftIds, ShiftKeeps
<1> HIDE DEF front
<1>9. /\ Served = IdsOf(F) \cup answered /\ IdsOf(R) \cup Served = Sent
      /\ IdsOf(R) \cap Served = {} /\ IdsOf(F) \cap answered = {}
  BY <1>0, LostFacts DEF F, R
<1>10. IdsOf(G) = IdsOf(M) \cup {id} /\ (id \notin IdsOf(M) => Once(G))
  BY <1>4, <1>5, <1>8, AddIds, AddKeeps
<1>11. /\ id \notin Served /\ id \notin IdsOf(M) /\ Once(G)
  BY <1>7, <1>8, <1>9, <1>10
<1>12. EachOnce'
  BY <1>7, <1>11 DEF EachOnce, Once, VCs, G, S
<1>13. Underway'
  <2>1. Routed(S) /\ InLine(S)
    BY <1>0, <1>7 DEF Underway, R
  <2>2. QED BY <1>1, <2>1, UnderwayNext DEF S
<1>14. Served' = Served \cup {id} /\ IdsOf(G) \cap answered' = {}
  <2>1. Served' = IdsOf(G) \cup answered'
    BY LostFactsNext DEF G
  <2>2. QED BY <1>4, <1>8, <1>9, <1>10, <1>11, <2>1
<1>15. Sent' = Sent
  BY <1>1 DEF Sent
<1>16. NothingLost'
  <2>1. IdsOf(S) \cup Served' = Sent' /\ IdsOf(S) \cap Served' = {}
    BY <1>7, <1>9, <1>11, <1>14, <1>15
  <2>2. QED BY <1>14, <2>1, LostFactsNext DEF S, G
<1>17. InOrder'
  <2>1. ASSUME NEW x \in Sent, NEW y \in Sent, Before(x, y), y \in Served \cup {id},
               x \notin Served, x # id
        PROVE  FALSE
    <3>1. y = id
      BY <1>0, <2>1, OrderFacts
    <3>2. x \in IdsOf(R)
      BY <1>9, <2>1
    <3>3. PICK l \in Lines : \E i \in DOMAIN R[l] : R[l][i].id = x
      BY <3>2 DEF IdsOf
    <3>4. PICK i \in DOMAIN R[l] : R[l][i].id = x
      BY <3>3
    <3>5. 1 \in DOMAIN R[a] /\ i \in Nat \ {0}
      BY <1>1, <1>7, FamilyQueues
    <3>6. Rank(l, x) < Rank(a, y) \/ (l = a /\ i < 1)
      BY <1>0, <1>1, <1>3, <2>1, <3>1, <3>4, <3>5 DEF InLine, Underway, R
    <3>7. Rank(a, y) = 0
      BY DEF Rank, a
    <3>8. Rank(l, x) \in Nat
      <4>1. Dest(x) \in Tiles /\ x \in Requests
        BY <1>0, <1>1, <3>4, FamilyQueues DEF Routed, Underway, R
      <4>2. QED BY <4>1, RankFacts
    <3>9. QED BY <3>5, <3>6, <3>7, <3>8
  <2>2. \A x, y \in Sent' : Before(x, y) /\ y \in Served' => x \in Served'
    BY <1>14, <1>15, <2>1
  <2>3. QED BY <1>1, <2>2, OrderNext
<1>18. Planned'
  BY <1>0, <1>1 DEF Planned
<1>19. QED BY <1>12, <1>13, <1>16, <1>17, <1>18 DEF Delivery

\* The end of a turn at the engine: it takes no flit out of the queues.
LEMMA EndKeeps ==
  ASSUME TypeOK, TypeOK', NEW t \in Tiles, DmaTurn(t), EndDma(t), NEW v \in VCs
  PROVE  /\ Routing(v) \in Families /\ IdsOf(Line(v)') = IdsOf(Routing(v))
         /\ Once(Routing(v)) => Once(Line(v)')
         /\ Routed(Routing(v)) => Routed(Line(v)')
         /\ InLine(Routing(v)) => InLine(Line(v)')
<1> DEFINE M == Routing(v)
           G == Line(v)'
           a == <<"ingress", t, 0>>
<1>1. a \in Lines
  BY LineNames DEF Dirs
<1>2. G \in Families
  BY LineFactsNext
<1>3. M \in Families /\ Shifted(M, G, a, 0)
  BY <1>1, EndShift
<1> HIDE DEF M, G, a
<1>4. IdsOf(M) = IdsOf(G) \cup {M[a][i].id : i \in 1 .. 0}
  BY <1>1, <1>2, <1>3, ShiftIds
<1>5. IdsOf(G) = IdsOf(M)
  BY <1>4
<1>6. /\ Once(M) => Once(G)
      /\ Routed(M) => Routed(G)
      /\ InLine(M) => InLine(G)
  BY <1>1, <1>2, <1>3, ShiftKeeps
<1>7. QED BY <1>3, <1>5, <1>6 DEF M, G

\* A tile that sends nothing.
LEMMA RestsDelivery ==
  ASSUME TypeOK, TypeOK', Delivery, NEW t \in Tiles, Rests(t)
  PROVE  Delivery'
<1>0. EachOnce /\ Planned /\ Underway /\ NothingLost /\ InOrder
  BY DEF Delivery
<1>1. /\ UNCHANGED <<plan, sent, answered>> /\ "REQ" \in VCs /\ "RESP" \in VCs
      /\ DmaTurn(t) /\ EndDma(t)
  BY DEF Rests, EndDma, VCs
<1>2. ASSUME NEW v \in VCs
      PROVE  /\ Once(Line(v)') /\ IdsOf(Line(v)') = IdsOf(Line(v))
             /\ Routed(Line(v)) => Routed(Line(v)')
             /\ InLine(Line(v)) => InLine(Line(v)')
  <2>1. Once(Line(v))
    BY <1>0 DEF EachOnce
  <2>2. Routing(v) = Line(v)
    BY RestsAdds
  <2>3. QED BY <1>1, <2>1, <2>2, EndKeeps
<1>3. EachOnce'
  BY <1>2 DEF EachOnce, Once
<1>4. Underway'
  BY <1>0, <1>1, <1>2, UnderwayNext DEF Underway
<1>5. Planned' /\ NothingLost' /\ InOrder'
  <2>1. /\ IdsOf(Line("REQ")') = IdsOf(Line("REQ"))
        /\ IdsOf(Line("RESP")') = IdsOf(Line("RESP"))
    BY <1>1, <1>2
  <2>2. Served' = Served
    BY <1>1, <2>1, LostFacts, LostFactsNext
  <2>3. IdsOf(Line("RESP")') \cap answered' = {}
    BY <1>0, <1>1, <2>1, LostFacts
  <2>4. QED BY <1>0, <1>1, <2>1, <2>2, <2>3, Settled
<1>6. QED BY <1>3, <1>4, <1>5 DEF Delivery

\* A tile sends the next request of its plan: it is a new one, and behind
\* those it sent before.
LEMMA SendDelivery ==
  ASSUME TypeOK, TypeOK', Delivery, NEW t \in Tiles, Send(t)
  PROVE  Delivery'
<1> DEFINE F == Line("REQ")
           M == Routing("REQ")
           G == Line("REQ")'
           k == sent[t] + 1
           to == plan[t][k]
           x == <<t, k>>
           g == [id |-> x, ring_dest |-> to, wait |-> 0]
           b == <<"inject", t, ring_direction(t, to)>>
<1>0. EachOnce /\ Planned /\ Underway /\ NothingLost /\ InOrder
  BY DEF Delivery
<1>1. /\ UNCHANGED <<plan, answered>> /\ "REQ" \in VCs /\ "RESP" \in VCs
      /\ DmaTurn(t) /\ EndDma(t) /\ sent' = [sent EXCEPT ![t] = k]
      /\ sent \in [Tiles -> Nat] /\ F \in Families
  BY LineFacts DEF Send, EndDma, VCs, TypeOK
<1>2. /\ to \in Tiles /\ to # t /\ g \in Flit /\ k \in Nat \ {0} /\ k <= Len(plan[t])
      /\ Added(F, M, b, g) /\ Routing("RESP") = Line("RESP")
  BY SendAdds
<1>3. /\ b \in Lines /\ x \in Requests /\ x[1] = t /\ x[2] = k /\ g.id = x /\ g.ring_dest = to
      /\ Dest(x) = to /\ b = <<"inject", x[1], Way(x)>>
  <2>1. ring_direction(t, to) \in Dirs
    BY DirectionType
  <2>2. b \in Lines
    BY <2>1, LineNames
  <2>3. x \in Requests
    BY <1>2 DEF Requests
  <2>4. QED BY <2>2, <2>3 DEF Dest, Way
<1>4. /\ M \in Families /\ IdsOf(G) = IdsOf(M) /\ (Once(M) => Once(G))
      /\ (Routed(M) => Routed(G)) /\ (InLine(M) => InLine(G))
  BY <1>1, EndKeeps
<1>5. /\ IdsOf(Line("RESP")') = IdsOf(Line("RESP"))
      /\ Once(Line("RESP")) => Once(Line("RESP")')
  BY <1>1, <1>2, EndKeeps
<1>6. k = sent[t] + 1
  OBVIOUS
<1> HIDE DEF F, M, G, k, to, x, g, b
<1>7. /\ Served = IdsOf(Line("RESP")) \cup answered /\ IdsOf(F) \cup Served = Sent
      /\ IdsOf(F) \cap Served = {} /\ IdsOf(Line("RESP")) \cap answered = {}
  BY <1>0, LostFacts DEF F
<1>8. /\ Sent' = Sent \cup {x} /\ x \notin Sent
      /\ \A y \in Sent : ~Before(x, y)
  <2>1. \A y \in Requests : y[1] \in Tiles /\ y[2] \in Nat /\ y = <<y[1], y[2]>>
    BY DEF Requests
  <2>2. \A y \in Requests : y \in Sent <=> y[2] <= sent[y[1]]
    BY DEF Sent, SentOf
  <2>3. x \notin Sent
    BY <1>1, <1>3, <1>6, <2>2
  <2>4. ASSUME NEW y \in Sent, Before(x, y) PROVE FALSE
    <3>1. y \in Requests
      BY DEF Sent, SentOf
    <3>2. y[1] = t /\ k < y[2]
      BY <1>3, <2>4 DEF Before
    <3>3. QED BY <1>1, <1>6, <2>1, <2>2, <3>1, <3>2
  <2>5. ASSUME NEW y \in Requests
        PROVE  y \in Sent' <=> y \in Sent \/ y = x
    <3>1. y \in Sent' <=> y[2] <= sent'[y[1]]
      BY DEF Sent, SentOf
    <3>2. sent'[y[1]] = IF y[1] = t THEN sent[t] + 1 ELSE sent[y[1]]
      BY <1>1, <1>6, <2>1
    <3>3. CASE y[1] = t
      <4>1. y \in Sent' <=> y[2] <= sent[t] + 1
        BY <3>1, <3>2, <3>3
      <4>2. y = x <=> y[2] = sent[t] + 1
        <5>1. y = <<t, y[2]>> /\ x = <<t, k>>
          BY <2>1, <3>3 DEF x
        <5>2. QED BY <1>6, <5>1
      <4>3. y[2] \in Nat /\ sent[t] \in Nat
        BY <1>1, <2>1
      <4>4. QED BY <2>2, <3>3, <4>1, <4>2, <4>3
    <3>4. CASE y[1] # t
      BY <1>3, <2>2, <3>1, <3>2, <3>4
    <3>5. QED BY <3>3, <3>4
  <2>6. Sent \subseteq Requests /\ Sent' \subseteq Requests
    BY DEF Sent, SentOf
  <2>7. QED BY <1>3, <2>3, <2>4, <2>5, <2>6
<1>9. Fits(F, b, x)
  <2> SUFFICES ASSUME NEW l \in Lines, NEW i \in DOMAIN F[l]
               PROVE  /\ Before(F[l][i].id, x)
                           => Rank(l, F[l][i].id) < Rank(b, x) \/ l = b
                      /\ Before(x, F[l][i].id) => Rank(b, x) < Rank(l, F[l][i].id)
    BY DEF Fits
  <2> DEFINE y == F[l][i].id
  <2>1. y \in IdsOf(F)
    BY <1>1, FamilyQueues DEF IdsOf
  <2>2. ~Before(x, y)
    BY <1>7, <1>8, <2>1
  <2>3. OnRoute(l, y)
    BY <1>0 DEF Underway, Routed, F
  <2> HIDE DEF y
  <2>4. ASSUME Before(y, x), l # b PROVE Rank(l, y) < Rank(b, x)
    <3>1. OnRoute(l, x) /\ Rank(l, y) = Rank(l, x)
      BY <2>3, <2>4, BeforeShares
    <3>2. QED BY <1>2, <1>3, <2>4, <3>1, RankFacts
  <2>5. QED BY <2>2, <2>4 DEF y
<1>10. Once(M) /\ IdsOf(M) = IdsOf(F) \cup {x} /\ x \notin Served
  <2>1. Once(F) /\ x \notin IdsOf(F) /\ x \notin Served
    BY <1>0, <1>1, <1>7, <1>8 DEF EachOnce, F
  <2>2. QED BY <1>1, <1>2, <1>3, <1>4, <2>1, AddIds, AddKeeps
<1>11. Routed(M) /\ InLine(M)
  <2>1. Routed(F) /\ InLine(F)
    BY <1>0 DEF Underway, F
  <2>2. OnRoute(b, g.id) /\ g.ring_dest = Dest(g.id) /\ g.ring_dest # g.id[1]
    BY <1>2, <1>3 DEF OnRoute
  <2>3. QED BY <1>1, <1>2, <1>3, <1>4, <1>9, <2>1, <2>2, AddKeeps
<1>12. EachOnce'
  <2>1. Once(Line("RESP")')
    BY <1>0, <1>1, <1>5 DEF EachOnce
  <2>2. QED BY <1>4, <1>10, <2>1 DEF EachOnce, Once, VCs, G
<1>13. Underway'
  BY <1>1, <1>4, <1>11, UnderwayNext DEF G
<1>14. Served' = Served
  BY <1>1, <1>5, <1>7, LostFactsNext
<1>15. NothingLost'
  <2>1. IdsOf(G) \cup Served' = Sent' /\ IdsOf(G) \cap Served' = {}
    BY <1>4, <1>7, <1>8, <1>10, <1>14
  <2>2. QED BY <1>1, <1>5, <1>7, <2>1, LostFactsNext DEF G
<1>16. InOrder'
  <2>1. ASSUME NEW y \in Sent', NEW z \in Sent', Before(y, z), z \in Served'
        PROVE  y \in Served'
    <3>1. z \in Served /\ z \in Sent
      BY <1>7, <1>14, <2>1
    <3>2. y \in Sent
      BY <1>8, <2>1, <3>1
    <3>3. QED BY <1>0, <1>14, <2>1, <3>1, <3>2, OrderFacts
  <2>2. QED BY <1>1, <2>1, OrderNext
<1>17. Planned'
  <2>1. ASSUME NEW m \in Tiles PROVE sent'[m] <= Len(plan[m])
    BY <1>0, <1>1, <1>2 DEF Planned
  <2>2. QED BY <1>1, <2>1 DEF Planned
<1>18. QED BY <1>12, <1>13, <1>15, <1>16, <1>17 DEF Delivery

\* At the start nothing is queued, and nothing is sent.
LEMMA InitDelivery == Init => Delivery
<1> SUFFICES ASSUME Init PROVE Delivery
  OBVIOUS
<1>0. TypeOK
  BY InitType
<1>1. ASSUME NEW v \in VCs, NEW l \in Lines PROVE Line(v)[l] = <<>>
  <2>1. /\ \A q \in Ports : ring_in[q] = <<>> /\ inject[q] = <<>>
        /\ \A q \in Tiles \X VCs : tile_ingress[q] = <<>>
    BY DEF Init
  <2>2. CASE l[1] = "ingress"
    <3>1. Line(v)[l] = tile_ingress[<<l[2], v>>] /\ <<l[2], v>> \in Tiles \X VCs
      BY <2>2, LineShape DEF Line, Family
    <3>2. QED BY <2>1, <3>1
  <2>3. CASE l[1] # "ingress"
    <3>1. <<l[2], l[3], v>> \in Ports
      BY <2>3, LineShape DEF Ports
    <3>2. Line(v)[l] = ring_in[<<l[2], l[3], v>>] \/ Line(v)[l] = inject[<<l[2], l[3], v>>]
      <4>1. CASE l[1] = "ring"
        BY <4>1 DEF Line, Family
      <4>2. CASE l[1] = "inject"
        BY <4>2 DEF Line, Family
      <4>3. QED BY <2>3, <4>1, <4>2, LineShape
    <3>3. QED BY <2>1, <3>1, <3>2
  <2>4. QED BY <2>2, <2>3
<1>2. "REQ" \in VCs /\ "RESP" \in VCs
  BY DEF VCs
<1>3. \A v \in VCs : \A l \in Lines : DOMAIN Line(v)[l] = {}
  BY <1>1
<1>4. EachOnce
  BY <1>3 DEF EachOnce, Once
<1>5. Underway
  BY <1>2, <1>3 DEF Underway, Routed, InLine
<1>6. \A t \in Tiles : sent[t] = 0
  BY DEF Init
<1>7. Planned
  <2>1. ASSUME NEW t \in Tiles PROVE Len(plan[t]) \in Nat
    <3>1. plan[t] \in Seq(Tiles)
      BY <1>0 DEF TypeOK
    <3>2. QED BY <3>1
  <2>2. QED BY <1>6, <2>1 DEF Planned
<1>8. NothingLost
  <2>1. \A v \in VCs : IdsOf(Line(v)) = {}
    BY <1>3 DEF IdsOf
  <2>2. answered = {}
    BY DEF Init
  <2>3. Sent = {}
    BY <1>6 DEF Sent, SentOf, Requests
  <2>4. QED BY <1>0, <1>2, <2>1, <2>2, <2>3, LostFacts
<1>9. InOrder
  BY <1>6 DEF InOrder
<1>10. QED BY <1>4, <1>5, <1>7, <1>8, <1>9 DEF Delivery

\* Every step keeps it.
LEMMA NextDelivery == IInv /\ IInv' /\ Delivery /\ [Next]_vars => Delivery'
<1> SUFFICES ASSUME IInv, IInv', Delivery, [Next]_vars PROVE Delivery'
  OBVIOUS
<1>0. TypeOK /\ TypeOK'
  BY DEF IInv
<1>1. ASSUME NEW n \in Tiles, NEW d \in Dirs, Node(n, d) PROVE Delivery'
  BY <1>0, <1>1, NodeDelivery
<1>2. ASSUME NEW t \in Tiles, Take(t) PROVE Delivery'
  BY <1>0, <1>2, TakeDelivery
<1>3. ASSUME NEW t \in Tiles, Skip(t) PROVE Delivery'
  BY <1>0, <1>3, SkipDelivery
<1>4. ASSUME NEW t \in Tiles, Send(t) PROVE Delivery'
  BY <1>0, <1>4, SendDelivery
<1>5. ASSUME NEW t \in Tiles, Rests(t) PROVE Delivery'
  BY <1>0, <1>5, RestsDelivery
<1>6. CASE UNCHANGED vars
  <2>1. UNCHANGED <<ring_in, inject, tile_ingress, turn, plan, sent, answered>>
    BY <1>6 DEF vars
  <2>2. EachOnce' /\ Planned' /\ NothingLost' /\ InOrder'
    <3>1. Queued("REQ")' = Queued("REQ") /\ Queued("RESP")' = Queued("RESP")
      BY <2>1 DEF Queued
    <3>2. Served' = Served
      BY <2>1, <3>1 DEF Served
    <3>3. NothingLost'
      BY <2>1, <3>1, <3>2 DEF NothingLost, Delivery
    <3>4. InOrder'
      BY <2>1, <3>2 DEF InOrder, Delivery
    <3>5. EachOnce'
      BY <2>1 DEF EachOnce, Line, Once, Delivery
    <3>6. QED BY <2>1, <3>3, <3>4, <3>5 DEF Planned, Delivery
  <2>3. Line("REQ")' = Line("REQ")
    BY <2>1 DEF Line
  <2>4. Underway'
    BY <2>1, <2>3, UnderwayNext DEF Underway, Delivery
  <2>5. QED BY <2>2, <2>4 DEF Delivery
<1>7. QED BY <1>1, <1>2, <1>3, <1>4, <1>5, <1>6 DEF Next

\* What the two properties are part of.
LEMMA DeliveryParts == Delivery => NothingLost /\ InOrder
  BY DEF Delivery

\* A flit of a request or an answer is in one queue at a time, requests keep
\* to their routes, and of two to the same tile the earlier is ahead.
THEOREM DeliveryHolds == Spec => []Delivery
  BY InitDelivery, NextDelivery, Inductive, PTL DEF Spec

\* Between route_from_tile, RingNoC::tick and process_ingress_queue no request
\* and no answer is lost, and none is answered twice.
THEOREM NoneIsLost == Spec => []NothingLost
  BY DeliveryHolds, DeliveryParts, PTL

\* The chunks that a tile pushes to another are consumed in the order they
\* were sent in: every one has a single route (ring_direction), the queues
\* on it are first in, first out, and flits that wait to enter do not overtake.
THEOREM ServedInOrder == Spec => []InOrder
  BY DeliveryHolds, DeliveryParts, PTL
=============================================================================
