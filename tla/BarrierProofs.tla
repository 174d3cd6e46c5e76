---------------------------- MODULE BarrierProofs ---------------------------
(***************************************************************************)
(* Proofs about the compiled global barrier, for every number of tiles,    *)
(* every number of barriers and any capacity of the join tables.           *)
(***************************************************************************)
EXTENDS Barrier, FiniteSetTheorems, TLAPS

-----------------------------------------------------------------------------
(* The inductive invariant counts tokens: those of the way up against the  *)
(* tiles that have released, those of the way down against the broadcast.  *)

Released(r) ==
  {t \in Tiles : round[t] > r \/ (round[t] = r /\ step[t] \notin {"work", "release"})}

Joined(r) == round[0] > r \/ (round[0] = r /\ step[0] \in {"bcast", "go"})

Sent(t, r) ==
  \/ round[0] > r
  \/ round[0] = r /\ (step[0] = "go" \/ (step[0] = "bcast" /\ t < next))

LocalInv ==
  \A t \in Tiles :
    /\ step[t] \in {"join", "bcast"} => t = 0
    /\ step[t] # "work" => round[t] < Rounds /\ dirty[t] = 0
    /\ step[t] = "bcast" => next < N

UpInv ==
  \A r \in 0 .. Rounds - 1 :
    /\ Joined(r) => Released(r) = Tiles
    /\ ~Joined(r) => Pending(0, Up(r)) = Cardinality(Released(r))
    /\ Joined(r) => Pending(0, Up(r)) = 0
    /\ \A t \in Tiles : t # 0 => Pending(t, Up(r)) = 0

DownInv ==
  \A r \in 0 .. Rounds - 1 : \A t \in Tiles :
    /\ round[t] > r => Sent(t, r)
    /\ Sent(t, r) /\ round[t] <= r => Pending(t, Down(r)) = 1
    /\ ~Sent(t, r) \/ round[t] > r => Pending(t, Down(r)) = 0

IInv == TypeOK /\ LocalInv /\ UpInv /\ DownInv

-----------------------------------------------------------------------------
(* What the operations of JoinSync do to the pending tokens.               *)

\* A release adds one token for its destination and tag.
LEMMA PendingRelease ==
  ASSUME JoinTypeOK, NEW t \in Tiles, NEW u \in Tiles, NEW g \in Tags, Release(t, u, g)
  PROVE  /\ JoinTypeOK' /\ UNCHANGED thrown
         /\ Pending(u, g)' = Pending(u, g) + 1
         /\ \A v \in Tiles, h \in Tags :
              v # u \/ h # g => Pending(v, h)' = Pending(v, h)
<1>1. CASE t = u
  <2>1. /\ cnt' = [cnt EXCEPT ![u][g] = @ + 1]
        /\ table' = [table EXCEPT ![u] = @ \cup {g}]
        /\ UNCHANGED <<flight, thrown>>
    BY <1>1 DEF Release
  <2>2. JoinTypeOK'
    BY <2>1 DEF JoinTypeOK
  <2>3. cnt[u][g] \in Nat /\ flight[u][g] \in Nat /\ cnt'[u][g] = cnt[u][g] + 1
    BY <2>1 DEF JoinTypeOK
  <2>4. \A v \in Tiles, h \in Tags : v # u \/ h # g => cnt'[v][h] = cnt[v][h]
    BY <2>1 DEF JoinTypeOK
  <2> QED
    BY <2>1, <2>2, <2>3, <2>4 DEF Pending
<1>2. CASE t # u
  <2>1. /\ flight' = [flight EXCEPT ![u][g] = @ + 1]
        /\ UNCHANGED <<cnt, table, thrown>>
    BY <1>2 DEF Release
  <2>2. JoinTypeOK'
    BY <2>1 DEF JoinTypeOK
  <2>3. cnt[u][g] \in Nat /\ flight[u][g] \in Nat /\ flight'[u][g] = flight[u][g] + 1
    BY <2>1 DEF JoinTypeOK
  <2>4. \A v \in Tiles, h \in Tags : v # u \/ h # g => flight'[v][h] = flight[v][h]
    BY <2>1 DEF JoinTypeOK
  <2> QED
    BY <2>1, <2>2, <2>3, <2>4 DEF Pending
<1> QED
  BY <1>1, <1>2

\* An arrival moves a token from the network to the table.
LEMMA PendingArrive ==
  ASSUME JoinTypeOK, NEW u \in Tiles, NEW g \in Tags, Arrive(u, g)
  PROVE  /\ JoinTypeOK' /\ UNCHANGED thrown
         /\ \A v \in Tiles, h \in Tags : Pending(v, h)' = Pending(v, h)
BY DEF JoinTypeOK, Arrive, Pending

\* An ACQUIRE that passes takes as many tokens as it asks for.
LEMMA PendingAcquire ==
  ASSUME JoinTypeOK, NEW t \in Tiles, NEW g \in Tags, NEW k \in Nat, Acquire(t, g, k)
  PROVE  /\ JoinTypeOK' /\ UNCHANGED thrown
         /\ Pending(t, g) >= k
         /\ Pending(t, g)' = Pending(t, g) - k
         /\ \A v \in Tiles, h \in Tags :
              v # t \/ h # g => Pending(v, h)' = Pending(v, h)
BY DEF JoinTypeOK, Acquire, Pending

\* An ACQUIRE that stalls takes none.
LEMMA PendingStalls ==
  ASSUME JoinTypeOK, NEW t \in Tiles, NEW g \in Tags, NEW k, AcquireStalls(t, g, k)
  PROVE  /\ JoinTypeOK' /\ UNCHANGED thrown
         /\ \A v \in Tiles, h \in Tags : Pending(v, h)' = Pending(v, h)
BY DEF JoinTypeOK, AcquireStalls, Pending

\* Tokens are a natural number.
LEMMA PendingType ==
  ASSUME JoinTypeOK, NEW t \in Tiles, NEW g \in Tags
  PROVE  Pending(t, g) \in Nat
BY DEF JoinTypeOK, Pending

\* What the assumption says of tiles, rounds and tags.
LEMMA Numbers ==
  /\ N \in Nat /\ N > 0 /\ Rounds \in Nat
  /\ 0 \in Tiles /\ Tiles = 0 .. N - 1
  /\ IsFiniteSet(Tiles) /\ Cardinality(Tiles) = N
  /\ \A r \in 0 .. Rounds - 1 : Up(r) \in Tags /\ Down(r) \in Tags
  /\ \A r, s \in 0 .. Rounds - 1 :
       Up(r) # Down(s) /\ (Up(r) = Up(s) => r = s) /\ (Down(r) = Down(s) => r = s)
<1>1. /\ N \in Nat /\ N > 0 /\ Rounds \in Nat
      /\ Tiles = 0 .. N - 1 /\ Tags = 0 .. 2 * Rounds - 1
  BY BarrierAssumption
<1>2. IsFiniteSet(0 .. N - 1) /\ Cardinality(0 .. N - 1) = N
  <2>1. 0 \in Int /\ N - 1 \in Int /\ ~(0 > N - 1)
    BY <1>1
  <2> QED
    BY <1>1, <2>1, FS_Interval
<1> QED
  BY <1>1, <1>2 DEF Up, Down

\* The tile that joins exists.
LEMMA ZeroTile == 0 \in Tiles
BY Numbers

-----------------------------------------------------------------------------
(* Steps.                                                                  *)

\* The invariant holds at the start.
LEMMA InitInv == Init => IInv
<1> SUFFICES ASSUME Init PROVE IInv
  OBVIOUS
<1>1. TypeOK
  <2>1. JoinTypeOK
    BY DEF Init, JoinInit, JoinTypeOK
  <2> QED
    BY <2>1, BarrierAssumption DEF Init, TypeOK, Steps
<1>2. LocalInv
  BY DEF Init, LocalInv
<1>3. \A t \in Tiles, g \in Tags : Pending(t, g) = 0
  BY DEF Init, JoinInit, Pending
<1>4. /\ \A r \in 0 .. Rounds - 1 : Released(r) = {} /\ ~Joined(r)
      /\ \A r \in 0 .. Rounds - 1, t \in Tiles : ~Sent(t, r) /\ ~(round[t] > r)
  BY Numbers DEF Init, Released, Joined, Sent
<1>5. UpInv /\ DownInv
  BY ZenonT(40), <1>3, <1>4, Numbers, FS_EmptySet DEF UpInv, DownInv
<1> QED
  BY <1>1, <1>2, <1>5 DEF IInv

SamePending == \A v \in Tiles, h \in Tags : Pending(v, h)' = Pending(v, h)

\* A step that leaves the barrier where it is.
LEMMA StayStep ==
  ASSUME IInv, TypeOK', SamePending,
         UNCHANGED <<round, step, next>>,
         \A t \in Tiles : step[t] # "work" => dirty'[t] = 0
  PROVE  IInv'
<1>1. \A r : Released(r)' = Released(r) /\ Joined(r)' = Joined(r)
  BY DEF Released, Joined
<1>2. \A r, t : Sent(t, r)' = Sent(t, r)
  BY DEF Sent
<1>3. LocalInv'
  BY DEF IInv, LocalInv
<1>4. UpInv'
  BY ZenonT(30), <1>1, Numbers DEF IInv, UpInv, SamePending
<1>5. DownInv'
  BY ZenonT(30), <1>2, Numbers DEF IInv, DownInv, SamePending
<1> QED
  BY <1>3, <1>4, <1>5 DEF IInv

\* A tile issues or retires a transfer.
LEMMA DmaStep ==
  ASSUME IInv, NEW t \in Tiles, IssueDma(t) \/ RetireDma(t)
  PROVE  IInv'
<1>1. SamePending /\ JoinTypeOK' /\ UNCHANGED <<round, step, next, thrown>>
  BY DEF IInv, TypeOK, JoinTypeOK, IssueDma, RetireDma, joinVars, SamePending, Pending
<1>2. TypeOK'
  <2>1. /\ todo \in [Tiles -> 0 .. MaxDma] /\ dirty \in [Tiles -> Nat]
        /\ MaxDma \in Nat
    BY BarrierAssumption DEF IInv, TypeOK
  <2>2. todo' \in [Tiles -> 0 .. MaxDma] /\ dirty' \in [Tiles -> Nat]
    <3>1. CASE IssueDma(t)
      BY <2>1, <3>1 DEF IssueDma
    <3>2. CASE RetireDma(t)
      BY <2>1, <3>2 DEF RetireDma
    <3> QED
      BY <3>1, <3>2
  <2> QED
    BY <1>1, <2>2 DEF IInv, TypeOK
<1>3. \A u \in Tiles : step[u] # "work" => dirty'[u] = 0
  <2> SUFFICES ASSUME NEW u \in Tiles, step[u] # "work" PROVE dirty'[u] = 0
    OBVIOUS
  <2>1. dirty[u] = 0 /\ dirty \in [Tiles -> Nat]
    BY DEF IInv, LocalInv, TypeOK
  <2>2. u # t
    BY <2>1 DEF IssueDma, RetireDma, At
  <2> QED
    BY <2>1, <2>2 DEF IssueDma, RetireDma
<1> QED
  BY <1>1, <1>2, <1>3, StayStep

\* A tile waits.
LEMMA StallStep ==
  ASSUME IInv, NEW t \in Tiles, Stall(t)
  PROVE  IInv'
<1>1. PICK g \in Tags, k \in Nat : AcquireStalls(t, g, k)
  <2>1. step[t] # "work" /\ round[t] \in 0 .. Rounds - 1
    BY Numbers DEF Stall, At, IInv, LocalInv, TypeOK
  <2>2. Up(round[t]) \in Tags /\ Down(round[t]) \in Tags /\ N \in Nat
    BY <2>1, Numbers
  <2> QED
    BY <2>2 DEF Stall
<1>2. SamePending /\ JoinTypeOK' /\ UNCHANGED <<round, step, next, todo, dirty, thrown>>
  BY <1>1, PendingStalls DEF IInv, TypeOK, Stall, SamePending
<1>3. TypeOK'
  BY <1>2 DEF IInv, TypeOK
<1>5. \A u \in Tiles : step[u] # "work" => dirty'[u] = 0
  BY <1>2 DEF IInv, LocalInv
<1> QED
  BY <1>2, <1>3, <1>5, StayStep

\* A token arrives.
LEMMA NetworkStep ==
  ASSUME IInv, Network
  PROVE  IInv'
<1>1. PICK u \in Tiles, g \in Tags : Arrive(u, g) \/ Overflow(u, g)
  BY DEF Network, Deliver
<1>0. UNCHANGED <<round, step, next, todo, dirty>>
  BY DEF Network
<1>2. SamePending /\ JoinTypeOK'
  <2>1. CASE Arrive(u, g)
    BY <2>1, PendingArrive DEF IInv, TypeOK, SamePending
  <2>2. CASE Overflow(u, g)
    <3>1. UNCHANGED <<cnt, table, flight>> /\ thrown' \in BOOLEAN
      BY Zenon, <2>2 DEF Overflow
    <3> QED
      BY <3>1 DEF IInv, TypeOK, JoinTypeOK, SamePending, Pending
  <2> QED
    BY <1>1, <2>1, <2>2
<1>3. TypeOK'
  BY <1>0, <1>2 DEF IInv, TypeOK
<1>5. \A v \in Tiles : step[v] # "work" => dirty'[v] = 0
  BY <1>0 DEF IInv, LocalInv
<1> QED
  BY <1>0, <1>2, <1>3, <1>5, StayStep

\* The instruction of a tile in a barrier is one of this barrier's.
LEMMA RoundBound ==
  ASSUME IInv, NEW t \in Tiles, step[t] # "work" \/ round[t] < Rounds
  PROVE  round[t] \in 0 .. Rounds - 1 /\ round[t] \in Nat
BY Numbers DEF IInv, LocalInv, TypeOK

\* A tile passes the fence in front of a barrier.
LEMMA FenceStep ==
  ASSUME IInv, NEW t \in Tiles, Fence(t)
  PROVE  IInv'
<1>1. /\ step[t] = "work" /\ dirty[t] = 0 /\ round[t] < Rounds
      /\ step' = [step EXCEPT ![t] = "release"]
      /\ UNCHANGED <<joinVars, round, next, todo, dirty>>
  BY DEF Fence, At, Goto
<1>2. SamePending /\ JoinTypeOK' /\ UNCHANGED thrown
  BY <1>1 DEF IInv, TypeOK, JoinTypeOK, joinVars, SamePending, Pending
<1>3. TypeOK'
  BY <1>1, <1>2 DEF IInv, TypeOK, Steps
<1>4. \A u \in Tiles : step'[u] = (IF u = t THEN "release" ELSE step[u])
  BY <1>1 DEF IInv, TypeOK
<1>5. /\ \A r : Released(r)' = Released(r) /\ (Joined(r)' <=> Joined(r))
      /\ \A r, u : Sent(u, r)' <=> Sent(u, r)
  BY <1>1, <1>4, Numbers DEF Released, Joined, Sent
<1>6. LocalInv'
  BY <1>1, <1>4 DEF IInv, LocalInv
<1>7. UpInv'
  BY <1>2, <1>5, Numbers DEF IInv, UpInv, SamePending
<1>8. DownInv'
  BY <1>1, <1>2, <1>5, Numbers DEF IInv, DownInv, SamePending
<1> QED
  BY <1>3, <1>6, <1>7, <1>8 DEF IInv

\* A tile other than 0 releases to tile 0.
LEMMA ReleaseUpStep ==
  ASSUME IInv, NEW t \in Tiles, ReleaseUp(t)
  PROVE  IInv'
<1>0. PICK q \in 0 .. Rounds - 1 : q = round[t] /\ q \in Nat
  BY RoundBound DEF ReleaseUp, At
<1>1. /\ step[t] = "release"
      /\ Release(t, 0, Up(q))
      /\ step' = [step EXCEPT ![t] = IF t = 0 THEN "join" ELSE "go"]
      /\ UNCHANGED <<round, next, todo, dirty>>
  BY <1>0 DEF ReleaseUp, At, Goto
<1>2. q \in 0 .. Rounds - 1 /\ q \in Nat /\ q = round[t] /\ Up(q) \in Tags
  BY <1>0, Numbers
<1>3. /\ JoinTypeOK' /\ UNCHANGED thrown
      /\ Pending(0, Up(q))' = Pending(0, Up(q)) + 1
      /\ \A v \in Tiles, h \in Tags :
           v # 0 \/ h # Up(q) => Pending(v, h)' = Pending(v, h)
  BY <1>1, <1>2, PendingRelease, Numbers DEF IInv, TypeOK
<1>4. TypeOK'
  BY <1>1, <1>3 DEF IInv, TypeOK, Steps
<1>5. /\ step'[t] = (IF t = 0 THEN "join" ELSE "go")
      /\ \A u \in Tiles : u # t => step'[u] = step[u]
  BY <1>1 DEF IInv, TypeOK
<1>6. /\ \A r : Joined(r)' <=> Joined(r)
      /\ \A r, u : Sent(u, r)' <=> Sent(u, r)
  BY <1>1, <1>5, Numbers DEF Joined, Sent
<1>7. /\ Released(q)' = Released(q) \cup {t}
      /\ t \notin Released(q)
      /\ \A r : r # q => Released(r)' = Released(r)
  BY <1>1, <1>2, <1>5 DEF Released
<1>8. LocalInv'
  BY <1>1, <1>2, <1>5 DEF IInv, LocalInv
<1>9. UpInv'
  <2>1. ~Joined(q)
    BY <1>2, <1>7 DEF IInv, UpInv
  <2>2. IsFiniteSet(Released(q)) /\ Cardinality(Released(q)) \in Nat
    BY Numbers, FS_Subset, FS_CardinalityType DEF Released
  <2>3. Cardinality(Released(q)') = Cardinality(Released(q)) + 1
    BY <1>7, <2>2, FS_AddElement
  <2>4. ASSUME NEW r \in 0 .. Rounds - 1, r # q
        PROVE  /\ Joined(r)' => Released(r)' = Tiles
               /\ ~Joined(r)' => Pending(0, Up(r))' = Cardinality(Released(r)')
               /\ Joined(r)' => Pending(0, Up(r))' = 0
               /\ \A u \in Tiles : u # 0 => Pending(u, Up(r))' = 0
    <3>1. \A u \in Tiles : Pending(u, Up(r))' = Pending(u, Up(r))
      BY <1>2, <1>3, <2>4, Numbers
    <3>2. /\ Joined(r) => Released(r) = Tiles
          /\ ~Joined(r) => Pending(0, Up(r)) = Cardinality(Released(r))
          /\ Joined(r) => Pending(0, Up(r)) = 0
          /\ \A u \in Tiles : u # 0 => Pending(u, Up(r)) = 0
      BY DEF IInv, UpInv
    <3>3. Released(r)' = Released(r) /\ (Joined(r)' <=> Joined(r))
      BY <1>6, <1>7, <2>4
    <3>4. Pending(0, Up(r))' = Pending(0, Up(r)) /\ Tiles' = Tiles
      BY <3>1, Numbers
    <3> QED
      BY Zenon, <3>1, <3>2, <3>3, <3>4
  <2>5. /\ Pending(0, Up(q))' = Cardinality(Released(q)')
        /\ \A u \in Tiles : u # 0 => Pending(u, Up(q))' = 0
    BY <1>2, <1>3, <2>1, <2>3 DEF IInv, UpInv
  <2>6. \A r \in 0 .. Rounds - 1 :
          /\ Joined(r)' => Released(r)' = Tiles
          /\ ~Joined(r)' => Pending(0, Up(r))' = Cardinality(Released(r)')
          /\ Joined(r)' => Pending(0, Up(r))' = 0
          /\ \A u \in Tiles : u # 0 => Pending(u, Up(r))' = 0
    BY Zenon, <1>6, <2>1, <2>4, <2>5
  <2> QED
    BY Zenon, <2>6 DEF UpInv
<1>10. DownInv'
  <2>1. \A r \in 0 .. Rounds - 1, u \in Tiles :
          Pending(u, Down(r))' = Pending(u, Down(r))
    BY <1>2, <1>3, Numbers
  <2> QED
    BY <1>1, <1>6, <2>1 DEF IInv, DownInv
<1> QED
  BY <1>4, <1>8, <1>9, <1>10 DEF IInv

\* Tile 0 has heard from all the others.
LEMMA JoinStep ==
  ASSUME IInv, Join
  PROVE  IInv'
<1>0. PICK q \in 0 .. Rounds - 1 : q = round[0] /\ q \in Nat
  BY RoundBound, Numbers DEF Join, At
<1>1. /\ step[0] = "join"
      /\ Acquire(0, Up(q), N)
      /\ step' = [step EXCEPT ![0] = "bcast"]
      /\ next' = 0
      /\ UNCHANGED <<round, todo, dirty>>
  BY <1>0 DEF Join, At, Goto
<1>2. /\ JoinTypeOK' /\ UNCHANGED thrown
      /\ Pending(0, Up(q)) >= N
      /\ Pending(0, Up(q))' = Pending(0, Up(q)) - N
      /\ \A v \in Tiles, h \in Tags :
           v # 0 \/ h # Up(q) => Pending(v, h)' = Pending(v, h)
  BY <1>0, <1>1, PendingAcquire, Numbers DEF IInv, TypeOK
<1>3. TypeOK'
  BY <1>1, <1>2, Numbers DEF IInv, TypeOK, Steps
<1>4. /\ step'[0] = "bcast"
      /\ \A u \in Tiles : u # 0 => step'[u] = step[u]
  BY <1>1, Numbers DEF IInv, TypeOK
<1>5. /\ \A r : Released(r)' = Released(r)
      /\ \A r : r # q => (Joined(r)' <=> Joined(r))
      /\ Joined(q)' /\ ~Joined(q)
      /\ \A r : \A u \in Tiles : Sent(u, r)' <=> Sent(u, r)
  BY <1>0, <1>1, <1>4, Numbers DEF Released, Joined, Sent
<1>6. Released(q) = Tiles /\ Pending(0, Up(q)) = N
  <2>1. Pending(0, Up(q)) = Cardinality(Released(q))
    BY <1>0, <1>5 DEF IInv, UpInv
  <2>2. /\ Released(q) \in SUBSET Tiles
        /\ Cardinality(Released(q)) <= N
        /\ Cardinality(Released(q)) = N => Released(q) = Tiles
        /\ IsFiniteSet(Released(q))
    <3>1. Released(q) \in SUBSET Tiles /\ IsFiniteSet(Tiles) /\ Cardinality(Tiles) = N
      BY Numbers DEF Released
    <3> QED
      BY <3>1, FS_Subset
  <2>3. Cardinality(Released(q)) \in Nat
    BY <2>2, FS_CardinalityType
  <2> QED
    BY <1>2, <2>1, <2>2, <2>3, Numbers
<1>7. LocalInv'
  BY <1>1, <1>4, Numbers DEF IInv, LocalInv
<1>8. UpInv'
  <2>1. ASSUME NEW r \in 0 .. Rounds - 1, r # q
        PROVE  /\ Joined(r)' => Released(r)' = Tiles
               /\ ~Joined(r)' => Pending(0, Up(r))' = Cardinality(Released(r)')
               /\ Joined(r)' => Pending(0, Up(r))' = 0
               /\ \A u \in Tiles : u # 0 => Pending(u, Up(r))' = 0
    <3>1. \A u \in Tiles : Pending(u, Up(r))' = Pending(u, Up(r))
      BY <1>0, <1>2, <2>1, Numbers
    <3>2. /\ Joined(r) => Released(r) = Tiles
          /\ ~Joined(r) => Pending(0, Up(r)) = Cardinality(Released(r))
          /\ Joined(r) => Pending(0, Up(r)) = 0
          /\ \A u \in Tiles : u # 0 => Pending(u, Up(r)) = 0
      BY DEF IInv, UpInv
    <3>3. Released(r)' = Released(r) /\ (Joined(r)' <=> Joined(r))
      BY <1>5, <2>1
    <3>4. Pending(0, Up(r))' = Pending(0, Up(r))
      BY <3>1, Numbers
    <3> QED
      BY Zenon, <3>1, <3>2, <3>3, <3>4
  <2>2. Pending(0, Up(q))' = 0 /\ Released(q)' = Tiles
    BY <1>2, <1>5, <1>6, Numbers
  <2>3. \A u \in Tiles : u # 0 => Pending(u, Up(q))' = 0
    BY <1>0, <1>2, Numbers DEF IInv, UpInv
  <2>4. \A r \in 0 .. Rounds - 1 :
          /\ Joined(r)' => Released(r)' = Tiles
          /\ ~Joined(r)' => Pending(0, Up(r))' = Cardinality(Released(r)')
          /\ Joined(r)' => Pending(0, Up(r))' = 0
          /\ \A u \in Tiles : u # 0 => Pending(u, Up(r))' = 0
    BY Zenon, <1>5, <2>1, <2>2, <2>3
  <2> QED
    BY Zenon, <2>4 DEF UpInv
<1>9. DownInv'
  <2>1. \A r \in 0 .. Rounds - 1, u \in Tiles :
          Pending(u, Down(r))' = Pending(u, Down(r))
    BY <1>0, <1>2, Numbers
  <2> QED
    BY <1>1, <1>5, <2>1 DEF IInv, DownInv
<1> QED
  BY <1>3, <1>7, <1>8, <1>9 DEF IInv

\* Tile 0 releases the next tile.
LEMMA BroadcastStep ==
  ASSUME IInv, Broadcast
  PROVE  IInv'
<1>0. PICK q \in 0 .. Rounds - 1 : q = round[0] /\ q \in Nat
  BY RoundBound, Numbers DEF Broadcast, At
<1>a. PICK n \in Tiles : n = next /\ n \in Nat /\ n < N
  BY Numbers DEF Broadcast, At, IInv, LocalInv, TypeOK
<1>1. /\ step[0] = "bcast"
      /\ Release(0, n, Down(q))
      /\ step' = (IF n + 1 = N THEN [step EXCEPT ![0] = "go"] ELSE step)
      /\ next' = n + 1
      /\ UNCHANGED <<round, todo, dirty>>
  BY <1>0, <1>a DEF Broadcast, At, Goto
<1>2. /\ JoinTypeOK' /\ UNCHANGED thrown
      /\ Pending(n, Down(q))' = Pending(n, Down(q)) + 1
      /\ \A v \in Tiles, h \in Tags :
           v # n \/ h # Down(q) => Pending(v, h)' = Pending(v, h)
  BY <1>0, <1>1, PendingRelease, Numbers DEF IInv, TypeOK
<1>3. TypeOK'
  BY SMTT(20), <1>a, <1>1, <1>2, Numbers DEF IInv, TypeOK, Steps
<1>4. /\ step'[0] = (IF n + 1 = N THEN "go" ELSE "bcast")
      /\ \A u \in Tiles : u # 0 => step'[u] = step[u]
  BY <1>1, Numbers DEF IInv, TypeOK
<1>5. \A r : Released(r)' = Released(r) /\ (Joined(r)' <=> Joined(r))
  BY <1>0, <1>1, <1>4, Numbers DEF Released, Joined
<1>6. /\ Sent(n, q)' /\ ~Sent(n, q)
      /\ \A r \in 0 .. Rounds - 1, u \in Tiles :
           r # q \/ u # n => (Sent(u, r)' <=> Sent(u, r))
  BY <1>0, <1>a, <1>1, <1>4, Numbers DEF Sent
<1>7. LocalInv'
  BY <1>a, <1>1, <1>4, Numbers DEF IInv, LocalInv
<1>8. UpInv'
  <2>1. \A r \in 0 .. Rounds - 1, u \in Tiles : Pending(u, Up(r))' = Pending(u, Up(r))
    BY <1>0, <1>2, Numbers
  <2> QED
    BY Zenon, <1>5, <2>1, ZeroTile DEF IInv, UpInv
<1>9. DownInv'
  <2> SUFFICES ASSUME NEW r \in 0 .. Rounds - 1, NEW u \in Tiles
               PROVE  /\ round[u] > r => Sent(u, r)'
                      /\ Sent(u, r)' /\ round[u] <= r => Pending(u, Down(r))' = 1
                      /\ ~Sent(u, r)' \/ round[u] > r => Pending(u, Down(r))' = 0
    BY <1>1 DEF DownInv
  <2>1. /\ round[u] > r => Sent(u, r)
        /\ Sent(u, r) /\ round[u] <= r => Pending(u, Down(r)) = 1
        /\ ~Sent(u, r) \/ round[u] > r => Pending(u, Down(r)) = 0
    BY DEF IInv, DownInv
  <2>2. CASE r # q \/ u # n
    <3>1. Pending(u, Down(r))' = Pending(u, Down(r))
      BY <1>0, <1>2, <2>2, Numbers
    <3>2. Sent(u, r)' <=> Sent(u, r)
      BY <1>6, <2>2
    <3> QED
      BY Zenon, <2>1, <3>1, <3>2
  <2>3. CASE r = q /\ u = n
    <3>1. Sent(u, r)' /\ Pending(u, Down(r))' = 1 /\ ~(round[u] > r)
      BY <1>2, <1>6, <2>1, <2>3
    <3> QED
      BY Zenon, <3>1
  <2> QED
    BY <2>2, <2>3
<1> QED
  BY <1>3, <1>7, <1>8, <1>9 DEF IInv

\* A tile takes the token of tile 0 and goes on.
LEMMA GoStep ==
  ASSUME IInv, NEW t \in Tiles, Go(t)
  PROVE  IInv'
<1>0. PICK q \in 0 .. Rounds - 1 : q = round[t] /\ q \in Nat
  BY RoundBound DEF Go, At
<1>1. /\ step[t] = "go"
      /\ Acquire(t, Down(q), 1)
      /\ step' = [step EXCEPT ![t] = "work"]
      /\ round' = [round EXCEPT ![t] = q + 1]
      /\ UNCHANGED <<next, dirty>>
  BY <1>0 DEF Go, At, Goto
<1>2. /\ JoinTypeOK' /\ UNCHANGED thrown
      /\ Pending(t, Down(q)) >= 1
      /\ Pending(t, Down(q))' = Pending(t, Down(q)) - 1
      /\ \A v \in Tiles, h \in Tags :
           v # t \/ h # Down(q) => Pending(v, h)' = Pending(v, h)
  BY <1>0, <1>1, PendingAcquire, Numbers DEF IInv, TypeOK
<1>3. TypeOK'
  <2>1. todo' \in [Tiles -> 0 .. MaxDma]
    BY DEF Go, IInv, TypeOK
  <2>2. round' \in [Tiles -> 0 .. Rounds]
    <3>1. q + 1 \in 0 .. Rounds
      BY <1>0, Numbers
    <3>2. round \in [Tiles -> 0 .. Rounds]
      BY DEF IInv, TypeOK
    <3> QED
      BY <1>1, <3>1, <3>2
  <2> QED
    BY <1>1, <1>2, <2>1, <2>2 DEF IInv, TypeOK, Steps
<1>4. /\ step'[t] = "work" /\ round'[t] = q + 1
      /\ \A u \in Tiles : u # t => step'[u] = step[u] /\ round'[u] = round[u]
      /\ \A u \in Tiles : round[u] \in Nat
  BY <1>1, Numbers DEF IInv, TypeOK
<1>5. /\ \A r \in 0 .. Rounds - 1 :
           Released(r)' = Released(r) /\ (Joined(r)' <=> Joined(r))
      /\ \A r \in 0 .. Rounds - 1 : \A u \in Tiles : Sent(u, r)' <=> Sent(u, r)
  BY <1>0, <1>1, <1>4, Numbers DEF Released, Joined, Sent
<1>6. Sent(t, q) /\ Pending(t, Down(q)) = 1
  <2>1. ~Sent(t, q) => Pending(t, Down(q)) = 0
    BY DEF IInv, DownInv
  <2>2. Sent(t, q) /\ round[t] <= q => Pending(t, Down(q)) = 1
    BY DEF IInv, DownInv
  <2> QED
    BY <1>0, <1>2, <2>1, <2>2
<1>7. LocalInv'
  BY <1>1, <1>4 DEF IInv, LocalInv
<1>8. UpInv'
  <2>1. \A r \in 0 .. Rounds - 1, u \in Tiles : Pending(u, Up(r))' = Pending(u, Up(r))
    BY <1>0, <1>2, Numbers
  <2> SUFFICES ASSUME NEW r \in 0 .. Rounds - 1
               PROVE  /\ Joined(r)' => Released(r)' = Tiles
                      /\ ~Joined(r)' => Pending(0, Up(r))' = Cardinality(Released(r)')
                      /\ Joined(r)' => Pending(0, Up(r))' = 0
                      /\ \A u \in Tiles : u # 0 => Pending(u, Up(r))' = 0
    BY Zenon DEF UpInv
  <2>2. Released(r)' = Released(r) /\ (Joined(r)' <=> Joined(r))
    BY <1>5
  <2>3. /\ Joined(r) => Released(r) = Tiles
        /\ ~Joined(r) => Pending(0, Up(r)) = Cardinality(Released(r))
        /\ Joined(r) => Pending(0, Up(r)) = 0
        /\ \A u \in Tiles : u # 0 => Pending(u, Up(r)) = 0
    BY DEF IInv, UpInv
  <2> QED
    BY Zenon, <2>1, <2>2, <2>3, ZeroTile
<1>9. DownInv'
  <2> SUFFICES ASSUME NEW r \in 0 .. Rounds - 1, NEW u \in Tiles
               PROVE  /\ round'[u] > r => Sent(u, r)
                      /\ Sent(u, r) /\ round'[u] <= r => Pending(u, Down(r))' = 1
                      /\ ~Sent(u, r) \/ round'[u] > r => Pending(u, Down(r))' = 0
    BY <1>5 DEF DownInv
  <2>1. /\ round[u] > r => Sent(u, r)
        /\ Sent(u, r) /\ round[u] <= r => Pending(u, Down(r)) = 1
        /\ ~Sent(u, r) \/ round[u] > r => Pending(u, Down(r)) = 0
    BY DEF IInv, DownInv
  <2>2. CASE u # t
    <3>1. Pending(u, Down(r))' = Pending(u, Down(r)) /\ round'[u] = round[u]
      BY <1>0, <1>2, <1>4, <2>2, Numbers
    <3> QED
      BY Zenon, <2>1, <3>1
  <2>3. CASE u = t /\ r # q
    <3>1. Pending(u, Down(r))' = Pending(u, Down(r))
      BY <1>0, <1>2, <2>3, Numbers
    <3>2. (round'[u] > r <=> round[u] > r) /\ (round'[u] <= r <=> round[u] <= r)
      BY <1>0, <1>4, <2>3
    <3> QED
      BY Zenon, <2>1, <3>1, <3>2
  <2>4. CASE u = t /\ r = q
    <3>1. Sent(u, r) /\ Pending(u, Down(r))' = 0 /\ ~(round'[u] <= r)
      BY <1>0, <1>2, <1>4, <1>6, <2>4
    <3> QED
      BY Zenon, <3>1
  <2> QED
    BY <2>2, <2>3, <2>4
<1> QED
  BY <1>3, <1>7, <1>8, <1>9 DEF IInv

\* Every step keeps the invariant.
LEMMA StepInv == IInv /\ [Next]_vars => IInv'
<1> SUFFICES ASSUME IInv, [Next]_vars PROVE IInv'
  OBVIOUS
<1>1. CASE UNCHANGED vars
  <2>1. UNCHANGED <<round, step, next, todo, dirty, cnt, table, flight, thrown>>
    BY <1>1 DEF vars, joinVars
  <2>2. SamePending /\ TypeOK'
    BY <2>1 DEF SamePending, Pending, IInv, TypeOK, JoinTypeOK
  <2>3. \A u \in Tiles : step[u] # "work" => dirty'[u] = 0
    BY <2>1 DEF IInv, LocalInv
  <2> QED
    BY <2>1, <2>2, <2>3, StayStep
<1>2. CASE Next
  BY <1>2, DmaStep, FenceStep, ReleaseUpStep, JoinStep, BroadcastStep, GoStep,
     StallStep, NetworkStep DEF Next, Advance, Retire
<1> QED
  BY <1>1, <1>2

-----------------------------------------------------------------------------
(* Which tags a join table may hold.  The broadcast tag Down(r) enters the *)
(* table of tile 0 only after its join of Up(r), and Up(r) no other table; *)
(* a token whose tag is new to a table therefore finds two tags missing.   *)

TableInv ==
  /\ \A r \in 0 .. Rounds - 1, u \in Tiles :
       u # 0 => Up(r) \notin table[u] /\ flight[u][Up(r)] = 0
  /\ \A r \in 0 .. Rounds - 1 :
       flight[0][Down(r)] = 0 /\ (Down(r) \in table[0] => Joined(r))
  /\ NoOverflow

\* A barrier tile 0 has joined stays joined.
LEMMA JoinedStays ==
  ASSUME IInv, [Next]_vars, NEW r \in 0 .. Rounds - 1, Joined(r)
  PROVE  Joined(r)'
<1>0. /\ round \in [Tiles -> 0 .. Rounds] /\ step \in [Tiles -> Steps]
      /\ 0 \in Tiles /\ round[0] \in Nat
  BY Numbers DEF IInv, TypeOK
<1>1. CASE round' = round /\ step'[0] = step[0]
  BY Zenon, <1>1 DEF Joined
<1>2. ASSUME NEW t \in Tiles, Go(t)
      PROVE  Joined(r)'
  BY <1>0, <1>2 DEF Go, At, Goto, Joined
<1>3. ASSUME NEW t \in Tiles, Fence(t) \/ ReleaseUp(t)
      PROVE  Joined(r)'
  BY <1>0, <1>3 DEF Fence, ReleaseUp, At, Goto, Joined
<1>4. CASE Join \/ Broadcast
  BY <1>0, <1>4 DEF Join, Broadcast, At, Goto, Joined
<1> QED
  BY <1>1, <1>2, <1>3, <1>4
     DEF Next, Advance, Retire, IssueDma, RetireDma, Stall, Network, vars

\* The tag an instruction of a barrier names fits the tile it runs on.
Fits(u, g) ==
  \A r \in 0 .. Rounds - 1 :
    (g = Up(r) => u = 0) /\ (g = Down(r) /\ u = 0 => Joined(r))

\* The step enters at most g into a table, that of u, and sends at most g,
\* to u.
EntersOnly(u, g) ==
  \A v \in Tiles, h \in Tags : h \in table'[v] => h \in table[v] \/ (v = u /\ h = g)
SendsOnly(u, g) ==
  \A v \in Tiles, h \in Tags :
    \/ flight'[v][h] = flight[v][h] \/ flight[v][h] > 0
    \/ v = u /\ h = g /\ \A r \in 0 .. Rounds - 1 : ~(u = 0 /\ g = Down(r))

\* A step that adds tags only where they fit keeps the invariant.
LEMMA TableKeeps ==
  ASSUME IInv, TableInv, [Next]_vars, UNCHANGED thrown,
         NEW u \in Tiles, NEW g \in Tags,
         Fits(u, g), EntersOnly(u, g), SendsOnly(u, g)
  PROVE  TableInv'
<1>1. ASSUME NEW r \in 0 .. Rounds - 1, NEW v \in Tiles, v # 0
      PROVE  Up(r) \notin table'[v] /\ flight'[v][Up(r)] = 0
  <2>1. Up(r) \in Tags /\ ~(v = u /\ Up(r) = g)
    BY <1>1, Numbers DEF Fits
  <2>2. Up(r) \notin table[v] /\ flight[v][Up(r)] = 0
    BY <1>1 DEF TableInv
  <2> QED
    BY <2>1, <2>2 DEF EntersOnly, SendsOnly
<1>2. ASSUME NEW r \in 0 .. Rounds - 1
      PROVE  flight'[0][Down(r)] = 0 /\ (Down(r) \in table'[0] => Joined(r)')
  <2>1. Down(r) \in Tags /\ 0 \in Tiles
    BY Numbers
  <2>2. flight[0][Down(r)] = 0 /\ (Down(r) \in table[0] => Joined(r))
    BY DEF TableInv
  <2>3. flight'[0][Down(r)] = 0
    BY <2>1, <2>2 DEF SendsOnly
  <2>4. Down(r) \in table'[0] => Joined(r)
    BY Zenon, <2>1, <2>2 DEF Fits, EntersOnly
  <2> QED
    BY Zenon, <2>3, <2>4, JoinedStays
<1>3. NoOverflow'
  BY Zenon DEF TableInv, NoOverflow
<1> QED
  BY Zenon, <1>1, <1>2, <1>3 DEF TableInv

\* Steps that leave the tables and the network alone.
LEMMA TableSame ==
  ASSUME IInv, TableInv, [Next]_vars, UNCHANGED <<table, flight, thrown>>
  PROVE  TableInv'
BY Zenon, JoinedStays DEF TableInv, NoOverflow

\* A release, to another tile or to itself.
LEMMA TableRelease ==
  ASSUME IInv, TableInv, [Next]_vars,
         NEW t \in Tiles, NEW u \in Tiles, NEW g \in Tags, Release(t, u, g),
         Fits(u, g), t = u \/ \A r \in 0 .. Rounds - 1 : ~(u = 0 /\ g = Down(r))
  PROVE  TableInv'
<1>1. table \in [Tiles -> SUBSET Tags] /\ flight \in [Tiles -> [Tags -> Nat]]
  BY DEF IInv, TypeOK, JoinTypeOK
<1>2. UNCHANGED thrown
  BY DEF Release
<1>3. EntersOnly(u, g)
  BY <1>1 DEF Release, EntersOnly
<1>4. SendsOnly(u, g)
  <2>1. \A v \in Tiles, h \in Tags :
          flight'[v][h] = flight[v][h] \/ (t # u /\ v = u /\ h = g)
    BY <1>1 DEF Release
  <2> QED
    BY Zenon, <2>1 DEF SendsOnly
<1> QED
  BY Zenon, <1>2, <1>3, <1>4, TableKeeps

\* Both outcomes of an ACQUIRE look the counter up.
LEMMA TableAcquire ==
  ASSUME IInv, TableInv, [Next]_vars,
         NEW t \in Tiles, NEW g \in Tags, Fits(t, g),
         UNCHANGED <<flight, thrown>>, table' = [table EXCEPT ![t] = @ \cup {g}]
  PROVE  TableInv'
<1>1. table \in [Tiles -> SUBSET Tags]
  BY DEF IInv, TypeOK, JoinTypeOK
<1>2. EntersOnly(t, g) /\ SendsOnly(t, g)
  BY <1>1 DEF EntersOnly, SendsOnly
<1> QED
  BY Zenon, <1>2, TableKeeps

\* An arrival that fits.
LEMMA TableArrive ==
  ASSUME IInv, TableInv, [Next]_vars, NEW u \in Tiles, NEW g \in Tags, Arrive(u, g)
  PROVE  TableInv'
<1>1. table \in [Tiles -> SUBSET Tags] /\ flight \in [Tiles -> [Tags -> Nat]]
  BY DEF IInv, TypeOK, JoinTypeOK
<1>2. flight[u][g] > 0 /\ UNCHANGED thrown
  BY DEF Arrive
<1>3. Fits(u, g)
  BY <1>2 DEF Fits, TableInv
<1>4. EntersOnly(u, g)
  BY <1>1 DEF Arrive, EntersOnly
<1>5. SendsOnly(u, g)
  BY <1>1, <1>2 DEF Arrive, SendsOnly
<1> QED
  BY Zenon, <1>2, <1>3, <1>4, <1>5, TableKeeps

\* The only step that could overflow a table.
LEMMA TableOverflow ==
  ASSUME IInv, TableInv, [Next]_vars, NEW u \in Tiles, NEW g \in Tags,
         Overflow(u, g), ~RoomFor(u, g)
  PROVE  TableInv'
<1>1. UNCHANGED <<table, flight>>
  BY Zenon DEF Overflow
<1>2. NoOverflow'
  <2> SUFFICES ASSUME MaxLiveTags >= 2 * Rounds - 1 PROVE FALSE
    BY DEF NoOverflow
  <2>1. /\ table[u] \in SUBSET Tags /\ g \notin table[u] /\ flight[u][g] > 0
        /\ ~(Cardinality(table[u]) < MaxLiveTags)
    BY DEF Overflow, RoomFor, IInv, TypeOK, JoinTypeOK
  <2>2. PICK r \in 0 .. Rounds - 1 : g = Up(r) \/ g = Down(r)
    <3>1. g \in 0 .. 2 * Rounds - 1 /\ Rounds \in Nat
      BY BarrierAssumption
    <3>2. CASE g % 2 = 0
      <4>1. g \div 2 \in 0 .. Rounds - 1 /\ g = 2 * (g \div 2)
        BY <3>1, <3>2
      <4> QED
        BY <4>1 DEF Up
    <3>3. CASE g % 2 = 1
      <4>1. g \div 2 \in 0 .. Rounds - 1 /\ g = 2 * (g \div 2) + 1
        BY <3>1, <3>3
      <4> QED
        BY <4>1 DEF Down
    <3> QED
      BY <3>1, <3>2, <3>3
  <2>3. Up(r) \in Tags /\ Down(r) \in Tags /\ Up(r) # Down(r)
    BY Numbers
  <2>4. Up(r) \notin table[u] /\ Down(r) \notin table[u]
    <3>1. CASE g = Up(r)
      <4>1. u = 0
        BY <2>1, <3>1 DEF TableInv
      <4>2. ~Joined(r)
        <5>1. Joined(r) => Pending(0, Up(r)) = 0
          BY DEF IInv, UpInv
        <5>2. cnt[0][Up(r)] \in Nat /\ flight[0][Up(r)] \in Nat
          BY <2>3, ZeroTile DEF IInv, TypeOK, JoinTypeOK
        <5> QED
          BY <2>1, <3>1, <4>1, <5>1, <5>2 DEF Pending
      <4> QED
        BY <2>1, <3>1, <4>1, <4>2 DEF TableInv
    <3>2. CASE g = Down(r)
      <4>1. u # 0
        BY <2>1, <3>2 DEF TableInv
      <4> QED
        BY <2>1, <3>2, <4>1 DEF TableInv
    <3> QED
      BY <2>2, <3>1, <3>2
  <2>5. IsFiniteSet(Tags) /\ Cardinality(Tags) = 2 * Rounds
    <3>1. Tags = 0 .. 2 * Rounds - 1 /\ Rounds \in Nat
      BY BarrierAssumption
    <3>2. Rounds = 0 \/ ~(0 > 2 * Rounds - 1)
      BY <3>1
    <3>3. 0 \in Int /\ 2 * Rounds - 1 \in Int
      BY <3>1
    <3> QED
      BY <3>1, <3>2, <3>3, FS_Interval
  <2>6. /\ IsFiniteSet(table[u]) /\ IsFiniteSet(table[u] \cup {Up(r)})
        /\ Cardinality(table[u] \cup {Up(r)}) = Cardinality(table[u]) + 1
    BY <2>1, <2>4, <2>5, FS_Subset, FS_AddElement
  <2>7. /\ Cardinality(table[u] \cup {Up(r)}) <= 2 * Rounds
        /\ Cardinality(table[u] \cup {Up(r)}) # 2 * Rounds
    <3>1. table[u] \cup {Up(r)} \in SUBSET Tags
      BY <2>1, <2>3
    <3>2. Down(r) \notin table[u] \cup {Up(r)}
      BY <2>3, <2>4
    <3>3. table[u] \cup {Up(r)} # Tags
      BY <2>3, <3>2
    <3> QED
      BY <2>5, <3>1, <3>3, FS_Subset
  <2>8. Cardinality(table[u]) \in Nat /\ Rounds \in Nat /\ MaxLiveTags \in Nat
    BY <2>6, FS_CardinalityType, BarrierAssumption
  <2> QED
    BY <2>1, <2>6, <2>7, <2>8
<1> QED
  BY Zenon, <1>1, <1>2, JoinedStays DEF TableInv

\* Every step keeps the invariant of the tables.
LEMMA TableStep ==
  ASSUME IInv, TableInv, [Next]_vars
  PROVE  TableInv'
<1>1. ASSUME NEW t \in Tiles, IssueDma(t) \/ RetireDma(t) \/ Fence(t)
      PROVE  TableInv'
  BY Zenon, <1>1, TableSame DEF IssueDma, RetireDma, Fence, joinVars
<1>2. ASSUME NEW t \in Tiles, ReleaseUp(t)
      PROVE  TableInv'
  <2>1. PICK q \in 0 .. Rounds - 1 : q = round[t]
    BY <1>2, RoundBound DEF ReleaseUp, At
  <2>2. Up(q) \in Tags /\ Fits(0, Up(q)) /\ \A r \in 0 .. Rounds - 1 : Up(q) # Down(r)
    BY Numbers DEF Fits
  <2>3. Release(t, 0, Up(q))
    BY <1>2, <2>1 DEF ReleaseUp
  <2> QED
    BY Zenon, <2>2, <2>3, ZeroTile, TableRelease
<1>3. CASE Join
  <2>1. PICK q \in 0 .. Rounds - 1 : q = round[0]
    BY <1>3, RoundBound, ZeroTile DEF Join, At
  <2>2. Up(q) \in Tags /\ Fits(0, Up(q))
    BY Numbers DEF Fits
  <2> QED
    BY <1>3, <2>1, <2>2, ZeroTile, TableAcquire DEF Join, Acquire
<1>4. CASE Broadcast
  <2>1. PICK q \in 0 .. Rounds - 1 : q = round[0]
    BY <1>4, RoundBound, ZeroTile DEF Broadcast, At
  <2>2. next \in Tiles
    BY <1>4, Numbers DEF Broadcast, At, IInv, LocalInv, TypeOK
  <2>3. Down(q) \in Tags /\ Fits(next, Down(q))
    BY <1>4, <2>1, Numbers DEF Fits, Joined, Broadcast, At
  <2>4. Release(0, next, Down(q))
    BY <1>4, <2>1 DEF Broadcast
  <2>5. 0 = next \/ \A r \in 0 .. Rounds - 1 : ~(next = 0 /\ Down(q) = Down(r))
    OBVIOUS
  <2> QED
    BY Zenon, <2>2, <2>3, <2>4, <2>5, ZeroTile, TableRelease
<1>5. ASSUME NEW t \in Tiles, Go(t) \/ Stall(t)
      PROVE  TableInv'
  <2>1. PICK q \in 0 .. Rounds - 1 : q = round[t]
    BY <1>5, RoundBound DEF Go, Stall, At
  <2>2. /\ Up(q) \in Tags /\ (step[t] = "join" => Fits(t, Up(q)))
        /\ Down(q) \in Tags /\ (step[t] = "go" => Fits(t, Down(q)))
    BY <2>1, Numbers DEF Fits, Joined, IInv, LocalInv
  <2>3. PICK g \in Tags :
          /\ Fits(t, g) /\ UNCHANGED <<flight, thrown>>
          /\ table' = [table EXCEPT ![t] = @ \cup {g}]
    BY <1>5, <2>1, <2>2 DEF Go, Stall, At, Acquire, AcquireStalls
  <2> QED
    BY Zenon, <2>3, TableAcquire
<1>6. CASE Network
  BY <1>6, TableArrive, TableOverflow DEF Network, Deliver
<1>7. CASE UNCHANGED vars
  BY Zenon, <1>7, TableSame DEF vars, joinVars
<1> QED
  BY <1>1, <1>2, <1>3, <1>4, <1>5, <1>6, <1>7 DEF Next, Advance, Retire

-----------------------------------------------------------------------------
(* The theorems.                                                           *)

\* IInv holds in every reachable state, for every number of tiles and rounds.
THEOREM Inductive == Spec => []IInv
<1> QED
  BY InitInv, StepInv, PTL DEF Spec

\* The counters, the tables and the tokens under way stay well typed: no
\* counter is ever decremented below zero.
THEOREM TypeCorrect == Spec => []TypeOK
<1>1. IInv => TypeOK
  BY Zenon DEF IInv
<1> QED
  BY <1>1, Inductive, PTL

\* No tile is at work in a phase while another still works, or still has a
\* transfer outstanding, in an earlier one: a barrier separates the
\* primitives before it from those after it.
THEOREM BarrierSeparates == Spec => []PhaseSeparation
<1>1. IInv => PhaseSeparation
  <2> SUFFICES ASSUME IInv, NEW t \in Tiles, NEW u \in Tiles, round[t] > round[u]
               PROVE  /\ round[t] <= round[u] + 1
                      /\ step[u] # "work" /\ dirty[u] = 0
    BY DEF PhaseSeparation, IInv, TypeOK
  <2>1. PICK r \in 0 .. Rounds - 1 : round[t] = r + 1
    <3>1. round[t] \in 0 .. Rounds /\ round[u] \in 0 .. Rounds
      BY DEF IInv, TypeOK
    <3>2. round[t] - 1 \in 0 .. Rounds - 1 /\ round[t] = (round[t] - 1) + 1
      BY <3>1, Numbers
    <3> QED
      BY <3>2
  <2>2. Sent(t, r)
    BY <2>1 DEF IInv, DownInv
  <2>3. Released(r) = Tiles
    BY <2>2 DEF IInv, UpInv, Sent, Joined
  <2>4. round[u] > r \/ (round[u] = r /\ step[u] \notin {"work", "release"})
    BY <2>3 DEF Released
  <2>5. round[u] = r /\ step[u] # "work"
    BY <2>1, <2>4 DEF IInv, TypeOK
  <2> QED
    BY <2>1, <2>5 DEF IInv, LocalInv
<1> QED
  BY <1>1, Inductive, PTL

\* The tokens of a barrier all tiles have passed are all consumed.
THEOREM TagsAreSpent == Spec => []SpentTagsAreZero
<1>1. IInv => SpentTagsAreZero
  <2> SUFFICES ASSUME IInv, NEW r \in 0 .. Rounds - 1,
                      \A u \in Tiles : round[u] > r,
                      NEW t \in Tiles
               PROVE  Pending(t, Up(r)) = 0 /\ Pending(t, Down(r)) = 0
    BY DEF SpentTagsAreZero
  <2>1. Joined(r)
    BY ZeroTile DEF Joined
  <2> QED
    BY <2>1 DEF IInv, UpInv, DownInv
<1> QED
  BY <1>1, Inductive, PTL

\* A join table never overflows that holds one tag less than two per
\* barrier, however tokens, releases and acquires interleave.
THEOREM TablesSuffice == Spec => []NoOverflow
<1>1. Init => TableInv
  BY BarrierAssumption, Numbers DEF Init, JoinInit, TableInv, NoOverflow
<1>2. IInv /\ TableInv /\ [Next]_vars => TableInv'
  BY TableStep
<1>3. TableInv => NoOverflow
  BY DEF TableInv
<1> QED
  BY <1>1, <1>2, <1>3, Inductive, PTL DEF Spec

\* A step in which no tile enters or leaves its work is a stutter.
LEMMA StutterRefines ==
  ASSUME UNCHANGED <<round, dirty>>,
         \A u \in Tiles : (step'[u] = "work") <=> (step[u] = "work")
  PROVE  [Phases!Next]_(Phases!vars)
<1>1. [u \in Tiles |-> step'[u] = "work"] = [u \in Tiles |-> step[u] = "work"]
  BY Zenon
<1>2. UNCHANGED Phases!vars
  BY Zenon, <1>1 DEF Phases!vars
<1> QED
  BY Zenon, <1>2

\* Every step is one of PhaseBarrier, or none.
LEMMA StepRefines ==
  ASSUME IInv, [Next]_vars
  PROVE  [Phases!Next]_(Phases!vars)
<1> DEFINE w == [u \in Tiles |-> step[u] = "work"]
<1>0. /\ step \in [Tiles -> Steps] /\ round \in [Tiles -> 0 .. Rounds]
      /\ dirty \in [Tiles -> Nat]
  BY DEF IInv, TypeOK
<1>1. ASSUME NEW t \in Tiles, IssueDma(t)
      PROVE  Phases!Start(t)
  <2>1. /\ step[t] = "work" /\ dirty' = [dirty EXCEPT ![t] = @ + 1]
        /\ round' = round /\ step' = step
    BY <1>1 DEF IssueDma, At
  <2>2. w[t] /\ w' = w
    BY Zenon, <2>1
  <2> QED
    BY Zenon, <2>1, <2>2 DEF Phases!Start
<1>2. ASSUME NEW t \in Tiles, RetireDma(t)
      PROVE  Phases!Finish(t)
  <2>1. /\ dirty[t] > 0 /\ dirty' = [dirty EXCEPT ![t] = @ - 1]
        /\ round' = round /\ step' = step
    BY <1>2 DEF RetireDma
  <2>2. w' = w
    BY Zenon, <2>1
  <2> QED
    BY Zenon, <2>1, <2>2 DEF Phases!Finish
<1>3. ASSUME NEW t \in Tiles, Fence(t)
      PROVE  Phases!Reach(t)
  <2>1. /\ step[t] = "work" /\ dirty[t] = 0 /\ round[t] < Rounds
        /\ round' = round /\ dirty' = dirty
        /\ step' = [step EXCEPT ![t] = "release"]
    BY <1>3 DEF Fence, At, Goto
  <2>2. \A u \in Tiles : (step'[u] = "work") <=> (u # t /\ step[u] = "work")
    BY <1>0, <2>1
  <2>3. w[t] /\ w' = [w EXCEPT ![t] = FALSE]
    <3>1. w[t] /\ w' = [u \in Tiles |-> u # t /\ step[u] = "work"]
      BY Zenon, <2>1, <2>2
    <3>2. [u \in Tiles |-> u # t /\ step[u] = "work"] = [w EXCEPT ![t] = FALSE]
      BY Zenon
    <3> QED
      BY Zenon, <3>1, <3>2
  <2> QED
    BY Zenon, <2>1, <2>3 DEF Phases!Reach
<1>4. ASSUME NEW t \in Tiles, Go(t)
      PROVE  Phases!Leave(t)
  <2>0. PICK q \in 0 .. Rounds - 1 : q = round[t] /\ q \in Nat
    BY <1>4, RoundBound DEF Go, At
  <2>1. /\ step[t] = "go" /\ dirty' = dirty
        /\ Acquire(t, Down(q), 1)
        /\ round' = [round EXCEPT ![t] = @ + 1]
        /\ step' = [step EXCEPT ![t] = "work"]
    BY <1>4, <2>0 DEF Go, At, Goto
  <2>2. Pending(t, Down(q)) >= 1
    BY <2>0, <2>1, PendingAcquire, Numbers DEF IInv, TypeOK
  <2>3. Sent(t, q)
    BY <2>0, <2>2 DEF IInv, DownInv
  <2>4. Released(q) = Tiles
    BY <2>3 DEF IInv, UpInv, Sent, Joined
  <2>5. \A u \in Tiles : round[u] > round[t] \/ (round[u] = round[t] /\ ~w[u])
    <3>1. \A u \in Tiles :
            round[u] > round[t] \/ (round[u] = round[t] /\ step[u] # "work")
      BY <2>0, <2>4 DEF Released
    <3> QED
      BY Zenon, <3>1
  <2>6. \A u \in Tiles : (step'[u] = "work") <=> (u = t \/ step[u] = "work")
    BY <1>0, <2>1
  <2>7. ~w[t] /\ w' = [w EXCEPT ![t] = TRUE]
    <3>1. step[t] # "work"
      BY <2>1
    <3>2. ~w[t] /\ w' = [u \in Tiles |-> u = t \/ step[u] = "work"]
      BY Zenon, <2>6, <3>1
    <3>3. [u \in Tiles |-> u = t \/ step[u] = "work"] = [w EXCEPT ![t] = TRUE]
      BY Zenon
    <3> QED
      BY Zenon, <3>2, <3>3
  <2> QED
    BY Zenon, <2>1, <2>5, <2>7 DEF Phases!Leave
<1>5. ASSUME NEW t \in Tiles, ReleaseUp(t) \/ Stall(t) \/ (t = 0 /\ (Join \/ Broadcast))
      PROVE  [Phases!Next]_(Phases!vars)
  <2>1. /\ UNCHANGED <<round, dirty>>
        /\ step[t] # "work"
        /\ step' \in {step, [step EXCEPT ![t] = "join"], [step EXCEPT ![t] = "go"],
                       [step EXCEPT ![t] = "bcast"]}
    BY <1>5 DEF ReleaseUp, Stall, Join, Broadcast, At, Goto
  <2>2. \A u \in Tiles : (step'[u] = "work") <=> (step[u] = "work")
    BY <1>0, <2>1
  <2> QED
    BY <2>1, <2>2, StutterRefines
<1>6. CASE Network \/ UNCHANGED vars
  <2>1. UNCHANGED <<round, dirty, step>>
    BY <1>6 DEF Network, vars
  <2> QED
    BY <2>1, StutterRefines
<1> QED
  BY <1>1, <1>2, <1>3, <1>4, <1>5, <1>6
     DEF Next, Advance, Retire, Phases!Next

\* The instructions the compiler emits implement the abstract barrier, for
\* every number of tiles.
THEOREM Refinement == Spec => Contract
<1>1. Init => Phases!Init
  BY DEF Init, Phases!Init
<1>2. IInv /\ [Next]_vars => [Phases!Next]_(Phases!vars)
  BY StepRefines
<1> QED
  BY <1>1, <1>2, Inductive, PTL DEF Spec, Contract, Phases!Spec

=============================================================================
