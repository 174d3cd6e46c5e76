---------------------------- MODULE BankColumnProofs ----------------------------
(***************************************************************************)
(* What the memory column promises its tiles, for any tiles, links and     *)
(* cells, any programs, and any depths of its queues.                      *)
(***************************************************************************)
EXTENDS BankColumn, FiniteSetTheorems, TLAPS

-----------------------------------------------------------------------------
(* The invariant.                                                          *)

Ids == Requesters \X Nat
Packets == [id : Ids, chunk : Nat, data : SUBSET Ids]
\* The packets of a request, or of a chunk of a prefetch.
Of(id, k) == [id : {id}, chunk : {k}, data : SUBSET Ids]

\* What may be where: requests and answers on the links of their tile, DRAM
\* traffic and chunks in the column, commands at their engine.
IsReq(id) == id \in Ids /\ id[2] \in DOMAIN prog[id[1]] /\ Req(id).op \in Ops
LinkPackets(l) == {f \in Packets : IsReq(f.id) /\ f.chunk = 0 /\ Link[f.id[1]] = l}
TilePackets(t) == {f \in Packets : IsReq(f.id) /\ f.id[1] = t}
ColumnPackets ==
  {f \in Packets : /\ IsReq(f.id)
                   /\ f.chunk = 0 => IsDram(Req(f.id))
                   /\ f.chunk # 0 => /\ Req(f.id).op = "PREFETCH"
                                     /\ f.chunk \in DOMAIN Req(f.id).from}
Commands(op) == {id \in Ids : IsReq(id) /\ Req(id).op = op}

TilesTyped ==
  /\ prog \in Programs /\ pc \in [Requesters -> Nat \ {0}]
  /\ got \in [Requesters -> SUBSET Packets]
  /\ \A t \in Requesters : got[t] \subseteq TilePackets(t) /\ IsFiniteSet(got[t])
  /\ mem \in [Cells -> SUBSET Ids]
LinksTyped ==
  /\ up \in [Links -> Seq(Packets)] /\ down \in [Links -> Seq(Packets)]
  /\ \A l \in Links : up[l] \in Seq(LinkPackets(l)) /\ down[l] \in Seq(LinkPackets(l))
EnginesTyped ==
  /\ nmcQ \in Seq(Commands("REDUCE")) /\ pfQ \in Seq(Commands("PREFETCH"))
  /\ nmc \in [id : Commands("REDUCE") \cup {None}, staged : SUBSET Ids]
  /\ pf \in [id : Commands("PREFETCH") \cup {None}, next : Nat \ {0}, outstanding : Nat]
  /\ pf.id # None => pf.next <= Len(Req(pf.id).from) + 1
ColumnTyped ==
  /\ toDram \in Seq(ColumnPackets) /\ fromDram \in Seq(ColumnPackets)
  /\ out \in Seq(ColumnPackets)
  /\ pending \in Seq([flit : ColumnPackets, next_line : Nat])
  /\ device \in SUBSET [flit : ColumnPackets, lines : Nat, remaining : Nat \ {0}]
  /\ IsFiniteSet(device)
Typed == TilesTyped /\ LinksTyped /\ EnginesTyped /\ ColumnTyped

\* Hits(q, A): places of queue q that hold a member of A.
Hits(q, A) == Cardinality({i \in DOMAIN q : q[i] \in A})
\* How many packets there are between the bank and the DRAM.
Whole(A) == [flit : A, next_line : {0}]
InDevice(A) == {x \in device : x.flit \in A}
Flight(A) ==
  Hits(toDram, A) + Hits(fromDram, A) + Hits(out, A) + Hits(pending, Whole(A))
    + Cardinality(InDevice(A))

\* A request on the links, with its tile, with the engines and in the column:
\* what Holders adds up.
UpN(id) == Hits(up[Link[id[1]]], Of(id, 0))
DownN(id) == Hits(down[Link[id[1]]], Of(id, 0))
GotN(id) == Cardinality({a \in got[id[1]] : a.id = id})
CmdN(id) == Hits(nmcQ, {id}) + Hits(pfQ, {id}) + Running(nmc, id) + Running(pf, id)
Total(id) == UpN(id) + DownN(id) + GotN(id) + CmdN(id) + Flight(Of(id, 0))

\* Every request is held once from its issue on.
Held == \A id \in Ids : IsReq(id) =>
          Total(id) = IF id[2] < pc[id[1]] THEN 1 ELSE 0

\* Only the running prefetch has chunks on their way, each at most once, and
\* outstanding is their number.
Flying == {k \in 1 .. pf.next - 1 : Flight(Of(pf.id, k)) = 1}
Chunks ==
  /\ \A id \in Ids, k \in Nat \ {0} :
       Flight(Of(id, k)) \in {0, IF id = pf.id /\ k < pf.next THEN 1 ELSE 0}
  /\ pf.outstanding = IF pf.id = None THEN 0 ELSE Cardinality(Flying)

\* A request's effect is in the memory.
Settled(w) == \A c \in ToSet(Req(w).to) : w \in mem[c]
\* A store is among the first n requests on an up-link, or up the column.
OnUp(w, l, n) == Req(w).op = "DATA_WRITE" /\ \E i \in 1 .. n : up[l][i].id = w
OnColumn(w, n) == Req(w).op = "DATA_WRITE" /\ \E i \in 1 .. n : toDram[i].id = w
Passed(w) == Settled(w) \/ OnColumn(w, Len(toDram))

\* Stores of a tile, and commands that it has awaited.
StoresOk ==
  \A w \in Ids, l \in Links :
    IsReq(w) /\ w[2] < pc[w[1]] /\ Req(w).op = "DATA_WRITE" /\ Link[w[1]] = l =>
      Passed(w) \/ OnUp(w, l, Len(up[l]))
AwaitsOk ==
  \A t \in Requesters, i \in Nat, w \in Ids :
    i \in DOMAIN prog[t] /\ i < pc[t] /\ prog[t][i].op = "AWAIT" /\ w = <<t, prog[t][i].of>>
      /\ IsReq(w) /\ Req(w).op \in {"PREFETCH", "REDUCE"} => Settled(w)

\* Whatever a program orders before a request stays ahead of it.
UpOrder ==
  \A l \in Links, m \in Nat, id \in Ids, w \in Ids :
    m \in DOMAIN up[l] /\ up[l][m].id = id /\ w \in Before(id) =>
      Passed(w) \/ OnUp(w, l, m - 1)
ColumnOrder ==
  \A m \in Nat, id \in Ids, w \in Ids :
    m \in DOMAIN toDram /\ toDram[m].id = id /\ w \in Before(id) =>
      Settled(w) \/ OnColumn(w, m - 1)
AtEngine(id) ==
  (\E i \in DOMAIN nmcQ : nmcQ[i] = id) \/ (\E i \in DOMAIN pfQ : pfQ[i] = id) \/ pf.id = id
EngineOrder ==
  \A id \in Ids, w \in Ids : AtEngine(id) /\ w \in Before(id) => Passed(w)
\* The controller has it: what precedes it is done, a write is done itself.
AtController(f) ==
  (\E i \in DOMAIN pending : pending[i].flit = f) \/ (\E x \in device : x.flit = f)
Beyond ==
  \A f \in Packets : AtController(f) =>
    /\ \A w \in Before(f.id) : Settled(w)
    /\ is_write(f) => Settled(f.id)

\* What the DRAM answers, and what the engines have made.
ComesDown(f) == (\E i \in DOMAIN out : out[i] = f) \/ (\E i \in DOMAIN fromDram : fromDram[i] = f)
ReadsOk ==
  \A f \in Packets : ComesDown(f) =>
    /\ is_write(f) => Settled(f.id)
    /\ ~is_write(f) => Prior(f.id, Cell(f)) \subseteq f.data
NmcOk ==
  \A id \in Ids : nmc.id = id =>
    IF nmc.staged # {} THEN {id} \cup Required(id) \subseteq nmc.staged
                       ELSE {id} \cup Required(id) \subseteq mem[Req(id).to[1]]
Delivered(id, k) == {id} \cup Prior(id, Req(id).from[k]) \subseteq mem[Req(id).to[k]]
PrefetchOk ==
  \A id \in Ids, k \in Nat \ {0} :
    pf.id = id /\ k < pf.next /\ Flight(Of(id, k)) = 0 => Delivered(id, k)

\* An answer says the truth.
Answered(a) ==
  /\ Req(a.id).op = "DATA_WRITE" => a.id \in mem[Req(a.id).to[1]]
  /\ Req(a.id).op = "READ_REQ" => Required(a.id) \subseteq a.data
  /\ Req(a.id).op = "REDUCE" => {a.id} \cup Required(a.id) \subseteq mem[Req(a.id).to[1]]
  /\ Req(a.id).op = "PREFETCH" => \A k \in DOMAIN Req(a.id).to : Delivered(a.id, k)
IsAnswer(a) ==
  (\E t \in Requesters : a \in got[t]) \/ (\E l \in Links : \E i \in DOMAIN down[l] : down[l][i] = a)
AnswersOk == \A a \in Packets : IsAnswer(a) => Answered(a)

Ordered == StoresOk /\ AwaitsOk /\ UpOrder /\ ColumnOrder /\ EngineOrder /\ Beyond
Made == ReadsOk /\ NmcOk /\ PrefetchOk /\ AnswersOk

-----------------------------------------------------------------------------
(* Counting in queues and sets.                                            *)

In(x, A) == IF x \in A THEN 1 ELSE 0

\* A finite sequence has finitely many places.
LEMMA HitsFinite ==
  ASSUME NEW S, NEW q \in Seq(S), NEW A
  PROVE  /\ IsFiniteSet({i \in DOMAIN q : q[i] \in A})
         /\ Hits(q, A) \in Nat
<1>1. IsFiniteSet(1 .. Len(q))
  BY FS_Interval
<1>2. {i \in DOMAIN q : q[i] \in A} \subseteq 1 .. Len(q)
  OBVIOUS
<1>3. IsFiniteSet({i \in DOMAIN q : q[i] \in A})
  BY <1>1, <1>2, FS_Subset
<1>4. QED BY <1>3, FS_CardinalityType DEF Hits

\* An empty queue has none.
LEMMA HitsEmpty == ASSUME NEW A PROVE Hits(<<>>, A) = 0
<1>1. {i \in DOMAIN <<>> : <<>>[i] \in A} = {}
  OBVIOUS
<1>2. QED BY <1>1, FS_EmptySet DEF Hits

\* What is appended counts.
LEMMA HitsAppend ==
  ASSUME NEW S, NEW q \in Seq(S), NEW x \in S, NEW A
  PROVE  Hits(Append(q, x), A) = Hits(q, A) + In(x, A)
<1> DEFINE B == {i \in DOMAIN q : q[i] \in A}
           n == Len(q) + 1
           C == {i \in DOMAIN Append(q, x) : Append(q, x)[i] \in A}
<1>0. /\ Len(q) \in Nat /\ DOMAIN q = 1 .. Len(q) /\ DOMAIN Append(q, x) = 1 .. n
      /\ \A i \in 1 .. Len(q) : Append(q, x)[i] = q[i]
      /\ Append(q, x)[n] = x
  OBVIOUS
<1>1. IsFiniteSet(B) /\ Cardinality(B) \in Nat /\ n \notin B
  <2>1. IsFiniteSet(B) /\ Hits(q, A) \in Nat
    BY HitsFinite
  <2>2. n \notin B
    BY <1>0
  <2>3. QED BY <2>1, <2>2 DEF Hits
<1>2. CASE x \in A
  <2>1. C = B \cup {n}
    BY <1>0, <1>2
  <2>2. Cardinality(C) = Cardinality(B) + 1
    BY <1>1, <2>1, FS_AddElement
  <2>3. QED BY <1>2, <2>2 DEF Hits, In
<1>3. CASE x \notin A
  <2>1. C = B
    BY <1>0, <1>3
  <2>2. Hits(Append(q, x), A) = Hits(q, A) /\ In(x, A) = 0
    BY <1>3, <2>1 DEF Hits, In
  <2>3. Hits(q, A) \in Nat
    BY HitsFinite
  <2>4. QED BY <2>2, <2>3
<1>4. QED BY <1>2, <1>3

\* What is taken off the head does not any more.
LEMMA HitsTail ==
  ASSUME NEW S, NEW q \in Seq(S), q # <<>>, NEW A
  PROVE  Hits(q, A) = Hits(Tail(q), A) + In(Head(q), A)
<1> DEFINE B == {i \in DOMAIN q : q[i] \in A}
           C == {i \in DOMAIN Tail(q) : Tail(q)[i] \in A}
           up1 == [i \in C |-> i + 1]
<1>1. /\ Tail(q) \in Seq(S) /\ Len(q) \in Nat \ {0} /\ Len(Tail(q)) = Len(q) - 1
      /\ \A i \in 1 .. Len(q) - 1 : Tail(q)[i] = q[i + 1]
      /\ Head(q) = q[1] /\ DOMAIN q = 1 .. Len(q) /\ DOMAIN Tail(q) = 1 .. Len(q) - 1
  OBVIOUS
<1>2. IsFiniteSet(B) /\ IsFiniteSet(C) /\ Cardinality(B) \in Nat /\ Cardinality(C) \in Nat
  BY <1>1, HitsFinite DEF Hits
<1>3. up1 \in Bijection(C, B \ {1})
  <2>1. \A i \in C : i \in Nat /\ i + 1 \in B \ {1}
    BY <1>1
  <2>2. \A j \in B \ {1} : j - 1 \in C /\ (j - 1) + 1 = j
    BY <1>1
  <2>3. up1 \in [C -> B \ {1}]
    BY <2>1
  <2>4. up1 \in Injection(C, B \ {1})
    BY <2>1, <2>3 DEF Injection, IsInjective
  <2>5. \A j \in B \ {1} : \E i \in C : up1[i] = j
    BY <2>2
  <2>6. up1 \in Surjection(C, B \ {1})
    BY <2>3, <2>5 DEF Surjection
  <2>7. QED BY <2>4, <2>6 DEF Bijection
<1>4. Cardinality(B \ {1}) = Cardinality(C)
  BY <1>2, <1>3, FS_Bijection DEF ExistsBijection
<1>5. Cardinality(B \ {1}) = IF 1 \in B THEN Cardinality(B) - 1 ELSE Cardinality(B)
  BY <1>2, FS_RemoveElement
<1>6. 1 \in B <=> Head(q) \in A
  BY <1>1
<1>7. QED
  <2> HIDE DEF B, C
  <2>1. Hits(q, A) = Cardinality(B) /\ Hits(Tail(q), A) = Cardinality(C)
    BY DEF Hits, B, C
  <2>2. QED BY <1>2, <1>4, <1>5, <1>6, <2>1 DEF In

-----------------------------------------------------------------------------
(* Requests and packets.                                                   *)

\* Programs are sequences.
LEMMA ProgramFacts ==
  ASSUME TilesTyped, NEW t \in Requesters
  PROVE  /\ Len(prog[t]) \in Nat /\ DOMAIN prog[t] = 1 .. Len(prog[t])
         /\ pc[t] \in Nat \ {0} /\ Link[t] \in Links
<1>1. prog[t] \in Seq(ToSet(prog[t])) /\ Link[t] \in Links
  BY ColumnAssumption DEF TilesTyped
<1>2. QED BY <1>1 DEF TilesTyped

\* A request's name is not the mark of an idle engine.
LEMMA IdIsSome ==
  ASSUME NEW id \in Ids
  PROVE  id # None /\ id = <<id[1], id[2]>> /\ id[1] \in Requesters /\ id[2] \in Nat
<1>1. id = <<id[1], id[2]>> /\ id[1] \in Requesters /\ id[2] \in Nat
  BY DEF Ids
<1>2. id # None
  BY <1>1 DEF None
<1>3. QED BY <1>1, <1>2

\* What a request is, by its operation.
LEMMA ReqFacts ==
  ASSUME TilesTyped, NEW id, IsReq(id)
  PROVE  /\ id \in Ids /\ id = <<id[1], id[2]>> /\ id # None
         /\ id[1] \in Requesters /\ id[2] \in 1 .. Len(prog[id[1]]) /\ Link[id[1]] \in Links
         /\ Req(id).op \in Ops
         /\ Req(id).op = "READ_REQ" =>
              Req(id).from \in Seq(Cells) /\ Len(Req(id).from) = 1 /\ Req(id).from[1] \in Cells
         /\ Req(id).op = "DATA_WRITE" =>
              Req(id).to \in Seq(Cells) /\ Len(Req(id).to) = 1 /\ Req(id).to[1] \in Cells
         /\ Req(id).op = "PREFETCH" =>
              /\ Req(id).from \in Seq(Dram) /\ Req(id).to \in Seq(Sram)
              /\ Len(Req(id).from) = Len(Req(id).to)
         /\ Req(id).op = "REDUCE" =>
              /\ Req(id).from \in Seq(Sram) /\ Req(id).to \in Seq(Sram)
              /\ Len(Req(id).to) = 1 /\ Req(id).to[1] \in Sram
<1>1. id \in Requesters \X Nat /\ Req(id) = prog[id[1]][id[2]]
  BY DEF IsReq, Ids, Req
<1>2. /\ id = <<id[1], id[2]>> /\ id[1] \in Requesters
      /\ id[2] \in DOMAIN prog[id[1]] /\ Req(id).op \in Ops
  BY <1>1 DEF IsReq
<1>3. id[2] \in 1 .. Len(prog[id[1]]) /\ Link[id[1]] \in Links
  BY <1>2, ProgramFacts
<1>4. id # None
  BY <1>2 DEF None
<1>5. LET r == Req(id) IN
      \/ /\ r.op = "READ_REQ" /\ r.from \in Seq(Cells) /\ Len(r.from) = 1
      \/ /\ r.op = "DATA_WRITE" /\ r.to \in Seq(Cells) /\ Len(r.to) = 1
      \/ /\ r.op = "PREFETCH" /\ r.from \in Seq(Dram) /\ r.to \in Seq(Sram)
         /\ Len(r.from) = Len(r.to)
      \/ /\ r.op = "REDUCE" /\ r.from \in Seq(Sram) /\ r.to \in Seq(Sram)
         /\ Len(r.to) = 1
  <2>1. \A j \in DOMAIN prog[id[1]] :
          LET r == prog[id[1]][j] IN
            \/ r.op = "AWAIT" /\ r.of \in 1 .. j - 1
            \/ /\ r.op = "READ_REQ" /\ r.from \in Seq(Cells) /\ Len(r.from) = 1
               /\ r.from[1] \in Dram => Link[id[1]] = id[1]
            \/ /\ r.op = "DATA_WRITE" /\ r.to \in Seq(Cells) /\ Len(r.to) = 1
               /\ r.to[1] \in Dram => Link[id[1]] = id[1]
            \/ /\ r.op = "PREFETCH" /\ r.from \in Seq(Dram) /\ r.to \in Seq(Sram)
               /\ Len(r.from) = Len(r.to) /\ r.from # <<>>
            \/ /\ r.op = "REDUCE" /\ r.from \in Seq(Sram) /\ r.to \in Seq(Sram)
               /\ Len(r.to) = 1
    BY <1>2, ColumnAssumption DEF TilesTyped
  <2>2. QED BY <1>1, <1>2, <2>1 DEF Ops
<1>6. QED BY <1>1, <1>2, <1>3, <1>4, <1>5 DEF Ids

\* Queues grow at their end ...
LEMMA AppendFacts ==
  ASSUME NEW S, NEW q \in Seq(S), NEW x \in S
  PROVE  /\ Append(q, x) \in Seq(S) /\ Len(q) \in Nat /\ Len(Append(q, x)) = Len(q) + 1
         /\ DOMAIN q = 1 .. Len(q) /\ DOMAIN Append(q, x) = 1 .. Len(q) + 1
         /\ \A i \in 1 .. Len(q) : Append(q, x)[i] = q[i]
         /\ Append(q, x)[Len(q) + 1] = x
OBVIOUS

\* ... and lose their head.
LEMMA TailFacts ==
  ASSUME NEW S, NEW q \in Seq(S), q # <<>>
  PROVE  /\ Tail(q) \in Seq(S) /\ Len(q) \in Nat \ {0} /\ Len(Tail(q)) = Len(q) - 1
         /\ DOMAIN q = 1 .. Len(q) /\ DOMAIN Tail(q) = 1 .. Len(q) - 1
         /\ \A i \in 1 .. Len(q) - 1 : Tail(q)[i] = q[i + 1]
         /\ Head(q) = q[1] /\ Head(q) \in S
OBVIOUS

\* The program stays, and so does what packets may be where.
LEMMA PlacesStay ==
  ASSUME prog' = prog
  PROVE  /\ \A id : IsReq(id)' <=> IsReq(id)
         /\ \A l : LinkPackets(l)' = LinkPackets(l)
         /\ \A t : TilePackets(t)' = TilePackets(t)
         /\ ColumnPackets' = ColumnPackets
         /\ \A op : Commands(op)' = Commands(op)
<1>1. \A id : Req(id)' = Req(id)
  BY DEF Req
<1>2. \A id : IsReq(id)' <=> IsReq(id)
  BY <1>1 DEF IsReq
<1>3. QED BY <1>1, <1>2 DEF LinkPackets, TilePackets, ColumnPackets, Commands, IsDram

\* An answer goes onto its tile's link.
LEMMA SendDownTyped ==
  ASSUME TilesTyped, LinksTyped, prog' = prog, NEW f \in Packets, IsReq(f.id), f.chunk = 0,
         SendDown(f), up' = up
  PROVE  LinksTyped'
<1>1. Link[f.id[1]] \in Links
  BY ReqFacts
<1>2. f \in LinkPackets(Link[f.id[1]])
  BY DEF LinkPackets
<1>3. down' \in [Links -> Seq(Packets)]
  BY <1>1 DEF SendDown, LinksTyped
<1>4. \A l \in Links : down'[l] \in Seq(LinkPackets(l))
  BY <1>1, <1>2 DEF SendDown, LinksTyped
<1>5. QED BY <1>3, <1>4, PlacesStay DEF LinksTyped

\* Writing keeps the memory a memory.
LEMMA WriteTyped ==
  ASSUME TilesTyped, NEW c \in Cells, NEW D \in SUBSET Ids, Write(c, D),
         UNCHANGED <<prog, pc, got>>
  PROVE  TilesTyped'
BY PlacesStay DEF TilesTyped, Write

-----------------------------------------------------------------------------
(* Every variable stays in its range.                                      *)

\* What no step touches stays as it is.
LEMMA SameTyped ==
  ASSUME Typed, prog' = prog
  PROVE  /\ UNCHANGED <<pc, got, mem>> => TilesTyped'
         /\ UNCHANGED <<up, down>> => LinksTyped'
         /\ UNCHANGED <<nmcQ, nmc, pfQ, pf>> => EnginesTyped'
         /\ UNCHANGED <<toDram, fromDram, out, pending, device>> => ColumnTyped'
<1>1. UNCHANGED <<pc, got, mem>> => TilesTyped'
  BY PlacesStay DEF Typed, TilesTyped
<1>2. UNCHANGED <<up, down>> => LinksTyped'
  BY PlacesStay DEF Typed, LinksTyped
<1>3. UNCHANGED <<nmcQ, nmc, pfQ, pf>> => EnginesTyped'
  BY PlacesStay DEF Typed, EnginesTyped, Req
<1>4. UNCHANGED <<toDram, fromDram, out, pending, device>> => ColumnTyped'
  BY PlacesStay DEF Typed, ColumnTyped
<1>5. QED BY <1>1, <1>2, <1>3, <1>4

\* A request goes onto the up-link.
LEMMA InjectTyped ==
  ASSUME Typed, NEW t \in Requesters, Inject(t)
  PROVE  Typed'
<1> DEFINE f == Flit(<<t, pc[t]>>, 0, {})
<1>1. /\ pc[t] <= Len(prog[t]) /\ prog[t][pc[t]].op \in Ops
      /\ up' = [up EXCEPT ![Link[t]] = Append(@, f)] /\ pc' = [pc EXCEPT ![t] = @ + 1]
      /\ UNCHANGED <<prog, got, down, toDram, fromDram, mem, nmcQ, nmc, pfQ, pf, pending,
                     device, out>>
  BY DEF Inject, bankVars, dramVars
<1>2. /\ DOMAIN prog[t] = 1 .. Len(prog[t]) /\ pc[t] \in Nat \ {0} /\ Link[t] \in Links
  BY ProgramFacts DEF Typed
<1>3. f \in Packets /\ f.id = <<t, pc[t]>> /\ f.chunk = 0
  BY <1>2 DEF Flit, Packets, Ids
<1>4. IsReq(f.id)
  BY <1>1, <1>2, <1>3 DEF IsReq, Req, Ids
<1>5. f \in LinkPackets(Link[t])
  BY <1>3, <1>4 DEF LinkPackets
<1>6. LinksTyped'
  <2>1. up' \in [Links -> Seq(Packets)]
    BY <1>1, <1>2, <1>3 DEF Typed, LinksTyped
  <2>2. \A l \in Links : up'[l] \in Seq(LinkPackets(l))
    BY <1>1, <1>2, <1>5 DEF Typed, LinksTyped
  <2>3. QED BY <1>1, <2>1, <2>2, PlacesStay DEF Typed, LinksTyped
<1>7. TilesTyped'
  BY <1>1, PlacesStay DEF Typed, TilesTyped
<1>8. QED BY <1>1, <1>6, <1>7, SameTyped DEF Typed

\* A tile goes on.
LEMMA AwaitTyped ==
  ASSUME Typed, NEW t \in Requesters, Await(t)
  PROVE  Typed'
<1>1. /\ pc' = [pc EXCEPT ![t] = @ + 1]
      /\ UNCHANGED <<prog, got, up, down, toDram, fromDram, mem, nmcQ, nmc, pfQ, pf, pending,
                     device, out>>
  BY DEF Await, bankVars, dramVars
<1>2. TilesTyped'
  BY <1>1, PlacesStay DEF Typed, TilesTyped
<1>3. QED BY <1>1, <1>2, SameTyped DEF Typed

\* An answer comes to its tile.
LEMMA ReceiveTyped ==
  ASSUME Typed, NEW l \in Links, Receive(l)
  PROVE  Typed'
<1> DEFINE a == Head(down[l])
<1>1. /\ down[l] # <<>> /\ down' = [down EXCEPT ![l] = Tail(@)]
      /\ got' = [got EXCEPT ![a.id[1]] = @ \cup {a}]
      /\ UNCHANGED <<prog, pc, up, toDram, fromDram, mem, nmcQ, nmc, pfQ, pf, pending,
                     device, out>>
  BY DEF Receive, bankVars, dramVars
<1>2. down[l] \in Seq(LinkPackets(l)) /\ down[l] \in Seq(Packets)
  BY DEF Typed, LinksTyped
<1>3. a \in LinkPackets(l) /\ Tail(down[l]) \in Seq(LinkPackets(l))
      /\ Tail(down[l]) \in Seq(Packets)
  BY <1>1, <1>2, TailFacts
<1>4. a \in Packets /\ IsReq(a.id) /\ a.id[1] \in Requesters
  BY <1>3, ReqFacts DEF LinkPackets, Typed
<1>5. LinksTyped'
  BY <1>1, <1>3, PlacesStay DEF Typed, LinksTyped
<1>6. TilesTyped'
  <2>1. got' \in [Requesters -> SUBSET Packets]
    BY <1>1, <1>4 DEF Typed, TilesTyped
  <2>2. ASSUME NEW t \in Requesters
        PROVE  got'[t] \subseteq TilePackets(t) /\ IsFiniteSet(got'[t])
    <3>1. got[t] \subseteq TilePackets(t) /\ IsFiniteSet(got[t])
      BY DEF Typed, TilesTyped
    <3>2. CASE t = a.id[1]
      <4>1. got'[t] = got[t] \cup {a} /\ a \in TilePackets(t)
        BY <1>1, <1>4, <3>2 DEF Typed, TilesTyped, TilePackets
      <4>2. QED BY <3>1, <4>1, FS_AddElement
    <3>3. CASE t # a.id[1]
      BY <1>1, <3>1, <3>3 DEF Typed, TilesTyped
    <3>4. QED BY <3>2, <3>3
  <2>3. QED BY <1>1, <2>1, <2>2, PlacesStay DEF Typed, TilesTyped
<1>7. QED BY <1>1, <1>5, <1>6, SameTyped DEF Typed

\* The bank takes what comes down the column.
LEMMA AbsorbTyped ==
  ASSUME Typed, Absorb
  PROVE  Typed'
<1> DEFINE f == Head(fromDram)
<1>1. /\ fromDram # <<>> /\ fromDram' = Tail(fromDram)
      /\ UNCHANGED <<prog, pc, got, up, toDram, nmcQ, nmc, pfQ, pending, device, out>>
  BY DEF Absorb, tileVars, dramVars
<1>2. f \in ColumnPackets /\ Tail(fromDram) \in Seq(ColumnPackets)
  BY <1>1, TailFacts DEF Typed, ColumnTyped
<1>3. f \in Packets /\ IsReq(f.id) /\ f.chunk \in Nat /\ f.id \in Ids /\ f.data \in SUBSET Ids
  BY <1>2 DEF ColumnPackets, Packets
<1>4. ColumnTyped'
  BY <1>1, <1>2, PlacesStay DEF Typed, ColumnTyped
<1>5. CASE to_bank(f)
  <2>1. PrefetchData(f) /\ down' = down
    BY <1>5 DEF Absorb
  <2>2. Req(f.id).op = "PREFETCH" /\ f.chunk \in DOMAIN Req(f.id).from
    BY <1>2, <1>3, <1>5 DEF ColumnPackets, to_bank
  <2>3. Req(f.id).to[f.chunk] \in Cells
    BY <1>3, <2>2, ReqFacts DEF Typed, Cells
  <2>4. TilesTyped'
    BY <1>1, <1>3, <2>1, <2>3, WriteTyped DEF Typed, PrefetchData
  <2>5. /\ pf' \in [id : Commands("PREFETCH") \cup {None}, next : Nat \ {0}, outstanding : Nat]
        /\ pf'.id = pf.id /\ pf'.next = pf.next
    BY <2>1 DEF Typed, EnginesTyped, PrefetchData
  <2>6. EnginesTyped'
    BY <1>1, <2>5, PlacesStay DEF Typed, EnginesTyped, Req
  <2>7. QED BY <1>1, <1>4, <2>1, <2>4, <2>6, SameTyped DEF Typed
<1>6. CASE ~to_bank(f)
  <2>1. SendDown(f) /\ UNCHANGED <<mem, pf>>
    BY <1>6 DEF Absorb
  <2>2. f.chunk = 0
    BY <1>3, <1>6 DEF to_bank
  <2>3. LinksTyped'
    BY <1>1, <1>3, <2>1, <2>2, SendDownTyped DEF Typed
  <2>4. QED BY <1>1, <1>4, <2>1, <2>3, SameTyped DEF Typed
<1>7. QED BY <1>5, <1>6

\* The three things that can become of a request on the up-link.
Passes(f) == IsDram(Req(f.id)) /\ PassThrough(f)
Commanded(f) == Req(f.id).op \in {"PREFETCH", "REDUCE"} /\ QueueCommand(f)
Accessed(f) ==
  /\ Req(f.id).op \in {"READ_REQ", "DATA_WRITE"} /\ ~IsDram(Req(f.id))
  /\ Access(f)

\* The head of an up-link, and what becomes of it.
LEMMA ServeFacts ==
  ASSUME Typed, NEW l \in Links, Serve(l)
  PROVE  LET f == Head(up[l]) IN
         /\ up[l] # <<>> /\ up' = [up EXCEPT ![l] = Tail(@)]
         /\ UNCHANGED <<prog, pc, got, fromDram, nmc, pf, pending, device, out>>
         /\ f \in LinkPackets(l) /\ f \in Packets /\ f.chunk = 0 /\ IsReq(f.id) /\ f.id \in Ids
         /\ f.data \in SUBSET Ids /\ Link[f.id[1]] = l
         /\ Passes(f) \/ Commanded(f) \/ Accessed(f)
<1> DEFINE f == Head(up[l])
<1>1. /\ up[l] # <<>> /\ up' = [up EXCEPT ![l] = Tail(@)]
      /\ UNCHANGED <<prog, pc, got, fromDram, nmc, pf, pending, device, out>>
  BY DEF Serve, tileVars, dramVars
<1>2. up[l] \in Seq(LinkPackets(l))
  BY DEF Typed, LinksTyped
<1>3. f \in LinkPackets(l)
  BY <1>1, <1>2, TailFacts
<1>4. /\ f \in Packets /\ f.chunk = 0 /\ IsReq(f.id) /\ f.id \in Ids /\ f.data \in SUBSET Ids
      /\ Link[f.id[1]] = l
  BY <1>3 DEF LinkPackets, Packets
<1>5. Req(f.id).op \in Ops
  BY <1>4, ReqFacts DEF Typed
<1>6. IsDram(Req(f.id)) => Req(f.id).op \in {"READ_REQ", "DATA_WRITE"}
  BY DEF IsDram
<1>7. (CASE IsDram(Req(f.id)) -> PassThrough(f)
         [] Req(f.id).op \in {"PREFETCH", "REDUCE"} -> QueueCommand(f)
         [] OTHER -> Access(f))
  BY DEF Serve
<1>8. Passes(f) \/ Commanded(f) \/ Accessed(f)
  <2>1. CASE IsDram(Req(f.id))
    BY <1>6, <1>7, <2>1 DEF Passes
  <2>2. CASE ~IsDram(Req(f.id)) /\ Req(f.id).op \in {"PREFETCH", "REDUCE"}
    BY <1>7, <2>2 DEF Commanded
  <2>3. CASE ~IsDram(Req(f.id)) /\ Req(f.id).op \notin {"PREFETCH", "REDUCE"}
    BY <1>5, <1>7, <2>3 DEF Accessed, Ops
  <2>4. QED BY <2>1, <2>2, <2>3
<1>9. QED BY <1>1, <1>3, <1>4, <1>8

\* What a bank access answers.
LEMMA AnswerOf ==
  ASSUME TilesTyped, NEW f \in Packets, IsReq(f.id), f.chunk = 0, Accessed(f)
  PROVE  \E g \in Packets : g.id = f.id /\ g.chunk = 0 /\ SendDown(g)
<1>1. CASE Req(f.id).op = "DATA_WRITE"
  BY <1>1 DEF Accessed, Access
<1>2. CASE Req(f.id).op = "READ_REQ"
  <2>1. mem[Req(f.id).from[1]] \in SUBSET Ids
    BY <1>2, ReqFacts DEF TilesTyped
  <2>2. [f EXCEPT !.data = mem[Req(f.id).from[1]]] \in Packets
    BY <2>1 DEF Packets
  <2>3. QED BY <1>2, <2>2 DEF Accessed, Access, Packets
<1>3. QED BY <1>1, <1>2 DEF Accessed

\* A request leaves the up-link.
LEMMA ServeTyped ==
  ASSUME Typed, NEW l \in Links, Serve(l)
  PROVE  Typed'
<1>1. PICK f : f = Head(up[l])
  OBVIOUS
<1>2. /\ up[l] # <<>> /\ up' = [up EXCEPT ![l] = Tail(@)]
      /\ UNCHANGED <<prog, pc, got, fromDram, nmc, pf, pending, device, out>>
      /\ f \in LinkPackets(l) /\ f \in Packets /\ f.chunk = 0 /\ IsReq(f.id) /\ f.id \in Ids
      /\ f.data \in SUBSET Ids /\ Link[f.id[1]] = l
      /\ Passes(f) \/ Commanded(f) \/ Accessed(f)
  BY <1>1, ServeFacts
<1>3. /\ up' \in [Links -> Seq(Packets)]
      /\ \A k \in Links : up'[k] \in Seq(LinkPackets(k))
  <2>1. up[l] \in Seq(LinkPackets(l)) /\ up[l] \in Seq(Packets)
    BY DEF Typed, LinksTyped
  <2>2. Tail(up[l]) \in Seq(LinkPackets(l)) /\ Tail(up[l]) \in Seq(Packets)
    BY <1>2, <2>1, TailFacts
  <2>3. QED BY <1>2, <2>2 DEF Typed, LinksTyped
<1>4. CASE Passes(f)
  <2>1. toDram' = Append(toDram, f) /\ UNCHANGED <<down, mem, nmcQ, pfQ>>
    BY <1>4 DEF Passes, PassThrough
  <2>2. f \in ColumnPackets
    BY <1>2, <1>4 DEF Passes, ColumnPackets
  <2>3. ColumnTyped'
    BY <1>2, <2>1, <2>2, PlacesStay DEF Typed, ColumnTyped
  <2>4. LinksTyped'
    BY <1>2, <1>3, <2>1, PlacesStay DEF Typed, LinksTyped
  <2>5. QED BY <1>2, <2>1, <2>3, <2>4, SameTyped DEF Typed
<1>5. CASE Commanded(f)
  <2>1. UNCHANGED <<down, mem, toDram>>
    BY <1>5 DEF Commanded, QueueCommand
  <2>2. f.id \in Commands(Req(f.id).op)
    BY <1>2 DEF Commands
  <2>3. nmcQ' \in Seq(Commands("REDUCE")) /\ pfQ' \in Seq(Commands("PREFETCH"))
    <3>0. nmcQ \in Seq(Commands("REDUCE")) /\ pfQ \in Seq(Commands("PREFETCH"))
      BY DEF Typed, EnginesTyped
    <3>1. CASE Req(f.id).op = "PREFETCH"
      <4>1. pfQ' = Append(pfQ, f.id) /\ nmcQ' = nmcQ
        BY <1>5, <3>1 DEF Commanded, QueueCommand
      <4>2. QED BY <2>2, <3>0, <3>1, <4>1
    <3>2. CASE Req(f.id).op = "REDUCE"
      <4>1. nmcQ' = Append(nmcQ, f.id) /\ pfQ' = pfQ
        BY <1>5, <3>2 DEF Commanded, QueueCommand
      <4>2. QED BY <2>2, <3>0, <3>2, <4>1
    <3>3. QED BY <1>5, <3>1, <3>2 DEF Commanded
  <2>4. EnginesTyped'
    BY <1>2, <2>3, PlacesStay DEF Typed, EnginesTyped, Req
  <2>5. LinksTyped'
    BY <1>2, <1>3, <2>1, PlacesStay DEF Typed, LinksTyped
  <2>6. QED BY <1>2, <2>1, <2>4, <2>5, SameTyped DEF Typed
<1>6. CASE Accessed(f)
  <2>1. UNCHANGED <<toDram, nmcQ, pfQ>>
    BY <1>6 DEF Accessed, Access
  <2>2. PICK g \in Packets : g.id = f.id /\ g.chunk = 0 /\ SendDown(g)
    BY <1>2, <1>6, AnswerOf DEF Typed
  <2>3. TilesTyped'
    <3>1. CASE Req(f.id).op = "DATA_WRITE"
      <4>1. Write(Req(f.id).to[1], {f.id})
        BY <1>6, <3>1 DEF Accessed, Access
      <4>2. Req(f.id).to[1] \in Cells
        BY <1>2, <3>1, ReqFacts DEF Typed
      <4>3. QED BY <1>2, <4>1, <4>2, WriteTyped DEF Typed
    <3>2. CASE Req(f.id).op = "READ_REQ"
      <4>1. mem' = mem
        BY <1>6, <3>2 DEF Accessed, Access
      <4>2. QED BY <1>2, <4>1, SameTyped
    <3>3. QED BY <1>6, <3>1, <3>2 DEF Accessed
  <2>4. LinksTyped'
    <3>1. down' \in [Links -> Seq(Packets)]
          /\ \A k \in Links : down'[k] \in Seq(LinkPackets(k))
      <4>1. g \in LinkPackets(l) /\ Link[g.id[1]] = l
        BY <1>2, <2>2 DEF LinkPackets
      <4>2. QED BY <2>2, <4>1 DEF SendDown, Typed, LinksTyped
    <3>2. QED BY <1>2, <1>3, <3>1, PlacesStay DEF Typed, LinksTyped
  <2>5. QED BY <1>2, <2>1, <2>3, <2>4, SameTyped DEF Typed
<1>7. QED BY <1>2, <1>4, <1>5, <1>6

\* The near-memory engine starts and finishes.
LEMMA NmcTyped ==
  ASSUME Typed, NmcStart \/ NmcFinish
  PROVE  Typed'
<1>1. UNCHANGED <<prog, pc, got, up, toDram, fromDram, pfQ, pf, pending, device, out>>
  BY DEF NmcStart, NmcFinish, tileVars, dramVars
<1>2. CASE NmcStart
  <2>1. UNCHANGED <<down, mem>> /\ nmcQ # <<>> /\ nmcQ' = Tail(nmcQ)
    BY <1>2 DEF NmcStart
  <2>2. PICK id : id = Head(nmcQ)
    OBVIOUS
  <2>3. id \in Commands("REDUCE") /\ Tail(nmcQ) \in Seq(Commands("REDUCE"))
    BY <2>1, <2>2, TailFacts DEF Typed, EnginesTyped
  <2>4. id \in Ids /\ IsReq(id) /\ Req(id).op = "REDUCE"
    BY <2>3 DEF Commands
  <2>5. \A c \in ToSet(Req(id).from) : mem[c] \in SUBSET Ids
    BY <2>4, ReqFacts DEF Typed, TilesTyped, ToSet, Cells
  <2>6. PICK D \in SUBSET Ids : nmc' = [id |-> id, staged |-> D]
    BY <1>2, <2>2, <2>4, <2>5 DEF NmcStart
  <2>7. EnginesTyped'
    BY <1>1, <2>1, <2>3, <2>6, PlacesStay DEF Typed, EnginesTyped, Req
  <2>8. QED BY <1>1, <2>1, <2>7, SameTyped DEF Typed
<1>3. CASE NmcFinish
  <2>1. nmc.id # None /\ nmcQ' = nmcQ
    BY <1>3 DEF NmcFinish
  <2>2. nmc.id \in Commands("REDUCE") /\ nmc.staged \in SUBSET Ids
    BY <2>1 DEF Typed, EnginesTyped
  <2>3. nmc.id \in Ids /\ IsReq(nmc.id) /\ Req(nmc.id).to[1] \in Cells
    BY <2>2, ReqFacts DEF Typed, Commands, Cells
  <2>4. TilesTyped'
    <3>1. Write(Req(nmc.id).to[1], nmc.staged) \/ mem' = mem
      BY <1>3 DEF NmcFinish
    <3>2. QED BY <1>1, <2>2, <2>3, <3>1, WriteTyped, SameTyped DEF Typed
  <2>5. LinksTyped'
    <3>1. Flit(nmc.id, 0, {}) \in Packets /\ Flit(nmc.id, 0, {}).id = nmc.id
          /\ Flit(nmc.id, 0, {}).chunk = 0
      BY <2>3 DEF Flit, Packets
    <3>2. SendDown(Flit(nmc.id, 0, {})) \/ down' = down
      BY <1>3 DEF NmcFinish
    <3>3. QED BY <1>1, <2>3, <3>1, <3>2, SendDownTyped, SameTyped DEF Typed
  <2>6. EnginesTyped'
    <3>1. nmc' \in [id : Commands("REDUCE") \cup {None}, staged : SUBSET Ids]
      BY <1>3 DEF NmcFinish, Typed, EnginesTyped
    <3>2. QED BY <1>1, <2>1, <3>1, PlacesStay DEF Typed, EnginesTyped, Req
  <2>7. QED BY <1>1, <2>4, <2>5, <2>6, SameTyped DEF Typed
<1>4. QED BY <1>2, <1>3

\* The chunk that the prefetch engine asks for.
LEMMA ChunkTyped ==
  ASSUME Typed, PrefetchGenerate
  PROVE  Flit(pf.id, pf.next, {}) \in ColumnPackets
<1>1. pf.id \in Commands("PREFETCH") /\ pf.next \in Nat \ {0} /\ ~pf_gen_done
  BY DEF Typed, EnginesTyped, PrefetchGenerate
<1>2. /\ pf.id \in Ids /\ IsReq(pf.id) /\ Req(pf.id).op = "PREFETCH"
      /\ Len(Req(pf.id).from) \in Nat /\ DOMAIN Req(pf.id).from = 1 .. Len(Req(pf.id).from)
  BY <1>1, ReqFacts DEF Commands, Typed
<1>3. pf.next <= Len(Req(pf.id).from)
  BY <1>1, <1>2 DEF pf_gen_done
<1>4. QED BY <1>1, <1>2, <1>3 DEF Flit, ColumnPackets, Packets

\* The prefetch engine starts, asks for a chunk, and finishes.
LEMMA PrefetchTyped ==
  ASSUME Typed, PrefetchStart \/ PrefetchGenerate \/ PrefetchFinish
  PROVE  Typed'
<1>1. UNCHANGED <<prog, pc, got, mem, up, fromDram, nmcQ, nmc, pending, device, out>>
  BY DEF PrefetchStart, PrefetchGenerate, PrefetchFinish, tileVars, dramVars
<1>2. CASE PrefetchStart
  <2>1. UNCHANGED <<down, toDram>> /\ pfQ # <<>> /\ pfQ' = Tail(pfQ)
        /\ pf' = [pf EXCEPT !.id = Head(pfQ), !.next = 1]
    BY <1>2 DEF PrefetchStart
  <2>2. Head(pfQ) \in Commands("PREFETCH") /\ Tail(pfQ) \in Seq(Commands("PREFETCH"))
    BY <2>1, TailFacts DEF Typed, EnginesTyped
  <2>9. pf \in [id : Commands("PREFETCH") \cup {None}, next : Nat \ {0}, outstanding : Nat]
    BY DEF Typed, EnginesTyped
  <2>10. pf' = [id |-> Head(pfQ), next |-> 1, outstanding |-> pf.outstanding]
    BY <2>1, <2>9
  <2>3. pf' \in [id : Commands("PREFETCH") \cup {None}, next : Nat \ {0}, outstanding : Nat]
    BY <2>2, <2>9, <2>10
  <2>4. pf'.id = Head(pfQ) /\ pf'.next = 1
    BY <2>1 DEF Typed, EnginesTyped
  <2>5. Len(Req(pf'.id).from) \in Nat
    BY <2>2, <2>4, ReqFacts DEF Commands, Typed
  <2>6. EnginesTyped'
    <3>1. Req(pf.id)' = Req(pf'.id)
      BY <1>1 DEF Req
    <3>2. pf'.next <= Len(Req(pf.id)'.from) + 1
      BY <2>4, <2>5, <3>1
    <3>3. QED BY <1>1, <2>1, <2>2, <2>3, <3>2, PlacesStay DEF Typed, EnginesTyped
  <2>7. QED BY <1>1, <2>1, <2>6, SameTyped DEF Typed
<1>3. CASE PrefetchGenerate
  <2>1. /\ UNCHANGED <<down, pfQ>> /\ toDram' = Append(toDram, Flit(pf.id, pf.next, {}))
        /\ pf' = [pf EXCEPT !.next = @ + 1, !.outstanding = @ + 1]
        /\ pf.id # None /\ ~pf_gen_done
    BY <1>3 DEF PrefetchGenerate
  <2>2. pf.id \in Commands("PREFETCH") /\ pf.next \in Nat \ {0}
    BY <2>1 DEF Typed, EnginesTyped
  <2>3. /\ pf.id \in Ids /\ IsReq(pf.id) /\ Req(pf.id).op = "PREFETCH"
        /\ Len(Req(pf.id).from) \in Nat /\ DOMAIN Req(pf.id).from = 1 .. Len(Req(pf.id).from)
    BY <2>2, ReqFacts DEF Commands, Typed
  <2>4. pf.next <= Len(Req(pf.id).from)
    BY <2>1, <2>2, <2>3 DEF pf_gen_done
  <2>5. Flit(pf.id, pf.next, {}) \in ColumnPackets
    BY <1>3, ChunkTyped
  <2>6. ColumnTyped'
    BY <1>1, <2>1, <2>5, PlacesStay DEF Typed, ColumnTyped
  <2>7. /\ pf' \in [id : Commands("PREFETCH") \cup {None}, next : Nat \ {0}, outstanding : Nat]
        /\ pf'.id = pf.id /\ pf'.next = pf.next + 1
    <3>1. pf \in [id : Commands("PREFETCH") \cup {None}, next : Nat \ {0}, outstanding : Nat]
      BY DEF Typed, EnginesTyped
    <3>2. pf' = [id |-> pf.id, next |-> pf.next + 1, outstanding |-> pf.outstanding + 1]
      BY <2>1, <3>1
    <3>3. QED BY <3>1, <3>2
  <2>8. EnginesTyped'
    <3>1. Req(pf.id)' = Req(pf.id)
      BY <1>1, <2>7 DEF Req
    <3>2. pf'.next <= Len(Req(pf.id)'.from) + 1
      BY <2>2, <2>3, <2>4, <2>7, <3>1
    <3>3. QED BY <1>1, <2>1, <2>7, <3>2, PlacesStay DEF Typed, EnginesTyped
  <2>9. QED BY <1>1, <2>1, <2>6, <2>8, SameTyped DEF Typed
<1>4. CASE PrefetchFinish
  <2>1. /\ UNCHANGED <<toDram, pfQ>> /\ pf' = [pf EXCEPT !.id = None] /\ pf.id # None
        /\ SendDown(Flit(pf.id, 0, {}))
    BY <1>4 DEF PrefetchFinish
  <2>2. pf.id \in Commands("PREFETCH")
    BY <2>1 DEF Typed, EnginesTyped
  <2>3. pf.id \in Ids /\ IsReq(pf.id)
    BY <2>2 DEF Commands
  <2>4. Flit(pf.id, 0, {}) \in Packets /\ Flit(pf.id, 0, {}).id = pf.id
        /\ Flit(pf.id, 0, {}).chunk = 0
    BY <2>3 DEF Flit, Packets
  <2>5. LinksTyped'
    BY <1>1, <2>1, <2>3, <2>4, SendDownTyped DEF Typed
  <2>6. pf' \in [id : Commands("PREFETCH") \cup {None}, next : Nat \ {0}, outstanding : Nat]
        /\ pf'.id = None
    BY <2>1 DEF Typed, EnginesTyped
  <2>7. EnginesTyped'
    BY <1>1, <2>1, <2>6, PlacesStay DEF Typed, EnginesTyped
  <2>8. QED BY <1>1, <2>1, <2>5, <2>7, SameTyped DEF Typed
<1>5. QED BY <1>2, <1>3, <1>4

Entries == [flit : ColumnPackets, next_line : Nat]
Works == [flit : ColumnPackets, lines : Nat, remaining : Nat \ {0}]

\* A packet of the column is one of a request with a cell to work on.
LEMMA ColumnFacts ==
  ASSUME TilesTyped, NEW f \in ColumnPackets
  PROVE  /\ f \in Packets /\ IsReq(f.id) /\ f.id \in Ids /\ f.chunk \in Nat
         /\ f.data \in SUBSET Ids /\ Cell(f) \in Dram /\ Cell(f) \in Cells
         /\ is_write(f) <=> f.chunk = 0 /\ Req(f.id).op = "DATA_WRITE"
         /\ is_write(f) => Cell(f) = Req(f.id).to[1] /\ Req(f.id).to[1] \in Dram
         /\ ~is_write(f) =>
              /\ f.chunk = 0 => Req(f.id).op = "READ_REQ" /\ Cell(f) = Req(f.id).from[1]
              /\ f.chunk # 0 => /\ Req(f.id).op = "PREFETCH"
                                /\ f.chunk \in 1 .. Len(Req(f.id).from)
                                /\ Cell(f) = Req(f.id).from[f.chunk]
<1>1. /\ f \in Packets /\ IsReq(f.id) /\ f.id \in Ids /\ f.chunk \in Nat
      /\ f.data \in SUBSET Ids
      /\ f.chunk = 0 => IsDram(Req(f.id))
      /\ f.chunk # 0 => Req(f.id).op = "PREFETCH" /\ f.chunk \in DOMAIN Req(f.id).from
  BY DEF ColumnPackets, Packets
<1>2. to_bank(f) <=> f.chunk # 0
  BY <1>1 DEF to_bank
<1>3. is_write(f) <=> f.chunk = 0 /\ Req(f.id).op = "DATA_WRITE"
  BY <1>2 DEF is_write
<1>4. CASE f.chunk # 0
  <2>1. /\ Req(f.id).from \in Seq(Dram) /\ f.chunk \in 1 .. Len(Req(f.id).from)
        /\ Cell(f) = Req(f.id).from[f.chunk]
    BY <1>1, <1>2, <1>4, ReqFacts DEF Cell
  <2>2. QED BY <1>1, <1>3, <1>4, <2>1 DEF Cells
<1>5. CASE f.chunk = 0
  <2>1. \/ Req(f.id).op = "READ_REQ" /\ Req(f.id).from[1] \in Dram
        \/ Req(f.id).op = "DATA_WRITE" /\ Req(f.id).to[1] \in Dram
    BY <1>1, <1>5 DEF IsDram
  <2>2. Cell(f) = IF Req(f.id).op = "DATA_WRITE" THEN Req(f.id).to[1] ELSE Req(f.id).from[1]
    BY <1>2, <1>5 DEF Cell
  <2>3. QED BY <1>1, <1>3, <1>5, <2>1, <2>2 DEF Cells
<1>6. QED BY <1>4, <1>5

\* The controller accepts a packet.
LEMMA IngestTyped ==
  ASSUME Typed, Ingest
  PROVE  Typed'
<1>1. PICK f : f = Head(toDram)
  OBVIOUS
<1>2. /\ UNCHANGED <<prog, pc, got, up, down, fromDram, nmcQ, nmc, pfQ, pf, device, out>>
      /\ toDram # <<>> /\ toDram' = Tail(toDram)
      /\ pending' = Append(pending, [flit |-> f, next_line |-> 0])
  BY <1>1 DEF Ingest, tileVars, bankVars
<1>3. f \in ColumnPackets /\ Tail(toDram) \in Seq(ColumnPackets)
  BY <1>1, <1>2, TailFacts DEF Typed, ColumnTyped
<1>4. ColumnTyped'
  BY <1>2, <1>3, PlacesStay DEF Typed, ColumnTyped
<1>5. TilesTyped'
  <2>1. Write(Cell(f), {f.id}) \/ mem' = mem
    BY <1>1 DEF Ingest
  <2>2. Cell(f) \in Cells /\ f.id \in Ids
    BY <1>3, ColumnFacts DEF Typed
  <2>3. QED BY <1>2, <2>1, <2>2, WriteTyped, SameTyped DEF Typed
<1>6. QED BY <1>2, <1>4, <1>5, SameTyped DEF Typed

\* What the controller gives the device a line of.
MoreLines(f) == {IF x.flit = f THEN [x EXCEPT !.lines = @ + 1] ELSE x : x \in device}

\* The two cases of an issue.
LEMMA IssueFacts ==
  ASSUME Typed, Issue
  PROVE  LET p == Head(pending) IN
         /\ pending # <<>> /\ pending \in Seq(Entries) /\ p \in Entries
         /\ UNCHANGED <<prog, pc, got, mem, up, down, toDram, fromDram, nmcQ, nmc, pfQ, pf, out>>
         /\ \/ /\ p.next_line = 0
               /\ device' = device \cup {[flit |-> p.flit, lines |-> 1, remaining |-> Lines]}
            \/ p.next_line # 0 /\ device' = MoreLines(p.flit)
         /\ \/ p.next_line + 1 = Lines /\ pending' = Tail(pending)
            \/ /\ p.next_line + 1 # Lines
               /\ pending' = [pending EXCEPT ![1] =
                                [flit |-> p.flit, next_line |-> p.next_line + 1]]
<1>1. /\ pending # <<>> /\ pending \in Seq(Entries)
      /\ UNCHANGED <<prog, pc, got, mem, up, down, toDram, fromDram, nmcQ, nmc, pfQ, pf, out>>
  BY DEF Issue, tileVars, bankVars, Typed, ColumnTyped, Entries
<1>2. PICK p : p = Head(pending)
  OBVIOUS
<1>3. p \in Entries /\ p = pending[1] /\ 1 \in DOMAIN pending
  BY <1>1, <1>2, TailFacts
<1>4. \/ /\ p.next_line = 0
         /\ device' = device \cup {[flit |-> p.flit, lines |-> 1, remaining |-> Lines]}
      \/ p.next_line # 0 /\ device' = MoreLines(p.flit)
  BY <1>2 DEF Issue, MoreLines
<1>5. [pending EXCEPT ![1].next_line = @ + 1]
        = [pending EXCEPT ![1] = [flit |-> p.flit, next_line |-> p.next_line + 1]]
  <2>1. [p EXCEPT !.next_line = @ + 1] = [flit |-> p.flit, next_line |-> p.next_line + 1]
    BY <1>3 DEF Entries
  <2>2. [pending EXCEPT ![1].next_line = @ + 1]
          = [pending EXCEPT ![1] = [p EXCEPT !.next_line = @ + 1]]
    BY <1>3
  <2>3. QED BY <2>1, <2>2
<1>6. \/ p.next_line + 1 = Lines /\ pending' = Tail(pending)
      \/ p.next_line + 1 # Lines /\ pending' = [pending EXCEPT ![1].next_line = @ + 1]
  BY <1>2 DEF Issue
<1>7. QED BY <1>1, <1>2, <1>3, <1>4, <1>5, <1>6

\* A finite set of works stays one.
LEMMA MoreLinesFinite ==
  ASSUME IsFiniteSet(device), device \in SUBSET Works, NEW f
  PROVE  MoreLines(f) \in SUBSET Works /\ IsFiniteSet(MoreLines(f))
<1> DEFINE g == [x \in device |-> IF x.flit = f THEN [x EXCEPT !.lines = @ + 1] ELSE x]
<1>1. MoreLines(f) \in SUBSET Works
  BY DEF MoreLines, Works
<1>2. g \in Surjection(device, MoreLines(f))
  BY DEF Surjection, MoreLines
<1>3. QED BY <1>1, <1>2, FS_Surjection

\* The controller issues a line.
LEMMA IssueTyped ==
  ASSUME Typed, Issue
  PROVE  Typed'
<1>1. PICK p : p = Head(pending)
  OBVIOUS
<1>2. /\ pending # <<>> /\ pending \in Seq(Entries) /\ p \in Entries
      /\ UNCHANGED <<prog, pc, got, mem, up, down, toDram, fromDram, nmcQ, nmc, pfQ, pf, out>>
      /\ \/ device' = device \cup {[flit |-> p.flit, lines |-> 1, remaining |-> Lines]}
         \/ device' = MoreLines(p.flit)
      /\ \/ pending' = Tail(pending)
         \/ pending' = [pending EXCEPT ![1] =
                          [flit |-> p.flit, next_line |-> p.next_line + 1]]
  BY <1>1, IssueFacts
<1>3. device \in SUBSET Works /\ IsFiniteSet(device)
  BY DEF Typed, ColumnTyped, Works
<1>4. Lines \in Nat \ {0} /\ p.flit \in ColumnPackets /\ p.next_line \in Nat
  BY <1>2, ColumnAssumption DEF Entries
<1>5. device' \in SUBSET Works /\ IsFiniteSet(device')
  <2>1. CASE device' = device \cup {[flit |-> p.flit, lines |-> 1, remaining |-> Lines]}
    <3>1. [flit |-> p.flit, lines |-> 1, remaining |-> Lines] \in Works
      BY <1>4 DEF Works
    <3>2. QED BY <1>3, <2>1, <3>1, FS_AddElement
  <2>2. CASE device' = MoreLines(p.flit)
    BY <1>3, <2>2, MoreLinesFinite
  <2>3. QED BY <1>2, <2>1, <2>2
<1>6. pending' \in Seq(Entries)
  <2>1. [flit |-> p.flit, next_line |-> p.next_line + 1] \in Entries
    BY <1>4 DEF Entries
  <2>2. QED BY <1>2, <2>1
<1>7. ColumnTyped'
  BY <1>2, <1>5, <1>6, PlacesStay DEF Typed, ColumnTyped, Entries, Works
<1>8. QED BY <1>2, <1>7, SameTyped DEF Typed

\* The two cases of a callback: the packet is complete, or a line of it is.
LEMMA CallbackFacts ==
  ASSUME Typed, NEW x \in device, Callback(x)
  PROVE  /\ UNCHANGED <<prog, pc, got, mem, up, down, toDram, fromDram, nmcQ, nmc, pfQ, pf,
                        pending>>
         /\ x \in Works /\ x.flit \in ColumnPackets /\ x.flit \in Packets
         /\ \/ \E f \in ColumnPackets :
                 /\ device' = device \ {x} /\ out' = Append(out, f)
                 /\ f.id = x.flit.id /\ f.chunk = x.flit.chunk
                 /\ ~is_write(f) => f.data = mem[Cell(f)]
            \/ \E y \in Works : /\ device' = (device \ {x}) \cup {y} /\ out' = out
                                /\ y.flit = x.flit
<1>1. UNCHANGED <<prog, pc, got, mem, up, down, toDram, fromDram, nmcQ, nmc, pfQ, pf, pending>>
  BY DEF Callback, tileVars, bankVars
<1>2. x \in Works /\ x.flit \in ColumnPackets
  BY DEF Typed, ColumnTyped, Works
<1>3. /\ x.flit \in Packets /\ IsReq(x.flit.id) /\ mem[Cell(x.flit)] \in SUBSET Ids
  BY <1>2, ColumnFacts DEF Typed, TilesTyped
<1>4. CASE x.remaining = 1
  <2>1. PICK f : /\ device' = device \ {x} /\ out' = Append(out, f)
                 /\ f = IF is_write(x.flit) THEN x.flit
                        ELSE [x.flit EXCEPT !.data = mem[Cell(x.flit)]]
    BY <1>4 DEF Callback
  <2>2. f \in Packets /\ f.id = x.flit.id /\ f.chunk = x.flit.chunk
        /\ (~is_write(x.flit) => f.data = mem[Cell(x.flit)])
    BY <1>3, <2>1 DEF Packets
  <2>3. f \in ColumnPackets
    BY <1>2, <2>2 DEF ColumnPackets
  <2>4. Cell(f) = Cell(x.flit) /\ (is_write(f) <=> is_write(x.flit))
    BY <2>2 DEF Cell, is_write, to_bank
  <2>5. QED BY <1>1, <1>2, <1>3, <2>1, <2>2, <2>3, <2>4
<1>5. CASE x.remaining # 1
  <2>1. /\ device' = (device \ {x}) \cup {[x EXCEPT !.lines = @ - 1, !.remaining = @ - 1]}
        /\ out' = out /\ x.lines > 0
    BY <1>5 DEF Callback
  <2>2. PICK y : y = [x EXCEPT !.lines = @ - 1, !.remaining = @ - 1]
    OBVIOUS
  <2>3. x.lines - 1 \in Nat /\ x.remaining - 1 \in Nat \ {0}
    BY <1>2, <1>5, <2>1 DEF Works
  <2>4. y \in Works /\ y.flit = x.flit
    BY <1>2, <2>2, <2>3 DEF Works
  <2>5. QED BY <1>1, <1>2, <1>3, <2>1, <2>2, <2>4
<1>6. QED BY <1>4, <1>5

\* The device finishes a line.
LEMMA CallbackTyped ==
  ASSUME Typed, NEW x \in device, Callback(x)
  PROVE  Typed'
<1>1. UNCHANGED <<prog, pc, got, mem, up, down, toDram, fromDram, nmcQ, nmc, pfQ, pf, pending>>
  BY CallbackFacts
<1>2. device \in SUBSET Works /\ IsFiniteSet(device) /\ out \in Seq(ColumnPackets)
  BY DEF Typed, ColumnTyped, Works
<1>3. IsFiniteSet(device \ {x})
  BY <1>2, FS_RemoveElement
<1>4. device' \in SUBSET Works /\ IsFiniteSet(device') /\ out' \in Seq(ColumnPackets)
  <2>1. ASSUME NEW f \in ColumnPackets, device' = device \ {x}, out' = Append(out, f)
        PROVE  device' \in SUBSET Works /\ IsFiniteSet(device') /\ out' \in Seq(ColumnPackets)
    BY <1>2, <1>3, <2>1
  <2>2. ASSUME NEW y \in Works, device' = (device \ {x}) \cup {y}, out' = out
        PROVE  device' \in SUBSET Works /\ IsFiniteSet(device') /\ out' \in Seq(ColumnPackets)
    BY <1>2, <1>3, <2>2, FS_AddElement
  <2>3. QED BY <2>1, <2>2, CallbackFacts
<1>5. ColumnTyped'
  BY <1>1, <1>4, PlacesStay DEF Typed, ColumnTyped, Works
<1>6. QED BY <1>1, <1>5, SameTyped DEF Typed

\* The controller responds.
LEMMA DrainTyped ==
  ASSUME Typed, Drain
  PROVE  Typed'
<1>1. /\ UNCHANGED <<prog, pc, got, up, down, toDram, mem, nmcQ, nmc, pfQ, pf, pending, device>>
      /\ out # <<>> /\ out' = Tail(out) /\ fromDram' = Append(fromDram, Head(out))
  BY DEF Drain, tileVars, bankVars
<1>2. Head(out) \in ColumnPackets /\ Tail(out) \in Seq(ColumnPackets)
  BY <1>1, TailFacts DEF Typed, ColumnTyped
<1>3. ColumnTyped'
  BY <1>1, <1>2, PlacesStay DEF Typed, ColumnTyped
<1>4. QED BY <1>1, <1>3, SameTyped DEF Typed

-----------------------------------------------------------------------------
(* How many there are of a request, stage by stage.                        *)

ItIs(a, b) == IF a = b THEN 1 ELSE 0

\* A packet is of a request.
LEMMA OfPacket ==
  ASSUME NEW f \in Packets, NEW id \in Ids, NEW k \in Nat
  PROVE  /\ f \in Of(id, k) <=> f.id = id /\ f.chunk = k
         /\ f.chunk = k => In(f, Of(id, k)) = ItIs(f.id, id)
BY DEF Packets, Of, In, ItIs

\* The counts are numbers.
LEMMA StageTypes ==
  ASSUME Typed, NEW id \in Ids, NEW A
  PROVE  /\ UpN(id) \in Nat /\ DownN(id) \in Nat /\ GotN(id) \in Nat /\ CmdN(id) \in Nat
         /\ Hits(toDram, A) \in Nat /\ Hits(fromDram, A) \in Nat /\ Hits(out, A) \in Nat
         /\ Hits(pending, Whole(A)) \in Nat
         /\ IsFiniteSet(InDevice(A)) /\ Cardinality(InDevice(A)) \in Nat
         /\ Flight(A) \in Nat
         /\ Hits(nmcQ, {id}) \in Nat /\ Hits(pfQ, {id}) \in Nat
<1>1. id[1] \in Requesters /\ Link[id[1]] \in Links
  BY ColumnAssumption DEF Ids
<1>2. UpN(id) \in Nat /\ DownN(id) \in Nat
  BY <1>1, HitsFinite DEF UpN, DownN, Typed, LinksTyped
<1>3. GotN(id) \in Nat
  <2>1. IsFiniteSet(got[id[1]])
    BY <1>1 DEF Typed, TilesTyped
  <2>2. IsFiniteSet({a \in got[id[1]] : a.id = id})
    BY <2>1, FS_Subset
  <2>3. QED BY <2>2, FS_CardinalityType DEF GotN
<1>4. Hits(nmcQ, {id}) \in Nat /\ Hits(pfQ, {id}) \in Nat
  BY HitsFinite DEF Typed, EnginesTyped
<1>5. CmdN(id) \in Nat
  BY <1>4 DEF CmdN, Running
<1>6. /\ Hits(toDram, A) \in Nat /\ Hits(fromDram, A) \in Nat /\ Hits(out, A) \in Nat
      /\ Hits(pending, Whole(A)) \in Nat
  BY HitsFinite DEF Typed, ColumnTyped
<1>7. IsFiniteSet(InDevice(A)) /\ Cardinality(InDevice(A)) \in Nat
  <2>1. IsFiniteSet(device) /\ InDevice(A) \subseteq device
    BY DEF Typed, ColumnTyped, InDevice
  <2>2. IsFiniteSet(InDevice(A))
    BY <2>1, FS_Subset
  <2>3. QED BY <2>2, FS_CardinalityType
<1>8. Flight(A) \in Nat
  BY <1>6, <1>7 DEF Flight
<1>9. QED BY <1>2, <1>3, <1>4, <1>5, <1>6, <1>7, <1>8

\* The places of a request in a queue of packets.
LEMMA OccursIsHits ==
  ASSUME NEW q \in Seq(Packets), NEW id \in Ids
  PROVE  Occurs(q, id) = Hits(q, Of(id, 0))
<1>1. ASSUME NEW i \in DOMAIN q
      PROVE  IsRequest(q[i], id) <=> q[i] \in Of(id, 0)
  <2>1. q[i] \in Packets
    OBVIOUS
  <2>2. q[i].chunk \in Nat
    BY <2>1 DEF Packets
  <2>3. QED BY <2>1, <2>2, OfPacket DEF IsRequest, to_bank
<1>2. {i \in DOMAIN q : IsRequest(q[i], id)} = {i \in DOMAIN q : q[i] \in Of(id, 0)}
  BY <1>1
<1>3. QED BY <1>2 DEF Occurs, Hits

\* Holders adds the stages up.
LEMMA HoldersAre ==
  ASSUME Typed, NEW id \in Ids, IsReq(id)
  PROVE  Holders(id) = Total(id)
<1>1. id[1] \in Requesters /\ Link[id[1]] \in Links
  BY ColumnAssumption DEF Ids
<1>2. up[Link[id[1]]] \in Seq(Packets) /\ down[Link[id[1]]] \in Seq(Packets)
  BY <1>1 DEF Typed, LinksTyped
<1>3. toDram \in Seq(Packets) /\ fromDram \in Seq(Packets) /\ out \in Seq(Packets)
  BY DEF Typed, ColumnTyped, ColumnPackets
<1>4. /\ Occurs(up[Link[id[1]]], id) = UpN(id) /\ Occurs(down[Link[id[1]]], id) = DownN(id)
      /\ Occurs(toDram, id) = Hits(toDram, Of(id, 0))
      /\ Occurs(fromDram, id) = Hits(fromDram, Of(id, 0))
      /\ Occurs(out, id) = Hits(out, Of(id, 0))
  BY <1>2, <1>3, OccursIsHits DEF UpN, DownN
<1>5. Queued(nmcQ, id) = Hits(nmcQ, {id}) /\ Queued(pfQ, id) = Hits(pfQ, {id})
  BY DEF Queued, Hits
<1>6. Cardinality({i \in DOMAIN pending :
                     pending[i].next_line = 0 /\ IsRequest(pending[i].flit, id)})
        = Hits(pending, Whole(Of(id, 0)))
  <2>1. ASSUME NEW i \in DOMAIN pending
        PROVE  pending[i].next_line = 0 /\ IsRequest(pending[i].flit, id)
                 <=> pending[i] \in Whole(Of(id, 0))
    <3>1. pending[i] \in [flit : ColumnPackets, next_line : Nat]
      <4>1. pending \in Seq(Entries)
        BY DEF Typed, ColumnTyped, Entries
      <4>2. pending[i] \in Entries
        BY <4>1
      <4>3. QED BY <4>2 DEF Entries
    <3>2. pending[i].flit \in Packets /\ pending[i].flit.chunk \in Nat
      BY <3>1 DEF ColumnPackets, Packets
    <3>3. IsRequest(pending[i].flit, id) <=> pending[i].flit \in Of(id, 0)
      BY <3>2, OfPacket DEF IsRequest, to_bank
    <3>4. QED BY <3>1, <3>3 DEF Whole
  <2>2. {i \in DOMAIN pending : pending[i].next_line = 0 /\ IsRequest(pending[i].flit, id)}
          = {i \in DOMAIN pending : pending[i] \in Whole(Of(id, 0))}
    BY <2>1
  <2>3. QED BY <2>2 DEF Hits
<1>7. {x \in device : IsRequest(x.flit, id)} = InDevice(Of(id, 0))
  <2>1. ASSUME NEW x \in device
        PROVE  IsRequest(x.flit, id) <=> x.flit \in Of(id, 0)
    <3>1. x.flit \in Packets /\ x.flit.chunk \in Nat
      BY DEF Typed, ColumnTyped, ColumnPackets, Packets
    <3>2. QED BY <3>1, OfPacket DEF IsRequest, to_bank
  <2>2. QED BY <2>1 DEF InDevice
<1>8. Holders(id) =
        UpN(id) + DownN(id) + GotN(id) + Hits(nmcQ, {id}) + Hits(pfQ, {id})
          + Running(nmc, id) + Running(pf, id)
          + Hits(toDram, Of(id, 0)) + Hits(fromDram, Of(id, 0)) + Hits(out, Of(id, 0))
          + Hits(pending, Whole(Of(id, 0))) + Cardinality(InDevice(Of(id, 0)))
  BY <1>4, <1>5, <1>6, <1>7 DEF Holders, GotN
<1>9. Running(nmc, id) \in Nat /\ Running(pf, id) \in Nat
  BY DEF Running
<1>10. QED BY <1>8, <1>9, StageTypes DEF Total, CmdN, Flight

\* The requests of a queue of packets without a chunk, and of one of entries.
LEMMA EntryIn ==
  ASSUME NEW f, NEW n \in Nat, NEW A
  PROVE  In([flit |-> f, next_line |-> n], Whole(A)) = IF n = 0 THEN In(f, A) ELSE 0
<1>1. [flit |-> f, next_line |-> n] \in Whole(A) <=> f \in A /\ n = 0
  BY DEF Whole
<1>2. QED BY <1>1 DEF In

\* An answer on the down-link counts for its request.
LEMMA SendDownCounts ==
  ASSUME Typed, NEW f \in Packets, IsReq(f.id), f.chunk = 0, SendDown(f), NEW id \in Ids
  PROVE  DownN(id)' = DownN(id) + ItIs(f.id, id)
<1>1. id[1] \in Requesters /\ Link[id[1]] \in Links /\ Link[f.id[1]] \in Links
  BY ColumnAssumption, ReqFacts DEF Ids, Typed
<1>2. down \in [Links -> Seq(Packets)] /\ down' = [down EXCEPT ![Link[f.id[1]]] = Append(@, f)]
  BY DEF SendDown, Typed, LinksTyped
<1>3. DownN(id) \in Nat
  BY StageTypes
<1>4. CASE Link[f.id[1]] = Link[id[1]]
  <2>1. down'[Link[id[1]]] = Append(down[Link[id[1]]], f) /\ down[Link[id[1]]] \in Seq(Packets)
    BY <1>1, <1>2, <1>4
  <2>2. Hits(down'[Link[id[1]]], Of(id, 0)) = Hits(down[Link[id[1]]], Of(id, 0)) + In(f, Of(id, 0))
    BY <2>1, HitsAppend
  <2>3. In(f, Of(id, 0)) = ItIs(f.id, id)
    BY OfPacket
  <2>4. QED BY <2>2, <2>3 DEF DownN
<1>5. CASE Link[f.id[1]] # Link[id[1]]
  <2>1. down'[Link[id[1]]] = down[Link[id[1]]] /\ f.id # id
    BY <1>1, <1>2, <1>5
  <2>2. QED BY <1>3, <2>1 DEF DownN, ItIs
<1>6. QED BY <1>4, <1>5

\* What stays uncounted for.
LEMMA SameCounts ==
  ASSUME NEW id, NEW A
  PROVE  /\ up' = up => UpN(id)' = UpN(id)
         /\ down' = down => DownN(id)' = DownN(id)
         /\ got' = got => GotN(id)' = GotN(id)
         /\ UNCHANGED <<nmcQ, nmc, pfQ>> /\ pf'.id = pf.id => CmdN(id)' = CmdN(id)
         /\ UNCHANGED <<toDram, fromDram, out, pending, device>> => Flight(A)' = Flight(A)
BY DEF UpN, DownN, GotN, CmdN, Running, Flight, Hits, InDevice

-----------------------------------------------------------------------------
(* On the way between the bank and the DRAM a packet is kept.              *)

\* The bank sends a packet up the column.
LEMMA FlightUp ==
  ASSUME Typed, NEW f \in Packets, f \in ColumnPackets, toDram' = Append(toDram, f),
         UNCHANGED <<fromDram, out, pending, device>>, NEW A
  PROVE  Flight(A)' = Flight(A) + In(f, A)
<1>1. Hits(toDram, A)' = Hits(toDram, A) + In(f, A)
  <2>1. Hits(Append(toDram, f), A) = Hits(toDram, A) + In(f, A)
    BY HitsAppend DEF Typed, ColumnTyped
  <2>2. QED BY <2>1 DEF Hits
<1>2. /\ Hits(fromDram, A)' = Hits(fromDram, A) /\ Hits(out, A)' = Hits(out, A)
      /\ Hits(pending, Whole(A))' = Hits(pending, Whole(A)) /\ InDevice(A)' = InDevice(A)
  BY DEF Hits, InDevice
<1>3. In(f, A) \in Nat
  BY DEF In
<1>4. /\ Hits(toDram, A) \in Nat /\ Hits(fromDram, A) \in Nat /\ Hits(out, A) \in Nat
      /\ Hits(pending, Whole(A)) \in Nat /\ Cardinality(InDevice(A)) \in Nat
  <2>1. \A B : IsFiniteSet(InDevice(B)) /\ Cardinality(InDevice(B)) \in Nat
    <3>1. TAKE B
    <3>2. IsFiniteSet(device) /\ InDevice(B) \subseteq device
      BY DEF Typed, ColumnTyped, InDevice
    <3>3. QED BY <3>2, FS_Subset, FS_CardinalityType
  <2>2. QED BY <2>1, HitsFinite DEF Typed, ColumnTyped
<1>5. QED BY <1>1, <1>2, <1>3, <1>4 DEF Flight

\* The bank takes one from the column.
LEMMA FlightDown ==
  ASSUME Typed, fromDram # <<>>, fromDram' = Tail(fromDram),
         UNCHANGED <<toDram, out, pending, device>>, NEW id \in Ids, NEW k \in Nat
  PROVE  /\ Flight(Of(id, k)) = Flight(Of(id, k))' + In(Head(fromDram), Of(id, k))
         /\ Flight(Of(id, k))' \in Nat
<1> DEFINE A == Of(id, k)
<1>1. Hits(fromDram, A) = Hits(fromDram, A)' + In(Head(fromDram), A)
  <2>1. Hits(fromDram, A) = Hits(Tail(fromDram), A) + In(Head(fromDram), A)
    BY HitsTail DEF Typed, ColumnTyped
  <2>2. QED BY <2>1 DEF Hits
<1>2. /\ Hits(toDram, A)' = Hits(toDram, A) /\ Hits(out, A)' = Hits(out, A)
      /\ Hits(pending, Whole(A))' = Hits(pending, Whole(A)) /\ InDevice(A)' = InDevice(A)
  BY DEF Hits, InDevice
<1>3. Hits(fromDram, A)' \in Nat
  <2>1. Tail(fromDram) \in Seq(ColumnPackets)
    BY TailFacts DEF Typed, ColumnTyped
  <2>2. Hits(Tail(fromDram), A) \in Nat
    BY <2>1, HitsFinite
  <2>3. QED BY <2>2 DEF Hits
<1>4. In(Head(fromDram), A) \in Nat
  BY DEF In
<1>5. QED
  <2> HIDE DEF A
  <2>1. /\ Hits(toDram, A) \in Nat /\ Hits(fromDram, A) \in Nat /\ Hits(out, A) \in Nat
        /\ Hits(pending, Whole(A)) \in Nat /\ Cardinality(InDevice(A)) \in Nat
    BY StageTypes
  <2>2. /\ Flight(A)' = Hits(toDram, A) + Hits(fromDram, A)' + Hits(out, A)
                         + Hits(pending, Whole(A)) + Cardinality(InDevice(A))
        /\ Flight(A) = Hits(toDram, A) + (Hits(fromDram, A)' + In(Head(fromDram), A))
                        + Hits(out, A) + Hits(pending, Whole(A)) + Cardinality(InDevice(A))
    BY <1>1, <1>2 DEF Flight
  <2>3. Flight(A) = Flight(A)' + In(Head(fromDram), A) /\ Flight(A)' \in Nat
    BY <1>3, <1>4, <2>1, <2>2
  <2>4. QED BY <2>3 DEF A

\* The controller accepts a packet: it is in its queue instead.
LEMMA FlightIngest ==
  ASSUME Typed, Ingest, NEW id \in Ids, NEW k \in Nat
  PROVE  Flight(Of(id, k))' = Flight(Of(id, k))
<1>0. PICK A : A = Of(id, k)
  OBVIOUS
<1>1. PICK f : f = Head(toDram)
  OBVIOUS
<1>2. /\ UNCHANGED <<fromDram, device, out>>
      /\ toDram # <<>> /\ toDram' = Tail(toDram)
      /\ pending' = Append(pending, [flit |-> f, next_line |-> 0])
  BY <1>1 DEF Ingest
<1>3. /\ f \in ColumnPackets /\ toDram \in Seq(ColumnPackets) /\ pending \in Seq(Entries)
      /\ Tail(toDram) \in Seq(ColumnPackets)
  BY <1>1, <1>2, TailFacts DEF Typed, ColumnTyped, Entries
<1>4. Hits(toDram, A) = Hits(Tail(toDram), A) + In(f, A) /\ Hits(Tail(toDram), A) \in Nat
  BY <1>1, <1>2, <1>3, HitsTail, HitsFinite
<1>5. Hits(Append(pending, [flit |-> f, next_line |-> 0]), Whole(A))
        = Hits(pending, Whole(A)) + In(f, A)
  <2>1. [flit |-> f, next_line |-> 0] \in Entries
    BY <1>3 DEF Entries
  <2>2. In([flit |-> f, next_line |-> 0], Whole(A)) = In(f, A)
    BY EntryIn
  <2>3. QED BY <1>3, <2>1, <2>2, HitsAppend
<1>6. /\ Hits(toDram', A) = Hits(Tail(toDram), A)
      /\ Hits(pending', Whole(A)) = Hits(pending, Whole(A)) + In(f, A)
      /\ Hits(fromDram', A) = Hits(fromDram, A) /\ Hits(out', A) = Hits(out, A)
  BY <1>2, <1>5
<1>7. InDevice(A)' = InDevice(A)
  BY <1>2 DEF InDevice
<1>8. In(f, A) \in Nat
  BY DEF In
<1>9. /\ Hits(toDram, A) \in Nat /\ Hits(fromDram, A) \in Nat /\ Hits(out, A) \in Nat
      /\ Hits(pending, Whole(A)) \in Nat /\ Cardinality(InDevice(A)) \in Nat
  BY StageTypes
<1>10. Flight(A)' = Hits(toDram', A) + Hits(fromDram', A) + Hits(out', A)
                      + Hits(pending', Whole(A)) + Cardinality(InDevice(A)')
  BY <1>0 DEF Flight, Hits
<1>11. QED BY <1>0, <1>4, <1>6, <1>7, <1>8, <1>9, <1>10 DEF Flight

\* The controller answers.
LEMMA FlightDrain ==
  ASSUME Typed, Drain, NEW id \in Ids, NEW k \in Nat
  PROVE  Flight(Of(id, k))' = Flight(Of(id, k))
<1>0. PICK A : A = Of(id, k)
  OBVIOUS
<1>1. PICK f : f = Head(out)
  OBVIOUS
<1>2. /\ UNCHANGED <<toDram, pending, device>>
      /\ out # <<>> /\ out' = Tail(out) /\ fromDram' = Append(fromDram, f)
  BY <1>1 DEF Drain
<1>3. /\ f \in ColumnPackets /\ out \in Seq(ColumnPackets) /\ fromDram \in Seq(ColumnPackets)
      /\ Tail(out) \in Seq(ColumnPackets)
  BY <1>1, <1>2, TailFacts DEF Typed, ColumnTyped
<1>4. Hits(out, A) = Hits(Tail(out), A) + In(f, A) /\ Hits(Tail(out), A) \in Nat
  BY <1>1, <1>2, <1>3, HitsTail, HitsFinite
<1>5. Hits(Append(fromDram, f), A) = Hits(fromDram, A) + In(f, A)
  BY <1>3, HitsAppend
<1>6. /\ Hits(out', A) = Hits(Tail(out), A)
      /\ Hits(fromDram', A) = Hits(fromDram, A) + In(f, A)
      /\ Hits(toDram', A) = Hits(toDram, A)
      /\ Hits(pending', Whole(A)) = Hits(pending, Whole(A))
  BY <1>2, <1>5
<1>7. InDevice(A)' = InDevice(A)
  BY <1>2 DEF InDevice
<1>8. In(f, A) \in Nat
  BY DEF In
<1>9. /\ Hits(toDram, A) \in Nat /\ Hits(fromDram, A) \in Nat /\ Hits(out, A) \in Nat
      /\ Hits(pending, Whole(A)) \in Nat /\ Cardinality(InDevice(A)) \in Nat
  BY StageTypes
<1>10. Flight(A)' = Hits(toDram', A) + Hits(fromDram', A) + Hits(out', A)
                      + Hits(pending', Whole(A)) + Cardinality(InDevice(A)')
  BY <1>0 DEF Flight, Hits
<1>11. QED BY <1>0, <1>4, <1>6, <1>7, <1>8, <1>9, <1>10 DEF Flight

\* A packet whose first line is issued goes from the queue to the device.
LEMMA FlightIssue ==
  ASSUME Typed, Issue, NEW id \in Ids, NEW k \in Nat, Flight(Of(id, k)) <= 1
  PROVE  Flight(Of(id, k))' = Flight(Of(id, k))
<1>0. PICK A : A = Of(id, k)
  OBVIOUS
<1>1. PICK p : p = Head(pending)
  OBVIOUS
<1>2. /\ pending # <<>> /\ pending \in Seq(Entries) /\ p \in Entries
      /\ UNCHANGED <<toDram, fromDram, out>>
      /\ \/ /\ p.next_line = 0
            /\ device' = device \cup {[flit |-> p.flit, lines |-> 1, remaining |-> Lines]}
         \/ p.next_line # 0 /\ device' = MoreLines(p.flit)
      /\ \/ pending' = Tail(pending)
         \/ pending' = [pending EXCEPT ![1] =
                          [flit |-> p.flit, next_line |-> p.next_line + 1]]
  BY <1>1, IssueFacts
<1>3. /\ Hits(toDram, A) \in Nat /\ Hits(fromDram, A) \in Nat /\ Hits(out, A) \in Nat
      /\ Hits(pending, Whole(A)) \in Nat /\ Cardinality(InDevice(A)) \in Nat
      /\ IsFiniteSet(InDevice(A))
  BY StageTypes
<1>4. PICK n : n = IF p.next_line = 0 THEN In(p.flit, A) ELSE 0
  OBVIOUS
<1>5. n \in {0, 1} /\ p.next_line \in Nat /\ p = [flit |-> p.flit, next_line |-> p.next_line]
  BY <1>2, <1>4 DEF In, Entries
<1>6. In(p, Whole(A)) = n
  BY <1>4, <1>5, EntryIn
<1>7. Hits(pending, Whole(A)) = Hits(Tail(pending), Whole(A)) + n
  BY <1>1, <1>2, <1>6, HitsTail
<1>8. Tail(pending) \in Seq(Entries) /\ Hits(Tail(pending), Whole(A)) \in Nat
  BY <1>2, TailFacts, HitsFinite
<1>9. Hits(pending', Whole(A)) = Hits(Tail(pending), Whole(A))
  <2>1. CASE pending' = Tail(pending)
    BY <2>1
  <2>2. CASE pending' = [pending EXCEPT ![1] =
                          [flit |-> p.flit, next_line |-> p.next_line + 1]]
    <3>1. PICK e : e = [flit |-> p.flit, next_line |-> p.next_line + 1]
      OBVIOUS
    <3>2. e \in Entries
      BY <1>2, <1>5, <3>1 DEF Entries
    <3>3. pending' = [pending EXCEPT ![1] = e]
      BY <2>2, <3>1
    <3>4. pending' \in Seq(Entries) /\ pending' # <<>> /\ Head(pending') = e
          /\ Tail(pending') = Tail(pending)
      BY <1>2, <3>2, <3>3
    <3>5. Hits(pending', Whole(A)) = Hits(Tail(pending'), Whole(A)) + In(e, Whole(A))
      BY <3>4, HitsTail
    <3>6. p.next_line + 1 \in Nat /\ p.next_line + 1 # 0
      BY <1>5
    <3>7. In(e, Whole(A)) = 0
      BY <3>1, <3>6, EntryIn
    <3>8. Hits(Tail(pending'), Whole(A)) = Hits(Tail(pending), Whole(A))
      BY <3>4
    <3>9. Hits(pending', Whole(A)) = Hits(Tail(pending), Whole(A)) + 0
      BY <3>5, <3>7, <3>8
    <3>10. QED BY <1>8, <3>9
  <2>3. QED BY <1>2, <2>1, <2>2
<1>10. Cardinality(InDevice(A)') = Cardinality(InDevice(A)) + n
  <2>1. CASE n = 1
    <3>1. p.next_line = 0 /\ p.flit \in A
      BY <1>4, <2>1 DEF In
    <3>2. Cardinality(InDevice(A)) = 0
      BY <1>0, <1>3, <1>7, <1>8, <2>1 DEF Flight
    <3>3. InDevice(A) = {}
      BY <1>3, <3>2, FS_EmptySet
    <3>4. PICK y : y = [flit |-> p.flit, lines |-> 1, remaining |-> Lines]
      OBVIOUS
    <3>5. InDevice(A)' = {y}
      BY <1>0, <1>2, <3>1, <3>3, <3>4 DEF InDevice
    <3>6. Cardinality(InDevice(A)') = 1
      BY <3>5, FS_Singleton
    <3>7. QED BY <2>1, <3>2, <3>6
  <2>2. CASE n = 0 /\ p.next_line = 0
    <3>1. p.flit \notin A
      BY <1>4, <2>2 DEF In
    <3>2. InDevice(A)' = InDevice(A)
      BY <1>0, <1>2, <2>2, <3>1 DEF InDevice
    <3>3. QED BY <1>3, <2>2, <3>2
  <2>3. CASE p.next_line # 0
    <3>1. device' = MoreLines(p.flit) /\ n = 0
      BY <1>2, <1>4, <2>3
    <3>2. PICK m : m = [x \in InDevice(A) |->
                          IF x.flit = p.flit THEN [x EXCEPT !.lines = @ + 1] ELSE x]
      OBVIOUS
    <3>3. \A x \in device : x \in Works
      BY DEF Typed, ColumnTyped, Works
    <3>4. \A x \in InDevice(A) : x \in device /\ x \in Works /\ x.flit \in A
      BY <3>3 DEF InDevice
    <3>5. InDevice(A)' = {m[x] : x \in InDevice(A)}
      <4>1. \A x \in device : (IF x.flit = p.flit THEN [x EXCEPT !.lines = @ + 1] ELSE x).flit
                                = x.flit
        BY <3>3 DEF Works
      <4>2. InDevice(A)' = {y \in MoreLines(p.flit) : y.flit \in A}
        BY <1>0, <3>1 DEF InDevice
      <4>3. QED BY <3>2, <4>1, <4>2 DEF InDevice, MoreLines
    <3>6. m \in Surjection(InDevice(A), InDevice(A)')
      BY <3>2, <3>5 DEF Surjection
    <3>7. m \in Injection(InDevice(A), InDevice(A)')
      <4>1. ASSUME NEW x \in Works, NEW y \in Works,
                   (IF x.flit = p.flit THEN [x EXCEPT !.lines = @ + 1] ELSE x)
                     = (IF y.flit = p.flit THEN [y EXCEPT !.lines = @ + 1] ELSE y)
            PROVE  x = y
        <5>1. /\ x.lines \in Nat /\ y.lines \in Nat
              /\ x = [flit |-> x.flit, lines |-> x.lines, remaining |-> x.remaining]
              /\ y = [flit |-> y.flit, lines |-> y.lines, remaining |-> y.remaining]
          BY DEF Works
        <5>2. /\ [x EXCEPT !.lines = @ + 1]
                   = [flit |-> x.flit, lines |-> x.lines + 1, remaining |-> x.remaining]
              /\ [y EXCEPT !.lines = @ + 1]
                   = [flit |-> y.flit, lines |-> y.lines + 1, remaining |-> y.remaining]
          BY DEF Works
        <5>3. x.flit = y.flit
          BY <4>1, <5>1, <5>2
        <5>4. x.lines = y.lines /\ x.remaining = y.remaining
          BY <4>1, <5>1, <5>2, <5>3
        <5>5. QED BY <5>1, <5>3, <5>4
      <4>2. \A x, y \in InDevice(A) : m[x] = m[y] => x = y
        BY <3>2, <3>4, <4>1
      <4>3. m \in [InDevice(A) -> InDevice(A)']
        BY <3>2, <3>5
      <4>4. QED BY <4>2, <4>3 DEF Injection, IsInjective
    <3>8. Cardinality(InDevice(A)') = Cardinality(InDevice(A))
      <4>1. m \in Bijection(InDevice(A), InDevice(A)')
        BY <3>6, <3>7 DEF Bijection
      <4>2. ExistsBijection(InDevice(A), InDevice(A)')
        BY <4>1 DEF ExistsBijection
      <4>3. QED BY <1>3, <4>2, FS_Bijection
    <3>9. QED BY <1>3, <3>1, <3>8
  <2>4. QED BY <1>5, <2>1, <2>2, <2>3
<1>11. /\ Hits(toDram', A) = Hits(toDram, A)
       /\ Hits(fromDram', A) = Hits(fromDram, A) /\ Hits(out', A) = Hits(out, A)
  BY <1>2
<1>12. Flight(A)' = Hits(toDram', A) + Hits(fromDram', A) + Hits(out', A)
                      + Hits(pending', Whole(A)) + Cardinality(InDevice(A)')
  BY <1>0 DEF Flight, Hits
<1>13. Flight(A)' = Flight(A)
  BY <1>3, <1>5, <1>7, <1>8, <1>9, <1>10, <1>11, <1>12 DEF Flight
<1>14. QED BY <1>0, <1>13

\* What the device has completed waits for the response.
LEMMA FlightCallback ==
  ASSUME Typed, NEW x \in device, Callback(x), NEW id \in Ids, NEW k \in Nat,
         Flight(Of(id, k)) <= 1
  PROVE  Flight(Of(id, k))' = Flight(Of(id, k))
<1>0. PICK A : A = Of(id, k)
  OBVIOUS
<1>1. /\ UNCHANGED <<toDram, fromDram, pending>>
      /\ x \in Works /\ x.flit \in ColumnPackets /\ x.flit \in Packets
      /\ \/ \E f \in ColumnPackets :
              /\ device' = device \ {x} /\ out' = Append(out, f)
              /\ f.id = x.flit.id /\ f.chunk = x.flit.chunk
         \/ \E y \in Works : /\ device' = (device \ {x}) \cup {y} /\ out' = out
                             /\ y.flit = x.flit
  BY CallbackFacts
<1>2. /\ Hits(toDram, A) \in Nat /\ Hits(fromDram, A) \in Nat /\ Hits(out, A) \in Nat
      /\ Hits(pending, Whole(A)) \in Nat /\ Cardinality(InDevice(A)) \in Nat
      /\ IsFiniteSet(InDevice(A))
  BY StageTypes
<1>3. x.flit \in A => InDevice(A) = {x}
  <2>1. SUFFICES ASSUME x.flit \in A PROVE InDevice(A) = {x}
    OBVIOUS
  <2>2. x \in InDevice(A)
    BY <2>1 DEF InDevice
  <2>3. Cardinality(InDevice(A)) <= 1
    BY <1>0, <1>2 DEF Flight
  <2>4. Cardinality(InDevice(A) \ {x}) = Cardinality(InDevice(A)) - 1
        /\ IsFiniteSet(InDevice(A) \ {x})
    BY <1>2, <2>2, FS_RemoveElement
  <2>5. Cardinality(InDevice(A) \ {x}) \in Nat
    BY <2>4, FS_CardinalityType
  <2>6. Cardinality(InDevice(A) \ {x}) = 0
    BY <1>2, <2>3, <2>4, <2>5
  <2>7. InDevice(A) \ {x} = {}
    BY <2>4, <2>6, FS_EmptySet
  <2>8. QED BY <2>2, <2>7
<1>4. Hits(out', A) + Cardinality(InDevice(A)') = Hits(out, A) + Cardinality(InDevice(A))
  <2>1. ASSUME NEW f \in ColumnPackets, device' = device \ {x}, out' = Append(out, f),
               f.id = x.flit.id, f.chunk = x.flit.chunk
        PROVE  Hits(out', A) + Cardinality(InDevice(A)')
                 = Hits(out, A) + Cardinality(InDevice(A))
    <3>1. Hits(out', A) = Hits(out, A) + In(f, A)
      BY <2>1, HitsAppend DEF Typed, ColumnTyped
    <3>2. f \in A <=> x.flit \in A
      <4>1. f \in Packets
        BY DEF ColumnPackets
      <4>2. QED BY <1>0, <1>1, <2>1, <4>1, OfPacket
    <3>3. InDevice(A)' = InDevice(A) \ {x}
      BY <1>0, <2>1 DEF InDevice
    <3>4. CASE x.flit \in A
      <4>1. InDevice(A) = {x} /\ InDevice(A)' = {}
        BY <1>3, <3>3, <3>4
      <4>2. Cardinality(InDevice(A)) = 1 /\ Cardinality(InDevice(A)') = 0
        BY <4>1, FS_Singleton, FS_EmptySet
      <4>3. In(f, A) = 1
        BY <3>2, <3>4 DEF In
      <4>4. QED BY <1>2, <3>1, <4>2, <4>3
    <3>5. CASE x.flit \notin A
      <4>1. InDevice(A)' = InDevice(A)
        BY <3>3, <3>5 DEF InDevice
      <4>2. In(f, A) = 0
        BY <3>2, <3>5 DEF In
      <4>3. QED BY <1>2, <3>1, <4>1, <4>2
    <3>6. QED BY <3>4, <3>5
  <2>2. ASSUME NEW y \in Works, device' = (device \ {x}) \cup {y}, out' = out,
               y.flit = x.flit
        PROVE  Hits(out', A) + Cardinality(InDevice(A)')
                 = Hits(out, A) + Cardinality(InDevice(A))
    <3>1. CASE x.flit \in A
      <4>1. InDevice(A) = {x}
        BY <1>3, <3>1
      <4>2. InDevice(A)' = {y}
        BY <1>0, <2>2, <3>1, <4>1 DEF InDevice
      <4>3. Cardinality(InDevice(A)) = 1 /\ Cardinality(InDevice(A)') = 1
        BY <4>1, <4>2, FS_Singleton
      <4>4. QED BY <2>2, <4>3
    <3>2. CASE x.flit \notin A
      <4>1. InDevice(A)' = InDevice(A)
        BY <1>0, <2>2, <3>2 DEF InDevice
      <4>2. QED BY <2>2, <4>1
    <3>3. QED BY <3>1, <3>2
  <2>3. QED BY <1>1, <2>1, <2>2
<1>5. /\ Hits(toDram', A) = Hits(toDram, A) /\ Hits(fromDram', A) = Hits(fromDram, A)
      /\ Hits(pending', Whole(A)) = Hits(pending, Whole(A))
  BY <1>1
<1>6. Flight(A)' = Hits(toDram', A) + Hits(fromDram', A) + Hits(out', A)
                      + Hits(pending', Whole(A)) + Cardinality(InDevice(A)')
  BY <1>0 DEF Flight, Hits
<1>7. Flight(A)' \in Nat /\ Flight(A)' = Flight(A)
  <2>1. Typed'
    BY CallbackTyped
  <2>2. Hits(out', A) \in Nat
    BY <2>1, HitsFinite DEF Typed, ColumnTyped
  <2>3. Cardinality(InDevice(A)') \in Nat
    <3>1. IsFiniteSet(device') /\ InDevice(A)' \subseteq device'
      BY <1>0, <2>1 DEF Typed, ColumnTyped, InDevice
    <3>2. QED BY <3>1, FS_Subset, FS_CardinalityType
  <2>4. QED BY <1>2, <1>4, <1>5, <1>6, <2>2, <2>3 DEF Flight
<1>8. QED BY <1>0, <1>7

-----------------------------------------------------------------------------
(* Every request is held once.                                             *)

\* A request goes onto the up-link: one that nobody had.
LEMMA InjectHeld ==
  ASSUME Typed, Held, NEW t \in Requesters, Inject(t)
  PROVE  Held'
<1>1. PICK f : f = Flit(<<t, pc[t]>>, 0, {})
  OBVIOUS
<1>2. /\ up' = [up EXCEPT ![Link[t]] = Append(@, f)] /\ pc' = [pc EXCEPT ![t] = @ + 1]
      /\ UNCHANGED <<prog, got, down, toDram, fromDram, nmcQ, nmc, pfQ, pf, pending,
                     device, out>>
  BY <1>1 DEF Inject, bankVars, dramVars
<1>3. pc[t] \in Nat \ {0} /\ Link[t] \in Links /\ pc \in [Requesters -> Nat \ {0}]
  BY ProgramFacts DEF Typed, TilesTyped
<1>4. f \in Packets /\ f.id = <<t, pc[t]>> /\ f.chunk = 0
  BY <1>1, <1>3 DEF Flit, Packets, Ids
<1>5. ASSUME NEW id \in Ids, IsReq(id)
      PROVE  Total(id)' = IF id[2] < pc'[id[1]] THEN 1 ELSE 0
  <2>1. /\ UpN(id) \in Nat /\ DownN(id) \in Nat /\ GotN(id) \in Nat /\ CmdN(id) \in Nat
        /\ Flight(Of(id, 0)) \in Nat
    BY StageTypes
  <2>2. /\ DownN(id)' = DownN(id) /\ GotN(id)' = GotN(id) /\ CmdN(id)' = CmdN(id)
        /\ Flight(Of(id, 0))' = Flight(Of(id, 0))
    BY <1>2, SameCounts
  <2>3. UpN(id)' = UpN(id) + ItIs(f.id, id)
    <3>1. id[1] \in Requesters /\ Link[id[1]] \in Links
      BY ColumnAssumption DEF Ids
    <3>2. CASE Link[t] = Link[id[1]]
      <4>1. up'[Link[id[1]]] = Append(up[Link[id[1]]], f) /\ up[Link[id[1]]] \in Seq(Packets)
        BY <1>2, <3>1, <3>2 DEF Typed, LinksTyped
      <4>2. Hits(up'[Link[id[1]]], Of(id, 0)) = Hits(up[Link[id[1]]], Of(id, 0)) + In(f, Of(id, 0))
        BY <1>4, <4>1, HitsAppend
      <4>3. In(f, Of(id, 0)) = ItIs(f.id, id)
        BY <1>4, OfPacket
      <4>4. QED BY <4>2, <4>3 DEF UpN
    <3>3. CASE Link[t] # Link[id[1]]
      <4>1. up'[Link[id[1]]] = up[Link[id[1]]] /\ f.id # id
        BY <1>2, <1>4, <3>1, <3>3 DEF Typed, LinksTyped
      <4>2. QED BY <2>1, <4>1 DEF UpN, ItIs
    <3>4. QED BY <3>2, <3>3
  <2>4. Total(id) = IF id[2] < pc[id[1]] THEN 1 ELSE 0
    BY <1>5 DEF Held
  <2>5. Total(id)' = Total(id) + ItIs(f.id, id)
    <3>1. ItIs(f.id, id) \in Nat
      BY DEF ItIs
    <3>2. QED BY <2>1, <2>2, <2>3, <3>1 DEF Total
  <2>6. /\ id = <<id[1], id[2]>> /\ id[1] \in Requesters /\ id[2] \in Nat
        /\ pc[id[1]] \in Nat
    BY <1>3 DEF Ids
  <2>7. CASE id = f.id
    <3>1. id[1] = t /\ id[2] = pc[t] /\ pc'[t] = pc[t] + 1
      BY <1>2, <1>3, <1>4, <2>7
    <3>2. Total(id) = 0 /\ ItIs(f.id, id) = 1 /\ id[2] < pc'[id[1]]
      BY <1>3, <2>4, <2>7, <3>1 DEF ItIs
    <3>3. QED BY <2>5, <3>2
  <2>8. CASE id # f.id
    <3>1. id[2] < pc'[id[1]] <=> id[2] < pc[id[1]]
      <4>1. CASE id[1] = t
        <5>1. id[2] # pc[t] /\ pc'[t] = pc[t] + 1
          BY <1>2, <1>3, <1>4, <2>6, <2>8, <4>1
        <5>2. QED BY <1>3, <2>6, <4>1, <5>1
      <4>2. CASE id[1] # t
        BY <1>2, <1>3, <2>6, <4>2
      <4>3. QED BY <4>1, <4>2
    <3>2. ItIs(f.id, id) = 0
      BY <2>8 DEF ItIs
    <3>3. QED BY <2>4, <2>5, <3>1, <3>2
  <2>9. QED BY <2>7, <2>8
<1>6. QED BY <1>2, <1>5, PlacesStay DEF Held

\* A tile goes past its own wait.
LEMMA AwaitHeld ==
  ASSUME Typed, Held, NEW t \in Requesters, Await(t)
  PROVE  Held'
<1>1. /\ pc' = [pc EXCEPT ![t] = @ + 1] /\ prog[t][pc[t]].op = "AWAIT"
      /\ UNCHANGED <<prog, got, up, down, toDram, fromDram, nmcQ, nmc, pfQ, pf, pending,
                     device, out>>
  BY DEF Await, bankVars, dramVars
<1>2. pc \in [Requesters -> Nat \ {0}]
  BY DEF Typed, TilesTyped
<1>3. ASSUME NEW id \in Ids, IsReq(id)
      PROVE  Total(id)' = IF id[2] < pc'[id[1]] THEN 1 ELSE 0
  <2>1. Total(id)' = Total(id)
    BY <1>1, SameCounts DEF Total
  <2>2. Total(id) = IF id[2] < pc[id[1]] THEN 1 ELSE 0
    BY <1>3 DEF Held
  <2>3. id[1] \in Requesters /\ id[2] \in Nat /\ pc[id[1]] \in Nat
    BY <1>2 DEF Ids
  <2>4. prog[id[1]][id[2]].op # "AWAIT"
    BY <1>3 DEF IsReq, Req, Ops
  <2>5. id[2] < pc'[id[1]] <=> id[2] < pc[id[1]]
    <3>1. CASE id[1] = t
      <4>1. id[2] # pc[t] /\ pc'[t] = pc[t] + 1
        BY <1>1, <1>2, <2>4, <3>1
      <4>2. QED BY <2>3, <3>1, <4>1
    <3>2. CASE id[1] # t
      BY <1>1, <1>2, <2>3, <3>2
    <3>3. QED BY <3>1, <3>2
  <2>6. QED BY <2>1, <2>2, <2>5
<1>4. QED BY <1>1, <1>3, PlacesStay DEF Held

\* The other steps leave the tiles' places alone: it is enough to keep the sums.
LEMMA SumsHeld ==
  ASSUME Held, UNCHANGED <<prog, pc>>,
         \A id \in Ids : IsReq(id) /\ Total(id) <= 1 => Total(id)' = Total(id)
  PROVE  Held'
<1>1. ASSUME NEW id \in Ids, IsReq(id)
      PROVE  Total(id)' = IF id[2] < pc[id[1]] THEN 1 ELSE 0
  <2>1. Total(id) = IF id[2] < pc[id[1]] THEN 1 ELSE 0
    BY <1>1 DEF Held
  <2>2. Total(id) <= 1
    BY <2>1
  <2>3. QED BY <1>1, <2>1, <2>2
<1>2. QED BY <1>1, PlacesStay DEF Held

\* An answer comes to its tile, which did not have it.
LEMMA ReceiveHeld ==
  ASSUME Typed, Held, NEW l \in Links, Receive(l)
  PROVE  Held'
<1>1. PICK a : a = Head(down[l])
  OBVIOUS
<1>2. /\ down[l] # <<>> /\ down' = [down EXCEPT ![l] = Tail(@)]
      /\ got' = [got EXCEPT ![a.id[1]] = @ \cup {a}]
      /\ UNCHANGED <<prog, pc, up, toDram, fromDram, nmcQ, nmc, pfQ, pf, pending, device, out>>
  BY <1>1 DEF Receive, bankVars, dramVars
<1>3. a \in LinkPackets(l) /\ down[l] \in Seq(Packets)
  <2>1. down[l] \in Seq(LinkPackets(l)) /\ down[l] \in Seq(Packets)
    BY DEF Typed, LinksTyped
  <2>2. QED BY <1>1, <1>2, <2>1, TailFacts
<1>4. a \in Packets /\ IsReq(a.id) /\ a.id[1] \in Requesters /\ a.chunk = 0
      /\ Link[a.id[1]] = l
  BY <1>3, ReqFacts DEF LinkPackets, Typed
<1>5. ASSUME NEW id \in Ids, IsReq(id), Total(id) <= 1
      PROVE  Total(id)' = Total(id)
  <2>1. /\ UpN(id) \in Nat /\ DownN(id) \in Nat /\ GotN(id) \in Nat /\ CmdN(id) \in Nat
        /\ Flight(Of(id, 0)) \in Nat
    BY StageTypes
  <2>2. /\ UpN(id)' = UpN(id) /\ CmdN(id)' = CmdN(id)
        /\ Flight(Of(id, 0))' = Flight(Of(id, 0))
    BY <1>2, SameCounts
  <2>3. id[1] \in Requesters /\ Link[id[1]] \in Links
    BY ColumnAssumption DEF Ids
  <2>4. CASE a.id = id
    <3>1. down'[Link[id[1]]] = Tail(down[l])
      BY <1>2, <1>4, <2>3, <2>4 DEF Typed, LinksTyped
    <3>2. In(a, Of(id, 0)) = 1
      <4>1. In(a, Of(id, 0)) = ItIs(a.id, id)
        BY <1>4, OfPacket
      <4>2. QED BY <2>4, <4>1 DEF ItIs
    <3>3. Hits(down[l], Of(id, 0)) = Hits(Tail(down[l]), Of(id, 0)) + 1
          /\ Hits(Tail(down[l]), Of(id, 0)) \in Nat
      <4>1. Tail(down[l]) \in Seq(Packets)
        BY <1>2, <1>3, TailFacts
      <4>2. QED BY <1>1, <1>2, <1>3, <3>2, <4>1, HitsTail, HitsFinite
    <3>4. DownN(id) = DownN(id)' + 1 /\ DownN(id)' \in Nat
      BY <1>4, <2>4, <3>1, <3>3 DEF DownN
    <3>5. GotN(id) = 0
      BY <1>5, <2>1, <3>4 DEF Total
    <3>6. {b \in got[id[1]] : b.id = id} = {}
      <4>1. IsFiniteSet(got[id[1]])
        BY <2>3 DEF Typed, TilesTyped
      <4>2. IsFiniteSet({b \in got[id[1]] : b.id = id})
        BY <4>1, FS_Subset
      <4>3. QED BY <3>5, <4>2, FS_EmptySet DEF GotN
    <3>7. {b \in got'[id[1]] : b.id = id} = {a}
      BY <1>2, <2>3, <2>4, <3>6 DEF Typed, TilesTyped
    <3>8. GotN(id)' = 1
      BY <3>7, FS_Singleton DEF GotN
    <3>9. QED BY <2>1, <2>2, <3>4, <3>5, <3>8 DEF Total
  <2>5. CASE a.id # id
    <3>1. GotN(id)' = GotN(id)
      <4>1. {b \in got'[id[1]] : b.id = id} = {b \in got[id[1]] : b.id = id}
        <5>1. CASE a.id[1] = id[1]
          BY <1>2, <2>3, <2>5, <5>1 DEF Typed, TilesTyped
        <5>2. CASE a.id[1] # id[1]
          BY <1>2, <2>3, <5>2 DEF Typed, TilesTyped
        <5>3. QED BY <5>1, <5>2
      <4>2. QED BY <4>1 DEF GotN
    <3>2. DownN(id)' = DownN(id)
      <4>1. CASE Link[id[1]] = l
        <5>1. down'[Link[id[1]]] = Tail(down[l])
          BY <1>2, <2>3, <4>1 DEF Typed, LinksTyped
        <5>2. In(a, Of(id, 0)) = 0
          <6>1. In(a, Of(id, 0)) = ItIs(a.id, id)
            BY <1>4, OfPacket
          <6>2. QED BY <2>5, <6>1 DEF ItIs
        <5>3. Hits(down[l], Of(id, 0)) = Hits(Tail(down[l]), Of(id, 0)) + 0
              /\ Hits(Tail(down[l]), Of(id, 0)) \in Nat
          <6>1. Tail(down[l]) \in Seq(Packets)
            BY <1>2, <1>3, TailFacts
          <6>2. QED BY <1>1, <1>2, <1>3, <5>2, <6>1, HitsTail, HitsFinite
        <5>4. QED BY <4>1, <5>1, <5>3 DEF DownN
      <4>2. CASE Link[id[1]] # l
        BY <1>2, <2>3, <4>2 DEF DownN, Typed, LinksTyped
      <4>3. QED BY <4>1, <4>2
    <3>3. QED BY <2>2, <3>1, <3>2 DEF Total
  <2>6. QED BY <2>4, <2>5
<1>6. QED BY <1>2, <1>5, SumsHeld

\* A chunk ends in the bank, an answer goes on.
LEMMA AbsorbHeld ==
  ASSUME Typed, Held, Absorb
  PROVE  Held'
<1>1. PICK f : f = Head(fromDram)
  OBVIOUS
<1>2. /\ fromDram # <<>> /\ fromDram' = Tail(fromDram)
      /\ UNCHANGED <<prog, pc, got, up, toDram, nmcQ, nmc, pfQ, pending, device, out>>
  BY DEF Absorb, tileVars, dramVars
<1>3. f \in ColumnPackets
  BY <1>1, <1>2, TailFacts DEF Typed, ColumnTyped
<1>4. f \in Packets /\ IsReq(f.id) /\ f.chunk \in Nat
  BY <1>3 DEF ColumnPackets, Packets
<1>5. ASSUME NEW id \in Ids, IsReq(id), Total(id) <= 1
      PROVE  Total(id)' = Total(id)
  <2>1. /\ UpN(id) \in Nat /\ DownN(id) \in Nat /\ GotN(id) \in Nat /\ CmdN(id) \in Nat
        /\ Flight(Of(id, 0)) \in Nat
    BY StageTypes
  <2>2. UpN(id)' = UpN(id) /\ GotN(id)' = GotN(id)
    BY <1>2, SameCounts
  <2>3. Flight(Of(id, 0)) = Flight(Of(id, 0))' + In(f, Of(id, 0))
    BY <1>1, <1>2, FlightDown
  <2>4. Flight(Of(id, 0))' \in Nat
    BY <1>2, FlightDown
  <2>5. CASE to_bank(f)
    <3>1. f.chunk # 0 /\ down' = down
      BY <1>4, <2>5, <1>1 DEF to_bank, Absorb
    <3>2. pf'.id = pf.id
      BY <1>1, <2>5 DEF Absorb, PrefetchData, Typed, EnginesTyped
    <3>3. DownN(id)' = DownN(id) /\ CmdN(id)' = CmdN(id)
      BY <1>2, <3>1, <3>2, SameCounts
    <3>4. In(f, Of(id, 0)) = 0
      BY <1>4, <3>1, OfPacket DEF In
    <3>5. QED BY <2>1, <2>2, <2>3, <2>4, <3>3, <3>4 DEF Total
  <2>6. CASE ~to_bank(f)
    <3>1. f.chunk = 0 /\ SendDown(f) /\ pf' = pf
      BY <1>4, <2>6, <1>1 DEF to_bank, Absorb
    <3>2. DownN(id)' = DownN(id) + ItIs(f.id, id)
      BY <1>4, <3>1, SendDownCounts
    <3>3. CmdN(id)' = CmdN(id)
      BY <1>2, <3>1, SameCounts
    <3>4. In(f, Of(id, 0)) = ItIs(f.id, id) /\ ItIs(f.id, id) \in Nat
      BY <1>4, <3>1, OfPacket DEF ItIs
    <3>5. QED BY <2>1, <2>2, <2>3, <2>4, <3>2, <3>3, <3>4 DEF Total
  <2>7. QED BY <2>5, <2>6
<1>6. QED BY <1>2, <1>5, SumsHeld

\* What is taken off a command queue, or put there.
LEMMA CommandIn ==
  ASSUME NEW x, NEW id
  PROVE  In(x, {id}) = ItIs(x, id) /\ ItIs(x, id) \in Nat
BY DEF In, ItIs

\* A request goes on up the column, to an engine, or back as its answer.
LEMMA ServeHeld ==
  ASSUME Typed, Held, NEW l \in Links, Serve(l)
  PROVE  Held'
<1>1. PICK f : f = Head(up[l])
  OBVIOUS
<1>2. /\ up[l] # <<>> /\ up' = [up EXCEPT ![l] = Tail(@)]
      /\ UNCHANGED <<prog, pc, got, fromDram, nmc, pf, pending, device, out>>
      /\ f \in LinkPackets(l) /\ f \in Packets /\ f.chunk = 0 /\ IsReq(f.id) /\ f.id \in Ids
      /\ Link[f.id[1]] = l
      /\ Passes(f) \/ Commanded(f) \/ Accessed(f)
  BY <1>1, ServeFacts
<1>3. ASSUME NEW id \in Ids, IsReq(id), Total(id) <= 1
      PROVE  Total(id)' = Total(id)
  <2>1. /\ UpN(id) \in Nat /\ DownN(id) \in Nat /\ GotN(id) \in Nat /\ CmdN(id) \in Nat
        /\ Flight(Of(id, 0)) \in Nat /\ Hits(nmcQ, {id}) \in Nat /\ Hits(pfQ, {id}) \in Nat
    BY StageTypes
  <2>2. PICK n : n = ItIs(f.id, id)
    OBVIOUS
  <2>3. n \in Nat /\ In(f, Of(id, 0)) = n
    BY <1>2, <2>2, OfPacket DEF ItIs
  <2>4. id[1] \in Requesters /\ Link[id[1]] \in Links
    BY ColumnAssumption DEF Ids
  <2>5. UpN(id) = UpN(id)' + n /\ UpN(id)' \in Nat
    <3>1. CASE Link[id[1]] = l
      <4>1. up'[Link[id[1]]] = Tail(up[l]) /\ up[l] \in Seq(Packets)
        BY <1>2, <2>4, <3>1 DEF Typed, LinksTyped
      <4>2. Tail(up[l]) \in Seq(Packets)
        BY <1>2, <4>1, TailFacts
      <4>3. Hits(up[l], Of(id, 0)) = Hits(Tail(up[l]), Of(id, 0)) + n
            /\ Hits(Tail(up[l]), Of(id, 0)) \in Nat
        BY <1>1, <1>2, <2>3, <4>1, <4>2, HitsTail, HitsFinite
      <4>4. QED BY <3>1, <4>1, <4>3 DEF UpN
    <3>2. CASE Link[id[1]] # l
      <4>1. n = 0
        BY <1>2, <2>2, <3>2 DEF ItIs
      <4>2. UpN(id)' = UpN(id)
        BY <1>2, <2>4, <3>2 DEF UpN, Typed, LinksTyped
      <4>3. QED BY <2>1, <4>1, <4>2
    <3>3. QED BY <3>1, <3>2
  <2>6. GotN(id)' = GotN(id)
    BY <1>2, SameCounts
  <2>7. CASE Passes(f)
    <3>1. toDram' = Append(toDram, f) /\ UNCHANGED <<down, nmcQ, pfQ>>
      BY <2>7 DEF Passes, PassThrough
    <3>2. f \in ColumnPackets
      BY <1>2, <2>7 DEF Passes, ColumnPackets
    <3>3. Flight(Of(id, 0))' = Flight(Of(id, 0)) + n
      BY <1>2, <2>3, <3>1, <3>2, FlightUp
    <3>4. DownN(id)' = DownN(id) /\ CmdN(id)' = CmdN(id)
      BY <1>2, <3>1, SameCounts
    <3>5. QED BY <2>1, <2>3, <2>5, <2>6, <3>3, <3>4 DEF Total
  <2>8. CASE Commanded(f)
    <3>1. UNCHANGED <<down, toDram>>
      BY <2>8 DEF Commanded, QueueCommand
    <3>2. DownN(id)' = DownN(id) /\ Flight(Of(id, 0))' = Flight(Of(id, 0))
      BY <1>2, <3>1, SameCounts
    <3>3. f.id \in Commands(Req(f.id).op)
      BY <1>2 DEF Commands
    <3>4. CASE Req(f.id).op = "PREFETCH"
      <4>1. pfQ' = Append(pfQ, f.id) /\ nmcQ' = nmcQ /\ pfQ \in Seq(Ids)
        BY <2>8, <3>4 DEF Commanded, QueueCommand, Typed, EnginesTyped, Commands
      <4>2. Hits(Append(pfQ, f.id), {id}) = Hits(pfQ, {id}) + n
        BY <1>2, <2>2, <4>1, HitsAppend, CommandIn
      <4>3. CmdN(id)' = CmdN(id) + n
        <5>1. Hits(pfQ', {id}) = Hits(pfQ, {id}) + n /\ Hits(nmcQ', {id}) = Hits(nmcQ, {id})
          BY <4>1, <4>2
        <5>2. Running(nmc, id)' = Running(nmc, id) /\ Running(pf, id)' = Running(pf, id)
              /\ Running(nmc, id) \in Nat /\ Running(pf, id) \in Nat
          BY <1>2 DEF Running
        <5>3. CmdN(id)' = Hits(nmcQ', {id}) + Hits(pfQ', {id}) + Running(nmc, id)' + Running(pf, id)'
          BY DEF CmdN, Hits
        <5>4. QED BY <2>1, <2>3, <5>1, <5>2, <5>3 DEF CmdN
      <4>4. QED BY <2>1, <2>3, <2>5, <2>6, <3>2, <4>3 DEF Total
    <3>5. CASE Req(f.id).op = "REDUCE"
      <4>1. nmcQ' = Append(nmcQ, f.id) /\ pfQ' = pfQ /\ nmcQ \in Seq(Ids)
        BY <2>8, <3>5 DEF Commanded, QueueCommand, Typed, EnginesTyped, Commands
      <4>2. Hits(Append(nmcQ, f.id), {id}) = Hits(nmcQ, {id}) + n
        BY <1>2, <2>2, <4>1, HitsAppend, CommandIn
      <4>3. CmdN(id)' = CmdN(id) + n
        <5>1. Hits(nmcQ', {id}) = Hits(nmcQ, {id}) + n /\ Hits(pfQ', {id}) = Hits(pfQ, {id})
          BY <4>1, <4>2
        <5>2. Running(nmc, id)' = Running(nmc, id) /\ Running(pf, id)' = Running(pf, id)
              /\ Running(nmc, id) \in Nat /\ Running(pf, id) \in Nat
          BY <1>2 DEF Running
        <5>3. CmdN(id)' = Hits(nmcQ', {id}) + Hits(pfQ', {id}) + Running(nmc, id)' + Running(pf, id)'
          BY DEF CmdN, Hits
        <5>4. QED BY <2>1, <2>3, <5>1, <5>2, <5>3 DEF CmdN
      <4>4. QED BY <2>1, <2>3, <2>5, <2>6, <3>2, <4>3 DEF Total
    <3>6. QED BY <2>8, <3>4, <3>5 DEF Commanded
  <2>9. CASE Accessed(f)
    <3>1. UNCHANGED <<toDram, nmcQ, pfQ>>
      BY <2>9 DEF Accessed, Access
    <3>2. CmdN(id)' = CmdN(id) /\ Flight(Of(id, 0))' = Flight(Of(id, 0))
      BY <1>2, <3>1, SameCounts
    <3>3. PICK g \in Packets : g.id = f.id /\ g.chunk = 0 /\ SendDown(g)
      BY <1>2, <2>9, AnswerOf DEF Typed
    <3>4. DownN(id)' = DownN(id) + n
      BY <1>2, <2>2, <3>3, SendDownCounts
    <3>5. QED BY <2>1, <2>3, <2>5, <2>6, <3>2, <3>4 DEF Total
  <2>10. QED BY <1>2, <2>7, <2>8, <2>9
<1>4. QED BY <1>2, <1>3, SumsHeld

\* A command goes from the queue to the near-memory engine, and from there to
\* its tile as a token.
LEMMA NmcHeld ==
  ASSUME Typed, Held, NmcStart \/ NmcFinish
  PROVE  Held'
<1>1. UNCHANGED <<prog, pc, got, up, toDram, fromDram, pfQ, pf, pending, device, out>>
  BY DEF NmcStart, NmcFinish, tileVars, dramVars
<1>2. ASSUME NEW id \in Ids, IsReq(id), Total(id) <= 1
      PROVE  Total(id)' = Total(id)
  <2>1. /\ UpN(id) \in Nat /\ DownN(id) \in Nat /\ GotN(id) \in Nat /\ CmdN(id) \in Nat
        /\ Flight(Of(id, 0)) \in Nat /\ Hits(nmcQ, {id}) \in Nat /\ Hits(pfQ, {id}) \in Nat
        /\ Running(pf, id) \in Nat /\ Running(nmc, id) \in Nat
    BY StageTypes DEF Running
  <2>2. /\ UpN(id)' = UpN(id) /\ GotN(id)' = GotN(id)
        /\ Flight(Of(id, 0))' = Flight(Of(id, 0))
        /\ Hits(pfQ', {id}) = Hits(pfQ, {id}) /\ Running(pf, id)' = Running(pf, id)
    BY <1>1, SameCounts DEF Running
  <2>3. CmdN(id)' = Hits(nmcQ', {id}) + Hits(pfQ', {id}) + Running(nmc, id)' + Running(pf, id)'
    BY DEF CmdN, Hits
  <2>4. id # None
    BY IdIsSome
  <2>5. CASE NmcStart
    <3>1. /\ nmcQ # <<>> /\ nmcQ' = Tail(nmcQ) /\ nmc.id = None /\ nmc'.id = Head(nmcQ)
          /\ down' = down
      BY <2>5 DEF NmcStart
    <3>2. Hits(nmcQ, {id}) = Hits(Tail(nmcQ), {id}) + In(Head(nmcQ), {id})
          /\ Hits(Tail(nmcQ), {id}) \in Nat
      <4>1. nmcQ \in Seq(Commands("REDUCE"))
        BY DEF Typed, EnginesTyped
      <4>2. Tail(nmcQ) \in Seq(Commands("REDUCE"))
        BY <3>1, <4>1, TailFacts
      <4>3. QED BY <3>1, <4>1, <4>2, HitsTail, HitsFinite
    <3>3. Hits(nmcQ', {id}) = Hits(Tail(nmcQ), {id})
      BY <3>1
    <3>4. Running(nmc, id) = 0 /\ Running(nmc, id)' = In(Head(nmcQ), {id})
          /\ In(Head(nmcQ), {id}) \in Nat
      BY <2>4, <3>1 DEF Running, In
    <3>5. CmdN(id)' = CmdN(id)
      BY <2>1, <2>2, <2>3, <3>2, <3>3, <3>4 DEF CmdN
    <3>6. DownN(id)' = DownN(id)
      BY <3>1, SameCounts
    <3>7. QED BY <2>2, <3>5, <3>6 DEF Total
  <2>6. CASE NmcFinish
    <3>1. nmc.id # None /\ nmcQ' = nmcQ
      BY <2>6 DEF NmcFinish
    <3>2. nmc.id \in Commands("REDUCE") /\ nmc.id \in Ids /\ IsReq(nmc.id)
      BY <3>1 DEF Typed, EnginesTyped, Commands
    <3>3. CASE CanSendDown(nmc.id)
      <4>1. SendDown(Flit(nmc.id, 0, {})) /\ nmc'.id = None
        BY <2>6, <3>3 DEF NmcFinish
      <4>2. Flit(nmc.id, 0, {}) \in Packets /\ Flit(nmc.id, 0, {}).id = nmc.id
            /\ Flit(nmc.id, 0, {}).chunk = 0
        BY <3>2 DEF Flit, Packets
      <4>3. DownN(id)' = DownN(id) + ItIs(nmc.id, id)
        BY <3>2, <4>1, <4>2, SendDownCounts
      <4>4. Running(nmc, id)' = 0 /\ Running(nmc, id) = ItIs(nmc.id, id)
        BY <2>4, <4>1 DEF Running, ItIs
      <4>5. Hits(nmcQ', {id}) = Hits(nmcQ, {id})
        BY <3>1
      <4>6. CmdN(id) = CmdN(id)' + ItIs(nmc.id, id) /\ CmdN(id)' \in Nat
        BY <2>1, <2>2, <2>3, <4>4, <4>5 DEF CmdN
      <4>7. ItIs(nmc.id, id) \in Nat
        BY DEF ItIs
      <4>8. QED BY <2>1, <2>2, <4>3, <4>6, <4>7 DEF Total
    <3>4. CASE ~CanSendDown(nmc.id)
      <4>1. down' = down /\ nmc' = [nmc EXCEPT !.staged = {}]
        BY <2>6, <3>4 DEF NmcFinish
      <4>2. nmc'.id = nmc.id
        BY <4>1 DEF Typed, EnginesTyped
      <4>3. CmdN(id)' = CmdN(id)
        BY <1>1, <3>1, <4>2 DEF CmdN, Running
      <4>4. DownN(id)' = DownN(id)
        BY <4>1, SameCounts
      <4>5. QED BY <2>2, <4>3, <4>4 DEF Total
    <3>5. QED BY <3>3, <3>4
  <2>7. QED BY <2>5, <2>6
<1>3. QED BY <1>1, <1>2, SumsHeld

\* The same of the prefetch engine, whose chunks are not requests.
LEMMA PrefetchHeld ==
  ASSUME Typed, Held, PrefetchStart \/ PrefetchGenerate \/ PrefetchFinish
  PROVE  Held'
<1>1. UNCHANGED <<prog, pc, got, up, fromDram, nmcQ, nmc, pending, device, out>>
  BY DEF PrefetchStart, PrefetchGenerate, PrefetchFinish, tileVars, dramVars
<1>2. ASSUME NEW id \in Ids, IsReq(id), Total(id) <= 1
      PROVE  Total(id)' = Total(id)
  <2>1. /\ UpN(id) \in Nat /\ DownN(id) \in Nat /\ GotN(id) \in Nat /\ CmdN(id) \in Nat
        /\ Flight(Of(id, 0)) \in Nat /\ Hits(nmcQ, {id}) \in Nat /\ Hits(pfQ, {id}) \in Nat
        /\ Running(pf, id) \in Nat /\ Running(nmc, id) \in Nat
    BY StageTypes DEF Running
  <2>2. /\ UpN(id)' = UpN(id) /\ GotN(id)' = GotN(id)
        /\ Hits(nmcQ', {id}) = Hits(nmcQ, {id}) /\ Running(nmc, id)' = Running(nmc, id)
    BY <1>1, SameCounts DEF Running
  <2>3. CmdN(id)' = Hits(nmcQ', {id}) + Hits(pfQ', {id}) + Running(nmc, id)' + Running(pf, id)'
    BY DEF CmdN, Hits
  <2>4. id # None /\ pf \in [id : Commands("PREFETCH") \cup {None}, next : Nat \ {0},
                             outstanding : Nat]
    <3>1. id # None
      BY IdIsSome
    <3>2. QED BY <3>1 DEF Typed, EnginesTyped
  <2>5. CASE PrefetchStart
    <3>1. /\ pfQ # <<>> /\ pfQ' = Tail(pfQ) /\ pf.id = None /\ pf'.id = Head(pfQ)
          /\ down' = down /\ toDram' = toDram
      BY <2>4, <2>5 DEF PrefetchStart
    <3>2. Hits(pfQ, {id}) = Hits(Tail(pfQ), {id}) + In(Head(pfQ), {id})
          /\ Hits(Tail(pfQ), {id}) \in Nat
      <4>1. pfQ \in Seq(Commands("PREFETCH"))
        BY DEF Typed, EnginesTyped
      <4>2. Tail(pfQ) \in Seq(Commands("PREFETCH"))
        BY <3>1, <4>1, TailFacts
      <4>3. QED BY <3>1, <4>1, <4>2, HitsTail, HitsFinite
    <3>3. Hits(pfQ', {id}) = Hits(Tail(pfQ), {id})
      BY <3>1
    <3>4. Running(pf, id) = 0 /\ Running(pf, id)' = In(Head(pfQ), {id})
          /\ In(Head(pfQ), {id}) \in Nat
      BY <2>4, <3>1 DEF Running, In
    <3>5. CmdN(id)' = CmdN(id)
      BY <2>1, <2>2, <2>3, <3>2, <3>3, <3>4 DEF CmdN
    <3>6. DownN(id)' = DownN(id) /\ Flight(Of(id, 0))' = Flight(Of(id, 0))
      BY <1>1, <3>1, SameCounts
    <3>7. QED BY <2>2, <3>5, <3>6 DEF Total
  <2>6. CASE PrefetchGenerate
    <3>1. /\ pfQ' = pfQ /\ down' = down /\ toDram' = Append(toDram, Flit(pf.id, pf.next, {}))
          /\ pf'.id = pf.id
      BY <2>4, <2>6 DEF PrefetchGenerate
    <3>2. CmdN(id)' = CmdN(id) /\ DownN(id)' = DownN(id)
      BY <1>1, <3>1, SameCounts
    <3>3. Flit(pf.id, pf.next, {}) \in ColumnPackets /\ Flit(pf.id, pf.next, {}) \in Packets
      BY <2>6, ChunkTyped DEF ColumnPackets
    <3>4. Flit(pf.id, pf.next, {}).chunk # 0
      BY <2>4 DEF Flit
    <3>5. In(Flit(pf.id, pf.next, {}), Of(id, 0)) = 0
      BY <3>3, <3>4, OfPacket DEF In
    <3>6. Flight(Of(id, 0))' = Flight(Of(id, 0)) + 0
      BY <1>1, <3>1, <3>3, <3>5, FlightUp
    <3>7. QED BY <2>1, <2>2, <3>2, <3>6 DEF Total
  <2>7. CASE PrefetchFinish
    <3>1. /\ pfQ' = pfQ /\ toDram' = toDram /\ pf'.id = None /\ pf.id # None
          /\ SendDown(Flit(pf.id, 0, {}))
      BY <2>4, <2>7 DEF PrefetchFinish
    <3>2. pf.id \in Ids /\ IsReq(pf.id)
      BY <2>4, <3>1 DEF Commands
    <3>3. Flit(pf.id, 0, {}) \in Packets /\ Flit(pf.id, 0, {}).id = pf.id
          /\ Flit(pf.id, 0, {}).chunk = 0
      BY <3>2 DEF Flit, Packets
    <3>4. DownN(id)' = DownN(id) + ItIs(pf.id, id)
      BY <3>1, <3>2, <3>3, SendDownCounts
    <3>5. Running(pf, id)' = 0 /\ Running(pf, id) = ItIs(pf.id, id)
      BY <2>4, <3>1 DEF Running, ItIs
    <3>6. Hits(pfQ', {id}) = Hits(pfQ, {id})
      BY <3>1
    <3>7. CmdN(id) = CmdN(id)' + ItIs(pf.id, id) /\ CmdN(id)' \in Nat
      BY <2>1, <2>2, <2>3, <3>5, <3>6 DEF CmdN
    <3>8. Flight(Of(id, 0))' = Flight(Of(id, 0))
      BY <1>1, <3>1, SameCounts
    <3>9. ItIs(pf.id, id) \in Nat
      BY DEF ItIs
    <3>10. QED BY <2>1, <2>2, <3>4, <3>7, <3>8, <3>9 DEF Total
  <2>8. QED BY <2>5, <2>6, <2>7
<1>3. QED BY <1>1, <1>2, SumsHeld

\* Within the column a request stays on its way.
LEMMA ColumnHeld ==
  ASSUME Typed, Held, Ingest \/ Issue \/ (\E x \in device : Callback(x)) \/ Drain
  PROVE  Held'
<1>1. UNCHANGED <<prog, pc, got, up, down, nmcQ, nmc, pfQ, pf>>
  BY DEF Ingest, Issue, Callback, Drain, tileVars, bankVars
<1>2. ASSUME NEW id \in Ids, IsReq(id), Total(id) <= 1
      PROVE  Total(id)' = Total(id)
  <2>1. UpN(id)' = UpN(id) /\ DownN(id)' = DownN(id) /\ GotN(id)' = GotN(id) /\ CmdN(id)' = CmdN(id)
    BY <1>1, SameCounts
  <2>2. Flight(Of(id, 0)) <= 1
    <3>1. /\ UpN(id) \in Nat /\ DownN(id) \in Nat /\ GotN(id) \in Nat /\ CmdN(id) \in Nat
          /\ Flight(Of(id, 0)) \in Nat
      BY StageTypes
    <3>2. QED BY <1>2, <3>1 DEF Total
  <2>3. Flight(Of(id, 0))' = Flight(Of(id, 0))
    BY <2>2, FlightIngest, FlightIssue, FlightCallback, FlightDrain
  <2>4. QED BY <2>1, <2>3 DEF Total
<1>3. QED BY <1>1, <1>2, SumsHeld

-----------------------------------------------------------------------------
(* Chunks are counted by the engine that asked for them.                   *)

\* Where the engine stays as it is and no chunk comes or goes, nothing changes.
LEMMA SameChunks ==
  ASSUME Chunks, pf' = pf,
         \A id \in Ids, k \in Nat \ {0} :
           Flight(Of(id, k)) <= 1 => Flight(Of(id, k))' = Flight(Of(id, k)),
         Typed
  PROVE  Chunks'
<1>1. ASSUME NEW id \in Ids, NEW k \in Nat \ {0}
      PROVE  /\ Flight(Of(id, k))' = Flight(Of(id, k))
             /\ Flight(Of(id, k)) \in {0, IF id = pf.id /\ k < pf.next THEN 1 ELSE 0}
  <2>1. Flight(Of(id, k)) \in {0, IF id = pf.id /\ k < pf.next THEN 1 ELSE 0}
    BY DEF Chunks
  <2>2. Flight(Of(id, k)) <= 1
    BY <2>1
  <2>3. QED BY <2>1, <2>2
<1>2. CASE pf.id = None
  BY <1>1, <1>2 DEF Chunks
<1>3. CASE pf.id # None
  <2>1. pf.id \in Ids /\ pf.next \in Nat
    BY <1>3 DEF Typed, EnginesTyped, Commands
  <2>2. \A k \in 1 .. pf.next - 1 : Flight(Of(pf.id, k))' = Flight(Of(pf.id, k))
    BY <1>1, <2>1
  <2>3. Flying' = Flying
    <3>1. \A k : Of(pf.id, k)' = Of(pf.id, k)
      BY DEF Of
    <3>2. Flying' = {k \in 1 .. pf.next - 1 : Flight(Of(pf.id, k))' = 1}
      BY DEF Flying
    <3>3. QED BY <2>2, <3>2 DEF Flying
  <2>4. QED BY <1>1, <1>3, <2>3 DEF Chunks
<1>4. QED BY <1>2, <1>3

\* Tiles and their links have no chunks, and the column keeps those it has.
LEMMA OtherFlights ==
  ASSUME Typed, NEW id \in Ids, NEW k \in Nat \ {0}, Flight(Of(id, k)) <= 1,
         \/ \E t \in Requesters : Inject(t) \/ Await(t)
         \/ \E l \in Links : Receive(l) \/ Serve(l)
         \/ NmcStart \/ NmcFinish
         \/ Ingest \/ Issue \/ (\E x \in device : Callback(x)) \/ Drain
  PROVE  pf' = pf /\ Flight(Of(id, k))' = Flight(Of(id, k))
<1>1. pf' = pf
  BY DEF Inject, Await, Receive, Serve, NmcStart, NmcFinish, Ingest, Issue, Callback, Drain,
         bankVars
<1>2. CASE \/ \E t \in Requesters : Inject(t) \/ Await(t)
           \/ \E l \in Links : Receive(l)
           \/ NmcStart \/ NmcFinish
  <2>1. UNCHANGED <<toDram, fromDram, out, pending, device>>
    BY <1>2 DEF Inject, Await, Receive, NmcStart, NmcFinish, dramVars
  <2>2. QED BY <1>1, <2>1, SameCounts
<1>3. CASE \E l \in Links : Serve(l)
  <2>1. PICK l \in Links : Serve(l)
    BY <1>3
  <2>2. PICK f : f = Head(up[l])
    OBVIOUS
  <2>3. /\ UNCHANGED <<fromDram, pending, device, out>>
        /\ f \in Packets /\ f.chunk = 0 /\ IsReq(f.id)
        /\ Passes(f) \/ Commanded(f) \/ Accessed(f)
    BY <2>1, <2>2, ServeFacts
  <2>4. CASE Passes(f)
    <3>1. toDram' = Append(toDram, f) /\ f \in ColumnPackets
      BY <2>3, <2>4 DEF Passes, PassThrough, ColumnPackets
    <3>2. In(f, Of(id, k)) = 0
      BY <2>3, OfPacket DEF In
    <3>3. Flight(Of(id, k))' = Flight(Of(id, k)) + 0
      BY <2>3, <3>1, <3>2, FlightUp
    <3>4. Flight(Of(id, k)) \in Nat
      BY StageTypes
    <3>5. QED BY <1>1, <3>3, <3>4
  <2>5. CASE ~Passes(f)
    <3>1. toDram' = toDram
      BY <2>3, <2>5 DEF Commanded, QueueCommand, Accessed, Access
    <3>2. QED BY <1>1, <2>3, <3>1, SameCounts
  <2>6. QED BY <2>4, <2>5
<1>4. CASE Ingest \/ Issue \/ (\E x \in device : Callback(x)) \/ Drain
  BY <1>1, <1>4, FlightIngest, FlightIssue, FlightCallback, FlightDrain
<1>5. QED BY <1>2, <1>3, <1>4

\* So nothing happens to the chunks.
LEMMA OtherChunks ==
  ASSUME Typed, Chunks,
         \/ \E t \in Requesters : Inject(t) \/ Await(t)
         \/ \E l \in Links : Receive(l) \/ Serve(l)
         \/ NmcStart \/ NmcFinish
         \/ Ingest \/ Issue \/ (\E x \in device : Callback(x)) \/ Drain
  PROVE  Chunks'
<1>1. pf' = pf
  BY DEF Inject, Await, Receive, Serve, NmcStart, NmcFinish, Ingest, Issue, Callback, Drain,
         bankVars
<1>2. ASSUME NEW id \in Ids, NEW k \in Nat \ {0}, Flight(Of(id, k)) <= 1
      PROVE  Flight(Of(id, k))' = Flight(Of(id, k))
  BY <1>2, OtherFlights
<1>3. QED BY <1>1, <1>2, SameChunks

\* The chunks on their way are finitely many.
LEMMA FlyingFinite ==
  ASSUME Typed
  PROVE  IsFiniteSet(Flying) /\ Cardinality(Flying) \in Nat
<1>1. pf.next - 1 \in Int
  BY DEF Typed, EnginesTyped
<1>2. IsFiniteSet(1 .. pf.next - 1)
  BY <1>1, FS_Interval
<1>3. Flying \subseteq 1 .. pf.next - 1
  BY DEF Flying
<1>4. QED BY <1>2, <1>3, FS_Subset, FS_CardinalityType

\* No chunk is on its way when the engine counts none.
LEMMA NoneFlying ==
  ASSUME Typed, Chunks, pf.outstanding = 0, NEW id \in Ids, NEW k \in Nat \ {0}
  PROVE  Flight(Of(id, k)) = 0
<1>1. Flight(Of(id, k)) \in {0, IF id = pf.id /\ k < pf.next THEN 1 ELSE 0}
  BY DEF Chunks
<1>2. CASE id = pf.id /\ k < pf.next
  <2>1. pf.id # None /\ pf.next \in Nat
    <3>1. id # None
      BY IdIsSome
    <3>2. QED BY <1>2, <3>1 DEF Typed, EnginesTyped
  <2>2. Cardinality(Flying) = 0
    BY <2>1 DEF Chunks
  <2>3. Flying = {}
    BY <2>2, FlyingFinite, FS_EmptySet
  <2>4. k \in 1 .. pf.next - 1
    BY <1>2, <2>1
  <2>5. Flight(Of(id, k)) # 1
    BY <1>2, <2>3, <2>4 DEF Flying
  <2>6. QED BY <1>1, <2>5
<1>3. CASE ~(id = pf.id /\ k < pf.next)
  BY <1>1, <1>3
<1>4. QED BY <1>2, <1>3

\* A new chunk is on its way when the engine has asked for it.
LEMMA GenerateFlights ==
  ASSUME Typed, Chunks, PrefetchGenerate, NEW n, n = pf.next
  PROVE  /\ pf'.id = pf.id /\ pf'.next = n + 1 /\ pf'.outstanding = pf.outstanding + 1
         /\ pf.id # None /\ pf.id \in Ids /\ n \in Nat \ {0}
         /\ \A id \in Ids, k \in Nat \ {0} :
              Flight(Of(id, k))' = IF id = pf.id /\ k = n THEN 1 ELSE Flight(Of(id, k))
<1>1. PICK f : f = Flit(pf.id, pf.next, {})
  OBVIOUS
<1>3. /\ UNCHANGED <<fromDram, pending, device, out>> /\ toDram' = Append(toDram, f)
      /\ pf.id # None /\ pf \in [id : Commands("PREFETCH") \cup {None}, next : Nat \ {0},
                                 outstanding : Nat]
      /\ pf' = [pf EXCEPT !.next = @ + 1, !.outstanding = @ + 1]
  BY <1>1 DEF PrefetchGenerate, dramVars, Typed, EnginesTyped
<1>4. pf' = [id |-> pf.id, next |-> n + 1, outstanding |-> pf.outstanding + 1]
  BY <1>3
<1>5. pf'.id = pf.id /\ pf'.next = n + 1 /\ pf'.outstanding = pf.outstanding + 1
  BY <1>4
<1>6. pf.id \in Ids /\ n \in Nat \ {0}
  BY <1>3 DEF Commands
<1>7. f \in ColumnPackets /\ f \in Packets /\ f.id = pf.id /\ f.chunk = n
  BY <1>1, ChunkTyped DEF ColumnPackets, Flit
<1>8. ASSUME NEW id \in Ids, NEW k \in Nat \ {0}
      PROVE  Flight(Of(id, k))' = IF id = pf.id /\ k = n THEN 1 ELSE Flight(Of(id, k))
  <2>1. Flight(Of(id, k))' = Flight(Of(id, k)) + In(f, Of(id, k)) /\ Flight(Of(id, k)) \in Nat
    BY <1>3, <1>7, FlightUp, StageTypes
  <2>2. In(f, Of(id, k)) = IF id = pf.id /\ k = n THEN 1 ELSE 0
    BY <1>7, OfPacket DEF In
  <2>3. id = pf.id /\ k = n => Flight(Of(id, k)) = 0
    BY DEF Chunks
  <2>4. QED BY <2>1, <2>2, <2>3
<1>9. QED BY <1>3, <1>5, <1>6, <1>8

\* The engine asks for the next chunk.
LEMMA GenerateChunks ==
  ASSUME Typed, Chunks, PrefetchGenerate
  PROVE  Chunks'
<1>2. PICK n : n = pf.next
  OBVIOUS
<1>3. pf.id # None
  BY <1>2, GenerateFlights
<1>5. pf'.id = pf.id /\ pf'.next = n + 1 /\ pf'.outstanding = pf.outstanding + 1
  BY <1>2, GenerateFlights
<1>6. pf.id \in Ids /\ n \in Nat \ {0}
  BY <1>2, GenerateFlights
<1>8. ASSUME NEW id \in Ids, NEW k \in Nat \ {0}
      PROVE  Flight(Of(id, k))' = IF id = pf.id /\ k = n THEN 1 ELSE Flight(Of(id, k))
  BY <1>2, GenerateFlights
<1>9. ASSUME NEW id \in Ids, NEW k \in Nat \ {0}
      PROVE  Flight(Of(id, k))' \in {0, IF id = pf'.id /\ k < pf'.next THEN 1 ELSE 0}
  <2>1. Flight(Of(id, k)) \in {0, IF id = pf.id /\ k < n THEN 1 ELSE 0}
    BY <1>2 DEF Chunks
  <2>2. k < n \/ k = n => k < n + 1
    BY <1>6
  <2>3. QED BY <1>5, <1>8, <2>1, <2>2
<1>10. Flying' = Flying \cup {n} /\ n \notin Flying
  <2>0. PICK i : i = pf.id
    OBVIOUS
  <2>1. Flying' = {k \in 1 .. n : Flight(Of(i, k))' = 1}
    BY <1>5, <1>6, <2>0 DEF Flying
  <2>2. Flying = {k \in 1 .. n - 1 : Flight(Of(i, k)) = 1}
    BY <1>2, <2>0 DEF Flying
  <2>3. \A k \in 1 .. n : k = n \/ k \in 1 .. n - 1
    BY <1>6
  <2>4. \A k \in 1 .. n - 1 : k \in Nat \ {0} /\ k # n
    BY <1>6
  <2>5. n \in 1 .. n /\ n \notin 1 .. n - 1 /\ \A k \in 1 .. n - 1 : k \in 1 .. n
    BY <1>6
  <2>6. Flight(Of(i, n))' = 1
    BY <1>6, <1>8, <2>0
  <2>7. ASSUME NEW k \in 1 .. n - 1
        PROVE  Flight(Of(i, k))' = Flight(Of(i, k))
    BY <1>6, <1>8, <2>0, <2>4
  <2>8. QED BY <2>1, <2>2, <2>3, <2>5, <2>6, <2>7
<1>11. Cardinality(Flying') = Cardinality(Flying) + 1
  BY <1>10, FlyingFinite, FS_AddElement
<1>12. pf'.outstanding = Cardinality(Flying') /\ pf'.id # None
  BY <1>3, <1>5, <1>11 DEF Chunks
<1>13. QED BY <1>9, <1>12 DEF Chunks

\* The engine starts a prefetch, or reports one whose chunks have all come.
LEMMA StartFinishChunks ==
  ASSUME Typed, Chunks, PrefetchStart \/ PrefetchFinish
  PROVE  Chunks'
<1>1. UNCHANGED <<toDram, fromDram, pending, device, out>>
  BY DEF PrefetchStart, PrefetchFinish, dramVars
<1>2. pf \in [id : Commands("PREFETCH") \cup {None}, next : Nat \ {0}, outstanding : Nat]
  BY DEF Typed, EnginesTyped
<1>3. pf.outstanding = 0
  BY DEF Chunks, PrefetchStart, PrefetchFinish
<1>4. \A id \in Ids, k \in Nat \ {0} : Flight(Of(id, k)) = 0
  BY <1>3, NoneFlying
<1>5. \A id \in Ids, k \in Nat \ {0} : Flight(Of(id, k))' = 0
  BY <1>1, <1>4, SameCounts
<1>6. pf'.outstanding = 0 /\ (pf'.id # None => pf'.next = 1)
  <2>1. CASE PrefetchStart
    <3>1. pf' = [id |-> Head(pfQ), next |-> 1, outstanding |-> 0]
      BY <1>2, <1>3, <2>1 DEF PrefetchStart
    <3>2. QED BY <3>1
  <2>2. CASE PrefetchFinish
    BY <1>2, <1>3, <2>2 DEF PrefetchFinish
  <2>3. QED BY <2>1, <2>2
<1>7. pf'.id # None => Cardinality(Flying)' = 0
  <2>1. SUFFICES ASSUME pf'.id # None PROVE Cardinality(Flying)' = 0
    OBVIOUS
  <2>2. Flying' = {}
    BY <1>6, <2>1 DEF Flying
  <2>3. QED BY <2>2, FS_EmptySet
<1>8. QED BY <1>5, <1>6, <1>7 DEF Chunks

\* A chunk that comes down the column is one of the running prefetch, and is
\* counted.
LEMMA ChunkIsCounted ==
  ASSUME Typed, Chunks, fromDram # <<>>, to_bank(Head(fromDram))
  PROVE  LET f == Head(fromDram) IN
         /\ f \in Packets /\ f.id \in Ids /\ f.id = pf.id /\ f.chunk \in 1 .. pf.next - 1
         /\ f.chunk \in Flying /\ Flight(Of(f.id, f.chunk)) = 1
         /\ pf.id # None /\ pf.outstanding = Cardinality(Flying) /\ pf.outstanding \in Nat \ {0}
<1>1. PICK f : f = Head(fromDram)
  OBVIOUS
<1>2. f \in Packets /\ f.id \in Ids /\ f.chunk \in Nat \ {0}
  <2>1. f \in ColumnPackets
    BY <1>1, TailFacts DEF Typed, ColumnTyped
  <2>2. QED BY <1>1, <2>1 DEF ColumnPackets, Packets, to_bank
<1>3. Hits(fromDram, Of(f.id, f.chunk)) \in Nat \ {0}
  <2>1. fromDram \in Seq(ColumnPackets) /\ Tail(fromDram) \in Seq(ColumnPackets)
    BY TailFacts DEF Typed, ColumnTyped
  <2>2. Hits(fromDram, Of(f.id, f.chunk)) = Hits(Tail(fromDram), Of(f.id, f.chunk)) + 1
    <3>1. In(f, Of(f.id, f.chunk)) = 1
      BY <1>2, OfPacket DEF In
    <3>2. QED BY <1>1, <2>1, <3>1, HitsTail
  <2>3. Hits(Tail(fromDram), Of(f.id, f.chunk)) \in Nat
    BY <2>1, HitsFinite
  <2>4. QED BY <2>2, <2>3
<1>4. Flight(Of(f.id, f.chunk)) \in Nat \ {0}
  <2>1. PICK A : A = Of(f.id, f.chunk)
    OBVIOUS
  <2>2. /\ Hits(toDram, A) \in Nat /\ Hits(fromDram, A) \in Nat /\ Hits(out, A) \in Nat
        /\ Hits(pending, Whole(A)) \in Nat /\ Cardinality(InDevice(A)) \in Nat
    BY <1>2, StageTypes
  <2>3. QED BY <1>3, <2>1, <2>2 DEF Flight
<1>5. Flight(Of(f.id, f.chunk)) = 1 /\ f.id = pf.id /\ f.chunk < pf.next
  BY <1>2, <1>4 DEF Chunks
<1>6. pf.id # None /\ pf.next \in Nat
  <2>1. f.id # None
    BY <1>2, IdIsSome
  <2>2. QED BY <1>5, <2>1 DEF Typed, EnginesTyped
<1>7. f.chunk \in 1 .. pf.next - 1
  BY <1>2, <1>5, <1>6
<1>8. f.chunk \in Flying
  BY <1>5, <1>7 DEF Flying
<1>9. pf.outstanding = Cardinality(Flying) /\ Cardinality(Flying) # 0
  <2>1. Flying # {}
    BY <1>8
  <2>2. QED BY <1>6, <2>1, FlyingFinite, FS_EmptySet DEF Chunks
<1>10. pf.outstanding \in Nat \ {0}
  BY <1>9, FlyingFinite
<1>11. QED BY <1>1, <1>2, <1>5, <1>6, <1>7, <1>8, <1>9, <1>10

\* What Absorb takes off is on its way no more; an answer is no chunk.
LEMMA AbsorbFlights ==
  ASSUME Typed, Chunks, Absorb, NEW f, f = Head(fromDram)
  PROVE  /\ f \in ColumnPackets
         /\ ~to_bank(f) => /\ pf' = pf /\ thrown' = thrown
                           /\ \A id \in Ids, k \in Nat \ {0} :
                                Flight(Of(id, k))' = Flight(Of(id, k))
         /\ to_bank(f) => /\ PrefetchData(f) /\ thrown' = thrown
                          /\ f.id \in Ids /\ f.id = pf.id /\ f.chunk \in 1 .. pf.next - 1
                          /\ pf'.id = pf.id /\ pf'.next = pf.next
                          /\ pf'.outstanding = pf.outstanding - 1
                          /\ \A id \in Ids, k \in Nat \ {0} :
                               Flight(Of(id, k))' = IF id = f.id /\ k = f.chunk THEN 0
                                                    ELSE Flight(Of(id, k))
<1>2. /\ fromDram # <<>> /\ fromDram' = Tail(fromDram)
      /\ UNCHANGED <<toDram, pending, device, out>>
  BY DEF Absorb, dramVars
<1>3. pf \in [id : Commands("PREFETCH") \cup {None}, next : Nat \ {0}, outstanding : Nat]
  BY DEF Typed, EnginesTyped
<1>4. f \in ColumnPackets /\ f \in Packets
  <2>1. f \in ColumnPackets
    BY <1>2, TailFacts DEF Typed, ColumnTyped
  <2>2. QED BY <2>1 DEF ColumnPackets
<1>5. \A id \in Ids, k \in Nat :
        /\ Flight(Of(id, k)) = Flight(Of(id, k))' + In(f, Of(id, k))
        /\ Flight(Of(id, k))' \in Nat
  BY <1>2, FlightDown
<1>6. CASE ~to_bank(f)
  <2>1. pf' = pf /\ thrown' = thrown
    BY <1>6 DEF Absorb
  <2>2. ASSUME NEW id \in Ids, NEW k \in Nat \ {0}
        PROVE  Flight(Of(id, k))' = Flight(Of(id, k))
    <3>1. f.chunk \in Nat
      BY <1>4 DEF Packets
    <3>2. f.chunk # k
      BY <1>6, <3>1 DEF to_bank
    <3>3. In(f, Of(id, k)) = 0
      BY <1>4, <3>2, OfPacket DEF In
    <3>4. QED BY <1>5, <3>3
  <2>3. QED BY <1>4, <1>6, <2>1, <2>2
<1>7. CASE to_bank(f)
  <2>1. /\ f.id \in Ids /\ f.id = pf.id /\ f.chunk \in 1 .. pf.next - 1
        /\ Flight(Of(f.id, f.chunk)) = 1 /\ pf.outstanding \in Nat \ {0}
    BY <1>2, <1>7, ChunkIsCounted
  <2>2. PrefetchData(f)
    BY <1>7 DEF Absorb
  <2>3. thrown' = thrown /\ pf' = [pf EXCEPT !.outstanding = @ - 1]
    BY <2>1, <2>2 DEF PrefetchData
  <2>4. pf'.id = pf.id /\ pf'.next = pf.next /\ pf'.outstanding = pf.outstanding - 1
    BY <1>3, <2>3
  <2>5. ASSUME NEW id \in Ids, NEW k \in Nat \ {0}
        PROVE  Flight(Of(id, k))' = IF id = f.id /\ k = f.chunk THEN 0 ELSE Flight(Of(id, k))
    <3>1. In(f, Of(id, k)) = IF id = f.id /\ k = f.chunk THEN 1 ELSE 0
      BY <1>4, OfPacket DEF In
    <3>2. Flight(Of(id, k)) = Flight(Of(id, k))' + In(f, Of(id, k))
          /\ Flight(Of(id, k))' \in Nat
      BY <1>5
    <3>3. QED BY <2>1, <3>1, <3>2
  <2>6. QED BY <1>4, <1>7, <2>1, <2>2, <2>3, <2>4, <2>5
<1>8. QED BY <1>6, <1>7

\* A chunk ends in the bank.
LEMMA AbsorbChunks ==
  ASSUME Typed, Chunks, Absorb
  PROVE  Chunks' /\ thrown' = thrown
<1>1. PICK f : f = Head(fromDram)
  OBVIOUS
<1>2. fromDram # <<>>
  BY DEF Absorb
<1>3. pf \in [id : Commands("PREFETCH") \cup {None}, next : Nat \ {0}, outstanding : Nat]
  BY DEF Typed, EnginesTyped
<1>6. CASE ~to_bank(f)
  <2>1. pf' = pf /\ thrown' = thrown
    BY <1>1, <1>6, AbsorbFlights
  <2>2. ASSUME NEW id \in Ids, NEW k \in Nat \ {0}
        PROVE  Flight(Of(id, k))' = Flight(Of(id, k))
    BY <1>1, <1>6, AbsorbFlights
  <2>3. QED BY <2>1, <2>2, SameChunks
<1>7. CASE to_bank(f)
  <2>1. /\ f.id \in Ids /\ f.id = pf.id /\ f.chunk \in 1 .. pf.next - 1
        /\ f.chunk \in Flying /\ Flight(Of(f.id, f.chunk)) = 1
        /\ pf.id # None /\ pf.outstanding = Cardinality(Flying)
        /\ pf.outstanding \in Nat \ {0}
    BY <1>1, <1>2, <1>7, ChunkIsCounted
  <2>3. thrown' = thrown
    BY <1>1, <1>7, AbsorbFlights
  <2>4. pf'.id = pf.id /\ pf'.next = pf.next /\ pf'.outstanding = pf.outstanding - 1
    BY <1>1, <1>7, AbsorbFlights
  <2>5. ASSUME NEW id \in Ids, NEW k \in Nat \ {0}
        PROVE  Flight(Of(id, k))' = IF id = f.id /\ k = f.chunk THEN 0 ELSE Flight(Of(id, k))
    BY <1>1, <1>7, AbsorbFlights
  <2>6. ASSUME NEW id \in Ids, NEW k \in Nat \ {0}
        PROVE  Flight(Of(id, k))' \in {0, IF id = pf'.id /\ k < pf'.next THEN 1 ELSE 0}
    <3>1. Flight(Of(id, k)) \in {0, IF id = pf.id /\ k < pf.next THEN 1 ELSE 0}
      BY DEF Chunks
    <3>2. QED BY <2>4, <2>5, <3>1
  <2>7. Flying' = Flying \ {f.chunk}
    <3>0. PICK i : i = pf.id
      OBVIOUS
    <3>1. Flying' = {k \in 1 .. pf.next - 1 : Flight(Of(i, k))' = 1}
      BY <2>4, <3>0 DEF Flying
    <3>2. \A k \in 1 .. pf.next - 1 : k \in Nat \ {0}
      BY <1>3
    <3>3. ASSUME NEW k \in 1 .. pf.next - 1
          PROVE  Flight(Of(i, k))' = IF k = f.chunk THEN 0 ELSE Flight(Of(i, k))
      BY <2>1, <2>5, <3>0, <3>2
    <3>4. QED BY <3>0, <3>1, <3>3 DEF Flying
  <2>8. Cardinality(Flying') = Cardinality(Flying) - 1
    BY <2>1, <2>7, FlyingFinite, FS_RemoveElement
  <2>9. QED BY <2>1, <2>3, <2>4, <2>6, <2>8 DEF Chunks
<1>8. QED BY <1>6, <1>7

-----------------------------------------------------------------------------
(* Nothing is lost and nothing is done twice.                              *)

\* No tile is past the end of its program.
InProgram == \A t \in Requesters : pc[t] <= Len(prog[t]) + 1

Counted == Typed /\ InProgram /\ Held /\ Chunks /\ thrown = FALSE

\* The steps of the column, one by one.
LEMMA Steps ==
  ASSUME [Next]_vars
  PROVE  \/ UNCHANGED vars
         \/ \E t \in Requesters : Inject(t) \/ Await(t)
         \/ \E l \in Links : Receive(l) \/ Serve(l)
         \/ Absorb
         \/ NmcStart \/ NmcFinish
         \/ PrefetchStart \/ PrefetchGenerate \/ PrefetchFinish
         \/ Ingest \/ Issue \/ (\E x \in device : Callback(x)) \/ Drain
BY DEF Next, Tile, Ingress, UpLink, Downstream, Nmc, Prefetch, Controller, Port, Device, Response

\* Every step keeps every variable in its range.
LEMMA TypedKept == ASSUME Typed, [Next]_vars PROVE Typed'
<1>1. CASE UNCHANGED vars
  BY <1>1, SameTyped DEF vars, tileVars, bankVars, dramVars, Typed
<1>2. CASE ~UNCHANGED vars
  BY <1>2, Steps, InjectTyped, AwaitTyped, ReceiveTyped, ServeTyped, AbsorbTyped, NmcTyped,
     PrefetchTyped, IngestTyped, IssueTyped, CallbackTyped, DrainTyped
<1>3. QED BY <1>1, <1>2

\* Every step keeps every request with one holder.
LEMMA HeldKept == ASSUME Typed, Held, [Next]_vars PROVE Held'
<1>1. CASE UNCHANGED vars
  <2>1. UNCHANGED <<prog, pc, got, up, down, toDram, fromDram, nmcQ, nmc, pfQ, pf, pending,
                    device, out>>
    BY <1>1 DEF vars, tileVars, bankVars, dramVars
  <2>2. \A id \in Ids : Total(id)' = Total(id)
    BY <2>1, SameCounts DEF Total
  <2>3. QED BY <2>1, <2>2, SumsHeld
<1>2. CASE ~UNCHANGED vars
  BY <1>2, Steps, InjectHeld, AwaitHeld, ReceiveHeld, ServeHeld, AbsorbHeld, NmcHeld,
     PrefetchHeld, ColumnHeld
<1>3. QED BY <1>1, <1>2

\* Every step keeps count of the chunks.
LEMMA ChunksKept == ASSUME Typed, Chunks, [Next]_vars PROVE Chunks'
<1>1. CASE UNCHANGED vars
  <2>1. UNCHANGED <<pf, toDram, fromDram, out, pending, device>>
    BY <1>1 DEF vars, bankVars, dramVars
  <2>2. \A id \in Ids, k \in Nat \ {0} : Flight(Of(id, k))' = Flight(Of(id, k))
    BY <2>1, SameCounts
  <2>3. QED BY <2>1, <2>2, SameChunks
<1>2. CASE ~UNCHANGED vars
  BY <1>2, Steps, OtherChunks, AbsorbChunks, GenerateChunks, StartFinishChunks
<1>3. QED BY <1>1, <1>2

\* A tile goes on only within its program.
LEMMA InProgramKept == ASSUME Typed, InProgram, [Next]_vars PROVE InProgram'
<1>1. CASE UNCHANGED <<prog, pc>>
  BY <1>1 DEF InProgram
<1>2. CASE \E t \in Requesters : Inject(t) \/ Await(t)
  <2>1. PICK t \in Requesters : /\ pc[t] <= Len(prog[t])
                                /\ pc' = [pc EXCEPT ![t] = @ + 1] /\ prog' = prog
    BY <1>2 DEF Inject, Await
  <2>2. pc \in [Requesters -> Nat \ {0}]
    BY DEF Typed, TilesTyped
  <2>3. ASSUME NEW u \in Requesters PROVE pc'[u] <= Len(prog[u]) + 1
    <3>1. Len(prog[u]) \in Nat /\ pc[u] <= Len(prog[u]) + 1
      BY ProgramFacts DEF Typed, InProgram
    <3>2. CASE u = t
      BY <2>1, <2>2, <3>1, <3>2
    <3>3. CASE u # t
      BY <2>1, <2>2, <3>1, <3>3
    <3>4. QED BY <3>2, <3>3
  <2>4. QED BY <2>1, <2>3 DEF InProgram
<1>3. QED
  <2>1. CASE ~UNCHANGED vars /\ ~\E t \in Requesters : Inject(t) \/ Await(t)
    BY <1>1, <2>1, Steps DEF Receive, Serve, Absorb, NmcStart, NmcFinish, PrefetchStart,
       PrefetchGenerate, PrefetchFinish, Ingest, Issue, Callback, Drain, tileVars
  <2>2. CASE UNCHANGED vars
    BY <1>1, <2>2 DEF vars, tileVars
  <2>3. QED BY <1>2, <2>1, <2>2

\* At first nothing is anywhere.
LEMMA InitCounted == Init => Counted
<1> SUFFICES ASSUME Init PROVE Counted
  OBVIOUS
<1>1. TilesTyped
  BY FS_EmptySet DEF Init, TilesTyped
<1>2. LinksTyped
  BY DEF Init, LinksTyped
<1>3. EnginesTyped
  BY DEF Init, EnginesTyped
<1>4. ColumnTyped
  BY FS_EmptySet DEF Init, ColumnTyped
<1>5. \A A : Flight(A) = 0
  <2>1. TAKE A
  <2>2. /\ Hits(toDram, A) = 0 /\ Hits(fromDram, A) = 0 /\ Hits(out, A) = 0
        /\ Hits(pending, Whole(A)) = 0
    BY HitsEmpty DEF Init
  <2>3. InDevice(A) = {}
    BY DEF Init, InDevice
  <2>4. QED BY <2>2, <2>3, FS_EmptySet DEF Flight
<1>6. Held
  <2>1. ASSUME NEW id \in Ids, IsReq(id)
        PROVE  Total(id) = IF id[2] < pc[id[1]] THEN 1 ELSE 0
    <3>1. id[1] \in Requesters /\ Link[id[1]] \in Links /\ id # None
      BY ColumnAssumption, IdIsSome
    <3>2. UpN(id) = 0 /\ DownN(id) = 0
      BY <3>1, HitsEmpty DEF UpN, DownN, Init
    <3>3. GotN(id) = 0
      <4>1. {a \in got[id[1]] : a.id = id} = {}
        BY <3>1 DEF Init
      <4>2. QED BY <4>1, FS_EmptySet DEF GotN
    <3>4. CmdN(id) = 0
      <4>1. Hits(nmcQ, {id}) = 0 /\ Hits(pfQ, {id}) = 0
        BY HitsEmpty DEF Init
      <4>2. Running(nmc, id) = 0 /\ Running(pf, id) = 0
        BY <3>1 DEF Running, Init
      <4>3. QED BY <4>1, <4>2 DEF CmdN
    <3>5. Total(id) = 0
      BY <1>5, <3>2, <3>3, <3>4 DEF Total
    <3>6. ~(id[2] < pc[id[1]])
      <4>1. id[2] \in 1 .. Len(prog[id[1]]) /\ pc[id[1]] = 1
        BY <1>1, <2>1, <3>1, ReqFacts DEF Init
      <4>2. QED BY <4>1, <1>1, <3>1, ProgramFacts
    <3>7. QED BY <3>5, <3>6
  <2>2. QED BY <2>1 DEF Held
<1>7. Chunks
  BY <1>5 DEF Chunks, Init
<1>8. InProgram
  <2>1. ASSUME NEW t \in Requesters PROVE pc[t] <= Len(prog[t]) + 1
    <3>1. Len(prog[t]) \in Nat /\ pc[t] = 1
      BY <1>1, ProgramFacts DEF Init
    <3>2. QED BY <3>1
  <2>2. QED BY <2>1 DEF InProgram
<1>9. thrown = FALSE
  BY DEF Init
<1>10. QED BY <1>1, <1>2, <1>3, <1>4, <1>6, <1>7, <1>8, <1>9 DEF Counted, Typed

\* Every step keeps the count, and no step throws.
LEMMA CountedKept == Counted /\ [Next]_vars => Counted'
<1> SUFFICES ASSUME Counted, [Next]_vars PROVE Counted'
  OBVIOUS
<1>1. Typed' /\ Held' /\ Chunks' /\ InProgram'
  BY TypedKept, HeldKept, ChunksKept, InProgramKept DEF Counted
<1>2. thrown' = thrown
  <2>1. CASE UNCHANGED vars
    BY <2>1 DEF vars
  <2>2. CASE Absorb
    BY <2>2, AbsorbChunks DEF Counted
  <2>3. CASE ~UNCHANGED vars /\ ~Absorb
    BY <2>3, Steps DEF Inject, Await, Receive, Serve, NmcStart, NmcFinish, PrefetchStart,
       PrefetchGenerate, PrefetchFinish, Ingest, Issue, Callback, Drain
  <2>4. QED BY <2>1, <2>2, <2>3
<1>3. QED BY <1>1, <1>2 DEF Counted

\* The counts of the column hold in every behaviour.
THEOREM CountedAlways == Spec => []Counted
<1>1. QED BY InitCounted, CountedKept, PTL DEF Spec

\* What was issued is a request that its tile is past.
LEMMA IssuedFacts ==
  ASSUME Counted, NEW id \in Issued
  PROVE  id \in Ids /\ IsReq(id) /\ id[2] < pc[id[1]]
<1>0. PICK t \in Requesters :
        id \in {<<t, i>> : i \in {j \in 1 .. pc[t] - 1 : prog[t][j].op \in Ops}}
  BY DEF Issued
<1>1. PICK i \in 1 .. pc[t] - 1 : id = <<t, i>> /\ prog[t][i].op \in Ops
  BY <1>0
<1>2. /\ Len(prog[t]) \in Nat /\ DOMAIN prog[t] = 1 .. Len(prog[t]) /\ pc[t] \in Nat
      /\ pc[t] <= Len(prog[t]) + 1
  BY ProgramFacts DEF Counted, Typed, InProgram
<1>3. i \in Nat /\ i < pc[t] /\ i \in DOMAIN prog[t]
  BY <1>2
<1>4. id[1] = t /\ id[2] = i /\ id \in Ids
  BY <1>1, <1>3 DEF Ids
<1>5. QED BY <1>1, <1>3, <1>4 DEF IsReq, Req

\* Every request that a tile has issued is in exactly one place of the column,
\* as itself, as a command or as its answer (BankCtrl::tick, DramCtrl::tick).
THEOREM EveryRequestHeldOnce == Spec => []HeldOnce
<1>1. Counted => HeldOnce
  <2> SUFFICES ASSUME Counted, NEW id \in Issued PROVE Holders(id) = 1
    BY DEF HeldOnce
  <2>1. id \in Ids /\ IsReq(id) /\ id[2] < pc[id[1]]
    BY IssuedFacts
  <2>2. QED BY <2>1, HoldersAre DEF Counted, Held
<1>2. QED BY <1>1, CountedAlways, PTL

\* When the idle() of the bank and of the controller and fabric_empty() say
\* that nothing is left, every request has been answered.
THEOREM IdleMeansAnswered == Spec => []IdleIsAnswered
<1>1. Counted => IdleIsAnswered
  <2> SUFFICES ASSUME Counted, Idle, NEW id \in Issued PROVE \E a \in got[id[1]] : a.id = id
    BY DEF IdleIsAnswered
  <2>1. id \in Ids /\ IsReq(id) /\ Total(id) = 1
    BY IssuedFacts DEF Counted, Held
  <2>2. id[1] \in Requesters /\ Link[id[1]] \in Links /\ id # None
    BY <2>1, ReqFacts DEF Counted, Typed
  <2>3. UpN(id) = 0 /\ DownN(id) = 0
    BY <2>2, HitsEmpty DEF UpN, DownN, Idle
  <2>4. CmdN(id) = 0
    <3>1. Hits(nmcQ, {id}) = 0 /\ Hits(pfQ, {id}) = 0
      BY HitsEmpty DEF Idle
    <3>2. Running(nmc, id) = 0 /\ Running(pf, id) = 0
      BY <2>2 DEF Running, Idle
    <3>3. QED BY <3>1, <3>2 DEF CmdN
  <2>5. Flight(Of(id, 0)) = 0
    <3>1. /\ Hits(toDram, Of(id, 0)) = 0 /\ Hits(fromDram, Of(id, 0)) = 0
          /\ Hits(out, Of(id, 0)) = 0 /\ Hits(pending, Whole(Of(id, 0))) = 0
      BY HitsEmpty DEF Idle
    <3>2. InDevice(Of(id, 0)) = {}
      BY DEF InDevice, Idle
    <3>3. QED BY <3>1, <3>2, FS_EmptySet DEF Flight
  <2>6. GotN(id) = 1
    <3>1. GotN(id) \in Nat
      BY <2>1, StageTypes DEF Counted
    <3>2. QED BY <2>1, <2>3, <2>4, <2>5, <3>1 DEF Total
  <2>7. {a \in got[id[1]] : a.id = id} # {}
    BY <2>6, FS_EmptySet DEF GotN
  <2>8. QED BY <2>7
<1>2. QED BY <1>1, CountedAlways, PTL

\* A chunk that comes down the column is one the engine has counted: the
\* exception of prefetch_data ("prefetch outstanding underflow") is never thrown.
THEOREM NeverThrown == Spec => [](thrown = FALSE)
<1>1. Counted => thrown = FALSE
  BY DEF Counted
<1>2. QED BY <1>1, CountedAlways, PTL

-----------------------------------------------------------------------------
(* What a program orders before a request, and what memory keeps.          *)

\* What a request depends on is in the program, which stays.
LEMMA ProgramStays ==
  ASSUME prog' = prog
  PROVE  /\ \A id : Req(id)' = Req(id) /\ (IsReq(id)' <=> IsReq(id))
         /\ \A id : Before(id)' = Before(id)
         /\ \A id, c : Prior(id, c)' = Prior(id, c)
         /\ \A id : Required(id)' = Required(id)
         /\ \A f : Cell(f)' = Cell(f) /\ (is_write(f)' <=> is_write(f))
<1>1. \A id : Req(id)' = Req(id)
  BY DEF Req
<1>2. \A id : Before(id)' = Before(id)
  BY DEF Before
<1>3. \A id, c : Prior(id, c)' = Prior(id, c)
  BY <1>1, <1>2 DEF Prior
<1>4. \A id : Required(id)' = Required(id)
  BY <1>1, <1>3 DEF Required
<1>5. \A f : Cell(f)' = Cell(f) /\ (is_write(f)' <=> is_write(f))
  BY <1>1 DEF Cell, is_write
<1>6. QED BY <1>1, <1>2, <1>3, <1>4, <1>5, PlacesStay

\* Of the requests before one: stores, and commands awaited in between.
LEMMA BeforeFacts ==
  ASSUME TilesTyped, NEW id, IsReq(id), NEW w \in Before(id)
  PROVE  /\ w \in Ids /\ IsReq(w) /\ w[1] = id[1] /\ w[2] \in Nat /\ w[2] < id[2]
         /\ w = <<id[1], w[2]>>
         /\ \/ Req(w).op = "DATA_WRITE"
            \/ /\ Req(w).op \in {"PREFETCH", "REDUCE"}
               /\ \E v \in Nat : /\ v < id[2] /\ v \in DOMAIN prog[id[1]]
                                 /\ prog[id[1]][v].op = "AWAIT"
                                 /\ prog[id[1]][v].of = w[2]
<1>1. /\ id[1] \in Requesters /\ id[2] \in 1 .. Len(prog[id[1]])
      /\ Len(prog[id[1]]) \in Nat /\ DOMAIN prog[id[1]] = 1 .. Len(prog[id[1]])
  BY ReqFacts, ProgramFacts
<1>2. PICK k \in 1 .. id[2] - 1 :
        /\ w = <<id[1], k>>
        /\ \/ prog[id[1]][k].op = "DATA_WRITE"
           \/ /\ prog[id[1]][k].op \in {"PREFETCH", "REDUCE"}
              /\ \E v \in k + 1 .. id[2] - 1 : prog[id[1]][v].op = "AWAIT"
                                               /\ prog[id[1]][v].of = k
  BY DEF Before
<1>3. k \in Nat /\ k < id[2] /\ k \in DOMAIN prog[id[1]]
  BY <1>1
<1>4. w[1] = id[1] /\ w[2] = k /\ w \in Ids /\ Req(w) = prog[id[1]][k]
  BY <1>1, <1>2, <1>3 DEF Ids, Req
<1>5. IsReq(w)
  BY <1>2, <1>3, <1>4 DEF IsReq, Ops
<1>6. \A v \in k + 1 .. id[2] - 1 : v \in Nat /\ v < id[2] /\ v \in DOMAIN prog[id[1]]
  BY <1>1, <1>3
<1>7. QED BY <1>2, <1>3, <1>4, <1>5, <1>6

\* Where the requests that write do so.
LEMMA TargetFacts ==
  ASSUME TilesTyped, NEW w, IsReq(w), Req(w).op # "READ_REQ"
  PROVE  /\ \A c \in ToSet(Req(w).to) : c \in Cells
         /\ Req(w).op = "DATA_WRITE" => ToSet(Req(w).to) = {Req(w).to[1]}
         /\ Req(w).op = "REDUCE" => ToSet(Req(w).to) = {Req(w).to[1]}
         /\ Req(w).op = "PREFETCH" =>
              ToSet(Req(w).to) = {Req(w).to[k] : k \in DOMAIN Req(w).to}
<1>1. CASE Req(w).op \in {"DATA_WRITE", "REDUCE"}
  <2>1. PICK S : S \subseteq Cells /\ Req(w).to \in Seq(S) /\ Len(Req(w).to) = 1
    <3>1. Sram \subseteq Cells /\ Cells \subseteq Cells
      BY DEF Cells
    <3>2. \/ Req(w).to \in Seq(Cells) /\ Len(Req(w).to) = 1
          \/ Req(w).to \in Seq(Sram) /\ Len(Req(w).to) = 1
      BY <1>1, ReqFacts
    <3>3. QED BY <3>1, <3>2
  <2>2. DOMAIN Req(w).to = {1} /\ Req(w).to[1] \in S
    BY <2>1
  <2>3. ToSet(Req(w).to) = {Req(w).to[1]}
    BY <2>2 DEF ToSet
  <2>4. QED BY <1>1, <2>1, <2>2, <2>3
<1>2. CASE Req(w).op = "PREFETCH"
  <2>1. Req(w).to \in Seq(Sram)
    BY <1>2, ReqFacts
  <2>2. \A k \in DOMAIN Req(w).to : Req(w).to[k] \in Sram
    BY <2>1
  <2>3. QED BY <1>2, <2>2 DEF ToSet, Cells
<1>3. Req(w).op \in Ops
  BY DEF IsReq
<1>4. QED BY <1>1, <1>2, <1>3 DEF Ops

\* Memory only gains.
Grows == prog' = prog /\ \A c \in Cells : mem[c] \subseteq mem'[c]

\* A write only adds to a cell.
LEMMA WriteGrows ==
  ASSUME Typed, prog' = prog, NEW c, NEW D, Write(c, D) \/ mem' = mem
  PROVE  Grows
BY DEF Grows, Write, Typed, TilesTyped

\* No step takes anything out of a cell.
LEMMA MemoryGrows ==
  ASSUME Typed, [Next]_vars
  PROVE  Grows
<1>1. CASE UNCHANGED vars
  BY <1>1 DEF vars, tileVars, Grows
<1>2. CASE \/ \E t \in Requesters : Inject(t) \/ Await(t)
           \/ \E l \in Links : Receive(l)
           \/ NmcStart \/ PrefetchStart \/ PrefetchGenerate \/ PrefetchFinish
           \/ Issue \/ (\E x \in device : Callback(x)) \/ Drain
  BY <1>2 DEF Inject, Await, Receive, NmcStart, PrefetchStart, PrefetchGenerate,
     PrefetchFinish, Issue, Callback, Drain, tileVars, Grows
<1>3. CASE Absorb
  <2>1. prog' = prog
    BY <1>3 DEF Absorb, tileVars
  <2>2. \E c, D : Write(c, D) \/ mem' = mem
    BY <1>3 DEF Absorb, PrefetchData
  <2>3. QED BY <2>1, <2>2, WriteGrows
<1>4. CASE \E l \in Links : Serve(l)
  <2>1. PICK l \in Links : Serve(l)
    BY <1>4
  <2>2. PICK f : prog' = prog /\ (Passes(f) \/ Commanded(f) \/ Accessed(f))
    BY <2>1, ServeFacts
  <2>3. \E c, D : Write(c, D) \/ mem' = mem
    BY <2>2 DEF Passes, PassThrough, Commanded, QueueCommand, Accessed, Access
  <2>4. QED BY <2>2, <2>3, WriteGrows
<1>5. CASE NmcFinish
  <2>1. prog' = prog
    BY <1>5 DEF NmcFinish, tileVars
  <2>2. \E c, D : Write(c, D) \/ mem' = mem
    BY <1>5 DEF NmcFinish
  <2>3. QED BY <2>1, <2>2, WriteGrows
<1>6. CASE Ingest
  <2>1. prog' = prog
    BY <1>6 DEF Ingest, tileVars
  <2>2. \E c, D : Write(c, D) \/ mem' = mem
    BY <1>6 DEF Ingest
  <2>3. QED BY <2>1, <2>2, WriteGrows
<1>7. QED BY <1>1, <1>2, <1>3, <1>4, <1>5, <1>6, Steps

\* What is settled stays so.
LEMMA SettledGrows ==
  ASSUME Typed, Grows, NEW w, IsReq(w), Req(w).op # "READ_REQ", Settled(w)
  PROVE  Settled(w)'
<1>1. \A c \in ToSet(Req(w).to) : c \in Cells
  BY TargetFacts DEF Typed
<1>2. Req(w)' = Req(w)
  BY ProgramStays DEF Grows
<1>3. QED BY <1>1, <1>2 DEF Settled, Grows

\* A packet of the column with a store's name is that store.
LEMMA StoreInColumn ==
  ASSUME TilesTyped, NEW f \in ColumnPackets, Req(f.id).op = "DATA_WRITE"
  PROVE  is_write(f) /\ f.chunk = 0 /\ Cell(f) = Req(f.id).to[1] /\ Req(f.id).to[1] \in Dram
<1>1. f.chunk = 0
  BY DEF ColumnPackets
<1>2. QED BY <1>1, ColumnFacts

\* The steps that touch what goes up the column.
LEMMA ColumnSteps ==
  ASSUME Typed, [Next]_vars
  PROVE  toDram' = toDram \/ (\E f \in ColumnPackets : toDram' = Append(toDram, f)) \/ Ingest
<1>1. CASE UNCHANGED vars
  BY <1>1 DEF vars
<1>2. CASE \E l \in Links : Serve(l)
  <2>1. PICK l \in Links : Serve(l)
    BY <1>2
  <2>2. PICK f \in Packets : /\ f.chunk = 0 /\ IsReq(f.id)
                             /\ Passes(f) \/ Commanded(f) \/ Accessed(f)
    BY <2>1, ServeFacts
  <2>3. CASE Passes(f)
    BY <2>2, <2>3 DEF Passes, PassThrough, ColumnPackets
  <2>4. CASE Commanded(f) \/ Accessed(f)
    BY <2>4 DEF Commanded, QueueCommand, Accessed, Access
  <2>5. QED BY <2>2, <2>3, <2>4
<1>3. CASE PrefetchGenerate
  BY <1>3, ChunkTyped DEF PrefetchGenerate
<1>4. CASE ~UNCHANGED vars /\ ~PrefetchGenerate /\ (~\E l \in Links : Serve(l)) /\ ~Ingest
  BY <1>4, Steps DEF Inject, Await, Receive, Absorb, NmcStart, NmcFinish, PrefetchStart,
     PrefetchFinish, Issue, Callback, Drain
<1>5. QED BY <1>1, <1>2, <1>3, <1>4

\* A store on its way up the column gets there before it is lost sight of: it
\* stays behind no more than before, or the controller has written it.
LEMMA OnColumnKept ==
  ASSUME Typed, [Next]_vars, NEW w, IsReq(w), NEW n \in Nat, n <= Len(toDram), OnColumn(w, n)
  PROVE  /\ toDram' = toDram => OnColumn(w, n)'
         /\ (\E f \in ColumnPackets : toDram' = Append(toDram, f)) => OnColumn(w, n)'
         /\ Ingest => Settled(w)' \/ OnColumn(w, n - 1)'
<1>1. toDram \in Seq(ColumnPackets) /\ Grows
  BY MemoryGrows DEF Typed, ColumnTyped
<1>2. Req(w)' = Req(w) /\ Req(w).op = "DATA_WRITE"
  BY <1>1, ProgramStays DEF Grows, OnColumn
<1>3. PICK i \in 1 .. n : toDram[i].id = w
  BY DEF OnColumn
<1>4. Len(toDram) \in Nat /\ i \in 1 .. Len(toDram)
  BY <1>1
<1>5. toDram' = toDram => OnColumn(w, n)'
  BY <1>2, <1>3 DEF OnColumn
<1>6. ASSUME NEW f \in ColumnPackets, toDram' = Append(toDram, f)
      PROVE  OnColumn(w, n)'
  <2>1. toDram'[i] = toDram[i]
    BY <1>1, <1>4, <1>6, AppendFacts
  <2>2. QED BY <1>2, <1>3, <2>1 DEF OnColumn
<1>7. ASSUME Ingest
      PROVE  Settled(w)' \/ OnColumn(w, n - 1)'
  <2>1. toDram # <<>> /\ toDram' = Tail(toDram)
    BY <1>7 DEF Ingest
  <2>2. CASE i = 1
    <3>1. PICK f : f = Head(toDram)
      OBVIOUS
    <3>2. f \in ColumnPackets /\ f.id = w
      BY <1>1, <1>3, <2>1, <2>2, <3>1, TailFacts
    <3>3. is_write(f) /\ Cell(f) = Req(w).to[1] /\ Req(w).to[1] \in Cells
      BY <1>2, <3>2, StoreInColumn, ReqFacts DEF Typed
    <3>4. Write(Req(w).to[1], {w})
      BY <1>7, <3>1, <3>2, <3>3 DEF Ingest
    <3>5. w \in mem'[Req(w).to[1]]
      BY <3>3, <3>4 DEF Write, Typed, TilesTyped
    <3>6. ToSet(Req(w).to) = {Req(w).to[1]}
      BY <1>2, TargetFacts DEF Typed
    <3>7. QED BY <1>2, <3>5, <3>6 DEF Settled
  <2>3. CASE i # 1
    <3>1. i - 1 \in 1 .. n - 1 /\ i - 1 \in 1 .. Len(toDram) - 1
      BY <1>4, <2>3
    <3>2. toDram'[i - 1] = toDram[i]
      BY <1>1, <2>1, <3>1, TailFacts
    <3>3. QED BY <1>2, <1>3, <3>1, <3>2 DEF OnColumn
  <2>4. QED BY <2>2, <2>3
<1>8. QED BY <1>5, <1>6, <1>7

\* What has passed the bank has passed it for good.
LEMMA PassedKept ==
  ASSUME Typed, [Next]_vars, NEW w, IsReq(w), Req(w).op # "READ_REQ", Passed(w)
  PROVE  Passed(w)'
<1>1. Grows
  BY MemoryGrows
<1>2. CASE Settled(w)
  BY <1>1, <1>2, SettledGrows DEF Passed
<1>3. CASE OnColumn(w, Len(toDram))
  <2>1. toDram \in Seq(ColumnPackets) /\ Len(toDram) \in Nat /\ Len(toDram) <= Len(toDram)
    BY DEF Typed, ColumnTyped
  <2>2. PICK n \in Nat : n = Len(toDram)
    BY <2>1
  <2>3. OnColumn(w, n) /\ n <= Len(toDram)
    BY <1>3, <2>1, <2>2
  <2>4. CASE toDram' = toDram
    <3>1. OnColumn(w, n)'
      BY <2>2, <2>3, <2>4, OnColumnKept
    <3>2. QED BY <2>2, <2>4, <3>1 DEF Passed, OnColumn
  <2>5. CASE \E f \in ColumnPackets : toDram' = Append(toDram, f)
    <3>1. OnColumn(w, n)'
      BY <2>2, <2>3, <2>5, OnColumnKept
    <3>2. Len(toDram') = n + 1
      BY <2>1, <2>2, <2>5, AppendFacts
    <3>3. OnColumn(w, Len(toDram))'
      <4>1. \A i \in 1 .. n : i \in 1 .. n + 1
        OBVIOUS
      <4>2. QED BY <3>1, <3>2, <4>1 DEF OnColumn
    <3>4. QED BY <3>3 DEF Passed
  <2>6. CASE Ingest
    <3>1. Settled(w)' \/ OnColumn(w, n - 1)'
      BY <2>2, <2>3, <2>6, OnColumnKept
    <3>2. Len(toDram') = n - 1
      <4>1. toDram # <<>> /\ toDram' = Tail(toDram)
        BY <2>6 DEF Ingest
      <4>2. QED BY <2>1, <2>2, <4>1, TailFacts
    <3>3. QED BY <3>1, <3>2 DEF Passed, OnColumn
  <2>7. QED BY <2>4, <2>5, <2>6, ColumnSteps
<1>4. QED BY <1>2, <1>3 DEF Passed

\* A store that has passed the bank is in memory if its cell is of the bank.
LEMMA BankPrior ==
  ASSUME Typed, NEW id, IsReq(id), NEW c \in Sram, NEW w \in Prior(id, c), Passed(w)
  PROVE  w \in mem[c]
<1>1. w \in Before(id) /\ c \in ToSet(Req(w).to)
  BY DEF Prior
<1>2. IsReq(w) /\ Req(w).op # "READ_REQ"
  BY <1>1, BeforeFacts DEF Typed
<1>3. CASE Settled(w)
  BY <1>1, <1>3 DEF Settled
<1>4. CASE OnColumn(w, Len(toDram))
  <2>1. PICK i \in 1 .. Len(toDram) : toDram[i].id = w
    BY <1>4 DEF OnColumn
  <2>2. toDram[i] \in ColumnPackets /\ Req(w).op = "DATA_WRITE"
    <3>1. toDram \in Seq(ColumnPackets)
      BY DEF Typed, ColumnTyped
    <3>2. QED BY <1>4, <3>1 DEF OnColumn
  <2>3. Req(w).to[1] \in Dram
    BY <2>1, <2>2, StoreInColumn DEF Typed
  <2>4. ToSet(Req(w).to) = {Req(w).to[1]}
    BY <1>2, <2>2, TargetFacts DEF Typed
  <2>5. QED BY <1>1, <2>3, <2>4, ColumnAssumption
<1>5. QED BY <1>3, <1>4 DEF Passed

-----------------------------------------------------------------------------
(* What a program orders before a request stays ahead of it.               *)

\* The tiles' places move with Inject and Await only.
LEMMA PlaceSteps ==
  ASSUME [Next]_vars
  PROVE  UNCHANGED <<prog, pc>> \/ \E t \in Requesters : Inject(t) \/ Await(t)
BY Steps DEF Receive, Serve, Absorb, NmcStart, NmcFinish, PrefetchStart, PrefetchGenerate,
   PrefetchFinish, Ingest, Issue, Callback, Drain, tileVars, vars

\* The up-links move with Inject and Serve only.
LEMMA UpSteps ==
  ASSUME [Next]_vars
  PROVE  up' = up \/ (\E t \in Requesters : Inject(t)) \/ (\E l \in Links : Serve(l))
BY Steps DEF Await, Receive, Absorb, NmcStart, NmcFinish, PrefetchStart, PrefetchGenerate,
   PrefetchFinish, Ingest, Issue, Callback, Drain, vars

\* A store that the bank takes off an up-link has passed.
LEMMA ServedPasses ==
  ASSUME Typed, NEW l \in Links, Serve(l), NEW f, f = Head(up[l]), NEW w, w = f.id,
         Req(w).op = "DATA_WRITE"
  PROVE  Passed(w)'
<1>1. /\ UNCHANGED prog /\ f \in Packets /\ f.chunk = 0 /\ IsReq(f.id) /\ f.id \in Ids
      /\ Passes(f) \/ Commanded(f) \/ Accessed(f)
  BY ServeFacts
<1>2. Req(w)' = Req(w)
  BY <1>1, ProgramStays
<1>3. CASE Passes(f)
  <2>1. toDram' = Append(toDram, f) /\ toDram \in Seq(ColumnPackets) /\ f \in ColumnPackets
    BY <1>1, <1>3 DEF Passes, PassThrough, ColumnPackets, Typed, ColumnTyped
  <2>2. /\ Len(toDram') = Len(toDram) + 1 /\ Len(toDram) \in Nat
        /\ toDram'[Len(toDram) + 1] = f
    BY <2>1, AppendFacts
  <2>3. Len(toDram) + 1 \in 1 .. Len(toDram')
    BY <2>2
  <2>4. OnColumn(w, Len(toDram))'
    BY <1>2, <2>2, <2>3 DEF OnColumn
  <2>5. QED BY <2>4 DEF Passed
<1>4. CASE Commanded(f)
  BY <1>4 DEF Commanded
<1>5. CASE Accessed(f)
  <2>1. Write(Req(w).to[1], {w}) /\ Req(w).to[1] \in Cells
    BY <1>1, <1>5, ReqFacts DEF Accessed, Access, Typed
  <2>2. w \in mem'[Req(w).to[1]]
    BY <2>1 DEF Write, Typed, TilesTyped
  <2>3. ToSet(Req(w).to) = {Req(w).to[1]}
    BY <1>1, TargetFacts DEF Typed
  <2>4. Settled(w)'
    BY <1>2, <2>2, <2>3 DEF Settled
  <2>5. QED BY <2>4 DEF Passed
<1>6. QED BY <1>1, <1>3, <1>4, <1>5

\* A store on an up-link stays behind no more than before, or it passes.
LEMMA OnUpKept ==
  ASSUME Typed, [Next]_vars, NEW l \in Links, NEW w, IsReq(w),
         NEW n \in Nat, n <= Len(up[l]), OnUp(w, l, n)
  PROVE  /\ up'[l] = up[l] => OnUp(w, l, n)'
         /\ (\E f \in Packets : up'[l] = Append(up[l], f)) => OnUp(w, l, n)'
         /\ Serve(l) => Passed(w)' \/ OnUp(w, l, n - 1)'
<1>1. up[l] \in Seq(Packets) /\ Len(up[l]) \in Nat
  BY DEF Typed, LinksTyped
<1>2. Req(w)' = Req(w) /\ Req(w).op = "DATA_WRITE"
  <2>1. prog' = prog
    BY MemoryGrows DEF Grows
  <2>2. QED BY <2>1, ProgramStays DEF OnUp
<1>3. PICK i \in 1 .. n : up[l][i].id = w
  BY DEF OnUp
<1>4. i \in 1 .. Len(up[l])
  BY <1>1
<1>5. up'[l] = up[l] => OnUp(w, l, n)'
  BY <1>2, <1>3 DEF OnUp
<1>6. ASSUME NEW f \in Packets, up'[l] = Append(up[l], f)
      PROVE  OnUp(w, l, n)'
  <2>1. up'[l][i] = up[l][i]
    BY <1>1, <1>4, <1>6, AppendFacts
  <2>2. QED BY <1>2, <1>3, <2>1 DEF OnUp
<1>7. ASSUME Serve(l)
      PROVE  Passed(w)' \/ OnUp(w, l, n - 1)'
  <2>1. up[l] # <<>> /\ up'[l] = Tail(up[l])
    BY <1>7, ServeFacts DEF Typed, LinksTyped
  <2>2. CASE i = 1
    <3>1. PICK f : f = Head(up[l])
      OBVIOUS
    <3>2. f.id = w
      BY <1>1, <1>3, <2>1, <2>2, <3>1, TailFacts
    <3>3. QED BY <1>2, <1>7, <3>1, <3>2, ServedPasses
  <2>3. CASE i # 1
    <3>1. i - 1 \in 1 .. n - 1 /\ i - 1 \in 1 .. Len(up[l]) - 1
      BY <1>1, <1>4, <2>3
    <3>2. up'[l][i - 1] = up[l][i]
      BY <1>1, <2>1, <3>1, TailFacts
    <3>3. QED BY <1>2, <1>3, <3>1, <3>2 DEF OnUp
  <2>4. QED BY <2>2, <2>3
<1>8. QED BY <1>5, <1>6, <1>7

\* What becomes of one up-link in a step.
LEMMA LinkSteps ==
  ASSUME Typed, [Next]_vars, NEW l \in Links
  PROVE  \/ up'[l] = up[l]
         \/ \E t \in Requesters, f \in Packets :
              /\ Inject(t) /\ Link[t] = l /\ f = Flit(<<t, pc[t]>>, 0, {})
              /\ f.id = <<t, pc[t]>> /\ IsReq(f.id) /\ up'[l] = Append(up[l], f)
         \/ Serve(l) /\ up[l] # <<>> /\ up'[l] = Tail(up[l])
<1>1. CASE up' = up
  BY <1>1
<1>2. ASSUME NEW t \in Requesters, Inject(t)
      PROVE  \/ up'[l] = up[l]
             \/ \E f \in Packets :
                  /\ Link[t] = l /\ f = Flit(<<t, pc[t]>>, 0, {})
                  /\ f.id = <<t, pc[t]>> /\ IsReq(f.id) /\ up'[l] = Append(up[l], f)
  <2>1. PICK f : f = Flit(<<t, pc[t]>>, 0, {})
    OBVIOUS
  <2>2. /\ pc[t] <= Len(prog[t]) /\ prog[t][pc[t]].op \in Ops
        /\ up' = [up EXCEPT ![Link[t]] = Append(@, f)]
    BY <1>2, <2>1 DEF Inject
  <2>3. DOMAIN prog[t] = 1 .. Len(prog[t]) /\ pc[t] \in Nat \ {0} /\ Link[t] \in Links
        /\ Len(prog[t]) \in Nat
    BY ProgramFacts DEF Typed
  <2>4. f \in Packets /\ f.id = <<t, pc[t]>>
    BY <2>1, <2>3 DEF Flit, Packets, Ids
  <2>5. IsReq(f.id)
    BY <2>2, <2>3, <2>4 DEF IsReq, Req, Ids
  <2>6. CASE Link[t] = l
    BY <2>1, <2>2, <2>4, <2>5, <2>6 DEF Typed, LinksTyped
  <2>7. CASE Link[t] # l
    BY <2>2, <2>7 DEF Typed, LinksTyped
  <2>8. QED BY <2>6, <2>7
<1>3. ASSUME NEW k \in Links, Serve(k)
      PROVE  up'[l] = up[l] \/ (Serve(l) /\ up[l] # <<>> /\ up'[l] = Tail(up[l]))
  BY <1>3 DEF Serve, Typed, LinksTyped
<1>4. QED BY <1>1, <1>2, <1>3, UpSteps

\* A tile's stores are on their way in order.
LEMMA StoresKept ==
  ASSUME Typed, StoresOk, [Next]_vars
  PROVE  StoresOk'
<1>1. prog' = prog
  BY MemoryGrows DEF Grows
<1>2. ASSUME NEW w \in Ids, NEW l \in Links, IsReq(w), w[2] < pc'[w[1]],
             Req(w).op = "DATA_WRITE", Link[w[1]] = l
      PROVE  (Passed(w) \/ OnUp(w, l, Len(up[l])))'
  <2>1. Req(w)' = Req(w) /\ up[l] \in Seq(Packets) /\ Len(up[l]) \in Nat
        /\ w[1] \in Requesters /\ w[2] \in Nat /\ w = <<w[1], w[2]>>
    BY <1>1, ProgramStays DEF Typed, LinksTyped, Ids
  <2>2. CASE w[2] < pc[w[1]]
    <3>1. Passed(w) \/ OnUp(w, l, Len(up[l]))
      BY <1>2, <2>2 DEF StoresOk
    <3>2. CASE Passed(w)
      BY <1>2, <3>2, PassedKept
    <3>3. CASE OnUp(w, l, Len(up[l]))
      <4>1. PICK n \in Nat : n = Len(up[l])
        BY <2>1
      <4>2. OnUp(w, l, n) /\ n <= Len(up[l])
        BY <3>3, <4>1
      <4>3. CASE up'[l] = up[l]
        <5>1. OnUp(w, l, n)'
          BY <1>2, <4>2, <4>3, OnUpKept
        <5>2. QED BY <4>1, <4>3, <5>1 DEF OnUp
      <4>4. CASE \E f \in Packets : up'[l] = Append(up[l], f)
        <5>1. OnUp(w, l, n)'
          BY <1>2, <4>2, <4>4, OnUpKept
        <5>2. Len(up'[l]) = n + 1
          BY <2>1, <4>1, <4>4, AppendFacts
        <5>3. \A i \in 1 .. n : i \in 1 .. n + 1
          OBVIOUS
        <5>4. QED BY <5>1, <5>2, <5>3 DEF OnUp
      <4>5. CASE Serve(l) /\ up[l] # <<>> /\ up'[l] = Tail(up[l])
        <5>1. Passed(w)' \/ OnUp(w, l, n - 1)'
          BY <1>2, <4>2, <4>5, OnUpKept
        <5>2. Len(up'[l]) = n - 1
          BY <2>1, <4>1, <4>5, TailFacts
        <5>3. QED BY <5>1, <5>2 DEF OnUp
      <4>6. QED BY <4>3, <4>4, <4>5, LinkSteps
    <3>4. QED BY <3>1, <3>2, <3>3
  <2>3. CASE ~(w[2] < pc[w[1]])
    <3>1. PICK t \in Requesters : Inject(t) \/ Await(t)
      BY <1>2, <2>3, PlaceSteps
    <3>2. pc' = [pc EXCEPT ![t] = @ + 1] /\ pc \in [Requesters -> Nat \ {0}]
      BY <3>1 DEF Inject, Await, Typed, TilesTyped
    <3>3. w[1] = t /\ w[2] = pc[t]
      BY <1>2, <2>1, <2>3, <3>2
    <3>4. prog[t][pc[t]].op = "DATA_WRITE"
      BY <1>2, <3>3 DEF Req
    <3>5. Inject(t)
      BY <3>1, <3>4 DEF Await
    <3>6. PICK f : f = Flit(<<t, pc[t]>>, 0, {})
      OBVIOUS
    <3>7. up'[l] = Append(up[l], f) /\ f.id = w /\ f \in Packets
      <4>1. f \in Packets /\ f.id = w
        BY <2>1, <3>3, <3>6, <1>2 DEF Flit, Packets
      <4>2. QED BY <1>2, <3>3, <3>5, <3>6, <4>1 DEF Inject, Typed, LinksTyped
    <3>8. Len(up'[l]) = Len(up[l]) + 1 /\ up'[l][Len(up[l]) + 1] = f
      BY <2>1, <3>7, AppendFacts
    <3>9. Len(up[l]) + 1 \in 1 .. Len(up'[l])
      BY <2>1, <3>8
    <3>10. QED BY <1>2, <2>1, <3>7, <3>8, <3>9 DEF OnUp
  <2>4. QED BY <2>2, <2>3
<1>3. QED BY <1>1, <1>2, ProgramStays DEF StoresOk

\* A command that a tile has waited for is done.
LEMMA AwaitsKept ==
  ASSUME Typed, AwaitsOk, AnswersOk, [Next]_vars
  PROVE  AwaitsOk'
<1>1. prog' = prog /\ Grows
  BY MemoryGrows DEF Grows
<1>2. ASSUME NEW t \in Requesters, NEW i \in Nat, NEW w \in Ids,
             i \in DOMAIN prog[t], i < pc'[t], prog[t][i].op = "AWAIT",
             w = <<t, prog[t][i].of>>, IsReq(w), Req(w).op \in {"PREFETCH", "REDUCE"}
      PROVE  Settled(w)'
  <2>1. Settled(w)
    <3>1. CASE i < pc[t]
      BY <1>2, <3>1 DEF AwaitsOk
    <3>2. CASE ~(i < pc[t])
      <4>1. PICK u \in Requesters : Inject(u) \/ Await(u)
        BY <1>2, <3>2, PlaceSteps
      <4>2. pc' = [pc EXCEPT ![u] = @ + 1] /\ pc \in [Requesters -> Nat \ {0}]
        BY <4>1 DEF Inject, Await, Typed, TilesTyped
      <4>3. u = t /\ i = pc[t]
        BY <1>2, <3>2, <4>2
      <4>4. Await(t)
        BY <1>2, <4>1, <4>3 DEF Inject, Ops
      <4>5. PICK a \in got[t] : a.id = w
        BY <1>2, <4>3, <4>4 DEF Await
      <4>6. a \in Packets /\ IsAnswer(a)
        BY <4>5 DEF Typed, TilesTyped, IsAnswer
      <4>7. Answered(a)
        BY <4>6 DEF AnswersOk
      <4>8. CASE Req(w).op = "REDUCE"
        <5>1. w \in mem[Req(w).to[1]]
          BY <4>5, <4>7, <4>8 DEF Answered
        <5>2. ToSet(Req(w).to) = {Req(w).to[1]}
          BY <1>2, <4>8, TargetFacts DEF Typed
        <5>3. QED BY <5>1, <5>2 DEF Settled
      <4>9. CASE Req(w).op = "PREFETCH"
        <5>1. \A k \in DOMAIN Req(w).to : w \in mem[Req(w).to[k]]
          BY <4>5, <4>7, <4>9 DEF Answered, Delivered
        <5>2. ToSet(Req(w).to) = {Req(w).to[k] : k \in DOMAIN Req(w).to}
          BY <1>2, <4>9, TargetFacts DEF Typed
        <5>3. QED BY <5>1, <5>2 DEF Settled
      <4>10. QED BY <1>2, <4>8, <4>9
    <3>3. QED BY <3>1, <3>2
  <2>2. QED BY <1>1, <1>2, <2>1, SettledGrows
<1>3. QED BY <1>1, <1>2, ProgramStays DEF AwaitsOk

\* What is before a request that a tile issues is ahead of it already.
LEMMA NewOrder ==
  ASSUME Typed, StoresOk, AwaitsOk, NEW t \in Requesters, NEW id, id = <<t, pc[t]>>, IsReq(id),
         NEW w \in Before(id)
  PROVE  Passed(w) \/ OnUp(w, Link[t], Len(up[Link[t]]))
<1>1. /\ w \in Ids /\ IsReq(w) /\ w[1] = t /\ w[2] \in Nat /\ w[2] < pc[t]
      /\ w = <<t, w[2]>>
      /\ \/ Req(w).op = "DATA_WRITE"
         \/ /\ Req(w).op \in {"PREFETCH", "REDUCE"}
            /\ \E v \in Nat : /\ v < pc[t] /\ v \in DOMAIN prog[t]
                              /\ prog[t][v].op = "AWAIT" /\ prog[t][v].of = w[2]
  BY BeforeFacts DEF Typed
<1>2. CASE Req(w).op = "DATA_WRITE"
  BY <1>1, <1>2, ColumnAssumption DEF StoresOk
<1>3. CASE Req(w).op # "DATA_WRITE"
  BY <1>1, <1>3 DEF AwaitsOk, Passed
<1>4. QED BY <1>2, <1>3

\* What is before a request on an up-link has passed, or is ahead of it there.
LEMMA UpOrderKept ==
  ASSUME Typed, StoresOk, AwaitsOk, UpOrder, [Next]_vars
  PROVE  UpOrder'
<1>1. prog' = prog
  BY MemoryGrows DEF Grows
<1>2. ASSUME NEW l \in Links, NEW m \in Nat, NEW id \in Ids, NEW w \in Ids,
             m \in DOMAIN up'[l], up'[l][m].id = id, w \in Before(id)
      PROVE  (Passed(w) \/ OnUp(w, l, m - 1))'
  <2>1. up[l] \in Seq(LinkPackets(l)) /\ up[l] \in Seq(Packets) /\ Len(up[l]) \in Nat
    BY DEF Typed, LinksTyped
  <2>2. ASSUME NEW j \in 1 .. Len(up[l]), up[l][j].id = id
        PROVE  /\ IsReq(id) /\ IsReq(w) /\ Req(w).op # "READ_REQ"
               /\ Passed(w) \/ OnUp(w, l, j - 1)
               /\ Passed(w) => Passed(w)'
    <3>1. up[l][j] \in LinkPackets(l) /\ j \in Nat /\ j \in DOMAIN up[l]
      BY <2>1
    <3>2. IsReq(id)
      BY <2>2, <3>1 DEF LinkPackets
    <3>3. IsReq(w) /\ Req(w).op # "READ_REQ"
      BY <1>2, <3>2, BeforeFacts DEF Typed
    <3>4. Passed(w) \/ OnUp(w, l, j - 1)
      BY <1>2, <2>2, <3>1 DEF UpOrder
    <3>5. Passed(w) => Passed(w)'
      BY <3>3, PassedKept
    <3>6. QED BY <3>2, <3>3, <3>4, <3>5
  <2>3. CASE up'[l] = up[l]
    <3>1. m \in 1 .. Len(up[l]) /\ up[l][m].id = id /\ m - 1 \in Nat /\ m - 1 <= Len(up[l])
      BY <1>2, <2>1, <2>3
    <3>2. CASE Passed(w)
      BY <2>2, <3>1, <3>2
    <3>3. CASE OnUp(w, l, m - 1)
      BY <2>2, <2>3, <3>1, <3>3, OnUpKept
    <3>4. QED BY <2>2, <3>1, <3>2, <3>3
  <2>4. ASSUME NEW t \in Requesters, NEW f \in Packets, Link[t] = l,
               f.id = <<t, pc[t]>>, IsReq(f.id), up'[l] = Append(up[l], f)
        PROVE  (Passed(w) \/ OnUp(w, l, m - 1))'
    <3>1. /\ m \in 1 .. Len(up[l]) + 1 /\ up'[l][Len(up[l]) + 1] = f
          /\ \A i \in 1 .. Len(up[l]) : up'[l][i] = up[l][i]
      BY <1>2, <2>1, <2>4, AppendFacts
    <3>2. m - 1 \in Nat /\ m - 1 <= Len(up[l])
      BY <2>1, <3>1
    <3>3. /\ IsReq(w) /\ Req(w).op # "READ_REQ"
          /\ Passed(w) \/ OnUp(w, l, m - 1)
      <4>1. CASE m \in 1 .. Len(up[l])
        BY <1>2, <2>2, <3>1, <4>1
      <4>2. CASE m = Len(up[l]) + 1
        <5>1. id = <<t, pc[t]>> /\ IsReq(id) /\ m - 1 = Len(up[l])
          BY <1>2, <2>1, <2>4, <3>1, <4>2
        <5>2. IsReq(w) /\ Req(w).op # "READ_REQ"
          BY <1>2, <5>1, BeforeFacts DEF Typed
        <5>3. Passed(w) \/ OnUp(w, l, Len(up[l]))
          BY <1>2, <2>4, <5>1, NewOrder
        <5>4. QED BY <5>1, <5>2, <5>3
      <4>3. QED BY <2>1, <3>1, <4>1, <4>2
    <3>4. CASE Passed(w)
      BY <3>3, <3>4, PassedKept
    <3>5. CASE OnUp(w, l, m - 1)
      BY <2>4, <3>2, <3>3, <3>5, OnUpKept
    <3>6. QED BY <3>3, <3>4, <3>5
  <2>5. CASE Serve(l) /\ up[l] # <<>> /\ up'[l] = Tail(up[l])
    <3>1. /\ m \in 1 .. Len(up[l]) - 1 /\ up'[l][m] = up[l][m + 1]
      BY <1>2, <2>1, <2>5, TailFacts
    <3>2. m + 1 \in 1 .. Len(up[l]) /\ m <= Len(up[l]) /\ (m + 1) - 1 = m
      BY <2>1, <3>1
    <3>4. IsReq(w)
      BY <1>2, <2>2, <3>1, <3>2
    <3>5. CASE Passed(w)
      BY <1>2, <2>2, <3>1, <3>2, <3>5
    <3>6. CASE OnUp(w, l, m)
      BY <2>5, <3>2, <3>4, <3>6, OnUpKept
    <3>7. QED BY <1>2, <2>2, <3>1, <3>2, <3>5, <3>6
  <2>6. QED BY <2>3, <2>4, <2>5, LinkSteps
<1>3. QED BY <1>1, <1>2, ProgramStays DEF UpOrder

\* What the bank takes off an up-link has everything before it passed.
LEMMA HeadIsFree ==
  ASSUME Typed, UpOrder, NEW l \in Links, up[l] # <<>>, NEW f, f = Head(up[l]),
         NEW w \in Before(f.id)
  PROVE  IsReq(f.id) /\ w \in Ids /\ IsReq(w) /\ Req(w).op # "READ_REQ" /\ Passed(w)
<1>1. up[l] \in Seq(LinkPackets(l))
  BY DEF Typed, LinksTyped
<1>2. f = up[l][1] /\ 1 \in DOMAIN up[l] /\ f \in LinkPackets(l)
  BY <1>1, TailFacts
<1>3. IsReq(f.id) /\ f.id \in Ids
  BY <1>2 DEF LinkPackets, IsReq
<1>4. w \in Ids /\ IsReq(w) /\ Req(w).op # "READ_REQ"
  BY <1>3, BeforeFacts DEF Typed
<1>5. Passed(w) \/ OnUp(w, l, 1 - 1)
  BY <1>2, <1>3, <1>4 DEF UpOrder
<1>6. ~OnUp(w, l, 1 - 1)
  BY DEF OnUp
<1>7. QED BY <1>3, <1>4, <1>5, <1>6

\* What the bank sends up the column has everything before it passed.
LEMMA ColumnSends ==
  ASSUME Typed, UpOrder, EngineOrder, [Next]_vars
  PROVE  \/ toDram' = toDram
         \/ \E f \in ColumnPackets :
              toDram' = Append(toDram, f) /\ \A w \in Before(f.id) : Passed(w)
         \/ Ingest
<1>1. CASE UNCHANGED vars
  BY <1>1 DEF vars
<1>2. CASE \E l \in Links : Serve(l)
  <2>1. PICK l \in Links : Serve(l)
    BY <1>2
  <2>2. PICK f \in Packets : /\ f = Head(up[l]) /\ up[l] # <<>> /\ f.chunk = 0 /\ IsReq(f.id)
                             /\ Passes(f) \/ Commanded(f) \/ Accessed(f)
    BY <2>1, ServeFacts
  <2>3. CASE Passes(f)
    <3>1. toDram' = Append(toDram, f) /\ f \in ColumnPackets
      BY <2>2, <2>3 DEF Passes, PassThrough, ColumnPackets
    <3>2. \A w \in Before(f.id) : Passed(w)
      BY <2>2, HeadIsFree
    <3>3. QED BY <3>1, <3>2
  <2>4. CASE Commanded(f) \/ Accessed(f)
    BY <2>4 DEF Commanded, QueueCommand, Accessed, Access
  <2>5. QED BY <2>2, <2>3, <2>4
<1>3. CASE PrefetchGenerate
  <2>1. PICK f \in ColumnPackets : f = Flit(pf.id, pf.next, {})
    BY <1>3, ChunkTyped
  <2>2. toDram' = Append(toDram, f) /\ f.id = pf.id
    BY <1>3, <2>1 DEF PrefetchGenerate, Flit
  <2>3. IsReq(f.id) /\ f.id \in Ids
    BY DEF ColumnPackets, Packets
  <2>4. \A w \in Before(f.id) : w \in Ids
    BY <2>3, BeforeFacts DEF Typed
  <2>5. \A w \in Before(f.id) : Passed(w)
    BY <2>2, <2>3, <2>4 DEF EngineOrder, AtEngine
  <2>6. QED BY <2>2, <2>5
<1>4. CASE ~UNCHANGED vars /\ ~PrefetchGenerate /\ (~\E l \in Links : Serve(l)) /\ ~Ingest
  BY <1>4, Steps DEF Inject, Await, Receive, Absorb, NmcStart, NmcFinish, PrefetchStart,
     PrefetchFinish, Issue, Callback, Drain
<1>5. QED BY <1>1, <1>2, <1>3, <1>4

\* What is before a packet of the column is settled, or ahead of it there.
LEMMA ColumnOrderKept ==
  ASSUME Typed, UpOrder, EngineOrder, ColumnOrder, [Next]_vars
  PROVE  ColumnOrder'
<1>1. prog' = prog /\ Grows
  BY MemoryGrows DEF Grows
<1>2. ASSUME NEW m \in Nat, NEW id \in Ids, NEW w \in Ids,
             m \in DOMAIN toDram', toDram'[m].id = id, w \in Before(id)
      PROVE  (Settled(w) \/ OnColumn(w, m - 1))'
  <2>1. toDram \in Seq(ColumnPackets) /\ Len(toDram) \in Nat
    BY DEF Typed, ColumnTyped
  <2>2. ASSUME NEW j \in 1 .. Len(toDram), toDram[j].id = id
        PROVE  /\ IsReq(w) /\ Req(w).op # "READ_REQ"
               /\ Settled(w) \/ OnColumn(w, j - 1)
    <3>1. toDram[j] \in ColumnPackets /\ j \in Nat /\ j \in DOMAIN toDram
      BY <2>1
    <3>2. IsReq(id)
      BY <2>2, <3>1 DEF ColumnPackets
    <3>3. IsReq(w) /\ Req(w).op # "READ_REQ"
      BY <1>2, <3>2, BeforeFacts DEF Typed
    <3>4. QED BY <1>2, <2>2, <3>1, <3>3 DEF ColumnOrder
  <2>3. CASE toDram' = toDram
    <3>1. m \in 1 .. Len(toDram) /\ toDram[m].id = id /\ m - 1 \in Nat /\ m - 1 <= Len(toDram)
      BY <1>2, <2>1, <2>3
    <3>2. CASE Settled(w)
      BY <1>1, <2>2, <3>1, <3>2, SettledGrows
    <3>3. CASE OnColumn(w, m - 1)
      BY <2>2, <2>3, <3>1, <3>3, OnColumnKept
    <3>4. QED BY <2>2, <3>1, <3>2, <3>3
  <2>4. ASSUME NEW f \in ColumnPackets, toDram' = Append(toDram, f),
               \A v \in Before(f.id) : Passed(v)
        PROVE  (Settled(w) \/ OnColumn(w, m - 1))'
    <3>1. /\ m \in 1 .. Len(toDram) + 1 /\ toDram'[Len(toDram) + 1] = f
          /\ \A i \in 1 .. Len(toDram) : toDram'[i] = toDram[i]
      BY <1>2, <2>1, <2>4, AppendFacts
    <3>2. m - 1 \in Nat /\ m - 1 <= Len(toDram)
      BY <2>1, <3>1
    <3>3. /\ IsReq(w) /\ Req(w).op # "READ_REQ"
          /\ Settled(w) \/ OnColumn(w, m - 1)
      <4>1. CASE m \in 1 .. Len(toDram)
        BY <1>2, <2>2, <3>1, <4>1
      <4>2. CASE m = Len(toDram) + 1
        <5>1. f.id = id /\ IsReq(id) /\ m - 1 = Len(toDram)
          BY <1>2, <2>1, <3>1, <4>2 DEF ColumnPackets
        <5>2. IsReq(w) /\ Req(w).op # "READ_REQ"
          BY <1>2, <5>1, BeforeFacts DEF Typed
        <5>3. Settled(w) \/ OnColumn(w, Len(toDram))
          BY <1>2, <2>4, <5>1 DEF Passed
        <5>4. QED BY <5>1, <5>2, <5>3
      <4>3. QED BY <2>1, <3>1, <4>1, <4>2
    <3>4. CASE Settled(w)
      BY <1>1, <3>3, <3>4, SettledGrows
    <3>5. CASE OnColumn(w, m - 1)
      BY <2>4, <3>2, <3>3, <3>5, OnColumnKept
    <3>6. QED BY <3>3, <3>4, <3>5
  <2>5. CASE Ingest
    <3>1. toDram # <<>> /\ toDram' = Tail(toDram)
      BY <2>5 DEF Ingest
    <3>2. m \in 1 .. Len(toDram) - 1 /\ toDram'[m] = toDram[m + 1]
      BY <1>2, <2>1, <3>1, TailFacts
    <3>3. m + 1 \in 1 .. Len(toDram) /\ m <= Len(toDram) /\ (m + 1) - 1 = m
      BY <2>1, <3>2
    <3>4. /\ IsReq(w) /\ Req(w).op # "READ_REQ"
          /\ Settled(w) \/ OnColumn(w, m)
      BY <1>2, <2>2, <3>2, <3>3
    <3>5. CASE Settled(w)
      BY <1>1, <3>4, <3>5, SettledGrows
    <3>6. CASE OnColumn(w, m)
      BY <2>5, <3>3, <3>4, <3>6, OnColumnKept
    <3>7. QED BY <3>4, <3>5, <3>6
  <2>6. QED BY <2>3, <2>4, <2>5, ColumnSends
<1>3. QED BY <1>1, <1>2, ProgramStays DEF ColumnOrder

\* A command comes to an engine from an up-link.
LEMMA EngineSteps ==
  ASSUME Typed, [Next]_vars, NEW id \in Ids, AtEngine(id)'
  PROVE  AtEngine(id) \/ \E l \in Links : up[l] # <<>> /\ Head(up[l]).id = id
<1>0. id # None
  BY IdIsSome
<1>1. /\ nmcQ \in Seq(Commands("REDUCE")) /\ pfQ \in Seq(Commands("PREFETCH"))
      /\ pf \in [id : Commands("PREFETCH") \cup {None}, next : Nat \ {0}, outstanding : Nat]
  BY DEF Typed, EnginesTyped
<1>2. CASE UNCHANGED <<nmcQ, pfQ>> /\ pf'.id = pf.id
  BY <1>2 DEF AtEngine
<1>3. CASE NmcStart
  <2>1. nmcQ # <<>> /\ nmcQ' = Tail(nmcQ) /\ pfQ' = pfQ /\ pf' = pf
    BY <1>3 DEF NmcStart
  <2>2. \A i \in DOMAIN nmcQ' : i + 1 \in DOMAIN nmcQ /\ nmcQ'[i] = nmcQ[i + 1]
    BY <1>1, <2>1, TailFacts
  <2>3. QED BY <2>1, <2>2 DEF AtEngine
<1>4. CASE PrefetchStart
  <2>1. pfQ # <<>> /\ pfQ' = Tail(pfQ) /\ nmcQ' = nmcQ /\ pf'.id = Head(pfQ)
    BY <1>1, <1>4 DEF PrefetchStart
  <2>2. /\ \A i \in DOMAIN pfQ' : i + 1 \in DOMAIN pfQ /\ pfQ'[i] = pfQ[i + 1]
        /\ 1 \in DOMAIN pfQ /\ pfQ[1] = Head(pfQ)
    BY <1>1, <2>1, TailFacts
  <2>3. QED BY <2>1, <2>2 DEF AtEngine
<1>5. CASE PrefetchFinish
  <2>1. UNCHANGED <<nmcQ, pfQ>> /\ pf'.id = None
    BY <1>1, <1>5 DEF PrefetchFinish
  <2>2. QED BY <1>0, <2>1 DEF AtEngine
<1>6. ASSUME NEW l \in Links, Serve(l)
      PROVE  AtEngine(id) \/ (up[l] # <<>> /\ Head(up[l]).id = id)
  <2>1. PICK f : /\ f = Head(up[l]) /\ up[l] # <<>> /\ pf' = pf /\ IsReq(f.id) /\ f.id \in Ids
                 /\ Passes(f) \/ Commanded(f) \/ Accessed(f)
    BY <1>6, ServeFacts
  <2>2. CASE Passes(f) \/ Accessed(f)
    <3>1. UNCHANGED <<nmcQ, pfQ>>
      BY <2>2 DEF Passes, PassThrough, Accessed, Access
    <3>2. QED BY <2>1, <3>1 DEF AtEngine
  <2>3. CASE Commanded(f)
    <3>1. nmcQ \in Seq(Ids) /\ pfQ \in Seq(Ids)
      BY <1>1 DEF Commands
    <3>2. \/ nmcQ' = Append(nmcQ, f.id) /\ pfQ' = pfQ
          \/ pfQ' = Append(pfQ, f.id) /\ nmcQ' = nmcQ
      BY <2>3 DEF Commanded, QueueCommand
    <3>3. CASE nmcQ' = Append(nmcQ, f.id) /\ pfQ' = pfQ
      <4>1. \A i \in DOMAIN nmcQ' : nmcQ'[i] = f.id \/ (i \in DOMAIN nmcQ /\ nmcQ'[i] = nmcQ[i])
        BY <2>1, <3>1, <3>3, AppendFacts
      <4>2. QED BY <2>1, <3>3, <4>1 DEF AtEngine
    <3>4. CASE pfQ' = Append(pfQ, f.id) /\ nmcQ' = nmcQ
      <4>1. \A i \in DOMAIN pfQ' : pfQ'[i] = f.id \/ (i \in DOMAIN pfQ /\ pfQ'[i] = pfQ[i])
        BY <2>1, <3>1, <3>4, AppendFacts
      <4>2. QED BY <2>1, <3>4, <4>1 DEF AtEngine
    <3>5. QED BY <3>2, <3>3, <3>4
  <2>4. QED BY <2>1, <2>2, <2>3
<1>7. CASE Absorb
  <2>1. UNCHANGED <<nmcQ, pfQ>> /\ pf'.id = pf.id
    BY <1>1, <1>7 DEF Absorb, PrefetchData
  <2>2. QED BY <1>2, <2>1
<1>8. CASE PrefetchGenerate
  <2>1. UNCHANGED <<nmcQ, pfQ>> /\ pf'.id = pf.id
    BY <1>1, <1>8 DEF PrefetchGenerate
  <2>2. QED BY <1>2, <2>1
<1>9. CASE \/ UNCHANGED vars
           \/ \E t \in Requesters : Inject(t) \/ Await(t)
           \/ \E l \in Links : Receive(l)
           \/ NmcFinish
           \/ Ingest \/ Issue \/ (\E x \in device : Callback(x)) \/ Drain
  <2>1. UNCHANGED <<nmcQ, pfQ, pf>>
    BY <1>9 DEF vars, bankVars, Inject, Await, Receive, NmcFinish, Ingest, Issue, Callback, Drain
  <2>2. QED BY <1>2, <2>1
<1>10. QED BY <1>3, <1>4, <1>5, <1>6, <1>7, <1>8, <1>9, Steps

\* A command at its engine is a request.
LEMMA AtEngineIsReq ==
  ASSUME Typed, NEW id \in Ids, AtEngine(id)
  PROVE  IsReq(id)
<1>1. id # None
  BY IdIsSome
<1>2. /\ nmcQ \in Seq(Commands("REDUCE")) /\ pfQ \in Seq(Commands("PREFETCH"))
      /\ pf.id \in Commands("PREFETCH") \cup {None}
  BY DEF Typed, EnginesTyped
<1>3. id \in Commands("REDUCE") \/ id \in Commands("PREFETCH")
  BY <1>1, <1>2 DEF AtEngine
<1>4. QED BY <1>3 DEF Commands

\* What is before a command at its engine has passed.
LEMMA EngineOrderKept ==
  ASSUME Typed, UpOrder, EngineOrder, [Next]_vars
  PROVE  EngineOrder'
<1>1. prog' = prog
  BY MemoryGrows DEF Grows
<1>2. ASSUME NEW id \in Ids, NEW w \in Ids, AtEngine(id)', w \in Before(id)
      PROVE  Passed(w)'
  <2>1. IsReq(w) /\ Req(w).op # "READ_REQ" /\ Passed(w)
    <3>1. CASE AtEngine(id)
      <4>1. IsReq(id)
        BY <3>1, AtEngineIsReq
      <4>2. IsReq(w) /\ Req(w).op # "READ_REQ"
        BY <1>2, <4>1, BeforeFacts DEF Typed
      <4>3. QED BY <1>2, <3>1, <4>2 DEF EngineOrder
    <3>2. CASE \E l \in Links : up[l] # <<>> /\ Head(up[l]).id = id
      <4>1. PICK l \in Links : up[l] # <<>> /\ Head(up[l]).id = id
        BY <3>2
      <4>2. PICK f : f = Head(up[l])
        OBVIOUS
      <4>3. QED BY <1>2, <4>1, <4>2, HeadIsFree
    <3>3. QED BY <1>2, <3>1, <3>2, EngineSteps
  <2>2. QED BY <2>1, PassedKept
<1>3. QED BY <1>1, <1>2, ProgramStays DEF EngineOrder

\* A packet comes to the controller from the column.
LEMMA ControllerSteps ==
  ASSUME Typed, [Next]_vars, NEW f \in Packets, AtController(f)'
  PROVE  AtController(f) \/ (Ingest /\ toDram # <<>> /\ Head(toDram) = f)
<1>1. pending \in Seq(Entries) /\ device \in SUBSET Works
  BY DEF Typed, ColumnTyped, Entries, Works
<1>2. CASE UNCHANGED <<pending, device>>
  BY <1>2 DEF AtController
<1>3. CASE Ingest
  <2>1. PICK g : /\ g = Head(toDram) /\ toDram # <<>> /\ device' = device
                 /\ pending' = Append(pending, [flit |-> g, next_line |-> 0])
    BY <1>3 DEF Ingest
  <2>2. g \in ColumnPackets
    BY <2>1, TailFacts DEF Typed, ColumnTyped
  <2>3. PICK e : e = [flit |-> g, next_line |-> 0]
    OBVIOUS
  <2>4. e \in Entries /\ e.flit = g /\ pending' = Append(pending, e)
    BY <2>1, <2>2, <2>3 DEF Entries
  <2>5. \A i \in DOMAIN pending' : pending'[i] = e \/ (i \in DOMAIN pending /\ pending'[i] = pending[i])
    BY <1>1, <2>4, AppendFacts
  <2>6. QED BY <1>3, <2>1, <2>4, <2>5 DEF AtController
<1>4. CASE Issue
  <2>1. PICK p : /\ p = Head(pending) /\ pending # <<>> /\ p \in Entries
                 /\ \/ device' = device \cup {[flit |-> p.flit, lines |-> 1, remaining |-> Lines]}
                    \/ device' = MoreLines(p.flit)
                 /\ \/ pending' = Tail(pending)
                    \/ pending' = [pending EXCEPT ![1] =
                                     [flit |-> p.flit, next_line |-> p.next_line + 1]]
    BY <1>4, IssueFacts
  <2>2. p = pending[1] /\ 1 \in DOMAIN pending
    BY <1>1, <2>1, TailFacts
  <2>3. \A i \in DOMAIN pending' : \E j \in DOMAIN pending : pending'[i].flit = pending[j].flit
    <3>1. CASE pending' = Tail(pending)
      <4>1. \A i \in DOMAIN pending' : i + 1 \in DOMAIN pending /\ pending'[i] = pending[i + 1]
        BY <1>1, <2>1, <3>1, TailFacts
      <4>2. QED BY <4>1
    <3>2. CASE pending' = [pending EXCEPT ![1] =
                             [flit |-> p.flit, next_line |-> p.next_line + 1]]
      BY <2>2, <3>2
    <3>3. QED BY <2>1, <3>1, <3>2
  <2>4. \A x \in device' : x.flit = p.flit \/ \E y \in device : x.flit = y.flit
    <3>1. CASE device' = device \cup {[flit |-> p.flit, lines |-> 1, remaining |-> Lines]}
      BY <3>1
    <3>2. CASE device' = MoreLines(p.flit)
      BY <1>1, <3>2 DEF MoreLines, Works
    <3>3. QED BY <2>1, <3>1, <3>2
  <2>5. QED BY <2>2, <2>3, <2>4 DEF AtController
<1>5. ASSUME NEW x \in device, Callback(x)
      PROVE  AtController(f)
  <2>1. pending' = pending /\ \A y \in device' : \E z \in device : y.flit = z.flit
    BY <1>5, CallbackFacts
  <2>2. QED BY <2>1 DEF AtController
<1>6. CASE /\ ~Ingest /\ ~Issue /\ ~\E x \in device : Callback(x)
  <2>1. UNCHANGED <<pending, device>>
    BY <1>6, Steps DEF vars, dramVars, Inject, Await, Receive, Serve, Absorb, NmcStart, NmcFinish,
       PrefetchStart, PrefetchGenerate, PrefetchFinish, Drain
  <2>2. QED BY <1>2, <2>1
<1>7. QED BY <1>3, <1>4, <1>5, <1>6

\* Before(f.id) is in memory, and so is f if it is a write.
Done(f) == (\A w \in Before(f.id) : Settled(w)) /\ (is_write(f) => Settled(f.id))

\* What is done stays done.
LEMMA DoneKept ==
  ASSUME Typed, Grows, NEW f \in ColumnPackets, Done(f)
  PROVE  Done(f)'
<1>1. IsReq(f.id) /\ (is_write(f) => Req(f.id).op = "DATA_WRITE")
  BY ColumnFacts DEF Typed
<1>2. ASSUME NEW w \in Before(f.id) PROVE Settled(w)'
  BY <1>1, BeforeFacts, SettledGrows DEF Done, Typed
<1>3. is_write(f) => Settled(f.id)'
  BY <1>1, SettledGrows DEF Done
<1>4. Before(f.id)' = Before(f.id) /\ (is_write(f)' <=> is_write(f))
  BY ProgramStays DEF Grows
<1>5. QED BY <1>2, <1>3, <1>4 DEF Done

\* A packet at the controller is one of the column.
LEMMA AtControllerIs ==
  ASSUME Typed, NEW f, AtController(f)
  PROVE  f \in ColumnPackets
<1>1. pending \in Seq(Entries) /\ device \in SUBSET Works
  BY DEF Typed, ColumnTyped, Entries, Works
<1>2. CASE \E i \in DOMAIN pending : pending[i].flit = f
  <2>1. PICK i \in DOMAIN pending : pending[i].flit = f
    BY <1>2
  <2>2. pending[i] \in Entries
    BY <1>1, <2>1
  <2>3. QED BY <2>1, <2>2 DEF Entries
<1>3. CASE \E x \in device : x.flit = f
  BY <1>1, <1>3 DEF Works
<1>4. QED BY <1>2, <1>3 DEF AtController

\* What the controller has accepted is ready to be answered.
LEMMA BeyondKept ==
  ASSUME Typed, ColumnOrder, Beyond, [Next]_vars
  PROVE  Beyond'
<1>1. prog' = prog /\ Grows
  BY MemoryGrows DEF Grows
<1>2. ASSUME NEW f \in Packets, AtController(f)'
      PROVE  Done(f)'
  <2>1. CASE AtController(f)
    <3>1. Done(f)
      BY <1>2, <2>1 DEF Beyond, Done
    <3>2. QED BY <1>1, <2>1, <3>1, AtControllerIs, DoneKept
  <2>2. CASE Ingest /\ toDram # <<>> /\ Head(toDram) = f
    <3>1. toDram \in Seq(ColumnPackets)
      BY DEF Typed, ColumnTyped
    <3>2. f \in ColumnPackets /\ f = toDram[1] /\ 1 \in DOMAIN toDram
      BY <2>2, <3>1, TailFacts
    <3>3. IsReq(f.id) /\ f.id \in Ids /\ Cell(f) \in Cells
          /\ (is_write(f) => Req(f.id).op = "DATA_WRITE" /\ Cell(f) = Req(f.id).to[1])
      BY <3>2, ColumnFacts DEF Typed
    <3>4. ASSUME NEW w \in Before(f.id) PROVE Settled(w)'
      <4>1. w \in Ids /\ IsReq(w) /\ Req(w).op # "READ_REQ"
        BY <3>3, BeforeFacts DEF Typed
      <4>2. Settled(w) \/ OnColumn(w, 1 - 1)
        BY <3>2, <3>3, <4>1 DEF ColumnOrder
      <4>3. ~OnColumn(w, 1 - 1)
        BY DEF OnColumn
      <4>4. QED BY <1>1, <4>1, <4>2, <4>3, SettledGrows
    <3>5. is_write(f) => Settled(f.id)'
      <4>1. SUFFICES ASSUME is_write(f) PROVE Settled(f.id)'
        OBVIOUS
      <4>2. Write(Req(f.id).to[1], {f.id}) /\ Req(f.id).to[1] \in Cells
        BY <2>2, <3>3, <4>1 DEF Ingest
      <4>3. f.id \in mem'[Req(f.id).to[1]]
        BY <4>2 DEF Write, Typed, TilesTyped
      <4>4. ToSet(Req(f.id).to) = {Req(f.id).to[1]} /\ Req(f.id)' = Req(f.id)
        BY <1>1, <3>3, <4>1, TargetFacts, ProgramStays DEF Typed
      <4>5. QED BY <4>3, <4>4 DEF Settled
    <3>6. Before(f.id)' = Before(f.id) /\ (is_write(f)' <=> is_write(f))
      BY <1>1, ProgramStays
    <3>7. QED BY <3>4, <3>5, <3>6 DEF Done
  <2>3. QED BY <1>2, <2>1, <2>2, ControllerSteps
<1>3. QED BY <1>2 DEF Beyond, Done

-----------------------------------------------------------------------------
(* What is read and made is true.                                          *)

\* An answer comes out of the device.
LEMMA DownSteps ==
  ASSUME Typed, [Next]_vars, NEW f \in Packets, ComesDown(f)'
  PROVE  ComesDown(f) \/ \E x \in device : /\ Callback(x) /\ x.flit \in ColumnPackets
                                           /\ f \in ColumnPackets
                                           /\ f.id = x.flit.id /\ f.chunk = x.flit.chunk
                                           /\ ~is_write(f) => f.data = mem[Cell(f)]
<1>1. out \in Seq(ColumnPackets) /\ fromDram \in Seq(ColumnPackets)
  BY DEF Typed, ColumnTyped
<1>2. ASSUME NEW x \in device, Callback(x)
      PROVE  \/ ComesDown(f)
             \/ /\ Callback(x) /\ x.flit \in ColumnPackets /\ f \in ColumnPackets
                /\ f.id = x.flit.id /\ f.chunk = x.flit.chunk
                /\ ~is_write(f) => f.data = mem[Cell(f)]
  <2>1. fromDram' = fromDram /\ x.flit \in ColumnPackets
    BY <1>2, CallbackFacts
  <2>2. CASE out' = out
    BY <2>1, <2>2 DEF ComesDown
  <2>3. ASSUME NEW g \in ColumnPackets, out' = Append(out, g), g.id = x.flit.id,
               g.chunk = x.flit.chunk, ~is_write(g) => g.data = mem[Cell(g)]
        PROVE  \/ ComesDown(f)
               \/ f = g
    <3>1. \A i \in DOMAIN out' : out'[i] = g \/ (i \in DOMAIN out /\ out'[i] = out[i])
      BY <1>1, <2>3, AppendFacts
    <3>2. QED BY <2>1, <3>1 DEF ComesDown
  <2>4. QED BY <1>2, <2>1, <2>2, <2>3, CallbackFacts
<1>3. CASE Drain
  <2>1. out # <<>> /\ out' = Tail(out) /\ fromDram' = Append(fromDram, Head(out))
    BY <1>3 DEF Drain
  <2>2. \A i \in DOMAIN out' : i + 1 \in DOMAIN out /\ out'[i] = out[i + 1]
    BY <1>1, <2>1, TailFacts
  <2>3. Head(out) \in ColumnPackets /\ 1 \in DOMAIN out /\ out[1] = Head(out)
    BY <1>1, <2>1, TailFacts
  <2>4. \A i \in DOMAIN fromDram' : fromDram'[i] = Head(out)
                                    \/ (i \in DOMAIN fromDram /\ fromDram'[i] = fromDram[i])
    BY <1>1, <2>1, <2>3, AppendFacts
  <2>5. QED BY <2>2, <2>3, <2>4 DEF ComesDown
<1>4. CASE Absorb
  <2>1. fromDram # <<>> /\ fromDram' = Tail(fromDram) /\ out' = out
    BY <1>4 DEF Absorb, dramVars
  <2>2. \A i \in DOMAIN fromDram' : i + 1 \in DOMAIN fromDram /\ fromDram'[i] = fromDram[i + 1]
    BY <1>1, <2>1, TailFacts
  <2>3. QED BY <2>1, <2>2 DEF ComesDown
<1>5. CASE ~Drain /\ ~Absorb /\ ~\E x \in device : Callback(x)
  <2>1. UNCHANGED <<out, fromDram>>
    BY <1>5, Steps DEF vars, dramVars, Inject, Await, Receive, Serve, NmcStart, NmcFinish,
       PrefetchStart, PrefetchGenerate, PrefetchFinish, Ingest, Issue
  <2>2. QED BY <2>1 DEF ComesDown
<1>6. QED BY <1>2, <1>3, <1>4, <1>5

\* A read has seen what is before it.
LEMMA ReadsKept ==
  ASSUME Typed, Beyond, ReadsOk, [Next]_vars
  PROVE  ReadsOk'
<1>1. prog' = prog /\ Grows
  BY MemoryGrows DEF Grows
<1>2. ASSUME NEW f \in Packets, ComesDown(f)'
      PROVE  /\ is_write(f) => Settled(f.id)'
             /\ ~is_write(f) => Prior(f.id, Cell(f)) \subseteq f.data
  <2>1. CASE ComesDown(f)
    <3>1. f \in ColumnPackets
      <4>1. out \in Seq(ColumnPackets) /\ fromDram \in Seq(ColumnPackets)
        BY DEF Typed, ColumnTyped
      <4>2. QED BY <2>1, <4>1 DEF ComesDown
    <3>2. IsReq(f.id) /\ (is_write(f) => Req(f.id).op = "DATA_WRITE")
      BY <3>1, ColumnFacts DEF Typed
    <3>3. /\ is_write(f) => Settled(f.id)
          /\ ~is_write(f) => Prior(f.id, Cell(f)) \subseteq f.data
      BY <2>1 DEF ReadsOk
    <3>4. QED BY <1>1, <3>2, <3>3, SettledGrows
  <2>2. ASSUME NEW x \in device, x.flit \in ColumnPackets, f \in ColumnPackets,
               f.id = x.flit.id, f.chunk = x.flit.chunk, ~is_write(f) => f.data = mem[Cell(f)]
        PROVE  /\ is_write(f) => Settled(f.id)'
               /\ ~is_write(f) => Prior(f.id, Cell(f)) \subseteq f.data
    <3>1. x.flit \in Packets /\ AtController(x.flit)
      BY <2>2 DEF ColumnPackets, AtController
    <3>2. /\ \A w \in Before(f.id) : Settled(w)
          /\ is_write(x.flit) => Settled(f.id)
      BY <2>2, <3>1 DEF Beyond
    <3>3. (is_write(f) <=> is_write(x.flit)) /\ IsReq(f.id)
          /\ (is_write(f) => Req(f.id).op = "DATA_WRITE")
      BY <2>2, ColumnFacts DEF Typed
    <3>4. is_write(f) => Settled(f.id)'
      BY <1>1, <3>2, <3>3, SettledGrows
    <3>5. \A w \in Prior(f.id, Cell(f)) : w \in mem[Cell(f)]
      BY <3>2 DEF Prior, Settled
    <3>6. QED BY <2>2, <3>4, <3>5
  <2>3. QED BY <1>2, <2>1, <2>2, DownSteps
<1>3. ASSUME NEW f \in Packets
      PROVE  /\ is_write(f)' <=> is_write(f)
             /\ Prior(f.id, Cell(f))' = Prior(f.id, Cell(f))
  <2>1. PICK c : c = Cell(f)
    OBVIOUS
  <2>2. Cell(f)' = c /\ (is_write(f)' <=> is_write(f)) /\ Prior(f.id, c)' = Prior(f.id, c)
    BY <1>1, <2>1, ProgramStays
  <2>3. Prior(f.id, Cell(f))' = Prior(f.id, c)'
    BY <2>1, <2>2 DEF Prior
  <2>4. QED BY <2>1, <2>2, <2>3
<1>4. QED BY <1>2, <1>3 DEF ReadsOk

\* The near-memory engine makes its result of what is before its command.
LEMMA NmcKept ==
  ASSUME Typed, EngineOrder, NmcOk, [Next]_vars
  PROVE  NmcOk'
<1>1. prog' = prog /\ Grows
  BY MemoryGrows DEF Grows
<1>2. ASSUME NEW id \in Ids, nmc'.id = id
      PROVE  IF nmc'.staged # {} THEN {id} \cup Required(id) \subseteq nmc'.staged
                                 ELSE {id} \cup Required(id) \subseteq mem'[Req(id).to[1]]
  <2>1. id # None
    BY IdIsSome
  <2>2. ASSUME nmc.id = id
        PROVE  IsReq(id) /\ Req(id).to[1] \in Cells /\ Req(id).op = "REDUCE"
    <3>1. id \in Commands("REDUCE")
      BY <2>1, <2>2 DEF Typed, EnginesTyped
    <3>2. QED BY <3>1, ReqFacts DEF Commands, Typed, Cells
  <2>3. CASE NmcStart
    <3>1. /\ nmcQ # <<>> /\ id = Head(nmcQ)
          /\ nmc'.staged = {id} \cup UNION {mem[c] : c \in ToSet(Req(id).from)}
      BY <1>2, <2>3 DEF NmcStart
    <3>2. id \in Commands("REDUCE") /\ 1 \in DOMAIN nmcQ /\ nmcQ[1] = id
      BY <3>1, TailFacts DEF Typed, EnginesTyped
    <3>3. AtEngine(id) /\ IsReq(id) /\ Req(id).from \in Seq(Sram)
      BY <3>2, ReqFacts DEF AtEngine, Commands, Typed
    <3>4. ASSUME NEW c \in ToSet(Req(id).from), NEW w \in Prior(id, c)
          PROVE  w \in mem[c]
      <4>1. c \in Sram
        BY <3>3 DEF ToSet
      <4>2. w \in Before(id) /\ w \in Ids
        BY <3>3, BeforeFacts DEF Prior, Typed
      <4>3. Passed(w)
        BY <3>3, <4>2 DEF EngineOrder
      <4>4. QED BY <3>3, <4>1, <4>3, BankPrior
    <3>5. Required(id) \subseteq nmc'.staged
      BY <3>1, <3>4 DEF Required
    <3>6. QED BY <3>1, <3>5
  <2>4. CASE NmcFinish
    <3>0. nmc \in [id : Commands("REDUCE") \cup {None}, staged : SUBSET Ids]
      BY DEF Typed, EnginesTyped
    <3>1. ~CanSendDown(nmc.id)
      <4>1. ASSUME CanSendDown(nmc.id) PROVE FALSE
        <5>1. nmc' = [id |-> None, staged |-> {}]
          BY <2>4, <4>1 DEF NmcFinish
        <5>2. QED BY <1>2, <2>1, <5>1
      <4>2. QED BY <4>1
    <3>2. nmc.staged # {} /\ nmc' = [nmc EXCEPT !.staged = {}]
          /\ Write(Req(nmc.id).to[1], nmc.staged)
      BY <2>4, <3>1 DEF NmcFinish
    <3>7. nmc'.staged = {} /\ nmc.id = id
      BY <1>2, <3>0, <3>2
    <3>3. {id} \cup Required(id) \subseteq nmc.staged
      BY <3>2, <3>7 DEF NmcOk
    <3>4. nmc.staged \subseteq mem'[Req(id).to[1]]
      BY <2>2, <3>2, <3>7 DEF Write, Typed, TilesTyped
    <3>5. QED BY <3>7, <3>3, <3>4
  <2>5. CASE nmc' = nmc
    <3>1. IF nmc.staged # {} THEN {id} \cup Required(id) \subseteq nmc.staged
                             ELSE {id} \cup Required(id) \subseteq mem[Req(id).to[1]]
      BY <1>2, <2>5 DEF NmcOk
    <3>2. mem[Req(id).to[1]] \subseteq mem'[Req(id).to[1]]
      BY <1>1, <1>2, <2>2, <2>5 DEF Grows
    <3>3. QED BY <2>5, <3>1, <3>2
  <2>6. CASE ~NmcStart /\ ~NmcFinish
    <3>1. nmc' = nmc
      BY <2>6, Steps DEF vars, bankVars, Inject, Await, Receive, Serve, Absorb, PrefetchStart,
         PrefetchGenerate, PrefetchFinish, Ingest, Issue, Callback, Drain
    <3>2. QED BY <2>5, <3>1
  <2>7. QED BY <2>3, <2>4, <2>6
<1>3. \A id : Required(id)' = Required(id) /\ Req(id)' = Req(id)
  BY <1>1, ProgramStays
<1>4. QED BY <1>2, <1>3 DEF NmcOk

\* What a prefetch has delivered stays in the bank.
LEMMA DeliveredGrows ==
  ASSUME Typed, Grows, NEW id, IsReq(id), Req(id).op = "PREFETCH",
         NEW k \in DOMAIN Req(id).to, Delivered(id, k)
  PROVE  Delivered(id, k)'
<1>1. Req(id).to[k] \in Cells
  BY ReqFacts DEF Typed, Cells
<1>2. PICK c : c = Req(id).from[k]
  OBVIOUS
<1>3. Req(id)' = Req(id) /\ Prior(id, c)' = Prior(id, c)
  BY ProgramStays DEF Grows
<1>4. {id} \cup Prior(id, c) \subseteq mem'[Req(id).to[k]]
  BY <1>1, <1>2 DEF Grows, Delivered
<1>5. Req(id).from[k]' = c
  BY <1>2, <1>3
<1>6. Prior(id, Req(id).from[k])' = Prior(id, c)
  BY <1>3, <1>5 DEF Prior
<1>7. QED BY <1>3, <1>4, <1>6 DEF Delivered

\* A chunk that ends in the bank is delivered.
LEMMA AbsorbDelivers ==
  ASSUME Typed, Chunks, ReadsOk, Absorb, NEW f, f = Head(fromDram), to_bank(f), prog' = prog
  PROVE  Delivered(f.id, f.chunk)'
<1>1. f \in ColumnPackets /\ PrefetchData(f)
  BY AbsorbFlights
<1>2. f \in Packets /\ IsReq(f.id) /\ f.chunk \in Nat
  BY <1>1, ColumnFacts DEF Typed
<1>3. f.chunk # 0
  BY DEF to_bank
<1>4. /\ ~is_write(f) /\ Cell(f) = Req(f.id).from[f.chunk] /\ Req(f.id).op = "PREFETCH"
      /\ f.chunk \in 1 .. Len(Req(f.id).from)
  BY <1>1, <1>3, ColumnFacts DEF Typed
<1>5. Req(f.id).to[f.chunk] \in Cells
  <2>1. f.chunk \in DOMAIN Req(f.id).to /\ Req(f.id).to \in Seq(Sram)
    BY <1>2, <1>4, ReqFacts DEF Typed
  <2>2. QED BY <2>1 DEF Cells
<1>6. ComesDown(f)
  <2>1. fromDram # <<>> /\ fromDram \in Seq(ColumnPackets)
    BY DEF Absorb, Typed, ColumnTyped
  <2>2. 1 \in DOMAIN fromDram /\ fromDram[1] = f
    BY <2>1, TailFacts
  <2>3. QED BY <2>2 DEF ComesDown
<1>7. PICK c : c = Cell(f)
  OBVIOUS
<1>8. Prior(f.id, c) \subseteq f.data
  BY <1>2, <1>4, <1>6, <1>7 DEF ReadsOk
<1>9. f.data \cup {f.id} \subseteq mem'[Req(f.id).to[f.chunk]]
  BY <1>1, <1>5 DEF PrefetchData, Write, Typed, TilesTyped
<1>10. Req(f.id)' = Req(f.id) /\ Prior(f.id, c)' = Prior(f.id, c)
  BY ProgramStays
<1>11. Req(f.id).from[f.chunk]' = c
  BY <1>4, <1>7, <1>10
<1>12. Prior(f.id, Req(f.id).from[f.chunk])' = Prior(f.id, c)
  BY <1>10, <1>11 DEF Prior
<1>13. QED BY <1>8, <1>9, <1>10, <1>12 DEF Delivered

\* A chunk of the running prefetch is on its way or delivered.
LEMMA PrefetchKept ==
  ASSUME Typed, Chunks, ReadsOk, PrefetchOk, [Next]_vars
  PROVE  PrefetchOk'
<1>1. prog' = prog /\ Grows
  BY MemoryGrows DEF Grows
<1>0. ASSUME NEW i \in Ids PROVE i # None
  <2>1. i = <<i[1], i[2]>>
    BY DEF Ids
  <2>2. QED BY <2>1 DEF None
<1>2. ASSUME NEW id \in Ids, NEW k \in Nat \ {0}, pf'.id = id, k < pf'.next,
             Flight(Of(id, k))' = 0
      PROVE  Delivered(id, k)'
  <2>1. id # None
    BY <1>0
  <2>2. ASSUME pf.id = id, k < pf.next, Flight(Of(id, k)) = 0
        PROVE  Delivered(id, k)'
    <3>1. id \in Commands("PREFETCH") /\ pf.next <= Len(Req(id).from) + 1 /\ pf.next \in Nat
      BY <2>1, <2>2 DEF Typed, EnginesTyped
    <3>2. IsReq(id) /\ Req(id).op = "PREFETCH"
      BY <3>1 DEF Commands
    <3>3. Req(id).to \in Seq(Sram) /\ Len(Req(id).from) = Len(Req(id).to)
      BY <3>2, ReqFacts DEF Typed
    <3>4. k \in DOMAIN Req(id).to
      BY <2>2, <3>1, <3>3
    <3>5. Delivered(id, k)
      BY <2>2 DEF PrefetchOk
    <3>6. QED BY <1>1, <3>2, <3>4, <3>5, DeliveredGrows
  <2>3. CASE PrefetchStart
    <3>1. pf'.next = 1
      BY <2>3 DEF PrefetchStart, Typed, EnginesTyped
    <3>2. QED BY <1>2, <3>1
  <2>4. CASE PrefetchFinish
    <3>1. pf'.id = None
      BY <2>4 DEF PrefetchFinish, Typed, EnginesTyped
    <3>2. QED BY <1>2, <2>1, <3>1
  <2>5. CASE PrefetchGenerate
    <3>1. PICK n : n = pf.next
      OBVIOUS
    <3>2. /\ pf'.id = pf.id /\ pf'.next = n + 1 /\ n \in Nat \ {0}
          /\ Flight(Of(id, k))' = IF id = pf.id /\ k = n THEN 1 ELSE Flight(Of(id, k))
      BY <2>5, <3>1, GenerateFlights
    <3>3. k # n /\ Flight(Of(id, k)) = 0
      BY <1>2, <3>2
    <3>4. k < n
      BY <1>2, <3>2, <3>3
    <3>5. QED BY <1>2, <2>2, <3>1, <3>2, <3>3, <3>4
  <2>6. CASE Absorb
    <3>1. PICK f : f = Head(fromDram)
      OBVIOUS
    <3>2. CASE ~to_bank(f)
      <4>1. pf' = pf /\ Flight(Of(id, k))' = Flight(Of(id, k))
        BY <2>6, <3>1, <3>2, AbsorbFlights
      <4>2. QED BY <1>2, <2>2, <4>1
    <3>3. CASE to_bank(f)
      <4>1. /\ pf'.id = pf.id /\ pf'.next = pf.next
            /\ Flight(Of(id, k))' = IF id = f.id /\ k = f.chunk THEN 0 ELSE Flight(Of(id, k))
        BY <2>6, <3>1, <3>3, AbsorbFlights
      <4>2. CASE id = f.id /\ k = f.chunk
        <5>1. Delivered(f.id, f.chunk)'
          BY <1>1, <2>6, <3>1, <3>3, AbsorbDelivers
        <5>2. QED BY <4>2, <5>1 DEF Delivered
      <4>3. CASE ~(id = f.id /\ k = f.chunk)
        BY <1>2, <2>2, <4>1, <4>3
      <4>4. QED BY <4>2, <4>3
    <3>4. QED BY <3>2, <3>3
  <2>7. Flight(Of(id, k)) <= 1
    BY DEF Chunks
  <2>8. CASE UNCHANGED vars
    <3>1. UNCHANGED <<toDram, fromDram, out, pending, device, pf>>
      BY <2>8 DEF vars, bankVars, dramVars
    <3>2. Flight(Of(id, k))' = Flight(Of(id, k))
      BY <3>1, SameCounts
    <3>3. QED BY <1>2, <2>2, <3>1, <3>2
  <2>9. CASE \/ \E t \in Requesters : Inject(t) \/ Await(t)
             \/ \E l \in Links : Receive(l) \/ Serve(l)
             \/ NmcStart \/ NmcFinish
             \/ Ingest \/ Issue \/ (\E x \in device : Callback(x)) \/ Drain
    <3>1. pf' = pf /\ Flight(Of(id, k))' = Flight(Of(id, k))
      BY <2>7, <2>9, OtherFlights
    <3>2. QED BY <1>2, <2>2, <3>1
  <2>10. QED BY <2>3, <2>4, <2>5, <2>6, <2>8, <2>9, Steps
<1>3. QED BY <1>2 DEF PrefetchOk

-----------------------------------------------------------------------------
(* What an answer says.                                                    *)

\* What an answer has to say after a step.
LEMMA AnswerNow ==
  ASSUME prog' = prog, NEW a,
         Req(a.id).op = "DATA_WRITE" => a.id \in mem'[Req(a.id).to[1]],
         Req(a.id).op = "READ_REQ" => Required(a.id) \subseteq a.data,
         Req(a.id).op = "REDUCE" => {a.id} \cup Required(a.id) \subseteq mem'[Req(a.id).to[1]],
         Req(a.id).op = "PREFETCH" => \A k \in DOMAIN Req(a.id).to : Delivered(a.id, k)'
  PROVE  Answered(a)'
<1>1. Req(a.id)' = Req(a.id) /\ Required(a.id)' = Required(a.id)
  BY ProgramStays
<1>2. QED BY <1>1 DEF Answered

\* An answer that was true is true.
LEMMA AnsweredGrows ==
  ASSUME Typed, Grows, NEW a, IsReq(a.id), Answered(a)
  PROVE  Answered(a)'
<1>1. prog' = prog
  BY DEF Grows
<1>2. /\ Req(a.id).op = "DATA_WRITE" => Req(a.id).to[1] \in Cells
      /\ Req(a.id).op = "REDUCE" => Req(a.id).to[1] \in Cells
  BY ReqFacts DEF Typed, Cells
<1>3. Req(a.id).op = "DATA_WRITE" => a.id \in mem'[Req(a.id).to[1]]
  BY <1>2 DEF Answered, Grows
<1>4. Req(a.id).op = "REDUCE" => {a.id} \cup Required(a.id) \subseteq mem'[Req(a.id).to[1]]
  BY <1>2 DEF Answered, Grows
<1>5. Req(a.id).op = "PREFETCH" => \A k \in DOMAIN Req(a.id).to : Delivered(a.id, k)'
  BY DeliveredGrows DEF Answered
<1>6. Req(a.id).op = "READ_REQ" => Required(a.id) \subseteq a.data
  BY DEF Answered
<1>7. QED BY <1>1, <1>3, <1>4, <1>5, <1>6, AnswerNow

\* The one cell a read asks for.
LEMMA ReadOne ==
  ASSUME TilesTyped, NEW id, IsReq(id), Req(id).op = "READ_REQ"
  PROVE  Required(id) = Prior(id, Req(id).from[1]) /\ Req(id).from[1] \in Cells
<1>1. Req(id).from \in Seq(Cells) /\ Len(Req(id).from) = 1 /\ Req(id).from[1] \in Cells
  BY ReqFacts
<1>2. DOMAIN Req(id).from = {1}
  BY <1>1
<1>3. ToSet(Req(id).from) = {Req(id).from[1]}
  BY <1>2 DEF ToSet
<1>4. QED BY <1>1, <1>3 DEF Required

\* An answer is of a request, and the tile of that request has a link.
LEMMA AnswerIsReq ==
  ASSUME Typed, NEW a \in Packets, IsAnswer(a)
  PROVE  IsReq(a.id)
<1>1. ASSUME NEW t \in Requesters, a \in got[t]
      PROVE  IsReq(a.id)
  BY <1>1 DEF Typed, TilesTyped, TilePackets
<1>2. ASSUME NEW l \in Links, NEW i \in DOMAIN down[l], down[l][i] = a
      PROVE  IsReq(a.id)
  <2>1. down[l] \in Seq(LinkPackets(l))
    BY DEF Typed, LinksTyped
  <2>2. a \in LinkPackets(l)
    BY <1>2, <2>1
  <2>3. QED BY <2>2 DEF LinkPackets
<1>3. QED BY <1>1, <1>2 DEF IsAnswer

\* One answer more.
LEMMA SendDownAnswers ==
  ASSUME Typed, NEW f \in Packets, IsReq(f.id), SendDown(f), got' = got, NEW a, IsAnswer(a)'
  PROVE  IsAnswer(a) \/ a = f
<1>1. CASE \E t \in Requesters : a \in got'[t]
  BY <1>1 DEF IsAnswer
<1>2. ASSUME NEW l \in Links, NEW i \in DOMAIN down'[l], down'[l][i] = a
      PROVE  IsAnswer(a) \/ a = f
  <2>1. Link[f.id[1]] \in Links
    BY ReqFacts DEF Typed
  <2>2. down[l] \in Seq(Packets) /\ down \in [Links -> Seq(Packets)]
    BY DEF Typed, LinksTyped
  <2>3. CASE l = Link[f.id[1]]
    <3>1. down'[l] = Append(down[l], f)
      BY <2>2, <2>3 DEF SendDown
    <3>2. \A j \in DOMAIN down'[l] : down'[l][j] = f
                                    \/ (j \in DOMAIN down[l] /\ down'[l][j] = down[l][j])
      BY <2>2, <3>1, AppendFacts
    <3>3. QED BY <1>2, <3>2 DEF IsAnswer
  <2>4. CASE l # Link[f.id[1]]
    <3>1. down'[l] = down[l]
      BY <2>2, <2>4 DEF SendDown
    <3>2. QED BY <1>2, <3>1 DEF IsAnswer
  <2>5. QED BY <2>3, <2>4
<1>3. QED BY <1>1, <1>2 DEF IsAnswer

\* No answer more.
LEMMA ReceiveAnswers ==
  ASSUME Typed, NEW l \in Links, Receive(l), NEW a, IsAnswer(a)'
  PROVE  IsAnswer(a)
<1>1. down[l] \in Seq(Packets) /\ down[l] # <<>> /\ down' = [down EXCEPT ![l] = Tail(@)]
  BY DEF Receive, Typed, LinksTyped
<1>2. Head(down[l]) = down[l][1] /\ 1 \in DOMAIN down[l]
  BY <1>1, TailFacts
<1>3. ASSUME NEW t \in Requesters, a \in got'[t]
      PROVE  IsAnswer(a)
  <2>1. a \in got[t] \/ a = Head(down[l])
    BY <1>3 DEF Receive, Typed, TilesTyped
  <2>2. QED BY <1>2, <2>1 DEF IsAnswer
<1>4. ASSUME NEW m \in Links, NEW i \in DOMAIN down'[m], down'[m][i] = a
      PROVE  IsAnswer(a)
  <2>1. CASE m = l
    <3>1. down'[m] = Tail(down[l])
      BY <1>1, <2>1 DEF Typed, LinksTyped
    <3>2. i + 1 \in DOMAIN down[l] /\ down'[m][i] = down[l][i + 1]
      <4>1. /\ DOMAIN down[l] = 1 .. Len(down[l]) /\ Len(down[l]) \in Nat
            /\ DOMAIN Tail(down[l]) = 1 .. Len(down[l]) - 1
            /\ \A j \in 1 .. Len(down[l]) - 1 : Tail(down[l])[j] = down[l][j + 1]
        BY <1>1, TailFacts
      <4>2. i \in 1 .. Len(down[l]) - 1
        BY <3>1, <4>1
      <4>3. QED BY <3>1, <4>1, <4>2
    <3>3. QED BY <1>4, <3>2 DEF IsAnswer
  <2>2. CASE m # l
    <3>1. down'[m] = down[m]
      BY <1>1, <2>2 DEF Typed, LinksTyped
    <3>2. QED BY <1>4, <3>1 DEF IsAnswer
  <2>3. QED BY <2>1, <2>2
<1>5. QED BY <1>3, <1>4 DEF IsAnswer

\* The bank sends on what the DRAM has answered.
LEMMA AbsorbAnswers ==
  ASSUME Typed, ReadsOk, prog' = prog, Grows, Absorb, NEW a \in Packets, IsAnswer(a)'
  PROVE  IsAnswer(a) \/ Answered(a)'
<1>1. PICK f : f = Head(fromDram)
  OBVIOUS
<1>2. fromDram # <<>> /\ fromDram \in Seq(ColumnPackets) /\ got' = got
  BY DEF Absorb, tileVars, Typed, ColumnTyped
<1>3. f \in ColumnPackets /\ 1 \in DOMAIN fromDram /\ fromDram[1] = f
  BY <1>1, <1>2, TailFacts
<1>4. f \in Packets /\ IsReq(f.id) /\ f.chunk \in Nat
  BY <1>3, ColumnFacts DEF Typed
<1>5. CASE to_bank(f)
  <2>1. down' = down
    BY <1>1, <1>5 DEF Absorb
  <2>2. QED BY <1>2, <2>1 DEF IsAnswer
<1>6. CASE ~to_bank(f)
  <2>1. SendDown(f)
    BY <1>1, <1>6 DEF Absorb
  <2>2. SUFFICES ASSUME a = f PROVE Answered(a)'
    BY <1>2, <1>4, <2>1, SendDownAnswers
  <2>3. f.chunk = 0
    BY <1>4, <1>6 DEF to_bank
  <2>4. /\ is_write(f) <=> Req(f.id).op = "DATA_WRITE"
        /\ ~is_write(f) => Req(f.id).op = "READ_REQ" /\ Cell(f) = Req(f.id).from[1]
    BY <1>3, <2>3, ColumnFacts DEF Typed
  <2>5. ComesDown(f)
    BY <1>3 DEF ComesDown
  <2>6. CASE is_write(f)
    <3>1. Settled(f.id)
      BY <1>4, <2>5, <2>6 DEF ReadsOk
    <3>2. ToSet(Req(f.id).to) = {Req(f.id).to[1]} /\ Req(f.id).to[1] \in Cells
      BY <1>4, <2>4, <2>6, TargetFacts, ReqFacts DEF Typed
    <3>3. f.id \in mem'[Req(f.id).to[1]]
      BY <3>1, <3>2 DEF Settled, Grows
    <3>4. QED BY <2>2, <2>4, <2>6, <3>3, AnswerNow
  <2>7. CASE ~is_write(f)
    <3>1. Prior(f.id, Req(f.id).from[1]) \subseteq f.data
      BY <1>4, <2>4, <2>5, <2>7 DEF ReadsOk
    <3>2. Required(f.id) \subseteq f.data
      BY <1>4, <2>4, <2>7, <3>1, ReadOne DEF Typed
    <3>3. QED BY <2>2, <2>4, <2>7, <3>2, AnswerNow
  <2>8. QED BY <2>6, <2>7
<1>7. QED BY <1>5, <1>6

\* The bank answers a request to its own cells at once.
LEMMA ServeAnswers ==
  ASSUME Typed, UpOrder, prog' = prog, NEW l \in Links, Serve(l), NEW a \in Packets, IsAnswer(a)'
  PROVE  IsAnswer(a) \/ Answered(a)'
<1>1. PICK f : f = Head(up[l])
  OBVIOUS
<1>2. /\ up[l] # <<>> /\ got' = got /\ f \in Packets /\ f.chunk = 0 /\ IsReq(f.id)
      /\ Passes(f) \/ Commanded(f) \/ Accessed(f)
  BY <1>1, ServeFacts
<1>3. CASE Passes(f) \/ Commanded(f)
  <2>1. down' = down
    BY <1>3 DEF Passes, PassThrough, Commanded, QueueCommand
  <2>2. QED BY <1>2, <2>1 DEF IsAnswer
<1>4. CASE Accessed(f)
  <2>1. CASE Req(f.id).op = "DATA_WRITE"
    <3>1. SendDown(f) /\ Write(Req(f.id).to[1], {f.id}) /\ Req(f.id).to[1] \in Cells
      BY <1>2, <1>4, <2>1, ReqFacts DEF Accessed, Access, Typed
    <3>2. f.id \in mem'[Req(f.id).to[1]]
      BY <3>1 DEF Write, Typed, TilesTyped
    <3>3. Answered(f)'
      BY <2>1, <3>2, AnswerNow
    <3>4. IsAnswer(a) \/ a = f
      BY <1>2, <3>1, SendDownAnswers
    <3>5. QED BY <3>3, <3>4
  <2>2. CASE Req(f.id).op = "READ_REQ"
    <3>1. PICK c : c = Req(f.id).from[1]
      OBVIOUS
    <3>2. c \in Cells /\ Required(f.id) = Prior(f.id, c)
      BY <1>2, <2>2, <3>1, ReadOne DEF Typed
    <3>3. c \in Sram
      BY <1>4, <2>2, <3>1, <3>2 DEF Accessed, IsDram, Cells
    <3>4. \A w \in Prior(f.id, c) : w \in mem[c]
      <4>1. TAKE w \in Prior(f.id, c)
      <4>2. w \in Before(f.id)
        BY DEF Prior
      <4>3. Passed(w)
        BY <1>1, <1>2, <4>2, HeadIsFree
      <4>4. QED BY <1>2, <3>3, <4>3, BankPrior
    <3>5. PICK g : g = [f EXCEPT !.data = mem[c]]
      OBVIOUS
    <3>6. SendDown(g) /\ mem[c] \in SUBSET Ids
      BY <1>4, <2>2, <3>1, <3>2, <3>5 DEF Accessed, Access, Typed, TilesTyped
    <3>7. g \in Packets /\ g.id = f.id /\ g.data = mem[c]
      BY <1>2, <3>5, <3>6 DEF Packets
    <3>8. Required(g.id) \subseteq g.data
      BY <3>2, <3>4, <3>7
    <3>9. Answered(g)'
      BY <2>2, <3>7, <3>8, AnswerNow
    <3>10. IsAnswer(a) \/ a = g
      BY <1>2, <3>6, <3>7, SendDownAnswers
    <3>11. QED BY <3>9, <3>10
  <2>3. QED BY <1>4, <2>1, <2>2 DEF Accessed
<1>5. QED BY <1>2, <1>3, <1>4

\* The near-memory engine's token says that its result is in the bank.
LEMMA NmcAnswers ==
  ASSUME Typed, NmcOk, prog' = prog, NmcFinish, NEW a \in Packets, IsAnswer(a)'
  PROVE  IsAnswer(a) \/ Answered(a)'
<1>1. PICK id : id = nmc.id
  OBVIOUS
<1>2. /\ id # None /\ got' = got
      /\ IF nmc.staged # {} THEN Write(Req(id).to[1], nmc.staged) ELSE mem' = mem
      /\ SendDown(Flit(id, 0, {})) \/ down' = down
  BY <1>1 DEF NmcFinish, tileVars
<1>3. id \in Commands("REDUCE") /\ nmc.staged \in SUBSET Ids
  BY <1>1, <1>2 DEF Typed, EnginesTyped
<1>4. id \in Ids /\ IsReq(id) /\ Req(id).op = "REDUCE" /\ Req(id).to[1] \in Cells
  BY <1>3, ReqFacts DEF Typed, Commands, Cells
<1>5. CASE down' = down
  BY <1>2, <1>5 DEF IsAnswer
<1>6. CASE SendDown(Flit(id, 0, {}))
  <2>1. PICK f : f = Flit(id, 0, {})
    OBVIOUS
  <2>2. f \in Packets /\ f.id = id /\ SendDown(f)
    BY <1>4, <1>6, <2>1 DEF Flit, Packets
  <2>3. {id} \cup Required(id) \subseteq mem'[Req(id).to[1]]
    <3>1. CASE nmc.staged # {}
      <4>1. {id} \cup Required(id) \subseteq nmc.staged
        BY <1>1, <1>4, <3>1 DEF NmcOk
      <4>2. nmc.staged \subseteq mem'[Req(id).to[1]]
        BY <1>2, <1>4, <3>1 DEF Write, Typed, TilesTyped
      <4>3. QED BY <4>1, <4>2
    <3>2. CASE nmc.staged = {}
      <4>1. {id} \cup Required(id) \subseteq mem[Req(id).to[1]]
        BY <1>1, <1>4, <3>2 DEF NmcOk
      <4>2. QED BY <1>2, <3>2, <4>1
    <3>3. QED BY <3>1, <3>2
  <2>4. Answered(f)'
    BY <1>4, <2>2, <2>3, AnswerNow
  <2>5. IsAnswer(a) \/ a = f
    BY <1>2, <1>4, <2>2, SendDownAnswers
  <2>6. QED BY <2>4, <2>5
<1>7. QED BY <1>2, <1>5, <1>6

\* The prefetch engine's token says that all its chunks are in the bank.
LEMMA PrefetchAnswers ==
  ASSUME Typed, Chunks, PrefetchOk, Grows, PrefetchFinish, NEW a \in Packets, IsAnswer(a)'
  PROVE  IsAnswer(a) \/ Answered(a)'
<1>1. PICK id : id = pf.id
  OBVIOUS
<1>2. /\ id # None /\ got' = got /\ pf_gen_done /\ pf.outstanding = 0
      /\ SendDown(Flit(id, 0, {})) /\ prog' = prog
  BY <1>1 DEF PrefetchFinish, tileVars
<1>3. id \in Commands("PREFETCH") /\ pf.next \in Nat \ {0}
  BY <1>1, <1>2 DEF Typed, EnginesTyped
<1>4. id \in Ids /\ IsReq(id) /\ Req(id).op = "PREFETCH"
  BY <1>3 DEF Commands
<1>5. /\ Req(id).from \in Seq(Dram) /\ Req(id).to \in Seq(Sram)
      /\ Len(Req(id).from) = Len(Req(id).to)
  BY <1>4, ReqFacts DEF Typed
<1>6. ASSUME NEW k \in DOMAIN Req(id).to
      PROVE  Delivered(id, k)'
  <2>1. k \in Nat \ {0} /\ k <= Len(Req(id).to) /\ Len(Req(id).to) \in Nat
    BY <1>5
  <2>2. pf.next > Len(Req(id).from)
    BY <1>1, <1>2 DEF pf_gen_done
  <2>3. k < pf.next
    BY <1>3, <1>5, <2>1, <2>2
  <2>4. Flight(Of(id, k)) = 0
    BY <1>2, <1>4, <2>1, NoneFlying
  <2>5. Delivered(id, k)
    BY <1>1, <1>4, <2>1, <2>3, <2>4 DEF PrefetchOk
  <2>6. QED BY <1>4, <2>5, DeliveredGrows
<1>7. PICK f : f = Flit(id, 0, {})
  OBVIOUS
<1>8. f \in Packets /\ f.id = id /\ SendDown(f)
  BY <1>2, <1>4, <1>7 DEF Flit, Packets
<1>9. Answered(f)'
  <2>1. \A k \in DOMAIN Req(f.id).to : Delivered(f.id, k)'
    BY <1>6, <1>8 DEF Delivered
  <2>2. QED BY <1>2, <1>4, <1>8, <2>1, AnswerNow
<1>10. IsAnswer(a) \/ a = f
  BY <1>2, <1>4, <1>8, SendDownAnswers
<1>11. QED BY <1>9, <1>10

\* Every answer is true when it is sent, and stays so.
LEMMA AnswersKept ==
  ASSUME Typed, Chunks, UpOrder, ReadsOk, NmcOk, PrefetchOk, AnswersOk, [Next]_vars
  PROVE  AnswersOk'
<1>1. prog' = prog /\ Grows
  BY MemoryGrows DEF Grows
<1>2. ASSUME NEW a \in Packets, IsAnswer(a)'
      PROVE  Answered(a)'
  <2>1. CASE IsAnswer(a)
    <3>1. IsReq(a.id) /\ Answered(a)
      BY <2>1, AnswerIsReq DEF AnswersOk
    <3>2. QED BY <1>1, <3>1, AnsweredGrows
  <2>2. IsAnswer(a) \/ Answered(a)'
    <3>1. CASE UNCHANGED <<got, down>>
      BY <1>2, <3>1 DEF IsAnswer
    <3>2. CASE ~UNCHANGED <<got, down>>
      <4>1. \/ \E l \in Links : Receive(l) \/ Serve(l)
            \/ Absorb \/ NmcFinish \/ PrefetchFinish
        BY <3>2, Steps DEF vars, tileVars, Inject, Await, NmcStart, PrefetchStart,
           PrefetchGenerate, Ingest, Issue, Callback, Drain
      <4>2. QED BY <1>1, <1>2, <4>1, ReceiveAnswers, ServeAnswers, AbsorbAnswers, NmcAnswers,
                  PrefetchAnswers
    <3>3. QED BY <3>1, <3>2
  <2>3. QED BY <2>1, <2>2
<1>3. Packets' = Packets
  BY DEF Packets
<1>4. QED BY <1>2, <1>3 DEF AnswersOk

\* What the order and the answers rest on holds from the start.
LEMMA InitOrdered == Init => Ordered /\ Made
<1> SUFFICES ASSUME Init PROVE Ordered /\ Made
  OBVIOUS
<1>1. Typed
  BY InitCounted DEF Counted
<1>2. StoresOk
  <2>1. \A w \in Ids : IsReq(w) => ~(w[2] < pc[w[1]])
    <3>1. SUFFICES ASSUME NEW w \in Ids, IsReq(w) PROVE ~(w[2] < pc[w[1]])
      OBVIOUS
    <3>2. w[1] \in Requesters /\ w[2] \in 1 .. Len(prog[w[1]]) /\ pc[w[1]] = 1
      BY <1>1, <3>1, ReqFacts DEF Init, Typed
    <3>3. Len(prog[w[1]]) \in Nat
      BY <1>1, <3>2, ProgramFacts DEF Typed
    <3>4. QED BY <3>2, <3>3
  <2>2. QED BY <2>1 DEF StoresOk
<1>3. AwaitsOk
  <2>1. ASSUME NEW t \in Requesters, NEW i \in Nat, i \in DOMAIN prog[t], i < pc[t]
        PROVE  FALSE
    <3>1. DOMAIN prog[t] = 1 .. Len(prog[t]) /\ pc[t] = 1
      BY <1>1, ProgramFacts DEF Init, Typed
    <3>2. QED BY <2>1, <3>1
  <2>2. QED BY <2>1 DEF AwaitsOk
<1>4. UpOrder /\ ColumnOrder /\ EngineOrder /\ Beyond
  <2>1. UpOrder
    BY DEF Init, UpOrder
  <2>2. ColumnOrder
    BY DEF Init, ColumnOrder
  <2>3. EngineOrder
    BY DEF Init, EngineOrder, AtEngine, Ids, None
  <2>4. Beyond
    BY DEF Init, Beyond, AtController
  <2>5. QED BY <2>1, <2>2, <2>3, <2>4
<1>5. ReadsOk /\ NmcOk /\ PrefetchOk /\ AnswersOk
  <2>1. ReadsOk
    BY DEF Init, ReadsOk, ComesDown
  <2>2. \A id \in Ids : id # None
    BY IdIsSome
  <2>3. NmcOk
    BY <2>2 DEF Init, NmcOk
  <2>4. PrefetchOk
    BY <2>2 DEF Init, PrefetchOk
  <2>5. AnswersOk
    BY DEF Init, AnswersOk, IsAnswer
  <2>6. QED BY <2>1, <2>3, <2>4, <2>5
<1>6. QED BY <1>2, <1>3, <1>4, <1>5 DEF Ordered, Made

\* The whole invariant: the counts, the order and the answers.
IInv == Counted /\ Ordered /\ Made

\* IInv holds in every reachable state.
THEOREM Inductive == Spec => []IInv
<1>1. Init => IInv
  BY InitCounted, InitOrdered DEF IInv
<1>2. IInv /\ [Next]_vars => IInv'
  <2> SUFFICES ASSUME IInv, [Next]_vars PROVE IInv'
    OBVIOUS
  <2>1. Typed /\ Chunks /\ Counted'
    BY CountedKept DEF IInv, Counted
  <2>2. Ordered'
    BY <2>1, StoresKept, AwaitsKept, UpOrderKept, ColumnOrderKept, EngineOrderKept, BeyondKept
       DEF IInv, Ordered, Made
  <2>3. Made'
    BY <2>1, ReadsKept, NmcKept, PrefetchKept, AnswersKept DEF IInv, Ordered, Made
  <2>4. QED BY <2>1, <2>2, <2>3 DEF IInv
<1>3. QED BY <1>1, <1>2, PTL DEF Spec

\* What a tile or a link holds as an answer says the truth: an acknowledged
\* store is in memory, a load has seen every earlier store of its tile to its
\* cell, and a token stands for a result made of all that precedes it.
THEOREM AnswersTrue == Spec => []AnswersAreTrue
<1>1. IInv => AnswersAreTrue
  <2> SUFFICES ASSUME IInv, NEW a \in Answers
               PROVE  LET r == Req(a.id) IN
                        CASE r.op = "DATA_WRITE" -> a.id \in mem[r.to[1]]
                          [] r.op = "READ_REQ" -> Required(a.id) \subseteq a.data
                          [] r.op = "REDUCE" -> {a.id} \cup Required(a.id) \subseteq mem[r.to[1]]
                          [] r.op = "PREFETCH" ->
                               \A k \in DOMAIN r.to :
                                 {a.id} \cup Prior(a.id, r.from[k]) \subseteq mem[r.to[k]]
    BY DEF AnswersAreTrue
  <2>1. Typed
    BY DEF IInv, Counted
  <2>2. IsAnswer(a) /\ a \in Packets
    <3>1. CASE \E t \in Requesters : a \in got[t]
      BY <2>1, <3>1 DEF Typed, TilesTyped, IsAnswer
    <3>2. ASSUME NEW l \in Links, a \in ToSet(down[l])
          PROVE  IsAnswer(a) /\ a \in Packets
      <4>1. down[l] \in Seq(Packets)
        BY <2>1 DEF Typed, LinksTyped
      <4>2. PICK i \in DOMAIN down[l] : down[l][i] = a
        BY <3>2 DEF ToSet
      <4>3. down[l][i] \in Packets
        BY <4>1, <4>2
      <4>4. QED BY <4>2, <4>3 DEF IsAnswer
    <3>3. a \in UNION {got[t] : t \in Requesters} \/ a \in UNION {ToSet(down[l]) : l \in Links}
      BY DEF Answers
    <3>4. (\E t \in Requesters : a \in got[t]) \/ (\E l \in Links : a \in ToSet(down[l]))
      <4>1. a \in UNION {got[t] : t \in Requesters} => \E t \in Requesters : a \in got[t]
        OBVIOUS
      <4>2. a \in UNION {ToSet(down[l]) : l \in Links} => \E l \in Links : a \in ToSet(down[l])
        OBVIOUS
      <4>3. QED BY <3>3, <4>1, <4>2
    <3>5. QED BY <3>1, <3>2, <3>4
  <2>3. Answered(a) /\ IsReq(a.id)
    BY <2>1, <2>2, AnswerIsReq DEF IInv, Made, AnswersOk
  <2>4. Req(a.id).op \in Ops
    BY <2>3 DEF IsReq
  <2>5. CASE Req(a.id).op = "DATA_WRITE"
    BY <2>3, <2>5 DEF Answered
  <2>6. CASE Req(a.id).op = "READ_REQ"
    BY <2>3, <2>6 DEF Answered
  <2>7. CASE Req(a.id).op = "REDUCE"
    BY <2>3, <2>7 DEF Answered
  <2>8. CASE Req(a.id).op = "PREFETCH"
    BY <2>3, <2>8 DEF Answered, Delivered
  <2>9. QED BY <2>4, <2>5, <2>6, <2>7, <2>8 DEF Ops
<1>2. QED BY <1>1, Inductive, PTL

=============================================================================
