------------------------------ MODULE EdgeProgram ------------------------------
(***************************************************************************)
(* What can be said of the tiles' programs without running them: what an   *)
(* instruction reads, writes and yields, what it must not meet, and in     *)
(* which order the fences, WAIT_MXU and barriers make instructions issue.  *)
(*                                                                         *)
(* P[t][i] is instruction i of tile t, p the program of one tile.          *)
(***************************************************************************)
EXTENDS EdgeCompiler

Regions(s) == {s[j] : j \in DOMAIN s}
LocalReads(in) ==
  CASE in.op \in {"store", "copy"} -> {in.from}
    [] in.op = "mxu" -> {in.a, in.b} \cup (IF in.acc THEN {in.to} ELSE {})
    [] in.op = "vpu" -> Regions(in.in)
    [] OTHER -> {}
LocalWrites(in) ==
  CASE in.op \in {"load", "copy", "mxu"} -> {in.to}
    [] in.op = "vpu" -> Regions(in.out)
    [] OTHER -> {}
Touches(in) == UNION (LocalReads(in) \cup LocalWrites(in))
IsTransfer(in) == in.op \in {"load", "store", "copy"}

\* Descriptor d of the same tile is still under way when in issues.
MeetsTransfer(d, in) ==
  \/ /\ d.op = "load" \/ (d.op = "copy" /\ ~IsTransfer(in))
     /\ d.to \cap Touches(in) # {}
  \/ /\ d.op \in {"store", "copy"} /\ ~IsTransfer(in)
     /\ d.from \cap UNION LocalWrites(in) # {}
  \/ d.op = "load" /\ in.op = "store" /\ d.from = in.to

\* The MXU's result for block p is still in its pipeline.
MeetsResult(p, in) ==
  IF in.op = "mxu" THEN \/ p \cap (in.a \cup in.b) # {}
                        \/ in.to # p /\ p \cap in.to # {}
                   ELSE p \cap Touches(in) # {}

\* Descriptor d of another tile is under way.
MeetsOther(d, in) ==
  \/ d.op = "store" /\ in.op = "load" /\ d.to = in.from
  \/ d.op = "store" /\ in.op = "store" /\ d.to = in.to
  \/ d.op = "load" /\ in.op = "store" /\ d.from = in.to

-----------------------------------------------------------------------------
(* Results.                                                                *)

\* The reference's name for what an expression yields.
NamesOf(c) ==
  LET Of == [n \in Computed(c) |-> Meaning(c, n)]
  IN [m \in {Of[n] : n \in DOMAIN Of} |-> CHOOSE n \in DOMAIN Of : Of[n] = m]
NamedBy(names, v) == IF v \in DOMAIN names THEN names[v] ELSE v

\* With acc the products go on from the old block.
MxuResult(acc, a, b, old) ==
  IF ~acc THEN <<"mm", <<<<a, b>>>>>>
  ELSE IF old[1] = "mm" THEN <<"mm", old[2] \o <<<<a, b>>>>>>
  ELSE Nothing

\* The columns that the rows of a softmax block use.
SoftmaxMask(arg) ==
  [i \in 0 .. BN - 1 |->
     IF arg.aux < 0 THEN <<0, arg.valid>>
     ELSE << IF arg.rows > 0 THEN Max({0, arg.aux + i - arg.rows + 1}) ELSE 0,
             Min({arg.valid, arg.aux + i + 1}) >>]

\* The j-th block of what VPU operation f makes of the blocks v.
VpuResult(f, v, arg, j) ==
  CASE f = "rmsnorm"   -> RmsNorm(v, j - 1)
    [] f = "layernorm" -> LayerNorm(v, j - 1)
    [] f = "softmax"   -> Softmax(v, SoftmaxMask(arg), j - 1)
    [] f = "silu"      -> Silu(v[1])
    [] f = "gelu"      -> Gelu_f32(v[1])
    [] f = "add"       -> Add(v[1], v[2])
    [] f = "mul"       -> Mul(v[1], v[2])
    [] OTHER -> <<f>> \o v

-----------------------------------------------------------------------------
(* Order.                                                                  *)

\* The transfers between instructions j and i of a tile.
Later(p, j, i) == Cardinality({k \in j + 1 .. i - 1 : IsTransfer(p[k])})

\* Before instruction i, a fence or a WAIT_MXU has waited for instruction j.
Fenced(p, j, i) ==
  \E f \in j + 1 .. i - 1 : p[f].op = "fence" /\ Later(p, j, f) >= p[f].keep
Awaited(p, j, i) == \E f \in j + 1 .. i - 1 : p[f].op = "wait_mxu"

\* The releases of a tag to tile t.
Releases(P, t, tag) ==
  UNION {{<<u, r>> : r \in {s \in DOMAIN P[u] : /\ P[u][s].op = "release"
                                               /\ P[u][s].consumer = t
                                               /\ P[u][s].tag = tag}} : u \in DOMAIN P}

\* Acquire e of tile t waits for release r of tile u ...
Signals(P, u, r, t, e) ==
  /\ P[t][e].op = "acquire" /\ P[u][r].op = "release"
  /\ P[u][r].consumer = t /\ P[u][r].tag = P[t][e].tag
\* ... or for one that a third tile, or u itself, makes after waiting for r.
Relayed(P, u, r, t, e) ==
  \E v \in DOMAIN P : \E s \in DOMAIN P[v] :
    Signals(P, v, s, t, e) /\ \E a \in 1 .. s - 1 : Signals(P, u, r, v, a)

\* Release r of tile u has issued before instruction i of tile t does.
After(P, u, r, t, i) ==
  /\ P[u][r].op = "release"
  /\ \E e \in 1 .. i - 1 :
       /\ P[t][e].op = "acquire"
       /\ Signals(P, u, r, t, e) \/ Relayed(P, u, r, t, e)

\* Instruction j of tile u has issued before instruction i of tile t does.
IssuesBefore(P, u, j, t, i) ==
  \/ u = t /\ j < i
  \/ \E r \in j + 1 .. Len(P[u]) : After(P, u, r, t, i)

\* Programs for the tiles of c: they halt, and release tiles that exist.
WellFormed(c, P) ==
  /\ c.tiles \in Nat /\ DOMAIN P = 0 .. c.tiles - 1
  /\ \A t \in DOMAIN P :
       /\ P[t] \in Seq(Regions(P[t])) /\ P[t] # <<>>
       /\ \A i \in DOMAIN P[t] :
            /\ P[t][i].op = "halt" <=> i = Len(P[t])
            /\ P[t][i].op = "fence" => P[t][i].keep \in Nat
            /\ P[t][i].op = "release" => P[t][i].consumer \in DOMAIN P

\* An acquire waits for all the releases of its tag.
AwaitsAll(P) ==
  \A t \in DOMAIN P : \A e \in DOMAIN P[t] :
    P[t][e].op = "acquire" =>
      P[t][e].arity = Cardinality(Releases(P, t, P[t][e].tag))

\* Conflicting instructions of a tile have a fence or a WAIT_MXU in between,
\* and one of each comes at the end.
FencedApart(p) ==
  \A i \in DOMAIN p : \A j \in 1 .. i - 1 :
    /\ IsTransfer(p[j]) /\ (MeetsTransfer(p[j], p[i]) \/ p[i].op = "halt")
         => Fenced(p, j, i)
    /\ p[j].op = "mxu" /\ (MeetsResult(p[j].to, p[i]) \/ p[i].op = "halt")
         => Awaited(p, j, i)

\* Conflicting transfers of two tiles are ordered by releases and acquires.
SyncedApart(P) ==
  \A t \in DOMAIN P : \A u \in DOMAIN P \ {t} :
    \A i \in DOMAIN P[t], j \in DOMAIN P[u] :
      MeetsOther(P[u][j], P[t][i]) =>
        \/ \E r \in j + 1 .. Len(P[u]) : After(P, u, r, t, i) /\ Fenced(P[u], j, r)
        \/ \E r \in i + 1 .. Len(P[t]) : After(P, t, r, u, j)

Scheduled(c, P) ==
  /\ WellFormed(c, P) /\ AwaitsAll(P) /\ SyncedApart(P)
  /\ \A t \in DOMAIN P : FencedApart(P[t])

\* After instruction j nothing up to instruction i writes into region r.
Untouched(p, r, j, i) ==
  \A k \in j + 1 .. i - 1 : r \cap UNION LocalWrites(p[k]) = {}

\* What an instruction reads in LOCAL was written as a whole, and what
\* products are added to is a sum of products.
LocalDefined(p) ==
  \A i \in DOMAIN p :
    /\ \A r \in LocalReads(p[i]) :
         /\ r # {}
         /\ \E j \in 1 .. i - 1 : r \in LocalWrites(p[j]) /\ Untouched(p, r, j, i)
    /\ p[i].op = "mxu" /\ p[i].acc =>
         \E j \in 1 .. i - 1 : /\ p[j].op = "mxu" /\ p[j].to = p[i].to
                               /\ Untouched(p, p[i].to, j, i)
    /\ p[i].op = "vpu" => p[i].in # <<>> /\ p[i].in \in Seq(Regions(p[i].in))

\* What a load reads is in the image or has been stored before.
DramDefined(c, P) ==
  \A t \in DOMAIN P : \A i \in DOMAIN P[t] :
    P[t][i].op = "load" /\ Image(c, P[t][i].from) = Nothing =>
      \E u \in DOMAIN P : \E j \in DOMAIN P[u] :
        /\ P[u][j].op = "store" /\ P[u][j].to = P[t][i].from
        /\ IssuesBefore(P, u, j, t, i)

Defined(c, P) ==
  DramDefined(c, P) /\ \A t \in DOMAIN P : LocalDefined(P[t])

-----------------------------------------------------------------------------
(* Values.  V[t][i][x] is what instruction i of tile t writes into x, a    *)
(* region of LOCAL or a DRAM address.                                      *)

\* What instruction i finds in region r: what was last written into it.
Takes(p, v, i, r) ==
  v[CHOOSE j \in 1 .. i - 1 : r \in LocalWrites(p[j]) /\ Untouched(p, r, j, i)][r]

Stores(P, a) ==
  UNION {{<<u, j>> : j \in {k \in DOMAIN P[u] : P[u][k].op = "store" /\ P[u][k].to = a}} :
           u \in DOMAIN P}

\* At address a there is v, when the stores "before" have issued and the
\* stores "after" have not.
Stands(c, P, V, a, v, before, after) ==
  /\ \A x \in Stores(P, a) \ after :
       \/ V[x[1]][x[2]][a] = v
       \/ \E y \in before : IssuesBefore(P, x[1], x[2], y[1], y[2])
  /\ before = {} => Image(c, a) = v

\* Load i of tile t finds what the stores before it have left.
Loads(c, P, V, t, i) ==
  LET from == P[t][i].from IN
  Stands(c, P, V, from, V[t][i][P[t][i].to],
         {x \in Stores(P, from) : IssuesBefore(P, x[1], x[2], t, i)},
         {x \in Stores(P, from) : IssuesBefore(P, t, i, x[1], x[2])})

\* Any other instruction i makes its results of what it finds in LOCAL.
Makes(names, p, v, i) ==
  LET in == p[i]
      Operand(r) == Takes(p, v, i, r)
  IN
  /\ in.op = "store" => v[i][in.to] = NamedBy(names, Operand(in.from))
  /\ in.op = "copy" => v[i][in.to] = Operand(in.from)
  /\ in.op = "mxu" =>
       v[i][in.to] = MxuResult(in.acc, Operand(in.a), Operand(in.b),
                               IF in.acc THEN Operand(in.to) ELSE Nothing)
  /\ in.op = "vpu" =>
       \A k \in DOMAIN in.out :
         v[i][in.out[k]] =
           VpuResult(in.f, [j \in DOMAIN in.in |-> Operand(in.in[j])], in.arg, k)

\* V is what the programs compute, whatever the order in which the tiles
\* take turns.
Evaluates(c, names, P, V) ==
  \A t \in DOMAIN P : \A i \in DOMAIN P[t] :
    /\ P[t][i].op = "load" => Loads(c, P, V, t, i)
    /\ Makes(names, P[t], V[t], i)

\* What V puts into DRAM is what the reference computes, and what is there
\* after all stores is the output.
AsReference(c, P, V) ==
  /\ \A t \in DOMAIN P : \A i \in DOMAIN P[t] :
       P[t][i].op = "store" => V[t][i][P[t][i].to] \in Computed(c)
  /\ \A r \in 0 .. c.rb - 1, k \in 0 .. c.heads - 1 :
       LET a == Dram(Output(c, r, k)[1], r, k)
       IN Stands(c, P, V, a, Output(c, r, k)[2], Stores(P, a), {})
=============================================================================
