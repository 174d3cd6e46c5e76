----------------------------- MODULE EdgeCompiler -----------------------------
(***************************************************************************)
(* The compiler of tools/edgc/edgc/compile.py: a model configuration (see  *)
(* EdgeReference) to one program per tile.                                 *)
(*                                                                         *)
(* A DRAM address is a buffer with a block row and column in it; buffers   *)
(* are the compiler's own allocations, which never overlap.  A LOCAL       *)
(* address is a set of lines of 64 bytes, so that two regions overlap in   *)
(* the model exactly where they do in the SRAM: a block of f16 is 8 lines, *)
(* one of f32 is 16, and the slots LA, LB, ... are 256 lines each.         *)
(***************************************************************************)
EXTENDS EdgeReference, SequencesExt

\* _gemm_prec: a packed step is a whole number of K-blocks.
Compilable(c) == IF c.prec = "none" THEN ModelConfig(c) ELSE c.ff % KPacked[c.prec] = 0

LA == 0         \* 0x00000 operand A strip
LB == 256       \* 0x04000 operand B strip
LC == 512       \* 0x08000 f32 accumulator
LT == 768       \* 0x0C000 temp f32 strip
\* Faulty: the f16 temp lies inside the slot of the f32 strip.
LT2Tight == LT + 64
LT2 == 1024     \* 0x10000 f16 temp
LROPE == 1280   \* 0x14000 rope tables

F16At(off) == off .. off + 7
F32At(off) == off .. off + 15
\* Block column j of a row-major f32 strip of n block columns.
StripAt(off, n, j) == {off + i * n + j : i \in 0 .. BN - 1}

Strip(n, Region(_)) == [j \in 1 .. n |-> Region(j - 1)]

-----------------------------------------------------------------------------
(* Instructions.  A VPU instruction reads the regions "in" and writes the  *)
(* regions "out".                                                          *)

Buf(x, l, e) == <<x, l, e>>
Dram(buf, r, k) == <<buf, r, k>>
Load(from, to) == [op |-> "load", from |-> from, to |-> to]
Store(from, to) == [op |-> "store", from |-> from, to |-> to]
Copy(from, to) == [op |-> "copy", from |-> from, to |-> to]
Fence(keep) == [op |-> "fence", keep |-> keep]
Mxu(a, b, to, acc) == [op |-> "mxu", a |-> a, b |-> b, to |-> to, acc |-> acc]
WaitMxu == [op |-> "wait_mxu"]
Vpu(f, in, out, arg) == [op |-> "vpu", f |-> f, in |-> in, out |-> out, arg |-> arg]
Unary(f, from, to) == Vpu(f, <<from>>, <<to>>, <<>>)
Release(consumer, tag) == [op |-> "release", consumer |-> consumer, tag |-> tag]
Acquire(tag, arity) == [op |-> "acquire", tag |-> tag, arity |-> arity]
Halt == [op |-> "halt"]

\* The program that goes through P(0), ..., P(n - 1).
Loop(n, P(_)) == FlattenSeq(Row(n, P))

\* The result block leaves as f16, asynchronously.
ConvertAndStore(to) == <<Unary("f16", F32At(LC), F16At(LT2)), Store(F16At(LT2), to)>>

-----------------------------------------------------------------------------
(* Primitives.  Each declares the buffers it reads and writes and has one  *)
(* program per output block, in the order in which tiles are assigned.     *)

Primitive(reads, writes, rows, cols, Block(_, _)) ==
  [reads |-> reads, writes |-> writes,
   blocks |-> Row(rows * cols, LAMBDA i : Block(i \div cols, i % cols))]

GemmSingle(a, b, kb, m, n) ==
  Loop(kb, LAMBDA k : << Load(Dram(a, m, k), F16At(LA)),
                         Load(Dram(b, k, n), F16At(LB)),
                         Fence(0),
                         Mxu(F16At(LA), F16At(LB), F32At(LC), k > 0),
                         WaitMxu >>)

\* Faulty: the fence is not lowered towards the end of the loop.
KeepAll(kb, D, k) == 2 * (D - 1)
\* The descriptors of the steps that are prefetched ahead of step k.
Keep(kb, D, k) == 2 * (Min({kb - 1, k + D - 1}) - k)

GemmBuffered(c, a, b, kb, m, n) ==
  LET D == Min({c.depth, kb})
      A(j) == F16At(LA + 32 * (j % D))
      B(j) == F16At(LB + 32 * (j % D))
      Fetch(j) == << Load(Dram(a, m, j), A(j)), Load(Dram(b, j, n), B(j)) >>
  IN Loop(D - 1, Fetch)
       \o Loop(kb, LAMBDA k :
            (IF k + D - 1 < kb THEN Fetch(k + D - 1) ELSE <<>>)
              \o << Fence(Keep(kb, D, k)),
                    Mxu(A(k), B(k), F32At(LC), k > 0) >>)
       \o << WaitMxu >>

Gemm(c, a, b, out, mb, kb, nb) ==
  Primitive({a, b}, {out}, mb, nb, LAMBDA m, n :
    (IF c.dbuf /\ kb >= 2 THEN GemmBuffered(c, a, b, kb, m, n)
                          ELSE GemmSingle(a, b, kb, m, n))
      \o ConvertAndStore(Dram(out, m, n)))

\* From the blocked strip at LA, by way of a row-major one, to LT.
LayerNormRowMajor(n) ==
  Loop(n, LAMBDA k : << Copy(F32At(LA + 16 * k), StripAt(LT, n, k)) >>)
    \o << Fence(0),
          Vpu("layernorm", Strip(n, LAMBDA k : StripAt(LT, n, k)),
                           Strip(n, LAMBDA k : StripAt(LT + 128, n, k)), <<>>) >>
    \o Loop(n, LAMBDA k : << Copy(StripAt(LT + 128, n, k), F32At(LT + 16 * k)) >>)
    \o << Fence(0) >>

Norm(c, x, out) ==
  LET n == c.heads
      from == IF c.norm = "rmsnorm" THEN LC ELSE LT
  IN Primitive({x}, {out}, c.rb, 1, LAMBDA r, z :
       Loop(n, LAMBDA k : << Load(Dram(x, r, k), F16At(LB)), Fence(0),
                             Unary("f32", F16At(LB), F32At(LA + 16 * k)) >>)
         \o (IF c.norm = "rmsnorm"
             THEN << Vpu("rmsnorm", Strip(n, LAMBDA k : F32At(LA + 16 * k)),
                                    Strip(n, LAMBDA k : F32At(LC + 16 * k)), <<>>) >>
             ELSE LayerNormRowMajor(n))
         \o Loop(n, LAMBDA k : << Unary("f16", F32At(from + 16 * k), F16At(LT2 + 8 * k)),
                                  Store(F16At(LT2 + 8 * k), Dram(out, r, k)) >>)
         \o << Fence(0) >>)

AddBlocks(c, x, y, out) ==
  Primitive({x, y}, {out}, c.rb, c.heads, LAMBDA r, k :
    << Load(Dram(x, r, k), F16At(LA)), Load(Dram(y, r, k), F16At(LB)), Fence(0),
       Unary("f32", F16At(LA), F32At(LC)), Unary("f32", F16At(LB), F32At(LT)),
       Vpu("add", <<F32At(LC), F32At(LT)>>, <<F32At(LC)>>, <<>>) >>
      \o ConvertAndStore(Dram(out, r, k)))

Rope(c, buf, heads) ==
  Primitive({buf}, {buf}, c.rb, heads, LAMBDA r, h :
    << Load(Dram(buf, r, h), F16At(LA)),
       Load(Dram(Buf("rope", 0, 0), r, 0), F32At(LROPE)),
       Load(Dram(Buf("rope", 0, 0), r, 1), F32At(LROPE + 16)), Fence(0),
       Vpu("rope", <<F16At(LA), F32At(LROPE), F32At(LROPE + 16)>>, <<F16At(LT2)>>, <<>>),
       Store(F16At(LT2), Dram(buf, r, h)) >>)

Attention(c, q, k, v, ctx) ==
  Primitive({q, k, v}, {ctx}, c.heads, c.rb, LAMBDA h, m :
    LET kvh == h \div GroupSize(c)
        row0 == IF c.mask = "causal" THEN m * BN ELSE -1
    IN << Load(Dram(q, m, h), F16At(LA)) >>
         \o Loop(c.rb, LAMBDA j :
              << Load(Dram(k, j, kvh), F16At(LB)), Fence(0),
                 Unary("T", F16At(LB), F16At(LT2)),
                 Mxu(F16At(LA), F16At(LT2), F32At(LC + 16 * j), FALSE), WaitMxu >>)
         \o << Vpu("softmax", Strip(c.rb, LAMBDA j : F32At(LC + 16 * j)),
                              Strip(c.rb, LAMBDA j : F32At(LT + 16 * j)),
                   [aux |-> row0, rows |-> c.window, valid |-> c.rb * BN]) >>
         \o Loop(c.rb, LAMBDA j : << Unary("f16", F32At(LT + 16 * j), F16At(LB + 8 * j)) >>)
         \o Loop(c.rb, LAMBDA j :
              << Load(Dram(v, j, kvh), F16At(LA + 64)), Fence(0),
                 Mxu(F16At(LB + 8 * j), F16At(LA + 64), F32At(LC), j > 0), WaitMxu >>)
         \o ConvertAndStore(Dram(ctx, m, h)) \o << Fence(0) >>)

SiluGate(c, g, u, out) ==
  Primitive({g, u}, {out}, c.rb, c.ff, LAMBDA r, k :
    << Load(Dram(g, r, k), F16At(LA)), Load(Dram(u, r, k), F16At(LB)), Fence(0),
       Unary("f32", F16At(LA), F32At(LC)), Unary("f32", F16At(LB), F32At(LT)),
       Unary("silu", F32At(LC), F32At(LC)),
       Vpu("mul", <<F32At(LC), F32At(LT)>>, <<F32At(LC)>>, <<>>) >>
      \o ConvertAndStore(Dram(out, r, k)))

Gelu(c, g, out) ==
  Primitive({g}, {out}, c.rb, c.ff, LAMBDA r, k :
    << Load(Dram(g, r, k), F16At(LA)), Fence(0),
       Unary("f32", F16At(LA), F32At(LC)), Unary("gelu", F32At(LC), F32At(LC)) >>
      \o ConvertAndStore(Dram(out, r, k)))

\* The gates come from an image in DRAM that nothing writes.
ScaleAdd(c, eo, gate, acc) ==
  Primitive({eo, acc}, {acc}, c.rb, c.heads, LAMBDA r, k :
    << Load(Dram(eo, r, k), F16At(LA)), Load(Dram(acc, r, k), F16At(LB)),
       Load(Dram(gate, r, 0), F32At(LT)), Fence(0),
       Unary("f32", F16At(LA), F32At(LC)),
       Vpu("mul", <<F32At(LC), F32At(LT)>>, <<F32At(LC)>>, <<>>),
       Unary("f32", F16At(LB), F32At(LT2)),
       Unary("f32", F16At(LB), F32At(LB + 64)),
       Vpu("add", <<F32At(LC), F32At(LB + 64)>>, <<F32At(LC)>>, <<>>) >>
      \o ConvertAndStore(Dram(acc, r, k)))

-----------------------------------------------------------------------------
(* A model as a sequence of primitives.                                    *)

Expert(c, l, e) ==
  LET hn == Buf("hn", l, 0) g == Buf("g", l, e) u == Buf("u", l, e)
      act == Buf("act", l, e)
      Gated(x, w) == Gemm(c, hn, Buf(w, l, e), x, c.rb, c.heads, c.ff)
  IN << Gated(g, "wg") >>
       \o (IF c.ffn = "swiglu" THEN << Gated(u, "wu"), SiluGate(c, g, u, act) >>
                               ELSE << Gelu(c, g, act) >>)
       \o << Gemm(c, act, Buf("wd", l, e), Buf("down", l, e), c.rb, c.ff, c.heads) >>

Ffn(c, l, out) ==
  LET acc == Buf("acc", l, 0)
      res1 == Buf("res1", l, 0)
      used == SetToSortSeq(ExpertsUsed(c, l), <)
  IN IF IsMoE(c)
     THEN FlattenSeq([i \in DOMAIN used |->
            Expert(c, l, used[i])
              \o << ScaleAdd(c, Buf("down", l, used[i]), Buf("gate", l, used[i]), acc) >>])
          \o << AddBlocks(c, res1, acc, out) >>
     ELSE Expert(c, l, 0) \o << AddBlocks(c, res1, Buf("down", l, 0), out) >>

Layer(c, l, in, out) ==
  LET B(x) == Buf(x, l, 0)
      Project(a, w, x, cols) == Gemm(c, B(a), B(w), B(x), c.rb, c.heads, cols)
  IN << Norm(c, in, B("xn")),
        Project("xn", "wq", "q", c.heads),
        Project("xn", "wk", "k", c.kvHeads),
        Project("xn", "wv", "v", c.kvHeads) >>
       \o (IF c.pos = "rope"
           THEN << Rope(c, B("q"), c.heads), Rope(c, B("k"), c.kvHeads) >>
           ELSE <<>>)
       \o << Attention(c, B("q"), B("k"), B("v"), B("ctx")),
             Project("ctx", "wo", "attn", c.heads),
             AddBlocks(c, in, B("attn"), B("res1")),
             Norm(c, B("res1"), B("hn")) >>
       \o Ffn(c, l, out)

\* act_a and act_b take turns as the input of a layer.
Activation(l) == Buf(IF l % 2 = 0 THEN "act_a" ELSE "act_b", 0, 0)

\* bench_gemm.build_gemm; B may reside in the tile's near bank.
Bench(c) ==
  LET B == Buf(IF c.shared THEN "near" ELSE "B", 0, 0)
  IN << Gemm(c, Buf("A", 0, 0), B, Buf("C", 0, 0),
             c.rb, c.ff \div KPacked[c.prec], c.heads) >>

Primitives(c) ==
  IF c.prec # "none" THEN Bench(c) ELSE
  Loop(c.layers, LAMBDA l : Layer(c, l, Activation(l), Activation(l + 1)))

Nothing == <<"nothing">>
\* What the image puts into DRAM.
Image(c, addr) ==
  LET x == addr[1][1] l == addr[1][2] e == addr[1][3] r == addr[2] k == addr[3]
      Exists(w) == r < Weights(c)[w][1] /\ k < Weights(c)[w][2]
  IN
  CASE x = "act_a" -> IF Exists("x") THEN Name("x", 0, 0, r, k) ELSE Nothing
    [] x = "rope"  -> RopeTables(r)[k + 1]
    [] x = "acc"   -> Zero
    [] x = "gate"  -> Gate(c, l, e, r)
    [] x \in {"wq", "wk", "wv", "wo", "wg", "wu", "wd"} ->
         IF Exists(x) THEN Name(x, l, e, r, k) ELSE Nothing
    [] x \in {"A", "B"} -> Name(x, l, e, r, k)
    [] x = "near" -> Name("B", l, e, r, k)
    [] OTHER       -> Nothing

\* The dumped region, row r and column k.
Output(c, r, k) ==
  IF c.prec # "none" THEN <<Buf("C", 0, 0), Name("C", 0, 0, r, k)>>
  ELSE <<Activation(c.layers), Name("x", c.layers, 0, r, k)>>

-----------------------------------------------------------------------------
(* Barriers, and the programs that come out.                               *)

\* s: what has been emitted; tr and tw: buffers read and written since the
\* last barrier; tag: the next tag; any: whether a primitive has been emitted.
AppendTo(c, s, P(_)) == [s EXCEPT !.prog = [t \in 0 .. c.tiles - 1 |-> @[t] \o P(t)]]

\* Faulty: the last tile is not released.
ReleasedShort(c) == c.tiles - 1
\* The tiles that tile 0 releases, from 0.
Released(c) == c.tiles

EmitBarrier(c, s) ==
  [AppendTo(c, s, LAMBDA t :
     << Fence(0), Release(0, s.tag) >>
       \o (IF t = 0 THEN << Acquire(s.tag, c.tiles) >>
                           \o Row(Released(c), LAMBDA u : Release(u, s.tag + 1))
                    ELSE <<>>)
       \o << Acquire(s.tag + 1, 1) >>)
   EXCEPT !.tag = @ + 2]

\* Faulty: what a primitive reads is not looked at.
ConflictsOfWrites(c, s, p) == p.writes \cap (s.tw \cup s.tr) # {}
Conflicts(c, s, p) ==
  IF c.dep THEN \/ p.reads \cap s.tw # {}
                \/ p.writes \cap (s.tw \cup s.tr) # {}
           ELSE s.any

Sync(c, s, p) ==
  LET s1 == IF Conflicts(c, s, p)
            THEN [EmitBarrier(c, s) EXCEPT !.tr = {}, !.tw = {}]
            ELSE s
  IN [s1 EXCEPT !.tr = @ \cup p.reads, !.tw = @ \cup p.writes, !.any = TRUE]

\* Block i goes to tile i % NUM_TILES.
Emit(c, s, p) ==
  AppendTo(c, Sync(c, s, p), LAMBDA t :
    Loop(Len(p.blocks), LAMBDA i : IF i % c.tiles = t THEN p.blocks[i + 1] ELSE <<>>))

Compile(c) ==
  LET start == [prog |-> [t \in 0 .. c.tiles - 1 |-> <<>>], tr |-> {}, tw |-> {},
                tag |-> 0, any |-> FALSE]
      emitted == FoldLeft(LAMBDA s, p : Emit(c, s, p), start, Primitives(c))
  IN AppendTo(c, EmitBarrier(c, emitted), LAMBDA t : << Halt >>).prog
=============================================================================
