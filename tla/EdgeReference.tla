----------------------------- MODULE EdgeReference -----------------------------
(***************************************************************************)
(* What a model computes: reference_forward of tools/edgc/edgc/model.py,   *)
(* block by block.                                                         *)
(*                                                                         *)
(* Numbers are abstracted to the expression that yields them: a block of   *)
(* 16 x 16 elements is a name <<tensor, layer, expert, row, column>>, and  *)
(* Meaning(c, n) is the expression the reference evaluates for it, over    *)
(* the names of other blocks.  Two computations that round in the same     *)
(* places and sum in the same order have the same expression, any others   *)
(* do not.  d_head is 16, which _rope asserts and _attention presumes, so  *)
(* a head is one block column; all sizes below are counted in blocks.      *)
(***************************************************************************)
EXTENDS Integers, Sequences, FiniteSets, FiniteSetsExt

BN == 16        \* rows and columns of a block

(* A model configuration c has                                             *)
(*   rb, heads, kvHeads, ff, layers - seq_len, n_heads (= d_model),        *)
(*       n_kv_heads, ffn_hidden in blocks, n_layers                        *)
(*   norm, pos, ffn, mask, window   - as in ModelConfig                    *)
(*   logits[l][e]                   - router logit of expert e for every   *)
(*       even and every odd token of layer l, a pair; topK experts each    *)
(*   dep, dbuf, depth, tiles        - compiler switches and NUM_TILES      *)
(*   prec                           - "none" for a model; the precision of *)
(*       a benchmark that is one product of rb x ff and ff x heads blocks  *)

GroupSize(c) == c.heads \div c.kvHeads
Experts(c) == 0 .. Len(c.logits[1]) - 1
IsMoE(c) == Cardinality(Experts(c)) > 1

\* What the documentation of the fields allows; nothing in the code checks it.
ModelConfig(c) ==
  /\ {c.rb, c.heads, c.kvHeads, c.ff, c.layers} \subseteq Nat \ {0}
  /\ c.heads % c.kvHeads = 0
  /\ c.norm \in {"rmsnorm", "layernorm"} /\ c.pos \in {"rope", "none"}
  /\ c.ffn \in {"swiglu", "gelu"} /\ c.mask \in {"causal", "full"}
  /\ c.window \in Nat
  /\ c.layers <= Len(c.logits) /\ c.topK \in 1 .. Cardinality(Experts(c))

Name(x, l, e, r, k) == <<x, l, e, r, k>>
F16(t) == <<"f16", t>>
F32(t) == <<"f32", t>>
Zero == <<"zero">>

\* The columns 0 .. n-1 of something, in order.
Row(n, Block(_)) == [j \in 1 .. n |-> Block(j - 1)]

\* matmul_f32 for one output block: products in the order of k.
Product(n, A(_), B(_)) == <<"mm", Row(n, LAMBDA k : <<A(k), B(k)>>)>>

\* The columns that row i of row-block r attends to, <<from, to>>.
AttentionMask(c, r) ==
  [i \in 0 .. BN - 1 |->
     LET row == r * BN + i IN
     << IF c.window > 0 THEN Max({0, row - c.window + 1}) ELSE 0,
        IF c.mask = "causal" THEN row + 1 ELSE c.rb * BN >>]

\* The experts of a token: the topK best logits, ties to the lower index.
Chosen(c, l, tok) ==
  LET logit(e) == c.logits[l + 1][e + 1][(tok % 2) + 1]
      Before(e) == {f \in Experts(c) : \/ logit(f) > logit(e)
                                       \/ logit(f) = logit(e) /\ f < e}
  IN {e \in Experts(c) : Cardinality(Before(e)) < c.topK}

\* Gates of expert e for the tokens of row-block r; 0 where not routed.
Gate(c, l, e, r) ==
  <<"gate", [i \in 0 .. BN - 1 |->
               LET tok == r * BN + i IN
               IF e \in Chosen(c, l, tok) THEN <<l, tok % 2, e>> ELSE <<>>]>>

ExpertsUsed(c, l) == UNION {Chosen(c, l, tok) : tok \in 0 .. c.rb * BN - 1}

\* The accumulator before expert e adds its share.
AccBefore(c, l, e, r, k) ==
  LET earlier == {f \in ExpertsUsed(c, l) : f < e} IN
  IF earlier = {} THEN Zero ELSE Name("acc", l, Max(earlier), r, k)

\* The kernels of numerics.py, for the k-th block of what they make of a row.
RmsNorm(row, k) == <<"rmsnorm", row, k>>
LayerNorm(row, k) == <<"layernorm", row, k>>
Softmax(row, mask, k) == <<"softmax", row, mask, k>>
Silu(x) == <<"silu", x>>
Gelu_f32(x) == <<"gelu", x>>
Add(x, y) == <<"add", x, y>>
Mul(x, y) == <<"mul", x, y>>

NormTerm(c, X(_), k) ==
  LET row == Row(c.heads, LAMBDA j : F32(X(j)))
  IN F16(IF c.norm = "rmsnorm" THEN RmsNorm(row, k) ELSE LayerNorm(row, k))
Residual(x, y) == F16(Add(F32(x), F32(y)))

\* Cosines and sines of the positions of row-block r.
RopeTables(r) == << <<"cos", r>>, <<"sin", r>> >>

\* The weight tensors of a layer and the input, in rows and columns of blocks.
Weights(c) ==
  LET Square == <<c.heads, c.heads>> Up == <<c.heads, c.ff>> KV == <<c.heads, c.kvHeads>>
  IN [wq |-> Square, wk |-> KV, wv |-> KV, wo |-> Square,
      wg |-> Up, wu |-> Up, wd |-> <<c.ff, c.heads>>, x |-> <<c.rb, c.heads>>]

\* K-blocks that one MXU issue takes at a precision.
KPacked == [f16 |-> 1, i8 |-> 2, i4 |-> 4]

-----------------------------------------------------------------------------
(* reference_forward.  q and k after rotation are "Q" and "K".             *)

Rotated(c, x) == IF c.pos = "rope" THEN (IF x = "q" THEN "Q" ELSE "K") ELSE x

Score(c, l, h, i, j) ==
  Product(1, LAMBDA z : Name(Rotated(c, "q"), l, 0, i, h),
             LAMBDA z : <<"T", Name(Rotated(c, "k"), l, 0, j, h \div GroupSize(c))>>)

Probability(c, l, h, i, j) ==
  F16(Softmax(Row(c.rb, LAMBDA n : Score(c, l, h, i, n)), AttentionMask(c, i), j))

Meaning(c, n) ==
  LET x == n[1] l == n[2] e == n[3] r == n[4] k == n[5]
      MatMul(a, ae, w, depth) ==
        F16(Product(depth, LAMBDA i : Name(a, l, ae, r, i),
                           LAMBDA i : Name(w, l, e, i, k)))
  IN CASE x = "xn"   -> NormTerm(c, LAMBDA j : Name("x", l, 0, r, j), k)
       [] x = "hn"   -> NormTerm(c, LAMBDA j : Name("res1", l, 0, r, j), k)
       [] x = "q"    -> MatMul("xn", 0, "wq", c.heads)
       [] x = "k"    -> MatMul("xn", 0, "wk", c.heads)
       [] x = "v"    -> MatMul("xn", 0, "wv", c.heads)
       [] x \in {"Q", "K"} ->
            <<"rope", Name(IF x = "Q" THEN "q" ELSE "k", l, 0, r, k)>> \o RopeTables(r)
       [] x = "ctx"  ->
            F16(Product(c.rb, LAMBDA j : Probability(c, l, k, r, j),
                  LAMBDA j : Name("v", l, 0, j, k \div GroupSize(c))))
       [] x = "attn" -> MatMul("ctx", 0, "wo", c.heads)
       [] x = "res1" -> Residual(Name("x", l, 0, r, k), Name("attn", l, 0, r, k))
       [] x = "g"    -> MatMul("hn", 0, "wg", c.heads)
       [] x = "u"    -> MatMul("hn", 0, "wu", c.heads)
       [] x = "act"  ->
            LET g == F32(Name("g", l, e, r, k)) IN
            F16(IF c.ffn = "swiglu"
                THEN Mul(Silu(g), F32(Name("u", l, e, r, k)))
                ELSE Gelu_f32(g))
       [] x = "down" -> MatMul("act", e, "wd", c.ff)
       [] x = "acc"  ->
            F16(Add(Mul(F32(Name("down", l, e, r, k)), Gate(c, l, e, r)),
                    F32(AccBefore(c, l, e, r, k))))
       [] x = "C"    ->     \* bench_gemm, in packed steps
            F16(Product(c.ff \div KPacked[c.prec], LAMBDA i : Name("A", 0, 0, r, i),
                                                   LAMBDA i : Name("B", 0, 0, i, k)))
       [] x = "x"    ->     \* the input of layer l, l > 0
            Residual(Name("res1", l - 1, 0, r, k),
                     IF IsMoE(c)
                     THEN Name("acc", l - 1, Max(ExpertsUsed(c, l - 1)), r, k)
                     ELSE Name("down", l - 1, 0, r, k))

Blocks(c, xs, ls, es, cols) ==
  {Name(x, l, e, r, k) : x \in xs, l \in ls, e \in es,
                         r \in 0 .. c.rb - 1, k \in 0 .. cols - 1}

\* The blocks of the FFN of layer l, expert by expert.
ComputedInFfn(c, l) ==
  Blocks(c, {"g", "act"}, {l}, ExpertsUsed(c, l), c.ff)
    \cup Blocks(c, {"down"}, {l}, ExpertsUsed(c, l), c.heads)
    \cup (IF c.ffn = "swiglu"
          THEN Blocks(c, {"u"}, {l}, ExpertsUsed(c, l), c.ff) ELSE {})
    \cup (IF IsMoE(c)
          THEN Blocks(c, {"acc"}, {l}, ExpertsUsed(c, l), c.heads) ELSE {})

\* Every block the reference computes.
Computed(c) ==
  LET Ls == 0 .. c.layers - 1 IN
  IF c.prec # "none" THEN Blocks(c, {"C"}, {0}, {0}, c.heads) ELSE
  Blocks(c, {"xn", "hn", "q", "ctx", "attn", "res1"}, Ls, {0}, c.heads)
    \cup Blocks(c, {"k", "v"}, Ls, {0}, c.kvHeads)
    \cup (IF c.pos = "rope"
          THEN Blocks(c, {"Q"}, Ls, {0}, c.heads) \cup Blocks(c, {"K"}, Ls, {0}, c.kvHeads)
          ELSE {})
    \cup Blocks(c, {"x"}, 1 .. c.layers, {0}, c.heads)
    \cup UNION {ComputedInFfn(c, l) : l \in Ls}
=============================================================================
