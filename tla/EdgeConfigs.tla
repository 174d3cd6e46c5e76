------------------------------ MODULE EdgeConfigs ------------------------------
(* Small models that between them take every path of the compiler, and     *)
(* what their programs compute when the tiles take turns in one order.     *)
EXTENDS EdgeProgram

Dense == <<<<<<0, 0>>>>, <<<<0, 0>>>>>>      \* one expert, two layers
Base == [rb |-> 1, heads |-> 2, kvHeads |-> 1, ff |-> 2, layers |-> 1,
         norm |-> "rmsnorm", pos |-> "rope", ffn |-> "swiglu", mask |-> "causal",
         window |-> 0, logits |-> Dense, topK |-> 1,
         dep |-> TRUE, dbuf |-> TRUE, depth |-> 3, tiles |-> 2,
         prec |-> "none", shared |-> FALSE]

MCConfigs == <<
  [Base EXCEPT !.layers = 2, !.ff = 3],
  [Base EXCEPT !.rb = 2, !.kvHeads = 2, !.norm = "layernorm", !.pos = "none",
               !.ffn = "gelu", !.mask = "full", !.depth = 2],
  [Base EXCEPT !.heads = 1, !.window = 8, !.dep = FALSE, !.dbuf = FALSE,
               !.topK = 2, !.logits = << << <<1, 2>>, <<3, 2>>, <<0, 2>> >> >>],
  [Base EXCEPT !.rb = 2, !.heads = 1, !.window = 20, !.ffn = "gelu", !.tiles = 3,
               !.logits = << << <<1, 2>>, <<3, 1>> >> >>],
  [Base EXCEPT !.heads = 9, !.ff = 1, !.norm = "layernorm", !.tiles = 1],
  [Base EXCEPT !.prec = "f16", !.ff = 5, !.rb = 2, !.shared = TRUE],
  [Base EXCEPT !.prec = "i8", !.ff = 8, !.depth = 2],
  [Base EXCEPT !.prec = "i4", !.ff = 8, !.dbuf = FALSE] >>

\* d_model = 160: the strip of a row-major layer norm meets its own temp.
WideConfigs == << [Base EXCEPT !.heads = 10, !.ff = 1, !.norm = "layernorm", !.tiles = 1] >>
\* A window without a causal mask, which the reference honours.
WindowConfigs == << [Base EXCEPT !.mask = "full", !.window = 8] >>

-----------------------------------------------------------------------------
\* The next instruction of tile t, and what it yields, where v is what has
\* been written and dram what has been stored.
Upcoming(P, v, t) == P[t][Len(v[t]) + 1]

CanIssue(P, v, t) ==
  LET in == Upcoming(P, v, t) IN
  /\ in.op # "halt"
  /\ in.op = "acquire" => \A x \in Releases(P, t, in.tag) : x[2] <= Len(v[x[1]])

Yields(c, names, P, v, dram, t) ==
  LET in == Upcoming(P, v, t)
      Operand(r) == Takes(P[t], v[t], Len(v[t]) + 1, r)
  IN CASE in.op = "load"  -> in.to :> IF in.from \in DOMAIN dram THEN dram[in.from]
                                                                 ELSE Image(c, in.from)
       [] in.op = "store" -> in.to :> NamedBy(names, Operand(in.from))
       [] in.op = "copy"  -> in.to :> Operand(in.from)
       [] in.op = "mxu"   -> in.to :> MxuResult(in.acc, Operand(in.a), Operand(in.b),
                                                IF in.acc THEN Operand(in.to) ELSE Nothing)
       [] in.op = "vpu"   ->
            LET operands == [j \in DOMAIN in.in |-> Operand(in.in[j])]
            IN [r \in Regions(in.out) |->
                  VpuResult(in.f, operands, in.arg, CHOOSE k \in DOMAIN in.out : in.out[k] = r)]
       [] OTHER -> <<>>

\* The tiles take turns until none can go on.
OneOrder(c, P) ==
  LET names == NamesOf(c)
      Turn(s, t) ==
        IF ~CanIssue(P, s.v, t) THEN s ELSE
        LET y == Yields(c, names, P, s.v, s.dram, t)
        IN [v |-> [s.v EXCEPT ![t] = Append(@, y)],
            dram |-> IF Upcoming(P, s.v, t).op = "store" THEN y @@ s.dram ELSE s.dram]
      Round(s) == FoldLeft(Turn, s, [k \in 1 .. c.tiles |-> k - 1])
      Often(F(_), s) ==
        IF \A t \in DOMAIN P : ~CanIssue(P, s.v, t) THEN s
        ELSE FoldLeft(LAMBDA x, n : F(x), s, [n \in 1 .. 7 |-> n])
      Rounds(s) == Often(LAMBDA x : Often(Round, x), s)
  IN Often(LAMBDA x : Often(Rounds, x), [v |-> [t \in DOMAIN P |-> <<>>], dram |-> <<>>]).v

\* The programs are well ordered and compute what the reference does.
Correct(c) ==
  LET P == Compile(c)
      V == OneOrder(c, P)
  IN /\ Scheduled(c, P) /\ Defined(c, P)
     /\ Evaluates(c, NamesOf(c), P, V) /\ AsReference(c, P, V)
=============================================================================
