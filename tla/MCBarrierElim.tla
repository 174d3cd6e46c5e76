--------------------------- MODULE MCBarrierElim ----------------------------
(* Two tiles, three primitives over three buffers; and what is assumed of   *)
(* compiled programs in CompilerProofs, for those that run in MCEdge.       *)
EXTENDS BarrierElim

Access(r, w) == [rd |-> r, wr |-> w]

\* x -> y and x -> z share an input (the projections of an attention layer),
\* y in place (RoPE), a primitive that overwrites an old input (the two
\* activation buffers), one that reads two buffers (a residual).
MCAccesses ==
  { Access({"x"}, {"y"}), Access({"x"}, {"z"}), Access({"y"}, {"y"}),
    Access({"y"}, {"x"}), Access({"y", "z"}, {"x"}) }
MCBuffers == {"x", "y", "z"}

\* The programs of the small models are well ordered, write before they read
\* and compute the reference.
Edge == INSTANCE EdgeConfigs
ASSUME ProgramsAreCorrect ==
  \A i \in DOMAIN Edge!MCConfigs : Edge!Correct(Edge!MCConfigs[i])
=============================================================================
