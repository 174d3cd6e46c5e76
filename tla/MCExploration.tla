----------------------------- MODULE MCExploration -----------------------------
(* Two processes; one sound variant, one that the gate rejects, and one    *)
(* that cannot be built.                                                   *)
EXTENDS Exploration

P == "P"
Q == "Q"
Good == [nt |-> 16, tpg |-> 4, smb |-> 8, topo |-> "ring", w |-> 1]
Wide == [Good EXCEPT !.w = 2]
Bad == [Good EXCEPT !.topo = "torus"]
Odd == [Good EXCEPT !.nt = 12, !.tpg = 8]

Search(kind, budget, times) == [kind |-> kind, budget |-> budget, kills |-> times]
Nobody == Search("bo", 0, 0)
Pair(p, q) == [x \in {P, Q} |-> IF x = P THEN p ELSE q]

MCScenes ==
  { Pair(Search("bo", 2, 0), Search("random", 1, 0)),
    Pair(Search("bo", 1, 1), Search("random", 1, 0)),
    Pair(Search("sweep", 3, 0), Nobody),
    Pair(Search("sweep", 1, 1), Nobody),
    Pair(Search("matrix", 2, 0), Nobody),
    Pair(Search("matrix", 1, 1), Nobody),
    Pair(Search("matrix_random", 1, 0), Search("random", 1, 0)),
    Pair(Search("topology", 2, 0), Search("bo", 1, 0)) }
MCConfigs == {Good, Wide, Bad, Odd}
MCSound == {Variant(Good)}
=============================================================================
