---------------------------- MODULE BarrierElim -----------------------------
(***************************************************************************)
(* Barrier elimination (Compiler._sync in tools/edgc/edgc/compile.py) and  *)
(* the program it makes.  The compiler emits the primitives of a model one *)
(* after another; each names the DRAM buffers it reads and writes, and a   *)
(* global barrier goes before it only if it conflicts with a primitive     *)
(* emitted since the last barrier.  The tiles then run their shares, which *)
(* overlap freely between two barriers: the stores of one primitive are    *)
(* still under way when the loads of the next begin.                       *)
(*                                                                         *)
(* The barrier itself is taken from PhaseBarrier, which Barrier implements *)
(* with the instructions: Reach and Leave are its actions.                 *)
(***************************************************************************)
EXTENDS Integers, Sequences

CONSTANTS
  N,          \* isa.NUM_TILES
  Buffers,    \* DRAM buffers
  Accesses,   \* the accesses [rd, wr] a primitive may declare
  MaxPrims    \* bound: primitives in a program

ASSUME ElimAssumption ==
  /\ N \in Nat \ {0} /\ MaxPrims \in Nat
  /\ Accesses \subseteq [rd : SUBSET Buffers, wr : SUBSET Buffers]

Tiles == 0 .. N - 1

VARIABLES
  dep_barriers,    \* dep_barriers: FALSE with EDGC_BARRIER=global
  tr, tw,          \* _tr, _tw: buffers read, written since the last barrier
  emitted_any,     \* _emitted_any
  barrier_count,   \* barrier_count
  prims,           \* the primitives emitted, [rd, wr, phase, width]
  closed,          \* the closing barrier and the halts are emitted
  pos,             \* pos[t]: the primitive tile t starts its share of next
  round,           \* round[t]: barriers tile t has passed
  arrived,         \* arrived[t]: tile t is inside its next barrier
  busy             \* busy[t]: primitives with transfers of t under way

compileVars == <<dep_barriers, tr, tw, emitted_any, barrier_count, prims, closed>>
runVars == <<pos, round, arrived, busy>>
vars == <<compileVars, runVars>>

Init ==
  /\ dep_barriers \in BOOLEAN
  /\ tr = {} /\ tw = {}
  /\ emitted_any = FALSE
  /\ barrier_count = 0
  /\ prims = <<>>
  /\ closed = FALSE
  /\ pos = [t \in Tiles |-> 1]
  /\ round = [t \in Tiles |-> 0]
  /\ arrived = [t \in Tiles |-> FALSE]
  /\ busy = [t \in Tiles |-> {}]

-----------------------------------------------------------------------------
(* The compiler.                                                           *)

\* Faulty: overlooks a buffer that is overwritten while it may still be
\* read; looks for conflicts whatever the mode.
NeedsBarrierNoWar(rd, wr) ==
  IF dep_barriers THEN (rd \cup wr) \cap tw # {} ELSE emitted_any
NeedsBarrierAnyMode(rd, wr) ==
  rd \cap tw # {} \/ wr \cap tw # {} \/ wr \cap tr # {}

\* RAW, WAW or WAR against what was touched since the last barrier.
NeedsBarrier(rd, wr) ==
  IF dep_barriers
  THEN rd \cap tw # {} \/ wr \cap tw # {} \/ wr \cap tr # {}
  ELSE emitted_any

\* One primitive: its _sync, then its blocks, dealt out from tile 0 on, so
\* that the tiles below width get a share.
EmitPrimitive(a, width) ==
  LET barrier == NeedsBarrier(a.rd, a.wr) IN
  /\ ~closed /\ Len(prims) < MaxPrims
  /\ barrier_count' = IF barrier THEN barrier_count + 1 ELSE barrier_count
  /\ tr' = IF barrier THEN a.rd ELSE tr \cup a.rd
  /\ tw' = IF barrier THEN a.wr ELSE tw \cup a.wr
  /\ emitted_any' = TRUE
  /\ prims' = Append(prims, [rd |-> a.rd, wr |-> a.wr,
                             phase |-> barrier_count', width |-> width])
  /\ UNCHANGED <<dep_barriers, closed, runVars>>

\* Faulty: no barrier at the end.
CloseBare ==
  /\ ~closed
  /\ closed' = TRUE
  /\ UNCHANGED <<dep_barriers, tr, tw, emitted_any, barrier_count, prims,
                 runVars>>

\* The closing barrier, then halt on every tile.
Close ==
  /\ ~closed
  /\ closed' = TRUE
  /\ barrier_count' = barrier_count + 1
  /\ UNCHANGED <<dep_barriers, tr, tw, emitted_any, prims, runVars>>

-----------------------------------------------------------------------------
(* The tiles.                                                              *)

InPhase(t) == pos[t] <= Len(prims) /\ prims[pos[t]].phase = round[t]
HasShare(t, i) == t < prims[i].width

\* Tile t goes through the instructions of its share of a primitive; its
\* asynchronous stores stay under way.
Begin(t) ==
  /\ closed /\ ~arrived[t] /\ InPhase(t)
  /\ pos' = [pos EXCEPT ![t] = @ + 1]
  /\ busy' = IF HasShare(t, pos[t])
             THEN [busy EXCEPT ![t] = @ \cup {pos[t]}]
             ELSE busy
  /\ UNCHANGED <<compileVars, round, arrived>>

Finish(t, i) ==
  /\ i \in busy[t]
  /\ busy' = [busy EXCEPT ![t] = @ \ {i}]
  /\ UNCHANGED <<compileVars, pos, round, arrived>>

\* The fence and the release of the next barrier.
Reach(t) ==
  /\ closed /\ ~arrived[t] /\ ~InPhase(t) /\ round[t] < barrier_count
  /\ busy[t] = {}
  /\ arrived' = [arrived EXCEPT ![t] = TRUE]
  /\ UNCHANGED <<compileVars, pos, round, busy>>

\* The acquire that ends it.
Leave(t) ==
  /\ arrived[t]
  /\ \A u \in Tiles : round[u] > round[t] \/ (round[u] = round[t] /\ arrived[u])
  /\ arrived' = [arrived EXCEPT ![t] = FALSE]
  /\ round' = [round EXCEPT ![t] = @ + 1]
  /\ UNCHANGED <<compileVars, pos, busy>>

-----------------------------------------------------------------------------
Compiling == Close \/ \E a \in Accesses, width \in 1 .. N : EmitPrimitive(a, width)
Step(t) == Begin(t) \/ Reach(t) \/ Leave(t)
Drain(t) == \E i \in busy[t] : Finish(t, i)

Next == Compiling \/ \E t \in Tiles : Step(t) \/ Drain(t)

\* The compiler is a sequential program that ends; every tile is ticked in
\* every cycle, its transfers complete (TileDma) and a barrier all tiles
\* have reached lets them go (Barrier).
Fairness ==
  /\ WF_vars(Compiling)
  /\ \A t \in Tiles : WF_vars(Step(t)) /\ WF_vars(Drain(t))

Spec == Init /\ [][Next]_vars /\ Fairness

-----------------------------------------------------------------------------
Prim == [rd : SUBSET Buffers, wr : SUBSET Buffers, phase : Nat, width : 1 .. N]

TypeOK ==
  /\ dep_barriers \in BOOLEAN
  /\ tr \subseteq Buffers /\ tw \subseteq Buffers
  /\ emitted_any \in BOOLEAN
  /\ barrier_count \in Nat
  /\ prims \in Seq(Prim)
  /\ closed \in BOOLEAN
  /\ pos \in [Tiles -> Nat \ {0}]
  /\ round \in [Tiles -> 0 .. barrier_count]
  /\ arrived \in [Tiles -> BOOLEAN]
  /\ busy \in [Tiles -> SUBSET (DOMAIN prims)]

Conflict(p, q) ==
  p.wr \cap q.rd # {} \/ p.wr \cap q.wr # {} \/ p.rd \cap q.wr # {}

Begun(t, j) == j < pos[t] /\ HasShare(t, j)
Done(t, i) == HasShare(t, i) => i < pos[t] /\ i \notin busy[t]

\* The schedule is as good as running the primitives one by one: when a tile
\* begins one that depends on an earlier one, or that overwrites what an
\* earlier one reads, the earlier one is complete on every tile.
SerialOrder ==
  \A i, j \in DOMAIN prims :
    i < j /\ Conflict(prims[i], prims[j]) =>
      \A t, u \in Tiles : Begun(t, j) => Done(u, i)

\* Primitive j calls for a barrier: in the global mode every one does,
\* otherwise one that conflicts with a primitive since the last barrier.
CallsForBarrier(j) ==
  \/ ~dep_barriers
  \/ \E i \in 1 .. j - 1 : /\ prims[i].phase = prims[j - 1].phase
                            /\ Conflict(prims[i], prims[j])

\* Barriers are where they are called for and nowhere else: without a conflict
\* none is emitted ("independent primitives that share an input run without an
\* intervening barrier"), and the global mode leaves none out.
BarriersAreExact ==
  \A j \in DOMAIN prims : j > 1 =>
    prims[j].phase = prims[j - 1].phase + (IF CallsForBarrier(j) THEN 1 ELSE 0)

\* When one tile halts, every store of every tile is complete: the dump
\* "reads a fully-committed image".
HaltedIsCommitted ==
  (\E t \in Tiles : closed /\ ~InPhase(t) /\ round[t] = barrier_count) =>
    \A u \in Tiles, i \in DOMAIN prims : Done(u, i)
=============================================================================
