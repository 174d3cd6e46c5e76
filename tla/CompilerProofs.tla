---------------------------- MODULE CompilerProofs -----------------------------
(***************************************************************************)
(* What is proved of the compiler edgc.                                    *)
(*                                                                         *)
(* BarrierElim.  For every number of tiles, every set of buffers and every *)
(* program: the schedule barrier elimination leaves is as ordered as the   *)
(* serial one, and its barriers are exactly those a conflict, or the       *)
(* global mode, calls for.  Neither is inductive.                          *)
(* IInv adds, on the compiler's side, that tr and tw are exactly what the  *)
(* current phase reads and writes and that phases never decrease; on the   *)
(* tiles' side, that a tile's position in the program agrees with its      *)
(* round and that no tile is a whole barrier ahead of another.             *)
(*                                                                         *)
(* EdgeMachine.  For programs of any length on any number of tiles, and    *)
(* every order in which the tiles take turns, three facts that can be read *)
(* off the programs decide what their runs do.  When every conflict is     *)
(* behind a fence, a WAIT_MXU or a release and an acquire (Scheduled), no  *)
(* instruction meets a hazard; when every operand was written as a whole   *)
(* before (Defined), none reads a block that is not there; and when there  *)
(* is an assignment V of values to what the instructions write that is     *)
(* right instruction by instruction (Evaluates) and puts the reference's   *)
(* blocks into DRAM (AsReference), every run does.  The eight programs of  *)
(* EdgeConfigs are like that (Correct); TLC evaluates it.                  *)
(*                                                                         *)
(* The invariants say where a run is in its programs.  OrderInv: what is   *)
(* under way was issued and not waited for, no join counter is above what  *)
(* has been released, and a tile that has passed an acquire has been       *)
(* released by everyone.  ValueInv: what has been written and not touched  *)
(* since is still in LOCAL, what has been stored is in DRAM.  AgreeInv:    *)
(* both hold what V says.                                                  *)
(***************************************************************************)
EXTENDS BarrierElim, EdgeMachine, FiniteSetTheorems, TLAPS

-----------------------------------------------------------------------------
(* Barrier elimination.                                                    *)

Phase(i) == prims[i].phase

\* The phases of the primitives emitted so far.
PhasesGrow ==
  /\ \A i, j \in DOMAIN prims : i <= j => Phase(i) <= Phase(j)
  /\ \A i \in DOMAIN prims : Phase(i) <= barrier_count
  /\ closed => \A i \in DOMAIN prims : Phase(i) < barrier_count
  /\ ~closed /\ prims # <<>> => Phase(Len(prims)) = barrier_count
  /\ ~emitted_any => prims = <<>>

\* While the compiler is at work, tr and tw are the accesses of the phase.
TouchedIsExact ==
  ~closed =>
    /\ \A i \in DOMAIN prims : Phase(i) = barrier_count =>
         prims[i].rd \subseteq tr /\ prims[i].wr \subseteq tw
    /\ \A b \in tr : \E i \in DOMAIN prims :
         Phase(i) = barrier_count /\ b \in prims[i].rd
    /\ \A b \in tw : \E i \in DOMAIN prims :
         Phase(i) = barrier_count /\ b \in prims[i].wr

ConflictsSeparated ==
  \A i, j \in DOMAIN prims :
    i < j /\ Conflict(prims[i], prims[j]) => Phase(i) < Phase(j)

NotStarted ==
  ~closed => \A t \in Tiles :
    pos[t] = 1 /\ round[t] = 0 /\ ~arrived[t] /\ busy[t] = {}

\* Where a tile stands in the program.
Position ==
  \A t \in Tiles :
    /\ \A i \in DOMAIN prims : i < pos[t] => Phase(i) <= round[t]
    /\ \A i \in DOMAIN prims : i >= pos[t] => Phase(i) >= round[t]
    /\ \A i \in busy[t] : i < pos[t] /\ Phase(i) = round[t]
    /\ arrived[t] => busy[t] = {} /\ ~InPhase(t) /\ round[t] < barrier_count

NoTileAhead ==
  \A t, u \in Tiles :
    /\ round[t] <= round[u] + 1
    /\ round[t] = round[u] + 1 => arrived[u]

IInv ==
  /\ TypeOK
  /\ PhasesGrow /\ TouchedIsExact /\ ConflictsSeparated /\ BarriersAreExact
  /\ NotStarted /\ Position /\ NoTileAhead

USE ElimAssumption

-----------------------------------------------------------------------------
\* What the types of the primitives mean, for the steps below.
LEMMA PrimTypes ==
  ASSUME TypeOK
  PROVE  /\ DOMAIN prims = 1 .. Len(prims) /\ Len(prims) \in Nat
         /\ \A i \in DOMAIN prims : /\ prims[i] \in Prim /\ i \in Nat /\ i >= 1
                                   /\ Phase(i) \in Nat
<1>1. prims \in Seq(Prim)
  BY DEF TypeOK
<1>2. \A p \in Prim : p.phase \in Nat
  BY DEF Prim
<1> QED  BY <1>1, <1>2 DEF Phase

\* The invariant holds at the start.
LEMMA InitIInv == Init => IInv
<1> SUFFICES ASSUME Init PROVE IInv
  OBVIOUS
<1>1. prims = <<>> /\ DOMAIN prims = {} /\ prims \in Seq(Prim) /\ tr = {} /\ tw = {}
  BY DEF Init
<1>2. barrier_count = 0 /\ emitted_any = FALSE /\ closed = FALSE
      /\ dep_barriers \in BOOLEAN
  BY Zenon DEF Init
<1>3. \A t \in Tiles : pos[t] = 1 /\ round[t] = 0 /\ arrived[t] = FALSE /\ busy[t] = {}
  BY DEF Init
<1>4. TypeOK
  <2>1. round \in [Tiles -> 0 .. barrier_count] /\ pos \in [Tiles -> Nat \ {0}]
    BY <1>2 DEF Init
  <2>2. busy \in [Tiles -> SUBSET (DOMAIN prims)] /\ arrived \in [Tiles -> BOOLEAN]
    BY DEF Init
  <2>3. barrier_count \in Nat
    BY <1>2
  <2> QED  BY <1>1, <1>2, <2>1, <2>2, <2>3, Zenon DEF TypeOK
<1>5. PhasesGrow /\ TouchedIsExact /\ ConflictsSeparated /\ BarriersAreExact
  BY <1>1, <1>2 DEF PhasesGrow, TouchedIsExact, ConflictsSeparated, BarriersAreExact
<1>6. NotStarted /\ Position /\ NoTileAhead
  BY <1>1, <1>3 DEF NotStarted, Position, NoTileAhead
<1> QED  BY <1>4, <1>5, <1>6 DEF IInv

\* A primitive is emitted, after a barrier if it needs one.
LEMMA EmitIInv ==
  ASSUME IInv, NEW a \in Accesses, NEW width \in 1 .. N, EmitPrimitive(a, width)
  PROVE  IInv'
<1> DEFINE barrier == NeedsBarrier(a.rd, a.wr)
<1>k. PICK k \in Nat : k = Len(prims) + 1
  BY DEF IInv, TypeOK
<1>0. /\ TypeOK /\ PhasesGrow /\ TouchedIsExact /\ ConflictsSeparated
      /\ BarriersAreExact /\ NotStarted
  BY DEF IInv
<1> USE <1>0
<1>1. a.rd \subseteq Buffers /\ a.wr \subseteq Buffers
  OBVIOUS
<1>2. PICK p \in Prim :
        /\ p = [rd |-> a.rd, wr |-> a.wr, phase |-> barrier_count', width |-> width]
        /\ prims' = Append(prims, p)
        /\ p.rd = a.rd /\ p.wr = a.wr /\ p.phase = barrier_count'
  <2>1. barrier_count' \in Nat
    BY DEF EmitPrimitive, TypeOK
  <2> QED  BY <1>1, <2>1 DEF EmitPrimitive, Prim
<1>3. /\ Len(prims') = k /\ k \in Nat /\ k >= 1
      /\ DOMAIN prims' = DOMAIN prims \cup {k} /\ k \notin DOMAIN prims
      /\ \A i \in DOMAIN prims : prims'[i] = prims[i] /\ i \in Nat /\ i < k
      /\ prims'[k] = p
      /\ prims' \in Seq(Prim)
  BY <1>2, <1>k DEF TypeOK
<1>4. /\ ~closed /\ ~closed'
      /\ UNCHANGED runVars /\ closed' = closed
      /\ barrier => barrier_count' = barrier_count + 1 /\ tr' = a.rd /\ tw' = a.wr
      /\ ~barrier => barrier_count' = barrier_count /\ tr' = tr \cup a.rd /\ tw' = tw \cup a.wr
      /\ emitted_any' = TRUE /\ dep_barriers' = dep_barriers
  BY Zenon DEF EmitPrimitive, barrier
<1>5. barrier_count \in Nat /\ barrier_count' \in Nat /\ barrier_count' >= barrier_count
  BY <1>4 DEF TypeOK
<1>6. TypeOK'
  <2>1. round' \in [Tiles -> 0 .. barrier_count']
    BY <1>4, <1>5 DEF TypeOK, runVars
  <2>2. busy' \in [Tiles -> SUBSET (DOMAIN prims')]
    BY <1>3, <1>4 DEF TypeOK, runVars
  <2>3. tr' \subseteq Buffers /\ tw' \subseteq Buffers
    BY <1>1, <1>4 DEF TypeOK
  <2>4. pos' \in [Tiles -> Nat \ {0}] /\ arrived' \in [Tiles -> BOOLEAN]
    BY <1>4 DEF TypeOK, runVars
  <2>5. dep_barriers' \in BOOLEAN /\ emitted_any' \in BOOLEAN /\ closed' \in BOOLEAN
    BY <1>4, Zenon DEF TypeOK
  <2> QED  BY <1>3, <1>5, <2>1, <2>2, <2>3, <2>4, <2>5, Zenon DEF TypeOK
<1>7. \A i \in DOMAIN prims : Phase(i)' = Phase(i) /\ Phase(i) \in Nat
                              /\ Phase(i) <= barrier_count
  BY <1>3, <1>5, PrimTypes DEF Phase, PhasesGrow
<1>8. Phase(k)' = barrier_count'
  BY <1>2, <1>3 DEF Phase
<1>9. PhasesGrow'
  BY <1>3, <1>4, <1>5, <1>7, <1>8 DEF PhasesGrow
<1>10. TouchedIsExact'
  <2>1. CASE barrier
    BY <2>1, <1>2, <1>3, <1>4, <1>5, <1>7, <1>8 DEF TouchedIsExact, Phase
  <2>2. CASE ~barrier
    <3>1. \A i \in DOMAIN prims' : Phase(i)' = barrier_count' =>
            (prims'[i].rd \subseteq tr' /\ prims'[i].wr \subseteq tw')
      BY <2>2, <1>2, <1>3, <1>4, <1>7, <1>8 DEF TouchedIsExact
    <3>2. \A b \in tr' : \E i \in DOMAIN prims' :
            Phase(i)' = barrier_count' /\ b \in prims'[i].rd
      BY <2>2, <1>2, <1>3, <1>4, <1>7, <1>8 DEF TouchedIsExact
    <3>3. \A b \in tw' : \E i \in DOMAIN prims' :
            Phase(i)' = barrier_count' /\ b \in prims'[i].wr
      BY <2>2, <1>2, <1>3, <1>4, <1>7, <1>8 DEF TouchedIsExact
    <3> QED  BY <3>1, <3>2, <3>3 DEF TouchedIsExact
  <2> QED  BY <2>1, <2>2
<1>11. ConflictsSeparated'
  <2>1. ASSUME NEW i \in DOMAIN prims, Conflict(prims[i], p)
        PROVE  Phase(i) < barrier_count'
    <3>1. CASE barrier
      BY <3>1, <1>4, <1>5, <1>7
    <3>2. CASE ~barrier /\ Phase(i) = barrier_count
      <4>1. emitted_any
        BY <1>3 DEF PhasesGrow
      <4>2. dep_barriers
        BY <3>2, <4>1, Zenon DEF barrier, NeedsBarrier
      <4>3. prims[i].rd \subseteq tr /\ prims[i].wr \subseteq tw
        BY <3>2, <1>4 DEF TouchedIsExact
      <4>4. a.rd \cap tw = {} /\ a.wr \cap tw = {} /\ a.wr \cap tr = {}
        BY <3>2, <4>2, Zenon DEF barrier, NeedsBarrier
      <4> QED  BY <2>1, <1>2, <4>3, <4>4 DEF Conflict
    <3> QED  BY <3>1, <3>2, <1>4, <1>5, <1>7
  <2> QED  BY <2>1, <1>3, <1>7, <1>8 DEF ConflictsSeparated
<1>12. BarriersAreExact'
  <2>1. \A i \in 1 .. k - 1 : i \in DOMAIN prims
    BY <1>k DEF TypeOK
  <2>2. ASSUME k > 1 PROVE CallsForBarrier(k)' <=> barrier
    <3>1. prims # <<>> /\ emitted_any
      BY <2>2, <1>k DEF PhasesGrow
    <3>2. prims[k - 1].phase = barrier_count /\ k - 1 \in DOMAIN prims
      BY <2>1, <2>2, <3>1, <1>4, <1>k DEF PhasesGrow, Phase
    <3>3. CASE ~dep_barriers
      <4>1. barrier
        BY <3>1, <3>3, Zenon DEF barrier, NeedsBarrier
      <4> QED  BY <4>1, <3>3, <1>4 DEF CallsForBarrier
    <3>4. CASE dep_barriers
      <4>1. barrier <=> \E b : \/ b \in a.rd /\ b \in tw
                               \/ b \in a.wr /\ b \in tw
                               \/ b \in a.wr /\ b \in tr
        BY <3>4 DEF barrier, NeedsBarrier
      <4>2. barrier <=> \E i \in DOMAIN prims : /\ prims[i].phase = barrier_count
                                                 /\ Conflict(prims[i], p)
        BY <4>1, <1>2, <1>4 DEF TouchedIsExact, Phase, Conflict
      <4>3. /\ \A i \in 1 .. k - 1 : prims'[i] = prims[i]
            /\ DOMAIN prims = 1 .. k - 1 /\ prims'[k - 1] = prims[k - 1]
        BY <2>1, <3>2, <1>3, <1>k DEF TypeOK
      <4>4. CallsForBarrier(k)' <=>
              \E i \in DOMAIN prims : /\ prims[i].phase = barrier_count
                                      /\ Conflict(prims[i], p)
        BY <3>2, <3>4, <4>3, <1>3, <1>4 DEF CallsForBarrier, Conflict
      <4> QED  BY <4>2, <4>4
    <3> QED  BY <3>3, <3>4
  <2>3. ASSUME NEW j \in DOMAIN prims', j > 1
        PROVE  prims'[j].phase
                 = prims'[j - 1].phase + (IF CallsForBarrier(j)' THEN 1 ELSE 0)
    <3>1. CASE j = k
      <4>1. prims[k - 1].phase = barrier_count /\ prims'[k - 1] = prims[k - 1]
        BY <2>1, <2>3, <3>1, <1>3, <1>4, <1>k DEF PhasesGrow, Phase
      <4>2. p.phase = barrier_count + (IF barrier THEN 1 ELSE 0)
        BY <1>2, <1>4, <1>5
      <4> QED  BY <2>2, <2>3, <3>1, <4>1, <4>2, <1>3
    <3>2. CASE j # k
      <4>1. j \in DOMAIN prims /\ \A i \in 1 .. j : i \in DOMAIN prims /\ prims'[i] = prims[i]
        BY <3>2, <1>3, <1>k DEF TypeOK
      <4>2. j - 1 \in 1 .. j /\ j \in 1 .. j /\ \A i \in 1 .. j - 1 : i \in 1 .. j
        BY <2>3, <1>3, <1>k, <4>1
      <4>3. CallsForBarrier(j)' <=> CallsForBarrier(j)
        BY <4>1, <4>2, <1>4 DEF CallsForBarrier, Conflict
      <4> QED  BY <2>3, <4>1, <4>2, <4>3 DEF BarriersAreExact
    <3> QED  BY <3>1, <3>2
  <2> QED  BY <2>3 DEF BarriersAreExact
<1>13. NotStarted'
  BY <1>4 DEF NotStarted, runVars
<1>14. Position'
  <2> SUFFICES ASSUME NEW t \in Tiles
               PROVE  /\ \A i \in DOMAIN prims' : i < pos'[t] => Phase(i)' <= round'[t]
                      /\ \A i \in DOMAIN prims' : i >= pos'[t] => Phase(i)' >= round'[t]
                      /\ \A i \in busy'[t] : i < pos'[t] /\ Phase(i)' = round'[t]
                      /\ arrived'[t] => (busy[t] = {} /\ ~InPhase(t) /\ round[t] < barrier_count)'
    BY DEF Position
  <2>1. pos'[t] = 1 /\ round'[t] = 0 /\ ~arrived'[t] /\ busy'[t] = {}
    BY <1>4 DEF NotStarted, runVars
  <2> QED  BY <2>1, <1>3, <1>5, <1>7, <1>8, PrimTypes
<1>15. NoTileAhead'
  BY <1>4 DEF NotStarted, NoTileAhead, runVars
<1> QED  BY <1>6, <1>9, <1>10, <1>11, <1>12, <1>13, <1>14, <1>15, Zenon DEF IInv

\* The program is finished, and the tiles may start.
LEMMA CloseIInv == ASSUME IInv, Close PROVE IInv'
<1>0. /\ TypeOK /\ PhasesGrow /\ TouchedIsExact /\ ConflictsSeparated
      /\ BarriersAreExact /\ NotStarted
  BY DEF IInv
<1> USE <1>0
<1>1. barrier_count \in Nat /\ barrier_count' = barrier_count + 1 /\ closed'
      /\ ~closed /\ UNCHANGED <<tr, tw, emitted_any, dep_barriers, prims, runVars>>
  BY DEF Close, TypeOK
<1>2. \A t \in Tiles : pos[t] = 1 /\ round[t] = 0 /\ ~arrived[t] /\ busy[t] = {}
  BY <1>1 DEF NotStarted
<1>3. TypeOK'
  <2>1. round' \in [Tiles -> 0 .. barrier_count']
    BY <1>1 DEF TypeOK, runVars
  <2> QED  BY <1>1, <2>1 DEF TypeOK, runVars
<1>4. \A i \in DOMAIN prims : Phase(i)' = Phase(i) /\ Phase(i) \in Nat
                              /\ Phase(i) <= barrier_count
  BY <1>1, PrimTypes DEF Phase, PhasesGrow
<1>5. PhasesGrow'
  BY <1>1, <1>4 DEF PhasesGrow
<1>6. TouchedIsExact' /\ NotStarted'
  BY <1>1 DEF TouchedIsExact, NotStarted
<1>7. ConflictsSeparated'
  BY <1>1 DEF ConflictsSeparated, Phase
<1>8. BarriersAreExact'
  BY <1>1 DEF BarriersAreExact, CallsForBarrier, Conflict
<1>9. Position'
  BY <1>1, <1>2, <1>4, PrimTypes DEF Position, runVars
<1>10. NoTileAhead'
  BY <1>1, <1>2 DEF NoTileAhead, runVars
<1> QED  BY <1>3, <1>5, <1>6, <1>7, <1>8, <1>9, <1>10, Zenon DEF IInv

-----------------------------------------------------------------------------
(* The steps of a tile leave the program alone.                            *)

\* What the invariant says of the program alone, while that stays.
LEMMA ProgramStays ==
  ASSUME IInv, UNCHANGED compileVars, closed
  PROVE  /\ PhasesGrow' /\ TouchedIsExact' /\ ConflictsSeparated'
         /\ BarriersAreExact' /\ NotStarted'
         /\ closed' = closed /\ barrier_count' = barrier_count /\ prims' = prims
         /\ \A i : Phase(i)' = Phase(i)
<1>1. UNCHANGED <<dep_barriers, tr, tw, emitted_any, barrier_count, prims, closed>>
  BY DEF compileVars
<1>2. PhasesGrow' /\ TouchedIsExact'
  BY <1>1 DEF IInv, PhasesGrow, TouchedIsExact, Phase
<1>3. ConflictsSeparated' /\ BarriersAreExact' /\ NotStarted'
  BY <1>1 DEF IInv, ConflictsSeparated, BarriersAreExact, CallsForBarrier, NotStarted, Phase
<1> QED  BY <1>1, <1>2, <1>3 DEF Phase

\* The ranges of the tiles' variables.
LEMMA RunTypes ==
  ASSUME IInv
  PROVE  /\ barrier_count \in Nat
         /\ pos \in [Tiles -> Nat \ {0}] /\ round \in [Tiles -> 0 .. barrier_count]
         /\ arrived \in [Tiles -> BOOLEAN]
         /\ busy \in [Tiles -> SUBSET (DOMAIN prims)]
         /\ \A t \in Tiles : round[t] \in Nat /\ pos[t] \in Nat /\ pos[t] >= 1
                            /\ round[t] <= barrier_count
<1>1. /\ barrier_count \in Nat
      /\ pos \in [Tiles -> Nat \ {0}] /\ round \in [Tiles -> 0 .. barrier_count]
      /\ arrived \in [Tiles -> BOOLEAN]
      /\ busy \in [Tiles -> SUBSET (DOMAIN prims)]
  BY DEF IInv, TypeOK
<1> QED  BY <1>1

\* TypeOK of the next state from the four variables a tile's step changes.
LEMMA RunTypeOK ==
  ASSUME IInv, UNCHANGED compileVars,
         pos' \in [Tiles -> Nat \ {0}], round' \in [Tiles -> 0 .. barrier_count],
         arrived' \in [Tiles -> BOOLEAN], busy' \in [Tiles -> SUBSET (DOMAIN prims)]
  PROVE  TypeOK'
<1>1. /\ dep_barriers' = dep_barriers /\ tr' = tr /\ tw' = tw
      /\ emitted_any' = emitted_any /\ barrier_count' = barrier_count
      /\ prims' = prims /\ closed' = closed
  BY DEF compileVars
<1> QED  BY <1>1, Zenon DEF IInv, TypeOK

\* Before the program is there, no tile has done anything.
LEMMA StartedIsClosed ==
  ASSUME IInv, NEW t \in Tiles, arrived[t] \/ busy[t] # {}
  PROVE  closed
  BY DEF IInv, NotStarted

\* A tile starts its share of a primitive.
LEMMA BeginIInv == ASSUME IInv, NEW t \in Tiles, Begin(t) PROVE IInv'
<1>1. closed /\ UNCHANGED compileVars /\ round' = round /\ arrived' = arrived
      /\ ~arrived[t]
  BY DEF Begin
<1>2. pos[t] \in DOMAIN prims /\ Phase(pos[t]) = round[t]
      /\ pos' = [pos EXCEPT ![t] = @ + 1]
  BY RunTypes, PrimTypes DEF Begin, InPhase, Phase, IInv
<1>3. /\ \A u \in Tiles : u # t => busy'[u] = busy[u]
      /\ busy[t] \subseteq busy'[t] /\ busy'[t] \subseteq busy[t] \cup {pos[t]}
      /\ busy' \in [Tiles -> SUBSET (DOMAIN prims)]
  BY <1>2, RunTypes DEF Begin
<1>4. TypeOK'
  <2>1. pos' \in [Tiles -> Nat \ {0}]
    BY <1>2, RunTypes
  <2> QED  BY <1>1, <1>3, <2>1, RunTypes, RunTypeOK
<1>5. Position'
  <2>1. \A u \in Tiles : u # t => pos'[u] = pos[u]
    BY <1>2, RunTypes
  <2>2. pos'[t] = pos[t] + 1
    BY <1>2, RunTypes
  <2>3. \A i \in DOMAIN prims : i >= pos[t] => Phase(i) >= Phase(pos[t])
    BY <1>2 DEF IInv, PhasesGrow
  <2> SUFFICES ASSUME NEW u \in Tiles
               PROVE  /\ \A i \in DOMAIN prims : i < pos'[u] => Phase(i) <= round[u]
                      /\ \A i \in DOMAIN prims : i >= pos'[u] => Phase(i) >= round[u]
                      /\ \A i \in busy'[u] : i < pos'[u] /\ Phase(i) = round[u]
                      /\ arrived[u] => (busy[u] = {} /\ ~InPhase(u)
                                         /\ round[u] < barrier_count)'
    BY <1>1, ProgramStays DEF Position
  <2>4. CASE u # t
    <3>1. InPhase(u)' = InPhase(u)
      BY <2>1, <2>4, <1>1, ProgramStays DEF InPhase
    <3> QED  BY <2>1, <2>4, <3>1, <1>1, <1>3, ProgramStays DEF IInv, Position
  <2>5. CASE u = t
    <3>1. \A i \in DOMAIN prims : i < pos[t] + 1 => i < pos[t] \/ i = pos[t]
      BY RunTypes, PrimTypes DEF IInv
    <3>2. \A i \in DOMAIN prims : i >= pos[t] + 1 => i >= pos[t]
      BY RunTypes, PrimTypes DEF IInv
    <3>3. \A i \in busy'[t] : i < pos[t] + 1 /\ Phase(i) = round[t]
      BY <1>2, <1>3, RunTypes, PrimTypes DEF IInv, Position
    <3> QED  BY <2>2, <2>3, <2>5, <3>1, <3>2, <3>3, <1>1, <1>2, RunTypes, PrimTypes
             DEF IInv, Position
  <2> QED  BY <2>4, <2>5
<1>6. NoTileAhead'
  BY <1>1 DEF IInv, NoTileAhead
<1> QED  BY <1>1, <1>4, <1>5, <1>6, ProgramStays DEF IInv

\* A share is finished.
LEMMA FinishIInv ==
  ASSUME IInv, NEW t \in Tiles, NEW i \in busy[t], Finish(t, i) PROVE IInv'
<1>1. closed /\ UNCHANGED <<compileVars, pos, round, arrived>>
  BY StartedIsClosed DEF Finish
<1>2. /\ \A u \in Tiles : busy'[u] \subseteq busy[u]
      /\ busy' \in [Tiles -> SUBSET (DOMAIN prims)]
  BY RunTypes DEF Finish
<1>3. TypeOK'
  BY <1>1, <1>2, RunTypes, RunTypeOK
<1>4. Position'
  <2>1. \A u \in Tiles : InPhase(u)' = InPhase(u)
    BY <1>1, ProgramStays DEF InPhase
  <2> SUFFICES ASSUME NEW u \in Tiles
               PROVE  /\ \A j \in DOMAIN prims : j < pos[u] => Phase(j) <= round[u]
                      /\ \A j \in DOMAIN prims : j >= pos[u] => Phase(j) >= round[u]
                      /\ \A j \in busy'[u] : j < pos[u] /\ Phase(j) = round[u]
                      /\ arrived[u] => busy'[u] = {} /\ ~InPhase(u)'
                                        /\ round[u] < barrier_count
    BY <1>1, ProgramStays DEF Position
  <2>2. /\ \A j \in DOMAIN prims : j < pos[u] => Phase(j) <= round[u]
        /\ \A j \in DOMAIN prims : j >= pos[u] => Phase(j) >= round[u]
        /\ \A j \in busy[u] : j < pos[u] /\ Phase(j) = round[u]
        /\ arrived[u] => busy[u] = {} /\ ~InPhase(u) /\ round[u] < barrier_count
    BY DEF IInv, Position
  <2> QED  BY <2>1, <2>2, <1>2
<1>5. NoTileAhead'
  BY <1>1 DEF IInv, NoTileAhead
<1> QED  BY <1>1, <1>3, <1>4, <1>5, ProgramStays DEF IInv

\* A tile comes to the barrier after its phase.
LEMMA ReachIInv == ASSUME IInv, NEW t \in Tiles, Reach(t) PROVE IInv'
<1>1. closed /\ UNCHANGED <<compileVars, pos, round, busy>>
      /\ busy[t] = {} /\ ~InPhase(t) /\ round[t] < barrier_count
  BY DEF Reach
<1>2. /\ \A u \in Tiles : u # t => arrived'[u] = arrived[u]
      /\ arrived'[t] = TRUE /\ arrived' \in [Tiles -> BOOLEAN]
  BY RunTypes DEF Reach
<1>3. TypeOK'
  BY <1>1, <1>2, RunTypes, RunTypeOK
<1>4. Position'
  <2>1. \A u \in Tiles : InPhase(u)' = InPhase(u)
    BY <1>1, ProgramStays DEF InPhase
  <2> SUFFICES ASSUME NEW u \in Tiles
               PROVE  /\ \A j \in DOMAIN prims : j < pos[u] => Phase(j) <= round[u]
                      /\ \A j \in DOMAIN prims : j >= pos[u] => Phase(j) >= round[u]
                      /\ \A j \in busy[u] : j < pos[u] /\ Phase(j) = round[u]
                      /\ arrived'[u] => busy[u] = {} /\ ~InPhase(u)'
                                        /\ round[u] < barrier_count
    BY <1>1, ProgramStays DEF Position
  <2>2. /\ \A j \in DOMAIN prims : j < pos[u] => Phase(j) <= round[u]
        /\ \A j \in DOMAIN prims : j >= pos[u] => Phase(j) >= round[u]
        /\ \A j \in busy[u] : j < pos[u] /\ Phase(j) = round[u]
        /\ arrived[u] => busy[u] = {} /\ ~InPhase(u) /\ round[u] < barrier_count
    BY DEF IInv, Position
  <2> QED  BY <2>1, <2>2, <1>1, <1>2
<1>5. NoTileAhead'
  BY <1>1, <1>2 DEF IInv, NoTileAhead
<1> QED  BY <1>1, <1>3, <1>4, <1>5, ProgramStays DEF IInv

\* A tile leaves a barrier that all have reached.
LEMMA LeaveIInv == ASSUME IInv, NEW t \in Tiles, Leave(t) PROVE IInv'
<1>1. closed /\ UNCHANGED <<compileVars, pos, busy>> /\ arrived[t]
  BY StartedIsClosed DEF Leave
<1>2. busy[t] = {} /\ ~InPhase(t) /\ round[t] < barrier_count
  BY <1>1 DEF IInv, Position
<1>3. /\ \A u \in Tiles : u # t => round'[u] = round[u] /\ arrived'[u] = arrived[u]
      /\ round'[t] = round[t] + 1 /\ arrived'[t] = FALSE
      /\ arrived' \in [Tiles -> BOOLEAN]
  BY RunTypes DEF Leave
<1>4. TypeOK'
  <2>1. round[t] + 1 \in 0 .. barrier_count
    BY <1>2, RunTypes
  <2>2. round' = [round EXCEPT ![t] = round[t] + 1]
    BY DEF Leave
  <2>3. round' \in [Tiles -> 0 .. barrier_count]
    BY <2>1, <2>2, RunTypes
  <2> QED  BY <1>1, <1>3, <2>3, RunTypes, RunTypeOK
<1>5. Position'
  <2>1. \A u \in Tiles : InPhase(u)' = (pos[u] <= Len(prims) /\ Phase(pos[u]) = round'[u])
    BY <1>1, ProgramStays DEF InPhase, Phase
  <2>2. \A i \in DOMAIN prims : i >= pos[t] => Phase(i) >= round[t] + 1
    <3>1. SUFFICES ASSUME NEW i \in DOMAIN prims, i >= pos[t]
                   PROVE  Phase(i) >= round[t] + 1
      OBVIOUS
    <3>2. pos[t] \in DOMAIN prims
      BY <3>1, RunTypes, PrimTypes DEF IInv
    <3>3. Phase(pos[t]) # round[t]
      BY <3>2, <1>2, PrimTypes DEF IInv, InPhase, Phase
    <3>4. Phase(pos[t]) >= round[t] /\ Phase(i) >= Phase(pos[t])
      BY <3>1, <3>2, RunTypes DEF IInv, Position, PhasesGrow
    <3> QED  BY <3>2, <3>3, <3>4, RunTypes, PrimTypes DEF IInv
  <2>3. \A i \in DOMAIN prims : i < pos[t] => Phase(i) <= round[t] + 1
    BY RunTypes, PrimTypes DEF IInv, Position
  <2> SUFFICES ASSUME NEW u \in Tiles
               PROVE  /\ \A i \in DOMAIN prims : i < pos[u] => Phase(i) <= round'[u]
                      /\ \A i \in DOMAIN prims : i >= pos[u] => Phase(i) >= round'[u]
                      /\ \A i \in busy[u] : i < pos[u] /\ Phase(i) = round'[u]
                      /\ arrived'[u] => busy[u] = {} /\ ~InPhase(u)'
                                         /\ round'[u] < barrier_count
    BY <1>1, ProgramStays DEF Position
  <2>4. CASE u # t
    <3>1. InPhase(u)' = InPhase(u)
      BY <2>1, <2>4, <1>3 DEF InPhase, Phase
    <3> QED  BY <2>4, <3>1, <1>3 DEF IInv, Position
  <2>5. CASE u = t
    BY <2>2, <2>3, <2>5, <1>2, <1>3
  <2> QED  BY <2>4, <2>5
<1>6. NoTileAhead'
  <2>1. \A u \in Tiles : round[u] > round[t] \/ (round[u] = round[t] /\ arrived[u])
    BY DEF Leave
  <2> SUFFICES ASSUME NEW v \in Tiles, NEW u \in Tiles
               PROVE  /\ round'[v] <= round'[u] + 1
                      /\ round'[v] = round'[u] + 1 => arrived'[u]
    BY DEF NoTileAhead
  <2>2. CASE v = t
    BY <2>1, <2>2, <1>3, RunTypes
  <2>3. CASE v # t /\ u = t
    BY <2>1, <2>3, <1>3, RunTypes DEF IInv, NoTileAhead
  <2>4. CASE v # t /\ u # t
    BY <2>4, <1>3 DEF IInv, NoTileAhead
  <2> QED  BY <2>2, <2>3, <2>4
<1> QED  BY <1>1, <1>4, <1>5, <1>6, ProgramStays DEF IInv

-----------------------------------------------------------------------------
\* Every step keeps the invariant.
LEMMA NextIInv == IInv /\ [Next]_vars => IInv'
<1> SUFFICES ASSUME IInv, [Next]_vars PROVE IInv'
  OBVIOUS
<1>1. ASSUME NEW a \in Accesses, NEW width \in 1 .. N, EmitPrimitive(a, width) PROVE IInv'
  BY <1>1, EmitIInv
<1>2. CASE Close
  BY <1>2, CloseIInv
<1>3. ASSUME NEW t \in Tiles, Step(t) PROVE IInv'
  BY <1>3, BeginIInv, ReachIInv, LeaveIInv DEF Step
<1>4. ASSUME NEW t \in Tiles, Drain(t) PROVE IInv'
  BY <1>4, FinishIInv DEF Drain
<1>5. CASE UNCHANGED vars
  <2>1. UNCHANGED <<dep_barriers, tr, tw, emitted_any, barrier_count, prims,
                    closed, pos, round, arrived, busy>>
    BY <1>5 DEF vars, compileVars, runVars
  <2>2. TypeOK' /\ PhasesGrow' /\ TouchedIsExact' /\ ConflictsSeparated'
    BY <2>1 DEF IInv, TypeOK, PhasesGrow, TouchedIsExact, ConflictsSeparated, Phase
  <2>3. BarriersAreExact' /\ NotStarted' /\ Position' /\ NoTileAhead'
    BY <2>1 DEF IInv, BarriersAreExact, CallsForBarrier, NotStarted, Position, NoTileAhead,
                Phase, InPhase
  <2> QED  BY <2>2, <2>3 DEF IInv
<1> QED  BY <1>1, <1>2, <1>3, <1>4, <1>5 DEF Next, Compiling

\* When round r is reached somewhere, everything of earlier phases is over.
LEMMA EarlierPhasesDone ==
  ASSUME IInv, NEW t \in Tiles, NEW u \in Tiles,
         NEW i \in DOMAIN prims, Phase(i) < round[t]
  PROVE  i < pos[u] /\ i \notin busy[u]
<1>0. /\ Phase(i) \in Nat /\ i \in Nat
      /\ round[t] \in Nat /\ round[u] \in Nat /\ pos[u] \in Nat
  BY RunTypes, PrimTypes DEF IInv
<1>1. round[u] + 1 >= round[t] /\ (round[t] = round[u] + 1 => arrived[u])
  BY <1>0 DEF IInv, NoTileAhead
<1>2. CASE round[u] > Phase(i)
  BY <1>0, <1>2 DEF IInv, Position
<1>3. CASE round[u] = Phase(i)
  <2>1. arrived[u] /\ busy[u] = {} /\ ~InPhase(u)
    BY <1>0, <1>1, <1>3 DEF IInv, Position
  <2>2. SUFFICES ASSUME i >= pos[u] PROVE FALSE
    BY <1>0, <2>1
  <2>3. pos[u] \in DOMAIN prims
    BY <2>2, <1>0, RunTypes, PrimTypes DEF IInv
  <2>4. Phase(pos[u]) # round[u]
    BY <2>1, <2>3, PrimTypes DEF IInv, InPhase, Phase
  <2>5. Phase(pos[u]) >= round[u] /\ Phase(i) >= Phase(pos[u])
    BY <2>2, <2>3, <1>0 DEF IInv, Position, PhasesGrow
  <2> QED  BY <2>3, <2>4, <2>5, <1>0, <1>3, PrimTypes DEF IInv
<1> QED  BY <1>0, <1>1, <1>2, <1>3

\* Conflicting primitives are in different phases, so they do not overlap.
LEMMA SerialOrderHolds == IInv => SerialOrder
<1> SUFFICES ASSUME IInv, NEW i \in DOMAIN prims, NEW j \in DOMAIN prims,
                    i < j, Conflict(prims[i], prims[j]),
                    NEW t \in Tiles, NEW u \in Tiles, Begun(t, j)
             PROVE  Done(u, i)
  BY DEF SerialOrder
<1>1. Phase(i) < Phase(j)
  BY DEF IInv, ConflictsSeparated
<1>2. Phase(j) <= round[t]
  BY DEF IInv, Position, Begun
<1>3. Phase(i) < round[t]
  BY <1>1, <1>2, RunTypes, PrimTypes DEF IInv
<1> QED  BY <1>3, EarlierPhasesDone DEF Done

\* All phases are done when a tile halts.
LEMMA HaltedIsCommittedHolds == IInv => HaltedIsCommitted
<1> SUFFICES ASSUME IInv, NEW t \in Tiles, closed, round[t] = barrier_count,
                    NEW u \in Tiles, NEW i \in DOMAIN prims
             PROVE  Done(u, i)
  BY DEF HaltedIsCommitted
<1>1. Phase(i) < round[t]
  BY DEF IInv, PhasesGrow
<1> QED  BY <1>1, EarlierPhasesDone DEF Done

\* Two parts of the invariant are properties themselves.
LEMMA IInvParts == IInv => TypeOK /\ BarriersAreExact
  BY DEF IInv

\* The strengthened invariant the results below come from.
THEOREM Inductive == Spec => []IInv
  BY InitIInv, NextIInv, PTL DEF Spec

\* The compiler's state and the tiles' stay well typed; no tile passes more
\* barriers than the compiler emitted.
THEOREM TypeCorrect == Spec => []TypeOK
  BY Inductive, IInvParts, PTL

\* A primitive never overlaps an earlier one it conflicts with, on whatever
\* tiles the two run, although no barrier is emitted between independent
\* primitives: the claim of Compiler._sync.
THEOREM Serial == Spec => []SerialOrder
  BY Inductive, SerialOrderHolds, PTL

\* _sync emits a barrier before a primitive exactly when there is a conflict
\* that calls for it, with a primitive of the phase it ends; in the global
\* mode before every primitive but the first.
THEOREM BarriersExact == Spec => []BarriersAreExact
  BY Inductive, IInvParts, PTL

\* A tile that has halted proves the image complete, as the closing barrier
\* of Compiler.compile is there to ensure.
THEOREM ImageIsComplete == Spec => []HaltedIsCommitted
  BY Inductive, HaltedIsCommittedHolds, PTL

-----------------------------------------------------------------------------
(* The programs: order.                                                    *)

HIDE ElimAssumption

\* The releases of a tag to tile t that have issued.
Issued(t, tag) == {x \in Releases(Programs[cfg], t, tag) : x[2] < pc[x[1]]}

\* Every tile is at an instruction of its program.
Placed ==
  /\ cfg \in DOMAIN Configs
  /\ pc \in [TileIds -> Nat]
  /\ \A t \in TileIds : pc[t] \in 1 .. Len(Program(t))

\* Before instruction i of p the descriptors m may be under way: the x-th is
\* a transfer no fence has waited for, and Len - x transfers came after it.
UnderWay(p, m, i) ==
  /\ m \in Seq(Regions(p))
  /\ \A x \in 1 .. Len(m) : \E j \in 1 .. i - 1 :
       /\ m[x] = p[j] /\ IsTransfer(p[j])
       /\ Later(p, j, i) = Len(m) - x /\ ~Fenced(p, j, i)

TransfersKnown ==
  /\ moving = [t \in TileIds |-> moving[t]]
  /\ \A t \in TileIds : UnderWay(Program(t), moving[t], pc[t])

\* Each of the blocks bs is the result of an MXU instruction not waited for.
Uncommitted(p, bs, i) ==
  \A b \in bs : \E j \in 1 .. i - 1 :
    p[j].op = "mxu" /\ b = p[j].to /\ ~Awaited(p, j, i)

ResultsKnown ==
  /\ pending = [t \in TileIds |-> pending[t]]
  /\ \A t \in TileIds : Uncommitted(Program(t), pending[t], pc[t])

\* No counter is above what has been released.
TokensKnown ==
  /\ cnt = [t \in TileIds |-> cnt[t]]
  /\ \A t \in TileIds : \A tag \in DOMAIN cnt[t] :
       cnt[t][tag] \in Nat /\ cnt[t][tag] <= Cardinality(Issued(t, tag))

\* A tile that has passed an acquire was released by everyone.
Heard ==
  \A t \in TileIds : \A e \in 1 .. pc[t] - 1 :
    Program(t)[e].op = "acquire" =>
      Releases(Programs[cfg], t, Program(t)[e].tag) \subseteq Issued(t, Program(t)[e].tag)

OrderInv == Placed /\ TransfersKnown /\ ResultsKnown /\ TokensKnown /\ Heard

\* Every compiled program is well ordered.
AllScheduled == \A i \in DOMAIN Configs : Scheduled(Configs[i], Programs[i])

-----------------------------------------------------------------------------
\* Later counts one more behind a transfer, and Fenced and Awaited one more
\* fence and WAIT_MXU.
LEMMA LaterStep ==
  ASSUME NEW p, NEW i \in Nat, NEW j \in 1 .. i - 1
  PROVE  /\ Later(p, j, i) \in Nat
         /\ IsTransfer(p[i]) => Later(p, j, i + 1) = Later(p, j, i) + 1
         /\ ~IsTransfer(p[i]) => Later(p, j, i + 1) = Later(p, j, i)
<1> DEFINE S(n) == {k \in j + 1 .. n - 1 : IsTransfer(p[k])}
<1>1. IsFiniteSet(S(i)) /\ Cardinality(S(i)) \in Nat
  <2>1. IsFiniteSet(j + 1 .. i - 1)
    BY FS_Interval
  <2> QED  BY <2>1, FS_Subset, FS_CardinalityType
<1>2. i \notin S(i)
  OBVIOUS
<1>3. CASE IsTransfer(p[i])
  <2>1. S(i + 1) = S(i) \cup {i}
    BY <1>3
  <2>2. Cardinality(S(i) \cup {i}) = Cardinality(S(i)) + 1
    BY <1>1, <1>2, FS_AddElement
  <2> QED  BY <1>1, <1>3, <2>1, <2>2 DEF Later
<1>4. CASE ~IsTransfer(p[i])
  <2>1. S(i + 1) = S(i)
    BY <1>4
  <2> QED  BY <1>1, <1>4, <2>1 DEF Later
<1> QED  BY <1>3, <1>4

\* Right behind an instruction nothing has waited for it.
LEMMA LaterNone ==
  ASSUME NEW p, NEW i \in Nat
  PROVE  Later(p, i, i + 1) = 0 /\ ~Fenced(p, i, i + 1) /\ ~Awaited(p, i, i + 1)
<1>1. {k \in i + 1 .. (i + 1) - 1 : IsTransfer(p[k])} = {} /\ i + 1 .. (i + 1) - 1 = {}
  OBVIOUS
<1> QED  BY <1>1, FS_EmptySet DEF Later, Fenced, Awaited

LEMMA FencedStep ==
  ASSUME NEW p, NEW i \in Nat, NEW j \in 1 .. i - 1
  PROVE  /\ Fenced(p, j, i + 1) <=>
              Fenced(p, j, i) \/ (p[i].op = "fence" /\ Later(p, j, i) >= p[i].keep)
         /\ Awaited(p, j, i + 1) <=> Awaited(p, j, i) \/ p[i].op = "wait_mxu"
<1>1. j + 1 .. (i + 1) - 1 = (j + 1 .. i - 1) \cup {i}
  OBVIOUS
<1> QED  BY <1>1 DEF Fenced, Awaited

\* What a fence has waited for it has waited for.
LEMMA FencedStays ==
  ASSUME NEW p, NEW j \in Nat, NEW i \in Nat, NEW n \in Nat, i <= n, Fenced(p, j, i)
  PROVE  Fenced(p, j, n)
BY DEF Fenced

\* What Scheduled says of the program that runs.
LEMMA Running ==
  ASSUME AllScheduled, cfg \in DOMAIN Configs
  PROVE  /\ Scheduled(c, Programs[cfg])
         /\ DOMAIN Programs[cfg] = TileIds /\ c.tiles \in Nat
         /\ IsFiniteSet(TileIds)
         /\ \A t \in TileIds :
              /\ Program(t) \in Seq(Regions(Program(t)))
              /\ Len(Program(t)) \in Nat \ {0} /\ DOMAIN Program(t) = 1 .. Len(Program(t))
              /\ \A i \in DOMAIN Program(t) : Program(t)[i] \in Regions(Program(t))
              /\ \A i \in DOMAIN Program(t) :
                   /\ Program(t)[i].op = "halt" <=> i = Len(Program(t))
                   /\ Program(t)[i].op = "fence" => Program(t)[i].keep \in Nat
                   /\ Program(t)[i].op = "release" => Program(t)[i].consumer \in TileIds
<1>1. Scheduled(c, Programs[cfg])
  BY DEF AllScheduled, c
<1>2. WellFormed(c, Programs[cfg]) /\ c.tiles \in Nat /\ DOMAIN Programs[cfg] = TileIds
  BY <1>1 DEF Scheduled, WellFormed, TileIds
<1>3. IsFiniteSet(TileIds)
  BY <1>2, FS_Interval DEF TileIds
<1>4. ASSUME NEW t \in TileIds
      PROVE  /\ Program(t) \in Seq(Regions(Program(t)))
             /\ Program(t) # <<>>
             /\ \A i \in DOMAIN Program(t) :
                  /\ Program(t)[i].op = "halt" <=> i = Len(Program(t))
                  /\ Program(t)[i].op = "fence" => Program(t)[i].keep \in Nat
                  /\ Program(t)[i].op = "release" => Program(t)[i].consumer \in TileIds
  BY <1>2 DEF WellFormed, Program
<1>5. ASSUME NEW t \in TileIds
      PROVE  /\ Len(Program(t)) \in Nat \ {0} /\ DOMAIN Program(t) = 1 .. Len(Program(t))
             /\ \A i \in DOMAIN Program(t) : Program(t)[i] \in Regions(Program(t))
  <2> DEFINE p == Program(t)
  <2> HIDE DEF p
  <2>1. p \in Seq(Regions(p)) /\ p # <<>>
    BY <1>4 DEF p
  <2>2. Len(p) \in Nat \ {0} /\ DOMAIN p = 1 .. Len(p)
    BY <2>1
  <2>3. \A i \in DOMAIN p : p[i] \in Regions(p)
    BY DEF Regions
  <2> QED  BY <2>2, <2>3 DEF p
<1> QED  BY <1>1, <1>2, <1>3, <1>4, <1>5

\* A function of finitely many arguments has finitely many values.
LEMMA FiniteRange ==
  ASSUME NEW S, IsFiniteSet(S), NEW f, f = [x \in S |-> f[x]]
  PROVE  IsFiniteSet({f[x] : x \in S})
<1>1. f \in [S -> {f[x] : x \in S}]
  OBVIOUS
<1>2. f \in Surjection(S, {f[x] : x \in S})
  BY <1>1 DEF Surjection
<1> QED  BY <1>2, FS_Surjection

\* The releases of a tag are a finite set of pairs of a tile and a release.
LEMMA ReleasesKnown ==
  ASSUME AllScheduled, cfg \in DOMAIN Configs, NEW t, NEW tag
  PROVE  /\ IsFiniteSet(Releases(Programs[cfg], t, tag))
         /\ \A x : x \in Releases(Programs[cfg], t, tag) <=>
              \E u \in TileIds : \E r \in DOMAIN Program(u) :
                /\ x = <<u, r>> /\ Program(u)[r].op = "release"
                /\ Program(u)[r].consumer = t /\ Program(u)[r].tag = tag
<1> DEFINE P == Programs[cfg]
           At(u) == {s \in DOMAIN P[u] : /\ P[u][s].op = "release"
                                        /\ P[u][s].consumer = t /\ P[u][s].tag = tag}
           Pairs(u) == {<<u, r>> : r \in At(u)}
<1>1. DOMAIN P = TileIds /\ IsFiniteSet(TileIds)
  BY Running
<1>2. Releases(P, t, tag) = UNION {Pairs(u) : u \in TileIds}
  BY <1>1 DEF Releases
<1>3. ASSUME NEW u \in TileIds PROVE IsFiniteSet(Pairs(u))
  <2>1. DOMAIN P[u] = 1 .. Len(P[u]) /\ Len(P[u]) \in Nat
    BY Running DEF Program
  <2>2. IsFiniteSet(DOMAIN P[u])
    BY <2>1, FS_Interval
  <2>3. IsFiniteSet(At(u))
    BY <2>2, FS_Subset
  <2> DEFINE f == [r \in At(u) |-> <<u, r>>]
  <2>4. Pairs(u) = {f[r] : r \in At(u)} /\ f = [r \in At(u) |-> f[r]]
    OBVIOUS
  <2>5. IsFiniteSet({f[r] : r \in At(u)})
    <3> HIDE DEF At, f
    <3> QED  BY <2>3, <2>4, FiniteRange
  <2> QED  BY <2>4, <2>5
<1>4. IsFiniteSet({Pairs(u) : u \in TileIds})
  <2> DEFINE f == [u \in TileIds |-> Pairs(u)]
  <2>1. {Pairs(u) : u \in TileIds} = {f[u] : u \in TileIds}
    BY Zenon
  <2> HIDE DEF Pairs
  <2>2. f = [u \in TileIds |-> f[u]]
    OBVIOUS
  <2> HIDE DEF f
  <2> QED  BY <1>1, <2>1, <2>2, FiniteRange
<1>5. IsFiniteSet(UNION {Pairs(u) : u \in TileIds})
  <2> DEFINE Q == {Pairs(u) : u \in TileIds}
  <2>1. \A S \in Q : IsFiniteSet(S)
    BY <1>3
  <2> HIDE DEF Q
  <2> QED  BY <1>4, <2>1, FS_UNION DEF Q
<1>6. ASSUME NEW x
      PROVE  x \in UNION {Pairs(u) : u \in TileIds} <=>
               \E u \in TileIds : \E r \in DOMAIN P[u] :
                 /\ x = <<u, r>> /\ P[u][r].op = "release"
                 /\ P[u][r].consumer = t /\ P[u][r].tag = tag
  OBVIOUS
<1> QED  BY <1>2, <1>5, <1>6 DEF Program

\* A step moves one tile to its next instruction.
LEMMA PlacedStep ==
  ASSUME AllScheduled, Placed, NEW t \in TileIds, Execute(t)
  PROVE  /\ Placed' /\ cfg' = cfg /\ TileIds' = TileIds
         /\ \A u \in TileIds : Program(u)' = Program(u)
         /\ pc' = [pc EXCEPT ![t] = pc[t] + 1] /\ pc[t] \in Nat \ {0}
         /\ pc[t] \in DOMAIN Program(t) /\ Next1(t) = Program(t)[pc[t]]
         /\ \A u \in TileIds : pc'[u] = IF u = t THEN pc[t] + 1 ELSE pc[u]
<1>1. cfg' = cfg /\ pc' = [pc EXCEPT ![t] = pc[t] + 1] /\ ~Halted(t)
  BY DEF Execute, Issue
<1>2. TileIds' = TileIds /\ \A u \in TileIds : Program(u)' = Program(u)
  BY <1>1 DEF TileIds, c, Program
<1>3. /\ DOMAIN Program(t) = 1 .. Len(Program(t)) /\ Len(Program(t)) \in Nat \ {0}
      /\ Program(t)[Len(Program(t))].op = "halt" /\ pc[t] \in 1 .. Len(Program(t))
  BY Running DEF Placed
<1>4. pc[t] # Len(Program(t))
  BY <1>1, <1>3 DEF Halted, Next1
<1>5. pc \in [TileIds -> Nat]
  BY DEF Placed
<1>6. \A u \in TileIds : pc'[u] = IF u = t THEN pc[t] + 1 ELSE pc[u]
  BY <1>1, <1>5
<1>7. pc' \in [TileIds -> Nat]
  BY <1>1, <1>5
<1>8. ASSUME NEW u \in TileIds PROVE pc'[u] \in 1 .. Len(Program(u))
  BY <1>3, <1>4, <1>6 DEF Placed
<1>9. Placed'
  BY <1>1, <1>2, <1>7, <1>8 DEF Placed
<1> QED  BY <1>1, <1>2, <1>3, <1>5, <1>6, <1>9 DEF Next1

\* What has issued stays issued, and the instruction of this step is added.
LEMMA IssuedStep ==
  ASSUME AllScheduled, Placed, NEW t \in TileIds, Execute(t), NEW u, NEW tag
  PROVE  /\ IsFiniteSet(Issued(u, tag)) /\ IsFiniteSet(Issued(u, tag)')
         /\ Cardinality(Issued(u, tag)) \in Nat /\ Cardinality(Issued(u, tag)') \in Nat
         /\ Issued(u, tag) \subseteq Issued(u, tag)'
         /\ Cardinality(Issued(u, tag)) <= Cardinality(Issued(u, tag)')
         /\ Releases(Programs[cfg], u, tag)' = Releases(Programs[cfg], u, tag)
         /\ Program(t)[pc[t]].op = "release" /\ Program(t)[pc[t]].consumer = u
              /\ Program(t)[pc[t]].tag = tag =>
              Cardinality(Issued(u, tag)) + 1 <= Cardinality(Issued(u, tag)')
<1> DEFINE R == Releases(Programs[cfg], u, tag)
<1>1. /\ IsFiniteSet(R)
      /\ \A x : x \in R <=> \E w \in TileIds : \E r \in DOMAIN Program(w) :
              /\ x = <<w, r>> /\ Program(w)[r].op = "release"
              /\ Program(w)[r].consumer = u /\ Program(w)[r].tag = tag
  BY ReleasesKnown DEF Placed
<1>2. /\ cfg' = cfg /\ pc[t] \in Nat \ {0} /\ pc[t] \in DOMAIN Program(t)
      /\ \A w \in TileIds : pc'[w] = IF w = t THEN pc[t] + 1 ELSE pc[w]
  BY PlacedStep
<1>3. Releases(Programs[cfg], u, tag)' = R
  BY <1>2
<1>4. Issued(u, tag) = {x \in R : x[2] < pc[x[1]]}
  BY DEF Issued
<1>5. Issued(u, tag)' = {x \in R : x[2] < pc'[x[1]]}
  BY <1>3 DEF Issued
<1>6. \A w \in TileIds : DOMAIN Program(w) \subseteq Nat /\ pc[w] \in Nat
  BY Running DEF Placed
<1>7. \A x \in R : x[1] \in TileIds /\ x[2] \in Nat
  BY <1>1, <1>6
<1> HIDE DEF R
<1>8. Issued(u, tag) \subseteq Issued(u, tag)'
  BY <1>2, <1>4, <1>5, <1>6, <1>7
<1>9. IsFiniteSet(Issued(u, tag)) /\ IsFiniteSet(Issued(u, tag)')
  BY <1>1, <1>4, <1>5, FS_Subset
<1>10. /\ Cardinality(Issued(u, tag)) \in Nat /\ Cardinality(Issued(u, tag)') \in Nat
       /\ Cardinality(Issued(u, tag)) <= Cardinality(Issued(u, tag)')
  BY <1>8, <1>9, FS_CardinalityType, FS_Subset
<1>11. ASSUME Program(t)[pc[t]].op = "release", Program(t)[pc[t]].consumer = u,
              Program(t)[pc[t]].tag = tag
       PROVE  Cardinality(Issued(u, tag)) + 1 <= Cardinality(Issued(u, tag)')
  <2> DEFINE new == <<t, pc[t]>>
  <2>1. new \in R
    BY <1>1, <1>2, <1>11
  <2>2. new \notin Issued(u, tag) /\ new \in Issued(u, tag)'
    BY <1>2, <1>4, <1>5, <2>1
  <2> HIDE DEF new
  <2>3. Cardinality(Issued(u, tag) \cup {new}) = Cardinality(Issued(u, tag)) + 1
    BY <1>9, <2>2, FS_AddElement
  <2>4. Issued(u, tag) \cup {new} \subseteq Issued(u, tag)'
    BY <1>8, <2>2
  <2>5. Cardinality(Issued(u, tag) \cup {new}) <= Cardinality(Issued(u, tag)')
    BY <1>9, <2>4, FS_Subset
  <2> QED  BY <2>3, <2>5
<1> QED  BY <1>3, <1>8, <1>9, <1>10, <1>11 DEF R

\* The instruction of a step is one of these.
LEMMA Instructions ==
  ASSUME NEW t, Execute(t)
  PROVE  \/ Transfer(t, Next1(t)) \/ DmaFence(t, Next1(t)) \/ MxuIssue(t, Next1(t))
         \/ WaitMxuIssue(t, Next1(t)) \/ VpuIssue(t, Next1(t))
         \/ ReleaseIssue(t, Next1(t)) \/ AcquireIssue(t, Next1(t))
BY DEF Execute

\* A step keeps the descriptors under way, ...
LEMMA TransfersStep ==
  ASSUME AllScheduled, Placed, TransfersKnown, NEW t \in TileIds, Execute(t)
  PROVE  TransfersKnown'
<1> DEFINE p == Program(t)
           n == pc[t]
           in == Next1(t)
<1>1. /\ cfg' = cfg /\ TileIds' = TileIds /\ \A u \in TileIds : Program(u)' = Program(u)
      /\ n \in Nat \ {0} /\ n \in DOMAIN p /\ in = p[n]
      /\ \A u \in TileIds : pc'[u] = IF u = t THEN n + 1 ELSE pc[u]
  BY PlacedStep
<1>2. moving = [u \in TileIds |-> moving[u]]
  BY DEF TransfersKnown
<1>3. ASSUME moving' = [moving EXCEPT ![t] = moving'[t]],
             moving'[t] \in Seq(Regions(p)),
             \A x \in 1 .. Len(moving'[t]) : \E j \in 1 .. n :
               /\ moving'[t][x] = p[j] /\ IsTransfer(p[j])
               /\ Later(p, j, n + 1) = Len(moving'[t]) - x
               /\ ~Fenced(p, j, n + 1)
      PROVE  TransfersKnown'
  <2>1. moving' = [u \in TileIds |-> moving'[u]]
    BY <1>2, <1>3
  <2>2. UnderWay(p, moving'[t], n + 1)
    <3>1. (n + 1) - 1 = n
      BY <1>1
    <3> QED  BY <1>3, <3>1 DEF UnderWay
  <2>3. ASSUME NEW u \in TileIds, u # t
        PROVE  UnderWay(Program(u), moving'[u], pc'[u])
    <3>1. moving'[u] = moving[u] /\ pc'[u] = pc[u]
      BY <1>1, <1>2, <1>3, <2>3
    <3> QED  BY <3>1 DEF TransfersKnown
  <2>4. \A u \in TileIds : UnderWay(Program(u), moving'[u], pc'[u])
    BY <1>1, <2>2, <2>3
  <2>5. \A u \in TileIds' : UnderWay(Program(u)', moving'[u], pc'[u])
    BY <1>1, <2>4
  <2> QED  BY <1>1, <2>1, <2>5 DEF TransfersKnown
<1>4. /\ moving[t] \in Seq(Regions(p)) /\ Len(moving[t]) \in Nat
      /\ \A x \in 1 .. Len(moving[t]) : \E j \in 1 .. n - 1 :
           /\ moving[t][x] = p[j] /\ IsTransfer(p[j])
           /\ Later(p, j, n) = Len(moving[t]) - x /\ ~Fenced(p, j, n)
  BY DEF TransfersKnown, UnderWay
<1> HIDE DEF p, n, in
<1>5. CASE Transfer(t, in)
  <2>1. /\ moving' = [moving EXCEPT ![t] = Append(moving[t], in)]
        /\ IsTransfer(p[n]) /\ p[n].op # "fence"
    BY <1>1, <1>5 DEF Transfer, IsTransfer
  <2>2. moving'[t] = Append(moving[t], in) /\ in \in Regions(p)
    BY <1>1, <1>2, <2>1 DEF Regions
  <2>3. moving'[t] \in Seq(Regions(p)) /\ Len(moving'[t]) = Len(moving[t]) + 1
    BY <1>4, <2>2
  <2>4. ASSUME NEW x \in 1 .. Len(moving'[t])
        PROVE  \E j \in 1 .. n : /\ moving'[t][x] = p[j] /\ IsTransfer(p[j])
                                 /\ Later(p, j, n + 1) = Len(moving'[t]) - x
                                 /\ ~Fenced(p, j, n + 1)
    <3>1. CASE x = Len(moving[t]) + 1
      <4>1. moving'[t][x] = p[n]
        BY <1>1, <1>4, <2>2, <3>1
      <4>2. Later(p, n, n + 1) = 0 /\ ~Fenced(p, n, n + 1)
        BY <1>1, LaterNone
      <4> QED  BY <1>1, <1>4, <2>1, <2>3, <3>1, <4>1, <4>2
    <3>2. CASE x # Len(moving[t]) + 1
      <4>1. x \in 1 .. Len(moving[t]) /\ moving'[t][x] = moving[t][x]
        BY <1>4, <2>2, <2>3, <3>2
      <4>2. PICK j \in 1 .. n - 1 :
              /\ moving[t][x] = p[j] /\ IsTransfer(p[j])
              /\ Later(p, j, n) = Len(moving[t]) - x /\ ~Fenced(p, j, n)
        BY <1>4, <4>1
      <4>3. Later(p, j, n + 1) = Later(p, j, n) + 1
        BY <1>1, <2>1, LaterStep
      <4>4. ~Fenced(p, j, n + 1)
        BY <1>1, <2>1, <4>2, FencedStep
      <4>5. Later(p, j, n + 1) = Len(moving'[t]) - x
        BY <1>4, <2>3, <4>1, <4>2, <4>3
      <4>6. j \in 1 .. n
        BY <1>1
      <4> QED  BY <4>1, <4>2, <4>4, <4>5, <4>6
    <3> QED  BY <3>1, <3>2
  <2> QED  BY <1>3, <2>1, <2>2, <2>3, <2>4
<1>6. CASE DmaFence(t, in)
  <2> DEFINE L == Len(moving[t])
             k == Max({1, L - in.keep + 1})
  <2>1. /\ moving' = [moving EXCEPT ![t] = SubSeq(moving[t], k, L)]
        /\ p[n].op = "fence" /\ ~IsTransfer(p[n])
    BY <1>1, <1>6 DEF DmaFence, IsTransfer
  <2>2. p[n].keep \in Nat /\ L \in Nat
    BY <1>1, <1>4, <2>1, Running DEF p, Placed
  <2>3. k \in Nat /\ k >= 1 /\ k >= L - in.keep + 1 /\ k <= L + 1
    <3>1. k \in {1, L - in.keep + 1} /\ \A y \in {1, L - in.keep + 1} : k >= y
      <4>1. \E z \in {1, L - in.keep + 1} : \A y \in {1, L - in.keep + 1} : z >= y
        BY <1>1, <2>2
      <4> QED  BY <4>1 DEF Max
    <3> QED  BY <1>1, <2>2, <3>1
  <2> HIDE DEF k
  <2>4. moving'[t] = SubSeq(moving[t], k, L)
    BY <1>2, <2>1
  <2>5. /\ moving'[t] \in Seq(Regions(p)) /\ Len(moving'[t]) = L - k + 1
        /\ \A x \in 1 .. Len(moving'[t]) : moving'[t][x] = moving[t][k + x - 1]
    BY <1>4, <2>2, <2>3, <2>4
  <2>6. ASSUME NEW x \in 1 .. Len(moving'[t])
        PROVE  \E j \in 1 .. n : /\ moving'[t][x] = p[j] /\ IsTransfer(p[j])
                                 /\ Later(p, j, n + 1) = Len(moving'[t]) - x
                                 /\ ~Fenced(p, j, n + 1)
    <3>1. k + x - 1 \in 1 .. L
      BY <2>2, <2>3, <2>5
    <3>2. PICK j \in 1 .. n - 1 :
            /\ moving[t][k + x - 1] = p[j] /\ IsTransfer(p[j])
            /\ Later(p, j, n) = L - (k + x - 1) /\ ~Fenced(p, j, n)
      BY <1>4, <3>1
    <3>3. Later(p, j, n + 1) = Later(p, j, n)
      BY <1>1, <2>1, LaterStep
    <3>4. Later(p, j, n) < p[n].keep
      BY <1>1, <2>2, <2>3, <3>1, <3>2
    <3>5. ~Fenced(p, j, n + 1)
      BY <1>1, <2>2, <2>3, <3>1, <3>2, <3>4, FencedStep
    <3>6. Later(p, j, n + 1) = Len(moving'[t]) - x
      BY <2>2, <2>3, <2>5, <3>2, <3>3
    <3>7. moving'[t][x] = p[j] /\ j \in 1 .. n
      BY <1>1, <2>5, <3>2
    <3> QED  BY <3>2, <3>5, <3>6, <3>7
  <2> QED  BY <1>3, <2>1, <2>4, <2>5, <2>6
<1>7. CASE moving' = moving /\ ~IsTransfer(p[n]) /\ p[n].op # "fence"
  <2>1. ASSUME NEW x \in 1 .. Len(moving[t])
        PROVE  \E j \in 1 .. n : /\ moving[t][x] = p[j] /\ IsTransfer(p[j])
                                 /\ Later(p, j, n + 1) = Len(moving[t]) - x
                                 /\ ~Fenced(p, j, n + 1)
    <3>1. PICK j \in 1 .. n - 1 :
            /\ moving[t][x] = p[j] /\ IsTransfer(p[j])
            /\ Later(p, j, n) = Len(moving[t]) - x /\ ~Fenced(p, j, n)
      BY <1>4
    <3>2. Later(p, j, n + 1) = Later(p, j, n)
      BY <1>1, <1>7, LaterStep
    <3>3. ~Fenced(p, j, n + 1)
      BY <1>1, <1>7, <3>1, FencedStep
    <3> QED  BY <1>1, <3>1, <3>2, <3>3
  <2>2. moving' = [moving EXCEPT ![t] = moving'[t]]
    BY <1>2, <1>7
  <2> QED  BY <1>3, <1>4, <1>7, <2>1, <2>2
<1>8. \/ Transfer(t, in) \/ DmaFence(t, in)
      \/ moving' = moving /\ ~IsTransfer(in) /\ in.op # "fence"
  BY Instructions DEF MxuIssue, WaitMxuIssue, VpuIssue, ReleaseIssue, AcquireIssue,
     IsTransfer, in
<1> QED  BY <1>1, <1>5, <1>6, <1>7, <1>8

\* ... the MXU results, ...
LEMMA ResultsStep ==
  ASSUME AllScheduled, Placed, ResultsKnown, NEW t \in TileIds, Execute(t)
  PROVE  ResultsKnown'
<1> DEFINE p == Program(t)
           n == pc[t]
           in == Next1(t)
<1>1. /\ cfg' = cfg /\ TileIds' = TileIds /\ \A u \in TileIds : Program(u)' = Program(u)
      /\ n \in Nat \ {0} /\ n \in DOMAIN p /\ in = p[n]
      /\ \A u \in TileIds : pc'[u] = IF u = t THEN n + 1 ELSE pc[u]
  BY PlacedStep
<1>2. pending = [u \in TileIds |-> pending[u]] /\ Uncommitted(p, pending[t], n)
  BY DEF ResultsKnown
<1> HIDE DEF p, n, in
<1>3. \/ in.op = "mxu" /\ pending' = [pending EXCEPT ![t] = @ \cup {in.to}]
      \/ in.op = "wait_mxu" /\ pending' = [pending EXCEPT ![t] = {}]
      \/ in.op \notin {"mxu", "wait_mxu"} /\ pending' = pending
  BY Instructions DEF Transfer, DmaFence, MxuIssue, WaitMxuIssue, VpuIssue, ReleaseIssue,
     AcquireIssue, in
<1>4. ASSUME in.op # "wait_mxu", NEW b \in pending[t]
      PROVE  \E j \in 1 .. n : p[j].op = "mxu" /\ b = p[j].to /\ ~Awaited(p, j, n + 1)
  <2>1. PICK j \in 1 .. n - 1 : p[j].op = "mxu" /\ b = p[j].to /\ ~Awaited(p, j, n)
    BY <1>2 DEF Uncommitted
  <2>2. ~Awaited(p, j, n + 1)
    BY <1>1, <1>4, <2>1, FencedStep
  <2> QED  BY <1>1, <2>1, <2>2
<1>5. in.op = "mxu" =>
        \E j \in 1 .. n : p[j].op = "mxu" /\ in.to = p[j].to /\ ~Awaited(p, j, n + 1)
  <2>1. ~Awaited(p, n, n + 1)
    BY <1>1, LaterNone
  <2> QED  BY <1>1, <2>1
<1>6. \A b \in pending'[t] :
        \E j \in 1 .. n : p[j].op = "mxu" /\ b = p[j].to /\ ~Awaited(p, j, n + 1)
  BY <1>2, <1>3, <1>4, <1>5
<1>7. Uncommitted(p, pending'[t], n + 1)
  <2>1. (n + 1) - 1 = n
    BY <1>1
  <2> QED  BY <1>6, <2>1 DEF Uncommitted
<1>8. ASSUME NEW u \in TileIds, u # t
      PROVE  Uncommitted(Program(u), pending'[u], pc'[u])
  <2>1. pending'[u] = pending[u] /\ pc'[u] = pc[u]
    BY <1>1, <1>2, <1>3, <1>8
  <2> QED  BY <2>1 DEF ResultsKnown
<1>9. \A u \in TileIds : Uncommitted(Program(u), pending'[u], pc'[u])
  BY <1>1, <1>7, <1>8 DEF p
<1>10. \A u \in TileIds' : Uncommitted(Program(u)', pending'[u], pc'[u])
  BY <1>1, <1>9
<1>11. pending' = [u \in TileIds |-> pending'[u]]
  BY <1>2, <1>3
<1> QED  BY <1>1, <1>10, <1>11 DEF ResultsKnown

\* An acquire that is passed has taken every release of its tag.
LEMMA AcquireTakesAll ==
  ASSUME AllScheduled, Placed, TokensKnown, NEW t \in TileIds, Execute(t),
         AcquireIssue(t, Next1(t))
  PROVE  /\ Next1(t).arity \in Nat /\ Count(t, Next1(t).tag) \in Nat
         /\ Count(t, Next1(t).tag) >= Next1(t).arity
         /\ Releases(Programs[cfg], t, Next1(t).tag) = Issued(t, Next1(t).tag)
<1> DEFINE in == Next1(t)
           R == Releases(Programs[cfg], t, in.tag)
<1>1. /\ pc[t] \in DOMAIN Program(t) /\ in = Program(t)[pc[t]]
  BY PlacedStep
<1>2. in.op = "acquire" /\ Count(t, in.tag) >= in.arity
  BY DEF AcquireIssue
<1>3. in.arity = Cardinality(R)
  <2>1. AwaitsAll(Programs[cfg]) /\ DOMAIN Programs[cfg] = TileIds
    BY Running DEF Placed, Scheduled
  <2> QED  BY <1>1, <1>2, <2>1 DEF AwaitsAll, Program
<1>4. IsFiniteSet(R)
  BY ReleasesKnown DEF Placed
<1>5. Issued(t, in.tag) \subseteq R
  BY DEF Issued
<1> HIDE DEF R, in
<1>6. /\ Cardinality(R) \in Nat /\ Cardinality(Issued(t, in.tag)) \in Nat
      /\ Cardinality(Issued(t, in.tag)) <= Cardinality(R)
      /\ Cardinality(Issued(t, in.tag)) = Cardinality(R) => Issued(t, in.tag) = R
  BY <1>4, <1>5, FS_CardinalityType, FS_Subset
<1>7. Count(t, in.tag) \in Nat /\ Count(t, in.tag) <= Cardinality(Issued(t, in.tag))
  BY <1>6 DEF TokensKnown, Count
<1>8. Issued(t, in.tag) = R
  BY <1>2, <1>3, <1>6, <1>7
<1> QED  BY <1>2, <1>3, <1>6, <1>7, <1>8 DEF R, in

\* ... the join counters ...
LEMMA TokensStep ==
  ASSUME AllScheduled, Placed, TokensKnown, NEW t \in TileIds, Execute(t)
  PROVE  TokensKnown'
<1> DEFINE in == Next1(t)
<1>1. /\ TileIds' = TileIds /\ pc[t] \in DOMAIN Program(t) /\ in = Program(t)[pc[t]]
  BY PlacedStep
<1>2. cnt = [u \in TileIds |-> cnt[u]]
  BY DEF TokensKnown
<1>3. \A u \in TileIds : \A tag \in DOMAIN cnt[u] :
        cnt[u][tag] \in Nat /\ cnt[u][tag] <= Cardinality(Issued(u, tag))
  BY DEF TokensKnown
<1>4. \A u \in TileIds : \A tag :
        Count(u, tag) \in Nat /\ Count(u, tag) <= Cardinality(Issued(u, tag))
  <2>1. \A u \in TileIds : \A tag : Cardinality(Issued(u, tag)) \in Nat
    BY IssuedStep
  <2> QED  BY <1>3, <2>1 DEF Count
<1> HIDE DEF in
<1>5. ASSUME NEW w \in TileIds, NEW tag, NEW m \in Nat, SetCount(w, tag, m),
             m <= Cardinality(Issued(w, tag)')
      PROVE  TokensKnown'
  <2>1. cnt' = [cnt EXCEPT ![w] = [g \in DOMAIN cnt[w] \cup {tag} |->
                                      IF g = tag THEN m ELSE cnt[w][g]]]
    BY <1>5 DEF SetCount
  <2>2. cnt' = [u \in TileIds |-> cnt'[u]]
    BY <1>2, <2>1
  <2>3. ASSUME NEW u \in TileIds, NEW g \in DOMAIN cnt'[u]
        PROVE  cnt'[u][g] \in Nat /\ cnt'[u][g] <= Cardinality(Issued(u, g)')
    <3>1. CASE u = w /\ g = tag
      BY <1>2, <1>5, <2>1, <3>1
    <3>2. CASE ~(u = w /\ g = tag)
      <4>1. g \in DOMAIN cnt[u] /\ cnt'[u][g] = cnt[u][g]
        BY <1>2, <2>1, <2>3, <3>2
      <4>2. /\ Cardinality(Issued(u, g)) <= Cardinality(Issued(u, g)')
            /\ Cardinality(Issued(u, g)) \in Nat /\ Cardinality(Issued(u, g)') \in Nat
        BY IssuedStep
      <4> QED  BY <1>3, <4>1, <4>2
    <3> QED  BY <3>1, <3>2
  <2> QED  BY <1>1, <2>2, <2>3 DEF TokensKnown
<1>6. CASE ReleaseIssue(t, in)
  <2>1. PICK w, g, m : w = in.consumer /\ g = in.tag /\ m = Count(w, g) + 1
    OBVIOUS
  <2>2. in.op = "release" /\ SetCount(w, g, m)
    BY <1>6, <2>1 DEF ReleaseIssue
  <2>3. w \in TileIds
    BY <1>1, <2>1, <2>2, Running DEF Placed
  <2>4. /\ Cardinality(Issued(w, g)) + 1 <= Cardinality(Issued(w, g)')
        /\ Cardinality(Issued(w, g)) \in Nat /\ Cardinality(Issued(w, g)') \in Nat
    BY <1>1, <2>1, <2>2, IssuedStep
  <2>5. m \in Nat /\ m <= Cardinality(Issued(w, g)')
    BY <1>4, <2>1, <2>3, <2>4
  <2> QED  BY <1>5, <2>2, <2>3, <2>5
<1>7. CASE AcquireIssue(t, in)
  <2>1. PICK g, m : g = in.tag /\ m = Count(t, g) - in.arity
    OBVIOUS
  <2>2. SetCount(t, g, m)
    BY <1>7, <2>1 DEF AcquireIssue
  <2>3. in.arity \in Nat /\ Count(t, g) \in Nat /\ Count(t, g) >= in.arity
    BY <1>7, <2>1, AcquireTakesAll DEF in
  <2>4. /\ Cardinality(Issued(t, g)) <= Cardinality(Issued(t, g)')
        /\ Cardinality(Issued(t, g)) \in Nat /\ Cardinality(Issued(t, g)') \in Nat
    BY IssuedStep
  <2>5. m \in Nat /\ m <= Cardinality(Issued(t, g)')
    BY <1>4, <2>1, <2>3, <2>4
  <2> QED  BY <1>5, <2>2, <2>5
<1>8. CASE cnt' = cnt
  <2>1. ASSUME NEW u \in TileIds, NEW g \in DOMAIN cnt[u]
        PROVE  cnt[u][g] \in Nat /\ cnt[u][g] <= Cardinality(Issued(u, g)')
    <3>1. /\ Cardinality(Issued(u, g)) <= Cardinality(Issued(u, g)')
          /\ Cardinality(Issued(u, g)) \in Nat /\ Cardinality(Issued(u, g)') \in Nat
      BY IssuedStep
    <3> QED  BY <1>3, <3>1
  <2> QED  BY <1>1, <1>2, <1>8, <2>1 DEF TokensKnown
<1>9. ReleaseIssue(t, in) \/ AcquireIssue(t, in) \/ cnt' = cnt
  BY Instructions DEF Transfer, DmaFence, MxuIssue, WaitMxuIssue, VpuIssue, in
<1> QED  BY <1>6, <1>7, <1>8, <1>9

\* ... and who has heard from whom.
LEMMA HeardStep ==
  ASSUME AllScheduled, Placed, TokensKnown, Heard, NEW t \in TileIds, Execute(t)
  PROVE  Heard'
<1>1. /\ cfg' = cfg /\ TileIds' = TileIds /\ \A u \in TileIds : Program(u)' = Program(u)
      /\ pc[t] \in Nat \ {0} /\ Next1(t) = Program(t)[pc[t]]
      /\ \A u \in TileIds : pc'[u] = IF u = t THEN pc[t] + 1 ELSE pc[u]
  BY PlacedStep
<1>2. ASSUME NEW u \in TileIds, NEW e \in 1 .. pc'[u] - 1, NEW tag,
             Program(u)[e].op = "acquire", tag = Program(u)[e].tag
      PROVE  Releases(Programs[cfg], u, tag) \subseteq Issued(u, tag)'
  <2>1. Releases(Programs[cfg], u, tag) \subseteq Issued(u, tag)
    <3>1. CASE e \in 1 .. pc[u] - 1
      BY <1>2, <3>1 DEF Heard
    <3>2. CASE e \notin 1 .. pc[u] - 1
      <4>1. u = t /\ e = pc[t]
        BY <1>1, <3>2 DEF Placed
      <4>2. Next1(t).op = "acquire"
        BY <1>1, <1>2, <4>1
      <4>3. AcquireIssue(t, Next1(t))
        BY <4>2, Instructions DEF Transfer, DmaFence, MxuIssue, WaitMxuIssue, VpuIssue,
           ReleaseIssue
      <4> QED  BY <1>1, <1>2, <4>1, <4>3, AcquireTakesAll
    <3> QED  BY <3>1, <3>2
  <2>2. Issued(u, tag) \subseteq Issued(u, tag)'
    BY IssuedStep
  <2> QED  BY <2>1, <2>2
<1>3. ASSUME NEW u \in TileIds, NEW e \in 1 .. pc'[u] - 1, Program(u)[e].op = "acquire"
      PROVE  Releases(Programs[cfg], u, Program(u)[e].tag) \subseteq
               {x \in Releases(Programs[cfg], u, Program(u)[e].tag) : x[2] < pc'[x[1]]}
  <2>1. PICK tag : tag = Program(u)[e].tag
    OBVIOUS
  <2>2. Releases(Programs[cfg], u, tag) \subseteq Issued(u, tag)'
    BY <1>2, <1>3, <2>1
  <2> QED  BY <1>1, <2>1, <2>2 DEF Issued
<1> QED  BY <1>1, <1>3 DEF Heard, Issued

\* Init, and every step, give the invariant.
LEMMA OrderInit == AllScheduled /\ MachineInit => OrderInv
<1> SUFFICES ASSUME AllScheduled, MachineInit PROVE OrderInv
  OBVIOUS
<1>1. cfg \in DOMAIN Configs /\ pc = [t \in TileIds |-> 1]
  BY DEF MachineInit
<1>2. Placed
  BY <1>1, Running DEF Placed
<1>3. TransfersKnown
  <2>1. moving = [t \in TileIds |-> <<>>]
    BY DEF MachineInit
  <2> QED  BY <1>1, <2>1 DEF TransfersKnown, UnderWay
<1>4. ResultsKnown
  BY <1>1 DEF MachineInit, ResultsKnown, Uncommitted
<1>5. TokensKnown
  <2>1. cnt = [t \in TileIds |-> <<>>] /\ DOMAIN <<>> = {}
    BY DEF MachineInit
  <2> QED  BY <2>1 DEF TokensKnown
<1>6. Heard
  BY <1>1 DEF Heard
<1> QED  BY <1>2, <1>3, <1>4, <1>5, <1>6 DEF OrderInv

LEMMA OrderNext == AllScheduled /\ OrderInv /\ [MachineNext]_machine_vars => OrderInv'
<1> SUFFICES ASSUME AllScheduled, OrderInv, [MachineNext]_machine_vars PROVE OrderInv'
  OBVIOUS
<1> USE DEF OrderInv
<1>1. CASE MachineNext
  <2>1. PICK t \in TileIds : Execute(t)
    BY <1>1 DEF MachineNext
  <2> QED  BY <2>1, PlacedStep, TransfersStep, ResultsStep, TokensStep, HeardStep
<1>2. CASE UNCHANGED machine_vars
  BY <1>2 DEF machine_vars, Placed, TransfersKnown, ResultsKnown, TokensKnown, Heard,
     Issued, TileIds, Program, c
<1> QED  BY <1>1, <1>2

\* What After and IssuesBefore say of a program holds of its execution.
LEMMA AfterHolds ==
  ASSUME AllScheduled, OrderInv, NEW t \in TileIds, NEW u \in TileIds,
         NEW r \in DOMAIN Program(u), NEW i \in 1 .. pc[t],
         After(Programs[cfg], u, r, t, i)
  PROVE  r < pc[u]
<1> DEFINE P == Programs[cfg]
<1>1. DOMAIN P = TileIds /\ \A v \in TileIds : Program(v) = P[v]
  BY Running DEF OrderInv, Placed, Program
<1>2. PICK e \in 1 .. i - 1 : Signals(P, u, r, t, e) \/ Relayed(P, u, r, t, e)
  BY DEF After
<1>3. ASSUME NEW v \in TileIds, NEW s \in DOMAIN Program(v),
             NEW w \in TileIds, NEW a \in 1 .. pc[w] - 1, Signals(P, v, s, w, a)
      PROVE  s < pc[v]
  <2>1. Program(w)[a].op = "acquire"
    BY <1>1, <1>3 DEF Signals
  <2>2. <<v, s>> \in Releases(P, w, Program(w)[a].tag)
    BY <1>1, <1>3, ReleasesKnown DEF Signals, OrderInv, Placed
  <2>3. <<v, s>> \in Issued(w, Program(w)[a].tag)
    BY <1>3, <2>1, <2>2 DEF OrderInv, Heard
  <2> QED  BY <2>3 DEF Issued
<1>4. pc[t] \in Nat /\ e \in 1 .. pc[t] - 1
  BY DEF OrderInv, Placed
<1>5. CASE Signals(P, u, r, t, e)
  BY <1>3, <1>4, <1>5
<1>6. CASE Relayed(P, u, r, t, e)
  <2>1. PICK v \in TileIds : \E s \in DOMAIN Program(v) :
          Signals(P, v, s, t, e) /\ \E a \in 1 .. s - 1 : Signals(P, u, r, v, a)
    BY <1>1, <1>6 DEF Relayed
  <2>x. PICK s \in DOMAIN Program(v) :
          Signals(P, v, s, t, e) /\ \E a \in 1 .. s - 1 : Signals(P, u, r, v, a)
    BY <2>1
  <2>y. PICK a \in 1 .. s - 1 : Signals(P, u, r, v, a)
    BY <2>x
  <2>2. s < pc[v]
    BY <1>3, <1>4, <2>x
  <2>3. s \in Nat /\ pc[v] \in Nat
    BY Running DEF OrderInv, Placed
  <2>4. a \in 1 .. pc[v] - 1
    BY <2>2, <2>3
  <2> QED  BY <1>3, <2>y, <2>4
<1> QED  BY <1>2, <1>5, <1>6

LEMMA BeforeHolds ==
  ASSUME AllScheduled, OrderInv, NEW u \in TileIds, NEW j \in DOMAIN Program(u),
         NEW t \in TileIds, NEW i \in 1 .. pc[t], IssuesBefore(Programs[cfg], u, j, t, i)
  PROVE  j < pc[u]
<1>1. /\ DOMAIN Program(u) = 1 .. Len(Program(u)) /\ Len(Program(u)) \in Nat
      /\ pc[u] \in Nat /\ Program(u) = Programs[cfg][u] /\ j \in Nat
  BY Running DEF OrderInv, Placed, Program
<1>2. CASE u = t /\ j < i
  BY <1>1, <1>2
<1>3. CASE \E r \in j + 1 .. Len(Programs[cfg][u]) : After(Programs[cfg], u, r, t, i)
  <2>1. PICK r \in j + 1 .. Len(Program(u)) : After(Programs[cfg], u, r, t, i)
    BY <1>1, <1>3
  <2>2. r \in DOMAIN Program(u)
    BY <1>1
  <2>3. r < pc[u]
    BY <2>1, <2>2, AfterHolds
  <2> QED  BY <1>1, <2>3
<1> QED  BY <1>2, <1>3 DEF IssuesBefore

\* The invariant rules every hazard out.
LEMMA OrderGivesNoHazard == AllScheduled /\ OrderInv => NoHazard
<1> SUFFICES ASSUME AllScheduled, OrderInv, NEW t \in TileIds
             PROVE  LET in == Next1(t) IN
                    /\ \A d \in Regions(moving[t]) : ~MeetsTransfer(d, in)
                    /\ \A b \in pending[t] : ~MeetsResult(b, in)
                    /\ \A u \in TileIds \ {t} : \A d \in Regions(moving[u]) : ~MeetsOther(d, in)
                    /\ in.op = "halt" => moving[t] = <<>> /\ pending[t] = {}
  BY DEF NoHazard
<1> DEFINE P == Programs[cfg]
           in == Next1(t)
<1>1. /\ Scheduled(c, P) /\ DOMAIN P = TileIds /\ cfg \in DOMAIN Configs
      /\ \A u \in TileIds :
           /\ Program(u) = P[u] /\ DOMAIN Program(u) = 1 .. Len(Program(u))
           /\ Len(Program(u)) \in Nat /\ pc[u] \in DOMAIN Program(u) /\ pc[u] \in Nat \ {0}
  BY Running DEF OrderInv, Placed, Program
<1>2. in = Program(t)[pc[t]]
  BY DEF Next1
<1>3. FencedApart(Program(t)) /\ SyncedApart(P)
  BY <1>1 DEF Scheduled
<1>4. ASSUME NEW u \in TileIds, NEW d \in Regions(moving[u])
      PROVE  \E j \in 1 .. pc[u] - 1 :
               d = Program(u)[j] /\ IsTransfer(Program(u)[j]) /\ ~Fenced(Program(u), j, pc[u])
  <2>1. UnderWay(Program(u), moving[u], pc[u])
    BY DEF OrderInv, TransfersKnown
  <2>2. PICK x \in DOMAIN moving[u] : d = moving[u][x]
    BY DEF Regions
  <2>3. x \in 1 .. Len(moving[u])
    BY <2>1 DEF UnderWay
  <2> QED  BY <2>1, <2>2, <2>3 DEF UnderWay
<1>5. ASSUME NEW b \in pending[t]
      PROVE  \E j \in 1 .. pc[t] - 1 : /\ Program(t)[j].op = "mxu" /\ b = Program(t)[j].to
                                      /\ ~Awaited(Program(t), j, pc[t])
  BY DEF OrderInv, ResultsKnown, Uncommitted
<1>6. ASSUME NEW d \in Regions(moving[t])
      PROVE  ~MeetsTransfer(d, in) /\ in.op # "halt"
  BY <1>1, <1>2, <1>3, <1>4 DEF FencedApart
<1>7. ASSUME NEW b \in pending[t]
      PROVE  ~MeetsResult(b, in) /\ in.op # "halt"
  BY <1>1, <1>2, <1>3, <1>5 DEF FencedApart
<1>8. ASSUME NEW u \in TileIds \ {t}, NEW d \in Regions(moving[u])
      PROVE  ~MeetsOther(d, in)
  <2>1. PICK j \in 1 .. pc[u] - 1 : d = Program(u)[j] /\ ~Fenced(Program(u), j, pc[u])
    BY <1>4
  <2>2. SUFFICES ASSUME MeetsOther(Program(u)[j], Program(t)[pc[t]]) PROVE FALSE
    BY <1>2, <2>1
  <2>3. j \in DOMAIN Program(u) /\ pc[t] \in DOMAIN Program(t)
    BY <1>1
  <2>4. \/ \E r \in j + 1 .. Len(Program(u)) :
             After(P, u, r, t, pc[t]) /\ Fenced(Program(u), j, r)
        \/ \E r \in pc[t] + 1 .. Len(Program(t)) : After(P, t, r, u, j)
    BY <1>1, <1>3, <2>2, <2>3 DEF SyncedApart
  <2>5. CASE \E r \in j + 1 .. Len(Program(u)) :
               After(P, u, r, t, pc[t]) /\ Fenced(Program(u), j, r)
    <3>1. PICK r \in j + 1 .. Len(Program(u)) :
                 After(P, u, r, t, pc[t]) /\ Fenced(Program(u), j, r)
      BY <2>5
    <3>2. r < pc[u]
      <4>1. u \in TileIds /\ r \in DOMAIN Program(u) /\ pc[t] \in 1 .. pc[t]
        BY <1>1
      <4> QED  BY <3>1, <4>1, AfterHolds
    <3>3. Fenced(Program(u), j, pc[u])
      BY <1>1, <3>1, <3>2, FencedStays
    <3> QED  BY <2>1, <3>3
  <2>6. CASE \E r \in pc[t] + 1 .. Len(Program(t)) : After(P, t, r, u, j)
    <3>1. PICK r \in pc[t] + 1 .. Len(Program(t)) : After(P, t, r, u, j)
      BY <2>6
    <3>2. u \in TileIds /\ r \in DOMAIN Program(t) /\ j \in 1 .. pc[u]
      BY <1>1
    <3>3. r < pc[t]
      BY <3>1, <3>2, AfterHolds
    <3> QED  BY <1>1, <3>1, <3>3
  <2> QED  BY <2>4, <2>5, <2>6
<1>9. in.op = "halt" => moving[t] = <<>> /\ pending[t] = {}
  <2>1. ASSUME in.op = "halt", moving[t] # <<>> PROVE FALSE
    <3>1. moving[t] \in Seq(Regions(Program(t)))
      BY DEF OrderInv, TransfersKnown, UnderWay
    <3>2. 1 \in DOMAIN moving[t]
      BY <2>1, <3>1
    <3> QED  BY <1>6, <2>1, <3>2 DEF Regions
  <2> QED  BY <1>7, <2>1
<1> QED  BY <1>6, <1>7, <1>8, <1>9

\* In no order of the tiles' turns does an instruction of a well-ordered
\* program meet a transfer or a result under way: the fences, WAIT_MXU and
\* barriers in it are enough (compile.py:241, 322-361, 431-449, 539-558).
THEOREM NothingMet ==
  ASSUME AllScheduled
  PROVE  MachineSpec => []NoHazard
<1>1. MachineInit => OrderInv
  BY OrderInit
<1>2. OrderInv /\ [MachineNext]_machine_vars => OrderInv'
  BY OrderNext
<1>3. OrderInv => NoHazard
  BY OrderGivesNoHazard
<1> QED  BY <1>1, <1>2, <1>3, PTL DEF MachineSpec

-----------------------------------------------------------------------------
(* The programs: operands.                                                 *)

\* Every compiled program writes what it reads before it reads it.
AllDefined == \A i \in DOMAIN Configs : Defined(Configs[i], Programs[i])

\* Before instruction i of p the values ws are in LOCAL: every region written
\* and not touched since, ...
Present(p, ws, i) ==
  \A j \in 1 .. i - 1 : \A r \in LocalWrites(p[j]) :
    Untouched(p, r, j, i) => \E w \in ws : w.lines = r
\* ... with a sum of products where the MXU wrote last, ...
Sums(p, ws, i) ==
  \A j \in 1 .. i - 1 :
    p[j].op = "mxu" /\ p[j].to # {} /\ Untouched(p, p[j].to, j, i) =>
      \A w \in ws : w.lines = p[j].to => w.value[1] = "mm"
\* ... and never nothing.
Real(ws) == \A w \in ws : w.value # Nothing

\* The values that are in LOCAL, ...
LocalKnown ==
  /\ local = [t \in TileIds |-> local[t]]
  /\ \A t \in TileIds : /\ Present(Program(t), local[t], pc[t])
                        /\ Sums(Program(t), local[t], pc[t])
                        /\ Real(local[t])

\* ... and those in DRAM.
DramKnown ==
  /\ \A t \in TileIds : \A j \in 1 .. pc[t] - 1 :
       Program(t)[j].op = "store" => Program(t)[j].to \in DOMAIN dram
  /\ \A a \in DOMAIN dram : dram[a] # Nothing

ValueInv == LocalKnown /\ DramKnown

LEMMA UntouchedStep ==
  ASSUME NEW p, NEW i \in Nat, NEW r
  PROVE  /\ Untouched(p, r, i, i + 1)
         /\ \A j \in 1 .. i - 1 : Untouched(p, r, j, i + 1) <=>
              Untouched(p, r, j, i) /\ r \cap UNION LocalWrites(p[i]) = {}
<1>1. i + 1 .. (i + 1) - 1 = {}
  OBVIOUS
<1>2. ASSUME NEW j \in 1 .. i - 1
      PROVE  j + 1 .. (i + 1) - 1 = (j + 1 .. i - 1) \cup {i}
  OBVIOUS
<1> QED  BY <1>1, <1>2 DEF Untouched

\* Instruction i overwrites what it writes, by the values new.
LEMMA Overwritten ==
  ASSUME NEW p, NEW i \in Nat \ {0}, NEW ws, NEW new, NEW all,
         Present(p, ws, i), Sums(p, ws, i), Real(ws),
         \A w : w \in all <=>
           w \in new \/ (w \in ws /\ w.lines \cap UNION LocalWrites(p[i]) = {}),
         \A w \in new : w.lines \in LocalWrites(p[i]) /\ w.value # Nothing,
         \A r \in LocalWrites(p[i]) : \E w \in new : w.lines = r,
         p[i].op = "mxu" => \A w \in new : w.value[1] = "mm"
  PROVE  Present(p, all, i + 1) /\ Sums(p, all, i + 1) /\ Real(all)
<1> DEFINE lines == UNION LocalWrites(p[i])
<1>1. Present(p, all, i + 1)
  <2>1. ASSUME NEW j \in 1 .. i, NEW r \in LocalWrites(p[j]), Untouched(p, r, j, i + 1)
        PROVE  \E w \in all : w.lines = r
    <3>1. CASE j = i
      BY <3>1
    <3>2. CASE j # i
      <4>0. j \in 1 .. i - 1 /\ i \in Nat
        BY <3>2
      <4>1. Untouched(p, r, j, i) /\ r \cap lines = {}
        BY <2>1, <4>0, UntouchedStep
      <4> QED  BY <4>0, <4>1 DEF Present
    <3> QED  BY <3>1, <3>2
  <2>2. (i + 1) - 1 = i
    OBVIOUS
  <2> QED  BY <2>1, <2>2 DEF Present
<1>2. Sums(p, all, i + 1)
  <2>1. ASSUME NEW j \in 1 .. i, p[j].op = "mxu", p[j].to # {},
               Untouched(p, p[j].to, j, i + 1), NEW w \in all, w.lines = p[j].to
        PROVE  w.value[1] = "mm"
    <3>1. CASE j = i
      <4>1. LocalWrites(p[i]) = {p[i].to}
        BY <2>1, <3>1 DEF LocalWrites
      <4> QED  BY <2>1, <3>1, <4>1
    <3>2. CASE j # i
      <4>0. j \in 1 .. i - 1 /\ i \in Nat
        BY <3>2
      <4>r. PICK r : r = p[j].to
        OBVIOUS
      <4>u. Untouched(p, r, j, i + 1)
        BY <2>1, <4>r
      <4>1. Untouched(p, p[j].to, j, i) /\ p[j].to \cap lines = {}
        BY <4>0, <4>r, <4>u, UntouchedStep
      <4>2. w \in ws
        BY <2>1, <4>1
      <4> QED  BY <2>1, <4>0, <4>1, <4>2 DEF Sums
    <3> QED  BY <3>1, <3>2
  <2>2. (i + 1) - 1 = i
    OBVIOUS
  <2> QED  BY <2>1, <2>2 DEF Sums
<1>3. Real(all)
  BY DEF Real
<1> QED  BY <1>1, <1>2, <1>3

\* Every operand of the instruction to come is there, and what an MXU
\* instruction adds to is a sum of products.
LEMMA OperandsThere ==
  ASSUME AllDefined, AllScheduled, OrderInv, ValueInv, NEW t \in TileIds
  PROVE  /\ \A r \in LocalReads(Next1(t)) : Read(t, r) # Nothing
         /\ Next1(t).op = "load" => ReadDram(Next1(t).from) # Nothing
         /\ Next1(t).op = "mxu" /\ Next1(t).acc => Read(t, Next1(t).to)[1] = "mm"
         /\ Next1(t).op = "vpu" =>
              Next1(t).in # <<>> /\ Next1(t).in \in Seq(Regions(Next1(t).in))
<1> DEFINE p == Program(t)
           P == Programs[cfg]
           in == Next1(t)
<1>1. /\ in = p[pc[t]] /\ pc[t] \in DOMAIN p /\ pc[t] \in Nat \ {0}
      /\ DOMAIN P = TileIds /\ \A u \in TileIds : Program(u) = P[u]
  BY Running DEF OrderInv, Placed, Program, Next1
<1>2. Defined(c, P)
  BY DEF AllDefined, OrderInv, Placed, c
<1>3. LocalDefined(p) /\ DramDefined(c, P)
  BY <1>1, <1>2 DEF Defined
<1>4. Present(p, local[t], pc[t]) /\ Sums(p, local[t], pc[t]) /\ Real(local[t])
  BY DEF ValueInv, LocalKnown
<1> HIDE DEF in, p
<1>5. ASSUME NEW r \in LocalReads(in)
      PROVE  \E w \in local[t] : w.lines = r /\ Read(t, r) = w.value
  <2>1. PICK j \in 1 .. pc[t] - 1 : r \in LocalWrites(p[j]) /\ Untouched(p, r, j, pc[t])
    BY <1>1, <1>3 DEF LocalDefined
  <2>2. \E w \in local[t] : w.lines = r
    BY <1>4, <2>1 DEF Present
  <2> QED  BY <2>2 DEF Read
<1>6. \A r \in LocalReads(in) : Read(t, r) # Nothing
  BY <1>4, <1>5 DEF Real
<1>7. ASSUME in.op = "load" PROVE ReadDram(in.from) # Nothing
  <2>1. CASE in.from \in DOMAIN dram
    BY <2>1 DEF ReadDram, ValueInv, DramKnown
  <2>2. CASE in.from \notin DOMAIN dram
    <3>1. SUFFICES ASSUME Image(c, in.from) = Nothing PROVE FALSE
      BY <2>2 DEF ReadDram
    <3>2. PICK u \in TileIds : \E j \in DOMAIN P[u] :
            /\ P[u][j].op = "store" /\ P[u][j].to = in.from
            /\ IssuesBefore(P, u, j, t, pc[t])
      BY <1>1, <1>3, <1>7, <3>1 DEF DramDefined, p
    <3>3. PICK j \in DOMAIN Program(u) :
            /\ Program(u)[j].op = "store" /\ Program(u)[j].to = in.from
            /\ IssuesBefore(P, u, j, t, pc[t])
      BY <1>1, <3>2
    <3>4. /\ DOMAIN Program(u) = 1 .. Len(Program(u)) /\ Len(Program(u)) \in Nat
          /\ pc[u] \in Nat
      BY Running DEF OrderInv, Placed
    <3>5. j < pc[u]
      <4>1. pc[t] \in 1 .. pc[t]
        BY <1>1
      <4> QED  BY <3>3, <4>1, BeforeHolds
    <3> QED  BY <2>2, <3>3, <3>4, <3>5 DEF ValueInv, DramKnown
  <2> QED  BY <2>1, <2>2
<1>8. ASSUME in.op = "mxu", in.acc PROVE Read(t, in.to)[1] = "mm"
  <2>1. in.to \in LocalReads(in)
    BY <1>8 DEF LocalReads
  <2>2. PICK w \in local[t] : w.lines = in.to /\ Read(t, in.to) = w.value
    BY <1>5, <2>1
  <2>3. in.to # {} /\ \E j \in 1 .. pc[t] - 1 : /\ p[j].op = "mxu" /\ p[j].to = in.to
                                                /\ Untouched(p, in.to, j, pc[t])
    BY <1>1, <1>3, <1>8, <2>1 DEF LocalDefined
  <2> QED  BY <1>4, <2>2, <2>3 DEF Sums
<1>9. in.op = "vpu" => in.in # <<>> /\ in.in \in Seq(Regions(in.in))
  BY <1>1, <1>3 DEF LocalDefined
<1> QED  BY <1>6, <1>7, <1>8, <1>9 DEF in

\* The names of blocks are not Nothing.
LEMMA NamesReal ==
  ASSUME cfg \in DOMAIN Configs, NEW v, v # Nothing
  PROVE  Named(v) # Nothing
<1>1. ASSUME NEW k, NEW n \in Computed(k) PROVE n # Nothing
  <2>1. \A xs, ls, es, cols : \A m \in Blocks(k, xs, ls, es, cols) : m # Nothing
    BY DEF Blocks, Name, Nothing
  <2>2. \A l : \A m \in ComputedInFfn(k, l) : m # Nothing
    BY <2>1 DEF ComputedInFfn
  <2> QED  BY <1>1, <2>1, <2>2 DEF Computed
<1>2. ASSUME v \in DOMAIN Names[cfg] PROVE Names[cfg][v] # Nothing
  <2> DEFINE Of == [n \in Computed(c) |-> Meaning(c, n)]
  <2>1. Names[cfg] = [m \in {Of[n] : n \in DOMAIN Of} |-> CHOOSE n \in DOMAIN Of : Of[n] = m]
    BY DEF Names, NamesOf, c
  <2>2. DOMAIN Of = Computed(c)
    OBVIOUS
  <2> HIDE DEF Of
  <2>3. Names[cfg][v] \in DOMAIN Of
    BY <1>2, <2>1
  <2> QED  BY <1>1, <2>2, <2>3
<1> QED  BY <1>2 DEF Named, NamedBy

\* What the VPU makes of operands that are there is not Nothing.
LEMMA ResultReal ==
  ASSUME NEW f, NEW v, NEW n \in Nat \ {0}, v = [j \in 1 .. n |-> v[j]], NEW arg, NEW j
  PROVE  VpuResult(f, v, arg, j) # Nothing
<1>1. <<f>> \o v # Nothing
  <2>1. v \in Seq({v[k] : k \in 1 .. n}) /\ Len(v) = n
    OBVIOUS
  <2>2. Len(<<f>> \o v) = n + 1
    BY <2>1
  <2> QED  BY <2>2 DEF Nothing
<1>2. \A x, y, z, w : <<x, y, z, w>> # Nothing /\ <<x, y, z>> # Nothing /\ <<x, y>> # Nothing
  BY DEF Nothing
<1> QED  BY <1>1, <1>2 DEF VpuResult, RmsNorm, LayerNorm, Softmax, Silu, Gelu_f32, Add, Mul

\* A step keeps what is known of LOCAL ...
LEMMA LocalStep ==
  ASSUME AllDefined, AllScheduled, OrderInv, ValueInv, NEW t \in TileIds, Execute(t)
  PROVE  LocalKnown'
<1> DEFINE p == Program(t)
           n == pc[t]
           in == Next1(t)
           Overwrites(new) ==
             /\ local' = [local EXCEPT ![t] =
                  {w \in local[t] : w.lines \cap UNION LocalWrites(in) = {}} \cup new]
             /\ \A w \in new : w.lines \in LocalWrites(in) /\ w.value # Nothing
             /\ \A r \in LocalWrites(in) : \E w \in new : w.lines = r
             /\ in.op = "mxu" => \A w \in new : w.value[1] = "mm"
<1>1. /\ cfg' = cfg /\ TileIds' = TileIds /\ \A u \in TileIds : Program(u)' = Program(u)
      /\ n \in Nat \ {0} /\ n \in DOMAIN p /\ in = p[n]
      /\ \A u \in TileIds : pc'[u] = IF u = t THEN n + 1 ELSE pc[u]
  BY PlacedStep DEF OrderInv
<1>2. /\ local = [u \in TileIds |-> local[u]]
      /\ Present(p, local[t], n) /\ Sums(p, local[t], n) /\ Real(local[t])
  BY DEF ValueInv, LocalKnown
<1>3. /\ \A r \in LocalReads(in) : Read(t, r) # Nothing
      /\ in.op = "load" => ReadDram(in.from) # Nothing
      /\ in.op = "mxu" /\ in.acc => Read(t, in.to)[1] = "mm"
      /\ in.op = "vpu" => in.in # <<>> /\ in.in \in Seq(Regions(in.in))
  BY OperandsThere
<1>4. ASSUME NEW new, Overwrites(new) PROVE LocalKnown'
  <2>1. /\ Present(p, local'[t], n + 1) /\ Sums(p, local'[t], n + 1) /\ Real(local'[t])
    <3>1. local'[t] =
            {w \in local[t] : w.lines \cap UNION LocalWrites(p[n]) = {}} \cup new
      BY <1>1, <1>2, <1>4
    <3>2. /\ \A w \in new : w.lines \in LocalWrites(p[n]) /\ w.value # Nothing
          /\ \A r \in LocalWrites(p[n]) : \E w \in new : w.lines = r
          /\ p[n].op = "mxu" => \A w \in new : w.value[1] = "mm"
      BY <1>1, <1>4
    <3>3. \A w : w \in local'[t] <=>
            w \in new \/ (w \in local[t] /\ w.lines \cap UNION LocalWrites(p[n]) = {})
      BY <3>1
    <3> HIDE DEF p, n, Overwrites
    <3> QED  BY <1>1, <1>2, <3>2, <3>3, Overwritten
  <2>2. ASSUME NEW u \in TileIds, u # t
        PROVE  /\ Present(Program(u), local'[u], pc'[u]) /\ Sums(Program(u), local'[u], pc'[u])
               /\ Real(local'[u])
    <3>1. local'[u] = local[u] /\ pc'[u] = pc[u]
      BY <1>1, <1>2, <1>4, <2>2
    <3> QED  BY <3>1 DEF ValueInv, LocalKnown
  <2>3. \A u \in TileIds' :
          /\ Present(Program(u)', local'[u], pc'[u]) /\ Sums(Program(u)', local'[u], pc'[u])
          /\ Real(local'[u])
    BY <1>1, <2>1, <2>2
  <2>4. local' = [u \in TileIds |-> local'[u]]
    BY <1>2, <1>4
  <2> QED  BY <1>1, <2>3, <2>4 DEF LocalKnown
<1>5. ASSUME NEW lines, NEW value, Write(t, lines, value), LocalWrites(in) = {lines},
             value # Nothing, in.op = "mxu" => value[1] = "mm"
      PROVE  LocalKnown'
  <2>1. local' = [local EXCEPT ![t] =
          {w \in local[t] : w.lines \cap UNION LocalWrites(in) = {}}
            \cup {[lines |-> lines, value |-> value]}]
    <3>1. UNION {<<lines>>[j] : j \in DOMAIN <<lines>>} = UNION LocalWrites(in)
      BY <1>5
    <3>2. {[lines |-> <<lines>>[j], value |-> value] : j \in DOMAIN <<lines>>}
            = {[lines |-> lines, value |-> value]}
      OBVIOUS
    <3> HIDE DEF in
    <3> QED  BY <1>5, <3>1, <3>2 DEF Write, WriteAll
  <2>2. Overwrites({[lines |-> lines, value |-> value]})
    BY <1>5, <2>1
  <2> HIDE DEF Overwrites
  <2> QED  BY <1>4, <2>2
<1>6. CASE Transfer(t, in)
  <2>1. CASE in.op = "store"
    <3>1. local' = local /\ LocalWrites(in) = {}
      BY <1>6, <2>1 DEF Transfer, LocalWrites
    <3>2. local' = [local EXCEPT ![t] =
            {w \in local[t] : w.lines \cap UNION LocalWrites(in) = {}} \cup {}]
      BY <1>2, <3>1
    <3>3. Overwrites({})
      BY <2>1, <3>1, <3>2
    <3> HIDE DEF Overwrites
    <3> QED  BY <1>4, <3>3
  <2>2. CASE in.op \in {"load", "copy"}
    <3>1. PICK lines, value : lines = in.to
            /\ value = IF in.op = "load" THEN ReadDram(in.from) ELSE Read(t, in.from)
      OBVIOUS
    <3>2. Write(t, lines, value)
      BY <1>6, <2>2, <3>1 DEF Transfer
    <3>3. LocalWrites(in) = {lines}
      BY <2>2, <3>1 DEF LocalWrites
    <3>4. value # Nothing
      BY <1>3, <2>2, <3>1 DEF LocalReads
    <3> QED  BY <1>5, <2>2, <3>2, <3>3, <3>4
  <2> QED  BY <1>6, <2>1, <2>2 DEF Transfer
<1>7. CASE MxuIssue(t, in)
  <2> DEFINE product == <<<<Read(t, in.a), Read(t, in.b)>>>>
             old == Read(t, in.to)
  <2>1. PICK lines, value : lines = in.to
          /\ value = IF ~in.acc THEN <<"mm", product>>
                     ELSE IF old[1] = "mm" THEN <<"mm", old[2] \o product>>
                     ELSE Nothing
    OBVIOUS
  <2>2. in.op = "mxu" /\ Write(t, lines, value)
    BY <1>7, <2>1 DEF MxuIssue, MxuResult
  <2>3. LocalWrites(in) = {lines}
    BY <2>1, <2>2 DEF LocalWrites
  <2>4. \E x : value = <<"mm", x>>
    BY <1>3, <2>1, <2>2
  <2>5. value # Nothing /\ value[1] = "mm"
    BY <2>4 DEF Nothing
  <2> QED  BY <1>5, <2>2, <2>3, <2>5
<1>8. CASE VpuIssue(t, in)
  <2> DEFINE v == [j \in DOMAIN in.in |-> Read(t, in.in[j])]
             new == {[lines |-> in.out[j], value |-> VpuResult(in.f, v, in.arg, j)] :
                       j \in DOMAIN in.out}
  <2>1. in.op = "vpu" /\ LocalWrites(in) = Regions(in.out)
    BY <1>8 DEF VpuIssue, LocalWrites
  <2>2. local' = [local EXCEPT ![t] =
          {w \in local[t] : w.lines \cap UNION LocalWrites(in) = {}} \cup new]
    <3>1. WriteAll(t, in.out, LAMBDA j : VpuResult(in.f, v, in.arg, j))
      BY <1>8 DEF VpuIssue
    <3> QED  BY <2>1, <3>1 DEF WriteAll, Regions
  <2>3. Len(in.in) \in Nat \ {0} /\ DOMAIN in.in = 1 .. Len(in.in)
    BY <1>3, <2>1
  <2>4. \A j : VpuResult(in.f, v, in.arg, j) # Nothing
    BY <2>3, ResultReal
  <2>5. /\ \A w \in new : w.lines \in LocalWrites(in) /\ w.value # Nothing
        /\ \A r \in LocalWrites(in) : \E w \in new : w.lines = r
    <3> DEFINE V(j) == VpuResult(in.f, v, in.arg, j)
    <3>1. new = {[lines |-> in.out[j], value |-> V(j)] : j \in DOMAIN in.out}
      OBVIOUS
    <3>2. \A j : V(j) # Nothing
      BY <2>4
    <3>3. LocalWrites(in) = {in.out[j] : j \in DOMAIN in.out}
      BY <2>1 DEF Regions
    <3> HIDE DEF V, new, in
    <3>4. ASSUME NEW w \in new PROVE w.lines \in LocalWrites(in) /\ w.value # Nothing
      BY <3>1, <3>2, <3>3
    <3>5. ASSUME NEW r \in LocalWrites(in) PROVE \E w \in new : w.lines = r
      <4>1. PICK j \in DOMAIN in.out : r = in.out[j]
        BY <3>3
      <4>2. [lines |-> in.out[j], value |-> V(j)] \in new
        BY <3>1
      <4>3. [lines |-> in.out[j], value |-> V(j)].lines = r
        BY <4>1
      <4> QED  BY <4>2, <4>3
    <3> QED  BY <3>4, <3>5
  <2> HIDE DEF new
  <2>6. Overwrites(new)
    BY <2>1, <2>2, <2>5
  <2> HIDE DEF Overwrites
  <2> QED  BY <1>4, <2>6
<1>9. CASE local' = local /\ LocalWrites(in) = {} /\ in.op # "mxu"
  <2>1. local' = [local EXCEPT ![t] =
          {w \in local[t] : w.lines \cap UNION LocalWrites(in) = {}} \cup {}]
    BY <1>2, <1>9
  <2>2. Overwrites({})
    BY <1>9, <2>1
  <2> HIDE DEF Overwrites
  <2> QED  BY <1>4, <2>2
<1>10. \/ Transfer(t, in) \/ MxuIssue(t, in) \/ VpuIssue(t, in)
       \/ local' = local /\ LocalWrites(in) = {} /\ in.op # "mxu"
  BY Instructions DEF DmaFence, WaitMxuIssue, ReleaseIssue, AcquireIssue, LocalWrites
<1> QED  BY <1>6, <1>7, <1>8, <1>9, <1>10

\* ... and of DRAM.
LEMMA DramStep ==
  ASSUME AllDefined, AllScheduled, OrderInv, ValueInv, NEW t \in TileIds, Execute(t)
  PROVE  DramKnown'
<1> DEFINE in == Next1(t)
<1>1. /\ cfg' = cfg /\ TileIds' = TileIds /\ \A u \in TileIds : Program(u)' = Program(u)
      /\ pc[t] \in Nat \ {0} /\ in = Program(t)[pc[t]]
      /\ \A u \in TileIds : pc[u] \in Nat /\ pc'[u] = IF u = t THEN pc[t] + 1 ELSE pc[u]
  BY PlacedStep DEF OrderInv, Placed
<1>2. /\ \A u \in TileIds : \A j \in 1 .. pc[u] - 1 :
           Program(u)[j].op = "store" => Program(u)[j].to \in DOMAIN dram
      /\ \A a \in DOMAIN dram : dram[a] # Nothing
  BY DEF ValueInv, DramKnown
<1>3. ASSUME DOMAIN dram \subseteq DOMAIN dram', \A a \in DOMAIN dram' : dram'[a] # Nothing,
             in.op = "store" => in.to \in DOMAIN dram'
      PROVE  DramKnown'
  <2>1. ASSUME NEW u \in TileIds, NEW j \in 1 .. pc'[u] - 1, Program(u)[j].op = "store"
        PROVE  Program(u)[j].to \in DOMAIN dram'
    <3>1. CASE j \in 1 .. pc[u] - 1
      BY <1>2, <1>3, <2>1, <3>1
    <3>2. CASE j \notin 1 .. pc[u] - 1
      <4>1. u = t /\ j = pc[t]
        BY <1>1, <3>2
      <4> QED  BY <1>1, <1>3, <2>1, <4>1
    <3> QED  BY <3>1, <3>2
  <2> QED  BY <1>1, <1>3, <2>1 DEF DramKnown
<1>4. CASE Transfer(t, in) /\ in.op = "store"
  <2>1. dram' = [a \in DOMAIN dram \cup {in.to} |->
                   IF a = in.to THEN Named(Read(t, in.from)) ELSE dram[a]]
    BY <1>4 DEF Transfer
  <2>2. Read(t, in.from) # Nothing
    BY <1>4, OperandsThere DEF LocalReads
  <2>3. \A v : v # Nothing => Named(v) # Nothing
    BY NamesReal DEF OrderInv, Placed
  <2>4. Named(Read(t, in.from)) # Nothing
    BY <2>2, <2>3
  <2> QED  BY <1>2, <1>3, <2>1, <2>4
<1>5. CASE dram' = dram /\ in.op # "store"
  BY <1>2, <1>3, <1>5
<1>6. \/ Transfer(t, in) /\ in.op = "store"
      \/ dram' = dram /\ in.op # "store"
  BY Instructions DEF Transfer, DmaFence, MxuIssue, WaitMxuIssue, VpuIssue, ReleaseIssue,
     AcquireIssue
<1> QED  BY <1>4, <1>5, <1>6

\* Init, and every step, give the invariant.
LEMMA ValueInit == AllScheduled /\ MachineInit => ValueInv
<1> SUFFICES ASSUME AllScheduled, MachineInit PROVE ValueInv
  OBVIOUS
<1>1. pc = [t \in TileIds |-> 1] /\ local = [t \in TileIds |-> {}]
  BY DEF MachineInit
<1>2. LocalKnown
  BY <1>1 DEF LocalKnown, Present, Sums, Real
<1>3. DramKnown
  <2>1. dram = <<>> /\ DOMAIN dram = {}
    BY DEF MachineInit
  <2> QED  BY <1>1, <2>1 DEF DramKnown
<1> QED  BY <1>2, <1>3 DEF ValueInv

LEMMA ValueNext ==
  AllScheduled /\ AllDefined /\ OrderInv /\ ValueInv /\ [MachineNext]_machine_vars => ValueInv'
<1> SUFFICES ASSUME AllScheduled, AllDefined, OrderInv, ValueInv, [MachineNext]_machine_vars
             PROVE  ValueInv'
  OBVIOUS
<1>1. CASE MachineNext
  <2>1. PICK t \in TileIds : Execute(t)
    BY <1>1 DEF MachineNext
  <2> QED  BY <2>1, LocalStep, DramStep DEF ValueInv
<1>2. CASE UNCHANGED machine_vars
  BY <1>2 DEF machine_vars, ValueInv, LocalKnown, DramKnown, TileIds, Program, c
<1> QED  BY <1>1, <1>2

\* Every operand of a well-ordered program that writes first is a value that
\* was written as a whole: no slot of the LOCAL map is reused too early, no
\* DRAM block read too early (compile.py:254-264).
THEOREM OperandsWritten ==
  ASSUME AllScheduled, AllDefined
  PROVE  MachineSpec => []OperandsAreWhole
<1>1. MachineInit => OrderInv /\ ValueInv
  BY OrderInit, ValueInit
<1>2. OrderInv /\ ValueInv /\ [MachineNext]_machine_vars => (OrderInv /\ ValueInv)'
  BY OrderNext, ValueNext
<1>3. OrderInv /\ ValueInv => OperandsAreWhole
  BY OperandsThere DEF OperandsAreWhole
<1> QED  BY <1>1, <1>2, <1>3, PTL DEF MachineSpec

-----------------------------------------------------------------------------
(* The programs: values.                                                   *)

\* What the program that runs computes, in whatever order the tiles take turns.
IsValue(V) ==
  Evaluates(c, Names[cfg], Programs[cfg], V) /\ AsReference(c, Programs[cfg], V)
Predicted == CHOOSE V : IsValue(V)

\* Every compiled program computes the reference.
AllEvaluate ==
  \A i \in DOMAIN Configs :
    \E V : Evaluates(Configs[i], Names[i], Programs[i], V) /\ AsReference(Configs[i], Programs[i], V)

\* Of what has been written and not touched since, LOCAL holds the value v.
Agrees(p, v, ws, i) ==
  \A j \in 1 .. i - 1 : \A r \in LocalWrites(p[j]) :
    r # {} /\ Untouched(p, r, j, i) => \A w \in ws : w.lines = r => w.value = v[j][r]

\* LOCAL holds what was predicted.
LocalAgrees ==
  \A t \in TileIds : Agrees(Program(t), Predicted[t], local[t], pc[t])

\* Store x has issued.
StoreIssued(x) == x[2] < pc[x[1]]

\* DRAM holds what an issued store wrote that no other issued store follows.
DramAgrees ==
  \A a \in DOMAIN dram : \E x \in Stores(Programs[cfg], a) :
    /\ StoreIssued(x) /\ dram[a] = Predicted[x[1]][x[2]][a]
    /\ \A y \in Stores(Programs[cfg], a) :
         StoreIssued(y) => ~IssuesBefore(Programs[cfg], x[1], x[2], y[1], y[2])

AgreeInv == LocalAgrees /\ DramAgrees

\* There is a prediction.
LEMMA PredictedHolds ==
  ASSUME AllEvaluate, cfg \in DOMAIN Configs
  PROVE  IsValue(Predicted)
<1>1. \E V : IsValue(V)
  BY DEF AllEvaluate, IsValue, c
<1> QED  BY <1>1 DEF Predicted

\* The stores to an address.
LEMMA StoresKnown ==
  ASSUME AllScheduled, cfg \in DOMAIN Configs, NEW a
  PROVE  \A x : x \in Stores(Programs[cfg], a) <=>
           \E u \in TileIds : \E j \in DOMAIN Program(u) :
             x = <<u, j>> /\ Program(u)[j].op = "store" /\ Program(u)[j].to = a
<1>1. DOMAIN Programs[cfg] = TileIds
  BY Running
<1> QED  BY <1>1 DEF Stores, Program

\* Instruction i overwrites what it writes, by values that agree.
LEMMA AgreesStep ==
  ASSUME NEW p, NEW i \in Nat \ {0}, NEW v, NEW ws, NEW new, NEW all, Agrees(p, v, ws, i),
         \A w : w \in all <=>
           w \in new \/ (w \in ws /\ w.lines \cap UNION LocalWrites(p[i]) = {}),
         \A w \in new : w.lines \in LocalWrites(p[i]) /\ w.value = v[i][w.lines]
  PROVE  Agrees(p, v, all, i + 1)
<1> DEFINE lines == UNION LocalWrites(p[i])
<1>1. ASSUME NEW j \in 1 .. i, NEW r \in LocalWrites(p[j]), r # {}, Untouched(p, r, j, i + 1),
             NEW w \in all, w.lines = r
      PROVE  w.value = v[j][r]
  <2>1. CASE j = i
    <3>1. r \subseteq lines
      BY <1>1, <2>1
    <3>2. w \in new
      BY <1>1, <3>1
    <3> QED  BY <1>1, <2>1, <3>2
  <2>2. CASE j # i
    <3>1. j \in 1 .. i - 1 /\ i \in Nat
      BY <2>2
    <3>2. Untouched(p, r, j, i) /\ r \cap lines = {}
      BY <1>1, <3>1, UntouchedStep
    <3>3. w \notin new
      <4>1. ASSUME w \in new PROVE FALSE
        <5>1. r \subseteq lines
          BY <1>1, <4>1
        <5> QED  BY <1>1, <3>2, <5>1
      <4> QED  BY <4>1
    <3>4. w \in ws
      BY <3>3
    <3> QED  BY <1>1, <3>1, <3>2, <3>4 DEF Agrees
  <2> QED  BY <2>1, <2>2
<1>2. (i + 1) - 1 = i
  OBVIOUS
<1> QED  BY <1>1, <1>2 DEF Agrees

\* Every operand is the one that was predicted.
LEMMA OperandsAgree ==
  ASSUME AllDefined, AllScheduled, OrderInv, ValueInv, AgreeInv, NEW t \in TileIds,
         NEW r \in LocalReads(Next1(t))
  PROVE  Read(t, r) = Takes(Programs[cfg][t], Predicted[t], pc[t], r)
<1> DEFINE p == Program(t)
<1>1. /\ Next1(t) = p[pc[t]] /\ pc[t] \in DOMAIN p /\ DOMAIN Programs[cfg] = TileIds
      /\ p = Programs[cfg][t] /\ cfg \in DOMAIN Configs
  BY Running DEF OrderInv, Placed, Program, Next1
<1>2. LocalDefined(p)
  BY <1>1 DEF AllDefined, Defined, c
<1>3. Present(p, local[t], pc[t]) /\ Agrees(p, Predicted[t], local[t], pc[t])
  BY DEF ValueInv, LocalKnown, AgreeInv, LocalAgrees
<1> HIDE DEF p
<1> DEFINE Written(j) == r \in LocalWrites(p[j]) /\ Untouched(p, r, j, pc[t])
           last == CHOOSE j \in 1 .. pc[t] - 1 : Written(j)
<1>4. r # {} /\ \E j \in 1 .. pc[t] - 1 : Written(j)
  BY <1>1, <1>2 DEF LocalDefined
<1>5. last \in 1 .. pc[t] - 1 /\ Written(last)
  <2> HIDE DEF Written
  <2> QED  BY <1>4
<1>6. Takes(p, Predicted[t], pc[t], r) = Predicted[t][last][r]
  BY DEF Takes
<1> HIDE DEF last
<1>7. PICK w \in local[t] : w.lines = r /\ Read(t, r) = w.value
  <2>1. \E w \in local[t] : w.lines = r
    BY <1>3, <1>5 DEF Present
  <2> QED  BY <2>1 DEF Read
<1>8. w.value = Predicted[t][last][r]
  BY <1>3, <1>4, <1>5, <1>7 DEF Agrees
<1> QED  BY <1>1, <1>6, <1>7, <1>8

\* What stands in DRAM when the stores "before" and no store "after" have
\* issued.
LEMMA StandsAgrees ==
  ASSUME AllScheduled, OrderInv, ValueInv, AgreeInv, NEW a, NEW v, NEW before, NEW after,
         Stands(c, Programs[cfg], Predicted, a, v, before, after),
         before \subseteq Stores(Programs[cfg], a),
         \A y \in before : StoreIssued(y),
         \A y \in after : ~StoreIssued(y)
  PROVE  ReadDram(a) = v
<1> DEFINE P == Programs[cfg]
<1>1. CASE a \in DOMAIN dram
  <2>1. PICK x \in Stores(P, a) :
          /\ StoreIssued(x) /\ dram[a] = Predicted[x[1]][x[2]][a]
          /\ \A y \in Stores(P, a) :
               StoreIssued(y) => ~IssuesBefore(P, x[1], x[2], y[1], y[2])
    BY <1>1 DEF AgreeInv, DramAgrees
  <2>2. x \in Stores(P, a) \ after
    BY <2>1
  <2>3. \/ Predicted[x[1]][x[2]][a] = v
        \/ \E y \in before : IssuesBefore(P, x[1], x[2], y[1], y[2])
    BY <2>2 DEF Stands
  <2>4. Predicted[x[1]][x[2]][a] = v
    BY <2>1, <2>3
  <2> QED  BY <1>1, <2>1, <2>4 DEF ReadDram
<1>2. CASE a \notin DOMAIN dram
  <2>1. ASSUME NEW y \in before PROVE FALSE
    <3>1. PICK u \in TileIds : \E j \in DOMAIN Program(u) :
            y = <<u, j>> /\ Program(u)[j].op = "store" /\ Program(u)[j].to = a
      BY <2>1, StoresKnown DEF OrderInv, Placed
    <3>2. PICK j \in DOMAIN Program(u) :
            y = <<u, j>> /\ Program(u)[j].op = "store" /\ Program(u)[j].to = a
      BY <3>1
    <3>3. j < pc[u]
      BY <2>1, <3>2 DEF StoreIssued
    <3>4. j \in 1 .. pc[u] - 1
      BY <3>3, Running DEF OrderInv, Placed
    <3> QED  BY <1>2, <3>2, <3>4 DEF ValueInv, DramKnown
  <2>2. before = {}
    BY <2>1
  <2> QED  BY <1>2, <2>2 DEF Stands, ReadDram
<1> QED  BY <1>1, <1>2

\* A load reads what was predicted.
LEMMA LoadsAgree ==
  ASSUME AllEvaluate, AllScheduled, OrderInv, ValueInv, AgreeInv, NEW t \in TileIds,
         Next1(t).op = "load"
  PROVE  ReadDram(Next1(t).from) = Predicted[t][pc[t]][Next1(t).to]
<1> DEFINE P == Programs[cfg]
           in == Next1(t)
           n == pc[t]
           before == {x \in Stores(P, in.from) : IssuesBefore(P, x[1], x[2], t, n)}
           after == {x \in Stores(P, in.from) : IssuesBefore(P, t, n, x[1], x[2])}
<1>1. /\ in = P[t][n] /\ n \in DOMAIN P[t] /\ t \in DOMAIN P /\ n \in 1 .. n
      /\ cfg \in DOMAIN Configs /\ P[t] = Program(t)
  BY Running DEF OrderInv, Placed, Program, Next1
<1>2. Stands(c, P, Predicted, in.from, Predicted[t][n][in.to], before, after)
  BY <1>1, PredictedHolds DEF IsValue, Evaluates, Loads
<1>3. ASSUME NEW x \in Stores(P, in.from)
      PROVE  /\ x[1] \in TileIds /\ x[2] \in DOMAIN Program(x[1]) /\ x[2] \in Nat
             /\ pc[x[1]] \in Nat
  <2>1. PICK u \in TileIds : \E j \in DOMAIN Program(u) : x = <<u, j>>
    BY <1>1, StoresKnown
  <2> QED  BY <2>1, Running DEF OrderInv, Placed
<1>4. ASSUME NEW x \in before PROVE StoreIssued(x)
  <2>1. x[1] \in TileIds /\ x[2] \in DOMAIN Program(x[1]) /\ IssuesBefore(P, x[1], x[2], t, n)
    BY <1>3
  <2> QED  BY <1>1, <2>1, BeforeHolds DEF StoreIssued
<1>5. ASSUME NEW x \in after, StoreIssued(x) PROVE FALSE
  <2>1. /\ x[1] \in TileIds /\ x[2] \in DOMAIN Program(x[1]) /\ x[2] \in 1 .. pc[x[1]]
        /\ IssuesBefore(P, t, n, x[1], x[2])
    BY <1>3, <1>5, Running DEF StoreIssued, OrderInv, Placed
  <2>2. n < pc[t]
    BY <1>1, <2>1, BeforeHolds
  <2> QED  BY <1>1, <2>2
<1>6. before \subseteq Stores(P, in.from)
  OBVIOUS
<1> HIDE DEF before, after, in
<1> QED  BY <1>2, <1>4, <1>5, <1>6, StandsAgrees DEF in

\* A step keeps LOCAL as predicted ...
LEMMA LocalAgreesStep ==
  ASSUME AllEvaluate, AllDefined, AllScheduled, OrderInv, ValueInv, AgreeInv,
         NEW t \in TileIds, Execute(t)
  PROVE  LocalAgrees'
<1> DEFINE p == Program(t)
           n == pc[t]
           in == Next1(t)
           v == Predicted[t]
           Writes(new) ==
             /\ local' = [local EXCEPT ![t] =
                  {w \in local[t] : w.lines \cap UNION LocalWrites(in) = {}} \cup new]
             /\ \A w \in new : w.lines \in LocalWrites(in) /\ w.value = v[n][w.lines]
<1>1. /\ n \in Nat \ {0} /\ n \in DOMAIN p /\ in = p[n] /\ cfg \in DOMAIN Configs
      /\ \A u \in TileIds : pc'[u] = IF u = t THEN n + 1 ELSE pc[u]
      /\ TileIds' = TileIds /\ \A u \in TileIds : Program(u)' = Program(u)
      /\ Predicted' = Predicted
  BY PlacedStep DEF OrderInv, Placed, Predicted, IsValue, c
<1>2. /\ local = [u \in TileIds |-> local[u]] /\ Agrees(p, v, local[t], n)
      /\ \A u \in TileIds : Agrees(Program(u), Predicted[u], local[u], pc[u])
  BY DEF ValueInv, LocalKnown, AgreeInv, LocalAgrees
<1>3. ASSUME NEW r \in LocalReads(in) PROVE Read(t, r) = Takes(p, v, n, r)
  BY <1>3, OperandsAgree DEF Program
<1>e. /\ in.op = "copy" => v[n][in.to] = Takes(p, v, n, in.from)
      /\ in.op = "mxu" =>
           v[n][in.to] = MxuResult(in.acc, Takes(p, v, n, in.a), Takes(p, v, n, in.b),
                                   IF in.acc THEN Takes(p, v, n, in.to) ELSE Nothing)
      /\ in.op = "vpu" =>
           \A k \in DOMAIN in.out :
             v[n][in.out[k]] =
               VpuResult(in.f, [j \in DOMAIN in.in |-> Takes(p, v, n, in.in[j])], in.arg, k)
  <2>1. t \in DOMAIN Programs[cfg] /\ p = Programs[cfg][t]
    BY <1>1, Running DEF Program
  <2>2. Makes(Names[cfg], p, v, n)
    BY <1>1, <2>1, PredictedHolds DEF IsValue, Evaluates
  <2> QED  BY <1>1, <2>2 DEF Makes
<1>4. ASSUME NEW new, Writes(new) PROVE LocalAgrees'
  <2>1. Agrees(p, v, local'[t], n + 1)
    <3>1. \A w : w \in local'[t] <=>
            w \in new \/ (w \in local[t] /\ w.lines \cap UNION LocalWrites(p[n]) = {})
      BY <1>1, <1>2, <1>4
    <3>2. \A w \in new : w.lines \in LocalWrites(p[n]) /\ w.value = v[n][w.lines]
      BY <1>1, <1>4
    <3> HIDE DEF p, n, v, Writes
    <3> QED  BY <1>1, <1>2, <3>1, <3>2, AgreesStep
  <2>2. ASSUME NEW u \in TileIds, u # t
        PROVE  Agrees(Program(u), Predicted[u], local'[u], pc'[u])
    <3>1. local'[u] = local[u] /\ pc'[u] = pc[u]
      BY <1>1, <1>2, <1>4, <2>2
    <3> QED  BY <1>2, <3>1
  <2>3. \A u \in TileIds' : Agrees(Program(u)', Predicted'[u], local'[u], pc'[u])
    BY <1>1, <2>1, <2>2
  <2> QED  BY <2>3 DEF LocalAgrees
<1>5. ASSUME NEW lines, NEW value, Write(t, lines, value), LocalWrites(in) = {lines},
             value = v[n][lines]
      PROVE  LocalAgrees'
  <2>1. local' = [local EXCEPT ![t] =
          {w \in local[t] : w.lines \cap UNION LocalWrites(in) = {}}
            \cup {[lines |-> lines, value |-> value]}]
    <3>1. UNION {<<lines>>[j] : j \in DOMAIN <<lines>>} = UNION LocalWrites(in)
      BY <1>5
    <3>2. {[lines |-> <<lines>>[j], value |-> value] : j \in DOMAIN <<lines>>}
            = {[lines |-> lines, value |-> value]}
      OBVIOUS
    <3> HIDE DEF in
    <3> QED  BY <1>5, <3>1, <3>2 DEF Write, WriteAll
  <2>2. Writes({[lines |-> lines, value |-> value]})
    BY <1>5, <2>1
  <2> HIDE DEF Writes
  <2> QED  BY <1>4, <2>2
<1>6. CASE Transfer(t, in)
  <2>1. CASE in.op = "store"
    <3>1. local' = local /\ LocalWrites(in) = {}
      BY <1>6, <2>1 DEF Transfer, LocalWrites
    <3>2. local' = [local EXCEPT ![t] =
            {w \in local[t] : w.lines \cap UNION LocalWrites(in) = {}} \cup {}]
      BY <1>2, <3>1
    <3>3. Writes({})
      BY <3>2
    <3> HIDE DEF Writes
    <3> QED  BY <1>4, <3>3
  <2>2. CASE in.op \in {"load", "copy"}
    <3>1. PICK lines, value : lines = in.to
            /\ value = IF in.op = "load" THEN ReadDram(in.from) ELSE Read(t, in.from)
      OBVIOUS
    <3>2. Write(t, lines, value)
      BY <1>6, <2>2, <3>1 DEF Transfer
    <3>3. LocalWrites(in) = {lines}
      BY <2>2, <3>1 DEF LocalWrites
    <3>4. value = v[n][lines]
      <4>1. CASE in.op = "load"
        BY <3>1, <4>1, LoadsAgree
      <4>2. CASE in.op = "copy"
        <5>1. in.from \in LocalReads(in)
          BY <4>2 DEF LocalReads
        <5> QED  BY <1>3, <1>e, <3>1, <4>2, <5>1
      <4> QED  BY <2>2, <4>1, <4>2
    <3> QED  BY <1>5, <3>2, <3>3, <3>4
  <2> QED  BY <1>6, <2>1, <2>2 DEF Transfer
<1>7. CASE MxuIssue(t, in)
  <2>1. PICK lines, value : lines = in.to
          /\ value = MxuResult(in.acc, Read(t, in.a), Read(t, in.b), Read(t, in.to))
    OBVIOUS
  <2>2. in.op = "mxu" /\ Write(t, lines, value)
    BY <1>7, <2>1 DEF MxuIssue
  <2>3. LocalWrites(in) = {lines}
    BY <2>1, <2>2 DEF LocalWrites
  <2>4. in.a \in LocalReads(in) /\ in.b \in LocalReads(in)
    BY <2>2 DEF LocalReads
  <2>5. value = v[n][lines]
    <3>1. CASE in.acc
      <4>1. in.to \in LocalReads(in)
        BY <2>2, <3>1 DEF LocalReads
      <4> QED  BY <1>3, <1>e, <2>1, <2>2, <2>4, <3>1, <4>1
    <3>2. CASE ~in.acc
      <4>1. value = MxuResult(in.acc, Read(t, in.a), Read(t, in.b), Nothing)
        BY <2>1, <3>2 DEF MxuResult
      <4> QED  BY <1>3, <1>e, <2>1, <2>2, <2>4, <3>2, <4>1
    <3> QED  BY <3>1, <3>2
  <2> QED  BY <1>5, <2>2, <2>3, <2>5
<1>8. CASE VpuIssue(t, in)
  <2> DEFINE args == [j \in DOMAIN in.in |-> Read(t, in.in[j])]
             new == {[lines |-> in.out[j], value |-> VpuResult(in.f, args, in.arg, j)] :
                       j \in DOMAIN in.out}
  <2>1. in.op = "vpu" /\ LocalWrites(in) = Regions(in.out)
    BY <1>8 DEF VpuIssue, LocalWrites
  <2>2. local' = [local EXCEPT ![t] =
          {w \in local[t] : w.lines \cap UNION LocalWrites(in) = {}} \cup new]
    <3>1. WriteAll(t, in.out, LAMBDA j : VpuResult(in.f, args, in.arg, j))
      BY <1>8 DEF VpuIssue
    <3> QED  BY <2>1, <3>1 DEF WriteAll, Regions
  <2>3. args = [j \in DOMAIN in.in |-> Takes(p, v, n, in.in[j])]
    <3>1. \A j \in DOMAIN in.in : in.in[j] \in LocalReads(in)
      BY <2>1 DEF LocalReads, Regions
    <3> HIDE DEF in, p, v, n
    <3> QED  BY <1>3, <3>1
  <2>4. \A k \in DOMAIN in.out : v[n][in.out[k]] = VpuResult(in.f, args, in.arg, k)
    BY <1>e, <2>1, <2>3
  <2>5. \A w \in new : w.lines \in LocalWrites(in) /\ w.value = v[n][w.lines]
    <3> DEFINE X(j) == VpuResult(in.f, args, in.arg, j)
    <3>1. new = {[lines |-> in.out[j], value |-> X(j)] : j \in DOMAIN in.out}
      OBVIOUS
    <3>2. \A k \in DOMAIN in.out : v[n][in.out[k]] = X(k)
      BY <2>4
    <3>3. LocalWrites(in) = {in.out[j] : j \in DOMAIN in.out}
      BY <2>1 DEF Regions
    <3> HIDE DEF X, new, in, v, n
    <3> QED  BY <3>1, <3>2, <3>3
  <2> HIDE DEF new
  <2>6. Writes(new)
    BY <2>2, <2>5
  <2> HIDE DEF Writes
  <2> QED  BY <1>4, <2>6
<1>9. CASE local' = local /\ LocalWrites(in) = {}
  <2>1. local' = [local EXCEPT ![t] =
          {w \in local[t] : w.lines \cap UNION LocalWrites(in) = {}} \cup {}]
    BY <1>2, <1>9
  <2>2. Writes({})
    BY <2>1
  <2> HIDE DEF Writes
  <2> QED  BY <1>4, <2>2
<1>10. \/ Transfer(t, in) \/ MxuIssue(t, in) \/ VpuIssue(t, in)
       \/ local' = local /\ LocalWrites(in) = {}
  BY Instructions DEF DmaFence, WaitMxuIssue, ReleaseIssue, AcquireIssue, LocalWrites
<1> QED  BY <1>6, <1>7, <1>8, <1>9, <1>10

\* ... and DRAM.
LEMMA DramAgreesStep ==
  ASSUME AllEvaluate, AllDefined, AllScheduled, OrderInv, ValueInv, AgreeInv,
         NEW t \in TileIds, Execute(t)
  PROVE  DramAgrees'
<1> DEFINE P == Programs[cfg]
           in == Next1(t)
           n == pc[t]
           Newest(x, a) == \A y \in Stores(P, a) :
             y[2] < pc'[y[1]] => ~IssuesBefore(P, x[1], x[2], y[1], y[2])
<1>1. /\ cfg' = cfg /\ n \in Nat \ {0} /\ n \in DOMAIN Program(t) /\ in = Program(t)[n]
      /\ \A u \in TileIds : pc[u] \in Nat /\ pc'[u] = IF u = t THEN n + 1 ELSE pc[u]
      /\ cfg \in DOMAIN Configs /\ P' = P /\ Predicted' = Predicted
  BY PlacedStep DEF OrderInv, Placed, Predicted, IsValue, c
<1>2. ASSUME NEW a, NEW x \in Stores(P, a)
      PROVE  /\ x[1] \in TileIds /\ x[2] \in DOMAIN Program(x[1]) /\ x[2] \in Nat \ {0}
             /\ Program(x[1])[x[2]].op = "store" /\ Program(x[1])[x[2]].to = a
             /\ x = <<x[1], x[2]>>
  <2>1. PICK u \in TileIds : \E j \in DOMAIN Program(u) :
          x = <<u, j>> /\ Program(u)[j].op = "store" /\ Program(u)[j].to = a
    BY <1>1, StoresKnown
  <2> QED  BY <2>1, Running DEF OrderInv, Placed
<1>3. ASSUME NEW a, in.op # "store" \/ in.to # a, NEW x \in Stores(P, a)
      PROVE  x[2] < pc'[x[1]] <=> StoreIssued(x)
  <2>1. ~(x[1] = t /\ x[2] = n)
    BY <1>1, <1>2, <1>3
  <2> QED  BY <1>1, <1>2, <2>1 DEF StoreIssued
<1>4. ASSUME NEW a \in DOMAIN dram, in.op # "store" \/ in.to # a
      PROVE  \E x \in Stores(P, a) :
               x[2] < pc'[x[1]] /\ dram[a] = Predicted[x[1]][x[2]][a] /\ Newest(x, a)
  <2>1. PICK x \in Stores(P, a) :
          /\ StoreIssued(x) /\ dram[a] = Predicted[x[1]][x[2]][a]
          /\ \A y \in Stores(P, a) :
               StoreIssued(y) => ~IssuesBefore(P, x[1], x[2], y[1], y[2])
    BY DEF AgreeInv, DramAgrees
  <2> QED  BY <1>3, <1>4, <2>1
<1>5. SUFFICES ASSUME NEW a \in DOMAIN dram'
               PROVE  \E x \in Stores(P, a) :
                        x[2] < pc'[x[1]] /\ dram'[a] = Predicted[x[1]][x[2]][a] /\ Newest(x, a)
  BY <1>1 DEF DramAgrees, StoreIssued
<1>6. CASE Transfer(t, in) /\ in.op = "store"
  <2>1. dram' = [b \in DOMAIN dram \cup {in.to} |->
                   IF b = in.to THEN Named(Read(t, in.from)) ELSE dram[b]]
    BY <1>6 DEF Transfer
  <2>2. CASE a # in.to
    BY <1>4, <1>5, <2>1, <2>2
  <2>3. CASE a = in.to
    <3> DEFINE x == <<t, n>>
    <3>1. x \in Stores(P, a)
      BY <1>1, <1>6, <2>3, StoresKnown
    <3>2. x[2] < pc'[x[1]]
      BY <1>1
    <3>3. dram'[a] = Predicted[t][n][a]
      <4>1. in.from \in LocalReads(in)
        BY <1>6 DEF LocalReads
      <4>2. Read(t, in.from) = Takes(P[t], Predicted[t], n, in.from)
        BY <4>1, OperandsAgree
      <4>3. t \in DOMAIN P /\ P[t] = Program(t)
        BY <1>1, Running DEF Program
      <4>4. Predicted[t][n][in.to] = NamedBy(Names[cfg], Takes(P[t], Predicted[t], n, in.from))
        <5>1. Makes(Names[cfg], P[t], Predicted[t], n)
          BY <1>1, <4>3, PredictedHolds DEF IsValue, Evaluates
        <5> QED  BY <1>1, <1>6, <4>3, <5>1 DEF Makes
      <4> QED  BY <2>1, <2>3, <4>2, <4>4 DEF Named
    <3>4. ASSUME NEW y \in Stores(P, a), y[2] < pc'[y[1]], IssuesBefore(P, t, n, y[1], y[2])
          PROVE  FALSE
      <4>1. y[1] \in TileIds /\ y[2] \in 1 .. pc[y[1]]
        BY <1>1, <1>2, <3>4
      <4>2. n < pc[t]
        BY <1>1, <3>4, <4>1, BeforeHolds
      <4> QED  BY <1>1, <4>2
    <3> QED  BY <3>1, <3>2, <3>3, <3>4
  <2> QED  BY <2>2, <2>3
<1>7. CASE dram' = dram /\ in.op # "store"
  BY <1>4, <1>5, <1>7
<1>8. \/ Transfer(t, in) /\ in.op = "store"
      \/ dram' = dram /\ in.op # "store"
  BY Instructions DEF Transfer, DmaFence, MxuIssue, WaitMxuIssue, VpuIssue, ReleaseIssue,
     AcquireIssue
<1> QED  BY <1>6, <1>7, <1>8

\* Init, and every step, give the invariant.
LEMMA AgreeInit == AllScheduled /\ MachineInit => AgreeInv
<1> SUFFICES ASSUME AllScheduled, MachineInit PROVE AgreeInv
  OBVIOUS
<1>1. pc = [t \in TileIds |-> 1] /\ local = [t \in TileIds |-> {}]
  BY DEF MachineInit
<1>2. dram = <<>> /\ DOMAIN dram = {}
  BY DEF MachineInit
<1> QED  BY <1>1, <1>2 DEF AgreeInv, LocalAgrees, Agrees, DramAgrees

LEMMA AgreeNext ==
  AllScheduled /\ AllDefined /\ AllEvaluate /\ OrderInv /\ ValueInv /\ AgreeInv
    /\ [MachineNext]_machine_vars => AgreeInv'
<1> SUFFICES ASSUME AllScheduled, AllDefined, AllEvaluate, OrderInv, ValueInv, AgreeInv,
                    [MachineNext]_machine_vars
             PROVE  AgreeInv'
  OBVIOUS
<1>1. CASE MachineNext
  <2>1. PICK t \in TileIds : Execute(t)
    BY <1>1 DEF MachineNext
  <2> QED  BY <2>1, LocalAgreesStep, DramAgreesStep DEF AgreeInv
<1>2. CASE UNCHANGED machine_vars
  BY <1>2 DEF machine_vars, AgreeInv, LocalAgrees, DramAgrees, StoreIssued, Predicted, IsValue, TileIds,
     Program, c
<1> QED  BY <1>1, <1>2

\* What was predicted is the reference.
LEMMA AgreeGivesReference ==
  AllScheduled /\ AllEvaluate /\ OrderInv /\ ValueInv /\ AgreeInv => StoredIsReference
<1> SUFFICES ASSUME AllScheduled, AllEvaluate, OrderInv, ValueInv, AgreeInv
             PROVE  StoredIsReference
  OBVIOUS
<1> DEFINE P == Programs[cfg]
<1>1. AsReference(c, P, Predicted) /\ cfg \in DOMAIN Configs
  BY PredictedHolds DEF IsValue, OrderInv, Placed
<1>2. /\ DOMAIN P = TileIds
      /\ \A u \in TileIds :
           /\ Program(u) = P[u] /\ DOMAIN Program(u) = 1 .. Len(Program(u))
           /\ Len(Program(u)) \in Nat /\ pc[u] \in DOMAIN Program(u) /\ pc[u] \in Nat
           /\ \A i \in DOMAIN Program(u) : Program(u)[i].op = "halt" <=> i = Len(Program(u))
  BY <1>1, Running DEF OrderInv, Placed, Program
<1>3. ASSUME NEW a, NEW x \in Stores(P, a)
      PROVE  /\ x[1] \in TileIds /\ x[2] \in DOMAIN Program(x[1])
             /\ Program(x[1])[x[2]].op = "store" /\ Program(x[1])[x[2]].to = a
  <2>1. PICK u \in TileIds : \E j \in DOMAIN Program(u) :
          x = <<u, j>> /\ Program(u)[j].op = "store" /\ Program(u)[j].to = a
    BY <1>1, StoresKnown
  <2> QED  BY <2>1
<1>4. ASSUME NEW a \in DOMAIN dram PROVE dram[a] \in ComputedBy[cfg]
  <2>1. PICK x \in Stores(P, a) : dram[a] = Predicted[x[1]][x[2]][a]
    BY DEF AgreeInv, DramAgrees
  <2>2. Predicted[x[1]][x[2]][a] \in Computed(c)
    BY <1>1, <1>2, <1>3 DEF AsReference
  <2>3. ComputedBy[cfg] = Computed(c)
    BY <1>1 DEF ComputedBy, c
  <2> QED  BY <2>1, <2>2, <2>3
<1>5. ASSUME \A t \in TileIds : Halted(t), NEW r \in 0 .. c.rb - 1, NEW k \in 0 .. c.heads - 1
      PROVE  ReadDram(Dram(Output(c, r, k)[1], r, k)) = Output(c, r, k)[2]
  <2> DEFINE a == Dram(Output(c, r, k)[1], r, k)
             v == Output(c, r, k)[2]
  <2>1. Stands(c, P, Predicted, a, v, Stores(P, a), {})
    BY <1>1 DEF AsReference
  <2>2. ASSUME NEW x \in Stores(P, a) PROVE StoreIssued(x)
    <3>1. Program(x[1])[pc[x[1]]].op = "halt"
      BY <1>3, <1>5 DEF Halted, Next1
    <3>2. pc[x[1]] = Len(Program(x[1])) /\ x[2] # Len(Program(x[1]))
      BY <1>2, <1>3, <3>1
    <3> QED  BY <1>2, <1>3, <3>2 DEF StoreIssued
  <2> HIDE DEF a, v
  <2>3. ReadDram(a) = v
    BY <2>1, <2>2, StandsAgrees
  <2> QED  BY <2>3 DEF a, v
<1> QED  BY <1>4, <1>5 DEF StoredIsReference

\* Whatever the order of the tiles' turns, every block in DRAM is one that
\* the reference computes, and once all tiles have halted the output is there
\* (edgc_cc.check_golden_vs_ref, model.py:157).
THEOREM ReferenceStored ==
  ASSUME AllScheduled, AllDefined, AllEvaluate
  PROVE  MachineSpec => []StoredIsReference
<1>1. MachineInit => OrderInv /\ ValueInv /\ AgreeInv
  BY OrderInit, ValueInit, AgreeInit
<1>2. OrderInv /\ ValueInv /\ AgreeInv /\ [MachineNext]_machine_vars
        => (OrderInv /\ ValueInv /\ AgreeInv)'
  BY OrderNext, ValueNext, AgreeNext
<1>3. OrderInv /\ ValueInv /\ AgreeInv => StoredIsReference
  BY AgreeGivesReference
<1> QED  BY <1>1, <1>2, <1>3, PTL DEF MachineSpec
=============================================================================
