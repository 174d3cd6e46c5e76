------------------------------ MODULE Barrier -------------------------------
(***************************************************************************)
(* The global barrier the compiler emits between dependent primitives      *)
(* (Compiler._barrier in tools/edgc/edgc/compile.py), run by the tiles.    *)
(* Barrier r has two fresh tags.  Every tile fences its DMA and releases   *)
(* Up(r) to tile 0, which joins all of them and then releases Down(r) to   *)
(* every tile, itself included, one after another.                         *)
(***************************************************************************)
EXTENDS JoinSync

CONSTANTS
  N,        \* isa.NUM_TILES
  Rounds,   \* barriers in the program (Compiler.barrier_count)
  MaxDma    \* bound: transfers a tile issues between two barriers

ASSUME BarrierAssumption ==
  /\ N \in Nat \ {0} /\ Rounds \in Nat /\ MaxDma \in Nat /\ MaxLiveTags \in Nat
  /\ Tiles = 0 .. N - 1
  /\ Tags = 0 .. 2 * Rounds - 1

VARIABLES
  round,   \* round[t]: barriers tile t has passed
  step,    \* step[t]: the instruction of the barrier tile t is at
  next,    \* the tile that tile 0 releases next in its broadcast
  todo,    \* todo[t]: transfers tile t has still to issue before its fence
  dirty    \* dirty[t]: outstanding DMA descriptors of tile t

vars == <<joinVars, round, step, next, todo, dirty>>

\* self.tag is taken twice per barrier.
Up(r) == 2 * r
Down(r) == 2 * r + 1

Init ==
  /\ JoinInit
  /\ round = [t \in Tiles |-> 0]
  /\ step = [t \in Tiles |-> "work"]
  /\ next = 0
  /\ todo \in [Tiles -> 0 .. MaxDma]
  /\ dirty = [t \in Tiles |-> 0]

At(t, s) == step[t] = s
Goto(t, s) == step' = [step EXCEPT ![t] = s]

\* A primitive issues a DMA; the engine retires one, whatever the tile does.
IssueDma(t) ==
  /\ At(t, "work") /\ todo[t] > 0
  /\ todo' = [todo EXCEPT ![t] = @ - 1]
  /\ dirty' = [dirty EXCEPT ![t] = @ + 1]
  /\ UNCHANGED <<joinVars, round, step, next>>

RetireDma(t) ==
  /\ dirty[t] > 0
  /\ dirty' = [dirty EXCEPT ![t] = @ - 1]
  /\ UNCHANGED <<joinVars, round, step, next, todo>>

\* Faulty: a barrier without its fence.
FenceSkipped(t) ==
  /\ At(t, "work") /\ round[t] < Rounds /\ todo[t] = 0
  /\ Goto(t, "release")
  /\ UNCHANGED <<joinVars, round, next, todo, dirty>>

\* dma_fence()
Fence(t) ==
  /\ At(t, "work") /\ round[t] < Rounds /\ todo[t] = 0
  /\ dirty[t] = 0
  /\ Goto(t, "release")
  /\ UNCHANGED <<joinVars, round, next, todo, dirty>>

\* release(0, bt)
ReleaseUp(t) ==
  /\ At(t, "release")
  /\ Release(t, 0, Up(round[t]))
  /\ Goto(t, IF t = 0 THEN "join" ELSE "go")
  /\ UNCHANGED <<round, next, todo, dirty>>

\* Faulty: joins the other tiles but not the last one.
JoinShort ==
  /\ At(0, "join")
  /\ Acquire(0, Up(round[0]), N - 1)
  /\ Goto(0, "bcast")
  /\ next' = 0
  /\ UNCHANGED <<round, todo, dirty>>

\* acquire(bt, NUM_TILES) on tile 0
Join ==
  /\ At(0, "join")
  /\ Acquire(0, Up(round[0]), N)
  /\ Goto(0, "bcast")
  /\ next' = 0
  /\ UNCHANGED <<round, todo, dirty>>

\* Faulty: leaves the last tile out.
BroadcastShort ==
  /\ At(0, "bcast")
  /\ Release(0, next, Down(round[0]))
  /\ next' = next + 1
  /\ IF next' >= N - 1 THEN Goto(0, "go") ELSE UNCHANGED step
  /\ UNCHANGED <<round, todo, dirty>>

\* release(t, bt2) for every t, in order
Broadcast ==
  /\ At(0, "bcast")
  /\ Release(0, next, Down(round[0]))
  /\ next' = next + 1
  /\ IF next' = N THEN Goto(0, "go") ELSE UNCHANGED step
  /\ UNCHANGED <<round, todo, dirty>>

\* acquire(bt2, 1)
Go(t) ==
  /\ At(t, "go")
  /\ Acquire(t, Down(round[t]), 1)
  /\ Goto(t, "work")
  /\ round' = [round EXCEPT ![t] = @ + 1]
  /\ \E d \in 0 .. MaxDma : todo' = [todo EXCEPT ![t] = d]
  /\ UNCHANGED <<next, dirty>>

Stall(t) ==
  /\ \/ At(t, "join") /\ AcquireStalls(t, Up(round[t]), N)
     \/ At(t, "go") /\ AcquireStalls(t, Down(round[t]), 1)
  /\ UNCHANGED <<round, step, next, todo, dirty>>

Running == ~thrown

Advance(t) ==
  /\ Running
  /\ \/ IssueDma(t) \/ Fence(t) \/ ReleaseUp(t) \/ Go(t) \/ Stall(t)
     \/ (t = 0 /\ (Join \/ Broadcast))

Retire(t) == Running /\ RetireDma(t)

Network == Running /\ Deliver /\ UNCHANGED <<round, step, next, todo, dirty>>

Next == (\E t \in Tiles : Advance(t) \/ Retire(t)) \/ Network

\* Chip::run ticks every tile and the network in every cycle, and a
\* descriptor is retired some time (TileDma).
Fairness ==
  /\ \A t \in Tiles : WF_vars(Advance(t)) /\ WF_vars(Retire(t))
  /\ WF_vars(Network)

Spec == Init /\ [][Next]_vars /\ Fairness

-----------------------------------------------------------------------------
Steps == {"work", "release", "join", "bcast", "go"}

TypeOK ==
  /\ JoinTypeOK
  /\ round \in [Tiles -> 0 .. Rounds]
  /\ step \in [Tiles -> Steps]
  /\ next \in 0 .. N
  /\ todo \in [Tiles -> 0 .. MaxDma]
  /\ dirty \in [Tiles -> Nat]

\* A primitive that runs after a barrier never overlaps one from before it,
\* on any tile: the others are at most one barrier behind, and a tile that
\* is behind has left its work with every transfer finished.
PhaseSeparation ==
  \A t, u \in Tiles :
    /\ round[t] <= round[u] + 1
    /\ round[t] = round[u] + 1 => step[u] # "work" /\ dirty[u] = 0

\* A tag whose barrier is over on all tiles is spent: nothing of it is in a
\* counter or under way, so a later generation could start from it.
SpentTagsAreZero ==
  \A r \in 0 .. Rounds - 1 :
    (\A u \in Tiles : round[u] > r) =>
      \A t \in Tiles : Pending(t, Up(r)) = 0 /\ Pending(t, Down(r)) = 0

\* No join table overflows that can hold one tag less than the program has.
\* When a token finds its tag missing from the table, another tag of the same
\* barrier is missing too: on tile 0 Down(r), which comes after the join of
\* Up(r), and on the others Up(r), which they never get.
NoOverflow == MaxLiveTags >= 2 * Rounds - 1 => ~thrown

\* Every tile passes every barrier, unless a join table overflows.
EveryTilePasses == <>(thrown \/ \A t \in Tiles : round[t] = Rounds)

\* The barrier code implements the barrier.
Phases == INSTANCE PhaseBarrier WITH working <- [t \in Tiles |-> step[t] = "work"]
Contract == Phases!Spec
=============================================================================
