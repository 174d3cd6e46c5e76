---------------------------- MODULE GemmPipeline ----------------------------
(***************************************************************************)
(* The inner loop of a matrix multiply as the compiler emits it            *)
(* (_gemm, _gemm_block_dbuf in tools/edgc/edgc/compile.py) and a tile runs *)
(* it (src/cycle/tile_core.cpp).  One output block accumulates kb products *)
(* of an A and a B block.  The operands of D steps have a slot each, those *)
(* of the next D-1 steps are prefetched while the MXU works, and a partial *)
(* DMA_FENCE is all that keeps a product from reading a slot too early.    *)
(* The result is converted and stored asynchronously, while the prefetches *)
(* for the next block begin.                                               *)
(*                                                                         *)
(* The DMA engine is the one DmaOrder describes and TileDma implements; a  *)
(* block moves as one chunk.  A block's content is its name, <<blk, k>>,   *)
(* and an accumulator is the sequence of the products it has summed.       *)
(***************************************************************************)
EXTENDS Integers, Sequences

CONSTANTS
  Blocks,     \* bound: output blocks this tile computes
  StepCounts, \* the values of kb, the K-steps of an output block
  Depths      \* the values of dbuf_depth

ASSUME PipelineAssumption ==
  /\ Blocks \in Nat
  /\ StepCounts \subseteq Nat \ {0}
  /\ Depths \subseteq 2 .. 8

VARIABLES
  kb,        \* K-steps of every block
  depth,     \* dbuf_depth
  dbuf,      \* dbuf: FALSE with EDGC_DBUF=0
  blk, kk,   \* the output block and the K-step the program is at
  at,        \* the instruction it is at
  descs,     \* the DMA descriptors issued, [kind, slot, blk, k]
  emitted,   \* descriptors the engine has worked off, in order
  landed,    \* descriptors whose bytes are at their destination
  retired,   \* descriptors 1 .. retired are no longer outstanding
  a, b,      \* the contents of the operand slots in LOCAL
  lc,        \* the accumulator block in LOCAL
  pipe,      \* mxu_pipe_: results not yet committed to lc
  lt2,       \* the converted result in LOCAL
  staged,    \* vpu_staged_: at most one result not yet committed to lt2
  moving,    \* moving[s]: what descriptor s read when it was worked off
  out        \* out[m]: output block m in DRAM

vars == <<kb, depth, dbuf, blk, kk, at, descs, emitted, landed, retired,
          a, b, lc, pipe, lt2, staged, moving, out>>
params == <<kb, depth, dbuf>>
program == <<blk, kk, at>>
dma == <<descs, emitted, landed, retired, moving, out>>
compute == <<lc, pipe, lt2, staged>>

Min2(x, y) == IF x <= y THEN x ELSE y

\* Slots in use; one slot stands for the loop without prefetch.
D == IF dbuf /\ kb >= 2 THEN Min2(depth, kb) ELSE 1
MaxSlots == 8
Slots == 0 .. MaxSlots - 1
Nothing == <<>>

Init ==
  /\ kb \in StepCounts /\ depth \in Depths /\ dbuf \in BOOLEAN
  /\ blk = 1 /\ kk = 0
  /\ at = "start"
  /\ descs = <<>> /\ emitted = 0 /\ landed = {} /\ retired = 0
  /\ a = [s \in Slots |-> Nothing] /\ b = [s \in Slots |-> Nothing]
  /\ lc = <<>> /\ pipe = <<>>
  /\ lt2 = <<>> /\ staged = <<>>
  /\ moving = <<>>
  /\ out = [m \in 1 .. Blocks |-> <<>>]

-----------------------------------------------------------------------------
(* The DMA engine.                                                         *)

\* It works the descriptors off in order; a store reads LOCAL now.
Work ==
  /\ emitted < Len(descs)
  /\ emitted' = emitted + 1
  /\ moving' = Append(moving, LET d == descs[emitted + 1] IN
                                IF d.kind = "C" THEN lt2 ELSE <<d.blk, d.k>>)
  /\ UNCHANGED <<params, program, descs, landed, retired, out, a, b, compute>>

\* The bytes arrive, in any order.
Land(s) ==
  /\ s \in 1 .. emitted /\ s \notin landed
  /\ landed' = landed \cup {s}
  /\ LET d == descs[s] IN
       /\ a' = IF d.kind = "A" THEN [a EXCEPT ![d.slot] = moving[s]] ELSE a
       /\ b' = IF d.kind = "B" THEN [b EXCEPT ![d.slot] = moving[s]] ELSE b
       /\ out' = IF d.kind = "C" THEN [out EXCEPT ![d.blk] = moving[s]] ELSE out
  /\ UNCHANGED <<params, program, descs, emitted, retired, moving, compute>>

Retire ==
  /\ retired + 1 \in landed
  /\ retired' = retired + 1
  /\ UNCHANGED <<params, program, descs, emitted, landed, moving, out, a, b,
                 compute>>

-----------------------------------------------------------------------------
(* The MXU and the VPU, behind the sequencer.                              *)

CommitMxu ==
  /\ pipe # <<>>
  /\ lc' = Head(pipe) /\ pipe' = Tail(pipe)
  /\ UNCHANGED <<params, program, dma, a, b, lt2, staged>>

CommitVpu ==
  /\ staged # <<>>
  /\ lt2' = Head(staged) /\ staged' = Tail(staged)
  /\ UNCHANGED <<params, program, dma, a, b, lc, pipe>>

-----------------------------------------------------------------------------
(* The program, instruction by instruction.                                *)

At(i) == at = i /\ staged = <<>>    \* a VPU operation holds the sequencer

Issue(d) ==
  /\ descs' = Append(descs, d)
  /\ UNCHANGED <<emitted, landed, retired, moving, out>>

Slot(k) == k % D
Operand(kind, k) == [kind |-> kind, slot |-> Slot(k), blk |-> blk, k |-> k]

\* The next block, or the end.
Start ==
  /\ At("start")
  /\ at' = IF blk > Blocks THEN "done" ELSE "prologueA"
  /\ kk' = 0
  /\ UNCHANGED <<params, blk, dma, a, b, compute>>

\* for j in range(D - 1): the operands of step j; kk counts j here.
PrologueA ==
  /\ At("prologueA")
  /\ IF kk < D - 1
     THEN Issue(Operand("A", kk)) /\ at' = "prologueB" /\ UNCHANGED kk
     ELSE at' = "prefetchA" /\ kk' = 0 /\ UNCHANGED dma
  /\ UNCHANGED <<params, blk, a, b, compute>>

PrologueB ==
  /\ At("prologueB")
  /\ Issue(Operand("B", kk))
  /\ at' = "prologueA" /\ kk' = kk + 1
  /\ UNCHANGED <<params, blk, a, b, compute>>

\* for kk in range(kb): first the operands of step kk + D - 1 ...
PrefetchA ==
  /\ At("prefetchA")
  /\ IF kk + D - 1 < kb
     THEN Issue(Operand("A", kk + D - 1)) /\ at' = "prefetchB"
     ELSE at' = "fence" /\ UNCHANGED dma
  /\ UNCHANGED <<params, blk, kk, a, b, compute>>

PrefetchB ==
  /\ At("prefetchB")
  /\ Issue(Operand("B", kk + D - 1))
  /\ at' = "fence"
  /\ UNCHANGED <<params, blk, kk, a, b, compute>>

\* Faulty: leaves one transfer too many.
KeepOneMore == 2 * (Min2(kb - 1, kk + D - 1) - kk) + 1

\* ... then the fence, which leaves the steps ahead in flight ...
Keep == 2 * (Min2(kb - 1, kk + D - 1) - kk)

Fence ==
  /\ At("fence")
  /\ Len(descs) - retired <= Keep
  /\ at' = "mxu"
  /\ UNCHANGED <<params, blk, kk, dma, a, b, compute>>

\* The newest in-flight result, or else the accumulator in LOCAL.
Accumulator ==
  IF kk = 0 THEN <<>> ELSE IF pipe # <<>> THEN pipe[Len(pipe)] ELSE lc

\* ... and the product; without prefetch, WAIT_MXU in every step.
Mxu ==
  /\ At("mxu")
  /\ pipe' = Append(pipe, Append(Accumulator, <<a[Slot(kk)], b[Slot(kk)]>>))
  /\ at' = IF D = 1 \/ kk = kb - 1 THEN "wait" ELSE "prefetchA"
  /\ kk' = IF at' = "wait" THEN kk ELSE kk + 1
  /\ UNCHANGED <<params, blk, dma, a, b, lc, lt2, staged>>

WaitMxu ==
  /\ At("wait")
  /\ pipe = <<>>
  /\ IF kk = kb - 1 THEN at' = "convert" /\ UNCHANGED kk
                    ELSE at' = "prefetchA" /\ kk' = kk + 1
  /\ UNCHANGED <<params, blk, dma, a, b, compute>>

Convert ==
  /\ At("convert")
  /\ staged' = <<lc>>
  /\ at' = "store"
  /\ UNCHANGED <<params, blk, kk, dma, a, b, lc, pipe, lt2>>

Store ==
  /\ At("store")
  /\ Issue([kind |-> "C", slot |-> 0, blk |-> blk, k |-> 0])
  /\ at' = "start" /\ blk' = blk + 1
  /\ UNCHANGED <<params, kk, a, b, compute>>

-----------------------------------------------------------------------------
Program == Start \/ PrologueA \/ PrologueB \/ PrefetchA \/ PrefetchB
             \/ Fence \/ Mxu \/ WaitMxu \/ Convert \/ Store
Engine == Work \/ (\E s \in DOMAIN descs : Land(s)) \/ Retire
Commit == CommitMxu \/ CommitVpu

Next == Program \/ Engine \/ Commit

\* Every unit of the tile is ticked in every cycle.
Fairness == WF_vars(Program) /\ WF_vars(Engine) /\ WF_vars(Commit)

Spec == Init /\ [][Next]_vars /\ Fairness

-----------------------------------------------------------------------------
Product(m) == [k \in 1 .. kb |-> <<<<m, k - 1>>, <<m, k - 1>>>>]

\* Each stored block is the sum of its own kb products in the order of K:
\* no slot was read before its operands were there or after those of a later
\* step had replaced them, no accumulation was lost in the pipeline, and no
\* conversion overwrote a result that was not stored yet.
StoredIsProduct ==
  \A s \in landed : descs[s].kind = "C" => out[descs[s].blk] = Product(descs[s].blk)
=============================================================================
