------------------------- MODULE GemmPipelineProofs -------------------------
(***************************************************************************)
(* For any number of blocks, K-steps and slots, and transfers that land in *)
(* any order: what the multi-buffered loop stores is the product.  IInv    *)
(* says which descriptors the current block has issued, how far the fences *)
(* have made sure of them, and what the slots, the pipelines and LOCAL     *)
(* hold as a consequence.                                                  *)
(***************************************************************************)
EXTENDS GemmPipeline, TLAPS

-----------------------------------------------------------------------------
(* The inductive invariant.                                                *)

Before == {"start", "done"}
Prologue == {"prologueA", "prologueB"}
Steady == {"prefetchA", "prefetchB", "fence", "mxu", "wait"}
Finish == {"convert", "store"}

\* The operands of the current block that have been issued, A and B.
IssuedA ==
  CASE at \in Before      -> 0
    [] at = "prologueA"   -> kk
    [] at = "prologueB"   -> kk + 1
    [] at = "prefetchA"   -> Min2(kb, kk + D - 1)
    [] at \in {"prefetchB", "fence", "mxu", "wait"} -> Min2(kb, kk + D)
    [] OTHER              -> kb
IssuedB ==
  CASE at = "prologueB"   -> kk
    [] at = "prefetchB"   -> kk + D - 1
    [] OTHER              -> IssuedA

\* Products of the current block that the MXU was given, and K-steps whose
\* operands a fence has made sure of.
Used ==
  CASE at \in Before \cup Prologue -> 0
    [] at = "wait"                 -> kk + 1
    [] at \in Finish               -> kb
    [] OTHER                       -> kk
Fenced == IF at = "mxu" THEN kk + 1 ELSE Used

\* The descriptors of earlier blocks.
Base == Len(descs) - IssuedA - IssuedB

Desc == [kind : {"A", "B", "C"}, slot : Slots, blk : 1 .. Blocks, k : Nat]
Sum(m, n) == [k \in 1 .. n |-> <<<<m, k - 1>>, <<m, k - 1>>>>]

Control ==
  /\ kb \in Nat \ {0} /\ depth \in 2 .. 8 /\ dbuf \in BOOLEAN
  /\ at \in Before \cup Prologue \cup Steady \cup Finish
  /\ blk \in 1 .. Blocks + 1 /\ (at \notin Before => blk <= Blocks)
  /\ kk \in Nat
  /\ at = "prologueA" => kk <= D - 1
  /\ at = "prologueB" => kk < D - 1
  /\ at \in Steady => kk < kb
  /\ at = "prefetchB" => kk + D - 1 < kb
  /\ at = "wait" => D = 1 \/ kk = kb - 1
  /\ at \in Finish => kk = kb - 1

\* The current block's operands, in order, after those of earlier blocks and
\* their stores, the last of which may still be under way.
Layout ==
  /\ descs \in Seq(Desc) /\ Base \in Nat
  /\ \A k \in 0 .. IssuedA - 1 :
       descs[Base + 2 * k + 1] = [kind |-> "A", slot |-> Slot(k), blk |-> blk, k |-> k]
  /\ \A k \in 0 .. IssuedB - 1 :
       descs[Base + 2 * k + 2] = [kind |-> "B", slot |-> Slot(k), blk |-> blk, k |-> k]
  /\ Base > 0 => descs[Base].kind = "C"

Progress ==
  /\ emitted \in 0 .. Len(descs) /\ retired \in 0 .. emitted
  /\ landed \subseteq 1 .. emitted /\ 1 .. retired \subseteq landed
  /\ retired >= Base - 1
  /\ Fenced > 0 => retired >= Base + 2 * Fenced

\* An operand that has landed stays in its slot until its product is issued.
Operands ==
  /\ DOMAIN a = Slots /\ DOMAIN b = Slots
  /\ \A k \in Used .. IssuedA - 1 : Base + 2 * k + 1 \in landed => a[Slot(k)] = <<blk, k>>
  /\ \A k \in Used .. IssuedB - 1 : Base + 2 * k + 2 \in landed => b[Slot(k)] = <<blk, k>>

Carried(s) ==
  IF descs[s].kind = "C" THEN Product(descs[s].blk) ELSE <<descs[s].blk, descs[s].k>>
Moves == moving = [s \in 1 .. emitted |-> Carried(s)]

\* The newest sum is that of the products issued so far.
Sums ==
  /\ pipe \in Seq({Sum(blk, n) : n \in 1 .. kb})
  /\ Used > 0 => (IF pipe # <<>> THEN pipe[Len(pipe)] ELSE lc) = Sum(blk, Used)
  /\ at \in Finish => pipe = <<>>

\* The converted result, until the store of it has been worked off.
Results ==
  /\ staged # <<>> => at = "store"
  /\ at = "store" => \/ staged = <<>> /\ lt2 = Product(blk)
                     \/ staged = <<Product(blk)>>
  /\ emitted < Base => staged = <<>> /\ lt2 = Product(descs[Base].blk)

IInv ==
  /\ Control /\ Layout /\ Progress /\ Operands /\ Moves /\ Sums /\ Results
  /\ DOMAIN out = 1 .. Blocks /\ StoredIsProduct

-----------------------------------------------------------------------------
(* Slots.                                                                  *)

\* Fewer than D steps apart, two steps have different slots.
LEMMA SlotsDiffer ==
  ASSUME NEW d \in 1 .. 8, NEW j \in Nat, NEW k \in Nat, j < k, k < j + d
  PROVE  j % d # k % d
<1>1. d = 1 \/ d = 2 \/ d = 3 \/ d = 4 \/ d = 5 \/ d = 6 \/ d = 7 \/ d = 8
  OBVIOUS
<1> QED  BY <1>1

\* There are D slots, and steps less than D apart have different ones.
LEMMA DFacts ==
  ASSUME Control
  PROVE  /\ D \in 1 .. 8 /\ D <= kb
         /\ \A k \in Nat : Slot(k) \in Slots
         /\ \A j, k \in Nat : j < k /\ k < j + D => Slot(j) # Slot(k)
<1>1. D \in 1 .. 8 /\ D <= kb
  BY DEF Control, D, Min2
<1>2. ASSUME NEW k \in Nat PROVE Slot(k) \in Slots
  <2>1. D = 1 \/ D = 2 \/ D = 3 \/ D = 4 \/ D = 5 \/ D = 6 \/ D = 7 \/ D = 8
    BY <1>1
  <2> HIDE DEF D
  <2> QED  BY <2>1 DEF Slot, Slots, MaxSlots
<1>3. ASSUME NEW j \in Nat, NEW k \in Nat, j < k, k < j + D PROVE Slot(j) # Slot(k)
  BY <1>1, <1>3, SlotsDiffer DEF Slot
<1> QED  BY <1>1, <1>2, <1>3

\* What has been issued and used, and how they are related.
LEMMA Counts ==
  ASSUME Control
  PROVE  /\ IssuedA \in 0 .. kb /\ IssuedB \in 0 .. kb /\ Used \in 0 .. kb
         /\ IssuedB <= IssuedA /\ IssuedA <= IssuedB + 1
         /\ IssuedA <= Used + D
         /\ Fenced \in Used .. Used + 1
         /\ Min2(kb, kk + D) \in 0 .. kb /\ Min2(kb, kk + D - 1) \in 0 .. kb
<1>1. D \in 1 .. 8 /\ D <= kb
  BY DFacts
<1> HIDE DEF D
<1>2. at \in Before \cup Prologue \cup Steady \cup Finish
  BY DEF Control
<1> QED
  BY <1>1, <1>2 DEF Control, IssuedA, IssuedB, Used, Fenced, Min2, Before, Prologue, Steady,
     Finish

\* All that holds before the first instruction.
LEMMA InitIInv == ASSUME PipelineAssumption, Init PROVE IInv
<1>1. Control
  BY DEF PipelineAssumption, Init, Control, Before, Prologue, Steady, Finish
<1>2. IssuedA = 0 /\ IssuedB = 0 /\ Used = 0 /\ Fenced = 0 /\ Base = 0
  BY DEF Init, IssuedA, IssuedB, Used, Fenced, Base, Before, Prologue, Finish, Min2
<1>3. descs = <<>> /\ descs \in Seq(Desc)
  BY DEF Init
<1>4. Layout
  BY <1>2, <1>3 DEF Layout
<1>5. Progress
  BY <1>2 DEF Init, Progress
<1>6. Operands
  BY <1>2 DEF Init, Operands
<1>7. Moves
  BY DEF Init, Moves
<1>8. Sums /\ Results
  BY <1>2 DEF Init, Sums, Results, Finish
<1>9. DOMAIN out = 1 .. Blocks /\ StoredIsProduct
  BY DEF Init, StoredIsProduct
<1> QED  BY <1>1, <1>4, <1>5, <1>6, <1>7, <1>8, <1>9 DEF IInv

-----------------------------------------------------------------------------
(* Steps of the program that issue nothing.                                *)

\* With the same parameters the slots are the same.
LEMMA SameSlots ==
  ASSUME UNCHANGED params
  PROVE  D' = D /\ (\A k \in Nat : Slot(k)' = Slot(k)) /\ (\A m : Product(m)' = Product(m))
  BY DEF params, D, Slot, Product, Min2

\* Nothing issued and nothing moved: only what has been used changes.
LEMMA QuietStep ==
  ASSUME IInv, UNCHANGED <<params, blk, dma, a, b>>,
         IssuedA' = IssuedA, IssuedB' = IssuedB, Used' \in Nat, Used' >= Used
  PROVE  /\ Base' = Base /\ Layout' /\ Operands' /\ Moves'
         /\ (DOMAIN out = 1 .. Blocks)' /\ StoredIsProduct'
<1>1. D' = D /\ (\A k \in Nat : Slot(k)' = Slot(k)) /\ (\A m : Product(m)' = Product(m))
  BY SameSlots
<1>2. Control /\ IssuedA \in 0 .. kb /\ IssuedB \in 0 .. kb /\ Used \in 0 .. kb /\ kb \in Nat
  BY Counts DEF IInv, Control
<1>3. Base' = Base
  BY DEF Base, dma
<1>4. Layout'
  <2>1. \A k \in 0 .. IssuedA - 1 : k \in Nat /\ Slot(k)' = Slot(k)
    BY <1>1, <1>2
  <2>2. \A k \in 0 .. IssuedB - 1 : k \in Nat /\ Slot(k)' = Slot(k)
    BY <1>1, <1>2
  <2> QED  BY <1>3, <2>1, <2>2 DEF IInv, Layout, dma
<1>5. Operands'
  <2>1. \A k \in Used' .. IssuedA - 1 : k \in Nat /\ k \in Used .. IssuedA - 1 /\ Slot(k)' = Slot(k)
    BY <1>1, <1>2
  <2>2. \A k \in Used' .. IssuedB - 1 : k \in Nat /\ k \in Used .. IssuedB - 1 /\ Slot(k)' = Slot(k)
    BY <1>1, <1>2
  <2> QED  BY <1>3, <2>1, <2>2 DEF IInv, Operands, dma, Slots
<1>6. Moves'
  BY <1>1 DEF IInv, Moves, Carried, dma
<1>7. (DOMAIN out = 1 .. Blocks)' /\ StoredIsProduct'
  BY <1>1 DEF IInv, StoredIsProduct, dma
<1> QED  BY <1>3, <1>4, <1>5, <1>6, <1>7

\* Nothing computed: the same sums.
LEMMA SameSums ==
  ASSUME IInv, UNCHANGED <<params, blk, compute>>, Used' = Used, at' \notin Finish
  PROVE  Sums'
BY DEF IInv, Sums, Sum, params, compute

\* The next block, or the end.
LEMMA StartStep == ASSUME IInv, Start PROVE IInv'
<1>0. Control /\ D \in 1 .. 8 /\ D' = D
  BY DFacts, SameSlots DEF IInv, Start
<1> HIDE DEF D
<1>1. Control'
  BY <1>0, PipelineAssumption DEF Start, At, Control, params, Before, Prologue, Steady, Finish
<1>2. IssuedA = 0 /\ IssuedB = 0 /\ Used = 0 /\ IssuedA' = 0 /\ IssuedB' = 0 /\ Used' = 0 /\ Fenced' = 0
  <2>1. at = "start" /\ at' \in {"done", "prologueA"} /\ kk' = 0
    BY DEF Start, At
  <2> QED  BY <2>1 DEF IssuedA, IssuedB, Used, Fenced, Before, Prologue, Finish, Min2
<1>3. /\ Base' = Base /\ Layout' /\ Operands' /\ Moves' 
      /\ (DOMAIN out = 1 .. Blocks)' /\ StoredIsProduct'
  BY <1>2, QuietStep DEF Start
<1>4. Progress'
  BY <1>2, <1>3 DEF Start, IInv, Progress, dma
<1>5. Sums'
  BY <1>2, SameSums DEF Start, At, Finish
<1>6. Results'
  BY <1>3, SameSlots DEF Start, At, IInv, Results, compute, dma
<1> QED  BY <1>1, <1>3, <1>4, <1>5, <1>6 DEF IInv

\* for j in range(D - 1), at its end.
LEMMA PrologueEnds == ASSUME IInv, PrologueA, ~(kk < D - 1) PROVE IInv'
<1>0. Control /\ D \in 1 .. 8 /\ D <= kb /\ D' = D /\ kb' = kb /\ kb \in Nat /\ kk = D - 1
  BY DFacts, SameSlots DEF IInv, PrologueA, At, Control, params
<1> HIDE DEF D
<1>a. at = "prologueA" /\ at' = "prefetchA" /\ kk' = 0 /\ UNCHANGED dma
  BY DEF PrologueA, At
<1>1. Control'
  BY <1>0, <1>a, PipelineAssumption
  DEF PrologueA, Control, params, Before, Prologue, Steady, Finish
<1>2. /\ IssuedA = D - 1 /\ IssuedB = D - 1 /\ Used = 0
      /\ IssuedA' = D - 1 /\ IssuedB' = D - 1 /\ Used' = 0 /\ Fenced' = 0
  BY <1>0, <1>a DEF IssuedA, IssuedB, Used, Fenced, Before, Prologue, Finish, Min2
<1>3. /\ Base' = Base /\ Layout' /\ Operands' /\ Moves' 
      /\ (DOMAIN out = 1 .. Blocks)' /\ StoredIsProduct'
  BY <1>2, QuietStep DEF PrologueA
<1>4. Progress'
  BY <1>a, <1>2, <1>3 DEF IInv, Progress, dma
<1>5. Sums'
  BY <1>2, <1>a, SameSums DEF PrologueA, Finish
<1>6. Results'
  BY <1>3, <1>a, SameSlots DEF PrologueA, IInv, Results, compute, dma
<1> QED  BY <1>1, <1>3, <1>4, <1>5, <1>6 DEF IInv

\* The last steps prefetch nothing.
LEMMA PrefetchEnds == ASSUME IInv, PrefetchA, ~(kk + D - 1 < kb) PROVE IInv'
<1>0. Control /\ D \in 1 .. 8 /\ D <= kb /\ D' = D /\ kb' = kb /\ kb \in Nat /\ kk \in Nat
  BY DFacts, SameSlots DEF IInv, PrefetchA, At, Control, params
<1> HIDE DEF D
<1>a. at = "prefetchA" /\ at' = "fence" /\ kk' = kk
  BY DEF PrefetchA, At
<1>1. Control'
  BY <1>0, <1>a, PipelineAssumption
  DEF PrefetchA, Control, params, Before, Prologue, Steady, Finish
<1>2. /\ IssuedA = kb /\ IssuedB = kb /\ Used = kk /\ Fenced = kk
      /\ IssuedA' = kb /\ IssuedB' = kb /\ Used' = kk /\ Fenced' = kk
  BY <1>0, <1>a DEF IssuedA, IssuedB, Used, Fenced, Before, Prologue, Finish, Min2
<1>3. /\ Base' = Base /\ Layout' /\ Operands' /\ Moves' 
      /\ (DOMAIN out = 1 .. Blocks)' /\ StoredIsProduct'
  BY <1>0, <1>2, QuietStep DEF PrefetchA
<1>4. Progress'
  BY <1>2, <1>3, ~(kk + D - 1 < kb) DEF PrefetchA, IInv, Progress, dma
<1>5. Sums'
  BY <1>2, <1>a, SameSums DEF PrefetchA, Finish
<1>6. Results'
  BY <1>3, <1>a, SameSlots DEF PrefetchA, IInv, Results, compute, dma
<1> QED  BY <1>1, <1>3, <1>4, <1>5, <1>6 DEF IInv

\* The fence leaves as many transfers in flight as later steps have issued.
LEMMA FenceStep == ASSUME IInv, Fence PROVE IInv'
<1>0. Control /\ D \in 1 .. 8 /\ D <= kb /\ D' = D /\ kb' = kb /\ kb \in Nat /\ kk \in Nat /\ kk < kb
  BY DFacts, SameSlots DEF IInv, Fence, At, Control, params, Steady
<1> HIDE DEF D
<1>a. at = "fence" /\ at' = "mxu" /\ kk' = kk
  BY DEF Fence, At
<1>1. Control'
  BY <1>0, <1>a, PipelineAssumption
  DEF Fence, Control, params, Before, Prologue, Steady, Finish
<1>2. /\ IssuedA = Min2(kb, kk + D) /\ IssuedB = Min2(kb, kk + D) /\ Used = kk
      /\ IssuedA' = Min2(kb, kk + D) /\ IssuedB' = Min2(kb, kk + D) /\ Used' = kk
      /\ Fenced' = kk + 1
  BY <1>0, <1>a DEF IssuedA, IssuedB, Used, Fenced, Before, Prologue, Finish, Min2
<1>3. /\ Base' = Base /\ Layout' /\ Operands' /\ Moves' 
      /\ (DOMAIN out = 1 .. Blocks)' /\ StoredIsProduct'
  BY <1>0, <1>2, QuietStep DEF Fence
<1>4. Progress'
  <2>1. Keep = 2 * (Min2(kb, kk + D) - 1 - kk)
    BY <1>0 DEF Keep, Min2
  <2>2. Len(descs) - retired <= Keep
    BY DEF Fence
  <2>3. Len(descs) = Base + 2 * Min2(kb, kk + D)
    BY <1>0, <1>2 DEF Base, Min2, IInv, Layout
  <2>4. Min2(kb, kk + D) \in Nat /\ Base \in Nat /\ retired \in Nat
    BY <1>0 DEF Min2, IInv, Layout, Progress
  <2>5. retired >= Base + 2 * (kk + 1)
    BY <1>0, <2>1, <2>2, <2>3, <2>4
  <2> QED  BY <1>2, <1>3, <2>5 DEF Fence, IInv, Progress, dma
<1>5. Sums'
  BY <1>2, <1>a, SameSums DEF Fence, Finish
<1>6. Results'
  BY <1>3, <1>a, SameSlots DEF Fence, IInv, Results, compute, dma
<1> QED  BY <1>1, <1>3, <1>4, <1>5, <1>6 DEF IInv

-----------------------------------------------------------------------------
(* The MXU and the VPU.                                                    *)

\* A sum, one product longer.
LEMMA SumGrows ==
  ASSUME NEW m, NEW n \in Nat
  PROVE  /\ Sum(m, 0) = <<>>
         /\ Append(Sum(m, n), <<<<m, n>>, <<m, n>>>>) = Sum(m, n + 1)
<1> DEFINE P == {<<<<m, k>>, <<m, k>>>> : k \in Nat}
<1>1. Sum(m, 0) = <<>>
  BY DEF Sum
<1>2. Sum(m, n) \in Seq(P) /\ Len(Sum(m, n)) = n
  <2>1. \A k \in 1 .. n : <<<<m, k - 1>>, <<m, k - 1>>>> \in P
    OBVIOUS
  <2> HIDE DEF P
  <2> QED  BY <2>1 DEF Sum
<1>3. Append(Sum(m, n), <<<<m, n>>, <<m, n>>>>) = Sum(m, n + 1)
  BY <1>2 DEF Sum
<1> QED  BY <1>1, <1>3

\* What a product reads is there, and its sum is the next one.
LEMMA MxuStep == ASSUME IInv, Mxu PROVE IInv'
<1>0. /\ Control /\ D \in 1 .. 8 /\ D <= kb /\ D' = D /\ kb' = kb /\ kb \in Nat
      /\ kk \in Nat /\ kk < kb
  BY DFacts, SameSlots DEF IInv, Mxu, At, Control, params, Steady
<1> HIDE DEF D
<1>a. /\ at = "mxu" /\ at' = IF D = 1 \/ kk = kb - 1 THEN "wait" ELSE "prefetchA"
      /\ kk' = IF at' = "wait" THEN kk ELSE kk + 1
  BY DEF Mxu, At
<1>1. Control'
  BY <1>0, <1>a, PipelineAssumption
  DEF Mxu, Control, params, Before, Prologue, Steady, Finish
<1>2. /\ IssuedA = Min2(kb, kk + D) /\ IssuedB = Min2(kb, kk + D) /\ Used = kk
      /\ IssuedA' = Min2(kb, kk + D) /\ IssuedB' = Min2(kb, kk + D) /\ Used' = kk + 1
      /\ Fenced = kk + 1 /\ Fenced' = kk + 1
  BY <1>0, <1>a DEF IssuedA, IssuedB, Used, Fenced, Before, Prologue, Finish, Min2
<1>3. /\ Base' = Base /\ Layout' /\ Operands' /\ Moves' 
      /\ (DOMAIN out = 1 .. Blocks)' /\ StoredIsProduct'
  BY <1>0, <1>2, QuietStep DEF Mxu
<1>4. Progress'
  BY <1>2, <1>3 DEF Mxu, IInv, Progress, dma
<1>5. Sums'
  <2>1. kk < Min2(kb, kk + D) /\ Base \in Nat /\ retired \in Nat /\ retired >= Base + 2 * (kk + 1)
    BY <1>0, <1>2 DEF Min2, IInv, Layout, Progress
  <2>2. Base + 2 * kk + 1 \in landed /\ Base + 2 * kk + 2 \in landed
    BY <1>0, <2>1 DEF IInv, Progress
  <2>3. a[Slot(kk)] = <<blk, kk>> /\ b[Slot(kk)] = <<blk, kk>>
    BY <1>0, <1>2, <2>1, <2>2 DEF IInv, Operands, Min2
  <2>4. Accumulator = Sum(blk, kk)
    BY <1>0, <1>2, SumGrows DEF Accumulator, IInv, Sums
  <2>5. pipe' = Append(pipe, Sum(blk, kk + 1))
    BY <1>0, <2>3, <2>4, SumGrows DEF Mxu
  <2>6. kb' = kb /\ blk' = blk /\ at' \notin Finish /\ Sum(blk, kk + 1)' = Sum(blk', kk' + 1)
    BY <1>a, <1>0 DEF Mxu, Finish, Sum
  <2>7. Sum(blk, kk + 1) \in {Sum(blk, n) : n \in 1 .. kb}
    BY <1>0
  <2>8. /\ pipe' \in Seq({Sum(blk, n) : n \in 1 .. kb})
        /\ pipe' # <<>> /\ pipe'[Len(pipe')] = Sum(blk, kk + 1)
    BY <2>5, <2>7 DEF IInv, Sums
  <2> QED  BY <1>2, <2>6, <2>8 DEF Sums, Sum
<1>6. Results'
  BY <1>3, <1>a, SameSlots DEF Mxu, IInv, Results, compute, dma
<1> QED  BY <1>1, <1>3, <1>4, <1>5, <1>6 DEF IInv

\* The results of the block, or of the step, are in LOCAL.
LEMMA WaitMxuStep == ASSUME IInv, WaitMxu PROVE IInv'
<1>0. /\ Control /\ D \in 1 .. 8 /\ D <= kb /\ D' = D /\ kb' = kb /\ kb \in Nat
      /\ kk \in Nat /\ kk < kb /\ (D = 1 \/ kk = kb - 1)
  BY DFacts, SameSlots DEF IInv, WaitMxu, At, Control, params, Steady
<1> HIDE DEF D
<1>a. /\ at = "wait"
      /\ IF kk = kb - 1 THEN at' = "convert" /\ kk' = kk ELSE at' = "prefetchA" /\ kk' = kk + 1
  BY DEF WaitMxu, At
<1>1. Control'
  BY <1>0, <1>a, PipelineAssumption
  DEF WaitMxu, Control, params, Before, Prologue, Steady, Finish
<1>2. /\ IssuedA = kk + 1 \/ IssuedA = kb
      /\ IssuedB = IssuedA /\ Used = kk + 1 /\ Fenced = kk + 1
      /\ IssuedA' = IssuedA /\ IssuedB' = IssuedB /\ Used' = kk + 1 /\ Fenced' = kk + 1
  <2>1. CASE kk = kb - 1
    BY <1>0, <1>a, <2>1 DEF IssuedA, IssuedB, Used, Fenced, Before, Prologue, Finish, Min2
  <2>2. CASE kk # kb - 1
    <3>1. D = 1 /\ D' = 1 /\ kb' = kb /\ at' = "prefetchA" /\ kk' = kk + 1
      BY <1>0, <1>a, <2>2
    <3>2. IssuedA = kk + 1 /\ IssuedB = kk + 1 /\ Used = kk + 1 /\ Fenced = kk + 1
      BY <1>0, <1>a, <3>1 DEF IssuedA, IssuedB, Used, Fenced, Before, Prologue, Finish, Min2
    <3>3. IssuedA' = kk + 1 /\ IssuedB' = kk + 1 /\ Used' = kk + 1 /\ Fenced' = kk + 1
      BY <1>0, <3>1 DEF IssuedA, IssuedB, Used, Fenced, Before, Prologue, Finish, Min2
    <3> QED  BY <3>2, <3>3
  <2> QED  BY <2>1, <2>2
<1>3. /\ Base' = Base /\ Layout' /\ Operands' /\ Moves' 
      /\ (DOMAIN out = 1 .. Blocks)' /\ StoredIsProduct'
  BY <1>0, <1>2, QuietStep DEF WaitMxu
<1>4. Progress'
  BY <1>2, <1>3 DEF WaitMxu, IInv, Progress, dma
<1>5. Sums'
  BY <1>2, <1>0 DEF WaitMxu, IInv, Sums, compute, Finish, Sum
<1>6. Results'
  BY <1>3, <1>a, SameSlots DEF WaitMxu, IInv, Results, compute, dma
<1> QED  BY <1>1, <1>3, <1>4, <1>5, <1>6 DEF IInv

\* The conversion reads the whole sum.
LEMMA ConvertStep == ASSUME IInv, Convert PROVE IInv'
<1>0. /\ Control /\ D \in 1 .. 8 /\ D <= kb /\ D' = D /\ kb' = kb /\ kb \in Nat
  BY DFacts, SameSlots DEF IInv, Convert, At, Control, params
<1> HIDE DEF D
<1>a. at = "convert" /\ at' = "store" /\ kk' = kk /\ staged = <<>>
  BY DEF Convert, At
<1>1. Control'
  BY <1>0, <1>a, PipelineAssumption
  DEF Convert, Control, params, Before, Prologue, Steady, Finish
<1>2. /\ IssuedA = kb /\ IssuedB = kb /\ Used = kb /\ Fenced = kb
      /\ IssuedA' = kb /\ IssuedB' = kb /\ Used' = kb /\ Fenced' = kb
  BY <1>0, <1>a DEF IssuedA, IssuedB, Used, Fenced, Before, Prologue, Steady, Finish, Min2
<1>3. /\ Base' = Base /\ Layout' /\ Operands' /\ Moves' 
      /\ (DOMAIN out = 1 .. Blocks)' /\ StoredIsProduct'
  BY <1>0, <1>2, QuietStep DEF Convert
<1>4. Progress'
  BY <1>2, <1>3 DEF Convert, IInv, Progress, dma
<1>5. Sums'
  BY <1>0, <1>2, <1>a DEF Convert, IInv, Sums, Finish, Sum
<1>6. Results'
  <2>1. lc = Product(blk)
    BY <1>0, <1>2, <1>a DEF IInv, Sums, Finish, Sum, Product
  <2>2. staged' = <<Product(blk)>>' /\ at' = "store"
    BY <2>1, <1>a, SameSlots DEF Convert
  <2>3. ~(emitted' < Base')
    BY <1>0, <1>2, <1>3 DEF Convert, dma, IInv, Progress, Layout
  <2> QED  BY <2>2, <2>3 DEF Results
<1> QED  BY <1>1, <1>3, <1>4, <1>5, <1>6 DEF IInv

\* A commit of the MXU changes nothing but where the newest sum is.
LEMMA CommitMxuStep == ASSUME IInv, CommitMxu PROVE IInv'
<1>1. UNCHANGED <<params, program, dma, a, b, lt2, staged, D>>
  BY SameSlots DEF CommitMxu
<1> HIDE DEF D
<1>2. Control'
  BY <1>1 DEF IInv, Control, params, program
<1>3. IssuedA' = IssuedA /\ IssuedB' = IssuedB /\ Used' = Used /\ Fenced' = Fenced /\ Used \in Nat
  BY <1>1, Counts DEF IssuedA, IssuedB, Used, Fenced, params, program, IInv
<1>4. /\ Base' = Base /\ Layout' /\ Operands' /\ Moves' 
      /\ (DOMAIN out = 1 .. Blocks)' /\ StoredIsProduct'
  BY <1>1, <1>3, QuietStep DEF program
<1>5. Progress'
  BY <1>1, <1>3, <1>4 DEF IInv, Progress, dma
<1>6. Sums'
  <2>1. \A m, n : Sum(m, n)' = Sum(m, n)
    BY DEF Sum
  <2>2. blk' = blk /\ kb' = kb /\ at' = at
    BY <1>1 DEF params, program
  <2> DEFINE S == {Sum(blk, n) : n \in 1 .. kb}
  <2>3. pipe \in Seq(S) /\ pipe # <<>> /\ lc' = Head(pipe) /\ pipe' = Tail(pipe)
    BY DEF CommitMxu, IInv, Sums
  <2>4. pipe' \in Seq(S) /\ (pipe' # <<>> => pipe'[Len(pipe')] = pipe[Len(pipe)])
        /\ (pipe' = <<>> => lc' = pipe[Len(pipe)])
    <3> HIDE DEF S
    <3>1. pipe' \in Seq(S) /\ Len(pipe') = Len(pipe) - 1 /\ Len(pipe) \in Nat \ {0}
      BY <2>3
    <3>2. \A i \in 1 .. Len(pipe') : pipe'[i] = pipe[i + 1]
      BY <2>3, <3>1
    <3>3. lc' = pipe[1]
      BY <2>3
    <3> QED  BY <3>1, <3>2, <3>3
  <2>5. S' = S
    BY <2>1, <2>2
  <2> QED  BY <1>3, <2>1, <2>2, <2>3, <2>4, <2>5 DEF IInv, Sums
<1>7. Results'
  BY <1>1, <1>4, SameSlots DEF IInv, Results, params, program, dma
<1> QED  BY <1>2, <1>4, <1>5, <1>6, <1>7 DEF IInv

\* The commit of a conversion finds no store of an earlier one unread.
LEMMA CommitVpuStep == ASSUME IInv, CommitVpu PROVE IInv'
<1>1. UNCHANGED <<params, program, dma, a, b, lc, pipe, D>>
  BY SameSlots DEF CommitVpu
<1> HIDE DEF D
<1>2. Control'
  BY <1>1 DEF IInv, Control, params, program
<1>3. IssuedA' = IssuedA /\ IssuedB' = IssuedB /\ Used' = Used /\ Fenced' = Fenced /\ Used \in Nat
  BY <1>1, Counts DEF IssuedA, IssuedB, Used, Fenced, params, program, IInv
<1>4. /\ Base' = Base /\ Layout' /\ Operands' /\ Moves' 
      /\ (DOMAIN out = 1 .. Blocks)' /\ StoredIsProduct'
  BY <1>1, <1>3, QuietStep DEF program
<1>5. Progress'
  BY <1>1, <1>3, <1>4 DEF IInv, Progress, dma
<1>6. Sums'
  BY <1>1, <1>3 DEF IInv, Sums, Sum, params, program
<1>7. Results'
  <2>1. at = "store" /\ staged = <<Product(blk)>>
    BY DEF CommitVpu, IInv, Results
  <2>2. lt2' = Product(blk) /\ staged' = <<>>
    BY <2>1 DEF CommitVpu
  <2>3. Fenced = kb /\ kb \in Nat \ {0}
    BY <2>1 DEF Fenced, Used, Before, Prologue, Steady, Finish, IInv, Control
  <2>4. ~(emitted' < Base')
    BY <1>1, <1>4, <2>3 DEF dma, IInv, Progress, Layout
  <2> QED  BY <1>1, <2>1, <2>2, <2>4, SameSlots DEF Results, program
<1> QED  BY <1>2, <1>4, <1>5, <1>6, <1>7 DEF IInv

-----------------------------------------------------------------------------
(* The operands issued.                                                    *)

\* One more A operand at the end of the descriptors.
LEMMA IssueA ==
  ASSUME IInv, IssuedA = IssuedB, at \notin Before, UNCHANGED <<params, blk, a, b>>,
         Issue(Operand("A", IssuedA)),
         IssuedA' = IssuedA + 1, IssuedB' = IssuedB, Used' = Used, Fenced' = Fenced
  PROVE  /\ Base' = Base /\ Layout' /\ Progress' /\ Operands' /\ Moves'
         /\ (DOMAIN out = 1 .. Blocks)' /\ StoredIsProduct'
<1>1. D' = D /\ (\A k \in Nat : Slot(k)' = Slot(k)) /\ (\A m : Product(m)' = Product(m))
  BY SameSlots
<1>2. /\ Control /\ IssuedA \in 0 .. kb /\ IssuedB \in 0 .. kb /\ Used \in 0 .. kb /\ kb \in Nat
      /\ Slot(IssuedA) \in Slots
  BY Counts, DFacts DEF IInv, Control
<1> DEFINE d == Operand("A", IssuedA)
<1>3. d \in Desc /\ d = [kind |-> "A", slot |-> Slot(IssuedA), blk |-> blk, k |-> IssuedA]
  BY <1>2, PipelineAssumption DEF Operand, Desc, IInv, Control
<1>4. /\ descs' = Append(descs, d) /\ descs \in Seq(Desc) /\ Base \in Nat
      /\ Len(descs) = Base + 2 * IssuedA
      /\ UNCHANGED <<emitted, landed, retired, moving, out, kb, a, b, blk>>
  BY <1>2 DEF Issue, IInv, Layout, Base, params
<1> HIDE DEF d
<1>5. /\ descs' \in Seq(Desc) /\ Len(descs') = Len(descs) + 1
      /\ \A s \in 1 .. Len(descs) : descs'[s] = descs[s]
      /\ descs'[Len(descs) + 1] = d
  BY <1>3, <1>4
<1>6. Base' = Base
  BY <1>2, <1>4, <1>5 DEF Base
<1>7. Layout'
  <2>1. \A k \in 0 .. IssuedA' - 1 :
          descs'[Base + 2 * k + 1] = [kind |-> "A", slot |-> Slot(k)', blk |-> blk, k |-> k]
    <3>1. ASSUME NEW k \in 0 .. IssuedA - 1
          PROVE  descs'[Base + 2 * k + 1] = [kind |-> "A", slot |-> Slot(k)', blk |-> blk, k |-> k]
      <4>1. k \in Nat /\ Base + 2 * k + 1 \in 1 .. Len(descs)
        BY <1>2, <1>4
      <4> QED  BY <1>1, <1>5, <4>1 DEF IInv, Layout
    <3>2. ASSUME NEW k \in Nat, k = IssuedA
          PROVE  descs'[Base + 2 * k + 1] = [kind |-> "A", slot |-> Slot(k)', blk |-> blk, k |-> k]
      BY <1>1, <1>2, <1>3, <1>4, <1>5, <3>2
    <3>3. \A k \in 0 .. IssuedA' - 1 : k \in Nat /\ (k \in 0 .. IssuedA - 1 \/ k = IssuedA)
      BY <1>2
    <3> QED  BY <3>1, <3>2, <3>3
  <2>2. ASSUME NEW k \in 0 .. IssuedB' - 1
        PROVE  descs'[Base + 2 * k + 2] = [kind |-> "B", slot |-> Slot(k)', blk |-> blk, k |-> k]
    <3>1. k \in Nat /\ Base + 2 * k + 2 \in 1 .. Len(descs) /\ k \in 0 .. IssuedB - 1
      BY <1>2, <1>4
    <3> QED  BY <1>1, <1>5, <3>1 DEF IInv, Layout
  <2>3. Base > 0 => descs'[Base].kind = "C"
    BY <1>2, <1>4, <1>5 DEF IInv, Layout
  <2> QED  BY <1>4, <1>5, <1>6, <2>1, <2>2, <2>3 DEF Layout
<1>8. Progress'
  BY <1>4, <1>5, <1>6 DEF IInv, Progress
<1>9. Operands'
  <2>1. Base + 2 * IssuedA + 1 \notin landed
    BY <1>2, <1>4 DEF IInv, Progress
  <2>2. \A k \in Used .. IssuedA' - 1 : k \in Nat /\ (k \in Used .. IssuedA - 1 \/ k = IssuedA)
    BY <1>2
  <2>3. \A k \in Used .. IssuedB - 1 : k \in Nat
    BY <1>2
  <2> QED  BY <1>1, <1>4, <1>6, <2>1, <2>2, <2>3 DEF IInv, Operands, Slots
<1>10. Moves'
  <2>1. \A s \in 1 .. emitted : s \in 1 .. Len(descs)
    BY DEF IInv, Progress
  <2> QED  BY <1>1, <1>4, <1>5, <2>1 DEF IInv, Moves, Carried
<1>11. (DOMAIN out = 1 .. Blocks)' /\ StoredIsProduct'
  <2>1. \A s \in landed : s \in 1 .. Len(descs)
    BY DEF IInv, Progress
  <2> QED  BY <1>1, <1>4, <1>5, <2>1 DEF IInv, StoredIsProduct
<1> QED  BY <1>6, <1>7, <1>8, <1>9, <1>10, <1>11

\* One more B operand, to go with an A operand.
LEMMA IssueB ==
  ASSUME IInv, IssuedA = IssuedB + 1, at \notin Before, UNCHANGED <<params, blk, a, b>>,
         Issue(Operand("B", IssuedB)),
         IssuedA' = IssuedA, IssuedB' = IssuedB + 1, Used' = Used, Fenced' = Fenced
  PROVE  /\ Base' = Base /\ Layout' /\ Progress' /\ Operands' /\ Moves'
         /\ (DOMAIN out = 1 .. Blocks)' /\ StoredIsProduct'
<1>1. D' = D /\ (\A k \in Nat : Slot(k)' = Slot(k)) /\ (\A m : Product(m)' = Product(m))
  BY SameSlots
<1>2. /\ Control /\ IssuedA \in 0 .. kb /\ IssuedB \in 0 .. kb /\ Used \in 0 .. kb /\ kb \in Nat
      /\ Slot(IssuedB) \in Slots
  BY Counts, DFacts DEF IInv, Control
<1> DEFINE d == Operand("B", IssuedB)
<1>3. d \in Desc /\ d = [kind |-> "B", slot |-> Slot(IssuedB), blk |-> blk, k |-> IssuedB]
  BY <1>2, PipelineAssumption DEF Operand, Desc, IInv, Control
<1>4. /\ descs' = Append(descs, d) /\ descs \in Seq(Desc) /\ Base \in Nat
      /\ Len(descs) = Base + 2 * IssuedB + 1
      /\ UNCHANGED <<emitted, landed, retired, moving, out, kb, a, b, blk>>
  BY <1>2 DEF Issue, IInv, Layout, Base, params
<1> HIDE DEF d
<1>5. /\ descs' \in Seq(Desc) /\ Len(descs') = Len(descs) + 1
      /\ \A s \in 1 .. Len(descs) : descs'[s] = descs[s]
      /\ descs'[Len(descs) + 1] = d
  BY <1>3, <1>4
<1>6. Base' = Base
  BY SMTT(20), <1>2, <1>4, <1>5 DEF Base
<1>7. Layout'
  <2>1. \A k \in 0 .. IssuedB' - 1 :
          descs'[Base + 2 * k + 2] = [kind |-> "B", slot |-> Slot(k)', blk |-> blk, k |-> k]
    <3>1. ASSUME NEW k \in 0 .. IssuedB - 1
          PROVE  descs'[Base + 2 * k + 2] = [kind |-> "B", slot |-> Slot(k)', blk |-> blk, k |-> k]
      <4>1. k \in Nat /\ Base + 2 * k + 2 \in 1 .. Len(descs)
        BY <1>2, <1>4
      <4> QED  BY <1>1, <1>5, <4>1 DEF IInv, Layout
    <3>2. ASSUME NEW k \in Nat, k = IssuedB
          PROVE  descs'[Base + 2 * k + 2] = [kind |-> "B", slot |-> Slot(k)', blk |-> blk, k |-> k]
      BY <1>1, <1>2, <1>3, <1>4, <1>5, <3>2
    <3>3. \A k \in 0 .. IssuedB' - 1 : k \in Nat /\ (k \in 0 .. IssuedB - 1 \/ k = IssuedB)
      BY <1>2
    <3> QED  BY <3>1, <3>2, <3>3
  <2>2. ASSUME NEW k \in 0 .. IssuedA' - 1
        PROVE  descs'[Base + 2 * k + 1] = [kind |-> "A", slot |-> Slot(k)', blk |-> blk, k |-> k]
    <3>1. k \in Nat /\ Base + 2 * k + 1 \in 1 .. Len(descs) /\ k \in 0 .. IssuedA - 1
      BY <1>2, <1>4
    <3> QED  BY <1>1, <1>5, <3>1 DEF IInv, Layout
  <2>3. Base > 0 => descs'[Base].kind = "C"
    BY <1>2, <1>4, <1>5 DEF IInv, Layout
  <2> QED  BY <1>4, <1>5, <1>6, <2>1, <2>2, <2>3 DEF Layout
<1>8. Progress'
  BY <1>4, <1>5, <1>6 DEF IInv, Progress
<1>9. Operands'
  <2>1. Base + 2 * IssuedB + 2 \notin landed
    BY <1>2, <1>4 DEF IInv, Progress
  <2>2. \A k \in Used .. IssuedB' - 1 : k \in Nat /\ (k \in Used .. IssuedB - 1 \/ k = IssuedB)
    BY <1>2
  <2>3. \A k \in Used .. IssuedA - 1 : k \in Nat
    BY <1>2
  <2> QED  BY <1>1, <1>4, <1>6, <2>1, <2>2, <2>3 DEF IInv, Operands, Slots
<1>10. Moves'
  <2>1. \A s \in 1 .. emitted : s \in 1 .. Len(descs)
    BY DEF IInv, Progress
  <2> QED  BY <1>1, <1>4, <1>5, <2>1 DEF IInv, Moves, Carried
<1>11. (DOMAIN out = 1 .. Blocks)' /\ StoredIsProduct'
  <2>1. \A s \in landed : s \in 1 .. Len(descs)
    BY DEF IInv, Progress
  <2> QED  BY <1>1, <1>4, <1>5, <2>1 DEF IInv, StoredIsProduct
<1> QED  BY <1>6, <1>7, <1>8, <1>9, <1>10, <1>11

\* for j in range(D - 1): the A operand of step j.
LEMMA PrologueAIssues == ASSUME IInv, PrologueA, kk < D - 1 PROVE IInv'
<1>0. /\ Control /\ D \in 1 .. 8 /\ D <= kb /\ D' = D /\ kb' = kb /\ kb \in Nat /\ kk \in Nat
  BY DFacts, SameSlots DEF IInv, PrologueA, At, Control, params
<1> HIDE DEF D
<1>a. at = "prologueA" /\ at' = "prologueB" /\ kk' = kk
  BY DEF PrologueA, At
<1>1. Control'
  BY <1>0, <1>a, PipelineAssumption
  DEF PrologueA, Control, params, Before, Prologue, Steady, Finish
<1>2. /\ IssuedA = kk /\ IssuedB = kk /\ Used = 0 /\ Fenced = 0
      /\ IssuedA' = kk + 1 /\ IssuedB' = kk /\ Used' = 0 /\ Fenced' = 0
  BY <1>0, <1>a DEF IssuedA, IssuedB, Used, Fenced, Before, Prologue, Finish, Min2, Control,
     Steady
<1>3. Issue(Operand("A", IssuedA)) /\ at \notin Before
  BY <1>a, <1>2 DEF PrologueA, Before
<1>4. /\ Base' = Base /\ Layout' /\ Progress' /\ Operands' /\ Moves' 
      /\ (DOMAIN out = 1 .. Blocks)' /\ StoredIsProduct'
  BY <1>0, <1>2, <1>3, IssueA DEF PrologueA
<1>5. Sums'
  BY <1>2, <1>a, SameSums DEF PrologueA, Finish
<1>6. Results'
  <2>1. \A s \in 1 .. Len(descs) : descs'[s] = descs[s]
    BY <1>3 DEF Issue, IInv, Layout
  <2>2. emitted' = emitted /\ staged' = staged /\ lt2' = lt2 /\ at # "store" /\ at' # "store"
    BY <1>a, <1>3 DEF Issue, PrologueA, compute
  <2>3. emitted < Base => Base \in 1 .. Len(descs)
    BY Counts DEF IInv, Layout, Progress, Base
  <2>4. \A m : Product(m)' = Product(m)
    BY SameSlots DEF PrologueA
  <2> QED  BY <1>4, <2>1, <2>2, <2>3, <2>4 DEF IInv, Results
<1> QED  BY <1>1, <1>4, <1>5, <1>6 DEF IInv

\* ... and the B operand.
LEMMA PrologueBIssues == ASSUME IInv, PrologueB PROVE IInv'
<1>0. /\ Control /\ D \in 1 .. 8 /\ D <= kb /\ D' = D /\ kb' = kb /\ kb \in Nat /\ kk \in Nat
  BY DFacts, SameSlots DEF IInv, PrologueB, At, Control, params
<1> HIDE DEF D
<1>a. at = "prologueB" /\ at' = "prologueA" /\ kk' = kk + 1
  BY DEF PrologueB, At
<1>1. Control'
  BY <1>0, <1>a, PipelineAssumption
  DEF PrologueB, Control, params, Before, Prologue, Steady, Finish
<1>2. /\ IssuedA = kk + 1 /\ IssuedB = kk /\ Used = 0 /\ Fenced = 0
      /\ IssuedA' = kk + 1 /\ IssuedB' = kk + 1 /\ Used' = 0 /\ Fenced' = 0
  BY <1>0, <1>a DEF IssuedA, IssuedB, Used, Fenced, Before, Prologue, Finish, Min2, Control,
     Steady
<1>3. Issue(Operand("B", IssuedB)) /\ at \notin Before
  BY <1>a, <1>2 DEF PrologueB, Before
<1>4. /\ Base' = Base /\ Layout' /\ Progress' /\ Operands' /\ Moves' 
      /\ (DOMAIN out = 1 .. Blocks)' /\ StoredIsProduct'
  BY <1>0, <1>2, <1>3, IssueB DEF PrologueB
<1>5. Sums'
  BY <1>2, <1>a, SameSums DEF PrologueB, Finish
<1>6. Results'
  <2>1. \A s \in 1 .. Len(descs) : descs'[s] = descs[s]
    BY <1>3 DEF Issue, IInv, Layout
  <2>2. emitted' = emitted /\ staged' = staged /\ lt2' = lt2 /\ at # "store" /\ at' # "store"
    BY <1>a, <1>3 DEF Issue, PrologueB, compute
  <2>3. emitted < Base => Base \in 1 .. Len(descs)
    BY Counts DEF IInv, Layout, Progress, Base
  <2>4. \A m : Product(m)' = Product(m)
    BY SameSlots DEF PrologueB
  <2> QED  BY <1>4, <2>1, <2>2, <2>3, <2>4 DEF IInv, Results
<1> QED  BY <1>1, <1>4, <1>5, <1>6 DEF IInv

\* The A operand of step kk + D - 1, in the slot that step kk - 1 has read.
LEMMA PrefetchAIssues == ASSUME IInv, PrefetchA, kk + D - 1 < kb PROVE IInv'
<1>0. /\ Control /\ D \in 1 .. 8 /\ D <= kb /\ D' = D /\ kb' = kb /\ kb \in Nat /\ kk \in Nat
  BY DFacts, SameSlots DEF IInv, PrefetchA, At, Control, params
<1> HIDE DEF D
<1>a. at = "prefetchA" /\ at' = "prefetchB" /\ kk' = kk
  BY DEF PrefetchA, At
<1>1. Control'
  BY <1>0, <1>a, PipelineAssumption
  DEF PrefetchA, Control, params, Before, Prologue, Steady, Finish
<1>2. /\ IssuedA = kk + D - 1 /\ IssuedB = kk + D - 1 /\ Used = kk /\ Fenced = kk
      /\ IssuedA' = kk + D /\ IssuedB' = kk + D - 1 /\ Used' = kk /\ Fenced' = kk
  BY <1>0, <1>a DEF IssuedA, IssuedB, Used, Fenced, Before, Prologue, Finish, Min2, Control,
     Steady
<1>3. Issue(Operand("A", IssuedA)) /\ at \notin Before
  BY <1>a, <1>2 DEF PrefetchA, Before
<1>4. /\ Base' = Base /\ Layout' /\ Progress' /\ Operands' /\ Moves' 
      /\ (DOMAIN out = 1 .. Blocks)' /\ StoredIsProduct'
  BY <1>0, <1>2, <1>3, IssueA DEF PrefetchA
<1>5. Sums'
  BY <1>2, <1>a, SameSums DEF PrefetchA, Finish
<1>6. Results'
  <2>1. \A s \in 1 .. Len(descs) : descs'[s] = descs[s]
    BY <1>3 DEF Issue, IInv, Layout
  <2>2. emitted' = emitted /\ staged' = staged /\ lt2' = lt2 /\ at # "store" /\ at' # "store"
    BY <1>a, <1>3 DEF Issue, PrefetchA, compute
  <2>3. emitted < Base => Base \in 1 .. Len(descs)
    BY Counts DEF IInv, Layout, Progress, Base
  <2>4. \A m : Product(m)' = Product(m)
    BY SameSlots DEF PrefetchA
  <2> QED  BY <1>4, <2>1, <2>2, <2>3, <2>4 DEF IInv, Results
<1> QED  BY <1>1, <1>4, <1>5, <1>6 DEF IInv

\* ... and the B operand.
LEMMA PrefetchBIssues == ASSUME IInv, PrefetchB PROVE IInv'
<1>0. /\ Control /\ D \in 1 .. 8 /\ D <= kb /\ D' = D /\ kb' = kb /\ kb \in Nat /\ kk \in Nat
  BY DFacts, SameSlots DEF IInv, PrefetchB, At, Control, params
<1> HIDE DEF D
<1>a. at = "prefetchB" /\ at' = "fence" /\ kk' = kk
  BY DEF PrefetchB, At
<1>1. Control'
  BY <1>0, <1>a, PipelineAssumption
  DEF PrefetchB, Control, params, Before, Prologue, Steady, Finish
<1>2. /\ IssuedA = kk + D /\ IssuedB = kk + D - 1 /\ Used = kk /\ Fenced = kk
      /\ IssuedA' = kk + D /\ IssuedB' = kk + D /\ Used' = kk /\ Fenced' = kk
  BY <1>0, <1>a DEF IssuedA, IssuedB, Used, Fenced, Before, Prologue, Finish, Min2, Control,
     Steady
<1>3. Issue(Operand("B", IssuedB)) /\ at \notin Before
  BY <1>a, <1>2 DEF PrefetchB, Before
<1>4. /\ Base' = Base /\ Layout' /\ Progress' /\ Operands' /\ Moves' 
      /\ (DOMAIN out = 1 .. Blocks)' /\ StoredIsProduct'
  BY <1>0, <1>2, <1>3, IssueB DEF PrefetchB
<1>5. Sums'
  BY <1>2, <1>a, SameSums DEF PrefetchB, Finish
<1>6. Results'
  <2>1. \A s \in 1 .. Len(descs) : descs'[s] = descs[s]
    BY <1>3 DEF Issue, IInv, Layout
  <2>2. emitted' = emitted /\ staged' = staged /\ lt2' = lt2 /\ at # "store" /\ at' # "store"
    BY <1>a, <1>3 DEF Issue, PrefetchB, compute
  <2>3. emitted < Base => Base \in 1 .. Len(descs)
    BY Counts DEF IInv, Layout, Progress, Base
  <2>4. \A m : Product(m)' = Product(m)
    BY SameSlots DEF PrefetchB
  <2> QED  BY <1>4, <2>1, <2>2, <2>3, <2>4 DEF IInv, Results
<1> QED  BY <1>1, <1>4, <1>5, <1>6 DEF IInv

\* The store of the block ends it: what it has issued belongs to the past.
LEMMA StoreStep == ASSUME IInv, Store PROVE IInv'
<1>0. /\ Control /\ D \in 1 .. 8 /\ D <= kb /\ D' = D /\ kb' = kb /\ kb \in Nat \ {0}
      /\ \A m : Product(m)' = Product(m)
  BY DFacts, SameSlots DEF IInv, Store, At, Control, params
<1> HIDE DEF D
<1>a. at = "store" /\ at' = "start" /\ blk' = blk + 1 /\ kk' = kk /\ staged = <<>>
  BY DEF Store, At
<1>1. Control'
  BY <1>0, <1>a, PipelineAssumption
  DEF Store, Control, params, Before, Prologue, Steady, Finish
<1>2. /\ IssuedA = kb /\ IssuedB = kb /\ Used = kb /\ Fenced = kb
      /\ IssuedA' = 0 /\ IssuedB' = 0 /\ Used' = 0 /\ Fenced' = 0
  BY <1>0, <1>a DEF IssuedA, IssuedB, Used, Fenced, Before, Prologue, Steady, Finish, Min2
<1> DEFINE d == [kind |-> "C", slot |-> 0, blk |-> blk, k |-> 0]
<1>3. d \in Desc /\ d.kind = "C" /\ d.blk = blk
  BY <1>a, PipelineAssumption DEF Desc, Slots, MaxSlots, IInv, Control, Before
<1>4. /\ descs' = Append(descs, d) /\ descs \in Seq(Desc) /\ Base \in Nat
      /\ Len(descs) = Base + 2 * kb
      /\ UNCHANGED <<emitted, landed, retired, moving, out, a, b, lt2, staged, pipe>>
  BY <1>0, <1>2 DEF Store, Issue, IInv, Layout, Base, compute
<1> HIDE DEF d
<1>5. /\ descs' \in Seq(Desc) /\ Len(descs') = Len(descs) + 1
      /\ \A s \in 1 .. Len(descs) : descs'[s] = descs[s]
      /\ descs'[Len(descs) + 1] = d
  BY <1>3, <1>4
<1>6. Base' = Len(descs) + 1
  BY <1>2, <1>5 DEF Base
<1>7. Layout'
  BY <1>2, <1>3, <1>4, <1>5, <1>6 DEF Layout
<1>8. Progress'
  BY <1>0, <1>2, <1>4, <1>5, <1>6 DEF IInv, Progress
<1>9. Operands'
  BY <1>2, <1>4 DEF IInv, Operands, Slots
<1>10. Moves'
  <2>1. \A s \in 1 .. emitted : s \in 1 .. Len(descs)
    BY DEF IInv, Progress
  <2> QED  BY <1>0, <1>4, <1>5, <2>1 DEF IInv, Moves, Carried
<1>11. (DOMAIN out = 1 .. Blocks)' /\ StoredIsProduct'
  <2>1. \A s \in landed : s \in 1 .. Len(descs)
    BY DEF IInv, Progress
  <2> QED  BY <1>0, <1>4, <1>5, <2>1 DEF IInv, StoredIsProduct
<1>12. Sums'
  <2>1. pipe' = <<>> /\ at' \notin Finish
    BY <1>a, <1>4 DEF IInv, Sums, Finish
  <2> QED  BY <1>2, <2>1 DEF Sums
<1>13. Results'
  BY <1>0, <1>a, <1>3, <1>4, <1>5, <1>6 DEF IInv, Results
<1> QED  BY <1>1, <1>7, <1>8, <1>9, <1>10, <1>11, <1>12, <1>13 DEF IInv

-----------------------------------------------------------------------------
(* The DMA engine.                                                         *)

\* Beyond the earlier blocks there are operands only.
LEMMA Kinds ==
  ASSUME IInv, NEW s \in 1 .. Len(descs), s > Base
  PROVE  \/ \E k \in 0 .. IssuedA - 1 : s = Base + 2 * k + 1
         \/ \E k \in 0 .. IssuedB - 1 : s = Base + 2 * k + 2
<1>1. /\ Base \in Nat /\ IssuedA \in Nat /\ IssuedB \in Nat /\ Len(descs) = Base + IssuedA + IssuedB
      /\ IssuedB <= IssuedA /\ IssuedA <= IssuedB + 1
  BY SMTT(20), Counts DEF Base, IInv, Layout, Control
<1>2. PICK k \in Nat : s = Base + 2 * k + 1 \/ s = Base + 2 * k + 2
  <2>1. (s - Base - 1) \div 2 \in Nat
    BY <1>1
  <2>2. s = Base + 2 * ((s - Base - 1) \div 2) + 1 \/ s = Base + 2 * ((s - Base - 1) \div 2) + 2
    BY <1>1
  <2> QED  BY <2>1, <2>2
<1>3. CASE s = Base + 2 * k + 1
  <2>1. k \in 0 .. IssuedA - 1
    BY <1>1, <1>3
  <2> QED  BY <1>3, <2>1
<1>4. CASE s = Base + 2 * k + 2
  <2>1. k \in 0 .. IssuedB - 1
    BY <1>1, <1>4
  <2> QED  BY <1>4, <2>1
<1> QED  BY <1>2, <1>3, <1>4

\* What a step of the engine leaves alone.
LEMMA EngineKeeps ==
  ASSUME IInv, UNCHANGED <<params, program, descs, compute>>
  PROVE  /\ Control' /\ Sums' /\ Layout'
         /\ IssuedA' = IssuedA /\ IssuedB' = IssuedB /\ Used' = Used /\ Fenced' = Fenced
         /\ Base' = Base /\ D' = D /\ blk' = blk /\ at' = at
         /\ \A k \in Nat : Slot(k)' = Slot(k)
         /\ \A m : Product(m)' = Product(m)
<1>1. D' = D /\ (\A k \in Nat : Slot(k)' = Slot(k)) /\ (\A m : Product(m)' = Product(m))
  BY SameSlots
<1> HIDE DEF D
<1>2. Control'
  BY <1>1 DEF IInv, Control, params, program
<1>3. IssuedA' = IssuedA /\ IssuedB' = IssuedB /\ Used' = Used /\ Fenced' = Fenced
  BY <1>1 DEF IssuedA, IssuedB, Used, Fenced, params, program
<1>4. Base' = Base
  BY <1>3 DEF Base
<1>5. Sums'
  BY <1>3 DEF IInv, Sums, Sum, params, program, compute
<1>6. Layout'
  <2>1. IssuedA \in 0 .. kb /\ IssuedB \in 0 .. kb /\ kb \in Nat
    BY Counts DEF IInv, Control
  <2>2. \A k \in 0 .. IssuedA - 1 : Slot(k)' = Slot(k)
    BY <1>1, <2>1
  <2>3. \A k \in 0 .. IssuedB - 1 : Slot(k)' = Slot(k)
    BY <1>1, <2>1
  <2> QED  BY <1>3, <1>4, <2>2, <2>3 DEF IInv, Layout, program
<1> QED  BY <1>1, <1>2, <1>3, <1>4, <1>5, <1>6 DEF program

\* A store reads the result of its own block.
LEMMA WorkStep == ASSUME IInv, Work PROVE IInv'
<1>1. /\ Control' /\ Sums' /\ Layout' /\ Used' = Used /\ Fenced' = Fenced /\ Base' = Base
      /\ IssuedA' = IssuedA /\ IssuedB' = IssuedB /\ blk' = blk /\ at' = at
      /\ \A k \in Nat : Slot(k)' = Slot(k)
      /\ \A m : Product(m)' = Product(m)
  BY EngineKeeps DEF Work
<1>2. /\ emitted \in 0 .. Len(descs) - 1 /\ emitted' = emitted + 1 /\ Base \in Nat
      /\ retired >= Base - 1 /\ retired \in 0 .. emitted
      /\ UNCHANGED <<descs, landed, retired, out, a, b, lt2, staged>>
  BY DEF Work, IInv, Progress, Layout, compute
<1>3. Progress'
  BY <1>1, <1>2 DEF IInv, Progress
<1>4. Operands'
  <2>1. Used \in Nat
    BY Counts DEF IInv
  <2>2. (\A k \in Used .. IssuedA - 1 : k \in Nat) /\ (\A k \in Used .. IssuedB - 1 : k \in Nat)
    BY <2>1
  <2> QED  BY <1>1, <1>2, <2>2 DEF IInv, Operands, Slots
<1>5. Moves'
  <2> DEFINE d == descs[emitted + 1]
             v == IF d.kind = "C" THEN lt2 ELSE <<d.blk, d.k>>
  <2>1. v = Carried(emitted + 1)
    <3>1. CASE emitted + 1 > Base
      <4>1. d.kind # "C"
        <5>1. emitted + 1 \in 1 .. Len(descs)
          BY <1>2
        <5>2. ASSUME NEW k \in 0 .. IssuedA - 1, emitted + 1 = Base + 2 * k + 1
              PROVE  d.kind # "C"
          <6>1. descs[emitted + 1] = [kind |-> "A", slot |-> Slot(k), blk |-> blk, k |-> k]
            BY <5>2 DEF IInv, Layout
          <6> QED  BY <6>1
        <5>3. ASSUME NEW k \in 0 .. IssuedB - 1, emitted + 1 = Base + 2 * k + 2
              PROVE  d.kind # "C"
          <6>1. descs[emitted + 1] = [kind |-> "B", slot |-> Slot(k), blk |-> blk, k |-> k]
            BY <5>3 DEF IInv, Layout
          <6> QED  BY <6>1
        <5> QED  BY <3>1, <5>1, <5>2, <5>3, Kinds
      <4> QED  BY <4>1 DEF Carried
    <3>2. CASE emitted + 1 = Base
      BY <1>2, <3>2 DEF Carried, IInv, Results, Layout
    <3> QED  BY <1>2, <3>1, <3>2
  <2>2. moving' = Append([s \in 1 .. emitted |-> Carried(s)], v)
    BY DEF Work, IInv, Moves
  <2>3. Append([s \in 1 .. emitted |-> Carried(s)], v) = [s \in 1 .. emitted + 1 |-> Carried(s)]
    <3> DEFINE f == [s \in 1 .. emitted |-> Carried(s)]
               S == {Carried(s) : s \in 1 .. emitted + 1}
    <3>1. \A s \in 1 .. emitted : Carried(s) \in S
      BY <1>2
    <3>2. v \in S
      BY <1>2, <2>1
    <3> HIDE DEF S, v
    <3>3. f \in Seq(S) /\ Len(f) = emitted /\ \A s \in 1 .. emitted : f[s] = Carried(s)
      BY <1>2, <3>1
    <3> HIDE DEF f
    <3>4. /\ Append(f, v) \in Seq(S) /\ Len(Append(f, v)) = emitted + 1
          /\ \A s \in 1 .. emitted + 1 : Append(f, v)[s] = Carried(s)
      <4>1. emitted \in Nat /\ v = Carried(emitted + 1)
        BY <1>2, <2>1
      <4> QED  BY <3>2, <3>3, <4>1
    <3> QED  BY <1>2, <3>4 DEF f
  <2>4. \A s : Carried(s)' = Carried(s)
    BY <1>1, <1>2 DEF Carried
  <2> HIDE DEF v
  <2> QED  BY <1>2, <2>2, <2>3, <2>4 DEF Moves
<1>6. (DOMAIN out = 1 .. Blocks)' /\ StoredIsProduct'
  BY <1>1, <1>2 DEF IInv, StoredIsProduct
<1>7. Results'
  BY <1>1, <1>2 DEF IInv, Results
<1> QED  BY <1>1, <1>3, <1>4, <1>5, <1>6, <1>7 DEF IInv

\* What is no longer outstanding has landed.
LEMMA RetireStep == ASSUME IInv, Retire PROVE IInv'
<1>1. /\ Control' /\ Sums' /\ Layout' /\ Used' = Used /\ Fenced' = Fenced /\ Base' = Base
      /\ IssuedA' = IssuedA /\ IssuedB' = IssuedB /\ blk' = blk /\ at' = at
      /\ \A k \in Nat : Slot(k)' = Slot(k)
      /\ \A m : Product(m)' = Product(m)
  BY EngineKeeps DEF Retire
<1>2. /\ retired + 1 \in landed /\ retired' = retired + 1
      /\ UNCHANGED <<descs, emitted, landed, moving, out, a, b, lt2, staged>>
  BY DEF Retire, compute
<1>3. Progress'
  BY <1>1, <1>2, Counts DEF IInv, Progress, Layout
<1>4. Operands'
  <2>1. Used \in Nat
    BY Counts DEF IInv
  <2>2. (\A k \in Used .. IssuedA - 1 : k \in Nat) /\ (\A k \in Used .. IssuedB - 1 : k \in Nat)
    BY <2>1
  <2> QED  BY <1>1, <1>2, <2>2 DEF IInv, Operands, Slots
<1>5. Moves'
  BY <1>1, <1>2 DEF IInv, Moves, Carried
<1>6. (DOMAIN out = 1 .. Blocks)' /\ StoredIsProduct'
  BY <1>1, <1>2 DEF IInv, StoredIsProduct
<1>7. Results'
  BY <1>1, <1>2 DEF IInv, Results
<1> QED  BY <1>1, <1>3, <1>4, <1>5, <1>6, <1>7 DEF IInv

\* The operand that lands is one the fences have not made sure of: it finds
\* its slot free.
LEMMA OperandLands ==
  ASSUME IInv, NEW k \in Nat, NEW s \in 1 .. emitted, s \notin landed,
         \/ k \in 0 .. IssuedA - 1 /\ s = Base + 2 * k + 1
         \/ k \in 0 .. IssuedB - 1 /\ s = Base + 2 * k + 2
  PROVE  /\ k >= Used /\ Slot(k) \in Slots
         /\ \A j \in Used .. IssuedA - 1 : j # k => Slot(j) # Slot(k)
<1>1. /\ Base \in Nat /\ IssuedA \in Nat /\ IssuedB \in Nat /\ Used \in Nat /\ kb \in Nat
      /\ IssuedB <= IssuedA /\ IssuedA <= Used + D /\ D \in Nat /\ Fenced \in Nat /\ Fenced >= Used
  BY SMTT(20), Counts, DFacts DEF IInv, Layout, Control
<1>2. /\ Slot(k) \in Slots
      /\ \A i, j \in Nat : i < j /\ j < i + D => Slot(i) # Slot(j)
  BY DFacts DEF IInv
<1>3. s > retired /\ (Used > 0 => retired >= Base + 2 * Used)
  BY <1>1 DEF IInv, Progress
<1>4. k >= Used /\ k < Used + D
  BY <1>1, <1>3 DEF IInv, Progress
<1>5. ASSUME NEW j \in Used .. IssuedA - 1, j # k PROVE Slot(j) # Slot(k)
  <2>1. j \in Nat /\ j >= Used /\ j < Used + D
    BY <1>1
  <2>2. CASE j < k
    BY <1>2, <1>4, <2>1, <2>2, <1>1
  <2>3. CASE k < j
    BY <1>2, <1>4, <2>1, <2>3, <1>1
  <2> QED  BY <1>5, <2>1, <2>2, <2>3
<1> QED  BY <1>2, <1>4, <1>5

\* An operand finds its slot free; a store lands the product it carries.
LEMMA LandStep == ASSUME IInv, NEW s \in DOMAIN descs, Land(s) PROVE IInv'
<1>1. /\ Control' /\ Sums' /\ Layout' /\ Used' = Used /\ Fenced' = Fenced /\ Base' = Base
      /\ IssuedA' = IssuedA /\ IssuedB' = IssuedB /\ blk' = blk /\ at' = at
      /\ \A k \in Nat : Slot(k)' = Slot(k)
      /\ \A m : Product(m)' = Product(m)
  BY EngineKeeps DEF Land
<1> DEFINE d == descs[s]
<1>2. /\ s \in 1 .. emitted /\ s \notin landed /\ landed' = landed \cup {s}
      /\ UNCHANGED <<descs, emitted, retired, moving, lt2, staged>>
      /\ a' = IF d.kind = "A" THEN [a EXCEPT ![d.slot] = moving[s]] ELSE a
      /\ b' = IF d.kind = "B" THEN [b EXCEPT ![d.slot] = moving[s]] ELSE b
      /\ out' = IF d.kind = "C" THEN [out EXCEPT ![d.blk] = moving[s]] ELSE out
  BY DEF Land, compute
<1>3. /\ s \in 1 .. Len(descs) /\ s > retired /\ s >= Base /\ Base \in Nat /\ d \in Desc
      /\ IssuedA \in Nat /\ IssuedB \in Nat /\ Used \in Nat /\ IssuedB <= IssuedA
  BY <1>2, Counts DEF IInv, Progress, Layout
<1>4. moving[s] = Carried(s)
  BY <1>2 DEF IInv, Moves
<1>5. Progress'
  BY <1>1, <1>2 DEF IInv, Progress
<1>6. Moves'
  BY <1>1, <1>2 DEF IInv, Moves, Carried
<1>7. Results'
  BY <1>1, <1>2 DEF IInv, Results
<1>8. (DOMAIN out = 1 .. Blocks)' /\ StoredIsProduct'
  <2>1. DOMAIN out' = 1 .. Blocks
    BY <1>2 DEF IInv
  <2>2. CASE d.kind = "C"
    <3>1. moving[s] = Product(d.blk) /\ d.blk \in 1 .. Blocks
      BY <1>3, <1>4, <2>2 DEF Carried, Desc
    <3> HIDE DEF d
    <3>2. out' = [out EXCEPT ![d.blk] = Product(d.blk)]
      BY <1>2, <2>2, <3>1
    <3>3. ASSUME NEW r \in landed', descs[r].kind = "C"
          PROVE  out'[descs[r].blk] = Product(descs[r].blk)
      <4>1. CASE descs[r].blk = d.blk
        BY <3>1, <3>2, <4>1 DEF IInv
      <4>2. CASE descs[r].blk # d.blk
        <5>1. r \in landed
          BY <1>2, <4>2 DEF d
        <5> QED  BY <3>2, <3>3, <4>2, <5>1 DEF IInv, StoredIsProduct
      <4> QED  BY <4>1, <4>2
    <3> QED  BY <1>1, <1>2, <2>1, <3>3 DEF StoredIsProduct
  <2>3. CASE d.kind # "C"
    BY <1>1, <1>2, <2>1, <2>3 DEF IInv, StoredIsProduct
  <2> QED  BY <2>2, <2>3
<1>9. Operands'
  <2>0. \A j : (j \in Used .. IssuedA - 1 => j \in Nat /\ j \in 0 .. IssuedA - 1)
               /\ (j \in Used .. IssuedB - 1 => j \in Nat /\ j \in 0 .. IssuedB - 1 /\ j \in Used .. IssuedA - 1)
    BY <1>3
  <2>1. CASE s = Base
    <3>1. a' = a /\ b' = b
      BY <1>2, <1>3, <2>1 DEF IInv, Layout
    <3>2. \A j \in Nat : Base + 2 * j + 1 # s /\ Base + 2 * j + 2 # s
      BY <1>3, <2>1
    <3> QED  BY <1>1, <1>2, <2>0, <3>1, <3>2 DEF IInv, Operands, Slots
  <2>2. ASSUME NEW k \in 0 .. IssuedA - 1, s = Base + 2 * k + 1 PROVE Operands'
    <3>1. d = [kind |-> "A", slot |-> Slot(k), blk |-> blk, k |-> k] /\ k \in Nat
      BY <2>2 DEF IInv, Layout
    <3>2. moving[s] = <<blk, k>>
      BY <1>4, <3>1 DEF Carried
    <3>3. /\ k >= Used /\ Slot(k) \in Slots
          /\ \A j \in Used .. IssuedA - 1 : j # k => Slot(j) # Slot(k)
      BY <1>2, <2>2, <3>1, OperandLands
    <3> HIDE DEF d
    <3>4. a' = [a EXCEPT ![Slot(k)] = <<blk, k>>] /\ b' = b
      BY <1>2, <3>1, <3>2
    <3>5. ASSUME NEW j \in Used .. IssuedA - 1, Base + 2 * j + 1 \in landed'
          PROVE  a'[Slot(j)] = <<blk, j>>
      <4>1. CASE j = k
        BY <3>3, <3>4, <4>1 DEF IInv, Operands
      <4>2. CASE j # k
        <5>1. Base + 2 * j + 1 \in landed
          BY <1>2, <1>3, <2>0, <2>2, <3>5, <4>2
        <5> QED  BY <3>3, <3>4, <4>2, <5>1 DEF IInv, Operands
      <4> QED  BY <4>1, <4>2
    <3>6. ASSUME NEW j \in Used .. IssuedB - 1, Base + 2 * j + 2 \in landed'
          PROVE  b'[Slot(j)] = <<blk, j>>
      <4>1. Base + 2 * j + 2 \in landed
        BY <1>2, <1>3, <2>0, <2>2, <3>6
      <4> QED  BY <3>4, <4>1 DEF IInv, Operands
    <3>7. DOMAIN a' = Slots /\ DOMAIN b' = Slots
      BY <3>4 DEF IInv, Operands
    <3> QED  BY <1>1, <2>0, <3>5, <3>6, <3>7 DEF Operands, Slots
  <2>3. ASSUME NEW k \in 0 .. IssuedB - 1, s = Base + 2 * k + 2 PROVE Operands'
    <3>1. d = [kind |-> "B", slot |-> Slot(k), blk |-> blk, k |-> k] /\ k \in Nat
      BY <2>3 DEF IInv, Layout
    <3>2. moving[s] = <<blk, k>>
      BY <1>4, <3>1 DEF Carried
    <3>3. /\ k >= Used /\ Slot(k) \in Slots
          /\ \A j \in Used .. IssuedA - 1 : j # k => Slot(j) # Slot(k)
      BY <1>2, <2>3, <3>1, OperandLands
    <3> HIDE DEF d
    <3>4. b' = [b EXCEPT ![Slot(k)] = <<blk, k>>] /\ a' = a
      BY <1>2, <3>1, <3>2
    <3>5. ASSUME NEW j \in Used .. IssuedB - 1, Base + 2 * j + 2 \in landed'
          PROVE  b'[Slot(j)] = <<blk, j>>
      <4>1. CASE j = k
        BY <3>3, <3>4, <4>1 DEF IInv, Operands
      <4>2. CASE j # k
        <5>1. Base + 2 * j + 2 \in landed /\ j \in Used .. IssuedA - 1
          BY <1>2, <1>3, <2>0, <2>3, <3>5, <4>2
        <5> QED  BY <3>3, <3>4, <4>2, <5>1 DEF IInv, Operands
      <4> QED  BY <4>1, <4>2
    <3>6. ASSUME NEW j \in Used .. IssuedA - 1, Base + 2 * j + 1 \in landed'
          PROVE  a'[Slot(j)] = <<blk, j>>
      <4>1. Base + 2 * j + 1 \in landed
        BY <1>2, <1>3, <2>0, <2>3, <3>6
      <4> QED  BY <3>4, <4>1 DEF IInv, Operands
    <3>7. DOMAIN a' = Slots /\ DOMAIN b' = Slots
      BY <3>4 DEF IInv, Operands
    <3> QED  BY <1>1, <2>0, <3>5, <3>6, <3>7 DEF Operands, Slots
  <2> QED  BY <1>3, <2>1, <2>2, <2>3, Kinds
<1> QED  BY <1>1, <1>5, <1>6, <1>7, <1>8, <1>9 DEF IInv

-----------------------------------------------------------------------------
\* IInv holds in every reachable state.
THEOREM Inductive == Spec => []IInv
<1>1. Init => IInv
  BY InitIInv, PipelineAssumption
<1>2. IInv /\ [Next]_vars => IInv'
  <2> SUFFICES ASSUME IInv, [Next]_vars PROVE IInv'
    OBVIOUS
  <2>1. CASE Program
    <3>1. CASE PrologueA
      BY <3>1, PrologueEnds, PrologueAIssues
    <3>2. CASE PrefetchA
      BY <3>2, PrefetchEnds, PrefetchAIssues
    <3> QED  BY <2>1, <3>1, <3>2, StartStep, PrologueBIssues, PrefetchBIssues, FenceStep, MxuStep,
             WaitMxuStep, ConvertStep, StoreStep DEF Program
  <2>2. CASE Engine
    BY <2>2, WorkStep, LandStep, RetireStep DEF Engine
  <2>3. CASE Commit
    BY <2>3, CommitMxuStep, CommitVpuStep DEF Commit
  <2>4. CASE UNCHANGED vars
    <3>1. UNCHANGED <<params, program, descs, compute, emitted, landed, retired, moving, out, a, b>>
      BY <2>4 DEF vars, params, program, compute
    <3>2. /\ Control' /\ Sums' /\ Layout' /\ Used' = Used /\ Fenced' = Fenced /\ Base' = Base
          /\ IssuedA' = IssuedA /\ IssuedB' = IssuedB /\ blk' = blk /\ at' = at
          /\ \A k \in Nat : Slot(k)' = Slot(k)
          /\ \A m : Product(m)' = Product(m)
      BY <3>1, EngineKeeps
    <3>3. Used \in Nat
      BY Counts DEF IInv
    <3>4. (\A k \in Used .. IssuedA - 1 : k \in Nat) /\ (\A k \in Used .. IssuedB - 1 : k \in Nat)
      BY <3>3
    <3>5. Operands'
      BY <3>1, <3>2, <3>4 DEF IInv, Operands, Slots
    <3>6. Progress' /\ Moves' /\ Results' /\ (DOMAIN out = 1 .. Blocks)' /\ StoredIsProduct'
      BY <3>1, <3>2 DEF IInv, Progress, Moves, Carried, Results, StoredIsProduct, compute
    <3> QED  BY <3>2, <3>5, <3>6 DEF IInv
  <2> QED  BY <2>1, <2>2, <2>3, <2>4 DEF Next
<1> QED  BY <1>1, <1>2, PTL DEF Spec

\* A stored block of the result is the sum of its own kb products, in the
\* order of K, whatever order the transfers land in: of any number of blocks
\* and K-steps, with any of the depths.
THEOREM StoredAreProducts == Spec => []StoredIsProduct
<1>1. IInv => StoredIsProduct
  BY DEF IInv
<1> QED  BY <1>1, Inductive, PTL
=============================================================================
