----------------------------- MODULE MCTileDma ------------------------------
(* Small programs for TileDma. *)
EXTENDS TileDma

Dma(k, n) == [op |-> "DMA", kind |-> k, n |-> n]
Load(n) == [op |-> "LOAD_SHARED", kind |-> "pull", n |-> n]
Store(n) == [op |-> "STORE_SHARED", kind |-> "push", n |-> n]
Fence(k) == [op |-> "DMA_FENCE", keep |-> k]
Nop == [op |-> "NOP"]
Halt == [op |-> "HALT"]

\* Overtaking transfers of all kinds around partial and full fences; the last
\* two stop by running off their ends, one of them in a synchronous transfer.
MixedPrograms ==
  { <<Dma("pull", 2), Dma("self", 1), Dma("push", 1), Fence(1), Nop, Fence(0), Halt>>,
    <<Dma("push", 2), Dma("pull", 1), Fence(1), Dma("self", 2), Fence(2), Halt>>,
    <<Dma("self", 2), Load(2), Nop, Store(1), Halt>>,
    <<Dma("self", 1), Dma("pull", 1), Dma("push", 1), Dma("pull", 1)>>,
    <<Dma("pull", 1), Store(2)>> }
=============================================================================
