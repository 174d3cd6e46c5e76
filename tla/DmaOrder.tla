------------------------------ MODULE DmaOrder ------------------------------
(***************************************************************************)
(* What a tile's DMA engine promises the program that runs on it, with no  *)
(* word on how: descriptors are issued one after another, their chunks     *)
(* land at the destination in any order, and a descriptor is retired only  *)
(* when all its chunks have landed and all older descriptors are retired.  *)
(* DMA_FENCE keep=N and the synchronous LOAD_SHARED / STORE_SHARED read    *)
(* nothing but the set of retired descriptors, so this is the contract     *)
(* that double buffering relies on.  TileDma implements it.                *)
(***************************************************************************)
EXTENDS Naturals, Sequences

CONSTANT Kinds        \* the ways a descriptor may move its chunks

VARIABLES
  descs,     \* descs[s]: the descriptor with sequence number s, [kind, n]
  landed,    \* the chunks <<s, i>> whose bytes are at their destination
  retired    \* the sequence numbers no longer counted as outstanding

vars == <<descs, landed, retired>>

Desc == [kind : Kinds, n : Nat \ {0}]

Chunks(s) == {<<s, i>> : i \in 0 .. descs[s].n - 1}

Init == descs = <<>> /\ landed = {} /\ retired = {}

Issue ==
  /\ Len(descs') = Len(descs) + 1
  /\ LET d == descs'[Len(descs) + 1] IN d \in Desc /\ descs' = Append(descs, d)
  /\ UNCHANGED <<landed, retired>>

\* At most one chunk lands, and the retired set grows to some prefix 1..k of
\* the issue order all of whose chunks are there.
LandAndRetire ==
  /\ UNCHANGED descs
  /\ \/ UNCHANGED landed
     \/ \E s \in DOMAIN descs : \E c \in Chunks(s) : landed' = landed \cup {c}
  /\ \E k \in 0 .. Len(descs) :
       /\ retired' = 1 .. k
       /\ retired \subseteq retired'
       /\ \A s \in retired' : Chunks(s) \subseteq landed'

Next == Issue \/ LandAndRetire

Spec == Init /\ [][Next]_vars
=============================================================================
