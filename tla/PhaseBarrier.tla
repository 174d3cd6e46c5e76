---------------------------- MODULE PhaseBarrier ----------------------------
(***************************************************************************)
(* What a global barrier promises the compiler: the tiles go through their *)
(* phases together.  A tile arrives when the transfers it started in this  *)
(* phase are over, and none leaves before all have arrived.                *)
(***************************************************************************)
EXTENDS Integers

CONSTANTS Tiles, Rounds

VARIABLES
  round,     \* round[t]: barriers tile t has left behind
  working,   \* working[t]: tile t has not arrived at its next barrier
  dirty      \* dirty[t]: transfers tile t has started and not finished

vars == <<round, working, dirty>>

Init ==
  /\ round = [t \in Tiles |-> 0]
  /\ working = [t \in Tiles |-> TRUE]
  /\ dirty = [t \in Tiles |-> 0]

Start(t) ==
  /\ working[t]
  /\ dirty' = [dirty EXCEPT ![t] = @ + 1]
  /\ UNCHANGED <<round, working>>

Finish(t) ==
  /\ dirty[t] > 0
  /\ dirty' = [dirty EXCEPT ![t] = @ - 1]
  /\ UNCHANGED <<round, working>>

Reach(t) ==
  /\ working[t] /\ dirty[t] = 0 /\ round[t] < Rounds
  /\ working' = [working EXCEPT ![t] = FALSE]
  /\ UNCHANGED <<round, dirty>>

Leave(t) ==
  /\ ~working[t]
  /\ \A u \in Tiles : round[u] > round[t] \/ (round[u] = round[t] /\ ~working[u])
  /\ round' = [round EXCEPT ![t] = @ + 1]
  /\ working' = [working EXCEPT ![t] = TRUE]
  /\ UNCHANGED dirty

Next == \E t \in Tiles : Start(t) \/ Finish(t) \/ Reach(t) \/ Leave(t)

Spec == Init /\ [][Next]_vars
=============================================================================
