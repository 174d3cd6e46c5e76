------------------------------ MODULE JoinSync ------------------------------
(***************************************************************************)
(* Tag-based synchronisation between tiles: the RELEASE and ACQUIRE        *)
(* instructions, the RELEASE_TOK flits the network carries and the join    *)
(* counters of the tile that consumes them (src/cycle/tile_core.cpp).      *)
(*                                                                         *)
(* A token has no identity: only its destination and tag matter, so the    *)
(* ones under way are counted per destination and tag, and delivered in    *)
(* any order.                                                              *)
(***************************************************************************)
EXTENDS Integers, FiniteSets

CONSTANTS
  Tiles,         \* the tile ids
  Tags,          \* the tags programs use
  MaxLiveTags    \* cfg.max_live_tags

VARIABLES
  cnt,      \* cnt[t][g]: join_cnt_[g] of tile t, 0 when it has no entry
  table,    \* table[t]: the tags that have an entry in tile t's join_cnt_
  flight,   \* flight[t][g]: tokens with tag g on their way to tile t
  thrown    \* a join table overflowed: Chip::run is unwound

joinVars == <<cnt, table, flight, thrown>>

JoinInit ==
  /\ cnt = [t \in Tiles |-> [g \in Tags |-> 0]]
  /\ table = [t \in Tiles |-> {}]
  /\ flight = [t \in Tiles |-> [g \in Tags |-> 0]]
  /\ thrown = FALSE

\* Faulty: a table with one entry less.
RoomForLess(u, g) == g \in table[u] \/ Cardinality(table[u]) < MaxLiveTags - 1

RoomFor(u, g) == g \in table[u] \/ Cardinality(table[u]) < MaxLiveTags

\* RELEASE to another tile: a token leaves (a network that is full makes the
\* sequencer try again, which is not to take the step).  To itself, a tile
\* bumps its own counter, and no capacity is checked.
Release(t, u, g) ==
  IF t = u
  THEN /\ cnt' = [cnt EXCEPT ![t][g] = @ + 1]
       /\ table' = [table EXCEPT ![t] = @ \cup {g}]
       /\ UNCHANGED <<flight, thrown>>
  ELSE /\ flight' = [flight EXCEPT ![u][g] = @ + 1]
       /\ UNCHANGED <<cnt, table, thrown>>

\* A RELEASE_TOK at the head of tile u's ingress queue is counted, or finds
\* the table full.
Arrive(u, g) ==
  /\ flight[u][g] > 0
  /\ flight' = [flight EXCEPT ![u][g] = @ - 1]
  /\ cnt' = [cnt EXCEPT ![u][g] = @ + 1]
  /\ table' = [table EXCEPT ![u] = @ \cup {g}]
  /\ UNCHANGED thrown

Overflow(u, g) ==
  /\ flight[u][g] > 0
  /\ thrown' = TRUE
  /\ UNCHANGED <<cnt, table, flight>>

\* Faulty: the counter keeps what the join consumed; or is not compared.
AcquireKeeps(t, g, arity) ==
  /\ cnt[t][g] >= arity
  /\ table' = [table EXCEPT ![t] = @ \cup {g}]
  /\ UNCHANGED <<cnt, flight, thrown>>

\* ACQUIRE passes and consumes one generation of tokens ...
Acquire(t, g, arity) ==
  /\ cnt[t][g] >= arity
  /\ cnt' = [cnt EXCEPT ![t][g] = @ - arity]
  /\ table' = [table EXCEPT ![t] = @ \cup {g}]
  /\ UNCHANGED <<flight, thrown>>

\* ... or stalls; looking the counter up makes an entry for it either way.
AcquireStalls(t, g, arity) ==
  /\ cnt[t][g] < arity
  /\ g \notin table[t]
  /\ table' = [table EXCEPT ![t] = @ \cup {g}]
  /\ UNCHANGED <<cnt, flight, thrown>>

Deliver ==
  \E u \in Tiles, g \in Tags :
    IF RoomFor(u, g) THEN Arrive(u, g) ELSE Overflow(u, g)

JoinTypeOK ==
  /\ cnt \in [Tiles -> [Tags -> Nat]]
  /\ table \in [Tiles -> SUBSET Tags]
  /\ flight \in [Tiles -> [Tags -> Nat]]
  /\ thrown \in BOOLEAN

\* Tokens that tile u has been sent and has not consumed.
Pending(u, g) == cnt[u][g] + flight[u][g]
=============================================================================
