----------------------------- MODULE MCBarrier ------------------------------
(* Three tiles; the configurations choose two or three barriers. *)
EXTENDS Barrier

MCTiles == 0 .. N - 1
MCTags == 0 .. 2 * Rounds - 1
=============================================================================
