--------------------------- MODULE MCGemmPipeline ---------------------------
(* Two output blocks of one to four K-steps, with two or three slots. *)
EXTENDS GemmPipeline

MCSteps == 1 .. 4
MCDepths == {2, 3}
=============================================================================
