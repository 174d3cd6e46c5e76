---------------------------- MODULE MCNocTileSys ----------------------------
(* Four tiles with SRAMs of six lines; the lines from 3 on are written.    *)
EXTENDS NocTileSys

To(src, dst, at_line, n) ==
  [src_line |-> src, dst_tile |-> dst, dst_line |-> at_line, nlines |-> n]

\* Two tiles push to one, others in the other direction and twice.
OneWay == [t \in Tiles |->
  CASE t = 0 -> <<To(0, 2, 3, 2)>>
    [] t = 1 -> <<To(1, 2, 5, 1)>>
    [] t = 2 -> <<To(0, 1, 4, 2)>>
    [] t = 3 -> <<To(2, 0, 3, 1), To(0, 0, 4, 2)>>]

\* Lines for one tile from both sides, which meet there or do not.
BothWays == [t \in Tiles |->
  CASE t = 0 -> <<To(0, 1, 3, 2)>>
    [] t = 2 -> <<To(1, 1, 5, 1), To(0, 3, 3, 1)>>
    [] OTHER -> <<>>]

AllPrograms == {OneWay, BothWays}

ASSUME ProgramsAreApart == \A p \in Programs : Apart(p)
=============================================================================
