----------------------------- MODULE NocTileSys -----------------------------
(***************************************************************************)
(* The tiles of the RTL on its ring (rtl/tile/noc_tile_sys.sv): in each a  *)
(* DMA engine (dma_engine.sv) that pushes lines of its SRAM to other       *)
(* tiles, and the ingress (tile_node.sv) that writes what arrives into the *)
(* SRAM.  All registers change at the clock edge; only channel 0 is used.  *)
(***************************************************************************)
EXTENDS RingRouters, Sequences, FiniteSets

CONSTANTS
  Depth,      \* lines of an SRAM, 2^ADDR_W
  CntMod,     \* 2^16, the range of the line counter
  Programs    \* programs[t]: the pushes that tile t is started with, in order

SetupCnt == 2

Lines == 0 .. Depth - 1
Push == [src_line : Lines, dst_tile : Tiles, dst_line : Lines, nlines : 0 .. CntMod - 1]

ASSUME SystemAssumption ==
  /\ Depth \in Nat \ {0} /\ CntMod \in Nat \ {0}
  /\ Programs \subseteq [Tiles -> Seq(Push)]

VARIABLES
  program,   \* the pushes of this run
  cmd,       \* cmd[t]: the push whose command is at tile t's ports
  dma,       \* dma[t]: st, setup_cnt, sent, cur_line, cur_addr, line_buf, done
  rdata0,    \* rdata0[t]: output register of the SRAM's read port
  sram,      \* sram[t][l]: a line's content is the name it started with
  overruled  \* history: flits that found the write port taken, each with the
             \* one that had it; written by SysCycle and read by no step

sys_vars == <<br, program, cmd, dma, rdata0, sram, overruled>>

States == {"IDLE", "SETUP", "READ", "CAP", "SEND", "FIN"}
Content == Tiles \X Lines
Name(t, l) == <<t, l>>

\* After reset, with the SRAMs loaded.  The registers that have no reset are
\* not read before a start sets them.
SysInit ==
  /\ Init_br
  /\ program \in Programs
  /\ cmd = [t \in Tiles |-> 1]
  /\ dma = [t \in Tiles |-> [st |-> "IDLE", setup_cnt |-> 0, sent |-> 0,
                             cur_line |-> 0, cur_addr |-> 0,
                             line_buf |-> Name(t, 0), done |-> FALSE]]
  /\ rdata0 = [t \in Tiles |-> Name(t, 0)]
  /\ sram = [t \in Tiles |-> [l \in Lines |-> Name(t, l)]]
  /\ overruled = {}

-----------------------------------------------------------------------------
(* dma_engine.sv.  dst_tile and nlines are read from the ports during the  *)
(* whole transfer, which the command therefore has to outlast.             *)

Command(t) == program[t][cmd[t]]

inj_req(t) ==
  IF dma[t].st = "SEND"
  THEN [valid |-> TRUE, dst |-> Command(t).dst_tile, src |-> t,
        addr |-> dma[t].cur_addr, payload |-> dma[t].line_buf]
  ELSE NoFlit

Requests == [q \in Injects |-> IF q[2] = "REQ" THEN inj_req(q[1]) ELSE NoFlit]

\* The flit was accepted.
NextLine(t) ==
  [dma[t] EXCEPT !.sent = (@ + 1) % CntMod,
                 !.cur_addr = (@ + 1) % Depth,
                 !.cur_line = (@ + 1) % Depth,
                 !.st = IF (dma[t].sent + 1) % CntMod = Command(t).nlines
                        THEN "FIN" ELSE "READ"]

Started(t) ==
  [dma[t] EXCEPT !.st = "SETUP", !.setup_cnt = SetupCnt, !.sent = 0,
                 !.cur_line = Command(t).src_line,
                 !.cur_addr = Command(t).dst_line]

\* The registers after the edge, but for done.
Fsm(t, start) ==
  CASE dma[t].st = "IDLE"  -> IF start THEN Started(t) ELSE dma[t]
    [] dma[t].st = "SETUP" -> IF dma[t].setup_cnt = 0
                              THEN [dma[t] EXCEPT !.st = "READ"]
                              ELSE [dma[t] EXCEPT !.setup_cnt = @ - 1]
    [] dma[t].st = "READ"  -> [dma[t] EXCEPT !.st = "CAP"]
    [] dma[t].st = "CAP"   -> [dma[t] EXCEPT !.line_buf = rdata0[t], !.st = "SEND"]
    [] dma[t].st = "SEND"  -> IF inj_ready(Requests, t, "REQ") THEN NextLine(t) ELSE dma[t]
    [] dma[t].st = "FIN"   -> [dma[t] EXCEPT !.st = "IDLE"]

-----------------------------------------------------------------------------
(* tile_node.sv.                                                           *)

\* Faulty: listens to one direction only.
ClockwiseOnly(t) == eject(t, 0)

\* One write in a cycle, clockwise first; what arrives counter-clockwise in
\* the same cycle is gone.
ing(t) == IF eject(t, 0).valid THEN eject(t, 0) ELSE eject(t, 1)

Written(t) ==
  IF ing(t).valid THEN [sram[t] EXCEPT ![ing(t).addr] = ing(t).payload] ELSE sram[t]

\* Both routers eject in this cycle.
Collides(t) == eject(t, 0).valid /\ eject(t, 1).valid

-----------------------------------------------------------------------------
\* The edge, with dma_start high at the tiles in start.  Whoever commands a
\* tile puts the next push at its ports when it has seen done.
SysCycle(start) ==
  /\ Edge(Requests)
  /\ dma' = [t \in Tiles |-> [Fsm(t, t \in start) EXCEPT !.done = dma[t].st = "FIN"]]
  /\ rdata0' = [t \in Tiles |-> sram[t][dma[t].cur_line]]
  /\ sram' = [t \in Tiles |-> Written(t)]
  /\ cmd' = [t \in Tiles |-> IF dma[t].st = "FIN" THEN cmd[t] + 1 ELSE cmd[t]]
  /\ overruled' = overruled \cup
       {<<eject(t, 1), eject(t, 0)>> : t \in {u \in Tiles : Collides(u)}}
  /\ UNCHANGED program

CanStart(t) == dma[t].st = "IDLE" /\ cmd[t] <= Len(program[t])

SysClock == \E start \in SUBSET {t \in Tiles : CanStart(t)} : SysCycle(start)

SysSpec == SysInit /\ [][SysClock]_sys_vars /\ WF_sys_vars(SysClock)

-----------------------------------------------------------------------------
\* Line k (from 0) of a push, at its source and at its destination.
Src(push, k) == (push.src_line + k) % Depth
Dst(push, k) == (push.dst_line + k) % Depth

InRing(t, push, k) ==
  \E q \in Ports : br[q].valid /\ br[q].src = t
                     /\ br[q].dst = push.dst_tile /\ br[q].addr = Dst(push, k)
                     /\ br[q].payload = Name(t, Src(push, k))
Landed(t, push, k) == sram[push.dst_tile][Dst(push, k)] = Name(t, Src(push, k))

\* The lines that a push moves: a count of zero runs once around the counter.
Extent(push) == IF push.nlines = 0 THEN CntMod ELSE push.nlines

\* No line of an SRAM is written twice, or both sent and written.
Apart(p) ==
  \A t, u \in Tiles : \A i \in 1 .. Len(p[t]), j \in 1 .. Len(p[u]) :
    \A k \in 0 .. Extent(p[t][i]) - 1, l \in 0 .. Extent(p[u][j]) - 1 :
      /\ p[t][i].dst_tile = p[u][j].dst_tile /\ Dst(p[t][i], k) = Dst(p[u][j], l)
           => t = u /\ i = j /\ k = l
      /\ ~(p[t][i].dst_tile = u /\ Dst(p[t][i], k) = Src(p[u][j], l))

\* The flit with line k of a push of tile t.
Word(t, push, k) ==
  [valid |-> TRUE, dst |-> push.dst_tile, src |-> t,
   addr |-> Dst(push, k), payload |-> Name(t, Src(push, k))]

Goes(t, push, d) == ring_dir(t, push.dst_tile) = d

\* Line k of a push came counter-clockwise in a cycle in which a line came
\* clockwise, and it is that line which is in the SRAM.
Overruled(t, push, k) ==
  /\ Goes(t, push, 1)
  /\ \E u \in Tiles : \E i \in 1 .. Len(program[u]) :
       LET other == program[u][i] IN
       \E m \in 0 .. Extent(other) - 1 :
         /\ other.dst_tile = push.dst_tile /\ Goes(u, other, 0)
         /\ <<Word(t, push, k), Word(u, other, m)>> \in overruled
         /\ Landed(u, other, m)

\* Lines of push j that tile t's engine has given to the ring.
Accepted(t, j) ==
  IF j < cmd[t] THEN program[t][j].nlines
  ELSE IF j = cmd[t] /\ dma[t].st # "IDLE" THEN dma[t].sent ELSE 0

\* "Any tile can push a LOCAL region to any other tile's LOCAL SRAM through the
\* fabric" (noc_tile_sys.sv:2), but for what two routers eject in one cycle
\* (tile_node.sv:67).  Every line an engine has sent is in the ring, or in the
\* SRAM it was sent to, with the content it had at its source, or was overruled
\* by a line that came from the other side in the same cycle and has stayed
\* where it was written.
LostOnlyInCollisions ==
  \A t \in Tiles : \A j \in 1 .. Len(program[t]) : \A k \in 0 .. Accepted(t, j) - 1 :
    LET push == program[t][j] IN
    InRing(t, push, k) \/ Landed(t, push, k) \/ Overruled(t, push, k)

\* A push that was started ends, done is signalled, and in the end those of its
\* lines are in their places, for good, that were not overruled, and no others:
\* the engine does not learn that one is missing, and nobody sends it again.
PushesComplete ==
  \A t \in Tiles : (dma[t].st = "SETUP") ~> (dma[t].done
    /\ <>[](\A j \in 1 .. cmd[t] - 1 : \A k \in 0 .. program[t][j].nlines - 1 :
             LET push == program[t][j] IN Landed(t, push, k) <=> ~Overruled(t, push, k)))
=============================================================================
