------------------------------ MODULE TileDma -------------------------------
(***************************************************************************)
(* The DMA side of a compute tile (src/cycle/tile_core.cpp): the           *)
(* sequencer that issues descriptors and fences, the one-channel engine    *)
(* that cuts them into sub-transactions ("chunks"), the bookkeeping of     *)
(* outstanding chunks and the in-order retirement of descriptors.          *)
(*                                                                         *)
(* One tick of the tile visits the stages of TileCore::tick in order:      *)
(* ingress, remote, engine (then emit), seq.  What lies beyond the tile    *)
(* (fabric, banks, DRAM, other tiles) is a pair of sets: req, the requests *)
(* the fabric took and has not answered, and resp, the answers waiting in  *)
(* tile_ingress.  Both are unordered because requests to different         *)
(* destinations overtake one another.                                      *)
(***************************************************************************)
EXTENDS Integers, Sequences, FiniteSets

CONSTANTS
  Programs,        \* the instruction sequences set_program may be given
  QueueDepth,      \* cfg.dma_queue_depth
  SetupCycles,     \* cfg.dma_setup_cycles
  ChunksPerCycle,  \* cfg.dma_chunks_per_cycle
  MaxInflight,     \* cfg.dma_max_inflight_chunks
  RdPorts,         \* cfg.local_rd_ports
  WrPorts,         \* cfg.local_wr_ports
  FabricCap,       \* requests of this tile its inject queues hold
  MaxRemote        \* bound: accesses of other tiles to this SRAM in a run

Kinds == {"self", "push", "pull"}

Instr ==
       [op : {"DMA"}, kind : Kinds, n : Nat \ {0}]
  \cup [op : {"LOAD_SHARED"}, kind : {"pull"}, n : Nat \ {0}]
  \cup [op : {"STORE_SHARED"}, kind : {"push"}, n : Nat \ {0}]
  \cup [op : {"DMA_FENCE"}, keep : Nat]
  \cup [op : {"NOP", "HALT"}]

ASSUME ProgramsAssumption == Programs \subseteq Seq(Instr)
ASSUME ConfigAssumption ==
  /\ QueueDepth \in Nat \ {0}
  /\ SetupCycles \in Nat
  /\ ChunksPerCycle \in Nat \ {0}
  /\ MaxInflight \in Nat \ {0}
  /\ RdPorts \in Nat \ {0}
  /\ WrPorts \in Nat \ {0}
  /\ FabricCap \in Nat \ {0}
  /\ MaxRemote \in Nat

VARIABLES
  prog,        \* prog_
  pc,          \* pc_ (from 1)
  halted,      \* halted_
  sync_wait,   \* sync_wait_seq_, 0 when the sequencer waits for no DMA
  descs,       \* every DmaDesc enqueued so far, by sequence number
  dma_q,       \* dma_q_, the sequence numbers queued for the engine
  dma_active,  \* dma_active_
  dma_cur,     \* dma_cur_: [seq, at: next chunk, setup: setup_remaining]
  burst,       \* chunks emitted in this tick
  live,        \* live_descs_: a map from sequence number to DescState
  inflight,    \* inflight_chunks_
  stage,       \* the stage of TileCore::tick about to run
  rd, wr,      \* rd_budget_, wr_budget_
  remote,      \* accesses other tiles may still make to this SRAM
  req, resp,   \* chunks <<seq, i>> on their way out, and answered
  landed       \* chunks whose bytes are at their destination

seqVars == <<prog, pc, halted, sync_wait>>
engVars == <<dma_q, dma_active, dma_cur, burst>>
netVars == <<req, resp>>
vars == <<seqVars, engVars, descs, live, inflight, stage, rd, wr, remote,
          netVars, landed>>

next_seq == Len(descs) + 1
Kind(c) == descs[c[1]].kind
Chunks(s) == {<<s, i>> : i \in 0 .. descs[s].n - 1}

Init ==
  /\ prog \in Programs
  /\ pc = 1
  /\ halted = FALSE
  /\ sync_wait = 0
  /\ descs = <<>>
  /\ dma_q = <<>>
  /\ dma_active = FALSE
  /\ dma_cur = [seq |-> 0, at |-> 0, setup |-> 0]
  /\ burst = 0
  /\ live = <<>>
  /\ inflight = 0
  /\ stage = "ingress"
  /\ rd = RdPorts
  /\ wr = WrPorts
  /\ remote = MaxRemote
  /\ req = {} /\ resp = {} /\ landed = {}

-----------------------------------------------------------------------------
(* Completion: desc_check_done and desc_dec_outstanding.                   *)

\* Faulty retirements: in any order, only one at a time, and up to the newest
\* descriptor that is done.
RetireAnyDone(L) == [s \in {s \in DOMAIN L : ~L[s].done} |-> L[s]]
RetireOne(L) ==
  [s \in {s \in DOMAIN L : ~L[s].done \/ \E t \in DOMAIN L : t < s} |-> L[s]]
RetireUpToDone(L) ==
  [s \in {s \in DOMAIN L : \A t \in DOMAIN L : t >= s => ~L[t].done} |-> L[s]]

\* Erasing from the oldest end while done leaves the descriptors that have,
\* at or before them, one that is not.
Retire(L) ==
  [s \in {s \in DOMAIN L : \E t \in DOMAIN L : t <= s /\ ~L[t].done} |-> L[s]]

\* Faulty: forgets that not every chunk may have been generated.
CheckDoneEarly(L, s) ==
  IF L[s].outstanding = 0 THEN Retire([L EXCEPT ![s].done = TRUE]) ELSE L

CheckDone(L, s) ==
  IF L[s].gen_done /\ L[s].outstanding = 0
  THEN Retire([L EXCEPT ![s].done = TRUE])
  ELSE L

DecOutstanding(s) ==
  /\ s \in DOMAIN live /\ live[s].outstanding > 0 /\ inflight > 0
  /\ live' = CheckDone([live EXCEPT ![s].outstanding = @ - 1], s)
  /\ inflight' = inflight - 1

-----------------------------------------------------------------------------
(* Ingress: the VC_RESP queue of process_ingress, then the accesses other  *)
(* tiles make to this SRAM (VC_REQ and the read service), of which only    *)
(* the ports they take matter here.                                        *)

IngressAck(c) ==
  /\ stage = "ingress" /\ c \in resp /\ Kind(c) = "push"
  /\ DecOutstanding(c[1])
  /\ resp' = resp \ {c}
  /\ UNCHANGED <<seqVars, engVars, descs, stage, rd, wr, remote, req, landed>>

IngressData(c) ==
  /\ stage = "ingress" /\ c \in resp /\ Kind(c) = "pull"
  /\ wr > 0
  /\ wr' = wr - 1
  /\ landed' = landed \cup {c}
  /\ DecOutstanding(c[1])
  /\ resp' = resp \ {c}
  /\ UNCHANGED <<seqVars, engVars, descs, stage, rd, remote, req>>

IngressEnd ==
  /\ stage = "ingress"
  /\ resp = {} \/ (wr = 0 /\ \E c \in resp : Kind(c) = "pull")
  /\ stage' = "remote"
  /\ UNCHANGED <<seqVars, engVars, descs, live, inflight, rd, wr, remote,
                 netVars, landed>>

RemoteAccess ==
  /\ stage = "remote"
  /\ \E w \in 0 .. wr : \E r \in {0, 1} :
       /\ r <= rd /\ w + r <= remote
       /\ wr' = wr - w
       /\ rd' = rd - r
       /\ remote' = remote - w - r
  /\ stage' = "engine"
  /\ UNCHANGED <<seqVars, engVars, descs, live, inflight, netVars, landed>>

-----------------------------------------------------------------------------
(* The engine: dma_engine_tick and emit_dma_chunk.                         *)

\* The descriptor the engine works on this tick, popped if it was idle.
Current ==
  IF dma_active THEN dma_cur
  ELSE [seq |-> Head(dma_q), at |-> 0, setup |-> SetupCycles]

Activate ==
  /\ stage = "engine"
  /\ dma_active \/ dma_q # <<>>
  /\ dma_active' = TRUE
  /\ dma_q' = IF dma_active THEN dma_q ELSE Tail(dma_q)
  /\ UNCHANGED <<seqVars, descs, live, inflight, rd, wr, remote, netVars,
                 landed>>

EngineSetup ==
  /\ Activate
  /\ Current.setup > 0
  /\ dma_cur' = [Current EXCEPT !.setup = @ - 1]
  /\ stage' = "seq"
  /\ UNCHANGED burst

EngineBegin ==
  /\ Activate
  /\ Current.setup = 0
  /\ dma_cur' = Current
  /\ stage' = "emit"
  /\ burst' = 0

EngineIdle ==
  /\ stage = "engine" /\ ~dma_active /\ dma_q = <<>>
  /\ stage' = "seq"
  /\ UNCHANGED <<seqVars, engVars, descs, live, inflight, rd, wr, remote,
                 netVars, landed>>

cur == <<dma_cur.seq, dma_cur.at>>

\* route_from_tile finds room in an inject queue or an up-link.
RouteAccepts == Cardinality(req) < FabricCap

\* Faulty: no cap on chunks in flight.
CanSendUncapped ==
  /\ Kind(cur) # "self"
  /\ Kind(cur) = "push" => rd > 0
  /\ RouteAccepts

CanCopy == Kind(cur) = "self" /\ rd > 0 /\ wr > 0
CanSend ==
  /\ Kind(cur) # "self"
  /\ inflight < MaxInflight
  /\ Kind(cur) = "push" => rd > 0
  /\ RouteAccepts

\* Step to the next chunk; after the last one the descriptor needs only its
\* outstanding answers.
Advance(L) ==
  LET s == dma_cur.seq IN
  IF dma_cur.at + 1 = descs[s].n
  THEN /\ live' = CheckDone([L EXCEPT ![s].gen_done = TRUE], s)
       /\ dma_active' = FALSE
       /\ UNCHANGED dma_cur
  ELSE /\ live' = L
       /\ dma_cur' = [dma_cur EXCEPT !.at = @ + 1]
       /\ UNCHANGED dma_active

Emitting == stage = "emit" /\ dma_active /\ burst < ChunksPerCycle

EmitSelf ==
  /\ Emitting /\ CanCopy
  /\ landed' = landed \cup {cur}
  /\ rd' = rd - 1 /\ wr' = wr - 1
  /\ Advance(live)
  /\ burst' = burst + 1
  /\ UNCHANGED <<seqVars, descs, dma_q, inflight, stage, remote, netVars>>

EmitRemote ==
  /\ Emitting /\ CanSend
  /\ req' = req \cup {cur}
  /\ rd' = IF Kind(cur) = "push" THEN rd - 1 ELSE rd
  /\ inflight' = inflight + 1
  /\ Advance([live EXCEPT ![dma_cur.seq].outstanding = @ + 1])
  /\ burst' = burst + 1
  /\ UNCHANGED <<seqVars, descs, dma_q, stage, wr, remote, resp, landed>>

EmitStop ==
  /\ stage = "emit"
  /\ ~Emitting \/ ~(CanCopy \/ CanSend)
  /\ stage' = "seq"
  /\ UNCHANGED <<seqVars, engVars, descs, live, inflight, rd, wr, remote,
                 netVars, landed>>

-----------------------------------------------------------------------------
(* The sequencer: sequencer_tick and issue_instr.  Every action here ends  *)
(* the tick: the next one starts with fresh port budgets.                  *)

EndTick ==
  /\ stage = "seq"
  /\ stage' = "ingress"
  /\ rd' = RdPorts /\ wr' = WrPorts
  /\ UNCHANGED <<prog, dma_active, dma_cur, burst, inflight, remote, netVars,
                 landed>>

in == prog[pc]
ProgramLeft == ~halted /\ pc <= Len(prog)
\* Faulty: a synchronous transfer that does not hold the sequencer.
MayIssueAsync == ProgramLeft
MayIssue == ProgramLeft /\ sync_wait \notin DOMAIN live

SeqHalted ==
  /\ EndTick /\ halted
  /\ UNCHANGED <<pc, halted, sync_wait, descs, dma_q, live>>

\* Running off the end halts the tile: tested before the DMA wait.
SeqEndOfProgram ==
  /\ EndTick /\ ~halted /\ pc > Len(prog)
  /\ halted' = TRUE
  /\ UNCHANGED <<pc, sync_wait, descs, dma_q, live>>

SeqSyncStall ==
  /\ EndTick /\ ProgramLeft /\ sync_wait \in DOMAIN live
  /\ UNCHANGED <<pc, halted, sync_wait, descs, dma_q, live>>

\* DMA, LOAD_SHARED and STORE_SHARED: enqueue_dma.
IssueDma ==
  /\ EndTick /\ MayIssue
  /\ in.op \in {"DMA", "LOAD_SHARED", "STORE_SHARED"}
  /\ Len(dma_q) < QueueDepth
  /\ descs' = Append(descs, [kind |-> in.kind, n |-> in.n])
  /\ dma_q' = Append(dma_q, next_seq)
  /\ live' = [s \in DOMAIN live \cup {next_seq} |->
                IF s = next_seq
                THEN [outstanding |-> 0, gen_done |-> FALSE, done |-> FALSE]
                ELSE live[s]]
  /\ sync_wait' = IF in.op = "DMA" THEN 0 ELSE next_seq
  /\ pc' = pc + 1
  /\ UNCHANGED halted

\* Faulty: a fence that leaves one descriptor too many outstanding.
IssueFenceLoose ==
  /\ EndTick /\ MayIssue
  /\ in.op = "DMA_FENCE"
  /\ Cardinality(DOMAIN live) <= in.keep + 1
  /\ sync_wait' = 0
  /\ pc' = pc + 1
  /\ UNCHANGED <<halted, descs, dma_q, live>>

IssueFence ==
  /\ EndTick /\ MayIssue
  /\ in.op = "DMA_FENCE"
  /\ Cardinality(DOMAIN live) <= in.keep
  /\ sync_wait' = 0
  /\ pc' = pc + 1
  /\ UNCHANGED <<halted, descs, dma_q, live>>

\* A full descriptor queue or a fence not yet satisfied: retried next tick.
IssueStall ==
  /\ EndTick /\ MayIssue
  /\ \/ /\ in.op \in {"DMA", "LOAD_SHARED", "STORE_SHARED"}
        /\ Len(dma_q) >= QueueDepth
     \/ /\ in.op = "DMA_FENCE"
        /\ Cardinality(DOMAIN live) > in.keep
  /\ sync_wait' = 0
  /\ UNCHANGED <<pc, halted, descs, dma_q, live>>

\* Faulty: keeps waiting for a synchronous transfer that is over.
IssueOtherKeepsWait ==
  /\ EndTick /\ MayIssue
  /\ in.op \in {"NOP", "HALT"}
  /\ halted' = (in.op = "HALT")
  /\ pc' = pc + 1
  /\ UNCHANGED <<sync_wait, descs, dma_q, live>>

IssueOther ==
  /\ EndTick /\ MayIssue
  /\ in.op \in {"NOP", "HALT"}
  /\ halted' = (in.op = "HALT")
  /\ sync_wait' = 0
  /\ pc' = pc + 1
  /\ UNCHANGED <<descs, dma_q, live>>

-----------------------------------------------------------------------------
(* Beyond the tile: a bank, the DRAM controller or another tile commits a  *)
(* pushed chunk no later than it acknowledges it; a pull is answered with  *)
(* data.                                                                   *)

RemoteCommit(c) ==
  /\ c \in req /\ Kind(c) = "push" /\ c \notin landed
  /\ landed' = landed \cup {c}
  /\ UNCHANGED <<seqVars, engVars, descs, live, inflight, stage, rd, wr,
                 remote, netVars>>

Respond(c) ==
  /\ c \in req
  /\ Kind(c) = "push" => c \in landed
  /\ req' = req \ {c}
  /\ resp' = resp \cup {c}
  /\ UNCHANGED <<seqVars, engVars, descs, live, inflight, stage, rd, wr,
                 remote, landed>>

-----------------------------------------------------------------------------
Ingress ==
  \/ \E c \in resp : IngressAck(c)
  \/ \E c \in resp : IngressData(c)
  \/ IngressEnd
  \/ RemoteAccess

Engine == EngineSetup \/ EngineBegin \/ EngineIdle
            \/ EmitSelf \/ EmitRemote \/ EmitStop

Sequencer == SeqHalted \/ SeqEndOfProgram \/ SeqSyncStall
               \/ IssueDma \/ IssueFence \/ IssueStall \/ IssueOther

Tick == Ingress \/ Engine \/ Sequencer

Outside == \E c \in req : RemoteCommit(c) \/ Respond(c)

Next == Tick \/ Outside

\* Chip::run ticks every tile in every cycle, and the fabric, the banks and
\* the DRAM controller are ticked before the tiles.
Fairness == WF_vars(Tick) /\ WF_vars(Outside)

Spec == Init /\ [][Next]_vars /\ Fairness

-----------------------------------------------------------------------------
(* Properties.                                                             *)

DescState == [outstanding : Nat, gen_done : BOOLEAN, done : BOOLEAN]

TypeOK ==
  /\ prog \in Programs
  /\ pc \in Nat \ {0}
  /\ halted \in BOOLEAN
  /\ sync_wait \in Nat
  /\ descs \in Seq([kind : Kinds, n : Nat \ {0}])
  /\ dma_q \in Seq(Nat)
  /\ dma_active \in BOOLEAN
  /\ dma_cur \in [seq : Nat, at : Nat, setup : Nat]
  /\ burst \in Nat
  /\ DOMAIN live \subseteq DOMAIN descs
  /\ live \in [DOMAIN live -> DescState]
  /\ inflight \in Nat
  /\ stage \in {"ingress", "remote", "engine", "emit", "seq"}
  /\ rd \in Nat /\ wr \in Nat /\ remote \in Nat
  /\ req \in SUBSET ((DOMAIN descs) \X Nat)
  /\ resp \in SUBSET ((DOMAIN descs) \X Nat)
  /\ landed \in SUBSET ((DOMAIN descs) \X Nat)

\* The descriptors still counted as outstanding are always the most recently
\* issued ones: live_descs_ has no gap up to the newest sequence number, so
\* that DMA_FENCE keep=N can be read as "all but the newest N".
NewestAreLive ==
  \A s \in DOMAIN live : s .. Len(descs) \subseteq DOMAIN live

\* A descriptor that left live_descs_ has every chunk at its destination,
\* however the answers to its chunks and to its neighbours' overtook one
\* another.
RetiredHaveLanded ==
  \A s \in DOMAIN descs \ DOMAIN live : Chunks(s) \subseteq landed

\* Passing DMA_FENCE keep=N means that everything but the newest N
\* descriptors is finished, as the double-buffered GEMM loop assumes.
FenceDrains ==
  [][IssueFence =>
       \A s \in 1 .. Len(descs) - in.keep : Chunks(s) \subseteq landed]_vars

\* No instruction issues between a LOAD_SHARED / STORE_SHARED and the moment
\* its last byte has landed.
SyncBlocks ==
  [][(pc' # pc /\ sync_wait # 0) => Chunks(sync_wait) \subseteq landed]_vars

\* Neither runtime_error of desc_dec_outstanding can be raised: each answer
\* finds its descriptor alive with an outstanding chunk to subtract.
AnswersAreExpected ==
  \A c \in resp :
    c[1] \in DOMAIN live /\ live[c[1]].outstanding > 0 /\ inflight > 0

\* inflight_chunks_, the sum over all descriptors that bounds the load on
\* the fabric, never drifts from the chunks really under way.
InflightIsExact ==
  /\ inflight = Cardinality(req \cup resp)
  /\ inflight <= MaxInflight

\* "Fully drained: halted, no in-flight MXU/VPU/DMA work" (tile_core.h).
Drained == halted /\ ~dma_active /\ dma_q = <<>> /\ DOMAIN live = {}
Idle == Drained /\ sync_wait = 0

\* The sequencer ran off the end of a program behind a LOAD_SHARED or
\* STORE_SHARED.
EndedInSync ==
  /\ pc > Len(prog) /\ prog # <<>>
  /\ prog[Len(prog)].op \in {"LOAD_SHARED", "STORE_SHARED"}

\* "Fully drained: halted, no in-flight MXU/VPU/DMA work" (tile_core.h:84) is
\* not all that idle() asks.  A drained tile whose program ended in a
\* synchronous transfer is never idle, since the halted sequencer does not ask
\* again whether sync_wait_seq_ is over; any other drained tile is, with HALT
\* or without, however its transfers and fences overtook one another.
IdleUnlessCutOff == Drained => (Idle <=> ~EndedInSync)

\* Every program drains, and reaches the idle state Chip::run waits for if it
\* does not end in a synchronous transfer, whatever mixture of fences and
\* transfers it holds.
EventuallyIdle == <>[](Idle \/ (Drained /\ EndedInSync))

\* The detailed engine implements the contract.
Order == INSTANCE DmaOrder WITH retired <- DOMAIN descs \ DOMAIN live
Contract == Order!Spec
=============================================================================
