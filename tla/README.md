# A TLA+ model of the BUPT STAMP processor

The repository holds a tiled processor in several forms: a cycle-level simulator
in C++ (`src/cycle`), a milestone-1 timing and functional model (`src/common`,
`src/timing`), a compiler that turns a language model into one program per tile
(`tools/edgc`), hand-written kernels (`src/workload`) and RTL (`rtl`). This directory
holds TLA+ modules translated from that code, TLC runs over small instances of
them and TLAPS proofs for every instance. Paths below are relative
to the root of the repository.

Sixteen compute tiles sit on a bidirectional ring. Each runs its own straight-line
program: asynchronous DMA descriptors with fences, matrix and vector
instructions on a private scratch memory (LOCAL), and RELEASE / ACQUIRE tokens
towards other tiles. Vertical links join ring nodes to SRAM banks and, behind
them, DRAM. There are no interrupts, no branches and no coherence: what makes a
result right is only the order that fences and tokens impose.

## 1. Inventory

| Component | State | Operations | Talks to |
|---|---|---|---|
| **Tile sequencer and DMA engine** `src/cycle/tile_core.cpp` | program counter, `sync_wait_seq_`, descriptor queue, current descriptor, `live_descs_`, `inflight_chunks_`, port budgets | issue a DMA / fence / synchronous transfer, emit chunks, take answers, retire | its inject queues and ingress queues; the ports it shares with everything else in the tile |
| **Compute pipeline** same file, `blockops.h` | `mxu_pipe_`, `vpu_staged_` | issue, forward an in-flight accumulator, commit, WAIT_MXU | LOCAL, the sequencer |
| **Tag synchronisation** same file | `join_cnt_` | RELEASE to self or over the ring, arrival of a token, ACQUIRE | other tiles, by RELEASE_TOK flits |
| **Ring NoC and ingress** `src/cycle/fabric.cpp` | input buffers per node, direction and virtual channel; inject queues; ingress queues | eject, forward, inject; consume a request if its answer has a place | tiles, gateways of the banks |
| **Mesh and torus NoC** same file | as the ring, per port | as the ring | as the ring |
| **Bank controller, prefetch, NMC** same file | vertical queues, round-robin pointer, the state of two engines | accept, serve, forward to DRAM, prefetch rows, reduce rows | gateways, DRAM |
| **DRAM controller** `src/cycle/dram_ctrl.cpp` | ingest queues, transactions, response columns | accept a flit, split it, collect callbacks, answer | banks; Ramulator2 (external) |
| **Chip** `src/cycle/chip.cpp` | the cycle, the last cycle with progress | tick everything in a fixed order, detect the end, give up | all |
| **Compiler** `tools/edgc/edgc/compile.py` | the programs, buffers touched since the last barrier, the next tag | emit a primitive with a barrier if it needs one, GEMM loops, attention, norms | the tiles, through programs |
| **Golden interpreter and reference** `tools/edgc/edgc/golden.py`, `model.py`, `numerics.py` | per tile a program counter, LOCAL and join counters; DRAM | execute an instruction, sweep over the tiles; the forward pass; routing; f32 to f16 and back | the compiler, whose output they check |
| **Design-space exploration** `dse_bo` | on disk: builds with stamps, gate markers, run directories, result caches; in a process: what has been proposed, the baseline | build a variant, gate it, run workloads, cache, propose, observe | compiler, simulator, the file system and other searches on it |
| **Kernels** `src/workload` | the programs | hand-placed releases and acquires | the tiles |
| **Functional and timing model** `src/common`, `src/timing` | join counters, memory, an event queue | as the cycle model, coarser | – |
| **RTL** `rtl` | one register stage per router, engines as FSMs | as the cycle model, at clock edges | – |

What is hard in them, and what has to hold:

* **Out-of-order completion under in-order bookkeeping.** Answers of different
  descriptors overtake one another, and a fence looks only at a count. A
  descriptor may only be retired when it and all older ones are done; counters
  must match the chunks under way; the engine must always drain.
* **Barriers out of point-to-point tokens.** Tiles pass one after another while
  the broadcast goes on. Phases must not overlap, no token may be left over, no
  table may overflow, nobody may be left waiting.
* **Barriers left out.** A missed read-after-write, write-after-write or
  write-after-read conflict gives a rare wrong result; a superfluous barrier
  costs time. Schedules must be serialisable and no barrier superfluous.
* **Multi-buffering with counted fences.** One transfer too many left in flight
  reads stale operands. Each stored block must be the sum of its own products.
* **Back-pressure in a cyclic network.** Ring buffers form a cycle in each
  direction, and requests are consumed only when their answers can be queued.
  The ring must not fill up for good, lose, duplicate or reorder flits.
* **A compiler without a memory model to lean on.** Each primitive is written with
  raw LOCAL offsets, fences and waits of two engines. No instruction may meet a
  transfer or result that is still under way, no operand may have been overwritten,
  and every stored block must be what the reference computes, rounding for rounding.
* **Searches that share a file system.** Threads and processes build, judge and run
  the same variants, are killed and started again. A build that is not complete or
  fails the gate must never yield a number, and nobody may wait for ever.
* **Split and merged transactions** in banks and DRAM, engines that retry a
  token, same-cycle collisions of two ring directions in the RTL.

`PROJECT.json` lists every component with what is modelled of it, and every
hazard at its line with the property that covers it or the reason none does.

## 2. Modules

| Module | Models | Kind |
|---|---|---|
| `DmaOrder` | the contract of a DMA engine: descriptors retire in issue order, after landing | abstract |
| `TileDma` | sequencer, DMA engine, completion and the tile's side of the ingress | detailed, implements `DmaOrder` |
| `PhaseBarrier` | the contract of a global barrier | abstract |
| `JoinSync` | RELEASE, ACQUIRE, tokens and join tables | component |
| `Barrier` | `Compiler._barrier` over `JoinSync`, with DMA around it | composition, implements `PhaseBarrier` |
| `BarrierElim` | `Compiler._sync` for any sequence of primitives, and the tiles that run what it emits | component, over the barrier of `PhaseBarrier` |
| `GemmPipeline` | the multi-buffered K-loop on MXU, VPU and the engine `DmaOrder` describes | component |
| `RingNoC` | the ring with tiles that send, answer and are answered | component |
| `BankColumn` | one group's memory column: bank controller with its prefetch and NMC engines, DRAM controller | component |
| `EdgeReference` | the forward pass of a model, as an expression for every block | pure |
| `EdgeCompiler` | the compiler: a configuration to one program per tile | pure |
| `EdgeProgram` | what instructions read, write and yield, and what can be said of programs without running them | pure |
| `EdgeMachine` | the tiles that run a compiled program, and what is under way meanwhile | composition over the three |
| `EdgeConfigs` | the small models that are compiled, and one order of execution of their programs | instances |
| `HalfFloat` | the conversions between f32 and f16, with their widths as parameters | pure |
| `Exploration` | searches, builds, gate, run directories and caches | component |
| `RingRouters` | the registers and handshakes of the RTL ring | component |
| `RingRtl` | the RTL ring under traffic on both channels | composition over `RingRouters` |
| `NocTileSys` | RTL tiles with DMA engine, SRAM and ingress on the ring | composition over `RingRouters` |
| `*Proofs` | theorems about the module of that name (`RtlProofs`: about `RingRtl` and `NocTileSys`; `CompilerProofs`: about `BarrierElim` and `EdgeMachine`) | proofs |
| `MC*` | values of the constants for TLC | instances |

Definitions whose comment begins with *Faulty* are deliberate mistakes that no
specification uses; they serve to show that a property notices them.

How they fit together: `TileDma` shows that the engine keeps the order contract
`DmaOrder`, on which `GemmPipeline` and the hazards of `EdgeMachine` rest;
`Barrier` shows that the instructions of a barrier keep `PhaseBarrier`, on which
`BarrierElim` rests. `GemmPipeline` looks at one loop cycle by cycle, `EdgeMachine`
at whole programs instruction by instruction.

### TileDma

A tick of a tile is a sequence of steps: `stage` walks through the stages of
`TileCore::tick` in the code's order (ingress, the other tiles' accesses to this
SRAM, DMA engine, sequencer), and each action is one handler or one iteration of
a handler's loop. The last action of a tick refreshes the port budgets. Variables
carry the names of the members (`dma_q_`, `live_descs_`, ...). A descriptor is
its kind and its number of chunks: `self` (LOCAL to LOCAL, finished when
emitted), `push` (data out, acknowledgement back) and `pull` (request out, data
back). Addresses, strides and payloads are left out. `live` is the map from
sequence number to `DescState`, and erasing finished entries from its oldest end
is the operator `Retire`. `req` and `resp`, the world outside, are sets, since
answers of different banks and tiles come in any order; a pushed chunk is
committed no later than it is acknowledged. The time of the outside world is
arbitrary, which covers all latencies of ring, banks and DRAM.

The exceptions of `desc_dec_outstanding` are the guard of `DecOutstanding`:
`AnswersAreExpected` says that the guard holds for every answer that exists.

### JoinSync, Barrier, PhaseBarrier

A token is its destination and tag, so that tokens under way are a count per
destination and tag, delivered in any order. `table[t]` is the key set of
`join_cnt_`: entries appear by arrival (with the capacity test), self-release and
ACQUIRE (without), and never disappear. In `Barrier` a tile is at one of the
instructions that `_barrier` emits; between barriers it issues up to `MaxDma`
transfers, chosen freely, and the engine retires them whenever it likes.
`PhaseBarrier` is implemented with `working[t]` = "tile t has not passed the
fence of its next barrier".

### BarrierElim

First half: `EmitPrimitive` is `_sync` and the primitive that follows it, for any
declared reads and writes. Second half: the tiles run their shares (a primitive
may have work for only the first `width` tiles), with every transfer under way
until it finishes. Between phases stands the barrier of `PhaseBarrier`: `Reach` and `Leave` are
its actions, and that the emitted instructions implement them is what `Barrier` shows.

### GemmPipeline

The program of one tile, instruction by instruction, as `_gemm` and
`_gemm_block_dbuf` emit it: prologue, prefetch, partial fence, product, WAIT_MXU,
conversion and the asynchronous store. The content of a block is its name and an
accumulator is the sequence of products it has summed; a product that reads a
slot too early or too late is then a wrong sequence. The MXU's in-flight
forwarding and the staged commit of the VPU are as in `tile_core.cpp`. Only one
tile matters, since tiles share no slot. The queue of the DMA engine has no bound
here: a full queue only delays the program, which is a behaviour of the model
already. With prefetch switched off (or a single K-step) the compiler emits other
code, which is the same loop with one slot and a WAIT_MXU in every step.

### EdgeReference, EdgeCompiler, EdgeProgram, EdgeMachine

Numbers are abstracted to the expressions that yield them. `EdgeReference` gives for
every 16 x 16 block of the forward pass (`Computed`) its expression over the names of
other blocks (`Meaning`): which kernels, in which order the products are summed, and
where results are rounded to f16. Two computations are equal in every bit for all
inputs, as far as order and rounding decide it, if the expressions are the same.
`EdgeCompiler` is `Compiler`, primitive by primitive: `Compile(c)` is what it emits for
configuration `c`, the tags and arities of barriers included. A LOCAL address is a set
of 64-byte lines, so regions overlap in the model where they do in the SRAM, whereas
DRAM buffers, which `DramAlloc` never lets overlap, are names. Addresses of what a
primitive declares, the order of blocks and their tiles are those of the code.

`EdgeProgram` holds the results of instructions, taken from `golden.py`, and conditions on programs
that need no execution: which instructions issue before which (`IssuesBefore`: by the order in a tile,
or by a release after the one and an acquire before the other), what fences and WAIT_MXU have waited
for, and what each instruction must find. The proofs of section 4 rest on them.

`EdgeMachine` runs the program as `golden.py` does: every instruction takes effect when
it issues, and the tiles take turns in any order (the sweeps of `Golden.run` are one).
A region that has been overwritten in part holds nothing. What the chip may do later is
kept beside it: `moving`, the descriptors no fence has waited for, and `pending`,
the MXU blocks no WAIT_MXU has waited for. `NoHazard` says that no instruction touches
what one of them touches, given what `TileDma` and `BankColumn` guarantee: the engine
works off descriptors in order and reads LOCAL when it does, loads return in any order,
an MXU issue accumulates onto a result in flight. A program without hazards computes on
the chip what it computes here, so `NoHazard` and `StoredIsReference` together carry the
interpreter's result over to the chip. `BankColumn.AnswersAreTrue` is why a store followed
by a load of the same tile is no hazard; between tiles it is one. The programs of
the packed precisions (`i8`, `i4`) cannot run on `Golden`, which has no case for their MXU
instructions; they get the chip's semantics.

### HalfFloat

`Narrow` is `f32_to_f16_bits`, branch by branch, and `Widen` is `f16_bits_to_f32`, on
fields instead of bits. `RoundsToNearest` is what the comments of `numerics.py`
and `f16.h` say of the pair.

### Exploration

A thread is at a place in `evaluate`, `run_anchor`, `build_variant` or `_validate`; each
action is what these do between two operations that others can notice: reading a stamp
or marker, taking or leaving a lock, opening a file (which truncates it), closing it,
starting and ending a build or a simulation. `Torn` is a file between opening and
closing, and after a kill in between. Processes take the same locks, read and write the
same caches and directories, and may be killed at any step, with what they have
started; the locks (`flock`) end with them. Which configuration an optimiser proposes
is any that its kind of search may propose: a generator that deduplicates
never comes back to one, the random baseline may. A measured number is `exact` if the inputs in
the directory and the build were complete, `wrong` otherwise.

### RingNoC

A cycle is a sequence of turns in the order of `RingNoC::tick` and `Chip::run`:
the nodes of the clockwise direction, those of the other, then the tiles. A
node's turn is everything the code does there: ejection on both virtual channels,
then one flit over the outgoing link (responses first, through traffic before
injection). `wait` is the time until a `TimedQueue` shows a flit. Tiles push to
one another (DATA_WRITE), owe an acknowledgement and consume a request only when
it can be queued. `BusyTiles` are those whose write port and DMA engine may be
taken by other work in any cycle.

### BankColumn

Each action is one turn of a loop of `BankCtrl::tick` or `DramCtrl::tick`: take one flit
from the column, serve the head of one up-link, start, advance or finish an engine,
ingest a flit, issue a line, take a callback, drain an answer. The widths of the loops,
the round-robin starts, the limit of the SRAM port and the latency stamps decide only
when a turn is taken, and are left open. Every queue has its capacity, and every
refusal its effect (the head stays). `Flit.chunk` is 0 for a request or its answer and
the number of the chunk for the prefetch engine's reads. A memory cell is the set of
requests whose data it has received, so that a token or a load that comes too early
shows as a missing member. A requester of another group (`far`) comes in through the
gateway's link, as `Ingress` forwards it, and only to the bank's SRAM, as tiles reach the
DRAM through their own column. A write commits when the controller ingests it; a read
takes its data when its last line is done, so that it may see younger writes, which
`dram_ctrl.h:10-13` states. The device (Ramulator2) accepts and finishes lines of
different flits in any order. Prefetches of no rows are left out: no code emits one.

### RingRouters, RingRtl, NocTileSys

`RingRouters` has one variable, the registers `br`; its operators are the
combinational signals under their names (`in_ready`, `inj_ready`, `eject`, ...) and
`Edge` is the clock edge, which all nodes take at once. `RingRtl` adds tiles that
present a flit at any time and hold it until it is taken, as the test bench
`tb_router` does (both channels of a tile may be active at once, which the ports
allow). `NocTileSys` adds, in the same clock edge, the FSM of every DMA engine, the
SRAM with its output register and the ingress, as `noc_tile_sys.sv` wires them. A
line's content is the name it started with. A start may come in any cycle; a
command stays at the ports until `done`, since `dst_tile` and `nlines` are not
latched. (The set-up takes three cycles, 2, 1 and 0, where the comment says two.) Only the
ingress of the clockwise direction is heard when both eject in one cycle; the history
variable `overruled` remembers the flit that was not, and the one it met.

## 3. Runs

Every property of a passing run is tested by a mutation of a modelled definition
that must violate it; mutations are listed in `PROJECT.json`.

| Run | Bounds | Shows |
|---|---|---|
| `tile_dma` | five programs (three end with HALT, one with a synchronous transfer) with all kinds of transfers, up to four descriptors of one or two chunks; queue depth 2, set-up 1, burst 2, two in flight, ports 2/1, two requests in the inject queues, one foreign access | retirement in issue order and only after landing; no unexpected answer; exact count of chunks in flight; fences and synchronous transfers wait for what they say; a tile that has drained is idle exactly if its program did not end in a synchronous transfer; every program drains; the engine implements `DmaOrder` |
| `barrier` | three tiles, three barriers, up to one transfer per tile and phase, tables of five entries for six tags | phases separate, spent tags are empty, no overflow, every tile passes, implements `PhaseBarrier` |
| `barrier_elim` | all programs of up to three primitives over five access patterns and three buffers, both modes, two tiles | conflicting primitives never overlap, a barrier stands where a conflict calls for it and nowhere else (in the global mode before every primitive), a halted tile means a committed image; its `ASSUME` evaluates for the eight programs of `edge` what `CompilerProofs` assumes of programs |
| `gemm_pipeline` | two output blocks, 1 to 4 K-steps, 2 or 3 slots, with and without prefetch | every stored block is the sum of its own products |
| `edge` | eight configurations on one to three tiles: two layers; both norms, activations, masks and positional schemes; windows within and across blocks; grouped heads; mixtures of experts with ties and unused experts; nine block columns; products of all precisions with B in DRAM and in the bank; 2 and 3 slots and none; both barrier modes | no hazard, no operand overwritten, what is stored is what the reference computes, all tiles halt |
| `edge_wide` | ten block columns, layer norm | **violation**, finding 1 |
| `half_float` | 5 + 4 bits narrowed to 3 + 2, all numbers | **violation**, finding 2 |
| `ring_noc` | four tiles, two patterns of pushes, buffers of two flits, hop of one cycle, inject and ingress queues of one flit | the ring never wedges, order per pair of tiles, nothing lost or answered twice, every request answered |
| `bank_column` | three programs, two tiles of the group and a far one, prefetches, reductions, loads and stores on overlapping cells; all queues of one place, DRAM queue of two, two lines per flit, two chunks in flight | no request lost or answered twice, answers after their effects, idle means answered, everything is answered |
| `ring_rtl` | five nodes, three patterns of up to seven flits; one can fill a direction of a channel | exactly-once, order per sender, everything presented arrives unless its own direction of its channel stands still for ever |
| `noc_tile_sys` | four tiles with SRAMs of six lines; a program of five pushes of one or two lines, one tile with two of them, and one where two tiles push to a third from both sides | no line is changed, and none is lost but where one from the other side arrived in the same cycle; every push completes, and in the end exactly the lines that were not dropped are in their places |
| `exploration` | eight scenes of one or two searches with up to three proposals over four configurations (two share a sound variant, one fails the gate, one is infeasible), two anchors, up to one kill | no numbers from a variant that fails the gate, only complete builds are used, verdicts stay, a search that is alone gets exact numbers, every search ends |

Why these bounds are enough to be worth checking. In `tile_dma` a second
descriptor of another kind overtakes the first, descriptors wait behind a full
queue, the cap on chunks in flight and both port budgets are all reached, and a
chunk that finishes a descriptor can be generated before or after the last answer
arrives. In `barrier` two generations of a barrier coexist (one tile can be in its
second while the broadcast of the first goes on), and three tiles are what it takes
for a broadcast to be in its middle. In `barrier_elim` read-after-write,
write-after-read, write-after-write, read-after-read and conflicts with a primitive
that is not the previous one all occur, and shares leave one tile without work. In `gemm_pipeline`
four steps over three slots reuse a slot, and the second block starts while the
first is being stored. In `ring_noc` queues of one flit and buffers of two make
every back-pressure path happen; two hops in a row share links with injected flits.
In `bank_column` queues of one place make every queue refuse, a prefetch of two rows
fills the cap and competes with loads for column and link, an engine has to retry its
token, and a command waits behind a running one.
In `ring_rtl` five nodes are the smallest ring with two hops in both directions; one pattern has
four flits on a channel of a direction, one less than fills it, another all five and a flit the
other way, which has to arrive whether the five stand still or not. In `edge` the products reach one step more
than there are slots, tiles share primitives unevenly, layers hand over through alternating
buffers, and the strip of nine columns ends beside its temp. In `exploration` two
processes meet at the same variant and the same configuration, threads of one evaluation
meet at the same build and gate, and a kill can hit every step. In `noc_tile_sys` two engines share links and
a destination, a tile's next command follows its `done`, and lines from both sides meet in one cycle or do not.

`CHECK_DEADLOCK FALSE` stands in `barrier`, `barrier_elim`, `gemm_pipeline`, `bank_column`,
the `edge` runs and `half_float`: there programs end and the model with them, and that all
of them get to their end is a property where it matters. In `tile_dma`, `ring_noc` and the
RTL runs cycles go on for ever, and `exploration` only stands still when all searches have
ended (`Finished`), so that deadlock is checked.

### Fairness

`Chip::run` ticks DRAM, banks, network and every tile once in each cycle, in a fixed
order and without conditions; the fabric answers what it took. So: weak fairness of
a tile's tick and of the outside world (`TileDma`), of every tile's program, of its
retirements and of the network (`Barrier`, and likewise `BarrierElim` and `GemmPipeline`, whose
liveness is `EdgeMachine`'s to show), of every tile's instructions (`EdgeMachine`;
`Golden.run` sweeps over all tiles), of the turn (`RingNoC`), of the clock
(`RingRtl`, `NocTileSys`), of every tile, link, engine, controller and device
(`BankColumn`; the rotating start of the bank's round robin gives every link its turn). In `Exploration` it is the operating system that runs every
thread, and builds, gates and workloads end, by themselves or by their time-out; nothing is assumed
about kills. The one strong fairness is
in `RingNoC`, for `BusyTiles`: a tile's write port and engine are occupied by other
work only finitely often, because its program is finite, so a request that could be
taken again and again is taken.

### Findings

1. `compile.py:465` (run `edge_wide`): the row-major layer norm packs its strip at `LT` and
   writes the result at `LT+0x2000`. From `d_model` = 144 on, the strip is longer than
   that, and result and operand overlap; at 144 the overlap is harmless, from 160 on the stored
   blocks are wrong. The comment on the LOCAL map (lines 254-258) says that a strip of up to
   16 blocks never overlaps a temp and that `LT+0x2000` stays within its slot.
2. `numerics.py:46` and `src/common/f16.h:123` (run `half_float`): below the smallest normal half
   the significand is shifted by one bit less than the exponent requires, so that a
   subnormal result is stored twice as large. Both files promise IEEE rounding. Since
   reference, golden run and simulator share the formula, no comparison between
   them shows it. With a total of `13 + shift` the run passes.

### Known limits of the code

These follow from the source as modelled. The first three are in the passing runs, whose properties
say exactly when the code keeps its promise and that otherwise it does not.

* `tile_core.cpp:489`: the sequencer halts a tile that has run off its program before it looks at
  `sync_wait_seq_` (line 491). After a program that ends in LOAD_SHARED or STORE_SHARED the wait stays
  for ever, `idle()` never holds, and `Chip::run` reports a deadlock though no work is left;
  `tile_core.h:84` calls `idle()` "Fully drained: halted, no in-flight MXU/VPU/DMA work."
  `IdleUnlessCutOff` says that this happens after such a program, always, and after no other.
  Compiler and kernels end their programs in HALT.
* `ring_router.sv:63,74`: a node injects when the next register is empty. When all nodes do so in
  one direction in the same cycle, every register holds a flit that has to move on and none can, ever
  again, though lines 8-9 say "deadlock-free" (`rtl/README.md:42` knows of injection that is starved
  under such traffic, not of a ring that stops). The `Full` pattern of `MCRingRtl` gets there:
  `~StandsStill(d, v)` is no invariant of `ring_rtl`. `EveryFlitArrives` says that nothing else keeps
  a flit from arriving, and `StandstillIsForEver` of `RtlProofs` that the ring never recovers.
* `tile_node.sv:67`: when the routers of both directions eject a write in the same cycle, the
  clockwise one is written and the other is gone (the comment calls it rare), though
  `noc_tile_sys.sv:2-3` says that any tile can push to any other. The `BothWays` program of
  `MCNocTileSys` gets there: `overruled = {}` is no invariant of `noc_tile_sys`. `LostOnlyInCollisions` says that lines
  are lost in no other way, `PushesComplete` that those are lost for good.
* `tile_core.cpp:617,638`: the capacity of the join table (`max_live_tags`,
  `cycle_config.h:105`) is tested only where a token arrives; a tile's own releases and
  ACQUIREs insert entries beyond it. `NoOverflow` is about the test that exists.
* `compile.py:542`, `model.py:198`: with a full mask and a sliding window the reference
  applies the window and the compiled program does not. With `WindowConfigs` of `MCEdge`
  `StoredIsReference` is violated; the passing run leaves the combination out.
* `evaluate.py:123`, `matrix.py`: caches are written in place. After a kill in between
  `json.load` raises in every later search that meets the file, and `evaluate_matrix` turns that into
  a cached "invalid". `evaluate.py:98,108`: a process that is
  killed between opening the marker and writing it leaves an empty one, which counts as
  a failure from then on, and one that is read in between counts as a failure once.
* `evaluate.py:147`: two processes that evaluate the same configuration share its
  directory and can spoil each other's inputs; `AloneIsExact` is about searches that are alone.

## 4. Proofs

TLAPS checks the following for all values of the constants that satisfy the named
assumptions; TLC evaluates the assumptions in the runs.

**TileDmaProofs**, from `ProgramsAssumption` (any set of instruction sequences) and
`ConfigAssumption` (queue depth, burst, cap, ports positive). The invariant `IInv` is
type correctness together with: the sequencer waits only for an existing descriptor;
the descriptors in the queue are the newest ones, in order (`QueueInv`); a descriptor
is fully generated exactly if the engine is past it, and one that is done has nothing
outstanding (`FlagsInv`); each `outstanding`, and `inflight`, counts the chunks in `req`
and `resp` (`CountInv`); a chunk that was generated is on its way, answered or landed
(`ChunkInv`); `NewestAreLive`; `RetiredHaveLanded`. None of the last two is inductive
alone: a retirement is safe because a descriptor with zero outstanding that is past the
engine has no chunk on its way, which takes the counts and the chunks' whereabouts.
From it: `RetirementIsSafe`, `NoUnexpectedAnswer`, `InflightCorrect`, the action properties
`FencesDrain` and `SyncTransfersBlock`, and `Refinement` (`Spec` implies `DmaOrder`'s).
`DrainedTilesAreIdle` is about all programs, those of `tile_core.cpp:489` included: a drained tile is idle if and only if
its program did not end in a synchronous transfer. It takes `WaitInv`: the sequencer waits only for the
synchronous transfer it has issued last, when it has halted that was the last instruction, and then it waits for ever.

**BarrierProofs**, from `BarrierAssumption` (tiles `0..N-1`, two tags per barrier). The
invariant adds to the types what each tile's place implies for the counters: `LocalInv`
(who is where, relative to tile 0), `UpInv` and `DownInv` (the tokens of every tag
that exist are those released and not consumed). From it: `BarrierSeparates`,
`TagsAreSpent`, `Refinement`. A second invariant over it, `TableInv`, says which tags a
join table may hold: tile 0 has `Down(r)` only after its join of `Up(r)`, no other tile has
`Up(r)`. So a token that finds its tag missing finds two missing, and a table of one entry
less than the program has tags never overflows: `TablesSuffice`.

**CompilerProofs** has two parts. *Barrier elimination*, from `ElimAssumption`. The invariant: phases of primitives grow by
at most one (`PhasesGrow`), the compiler's sets are exactly what the current phase touched
(`TouchedIsExact`), so conflicting primitives have different phases (`ConflictsSeparated`) and
there is a barrier before a primitive exactly if it is called for (`BarriersAreExact`): by the mode, or by a
conflict with a primitive of the phase; the tiles are between the right primitives
(`NotStarted`, `Position`) and no tile is a barrier ahead of one that has not arrived
(`NoTileAhead`). From it: `Serial`, `BarriersExact`, `ImageIsComplete`.

*Compiled programs.* `EdgeMachine` is about programs that `Compile` computes, an object without an
induction the provers could follow. What is proved is that the runs need not be looked at: for
programs of any length on any number of tiles, conditions that can be read off the programs decide what
happens in every order in which the tiles take turns. TLC evaluates the conditions for the eight programs
of `edge` (`ProgramsAreCorrect` in `MCBarrierElim`; it stands there so that mutations of the compiler
are caught in the runs of `MCEdge` by their properties).

* `NothingMet`, from `AllScheduled`: programs end in their only `halt`, an acquire takes all releases of its
  tag, what conflicts in a tile has a fence (that keeps few enough transfers) or a WAIT_MXU in between, and
  conflicting transfers of two tiles are ordered by a fence, a release and an acquire, possibly relayed by
  a third tile. The invariant `OrderInv`: every descriptor in `moving` is a transfer no fence has waited for, with
  as many transfers after it as stand behind it (`TransfersKnown`); likewise `pending` (`ResultsKnown`); no
  join counter is above what has been released (`TokensKnown`); and a tile that has passed an acquire was
  released by everyone (`Heard`). The last needs the counters: they can only reach the
  arity when all the releases have issued.
* `OperandsWritten`, from `AllDefined` as well: every region an instruction reads was written before as a whole, with
  no write touching it since, and every DRAM block that is loaded is in the image or stored by an instruction that
  issues before. The invariant `ValueInv`: such regions are in LOCAL (`Present`), sums of products where the MXU wrote
  last (`Sums`), nothing else is (`Real`), and DRAM has what was stored. In the wide model of
  finding 1 the program is `Scheduled` but not `Defined`.
* `ReferenceStored`, from `AllEvaluate` as well: there is an assignment `V` of values to what instructions write
  that is right instruction by instruction (`Evaluates`) and stores the reference's blocks
  (`AsReference`). For a load that means: of the stores to its address, every one that may have issued has the value
  of `V` or issues before one that has certainly issued (`Stands`). The invariant `AgreeInv`: LOCAL holds what `V` says
  (`LocalAgrees`), and DRAM what an issued store wrote that no other issued store follows (`DramAgrees`). So all orders
  give the result of one, `OneOrder`, which TLC computes to find `V`.

**RingNoCProofs**, from `RingAssumption` and `DepthAssumption` (a buffer holds more flits than
a hop takes cycles: 4 and 1 in the code's defaults). A node gives a flit to its link only
after it looked at its own buffer, and flits that arrived lately are not visible: they came
one a cycle (`AllSpaced`) and none in this cycle before the node's turn (`LinksUnused`), so
a full buffer has a visible head, and a node with such a head that is to move on moves it
rather than inject. Hence injection never takes the last free slot of a direction:
`RingNeverWedges`.

The second invariant, `Delivery`, is about what the queues hold. It looks at the queues of a channel as
one family (`Line`), and at a step as few operations on a family: a flit moves from the front of one queue
to the end of another, the front of a queue leaves, a flit joins. `EachOnce`: no flit is in two places.
`Underway`: a request waits at its source, is on the one way `ring_direction` chose, nearer to its
destination than its source, or has left the ring there (`Routed`); of two requests of a tile to another
the earlier one has fewer hops to go or is in front in the same queue (`InLine`). A request that joins at
its source is behind all others because every place on its route has a lower rank. `NothingLost` counts
each request as queued, answered, or on its way back; `InOrder` follows since the one that is consumed has
rank zero and nothing before it. From it: `NoneIsLost`, `ServedInOrder`.

**GemmPipelineProofs**, from `PipelineAssumption` (any number of blocks, K-steps and from 2 to 8 slots),
over the order contract of `DmaOrder`. `Layout` lists the descriptors: those of earlier blocks with their
stores, then the operands of the current block in issue order. `Progress` says how many of them the last
fence made sure of, `Operands` that one that has landed stays in its slot until its product is issued
(the next descriptor for that slot comes after the product, and moves data later still), `Sums` and
`Results` what accumulator, staging buffer and LOCAL hold, `Moves` what each transfer carried. So every
block stored is the sum of its own products in order: `StoredAreProducts`, with prefetch and without.

**BankColumnProofs**, from `ColumnAssumption` (queues and limits positive, programs that await only
commands they have given, SRAM and DRAM cells distinct), for any tiles, links, cells and programs, in three layers.
`Counted`: types; every request is held in exactly one place from its issue to its answer (`Held`),
and `outstanding` of the running prefetch is the number of its chunks in flight, each there once
(`Chunks`), so that the exception for an unexpected answer is never raised. `Ordered`: what a program puts before a request, its
stores to the cell and the commands it awaited, stays ahead of it on the link, in the column, at the
engine and in the DRAM controller. `Made`: a read has seen all earlier stores of its tile to its cell, the NMC result and the
delivered chunks are made of everything required, and every answer on its way is true. From them:
`EveryRequestHeldOnce`, `IdleMeansAnswered`, `NeverThrown`, `AnswersTrue`.

**RtlProofs** is about both `RingRtl` and `NocTileSys`, over the same lemmas on `RingRouters`.
For the ring, from `NodesAssumption` and `PlansAssumption` (at least two nodes, any traffic). A flit in a register is
one that the ring took, on its channel and in its direction, no further than its destination
(`OnItsWay`), in one register only (`InOnePlace`); one that was received is in none (`Arrived`); every flit taken is
in a register or received (`NoneLost`); of two flits of a sender to a tile the earlier is further on
(`InLine`). From it: `EveryFlitExactlyOnce`, `NoneOvertakes`. `StandstillIsForEver`
is about the ring that has filled up: once a direction of a channel is full of flits that have to move on, no step
changes it.

For the tiles on the ring, from `SystemAssumption` (any pushes, an SRAM of any size, any range of the line
counter), `LinesArriveWhole` says that in programs that are `Apart` (no line of an SRAM is
written twice, or both sent and written) no line is changed, and one that was sent is on the ring, written, or was
overruled by another line from the other side that was written in its place: lines may come from both
directions, and `tile_node.sv:67` is the only place where one is lost. The programs that TLC
runs are `Apart` (`ProgramsAreApart`). `SysInv` adds to the types that an
engine's counters point to the line it sends next, around the ends of the SRAM and of the counter, and that what it
has read is what that line held at the start (`Engines`); that a flit in a register is such a line, on the
request channel and in its direction (`WordsInRing`), so that the ingress hears all that is ejected
clockwise, and all else that meets nothing (`Heard`); that no line to be sent has changed (`SourcesKept`);
and that what overruled a flit was a line from clockwise that is in the SRAM since (`ClockwiseLands`,
`OverruledStays`).

**ExplorationProofs**, from `ConstantAssumption` (thread names are distinct, the baseline is
feasible, scenes are assignments of searches to processes), for any number of processes,
configurations, anchors and kills. The invariant: a stamp means a whole build
(`StampIsTrue`), PASS means a sound variant (`PassIsSound`), a number in a cache or in what
was recorded belongs to a sound variant (`CacheIsSound`, `ObservedIsSound`); a thread inside
`build_variant` or `_validate` holds that variant's lock, one past the build has the stamp and
the marker of one that judges is torn (`BuildOk`, `JudgeOk`); a thread that runs or answers
with a number has a sound variant (`ResultOk`). The aggregate of the anchors needs more: an
anchor's thread never ends with "invalid", since its configuration is feasible and what goes
wrong there is raised (`AnchorOk`), and the pool that a main thread waits for has its
configuration (`PoolOk`); so, with at least one anchor, a combined number is one of a sound
variant. A kill frees the locks of the process and takes its threads out of all these places
at once. From it: `NoCyclesOfUnsound`, `BuiltBeforeUse`, and the action property `VerdictsStay`.
A second invariant, `AInv`, is about a search that has the files for itself: no two of its threads work on the same
configuration, so none runs in another's directory, across kills and restarts: `AloneExact`.

Types are part of every invariant.

Only model-checked: `HalfFloat`; that the programs `Compile` computes satisfy the hypotheses of
`CompilerProofs`, which is evaluated for the listed configurations and not shown for all; all liveness
(`EventuallyIdle`, `EveryTilePasses`,
`EveryTileHalts`, `EveryRequestAnswered`, `AllAnswered`, `EveryFlitArrives`, `PushesComplete`,
`EverySearchEnds`). Liveness under fairness and ENABLED are beyond the prover, as
are inductions that need an operator as a parameter; no module uses RECURSIVE operators.

## 5. Not modelled

* Arithmetic of the kernels (exponentials, division, the sums inside norms and softmax), of the
  packed integer formats and of the RTL units: it keeps no state, and test benches compare
  it with references bit by bit.
* Statistics, reports, plots, the trace file parser, configuration parsing, the generation
  of random weights, the choice of an optimiser, synthesis and place-and-route scripts, the generators
  of SRAM macros and layout pictures: sequences of file and tool operations without a
  protocol.
* `GridNoC`, compiled only for the topology variants: on a torus its wrap links can
  form a cycle of full buffers. The deadlock window of `Chip::run`, which does not count
  progress of banks and DRAM; `compute_uses_sram_ports`; `noc.buffer_depth`, which is not checked
  against `noc.hop_latency` (`DepthAssumption` of `RingNoC` is what it would have to satisfy).
* The refresh plug-in and the timing of the DRAM device: external, taken as any order and
  any time. Several columns behind one DRAM controller.
* The kernels of `src/workload`, the milestone-1 model, the RTL's join counters, banks,
  prefetch and NMC engines: the same protocols in older or other form.
* `gen_variant.py --force`, which rebuilds under a lock but ignores who uses the build; no
  search passes it. Children that outlive a killed search.

What would come next: the hand-placed releases and acquires of the kernels over `JoinSync`;
`GridNoC` on the pattern of `RingNoC`; and the RTL engines at their counter widths.
