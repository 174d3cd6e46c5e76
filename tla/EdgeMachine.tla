------------------------------ MODULE EdgeMachine ------------------------------
(***************************************************************************)
(* The tiles run a compiled program.                                       *)
(*                                                                         *)
(* Every instruction takes effect when it issues, as in the interpreter    *)
(* tools/edgc/edgc/golden.py, and the tiles take turns in any order; the   *)
(* sweeps of Golden.run are one of these orders.  On the chip a transfer   *)
(* takes effect at some time before a fence has waited for it, and an MXU  *)
(* result before WAIT_MXU has.  moving and pending keep what may still be  *)
(* under way, and Hazard says when an instruction would meet it, given     *)
(* what TileDma and BankColumn guarantee: the engine works descriptors off *)
(* in order, a store reads LOCAL and a copy copies when it is worked off,  *)
(* loads return in any order, and a tile's own stores to an address are    *)
(* seen by its later loads.  A program that meets no hazard computes on    *)
(* the chip what it computes here.                                         *)
(***************************************************************************)
EXTENDS EdgeProgram

CONSTANT Configs    \* the configurations to compile, a sequence

ASSUME ConfigAssumption == \A i \in DOMAIN Configs : Compilable(Configs[i])

VARIABLES
  cfg,      \* index of the configuration
  pc,       \* pc[t]
  local,    \* local[t]: the values in tile t's LOCAL, each with its lines
  dram,     \* what has been stored, by address
  cnt,      \* cnt[t][tag]: join counters
  moving,   \* moving[t]: descriptors issued and not known to be complete
  pending   \* pending[t]: blocks the MXU may still have to commit

machine_vars == <<cfg, pc, local, dram, cnt, moving, pending>>

c == Configs[cfg]
Programs == [i \in DOMAIN Configs |-> Compile(Configs[i])]
Program(t) == Programs[cfg][t]
TileIds == 0 .. c.tiles - 1

Names == [i \in DOMAIN Configs |-> NamesOf(Configs[i])]
Named(v) == NamedBy(Names[cfg], v)

MachineInit ==
  /\ cfg \in DOMAIN Configs
  /\ pc = [t \in TileIds |-> 1]
  /\ local = [t \in TileIds |-> {}]
  /\ dram = <<>>
  /\ cnt = [t \in TileIds |-> <<>>]
  /\ moving = [t \in TileIds |-> <<>>]
  /\ pending = [t \in TileIds |-> {}]

-----------------------------------------------------------------------------
(* Memory.  A region that has been overwritten in part holds nothing.      *)

Read(t, lines) ==
  IF \E w \in local[t] : w.lines = lines
  THEN (CHOOSE w \in local[t] : w.lines = lines).value
  ELSE Nothing

ReadDram(addr) == IF addr \in DOMAIN dram THEN dram[addr] ELSE Image(c, addr)

WriteAll(t, regions, Value(_)) ==
  LET lines == UNION {regions[j] : j \in DOMAIN regions} IN
  local' = [local EXCEPT ![t] =
              {w \in @ : w.lines \cap lines = {}}
                \cup {[lines |-> regions[j], value |-> Value(j)] : j \in DOMAIN regions}]

Write(t, lines, value) == WriteAll(t, <<lines>>, LAMBDA j : value)

-----------------------------------------------------------------------------
(* Instructions.                                                           *)

Next1(t) == Program(t)[pc[t]]
Issue(t) == pc' = [pc EXCEPT ![t] = @ + 1]

Transfer(t, in) ==
  /\ in.op \in {"load", "store", "copy"}
  /\ moving' = [moving EXCEPT ![t] = Append(@, in)]
  /\ IF in.op = "store"
     THEN /\ dram' = [a \in DOMAIN dram \cup {in.to} |->
                        IF a = in.to THEN Named(Read(t, in.from)) ELSE dram[a]]
          /\ UNCHANGED local
     ELSE /\ Write(t, in.to, IF in.op = "load" THEN ReadDram(in.from)
                                               ELSE Read(t, in.from))
          /\ UNCHANGED dram
  /\ UNCHANGED <<cnt, pending>>

\* The newest keep descriptors may still be under way.
DmaFence(t, in) ==
  /\ in.op = "fence"
  /\ moving' = [moving EXCEPT ![t] =
                  SubSeq(@, Max({1, Len(@) - in.keep + 1}), Len(@))]
  /\ UNCHANGED <<local, dram, cnt, pending>>

MxuIssue(t, in) ==
  /\ in.op = "mxu"
  /\ Write(t, in.to, MxuResult(in.acc, Read(t, in.a), Read(t, in.b), Read(t, in.to)))
  /\ pending' = [pending EXCEPT ![t] = @ \cup {in.to}]
  /\ UNCHANGED <<dram, cnt, moving>>

WaitMxuIssue(t, in) ==
  /\ in.op = "wait_mxu"
  /\ pending' = [pending EXCEPT ![t] = {}]
  /\ UNCHANGED <<local, dram, cnt, moving>>

VpuIssue(t, in) ==
  /\ in.op = "vpu"
  /\ LET v == [j \in DOMAIN in.in |-> Read(t, in.in[j])] IN
       WriteAll(t, in.out, LAMBDA j : VpuResult(in.f, v, in.arg, j))
  /\ UNCHANGED <<dram, cnt, moving, pending>>

Count(t, tag) == IF tag \in DOMAIN cnt[t] THEN cnt[t][tag] ELSE 0
SetCount(t, tag, n) ==
  cnt' = [cnt EXCEPT ![t] = [g \in DOMAIN @ \cup {tag} |->
                               IF g = tag THEN n ELSE @[g]]]

ReleaseIssue(t, in) ==
  /\ in.op = "release"
  /\ SetCount(in.consumer, in.tag, Count(in.consumer, in.tag) + 1)
  /\ UNCHANGED <<local, dram, moving, pending>>

AcquireIssue(t, in) ==
  /\ in.op = "acquire"
  /\ Count(t, in.tag) >= in.arity
  /\ SetCount(t, in.tag, Count(t, in.tag) - in.arity)
  /\ UNCHANGED <<local, dram, moving, pending>>

Halted(t) == Next1(t).op = "halt"

Execute(t) ==
  /\ ~Halted(t)
  /\ Issue(t)
  /\ LET in == Next1(t) IN
       \/ Transfer(t, in)
       \/ DmaFence(t, in)
       \/ MxuIssue(t, in)
       \/ WaitMxuIssue(t, in)
       \/ VpuIssue(t, in)
       \/ ReleaseIssue(t, in)
       \/ AcquireIssue(t, in)
  /\ UNCHANGED cfg

\* Once all tiles are done nothing happens any more.
MachineNext == \E t \in TileIds : Execute(t)

\* Every tile's clock ticks.
Clocked == 0 .. Max({Configs[i].tiles : i \in DOMAIN Configs}) - 1
MachineSpec ==
  /\ MachineInit /\ [][MachineNext]_machine_vars
  /\ \A t \in Clocked : WF_machine_vars(t \in TileIds /\ Execute(t))

-----------------------------------------------------------------------------
(* Properties.                                                             *)

(* No instruction meets a transfer or a result that is under way and       *)
(* touches what it touches, its own tile's or another's, and a tile halts  *)
(* with nothing under way: the fences, WAIT_MXU and barriers that          *)
(* Compiler emits (compile.py:241, 322-361, 431-449, 539-558) are enough.  *)
NoHazard ==
  \A t \in TileIds :
    LET in == Next1(t) IN
    /\ \A d \in Regions(moving[t]) : ~MeetsTransfer(d, in)
    /\ \A p \in pending[t] : ~MeetsResult(p, in)
    /\ \A u \in TileIds \ {t} : \A d \in Regions(moving[u]) : ~MeetsOther(d, in)
    /\ in.op = "halt" => moving[t] = <<>> /\ pending[t] = {}

(* Every operand is a value that was written as a whole: the slots of the  *)
(* LOCAL map and the temps inside them do not overlap while in use         *)
(* (compile.py:254-264), and no DRAM block is read before it is written.   *)
OperandsAreWhole ==
  \A t \in TileIds :
    LET in == Next1(t) IN
    /\ \A r \in LocalReads(in) : Read(t, r) # Nothing
    /\ in.op = "load" => ReadDram(in.from) # Nothing

ComputedBy == [i \in DOMAIN Configs |-> Computed(Configs[i])]

(* What the program stores is what the reference computes: every block is  *)
(* the same expression, with the same roundings and the same order of      *)
(* summation, and in the end the dump holds the model's output             *)
(* (edgc_cc.check_golden_vs_ref, model.py:157).                            *)
StoredIsReference ==
  /\ \A a \in DOMAIN dram : dram[a] \in ComputedBy[cfg]
  /\ (\A t \in TileIds : Halted(t)) =>
       \A r \in 0 .. c.rb - 1, k \in 0 .. c.heads - 1 :
         ReadDram(Dram(Output(c, r, k)[1], r, k)) = Output(c, r, k)[2]

(* Golden.run ends: it raises neither "golden deadlock" nor the step limit *)
(* (golden.py:130, 134).                                                   *)
EveryTileHalts == <>(\A t \in TileIds : Halted(t))
=============================================================================
