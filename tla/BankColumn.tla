----------------------------- MODULE BankColumn -----------------------------
(***************************************************************************)
(* One group's memory column: the bank controller on the buffer die        *)
(* (BankCtrl in src/cycle/fabric.cpp), with its near-memory and prefetch   *)
(* engines, and the DRAM controller above it (src/cycle/dram_ctrl.cpp).    *)
(*                                                                         *)
(* Each action is one turn of a loop of BankCtrl::tick or DramCtrl::tick;  *)
(* the loops' widths, the round-robin starts, the SRAM port limit and the  *)
(* latency stamps only decide when a turn is taken, and are left open.     *)
(*                                                                         *)
(* A cell of memory holds what made it: the set of the requests whose      *)
(* data it has received, directly or through a copy.                       *)
(***************************************************************************)
EXTENDS Integers, Sequences, FiniteSets, SequencesExt, TLC

CONSTANTS
  Links,         \* tiles of the group, one up-link and one down-link each
  Requesters,    \* tiles that use the bank, those of other groups included
  Link,          \* Link[t]: own tile, or the gateway tile of a far one
  Dram, Sram,    \* cells of the DRAM, cells of the bank
  Programs,      \* possible programs: functions from Requesters to requests
  LinkDepth,     \* vbond_queue_depth
  ColDepth,      \* dram_col_queue_depth
  PendingDepth,  \* dram_ctrl_queue_depth
  CmdDepth,      \* nmc_queue_depth
  MaxInflight,   \* dma_max_inflight_chunks
  Lines          \* device transactions of a flit (64 B / dram_txn_bytes)

Cells == Dram \cup Sram

\* A request reads the cells "from" and writes the cells "to".  AWAIT is the
\* tile waiting for its request number "of" (a fence, or an ACQUIRE).  Tiles
\* of other groups reach the DRAM through their own column.
Ops == {"READ_REQ", "DATA_WRITE", "PREFETCH", "REDUCE"}

ASSUME ColumnAssumption ==
  /\ Dram \cap Sram = {}
  /\ \A t \in Requesters : Link[t] \in Links
  /\ {LinkDepth, ColDepth, PendingDepth, CmdDepth, MaxInflight, Lines} \subseteq Nat \ {0}
  /\ \A p \in Programs, t \in Requesters : p[t] \in Seq(ToSet(p[t]))
  /\ \A p \in Programs, t \in Requesters : \A i \in DOMAIN p[t] :
       LET r == p[t][i] IN
         \/ r.op = "AWAIT" /\ r.of \in 1 .. i - 1
         \/ /\ r.op = "READ_REQ" /\ r.from \in Seq(Cells) /\ Len(r.from) = 1
            /\ r.from[1] \in Dram => Link[t] = t
         \/ /\ r.op = "DATA_WRITE" /\ r.to \in Seq(Cells) /\ Len(r.to) = 1
            /\ r.to[1] \in Dram => Link[t] = t
         \/ /\ r.op = "PREFETCH" /\ r.from \in Seq(Dram) /\ r.to \in Seq(Sram)
            /\ Len(r.from) = Len(r.to) /\ r.from # <<>>
         \/ /\ r.op = "REDUCE" /\ r.from \in Seq(Sram) /\ r.to \in Seq(Sram)
            /\ Len(r.to) = 1

VARIABLES
  prog, pc,      \* the tiles' programs and places in them
  got,           \* got[t]: the answers tile t has received
  up, down,      \* vup_tile_bank, vdown_bank_tile, by link
  toDram,        \* vup_bank_dram of the column
  fromDram,      \* vdown_dram_bank of the column
  mem,           \* what the cells hold
  nmcQ, nmc,     \* nmc_q_ and the running command
  pfQ, pf,       \* pf_q_ and the running prefetch
  pending,       \* DramCtrl::pending_: flits with the next line to issue
  device,        \* flits the device works on, lines it has and lines left
  out,           \* DramCtrl::out_ of the column
  thrown         \* an exception unwound Chip::run

tileVars == <<prog, pc, got>>
bankVars == <<nmcQ, nmc, pfQ, pf>>
dramVars == <<pending, device, out>>
vars == <<tileVars, up, down, toDram, fromDram, mem, bankVars, dramVars, thrown>>

\* chunk 0 is the request or its answer, a chunk above is one of a prefetch.
Flit(id, chunk, data) == [id |-> id, chunk |-> chunk, data |-> data]
to_bank(f) == f.chunk > 0
Req(id) == prog[id[1]][id[2]]

None == <<>>

Init ==
  /\ prog \in Programs
  /\ pc = [t \in Requesters |-> 1]
  /\ got = [t \in Requesters |-> {}]
  /\ up = [l \in Links |-> <<>>] /\ down = [l \in Links |-> <<>>]
  /\ toDram = <<>> /\ fromDram = <<>>
  /\ mem = [c \in Cells |-> {}]
  /\ nmcQ = <<>> /\ nmc = [id |-> None, staged |-> {}]
  /\ pfQ = <<>> /\ pf = [id |-> None, next |-> 1, outstanding |-> 0]
  /\ pending = <<>> /\ device = {} /\ out = <<>>
  /\ thrown = FALSE

-----------------------------------------------------------------------------
(* The tiles.                                                              *)

\* The tile (or the ring, for a far one) puts a request on the up-link.
Inject(t) ==
  /\ pc[t] <= Len(prog[t])
  /\ prog[t][pc[t]].op \in Ops
  /\ Len(up[Link[t]]) < LinkDepth
  /\ up' = [up EXCEPT ![Link[t]] = Append(@, Flit(<<t, pc[t]>>, 0, {}))]
  /\ pc' = [pc EXCEPT ![t] = @ + 1]
  /\ UNCHANGED <<prog, got, down, toDram, fromDram, mem, bankVars, dramVars, thrown>>

Await(t) ==
  /\ pc[t] <= Len(prog[t])
  /\ prog[t][pc[t]].op = "AWAIT"
  /\ \E a \in got[t] : a.id = <<t, prog[t][pc[t]].of>>
  /\ pc' = [pc EXCEPT ![t] = @ + 1]
  /\ UNCHANGED <<prog, got, up, down, toDram, fromDram, mem, bankVars, dramVars, thrown>>

\* The tile takes an answer off its down-link, or sends it on to a far tile.
Receive(l) ==
  /\ down[l] # <<>>
  /\ LET a == Head(down[l]) IN got' = [got EXCEPT ![a.id[1]] = @ \cup {a}]
  /\ down' = [down EXCEPT ![l] = Tail(@)]
  /\ UNCHANGED <<prog, pc, up, toDram, fromDram, mem, bankVars, dramVars, thrown>>

-----------------------------------------------------------------------------
(* The bank controller.                                                    *)

CanSendDown(id) == Len(down[Link[id[1]]]) < LinkDepth
SendDown(f) == down' = [down EXCEPT ![Link[f.id[1]]] = Append(@, f)]

Write(c, data) == mem' = [mem EXCEPT ![c] = @ \cup data]

\* prefetch_data
PrefetchData(f) ==
  /\ Write(Req(f.id).to[f.chunk], f.data \cup {f.id})
  /\ IF pf.outstanding = 0
     THEN thrown' = TRUE /\ UNCHANGED pf
     ELSE pf' = [pf EXCEPT !.outstanding = @ - 1] /\ UNCHANGED thrown

\* 1. The column downstream: chunks of a prefetch end in the bank, answers go
\* on to their tile.
Absorb ==
  /\ fromDram # <<>>
  /\ LET f == Head(fromDram) IN
       IF to_bank(f)
       THEN PrefetchData(f) /\ UNCHANGED down
       ELSE CanSendDown(f.id) /\ SendDown(f) /\ UNCHANGED <<mem, pf, thrown>>
  /\ fromDram' = Tail(fromDram)
  /\ UNCHANGED <<tileVars, up, toDram, nmcQ, nmc, pfQ, dramVars>>

\* 2. The head of an up-link: DRAM traffic passes through, commands queue up,
\* the rest is served and answered at once.
PassThrough(f) ==
  /\ Len(toDram) < ColDepth
  /\ toDram' = Append(toDram, f)
  /\ UNCHANGED <<down, mem, nmcQ, pfQ>>

QueueCommand(f) ==
  /\ IF Req(f.id).op = "PREFETCH"
     THEN /\ Len(pfQ) < CmdDepth
          /\ pfQ' = Append(pfQ, f.id)
          /\ UNCHANGED nmcQ
     ELSE /\ Len(nmcQ) < CmdDepth
          /\ nmcQ' = Append(nmcQ, f.id)
          /\ UNCHANGED pfQ
  /\ UNCHANGED <<down, mem, toDram>>

Access(f) ==
  /\ CanSendDown(f.id)
  /\ IF Req(f.id).op = "DATA_WRITE"
     THEN SendDown(f) /\ Write(Req(f.id).to[1], {f.id})
     ELSE SendDown([f EXCEPT !.data = mem[Req(f.id).from[1]]]) /\ UNCHANGED mem
  /\ UNCHANGED <<toDram, nmcQ, pfQ>>

\* f->addr selects the segment; a command's is that of its bank region.
IsDram(r) ==
  CASE r.op = "READ_REQ" -> r.from[1] \in Dram
    [] r.op = "DATA_WRITE" -> r.to[1] \in Dram
    [] OTHER -> FALSE

Serve(l) ==
  /\ up[l] # <<>>
  /\ LET f == Head(up[l])
         r == Req(f.id)
     IN CASE IsDram(r) -> PassThrough(f)
          [] r.op \in {"PREFETCH", "REDUCE"} -> QueueCommand(f)
          [] OTHER -> Access(f)
  /\ up' = [up EXCEPT ![l] = Tail(@)]
  /\ UNCHANGED <<tileVars, fromDram, nmc, pf, dramVars, thrown>>

\* nmc_start reads its operands when it starts ...
NmcStart ==
  /\ nmc.id = None /\ nmcQ # <<>>
  /\ LET id == Head(nmcQ)
     IN nmc' = [id |-> id,
                staged |-> {id} \cup UNION {mem[c] : c \in ToSet(Req(id).from)}]
  /\ nmcQ' = Tail(nmcQ)
  /\ UNCHANGED <<tileVars, up, down, toDram, fromDram, mem, pfQ, pf, dramVars, thrown>>

\* Faulty: the engine is free again although its token has not left; or the
\* token is not tried again.
NmcFinishUnsent ==
  /\ nmc.id # None
  /\ Write(Req(nmc.id).to[1], nmc.staged)
  /\ IF CanSendDown(nmc.id) THEN SendDown(Flit(nmc.id, 0, {})) ELSE UNCHANGED down
  /\ nmc' = [id |-> None, staged |-> {}]
  /\ UNCHANGED <<tileVars, up, toDram, fromDram, nmcQ, pfQ, pf, dramVars, thrown>>
NmcFinishOnce ==
  /\ nmc.id # None /\ nmc.staged # {}
  /\ Write(Req(nmc.id).to[1], nmc.staged)
  /\ IF CanSendDown(nmc.id)
     THEN SendDown(Flit(nmc.id, 0, {})) /\ nmc' = [id |-> None, staged |-> {}]
     ELSE nmc' = [nmc EXCEPT !.staged = {}] /\ UNCHANGED down
  /\ UNCHANGED <<tileVars, up, toDram, fromDram, nmcQ, pfQ, pf, dramVars, thrown>>

\* ... and when its time is up commits the result once, and sends the token
\* as soon as there is room.
NmcFinish ==
  /\ nmc.id # None
  /\ IF nmc.staged # {} THEN Write(Req(nmc.id).to[1], nmc.staged) ELSE UNCHANGED mem
  /\ IF CanSendDown(nmc.id)
     THEN /\ SendDown(Flit(nmc.id, 0, {}))
          /\ nmc' = [id |-> None, staged |-> {}]
     ELSE /\ nmc.staged # {}
          /\ nmc' = [nmc EXCEPT !.staged = {}]
          /\ UNCHANGED down
  /\ UNCHANGED <<tileVars, up, toDram, fromDram, nmcQ, pfQ, pf, dramVars, thrown>>

pf_gen_done == pf.next > Len(Req(pf.id).from)

PrefetchStart ==
  /\ pf.id = None /\ pfQ # <<>>
  /\ pf' = [pf EXCEPT !.id = Head(pfQ), !.next = 1]
  /\ pfQ' = Tail(pfQ)
  /\ UNCHANGED <<tileVars, up, down, toDram, fromDram, mem, nmcQ, nmc, dramVars, thrown>>

PrefetchGenerate ==
  /\ pf.id # None /\ ~pf_gen_done
  /\ pf.outstanding < MaxInflight
  /\ Len(toDram) < ColDepth
  /\ toDram' = Append(toDram, Flit(pf.id, pf.next, {}))
  /\ pf' = [pf EXCEPT !.next = @ + 1, !.outstanding = @ + 1]
  /\ UNCHANGED <<tileVars, up, down, fromDram, mem, nmcQ, nmc, pfQ, dramVars, thrown>>

\* Faulty: the token leaves when everything has been asked for.
PrefetchFinishEarly ==
  /\ pf.id # None /\ pf_gen_done
  /\ CanSendDown(pf.id)
  /\ SendDown(Flit(pf.id, 0, {}))
  /\ pf' = [pf EXCEPT !.id = None]
  /\ UNCHANGED <<tileVars, up, toDram, fromDram, mem, nmcQ, nmc, pfQ, dramVars, thrown>>

PrefetchFinish ==
  /\ pf.id # None /\ pf_gen_done
  /\ pf.outstanding = 0
  /\ CanSendDown(pf.id)
  /\ SendDown(Flit(pf.id, 0, {}))
  /\ pf' = [pf EXCEPT !.id = None]
  /\ UNCHANGED <<tileVars, up, toDram, fromDram, mem, nmcQ, nmc, pfQ, dramVars, thrown>>

-----------------------------------------------------------------------------
(* The DRAM controller.                                                    *)

Cell(f) ==
  IF to_bank(f) THEN Req(f.id).from[f.chunk]
  ELSE IF Req(f.id).op = "DATA_WRITE" THEN Req(f.id).to[1] ELSE Req(f.id).from[1]
is_write(f) == ~to_bank(f) /\ Req(f.id).op = "DATA_WRITE"

\* A write commits when the controller accepts it.
Ingest ==
  /\ toDram # <<>> /\ Len(pending) < PendingDepth
  /\ toDram' = Tail(toDram)
  /\ LET f == Head(toDram) IN
       /\ pending' = Append(pending, [flit |-> f, next_line |-> 0])
       /\ IF is_write(f) THEN Write(Cell(f), {f.id}) ELSE UNCHANGED mem
  /\ UNCHANGED <<tileVars, up, down, fromDram, bankVars, device, out, thrown>>

\* issue_one, accepted: the head's next line goes to the device.
Issue ==
  /\ pending # <<>>
  /\ LET p == Head(pending) IN
       /\ device' = IF p.next_line = 0
                    THEN device \cup {[flit |-> p.flit, lines |-> 1, remaining |-> Lines]}
                    ELSE {IF x.flit = p.flit THEN [x EXCEPT !.lines = @ + 1] ELSE x :
                            x \in device}
       /\ pending' = IF p.next_line + 1 = Lines THEN Tail(pending)
                     ELSE [pending EXCEPT ![1].next_line = @ + 1]
  /\ UNCHANGED <<tileVars, up, down, toDram, fromDram, mem, bankVars, out, thrown>>

\* The device finishes a line, of any flit; the last one completes the flit,
\* and a read takes its data then.
Callback(x) ==
  /\ x.lines > 0
  /\ IF x.remaining = 1
     THEN /\ device' = device \ {x}
          /\ out' = Append(out, IF is_write(x.flit) THEN x.flit
                                ELSE [x.flit EXCEPT !.data = mem[Cell(x.flit)]])
     ELSE /\ device' = (device \ {x})
                         \cup {[x EXCEPT !.lines = @ - 1, !.remaining = @ - 1]}
          /\ UNCHANGED out
  /\ UNCHANGED <<tileVars, up, down, toDram, fromDram, mem, bankVars, pending, thrown>>

Drain ==
  /\ out # <<>> /\ Len(fromDram) < ColDepth
  /\ fromDram' = Append(fromDram, Head(out))
  /\ out' = Tail(out)
  /\ UNCHANGED <<tileVars, up, down, toDram, mem, bankVars, pending, device, thrown>>

-----------------------------------------------------------------------------
Tile(t) == ~thrown /\ (Inject(t) \/ Await(t))
Ingress(l) == ~thrown /\ Receive(l)
Downstream == ~thrown /\ Absorb
UpLink(l) == ~thrown /\ Serve(l)
Nmc == ~thrown /\ (NmcStart \/ NmcFinish)
Prefetch == ~thrown /\ (PrefetchStart \/ PrefetchGenerate \/ PrefetchFinish)
Controller == ~thrown /\ Ingest
Port == ~thrown /\ Issue
Device == ~thrown /\ \E x \in device : Callback(x)
Response == ~thrown /\ Drain

Next ==
  \/ \E t \in Requesters : Tile(t)
  \/ \E l \in Links : Ingress(l) \/ UpLink(l)
  \/ Downstream \/ Nmc \/ Prefetch \/ Controller \/ Port \/ Device \/ Response

\* Chip::run ticks every component in every cycle, the NMC time is finite,
\* and the device accepts and finishes what it is given.
Fairness ==
  /\ \A t \in Requesters : WF_vars(Tile(t))
  /\ \A l \in Links : WF_vars(Ingress(l)) /\ WF_vars(UpLink(l))
  /\ WF_vars(Downstream) /\ WF_vars(Nmc) /\ WF_vars(Prefetch)
  /\ WF_vars(Controller) /\ WF_vars(Port) /\ WF_vars(Device) /\ WF_vars(Response)

Spec == Init /\ [][Next]_vars /\ Fairness

-----------------------------------------------------------------------------
(* Where requests and chunks are.                                          *)

Issued == UNION {{<<t, i>> : i \in {j \in 1 .. pc[t] - 1 : prog[t][j].op \in Ops}} :
                   t \in Requesters}

IsRequest(f, id) == f.id = id /\ ~to_bank(f)
Occurs(q, id) == Cardinality({i \in DOMAIN q : IsRequest(q[i], id)})
Queued(q, id) == Cardinality({i \in DOMAIN q : q[i] = id})
Running(engine, id) == IF engine.id = id THEN 1 ELSE 0

\* Of the flits that the DRAM controller splits up, one that was issued in
\* part is with the device.
Holders(id) ==
  LET l == Link[id[1]] IN
  Occurs(up[l], id) + Occurs(down[l], id) + Cardinality({a \in got[id[1]] : a.id = id})
    + Queued(nmcQ, id) + Queued(pfQ, id) + Running(nmc, id) + Running(pf, id)
    + Occurs(toDram, id) + Occurs(fromDram, id) + Occurs(out, id)
    + Cardinality({i \in DOMAIN pending :
                     pending[i].next_line = 0 /\ IsRequest(pending[i].flit, id)})
    + Cardinality({x \in device : IsRequest(x.flit, id)})

Answers ==
  (UNION {got[t] : t \in Requesters}) \cup (UNION {ToSet(down[l]) : l \in Links})

\* What the program of the requester orders before request id: its stores,
\* and the commands whose token it has awaited.
Before(id) ==
  LET p == prog[id[1]]
  IN {<<id[1], j>> : j \in {k \in 1 .. id[2] - 1 :
        \/ p[k].op = "DATA_WRITE"
        \/ p[k].op \in {"PREFETCH", "REDUCE"}
             /\ \E w \in k + 1 .. id[2] - 1 : p[w].op = "AWAIT" /\ p[w].of = k}}

\* The writes to c that id has to see.
Prior(id, c) == {w \in Before(id) : c \in ToSet(Req(w).to)}

Required(id) == UNION {Prior(id, c) : c \in ToSet(Req(id).from)}

-----------------------------------------------------------------------------
RequestType(id) == id[1] \in Requesters /\ id[2] \in DOMAIN prog[id[1]]

TypeOK ==
  /\ \A t \in Requesters : pc[t] \in 1 .. Len(prog[t]) + 1
  /\ \A l \in Links : Len(up[l]) <= LinkDepth /\ Len(down[l]) <= LinkDepth
  /\ Len(toDram) <= ColDepth /\ Len(fromDram) <= ColDepth
  /\ Len(pending) <= PendingDepth /\ Len(nmcQ) <= CmdDepth /\ Len(pfQ) <= CmdDepth
  /\ pf.outstanding \in 0 .. MaxInflight
  /\ pf.id # None => pf.next \in 1 .. Len(Req(pf.id).from) + 1
  /\ \A x \in device : x.lines \in 0 .. x.remaining /\ x.remaining \in 1 .. Lines
  /\ \A c \in Cells : \A id \in mem[c] : RequestType(id)

\* Every request that was issued is in one place, as itself, as a command or
\* as its answer, and in no other: none is lost in a full queue, answered
\* twice or left behind by an engine.
HeldOnce == \A id \in Issued : Holders(id) = 1

\* An answer comes after its effect.  A store is in memory when it is
\* acknowledged; a load has seen every earlier store of its tile to that
\* cell, acknowledged or not; a token says that the result is in the bank
\* and was made of everything the program puts before the command.
AnswersAreTrue ==
  \A a \in Answers :
    LET r == Req(a.id) IN
      CASE r.op = "DATA_WRITE" -> a.id \in mem[r.to[1]]
        [] r.op = "READ_REQ" -> Required(a.id) \subseteq a.data
        [] r.op = "REDUCE" -> {a.id} \cup Required(a.id) \subseteq mem[r.to[1]]
        [] r.op = "PREFETCH" ->
             \A k \in DOMAIN r.to : {a.id} \cup Prior(a.id, r.from[k]) \subseteq mem[r.to[k]]

\* idle() of the bank and of the controller, and fabric_empty().  Faulty: the
\* controller forgets what the device works on.
IdleSansDevice ==
  /\ nmcQ = <<>> /\ nmc.id = None /\ pfQ = <<>> /\ pf.id = None
  /\ out = <<>> /\ pending = <<>>
  /\ \A l \in Links : up[l] = <<>> /\ down[l] = <<>>
  /\ toDram = <<>> /\ fromDram = <<>>
Idle ==
  /\ nmcQ = <<>> /\ nmc.id = None /\ pfQ = <<>> /\ pf.id = None
  /\ out = <<>> /\ pending = <<>> /\ device = {}
  /\ \A l \in Links : up[l] = <<>> /\ down[l] = <<>>
  /\ toDram = <<>> /\ fromDram = <<>>

\* When Chip::all_done finds them idle, every request has had its answer.
IdleIsAnswered == Idle => \A id \in Issued : \E a \in got[id[1]] : a.id = id

\* Every program gets to its end, and every request is answered.
AllAnswered ==
  <>[](Idle /\ \A t \in Requesters : pc[t] > Len(prog[t]))
=============================================================================
