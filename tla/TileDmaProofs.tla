---------------------------- MODULE TileDmaProofs ---------------------------
(***************************************************************************)
(* Proofs about TileDma, for every set of programs and every value of the  *)
(* configuration.  IInv says where each chunk is: it has not been emitted  *)
(* yet, or it is under way and counted, or it has landed.                  *)
(***************************************************************************)
EXTENDS TileDma, FiniteSetTheorems, TLAPS

-----------------------------------------------------------------------------
(* The inductive invariant.                                                *)

\* The newest descriptor the engine has taken off its queue.
Edge == Len(descs) - Len(dma_q)

Under == req \cup resp
UnderOf(s) == {c \in Under : c[1] = s}

Emitted(s, i) ==
  /\ s <= Edge
  /\ ~(dma_active /\ s = Edge /\ i >= dma_cur.at)

\* dma_q holds the newest sequence numbers in order, the engine the one
\* before them, and none of these has been retired.
QueueInv ==
  /\ Edge \in Nat
  /\ \A i \in 1 .. Len(dma_q) : dma_q[i] = Edge + i
  /\ dma_active => /\ Edge >= 1 /\ dma_cur.seq = Edge
                   /\ dma_cur.at < descs[Edge].n
  /\ \A s \in DOMAIN descs :
       s > Edge \/ (dma_active /\ s = Edge) => s \in DOMAIN live

FlagsInv ==
  \A s \in DOMAIN live :
    /\ live[s].gen_done <=> s <= Edge /\ ~(dma_active /\ s = Edge)
    /\ live[s].done <=> live[s].gen_done /\ live[s].outstanding = 0

CountInv ==
  /\ IsFiniteSet(Under)
  /\ req \cap resp = {}
  /\ inflight = Cardinality(Under)
  /\ inflight <= MaxInflight
  /\ \A c \in Under : c[1] \in DOMAIN live
  /\ \A s \in DOMAIN live : live[s].outstanding = Cardinality(UnderOf(s))

ChunkInv ==
  /\ \A s \in DOMAIN descs : \A i \in Nat :
       <<s, i>> \in Under \cup landed <=> i < descs[s].n /\ Emitted(s, i)
  /\ \A c \in Under : Kind(c) \in {"push", "pull"}
  /\ \A c \in resp : Kind(c) = "push" => c \in landed

IInv ==
  /\ TypeOK
  /\ sync_wait <= Len(descs)
  /\ QueueInv
  /\ FlagsInv
  /\ CountInv
  /\ ChunkInv
  /\ NewestAreLive
  /\ RetiredHaveLanded

-----------------------------------------------------------------------------
(* What CheckDone does to the map of descriptors: it only removes finished *)
(* ones, from the old end, and changes nothing else but one done flag.     *)

Finished(L, s, u) ==
  L[u].done \/ (u = s /\ L[s].gen_done /\ L[s].outstanding = 0)

\* What CheckDone makes of the live descriptors: marks, and what it erases.
LEMMA CheckDoneSpec ==
  ASSUME NEW L, L \in [DOMAIN L -> DescState], DOMAIN L \subseteq Nat,
         NEW s \in DOMAIN L
  PROVE  /\ DOMAIN CheckDone(L, s) \subseteq DOMAIN L
         /\ CheckDone(L, s) \in [DOMAIN CheckDone(L, s) -> DescState]
         /\ \A u \in DOMAIN CheckDone(L, s) :
              /\ CheckDone(L, s)[u].outstanding = L[u].outstanding
              /\ CheckDone(L, s)[u].gen_done <=> L[u].gen_done
              /\ CheckDone(L, s)[u].done <=> Finished(L, s, u)
         /\ \A u \in DOMAIN L \ DOMAIN CheckDone(L, s) : Finished(L, s, u)
         /\ \A u \in DOMAIN CheckDone(L, s), v \in DOMAIN L :
              u <= v => v \in DOMAIN CheckDone(L, s)
<1>1. CASE ~(L[s].gen_done /\ L[s].outstanding = 0)
  <2>1. CheckDone(L, s) = L
    BY <1>1 DEF CheckDone
  <2> QED
    BY <1>1, <2>1 DEF Finished
<1>2. CASE L[s].gen_done /\ L[s].outstanding = 0
  <2> DEFINE M == [L EXCEPT ![s].done = TRUE]
             D == {u \in DOMAIN M : \E t \in DOMAIN M : t <= u /\ ~M[t].done}
  <2>1. /\ CheckDone(L, s) = [u \in D |-> M[u]]
        /\ DOMAIN M = DOMAIN L
    BY <1>2 DEF CheckDone, Retire
  <2>2. \A u \in DOMAIN L :
          /\ M[u] \in DescState
          /\ M[u].outstanding = L[u].outstanding
          /\ M[u].gen_done <=> L[u].gen_done
          /\ M[u].done <=> Finished(L, s, u)
    BY <1>2 DEF Finished, DescState
  <2> HIDE DEF M
  <2>3. D \subseteq DOMAIN L
    BY <2>1
  <2>4. \A u \in DOMAIN L \ D : M[u].done
    BY <2>1
  <2>5. \A u \in D, v \in DOMAIN L : u <= v => v \in D
    BY <2>1
  <2> HIDE DEF D
  <2>6. DOMAIN CheckDone(L, s) = D /\ \A u \in D : CheckDone(L, s)[u] = M[u]
    BY <2>1
  <2> QED
    BY <2>1, <2>2, <2>3, <2>4, <2>5, <2>6
<1> QED
  BY <1>1, <1>2

\* A count changes and nothing else.
LEMMA ExceptOutstanding ==
  ASSUME NEW L, L \in [DOMAIN L -> DescState], NEW s \in DOMAIN L, NEW n \in Nat
  PROVE  LET M == [L EXCEPT ![s].outstanding = n] IN
         /\ DOMAIN M = DOMAIN L
         /\ M \in [DOMAIN M -> DescState]
         /\ \A u \in DOMAIN L : u # s => M[u] = L[u]
         /\ M[s].outstanding = n
         /\ M[s].gen_done <=> L[s].gen_done
         /\ M[s].done <=> L[s].done
BY DEF DescState

\* A flag is set and nothing else.
LEMMA ExceptGenDone ==
  ASSUME NEW L, L \in [DOMAIN L -> DescState], NEW s \in DOMAIN L
  PROVE  LET M == [L EXCEPT ![s].gen_done = TRUE] IN
         /\ DOMAIN M = DOMAIN L
         /\ M \in [DOMAIN M -> DescState]
         /\ \A u \in DOMAIN L : u # s => M[u] = L[u]
         /\ M[s].outstanding = L[s].outstanding
         /\ M[s].gen_done
         /\ M[s].done <=> L[s].done
BY DEF DescState

-----------------------------------------------------------------------------
(* The initial state and the steps that leave descriptors, engine, fabric  *)
(* and chunks alone.                                                       *)

CoreTypes ==
  /\ descs \in Seq([kind : Kinds, n : Nat \ {0}])
  /\ dma_q \in Seq(Nat)
  /\ dma_active \in BOOLEAN
  /\ dma_cur \in [seq : Nat, at : Nat, setup : Nat]
  /\ DOMAIN live \subseteq DOMAIN descs
  /\ live \in [DOMAIN live -> DescState]
  /\ inflight \in Nat
  /\ req \in SUBSET ((DOMAIN descs) \X Nat)
  /\ resp \in SUBSET ((DOMAIN descs) \X Nat)
  /\ landed \in SUBSET ((DOMAIN descs) \X Nat)

OtherTypes ==
  /\ prog \in Programs
  /\ pc \in Nat \ {0}
  /\ halted \in BOOLEAN
  /\ sync_wait \in Nat /\ sync_wait <= Len(descs)
  /\ burst \in Nat
  /\ stage \in {"ingress", "remote", "engine", "emit", "seq"}
  /\ rd \in Nat /\ wr \in Nat /\ remote \in Nat

\* The fields of a descriptor.
LEMMA DescFields ==
  ASSUME CoreTypes, NEW s \in 1 .. Len(descs)
  PROVE  s \in DOMAIN descs /\ descs[s].kind \in Kinds /\ descs[s].n \in Nat \ {0}
<1> DEFINE D == [kind : Kinds, n : Nat \ {0}]
<1>1. descs \in Seq(D)
  BY DEF CoreTypes
<1>2. \A d \in D : d.kind \in Kinds /\ d.n \in Nat \ {0}
  OBVIOUS
<1> HIDE DEF D
<1>3. s \in DOMAIN descs /\ descs[s] \in D
  BY <1>1
<1> QED
  BY <1>2, <1>3

\* The types in two halves: the engine's, and the rest.
LEMMA TypesSplit == TypeOK /\ sync_wait <= Len(descs) <=> CoreTypes /\ OtherTypes
BY DEF TypeOK, CoreTypes, OtherTypes

\* The invariant holds at the start.
LEMMA InitInv == Init => IInv
<1> SUFFICES ASSUME Init PROVE IInv
  OBVIOUS
<1>0. descs = <<>> /\ dma_q = <<>> /\ Len(descs) = 0
  BY DEF Init
<1>1. OtherTypes
  <2>1. RdPorts \in Nat /\ WrPorts \in Nat /\ MaxRemote \in Nat
    BY ConfigAssumption
  <2>2. /\ prog \in Programs /\ pc = 1 /\ halted = FALSE /\ sync_wait = 0
        /\ burst = 0 /\ stage = "ingress"
        /\ rd = RdPorts /\ wr = WrPorts /\ remote = MaxRemote
    BY Zenon DEF Init
  <2>3. sync_wait \in Nat /\ sync_wait <= Len(descs)
    BY <1>0, <2>2
  <2>4. halted \in BOOLEAN
    BY Zenon, <2>2
  <2>5. /\ prog \in Programs /\ rd \in Nat /\ wr \in Nat /\ remote \in Nat
        /\ pc \in Nat \ {0} /\ burst \in Nat
        /\ stage \in {"ingress", "remote", "engine", "emit", "seq"}
    BY <2>1, <2>2
  <2> QED
    BY <2>3, <2>4, <2>5 DEF OtherTypes
<1>2. CoreTypes
  <2>1. live \in [DOMAIN live -> DescState] /\ DOMAIN live = {}
    <3>1. live = <<>>
      BY Zenon DEF Init
    <3>2. live \in Seq(DescState) /\ Len(live) = 0
      BY <3>1
    <3>3. live \in [1 .. Len(live) -> DescState] /\ DOMAIN live = 1 .. Len(live)
      BY <3>2
    <3> QED
      BY <3>2, <3>3
  <2>2. /\ descs \in Seq([kind : Kinds, n : Nat \ {0}])
        /\ dma_q \in Seq(Nat)
    BY <1>0
  <2>3. /\ dma_active \in BOOLEAN
        /\ dma_cur \in [seq : Nat, at : Nat, setup : Nat]
        /\ inflight \in Nat
        /\ req = {} /\ resp = {} /\ landed = {}
    BY DEF Init
  <2> QED
    BY <2>1, <2>2, <2>3 DEF CoreTypes
<1>3. QueueInv /\ FlagsInv /\ NewestAreLive /\ RetiredHaveLanded
  BY DEF Init, QueueInv, Edge, FlagsInv, NewestAreLive, RetiredHaveLanded
<1>4. CountInv
  <2>1. Under = {} /\ IsFiniteSet(Under) /\ Cardinality(Under) = 0
    BY FS_EmptySet DEF Init, Under
  <2> QED
    BY <2>1, ConfigAssumption DEF Init, CountInv
<1>5. ChunkInv
  BY DEF Init, ChunkInv, Under
<1> QED
  BY <1>1, <1>2, <1>3, <1>4, <1>5, TypesSplit DEF IInv

coreVars == <<descs, dma_q, dma_active, dma_cur, live, inflight, req, resp, landed>>

\* Steps that leave the engine's variables alone.
LEMMA CoreUnchanged ==
  ASSUME IInv, UNCHANGED coreVars, OtherTypes'
  PROVE  IInv'
<1> USE DEF coreVars
<1>1. QueueInv' /\ FlagsInv'
  BY DEF IInv, QueueInv, Edge, FlagsInv
<1>2. NewestAreLive' /\ RetiredHaveLanded'
  BY DEF IInv, NewestAreLive, RetiredHaveLanded, Chunks
<1>3. CountInv'
  BY DEF IInv, CountInv, Under, UnderOf
<1>4. ChunkInv'
  BY DEF IInv, ChunkInv, Under, Emitted, Edge, Kind
<1>5. CoreTypes'
  BY TypesSplit DEF IInv, CoreTypes
<1> QED
  BY <1>1, <1>2, <1>3, <1>4, <1>5, TypesSplit DEF IInv, OtherTypes, CoreTypes, TypeOK

\* The sequencer's steps that issue no transfer.
LEMMA SequencerStep ==
  ASSUME IInv,
         SeqHalted \/ SeqEndOfProgram \/ SeqSyncStall \/ IssueFence \/ IssueStall
           \/ IssueOther
  PROVE  IInv'
<1>1. UNCHANGED coreVars
  BY DEF coreVars, netVars, SeqHalted, SeqEndOfProgram, SeqSyncStall, IssueFence,
         IssueStall, IssueOther, EndTick
<1>2. OtherTypes /\ CoreTypes
  BY TypesSplit DEF IInv
<1>3. OtherTypes'
  <2>1. pc' \in {pc, pc + 1} /\ sync_wait' \in {sync_wait, 0} /\ halted' \in BOOLEAN
    BY <1>2 DEF SeqHalted, SeqEndOfProgram, SeqSyncStall, IssueFence, IssueStall,
       IssueOther, OtherTypes
  <2>2. /\ stage' = "ingress" /\ rd' = RdPorts /\ wr' = WrPorts
        /\ UNCHANGED <<prog, burst, remote>>
    BY DEF EndTick, SeqHalted, SeqEndOfProgram, SeqSyncStall, IssueFence, IssueStall,
       IssueOther
  <2>3. Len(descs) \in Nat /\ descs' = descs
    BY <1>1, <1>2 DEF CoreTypes, coreVars
  <2>4. RdPorts \in Nat /\ WrPorts \in Nat
    BY ConfigAssumption
  <2> QED
    BY <1>2, <2>1, <2>2, <2>3, <2>4 DEF OtherTypes
<1> QED
  BY <1>1, <1>3, CoreUnchanged

\* The stages that pass without doing anything.
LEMMA PassingStep ==
  ASSUME IInv, IngressEnd \/ RemoteAccess \/ EngineIdle \/ EmitStop
  PROVE  IInv'
<1>1. UNCHANGED coreVars
  BY DEF coreVars, engVars, netVars, IngressEnd, RemoteAccess, EngineIdle, EmitStop
<1>2. OtherTypes
  BY TypesSplit DEF IInv
<1>3. OtherTypes'
  <2>1. CASE RemoteAccess
    BY <1>2, <2>1 DEF OtherTypes, RemoteAccess, seqVars, engVars
  <2>2. CASE IngressEnd \/ EngineIdle \/ EmitStop
    BY <1>2, <2>2 DEF OtherTypes, IngressEnd, EngineIdle, EmitStop, seqVars, engVars
  <2> QED
    BY <2>1, <2>2
<1> QED
  BY <1>1, <1>3, CoreUnchanged

-----------------------------------------------------------------------------
(* Steps outside the tile: a chunk moves on, but is under way or landed    *)
(* as before.                                                              *)

\* The world outside commits a chunk or answers it.
LEMMA OutsideStep ==
  ASSUME IInv, NEW c \in req, RemoteCommit(c) \/ Respond(c)
  PROVE  IInv'
<1>0. CoreTypes /\ OtherTypes
  BY TypesSplit DEF IInv
<1>1. UNCHANGED <<descs, dma_q, dma_active, dma_cur, live, inflight>>
  BY DEF RemoteCommit, Respond, engVars
<1>2. Under' = Under /\ (Under \cup landed)' = Under \cup landed
  BY DEF RemoteCommit, Respond, Under, netVars
<1>3. OtherTypes'
  BY <1>0 DEF OtherTypes, RemoteCommit, Respond, seqVars, engVars
<1>4. CoreTypes'
  <2>1. /\ req' \subseteq req /\ resp' \subseteq resp \cup {c}
        /\ landed' \subseteq landed \cup {c}
    BY DEF RemoteCommit, Respond, netVars
  <2> QED
    BY <1>0, <1>1, <2>1 DEF CoreTypes
<1>5. QueueInv' /\ FlagsInv' /\ NewestAreLive'
  BY <1>1 DEF IInv, QueueInv, Edge, FlagsInv, NewestAreLive
<1>6. RetiredHaveLanded'
  BY <1>1 DEF IInv, RetiredHaveLanded, Chunks, RemoteCommit, Respond
<1>7. CountInv'
  <2>1. (req \cap resp = {})'
    BY DEF IInv, CountInv, RemoteCommit, Respond, netVars
  <2>2. \A s : UnderOf(s)' = UnderOf(s)
    BY <1>2 DEF UnderOf
  <2> QED
    BY <1>1, <1>2, <2>1, <2>2 DEF IInv, CountInv
<1>8. ChunkInv'
  <2>1. \A d \in resp' : Kind(d)' = "push" => d \in landed'
    BY <1>1 DEF IInv, ChunkInv, Kind, RemoteCommit, Respond, netVars
  <2>2. \A d \in Under' : Kind(d)' \in {"push", "pull"}
    BY <1>1, <1>2 DEF IInv, ChunkInv, Kind
  <2>3. \A s \in DOMAIN descs', i \in Nat :
          (<<s, i>> \in Under \cup landed <=> i < descs[s].n /\ Emitted(s, i))'
    BY <1>1, <1>2 DEF IInv, ChunkInv, Emitted, Edge
  <2> QED
    BY <2>1, <2>2, <2>3 DEF ChunkInv
<1> QED
  BY <1>3, <1>4, <1>5, <1>6, <1>7, <1>8, TypesSplit
     DEF IInv, CoreTypes, OtherTypes, TypeOK

-----------------------------------------------------------------------------
(* The engine takes up a descriptor.                                       *)

\* The engine takes the next descriptor.
LEMMA ActivateStep ==
  ASSUME IInv, EngineSetup \/ EngineBegin
  PROVE  IInv'
<1>0. CoreTypes /\ OtherTypes
  BY TypesSplit DEF IInv
<1>1. /\ UNCHANGED <<descs, live, inflight, req, resp, landed>>
      /\ dma_active' = TRUE
      /\ dma_active \/ dma_q # <<>>
      /\ dma_q' = IF dma_active THEN dma_q ELSE Tail(dma_q)
      /\ UNCHANGED <<seqVars, rd, wr, remote>>
  BY DEF EngineSetup, EngineBegin, Activate, netVars
<1>2. /\ dma_cur'.seq = Current.seq /\ dma_cur'.at = Current.at
      /\ dma_cur' \in [seq : Nat, at : Nat, setup : Nat]
      /\ burst' \in Nat /\ stage' \in {"seq", "emit"}
  <2>1. Current \in [seq : Nat, at : Nat, setup : Nat]
    BY SMTT(20), <1>0, <1>1, ConfigAssumption DEF Current, CoreTypes
  <2> QED
    BY <1>0, <2>1 DEF EngineSetup, EngineBegin, OtherTypes
<1>3. OtherTypes'
  BY <1>0, <1>1, <1>2 DEF OtherTypes, seqVars
<1>4. CoreTypes'
  <2>1. dma_q' \in Seq(Nat)
    <3>1. dma_q \in Seq(Nat)
      BY <1>0 DEF CoreTypes
    <3>2. dma_q' = dma_q \/ (dma_q # <<>> /\ dma_q' = Tail(dma_q))
      BY <1>1
    <3> QED
      BY <3>1, <3>2
  <2>2. dma_active' \in BOOLEAN
    BY Zenon, <1>1
  <2> QED
    BY <1>0, <1>1, <1>2, <2>1, <2>2 DEF CoreTypes
<1>5. CASE dma_active
  <2>1. /\ dma_q' = dma_q /\ dma_active' = dma_active /\ Edge' = Edge
        /\ dma_cur'.seq = dma_cur.seq /\ dma_cur'.at = dma_cur.at
    BY <1>1, <1>2, <1>5 DEF Current, Edge
  <2>2. QueueInv' /\ FlagsInv' /\ NewestAreLive' /\ RetiredHaveLanded'
    BY <1>1, <2>1 DEF IInv, QueueInv, FlagsInv, NewestAreLive, RetiredHaveLanded, Chunks
  <2>3. CountInv' /\ ChunkInv'
    BY <1>1, <2>1 DEF IInv, CountInv, ChunkInv, Under, UnderOf, Emitted, Kind
  <2> QED
    BY <1>3, <1>4, <2>2, <2>3, TypesSplit DEF IInv, CoreTypes, OtherTypes, TypeOK
<1>6. CASE ~dma_active
  <2>1. /\ dma_q # <<>> /\ dma_q' = Tail(dma_q)
        /\ dma_cur'.seq = Head(dma_q) /\ dma_cur'.at = 0
    BY <1>1, <1>2, <1>6 DEF Current
  <2>2. /\ Len(dma_q) \in Nat \ {0} /\ Len(dma_q') = Len(dma_q) - 1
        /\ Head(dma_q) = dma_q[1]
        /\ \A i \in 1 .. Len(dma_q') : dma_q'[i] = dma_q[i + 1]
    <3>1. dma_q \in Seq(Nat)
      BY <1>0 DEF CoreTypes
    <3>2. dma_q # <<>> /\ dma_q' = Tail(dma_q)
      BY <2>1
    <3> QED
      BY <3>1, <3>2
  <2>3. Edge \in Nat /\ Edge' = Edge + 1 /\ Len(descs) \in Nat
    <3>1. Edge \in Nat /\ Len(descs) \in Nat
      BY <1>0 DEF IInv, QueueInv, CoreTypes
    <3>2. descs' = descs
      BY <1>1
    <3>3. Edge' = Len(descs) - Len(dma_q') /\ Edge = Len(descs) - Len(dma_q)
      BY <3>2 DEF Edge
    <3> QED
      BY <2>2, <3>1, <3>3
  <2>4. dma_cur'.seq = Edge' /\ Edge' \in DOMAIN descs /\ descs[Edge'].n > 0
    <3>1. Edge + 1 <= Len(descs)
      <4>1. Edge = Len(descs) - Len(dma_q) /\ Len(dma_q) \in Nat /\ Len(dma_q) >= 1
        BY <2>2 DEF Edge
      <4> QED
        BY <2>3, <4>1
    <3>3. Edge' \in DOMAIN descs /\ descs[Edge'].n > 0
      <4>1. Edge + 1 \in 1 .. Len(descs)
        BY <2>3, <3>1
      <4> QED
        BY <1>0, <2>3, <4>1, DescFields
    <3>4. dma_q[1] = Edge + 1
      BY <2>2 DEF IInv, QueueInv
    <3> QED
      BY <2>1, <2>2, <2>3, <3>3, <3>4
  <2>5. QueueInv'
    <3>1. \A i \in 1 .. Len(dma_q') : dma_q'[i] = Edge' + i
      <4>1. \A j \in 1 .. Len(dma_q) : dma_q[j] = Edge + j
        BY DEF IInv, QueueInv
      <4> QED
        BY <2>2, <2>3, <4>1
    <3>2. \A s \in DOMAIN descs' : s > Edge' \/ s = Edge' => s \in DOMAIN live'
      BY <1>0, <1>1, <2>3 DEF IInv, QueueInv, CoreTypes
    <3>3. Edge' \in Nat /\ Edge' >= 1 /\ dma_cur'.at < descs'[Edge'].n
      BY <1>1, <2>1, <2>3, <2>4
    <3> QED
      BY Zenon, <2>4, <3>1, <3>2, <3>3 DEF QueueInv
  <2>6. FlagsInv'
    BY <1>0, <1>1, <1>6, <2>3 DEF IInv, FlagsInv, CoreTypes
  <2>7. NewestAreLive' /\ RetiredHaveLanded' /\ CountInv'
    BY <1>1 DEF IInv, NewestAreLive, RetiredHaveLanded, Chunks, CountInv, Under, UnderOf
  <2>8. \A s \in DOMAIN descs, i \in Nat : Emitted(s, i)' <=> Emitted(s, i)
    BY <1>0, <1>1, <1>6, <2>1, <2>3 DEF Emitted, CoreTypes
  <2>9. ChunkInv'
    BY <1>1, <2>8 DEF IInv, ChunkInv, Under, Kind
  <2> QED
    BY <1>3, <1>4, <2>5, <2>6, <2>7, <2>9, TypesSplit
       DEF IInv, CoreTypes, OtherTypes, TypeOK
<1> QED
  BY <1>5, <1>6

-----------------------------------------------------------------------------
(* Descriptor s advances and whatever became finished is retired.  L is    *)
(* live_descs_ just before desc_check_done.                                *)

\* CheckDone retires the finished descriptors at the old end.
LEMMA RetireStep ==
  ASSUME NEW L, NEW s \in DOMAIN L,
         CoreTypes, QueueInv, NewestAreLive, RetiredHaveLanded,
         UNCHANGED <<descs, dma_q>>, landed \subseteq landed',
         dma_active' => dma_active,
         DOMAIN L = DOMAIN live, L \in [DOMAIN L -> DescState],
         live' = CheckDone(L, s),
         ChunkInv', IsFiniteSet(Under'), Under' \subseteq (DOMAIN L) \X Nat,
         \A u \in DOMAIN L :
           /\ L[u].outstanding = Cardinality(UnderOf(u)')
           /\ L[u].gen_done <=> u <= Edge /\ ~(dma_active' /\ u = Edge)
           /\ L[u].done => L[u].gen_done /\ L[u].outstanding = 0
           /\ u # s => (L[u].done <=> L[u].gen_done /\ L[u].outstanding = 0)
  PROVE  /\ DOMAIN live' \subseteq DOMAIN descs'
         /\ live' \in [DOMAIN live' -> DescState]
         /\ \A u \in DOMAIN descs' :
              u > Edge' \/ (dma_active' /\ u = Edge') => u \in DOMAIN live'
         /\ FlagsInv'
         /\ NewestAreLive'
         /\ RetiredHaveLanded'
         /\ \A u \in DOMAIN live' : live'[u].outstanding = Cardinality(UnderOf(u)')
         /\ \A c \in Under' : c[1] \in DOMAIN live'
<1>0. Edge' = Edge /\ descs' = descs /\ Edge \in Nat
  BY DEF Edge, QueueInv
<1>1. DOMAIN L \subseteq Nat /\ DOMAIN L \subseteq DOMAIN descs /\ DOMAIN descs \subseteq Nat
  BY DEF CoreTypes
<1>2. /\ DOMAIN live' \subseteq DOMAIN L
      /\ live' \in [DOMAIN live' -> DescState]
      /\ \A u \in DOMAIN live' :
           /\ live'[u].outstanding = L[u].outstanding
           /\ live'[u].gen_done <=> L[u].gen_done
           /\ live'[u].done <=> Finished(L, s, u)
      /\ \A u \in DOMAIN L \ DOMAIN live' : Finished(L, s, u)
      /\ \A u \in DOMAIN live', v \in DOMAIN L : u <= v => v \in DOMAIN live'
  BY <1>1, CheckDoneSpec
<1>3. \A u \in DOMAIN L : Finished(L, s, u) <=> L[u].gen_done /\ L[u].outstanding = 0
  BY Zenon DEF Finished
<1>4. \A u \in DOMAIN L \ DOMAIN live' :
        u <= Edge /\ ~(dma_active' /\ u = Edge) /\ Cardinality(UnderOf(u)') = 0
  BY Zenon, <1>2, <1>3
<1>5. \A u \in DOMAIN L \ DOMAIN live' : UnderOf(u)' = {}
  <2> TAKE u \in DOMAIN L \ DOMAIN live'
  <2>1. IsFiniteSet(UnderOf(u)')
    BY FS_Subset DEF UnderOf
  <2> QED
    BY <1>4, <2>1, FS_EmptySet
<1>6. \A u \in DOMAIN descs' :
        u > Edge' \/ (dma_active' /\ u = Edge') => u \in DOMAIN live'
  BY <1>0, <1>1, <1>4 DEF QueueInv
<1>7. FlagsInv'
  <2> SUFFICES ASSUME NEW u \in DOMAIN live'
               PROVE  /\ live'[u].gen_done <=> u <= Edge /\ ~(dma_active' /\ u = Edge)
                      /\ live'[u].done <=> live'[u].gen_done /\ live'[u].outstanding = 0
    BY Zenon, <1>0 DEF FlagsInv
  <2>1. u \in DOMAIN L
    BY <1>2
  <2> QED
    BY Zenon, <1>2, <1>3, <2>1
<1>8. NewestAreLive'
  BY <1>0, <1>1, <1>2 DEF NewestAreLive, CoreTypes
<1>9. RetiredHaveLanded'
  <2> SUFFICES ASSUME NEW u \in DOMAIN descs, u \notin DOMAIN live',
                      NEW i \in 0 .. descs[u].n - 1
               PROVE  <<u, i>> \in landed'
    BY <1>0 DEF RetiredHaveLanded, Chunks
  <2>1. CASE u \notin DOMAIN L
    BY <2>1 DEF RetiredHaveLanded, Chunks
  <2>2. CASE u \in DOMAIN L
    <3>1. Emitted(u, i)'
      BY Zenon, <1>0, <1>4, <2>2 DEF Emitted
    <3>2. i \in Nat /\ i < descs[u].n
      <4>1. u \in 1 .. Len(descs)
        BY DEF CoreTypes
      <4>2. descs[u].n \in Nat
        BY <4>1, DescFields
      <4> QED
        BY <4>2
    <3>3. <<u, i>> \in Under' \cup landed'
      BY <1>0, <3>1, <3>2 DEF ChunkInv
    <3>4. <<u, i>> \notin Under'
      BY <1>5, <2>2 DEF UnderOf
    <3> QED
      BY <3>3, <3>4
  <2> QED
    BY <2>1, <2>2
<1>10. \A c \in Under' : c[1] \in DOMAIN live'
  BY <1>5 DEF UnderOf
<1> QED
  BY <1>0, <1>1, <1>2, <1>6, <1>7, <1>8, <1>9, <1>10

\* An answer is counted.
LEMMA AnswerStep ==
  ASSUME IInv, NEW c \in resp, IngressAck(c) \/ IngressData(c)
  PROVE  IInv'
<1> DEFINE s == c[1]
           L == [live EXCEPT ![s].outstanding = @ - 1]
<1>0. CoreTypes /\ OtherTypes
  BY TypesSplit DEF IInv
<1>1. /\ UNCHANGED <<descs, dma_q, dma_active, dma_cur, req>>
      /\ resp' = resp \ {c}
      /\ s \in DOMAIN live /\ live[s].outstanding > 0 /\ inflight > 0
      /\ live' = CheckDone(L, s)
      /\ inflight' = inflight - 1
  BY DEF IngressAck, IngressData, DecOutstanding, engVars
<1>2. landed' = landed \cup {c}
  <2>1. CASE IngressAck(c)
    BY <2>1 DEF IngressAck, IInv, ChunkInv
  <2>2. CASE IngressData(c)
    BY <2>2 DEF IngressData
  <2> QED
    BY <2>1, <2>2
<1>3. OtherTypes'
  BY <1>0 DEF OtherTypes, IngressAck, IngressData, seqVars, engVars, DecOutstanding
<1>4. /\ c \in (DOMAIN descs) \X Nat /\ c \notin req
      /\ Under' = Under \ {c}
      /\ (Under \cup landed)' = Under \cup landed
  BY <1>0, <1>1, <1>2 DEF CoreTypes, IInv, CountInv, Under
<1>5. /\ DOMAIN L = DOMAIN live
      /\ L \in [DOMAIN L -> DescState]
      /\ \A u \in DOMAIN live : u # s => L[u] = live[u]
      /\ L[s].outstanding = live[s].outstanding - 1
      /\ L[s].gen_done <=> live[s].gen_done
      /\ L[s].done <=> live[s].done
  <2>1. live \in [DOMAIN live -> DescState] /\ live[s].outstanding \in Nat
    BY <1>0, <1>1 DEF CoreTypes, DescState
  <2>2. live[s].outstanding - 1 \in Nat
    BY <1>1, <2>1
  <2> QED
    BY <1>1, <2>1, <2>2, ExceptOutstanding
<1>6. /\ IsFiniteSet(Under')
      /\ Cardinality(Under') = Cardinality(Under) - 1
  <2>1. IsFiniteSet(Under) /\ c \in Under
    BY DEF IInv, CountInv, Under
  <2> QED
    BY <1>4, <2>1, FS_RemoveElement
<1>7. /\ Cardinality(UnderOf(s)') = Cardinality(UnderOf(s)) - 1
      /\ \A u : u # s => UnderOf(u)' = UnderOf(u)
  <2>1. UnderOf(s)' = UnderOf(s) \ {c} /\ c \in UnderOf(s)
    BY <1>4 DEF UnderOf, Under
  <2>2. IsFiniteSet(UnderOf(s))
    BY FS_Subset DEF UnderOf, IInv, CountInv
  <2>3. \A u : u # s => UnderOf(u)' = UnderOf(u)
    BY <1>4 DEF UnderOf
  <2> QED
    BY <2>1, <2>2, <2>3, FS_RemoveElement
<1>8. ChunkInv'
  <2>1. \A d \in resp' : Kind(d)' = "push" => d \in landed'
    BY <1>1, <1>2 DEF IInv, ChunkInv, Kind
  <2>2. \A d \in Under' : Kind(d)' \in {"push", "pull"}
    BY <1>1, <1>4 DEF IInv, ChunkInv, Kind
  <2>3. \A u \in DOMAIN descs', i \in Nat :
          (<<u, i>> \in Under \cup landed <=> i < descs[u].n /\ Emitted(u, i))'
    BY <1>1, <1>4 DEF IInv, ChunkInv, Emitted, Edge
  <2> QED
    BY <2>1, <2>2, <2>3 DEF ChunkInv
<1> HIDE DEF L
<1>9. \A u \in DOMAIN L :
        /\ L[u].outstanding = Cardinality(UnderOf(u)')
        /\ L[u].gen_done <=> u <= Edge /\ ~(dma_active' /\ u = Edge)
        /\ L[u].done => L[u].gen_done /\ L[u].outstanding = 0
        /\ u # s => (L[u].done <=> L[u].gen_done /\ L[u].outstanding = 0)
  <2> TAKE u \in DOMAIN L
  <2>1. CASE u # s
    BY Zenon, <1>1, <1>5, <1>7, <2>1 DEF IInv, CountInv, FlagsInv
  <2>2. CASE u = s
    <3>1. L[s].outstanding = Cardinality(UnderOf(s)')
      BY <1>1, <1>5, <1>7 DEF IInv, CountInv
    <3>2. L[s].gen_done <=> s <= Edge /\ ~(dma_active' /\ s = Edge)
      BY Zenon, <1>1, <1>5 DEF IInv, FlagsInv
    <3>3. live[s].outstanding # 0
      BY <1>0, <1>1
    <3>4. ~L[s].done
      BY Zenon, <1>1, <1>5, <3>3 DEF IInv, FlagsInv
    <3> QED
      BY Zenon, <2>2, <3>1, <3>2, <3>4
  <2> QED
    BY <2>1, <2>2
<1>10. Under' \subseteq (DOMAIN L) \X Nat
  <2>1. \A d \in Under : d \in (DOMAIN descs) \X Nat /\ d[1] \in DOMAIN live
    BY <1>0 DEF CoreTypes, Under, IInv, CountInv
  <2> QED
    BY <1>4, <1>5, <2>1
<1>11. /\ DOMAIN live' \subseteq DOMAIN descs'
       /\ live' \in [DOMAIN live' -> DescState]
       /\ \A u \in DOMAIN descs' :
            u > Edge' \/ (dma_active' /\ u = Edge') => u \in DOMAIN live'
       /\ FlagsInv'
       /\ NewestAreLive'
       /\ RetiredHaveLanded'
       /\ \A u \in DOMAIN live' : live'[u].outstanding = Cardinality(UnderOf(u)')
       /\ \A d \in Under' : d[1] \in DOMAIN live'
  <2>1. s \in DOMAIN L /\ landed \subseteq landed' /\ (dma_active' => dma_active)
    BY <1>1, <1>2, <1>5
  <2>2. QueueInv /\ NewestAreLive /\ RetiredHaveLanded
    BY DEF IInv
  <2> QED
    BY <1>0, <1>1, <1>5, <1>6, <1>8, <1>9, <1>10, <2>1, <2>2, RetireStep
<1>12. CoreTypes'
  <2>1. inflight' \in Nat
    BY <1>0, <1>1 DEF CoreTypes
  <2>2. landed' \subseteq (DOMAIN descs) \X Nat /\ resp' \subseteq resp
    BY <1>0, <1>1, <1>2, <1>4 DEF CoreTypes
  <2> QED
    BY <1>0, <1>1, <1>11, <2>1, <2>2 DEF CoreTypes
<1>13. QueueInv'
  BY <1>1, <1>11 DEF IInv, QueueInv, Edge
<1>14. CountInv'
  <2>1. (req \cap resp = {})'
    BY <1>1 DEF IInv, CountInv
  <2>2. inflight' = Cardinality(Under') /\ inflight' <= MaxInflight
    BY <1>0, <1>1, <1>6, ConfigAssumption DEF IInv, CountInv, CoreTypes
  <2> QED
    BY <1>6, <1>11, <2>1, <2>2 DEF CountInv
<1> QED
  BY <1>3, <1>8, <1>11, <1>12, <1>13, <1>14, TypesSplit
     DEF IInv, CoreTypes, OtherTypes, TypeOK

-----------------------------------------------------------------------------
(* The engine emits a chunk.                                               *)

\* What Advance makes of the current descriptor and the map.
LEMMA AdvanceSpec ==
  ASSUME CoreTypes, NEW L0, Advance(L0), dma_active,
         dma_cur.seq \in DOMAIN L0, dma_cur.seq \in 1 .. Len(descs),
         dma_cur.at < descs[dma_cur.seq].n,
         L0 \in [DOMAIN L0 -> DescState],
         ~L0[dma_cur.seq].gen_done, ~L0[dma_cur.seq].done
  PROVE  LET s == dma_cur.seq IN
         /\ dma_active' \in BOOLEAN
         /\ dma_cur' \in [seq : Nat, at : Nat, setup : Nat]
         /\ dma_cur'.seq = s
         /\ dma_active' => dma_cur'.at = dma_cur.at + 1 /\ dma_cur'.at < descs[s].n
         /\ ~dma_active' => descs[s].n = dma_cur.at + 1
         /\ \E L : /\ DOMAIN L = DOMAIN L0
                   /\ L \in [DOMAIN L -> DescState]
                   /\ \A u \in DOMAIN L0 : u # s => L[u] = L0[u]
                   /\ L[s].outstanding = L0[s].outstanding
                   /\ L[s].gen_done <=> ~dma_active'
                   /\ ~L[s].done
                   /\ live' = CheckDone(L, s)
<1> DEFINE s == dma_cur.seq
<1>1. dma_cur.at \in Nat /\ descs[s].n \in Nat
  BY DescFields DEF CoreTypes
<1>2. CASE dma_cur.at + 1 = descs[s].n
  <2> DEFINE L == [L0 EXCEPT ![s].gen_done = TRUE]
  <2>1. /\ live' = CheckDone(L, s)
        /\ dma_active' = FALSE
        /\ dma_cur' = dma_cur
    BY <1>2 DEF Advance
  <2>2. /\ DOMAIN L = DOMAIN L0
        /\ L \in [DOMAIN L -> DescState]
        /\ \A u \in DOMAIN L0 : u # s => L[u] = L0[u]
        /\ L[s].outstanding = L0[s].outstanding
        /\ L[s].gen_done
        /\ ~L[s].done
    BY ExceptGenDone
  <2>3. dma_active' \in BOOLEAN /\ ~dma_active'
    BY Zenon, <2>1
  <2>4. dma_cur' \in [seq : Nat, at : Nat, setup : Nat] /\ dma_cur'.seq = s
    BY <2>1 DEF CoreTypes
  <2>5. descs[s].n = dma_cur.at + 1
    BY <1>2
  <2> HIDE DEF L
  <2> QED
    BY Zenon, <2>1, <2>2, <2>3, <2>4, <2>5
<1>3. CASE dma_cur.at + 1 # descs[s].n
  <2>1. live' = L0 /\ dma_cur' = [dma_cur EXCEPT !.at = @ + 1] /\ dma_active' = dma_active
    BY <1>3 DEF Advance
  <2>2. live' = CheckDone(L0, s)
    BY <2>1 DEF CheckDone
  <2>3. /\ dma_cur' \in [seq : Nat, at : Nat, setup : Nat]
        /\ dma_cur'.seq = s
        /\ dma_cur'.at = dma_cur.at + 1
    BY SMTT(20), <1>1, <2>1 DEF CoreTypes
  <2>4. dma_cur.at + 1 < descs[s].n
    BY <1>1, <1>3
  <2>5. dma_active' \in BOOLEAN /\ dma_active'
    BY Zenon, <2>1 DEF CoreTypes
  <2> QED
    BY Zenon, <2>2, <2>3, <2>4, <2>5
<1> QED
  BY <1>2, <1>3

\* What the two ways of emitting have in common: the next chunk of the
\* current descriptor joins the chunks that are under way or have landed.
LEMMA EmitStep ==
  ASSUME IInv, Emitting,
         NEW L0, L0 \in [DOMAIN L0 -> DescState], DOMAIN L0 = DOMAIN live,
         Advance(L0),
         \A u \in DOMAIN live :
           /\ L0[u].outstanding = Cardinality(UnderOf(u)')
           /\ L0[u].gen_done <=> live[u].gen_done
           /\ L0[u].done <=> live[u].done
           /\ u # dma_cur.seq => L0[u] = live[u],
         UNCHANGED <<descs, dma_q, resp>>,
         IsFiniteSet(Under'),
         (req \cap resp = {})',
         inflight' \in Nat,
         inflight' = Cardinality(Under'), inflight' <= MaxInflight,
         landed \subseteq landed',
         req' \subseteq req \cup {cur}, landed' \subseteq landed \cup {cur},
         (Under \cup landed)' = Under \cup landed \cup {cur},
         \A c \in Under' : Kind(c) \in {"push", "pull"},
         OtherTypes'
  PROVE  IInv'
<1> DEFINE s == dma_cur.seq
<1>0. CoreTypes
  BY TypesSplit DEF IInv
<1>1. /\ dma_active /\ s = Edge /\ s \in 1 .. Len(descs)
      /\ dma_cur.at < descs[s].n /\ s \in DOMAIN live
      /\ Edge' = Edge /\ dma_cur.at \in Nat /\ Edge \in Nat
      /\ cur = <<s, dma_cur.at>>
  <2>1. dma_active
    BY DEF Emitting
  <2>2. /\ s = Edge /\ Edge >= 1 /\ dma_cur.at < descs[s].n /\ Edge \in Nat
        /\ \A u \in DOMAIN descs : dma_active /\ u = Edge => u \in DOMAIN live
    BY <2>1 DEF IInv, QueueInv
  <2>3. Len(dma_q) \in Nat /\ Len(descs) \in Nat /\ DOMAIN descs = 1 .. Len(descs)
    BY <1>0 DEF CoreTypes
  <2>4. s \in 1 .. Len(descs)
    BY <2>2, <2>3 DEF Edge
  <2>5. Edge' = Edge
    BY DEF Edge
  <2>6. dma_cur.at \in Nat
    BY <1>0 DEF CoreTypes
  <2> QED
    BY <2>1, <2>2, <2>3, <2>4, <2>5, <2>6 DEF cur
<1>2. ~live[s].gen_done /\ ~live[s].done
  BY Zenon, <1>1 DEF IInv, FlagsInv
<1>3. ~L0[s].gen_done /\ ~L0[s].done
  BY Zenon, <1>1, <1>2
<1>4. /\ dma_active' \in BOOLEAN
      /\ dma_cur' \in [seq : Nat, at : Nat, setup : Nat]
      /\ dma_cur'.seq = s
      /\ dma_active' => dma_cur'.at = dma_cur.at + 1 /\ dma_cur'.at < descs[s].n
      /\ ~dma_active' => descs[s].n = dma_cur.at + 1
      /\ \E L : /\ DOMAIN L = DOMAIN L0
                /\ L \in [DOMAIN L -> DescState]
                /\ \A u \in DOMAIN L0 : u # s => L[u] = L0[u]
                /\ L[s].outstanding = L0[s].outstanding
                /\ L[s].gen_done <=> ~dma_active'
                /\ ~L[s].done
                /\ live' = CheckDone(L, s)
  BY <1>0, <1>1, <1>3, AdvanceSpec
<1>5. PICK L : /\ DOMAIN L = DOMAIN L0
               /\ L \in [DOMAIN L -> DescState]
               /\ \A u \in DOMAIN L0 : u # s => L[u] = L0[u]
               /\ L[s].outstanding = L0[s].outstanding
               /\ L[s].gen_done <=> ~dma_active'
               /\ ~L[s].done
               /\ live' = CheckDone(L, s)
  BY Zenon, <1>4
<1>6. \A u \in DOMAIN descs', i \in Nat :
        (<<u, i>> \in Under \cup landed <=> i < descs[u].n /\ Emitted(u, i))'
  <2> SUFFICES ASSUME NEW u \in DOMAIN descs, NEW i \in Nat
               PROVE  <<u, i>> \in (Under \cup landed)'
                        <=> i < descs[u].n /\ Emitted(u, i)'
    OBVIOUS
  <2>1. <<u, i>> \in (Under \cup landed)'
          <=> (i < descs[u].n /\ Emitted(u, i)) \/ (u = s /\ i = dma_cur.at)
    BY <1>1 DEF IInv, ChunkInv
  <2>2. CASE u # s
    BY <1>1, <2>1, <2>2 DEF Emitted
  <2>3. CASE u = s
    <3>1. Emitted(u, i) <=> i < dma_cur.at
      BY <1>1, <2>3 DEF Emitted
    <3>2. Emitted(u, i)' <=> ~(dma_active' /\ i >= dma_cur'.at)
      BY <1>1, <2>3 DEF Emitted
    <3>3. descs[u].n \in Nat
      BY <1>0, <1>1, <2>3, DescFields
    <3>4. CASE dma_active'
      BY <1>1, <1>4, <2>1, <2>3, <3>1, <3>2, <3>3, <3>4
    <3>5. CASE ~dma_active'
      BY <1>1, <1>4, <2>1, <2>3, <3>1, <3>2, <3>3, <3>5
    <3> QED
      BY <3>4, <3>5
  <2> QED
    BY <2>2, <2>3
<1>7. ChunkInv'
  <2>1. \A d \in Under' : Kind(d)' \in {"push", "pull"}
    BY DEF Kind
  <2>2. \A d \in resp' : Kind(d)' = "push" => d \in landed'
    BY DEF IInv, ChunkInv, Kind
  <2> QED
    BY <1>6, <2>1, <2>2 DEF ChunkInv
<1>8. \A u \in DOMAIN L :
        /\ L[u].outstanding = Cardinality(UnderOf(u)')
        /\ L[u].gen_done <=> u <= Edge /\ ~(dma_active' /\ u = Edge)
        /\ L[u].done => L[u].gen_done /\ L[u].outstanding = 0
        /\ u # s => (L[u].done <=> L[u].gen_done /\ L[u].outstanding = 0)
  <2> TAKE u \in DOMAIN L
  <2>1. CASE u # s
    <3>1. u \in DOMAIN live /\ L[u] = L0[u] /\ L0[u] = live[u] /\ u # Edge
      BY <1>1, <1>5, <2>1
    <3>2. L[u].outstanding = Cardinality(UnderOf(u)')
      BY <3>1
    <3>3. /\ live[u].gen_done <=> u <= Edge /\ ~(dma_active /\ u = Edge)
          /\ live[u].done <=> live[u].gen_done /\ live[u].outstanding = 0
      BY Zenon, <3>1 DEF IInv, FlagsInv
    <3> QED
      BY Zenon, <3>1, <3>2, <3>3
  <2>2. CASE u = s
    <3>1. L[u].outstanding = Cardinality(UnderOf(u)')
      BY <1>1, <1>5, <2>2
    <3>2. s <= Edge
      BY <1>1
    <3> QED
      BY Zenon, <1>1, <1>5, <2>2, <3>1, <3>2
  <2> QED
    BY <2>1, <2>2
<1>9. Under' \subseteq (DOMAIN L) \X Nat
  <2>1. \A d \in Under : d \in (DOMAIN descs) \X Nat /\ d[1] \in DOMAIN live
    BY <1>0 DEF CoreTypes, Under, IInv, CountInv
  <2>2. Under' \subseteq Under \cup {cur}
    BY DEF Under
  <2> QED
    BY <1>1, <1>5, <2>1, <2>2
<1>10. /\ DOMAIN live' \subseteq DOMAIN descs'
       /\ live' \in [DOMAIN live' -> DescState]
       /\ \A u \in DOMAIN descs' :
            u > Edge' \/ (dma_active' /\ u = Edge') => u \in DOMAIN live'
       /\ FlagsInv'
       /\ NewestAreLive'
       /\ RetiredHaveLanded'
       /\ \A u \in DOMAIN live' : live'[u].outstanding = Cardinality(UnderOf(u)')
       /\ \A d \in Under' : d[1] \in DOMAIN live'
  <2>1. s \in DOMAIN L /\ (dma_active' => dma_active) /\ DOMAIN L = DOMAIN live
    BY <1>1, <1>5
  <2>2. QueueInv /\ NewestAreLive /\ RetiredHaveLanded
    BY DEF IInv
  <2> QED
    BY <1>0, <1>5, <1>7, <1>8, <1>9, <2>1, <2>2, RetireStep
<1>11. CoreTypes'
  <2>1. cur \in (DOMAIN descs) \X Nat
    BY <1>0, <1>1 DEF CoreTypes
  <2>2. /\ req' \in SUBSET ((DOMAIN descs) \X Nat)
        /\ landed' \in SUBSET ((DOMAIN descs) \X Nat)
    BY <1>0, <2>1 DEF CoreTypes
  <2> QED
    BY <1>0, <1>4, <1>10, <2>2 DEF CoreTypes
<1>12. QueueInv'
  <2>1. dma_active' => /\ Edge' >= 1 /\ dma_cur'.seq = Edge'
                       /\ dma_cur'.at < descs'[Edge'].n
    BY <1>1, <1>4
  <2>2. Edge' \in Nat /\ \A i \in 1 .. Len(dma_q') : dma_q'[i] = Edge' + i
    BY <1>1 DEF IInv, QueueInv
  <2> QED
    BY <1>10, <2>1, <2>2 DEF QueueInv
<1>13. CountInv'
  <2>1. MaxInflight' = MaxInflight
    OBVIOUS
  <2> QED
    BY <1>10, <2>1 DEF CountInv
<1> QED
  BY <1>7, <1>10, <1>11, <1>12, <1>13, TypesSplit
     DEF IInv, CoreTypes, OtherTypes, TypeOK

\* The next chunk is a new one.
LEMMA CurIsNew ==
  ASSUME IInv, dma_active
  PROVE  /\ cur \notin Under \cup landed
         /\ dma_cur.seq \in DOMAIN live /\ live[dma_cur.seq].outstanding \in Nat
         /\ descs[dma_cur.seq].kind \in Kinds
<1>0. CoreTypes
  BY TypesSplit DEF IInv
<1>1. dma_cur.seq = Edge /\ Edge >= 1 /\ Edge \in Nat /\ dma_cur.at \in Nat
  BY <1>0 DEF IInv, QueueInv, CoreTypes
<1>2. dma_cur.seq \in 1 .. Len(descs) /\ dma_cur.seq \in DOMAIN descs
  <2>1. Len(dma_q) \in Nat /\ Len(descs) \in Nat /\ DOMAIN descs = 1 .. Len(descs)
    BY <1>0 DEF CoreTypes
  <2> QED
    BY <1>1, <2>1 DEF Edge
<1>3. ~Emitted(dma_cur.seq, dma_cur.at)
  BY <1>1 DEF Emitted
<1>4. <<dma_cur.seq, dma_cur.at>> \notin Under \cup landed
  BY <1>1, <1>2, <1>3 DEF IInv, ChunkInv
<1>5. dma_cur.seq \in DOMAIN live
  BY <1>1, <1>2 DEF IInv, QueueInv
<1>6. live[dma_cur.seq].outstanding \in Nat
  BY <1>0, <1>5 DEF CoreTypes, DescState
<1> QED
  BY <1>0, <1>2, <1>4, <1>5, <1>6, DescFields DEF cur

\* A chunk from LOCAL to LOCAL.
LEMMA EmitSelfStep ==
  ASSUME IInv, EmitSelf
  PROVE  IInv'
<1>0. CoreTypes /\ OtherTypes
  BY TypesSplit DEF IInv
<1>1. /\ Emitting
      /\ Advance(live)
      /\ UNCHANGED <<descs, dma_q, resp, req, inflight>>
      /\ landed' = landed \cup {cur}
  BY DEF EmitSelf, netVars
<1>2. OtherTypes'
  <2>1. /\ rd > 0 /\ wr > 0 /\ rd' = rd - 1 /\ wr' = wr - 1 /\ burst' = burst + 1
        /\ UNCHANGED <<seqVars, descs, stage, remote>>
    BY DEF EmitSelf, CanCopy
  <2> QED
    BY <1>0, <2>1 DEF OtherTypes, seqVars
<1>3. Under' = Under /\ (Under \cup landed)' = Under \cup landed \cup {cur}
  BY <1>1 DEF Under
<1>4. \A u : UnderOf(u)' = UnderOf(u)
  BY <1>3 DEF UnderOf
<1>5. live \in [DOMAIN live -> DescState]
  BY <1>0 DEF CoreTypes
<1>6. /\ IsFiniteSet(Under') /\ (req \cap resp = {})' /\ inflight' \in Nat
      /\ inflight' = Cardinality(Under') /\ inflight' <= MaxInflight
  BY <1>0, <1>1, <1>3 DEF IInv, CountInv, CoreTypes
<1>7. \A u \in DOMAIN live :
        /\ live[u].outstanding = Cardinality(UnderOf(u)')
        /\ live[u].gen_done <=> live[u].gen_done
        /\ live[u].done <=> live[u].done
        /\ u # dma_cur.seq => live[u] = live[u]
  BY <1>4 DEF IInv, CountInv
<1>8. \A c \in Under' : Kind(c) \in {"push", "pull"}
  BY <1>3 DEF IInv, ChunkInv
<1> QED
  BY <1>1, <1>2, <1>3, <1>5, <1>6, <1>7, <1>8, EmitStep

\* A chunk goes out, or a request for one.
LEMMA EmitRemoteStep ==
  ASSUME IInv, EmitRemote
  PROVE  IInv'
<1> DEFINE s == dma_cur.seq
           L0 == [live EXCEPT ![s].outstanding = @ + 1]
<1>0. CoreTypes /\ OtherTypes
  BY TypesSplit DEF IInv
<1>1. /\ Emitting /\ dma_active /\ CanSend
      /\ Advance(L0)
      /\ UNCHANGED <<descs, dma_q, resp, landed>>
      /\ req' = req \cup {cur} /\ inflight' = inflight + 1
  BY DEF EmitRemote, Emitting
<1>2. OtherTypes'
  <2>1. /\ rd' = (IF Kind(cur) = "push" THEN rd - 1 ELSE rd)
        /\ Kind(cur) = "push" => rd > 0
        /\ burst' = burst + 1
        /\ UNCHANGED <<seqVars, descs, stage, wr, remote>>
    BY DEF EmitRemote, CanSend
  <2>2. rd' \in Nat
    BY <1>0, <2>1 DEF OtherTypes
  <2> QED
    BY <1>0, <2>1, <2>2 DEF OtherTypes, seqVars
<1>3. /\ cur \notin Under \cup landed
      /\ s \in DOMAIN live /\ live[s].outstanding \in Nat
      /\ descs[s].kind \in Kinds
  BY <1>1, CurIsNew
<1>4. Under' = Under \cup {cur} /\ (Under \cup landed)' = Under \cup landed \cup {cur}
  BY <1>1 DEF Under
<1>5. /\ DOMAIN L0 = DOMAIN live
      /\ L0 \in [DOMAIN L0 -> DescState]
      /\ \A u \in DOMAIN live : u # s => L0[u] = live[u]
      /\ L0[s].outstanding = live[s].outstanding + 1
      /\ L0[s].gen_done <=> live[s].gen_done
      /\ L0[s].done <=> live[s].done
  <2>1. live \in [DOMAIN live -> DescState] /\ live[s].outstanding + 1 \in Nat
    BY <1>0, <1>3 DEF CoreTypes
  <2> QED
    BY <1>3, <2>1, ExceptOutstanding
<1> HIDE DEF L0
<1>6. IsFiniteSet(Under') /\ Cardinality(Under') = Cardinality(Under) + 1
  <2>1. IsFiniteSet(Under) /\ cur \notin Under
    BY <1>3 DEF IInv, CountInv
  <2> QED
    BY <1>4, <2>1, FS_AddElement
<1>7. \A u \in DOMAIN live : L0[u].outstanding = Cardinality(UnderOf(u)')
  <2> TAKE u \in DOMAIN live
  <2>0. live[u].outstanding = Cardinality(UnderOf(u)) /\ cur[1] = s
    BY DEF IInv, CountInv, cur
  <2>1. CASE u # s
    <3>1. UnderOf(u)' = UnderOf(u)
      BY <1>4, <2>0, <2>1 DEF UnderOf
    <3> QED
      BY <1>5, <2>0, <2>1, <3>1
  <2>2. CASE u = s
    <3>1. UnderOf(u)' = UnderOf(u) \cup {cur} /\ cur \notin UnderOf(u)
      BY <1>3, <1>4, <2>0, <2>2 DEF UnderOf
    <3>2. IsFiniteSet(UnderOf(u))
      BY FS_Subset DEF UnderOf, IInv, CountInv
    <3>3. Cardinality(UnderOf(u)') = Cardinality(UnderOf(u)) + 1
      BY <3>1, <3>2, FS_AddElement
    <3> QED
      BY <1>5, <2>0, <2>2, <3>3
  <2> QED
    BY <2>1, <2>2
<1>8. /\ (req \cap resp = {})' /\ inflight' \in Nat
      /\ inflight' = Cardinality(Under') /\ inflight' <= MaxInflight
  <2>1. (req \cap resp = {})'
    BY <1>1, <1>3 DEF IInv, CountInv, Under
  <2>2. inflight \in Nat /\ inflight < MaxInflight /\ inflight = Cardinality(Under)
    BY <1>0, <1>1 DEF CanSend, IInv, CountInv, CoreTypes
  <2> QED
    BY <1>1, <1>6, <2>1, <2>2, ConfigAssumption
<1>9. \A c \in Under' : Kind(c) \in {"push", "pull"}
  <2>1. Kind(cur) \in {"push", "pull"}
    BY <1>1, <1>3 DEF CanSend, Kind, cur, Kinds
  <2> QED
    BY <1>4, <2>1 DEF IInv, ChunkInv
<1> QED
  BY <1>1, <1>2, <1>4, <1>5, <1>6, <1>7, <1>8, <1>9, EmitStep

-----------------------------------------------------------------------------
(* The sequencer issues a descriptor.                                      *)

\* What a transfer instruction asks for.
LEMMA TransferOperands ==
  ASSUME TypeOK, pc <= Len(prog), in.op \in {"DMA", "LOAD_SHARED", "STORE_SHARED"}
  PROVE  in.kind \in Kinds /\ in.n \in Nat \ {0}
<1>1. prog \in Seq(Instr) /\ pc \in 1 .. Len(prog)
  BY ProgramsAssumption DEF TypeOK
<1> HIDE DEF Instr
<1>2. in \in Instr
  BY <1>1 DEF in
<1> QED
  BY <1>2 DEF Instr, Kinds

\* A descriptor is queued.
LEMMA IssueDmaStep ==
  ASSUME IInv, IssueDma
  PROVE  IInv'
<1> DEFINE d == [kind |-> in.kind, n |-> in.n]
           fresh == [outstanding |-> 0, gen_done |-> FALSE, done |-> FALSE]
<1>0. CoreTypes /\ OtherTypes
  BY TypesSplit DEF IInv
<1>1. /\ descs' = Append(descs, d)
      /\ dma_q' = Append(dma_q, next_seq)
      /\ live' = [u \in DOMAIN live \cup {next_seq} |->
                    IF u = next_seq THEN fresh ELSE live[u]]
      /\ UNCHANGED <<dma_active, dma_cur, inflight, req, resp, landed>>
  BY DEF IssueDma, EndTick, netVars
<1>2. in.kind \in Kinds /\ in.n \in Nat \ {0}
  BY TransferOperands DEF IInv, IssueDma, MayIssue, ProgramLeft
<1> HIDE DEF d, fresh
<1>3. d \in [kind : Kinds, n : Nat \ {0}]
  BY <1>2 DEF d
<1>4. /\ Len(descs) \in Nat /\ Len(descs') = Len(descs) + 1
      /\ next_seq = Len(descs) + 1
      /\ \A u \in 1 .. Len(descs) : descs'[u] = descs[u]
      /\ DOMAIN descs = 1 .. Len(descs) /\ DOMAIN descs' = 1 .. (Len(descs) + 1)
      /\ descs'[Len(descs) + 1] = d
      /\ descs' \in Seq([kind : Kinds, n : Nat \ {0}])
  <2> DEFINE D == [kind : Kinds, n : Nat \ {0}]
  <2>1. descs \in Seq(D) /\ d \in D
    BY <1>0, <1>3 DEF CoreTypes
  <2> HIDE DEF D
  <2>2. /\ Len(descs) \in Nat /\ Len(descs') = Len(descs) + 1
        /\ next_seq = Len(descs) + 1
        /\ \A u \in 1 .. Len(descs) : descs'[u] = descs[u]
        /\ DOMAIN descs = 1 .. Len(descs) /\ DOMAIN descs' = 1 .. (Len(descs) + 1)
        /\ descs'[Len(descs) + 1] = d
        /\ descs' \in Seq(D)
    BY <1>1, <2>1 DEF next_seq
  <2> QED
    BY <2>2 DEF D
<1>5. /\ Len(dma_q) \in Nat /\ Len(dma_q') = Len(dma_q) + 1
      /\ \A i \in 1 .. Len(dma_q) : dma_q'[i] = dma_q[i]
      /\ dma_q'[Len(dma_q) + 1] = next_seq
      /\ dma_q' \in Seq(Nat)
  <2>1. dma_q \in Seq(Nat) /\ next_seq \in Nat
    BY <1>0, <1>4 DEF CoreTypes
  <2> QED
    BY <1>1, <2>1
<1>6. Edge' = Edge /\ Edge \in Nat /\ Edge <= Len(descs) /\ Edge + Len(dma_q) = Len(descs)
  BY <1>4, <1>5 DEF Edge, IInv, QueueInv
<1>7. /\ DOMAIN live' = DOMAIN live \cup {Len(descs) + 1}
      /\ Len(descs) + 1 \notin DOMAIN live
      /\ \A u \in DOMAIN live : live'[u] = live[u]
      /\ live'[Len(descs) + 1] = fresh
      /\ DOMAIN live \subseteq 1 .. Len(descs)
  <2>1. DOMAIN live \subseteq 1 .. Len(descs)
    BY <1>0, <1>4 DEF CoreTypes
  <2> QED
    BY <1>1, <1>4, <2>1
<1>8. /\ fresh \in DescState /\ fresh.outstanding = 0
      /\ ~fresh.gen_done /\ ~fresh.done
  BY DEF fresh, DescState
<1>9. OtherTypes'
  <2>1. pc' = pc + 1 /\ sync_wait' \in {0, next_seq} /\ UNCHANGED halted
        /\ stage' = "ingress" /\ rd' = RdPorts /\ wr' = WrPorts
        /\ UNCHANGED <<prog, burst, remote>>
    BY DEF IssueDma, EndTick
  <2>2. RdPorts \in Nat /\ WrPorts \in Nat
    BY ConfigAssumption
  <2> QED
    BY <1>0, <1>4, <2>1, <2>2 DEF OtherTypes
<1>10. CoreTypes'
  <2>1. live' \in [DOMAIN live' -> DescState]
    BY <1>0, <1>1, <1>8 DEF CoreTypes
  <2>2. DOMAIN live' \subseteq DOMAIN descs'
    BY <1>4, <1>7
  <2>3. DOMAIN descs \subseteq DOMAIN descs'
    BY <1>4
  <2>4. \A S : S \in SUBSET ((DOMAIN descs) \X Nat)
                => S \in SUBSET ((DOMAIN descs') \X Nat)
    BY <2>3
  <2>5. /\ req' \in SUBSET ((DOMAIN descs') \X Nat)
        /\ resp' \in SUBSET ((DOMAIN descs') \X Nat)
        /\ landed' \in SUBSET ((DOMAIN descs') \X Nat)
    BY <1>0, <1>1, <2>4 DEF CoreTypes
  <2>6. /\ dma_active' \in BOOLEAN
        /\ dma_cur' \in [seq : Nat, at : Nat, setup : Nat]
        /\ inflight' \in Nat
    BY <1>0, <1>1 DEF CoreTypes
  <2> QED
    BY <1>4, <1>5, <2>1, <2>2, <2>5, <2>6 DEF CoreTypes
<1>11. QueueInv'
  <2>1. \A i \in 1 .. Len(dma_q') : dma_q'[i] = Edge' + i
    <3> SUFFICES ASSUME NEW i \in 1 .. Len(dma_q) + 1 PROVE dma_q'[i] = Edge + i
      BY <1>5, <1>6
    <3>1. CASE i = Len(dma_q) + 1
      <4>1. dma_q'[i] = Len(descs) + 1
        BY Zenon, <1>4, <1>5, <3>1
      <4>2. Len(descs) + 1 = Edge + i
        <5>1. /\ Edge + Len(dma_q) = Len(descs) /\ i = Len(dma_q) + 1
              /\ Edge \in Nat /\ Len(dma_q) \in Nat /\ Len(descs) \in Nat
          BY Zenon, <1>4, <1>5, <1>6, <3>1
        <5> QED
          BY <5>1
      <4> QED
        BY Zenon, <4>1, <4>2
    <3>2. CASE i \in 1 .. Len(dma_q)
      BY <1>5, <3>2 DEF IInv, QueueInv
    <3> QED
      BY <1>5, <3>1, <3>2
  <2>2. dma_active' => /\ Edge' >= 1 /\ dma_cur'.seq = Edge'
                       /\ dma_cur'.at < descs'[Edge'].n
    BY <1>1, <1>4, <1>6 DEF IInv, QueueInv
  <2>3. \A u \in DOMAIN descs' :
          u > Edge' \/ (dma_active' /\ u = Edge') => u \in DOMAIN live'
    BY <1>1, <1>4, <1>6, <1>7 DEF IInv, QueueInv
  <2> QED
    BY <1>6, <2>1, <2>2, <2>3 DEF QueueInv
<1>12. FlagsInv'
  <2> SUFFICES ASSUME NEW u \in DOMAIN live'
               PROVE  /\ live'[u].gen_done <=> u <= Edge /\ ~(dma_active /\ u = Edge)
                      /\ live'[u].done <=> live'[u].gen_done /\ live'[u].outstanding = 0
    BY <1>1, <1>6 DEF FlagsInv
  <2>1. CASE u \in DOMAIN live
    BY Zenon, <1>7, <2>1 DEF IInv, FlagsInv
  <2>2. CASE u = Len(descs) + 1
    <3>1. ~(u <= Edge)
      BY <1>4, <1>6, <2>2
    <3> QED
      BY Zenon, <1>7, <1>8, <2>2, <3>1
  <2> QED
    BY <1>7, <2>1, <2>2
<1>13. NewestAreLive'
  BY <1>4, <1>7 DEF IInv, NewestAreLive
<1>14. RetiredHaveLanded'
  BY <1>1, <1>4, <1>7 DEF IInv, RetiredHaveLanded, Chunks
<1>15. Under' = Under /\ \A u : UnderOf(u)' = UnderOf(u)
  BY <1>1 DEF Under, UnderOf
<1>16. \A c \in Under \cup landed : c \in (1 .. Len(descs)) \X Nat
  BY <1>0, <1>4 DEF CoreTypes, Under
<1>17. CountInv'
  <2>1. UnderOf(Len(descs) + 1) = {}
    BY <1>4, <1>16 DEF UnderOf
  <2>2. Cardinality(UnderOf(Len(descs) + 1)) = 0
    BY <2>1, FS_EmptySet
  <2>3. \A u \in DOMAIN live' : live'[u].outstanding = Cardinality(UnderOf(u)')
    <3> TAKE u \in DOMAIN live'
    <3>1. CASE u \in DOMAIN live
      BY <1>7, <1>15, <3>1 DEF IInv, CountInv
    <3>2. CASE u = Len(descs) + 1
      BY <1>7, <1>8, <1>15, <2>2, <3>2
    <3> QED
      BY <1>7, <3>1, <3>2
  <2>4. \A c \in Under' : c[1] \in DOMAIN live'
    BY <1>7, <1>15 DEF IInv, CountInv
  <2>5. /\ IsFiniteSet(Under') /\ (req \cap resp = {})'
        /\ inflight' = Cardinality(Under') /\ inflight' <= MaxInflight
    BY <1>1, <1>15 DEF IInv, CountInv
  <2> QED
    BY <2>3, <2>4, <2>5 DEF CountInv
<1>18. ChunkInv'
  <2>1. \A u \in DOMAIN descs', i \in Nat :
          (<<u, i>> \in Under \cup landed <=> i < descs[u].n /\ Emitted(u, i))'
    <3> SUFFICES ASSUME NEW u \in DOMAIN descs', NEW i \in Nat
                 PROVE  <<u, i>> \in Under \cup landed
                          <=> i < descs'[u].n /\ Emitted(u, i)'
      BY <1>1, <1>15
    <3>1. CASE u \in 1 .. Len(descs)
      <4>1. Emitted(u, i)' <=> Emitted(u, i)
        BY <1>1, <1>6 DEF Emitted
      <4> QED
        BY <1>4, <3>1, <4>1 DEF IInv, ChunkInv
    <3>2. CASE u = Len(descs) + 1
      <4>1. <<u, i>> \notin Under \cup landed
        BY <1>4, <1>16, <3>2
      <4>2. ~Emitted(u, i)'
        BY <1>4, <1>6, <3>2 DEF Emitted
      <4> QED
        BY <4>1, <4>2
    <3> QED
      BY <1>4, <3>1, <3>2
  <2>2. \A c \in Under \cup resp : Kind(c)' = Kind(c)
    BY <1>4, <1>16 DEF Kind, Under
  <2>3. \A c \in Under' : Kind(c)' \in {"push", "pull"}
    BY <1>15, <2>2 DEF IInv, ChunkInv
  <2>4. \A c \in resp' : Kind(c)' = "push" => c \in landed'
    BY <1>1, <2>2 DEF IInv, ChunkInv
  <2> QED
    BY <2>1, <2>3, <2>4 DEF ChunkInv
<1> QED
  BY <1>9, <1>10, <1>11, <1>12, <1>13, <1>14, <1>17, <1>18, TypesSplit
     DEF IInv, CoreTypes, OtherTypes, TypeOK

-----------------------------------------------------------------------------
(* The theorems.                                                           *)

\* Every step keeps the invariant.
LEMMA StepInv == IInv /\ [Next]_vars => IInv'
<1> SUFFICES ASSUME IInv, [Next]_vars PROVE IInv'
  OBVIOUS
<1>1. CASE UNCHANGED vars
  <2>1. OtherTypes'
    BY <1>1, TypesSplit DEF IInv, OtherTypes, vars, seqVars, engVars
  <2>2. UNCHANGED coreVars
    BY <1>1 DEF coreVars, vars, engVars, netVars
  <2> QED
    BY <2>1, <2>2, CoreUnchanged
<1>2. CASE Ingress
  BY <1>2, AnswerStep, PassingStep DEF Ingress
<1>3. CASE Engine
  BY <1>3, ActivateStep, PassingStep, EmitSelfStep, EmitRemoteStep DEF Engine
<1>4. CASE Sequencer
  BY <1>4, SequencerStep, IssueDmaStep DEF Sequencer
<1>5. CASE Outside
  BY <1>5, OutsideStep DEF Outside
<1> QED
  BY <1>1, <1>2, <1>3, <1>4, <1>5 DEF Next, Tick

\* IInv holds in every reachable state, for every program and configuration.
THEOREM Inductive == Spec => []IInv
<1>1. Init => IInv
  BY InitInv
<1>2. IInv /\ [Next]_vars => IInv'
  BY StepInv
<1> QED
  BY <1>1, <1>2, PTL DEF Spec

\* The state of TileCore's DMA side stays well typed.
THEOREM TypeCorrect == Spec => []TypeOK
<1>1. IInv => TypeOK
  BY DEF IInv
<1> QED
  BY <1>1, Inductive, PTL

\* The outstanding descriptors are the newest ones, and one that is no longer
\* outstanding has all its bytes at their destination.
THEOREM RetirementIsSafe == Spec => [](NewestAreLive /\ RetiredHaveLanded)
<1>1. IInv => NewestAreLive /\ RetiredHaveLanded
  BY DEF IInv
<1> QED
  BY <1>1, Inductive, PTL

\* desc_dec_outstanding never throws, whatever order answers come in.
THEOREM NoUnexpectedAnswer == Spec => []AnswersAreExpected
<1>1. IInv => AnswersAreExpected
  <2> SUFFICES ASSUME IInv, NEW c \in resp
               PROVE  c[1] \in DOMAIN live /\ live[c[1]].outstanding > 0 /\ inflight > 0
    BY DEF AnswersAreExpected
  <2>1. /\ c \in Under /\ c \in UnderOf(c[1]) /\ c[1] \in DOMAIN live
        /\ IsFiniteSet(Under) /\ inflight = Cardinality(Under)
        /\ live[c[1]].outstanding = Cardinality(UnderOf(c[1]))
    BY DEF IInv, CountInv, Under, UnderOf
  <2>2. IsFiniteSet(UnderOf(c[1]))
    BY <2>1, FS_Subset DEF UnderOf
  <2>3. /\ Cardinality(Under) \in Nat /\ Cardinality(Under) # 0
        /\ Cardinality(UnderOf(c[1])) \in Nat /\ Cardinality(UnderOf(c[1])) # 0
    BY <2>1, <2>2, FS_CardinalityType, FS_EmptySet
  <2> QED
    BY <2>1, <2>3
<1> QED
  BY <1>1, Inductive, PTL

\* inflight_chunks_ counts exactly the chunks under way and respects its cap.
THEOREM InflightCorrect == Spec => []InflightIsExact
<1>1. IInv => InflightIsExact
  BY DEF IInv, CountInv, InflightIsExact, Under
<1> QED
  BY <1>1, Inductive, PTL

\* The outstanding descriptors are a suffix of the issue order, the retired
\* ones a prefix, and the cut is where their number says.
RetiredPrefix ==
  /\ Cardinality(DOMAIN live) \in Nat
  /\ Cardinality(DOMAIN live) <= Len(descs)
  /\ DOMAIN descs \ DOMAIN live = 1 .. (Len(descs) - Cardinality(DOMAIN live))

\* Descriptors are retired in their order.
LEMMA Prefix == IInv => RetiredPrefix
<1> SUFFICES ASSUME IInv PROVE RetiredPrefix
  OBVIOUS
<1> DEFINE D == DOMAIN live
           n == Len(descs)
<1>1. /\ n \in Nat /\ DOMAIN descs = 1 .. n /\ D \subseteq 1 .. n
      /\ \A s \in D : s .. n \subseteq D
  <2>1. n \in Nat /\ DOMAIN descs = 1 .. n
    BY TypesSplit DEF IInv, CoreTypes
  <2>2. D \subseteq DOMAIN descs /\ \A s \in D : s .. n \subseteq D
    BY DEF IInv, TypeOK, NewestAreLive
  <2> QED
    BY <2>1, <2>2
<1> HIDE DEF D, n
<1>2. IsFiniteSet(1 .. n) /\ Cardinality(1 .. n) = n
  BY <1>1, FS_Interval
<1>3. IsFiniteSet(D) /\ Cardinality(D) \in Nat /\ Cardinality(D) <= n
  <2>1. D \in SUBSET (1 .. n)
    BY <1>1
  <2>2. IsFiniteSet(D) /\ Cardinality(D) <= n
    BY <1>2, <2>1, FS_Subset
  <2> QED
    BY <2>2, FS_CardinalityType
<1>4. ASSUME NEW s \in 1 .. n PROVE s \in D <=> s > n - Cardinality(D)
  <2>1. CASE s \in D
    <3>1. s .. n \subseteq D /\ s \in Int /\ n \in Int /\ s <= n
      BY <1>1, <2>1
    <3>2. Cardinality(s .. n) = n - s + 1
      BY <3>1, FS_Interval
    <3>3. Cardinality(s .. n) <= Cardinality(D)
      BY <1>3, <3>1, FS_Subset
    <3> QED
      BY <1>3, <2>1, <3>1, <3>2, <3>3
  <2>2. CASE s \notin D
    <3>1. D \subseteq (s + 1) .. n
      BY <1>1, <2>2
    <3>2. IsFiniteSet((s + 1) .. n) /\ Cardinality((s + 1) .. n) = n - s
      <4>1. s + 1 \in Int /\ n \in Int /\ s <= n /\ s \in Int
        BY <1>1
      <4>2. CASE s + 1 <= n
        BY <4>1, <4>2, FS_Interval
      <4>3. CASE s = n
        BY <4>1, <4>3, FS_Interval
      <4> QED
        BY <4>1, <4>2, <4>3
    <3>3. Cardinality(D) <= n - s
      BY <3>1, <3>2, FS_Subset
    <3> QED
      BY <1>1, <1>3, <2>2, <3>3
  <2> QED
    BY <2>1, <2>2
<1>5. DOMAIN descs \ D = 1 .. (n - Cardinality(D))
  BY <1>1, <1>3, <1>4
<1> QED
  BY <1>3, <1>5 DEF D, n, RetiredPrefix

\* DMA_FENCE keep=N passes only when all but the newest N descriptors have
\* landed, for every N and every interleaving of answers.
THEOREM FencesDrain == Spec => FenceDrains
<1>1. IInv /\ [Next]_vars =>
        [IssueFence =>
           \A s \in 1 .. Len(descs) - in.keep : Chunks(s) \subseteq landed]_vars
  <2> SUFFICES ASSUME IInv, IssueFence, NEW s \in 1 .. Len(descs) - in.keep
               PROVE  Chunks(s) \subseteq landed
    OBVIOUS
  <2>1. in.keep \in Nat
    <3>1. prog \in Seq(Instr) /\ pc \in 1 .. Len(prog) /\ in.op = "DMA_FENCE"
      BY ProgramsAssumption DEF IInv, TypeOK, IssueFence, MayIssue, ProgramLeft
    <3> HIDE DEF Instr
    <3>2. in \in Instr
      BY <3>1 DEF in
    <3> QED
      BY <3>1, <3>2 DEF Instr
  <2>2. Cardinality(DOMAIN live) <= in.keep
    BY DEF IssueFence
  <2>3. /\ Cardinality(DOMAIN live) \in Nat
        /\ DOMAIN descs \ DOMAIN live = 1 .. (Len(descs) - Cardinality(DOMAIN live))
    BY Prefix DEF RetiredPrefix
  <2>4. Len(descs) \in Nat
    BY DEF IInv, TypeOK
  <2>5. s \in DOMAIN descs \ DOMAIN live
    BY <2>1, <2>2, <2>3, <2>4
  <2> QED
    BY <2>5 DEF IInv, RetiredHaveLanded
<1> QED
  BY <1>1, Inductive, PTL DEF Spec, FenceDrains

\* LOAD_SHARED and STORE_SHARED hold the sequencer until their last byte has
\* landed.
THEOREM SyncTransfersBlock == Spec => SyncBlocks
<1>1. IInv /\ [Next]_vars =>
        [(pc' # pc /\ sync_wait # 0) => Chunks(sync_wait) \subseteq landed]_vars
  <2> SUFFICES ASSUME IInv, Next, pc' # pc, sync_wait # 0
               PROVE  Chunks(sync_wait) \subseteq landed
    OBVIOUS
  <2>1. MayIssue
    BY DEF Next, Tick, Ingress, Engine, Sequencer, Outside, IngressAck, IngressData,
       IngressEnd, RemoteAccess, EngineSetup, EngineBegin, Activate, EngineIdle,
       EmitSelf, EmitRemote, EmitStop, SeqHalted, SeqEndOfProgram, SeqSyncStall,
       IssueDma, IssueFence, IssueStall, IssueOther, RemoteCommit, Respond, seqVars
  <2>2. sync_wait \in DOMAIN descs \ DOMAIN live
    BY <2>1 DEF MayIssue, IInv, TypeOK
  <2> QED
    BY <2>2 DEF IInv, RetiredHaveLanded
<1> QED
  BY <1>1, Inductive, PTL DEF Spec, SyncBlocks

-----------------------------------------------------------------------------
(* TileDma implements DmaOrder.                                            *)

\* CheckDone only erases.
LEMMA CheckDoneShrinks ==
  ASSUME NEW L, NEW s
  PROVE  DOMAIN CheckDone(L, s) \subseteq DOMAIN L
BY DEF CheckDone, Retire

\* Every step but IssueDma lands at most one chunk and retires no fewer.
LEMMA OtherSteps ==
  ASSUME IInv, [Next]_vars, ~IssueDma
  PROVE  /\ UNCHANGED descs
         /\ DOMAIN live' \subseteq DOMAIN live
         /\ \/ UNCHANGED landed
            \/ \E c \in Under : landed' = landed \cup {c}
            \/ EmitSelf
<1>1. CASE UNCHANGED vars
  BY <1>1 DEF vars
<1>2. ASSUME NEW c \in resp, IngressAck(c) \/ IngressData(c)
      PROVE  /\ UNCHANGED descs
             /\ DOMAIN live' \subseteq DOMAIN live
             /\ UNCHANGED landed \/ landed' = landed \cup {c}
  BY <1>2, CheckDoneShrinks DEF IngressAck, IngressData, DecOutstanding
<1>3. CASE EmitSelf \/ EmitRemote
  <2>1. UNCHANGED descs /\ (UNCHANGED landed \/ EmitSelf)
    BY <1>3 DEF EmitSelf, EmitRemote
  <2>2. PICK L : DOMAIN L = DOMAIN live /\ Advance(L)
    <3>1. CASE EmitSelf
      BY <3>1 DEF EmitSelf
    <3>2. CASE EmitRemote
      <4> DEFINE L0 == [live EXCEPT ![dma_cur.seq].outstanding = @ + 1]
      <4>1. DOMAIN L0 = DOMAIN live /\ Advance(L0)
        BY <3>2 DEF EmitRemote
      <4> QED
        BY Zenon, <4>1
    <3> QED
      BY <1>3, <3>1, <3>2
  <2>3. DOMAIN live' \subseteq DOMAIN live
    <3> DEFINE M == [L EXCEPT ![dma_cur.seq].gen_done = TRUE]
    <3>1. live' = CheckDone(M, dma_cur.seq) \/ live' = L
      BY <2>2 DEF Advance
    <3>2. DOMAIN M = DOMAIN live
      BY <2>2
    <3> HIDE DEF M
    <3> QED
      BY <2>2, <3>1, <3>2, CheckDoneShrinks
  <2> QED
    BY <2>1, <2>3
<1>4. CASE IngressEnd \/ RemoteAccess \/ EngineSetup \/ EngineBegin \/ EngineIdle
             \/ EmitStop
  BY <1>4 DEF IngressEnd, RemoteAccess, EngineSetup, EngineBegin, Activate, EngineIdle,
     EmitStop
<1>5. CASE SeqHalted \/ SeqEndOfProgram \/ SeqSyncStall \/ IssueFence \/ IssueStall
             \/ IssueOther
  BY <1>5 DEF SeqHalted, SeqEndOfProgram, SeqSyncStall, IssueFence, IssueStall,
     IssueOther, EndTick
<1>6. ASSUME NEW c \in req, RemoteCommit(c) \/ Respond(c)
      PROVE  /\ UNCHANGED descs
             /\ DOMAIN live' \subseteq DOMAIN live
             /\ UNCHANGED landed \/ landed' = landed \cup {c}
  BY <1>6 DEF RemoteCommit, Respond
<1> QED
  BY <1>1, <1>2, <1>3, <1>4, <1>5, <1>6
     DEF Next, Tick, Ingress, Engine, Sequencer, Outside, Under

\* A chunk that is under way, or that the engine is about to copy, is one of
\* its descriptor's chunks.
LEMMA ChunkOfDesc ==
  ASSUME IInv, NEW c, c \in Under \/ (EmitSelf /\ c = cur)
  PROVE  \E s \in DOMAIN descs : c \in Chunks(s)
<1>0. CoreTypes /\ DOMAIN descs = 1 .. Len(descs)
  BY TypesSplit DEF IInv, CoreTypes
<1>1. \E s \in DOMAIN descs, i \in Nat : c = <<s, i>> /\ i < descs[s].n
  <2>1. CASE c \in Under
    <3>1. PICK s \in DOMAIN descs, i \in Nat : c = <<s, i>>
      BY <1>0, <2>1 DEF CoreTypes, Under
    <3> QED
      BY <2>1, <3>1 DEF IInv, ChunkInv
  <2>2. CASE EmitSelf /\ c = cur
    <3>1. dma_active
      BY <2>2 DEF EmitSelf, Emitting
    <3>2. /\ dma_cur.seq = Edge /\ Edge >= 1 /\ Edge \in Nat
          /\ dma_cur.at < descs[Edge].n /\ dma_cur.at \in Nat
      BY <1>0, <3>1 DEF IInv, QueueInv, CoreTypes
    <3>3. Len(dma_q) \in Nat /\ Len(descs) \in Nat
      BY <1>0 DEF CoreTypes
    <3>4. Edge \in DOMAIN descs
      BY <1>0, <3>2, <3>3 DEF Edge
    <3> QED
      BY <2>2, <3>2, <3>4 DEF cur
  <2> QED
    BY <2>1, <2>2
<1>2. PICK s \in DOMAIN descs, i \in Nat : c = <<s, i>> /\ i < descs[s].n
  BY <1>1
<1>3. descs[s].n \in Nat
  BY <1>0, <1>2, DescFields
<1> QED
  BY <1>2, <1>3 DEF Chunks

\* Every step is one of the contract, or none.
LEMMA StepRefines ==
  ASSUME IInv, RetiredPrefix', RetiredHaveLanded', [Next]_vars
  PROVE  [Order!Next]_(Order!vars)
<1>1. CASE IssueDma
  <2>1. in.kind \in Kinds /\ in.n \in Nat \ {0}
    BY <1>1, TransferOperands DEF IInv, IssueDma, MayIssue, ProgramLeft
  <2> DEFINE d == [kind |-> in.kind, n |-> in.n]
  <2>2. d \in Order!Desc
    BY <2>1 DEF Order!Desc
  <2> HIDE DEF d
  <2>3. /\ descs' = Append(descs, d) /\ landed' = landed
        /\ DOMAIN live' = DOMAIN live \cup {next_seq}
    BY <1>1 DEF IssueDma, EndTick, d
  <2>4. descs \in Seq([kind : Kinds, n : Nat \ {0}]) /\ DOMAIN live \subseteq DOMAIN descs
    BY DEF IInv, TypeOK
  <2>5. /\ Len(descs) \in Nat /\ Len(descs') = Len(descs) + 1
        /\ descs'[Len(descs) + 1] = d
        /\ DOMAIN descs = 1 .. Len(descs) /\ DOMAIN descs' = 1 .. Len(descs) + 1
    <3> DEFINE D == [kind : Kinds, n : Nat \ {0}]
    <3>1. descs \in Seq(D) /\ D = Order!Desc
      BY <2>4 DEF Order!Desc
    <3> HIDE DEF D
    <3> QED
      BY <2>2, <2>3, <3>1
  <2>6. (DOMAIN descs \ DOMAIN live)' = DOMAIN descs \ DOMAIN live
    BY <2>3, <2>4, <2>5 DEF next_seq
  <2>7. Order!Issue
    BY <2>2, <2>3, <2>5, <2>6 DEF Order!Issue
  <2> QED
    BY <2>7 DEF Order!Next
<1>2. CASE ~IssueDma
  <2>1. UNCHANGED descs /\ DOMAIN live' \subseteq DOMAIN live
    BY <1>2, OtherSteps
  <2>2. \/ UNCHANGED landed
        \/ \E s \in DOMAIN descs : \E c \in Chunks(s) : landed' = landed \cup {c}
    <3>1. CASE UNCHANGED landed
      BY <3>1
    <3>2. ASSUME NEW c \in Under, landed' = landed \cup {c}
          PROVE  \E s \in DOMAIN descs : \E e \in Chunks(s) : landed' = landed \cup {e}
      BY <3>2, ChunkOfDesc
    <3>3. CASE EmitSelf
      <4>1. landed' = landed \cup {cur}
        BY <3>3 DEF EmitSelf
      <4> QED
        BY <3>3, <4>1, ChunkOfDesc
    <3> QED
      BY <1>2, <3>1, <3>2, <3>3, OtherSteps
  <2> DEFINE k == Len(descs) - Cardinality(DOMAIN live')
  <2>3. k \in 0 .. Len(descs) /\ (DOMAIN descs \ DOMAIN live)' = 1 .. k
    <3>1. /\ Cardinality(DOMAIN live') \in Nat
          /\ Cardinality(DOMAIN live') <= Len(descs)
          /\ (DOMAIN descs \ DOMAIN live)' = 1 .. k
      BY <2>1 DEF RetiredPrefix
    <3>2. Len(descs) \in Nat
      BY DEF IInv, TypeOK
    <3> QED
      BY <3>1, <3>2
  <2>4. DOMAIN descs \ DOMAIN live \subseteq (DOMAIN descs \ DOMAIN live)'
    BY <2>1
  <2>5. \A s \in (DOMAIN descs \ DOMAIN live)' : Order!Chunks(s) \subseteq landed'
    BY <2>1 DEF RetiredHaveLanded, Chunks, Order!Chunks
  <2>6. \A s : Order!Chunks(s) = Chunks(s)
    BY DEF Chunks, Order!Chunks
  <2> HIDE DEF k
  <2>7. Order!LandAndRetire
    BY <2>1, <2>2, <2>3, <2>4, <2>5, <2>6 DEF Order!LandAndRetire
  <2> QED
    BY <2>7 DEF Order!Next
<1> QED
  BY <1>1, <1>2

\* The engine with its queue, its one channel, overtaking answers and port
\* stalls implements the in-order contract that programs are written against.
THEOREM Refinement == Spec => Contract
<1>1. Init => Order!Init
  BY DEF Init, Order!Init
<1>2. IInv /\ RetiredPrefix' /\ RetiredHaveLanded' /\ [Next]_vars => [Order!Next]_(Order!vars)
  BY StepRefines
<1>3. IInv => RetiredPrefix /\ RetiredHaveLanded
  BY Prefix DEF IInv
<1> QED
  BY <1>1, <1>2, <1>3, Inductive, PTL DEF Spec, Contract, Order!Spec

-----------------------------------------------------------------------------
(* idle(): which tiles that have halted without DMA work wait for ever.    *)

Synchronous == {"LOAD_SHARED", "STORE_SHARED"}

\* The sequencer waits only for the instruction it has just issued; if it has
\* halted since, then because there was none behind it.  And behind the end of
\* a program whose last transfer is synchronous it never stops waiting.
WaitInv ==
  /\ sync_wait # 0 => /\ pc - 1 \in DOMAIN prog
                      /\ prog[pc - 1].op \in Synchronous
                      /\ halted => pc > Len(prog)
  /\ EndedInSync => sync_wait # 0

\* Every step keeps it: the end of the program halts the tile and leaves
\* sync_wait as it is; whatever else issues lies inside the program, and only
\* a synchronous transfer leaves the sequencer waiting.
LEMMA WaitStep ==
  ASSUME TypeOK, WaitInv, [Next]_vars
  PROVE  WaitInv'
<1>0. prog \in Seq(Instr) /\ prog \in Programs /\ Len(prog) \in Nat
      /\ DOMAIN prog = 1 .. Len(prog) /\ pc \in Nat \ {0} /\ Len(descs) \in Nat
  BY ProgramsAssumption DEF TypeOK
<1>1. CASE SeqEndOfProgram
  <2>1. pc > Len(prog) /\ UNCHANGED <<prog, pc, sync_wait>>
    BY <1>1 DEF SeqEndOfProgram, EndTick
  <2> QED  BY <1>0, <2>1 DEF WaitInv, EndedInSync
<1>2. CASE IssueDma
  <2>1. /\ ~halted /\ halted' = halted /\ pc \in DOMAIN prog /\ pc' = pc + 1 /\ prog' = prog
        /\ in.op \in {"DMA", "LOAD_SHARED", "STORE_SHARED"}
        /\ sync_wait' = IF in.op = "DMA" THEN 0 ELSE next_seq
    BY <1>0, <1>2 DEF IssueDma, EndTick, MayIssue, ProgramLeft
  <2>2. next_seq # 0
    BY <1>0 DEF next_seq
  <2>3. EndedInSync' => pc = Len(prog) /\ prog[Len(prog)].op \in Synchronous
    <3>1. EndedInSync' => pc' > Len(prog') /\ prog'[Len(prog')].op \in Synchronous
      BY DEF EndedInSync, Synchronous
    <3>2. Len(prog') = Len(prog) /\ prog'[Len(prog')] = prog[Len(prog)]
      BY <2>1
    <3>3. pc \in 1 .. Len(prog) /\ pc' = pc + 1
      BY <1>0, <2>1
    <3>4. pc' > Len(prog') => pc = Len(prog)
      BY <1>0, <3>2, <3>3
    <3> QED  BY <3>1, <3>2, <3>4
  <2>4. EndedInSync' => sync_wait' # 0
    <3> SUFFICES ASSUME EndedInSync' PROVE in.op # "DMA"
      BY <2>1, <2>2
    <3> QED  BY <2>3 DEF in, Synchronous
  <2>5. pc' - 1 = pc /\ halted' = FALSE
    BY <1>0, <2>1
  <2> QED  BY <2>1, <2>4, <2>5 DEF WaitInv, Synchronous, in
<1>3. CASE IssueFence \/ IssueStall \/ IssueOther
  <2>1. sync_wait' = 0 /\ prog' = prog /\ pc \in DOMAIN prog
        /\ (pc' = pc \/ (pc' = pc + 1 /\ in.op \in {"DMA_FENCE", "NOP", "HALT"}))
    BY <1>0, <1>3
    DEF IssueFence, IssueStall, IssueOther, EndTick, MayIssue, ProgramLeft
  <2>2. ~EndedInSync'
    BY <1>0, <2>1 DEF EndedInSync, in
  <2> QED  BY <2>1, <2>2 DEF WaitInv
<1>4. CASE UNCHANGED seqVars
  BY <1>4 DEF seqVars, WaitInv, EndedInSync
<1>5. Ingress \/ Engine \/ SeqHalted \/ SeqSyncStall \/ Outside \/ UNCHANGED vars
        => UNCHANGED seqVars
  BY DEF Ingress, Engine, Outside, IngressAck, IngressData, IngressEnd, RemoteAccess,
     EngineSetup, EngineBegin, Activate, EngineIdle, EmitSelf, EmitRemote, EmitStop,
     SeqHalted, SeqSyncStall, EndTick, RemoteCommit, Respond, seqVars, vars
<1> QED
  BY <1>1, <1>2, <1>3, <1>4, <1>5 DEF Next, Tick, Sequencer

\* Of any program, with HALT at its end or without: a tile that has halted
\* with no DMA work is idle, as Chip::run relies on (tile_core.h, idle), if
\* and only if the program does not end in a synchronous transfer.
THEOREM DrainedTilesAreIdle == Spec => []IdleUnlessCutOff
<1>1. Init => WaitInv
  BY ProgramsAssumption DEF Init, WaitInv, EndedInSync
<1>2. TypeOK /\ WaitInv /\ [Next]_vars => WaitInv'
  BY WaitStep
<1>3. TypeOK /\ WaitInv => IdleUnlessCutOff
  <2> SUFFICES ASSUME TypeOK, WaitInv, Drained
               PROVE  sync_wait = 0 <=> ~EndedInSync
    BY DEF IdleUnlessCutOff, Idle
  <2>1. prog \in Seq(Instr) /\ DOMAIN prog = 1 .. Len(prog) /\ Len(prog) \in Nat /\ pc \in Nat
    BY ProgramsAssumption DEF TypeOK
  <2>2. ASSUME sync_wait # 0 PROVE EndedInSync
    <3>1. pc - 1 \in 1 .. Len(prog) /\ pc > Len(prog) /\ prog[pc - 1].op \in Synchronous
      BY <2>1, <2>2 DEF WaitInv, Drained
    <3>2. pc - 1 = Len(prog) /\ prog # <<>>
      BY <2>1, <3>1
    <3> QED  BY <3>1, <3>2 DEF EndedInSync, Synchronous
  <2> QED  BY <2>2 DEF WaitInv
<1> QED
  BY <1>1, <1>2, <1>3, TypeCorrect, PTL DEF Spec
=============================================================================
