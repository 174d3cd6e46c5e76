--------------------------- MODULE ExplorationProofs ---------------------------
(***************************************************************************)
(* What the locks, the stamp, the marker and the caches of dse_bo protect, *)
(* for any number of processes, configurations and anchors, any scenes and *)
(* any number of kills.                                                    *)
(***************************************************************************)
EXTENDS Exploration, FiniteSetTheorems, TLAPS

AllConfigs == Configs \cup {Baseline}
Steps ==
  {"idle", "look", "reuse", "build", "lock", "locked", "make", "stamp", "check", "vlock",
   "vlocked", "pass", "fail", "run", "write", "sim", "open", "close", "done", "raised",
   "fork", "baseline", "join"}
ThreadType == [Threads -> [at : Steps, cfg : AllConfigs, out : Results]]

SearchType == search \in [Procs -> [kind : Kinds, budget : Nat, kills : Nat]]
BuildType ==
  /\ artifact \in [Variants -> {"none", Torn, "whole"}]
  /\ stamp \in [Variants -> BOOLEAN]
  /\ builder \in [Variants -> Threads \cup {Free}]
GateType ==
  /\ marker \in [Variants -> {Absent, Torn, "PASS", "INVALID"}]
  /\ judge \in [Variants -> Threads \cup {Free}]
CacheType == cache \in [Places -> Results \cup {Absent, Torn}]
Typed == SearchType /\ th \in ThreadType /\ BuildType /\ GateType /\ CacheType

Running == {"run", "write", "sim"}
Building == {"locked", "make", "stamp"}
Judging == {"vlocked", "pass", "fail"}
Built == {"check", "vlock"} \cup Judging \cup Running
Answering == {"open", "close", "done"}
Forking == {"fork", "baseline", "join"}

\* Of the files alone.
StampIsTrue == \A v \in Variants : stamp[v] => artifact[v] = "whole"
PassIsSound == \A v \in Variants : marker[v] = "PASS" => v \in Sound
CacheIsSound ==
  \A f \in Places : /\ cache[f] \in Numbers => Variant(f[2]) \in Sound
                    /\ f[1] = "anchor" => cache[f] # "invalid"
ObservedIsSound == \A r \in observed : r.out \in Numbers => Variant(r.cfg) \in Sound

\* Of a thread that builds, of one that uses a build, judges, or has a result.
BuildOk(t) ==
  /\ th[t].at \in Building => builder[V(t)] = t
  /\ At(t, "stamp") => artifact[V(t)] = "whole"
  /\ th[t].at \in Built => stamp[V(t)]
JudgeOk(t) ==
  /\ th[t].at \in Judging => judge[V(t)] = t
  /\ th[t].at \in {"pass", "fail"} => marker[V(t)] = Torn
ResultOk(t) ==
  /\ th[t].at \in {"pass"} \cup Running => V(t) \in Sound
  /\ th[t].at \in Answering /\ th[t].out \in Numbers => V(t) \in Sound
\* An anchor's thread has a feasible configuration, hence a number or nothing.
AnchorOk(t) ==
  /\ th[t].at \in Forking => Kind(t) \in OverAnchors /\ Feasible(th[t].cfg)
  /\ Kind(t) \in OverAnchors /\ t[2] # Main =>
       /\ ~At(t, "idle") => Feasible(th[t].cfg)
       /\ th[t].at \in Answering => th[t].out \in Numbers
ThreadOk(t) == BuildOk(t) /\ JudgeOk(t) /\ ResultOk(t) /\ AnchorOk(t)

\* The pool that a main thread waits for has its configuration.
PoolOk(p) ==
  At(<<p, Main>>, "join") => \A u \in Pool(p) : th[u].cfg = th[<<p, Main>>].cfg

\* The inductive invariant.
IInv ==
  /\ Typed
  /\ StampIsTrue /\ PassIsSound /\ CacheIsSound /\ ObservedIsSound
  /\ \A t \in Threads : ThreadOk(t)
  /\ \A p \in Procs : PoolOk(p)

-----------------------------------------------------------------------------
(* Threads, variants and places.                                           *)

\* A thread is a process and a name, and nobody is none.
LEMMA ThreadIsProcAndName ==
  ASSUME NEW t \in Threads
  PROVE  /\ t[1] \in Procs /\ t[2] \in {Main} \cup Anchors /\ t = <<t[1], t[2]>>
         /\ t # Free
BY ConstantAssumption DEF Threads, Free

\* The main thread and the pool of a process are threads, and distinct.
LEMMA MainIsThread ==
  ASSUME NEW p \in Procs
  PROVE  /\ <<p, Main>> \in Threads /\ Pool(p) \subseteq Threads /\ Pool(p) # {}
         /\ \A u \in Pool(p) : u[1] = p /\ u[2] # Main /\ u # <<p, Main>>
<1>1. Main \notin Anchors /\ Anchors # {}
  BY ConstantAssumption
<1>2. <<p, Main>> \in Threads /\ Pool(p) \subseteq Threads
  BY DEF Threads, Pool
<1>3. Pool(p) # {}
  <2>1. PICK a \in Anchors : TRUE
    BY <1>1
  <2>2. <<p, a>> \in Pool(p)
    BY <2>1 DEF Pool
  <2>3. QED BY <2>2
<1>4. ASSUME NEW u \in Pool(p) PROVE u[1] = p /\ u[2] # Main /\ u # <<p, Main>>
  <2>1. PICK a \in Anchors : u = <<p, a>>
    BY DEF Pool
  <2>2. a # Main
    BY <1>1
  <2>3. QED BY <2>1, <2>2
<1>5. QED BY <1>2, <1>3, <1>4

\* What a thread works on is in range.
LEMMA VariantOfThread ==
  ASSUME th \in ThreadType, NEW t \in Threads
  PROVE  /\ th[t].cfg \in AllConfigs /\ th[t].at \in Steps /\ th[t].out \in Results
         /\ V(t) \in Variants /\ V(t) = Variant(th[t].cfg)
BY DEF ThreadType, AllConfigs, V, Variants

\* A place names its configuration, and only anchors have anchor places.
LEMMA PlaceOfThread ==
  ASSUME th \in ThreadType, SearchType, NEW t \in Threads
  PROVE  /\ Place(t) \in Places /\ Place(t)[2] = th[t].cfg
         /\ Place(t)[1] = "anchor" => Kind(t) \in OverAnchors /\ t[2] # Main
         /\ Kind(t) \in OverAnchors /\ t[2] # Main => Place(t)[1] = "anchor"
<1>1. th[t].cfg \in Configs \cup {Baseline} /\ t[2] \in {Main} \cup Anchors
  BY VariantOfThread, ThreadIsProcAndName DEF AllConfigs
<1>2. /\ PointPlace(t) \in Places /\ PointPlace(t)[2] = th[t].cfg
      /\ TopologyPlace(t) \in Places /\ TopologyPlace(t)[2] = th[t].cfg
      /\ PointPlace(t)[1] # "anchor" /\ TopologyPlace(t)[1] # "anchor"
  BY <1>1 DEF PointPlace, TopologyPlace, Places
<1>3. CASE t[2] = Main
  <2>1. AnchorPlace(t) \in Places /\ AnchorPlace(t)[2] = th[t].cfg
        /\ AnchorPlace(t)[1] # "anchor"
    BY <1>1, <1>3 DEF AnchorPlace, Places
  <2>2. QED BY <1>2, <1>3, <2>1 DEF Place, OverAnchors
<1>4. CASE t[2] # Main
  <2>1. AnchorPlace(t) \in Places /\ AnchorPlace(t)[2] = th[t].cfg
        /\ AnchorPlace(t)[1] = "anchor"
    BY <1>1, <1>4 DEF AnchorPlace, Places
  <2>2. QED BY <1>2, <1>4, <2>1 DEF Place, OverAnchors
<1>5. QED BY <1>3, <1>4

-----------------------------------------------------------------------------
(* A thread goes on.                                                       *)

Moves(t) ==
  /\ th' \in ThreadType
  /\ th'[t].cfg = th[t].cfg
  /\ \A u \in Threads \ {t} : th'[u] = th[u]

\* Goto changes where one thread is.
LEMMA GotoMoves ==
  ASSUME th \in ThreadType, NEW t \in Threads, NEW x \in Steps, Goto(t, x)
  PROVE  Moves(t) /\ th'[t].at = x /\ th'[t].out = th[t].out
BY DEF Goto, Moves, ThreadType

\* Return changes where one thread is, and its result.
LEMMA ReturnMoves ==
  ASSUME th \in ThreadType, NEW t \in Threads, NEW x \in Steps, NEW o \in Results,
         Return(t, x, o)
  PROVE  Moves(t) /\ th'[t].at = x /\ th'[t].out = o
BY DEF Return, Moves, ThreadType

\* Whatever goes wrong, no number comes of it.
Fails(t) ==
  /\ Moves(t)
  /\ th'[t].at \in {"raised", "open", "done"}
  /\ th'[t].at # "raised" => th'[t].out = "invalid" /\ Kind(t) \notin OverAnchors

\* Each of the three ways to fail fails.
LEMMA FailFails ==
  ASSUME th \in ThreadType, NEW t \in Threads, Fail(t)
  PROVE  Fails(t)
<1>0. /\ "invalid" \in Results
      /\ "raised" \in Steps /\ "open" \in Steps /\ "done" \in Steps
  BY DEF Results, Steps
<1>1. CASE Kind(t) \in OverAnchors
  <2>1. Goto(t, "raised")
    BY <1>1 DEF Fail, AnchorRaises, OverAnchors
  <2>2. Moves(t) /\ th'[t].at = "raised"
    BY <1>0, <2>1, GotoMoves
  <2>3. QED BY <2>2 DEF Fails
<1>2. CASE Kind(t) \notin OverAnchors
  <2>1. Return(t, "done", "invalid") \/ Return(t, "open", "invalid")
    BY <1>2 DEF Fail, TopologySkips, PointFails, OverAnchors
  <2>2. Moves(t) /\ th'[t].at \in {"done", "open"} /\ th'[t].out = "invalid"
    BY <1>0, <2>1, ReturnMoves
  <2>3. QED BY <1>2, <2>2 DEF Fails
<1>3. QED BY <1>1, <1>2

-----------------------------------------------------------------------------
(* What has to be shown of a step of thread t.                             *)

\* What the invariant says of the thread that takes a step.
LEMMA OfInvariant ==
  ASSUME IInv, NEW t \in Threads
  PROVE  /\ th \in ThreadType /\ SearchType
         /\ BuildOk(t) /\ JudgeOk(t) /\ ResultOk(t) /\ AnchorOk(t)
         /\ th[t].cfg \in AllConfigs /\ th[t].at \in Steps /\ th[t].out \in Results
         /\ V(t) \in Variants /\ V(t) = Variant(th[t].cfg)
<1>1. th \in ThreadType /\ SearchType /\ ThreadOk(t)
  BY DEF IInv, Typed
<1>2. QED BY <1>1, VariantOfThread DEF ThreadOk

\* The thread stays with its configuration, the others stay as they are.
LEMMA MovesKeeps ==
  ASSUME NEW t \in Threads, th \in ThreadType, Moves(t), search' = search
  PROVE  /\ V(t)' = V(t) /\ Kind(t)' = Kind(t)
         /\ \A u \in Threads \ {t} :
              V(u)' = V(u) /\ Kind(u)' = Kind(u) /\ th'[u] = th[u]
BY DEF Moves, V, Kind

\* A step of t: the files and t, with the other threads, are as they must be.
LEMMA SharedStep ==
  ASSUME IInv, NEW t \in Threads, Moves(t), search' = search,
         BuildType', GateType', CacheType',
         StampIsTrue', PassIsSound', CacheIsSound', ObservedIsSound',
         ThreadOk(t)', ~At(t, "join")',
         \A u \in Threads \ {t} : BuildOk(u)' /\ JudgeOk(u)'
  PROVE  IInv'
<1>1. Typed'
  BY DEF IInv, Typed, Moves, SearchType
<1>2. ASSUME NEW u \in Threads PROVE ThreadOk(u)'
  <2>1. CASE u = t
    BY <2>1
  <2>2. CASE u # t
    <3>1. V(u)' = V(u) /\ Kind(u)' = Kind(u) /\ th'[u] = th[u]
      BY <2>2, MovesKeeps DEF IInv, Typed
    <3>2. ResultOk(u) /\ AnchorOk(u)
      BY OfInvariant
    <3>3. ResultOk(u)' /\ AnchorOk(u)'
      BY <3>1, <3>2 DEF ResultOk, AnchorOk, At
    <3>4. QED BY <2>2, <3>3 DEF ThreadOk
  <2>3. QED BY <2>1, <2>2
<1>3. ASSUME NEW p \in Procs PROVE PoolOk(p)'
  <2>1. <<p, Main>> \in Threads /\ Pool(p) \subseteq Threads
    BY MainIsThread
  <2>2. PoolOk(p) /\ Pool(p)' = Pool(p)
    BY DEF IInv, Pool
  <2>3. \A u \in Threads : th'[u].cfg = th[u].cfg
    BY DEF Moves
  <2>4. At(<<p, Main>>, "join")' => At(<<p, Main>>, "join")
    BY <2>1 DEF Moves, At
  <2>5. QED BY <2>1, <2>2, <2>3, <2>4 DEF PoolOk
<1>4. QED BY <1>1, <1>2, <1>3 DEF IInv

Quiet == UNCHANGED <<search, observed, building, gate, cache>>

\* A step of t that leaves the files alone.
LEMMA QuietStep ==
  ASSUME IInv, NEW t \in Threads, Moves(t), Quiet, ThreadOk(t)', ~At(t, "join")'
  PROVE  IInv'
<1>1. UNCHANGED <<search, observed, artifact, stamp, builder, marker, judge, cache>>
  BY DEF Quiet, building, gate
<1>2. BuildType' /\ GateType' /\ CacheType'
  BY <1>1 DEF IInv, Typed, BuildType, GateType, CacheType
<1>3. StampIsTrue' /\ PassIsSound' /\ CacheIsSound' /\ ObservedIsSound'
  BY <1>1 DEF IInv, StampIsTrue, PassIsSound, CacheIsSound, ObservedIsSound
<1>4. ASSUME NEW u \in Threads \ {t} PROVE BuildOk(u)' /\ JudgeOk(u)'
  <2>1. V(u)' = V(u) /\ th'[u] = th[u]
    BY <1>1, MovesKeeps DEF IInv, Typed
  <2>2. BuildOk(u) /\ JudgeOk(u)
    BY OfInvariant
  <2>3. QED BY <1>1, <2>1, <2>2 DEF BuildOk, JudgeOk, At
<1>5. QED BY <1>1, <1>2, <1>3, <1>4, SharedStep

\* Where a thread holds nothing and claims nothing.
LEMMA PlainOk ==
  ASSUME IInv, NEW t \in Threads, Moves(t), search' = search, ~At(t, "idle"),
         th'[t].at \in {"reuse", "build", "lock", "raised"}
  PROVE  ThreadOk(t)' /\ ~At(t, "join")'
<1>1. V(t)' = V(t) /\ Kind(t)' = Kind(t) /\ th'[t].cfg = th[t].cfg
  BY MovesKeeps, OfInvariant DEF Moves
<1>2. AnchorOk(t)
  BY OfInvariant
<1>3. AnchorOk(t)'
  BY <1>1, <1>2 DEF AnchorOk, At, Answering, Forking
<1>4. BuildOk(t)' /\ JudgeOk(t)' /\ ResultOk(t)'
  BY DEF BuildOk, JudgeOk, ResultOk, At, Building, Built, Judging, Running, Answering
<1>5. QED BY <1>3, <1>4 DEF ThreadOk, At

\* A result that is no number, of a thread that is not an anchor's.
LEMMA InvalidOk ==
  ASSUME IInv, NEW t \in Threads, Moves(t), search' = search, ~At(t, "idle"),
         th'[t].at \in {"open", "done"}, th'[t].out = "invalid",
         Kind(t) \notin OverAnchors \/ t[2] = Main
  PROVE  ThreadOk(t)' /\ ~At(t, "join")'
<1>1. V(t)' = V(t) /\ Kind(t)' = Kind(t) /\ th'[t].cfg = th[t].cfg
  BY MovesKeeps, OfInvariant DEF Moves
<1>2. AnchorOk(t)'
  BY <1>1 DEF AnchorOk, At, Forking
<1>3. ResultOk(t)'
  BY DEF ResultOk, Running, Answering, Numbers
<1>4. BuildOk(t)' /\ JudgeOk(t)'
  BY DEF BuildOk, JudgeOk, At, Building, Built, Judging, Running
<1>5. QED BY <1>2, <1>3, <1>4 DEF ThreadOk, At

\* A thread that has failed.
LEMMA FailsOk ==
  ASSUME IInv, NEW t \in Threads, Fails(t), search' = search, ~At(t, "idle")
  PROVE  ThreadOk(t)' /\ ~At(t, "join")'
<1>1. CASE th'[t].at = "raised"
  BY <1>1, PlainOk DEF Fails
<1>2. CASE th'[t].at # "raised"
  BY <1>2, InvalidOk DEF Fails
<1>3. QED BY <1>1, <1>2

\* A number of a sound variant.
LEMMA NumberOk ==
  ASSUME IInv, NEW t \in Threads, Moves(t), search' = search, ~At(t, "idle"),
         th'[t].at \in {"open", "close", "done"}, th'[t].out \in Numbers, V(t) \in Sound
  PROVE  ThreadOk(t)' /\ ~At(t, "join")'
<1>1. V(t)' = V(t) /\ Kind(t)' = Kind(t) /\ th'[t].cfg = th[t].cfg
  BY MovesKeeps, OfInvariant DEF Moves
<1>2. AnchorOk(t)
  BY OfInvariant
<1>3. AnchorOk(t)'
  BY <1>1, <1>2 DEF AnchorOk, At, Forking
<1>4. ResultOk(t)'
  BY <1>1 DEF ResultOk, Running
<1>5. BuildOk(t)' /\ JudgeOk(t)'
  BY DEF BuildOk, JudgeOk, At, Building, Built, Judging, Running
<1>6. QED BY <1>3, <1>4, <1>5 DEF ThreadOk, At

\* Where a thread relies on the build, outside the gate.
LEMMA BuiltOk ==
  ASSUME IInv, NEW t \in Threads, Moves(t), search' = search, ~At(t, "idle"),
         th'[t].at \in {"check", "vlock"} \cup Running, stamp'[V(t)],
         th'[t].at \in Running => V(t) \in Sound
  PROVE  ThreadOk(t)' /\ ~At(t, "join")'
<1>1. V(t)' = V(t) /\ Kind(t)' = Kind(t) /\ th'[t].cfg = th[t].cfg
  BY MovesKeeps, OfInvariant DEF Moves
<1>2. AnchorOk(t)
  BY OfInvariant
<1>3. AnchorOk(t)'
  BY <1>1, <1>2 DEF AnchorOk, At, Forking, Running, Answering
<1>4. ResultOk(t)'
  BY <1>1 DEF ResultOk, Running, Answering
<1>5. BuildOk(t)' /\ JudgeOk(t)'
  BY <1>1 DEF BuildOk, JudgeOk, At, Building, Built, Judging, Running
<1>6. QED BY <1>3, <1>4, <1>5 DEF ThreadOk, At, Running

-----------------------------------------------------------------------------
(* Steps that change nothing but the thread.                               *)

\* An answer of the cache is sound because the cache is.
LEMMA HitKeeps ==
  ASSUME IInv, NEW t \in Threads, Hit(t), UNCHANGED search
  PROVE  IInv'
<1>1. Quiet /\ ~At(t, "idle") /\ cache[Place(t)] # Absent
  BY DEF Hit, Quiet, files, loop, At
<1>2. /\ Place(t) \in Places /\ Place(t)[2] = th[t].cfg
      /\ Kind(t) \in OverAnchors /\ t[2] # Main => Place(t)[1] = "anchor"
  BY OfInvariant, PlaceOfThread
<1>3. cache[Place(t)] \in Results \cup {Absent, Torn}
  BY <1>2 DEF IInv, Typed, CacheType
<1>4. CASE cache[Place(t)] = Torn
  <2>1. Goto(t, "raised")
    BY <1>4 DEF Hit
  <2>2. Moves(t) /\ th'[t].at = "raised"
    BY <2>1, GotoMoves, OfInvariant DEF Steps
  <2>3. QED BY <1>1, <2>2, PlainOk, QuietStep DEF Quiet
<1>5. CASE cache[Place(t)] # Torn
  <2>1. PICK o \in Results : o = cache[Place(t)]
    BY <1>1, <1>3, <1>5
  <2>2. Return(t, "done", o)
    BY <1>5, <2>1 DEF Hit
  <2>3. Moves(t) /\ th'[t].at = "done" /\ th'[t].out = o
    BY <2>2, ReturnMoves, OfInvariant DEF Steps
  <2>4. CASE o \in Numbers
    <3>1. V(t) \in Sound
      BY <1>2, <2>1, <2>4, OfInvariant DEF IInv, CacheIsSound
    <3>2. QED BY <1>1, <2>3, <2>4, <3>1, NumberOk, QuietStep DEF Quiet
  <2>5. CASE o = "invalid"
    <3>1. Kind(t) \notin OverAnchors \/ t[2] = Main
      BY <1>2, <2>1, <2>5 DEF IInv, CacheIsSound
    <3>2. QED BY <1>1, <2>3, <2>5, <3>1, InvalidOk, QuietStep DEF Quiet
  <2>6. QED BY <2>4, <2>5 DEF Results
<1>6. QED BY <1>4, <1>5

\* No answer of the cache: an anchor has a feasible configuration.
LEMMA MissKeeps ==
  ASSUME IInv, NEW t \in Threads, Miss(t), UNCHANGED search
  PROVE  IInv'
<1>1. Quiet /\ ~At(t, "idle")
  BY DEF Miss, Quiet, files, loop, At
<1>2. AnchorOk(t) /\ th \in ThreadType
  BY OfInvariant
<1>3. CASE ~Feasible(th[t].cfg)
  <2>1. Return(t, "open", "invalid")
    BY <1>3 DEF Miss
  <2>2. Moves(t) /\ th'[t].at = "open" /\ th'[t].out = "invalid"
    BY <1>2, <2>1, ReturnMoves DEF Steps, Results
  <2>3. Kind(t) \notin OverAnchors \/ t[2] = Main
    BY <1>1, <1>2, <1>3 DEF AnchorOk
  <2>4. QED BY <1>1, <2>2, <2>3, InvalidOk, QuietStep DEF Quiet
<1>4. CASE Feasible(th[t].cfg) /\ Kind(t) \in OverAnchors /\ t[2] = Main
  <2>0. t[2] \notin Reused
    BY <1>4, ConstantAssumption
  <2>1. Goto(t, "fork")
    BY <1>4, <2>0 DEF Miss, Goto
  <2>2. Moves(t) /\ th'[t].at = "fork"
    BY <1>2, <2>1, GotoMoves DEF Steps
  <2>3. th'[t].cfg = th[t].cfg /\ Kind(t)' = Kind(t)
    BY <1>2, <2>2, MovesKeeps DEF Moves
  <2>4. ThreadOk(t)' /\ ~At(t, "join")'
    BY <1>4, <2>2, <2>3
       DEF ThreadOk, BuildOk, JudgeOk, ResultOk, AnchorOk, At, Building, Built,
           Judging, Running, Answering, Forking
  <2>5. QED BY <1>1, <2>2, <2>4, QuietStep
<1>5. CASE Feasible(th[t].cfg) /\ ~(Kind(t) \in OverAnchors /\ t[2] = Main)
  <2>1. Goto(t, "reuse") \/ Goto(t, "build")
    BY <1>5 DEF Miss, Goto
  <2>2. Moves(t) /\ th'[t].at \in {"reuse", "build"}
    BY <1>2, <2>1, GotoMoves DEF Steps
  <2>3. QED BY <1>1, <2>2, PlainOk, QuietStep DEF Quiet
<1>6. QED BY <1>3, <1>4, <1>5

\* An anchor takes a point's result only when it is a number.
LEMMA ReuseKeeps ==
  ASSUME IInv, NEW t \in Threads, Reuse(t), UNCHANGED search
  PROVE  IInv'
<1>1. Quiet /\ ~At(t, "idle")
  BY DEF Reuse, Quiet, files, loop, At
<1>2. th \in ThreadType /\ th[t].cfg \in AllConfigs /\ V(t) = Variant(th[t].cfg)
  BY OfInvariant
<1>3. <<"point", th[t].cfg, Main>> \in Places
  BY <1>2 DEF Places, AllConfigs
<1>4. PICK o : o = cache[<<"point", th[t].cfg, Main>>]
  OBVIOUS
<1>5. o \in Numbers => V(t) \in Sound
  BY <1>2, <1>3, <1>4 DEF IInv, CacheIsSound
<1>6. Goto(t, "raised") \/ (o \in Numbers /\ Return(t, "open", o)) \/ Goto(t, "build")
  BY <1>4 DEF Reuse
<1>7. CASE o \in Numbers /\ Return(t, "open", o)
  <2>1. Moves(t) /\ th'[t].at = "open" /\ th'[t].out = o
    BY <1>2, <1>7, ReturnMoves DEF Steps, Results
  <2>2. QED BY <1>1, <1>5, <1>7, <2>1, NumberOk, QuietStep DEF Quiet
<1>8. CASE Goto(t, "raised") \/ Goto(t, "build")
  <2>1. Moves(t) /\ th'[t].at \in {"raised", "build"}
    BY <1>2, <1>8, GotoMoves DEF Steps
  <2>2. QED BY <1>1, <2>1, PlainOk, QuietStep DEF Quiet
<1>9. QED BY <1>6, <1>7, <1>8

\* The marker is read without the lock.
LEMMA GateKnownKeeps ==
  ASSUME IInv, NEW t \in Threads, GateKnown(t), UNCHANGED search
  PROVE  IInv'
<1>1. Quiet /\ ~At(t, "idle") /\ At(t, "check")
  BY DEF GateKnown, Quiet, files, loop, At
<1>2. th \in ThreadType /\ V(t) \in Variants /\ stamp[V(t)]
  BY <1>1, OfInvariant DEF BuildOk, At, Built
<1>3. stamp' = stamp
  BY <1>1 DEF Quiet, building
<1>4. CASE Goto(t, "vlock") \/ (Passed(V(t)) /\ Goto(t, "run"))
  <2>1. Moves(t) /\ (th'[t].at = "vlock" \/ (th'[t].at = "run" /\ Passed(V(t))))
    BY <1>2, <1>4, GotoMoves DEF Steps
  <2>2. th'[t].at \in Running => V(t) \in Sound
    BY <1>2, <2>1 DEF IInv, PassIsSound, Passed, Running
  <2>3. th'[t].at \in {"check", "vlock"} \cup Running
    BY <2>1 DEF Running
  <2>4. QED BY <1>1, <1>2, <1>3, <2>1, <2>2, <2>3, BuiltOk, QuietStep DEF Quiet
<1>5. CASE Fail(t)
  BY <1>1, <1>2, <1>5, FailFails, FailsOk, QuietStep DEF Quiet, Fails
<1>6. QED BY <1>4, <1>5 DEF GateKnown

\* The stamp is read without the lock.
LEMMA BuildCachedKeeps ==
  ASSUME IInv, NEW t \in Threads, BuildCached(t), UNCHANGED search
  PROVE  IInv'
<1>1. Quiet /\ ~At(t, "idle")
  BY DEF BuildCached, Quiet, files, loop, At
<1>2. th \in ThreadType
  BY OfInvariant
<1>3. stamp' = stamp
  BY <1>1 DEF Quiet, building
<1>4. CASE stamp[V(t)]
  <2>1. Moves(t) /\ th'[t].at = "check"
    BY <1>2, <1>4, GotoMoves DEF BuildCached, Steps
  <2>2. th'[t].at \notin Running
    BY <2>1 DEF Running
  <2>3. QED BY <1>1, <1>3, <1>4, <2>1, <2>2, BuiltOk, QuietStep DEF Quiet
<1>5. CASE ~stamp[V(t)]
  <2>1. Moves(t) /\ th'[t].at = "lock"
    BY <1>2, <1>5, GotoMoves DEF BuildCached, Steps
  <2>2. QED BY <1>1, <2>1, PlainOk, QuietStep DEF Quiet
<1>6. QED BY <1>4, <1>5

\* The three that end a run of the simulator with a number.
LEMMA MeasuredKeeps ==
  ASSUME IInv, NEW t \in Threads, UNCHANGED search,
         PointMeasured(t) \/ AnchorMeasured(t) \/ TopologyMeasured(t)
  PROVE  IInv'
<1>1. Quiet /\ ~At(t, "idle") /\ At(t, "sim")
  BY DEF PointMeasured, AnchorMeasured, TopologyMeasured, Quiet, files, loop, At
<1>2. th \in ThreadType /\ V(t) \in Sound
  BY <1>1, OfInvariant DEF ResultOk, At, Running
<1>3. PICK o \in Numbers : o = Simulated(t)
  BY DEF Simulated, Numbers
<1>4. PICK x \in {"open", "done"} : Return(t, x, o)
  BY <1>3 DEF PointMeasured, AnchorMeasured, TopologyMeasured
<1>5. Moves(t) /\ th'[t].at = x /\ th'[t].out = o
  BY <1>2, <1>3, <1>4, ReturnMoves DEF Steps, Results
<1>6. QED BY <1>1, <1>2, <1>3, <1>4, <1>5, NumberOk, QuietStep DEF Quiet

\* A run that fails.
LEMMA WorkloadFailsKeeps ==
  ASSUME IInv, NEW t \in Threads, WorkloadFails(t), UNCHANGED search
  PROVE  IInv'
<1>1. Quiet /\ ~At(t, "idle")
  BY DEF WorkloadFails, Quiet, files, loop, At
<1>2. th \in ThreadType
  BY OfInvariant
<1>3. CASE Goto(t, "raised")
  <2>1. Moves(t) /\ th'[t].at = "raised"
    BY <1>2, <1>3, GotoMoves DEF Steps
  <2>2. QED BY <1>1, <2>1, PlainOk, QuietStep DEF Quiet
<1>4. CASE Fail(t)
  BY <1>1, <1>2, <1>4, FailFails, FailsOk, QuietStep DEF Quiet, Fails
<1>5. QED BY <1>3, <1>4 DEF WorkloadFails

\* Writing the inputs of the simulator.
LEMMA TraceKeeps ==
  ASSUME IInv, NEW t \in Threads, WriteTrace(t) \/ TraceWritten(t), UNCHANGED search
  PROVE  IInv'
<1>1. Quiet /\ ~At(t, "idle") /\ th[t].at \in Running
  BY DEF WriteTrace, TraceWritten, Quiet, loop, At, Running
<1>2. th \in ThreadType /\ V(t) \in Sound /\ stamp[V(t)]
  BY <1>1, OfInvariant DEF ResultOk, BuildOk, Built
<1>3. stamp' = stamp
  BY <1>1 DEF Quiet, building
<1>4. Moves(t) /\ th'[t].at \in Running
  BY <1>2, GotoMoves DEF WriteTrace, TraceWritten, Steps, Running
<1>5. QED BY <1>1, <1>2, <1>3, <1>4, BuiltOk, QuietStep DEF Quiet

-----------------------------------------------------------------------------
(* Builds.  Who holds the lock of a variant is the only one to touch its   *)
(* files.                                                                  *)

\* A step of t that changes the files of its variant only.
LEMMA BuildStep ==
  ASSUME IInv, NEW t \in Threads, Moves(t), UNCHANGED <<search, observed, gate, cache>>,
         BuildType', StampIsTrue', ThreadOk(t)', ~At(t, "join")',
         \A u \in Threads \ {t} : BuildOk(u)'
  PROVE  IInv'
<1>1. UNCHANGED <<search, observed, marker, judge, cache>>
  BY DEF gate
<1>2. GateType' /\ CacheType' /\ PassIsSound' /\ CacheIsSound' /\ ObservedIsSound'
  BY <1>1 DEF IInv, Typed, GateType, CacheType, PassIsSound, CacheIsSound, ObservedIsSound
<1>3. ASSUME NEW u \in Threads \ {t} PROVE JudgeOk(u)'
  <2>1. V(u)' = V(u) /\ th'[u] = th[u]
    BY <1>1, MovesKeeps DEF IInv, Typed
  <2>2. JudgeOk(u)
    BY OfInvariant
  <2>3. QED BY <1>1, <2>1, <2>2 DEF JudgeOk
<1>4. QED BY <1>1, <1>2, <1>3, SharedStep

\* Another thread is at the lock only of another variant, and keeps its stamp.
LEMMA OtherBuilders ==
  ASSUME IInv, NEW t \in Threads, Moves(t), UNCHANGED search,
         \A v \in Variants \ {V(t)} : builder'[v] = builder[v] /\ artifact'[v] = artifact[v],
         \A v \in Variants : stamp[v] => stamp'[v],
         builder[V(t)] \in {t, Free}
  PROVE  \A u \in Threads \ {t} : BuildOk(u)'
<1>1. TAKE u \in Threads \ {t}
<1>2. V(u)' = V(u) /\ th'[u] = th[u]
  BY MovesKeeps DEF IInv, Typed
<1>3. BuildOk(u) /\ V(u) \in Variants
  BY OfInvariant
<1>4. u # Free
  BY ThreadIsProcAndName
<1>5. CASE V(u) = V(t)
  <2>1. th[u].at \notin Building
    BY <1>3, <1>4, <1>5 DEF BuildOk
  <2>2. QED BY <1>2, <1>3, <2>1 DEF BuildOk, At, Building
<1>6. CASE V(u) # V(t)
  BY <1>2, <1>3, <1>6 DEF BuildOk, At
<1>7. QED BY <1>5, <1>6

\* The lock of a build is taken.
LEMMA BuildLockKeeps ==
  ASSUME IInv, NEW t \in Threads, BuildLock(t), UNCHANGED search
  PROVE  IInv'
<1>1. /\ UNCHANGED <<search, observed, artifact, stamp, gate, cache>>
      /\ ~At(t, "idle") /\ builder[V(t)] = Free
      /\ builder' = [builder EXCEPT ![V(t)] = t]
  BY DEF BuildLock, Available, files, loop, At
<1>2. th \in ThreadType /\ V(t) \in Variants /\ AnchorOk(t) /\ BuildType /\ StampIsTrue
  BY OfInvariant DEF IInv, Typed
<1>3. Moves(t) /\ th'[t].at = "locked"
  BY <1>2, GotoMoves DEF BuildLock, Steps
<1>4. V(t)' = V(t) /\ Kind(t)' = Kind(t) /\ th'[t].cfg = th[t].cfg
  BY <1>1, <1>2, <1>3, MovesKeeps DEF Moves
<1>5. BuildType' /\ StampIsTrue'
  BY <1>1, <1>2 DEF BuildType, StampIsTrue
<1>6. BuildOk(t)'
  BY <1>1, <1>2, <1>3, <1>4 DEF BuildOk, BuildType, At, Building, Built, Judging, Running
<1>7. JudgeOk(t)' /\ ResultOk(t)' /\ AnchorOk(t)'
  BY <1>1, <1>2, <1>3, <1>4
     DEF JudgeOk, ResultOk, AnchorOk, At, Judging, Running, Answering, Forking
<1>8. \A u \in Threads \ {t} : BuildOk(u)'
  <2>1. \A v \in Variants \ {V(t)} :
          builder'[v] = builder[v] /\ artifact'[v] = artifact[v]
    BY <1>1, <1>2 DEF BuildType
  <2>2. QED BY <1>1, <1>3, <2>1, OtherBuilders
<1>9. QED BY <1>1, <1>3, <1>5, <1>6, <1>7, <1>8, BuildStep DEF ThreadOk, At

\* Another one has built it.
LEMMA BuildFoundKeeps ==
  ASSUME IInv, NEW t \in Threads, BuildFound(t), UNCHANGED search
  PROVE  IInv'
<1>1. /\ UNCHANGED <<search, observed, artifact, stamp, gate, cache>>
      /\ ~At(t, "idle") /\ th[t].at \in Building /\ stamp[V(t)]
      /\ builder' = [builder EXCEPT ![V(t)] = Free]
  BY DEF BuildFound, files, loop, At, Building
<1>2. /\ th \in ThreadType /\ V(t) \in Variants /\ BuildType /\ StampIsTrue
      /\ builder[V(t)] = t
  BY <1>1, OfInvariant DEF IInv, Typed, BuildOk
<1>3. Moves(t) /\ th'[t].at = "check"
  BY <1>2, GotoMoves DEF BuildFound, Steps
<1>4. BuildType' /\ StampIsTrue'
  BY <1>1, <1>2 DEF BuildType, StampIsTrue
<1>5. ThreadOk(t)' /\ ~At(t, "join")'
  <2>1. th'[t].at \notin Running
    BY <1>3 DEF Running
  <2>2. QED BY <1>1, <1>3, <2>1, BuiltOk
<1>6. \A u \in Threads \ {t} : BuildOk(u)'
  <2>1. \A v \in Variants \ {V(t)} :
          builder'[v] = builder[v] /\ artifact'[v] = artifact[v]
    BY <1>1, <1>2 DEF BuildType
  <2>2. QED BY <1>1, <1>2, <1>3, <2>1, OtherBuilders
<1>7. QED BY <1>1, <1>3, <1>4, <1>5, <1>6, BuildStep

\* Begin and end of the build itself, under the lock and without a stamp.
LEMMA BuildMakesKeeps ==
  ASSUME IInv, NEW t \in Threads, BuildBegin(t) \/ BuildEnd(t), UNCHANGED search
  PROVE  IInv'
<1>1. /\ UNCHANGED <<search, observed, stamp, builder, gate, cache>>
      /\ ~At(t, "idle") /\ th[t].at \in Building
      /\ \/ /\ artifact' = [artifact EXCEPT ![V(t)] = Torn]
            /\ ~stamp[V(t)] /\ Goto(t, "make")
         \/ /\ artifact' = [artifact EXCEPT ![V(t)] = "whole"]
            /\ Goto(t, "stamp")
  BY DEF BuildBegin, BuildEnd, files, loop, At, Building
<1>2. /\ th \in ThreadType /\ V(t) \in Variants /\ BuildType /\ StampIsTrue
      /\ builder[V(t)] = t /\ AnchorOk(t)
  BY <1>1, OfInvariant DEF IInv, Typed, BuildOk
<1>3. /\ Moves(t) /\ th'[t].at \in {"make", "stamp"}
      /\ th'[t].at = "stamp" => artifact' = [artifact EXCEPT ![V(t)] = "whole"]
  BY <1>1, <1>2, GotoMoves DEF Steps
<1>4. V(t)' = V(t) /\ Kind(t)' = Kind(t) /\ th'[t].cfg = th[t].cfg
  BY <1>1, <1>2, <1>3, MovesKeeps DEF Moves
<1>5. BuildType' /\ StampIsTrue'
  BY <1>1, <1>2 DEF BuildType, StampIsTrue
<1>6. BuildOk(t)'
  BY <1>1, <1>2, <1>3, <1>4 DEF BuildOk, BuildType, At, Building, Built, Judging, Running
<1>7. JudgeOk(t)' /\ ResultOk(t)' /\ AnchorOk(t)'
  BY <1>1, <1>2, <1>3, <1>4
     DEF JudgeOk, ResultOk, AnchorOk, At, Judging, Running, Answering, Forking
<1>8. \A u \in Threads \ {t} : BuildOk(u)'
  <2>1. \A v \in Variants \ {V(t)} :
          builder'[v] = builder[v] /\ artifact'[v] = artifact[v]
    BY <1>1, <1>2 DEF BuildType
  <2>2. QED BY <1>1, <1>2, <1>3, <2>1, OtherBuilders
<1>9. QED BY <1>1, <1>3, <1>5, <1>6, <1>7, <1>8, BuildStep DEF ThreadOk, At

\* The stamp is set on a whole build.
LEMMA BuildStampKeeps ==
  ASSUME IInv, NEW t \in Threads, BuildStamp(t), UNCHANGED search
  PROVE  IInv'
<1>1. /\ UNCHANGED <<search, observed, artifact, gate, cache>>
      /\ ~At(t, "idle") /\ th[t].at \in Building /\ At(t, "stamp")
      /\ stamp' = [stamp EXCEPT ![V(t)] = TRUE]
      /\ builder' = [builder EXCEPT ![V(t)] = Free]
  BY DEF BuildStamp, files, loop, At, Building
<1>2. /\ th \in ThreadType /\ V(t) \in Variants /\ BuildType /\ StampIsTrue
      /\ builder[V(t)] = t /\ artifact[V(t)] = "whole"
  BY <1>1, OfInvariant DEF IInv, Typed, BuildOk
<1>3. Moves(t) /\ th'[t].at = "check"
  BY <1>2, GotoMoves DEF BuildStamp, Steps
<1>4. BuildType' /\ StampIsTrue' /\ stamp'[V(t)] /\ \A v \in Variants : stamp[v] => stamp'[v]
  BY <1>1, <1>2 DEF BuildType, StampIsTrue
<1>5. ThreadOk(t)' /\ ~At(t, "join")'
  <2>1. th'[t].at \notin Running
    BY <1>3 DEF Running
  <2>2. QED BY <1>1, <1>3, <1>4, <2>1, BuiltOk
<1>6. \A u \in Threads \ {t} : BuildOk(u)'
  <2>1. \A v \in Variants \ {V(t)} :
          builder'[v] = builder[v] /\ artifact'[v] = artifact[v]
    BY <1>1, <1>2 DEF BuildType
  <2>2. QED BY <1>2, <1>3, <1>4, <2>1, OtherBuilders
<1>7. QED BY <1>1, <1>3, <1>4, <1>5, <1>6, BuildStep

\* A build fails: the stamp is not there.
LEMMA BuildFailsKeeps ==
  ASSUME IInv, NEW t \in Threads, BuildFails(t), UNCHANGED search
  PROVE  IInv'
<1>1. /\ UNCHANGED <<search, observed, artifact, stamp, gate, cache>>
      /\ ~At(t, "idle") /\ th[t].at \in Building
      /\ builder' = [builder EXCEPT ![V(t)] = Free]
  BY DEF BuildFails, files, loop, At, Building
<1>2. /\ th \in ThreadType /\ V(t) \in Variants /\ BuildType /\ StampIsTrue
      /\ builder[V(t)] = t
  BY <1>1, OfInvariant DEF IInv, Typed, BuildOk
<1>3. Moves(t) /\ Fails(t)
  BY <1>2, FailFails DEF BuildFails, Fails
<1>4. BuildType' /\ StampIsTrue'
  BY <1>1, <1>2 DEF BuildType, StampIsTrue
<1>5. ThreadOk(t)' /\ ~At(t, "join")'
  BY <1>1, <1>3, FailsOk
<1>6. \A u \in Threads \ {t} : BuildOk(u)'
  <2>1. \A v \in Variants \ {V(t)} :
          builder'[v] = builder[v] /\ artifact'[v] = artifact[v]
    BY <1>1, <1>2 DEF BuildType
  <2>2. QED BY <1>1, <1>2, <1>3, <2>1, OtherBuilders
<1>7. QED BY <1>1, <1>3, <1>4, <1>5, <1>6, BuildStep

-----------------------------------------------------------------------------
(* The gate, likewise.                                                     *)

\* A step of t that changes the marker and the lock of its variant only.
LEMMA GateStep ==
  ASSUME IInv, NEW t \in Threads, Moves(t), UNCHANGED <<search, observed, building, cache>>,
         GateType', PassIsSound', ThreadOk(t)', ~At(t, "join")',
         \A v \in Variants \ {V(t)} : judge'[v] = judge[v] /\ marker'[v] = marker[v],
         judge[V(t)] \in {t, Free}
  PROVE  IInv'
<1>1. UNCHANGED <<search, observed, artifact, stamp, builder, cache>>
  BY DEF building
<1>2. BuildType' /\ CacheType' /\ StampIsTrue' /\ CacheIsSound' /\ ObservedIsSound'
  BY <1>1 DEF IInv, Typed, BuildType, CacheType, StampIsTrue, CacheIsSound, ObservedIsSound
<1>3. ASSUME NEW u \in Threads \ {t} PROVE BuildOk(u)' /\ JudgeOk(u)'
  <2>1. V(u)' = V(u) /\ th'[u] = th[u]
    BY <1>1, MovesKeeps DEF IInv, Typed
  <2>2. BuildOk(u) /\ JudgeOk(u) /\ V(u) \in Variants
    BY OfInvariant
  <2>3. BuildOk(u)'
    BY <1>1, <2>1, <2>2 DEF BuildOk, At
  <2>4. u # Free
    BY ThreadIsProcAndName
  <2>5. CASE V(u) = V(t)
    <3>1. th[u].at \notin Judging
      BY <2>2, <2>4, <2>5 DEF JudgeOk
    <3>2. QED BY <2>1, <2>3, <3>1 DEF JudgeOk, Judging
  <2>6. CASE V(u) # V(t)
    BY <2>1, <2>2, <2>3, <2>6 DEF JudgeOk
  <2>7. QED BY <2>5, <2>6
<1>4. QED BY <1>1, <1>2, <1>3, SharedStep

\* The lock of the gate is taken.
LEMMA GateLockKeeps ==
  ASSUME IInv, NEW t \in Threads, GateLock(t), UNCHANGED search
  PROVE  IInv'
<1>1. /\ UNCHANGED <<search, observed, building, cache, marker>>
      /\ ~At(t, "idle") /\ th[t].at \in Built /\ judge[V(t)] = Free
      /\ judge' = [judge EXCEPT ![V(t)] = t]
  BY DEF GateLock, Available, files, loop, At, Built
<1>2. /\ th \in ThreadType /\ V(t) \in Variants /\ AnchorOk(t) /\ GateType /\ PassIsSound
      /\ stamp[V(t)]
  BY <1>1, OfInvariant DEF IInv, Typed, BuildOk
<1>3. Moves(t) /\ th'[t].at = "vlocked"
  BY <1>2, GotoMoves DEF GateLock, Steps
<1>4. V(t)' = V(t) /\ Kind(t)' = Kind(t) /\ th'[t].cfg = th[t].cfg
  BY <1>1, <1>2, <1>3, MovesKeeps DEF Moves
<1>5. GateType' /\ PassIsSound' /\ judge'[V(t)] = t
  BY <1>1, <1>2 DEF GateType, PassIsSound
<1>6. BuildOk(t)' /\ JudgeOk(t)' /\ ResultOk(t)'
  BY <1>1, <1>2, <1>3, <1>4, <1>5
     DEF BuildOk, JudgeOk, ResultOk, building, At, Building, Judging, Running, Answering
<1>7. AnchorOk(t)'
  BY <1>1, <1>2, <1>3, <1>4 DEF AnchorOk, At, Answering, Forking
<1>8. \A v \in Variants \ {V(t)} : judge'[v] = judge[v] /\ marker'[v] = marker[v]
  BY <1>1, <1>2 DEF GateType
<1>9. QED BY <1>1, <1>3, <1>5, <1>6, <1>7, <1>8, GateStep DEF ThreadOk, At

\* Another one has judged it.
LEMMA GateFoundKeeps ==
  ASSUME IInv, NEW t \in Threads, GateFound(t), UNCHANGED search
  PROVE  IInv'
<1>1. /\ UNCHANGED <<search, observed, building, cache, marker>>
      /\ ~At(t, "idle") /\ th[t].at \in Built /\ th[t].at \in Judging
      /\ judge' = [judge EXCEPT ![V(t)] = Free]
  BY DEF GateFound, files, loop, At, Built, Judging
<1>2. /\ th \in ThreadType /\ V(t) \in Variants /\ GateType /\ PassIsSound
      /\ stamp[V(t)] /\ judge[V(t)] = t
  BY <1>1, OfInvariant DEF IInv, Typed, BuildOk, JudgeOk
<1>3. GateType' /\ PassIsSound' /\ stamp' = stamp
  BY <1>1, <1>2 DEF GateType, PassIsSound, building
<1>4. Moves(t) /\ ThreadOk(t)' /\ ~At(t, "join")'
  <2>1. CASE Passed(V(t)) /\ Goto(t, "run")
    <3>1. Moves(t) /\ th'[t].at = "run"
      BY <1>2, <2>1, GotoMoves DEF Steps
    <3>2. V(t) \in Sound
      BY <1>2, <2>1 DEF PassIsSound, Passed
    <3>3. th'[t].at \in {"check", "vlock"} \cup Running
      BY <3>1 DEF Running
    <3>4. QED BY <1>1, <1>2, <1>3, <3>1, <3>2, <3>3, BuiltOk
  <2>2. CASE Fail(t)
    BY <1>1, <1>2, <2>2, FailFails, FailsOk DEF Fails
  <2>3. QED BY <2>1, <2>2 DEF GateFound
<1>5. \A v \in Variants \ {V(t)} : judge'[v] = judge[v] /\ marker'[v] = marker[v]
  BY <1>1, <1>2 DEF GateType
<1>6. QED BY <1>1, <1>2, <1>3, <1>4, <1>5, GateStep

\* The gate runs and opens the marker.
LEMMA GateRunKeeps ==
  ASSUME IInv, NEW t \in Threads, GateRun(t), UNCHANGED search
  PROVE  IInv'
<1>1. /\ UNCHANGED <<search, observed, building, cache, judge>>
      /\ ~At(t, "idle") /\ th[t].at \in Built /\ th[t].at \in Judging
      /\ marker' = [marker EXCEPT ![V(t)] = Torn]
  BY DEF GateRun, files, loop, At, Built, Judging
<1>2. /\ th \in ThreadType /\ V(t) \in Variants /\ GateType /\ PassIsSound
      /\ stamp[V(t)] /\ judge[V(t)] = t /\ AnchorOk(t)
  BY <1>1, OfInvariant DEF IInv, Typed, BuildOk, JudgeOk
<1>3. PICK x \in {"pass", "fail"} : Goto(t, x) /\ (x = "pass" => V(t) \in Sound)
  BY DEF GateRun
<1>4. Moves(t) /\ th'[t].at \in {"pass", "fail"} /\ (th'[t].at = "pass" => V(t) \in Sound)
  BY <1>2, <1>3, GotoMoves DEF Steps
<1>5. V(t)' = V(t) /\ Kind(t)' = Kind(t) /\ th'[t].cfg = th[t].cfg
  BY <1>1, <1>2, <1>4, MovesKeeps DEF Moves
<1>6. GateType' /\ PassIsSound' /\ marker'[V(t)] = Torn
  BY <1>1, <1>2 DEF GateType, PassIsSound, Torn
<1>7. BuildOk(t)' /\ JudgeOk(t)' /\ ResultOk(t)'
  BY <1>1, <1>2, <1>4, <1>5, <1>6
     DEF BuildOk, JudgeOk, ResultOk, building, At, Building, Judging, Running, Answering
<1>8. AnchorOk(t)'
  BY <1>1, <1>2, <1>4, <1>5 DEF AnchorOk, At, Answering, Forking
<1>9. \A v \in Variants \ {V(t)} : judge'[v] = judge[v] /\ marker'[v] = marker[v]
  BY <1>1, <1>2 DEF GateType
<1>10. QED BY <1>1, <1>2, <1>4, <1>6, <1>7, <1>8, <1>9, GateStep DEF ThreadOk, At

\* The verdict: PASS is written for a sound variant only.
LEMMA GateVerdictKeeps ==
  ASSUME IInv, NEW t \in Threads, GateVerdict(t), UNCHANGED search
  PROVE  IInv'
<1>1. /\ UNCHANGED <<search, observed, building, cache>>
      /\ ~At(t, "idle") /\ th[t].at \in Built /\ th[t].at \in Judging
      /\ judge' = [judge EXCEPT ![V(t)] = Free]
      /\ \/ At(t, "pass") /\ marker' = [marker EXCEPT ![V(t)] = "PASS"] /\ Goto(t, "run")
         \/ ~At(t, "pass") /\ marker' = [marker EXCEPT ![V(t)] = "INVALID"] /\ Fail(t)
  BY DEF GateVerdict, files, loop, At, Built, Judging
<1>2. /\ th \in ThreadType /\ V(t) \in Variants /\ GateType /\ PassIsSound
      /\ stamp[V(t)] /\ judge[V(t)] = t /\ (At(t, "pass") => V(t) \in Sound)
  BY <1>1, OfInvariant DEF IInv, Typed, BuildOk, JudgeOk, ResultOk, At
<1>3. GateType' /\ PassIsSound'
  BY <1>1, <1>2 DEF GateType, PassIsSound
<1>4. Moves(t) /\ ThreadOk(t)' /\ ~At(t, "join")'
  <2>1. CASE At(t, "pass")
    <3>1. Moves(t) /\ th'[t].at = "run"
      BY <1>1, <1>2, <2>1, GotoMoves DEF Steps
    <3>2. stamp' = stamp /\ th'[t].at \in {"check", "vlock"} \cup Running
      BY <1>1, <3>1 DEF Running, building
    <3>3. QED BY <1>1, <1>2, <2>1, <3>1, <3>2, BuiltOk
  <2>2. CASE ~At(t, "pass")
    BY <1>1, <1>2, <2>2, FailFails, FailsOk DEF Fails
  <2>3. QED BY <2>1, <2>2
<1>5. \A v \in Variants \ {V(t)} : judge'[v] = judge[v] /\ marker'[v] = marker[v]
  BY <1>1, <1>2 DEF GateType
<1>6. QED BY <1>1, <1>2, <1>3, <1>4, <1>5, GateStep

-----------------------------------------------------------------------------
(* Cache files.                                                            *)

\* A step of t that changes its own cache file.
LEMMA CacheStep ==
  ASSUME IInv, NEW t \in Threads, Moves(t), UNCHANGED <<search, observed, building, gate>>,
         CacheType', CacheIsSound', ThreadOk(t)', ~At(t, "join")'
  PROVE  IInv'
<1>1. UNCHANGED <<search, observed, artifact, stamp, builder, marker, judge>>
  BY DEF building, gate
<1>2. BuildType' /\ GateType' /\ StampIsTrue' /\ PassIsSound' /\ ObservedIsSound'
  BY <1>1 DEF IInv, Typed, BuildType, GateType, StampIsTrue, PassIsSound, ObservedIsSound
<1>3. ASSUME NEW u \in Threads \ {t} PROVE BuildOk(u)' /\ JudgeOk(u)'
  <2>1. V(u)' = V(u) /\ th'[u] = th[u]
    BY <1>1, MovesKeeps DEF IInv, Typed
  <2>2. BuildOk(u) /\ JudgeOk(u)
    BY OfInvariant
  <2>3. QED BY <1>1, <2>1, <2>2 DEF BuildOk, JudgeOk, At
<1>4. QED BY <1>1, <1>2, <1>3, SharedStep

\* A cache file is opened, and then closed with the thread's result in it.
LEMMA CacheKeeps ==
  ASSUME IInv, NEW t \in Threads, OpenCache(t) \/ CloseCache(t), UNCHANGED search
  PROVE  IInv'
<1>1. /\ UNCHANGED <<search, observed, building, gate>>
      /\ ~At(t, "idle") /\ th[t].at \in Answering
      /\ \/ cache' = [cache EXCEPT ![Place(t)] = Torn] /\ Goto(t, "close")
         \/ cache' = [cache EXCEPT ![Place(t)] = th[t].out] /\ Goto(t, "done")
  BY DEF OpenCache, CloseCache, loop, At, Answering
<1>2. /\ th \in ThreadType /\ ResultOk(t) /\ AnchorOk(t) /\ CacheType /\ CacheIsSound
      /\ th[t].out \in Results /\ V(t) = Variant(th[t].cfg)
  BY OfInvariant DEF IInv, Typed
<1>3. /\ Place(t) \in Places /\ Place(t)[2] = th[t].cfg
      /\ Place(t)[1] = "anchor" => Kind(t) \in OverAnchors /\ t[2] # Main
  BY OfInvariant, PlaceOfThread
<1>4. Moves(t) /\ th'[t].at \in {"close", "done"} /\ th'[t].out = th[t].out
  BY <1>1, <1>2, GotoMoves DEF Steps
<1>5. /\ th[t].out \in Numbers => V(t) \in Sound
      /\ Kind(t) \in OverAnchors /\ t[2] # Main => th[t].out \in Numbers
  BY <1>1, <1>2 DEF ResultOk, AnchorOk
<1>6. PICK w \in Results \cup {Torn} :
        /\ cache' = [cache EXCEPT ![Place(t)] = w]
        /\ w = Torn \/ w = th[t].out
  BY <1>1, <1>2
<1>7. CacheType'
  BY <1>2, <1>3, <1>6 DEF CacheType
<1>8. ASSUME NEW f \in Places
      PROVE  /\ cache'[f] \in Numbers => Variant(f[2]) \in Sound
             /\ f[1] = "anchor" => cache'[f] # "invalid"
  <2>2. CASE f = Place(t)
    <3>1. cache'[f] = w
      BY <1>2, <1>6, <2>2 DEF CacheType
    <3>2. CASE w = Torn
      BY <3>1, <3>2 DEF Torn, Numbers
    <3>3. CASE w = th[t].out
      BY <1>2, <1>3, <1>5, <2>2, <3>1, <3>3 DEF Numbers
    <3>4. QED BY <1>6, <3>2, <3>3
  <2>3. CASE f # Place(t)
    BY <1>2, <1>6, <2>3 DEF CacheType, CacheIsSound
  <2>4. QED BY <2>2, <2>3
<1>81. CacheIsSound'
  BY <1>8 DEF CacheIsSound
<1>9. ThreadOk(t)' /\ ~At(t, "join")'
  <2>1. CASE th[t].out \in Numbers
    BY <1>1, <1>4, <1>5, <2>1, NumberOk
  <2>2. CASE th[t].out = "invalid"
    <3>1. Kind(t) \notin OverAnchors \/ t[2] = Main
      BY <1>5, <2>2 DEF Numbers
    <3>2. V(t)' = V(t) /\ Kind(t)' = Kind(t)
      BY <1>1, <1>2, <1>4, MovesKeeps
    <3>3. QED BY <1>4, <2>2, <3>1, <3>2
      DEF ThreadOk, BuildOk, JudgeOk, ResultOk, AnchorOk, At, Building, Built, Judging,
          Running, Answering, Forking, Numbers
  <2>3. QED BY <1>2, <2>1, <2>2 DEF Results
<1>10. QED BY <1>1, <1>4, <1>7, <1>81, <1>9, CacheStep

-----------------------------------------------------------------------------
(* Searches and pools: only threads and what has been observed change.     *)

\* A step that changes only threads and what has been observed.
LEMMA ThreadsStep ==
  ASSUME IInv, UNCHANGED <<search, building, gate, cache>>, th' \in ThreadType,
         ObservedIsSound', \A u \in Threads : ThreadOk(u)', \A p \in Procs : PoolOk(p)'
  PROVE  IInv'
<1>1. UNCHANGED <<search, artifact, stamp, builder, marker, judge, cache>>
  BY DEF building, gate
<1>2. Typed' /\ StampIsTrue' /\ PassIsSound' /\ CacheIsSound'
  BY <1>1 DEF IInv, Typed, SearchType, BuildType, GateType, CacheType,
              StampIsTrue, PassIsSound, CacheIsSound
<1>3. QED BY <1>2 DEF IInv

\* A thread that does not change.
LEMMA Unmoved ==
  ASSUME IInv, UNCHANGED <<search, building, gate, cache>>, NEW u \in Threads,
         th'[u] = th[u]
  PROVE  ThreadOk(u)'
<1>1. BuildOk(u) /\ JudgeOk(u) /\ ResultOk(u) /\ AnchorOk(u)
  BY OfInvariant
<1>2. V(u)' = V(u) /\ Kind(u)' = Kind(u)
  BY DEF V, Kind
<1>3. BuildOk(u)' /\ JudgeOk(u)'
  BY <1>1, <1>2 DEF BuildOk, JudgeOk, At, building, gate
<1>4. ResultOk(u)' /\ AnchorOk(u)'
  BY <1>1, <1>2 DEF ResultOk, AnchorOk, At
<1>5. QED BY <1>3, <1>4 DEF ThreadOk

\* Idle is a state of a thread.
LEMMA IdleIsThread == Idle \in [at : Steps, cfg : AllConfigs, out : Results]
BY DEF Idle, Steps, AllConfigs, Results

\* A thread that proposes begins or ends a configuration.
LEMMA ProposerStep ==
  ASSUME IInv, UNCHANGED <<search, building, gate, cache>>, ObservedIsSound',
         NEW t \in Threads, Proposes(t),
         NEW r \in [at : Steps, cfg : AllConfigs, out : Results],
         r.at \in {"idle", "look", "build"}, th' = [th EXCEPT ![t] = r]
  PROVE  IInv'
<1>1. th \in ThreadType
  BY DEF IInv, Typed
<1>2. /\ th' \in ThreadType /\ th'[t] = r
      /\ \A u \in Threads \ {t} : th'[u] = th[u]
  BY <1>1 DEF ThreadType
<1>3. Kind(t) \in OverAnchors => t[2] = Main
  BY DEF Proposes, OverAnchors
<1>4. ThreadOk(t)'
  <2>1. Kind(t)' = Kind(t)
    BY DEF Kind
  <2>2. QED BY <1>2, <1>3, <2>1
     DEF ThreadOk, BuildOk, JudgeOk, ResultOk, AnchorOk, At, Building, Built, Judging,
         Running, Answering, Forking
<1>5. ASSUME NEW u \in Threads PROVE ThreadOk(u)'
  BY <1>2, <1>4, Unmoved
<1>6. ASSUME NEW p \in Procs, At(<<p, Main>>, "join")'
      PROVE  \A u \in Pool(p) : th'[u].cfg = th'[<<p, Main>>].cfg
  <2>1. /\ <<p, Main>> \in Threads /\ Pool(p) \subseteq Threads
        /\ \A u \in Pool(p) : u[1] = p /\ u[2] # Main
    BY MainIsThread
  <2>2. th'[<<p, Main>>] = th[<<p, Main>>]
    BY <1>2, <1>6, <2>1 DEF At
  <2>3. At(<<p, Main>>, "join")
    BY <1>6, <2>2 DEF At
  <2>4. search[p].kind \in OverAnchors
    BY <2>1, <2>3, OfInvariant DEF AnchorOk, At, Forking, Kind
  <2>5. \A u \in Pool(p) : u # t
    BY <1>3, <2>1, <2>4 DEF Kind
  <2>6. QED BY <1>2, <2>1, <2>2, <2>3, <2>5 DEF IInv, PoolOk
<1>7. ASSUME NEW p \in Procs PROVE PoolOk(p)'
  <2>1. Pool(p)' = Pool(p)
    BY DEF Pool
  <2>2. QED BY <1>6, <2>1 DEF PoolOk
<1>8. QED BY <1>2, <1>5, <1>7, ThreadsStep

\* A configuration is proposed.
LEMMA ProposeKeeps ==
  ASSUME IInv, UNCHANGED search, NEW t \in Threads,
         \/ BoTrial(t) \/ RandomDraw(t) \/ MatrixTrial(t) \/ SweepPoint(t)
         \/ TopologyPoint(t)
  PROVE  IInv'
<1>1. /\ UNCHANGED <<search, observed, building, gate, cache>> /\ Proposes(t)
      /\ \E c \in AllConfigs, x \in {"look", "build"} :
           th' = [th EXCEPT ![t] = [at |-> x, cfg |-> c, out |-> "invalid"]]
  BY DEF BoTrial, RandomDraw, MatrixTrial, SweepPoint, TopologyPoint, Propose, Fresh,
         SweepPoints, AllConfigs, files
<1>2. PICK c \in AllConfigs, x \in {"look", "build"} :
        th' = [th EXCEPT ![t] = [at |-> x, cfg |-> c, out |-> "invalid"]]
  BY <1>1
<1>3. [at |-> x, cfg |-> c, out |-> "invalid"] \in [at : Steps, cfg : AllConfigs, out : Results]
  BY DEF Steps, Results
<1>4. ObservedIsSound'
  BY <1>1 DEF IInv, ObservedIsSound
<1>5. QED BY <1>1, <1>2, <1>3, <1>4, ProposerStep

\* A result is recorded.
LEMMA ObserveKeeps ==
  ASSUME IInv, UNCHANGED search, NEW t \in Threads,
         \/ BoObserves(t) \/ RandomObserves(t) \/ MatrixObserves(t) \/ SweepObserves(t)
         \/ TopologyObserves(t)
  PROVE  IInv'
<1>1. /\ UNCHANGED <<search, building, gate, cache>> /\ Proposes(t) /\ At(t, "done")
      /\ observed' = observed \cup {[cfg |-> th[t].cfg, out |-> th[t].out]}
      /\ th' = [th EXCEPT ![t] = Idle]
  BY DEF BoObserves, RandomObserves, MatrixObserves, SweepObserves, TopologyObserves,
         Observe, files
<1>2. ResultOk(t) /\ V(t) = Variant(th[t].cfg)
  BY OfInvariant
<1>3. th[t].out \in Numbers => Variant(th[t].cfg) \in Sound
  BY <1>1, <1>2 DEF ResultOk, At, Answering
<1>4. ObservedIsSound'
  BY <1>1, <1>3 DEF IInv, ObservedIsSound
<1>5. Idle.at = "idle"
  BY DEF Idle
<1>6. QED BY <1>1, <1>4, <1>5, IdleIsThread, ProposerStep

\* The threads of a process are its main thread and its pool.
LEMMA ThreadsOfProcess ==
  ASSUME NEW p \in Procs, NEW u \in Threads, u[1] = p
  PROVE  u = <<p, Main>> \/ u \in Pool(p)
<1>1. u = <<p, u[2]>> /\ u[2] \in {Main} \cup Anchors
  BY ThreadIsProcAndName
<1>2. CASE u[2] \in Anchors
  <2>1. PICK a \in Anchors : u = <<p, a>>
    BY <1>1, <1>2
  <2>2. QED BY <2>1 DEF Pool
<1>3. QED BY <1>1, <1>2

\* The threads of one process change.
LEMMA OtherPools ==
  ASSUME IInv, NEW p \in Procs, \A u \in Threads : u[1] # p => th'[u] = th[u], PoolOk(p)'
  PROVE  \A q \in Procs : PoolOk(q)'
<1>1. SUFFICES ASSUME NEW q \in Procs, q # p PROVE PoolOk(q)'
  OBVIOUS
<1>2. /\ <<q, Main>> \in Threads /\ Pool(q) \subseteq Threads
      /\ \A u \in Pool(q) : u[1] = q
  BY MainIsThread
<1>3. /\ th'[<<q, Main>>] = th[<<q, Main>>]
      /\ \A u \in Pool(q) : th'[u] = th[u]
  BY <1>1, <1>2
<1>4. PoolOk(q) /\ Pool(q)' = Pool(q)
  BY DEF IInv, Pool
<1>5. QED BY <1>3, <1>4 DEF PoolOk, At

\* A step of process p.
LEMMA ProcessStep ==
  ASSUME IInv, NEW p \in Procs, UNCHANGED <<search, observed, building, gate, cache>>,
         th' \in ThreadType, \A u \in Threads : u[1] # p => th'[u] = th[u],
         ThreadOk(<<p, Main>>)', \A u \in Pool(p) : ThreadOk(u)', PoolOk(p)'
  PROVE  IInv'
<1>1. ASSUME NEW u \in Threads PROVE ThreadOk(u)'
  <2>1. CASE u[1] = p
    BY <2>1, ThreadsOfProcess
  <2>2. CASE u[1] # p
    BY <2>2, Unmoved
  <2>3. QED BY <2>1, <2>2
<1>2. \A q \in Procs : PoolOk(q)'
  BY OtherPools
<1>3. ObservedIsSound'
  BY DEF IInv, ObservedIsSound
<1>4. QED BY <1>1, <1>2, <1>3, ThreadsStep

\* A main thread starts its pool on c.
LEMMA StartPoolStep ==
  ASSUME IInv, NEW p \in Procs, UNCHANGED <<search, observed, building, gate, cache>>,
         NEW c \in AllConfigs, NEW x \in {"baseline", "join"}, StartPool(p, c, x),
         At(<<p, Main>>, "fork"), Feasible(c), x = "join" => c = th[<<p, Main>>].cfg
  PROVE  IInv'
<1> DEFINE main == <<p, Main>>
<1>1. /\ main \in Threads /\ Pool(p) \subseteq Threads
      /\ \A u \in Pool(p) : u[1] = p /\ u # main
  BY MainIsThread
<1>2. th \in ThreadType /\ x \in Steps /\ "look" \in Steps /\ "invalid" \in Results
  BY OfInvariant, <1>1 DEF Steps, Results
<1>3. /\ th' \in ThreadType
      /\ th'[main].at = x /\ th'[main].cfg = th[main].cfg
      /\ \A u \in Pool(p) : th'[u] = [at |-> "look", cfg |-> c, out |-> "invalid"]
      /\ \A u \in Threads : u # main /\ u \notin Pool(p) => th'[u] = th[u]
  BY <1>1, <1>2 DEF StartPool, ThreadType
<1>4. \A u \in Threads : u[1] # p => th'[u] = th[u]
  <2>1. main[1] = p
    OBVIOUS
  <2>2. QED BY <1>1, <1>3, <2>1
<1>5. ThreadOk(main)'
  <2>1. AnchorOk(main)
    BY <1>1, OfInvariant
  <2>2. Kind(main) \in OverAnchors /\ Feasible(th[main].cfg)
    BY <2>1 DEF AnchorOk, At, Forking
  <2>3. Kind(main)' = Kind(main) /\ main[2] = Main
    BY DEF Kind
  <2>4. QED BY <1>3, <2>2, <2>3
     DEF ThreadOk, BuildOk, JudgeOk, ResultOk, AnchorOk, At, Building, Built, Judging,
         Running, Answering
<1>6. ASSUME NEW u \in Pool(p) PROVE ThreadOk(u)'
  BY <1>3
     DEF ThreadOk, BuildOk, JudgeOk, ResultOk, AnchorOk, At, Building, Built, Judging,
         Running, Answering, Forking
<1>7. PoolOk(p)'
  <2>1. Pool(p)' = Pool(p)
    BY DEF Pool
  <2>2. x = "join" => \A u \in Pool(p) : th'[u].cfg = th'[main].cfg
    BY <1>3
  <2>3. QED BY <1>3, <2>1, <2>2 DEF PoolOk, At
<1>8. QED BY <1>3, <1>4, <1>5, <1>6, <1>7, ProcessStep

\* A main thread is told what its pool has found.
LEMMA EndPoolStep ==
  ASSUME IInv, NEW p \in Procs, UNCHANGED <<search, observed, building, gate, cache>>,
         NEW x \in {"raised", "fork", "open"}, NEW o \in Results, EndPool(p, x, o),
         th[<<p, Main>>].at \in Forking,
         x = "open" /\ o \in Numbers => V(<<p, Main>>) \in Sound
  PROVE  IInv'
<1> DEFINE main == <<p, Main>>
<1>1. /\ main \in Threads /\ Pool(p) \subseteq Threads
      /\ \A u \in Pool(p) : u[1] = p /\ u # main
  BY MainIsThread
<1>2. th \in ThreadType /\ x \in Steps
  BY OfInvariant, <1>1 DEF Steps
<1>3. /\ th' \in ThreadType
      /\ th'[main].at = x /\ th'[main].cfg = th[main].cfg /\ th'[main].out = o
      /\ \A u \in Pool(p) : th'[u] = Idle
      /\ \A u \in Threads : u # main /\ u \notin Pool(p) => th'[u] = th[u]
  BY <1>1, <1>2, IdleIsThread DEF EndPool, ThreadType
<1>4. \A u \in Threads : u[1] # p => th'[u] = th[u]
  <2>1. main[1] = p
    OBVIOUS
  <2>2. QED BY <1>1, <1>3, <2>1
<1>5. ThreadOk(main)'
  <2>1. AnchorOk(main)
    BY <1>1, OfInvariant
  <2>2. Kind(main) \in OverAnchors /\ Feasible(th[main].cfg)
    BY <2>1 DEF AnchorOk
  <2>3. Kind(main)' = Kind(main) /\ V(main)' = V(main) /\ main[2] = Main
    BY <1>3 DEF Kind, V
  <2>4. QED BY <1>3, <2>2, <2>3
     DEF ThreadOk, BuildOk, JudgeOk, ResultOk, AnchorOk, At, Building, Built, Judging,
         Running, Answering
<1>6. ASSUME NEW u \in Pool(p) PROVE ThreadOk(u)'
  BY <1>3
     DEF Idle, ThreadOk, BuildOk, JudgeOk, ResultOk, AnchorOk, At, Building, Built, Judging,
         Running, Answering, Forking
<1>7. PoolOk(p)'
  BY <1>3 DEF PoolOk, At
<1>8. QED BY <1>3, <1>4, <1>5, <1>6, <1>7, ProcessStep

\* The pool starts on the baseline or on the configuration.
LEMMA ForkKeeps ==
  ASSUME IInv, NEW p \in Procs, Fork(p), UNCHANGED search
  PROVE  IInv'
<1>1. UNCHANGED <<search, observed, building, gate, cache>> /\ At(<<p, Main>>, "fork")
  BY DEF Fork, loop, files
<1>2. <<p, Main>> \in Threads
  BY MainIsThread
<1>3. Feasible(th[<<p, Main>>].cfg) /\ th[<<p, Main>>].cfg \in AllConfigs
  BY <1>1, <1>2, OfInvariant DEF AnchorOk, At, Forking
<1>4. PICK c \in AllConfigs : c = th[<<p, Main>>].cfg
  BY <1>3
<1>5. Feasible(Baseline) /\ Baseline \in AllConfigs
  BY ConstantAssumption DEF AllConfigs
<1>6. CASE StartPool(p, Baseline, "baseline")
  BY <1>1, <1>5, <1>6, StartPoolStep
<1>7. CASE StartPool(p, th[<<p, Main>>].cfg, "join")
  <2>1. StartPool(p, c, "join")
    BY <1>4, <1>7 DEF StartPool
  <2>2. QED BY <1>1, <1>3, <1>4, <2>1, StartPoolStep
<1>8. QED BY <1>6, <1>7 DEF Fork

\* The baseline is there, or an anchor has raised.
LEMMA JoinBaselineKeeps ==
  ASSUME IInv, NEW p \in Procs, JoinBaseline(p), UNCHANGED search
  PROVE  IInv'
<1>1. /\ UNCHANGED <<search, observed, building, gate, cache>>
      /\ th[<<p, Main>>].at \in Forking
  BY DEF JoinBaseline, files, At, Forking
<1>2. "invalid" \in Results
  BY DEF Results
<1>3. EndPool(p, "raised", "invalid") \/ EndPool(p, "fork", "invalid")
  BY DEF JoinBaseline
<1>4. QED BY <1>1, <1>2, <1>3, EndPoolStep

\* All anchors have numbers, or the configuration is invalid.
LEMMA JoinKeeps ==
  ASSUME IInv, NEW p \in Procs, Join(p), UNCHANGED search
  PROVE  IInv'
<1> DEFINE main == <<p, Main>>
<1>1. /\ UNCHANGED <<search, observed, building, gate, cache>>
      /\ At(main, "join") /\ th[main].at \in Forking /\ PoolOver(p)
  BY DEF Join, loop, files, At, Forking
<1>2. /\ main \in Threads /\ Pool(p) \subseteq Threads /\ Pool(p) # {}
      /\ \A u \in Pool(p) : u[1] = p /\ u[2] # Main
  BY MainIsThread
<1>3. PICK o \in Results : EndPool(p, "open", o) /\ (o \in Numbers => ~PoolRaised(p))
  <2>1. Combined(p) \in Results /\ "wrong" \in Results /\ "invalid" \in Results
        /\ "invalid" \notin Numbers
    BY DEF Combined, Results, Numbers
  <2>2. CASE PoolRaised(p)
    BY <2>1, <2>2 DEF Join
  <2>3. CASE ~PoolRaised(p)
    BY <2>1, <2>3 DEF Join
  <2>4. QED BY <2>2, <2>3
<1>4. ASSUME o \in Numbers PROVE V(main) \in Sound
  <2>1. PICK u \in Pool(p) : TRUE
    BY <1>2
  <2>2. At(u, "done")
    BY <1>1, <1>3, <1>4 DEF PoolOver, PoolRaised
  <2>3. AnchorOk(main) /\ AnchorOk(u) /\ ResultOk(u)
    BY <1>2, OfInvariant
  <2>4. Kind(u) \in OverAnchors
    BY <1>1, <1>2, <2>3 DEF AnchorOk, Kind
  <2>5. V(u) \in Sound
    BY <1>2, <2>2, <2>3, <2>4 DEF AnchorOk, ResultOk, At, Answering
  <2>6. th[u].cfg = th[main].cfg
    BY <1>1 DEF IInv, PoolOk
  <2>7. QED BY <2>5, <2>6 DEF V
<1>5. QED BY <1>1, <1>3, <1>4, EndPoolStep

\* An idle thread claims nothing.
LEMMA IdleOk ==
  ASSUME NEW u \in Threads, th'[u] = Idle
  PROVE  ThreadOk(u)' /\ ~At(u, "join")'
BY DEF Idle, ThreadOk, BuildOk, JudgeOk, ResultOk, AnchorOk, At, Building, Built, Judging,
       Running, Answering, Forking

\* All threads of a process end.
LEMMA EndedThreads ==
  ASSUME th \in ThreadType, NEW p \in Procs,
         th' = [t \in Threads |-> IF t[1] = p THEN Idle ELSE th[t]]
  PROVE  /\ th' \in ThreadType
         /\ \A u \in Threads : u[1] = p => th'[u] = Idle
         /\ \A u \in Threads : u[1] # p => th'[u] = th[u]
         /\ PoolOk(p)'
<1>1. /\ th' \in ThreadType
      /\ \A u \in Threads : u[1] = p => th'[u] = Idle
      /\ \A u \in Threads : u[1] # p => th'[u] = th[u]
  BY IdleIsThread DEF ThreadType
<1>2. th'[<<p, Main>>] = Idle
  BY <1>1, MainIsThread
<1>3. QED BY <1>1, <1>2 DEF PoolOk, At, Idle

\* An exception ends the process.
LEMMA DieKeeps ==
  ASSUME IInv, NEW p \in Procs, Die(p), UNCHANGED search
  PROVE  IInv'
<1>1. /\ UNCHANGED <<search, observed, building, gate, cache>>
      /\ th' = [t \in Threads |-> IF t[1] = p THEN Idle ELSE th[t]]
  BY DEF Die, files
<1>2. th \in ThreadType
  BY DEF IInv, Typed
<1>3. /\ <<p, Main>> \in Threads /\ Pool(p) \subseteq Threads
      /\ \A u \in Pool(p) : u[1] = p
      /\ <<p, Main>>[1] = p
  BY MainIsThread
<1>4. ThreadOk(<<p, Main>>)' /\ \A u \in Pool(p) : ThreadOk(u)'
  BY <1>1, <1>2, <1>3, EndedThreads, IdleOk
<1>5. QED BY <1>1, <1>2, <1>4, EndedThreads, ProcessStep

\* The locks of a killed process are free; the others' are still held.
LEMMA KillKeeps ==
  ASSUME IInv, NEW p \in Procs, Kill(p)
  PROVE  IInv'
<1>1. /\ UNCHANGED <<search, observed, artifact, stamp, marker, cache>>
      /\ builder' = Released(builder, p) /\ judge' = Released(judge, p)
      /\ th' = [t \in Threads |-> IF t[1] = p THEN Idle ELSE th[t]]
  BY DEF Kill, files
<1>2. th \in ThreadType /\ BuildType /\ GateType
  BY DEF IInv, Typed
<1>3. /\ th' \in ThreadType /\ PoolOk(p)'
      /\ \A u \in Threads : u[1] = p => th'[u] = Idle
      /\ \A u \in Threads : u[1] # p => th'[u] = th[u]
  BY <1>1, <1>2, EndedThreads
<1>4. BuildType' /\ GateType'
  BY <1>1, <1>2 DEF BuildType, GateType, Released
<1>5. Typed' /\ StampIsTrue' /\ PassIsSound' /\ CacheIsSound' /\ ObservedIsSound'
  BY <1>1, <1>3, <1>4 DEF IInv, Typed, SearchType, CacheType, StampIsTrue, PassIsSound,
                          CacheIsSound, ObservedIsSound
<1>6. ASSUME NEW u \in Threads PROVE ThreadOk(u)'
  <2>1. CASE u[1] = p
    BY <1>3, <2>1, IdleOk
  <2>2. CASE u[1] # p
    <3>1. V(u)' = V(u) /\ Kind(u)' = Kind(u) /\ th'[u] = th[u]
      BY <1>1, <1>3, <2>2 DEF V, Kind
    <3>2. BuildOk(u) /\ JudgeOk(u) /\ ResultOk(u) /\ AnchorOk(u) /\ V(u) \in Variants
      BY OfInvariant
    <3>3. /\ builder[V(u)] = u => builder'[V(u)] = u
          /\ judge[V(u)] = u => judge'[V(u)] = u
      BY <1>1, <2>2, <3>2 DEF Released
    <3>4. BuildOk(u)' /\ JudgeOk(u)'
      BY <1>1, <3>1, <3>2, <3>3 DEF BuildOk, JudgeOk, At
    <3>5. ResultOk(u)' /\ AnchorOk(u)'
      BY <3>1, <3>2 DEF ResultOk, AnchorOk, At
    <3>6. QED BY <3>4, <3>5 DEF ThreadOk
  <2>3. QED BY <2>1, <2>2
<1>7. \A q \in Procs : PoolOk(q)'
  BY <1>3, OtherPools
<1>8. QED BY <1>5, <1>6, <1>7 DEF IInv

-----------------------------------------------------------------------------
(* The invariant.                                                          *)

\* The initial states satisfy the invariant.
LEMMA InitEstablishes == Init => IInv
<1> SUFFICES ASSUME Init PROVE IInv
  OBVIOUS
<1>1. SearchType
  BY ConstantAssumption DEF Init, SearchType
<1>2. th \in ThreadType /\ \A t \in Threads : th[t] = Idle
  BY IdleIsThread DEF Init, ThreadType
<1>3. BuildType /\ GateType /\ CacheType
  BY DEF Init, BuildType, GateType, CacheType
<1>4. StampIsTrue /\ PassIsSound /\ CacheIsSound /\ ObservedIsSound
  BY DEF Init, StampIsTrue, PassIsSound, CacheIsSound, ObservedIsSound, Absent, Numbers
<1>5. \A t \in Threads : ThreadOk(t)
  BY <1>2 DEF Idle, ThreadOk, BuildOk, JudgeOk, ResultOk, AnchorOk, At, Building, Built,
              Judging, Running, Answering, Forking
<1>6. \A p \in Procs : PoolOk(p)
  BY <1>2, MainIsThread DEF PoolOk, At, Idle
<1>7. QED BY <1>1, <1>2, <1>3, <1>4, <1>5, <1>6 DEF IInv, Typed

\* Every step keeps it.
LEMMA StepKeeps == IInv /\ [Next]_vars => IInv'
<1> SUFFICES ASSUME IInv, [Next]_vars PROVE IInv'
  OBVIOUS
<1>1. ASSUME NEW t \in Threads, Step(t), UNCHANGED search PROVE IInv'
  BY <1>1, HitKeeps, MissKeeps, ReuseKeeps, BuildCachedKeeps, BuildLockKeeps,
     BuildFoundKeeps, BuildMakesKeeps, BuildStampKeeps, BuildFailsKeeps, GateKnownKeeps,
     GateLockKeeps, GateFoundKeeps, GateRunKeeps, GateVerdictKeeps, TraceKeeps,
     MeasuredKeeps, WorkloadFailsKeeps, CacheKeeps, ProposeKeeps, ObserveKeeps DEF Step
<1>2. ASSUME NEW p \in Procs, Process(p), UNCHANGED search PROVE IInv'
  BY <1>2, ForkKeeps, JoinBaselineKeeps, JoinKeeps, DieKeeps DEF Process
<1>3. ASSUME NEW p \in Procs, Kill(p) PROVE IInv'
  BY <1>3, KillKeeps
<1>4. CASE UNCHANGED vars
  <2>1. UNCHANGED <<search, building, gate, cache>> /\ observed' = observed /\ th' = th
    BY <1>4 DEF vars, loop, files
  <2>2. th' \in ThreadType /\ ObservedIsSound'
    BY <2>1 DEF IInv, Typed, ObservedIsSound
  <2>3. \A u \in Threads : ThreadOk(u)'
    BY <2>1, Unmoved
  <2>4. \A p \in Procs : PoolOk(p)'
    <3>1. ASSUME NEW p \in Procs PROVE PoolOk(p)'
      <4>1. PoolOk(p) /\ Pool(p)' = Pool(p)
        BY DEF IInv, Pool
      <4>2. QED BY <2>1, <4>1 DEF PoolOk, At
    <3>2. QED BY <3>1
  <2>5. QED BY <2>1, <2>2, <2>3, <2>4, ThreadsStep
<1>5. QED BY <1>1, <1>2, <1>3, <1>4 DEF Next, Finished

\* It holds always.
LEMMA InvariantHolds == Spec => []IInv
<1>1. QED BY InitEstablishes, StepKeeps, PTL DEF Spec

-----------------------------------------------------------------------------
(* A verdict stays.                                                        *)

\* Only the gate writes markers.
LEMMA OnlyGateWrites ==
  ASSUME NEW t \in Threads, Step(t)
  PROVE  GateRun(t) \/ GateVerdict(t) \/ marker' = marker
<1>1. CASE Hit(t) \/ Miss(t) \/ Reuse(t)
  BY <1>1 DEF Hit, Miss, Reuse, gate
<1>2. CASE \/ BuildCached(t) \/ BuildLock(t) \/ BuildFound(t)
           \/ BuildBegin(t) \/ BuildEnd(t) \/ BuildStamp(t) \/ BuildFails(t)
  BY <1>2 DEF BuildCached, BuildLock, BuildFound, BuildBegin, BuildEnd, BuildStamp,
              BuildFails, gate
<1>3. CASE GateKnown(t) \/ GateLock(t) \/ GateFound(t)
  BY <1>3 DEF GateKnown, GateLock, GateFound, gate
<1>4. CASE \/ WriteTrace(t) \/ TraceWritten(t) \/ PointMeasured(t) \/ AnchorMeasured(t)
           \/ TopologyMeasured(t) \/ WorkloadFails(t) \/ OpenCache(t) \/ CloseCache(t)
  BY <1>4 DEF WriteTrace, TraceWritten, PointMeasured, AnchorMeasured, TopologyMeasured,
              WorkloadFails, OpenCache, CloseCache, gate
<1>5. CASE \/ BoTrial(t) \/ RandomDraw(t) \/ MatrixTrial(t) \/ SweepPoint(t)
           \/ TopologyPoint(t)
  BY <1>5 DEF BoTrial, RandomDraw, MatrixTrial, SweepPoint, TopologyPoint, Propose, gate
<1>6. CASE \/ BoObserves(t) \/ RandomObserves(t) \/ MatrixObserves(t)
           \/ SweepObserves(t) \/ TopologyObserves(t)
  BY <1>6 DEF BoObserves, RandomObserves, MatrixObserves, SweepObserves, TopologyObserves,
              Observe, gate
<1>7. QED BY <1>1, <1>2, <1>3, <1>4, <1>5, <1>6 DEF Step

\* A gate overwrites what it has written itself, under its lock.
LEMMA StepKeepsVerdicts ==
  ASSUME IInv, [Next]_vars
  PROVE  \A v \in Variants : Judged(v) =>
           \/ marker'[v] = marker[v]
           \/ marker[v] = Torn /\ judge[v] # Free
<1> SUFFICES ASSUME NEW v \in Variants, Judged(v), marker'[v] # marker[v]
             PROVE  marker[v] = Torn /\ judge[v] # Free
  OBVIOUS
<1>1. marker \in [Variants -> {Absent, Torn, "PASS", "INVALID"}] /\ th \in ThreadType
  BY DEF IInv, Typed, GateType
<1>2. ASSUME NEW t \in Threads, Step(t) PROVE marker[v] = Torn /\ judge[v] # Free
  <2>1. V(t) \in Variants /\ t # Free /\ JudgeOk(t)
    BY <1>1, VariantOfThread, ThreadIsProcAndName DEF IInv, ThreadOk
  <2>2. CASE GateRun(t)
    <3>1. v # V(t)
      BY <2>2 DEF GateRun, NotJudged
    <3>2. marker'[v] = marker[v]
      BY <1>1, <2>2, <3>1 DEF GateRun
    <3>3. QED BY <3>2
  <2>3. CASE GateVerdict(t)
    <3>1. v = V(t)
      BY <1>1, <2>3 DEF GateVerdict
    <3>2. th[t].at \in {"pass", "fail"}
      BY <2>3 DEF GateVerdict, At
    <3>3. QED BY <2>1, <3>1, <3>2 DEF JudgeOk, Judging
  <2>4. QED BY <1>2, <2>2, <2>3, OnlyGateWrites
<1>3. ASSUME NEW p \in Procs, Process(p) PROVE marker' = marker
  BY <1>3 DEF Process, Fork, JoinBaseline, Join, Die, gate
<1>4. ASSUME NEW p \in Procs, Kill(p) PROVE marker' = marker
  BY <1>4 DEF Kill
<1>5. CASE UNCHANGED vars
  BY <1>5 DEF vars, gate
<1>6. QED BY <1>2, <1>3, <1>4, <1>5 DEF Next, Finished

-----------------------------------------------------------------------------
(* A search that is alone.                                                 *)

\* Where the main thread of an evaluation over the anchors may be.
MainSteps == {"look", "fork", "baseline", "join", "open", "close", "done", "raised"}

LoopType ==
  /\ left \in [Procs -> Nat] /\ seen \in [Procs -> SUBSET AllConfigs]
  /\ base \in [Procs -> {Absent} \cup Numbers] /\ trace \in [Places -> {Torn, "whole"}]
BudgetOk == \A p \in Procs : search[p].budget = 0 => left[p] = 0
\* A thread that works is of a search that has work, and of the right name.
Role(t) ==
  ~At(t, "idle") =>
    /\ search[t[1]].budget # 0
    /\ Kind(t) \in {"bo", "random", "topology"} => t[2] = Main
    /\ Kind(t) = "sweep" => t[2] # Main /\ th[t].cfg \in seen[t[1]]
    /\ Kind(t) \in OverAnchors /\ t[2] = Main => th[t].at \in MainSteps
\* The threads of a sweep have different points.
Apart(t, u) ==
  t # u /\ t[1] = u[1] /\ Kind(t) = "sweep" /\ ~At(t, "idle") /\ ~At(u, "idle")
    => th[t].cfg # th[u].cfg
Roles == (\A t \in Threads : Role(t)) /\ (\A t, u \in Threads : Apart(t, u))

\* Nothing is wrong yet, and what the simulator is about to read is whole.
Exact ==
  /\ \A t \in Threads : th[t].out # "wrong" /\ (At(t, "sim") => trace[Place(t)] = "whole")
  /\ \A p \in Procs : base[p] # "wrong" /\ (At(<<p, Main>>, "join") => base[p] = "exact")
  /\ \A f \in Places : cache[f] # "wrong"
  /\ \A r \in observed : r.out # "wrong"

\* The inductive invariant, beside IInv.
AInv == LoopType /\ BudgetOk /\ Roles /\ (Alone => Exact)

\* One process works, when only one has a budget.
LEMMA OneProcess ==
  ASSUME IInv, Alone, NEW p \in Procs, NEW q \in Procs,
         search[p].budget # 0, search[q].budget # 0
  PROVE  p = q
<1> DEFINE Busy == {r \in Procs : search[r].budget > 0}
<1>1. IsFiniteSet(Busy)
  BY ConstantAssumption, FS_Subset
<1>2. Cardinality(Busy) = 1
  BY DEF Alone
<1>3. PICK x : Busy = {x}
  <2> HIDE DEF Busy
  <2>1. QED BY <1>1, <1>2, FS_Singleton
<1>4. search[p].budget \in Nat /\ search[q].budget \in Nat
  BY DEF IInv, Typed, SearchType
<1>5. p \in Busy /\ q \in Busy
  BY <1>4
<1>6. QED BY <1>3, <1>5

\* Threads that run workloads at the same time do so in different directories.
LEMMA OwnDirectory ==
  ASSUME IInv, Roles, Alone, NEW t \in Threads, NEW u \in Threads \ {t},
         th[t].at \in Running, th[u].at \in Running
  PROVE  Place(t) # Place(u)
<1>1. /\ ~At(t, "idle") /\ ~At(u, "idle") /\ Role(t) /\ Role(u) /\ Apart(t, u)
      /\ th[t].at \notin MainSteps /\ th[u].at \notin MainSteps
  BY DEF Roles, At, Running, MainSteps
<1>2. /\ t[1] \in Procs /\ t = <<t[1], t[2]>>
      /\ u[1] \in Procs /\ u = <<u[1], u[2]>>
  BY ThreadIsProcAndName
<1>3. t[1] = u[1] /\ Kind(t) = Kind(u)
  BY <1>1, <1>2, OneProcess DEF Role, Kind
<1>4. t[2] # u[2]
  BY <1>2, <1>3
<1>5. Kind(t) \in Kinds
  BY <1>2 DEF Kind, IInv, Typed, SearchType
<1>6. CASE Kind(t) \in {"bo", "random", "topology"}
  BY <1>1, <1>3, <1>4, <1>6 DEF Role
<1>7. CASE Kind(t) = "sweep"
  <2>1. th[t].cfg # th[u].cfg
    BY <1>1, <1>3, <1>7 DEF Apart
  <2>2. Place(t)[2] = th[t].cfg /\ Place(u)[2] = th[u].cfg
    BY PlaceOfThread, OfInvariant
  <2>3. QED BY <2>1, <2>2
<1>8. CASE Kind(t) \in OverAnchors
  <2>1. Place(t) = AnchorPlace(t) /\ Place(u) = AnchorPlace(u)
    BY <1>3, <1>8 DEF Place, OverAnchors
  <2>2. AnchorPlace(t)[3] = t[2] /\ AnchorPlace(u)[3] = u[2]
    BY DEF AnchorPlace
  <2>3. QED BY <1>4, <2>1, <2>2
<1>9. QED BY <1>5, <1>6, <1>7, <1>8 DEF Kinds, OverAnchors

-----------------------------------------------------------------------------
(* A thread goes on, and the loops of the searches stay as they are.       *)

Working(t) ==
  /\ Moves(t) /\ UNCHANGED <<search, loop>>
  /\ ~At(t, "idle") /\ th'[t].at \notin {"idle", "join"}
  /\ Kind(t) \in OverAnchors /\ t[2] = Main /\ th[t].at \in MainSteps
       => th'[t].at \in MainSteps

\* What a working thread has to leave behind.
ExactStep(t) ==
  /\ th'[t].out # "wrong"
  /\ At(t, "sim")' => trace'[Place(t)] = "whole"
  /\ \A u \in Threads \ {t} : At(u, "sim") => trace'[Place(u)] = trace[Place(u)]
  /\ \A f \in Places : cache'[f] # "wrong"

\* Its configuration, its place and the others are as before.
LEMMA WorkingMoves ==
  ASSUME IInv, NEW t \in Threads, Working(t)
  PROVE  /\ UNCHANGED <<search, left, seen, base, observed>>
         /\ \A u \in Threads : /\ th'[u].cfg = th[u].cfg /\ Kind(u)' = Kind(u)
                               /\ Place(u)' = Place(u)
                               /\ At(u, "idle")' <=> At(u, "idle")
         /\ \A u \in Threads \ {t} : th'[u] = th[u]
<1>1. UNCHANGED <<search, left, seen, base, observed>> /\ th \in ThreadType
  BY OfInvariant DEF Working, loop
<1>2. \A u \in Threads : th'[u].cfg = th[u].cfg /\ Kind(u)' = Kind(u)
  BY <1>1 DEF Working, Moves, Kind
<1>3. \A u \in Threads : Place(u)' = Place(u)
  BY <1>2 DEF Place, PointPlace, AnchorPlace, TopologyPlace
<1>4. \A u \in Threads : At(u, "idle")' <=> At(u, "idle")
  BY DEF Working, Moves, At
<1>5. QED BY <1>1, <1>2, <1>3, <1>4 DEF Working, Moves

\* What there is to show of a working thread.
LEMMA WorkingKeeps ==
  ASSUME IInv, AInv, NEW t \in Threads, Working(t),
         trace' \in [Places -> {Torn, "whole"}],
         Alone /\ Exact => ExactStep(t)
  PROVE  AInv'
<1>1. /\ UNCHANGED <<search, left, seen, base, observed>>
      /\ \A u \in Threads : /\ th'[u].cfg = th[u].cfg /\ Kind(u)' = Kind(u)
                            /\ Place(u)' = Place(u)
                            /\ At(u, "idle")' <=> At(u, "idle")
      /\ \A u \in Threads \ {t} : th'[u] = th[u]
  BY WorkingMoves
<1>2. LoopType' /\ BudgetOk'
  BY <1>1 DEF AInv, LoopType, BudgetOk
<1>3. ASSUME NEW u \in Threads PROVE Role(u)'
  <2>1. Role(u)
    BY DEF AInv, Roles
  <2>2. Kind(u) \in OverAnchors /\ u[2] = Main /\ th[u].at \in MainSteps
          => th'[u].at \in MainSteps
    BY <1>1 DEF Working
  <2>3. QED BY <1>1, <2>1, <2>2 DEF Role
<1>4. ASSUME NEW u \in Threads, NEW w \in Threads PROVE Apart(u, w)'
  <2>1. Apart(u, w)
    BY DEF AInv, Roles
  <2>2. QED BY <1>1, <2>1 DEF Apart
<1>5. ASSUME Alone' PROVE Exact'
  <2>1. Alone /\ Exact /\ ExactStep(t)
    BY <1>1, <1>5 DEF Alone, AInv
  <2>2. ASSUME NEW u \in Threads
        PROVE  th'[u].out # "wrong" /\ (At(u, "sim")' => trace'[Place(u)'] = "whole")
    <3>1. CASE u = t
      BY <1>1, <2>1, <3>1 DEF ExactStep
    <3>2. CASE u # t
      BY <1>1, <2>1, <3>2 DEF ExactStep, Exact, At
    <3>3. QED BY <3>1, <3>2
  <2>3. ASSUME NEW p \in Procs
        PROVE  base'[p] # "wrong" /\ (At(<<p, Main>>, "join")' => base'[p] = "exact")
    <3>1. At(<<p, Main>>, "join")' => At(<<p, Main>>, "join")
      BY <1>1, MainIsThread DEF Working, At
    <3>2. QED BY <1>1, <2>1, <3>1 DEF Exact
  <2>4. QED BY <1>1, <2>1, <2>2, <2>3 DEF Exact, ExactStep
<1>6. QED BY <1>2, <1>3, <1>4, <1>5 DEF AInv, Roles

\* Where it writes no file and does not come to the simulator, its result counts.
LEMMA ThinkingKeeps ==
  ASSUME IInv, AInv, NEW t \in Threads, Working(t), UNCHANGED files, ~At(t, "sim")',
         Alone /\ Exact => th'[t].out # "wrong"
  PROVE  AInv'
<1>1. cache' = cache /\ trace' = trace
  BY DEF files
<1>2. trace' \in [Places -> {Torn, "whole"}]
  BY <1>1 DEF AInv, LoopType
<1>3. Alone /\ Exact => ExactStep(t)
  BY <1>1 DEF Exact, ExactStep
<1>4. QED BY <1>2, <1>3, WorkingKeeps

-----------------------------------------------------------------------------
(* The steps of a thread that write no file of results.                    *)

\* Who fails ends with no other result than it had, or with none.
LEMMA FailResult ==
  ASSUME th \in ThreadType, NEW t \in Threads, Fail(t)
  PROVE  th'[t].out \in {th[t].out, "invalid"}
<1>1. CASE Kind(t) \in OverAnchors
  <2>1. Goto(t, "raised")
    BY <1>1 DEF Fail, AnchorRaises, OverAnchors
  <2>2. QED BY <2>1, GotoMoves DEF Steps
<1>2. CASE Kind(t) \notin OverAnchors
  <2>1. Return(t, "done", "invalid") \/ Return(t, "open", "invalid")
    BY <1>2 DEF Fail, TopologySkips, PointFails, OverAnchors
  <2>2. QED BY <2>1, ReturnMoves DEF Steps, Results
<1>3. QED BY <1>1, <1>2

\* In a build, at the gate and in a run a thread goes on or fails.
LEMMA GoingOn ==
  ASSUME IInv, NEW t \in Threads, UNCHANGED <<search, loop>>,
         th[t].at \notin MainSteps \cup {"idle"},
         \/ Fail(t)
         \/ \E x \in {"lock", "locked", "check", "make", "stamp", "vlock", "vlocked", "pass",
                      "fail", "run", "write", "sim", "raised"} : Goto(t, x)
  PROVE  Working(t) /\ th'[t].out \in {th[t].out, "invalid"}
<1>1. th \in ThreadType
  BY OfInvariant
<1>2. /\ Moves(t) /\ th'[t].at \notin {"idle", "join"}
      /\ th'[t].out \in {th[t].out, "invalid"}
  <2>1. CASE Fail(t)
    BY <1>1, <2>1, FailFails, FailResult DEF Fails
  <2>2. ASSUME NEW x \in {"lock", "locked", "check", "make", "stamp", "vlock", "vlocked",
                          "pass", "fail", "run", "write", "sim", "raised"}, Goto(t, x)
        PROVE  /\ Moves(t) /\ th'[t].at \notin {"idle", "join"}
               /\ th'[t].out \in {th[t].out, "invalid"}
    BY <1>1, <2>2, GotoMoves DEF Steps
  <2>3. QED BY <2>1, <2>2
<1>3. QED BY <1>2 DEF Working, At

\* Builds and gates touch no result.
LEMMA BuildOrGateKeeps ==
  ASSUME IInv, AInv, NEW t \in Threads, UNCHANGED search,
         \/ BuildCached(t) \/ BuildLock(t) \/ BuildFound(t)
         \/ BuildBegin(t) \/ BuildEnd(t) \/ BuildStamp(t) \/ BuildFails(t)
         \/ GateKnown(t) \/ GateLock(t) \/ GateFound(t) \/ GateRun(t) \/ GateVerdict(t)
  PROVE  AInv'
<1>1. /\ UNCHANGED <<search, loop, files>>
      /\ th[t].at \in {"build", "make", "check", "vlocked", "pass", "fail", "lock",
                       "locked", "stamp", "vlock"}
  BY DEF BuildCached, BuildLock, BuildFound, BuildBegin, BuildEnd, BuildStamp, BuildFails,
         GateKnown, GateLock, GateFound, GateRun, GateVerdict, At
<1>2. \/ Fail(t)
      \/ \E x \in {"lock", "locked", "check", "make", "stamp", "vlock", "vlocked", "pass",
                   "fail", "run"} : Goto(t, x)
  BY DEF BuildCached, BuildLock, BuildFound, BuildBegin, BuildEnd, BuildStamp, BuildFails,
         GateKnown, GateLock, GateFound, GateRun, GateVerdict
<1>3. Working(t) /\ th'[t].out \in {th[t].out, "invalid"}
  BY <1>1, <1>2, GoingOn DEF MainSteps
<1>4. ~At(t, "sim")'
  <2>1. th \in ThreadType
    BY OfInvariant
  <2>2. QED BY <1>2, <2>1, GotoMoves, FailFails DEF At, Fails, Steps
<1>5. Exact => th'[t].out # "wrong"
  BY <1>3 DEF Exact
<1>6. QED BY <1>1, <1>3, <1>4, <1>5, ThinkingKeeps

\* What a cache has answered is not wrong when no cache is.
LEMMA LookKeeps ==
  ASSUME IInv, AInv, NEW t \in Threads, UNCHANGED search, Hit(t) \/ Miss(t) \/ Reuse(t)
  PROVE  AInv'
<1>1. UNCHANGED <<search, loop, files>> /\ th[t].at \in {"look", "reuse"}
  BY DEF Hit, Miss, Reuse, At
<1>2. th \in ThreadType /\ SearchType /\ th[t].out \in Results /\ th[t].cfg \in AllConfigs
  BY OfInvariant
<1>3. Role(t)
  BY DEF AInv, Roles
<1>4. ASSUME NEW x \in {"raised", "fork", "reuse", "build"}, Goto(t, x),
             Kind(t) \in OverAnchors /\ t[2] = Main => x \in MainSteps \/ At(t, "reuse")
      PROVE  AInv'
  <2>1. Moves(t) /\ th'[t].at = x /\ th'[t].out = th[t].out
    BY <1>2, <1>4, GotoMoves DEF Steps
  <2>2. Working(t) /\ ~At(t, "sim")'
    BY <1>1, <1>4, <2>1 DEF Working, At, MainSteps
  <2>3. QED BY <1>1, <2>1, <2>2, ThinkingKeeps DEF Exact
<1>5. ASSUME NEW x \in {"open", "done"}, NEW o \in Results, Return(t, x, o),
             o = "invalid" \/ \E f \in Places : o = cache[f]
      PROVE  AInv'
  <2>1. Moves(t) /\ th'[t].at = x /\ th'[t].out = o
    BY <1>2, <1>5, ReturnMoves DEF Steps
  <2>2. Working(t) /\ ~At(t, "sim")'
    BY <1>1, <2>1 DEF Working, At, MainSteps
  <2>3. Exact => o # "wrong"
    BY <1>5 DEF Exact
  <2>4. QED BY <1>1, <2>1, <2>2, <2>3, ThinkingKeeps
<1>6. CASE Hit(t)
  <2>1. Place(t) \in Places
    BY <1>2, PlaceOfThread
  <2>2. CASE cache[Place(t)] = Torn
    BY <1>4, <1>6, <2>2 DEF Hit, MainSteps
  <2>3. CASE cache[Place(t)] # Torn
    <3>1. cache[Place(t)] \in Results
      BY <1>6, <2>1, <2>3 DEF Hit, IInv, Typed, CacheType
    <3>2. QED BY <1>5, <1>6, <2>1, <2>3, <3>1 DEF Hit
  <2>4. QED BY <2>2, <2>3
<1>7. CASE Miss(t)
  <2>1. CASE ~Feasible(th[t].cfg)
    BY <1>5, <1>7, <2>1 DEF Miss, Results
  <2>2. CASE Feasible(th[t].cfg)
    <3>1. PICK x \in {"fork", "reuse", "build"} :
            Goto(t, x) /\ (Kind(t) \in OverAnchors /\ t[2] = Main => x = "fork")
      <4>1. CASE Kind(t) \in OverAnchors /\ t[2] = Main
        BY ConstantAssumption, <1>7, <2>2, <4>1 DEF Miss
      <4>2. CASE Kind(t) \in OverAnchors /\ t[2] # Main /\ t[2] \in Reused
        BY <1>7, <2>2, <4>2 DEF Miss
      <4>3. CASE Kind(t) \notin OverAnchors \/ (t[2] # Main /\ t[2] \notin Reused)
        BY <1>7, <2>2, <4>3 DEF Miss
      <4>4. QED BY <4>1, <4>2, <4>3
    <3>2. QED BY <1>4, <3>1 DEF MainSteps
  <2>3. QED BY <2>1, <2>2
<1>8. CASE Reuse(t)
  <2>1. PICK f : f = <<"point", th[t].cfg, Main>>
    OBVIOUS
  <2>2. f \in Places
    BY <1>2, <2>1 DEF Places, AllConfigs
  <2>3. Goto(t, "raised") \/ Goto(t, "build")
          \/ (cache[f] \in Numbers /\ Return(t, "open", cache[f]))
    BY <1>8, <2>1 DEF Reuse
  <2>4. At(t, "reuse") /\ Numbers \subseteq Results
    BY <1>8 DEF Reuse, Results
  <2>5. QED BY <1>4, <1>5, <2>2, <2>3, <2>4
<1>9. QED BY <1>6, <1>7, <1>8

-----------------------------------------------------------------------------
(* The workloads.                                                          *)

\* The simulator has whole inputs and a whole build.
LEMMA MeasureKeeps ==
  ASSUME IInv, AInv, NEW t \in Threads, UNCHANGED search,
         PointMeasured(t) \/ AnchorMeasured(t) \/ TopologyMeasured(t) \/ WorkloadFails(t)
  PROVE  AInv'
<1>1. /\ UNCHANGED <<search, loop, files>> /\ th[t].at = "sim"
      /\ th[t].at \notin MainSteps \cup {"idle"}
  BY DEF PointMeasured, AnchorMeasured, TopologyMeasured, WorkloadFails, At, MainSteps
<1>2. th \in ThreadType
  BY OfInvariant
<1>3. CASE WorkloadFails(t)
  <2>1. Goto(t, "raised") \/ Fail(t)
    BY <1>3 DEF WorkloadFails
  <2>2. Working(t) /\ th'[t].out \in {th[t].out, "invalid"}
    BY <1>1, <2>1, GoingOn
  <2>3. ~At(t, "sim")'
    BY <1>2, <2>1, GotoMoves, FailFails DEF At, Fails, Steps
  <2>4. QED BY <1>1, <2>2, <2>3, ThinkingKeeps DEF Exact
<1>4. CASE ~WorkloadFails(t)
  <2>1. PICK x \in {"open", "done"} : Return(t, x, Simulated(t))
    BY <1>4 DEF PointMeasured, AnchorMeasured, TopologyMeasured
  <2>2. Simulated(t) \in Results
    BY DEF Simulated, Results, Numbers
  <2>3. Moves(t) /\ th'[t].at = x /\ th'[t].out = Simulated(t)
    BY <1>2, <2>1, <2>2, ReturnMoves DEF Steps
  <2>4. Working(t) /\ ~At(t, "sim")'
    BY <1>1, <2>3 DEF Working, At
  <2>5. artifact[V(t)] = "whole"
    BY <1>1, OfInvariant DEF BuildOk, Built, Running, IInv, StampIsTrue
  <2>6. Exact => Simulated(t) = "exact"
    BY <1>1, <2>5 DEF Exact, At, Simulated
  <2>7. QED BY <1>1, <2>3, <2>4, <2>6, ThinkingKeeps
<1>5. QED BY <1>3, <1>4

\* A directory is written by a thread that has it for itself.
LEMMA WorkloadKeeps ==
  ASSUME IInv, AInv, NEW t \in Threads, UNCHANGED search, WriteTrace(t) \/ TraceWritten(t)
  PROVE  AInv'
<1>1. /\ UNCHANGED <<search, loop, cache>> /\ th[t].at \in {"run", "write"}
      /\ th[t].at \notin MainSteps \cup {"idle"} /\ th[t].at \in Running
  BY DEF WriteTrace, TraceWritten, At, MainSteps, Running
<1>2. th \in ThreadType /\ Place(t) \in Places
  BY OfInvariant, PlaceOfThread
<1>3. \E x \in {"write", "sim"} : Goto(t, x)
  BY DEF WriteTrace, TraceWritten
<1>4. Working(t)
  BY <1>1, <1>3, GoingOn
<1>5. th'[t].out = th[t].out
  BY <1>2, <1>3, GotoMoves DEF Steps
<1>6. /\ trace' \in [Places -> {Torn, "whole"}]
      /\ \A d \in Places : d # Place(t) => trace'[d] = trace[d]
  BY <1>2 DEF WriteTrace, TraceWritten, AInv, LoopType
<1>7. ASSUME Alone, Exact PROVE ExactStep(t)
  <2>1. \A u \in Threads \ {t} : th[u].at \in Running => Place(u) # Place(t)
    BY <1>1, <1>7, OwnDirectory DEF AInv
  <2>2. At(t, "sim")' => trace'[Place(t)] = "whole"
    <3>1. CASE WriteTrace(t)
      BY <1>2, <3>1, GotoMoves DEF WriteTrace, At, Steps
    <3>2. CASE TraceWritten(t)
      <4>1. ~\E u \in Threads \ {t} : At(u, "write") /\ Place(u) = Place(t)
        BY <2>1 DEF At, Running
      <4>2. QED BY <1>2, <3>2, <4>1 DEF TraceWritten, AInv, LoopType
    <3>3. QED BY <3>1, <3>2
  <2>3. \A u \in Threads \ {t} : At(u, "sim") => trace'[Place(u)] = trace[Place(u)]
    BY <1>6, <2>1, OfInvariant, PlaceOfThread DEF At, Running
  <2>4. QED BY <1>1, <1>5, <1>7, <2>2, <2>3 DEF ExactStep, Exact
<1>8. QED BY <1>4, <1>6, <1>7, WorkingKeeps

\* The result of a thread goes to its cache file.
LEMMA CachingKeeps ==
  ASSUME IInv, AInv, NEW t \in Threads, UNCHANGED search, OpenCache(t) \/ CloseCache(t)
  PROVE  AInv'
<1>1. UNCHANGED <<search, loop, trace>> /\ th[t].at \in {"open", "close"}
  BY DEF OpenCache, CloseCache, At
<1>2. th \in ThreadType /\ Place(t) \in Places /\ th[t].out \in Results
  BY OfInvariant, PlaceOfThread
<1>3. PICK x \in {"close", "done"} : Goto(t, x)
  BY DEF OpenCache, CloseCache
<1>4. Moves(t) /\ th'[t].at = x /\ th'[t].out = th[t].out
  BY <1>2, <1>3, GotoMoves DEF Steps
<1>5. Working(t)
  BY <1>1, <1>4 DEF Working, At, MainSteps
<1>6. \A f \in Places : cache'[f] \in {cache[f], Torn, th[t].out}
  BY <1>2 DEF OpenCache, CloseCache, IInv, Typed, CacheType
<1>7. trace' \in [Places -> {Torn, "whole"}]
  BY <1>1 DEF AInv, LoopType
<1>8. Exact => ExactStep(t)
  BY <1>1, <1>4, <1>6 DEF Exact, ExactStep, At, Torn
<1>9. QED BY <1>5, <1>7, <1>8, WorkingKeeps

-----------------------------------------------------------------------------
(* The searches.                                                           *)

\* A proposal is new to a sweep, an observation is of what is not wrong.
LEMMA LoopKeeps ==
  ASSUME IInv, AInv, NEW t \in Threads, UNCHANGED <<search, files>>, Proposes(t),
         NEW w \in [at : {"idle", "look", "build"}, cfg : AllConfigs, out : {"invalid"}],
         th' = [th EXCEPT ![t] = w],
         left' \in [Procs -> Nat], seen' \in [Procs -> SUBSET AllConfigs], base' = base,
         \A p \in Procs : left'[p] <= left[p] /\ seen[p] \subseteq seen'[p],
         w.at # "idle" => search[t[1]].budget # 0 /\ w.cfg \in seen'[t[1]],
         w.at # "idle" /\ Kind(t) = "sweep" => w.cfg \notin seen[t[1]],
         w.at = "build" => Kind(t) \notin OverAnchors,
         Exact => \A r \in observed' : r.out # "wrong"
  PROVE  AInv'
<1>1. /\ UNCHANGED <<search, cache, trace, base>> /\ th \in ThreadType /\ t[1] \in Procs
      /\ Kind(t) \in Kinds
  BY OfInvariant, ThreadIsProcAndName DEF files, Kind, IInv, Typed, SearchType
<1>2. /\ th'[t] = w /\ \A u \in Threads \ {t} : th'[u] = th[u]
      /\ \A u \in Threads : Kind(u)' = Kind(u)
  BY <1>1 DEF ThreadType, Kind
<1>3. \A u \in Threads \ {t} : Place(u)' = Place(u)
  BY <1>2 DEF Place, PointPlace, AnchorPlace, TopologyPlace
<1>4. LoopType' /\ BudgetOk'
  <2>1. ASSUME NEW p \in Procs, search[p].budget = 0 PROVE left'[p] = 0
    <3>1. left[p] = 0 /\ left'[p] \in Nat /\ left'[p] <= left[p]
      BY <2>1 DEF AInv, BudgetOk
    <3>2. QED BY <3>1
  <2>2. QED BY <1>1, <2>1 DEF AInv, LoopType, BudgetOk
<1>5. ASSUME NEW u \in Threads PROVE Role(u)'
  <2>1. CASE u = t
    BY <1>1, <1>2, <2>1 DEF Role, Proposes, At, OverAnchors, MainSteps
  <2>2. CASE u # t
    <3>1. Role(u) /\ u[1] \in Procs
      BY ThreadIsProcAndName DEF AInv, Roles
    <3>2. QED BY <1>1, <1>2, <2>2, <3>1 DEF Role, At
  <2>3. QED BY <2>1, <2>2
<1>6. ASSUME NEW u \in Threads, NEW x \in Threads PROVE Apart(u, x)'
  <2>1. Apart(u, x) /\ Role(u) /\ Role(x)
    BY DEF AInv, Roles
  <2>2. CASE u # t /\ x # t
    BY <1>1, <1>2, <2>1, <2>2 DEF Apart, At
  <2>3. CASE u = t /\ x # t
    <3>1. Kind(t) = "sweep" /\ x[1] = t[1] => Kind(x) = "sweep"
      BY DEF Kind
    <3>2. QED BY <1>1, <1>2, <2>1, <2>3, <3>1 DEF Apart, Role, At
  <2>4. CASE u # t /\ x = t
    <3>1. u[1] = t[1] => Kind(t) = Kind(u)
      BY DEF Kind
    <3>2. QED BY <1>1, <1>2, <2>1, <2>4, <3>1 DEF Apart, Role, At
  <2>5. QED BY <2>2, <2>3, <2>4 DEF Apart
<1>7. ASSUME Alone' PROVE Exact'
  <2>1. Alone /\ Exact
    BY <1>1, <1>7 DEF Alone, AInv
  <2>2. ASSUME NEW u \in Threads
        PROVE  th'[u].out # "wrong" /\ (At(u, "sim")' => trace'[Place(u)'] = "whole")
    <3>1. CASE u = t
      BY <1>2, <3>1 DEF At
    <3>2. CASE u # t
      BY <1>1, <1>2, <1>3, <2>1, <3>2 DEF Exact, At
    <3>3. QED BY <3>1, <3>2
  <2>3. ASSUME NEW p \in Procs
        PROVE  base'[p] # "wrong" /\ (At(<<p, Main>>, "join")' => base'[p] = "exact")
    <3>1. At(<<p, Main>>, "join")' => At(<<p, Main>>, "join")
      BY <1>2, MainIsThread DEF At
    <3>2. QED BY <1>1, <2>1, <3>1 DEF Exact
  <2>4. QED BY <1>1, <2>1, <2>2, <2>3 DEF Exact
<1>8. QED BY <1>4, <1>5, <1>6, <1>7 DEF AInv, Roles

\* A search proposes.
LEMMA ProposingKeeps ==
  ASSUME IInv, AInv, NEW t \in Threads, UNCHANGED search,
         \/ BoTrial(t) \/ RandomDraw(t) \/ MatrixTrial(t) \/ SweepPoint(t)
         \/ TopologyPoint(t)
  PROVE  AInv'
<1>1. PICK c \in Configs, x \in {"look", "build"} :
        /\ th' = [th EXCEPT ![t] = [at |-> x, cfg |-> c, out |-> "invalid"]]
        /\ seen' = [seen EXCEPT ![t[1]] = @ \cup {c}]
        /\ Kind(t) = "sweep" => c \notin seen[t[1]]
        /\ x = "build" => Kind(t) \notin OverAnchors
  BY DEF BoTrial, RandomDraw, MatrixTrial, SweepPoint, TopologyPoint, Propose, Fresh,
         SweepPoints, OverAnchors
<1>2. /\ UNCHANGED <<search, base, observed, files>> /\ Proposes(t) /\ left[t[1]] > 0
      /\ left' = [left EXCEPT ![t[1]] = @ - 1]
  BY DEF BoTrial, RandomDraw, MatrixTrial, SweepPoint, TopologyPoint, Propose
<1>3. t[1] \in Procs
  BY ThreadIsProcAndName
<1>4. left \in [Procs -> Nat] /\ seen \in [Procs -> SUBSET AllConfigs] /\ BudgetOk
  BY DEF AInv, LoopType
<1>5. search[t[1]].budget # 0
  BY <1>2, <1>3, <1>4 DEF BudgetOk
<1>6. left' \in [Procs -> Nat] /\ \A p \in Procs : left'[p] <= left[p]
  BY <1>2, <1>3, <1>4
<1>7. /\ seen' \in [Procs -> SUBSET AllConfigs] /\ c \in seen'[t[1]]
      /\ \A p \in Procs : seen[p] \subseteq seen'[p]
  BY <1>1, <1>3, <1>4 DEF AllConfigs
<1>8. Exact => \A r \in observed' : r.out # "wrong"
  BY <1>2 DEF Exact
<1>9. PICK w \in [at : {"idle", "look", "build"}, cfg : AllConfigs, out : {"invalid"}] :
        w = [at |-> x, cfg |-> c, out |-> "invalid"]
  BY DEF AllConfigs
<1>10. QED BY <1>1, <1>2, <1>5, <1>6, <1>7, <1>8, <1>9, LoopKeeps

\* A search records a result.
LEMMA ObservingKeeps ==
  ASSUME IInv, AInv, NEW t \in Threads, UNCHANGED search,
         \/ BoObserves(t) \/ RandomObserves(t) \/ MatrixObserves(t) \/ SweepObserves(t)
         \/ TopologyObserves(t)
  PROVE  AInv'
<1>1. /\ UNCHANGED <<search, left, seen, base, files>> /\ Proposes(t)
      /\ observed' = observed \cup {[cfg |-> th[t].cfg, out |-> th[t].out]}
      /\ th' = [th EXCEPT ![t] = Idle]
  BY DEF BoObserves, RandomObserves, MatrixObserves, SweepObserves, TopologyObserves, Observe
<1>2. left' \in [Procs -> Nat] /\ seen' \in [Procs -> SUBSET AllConfigs]
  BY <1>1 DEF AInv, LoopType
<1>3. \A p \in Procs : left'[p] <= left[p] /\ seen[p] \subseteq seen'[p]
  BY <1>1 DEF AInv, LoopType
<1>4. Exact => \A r \in observed' : r.out # "wrong"
  BY <1>1 DEF Exact
<1>5. PICK w \in [at : {"idle", "look", "build"}, cfg : AllConfigs, out : {"invalid"}] :
        w = Idle /\ w.at = "idle"
  <2>1. Idle \in [at : {"idle", "look", "build"}, cfg : AllConfigs, out : {"invalid"}]
    BY DEF AllConfigs, Idle
  <2>2. Idle.at = "idle"
    BY DEF Idle
  <2>3. QED BY <2>1, <2>2
<1>6. QED BY <1>1, <1>2, <1>3, <1>4, <1>5, LoopKeeps

-----------------------------------------------------------------------------
(* The pool of a process, and its end.                                     *)

\* What there is to show of a step of all threads of a process.
LEMMA TogetherKeeps ==
  ASSUME IInv, AInv, NEW p \in Procs, UNCHANGED <<search, observed, files>>,
         \A u \in Threads : u[1] # p => th'[u] = th[u],
         left' \in [Procs -> Nat], seen' \in [Procs -> SUBSET AllConfigs],
         base' \in [Procs -> {Absent} \cup Numbers],
         \A q \in Procs \ {p} : left'[q] = left[q] /\ seen'[q] = seen[q] /\ base'[q] = base[q],
         search[p].budget = 0 => left'[p] = 0,
         \A u \in Threads : u[1] = p =>
           Role(u)' /\ ~At(u, "sim")' /\ (search[p].kind = "sweep" => At(u, "idle")'),
         Alone /\ Exact =>
           /\ \A u \in Threads : u[1] = p => th'[u].out # "wrong"
           /\ base'[p] # "wrong" /\ (At(<<p, Main>>, "join")' => base'[p] = "exact")
  PROVE  AInv'
<1>1. UNCHANGED <<search, cache, trace, observed>>
  BY DEF files
<1>2. \A u \in Threads : u[1] # p => Place(u)' = Place(u)
  BY <1>1 DEF Place, PointPlace, AnchorPlace, TopologyPlace, Kind
<1>3. LoopType' /\ BudgetOk'
  BY <1>1 DEF AInv, LoopType, BudgetOk
<1>4. ASSUME NEW u \in Threads PROVE Role(u)'
  <2>1. CASE u[1] = p
    BY <2>1
  <2>2. CASE u[1] # p
    <3>1. Role(u) /\ u[1] \in Procs
      BY ThreadIsProcAndName DEF AInv, Roles
    <3>2. QED BY <1>1, <2>2, <3>1 DEF Role, At, Kind
  <2>3. QED BY <2>1, <2>2
<1>5. ASSUME NEW u \in Threads, NEW x \in Threads PROVE Apart(u, x)'
  <2>1. CASE u[1] = p
    BY <1>1, <2>1 DEF Apart, Kind
  <2>2. CASE u[1] # p
    <3>1. Apart(u, x)
      BY DEF AInv, Roles
    <3>2. QED BY <1>1, <2>2, <3>1 DEF Apart, At, Kind
  <2>3. QED BY <2>1, <2>2
<1>6. ASSUME Alone' PROVE Exact'
  <2>1. Alone /\ Exact
    BY <1>1, <1>6 DEF Alone, AInv
  <2>2. ASSUME NEW u \in Threads
        PROVE  th'[u].out # "wrong" /\ (At(u, "sim")' => trace'[Place(u)'] = "whole")
    <3>1. CASE u[1] = p
      BY <2>1, <3>1
    <3>2. CASE u[1] # p
      BY <1>1, <1>2, <2>1, <3>2 DEF Exact, At
    <3>3. QED BY <3>1, <3>2
  <2>3. ASSUME NEW q \in Procs
        PROVE  base'[q] # "wrong" /\ (At(<<q, Main>>, "join")' => base'[q] = "exact")
    <3>1. CASE q = p
      BY <2>1, <3>1
    <3>2. CASE q # p
      <4>1. th'[<<q, Main>>] = th[<<q, Main>>]
        BY <3>2, MainIsThread
      <4>2. QED BY <2>1, <3>2, <4>1 DEF Exact, At
    <3>3. QED BY <3>1, <3>2
  <2>4. QED BY <1>1, <2>1, <2>2, <2>3 DEF Exact
<1>7. QED BY <1>3, <1>4, <1>5, <1>6 DEF AInv, Roles

\* The pool starts; main waits, with the baseline's numbers or for them.
LEMMA ForkingKeeps ==
  ASSUME IInv, AInv, NEW p \in Procs, UNCHANGED search, Fork(p)
  PROVE  AInv'
<1> DEFINE main == <<p, Main>>
<1>1. /\ main \in Threads /\ Pool(p) \subseteq Threads /\ main[1] = p /\ main[2] = Main
      /\ \A u \in Pool(p) : u[1] = p /\ u[2] # Main /\ u # main
      /\ \A u \in Threads : u[1] = p => u = main \/ u \in Pool(p)
  BY MainIsThread, ThreadsOfProcess
<1>2. /\ UNCHANGED <<search, left, seen, base, observed, files>> /\ At(main, "fork")
      /\ th \in ThreadType
  BY <1>1, OfInvariant DEF Fork, loop
<1>3. /\ search[p].kind \in OverAnchors /\ search[p].budget # 0
      /\ \A u \in Threads : u[1] = p => Kind(u) \in OverAnchors /\ Kind(u)' \in OverAnchors
  <2>1. AnchorOk(main) /\ Role(main)
    BY <1>1, OfInvariant DEF AInv, Roles
  <2>2. QED BY <1>1, <1>2, <2>1 DEF AnchorOk, Role, At, Forking, Kind
<1>4. PICK c \in AllConfigs, x \in {"baseline", "join"} :
        StartPool(p, c, x) /\ (x = "join" => base[p] # Absent)
  BY <1>1, OfInvariant DEF Fork, AllConfigs
<1>5. /\ th'[main].at = x /\ th'[main].out = th[main].out
      /\ \A u \in Pool(p) : th'[u].at = "look" /\ th'[u].out = "invalid"
      /\ \A u \in Threads : u[1] # p => th'[u] = th[u]
  BY <1>1, <1>2, <1>4 DEF StartPool, ThreadType
<1>6. ASSUME NEW u \in Threads, u[1] = p
      PROVE  /\ Role(u)' /\ ~At(u, "sim")'
             /\ Exact => th'[u].out # "wrong"
  <2>1. th'[u].at \in MainSteps \ {"sim"}
    BY <1>1, <1>5, <1>6 DEF MainSteps
  <2>2. Role(u)' /\ ~At(u, "sim")'
    BY <1>2, <1>3, <1>6, <2>1 DEF Role, At, OverAnchors
  <2>3. Exact => th'[u].out # "wrong"
    BY <1>1, <1>5, <1>6 DEF Exact
  <2>4. QED BY <2>2, <2>3
<1>7. base \in [Procs -> {Absent} \cup Numbers] /\ left \in [Procs -> Nat] /\ BudgetOk
      /\ seen \in [Procs -> SUBSET AllConfigs]
  BY DEF AInv, LoopType
<1>8. Exact => base'[p] # "wrong" /\ (At(main, "join")' => base'[p] = "exact")
  BY <1>2, <1>4, <1>5, <1>7 DEF Exact, At, Numbers
<1>9. search[p].kind # "sweep"
  BY <1>3 DEF OverAnchors
<1>10. QED
  <2> HIDE DEF main
  <2>1. QED BY <1>2, <1>3, <1>5, <1>6, <1>7, <1>8, <1>9, TogetherKeeps DEF main

\* When no thread of the pool has raised, all have exact numbers.
LEMMA CombinedIsExact ==
  ASSUME IInv, Exact, NEW p \in Procs, PoolOver(p), ~PoolRaised(p),
         search[p].kind \in OverAnchors
  PROVE  Combined(p) = "exact"
<1>1. ASSUME NEW u \in Pool(p) PROVE th[u].out = "exact"
  <2>1. u \in Threads /\ u[1] = p /\ u[2] # Main
    BY MainIsThread
  <2>2. At(u, "done") /\ AnchorOk(u) /\ th[u].out # "wrong"
    BY <2>1, OfInvariant DEF PoolOver, PoolRaised, Exact
  <2>3. QED BY <2>1, <2>2 DEF AnchorOk, At, Answering, Numbers, Kind
<1>2. QED BY <1>1 DEF Combined

\* The pool is over.
LEMMA JoiningKeeps ==
  ASSUME IInv, AInv, NEW p \in Procs, UNCHANGED search, JoinBaseline(p) \/ Join(p)
  PROVE  AInv'
<1> DEFINE main == <<p, Main>>
<1>1. /\ main \in Threads /\ Pool(p) \subseteq Threads /\ main[1] = p /\ main[2] = Main
      /\ \A u \in Pool(p) : u[1] = p /\ u # main
      /\ \A u \in Threads : u[1] = p => u = main \/ u \in Pool(p)
  BY MainIsThread, ThreadsOfProcess
<1>2. /\ UNCHANGED <<search, left, seen, observed, files>>
      /\ At(main, "baseline") \/ At(main, "join")
      /\ th \in ThreadType /\ PoolOver(p)
      /\ \A q \in Procs \ {p} : base'[q] = base[q]
  BY <1>1, OfInvariant DEF JoinBaseline, Join, loop, AInv, LoopType
<1>3. /\ search[p].kind \in OverAnchors /\ search[p].budget # 0
      /\ \A u \in Threads : u[1] = p => Kind(u)' \in OverAnchors
  <2>1. AnchorOk(main) /\ Role(main)
    BY <1>1, OfInvariant DEF AInv, Roles
  <2>2. QED BY <1>1, <1>2, <2>1 DEF AnchorOk, Role, At, Forking, Kind
<1>4. base \in [Procs -> {Absent} \cup Numbers] /\ left \in [Procs -> Nat] /\ BudgetOk
      /\ seen \in [Procs -> SUBSET AllConfigs]
  BY DEF AInv, LoopType
<1>5. Combined(p) \in Numbers /\ (Exact /\ ~PoolRaised(p) => Combined(p) = "exact")
  BY <1>2, <1>3, CombinedIsExact DEF Combined, Numbers
<1>6. base' \in [Procs -> {Absent} \cup Numbers] /\ (Exact => base'[p] # "wrong")
  <2>1. CASE JoinBaseline(p)
    BY <1>4, <1>5, <2>1 DEF JoinBaseline, Exact, Numbers
  <2>2. CASE Join(p)
    BY <1>4, <2>2 DEF Join, loop, Exact
  <2>3. QED BY <2>1, <2>2
<1>7. PICK x \in {"raised", "fork", "open"}, o \in Results :
        EndPool(p, x, o) /\ (Exact => o # "wrong")
  <2>1. CASE JoinBaseline(p)
    BY <2>1 DEF JoinBaseline, Results
  <2>2. CASE Join(p)
    <3>1. Exact => base[p] = "exact"
      BY <2>2 DEF Join, Exact
    <3>2. QED BY <1>5, <2>2, <3>1 DEF Join, Results, Numbers
  <2>3. QED BY <2>1, <2>2
<1>8. /\ th'[main].at = x /\ th'[main].out = o
      /\ \A u \in Pool(p) : th'[u] = Idle
      /\ \A u \in Threads : u[1] # p => th'[u] = th[u]
  BY <1>1, <1>2, <1>7 DEF EndPool, ThreadType
<1>9. ASSUME NEW u \in Threads, u[1] = p
      PROVE  /\ Role(u)' /\ ~At(u, "sim")'
             /\ Exact => th'[u].out # "wrong"
  <2>1. th'[u].at \in MainSteps \cup {"idle"}
    BY <1>1, <1>8, <1>9 DEF MainSteps, Idle
  <2>2. Role(u)' /\ ~At(u, "sim")'
    BY <1>2, <1>3, <1>9, <2>1 DEF Role, At, OverAnchors, MainSteps
  <2>3. Exact => th'[u].out # "wrong"
    BY <1>1, <1>7, <1>8, <1>9 DEF Exact, Idle
  <2>4. QED BY <2>2, <2>3
<1>10. search[p].kind # "sweep" /\ ~At(main, "join")'
  BY <1>3, <1>8 DEF OverAnchors, At
<1>11. QED
  <2> HIDE DEF main
  <2>1. QED BY <1>2, <1>3, <1>4, <1>6, <1>8, <1>9, <1>10, TogetherKeeps DEF main

\* A process dies, or is killed and starts again.
LEMMA EndingKeeps ==
  ASSUME IInv, AInv, NEW p \in Procs, UNCHANGED search, Die(p) \/ Kill(p)
  PROVE  AInv'
<1>1. /\ UNCHANGED <<search, observed, files>>
      /\ th' = [t \in Threads |-> IF t[1] = p THEN Idle ELSE th[t]]
  BY DEF Die, Kill
<1>2. /\ \A u \in Threads : u[1] = p => th'[u] = Idle
      /\ \A u \in Threads : u[1] # p => th'[u] = th[u]
      /\ th'[<<p, Main>>] = Idle
  BY <1>1, MainIsThread
<1>3. /\ base \in [Procs -> {Absent} \cup Numbers] /\ left \in [Procs -> Nat]
      /\ seen \in [Procs -> SUBSET AllConfigs]
      /\ search[p].budget \in Nat
  BY DEF AInv, LoopType, IInv, Typed, SearchType
<1>4. /\ left' \in [Procs -> Nat] /\ seen' \in [Procs -> SUBSET AllConfigs]
      /\ base' \in [Procs -> {Absent} \cup Numbers]
      /\ \A q \in Procs \ {p} : left'[q] = left[q] /\ seen'[q] = seen[q] /\ base'[q] = base[q]
      /\ search[p].budget = 0 => left'[p] = 0
      /\ base'[p] \in {base[p], Absent}
  BY <1>3 DEF Die, Kill
<1>5. \A u \in Threads : u[1] = p =>
        Role(u)' /\ ~At(u, "sim")' /\ At(u, "idle")' /\ th'[u].out # "wrong"
  BY <1>2 DEF Role, At, Idle
<1>6. Exact => base'[p] # "wrong" /\ (At(<<p, Main>>, "join")' => base'[p] = "exact")
  BY <1>2, <1>4 DEF Exact, At, Idle, Absent
<1>7. QED BY <1>1, <1>2, <1>4, <1>5, <1>6, TogetherKeeps

-----------------------------------------------------------------------------
(* It is exact always.                                                     *)

\* At first nobody works and nothing is wrong.
LEMMA AloneAtFirst == Init => AInv
<1> SUFFICES ASSUME Init PROVE AInv
  OBVIOUS
<1>1. /\ SearchType /\ \A t \in Threads : th[t] = Idle
      /\ left = [p \in Procs |-> search[p].budget] /\ seen = [p \in Procs |-> {}]
      /\ base = [p \in Procs |-> Absent] /\ observed = {}
      /\ cache = [f \in Places |-> Absent] /\ trace = [d \in Places |-> Torn]
  BY ConstantAssumption DEF Init, SearchType
<1>2. LoopType /\ BudgetOk
  BY <1>1 DEF LoopType, BudgetOk, SearchType
<1>3. Roles
  BY <1>1 DEF Roles, Role, Apart, At, Idle
<1>4. Exact
  BY <1>1, MainIsThread DEF Exact, At, Idle, Absent
<1>5. QED BY <1>2, <1>3, <1>4 DEF AInv

\* Every step keeps it.
LEMMA AloneStays == IInv /\ AInv /\ [Next]_vars => AInv'
<1> SUFFICES ASSUME IInv, AInv, [Next]_vars PROVE AInv'
  OBVIOUS
<1>1. ASSUME NEW t \in Threads, Step(t), UNCHANGED search PROVE AInv'
  BY <1>1, BuildOrGateKeeps, LookKeeps, MeasureKeeps, WorkloadKeeps, CachingKeeps,
     ProposingKeeps, ObservingKeeps DEF Step
<1>2. ASSUME NEW p \in Procs, Process(p), UNCHANGED search PROVE AInv'
  BY <1>2, ForkingKeeps, JoiningKeeps, EndingKeeps DEF Process
<1>3. ASSUME NEW p \in Procs, Kill(p) PROVE AInv'
  <2>1. search' = search
    BY <1>3 DEF Kill
  <2>2. QED BY <1>3, <2>1, EndingKeeps
<1>4. CASE UNCHANGED vars
  <2>1. UNCHANGED <<search, th, left, seen, base, observed, cache, trace>>
    BY <1>4 DEF vars, loop, files
  <2>2. Roles'
    BY <2>1 DEF AInv, Roles, Role, Apart, At, Kind
  <2>3. Exact' <=> Exact
    BY <2>1 DEF Exact, At, Place, PointPlace, AnchorPlace, TopologyPlace, Kind
  <2>4. QED BY <2>1, <2>2, <2>3 DEF AInv, LoopType, BudgetOk, Alone
<1>5. QED BY <1>1, <1>2, <1>3, <1>4 DEF Next, Finished

-----------------------------------------------------------------------------
(* The theorems.                                                           *)

(* Every variable stays in its range: a lock is free or held by a thread, a *)
(* file is absent, torn or whole.                                           *)
THEOREM TypeCorrect == Spec => []Typed
<1>1. IInv => Typed
  BY DEF IInv
<1>2. QED BY <1>1, InvariantHolds, PTL

(* However many searches share the files, and wherever they are killed, a  *)
(* number comes only from a variant that has passed its gate               *)
(* (evaluate.py, _validate).                                               *)
THEOREM NoCyclesOfUnsound == Spec => []NoInvalidCycles
<1>1. IInv => NoInvalidCycles
  BY DEF IInv, CacheIsSound, ObservedIsSound, NoInvalidCycles
<1>2. QED BY <1>1, InvariantHolds, PTL

(* No gate and no run meets a build that is not there or half made         *)
(* (gen_variant.py, build_variant).                                        *)
THEOREM BuiltBeforeUse == Spec => []UsedIsBuilt
<1>1. ASSUME IInv PROVE UsedIsBuilt
  <2>1. SUFFICES ASSUME NEW t \in Threads, th[t].at \in Built
                 PROVE  artifact[V(t)] = "whole"
    BY DEF UsedIsBuilt, Built, Judging, Running
  <2>2. V(t) \in Variants /\ stamp[V(t)]
    BY <1>1, <2>1, VariantOfThread DEF IInv, Typed, ThreadOk, BuildOk
  <2>3. QED BY <1>1, <2>2 DEF IInv, StampIsTrue
<1>2. QED BY <1>1, InvariantHolds, PTL

(* A verdict that is on disk is never overwritten, and only the holder of  *)
(* the lock completes a marker (evaluate.py, _validate).                   *)
THEOREM VerdictsStay == Spec => JudgedOnce
<1>1. IInv /\ [Next]_vars =>
        [\A v \in Variants : Judged(v) =>
           \/ marker'[v] = marker[v]
           \/ marker[v] = Torn /\ judge[v] # Free]_vars
  BY StepKeepsVerdicts
<1>2. QED BY <1>1, InvariantHolds, PTL DEF Spec, JudgedOnce

(* A search that is the only one at work, with its pool and however often   *)
(* it is killed, records and caches no number but those of undisturbed      *)
(* runs: no two of its threads ever run in the same directory               *)
(* (evaluate.py:147, matrix.py:78, insight_sweeps.py:50-57).                *)
THEOREM AloneExact == Spec => []AloneIsExact
<1>1. Init => IInv /\ AInv
  BY InitEstablishes, AloneAtFirst
<1>2. IInv /\ AInv /\ [Next]_vars => (IInv /\ AInv)'
  BY StepKeeps, AloneStays
<1>3. IInv /\ AInv => AloneIsExact
  BY DEF AInv, Exact, AloneIsExact
<1>4. QED BY <1>1, <1>2, <1>3, PTL DEF Spec
=============================================================================
