------------------------------ MODULE Exploration ------------------------------
(***************************************************************************)
(* The design-space exploration of dse_bo: searches that evaluate          *)
(* configurations of the chip, each on a build of its structural variant,  *)
(* and share builds, verdicts, run directories and result caches through   *)
(* the file system.                                                        *)
(*                                                                         *)
(* A search is a process; its thread Main proposes configurations, and a   *)
(* sweep or an evaluation over the anchor workloads has a pool of threads  *)
(* besides, one for each anchor.  Processes run at the same time, may be   *)
(* killed at any point and are then started again.  Where the code opens a *)
(* file for writing it truncates it, and the content arrives when the file *)
(* is closed; in between, and for ever if the process is killed there, the *)
(* file is Torn.  Locks are those of flock: they end with their process.   *)
(* A measured number is abstracted to whether it is the one that an        *)
(* undisturbed run of the simulator yields.                                *)
(***************************************************************************)
EXTENDS Integers, FiniteSets

CONSTANTS
  Procs,      \* processes
  Scenes,     \* what they may be: functions from Procs to searches
  Configs,    \* configurations that searches propose
  Anchors,    \* anchor workloads; also the names of the pool's threads
  Reused,     \* anchors whose runs evaluate.py makes too
  Baseline,   \* the reference configuration of the anchors
  Sound       \* variants whose build passes the gate

Main == "main"
Threads == Procs \X ({Main} \cup Anchors)
\* bo_engine, random_baseline, insight_sweeps, topology_scaling, and
\* bo_matrix with a generator that deduplicates and with random draws.
Kinds == {"bo", "random", "sweep", "topology", "matrix", "matrix_random"}
OverAnchors == {"matrix", "matrix_random"}

Absent == "absent"
Torn == "torn"
Numbers == {"exact", "wrong"}
Results == Numbers \cup {"invalid"}
Free == <<"nobody", Main>>

\* variant_name: the knobs that need a build of their own.
Variant(c) == [nt |-> c.nt, tpg |-> c.tpg, smb |-> c.smb, topo |-> c.topo]
Variants == {Variant(c) : c \in Configs \cup {Baseline}}

Clog2(n) == CHOOSE b \in 0 .. n : 2^b >= n /\ (b = 0 \/ 2^(b - 1) < n)
AtLeast(a, b) == IF a < b THEN b ELSE a

\* check_feasible: the address fields of tiles and banks do not meet offsets.
Feasible(c) ==
  /\ c.nt \in {8, 16, 32} /\ c.tpg \in {2, 4, 8} /\ c.smb \in {4, 8, 16}
  /\ c.topo \in {"ring", "mesh", "torus"}
  /\ c.nt % c.tpg = 0
  /\ 37 - AtLeast(2, Clog2(c.nt \div c.tpg)) >= 20 + Clog2(c.smb)
  /\ 37 - AtLeast(4, Clog2(c.nt)) >= 18

\* Cache files and run directories.
Places ==
  LET Cs == Configs \cup {Baseline} IN
  ({"point", "agg", "topo"} \X Cs \X {Main}) \cup ({"anchor"} \X Cs \X Anchors)

ASSUME ConstantAssumption ==
  /\ IsFiniteSet(Procs)
  /\ Main \notin Anchors /\ Anchors # {} /\ Reused \subseteq Anchors
  /\ \A p \in Procs : <<p, Main>> # Free
  /\ \A a \in Anchors, p \in Procs : <<p, a>> # Free
  /\ Scenes \subseteq [Procs -> [kind : Kinds, budget : Nat, kills : Nat]]
  /\ Feasible(Baseline)

VARIABLES
  search,     \* what each process is
  th,         \* th[t]: where thread t is, its configuration and its result
  left,       \* left[p]: proposals to come
  seen,       \* seen[p]: configurations proposed
  base,       \* base[p]: _BASE_PERF of a process
  observed,   \* results the searches have recorded
  kills,      \* kills[p]: how often p may still be killed
  artifact,   \* artifact[v]: the build of variant v, "none", Torn or "whole"
  stamp,      \* stamp[v]: .build_ok is there
  builder,    \* builder[v]: who holds .lock
  marker,     \* marker[v]: .validated, Absent, Torn, "PASS" or "INVALID"
  judge,      \* judge[v]: who holds .vlock
  cache,      \* cache[f]: the content of a cache file
  trace       \* trace[d]: the inputs of the simulator in directory d, Torn or "whole"

loop == <<left, seen, base, observed>>
building == <<artifact, stamp, builder>>
gate == <<marker, judge>>
files == <<cache, trace>>
vars == <<search, th, loop, kills, building, gate, files>>

Idle == [at |-> "idle", cfg |-> Baseline, out |-> "invalid"]

Init ==
  /\ search \in Scenes
  /\ th = [t \in Threads |-> Idle]
  /\ left = [p \in Procs |-> search[p].budget]
  /\ seen = [p \in Procs |-> {}]
  /\ base = [p \in Procs |-> Absent]
  /\ observed = {}
  /\ kills = [p \in Procs |-> search[p].kills]
  /\ artifact = [v \in Variants |-> "none"]
  /\ stamp = [v \in Variants |-> FALSE]
  /\ builder = [v \in Variants |-> Free]
  /\ marker = [v \in Variants |-> Absent]
  /\ judge = [v \in Variants |-> Free]
  /\ cache = [f \in Places |-> Absent]
  /\ trace = [d \in Places |-> Torn]

Kind(t) == search[t[1]].kind
V(t) == Variant(th[t].cfg)
At(t, here) == th[t].at = here
Goto(t, there) == th' = [th EXCEPT ![t].at = there]
Return(t, there, out) == th' = [th EXCEPT ![t].at = there, ![t].out = out]

Pool(p) == {<<p, a>> : a \in Anchors}

\* The cache file of what t computes, and the directory it runs in.
PointPlace(t) == <<"point", th[t].cfg, Main>>
AnchorPlace(t) == <<IF t[2] = Main THEN "agg" ELSE "anchor", th[t].cfg, t[2]>>
TopologyPlace(t) == <<"topo", th[t].cfg, Main>>
Place(t) ==
  CASE Kind(t) \in OverAnchors -> AnchorPlace(t)
    [] Kind(t) = "topology"    -> TopologyPlace(t)
    [] OTHER                   -> PointPlace(t)

\* Faulty: a point that fails is tried again.
PointRetries(t) == Goto(t, "look")
\* What goes wrong is returned and cached by evaluate and raised by
\* run_anchor; topology_scaling goes on with its next variant.
PointFails(t) == Return(t, "open", "invalid")
AnchorRaises(t) == Goto(t, "raised")
TopologySkips(t) == Return(t, "done", "invalid")
Fail(t) ==
  CASE Kind(t) \in OverAnchors -> AnchorRaises(t)
    [] Kind(t) = "topology"    -> TopologySkips(t)
    [] OTHER                   -> PointFails(t)

-----------------------------------------------------------------------------
(* evaluate, run_anchor, evaluate_matrix: the cache at their beginning.    *)

\* json.load raises on a file that is empty or cut off.
Hit(t) ==
  /\ At(t, "look")
  /\ cache[Place(t)] # Absent
  /\ IF cache[Place(t)] = Torn THEN Goto(t, "raised")
     ELSE Return(t, "done", cache[Place(t)])
  /\ UNCHANGED <<loop, building, gate, files>>

Miss(t) ==
  /\ At(t, "look")
  /\ cache[Place(t)] = Absent
  /\ IF ~Feasible(th[t].cfg) THEN Return(t, "open", "invalid")
     ELSE Goto(t, CASE Kind(t) \in OverAnchors /\ t[2] = Main    -> "fork"
                    [] Kind(t) \in OverAnchors /\ t[2] \in Reused -> "reuse"
                    [] OTHER                                      -> "build")
  /\ UNCHANGED <<loop, building, gate, files>>

\* An anchor takes a valid result of evaluate.py as its own.
Reuse(t) ==
  /\ At(t, "reuse")
  /\ LET point == cache[<<"point", th[t].cfg, Main>>] IN
       CASE point = Torn       -> Goto(t, "raised")
         [] point \in Numbers  -> Return(t, "open", point)
         [] OTHER              -> Goto(t, "build")
  /\ UNCHANGED <<loop, building, gate, files>>

-----------------------------------------------------------------------------
(* build_variant.                                                          *)

\* Faulty: two builders at a time.
AvailableAlways(owner) == TRUE
Available(owner) == owner = Free

BuildCached(t) ==
  /\ At(t, "build")
  /\ Goto(t, IF stamp[V(t)] THEN "check" ELSE "lock")
  /\ UNCHANGED <<loop, building, gate, files>>

BuildLock(t) ==
  /\ At(t, "lock")
  /\ Available(builder[V(t)])
  /\ builder' = [builder EXCEPT ![V(t)] = t]
  /\ Goto(t, "locked")
  /\ UNCHANGED <<loop, artifact, stamp, gate, files>>

\* Another process finished it while we waited.
BuildFound(t) ==
  /\ At(t, "locked")
  /\ stamp[V(t)]
  /\ builder' = [builder EXCEPT ![V(t)] = Free]
  /\ Goto(t, "check")
  /\ UNCHANGED <<loop, artifact, stamp, gate, files>>

BuildBegin(t) ==
  /\ At(t, "locked")
  /\ ~stamp[V(t)]
  /\ artifact' = [artifact EXCEPT ![V(t)] = Torn]
  /\ Goto(t, "make")
  /\ UNCHANGED <<loop, stamp, builder, gate, files>>

BuildEnd(t) ==
  /\ At(t, "make")
  /\ artifact' = [artifact EXCEPT ![V(t)] = "whole"]
  /\ Goto(t, "stamp")
  /\ UNCHANGED <<loop, stamp, builder, gate, files>>

BuildStamp(t) ==
  /\ At(t, "stamp")
  /\ stamp' = [stamp EXCEPT ![V(t)] = TRUE]
  /\ builder' = [builder EXCEPT ![V(t)] = Free]
  /\ Goto(t, "check")
  /\ UNCHANGED <<loop, artifact, gate, files>>

\* The lock of a build that failed is given up in the finally clause.
BuildFails(t) ==
  /\ At(t, "make")
  /\ builder' = [builder EXCEPT ![V(t)] = Free]
  /\ Fail(t)
  /\ UNCHANGED <<loop, artifact, stamp, gate, files>>

-----------------------------------------------------------------------------
(* _validate.                                                              *)

\* Faulty: a marker that is still being written counts as passed.
NotInvalid(v) == marker[v] # "INVALID"
Passed(v) == marker[v] = "PASS"
Judged(v) == marker[v] # Absent

\* The marker is read without the lock.
GateKnown(t) ==
  /\ At(t, "check")
  /\ IF ~Judged(V(t)) THEN Goto(t, "vlock")
     ELSE IF Passed(V(t)) THEN Goto(t, "run") ELSE Fail(t)
  /\ UNCHANGED <<loop, building, gate, files>>

GateLock(t) ==
  /\ At(t, "vlock")
  /\ Available(judge[V(t)])
  /\ judge' = [judge EXCEPT ![V(t)] = t]
  /\ Goto(t, "vlocked")
  /\ UNCHANGED <<loop, building, marker, files>>

GateFound(t) ==
  /\ At(t, "vlocked")
  /\ Judged(V(t))
  /\ judge' = [judge EXCEPT ![V(t)] = Free]
  /\ IF Passed(V(t)) THEN Goto(t, "run") ELSE Fail(t)
  /\ UNCHANGED <<loop, building, marker, files>>

\* Faulty: no second look at the marker under the lock.
JudgeAgain(v) == TRUE
NotJudged(v) == ~Judged(v)

\* Only a sound variant passes; any may fail for want of time or memory.
GateRun(t) ==
  /\ At(t, "vlocked")
  /\ NotJudged(V(t))
  /\ \E verdict \in {"pass", "fail"} :
       /\ verdict = "pass" => V(t) \in Sound /\ artifact[V(t)] = "whole"
       /\ Goto(t, verdict)
  /\ marker' = [marker EXCEPT ![V(t)] = Torn]
  /\ UNCHANGED <<loop, building, judge, files>>

GateVerdict(t) ==
  /\ At(t, "pass") \/ At(t, "fail")
  /\ marker' = [marker EXCEPT ![V(t)] = IF At(t, "pass") THEN "PASS" ELSE "INVALID"]
  /\ judge' = [judge EXCEPT ![V(t)] = Free]
  /\ IF At(t, "pass") THEN Goto(t, "run") ELSE Fail(t)
  /\ UNCHANGED <<loop, building, files>>

-----------------------------------------------------------------------------
(* The workloads: decode_tier1.py, edgc_cc.py and bench_gemm.py write what *)
(* the simulator reads into the directory of their point or anchor.        *)

WriteTrace(t) ==
  /\ At(t, "run")
  /\ trace' = [trace EXCEPT ![Place(t)] = Torn]
  /\ Goto(t, "write")
  /\ UNCHANGED <<loop, building, gate, cache>>

TraceWritten(t) ==
  /\ At(t, "write")
  /\ trace' = [trace EXCEPT ![Place(t)] =
                 IF \E u \in Threads \ {t} : At(u, "write") /\ Place(u) = Place(t)
                 THEN Torn ELSE "whole"]
  /\ Goto(t, "sim")
  /\ UNCHANGED <<loop, building, gate, cache>>

\* Of the right inputs and a complete build the simulator makes the number.
Simulated(t) ==
  IF trace[Place(t)] = "whole" /\ artifact[V(t)] = "whole" THEN "exact" ELSE "wrong"

PointMeasured(t) ==
  /\ At(t, "sim")
  /\ Kind(t) \in {"bo", "random", "sweep"}
  /\ Return(t, "open", Simulated(t))
  /\ UNCHANGED <<loop, building, gate, files>>

AnchorMeasured(t) ==
  /\ At(t, "sim")
  /\ Kind(t) \in OverAnchors
  /\ Return(t, "open", Simulated(t))
  /\ UNCHANGED <<loop, building, gate, files>>

TopologyMeasured(t) ==
  /\ At(t, "sim")
  /\ Kind(t) = "topology"
  /\ Return(t, "done", Simulated(t))
  /\ UNCHANGED <<loop, building, gate, files>>

\* The simulator or a compile fails, causality is violated, or golden,
\* reference and simulator do not agree: there is no number.
WorkloadFails(t) ==
  /\ At(t, "sim")
  /\ IF Kind(t) = "topology" THEN Goto(t, "raised") ELSE Fail(t)
  /\ UNCHANGED <<loop, building, gate, files>>

\* json.dump to a file opened in place.
OpenCache(t) ==
  /\ At(t, "open")
  /\ cache' = [cache EXCEPT ![Place(t)] = Torn]
  /\ Goto(t, "close")
  /\ UNCHANGED <<loop, building, gate, trace>>

CloseCache(t) ==
  /\ At(t, "close")
  /\ cache' = [cache EXCEPT ![Place(t)] = th[t].out]
  /\ Goto(t, "done")
  /\ UNCHANGED <<loop, building, gate, trace>>

-----------------------------------------------------------------------------
(* evaluate_matrix runs the anchors in threads and waits for all of them.  *)

StartPool(p, c, there) ==
  th' = [u \in Threads |->
           IF u = <<p, Main>> THEN [th[u] EXCEPT !.at = there]
           ELSE IF u \in Pool(p) THEN [at |-> "look", cfg |-> c, out |-> "invalid"]
           ELSE th[u]]

Fork(p) ==
  LET main == <<p, Main>> IN
  /\ At(main, "fork")
  /\ IF base[p] = Absent THEN StartPool(p, Baseline, "baseline")
                         ELSE StartPool(p, th[main].cfg, "join")
  /\ UNCHANGED <<loop, building, gate, files>>

PoolOver(p) == \A u \in Pool(p) : At(u, "done") \/ At(u, "raised")
PoolRaised(p) == \E u \in Pool(p) : At(u, "raised")

\* The main thread goes there with a result, the pool is gone.
EndPool(p, there, out) ==
  th' = [u \in Threads |->
           IF u = <<p, Main>> THEN [th[u] EXCEPT !.at = there, !.out = out]
           ELSE IF u \in Pool(p) THEN Idle
           ELSE th[u]]

\* What follows from the numbers of the pool.
Combined(p) == IF \A u \in Pool(p) : th[u].out = "exact" THEN "exact" ELSE "wrong"

JoinBaseline(p) ==
  /\ At(<<p, Main>>, "baseline")
  /\ PoolOver(p)
  /\ EndPool(p, IF PoolRaised(p) THEN "raised" ELSE "fork", "invalid")
  /\ base' = [base EXCEPT ![p] = IF PoolRaised(p) THEN @ ELSE Combined(p)]
  /\ UNCHANGED <<left, seen, observed, building, gate, files>>

\* An exception of any thread makes the configuration invalid, and cached.
Join(p) ==
  /\ At(<<p, Main>>, "join")
  /\ PoolOver(p)
  /\ EndPool(p, "open", IF PoolRaised(p) THEN "invalid"
                        ELSE IF base[p] = "exact" THEN Combined(p) ELSE "wrong")
  /\ UNCHANGED <<loop, building, gate, files>>

-----------------------------------------------------------------------------
(* The searches.                                                           *)

\* A sweep's pool takes its points, any other search is its main thread.
Proposes(t) == (Kind(t) = "sweep") <=> (t[2] # Main)

Propose(t, candidates, there) ==
  LET p == t[1] IN
  /\ At(t, "idle")
  /\ Proposes(t)
  /\ left[p] > 0
  /\ \E c \in candidates :
       /\ th' = [th EXCEPT ![t] = [at |-> there, cfg |-> c, out |-> "invalid"]]
       /\ seen' = [seen EXCEPT ![p] = @ \cup {c}]
  /\ left' = [left EXCEPT ![p] = @ - 1]
  /\ UNCHANGED <<base, observed, building, gate, files>>

Fresh(p) == Configs \ seen[p]

\* should_deduplicate: a generator does not come back to a configuration.
BoTrial(t) == Kind(t) = "bo" /\ Propose(t, Fresh(t[1]), "look")
RandomDraw(t) == Kind(t) = "random" /\ Propose(t, Configs, "look")
MatrixTrial(t) ==
  /\ Kind(t) \in OverAnchors
  /\ Propose(t, IF Kind(t) = "matrix" THEN Fresh(t[1]) ELSE Configs, "look")
\* Faulty: the work list is not deduplicated.
SweepPointsAgain(p) == Configs
\* worklist: no point twice, so that no two threads have the same one.
SweepPoints(p) == Fresh(p)
SweepPoint(t) == Kind(t) = "sweep" /\ Propose(t, SweepPoints(t[1]), "look")
\* There is no cache; build_variant itself looks at feasibility.
TopologyPoint(t) ==
  Kind(t) = "topology" /\ Propose(t, {c \in Fresh(t[1]) : Feasible(c)}, "build")

Observe(t) ==
  /\ At(t, "done")
  /\ Proposes(t)
  /\ observed' = observed \cup {[cfg |-> th[t].cfg, out |-> th[t].out]}
  /\ th' = [th EXCEPT ![t] = Idle]
  /\ UNCHANGED <<left, seen, base, building, gate, files>>

BoObserves(t) == Kind(t) = "bo" /\ Observe(t)
RandomObserves(t) == Kind(t) = "random" /\ Observe(t)
MatrixObserves(t) == Kind(t) \in OverAnchors /\ Observe(t)
SweepObserves(t) == Kind(t) = "sweep" /\ Observe(t)
TopologyObserves(t) == Kind(t) = "topology" /\ Observe(t)

\* An exception that nothing catches ends the process; a pool is waited for.
Die(p) ==
  /\ \E t \in Threads : t[1] = p /\ Proposes(t) /\ At(t, "raised")
  /\ \A t \in Threads : t[1] = p => At(t, "idle") \/ At(t, "done") \/ At(t, "raised")
  /\ th' = [t \in Threads |-> IF t[1] = p THEN Idle ELSE th[t]]
  /\ left' = [left EXCEPT ![p] = 0]
  /\ UNCHANGED <<seen, base, observed, building, gate, files>>

\* Killed, with all it has started, and begun again from the start.
Released(owner, p) == [v \in Variants |-> IF owner[v][1] = p THEN Free ELSE owner[v]]

Kill(p) ==
  /\ kills[p] > 0
  /\ kills' = [kills EXCEPT ![p] = @ - 1]
  /\ \E t \in Threads : t[1] = p /\ ~At(t, "idle")
  /\ th' = [t \in Threads |-> IF t[1] = p THEN Idle ELSE th[t]]
  /\ left' = [left EXCEPT ![p] = search[p].budget]
  /\ seen' = [seen EXCEPT ![p] = {}]
  /\ base' = [base EXCEPT ![p] = Absent]
  /\ builder' = Released(builder, p)
  /\ judge' = Released(judge, p)
  /\ UNCHANGED <<search, observed, artifact, stamp, marker, files>>

-----------------------------------------------------------------------------

Step(t) ==
  \/ Hit(t) \/ Miss(t) \/ Reuse(t)
  \/ BuildCached(t) \/ BuildLock(t) \/ BuildFound(t)
  \/ BuildBegin(t) \/ BuildEnd(t) \/ BuildStamp(t) \/ BuildFails(t)
  \/ GateKnown(t) \/ GateLock(t) \/ GateFound(t) \/ GateRun(t) \/ GateVerdict(t)
  \/ WriteTrace(t) \/ TraceWritten(t)
  \/ PointMeasured(t) \/ AnchorMeasured(t) \/ TopologyMeasured(t) \/ WorkloadFails(t)
  \/ OpenCache(t) \/ CloseCache(t)
  \/ BoTrial(t) \/ RandomDraw(t) \/ MatrixTrial(t) \/ SweepPoint(t) \/ TopologyPoint(t)
  \/ BoObserves(t) \/ RandomObserves(t) \/ MatrixObserves(t)
  \/ SweepObserves(t) \/ TopologyObserves(t)

Process(p) == Fork(p) \/ JoinBaseline(p) \/ Join(p) \/ Die(p)

Ended(p) ==
  /\ \A t \in Threads : t[1] = p => At(t, "idle")
  /\ \/ left[p] = 0
     \/ /\ search[p].kind \notin {"random", "matrix_random"}
        /\ \A c \in Fresh(p) : search[p].kind = "topology" /\ ~Feasible(c)

Finished == (\A p \in Procs : Ended(p)) /\ UNCHANGED vars

Next ==
  \/ \E t \in Threads : Step(t) /\ UNCHANGED <<search, kills>>
  \/ \E p \in Procs : Process(p) /\ UNCHANGED <<search, kills>>
  \/ \E p \in Procs : Kill(p)
  \/ Finished

\* The operating system runs every thread, and builds and runs come to an end.
Fairness ==
  /\ \A t \in Threads : WF_vars(Step(t) /\ UNCHANGED <<search, kills>>)
  /\ \A p \in Procs : WF_vars(Process(p) /\ UNCHANGED <<search, kills>>)

Spec == Init /\ [][Next]_vars /\ Fairness

-----------------------------------------------------------------------------
(* Properties.                                                             *)

(* Numbers of a variant that fails the gate never reach a search or a      *)
(* cache, however processes interleave and wherever they are killed        *)
(* (evaluate.py:9).  A marker that is read while it is written counts as a *)
(* failure.                                                                *)
NoInvalidCycles ==
  /\ \A r \in observed : r.out \in Numbers => Variant(r.cfg) \in Sound
  /\ \A f \in Places : cache[f] \in Numbers => Variant(f[2]) \in Sound

(* Whoever validates or runs a variant has its complete build, and nobody  *)
(* builds it then: the stamp is set last, under the lock                   *)
(* (gen_variant.py:100-115, 138).                                          *)
UsedIsBuilt ==
  \A t \in Threads :
    th[t].at \in {"check", "vlock", "vlocked", "pass", "fail", "run", "write", "sim"}
      => artifact[V(t)] = "whole"

(* Every variant is judged once: a verdict that is on disk stays there,    *)
(* and the gate is not run again (evaluate.py:95, 102).                    *)
JudgedOnce ==
  [][\A v \in Variants : Judged(v) =>
       \/ marker'[v] = marker[v]
       \/ marker[v] = Torn /\ judge[v] # Free]_vars

(* A search that has the files for itself gets the numbers of undisturbed  *)
(* runs, with all its threads and after it has been killed: no two of its  *)
(* evaluations share a directory (evaluate.py:147, matrix.py:78,           *)
(* insight_sweeps.py:50-57).                                               *)
Alone == Cardinality({p \in Procs : search[p].budget > 0}) = 1
AloneIsExact ==
  Alone => /\ \A r \in observed : r.out # "wrong"
           /\ \A f \in Places : cache[f] # "wrong"

(* Every search comes to its end: no lock is kept for ever, by a failed    *)
(* build or by a killed process, and no pool is waited for in vain.        *)
EverySearchEnds == <>(\A p \in Procs : Ended(p))
=============================================================================
