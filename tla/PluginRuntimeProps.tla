------------------------- MODULE PluginRuntimeProps --------------------------
(* What the plugin runtime must keep, whatever calls run at the same time.   *)
EXTENDS PluginRuntime

CallStages == {"idle", "query", "load"} \cup LifeStages \cup ScanStages
LoopStages == {"none", "select", "done"} \cup ScanStages

\* Types; whoever is past TryLock holds the scan lock of its engine.
TypeOK ==
  /\ closed \in BOOLEAN /\ dir \in Dirs \cup {None}
  /\ engine \in Engines \cup {None} /\ store \in Engines \cup {None}
  /\ eng \in [Engines -> EngineStates]
  /\ scanMu \in [Engines -> Scanners \cup {None}]
  /\ pc \in [Scanners -> CallStages \cup LoopStages]
  /\ \A t \in Threads : pc[t] \in CallStages
  /\ \A i \in Engines : pc[i] \in LoopStages
  /\ job \in [Threads -> Jobs]
  /\ quiesced \subseteq Engines /\ overlapped \in BOOLEAN
  /\ \A x \in Scanners :
       /\ pc[x] \in ScanStages => Target(x) # None
       /\ pc[x] \in {"recheck", "scan"} => scanMu[Target(x)] = x

Scans(i) == \E x \in Scanners : pc[x] = "scan" /\ Target(x) = i

\* Once the Stop that deactivated an engine has passed its scan lock (line 118
\* of engine.go), no scan of it runs or will ever run: Scan looks at active
\* again under that lock (line 136).
QuietAfterStop == \A i \in quiesced : ~Scans(i)

\* Two engines never scan the one state directory at the same time: the old
\* one is stopped before the new one is built (runtime.go, lines 110 to 114).
\* This and the next three hold for a host that begins a lifecycle call only
\* when no other one and no Shutdown runs; a Shutdown may come at any moment.
OneEngineScans ==
  ~overlapped => \A i, j \in Engines : Scans(i) /\ Scans(j) => i = j

\* Between lifecycle calls an engine that can scan is the one Shutdown and the
\* next lifecycle call will find (lines 107, 124 and 149).
NoLeakedEngine ==
  ~overlapped /\ ~LifeCallRuns =>
    \A i \in Engines : eng[i].active => engine = i

\* After Shutdown, and the lifecycle call it may have overtaken, nothing scans
\* and nothing is able to (lines 119 and 147).
ShutdownStops ==
  ~overlapped /\ ~LifeCallRuns /\ closed =>
    \A i \in Engines : ~eng[i].active /\ ~Scans(i)

\* The engine and the store that calls are served from are those of the
\* configuration that is shown (lines 104 to 108, 124 and 125).
ServedMatchesConfig ==
  ~overlapped =>
    /\ engine # None => store = engine
    /\ store # None => eng[store].dir = dir

\* Whatever calls run at the same time, the runtime gives its engines the state
\* directory one after the other, as EngineLease says: the next one is built
\* only when the Stop of the last one has seen its scan end (runtime.go, lines
\* 110 to 114), until the host overlaps lifecycle calls.
Lease == INSTANCE EngineLease WITH
  active <- {i \in Engines : eng[i].active},
  scanning <- {r \in Scanners \X Engines :
                 pc[r[1]] = "scan" /\ Target(r[1]) = r[2]}

LeaseSpec == Lease!Init /\ [][Lease!Next \/ overlapped']_(Lease!vars)

\* "state store is unavailable" (handler.go, line 362): the store that load
\* found not to be nil is not nil when its Load is called.
LoadHasStore == \A t \in Threads : pc[t] = "load" => job[t].target # None

\* Every call of the host returns: Stop waits for no scan that waits for it.
CallReturns == \A t \in Threads : (pc[t] # "idle") ~> (pc[t] = "idle")

\* The goroutine of a stopped engine ends.
LoopEnds ==
  \A i \in Engines :
    (~eng[i].active /\ pc[i] = "select") ~> (pc[i] = "done")

\* A usable engine is scanned, as long as it stays the installed one.
EngineScans ==
  \A i \in Engines :
    (engine = i /\ eng[i].usable) ~> (Scans(i) \/ engine # i)
==============================================================================
