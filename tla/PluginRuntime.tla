---------------------------- MODULE PluginRuntime ----------------------------
(***************************************************************************)
(* The plugin runtime (internal/plugin/runtime.go) and the life of the     *)
(* engines it creates (Start, Stop and the locking of Scan in              *)
(* internal/reset/engine.go): lifecycle calls that replace the engine,     *)
(* Shutdown, manual scans and status queries, on any threads of the host.  *)
(* What a scan does is the subject of ResetEngine.                         *)
(***************************************************************************)
EXTENDS FiniteSets

CONSTANTS
  Engines,  \* their number bounds how often the runtime is configured
  Threads,  \* threads of the host that call the plugin
  Dirs,     \* state directories
  None

ASSUME DisjointAssumption ==
  Threads \cap Engines = {} /\ None \notin Threads \cup Engines \cup Dirs

VARIABLES
  closed, dir, engine, store,  \* fields of Runtime; dir = None: not configured
  eng,         \* eng[i]: the fields of engine i
  scanMu,      \* scanMu[i]: who holds the scan lock of engine i
  pc,          \* pc[x]: where a thread, or the goroutine of an engine, stands
  job,         \* job[t]: the local variables of a thread's call
  quiesced,    \* history: engines whose Stop has passed the scan lock
  overlapped   \* history: a lifecycle call began before another one, or a
               \* Shutdown, had returned

fields == <<closed, dir, engine, store>>
vars == <<fields, eng, scanMu, pc, job, quiesced, overlapped>>

Scanners == Threads \cup Engines

\* used: New was called or is about to be; the store of an engine goes by the
\* engine's name.
EngineStates ==
  [used : BOOLEAN, active : BOOLEAN, cancelled : BOOLEAN, started : BOOLEAN,
   usable : BOOLEAN, dir : Dirs \cup {None}]

Unused == [used |-> FALSE, active |-> FALSE, cancelled |-> FALSE,
           started |-> FALSE, usable |-> FALSE, dir |-> None]

LifeStages == {"stop", "stopwait", "stopdone", "build", "install", "start"}
ScanStages == {"check", "lock", "recheck", "scan"}

\* stop and build: the engine being stopped and the one to be built; target:
\* the engine a manual scan found, or the store a status query found.
Jobs == [stop : Engines \cup {None}, build : Engines \cup {None},
         target : Engines \cup {None}]
NoJob == [stop |-> None, build |-> None, target |-> None]

Init ==
  /\ closed = FALSE /\ dir = None /\ engine = None /\ store = None
  /\ eng = [i \in Engines |-> Unused]
  /\ scanMu = [i \in Engines |-> None]
  /\ pc = [x \in Scanners |-> IF x \in Threads THEN "idle" ELSE "none"]
  /\ job = [t \in Threads |-> NoJob]
  /\ quiesced = {} /\ overlapped = FALSE

Goto(x, stage) == pc' = [pc EXCEPT ![x] = stage]
SetJob(t, j) == job' = [job EXCEPT ![t] = j]
Return(t) == Goto(t, "idle") /\ SetJob(t, NoJob)

LifeCallRuns == \E t \in Threads : pc[t] \in LifeStages

-----------------------------------------------------------------------------
(* plugin.register and plugin.reconfigure, once their configuration has    *)
(* been parsed; before that they change nothing.                           *)

\* A variant of Lifecycle that leaves the old engine in place meanwhile.
LifecycleKeepsEngine(t, reconfigure, d, i) ==
  /\ pc[t] = "idle" /\ ~eng[i].used
  /\ ~(reconfigure /\ dir # None /\ dir # d)
  /\ eng' = [eng EXCEPT ![i].used = TRUE, ![i].dir = d]
  /\ SetJob(t, [NoJob EXCEPT !.stop = engine, !.build = i])
  /\ Goto(t, IF engine = None THEN "build" ELSE "stop")
  /\ closed' = FALSE /\ dir' = d
  /\ overlapped' = (overlapped \/ LifeCallRuns)
  /\ UNCHANGED <<engine, store, scanMu, quiesced>>

\* A variant of Lifecycle that forgets the old engine.
LifecycleForgets(t, reconfigure, d, i) ==
  /\ pc[t] = "idle" /\ ~eng[i].used
  /\ ~(reconfigure /\ dir # None /\ dir # d)
  /\ eng' = [eng EXCEPT ![i].used = TRUE, ![i].dir = d]
  /\ SetJob(t, [NoJob EXCEPT !.build = i])
  /\ Goto(t, "build")
  /\ closed' = FALSE /\ dir' = d /\ engine' = None /\ store' = None
  /\ overlapped' = (overlapped \/ LifeCallRuns)
  /\ UNCHANGED <<scanMu, quiesced>>

\* The first critical section: the old engine is taken out. Only a
\* reconfiguration may not move the state directory.
Lifecycle(t, reconfigure, d, i) ==
  /\ pc[t] = "idle" /\ ~eng[i].used
  /\ ~(reconfigure /\ dir # None /\ dir # d)
  /\ eng' = [eng EXCEPT ![i].used = TRUE, ![i].dir = d]
  /\ SetJob(t, [NoJob EXCEPT !.stop = engine, !.build = i])
  /\ Goto(t, IF engine = None THEN "build" ELSE "stop")
  /\ closed' = FALSE /\ dir' = d /\ engine' = None /\ store' = None
  /\ overlapped' = (overlapped \/ LifeCallRuns)
  /\ UNCHANGED <<scanMu, quiesced>>

\* buildEngine; whether the configuration is enabled and complete is open.
Build(t) ==
  /\ pc[t] = "build"
  /\ \/ /\ \E usable \in BOOLEAN :
             eng' = [eng EXCEPT ![job[t].build].active = TRUE,
                                ![job[t].build].usable = usable]
        /\ Goto(t, "install") /\ UNCHANGED job
     \/ Return(t) /\ UNCHANGED eng
  /\ UNCHANGED <<fields, scanMu, quiesced, overlapped>>

\* A variant of Install that does not look at closed.
InstallAnyway(t) ==
  /\ pc[t] = "install"
  /\ engine' = job[t].build /\ store' = job[t].build
  /\ Goto(t, "start")
  /\ UNCHANGED <<closed, dir, eng, scanMu, job, quiesced, overlapped>>

\* The second critical section: after a Shutdown the new engine is stopped.
Install(t) ==
  /\ pc[t] = "install"
  /\ IF closed
     THEN /\ Goto(t, "stop")
          /\ SetJob(t, [NoJob EXCEPT !.stop = job[t].build])
          /\ UNCHANGED fields
     ELSE /\ engine' = job[t].build /\ store' = job[t].build
          /\ Goto(t, "start")
          /\ UNCHANGED <<closed, dir, job>>
  /\ UNCHANGED <<eng, scanMu, quiesced, overlapped>>

\* A variant of Start that leaves the background goroutine out.
StartNothing(t) ==
  /\ pc[t] = "start"
  /\ Return(t)
  /\ UNCHANGED <<fields, eng, scanMu, quiesced, overlapped>>

\* Engine.Start: the goroutine of a usable engine begins to wait.
Start(t) ==
  /\ pc[t] = "start"
  /\ LET i == job[t].build IN
     IF eng[i].usable /\ ~eng[i].started
     THEN /\ eng' = [eng EXCEPT ![i].started = TRUE]
          /\ pc' = [pc EXCEPT ![t] = "idle", ![i] = "select"]
     ELSE Goto(t, "idle") /\ UNCHANGED eng
  /\ SetJob(t, NoJob)
  /\ UNCHANGED <<fields, scanMu, quiesced, overlapped>>

-----------------------------------------------------------------------------
(* Shutdown, and Engine.Stop on behalf of it or of a lifecycle call.       *)

Shutdown(t) ==
  /\ pc[t] = "idle"
  /\ closed' = TRUE /\ engine' = None
  /\ IF engine = None THEN UNCHANGED <<pc, job>>
     ELSE Goto(t, "stop") /\ SetJob(t, [NoJob EXCEPT !.stop = engine])
  /\ UNCHANGED <<dir, store, eng, scanMu, quiesced, overlapped>>

AfterStop(t) ==
  IF job[t].build = None THEN Return(t)
  ELSE Goto(t, "build") /\ SetJob(t, [job[t] EXCEPT !.stop = None])

\* A variant of StopSwap that does not cancel the context of the engine.
StopUncancelled(t) ==
  /\ pc[t] = "stop"
  /\ IF eng[job[t].stop].active
     THEN /\ eng' = [eng EXCEPT ![job[t].stop].active = FALSE]
          /\ Goto(t, "stopwait") /\ UNCHANGED job
     ELSE AfterStop(t) /\ UNCHANGED eng
  /\ UNCHANGED <<fields, scanMu, quiesced, overlapped>>

\* A second Stop of the same engine returns at once. The cancellation is taken
\* together with the swap: what can happen in between is in ResetEngine.
StopSwap(t) ==
  /\ pc[t] = "stop"
  /\ IF eng[job[t].stop].active
     THEN /\ eng' = [eng EXCEPT ![job[t].stop].active = FALSE,
                                ![job[t].stop].cancelled = TRUE]
          /\ Goto(t, "stopwait") /\ UNCHANGED job
     ELSE AfterStop(t) /\ UNCHANGED eng
  /\ UNCHANGED <<fields, scanMu, quiesced, overlapped>>

\* A variant of StopWait that does not wait for the scan.
StopNoWait(t) ==
  /\ pc[t] = "stopwait"
  /\ quiesced' = quiesced \cup {job[t].stop}
  /\ AfterStop(t)
  /\ UNCHANGED <<fields, eng, scanMu, overlapped>>

\* scanMu.Lock and Unlock: the scan that runs has ended.
StopWait(t) ==
  /\ pc[t] = "stopwait"
  /\ scanMu[job[t].stop] = None
  /\ quiesced' = quiesced \cup {job[t].stop}
  /\ IF eng[job[t].stop].started THEN Goto(t, "stopdone") /\ UNCHANGED job
     ELSE AfterStop(t)
  /\ UNCHANGED <<fields, eng, scanMu, overlapped>>

\* The goroutine has ended, or 15 seconds have passed.
StopDone(t) ==
  /\ pc[t] = "stopdone"
  /\ AfterStop(t)
  /\ UNCHANGED <<fields, eng, scanMu, quiesced, overlapped>>

-----------------------------------------------------------------------------
(* Engine.Scan, called by a thread (POST /scan) or an engine's goroutine.  *)

Target(x) == IF x \in Engines THEN x ELSE job[x].target

\* The Scan of x returns.
Leave(x) ==
  IF x \in Engines THEN Goto(x, "select") /\ UNCHANGED job ELSE Return(x)

\* Runtime.Scan: the engine is read, then used without the runtime's lock.
ManualScan(t) ==
  /\ pc[t] = "idle" /\ engine # None
  /\ Goto(t, "check") /\ SetJob(t, [NoJob EXCEPT !.target = engine])
  /\ UNCHANGED <<fields, eng, scanMu, quiesced, overlapped>>

\* The startup timer or the ticker fires. When the context is cancelled as
\* well, select may choose either.
Tick(i) ==
  /\ pc[i] = "select"
  /\ Goto(i, "check")
  /\ UNCHANGED <<fields, eng, scanMu, job, quiesced, overlapped>>

LoopExit(i) ==
  /\ pc[i] = "select" /\ eng[i].cancelled
  /\ Goto(i, "done")
  /\ UNCHANGED <<fields, eng, scanMu, job, quiesced, overlapped>>

ScanCheck(x) ==
  /\ pc[x] = "check"
  /\ IF eng[Target(x)].active THEN Goto(x, "lock") /\ UNCHANGED job
     ELSE Leave(x)
  /\ UNCHANGED <<fields, eng, scanMu, quiesced, overlapped>>

\* A variant of ScanLock that does not look whether the lock is free.
ScanLockAnyway(x) ==
  /\ pc[x] = "lock"
  /\ scanMu' = [scanMu EXCEPT ![Target(x)] = x]
  /\ Goto(x, "recheck") /\ UNCHANGED job
  /\ UNCHANGED <<fields, eng, quiesced, overlapped>>

\* TryLock.
ScanLock(x) ==
  /\ pc[x] = "lock"
  /\ IF scanMu[Target(x)] = None
     THEN /\ scanMu' = [scanMu EXCEPT ![Target(x)] = x]
          /\ Goto(x, "recheck") /\ UNCHANGED job
     ELSE Leave(x) /\ UNCHANGED scanMu
  /\ UNCHANGED <<fields, eng, quiesced, overlapped>>

\* A variant of ScanRecheck that relies on the test made before the lock.
ScanNoRecheck(x) ==
  /\ pc[x] = "recheck"
  /\ IF eng[Target(x)].usable
     THEN Goto(x, "scan") /\ UNCHANGED <<scanMu, job>>
     ELSE scanMu' = [scanMu EXCEPT ![Target(x)] = None] /\ Leave(x)
  /\ UNCHANGED <<fields, eng, quiesced, overlapped>>

\* active is read again under the lock; then the configuration is looked at.
ScanRecheck(x) ==
  /\ pc[x] = "recheck"
  /\ IF eng[Target(x)].active /\ eng[Target(x)].usable
     THEN Goto(x, "scan") /\ UNCHANGED <<scanMu, job>>
     ELSE scanMu' = [scanMu EXCEPT ![Target(x)] = None] /\ Leave(x)
  /\ UNCHANGED <<fields, eng, quiesced, overlapped>>

\* A variant of ScanEnd that leaves the lock locked.
ScanEndLocked(x) ==
  /\ pc[x] = "scan"
  /\ Leave(x)
  /\ UNCHANGED <<fields, eng, scanMu, quiesced, overlapped>>

ScanEnd(x) ==
  /\ pc[x] = "scan"
  /\ scanMu' = [scanMu EXCEPT ![Target(x)] = None]
  /\ Leave(x)
  /\ UNCHANGED <<fields, eng, quiesced, overlapped>>

-----------------------------------------------------------------------------
(* Handler.load, behind the status, account and log queries.               *)

\* Store() is not nil ...
QueryChecks(t) ==
  /\ pc[t] = "idle" /\ store # None
  /\ Goto(t, "query")
  /\ UNCHANGED <<fields, eng, scanMu, job, quiesced, overlapped>>

\* ... and is called again for the store whose Load is called.
QueryUses(t) ==
  /\ pc[t] = "query"
  /\ Goto(t, "load") /\ SetJob(t, [NoJob EXCEPT !.target = store])
  /\ UNCHANGED <<fields, eng, scanMu, quiesced, overlapped>>

QueryReturns(t) ==
  /\ pc[t] = "load"
  /\ Return(t)
  /\ UNCHANGED <<fields, eng, scanMu, quiesced, overlapped>>

-----------------------------------------------------------------------------
CallStep(t) ==
  \/ Build(t) \/ Install(t) \/ Start(t)
  \/ StopSwap(t) \/ StopDone(t)
  \/ QueryUses(t) \/ QueryReturns(t)

ScanStep(x) == ScanCheck(x) \/ ScanLock(x) \/ ScanRecheck(x) \/ ScanEnd(x)

Next ==
  \/ \E t \in Threads :
       \/ \E reconfigure \in BOOLEAN, d \in Dirs, i \in Engines :
            Lifecycle(t, reconfigure, d, i)
       \/ Shutdown(t) \/ ManualScan(t) \/ QueryChecks(t)
       \/ CallStep(t) \/ StopWait(t)
  \/ \E i \in Engines : Tick(i) \/ LoopExit(i)
  \/ \E x \in Scanners : ScanStep(x)

Spec == Init /\ [][Next]_vars

\* Calls and scans go on (a scan ends: ScanEnds of ResetEngine), the ticker
\* ticks, a select chooses a ready case some time, and sync.Mutex is handed to
\* a waiter in the end.
FairSpec ==
  /\ Spec
  /\ \A t \in Threads : WF_vars(CallStep(t)) /\ SF_vars(StopWait(t))
  /\ \A i \in Engines : WF_vars(Tick(i)) /\ SF_vars(LoopExit(i))
  /\ \A x \in Scanners : WF_vars(ScanStep(x))
==============================================================================
