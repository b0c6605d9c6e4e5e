------------------------- MODULE PluginRuntimeProofs -------------------------
(***************************************************************************)
(* TLAPS proofs about PluginRuntime: for any number of threads, engines    *)
(* and directories, and whatever calls overlap, types hold and an engine   *)
(* is quiet once its Stop has returned. As long as the host does not       *)
(* overlap lifecycle calls, one engine at most is able to scan, it is the  *)
(* one Shutdown will find, and it is served with its own configuration.    *)
(***************************************************************************)
EXTENDS PluginRuntimeProps, TLAPS

StopStages == {"stop", "stopwait", "stopdone"}

\* The call t has an engine to install that nobody else knows of.
Building(t) == job[t].build # None /\ pc[t] # "start"

\* A call knows the engine it stops while it stops it, and the one it builds
\* from then on.
JobStages ==
  \A t \in Threads :
    /\ job[t].stop # None <=> pc[t] \in StopStages
    /\ pc[t] \in {"build", "install", "start"} => job[t].build # None
    /\ job[t].build # None => pc[t] \in LifeStages

\* An engine that was not created is nowhere.
UnusedNowhere ==
  \A i \in Engines :
    ~eng[i].used =>
      /\ i # engine /\ i # store /\ i \notin quiesced /\ ~eng[i].active
      /\ \A t \in Threads :
           job[t].stop # i /\ job[t].build # i /\ job[t].target # i

\* An engine that is not yet installed is known to the call that builds it.
BuildsFresh ==
  \A t \in Threads :
    Building(t) =>
      LET b == job[t].build IN
      /\ b # engine /\ b # store /\ b \notin quiesced
      /\ \A u \in Threads :
           /\ job[u].stop # b /\ job[u].target # b
           /\ u # t => job[u].build # b

\* Whatever scans is able to scan, or is waited for by a Stop.
ScansCovered ==
  \A x \in Scanners :
    pc[x] = "scan" =>
      \/ eng[Target(x)].active
      \/ \E t \in Threads : pc[t] = "stopwait" /\ job[t].stop = Target(x)

\* Whoever waits for a scan to end has seen to it that no other will begin.
StoppedInactive ==
  \A t \in Threads : pc[t] = "stopwait" => ~eng[job[t].stop].active

\* A quiesced engine does not scan, and is not able to.
Quiet == \A i \in quiesced : ~eng[i].active /\ ~Scans(i)

ClosedEmpty == closed => engine = None

\* What a host that does not overlap lifecycle calls keeps: one call at a time
\* builds an engine, one stops an engine, and while either does so no engine is
\* installed; one that can scan is installed, or about to be stopped or
\* installed.
OneCall ==
  \A t, u \in Threads :
    t # u => /\ job[t].build = None \/ job[u].build = None
             /\ job[t].stop = None \/ job[u].stop = None
BuildAlone ==
  \A t \in Threads :
    Building(t) =>
      /\ engine = None /\ store = None /\ eng[job[t].build].dir = dir
      /\ \A u \in Threads : u # t => job[u].stop = None
InstalledAlone ==
  /\ engine # None => store = engine /\ \A t \in Threads : job[t].stop = None
  /\ store # None => eng[store].dir = dir
ActiveKnown ==
  \A i \in Engines :
    eng[i].active =>
      \/ engine = i
      \/ \E t \in Threads : \/ pc[t] = "stop" /\ job[t].stop = i
                            \/ pc[t] = "install" /\ job[t].build = i

Orderly ==
  ~overlapped => OneCall /\ BuildAlone /\ InstalledAlone /\ ActiveKnown

IInv ==
  /\ TypeOK /\ JobStages /\ UnusedNowhere /\ BuildsFresh
  /\ StoppedInactive /\ ScansCovered /\ Quiet /\ ClosedEmpty /\ Orderly

-----------------------------------------------------------------------------
(* Types.                                                                  *)

LEMMA InitHolds == Init => IInv
<1> SUFFICES ASSUME Init PROVE IInv
  OBVIOUS
<1>1. TypeOK
  BY DisjointAssumption
  DEF Init, TypeOK, EngineStates, Unused, Jobs, NoJob, Scanners, ScanStages,
      LifeStages, CallStages, LoopStages
<1>2. JobStages /\ UnusedNowhere /\ BuildsFresh
  BY DisjointAssumption
  DEF Init, JobStages, UnusedNowhere, BuildsFresh, Building, Unused, NoJob,
      Scanners, StopStages
<1>3. StoppedInactive /\ ScansCovered /\ Quiet /\ ClosedEmpty /\ Orderly
  BY DisjointAssumption
  DEF Init, StoppedInactive, ScansCovered, Quiet, ClosedEmpty, Orderly, OneCall, BuildAlone,
      InstalledAlone, ActiveKnown, Building, Unused, NoJob, Scanners
<1> QED
  BY <1>1, <1>2, <1>3 DEF IInv

\* The effect of the two assignments to one caller's place and locals.
LEMMA GotoEffect ==
  ASSUME TypeOK, NEW x \in Scanners, NEW stage, Goto(x, stage)
  PROVE  /\ pc'[x] = stage
         /\ \A y \in Scanners : y # x => pc'[y] = pc[y]
BY DEF TypeOK, Goto, Scanners

LEMMA SetJobEffect ==
  ASSUME TypeOK, NEW t \in Threads, NEW j, SetJob(t, j)
  PROVE  /\ job'[t] = j
         /\ \A u \in Threads : u # t => job'[u] = job[u]
BY DEF TypeOK, SetJob

\* A step that moves one caller among the stages of its kind keeps the types
\* of places and locals.
LEMMA PlaceType ==
  ASSUME TypeOK, NEW x \in Scanners, NEW stage, Goto(x, stage),
         x \in Threads => stage \in CallStages,
         x \in Engines => stage \in LoopStages
  PROVE  /\ pc' \in [Scanners -> CallStages \cup LoopStages]
         /\ \A t \in Threads : pc'[t] \in CallStages
         /\ \A i \in Engines : pc'[i] \in LoopStages
BY DEF TypeOK, Goto, Scanners

LEMMA JobType ==
  ASSUME TypeOK, NEW t \in Threads, NEW j \in Jobs, SetJob(t, j)
  PROVE  job' \in [Threads -> Jobs]
BY DEF TypeOK, SetJob

LEMMA NoJobType == NoJob \in Jobs
BY DEF NoJob, Jobs

LEMMA JobExcept ==
  ASSUME NEW j \in Jobs
  PROVE  /\ \A v \in Engines \cup {None} :
              /\ [NoJob EXCEPT !.stop = v] \in Jobs
              /\ [NoJob EXCEPT !.build = v] \in Jobs
              /\ [NoJob EXCEPT !.target = v] \in Jobs
         /\ [j EXCEPT !.stop = None] \in Jobs
         /\ \A v, w \in Engines \cup {None} :
              [NoJob EXCEPT !.stop = v, !.build = w] \in Jobs
BY DEF NoJob, Jobs

\* What the fields of a changed record are.
LEMMA JobFields ==
  ASSUME NEW j \in Jobs, NEW v \in Engines \cup {None},
         NEW w \in Engines \cup {None}
  PROVE  /\ NoJob.stop = None /\ NoJob.build = None /\ NoJob.target = None
         /\ [NoJob EXCEPT !.stop = v].stop = v
         /\ [NoJob EXCEPT !.stop = v].build = None
         /\ [NoJob EXCEPT !.stop = v].target = None
         /\ [NoJob EXCEPT !.target = v].stop = None
         /\ [NoJob EXCEPT !.target = v].build = None
         /\ [NoJob EXCEPT !.target = v].target = v
         /\ [NoJob EXCEPT !.stop = v, !.build = w].stop = v
         /\ [NoJob EXCEPT !.stop = v, !.build = w].build = w
         /\ [NoJob EXCEPT !.stop = v, !.build = w].target = None
         /\ [j EXCEPT !.stop = None].stop = None
         /\ [j EXCEPT !.stop = None].build = j.build
         /\ [j EXCEPT !.stop = None].target = j.target
BY DEF NoJob, Jobs

\* Nothing but the callers' places and locals changes the rest of TypeOK.
LEMMA ReturnEffect ==
  ASSUME TypeOK, NEW t \in Threads, Return(t)
  PROVE  /\ pc'[t] = "idle" /\ job'[t] = NoJob
         /\ \A y \in Scanners : y # t => pc'[y] = pc[y]
         /\ \A u \in Threads : u # t => job'[u] = job[u]
         /\ pc' \in [Scanners -> CallStages \cup LoopStages]
         /\ \A u \in Threads : pc'[u] \in CallStages
         /\ \A i \in Engines : pc'[i] \in LoopStages
         /\ job' \in [Threads -> Jobs]
<1>1. t \in Scanners /\ t \notin Engines /\ "idle" \in CallStages
  BY DisjointAssumption DEF Scanners, CallStages
<1> QED
  BY <1>1, GotoEffect, SetJobEffect, PlaceType, JobType, NoJobType DEF Return

LEMMA AfterStopEffect ==
  ASSUME TypeOK, NEW t \in Threads, AfterStop(t)
  PROVE  /\ \A y \in Scanners : y # t => pc'[y] = pc[y]
         /\ \A u \in Threads : u # t => job'[u] = job[u]
         /\ pc' \in [Scanners -> CallStages \cup LoopStages]
         /\ \A u \in Threads : pc'[u] \in CallStages
         /\ \A i \in Engines : pc'[i] \in LoopStages
         /\ job' \in [Threads -> Jobs]
         /\ job'[t].stop = None /\ job'[t].build = job[t].build
         /\ job'[t].target \in {None, job[t].target}
         /\ pc'[t] = IF job[t].build = None THEN "idle" ELSE "build"
<1>1. t \in Scanners /\ t \notin Engines /\ "build" \in CallStages
  BY DisjointAssumption DEF Scanners, CallStages, LifeStages
<1>2. job[t] \in Jobs
  BY DEF TypeOK
<1>3. CASE job[t].build = None
  BY <1>1, <1>3, ReturnEffect DEF AfterStop, NoJob
<1>4. CASE job[t].build # None
  <2>1. Goto(t, "build") /\ SetJob(t, [job[t] EXCEPT !.stop = None])
    BY <1>4 DEF AfterStop
  <2>2. [job[t] EXCEPT !.stop = None] \in Jobs
    BY <1>2, JobExcept
  <2>3. pc'[t] = "build" /\ job'[t] = [job[t] EXCEPT !.stop = None]
    BY <1>1, <2>1, GotoEffect, SetJobEffect
  <2>4. /\ job'[t].stop = None /\ job'[t].build = job[t].build
        /\ job'[t].target = job[t].target
    BY <1>2, <2>3, JobFields
  <2> QED
    BY <1>1, <1>4, <2>1, <2>2, <2>3, <2>4, GotoEffect, SetJobEffect, PlaceType,
       JobType
<1> QED
  BY <1>3, <1>4

LEMMA LeaveEffect ==
  ASSUME TypeOK, NEW x \in Scanners, Leave(x)
  PROVE  /\ \A y \in Scanners : y # x => pc'[y] = pc[y]
         /\ pc' \in [Scanners -> CallStages \cup LoopStages]
         /\ \A u \in Threads : pc'[u] \in CallStages
         /\ \A i \in Engines : pc'[i] \in LoopStages
         /\ job' \in [Threads -> Jobs]
         /\ pc'[x] = IF x \in Engines THEN "select" ELSE "idle"
         /\ \A u \in Threads : u # x => job'[u] = job[u]
         /\ x \in Threads => job'[x] = NoJob
<1>1. CASE x \in Engines
  <2>1. x \notin Threads /\ "select" \in LoopStages
    BY <1>1, DisjointAssumption DEF LoopStages
  <2>2. Goto(x, "select") /\ UNCHANGED job
    BY <1>1 DEF Leave
  <2> QED
    BY <1>1, <2>1, <2>2, GotoEffect, PlaceType DEF TypeOK
<1>2. CASE x \notin Engines
  BY <1>2, ReturnEffect DEF Leave, Scanners
<1> QED
  BY <1>1, <1>2

LEMMA EngineUsed ==
  ASSUME NEW r \in EngineStates, NEW d \in Dirs
  PROVE  LET q == [r EXCEPT !.used = TRUE, !.dir = d] IN
         q.used /\ q.dir = d /\ (q.active <=> r.active)
BY DEF EngineStates

LEMMA TargetType ==
  ASSUME TypeOK, NEW x \in Scanners, pc[x] \in ScanStages
  PROVE  Target(x) \in Engines
BY DEF TypeOK, Target, Scanners, Jobs

-----------------------------------------------------------------------------
(* Classes of steps.                                                       *)

\* No scan starts, and those that run are covered as before.
LEMMA ScansCoveredKept ==
  ASSUME IInv,
         \A x \in Scanners : pc'[x] = "scan" =>
           pc[x] = "scan" /\ Target(x)' = Target(x),
         \A j \in Engines : eng[j].active => eng'[j].active,
         \A u \in Threads : pc[u] = "stopwait" =>
           pc'[u] = "stopwait" /\ job'[u].stop = job[u].stop
  PROVE  ScansCovered'
<1> SUFFICES ASSUME NEW x \in Scanners, pc'[x] = "scan"
             PROVE  \/ eng'[Target(x)'].active
                    \/ \E u \in Threads : /\ pc'[u] = "stopwait"
                                          /\ job'[u].stop = Target(x)'
  BY DEF ScansCovered
<1>1. /\ pc[x] = "scan" /\ Target(x)' = Target(x) /\ Target(x) \in Engines
  BY TargetType DEF IInv, ScanStages
<1>2. \/ eng[Target(x)].active
      \/ \E u \in Threads : pc[u] = "stopwait" /\ job[u].stop = Target(x)
  BY <1>1 DEF IInv, ScansCovered
<1> QED
  BY <1>1, <1>2

LEMMA QuietKept ==
  ASSUME IInv, quiesced' = quiesced,
         \A x \in Scanners : pc'[x] = "scan" =>
           pc[x] = "scan" /\ Target(x)' = Target(x),
         \A j \in quiesced : ~eng'[j].active
  PROVE  Quiet'
BY DEF IInv, Quiet, Scans

\* A step of a scan or of a query: it changes no field and no engine, and of
\* the calls only where one reads and what it has read.
Reads ==
  /\ UNCHANGED <<fields, eng, quiesced, overlapped>>
  /\ \A t \in Threads :
       /\ job'[t].stop = job[t].stop /\ job'[t].build = job[t].build
       /\ job'[t].target \in {job[t].target, None, engine, store}
       /\ pc'[t] = pc[t] \/ (pc[t] \notin LifeStages /\ pc'[t] \notin LifeStages)

LEMMA ReadsKeep ==
  ASSUME IInv, Reads
  PROVE  /\ JobStages' /\ UnusedNowhere' /\ BuildsFresh' /\ StoppedInactive'
         /\ ClosedEmpty' /\ Orderly'
<1>1. /\ closed' = closed /\ dir' = dir /\ engine' = engine /\ store' = store
      /\ eng' = eng /\ quiesced' = quiesced /\ overlapped' = overlapped
  BY DEF Reads, fields
<1>2. \A t \in Threads :
        /\ job'[t].stop = job[t].stop /\ job'[t].build = job[t].build
        /\ job'[t].target \in {job[t].target, None, engine, store}
  BY DEF Reads
<1>3. \A t \in Threads :
        /\ pc'[t] \in StopStages <=> pc[t] \in StopStages
        /\ pc'[t] \in LifeStages <=> pc[t] \in LifeStages
        /\ \A stage \in LifeStages : pc'[t] = stage <=> pc[t] = stage
  BY DEF Reads, StopStages, LifeStages
<1>4. None \notin Engines
  BY DisjointAssumption
<1>5. JobStages' /\ ClosedEmpty'
  BY <1>1, <1>2, <1>3
  DEF IInv, JobStages, ClosedEmpty, StopStages, LifeStages
<1>6. UnusedNowhere'
  BY <1>1, <1>2, <1>4 DEF IInv, UnusedNowhere
<1>7. \A t \in Threads : Building(t)' <=> Building(t)
  BY <1>2, <1>3 DEF Building, LifeStages
<1>8. BuildsFresh'
  <2> SUFFICES ASSUME NEW t \in Threads, Building(t)
               PROVE  /\ job[t].build # engine /\ job[t].build # store
                      /\ job[t].build \notin quiesced
                      /\ \A u \in Threads :
                           /\ job'[u].stop # job[t].build
                           /\ job'[u].target # job[t].build
                           /\ u # t => job'[u].build # job[t].build
    BY <1>1, <1>2, <1>7 DEF BuildsFresh
  <2> QED
    BY <1>2 DEF IInv, BuildsFresh, Building
<1>9. Orderly'
  <2> SUFFICES ASSUME ~overlapped
               PROVE  OneCall' /\ BuildAlone' /\ InstalledAlone' /\ ActiveKnown'
    BY <1>1 DEF Orderly
  <2>1. OneCall /\ BuildAlone /\ InstalledAlone /\ ActiveKnown
    BY DEF IInv, Orderly
  <2>2. OneCall' /\ InstalledAlone'
    BY <1>1, <1>2, <2>1 DEF OneCall, InstalledAlone
  <2>3. BuildAlone'
    BY <1>1, <1>2, <1>7, <2>1 DEF BuildAlone
  <2>4. ActiveKnown'
    BY <1>1, <1>2, <1>3, <2>1 DEF ActiveKnown, LifeStages
  <2> QED
    BY <2>2, <2>3, <2>4
<1>10. StoppedInactive'
  BY <1>1, <1>2, <1>3 DEF IInv, StoppedInactive, LifeStages
<1> QED
  BY <1>5, <1>6, <1>8, <1>9, <1>10

-----------------------------------------------------------------------------
(* One lemma per action.                                                   *)

LEMMA LifecycleNext ==
  ASSUME IInv, NEW t \in Threads, NEW reconfigure \in BOOLEAN, NEW d \in Dirs,
         NEW i \in Engines, Lifecycle(t, reconfigure, d, i)
  PROVE  IInv'
<1> DEFINE job1 == [NoJob EXCEPT !.stop = engine, !.build = i]
           stage == IF engine = None THEN "build" ELSE "stop"
<1>1. /\ TypeOK /\ t \in Scanners /\ t \notin Engines /\ None \notin Engines
      /\ stage \in CallStages /\ job1 \in Jobs /\ engine \in Engines \cup {None}
  BY DisjointAssumption, JobExcept
  DEF IInv, TypeOK, Scanners, CallStages, LifeStages
<1>2. Goto(t, stage) /\ SetJob(t, job1)
  BY DEF Lifecycle
<1>3. /\ pc'[t] = stage /\ pc[t] = "idle"
      /\ \A y \in Scanners : y # t => pc'[y] = pc[y]
      /\ \A u \in Threads : u # t => job'[u] = job[u] /\ pc'[u] = pc[u]
  BY <1>1, <1>2, GotoEffect, SetJobEffect DEF Lifecycle, Scanners
<1>4. job'[t].stop = engine /\ job'[t].build = i /\ job'[t].target = None
  <2>1. job'[t] = job1
    BY <1>1, <1>2, SetJobEffect
  <2> QED
    BY <2>1, <1>1, NoJobType DEF NoJob
<1>5. /\ ~eng[i].used /\ eng'[i] = [eng[i] EXCEPT !.used = TRUE, !.dir = d]
      /\ \A j \in Engines : j # i => eng'[j] = eng[j]
      /\ eng' \in [Engines -> EngineStates]
  BY <1>1 DEF Lifecycle, TypeOK, EngineStates
<1>6. /\ ~eng[i].used /\ eng'[i].used /\ eng'[i].dir = d /\ ~eng'[i].active
      /\ \A j \in Engines : j # i => eng'[j] = eng[j]
      /\ \A j \in Engines : eng'[j].active <=> eng[j].active
  <2>1. ~eng[i].active
    BY <1>5 DEF IInv, UnusedNowhere
  <2>2. eng[i] \in EngineStates
    BY <1>1 DEF TypeOK
  <2>3. eng'[i].used /\ eng'[i].dir = d /\ ~eng'[i].active
    BY <1>5, <2>1, <2>2, EngineUsed
  <2> QED
    BY <1>5, <2>1, <2>3
<1>7. /\ closed' = FALSE /\ dir' = d /\ engine' = None /\ store' = None
      /\ overlapped' = (overlapped \/ LifeCallRuns)
      /\ UNCHANGED <<scanMu, quiesced>>
  BY DEF Lifecycle
<1> HIDE DEF job1
<1>8. TypeOK'
  <2>1. /\ pc' \in [Scanners -> CallStages \cup LoopStages]
        /\ \A u \in Threads : pc'[u] \in CallStages
        /\ \A j \in Engines : pc'[j] \in LoopStages
        /\ job' \in [Threads -> Jobs]
    BY <1>1, <1>2, PlaceType, JobType
  <2>2. \A x \in Scanners :
          /\ pc'[x] \in ScanStages => Target(x)' # None
          /\ pc'[x] \in {"recheck", "scan"} => scanMu'[Target(x)'] = x
    BY <1>1, <1>3, <1>7 DEF TypeOK, Target, ScanStages, Scanners
  <2> QED
    BY <1>1, <1>5, <1>7, <2>1, <2>2 DEF TypeOK
<1>9. JobStages' /\ ClosedEmpty'
  BY <1>1, <1>3, <1>4, <1>7
  DEF IInv, JobStages, ClosedEmpty, StopStages, LifeStages
<1>10. UnusedNowhere'
  <2> SUFFICES ASSUME NEW j \in Engines, ~eng'[j].used
               PROVE  /\ j # engine' /\ j # store' /\ j \notin quiesced'
                      /\ ~eng'[j].active
                      /\ \A u \in Threads : /\ job'[u].stop # j
                                            /\ job'[u].build # j
                                            /\ job'[u].target # j
    BY DEF UnusedNowhere
  <2> QED
    BY <1>1, <1>3, <1>4, <1>6, <1>7 DEF IInv, UnusedNowhere, ClosedEmpty
<1>11. BuildsFresh'
  BY <1>1, <1>3, <1>4, <1>6, <1>7
  DEF IInv, BuildsFresh, UnusedNowhere, Building, TypeOK, JobStages, LifeStages
<1>12. ScansCovered' /\ Quiet'
  <2>1. \A x \in Scanners : pc'[x] = "scan" =>
          /\ pc[x] = "scan" /\ x # t
          /\ Target(x)' = Target(x)
    BY <1>1, <1>3 DEF Target, ScanStages, Scanners
  <2>2. \A u \in Threads : pc[u] = "stopwait" =>
          pc'[u] = "stopwait" /\ job'[u].stop = job[u].stop
    BY <1>3
  <2>3. quiesced' = quiesced /\ \A j \in quiesced : ~eng'[j].active
    BY <1>1, <1>6, <1>7 DEF IInv, Quiet, TypeOK
  <2> QED
    BY <1>6, <2>1, <2>2, <2>3, ScansCoveredKept, QuietKept
<1>13. Orderly'
  <2> SUFFICES ASSUME ~overlapped' PROVE OneCall' /\ BuildAlone' /\ InstalledAlone' /\ ActiveKnown'
    BY DEF Orderly
  <2>1. /\ ~overlapped
        /\ OneCall /\ BuildAlone /\ InstalledAlone /\ ActiveKnown
        /\ \A u \in Threads : pc[u] \notin LifeStages
    BY <1>7 DEF IInv, Orderly, LifeCallRuns
  <2>2. \A u \in Threads : job[u].build = None /\ job[u].stop = None
    BY <2>1 DEF IInv, JobStages, LifeStages, StopStages
  <2>3. OneCall'
    BY <1>3, <2>2 DEF OneCall
  <2>4. BuildAlone'
    BY <1>3, <1>4, <1>6, <1>7, <2>2 DEF BuildAlone, Building
  <2>5. InstalledAlone'
    BY <1>7 DEF InstalledAlone
  <2>6. ActiveKnown'
    BY <1>1, <1>3, <1>4, <1>6, <2>1, <2>2
    DEF ActiveKnown, IInv, UnusedNowhere, LifeStages
  <2> QED
    BY <2>3, <2>4, <2>5, <2>6
<1>14. StoppedInactive'
  <2>1. \A u \in Threads : pc'[u] = "stopwait" =>
          /\ u # t /\ pc[u] = "stopwait" /\ job'[u].stop = job[u].stop
          /\ job[u].stop \in Engines
    BY <1>1, <1>3 DEF IInv, JobStages, TypeOK, Jobs, StopStages
  <2> QED
    BY <1>6, <2>1 DEF IInv, StoppedInactive
<1> QED
  BY <1>8, <1>9, <1>10, <1>11, <1>12, <1>13, <1>14 DEF IInv

\* What a scan that leaves keeps: whoever holds a lock, other than the one
\* that may have just released it, is where it was.
LEMMA LeaveNext ==
  ASSUME IInv, NEW x \in Scanners, pc[x] \in ScanStages, Leave(x),
         UNCHANGED <<fields, eng, quiesced, overlapped>>,
         scanMu' \in [Engines -> Scanners \cup {None}],
         \A i \in Engines : scanMu[i] # x => scanMu'[i] = scanMu[i]
  PROVE  IInv'
<1>1. /\ \A y \in Scanners : y # x => pc'[y] = pc[y]
      /\ pc' \in [Scanners -> CallStages \cup LoopStages]
      /\ \A u \in Threads : pc'[u] \in CallStages
      /\ \A i \in Engines : pc'[i] \in LoopStages
      /\ job' \in [Threads -> Jobs]
      /\ pc'[x] \in {"select", "idle"}
      /\ \A u \in Threads : u # x => job'[u] = job[u]
      /\ x \in Threads => job'[x] = NoJob
  BY LeaveEffect DEF IInv
<1>2. \A y \in Scanners : y # x => Target(y)' = Target(y)
  BY <1>1 DEF Target, Scanners
<1>3. TypeOK'
  <2>1. \A y \in Scanners :
          /\ pc'[y] \in ScanStages => Target(y)' # None
          /\ pc'[y] \in {"recheck", "scan"} => scanMu'[Target(y)'] = y
    <3> SUFFICES ASSUME NEW y \in Scanners, pc'[y] \in ScanStages
                 PROVE  /\ Target(y)' # None
                        /\ pc'[y] \in {"recheck", "scan"} =>
                             scanMu'[Target(y)'] = y
      BY DEF ScanStages
    <3>1. y # x /\ pc'[y] = pc[y] /\ Target(y)' = Target(y)
      BY <1>1, <1>2 DEF ScanStages
    <3>2. Target(y) \in Engines /\ Target(y) # None
      BY <3>1, TargetType DEF IInv, TypeOK
    <3>3. pc[y] \in {"recheck", "scan"} => scanMu[Target(y)] = y
      BY DEF IInv, TypeOK
    <3> QED
      BY <3>1, <3>2, <3>3
  <2> QED
    BY <1>1, <2>1 DEF IInv, TypeOK, fields
<1>4. Reads
  <2>1. \A t \in Threads :
          /\ job'[t].stop = job[t].stop /\ job'[t].build = job[t].build
          /\ job'[t].target \in {job[t].target, None}
    BY <1>1 DEF IInv, JobStages, NoJob, StopStages, LifeStages, ScanStages
  <2>2. \A t \in Threads :
          \/ pc'[t] = pc[t]
          \/ pc[t] \notin LifeStages /\ pc'[t] \notin LifeStages
    BY <1>1 DEF LifeStages, ScanStages, Scanners
  <2> QED
    BY <2>1, <2>2 DEF Reads
<1>5. \A y \in Scanners : pc'[y] = "scan" => pc[y] = "scan" /\ Target(y)' = Target(y)
  BY <1>1, <1>2
<1>6. \A u \in Threads : pc[u] = "stopwait" =>
        pc'[u] = "stopwait" /\ job'[u].stop = job[u].stop
  BY <1>1 DEF ScanStages, Scanners
<1>7. ScansCovered' /\ Quiet'
  BY <1>5, <1>6, ScansCoveredKept, QuietKept DEF IInv, Quiet
<1> QED
  BY <1>3, <1>4, <1>7, ReadsKeep DEF IInv

\* What one that goes on keeps.
LEMMA AdvanceNext ==
  ASSUME IInv, NEW x \in Scanners, NEW stage \in ScanStages \cup {"done"},
         Goto(x, stage), pc[x] \in ScanStages \cup {"select"},
         stage = "done" => x \in Engines, pc[x] = "select" => x \in Engines,
         UNCHANGED <<fields, eng, job, quiesced, overlapped>>,
         scanMu' \in [Engines -> Scanners \cup {None}],
         stage \in {"recheck", "scan"} => scanMu'[Target(x)] = x,
         stage = "scan" => eng[Target(x)].active,
         \A i \in Engines :
           scanMu[i] = None \/ scanMu[i] = x \/ scanMu'[i] = scanMu[i]
  PROVE  IInv'
<1>1. TypeOK /\ x \notin Threads \cap Engines
  BY DisjointAssumption DEF IInv
<1>2. /\ pc' \in [Scanners -> CallStages \cup LoopStages]
      /\ \A u \in Threads : pc'[u] \in CallStages
      /\ \A i \in Engines : pc'[i] \in LoopStages
      /\ pc'[x] = stage /\ \A y \in Scanners : y # x => pc'[y] = pc[y]
  BY <1>1, PlaceType, GotoEffect DEF CallStages, LoopStages
<1>3. \A y \in Scanners : Target(y)' = Target(y)
  BY DEF Target
<1>4. TypeOK'
  <2>1. \A y \in Scanners :
          /\ pc'[y] \in ScanStages => Target(y)' # None
          /\ pc'[y] \in {"recheck", "scan"} => scanMu'[Target(y)'] = y
    <3> SUFFICES ASSUME NEW y \in Scanners, pc'[y] \in ScanStages
                 PROVE  /\ Target(y)' # None
                        /\ pc'[y] \in {"recheck", "scan"} =>
                             scanMu'[Target(y)'] = y
      BY DEF ScanStages
    <3>1. CASE y = x
      <4>1. Target(x) # None
        <5>1. CASE pc[x] \in ScanStages
          BY <1>1, <5>1 DEF TypeOK
        <5>2. CASE pc[x] = "select"
          BY <5>2, DisjointAssumption DEF Target
        <5> QED
          BY <5>1, <5>2
      <4> QED
        BY <1>2, <1>3, <3>1, <4>1
    <3>2. CASE y # x
      <4>1. Target(y) \in Engines /\ Target(y) # None
        BY <1>1, <1>2, <3>2, TargetType DEF TypeOK
      <4>2. pc[y] \in {"recheck", "scan"} => scanMu[Target(y)] = y
        BY <1>1 DEF TypeOK
      <4>3. y # None
        BY DisjointAssumption DEF Scanners
      <4> QED
        BY <1>2, <1>3, <3>2, <4>1, <4>2, <4>3
    <3> QED
      BY <3>1, <3>2
  <2> QED
    BY <1>1, <1>2, <2>1 DEF TypeOK, fields
<1>5. Reads
  BY <1>2 DEF Reads, LifeStages, ScanStages, Scanners
<1>6. eng' = eng /\ job' = job /\ quiesced' = quiesced
  OBVIOUS
<1>7. \A u \in Threads : pc[u] = "stopwait" => pc'[u] = "stopwait"
  BY <1>2 DEF ScanStages, Scanners
<1>8. ScansCovered'
  BY <1>2, <1>3, <1>6, <1>7 DEF IInv, ScansCovered
<1>9. Quiet'
  <2> SUFFICES ASSUME NEW i \in quiesced
               PROVE  ~eng[i].active /\ \A y \in Scanners : ~(pc'[y] = "scan" /\ Target(y) = i)
    BY <1>3, <1>6 DEF Quiet, Scans
  <2> QED
    BY <1>2 DEF IInv, Quiet, Scans
<1> QED
  BY <1>4, <1>5, <1>8, <1>9, ReadsKeep DEF IInv

\* The same for a call of the host that is no lifecycle call and no scan.
LEMMA QueryNext ==
  ASSUME IInv, NEW t \in Threads, pc[t] \in {"idle", "query", "load"},
         NEW stage \in {"idle", "query", "load", "check"}, Goto(t, stage),
         NEW target \in {None, engine, store, job[t].target},
         SetJob(t, [NoJob EXCEPT !.target = target]),
         stage = "check" => target # None,
         UNCHANGED <<fields, eng, scanMu, quiesced, overlapped>>
  PROVE  IInv'
<1> DEFINE job1 == [NoJob EXCEPT !.target = target]
<1>0. target \in Engines \cup {None}
  BY DEF IInv, TypeOK, Jobs
<1>1. /\ TypeOK /\ t \in Scanners /\ t \notin Engines /\ stage \in CallStages
      /\ job1 \in Jobs /\ target \in Engines \cup {None}
  <2>1. job1 \in Jobs
    BY <1>0, NoJobType, JobExcept
  <2> QED
    BY <1>0, <2>1, DisjointAssumption DEF IInv, Scanners, CallStages, ScanStages
<1>2. /\ pc' \in [Scanners -> CallStages \cup LoopStages]
      /\ \A u \in Threads : pc'[u] \in CallStages
      /\ \A i \in Engines : pc'[i] \in LoopStages
      /\ pc'[t] = stage /\ \A y \in Scanners : y # t => pc'[y] = pc[y]
  BY <1>1, PlaceType, GotoEffect
<1>3. /\ job' \in [Threads -> Jobs] /\ job'[t] = job1
      /\ \A u \in Threads : u # t => job'[u] = job[u]
  BY <1>1, JobType, SetJobEffect
<1>4. /\ job'[t].stop = None /\ job'[t].build = None /\ job'[t].target = target
      /\ job[t].stop = None /\ job[t].build = None
  BY <1>3 DEF NoJob, IInv, JobStages, StopStages, LifeStages
<1> HIDE DEF job1
<1>5. \A y \in Scanners : y # t => Target(y)' = Target(y)
  BY <1>3 DEF Target, Scanners
<1>6. TypeOK'
  <2>1. \A y \in Scanners :
          /\ pc'[y] \in ScanStages => Target(y)' # None
          /\ pc'[y] \in {"recheck", "scan"} => scanMu'[Target(y)'] = y
    BY <1>1, <1>2, <1>4, <1>5 DEF TypeOK, ScanStages, Target
  <2> QED
    BY <1>1, <1>2, <1>3, <2>1 DEF TypeOK, fields
<1>7. Reads
  <2>1. \A u \in Threads :
          /\ job'[u].stop = job[u].stop /\ job'[u].build = job[u].build
          /\ job'[u].target \in {job[u].target, None, engine, store}
    BY <1>3, <1>4
  <2>2. \A u \in Threads :
          \/ pc'[u] = pc[u]
          \/ pc[u] \notin LifeStages /\ pc'[u] \notin LifeStages
    BY <1>2 DEF LifeStages, Scanners
  <2> QED
    BY <2>1, <2>2 DEF Reads
<1>8. \A y \in Scanners :
        pc'[y] = "scan" => pc[y] = "scan" /\ Target(y)' = Target(y)
  BY <1>2, <1>5
<1>9. \A u \in Threads : pc[u] = "stopwait" =>
        pc'[u] = "stopwait" /\ job'[u].stop = job[u].stop
  BY <1>2, <1>3 DEF Scanners
<1>10. ScansCovered' /\ Quiet'
  BY <1>8, <1>9, ScansCoveredKept, QuietKept DEF IInv, Quiet
<1> QED
  BY <1>6, <1>7, <1>10, ReadsKeep DEF IInv

-----------------------------------------------------------------------------
(* One lemma per action of scans and queries.                              *)

LEMMA ManualScanNext ==
  ASSUME IInv, NEW t \in Threads, ManualScan(t)
  PROVE  IInv'
BY QueryNext DEF ManualScan

LEMMA KeepsNoJob ==
  ASSUME IInv, NEW t \in Threads, pc[t] \in {"idle", "query", "load"}
  PROVE  job[t] = [NoJob EXCEPT !.target = job[t].target]
<1>1. /\ job[t] \in Jobs /\ job[t].stop = None /\ job[t].build = None
  BY DEF IInv, TypeOK, JobStages, StopStages, LifeStages
<1> QED
  BY <1>1 DEF Jobs, NoJob

LEMMA QueryChecksNext ==
  ASSUME IInv, NEW t \in Threads, QueryChecks(t)
  PROVE  IInv'
<1>1. SetJob(t, job[t])
  BY DEF SetJob, QueryChecks, IInv, TypeOK
<1>2. job[t] = [NoJob EXCEPT !.target = job[t].target]
  BY KeepsNoJob DEF QueryChecks
<1>3. SetJob(t, [NoJob EXCEPT !.target = job[t].target])
  BY <1>1, <1>2
<1> QED
  BY <1>3, QueryNext DEF QueryChecks

LEMMA QueryUsesNext ==
  ASSUME IInv, NEW t \in Threads, QueryUses(t)
  PROVE  IInv'
BY QueryNext DEF QueryUses

LEMMA QueryReturnsNext ==
  ASSUME IInv, NEW t \in Threads, QueryReturns(t)
  PROVE  IInv'
<1>1. NoJob = [NoJob EXCEPT !.target = None]
  BY DEF NoJob
<1> QED
  BY <1>1, QueryNext DEF QueryReturns, Return

LEMMA TickNext ==
  ASSUME IInv, NEW i \in Engines, Tick(i)
  PROVE  IInv'
BY AdvanceNext DEF Tick, Scanners, ScanStages, IInv, TypeOK

LEMMA LoopExitNext ==
  ASSUME IInv, NEW i \in Engines, LoopExit(i)
  PROVE  IInv'
BY AdvanceNext DEF LoopExit, Scanners, ScanStages, IInv, TypeOK

LEMMA ScanCheckNext ==
  ASSUME IInv, NEW x \in Scanners, ScanCheck(x)
  PROVE  IInv'
<1>1. scanMu' \in [Engines -> Scanners \cup {None}] /\ UNCHANGED scanMu
  BY DEF ScanCheck, IInv, TypeOK
<1>2. CASE eng[Target(x)].active
  BY <1>1, <1>2, AdvanceNext DEF ScanCheck, ScanStages
<1>3. CASE ~eng[Target(x)].active
  BY <1>1, <1>3, LeaveNext DEF ScanCheck, ScanStages
<1> QED
  BY <1>2, <1>3

LEMMA ScanLockNext ==
  ASSUME IInv, NEW x \in Scanners, ScanLock(x)
  PROVE  IInv'
<1>1. pc[x] \in ScanStages /\ Target(x) \in Engines
  BY TargetType DEF ScanLock, ScanStages, IInv
<1>2. CASE scanMu[Target(x)] = None
  <2>1. /\ scanMu' = [scanMu EXCEPT ![Target(x)] = x] /\ Goto(x, "recheck")
        /\ UNCHANGED <<fields, eng, job, quiesced, overlapped>>
    BY <1>2 DEF ScanLock
  <2>2. /\ scanMu' \in [Engines -> Scanners \cup {None}]
        /\ scanMu'[Target(x)] = x
        /\ \A i \in Engines :
             scanMu[i] = None \/ scanMu[i] = x \/ scanMu'[i] = scanMu[i]
    BY <1>1, <1>2, <2>1 DEF IInv, TypeOK
  <2> QED
    BY <1>1, <2>1, <2>2, AdvanceNext DEF ScanStages
<1>3. CASE scanMu[Target(x)] # None
  BY <1>1, <1>3, LeaveNext DEF ScanLock, IInv, TypeOK
<1> QED
  BY <1>2, <1>3

\* scanMu.Unlock, by its holder.
LEMMA UnlockEffect ==
  ASSUME TypeOK, NEW x \in Scanners, pc[x] \in {"recheck", "scan"},
         scanMu' = [scanMu EXCEPT ![Target(x)] = None]
  PROVE  /\ pc[x] \in ScanStages
         /\ scanMu' \in [Engines -> Scanners \cup {None}]
         /\ \A i \in Engines : scanMu[i] # x => scanMu'[i] = scanMu[i]
BY DEF TypeOK, ScanStages

LEMMA ScanRecheckNext ==
  ASSUME IInv, NEW x \in Scanners, ScanRecheck(x)
  PROVE  IInv'
<1>1. TypeOK /\ pc[x] = "recheck" /\ scanMu[Target(x)] = x
  BY DEF ScanRecheck, IInv, TypeOK
<1>2. CASE eng[Target(x)].active /\ eng[Target(x)].usable
  BY <1>1, <1>2, AdvanceNext DEF ScanRecheck, ScanStages, TypeOK
<1>3. CASE ~(eng[Target(x)].active /\ eng[Target(x)].usable)
  BY <1>1, <1>3, UnlockEffect, LeaveNext DEF ScanRecheck
<1> QED
  BY <1>2, <1>3

LEMMA ScanEndNext ==
  ASSUME IInv, NEW x \in Scanners, ScanEnd(x)
  PROVE  IInv'
BY UnlockEffect, LeaveNext DEF ScanEnd, IInv

-----------------------------------------------------------------------------
(* One lemma per action of lifecycle calls and Shutdown.                   *)

\* Types after a step that starts no scan and moves no lock.
LEMMA LifeType ==
  ASSUME TypeOK, scanMu' = scanMu,
         closed' \in BOOLEAN, dir' \in Dirs \cup {None},
         engine' \in Engines \cup {None}, store' \in Engines \cup {None},
         eng' \in [Engines -> EngineStates],
         quiesced' \subseteq Engines, overlapped' \in BOOLEAN,
         pc' \in [Scanners -> CallStages \cup LoopStages],
         \A u \in Threads : pc'[u] \in CallStages,
         \A i \in Engines : pc'[i] \in LoopStages,
         job' \in [Threads -> Jobs],
         \A y \in Scanners : pc'[y] \in ScanStages =>
           pc'[y] = pc[y] /\ Target(y)' = Target(y)
  PROVE  TypeOK'
<1>1. \A y \in Scanners :
        /\ pc'[y] \in ScanStages => Target(y)' # None
        /\ pc'[y] \in {"recheck", "scan"} => scanMu'[Target(y)'] = y
  <2> SUFFICES ASSUME NEW y \in Scanners, pc'[y] \in ScanStages
               PROVE  /\ Target(y)' # None
                      /\ pc'[y] \in {"recheck", "scan"} =>
                           scanMu'[Target(y)'] = y
    BY DEF ScanStages
  <2> QED
    BY DEF TypeOK
<1> QED
  BY <1>1 DEF TypeOK

\* A thread that is in no scan before a step nor after it leaves the scans of
\* the others alone.
LEMMA OthersScan ==
  ASSUME NEW t \in Threads, pc'[t] \notin ScanStages,
         \A y \in Scanners : y # t => pc'[y] = pc[y],
         \A u \in Threads : u # t => job'[u] = job[u]
  PROVE  /\ \A y \in Scanners : pc'[y] \in ScanStages =>
              pc'[y] = pc[y] /\ Target(y)' = Target(y)
         /\ \A y \in Scanners : pc'[y] = "scan" =>
              pc[y] = "scan" /\ Target(y)' = Target(y)
BY DEF Target, Scanners, ScanStages

\* A call whose Stop is over goes on: to the wait for the goroutine, to the
\* building of the new engine, or to its return.
LEMMA StopOverNext ==
  ASSUME IInv, NEW t \in Threads, pc[t] \in StopStages,
         UNCHANGED <<fields, eng, scanMu, overlapped>>,
         \A y \in Scanners : y # t => pc'[y] = pc[y],
         \A u \in Threads : u # t => job'[u] = job[u],
         pc' \in [Scanners -> CallStages \cup LoopStages],
         \A u \in Threads : pc'[u] \in CallStages,
         \A i \in Engines : pc'[i] \in LoopStages,
         job' \in [Threads -> Jobs],
         job'[t].build = job[t].build,
         job'[t].target \in {None, job[t].target},
         \/ pc'[t] = "stopdone" /\ job'[t].stop = job[t].stop
         \/ /\ job'[t].stop = None
            /\ pc'[t] = IF job[t].build = None THEN "idle" ELSE "build",
         pc[t] = "stop" => ~eng[job[t].stop].active,
         pc[t] = "stopwait" => ~Scans(job[t].stop),
         \/ quiesced' = quiesced
         \/ /\ quiesced' = quiesced \cup {job[t].stop}
            /\ ~eng[job[t].stop].active /\ ~Scans(job[t].stop)
  PROVE  IInv'
<1>1. /\ TypeOK /\ job[t].stop \in Engines /\ None \notin Engines
      /\ closed' = closed /\ dir' = dir /\ engine' = engine /\ store' = store
      /\ eng' = eng /\ overlapped' = overlapped /\ scanMu' = scanMu
  BY DisjointAssumption DEF IInv, TypeOK, Jobs, JobStages, fields
<1>2. pc'[t] \notin ScanStages
  BY DEF ScanStages
<1>3. /\ \A y \in Scanners : pc'[y] \in ScanStages =>
           pc'[y] = pc[y] /\ Target(y)' = Target(y)
      /\ \A y \in Scanners : pc'[y] = "scan" =>
           pc[y] = "scan" /\ Target(y)' = Target(y)
  BY <1>2, OthersScan
<1>4. TypeOK'
  <2>1. quiesced' \subseteq Engines
    BY <1>1 DEF TypeOK
  <2> QED
    BY <1>1, <1>3, <2>1, LifeType DEF TypeOK
<1>5. \A u \in Threads : u # t => pc'[u] = pc[u]
  BY DEF Scanners
<1>6. JobStages' /\ ClosedEmpty'
  BY <1>1, <1>5 DEF IInv, JobStages, ClosedEmpty, StopStages, LifeStages
<1>7. UnusedNowhere'
  BY <1>1 DEF IInv, UnusedNowhere
<1>8. \A u \in Threads : Building(u)' <=> Building(u)
  BY <1>5 DEF Building, StopStages
<1>9. BuildsFresh'
  <2> SUFFICES ASSUME NEW v \in Threads, Building(v)
               PROVE  LET b == job'[v].build IN
                      /\ b # engine /\ b # store /\ b \notin quiesced'
                      /\ \A u \in Threads :
                           /\ job'[u].stop # b /\ job'[u].target # b
                           /\ u # v => job'[u].build # b
    BY <1>1, <1>8 DEF BuildsFresh
  <2>1. job'[v].build = job[v].build /\ job[v].build # None
    BY DEF Building
  <2>2. /\ job[v].build # engine /\ job[v].build # store
        /\ job[v].build \notin quiesced
        /\ \A u \in Threads :
             /\ job[u].stop # job[v].build /\ job[u].target # job[v].build
             /\ u # v => job[u].build # job[v].build
    BY DEF IInv, BuildsFresh
  <2> QED
    BY <2>1, <2>2
<1>10. ScansCovered'
  <2> SUFFICES ASSUME NEW x \in Scanners, pc'[x] = "scan"
               PROVE  \/ eng[Target(x)].active
                      \/ \E u \in Threads : /\ pc'[u] = "stopwait"
                                            /\ job'[u].stop = Target(x)
    BY <1>1, <1>3 DEF ScansCovered
  <2>1. pc[x] = "scan"
    BY <1>3
  <2>2. \/ eng[Target(x)].active
        \/ \E u \in Threads : pc[u] = "stopwait" /\ job[u].stop = Target(x)
    BY <2>1 DEF IInv, ScansCovered
  <2> QED
    BY <1>5, <2>1, <2>2 DEF Scans
<1>11. Quiet'
  BY <1>1, <1>3 DEF IInv, Quiet, Scans
<1>12. Orderly'
  <2> SUFFICES ASSUME ~overlapped
               PROVE  OneCall' /\ BuildAlone' /\ InstalledAlone' /\ ActiveKnown'
    BY <1>1 DEF Orderly
  <2>1. OneCall /\ BuildAlone /\ InstalledAlone /\ ActiveKnown
    BY DEF IInv, Orderly
  <2>2. \A u \in Threads : /\ job'[u].build = job[u].build
                           /\ job'[u].stop \in {job[u].stop, None}
    OBVIOUS
  <2>3. OneCall' /\ InstalledAlone'
    BY <1>1, <2>1, <2>2 DEF OneCall, InstalledAlone
  <2>4. BuildAlone'
    BY <1>1, <1>8, <2>1, <2>2 DEF BuildAlone
  <2>5. ActiveKnown'
    BY <1>1, <1>5, <2>1, <2>2 DEF ActiveKnown, StopStages
  <2> QED
    BY <2>3, <2>4, <2>5
<1>13. StoppedInactive'
  BY <1>1, <1>5 DEF IInv, StoppedInactive
<1> QED
  BY <1>4, <1>6, <1>7, <1>9, <1>10, <1>11, <1>12, <1>13 DEF IInv

LEMMA StopDoneNext ==
  ASSUME IInv, NEW t \in Threads, StopDone(t)
  PROVE  IInv'
<1>1. TypeOK /\ pc[t] = "stopdone" /\ pc[t] \in StopStages
  BY DEF StopDone, IInv, StopStages
<1> QED
  BY <1>1, AfterStopEffect, StopOverNext DEF StopDone

LEMMA StopWaitNext ==
  ASSUME IInv, NEW t \in Threads, StopWait(t)
  PROVE  IInv'
<1>1. /\ TypeOK /\ pc[t] = "stopwait" /\ pc[t] \in StopStages
      /\ scanMu[job[t].stop] = None /\ t \in Scanners /\ t \notin Engines
      /\ quiesced' = quiesced \cup {job[t].stop}
      /\ UNCHANGED <<fields, eng, scanMu, overlapped>>
  BY DisjointAssumption DEF StopWait, IInv, StopStages, Scanners, fields
<1>2. ~Scans(job[t].stop)
  BY <1>1, DisjointAssumption DEF Scans, TypeOK, Scanners
<1>3. ~eng[job[t].stop].active
  BY <1>1 DEF IInv, StoppedInactive
<1>4. CASE eng[job[t].stop].started
  <2>1. Goto(t, "stopdone") /\ UNCHANGED job
    BY <1>4 DEF StopWait
  <2>2. "stopdone" \in CallStages
    BY DEF CallStages, LifeStages
  <2>3. /\ \A y \in Scanners : y # t => pc'[y] = pc[y]
        /\ pc' \in [Scanners -> CallStages \cup LoopStages]
        /\ \A u \in Threads : pc'[u] \in CallStages
        /\ \A i \in Engines : pc'[i] \in LoopStages
        /\ pc'[t] = "stopdone" /\ job' \in [Threads -> Jobs]
    BY <1>1, <2>1, <2>2, GotoEffect, PlaceType DEF TypeOK
  <2> QED
    BY <1>1, <1>2, <1>3, <2>1, <2>3, StopOverNext
<1>5. CASE ~eng[job[t].stop].started
  BY <1>1, <1>2, <1>3, <1>5, AfterStopEffect, StopOverNext DEF StopWait
<1> QED
  BY <1>4, <1>5

LEMMA EngineStopped ==
  ASSUME NEW r \in EngineStates
  PROVE  LET q == [r EXCEPT !.active = FALSE, !.cancelled = TRUE] IN
         q \in EngineStates /\ ~q.active /\ q.dir = r.dir /\ (q.used <=> r.used)
BY DEF EngineStates

LEMMA StopSwapNext ==
  ASSUME IInv, NEW t \in Threads, StopSwap(t)
  PROVE  IInv'
<1> DEFINE i == job[t].stop
<1>1. /\ TypeOK /\ pc[t] = "stop" /\ pc[t] \in StopStages
      /\ t \in Scanners /\ t \notin Engines /\ None \notin Engines
      /\ i \in Engines /\ eng[i] \in EngineStates
      /\ closed' = closed /\ dir' = dir /\ engine' = engine /\ store' = store
      /\ overlapped' = overlapped /\ scanMu' = scanMu /\ quiesced' = quiesced
  BY DisjointAssumption
  DEF StopSwap, IInv, StopStages, Scanners, fields, TypeOK, Jobs, JobStages
<1> HIDE DEF i
<1>2. CASE ~eng[i].active
  BY <1>1, <1>2, AfterStopEffect, StopOverNext DEF StopSwap, i, fields
<1>3. CASE eng[i].active
  <2>1. /\ eng' = [eng EXCEPT ![i].active = FALSE, ![i].cancelled = TRUE]
        /\ Goto(t, "stopwait") /\ job' = job
    BY <1>3 DEF StopSwap, i
  <2>2. /\ pc'[t] = "stopwait" /\ "stopwait" \notin ScanStages
        /\ \A y \in Scanners : y # t => pc'[y] = pc[y]
        /\ \A u \in Threads : u # t => pc'[u] = pc[u]
        /\ pc' \in [Scanners -> CallStages \cup LoopStages]
        /\ \A u \in Threads : pc'[u] \in CallStages
        /\ \A j \in Engines : pc'[j] \in LoopStages
    BY <1>1, <2>1, GotoEffect, PlaceType
    DEF CallStages, LifeStages, ScanStages, Scanners
  <2>3. /\ eng' \in [Engines -> EngineStates] /\ ~eng'[i].active
        /\ \A j \in Engines : j # i => eng'[j] = eng[j]
        /\ \A j \in Engines : /\ eng'[j].dir = eng[j].dir
                              /\ eng'[j].used <=> eng[j].used
    <3>1. eng' = [eng EXCEPT ![i] =
                    [eng[i] EXCEPT !.active = FALSE, !.cancelled = TRUE]]
      BY <1>1, <2>1 DEF TypeOK
    <3> DEFINE q == [eng[i] EXCEPT !.active = FALSE, !.cancelled = TRUE]
    <3>2. /\ q \in EngineStates /\ ~q.active /\ q.dir = eng[i].dir
          /\ q.used <=> eng[i].used
      BY <1>1, EngineStopped
    <3> HIDE DEF q
    <3>3. eng' = [eng EXCEPT ![i] = q]
      BY <3>1 DEF q
    <3>4. eng \in [Engines -> EngineStates]
      BY <1>1 DEF TypeOK
    <3> QED
      BY <1>1, <3>2, <3>3, <3>4
  <2>4. \A j \in Engines : eng'[j].active => eng[j].active /\ j # i
    BY <2>3
  <2>5. /\ \A y \in Scanners : pc'[y] \in ScanStages =>
             pc'[y] = pc[y] /\ Target(y)' = Target(y)
        /\ \A y \in Scanners : pc'[y] = "scan" =>
             pc[y] = "scan" /\ Target(y)' = Target(y)
    BY <2>1, <2>2, OthersScan
  <2>6. TypeOK'
    BY <1>1, <2>1, <2>2, <2>3, <2>5, LifeType DEF TypeOK
  <2>7. JobStages' /\ ClosedEmpty'
    BY <1>1, <2>1, <2>2 DEF IInv, JobStages, ClosedEmpty, StopStages, LifeStages
  <2>8. UnusedNowhere'
    BY <1>1, <2>1, <2>3, <2>4 DEF IInv, UnusedNowhere
  <2>9. \A u \in Threads : Building(u)' <=> Building(u)
    BY <1>1, <2>1, <2>2 DEF Building
  <2>10. BuildsFresh'
    BY <1>1, <2>1, <2>9 DEF IInv, BuildsFresh
  <2>11. StoppedInactive'
    <3>1. \A u \in Threads : pc'[u] = "stopwait" => job[u].stop \in Engines
      BY <1>1, <2>2 DEF IInv, JobStages, TypeOK, Jobs, StopStages, i
    <3> QED
      BY <2>1, <2>2, <2>3, <2>4, <3>1 DEF IInv, StoppedInactive, i
  <2>12. ScansCovered'
    <3> SUFFICES ASSUME NEW x \in Scanners, pc'[x] = "scan"
                 PROVE  \/ eng'[Target(x)].active
                        \/ \E u \in Threads : /\ pc'[u] = "stopwait"
                                              /\ job[u].stop = Target(x)
      BY <2>1, <2>5 DEF ScansCovered, Target
    <3>1. pc[x] = "scan" /\ Target(x) \in Engines
      BY <1>1, <2>5, TargetType DEF ScanStages
    <3>2. \/ eng[Target(x)].active
          \/ \E u \in Threads : pc[u] = "stopwait" /\ job[u].stop = Target(x)
      BY <3>1 DEF IInv, ScansCovered
    <3> QED
      BY <1>1, <2>2, <2>3, <3>1, <3>2 DEF i
  <2>13. Quiet'
    BY <1>1, <2>4, <2>5, QuietKept DEF IInv, Quiet, TypeOK
  <2>14. Orderly'
    <3> SUFFICES ASSUME ~overlapped
                 PROVE  OneCall' /\ BuildAlone' /\ InstalledAlone' /\ ActiveKnown'
      BY <1>1 DEF Orderly
    <3>1. OneCall /\ BuildAlone /\ InstalledAlone /\ ActiveKnown
      BY DEF IInv, Orderly
    <3>2. OneCall' /\ InstalledAlone'
      BY <1>1, <2>1, <2>3, <3>1 DEF OneCall, InstalledAlone, TypeOK
    <3>3. BuildAlone'
      BY <1>1, <2>1, <2>3, <2>9, <3>1 DEF BuildAlone, TypeOK, Jobs, Building
    <3>4. ActiveKnown'
      BY <1>1, <2>1, <2>2, <2>4, <3>1 DEF ActiveKnown, i
    <3> QED
      BY <3>2, <3>3, <3>4
  <2> QED
    BY <2>6, <2>7, <2>8, <2>10, <2>11, <2>12, <2>13, <2>14 DEF IInv
<1> QED
  BY <1>2, <1>3

LEMMA ShutdownNext ==
  ASSUME IInv, NEW t \in Threads, Shutdown(t)
  PROVE  IInv'
<1>1. /\ TypeOK /\ pc[t] = "idle"
      /\ t \in Scanners /\ t \notin Engines /\ None \notin Engines
      /\ engine \in Engines \cup {None}
      /\ closed' = TRUE /\ engine' = None /\ dir' = dir /\ store' = store
      /\ eng' = eng /\ overlapped' = overlapped /\ scanMu' = scanMu
      /\ quiesced' = quiesced
      /\ job[t].stop = None /\ job[t].build = None
  BY DisjointAssumption
  DEF Shutdown, IInv, Scanners, fields, TypeOK, JobStages, StopStages, LifeStages
<1>2. /\ \A y \in Scanners : y # t => pc'[y] = pc[y]
      /\ \A u \in Threads : u # t => pc'[u] = pc[u] /\ job'[u] = job[u]
      /\ pc' \in [Scanners -> CallStages \cup LoopStages]
      /\ \A u \in Threads : pc'[u] \in CallStages
      /\ \A j \in Engines : pc'[j] \in LoopStages
      /\ job' \in [Threads -> Jobs]
      /\ pc'[t] = IF engine = None THEN "idle" ELSE "stop"
      /\ job'[t].stop = engine /\ job'[t].build = None
      /\ job'[t].target \in {None, job[t].target}
  <2>1. CASE engine = None
    <3>1. pc' = pc /\ job' = job
      BY <2>1 DEF Shutdown
    <3> QED
      BY <1>1, <2>1, <3>1 DEF TypeOK
  <2>2. CASE engine # None
    <3>1. Goto(t, "stop") /\ SetJob(t, [NoJob EXCEPT !.stop = engine])
      BY <2>2 DEF Shutdown
    <3>2. [NoJob EXCEPT !.stop = engine] \in Jobs /\ "stop" \in CallStages
      BY <1>1, NoJobType, JobExcept DEF CallStages, LifeStages
    <3>3. job'[t] = [NoJob EXCEPT !.stop = engine]
      BY <1>1, <3>1, SetJobEffect
    <3>4. /\ job'[t].stop = engine /\ job'[t].build = None
          /\ job'[t].target = None
      BY <3>3 DEF NoJob
    <3>5. \A u \in Threads : u # t => job'[u] = job[u]
      BY <1>1, <3>1, SetJobEffect
    <3>6. /\ pc'[t] = "stop" /\ \A y \in Scanners : y # t => pc'[y] = pc[y]
      BY <1>1, <3>1, GotoEffect
    <3> QED
      BY <1>1, <2>2, <3>1, <3>2, <3>4, <3>5, <3>6, PlaceType, JobType
      DEF Scanners
  <2> QED
    BY <2>1, <2>2
<1>3. pc'[t] \notin ScanStages
  BY <1>2 DEF ScanStages
<1>4. /\ \A y \in Scanners : pc'[y] \in ScanStages =>
           pc'[y] = pc[y] /\ Target(y)' = Target(y)
      /\ \A y \in Scanners : pc'[y] = "scan" =>
           pc[y] = "scan" /\ Target(y)' = Target(y)
  BY <1>2, <1>3, OthersScan
<1>5. TypeOK'
  BY <1>1, <1>2, <1>4, LifeType DEF TypeOK
<1>6. JobStages' /\ ClosedEmpty'
  BY <1>1, <1>2 DEF IInv, JobStages, ClosedEmpty, StopStages, LifeStages
<1>7. UnusedNowhere'
  BY <1>1, <1>2 DEF IInv, UnusedNowhere
<1>8. \A u \in Threads : /\ Building(u)' <=> Building(u)
                         /\ Building(u) => u # t /\ job'[u] = job[u]
  BY <1>1, <1>2 DEF Building
<1>9. BuildsFresh'
  <2> SUFFICES ASSUME NEW v \in Threads, Building(v)
               PROVE  LET b == job[v].build IN
                      /\ b # None /\ b # store /\ b \notin quiesced
                      /\ \A u \in Threads :
                           /\ job'[u].stop # b /\ job'[u].target # b
                           /\ u # v => job'[u].build # b
    BY <1>1, <1>8 DEF BuildsFresh
  <2> QED
    BY <1>1, <1>2 DEF IInv, BuildsFresh, Building
<1>10. StoppedInactive'
  BY <1>1, <1>2 DEF IInv, StoppedInactive
<1>11. ScansCovered' /\ Quiet'
  <2>1. \A u \in Threads : pc[u] = "stopwait" =>
          pc'[u] = "stopwait" /\ job'[u].stop = job[u].stop
    BY <1>1, <1>2
  <2> QED
    BY <1>1, <1>4, <2>1, ScansCoveredKept, QuietKept DEF IInv, Quiet
<1>12. Orderly'
  <2> SUFFICES ASSUME ~overlapped
               PROVE  OneCall' /\ BuildAlone' /\ InstalledAlone' /\ ActiveKnown'
    BY <1>1 DEF Orderly
  <2>1. OneCall /\ BuildAlone /\ InstalledAlone /\ ActiveKnown
    BY DEF IInv, Orderly
  <2>2. OneCall'
    BY <1>1, <1>2, <2>1 DEF OneCall, InstalledAlone
  <2>3. BuildAlone'
    BY <1>1, <1>2, <1>8, <2>1 DEF BuildAlone
  <2>4. InstalledAlone'
    BY <1>1, <2>1 DEF InstalledAlone
  <2>5. ActiveKnown'
    BY <1>1, <1>2, <2>1 DEF ActiveKnown
  <2> QED
    BY <2>2, <2>3, <2>4, <2>5
<1> QED
  BY <1>5, <1>6, <1>7, <1>9, <1>10, <1>11, <1>12 DEF IInv

\* A call that has nothing more to install returns, with or without having
\* started the goroutine of the engine it built.
LEMMA CallEndsNext ==
  ASSUME IInv, NEW t \in Threads, pc[t] \in {"build", "start"},
         UNCHANGED <<fields, scanMu, quiesced, overlapped>>,
         pc'[t] = "idle", job'[t] = NoJob,
         \A u \in Threads : u # t => pc'[u] = pc[u] /\ job'[u] = job[u],
         pc' \in [Scanners -> CallStages \cup LoopStages],
         \A u \in Threads : pc'[u] \in CallStages,
         \A i \in Engines : pc'[i] \in LoopStages,
         \A i \in Engines : pc'[i] \in ScanStages => pc'[i] = pc[i],
         job' \in [Threads -> Jobs],
         eng' \in [Engines -> EngineStates],
         \A j \in Engines : /\ eng'[j].dir = eng[j].dir
                            /\ eng'[j].used <=> eng[j].used
                            /\ eng'[j].active <=> eng[j].active
  PROVE  IInv'
<1>1. /\ TypeOK /\ None \notin Engines
      /\ closed' = closed /\ dir' = dir /\ engine' = engine /\ store' = store
      /\ overlapped' = overlapped /\ scanMu' = scanMu /\ quiesced' = quiesced
      /\ job[t].stop = None /\ job[t].build # None
  BY DisjointAssumption DEF IInv, fields, JobStages, StopStages
<1>2. job'[t].stop = None /\ job'[t].build = None /\ job'[t].target = None
  BY DEF NoJob
<1>3. \A y \in Scanners : pc'[y] \in ScanStages =>
        pc'[y] = pc[y] /\ Target(y)' = Target(y)
  <2> SUFFICES ASSUME NEW y \in Scanners, pc'[y] \in ScanStages
               PROVE  pc'[y] = pc[y] /\ Target(y)' = Target(y)
    OBVIOUS
  <2>1. y # t
    BY DEF ScanStages
  <2> QED
    BY <2>1 DEF Target, Scanners
<1>4. \A y \in Scanners : pc'[y] = "scan" =>
        pc[y] = "scan" /\ Target(y)' = Target(y)
  BY <1>3 DEF ScanStages
<1>5. TypeOK'
  BY <1>1, <1>3, LifeType DEF TypeOK
<1>6. JobStages' /\ ClosedEmpty'
  BY <1>1, <1>2 DEF IInv, JobStages, ClosedEmpty, StopStages, LifeStages
<1>7. UnusedNowhere'
  BY <1>1, <1>2 DEF IInv, UnusedNowhere
<1>8. \A u \in Threads : Building(u)' => /\ u # t /\ Building(u)
                                         /\ job'[u] = job[u]
  BY <1>2 DEF Building
<1>9. BuildsFresh'
  <2> SUFFICES ASSUME NEW v \in Threads, Building(v)', Building(v), v # t,
                      job'[v] = job[v]
               PROVE  LET b == job[v].build IN
                      /\ b # engine /\ b # store /\ b \notin quiesced
                      /\ \A u \in Threads :
                           /\ job'[u].stop # b /\ job'[u].target # b
                           /\ u # v => job'[u].build # b
    BY <1>1, <1>8 DEF BuildsFresh
  <2> QED
    BY <1>1, <1>2 DEF IInv, BuildsFresh, Building
<1>10. StoppedInactive'
  <2>1. \A u \in Threads : pc'[u] = "stopwait" =>
          /\ u # t /\ pc[u] = "stopwait" /\ job'[u] = job[u]
          /\ job[u].stop \in Engines
    BY <1>1 DEF IInv, JobStages, StopStages, TypeOK, Jobs
  <2> QED
    BY <2>1 DEF IInv, StoppedInactive
<1>11. ScansCovered' /\ Quiet'
  <2>1. \A u \in Threads : pc[u] = "stopwait" =>
          pc'[u] = "stopwait" /\ job'[u].stop = job[u].stop
    OBVIOUS
  <2>2. \A j \in quiesced : ~eng'[j].active
    BY <1>1 DEF IInv, Quiet, TypeOK
  <2> QED
    BY <1>1, <1>4, <2>1, <2>2, ScansCoveredKept, QuietKept
<1>12. Orderly'
  <2> SUFFICES ASSUME ~overlapped
               PROVE  OneCall' /\ BuildAlone' /\ InstalledAlone' /\ ActiveKnown'
    BY <1>1 DEF Orderly
  <2>1. OneCall /\ BuildAlone /\ InstalledAlone /\ ActiveKnown
    BY DEF IInv, Orderly
  <2>2. OneCall' /\ InstalledAlone'
    BY <1>1, <1>2, <2>1 DEF OneCall, InstalledAlone, TypeOK
  <2>3. BuildAlone'
    <3>1. \A u \in Threads : Building(u) => job[u].build \in Engines
      BY <1>1 DEF Building, TypeOK, Jobs
    <3> QED
      BY <1>1, <1>2, <1>8, <2>1, <3>1 DEF BuildAlone
  <2>4. ActiveKnown'
    BY <1>1, <2>1 DEF ActiveKnown
  <2> QED
    BY <2>2, <2>3, <2>4
<1> QED
  BY <1>5, <1>6, <1>7, <1>9, <1>10, <1>11, <1>12 DEF IInv

LEMMA EngineStarted ==
  ASSUME NEW r \in EngineStates
  PROVE  LET q == [r EXCEPT !.started = TRUE] IN
         /\ q \in EngineStates /\ q.dir = r.dir
         /\ q.used <=> r.used
         /\ q.active <=> r.active
BY DEF EngineStates

LEMMA StartNext ==
  ASSUME IInv, NEW t \in Threads, Start(t)
  PROVE  IInv'
<1> DEFINE i == job[t].build
<1>1. /\ TypeOK /\ t \in Scanners /\ t \notin Engines /\ pc[t] = "start"
      /\ UNCHANGED <<fields, scanMu, quiesced, overlapped>>
      /\ SetJob(t, NoJob) /\ i \in Engines /\ i \in Scanners /\ i \notin Threads
      /\ eng \in [Engines -> EngineStates]
      /\ pc \in [Scanners -> CallStages \cup LoopStages]
  BY DisjointAssumption DEF IInv, Start, Scanners, JobStages, TypeOK, Jobs
<1>2. /\ job' \in [Threads -> Jobs] /\ job'[t] = NoJob
      /\ \A u \in Threads : u # t => job'[u] = job[u]
  BY <1>1, SetJobEffect, JobType, NoJobType
<1>3. "idle" \in CallStages /\ "select" \in LoopStages /\ "select" \notin ScanStages
  BY DEF CallStages, LoopStages, ScanStages
<1> HIDE DEF i
<1>4. CASE eng[i].usable /\ ~eng[i].started
  <2>1. /\ eng' = [eng EXCEPT ![i].started = TRUE]
        /\ pc' = [pc EXCEPT ![t] = "idle", ![i] = "select"]
    BY <1>4 DEF Start, i
  <2>2. /\ pc'[t] = "idle" /\ \A u \in Threads : u # t => pc'[u] = pc[u]
        /\ pc' \in [Scanners -> CallStages \cup LoopStages]
        /\ \A u \in Threads : pc'[u] \in CallStages
        /\ \A j \in Engines : pc'[j] \in LoopStages
        /\ \A j \in Engines : pc'[j] \in ScanStages => pc'[j] = pc[j]
    BY <1>1, <1>3, <2>1 DEF TypeOK, Scanners
  <2>3. /\ eng' \in [Engines -> EngineStates]
        /\ \A j \in Engines : /\ eng'[j].dir = eng[j].dir
                              /\ eng'[j].used <=> eng[j].used
                              /\ eng'[j].active <=> eng[j].active
    <3> DEFINE q == [eng[i] EXCEPT !.started = TRUE]
    <3>1. /\ q \in EngineStates /\ q.dir = eng[i].dir
          /\ q.used <=> eng[i].used
          /\ q.active <=> eng[i].active
      BY <1>1, EngineStarted
    <3>2. eng' = [eng EXCEPT ![i] = q]
      BY <2>1
    <3> HIDE DEF q
    <3> QED
      BY <1>1, <3>1, <3>2
  <2> QED
    BY <1>1, <1>2, <2>2, <2>3, CallEndsNext
<1>5. CASE ~(eng[i].usable /\ ~eng[i].started)
  <2>1. eng' = eng /\ Goto(t, "idle")
    BY <1>5 DEF Start, i
  <2>2. /\ pc'[t] = "idle" /\ \A u \in Threads : u # t => pc'[u] = pc[u]
        /\ pc' \in [Scanners -> CallStages \cup LoopStages]
        /\ \A u \in Threads : pc'[u] \in CallStages
        /\ \A j \in Engines : pc'[j] \in LoopStages
        /\ \A j \in Engines : pc'[j] \in ScanStages => pc'[j] = pc[j]
    BY <1>1, <1>3, <2>1, GotoEffect, PlaceType DEF Scanners
  <2> QED
    BY <1>1, <1>2, <2>1, <2>2, CallEndsNext
<1> QED
  BY <1>4, <1>5

LEMMA EngineBuilt ==
  ASSUME NEW r \in EngineStates, NEW usable \in BOOLEAN
  PROVE  LET q == [r EXCEPT !.active = TRUE, !.usable = usable] IN
         /\ q \in EngineStates /\ q.dir = r.dir /\ q.active
         /\ q.used <=> r.used
BY DEF EngineStates

LEMMA BuildNext ==
  ASSUME IInv, NEW t \in Threads, Build(t)
  PROVE  IInv'
<1> DEFINE b == job[t].build
<1>1. /\ TypeOK /\ t \in Scanners /\ t \notin Engines /\ pc[t] = "build"
      /\ UNCHANGED <<fields, scanMu, quiesced, overlapped>>
      /\ b \in Engines /\ None \notin Engines /\ Building(t) /\ job[t].stop = None
      /\ eng \in [Engines -> EngineStates]
      /\ closed' = closed /\ dir' = dir /\ engine' = engine /\ store' = store
  BY DisjointAssumption
  DEF IInv, Build, Scanners, JobStages, TypeOK, Jobs, Building, StopStages, fields
<1>2. CASE Return(t) /\ UNCHANGED eng
  <2>1. \A u \in Threads : u # t => pc'[u] = pc[u]
    BY <1>1, <1>2, ReturnEffect DEF Scanners
  <2>2. \A i \in Engines : pc'[i] = pc[i]
    BY <1>1, <1>2, ReturnEffect DEF Scanners
  <2> QED
    BY <1>1, <1>2, <2>1, <2>2, ReturnEffect, CallEndsNext
<1>3. ASSUME NEW usable \in BOOLEAN,
             eng' = [eng EXCEPT ![b].active = TRUE, ![b].usable = usable],
             Goto(t, "install"), UNCHANGED job
      PROVE  IInv'
  <2> DEFINE q == [eng[b] EXCEPT !.active = TRUE, !.usable = usable]
  <2>1. /\ q \in EngineStates /\ q.dir = eng[b].dir /\ q.active
        /\ q.used <=> eng[b].used
    BY <1>1, EngineBuilt
  <2>2. eng' = [eng EXCEPT ![b] = q]
    BY <1>3
  <2> HIDE DEF q, b
  <2>3. /\ eng' \in [Engines -> EngineStates] /\ eng'[b].active
        /\ \A j \in Engines : j # b => eng'[j] = eng[j]
        /\ \A j \in Engines : /\ eng'[j].dir = eng[j].dir
                              /\ eng'[j].used <=> eng[j].used
    BY <1>1, <2>1, <2>2
  <2>4. \A j \in Engines : eng'[j].active => eng[j].active \/ j = b
    BY <2>3
  <2>5. \A j \in Engines : eng[j].active => eng'[j].active
    BY <2>3
  <2>6. "install" \in CallStages /\ "install" \notin ScanStages
    BY DEF CallStages, LifeStages, ScanStages
  <2>7. /\ pc' \in [Scanners -> CallStages \cup LoopStages]
        /\ \A u \in Threads : pc'[u] \in CallStages
        /\ \A i \in Engines : pc'[i] \in LoopStages
        /\ pc'[t] = "install" /\ \A y \in Scanners : y # t => pc'[y] = pc[y]
        /\ \A u \in Threads : u # t => pc'[u] = pc[u]
    BY <1>1, <1>3, <2>6, PlaceType, GotoEffect DEF Scanners
  <2>8. /\ \A y \in Scanners : pc'[y] \in ScanStages =>
             pc'[y] = pc[y] /\ Target(y)' = Target(y)
        /\ \A y \in Scanners : pc'[y] = "scan" =>
             pc[y] = "scan" /\ Target(y)' = Target(y)
    BY <1>3, <2>6, <2>7, OthersScan
  <2>9. /\ b \notin quiesced /\ \A u \in Threads : /\ job[u].stop # b
                                                   /\ u # t => job[u].build # b
    BY <1>1 DEF IInv, BuildsFresh, b
  <2>10. TypeOK'
    BY <1>1, <1>3, <2>3, <2>7, <2>8, LifeType DEF TypeOK
  <2>11. JobStages' /\ ClosedEmpty'
    BY <1>1, <1>3, <2>7 DEF IInv, JobStages, ClosedEmpty, StopStages, LifeStages
  <2>12. UnusedNowhere'
    BY <1>1, <1>3, <2>3, <2>4 DEF IInv, UnusedNowhere, b
  <2>13. \A u \in Threads : Building(u)' <=> Building(u)
    BY <1>1, <1>3, <2>7 DEF Building
  <2>14. BuildsFresh'
    BY <1>1, <1>3, <2>13 DEF IInv, BuildsFresh
  <2>15. StoppedInactive'
    <3>1. \A u \in Threads : pc'[u] = "stopwait" =>
            pc[u] = "stopwait" /\ job[u].stop \in Engines
      BY <1>1, <2>7 DEF IInv, JobStages, TypeOK, Jobs, StopStages
    <3> QED
      BY <1>3, <2>4, <2>9, <3>1 DEF IInv, StoppedInactive
  <2>16. ScansCovered' /\ Quiet'
    <3>1. \A u \in Threads : pc[u] = "stopwait" =>
            pc'[u] = "stopwait" /\ job'[u].stop = job[u].stop
      BY <1>1, <1>3, <2>7
    <3>2. \A j \in quiesced : ~eng'[j].active
      BY <1>1, <2>4, <2>9 DEF IInv, Quiet, TypeOK
    <3> QED
      BY <1>1, <2>5, <2>8, <3>1, <3>2, ScansCoveredKept, QuietKept
  <2>17. Orderly'
    <3> SUFFICES ASSUME ~overlapped
                 PROVE  OneCall' /\ BuildAlone' /\ InstalledAlone' /\ ActiveKnown'
      BY <1>1 DEF Orderly
    <3>1. OneCall /\ BuildAlone /\ InstalledAlone /\ ActiveKnown
      BY DEF IInv, Orderly
    <3>2. OneCall' /\ InstalledAlone'
      BY <1>1, <1>3, <2>3, <3>1 DEF OneCall, InstalledAlone, TypeOK
    <3>3. BuildAlone'
      <4>1. \A u \in Threads : Building(u) => job[u].build \in Engines
        BY <1>1 DEF Building, TypeOK, Jobs
      <4> QED
        BY <1>1, <1>3, <2>3, <2>13, <3>1, <4>1 DEF BuildAlone
    <3>4. ActiveKnown'
      BY <1>1, <1>3, <2>4, <2>7, <3>1 DEF ActiveKnown, b
    <3> QED
      BY <3>2, <3>3, <3>4
  <2> QED
    BY <2>10, <2>11, <2>12, <2>14, <2>15, <2>16, <2>17 DEF IInv
<1> QED
  BY <1>2, <1>3 DEF Build

LEMMA InstallNext ==
  ASSUME IInv, NEW t \in Threads, Install(t)
  PROVE  IInv'
<1> DEFINE b == job[t].build
<1>1. /\ TypeOK /\ t \in Scanners /\ t \notin Engines /\ pc[t] = "install"
      /\ b \in Engines /\ None \notin Engines /\ job[t].stop = None
      /\ eng' = eng /\ scanMu' = scanMu /\ quiesced' = quiesced
      /\ overlapped' = overlapped /\ closed' = closed /\ dir' = dir
  BY DisjointAssumption
  DEF IInv, Install, Scanners, JobStages, TypeOK, Jobs, StopStages, fields
<1>2. /\ Building(t) /\ b # None /\ b \notin quiesced
      /\ \A u \in Threads : /\ job[u].stop # b /\ job[u].target # b
                            /\ u # t => job[u].build # b
      /\ \A u \in Threads : u # t => (Building(u) => job[u].build # b)
  BY <1>1 DEF Building, IInv, BuildsFresh
<1> HIDE DEF b
<1>3. b = job[t].build
  BY DEF b
<1>4. CASE closed
  <2>1. /\ Goto(t, "stop") /\ SetJob(t, [NoJob EXCEPT !.stop = b])
        /\ engine' = engine /\ store' = store
    BY <1>4 DEF Install, b, fields
  <2>2. [NoJob EXCEPT !.stop = b] \in Jobs
    BY <1>1, NoJobType, JobExcept
  <2>3. /\ job'[t] = [NoJob EXCEPT !.stop = b] /\ job' \in [Threads -> Jobs]
        /\ \A u \in Threads : u # t => job'[u] = job[u]
    BY <1>1, <2>1, <2>2, SetJobEffect, JobType
  <2>4. /\ job'[t].stop = b /\ job'[t].build = None /\ job'[t].target = None
        /\ \A u \in Threads : u # t => job'[u] = job[u]
    BY <2>3 DEF NoJob
  <2>5. "stop" \in CallStages /\ "stop" \notin ScanStages
    BY DEF CallStages, LifeStages, ScanStages
  <2>6. /\ pc' \in [Scanners -> CallStages \cup LoopStages]
        /\ \A u \in Threads : pc'[u] \in CallStages
        /\ \A i \in Engines : pc'[i] \in LoopStages
        /\ pc'[t] = "stop" /\ \A y \in Scanners : y # t => pc'[y] = pc[y]
        /\ \A u \in Threads : u # t => pc'[u] = pc[u]
    BY <1>1, <2>1, <2>5, PlaceType, GotoEffect DEF Scanners
  <2>7. /\ \A y \in Scanners : pc'[y] \in ScanStages =>
             pc'[y] = pc[y] /\ Target(y)' = Target(y)
        /\ \A y \in Scanners : pc'[y] = "scan" =>
             pc[y] = "scan" /\ Target(y)' = Target(y)
    BY <2>3, <2>5, <2>6, OthersScan
  <2>8. TypeOK'
    BY <1>1, <2>1, <2>3, <2>6, <2>7, LifeType DEF TypeOK
  <2>9. JobStages' /\ ClosedEmpty'
    BY <1>1, <1>2, <2>1, <2>4, <2>6
    DEF IInv, JobStages, ClosedEmpty, StopStages, LifeStages
  <2>10. UnusedNowhere'
    BY <1>1, <1>3, <2>1, <2>4 DEF IInv, UnusedNowhere
  <2>11. \A u \in Threads : Building(u)' => u # t /\ Building(u)
    BY <2>4, <2>6 DEF Building
  <2>12. BuildsFresh'
    <3> SUFFICES ASSUME NEW v \in Threads, v # t, Building(v)
                 PROVE  LET c == job[v].build IN
                        /\ c # engine /\ c # store /\ c \notin quiesced
                        /\ \A u \in Threads :
                             /\ job'[u].stop # c /\ job'[u].target # c
                             /\ u # v => job'[u].build # c
      BY <1>1, <2>1, <2>3, <2>11 DEF BuildsFresh
    <3> QED
      BY <1>2, <2>4 DEF IInv, BuildsFresh, Building
  <2>13. StoppedInactive'
    BY <1>1, <2>3, <2>6 DEF IInv, StoppedInactive
  <2>14. ScansCovered' /\ Quiet'
    <3>1. \A u \in Threads : pc[u] = "stopwait" =>
            pc'[u] = "stopwait" /\ job'[u].stop = job[u].stop
      BY <1>1, <2>3, <2>6
    <3> QED
      BY <1>1, <2>7, <3>1, ScansCoveredKept, QuietKept DEF IInv, Quiet
  <2>15. Orderly'
    <3> SUFFICES ASSUME ~overlapped
                 PROVE  OneCall' /\ BuildAlone' /\ InstalledAlone' /\ ActiveKnown'
      BY <1>1 DEF Orderly
    <3>1. OneCall /\ BuildAlone /\ InstalledAlone /\ ActiveKnown
      BY DEF IInv, Orderly
    <3>2. /\ engine = None /\ store = None
          /\ \A u \in Threads : u # t => job[u].stop = None /\ job[u].build = None
      BY <1>2, <1>3, <3>1 DEF BuildAlone, OneCall
    <3>3. OneCall'
      BY <2>4, <3>2 DEF OneCall
    <3>4. BuildAlone' /\ InstalledAlone'
      BY <2>1, <2>11, <3>2 DEF BuildAlone, InstalledAlone, Building
    <3>5. ActiveKnown'
      BY <1>1, <1>3, <2>1, <2>4, <2>6, <3>1, <3>2 DEF ActiveKnown
    <3> QED
      BY <3>3, <3>4, <3>5
  <2> QED
    BY <2>8, <2>9, <2>10, <2>12, <2>13, <2>14, <2>15 DEF IInv
<1>5. CASE ~closed
  <2>1. Goto(t, "start") /\ engine' = b /\ store' = b /\ job' = job
    BY <1>5 DEF Install, b
  <2>2. "start" \in CallStages /\ "start" \notin ScanStages
    BY DEF CallStages, LifeStages, ScanStages
  <2>3. /\ pc' \in [Scanners -> CallStages \cup LoopStages]
        /\ \A u \in Threads : pc'[u] \in CallStages
        /\ \A i \in Engines : pc'[i] \in LoopStages
        /\ pc'[t] = "start" /\ \A y \in Scanners : y # t => pc'[y] = pc[y]
        /\ \A u \in Threads : u # t => pc'[u] = pc[u]
    BY <1>1, <2>1, <2>2, PlaceType, GotoEffect DEF Scanners
  <2>4. /\ \A y \in Scanners : pc'[y] \in ScanStages =>
             pc'[y] = pc[y] /\ Target(y)' = Target(y)
        /\ \A y \in Scanners : pc'[y] = "scan" =>
             pc[y] = "scan" /\ Target(y)' = Target(y)
    BY <2>1, <2>2, <2>3, OthersScan
  <2>5. TypeOK'
    BY <1>1, <2>1, <2>3, <2>4, LifeType DEF TypeOK
  <2>6. JobStages' /\ ClosedEmpty'
    BY <1>1, <1>5, <2>1, <2>3
    DEF IInv, JobStages, ClosedEmpty, StopStages, LifeStages
  <2>7. UnusedNowhere'
    BY <1>1, <1>3, <2>1 DEF IInv, UnusedNowhere
  <2>8. \A u \in Threads : Building(u)' => u # t /\ Building(u)
    BY <2>1, <2>3 DEF Building
  <2>9. BuildsFresh'
    BY <1>1, <1>2, <2>1, <2>8 DEF IInv, BuildsFresh
  <2>10. StoppedInactive'
    BY <1>1, <2>1, <2>3 DEF IInv, StoppedInactive
  <2>11. ScansCovered' /\ Quiet'
    <3>1. \A u \in Threads : pc[u] = "stopwait" =>
            pc'[u] = "stopwait" /\ job'[u].stop = job[u].stop
      BY <1>1, <2>1, <2>3
    <3> QED
      BY <1>1, <2>4, <3>1, ScansCoveredKept, QuietKept DEF IInv, Quiet
  <2>12. Orderly'
    <3> SUFFICES ASSUME ~overlapped
                 PROVE  OneCall' /\ BuildAlone' /\ InstalledAlone' /\ ActiveKnown'
      BY <1>1 DEF Orderly
    <3>1. OneCall /\ BuildAlone /\ InstalledAlone /\ ActiveKnown
      BY DEF IInv, Orderly
    <3>2. /\ engine = None /\ eng[b].dir = dir
          /\ \A u \in Threads : u # t => job[u].stop = None /\ job[u].build = None
      BY <1>2, <1>3, <3>1 DEF BuildAlone, OneCall
    <3>3. OneCall' /\ InstalledAlone'
      BY <1>1, <2>1, <3>1, <3>2 DEF OneCall, InstalledAlone
    <3>4. BuildAlone'
      BY <2>8, <3>2 DEF BuildAlone, Building
    <3>5. ActiveKnown'
      BY <1>1, <1>3, <2>1, <2>3, <3>1, <3>2 DEF ActiveKnown
    <3> QED
      BY <3>3, <3>4, <3>5
  <2> QED
    BY <2>5, <2>6, <2>7, <2>9, <2>10, <2>11, <2>12 DEF IInv
<1> QED
  BY <1>4, <1>5

-----------------------------------------------------------------------------
(* The invariant and what follows from it.                                 *)

LEMMA StutterNext ==
  ASSUME IInv, UNCHANGED vars
  PROVE  IInv'
<1>1. /\ closed' = closed /\ dir' = dir /\ engine' = engine /\ store' = store
      /\ eng' = eng /\ scanMu' = scanMu /\ pc' = pc /\ job' = job
      /\ quiesced' = quiesced /\ overlapped' = overlapped
  BY DEF vars, fields
<1>2. \A x \in Scanners : Target(x)' = Target(x)
  BY <1>1 DEF Target
<1>3. Reads
  BY <1>1 DEF Reads, fields
<1>4. TypeOK'
  BY <1>1, <1>2 DEF IInv, TypeOK
<1>5. ScansCovered' /\ Quiet'
  BY <1>1, <1>2, ScansCoveredKept, QuietKept DEF IInv, Quiet
<1> QED
  BY <1>3, <1>4, <1>5, ReadsKeep DEF IInv

LEMMA NextInvariant ==
  ASSUME IInv, [Next]_vars
  PROVE  IInv'
<1>1. ASSUME NEW t \in Threads, CallStep(t)
      PROVE  IInv'
  BY <1>1, BuildNext, InstallNext, StartNext, StopSwapNext, StopDoneNext,
     QueryUsesNext, QueryReturnsNext DEF CallStep
<1>2. ASSUME NEW x \in Scanners, ScanStep(x)
      PROVE  IInv'
  BY <1>2, ScanCheckNext, ScanLockNext, ScanRecheckNext, ScanEndNext
  DEF ScanStep
<1> QED
  BY <1>1, <1>2, LifecycleNext, ShutdownNext, ManualScanNext, QueryChecksNext,
     StopWaitNext, TickNext, LoopExitNext, StutterNext DEF Next

\* The conjunction is inductive, with every order of calls, overlapping ones
\* included.
THEOREM Invariance == Spec => []IInv
BY InitHolds, NextInvariant, PTL DEF Spec

\* Types; whoever is past TryLock holds the scan lock of its engine.
THEOREM TypeCorrect == Spec => []TypeOK
<1>1. IInv => TypeOK
  BY DEF IInv
<1> QED
  BY <1>1, Invariance, PTL

\* An engine whose Stop passed the scan lock is not scanned and will not be.
THEOREM QuietAfterStopHolds == Spec => []QuietAfterStop
<1>1. IInv => QuietAfterStop
  BY DEF IInv, Quiet, QuietAfterStop
<1> QED
  BY <1>1, Invariance, PTL

\* An engine that scans or is able to is known to be stopped, installed, or
\* about to be.
LEMMA AblePlaced ==
  ASSUME IInv, ~overlapped, NEW i \in Engines, eng[i].active \/ Scans(i)
  PROVE  \/ engine = i
         \/ \E t \in Threads : pc[t] \in StopStages /\ job[t].stop = i
         \/ \E t \in Threads : pc[t] = "install" /\ job[t].build = i
<1>1. \/ eng[i].active
      \/ \E t \in Threads : pc[t] = "stopwait" /\ job[t].stop = i
  BY DEF IInv, ScansCovered, Scans
<1> QED
  BY <1>1 DEF IInv, Orderly, ActiveKnown, StopStages

\* There is one such engine at most.
LEMMA AbleAlone ==
  ASSUME IInv, ~overlapped, NEW i \in Engines, NEW j \in Engines,
         eng[i].active \/ Scans(i), eng[j].active \/ Scans(j)
  PROVE  i = j
<1>1. OneCall /\ BuildAlone /\ InstalledAlone /\ JobStages /\ None \notin Engines
  BY DisjointAssumption DEF IInv, Orderly
<1>2. ASSUME NEW t \in Threads, pc[t] = "install", job[t].build \in Engines
      PROVE  /\ engine = None /\ \A u \in Threads : job[u].stop = None
             /\ \A u \in Threads : u # t => job[u].build = None
  BY <1>1, <1>2 DEF BuildAlone, Building, OneCall, JobStages, StopStages
<1>3. \/ engine = i
      \/ \E t \in Threads : pc[t] \in StopStages /\ job[t].stop = i
      \/ \E t \in Threads : pc[t] = "install" /\ job[t].build = i
  BY AblePlaced
<1>4. \/ engine = j
      \/ \E t \in Threads : pc[t] \in StopStages /\ job[t].stop = j
      \/ \E t \in Threads : pc[t] = "install" /\ job[t].build = j
  BY AblePlaced
<1>5. CASE engine = i
  BY <1>1, <1>2, <1>4, <1>5 DEF InstalledAlone
<1>6. CASE \E t \in Threads : pc[t] \in StopStages /\ job[t].stop = i
  BY <1>1, <1>2, <1>4, <1>6 DEF InstalledAlone, OneCall
<1>7. CASE \E t \in Threads : pc[t] = "install" /\ job[t].build = i
  BY <1>1, <1>2, <1>4, <1>7
<1> QED
  BY <1>3, <1>5, <1>6, <1>7

\* Two engines never scan the one state directory at the same time.
THEOREM OneEngineScansHolds == Spec => []OneEngineScans
<1>1. IInv => OneEngineScans
  BY AbleAlone DEF OneEngineScans
<1> QED
  BY <1>1, Invariance, PTL

\* Between lifecycle calls an engine that is able to scan is the one Shutdown
\* and the next lifecycle call will find.
THEOREM NoLeakedEngineHolds == Spec => []NoLeakedEngine
<1>1. IInv => NoLeakedEngine
  BY DEF IInv, Orderly, ActiveKnown, NoLeakedEngine, LifeCallRuns, LifeStages
<1> QED
  BY <1>1, Invariance, PTL

\* After Shutdown nothing scans and nothing is able to.
THEOREM ShutdownStopsHolds == Spec => []ShutdownStops
<1>1. IInv => ShutdownStops
  <2> SUFFICES ASSUME IInv, ~overlapped, ~LifeCallRuns, closed,
                      NEW i \in Engines
               PROVE  ~eng[i].active /\ ~Scans(i)
    BY DEF ShutdownStops
  <2>1. engine # i
    BY DisjointAssumption DEF IInv, ClosedEmpty
  <2> QED
    BY <2>1, AblePlaced
    DEF IInv, Orderly, ActiveKnown, LifeCallRuns, LifeStages, StopStages
<1> QED
  BY <1>1, Invariance, PTL

\* What calls are served from is what the shown configuration names.
THEOREM ServedMatchesConfigHolds == Spec => []ServedMatchesConfig
<1>1. IInv => ServedMatchesConfig
  BY DEF IInv, Orderly, InstalledAlone, ServedMatchesConfig
<1> QED
  BY <1>1, Invariance, PTL

-----------------------------------------------------------------------------
(* The runtime implements the lease of the state directory.                *)

Active == {i \in Engines : eng[i].active}

Scanning ==
  {r \in Scanners \X Engines : pc[r[1]] = "scan" /\ Target(r[1]) = r[2]}

\* No scan begins, and those that go on are of the same engine.
NoNewScan ==
  \A y \in Scanners : pc'[y] = "scan" => pc[y] = "scan" /\ Target(y)' = Target(y)

\* A scan that runs has the scan lock of its engine, and that engine to itself.
LEMMA OneScan ==
  ASSUME IInv, ~overlapped, NEW x \in Scanners, NEW y \in Scanners,
         pc[x] = "scan", pc[y] = "scan"
  PROVE  x = y
<1>1. Target(x) \in Engines /\ Target(y) \in Engines
  BY TargetType DEF IInv, ScanStages
<1>2. Scans(Target(x)) /\ Scans(Target(y))
  BY DEF Scans
<1>3. Target(x) = Target(y)
  BY <1>1, <1>2, AbleAlone
<1> QED
  BY <1>3 DEF IInv, TypeOK

\* A step of one caller to somewhere that is not a scan begins none.
LEMMA QuietMove ==
  ASSUME TypeOK, NEW x \in Scanners,
         \/ \E stage : /\ stage # "scan" /\ Goto(x, stage)
                       /\ UNCHANGED job \/ (x \in Threads /\ \E j : SetJob(x, j))
         \/ x \in Threads /\ (Return(x) \/ AfterStop(x))
         \/ Leave(x)
  PROVE  NoNewScan
<1>1. /\ pc'[x] # "scan"
      /\ \A y \in Scanners : y # x => pc'[y] = pc[y]
      /\ \A u \in Threads : u # x => job'[u] = job[u]
  <2>1. CASE \E stage :
               /\ stage # "scan" /\ Goto(x, stage)
               /\ UNCHANGED job \/ (x \in Threads /\ \E j : SetJob(x, j))
    BY <2>1, GotoEffect, SetJobEffect
  <2>2. CASE x \in Threads /\ Return(x)
    BY <2>2, ReturnEffect
  <2>3. CASE x \in Threads /\ AfterStop(x)
    BY <2>3, AfterStopEffect
  <2>4. CASE Leave(x)
    BY <2>4, LeaveEffect
  <2> QED
    BY <2>1, <2>2, <2>3, <2>4
<1> QED
  BY <1>1 DEF NoNewScan, Target, Scanners

\* What the steps of the lease say of the engines that are active and the scans
\* that run.
LEMMA LeaseActions ==
  /\ (Active' = Active /\ Scanning' = Scanning) => UNCHANGED Lease!vars
  /\ \A i \in Engines :
       /\ Active = {} /\ Scanning = {} /\ Active' = {i} /\ Scanning' = Scanning
            => Lease!Next
       /\ i \in Active /\ Active' = Active \ {i} /\ Scanning' = Scanning
            => Lease!Next
  /\ \A x \in Scanners, i \in Engines :
       i \in Active /\ Scanning = {} /\ Scanning' = {<<x, i>>}
         /\ Active' = Active => Lease!Next
  /\ Scanning # {} /\ Scanning' = {} /\ Active' = Active => Lease!Next
BY DEF Lease!vars, Lease!Next, Lease!Activate, Lease!Stop, Lease!Begin,
   Lease!End, Active, Scanning

LEMMA ScanningMembers ==
  /\ \A r : r \in Scanning => \E x \in Scanners, i \in Engines :
       r = <<x, i>> /\ pc[x] = "scan" /\ Target(x) = i
  /\ \A x \in Scanners, i \in Engines :
       <<x, i>> \in Scanning <=> pc[x] = "scan" /\ Target(x) = i
  /\ \A r : r \in Scanning' => \E x \in Scanners, i \in Engines :
       r = <<x, i>> /\ pc'[x] = "scan" /\ Target(x)' = i
  /\ \A x \in Scanners, i \in Engines :
       <<x, i>> \in Scanning' <=> pc'[x] = "scan" /\ Target(x)' = i
BY DEF Scanning

LEMMA ScanningFewer ==
  ASSUME IInv, ~overlapped, NoNewScan
  PROVE  Scanning' = Scanning \/ (Scanning # {} /\ Scanning' = {})
<1>1. ASSUME NEW r \in Scanning' PROVE r \in Scanning
  <2>1. PICK x \in Scanners, i \in Engines :
          r = <<x, i>> /\ pc'[x] = "scan" /\ Target(x)' = i
    BY ScanningMembers
  <2>2. pc[x] = "scan" /\ Target(x) = i
    BY <2>1 DEF NoNewScan
  <2> QED
    BY <2>1, <2>2, ScanningMembers
<1>2. ASSUME NEW r \in Scanning, NEW q \in Scanning PROVE r = q
  <2>1. PICK x \in Scanners, i \in Engines :
          r = <<x, i>> /\ pc[x] = "scan" /\ Target(x) = i
    BY ScanningMembers
  <2>2. PICK y \in Scanners, j \in Engines :
          q = <<y, j>> /\ pc[y] = "scan" /\ Target(y) = j
    BY ScanningMembers
  <2>3. x = y
    BY <2>1, <2>2, OneScan
  <2> QED
    BY <2>1, <2>2, <2>3
<1> QED
  BY <1>1, <1>2

\* A step that begins no scan and activates or stops no engine.
LEMMA LeaseSteady ==
  ASSUME IInv, ~overlapped, NoNewScan, Active' = Active
  PROVE  Lease!Next \/ UNCHANGED Lease!vars
BY ScanningFewer, LeaseActions

LEMMA LifecycleLease ==
  ASSUME IInv, ~overlapped, NEW t \in Threads, NEW reconfigure \in BOOLEAN,
         NEW d \in Dirs, NEW i \in Engines, Lifecycle(t, reconfigure, d, i)
  PROVE  Lease!Next \/ UNCHANGED Lease!vars
<1>1. TypeOK /\ t \in Scanners
  BY DEF IInv, Scanners
<1>2. NoNewScan
  <2>1. PICK stage : stage # "scan" /\ Goto(t, stage)
    BY DEF Lifecycle
  <2>2. \E j : SetJob(t, j)
    BY DEF Lifecycle
  <2> QED
    BY <1>1, <2>1, <2>2, QuietMove
<1>3. \A j \in Engines : eng'[j].active <=> eng[j].active
  <2> DEFINE q == [eng[i] EXCEPT !.used = TRUE, !.dir = d]
  <2>1. eng[i] \in EngineStates /\ eng \in [Engines -> EngineStates]
    BY <1>1 DEF TypeOK
  <2>2. q.active <=> eng[i].active
    BY <2>1, EngineUsed
  <2>3. eng' = [eng EXCEPT ![i] = q]
    BY DEF Lifecycle
  <2> HIDE DEF q
  <2> QED
    BY <2>1, <2>2, <2>3
<1>4. Active' = Active
  BY <1>3 DEF Active
<1> QED
  BY <1>2, <1>4, LeaseSteady

LEMMA BuildLease ==
  ASSUME IInv, ~overlapped, NEW t \in Threads, Build(t)
  PROVE  Lease!Next \/ UNCHANGED Lease!vars
<1>1. PICK b \in Engines : b = job[t].build
  BY DEF IInv, Build, JobStages, TypeOK, Jobs
<1>2. /\ TypeOK /\ t \in Scanners /\ pc[t] = "build" /\ Building(t)
      /\ eng \in [Engines -> EngineStates] /\ None \notin Engines
  BY <1>1, DisjointAssumption DEF Build, IInv, Scanners, TypeOK, Building
<1>3. CASE Return(t) /\ UNCHANGED eng
  <2>1. NoNewScan
    BY <1>2, <1>3, QuietMove
  <2>2. Active' = Active
    BY <1>3 DEF Active
  <2> QED
    BY <2>1, <2>2, LeaseSteady
<1>4. ASSUME NEW usable \in BOOLEAN,
             eng' = [eng EXCEPT ![b].active = TRUE, ![b].usable = usable],
             Goto(t, "install"), UNCHANGED job
      PROVE  Lease!Next
  <2>1. /\ engine = None /\ job[t].stop = None
        /\ \A u \in Threads :
             u # t => job[u].stop = None /\ job[u].build = None
    BY <1>1, <1>2 DEF IInv, Orderly, BuildAlone, OneCall, JobStages, StopStages
  <2>2. \A j \in Engines : ~eng[j].active /\ ~Scans(j)
    <3> SUFFICES ASSUME NEW j \in Engines, eng[j].active \/ Scans(j)
                 PROVE  FALSE
      OBVIOUS
    <3>1. \/ engine = j
          \/ \E u \in Threads : pc[u] \in StopStages /\ job[u].stop = j
          \/ \E u \in Threads : pc[u] = "install" /\ job[u].build = j
      BY AblePlaced
    <3> QED
      BY <1>2, <2>1, <3>1
  <2>3. Active = {} /\ Scanning = {}
    BY <2>2, ScanningMembers DEF Active, Scans
  <2>4. \A j \in Engines : eng'[j].active <=> j = b
    <3> DEFINE q == [eng[b] EXCEPT !.active = TRUE, !.usable = usable]
    <3>1. q.active
      BY <1>2, EngineBuilt
    <3>2. eng' = [eng EXCEPT ![b] = q]
      BY <1>4
    <3> HIDE DEF q
    <3> QED
      BY <1>2, <2>2, <3>1, <3>2
  <2>5. Active' = {b}
    BY <2>4 DEF Active
  <2>6. NoNewScan
    BY <1>2, <1>4, QuietMove
  <2>7. Scanning' = Scanning
    BY <2>3, <2>6, ScanningFewer
  <2> QED
    BY <2>3, <2>5, <2>7, LeaseActions
<1> QED
  BY <1>1, <1>3, <1>4 DEF Build

LEMMA StopSwapLease ==
  ASSUME IInv, ~overlapped, NEW t \in Threads, StopSwap(t)
  PROVE  Lease!Next \/ UNCHANGED Lease!vars
<1>1. PICK i \in Engines : i = job[t].stop
  BY DEF IInv, StopSwap, JobStages, StopStages, TypeOK, Jobs
<1>2. /\ TypeOK /\ t \in Scanners /\ pc[t] = "stop"
      /\ eng \in [Engines -> EngineStates]
  BY DEF StopSwap, IInv, Scanners, TypeOK
<1>3. CASE ~eng[i].active
  <2>1. AfterStop(t) /\ UNCHANGED eng
    BY <1>1, <1>3 DEF StopSwap
  <2>2. NoNewScan /\ Active' = Active
    BY <1>2, <2>1, QuietMove DEF Active
  <2> QED
    BY <2>2, LeaseSteady
<1>4. CASE eng[i].active
  <2>1. /\ eng' = [eng EXCEPT ![i].active = FALSE, ![i].cancelled = TRUE]
        /\ Goto(t, "stopwait") /\ job' = job
    BY <1>1, <1>4 DEF StopSwap
  <2>2. \A j \in Engines : eng'[j].active <=> eng[j].active /\ j # i
    <3> DEFINE q == [eng[i] EXCEPT !.active = FALSE, !.cancelled = TRUE]
    <3>1. ~q.active
      BY <1>2, EngineStopped
    <3>2. eng' = [eng EXCEPT ![i] = q]
      BY <2>1
    <3> HIDE DEF q
    <3> QED
      BY <1>2, <3>1, <3>2
  <2>3. i \in Active /\ Active' = Active \ {i}
    BY <1>4, <2>2 DEF Active
  <2>4. \A y \in Scanners : /\ pc'[y] = "scan" <=> pc[y] = "scan"
                            /\ Target(y)' = Target(y)
    BY <1>2, <2>1, GotoEffect DEF Target
  <2>5. Scanning' = Scanning
    BY <2>4 DEF Scanning
  <2> QED
    BY <2>3, <2>5, LeaseActions
<1> QED
  BY <1>3, <1>4

LEMMA StartLease ==
  ASSUME IInv, ~overlapped, NEW t \in Threads, Start(t)
  PROVE  Lease!Next \/ UNCHANGED Lease!vars
<1>1. PICK i \in Engines : i = job[t].build
  BY DEF IInv, Start, JobStages, TypeOK, Jobs
<1>2. /\ TypeOK /\ t \in Scanners /\ i \in Scanners /\ SetJob(t, NoJob)
      /\ eng \in [Engines -> EngineStates]
      /\ pc \in [Scanners -> CallStages \cup LoopStages]
  BY DEF Start, IInv, Scanners, TypeOK
<1>3. CASE eng[i].usable /\ ~eng[i].started
  <2>1. /\ eng' = [eng EXCEPT ![i].started = TRUE]
        /\ pc' = [pc EXCEPT ![t] = "idle", ![i] = "select"]
    BY <1>1, <1>3 DEF Start
  <2>2. \A j \in Engines : eng'[j].active <=> eng[j].active
    <3> DEFINE q == [eng[i] EXCEPT !.started = TRUE]
    <3>1. q.active <=> eng[i].active
      BY <1>2, EngineStarted
    <3>2. eng' = [eng EXCEPT ![i] = q]
      BY <2>1
    <3> HIDE DEF q
    <3> QED
      BY <1>2, <3>1, <3>2
  <2>3. NoNewScan
    <3>1. \A y \in Scanners : pc'[y] = "scan" => pc[y] = "scan" /\ y # t
      BY <1>2, <2>1
    <3>2. \A u \in Threads : u # t => job'[u] = job[u]
      BY <1>2, SetJobEffect
    <3> QED
      BY <3>1, <3>2 DEF NoNewScan, Target, Scanners
  <2>4. Active' = Active
    BY <2>2 DEF Active
  <2> QED
    BY <2>3, <2>4, LeaseSteady
<1>4. CASE ~(eng[i].usable /\ ~eng[i].started)
  <2>1. eng' = eng /\ Goto(t, "idle")
    BY <1>1, <1>4 DEF Start
  <2>2. NoNewScan
    BY <1>2, <2>1, QuietMove
  <2>3. Active' = Active
    BY <2>1 DEF Active
  <2> QED
    BY <2>2, <2>3, LeaseSteady
<1> QED
  BY <1>3, <1>4

\* The other steps of a call.
LEMMA CallLease ==
  ASSUME IInv, ~overlapped, NEW t \in Threads,
         \/ Install(t) \/ StopWait(t) \/ StopDone(t) \/ Shutdown(t)
         \/ ManualScan(t) \/ QueryChecks(t) \/ QueryUses(t) \/ QueryReturns(t)
  PROVE  Lease!Next \/ UNCHANGED Lease!vars
<1>1. TypeOK /\ t \in Scanners
  BY DEF IInv, Scanners
<1>2. Active' = Active
  BY DEF Install, StopWait, StopDone, Shutdown, ManualScan, QueryChecks,
     QueryUses, QueryReturns, Active
<1>4. CASE Install(t)
  BY <1>1, <1>2, <1>4, QuietMove, LeaseSteady DEF Install
<1>5. CASE StopWait(t) \/ StopDone(t)
  BY <1>1, <1>2, <1>5, QuietMove, LeaseSteady DEF StopWait, StopDone
<1>6. CASE Shutdown(t)
  <2>1. CASE engine = None
    <3>1. UNCHANGED <<pc, job>>
      BY <1>6, <2>1 DEF Shutdown
    <3>2. NoNewScan
      BY <3>1 DEF NoNewScan, Target
    <3> QED
      BY <1>2, <3>2, LeaseSteady
  <2>2. CASE engine # None
    BY <1>1, <1>2, <1>6, <2>2, QuietMove, LeaseSteady DEF Shutdown
  <2> QED
    BY <2>1, <2>2
<1>7. CASE ManualScan(t) \/ QueryChecks(t) \/ QueryUses(t) \/ QueryReturns(t)
  BY <1>1, <1>2, <1>7, QuietMove, LeaseSteady
  DEF ManualScan, QueryChecks, QueryUses, QueryReturns
<1> QED
  BY <1>4, <1>5, <1>6, <1>7

LEMMA ScanLease ==
  ASSUME IInv, ~overlapped, NEW x \in Scanners, ScanStep(x)
  PROVE  Lease!Next \/ UNCHANGED Lease!vars
<1>1. TypeOK
  BY DEF IInv
<1>2. Active' = Active
  BY DEF ScanStep, ScanCheck, ScanLock, ScanRecheck, ScanEnd, Active
<1>3. CASE ScanCheck(x) \/ ScanLock(x) \/ ScanEnd(x) \/ Leave(x)
  BY <1>1, <1>2, <1>3, QuietMove, LeaseSteady DEF ScanCheck, ScanLock, ScanEnd
<1>4. CASE /\ ScanRecheck(x) /\ Goto(x, "scan") /\ UNCHANGED <<scanMu, job>>
           /\ eng[Target(x)].active
  <2>1. PICK i \in Engines : i = Target(x)
    BY <1>1, <1>4, TargetType DEF ScanRecheck, ScanStages
  <2>2. pc[x] = "recheck" /\ scanMu[i] = x /\ i \in Active
    BY <1>1, <1>4, <2>1 DEF ScanRecheck, TypeOK, Active
  <2>3. \A y \in Scanners : pc[y] # "scan"
    <3> SUFFICES ASSUME NEW y \in Scanners, pc[y] = "scan" PROVE FALSE
      OBVIOUS
    <3>1. Target(y) \in Engines /\ Scans(Target(y)) /\ scanMu[Target(y)] = y
      BY <1>1, TargetType DEF ScanStages, Scans, TypeOK
    <3>2. Target(y) = i
      BY <1>4, <2>1, <3>1, AbleAlone
    <3> QED
      BY <2>2, <3>1, <3>2
  <2>4. Scanning = {}
    BY <2>3, ScanningMembers
  <2>5. \A y \in Scanners : /\ pc'[y] = "scan" <=> y = x
                            /\ Target(y)' = Target(y)
    BY <1>1, <1>4, <2>3, GotoEffect DEF Target
  <2>6. Scanning' = {<<x, i>>}
    BY <2>1, <2>5 DEF Scanning
  <2> QED
    BY <1>2, <2>2, <2>4, <2>6, LeaseActions
<1> QED
  BY <1>3, <1>4 DEF ScanStep, ScanRecheck

LEMMA LoopLease ==
  ASSUME IInv, ~overlapped, NEW i \in Engines, Tick(i) \/ LoopExit(i)
  PROVE  Lease!Next \/ UNCHANGED Lease!vars
<1>1. TypeOK /\ i \in Scanners
  BY DEF IInv, Scanners
<1>2. Active' = Active
  BY DEF Tick, LoopExit, Active
<1> QED
  BY <1>1, <1>2, QuietMove, LeaseSteady DEF Tick, LoopExit

\* The runtime gives its engines the state directory one after the other, until
\* the host overlaps lifecycle calls.
THEOREM ImplementsLease == Spec => LeaseSpec
<1>1. Init => Lease!Init
  BY DEF Init, Lease!Init, Unused, Scanners
<1>2. ASSUME IInv, [Next]_vars
      PROVE  [Lease!Next \/ overlapped']_(Lease!vars)
  <2>1. CASE overlapped
    <3>1. overlapped'
      BY <2>1, <1>2
      DEF Next, Lifecycle, Shutdown, ManualScan, QueryChecks, CallStep, StopWait,
          Tick, LoopExit, ScanStep, Build, Install, Start, StopSwap, StopDone,
          QueryUses, QueryReturns, ScanCheck, ScanLock, ScanRecheck, ScanEnd,
          vars
    <3> QED
      BY <3>1
  <2>2. CASE ~overlapped /\ UNCHANGED vars
    <3>1. NoNewScan /\ Active' = Active
      BY <2>2 DEF vars, NoNewScan, Target, Active
    <3> QED
      BY <1>2, <2>2, <3>1, LeaseSteady
  <2>3. CASE ~overlapped /\ Next
    BY <1>2, <2>3, LifecycleLease, BuildLease, StopSwapLease, StartLease,
       CallLease, ScanLease, LoopLease DEF Next, CallStep
  <2> QED
    BY <1>2, <2>1, <2>2, <2>3
<1> QED
  BY <1>1, <1>2, Invariance, PTL DEF Spec, LeaseSpec
==============================================================================
