-------------------------- MODULE StateStoreProofs ---------------------------
(***************************************************************************)
(* What holds of the state file for any number of Stores, goroutines and   *)
(* changes, with failures, dying processes and power loss at every step;   *)
(* and that the steps of Update implement AtomicStore.                     *)
(***************************************************************************)
EXTENDS StateStore, TLAPS

LEMMA StoreOfType == \A c \in Callers : StoreOf(c) \in Stores
BY DEF Callers, StoreOf

-----------------------------------------------------------------------------
(* The inductive invariant.                                                *)

Holding == UpdateStages \ {"lock"}
Building == {"create", "write", "sync", "rename"}

\* Who is beyond acquireFileLock has the lock file for his Store.
LockHeld == \A c \in Callers : pc[c] \in Holding => flock = StoreOf(c)

IdleAsksNothing == \A c \in Callers : pc[c] = "idle" => change[c] = None

\* What a caller builds is the file as it is, still, and his change; when he
\* has renamed it, it is the file.
TempGrows ==
  \A c \in Callers :
    /\ pc[c] \in Building => temp[c].done = file.done \cup {change[c]}
    /\ pc[c] = "finish" => file = temp[c] /\ change[c] \in file.done

\* It is complete when it is written and on the disk when it is synced.
TempSafe ==
  \A c \in Callers :
    /\ pc[c] \in {"sync", "rename"} => ~temp[c].torn
    /\ pc[c] = "rename" => temp[c].synced

\* A power loss can only take changes back.
EntriesOld == \A v \in entries : v.done \subseteq file.done

FileInv == TempGrows /\ TempSafe /\ NeverTorn /\ EntriesOld /\ AckedDurable

IInv == TypeOK /\ LockHeld /\ IdleAsksNothing /\ FileInv

\* The mutex and the lock file together: one caller of one Store.
LEMMA Exclusive ==
  ASSUME TypeOK, LockHeld, NEW c \in Callers, NEW d \in Callers,
         pc[c] \in Holding, pc[d] \in Holding
  PROVE  c = d
<1>1. StoreOf(c) = StoreOf(d)
  BY DEF LockHeld
<1>2. pc[c] \notin {"idle", "wait"} /\ pc[d] \notin {"idle", "wait"}
  BY DEF Holding, UpdateStages
<1>3. mutex[StoreOf(c)] = c /\ mutex[StoreOf(d)] = d
  BY <1>2 DEF TypeOK
<1> QED
  BY <1>1, <1>3

\* Two callers beyond the mutex of one Store are one.
LEMMA OnePerStore ==
  ASSUME TypeOK, NEW c \in Callers, NEW d \in Callers, StoreOf(c) = StoreOf(d),
         pc[c] \notin {"idle", "wait"}, pc[d] \notin {"idle", "wait"}
  PROVE  c = d
BY DEF TypeOK

-----------------------------------------------------------------------------
(* Types.                                                                  *)

LEMMA InitType == Init => TypeOK
BY DEF Init, TypeOK, Versions, NoVersion, UpdateStages

\* A step that only moves caller c from one stage beyond the mutex to another.
LEMMA MoveType ==
  ASSUME TypeOK, NEW c \in Callers, NEW stage \in UpdateStages,
         pc[c] \in UpdateStages, Goto(c, stage), UNCHANGED <<mutex, change>>,
         file' \in Versions, entries' \subseteq Versions, file' \in entries',
         flock' \in Stores \cup {None}, temp' \in [Callers -> Versions],
         acked' \in SUBSET Changes
  PROVE  TypeOK'
<1>1. pc' \in [Callers -> {"idle", "wait", "read"} \cup UpdateStages]
  BY DEF TypeOK, Goto
<1>2. \A d \in Callers :
        /\ pc'[d] \notin {"idle", "wait"} => mutex[StoreOf(d)] = d
        /\ pc'[d] \in UpdateStages => change[d] # None
  BY DEF TypeOK, Goto, UpdateStages
<1> QED
  BY <1>1, <1>2 DEF TypeOK

LEMMA ReturnType ==
  ASSUME TypeOK, NEW c \in Callers, pc[c] \notin {"idle", "wait"}, Return(c),
         file' = file, entries' \subseteq Versions, file \in entries',
         acked' \in SUBSET Changes
  PROVE  TypeOK'
<1>1. /\ pc' \in [Callers -> {"idle", "wait", "read"} \cup UpdateStages]
      /\ change' \in [Callers -> Changes \cup {None}]
      /\ temp' \in [Callers -> Versions]
      /\ mutex' \in [Stores -> Callers \cup {None}]
      /\ flock' \in Stores \cup {None}
  BY DEF TypeOK, Return, Goto, Versions, NoVersion
<1>2. ASSUME NEW d \in Callers, pc'[d] \notin {"idle", "wait"}
      PROVE  mutex'[StoreOf(d)] = d /\ (pc'[d] \in UpdateStages => change'[d] # None)
  <2>1. d # c /\ pc'[d] = pc[d] /\ change'[d] = change[d]
    BY <1>2 DEF Return, Goto, TypeOK
  <2>2. StoreOf(d) # StoreOf(c)
    BY <1>2, <2>1, OnePerStore
  <2>3. mutex'[StoreOf(d)] = mutex[StoreOf(d)]
    BY <2>2, StoreOfType DEF Return, TypeOK
  <2> QED
    BY <1>2, <2>1, <2>3 DEF TypeOK
<1>3. \A d \in Callers : pc'[d] \in UpdateStages => pc'[d] \notin {"idle", "wait"}
  BY DEF UpdateStages
<1> QED
  BY <1>1, <1>2, <1>3 DEF TypeOK

LEMMA TakeMutexType ==
  ASSUME TypeOK, NEW c \in Callers, TakeMutex(c)
  PROVE  TypeOK'
<1>1. /\ pc' \in [Callers -> {"idle", "wait", "read"} \cup UpdateStages]
      /\ mutex' \in [Stores -> Callers \cup {None}]
  BY StoreOfType DEF TypeOK, TakeMutex, Goto, UpdateStages
<1>2. ASSUME NEW d \in Callers, pc'[d] \notin {"idle", "wait"}
      PROVE  mutex'[StoreOf(d)] = d
  <2>1. CASE d = c
    BY <2>1, StoreOfType DEF TakeMutex, TypeOK
  <2>2. CASE d # c
    <3>1. mutex[StoreOf(d)] = d
      BY <1>2, <2>2 DEF TakeMutex, Goto, TypeOK
    <3>2. StoreOf(d) # StoreOf(c)
      BY <3>1, NoneAssumption DEF TakeMutex
    <3> QED
      BY <3>1, <3>2, StoreOfType DEF TakeMutex, TypeOK
  <2> QED
    BY <2>1, <2>2
<1>3. \A d \in Callers : pc'[d] \in UpdateStages => change[d] # None
  BY DEF TakeMutex, Goto, TypeOK, UpdateStages
<1> QED
  BY <1>1, <1>2, <1>3 DEF TypeOK, TakeMutex

LEMMA CallType ==
  ASSUME TypeOK, NEW c \in Callers,
         CallLoad(c) \/ \E x \in Changes : CallUpdate(c, x)
  PROVE  TypeOK'
<1>1. /\ pc' = [pc EXCEPT ![c] = "wait"] /\ pc[c] = "idle"
      /\ change' \in [Callers -> Changes \cup {None}]
      /\ \A d \in Callers : d # c => change'[d] = change[d]
      /\ UNCHANGED <<file, entries, mutex, flock, temp, acked>>
  BY DEF CallLoad, CallUpdate, Goto, TypeOK
<1>2. pc' \in [Callers -> {"idle", "wait", "read"} \cup UpdateStages]
  BY <1>1 DEF TypeOK
<1>3. \A d \in Callers :
        /\ pc'[d] \notin {"idle", "wait"} => mutex[StoreOf(d)] = d
        /\ pc'[d] \in UpdateStages => change'[d] # None
  BY <1>1 DEF TypeOK, UpdateStages
<1> QED
  BY <1>1, <1>2, <1>3 DEF TypeOK

LEMMA CallStepType ==
  ASSUME TypeOK, NEW c \in Callers, CallStep(c)
  PROVE  TypeOK'
<1>1. CASE Read(c)
  BY <1>1, ReturnType DEF Read, TypeOK
<1>2. CASE LockFile(c)
  BY <1>2, MoveType, StoreOfType DEF LockFile, TypeOK, UpdateStages
<1>3. CASE LoadAndChange(c)
  <2>1. change[c] \in Changes
    BY <1>3 DEF LoadAndChange, TypeOK, UpdateStages
  <2>2. [done |-> file.done \cup {change[c]}, synced |-> FALSE, torn |-> TRUE]
          \in Versions
    BY <2>1 DEF TypeOK, Versions
  <2>3. temp' \in [Callers -> Versions]
    BY <1>3, <2>2 DEF LoadAndChange, TypeOK
  <2> QED
    BY <1>3, <2>3, MoveType DEF LoadAndChange, TypeOK, UpdateStages
<1>4. CASE CreateTemp(c)
  BY <1>4, MoveType DEF CreateTemp, TypeOK, UpdateStages
<1>5. CASE WriteTemp(c)
  <2>1. temp' \in [Callers -> Versions]
    BY <1>5 DEF WriteTemp, TypeOK, Versions
  <2> QED
    BY <1>5, <2>1, MoveType DEF WriteTemp, TypeOK, UpdateStages
<1>6. CASE SyncTemp(c)
  <2>1. temp' \in [Callers -> Versions]
    BY <1>6 DEF SyncTemp, TypeOK, Versions
  <2> QED
    BY <1>6, <2>1, MoveType DEF SyncTemp, TypeOK, UpdateStages
<1>7. CASE Rename(c)
  BY <1>7, MoveType DEF Rename, TypeOK, UpdateStages
<1>8. CASE Finish(c)
  <2>1. change[c] \in Changes
    BY <1>8 DEF Finish, TypeOK, UpdateStages
  <2> QED
    BY <1>8, <2>1, ReturnType DEF Finish, TypeOK
<1>9. CASE Fail(c)
  BY <1>9, ReturnType DEF Fail, TypeOK, UpdateStages
<1> QED
  BY <1>1, <1>2, <1>3, <1>4, <1>5, <1>6, <1>7, <1>8, <1>9 DEF CallStep

LEMMA CrashType ==
  ASSUME TypeOK, NEW s \in Stores, Crash(s)
  PROVE  TypeOK'
<1>1. /\ pc' \in [Callers -> {"idle", "wait", "read"} \cup UpdateStages]
      /\ change' \in [Callers -> Changes \cup {None}]
      /\ temp' \in [Callers -> Versions]
      /\ mutex' \in [Stores -> Callers \cup {None}]
      /\ flock' \in Stores \cup {None}
  BY DEF TypeOK, Crash, Versions, NoVersion
<1>2. ASSUME NEW d \in Callers
      PROVE  /\ pc'[d] \notin {"idle", "wait"} => mutex'[StoreOf(d)] = d
             /\ pc'[d] \in UpdateStages => change'[d] # None
  <2>1. CASE StoreOf(d) = s
    BY <2>1 DEF Crash, UpdateStages
  <2>2. CASE StoreOf(d) # s
    <3>1. /\ pc'[d] = pc[d] /\ change'[d] = change[d]
          /\ mutex'[StoreOf(d)] = mutex[StoreOf(d)]
      BY <2>2, StoreOfType DEF Crash, TypeOK
    <3> QED
      BY <3>1 DEF TypeOK
  <2> QED
    BY <2>1, <2>2
<1> QED
  BY <1>1, <1>2 DEF TypeOK, Crash

LEMMA PowerLossType ==
  ASSUME TypeOK, PowerLoss
  PROVE  TypeOK'
<1>1. file' \in Versions
  <2>1. PICK v \in entries :
          file' = [v EXCEPT !.torn = @ \/ ~v.synced, !.synced = TRUE]
    BY DEF PowerLoss
  <2>2. v \in Versions
    BY DEF TypeOK
  <2> QED
    BY <2>1, <2>2 DEF Versions
<1> QED
  BY <1>1 DEF PowerLoss, TypeOK, Versions, NoVersion, UpdateStages

LEMMA NextType ==
  ASSUME TypeOK, [Next]_vars
  PROVE  TypeOK'
<1>1. CASE UNCHANGED vars
  BY <1>1 DEF vars, TypeOK
<1> QED
  BY <1>1, CallType, TakeMutexType, CallStepType, CrashType, PowerLossType DEF Next

\* Types; a call beyond the mutex holds it, and only an Update goes on to the
\* lock file.
THEOREM TypeCorrect == Spec => []TypeOK
<1>1. Init => TypeOK
  BY InitType
<1>2. TypeOK /\ [Next]_vars => TypeOK'
  BY NextType
<1> QED
  BY <1>1, <1>2, PTL DEF Spec

-----------------------------------------------------------------------------
(* The file.                                                               *)

\* What Return leaves of the lock file and of the other callers.
LEMMA ReturnEffect ==
  ASSUME TypeOK, NEW c \in Callers, Return(c)
  PROVE  /\ pc'[c] = "idle" /\ change'[c] = None
         /\ \A d \in Callers : d # c =>
              pc'[d] = pc[d] /\ change'[d] = change[d] /\ temp'[d] = temp[d]
BY DEF Return, Goto, TypeOK

LEMMA LockHeldNext ==
  ASSUME TypeOK, LockHeld, [Next]_vars
  PROVE  LockHeld'
<1>1. ASSUME NEW c \in Callers, Return(c)
      PROVE  LockHeld'
  <2> SUFFICES ASSUME NEW d \in Callers, pc'[d] \in Holding
               PROVE  flock' = StoreOf(d)
    BY DEF LockHeld
  <2>1. d # c /\ pc[d] \in Holding
    BY <1>1, ReturnEffect DEF Holding, UpdateStages
  <2>2. pc[c] \notin Holding
    BY <2>1, Exclusive
  <2>3. flock' = flock
    BY <1>1, <2>2 DEF Return, Holding
  <2> QED
    BY <2>1, <2>3 DEF LockHeld
<1>2. ASSUME NEW c \in Callers, LockFile(c)
      PROVE  LockHeld'
  <2> SUFFICES ASSUME NEW d \in Callers, pc'[d] \in Holding
               PROVE  flock' = StoreOf(d)
    BY DEF LockHeld
  <2>1. CASE d = c
    BY <1>2, <2>1 DEF LockFile
  <2>2. CASE d # c
    <3>1. pc[d] \in Holding
      BY <1>2, <2>2 DEF LockFile, Goto, TypeOK
    <3>2. StoreOf(d) # None
      BY StoreOfType, NoneAssumption
    <3> QED
      BY <1>2, <3>1, <3>2 DEF LockFile, LockHeld
  <2> QED
    BY <2>1, <2>2
<1>3. ASSUME NEW c \in Callers, NEW stage, Goto(c, stage), flock' = flock,
             pc[c] \in Holding \/ stage \notin Holding
      PROVE  LockHeld'
  BY <1>3 DEF LockHeld, Goto, TypeOK
<1>4. ASSUME NEW c \in Callers, TakeMutex(c)
      PROVE  LockHeld'
  BY <1>4 DEF LockHeld, TakeMutex, Goto, TypeOK, Holding, UpdateStages
<1>5. ASSUME NEW s \in Stores, Crash(s)
      PROVE  LockHeld'
  BY <1>5 DEF LockHeld, Crash, Holding, UpdateStages
<1>6. CASE PowerLoss
  BY <1>6 DEF LockHeld, PowerLoss, Holding, UpdateStages
<1>7. CASE UNCHANGED vars
  BY <1>7 DEF vars, LockHeld
<1>8. ASSUME NEW c \in Callers, CallStep(c)
      PROVE  LockHeld'
  <2>1. CASE Read(c) \/ Finish(c) \/ Fail(c)
    BY <1>1, <2>1 DEF Read, Finish, Fail
  <2>2. CASE LockFile(c)
    BY <1>2, <2>2
  <2>3. CASE LoadAndChange(c) \/ CreateTemp(c) \/ WriteTemp(c) \/ SyncTemp(c)
             \/ Rename(c)
    <3>1. pc[c] \in Holding
      BY <2>3 DEF LoadAndChange, CreateTemp, WriteTemp, SyncTemp, Rename,
                  Holding, UpdateStages
    <3>2. \E stage : Goto(c, stage) /\ flock' = flock
      BY <2>3 DEF LoadAndChange, CreateTemp, WriteTemp, SyncTemp, Rename
    <3> QED
      BY <1>3, <3>1, <3>2
  <2> QED
    BY <1>8, <2>1, <2>2, <2>3 DEF CallStep
<1>9. ASSUME NEW c \in Callers, CallLoad(c) \/ \E x \in Changes : CallUpdate(c, x)
      PROVE  LockHeld'
  <2>1. Goto(c, "wait") /\ flock' = flock
    BY <1>9 DEF CallLoad, CallUpdate
  <2>2. "wait" \notin Holding
    BY DEF Holding, UpdateStages
  <2> QED
    BY <1>3, <2>1, <2>2
<1> QED
  BY <1>4, <1>5, <1>6, <1>7, <1>8, <1>9 DEF Next

LEMMA IdleNext ==
  ASSUME TypeOK, IdleAsksNothing, [Next]_vars
  PROVE  IdleAsksNothing'
<1>1. ASSUME NEW c \in Callers, NEW stage, Goto(c, stage), stage # "idle",
             \A d \in Callers : d # c => change'[d] = change[d]
      PROVE  IdleAsksNothing'
  BY <1>1 DEF IdleAsksNothing, Goto, TypeOK
<1>2. ASSUME NEW c \in Callers, Return(c)
      PROVE  IdleAsksNothing'
  BY <1>2, ReturnEffect DEF IdleAsksNothing
<1>3. ASSUME NEW c \in Callers, CallLoad(c) \/ \E x \in Changes : CallUpdate(c, x)
      PROVE  IdleAsksNothing'
  <2>1. /\ Goto(c, "wait")
        /\ \A d \in Callers : d # c => change'[d] = change[d]
    BY <1>3 DEF CallLoad, CallUpdate, TypeOK
  <2> QED
    BY <1>1, <2>1
<1>4. ASSUME NEW c \in Callers, TakeMutex(c)
      PROVE  IdleAsksNothing'
  BY <1>4 DEF TakeMutex, Goto, TypeOK, IdleAsksNothing
<1>5. ASSUME NEW c \in Callers, CallStep(c)
      PROVE  IdleAsksNothing'
  <2>1. CASE Read(c) \/ Finish(c) \/ Fail(c)
    BY <1>2, <2>1 DEF Read, Finish, Fail
  <2>2. CASE \E stage \in UpdateStages : Goto(c, stage) /\ change' = change
    BY <1>1, <2>2 DEF UpdateStages
  <2> QED
    BY <1>5, <2>1, <2>2 DEF CallStep, LockFile, LoadAndChange, CreateTemp,
       WriteTemp, SyncTemp, Rename, UpdateStages
<1>6. CASE UNCHANGED vars
  BY <1>6 DEF vars, IdleAsksNothing
<1>7. ASSUME NEW s \in Stores, Crash(s)
      PROVE  IdleAsksNothing'
  BY <1>7 DEF Crash, IdleAsksNothing, TypeOK
<1>8. CASE PowerLoss
  BY <1>8 DEF PowerLoss, IdleAsksNothing
<1> QED
  BY <1>3, <1>4, <1>5, <1>6, <1>7, <1>8 DEF Next

\* A step after which every caller is before the end of loadUnlocked or where
\* he was does nothing to the file.
LEMMA QuietStep ==
  ASSUME FileInv, UNCHANGED <<file, entries, acked>>,
         \A d \in Callers :
           \/ pc'[d] \in {"idle", "wait", "read", "lock", "load"}
           \/ pc'[d] = pc[d] /\ change'[d] = change[d] /\ temp'[d] = temp[d]
  PROVE  FileInv'
BY DEF FileInv, TempGrows, TempSafe, NeverTorn, EntriesOld, AckedDurable, Building

\* saveUnlocked up to the rename.
LEMMA BuildStep ==
  ASSUME TypeOK, LockHeld, FileInv, NEW c \in Callers,
         LoadAndChange(c) \/ CreateTemp(c) \/ WriteTemp(c) \/ SyncTemp(c)
  PROVE  FileInv'
<1>1. /\ UNCHANGED <<file, entries, acked, change>>
      /\ pc[c] \in {"load", "create", "write", "sync"}
      /\ pc'[c] \in Building
      /\ \A d \in Callers : d # c => pc'[d] = pc[d] /\ temp'[d] = temp[d]
  BY DEF LoadAndChange, CreateTemp, WriteTemp, SyncTemp, Goto, TypeOK, Building
<1>2. temp'[c].done = file.done \cup {change[c]}
  <2>1. CASE LoadAndChange(c)
    BY <2>1 DEF LoadAndChange, TypeOK
  <2>2. CASE CreateTemp(c) \/ WriteTemp(c) \/ SyncTemp(c)
    <3>1. temp'[c].done = temp[c].done /\ pc[c] \in Building
      BY <2>2 DEF CreateTemp, WriteTemp, SyncTemp, TypeOK, Versions, Building
    <3> QED
      BY <3>1 DEF FileInv, TempGrows
  <2> QED
    BY <2>1, <2>2
<1>3. /\ pc'[c] \in {"sync", "rename"} => ~temp'[c].torn
      /\ pc'[c] = "rename" => temp'[c].synced
  <2>1. CASE LoadAndChange(c) \/ CreateTemp(c)
    BY <2>1 DEF LoadAndChange, CreateTemp, Goto, TypeOK
  <2>2. CASE WriteTemp(c)
    BY <2>2 DEF WriteTemp, Goto, TypeOK, Versions
  <2>3. CASE SyncTemp(c)
    BY <2>3 DEF SyncTemp, Goto, TypeOK, Versions, FileInv, TempSafe
  <2> QED
    BY <2>1, <2>2, <2>3
<1>4. pc'[c] # "finish"
  BY <1>1 DEF Building
<1> QED
  BY <1>1, <1>2, <1>3, <1>4
  DEF FileInv, TempGrows, TempSafe, NeverTorn, EntriesOld, AckedDurable

\* The file is replaced by a version that contains all of it, and is on the
\* disk; nobody else is building one.
LEMMA RenameStep ==
  ASSUME TypeOK, LockHeld, FileInv, NEW c \in Callers, Rename(c)
  PROVE  FileInv'
<1>1. /\ pc[c] = "rename" /\ pc'[c] = "finish"
      /\ file' = temp[c] /\ entries' = entries \cup {temp[c]}
      /\ UNCHANGED <<change, temp, acked>>
      /\ \A d \in Callers : d # c => pc'[d] = pc[d]
  BY DEF Rename, Goto, TypeOK
<1>2. temp[c].done = file.done \cup {change[c]}
  BY <1>1 DEF FileInv, TempGrows, Building
<1>3. \A d \in Callers : d # c => pc'[d] \notin Holding
  BY <1>1, Exclusive DEF Holding, UpdateStages
<1>4. TempGrows' /\ TempSafe'
  <2>1. \A d \in Callers : d # c => pc'[d] \notin Building \cup {"finish"}
    BY <1>3 DEF Holding, UpdateStages, Building
  <2> QED
    BY <1>1, <1>2, <2>1 DEF TempGrows, TempSafe, Building
<1>5. NeverTorn'
  BY <1>1 DEF FileInv, NeverTorn, TempSafe
<1>6. EntriesOld'
  BY <1>1, <1>2 DEF FileInv, EntriesOld
<1>7. AckedDurable'
  <2>1. acked \subseteq file.done
    BY DEF FileInv, AckedDurable, TypeOK
  <2> QED
    BY <1>1, <1>2, <2>1 DEF FileInv, AckedDurable
<1> QED
  BY <1>4, <1>5, <1>6, <1>7 DEF FileInv

\* Only now is the change reported as done.
LEMMA FinishStep ==
  ASSUME TypeOK, LockHeld, FileInv, NEW c \in Callers, Finish(c)
  PROVE  FileInv'
<1>1. /\ pc[c] = "finish" /\ file' = file /\ entries' = {file}
      /\ acked' = acked \cup {change[c]} /\ pc'[c] = "idle"
      /\ \A d \in Callers : d # c =>
           pc'[d] = pc[d] /\ change'[d] = change[d] /\ temp'[d] = temp[d]
  BY ReturnEffect DEF Finish
<1>2. file \in entries /\ change[c] \in file.done
  BY <1>1 DEF FileInv, TempGrows, TypeOK
<1> QED
  BY <1>1, <1>2
  DEF FileInv, TempGrows, TempSafe, NeverTorn, EntriesOld, AckedDurable, Building

\* No version the directory may name is torn, and each has what was reported.
LEMMA PowerLossStep ==
  ASSUME TypeOK, FileInv, PowerLoss
  PROVE  FileInv' /\ file' \in entries
<1>1. PICK v \in entries :
        file' = [v EXCEPT !.torn = @ \/ ~v.synced, !.synced = TRUE]
  BY DEF PowerLoss
<1>2. v \in Versions /\ ~v.torn /\ v.synced
  BY DEF TypeOK, FileInv, NeverTorn
<1>3. file' = v
  BY <1>1, <1>2 DEF Versions
<1>4. \A c \in Callers : pc'[c] = "idle"
  BY DEF PowerLoss
<1> QED
  BY <1>2, <1>3, <1>4
  DEF PowerLoss, FileInv, TempGrows, TempSafe, NeverTorn, EntriesOld,
      AckedDurable, Building

LEMMA InvariantInit == Init => IInv
<1> SUFFICES ASSUME Init PROVE IInv
  OBVIOUS
<1>1. TypeOK
  BY InitType
<1>2. \A c \in Callers : pc[c] = "idle" /\ change[c] = None
  BY DEF Init
<1>3. file = NoVersion /\ entries = {NoVersion} /\ acked = {}
  BY DEF Init
<1> QED
  BY <1>1, <1>2, <1>3
  DEF IInv, LockHeld, IdleAsksNothing, FileInv, TempGrows, TempSafe, NeverTorn,
      EntriesOld, AckedDurable, Holding, Building, UpdateStages, NoVersion

LEMMA FileNext ==
  ASSUME IInv, [Next]_vars
  PROVE  FileInv'
<1>1. TypeOK /\ LockHeld /\ FileInv
  BY DEF IInv
<1>2. ASSUME NEW c \in Callers,
             CallLoad(c) \/ TakeMutex(c) \/ \E x \in Changes : CallUpdate(c, x)
      PROVE  FileInv'
  <2>1. /\ UNCHANGED <<file, entries, acked, temp>>
        /\ pc'[c] \in {"wait", "read", "lock"}
        /\ \A d \in Callers : d # c => pc'[d] = pc[d] /\ change'[d] = change[d]
    BY <1>1, <1>2 DEF CallLoad, TakeMutex, CallUpdate, Goto, TypeOK
  <2> QED
    BY <1>1, <2>1, QuietStep
<1>3. ASSUME NEW c \in Callers, CallStep(c)
      PROVE  FileInv'
  <2>1. CASE Read(c) \/ Fail(c)
    BY <1>1, <2>1, ReturnEffect, QuietStep DEF Read, Fail
  <2>2. CASE LockFile(c)
    <3>1. /\ UNCHANGED <<file, entries, acked, change, temp>> /\ pc'[c] = "load"
          /\ \A d \in Callers : d # c => pc'[d] = pc[d]
      BY <1>1, <2>2 DEF LockFile, Goto, TypeOK
    <3> QED
      BY <1>1, <3>1, QuietStep
  <2> QED
    BY <1>1, <1>3, <2>1, <2>2, BuildStep, RenameStep, FinishStep DEF CallStep
<1>4. ASSUME NEW s \in Stores, Crash(s)
      PROVE  FileInv'
  <2>1. \A d \in Callers :
          \/ pc'[d] = "idle"
          \/ pc'[d] = pc[d] /\ change'[d] = change[d] /\ temp'[d] = temp[d]
    BY <1>4 DEF Crash
  <2> QED
    BY <1>1, <1>4, <2>1, QuietStep DEF Crash
<1>5. CASE UNCHANGED vars
  BY <1>1, <1>5, QuietStep DEF vars
<1> QED
  BY <1>1, <1>2, <1>3, <1>4, <1>5, PowerLossStep DEF Next

\* The inductive invariant, from which the rest follows.
THEOREM Invariance == Spec => []IInv
<1>1. Init => IInv
  BY InvariantInit
<1>2. IInv /\ [Next]_vars => IInv'
  BY NextType, LockHeldNext, IdleNext, FileNext DEF IInv
<1> QED
  BY <1>1, <1>2, PTL DEF Spec

\* No version that state.json may name, after a power loss least of all, is
\* half a file.
THEOREM NeverTornHolds == Spec => []NeverTorn
<1>1. IInv => NeverTorn
  BY DEF IInv, FileInv
<1> QED
  BY <1>1, Invariance, PTL

\* What an Update reported as done is in all of them.
THEOREM AckedDurableHolds == Spec => []AckedDurable
<1>1. IInv => AckedDurable
  BY DEF IInv, FileInv
<1> QED
  BY <1>1, Invariance, PTL

-----------------------------------------------------------------------------
(* The steps of Update implement the atomic one.                           *)

\* A step after which nobody is at another side of the rename, and nobody asks
\* for anything else, is none of the atomic store.
LEMMA StutterStep ==
  ASSUME UNCHANGED <<file, acked, change>>,
         \A d \in Callers : (pc'[d] = "finish") = (pc[d] = "finish")
  PROVE  UNCHANGED Atomic!vars
BY DEF Atomic!vars, AbstractCall

\* A step after which some callers are idle and the others where they were.
LEMMA AbandonStep ==
  ASSUME UNCHANGED <<file, acked>>, NEW C \in SUBSET Callers,
         \A d \in C : pc'[d] = "idle" /\ change'[d] = None,
         \A d \in Callers \ C : pc'[d] = pc[d] /\ change'[d] = change[d]
  PROVE  Atomic!Next
<1>1. AbstractCall' = [d \in Callers |-> IF d \in C THEN Atomic!Idle
                                         ELSE AbstractCall[d]]
  <2>1. \A d \in C : [change |-> change'[d], made |-> pc'[d] = "finish"]
                     = Atomic!Idle
    BY DEF Atomic!Idle
  <2>2. \A d \in Callers \ C :
          [change |-> change'[d], made |-> pc'[d] = "finish"] = AbstractCall[d]
    BY DEF AbstractCall
  <2>3. AbstractCall' =
          [d \in Callers |-> [change |-> change'[d], made |-> pc'[d] = "finish"]]
    BY DEF AbstractCall
  <2> QED
    BY <2>1, <2>2, <2>3
<1>2. Atomic!Abandon(C)
  BY <1>1 DEF Atomic!Abandon
<1> QED
  BY <1>2 DEF Atomic!Next

Calls == [change : Changes \cup {None}, made : BOOLEAN]

LEMMA AbstractType ==
  ASSUME TypeOK, NEW c \in Callers
  PROVE  /\ AbstractCall[c] \in Calls
         /\ AbstractCall[c].change = change[c]
         /\ AbstractCall[c].made <=> pc[c] = "finish"
BY DEF TypeOK, AbstractCall, Calls

LEMMA AbstractTypeNext ==
  ASSUME TypeOK', NEW c \in Callers
  PROVE  /\ AbstractCall'[c] \in Calls
         /\ AbstractCall'[c].change = change'[c]
         /\ AbstractCall'[c].made <=> pc'[c] = "finish"
BY DEF TypeOK, AbstractCall, Calls

\* Two calls that differ in one field.
LEMMA ChangeOnly ==
  ASSUME NEW r \in Calls, NEW q \in Calls, q.made = r.made
  PROVE  [r EXCEPT !.change = q.change] = q
BY DEF Calls

LEMMA MadeOnly ==
  ASSUME NEW r \in Calls, NEW q \in Calls, q.change = r.change, q.made
  PROVE  [r EXCEPT !.made = TRUE] = q
BY DEF Calls

LEMMA BeginStep ==
  ASSUME IInv, TypeOK', NEW c \in Callers, NEW x \in Changes, CallUpdate(c, x)
  PROVE  Atomic!Next
<1>1. pc[c] = "idle" /\ change[c] = None /\ pc'[c] = "wait" /\ change'[c] = x
  BY DEF IInv, TypeOK, IdleAsksNothing, CallUpdate, Goto
<1>2. \A d \in Callers : d # c => pc'[d] = pc[d] /\ change'[d] = change[d]
  BY DEF IInv, TypeOK, CallUpdate, Goto
<1>3. AbstractCall[c] = Atomic!Idle
  BY <1>1 DEF AbstractCall, Atomic!Idle
<1>4. AbstractCall' = [AbstractCall EXCEPT ![c].change = x]
  <2>1. AbstractCall'[c] = [AbstractCall[c] EXCEPT !.change = x]
    <3>1. AbstractCall[c] \in Calls /\ ~AbstractCall[c].made
      BY <1>1, AbstractType DEF IInv
    <3>2. AbstractCall'[c] \in Calls /\ AbstractCall'[c].change = x
          /\ ~AbstractCall'[c].made
      BY <1>1, AbstractTypeNext
    <3>3. AbstractCall'[c].made = AbstractCall[c].made
      BY <3>1, <3>2 DEF Calls
    <3> QED
      BY <3>1, <3>2, <3>3, ChangeOnly
  <2> QED
    BY <1>2, <2>1 DEF AbstractCall
<1>5. Atomic!Begin(c, x)
  BY <1>3, <1>4 DEF Atomic!Begin, CallUpdate
<1> QED
  BY <1>5 DEF Atomic!Next

LEMMA MakeStep ==
  ASSUME IInv, TypeOK', NEW c \in Callers, Rename(c)
  PROVE  Atomic!Next
<1>1. /\ pc[c] = "rename" /\ pc'[c] = "finish" /\ change[c] # None
      /\ UNCHANGED <<change, acked>> /\ file' = temp[c]
      /\ \A d \in Callers : d # c => pc'[d] = pc[d]
  BY DEF IInv, TypeOK, Rename, Goto, UpdateStages
<1>2. file'.done = file.done \cup {change[c]}
  BY <1>1 DEF IInv, FileInv, TempGrows, Building
<1>3. AbstractCall[c] = [change |-> change[c], made |-> FALSE]
  BY <1>1 DEF AbstractCall
<1>4. AbstractCall' = [AbstractCall EXCEPT ![c].made = TRUE]
  <2>1. AbstractCall'[c] = [AbstractCall[c] EXCEPT !.made = TRUE]
    <3>1. AbstractCall[c] \in Calls /\ AbstractCall[c].change = change[c]
      BY AbstractType DEF IInv
    <3>2. AbstractCall'[c] \in Calls /\ AbstractCall'[c].change = change[c]
          /\ AbstractCall'[c].made
      BY <1>1, AbstractTypeNext
    <3> QED
      BY <3>1, <3>2, MadeOnly
  <2> QED
    BY <1>1, <2>1 DEF AbstractCall
<1>5. Atomic!Make(c)
  BY <1>1, <1>2, <1>3, <1>4 DEF Atomic!Make
<1> QED
  BY <1>5 DEF Atomic!Next

LEMMA SucceedStep ==
  ASSUME IInv, NEW c \in Callers, Finish(c)
  PROVE  Atomic!Next
<1>1. /\ pc[c] = "finish" /\ pc'[c] = "idle" /\ change'[c] = None
      /\ file' = file /\ acked' = acked \cup {change[c]}
      /\ \A d \in Callers : d # c => pc'[d] = pc[d] /\ change'[d] = change[d]
  BY ReturnEffect DEF IInv, Finish
<1>2. AbstractCall[c] = [change |-> change[c], made |-> TRUE]
  BY <1>1 DEF AbstractCall
<1>3. AbstractCall' = [AbstractCall EXCEPT ![c] = Atomic!Idle]
  <2>1. [change |-> change'[c], made |-> pc'[c] = "finish"] = Atomic!Idle
    BY <1>1 DEF Atomic!Idle
  <2> QED
    BY <1>1, <2>1 DEF AbstractCall
<1>4. Atomic!Succeed(c)
  BY <1>1, <1>2, <1>3 DEF Atomic!Succeed
<1> QED
  BY <1>4 DEF Atomic!Next

LEMMA LossStep ==
  ASSUME IInv, PowerLoss
  PROVE  Atomic!Next
<1>1. file' \in entries /\ AckedDurable
  BY PowerLossStep DEF IInv, FileInv
<1>2. file'.done \in SUBSET file.done /\ acked \subseteq file'.done
  BY <1>1 DEF IInv, FileInv, EntriesOld, AckedDurable
<1>3. AbstractCall' = [c \in Callers |-> Atomic!Idle]
  <2>1. \A c \in Callers : pc'[c] = "idle" /\ change'[c] = None
    BY DEF PowerLoss
  <2> QED
    BY <2>1 DEF AbstractCall, Atomic!Idle
<1>4. Atomic!PowerLoss
  BY <1>2, <1>3 DEF Atomic!PowerLoss, PowerLoss
<1> QED
  BY <1>4 DEF Atomic!Next

LEMMA StepImplements ==
  ASSUME IInv, [Next]_vars
  PROVE  Atomic!Next \/ UNCHANGED Atomic!vars
<1>1. TypeOK /\ TypeOK'
  BY NextType DEF IInv
<1>2. ASSUME NEW c \in Callers, NEW stage, Goto(c, stage), stage # "finish",
             pc[c] # "finish", UNCHANGED <<file, acked, change>>
      PROVE  UNCHANGED Atomic!vars
  BY <1>1, <1>2, StutterStep DEF Goto, TypeOK
<1>3. ASSUME NEW c \in Callers, Read(c) \/ Fail(c)
      PROVE  Atomic!Next
  <2>1. /\ UNCHANGED <<file, acked>> /\ pc'[c] = "idle" /\ change'[c] = None
        /\ \A d \in Callers : d # c => pc'[d] = pc[d] /\ change'[d] = change[d]
    BY <1>1, <1>3, ReturnEffect DEF Read, Fail
  <2>2. /\ {c} \in SUBSET Callers
        /\ \A d \in {c} : pc'[d] = "idle" /\ change'[d] = None
        /\ \A d \in Callers \ {c} : pc'[d] = pc[d] /\ change'[d] = change[d]
    BY <2>1
  <2> QED
    BY <2>1, <2>2, AbandonStep
<1>4. ASSUME NEW c \in Callers,
             CallLoad(c) \/ TakeMutex(c) \/ LockFile(c) \/ LoadAndChange(c)
             \/ CreateTemp(c) \/ WriteTemp(c) \/ SyncTemp(c)
      PROVE  UNCHANGED Atomic!vars
  <2>1. /\ UNCHANGED <<file, acked, change>> /\ pc[c] # "finish"
        /\ \E stage : stage # "finish" /\ Goto(c, stage)
    BY <1>4 DEF CallLoad, TakeMutex, LockFile, LoadAndChange, CreateTemp,
                WriteTemp, SyncTemp
  <2> QED
    BY <1>2, <2>1
<1>5. ASSUME NEW s \in Stores, Crash(s)
      PROVE  Atomic!Next
  <2> DEFINE dead == {c \in Callers : StoreOf(c) = s}
  <2>1. /\ dead \in SUBSET Callers /\ UNCHANGED <<file, acked>>
        /\ \A d \in dead : pc'[d] = "idle" /\ change'[d] = None
        /\ \A d \in Callers \ dead : pc'[d] = pc[d] /\ change'[d] = change[d]
    BY <1>5 DEF Crash
  <2> HIDE DEF dead
  <2> QED
    BY <2>1, AbandonStep
<1>6. CASE UNCHANGED vars
  BY <1>6, StutterStep DEF vars
<1> QED
  BY <1>1, <1>3, <1>4, <1>5, <1>6, BeginStep, MakeStep, SucceedStep, LossStep
  DEF Next, CallStep

\* The steps of Update, on any number of Stores and goroutines, with crashes
\* and power loss, are those of an Update that is made at one instant.
THEOREM Implements == Spec => AtomicSpec
<1>1. ASSUME Init
      PROVE  Atomic!Init
  <2>1. \A c \in Callers : pc[c] = "idle" /\ change[c] = None
    BY <1>1 DEF Init
  <2>2. \A c \in Callers : [change |-> change[c], made |-> pc[c] = "finish"]
                          = Atomic!Idle
    BY <2>1 DEF Atomic!Idle
  <2>3. file.done = {} /\ acked = {}
    BY <1>1 DEF Init, NoVersion
  <2> QED
    BY <2>2, <2>3 DEF Atomic!Init, AbstractCall
<1>2. IInv /\ [Next]_vars => [Atomic!Next]_(Atomic!vars)
  BY StepImplements
<1> QED
  BY <1>1, <1>2, Invariance, PTL DEF Spec, AtomicSpec, Atomic!Spec
==============================================================================
