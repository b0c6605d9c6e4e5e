----------------------------- MODULE StateStore ------------------------------
(***************************************************************************)
(* The state file (internal/state/store.go, lock_*.go, sync_*.go): Update  *)
(* loads it, changes it and replaces it by a new file, under the mutex of  *)
(* the Store and the lock file of the directory; Load reads it under the   *)
(* mutex alone. Any step may fail, a process may die and the machine may   *)
(* lose power between any two steps.                                       *)
(*                                                                         *)
(* A version of the file is the set of changes made to it; a missing file  *)
(* is a file without changes, as loadUnlocked has it.                      *)
(***************************************************************************)
EXTENDS FiniteSets

CONSTANTS
  Stores,   \* Store values on one directory: old and new engine, or processes
  Slots,    \* goroutines that use the same Store
  Changes,  \* updates to make, each of them once
  None

VARIABLES
  file,     \* the version state.json names
  entries,  \* the versions it may name after power is lost
  mutex,    \* mutex[s]: the caller that holds the Store's mutex
  flock,    \* the Store that holds the lock file
  pc,       \* pc[c]: where the call of caller c stands
  change,   \* change[c]: what it wants to change; None for Load
  temp,     \* temp[c]: the version it is building
  acked     \* history: changes whose Update returned no error

vars == <<file, entries, mutex, flock, pc, change, temp, acked>>

Callers == Stores \X Slots
StoreOf(c) == c[1]

ASSUME NoneAssumption == None \notin Callers \cup Stores \cup Changes

\* synced: the content is on the disk and not only in the page cache.
Versions == [done : SUBSET Changes, synced : BOOLEAN, torn : BOOLEAN]
NoVersion == [done |-> {}, synced |-> TRUE, torn |-> FALSE]

UpdateStages == {"lock", "load", "create", "write", "sync", "rename", "finish"}

Init ==
  /\ file = NoVersion /\ entries = {NoVersion}
  /\ mutex = [s \in Stores |-> None]
  /\ flock = None
  /\ pc = [c \in Callers |-> "idle"]
  /\ change = [c \in Callers |-> None]
  /\ temp = [c \in Callers |-> NoVersion]
  /\ acked = {}

Goto(c, stage) == pc' = [pc EXCEPT ![c] = stage]

\* The deferred Close of the lock file, if it is held, and Unlock of the mutex.
Return(c) ==
  /\ Goto(c, "idle")
  /\ change' = [change EXCEPT ![c] = None]
  /\ temp' = [temp EXCEPT ![c] = NoVersion]
  /\ mutex' = [mutex EXCEPT ![StoreOf(c)] = None]
  /\ flock' = IF pc[c] \in UpdateStages \ {"lock"} THEN None ELSE flock

-----------------------------------------------------------------------------
CallUpdate(c, x) ==
  /\ pc[c] = "idle"
  /\ \A d \in Callers : change[d] # x
  /\ x \notin acked
  /\ Goto(c, "wait")
  /\ change' = [change EXCEPT ![c] = x]
  /\ UNCHANGED <<file, entries, mutex, flock, temp, acked>>

CallLoad(c) ==
  /\ pc[c] = "idle"
  /\ Goto(c, "wait")
  /\ UNCHANGED <<file, entries, mutex, flock, change, temp, acked>>

\* A variant of TakeMutex for a Store without a mutex.
TakeNoMutex(c) ==
  /\ pc[c] = "wait"
  /\ mutex' = [mutex EXCEPT ![StoreOf(c)] = c]
  /\ Goto(c, IF change[c] = None THEN "read" ELSE "lock")
  /\ UNCHANGED <<file, entries, flock, change, temp, acked>>

TakeMutex(c) ==
  /\ pc[c] = "wait"
  /\ mutex[StoreOf(c)] = None
  /\ mutex' = [mutex EXCEPT ![StoreOf(c)] = c]
  /\ Goto(c, IF change[c] = None THEN "read" ELSE "lock")
  /\ UNCHANGED <<file, entries, flock, change, temp, acked>>

\* Load: whatever it reads, it returns.
Read(c) ==
  /\ pc[c] = "read"
  /\ Return(c)
  /\ UNCHANGED <<file, entries, acked>>

\* A variant of LockFile that does not look whether the lock is free.
LockAnyway(c) ==
  /\ pc[c] = "lock"
  /\ flock' = StoreOf(c)
  /\ Goto(c, "load")
  /\ UNCHANGED <<file, entries, mutex, change, temp, acked>>

\* acquireFileLock does not wait: when another Store holds the lock, see Fail.
LockFile(c) ==
  /\ pc[c] = "lock"
  /\ flock = None
  /\ flock' = StoreOf(c)
  /\ Goto(c, "load")
  /\ UNCHANGED <<file, entries, mutex, change, temp, acked>>

\* loadUnlocked and the update function; a torn file is refused.
LoadAndChange(c) ==
  /\ pc[c] = "load"
  /\ ~file.torn
  /\ temp' = [temp EXCEPT ![c] = [done |-> file.done \cup {change[c]},
                                  synced |-> FALSE, torn |-> TRUE]]
  /\ Goto(c, "create")
  /\ UNCHANGED <<file, entries, mutex, flock, change, acked>>

CreateTemp(c) ==
  /\ pc[c] = "create"
  /\ Goto(c, "write")
  /\ UNCHANGED <<file, entries, mutex, flock, change, temp, acked>>

WriteTemp(c) ==
  /\ pc[c] = "write"
  /\ temp' = [temp EXCEPT ![c].torn = FALSE]
  /\ Goto(c, "sync")
  /\ UNCHANGED <<file, entries, mutex, flock, change, acked>>

\* A variant of SyncTemp that only closes the file.
CloseTemp(c) ==
  /\ pc[c] = "sync"
  /\ Goto(c, "rename")
  /\ UNCHANGED <<file, entries, mutex, flock, change, temp, acked>>

SyncTemp(c) ==
  /\ pc[c] = "sync"
  /\ temp' = [temp EXCEPT ![c].synced = TRUE]
  /\ Goto(c, "rename")
  /\ UNCHANGED <<file, entries, mutex, flock, change, acked>>

\* replaceFile: readers see the new version at once; after a power loss the
\* directory may name it or an older one.
Rename(c) ==
  /\ pc[c] = "rename"
  /\ file' = temp[c]
  /\ entries' = entries \cup {temp[c]}
  /\ Goto(c, "finish")
  /\ UNCHANGED <<mutex, flock, change, temp, acked>>

\* A variant of Finish that returns without syncDirectory.
FinishUnsynced(c) ==
  /\ pc[c] = "finish"
  /\ acked' = acked \cup {change[c]}
  /\ Return(c)
  /\ UNCHANGED <<file, entries>>

\* Chmod and syncDirectory: now the replacement is on the disk.
Finish(c) ==
  /\ pc[c] = "finish"
  /\ entries' = {file}
  /\ acked' = acked \cup {change[c]}
  /\ Return(c)
  /\ UNCHANGED file

\* A variant of Fail that leaves the mutex locked.
FailLocked(c) ==
  /\ pc[c] \in UpdateStages
  /\ Goto(c, "idle")
  /\ change' = [change EXCEPT ![c] = None]
  /\ temp' = [temp EXCEPT ![c] = NoVersion]
  /\ flock' = IF pc[c] = "lock" THEN flock ELSE None
  /\ UNCHANGED <<file, entries, mutex, acked>>

\* Any step returns an error; the temporary file is removed. In the last stage
\* the file has been replaced all the same.
Fail(c) ==
  /\ pc[c] \in UpdateStages
  /\ Return(c)
  /\ UNCHANGED <<file, entries, acked>>

-----------------------------------------------------------------------------
\* The process of a Store dies: the kernel drops its lock.
Crash(s) ==
  LET dead == {c \in Callers : StoreOf(c) = s} IN
  /\ \E c \in dead : pc[c] # "idle"
  /\ pc' = [c \in Callers |-> IF c \in dead THEN "idle" ELSE pc[c]]
  /\ change' = [c \in Callers |-> IF c \in dead THEN None ELSE change[c]]
  /\ temp' = [c \in Callers |-> IF c \in dead THEN NoVersion ELSE temp[c]]
  /\ mutex' = [mutex EXCEPT ![s] = None]
  /\ flock' = IF flock = s THEN None ELSE flock
  /\ UNCHANGED <<file, entries, acked>>

\* Power is lost: state.json is one of the versions it may name; what was not
\* synced is torn.
PowerLoss ==
  /\ \E v \in entries :
       file' = [v EXCEPT !.torn = @ \/ ~v.synced, !.synced = TRUE]
  /\ entries' = {file'}
  /\ mutex' = [s \in Stores |-> None]
  /\ flock' = None
  /\ pc' = [c \in Callers |-> "idle"]
  /\ change' = [c \in Callers |-> None]
  /\ temp' = [c \in Callers |-> NoVersion]
  /\ UNCHANGED acked

CallStep(c) ==
  \/ Read(c) \/ LockFile(c) \/ LoadAndChange(c) \/ CreateTemp(c)
  \/ WriteTemp(c) \/ SyncTemp(c) \/ Rename(c) \/ Finish(c) \/ Fail(c)

Next ==
  \/ \E c \in Callers :
       CallLoad(c) \/ TakeMutex(c) \/ CallStep(c)
       \/ \E x \in Changes : CallUpdate(c, x)
  \/ \E s \in Stores : Crash(s)
  \/ PowerLoss

Spec == Init /\ [][Next]_vars

\* The steps of a call do not wait for anything, and sync.Mutex hands itself
\* over to a goroutine that has waited for a millisecond.
FairSpec ==
  /\ Spec
  /\ \A c \in Callers : WF_vars(CallStep(c)) /\ SF_vars(TakeMutex(c))

-----------------------------------------------------------------------------
\* Types; a call beyond the mutex holds it, and beyond the lock file that too.
TypeOK ==
  /\ file \in Versions /\ entries \subseteq Versions /\ file \in entries
  /\ mutex \in [Stores -> Callers \cup {None}]
  /\ flock \in Stores \cup {None}
  /\ pc \in [Callers -> {"idle", "wait", "read"} \cup UpdateStages]
  /\ change \in [Callers -> Changes \cup {None}]
  /\ temp \in [Callers -> Versions]
  /\ acked \in SUBSET Changes
  /\ \A c \in Callers :
       /\ pc[c] \notin {"idle", "wait"} => mutex[StoreOf(c)] = c
       /\ pc[c] \in UpdateStages => change[c] # None

\* No reader ever finds half a file, after a power loss least of all: the
\* content is synced before the rename (saveUnlocked, lines 117 and 125).
NeverTorn == \A v \in entries : ~v.torn /\ v.synced

\* What an Update reported as done is in every version that state.json may
\* name after a power loss: the directory is synced before the return, and
\* nobody saves a state he loaded before another one saved his.
AckedDurable == \A v \in entries : acked \subseteq v.done

\* The calls the atomic store sees.
AbstractCall ==
  [c \in Callers |->
     [change |-> change[c], made |-> pc[c] = "finish"]]

\* The steps of saveUnlocked implement the atomic Update that the reset engine
\* relies on.
Atomic == INSTANCE AtomicStore WITH content <- file.done, call <- AbstractCall
AtomicSpec == Atomic!Spec

\* Every call returns: nobody keeps the mutex or waits for the lock file.
CallEnds == \A c \in Callers : (pc[c] # "idle") ~> (pc[c] = "idle")
==============================================================================
