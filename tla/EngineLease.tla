----------------------------- MODULE EngineLease -----------------------------
(***************************************************************************)
(* Who may work on a state directory: at most one engine is active, only   *)
(* the active one begins a scan, one scan runs at a time, and another      *)
(* engine is activated only when the last one was stopped and its scan has *)
(* ended. The plugin runtime keeps this rule among the engines it creates; *)
(* a reset engine that is alone on its directory lives by it.              *)
(***************************************************************************)
CONSTANTS Engines, Scanners

VARIABLES
  active,    \* the engines that may begin a scan
  scanning   \* the scans that run: who scans, with which engine

vars == <<active, scanning>>

Init ==
  /\ active = {} \/ \E i \in Engines : active = {i}
  /\ scanning = {}

Activate(i) ==
  /\ active = {} /\ scanning = {}
  /\ active' = {i}
  /\ UNCHANGED scanning

\* The scan that runs goes on until it notices.
Stop(i) ==
  /\ i \in active
  /\ active' = active \ {i}
  /\ UNCHANGED scanning

Begin(x, i) ==
  /\ i \in active /\ scanning = {}
  /\ scanning' = {<<x, i>>}
  /\ UNCHANGED active

End == scanning # {} /\ scanning' = {} /\ UNCHANGED active

\* The process dies.
Crash == active' = {} /\ scanning' = {}

Next ==
  \/ \E i \in Engines : Activate(i) \/ Stop(i)
  \/ \E x \in Scanners, i \in Engines : Begin(x, i)
  \/ End \/ Crash

Spec == Init /\ [][Next]_vars
==============================================================================
