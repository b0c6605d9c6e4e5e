----------------------------- MODULE AtomicStore -----------------------------
(***************************************************************************)
(* What the rest of the plugin takes Store.Update to be: a change that is  *)
(* made to the state at one instant between call and return, or not at     *)
(* all. A call that returns an error may or may not have made its change;  *)
(* one that returned no error has made it for good, power loss included.   *)
(***************************************************************************)
CONSTANTS Callers, Changes, None

VARIABLES
  content,  \* the changes the state has undergone
  acked,    \* those whose Update returned no error
  call      \* call[c]: the change c is asking for and whether it is made

vars == <<content, acked, call>>

Idle == [change |-> None, made |-> FALSE]

Init ==
  /\ content = {} /\ acked = {}
  /\ call = [c \in Callers |-> Idle]

Begin(c, x) ==
  /\ call[c] = Idle
  /\ call' = [call EXCEPT ![c].change = x]
  /\ UNCHANGED <<content, acked>>

Make(c) ==
  /\ call[c].change # None /\ ~call[c].made
  /\ content' = content \cup {call[c].change}
  /\ call' = [call EXCEPT ![c].made = TRUE]
  /\ UNCHANGED acked

Succeed(c) ==
  /\ call[c].made
  /\ acked' = acked \cup {call[c].change}
  /\ call' = [call EXCEPT ![c] = Idle]
  /\ UNCHANGED content

\* An error, or the death of the calling process.
Abandon(C) ==
  /\ call' = [c \in Callers |-> IF c \in C THEN Idle ELSE call[c]]
  /\ UNCHANGED <<content, acked>>

PowerLoss ==
  /\ content' \in SUBSET content /\ acked \subseteq content'
  /\ call' = [c \in Callers |-> Idle]
  /\ UNCHANGED acked

Next ==
  \/ \E c \in Callers : Make(c) \/ Succeed(c) \/ \E x \in Changes : Begin(c, x)
  \/ \E C \in SUBSET Callers : Abandon(C)
  \/ PowerLoss

Spec == Init /\ [][Next]_vars
==============================================================================
