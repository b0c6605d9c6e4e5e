---------------------------- MODULE AttemptLedger ----------------------------
(***************************************************************************)
(* What the reset engine promises its user about money: an account has at  *)
(* most one attempt at a time, an attempt is on record before the service  *)
(* redeems anything for it, and it is written off as failed only if the    *)
(* service has not redeemed it and never will.                             *)
(***************************************************************************)
CONSTANTS Accounts, Keys, None

VARIABLES
  current,   \* current[a]: the key of the account's open attempt, or None
  fate,      \* fate[k]: "unused", "open", "success" or "failed"
  redeemed   \* the keys for which the service redeemed a credit

vars == <<current, fate, redeemed>>

Init ==
  /\ current = [a \in Accounts |-> None]
  /\ fate = [k \in Keys |-> "unused"]
  /\ redeemed = {}

Open(a, k) ==
  /\ current[a] = None /\ fate[k] = "unused"
  /\ current' = [current EXCEPT ![a] = k]
  /\ fate' = [fate EXCEPT ![k] = "open"]
  /\ UNCHANGED redeemed

Redeem(a) ==
  /\ current[a] # None
  /\ redeemed' = redeemed \cup {current[a]}
  /\ UNCHANGED <<current, fate>>

Close(a, verdict) ==
  /\ current[a] # None
  /\ verdict = "failed" => current[a] \notin redeemed
  /\ fate' = [fate EXCEPT ![current[a]] = verdict]
  /\ current' = [current EXCEPT ![a] = None]
  /\ UNCHANGED redeemed

Next ==
  \E a \in Accounts :
    \/ \E k \in Keys : Open(a, k)
    \/ Redeem(a)
    \/ \E verdict \in {"success", "failed"} : Close(a, verdict)

Spec == Init /\ [][Next]_vars
==============================================================================
